--------------------------- MODULE WorkerService ---------------------------
(***************************************************************************)
(* What a threaded jalv worker promises to the plugin (worker.h), with no  *)
(* thread, ring, semaphore or lock in sight: requests the plugin was told  *)
(* are accepted are taken one at a time and in order, each at most once;   *)
(* the replies made while serving them reach the plugin once and in order; *)
(* while the service is open an accepted request does not wait for ever.   *)
(***************************************************************************)
EXTENDS Naturals, Sequences

CONSTANT Requests   \* names of requests, Idle not among them

VARIABLES
  open,       \* requests are accepted and served
  pending,    \* accepted requests, oldest first
  serving,    \* the request in work(), or Idle
  replies,    \* replies the plugin has not seen, oldest first
  delivered   \* replies the plugin has seen, in order

vars == <<open, pending, serving, replies, delivered>>

Idle == 0

Init ==
  /\ open = FALSE
  /\ pending = <<>> /\ serving = Idle
  /\ replies = <<>> /\ delivered = <<>>

Open  == ~open /\ pending = <<>> /\ open' = TRUE
         /\ UNCHANGED <<pending, serving, replies, delivered>>
Close == open /\ open' = FALSE
         /\ UNCHANGED <<pending, serving, replies, delivered>>

Accept == /\ open
          /\ \E r \in Requests : pending' = Append(pending, r)
          /\ UNCHANGED <<open, serving, replies, delivered>>

\* The oldest request leaves the queue, to be served or, when there is no
\* memory to hold it, to be dropped.  One may still start after Close.
Take == /\ serving = Idle /\ pending # <<>>
        /\ pending' = Tail(pending)
        /\ serving' \in {Head(pending), Idle}
        /\ UNCHANGED <<open, replies, delivered>>

Reply  == /\ serving # Idle
          /\ replies' = Append(replies, serving)
          /\ UNCHANGED <<open, pending, serving, delivered>>
Finish == /\ serving # Idle /\ serving' = Idle
          /\ UNCHANGED <<open, pending, replies, delivered>>

Deliver == /\ replies # <<>>
           /\ delivered' = Append(delivered, Head(replies))
           /\ replies' = Tail(replies)
           /\ UNCHANGED <<open, pending, serving>>

Next == Open \/ Close \/ Accept \/ Take \/ Reply \/ Finish \/ Deliver

SafeSpec == Init /\ [][Next]_vars

\* An open service keeps taking requests, and a request taken is finished.
Spec == SafeSpec /\ WF_vars(open /\ Take) /\ WF_vars(Finish)
============================================================================
