----------------------------- MODULE JalvWorker -----------------------------
(***************************************************************************)
(* worker.c: the host side of the LV2 worker extension.  One threaded      *)
(* worker (a request ring, a response ring, a semaphore and a thread) and  *)
(* one single-threaded worker used while a state is restored share the     *)
(* lock that keeps calls of the plugin's work() apart.                     *)
(*                                                                         *)
(* Three threads act: the main thread launches, restores, exits and frees; *)
(* the audio thread schedules from run() and emits responses; the worker   *)
(* thread serves.  A packet counts one slot of its ring whatever its size: *)
(* all that matters here is whether it fits.  A call that is refused       *)
(* (size 0, a stopped worker, a full ring) changes nothing and is a        *)
(* stuttering step.                                                        *)
(***************************************************************************)
EXTENDS Naturals, Sequences

CONSTANTS
  RingSlots,    \* packets a request or response ring holds
  MaxRequests,  \* bound: requests accepted in a behaviour
  MaxReplies,   \* bound: respond() calls made by one work() call
  MaxRestores   \* bound: state restores in a behaviour

ASSUME WorkerAssumption ==
  /\ RingSlots \in Nat \ {0}
  /\ MaxRequests \in Nat /\ MaxReplies \in Nat /\ MaxRestores \in Nat

VARIABLES
  state,       \* WorkerState of the threaded worker
  requests,    \* request ring: identities of the packets, oldest first
  responses,   \* response ring: the request each packet answers
  sresponses,  \* response ring of the single-threaded worker
  sem,         \* value of worker->sem
  lock,        \* value of the shared work lock
  wpc,         \* where the worker thread is
  held,        \* request the worker thread has read (0: none)
  replied,     \* responses made for it
  apc,         \* where the audio thread is in its cycle
  mpc,         \* where the main thread is in the life of the worker
  rpc,         \* where the main thread is in a restore's schedule call
  restores,    \* restores begun
  accepted,    \* history: requests accepted, which also names them
  taken,       \* history: requests read or skipped
  atExit,      \* history: taken when exit was requested
  emitted      \* history: responses handed to the plugin

wvars == <<state, requests, responses, sem, held, wpc, replied>>
hist  == <<accepted, taken, atExit, emitted>>
vars  == <<wvars, hist, sresponses, lock, apc, mpc, rpc, restores>>

Init ==
  /\ state = "STOPPED" /\ wpc = "none"
  /\ requests = <<>> /\ responses = <<>> /\ sresponses = <<>>
  /\ sem = 0 /\ lock = 1
  /\ held = 0 /\ replied = 0
  /\ apc = "off" /\ mpc = "new" /\ rpc = "none" /\ restores = 0
  /\ accepted = 0 /\ taken = 0 /\ atExit = 0 /\ emitted = <<>>

\* zix_sem_wait on the work lock passes.
LockFree_Ignored == TRUE
LockFree == lock > 0

\* The worker's test after its wait.
ExitSeen == state = "MUST_EXIT"

\* zix_thread_join returns.
Joined == wpc = "done"

\* What zix_ring_read returns of a ring that is not empty.
Oldest_Newest(ring) == ring[Len(ring)]
Oldest(ring) == Head(ring)
-----------------------------------------------------------------------------
(* Main thread.                                                            *)

\* jalv_worker_launch: the thread runs before the state says so.
LaunchThread ==
  /\ mpc = "new" /\ rpc = "none" /\ state = "STOPPED"
  /\ sem' = 0 /\ wpc' = "wait" /\ mpc' = "launching"
  /\ UNCHANGED <<state, requests, responses, held, replied, hist, sresponses,
                 lock, apc, rpc, restores>>

LaunchFails ==
  /\ mpc = "new" /\ rpc = "none"
  /\ mpc' = "launched"
  /\ UNCHANGED <<wvars, hist, sresponses, lock, apc, rpc, restores>>

SetLaunched ==
  /\ mpc = "launching"
  /\ state' = "LAUNCHED" /\ mpc' = "launched"
  /\ UNCHANGED <<requests, responses, sem, held, wpc, replied, hist,
                 sresponses, lock, apc, rpc, restores>>

\* jalv_activate and jalv_deactivate around the worker: JACK starts calling
\* the process callback, and stopping it waits for a cycle in progress.
StartAudio ==
  /\ mpc = "launched" /\ mpc' = "active" /\ apc' = "idle"
  /\ UNCHANGED <<wvars, hist, sresponses, lock, rpc, restores>>

StopAudio ==
  /\ mpc = "active" /\ rpc = "none" /\ mpc' = "stopping"
  /\ UNCHANGED <<wvars, hist, sresponses, lock, apc, rpc, restores>>

AudioStopped ==
  /\ mpc = "stopping" /\ apc = "idle"
  /\ mpc' = "stopped" /\ apc' = "off"
  /\ UNCHANGED <<wvars, hist, sresponses, lock, rpc, restores>>

\* jalv_worker_exit: nothing to do unless launched, else flag, wake, join.
ExitNothing ==
  /\ mpc = "stopped" /\ state # "LAUNCHED"
  /\ mpc' = "exited"
  /\ UNCHANGED <<wvars, hist, sresponses, lock, apc, rpc, restores>>

ExitFlag ==
  /\ mpc = "stopped" /\ state = "LAUNCHED"
  /\ state' = "MUST_EXIT" /\ mpc' = "exit_flagged" /\ atExit' = taken
  /\ UNCHANGED <<requests, responses, sem, held, wpc, replied, accepted, taken,
                 emitted, sresponses, lock, apc, rpc, restores>>

ExitWake_Forgotten ==
  /\ mpc = "exit_flagged" /\ mpc' = "exit_join"
  /\ UNCHANGED <<wvars, hist, sresponses, lock, apc, rpc, restores>>
ExitWake ==
  /\ mpc = "exit_flagged"
  /\ sem' = sem + 1 /\ mpc' = "exit_join"
  /\ UNCHANGED <<state, requests, responses, held, wpc, replied, hist,
                 sresponses, lock, apc, rpc, restores>>

ExitJoin ==
  /\ mpc = "exit_join" /\ Joined
  /\ mpc' = "exited"
  /\ UNCHANGED <<wvars, hist, sresponses, lock, apc, rpc, restores>>

\* jalv_worker_free after the last exit; also after an open that failed.
Free ==
  /\ mpc \in {"new", "exited"} /\ rpc = "none" /\ mpc' = "freed"
  /\ UNCHANGED <<wvars, hist, sresponses, lock, apc, rpc, restores>>

\* jalv_worker_schedule on the single-threaded worker, called by the plugin's
\* restore(): work() runs here, under the lock.
RestoreSchedule ==
  /\ mpc \in {"new", "active"} /\ rpc = "none" /\ restores < MaxRestores
  /\ rpc' = "lock" /\ restores' = restores + 1
  /\ UNCHANGED <<wvars, hist, sresponses, lock, apc, mpc>>

RestoreLock ==
  /\ rpc = "lock" /\ LockFree
  /\ lock' = lock - 1 /\ rpc' = "work"
  /\ UNCHANGED <<wvars, hist, sresponses, apc, mpc, restores>>

RestoreRespond ==
  /\ rpc = "work" /\ Len(sresponses) < RingSlots
  /\ sresponses' = Append(sresponses, restores)
  /\ UNCHANGED <<wvars, hist, lock, apc, mpc, rpc, restores>>

RestoreWorkDone ==
  /\ rpc = "work"
  /\ lock' = lock + 1 /\ rpc' = "none"
  /\ UNCHANGED <<wvars, hist, sresponses, apc, mpc, restores>>
-----------------------------------------------------------------------------
(* Audio thread: one cycle of jalv_run.                                    *)

BeginCycle ==
  /\ apc = "idle" /\ mpc = "active" /\ apc' = "run"
  /\ UNCHANGED <<wvars, hist, sresponses, lock, mpc, rpc, restores>>

\* jalv_worker_schedule on the launched worker: commit the packet ...
ScheduleWrite ==
  /\ apc = "run" /\ state = "LAUNCHED"
  /\ Len(requests) < RingSlots /\ accepted < MaxRequests
  /\ accepted' = accepted + 1
  /\ requests' = Append(requests, accepted + 1)
  /\ apc' = "post"
  /\ UNCHANGED <<state, responses, sem, held, wpc, replied, taken, atExit,
                 emitted, sresponses, lock, mpc, rpc, restores>>

\* ... then wake the worker.
SchedulePost_Forgotten ==
  /\ apc = "post" /\ apc' = "run"
  /\ UNCHANGED <<wvars, hist, sresponses, lock, mpc, rpc, restores>>
SchedulePost ==
  /\ apc = "post" /\ sem' = sem + 1 /\ apc' = "run"
  /\ UNCHANGED <<state, requests, responses, held, wpc, replied, hist,
                 sresponses, lock, mpc, rpc, restores>>

FinishRun ==
  /\ apc = "run" /\ apc' = "emit_state"
  /\ UNCHANGED <<wvars, hist, sresponses, lock, mpc, rpc, restores>>

\* jalv_worker_emit_responses, for the state worker and then the worker: one
\* response per step until the ring is empty.
EmitStateResponse ==
  /\ apc = "emit_state"
  /\ IF sresponses # <<>>
     THEN sresponses' = Tail(sresponses) /\ UNCHANGED apc
     ELSE apc' = "emit" /\ UNCHANGED sresponses
  /\ UNCHANGED <<wvars, hist, lock, mpc, rpc, restores>>

EmitResponse ==
  /\ apc = "emit" /\ responses # <<>>
  /\ emitted' = Append(emitted, Oldest(responses))
  /\ responses' = Tail(responses)
  /\ UNCHANGED <<state, requests, sem, held, wpc, replied, accepted, taken,
                 atExit, sresponses, lock, apc, mpc, rpc, restores>>

\* jalv_worker_end_run closes the cycle.
EndRun ==
  /\ apc = "emit" /\ responses = <<>> /\ apc' = "idle"
  /\ UNCHANGED <<wvars, hist, sresponses, lock, mpc, rpc, restores>>
-----------------------------------------------------------------------------
(* Worker thread: worker_func.                                             *)

WaitRequest ==
  /\ wpc = "wait" /\ sem > 0
  /\ sem' = sem - 1 /\ wpc' = "check"
  /\ UNCHANGED <<state, requests, responses, held, replied, hist, sresponses,
                 lock, apc, mpc, rpc, restores>>

CheckExit ==
  /\ wpc = "check"
  /\ wpc' = IF ExitSeen THEN "leaving" ELSE "read"
  /\ UNCHANGED <<state, requests, responses, sem, held, replied, hist,
                 sresponses, lock, apc, mpc, rpc, restores>>

\* Reading an empty ring returns nothing and leaves size 0, so that the
\* worker would go on to work() with no request: held stays 0.
ReadRequest ==
  /\ wpc = "read" /\ wpc' = "lock" /\ replied' = 0
  /\ IF requests = <<>>
     THEN held' = 0 /\ UNCHANGED <<requests, taken>>
     ELSE /\ held' = Oldest(requests) /\ requests' = Tail(requests)
          /\ taken' = taken + 1
  /\ UNCHANGED <<state, responses, sem, accepted, atExit, emitted, sresponses,
                 lock, apc, mpc, rpc, restores>>

\* The buffer could not grow: the packet's body is skipped.
SkipRequest_NotSkipped ==
  /\ wpc = "read" /\ requests # <<>>
  /\ wpc' = "wait" /\ taken' = taken + 1
  /\ UNCHANGED <<state, requests, responses, sem, held, replied, accepted,
                 atExit, emitted, sresponses, lock, apc, mpc, rpc, restores>>
SkipRequest ==
  /\ wpc = "read" /\ requests # <<>>
  /\ wpc' = "wait" /\ requests' = Tail(requests) /\ taken' = taken + 1
  /\ UNCHANGED <<state, responses, sem, held, replied, accepted, atExit,
                 emitted, sresponses, lock, apc, mpc, rpc, restores>>

WorkLock ==
  /\ wpc = "lock" /\ LockFree
  /\ lock' = lock - 1 /\ wpc' = "work"
  /\ UNCHANGED <<state, requests, responses, sem, held, replied, hist,
                 sresponses, apc, mpc, rpc, restores>>

\* jalv_worker_respond, called by work().
Respond ==
  /\ wpc = "work" /\ replied < MaxReplies /\ Len(responses) < RingSlots
  /\ responses' = Append(responses, held) /\ replied' = replied + 1
  /\ UNCHANGED <<state, requests, sem, held, wpc, hist, sresponses, lock, apc,
                 mpc, rpc, restores>>

WorkDone ==
  /\ wpc = "work"
  /\ lock' = lock + 1 /\ wpc' = "wait" /\ held' = 0
  /\ UNCHANGED <<state, requests, responses, sem, replied, hist, sresponses,
                 apc, mpc, rpc, restores>>

ThreadStops ==
  /\ wpc = "leaving" /\ wpc' = "done" /\ state' = "STOPPED"
  /\ UNCHANGED <<requests, responses, sem, held, replied, hist, sresponses,
                 lock, apc, mpc, rpc, restores>>
-----------------------------------------------------------------------------
Main == \/ LaunchThread \/ LaunchFails \/ SetLaunched \/ StartAudio
        \/ StopAudio \/ AudioStopped
        \/ ExitNothing \/ ExitFlag \/ ExitWake \/ ExitJoin \/ Free
        \/ RestoreSchedule \/ RestoreLock \/ RestoreRespond \/ RestoreWorkDone

Audio == \/ BeginCycle \/ ScheduleWrite \/ SchedulePost \/ FinishRun
         \/ EmitStateResponse \/ EmitResponse \/ EndRun

Worker == \/ WaitRequest \/ CheckExit \/ ReadRequest \/ SkipRequest
          \/ WorkLock \/ Respond \/ WorkDone \/ ThreadStops

\* The life of a worker ends when it is freed.
Freed == mpc = "freed" /\ UNCHANGED vars

Next == Main \/ Audio \/ Worker \/ Freed

\* Threads that can run do run, JACK keeps calling the process callback, and
\* work() returns.  When the user restores or quits, and what the plugin
\* schedules, is not promised; what the host has begun is finished.
Fairness ==
  /\ WF_vars(Worker) /\ WF_vars(Audio)
  /\ WF_vars(RestoreLock \/ RestoreWorkDone)
  /\ WF_vars(SetLaunched \/ AudioStopped)
  /\ WF_vars(ExitNothing \/ ExitFlag \/ ExitWake \/ ExitJoin)

SafeSpec == Init /\ [][Next]_vars
Spec == SafeSpec /\ Fairness
-----------------------------------------------------------------------------
(* Properties.                                                             *)

TypeOK ==
  /\ state \in {"STOPPED", "LAUNCHED", "MUST_EXIT"}
  /\ requests \in Seq(Nat) /\ responses \in Seq(Nat) /\ sresponses \in Seq(Nat)
  /\ sem \in Nat /\ lock \in Nat /\ held \in Nat /\ replied \in Nat
  /\ wpc \in {"none", "wait", "check", "read", "lock", "work", "leaving", "done"}
  /\ apc \in {"off", "idle", "run", "post", "emit_state", "emit"}
  /\ mpc \in {"new", "launching", "launched", "active", "stopping", "stopped",
              "exit_flagged", "exit_join", "exited", "freed"}
  /\ rpc \in {"none", "lock", "work"} /\ restores \in Nat
  /\ accepted \in Nat /\ taken \in Nat /\ atExit \in Nat
  /\ emitted \in Seq(Nat)

One(b) == IF b THEN 1 ELSE 0

\* main has posted the wake-up for the exit
ExitPosted == mpc \in {"exit_join", "exited", "freed"} /\ wpc # "none"

\* Every count of the semaphore stands for one committed packet or for the
\* exit request, also in the windows between schedule's commit and its post
\* and between the worker's wait and its read (worker.c:69-81, 191-193).
SemCountsPackets ==
  sem + One(wpc \in {"check", "read", "leaving", "done"}) + One(apc = "post")
    = Len(requests) + One(ExitPosted)

\* A worker that goes on to read finds a packet: the exit wake-up is never
\* taken for a request, nor a request's wake-up for two (worker.c:74-75).
ReadFindsRequest == wpc = "read" => requests # <<>>

\* The ring holds exactly the accepted requests not yet taken, in the order
\* schedule accepted them, and the thread works on the last one it took: no
\* request is lost, repeated or overtaken (worker.c:37-50, 74-87).
QueueIsRest ==
  /\ requests = [i \in 1..(accepted - taken) |-> taken + i]
  /\ wpc \in {"lock", "work"} => held = taken /\ taken > 0

\* The plugin's work() is never entered by the worker thread and by a restore
\* in the main thread at once (worker.c:84-87, 198-201).
WorkExclusive == ~(wpc = "work" /\ rpc = "work")

\* Once exit is requested the thread serves at most the request whose wake-up
\* it had already accepted; everything queued behind it is dropped
\* (worker.c:69-72, 160-166).
ExitDropsQueue ==
  mpc \in {"exit_flagged", "exit_join", "exited", "freed"} => taken <= atExit + 1

\* When the rings are freed no thread is left that could touch them, and the
\* worker says it is stopped (worker.c:128-138, 159-167).
FreedIsQuiet ==
  mpc = "freed" => /\ apc = "off" /\ rpc = "none"
                   /\ wpc \in {"none", "done"} /\ state = "STOPPED"

\* The plugin sees responses in the order of the requests they answer, and
\* only for requests work() was called for (worker.c:52-58, 208-221).
RepliesInOrder ==
  LET seen == emitted \o responses
  IN \A i \in DOMAIN seen : /\ seen[i] \in 1..taken
                            /\ \A j \in 1..i : seen[j] <= seen[i]

\* The lock has one holder or is free.
LockCounts == lock + One(wpc = "work") + One(rpc = "work") = 1

\* The thread has a request in hand only on its way through work().
HeldInHand == wpc \notin {"lock", "work"} => held = 0

\* How far the main thread is tells what the other two threads can be doing:
\* the handshakes of launch, activation, deactivation and exit.
LifeCycle ==
  LET Serving == wpc \in {"wait", "check", "read", "lock", "work"}
  IN /\ mpc = "new" => state = "STOPPED" /\ wpc = "none"
     /\ mpc = "launching" => state = "STOPPED" /\ wpc = "wait"
     /\ mpc \in {"launched", "active", "stopping", "stopped"} =>
          \/ state = "LAUNCHED" /\ Serving
          \/ state = "STOPPED" /\ wpc = "none"
     /\ mpc \in {"exit_flagged", "exit_join"} =>
          \/ state = "MUST_EXIT" /\ (Serving \/ wpc = "leaving")
          \/ state = "STOPPED" /\ wpc = "done"
     /\ mpc \in {"exited", "freed"} => state = "STOPPED" /\ wpc \in {"none", "done"}
     /\ (apc # "off") <=> mpc \in {"active", "stopping"}
     /\ rpc # "none" => mpc \in {"new", "active"}
     /\ mpc \in {"new", "launching", "launched"} \/ wpc = "none" => accepted = 0

\* At most one request is still to be read after the exit request.
LastRead ==
  mpc \in {"exit_flagged", "exit_join", "exited", "freed"} =>
    taken + One(wpc = "read") <= atExit + 1

\* The inductive invariant behind the safety properties: what the semaphore
\* stands for, what the ring holds, who has the lock, and the life cycle.
IInv ==
  /\ TypeOK /\ SemCountsPackets /\ ReadFindsRequest /\ QueueIsRest
  /\ HeldInHand /\ LockCounts /\ LifeCycle /\ LastRead /\ taken <= accepted

\* jalv_worker_exit "blocks until the thread has exited", and it does exit.
ExitCompletes == mpc = "exit_flagged" ~> mpc \in {"exited", "freed"}

\* The worker implements the service worker.h documents: this hides the
\* semaphore, the lock, the thread and the launch and exit handshakes.
Service == INSTANCE WorkerService
             WITH Requests <- 1..MaxRequests, open <- state = "LAUNCHED",
                  pending <- requests, serving <- held,
                  replies <- responses, delivered <- emitted
ImplementsService == Service!Spec
=============================================================================
