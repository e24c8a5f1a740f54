------------------------------ MODULE FrontEnds ------------------------------
(***************************************************************************)
(* Both front ends of one fluidsynth: the C server of FluidUi and the      *)
(* handlers of the web UI (fluidsynth.go, parameter.go), one goroutine for *)
(* each post, which take turns under Mutex.                                *)
(***************************************************************************)
EXTENDS FluidUi

CONSTANT MaxPosts  \* bound: the posts browsers send to the web UI

ASSUME PostsAssumption == MaxPosts \in Nat

VARIABLES
  handler,     \* where each post is: none, lock, dial, read, assign, done
  post,        \* the setting and the value it carries
  conn,        \* the place of its command in sent
  mutex,       \* the post whose handler holds Mutex, or 0
  parameters   \* what the pages show of each setting

web == <<handler, post, conn, mutex, parameters>>
vars == <<fluidVars, web>>

Posts == 1..MaxPosts  \* as they arrive
NoPost == [ctl |-> "none", val |-> "none"]

Init ==
  /\ FluidInit
  /\ handler = [p \in Posts |-> "none"] /\ post = [p \in Posts |-> NoPost]
  /\ conn = [p \in Posts |-> 0] /\ mutex = 0
  /\ parameters = [c \in Controls |-> "default"]

At(p, here, next) == handler[p] = here /\ handler' = [handler EXCEPT ![p] = next]
-----------------------------------------------------------------------------
Post(p, c, v) ==
  /\ \A q \in 1..(p - 1) : handler[q] # "none"
  /\ At(p, "none", "lock") /\ post' = [post EXCEPT ![p] = [ctl |-> c, val |-> v]]
  /\ UNCHANGED <<fluidVars, conn, mutex, parameters>>

LockMutex_Free(p) ==
  /\ At(p, "lock", "dial") /\ mutex' = p
  /\ UNCHANGED <<fluidVars, post, conn, parameters>>
LockMutex(p) ==
  /\ mutex = 0 /\ At(p, "lock", "dial") /\ mutex' = p
  /\ UNCHANGED <<fluidVars, post, conn, parameters>>

\* No address, no connection, or a connection that cannot be written to: the
\* deferred call unlocks Mutex on every return.
DialFails_KeepsMutex(p) ==
  /\ At(p, "dial", "assign")
  /\ UNCHANGED <<fluidVars, post, conn, mutex, parameters>>
DialFails(p) ==
  /\ At(p, "dial", "assign") /\ mutex' = 0
  /\ UNCHANGED <<fluidVars, post, conn, parameters>>

DialAndWrite(p) ==
  /\ At(p, "dial", "read") /\ conn' = [conn EXCEPT ![p] = Len(sent["web"]) + 1]
  /\ sent' = [sent EXCEPT !["web"] =
                Append(@, [op |-> "set", ctl |-> post[p].ctl, val |-> post[p].val])]
  /\ UNCHANGED <<synth, browsers, server, serving, response, held, late,
                 post, mutex, parameters>>

\* The read ends at its deadline or when the connection is closed: any error
\* ends it.
ReadEnds(p) ==
  /\ At(p, "read", "assign") /\ mutex' = 0
  /\ late' = late \cup ({<<"web", conn[p]>>} \ carried)
  /\ UNCHANGED <<synth, sent, browsers, server, serving, response, held,
                 post, conn, parameters>>

\* Whatever became of the command.
Assign(p) ==
  /\ At(p, "assign", "done")
  /\ parameters' = [parameters EXCEPT ![post[p].ctl] = post[p].val]
  /\ post' = [post EXCEPT ![p] = NoPost] /\ conn' = [conn EXCEPT ![p] = 0]
  /\ UNCHANGED <<fluidVars, mutex>>

Handler(p) == LockMutex(p) \/ DialFails(p) \/ DialAndWrite(p) \/ ReadEnds(p) \/ Assign(p)

Next ==
  \/ FluidNext /\ UNCHANGED web
  \/ \E p \in Posts : Handler(p) \/ \E c \in Controls, v \in Values : Post(p, c, v)

\* The server's loop and the goroutines run; fluidsynth and the browsers may
\* stop at any time.
Spec == Init /\ [][Next]_vars /\ WF_vars(Server /\ UNCHANGED web)
             /\ \A p \in Posts : WF_vars(Handler(p))
-----------------------------------------------------------------------------
(* Properties.                                                             *)

\* fluidsynth carries out the commands of one front end in the order they
\* were sent, each on a thread of its own: an older one comes after a newer
\* one only if its sender had waited 10 ms for it in vain
\* (fluidsynth.go:107-108, 122, fluid-tcp-client.c:14-16).
OrderKept ==
  [][\A k \in carried' \ carried :
       k \in late \/ \A j \in carried : j[1] = k[1] => j[2] < k[2]]_vars

\* Every post ends, whatever becomes of its connection: none leaves Mutex
\* locked for the next (fluidsynth.go:107-146).
PostsEnd ==
  (\E p \in Posts : handler[p] = "lock") ~> \A p \in Posts : handler[p] \in {"none", "done"}
-----------------------------------------------------------------------------
(* What both safety properties rest on.                                    *)

TypeOK ==
  /\ sent \in [Clients -> Seq(Cmds)] /\ carried \subseteq Connections
  /\ queue \in Seq(1..MaxRequests) /\ requests \in 0..MaxRequests /\ client \in 0..MaxRequests
  /\ said \in [1..MaxRequests -> Requests \cup {NoRequest}] /\ todo \in Seq(Cmds)
  /\ server \in {"accept", "request", "command", "read", "respond", "killed"}
  /\ request \in Requests \cup {NoRequest}
  /\ result = [c \in Controls |-> result[c]] /\ value = [c \in Controls |-> value[c]]
  /\ held = [c \in Controls |-> held[c]]
  /\ handler \in [Posts -> {"none", "lock", "dial", "read", "assign", "done"}]
  /\ conn \in [Posts -> Nat] /\ mutex \in Nat
  /\ post \in [Posts -> [ctl : Controls, val : Values] \cup {NoPost}]

\* Inside FluidsynthCommand a post has Mutex, a command to send, and from then
\* on the last connection of the web UI.
MutexHeld ==
  \A p \in Posts :
    /\ handler[p] \in {"dial", "read"} => mutex = p
    /\ handler[p] \in {"lock", "dial"} => post[p] \in [ctl : Controls, val : Values]
    /\ handler[p] = "read" => conn[p] = Len(sent["web"])

\* A command neither carried out nor given up is the one its sender waits for.
Awaited(k) == \/ server = "read" /\ k = ServerConnection
              \/ \E p \in Posts : handler[p] = "read" /\ k = <<"web", conn[p]>>
OthersAreOver == \A k \in Connections : k \in carried \/ k \in late \/ Awaited(k)

\* Where the server is fits what it has still to do.
Busy == server \in {"command", "read"} <=> todo # <<>>
ServerAt ==
  /\ request = NoRequest => todo \in {<<>>, <<List>>} /\ server # "respond"
  /\ server \in {"accept", "request", "killed"} => request = NoRequest
  /\ server = "read" => sent["server"] # <<>> /\ Command(ServerConnection) = Head(todo)

\* What a get is answered is what its control was during the request, or too
\* long for its buffer.
Answer(a) == Head(todo).op = "get" => a \in {"overlong"} \cup held[Head(todo).ctl]
AnswersAreHeld ==
  /\ \A r \in replies : r[1] \in carried
  /\ server # "read" => response = "empty"
  /\ request # NoRequest => \A c \in Controls : value[c] \in held[c]
  /\ server = "read" => /\ response = "empty" \/ Answer(response)
                        /\ \A r \in replies : r[1] = ServerConnection => Answer(r[2])

OrderInv == TypeOK /\ Busy /\ MutexHeld /\ OthersAreOver
IInv == OrderInv /\ ServerAt /\ AnswersAreHeld /\ ReadsAreCurrent
=============================================================================
