------------------------------- MODULE FluidUi -------------------------------
(***************************************************************************)
(* The web server of the synthesizer (fluid-ui: server.c, fluid-controls.c, *)
(* fluid-tcp-client.c) and fluidsynth's shell behind it, which is external *)
(* and modelled from how runCommand uses it: a thread for each connection  *)
(* carries out the one command sent on it, when it gets to it.             *)
(*                                                                         *)
(* The server does one request at a time, and a request runs its commands  *)
(* one after another, each on a connection of its own.  A connection is    *)
(* named by who opened it and the place of its command among theirs.       *)
(***************************************************************************)
EXTENDS Naturals, SequencesExt

CONSTANTS
  Controls,     \* the settings of the synthesizer
  Verbose,      \* those read off the list of the channels
  Values,       \* what they are set to, as the commands format it
  MaxRequests,  \* bound: connections of browsers, and accepts that fail
  MaxHangups    \* bound: connections fluidsynth closes by itself

ASSUME FluidAssumption ==
  /\ Verbose \subseteq Controls /\ IsFiniteSet(Controls)
  /\ MaxRequests \in Nat /\ MaxHangups \in Nat

VARIABLES
  value,     \* fluidsynth: what each setting is
  sent,      \* the commands each front end has sent, a connection each
  carried,   \* fluidsynth: the commands carried out
  replies,   \* answers on their way: connection and text
  hungup,    \* connections fluidsynth has closed
  queue,     \* connections of browsers not yet accepted
  requests,  \* connections made
  said,      \* the request on each that the server has not read, or none
  gone,      \* those that the browser has closed or reset before that
  server,    \* where the server is: accept, request, command, read, respond, killed
  client,    \* the connection it serves, or 0
  request,   \* the request being served
  todo,      \* commands it has still to run
  response,  \* runCommand's buffer: empty, or what was received
  result,    \* what the request has read of each control
  held,      \* history: what each setting was while the request was served
  late       \* history: commands not yet carried out that their sender has given up

synth  == <<value, carried, replies, hungup>>
browsers == <<queue, requests, said, gone>>
serving == <<client, request, todo, result>>
fluidVars == <<synth, sent, browsers, server, serving, response, held, late>>

Get(c) == [op |-> "get", ctl |-> c]
Set(c, v) == [op |-> "set", ctl |-> c, val |-> v]
List   == [op |-> "list"]

\* What the functions that read and write the controls send.
Cmds == {Get(c) : c \in Controls} \cup {Set(c, v) : c \in Controls, v \in Values} \cup {List}

NoRequest == [op |-> "none"]
Unread == [c \in Controls |-> "unread"]

Clients == {"server", "web"}
Connections == UNION {{who} \X DOMAIN sent[who] : who \in Clients}
Command(k) == sent[k[1]][k[2]]

\* The connection of the command that the server has sent last.
ServerConnection == <<"server", Len(sent["server"])>>

\* main lists the instruments before it accepts anything.
FluidInit ==
  /\ value = [c \in Controls |-> CHOOSE v \in Values : TRUE] /\ sent = [who \in Clients |-> <<>>] /\ carried = {}
  /\ replies = {} /\ hungup = {} /\ queue = <<>> /\ requests = 0
  /\ said = [i \in 1..MaxRequests |-> NoRequest] /\ gone = {}
  /\ server = "command" /\ client = 0 /\ request = NoRequest /\ todo = <<List>>
  /\ response = "empty" /\ result = Unread
  /\ held = [c \in Controls |-> {}] /\ late = {}
-----------------------------------------------------------------------------
(* fluidsynth (external).                                                  *)

\* A get is answered, a set is not.  The instruments of a large font, and the
\* channels, may not fit the buffer they are read into.
Serve(k) ==
  /\ k \in Connections \ (carried \cup hungup)
  /\ carried' = carried \cup {k} /\ late' = late \ {k}
  /\ \/ /\ Command(k).op = "get"
        /\ \E r \in {value[Command(k).ctl]} \cup {"overlong" : c \in Verbose \cap {Command(k).ctl}} :
             replies' = replies \cup {<<k, r>>}
        /\ UNCHANGED <<value, held>>
     \/ /\ Command(k).op = "set"
        /\ value' = [value EXCEPT ![Command(k).ctl] = Command(k).val]
        /\ held' = IF request = NoRequest THEN held
                   ELSE [held EXCEPT ![Command(k).ctl] = @ \cup {Command(k).val}]
        /\ UNCHANGED replies
     \/ /\ Command(k).op = "list"
        /\ \E r \in {"listing", "overlong"} : replies' = replies \cup {<<k, r>>}
        /\ UNCHANGED <<value, held>>
  /\ UNCHANGED <<hungup, sent, browsers, server, serving, response>>

\* It closes the connection that the server reads from, having read its
\* command: one closed before that is reset, which fails the read as its
\* timeout does, or breaks the pipe (Killed); nobody sees others being closed.
Hangup ==
  /\ server = "read" /\ ServerConnection \notin hungup
  /\ Cardinality(hungup) < MaxHangups
  /\ hungup' = hungup \cup {ServerConnection}
  /\ UNCHANGED <<value, carried, replies, sent, browsers, server, serving, response, held, late>>
-----------------------------------------------------------------------------
(* Browsers and the server's loop.                                         *)

\* "bad" is whatever is answered without a command: another method, another
\* resource, a file, an index behind the last control, a new title.
Requests == [op : {"bad", "all"}] \cup [op : {"read"}, ctl : Controls]
              \cup [op : {"write"}, ctl : Controls, val : Values]

\* A page does not wait for an answer before its next connection, need not say
\* anything on it, and may leave at any time.  What it had said may then be
\* lost: the read of a connection that was left returns anything.
Fetch ==
  /\ requests < MaxRequests /\ requests' = requests + 1
  /\ queue' = Append(queue, requests + 1)
  /\ UNCHANGED <<synth, sent, said, gone, server, serving, response, held, late>>

Unheard == Range(queue) \cup {client : w \in {"request"} \cap {server}}

Speak(i, r) ==
  /\ i \in Unheard \ gone /\ said[i] = NoRequest /\ said' = [said EXCEPT ![i] = r]
  /\ UNCHANGED <<synth, sent, queue, requests, gone, server, serving, response, held, late>>

Leave(i) ==
  /\ i \in Unheard \ gone /\ gone' = gone \cup {i}
  /\ said' = [said EXCEPT ![i] = NoRequest]
  /\ UNCHANGED <<synth, sent, queue, requests, server, serving, response, held, late>>

\* The commands of a request: the list of everything asks for the
\* instruments again and reads every control.
Commands(r) ==
  CASE r.op = "bad"   -> <<>>
    [] r.op = "read"  -> <<Get(r.ctl)>>
    [] r.op = "write" -> <<Set(r.ctl, r.val)>>
    [] r.op = "all"   -> <<List>> \o [k \in 1..Cardinality(Controls) |-> Get(SetToSeq(Controls)[k])]

Accept ==
  /\ server = "accept" /\ server' = "request" /\ queue # <<>>
  /\ client' = Head(queue) /\ queue' = Tail(queue)
  /\ UNCHANGED <<synth, sent, requests, said, gone, request, todo, result, response, held, late>>

\* Nobody tests what accept returns.
AcceptFails ==
  /\ server = "accept" /\ server' = "request"
  /\ requests < MaxRequests /\ requests' = requests + 1
  /\ UNCHANGED <<synth, sent, queue, said, gone, serving, response, held, late>>

\* The read waits for as long as the browser says nothing.  One that fails or
\* finds the connection closed leaves a buffer that nobody has initialized.
ReadRequest(r) ==
  /\ server = "request" /\ (client \notin {0} \cup gone => said[client] = r)
  /\ request' = r /\ todo' = Commands(r) /\ result' = Unread
  /\ said' = [i \in 1..MaxRequests |-> IF i = client THEN NoRequest ELSE said[i]]
  /\ held' = [c \in Controls |-> {value[c]}]
  /\ server' = IF Commands(r) = <<>> THEN "respond" ELSE "command"
  /\ gone' = gone \ {client}
  /\ UNCHANGED <<synth, sent, queue, requests, client, response, late>>

RequestOver(next) ==
  /\ server' = next /\ client' = 0 /\ request' = NoRequest /\ todo' = <<>>
  /\ result' = Unread /\ held' = [c \in Controls |-> {}]
  /\ UNCHANGED <<synth, sent, browsers, response, late>>

Respond == server = "respond" /\ RequestOver("accept")

\* Only SIGINT is handled: to send to a browser that has reset its connection,
\* as one that has left does between two sends, or to end the line of a command
\* that fluidsynth will not read, raises SIGPIPE.
Killed ==
  /\ server = "command" \/ (server = "respond" /\ client # 0)
  /\ RequestOver("killed")
-----------------------------------------------------------------------------
(* runCommand.                                                             *)

\* What the caller makes of the buffer: the first line, or "NULL" of nothing.
CommandEnds(buffer) ==
  /\ todo' = Tail(todo)
  /\ result' = IF Head(todo).op # "get" THEN result
               ELSE [result EXCEPT ![Head(todo).ctl] = IF buffer = "empty" THEN "NULL" ELSE buffer]
  /\ server' = IF Len(todo) > 1 THEN "command"
               ELSE IF request = NoRequest THEN "accept" ELSE "respond"
  /\ UNCHANGED <<client, request>>

\* No socket or no connection leaves the buffer empty.
ConnectFails ==
  /\ server = "command" /\ CommandEnds("empty")
  /\ UNCHANGED <<synth, sent, browsers, response, held, late>>

Send ==
  /\ server = "command" /\ server' = "read"
  /\ sent' = [sent EXCEPT !["server"] = Append(@, Head(todo))]
  /\ UNCHANGED <<synth, browsers, serving, response, held, late>>

\* A reply is read off the connection of its command.
IsMine_AnyConnection(k) == k[1] = "server"
IsMine(k) == k = ServerConnection

Arrived == {r \in replies : IsMine(r[1])}

Receive ==
  /\ server = "read" /\ \E r \in Arrived : response' = r[2] /\ replies' = replies \ {r}
  /\ UNCHANGED <<value, carried, hungup, sent, browsers, server, serving, held, late>>

\* Only a read that times out ends the loop.  One that returns 0, because
\* the connection was closed or the buffer is full, is tried again for ever.
Spins == ServerConnection \in hungup \/ response = "overlong"

TimesOut_OnlyAnswered ==
  /\ server = "read" /\ Arrived = {} /\ ~Spins /\ response # "empty"
  /\ CommandEnds(response) /\ response' = "empty"
  /\ late' = late \cup ({ServerConnection} \ carried)
  /\ UNCHANGED <<synth, sent, browsers, held>>
TimesOut ==
  /\ server = "read" /\ Arrived = {} /\ ~Spins
  /\ CommandEnds(response) /\ response' = "empty"
  /\ late' = late \cup ({ServerConnection} \ carried)
  /\ UNCHANGED <<synth, sent, browsers, held>>

Server == \/ Accept \/ Respond \/ Killed \/ ConnectFails \/ Send \/ Receive \/ TimesOut
                \/ \E r \in Requests : ReadRequest(r)
Browse == Fetch \/ \E i \in 1..MaxRequests : Leave(i) \/ \E r \in Requests : Speak(i, r)
FluidNext == Server \/ AcceptFails \/ Browse \/ Hangup \/ \E k \in Connections : Serve(k)
-----------------------------------------------------------------------------
(* Properties.                                                             *)

\* A value that a request reports was the value of its control while the
\* request was served, or "NULL" when no answer came in time: a late answer
\* to one command is never taken for the answer to another
\* (fluid-tcp-client.c:11-39, fluid-controls.c:45-51).
ReadsAreCurrent ==
  \A c \in Controls : result[c] \in {"unread", "NULL"} \cup held[c]

\* Every request is served, late and lost answers, failed accepts and broken
\* connections included, unless the server spins in runCommand, was killed by
\* SIGPIPE, or reads for ever from a browser that neither says anything nor
\* leaves (server.c:65, 108-140, fluid-tcp-client.c:29-37).
Stuck == server = "killed" \/ (server = "read" /\ Spins)
Unspoken == server = "request" /\ client \notin {0} \cup gone /\ said[client] = NoRequest
RequestsAnswered ==
  []<>~Unspoken => (queue # <<>> ~> (queue = <<>> /\ server = "accept") \/ Stuck)
=============================================================================
