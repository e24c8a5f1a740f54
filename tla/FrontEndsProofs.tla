--------------------------- MODULE FrontEndsProofs ---------------------------
(***************************************************************************)
(* Proofs of the safety properties of FrontEnds, for any number of         *)
(* controls, requests and posts: OrderInv and IInv are inductive, and what *)
(* a step carries out is in order.                                         *)
(***************************************************************************)
EXTENDS FrontEnds, FiniteSetTheorems, FunctionTheorems, SequenceTheorems, TLAPS
-----------------------------------------------------------------------------
(* Commands.                                                               *)

LEMMA OrderOfControls ==
  IsFiniteSet(Controls) => SetToSeq(Controls) \in [1..Cardinality(Controls) -> Controls]
<1> SUFFICES ASSUME IsFiniteSet(Controls)
             PROVE  SetToSeq(Controls) \in [1..Cardinality(Controls) -> Controls]
  OBVIOUS
<1> DEFINE n == Cardinality(Controls)
<1>1. n \in Nat /\ ExistsBijection(1..n, Controls)
  BY FS_CardinalityType
<1>2. PICK f \in Bijection(1..n, Controls) : TRUE
  BY <1>1 DEF ExistsBijection
<1>3. f \in [1..n -> Controls] /\ IsInjective(f)
  BY <1>2 DEF Bijection, Injection
<1> QED
  BY <1>3 DEF SetToSeq

LEMMA CommandsTyped ==
  ASSUME NEW r \in Requests
  PROVE  Commands(r) \in Seq(Cmds)
<1>1. CASE r.op = "all"
  <2> DEFINE n == Cardinality(Controls)
             reads == [k \in 1..n |-> Get(SetToSeq(Controls)[k])]
  <2>1. n \in Nat /\ SetToSeq(Controls) \in [1..n -> Controls]
    BY OrderOfControls, FluidAssumption, FS_CardinalityType
  <2>2. \A k \in 1..n : Get(SetToSeq(Controls)[k]) \in Cmds
    BY <2>1 DEF Get, Cmds
  <2>3. reads \in Seq(Cmds)
    BY <2>1, <2>2
  <2>4. <<List>> \in Seq(Cmds)
    BY DEF Cmds
  <2>5. <<List>> \o reads \in Seq(Cmds)
    BY <2>3, <2>4, ConcatProperties
  <2> QED
    BY <1>1, <2>5 DEF Commands
<1>2. CASE r.op = "bad"
  BY <1>2 DEF Commands
<1>3. CASE r.op = "read"
  BY <1>3 DEF Commands, Requests, Get, Cmds
<1>4. CASE r.op = "write"
  BY <1>4 DEF Commands, Requests, Set, Cmds
<1> QED
  BY <1>1, <1>2, <1>3, <1>4 DEF Requests
-----------------------------------------------------------------------------
(* Connections.                                                            *)

LEMMA ConnectionIs ==
  ASSUME sent \in [Clients -> Seq(Cmds)], NEW k
  PROVE  k \in Connections <=>
           \E who \in Clients : \E n \in 1..Len(sent[who]) : k = <<who, n>>
<1>1. \A who \in Clients : DOMAIN sent[who] = 1..Len(sent[who])
  <2> SUFFICES ASSUME NEW who \in Clients PROVE DOMAIN sent[who] = 1..Len(sent[who])
    OBVIOUS
  <2>1. sent[who] \in Seq(Cmds)
    OBVIOUS
  <2> QED
    BY <2>1, LenProperties
<1> QED
  BY <1>1 DEF Connections

\* What a command sent changes.
LEMMA SendGrows ==
  ASSUME sent \in [Clients -> Seq(Cmds)], NEW who \in Clients, NEW cmd \in Cmds,
         sent' = [sent EXCEPT ![who] = Append(@, cmd)],
         NEW k, k = <<who, Len(sent[who]) + 1>>
  PROVE  /\ sent' \in [Clients -> Seq(Cmds)]
         /\ Len(sent[who]) \in Nat /\ Len(sent'[who]) = Len(sent[who]) + 1
         /\ Connections' = Connections \cup {k} /\ k \notin Connections
         /\ \A c \in Connections : Command(c)' = Command(c)
         /\ Command(k)' = cmd
<1>1. /\ sent[who] \in Seq(Cmds) /\ Len(sent[who]) \in Nat
      /\ Append(sent[who], cmd) \in Seq(Cmds)
      /\ Len(Append(sent[who], cmd)) = Len(sent[who]) + 1
      /\ \A n \in 1..Len(sent[who]) : Append(sent[who], cmd)[n] = sent[who][n]
      /\ Append(sent[who], cmd)[Len(sent[who]) + 1] = cmd
  <2>1. sent[who] \in Seq(Cmds)
    OBVIOUS
  <2> QED
    BY <2>1, AppendProperties, LenProperties
<1>2. sent'[who] = Append(sent[who], cmd) /\ sent' \in [Clients -> Seq(Cmds)]
  BY <1>1
<1>3. \A w \in Clients : w # who => sent'[w] = sent[w]
  OBVIOUS
<1>4. \A c : c \in Connections <=>
               \E w \in Clients : \E n \in 1..Len(sent[w]) : c = <<w, n>>
  BY ConnectionIs
<1>5. \A c : c \in Connections' <=>
               \E w \in Clients : \E n \in 1..Len(sent'[w]) : c = <<w, n>>
  <2>1. \A w \in Clients : DOMAIN sent'[w] = 1..Len(sent'[w])
    <3> SUFFICES ASSUME NEW w \in Clients PROVE DOMAIN sent'[w] = 1..Len(sent'[w])
      OBVIOUS
    <3>1. sent'[w] \in Seq(Cmds)
      BY <1>2
    <3> QED
      BY <3>1, LenProperties
  <2> QED
    BY <2>1 DEF Connections
<1>6. Connections' = Connections \cup {k}
  <2>1. ASSUME NEW c, c \in Connections' PROVE c \in Connections \cup {k}
    <3>1. PICK w \in Clients : \E n \in 1..Len(sent'[w]) : c = <<w, n>>
      BY <1>5, <2>1
    <3>. PICK n \in 1..Len(sent'[w]) : c = <<w, n>>
      BY <3>1
    <3>2. CASE w = who
      <4>1. n \in 1..(Len(sent[who]) + 1)
        BY <3>2, <1>1, <1>2
      <4>2. n \in 1..Len(sent[who]) \/ n = Len(sent[who]) + 1
        BY <4>1, <1>1
      <4> QED
        BY <4>2, <3>2, <1>4
    <3>3. CASE w # who
      <4>1. n \in 1..Len(sent[w])
        BY <3>3, <1>3
      <4> QED
        BY <4>1, <1>4
    <3> QED
      BY <3>2, <3>3
  <2>2. ASSUME NEW c \in Connections PROVE c \in Connections'
    <3>1. PICK w \in Clients : \E n \in 1..Len(sent[w]) : c = <<w, n>>
      BY <1>4, <2>2
    <3>. PICK n \in 1..Len(sent[w]) : c = <<w, n>>
      BY <3>1
    <3>2. n \in 1..Len(sent'[w])
      BY <1>1, <1>2, <1>3
    <3> QED
      BY <3>2, <1>5
  <2>3. k \in Connections'
    <3>1. Len(sent[who]) + 1 \in 1..Len(sent'[who])
      BY <1>1, <1>2
    <3> QED
      BY <3>1, <1>5
  <2> QED
    BY <2>1, <2>2, <2>3
<1>7. k \notin Connections
  BY <1>1, <1>4
<1>8. ASSUME NEW c \in Connections PROVE Command(c)' = Command(c)
  <2>1. PICK w \in Clients : \E n \in 1..Len(sent[w]) : c = <<w, n>>
    BY <1>4, <1>8
  <2>. PICK n \in 1..Len(sent[w]) : c = <<w, n>>
    BY <2>1
  <2>2. sent'[w][n] = sent[w][n]
    BY <1>1, <1>2, <1>3
  <2> QED
    BY <2>2 DEF Command
<1>9. Command(k)' = cmd
  BY <1>1, <1>2 DEF Command
<1> QED
  BY <1>1, <1>2, <1>6, <1>7, <1>8, <1>9

\* What a command ended leaves to do.
LEMMA TodoFacts ==
  ASSUME todo \in Seq(Cmds)
  PROVE  /\ Len(todo) \in Nat
         /\ todo # <<>> => /\ Head(todo) \in Cmds /\ Tail(todo) \in Seq(Cmds)
                           /\ Len(todo) > 1 <=> Tail(todo) # <<>>
<1>1. Len(todo) \in Nat
  BY LenProperties
<1>2. ASSUME todo # <<>>
      PROVE  /\ Head(todo) \in Cmds /\ Tail(todo) \in Seq(Cmds)
             /\ Len(todo) > 1 <=> Tail(todo) # <<>>
  <2>1. /\ Head(todo) \in Cmds /\ Tail(todo) \in Seq(Cmds)
        /\ Len(Tail(todo)) = Len(todo) - 1
    BY <1>2, HeadTailProperties
  <2>2. Tail(todo) # <<>> <=> Len(Tail(todo)) # 0
    BY <2>1, EmptySeq
  <2>3. Len(todo) # 0
    BY <1>2, EmptySeq
  <2> QED
    BY <1>1, <2>1, <2>2, <2>3
<1> QED
  BY <1>1, <1>2
-----------------------------------------------------------------------------
(* Commands are awaited, given up or carried out.                          *)

LEMMA InitOrder == Init => OrderInv
<1> SUFFICES ASSUME Init PROVE OrderInv
  OBVIOUS
<1> USE DEF Init, FluidInit
<1>1. sent \in [Clients -> Seq(Cmds)] /\ Connections = {}
  <2>1. sent = [who \in Clients |-> <<>>] /\ <<>> \in Seq(Cmds)
    BY EmptySeq
  <2>2. sent \in [Clients -> Seq(Cmds)]
    BY <2>1
  <2>3. \A k : k \notin Connections
    BY <2>1, <2>2, ConnectionIs, EmptySeq
  <2> QED
    BY <2>2, <2>3
<1>2. TypeOK
  <2>1. queue \in Seq(1..MaxRequests) /\ todo \in Seq(Cmds)
    BY EmptySeq DEF Cmds
  <2>2. /\ requests \in 0..MaxRequests /\ client \in 0..MaxRequests
        /\ said \in [1..MaxRequests -> Requests \cup {NoRequest}]
    BY FluidAssumption
  <2> QED
    BY <1>1, <2>1, <2>2, PostsAssumption DEF TypeOK, NoPost, Unread
<1>3. Busy /\ MutexHeld
  BY DEF Busy, MutexHeld
<1>4. OthersAreOver
  BY <1>1 DEF OthersAreOver
<1> QED
  BY <1>2, <1>3, <1>4 DEF OrderInv

LEMMA StepOrder == OrderInv /\ [Next]_vars => OrderInv'
<1> SUFFICES ASSUME OrderInv, [Next]_vars PROVE OrderInv'
  OBVIOUS
<1> USE DEF OrderInv
<1>1. /\ todo \in Seq(Cmds) /\ Len(todo) \in Nat /\ sent \in [Clients -> Seq(Cmds)]
      /\ todo # <<>> => /\ Head(todo) \in Cmds /\ Tail(todo) \in Seq(Cmds)
                        /\ Len(todo) > 1 <=> Tail(todo) # <<>>
  BY TodoFacts DEF TypeOK
<1> USE DEF fluidVars, synth, browsers, serving, web
<1>2. ASSUME NEW k \in Connections, Serve(k), UNCHANGED web PROVE OrderInv'
  <2>1. Connections' = Connections
    BY <1>2 DEF Serve, Connections
  <2>2. TypeOK'
    BY <1>2, <2>1 DEF TypeOK, Serve
  <2>3. Busy' /\ MutexHeld'
    BY <1>2 DEF Busy, MutexHeld, Serve
  <2>4. OthersAreOver'
    BY <1>2, <2>1 DEF OthersAreOver, Awaited, ServerConnection, Serve
  <2> QED
    BY <2>2, <2>3, <2>4
<1>3. ASSUME Hangup \/ Browse \/ Accept \/ AcceptFails \/ (\E r \in Requests : ReadRequest(r))
               \/ Respond \/ Killed \/ Receive,
             UNCHANGED web
      PROVE  OrderInv'
  <2> USE DEF RequestOver
  <2>1. /\ Connections' = Connections
        /\ UNCHANGED <<value, sent, carried, late, handler, post, conn, mutex>>
    BY <1>3 DEF Hangup, Browse, Fetch, Speak, Leave, Accept, AcceptFails, ReadRequest, Respond,
       Killed, Receive, Connections
  <2>2. TypeOK' /\ Busy'
    <3>0. /\ queue \in Seq(1..MaxRequests) /\ requests \in 0..MaxRequests /\ MaxRequests \in Nat
          /\ NoRequest \in Requests \cup {NoRequest}
      BY FluidAssumption DEF TypeOK
    <3>1. CASE Hangup \/ Receive
      BY <1>3, <2>1, <3>1 DEF Hangup, Receive, TypeOK, Busy
    <3>2. CASE Browse
      <4>1. /\ UNCHANGED <<server, client, request, todo, result, held>>
            /\ requests' \in 0..MaxRequests
        BY <3>0, <3>2 DEF Browse, Fetch, Speak, Leave
      <4>2. queue' \in Seq(1..MaxRequests)
        <5>1. CASE Fetch
          <6>1. requests + 1 \in 1..MaxRequests
            BY <3>0, <5>1 DEF Fetch
          <6> QED
            BY <3>0, <5>1, <6>1, AppendProperties DEF Fetch
        <5> QED
          BY <3>0, <3>2, <5>1 DEF Browse, Speak, Leave
      <4>3. said' \in [1..MaxRequests -> Requests \cup {NoRequest}]
        BY <3>2 DEF Browse, Fetch, Speak, Leave, TypeOK
      <4> QED
        BY <1>3, <2>1, <4>1, <4>2, <4>3 DEF TypeOK, Busy
    <3>3. CASE Accept
      <4>1. queue # <<>>
        BY <3>3 DEF Accept
      <4>2. queue' \in Seq(1..MaxRequests) /\ client' \in 1..MaxRequests
        BY <3>0, <3>3, <4>1, HeadTailProperties DEF Accept
      <4>3. client' \in 0..MaxRequests
        BY <3>0, <4>2
      <4> QED
        BY <1>3, <2>1, <3>3, <4>2, <4>3 DEF Accept, TypeOK, Busy
    <3>4. CASE AcceptFails
      <4>1. requests' \in 0..MaxRequests
        BY <3>0, <3>4 DEF AcceptFails
      <4> QED
        BY <1>3, <2>1, <3>4, <4>1 DEF AcceptFails, TypeOK, Busy
    <3>5. ASSUME NEW r \in Requests, ReadRequest(r) PROVE TypeOK' /\ Busy'
      <4>1. todo' \in Seq(Cmds)
        BY <3>5, CommandsTyped DEF ReadRequest
      <4>2. said' \in [1..MaxRequests -> Requests \cup {NoRequest}]
        BY <3>5 DEF ReadRequest, TypeOK
      <4> QED
        BY <1>3, <2>1, <3>5, <4>1, <4>2 DEF ReadRequest, TypeOK, Busy, Unread
    <3>6. CASE Respond \/ Killed
      <4>1. <<>> \in Seq(Cmds) /\ 0 \in 0..MaxRequests
        BY <3>0, EmptySeq
      <4> QED
        BY <1>3, <2>1, <3>6, <4>1 DEF Respond, Killed, TypeOK, Busy, Unread
    <3> QED
      BY <1>3, <3>1, <3>2, <3>3, <3>4, <3>5, <3>6
  <2>3. MutexHeld'
    BY <2>1 DEF MutexHeld
  <2>4. server' = "read" <=> server = "read"
    BY <1>3 DEF Hangup, Browse, Fetch, Speak, Leave, Accept, AcceptFails, ReadRequest, Respond,
       Killed, Receive
  <2>5. OthersAreOver'
    BY <2>1, <2>4 DEF OthersAreOver, Awaited, ServerConnection
  <2> QED
    BY <2>2, <2>3, <2>5
<1>4. ASSUME ConnectFails \/ TimesOut, UNCHANGED web PROVE OrderInv'
  <2>1. /\ Connections' = Connections
        /\ UNCHANGED <<value, sent, carried, browsers, held, handler, post, conn, mutex, client, request>>
        /\ server \in {"command", "read"} /\ todo' = Tail(todo)
        /\ server' = IF Len(todo) > 1 THEN "command"
                     ELSE IF request = NoRequest THEN "accept" ELSE "respond"
    BY <1>4 DEF ConnectFails, TimesOut, CommandEnds, Connections
  <2>2. result' = [c \in Controls |-> result'[c]]
    BY <1>4 DEF ConnectFails, TimesOut, CommandEnds, TypeOK
  <2>3. todo # <<>> /\ todo' \in Seq(Cmds) /\ (Len(todo) > 1 <=> todo' # <<>>)
    BY <1>1, <2>1 DEF Busy
  <2>4. TypeOK' /\ Busy'
    BY <2>1, <2>2, <2>3 DEF TypeOK, Busy
  <2>5. MutexHeld'
    BY <2>1 DEF MutexHeld
  <2>6. OthersAreOver'
    BY <1>4, <2>1 DEF OthersAreOver, Awaited, ServerConnection, ConnectFails, TimesOut
  <2> QED
    BY <2>4, <2>5, <2>6
<1>5. ASSUME Send, UNCHANGED web PROVE OrderInv'
  <2>1. todo # <<>>
    BY <1>5 DEF Send, Busy
  <2>2. PICK cmd \in Cmds : cmd = Head(todo)
    BY <1>1, <2>1
  <2>3. PICK k : k = <<"server", Len(sent["server"]) + 1>>
    OBVIOUS
  <2>4. /\ sent' \in [Clients -> Seq(Cmds)] /\ sent'["web"] = sent["web"]
        /\ Len(sent'["server"]) = Len(sent["server"]) + 1
        /\ Connections' = Connections \cup {k}
    BY <1>1, <1>5, <2>2, <2>3, SendGrows DEF Send, Clients
  <2>5. TypeOK'
    BY <1>5, <2>4 DEF Send, TypeOK
  <2>6. Busy' /\ MutexHeld'
    BY <1>5, <2>1, <2>4 DEF Send, Busy, MutexHeld
  <2>7. OthersAreOver'
    BY <1>5, <2>3, <2>4 DEF Send, OthersAreOver, Awaited, ServerConnection
  <2> QED
    BY <2>5, <2>6, <2>7
<1>6. ASSUME NEW p \in Posts, DialAndWrite(p) PROVE OrderInv'
  <2>1. mutex = p /\ post[p] \in [ctl : Controls, val : Values]
    BY <1>6 DEF DialAndWrite, At, MutexHeld
  <2>2. PICK cmd \in Cmds : cmd = [op |-> "set", ctl |-> post[p].ctl, val |-> post[p].val]
    <3>1. post[p].ctl \in Controls /\ post[p].val \in Values
      BY <2>1
    <3>2. Set(post[p].ctl, post[p].val) \in Cmds
      BY <3>1 DEF Cmds
    <3> QED
      BY <3>2 DEF Set
  <2>3. PICK k : k = <<"web", Len(sent["web"]) + 1>>
    OBVIOUS
  <2>4. /\ sent' \in [Clients -> Seq(Cmds)] /\ sent'["server"] = sent["server"]
        /\ Len(sent["web"]) \in Nat /\ Len(sent'["web"]) = Len(sent["web"]) + 1
        /\ Connections' = Connections \cup {k}
    BY <1>1, <1>6, <2>2, <2>3, SendGrows DEF DialAndWrite, Clients
  <2>5. /\ handler' = [handler EXCEPT ![p] = "read"] /\ conn' = [conn EXCEPT ![p] = Len(sent["web"]) + 1]
        /\ UNCHANGED <<carried, late, server, mutex, post>> /\ handler[p] = "dial"
    BY <1>6 DEF DialAndWrite, At
  <2>6. TypeOK'
    BY <1>6, <2>4, <2>5 DEF DialAndWrite, TypeOK
  <2>7. Busy'
    BY <1>6 DEF DialAndWrite, Busy
  <2>8. \A q \in Posts : q # p => handler[q] \notin {"dial", "read"}
    BY <2>1 DEF MutexHeld
  <2>9. MutexHeld'
    BY <2>1, <2>4, <2>5, <2>8 DEF MutexHeld, TypeOK
  <2>10. OthersAreOver'
    BY <2>3, <2>4, <2>5, <2>8 DEF OthersAreOver, Awaited, ServerConnection, TypeOK
  <2> QED
    BY <2>6, <2>7, <2>9, <2>10
<1>7. ASSUME NEW p \in Posts, ReadEnds(p) PROVE OrderInv'
  <2>1. Connections' = Connections /\ mutex = p
    BY <1>7 DEF ReadEnds, Connections, At, MutexHeld
  <2>2. TypeOK' /\ Busy'
    BY <1>7, <2>1 DEF ReadEnds, At, TypeOK, Busy
  <2>3. MutexHeld'
    BY <1>7, <2>1 DEF ReadEnds, At, MutexHeld, TypeOK
  <2>4. OthersAreOver'
    BY <1>7, <2>1 DEF ReadEnds, At, OthersAreOver, Awaited, ServerConnection, TypeOK
  <2> QED
    BY <2>2, <2>3, <2>4
<1>8. ASSUME NEW p \in Posts,
             LockMutex(p) \/ DialFails(p) \/ Assign(p)
               \/ \E c \in Controls, v \in Values : Post(p, c, v)
      PROVE  OrderInv'
  <2>1. /\ Connections' = Connections /\ p \in Nat /\ p # 0
        /\ UNCHANGED <<fluidVars, todo, sent, carried, late, server>>
    BY <1>8, PostsAssumption DEF LockMutex, DialFails, Assign, Post, Connections, Posts
  <2>2. TypeOK' /\ Busy' /\ MutexHeld'
    <3>1. CASE LockMutex(p)
      <4>1. \A q \in Posts : q # 0
        BY PostsAssumption DEF Posts
      <4>2. \A q \in Posts : handler[q] \notin {"dial", "read"}
        BY <3>1, <4>1 DEF LockMutex, MutexHeld
      <4>3. MutexHeld'
        BY <2>1, <3>1, <4>2 DEF LockMutex, At, TypeOK, MutexHeld
      <4> QED
        BY <2>1, <3>1, <4>3 DEF LockMutex, At, TypeOK, Busy
    <3>2. CASE DialFails(p)
      BY <2>1, <3>2 DEF DialFails, At, TypeOK, Busy, MutexHeld
    <3>3. CASE Assign(p)
      BY <2>1, <3>3 DEF Assign, At, TypeOK, Busy, MutexHeld
    <3>4. CASE \E c \in Controls, v \in Values : Post(p, c, v)
      <4>1. PICK c \in Controls, v \in Values : Post(p, c, v)
        BY <3>4
      <4> QED
        BY <2>1, <4>1 DEF Post, At, TypeOK, Busy, MutexHeld
    <3> QED
      BY <1>8, <3>1, <3>2, <3>3, <3>4
  <2>4. \A q \in Posts : handler[q] = "read" => handler'[q] = "read" /\ conn'[q] = conn[q]
    BY <1>8 DEF LockMutex, DialFails, Assign, Post, At, TypeOK
  <2>5. OthersAreOver'
    BY <2>1, <2>4 DEF OthersAreOver, Awaited, ServerConnection
  <2> QED
    BY <2>2, <2>5
<1>9. CASE UNCHANGED vars
  BY <1>9 DEF vars, TypeOK, Busy, MutexHeld, OthersAreOver, Awaited, ServerConnection, Connections
<1> QED
  BY <1>2, <1>3, <1>4, <1>5, <1>6, <1>7, <1>8, <1>9 DEF Next, FluidNext, Server, Handler

\* A command that fluidsynth turns to is one its sender has given up or the
\* last of its sender.
LEMMA NextIsLast ==
  ASSUME OrderInv, NEW k \in Connections \ (carried \cup late)
  PROVE  \A j \in Connections : j # k /\ j[1] = k[1] => j[2] < k[2]
<1> USE DEF OrderInv
<1>1. sent \in [Clients -> Seq(Cmds)]
  BY DEF TypeOK
<1>2. \A w \in Clients : Len(sent[w]) \in Nat
  <2> SUFFICES ASSUME NEW w \in Clients PROVE Len(sent[w]) \in Nat
    OBVIOUS
  <2>1. sent[w] \in Seq(Cmds)
    BY <1>1
  <2> QED
    BY <2>1, LenProperties
<1>3. k[1] \in Clients /\ k = <<k[1], Len(sent[k[1]])>>
  BY DEF OthersAreOver, Awaited, ServerConnection, MutexHeld, Clients
<1>4. ASSUME NEW j \in Connections, j # k, j[1] = k[1] PROVE j[2] < k[2]
  <2>1. PICK w \in Clients : \E n \in 1..Len(sent[w]) : j = <<w, n>>
    BY <1>1, ConnectionIs
  <2>. PICK n \in 1..Len(sent[w]) : j = <<w, n>>
    BY <2>1
  <2> QED
    BY <1>2, <1>3, <1>4
<1> QED
  BY <1>4

\* What fluidsynth carries out of one front end comes in the order it was sent,
\* but for what its sender had given up.
THEOREM CommandsInOrder == Spec => OrderKept
<1> DEFINE InOrder == \A k \in carried' \ carried :
                        k \in late \/ \A j \in carried : j[1] = k[1] => j[2] < k[2]
<1>1. OrderInv /\ [Next]_vars => [InOrder]_vars
  <2> SUFFICES ASSUME OrderInv, Next, NEW k \in carried' \ carried, k \notin late,
                      NEW j \in carried, j[1] = k[1]
               PROVE  j[2] < k[2]
    BY DEF vars, synth, fluidVars
  <2>1. k \in Connections
    <3>1. ASSUME NEW c \in Connections, Serve(c) PROVE carried' = carried \cup {c}
      BY <3>1 DEF Serve
    <3>2. ASSUME Server \/ AcceptFails \/ Browse \/ Hangup PROVE UNCHANGED carried
      BY <3>2 DEF Server, Accept, AcceptFails, ReadRequest, RequestOver, Respond, Killed,
         ConnectFails, Send, Receive, TimesOut, Browse, Fetch, Speak, Leave, Hangup, synth
    <3>3. ASSUME NEW p \in Posts, Handler(p) \/ \E c \in Controls, v \in Values : Post(p, c, v)
          PROVE  UNCHANGED carried
      BY <3>3 DEF Handler, Post, LockMutex, DialFails, DialAndWrite, ReadEnds, Assign, fluidVars, synth
    <3> QED
      BY <3>1, <3>2, <3>3 DEF Next, FluidNext
  <2>2. j \in Connections /\ j # k
    BY DEF OrderInv, TypeOK
  <2> QED
    BY <2>1, <2>2, NextIsLast
<1> QED
  BY <1>1, InitOrder, StepOrder, PTL DEF Spec, OrderKept
-----------------------------------------------------------------------------
(* What a request reports was so while it was served.                      *)

Answers == ServerAt /\ AnswersAreHeld /\ ReadsAreCurrent

\* Requests have names of their own, and a request for a value is served.
LEMMA ServedRequest ==
  ASSUME OrderInv, ServerAt
  PROVE  /\ NoRequest \notin Requests
         /\ server = "read" /\ Head(todo).op = "get" => request # NoRequest
<1>1. NoRequest \notin Requests
  BY DEF NoRequest, Requests
<1>2. ASSUME server = "read", request = NoRequest PROVE Head(todo).op # "get"
  <2>1. todo = <<List>>
    BY <1>2 DEF OrderInv, Busy, ServerAt
  <2> QED
    BY <2>1 DEF List
<1> QED
  BY <1>1, <1>2

LEMMA InitAnswers == Init => Answers
<1> SUFFICES ASSUME Init PROVE Answers
  OBVIOUS
<1> QED
  BY DEF Init, FluidInit, Answers, ServerAt, AnswersAreHeld, ReadsAreCurrent, Unread

LEMMA StepAnswers == OrderInv /\ Answers /\ [Next]_vars => Answers'
<1> SUFFICES ASSUME OrderInv, Answers, [Next]_vars PROVE Answers'
  OBVIOUS
<1> USE DEF fluidVars, synth, browsers, serving, web
<1>0. /\ TypeOK /\ Busy /\ ServerAt /\ AnswersAreHeld /\ ReadsAreCurrent
      /\ NoRequest \notin Requests
      /\ server = "read" /\ Head(todo).op = "get" => request # NoRequest
  BY ServedRequest DEF OrderInv, Answers
<1>1. /\ sent \in [Clients -> Seq(Cmds)] /\ carried \subseteq Connections
      /\ value = [c \in Controls |-> value[c]] /\ held = [c \in Controls |-> held[c]]
      /\ result = [c \in Controls |-> result[c]]
      /\ todo \in Seq(Cmds) /\ Len(todo) \in Nat
      /\ todo # <<>> => /\ Head(todo) \in Cmds /\ Tail(todo) \in Seq(Cmds)
                        /\ Len(todo) > 1 <=> Tail(todo) # <<>>
  BY <1>0, TodoFacts DEF TypeOK
<1>2. ASSUME NEW k \in Connections, Serve(k), UNCHANGED web PROVE Answers'
  <2>1. /\ ServerConnection' = ServerConnection /\ Command(k)' = Command(k)
        /\ UNCHANGED <<sent, server, request, todo, response, result>>
        /\ carried' = carried \cup {k}
    BY <1>2 DEF Serve, ServerConnection, Command
  <2>2. ServerAt'
    BY <1>0, <2>1 DEF ServerAt, ServerConnection, Command
  <2>3. AnswersAreHeld' /\ ReadsAreCurrent'
    <3>1. CASE Command(k).op = "get"
      <4>1. UNCHANGED <<value, held>>
        BY <1>2, <3>1 DEF Serve
      <4>2. PICK a \in {value[Command(k).ctl], "overlong"} : replies' = replies \cup {<<k, a>>}
        BY <1>2, <3>1 DEF Serve
      <4>3. server = "read" /\ k = ServerConnection => Answer(a)
        BY <1>0, <1>1, <3>1, <4>2 DEF ServerAt, AnswersAreHeld, Answer, Cmds, Busy, Get, Set, List
      <4> QED
        BY <1>0, <2>1, <4>1, <4>2, <4>3 DEF AnswersAreHeld, Answer, ReadsAreCurrent
    <3>2. CASE Command(k).op = "set"
      <4>1. /\ UNCHANGED replies
            /\ value' = [value EXCEPT ![Command(k).ctl] = Command(k).val]
            /\ held' = IF request = NoRequest THEN held
                       ELSE [held EXCEPT ![Command(k).ctl] = @ \cup {Command(k).val}]
        BY <1>2, <3>2 DEF Serve
      <4>2. \A c \in Controls : held[c] \subseteq held'[c]
        BY <1>1, <4>1
      <4>3. request # NoRequest => \A c \in Controls : value'[c] \in held'[c]
        BY <1>0, <1>1, <4>1 DEF AnswersAreHeld
      <4>4. ASSUME NEW a, Answer(a), Head(todo).op = "get" => Head(todo).ctl \in Controls
            PROVE  Answer(a)'
        BY <2>1, <4>2, <4>4 DEF Answer
      <4>5. server = "read" /\ Head(todo).op = "get" => Head(todo).ctl \in Controls
        BY <1>0, <1>1 DEF Busy, Cmds, Get, Set, List
      <4>6. AnswersAreHeld'
        BY <1>0, <2>1, <4>1, <4>2, <4>3, <4>5 DEF AnswersAreHeld, Answer
      <4>7. ReadsAreCurrent'
        BY <1>0, <2>1, <4>2 DEF ReadsAreCurrent
      <4> QED
        BY <4>6, <4>7
    <3>3. CASE Command(k).op = "list"
      <4>1. UNCHANGED <<value, held>>
        BY <1>2, <3>3 DEF Serve
      <4>2. PICK a : replies' = replies \cup {<<k, a>>}
        BY <1>2, <3>3 DEF Serve
      <4>3. server = "read" /\ k = ServerConnection => Head(todo).op = "list"
        BY <1>0, <3>3 DEF ServerAt
      <4> QED
        BY <1>0, <2>1, <4>1, <4>2, <4>3 DEF AnswersAreHeld, Answer, ReadsAreCurrent
    <3> QED
      BY <1>2, <3>1, <3>2, <3>3 DEF Serve
  <2> QED
    BY <2>2, <2>3 DEF Answers
<1>3. ASSUME Hangup \/ Browse, UNCHANGED web PROVE Answers'
  <2>1. UNCHANGED <<sent, server, request, todo, response, result, held, value, replies, carried>>
    BY <1>3 DEF Hangup, Browse, Fetch, Speak, Leave
  <2> QED
    BY <1>0, <2>1 DEF Answers, ServerAt, AnswersAreHeld, Answer, ReadsAreCurrent, ServerConnection, Command
<1>4. ASSUME Accept \/ AcceptFails, UNCHANGED web PROVE Answers'
  <2>1. /\ server = "accept" /\ server' = "request"
        /\ UNCHANGED <<request, todo, response, result, held, value, replies, carried>>
    BY <1>4 DEF Accept, AcceptFails
  <2> QED
    BY <1>0, <2>1 DEF Answers, ServerAt, AnswersAreHeld, ReadsAreCurrent
<1>5. ASSUME (\E r \in Requests : ReadRequest(r)) \/ Respond \/ Killed, UNCHANGED web PROVE Answers'
  <2>1. CASE \E r \in Requests : ReadRequest(r)
    <3>1. PICK r \in Requests : ReadRequest(r)
      BY <2>1
    <3>2. /\ request' # NoRequest /\ server' \in {"respond", "command"} /\ result' = Unread
          /\ held' = [c \in Controls |-> {value[c]}] /\ server = "request"
          /\ UNCHANGED <<value, carried, replies, response>>
      BY <1>0, <3>1 DEF ReadRequest
    <3> QED
      BY <1>0, <3>2 DEF Answers, ServerAt, AnswersAreHeld, ReadsAreCurrent, Unread
  <2>2. CASE Respond \/ Killed
    <3>1. /\ request' = NoRequest /\ server' \in {"accept", "killed"} /\ result' = Unread
          /\ todo' = <<>> /\ server # "read"
          /\ UNCHANGED <<value, carried, replies, response>>
      BY <2>2 DEF Respond, Killed, RequestOver
    <3> QED
      BY <1>0, <3>1 DEF Answers, ServerAt, AnswersAreHeld, ReadsAreCurrent, Unread
  <2> QED
    BY <1>5, <2>1, <2>2
<1>6. ASSUME ConnectFails \/ TimesOut, UNCHANGED web PROVE Answers'
  <2>1. /\ server \in {"command", "read"} /\ todo' = Tail(todo)
        /\ server' = IF Len(todo) > 1 THEN "command"
                     ELSE IF request = NoRequest THEN "accept" ELSE "respond"
        /\ UNCHANGED <<sent, request, held, value, carried, replies>>
        /\ response' = "empty"
    BY <1>0, <1>6 DEF ConnectFails, TimesOut, CommandEnds, AnswersAreHeld
  <2>2. todo # <<>>
    BY <1>0, <2>1 DEF Busy
  <2>3. ServerAt'
    <3>1. request = NoRequest => todo' = <<>> /\ Len(todo) = 1
      BY <1>0, <1>1, <2>1, <2>2 DEF ServerAt
    <3> QED
      BY <1>0, <2>1, <3>1 DEF ServerAt
  <2>4. AnswersAreHeld'
    BY <1>0, <2>1 DEF AnswersAreHeld
  <2>5. ReadsAreCurrent'
    <3>1. CASE Head(todo).op # "get"
      <4>1. result' = result
        BY <1>6, <3>1 DEF ConnectFails, TimesOut, CommandEnds
      <4> QED
        BY <1>0, <2>1, <4>1 DEF ReadsAreCurrent
    <3>2. CASE Head(todo).op = "get" /\ ConnectFails
      <4>1. result' = [result EXCEPT ![Head(todo).ctl] = "NULL"]
        BY <3>2 DEF ConnectFails, CommandEnds
      <4> QED
        BY <1>0, <1>1, <2>1, <4>1 DEF ReadsAreCurrent
    <3>3. CASE Head(todo).op = "get" /\ TimesOut
      <4>1. response = "empty" \/ response \in held[Head(todo).ctl]
        BY <1>0, <3>3 DEF TimesOut, Spins, AnswersAreHeld, Answer
      <4>2. result' = [result EXCEPT ![Head(todo).ctl] =
                         IF response = "empty" THEN "NULL" ELSE response]
        BY <3>3 DEF TimesOut, CommandEnds
      <4> QED
        BY <1>0, <1>1, <2>1, <4>1, <4>2 DEF ReadsAreCurrent
    <3> QED
      BY <1>6, <3>1, <3>2, <3>3
  <2> QED
    BY <2>3, <2>4, <2>5 DEF Answers
<1>7. ASSUME Send, UNCHANGED web PROVE Answers'
  <2>1. todo # <<>>
    BY <1>0, <1>7 DEF Send, Busy
  <2>2. PICK cmd \in Cmds : cmd = Head(todo)
    BY <1>1, <2>1
  <2>3. PICK k : k = <<"server", Len(sent["server"]) + 1>>
    OBVIOUS
  <2>4. /\ Len(sent["server"]) \in Nat /\ Len(sent'["server"]) = Len(sent["server"]) + 1
        /\ Command(k)' = cmd /\ k \notin Connections
        /\ sent'["server"] = Append(sent["server"], cmd)
    BY <1>1, <1>7, <2>2, <2>3, SendGrows DEF Send, Clients
  <2>5. sent'["server"] # <<>>
    BY <2>4, EmptySeq
  <2>6. ServerConnection' = k
    BY <2>3, <2>4 DEF ServerConnection
  <2>7. /\ server = "command" /\ server' = "read"
        /\ UNCHANGED <<value, carried, replies, held, request, todo, result, response>>
    BY <1>7 DEF Send
  <2>8. ServerAt'
    BY <1>0, <2>2, <2>4, <2>5, <2>6, <2>7 DEF ServerAt, Command
  <2>9. AnswersAreHeld'
    BY <1>0, <1>1, <2>4, <2>6, <2>7 DEF AnswersAreHeld
  <2> QED
    BY <1>0, <2>7, <2>8, <2>9 DEF Answers, ReadsAreCurrent
<1>8. ASSUME Receive, UNCHANGED web PROVE Answers'
  <2>1. PICK r \in replies : /\ r[1] = ServerConnection /\ response' = r[2]
                             /\ replies' = replies \ {r}
    BY <1>8 DEF Receive, Arrived, IsMine
  <2>2. /\ server = "read"
        /\ UNCHANGED <<sent, server, request, todo, result, held, value, carried>>
    BY <1>8 DEF Receive
  <2> QED
    BY <1>0, <2>1, <2>2 DEF Answers, ServerAt, AnswersAreHeld, Answer, ReadsAreCurrent,
       ServerConnection, Command
<1>9. ASSUME NEW p \in Posts, Handler(p) \/ \E c \in Controls, v \in Values : Post(p, c, v)
      PROVE  Answers'
  <2>1. /\ sent'["server"] = sent["server"]
        /\ UNCHANGED <<server, request, todo, response, result, held, value, replies, carried>>
    BY <1>1, <1>9 DEF Handler, LockMutex, DialFails, DialAndWrite, ReadEnds, Assign, Post, Clients
  <2>2. ServerConnection' = ServerConnection /\ Command(ServerConnection)' = Command(ServerConnection)
    BY <2>1 DEF ServerConnection, Command
  <2> QED
    BY <1>0, <2>1, <2>2 DEF Answers, ServerAt, AnswersAreHeld, Answer, ReadsAreCurrent
<1>10. CASE UNCHANGED vars
  BY <1>0, <1>10 DEF vars, Answers, ServerAt, AnswersAreHeld, Answer, ReadsAreCurrent,
     ServerConnection, Command
<1> QED
  BY <1>2, <1>3, <1>4, <1>5, <1>6, <1>7, <1>8, <1>9, <1>10 DEF Next, FluidNext, Server

\* All that both properties rest on holds of every behaviour.
THEOREM FrontEndsInductive == Spec => []IInv
<1>1. Init => OrderInv /\ Answers
  BY InitOrder, InitAnswers
<1>2. OrderInv /\ Answers /\ [Next]_vars => (OrderInv /\ Answers)'
  BY StepOrder, StepAnswers
<1>3. OrderInv /\ Answers => IInv
  BY DEF Answers, IInv
<1> QED
  BY <1>1, <1>2, <1>3, PTL DEF Spec

\* No request reports a value its control did not have while it was served.
THEOREM NoStaleRead == Spec => []ReadsAreCurrent
<1>1. IInv => ReadsAreCurrent
  BY DEF IInv
<1> QED
  BY <1>1, FrontEndsInductive, PTL
=============================================================================
