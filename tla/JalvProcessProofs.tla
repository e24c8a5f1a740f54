-------------------------- MODULE JalvProcessProofs --------------------------
(***************************************************************************)
(* Proofs about JalvProcess and JalvUi, for every number of ports, value   *)
(* set, ring and event size, JACK modes, latencies, and bound.             *)
(***************************************************************************)
EXTENDS JalvUi, SequenceTheorems, TLAPS

\* Every message is one of the four kinds of comm.h.
LEMMA MessageKinds ==
  ASSUME NEW m \in Messages
  PROVE  /\ m.type \in {"control", "run", "request", "event"}
         /\ m.type = "control" => m.port \in Ports /\ m.value \in Values
         /\ m.type = "run" => /\ m.state \in {"RUNNING", "PAUSED"}
                              /\ m = Run(m.state)
         /\ m.type = "event" => m.id \in Nat
  BY DEF Messages, Control, Run, Request, Event

\* What the constructors make.
LEMMA MakeMessage ==
  /\ \A p \in Ports, v \in Values : Control(p, v) \in Messages /\ Control(p, v).type # "run"
  /\ \A s \in {"RUNNING", "PAUSED"} : Run(s) \in Messages /\ Run(s).type = "run"
                                       /\ Run(s).state = s
  /\ Request \in Messages /\ Request.type # "run"
  /\ \A e \in Nat : /\ Event(e) \in Messages /\ Event(e).type = "event"
                       /\ Event(e).id = e
  /\ Run("RUNNING") # Run("PAUSED")
  BY DEF Messages, Control, Run, Request, Event

\* A ring after a message was written.
LEMMA AppendRing ==
  ASSUME NEW q \in Seq(Messages), NEW m \in Messages
  PROVE  /\ Append(q, m) \in Seq(Messages) /\ Len(Append(q, m)) = Len(q) + 1
         /\ \A i \in DOMAIN q : Append(q, m)[i] = q[i]
         /\ Append(q, m)[Len(q) + 1] = m
         /\ DOMAIN q = 1..Len(q) /\ DOMAIN Append(q, m) = 1..(Len(q) + 1)
         /\ Append(q, m) # <<>>
  BY AppendProperties, LenProperties

\* A ring after its oldest message was read.
LEMMA TailRing ==
  ASSUME NEW q \in Seq(Messages), q # <<>>
  PROVE  /\ Tail(q) \in Seq(Messages) /\ Len(Tail(q)) = Len(q) - 1
         /\ Head(q) \in Messages /\ Head(q) = q[1]
         /\ \A i \in DOMAIN Tail(q) : Tail(q)[i] = q[i + 1]
         /\ DOMAIN q = 1..Len(q) /\ DOMAIN Tail(q) = 1..(Len(q) - 1)
         /\ Len(q) > 0
  BY HeadTailProperties, LenProperties, EmptySeq

\* The bytes a ring holds in the two states a resumption finds it in.
LEMMA UsedAtResume == Used(<<>>) = 0 /\ Used(<<Request>>) = 8
<1>1. Used(<<>>) = 0
  <2> DEFINE P(f) == f = [n \in 0..0 |-> IF n = 0 THEN 0 ELSE f[n - 1] + Size((<<>>)[n])]
  <2> DEFINE sum == CHOOSE f : P(f)
  <2>1. P([n \in 0..0 |-> 0])
    OBVIOUS
  <2>2. P(sum)
    BY <2>1, Zenon
  <2>3. sum[0] = 0
    BY <2>2
  <2> QED BY <2>3 DEF Used
<1>2. Used(<<Request>>) = 8
  <2> DEFINE P(f) == f = [n \in 0..1 |-> IF n = 0 THEN 0 ELSE f[n - 1] + Size((<<Request>>)[n])]
  <2> DEFINE sum == CHOOSE f : P(f)
  <2>0. Size(Request) = 8
    BY DEF Size, Request
  <2>1. P([n \in 0..1 |-> IF n = 0 THEN 0 ELSE 8])
    BY <2>0
  <2>2. P(sum)
    BY <2>1, Zenon
  <2>3. \A f : P(f) => f[1] = 8
    BY <2>0
  <2> HIDE DEF P
  <2>4. sum[1] = 8
    BY <2>2, <2>3
  <2> QED BY <2>4 DEF Used, P
<1> QED BY <1>1, <1>2

States == {"RUNNING", "PAUSED"}

\* A write of anything but a run state, not behind a pause.
LEMMA WriteOther ==
  ASSUME TypeOK, RunMessages, NEW m \in Messages, m.type # "run",
         Write(m), ~Queued("PAUSED")
  PROVE  /\ ring' \in Seq(Messages) /\ Len(ring) <= Len(ring') /\ RunMessages'
         /\ \A s \in States : Queued(s)' <=> Queued(s)
<1> ring \in Seq(Messages)
  BY DEF TypeOK
<1>1. CASE ring' = ring
  <2>1. RunMessages' /\ \A s \in States : Queued(s)' <=> Queued(s)
    BY <1>1 DEF RunMessages, Queued
  <2> QED BY <2>1, <1>1, LenProperties
<1>2. CASE ring' = Append(ring, m)
  <2> DEFINE q == Append(ring, m)
  <2>1. /\ q \in Seq(Messages) /\ Len(q) = Len(ring) + 1 /\ Len(ring) \in Nat
        /\ \A i \in DOMAIN ring : q[i] = ring[i]
        /\ q[Len(ring) + 1] = m
        /\ DOMAIN ring = 1..Len(ring) /\ DOMAIN q = 1..(Len(ring) + 1)
    BY AppendRing, LenProperties
  <2>2. \A s : m # Run(s)
    BY DEF Run
  <2> HIDE DEF q
  <2>3. ring' = q
    BY <1>2 DEF q
  <2>4. \A s \in States : Queued(s)' <=> Queued(s)
    BY <2>1, <2>2, <2>3 DEF Queued
  <2>5. \A i \in DOMAIN ring : ring[i] # Run("PAUSED")
    BY DEF Queued
  <2>6. RunMessages'
    BY <2>1, <2>2, <2>3, <2>5 DEF RunMessages
  <2> QED BY <2>1, <2>3, <2>4, <2>6
<1> QED BY <1>1, <1>2 DEF Write

\* A write of a run state when none is queued.
LEMMA WriteState ==
  ASSUME TypeOK, NEW s \in States, Write(Run(s)), \A t \in States : ~Queued(t)
  PROVE  /\ ring' \in Seq(Messages) /\ Len(ring) <= Len(ring') /\ RunMessages'
         /\ \A t \in States : Queued(t)' => t = s
         /\ Fits(Run(s)) => Queued(s)'
<1> ring \in Seq(Messages) /\ Run(s) \in Messages /\ Run(s).type = "run"
  BY MakeMessage DEF TypeOK, States
<1>0. \A i \in DOMAIN ring : ring[i] \in Messages /\ ring[i].type # "run"
  <2> TAKE i \in DOMAIN ring
  <2>1. ring[i] \in Messages
    BY ElementOfSeq, LenProperties
  <2> QED BY <2>1, MessageKinds DEF Queued, States
<1>1. CASE ring' = ring /\ ~Fits(Run(s))
  <2>1. RunMessages'
    BY <1>1, <1>0, MakeMessage DEF RunMessages
  <2> QED BY <2>1, <1>1, LenProperties DEF Queued
<1>2. CASE ring' = Append(ring, Run(s))
  <2> DEFINE q == Append(ring, Run(s))
  <2>1. /\ q \in Seq(Messages) /\ Len(q) = Len(ring) + 1 /\ Len(ring) \in Nat
        /\ \A i \in DOMAIN ring : q[i] = ring[i]
        /\ q[Len(ring) + 1] = Run(s)
        /\ DOMAIN ring = 1..Len(ring) /\ DOMAIN q = 1..(Len(ring) + 1)
    BY AppendRing, LenProperties
  <2>2. \A t : t # s => Run(t) # Run(s)
    BY DEF Run
  <2>3. \A t : Run(t).type = "run"
    BY DEF Run
  <2> HIDE DEF q
  <2>4. ring' = q
    BY <1>2 DEF q
  <2>5. \A i \in DOMAIN q : q[i].type = "run" => i = Len(ring) + 1
    BY <1>0, <2>1
  <2>6. RunMessages'
    BY <2>1, <2>3, <2>4, <2>5 DEF RunMessages
  <2>7. \A t \in States : Queued(t)' => t = s
    BY <1>0, <2>1, <2>2, <2>3, <2>4 DEF Queued
  <2>8. Queued(s)'
    BY <2>1, <2>4 DEF Queued
  <2> QED BY <2>1, <2>4, <2>6, <2>7, <2>8
<1> QED BY <1>1, <1>2 DEF Write

\* Taking the oldest message off the ring.
LEMMA ReadRing ==
  ASSUME TypeOK, RunMessages, ring # <<>>, ring' = Tail(ring)
  PROVE  /\ ring' \in Seq(Messages) /\ Len(ring') = Len(ring) - 1 /\ Len(ring) \in Nat
         /\ Head(ring) \in Messages /\ RunMessages'
         /\ \A s \in States : Queued(s)' => Queued(s)
         /\ Head(ring).type # "run" => \A s \in States : Queued(s) => Queued(s)'
         /\ Head(ring).type = "run" => /\ \A s \in States : ~Queued(s)'
                                       /\ Queued(Head(ring).state)
         /\ Head(ring) = Run("PAUSED") => ring' = <<>>
<1> DEFINE q == Tail(ring)
<1>1. /\ q \in Seq(Messages) /\ Len(q) = Len(ring) - 1 /\ Len(ring) \in Nat /\ Len(ring) > 0
      /\ Head(ring) \in Messages /\ Head(ring) = ring[1]
      /\ \A i \in DOMAIN q : q[i] = ring[i + 1]
      /\ DOMAIN ring = 1..Len(ring) /\ DOMAIN q = 1..(Len(ring) - 1)
      /\ Len(q) = 0 => q = <<>>
  BY TailRing, LenProperties, EmptySeq DEF TypeOK
<1>2. \A t : Run(t).type = "run"
  BY DEF Run
<1> HIDE DEF q
<1>3. ring' = q
  BY DEF q
<1>4. \A i \in DOMAIN q : i + 1 \in DOMAIN ring
  BY <1>1
<1>5. \A i \in DOMAIN ring : i = 1 \/ (i - 1 \in DOMAIN q /\ q[i - 1] = ring[i])
  BY <1>1
<1>6. RunMessages'
  <2> SUFFICES ASSUME NEW i \in DOMAIN q, NEW j \in DOMAIN q
               PROVE  /\ q[i].type = "run" /\ q[j].type = "run" => i = j
                      /\ q[i] = Run("PAUSED") => j <= i
    BY <1>3 DEF RunMessages
  <2> QED BY <1>1, <1>4 DEF RunMessages
<1>7. \A s \in States : Queued(s)' => Queued(s)
  BY <1>1, <1>3, <1>4 DEF Queued
<1>8. ASSUME Head(ring).type # "run" PROVE \A s \in States : Queued(s) => Queued(s)'
  BY <1>1, <1>2, <1>3, <1>5, <1>8 DEF Queued
<1>9. ASSUME Head(ring).type = "run"
      PROVE  (\A s \in States : ~Queued(s)') /\ Queued(Head(ring).state)
  <2>1. \A i \in DOMAIN q : q[i].type # "run"
    BY <1>1, <1>4, <1>9 DEF RunMessages
  <2>2. \A s \in States : ~Queued(s)'
    BY <2>1, <1>2, <1>3 DEF Queued
  <2>3. ring[1] = Run(ring[1].state)
    BY <1>1, <1>9, MessageKinds
  <2> QED BY <2>2, <2>3, <1>1 DEF Queued
<1>10. ASSUME Head(ring) = Run("PAUSED") PROVE ring' = <<>>
  <2>1. \A j \in DOMAIN ring : j <= 1
    BY <1>1, <1>10 DEF RunMessages
  <2>2. Len(ring) \in DOMAIN ring
    BY <1>1
  <2> QED BY <2>1, <2>2, <1>1, <1>3
<1> QED BY <1>1, <1>3, <1>6, <1>7, <1>8, <1>9, <1>10

\* The initial state satisfies the inductive invariant.
LEMMA InitIInv == Init => IInv
<1> SUFFICES ASSUME Init PROVE IInv
  OBVIOUS
<1>1. <<>> \in Seq(Messages) /\ <<>> \in Seq(Nat)
  BY EmptySeq
<1>2. TypeOK
  <2>1. ring \in Seq(Messages) /\ evbuf \in Seq(Nat)
    BY <1>1, Zenon DEF Init
  <2>2. controls \in [Ports -> Values] /\ wanted \in [Ports -> Values]
    BY Zenon DEF Init
  <2>3. preset \in Values /\ bypass \in BOOLEAN /\ mustPause \in BOOLEAN /\ customUi \in BOOLEAN
        /\ filled = 0 /\ events = 0 /\ seen = {} /\ lost = {}
    BY ProcessAssumption DEF Init
  <2>4. cycle = "idle" /\ mpc = "idle" /\ runState = "RUNNING" /\ paused = 0 /\ budget = 0 /\ port = 1
        /\ commands = 0 /\ resizes = 0
    BY DEF Init
  <2> QED BY <2>1, <2>2, <2>3, <2>4 DEF TypeOK
<1>3. RunMessages /\ ~Queued("RUNNING") /\ ~Queued("PAUSED")
  BY DEF Init, RunMessages, Queued
<1> QED
  BY <1>2, <1>3 DEF Init, IInv, PausedWillResume, SignalMatchesRequest, Handshake, SnapshotInRing,
                    PausedSection

\* What a write to the control input leaves in it.
LEMMA Fills ==
  ASSUME filled \in Nat, NEW n \in Nat
  PROVE  Fill(n) => filled' \in Nat
<1>1. Pad(16 + n) \in Nat
  BY DEF Pad
<1> QED BY <1>1 DEF Fill

\* Every step preserves it.  A step that leaves the ring alone is one leaf;
\* one that writes or reads the ring uses what the lemmas say of it.
LEMMA StepIInv == IInv /\ [Next]_vars => IInv'
<1> SUFFICES ASSUME IInv, [Next]_vars PROVE IInv'
  OBVIOUS
<1> USE ProcessAssumption DEF States, main, audio, input
<1>0. TypeOK /\ RunMessages /\ ring \in Seq(Messages) /\ Len(ring) \in Nat
  BY LenProperties DEF IInv, TypeOK
<1>1. ASSUME NEW p \in Ports, NEW v \in Values, SetControl(p, v) PROVE IInv'
  BY <1>1 DEF SetControl, Command, IInv, TypeOK, PausedWillResume, SignalMatchesRequest, RunMessages,
     Handshake, SnapshotInRing, PausedSection, Queued
<1>2. ASSUME NEW p \in Ports, NEW v \in Values, SendControl(p, v) PROVE IInv'
  <2>1. Control(p, v) \in Messages /\ Control(p, v).type # "run"
    BY <1>2, MakeMessage DEF SendControl, TypeOK, IInv
  <2>2. Write(Control(p, v)) /\ ~Queued("PAUSED")
    BY <1>2 DEF SendControl, Command, TypeOK, PausedWillResume, SignalMatchesRequest, Handshake,
       SnapshotInRing, PausedSection, IInv
  <2>3. /\ ring' \in Seq(Messages) /\ Len(ring) <= Len(ring') /\ RunMessages'
        /\ \A s \in States : Queued(s)' <=> Queued(s)
    BY <1>0, <2>1, <2>2, WriteOther
  <2>4. Len(ring') \in Nat
    BY <2>3, LenProperties
  <2> QED
    BY <1>2, <2>3, <2>4 DEF SendControl, Command, IInv, TypeOK, PausedWillResume, SignalMatchesRequest, Handshake,
       SnapshotInRing, PausedSection
<1>3. ASSUME SendEvent PROVE IInv'
  <2> DEFINE m == Event(events + 1)
  <2>0. events + 1 \in Nat /\ events \in Nat
    BY DEF IInv, TypeOK
  <2>1. m \in Messages /\ m.type # "run"
    BY <2>0, MakeMessage
  <2>5. events' \in Nat
    BY <1>3, <2>0 DEF SendEvent
  <2> HIDE DEF m
  <2>2. Write(m) /\ ~Queued("PAUSED")
    BY <1>3 DEF SendEvent, Command, TypeOK, PausedWillResume, SignalMatchesRequest, Handshake,
       SnapshotInRing, PausedSection, IInv, m
  <2>3. /\ ring' \in Seq(Messages) /\ Len(ring) <= Len(ring') /\ RunMessages'
        /\ \A s \in States : Queued(s)' <=> Queued(s)
    BY <1>0, <2>1, <2>2, WriteOther
  <2>4. Len(ring') \in Nat
    BY <2>3, LenProperties
  <2> QED
    BY <1>3, <2>3, <2>4, <2>5 DEF SendEvent, Command, IInv, TypeOK, PausedWillResume, SignalMatchesRequest, Handshake,
       SnapshotInRing, PausedSection
<1>4. ASSUME NEW v \in Values, ApplyPreset(v) PROVE IInv'
  <2>1. mustPause' \in BOOLEAN /\ mpc' \in {"pause", "restore"} /\ (mpc' = "pause" <=> mustPause')
    BY <1>4 DEF ApplyPreset, MustPause, IInv, TypeOK
  <2>2. mustPause' => runState = "RUNNING"
    BY <1>4 DEF ApplyPreset, MustPause
  <2>3. mpc = "idle" /\ commands' \in Nat /\ preset' \in Values /\ port' = 1
    BY <1>4 DEF ApplyPreset, Command, IInv, TypeOK
  <2>4. UNCHANGED <<runState, ring, paused, controls, input, cycle, bypass, budget, resizes, wanted,
                    customUi, events>>
    BY <1>4 DEF ApplyPreset
  <2>5. TypeOK'
    BY <2>1, <2>3, <2>4 DEF IInv, TypeOK
  <2>6. RunMessages' /\ \A s \in States : Queued(s)' <=> Queued(s)
    BY <2>4 DEF IInv, RunMessages, Queued
  <2> QED
    BY <2>1, <2>2, <2>3, <2>4, <2>5, <2>6 DEF IInv, TypeOK, PausedWillResume, SignalMatchesRequest, Handshake,
       SnapshotInRing, PausedSection
<1>5. ASSUME WritePause PROVE IInv'
  <2>1. Write(Run("PAUSED")) /\ \A t \in States : ~Queued(t)
    BY <1>5 DEF WritePause, IInv, TypeOK, PausedWillResume, SignalMatchesRequest, Handshake,
       SnapshotInRing, PausedSection
  <2>2. /\ ring' \in Seq(Messages) /\ Len(ring) <= Len(ring') /\ RunMessages'
        /\ \A t \in States : Queued(t)' => t = "PAUSED"
    BY <1>0, <2>1, WriteState
  <2>3. Len(ring') \in Nat
    BY <2>2, LenProperties
  <2> QED
    BY <1>5, <2>2, <2>3 DEF WritePause, IInv, TypeOK, PausedWillResume, SignalMatchesRequest, Handshake,
       SnapshotInRing, PausedSection
<1>6. ASSUME WaitPaused PROVE IInv'
  BY <1>6 DEF WaitPaused, IInv, TypeOK, PausedWillResume, SignalMatchesRequest, RunMessages,
     Handshake, SnapshotInRing, PausedSection, Queued
<1>7. ASSUME FinishRestore PROVE IInv'
  BY <1>7 DEF FinishRestore, IInv, TypeOK, PausedWillResume, SignalMatchesRequest, RunMessages,
     Handshake, SnapshotInRing, PausedSection, Queued
<1>8. ASSUME SetPortValue PROVE IInv'
  <2>1. CASE runState # "RUNNING"
    BY <1>8, <2>1 DEF SetPortValue, IInv, TypeOK, PausedWillResume, SignalMatchesRequest, RunMessages,
     Handshake, SnapshotInRing, PausedSection, Queued
  <2>2. CASE runState = "RUNNING"
    <3>1. Control(port, preset) \in Messages /\ Control(port, preset).type # "run"
      BY <1>8, MakeMessage DEF SetPortValue, TypeOK, IInv
    <3>2. Write(Control(port, preset)) /\ ~Queued("PAUSED")
      BY <1>8, <2>2 DEF SetPortValue, IInv, TypeOK, PausedWillResume, SignalMatchesRequest, Handshake,
       SnapshotInRing, PausedSection
    <3>3. /\ ring' \in Seq(Messages) /\ Len(ring) <= Len(ring') /\ RunMessages'
          /\ \A s \in States : Queued(s)' <=> Queued(s)
      BY <1>0, <3>1, <3>2, WriteOther
    <3>4. Len(ring') \in Nat
      BY <3>3, LenProperties
    <3> QED
      BY <1>8, <2>2, <3>3, <3>4 DEF SetPortValue, IInv, TypeOK, PausedWillResume, SignalMatchesRequest, Handshake,
       SnapshotInRing, PausedSection
  <2> QED BY <2>1, <2>2
<1>9. ASSUME FinishPorts PROVE IInv'
  BY <1>9 DEF FinishPorts, IInv, TypeOK, PausedWillResume, SignalMatchesRequest, RunMessages,
     Handshake, SnapshotInRing, PausedSection, Queued
<1>10. ASSUME WriteRequest PROVE IInv'
  <2>1. ring = <<>> /\ Write(Request) /\ ~Queued("PAUSED")
    BY <1>10 DEF WriteRequest, IInv, TypeOK, PausedWillResume, SignalMatchesRequest, Handshake,
       SnapshotInRing, PausedSection
  <2>2. Request \in Messages /\ Request.type # "run"
    BY MakeMessage
  <2>3. /\ ring' \in Seq(Messages) /\ Len(ring) <= Len(ring') /\ RunMessages'
        /\ \A s \in States : Queued(s)' <=> Queued(s)
    BY <1>0, <2>1, <2>2, WriteOther
  <2>4. ring' \in {<<>>, <<Request>>}
    BY <2>1 DEF Write
  <2>5. Len(ring') \in Nat
    BY <2>3, LenProperties
  <2> QED
    BY <1>10, <2>1, <2>3, <2>4, <2>5 DEF WriteRequest, IInv, TypeOK, PausedWillResume, SignalMatchesRequest, Handshake,
       SnapshotInRing, PausedSection
<1>11. ASSUME WriteRun PROVE IInv'
  <2>1. ring \in {<<>>, <<Request>>} /\ Write(Run("RUNNING"))
    BY <1>11 DEF WriteRun, IInv, TypeOK, PausedWillResume, SignalMatchesRequest, Handshake,
       SnapshotInRing, PausedSection
  <2>2. Fits(Run("RUNNING"))
    <3>1. Used(ring) \in {0, 8}
      BY <2>1, UsedAtResume
    <3>2. Size(Run("RUNNING")) = 12
      BY DEF Size, Run
    <3> QED BY <3>1, <3>2 DEF Fits
  <2>3. \A t \in States : ~Queued(t)
    BY <2>1, MakeMessage DEF Queued
  <2>4. /\ ring' \in Seq(Messages) /\ Len(ring) <= Len(ring') /\ RunMessages'
        /\ \A t \in States : Queued(t)' => t = "RUNNING"
        /\ Queued("RUNNING")'
    BY <1>0, <2>1, <2>2, <2>3, WriteState
  <2>5. Len(ring') \in Nat
    BY <2>4, LenProperties
  <2> QED
    BY <1>11, <2>4, <2>5 DEF WriteRun, IInv, TypeOK, PausedWillResume, SignalMatchesRequest, Handshake,
       SnapshotInRing, PausedSection
<1>12. ASSUME BeginCycle PROVE IInv'
  <2>1. evbuf' \in Seq(Nat) /\ filled' \in Nat
    BY <1>12, EmptySeq DEF BeginCycle, IInv, TypeOK
  <2>2. bypass' \in BOOLEAN /\ budget' = Len(ring) /\ cycle' = "apply"
    BY <1>12 DEF BeginCycle
  <2>3. UNCHANGED <<runState, ring, paused, controls, seen, lost, main, resizes, wanted>>
    BY <1>12 DEF BeginCycle
  <2>4. TypeOK'
    BY <1>0, <2>1, <2>2, <2>3 DEF IInv, TypeOK
  <2>5. RunMessages' /\ \A s \in States : Queued(s)' <=> Queued(s)
    BY <2>3 DEF IInv, RunMessages, Queued
  <2> QED
    BY <1>0, <2>2, <2>3, <2>4, <2>5 DEF IInv, TypeOK, PausedWillResume, SignalMatchesRequest, Handshake,
       SnapshotInRing, PausedSection
<1>13. ASSUME ApplyControl PROVE IInv'
  <2>0. ring # <<>> /\ ring' = Tail(ring) /\ Head(ring).type = "control" /\ budget' = budget - 1 /\ budget > 0
    BY <1>13 DEF ApplyControl, Applying, IInv, SnapshotInRing, TypeOK
  <2>1. /\ ring' \in Seq(Messages) /\ Len(ring') = Len(ring) - 1 /\ Len(ring) \in Nat
        /\ Head(ring) \in Messages /\ RunMessages'
        /\ \A s \in States : Queued(s)' <=> Queued(s)
    BY <1>0, <2>0, ReadRing
  <2>2. Head(ring).port \in Ports /\ Head(ring).value \in Values
    BY <2>0, <2>1, MessageKinds
  <2>3. TypeOK'
    BY <1>13, <2>0, <2>1, <2>2 DEF ApplyControl, Applying, IInv, TypeOK
  <2>4. ring = <<>> => ring' = <<>>
    BY <2>0
  <2>5. PausedSection => FALSE
    BY <2>0 DEF IInv, Handshake, Request
  <2> QED
    BY <1>13, <2>0, <2>1, <2>3, <2>4, <2>5 DEF ApplyControl, Applying, IInv, TypeOK, PausedWillResume, SignalMatchesRequest, Handshake,
       SnapshotInRing, PausedSection
<1>14. ASSUME ApplyEvent PROVE IInv'
  <2>0. ring # <<>> /\ ring' = Tail(ring) /\ Head(ring).type = "event" /\ budget' = budget - 1 /\ budget > 0
    BY <1>14 DEF ApplyEvent, Applying, IInv, SnapshotInRing, TypeOK
  <2>1. /\ ring' \in Seq(Messages) /\ Len(ring') = Len(ring) - 1 /\ Len(ring) \in Nat
        /\ Head(ring) \in Messages /\ RunMessages'
        /\ \A s \in States : Queued(s)' <=> Queued(s)
    BY <1>0, <2>0, ReadRing
  <2>2. evbuf' \in Seq(Nat) /\ lost' \subseteq Nat /\ filled' \in Nat
    <3>1. evbuf \in Seq(Nat) /\ lost \subseteq Nat /\ Head(ring).id \in Nat
      BY <2>0, <2>1, MessageKinds DEF IInv, TypeOK
    <3>2. evbuf' = evbuf \/ evbuf' = Append(evbuf, Head(ring).id)
      BY <1>14 DEF ApplyEvent
    <3>3. evbuf' \in Seq(Nat)
      BY <3>1, <3>2, AppendProperties
    <3>4. lost' = lost \/ lost' = lost \cup {Head(ring).id}
      BY <1>14 DEF ApplyEvent
    <3>5. filled' \in Nat
      BY <1>14, Fills DEF ApplyEvent, IInv, TypeOK
    <3> QED BY <3>1, <3>3, <3>4, <3>5
  <2>3. TypeOK'
    BY <1>14, <2>0, <2>1, <2>2 DEF ApplyEvent, Applying, IInv, TypeOK
  <2>4. ring = <<>> => ring' = <<>>
    BY <2>0
  <2>5. PausedSection => FALSE
    BY <2>0 DEF IInv, Handshake, Request
  <2> QED
    BY <1>14, <2>0, <2>1, <2>3, <2>4, <2>5 DEF ApplyEvent, Applying, IInv, TypeOK, PausedWillResume, SignalMatchesRequest, Handshake,
       SnapshotInRing, PausedSection
<1>15. ASSUME ApplyRequest PROVE IInv'
  <2>0. ring # <<>> /\ ring' = Tail(ring) /\ Head(ring).type = "request" /\ budget' = budget - 1 /\ budget > 0
    BY <1>15 DEF ApplyRequest, Applying, IInv, SnapshotInRing, TypeOK
  <2>1. /\ ring' \in Seq(Messages) /\ Len(ring') = Len(ring) - 1 /\ Len(ring) \in Nat
        /\ Head(ring) \in Messages /\ RunMessages'
        /\ \A s \in States : Queued(s)' <=> Queued(s)
    BY <1>0, <2>0, ReadRing
  <2>2. filled' \in Nat
    BY <1>15, Fills DEF ApplyRequest, IInv, TypeOK
  <2>3. TypeOK'
    BY <1>15, <2>0, <2>1, <2>2 DEF ApplyRequest, Applying, IInv, TypeOK
  <2>4. ring = <<>> => ring' = <<>>
    BY <2>0
  <2>5. PausedSection => mpc = "resume" /\ ring = <<Request>> /\ ring' = <<>>
    <3>1. PausedSection => mpc = "resume" /\ ring = <<Request>>
      BY <2>0 DEF IInv, Handshake
    <3>2. Tail(<<Request>>) = <<>>
      OBVIOUS
    <3> QED BY <2>0, <3>1, <3>2
  <2> QED
    BY <1>15, <2>0, <2>1, <2>3, <2>4, <2>5 DEF ApplyRequest, Applying, IInv, TypeOK, PausedWillResume, SignalMatchesRequest, Handshake,
       SnapshotInRing, PausedSection
<1>16. ASSUME ApplyRunState PROVE IInv'
  <2>0. ring # <<>> /\ ring' = Tail(ring) /\ Head(ring).type = "run" /\ budget' = budget - 1 /\ budget > 0
    BY <1>16 DEF ApplyRunState, Applying, IInv, SnapshotInRing, TypeOK
  <2>1. /\ ring' \in Seq(Messages) /\ Len(ring') = Len(ring) - 1 /\ Len(ring) \in Nat
        /\ Head(ring) \in Messages /\ RunMessages'
        /\ \A s \in States : ~Queued(s)'
        /\ Queued(Head(ring).state)
        /\ Head(ring) = Run("PAUSED") => ring' = <<>>
    BY <1>0, <2>0, ReadRing
  <2>2. Head(ring).state \in States /\ Head(ring) = Run(Head(ring).state)
    BY <2>0, <2>1, MessageKinds
  <2>3. TypeOK'
    BY <1>16, <2>0, <2>1, <2>2 DEF ApplyRunState, Applying, IInv, TypeOK
  <2>4. ~PausedSection
    BY <2>0, MakeMessage DEF IInv, Handshake
  <2>5. CASE Head(ring).state = "PAUSED"
    BY <1>16, <2>0, <2>1, <2>2, <2>3, <2>4, <2>5 DEF ApplyRunState, Applying, IInv, TypeOK, PausedWillResume, SignalMatchesRequest, Handshake,
       SnapshotInRing, PausedSection
  <2>6. CASE Head(ring).state = "RUNNING"
    BY <1>16, <2>0, <2>1, <2>2, <2>3, <2>4, <2>6 DEF ApplyRunState, Applying, IInv, TypeOK, PausedWillResume, SignalMatchesRequest, Handshake,
       SnapshotInRing, PausedSection
  <2> QED BY <2>2, <2>5, <2>6
<1>17. ASSUME FinishApply PROVE IInv'
  BY <1>17 DEF FinishApply, IInv, TypeOK, PausedWillResume, SignalMatchesRequest, RunMessages,
     Handshake, SnapshotInRing, PausedSection, Queued
<1>18. ASSUME FinishPlugin PROVE IInv'
  <2>1. evbuf' \in Seq(Nat) /\ seen' \subseteq Nat
    <3>1. \A i \in DOMAIN evbuf : evbuf[i] \in Nat
      BY ElementOfSeq, LenProperties DEF IInv, TypeOK
    <3> QED BY <1>18, <3>1, EmptySeq DEF FinishPlugin, Ids, IInv, TypeOK
  <2> QED BY <1>18, <2>1 DEF FinishPlugin, IInv, TypeOK, PausedWillResume, SignalMatchesRequest, RunMessages,
     Handshake, SnapshotInRing, PausedSection, Queued
<1>19. ASSUME BufferSizeChanged PROVE IInv'
  <2>1. ring' = <<>> /\ ring' \in Seq(Messages) /\ Len(ring') = 0 /\ evbuf' \in Seq(Nat)
    BY <1>19, EmptySeq DEF BufferSizeChanged
  <2>2. lost' \subseteq Nat
    <3>1. \A i \in DOMAIN ring : ring[i] \in Messages
      BY <1>0, ElementOfSeq, LenProperties
    <3>2. EventIds(ring) \subseteq Nat
      BY <3>1, MessageKinds DEF EventIds
    <3> QED BY <1>19, <3>2 DEF BufferSizeChanged, IInv, TypeOK
  <2>3. TypeOK'
    BY <1>19, <2>1, <2>2 DEF BufferSizeChanged, IInv, TypeOK
  <2>4. \A s \in States : ~Queued(s)'
    BY <2>1 DEF Queued
  <2>5. RunMessages'
    BY <2>1 DEF RunMessages
  <2> QED
    BY <1>19, <2>1, <2>3, <2>4, <2>5 DEF BufferSizeChanged, MayResize, IInv, TypeOK, PausedWillResume, SignalMatchesRequest, Handshake,
       SnapshotInRing, PausedSection
<1>20. ASSUME UNCHANGED vars \/ Crashed PROVE IInv'
  <2>1. UNCHANGED vars
    BY <1>20 DEF Crashed
  <2> QED BY <2>1 DEF vars, IInv, TypeOK, PausedWillResume, SignalMatchesRequest, RunMessages,
       Handshake, SnapshotInRing, PausedSection, Queued
<1> QED
  BY <1>1, <1>2, <1>3, <1>4, <1>5, <1>6, <1>7, <1>8, <1>9, <1>10, <1>11, <1>12, <1>13, <1>14, <1>15, <1>16, <1>17, <1>18, <1>19, <1>20 DEF Next, User, Restoring, Audio

\* The inductive invariant holds throughout.
THEOREM Inductive == SafeSpec => []IInv
  BY InitIInv, StepIInv, PTL DEF SafeSpec

\* Variables keep their types.
THEOREM TypeCorrect == SafeSpec => []TypeOK
  BY Inductive, PTL DEF IInv
\* A restore that asked for the pause keeps the plugin paused to its end.
THEOREM RestoresArePaused == SafeSpec => []RestoreIsPaused
<1>1. IInv => RestoreIsPaused
  BY DEF IInv, RestoreIsPaused, Handshake, PausedSection, Queued
<1> QED BY Inductive, <1>1, PTL
\* A paused plugin always has someone who will resume it.
THEOREM PausesEnd == SafeSpec => []PausedWillResume
<1>1. IInv => PausedWillResume
  BY DEF IInv
<1> QED BY Inductive, <1>1, PTL
\* The semaphore answers exactly one request to pause.
THEOREM SignalsMatch == SafeSpec => []SignalMatchesRequest
<1>1. IInv => SignalMatchesRequest
  BY DEF IInv
<1> QED BY Inductive, <1>1, PTL
-----------------------------------------------------------------------------
(* The values of a UI.                                                     *)

Pending(q, p) == {i \in DOMAIN q : q[i].type = "control" /\ q[i].port = p}

\* The value that port p ends up with is want: its last message has it, or
\* there is none left and the plugin does.
EndsWith(q, p, has, want) ==
  IF Pending(q, p) = {} THEN has = want
  ELSE \E i \in Pending(q, p) : q[i].value = want /\ \A j \in Pending(q, p) : j <= i

LEMMA WinsIsEnds ==
  LatestWins <=> (customUi /\ resizes = 0 =>
                    \A p \in Ports : EndsWith(ring, p, controls[p], wanted[p]))
  BY DEF LatestWins, EndsWith, Pending

\* A message for p behind the others decides, one for another port or of
\* another kind changes nothing.
LEMMA WrittenEnds ==
  ASSUME NEW q \in Seq(Messages), NEW m \in Messages, NEW p, NEW has, NEW want
  PROVE  /\ m.type = "control" /\ m.port = p => EndsWith(Append(q, m), p, has, m.value)
         /\ ~(m.type = "control" /\ m.port = p) /\ EndsWith(q, p, has, want)
              => EndsWith(Append(q, m), p, has, want)
<1> DEFINE n == Len(q) + 1
<1>1. /\ Len(q) \in Nat /\ DOMAIN q = 1..Len(q) /\ DOMAIN Append(q, m) = 1..n
      /\ \A i \in 1..Len(q) : Append(q, m)[i] = q[i]
      /\ Append(q, m)[n] = m
  BY AppendRing, LenProperties
<1>2. ASSUME m.type = "control", m.port = p PROVE EndsWith(Append(q, m), p, has, m.value)
  <2>1. n \in Pending(Append(q, m), p) /\ \A j \in Pending(Append(q, m), p) : j <= n
    BY <1>1, <1>2 DEF Pending
  <2> QED BY <1>1, <2>1 DEF EndsWith
<1>3. ASSUME ~(m.type = "control" /\ m.port = p), EndsWith(q, p, has, want)
      PROVE  EndsWith(Append(q, m), p, has, want)
  <2>1. Pending(Append(q, m), p) = Pending(q, p)
    BY <1>1, <1>3 DEF Pending
  <2>2. \A i \in Pending(q, p) : Append(q, m)[i] = q[i]
    BY <1>1 DEF Pending
  <2> QED BY <1>3, <2>1, <2>2 DEF EndsWith
<1> QED BY <1>2, <1>3

\* Reading the oldest message: the plugin has its value if it is for p.
LEMMA ReadEnds ==
  ASSUME NEW q \in Seq(Messages), q # <<>>, NEW p, NEW has, NEW want,
         EndsWith(q, p, has, want)
  PROVE  /\ Head(q).type = "control" /\ Head(q).port = p
              => EndsWith(Tail(q), p, Head(q).value, want)
         /\ ~(Head(q).type = "control" /\ Head(q).port = p)
              => EndsWith(Tail(q), p, has, want)
<1>1. /\ Len(q) \in Nat /\ Len(q) > 0 /\ Head(q) = q[1]
      /\ DOMAIN q = 1..Len(q) /\ DOMAIN Tail(q) = 1..(Len(q) - 1)
      /\ \A i \in 1..(Len(q) - 1) : Tail(q)[i] = q[i + 1]
  BY TailRing, LenProperties
<1>2. /\ \A i \in Pending(Tail(q), p) : i \in 1..(Len(q) - 1) /\ i + 1 \in Pending(q, p)
      /\ \A i \in Pending(q, p) : i \in 1..Len(q) /\ (i # 1 => i - 1 \in Pending(Tail(q), p))
  BY <1>1 DEF Pending
<1>3. CASE Pending(q, p) = {}
  <2>1. Pending(Tail(q), p) = {}
    BY <1>2, <1>3
  <2>2. ~(Head(q).type = "control" /\ Head(q).port = p)
    BY <1>1, <1>3 DEF Pending
  <2> QED BY <1>3, <2>1, <2>2 DEF EndsWith
<1>4. CASE Pending(q, p) # {}
  <2>1. PICK i \in Pending(q, p) : q[i].value = want /\ \A j \in Pending(q, p) : j <= i
    BY <1>4 DEF EndsWith
  <2>2. CASE i = 1
    <3>1. Pending(Tail(q), p) = {}
      <4> SUFFICES ASSUME NEW j \in Pending(Tail(q), p) PROVE FALSE
        OBVIOUS
      <4>1. j \in 1..(Len(q) - 1) /\ j + 1 <= 1
        BY <1>2, <2>1, <2>2
      <4> QED BY <1>1, <4>1
    <3>2. Head(q).type = "control" /\ Head(q).port = p /\ Head(q).value = want
      BY <1>1, <2>1, <2>2 DEF Pending
    <3> QED BY <3>1, <3>2 DEF EndsWith
  <2>3. CASE i # 1
    <3>1. i - 1 \in Pending(Tail(q), p) /\ Tail(q)[i - 1] = q[i]
      BY <1>1, <1>2, <2>1, <2>3
    <3>2. \A j \in Pending(Tail(q), p) : j <= i - 1
      BY <1>2, <2>1
    <3> QED BY <2>1, <3>1, <3>2 DEF EndsWith
  <2> QED BY <2>2, <2>3
<1> QED BY <1>3, <1>4

\* The main thread of a UI restores nothing.
UiIsIdle == customUi => mpc = "idle"

LEMMA StepLatest == IInv /\ UiIsIdle /\ LatestWins /\ [Next]_vars => (UiIsIdle /\ LatestWins)'
<1> SUFFICES ASSUME IInv, UiIsIdle, LatestWins, [Next]_vars PROVE UiIsIdle' /\ LatestWins'
  OBVIOUS
<1> USE DEF main, audio, input
<1>0. /\ ring \in Seq(Messages) /\ resizes \in Nat
      /\ controls \in [Ports -> Values] /\ wanted \in [Ports -> Values]
  BY DEF IInv, TypeOK
<1>1. CASE ~customUi
  BY <1>1 DEF UiIsIdle, LatestWins, Next, User, Restoring, Audio, vars, SetControl, SendControl, SendEvent,
     ApplyPreset, WritePause, WaitPaused, FinishRestore, SetPortValue, FinishPorts, WriteRequest, WriteRun,
     BeginCycle, ApplyControl, ApplyEvent, ApplyRequest, ApplyRunState, Applying, FinishApply,
     FinishPlugin, BufferSizeChanged, Crashed
<1>2. CASE customUi /\ resizes # 0
  <2>1. ASSUME Restoring PROVE FALSE
    BY <1>2, <2>1 DEF UiIsIdle, Restoring, WritePause, WaitPaused, FinishRestore, SetPortValue, FinishPorts,
       WriteRequest, WriteRun
  <2>2. ASSUME NEW p \in Ports, NEW v \in Values, SetControl(p, v) \/ SendControl(p, v)
        PROVE  UNCHANGED <<customUi, mpc, resizes>>
    BY <2>2 DEF SetControl, SendControl
  <2>3. ASSUME SendEvent \/ \E v \in Values : ApplyPreset(v) PROVE UNCHANGED <<customUi, mpc, resizes>>
    BY <1>2, <2>3 DEF SendEvent, ApplyPreset
  <2>4. ASSUME Audio \/ Crashed \/ UNCHANGED vars PROVE UNCHANGED <<customUi, mpc, resizes>>
    BY <2>4 DEF Audio, BeginCycle, ApplyControl, ApplyEvent, ApplyRequest, ApplyRunState, Applying,
       FinishApply, FinishPlugin, Crashed, vars
  <2>5. ASSUME BufferSizeChanged PROVE UNCHANGED <<customUi, mpc>> /\ resizes' # 0
    BY <1>0, <2>5 DEF BufferSizeChanged
  <2>6. UNCHANGED <<customUi, mpc>> /\ resizes' # 0
    BY <1>2, <2>1, <2>2, <2>3, <2>4, <2>5 DEF Next, User
  <2> QED BY <1>2, <2>6 DEF UiIsIdle, LatestWins
<1>3. CASE customUi /\ resizes = 0
  <2>0. mpc = "idle" /\ \A p \in Ports : EndsWith(ring, p, controls[p], wanted[p])
    BY <1>3, WinsIsEnds DEF UiIsIdle
  <2>1. ASSUME NEW p \in Ports, NEW v \in Values, SendControl(p, v) PROVE UiIsIdle' /\ LatestWins'
    <3>1. /\ Control(p, v) \in Messages /\ Control(p, v).type = "control"
          /\ Control(p, v).port = p /\ Control(p, v).value = v
      BY MakeMessage DEF Control
    <3>2. UNCHANGED <<customUi, mpc, resizes, controls>>
      BY <2>1 DEF SendControl
    <3>3. CASE Fits(Control(p, v))
      <4>1. /\ ring' = Append(ring, Control(p, v))
            /\ wanted' = [wanted EXCEPT ![p] = v]
        BY <2>1, <3>3 DEF SendControl, Write
      <4>2. \A o \in Ports : EndsWith(ring', o, controls[o], wanted'[o])
        <5> SUFFICES ASSUME NEW o \in Ports PROVE EndsWith(ring', o, controls[o], wanted'[o])
          OBVIOUS
        <5>1. CASE o = p
          <6>1. wanted'[o] = v
            BY <1>0, <4>1, <5>1
          <6> QED BY <1>0, <3>1, <4>1, <5>1, <6>1, WrittenEnds
        <5>2. CASE o # p
          <6>1. wanted'[o] = wanted[o] /\ EndsWith(ring, o, controls[o], wanted[o])
            BY <1>0, <2>0, <4>1, <5>2
          <6> QED BY <1>0, <3>1, <4>1, <5>2, <6>1, WrittenEnds
        <5> QED BY <5>1, <5>2
      <4> QED BY <1>3, <2>0, <3>2, <4>2 DEF UiIsIdle, LatestWins, EndsWith, Pending
    <3>4. CASE ~Fits(Control(p, v))
      <4>1. UNCHANGED <<ring, wanted>>
        BY <2>1, <3>4 DEF SendControl, Write
      <4> QED BY <2>0, <3>2, <4>1 DEF UiIsIdle, LatestWins
    <3> QED BY <3>3, <3>4
  <2>2. ASSUME SendEvent PROVE UiIsIdle' /\ LatestWins'
    <3> DEFINE m == Event(events + 1)
    <3>1. m \in Messages /\ m.type # "control"
      BY MakeMessage DEF IInv, TypeOK
    <3>2. UNCHANGED <<customUi, mpc, resizes, controls, wanted>>
      BY <2>2 DEF SendEvent
    <3>3. ring' = ring \/ ring' = Append(ring, m)
      BY <2>2 DEF SendEvent, Write
    <3> HIDE DEF m
    <3>4. \A o \in Ports : EndsWith(ring', o, controls[o], wanted[o])
      BY <1>0, <2>0, <3>1, <3>3, WrittenEnds
    <3> QED BY <1>3, <2>0, <3>2, <3>4 DEF UiIsIdle, LatestWins, EndsWith, Pending
  <2>3. ASSUME ApplyControl \/ ApplyEvent \/ ApplyRequest \/ ApplyRunState
        PROVE  UiIsIdle' /\ LatestWins'
    <3>1. /\ ring # <<>> /\ ring' = Tail(ring)
          /\ UNCHANGED <<customUi, mpc, resizes, wanted>>
      BY <2>3 DEF ApplyControl, ApplyEvent, ApplyRequest, ApplyRunState, Applying, IInv,
         SnapshotInRing, TypeOK
    <3>2. Head(ring) \in Messages
      BY <1>0, <3>1, TailRing
    <3>3. \A o \in Ports : EndsWith(ring', o, controls'[o], wanted[o])
      <4> SUFFICES ASSUME NEW o \in Ports PROVE EndsWith(ring', o, controls'[o], wanted[o])
        OBVIOUS
      <4>1. EndsWith(ring, o, controls[o], wanted[o])
        BY <2>0
      <4>2. CASE Head(ring).type = "control" /\ Head(ring).port = o
        <5>1. controls'[o] = Head(ring).value
          BY <1>0, <2>3, <4>2 DEF ApplyControl, ApplyEvent, ApplyRequest, ApplyRunState, Applying
        <5> QED BY <1>0, <3>1, <4>1, <4>2, <5>1, ReadEnds
      <4>3. CASE ~(Head(ring).type = "control" /\ Head(ring).port = o)
        <5>1. controls'[o] = controls[o]
          BY <1>0, <2>3, <4>3 DEF ApplyControl, ApplyEvent, ApplyRequest, ApplyRunState, Applying
        <5> QED BY <1>0, <3>1, <4>1, <4>3, <5>1, ReadEnds
      <4> QED BY <4>2, <4>3
    <3> QED BY <1>3, <2>0, <3>1, <3>3 DEF UiIsIdle, LatestWins, EndsWith, Pending
  <2>4. ASSUME BeginCycle \/ FinishApply \/ FinishPlugin \/ Crashed \/ UNCHANGED vars
        PROVE  UiIsIdle' /\ LatestWins'
    <3>1. UNCHANGED <<customUi, mpc, resizes, wanted, ring, controls>>
      BY <2>4 DEF BeginCycle, FinishApply, FinishPlugin, Crashed, vars
    <3> QED BY <3>1 DEF UiIsIdle, LatestWins
  <2>5. ASSUME BufferSizeChanged PROVE UiIsIdle' /\ LatestWins'
    <3>1. resizes' # 0 /\ UNCHANGED <<customUi, mpc>>
      BY <1>0, <2>5 DEF BufferSizeChanged
    <3> QED BY <3>1 DEF UiIsIdle, LatestWins
  <2>6. ASSUME Restoring \/ (\E v \in Values : ApplyPreset(v))
                 \/ \E p \in Ports, v \in Values : SetControl(p, v)
        PROVE  FALSE
    BY <1>3, <2>0, <2>6 DEF Restoring, ApplyPreset, SetControl, WritePause, WaitPaused, FinishRestore,
       SetPortValue, FinishPorts, WriteRequest, WriteRun
  <2> QED BY <2>1, <2>2, <2>3, <2>4, <2>5, <2>6 DEF Next, User, Audio
<1> QED BY <1>1, <1>2, <1>3

\* Of the values a UI wrote the last accepted one reaches the plugin last.
THEOREM LatestValueWins == SafeSpec => []LatestWins
<1>1. Init => UiIsIdle /\ LatestWins
  <2> SUFFICES ASSUME Init PROVE UiIsIdle /\ LatestWins
    OBVIOUS
  <2>1. mpc = "idle" /\ ring = <<>> /\ wanted = controls
    BY DEF Init
  <2>2. DOMAIN ring = {}
    BY <2>1
  <2> QED BY <2>1, <2>2 DEF UiIsIdle, LatestWins
<1> QED BY <1>1, StepLatest, Inductive, PTL DEF SafeSpec

-----------------------------------------------------------------------------
(* A custom UI's events.                                                   *)

\* Whether there is a custom UI is settled before the first step.
LEMMA UiStays == [Next]_vars => UNCHANGED customUi
  BY DEF Next, User, Restoring, Audio, Crashed, vars, main, audio, Command, SetControl, SendControl, SendEvent,
     ApplyPreset, WritePause, WaitPaused, FinishRestore, SetPortValue, FinishPorts, WriteRequest, WriteRun,
     BeginCycle, ApplyControl, ApplyEvent, ApplyRequest, ApplyRunState, Applying, FinishApply,
     FinishPlugin, BufferSizeChanged

\* No step of a custom UI pauses the plugin, and a cycle takes events off the
\* ring only on its way to the plugin.
LEMMA StepRunsOn == IInv /\ PluginRunsOn /\ [Next]_vars => PluginRunsOn'
<1> SUFFICES ASSUME IInv, PluginRunsOn, [Next]_vars, customUi PROVE PluginRunsOn'
  BY UiStays DEF PluginRunsOn
<1> USE DEF main, audio, input
<1>0. /\ ring \in Seq(Messages) /\ mpc = "idle" /\ runState = "RUNNING" /\ ~bypass
      /\ \A i \in DOMAIN ring : ring[i].type # "run"
      /\ cycle = "idle" => evbuf = <<>>
  BY DEF IInv, TypeOK, PluginRunsOn
<1>1. ASSUME NEW m \in Messages, m.type # "run", Write(m)
      PROVE  \A i \in DOMAIN ring' : ring'[i].type # "run"
  <2>1. CASE ring' = ring
    BY <1>0, <2>1
  <2>2. CASE ring' = Append(ring, m)
    <3>1. /\ DOMAIN ring = 1..Len(ring) /\ DOMAIN ring' = 1..(Len(ring) + 1) /\ Len(ring) \in Nat
          /\ \A i \in DOMAIN ring : ring'[i] = ring[i]
          /\ ring'[Len(ring) + 1] = m
      BY <1>0, <2>2, AppendRing, LenProperties
    <3>2. \A i \in DOMAIN ring' : i \in DOMAIN ring \/ i = Len(ring) + 1
      BY <3>1
    <3> QED BY <1>0, <1>1, <3>1, <3>2
  <2> QED BY <1>1, <2>1, <2>2 DEF Write
<1>2. ASSUME SendEvent \/ \E p \in Ports, v \in Values : SendControl(p, v)
      PROVE  PluginRunsOn'
  <2>1. /\ UNCHANGED <<runState, bypass, mpc, cycle, evbuf>>
        /\ \E m \in Messages : m.type # "run" /\ Write(m)
    <3>1. CASE SendEvent
      <4>1. Event(events + 1) \in Messages /\ Event(events + 1).type # "run"
        BY MakeMessage DEF IInv, TypeOK
      <4> QED BY <3>1, <4>1 DEF SendEvent
    <3>2. CASE \E p \in Ports, v \in Values : SendControl(p, v)
      BY <3>2, MakeMessage DEF SendControl
    <3> QED BY <1>2, <3>1, <3>2
  <2> QED BY <1>0, <1>1, <2>1 DEF PluginRunsOn
<1>3. ASSUME \/ \E p \in Ports, v \in Values : SetControl(p, v)
             \/ \E v \in Values : ApplyPreset(v)
             \/ Restoring
      PROVE  FALSE
  BY <1>0, <1>3 DEF SetControl, ApplyPreset, Restoring, WritePause, WaitPaused, FinishRestore, SetPortValue,
     FinishPorts, WriteRequest, WriteRun
<1>4. CASE BeginCycle
  BY <1>0, <1>4 DEF BeginCycle, PluginRunsOn
<1>5. CASE ApplyControl \/ ApplyEvent \/ ApplyRequest \/ ApplyRunState
  <2>1. /\ ring # <<>> /\ ring' = Tail(ring) /\ UNCHANGED <<bypass, mpc>> /\ cycle' # "idle"
    <3>1. cycle = "apply" /\ budget > 0 /\ ring' = Tail(ring) /\ UNCHANGED <<bypass, mpc>>
      BY <1>5 DEF ApplyControl, ApplyEvent, ApplyRequest, ApplyRunState, Applying
    <3>2. cycle' \in {cycle, "crashed"}
      BY <1>5 DEF ApplyControl, ApplyEvent, ApplyRequest, ApplyRunState
    <3>3. Len(ring) # 0
      BY <1>0, <3>1, LenProperties DEF IInv, SnapshotInRing, TypeOK
    <3> QED BY <1>0, <3>1, <3>2, <3>3, EmptySeq
  <2>2. /\ Head(ring) = ring[1] /\ 1 \in DOMAIN ring
        /\ \A i \in DOMAIN ring' : i + 1 \in DOMAIN ring /\ ring'[i] = ring[i + 1]
    <3>1. /\ Head(ring) = ring[1] /\ Len(ring) > 0 /\ Len(ring) \in Nat
          /\ \A i \in DOMAIN ring' : ring'[i] = ring[i + 1]
          /\ DOMAIN ring = 1..Len(ring) /\ DOMAIN ring' = 1..(Len(ring) - 1)
      BY <1>0, <2>1, TailRing, LenProperties
    <3> QED BY <3>1
  <2>3. ~ApplyRunState
    BY <1>0, <2>2 DEF ApplyRunState, Applying
  <2>4. UNCHANGED runState
    BY <1>5, <2>3 DEF ApplyControl, ApplyEvent, ApplyRequest
  <2> QED BY <1>0, <2>1, <2>2, <2>4 DEF PluginRunsOn
<1>6. CASE FinishApply
  BY <1>0, <1>6 DEF FinishApply, PluginRunsOn
<1>7. CASE FinishPlugin
  BY <1>0, <1>7 DEF FinishPlugin, PluginRunsOn
<1>8. CASE BufferSizeChanged
  <2>1. /\ UNCHANGED <<runState, bypass, mpc, cycle>> /\ ring' = <<>> /\ evbuf' = <<>>
    BY <1>8 DEF BufferSizeChanged
  <2>2. DOMAIN ring' = {}
    BY <2>1
  <2> QED BY <1>0, <2>1, <2>2 DEF PluginRunsOn
<1>9. CASE UNCHANGED vars \/ Crashed
  BY <1>0, <1>9 DEF vars, Crashed, PluginRunsOn
<1> QED BY <1>2, <1>3, <1>4, <1>5, <1>6, <1>7, <1>8, <1>9 DEF Next, User, Audio

\* The plugin of a custom UI is never paused.
THEOREM RunsOn == SafeSpec => []PluginRunsOn
<1>1. Init => PluginRunsOn
  <2> SUFFICES ASSUME Init PROVE PluginRunsOn
    OBVIOUS
  <2>1. DOMAIN ring = {}
    BY DEF Init
  <2> QED BY <2>1 DEF Init, PluginRunsOn
<1> QED BY <1>1, StepRunsOn, Inductive, PTL DEF SafeSpec

\* A ring of messages of any kinds K: its events and their order, place by place.
LEMMA EventPlaces ==
  ASSUME NEW q
  PROVE  \A e : e \in EventIds(q) <=> \E i \in DOMAIN q : q[i].type = "event" /\ q[i].id = e
  BY DEF EventIds

\* A message behind the others.
LEMMA AppendMessage ==
  ASSUME NEW K, NEW q \in Seq(K), NEW m \in K
  PROVE  LET r == Append(q, m)
             last == IF m.type = "event" THEN {m.id} ELSE {}
         IN  /\ r \in Seq(K) /\ Len(r) = Len(q) + 1
             /\ Tells(r) <=> Tells(q) \/ m = Latency
             /\ EventIds(r) = EventIds(q) \cup last
             /\ Ascending(q) /\ Precedes(EventIds(q), last) => Ascending(r)
<1> DEFINE r == Append(q, m)
           last == IF m.type = "event" THEN {m.id} ELSE {}
<1>1. PICK n \in Nat : n = Len(q)
  BY LenProperties
<1>2. /\ r \in Seq(K) /\ Len(r) = n + 1 /\ DOMAIN r = 1..(n + 1) /\ DOMAIN q = 1..n
      /\ \A i \in 1..n : r[i] = q[i]
      /\ r[n + 1] = m
  BY <1>1, AppendProperties, LenProperties
<1> HIDE DEF r
<1>3. \A i : i \in DOMAIN r <=> i \in DOMAIN q \/ i = n + 1
  BY <1>2
<1>4. Tells(r) <=> Tells(q) \/ m = Latency
  BY <1>2, <1>3 DEF Tells
<1>5. EventIds(r) = EventIds(q) \cup last
  <2>1. ASSUME NEW e \in EventIds(r) PROVE e \in EventIds(q) \cup last
    <3>1. PICK i \in DOMAIN r : r[i].type = "event" /\ r[i].id = e
      BY <2>1, EventPlaces
    <3>2. CASE i \in DOMAIN q
      BY <1>2, <3>1, <3>2, EventPlaces
    <3>3. CASE i = n + 1
      BY <1>2, <3>1, <3>3
    <3> QED BY <1>3, <3>2, <3>3
  <2>2. ASSUME NEW e \in EventIds(q) PROVE e \in EventIds(r)
    <3>1. PICK i \in DOMAIN q : q[i].type = "event" /\ q[i].id = e
      BY <2>2, EventPlaces
    <3>2. i \in DOMAIN r /\ r[i] = q[i]
      BY <1>2, <1>3
    <3> QED BY <3>1, <3>2, EventPlaces
  <2>3. ASSUME NEW e \in last PROVE e \in EventIds(r)
    <3>1. n + 1 \in DOMAIN r /\ r[n + 1].type = "event" /\ r[n + 1].id = e
      BY <1>2, <1>3, <2>3
    <3> QED BY <3>1, EventPlaces
  <2> QED BY <2>1, <2>2, <2>3
<1>6. ASSUME Ascending(q), Precedes(EventIds(q), last) PROVE Ascending(r)
  <2> SUFFICES ASSUME NEW i \in DOMAIN r, NEW j \in DOMAIN r, i < j,
                      r[i].type = "event", r[j].type = "event"
               PROVE  r[i].id < r[j].id
    BY DEF Ascending
  <2>1. i \in 1..n /\ r[i] = q[i] /\ q[i].id \in EventIds(q)
    <3>1. i \in 1..n
      BY <1>2
    <3> QED BY <1>2, <3>1, EventPlaces
  <2>2. CASE j \in 1..n
    BY <1>2, <1>6, <2>1, <2>2 DEF Ascending
  <2>3. CASE j = n + 1
    BY <1>2, <1>6, <2>1, <2>3 DEF Precedes
  <2> QED BY <1>2, <2>2, <2>3
<1> QED BY <1>1, <1>2, <1>4, <1>5, <1>6 DEF r

\* The oldest message and the rest.
LEMMA TailMessage ==
  ASSUME NEW K, NEW q \in Seq(K), q # <<>>
  PROVE  LET r == Tail(q)
             first == IF Head(q).type = "event" THEN {Head(q).id} ELSE {}
         IN  /\ r \in Seq(K) /\ Len(r) = Len(q) - 1 /\ Head(q) \in K
             /\ Tells(q) <=> Tells(r) \/ Head(q) = Latency
             /\ EventIds(q) = first \cup EventIds(r)
             /\ Ascending(q) => Ascending(r) /\ Precedes(first, EventIds(r))
<1> DEFINE r == Tail(q)
           first == IF Head(q).type = "event" THEN {Head(q).id} ELSE {}
<1>1. PICK n \in Nat : n = Len(q) /\ n > 0
  BY LenProperties, EmptySeq
<1>2. /\ r \in Seq(K) /\ Len(r) = n - 1 /\ DOMAIN r = 1..(n - 1) /\ DOMAIN q = 1..n
      /\ \A i \in 1..(n - 1) : r[i] = q[i + 1]
      /\ Head(q) = q[1] /\ q[1] \in K
  BY <1>1, HeadTailProperties, LenProperties, ElementOfSeq
<1> HIDE DEF r
<1>3. /\ 1 \in DOMAIN q
      /\ \A i \in DOMAIN r : i + 1 \in DOMAIN q /\ i + 1 > 1 /\ r[i] = q[i + 1]
      /\ \A i \in DOMAIN q : i = 1 \/ (i - 1 \in DOMAIN r /\ r[i - 1] = q[i])
  BY <1>1, <1>2
<1>4. Tells(q) <=> Tells(r) \/ Head(q) = Latency
  BY <1>2, <1>3 DEF Tells
<1>5. EventIds(q) = first \cup EventIds(r)
  <2>1. ASSUME NEW e \in EventIds(r) PROVE e \in EventIds(q)
    BY <1>3, <2>1, EventPlaces
  <2>2. ASSUME NEW e \in EventIds(q) PROVE e \in first \cup EventIds(r)
    <3>1. PICK i \in DOMAIN q : q[i].type = "event" /\ q[i].id = e
      BY <2>2, EventPlaces
    <3>2. CASE i = 1
      BY <1>2, <3>1, <3>2
    <3>3. CASE i - 1 \in DOMAIN r /\ r[i - 1] = q[i]
      BY <3>1, <3>3, EventPlaces
    <3> QED BY <1>3, <3>2, <3>3
  <2>3. ASSUME NEW e \in first PROVE e \in EventIds(q)
    BY <1>2, <1>3, <2>3, EventPlaces
  <2> QED BY <2>1, <2>2, <2>3
<1>6. ASSUME Ascending(q) PROVE Ascending(r) /\ Precedes(first, EventIds(r))
  <2>1. Ascending(r)
    <3> SUFFICES ASSUME NEW i \in DOMAIN r, NEW j \in DOMAIN r, i < j,
                        r[i].type = "event", r[j].type = "event"
                 PROVE  r[i].id < r[j].id
      BY DEF Ascending
    <3>1. i + 1 < j + 1
      BY <1>2
    <3> QED BY <1>3, <1>6, <3>1 DEF Ascending
  <2>2. ASSUME NEW d \in first, NEW e \in EventIds(r) PROVE d < e
    <3>1. PICK i \in DOMAIN r : r[i].type = "event" /\ r[i].id = e
      BY <2>2, EventPlaces
    <3> QED BY <1>2, <1>3, <1>6, <2>2, <3>1 DEF Ascending
  <2> QED BY <2>1, <2>2 DEF Precedes
<1> QED BY <1>1, <1>2, <1>4, <1>5, <1>6 DEF r

\* What nothing, one number and one number more make.
LEMMA NoEvents == /\ Ids(<<>>) = {} /\ EventIds(<<>>) = {} /\ Ascending(<<>>) /\ Rising(<<>>)
                  /\ \A e : Ids(<<e>>) = {e}
<1>1. DOMAIN <<>> = {}
  OBVIOUS
<1>2. ASSUME NEW e PROVE Ids(<<e>>) = {e}
  <2>1. DOMAIN <<e>> = {1} /\ <<e>>[1] = e
    OBVIOUS
  <2> QED BY <2>1 DEF Ids
<1> QED BY <1>1, <1>2 DEF Ids, EventIds, Ascending, Rising

LEMMA AppendNumber ==
  ASSUME NEW s \in Seq(Nat), NEW e \in Nat
  PROVE  /\ Ids(Append(s, e)) = Ids(s) \cup {e}
         /\ Rising(s) /\ Precedes(Ids(s), {e}) => Rising(Append(s, e))
<1> DEFINE r == Append(s, e)
<1>1. PICK n \in Nat : n = Len(s)
  BY LenProperties
<1>2. /\ DOMAIN r = 1..(n + 1) /\ DOMAIN s = 1..n
      /\ \A i \in 1..n : r[i] = s[i]
      /\ r[n + 1] = e
  BY <1>1, AppendProperties, LenProperties
<1> HIDE DEF r
<1>3. \A i : i \in DOMAIN r <=> i \in DOMAIN s \/ i = n + 1
  BY <1>2
<1>4. Ids(r) = Ids(s) \cup {e}
  BY <1>2, <1>3 DEF Ids
<1>5. ASSUME Rising(s), Precedes(Ids(s), {e}) PROVE Rising(r)
  <2> SUFFICES ASSUME NEW i \in DOMAIN r, NEW j \in DOMAIN r, i < j PROVE r[i] < r[j]
    BY DEF Rising
  <2>1. i \in 1..n /\ r[i] = s[i] /\ s[i] \in Ids(s)
    <3>1. i \in 1..n
      BY <1>2
    <3> QED BY <1>2, <3>1 DEF Ids
  <2>2. CASE j \in 1..n
    BY <1>2, <1>5, <2>1, <2>2 DEF Rising
  <2>3. CASE j = n + 1
    BY <1>2, <1>5, <2>1, <2>3 DEF Precedes
  <2> QED BY <1>2, <2>2, <2>3
<1> QED BY <1>4, <1>5 DEF r

\* An event that is lost was one of the accepted.
LostWereAccepted == lost \subseteq 1..events

\* What is left to show of a step once it is known where it leaves the events.
LEMMA EventsMove ==
  ASSUME IInv, PluginRunsOn, customUi, EventsReachPlugin, LostWereAccepted, [Next]_vars
  PROVE  EventsReachPlugin' /\ LostWereAccepted'
<1> DEFINE S == seen
           E == Ids(evbuf)
           R == EventIds(ring)
           N == 1..events
<1>0. /\ ring \in Seq(Messages) /\ evbuf \in Seq(Nat) /\ events \in Nat
      /\ mpc = "idle" /\ runState = "RUNNING" /\ ~bypass
      /\ cycle = "idle" => evbuf = <<>>
      /\ Rising(evbuf) /\ Ascending(ring)
      /\ Precedes(S, E \cup R) /\ Precedes(E, R)
      /\ S \cup E \cup R = N \ lost /\ lost \subseteq N
  BY DEF IInv, TypeOK, PluginRunsOn, EventsReachPlugin, LostWereAccepted
<1>1. \A i : i \in N => i \in Nat /\ i # 0 /\ i <= events
  BY <1>0
<1> USE DEF main, audio, input
<1>2. ASSUME UNCHANGED <<evbuf, seen, lost, events>>, EventIds(ring') = R, Ascending(ring'),
             cycle' = "idle" => evbuf' = <<>>
      PROVE  EventsReachPlugin' /\ LostWereAccepted'
  BY <1>0, <1>2 DEF EventsReachPlugin, LostWereAccepted
<1>3. CASE \E p \in Ports, v \in Values : SendControl(p, v)
  <2>1. UNCHANGED <<evbuf, seen, lost, events, cycle>>
    BY <1>3 DEF SendControl
  <2>2. PICK p \in Ports, v \in Values : ring' = ring \/ ring' = Append(ring, Control(p, v))
    BY <1>3 DEF SendControl, Write
  <2> DEFINE m == Control(p, v)
  <2>3. m \in Messages /\ m.type # "event"
    BY MakeMessage DEF Control
  <2> HIDE DEF m
  <2>4. EventIds(ring') = R /\ Ascending(ring')
    <3>1. Precedes(R, {})
      BY DEF Precedes
    <3>2. ring' = ring \/ ring' = Append(ring, m)
      BY <2>2 DEF m
    <3> DEFINE last == IF m.type = "event" THEN {m.id} ELSE {}
    <3>4. last = {} /\ Precedes(R, last)
      BY <2>3, <3>1
    <3>5. EventIds(Append(ring, m)) = R \cup last
      BY <1>0, <2>3, AppendMessage
    <3>6. Ascending(Append(ring, m))
      BY <1>0, <2>3, <3>4, AppendMessage
    <3>3. EventIds(Append(ring, m)) = R /\ Ascending(Append(ring, m))
      BY <3>4, <3>5, <3>6
    <3> QED BY <1>0, <3>2, <3>3
  <2> QED BY <1>0, <1>2, <2>1, <2>4
<1>4. CASE SendEvent
  <2> DEFINE m == Event(events + 1)
  <2>1. UNCHANGED <<evbuf, seen, lost, cycle>>
    BY <1>4 DEF SendEvent
  <2>2. m \in Messages /\ m.type = "event" /\ m.id = events + 1
    BY <1>0, MakeMessage
  <2>3. CASE ~Fits(m)
    <3>1. ring' = ring /\ events' = events
      BY <1>4, <2>3 DEF SendEvent, Write
    <3> QED BY <1>0, <1>2, <2>1, <3>1
  <2>4. CASE Fits(m)
    <3>1. ring' = Append(ring, m) /\ events' = events + 1
      BY <1>4, <2>4 DEF SendEvent, Write
    <3> HIDE DEF m
    <3>2. \A d \in S \cup E \cup R : d < events + 1
      BY <1>0, <1>1
    <3>3. Precedes(R, {m.id})
      BY <2>2, <3>2 DEF Precedes
    <3>4. EventIds(ring') = R \cup {events + 1} /\ Ascending(ring')
      BY <1>0, <2>2, <3>1, <3>3, AppendMessage
    <3>5. 1..events' = N \cup {events + 1} /\ events + 1 \notin N
      BY <1>0, <3>1
    <3> HIDE DEF S, E, R, N
    <3>6. Precedes(S, E \cup R \cup {events + 1}) /\ Precedes(E, R \cup {events + 1})
      BY <1>0, <3>2 DEF Precedes
    <3>7. S \cup E \cup (R \cup {events + 1}) = (N \cup {events + 1}) \ lost
      BY <1>0, <3>5
    <3>8. Precedes(S, E \cup (R \cup {events + 1}))
      BY <3>6 DEF Precedes
    <3> QED BY <1>0, <2>1, <3>4, <3>5, <3>6, <3>7, <3>8 DEF EventsReachPlugin, LostWereAccepted, S, E, N
  <2> QED BY <2>3, <2>4
<1>5. CASE BeginCycle
  <2>1. UNCHANGED <<ring, seen, lost, events>> /\ evbuf = <<>> /\ evbuf' = <<>>
    BY <1>0, <1>5 DEF BeginCycle
  <2> QED BY <1>0, <1>2, <2>1
<1>6. CASE ApplyControl \/ ApplyEvent \/ ApplyRequest \/ ApplyRunState
  <2> DEFINE first == IF Head(ring).type = "event" THEN {Head(ring).id} ELSE {}
             T == EventIds(Tail(ring))
  <2>1. /\ ring # <<>> /\ ring' = Tail(ring) /\ UNCHANGED <<seen, events>>
        /\ cycle = "apply" /\ cycle' # "idle"
    <3>1. cycle = "apply" /\ budget > 0 /\ ring' = Tail(ring) /\ UNCHANGED <<seen, events>>
      BY <1>6 DEF ApplyControl, ApplyEvent, ApplyRequest, ApplyRunState, Applying
    <3>2. cycle' \in {cycle, "crashed"}
      BY <1>6 DEF ApplyControl, ApplyEvent, ApplyRequest, ApplyRunState
    <3>3. Len(ring) # 0
      BY <1>0, <3>1, LenProperties DEF IInv, SnapshotInRing, TypeOK
    <3> QED BY <1>0, <3>1, <3>2, <3>3, EmptySeq
  <2>2. /\ Head(ring) \in Messages /\ R = first \cup T
        /\ Ascending(ring') /\ Precedes(first, T)
    BY <1>0, <2>1, TailMessage
  <2>3. CASE ~ApplyEvent
    <3>1. first = {} /\ UNCHANGED <<evbuf, lost>>
      BY <1>6, <2>3 DEF ApplyControl, ApplyRequest, ApplyRunState, Applying
    <3> QED BY <1>0, <1>2, <2>1, <2>2, <3>1
  <2>4. CASE ApplyEvent
    <3> DEFINE h == Head(ring).id
    <3>1. first = {h} /\ h \in Nat
      BY <2>2, <2>4, MessageKinds DEF ApplyEvent, Applying
    <3>2. h \in R /\ h \in N
      BY <1>0, <2>2, <3>1
    <3>3. CASE HasRoom(EventSize)
      <4>1. evbuf' = Append(evbuf, h) /\ lost' = lost
        BY <2>4, <3>3 DEF ApplyEvent
      <4>2. Precedes(E, {h})
        BY <1>0, <3>2 DEF Precedes
      <4>3. Ids(evbuf') = E \cup {h} /\ Rising(evbuf')
        BY <1>0, <3>1, <4>1, <4>2, AppendNumber
      <4> HIDE DEF S, E, R, N, T, h, first
      <4>4. Precedes(S, (E \cup {h}) \cup T) /\ Precedes(E \cup {h}, T)
        BY <1>0, <2>2, <3>1, <4>2 DEF Precedes
      <4>5. S \cup (E \cup {h}) \cup T = N \ lost
        BY <1>0, <2>2, <3>1
      <4> QED BY <1>0, <2>1, <2>2, <4>1, <4>3, <4>4, <4>5 DEF EventsReachPlugin, LostWereAccepted, S, N, T
    <3>4. CASE ~HasRoom(EventSize)
      <4>1. evbuf' = evbuf /\ lost' = lost \cup {h}
        BY <2>4, <3>4 DEF ApplyEvent
      <4>2. h \notin S \cup E \cup T
        <5>1. \A d \in S \cup E : d < h
          BY <1>0, <3>2 DEF Precedes
        <5>2. \A d \in T : h < d
          BY <2>2, <3>1 DEF Precedes
        <5> QED BY <3>1, <5>1, <5>2
      <4> HIDE DEF S, E, R, N, T, h, first
      <4>4. Precedes(S, E \cup T) /\ Precedes(E, T)
        BY <1>0, <2>2 DEF Precedes
      <4>5. S \cup E \cup T = N \ (lost \cup {h})
        BY <1>0, <2>2, <3>1, <4>2
      <4>6. lost' \subseteq N
        BY <1>0, <3>2, <4>1
      <4> QED BY <1>0, <2>1, <2>2, <4>1, <4>4, <4>5, <4>6
              DEF EventsReachPlugin, LostWereAccepted, S, E, N, T
    <3> QED BY <3>3, <3>4
  <2> QED BY <2>3, <2>4
<1>7. CASE FinishApply
  <2>1. UNCHANGED <<ring, evbuf, seen, lost, events>> /\ cycle' # "idle"
    BY <1>0, <1>7 DEF FinishApply
  <2> QED BY <1>0, <1>2, <2>1
<1>8. CASE FinishPlugin
  <2>1. /\ UNCHANGED <<ring, lost, events>> /\ evbuf' = <<>> /\ seen' = S \cup E
    BY <1>8 DEF FinishPlugin
  <2>2. Ids(evbuf') = {} /\ Rising(evbuf')
    BY <2>1, NoEvents
  <2> HIDE DEF S, E, R, N
  <2>3. Precedes(S \cup E, {} \cup R) /\ Precedes({}, R)
    BY <1>0 DEF Precedes
  <2>4. (S \cup E) \cup {} \cup R = N \ lost
    BY <1>0
  <2> QED BY <1>0, <2>1, <2>2, <2>3, <2>4 DEF EventsReachPlugin, LostWereAccepted, R, N
<1>9. CASE BufferSizeChanged
  <2>1. /\ UNCHANGED <<seen, events, cycle>> /\ ring' = <<>> /\ evbuf' = <<>> /\ evbuf = <<>>
        /\ lost' = lost \cup R
    BY <1>0, <1>9 DEF BufferSizeChanged
  <2>2. Ids(evbuf') = {} /\ Rising(evbuf') /\ EventIds(ring') = {} /\ Ascending(ring') /\ E = {}
    BY <2>1, NoEvents
  <2> HIDE DEF S, E, R, N
  <2>3. Precedes(S, {} \cup {}) /\ Precedes({}, {})
    BY DEF Precedes
  <2>4. \A d \in R : d \in Nat /\ d \notin S
    BY <1>0, <1>1 DEF Precedes
  <2>5. S \cup {} \cup {} = N \ (lost \cup R) /\ lost \cup R \subseteq N
    BY <1>0, <2>2, <2>4
  <2> QED BY <1>0, <2>1, <2>2, <2>3, <2>5 DEF EventsReachPlugin, LostWereAccepted, S, N
<1>10. CASE UNCHANGED vars \/ Crashed
  <2>1. UNCHANGED <<ring, evbuf, seen, lost, events, cycle>>
    BY <1>10 DEF vars, Crashed
  <2> QED BY <1>0, <1>2, <2>1
<1>11. ASSUME \/ \E p \in Ports, v \in Values : SetControl(p, v)
              \/ \E v \in Values : ApplyPreset(v)
              \/ Restoring
       PROVE  FALSE
  BY <1>0, <1>11 DEF SetControl, ApplyPreset, Restoring, WritePause, WaitPaused, FinishRestore, SetPortValue,
     FinishPorts, WriteRequest, WriteRun
<1> QED BY <1>3, <1>4, <1>5, <1>6, <1>7, <1>8, <1>9, <1>10, <1>11 DEF Next, User, Audio

\* The plugin sees the events of a UI in order, once each, in the cycle that
\* takes them off the ring, but for those its input had no room for and those
\* left on a replaced ring, for every size of the ring, the input and the event
\* and whatever JACK's events take of the input.
THEOREM EventsReach == SafeSpec => []EventsReachPlugin
<1>1. Init => EventsReachPlugin /\ (customUi => LostWereAccepted)
  <2> SUFFICES ASSUME Init PROVE EventsReachPlugin /\ LostWereAccepted
    OBVIOUS
  <2>1. evbuf = <<>> /\ ring = <<>> /\ seen = {} /\ lost = {} /\ events = 0
    BY DEF Init
  <2>2. Ids(evbuf) = {} /\ EventIds(ring) = {} /\ Rising(evbuf) /\ Ascending(ring) /\ 1..events = {}
    BY <2>1, NoEvents
  <2> QED BY <2>1, <2>2 DEF EventsReachPlugin, LostWereAccepted, Precedes
<1>2. ASSUME IInv, PluginRunsOn, EventsReachPlugin, customUi => LostWereAccepted, [Next]_vars
      PROVE  (EventsReachPlugin /\ (customUi => LostWereAccepted))'
  <2>1. CASE customUi
    BY <1>2, <2>1, EventsMove
  <2>2. CASE ~customUi
    BY <1>2, <2>2, UiStays DEF EventsReachPlugin
  <2> QED BY <2>1, <2>2
<1> QED BY <1>1, <1>2, RunsOn, Inductive, PTL DEF SafeSpec
-----------------------------------------------------------------------------
(* The way back: JalvUi.                                                   *)

\* The way back adds no step to the process and forbids none of its rules.
LEMMA UiStepIsStep == [UiNext]_uiVars => [Next]_vars
  BY DEF UiNext, uiVars, UiSends, UiAudio, Prepare, PluginEnds, Deliver, LatencySame, SetLatency, WriteLatency,
     WriteEmitted, WriteMonitors, ReplaceRings, Ui, UpdateBegins, Take, TakeEvent, TakeMonitor, TakeLatency,
     UpdateEnds, Recompute, AddToLeast, AddToMost, Next, User, Audio

\* A process with a custom UI, its ring back and JACK around it is a process
\* as JalvProcess has it: what is proved of that one holds of it.
THEOREM UiImplementsProcess == UiSafeSpec => SafeSpec /\ [](customUi)
<1>1. UiInit => Init /\ customUi
  BY DEF UiInit
<1>2. customUi /\ [UiNext]_uiVars => customUi'
  BY UiStepIsStep, UiStays
<1> QED BY <1>1, <1>2, UiStepIsStep, PTL DEF UiSafeSpec, SafeSpec

\* What a custom UI writes reaches the plugin as JalvProcess has it, whatever
\* the way back does meanwhile.
THEOREM UiEventsReachPlugin == UiSafeSpec => []EventsReachPlugin
  BY EventsReach, UiImplementsProcess, PTL

\* What a message back may be.
LEMMA BackKinds ==
  ASSUME NEW m \in BackMessages
  PROVE  /\ m.type \in {"latency", "monitor", "event"}
         /\ m = Latency <=> m.type = "latency"
         /\ m.type = "event" => m.id \in Nat
  BY DEF BackMessages, Latency, Monitor

\* Its three makers.
LEMMA BackMakes ==
  /\ Latency \in BackMessages /\ Latency.type = "latency"
  /\ Monitor \in BackMessages /\ Monitor.type = "monitor"
  /\ \A e \in Nat : Event(e) \in BackMessages /\ Event(e).type = "event" /\ Event(e).id = e
  BY DEF BackMessages, Latency, Monitor, Event

\* A message more and a message less on the way back.
LEMMA AppendBack ==
  ASSUME NEW q \in Seq(BackMessages), NEW m \in BackMessages
  PROVE  LET r == Append(q, m)
             last == IF m.type = "event" THEN {m.id} ELSE {}
         IN  /\ r \in Seq(BackMessages) /\ Len(r) = Len(q) + 1
             /\ Tells(r) <=> Tells(q) \/ m = Latency
             /\ EventIds(r) = EventIds(q) \cup last
             /\ Ascending(q) /\ Precedes(EventIds(q), last) => Ascending(r)
  BY AppendMessage

LEMMA TailBack ==
  ASSUME NEW q \in Seq(BackMessages), q # <<>>
  PROVE  LET r == Tail(q)
             first == IF Head(q).type = "event" THEN {Head(q).id} ELSE {}
         IN  /\ r \in Seq(BackMessages) /\ Len(r) = Len(q) - 1 /\ Head(q) \in BackMessages
             /\ Tells(q) <=> Tells(r) \/ Head(q) = Latency
             /\ EventIds(q) = first \cup EventIds(r)
             /\ Ascending(q) => Ascending(r) /\ Precedes(first, EventIds(r))
  BY TailMessage

\* The first messages and the others.
LEMMA SplitBack ==
  ASSUME NEW q \in Seq(BackMessages), NEW n \in Nat, n <= Len(q)
  PROVE  LET a == SubSeq(q, 1, n)
             b == SubSeq(q, n + 1, Len(q))
         IN  /\ a \in Seq(BackMessages) /\ Len(a) = n /\ b \in Seq(BackMessages)
             /\ Tells(q) <=> Tells(a) \/ Tells(b)
             /\ EventIds(q) = EventIds(a) \cup EventIds(b)
             /\ Ascending(q) => Ascending(a) /\ Precedes(EventIds(a), EventIds(b))
<1> DEFINE a == SubSeq(q, 1, n)
           b == SubSeq(q, n + 1, Len(q))
<1>1. PICK l \in Nat : l = Len(q)
  BY LenProperties
<1>2. DOMAIN q = 1..l /\ \A i \in 1..l : q[i] \in BackMessages
  BY <1>1, LenProperties, ElementOfSeq
<1>3. /\ a \in Seq(BackMessages) /\ Len(a) = n /\ DOMAIN a = 1..n
      /\ \A i \in 1..n : a[i] = q[i]
  <2>1. \A i \in 1..n : q[i] \in BackMessages
    BY <1>1, <1>2
  <2>2. /\ a \in Seq(BackMessages) /\ Len(a) = (IF 1 <= n THEN n - 1 + 1 ELSE 0)
        /\ \A i \in 1..(n - 1 + 1) : a[i] = q[1 + i - 1]
    BY <2>1, SubSeqProperties
  <2>3. Len(a) = n /\ n - 1 + 1 = n /\ \A i \in 1..n : 1 + i - 1 = i
    BY <2>2
  <2>4. DOMAIN a = 1..n
    BY <2>2, <2>3, LenProperties
  <2> QED BY <2>2, <2>3, <2>4
<1>4. /\ b \in Seq(BackMessages) /\ DOMAIN b = 1..(l - n)
      /\ \A i \in 1..(l - n) : b[i] = q[n + i]
  <2>1. \A i \in (n + 1)..l : q[i] \in BackMessages
    BY <1>1, <1>2
  <2>2. /\ b \in Seq(BackMessages) /\ Len(b) = (IF n + 1 <= l THEN l - (n + 1) + 1 ELSE 0)
        /\ \A i \in 1..(l - (n + 1) + 1) : b[i] = q[n + 1 + i - 1]
    BY <1>1, <2>1, SubSeqProperties
  <2>3. Len(b) = l - n /\ l - (n + 1) + 1 = l - n /\ \A i \in 1..(l - n) : n + 1 + i - 1 = n + i
    BY <1>1, <2>2
  <2>4. DOMAIN b = 1..(l - n)
    BY <2>2, <2>3, LenProperties
  <2> QED BY <2>2, <2>3, <2>4
<1> HIDE DEF a, b
<1>5. /\ \A i \in DOMAIN a : i \in DOMAIN q /\ a[i] = q[i] /\ i <= n
      /\ \A i \in DOMAIN b : n + i \in DOMAIN q /\ b[i] = q[n + i] /\ n + i > n
      /\ \A i \in DOMAIN q : \/ i \in DOMAIN a /\ a[i] = q[i]
                             \/ i - n \in DOMAIN b /\ b[i - n] = q[i]
  <2>1. \A i \in DOMAIN q : i <= n => i \in DOMAIN a /\ a[i] = q[i]
    BY <1>1, <1>2, <1>3
  <2>2. ASSUME NEW i \in DOMAIN q, i > n PROVE i - n \in DOMAIN b /\ b[i - n] = q[i]
    <3>1. i - n \in 1..(l - n) /\ n + (i - n) = i
      BY <1>1, <1>2, <2>2
    <3> QED BY <1>4, <3>1
  <2>3. \A i \in DOMAIN a : i \in DOMAIN q /\ a[i] = q[i] /\ i <= n
    BY <1>1, <1>2, <1>3
  <2>4. \A i \in DOMAIN b : n + i \in DOMAIN q /\ b[i] = q[n + i] /\ n + i > n
    BY <1>1, <1>2, <1>4
  <2>5. \A i \in DOMAIN q : i <= n \/ i > n
    BY <1>2
  <2> QED BY <2>1, <2>2, <2>3, <2>4, <2>5
<1>6. Tells(q) <=> Tells(a) \/ Tells(b)
  BY <1>5 DEF Tells
<1>7. EventIds(q) = EventIds(a) \cup EventIds(b)
  <2>1. ASSUME NEW e \in EventIds(q) PROVE e \in EventIds(a) \cup EventIds(b)
    BY <1>5, <2>1, EventPlaces
  <2>2. ASSUME NEW e \in EventIds(a) \cup EventIds(b) PROVE e \in EventIds(q)
    BY <1>5, <2>2, EventPlaces
  <2> QED BY <2>1, <2>2
<1>8. ASSUME Ascending(q) PROVE Ascending(a) /\ Precedes(EventIds(a), EventIds(b))
  <2>1. Ascending(a)
    BY <1>5, <1>8 DEF Ascending
  <2>2. ASSUME NEW d \in EventIds(a), NEW e \in EventIds(b) PROVE d < e
    <3>1. PICK i \in DOMAIN a : a[i].type = "event" /\ a[i].id = d
      BY <2>2, EventPlaces
    <3>2. PICK j \in DOMAIN b : b[j].type = "event" /\ b[j].id = e
      BY <2>2, EventPlaces
    <3>3. i < n + j
      BY <1>3, <1>4, <1>5
    <3> QED BY <1>5, <1>8, <3>1, <3>2, <3>3 DEF Ascending
  <2> QED BY <2>1, <2>2 DEF Precedes
<1> QED BY <1>1, <1>3, <1>4, <1>6, <1>7, <1>8 DEF a, b

\* A write leaves the ring to the UI as it is, or with the message behind it.
LEMMA BackWrites ==
  ASSUME UiTypeOK, NEW m \in BackMessages, BackWrite(m)
  PROVE  /\ toUi' \in Seq(BackMessages) /\ Len(toUi) <= Len(toUi')
         /\ Tells(toUi) => Tells(toUi')
         /\ m = Latency /\ BackFits(m) => Tells(toUi')
         /\ ~BackFits(m) => toUi' = toUi
         /\ BackFits(m) => toUi' = Append(toUi, m)
<1>1. toUi \in Seq(BackMessages) /\ Len(toUi) \in Nat
  BY LenProperties DEF UiTypeOK
<1>2. CASE BackFits(m)
  <2>1. toUi' = Append(toUi, m)
    BY <1>2 DEF BackWrite
  <2>2. /\ Append(toUi, m) \in Seq(BackMessages) /\ Len(Append(toUi, m)) = Len(toUi) + 1
        /\ Tells(Append(toUi, m)) <=> Tells(toUi) \/ m = Latency
    BY <1>1, AppendBack
  <2>3. Len(toUi) <= Len(toUi')
    BY <1>1, <2>1, <2>2
  <2> QED BY <1>2, <2>1, <2>2, <2>3
<1>3. CASE ~BackFits(m)
  BY <1>1, <1>3 DEF BackWrite
<1> QED BY <1>2, <1>3

\* What a step of the UI's main thread takes off which ring.
LEMMA Takes ==
  ASSUME UiTypeOK, SnapshotIsThere, Take
  PROVE  /\ left - 1 \in Nat /\ left' = left - 1 /\ Ring \in Seq(BackMessages) /\ Ring # <<>>
         /\ onOld => oldUi' = Tail(oldUi) /\ toUi' = toUi
         /\ ~onOld => toUi' = Tail(toUi) /\ oldUi' = oldUi
         /\ UNCHANGED <<stage, port_out, emitted, since, due, latency, outputs, sent,
                        onOld, upc, calling, least, told, gone, unsaid, vars>>
         /\ Ring' = Tail(Ring)
<1>1. /\ left \in Nat /\ left > 0 /\ upc = "update" /\ left' = left - 1
      /\ IF onOld THEN oldUi' = Tail(oldUi) /\ UNCHANGED toUi
                  ELSE toUi' = Tail(toUi) /\ UNCHANGED oldUi
      /\ UNCHANGED <<stage, port_out, emitted, since, due, latency, outputs, sent,
                     onOld, upc, calling, least, told, gone, unsaid, vars>>
  BY DEF Take, delivery, UiTypeOK
<1>2. left <= Len(Ring) /\ Ring \in Seq(BackMessages) /\ Len(Ring) \in Nat
  <2>1. Ring \in Seq(BackMessages)
    BY DEF Ring, UiTypeOK
  <2>2. left <= Len(Ring)
    BY <1>1 DEF SnapshotIsThere, Ring
  <2> QED BY <2>1, <2>2, LenProperties
<1>3. Ring # <<>>
  <2>1. Len(Ring) # 0
    BY <1>1, <1>2
  <2> QED BY <2>1, EmptySeq
<1>4. left - 1 \in Nat
  BY <1>1
<1>5. Ring' = Tail(Ring)
  BY <1>1 DEF Ring
<1> QED BY <1>1, <1>2, <1>3, <1>4, <1>5

\* The steps that leave the way back alone.
Elsewhere == UiSends \/ Prepare \/ UNCHANGED uiVars

LEMMA Aside == Elsewhere => UNCHANGED ui
  BY DEF Elsewhere, UiSends, Prepare, uiVars

LEMMA UiSteps ==
  [UiNext]_uiVars => Elsewhere \/ PluginEnds \/ Deliver \/ ReplaceRings \/ Ui \/ Recompute
  BY DEF UiNext, UiAudio, Elsewhere

\* What the plugin leaves at the end of its cycle.
LEMMA Made ==
  ASSUME UiTypeOK, PluginEnds
  PROVE  /\ emitted' \in {<<>>, <<Len(sent)'>>} /\ emitted' \in Seq(Nat)
         /\ sent' \in Seq(Nat) /\ Len(sent) \in Nat
         /\ emitted' = <<>> => sent' = sent
         /\ emitted' # <<>> => sent' = Append(sent, Len(sent) + 1)
<1>1. /\ sent \in Seq(Nat) /\ Len(sent) \in Nat /\ Len(sent) + 1 \in Nat
      /\ emitted' \in {<<>>, <<Len(sent) + 1>>} /\ sent' = sent \o emitted'
  BY LenProperties DEF UiTypeOK, PluginEnds
<1>2. CASE emitted' = <<>>
  <2>1. sent' = sent
    BY <1>1, <1>2, ConcatEmptySeq
  <2> QED BY <1>1, <1>2, <2>1, EmptySeq
<1>3. CASE emitted' = <<Len(sent) + 1>>
  <2>1. <<Len(sent) + 1>> \in Seq(Nat) /\ <<Len(sent) + 1>> # <<>>
    BY <1>1
  <2>2. sent' = Append(sent, Len(sent) + 1)
    BY <1>1, <1>3, <2>1, AppendIsConcat
  <2>3. sent' \in Seq(Nat) /\ Len(sent') = Len(sent) + 1
    BY <1>1, <2>2, AppendProperties
  <2> QED BY <1>1, <1>3, <2>1, <2>2, <2>3
<1> QED BY <1>1, <1>2, <1>3

\* The variables keep their types.
LEMMA UiStepTypes ==
  ASSUME UiIInv, [UiNext]_uiVars
  PROVE  UiTypeOK'
<1>0. UiTypeOK /\ SnapshotIsThere
  BY DEF UiIInv
<1> USE DEF delivery, backward, update, jack, ui
<1>1. CASE PluginEnds
  <2>1. /\ port_out' \in Latencies /\ stage' = "latency"
        /\ UNCHANGED <<latency, backward, update, jack, gone, unsaid>>
    BY <1>1 DEF PluginEnds
  <2> QED BY <1>0, <1>1, <2>1, Made DEF UiTypeOK
<1>2. CASE LatencySame \/ SetLatency
  BY <1>0, <1>2 DEF LatencySame, SetLatency, UiTypeOK
<1>3. CASE WriteLatency
  <2>1. toUi' \in Seq(BackMessages)
    BY <1>0, <1>3, BackWrites, BackMakes DEF WriteLatency
  <2>2. unsaid' \in BOOLEAN
    BY <1>3 DEF WriteLatency
  <2> QED BY <1>0, <1>3, <2>1, <2>2 DEF WriteLatency, UiTypeOK
<1>4. CASE WriteEmitted
  <2>1. emitted \in Seq(Nat) /\ emitted # <<>>
    BY <1>0, <1>4 DEF WriteEmitted, UiTypeOK
  <2>2. Head(emitted) \in Nat /\ Tail(emitted) \in Seq(Nat)
    BY <2>1, HeadTailProperties
  <2>3. toUi' \in Seq(BackMessages)
    BY <1>0, <1>4, <2>2, BackWrites, BackMakes DEF WriteEmitted
  <2> QED BY <1>0, <1>4, <2>2, <2>3 DEF WriteEmitted, UiTypeOK
<1>5. CASE WriteMonitors
  <2>1. toUi' \in Seq(BackMessages)
    BY <1>0, <1>5, BackWrites, BackMakes DEF WriteMonitors, UiTypeOK
  <2> QED BY <1>0, <1>5, <2>1 DEF WriteMonitors, UiTypeOK
<1>6. CASE ReplaceRings
  <2>1. toUi' = <<>> /\ toUi' \in Seq(BackMessages)
    BY <1>6, EmptySeq DEF ReplaceRings
  <2>2. oldUi' \in Seq(BackMessages) /\ onOld' \in BOOLEAN
    <3>1. CASE upc = "update" /\ ~onOld
      <4>1. left \in Nat /\ left <= Len(toUi) /\ toUi \in Seq(BackMessages)
        BY <1>0, <3>1 DEF UiTypeOK, SnapshotIsThere
      <4>2. oldUi' = SubSeq(toUi, 1, left) /\ onOld' = TRUE
        BY <1>6, <3>1 DEF ReplaceRings
      <4> QED BY <4>1, <4>2, SplitBack
    <3>2. CASE ~(upc = "update" /\ ~onOld)
      BY <1>0, <1>6, <3>2 DEF ReplaceRings, UiTypeOK
    <3> QED BY <3>1, <3>2
  <2>3. unsaid' \in BOOLEAN
    BY <1>6 DEF ReplaceRings
  <2>4. UNCHANGED <<delivery, update, jack>>
    BY <1>6 DEF ReplaceRings
  <2> QED BY <1>0, <2>1, <2>2, <2>3, <2>4 DEF UiTypeOK
<1>7. ASSUME Take, asked' \in {asked, Modes}, given' \in Seq(Nat) PROVE UiTypeOK'
  <2>1. /\ left' \in Nat /\ oldUi' \in Seq(BackMessages) /\ toUi' \in Seq(BackMessages)
    <3>1. CASE onOld
      BY <1>0, <1>7, <3>1, Takes, TailBack DEF Ring, UiTypeOK
    <3>2. CASE ~onOld
      BY <1>0, <1>7, <3>2, Takes, TailBack DEF Ring, UiTypeOK
    <3> QED BY <3>1, <3>2
  <2>2. UNCHANGED <<stage, port_out, emitted, since, due, latency, outputs, sent,
                    onOld, upc, calling, least, told, gone, unsaid>>
    BY <1>0, <1>7, Takes
  <2> QED BY <1>0, <1>7, <2>1, <2>2 DEF UiTypeOK
<1>8. CASE TakeEvent \/ TakeMonitor \/ TakeLatency
  <2>1. Take /\ asked' \in {asked, Modes}
    BY <1>8 DEF TakeEvent, TakeMonitor, TakeLatency
  <2>2. given' \in Seq(Nat)
    <3>1. CASE TakeEvent
      <4>1. Head(Ring) \in BackMessages /\ Head(Ring).type = "event" /\ given' = Append(given, Head(Ring).id)
        BY <1>0, <2>1, <3>1, Takes, TailBack DEF TakeEvent
      <4>2. Head(Ring).id \in Nat
        BY <4>1, BackKinds
      <4>3. given \in Seq(Nat)
        BY <1>0 DEF UiTypeOK
      <4> QED BY <4>1, <4>2, <4>3, AppendProperties
    <3>2. CASE ~TakeEvent
      BY <1>0, <1>8, <3>2 DEF TakeMonitor, TakeLatency, UiTypeOK
    <3> QED BY <3>1, <3>2
  <2> QED BY <1>7, <2>1, <2>2
<1>9. CASE UpdateBegins
  <2>1. Len(toUi) \in Nat
    BY <1>0, LenProperties DEF UiTypeOK
  <2> QED BY <1>0, <1>9, <2>1 DEF UpdateBegins, UiTypeOK
<1>10. CASE UpdateEnds
  BY <1>0, <1>10 DEF UpdateEnds, UiTypeOK
<1>11. ASSUME NEW m \in Modes, AddToLeast(m) PROVE UiTypeOK'
  BY <1>0, <1>11, UiAssumption DEF AddToLeast, UiTypeOK
<1>12. CASE AddToMost
  <2>1. latency \in Nat /\ least \in Nat
    BY <1>0, UiAssumption DEF UiTypeOK
  <2>2. told' = [told EXCEPT ![calling] = <<least, latency>>]
    BY <1>12 DEF AddToMost
  <2>3. told' \in [Modes -> Nat \X Nat]
    BY <1>0, <2>1, <2>2 DEF UiTypeOK
  <2> QED BY <1>0, <1>12, <2>3 DEF AddToMost, UiTypeOK
<1>13. CASE Elsewhere
  BY <1>0, <1>13, Aside DEF UiTypeOK
<1> QED BY <1>1, <1>2, <1>3, <1>4, <1>5, <1>6, <1>8, <1>9, <1>10, <1>11, <1>12, <1>13, UiSteps
        DEF Deliver, Ui, Recompute

\* A cycle begins when the one before it has delivered.
LEMMA UiStepDelivery ==
  ASSUME UiIInv, [UiNext]_uiVars
  PROVE  DeliversBetweenCycles'
<1>0. DeliversBetweenCycles /\ UiTypeOK /\ SnapshotIsThere
  BY DEF UiIInv
<1> USE DEF delivery, backward, update, jack, ui, vars, audio
<1>1. CASE PluginEnds
  BY <1>1 DEF PluginEnds, FinishPlugin, DeliversBetweenCycles
<1>2. CASE Deliver
  <2>1. stage # "none" /\ UNCHANGED cycle /\ (stage' = "none" => emitted' = <<>>)
    BY <1>2 DEF Deliver, LatencySame, SetLatency, WriteLatency, WriteEmitted, WriteMonitors
  <2> QED BY <1>0, <2>1 DEF DeliversBetweenCycles
<1>3. CASE ReplaceRings
  <2>1. UNCHANGED <<stage, emitted>> /\ stage = "none"
    BY <1>3 DEF ReplaceRings
  <2> QED BY <1>0, <2>1 DEF DeliversBetweenCycles
<1>4. CASE Ui
  <2>1. UNCHANGED <<stage, emitted, cycle>>
    BY <1>4 DEF Ui, UpdateBegins, TakeEvent, TakeMonitor, TakeLatency, Take, UpdateEnds
  <2> QED BY <1>0, <2>1 DEF DeliversBetweenCycles
<1>5. CASE Recompute \/ UNCHANGED uiVars
  <2>1. UNCHANGED <<stage, emitted, cycle>>
    BY <1>5 DEF Recompute, AddToLeast, AddToMost, uiVars
  <2> QED BY <1>0, <2>1 DEF DeliversBetweenCycles
<1>6. CASE Prepare
  <2>1. UNCHANGED <<stage, emitted>> /\ stage = "none"
    BY <1>6 DEF Prepare
  <2> QED BY <1>0, <2>1 DEF DeliversBetweenCycles
<1>7. CASE UiSends
  <2>1. UNCHANGED <<stage, emitted, cycle>>
    BY <1>7 DEF UiSends, SendEvent, SendControl
  <2> QED BY <1>0, <2>1 DEF DeliversBetweenCycles
<1> QED BY <1>1, <1>2, <1>3, <1>4, <1>5, <1>6, <1>7, UiSteps DEF Elsewhere

\* What a jalv_update has counted stays there for it.
LEMMA UiStepSnapshot ==
  ASSUME UiIInv, [UiNext]_uiVars
  PROVE  SnapshotIsThere'
<1>0. SnapshotIsThere /\ UiTypeOK /\ Len(toUi) \in Nat /\ Len(oldUi) \in Nat /\ left \in Nat
  BY LenProperties DEF UiIInv, UiTypeOK
<1> USE DEF delivery, backward, update, jack, ui
<1>1. CASE Elsewhere \/ PluginEnds \/ LatencySame \/ SetLatency \/ Recompute
  <2>1. UNCHANGED <<backward, update>>
    BY <1>1, Aside DEF PluginEnds, LatencySame, SetLatency, Recompute, AddToLeast, AddToMost
  <2> QED BY <1>0, <2>1 DEF SnapshotIsThere
<1>2. CASE WriteLatency \/ WriteEmitted \/ WriteMonitors
  <2>1. UNCHANGED <<oldUi, onOld, update>>
    BY <1>2 DEF WriteLatency, WriteEmitted, WriteMonitors
  <2>2. UNCHANGED toUi \/ \E m \in BackMessages : BackWrite(m)
    <3>1. ASSUME WriteEmitted PROVE Event(Head(emitted)) \in BackMessages
      <4>1. emitted \in Seq(Nat) /\ emitted # <<>>
        BY <1>0, <3>1 DEF WriteEmitted, UiTypeOK
      <4> QED BY <4>1, HeadTailProperties, BackMakes
    <3> QED BY <1>2, <3>1, BackMakes DEF WriteLatency, WriteEmitted, WriteMonitors
  <2>3. toUi' \in Seq(BackMessages) /\ Len(toUi) <= Len(toUi')
    BY <1>0, <2>2, BackWrites DEF UiTypeOK
  <2>4. Len(toUi') \in Nat
    BY <2>3, LenProperties
  <2> QED BY <1>0, <2>1, <2>3, <2>4 DEF SnapshotIsThere
<1>3. CASE ReplaceRings
  <2>1. toUi' = <<>> /\ UNCHANGED update
    BY <1>3 DEF ReplaceRings
  <2>2. Len(toUi') = 0
    BY <2>1, EmptySeq
  <2>3. CASE upc = "update" /\ ~onOld
    <3>1. left \in Nat /\ left <= Len(toUi) /\ toUi \in Seq(BackMessages)
      BY <1>0, <2>3 DEF UiTypeOK, SnapshotIsThere
    <3>2. oldUi' = SubSeq(toUi, 1, left) /\ onOld'
      BY <1>3, <2>3 DEF ReplaceRings
    <3>3. Len(oldUi') = left
      BY <3>1, <3>2, SplitBack
    <3> QED BY <1>0, <2>1, <2>3, <3>2, <3>3 DEF SnapshotIsThere
  <2>4. CASE upc = "update" /\ onOld
    <3>1. UNCHANGED <<oldUi, onOld>>
      BY <1>3, <2>4 DEF ReplaceRings
    <3> QED BY <1>0, <2>1, <2>4, <3>1 DEF SnapshotIsThere
  <2>5. CASE upc # "update"
    <3>1. UNCHANGED <<oldUi, onOld>> /\ upc = "idle"
      BY <1>0, <1>3, <2>5 DEF ReplaceRings, UiTypeOK
    <3> QED BY <1>0, <2>1, <2>2, <3>1 DEF SnapshotIsThere
  <2> QED BY <2>3, <2>4, <2>5
<1>4. CASE TakeEvent \/ TakeMonitor \/ TakeLatency
  <2>1. Take /\ upc = "update"
    BY <1>4 DEF TakeEvent, TakeMonitor, TakeLatency, Take
  <2>2. /\ left' = left - 1 /\ UNCHANGED <<onOld, upc>>
        /\ Len(Tail(Ring)) = Len(Ring) - 1
        /\ onOld => oldUi' = Tail(oldUi) /\ toUi' = toUi
        /\ ~onOld => toUi' = Tail(toUi) /\ oldUi' = oldUi
    BY <1>0, <2>1, Takes, TailBack
  <2> QED BY <1>0, <2>1, <2>2 DEF SnapshotIsThere, Ring
<1>5. CASE UpdateBegins
  BY <1>0, <1>5 DEF UpdateBegins, SnapshotIsThere
<1>6. CASE UpdateEnds
  <2>1. UNCHANGED <<toUi, oldUi, left>> /\ left = 0 /\ ~onOld'
    BY <1>6 DEF UpdateEnds
  <2>2. oldUi = <<>>
    BY <1>0, <2>1, EmptySeq DEF SnapshotIsThere, UiTypeOK
  <2> QED BY <1>0, <2>1, <2>2 DEF SnapshotIsThere
<1> QED BY <1>1, <1>2, <1>3, <1>4, <1>5, <1>6, UiSteps DEF Deliver, Ui

\* The latency JACK has, or will have.
Due(m) == \/ Current(m) /\ calling # m
          \/ OnItsWay \/ m \in asked
          \/ calling = m /\ least = latency

LEMMA UiStepTold ==
  ASSUME UiIInv, [UiNext]_uiVars
  PROVE  LatencyTold'
<1>0. /\ UiTypeOK /\ SnapshotIsThere /\ DeliversBetweenCycles /\ "none" \notin Modes
      /\ toUi \in Seq(BackMessages) /\ oldUi \in Seq(BackMessages)
  BY UiAssumption DEF UiIInv, UiTypeOK
<1>1. unsaid \/ \A m \in Modes : Due(m)
  BY DEF UiIInv, LatencyTold, Due
<1>2. (unsaid' \/ \A m \in Modes : Due(m)') => LatencyTold'
  BY DEF LatencyTold, Due
<1> USE DEF delivery, backward, update, jack, ui, vars
<1>3. ASSUME UNCHANGED <<latency, jack, unsaid>>, OnItsWay => OnItsWay' PROVE LatencyTold'
  BY <1>1, <1>2, <1>3 DEF Due, Current
<1>4. CASE Elsewhere \/ UpdateBegins \/ UpdateEnds
  <2>1. UNCHANGED <<latency, jack, unsaid, toUi, oldUi, stage>>
    BY <1>4, Aside DEF UpdateBegins, UpdateEnds
  <2>2. OnItsWay => OnItsWay'
    BY <2>1 DEF OnItsWay, Tells
  <2> QED BY <1>3, <2>1, <2>2
<1>5. CASE PluginEnds \/ LatencySame
  <2>1. UNCHANGED <<latency, jack, unsaid, toUi, oldUi>>
    BY <1>5 DEF PluginEnds, LatencySame
  <2>2. stage # "tell"
    BY <1>0, <1>5 DEF PluginEnds, LatencySame, FinishPlugin, DeliversBetweenCycles
  <2>3. OnItsWay => OnItsWay'
    BY <2>1, <2>2 DEF OnItsWay, Tells
  <2> QED BY <1>3, <2>1, <2>3
<1>6. CASE SetLatency
  BY <1>2, <1>6 DEF SetLatency, Due, OnItsWay
<1>7. CASE WriteLatency
  <2>1. CASE BackFits(Latency)
    <3>1. Tells(toUi')
      BY <1>0, <1>7, <2>1, BackWrites, BackMakes DEF WriteLatency
    <3> QED BY <1>2, <3>1 DEF Due, OnItsWay, Tells
  <2>2. CASE ~BackFits(Latency)
    BY <1>2, <1>7, <2>2 DEF WriteLatency
  <2> QED BY <2>1, <2>2
<1>8. CASE WriteEmitted \/ WriteMonitors
  <2>1. UNCHANGED <<latency, jack, unsaid, oldUi>> /\ stage # "tell"
    BY <1>8 DEF WriteEmitted, WriteMonitors
  <2>2. UNCHANGED toUi \/ \E m \in BackMessages : BackWrite(m)
    <3>1. ASSUME WriteEmitted PROVE Event(Head(emitted)) \in BackMessages
      <4>1. emitted \in Seq(Nat) /\ emitted # <<>>
        BY <1>0, <3>1 DEF WriteEmitted, UiTypeOK
      <4> QED BY <4>1, HeadTailProperties, BackMakes
    <3> QED BY <1>8, <3>1, BackMakes DEF WriteEmitted, WriteMonitors
  <2>3. Tells(toUi) => Tells(toUi')
    BY <1>0, <2>2, BackWrites
  <2>4. OnItsWay => OnItsWay'
    BY <2>1, <2>3 DEF OnItsWay, Tells
  <2> QED BY <1>3, <2>1, <2>4
<1>9. CASE ReplaceRings
  <2>1. UNCHANGED <<latency, jack>> /\ unsaid' = (unsaid \/ Tells(Abandoned)) /\ stage = "none"
    BY <1>9 DEF ReplaceRings
  <2>2. Tells(toUi) => Tells(Abandoned) \/ Tells(oldUi')
    <3>1. CASE upc = "update" /\ ~onOld
      <4>1. left \in Nat /\ left <= Len(toUi)
        BY <1>0, <3>1 DEF UiTypeOK, SnapshotIsThere
      <4>2. oldUi' = SubSeq(toUi, 1, left) /\ Abandoned = SubSeq(toUi, left + 1, Len(toUi))
        BY <1>9, <3>1 DEF ReplaceRings, Abandoned
      <4>3. Tells(toUi) <=> Tells(SubSeq(toUi, 1, left)) \/ Tells(SubSeq(toUi, left + 1, Len(toUi)))
        BY <1>0, <4>1, SplitBack
      <4> QED BY <4>2, <4>3
    <3>2. CASE ~(upc = "update" /\ ~onOld)
      BY <3>2 DEF Abandoned
    <3> QED BY <3>1, <3>2
  <2>3. Tells(oldUi) => Tells(oldUi')
    <3>1. CASE upc = "update" /\ ~onOld
      <4>1. DOMAIN oldUi = {}
        BY <1>0, <3>1 DEF SnapshotIsThere
      <4> QED BY <4>1 DEF Tells
    <3>2. CASE ~(upc = "update" /\ ~onOld)
      BY <1>9, <3>2 DEF ReplaceRings
    <3> QED BY <3>1, <3>2
  <2>4. CASE unsaid'
    BY <1>2, <2>4
  <2>5. CASE ~unsaid'
    <3>1. UNCHANGED unsaid
      BY <1>0, <2>1, <2>5 DEF UiTypeOK
    <3>2. OnItsWay => OnItsWay'
      BY <2>1, <2>2, <2>3, <2>5 DEF OnItsWay, Tells
    <3> QED BY <1>3, <2>1, <3>1, <3>2
  <2> QED BY <2>4, <2>5
<1>10. CASE TakeLatency
  BY <1>2, <1>10 DEF TakeLatency, Due
<1>11. CASE TakeEvent \/ TakeMonitor
  <2>1. Take /\ Head(Ring).type # "latency" /\ UNCHANGED asked
    BY <1>11 DEF TakeEvent, TakeMonitor
  <2>2. /\ UNCHANGED <<latency, calling, least, told, unsaid, stage, onOld>>
        /\ Ring \in Seq(BackMessages) /\ Ring # <<>>
        /\ onOld => oldUi' = Tail(oldUi) /\ toUi' = toUi
        /\ ~onOld => toUi' = Tail(toUi) /\ oldUi' = oldUi
    BY <1>0, <2>1, Takes
  <2>3. Tells(Ring) => Tells(Tail(Ring))
    <3>1. Head(Ring) # Latency
      BY <2>1, BackMakes
    <3> QED BY <2>2, <3>1, TailBack
  <2>4. OnItsWay => OnItsWay'
    <3>1. CASE onOld
      BY <2>2, <2>3, <3>1 DEF OnItsWay, Tells, Ring
    <3>2. CASE ~onOld
      BY <2>2, <2>3, <3>2 DEF OnItsWay, Tells, Ring
    <3> QED BY <3>1, <3>2
  <2> QED BY <1>3, <2>1, <2>2, <2>4
<1>12. ASSUME NEW c \in Modes, AddToLeast(c) PROVE LatencyTold'
  <2>1. /\ UNCHANGED <<latency, told, unsaid, toUi, oldUi, stage>> /\ calling = "none"
        /\ asked' = asked \ {c} /\ calling' = c /\ least' = latency
    BY <1>12 DEF AddToLeast
  <2>2. OnItsWay => OnItsWay'
    BY <2>1 DEF OnItsWay, Tells
  <2>3. ASSUME NEW m \in Modes, Due(m) PROVE Due(m)'
    <3>1. m # "none"
      BY <1>0
    <3> QED BY <2>1, <2>2, <2>3, <3>1 DEF Due, Current
  <2> QED BY <1>1, <1>2, <2>1, <2>3
<1>13. CASE AddToMost
  <2>1. /\ UNCHANGED <<latency, asked, unsaid, toUi, oldUi, stage>> /\ calling # "none"
        /\ calling' = "none" /\ told' = [told EXCEPT ![calling] = <<least, latency>>]
    BY <1>13 DEF AddToMost
  <2>2. OnItsWay => OnItsWay'
    BY <2>1 DEF OnItsWay, Tells
  <2>3. ASSUME NEW m \in Modes, Due(m) PROVE Due(m)'
    <3>1. m # "none" /\ told \in [Modes -> Nat \X Nat]
      BY <1>0 DEF UiTypeOK
    <3>2. CASE calling = m
      <4>1. told'[m] = <<least, latency>>
        BY <2>1, <3>1, <3>2
      <4> QED BY <2>1, <2>2, <2>3, <3>1, <3>2, <4>1 DEF Due, Current
    <3>3. CASE calling # m
      <4>1. told'[m] = told[m]
        BY <2>1, <3>1, <3>3
      <4> QED BY <2>1, <2>2, <2>3, <3>1, <3>3, <4>1 DEF Due, Current
    <3> QED BY <3>2, <3>3
  <2> QED BY <1>1, <1>2, <2>1, <2>3
<1> QED BY <1>4, <1>5, <1>6, <1>7, <1>8, <1>9, <1>10, <1>11, <1>12, <1>13, UiSteps
        DEF Deliver, Ui, Recompute

\* Every event the plugin made is somewhere, or lost, and one at most is still
\* in its output.
LEMMA Counted ==
  ASSUME UiIInv
  PROVE  /\ Len(sent) \in Nat /\ Ids(sent) = 1..Len(sent) /\ gone \subseteq 1..Len(sent)
         /\ Ids(given) \cup EventIds(oldUi) \cup EventIds(toUi) \cup Ids(emitted)
              = (1..Len(sent)) \ gone
         /\ \/ emitted = <<>> /\ Ids(emitted) = {}
            \/ emitted = <<Len(sent)>> /\ Ids(emitted) = {Len(sent)}
<1>1. /\ sent \in Seq(Nat) /\ \A i \in DOMAIN sent : sent[i] = i
      /\ gone \subseteq 1..Len(sent) /\ emitted \in {<<>>, <<Len(sent)>>}
  BY DEF UiIInv, UiTypeOK, EventsAreNumbered
<1>2. Len(sent) \in Nat /\ DOMAIN sent = 1..Len(sent)
  BY <1>1, LenProperties
<1>3. Ids(sent) = 1..Len(sent)
  BY <1>1, <1>2 DEF Ids
<1> QED BY <1>1, <1>2, <1>3, NoEvents DEF UiIInv, UiEventsInOrder

\* Only the end of the plugin's cycle makes an event, and what is lost was made.
LEMMA UiStepNumbered ==
  ASSUME UiIInv, [UiNext]_uiVars
  PROVE  EventsAreNumbered'
<1>0. /\ UiTypeOK /\ SnapshotIsThere /\ DeliversBetweenCycles /\ EventsAreNumbered
      /\ sent \in Seq(Nat) /\ emitted \in Seq(Nat) /\ toUi \in Seq(BackMessages)
  BY DEF UiIInv, UiTypeOK
<1> USE DEF delivery, backward, update, jack, ui
<1>1. ASSUME UNCHANGED <<sent, emitted, gone>> PROVE EventsAreNumbered'
  BY <1>0, <1>1 DEF EventsAreNumbered
<1>2. CASE Elsewhere \/ LatencySame \/ SetLatency \/ WriteLatency \/ WriteMonitors \/ Ui \/ Recompute
  <2>1. UNCHANGED <<sent, emitted, gone>>
    BY <1>2, Aside DEF LatencySame, SetLatency, WriteLatency, WriteMonitors, Ui, UpdateBegins, TakeEvent,
       TakeMonitor, TakeLatency, Take, UpdateEnds, Recompute, AddToLeast, AddToMost
  <2> QED BY <1>1, <2>1
<1>3. CASE PluginEnds
  <2>1. gone' = gone
    BY <1>3 DEF PluginEnds
  <2>2. CASE emitted' = <<>>
    <3>1. sent' = sent
      BY <1>0, <1>3, <2>2, Made
    <3> QED BY <1>0, <2>1, <2>2, <3>1 DEF EventsAreNumbered
  <2>3. CASE emitted' # <<>>
    <3>1. PICK n \in Nat : n = Len(sent)
      BY <1>0, LenProperties
    <3>2. emitted' = <<Len(sent')>> /\ sent' = Append(sent, n + 1)
      BY <1>0, <1>3, <2>3, <3>1, Made
    <3>3. /\ Len(sent') = n + 1 /\ DOMAIN sent' = 1..(n + 1) /\ DOMAIN sent = 1..n
          /\ \A i \in 1..n : sent'[i] = sent[i]
          /\ sent'[n + 1] = n + 1
      BY <1>0, <3>1, <3>2, AppendProperties, LenProperties
    <3>4. ASSUME NEW i \in DOMAIN sent' PROVE sent'[i] = i
      <4>1. i \in 1..n \/ i = n + 1
        BY <3>3
      <4> QED BY <1>0, <3>3, <4>1 DEF EventsAreNumbered
    <3>5. gone' \subseteq 1..Len(sent')
      <4>1. gone \subseteq 1..n
        BY <1>0, <3>1 DEF EventsAreNumbered
      <4> QED BY <2>1, <3>3, <4>1
    <3> QED BY <3>2, <3>4, <3>5 DEF EventsAreNumbered
  <2> QED BY <2>2, <2>3
<1>4. CASE WriteEmitted
  <2>1. /\ emitted # <<>> /\ emitted' = Tail(emitted) /\ sent' = sent
        /\ gone' \subseteq gone \cup {Head(emitted)}
    BY <1>4 DEF WriteEmitted
  <2>2. emitted = <<Len(sent)>> /\ Len(sent) \in Nat
    BY <1>0, <2>1, LenProperties DEF EventsAreNumbered
  <2>3. Head(emitted) = Len(sent) /\ Tail(emitted) = <<>>
    BY <2>2
  <2>4. Len(sent) # 0
    BY <2>1, <2>2, <1>0, Counted, NoEvents
  <2>5. Len(sent) \in 1..Len(sent)
    BY <2>2, <2>4
  <2> QED BY <1>0, <2>1, <2>3, <2>5 DEF EventsAreNumbered
<1>5. CASE ReplaceRings
  <2>1. UNCHANGED <<sent, emitted>> /\ gone' = gone \cup EventIds(Abandoned)
    BY <1>5 DEF ReplaceRings
  <2>2. EventIds(Abandoned) \subseteq EventIds(toUi)
    <3>1. CASE upc = "update" /\ ~onOld
      <4>1. left \in Nat /\ left <= Len(toUi)
        BY <1>0, <3>1 DEF UiTypeOK, SnapshotIsThere
      <4> QED BY <1>0, <3>1, <4>1, SplitBack DEF Abandoned
    <3>2. CASE ~(upc = "update" /\ ~onOld)
      BY <3>2 DEF Abandoned
    <3> QED BY <3>1, <3>2
  <2>3. EventIds(toUi) \subseteq 1..Len(sent)
    BY Counted
  <2> QED BY <1>0, <2>1, <2>2, <2>3 DEF EventsAreNumbered
<1> QED BY <1>2, <1>3, <1>4, <1>5, UiSteps DEF Deliver

\* The order over the four places an event can be in.
LEMMA UiStepOrder ==
  ASSUME UiIInv, [UiNext]_uiVars
  PROVE  UiEventsInOrder'
<1> DEFINE G == Ids(given)
           O == EventIds(oldUi)
           T == EventIds(toUi)
           E == Ids(emitted)
           n == Len(sent)
<1>0. /\ UiTypeOK /\ SnapshotIsThere /\ DeliversBetweenCycles
      /\ toUi \in Seq(BackMessages) /\ oldUi \in Seq(BackMessages)
      /\ given \in Seq(Nat) /\ emitted \in Seq(Nat) /\ sent \in Seq(Nat)
  BY DEF UiIInv, UiTypeOK
<1>1. /\ Rising(given) /\ Ascending(oldUi) /\ Ascending(toUi)
      /\ Precedes(G, O \cup T \cup E) /\ Precedes(O, T \cup E) /\ Precedes(T, E)
  BY DEF UiIInv, UiEventsInOrder, Rising
<1>2. /\ n \in Nat /\ gone \subseteq 1..n /\ Ids(sent) = 1..n
      /\ G \cup O \cup T \cup E = (1..n) \ gone
  BY Counted
<1>3. ASSUME /\ Rising(given)' /\ Ascending(oldUi)' /\ Ascending(toUi)'
             /\ Precedes(G', O' \cup T' \cup E') /\ Precedes(O', T' \cup E') /\ Precedes(T', E')
             /\ G' \cup O' \cup T' \cup E' = Ids(sent') \ gone'
      PROVE  UiEventsInOrder'
  BY <1>3 DEF UiEventsInOrder, Rising
<1> USE DEF delivery, backward, update, jack, ui
<1>4. CASE Elsewhere \/ LatencySame \/ SetLatency \/ UpdateBegins \/ UpdateEnds \/ Recompute
  <2>1. UNCHANGED <<given, oldUi, toUi, emitted, sent, gone>>
    BY <1>4, Aside DEF LatencySame, SetLatency, UpdateBegins, UpdateEnds, Recompute, AddToLeast, AddToMost
  <2>2. UiEventsInOrder
    BY DEF UiIInv
  <2> QED BY <2>1, <2>2 DEF UiEventsInOrder
<1>5. CASE PluginEnds
  <2>1. UNCHANGED <<given, oldUi, toUi, gone>> /\ E = {}
    BY <1>0, <1>5, NoEvents DEF PluginEnds, FinishPlugin, DeliversBetweenCycles
  <2>2. CASE emitted' = <<>>
    <3>1. sent' = sent /\ E' = {}
      BY <1>0, <1>5, <2>2, Made, NoEvents
    <3>2. G' = G /\ O' = O /\ T' = T
      BY <2>1
    <3>3. Rising(given)' /\ Ascending(oldUi)' /\ Ascending(toUi)'
      BY <1>1, <2>1
    <3> HIDE DEF G, O, T, E, n
    <3> QED BY <1>1, <1>2, <1>3, <2>1, <3>1, <3>2, <3>3
  <2>3. CASE emitted' # <<>>
    <3>1. emitted' = <<Len(sent')>> /\ sent' = Append(sent, n + 1) /\ n + 1 \in Nat
      BY <1>0, <1>2, <1>5, <2>3, Made
    <3>2. Len(sent') = n + 1 /\ Ids(sent') = Ids(sent) \cup {n + 1}
      BY <1>0, <3>1, AppendProperties, AppendNumber
    <3>3. E' = {n + 1}
      BY <3>1, <3>2, NoEvents
    <3>4. G' = G /\ O' = O /\ T' = T /\ gone' = gone
      BY <2>1
    <3>5. Rising(given)' /\ Ascending(oldUi)' /\ Ascending(toUi)'
      BY <1>1, <2>1
    <3> HIDE DEF G, O, T, E, n
    <3>6. \A d \in G \cup O \cup T : d < n + 1
      BY <1>2
    <3>7. Precedes(G', O' \cup T' \cup E') /\ Precedes(O', T' \cup E') /\ Precedes(T', E')
      BY <1>1, <3>3, <3>4, <3>6 DEF Precedes
    <3>8. n + 1 \notin gone
      BY <1>2
    <3>9. G' \cup O' \cup T' \cup E' = Ids(sent') \ gone'
      BY <1>2, <2>1, <3>2, <3>3, <3>4, <3>8
    <3> QED BY <1>3, <3>5, <3>7, <3>9
  <2> QED BY <2>2, <2>3
<1>6. CASE WriteLatency \/ WriteMonitors
  <2>1. UNCHANGED <<given, oldUi, emitted, sent, gone>>
    BY <1>6 DEF WriteLatency, WriteMonitors
  <2>2. UNCHANGED toUi \/ \E m \in {Latency, Monitor} : toUi' = Append(toUi, m)
    BY <1>6 DEF WriteLatency, WriteMonitors, BackWrite
  <2>3. T' = T /\ Ascending(toUi')
    <3>1. ASSUME NEW m \in {Latency, Monitor}
          PROVE  EventIds(Append(toUi, m)) = T /\ Ascending(Append(toUi, m))
      <4>1. m \in BackMessages /\ m.type # "event" /\ Precedes(T, {})
        BY BackMakes DEF Precedes
      <4> QED BY <1>0, <1>1, <4>1, AppendBack
    <3> QED BY <1>1, <2>2, <3>1
  <2>4. G' = G /\ O' = O /\ E' = E /\ Rising(given)' /\ Ascending(oldUi)' /\ Ids(sent') = Ids(sent)
    BY <1>1, <2>1
  <2> HIDE DEF G, O, T, E, n
  <2> QED BY <1>1, <1>2, <1>3, <2>1, <2>3, <2>4
<1>7. CASE WriteEmitted
  <2> DEFINE m == Event(Head(emitted))
  <2>1. /\ UNCHANGED <<given, oldUi, sent>> /\ emitted # <<>> /\ emitted' = Tail(emitted)
        /\ BackWrite(m) /\ gone' = IF BackFits(m) THEN gone ELSE gone \cup {Head(emitted)}
    BY <1>7 DEF WriteEmitted
  <2>2. emitted = <<n>> /\ E = {n}
    BY <2>1, Counted
  <2>3. Head(emitted) = n /\ E' = {}
    BY <2>1, <2>2, NoEvents
  <2>4. m \in BackMessages /\ m.type = "event" /\ m.id = n
    BY <1>2, <2>3, BackMakes
  <2>5. G' = G /\ O' = O /\ Rising(given)' /\ Ascending(oldUi)' /\ Ids(sent') = Ids(sent)
    BY <1>1, <2>1
  <2>6. CASE BackFits(m)
    <3>1. toUi' = Append(toUi, m) /\ gone' = gone
      BY <2>1, <2>6 DEF BackWrite
    <3>2. T' = T \cup {n} /\ Ascending(toUi')
      BY <1>0, <1>1, <2>2, <2>4, <3>1, AppendBack
    <3> HIDE DEF G, O, T, E, n
    <3>3. Precedes(G', O' \cup T' \cup E') /\ Precedes(O', T' \cup E') /\ Precedes(T', E')
      BY <1>1, <2>2, <2>3, <2>5, <3>2 DEF Precedes
    <3>4. G' \cup O' \cup T' \cup E' = Ids(sent') \ gone'
      BY <1>2, <2>2, <2>3, <2>5, <3>1, <3>2
    <3> QED BY <1>3, <2>5, <3>2, <3>3, <3>4
  <2>7. CASE ~BackFits(m)
    <3>1. toUi' = toUi /\ gone' = gone \cup {n}
      BY <2>1, <2>3, <2>7 DEF BackWrite
    <3>2. T' = T /\ Ascending(toUi')
      BY <1>1, <3>1
    <3> HIDE DEF G, O, T, E, n
    <3>3. Precedes(G', O' \cup T' \cup E') /\ Precedes(O', T' \cup E') /\ Precedes(T', E')
      BY <1>1, <2>2, <2>3, <2>5, <3>2 DEF Precedes
    <3>4. n \notin G \cup O \cup T
      BY <1>1, <1>2, <2>2 DEF Precedes
    <3>5. G' \cup O' \cup T' \cup E' = Ids(sent') \ gone'
      BY <1>2, <2>2, <2>3, <2>5, <3>1, <3>2, <3>4
    <3> QED BY <1>3, <2>5, <3>2, <3>3, <3>5
  <2> QED BY <2>6, <2>7
<1>8. CASE ReplaceRings
  <2>1. /\ UNCHANGED <<given, emitted, sent>> /\ toUi' = <<>>
        /\ gone' = gone \cup EventIds(Abandoned)
    BY <1>8 DEF ReplaceRings
  <2>2. G' = G /\ E' = E /\ Rising(given)' /\ Ids(sent') = Ids(sent) /\ T' = {} /\ Ascending(toUi')
    BY <1>1, <2>1, NoEvents
  <2>3. CASE upc = "update" /\ ~onOld
    <3>1. left \in Nat /\ left <= Len(toUi) /\ oldUi = <<>>
      BY <1>0, <2>3 DEF UiTypeOK, SnapshotIsThere
    <3>2. /\ oldUi' = SubSeq(toUi, 1, left)
          /\ Abandoned = SubSeq(toUi, left + 1, Len(toUi))
      BY <1>8, <2>3 DEF ReplaceRings, Abandoned
    <3>3. /\ T = O' \cup EventIds(Abandoned) /\ Ascending(oldUi')
          /\ Precedes(O', EventIds(Abandoned)) /\ O = {}
      BY <1>0, <1>1, <3>1, <3>2, SplitBack, NoEvents
    <3> HIDE DEF G, O, T, E, n
    <3>4. Precedes(G', O' \cup T' \cup E') /\ Precedes(O', T' \cup E') /\ Precedes(T', E')
      BY <1>1, <2>2, <3>3 DEF Precedes
    <3>5. \A e \in EventIds(Abandoned) : e \in 1..n /\ e \notin G \cup O' \cup E
      BY <1>1, <1>2, <3>3 DEF Precedes
    <3>6. G' \cup O' \cup T' \cup E' = Ids(sent') \ gone'
      BY <1>2, <2>1, <2>2, <3>3, <3>5
    <3> QED BY <1>3, <2>2, <3>3, <3>4, <3>6
  <2>4. CASE ~(upc = "update" /\ ~onOld)
    <3>1. oldUi' = oldUi /\ Abandoned = toUi
      BY <1>8, <2>4 DEF ReplaceRings, Abandoned
    <3>2. O' = O /\ Ascending(oldUi') /\ gone' = gone \cup T
      BY <1>1, <2>1, <3>1
    <3> HIDE DEF G, O, T, E, n
    <3>3. Precedes(G', O' \cup T' \cup E') /\ Precedes(O', T' \cup E') /\ Precedes(T', E')
      BY <1>1, <2>2, <3>2 DEF Precedes
    <3>4. \A e \in T : e \in 1..n /\ e \notin G \cup O \cup E
      BY <1>1, <1>2 DEF Precedes
    <3>5. G' \cup O' \cup T' \cup E' = Ids(sent') \ gone'
      BY <1>2, <2>2, <3>2, <3>4
    <3> QED BY <1>3, <2>2, <3>2, <3>3, <3>5
  <2> QED BY <2>3, <2>4
<1>9. CASE TakeEvent \/ TakeMonitor \/ TakeLatency
  <2> DEFINE first == IF Head(Ring).type = "event" THEN {Head(Ring).id} ELSE {}
  <2>1. Take
    BY <1>9 DEF TakeEvent, TakeMonitor, TakeLatency
  <2>2. /\ UNCHANGED <<emitted, sent, gone>> /\ Ring \in Seq(BackMessages) /\ Ring # <<>>
        /\ onOld => oldUi' = Tail(oldUi) /\ toUi' = toUi
        /\ ~onOld => toUi' = Tail(toUi) /\ oldUi' = oldUi
    BY <1>0, <2>1, Takes
  <2>3. /\ Head(Ring) \in BackMessages /\ EventIds(Ring) = first \cup EventIds(Tail(Ring))
        /\ Ascending(Ring) => Ascending(Tail(Ring)) /\ Precedes(first, EventIds(Tail(Ring)))
    BY <2>2, TailBack
  <2>4. O = {} \/ onOld
    BY <1>0, NoEvents DEF SnapshotIsThere
  <2>5. /\ Ascending(oldUi') /\ Ascending(toUi')
        /\ O \cup T = first \cup O' \cup T' /\ O' \subseteq O /\ T' \subseteq T
        /\ Precedes(first, O' \cup T')
    <3>1. CASE onOld
      <4>1. T' = T /\ Ascending(toUi') /\ oldUi' = Tail(oldUi) /\ Ring = oldUi
        BY <1>1, <2>2, <3>1 DEF Ring
      <4>2. O = first \cup O' /\ Ascending(oldUi') /\ Precedes(first, O')
        BY <1>1, <2>3, <4>1
      <4> HIDE DEF O, T, first
      <4>3. Precedes(first, O' \cup T')
        BY <1>1, <4>1, <4>2 DEF Precedes
      <4> QED BY <4>1, <4>2, <4>3
    <3>2. CASE ~onOld
      <4>1. O' = O /\ Ascending(oldUi') /\ toUi' = Tail(toUi) /\ Ring = toUi
        BY <1>1, <2>2, <3>2 DEF Ring
      <4>2. T = first \cup T' /\ Ascending(toUi') /\ Precedes(first, T')
        BY <1>1, <2>3, <4>1
      <4>3. O = {}
        BY <2>4, <3>2
      <4> HIDE DEF O, T, first
      <4>4. Precedes(first, O' \cup T')
        BY <4>1, <4>2, <4>3 DEF Precedes
      <4> QED BY <4>1, <4>2, <4>4
    <3> QED BY <3>1, <3>2
  <2>6. Rising(given)' /\ G' = G \cup first
    <3>1. CASE TakeEvent
      <4>1. given' = Append(given, Head(Ring).id) /\ first = {Head(Ring).id} /\ Head(Ring).id \in Nat
        BY <2>3, <3>1, BackKinds DEF TakeEvent
      <4>2. Precedes(G, first)
        BY <1>1, <2>5 DEF Precedes
      <4> QED BY <1>0, <1>1, <4>1, <4>2, AppendNumber
    <3>2. CASE ~TakeEvent
      <4>1. given' = given /\ first = {}
        BY <1>9, <3>2 DEF TakeMonitor, TakeLatency
      <4> QED BY <1>1, <4>1
    <3> QED BY <3>1, <3>2
  <2>7. E' = E /\ Ids(sent') = Ids(sent) /\ gone' = gone
    BY <2>2
  <2> HIDE DEF G, O, T, E, n, first
  <2>8. Precedes(O', T' \cup E') /\ Precedes(T', E')
    BY <1>1, <2>5, <2>7 DEF Precedes
  <2>9. Precedes(G', O' \cup T' \cup E')
    BY <1>1, <2>5, <2>6, <2>7 DEF Precedes
  <2>10. G' \cup O' \cup T' \cup E' = Ids(sent') \ gone'
    BY <1>2, <2>5, <2>6, <2>7
  <2> QED BY <1>3, <2>5, <2>6, <2>8, <2>9, <2>10
<1> QED BY <1>4, <1>5, <1>6, <1>7, <1>8, <1>9, UiSteps DEF Deliver, Ui

LEMMA UiInitIInv == UiInit => UiIInv
<1> SUFFICES ASSUME UiInit PROVE UiIInv
  OBVIOUS
<1>1. /\ stage = "none" /\ port_out = 0 /\ emitted = <<>> /\ latency = 0 /\ toUi = <<>> /\ oldUi = <<>>
      /\ onOld = FALSE /\ upc = "idle" /\ left = 0 /\ asked = {} /\ calling = "none" /\ least = 0
      /\ told = [m \in Modes |-> <<0, 0>>] /\ sent = <<>> /\ given = <<>> /\ gone = {} /\ unsaid = FALSE
      /\ cycle = "idle"
  BY DEF UiInit, Init
<1>2. UiTypeOK
  <2>1. <<>> \in Seq(Nat) /\ <<>> \in Seq(BackMessages) /\ told \in [Modes -> Nat \X Nat]
    BY <1>1, EmptySeq
  <2> QED BY <1>1, <2>1, UiAssumption DEF UiTypeOK
<1>3. DeliversBetweenCycles
  BY <1>1 DEF DeliversBetweenCycles
<1>4. EventsAreNumbered
  <2>1. DOMAIN sent = {}
    BY <1>1
  <2> QED BY <1>1, <2>1 DEF EventsAreNumbered
<1>5. SnapshotIsThere
  <2>1. Len(toUi) = 0
    BY <1>1, EmptySeq
  <2> QED BY <1>1, <2>1 DEF SnapshotIsThere
<1>6. LatencyTold
  BY <1>1, UiAssumption DEF LatencyTold, Current
<1>7. UiEventsInOrder
  <2>1. DOMAIN given = {}
    BY <1>1
  <2> QED BY <1>1, <2>1, NoEvents DEF UiEventsInOrder, Precedes
<1> QED BY <1>2, <1>3, <1>4, <1>5, <1>6, <1>7 DEF UiIInv

LEMMA UiStepIInv == UiIInv /\ [UiNext]_uiVars => UiIInv'
<1> SUFFICES ASSUME UiIInv, [UiNext]_uiVars PROVE UiIInv'
  OBVIOUS
<1> QED BY UiStepTypes, UiStepDelivery, UiStepNumbered, UiStepSnapshot, UiStepTold, UiStepOrder DEF UiIInv

\* The invariant of the way back, for every ring size, JACK with any modes and
\* a plugin with any latencies.
THEOREM UiInductive == UiSafeSpec => []UiIInv
  BY UiInitIInv, UiStepIInv, PTL DEF UiSafeSpec

\* JACK has the plugin's latency or is about to read it, for both directions,
\* unless the message was refused by a full ring or left on a replaced one.
THEOREM LatencyIsTold == UiSafeSpec => []LatencyTold
<1>1. UiIInv => LatencyTold
  BY DEF UiIInv
<1> QED BY <1>1, UiInductive, PTL

\* No event of the plugin is given to the UI twice or out of turn, and none
\* disappears but those a full or a replaced ring lost.
THEOREM UiEventsAreInOrder == UiSafeSpec => []UiEventsInOrder
<1>1. UiIInv => UiEventsInOrder
  BY DEF UiIInv
<1> QED BY <1>1, UiInductive, PTL
=============================================================================
