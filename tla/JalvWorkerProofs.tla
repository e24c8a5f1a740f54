-------------------------- MODULE JalvWorkerProofs --------------------------
(***************************************************************************)
(* Proofs about JalvWorker, for every ring size and every bound.           *)
(***************************************************************************)
EXTENDS JalvWorker, SequenceTheorems, TLAPS

USE DEF LockFree, ExitSeen, Joined, Oldest

\* What a packet written to or read from a ring does to it.
LEMMA RingOps ==
  ASSUME NEW q \in Seq(Nat), NEW n \in Nat
  PROVE  /\ Append(q, n) \in Seq(Nat) /\ Append(q, n) # <<>>
         /\ q # <<>> => Head(q) \in Nat /\ Tail(q) \in Seq(Nat)
  BY AppendProperties, HeadTailProperties

\* The initial state satisfies the inductive invariant.
LEMMA InitIInv == Init => IInv
  BY DEF Init, IInv, TypeOK, SemCountsPackets, ReadFindsRequest, QueueIsRest, HeldInHand,
         LockCounts, LifeCycle, LastRead, One, ExitPosted

\* Every step of the three threads preserves it.  A step that only moves a
\* program counter is one leaf; one that touches a ring, the semaphore, the
\* lock or the exit handshake is split by the conjuncts it could break.
LEMMA StepIInv == IInv /\ [Next]_vars => IInv'
<1> SUFFICES ASSUME IInv, [Next]_vars PROVE IInv'
  OBVIOUS
<1> USE WorkerAssumption
<1>a. ASSUME UNCHANGED vars PROVE IInv'
  <2>1. (TypeOK /\ taken <= accepted)'
    BY <1>a DEF IInv, TypeOK, vars, wvars, hist
  <2>2. (SemCountsPackets /\ ReadFindsRequest /\ QueueIsRest /\ HeldInHand)'
    BY <1>a DEF IInv, SemCountsPackets, ReadFindsRequest, QueueIsRest, HeldInHand, One, ExitPosted, vars, wvars, hist
  <2>3. (LockCounts /\ LifeCycle /\ LastRead)'
    BY <1>a DEF IInv, LockCounts, LifeCycle, LastRead, One, vars, wvars, hist
  <2> QED BY <2>1, <2>2, <2>3 DEF IInv
<1>1. ASSUME LaunchThread PROVE IInv'
  BY <1>1 DEF LaunchThread, IInv, TypeOK, SemCountsPackets, ReadFindsRequest, QueueIsRest, HeldInHand,
     LockCounts, LifeCycle, LastRead, One, ExitPosted, vars, wvars, hist
<1>2. ASSUME LaunchFails PROVE IInv'
  BY <1>2 DEF LaunchFails, IInv, TypeOK, SemCountsPackets, ReadFindsRequest, QueueIsRest, HeldInHand,
     LockCounts, LifeCycle, LastRead, One, ExitPosted, vars, wvars, hist
<1>3. ASSUME SetLaunched PROVE IInv'
  BY <1>3 DEF SetLaunched, IInv, TypeOK, SemCountsPackets, ReadFindsRequest, QueueIsRest, HeldInHand,
     LockCounts, LifeCycle, LastRead, One, ExitPosted, vars, wvars, hist
<1>4. ASSUME StartAudio PROVE IInv'
  BY <1>4 DEF StartAudio, IInv, TypeOK, SemCountsPackets, ReadFindsRequest, QueueIsRest, HeldInHand,
     LockCounts, LifeCycle, LastRead, One, ExitPosted, vars, wvars, hist
<1>5. ASSUME StopAudio PROVE IInv'
  BY <1>5 DEF StopAudio, IInv, TypeOK, SemCountsPackets, ReadFindsRequest, QueueIsRest, HeldInHand,
     LockCounts, LifeCycle, LastRead, One, ExitPosted, vars, wvars, hist
<1>6. ASSUME AudioStopped PROVE IInv'
  BY <1>6 DEF AudioStopped, IInv, TypeOK, SemCountsPackets, ReadFindsRequest, QueueIsRest, HeldInHand,
     LockCounts, LifeCycle, LastRead, One, ExitPosted, vars, wvars, hist
<1>7. ASSUME ExitNothing PROVE IInv'
  BY <1>7 DEF ExitNothing, IInv, TypeOK, SemCountsPackets, ReadFindsRequest, QueueIsRest, HeldInHand,
     LockCounts, LifeCycle, LastRead, One, ExitPosted, vars, wvars, hist
<1>8. ASSUME ExitFlag PROVE IInv'
  <2>1. TypeOK'
    BY <1>8 DEF ExitFlag, IInv, TypeOK, wvars, hist
  <2>2. SemCountsPackets'
    BY <1>8 DEF ExitFlag, IInv, TypeOK, SemCountsPackets, LifeCycle, One, ExitPosted, wvars, hist
  <2>3. ReadFindsRequest'
    BY <1>8 DEF ExitFlag, IInv, TypeOK, ReadFindsRequest, SemCountsPackets, LifeCycle, One, ExitPosted, wvars, hist
  <2>4. (QueueIsRest /\ HeldInHand /\ taken <= accepted)'
    BY <1>8 DEF ExitFlag, IInv, TypeOK, QueueIsRest, HeldInHand, LifeCycle, wvars, hist
  <2>5. LockCounts'
    BY <1>8 DEF ExitFlag, IInv, TypeOK, LockCounts, One, wvars, hist
  <2>6. (LifeCycle /\ LastRead)'
    BY <1>8 DEF ExitFlag, IInv, TypeOK, LifeCycle, LastRead, One, wvars, hist
  <2> QED BY <2>1, <2>2, <2>3, <2>4, <2>5, <2>6 DEF IInv
<1>9. ASSUME ExitWake PROVE IInv'
  <2>1. TypeOK'
    BY <1>9 DEF ExitWake, IInv, TypeOK, wvars, hist
  <2>2. SemCountsPackets'
    BY <1>9 DEF ExitWake, IInv, TypeOK, SemCountsPackets, LifeCycle, One, ExitPosted, wvars, hist
  <2>3. ReadFindsRequest'
    BY <1>9 DEF ExitWake, IInv, TypeOK, ReadFindsRequest, SemCountsPackets, LifeCycle, One, ExitPosted, wvars, hist
  <2>4. (QueueIsRest /\ HeldInHand /\ taken <= accepted)'
    BY <1>9 DEF ExitWake, IInv, TypeOK, QueueIsRest, HeldInHand, LifeCycle, wvars, hist
  <2>5. LockCounts'
    BY <1>9 DEF ExitWake, IInv, TypeOK, LockCounts, One, wvars, hist
  <2>6. (LifeCycle /\ LastRead)'
    BY <1>9 DEF ExitWake, IInv, TypeOK, LifeCycle, LastRead, One, wvars, hist
  <2> QED BY <2>1, <2>2, <2>3, <2>4, <2>5, <2>6 DEF IInv
<1>10. ASSUME ExitJoin PROVE IInv'
  BY <1>10 DEF ExitJoin, IInv, TypeOK, SemCountsPackets, ReadFindsRequest, QueueIsRest, HeldInHand,
     LockCounts, LifeCycle, LastRead, One, ExitPosted, vars, wvars, hist
<1>11. ASSUME Free PROVE IInv'
  BY <1>11 DEF Free, IInv, TypeOK, SemCountsPackets, ReadFindsRequest, QueueIsRest, HeldInHand,
     LockCounts, LifeCycle, LastRead, One, ExitPosted, vars, wvars, hist
<1>12. ASSUME RestoreSchedule PROVE IInv'
  <2>1. TypeOK'
    BY <1>12 DEF RestoreSchedule, IInv, TypeOK, wvars, hist
  <2>2. SemCountsPackets'
    BY <1>12 DEF RestoreSchedule, IInv, TypeOK, SemCountsPackets, LifeCycle, One, ExitPosted, wvars, hist
  <2>3. ReadFindsRequest'
    BY <1>12 DEF RestoreSchedule, IInv, TypeOK, ReadFindsRequest, SemCountsPackets, LifeCycle, One, ExitPosted, wvars, hist
  <2>4. (QueueIsRest /\ HeldInHand /\ taken <= accepted)'
    BY <1>12 DEF RestoreSchedule, IInv, TypeOK, QueueIsRest, HeldInHand, LifeCycle, wvars, hist
  <2>5. LockCounts'
    BY <1>12 DEF RestoreSchedule, IInv, TypeOK, LockCounts, One, wvars, hist
  <2>6. (LifeCycle /\ LastRead)'
    BY <1>12 DEF RestoreSchedule, IInv, TypeOK, LifeCycle, LastRead, One, wvars, hist
  <2> QED BY <2>1, <2>2, <2>3, <2>4, <2>5, <2>6 DEF IInv
<1>13. ASSUME RestoreLock PROVE IInv'
  <2>1. TypeOK'
    BY <1>13 DEF RestoreLock, IInv, TypeOK, wvars, hist
  <2>2. SemCountsPackets'
    BY <1>13 DEF RestoreLock, IInv, TypeOK, SemCountsPackets, LifeCycle, One, ExitPosted, wvars, hist
  <2>3. ReadFindsRequest'
    BY <1>13 DEF RestoreLock, IInv, TypeOK, ReadFindsRequest, SemCountsPackets, LifeCycle, One, ExitPosted, wvars, hist
  <2>4. (QueueIsRest /\ HeldInHand /\ taken <= accepted)'
    BY <1>13 DEF RestoreLock, IInv, TypeOK, QueueIsRest, HeldInHand, LifeCycle, wvars, hist
  <2>5. LockCounts'
    BY <1>13 DEF RestoreLock, IInv, TypeOK, LockCounts, One, wvars, hist
  <2>6. (LifeCycle /\ LastRead)'
    BY <1>13 DEF RestoreLock, IInv, TypeOK, LifeCycle, LastRead, One, wvars, hist
  <2> QED BY <2>1, <2>2, <2>3, <2>4, <2>5, <2>6 DEF IInv
<1>14. ASSUME RestoreWorkDone PROVE IInv'
  <2>1. TypeOK'
    BY <1>14 DEF RestoreWorkDone, IInv, TypeOK, wvars, hist
  <2>2. SemCountsPackets'
    BY <1>14 DEF RestoreWorkDone, IInv, TypeOK, SemCountsPackets, LifeCycle, One, ExitPosted, wvars, hist
  <2>3. ReadFindsRequest'
    BY <1>14 DEF RestoreWorkDone, IInv, TypeOK, ReadFindsRequest, SemCountsPackets, LifeCycle, One, ExitPosted, wvars, hist
  <2>4. (QueueIsRest /\ HeldInHand /\ taken <= accepted)'
    BY <1>14 DEF RestoreWorkDone, IInv, TypeOK, QueueIsRest, HeldInHand, LifeCycle, wvars, hist
  <2>5. LockCounts'
    BY <1>14 DEF RestoreWorkDone, IInv, TypeOK, LockCounts, One, wvars, hist
  <2>6. (LifeCycle /\ LastRead)'
    BY <1>14 DEF RestoreWorkDone, IInv, TypeOK, LifeCycle, LastRead, One, wvars, hist
  <2> QED BY <2>1, <2>2, <2>3, <2>4, <2>5, <2>6 DEF IInv
<1>15. ASSUME BeginCycle PROVE IInv'
  BY <1>15 DEF BeginCycle, IInv, TypeOK, SemCountsPackets, ReadFindsRequest, QueueIsRest, HeldInHand,
     LockCounts, LifeCycle, LastRead, One, ExitPosted, vars, wvars, hist
<1>16. ASSUME ScheduleWrite PROVE IInv'
  <2>1. TypeOK'
    BY <1>16 DEF ScheduleWrite, IInv, TypeOK, wvars, hist
  <2>2. SemCountsPackets'
    BY <1>16 DEF ScheduleWrite, IInv, TypeOK, SemCountsPackets, LifeCycle, One, ExitPosted, wvars, hist
  <2>3. ReadFindsRequest'
    BY <1>16, RingOps DEF ScheduleWrite, IInv, TypeOK, ReadFindsRequest
  <2>4. (QueueIsRest /\ HeldInHand /\ taken <= accepted)'
    BY <1>16 DEF ScheduleWrite, IInv, TypeOK, QueueIsRest, HeldInHand, LifeCycle, wvars, hist
  <2>5. LockCounts'
    BY <1>16 DEF ScheduleWrite, IInv, TypeOK, LockCounts, One, wvars, hist
  <2>6. (LifeCycle /\ LastRead)'
    BY <1>16 DEF ScheduleWrite, IInv, TypeOK, LifeCycle, LastRead, One, wvars, hist
  <2> QED BY <2>1, <2>2, <2>3, <2>4, <2>5, <2>6 DEF IInv
<1>17. ASSUME SchedulePost PROVE IInv'
  <2>1. TypeOK'
    BY <1>17 DEF SchedulePost, IInv, TypeOK, wvars, hist
  <2>2. SemCountsPackets'
    BY <1>17 DEF SchedulePost, IInv, TypeOK, SemCountsPackets, LifeCycle, One, ExitPosted, wvars, hist
  <2>3. ReadFindsRequest'
    BY <1>17 DEF SchedulePost, IInv, TypeOK, ReadFindsRequest, SemCountsPackets, LifeCycle, One, ExitPosted, wvars, hist
  <2>4. (QueueIsRest /\ HeldInHand /\ taken <= accepted)'
    BY <1>17 DEF SchedulePost, IInv, TypeOK, QueueIsRest, HeldInHand, LifeCycle, wvars, hist
  <2>5. LockCounts'
    BY <1>17 DEF SchedulePost, IInv, TypeOK, LockCounts, One, wvars, hist
  <2>6. (LifeCycle /\ LastRead)'
    BY <1>17 DEF SchedulePost, IInv, TypeOK, LifeCycle, LastRead, One, wvars, hist
  <2> QED BY <2>1, <2>2, <2>3, <2>4, <2>5, <2>6 DEF IInv
<1>18. ASSUME FinishRun PROVE IInv'
  BY <1>18 DEF FinishRun, IInv, TypeOK, SemCountsPackets, ReadFindsRequest, QueueIsRest, HeldInHand,
     LockCounts, LifeCycle, LastRead, One, ExitPosted, vars, wvars, hist
<1>19. ASSUME EmitStateResponse PROVE IInv'
  <2>1. TypeOK'
    <3>1. CASE sresponses = <<>>
      BY <1>19, <3>1 DEF EmitStateResponse, IInv, TypeOK, wvars, hist
    <3>2. CASE sresponses # <<>>
      BY <1>19, <3>2, RingOps DEF EmitStateResponse, IInv, TypeOK, wvars, hist
    <3> QED BY <3>1, <3>2
  <2>2. SemCountsPackets'
    BY <1>19 DEF EmitStateResponse, IInv, TypeOK, SemCountsPackets, LifeCycle, One, ExitPosted, wvars, hist
  <2>3. ReadFindsRequest'
    BY <1>19 DEF EmitStateResponse, IInv, TypeOK, ReadFindsRequest, SemCountsPackets, LifeCycle, One, ExitPosted, wvars, hist
  <2>4. (QueueIsRest /\ HeldInHand /\ taken <= accepted)'
    BY <1>19 DEF EmitStateResponse, IInv, TypeOK, QueueIsRest, HeldInHand, LifeCycle, wvars, hist
  <2>5. LockCounts'
    BY <1>19 DEF EmitStateResponse, IInv, TypeOK, LockCounts, One, wvars, hist
  <2>6. (LifeCycle /\ LastRead)'
    BY <1>19 DEF EmitStateResponse, IInv, TypeOK, LifeCycle, LastRead, One, wvars, hist
  <2> QED BY <2>1, <2>2, <2>3, <2>4, <2>5, <2>6 DEF IInv
<1>20. ASSUME EmitResponse PROVE IInv'
  <2>1. TypeOK'
    BY <1>20 DEF EmitResponse, IInv, TypeOK, wvars, hist
  <2>2. SemCountsPackets'
    BY <1>20 DEF EmitResponse, IInv, TypeOK, SemCountsPackets, LifeCycle, One, ExitPosted, wvars, hist
  <2>3. ReadFindsRequest'
    BY <1>20 DEF EmitResponse, IInv, TypeOK, ReadFindsRequest, SemCountsPackets, LifeCycle, One, ExitPosted, wvars, hist
  <2>4. (QueueIsRest /\ HeldInHand /\ taken <= accepted)'
    BY <1>20 DEF EmitResponse, IInv, TypeOK, QueueIsRest, HeldInHand, LifeCycle, wvars, hist
  <2>5. LockCounts'
    BY <1>20 DEF EmitResponse, IInv, TypeOK, LockCounts, One, wvars, hist
  <2>6. (LifeCycle /\ LastRead)'
    BY <1>20 DEF EmitResponse, IInv, TypeOK, LifeCycle, LastRead, One, wvars, hist
  <2> QED BY <2>1, <2>2, <2>3, <2>4, <2>5, <2>6 DEF IInv
<1>21. ASSUME EndRun PROVE IInv'
  BY <1>21 DEF EndRun, IInv, TypeOK, SemCountsPackets, ReadFindsRequest, QueueIsRest, HeldInHand,
     LockCounts, LifeCycle, LastRead, One, ExitPosted, vars, wvars, hist
<1>22. ASSUME WaitRequest PROVE IInv'
  BY <1>22 DEF WaitRequest, IInv, TypeOK, SemCountsPackets, ReadFindsRequest, QueueIsRest, HeldInHand,
     LockCounts, LifeCycle, LastRead, One, ExitPosted, vars, wvars, hist
<1>23. ASSUME CheckExit PROVE IInv'
  <2>1. TypeOK'
    BY <1>23 DEF CheckExit, IInv, TypeOK, wvars, hist
  <2>2. SemCountsPackets'
    BY <1>23 DEF CheckExit, IInv, TypeOK, SemCountsPackets, LifeCycle, One, ExitPosted, wvars, hist
  <2>3. ReadFindsRequest'
    BY <1>23 DEF CheckExit, IInv, TypeOK, ReadFindsRequest, SemCountsPackets, LifeCycle, One, ExitPosted, wvars, hist
  <2>4. (QueueIsRest /\ HeldInHand /\ taken <= accepted)'
    BY <1>23 DEF CheckExit, IInv, TypeOK, QueueIsRest, HeldInHand, LifeCycle, wvars, hist
  <2>5. LockCounts'
    BY <1>23 DEF CheckExit, IInv, TypeOK, LockCounts, One, wvars, hist
  <2>6. (LifeCycle /\ LastRead)'
    BY <1>23 DEF CheckExit, IInv, TypeOK, LifeCycle, LastRead, One, wvars, hist
  <2> QED BY <2>1, <2>2, <2>3, <2>4, <2>5, <2>6 DEF IInv
<1>24. ASSUME ReadRequest PROVE IInv'
  <2>a. /\ requests # <<>> /\ held' = Head(requests)
        /\ requests' = Tail(requests) /\ taken' = taken + 1
        /\ wpc' = "lock" /\ accepted' = accepted
    BY <1>24 DEF ReadRequest, IInv, ReadFindsRequest, hist
  <2>1. TypeOK'
    BY <1>24, <2>a, RingOps DEF ReadRequest, IInv, TypeOK
  <2>2. SemCountsPackets'
    <3>1. Len(requests') = Len(requests) - 1 /\ Len(requests) \in Nat
      BY <2>a, HeadTailProperties DEF IInv, TypeOK
    <3> QED BY <1>24, <2>a, <3>1 DEF ReadRequest, IInv, TypeOK, SemCountsPackets,
              LifeCycle, One, ExitPosted
  <2>3. ReadFindsRequest'
    BY <1>24 DEF ReadRequest, IInv, TypeOK, ReadFindsRequest, SemCountsPackets, LifeCycle, One, ExitPosted, wvars, hist
  <2>4. (QueueIsRest /\ HeldInHand /\ taken <= accepted)'
    <3>1. (QueueIsRest /\ taken <= accepted)'
      <4>1. taken + 1 <= accepted
        BY <2>a DEF IInv, TypeOK, QueueIsRest
      <4>2. requests' = [i \in 1..(accepted - taken - 1) |-> taken + 1 + i]
        BY <2>a, <4>1 DEF IInv, TypeOK, QueueIsRest
      <4>3. Head(requests) = taken + 1
        BY <2>a, <4>1 DEF IInv, TypeOK, QueueIsRest
      <4> QED BY <2>a, <4>1, <4>2, <4>3 DEF IInv, TypeOK, QueueIsRest
    <3>2. HeldInHand'
      BY <2>a DEF HeldInHand
    <3> QED BY <3>1, <3>2
  <2>5. LockCounts'
    BY <1>24 DEF ReadRequest, IInv, TypeOK, LockCounts, One, wvars, hist
  <2>6. (LifeCycle /\ LastRead)'
    BY <1>24 DEF ReadRequest, IInv, TypeOK, LifeCycle, LastRead, One, wvars, hist
  <2> QED BY <2>1, <2>2, <2>3, <2>4, <2>5, <2>6 DEF IInv
<1>25. ASSUME SkipRequest PROVE IInv'
  <2>1. TypeOK'
    BY <1>25 DEF SkipRequest, IInv, TypeOK, wvars, hist
  <2>2. SemCountsPackets'
    BY <1>25 DEF SkipRequest, IInv, TypeOK, SemCountsPackets, LifeCycle, One, ExitPosted, wvars, hist
  <2>3. ReadFindsRequest'
    BY <1>25 DEF SkipRequest, IInv, TypeOK, ReadFindsRequest, SemCountsPackets, LifeCycle, One, ExitPosted, wvars, hist
  <2>4. (QueueIsRest /\ HeldInHand /\ taken <= accepted)'
    BY <1>25 DEF SkipRequest, IInv, TypeOK, QueueIsRest, HeldInHand, LifeCycle, wvars, hist
  <2>5. LockCounts'
    BY <1>25 DEF SkipRequest, IInv, TypeOK, LockCounts, One, wvars, hist
  <2>6. (LifeCycle /\ LastRead)'
    BY <1>25 DEF SkipRequest, IInv, TypeOK, LifeCycle, LastRead, One, wvars, hist
  <2> QED BY <2>1, <2>2, <2>3, <2>4, <2>5, <2>6 DEF IInv
<1>26. ASSUME WorkLock PROVE IInv'
  BY <1>26 DEF WorkLock, IInv, TypeOK, SemCountsPackets, ReadFindsRequest, QueueIsRest, HeldInHand,
     LockCounts, LifeCycle, LastRead, One, ExitPosted, vars, wvars, hist
<1>27. ASSUME Respond PROVE IInv'
  BY <1>27 DEF Respond, IInv, TypeOK, SemCountsPackets, ReadFindsRequest, QueueIsRest, HeldInHand,
     LockCounts, LifeCycle, LastRead, One, ExitPosted, vars, wvars, hist
<1>28. ASSUME WorkDone PROVE IInv'
  BY <1>28 DEF WorkDone, IInv, TypeOK, SemCountsPackets, ReadFindsRequest, QueueIsRest, HeldInHand,
     LockCounts, LifeCycle, LastRead, One, ExitPosted, vars, wvars, hist
<1>29. ASSUME ThreadStops PROVE IInv'
  BY <1>29 DEF ThreadStops, IInv, TypeOK, SemCountsPackets, ReadFindsRequest, QueueIsRest, HeldInHand,
     LockCounts, LifeCycle, LastRead, One, ExitPosted, vars, wvars, hist
<1>30. ASSUME RestoreRespond PROVE IInv'
  <2>1. TypeOK'
    <3>1. sresponses' \in Seq(Nat)
      BY <1>30, RingOps DEF RestoreRespond, IInv, TypeOK
    <3> QED BY <1>30, <3>1 DEF RestoreRespond, IInv, TypeOK, wvars, hist
  <2>2. (SemCountsPackets /\ ReadFindsRequest /\ QueueIsRest /\ HeldInHand /\ taken <= accepted)'
    BY <1>30 DEF RestoreRespond, IInv, SemCountsPackets, ReadFindsRequest, QueueIsRest, HeldInHand, One, ExitPosted, wvars, hist
  <2>3. (LockCounts /\ LifeCycle /\ LastRead)'
    BY <1>30 DEF RestoreRespond, IInv, LockCounts, LifeCycle, LastRead, One, wvars, hist
  <2> QED BY <2>1, <2>2, <2>3 DEF IInv
<1> QED BY <1>a, <1>1, <1>2, <1>3, <1>4, <1>5, <1>6, <1>7, <1>8, <1>9, <1>10, <1>11, <1>12, <1>13, <1>14, <1>15, <1>16, <1>17, <1>18, <1>19, <1>20, <1>21, <1>22, <1>23, <1>24, <1>25, <1>26, <1>27, <1>28, <1>29, <1>30
       DEF Next, Main, Audio, Worker, Freed

\* For every ring size and bound, in every reachable state: the inductive
\* invariant, hence the semaphore accounting, the order of the request ring
\* and the life cycle.
THEOREM Inductive == SafeSpec => []IInv
  BY InitIInv, StepIInv, PTL DEF SafeSpec

\* The variables always have the types the runs check.
THEOREM TypeCorrect == SafeSpec => []TypeOK
<1>1. IInv => TypeOK
  BY DEF IInv
<1> QED BY <1>1, Inductive, PTL

\* A worker about to read always finds the packet its wake-up was posted for.
THEOREM NoSpuriousRead == SafeSpec => []ReadFindsRequest
<1>1. IInv => ReadFindsRequest
  BY DEF IInv
<1> QED BY <1>1, Inductive, PTL

\* Every count of the semaphore stands for one packet or for the exit.
THEOREM SemaphoreCounts == SafeSpec => []SemCountsPackets
<1>1. IInv => SemCountsPackets
  BY DEF IInv
<1> QED BY <1>1, Inductive, PTL

\* Accepted requests are neither lost, repeated nor reordered in the ring.
THEOREM RequestsInOrder == SafeSpec => []QueueIsRest
<1>1. IInv => QueueIsRest
  BY DEF IInv
<1> QED BY <1>1, Inductive, PTL

\* The plugin's work() is never entered by two threads.
THEOREM WorkIsExclusive == SafeSpec => []WorkExclusive
<1>1. IInv => WorkExclusive
  BY DEF IInv, TypeOK, LockCounts, WorkExclusive, One
<1> QED BY <1>1, Inductive, PTL

\* Exit lets at most one more request be served.
THEOREM ExitIsPrompt == SafeSpec => []ExitDropsQueue
<1>1. IInv => ExitDropsQueue
  BY DEF IInv, TypeOK, LastRead, ExitDropsQueue, One
<1> QED BY <1>1, Inductive, PTL

\* Nothing runs on a worker that has been freed.
THEOREM FreedIsUnused == SafeSpec => []FreedIsQuiet
<1>1. IInv => FreedIsQuiet
  BY DEF IInv, LifeCycle, FreedIsQuiet
<1> QED BY <1>1, Inductive, PTL

-----------------------------------------------------------------------------
(* Responses.                                                              *)

\* What two rings one behind the other hold.
LEMMA RingConcat ==
  ASSUME NEW a \in Seq(Nat), NEW b \in Seq(Nat)
  PROVE  /\ a \o b \in Seq(Nat) /\ Len(a) \in Nat /\ Len(b) \in Nat
         /\ Len(a \o b) = Len(a) + Len(b)
         /\ \A i \in 1..(Len(a) + Len(b)) :
              (a \o b)[i] = IF i <= Len(a) THEN a[i] ELSE b[i - Len(a)]
  BY ConcatProperties, LenProperties

\* Handing the oldest response over does not change the sequence of all the
\* responses made.
LEMMA EmitKeepsSeen ==
  ASSUME NEW e \in Seq(Nat), NEW r \in Seq(Nat), r # <<>>
  PROVE  Append(e, Head(r)) \o Tail(r) = e \o r
<1> DEFINE h == Append(e, Head(r))
           u == Tail(r)
<1>1. Head(r) \in Nat /\ u \in Seq(Nat) /\ Len(u) = Len(r) - 1 /\ Head(r) = r[1]
  BY HeadTailProperties
<1>2. \A i \in 1..Len(u) : u[i] = r[i + 1]
  BY HeadTailProperties
<1>3. h \in Seq(Nat) /\ Len(h) = Len(e) + 1
  BY <1>1, AppendProperties
<1>4. /\ \A i \in 1..Len(e) : h[i] = e[i]
      /\ h[Len(e) + 1] = r[1]
  BY <1>1, AppendProperties
<1> HIDE DEF h, u
<1>5. Len(e) \in Nat /\ Len(r) \in Nat /\ Len(u) \in Nat
  BY <1>1, LenProperties
<1>6. /\ h \o u \in Seq(Nat) /\ Len(h \o u) = Len(h) + Len(u)
      /\ \A i \in 1..(Len(h) + Len(u)) :
           (h \o u)[i] = IF i <= Len(h) THEN h[i] ELSE u[i - Len(h)]
  BY <1>1, <1>3, RingConcat
<1>7. /\ e \o r \in Seq(Nat) /\ Len(e \o r) = Len(e) + Len(r)
      /\ \A i \in 1..(Len(e) + Len(r)) :
           (e \o r)[i] = IF i <= Len(e) THEN e[i] ELSE r[i - Len(e)]
  BY RingConcat
<1>8. ASSUME NEW i \in 1..(Len(e) + Len(r)) PROVE (h \o u)[i] = (e \o r)[i]
  <2>1. (h \o u)[i] = IF i <= Len(e) + 1 THEN h[i] ELSE u[i - (Len(e) + 1)]
    <3>1. i \in 1..(Len(h) + Len(u))
      BY <1>1, <1>3, <1>5
    <3>2. (h \o u)[i] = IF i <= Len(h) THEN h[i] ELSE u[i - Len(h)]
      BY <3>1, <1>6
    <3> QED BY <3>2, <1>3
  <2>2. CASE i <= Len(e)
    BY <2>1, <2>2, <1>4, <1>5, <1>7
  <2>3. CASE i = Len(e) + 1
    BY <2>1, <2>3, <1>4, <1>5, <1>7
  <2>4. CASE i > Len(e) + 1
    <3>1. i - (Len(e) + 1) \in 1..Len(u)
      BY <2>4, <1>1, <1>5
    <3>2. u[i - (Len(e) + 1)] = r[i - Len(e)]
      BY <3>1, <1>2, <1>5
    <3>3. (e \o r)[i] = r[i - Len(e)]
      BY <2>4, <1>5, <1>7
    <3>4. (h \o u)[i] = u[i - (Len(e) + 1)]
      BY <2>1, <2>4, <1>5
    <3> QED BY <3>2, <3>3, <3>4
  <2>5. i <= Len(e) \/ i = Len(e) + 1 \/ i > Len(e) + 1
    BY <1>5
  <2> QED BY <2>2, <2>3, <2>4, <2>5, Zenon
<1>9. Len(h \o u) = Len(e \o r)
  BY <1>1, <1>3, <1>5, <1>6, <1>7
<1>10. h \o u = e \o r
  BY <1>6, <1>7, <1>8, <1>9, SeqEqual
<1> QED BY <1>10 DEF h, u

\* A new response extends that sequence.
LEMMA RespondExtends ==
  ASSUME NEW e \in Seq(Nat), NEW r \in Seq(Nat), NEW n \in Nat
  PROVE  LET s == e \o r  t == e \o Append(r, n)
         IN  /\ s \in Seq(Nat) /\ t \in Seq(Nat) /\ Len(t) = Len(s) + 1
             /\ \A i \in 1..Len(s) : t[i] = s[i]
             /\ t[Len(s) + 1] = n
<1> DEFINE a == Append(r, n)
<1>1. a \in Seq(Nat) /\ Len(a) = Len(r) + 1
  BY AppendProperties
<1>2. (\A i \in 1..Len(r) : a[i] = r[i]) /\ a[Len(r) + 1] = n
  BY AppendProperties
<1> HIDE DEF a
<1>3. Len(e) \in Nat /\ Len(r) \in Nat
  BY LenProperties
<1>4. /\ e \o r \in Seq(Nat) /\ Len(e \o r) = Len(e) + Len(r)
      /\ \A i \in 1..(Len(e) + Len(r)) :
           (e \o r)[i] = IF i <= Len(e) THEN e[i] ELSE r[i - Len(e)]
  BY RingConcat
<1>5. /\ e \o a \in Seq(Nat) /\ Len(e \o a) = Len(e) + Len(a)
      /\ \A i \in 1..(Len(e) + Len(a)) :
           (e \o a)[i] = IF i <= Len(e) THEN e[i] ELSE a[i - Len(e)]
  BY <1>1, RingConcat
<1>6. ASSUME NEW i \in 1..Len(e \o r) PROVE (e \o a)[i] = (e \o r)[i]
  <2>1. CASE i <= Len(e)
    BY <2>1, <1>1, <1>3, <1>4, <1>5
  <2>2. CASE i > Len(e)
    <3>1. i - Len(e) \in 1..Len(r)
      BY <2>2, <1>3, <1>4
    <3>2. a[i - Len(e)] = r[i - Len(e)]
      BY <3>1, <1>2
    <3>3. (e \o r)[i] = r[i - Len(e)]
      BY <2>2, <1>3, <1>4
    <3>4. i \in 1..(Len(e) + Len(a)) /\ ~(i <= Len(e))
      BY <2>2, <1>1, <1>3, <1>4
    <3>5. (e \o a)[i] = a[i - Len(e)]
      BY <3>4, <1>5
    <3> QED BY <3>2, <3>3, <3>5
  <2>3. i <= Len(e) \/ i > Len(e)
    BY <1>3, <1>4
  <2> QED BY <2>1, <2>2, <2>3, Zenon
<1>7. (e \o a)[Len(e \o r) + 1] = n
  BY <1>1, <1>2, <1>3, <1>4, <1>5
<1>8. Len(e \o a) = Len(e \o r) + 1
  BY <1>1, <1>3, <1>4, <1>5
<1> QED BY <1>4, <1>5, <1>6, <1>7, <1>8 DEF a

\* Every step keeps the responses in the order of the requests: only Respond
\* adds one, for the newest request, and only EmitResponse moves one.
LEMMA StepReplies ==
  IInv /\ RepliesInOrder /\ [Next]_vars => RepliesInOrder'
<1> SUFFICES ASSUME IInv, RepliesInOrder, [Next]_vars PROVE RepliesInOrder'
  OBVIOUS
<1>t. emitted \in Seq(Nat) /\ responses \in Seq(Nat) /\ held \in Nat /\ taken \in Nat
  BY DEF IInv, TypeOK
<1>0. ASSUME emitted' \o responses' = emitted \o responses,
             taken' \in {taken, taken + 1}
      PROVE  RepliesInOrder'
  <2> DEFINE seen == emitted \o responses
  <2>1. \A i \in DOMAIN seen : seen[i] \in 1..taken /\ \A j \in 1..i : seen[j] <= seen[i]
    BY DEF RepliesInOrder
  <2>2. \A n : n \in 1..taken => n \in 1..taken'
    BY <1>0, <1>t
  <2> HIDE DEF seen
  <2>3. \A i \in DOMAIN seen : seen[i] \in 1..taken' /\ \A j \in 1..i : seen[j] <= seen[i]
    BY <2>1, <2>2, Zenon
  <2> QED BY <1>0, <2>3 DEF RepliesInOrder, seen
<1>1. CASE Respond
  <2>1. held = taken /\ taken > 0 /\ taken' = taken /\ emitted' = emitted
        /\ responses' = Append(responses, taken)
    BY <1>1 DEF Respond, IInv, QueueIsRest, hist
  <2> DEFINE s == emitted \o responses
             t == emitted \o Append(responses, taken)
  <2>2. /\ s \in Seq(Nat) /\ t \in Seq(Nat) /\ Len(t) = Len(s) + 1
        /\ \A i \in 1..Len(s) : t[i] = s[i]
        /\ t[Len(s) + 1] = taken
    BY <1>t, RespondExtends
  <2>3. \A i \in DOMAIN s : s[i] \in 1..taken /\ \A j \in 1..i : s[j] <= s[i]
    BY DEF RepliesInOrder
  <2>4. emitted' \o responses' = t
    BY <2>1
  <2> HIDE DEF s, t
  <2>5. \A i \in DOMAIN t : t[i] \in 1..taken /\ \A j \in 1..i : t[j] <= t[i]
    <3>1. DOMAIN s = 1..Len(s) /\ DOMAIN t = 1..Len(t) /\ Len(s) \in Nat
      BY <2>2, LenProperties
    <3>2. ASSUME NEW i \in 1..Len(s)
          PROVE  t[i] \in 1..taken /\ \A j \in 1..i : t[j] <= t[i]
      <4>1. t[i] = s[i] /\ s[i] \in 1..taken
        BY <3>1, <2>2, <2>3
      <4>2. ASSUME NEW j \in 1..i PROVE t[j] <= t[i]
        <5>1. j \in 1..Len(s) /\ t[j] = s[j]
          BY <3>1, <2>2
        <5> QED BY <3>1, <4>1, <5>1, <2>3
      <4> QED BY <4>1, <4>2
    <3>3. \A j \in 1..(Len(s) + 1) : t[j] \in Nat /\ t[j] <= taken
      <4> TAKE j \in 1..(Len(s) + 1)
      <4>1. CASE j \in 1..Len(s)
        BY <3>2, <4>1, <1>t
      <4>2. CASE j = Len(s) + 1
        BY <4>2, <2>2, <1>t
      <4> QED BY <4>1, <4>2, <3>1
    <3>4. t[Len(s) + 1] \in 1..taken
      BY <2>1, <2>2, <1>t
    <3>5. ASSUME NEW i \in 1..Len(t)
          PROVE  t[i] \in 1..taken /\ \A j \in 1..i : t[j] <= t[i]
      <4>1. CASE i \in 1..Len(s)
        BY <3>2, <4>1
      <4>2. CASE i = Len(s) + 1
        BY <3>1, <3>3, <3>4, <4>2, <2>2
      <4> QED BY <3>1, <4>1, <4>2, <2>2
    <3> QED BY <3>1, <3>5
  <2> QED BY <2>1, <2>4, <2>5 DEF RepliesInOrder
<1>2. CASE EmitResponse
  <2>1. emitted' \o responses' = emitted \o responses
    BY <1>2, <1>t, EmitKeepsSeen DEF EmitResponse
  <2> QED BY <1>2, <2>1, <1>0 DEF EmitResponse
<1>3. CASE ReadRequest
  BY <1>3, <1>0 DEF ReadRequest
<1>4. CASE SkipRequest
  BY <1>4, <1>0 DEF SkipRequest
<1>5. ASSUME UNCHANGED <<emitted, responses, taken>> PROVE RepliesInOrder'
  BY <1>5, <1>0
<1>6. CASE Main \/ Freed \/ UNCHANGED vars
  BY <1>6, <1>5 DEF Main, Freed, LaunchThread, LaunchFails, SetLaunched, StartAudio,
     StopAudio, AudioStopped, ExitNothing, ExitFlag, ExitWake, ExitJoin, Free,
     RestoreSchedule, RestoreLock, RestoreRespond, RestoreWorkDone, vars, wvars, hist
<1>7. CASE \/ BeginCycle \/ ScheduleWrite \/ SchedulePost \/ FinishRun
           \/ EmitStateResponse \/ EndRun \/ WaitRequest \/ CheckExit
           \/ WorkLock \/ WorkDone \/ ThreadStops
  BY <1>7, <1>5 DEF BeginCycle, ScheduleWrite, SchedulePost, FinishRun,
     EmitStateResponse, EndRun, WaitRequest, CheckExit, WorkLock, WorkDone,
     ThreadStops, wvars, hist
<1> QED BY <1>1, <1>2, <1>3, <1>4, <1>6, <1>7 DEF Next, Audio, Worker

\* The plugin sees responses in order, and only for requests taken.
THEOREM ResponsesInOrder == SafeSpec => []RepliesInOrder
<1>1. Init => RepliesInOrder
  BY DEF Init, RepliesInOrder
<1> QED BY <1>1, Inductive, StepReplies, PTL DEF SafeSpec

-----------------------------------------------------------------------------
(* Refinement.                                                             *)

\* Every step of the three threads is a step of the service or leaves it as
\* it is.
LEMMA StepService == IInv /\ [Next]_vars => [Service!Next]_(Service!vars)
<1> SUFFICES ASSUME IInv, [Next]_vars PROVE [Service!Next]_(Service!vars)
  OBVIOUS
<1> DEFINE Same == UNCHANGED <<state, requests, held, responses, emitted>>
<1>0. ASSUME Same PROVE UNCHANGED Service!vars
  BY <1>0 DEF Service!vars
<1>1. CASE SetLaunched
  <2>1. requests = <<>>
    BY <1>1 DEF SetLaunched, IInv, TypeOK, LifeCycle, QueueIsRest
  <2> QED BY <1>1, <2>1 DEF SetLaunched, IInv, LifeCycle, hist, Service!Next, Service!Open
<1>2. CASE ExitFlag
  BY <1>2 DEF ExitFlag, Service!Next, Service!Close
<1>3. CASE ScheduleWrite
  <2>1. accepted + 1 \in 1..MaxRequests
    BY <1>3, WorkerAssumption DEF ScheduleWrite, IInv, TypeOK
  <2> QED BY <1>3, <2>1 DEF ScheduleWrite, Service!Next, Service!Accept
<1>4. CASE ReadRequest
  <2>1. requests # <<>> /\ held = 0
    BY <1>4 DEF ReadRequest, IInv, ReadFindsRequest, HeldInHand
  <2> QED BY <1>4, <2>1 DEF ReadRequest, Service!Next, Service!Take, Service!Idle
<1>5. CASE SkipRequest
  <2>1. held = 0
    BY <1>5 DEF SkipRequest, IInv, HeldInHand
  <2> QED BY <1>5, <2>1 DEF SkipRequest, Service!Next, Service!Take, Service!Idle
<1>6. CASE Respond
  BY <1>6 DEF Respond, IInv, TypeOK, QueueIsRest, hist, Service!Next, Service!Reply, Service!Idle
<1>7. CASE WorkDone
  BY <1>7 DEF WorkDone, IInv, TypeOK, QueueIsRest, hist, Service!Next, Service!Finish, Service!Idle
<1>8. CASE EmitResponse
  BY <1>8 DEF EmitResponse, Service!Next, Service!Deliver
<1>9. CASE ThreadStops
  <2>1. state # "LAUNCHED"
    BY <1>9 DEF ThreadStops, IInv, TypeOK, LifeCycle
  <2> QED BY <1>9, <2>1 DEF ThreadStops, hist, Service!vars
<1>10. CASE \/ LaunchThread \/ LaunchFails \/ StartAudio \/ StopAudio
            \/ AudioStopped \/ ExitNothing \/ ExitWake \/ ExitJoin \/ Free
            \/ RestoreSchedule \/ RestoreLock \/ RestoreRespond
            \/ RestoreWorkDone \/ Freed
            \/ UNCHANGED vars
  BY <1>10, <1>0 DEF LaunchThread, LaunchFails, StartAudio, StopAudio,
     AudioStopped, ExitNothing, ExitWake, ExitJoin, Free, RestoreSchedule,
     RestoreLock, RestoreRespond, RestoreWorkDone, Freed, vars, wvars, hist
<1>11. CASE \/ BeginCycle \/ SchedulePost \/ FinishRun \/ EmitStateResponse
            \/ EndRun \/ WaitRequest \/ CheckExit \/ WorkLock
  BY <1>11, <1>0 DEF BeginCycle, SchedulePost, FinishRun, EmitStateResponse,
     EndRun, WaitRequest, CheckExit, WorkLock, wvars, hist
<1> QED BY <1>1, <1>2, <1>3, <1>4, <1>5, <1>6, <1>7, <1>8, <1>9, <1>10, <1>11
       DEF Next, Main, Audio, Worker

\* The safety part of the refinement, for every ring size and bound: the
\* worker implements the service of worker.h.
THEOREM WorkerImplementsService == SafeSpec => Service!SafeSpec
<1>1. Init => Service!Init
  BY DEF Init, Service!Init, Service!Idle
<1> QED BY <1>1, Inductive, StepService, PTL DEF SafeSpec, Service!SafeSpec
=============================================================================
