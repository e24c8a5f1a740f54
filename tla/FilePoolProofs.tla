---------------------------- MODULE FilePoolProofs ----------------------------
(***************************************************************************)
(* Proofs about FilePool, for any set of files and every bound.  A step is *)
(* looked at once for each part of the inductive invariant: the actions    *)
(* that change what the part speaks of have a step of their own.           *)
(***************************************************************************)
EXTENDS FilePool, FiniteSetTheorems, SequenceTheorems, TLAPS

\* The bounds are positive numbers.
LEMMA Bounds ==
  /\ Chunks \in Nat /\ Chunks > 0 /\ MaxReaders \in Nat /\ MaxReaders > 0
  /\ MaxVoices \in Nat /\ MaxVoices > 0 /\ Capacity \in Nat /\ Capacity > 0
  /\ MaxRequests \in Nat /\ MaxPosts \in Nat
BY FilePoolAssumption

\* The queue as a sequence, and what its oldest place holds.
LEMMA Queue ==
  ASSUME IInv
  PROVE  /\ Len(filesToLoad) \in Nat
         /\ \A k \in 1..Len(filesToLoad) : filesToLoad[k] \in Requests
         /\ \A r \in Requests :
              LET q == Append(filesToLoad, r) IN
              /\ q \in Seq(Requests) /\ Len(q) = Len(filesToLoad) + 1
              /\ \A k \in 1..Len(filesToLoad) : q[k] = filesToLoad[k]
              /\ q[Len(filesToLoad) + 1] = r
         /\ filesToLoad # <<>> =>
              LET q == Tail(filesToLoad) IN
              /\ Len(filesToLoad) > 0 /\ Head(filesToLoad) = filesToLoad[1]
              /\ q \in Seq(Requests) /\ Len(q) = Len(filesToLoad) - 1
              /\ \A k \in 1..Len(q) : q[k] = filesToLoad[k + 1]
<1>1. filesToLoad \in Seq(Requests)
  BY DEF IInv, TypeOK
<1>2. Len(filesToLoad) \in Nat /\ \A k \in 1..Len(filesToLoad) : filesToLoad[k] \in Requests
  BY <1>1, LenProperties, ElementOfSeq
<1>3. ASSUME NEW r \in Requests
      PROVE  LET q == Append(filesToLoad, r) IN
              /\ q \in Seq(Requests) /\ Len(q) = Len(filesToLoad) + 1
              /\ \A k \in 1..Len(filesToLoad) : q[k] = filesToLoad[k]
              /\ q[Len(filesToLoad) + 1] = r
  BY <1>1, AppendProperties
<1>4. ASSUME filesToLoad # <<>>
      PROVE  LET q == Tail(filesToLoad) IN
              /\ Len(filesToLoad) > 0 /\ Head(filesToLoad) = filesToLoad[1]
              /\ q \in Seq(Requests) /\ Len(q) = Len(filesToLoad) - 1
              /\ \A k \in 1..Len(q) : q[k] = filesToLoad[k + 1]
  BY <1>1, <1>2, <1>4, HeadTailProperties, EmptySeq
<1> QED BY <1>2, <1>3, <1>4

\* Where a job goes, and what it leaves alone.
LEMMA JobMoves ==
  ASSUME IInv, NEW r \in Requests, LoadingJob(r)
  PROVE  /\ at[r] \in InPool \ {"finished"} /\ at'[r] \in InPool
         /\ \A q \in Requests : q # r => at'[q] = at[q]
         /\ at' \in [Requests -> {"free", "queued"} \cup InPool]
         /\ JobFrame /\ UNCHANGED garbage
         /\ \A f \in Files : f # file[r] => /\ UNCHANGED <<status[f], available[f], filled[f]>>
                                            /\ f \in lastUsedFiles' <=> f \in lastUsedFiles
<1>0. at \in [Requests -> {"free", "queued"} \cup InPool] /\ file \in [Requests -> Files]
      /\ status \in [Files -> Statuses]
      /\ available \in [Files -> 0..Chunks] /\ filled \in [Files -> 0..Chunks]
  BY DEF IInv, TypeOK
<1> USE DEF InPool, Running, Reading, Writing, Job, used
<1>1. CASE JobStart(r)
  BY <1>0, <1>1 DEF JobStart, JobFails
<1>2. CASE JobStatus(r)
  BY <1>0, <1>2 DEF JobStatus
<1>3. CASE JobTake(r)
  BY <1>0, <1>3 DEF JobTake
<1>4. CASE JobMisses(r)
  BY <1>0, <1>4 DEF JobMisses
<1>5. CASE JobChunk(r)
  BY <1>0, <1>5 DEF JobChunk
<1>6. CASE JobPublish(r)
  BY <1>0, <1>6 DEF JobPublish
<1>7. CASE JobStreamed(r)
  BY <1>0, <1>7 DEF JobStreamed
<1>8. CASE JobList(r)
  BY <1>0, <1>8 DEF JobList
<1> QED BY <1>1, <1>2, <1>3, <1>4, <1>5, <1>6, <1>7, <1>8 DEF LoadingJob

\* What the queue is and who runs where, unless a job moves.
LEMMA DispatchMoves ==
  ASSUME IInv, DispatchLoad
  PROVE  /\ \/ filesToLoad = <<>> /\ filesToLoad' = <<>>
            \/ filesToLoad # <<>> /\ filesToLoad' = Tail(filesToLoad)
         /\ \A r \in Requests :
              \/ at'[r] = at[r] /\ (r \in expired' <=> r \in expired)
                 /\ (r \in loadingJobs' <=> r \in loadingJobs)
                 /\ ~(at[r] = "queued" /\ filesToLoad # <<>> /\ Head(filesToLoad) = r)
              \/ at[r] = "finished" /\ at'[r] = "free" /\ r \notin expired'
              \/ at[r] = "queued" /\ filesToLoad # <<>> /\ r = Head(filesToLoad)
                 /\ \/ at'[r] = "free" /\ r \in expired /\ r \notin expired'
                    \/ at'[r] = "pooled" /\ r \notin expired /\ r \notin expired'
                       /\ r \in loadingJobs'
         /\ at' \in [Requests -> {"free", "queued"} \cup InPool]
         /\ expired' \subseteq Requests /\ loadingJobs' \subseteq Requests
         /\ caller # "wait_jobs" /\ dispatcher = "lock" /\ dispatcher' = "wait"
         /\ UNCHANGED <<data, file, sync, used, main, collector>>
<1>0. /\ at \in [Requests -> {"free", "queued"} \cup InPool]
      /\ expired \subseteq Requests /\ loadingJobs \subseteq Requests
      /\ filesToLoad # <<>> => /\ Head(filesToLoad) \in Requests
                               /\ at[Head(filesToLoad)] = "queued"
  BY Queue DEF IInv, TypeOK, QueueAndJobs
<1>1. CASE filesToLoad = <<>>
  BY <1>0, <1>1 DEF DispatchLoad, Finished, InPool, LoadingLocked
<1>2. CASE filesToLoad # <<>>
  BY <1>0, <1>2 DEF DispatchLoad, Finished, InPool, LoadingLocked
<1> QED BY <1>1, <1>2

\* Only its own steps move a job that runs.
LEMMA RunningJobsStay ==
  ASSUME IInv,
         \/ \E f \in Files, q \in Requests : PushRequest(f, q)
         \/ WaitJobs \/ Clear \/ DispatchLoad,
         NEW r \in Requests, at[r] \in Running \/ at'[r] \in Running
  PROVE  at'[r] = at[r] /\ file'[r] = file[r]
<1>0. at \in [Requests -> {"free", "queued"} \cup InPool] /\ file \in [Requests -> Files]
  BY DEF IInv, TypeOK
<1> USE DEF InPool, Running, Reading, Writing
<1>1. ASSUME NEW f \in Files, NEW q \in Requests, PushRequest(f, q) PROVE at'[r] = at[r] /\ file'[r] = file[r]
  BY <1>0, <1>1 DEF PushRequest
<1>2. CASE WaitJobs
  BY <1>0, <1>2 DEF WaitJobs, Finished
<1>3. CASE Clear
  BY <1>0, <1>3 DEF Clear
<1>4. CASE DispatchLoad
  BY <1>0, <1>4, DispatchMoves
<1> QED BY <1>1, <1>2, <1>3, <1>4
-----------------------------------------------------------------------------
(* What a part of the invariant speaks of.                                 *)

LEMMA Frames ==
  /\ QueueAndJobs /\ UNCHANGED <<filesToLoad, at, loadingJobs, expired>> => QueueAndJobs'
  /\ RemovalIsSafe /\ UNCHANGED <<caller, todo, readers, at, file, expired>> => RemovalIsSafe'
  /\ DataIsThere /\ UNCHANGED <<readers, preloaded, caller, at, file, expired>> => DataIsThere'
  /\ AbsentIsFresh /\ UNCHANGED <<preloaded, status>> => AbsentIsFresh'
  /\ StreamingIsWritten /\ UNCHANGED <<status, at, file>> => StreamingIsWritten'
  /\ ChunksAnnounced /\ UNCHANGED <<available, filled, status, at, file>> => ChunksAnnounced'
  /\ CollectionIsAlone
       /\ UNCHANGED <<caller, from, status, preloaded, garbage, readers, available, filled, at, file>>
     => CollectionIsAlone'
  /\ EndsInOrder /\ UNCHANGED <<caller, collector, dispatcher, at, readers>> => EndsInOrder'
  /\ ReaderIsServed
       /\ UNCHANGED <<fullyLoaded, broken, readers, status, expired, at, file>> => ReaderIsServed'
  /\ PromiseIsPosted
       /\ UNCHANGED <<caller, request, preloaded, fullyLoaded, broken, readers, status, expired, at, file>>
     => PromiseIsPosted'
  /\ DoneIsListed /\ UNCHANGED <<preloaded, status, lastUsedFiles, at, file>> => DoneIsListed'
  /\ BarrierCovers /\ UNCHANGED <<dispatchFlag, filesToLoad, dispatchBarrier, dispatcher, caller>>
     => BarrierCovers'
<1>1. QueueAndJobs /\ UNCHANGED <<filesToLoad, at, loadingJobs, expired>> => QueueAndJobs'
  BY DEF QueueAndJobs
<1>2. RemovalIsSafe /\ UNCHANGED <<caller, todo, readers, at, file, expired>> => RemovalIsSafe'
  BY DEF RemovalIsSafe
<1>3. DataIsThere /\ UNCHANGED <<readers, preloaded, caller, at, file, expired>> => DataIsThere'
  BY DEF DataIsThere
<1>4. StreamingIsWritten /\ UNCHANGED <<status, at, file>> => StreamingIsWritten'
  BY DEF StreamingIsWritten
<1>5. ChunksAnnounced /\ UNCHANGED <<available, filled, status, at, file>> => ChunksAnnounced'
  BY DEF ChunksAnnounced
<1>6. CollectionIsAlone
       /\ UNCHANGED <<caller, from, status, preloaded, garbage, readers, available, filled, at, file>>
     => CollectionIsAlone'
  BY DEF CollectionIsAlone, ToBeListed
<1>7. EndsInOrder /\ UNCHANGED <<caller, collector, dispatcher, at, readers>> => EndsInOrder'
  BY DEF EndsInOrder
<1>8. ReaderIsServed
       /\ UNCHANGED <<fullyLoaded, broken, readers, status, expired, at, file>> => ReaderIsServed'
  BY DEF ReaderIsServed, Served
<1>9. PromiseIsPosted
       /\ UNCHANGED <<caller, request, preloaded, fullyLoaded, broken, readers, status, expired, at, file>>
     => PromiseIsPosted'
  BY DEF PromiseIsPosted, Served
<1>10. DoneIsListed /\ UNCHANGED <<preloaded, status, lastUsedFiles, at, file>> => DoneIsListed'
  BY DEF DoneIsListed, ToBeListed
<1>11. BarrierCovers /\ UNCHANGED <<dispatchFlag, filesToLoad, dispatchBarrier, dispatcher, caller>>
     => BarrierCovers'
  BY DEF BarrierCovers
<1>12. AbsentIsFresh /\ UNCHANGED <<preloaded, status>> => AbsentIsFresh'
  BY DEF AbsentIsFresh
<1> QED BY <1>1, <1>2, <1>3, <1>4, <1>5, <1>6, <1>7, <1>8, <1>9, <1>10, <1>11, <1>12

-----------------------------------------------------------------------------
(* One lemma for each part.                                                *)

\* Variables keep their types.
LEMMA StepTypes ==
  ASSUME IInv, Next
  PROVE  TypeOK'
<1>0. TypeOK
  BY DEF IInv
<1> USE Bounds DEF TypeOK, Statuses, data, kinds, calls, sync, used, main, Go
<1>1. ASSUME NEW f \in Files, NEW all \in BOOLEAN, Preload(f, all) PROVE TypeOK'
  BY <1>0, <1>1 DEF Preload
<1>2. ASSUME NEW f \in Files, PromiseShort(f) PROVE TypeOK'
  <2>1. readers[f] + 1 \in 0..MaxReaders
    BY <1>0, <1>2 DEF PromiseShort
  <2>2. readers' \in [Files -> 0..MaxReaders]
    BY <1>0, <1>2, <2>1 DEF PromiseShort
  <2> QED BY <1>0, <1>2, <2>2 DEF PromiseShort
<1>3. ASSUME NEW f \in Files, Release(f) PROVE TypeOK'
  <2>1. readers[f] - 1 \in 0..MaxReaders
    BY <1>0, <1>3 DEF Release
  <2>2. readers' \in [Files -> 0..MaxReaders]
    BY <1>0, <1>3, <2>1 DEF Release
  <2> QED BY <1>0, <1>3, <2>2 DEF Release
<1>4. ASSUME NEW f \in Files, NEW r \in Requests, PushRequest(f, r) PROVE TypeOK'
  <2>1. filesToLoad' \in Seq(Requests) /\ Len(filesToLoad') <= Capacity
    BY <1>4, Queue DEF PushRequest
  <2>2. file' \in [Requests -> Files] /\ at' \in [Requests -> {"free", "queued"} \cup InPool]
    BY <1>0, <1>4 DEF PushRequest
  <2> QED BY <1>0, <1>4, <2>1, <2>2 DEF PushRequest
<1>5. CASE GarbageLock \/ StopGarbage
  <2>1. CASE GarbageLock
    BY <1>0, <2>1 DEF GarbageLock
  <2>2. CASE StopGarbage
    <3>1. semGarbageBarrier' \in Nat
      BY <1>0, <2>2 DEF StopGarbage
    <3> QED BY <1>0, <2>2, <3>1 DEF StopGarbage
  <2> QED BY <1>5, <2>1, <2>2
<1>6. ASSUME NEW fs \in SUBSET preloaded, DeleteRegions(fs) PROVE TypeOK'
  BY <1>0, <1>6 DEF DeleteRegions
<1>7. CASE PostRequest
  <2>1. readers' \in [Files -> 0..MaxReaders]
    BY <1>0, <1>7 DEF PostRequest, IInv, PromiseIsPosted
  <2> QED BY <1>0, <1>7, <2>1 DEF PostRequest
<1>8. ASSUME NEW f \in todo, KeepFile(f) \/ DropFile(f) \/ MarkFile(f) PROVE TypeOK'
  <2>1. from' \in (Files \cup {None}) \X (Statuses \cup {None})
    <3>1. f \in Files /\ status[f] \in Statuses
      BY <1>0
    <3>2. from' = from \/ from' = <<f, status[f]>>
      BY <1>8 DEF KeepFile, DropFile, MarkFile, Visiting
    <3> QED BY <1>0, <3>1, <3>2
  <2> QED BY <1>0, <1>8, <2>1 DEF KeepFile, DropFile, MarkFile, Visiting
<1>9. CASE BeginCollect \/ UnlistFile
  <2>1. from' \in (Files \cup {None}) \X (Statuses \cup {None})
    <3>1. from' = from \/ from' = <<None, None>>
      BY <1>9 DEF BeginCollect, UnlistFile
    <3> QED BY <1>0, <3>1 DEF None
  <2>2. status' \in [Files -> Statuses]
    BY <1>0, <1>9 DEF BeginCollect, UnlistFile
  <2> QED BY <1>0, <1>9, <2>1, <2>2 DEF BeginCollect, UnlistFile
<1>10. CASE ClearAvailable
  <2>1. available' \in [Files -> 0..Chunks]
    <3>1. 0 \in 0..Chunks /\ available' = [available EXCEPT ![from[1]] = 0]
      BY <1>10 DEF ClearAvailable
    <3> QED BY <1>0, <3>1
  <2> QED BY <1>0, <1>10, <2>1 DEF ClearAvailable
<1>11. CASE MoveData
  <2>1. garbage' \in 0..MaxVoices
    BY <1>0, <1>11 DEF MoveData, IInv, CollectionIsAlone
  <2>2. filled' \in [Files -> 0..Chunks]
    <3>1. 0 \in 0..Chunks /\ filled' = [filled EXCEPT ![from[1]] = 0]
      BY <1>11 DEF MoveData
    <3> QED BY <1>0, <3>1
  <2> QED BY <1>0, <1>11, <2>1, <2>2 DEF MoveData
<1>12. CASE ReturnFile
  BY <1>0, <1>12 DEF ReturnFile
<1>13. CASE EndCollection
  BY <1>0, <1>13 DEF EndCollection
<1>14. CASE WaitLock \/ DispatchJoined \/ DispatchCheck
  BY <1>0, <1>14 DEF WaitLock, DispatchJoined, DispatchCheck
<1>15. CASE WaitJobs
  BY <1>0, <1>15 DEF WaitJobs, Finished
<1>16. CASE RemoveUnused \/ Destroyed
  <2>1. /\ status' \in [Files -> Statuses]
        /\ available' \in [Files -> 0..Chunks] /\ filled' \in [Files -> 0..Chunks]
    <3>1. 0 \in 0..Chunks /\ "Preloaded" \in Statuses
      BY DEF Statuses
    <3>2. \E fs : Erase(fs)
      BY <1>16 DEF RemoveUnused, Destroyed
    <3> QED BY <1>0, <3>1, <3>2 DEF Erase
  <2>2. preloaded' \subseteq Files /\ fullyLoaded' \subseteq preloaded' /\ todo' \subseteq Files
    BY <1>0, <1>16 DEF RemoveUnused, Destroyed, Erase
  <2>3. UNCHANGED <<broken, readers, calls, sync, used, request, from, dispatcher, collector>>
        /\ caller' \in {"idle", "destroyed"}
    BY <1>16 DEF RemoveUnused, Destroyed, Erase
  <2> QED BY <1>0, <2>1, <2>2, <2>3
<1>17. CASE Clear
  <2>1. filesToLoad' \in Seq(Requests) /\ Len(filesToLoad') <= Capacity
    BY <1>17, EmptySeq DEF Clear
  <2> QED BY <1>0, <1>17, <2>1 DEF Clear, Erase
<1>18. CASE StopDispatch
  <2>1. dispatchBarrier' \in Nat
    BY <1>0, <1>18 DEF StopDispatch
  <2> QED BY <1>0, <1>18, <2>1 DEF StopDispatch
<1>19. CASE DispatchWait
  BY <1>0, <1>19 DEF DispatchWait
<1>20. CASE DispatchLoad
  <2>1. filesToLoad' \in Seq(Requests) /\ Len(filesToLoad') <= Capacity
    <3>1. CASE filesToLoad' = filesToLoad
      BY <1>0, <3>1
    <3>2. CASE filesToLoad # <<>> /\ filesToLoad' = Tail(filesToLoad)
      BY <1>0, <3>2, Queue
    <3> QED BY <1>20, <3>1, <3>2, DispatchMoves
  <2> QED BY <1>0, <1>20, <2>1, DispatchMoves
<1>21. ASSUME NEW r \in Requests, LoadingJob(r) PROVE TypeOK'
  <2>1. /\ status' \in [Files -> Statuses]
        /\ lastUsedFiles' \subseteq Files
    BY <1>0, <1>21 DEF LoadingJob, JobStart, JobStatus, JobTake, JobMisses, JobChunk, JobPublish,
       JobStreamed, JobList
  <2>2. available' \in [Files -> 0..Chunks] /\ filled' \in [Files -> 0..Chunks]
    <3>0. /\ file[r] \in Files /\ filled[file[r]] \in 0..Chunks /\ available[file[r]] \in Nat
          /\ at[r] = "publish" => available[file[r]] + 1 = filled[file[r]]
      BY <1>0 DEF IInv, ChunksAnnounced
    <3>1. CASE JobChunk(r)
      <4>1. filled[file[r]] + 1 \in 0..Chunks
        BY <3>0, <3>1 DEF JobChunk
      <4> QED BY <1>0, <3>1, <4>1 DEF JobChunk
    <3>2. CASE JobPublish(r)
      <4>1. available[file[r]] + 1 \in 0..Chunks
        BY <3>0, <3>2 DEF JobPublish, Job
      <4> QED BY <1>0, <3>2, <4>1 DEF JobPublish
    <3>3. CASE JobTake(r)
      BY <1>0, <3>3 DEF JobTake
    <3>4. CASE JobStart(r) \/ JobStatus(r) \/ JobMisses(r) \/ JobStreamed(r) \/ JobList(r)
      BY <1>0, <3>4 DEF JobStart, JobStatus, JobMisses, JobStreamed, JobList
    <3> QED BY <1>21, <3>1, <3>2, <3>3, <3>4 DEF LoadingJob
  <2> QED BY <1>0, <1>21, <2>1, <2>2, JobMoves DEF JobFrame
<1>22. CASE Collector
  <2>1. semGarbageBarrier' \in Nat /\ garbage' \in 0..MaxVoices
        /\ collector' \in {"wait", "check", "lock", "ended"}
    BY <1>0, <1>22 DEF Collector, CollectorWait, CollectorCheck, CollectorClear, CollectorFrame
  <2>2. UNCHANGED <<data, calls, dispatchBarrier, dispatchFlag, garbageFlag, lastUsedFiles, main,
                    dispatcher>>
    BY <1>22 DEF Collector, CollectorWait, CollectorCheck, CollectorClear, CollectorFrame
  <2> QED BY <1>0, <2>1, <2>2
<1>23. CASE UNCHANGED vars
  BY <1>0, <1>23 DEF vars
<1> QED BY <1>1, <1>2, <1>3, <1>4, <1>5, <1>6, <1>7, <1>8, <1>9, <1>10, <1>11, <1>12, <1>13, <1>14,
           <1>15, <1>16, <1>17, <1>18, <1>19, <1>20, <1>21, <1>22, <1>23
        DEF Next, Calls, Caller, Visits, Dispatcher

\* The queue stays a queue of queued requests.
LEMMA StepQueue ==
  ASSUME IInv, Next
  PROVE  QueueAndJobs'
<1>0. /\ QueueAndJobs /\ at \in [Requests -> {"free", "queued"} \cup InPool]
      /\ expired \subseteq Requests
  BY DEF IInv, TypeOK
<1>1. ASSUME NEW f \in Files, NEW r \in Requests, PushRequest(f, r) PROVE QueueAndJobs'
  <2>1. /\ filesToLoad' = Append(filesToLoad, r) /\ at[r] = "free"
        /\ at'[r] = "queued" /\ \A q \in Requests : q # r => at'[q] = at[q]
        /\ UNCHANGED <<loadingJobs, expired>>
    BY <1>0, <1>1 DEF PushRequest
  <2>2. \A k \in 1..Len(filesToLoad) : filesToLoad[k] # r
    BY <1>0, <2>1 DEF QueueAndJobs
  <2>3. \A k \in 1..Len(filesToLoad') :
          /\ at'[filesToLoad'[k]] = "queued"
          /\ \A j \in 1..Len(filesToLoad') : filesToLoad'[j] = filesToLoad'[k] => j = k
    BY <1>0, <2>1, <2>2, Queue DEF QueueAndJobs
  <2>4. \A q \in Requests : /\ at'[q] \in InPool => q \in loadingJobs'
                            /\ q \in expired' => at'[q] # "free"
    BY <1>0, <2>1 DEF QueueAndJobs, InPool, Running, Reading, Writing
  <2> QED BY <2>3, <2>4 DEF QueueAndJobs
<1>2. ASSUME NEW fs \in SUBSET preloaded, DeleteRegions(fs) PROVE QueueAndJobs'
  <2>1. /\ UNCHANGED <<filesToLoad, at, loadingJobs>>
        /\ expired' = expired \cup {r \in Requests : at[r] # "free" /\ file[r] \in fs}
    BY <1>2 DEF DeleteRegions
  <2> QED BY <1>0, <2>1 DEF QueueAndJobs
<1>3. CASE WaitJobs
  <2>1. /\ UNCHANGED filesToLoad /\ loadingJobs' = {} /\ expired' = expired \ loadingJobs
        /\ \A r \in Requests : at'[r] = IF r \in loadingJobs THEN "free" ELSE at[r]
        /\ \A r \in loadingJobs : at[r] = "finished"
    BY <1>3 DEF WaitJobs, Finished
  <2>2. \A k \in 1..Len(filesToLoad) : at'[filesToLoad[k]] = "queued"
    BY <1>0, <2>1, Queue DEF QueueAndJobs
  <2>3. \A r \in Requests : at'[r] \notin InPool /\ (r \in expired' => at'[r] # "free")
    BY <1>0, <2>1 DEF QueueAndJobs, InPool, Running, Reading, Writing
  <2> QED BY <1>0, <2>1, <2>2, <2>3 DEF QueueAndJobs
<1>4. CASE Clear
  <2>1. /\ filesToLoad' = <<>> /\ UNCHANGED loadingJobs
        /\ expired' = {r \in expired : at[r] # "queued"}
        /\ \A r \in Requests : at'[r] = IF at[r] = "queued" THEN "free" ELSE at[r]
    BY <1>4 DEF Clear
  <2> QED BY <1>0, <2>1 DEF QueueAndJobs, InPool, Running, Reading, Writing
<1>5. CASE DispatchLoad
  <2>1. \A r \in Requests : /\ at'[r] \in InPool => r \in loadingJobs'
                            /\ r \in expired' => at'[r] # "free"
    BY <1>0, <1>5, DispatchMoves DEF QueueAndJobs, InPool, Running, Reading, Writing
  <2>2. CASE filesToLoad' = <<>>
    BY <2>1, <2>2 DEF QueueAndJobs
  <2>3. CASE filesToLoad # <<>> /\ filesToLoad' = Tail(filesToLoad)
    <3>1. \A k \in 1..Len(filesToLoad') :
            /\ filesToLoad'[k] = filesToLoad[k + 1]
            /\ k + 1 \in 1..Len(filesToLoad) /\ filesToLoad[k + 1] # Head(filesToLoad)
            /\ filesToLoad[k + 1] \in Requests /\ at[filesToLoad[k + 1]] = "queued"
      <4> TAKE k \in 1..Len(filesToLoad')
      <4>1. filesToLoad'[k] = filesToLoad[k + 1] /\ k + 1 \in 1..Len(filesToLoad)
        BY <2>3, Queue
      <4>2. Head(filesToLoad) = filesToLoad[1] /\ 1 \in 1..Len(filesToLoad) /\ k + 1 # 1
        BY <2>3, Queue
      <4> QED BY <1>0, <4>1, <4>2, Queue DEF QueueAndJobs
    <3>2. \A k \in 1..Len(filesToLoad') : at'[filesToLoad'[k]] = "queued"
      <4> TAKE k \in 1..Len(filesToLoad')
      <4> QED BY <1>5, <3>1, DispatchMoves
    <3>3. \A j, k \in 1..Len(filesToLoad') : filesToLoad'[j] = filesToLoad'[k] => j = k
      <4> TAKE j, k \in 1..Len(filesToLoad')
      <4>1. j \in Nat /\ k \in Nat /\ (filesToLoad[j + 1] = filesToLoad[k + 1] => j + 1 = k + 1)
        BY <1>0, <3>1 DEF QueueAndJobs
      <4> QED BY <3>1, <4>1
    <3> QED BY <2>1, <3>2, <3>3 DEF QueueAndJobs
  <2> QED BY <1>5, <2>2, <2>3, DispatchMoves
<1>6. ASSUME NEW r \in Requests, LoadingJob(r) PROVE QueueAndJobs'
  <2>1. /\ UNCHANGED <<filesToLoad, loadingJobs, expired>>
        /\ at[r] \in InPool /\ at'[r] \in InPool /\ at[r] # "free" /\ at'[r] # "free"
        /\ at[r] # "queued"
        /\ \A q \in Requests : q # r => at'[q] = at[q]
    BY <1>6, JobMoves DEF JobFrame, InPool, Running, Reading, Writing
  <2>2. \A k \in 1..Len(filesToLoad) : at'[filesToLoad[k]] = "queued"
    BY <1>0, <2>1, Queue DEF QueueAndJobs
  <2>3. \A q \in Requests : /\ at'[q] \in InPool => q \in loadingJobs
                            /\ q \in expired => at'[q] # "free"
    BY <1>0, <2>1 DEF QueueAndJobs
  <2> QED BY <1>0, <2>1, <2>2, <2>3 DEF QueueAndJobs
<1>7. ASSUME \/ \E f \in Files : \/ \E all \in BOOLEAN : Preload(f, all)
                                 \/ PromiseShort(f) \/ Release(f)
             \/ GarbageLock \/ StopGarbage \/ PostRequest \/ Visits \/ WaitLock \/ RemoveUnused
             \/ StopDispatch \/ DispatchJoined \/ Destroyed \/ DispatchWait \/ DispatchCheck
             \/ Collector \/ UNCHANGED vars
      PROVE  QueueAndJobs'
  <2>1. UNCHANGED <<filesToLoad, at, loadingJobs, expired>>
    BY <1>7 DEF Preload, PromiseShort, Release, GarbageLock, StopGarbage, PostRequest, Visits, KeepFile,
       DropFile, MarkFile, Visiting, BeginCollect, ClearAvailable, MoveData, ReturnFile, UnlistFile,
       EndCollection, WaitLock, RemoveUnused, StopDispatch, DispatchJoined, Destroyed, DispatchWait,
       DispatchCheck, Collector, CollectorWait, CollectorCheck, CollectorClear, CollectorFrame, vars, calls
  <2> QED BY <1>0, <2>1, Frames
<1> QED BY <1>1, <1>2, <1>3, <1>4, <1>5, <1>6, <1>7 DEF Next, Calls, Caller, Dispatcher

\* Files are removed when nobody uses them and nobody will.
LEMMA StepRemoval ==
  ASSUME IInv, Next
  PROVE  RemovalIsSafe'
<1>0. /\ RemovalIsSafe /\ QueueAndJobs /\ at \in [Requests -> {"free", "queued"} \cup InPool]
      /\ file \in [Requests -> Files] /\ todo \subseteq Files
  BY DEF IInv, TypeOK
<1>1. ASSUME NEW fs \in SUBSET preloaded, DeleteRegions(fs) PROVE RemovalIsSafe'
  <2>1. /\ caller' = "wait_lock" /\ todo' = fs /\ UNCHANGED <<readers, at, file>>
        /\ \A f \in fs : readers[f] = 0
        /\ \A r \in Requests : at[r] # "free" /\ file[r] \in fs => r \in expired'
    BY <1>1 DEF DeleteRegions, data, Go
  <2> QED BY <2>1 DEF RemovalIsSafe
<1>2. CASE WaitLock
  BY <1>0, <1>2 DEF WaitLock, RemovalIsSafe, Go, data, calls
<1>3. CASE WaitJobs
  <2>1. /\ caller = "wait_jobs" /\ caller' = "remove" /\ UNCHANGED <<todo, readers, file>>
        /\ \A r \in Requests : /\ r \in loadingJobs => at'[r] = "free"
                               /\ r \notin loadingJobs => at'[r] = at[r] /\ (r \in expired' <=> r \in expired)
    BY <1>0, <1>3 DEF WaitJobs, Go, data
  <2>2. \A r \in Requests : r \notin loadingJobs => at[r] \in {"free", "queued"}
    BY <1>0 DEF QueueAndJobs
  <2> QED BY <1>0, <2>1, <2>2 DEF RemovalIsSafe
<1>4. CASE DispatchLoad
  <2>1. UNCHANGED <<caller, todo, readers, file>>
    BY <1>4, DispatchMoves DEF main, data
  <2>2. ASSUME caller \in {"wait_lock", "wait_jobs", "remove"}, NEW f \in todo,
               NEW r \in Requests, at'[r] # "free", file[r] = f
        PROVE  r \in expired' /\ (caller = "remove" => at'[r] = "queued")
    <3>1. at[r] # "free" => r \in expired /\ (caller = "remove" => at[r] = "queued")
      BY <1>0, <2>2 DEF RemovalIsSafe
    <3>2. at'[r] = at[r] /\ (r \in expired' <=> r \in expired)
      BY <1>4, <2>2, <3>1, DispatchMoves
    <3> QED BY <2>2, <3>1, <3>2
  <2> QED BY <1>0, <2>1, <2>2 DEF RemovalIsSafe
<1>5. ASSUME NEW r \in Requests, LoadingJob(r) PROVE RemovalIsSafe'
  <2>1. /\ UNCHANGED <<caller, todo, readers, file, expired>>
        /\ at[r] # "free" /\ at'[r] # "free" /\ at[r] # "queued"
        /\ \A q \in Requests : q # r => at'[q] = at[q]
    BY <1>5, JobMoves DEF JobFrame, InPool, Running, Reading, Writing, main
  <2> QED BY <1>0, <2>1 DEF RemovalIsSafe
<1>6. CASE DispatchWait \/ DispatchCheck \/ Collector \/ UNCHANGED vars
  <2>1. UNCHANGED <<caller, todo, readers, at, file, expired>>
    BY <1>6 DEF DispatchWait, DispatchCheck, Collector, CollectorWait, CollectorCheck, CollectorClear,
       CollectorFrame, vars, calls, main, data
  <2> QED BY <1>0, <2>1, Frames
<1>7. ASSUME \/ \E f \in Files : \/ \E all \in BOOLEAN : Preload(f, all)
                                 \/ PromiseShort(f) \/ Release(f)
                                 \/ \E r \in Requests : PushRequest(f, r)
             \/ GarbageLock \/ StopGarbage \/ PostRequest \/ Visits \/ RemoveUnused \/ Clear
             \/ StopDispatch \/ DispatchJoined \/ Destroyed
      PROVE  RemovalIsSafe'
  <2>1. caller' \notin {"wait_lock", "wait_jobs", "remove"}
    BY <1>7 DEF Preload, PromiseShort, Release, PushRequest, GarbageLock, StopGarbage, PostRequest, Visits,
       KeepFile, DropFile, MarkFile, Visiting, BeginCollect, ClearAvailable, MoveData, ReturnFile,
       UnlistFile, EndCollection, RemoveUnused, Clear, StopDispatch, DispatchJoined, Destroyed, main, Go
  <2> QED BY <2>1 DEF RemovalIsSafe
<1> QED BY <1>1, <1>2, <1>3, <1>4, <1>5, <1>6, <1>7 DEF Next, Calls, Caller, Dispatcher

\* Removing files: those that stay keep what they have.
LEMMA Erased ==
  ASSUME NEW fs, Erase(fs), TypeOK
  PROVE  /\ preloaded' = preloaded \ fs /\ fullyLoaded' = fullyLoaded \ fs
         /\ UNCHANGED <<broken, readers>>
         /\ \A f \in Files :
              /\ f \in fs => status'[f] = "Preloaded" /\ available'[f] = 0 /\ filled'[f] = 0
              /\ f \notin fs => UNCHANGED <<status[f], available[f], filled[f]>>
BY DEF Erase, TypeOK

\* Whoever needs a file's data has them.
LEMMA StepData ==
  ASSUME IInv, Next
  PROVE  DataIsThere'
<1>0. /\ DataIsThere /\ RemovalIsSafe /\ PromiseIsPosted /\ TypeOK /\ QueueAndJobs
      /\ at \in [Requests -> {"free", "queued"} \cup InPool]
      /\ file \in [Requests -> Files] /\ readers \in [Files -> 0..MaxReaders]
      /\ caller # "destroyed" \/ UNCHANGED vars \/ Collector
  <2>1. /\ DataIsThere /\ RemovalIsSafe /\ PromiseIsPosted /\ TypeOK /\ QueueAndJobs
        /\ at \in [Requests -> {"free", "queued"} \cup InPool]
        /\ file \in [Requests -> Files] /\ readers \in [Files -> 0..MaxReaders]
    BY DEF IInv, TypeOK
  <2>2. ASSUME caller = "destroyed" PROVE UNCHANGED vars \/ Collector
    <3>1. ~Calls /\ ~Caller
      BY <2>2 DEF Calls, Preload, PromiseShort, Release, PushRequest, GarbageLock, StopGarbage,
         DeleteRegions, Caller, PostRequest, Visits, KeepFile, DropFile, MarkFile, Visiting,
         BeginCollect, ClearAvailable, MoveData, ReturnFile, UnlistFile, EndCollection, WaitLock,
         WaitJobs, RemoveUnused, Clear, StopDispatch, DispatchJoined, Destroyed, Go
    <3>2. dispatcher = "ended" /\ \A r \in Requests : at[r] \in InPool => at[r] = "finished"
      BY <2>2 DEF IInv, EndsInOrder
    <3>3. ~Dispatcher
      BY <3>2 DEF Dispatcher, DispatchWait, DispatchCheck, DispatchLoad
    <3>4. \A r \in Requests : ~LoadingJob(r)
      BY <3>2, JobMoves
    <3> QED BY <3>1, <3>3, <3>4 DEF Next
  <2> QED BY <2>1, <2>2
<1> USE DEF InPool, Running, Reading, Writing
<1>1. ASSUME NEW f \in Files, NEW all \in BOOLEAN, Preload(f, all) PROVE DataIsThere'
  BY <1>0, <1>1 DEF Preload, DataIsThere, calls, main
<1>2. ASSUME NEW f \in Files, PromiseShort(f) \/ Release(f) PROVE DataIsThere'
  <2>1. \A g \in Files : readers'[g] > 0 => g \in preloaded
    BY <1>0, <1>2, Bounds DEF PromiseShort, Release, DataIsThere
  <2> QED BY <1>0, <1>2, <2>1 DEF PromiseShort, Release, DataIsThere, calls, main, kinds
<1>3. ASSUME NEW f \in Files, NEW r \in Requests, PushRequest(f, r) PROVE DataIsThere'
  BY <1>0, <1>3 DEF PushRequest, DataIsThere, data, kinds, Go
<1>4. ASSUME NEW fs \in SUBSET preloaded, DeleteRegions(fs) PROVE DataIsThere'
  BY <1>0, <1>4 DEF DeleteRegions, DataIsThere, data, kinds, Go
<1>5. CASE PostRequest
  <2>1. \A g \in Files : readers'[g] > 0 => g \in preloaded
    BY <1>0, <1>5 DEF PostRequest, PromiseIsPosted, DataIsThere, Go
  <2> QED BY <1>0, <1>5, <2>1 DEF PostRequest, DataIsThere, Go, kinds, calls
<1>6. CASE WaitJobs
  <2>1. /\ caller' = "remove" /\ UNCHANGED <<preloaded, readers, file>>
        /\ \A r \in Requests : /\ r \in loadingJobs => at'[r] = "free"
                               /\ r \notin loadingJobs => at'[r] = at[r] /\ (r \in expired' <=> r \in expired)
    BY <1>0, <1>6 DEF WaitJobs, Go, data, kinds
  <2> QED BY <1>0, <1>6, <2>1 DEF DataIsThere, WaitJobs, Go
<1>7. CASE RemoveUnused
  <2>1. /\ caller = "remove" /\ caller' = "idle" /\ UNCHANGED <<at, file, expired>>
        /\ Erase(todo) /\ preloaded' = preloaded \ todo /\ UNCHANGED readers
    BY <1>0, <1>7, Erased DEF RemoveUnused, Go, calls
  <2> QED BY <1>0, <2>1 DEF DataIsThere, RemovalIsSafe
<1>8. CASE Clear
  <2>1. /\ caller = "remove" /\ caller' = "idle" /\ todo = preloaded
        /\ UNCHANGED <<file, readers>>
        /\ \A r \in Requests : at'[r] = IF at[r] = "queued" THEN "free" ELSE at[r]
    BY <1>0, <1>8, Erased DEF Clear, Go
  <2>2. \A g \in Files : readers[g] = 0
    BY <1>0, <2>1 DEF DataIsThere, RemovalIsSafe
  <2>3. \A r \in Requests : at[r] \notin InPool
    BY <1>0, <2>1 DEF DataIsThere, RemovalIsSafe
  <2> QED BY <1>0, <2>1, <2>2, <2>3 DEF DataIsThere
<1>9. CASE Destroyed
  <2>1. caller' = "destroyed" /\ UNCHANGED readers
    BY <1>0, <1>9, Erased DEF Destroyed, Go
  <2>2. \A g \in Files : readers[g] = 0
    BY <1>0, <1>9 DEF Destroyed, IInv, EndsInOrder, Go
  <2> QED BY <2>1, <2>2 DEF DataIsThere
<1>10. CASE DispatchLoad
  <2>1. UNCHANGED <<caller, preloaded, readers, file>>
    BY <1>10, DispatchMoves DEF main, data, kinds
  <2>2. \A r \in Requests : at'[r] \in InPool \/ (at'[r] = "queued" /\ r \notin expired')
                            => at[r] \in InPool \/ (at[r] = "queued" /\ r \notin expired)
    <3> TAKE r \in Requests
    <3> QED BY <1>10, DispatchMoves
  <2> QED BY <1>0, <2>1, <2>2 DEF DataIsThere
<1>11. ASSUME NEW r \in Requests, LoadingJob(r) PROVE DataIsThere'
  <2>1. /\ UNCHANGED <<caller, preloaded, readers, file, expired>>
        /\ at[r] \in InPool
        /\ \A q \in Requests : q # r => at'[q] = at[q]
    BY <1>11, JobMoves DEF JobFrame, main, kinds
  <2> QED BY <1>0, <2>1 DEF DataIsThere
<1>12. CASE DispatchWait \/ DispatchCheck \/ Collector \/ UNCHANGED vars
  <2>1. UNCHANGED <<readers, preloaded, caller, at, file, expired>>
    BY <1>12 DEF DispatchWait, DispatchCheck, Collector, CollectorWait, CollectorCheck, CollectorClear,
       CollectorFrame, vars, calls, main, data, kinds
  <2> QED BY <1>0, <2>1, Frames
<1>13. CASE GarbageLock \/ StopGarbage \/ Visits \/ WaitLock \/ StopDispatch \/ DispatchJoined
  <2>1. UNCHANGED <<readers, preloaded, at, file, expired>> /\ caller # "destroyed"
    BY <1>13 DEF GarbageLock, StopGarbage, Visits, KeepFile, DropFile, MarkFile, Visiting, BeginCollect,
       ClearAvailable, MoveData, ReturnFile, UnlistFile, EndCollection, WaitLock, StopDispatch,
       DispatchJoined, Go, data, kinds, calls
  <2> QED BY <1>0, <2>1 DEF DataIsThere
<1> QED BY <1>1, <1>2, <1>3, <1>4, <1>5, <1>6, <1>7, <1>8, <1>9, <1>10, <1>11, <1>12, <1>13
        DEF Next, Calls, Caller, Dispatcher

\* The destructor joins the collector, then the dispatcher, then the jobs.
LEMMA StepEnds ==
  ASSUME IInv, Next
  PROVE  EndsInOrder'
<1>0. EndsInOrder /\ TypeOK /\ QueueAndJobs
  BY DEF IInv
<1>1. CASE Calls
  <2>1. caller = "idle"
    BY <1>1 DEF Calls, Preload, PromiseShort, Release, PushRequest, GarbageLock, StopGarbage,
       DeleteRegions, Go
  <2>2. \/ caller' \in {"idle", "post", "visit", "wait_lock"}
        \/ caller' = "join_garbage" /\ \A f \in Files : readers'[f] = 0
    BY <1>1, <2>1 DEF Calls, Preload, PromiseShort, Release, PushRequest, GarbageLock, StopGarbage,
       DeleteRegions, Go, main, data
  <2> QED BY <2>2 DEF EndsInOrder
<1>2. CASE PostRequest \/ Visits \/ WaitLock \/ WaitJobs \/ RemoveUnused \/ Clear
  <2>1. caller' \in {"idle", "visit", "collect", "empty", "move", "return", "unlist", "wait_jobs", "remove"}
    BY <1>2 DEF PostRequest, Visits, KeepFile, DropFile, MarkFile, Visiting, BeginCollect, ClearAvailable,
       MoveData, ReturnFile, UnlistFile, EndCollection, WaitLock, WaitJobs, RemoveUnused, Clear, Go
  <2> QED BY <2>1 DEF EndsInOrder
<1>3. CASE StopDispatch \/ DispatchJoined
  BY <1>0, <1>3 DEF StopDispatch, DispatchJoined, EndsInOrder, Go, data, calls
<1>4. CASE Destroyed
  <2>1. \A r \in Requests : at[r] \in InPool => at[r] = "finished"
    BY <1>0, <1>4 DEF Destroyed, Finished, QueueAndJobs
  <2> QED BY <1>0, <1>4, <2>1, Erased DEF Destroyed, EndsInOrder, Go, calls
<1>5. CASE Dispatcher
  <2>1. caller \notin {"join_jobs", "destroyed"} /\ UNCHANGED <<caller, collector, readers>>
    BY <1>0, <1>5 DEF Dispatcher, DispatchWait, DispatchCheck, DispatchLoad, EndsInOrder, main, data
  <2> QED BY <1>0, <2>1 DEF EndsInOrder
<1>6. CASE Collector
  <2>1. caller \notin {"join_dispatch", "join_jobs", "destroyed"} /\ UNCHANGED <<caller, readers>>
    BY <1>0, <1>6 DEF Collector, CollectorWait, CollectorCheck, CollectorClear, CollectorFrame,
       EndsInOrder, main, data
  <2> QED BY <1>0, <2>1 DEF EndsInOrder
<1>7. ASSUME NEW r \in Requests, LoadingJob(r) PROVE EndsInOrder'
  <2>1. caller # "destroyed" /\ UNCHANGED <<caller, collector, dispatcher, readers>>
    BY <1>0, <1>7, JobMoves DEF EndsInOrder, JobFrame, main
  <2> QED BY <1>0, <2>1 DEF EndsInOrder
<1>8. CASE UNCHANGED vars
  BY <1>0, <1>8, Frames DEF vars, main, calls, data
<1> QED BY <1>1, <1>2, <1>3, <1>4, <1>5, <1>6, <1>7, <1>8 DEF Next, Caller

\* A load goes on until the file streams.
LEMMA ServedStays ==
  ASSUME IInv, NEW f \in Files, f \notin broken, Served(f),
         DispatchLoad \/ \E r \in Requests : LoadingJob(r)
  PROVE  Served(f)'
<1>0. /\ at \in [Requests -> {"free", "queued"} \cup InPool] /\ file \in [Requests -> Files]
      /\ status \in [Files -> Statuses]
  BY DEF IInv, TypeOK
<1> USE DEF InPool, Running, Reading, Writing, Statuses
<1>1. CASE DispatchLoad
  <2>1. UNCHANGED <<status, file>>
    BY <1>1, DispatchMoves DEF data
  <2>2. ASSUME NEW r \in Requests, r \notin expired, at[r] \in {"queued", "pooled", "status", "cas"}
        PROVE  r \notin expired' /\ at'[r] \in {"queued", "pooled", "status", "cas"}
    BY <1>1, <2>2, DispatchMoves
  <2> QED BY <2>1, <2>2 DEF Served
<1>2. ASSUME NEW r \in Requests, LoadingJob(r) PROVE Served(f)'
  <2>1. /\ UNCHANGED <<file, expired>>
        /\ \A q \in Requests : q # r => at'[q] = at[q]
        /\ f # file[r] => status'[f] = status[f]
    BY <1>2, JobMoves DEF JobFrame
  <2>2. CASE f # file[r]
    BY <2>1, <2>2 DEF Served
  <2>3. CASE f = file[r]
    <3>1. CASE JobStart(r)
      BY <1>0, <2>1, <2>3, <3>1 DEF JobStart, JobFails, Job, Served
    <3>2. CASE JobStatus(r)
      BY <1>0, <2>1, <2>3, <3>2 DEF JobStatus, Job, Served
    <3>3. CASE JobTake(r) \/ JobStreamed(r)
      BY <1>0, <2>3, <3>3 DEF JobTake, JobStreamed, Served
    <3>4. CASE JobMisses(r)
      BY <1>0, <2>1, <2>3, <3>4 DEF JobMisses, Job, Served
    <3>5. CASE JobChunk(r) \/ JobPublish(r) \/ JobList(r)
      <4>1. UNCHANGED status /\ at[r] \in {"chunk", "publish", "done"}
        BY <3>5 DEF JobChunk, JobPublish, JobList, Job
      <4> QED BY <2>1, <4>1 DEF Served
    <3> QED BY <1>2, <3>1, <3>2, <3>3, <3>4, <3>5 DEF LoadingJob
  <2> QED BY <2>2, <2>3
<1> QED BY <1>1, <1>2

\* The caller's request is there and served until its reader is counted.
LEMMA StepPromise ==
  ASSUME IInv, Next
  PROVE  PromiseIsPosted'
<1>0. /\ PromiseIsPosted /\ TypeOK /\ QueueAndJobs
      /\ at \in [Requests -> {"free", "queued"} \cup InPool] /\ file \in [Requests -> Files]
  BY DEF IInv, TypeOK
<1>1. ASSUME NEW f \in Files, NEW r \in Requests, PushRequest(f, r) PROVE PromiseIsPosted'
  <2>1. /\ request' = r /\ file'[r] = f /\ at'[r] = "queued" /\ f \in preloaded
        /\ readers[f] < MaxReaders /\ r \notin expired
        /\ UNCHANGED <<preloaded, fullyLoaded, broken, readers, status, expired>>
    BY <1>0, <1>1 DEF PushRequest, QueueAndJobs, data, kinds
  <2> QED BY <2>1 DEF PromiseIsPosted, Served
<1>2. ASSUME DispatchLoad \/ \E r \in Requests : LoadingJob(r) PROVE PromiseIsPosted'
  <2>1. UNCHANGED <<caller, request, file, preloaded, fullyLoaded, broken, readers>>
    BY <1>2, DispatchMoves, JobMoves DEF JobFrame, main, data, kinds
  <2>2. ASSUME caller = "post", file[request] \notin fullyLoaded \cup broken PROVE Served(file[request])'
    <3>1. file[request] \in Files /\ Served(file[request]) /\ file'[request'] = file[request]
      BY <1>0, <2>1, <2>2 DEF PromiseIsPosted
    <3>2. ASSUME NEW f \in Files, f = file[request] PROVE Served(f)'
      BY <1>2, <2>2, <3>1, <3>2, ServedStays
    <3> QED BY <2>1, <3>1, <3>2 DEF Served
  <2> QED BY <1>0, <2>1, <2>2 DEF PromiseIsPosted, Served
<1>3. CASE DispatchWait \/ DispatchCheck \/ Collector \/ UNCHANGED vars
  <2>1. UNCHANGED <<caller, request, preloaded, fullyLoaded, broken, readers, status, expired, at, file>>
    BY <1>3 DEF DispatchWait, DispatchCheck, Collector, CollectorWait, CollectorCheck, CollectorClear,
       CollectorFrame, vars, calls, main, data, kinds
  <2> QED BY <1>0, <2>1, Frames
<1>4. ASSUME \/ \E f \in Files : \/ \E all \in BOOLEAN : Preload(f, all)
                                 \/ PromiseShort(f) \/ Release(f)
             \/ GarbageLock \/ StopGarbage \/ (\E fs \in SUBSET preloaded : DeleteRegions(fs)) \/ Caller
      PROVE  PromiseIsPosted'
  <2>1. caller' # "post"
    BY <1>4 DEF Preload, PromiseShort, Release, GarbageLock, StopGarbage, DeleteRegions, Caller,
       PostRequest, Visits, KeepFile, DropFile, MarkFile, Visiting, BeginCollect, ClearAvailable, MoveData,
       ReturnFile, UnlistFile, EndCollection, WaitLock, WaitJobs, RemoveUnused, Clear, StopDispatch,
       DispatchJoined, Destroyed, main, Go
  <2> QED BY <2>1 DEF PromiseIsPosted
<1> QED BY <1>1, <1>2, <1>3, <1>4 DEF Next, Calls, Dispatcher

\* The jobs that write a file before and after a step that leaves running
\* jobs and the status of files alone.
LEMMA WritersFrame ==
  ASSUME StreamingIsWritten, ChunksAnnounced, UNCHANGED <<status, available, filled>>,
         \A r \in Requests : at[r] \in Running \/ at'[r] \in Running
                               => at'[r] = at[r] /\ file'[r] = file[r]
  PROVE  StreamingIsWritten' /\ ChunksAnnounced' /\ \A f \in Files : ToBeListed(f) <=> ToBeListed(f)'
<1>1. \A r \in Requests : /\ at'[r] \in Writing <=> at[r] \in Writing
                          /\ at[r] \in Writing \/ at[r] = "done" \/ at'[r] = "done"
                               => at'[r] = at[r] /\ file'[r] = file[r]
  BY DEF Running, Reading, Writing
<1>2. StreamingIsWritten'
  BY <1>1 DEF StreamingIsWritten
<1>3. ChunksAnnounced'
  BY <1>1 DEF ChunksAnnounced, Writing
<1>4. \A f \in Files : ToBeListed(f) <=> ToBeListed(f)'
  BY <1>1 DEF ToBeListed
<1> QED BY <1>2, <1>3, <1>4

\* The steps that touch neither the status nor the chunks nor running jobs.
LEMMA NoJobRuns ==
  ASSUME IInv,
         \/ Calls \/ DispatchWait \/ DispatchCheck \/ DispatchLoad \/ Collector \/ UNCHANGED vars
         \/ PostRequest \/ (\E f \in todo : KeepFile(f) \/ DropFile(f) \/ MarkFile(f))
         \/ UnlistFile \/ EndCollection \/ WaitLock \/ WaitJobs \/ StopDispatch \/ DispatchJoined
  PROVE  /\ UNCHANGED <<status, available, filled>>
         /\ \A r \in Requests : at[r] \in Running \/ at'[r] \in Running
                                  => at'[r] = at[r] /\ file'[r] = file[r]
<1>1. CASE \/ \E f \in Files, q \in Requests : PushRequest(f, q)
           \/ WaitJobs \/ DispatchLoad
  BY <1>1, RunningJobsStay, DispatchMoves DEF PushRequest, WaitJobs, data
<1>2. ASSUME \/ \E f \in Files : \/ \E all \in BOOLEAN : Preload(f, all)
                                 \/ PromiseShort(f) \/ Release(f)
             \/ GarbageLock \/ StopGarbage \/ \E fs \in SUBSET preloaded : DeleteRegions(fs)
             \/ DispatchWait \/ DispatchCheck \/ Collector \/ UNCHANGED vars
             \/ PostRequest \/ (\E f \in todo : KeepFile(f) \/ DropFile(f) \/ MarkFile(f))
             \/ UnlistFile \/ EndCollection \/ WaitLock \/ StopDispatch \/ DispatchJoined
      PROVE  UNCHANGED <<status, available, filled, at, file>>
  BY <1>2 DEF Preload, PromiseShort, Release, GarbageLock, StopGarbage, DeleteRegions, DispatchWait,
     DispatchCheck, Collector, CollectorWait, CollectorCheck, CollectorClear, CollectorFrame, vars,
     PostRequest, KeepFile, DropFile, MarkFile, Visiting, UnlistFile, EndCollection, WaitLock,
     StopDispatch, DispatchJoined, calls, data
<1> QED BY <1>1, <1>2 DEF Calls

\* A file streams while one job writes it.
LEMMA StepStreaming ==
  ASSUME IInv, Next
  PROVE  StreamingIsWritten'
<1>0. /\ StreamingIsWritten /\ CollectionIsAlone /\ RemovalIsSafe /\ TypeOK /\ DataIsThere
      /\ QueueAndJobs /\ ChunksAnnounced
      /\ at \in [Requests -> {"free", "queued"} \cup InPool] /\ file \in [Requests -> Files]
      /\ status \in [Files -> Statuses]
  BY DEF IInv, TypeOK
<1> USE DEF InPool, Running, Reading, Writing, Statuses
<1>1. CASE BeginCollect
  <2>1. UNCHANGED <<at, file>> /\ \A f \in Files : status'[f] = "Streaming" <=> status[f] = "Streaming"
    BY <1>0, <1>1 DEF BeginCollect, CollectionIsAlone, calls
  <2> QED BY <1>0, <2>1 DEF StreamingIsWritten
<1>2. CASE ReturnFile
  <2>1. UNCHANGED <<at, file>> /\ \A f \in Files : status'[f] = "Streaming" <=> status[f] = "Streaming"
    BY <1>0, <1>2 DEF ReturnFile, CollectionIsAlone, calls, Go
  <2> QED BY <1>0, <2>1 DEF StreamingIsWritten
<1>3. CASE RemoveUnused
  <2>1. UNCHANGED <<at, file>> /\ Erase(todo) /\ caller = "remove"
    BY <1>3 DEF RemoveUnused, calls, Go
  <2>2. \A r \in Requests : file[r] \in todo => at[r] \notin Writing
    BY <1>0, <2>1 DEF RemovalIsSafe
  <2>3. \A f \in Files : status'[f] = "Streaming" <=> status[f] = "Streaming" /\ f \notin todo
    BY <1>0, <2>1, Erased
  <2>4. \A f \in todo : status[f] # "Streaming"
    BY <1>0, <2>2 DEF StreamingIsWritten, TypeOK
  <2> QED BY <1>0, <2>1, <2>3, <2>4 DEF StreamingIsWritten, TypeOK
<1>4. CASE Clear
  <2>1. /\ UNCHANGED file /\ Erase(preloaded) /\ caller = "remove" /\ todo = preloaded
        /\ \A r \in Requests : at'[r] = IF at[r] = "queued" THEN "free" ELSE at[r]
    BY <1>4 DEF Clear, Go
  <2>2. \A r \in Requests : at[r] \notin InPool
    BY <1>0, <2>1 DEF RemovalIsSafe, DataIsThere
  <2>3. \A f \in Files : status[f] # "Streaming"
    BY <1>0, <2>2 DEF StreamingIsWritten
  <2>4. \A f \in Files : status'[f] # "Streaming"
    BY <1>0, <2>1, <2>3, Erased
  <2>5. \A r \in Requests : at'[r] \notin Writing
    BY <1>0, <2>1, <2>2
  <2> QED BY <2>4, <2>5 DEF StreamingIsWritten
<1>5. CASE Destroyed
  <2>1. UNCHANGED <<at, file>> /\ Erase(preloaded) /\ loadingJobs = Finished
    BY <1>5 DEF Destroyed, calls, Go
  <2>2. \A r \in Requests : at[r] \notin Writing
    BY <1>0, <2>1 DEF Finished, QueueAndJobs
  <2>3. \A f \in Files : status[f] # "Streaming"
    BY <1>0, <2>2 DEF StreamingIsWritten
  <2>4. \A f \in Files : status'[f] # "Streaming"
    BY <1>0, <2>1, <2>3, Erased
  <2> QED BY <2>1, <2>2, <2>4 DEF StreamingIsWritten
<1>6. CASE ClearAvailable \/ MoveData
  <2>1. UNCHANGED <<status, at, file>>
    BY <1>6 DEF ClearAvailable, MoveData, calls
  <2> QED BY <1>0, <2>1, Frames
<1>7. ASSUME NEW r \in Requests, JobTake(r) PROVE StreamingIsWritten'
  <2>1. /\ status[file[r]] = "Preloaded" /\ UNCHANGED file /\ file[r] \in Files
        /\ \A f \in Files : status'[f] = IF f = file[r] THEN "Streaming" ELSE status[f]
        /\ \A q \in Requests : at'[q] = IF q = r THEN "chunk" ELSE at[q]
    BY <1>0, <1>7 DEF JobTake, Job, JobFrame
  <2>2. \A q \in Requests : at[q] \in Writing => file[q] # file[r]
    BY <1>0, <2>1 DEF StreamingIsWritten
  <2> QED BY <1>0, <2>1, <2>2 DEF StreamingIsWritten
<1>8. ASSUME NEW r \in Requests, JobStreamed(r) PROVE StreamingIsWritten'
  <2>1. /\ at[r] = "chunk" /\ UNCHANGED file /\ file[r] \in Files
        /\ \A f \in Files : status'[f] = IF f = file[r] THEN "Done" ELSE status[f]
        /\ \A q \in Requests : at'[q] = IF q = r THEN "done" ELSE at[q]
    BY <1>0, <1>8 DEF JobStreamed, Job, JobFrame
  <2>2. \A q \in Requests : at[q] \in Writing /\ file[q] = file[r] => q = r
    BY <1>0, <2>1 DEF StreamingIsWritten
  <2> QED BY <1>0, <2>1, <2>2 DEF StreamingIsWritten
<1>9. ASSUME NEW r \in Requests,
             JobStart(r) \/ JobStatus(r) \/ JobMisses(r) \/ JobChunk(r) \/ JobPublish(r) \/ JobList(r)
      PROVE  StreamingIsWritten'
  <2>1. /\ UNCHANGED <<file, status>>
        /\ \A q \in Requests : q # r => at'[q] = at[q]
        /\ at'[r] \in Writing <=> at[r] \in Writing
    BY <1>0, <1>9 DEF JobStart, JobStatus, JobMisses, JobChunk, JobPublish, JobList, Job, JobFrame
  <2>2. \A q \in Requests : at'[q] \in Writing <=> at[q] \in Writing
    BY <2>1
  <2> QED BY <1>0, <2>1, <2>2 DEF StreamingIsWritten
<1>10. ASSUME \/ Calls \/ DispatchWait \/ DispatchCheck \/ DispatchLoad \/ Collector \/ UNCHANGED vars
              \/ PostRequest \/ (\E f \in todo : KeepFile(f) \/ DropFile(f) \/ MarkFile(f))
              \/ UnlistFile \/ EndCollection \/ WaitLock \/ WaitJobs \/ StopDispatch \/ DispatchJoined
       PROVE  StreamingIsWritten'
  BY <1>0, <1>10, NoJobRuns, WritersFrame
<1> QED BY <1>1, <1>2, <1>3, <1>4, <1>5, <1>6, <1>7, <1>8, <1>9, <1>10
        DEF Next, Caller, Visits, Dispatcher, LoadingJob

\* No more chunks are announced than the file holds.
LEMMA StepChunks ==
  ASSUME IInv, Next
  PROVE  ChunksAnnounced'
<1>0. /\ StreamingIsWritten /\ CollectionIsAlone /\ RemovalIsSafe /\ TypeOK /\ DataIsThere
      /\ QueueAndJobs /\ ChunksAnnounced
      /\ at \in [Requests -> {"free", "queued"} \cup InPool] /\ file \in [Requests -> Files]
      /\ status \in [Files -> Statuses]
      /\ available \in [Files -> 0..Chunks] /\ filled \in [Files -> 0..Chunks]
  BY DEF IInv, TypeOK
<1>n. \A f \in Files : available[f] \in Nat /\ filled[f] \in Nat
  BY <1>0
<1> USE DEF InPool, Running, Reading, Writing, Statuses
<1>1. CASE BeginCollect
  <2>1. /\ UNCHANGED <<at, file, available, filled>>
        /\ \A f \in Files : status'[f] = "Preloaded" => status[f] = "Preloaded"
    BY <1>0, <1>1 DEF BeginCollect, calls
  <2> QED BY <1>0, <2>1 DEF ChunksAnnounced
<1>2. CASE ClearAvailable
  <2>1. /\ UNCHANGED <<at, file, status, filled>> /\ status[from[1]] = "GarbageCollecting"
        /\ \A f \in Files : available'[f] = IF f = from[1] THEN 0 ELSE available[f]
    BY <1>0, <1>2 DEF ClearAvailable, CollectionIsAlone, calls, Go, TypeOK
  <2>2. \A r \in Requests : at[r] \in Writing => file[r] # from[1]
    BY <1>0, <2>1 DEF StreamingIsWritten
  <2> QED BY <1>0, <1>n, <2>1, <2>2 DEF ChunksAnnounced
<1>3. CASE MoveData
  <2>1. /\ UNCHANGED <<at, file, status, available>> /\ status[from[1]] = "GarbageCollecting"
        /\ available[from[1]] = 0
        /\ \A f \in Files : filled'[f] = IF f = from[1] THEN 0 ELSE filled[f]
    BY <1>0, <1>3 DEF MoveData, CollectionIsAlone, calls, Go, TypeOK
  <2>2. \A r \in Requests : at[r] \in Writing => file[r] # from[1]
    BY <1>0, <2>1 DEF StreamingIsWritten
  <2> QED BY <1>0, <1>n, <2>1, <2>2 DEF ChunksAnnounced
<1>4. CASE ReturnFile
  <2>1. /\ UNCHANGED <<at, file, available, filled>> /\ filled[from[1]] = 0
        /\ \A f \in Files : status'[f] = "Preloaded" => status[f] = "Preloaded" \/ f = from[1]
    BY <1>0, <1>4 DEF ReturnFile, CollectionIsAlone, calls, Go
  <2> QED BY <1>0, <2>1 DEF ChunksAnnounced
<1>5. CASE RemoveUnused \/ Destroyed
  <2>1. PICK fs : Erase(fs) /\ \A r \in Requests : at[r] \in Writing => file[r] \notin fs
    <3>1. CASE RemoveUnused
      BY <1>0, <3>1 DEF RemoveUnused, RemovalIsSafe, Go
    <3>2. CASE Destroyed
      BY <1>0, <3>2 DEF Destroyed, Finished, QueueAndJobs
    <3> QED BY <1>5, <3>1, <3>2
  <2>2. UNCHANGED <<at, file>>
    BY <1>5 DEF RemoveUnused, Destroyed, calls
  <2> QED BY <1>0, <1>n, <2>1, <2>2, Erased DEF ChunksAnnounced
<1>6. CASE Clear
  <2>1. /\ UNCHANGED file /\ Erase(preloaded) /\ caller = "remove" /\ todo = preloaded
        /\ \A r \in Requests : at'[r] = IF at[r] = "queued" THEN "free" ELSE at[r]
    BY <1>6 DEF Clear, Go
  <2>2. \A r \in Requests : at'[r] \notin Writing
    BY <1>0, <2>1 DEF RemovalIsSafe, DataIsThere
  <2> QED BY <1>0, <1>n, <2>1, <2>2, Erased DEF ChunksAnnounced
<1>7. ASSUME NEW r \in Requests, LoadingJob(r) PROVE ChunksAnnounced'
  <2>0. /\ UNCHANGED file /\ \A q \in Requests : q # r => at'[q] = at[q]
        /\ \A f \in Files : f # file[r] => UNCHANGED <<status[f], available[f], filled[f]>>
        /\ file[r] \in Files
    BY <1>0, <1>7, JobMoves DEF JobFrame
  <2>1. \A q \in Requests : q # r /\ at[q] \in Writing /\ at[r] \in Writing => file[q] # file[r]
    BY <1>0 DEF StreamingIsWritten
  <2>2. \A q \in Requests : at[q] \in Writing => status[file[q]] = "Streaming"
    BY <1>0 DEF StreamingIsWritten
  <2>3. CASE JobTake(r)
    <3>1. /\ status[file[r]] = "Preloaded" /\ status'[file[r]] = "Streaming"
          /\ filled'[file[r]] = 0 /\ UNCHANGED available /\ at'[r] = "chunk"
      BY <1>0, <2>0, <2>3 DEF JobTake, Job
    <3>2. available[file[r]] = 0
      BY <1>0, <1>n, <2>0, <3>1 DEF ChunksAnnounced
    <3> QED BY <1>0, <2>0, <2>2, <3>1, <3>2 DEF ChunksAnnounced
  <2>4. CASE JobChunk(r)
    <3>1. /\ at[r] = "chunk" /\ at'[r] = "publish" /\ UNCHANGED <<status, available>>
          /\ filled'[file[r]] = filled[file[r]] + 1
      BY <1>0, <2>0, <2>4 DEF JobChunk, Job
    <3> QED BY <1>0, <1>n, <2>0, <2>1, <2>2, <3>1 DEF ChunksAnnounced
  <2>5. CASE JobPublish(r)
    <3>1. /\ at[r] = "publish" /\ at'[r] = "chunk" /\ UNCHANGED <<status, filled>>
          /\ available'[file[r]] = available[file[r]] + 1
      BY <1>0, <2>0, <2>5 DEF JobPublish, Job
    <3> QED BY <1>0, <1>n, <2>0, <2>1, <2>2, <3>1 DEF ChunksAnnounced
  <2>6. CASE JobStreamed(r)
    <3>1. at'[r] = "done" /\ UNCHANGED <<available, filled>> /\ status'[file[r]] = "Done"
      BY <1>0, <2>0, <2>6 DEF JobStreamed, Job
    <3> QED BY <1>0, <2>0, <3>1 DEF ChunksAnnounced
  <2>7. CASE JobStart(r) \/ JobStatus(r) \/ JobMisses(r) \/ JobList(r)
    <3>1. at'[r] \notin Writing /\ UNCHANGED <<status, available, filled>>
      BY <1>0, <2>7 DEF JobStart, JobStatus, JobMisses, JobList, Job
    <3> QED BY <1>0, <2>0, <3>1 DEF ChunksAnnounced
  <2> QED BY <1>7, <2>3, <2>4, <2>5, <2>6, <2>7 DEF LoadingJob
<1>8. ASSUME \/ Calls \/ DispatchWait \/ DispatchCheck \/ DispatchLoad \/ Collector \/ UNCHANGED vars
             \/ PostRequest \/ (\E f \in todo : KeepFile(f) \/ DropFile(f) \/ MarkFile(f))
             \/ UnlistFile \/ EndCollection \/ WaitLock \/ WaitJobs \/ StopDispatch \/ DispatchJoined
      PROVE  ChunksAnnounced'
  BY <1>0, <1>8, NoJobRuns, WritersFrame
<1> QED BY <1>1, <1>2, <1>3, <1>4, <1>5, <1>6, <1>7, <1>8 DEF Next, Caller, Visits, Dispatcher

\* A job that is to list its file stays until it has.
LEMMA ToBeListedStays ==
  ASSUME IInv, NEW f \in Files, ToBeListed(f), NEW r \in Requests, LoadingJob(r), ~JobList(r)
  PROVE  ToBeListed(f)'
<1>0. /\ UNCHANGED file /\ \A q \in Requests : q # r => at'[q] = at[q]
  BY JobMoves DEF JobFrame
<1>1. at[r] # "done"
  BY DEF LoadingJob, JobStart, JobStatus, JobTake, JobMisses, JobChunk, JobPublish, JobStreamed, Job
<1> QED BY <1>0, <1>1 DEF ToBeListed

\* The file under collection is nobody else's.
LEMMA StepCollection ==
  ASSUME IInv, Next
  PROVE  CollectionIsAlone'
<1>0. /\ CollectionIsAlone /\ TypeOK /\ DataIsThere /\ DoneIsListed /\ StreamingIsWritten
      /\ at \in [Requests -> {"free", "queued"} \cup InPool] /\ file \in [Requests -> Files]
      /\ status \in [Files -> Statuses] /\ preloaded \subseteq Files
      /\ available \in [Files -> 0..Chunks] /\ filled \in [Files -> 0..Chunks]
  BY DEF IInv, TypeOK
<1> USE DEF InPool, Running, Reading, Writing, Statuses
<1>1. ASSUME NEW f \in todo, MarkFile(f) PROVE CollectionIsAlone'
  BY <1>0, <1>1 DEF MarkFile, Visiting, Collectable, CollectionIsAlone, data, kinds, calls, used
<1>2. CASE BeginCollect
  <2>0. /\ caller = "collect" /\ from[1] \in preloaded /\ garbage < MaxVoices
        /\ UNCHANGED <<preloaded, garbage, readers, available, filled, at, file>>
    BY <1>0, <1>2 DEF BeginCollect, CollectionIsAlone, kinds, calls, used
  <2>1. CASE status[from[1]] = from[2] /\ readers[from[1]] = 0
    BY <1>0, <1>2, <2>0, <2>1 DEF BeginCollect, CollectionIsAlone
  <2>2. CASE ~(status[from[1]] = from[2] /\ readers[from[1]] = 0)
    <3>1. caller' = "visit" /\ UNCHANGED status
      BY <1>2, <2>2 DEF BeginCollect
    <3> QED BY <1>0, <2>0, <3>1 DEF CollectionIsAlone
  <2> QED BY <2>1, <2>2
<1>3. CASE ClearAvailable
  <2>1. /\ caller = "empty" /\ caller' = "move" /\ available'[from[1]] = 0
        /\ UNCHANGED <<from, status, preloaded, garbage, readers>>
    BY <1>0, <1>3 DEF ClearAvailable, CollectionIsAlone, Go, kinds, used
  <2> QED BY <1>0, <2>1 DEF CollectionIsAlone
<1>4. CASE MoveData
  <2>1. /\ caller = "move" /\ caller' = "return" /\ filled'[from[1]] = 0
        /\ UNCHANGED <<from, status, preloaded, available, readers>>
    BY <1>0, <1>4 DEF MoveData, CollectionIsAlone, Go, kinds
  <2> QED BY <1>0, <2>1 DEF CollectionIsAlone
<1>5. CASE ReturnFile
  <2>1. /\ caller = "return" /\ caller' = "unlist" /\ from[1] \in preloaded
        /\ \A f \in Files : status'[f] = IF f = from[1] THEN "Preloaded" ELSE status[f]
        /\ UNCHANGED <<from, preloaded>>
    BY <1>0, <1>5 DEF ReturnFile, CollectionIsAlone, Go, kinds
  <2> QED BY <1>0, <2>1 DEF CollectionIsAlone
<1>6. CASE UnlistFile
  <2>1. caller = "unlist" /\ caller' = "visit" /\ UNCHANGED status
    BY <1>6 DEF UnlistFile, Go, data
  <2> QED BY <1>0, <2>1 DEF CollectionIsAlone
<1>7. ASSUME NEW f \in todo, KeepFile(f) \/ DropFile(f) PROVE CollectionIsAlone'
  <2>1. caller = "visit" /\ UNCHANGED <<caller, status>>
    BY <1>7 DEF KeepFile, DropFile, Visiting, data
  <2> QED BY <1>0, <2>1 DEF CollectionIsAlone
<1>8. CASE \/ Calls \/ PostRequest \/ EndCollection \/ WaitLock \/ WaitJobs
           \/ StopDispatch \/ DispatchJoined
  <2>1. UNCHANGED status
    BY <1>8, NoJobRuns
  <2>2. caller \notin {"collect", "empty", "move", "return", "unlist"}
        /\ caller' \notin {"collect", "empty", "move", "return", "unlist"}
    BY <1>8 DEF Calls, Preload, PromiseShort, Release, PushRequest, GarbageLock, StopGarbage,
       DeleteRegions, PostRequest, EndCollection, WaitLock, WaitJobs, StopDispatch, DispatchJoined,
       main, Go
  <2> QED BY <1>0, <2>1, <2>2 DEF CollectionIsAlone
<1>9. CASE RemoveUnused \/ Clear \/ Destroyed
  <2>1. caller' \in {"idle", "destroyed"} /\ caller \in {"remove", "join_jobs"} /\ \E fs : Erase(fs)
    BY <1>9 DEF RemoveUnused, Clear, Destroyed, Go
  <2>2. \A f \in Files : status'[f] = status[f] \/ status'[f] = "Preloaded"
    BY <1>0, <2>1, Erased
  <2> QED BY <1>0, <2>1, <2>2 DEF CollectionIsAlone
<1>10. CASE DispatchWait \/ DispatchCheck \/ DispatchLoad
  <2>1. UNCHANGED <<caller, from, status, preloaded, garbage, readers, available, filled>>
    BY <1>10, DispatchMoves DEF DispatchWait, DispatchCheck, main, data, kinds, used
  <2>2. \A f \in Files : ToBeListed(f) <=> ToBeListed(f)'
    BY <1>0, <1>10, NoJobRuns, WritersFrame DEF IInv
  <2> QED BY <1>0, <2>1, <2>2 DEF CollectionIsAlone
<1>11. CASE Collector
  <2>1. /\ UNCHANGED <<caller, from, status, preloaded, readers, available, filled>>
        /\ garbage' = garbage \/ garbage' = 0
    BY <1>11 DEF Collector, CollectorWait, CollectorCheck, CollectorClear, CollectorFrame, main, data, kinds
  <2>2. \A f \in Files : ToBeListed(f) <=> ToBeListed(f)'
    BY <1>0, <1>11, NoJobRuns, WritersFrame DEF IInv
  <2> QED BY <1>0, <2>1, <2>2, Bounds DEF CollectionIsAlone
<1>12. ASSUME NEW r \in Requests, LoadingJob(r) PROVE CollectionIsAlone'
  <2>0. /\ UNCHANGED <<file, caller, from, preloaded, garbage, readers>>
        /\ \A q \in Requests : q # r => at'[q] = at[q]
        /\ \A f \in Files : f # file[r] => UNCHANGED <<status[f], available[f], filled[f]>>
        /\ file[r] \in Files
    BY <1>0, <1>12, JobMoves DEF JobFrame, kinds, main
  <2>1. /\ status'[file[r]] = "GarbageCollecting" <=> status[file[r]] = "GarbageCollecting"
        /\ status[file[r]] = "GarbageCollecting" => UNCHANGED <<available[file[r]], filled[file[r]]>>
        /\ status'[file[r]] = "Done" => status[file[r]] = "Done" \/ at'[r] = "done"
    <3>1. CASE JobTake(r)
      BY <1>0, <2>0, <3>1 DEF JobTake
    <3>2. CASE JobStreamed(r)
      <4>1. at[r] = "chunk" /\ status'[file[r]] = "Done" /\ at'[r] = "done"
        BY <1>0, <2>0, <3>2 DEF JobStreamed, Job
      <4>2. status[file[r]] = "Streaming"
        BY <1>0, <2>0, <4>1 DEF StreamingIsWritten
      <4> QED BY <4>1, <4>2
    <3>3. CASE JobChunk(r) \/ JobPublish(r)
      <4>1. at[r] \in Writing /\ UNCHANGED status
        BY <3>3 DEF JobChunk, JobPublish, Job
      <4>2. status[file[r]] = "Streaming"
        BY <1>0, <2>0, <4>1 DEF StreamingIsWritten
      <4> QED BY <4>1, <4>2
    <3>4. CASE JobStart(r) \/ JobStatus(r) \/ JobMisses(r) \/ JobList(r)
      <4>1. UNCHANGED <<status, available, filled>>
        BY <3>4 DEF JobStart, JobStatus, JobMisses, JobList
      <4> QED BY <2>0, <4>1
    <3> QED BY <1>12, <3>1, <3>2, <3>3, <3>4 DEF LoadingJob
  <2>2. ASSUME caller = "unlist", status'[from[1]] = "Done" PROVE ToBeListed(from[1])'
    <3>0. from[1] \in Files /\ from'[1] = from[1]
      BY <1>0, <2>0, <2>2 DEF CollectionIsAlone
    <3>1. ~JobList(r)
      BY <2>2 DEF JobList, GarbageLocked
    <3>2. CASE status[from[1]] = "Done"
      <4>1. ToBeListed(from[1])
        BY <1>0, <2>2, <3>2 DEF CollectionIsAlone
      <4>2. ASSUME NEW f \in Files, f = from[1] PROVE ToBeListed(f)'
        BY <1>12, <3>1, <4>1, <4>2, ToBeListedStays
      <4> QED BY <3>0, <4>2 DEF ToBeListed
    <3>3. CASE status[from[1]] # "Done"
      <4>1. from[1] = file[r] /\ at'[r] = "done"
        BY <2>0, <2>1, <2>2, <3>0, <3>3
      <4> QED BY <2>0, <3>0, <4>1 DEF ToBeListed
    <3> QED BY <3>2, <3>3
  <2>3. \A f \in Files : status'[f] = "GarbageCollecting" <=> status[f] = "GarbageCollecting"
    BY <2>0, <2>1
  <2>4. caller \in {"move", "return"} => UNCHANGED <<available[from[1]], filled[from[1]]>>
    <3>1. caller \in {"move", "return"} => from[1] \in Files /\ status[from[1]] = "GarbageCollecting"
      BY <1>0 DEF CollectionIsAlone
    <3> QED BY <2>0, <2>1, <3>1
  <2> QED BY <1>0, <2>0, <2>2, <2>3, <2>4 DEF CollectionIsAlone
<1>13. CASE UNCHANGED vars
  BY <1>0, <1>13, Frames DEF vars, main, data, kinds, calls, used
<1> QED BY <1>1, <1>2, <1>3, <1>4, <1>5, <1>6, <1>7, <1>8, <1>9, <1>10, <1>11, <1>12, <1>13
        DEF Next, Caller, Visits, Dispatcher

\* A holder's file streams or is about to.
LEMMA StepServed ==
  ASSUME IInv, Next
  PROVE  ReaderIsServed'
<1>0. /\ ReaderIsServed /\ TypeOK /\ PromiseIsPosted /\ DataIsThere /\ RemovalIsSafe /\ CollectionIsAlone
      /\ QueueAndJobs /\ readers \in [Files -> 0..MaxReaders] /\ file \in [Requests -> Files]
      /\ at \in [Requests -> {"free", "queued"} \cup InPool] /\ status \in [Files -> Statuses]
      /\ fullyLoaded \subseteq preloaded
  BY DEF IInv, TypeOK
<1> USE DEF InPool, Running, Reading, Writing, Statuses
<1>1. ASSUME NEW f \in Files, NEW all \in BOOLEAN, Preload(f, all) PROVE ReaderIsServed'
  <2>1. UNCHANGED <<broken, readers, status, expired, at, file>> /\ fullyLoaded \subseteq fullyLoaded'
    BY <1>1 DEF Preload, calls
  <2> QED BY <1>0, <2>1 DEF ReaderIsServed, Served
<1>2. ASSUME NEW f \in Files, PromiseShort(f) \/ Release(f) PROVE ReaderIsServed'
  <2>1. /\ UNCHANGED <<broken, fullyLoaded, status, expired, at, file>>
        /\ \A g \in Files \ fullyLoaded : readers'[g] > 0 => readers[g] > 0
    BY <1>0, <1>2, Bounds DEF PromiseShort, Release, calls, kinds
  <2> QED BY <1>0, <2>1 DEF ReaderIsServed, Served
<1>3. ASSUME NEW f \in Files, NEW r \in Requests, PushRequest(f, r) PROVE ReaderIsServed'
  <2>1. /\ UNCHANGED <<broken, fullyLoaded, readers, status, expired>> /\ at[r] = "free"
        /\ \A q \in Requests : q # r => at'[q] = at[q] /\ file'[q] = file[q]
    BY <1>0, <1>3 DEF PushRequest, data, kinds
  <2> QED BY <1>0, <2>1 DEF ReaderIsServed, Served
<1>4. ASSUME NEW fs \in SUBSET preloaded, DeleteRegions(fs) PROVE ReaderIsServed'
  <2>1. /\ UNCHANGED <<broken, fullyLoaded, readers, status, at, file>>
        /\ \A f \in fs : readers[f] = 0
        /\ \A r \in Requests : r \in expired' => r \in expired \/ file[r] \in fs
    BY <1>0, <1>4 DEF DeleteRegions, data, kinds
  <2>2. ASSUME NEW f \in Files \ (fullyLoaded \cup broken), readers[f] > 0 PROVE Served(f)'
    BY <1>0, <2>1, <2>2 DEF ReaderIsServed, Served
  <2> QED BY <2>1, <2>2 DEF ReaderIsServed, Served
<1>5. CASE PostRequest
  <2>1. /\ UNCHANGED <<broken, fullyLoaded, status, expired, at, file>> /\ caller = "post"
        /\ \A g \in Files : readers'[g] > 0 => readers[g] > 0 \/ g = file[request]
    BY <1>0, <1>5 DEF PostRequest, kinds, calls, Go, PromiseIsPosted
  <2> QED BY <1>0, <2>1 DEF ReaderIsServed, Served, PromiseIsPosted
<1>6. CASE BeginCollect
  <2>1. /\ UNCHANGED <<broken, fullyLoaded, readers, expired, at, file>>
        /\ \A f \in Files : status'[f] = status[f] \/ readers[f] = 0
    BY <1>0, <1>6 DEF BeginCollect, kinds, calls
  <2> QED BY <1>0, <2>1 DEF ReaderIsServed, Served
<1>7. CASE ReturnFile
  <2>1. /\ UNCHANGED <<broken, fullyLoaded, readers, expired, at, file>>
        /\ \A f \in Files : status'[f] = status[f] \/ readers[f] = 0
    BY <1>0, <1>7 DEF ReturnFile, kinds, calls, Go, CollectionIsAlone
  <2> QED BY <1>0, <2>1 DEF ReaderIsServed, Served
<1>8. CASE WaitJobs
  <2>1. /\ UNCHANGED <<broken, fullyLoaded, readers, status, file>>
        /\ \A r \in Requests : at[r] \in {"queued", "pooled", "status", "cas"}
                                 => at'[r] = at[r] /\ (r \in expired' <=> r \in expired)
    BY <1>0, <1>8 DEF WaitJobs, Finished, data, kinds
  <2>2. ASSUME NEW f \in Files \ (fullyLoaded \cup broken), readers[f] > 0 PROVE Served(f)'
    BY <1>0, <2>1, <2>2 DEF ReaderIsServed, Served
  <2> QED BY <2>1, <2>2 DEF ReaderIsServed, Served
<1>9. CASE RemoveUnused \/ Clear
  <2>1. /\ caller = "remove" /\ Erase(todo)
        /\ \A r \in Requests \ expired : file[r] \notin todo => at'[r] = at[r] /\ r \notin expired'
        /\ UNCHANGED file
    <3>1. CASE RemoveUnused
      BY <3>1 DEF RemoveUnused, Go, calls
    <3>2. CASE Clear
      <4>1. caller = "remove" /\ todo = preloaded /\ Erase(preloaded) /\ UNCHANGED file
        BY <3>2 DEF Clear, Go
      <4>2. ASSUME NEW r \in Requests \ expired, file[r] \notin todo
            PROVE  at'[r] = at[r] /\ r \notin expired'
        <5>1. at[r] # "queued"
          BY <1>0, <4>1, <4>2 DEF DataIsThere
        <5> QED BY <1>0, <3>2, <5>1 DEF Clear
      <4> QED BY <4>1, <4>2
    <3> QED BY <1>9, <3>1, <3>2
  <2>2. \A f \in todo : readers[f] = 0
    BY <1>0, <2>1 DEF RemovalIsSafe
  <2> QED BY <1>0, <2>1, <2>2, Erased DEF ReaderIsServed, Served
<1>10. CASE Destroyed
  <2>1. \A f \in Files : readers'[f] = 0
    BY <1>0, <1>10, Erased DEF Destroyed, Go, IInv, EndsInOrder
  <2> QED BY <2>1 DEF ReaderIsServed
<1>11. ASSUME DispatchLoad \/ \E r \in Requests : LoadingJob(r) PROVE ReaderIsServed'
  <2>1. UNCHANGED <<fullyLoaded, broken, readers>>
    BY <1>11, DispatchMoves, JobMoves DEF JobFrame, data, kinds
  <2>2. ASSUME NEW f \in Files \ (fullyLoaded \cup broken), readers[f] > 0 PROVE Served(f)'
    BY <1>0, <1>11, <2>2, ServedStays DEF ReaderIsServed
  <2> QED BY <2>1, <2>2 DEF ReaderIsServed, Served
<1>12. CASE \/ GarbageLock \/ StopGarbage \/ (\E f \in todo : KeepFile(f) \/ DropFile(f) \/ MarkFile(f))
            \/ ClearAvailable \/ MoveData \/ UnlistFile \/ EndCollection \/ WaitLock \/ StopDispatch
            \/ DispatchJoined \/ DispatchWait \/ DispatchCheck \/ Collector \/ UNCHANGED vars
  <2>1. UNCHANGED <<fullyLoaded, broken, readers, status, expired, at, file>>
    BY <1>12 DEF GarbageLock, StopGarbage, KeepFile, DropFile, MarkFile, Visiting, ClearAvailable,
       MoveData, UnlistFile, EndCollection, WaitLock, StopDispatch, DispatchJoined, DispatchWait,
       DispatchCheck, Collector, CollectorWait, CollectorCheck, CollectorClear, CollectorFrame, vars,
       data, kinds, calls
  <2> QED BY <1>0, <2>1, Frames
<1> QED BY <1>1, <1>2, <1>3, <1>4, <1>5, <1>6, <1>7, <1>8, <1>9, <1>10, <1>11, <1>12
        DEF Next, Calls, Caller, Visits, Dispatcher

\* What was streamed can be collected.
LEMMA StepListed ==
  ASSUME IInv, Next
  PROVE  DoneIsListed'
<1>0. /\ DoneIsListed /\ TypeOK /\ DataIsThere /\ RemovalIsSafe /\ CollectionIsAlone
      /\ file \in [Requests -> Files] /\ preloaded \subseteq Files
      /\ at \in [Requests -> {"free", "queued"} \cup InPool] /\ status \in [Files -> Statuses]
  BY DEF IInv, TypeOK
<1> USE DEF InPool, Running, Reading, Writing, Statuses
<1>1. CASE \/ Calls \/ DispatchWait \/ DispatchCheck \/ DispatchLoad \/ Collector \/ UNCHANGED vars
           \/ PostRequest \/ (\E f \in todo : KeepFile(f) \/ DropFile(f) \/ MarkFile(f))
           \/ UnlistFile \/ EndCollection \/ WaitLock \/ WaitJobs \/ StopDispatch \/ DispatchJoined
  <2>1. UNCHANGED status /\ \A f \in Files : ToBeListed(f) <=> ToBeListed(f)'
    BY <1>0, <1>1, NoJobRuns, WritersFrame DEF IInv
  <2>2. ASSUME NEW f \in preloaded', status[f] = "Done"
        PROVE  f \in preloaded /\ (f \in lastUsedFiles => f \in lastUsedFiles' \/ ToBeListed(f))
    <3>1. CASE Calls
      <4>1. UNCHANGED lastUsedFiles
        BY <3>1 DEF Calls, Preload, PromiseShort, Release, PushRequest, GarbageLock, StopGarbage,
           DeleteRegions, used
      <4>2. f \in Files
        BY <2>2, StepTypes DEF TypeOK
      <4>3. f \in preloaded
        BY <2>2, <4>2 DEF IInv, AbsentIsFresh
      <4> QED BY <4>1, <4>3
    <3>2. CASE UnlistFile
      <4>1. UNCHANGED preloaded /\ lastUsedFiles' = lastUsedFiles \ {from[1]} /\ caller = "unlist"
        BY <3>2 DEF UnlistFile, data, kinds, Go
      <4> QED BY <1>0, <2>2, <4>1 DEF CollectionIsAlone
    <3>3. CASE \E g \in todo : DropFile(g)
      BY <2>2, <3>3 DEF DropFile, Visiting, data, kinds
    <3>4. CASE \/ DispatchWait \/ DispatchCheck \/ DispatchLoad \/ Collector \/ UNCHANGED vars
               \/ PostRequest \/ (\E g \in todo : KeepFile(g) \/ MarkFile(g))
               \/ EndCollection \/ WaitLock \/ WaitJobs \/ StopDispatch \/ DispatchJoined
      <4>1. UNCHANGED <<preloaded, lastUsedFiles>>
        BY <3>4, DispatchMoves DEF DispatchWait, DispatchCheck, Collector, CollectorWait, CollectorCheck,
           CollectorClear, CollectorFrame, vars, PostRequest, KeepFile, MarkFile, Visiting, EndCollection,
           WaitLock, WaitJobs, StopDispatch, DispatchJoined, used, data, kinds
      <4> QED BY <2>2, <4>1
    <3> QED BY <1>1, <3>1, <3>2, <3>3, <3>4
  <2> QED BY <1>0, <2>1, <2>2 DEF DoneIsListed
<1>2. CASE BeginCollect \/ ClearAvailable \/ MoveData \/ ReturnFile
  <2>1. /\ UNCHANGED <<preloaded, lastUsedFiles, at, file>>
        /\ \A f \in Files : status'[f] = "Done" => status[f] = "Done"
    BY <1>0, <1>2 DEF BeginCollect, ClearAvailable, MoveData, ReturnFile, kinds, calls, used
  <2> QED BY <1>0, <2>1 DEF DoneIsListed, ToBeListed
<1>3. CASE RemoveUnused
  <2>1. /\ UNCHANGED <<lastUsedFiles, at, file>> /\ preloaded' = preloaded \ todo
        /\ \A f \in Files : status'[f] = "Done" => status[f] = "Done"
    BY <1>0, <1>3, Erased DEF RemoveUnused, calls, used
  <2> QED BY <1>0, <2>1 DEF DoneIsListed, ToBeListed
<1>4. CASE Clear \/ Destroyed
  BY <1>4 DEF Clear, Destroyed, Erase, DoneIsListed
<1>5. ASSUME NEW r \in Requests, LoadingJob(r) PROVE DoneIsListed'
  <2>0. /\ UNCHANGED <<file, preloaded>> /\ file[r] \in Files
        /\ \A q \in Requests : q # r => at'[q] = at[q]
        /\ \A f \in Files : f # file[r] => /\ UNCHANGED status[f]
                                           /\ f \in lastUsedFiles' <=> f \in lastUsedFiles
    BY <1>0, <1>5, JobMoves DEF JobFrame, kinds
  <2>1. CASE JobList(r)
    <3>1. file[r] \in lastUsedFiles' /\ UNCHANGED status
      BY <2>1 DEF JobList
    <3>2. \A f \in Files : f # file[r] /\ ToBeListed(f) => ToBeListed(f)'
      BY <2>0 DEF ToBeListed
    <3> QED BY <1>0, <2>0, <3>1, <3>2 DEF DoneIsListed
  <2>2. CASE ~JobList(r)
    <3>1. \A f \in Files : ToBeListed(f) => ToBeListed(f)'
      BY <1>5, <2>2, ToBeListedStays
    <3>2. UNCHANGED lastUsedFiles
      BY <1>5, <2>2 DEF LoadingJob, JobStart, JobStatus, JobTake, JobMisses, JobChunk, JobPublish,
         JobStreamed, used
    <3>3. status'[file[r]] = "Done" => status[file[r]] = "Done" \/ at'[r] = "done"
      BY <1>0, <1>5, <2>0, <2>2 DEF LoadingJob, JobStart, JobStatus, JobTake, JobMisses, JobChunk, JobPublish,
         JobStreamed, Job
    <3>4. at'[r] = "done" => ToBeListed(file[r])'
      BY <2>0 DEF ToBeListed
    <3> QED BY <1>0, <2>0, <3>1, <3>2, <3>3, <3>4 DEF DoneIsListed
  <2> QED BY <2>1, <2>2
<1> QED BY <1>1, <1>2, <1>3, <1>4, <1>5 DEF Next, Caller, Visits, Dispatcher

\* The barrier has a post for every request.
LEMMA StepBarrier ==
  ASSUME IInv, Next
  PROVE  BarrierCovers'
<1>0. /\ BarrierCovers /\ Len(filesToLoad) \in Nat /\ dispatchBarrier \in Nat
  BY Queue DEF IInv, TypeOK
<1>1. ASSUME NEW f \in Files, NEW r \in Requests, PushRequest(f, r) PROVE BarrierCovers'
  <2>1. /\ Len(filesToLoad') = Len(filesToLoad) + 1 /\ caller = "idle" /\ caller' = "post"
        /\ UNCHANGED <<dispatchFlag, dispatchBarrier, dispatcher>>
    BY <1>1, Queue DEF PushRequest, Go, sync
  <2> QED BY <1>0, <2>1 DEF BarrierCovers
<1>2. CASE PostRequest
  BY <1>0, <1>2 DEF PostRequest, BarrierCovers, Go, calls
<1>3. CASE Clear
  <2>1. Len(filesToLoad') = 0 /\ UNCHANGED <<dispatchBarrier>>
    BY <1>3 DEF Clear, sync
  <2> QED BY <1>0, <2>1 DEF BarrierCovers
<1>4. CASE StopDispatch
  BY <1>4 DEF StopDispatch, BarrierCovers
<1>5. CASE DispatchWait
  BY <1>0, <1>5 DEF DispatchWait, BarrierCovers, calls, main
<1>6. CASE DispatchCheck
  BY <1>0, <1>6 DEF DispatchCheck, BarrierCovers, calls, main, sync
<1>7. CASE DispatchLoad
  <2>1. /\ dispatcher = "lock" /\ dispatcher' = "wait"
        /\ UNCHANGED <<dispatchFlag, dispatchBarrier, caller>>
        /\ Len(filesToLoad') = 0 \/ Len(filesToLoad') = Len(filesToLoad) - 1
    BY <1>7, DispatchMoves, Queue DEF sync, main
  <2> QED BY <1>0, <2>1 DEF BarrierCovers
<1>8. ASSUME NEW r \in Requests, LoadingJob(r) PROVE BarrierCovers'
  <2>1. UNCHANGED <<dispatchFlag, filesToLoad, dispatchBarrier, dispatcher, caller>>
    BY <1>8, JobMoves DEF JobFrame, main
  <2> QED BY <1>0, <2>1, Frames
<1>9. CASE Collector \/ UNCHANGED vars
  <2>1. UNCHANGED <<dispatchFlag, filesToLoad, dispatchBarrier, dispatcher, caller>>
    BY <1>9 DEF Collector, CollectorWait, CollectorCheck, CollectorClear, CollectorFrame, vars, main,
       calls, sync
  <2> QED BY <1>0, <2>1, Frames
<1>10. ASSUME \/ \E f \in Files : \/ \E all \in BOOLEAN : Preload(f, all)
                                  \/ PromiseShort(f) \/ Release(f)
              \/ GarbageLock \/ StopGarbage \/ (\E fs \in SUBSET preloaded : DeleteRegions(fs))
              \/ Visits \/ WaitLock \/ WaitJobs \/ RemoveUnused \/ DispatchJoined \/ Destroyed
       PROVE  BarrierCovers'
  <2>1. UNCHANGED <<dispatchFlag, filesToLoad, dispatchBarrier, dispatcher>>
    BY <1>10 DEF Preload, PromiseShort, Release, GarbageLock, StopGarbage, DeleteRegions, Visits, KeepFile,
       DropFile, MarkFile, Visiting, BeginCollect, ClearAvailable, MoveData, ReturnFile, UnlistFile,
       EndCollection, WaitLock, WaitJobs, RemoveUnused, DispatchJoined, Destroyed, calls, sync
  <2>2. caller # "post" /\ caller' # "post"
    BY <1>10 DEF Preload, PromiseShort, Release, GarbageLock, StopGarbage, DeleteRegions, Visits, KeepFile,
       DropFile, MarkFile, Visiting, BeginCollect, ClearAvailable, MoveData, ReturnFile, UnlistFile,
       EndCollection, WaitLock, WaitJobs, RemoveUnused, DispatchJoined, Destroyed, main, Go
  <2> QED BY <1>0, <2>1, <2>2 DEF BarrierCovers
<1> QED BY <1>1, <1>2, <1>3, <1>4, <1>5, <1>6, <1>7, <1>8, <1>9, <1>10
        DEF Next, Calls, Caller, Dispatcher

\* What is not there has no status but the first.
LEMMA StepAbsent ==
  ASSUME IInv, Next
  PROVE  AbsentIsFresh'
<1>0. /\ AbsentIsFresh /\ TypeOK /\ DataIsThere /\ CollectionIsAlone /\ EndsInOrder
      /\ preloaded \subseteq Files /\ status \in [Files -> Statuses]
  BY DEF IInv, TypeOK
<1>1. ASSUME NEW f \in Files, NEW all \in BOOLEAN, Preload(f, all) PROVE AbsentIsFresh'
  BY <1>0, <1>1 DEF Preload, AbsentIsFresh
<1>2. CASE BeginCollect \/ ReturnFile
  <2>1. UNCHANGED preloaded /\ \A f \in Files : status'[f] = status[f] \/ f \in preloaded
    BY <1>0, <1>2 DEF BeginCollect, ReturnFile, CollectionIsAlone, kinds, Go
  <2> QED BY <1>0, <2>1 DEF AbsentIsFresh
<1>3. CASE RemoveUnused \/ Clear \/ Destroyed
  <2>1. \E fs : Erase(fs)
    BY <1>3 DEF RemoveUnused, Clear, Destroyed
  <2> QED BY <1>0, <2>1, Erased DEF AbsentIsFresh
<1>4. ASSUME NEW r \in Requests, LoadingJob(r) PROVE AbsentIsFresh'
  <2>1. UNCHANGED preloaded /\ file[r] \in preloaded
        /\ \A f \in Files : f # file[r] => UNCHANGED status[f]
    BY <1>0, <1>4, JobMoves DEF JobFrame, kinds, DataIsThere, EndsInOrder
  <2> QED BY <1>0, <2>1 DEF AbsentIsFresh
<1>5. ASSUME \/ \E f \in Files : \/ PromiseShort(f) \/ Release(f)
                                 \/ \E r \in Requests : PushRequest(f, r)
             \/ GarbageLock \/ StopGarbage \/ (\E fs \in SUBSET preloaded : DeleteRegions(fs))
             \/ PostRequest \/ (\E f \in todo : KeepFile(f) \/ DropFile(f) \/ MarkFile(f))
             \/ ClearAvailable \/ MoveData \/ UnlistFile \/ EndCollection \/ WaitLock \/ WaitJobs
             \/ StopDispatch \/ DispatchJoined \/ Dispatcher \/ Collector \/ UNCHANGED vars
      PROVE  AbsentIsFresh'
  <2>1. UNCHANGED <<preloaded, status>>
    BY <1>5, DispatchMoves DEF PromiseShort, Release, PushRequest, GarbageLock, StopGarbage, DeleteRegions,
       PostRequest, KeepFile, DropFile, MarkFile, Visiting, ClearAvailable, MoveData, UnlistFile,
       EndCollection, WaitLock, WaitJobs, StopDispatch, DispatchJoined, Dispatcher, DispatchWait,
       DispatchCheck, Collector, CollectorWait, CollectorCheck, CollectorClear, CollectorFrame, vars,
       data, kinds
  <2> QED BY <1>0, <2>1, Frames
<1> QED BY <1>1, <1>2, <1>3, <1>4, <1>5 DEF Next, Calls, Caller, Visits

-----------------------------------------------------------------------------
(* The theorems.                                                           *)

\* The initial state satisfies the inductive invariant.
LEMMA InitIInv == Init => IInv
<1> SUFFICES ASSUME Init PROVE IInv
  OBVIOUS
<1> USE Bounds, FilePoolAssumption DEF Init
<1>1. filesToLoad \in Seq(Requests) /\ Len(filesToLoad) = 0
  BY EmptySeq
<1>2. file \in [Requests -> Files]
  <2>1. (CHOOSE f \in Files : TRUE) \in Files
    OBVIOUS
  <2> QED BY <2>1
<1>3. from \in (Files \cup {None}) \X (Statuses \cup {None})
  OBVIOUS
<1>4. TypeOK
  <2>1. status \in [Files -> Statuses]
    BY DEF Statuses
  <2>2. /\ available \in [Files -> 0..Chunks] /\ filled \in [Files -> 0..Chunks]
        /\ readers \in [Files -> 0..MaxReaders]
        /\ at \in [Requests -> {"free", "queued"} \cup InPool]
    OBVIOUS
  <2> QED BY <1>1, <1>2, <1>3, <2>1, <2>2 DEF TypeOK
<1>5. \A f \in Files : status[f] = "Preloaded" /\ available[f] = 0 /\ filled[f] = 0 /\ readers[f] = 0
  OBVIOUS
<1>6. \A r \in Requests : at[r] = "free"
  OBVIOUS
<1>7. QueueAndJobs /\ RemovalIsSafe /\ DataIsThere /\ AbsentIsFresh /\ PromiseIsPosted
  BY <1>1, <1>5, <1>6
     DEF QueueAndJobs, RemovalIsSafe, DataIsThere, AbsentIsFresh, PromiseIsPosted, InPool, Running,
         Reading, Writing
<1>8. StreamingIsWritten /\ ChunksAnnounced /\ CollectionIsAlone
  BY <1>5, <1>6 DEF StreamingIsWritten, ChunksAnnounced, CollectionIsAlone, Writing
<1>9. EndsInOrder /\ ReaderIsServed /\ DoneIsListed /\ BarrierCovers
  BY <1>1, <1>5 DEF EndsInOrder, ReaderIsServed, DoneIsListed, BarrierCovers
<1> QED BY <1>4, <1>7, <1>8, <1>9 DEF IInv

\* Every step preserves it.
LEMMA StepIInv == IInv /\ [Next]_vars => IInv'
<1>1. ASSUME IInv, Next PROVE IInv'
  BY <1>1, StepTypes, StepQueue, StepRemoval, StepData, StepAbsent, StepPromise, StepStreaming, StepChunks,
     StepCollection, StepEnds, StepServed, StepListed, StepBarrier DEF IInv
<1>2. ASSUME IInv, UNCHANGED vars PROVE IInv'
  <2>1. TypeOK'
    BY <1>2 DEF IInv, TypeOK, vars, data, kinds, calls, sync, used, main
  <2> QED BY <1>2, <2>1, Frames DEF IInv, vars, data, kinds, calls, sync, used, main
<1> QED BY <1>1, <1>2

\* The inductive invariant holds throughout.
THEOREM Inductive == SafeSpec => []IInv
  BY InitIInv, StepIInv, PTL DEF SafeSpec

\* The data of a file outlive the jobs that use them: a file is removed, and
\* the pool destroyed, when no job touches its data (WaitJobs, RemoveUnused,
\* Clear, Destroyed).
THEOREM DataAreSafe == SafeSpec => []DataOutlivesJobs
<1>1. IInv => DataOutlivesJobs
  <2> SUFFICES ASSUME IInv PROVE DataOutlivesJobs
    OBVIOUS
  <2>1. JobsTouchLiveData
    BY DEF JobsTouchLiveData, IInv, DataIsThere, EndsInOrder, InPool, Running, Reading, Writing
  <2>2. DestroyedIsQuiet
    BY DEF DestroyedIsQuiet, IInv, EndsInOrder
  <2> QED BY <2>1, <2>2 DEF DataOutlivesJobs
<1> QED BY <1>1, Inductive, PTL

\* Of the jobs for a file one writes, and the file streams while it does.
THEOREM WritersAreAlone == SafeSpec => []OneWriter
<1>1. IInv => OneWriter
  <2> SUFFICES ASSUME IInv, NEW f \in Files
               PROVE  LET writers == {r \in Requests : at[r] \in Writing /\ file[r] = f} IN
                      /\ Cardinality(writers) <= 1
                      /\ f \in preloaded => (status[f] = "Streaming" <=> writers # {})
    BY DEF OneWriter
  <2> DEFINE writers == {r \in Requests : at[r] \in Writing /\ file[r] = f}
  <2>1. status[f] = "Streaming" <=> writers # {}
    BY DEF IInv, StreamingIsWritten
  <2>2. \A q, r \in writers : q = r
    BY DEF IInv, StreamingIsWritten
  <2>3. Cardinality(writers) <= 1
    <3>1. CASE writers = {}
      BY <3>1, FS_EmptySet
    <3>2. CASE writers # {}
      <4>1. PICK r \in writers : TRUE
        BY <3>2
      <4>2. writers = {r}
        BY <2>2, <4>1
      <4>3. Cardinality({r}) = 1
        BY FS_Singleton
      <4> HIDE DEF writers
      <4> QED BY <4>2, <4>3
    <3> QED BY <3>1, <3>2
  <2> QED BY <2>1, <2>3
<1> QED BY <1>1, Inductive, PTL

\* A reader never reads past what a job has filled.
THEOREM ReadersReadFrames == SafeSpec => []AvailableIsFilled
<1>1. IInv => AvailableIsFilled
  BY DEF IInv, ChunksAnnounced, AvailableIsFilled, TypeOK
<1> QED BY <1>1, Inductive, PTL

\* No load, no listing and no wake-up is lost.
THEOREM NoLoadIsLost == SafeSpec => []NothingLost
<1>1. IInv => NothingLost
  BY DEF IInv, NothingLost
<1> QED BY <1>1, Inductive, PTL
=============================================================================
