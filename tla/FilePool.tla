------------------------------ MODULE FilePool ------------------------------
(***************************************************************************)
(* The sample pool of sfizz as this repository builds it: one caller (the  *)
(* synthesizer, whose calls follow one another), the dispatching thread,   *)
(* loading jobs on a thread pool and the collecting thread.  A file is     *)
(* some chunks of frames; the maps are looked up by file.                  *)
(*                                                                         *)
(* FilePool.h is not in the repository.  A holder counts a reader; a       *)
(* caller that removes a file first drops its holders and its region,      *)
(* whose weak pointer then expires, and waits for the loading jobs.        *)
(***************************************************************************)
EXTENDS Naturals, Sequences, FiniteSets

CONSTANTS
  Files,     \* samples
  Chunks,    \* chunks of config::fileChunkSize a file has
  MaxRequests,\* bound: promises under way at once
  Capacity,  \* places in filesToLoad
  Threads,   \* threads of the pool
  MaxVoices, \* capacity of garbageToCollect
  MaxReaders,\* bound: holders of one file at once
  MaxPosts   \* bound: posts of a semaphore that nobody took yet

ASSUME FilePoolAssumption ==
  /\ Files # {}
  /\ {MaxRequests, Chunks, Capacity, Threads, MaxVoices, MaxReaders, MaxPosts}
       \subseteq Nat \ {0}

Requests == 1..MaxRequests

VARIABLES
  \* FileData, one for every file in preloadedFiles
  preloaded,   \* the keys of preloadedFiles
  fullyLoaded, \* files whose preloaded part is all of them
  broken,      \* files that a job cannot open
  status, available, readers,
  filled,      \* chunks of fileData that hold the file's frames
  \* QueuedFileData and the jobs made of them
  file,        \* what a request is for
  expired,     \* requests whose region was deleted
  at,          \* where a request is
  filesToLoad, loadingJobs,
  dispatchBarrier, semGarbageBarrier, dispatchFlag, garbageFlag,
  lastUsedFiles,
  garbage,     \* how many buffers are in garbageToCollect
  caller,      \* what the caller is doing
  request,     \* the request it has pushed
  todo,        \* files it has yet to visit, or is about to remove
  from,        \* the file it collects and the status it had
  dispatcher, collector

kinds == <<preloaded, fullyLoaded, broken>>
data  == <<kinds, status, available, readers, filled>>
calls == <<file, expired, at, filesToLoad, loadingJobs>>
sync  == <<dispatchBarrier, semGarbageBarrier, dispatchFlag, garbageFlag>>
used  == <<lastUsedFiles, garbage>>
main  == <<caller, request, todo, from>>
vars  == <<data, calls, sync, used, main, dispatcher, collector>>

None == "none"

\* A job that runs, where it uses the file's data.
Reading  == {"status", "cas"}
Writing  == {"chunk", "publish"}
Running  == Reading \cup Writing \cup {"done"}
InPool   == {"pooled", "finished"} \cup Running
Busy     == {r \in Requests : at[r] \in Running}

\* Who else takes one of the two mutexes waits for nothing while it holds it:
\* such a section is one step, and only the caller is seen inside one.
LoadingLocked == caller = "wait_jobs"
GarbageLocked == caller \in {"visit", "collect", "empty", "move", "return", "unlist"}

Init ==
  /\ preloaded = {} /\ fullyLoaded = {} /\ broken \in SUBSET Files
  /\ status = [f \in Files |-> "Preloaded"]
  /\ available = [f \in Files |-> 0] /\ filled = [f \in Files |-> 0]
  /\ readers = [f \in Files |-> 0]
  /\ file = [r \in Requests |-> CHOOSE f \in Files : TRUE] /\ expired = {}
  /\ at = [r \in Requests |-> "free"]
  /\ filesToLoad = <<>> /\ loadingJobs = {}
  /\ dispatchBarrier = 0 /\ semGarbageBarrier = 0
  /\ dispatchFlag = TRUE /\ garbageFlag = TRUE
  /\ lastUsedFiles = {} /\ garbage = 0
  /\ caller = "idle" /\ request = 0 /\ todo = {} /\ from = <<None, None>>
  /\ dispatcher = "wait" /\ collector = "wait"

-----------------------------------------------------------------------------
(* The caller: preloading, promises and holders.                           *)

Go(here, next) == caller = here /\ caller' = next

\* preloadFile of a file that is not there: all of it, or its first frames.
Preload(f, all) ==
  /\ caller = "idle" /\ f \notin preloaded
  /\ preloaded' = preloaded \cup {f}
  /\ fullyLoaded' = IF all THEN fullyLoaded \cup {f} ELSE fullyLoaded
  /\ UNCHANGED <<broken, status, available, readers, filled, calls, sync, used, main,
                 dispatcher, collector>>

\* getFilePromise of a file whose preloaded part is all of it.
PromiseShort_AnyFile(f) ==
  /\ caller = "idle" /\ f \in preloaded /\ readers[f] < MaxReaders
  /\ readers' = [readers EXCEPT ![f] = @ + 1]
  /\ UNCHANGED <<kinds, status, available, filled, calls, sync, used, main, dispatcher,
                 collector>>
PromiseShort(f) ==
  /\ caller = "idle" /\ f \in preloaded \cap fullyLoaded /\ readers[f] < MaxReaders
  /\ readers' = [readers EXCEPT ![f] = @ + 1]
  /\ UNCHANGED <<kinds, status, available, filled, calls, sync, used, main, dispatcher,
                 collector>>

\* getFilePromise of another one; a full queue makes it fail.
PushRequest(f, r) ==
  /\ f \in preloaded \ fullyLoaded /\ readers[f] < MaxReaders
  /\ at[r] = "free" /\ (\A q \in Requests : at[q] = "free" => r <= q)
  /\ dispatchBarrier < MaxPosts
  /\ Len(filesToLoad) < Capacity
  /\ Go("idle", "post")
  /\ filesToLoad' = Append(filesToLoad, r) /\ request' = r
  /\ file' = [file EXCEPT ![r] = f] /\ at' = [at EXCEPT ![r] = "queued"]
  /\ UNCHANGED <<data, expired, loadingJobs, sync, used, todo, from, dispatcher,
                 collector>>

PostRequest ==
  /\ Go("post", "idle")
  /\ dispatchBarrier' = dispatchBarrier + 1
  /\ readers' = [readers EXCEPT ![file[request]] = @ + 1] /\ request' = 0
  /\ UNCHANGED <<kinds, status, available, filled, calls, semGarbageBarrier,
                 dispatchFlag, garbageFlag, used, todo, from, dispatcher, collector>>

\* A FileDataHolder goes.
Release(f) ==
  /\ caller = "idle" /\ readers[f] > 0
  /\ readers' = [readers EXCEPT ![f] = @ - 1]
  /\ UNCHANGED <<kinds, status, available, filled, calls, sync, used, main, dispatcher,
                 collector>>

-----------------------------------------------------------------------------
(* The caller: triggerGarbageCollection.                                   *)

Visiting == caller = "visit" /\ UNCHANGED <<request, sync, calls, dispatcher,
                                            collector>>

\* (When a job or the collector has the lock, it returns at once.)
GarbageLock ==
  /\ semGarbageBarrier < MaxPosts
  /\ Go("idle", "visit") /\ todo' = lastUsedFiles
  /\ UNCHANGED <<data, calls, dispatchBarrier, semGarbageBarrier, dispatchFlag,
                 garbageFlag, used, request, from, dispatcher, collector>>

Collectable(f) ==
  \/ status[f] = "Preloaded" /\ available[f] # 0
  \/ status[f] = "Done"

\* garbageToCollect is full, or the file is read, was read a moment ago, or
\* is being loaded.
KeepFile(f) ==
  /\ Visiting /\ f \in todo /\ (f \in preloaded \/ garbage = MaxVoices)
  /\ todo' = todo \ {f}
  /\ UNCHANGED <<caller, from, data, used>>

DropFile(f) ==
  /\ Visiting /\ f \in todo /\ garbage < MaxVoices
  /\ \/ f \notin preloaded
     \/ readers[f] = 0 /\ status[f] = "Preloaded" /\ available[f] = 0
  /\ todo' = todo \ {f} /\ lastUsedFiles' = lastUsedFiles \ {f}
  /\ UNCHANGED <<caller, from, data, garbage>>

MarkFile(f) ==
  /\ Visiting /\ f \in todo \cap preloaded /\ garbage < MaxVoices
  /\ readers[f] = 0 /\ Collectable(f)
  /\ caller' = "collect" /\ from' = <<f, status[f]>> /\ todo' = todo \ {f}
  /\ UNCHANGED <<data, used>>

\* The exchange of status, and the second look at the readers.
BeginCollect ==
  LET f == from[1] IN
  /\ caller = "collect"
  /\ IF status[f] = from[2] /\ readers[f] = 0
       THEN /\ status' = [status EXCEPT ![f] = "GarbageCollecting"]
            /\ caller' = "empty" /\ UNCHANGED from
       ELSE caller' = "visit" /\ from' = <<None, None>> /\ UNCHANGED status
  /\ UNCHANGED <<kinds, available, readers, filled, calls, sync, used, request, todo,
                 dispatcher, collector>>

ClearAvailable_Skipped ==
  /\ Go("empty", "move")
  /\ UNCHANGED <<kinds, available, status, readers, filled, calls, sync, used, request, todo, from,
                 dispatcher, collector>>
ClearAvailable ==
  /\ Go("empty", "move")
  /\ available' = [available EXCEPT ![from[1]] = 0]
  /\ UNCHANGED <<kinds, status, readers, filled, calls, sync, used, request, todo, from,
                 dispatcher, collector>>

MoveData ==
  /\ Go("move", "return")
  /\ filled' = [filled EXCEPT ![from[1]] = 0] /\ garbage' = garbage + 1
  /\ UNCHANGED <<kinds, status, available, readers, calls, sync, lastUsedFiles, request,
                 todo, from, dispatcher, collector>>

ReturnFile ==
  /\ Go("return", "unlist")
  /\ status' = [status EXCEPT ![from[1]] = "Preloaded"]
  /\ UNCHANGED <<kinds, available, readers, filled, calls, sync, used, request, todo,
                 from, dispatcher, collector>>

UnlistFile ==
  /\ Go("unlist", "visit")
  /\ lastUsedFiles' = lastUsedFiles \ {from[1]} /\ from' = <<None, None>>
  /\ UNCHANGED <<data, calls, sync, garbage, request, todo, dispatcher, collector>>

EndCollection ==
  /\ todo = {} /\ Go("visit", "idle")
  /\ semGarbageBarrier' = semGarbageBarrier + 1
  /\ UNCHANGED <<data, calls, dispatchBarrier, dispatchFlag, garbageFlag, used, request,
                 todo, from, dispatcher, collector>>

-----------------------------------------------------------------------------
(* The caller: files are removed.                                          *)

\* The voices and regions that use fs go.
DeleteRegions(fs) ==
  /\ fs \subseteq preloaded /\ fs # {} /\ \A f \in fs : readers[f] = 0
  /\ Go("idle", "wait_lock") /\ todo' = fs
  /\ expired' = expired \cup {r \in Requests : at[r] # "free" /\ file[r] \in fs}
  /\ UNCHANGED <<data, file, at, filesToLoad, loadingJobs, sync, used, request, from,
                 dispatcher, collector>>

\* waitForBackgroundLoading.
WaitLock ==
  /\ Go("wait_lock", "wait_jobs")
  /\ UNCHANGED <<data, calls, dispatchBarrier, semGarbageBarrier, dispatchFlag,
                 garbageFlag, used, request, todo, from, dispatcher, collector>>

Finished == {r \in loadingJobs : at[r] = "finished"}

WaitJobs_NotAwaited ==
  /\ Go("wait_jobs", "remove")
  /\ loadingJobs' = {}
  /\ UNCHANGED <<data, file, at, expired, filesToLoad, sync, used, request, todo, from, dispatcher,
                 collector>>
WaitJobs ==
  /\ loadingJobs = Finished /\ Go("wait_jobs", "remove")
  /\ at' = [r \in Requests |-> IF r \in loadingJobs THEN "free" ELSE at[r]]
  /\ expired' = expired \ loadingJobs /\ loadingJobs' = {}
  /\ UNCHANGED <<data, file, filesToLoad, sync, used, request, todo, from, dispatcher,
                 collector>>

\* The data of fs go; a file preloaded again has new data.
Erase(fs) ==
  /\ preloaded' = preloaded \ fs /\ fullyLoaded' = fullyLoaded \ fs
  /\ status' = [f \in Files |-> IF f \in fs THEN "Preloaded" ELSE status[f]]
  /\ available' = [f \in Files |-> IF f \in fs THEN 0 ELSE available[f]]
  /\ filled' = [f \in Files |-> IF f \in fs THEN 0 ELSE filled[f]]
  /\ UNCHANGED <<broken, readers>>

\* removeUnusedPreloadedData: only these files were not preloaded again.
RemoveUnused ==
  /\ Go("remove", "idle") /\ Erase(todo) /\ todo' = {}
  /\ UNCHANGED <<calls, sync, used, request, from, dispatcher, collector>>

\* clear.
Clear ==
  /\ todo = preloaded /\ Go("remove", "idle")
  /\ Erase(preloaded) /\ todo' = {} /\ lastUsedFiles' = {} /\ garbage' = 0
  /\ filesToLoad' = <<>>
  /\ at' = [r \in Requests |-> IF at[r] = "queued" THEN "free" ELSE at[r]]
  /\ expired' = {r \in expired : at[r] # "queued"}
  /\ UNCHANGED <<file, loadingJobs, sync, request, from, dispatcher, collector>>

-----------------------------------------------------------------------------
(* The caller: ~FilePool, when no holder is left.                          *)

StopGarbage ==
  /\ \A f \in Files : readers[f] = 0
  /\ Go("idle", "join_garbage")
  /\ garbageFlag' = FALSE /\ semGarbageBarrier' = semGarbageBarrier + 1
  /\ UNCHANGED <<data, calls, dispatchBarrier, dispatchFlag, used, request, todo, from,
                 dispatcher, collector>>

StopDispatch ==
  /\ collector = "ended" /\ Go("join_garbage", "join_dispatch")
  /\ dispatchFlag' = FALSE /\ dispatchBarrier' = dispatchBarrier + 1
  /\ UNCHANGED <<data, calls, semGarbageBarrier, garbageFlag, used, request, todo, from,
                 dispatcher, collector>>

DispatchJoined ==
  /\ dispatcher = "ended" /\ Go("join_dispatch", "join_jobs")
  /\ UNCHANGED <<data, calls, sync, used, request, todo, from, dispatcher, collector>>

Destroyed ==
  /\ loadingJobs = Finished /\ Go("join_jobs", "destroyed")
  /\ Erase(preloaded)
  /\ UNCHANGED <<calls, sync, used, request, todo, from, dispatcher, collector>>

-----------------------------------------------------------------------------
(* dispatchingJob.                                                         *)

DispatchWait ==
  /\ dispatcher = "wait" /\ dispatchBarrier > 0
  /\ dispatchBarrier' = dispatchBarrier - 1 /\ dispatcher' = "check"
  /\ UNCHANGED <<data, calls, semGarbageBarrier, dispatchFlag, garbageFlag, used, main,
                 collector>>

DispatchCheck ==
  /\ dispatcher = "check"
  /\ dispatcher' = IF dispatchFlag THEN "lock" ELSE "ended"
  /\ UNCHANGED <<data, calls, sync, used, main, collector>>

\* With loadingJobsMutex: the oldest request becomes a job unless its region
\* is gone, and jobs that are over are forgotten.
DispatchLoad ==
  /\ dispatcher = "lock" /\ ~LoadingLocked /\ dispatcher' = "wait"
  /\ LET popped == IF filesToLoad = <<>> THEN {} ELSE {Head(filesToLoad)}
         jobs   == popped \ expired
         over   == Finished \cup (popped \cap expired)
     IN /\ filesToLoad' = IF popped = {} THEN filesToLoad ELSE Tail(filesToLoad)
        /\ at' = [r \in Requests |-> IF r \in over THEN "free"
                                    ELSE IF r \in jobs THEN "pooled" ELSE at[r]]
        /\ expired' = expired \ over
        /\ loadingJobs' = (loadingJobs \ over) \cup jobs
  /\ UNCHANGED <<data, file, sync, used, main, collector>>

-----------------------------------------------------------------------------
(* loadingJob.                                                             *)

Job(r, here, next) == at[r] = here /\ at' = [at EXCEPT ![r] = next]

JobFrame == UNCHANGED <<file, expired, filesToLoad, loadingJobs, kinds, readers,
                        dispatchBarrier, semGarbageBarrier, dispatchFlag, garbageFlag,
                        main, dispatcher, collector>>

JobFails(r) == r \in expired \/ file[r] \in broken

JobStart(r) ==
  /\ Cardinality(Busy) < Threads
  /\ Job(r, "pooled", IF JobFails(r) THEN "finished" ELSE "status")
  /\ JobFrame /\ UNCHANGED <<status, available, filled, used>>

\* It spins while the file is collected.
JobStatus_NoReturn(r) ==
  /\ status[file[r]] # "GarbageCollecting"
  /\ Job(r, "status", "cas")
  /\ JobFrame /\ UNCHANGED <<status, available, filled, used>>
JobStatus(r) ==
  /\ status[file[r]] # "GarbageCollecting"
  /\ Job(r, "status", IF status[file[r]] = "Preloaded" THEN "cas" ELSE "finished")
  /\ JobFrame /\ UNCHANGED <<status, available, filled, used>>

\* The one that takes the file empties its buffer.
JobTake_NoExchange(r) ==
  /\ Job(r, "cas", "chunk")
  /\ status' = [status EXCEPT ![file[r]] = "Streaming"]
  /\ filled' = [filled EXCEPT ![file[r]] = 0]
  /\ JobFrame /\ UNCHANGED <<available, used>>
JobTake(r) ==
  /\ status[file[r]] = "Preloaded" /\ Job(r, "cas", "chunk")
  /\ status' = [status EXCEPT ![file[r]] = "Streaming"]
  /\ filled' = [filled EXCEPT ![file[r]] = 0]
  /\ JobFrame /\ UNCHANGED <<available, used>>

JobMisses(r) ==
  /\ status[file[r]] # "Preloaded" /\ Job(r, "cas", "status")
  /\ JobFrame /\ UNCHANGED <<status, available, filled, used>>

JobChunk(r) ==
  /\ filled[file[r]] < Chunks /\ Job(r, "chunk", "publish")
  /\ filled' = [filled EXCEPT ![file[r]] = @ + 1]
  /\ JobFrame /\ UNCHANGED <<status, available, used>>

JobPublish(r) ==
  /\ Job(r, "publish", "chunk")
  /\ available' = [available EXCEPT ![file[r]] = @ + 1]
  /\ JobFrame /\ UNCHANGED <<status, filled, used>>

\* The end of the file, which a reader may meet early.
JobStreamed_StaysStreaming(r) ==
  /\ Job(r, "chunk", "done")
  /\ status' = [status EXCEPT ![file[r]] = "Streaming"]
  /\ JobFrame /\ UNCHANGED <<available, filled, used>>
JobStreamed(r) ==
  /\ Job(r, "chunk", "done")
  /\ status' = [status EXCEPT ![file[r]] = "Done"]
  /\ JobFrame /\ UNCHANGED <<available, filled, used>>

JobList(r) ==
  /\ ~GarbageLocked /\ Job(r, "done", "finished")
  /\ lastUsedFiles' = lastUsedFiles \cup {file[r]}
  /\ JobFrame /\ UNCHANGED <<status, available, filled, garbage>>

-----------------------------------------------------------------------------
(* garbageJob.                                                             *)

CollectorFrame == UNCHANGED <<data, calls, dispatchBarrier, dispatchFlag, garbageFlag,
                              lastUsedFiles, main, dispatcher>>

CollectorWait ==
  /\ collector = "wait" /\ semGarbageBarrier > 0
  /\ semGarbageBarrier' = semGarbageBarrier - 1 /\ collector' = "check"
  /\ CollectorFrame /\ UNCHANGED <<garbage>>

CollectorCheck ==
  /\ collector = "check" /\ collector' = IF garbageFlag THEN "lock" ELSE "ended"
  /\ CollectorFrame /\ UNCHANGED <<semGarbageBarrier, garbage>>

CollectorClear ==
  /\ collector = "lock" /\ ~GarbageLocked
  /\ collector' = "wait" /\ garbage' = 0
  /\ CollectorFrame /\ UNCHANGED semGarbageBarrier

-----------------------------------------------------------------------------

\* What the caller does when it likes.
Calls ==
  \/ \E f \in Files : \/ \E all \in BOOLEAN : Preload(f, all)
                      \/ PromiseShort(f) \/ Release(f)
                      \/ \E r \in Requests : PushRequest(f, r)
  \/ GarbageLock \/ StopGarbage
  \/ \E fs \in SUBSET preloaded : DeleteRegions(fs)

\* What it finishes once it has begun.
Visits == \/ \E f \in todo : KeepFile(f) \/ DropFile(f) \/ MarkFile(f)
          \/ BeginCollect \/ ClearAvailable \/ MoveData \/ ReturnFile \/ UnlistFile
          \/ EndCollection

Caller == \/ PostRequest \/ Visits
          \/ WaitLock \/ WaitJobs \/ RemoveUnused \/ Clear
          \/ StopDispatch \/ DispatchJoined \/ Destroyed

Dispatcher == DispatchWait \/ DispatchCheck \/ DispatchLoad

LoadingJob(r) == \/ JobStart(r) \/ JobStatus(r) \/ JobTake(r) \/ JobMisses(r)
                 \/ JobChunk(r) \/ JobPublish(r) \/ JobStreamed(r)
                 \/ JobList(r)

Collector == CollectorWait \/ CollectorCheck \/ CollectorClear

Next == \/ Calls \/ Caller \/ Dispatcher \/ \E r \in Requests : LoadingJob(r)
        \/ Collector \/ (caller = "destroyed" /\ UNCHANGED vars)

\* Threads run; a lock that is freed, or a status that comes back, again and
\* again is met at last.
SafeSpec == Init /\ [][Next]_vars
Spec ==
  /\ SafeSpec
  /\ SF_vars(Caller) /\ SF_vars(Dispatcher) /\ SF_vars(Collector)
  /\ \A r \in Requests : SF_vars(LoadingJob(r))
-----------------------------------------------------------------------------
(* Properties.                                                             *)

Statuses == {"Preloaded", "Streaming", "Done", "GarbageCollecting"}

TypeOK ==
  /\ preloaded \subseteq Files /\ fullyLoaded \subseteq preloaded
  /\ broken \subseteq Files /\ lastUsedFiles \subseteq Files /\ todo \subseteq Files
  /\ status \in [Files -> Statuses]
  /\ available \in [Files -> 0..Chunks] /\ filled \in [Files -> 0..Chunks]
  /\ readers \in [Files -> 0..MaxReaders] /\ file \in [Requests -> Files]
  /\ at \in [Requests -> {"free", "queued"} \cup InPool]
  /\ expired \subseteq Requests /\ loadingJobs \subseteq Requests
  /\ filesToLoad \in Seq(Requests) /\ Len(filesToLoad) <= Capacity
  /\ dispatchBarrier \in Nat /\ semGarbageBarrier \in Nat
  /\ {dispatchFlag, garbageFlag} \subseteq BOOLEAN
  /\ garbage \in 0..MaxVoices
  /\ caller \in {"idle", "post", "visit", "collect", "empty", "move", "return", "unlist",
                 "wait_lock", "wait_jobs", "remove", "join_garbage", "join_dispatch",
                 "join_jobs", "destroyed"}
  /\ request \in Requests \cup {0}
  /\ from \in (Files \cup {None}) \X (Statuses \cup {None})
  /\ dispatcher \in {"wait", "check", "lock", "ended"}
  /\ collector \in {"wait", "check", "lock", "ended"}

\* No job touches the data of a file that was removed, whether it was queued,
\* in the pool or running when the region went (lines 482-533, 563-601).
JobsTouchLiveData ==
  \A r \in Requests : at[r] \in Reading \cup Writing => file[r] \in preloaded

\* The destructor leaves no thread or job behind that uses the pool
\* (lines 153-167).
DestroyedIsQuiet ==
  caller = "destroyed" =>
    /\ \A r \in Requests : at[r] \in InPool => at[r] = "finished"
    /\ dispatcher = "ended" /\ collector = "ended"

\* Both: the data outlive whoever uses them, a removal and the end included.
DataOutlivesJobs == JobsTouchLiveData /\ DestroyedIsQuiet

\* Of several jobs for one file one writes, and while it does nobody collects
\* the file (lines 503-535, 699-709).
OneWriter ==
  \A f \in Files :
    LET writers == {r \in Requests : at[r] \in Writing /\ file[r] = f} IN
    /\ Cardinality(writers) <= 1
    /\ f \in preloaded => (status[f] = "Streaming" <=> writers # {})

\* A reader that believes availableFrames reads frames of the file, across
\* streaming, collection and streaming again (lines 107-140, 703-705); and the
\* variables have their types.
AvailableIsFilled == TypeOK /\ \A f \in preloaded : available[f] <= filled[f]

\* A holder of a file that streams has its data, or a job under way to it:
\* neither a second job nor the collection loses the load (lines 432-458).
Served(f) ==
  \/ status[f] \in {"Streaming", "Done"}
  \/ \E r \in Requests \ expired :
       file[r] = f /\ at[r] \in {"queued", "pooled", "status", "cas"}
ReaderIsServed ==
  \A f \in Files \ (fullyLoaded \cup broken) : readers[f] > 0 => Served(f)

\* A file that was streamed can be collected: it is in lastUsedFiles, or its
\* job is about to put it there (lines 535-539, 667-710).
ToBeListed(f) == \E r \in Requests : at[r] = "done" /\ file[r] = f
DoneIsListed ==
  \A f \in preloaded : status[f] = "Done" => f \in lastUsedFiles \/ ToBeListed(f)

\* The dispatcher is woken for every request in the queue (lines 446-454, 565-569).
BarrierCovers ==
  dispatchFlag =>
    Len(filesToLoad) <= dispatchBarrier
                        + (IF dispatcher \in {"check", "lock"} THEN 1 ELSE 0)
                        + (IF caller = "post" THEN 1 ELSE 0)

\* All three: no load, no listing and no wake-up is lost.
NothingLost == ReaderIsServed /\ DoneIsListed /\ BarrierCovers

\* Whoever holds a file long enough gets all of it.
PromiseIsKept ==
  \A f \in Files :
    readers[f] > 0 /\ f \notin fullyLoaded \cup broken
      ~> readers[f] = 0 \/ status[f] = "Done"

\* A promise, a collection, a removal and the destructor come to an end: no
\* lock, barrier or job is waited for in vain.
CallsReturn ==
  caller \notin {"idle", "destroyed"} ~> caller \in {"idle", "destroyed"}
-----------------------------------------------------------------------------
(* The inductive invariant.                                                *)

\* The queue holds requests that are queued, none twice; a job has its place
\* in loadingJobs, and only what is under way can be without a region.
QueueAndJobs ==
  /\ \A k \in 1..Len(filesToLoad) :
       /\ at[filesToLoad[k]] = "queued"
       /\ \A j \in 1..Len(filesToLoad) : filesToLoad[j] = filesToLoad[k] => j = k
  /\ \A r \in Requests : /\ at[r] \in InPool => r \in loadingJobs
                         /\ r \in expired => at[r] # "free"

\* The files about to be removed have no holder, all their requests have lost
\* their region, and once the jobs were awaited only queued ones are left.
RemovalIsSafe ==
  caller \in {"wait_lock", "wait_jobs", "remove"} =>
    \A f \in todo :
      /\ readers[f] = 0
      /\ \A r \in Requests : at[r] # "free" /\ file[r] = f =>
           r \in expired /\ (caller = "remove" => at[r] = "queued")

\* A holder, a job and a request whose region is there have the file's data.
DataIsThere ==
  /\ \A f \in Files : readers[f] > 0 => f \in preloaded
  /\ caller # "destroyed" =>
       \A r \in Requests : at[r] \in InPool \/ (at[r] = "queued" /\ r \notin expired)
                           => file[r] \in preloaded

\* A file that is not there has left nothing to the one that may come back.
AbsentIsFresh == \A f \in Files \ preloaded : status[f] = "Preloaded"

\* The promise the caller makes is for data that are there, and served.
PromiseIsPosted ==
  caller = "post" =>
    /\ request \in Requests /\ file[request] \in preloaded
    /\ readers[file[request]] < MaxReaders
    /\ file[request] \notin fullyLoaded \cup broken => Served(file[request])

\* A file streams while one job writes it.
StreamingIsWritten ==
  /\ \A f \in Files : status[f] = "Streaming"
                      <=> \E r \in Requests : at[r] \in Writing /\ file[r] = f
  /\ \A q, r \in Requests :
       at[q] \in Writing /\ at[r] \in Writing /\ file[q] = file[r] => q = r

\* How many chunks are there, and how many are announced.
ChunksAnnounced ==
  /\ \A f \in Files : /\ available[f] <= filled[f]
                      /\ status[f] = "Preloaded" => filled[f] = 0
  /\ \A r \in Requests : /\ at[r] = "chunk" => available[file[r]] = filled[file[r]]
                         /\ at[r] = "publish" => available[file[r]] + 1 = filled[file[r]]

\* The file under collection: nobody holds it, no job has it, and a job that
\* takes it as soon as it is back has not been able to list it yet.
CollectionIsAlone ==
  /\ \A f \in Files : status[f] = "GarbageCollecting"
                      <=> (caller \in {"empty", "move", "return"} /\ f = from[1])
  /\ caller \in {"collect", "empty", "move", "return", "unlist"} => from[1] \in preloaded
  /\ caller \in {"collect", "empty", "move"} => garbage < MaxVoices
  /\ caller = "collect" => from[2] \in {"Preloaded", "Done"}
  /\ caller \in {"empty", "move", "return"} => readers[from[1]] = 0
  /\ caller \in {"move", "return"} => available[from[1]] = 0
  /\ caller = "return" => filled[from[1]] = 0
  /\ caller = "unlist" /\ status[from[1]] = "Done" => ToBeListed(from[1])

\* The destructor has no holder to fear, and keeps its order.
EndsInOrder ==
  /\ caller \in {"join_garbage", "join_dispatch", "join_jobs", "destroyed"} =>
       \A f \in Files : readers[f] = 0
  /\ caller \in {"join_dispatch", "join_jobs", "destroyed"} => collector = "ended"
  /\ caller \in {"join_jobs", "destroyed"} => dispatcher = "ended"
  /\ caller = "destroyed" => \A r \in Requests : at[r] \in InPool => at[r] = "finished"

IInv ==
  /\ TypeOK /\ QueueAndJobs /\ RemovalIsSafe /\ DataIsThere /\ AbsentIsFresh
  /\ PromiseIsPosted
  /\ StreamingIsWritten /\ ChunksAnnounced /\ CollectionIsAlone /\ EndsInOrder
  /\ ReaderIsServed /\ DoneIsListed /\ BarrierCovers
=============================================================================
