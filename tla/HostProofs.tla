----------------------------- MODULE HostProofs -----------------------------
(***************************************************************************)
(* Proofs about what a plugin host may still touch while something in it   *)
(* begins or ends: LphHost, for any number of instances and ports, and     *)
(* JalvLifecycle, for every way to run and to fail.  The two specifications *)
(* share no variable and no definition.                                    *)
(***************************************************************************)
EXTENDS LphHost, JalvLifecycle, TLAPS

USE LphHostAssumption
-----------------------------------------------------------------------------
(* LphHost.                                                                *)

\* Who has the mutex, who a loop, and how far each instance is: the invariant
\* that the two properties rest on is kept by every step of thread, loop and
\* cycle (lph.c:205-349).
THEOREM HostInductive == HostSpec => []HostIInv
<1>1. HostInit => HostIInv
  BY DEF HostInit, HostIInv, HostTypeOK, Framed, Held, LoopHeld, Connected, Active, Left
<1>2. HostIInv /\ [HostNext]_hostVars => HostIInv'
  <2> SUFFICES ASSUME HostIInv, [HostNext]_hostVars PROVE HostIInv'
    OBVIOUS
  <2> USE DEF HostIInv, HostTypeOK, Framed, Held, LoopHeld, Connected, Active, Left, Move, Crash,
              host, inst, quits, LoopFree
  <2>1. ASSUME NEW i \in Instances, Start(i) PROVE HostIInv'
    BY <2>1 DEF Start
  <2>2. ASSUME NEW i \in Instances, TakeLock(i) PROVE HostIInv'
    BY <2>2 DEF TakeLock
  <2>3. ASSUME NEW i \in Instances, Connect(i) PROVE HostIInv'
    BY <2>3 DEF Connect
  <2>4. ASSUME NEW i \in Instances, FailConnect(i) PROVE HostIInv'
    BY <2>4 DEF FailConnect
  <2>5. ASSUME NEW i \in Instances, InstantiatePlugin(i) PROVE HostIInv'
    BY <2>5 DEF InstantiatePlugin
  <2>6. ASSUME NEW i \in Instances, FailInstantiate(i) PROVE HostIInv'
    BY <2>6 DEF FailInstantiate
  <2>7. ASSUME NEW i \in Instances, SetUpPort(i) PROVE HostIInv'
    BY <2>7 DEF SetUpPort
  <2>8. ASSUME NEW i \in Instances, Activate(i) PROVE HostIInv'
    BY <2>8 DEF Activate
  <2>9. ASSUME NEW i \in Instances, Unlock(i) PROVE HostIInv'
    BY <2>9 DEF Unlock
  <2>10. ASSUME NEW i \in Instances, Wait(i) PROVE HostIInv'
    BY <2>10 DEF Wait
  <2>11. ASSUME NEW i \in Instances, Wake(i) PROVE HostIInv'
    BY <2>11 DEF Wake
  <2>12. ASSUME NEW i \in Instances, Relock(i) PROVE HostIInv'
    BY <2>12 DEF Relock
  <2>13. ASSUME NEW i \in Instances, Deactivate(i) PROVE HostIInv'
    BY <2>13 DEF Deactivate
  <2>14. ASSUME NEW i \in Instances, UnlockAgain(i) PROVE HostIInv'
    BY <2>14 DEF UnlockAgain
  <2>15. ASSUME NEW i \in Instances, UnlockLoop(i) PROVE HostIInv'
    BY <2>15 DEF UnlockLoop
  <2>16. ASSUME NEW i \in Instances, Stop(i) PROVE HostIInv'
    BY <2>16 DEF Stop
  <2>17. ASSUME NEW i \in Instances, Destroy(i) PROVE HostIInv'
    BY <2>17 DEF Destroy
  <2>18. ASSUME NEW i \in Instances, Deinit(i) PROVE HostIInv'
    BY <2>18 DEF Deinit
  <2>19. ASSUME NEW i \in Instances, LoopStart(i) PROVE HostIInv'
    BY <2>19 DEF LoopStart
  <2>20. ASSUME NEW i \in Instances, DoQuit(i) PROVE HostIInv'
    BY <2>20 DEF DoQuit
  <2>21. ASSUME NEW i \in Instances, Process(i) PROVE HostIInv'
    BY <2>21 DEF Process, PreRun, Run, PostRun, Cycle
  <2>22. ASSUME UsedAfterDeinit PROVE HostIInv'
    BY <2>22 DEF UsedAfterDeinit
  <2>23. ASSUME UNCHANGED hostVars PROVE HostIInv'
    BY <2>23 DEF hostVars
  <2> QED
    BY <2>1, <2>2, <2>3, <2>4, <2>5, <2>6, <2>7, <2>8, <2>9, <2>10, <2>11, <2>12, <2>13,
       <2>14, <2>15, <2>16, <2>17, <2>18, <2>19, <2>20, <2>21, <2>22, <2>23
       DEF HostNext, Thread
<1> QED
  BY <1>1, <1>2, PTL DEF HostSpec

\* Every callback of a loop and every cycle finds its struct data, also when
\* lph_thread_loop has returned after a failed connection (lph.c:251-254).
THEOREM CallbacksAreFramed == HostSpec => []StackIsLive
<1>1. HostIInv => StackIsLive
  BY DEF HostIInv, HostTypeOK, StackIsLive, LoopFree, Framed, Connected
<1> QED
  BY <1>1, HostInductive, PTL

\* Every cycle runs an instance that was activated, with all of its ports.
THEOREM CyclesAreSetUp == HostSpec => []CycleIsSetUp
<1>1. HostIInv => CycleIsSetUp
  BY DEF HostIInv, HostTypeOK, CycleIsSetUp, Framed, Connected, Active, Left
<1> QED
  BY <1>1, HostInductive, PTL

-----------------------------------------------------------------------------
(* JalvLifecycle.                                                          *)

\* The sets of places of the main thread are expanded wherever they occur.
USE DEF BeforeWorld, BeforeState, BeforeClient, BeforePlugin, InOpen, InFrontend, BeforeStop, Stopping,
        AfterCleanup, AfterPlugin, AfterBackend, AfterBuffers

\* What overwriting and freeing do to a pointer.
LEMMA SetSets ==
  ASSUME TypeOK, NEW ps \in SUBSET Pointers, NEW to \in {"null", "live"}, Set(ps, to)
  PROVE  /\ ptr' \in [Pointers -> {"null", "live", "freed"}]
         /\ \A p \in Pointers : ptr'[p] = IF p \in ps THEN to ELSE ptr[p]
         /\ lost' \subseteq Pointers /\ \A p \in lost' : p \in lost \/ (p \in ps /\ ptr[p] = "live")
         /\ UNCHANGED <<misused, asked>>
  BY DEF TypeOK, Set, Live

LEMMA FreeFrees ==
  ASSUME TypeOK, NEW ps \in SUBSET Pointers, NEW to \in {"null", "freed"}, Free(ps, to)
  PROVE  /\ ptr' \in [Pointers -> {"null", "live", "freed"}]
         /\ \A p \in Pointers : ptr'[p] = IF p \in ps /\ ptr[p] = "live" THEN to ELSE ptr[p]
         /\ (\A p \in ps : ptr[p] # "freed") => misused' = misused
         /\ misused' \subseteq Pointers
         /\ UNCHANGED <<lost, asked>>
  BY DEF TypeOK, Free, Live, Dangling

LEMMA LifeInit == Init => IInv
<1> SUFFICES ASSUME Init PROVE IInv
  OBVIOUS
<1>1. /\ pc = "args" /\ frontend \in Frontends /\ opened = FALSE /\ closing = FALSE
      /\ ptr = [p \in Pointers |-> IF p = "backend" THEN "live" ELSE "null"]
      /\ running = FALSE /\ active = FALSE /\ thread = FALSE /\ handler = FALSE /\ done = 0
      /\ safe \in BOOLEAN /\ pause = "none"
      /\ jack = "off" /\ audio = "idle" /\ signals = 0 /\ commands = 0 /\ resizes = 0
      /\ lost = {} /\ misused = {} /\ asked = FALSE
  BY DEF Init
<1>2. TypeOK
  <2>1. ptr \in [Pointers -> {"null", "live", "freed"}]
    BY <1>1
  <2>2. 0 \in 0..MaxSignals /\ 0 \in 0..MaxCommands /\ 0 \in 0..MaxResizes
    BY LifecycleAssumption
  <2> QED BY <1>1, <2>1, <2>2 DEF TypeOK, Places
<1>3. PointersFollow
  BY <1>1 DEF PointersFollow, Unmade, Gone, Pointers, Places
<1>4. PhasesFollow
  BY <1>1 DEF PhasesFollow, Playing
<1> QED BY <1>1, <1>2, <1>3, <1>4 DEF IInv, FreedOnce

\* The variables keep their types.
LEMMA LifeTypes ==
  ASSUME TypeOK, [Next]_vars
  PROVE  TypeOK'
<1> USE LifecycleAssumption DEF started, preset, outer, past
<1>1. CASE Open
  <2>1. \/ UNCHANGED <<ptr, past>>
        \/ \E ps \in SUBSET Pointers, to \in {"null", "live"} : Set(ps, to)
        \/ Free({"state"}, "freed")
    BY <1>1 DEF Open, ParseArguments, CreateWorld, LoadState, FindPlugin, CreateWorker, LoadDefault, ProcessInit,
       CreatePorts, OpenBackend, CheckFeatures, Instantiate, RestoreState, Fail, Opening, Pointers
  <2>2. /\ ptr' \in [Pointers -> {"null", "live", "freed"}] /\ lost' \subseteq Pointers
        /\ misused' \subseteq Pointers /\ asked' = asked
    <3>1. {"state"} \in SUBSET Pointers
      BY DEF Pointers
    <3> QED BY <2>1, <3>1, SetSets, FreeFrees DEF TypeOK
  <2>3. pc' \in Places /\ {opened', closing', running', active', thread'} \subseteq BOOLEAN
        /\ UNCHANGED <<frontend, preset, handler, done, commands, outer>>
    BY <1>1 DEF Open, ParseArguments, CreateWorld, LoadState, FindPlugin, CreateWorker, LoadDefault, ProcessInit,
       CreatePorts, OpenBackend, CheckFeatures, Instantiate, RestoreState, Fail, Opening, Go, Places, TypeOK
  <2> QED BY <2>2, <2>3 DEF TypeOK
<1>2. CASE SetupSignals \/ ActivatePlugin \/ ActivateBackend
  BY <1>2 DEF SetupSignals, ActivatePlugin, ActivateBackend, Go, TypeOK, Places
<1>3. CASE LoopSeesDone \/ ReadLine \/ NotInteractive \/ AwaitDone \/ PostDone \/ WaitDone
  BY <1>3 DEF LoopSeesDone, ReadLine, NotInteractive, AwaitDone, PostDone, WaitDone, Waiting, AfterLoop, Go, TypeOK,
     Places
<1>4. CASE Close
  <2>1. \/ UNCHANGED <<ptr, past>>
        \/ \E ps \in SUBSET Pointers, to \in {"null", "freed"} : Free(ps, to)
    BY <1>4 DEF Close, StopBackend, BackendStopped, StopPlugin, FreeBuffers, CloseBackend, FreePlugin, Cleanup, End,
       Pointers
  <2>2. /\ ptr' \in [Pointers -> {"null", "live", "freed"}] /\ lost' \subseteq Pointers
        /\ misused' \subseteq Pointers /\ asked' = asked
    BY <2>1, FreeFrees DEF TypeOK
  <2>3. /\ pc' \in Places /\ {closing', running', active', thread'} \subseteq BOOLEAN
        /\ jack' \in {"off", "active", "dead"} /\ audio' = audio
        /\ UNCHANGED <<frontend, opened, preset, handler, done, commands, signals, resizes>>
    BY <1>4 DEF Close, StopBackend, BackendStopped, StopPlugin, FreeBuffers, CloseBackend, FreePlugin, Cleanup, End,
       Closing, Ending, Go, TypeOK, Places
  <2> QED BY <2>2, <2>3 DEF TypeOK
<1>5. CASE NoLine \/ OtherCommand \/ UiCloses
  BY <1>5 DEF NoLine, OtherCommand, UiCloses, Waiting, AfterLoop, Go, TypeOK, Places
<1>6. CASE PresetCommand
  <2>1. /\ pc' \in {"frontend", "pausing"} /\ pause' \in {pause, "asked"}
        /\ misused' = misused \cup Dangling({"preset"})
        /\ commands < MaxCommands /\ commands' = commands + 1
        /\ \E new \in {"live", "null"} : ptr' = [ptr EXCEPT !["preset"] = new]
        /\ UNCHANGED <<frontend, safe, opened, closing, started, handler, done, outer, lost, asked>>
    BY <1>6 DEF PresetCommand, ApplyPreset
  <2>2. commands' \in 0..MaxCommands
    BY <2>1 DEF TypeOK
  <2>3. misused' \subseteq Pointers
    BY <2>1 DEF TypeOK, Dangling, Pointers
  <2>4. ptr' \in [Pointers -> {"null", "live", "freed"}]
    BY <2>1 DEF TypeOK
  <2> QED BY <2>1, <2>2, <2>3, <2>4 DEF TypeOK, Places
<1>61. CASE RestorePreset
  BY <1>61 DEF RestorePreset, Go, TypeOK, Places
<1>7. CASE BeginCycle \/ EndCycle \/ ServerShutsDown \/ Signal
  <2>1. /\ audio' \in {"idle", "cycle"} /\ jack' \in {jack, "dead", "off"} /\ done' \in {done, done + 1}
        /\ asked' \in {asked, TRUE} /\ pc' \in {pc, "crashed"} /\ pause' \in {pause, "given"}
        /\ running' \in {running, FALSE}
        /\ UNCHANGED <<frontend, safe, opened, closing, active, thread, handler, commands, ptr, resizes, lost, misused>>
    BY <1>7 DEF BeginCycle, EndCycle, ServerShutsDown, Signal, Outside, TypeOK
  <2>2. signals' \in 0..MaxSignals
    <3>1. CASE Signal
      BY <3>1 DEF Signal, TypeOK
    <3>2. CASE ~Signal
      BY <1>7, <3>2 DEF BeginCycle, EndCycle, ServerShutsDown, TypeOK
    <3> QED BY <3>1, <3>2
  <2>3. done' \in Nat
    BY <2>1 DEF TypeOK
  <2>4. jack' \in {"off", "active", "dead"}
    BY <2>1 DEF TypeOK
  <2>5. asked' \in BOOLEAN /\ running' \in BOOLEAN
    BY <2>1 DEF TypeOK
  <2>6. pc' \in Places /\ pause' \in {"none", "asked", "given", "over", "lost"}
    BY <2>1 DEF TypeOK, Places
  <2> QED BY <2>1, <2>2, <2>3, <2>4, <2>5, <2>6 DEF TypeOK
<1>8. CASE BufferSizeChanged
  <2>1. \/ UNCHANGED <<ptr, past>>
        \/ Set({"rings", "message"}, "live")
    BY <1>8 DEF BufferSizeChanged
  <2>2. /\ ptr' \in [Pointers -> {"null", "live", "freed"}] /\ lost' \subseteq Pointers
        /\ misused' \subseteq Pointers /\ asked' = asked
    <3>1. {"rings", "message"} \in SUBSET Pointers
      BY DEF Pointers
    <3> QED BY <2>1, <3>1, SetSets DEF TypeOK
  <2>3. pause' \in {pause, "lost"}
    BY <1>8 DEF BufferSizeChanged
  <2> QED BY <1>8, <2>2, <2>3 DEF BufferSizeChanged, Outside, TypeOK
<1>9. CASE UNCHANGED vars
  BY <1>9 DEF vars, TypeOK
<1> QED BY <1>1, <1>2, <1>3, <1>4, <1>5, <1>6, <1>61, <1>7, <1>8, <1>9 DEF Next, Main, User, Jack, Over

\* Each pointer is null before its place in jalv_open, and gone after its place
\* in jalv_close.
Follows(p) ==
  /\ pc \in Unmade(p) => ptr[p] = "null"
  /\ ptr[p] = "freed" => pc \in Gone(p)
  /\ pc \in Gone(p) /\ (p \in {"state", "backend"} => opened) => ptr[p] # "live"

LEMMA LifePointers ==
  ASSUME IInv, [Next]_vars
  PROVE  PointersFollow'
<1>0. TypeOK /\ PhasesFollow /\ \A p \in Pointers : Follows(p)
  BY DEF IInv, PointersFollow, Follows
<1>1. (\A p \in Pointers : Follows(p)') => PointersFollow'
  BY DEF PointersFollow, Follows
<1>2. pc \in InOpen => ~opened
  BY <1>0 DEF PhasesFollow
<1> USE DEF started, preset, outer, past
<1> USE DEF Pointers, Unmade, Gone, Places
<1>3. ASSUME NEW p \in Pointers, UNCHANGED <<pc, opened>>, ptr'[p] = ptr[p] PROVE Follows(p)'
  BY <1>0, <1>3 DEF Follows
<1>4. CASE ParseArguments \/ FindPlugin \/ CheckFeatures
  <2> SUFFICES ASSUME NEW p \in Pointers PROVE Follows(p)'
    BY <1>1
  <2>1. UNCHANGED <<ptr, opened>> /\ pc \in {"args", "plugin", "features"}
        /\ \/ pc = "args" /\ pc' = "world"
           \/ pc = "plugin" /\ pc' = "worker"
           \/ pc = "features" /\ pc' = "instance"
           \/ pc' = "stop_backend"
    BY <1>4 DEF ParseArguments, FindPlugin, CheckFeatures, Fail, Go, Opening
  <2> QED BY <1>0, <1>2, <2>1 DEF Follows
<1>5. CASE CreateWorld
  <2> SUFFICES ASSUME NEW p \in Pointers PROVE Follows(p)'
    BY <1>1
  <2>1. /\ pc = "world" /\ pc' = "load" /\ UNCHANGED opened
        /\ ptr'[p] = IF p \in {"world", "done"} THEN "live" ELSE ptr[p]
    BY <1>0, <1>5, SetSets DEF CreateWorld, Go, Opening
  <2> QED BY <1>0, <1>2, <2>1 DEF Follows
<1>6. CASE LoadState
  <2> SUFFICES ASSUME NEW p \in Pointers PROVE Follows(p)'
    BY <1>1
  <2>1. /\ pc = "load" /\ pc' \in {"plugin", "stop_backend"} /\ UNCHANGED opened
        /\ ptr'[p] = ptr[p] \/ (p = "state" /\ ptr'[p] = "live")
    BY <1>0, <1>6, SetSets DEF LoadState, Go, Opening, Fail
  <2> QED BY <1>0, <1>2, <2>1 DEF Follows
<1>7. CASE CreateWorker
  <2> SUFFICES ASSUME NEW p \in Pointers PROVE Follows(p)'
    BY <1>1
  <2>1. /\ pc = "worker" /\ pc' = "default" /\ UNCHANGED opened
        /\ ptr'[p] = ptr[p] \/ (p = "worker" /\ ptr'[p] = "live")
    BY <1>0, <1>7, SetSets DEF CreateWorker, Go, Opening
  <2> QED BY <1>0, <1>2, <2>1 DEF Follows
<1>8. CASE LoadDefault
  <2> SUFFICES ASSUME NEW p \in Pointers PROVE Follows(p)'
    BY <1>1
  <2>1. /\ pc = "default" /\ pc' = "init" /\ UNCHANGED opened
        /\ ptr'[p] = ptr[p] \/ (p = "state" /\ ptr'[p] = "live")
    BY <1>0, <1>8, SetSets DEF LoadDefault, Go, Opening
  <2> QED BY <1>0, <1>2, <2>1 DEF Follows
<1>9. CASE ProcessInit
  <2> SUFFICES ASSUME NEW p \in Pointers PROVE Follows(p)'
    BY <1>1
  <2>1. /\ pc = "init" /\ pc' = "ports" /\ UNCHANGED opened
        /\ ptr'[p] = IF p \in {"instance", "rings", "message", "worker", "ports"} THEN "null" ELSE ptr[p]
    BY <1>0, <1>9, SetSets DEF ProcessInit, Go, Opening
  <2> QED BY <1>0, <1>2, <2>1 DEF Follows
<1>10. CASE CreatePorts
  <2> SUFFICES ASSUME NEW p \in Pointers PROVE Follows(p)'
    BY <1>1
  <2>1. /\ pc = "ports" /\ pc' \in {"backend", "stop_backend"} /\ UNCHANGED opened
        /\ ptr'[p] = IF p = "ports" THEN "live" ELSE ptr[p]
    BY <1>0, <1>10, SetSets DEF CreatePorts, Go, Opening, Fail
  <2> QED BY <1>0, <1>2, <2>1 DEF Follows
<1>11. CASE OpenBackend
  <2> SUFFICES ASSUME NEW p \in Pointers PROVE Follows(p)'
    BY <1>1
  <2>1. /\ pc = "backend" /\ pc' \in {"features", "stop_backend"} /\ UNCHANGED opened
        /\ ptr'[p] = ptr[p] \/ (p = "client" /\ ptr'[p] = "live")
    BY <1>0, <1>11, SetSets DEF OpenBackend, Go, Opening, Fail
  <2> QED BY <1>0, <1>2, <2>1 DEF Follows
<1>12. CASE Instantiate
  <2> SUFFICES ASSUME NEW p \in Pointers PROVE Follows(p)'
    BY <1>1
  <2>1. /\ pc = "instance" /\ pc' \in {"restore", "stop_backend"} /\ UNCHANGED opened
        /\ ptr'[p] = ptr[p] \/ (p \in {"instance", "evbufs", "rings", "message"} /\ ptr'[p] = "live")
    BY <1>0, <1>12, SetSets DEF Instantiate, Go, Opening, Fail
  <2> QED BY <1>0, <1>2, <2>1 DEF Follows
<1>13. CASE RestoreState
  <2> SUFFICES ASSUME NEW p \in Pointers PROVE Follows(p)'
    BY <1>1
  <2>1. /\ pc = "restore" /\ pc' = "signals"
        /\ ptr'[p] = IF p = "state" /\ ptr[p] = "live" THEN "freed" ELSE ptr[p]
    BY <1>0, <1>13, FreeFrees DEF RestoreState, Go
  <2> QED BY <1>0, <1>2, <2>1 DEF Follows
<1>14. CASE SetupSignals \/ ActivatePlugin \/ ActivateBackend \/ LoopSeesDone \/ ReadLine \/ NotInteractive
            \/ RestorePreset \/ AwaitDone \/ PostDone \/ WaitDone \/ NoLine \/ OtherCommand \/ UiCloses
            \/ StopBackend \/ BackendStopped \/ StopPlugin
  <2> SUFFICES ASSUME NEW p \in Pointers PROVE Follows(p)'
    BY <1>1
  <2>1. /\ UNCHANGED <<ptr, opened>>
        /\ pc \in {"signals", "activate", "start", "frontend", "line", "pausing", "await", "post", "wait",
                   "stop_backend", "stop_wait", "stop_plugin"}
        /\ pc' \in {"activate", "start", "frontend", "line", "await", "post", "wait",
                    "stop_backend", "stop_wait", "stop_plugin", "free_buffers"}
    BY <1>14 DEF SetupSignals, ActivatePlugin, ActivateBackend, LoopSeesDone, ReadLine, NotInteractive,
       RestorePreset, AwaitDone,
       PostDone, WaitDone, NoLine, OtherCommand, UiCloses, Waiting, AfterLoop, StopBackend, BackendStopped,
       StopPlugin, Ending, Go
  <2> QED BY <1>0, <2>1 DEF Follows
<1>15. CASE PresetCommand
  <2> SUFFICES ASSUME NEW p \in Pointers PROVE Follows(p)'
    BY <1>1
  <2>1. /\ pc = "line" /\ pc' \in {"frontend", "pausing"} /\ UNCHANGED opened
        /\ \E new \in {"live", "null"} : ptr' = [ptr EXCEPT !["preset"] = new]
    BY <1>15 DEF PresetCommand, ApplyPreset
  <2>2. ptr'[p] = ptr[p] \/ (p = "preset" /\ ptr'[p] # "freed")
    BY <1>0, <2>1 DEF TypeOK
  <2> QED BY <1>0, <2>1, <2>2 DEF Follows
<1>16. CASE FreeBuffers
  <2> SUFFICES ASSUME NEW p \in Pointers PROVE Follows(p)'
    BY <1>1
  <2>1. /\ pc = "free_buffers" /\ pc' \in {"crashed", "close_backend"} /\ UNCHANGED opened
        /\ ptr'[p] = IF p \in {"evbufs", "message"} /\ ptr[p] = "live" THEN "null" ELSE ptr[p]
    BY <1>0, <1>16, FreeFrees DEF FreeBuffers, Closing, Ending
  <2> QED BY <1>0, <2>1 DEF Follows
<1>17. CASE CloseBackend
  <2> SUFFICES ASSUME NEW p \in Pointers PROVE Follows(p)'
    BY <1>1
  <2>1. /\ pc = "close_backend" /\ pc' = "free_plugin" /\ UNCHANGED opened
        /\ ptr'[p] = IF p = "client" /\ ptr[p] = "live" THEN "freed" ELSE ptr[p]
    BY <1>0, <1>17, FreeFrees DEF CloseBackend, Closing, Ending, Go
  <2> QED BY <1>0, <2>1 DEF Follows, TypeOK
<1>18. CASE FreePlugin
  <2> SUFFICES ASSUME NEW p \in Pointers PROVE Follows(p)'
    BY <1>1
  <2>1. /\ pc = "free_plugin" /\ pc' = "cleanup" /\ UNCHANGED opened
        /\ ptr'[p] = IF p \in {"instance", "preset"} /\ ptr[p] = "live" THEN "freed" ELSE ptr[p]
    BY <1>0, <1>18, FreeFrees DEF FreePlugin, Closing, Ending, Go
  <2> QED BY <1>0, <2>1 DEF Follows
<1>19. CASE Cleanup
  <2> SUFFICES ASSUME NEW p \in Pointers PROVE Follows(p)'
    BY <1>1
  <2>1. /\ pc = "cleanup" /\ pc' = "end" /\ UNCHANGED opened
        /\ ptr'[p] = IF p \in {"worker", "rings", "message", "world", "done"} /\ ptr[p] = "live"
                     THEN "freed" ELSE ptr[p]
    BY <1>0, <1>19, FreeFrees DEF Cleanup, Closing, Ending, Go
  <2> QED BY <1>0, <2>1 DEF Follows
<1>20. CASE End
  <2> SUFFICES ASSUME NEW p \in Pointers PROVE Follows(p)'
    BY <1>1
  <2>1. /\ pc = "end" /\ pc' = "exited" /\ UNCHANGED opened
        /\ ptr'[p] = IF opened /\ p = "backend" /\ ptr[p] = "live" THEN "freed" ELSE ptr[p]
    BY <1>0, <1>20, FreeFrees DEF End, Closing, Ending, Go
  <2> QED BY <1>0, <2>1 DEF Follows
<1>21. CASE BufferSizeChanged
  <2> SUFFICES ASSUME NEW p \in Pointers PROVE Follows(p)'
    BY <1>1
  <2>1. /\ UNCHANGED <<pc, opened>> /\ jack = "active"
        /\ ptr'[p] = ptr[p] \/ (p \in {"rings", "message"} /\ ptr'[p] = "live")
    BY <1>0, <1>21, SetSets DEF BufferSizeChanged, Outside
  <2>2. pc \notin AfterCleanup
    BY <1>0, <2>1 DEF PhasesFollow, Playing
  <2> QED BY <1>0, <2>1, <2>2 DEF Follows
<1>22. CASE BeginCycle
  <2> SUFFICES ASSUME NEW p \in Pointers PROVE Follows(p)'
    BY <1>1
  <2>1. /\ pc' \in {pc, "crashed"} /\ UNCHANGED <<opened, ptr>>
        /\ pc \in InFrontend \cup Stopping
    BY <1>0, <1>22 DEF BeginCycle, Outside, PhasesFollow, Playing
  <2> QED BY <1>0, <1>3, <2>1 DEF Follows
<1>23. CASE EndCycle \/ ServerShutsDown \/ Signal \/ UNCHANGED vars
  <2>1. UNCHANGED <<pc, opened, ptr>>
    BY <1>23 DEF EndCycle, ServerShutsDown, Signal, Outside, vars
  <2> QED BY <1>1, <1>3, <2>1
<1> QED BY <1>4, <1>5, <1>6, <1>7, <1>8, <1>9, <1>10, <1>11, <1>12, <1>13, <1>14, <1>15, <1>16, <1>17, <1>18,
           <1>19, <1>20, <1>21, <1>22, <1>23 DEF Next, Main, User, Jack, Over, Open, Close

\* No step frees what is freed, or overwrites the last pointer to what the host
\* would have to free.
LEMMA LifeFreed ==
  ASSUME IInv, [Next]_vars
  PROVE  FreedOnce' /\ (lost \cap Owned = {})'
<1>0. /\ TypeOK /\ misused = {} /\ lost \cap Owned = {}
      /\ \A p \in Pointers : Follows(p)
  BY DEF IInv, FreedOnce, PointersFollow, Follows
<1> USE DEF started, preset, outer, past
<1>1. ASSUME UNCHANGED <<lost, misused>> PROVE FreedOnce' /\ (lost \cap Owned = {})'
  BY <1>0, <1>1 DEF FreedOnce
<1>2. ASSUME NEW ps \in SUBSET Pointers, NEW to \in {"null", "live"}, Set(ps, to),
             \A p \in ps \cap Owned : ptr[p] # "live"
      PROVE  FreedOnce' /\ (lost \cap Owned = {})'
  BY <1>0, <1>2, SetSets DEF FreedOnce
<1>3. ASSUME NEW ps \in SUBSET Pointers, NEW to \in {"null", "freed"}, Free(ps, to),
             \A p \in ps : pc \notin Gone(p)
      PROVE  FreedOnce' /\ (lost \cap Owned = {})'
  <2>1. \A p \in ps : ptr[p] # "freed"
    BY <1>0, <1>3 DEF Follows
  <2> QED BY <1>0, <1>3, <2>1, FreeFrees DEF FreedOnce
<1> USE DEF Pointers, Unmade, Gone, Places
<1>4. CASE CreateWorld
  <2>1. Set({"world", "done"}, "live") /\ ptr["world"] = "null" /\ ptr["done"] = "null"
    BY <1>0, <1>4 DEF CreateWorld, Go, Follows
  <2> QED BY <1>2, <2>1
<1>5. CASE LoadState
  <2>1. UNCHANGED <<lost, misused>> \/ (Set({"state"}, "live") /\ ptr["state"] = "null")
    BY <1>0, <1>5 DEF LoadState, Go, Follows
  <2> QED BY <1>1, <1>2, <2>1
<1>6. CASE CreateWorker \/ CreatePorts \/ BufferSizeChanged
  <2>1. \/ UNCHANGED <<lost, misused>>
        \/ \E ps \in SUBSET {"worker", "ports", "rings", "message"} : Set(ps, "live")
    BY <1>6 DEF CreateWorker, CreatePorts, BufferSizeChanged
  <2>2. \A ps \in SUBSET {"worker", "ports", "rings", "message"} : ps \cap Owned = {}
    BY DEF Owned
  <2> QED BY <1>1, <1>2, <2>1, <2>2
<1>7. CASE LoadDefault
  <2>1. UNCHANGED <<lost, misused>> \/ (Set({"state"}, "live") /\ ptr["state"] = "null")
    BY <1>7 DEF LoadDefault
  <2> QED BY <1>1, <1>2, <2>1
<1>8. CASE ProcessInit
  <2>1. Set({"instance", "rings", "message", "worker", "ports"}, "null") /\ ptr["instance"] = "null"
    BY <1>0, <1>8 DEF ProcessInit, Go, Follows
  <2> QED BY <1>2, <2>1 DEF Owned
<1>9. CASE OpenBackend
  <2>1. UNCHANGED <<lost, misused>> \/ (Set({"client"}, "live") /\ ptr["client"] = "null")
    BY <1>0, <1>9 DEF OpenBackend, Go, Follows
  <2> QED BY <1>1, <1>2, <2>1
<1>10. CASE Instantiate
  <2>1. \/ UNCHANGED <<lost, misused>>
        \/ /\ Set({"instance", "evbufs", "rings", "message"}, "live")
           /\ ptr["instance"] = "null" /\ ptr["evbufs"] = "null"
    BY <1>0, <1>10 DEF Instantiate, Go, Follows
  <2> QED BY <1>1, <1>2, <2>1 DEF Owned
<1>11. CASE RestoreState
  <2>1. Free({"state"}, "freed") /\ pc = "restore"
    BY <1>11 DEF RestoreState, Go
  <2> QED BY <1>3, <2>1
<1>12. CASE FreeBuffers \/ CloseBackend \/ FreePlugin \/ Cleanup
  <2>1. \E ps \in SUBSET Pointers, to \in {"null", "freed"} : Free(ps, to) /\ \A p \in ps : pc \notin Gone(p)
    BY <1>12 DEF FreeBuffers, CloseBackend, FreePlugin, Cleanup, Go
  <2> QED BY <1>3, <2>1
<1>13. CASE End
  <2>1. UNCHANGED <<lost, misused>> \/ (Free({"backend"}, "freed") /\ pc = "end")
    BY <1>13 DEF End, Go
  <2> QED BY <1>1, <1>3, <2>1
<1>14. CASE PresetCommand
  <2>1. lost' = lost /\ misused' = misused \cup Dangling({"preset"}) /\ pc = "line"
    BY <1>14 DEF PresetCommand, ApplyPreset
  <2>2. ptr["preset"] # "freed"
    BY <1>0, <2>1 DEF Follows
  <2>3. Dangling({"preset"}) = {}
    BY <2>2 DEF Dangling
  <2> QED BY <1>1, <2>1, <2>3
<1>15. CASE \/ ParseArguments \/ FindPlugin \/ CheckFeatures \/ SetupSignals \/ ActivatePlugin
            \/ ActivateBackend \/ LoopSeesDone \/ ReadLine \/ NotInteractive \/ AwaitDone \/ PostDone
            \/ WaitDone \/ NoLine \/ OtherCommand \/ UiCloses \/ StopBackend \/ BackendStopped
            \/ StopPlugin \/ RestorePreset \/ BeginCycle \/ EndCycle \/ ServerShutsDown \/ Signal \/ UNCHANGED vars
  <2>1. UNCHANGED <<lost, misused>>
    BY <1>15 DEF ParseArguments, FindPlugin, CheckFeatures, SetupSignals, ActivatePlugin, ActivateBackend,
       LoopSeesDone, ReadLine, NotInteractive, AwaitDone, PostDone, WaitDone, NoLine, OtherCommand, UiCloses,
       StopBackend, BackendStopped, StopPlugin, RestorePreset, BeginCycle, EndCycle, ServerShutsDown, Signal, vars
  <2> QED BY <1>1, <2>1
<1> QED BY <1>4, <1>5, <1>6, <1>7, <1>8, <1>9, <1>10, <1>11, <1>12, <1>13, <1>14, <1>15
        DEF Next, Main, User, Jack, Over, Open, Close

\* What a cycle needs is made before JACK is started and freed after it has
\* stopped; and each phase of jalvmain knows its place.
LEMMA LifePhases ==
  ASSUME IInv, [Next]_vars
  PROVE  PhasesFollow'
<1>0. TypeOK /\ PhasesFollow
  BY DEF IInv
<1> USE DEF started, preset, outer, past
<1> USE DEF PhasesFollow, Playing
<1>1. CASE OpenBackend
  <2>1. \/ pc' = "features" /\ ptr'["client"] = "live" /\ UNCHANGED <<opened, closing, outer>>
        \/ pc' = "stop_backend" /\ closing' /\ UNCHANGED <<opened, outer>>
    <3>1. {"client"} \in SUBSET Pointers
      BY DEF Pointers
    <3> QED BY <1>0, <1>1, <3>1, SetSets DEF OpenBackend, Fail, Opening, Go
  <2> QED BY <1>0, <1>1, <2>1 DEF OpenBackend, Fail, Go
<1>2. CASE Instantiate
  <2>1. CASE pc' = "restore"
    <3>1. {"instance", "evbufs", "rings", "message"} \in SUBSET Pointers /\ Used \subseteq Pointers
      BY DEF Pointers, Used
    <3>2. /\ Set({"instance", "evbufs", "rings", "message"}, "live") /\ ptr["client"] = "live"
          /\ UNCHANGED <<opened, closing, outer>> /\ ~opened /\ ~closing
      BY <1>0, <1>2, <2>1 DEF Instantiate, Opening, Fail, Go
    <3>3. \A p \in Used : ptr'[p] = "live"
      BY <1>0, <3>1, <3>2, SetSets DEF Used
    <3> QED BY <1>0, <2>1, <3>2, <3>3
  <2>2. CASE pc' = "stop_backend"
    <3>1. closing' /\ UNCHANGED <<opened, outer>> /\ ~opened /\ jack # "active" /\ audio # "cycle"
      BY <1>0, <1>2, <2>2 DEF Instantiate, Opening, Fail, Go
    <3> QED BY <1>0, <2>2, <3>1
  <2> QED BY <1>2, <2>1, <2>2 DEF Instantiate, Fail, Go
<1>3. CASE RestoreState
  <2>1. /\ pc = "restore" /\ pc' = "signals" /\ opened' /\ UNCHANGED <<closing, outer>>
        /\ \A p \in Used : ptr'[p] = "live"
    <3>1. {"state"} \in SUBSET Pointers /\ Used \subseteq Pointers /\ "state" \notin Used
      BY DEF Pointers, Used
    <3>2. \A p \in Used : ptr[p] = "live"
      BY <1>0, <1>3 DEF RestoreState, Go
    <3> QED BY <1>0, <1>3, <3>1, <3>2, FreeFrees DEF RestoreState, Go
  <2> QED BY <1>0, <2>1
<1>4. CASE \/ ParseArguments \/ CreateWorld \/ LoadState \/ FindPlugin \/ CreateWorker \/ LoadDefault
           \/ ProcessInit \/ CreatePorts
  <2>1. /\ pc \in BeforeClient /\ UNCHANGED <<opened, outer>>
        /\ \/ pc' \in BeforeClient /\ UNCHANGED closing
           \/ pc' = "stop_backend" /\ closing'
    BY <1>4 DEF ParseArguments, CreateWorld, LoadState, FindPlugin, CreateWorker, LoadDefault, ProcessInit,
       CreatePorts, Fail, Opening, Go
  <2> QED BY <1>0, <2>1
<1>5. CASE CheckFeatures
  <2>1. /\ pc = "features" /\ UNCHANGED <<opened, outer, ptr>>
        /\ \/ pc' = "instance" /\ UNCHANGED closing
           \/ pc' = "stop_backend" /\ closing'
    BY <1>5 DEF CheckFeatures, Fail, Opening, Go
  <2> QED BY <1>0, <2>1
<1>6. CASE SetupSignals \/ ActivatePlugin \/ ActivateBackend
  <2>1. UNCHANGED <<ptr, opened, closing, audio>>
        /\ \/ pc = "signals" /\ pc' = "activate" /\ UNCHANGED jack
           \/ pc = "activate" /\ pc' = "start" /\ active' /\ UNCHANGED jack
           \/ pc = "start" /\ pc' = "frontend" /\ UNCHANGED started
    BY <1>6 DEF SetupSignals, ActivatePlugin, ActivateBackend, Go
  <2> QED BY <1>0, <2>1
<1>7. CASE \/ LoopSeesDone \/ ReadLine \/ NotInteractive \/ AwaitDone \/ PostDone \/ WaitDone
           \/ NoLine \/ OtherCommand \/ UiCloses \/ RestorePreset
  <2>1. /\ pc \in InFrontend /\ pc' \in InFrontend \cup {"stop_backend"}
        /\ UNCHANGED <<ptr, opened, closing, outer, started>>
    BY <1>7 DEF LoopSeesDone, ReadLine, NotInteractive, AwaitDone, PostDone, WaitDone, NoLine, OtherCommand,
       UiCloses, RestorePreset, Waiting, AfterLoop, Go
  <2>2. ~closing
    BY <1>0, <2>1
  <2> QED BY <1>0, <2>1, <2>2
<1>8. CASE PresetCommand
  <2>1. /\ pc = "line" /\ pc' \in {"frontend", "pausing"} /\ UNCHANGED <<opened, closing, outer, started>>
        /\ \E new \in {"live", "null"} : ptr' = [ptr EXCEPT !["preset"] = new]
    BY <1>8 DEF PresetCommand, ApplyPreset
  <2>2. \A p \in Used : ptr'[p] = ptr[p]
    BY <1>0, <2>1 DEF TypeOK, Used, Pointers
  <2> QED BY <1>0, <2>1, <2>2
<1>9. CASE StopBackend \/ BackendStopped
  <2>1. /\ UNCHANGED <<ptr, opened, closing, audio, started>> /\ jack' # "active"
        /\ \/ pc = "stop_backend" /\ pc' = "stop_wait"
           \/ pc = "stop_wait" /\ pc' = "stop_plugin" /\ audio = "idle"
    BY <1>0, <1>9 DEF StopBackend, BackendStopped, Ending, Go
  <2> QED BY <1>0, <2>1
<1>10. CASE StopPlugin
  <2>1. /\ pc = "stop_plugin" /\ pc' \in {"free_buffers", "stop_backend"} /\ closing'
        /\ UNCHANGED <<opened, jack, audio>>
    BY <1>10 DEF StopPlugin, Ending
  <2> QED BY <1>0, <2>1
<1>11. CASE FreeBuffers \/ CloseBackend \/ FreePlugin \/ Cleanup \/ End
  <2>1. /\ pc \in {"free_buffers", "close_backend", "free_plugin", "cleanup", "end"}
        /\ pc' \in {"crashed", "close_backend", "free_plugin", "cleanup", "end", "exited"}
        /\ UNCHANGED <<opened, closing, started, jack, audio>>
    BY <1>11 DEF FreeBuffers, CloseBackend, FreePlugin, Cleanup, End, Closing, Ending, Go
  <2> QED BY <1>0, <2>1
<1>12. CASE BufferSizeChanged
  <2>1. /\ UNCHANGED <<pc, opened, closing, started, jack, audio>>
        /\ UNCHANGED ptr \/ Set({"rings", "message"}, "live")
    BY <1>12 DEF BufferSizeChanged, Outside
  <2>2. \A p \in Used : ptr[p] = "live" => ptr'[p] = "live"
    <3>1. {"rings", "message"} \in SUBSET Pointers /\ Used \subseteq Pointers
      BY DEF Pointers, Used
    <3> QED BY <1>0, <2>1, <3>1, SetSets
  <2>3. "client" \in Used
    BY DEF Used
  <2> QED BY <1>0, <2>1, <2>2, <2>3
<1>13. CASE EndCycle \/ ServerShutsDown \/ Signal \/ UNCHANGED vars
  <2>1. /\ UNCHANGED <<pc, opened, closing, started, ptr>>
        /\ UNCHANGED jack \/ (jack' = "dead" /\ audio' = "idle")
        /\ audio' = "cycle" => jack' = "active" \/ audio = "cycle"
    BY <1>13 DEF EndCycle, ServerShutsDown, Signal, Outside, vars
  <2> QED BY <1>0, <2>1
<1>14. CASE BeginCycle
  <2>1. /\ jack = "active" /\ UNCHANGED <<opened, closing, active, ptr>>
        /\ \/ pc' = "crashed" /\ jack' = "off" /\ audio' = "idle"
           \/ UNCHANGED <<pc, jack>>
    BY <1>14 DEF BeginCycle, Outside
  <2>2. pc \in InFrontend \cup Stopping
    BY <1>0, <2>1
  <2> QED BY <1>0, <2>1, <2>2
<1> QED BY <1>1, <1>2, <1>3, <1>4, <1>5, <1>6, <1>7, <1>8, <1>9, <1>10, <1>11, <1>12, <1>13, <1>14
        DEF Next, Main, User, Jack, Over, Open, Close

\* The invariant of jalvmain and the threads around it.
THEOREM LifeInductive == Spec => []IInv
<1>1. IInv /\ [Next]_vars => IInv'
  BY LifeTypes, LifePointers, LifeFreed, LifePhases DEF IInv
<1> QED BY <1>1, LifeInit, PTL DEF Spec

\* Whichever way the program ends, no cycle meets a plugin that is not active
\* or buffers that are gone.
THEOREM CyclesAreSafe == Spec => []CycleIsSafe
<1>1. IInv => CycleIsSafe
  <2> SUFFICES ASSUME IInv, audio = "cycle" PROVE active /\ Used \subseteq Live(Pointers)
    BY DEF CycleIsSafe
  <2>1. Playing /\ ~closing
    BY DEF IInv, PhasesFollow, Playing
  <2>2. active /\ \A p \in Used : ptr[p] = "live"
    BY <2>1 DEF IInv, PhasesFollow, Playing
  <2> QED BY <2>2 DEF Used, Live, Pointers
<1> QED BY <1>1, LifeInductive, PTL

\* Nothing is freed twice, by any presets and error exits, and a program that was
\* opened has freed what it owns when it ends.
THEOREM FreesOnce == Spec => []OwnedOnce
<1>1. IInv => OwnedOnce
  <2> SUFFICES ASSUME IInv PROVE OwnedOnce
    OBVIOUS
  <2>1. ASSUME pc = "exited", opened PROVE Owned \cap (Live(Pointers) \cup lost) = {}
    <3>1. \A p \in Owned : p \in Pointers /\ pc \in Gone(p)
      BY <2>1 DEF Owned, Pointers, Gone, Places
    <3>2. \A p \in Owned : ptr[p] # "live"
      BY <2>1, <3>1 DEF IInv, PointersFollow
    <3> QED BY <3>2 DEF IInv, Live
  <2> QED BY <2>1 DEF OwnedOnce, EndFrees, IInv
<1> QED BY <1>1, LifeInductive, PTL
=============================================================================
