------------------------------- MODULE LphHost -------------------------------
(***************************************************************************)
(* The PipeWire plugin host: golph.go starts an instance of a plugin in a  *)
(* thread of its own, which runs lph_thread_loop.  An instance has two more *)
(* threads, of PipeWire: its loop, whose callbacks need the lock of the     *)
(* loop, and its data thread, whose cycles need no lock.  All instances     *)
(* share one mutex.                                                         *)
(*                                                                         *)
(* struct data, which the callbacks are given, is a local variable of      *)
(* lph_thread_loop.  PipeWire is not in the repository: its loop answers    *)
(* the server's start, a destroyed filter has no cycle any more, and a      *)
(* signal for the process is read by one of the loops.                      *)
(***************************************************************************)
EXTENDS Naturals, FiniteSets

CONSTANTS
  Instances,
  NPorts,    \* ports of a plugin
  None

ASSUME LphHostAssumption == NPorts \in Nat \ {0} /\ None \notin Instances

VARIABLES
  alive,      \* the process has not crashed
  inits,      \* what pw_init and pw_deinit count
  lock,       \* who has it
  at,         \* where the thread of an instance is
  loop,       \* the lock of its loop, once that runs
  connected,  \* instances whose filter is connected
  streaming,  \* those whose data thread has cycles
  plugin,
  ports,      \* how many ports are set up
  signalled,  \* instances whose wait was ended
  quit,       \* history: those whose loop has read a signal
  cycle       \* where the data thread is in on_process

host == <<alive, inits>>
inst == <<plugin, ports>>
quits == <<signalled, quit>>
hostVars == <<host, lock, at, loop, connected, streaming, inst, quits, cycle>>

HostInit ==
  /\ alive = TRUE /\ inits = 1 /\ lock = None
  /\ at = [i \in Instances |-> "idle"] /\ loop = [i \in Instances |-> "none"]
  /\ connected = {} /\ streaming = {} /\ signalled = {} /\ quit = {}
  /\ plugin = [i \in Instances |-> "none"] /\ ports = [i \in Instances |-> 0]
  /\ cycle = [i \in Instances |-> "out"]

Move(i, here, next) == at[i] = here /\ at' = [at EXCEPT ![i] = next]

Crash == alive' = FALSE

-----------------------------------------------------------------------------
(* The thread of an instance.                                              *)

Start(i) ==
  /\ Move(i, "idle", "lock")
  /\ UNCHANGED <<host, lock, loop, connected, streaming, inst, quits, cycle>>

\* The loop is created and started, and held from here to the wait.
TakeLock_LoopFree(i) ==
  /\ lock = None /\ Move(i, "lock", "connect") /\ lock' = i
  /\ loop' = [loop EXCEPT ![i] = "free"]
  /\ UNCHANGED <<host, connected, streaming, inst, quits, cycle>>
TakeLock(i) ==
  /\ lock = None /\ Move(i, "lock", "connect") /\ lock' = i
  /\ loop' = [loop EXCEPT ![i] = "held"]
  /\ UNCHANGED <<host, connected, streaming, inst, quits, cycle>>

Connect(i) ==
  /\ Move(i, "connect", "instantiate") /\ connected' = connected \cup {i}
  /\ UNCHANGED <<host, lock, loop, streaming, inst, quits, cycle>>

\* It returns with both locks held: what the loop would call has no data now.
FailConnect_Unlocks(i) ==
  /\ Move(i, "connect", "failed")
  /\ lock' = None /\ loop' = [loop EXCEPT ![i] = "free"]
  /\ UNCHANGED <<host, connected, streaming, inst, quits, cycle>>
FailConnect(i) ==
  /\ Move(i, "connect", "failed")
  /\ UNCHANGED <<host, lock, loop, connected, streaming, inst, quits, cycle>>

InstantiatePlugin(i) ==
  /\ Move(i, "instantiate", "ports") /\ plugin' = [plugin EXCEPT ![i] = "made"]
  /\ UNCHANGED <<host, lock, loop, connected, streaming, ports, quits, cycle>>

\* A plugin that cannot be made: the setup of the first port takes it for one.
FailInstantiate(i) ==
  /\ at[i] = "instantiate" /\ Crash
  /\ UNCHANGED <<inits, lock, at, loop, connected, streaming, inst, quits, cycle>>

SetUpPort(i) ==
  /\ at[i] = "ports" /\ ports[i] < NPorts
  /\ ports' = [ports EXCEPT ![i] = @ + 1]
  /\ UNCHANGED <<host, lock, at, loop, connected, streaming, plugin, quits, cycle>>

Activate(i) ==
  /\ ports[i] = NPorts
  /\ Move(i, "ports", "unlock") /\ plugin' = [plugin EXCEPT ![i] = "active"]
  /\ UNCHANGED <<host, lock, loop, connected, streaming, ports, quits, cycle>>

Unlock(i) ==
  /\ Move(i, "unlock", "wait") /\ lock' = None
  /\ UNCHANGED <<host, loop, connected, streaming, inst, quits, cycle>>

\* The wait gives up the lock of the loop and gets it back.
Wait(i) ==
  /\ Move(i, "wait", "waiting") /\ loop' = [loop EXCEPT ![i] = "free"]
  /\ UNCHANGED <<host, lock, connected, streaming, inst, quits, cycle>>

Wake(i) ==
  /\ i \in signalled /\ loop[i] = "free"
  /\ Move(i, "waiting", "relock") /\ loop' = [loop EXCEPT ![i] = "held"]
  /\ UNCHANGED <<host, lock, connected, streaming, inst, quits, cycle>>

Relock(i) ==
  /\ lock = None /\ Move(i, "relock", "deactivate") /\ lock' = i
  /\ UNCHANGED <<host, loop, connected, streaming, inst, quits, cycle>>

Deactivate(i) ==
  /\ Move(i, "deactivate", "unlock_again")
  /\ plugin' = [plugin EXCEPT ![i] = "inactive"]
  /\ UNCHANGED <<host, lock, loop, connected, streaming, ports, quits, cycle>>

UnlockAgain_Forgotten(i) ==
  /\ Move(i, "unlock_again", "unlock_loop")
  /\ UNCHANGED <<host, lock, loop, connected, streaming, inst, quits, cycle>>
UnlockAgain(i) ==
  /\ Move(i, "unlock_again", "unlock_loop") /\ lock' = None
  /\ UNCHANGED <<host, loop, connected, streaming, inst, quits, cycle>>

UnlockLoop_Forgotten(i) ==
  /\ Move(i, "unlock_loop", "stop")
  /\ UNCHANGED <<host, lock, loop, connected, streaming, inst, quits, cycle>>
UnlockLoop(i) ==
  /\ Move(i, "unlock_loop", "stop") /\ loop' = [loop EXCEPT ![i] = "free"]
  /\ UNCHANGED <<host, lock, connected, streaming, inst, quits, cycle>>

\* The loop's thread is joined; it must get its lock to end.
Stop(i) ==
  /\ loop[i] = "free" /\ Move(i, "stop", "destroy")
  /\ loop' = [loop EXCEPT ![i] = "none"]
  /\ UNCHANGED <<host, lock, connected, streaming, inst, quits, cycle>>

\* The filter goes, when the data thread has left it; then the loop.
Destroy(i) ==
  /\ cycle[i] = "out" /\ Move(i, "destroy", "deinit")
  /\ connected' = connected \ {i} /\ streaming' = streaming \ {i}
  /\ UNCHANGED <<host, lock, loop, inst, quits, cycle>>

\* One lph_init, but a pw_deinit for each instance.
Deinit(i) ==
  /\ Move(i, "deinit", "returned")
  /\ inits' = IF inits = 0 THEN 0 ELSE inits - 1
  /\ UNCHANGED <<alive, lock, loop, connected, streaming, inst, quits, cycle>>

\* Where struct data exists, and where PipeWire is used.
Framed == {"connect", "instantiate", "ports", "unlock", "wait", "waiting", "relock",
           "deactivate", "unlock_again", "unlock_loop", "stop", "destroy", "deinit"}

\* Who still uses PipeWire after the last pw_deinit that counts may crash.
UsedAfterDeinit ==
  /\ inits = 0 /\ Crash
  /\ \E i \in Instances : at[i] \in Framed \ {"deinit"}
  /\ UNCHANGED <<inits, lock, at, loop, connected, streaming, inst, quits, cycle>>

-----------------------------------------------------------------------------
(* The loop of an instance.                                                *)

LoopFree(i) == loop[i] = "free"

\* The server starts the filter: from now on it has cycles.
LoopStart(i) ==
  /\ LoopFree(i) /\ i \in connected /\ streaming' = streaming \cup {i}
  /\ UNCHANGED <<host, lock, at, loop, connected, inst, quits, cycle>>

\* do_quit: nobody hears of it who does not wait.
DoQuit(i) ==
  /\ LoopFree(i) /\ quit' = quit \cup {i}
  /\ signalled' = IF at[i] = "waiting" THEN signalled \cup {i} ELSE signalled
  /\ UNCHANGED <<host, lock, at, loop, connected, streaming, inst, cycle>>

-----------------------------------------------------------------------------
(* on_process.                                                             *)

Cycle(i, here, next) ==
  /\ cycle[i] = here /\ cycle' = [cycle EXCEPT ![i] = next]
  /\ UNCHANGED <<host, lock, at, loop, connected, streaming, inst, quits>>

PreRun(i)  == i \in streaming /\ Cycle(i, "out", "run")
Run(i)     == Cycle(i, "run", "post_run")
PostRun(i) == Cycle(i, "post_run", "out")

-----------------------------------------------------------------------------

Thread(i) ==
  \/ TakeLock(i) \/ Connect(i) \/ FailConnect(i) \/ InstantiatePlugin(i) \/ FailInstantiate(i)
  \/ SetUpPort(i) \/ Activate(i) \/ Unlock(i) \/ Wait(i) \/ Wake(i) \/ Relock(i)
  \/ Deactivate(i) \/ UnlockAgain(i) \/ UnlockLoop(i) \/ Stop(i) \/ Destroy(i) \/ Deinit(i)

Process(i) == PreRun(i) \/ Run(i) \/ PostRun(i)

HostNext ==
  \/ /\ alive
     /\ \/ \E i \in Instances : \/ Start(i) \/ Thread(i) \/ LoopStart(i) \/ DoQuit(i)
                                \/ Process(i)
        \/ UsedAfterDeinit
  \/ UNCHANGED hostVars  \* main sleeps

\* Threads run, a cycle ends, and a lock that comes free again and again is
\* met at last; nobody has to send a signal.
HostSpec ==
  /\ HostInit /\ [][HostNext]_hostVars
  /\ \A i \in Instances : /\ SF_hostVars(alive /\ Thread(i))
                          /\ WF_hostVars(alive /\ (Run(i) \/ PostRun(i)))

-----------------------------------------------------------------------------
(* Properties.                                                             *)

Held      == {"connect", "failed", "instantiate", "ports", "unlock", "deactivate",
              "unlock_again"}
LoopHeld  == Held \cup {"wait", "relock", "unlock_loop"}
Connected == Framed \ {"connect", "deinit"}
Active    == {"unlock", "wait", "waiting", "relock", "deactivate"}
Left      == {"unlock_again", "unlock_loop", "stop", "destroy", "deinit", "returned"}

HostTypeOK ==
  /\ alive \in BOOLEAN /\ inits \in {0, 1} /\ lock \in Instances \cup {None}
  /\ at \in [Instances -> {"idle", "lock", "failed", "returned"} \cup Framed]
  /\ loop \in [Instances -> {"none", "held", "free"}]
  /\ connected \subseteq Instances /\ streaming \subseteq connected
  /\ signalled \subseteq quit /\ quit \subseteq Instances
  /\ plugin \in [Instances -> {"none", "made", "active", "inactive"}]
  /\ ports \in [Instances -> 0..NPorts]
  /\ cycle \in [Instances -> {"out", "run", "post_run"}]

\* A callback of the loop or a cycle only comes while struct data is there,
\* whichever way lph_thread_loop ends (lph.c:211, 251-254, 344-349).
StackIsLive ==
  \A i \in Instances : LoopFree(i) \/ cycle[i] # "out" => at[i] \in Framed

\* A cycle runs an instance that was made and activated, with all its ports, and
\* nobody has to look: the lock of the loop is held until then (lph.c:234-338).
CycleIsSetUp ==
  \A i \in Instances : cycle[i] # "out" =>
    plugin[i] \in {"active", "inactive"} /\ ports[i] = NPorts

\* What both rest on: who has the mutex and the loops, and how far each is.
HostIInv ==
  /\ HostTypeOK
  /\ \A i \in Instances :
       /\ lock = i <=> at[i] \in Held
       /\ loop[i] = "held" <=> at[i] \in LoopHeld
       /\ loop[i] = "free" <=> at[i] \in {"waiting", "stop"}
       /\ i \in connected <=> at[i] \in Connected
       /\ i \in streaming => at[i] \notin {"instantiate", "ports", "unlock", "wait"}
       /\ cycle[i] # "out" => i \in streaming
       /\ plugin[i] = "active" <=> at[i] \in Active
       /\ plugin[i] = "inactive" <=> at[i] \in Left
       /\ plugin[i] \in {"active", "inactive"} => ports[i] = NPorts

Stuck == ~alive \/ \E i \in Instances : at[i] = "failed"

\* Every instance comes to wait for its end, however the others come and go,
\* unless a connection failed: its return keeps the mutex for ever.
InstanceStarts ==
  \A i \in Instances : at[i] = "lock" ~> at[i] = "waiting" \/ Stuck

\* A signal that a loop has read ends its instance, and is never lost: the
\* handler does not come before the wait has begun (lph.c:163-167, 338-349).
QuitEnds ==
  \A i \in Instances : i \in quit ~> at[i] = "returned" \/ Stuck
=============================================================================
