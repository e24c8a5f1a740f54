---------------------------- MODULE JalvLifecycle ----------------------------
(***************************************************************************)
(* The life of a jalv process: jalvmain, jalv_open with its error exits,   *)
(* jalv_activate, the frontend that waits for the end, jalv_deactivate and *)
(* jalv_close, against the threads of JACK and the signal handler.  What   *)
(* matters of an object is whether the pointer to it is null, live or      *)
(* freed, and whether a live one was overwritten; of a preset command,     *)
(* that it may wait for the audio thread (JalvProcess has the rest of it). *)
(***************************************************************************)
EXTENDS Naturals

CONSTANTS
  Frontends,   \* ways to run: "console", "batch" (-i), "ui" (-s, it shows and idles)
  Exits,       \* error exits of jalv_open that may be taken
  HasWork,     \* the plugin has a worker interface
  MaxSignals,  \* bound: SIGINT or SIGTERM
  MaxCommands, \* bound: preset commands
  MaxResizes   \* bound: JACK buffer size changes

Pointers ==
  {"backend", "world", "done", "state", "preset", "worker", "ports", "instance",
   "client", "evbufs", "rings", "message"}

AllExits == {"args", "load", "plugin", "ports", "backend", "features", "instance"}

ASSUME LifecycleAssumption ==
  /\ Frontends \subseteq {"console", "batch", "ui"} /\ Exits \subseteq AllExits
  /\ HasWork \in BOOLEAN
  /\ MaxSignals \in Nat /\ MaxCommands \in Nat /\ MaxResizes \in Nat

VARIABLES
  pc,       \* what the main thread does next
  frontend, \* the options' way to run
  safe,     \* safe_restore: the plugin's restore() is thread-safe
  opened,   \* jalv_open succeeded
  closing,  \* jalv_close has begun
  ptr,      \* per pointer: null, live or freed
  running,  \* process.run_state is JALV_RUNNING
  pause,    \* the pause for a preset: none, asked, given, over or lost
  active,   \* the plugin is activated
  thread,   \* the worker thread was launched and not yet joined
  handler,  \* the signal handler is installed
  done,     \* value of jalv->done
  jack,     \* the client: off, active or dead (the server shut it down)
  audio,    \* the process callback: idle or cycle
  signals, commands, resizes,
  lost,     \* history: kinds of objects whose last pointer was overwritten
  misused,  \* history: pointers used when freed
  asked     \* history: someone asked the program to end

started == <<running, active, thread>>
preset  == <<safe, pause>>
outer  == <<jack, audio, signals, resizes>>
past   == <<lost, misused, asked>>
vars   == <<pc, frontend, opened, closing, ptr, started, preset, handler, done,
            commands, outer, past>>

Init ==
  /\ pc = "args" /\ frontend \in Frontends /\ opened = FALSE /\ closing = FALSE
  /\ ptr = [p \in Pointers |-> IF p = "backend" THEN "live" ELSE "null"]
  /\ running = FALSE /\ active = FALSE /\ thread = FALSE
  /\ safe \in BOOLEAN /\ pause = "none"
  /\ handler = FALSE /\ done = 0 /\ jack = "off" /\ audio = "idle"
  /\ signals = 0 /\ commands = 0 /\ resizes = 0
  /\ lost = {} /\ misused = {} /\ asked = FALSE

Go(from, to) == pc = from /\ pc' = to

Live(ps) == {p \in ps : ptr[p] = "live"}
Dangling(ps) == {p \in ps : ptr[p] = "freed"}

\* The pointers ps are set to something new, or to null.
Set(ps, to) ==
  /\ ptr' = [p \in Pointers |-> IF p \in ps THEN to ELSE ptr[p]]
  /\ lost' = lost \cup Live(ps)
  /\ UNCHANGED <<misused, asked>>

\* What ps point to is freed; they are left as they are, or set to null.
Free(ps, to) ==
  /\ ptr' = [p \in Pointers |-> IF p \in Live(ps) THEN to ELSE ptr[p]]
  /\ misused' = misused \cup Dangling(ps)
  /\ UNCHANGED <<lost, asked>>

-----------------------------------------------------------------------------
(* jalv_open.                                                              *)

\* An error exit; jalvmain closes what there is.
Fail(exit, from) ==
  /\ exit \in Exits /\ Go(from, "stop_backend")
  /\ closing' = TRUE
  /\ UNCHANGED <<frontend, opened, started, preset, handler, done, commands, outer>>

Opening ==
  UNCHANGED <<frontend, opened, closing, preset, handler, done, commands, outer>>

ParseArguments ==
  \/ Go("args", "world") /\ Opening /\ UNCHANGED <<ptr, past, started>>
  \/ Fail("args", "args") /\ UNCHANGED <<ptr, past>>

CreateWorld ==
  /\ Go("world", "load") /\ Set({"world", "done"}, "live")
  /\ Opening /\ UNCHANGED started

LoadState ==
  \/ Go("load", "plugin") /\ Opening /\ UNCHANGED <<ptr, past, started>>
  \/ Go("load", "plugin") /\ Set({"state"}, "live") /\ Opening /\ UNCHANGED started
  \/ Fail("load", "load") /\ UNCHANGED <<ptr, past>>

\* No plugin named, too many arguments, or none of that name.
FindPlugin ==
  \/ Go("plugin", "worker") /\ Opening /\ UNCHANGED <<ptr, past, started>>
  \/ Fail("plugin", "plugin") /\ UNCHANGED <<ptr, past>>

\* safe_restore is not set before line 805, so that no second worker is made.
CreateWorker ==
  /\ Go("worker", "default")
  /\ IF HasWork THEN Set({"worker"}, "live") ELSE UNCHANGED <<ptr, past>>
  /\ Opening /\ UNCHANGED started

\* Without a loaded state the plugin's own is looked up; it may have none.
LoadDefault ==
  /\ Go("default", "init")
  /\ \/ ptr["state"] = "null" /\ Set({"state"}, "live")
     \/ UNCHANGED <<ptr, past>>
  /\ Opening /\ UNCHANGED started

\* jalv_process_init clears what it does not know, the worker among it.
ProcessInit ==
  /\ Go("init", "ports")
  /\ Set({"instance", "rings", "message", "worker", "ports"}, "null")
  /\ running' = FALSE
  /\ Opening /\ UNCHANGED <<active, thread>>

CreatePorts ==
  /\ pc = "ports" /\ Set({"ports"}, "live")
  /\ \/ pc' = "backend" /\ Opening /\ UNCHANGED started
     \/ Fail("ports", "ports")

OpenBackend ==
  \/ Go("backend", "features") /\ Set({"client"}, "live") /\ Opening /\ UNCHANGED started
  \/ Fail("backend", "backend") /\ UNCHANGED <<ptr, past>>

CheckFeatures ==
  \/ Go("features", "instance") /\ Opening /\ UNCHANGED <<ptr, past, started>>
  \/ Fail("features", "features") /\ UNCHANGED <<ptr, past>>

\* The instance is stored by jalv_process_activate only, with the buffers.
Instantiate ==
  \/ /\ Go("instance", "restore")
     /\ Set({"instance", "evbufs", "rings", "message"}, "live")
     /\ Opening /\ UNCHANGED started
  \/ Fail("instance", "instance") /\ UNCHANGED <<ptr, past>>

\* The plugin does not run yet: jalv_apply_state pauses nothing.
RestoreState ==
  /\ Go("restore", "signals") /\ Free({"state"}, "freed") /\ opened' = TRUE
  /\ UNCHANGED <<frontend, closing, started, preset, handler, done, commands, outer>>

-----------------------------------------------------------------------------
(* jalvmain up to the frontend.                                            *)

SetupSignals ==
  /\ Go("signals", "activate") /\ handler' = TRUE
  /\ UNCHANGED <<frontend, opened, closing, ptr, started, preset, done, commands, outer,
                 past>>

ActivatePlugin ==
  /\ Go("activate", "start")
  /\ running' = TRUE /\ active' = TRUE /\ thread' = (ptr["worker"] = "live")
  /\ UNCHANGED <<frontend, opened, closing, ptr, preset, handler, done, commands, outer,
                 past>>

ActivateBackend ==
  /\ Go("start", "frontend") /\ jack' = "active"
  /\ UNCHANGED <<frontend, opened, closing, ptr, started, preset, handler, done,
                 commands, audio, signals, resizes, past>>

-----------------------------------------------------------------------------
(* The frontend.                                                           *)

Waiting == UNCHANGED <<frontend, opened, closing, ptr, started, preset, handler, outer>>

\* The console and the UI try the semaphore between two rounds of their loop;
\* the UI's caller then waits for it all the same.
AfterLoop == IF frontend = "console" THEN "post" ELSE "await"

LoopSeesDone ==
  /\ frontend # "batch" /\ done > 0 /\ Go("frontend", AfterLoop)
  /\ done' = done - 1
  /\ Waiting /\ UNCHANGED <<commands, past>>

ReadLine ==
  /\ frontend = "console" /\ done = 0 /\ Go("frontend", "line")
  /\ Waiting /\ UNCHANGED <<done, commands, past>>

\* The end of the input, or a signal that interrupts the read.
NoLine ==
  /\ Go("line", "post") /\ asked' = TRUE
  /\ Waiting /\ UNCHANGED <<done, commands, lost, misused>>

OtherCommand ==
  /\ Go("line", "frontend")
  /\ Waiting /\ UNCHANGED <<done, commands, past>>

\* jalv_apply_preset replaces the preset, by nothing when it is not found.  A
\* preset that is found is restored, and if the plugin runs and its restore() is
\* not thread-safe jalv_apply_state asks for a pause and waits.
MustPause == ~safe /\ running

ApplyPreset(kept, missing) ==
  /\ pc = "line" /\ commands < MaxCommands /\ commands' = commands + 1
  /\ \E new \in {kept, missing} :
       /\ ptr' = [ptr EXCEPT !["preset"] = new]
       /\ IF new = kept /\ MustPause THEN pc' = "pausing" /\ pause' = "asked"
                                     ELSE pc' = "frontend" /\ UNCHANGED pause
  /\ misused' = misused \cup Dangling({"preset"})
  /\ UNCHANGED <<frontend, safe, opened, closing, started, handler, done, outer, lost,
                 asked>>

PresetCommand_NotReset == ApplyPreset("live", "freed")
PresetCommand == ApplyPreset("live", "null")

\* The pause is answered; the state is restored, and asked for before the plugin
\* is to run again.
RestorePreset ==
  /\ pause = "given" /\ pause' = "over" /\ Go("pausing", "frontend")
  /\ UNCHANGED <<frontend, safe, opened, closing, ptr, started, handler, done, commands,
                 outer, past>>

UiCloses ==
  /\ frontend = "ui" /\ Go("frontend", AfterLoop) /\ asked' = TRUE
  /\ Waiting /\ UNCHANGED <<done, commands, lost, misused>>

NotInteractive ==
  /\ frontend = "batch" /\ Go("frontend", "await")
  /\ Waiting /\ UNCHANGED <<done, commands, past>>

AwaitDone ==
  /\ done > 0 /\ done' = done - 1 /\ Go("await", "post")
  /\ Waiting /\ UNCHANGED <<commands, past>>

PostDone_Forgotten ==
  /\ Go("post", "wait")
  /\ Waiting /\ UNCHANGED <<done, commands, past>>
PostDone ==
  /\ Go("post", "wait") /\ done' = done + 1
  /\ Waiting /\ UNCHANGED <<commands, past>>

WaitDone ==
  /\ done > 0 /\ done' = done - 1 /\ Go("wait", "stop_backend")
  /\ Waiting /\ UNCHANGED <<commands, past>>

-----------------------------------------------------------------------------
(* jalv_deactivate, called by jalvmain and again by jalv_close.            *)

Ending ==
  UNCHANGED <<frontend, opened, preset, handler, done, commands, signals, resizes>>

\* jack_deactivate lets no new cycle begin and waits for the one going on.
StopBackend_NoWait ==
  /\ Go("stop_backend", "stop_plugin")
  /\ jack' = IF jack = "active" THEN "off" ELSE jack
  /\ Ending /\ UNCHANGED <<closing, ptr, started, audio, past>>
StopBackend ==
  /\ Go("stop_backend", "stop_wait")
  /\ jack' = IF jack = "active" THEN "off" ELSE jack
  /\ Ending /\ UNCHANGED <<closing, ptr, started, audio, past>>

BackendStopped ==
  /\ Go("stop_wait", "stop_plugin") /\ audio = "idle"
  /\ Ending /\ UNCHANGED <<closing, ptr, started, jack, audio, past>>

StopPlugin ==
  /\ pc = "stop_plugin"
  /\ pc' = IF closing THEN "free_buffers" ELSE "stop_backend"
  /\ closing' = TRUE
  /\ running' = FALSE /\ thread' = FALSE
  /\ active' = (active /\ ptr["instance"] = "null")
  /\ Ending /\ UNCHANGED <<ptr, jack, audio, past>>

-----------------------------------------------------------------------------
(* The rest of jalv_close and of jalvmain.                                 *)

Closing == Ending /\ UNCHANGED <<closing, started, jack, audio>>

\* jalv_process_deactivate disconnects every port of the instance.
FreeBuffers ==
  /\ pc = "free_buffers"
  /\ Free({"evbufs", "message"}, "null")
  /\ pc' = IF ptr["ports"] = "live" /\ ptr["instance"] = "null"
           THEN "crashed" ELSE "close_backend"
  /\ Closing

CloseBackend ==
  /\ Go("close_backend", "free_plugin") /\ Free({"client"}, "freed") /\ Closing

FreePlugin ==
  /\ Go("free_plugin", "cleanup") /\ Free({"instance", "preset"}, "freed") /\ Closing

\* jalv_process_cleanup and the tables; the array of ports stays.
Cleanup ==
  /\ Go("cleanup", "end")
  /\ Free({"worker", "rings", "message", "world", "done"}, "freed")
  /\ Closing

\* The backend is freed only when jalv_open had succeeded.
End ==
  /\ Go("end", "exited")
  /\ IF opened THEN Free({"backend"}, "freed") ELSE UNCHANGED <<ptr, past>>
  /\ Closing

-----------------------------------------------------------------------------
(* JACK and the signals.                                                   *)

Alive == pc # "crashed"

Outside ==
  Alive /\ UNCHANGED <<frontend, safe, opened, closing, active, thread, handler, commands>>

\* A cycle takes what is in the ring: the request for a pause, which it answers, or
\* the one for the state, which comes before the end of the pause and crashes the
\* process: there is no control input (process.c:65-69).
BeginCycle ==
  /\ jack = "active" /\ audio = "idle"
  /\ \/ /\ pause = "over" /\ pc' = "crashed" /\ jack' = "off"
        /\ UNCHANGED <<audio, running, pause>>
     \/ /\ pause # "over" /\ audio' = "cycle"
        /\ IF pause = "asked" THEN running' = FALSE /\ pause' = "given"
                              ELSE UNCHANGED <<running, pause>>
        /\ UNCHANGED <<pc, jack>>
  /\ Outside /\ UNCHANGED <<ptr, done, signals, resizes, past>>

EndCycle ==
  /\ audio = "cycle" /\ audio' = "idle"
  /\ Outside /\ UNCHANGED <<pc, running, pause, ptr, done, jack, signals, resizes, past>>

\* buffer_size_cb: the event buffers are replaced, the rings and the message
\* buffer are overwritten, and with a ring a request for a pause is lost.
BufferSizeChanged ==
  /\ jack = "active" /\ audio = "idle" /\ resizes < MaxResizes
  /\ resizes' = resizes + 1
  /\ IF running
     THEN /\ Set({"rings", "message"}, "live")
          /\ pause' = IF pause = "asked" THEN "lost" ELSE pause
     ELSE UNCHANGED <<ptr, past, pause>>
  /\ Outside /\ UNCHANGED <<pc, running, done, jack, audio, signals>>

\* shutdown_cb.
ServerShutsDown ==
  /\ jack = "active" /\ audio = "idle" /\ jack' = "dead"
  /\ done' = done + 1 /\ asked' = TRUE
  /\ Outside
  /\ UNCHANGED <<pc, running, pause, ptr, audio, signals, resizes, lost, misused>>

\* After jalv_close the handler posts to a semaphore that is gone.
Signal ==
  /\ handler /\ signals < MaxSignals /\ signals' = signals + 1
  /\ IF ptr["done"] = "live" THEN done' = done + 1 /\ asked' = TRUE
                             ELSE UNCHANGED <<done, asked>>
  /\ Outside
  /\ UNCHANGED <<pc, running, pause, ptr, jack, audio, resizes, lost, misused>>

-----------------------------------------------------------------------------

Open == \/ ParseArguments \/ CreateWorld \/ LoadState \/ FindPlugin \/ CreateWorker
        \/ LoadDefault \/ ProcessInit \/ CreatePorts \/ OpenBackend \/ CheckFeatures
        \/ Instantiate \/ RestoreState

Close == \/ StopBackend \/ BackendStopped \/ StopPlugin
         \/ FreeBuffers \/ CloseBackend \/ FreePlugin \/ Cleanup \/ End

\* What the main thread does by itself, the user's part left out.
Main == \/ Open \/ SetupSignals \/ ActivatePlugin \/ ActivateBackend
        \/ LoopSeesDone \/ ReadLine \/ RestorePreset \/ NotInteractive
        \/ AwaitDone \/ PostDone \/ WaitDone \/ Close

User == NoLine \/ OtherCommand \/ PresetCommand \/ UiCloses

Jack == BeginCycle \/ EndCycle \/ BufferSizeChanged \/ ServerShutsDown

\* The main thread waits for a pause that no cycle will give: the server is gone,
\* or the request is on a ring that was replaced.
Unanswered ==
  pc = "pausing" /\ (pause = "lost" \/ (pause = "asked" /\ jack # "active"))

\* The program has ended, or nothing can wake it.
Over ==
  /\ pc \in {"exited", "crashed"} \/ Unanswered
  /\ audio = "idle" /\ UNCHANGED vars

Next == Main \/ User \/ Jack \/ Signal \/ Over

\* The main thread runs on; JACK begins cycles while the client is active, and ends
\* those it begins.
Spec ==
  Init /\ [][Next]_vars /\ WF_vars(Main) /\ WF_vars(BeginCycle) /\ WF_vars(EndCycle)
-----------------------------------------------------------------------------
(* Properties.                                                             *)

Places ==
  {"args", "world", "load", "plugin", "worker", "default", "init", "ports", "backend",
   "features", "instance", "restore", "signals", "activate", "start", "frontend", "line",
   "pausing", "await", "post", "wait", "stop_backend", "stop_wait", "stop_plugin", "free_buffers",
   "close_backend", "free_plugin", "cleanup", "end", "exited", "crashed"}

TypeOK ==
  /\ pc \in Places
  /\ frontend \in Frontends /\ safe \in BOOLEAN
  /\ pause \in {"none", "asked", "given", "over", "lost"}
  /\ ptr \in [Pointers -> {"null", "live", "freed"}]
  /\ {opened, closing, running, active, thread, handler, asked} \subseteq BOOLEAN
  /\ done \in Nat /\ jack \in {"off", "active", "dead"} /\ audio \in {"idle", "cycle"}
  /\ lost \subseteq Pointers /\ misused \subseteq Pointers
  /\ signals \in 0..MaxSignals /\ commands \in 0..MaxCommands /\ resizes \in 0..MaxResizes

Used == {"client", "instance", "rings", "message", "evbufs"}

\* Whatever ends the program, and whenever, no cycle, paused or not, finds a
\* plugin that is not active, nor buffers that are gone (jalv.c:959-1008).
CycleIsSafe ==
  audio = "cycle" => active /\ Used \subseteq Live(Pointers)

\* No sequence of presets, error exits and ends frees anything twice
\* (jalv.c:992-1051, state.c:223-232).
FreedOnce == misused = {}

Owned == {"backend", "world", "done", "state", "preset", "instance", "client", "evbufs"}

\* A program that was opened has freed all of this when it ends, however often
\* it was replaced (jalv.c:992-1051).  Rings replaced for a buffer size, the
\* lost worker and the array of process ports stay.
EndFrees ==
  pc = "exited" /\ opened => Owned \cap (Live(Pointers) \cup lost) = {}

\* What the host owns it frees, and once; and the variables have their types.
OwnedOnce == TypeOK /\ FreedOnce /\ EndFrees

\* A program that is asked to end, by a signal, by the server or by the end of its
\* input, ends.  frontend.h:51: "Open and run the frontend interface, signalling
\* jalv.done when finished".  What keeps it from that is named: a console waits for
\* a line for ever, or a preset command for a pause that no cycle will give; and
\* the cycle after a pause ends the program in its own way (jalv.c:889-1008,
\* state.c:188-219).  The UI does not keep to it: after its loop has consumed
\* jalv.done, or was closed, jalv_frontend_open waits for another post
\* (jalv_console.c:338-370).
Ended == pc = "exited" \/ (pc = "crashed" /\ pause = "over") \/ Unanswered
AskedEnds ==
  frontend # "ui" => ([]<>(pc # "line") => (asked ~> Ended))

\* jalv.c:779: "Create workers if necessary": a plugin with a worker interface
\* has its thread when audio starts.
WorkerLaunched == HasWork /\ jack = "active" => thread
-----------------------------------------------------------------------------
(* The inductive invariant.                                                *)

\* How far jalv_open has come.
BeforeWorld  == {"args", "world"}
BeforeState  == BeforeWorld \cup {"load"}
BeforeClient == BeforeState \cup {"plugin", "worker", "default", "init", "ports", "backend"}
BeforePlugin == BeforeClient \cup {"features", "instance"}
InOpen       == BeforePlugin \cup {"restore"}

\* The frontend has the main thread; or jalv_deactivate has, for the first time.
InFrontend == {"frontend", "line", "pausing", "await", "post", "wait"}
BeforeStop == InOpen \cup {"signals", "activate", "start"} \cup InFrontend
Stopping   == {"stop_backend", "stop_wait", "stop_plugin"}
Playing    == pc \in InFrontend \/ (pc \in Stopping /\ ~closing)

\* How far jalv_close has come.
AfterCleanup == {"end", "exited"}
AfterPlugin  == {"cleanup"} \cup AfterCleanup
AfterBackend == {"free_plugin"} \cup AfterPlugin
AfterBuffers == {"close_backend"} \cup AfterBackend

\* Where a pointer is still null, and where it is no longer live.
Unmade(p) == CASE p \in {"world", "done"}      -> BeforeWorld
               [] p = "state"                  -> BeforeState
               [] p = "client"                 -> BeforeClient
               [] p \in {"instance", "evbufs"} -> BeforePlugin
               [] OTHER                        -> {}
Gone(p) == CASE p = "state"                                           -> Places \ InOpen
             [] p = "evbufs"                                          -> AfterBuffers
             [] p = "client"                                          -> AfterBackend
             [] p \in {"instance", "preset"}                          -> AfterPlugin
             [] p \in {"worker", "rings", "message", "world", "done"} -> AfterCleanup
             [] p = "backend"                                         -> {"exited"}
             [] OTHER                                                 -> {}

\* A program that was not opened keeps its state and its backend.
PointersFollow ==
  \A p \in Pointers :
    /\ pc \in Unmade(p) => ptr[p] = "null"
    /\ ptr[p] = "freed" => pc \in Gone(p)
    /\ pc \in Gone(p) /\ (p \in {"state", "backend"} => opened) => ptr[p] # "live"

\* What was made before the frontend runs is there until jalv_close frees it,
\* and JACK has the client only in between.
PhasesFollow ==
  /\ pc \in InOpen => ~opened
  /\ pc \in BeforeStop => ~closing
  /\ pc \notin BeforeStop \cup Stopping \cup {"crashed"} => closing
  /\ pc \notin InOpen /\ ~closing => opened
  /\ pc \in {"features", "instance"} => ptr["client"] = "live"
  /\ pc \notin BeforePlugin /\ ~closing => \A p \in Used : ptr[p] = "live"
  /\ pc = "start" \/ Playing => active
  /\ jack = "active" => Playing /\ pc \notin {"stop_wait", "stop_plugin"}
  /\ audio = "cycle" => jack = "active" \/ (pc = "stop_wait" /\ ~closing)

IInv ==
  /\ TypeOK /\ FreedOnce /\ PointersFollow /\ PhasesFollow
  /\ lost \cap Owned = {}
=============================================================================
