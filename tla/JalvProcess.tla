----------------------------- MODULE JalvProcess -----------------------------
(***************************************************************************)
(* The audio thread and the main thread of jalv and the ring between them: *)
(* process.c (messages applied at the start of a cycle), the part of jack.c *)
(* that decides between running and bypassing the plugin, comm.c (messages *)
(* written whole or not at all), and state.c (a preset restored around a   *)
(* pause of the plugin).                                                   *)
(*                                                                         *)
(* The behaviour starts after jalv_activate.  The main thread either reads *)
(* console commands or drives a custom UI, never both.  A message is one   *)
(* element of the ring and counts its size in bytes.                       *)
(***************************************************************************)
EXTENDS Naturals, Sequences

CONSTANTS
  NumPorts,     \* control ports of the plugin
  Values,       \* control values
  RingSize,     \* bytes of the ring, a power of two; one byte stays unused
  EventSize,    \* bytes of a UI event's atom body
  BufferSize,   \* bytes of events the control input's buffer is made for
  MidiBytes,    \* bytes that JACK's MIDI events take of it in a cycle
  SafeRestore,  \* the plugin's restore() is thread-safe
  ControlIn,    \* process.control_in is an event input; in this source it never is
  MaxCommands,  \* bound: commands of the user
  MaxResizes    \* bound: JACK buffer size changes

ASSUME ProcessAssumption ==
  /\ NumPorts \in Nat /\ EventSize \in Nat /\ 0 \in Values
  /\ BufferSize \in Nat /\ MidiBytes \subseteq Nat /\ MidiBytes # {}
  /\ RingSize \in Nat /\ RingSize >= 32
  /\ SafeRestore \in BOOLEAN /\ ControlIn \in BOOLEAN
  /\ MaxCommands \in Nat /\ MaxResizes \in Nat

Ports == 1..NumPorts

VARIABLES
  runState,   \* proc->run_state
  ring,       \* proc->ui_to_plugin, oldest message first
  paused,     \* value of proc->paused
  controls,   \* proc->controls_buf
  evbuf,      \* UI events in the control input that the plugin has not seen
  filled,     \* bytes of events in the control input
  cycle,      \* where the audio thread is: idle, apply, plugin, crashed
  bypass,     \* the cycle bypasses the plugin
  budget,     \* messages of the cycle's snapshot still to apply
  mpc,        \* where the main thread is
  customUi,   \* it drives a UI instead of the console
  mustPause,  \* jalv_apply_state's local
  preset,     \* the value the preset being applied has for every port
  port,       \* next port of it to set
  commands,   \* commands begun
  resizes,    \* buffer size changes
  wanted,     \* history: the value last accepted for each port
  events,     \* history: events the ring accepted, numbered from 1
  seen,       \* history: those the plugin has seen
  lost        \* history: those refused by the full input or left on an old ring

audio == <<cycle, bypass, budget>>
main  == <<customUi, mpc, mustPause, preset, port, commands, events>>
input == <<evbuf, filled, seen, lost>>
vars  == <<runState, ring, paused, controls, input, audio, main, resizes, wanted>>

Control(p, v) == [type |-> "control", port |-> p, value |-> v]
Run(s)        == [type |-> "run", state |-> s]
Request       == [type |-> "request"]
Event(e)      == [type |-> "event", id |-> e]

Messages == {Control(p, v) : p \in Ports, v \in Values}
              \cup {Run("RUNNING"), Run("PAUSED"), Request}
              \cup [type : {"event"}, id : Nat]

EventIds(q) == {q[i].id : i \in {j \in DOMAIN q : q[j].type = "event"}}
Ids(s) == {s[i] : i \in DOMAIN s}

\* Header and payload of each message, as laid out in comm.h.
Size(m) == 8 + CASE m.type = "control" -> 8
                 [] m.type = "run"     -> 4
                 [] m.type = "request" -> 0
                 [] m.type = "event"   -> 12 + EventSize

Used(q) == LET sum[n \in 0..Len(q)] == IF n = 0 THEN 0 ELSE sum[n - 1] + Size(q[n])
           IN sum[Len(q)]

\* A write that does not fit leaves the ring alone.
Fits(m) == Used(ring) + Size(m) <= RingSize - 1
Write_Overwrites(m) == ring' = IF Fits(m) THEN Append(ring, m) ELSE <<m>>
Write(m) == ring' = IF Fits(m) THEN Append(ring, m) ELSE ring

Init ==
  /\ runState = "RUNNING" /\ ring = <<>> /\ paused = 0
  /\ controls \in [Ports -> Values] /\ wanted = controls
  /\ evbuf = <<>> /\ filled = 0 /\ events = 0 /\ seen = {} /\ lost = {}
  /\ cycle = "idle" /\ bypass = FALSE /\ budget = 0
  /\ customUi \in BOOLEAN /\ mpc = "idle" /\ mustPause = FALSE /\ preset = 0 /\ port = 1
  /\ commands = 0 /\ resizes = 0
-----------------------------------------------------------------------------
(* Main thread: commands.                                                  *)

\* A process that has crashed does nothing more, in any thread.
Alive == cycle # "crashed"

Command ==
  /\ Alive /\ mpc = "idle"
  /\ commands < MaxCommands /\ commands' = commands + 1

\* Console "set": the value goes straight to the buffer the plugin reads.
SetControl(p, v) ==
  /\ Command /\ ~customUi
  /\ controls' = [controls EXCEPT ![p] = v]
  /\ wanted' = [wanted EXCEPT ![p] = v]
  /\ UNCHANGED <<runState, ring, paused, input, audio, mpc, mustPause, preset,
                 port, resizes, customUi, events>>

\* A custom UI's control change and event go through the ring.
SendControl(p, v) ==
  /\ Command /\ customUi
  /\ Write(Control(p, v))
  /\ wanted' = IF Fits(Control(p, v)) THEN [wanted EXCEPT ![p] = v] ELSE wanted
  /\ UNCHANGED <<runState, paused, controls, input, audio, mpc, mustPause,
                 preset, port, resizes, customUi, events>>

SendEvent ==
  /\ Command /\ customUi
  /\ Write(Event(events + 1))
  /\ events' = IF Fits(Event(events + 1)) THEN events + 1 ELSE events
  /\ UNCHANGED <<runState, paused, controls, input, audio, mpc, mustPause,
                 preset, port, resizes, wanted, customUi>>

\* jalv_apply_state decides whether the plugin must be paused ...
MustPause_Always == TRUE
MustPause == ~SafeRestore /\ runState = "RUNNING"

ApplyPreset(v) ==
  /\ Command /\ ~customUi
  /\ preset' = v /\ port' = 1
  /\ mustPause' = MustPause
  /\ mpc' = IF MustPause THEN "pause" ELSE "restore"
  /\ UNCHANGED <<runState, ring, paused, controls, input, audio, resizes,
                 wanted, customUi, events>>

\* ... asks for it, whether or not the request fits, ...
WritePause ==
  /\ mpc = "pause" /\ mpc' = "wait"
  /\ Write(Run("PAUSED"))
  /\ UNCHANGED <<runState, paused, controls, input, audio, mustPause, preset,
                 port, commands, resizes, wanted, customUi, events>>

\* ... and waits for the audio thread to have seen it.
WaitPaused_NotAwaited ==
  /\ mpc = "wait" /\ mpc' = "restore"
  /\ UNCHANGED <<runState, ring, paused, controls, input, audio, mustPause,
                 preset, port, commands, resizes, wanted, customUi, events>>
WaitPaused ==
  /\ mpc = "wait" /\ paused > 0
  /\ paused' = paused - 1 /\ mpc' = "restore"
  /\ UNCHANGED <<runState, ring, controls, input, audio, mustPause, preset,
                 port, commands, resizes, wanted, customUi, events>>

\* While mpc is "restore" the main thread is inside the plugin's restore().
FinishRestore ==
  /\ mpc = "restore" /\ mpc' = "ports"
  /\ UNCHANGED <<runState, ring, paused, controls, input, audio, mustPause,
                 preset, port, commands, resizes, wanted, customUi, events>>

\* set_port_value, called for each port of the state in turn.
SetPortValue ==
  /\ mpc = "ports" /\ port \in Ports
  /\ port' = port + 1
  /\ IF runState # "RUNNING"
     THEN controls' = [controls EXCEPT ![port] = preset] /\ UNCHANGED ring
     ELSE Write(Control(port, preset)) /\ UNCHANGED controls
  /\ wanted' = IF runState = "RUNNING" /\ ~Fits(Control(port, preset))
               THEN wanted ELSE [wanted EXCEPT ![port] = preset]
  /\ UNCHANGED <<runState, paused, input, audio, mpc, mustPause, preset,
                 commands, resizes, customUi, events>>

FinishPorts ==
  /\ mpc = "ports" /\ port \notin Ports
  /\ mpc' = IF mustPause THEN "request" ELSE "idle"
  /\ UNCHANGED <<runState, ring, paused, controls, input, audio, mustPause,
                 preset, port, commands, resizes, wanted, customUi, events>>

\* The paused plugin is asked for its state and set running again.
WriteRequest ==
  /\ mpc = "request" /\ mpc' = "resume"
  /\ Write(Request)
  /\ UNCHANGED <<runState, paused, controls, input, audio, mustPause, preset,
                 port, commands, resizes, wanted, customUi, events>>

WriteRun ==
  /\ mpc = "resume" /\ mpc' = "idle"
  /\ Write(Run("RUNNING"))
  /\ UNCHANGED <<runState, paused, controls, input, audio, mustPause, preset,
                 port, commands, resizes, wanted, customUi, events>>
-----------------------------------------------------------------------------
(* Audio thread: process_cb.                                               *)

\* A paused plugin is bypassed; else its event buffers are emptied for the
\* cycle and JACK's events come first.  The messages in the ring now are the
\* ones this cycle applies.
BeginCycle ==
  /\ cycle = "idle" /\ cycle' = "apply"
  /\ budget' = Len(ring)
  /\ bypass' = (runState = "PAUSED")
  /\ IF runState = "PAUSED" THEN UNCHANGED <<evbuf, filled>>
                            ELSE evbuf' = <<>> /\ filled' \in MidiBytes
  /\ UNCHANGED <<runState, ring, paused, controls, seen, lost, main, resizes, wanted>>

\* lv2_evbuf_write at the end of the control input: n is the body's size, 16
\* bytes are the event's header, 8 the sequence's atom and 8 its body.  The
\* room left is unsigned: none at all is room without end (EventBuffer).
Pad(n) == ((n + 7) \div 8) * 8
HasRoom(n) == filled + 32 + n <= BufferSize \/ filled + 16 > BufferSize
Fill(n) == filled' = IF HasRoom(n) THEN filled + Pad(16 + n) ELSE filled

Applying(type) ==
  /\ cycle = "apply" /\ budget > 0 /\ Head(ring).type = type
  /\ ring' = Tail(ring) /\ budget' = budget - 1
  /\ UNCHANGED <<bypass, main, resizes, wanted, seen>>

ApplyControl ==
  /\ Applying("control")
  /\ controls' = [controls EXCEPT ![Head(ring).port] = Head(ring).value]
  /\ UNCHANGED <<runState, paused, evbuf, filled, lost, cycle>>

\* Whether the event was written is not looked at.
ApplyEvent ==
  /\ Applying("event")
  /\ Fill(EventSize)
  /\ IF HasRoom(EventSize)
     THEN evbuf' = Append(evbuf, Head(ring).id) /\ UNCHANGED lost
     ELSE lost' = lost \cup {Head(ring).id} /\ UNCHANGED evbuf
  /\ UNCHANGED <<runState, paused, controls, cycle>>

\* The body of the patch:Get object has 8 bytes.  Without a control input the
\* index is UINT32_MAX and the port is read far outside the array.
ApplyRequest ==
  /\ Applying("request")
  /\ IF ControlIn THEN Fill(8) /\ UNCHANGED cycle
                  ELSE cycle' = "crashed" /\ UNCHANGED filled
  /\ UNCHANGED <<runState, paused, controls, evbuf, lost>>

ApplyRunState_NoSignal ==
  /\ Applying("run")
  /\ runState' = Head(ring).state
  /\ UNCHANGED <<paused, controls, evbuf, filled, lost, cycle>>
ApplyRunState ==
  /\ Applying("run")
  /\ runState' = Head(ring).state
  /\ paused' = IF Head(ring).state = "PAUSED" THEN paused + 1 ELSE paused
  /\ UNCHANGED <<controls, evbuf, filled, lost, cycle>>

FinishApply_ResetsEvents ==
  /\ cycle = "apply" /\ budget = 0
  /\ cycle' = IF bypass THEN "idle" ELSE "plugin"
  /\ evbuf' = <<>> /\ filled' = 0
  /\ UNCHANGED <<runState, ring, paused, controls, seen, lost, bypass, budget, main,
                 resizes, wanted>>
FinishApply ==
  /\ cycle = "apply" /\ budget = 0
  /\ cycle' = IF bypass THEN "idle" ELSE "plugin"
  /\ UNCHANGED <<runState, ring, paused, controls, input, bypass, budget, main,
                 resizes, wanted>>

\* While cycle is "plugin" the audio thread is inside lilv_instance_run.
FinishPlugin ==
  /\ cycle = "plugin" /\ cycle' = "idle"
  /\ evbuf' = <<>> /\ seen' = seen \cup Ids(evbuf)
  /\ UNCHANGED <<runState, ring, paused, controls, filled, lost, bypass, budget, main,
                 resizes, wanted>>

\* JACK's buffer size callback, between cycles: new rings and event buffers
\* replace the old ones and whatever they hold.
MayResize == runState = "RUNNING"

BufferSizeChanged ==
  /\ cycle = "idle" /\ resizes < MaxResizes /\ MayResize
  /\ resizes' = resizes + 1
  /\ ring' = <<>> /\ evbuf' = <<>> /\ filled' = 0
  /\ lost' = lost \cup EventIds(ring)
  /\ UNCHANGED <<runState, paused, controls, seen, audio, main, wanted>>
-----------------------------------------------------------------------------
Restoring ==
  /\ Alive
  /\ \/ WritePause \/ WaitPaused \/ FinishRestore \/ SetPortValue
     \/ FinishPorts \/ WriteRequest \/ WriteRun

User == \/ \E p \in Ports, v \in Values : SetControl(p, v) \/ SendControl(p, v)
        \/ \E v \in Values : ApplyPreset(v)
        \/ SendEvent

Audio == \/ BeginCycle \/ ApplyControl \/ ApplyEvent \/ ApplyRequest
         \/ ApplyRunState \/ FinishApply \/ FinishPlugin

Crashed == ~Alive /\ UNCHANGED vars

Next == User \/ Restoring \/ Audio \/ BufferSizeChanged \/ Crashed

\* JACK keeps calling the process callback, and a main thread that can go on
\* with a restore does; nothing obliges the user or JACK's buffer size.
SafeSpec == Init /\ [][Next]_vars
Spec == SafeSpec /\ WF_vars(Restoring) /\ WF_vars(Audio)
-----------------------------------------------------------------------------
(* Properties.                                                             *)

TypeOK ==
  /\ runState \in {"RUNNING", "PAUSED"} /\ ring \in Seq(Messages)
  /\ paused \in Nat /\ controls \in [Ports -> Values]
  /\ evbuf \in Seq(Nat) /\ filled \in Nat /\ events \in Nat
  /\ seen \subseteq Nat /\ lost \subseteq Nat
  /\ cycle \in {"idle", "apply", "plugin", "crashed"}
  /\ bypass \in BOOLEAN /\ budget \in Nat
  /\ mpc \in {"idle", "pause", "wait", "restore", "ports", "request", "resume"}
  /\ mustPause \in BOOLEAN /\ customUi \in BOOLEAN /\ preset \in Values /\ port \in Nat \ {0}
  /\ commands \in Nat /\ resizes \in Nat /\ wanted \in [Ports -> Values]

Queued(state) == \E i \in DOMAIN ring : ring[i] = Run(state)

\* The section of jalv_apply_state between the pause and the resumption.
PausedSection == mustPause /\ mpc \in {"restore", "ports", "request", "resume"}

\* A restore that asked for the pause runs with the plugin paused from its
\* first call to its last, and nothing that was queued can undo the pause
\* under it (state.c:188-219, process.c:79-87).
RestoreIsPaused == PausedSection => runState = "PAUSED" /\ ~Queued("RUNNING")

\* A paused plugin always has someone who will resume it: the RUNNING message
\* is queued, or the main thread is on its way to write it (state.c:190-219,
\* jack.c:59-62: the rings are not replaced under a paused plugin).  What
\* becomes of that message is PauseOutcome's matter.
PausedWillResume ==
  runState = "PAUSED" => \/ Queued("RUNNING")
                         \/ PausedSection
                         \/ mpc = "wait" /\ paused = 1

\* The semaphore answers exactly one request: never a count left over that
\* would let a later restore start without its pause (state.c:196,
\* process.c:85-87).
SignalMatchesRequest ==
  /\ paused > 0 => paused = 1 /\ mpc = "wait" /\ runState = "PAUSED"
  /\ Queued("PAUSED") => mpc = "wait" /\ paused = 0

\* The message of a UI that the plugin will apply last for a port carries the
\* value last accepted for it; with none left the plugin reads that value:
\* refused writes and partly applied rings included (comm.c:48-64,
\* process.c:40-48), until a change of the buffer size has replaced the ring.
LatestWins ==
  customUi /\ resizes = 0 =>
  \A p \in Ports :
    LET Pending == {i \in DOMAIN ring : ring[i].type = "control" /\ ring[i].port = p}
    IN IF Pending = {} THEN controls[p] = wanted[p]
       ELSE \E i \in Pending : /\ ring[i].value = wanted[p]
                               /\ \A j \in Pending : j <= i

\* The plugin sees the events a UI could write in their order and once each,
\* in the cycle that takes them off the ring.  The only ones it never sees are
\* those the control input had no room for, which nobody is told, and those on
\* a ring that a change of the buffer size replaced (process.c:50-63, 99-107,
\* jack.c:169-203).
Precedes(S, T) == \A d \in S, e \in T : d < e
Rising(s) == \A i, j \in DOMAIN s : i < j => s[i] < s[j]
Ascending(q) ==
  \A i, j \in DOMAIN q :
    i < j /\ q[i].type = "event" /\ q[j].type = "event" => q[i].id < q[j].id
EventsReachPlugin ==
  customUi =>
  /\ cycle = "idle" => evbuf = <<>>
  /\ Rising(evbuf) /\ Ascending(ring)
  /\ Precedes(seen, Ids(evbuf) \cup EventIds(ring)) /\ Precedes(Ids(evbuf), EventIds(ring))
  /\ seen \cup Ids(evbuf) \cup EventIds(ring) = (1..events) \ lost

\* A restore that does not claim to be thread-safe has the plugin to itself:
\* no cycle is inside run().  jalv.h:71 documents the flag as "Plugin restore()
\* is thread-safe", types.h:15 the state it is given as "Active but bypassing
\* the plugin (silent)".
RestoreRunsAlone == ~SafeRestore /\ mpc = "restore" => cycle # "plugin"

\* A plugin paused for a restore runs again if the process has a control
\* input.  In this source it has none: the cycle that takes the request for
\* the state, which is queued before the resumption, reads outside of the
\* ports, and the pause always ends with the process (state.c:213-218,
\* process.c:65-69, process_setup.c:51).
PauseOutcome ==
  runState = "PAUSED" ~> IF ControlIn THEN runState = "RUNNING" ELSE cycle = "crashed"

\* Once the buffer size stays what it is, a preset that needs a pause is
\* restored and its ports are set, whatever the request after it does
\* (state.c:190-213).
ApplyCompletes == mpc = "pause" /\ resizes = MaxResizes ~> mpc = "resume"

\* At most one run state message is queued, and nothing behind a pause.
RunMessages ==
  \A i, j \in DOMAIN ring : /\ ring[i].type = "run" /\ ring[j].type = "run" => i = j
                            /\ ring[i] = Run("PAUSED") => j <= i

\* What the run state and the ring are in each phase of a restore.
Handshake ==
  /\ Queued("RUNNING") => runState = "PAUSED" /\ mpc \in {"idle", "restore", "ports"}
  /\ mpc \in {"pause", "wait", "request", "resume"} => mustPause
  /\ mpc = "pause" => runState = "RUNNING"
  /\ mpc = "wait" => \/ runState = "RUNNING" /\ paused = 0
                     \/ runState = "PAUSED" /\ paused = 1 /\ ring = <<>>
  /\ PausedSection => /\ runState = "PAUSED"
                      /\ IF mpc = "resume" THEN ring \in {<<>>, <<Request>>}
                                           ELSE ring = <<>>

\* The messages a cycle has still to apply are in the ring.
SnapshotInRing == cycle = "apply" => budget <= Len(ring)

\* The plugin of a custom UI is never paused, so that a cycle that takes an
\* event off the ring runs it.
PluginRunsOn ==
  customUi => /\ mpc = "idle" /\ runState = "RUNNING" /\ ~bypass
              /\ \A i \in DOMAIN ring : ring[i].type # "run"
              /\ cycle = "idle" => evbuf = <<>>

\* The inductive invariant.
IInv == /\ TypeOK /\ PausedWillResume /\ SignalMatchesRequest
        /\ RunMessages /\ Handshake /\ SnapshotInRing
=============================================================================
