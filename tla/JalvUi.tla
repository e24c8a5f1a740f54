------------------------------- MODULE JalvUi -------------------------------
(***************************************************************************)
(* JalvProcess together with the way back: what the audio thread writes to *)
(* plugin_to_ui after a cycle (jack.c), what the main thread of a custom   *)
(* UI takes off it (jalv_update), and what becomes of a new plugin         *)
(* latency, told to JACK by a callback that JACK's own thread makes.       *)
(*                                                                         *)
(* The plugin has one latency port, one event output and one control       *)
(* output, in this order.  A control message carries no value here: what   *)
(* jalv_update hands the UI is the start of the message, which is the      *)
(* index of the port, so that no property of the value holds.              *)
(***************************************************************************)
EXTENDS JalvProcess, FiniteSets

CONSTANTS
  Latencies,     \* values of the plugin's latency port
  Modes,         \* JACK's two directions: capture, playback
  UpdateCycles,  \* cycles after which control outputs are sent again
  MaxOutputs     \* bound: events and latency changes of the plugin

ASSUME UiAssumption ==
  /\ 0 \in Latencies /\ Latencies \subseteq Nat /\ "none" \notin Modes
  /\ UpdateCycles \in Nat /\ MaxOutputs \in Nat

VARIABLES
  stage,     \* what the audio thread delivers next, "none" outside of it
  port_out,  \* value of the latency port
  emitted,   \* events in the plugin's event output
  since,     \* cycles since control outputs were last due: pending_frames
  due,       \* send_ui_updates of this cycle
  latency,   \* proc->plugin_latency
  toUi,      \* proc->plugin_to_ui, oldest message first
  oldUi,     \* the ring a jalv_update goes on reading after it was replaced
  onOld,     \* it does
  upc,       \* the main thread is in jalv_update, or idle
  left,      \* messages of its snapshot not yet taken
  asked,     \* modes JACK still has to call latency_cb for
  calling,   \* mode of the call in progress, or "none"
  least,     \* range.min of that call
  told,      \* the range last set, by mode
  outputs,   \* events and latency changes so far
  sent,      \* history: events the plugin made
  given,     \* history: events the UI was given
  gone,      \* history: events refused, or left on a replaced ring
  unsaid     \* history: a latency change was refused or left behind

delivery == <<stage, port_out, emitted, since, due, latency, outputs, sent>>
backward == <<toUi, oldUi, onOld>>
update   == <<upc, left, given>>
jack     == <<asked, calling, least, told>>
ui       == <<delivery, backward, update, jack, gone, unsaid>>
uiVars   == <<vars, ui>>

Latency == [type |-> "latency"]
Monitor == [type |-> "monitor"]

\* The layout of comm.h, as in JalvProcess.
BackSize(m) == 8 + CASE m.type = "monitor" -> 8
                     [] m.type = "latency" -> 4
                     [] m.type = "event"   -> 12 + EventSize
BackUsed(q) == LET sum[n \in 0..Len(q)] == IF n = 0 THEN 0 ELSE sum[n - 1] + BackSize(q[n])
               IN sum[Len(q)]
BackFits(m) == BackUsed(toUi) + BackSize(m) <= RingSize - 1
BackWrite_Overwrites(m) == toUi' = IF BackFits(m) THEN Append(toUi, m) ELSE <<m>>
BackWrite(m) == toUi' = IF BackFits(m) THEN Append(toUi, m) ELSE toUi

Tells(q) == \E i \in DOMAIN q : q[i] = Latency

UiInit ==
  /\ Init /\ customUi
  /\ stage = "none" /\ port_out = 0 /\ emitted = <<>> /\ since = 0 /\ due = FALSE
  /\ latency = 0 /\ toUi = <<>> /\ oldUi = <<>> /\ onOld = FALSE
  /\ upc = "idle" /\ left = 0
  /\ asked = {} /\ calling = "none" /\ least = 0 /\ told = [m \in Modes |-> <<0, 0>>]
  /\ outputs = 0 /\ sent = <<>> /\ given = <<>> /\ gone = {} /\ unsaid = FALSE
-----------------------------------------------------------------------------
(* Audio thread.                                                           *)

\* The plugin ends its cycle with a latency and perhaps an event.
PluginEnds ==
  /\ FinishPlugin
  /\ port_out' \in Latencies
  /\ emitted' \in {<<>>, <<Len(sent) + 1>>} /\ sent' = sent \o emitted'
  /\ outputs' = outputs + Len(emitted') + (IF port_out' = port_out THEN 0 ELSE 1)
  /\ outputs' <= MaxOutputs
  /\ due' = (since >= UpdateCycles) /\ since' = IF due' THEN 0 ELSE since + 1
  /\ stage' = "latency"
  /\ UNCHANGED <<latency, backward, update, jack, gone, unsaid>>

LatencySame ==
  /\ stage = "latency" /\ port_out = latency
  /\ stage' = "events"
  /\ UNCHANGED <<vars, port_out, emitted, since, due, latency, outputs, sent,
                 backward, update, jack, gone, unsaid>>

\* The cached latency changes before the message is written, and stays
\* changed when the message is refused.
SetLatency ==
  /\ stage = "latency" /\ port_out # latency
  /\ latency' = port_out /\ stage' = "tell"
  /\ UNCHANGED <<vars, port_out, emitted, since, due, outputs, sent,
                 backward, update, jack, gone, unsaid>>

WriteLatency_Forgotten ==
  /\ stage = "tell" /\ stage' = "events"
  /\ UNCHANGED <<vars, port_out, emitted, since, due, latency, outputs, sent,
                 backward, update, jack, gone, unsaid>>
WriteLatency ==
  /\ stage = "tell" /\ stage' = "events"
  /\ BackWrite(Latency)
  /\ unsaid' = (unsaid \/ ~BackFits(Latency))
  /\ UNCHANGED <<vars, port_out, emitted, since, due, latency, outputs, sent,
                 oldUi, onOld, update, jack, gone>>

\* A refused event is dropped.
WriteEmitted ==
  /\ stage = "events" /\ emitted # <<>>
  /\ emitted' = Tail(emitted)
  /\ BackWrite(Event(Head(emitted)))
  /\ gone' = IF BackFits(Event(Head(emitted))) THEN gone ELSE gone \cup {Head(emitted)}
  /\ UNCHANGED <<vars, stage, port_out, since, due, latency, outputs, sent,
                 oldUi, onOld, update, jack, unsaid>>

WriteMonitors ==
  /\ stage = "events" /\ emitted = <<>>
  /\ stage' = "none"
  /\ IF due THEN BackWrite(Monitor) ELSE UNCHANGED toUi
  /\ UNCHANGED <<vars, port_out, emitted, since, due, latency, outputs, sent,
                 oldUi, onOld, update, jack, gone, unsaid>>

Deliver == LatencySame \/ SetLatency \/ WriteLatency \/ WriteEmitted \/ WriteMonitors

\* The cycle before the plugin ran, and between two cycles: JalvProcess.
Prepare ==
  /\ stage = "none"
  /\ BeginCycle \/ ApplyControl \/ ApplyEvent \/ ApplyRequest \/ ApplyRunState \/ FinishApply
  /\ UNCHANGED ui

\* Both rings are replaced.  A jalv_update under way has the old ring, which
\* is never freed, and takes the rest of its snapshot from there.
Abandoned == IF upc = "update" /\ ~onOld THEN SubSeq(toUi, left + 1, Len(toUi)) ELSE toUi

ReplaceRings ==
  /\ stage = "none" /\ BufferSizeChanged
  /\ toUi' = <<>>
  /\ IF upc = "update" /\ ~onOld THEN oldUi' = SubSeq(toUi, 1, left) /\ onOld' = TRUE
                                 ELSE UNCHANGED <<oldUi, onOld>>
  /\ gone' = gone \cup EventIds(Abandoned)
  /\ unsaid' = (unsaid \/ Tells(Abandoned))
  /\ UNCHANGED <<delivery, update, jack>>
-----------------------------------------------------------------------------
(* Main thread: jalv_run_custom_ui.                                        *)

\* The UI writes to the plugin from its idle call.
UiSends ==
  /\ upc = "idle" /\ (SendEvent \/ \E p \in Ports, v \in Values : SendControl(p, v))
  /\ UNCHANGED ui

\* jalv_update takes what was there when it began, a message at a time.
UpdateBegins ==
  /\ upc = "idle" /\ upc' = "update" /\ left' = Len(toUi)
  /\ UNCHANGED <<vars, delivery, backward, jack, given, gone, unsaid>>

Ring == IF onOld THEN oldUi ELSE toUi

Take ==
  /\ upc = "update" /\ left > 0
  /\ left' = left - 1
  /\ IF onOld THEN oldUi' = Tail(oldUi) /\ UNCHANGED toUi
              ELSE toUi' = Tail(toUi) /\ UNCHANGED oldUi
  /\ UNCHANGED <<vars, delivery, onOld, upc, calling, least, told, gone, unsaid>>

TakeEvent ==
  /\ Take /\ Head(Ring).type = "event"
  /\ given' = Append(given, Head(Ring).id)
  /\ UNCHANGED asked

TakeMonitor ==
  /\ Take /\ Head(Ring).type = "monitor"
  /\ UNCHANGED <<given, asked>>

\* JACK is asked to recompute: it will call back for both modes.
TakeLatency_MergesCalls ==
  /\ Take /\ Head(Ring).type = "latency"
  /\ asked' = (IF calling = "none" THEN Modes ELSE asked) /\ UNCHANGED given
TakeLatency ==
  /\ Take /\ Head(Ring).type = "latency"
  /\ asked' = Modes /\ UNCHANGED given

UpdateEnds ==
  /\ upc = "update" /\ left = 0
  /\ upc' = "idle" /\ onOld' = FALSE
  /\ UNCHANGED <<vars, delivery, toUi, oldUi, left, given, jack, gone, unsaid>>

Ui == UpdateBegins \/ TakeEvent \/ TakeMonitor \/ TakeLatency \/ UpdateEnds
-----------------------------------------------------------------------------
(* JACK's thread: latency_cb reads the plugin's latency twice.             *)

AddToLeast(m) ==
  /\ calling = "none" /\ m \in asked
  /\ asked' = asked \ {m} /\ calling' = m /\ least' = latency
  /\ UNCHANGED <<vars, delivery, backward, update, told, gone, unsaid>>

AddToMost ==
  /\ calling # "none" /\ calling' = "none" /\ least' = 0
  /\ told' = [told EXCEPT ![calling] = <<least, latency>>]
  /\ UNCHANGED <<vars, delivery, backward, update, asked, gone, unsaid>>

Recompute == AddToMost \/ \E m \in Modes : AddToLeast(m)
-----------------------------------------------------------------------------
UiAudio == Prepare \/ PluginEnds \/ Deliver

UiNext == UiSends \/ UiAudio \/ ReplaceRings \/ Ui \/ Recompute

\* JACK keeps calling, the UI's loop goes on and every callback returns.
UiSafeSpec == UiInit /\ [][UiNext]_uiVars
UiSpec == UiSafeSpec
            /\ WF_uiVars(UiAudio) /\ WF_uiVars(Ui) /\ WF_uiVars(Recompute)
-----------------------------------------------------------------------------
(* Properties.                                                             *)

Current(m) == told[m] = <<latency, latency>>

\* JACK knows the plugin's latency for both directions, or is about to: the
\* message is on its way, the callback is due, or it runs and has read the
\* latency there is now.  Only a message refused by a full ring or left on a
\* replaced one breaks this, and nothing repairs it (jack.c:212-227,
\* jalv.c:488-489, jack.c:261-305).
OnItsWay == Tells(toUi) \/ Tells(oldUi) \/ stage = "tell"
LatencyTold ==
  unsaid \/ \A m \in Modes : \/ Current(m) /\ calling # m
                             \/ OnItsWay \/ m \in asked
                             \/ calling = m /\ least = latency

\* The events the UI was given, those of a ring still being read and those
\* in the ring are the plugin's events in their order (it numbers them),
\* without those that were refused or left behind: none twice, none out of
\* turn, none forgotten (jack.c:229-252, jalv.c:453-497).
UiEventsInOrder ==
  /\ Rising(given) /\ Ascending(oldUi) /\ Ascending(toUi)
  /\ Precedes(Ids(given), EventIds(oldUi) \cup EventIds(toUi) \cup Ids(emitted))
  /\ Precedes(EventIds(oldUi), EventIds(toUi) \cup Ids(emitted))
  /\ Precedes(EventIds(toUi), Ids(emitted))
  /\ Ids(given) \cup EventIds(oldUi) \cup EventIds(toUi) \cup Ids(emitted)
       = Ids(sent) \ gone

\* A plugin that leaves its latency alone has JACK know it, both ends of the
\* range, unless the message was lost.
LatencySettles ==
  outputs = MaxOutputs ~> unsaid \/ \A m \in Modes : told[m] = <<port_out, port_out>>
-----------------------------------------------------------------------------
(* The inductive invariant.                                                *)

BackMessages == {Latency, Monitor} \cup [type : {"event"}, id : Nat]

UiTypeOK ==
  /\ stage \in {"none", "latency", "tell", "events"}
  /\ port_out \in Latencies /\ latency \in Latencies /\ least \in Nat
  /\ sent \in Seq(Nat) /\ given \in Seq(Nat) /\ emitted \in Seq(Nat)
  /\ toUi \in Seq(BackMessages) /\ oldUi \in Seq(BackMessages)
  /\ onOld \in BOOLEAN /\ upc \in {"idle", "update"} /\ left \in Nat
  /\ asked \subseteq Modes /\ calling \in Modes \cup {"none"}
  /\ told \in [Modes -> Nat \X Nat] /\ unsaid \in BOOLEAN

\* Delivery is between the plugin's end and the next cycle.
DeliversBetweenCycles ==
  /\ stage # "none" => cycle = "idle"
  /\ stage = "none" => emitted = <<>>

\* The plugin numbers its events, and makes one a cycle.
EventsAreNumbered ==
  /\ \A i \in DOMAIN sent : sent[i] = i
  /\ emitted \in {<<>>, <<Len(sent)>>}
  /\ gone \subseteq 1..Len(sent)

\* What a jalv_update has still to take is in the ring it reads, and all that
\* is left of an old one.
SnapshotIsThere ==
  /\ upc = "idle" => left = 0 /\ ~onOld
  /\ IF onOld THEN left = Len(oldUi) ELSE oldUi = <<>> /\ left <= Len(toUi)

UiIInv ==
  /\ UiTypeOK /\ DeliversBetweenCycles /\ EventsAreNumbered /\ SnapshotIsThere
  /\ LatencyTold /\ UiEventsInOrder
=============================================================================
