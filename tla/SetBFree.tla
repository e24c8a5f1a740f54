------------------------------ MODULE SetBFree ------------------------------
(***************************************************************************)
(* The LV2 plugin that plays the front panel of a setBfree organ: its      *)
(* ports hold a setting each, and every run sends what has changed as MIDI *)
(* messages.  All ports of the plugin are here; the user turns some.       *)
(*                                                                         *)
(* The organ is not in the repository: a control change stores its byte, a *)
(* program change replaces every setting.                                  *)
(***************************************************************************)
EXTENDS Integers, Sequences, FiniteSets

CONSTANTS
  Turned,   \* ports the user turns
  Capacity  \* events the output port has room for

PORT_CONTROL_FIRST == 2
PORT_CONTROL_SEND_CONFIGURATION == 2
PORT_CONTROL_PRESET == 3
PORT_CONTROL_LOWER_MANUAL_PRESET == 4
PORT_CONTROL_UPPER_MANUAL_PRESET == 5
PORT_CONTROL_RANDOM_DRAWBARS == 6
PORT_CONTROL_FIRST_SETTING == 7
PORT_CONTROL_DRAWBAR_UPPER == 18
PORT_ENUM_SIZE == 45

Ports    == PORT_CONTROL_FIRST..(PORT_ENUM_SIZE - 1)
Settings == PORT_CONTROL_FIRST_SETTING..(PORT_ENUM_SIZE - 1)
Presets  == PORT_CONTROL_PRESET..PORT_CONTROL_UPPER_MANUAL_PRESET

ASSUME SetBFreeAssumption ==
  Turned \subseteq Ports /\ Capacity \in Nat

VARIABLES
  port,       \* what the host has stored in the ports
  last_value,
  msgs,       \* msg_buffer up to msg
  at,         \* the port run is at, or 0 between two runs
  organ       \* the settings of the organ

vars == <<port, last_value, msgs, at, organ>>

Unset    == 256  \* an organ setting nobody has sent
ByPreset == 257  \* one that a program change replaced

\* The greatest value a port may have (of a linear setting: its end).
Highest(p) == IF p \in Presets THEN 110 ELSE IF p = 16 THEN 5 ELSE IF p = 17 THEN 2
              ELSE IF p >= PORT_CONTROL_DRAWBAR_UPPER THEN 8 ELSE 1

\* Channel and controller of a setting.
Drawbar(p) == p - PORT_CONTROL_DRAWBAR_UPPER
Panel == [p \in 7..17 |->
            <<93, 91, 7, 80, 81, 82, 83, 30, 31, 92, 1>>[p - 6]]

Address_OneChannel(p) ==
  IF p < PORT_CONTROL_DRAWBAR_UPPER THEN <<0, Panel[p]>>
  ELSE <<0, 70 + (Drawbar(p) % 9)>>
Address(p) ==
  IF p < PORT_CONTROL_DRAWBAR_UPPER THEN <<0, Panel[p]>>
  ELSE <<Drawbar(p) \div 9, 70 + (Drawbar(p) % 9)>>

\* (int) of a quotient rounds to zero; the result is stored in a byte.
Quotient(c, n) == IF c >= 0 THEN (c * 127) \div n ELSE -((-c * 127) \div n)

Convert(p, c) ==
  (IF p <= 9 THEN Quotient(c, 1)
   ELSE IF p <= 15 THEN (IF c < 1 THEN 0 ELSE 127)
   ELSE IF p = 16 THEN Quotient(c, 5) ELSE IF p = 17 THEN Quotient(c, 2)
   ELSE 127 - Quotient(c, 8)) % 256

Control(p, c) == [port |-> p, byte |-> Convert(p, c)]

\* write_midi_signal: what it adds to msg for port p with last value c.
Signal(p, c) ==
  IF p \in Settings THEN <<Control(p, c)>>
  ELSE IF c = 0 THEN <<>>
  ELSE <<[port |-> p, byte |-> IF p = PORT_CONTROL_RANDOM_DRAWBARS
                                 THEN 54 ELSE c - 1]>>

Init ==
  /\ port = [p \in Ports |-> 0]
  /\ last_value = [p \in Ports |-> IF p \in Settings THEN -1 ELSE 0]
  /\ msgs = <<>> /\ at = 0
  /\ organ = [a \in {Address(p) : p \in Settings} |-> Unset]

-----------------------------------------------------------------------------

\* The host stores a value between two runs.
Turn(p, v) ==
  /\ at = 0 /\ port' = [port EXCEPT ![p] = v]
  /\ UNCHANGED <<last_value, msgs, at, organ>>

BeginRun ==
  /\ at = 0 /\ at' = PORT_CONTROL_FIRST /\ msgs' = <<>>
  /\ UNCHANGED <<port, last_value, organ>>

\* The next port that has changed (the others are passed over).
Changed(p) ==
  /\ at \in Ports /\ p >= at /\ last_value[p] # port[p]
  /\ \A q \in at..(p - 1) : last_value[q] = port[q]
  /\ last_value' = [last_value EXCEPT ![p] = port[p]]
  /\ UNCHANGED <<port, organ>>

PortChanges_NotCached(p) ==
  /\ p # PORT_CONTROL_SEND_CONFIGURATION
  /\ at \in Ports /\ p >= at /\ last_value[p] # port[p]
  /\ \A q \in at..(p - 1) : last_value[q] = port[q]
  /\ UNCHANGED <<port, organ, last_value>>
  /\ msgs' = msgs \o Signal(p, port[p]) /\ at' = p + 1
PortChanges(p) ==
  /\ p # PORT_CONTROL_SEND_CONFIGURATION /\ Changed(p)
  /\ msgs' = msgs \o Signal(p, port[p]) /\ at' = p + 1

SendReset ==
  /\ Changed(PORT_CONTROL_SEND_CONFIGURATION)
  /\ port[PORT_CONTROL_SEND_CONFIGURATION] = 0
  /\ at' = PORT_CONTROL_SEND_CONFIGURATION + 1 /\ UNCHANGED msgs

\* The presets that are selected, or else all settings; then break.
SelectedPresets == Signal(PORT_CONTROL_PRESET, last_value[PORT_CONTROL_PRESET])
               \o Signal(PORT_CONTROL_LOWER_MANUAL_PRESET,
                         last_value[PORT_CONTROL_LOWER_MANUAL_PRESET])
               \o Signal(PORT_CONTROL_UPPER_MANUAL_PRESET,
                         last_value[PORT_CONTROL_UPPER_MANUAL_PRESET])

AllSettings_FromSecond ==
  [i \in 1..(PORT_ENUM_SIZE - PORT_CONTROL_FIRST_SETTING - 1) |->
     Control(PORT_CONTROL_FIRST_SETTING + i, last_value[PORT_CONTROL_FIRST_SETTING + i])]
AllSettings ==
  [i \in 1..(PORT_ENUM_SIZE - PORT_CONTROL_FIRST_SETTING) |->
     Control(PORT_CONTROL_FIRST_SETTING + i - 1,
             last_value[PORT_CONTROL_FIRST_SETTING + i - 1])]

SendConfiguration_NoBreak ==
  /\ Changed(PORT_CONTROL_SEND_CONFIGURATION)
  /\ port[PORT_CONTROL_SEND_CONFIGURATION] # 0
  /\ msgs' = IF SelectedPresets # <<>> THEN SelectedPresets ELSE AllSettings
  /\ at' = PORT_CONTROL_SEND_CONFIGURATION + 1
SendConfiguration ==
  /\ Changed(PORT_CONTROL_SEND_CONFIGURATION)
  /\ port[PORT_CONTROL_SEND_CONFIGURATION] # 0
  /\ msgs' = IF SelectedPresets # <<>> THEN SelectedPresets ELSE AllSettings
  /\ at' = PORT_ENUM_SIZE

\* What the organ makes of the events that found room.
Sent == IF Len(msgs) <= Capacity THEN Len(msgs) ELSE Capacity

Affects(m, a) == m.port \notin Settings \/ Address(m.port) = a

Played(a) ==
  LET heard == {i \in 1..Sent : Affects(msgs[i], a)}
      m     == msgs[CHOOSE i \in heard : \A j \in heard : j <= i]
  IN IF heard = {} THEN organ[a]
     ELSE IF m.port \in Settings THEN m.byte ELSE ByPreset

EndRun ==
  /\ at # 0 /\ \A p \in at..(PORT_ENUM_SIZE - 1) : last_value[p] = port[p]
  /\ organ' = [a \in DOMAIN organ |-> Played(a)]
  /\ at' = 0 /\ msgs' = <<>>
  /\ UNCHANGED <<port, last_value>>

Run == BeginRun \/ (\E p \in Ports : PortChanges(p)) \/ SendReset
       \/ SendConfiguration \/ EndRun

Next == (\E p \in Turned : \E v \in {0, Highest(p)} : Turn(p, v)) \/ Run

\* The host goes on running the plugin.
Spec == Init /\ [][Next]_vars /\ WF_vars(Run)

-----------------------------------------------------------------------------
(* Properties.                                                             *)

TypeOK ==
  /\ port \in [Ports -> 0..110] /\ last_value \in [Ports -> -1..110]
  /\ \A p \in Ports : port[p] <= Highest(p) /\ last_value[p] <= Highest(p)
  /\ msgs \in Seq([port : Ports, byte : 0..255])
  /\ at \in {0} \cup (PORT_CONTROL_FIRST..PORT_ENUM_SIZE)
  /\ DOMAIN organ = {Address(p) : p \in Settings}

\* msg_buffer has four bytes for every port; run never fills more of it,
\* whatever changed and was asked for in one cycle (lines 117, 298-337).
MessagesFit == Len(msgs) <= PORT_ENUM_SIZE

\* A data byte above 127 is sent only of a setting whose port was never read:
\* when the very first run is asked for the configuration (lines 165, 329).
DataBytes ==
  \A i \in 1..Len(msgs) : msgs[i].byte > 127 =>
    msgs[i].port \in Settings /\ last_value[msgs[i].port] = -1

\* A setting is read once in a run: its message has the value that the plugin
\* believes it sent.
MessagesAreCurrent ==
  \A i \in 1..Len(msgs) :
    msgs[i].port \in Settings =>
      msgs[i].byte = Convert(msgs[i].port, last_value[msgs[i].port])

\* What carries all three by induction: a message for each port that was passed
\* at most, and of no other.
IInv ==
  /\ TypeOK /\ DataBytes /\ MessagesAreCurrent
  /\ \A p \in Ports \ Settings : last_value[p] >= 0
  /\ at = 0 => msgs = <<>>
  /\ at # 0 => /\ Len(msgs) <= at - PORT_CONTROL_FIRST
               /\ \A i \in 1..Len(msgs) : msgs[i].port < at

\* Between two runs the organ has every setting the plugin believes it sent,
\* unless a preset came after it; no other setting was taken for it.
InSync ==
  at = 0 => \A p \in Settings :
    last_value[p] # -1 =>
      organ[Address(p)] \in {Convert(p, last_value[p]), ByPreset}

\* InSync within a run: what the organ has not got yet is in the messages.
OnItsWay ==
  \A p \in Settings :
    last_value[p] # -1 =>
      \/ \E i \in 1..Len(msgs) : Affects(msgs[i], Address(p))
      \/ organ[Address(p)] \in {Convert(p, last_value[p]), ByPreset}

\* A run that sends the configuration leaves no setting of the organ to a
\* preset of an earlier run (lines 313-333).
ConfigurationIsWhole ==
  [][ SendConfiguration /\ SelectedPresets = <<>> =>
        \A p \in Settings : \E i \in 1..Len(msgs') :
          msgs'[i] = Control(p, last_value'[p]) ]_vars

\* A value that stays in its port is read at last, also when sending the
\* configuration made the run break off before it (lines 325, 332).
StayingIsRead ==
  \A p \in Turned : \A v \in {0, Highest(p)} :
    port[p] = v ~> port[p] # v \/ last_value[p] = v
=============================================================================
