--------------------------- MODULE SetBFreeProofs ---------------------------
(***************************************************************************)
(* The messages of one run fit msg_buffer, and their data are data bytes,  *)
(* whatever the user turns and however much the output port holds.         *)
(***************************************************************************)
EXTENDS SetBFree, SequenceTheorems, WellFoundedInduction, TLAPS

Message == [port : Ports, byte : 0..255]

\* The enumeration, as numbers.
LEMMA Numbers ==
  /\ Ports = 2..44 /\ Settings = 7..44 /\ Presets = 3..5
  /\ PORT_CONTROL_FIRST = 2 /\ PORT_CONTROL_SEND_CONFIGURATION = 2
  /\ PORT_CONTROL_PRESET = 3 /\ PORT_CONTROL_LOWER_MANUAL_PRESET = 4
  /\ PORT_CONTROL_UPPER_MANUAL_PRESET = 5 /\ PORT_CONTROL_RANDOM_DRAWBARS = 6
  /\ PORT_CONTROL_FIRST_SETTING = 7 /\ PORT_CONTROL_DRAWBAR_UPPER = 18
  /\ PORT_ENUM_SIZE = 45
BY DEF Ports, Settings, Presets, PORT_CONTROL_FIRST, PORT_CONTROL_SEND_CONFIGURATION,
       PORT_CONTROL_PRESET, PORT_CONTROL_LOWER_MANUAL_PRESET,
       PORT_CONTROL_UPPER_MANUAL_PRESET, PORT_CONTROL_RANDOM_DRAWBARS,
       PORT_CONTROL_FIRST_SETTING, PORT_CONTROL_DRAWBAR_UPPER, PORT_ENUM_SIZE

LEMMA PortNumbers ==
  \A p : /\ p \in Ports <=> p \in 2..44
         /\ p \in Settings <=> p \in 7..44
BY DEF Ports, Settings, PORT_CONTROL_FIRST, PORT_CONTROL_FIRST_SETTING, PORT_ENUM_SIZE

LEMMA HighestInRange == \A p \in Ports : Highest(p) \in 1..110
BY Numbers DEF Highest

\* A conversion gives a byte, and a data byte of every value a port may have.
LEMMA ConvertIsByte ==
  \A p \in Settings : \A c \in -1..110 : Convert(p, c) \in 0..255
BY Numbers DEF Convert, Quotient

LEMMA ConvertIsData ==
  \A p \in Settings : \A c \in 0..Highest(p) : Convert(p, c) \in 0..127
BY Numbers DEF Convert, Quotient, Highest

\* write_midi_signal adds one message for its port at most, with a data byte
\* unless the setting was never read.
LEMMA SignalFits ==
  ASSUME NEW p \in Ports, NEW c \in -1..Highest(p), p \notin Settings => c >= 0
  PROVE  /\ Signal(p, c) \in Seq(Message) /\ Len(Signal(p, c)) \in 0..1
         /\ \A i \in 1..Len(Signal(p, c)) :
              /\ Signal(p, c)[i].port = p
              /\ Signal(p, c)[i].byte > 127 => p \in Settings /\ c = -1
<1>0. c \in -1..110 /\ Highest(p) \in 1..110 BY HighestInRange
<1>1. CASE p \in Settings
  <2>1. Signal(p, c) = <<Control(p, c)>> BY <1>1 DEF Signal
  <2>2. Control(p, c) \in Message BY <1>0, <1>1, ConvertIsByte DEF Control, Message
  <2>3. Control(p, c).byte > 127 => c = -1
    BY <1>0, <1>1, ConvertIsData DEF Control
  <2> QED BY <1>1, <2>1, <2>2, <2>3 DEF Control
<1>2. CASE p \notin Settings /\ c = 0
  <2>1. Signal(p, c) = <<>> BY <1>2 DEF Signal
  <2> QED BY <2>1
<1>3. CASE p \notin Settings /\ c # 0
  <2> DEFINE m == [port |-> p, byte |-> IF p = PORT_CONTROL_RANDOM_DRAWBARS
                                          THEN 54 ELSE c - 1]
  <2>1. Signal(p, c) = <<m>> BY <1>3 DEF Signal
  <2>2. m.byte \in 0..127 BY <1>0, <1>3
  <2>3. m \in Message BY <2>2 DEF Message
  <2>4. m.port = p OBVIOUS
  <2> HIDE DEF m
  <2> QED BY <2>1, <2>2, <2>3, <2>4
<1> QED BY <1>1, <1>2, <1>3

-----------------------------------------------------------------------------

\* What IInv says of the data and of the ports of messages.
DataOnly(ms, last) ==
  \A i \in 1..Len(ms) :
    ms[i].byte > 127 => ms[i].port \in Settings /\ last[ms[i].port] = -1
PortsBelow(ms, n) == \A i \in 1..Len(ms) : ms[i].port < n

\* Adding the signal of a port keeps both.
LEMMA AppendSignal ==
  ASSUME NEW ms \in Seq(Message), NEW p \in Ports, NEW last,
         last[p] \in -1..Highest(p), p \notin Settings => last[p] >= 0
  PROVE  /\ ms \o Signal(p, last[p]) \in Seq(Message)
         /\ Len(ms \o Signal(p, last[p])) \in Len(ms)..(Len(ms) + 1)
         /\ DataOnly(ms, last) => DataOnly(ms \o Signal(p, last[p]), last)
         /\ \A n \in Int : PortsBelow(ms, n) /\ p < n =>
                            PortsBelow(ms \o Signal(p, last[p]), n)
<1> DEFINE t == Signal(p, last[p])
           all == ms \o t
<1>1. /\ t \in Seq(Message) /\ Len(t) \in 0..1
      /\ \A i \in 1..Len(t) : /\ t[i].port = p
                              /\ t[i].byte > 127 => p \in Settings /\ last[p] = -1
  BY SignalFits
<1> HIDE DEF t
<1>2. /\ all \in Seq(Message) /\ Len(all) = Len(ms) + Len(t)
      /\ \A i \in 1..Len(all) : all[i] = IF i <= Len(ms) THEN ms[i] ELSE t[i - Len(ms)]
  BY <1>1, ConcatProperties
<1>3. Len(ms) \in Nat BY LenProperties
<1>4. ASSUME NEW i \in 1..Len(all)
      PROVE  \/ i \in 1..Len(ms) /\ all[i] = ms[i]
             \/ /\ all[i].port = p
                /\ all[i].byte > 127 => p \in Settings /\ last[p] = -1
  <2>1. CASE i <= Len(ms) BY <1>2, <1>3, <2>1
  <2>2. CASE i > Len(ms)
    <3>1. i - Len(ms) \in 1..Len(t) BY <1>1, <1>2, <1>3, <2>2
    <3>2. all[i] = t[i - Len(ms)] BY <1>2, <1>3, <2>2
    <3> QED BY <1>1, <3>1, <3>2
  <2> QED BY <1>3, <2>1, <2>2
<1> HIDE DEF all
<1>5. DataOnly(ms, last) => DataOnly(all, last) BY <1>4 DEF DataOnly
<1>6. \A n \in Int : PortsBelow(ms, n) /\ p < n => PortsBelow(all, n)
  BY <1>4 DEF PortsBelow
<1> QED BY <1>1, <1>2, <1>3, <1>5, <1>6 DEF t, all

\* What MessagesAreCurrent says of them.
Converted(ms, last) ==
  \A i \in 1..Len(ms) :
    ms[i].port \in Settings => ms[i].byte = Convert(ms[i].port, last[ms[i].port])

\* The signal of a port has the value it is made of.
LEMMA AppendCurrent ==
  ASSUME NEW ms \in Seq(Message), NEW p \in Ports, NEW last,
         last[p] \in -1..Highest(p), p \notin Settings => last[p] >= 0,
         Converted(ms, last)
  PROVE  Converted(ms \o Signal(p, last[p]), last)
<1> DEFINE t == Signal(p, last[p])
           all == ms \o t
<1>1. t \in Seq(Message) /\ Len(t) \in 0..1 BY SignalFits
<1>2. \A i \in 1..Len(t) : /\ t[i].port = p
                           /\ p \in Settings => t[i].byte = Convert(p, last[p])
  <2>1. \A i \in 1..Len(t) : t[i].port = p BY SignalFits
  <2>2. ASSUME p \in Settings PROVE t = <<Control(p, last[p])>> BY <2>2 DEF Signal
  <2>3. ASSUME p \in Settings, NEW i \in 1..Len(t) PROVE t[i].byte = Convert(p, last[p])
    <3>1. t = <<Control(p, last[p])>> BY <2>2, <2>3
    <3>2. i = 1 BY <3>1, <2>3
    <3> HIDE DEF t
    <3> QED BY <3>1, <3>2 DEF Control
  <2> QED BY <2>1, <2>3
<1> HIDE DEF t
<1>3. /\ Len(all) = Len(ms) + Len(t)
      /\ \A i \in 1..Len(all) : all[i] = IF i <= Len(ms) THEN ms[i] ELSE t[i - Len(ms)]
  BY <1>1, ConcatProperties
<1>4. Len(ms) \in Nat BY LenProperties
<1> HIDE DEF all
<1>5. ASSUME NEW i \in 1..Len(all), all[i].port \in Settings
      PROVE  all[i].byte = Convert(all[i].port, last[all[i].port])
  <2>1. CASE i <= Len(ms)
    <3>1. i \in 1..Len(ms) /\ all[i] = ms[i] BY <1>3, <1>4, <2>1
    <3> QED BY <1>5, <3>1 DEF Converted
  <2>2. CASE i > Len(ms)
    <3>1. i - Len(ms) \in 1..Len(t) BY <1>1, <1>3, <1>4, <2>2
    <3>2. all[i] = t[i - Len(ms)] BY <1>3, <1>4, <2>2
    <3> QED BY <1>2, <1>5, <3>1, <3>2
  <2> QED BY <1>4, <2>1, <2>2
<1> QED BY <1>5 DEF Converted, all, t

LEMMA InitIInv == Init => IInv
<1> SUFFICES ASSUME Init PROVE IInv OBVIOUS
<1>1. /\ msgs = <<>> /\ at = 0 BY DEF Init
<1>2. port \in [Ports -> 0..110] /\ last_value \in [Ports -> -1..110] BY DEF Init
<1>3. \A p \in Ports : port[p] <= Highest(p) /\ last_value[p] <= Highest(p)
  <2> TAKE p \in Ports
  <2>1. Highest(p) \in 1..110 BY HighestInRange
  <2>2. port[p] = 0 /\ last_value[p] \in -1..0 BY DEF Init
  <2> QED BY <2>1, <2>2
<1>4. \A p \in Ports \ Settings : last_value[p] >= 0 BY DEF Init
<1>5. DOMAIN organ = {Address(p) : p \in Settings} BY DEF Init
<1>6. msgs \in Seq([port : Ports, byte : 0..255]) /\ Len(msgs) = 0 BY <1>1, EmptySeq
<1>7. TypeOK BY <1>1, <1>2, <1>3, <1>5, <1>6 DEF TypeOK
<1>8. DataBytes /\ MessagesAreCurrent BY <1>6 DEF DataBytes, MessagesAreCurrent
<1> QED BY <1>1, <1>4, <1>7, <1>8 DEF IInv

\* SendConfiguration: three presets, or all settings.
LEMMA SentConfiguration ==
  ASSUME IInv
  PROVE  /\ SelectedPresets \in Seq(Message) /\ Len(SelectedPresets) \in 0..3
         /\ AllSettings \in Seq(Message) /\ Len(AllSettings) = 38
         /\ DataOnly(SelectedPresets, last_value) /\ DataOnly(AllSettings, last_value)
         /\ Converted(SelectedPresets, last_value) /\ Converted(AllSettings, last_value)
         /\ PortsBelow(SelectedPresets, 6)
<1>1. last_value \in [Ports -> -1..110] BY DEF IInv, TypeOK
<1>2. \A p \in Ports : last_value[p] \in -1..Highest(p)
  <2> TAKE p \in Ports
  <2>1. Highest(p) \in 1..110 BY HighestInRange
  <2>2. last_value[p] \in -1..110 /\ last_value[p] <= Highest(p) BY <1>1 DEF IInv, TypeOK
  <2> QED BY <2>1, <2>2
<1>3. \A p \in Ports \ Settings : last_value[p] >= 0 BY DEF IInv
<1>4. {3, 4, 5} \subseteq Ports \ Settings BY Numbers
<1> DEFINE none == << >>
           s(p) == Signal(p, last_value[p])
           one == none \o s(3)
           two == one \o s(4)
           all == two \o s(5)
           Good(ms, n) == /\ ms \in Seq(Message) /\ Len(ms) \in 0..n
                          /\ DataOnly(ms, last_value) /\ Converted(ms, last_value)
                          /\ PortsBelow(ms, 6)
<1>5. \A p \in {3, 4, 5} : \A n \in 0..2 : \A ms :
        Good(ms, n) => Good(ms \o s(p), n + 1)
  <2> SUFFICES ASSUME NEW p \in {3, 4, 5}, NEW n \in 0..2, NEW ms, Good(ms, n)
               PROVE  Good(ms \o s(p), n + 1)
    OBVIOUS
  <2>1. p \in Ports /\ last_value[p] \in -1..Highest(p) /\ last_value[p] >= 0
    BY <1>2, <1>3, <1>4
  <2>2. Len(ms) \in 0..n /\ Len(ms \o s(p)) \in Len(ms)..(Len(ms) + 1)
    BY <2>1, AppendSignal
  <2>3. Len(ms \o s(p)) \in 0..(n + 1) BY <2>2
  <2>4. ms \o s(p) \in Seq(Message) /\ DataOnly(ms \o s(p), last_value)
    BY <2>1, AppendSignal
  <2>5. Converted(ms \o s(p), last_value) BY <2>1, AppendCurrent
  <2>6. PortsBelow(ms \o s(p), 6) BY <2>1, AppendSignal
  <2> QED BY <2>3, <2>4, <2>5, <2>6
<1>6. Good(none, 0) BY DEF DataOnly, Converted, PortsBelow
<1>7. Good(all, 3)
  <2> HIDE DEF Good, none, s
  <2>1. Good(one, 1) BY <1>5, <1>6
  <2>2. Good(two, 2) BY <1>5, <2>1
  <2> QED BY <1>5, <2>2
<1>8. SelectedPresets = all
  <2>1. s(3) \in Seq(Message) BY <1>2, <1>3, <1>4, SignalFits
  <2>2. one = s(3) BY <2>1, ConcatEmptySeq
  <2> QED BY <2>2, Numbers DEF SelectedPresets
<1> DEFINE sent == [i \in 1..38 |-> Control(i + 6, last_value[i + 6])]
<1>9. AllSettings = sent
  <2>1. AllSettings = [i \in 1..(45 - 7) |-> Control(7 + i - 1, last_value[7 + i - 1])]
    BY Numbers DEF AllSettings
  <2>2. \A i \in 1..38 : 7 + i - 1 = i + 6 OBVIOUS
  <2> QED BY <2>1, <2>2
<1>10. \A i \in 1..38 : /\ sent[i] \in Message
                        /\ sent[i].port = i + 6
                        /\ sent[i].byte > 127 => last_value[i + 6] = -1
  <2> TAKE i \in 1..38
  <2>1. i + 6 \in Settings /\ i + 6 \in Ports BY Numbers
  <2>2. last_value[i + 6] \in -1..Highest(i + 6) /\ last_value[i + 6] \in -1..110
    BY <1>1, <1>2, <2>1
  <2>3. Highest(i + 6) \in 1..110 BY <2>1, HighestInRange
  <2>4. Convert(i + 6, last_value[i + 6]) \in 0..255 BY <2>1, <2>2, ConvertIsByte
  <2>5. last_value[i + 6] # -1 => Convert(i + 6, last_value[i + 6]) \in 0..127
    BY <2>1, <2>2, <2>3, ConvertIsData
  <2>6. sent[i] = Control(i + 6, last_value[i + 6]) OBVIOUS
  <2> DEFINE b == Convert(i + 6, last_value[i + 6])
  <2>7. sent[i] = [port |-> i + 6, byte |-> b] BY <2>6 DEF Control
  <2>8. b > 127 => last_value[i + 6] = -1 BY <2>4, <2>5
  <2>9. b \in 0..255 BY <2>4
  <2> HIDE DEF b, sent
  <2> QED BY <2>1, <2>7, <2>8, <2>9 DEF Message
<1>11. sent \in Seq(Message) /\ Len(sent) = 38
  <2>1. \A i \in 1..38 : Control(i + 6, last_value[i + 6]) \in Message BY <1>10
  <2> QED BY <2>1
<1>12. DataOnly(sent, last_value)
  <2>1. \A i \in 1..38 : i + 6 \in Settings BY Numbers
  <2> HIDE DEF sent
  <2> SUFFICES ASSUME NEW i \in 1..38, sent[i].byte > 127
               PROVE  sent[i].port \in Settings /\ last_value[sent[i].port] = -1
    BY <1>11 DEF DataOnly
  <2>2. sent[i].port = i + 6 /\ last_value[i + 6] = -1 BY <1>10
  <2> QED BY <2>1, <2>2
<1>13. Converted(sent, last_value)
  <2> SUFFICES ASSUME NEW i \in 1..38
               PROVE  sent[i].byte = Convert(sent[i].port, last_value[sent[i].port])
    BY <1>11 DEF Converted
  <2>1. sent[i] = Control(i + 6, last_value[i + 6]) OBVIOUS
  <2> HIDE DEF sent
  <2> QED BY <2>1 DEF Control
<1> HIDE DEF all, sent
<1> QED BY <1>7, <1>8, <1>9, <1>11, <1>12, <1>13

\* ... and all settings are all settings.
LEMMA SettingsAllSent ==
  ASSUME IInv, NEW p \in Settings
  PROVE  \E i \in 1..Len(AllSettings) :
           /\ AllSettings[i] = Control(p, last_value[p])
           /\ AllSettings[i].port = p
<1>1. p - 6 \in 1..38 /\ 7 + (p - 6) - 1 = p BY PortNumbers
<1>2. Len(AllSettings) = 38 BY SentConfiguration
<1>3. AllSettings[p - 6] = Control(p, last_value[p])
  <2>1. AllSettings = [i \in 1..(45 - 7) |-> Control(7 + i - 1, last_value[7 + i - 1])]
    BY Numbers DEF AllSettings
  <2> QED BY <1>1, <2>1
<1>4. Control(p, last_value[p]).port = p BY DEF Control
<1> QED BY <1>1, <1>2, <1>3, <1>4

-----------------------------------------------------------------------------

\* A port that is read: the cache keeps its type, and the messages so far,
\* which are of ports before it, keep their values.
LEMMA ChangedKeeps ==
  ASSUME IInv, NEW p \in Ports, Changed(p)
  PROVE  /\ at \in Ports /\ p >= at
         /\ port[p] \in 0..Highest(p)
         /\ last_value' = [last_value EXCEPT ![p] = port[p]]
         /\ last_value' \in [Ports -> -1..110]
         /\ \A q \in Ports : last_value'[q] <= Highest(q)
         /\ \A q \in Ports \ Settings : last_value'[q] >= 0
         /\ DataOnly(msgs, last_value') /\ Converted(msgs, last_value')
<1>1. at \in Ports /\ p >= at /\ last_value' = [last_value EXCEPT ![p] = port[p]]
  BY DEF Changed
<1>2. port[p] \in 0..110 /\ port[p] <= Highest(p) /\ Highest(p) \in 1..110
  BY HighestInRange DEF IInv, TypeOK
<1>3. last_value \in [Ports -> -1..110] BY DEF IInv, TypeOK
<1>4. \A q \in Ports : last_value'[q] = IF q = p THEN port[p] ELSE last_value[q]
  BY <1>1, <1>3
<1>5. last_value' \in [Ports -> -1..110] BY <1>1, <1>2, <1>3
<1>6. \A q \in Ports : last_value'[q] <= Highest(q)
  BY <1>2, <1>4 DEF IInv, TypeOK
<1>7. \A q \in Ports \ Settings : last_value'[q] >= 0
  <2> TAKE q \in Ports \ Settings
  <2>1. last_value[q] >= 0 BY DEF IInv
  <2> QED BY <1>2, <1>4, <2>1
<1>8. ASSUME NEW i \in 1..Len(msgs), msgs[i].port \in Settings
      PROVE  last_value'[msgs[i].port] = last_value[msgs[i].port]
  <2>1. at # 0 BY <1>1, Numbers
  <2>2. msgs[i].port < at BY <2>1 DEF IInv
  <2>3. msgs[i].port \in 7..44 BY <1>8, PortNumbers
  <2>4. p \in 2..44 /\ at \in 2..44 /\ at <= p BY <1>1, PortNumbers
  <2>5. msgs[i].port \in 2..44 /\ msgs[i].port # p BY <2>2, <2>3, <2>4
  <2> QED BY <1>4, <2>5, PortNumbers
<1>9. DataOnly(msgs, last_value') BY <1>8 DEF DataOnly, IInv, DataBytes
<1>10. Converted(msgs, last_value') BY <1>8 DEF Converted, IInv, MessagesAreCurrent
<1> QED BY <1>1, <1>2, <1>5, <1>6, <1>7, <1>9, <1>10

\* IInv, conjunct by conjunct, for a step that reads a port.
LEMMA IInvAfter ==
  ASSUME IInv, NEW p \in Ports, Changed(p), UNCHANGED <<port, organ>>,
         msgs' \in Seq(Message), at' \in 2..45,
         Len(msgs') <= at' - 2, DataOnly(msgs', last_value'), PortsBelow(msgs', at'),
         Converted(msgs', last_value')
  PROVE  IInv'
<1>1. /\ last_value' \in [Ports -> -1..110]
      /\ \A q \in Ports : last_value'[q] <= Highest(q)
      /\ \A q \in Ports \ Settings : last_value'[q] >= 0
  BY ChangedKeeps
<1>2. TypeOK' BY <1>1, Numbers DEF IInv, TypeOK, Message
<1>3. DataBytes' /\ MessagesAreCurrent'
  BY DEF DataBytes, DataOnly, MessagesAreCurrent, Converted
<1>4. at' # 0 => /\ Len(msgs') <= at' - PORT_CONTROL_FIRST
                 /\ \A i \in 1..Len(msgs') : msgs'[i].port < at'
  BY Numbers DEF PortsBelow
<1> QED BY <1>1, <1>2, <1>3, <1>4 DEF IInv

LEMMA StepIInv == IInv /\ [Next]_vars => IInv'
<1> SUFFICES ASSUME IInv, [Next]_vars PROVE IInv' OBVIOUS
<1>1. /\ msgs \in Seq(Message) /\ Len(msgs) \in Nat
      /\ at \in {0} \cup 2..45
  BY Numbers, LenProperties DEF IInv, TypeOK, Message
<1>2. at # 0 => Len(msgs) <= at - 2 /\ PortsBelow(msgs, at)
  BY Numbers DEF IInv, PortsBelow
<1>3. ASSUME NEW p \in Turned, NEW v \in {0, Highest(p)}, Turn(p, v) PROVE IInv'
  <2>1. p \in Ports BY SetBFreeAssumption
  <2>2. v \in 0..110 /\ v <= Highest(p) BY <2>1, HighestInRange
  <2>3. /\ port' = [port EXCEPT ![p] = v]
        /\ UNCHANGED <<last_value, msgs, at, organ>>
    BY <1>3 DEF Turn
  <2>4. port' \in [Ports -> 0..110] BY <2>2, <2>3 DEF IInv, TypeOK
  <2>5. \A q \in Ports : port'[q] <= Highest(q) BY <2>1, <2>2, <2>3 DEF IInv, TypeOK
  <2>6. TypeOK' BY <2>3, <2>4, <2>5 DEF IInv, TypeOK
  <2> QED BY <2>3, <2>6 DEF IInv, DataBytes, MessagesAreCurrent
<1>4. CASE BeginRun
  <2>1. msgs' = <<>> /\ at' = 2 /\ UNCHANGED <<port, last_value, organ>>
    BY <1>4, Numbers DEF BeginRun
  <2>2. msgs' \in Seq([port : Ports, byte : 0..255]) /\ Len(msgs') = 0 BY <2>1, EmptySeq
  <2>3. at' \in {0} \cup (PORT_CONTROL_FIRST..PORT_ENUM_SIZE) BY <2>1, Numbers
  <2>4. TypeOK' BY <2>1, <2>2, <2>3 DEF IInv, TypeOK
  <2>5. DataBytes' /\ MessagesAreCurrent' BY <2>2 DEF DataBytes, MessagesAreCurrent
  <2>6. /\ Len(msgs') <= at' - PORT_CONTROL_FIRST
        /\ \A i \in 1..Len(msgs') : msgs'[i].port < at'
    BY <2>1, <2>2, Numbers
  <2> QED BY <2>1, <2>4, <2>5, <2>6 DEF IInv
<1>5. ASSUME NEW p \in Ports, PortChanges(p) PROVE IInv'
  <2>1. /\ Changed(p) /\ UNCHANGED <<port, organ>>
        /\ msgs' = msgs \o Signal(p, port[p]) /\ at' = p + 1
    BY <1>5 DEF PortChanges, Changed
  <2>2. /\ at \in Ports /\ p >= at /\ port[p] \in 0..Highest(p)
        /\ last_value' = [last_value EXCEPT ![p] = port[p]]
        /\ DataOnly(msgs, last_value') /\ Converted(msgs, last_value')
    BY <2>1, ChangedKeeps
  <2>3. last_value'[p] = port[p] BY <2>2 DEF IInv, TypeOK
  <2>4. PortsBelow(msgs, p + 1)
    <3>1. \A i \in 1..Len(msgs) : msgs[i] \in Message BY <1>1, ElementOfSeq
    <3>2. at # 0 /\ at <= p /\ p \in Int BY <2>2, PortNumbers
    <3>3. PortsBelow(msgs, at) BY <1>2, <3>2
    <3> SUFFICES ASSUME NEW i \in 1..Len(msgs) PROVE msgs[i].port < p + 1
      BY DEF PortsBelow
    <3> DEFINE q == msgs[i].port
    <3>4. q \in 2..44 BY <3>1, PortNumbers DEF Message
    <3>5. q < at /\ at \in Int BY <1>1, <3>3 DEF PortsBelow
    <3> HIDE DEF q
    <3>6. q < p + 1 BY <3>2, <3>4, <3>5
    <3> QED BY <3>6 DEF q
  <2>5. /\ msgs' \in Seq(Message) /\ Len(msgs') \in Len(msgs)..(Len(msgs) + 1)
        /\ DataOnly(msgs', last_value') /\ PortsBelow(msgs', p + 1)
        /\ Converted(msgs', last_value')
    <3>1. last_value'[p] \in -1..Highest(p) /\ last_value'[p] >= 0
      BY <2>2, <2>3, HighestInRange
    <3>2. p + 1 \in Int /\ p < p + 1 BY PortNumbers
    <3>3. msgs' = msgs \o Signal(p, last_value'[p]) BY <2>1, <2>3
    <3> DEFINE ms == msgs \o Signal(p, last_value'[p])
    <3>4. /\ ms \in Seq(Message) /\ Len(ms) \in Len(msgs)..(Len(msgs) + 1)
          /\ DataOnly(msgs, last_value') => DataOnly(ms, last_value')
          /\ \A n \in Int : PortsBelow(msgs, n) /\ p < n => PortsBelow(ms, n)
      BY <1>1, <3>1, AppendSignal
    <3>5. PortsBelow(ms, p + 1) BY <2>4, <3>2, <3>4
    <3>6. Converted(ms, last_value') BY <1>1, <2>2, <3>1, AppendCurrent
    <3> HIDE DEF ms
    <3>7. msgs' = ms BY <3>3 DEF ms
    <3> QED BY <2>2, <3>4, <3>5, <3>6, <3>7
  <2>6. Len(msgs') <= at' - 2 /\ at' \in 2..45
    <3> DEFINE n == Len(msgs)
               m == Len(msgs')
    <3>1. n \in Nat /\ m \in n..(n + 1) BY <1>1, <2>5
    <3>2. at \in 2..44 /\ p \in 2..44 /\ p >= at /\ at' = p + 1 BY <2>1, <2>2, PortNumbers
    <3>3. n <= at - 2 BY <1>2, <3>2
    <3> HIDE DEF n, m
    <3>4. m <= at' - 2 BY <3>1, <3>2, <3>3
    <3> QED BY <3>2, <3>4 DEF m
  <2> QED BY <2>1, <2>5, <2>6, IInvAfter
<1>6. CASE SendReset
  <2>1. /\ Changed(2) /\ UNCHANGED <<port, organ, msgs>> /\ at' = 3 /\ 2 \in Ports
    BY <1>6, PortNumbers DEF SendReset, Changed, PORT_CONTROL_SEND_CONFIGURATION
  <2>2. at = 2 /\ DataOnly(msgs, last_value') /\ Converted(msgs, last_value')
    BY <2>1, ChangedKeeps, PortNumbers
  <2>3. Len(msgs) <= 0 /\ PortsBelow(msgs, 3) BY <1>1, <1>2, <2>2 DEF PortsBelow
  <2> QED BY <1>1, <2>1, <2>2, <2>3, IInvAfter
<1>7. CASE SendConfiguration
  <2>1. /\ Changed(2) /\ UNCHANGED <<port, organ>> /\ at' = 45 /\ 2 \in Ports
        /\ msgs' \in {SelectedPresets, AllSettings}
    BY <1>7, PortNumbers DEF SendConfiguration, Changed, PORT_CONTROL_SEND_CONFIGURATION,
                           PORT_ENUM_SIZE
  <2>2. /\ msgs' \in Seq(Message) /\ Len(msgs') \in 0..38
        /\ DataOnly(msgs', last_value) /\ Converted(msgs', last_value)
    BY <2>1, SentConfiguration
  <2>3. DataOnly(msgs', last_value') /\ Converted(msgs', last_value')
    <3>1. last_value' = [last_value EXCEPT ![2] = port[2]] /\ 2 \notin Settings
      BY <2>1, ChangedKeeps, PortNumbers
    <3>2. \A p \in Settings : last_value'[p] = last_value[p]
      BY <3>1 DEF IInv, TypeOK
    <3> QED BY <2>2, <3>2 DEF DataOnly, Converted
  <2>4. PortsBelow(msgs', 45)
    <3>1. \A i \in 1..Len(msgs') : msgs'[i] \in Message BY <2>2, ElementOfSeq
    <3> SUFFICES ASSUME NEW i \in 1..Len(msgs') PROVE msgs'[i].port < 45
      BY DEF PortsBelow
    <3> DEFINE q == msgs'[i].port
    <3>2. q \in 2..44 BY <3>1, PortNumbers DEF Message
    <3> HIDE DEF q
    <3>3. q < 45 BY <3>2
    <3> QED BY <3>3 DEF q
  <2>5. Len(msgs') <= at' - 2 /\ at' \in 2..45
    <3> DEFINE n == Len(msgs')
    <3>1. n \in 0..38 /\ at' = 45 BY <2>1, <2>2
    <3> HIDE DEF n
    <3>2. n <= 45 - 2 BY <3>1
    <3> QED BY <3>1, <3>2 DEF n
  <2> QED BY <2>1, <2>2, <2>3, <2>4, <2>5, IInvAfter
<1>8. CASE EndRun
  <2>1. msgs' = <<>> /\ at' = 0 /\ UNCHANGED <<port, last_value>>
        /\ DOMAIN organ' = DOMAIN organ
    BY <1>8 DEF EndRun
  <2>2. TypeOK' BY <2>1, EmptySeq DEF IInv, TypeOK
  <2>3. Len(msgs') = 0 BY <2>1, EmptySeq
  <2> QED BY <2>1, <2>2, <2>3 DEF IInv, DataBytes, MessagesAreCurrent
<1>9. CASE UNCHANGED vars
  BY <1>9 DEF vars, IInv, TypeOK, DataBytes, MessagesAreCurrent
<1> QED BY <1>3, <1>4, <1>5, <1>6, <1>7, <1>8, <1>9 DEF Next, Run

-----------------------------------------------------------------------------

\* The invariant of run: one message for a port it has passed, and of those
\* only a setting that was never read with a byte that is no data byte.
THEOREM Inductive == Spec => []IInv
BY InitIInv, StepIInv, PTL DEF Spec

\* run never writes past msg_buffer, which has a place for every port.
THEOREM BufferIsLargeEnough == Spec => []MessagesFit
<1>1. ASSUME IInv PROVE MessagesFit
  <2>1. at \in {0} \cup 2..45 BY <1>1, Numbers DEF IInv, TypeOK
  <2>2. CASE at = 0
    <3>1. Len(msgs) = 0 BY <1>1, <2>2, EmptySeq DEF IInv
    <3> QED BY <3>1, Numbers DEF MessagesFit
  <2>3. CASE at # 0
    <3>1. Len(msgs) <= at - 2 /\ Len(msgs) \in Nat
      BY <1>1, <2>3, Numbers, LenProperties DEF IInv, TypeOK
    <3> QED BY <2>1, <2>3, <3>1, Numbers DEF MessagesFit
  <2> QED BY <2>2, <2>3
<1> QED BY <1>1, Inductive, PTL

\* Every data byte is below 128, but for the settings sent before the first
\* time they are read.
THEOREM DataBytesAreData == Spec => []DataBytes
<1>1. IInv => DataBytes BY DEF IInv
<1> QED BY <1>1, Inductive, PTL

-----------------------------------------------------------------------------

\* No two settings have the same channel and controller, although drawbars of
\* the manuals share controllers and the panel has them in no order.
LEMMA AddressesDiffer ==
  \A p, q \in Settings : Address(p) = Address(q) => p = q
<1> SUFFICES ASSUME NEW p \in 7..44, NEW q \in 7..44, Address(p) = Address(q)
             PROVE  p = q
  BY PortNumbers
<1>1. \A r \in 7..17 : Address(r) = <<0, Panel[r]>>
  BY DEF Address, PORT_CONTROL_DRAWBAR_UPPER
<1>2. \A r \in 18..44 : Address(r) = <<(r - 18) \div 9, 70 + ((r - 18) % 9)>>
  BY DEF Address, Drawbar, PORT_CONTROL_DRAWBAR_UPPER
<1>3. /\ Panel[7] = 93 /\ Panel[8] = 91 /\ Panel[9] = 7 /\ Panel[10] = 80
      /\ Panel[11] = 81 /\ Panel[12] = 82 /\ Panel[13] = 83 /\ Panel[14] = 30
      /\ Panel[15] = 31 /\ Panel[16] = 92 /\ Panel[17] = 1
  BY DEF Panel
<1>4. CASE p \in 7..17 /\ q \in 7..17
  <2>1. Panel[p] = Panel[q] BY <1>1, <1>4
  <2> QED BY <1>3, <1>4, <2>1
<1>5. CASE p \in 18..44 /\ q \in 18..44
  <2>1. /\ (p - 18) \div 9 = (q - 18) \div 9
        /\ 70 + ((p - 18) % 9) = 70 + ((q - 18) % 9)
    BY <1>2, <1>5
  <2> QED BY <1>5, <2>1
<1>6. ASSUME NEW r \in 7..17, NEW s \in 18..44, Address(r) = Address(s) PROVE FALSE
  <2>1. <<0, Panel[r]>> = <<(s - 18) \div 9, 70 + ((s - 18) % 9)>>
    <3>1. Address(r) = <<0, Panel[r]>> BY <1>1
    <3>2. Address(s) = <<(s - 18) \div 9, 70 + ((s - 18) % 9)>> BY <1>2
    <3> QED BY <1>6, <3>1, <3>2
  <2>2. Panel[r] \in 70..78
    <3>1. Panel[r] = 70 + ((s - 18) % 9) BY <2>1
    <3>2. (s - 18) % 9 \in 0..8 OBVIOUS
    <3> QED BY <3>1, <3>2
  <2> QED BY <1>3, <2>2
<1> QED BY <1>4, <1>5, <1>6

\* Of finitely many places one is the last.
LEMMA LastPlace ==
  ASSUME NEW n \in Nat, NEW S \in SUBSET (1..n), S # {}
  PROVE  \E i \in S : \A j \in S : j <= i
<1> DEFINE T == {n - i : i \in S}
<1>1. T \subseteq Nat /\ T # {}
  <2>1. \A i \in S : n - i \in Nat OBVIOUS
  <2>2. PICK i \in S : TRUE OBVIOUS
  <2>3. n - i \in T OBVIOUS
  <2> QED BY <2>1, <2>3
<1>2. PICK x \in T : \A y \in T : ~(<<y, x>> \in OpToRel(<, Nat))
  <2> HIDE DEF T
  <2> QED BY <1>1, NatLessThanWellFounded, WFMin
<1>3. \A y \in T : ~(y < x)
  BY <1>1, <1>2 DEF OpToRel
<1>4. PICK i \in S : x = n - i BY <1>2
<1>5. ASSUME NEW j \in S PROVE j <= i
  <2>1. n - j \in T BY <1>5
  <2>2. ~(n - j < n - i) BY <1>3, <1>4, <2>1
  <2> QED BY <2>2
<1> QED BY <1>5

-----------------------------------------------------------------------------

\* An output with room for a message of every port, which is what msg_buffer
\* has places for; what a smaller one drops is dropped for good, since
\* last_value says that it was sent.
RoomForAll == PORT_ENUM_SIZE - PORT_CONTROL_FIRST <= Capacity

\* Then the organ hears all messages of a run.
LEMMA AllSent ==
  ASSUME IInv, RoomForAll
  PROVE  Sent = Len(msgs) /\ msgs \in Seq(Message) /\ Len(msgs) \in Nat
<1> DEFINE n == Len(msgs)
<1>1. msgs \in Seq(Message) /\ n \in Nat BY LenProperties DEF IInv, TypeOK, Message
<1>2. n <= 43
  <2>1. at \in {0} \cup 2..45 BY Numbers DEF IInv, TypeOK
  <2>2. CASE at = 0
    <3>1. n = 0 BY <2>2, EmptySeq DEF IInv
    <3> QED BY <3>1
  <2>3. CASE at # 0
    <3>1. n <= at - 2 BY <2>3, Numbers DEF IInv
    <3> HIDE DEF n
    <3> QED BY <1>1, <2>1, <2>3, <3>1
  <2> QED BY <2>2, <2>3
<1>3. Capacity \in Nat /\ 43 <= Capacity BY SetBFreeAssumption, Numbers DEF RoomForAll
<1> HIDE DEF n
<1>4. n <= Capacity BY <1>1, <1>2, <1>3
<1> QED BY <1>1, <1>4 DEF Sent, n

\* What a run leaves in the organ for a setting.
LEMMA RunLeaves ==
  ASSUME IInv, RoomForAll, OnItsWay, NEW p \in Settings, last_value[p] # -1
  PROVE  Played(Address(p)) \in {Convert(p, last_value[p]), ByPreset}
<1> DEFINE a == Address(p)
           heard == {i \in 1..Sent : Affects(msgs[i], a)}
           last == CHOOSE i \in heard : \A j \in heard : j <= i
<1>1. Sent = Len(msgs) /\ msgs \in Seq(Message) /\ Len(msgs) \in Nat BY AllSent
<1>2. CASE heard = {}
  <2>1. Played(a) = organ[a] BY <1>2 DEF Played
  <2>2. \A i \in 1..Len(msgs) : ~Affects(msgs[i], a) BY <1>1, <1>2
  <2> QED BY <2>1, <2>2 DEF OnItsWay
<1>3. CASE heard # {}
  <2>1. last \in heard
    <3>1. \E i \in heard : \A j \in heard : j <= i
      <4>1. heard \in SUBSET (1..Len(msgs)) BY <1>1
      <4> HIDE DEF heard
      <4> QED BY <1>1, <1>3, <4>1, LastPlace
    <3> HIDE DEF heard
    <3> QED BY <3>1
  <2> DEFINE m == msgs[last]
  <2>2. Played(a) = IF m.port \in Settings THEN m.byte ELSE ByPreset
    BY <1>3 DEF Played
  <2>3. last \in 1..Len(msgs) /\ Affects(m, a) BY <1>1, <2>1
  <2> HIDE DEF last
  <2>4. CASE m.port \in Settings
    <3>1. m.port = p BY <2>3, <2>4, AddressesDiffer DEF Affects
    <3>2. m.byte = Convert(p, last_value[p])
      BY <2>3, <2>4, <3>1 DEF IInv, MessagesAreCurrent
    <3> QED BY <2>2, <2>4, <3>2
  <2>5. CASE m.port \notin Settings BY <2>2, <2>5
  <2> QED BY <2>4, <2>5
<1> QED BY <1>2, <1>3

\* Behind one sequence comes the first element of the other.
LEMMA FirstBehind ==
  ASSUME NEW S, NEW s \in Seq(S), NEW u \in Seq(S), Len(u) = 1
  PROVE  (s \o u)[Len(s) + 1] = u[1]
<1>1. PICK n \in Nat : n = Len(s) BY LenProperties
<1>2. PICK c : c = s \o u OBVIOUS
<1>3. \A i \in 1..(n + 1) : c[i] = IF i <= n THEN s[i] ELSE u[i - n]
  BY <1>1, <1>2, ConcatProperties
<1>4. n + 1 \in 1..(n + 1) /\ n + 1 - n = 1 /\ ~(n + 1 <= n) OBVIOUS
<1>5. c[n + 1] = u[1] BY <1>3, <1>4
<1> QED BY <1>1, <1>2, <1>5

LEMMA StepOnItsWay ==
  ASSUME IInv, RoomForAll, OnItsWay, [Next]_vars
  PROVE  OnItsWay'
<1>0. msgs \in Seq(Message) /\ Len(msgs) \in Nat BY AllSent
<1>1. CASE UNCHANGED <<last_value, msgs, organ>>
  BY <1>1 DEF OnItsWay
<1>2. CASE BeginRun
  BY <1>1, <1>2 DEF BeginRun, IInv
<1>3. ASSUME NEW p \in Ports, PortChanges(p) PROVE OnItsWay'
  <2>1. /\ Changed(p) /\ UNCHANGED organ /\ msgs' = msgs \o Signal(p, port[p])
    BY <1>3 DEF PortChanges, Changed
  <2>2. /\ port[p] \in 0..Highest(p) /\ Highest(p) \in 1..110
        /\ last_value' = [last_value EXCEPT ![p] = port[p]]
    BY <2>1, ChangedKeeps, HighestInRange
  <2>3. \A q \in Ports : q # p => last_value'[q] = last_value[q]
    BY <2>2 DEF IInv, TypeOK
  <2> DEFINE t == Signal(p, port[p])
  <2>4. t \in Seq(Message) /\ Len(t) \in 0..1 /\ \A i \in 1..Len(t) : t[i].port = p
    BY <2>2, SignalFits
  <2>5. p \in Settings => Len(t) = 1
    <3> SUFFICES ASSUME p \in Settings PROVE Len(t) = 1 OBVIOUS
    <3>1. t = <<Control(p, port[p])>> BY DEF Signal
    <3> HIDE DEF t
    <3> QED BY <3>1
  <2> HIDE DEF t
  <2>6. /\ Len(msgs') = Len(msgs) + Len(t)
        /\ \A i \in 1..Len(msgs) : msgs'[i] = msgs[i]
        /\ p \in Settings => msgs'[Len(msgs) + 1].port = p
    <3>1. /\ Len(msgs \o t) = Len(msgs) + Len(t)
          /\ \A i \in 1..(Len(msgs) + Len(t)) :
               (msgs \o t)[i] = IF i <= Len(msgs) THEN msgs[i] ELSE t[i - Len(msgs)]
      BY <1>0, <2>4, ConcatProperties
    <3>2. msgs' = msgs \o t BY <2>1 DEF t
    <3>3. \A i \in 1..Len(msgs) : msgs'[i] = msgs[i] BY <1>0, <2>4, <3>1, <3>2
    <3>4. ASSUME p \in Settings PROVE msgs'[Len(msgs) + 1].port = p
      <4>1. (msgs \o t)[Len(msgs) + 1] = t[1] BY <1>0, <2>4, <2>5, <3>4, FirstBehind
      <4>2. msgs'[Len(msgs) + 1] = t[1] BY <3>2, <4>1
      <4>3. t[1].port = p BY <2>4, <2>5, <3>4
      <4> QED BY <4>2, <4>3
    <3> QED BY <3>1, <3>2, <3>3, <3>4
  <2>7. ASSUME NEW q \in Settings, last_value'[q] # -1
        PROVE  \/ \E i \in 1..Len(msgs') : Affects(msgs'[i], Address(q))
               \/ organ'[Address(q)] \in {Convert(q, last_value'[q]), ByPreset}
    <3>1. CASE q = p
      <4>1. Len(msgs) + 1 \in 1..Len(msgs') BY <1>0, <2>5, <2>6, <2>7, <3>1
      <4> QED BY <2>6, <2>7, <3>1, <4>1 DEF Affects
    <3>2. CASE q # p
      <4>1. last_value'[q] = last_value[q] BY <2>3, <3>2, PortNumbers
      <4>2. \A i \in 1..Len(msgs) : i \in 1..Len(msgs') BY <1>0, <2>4, <2>6
      <4> QED BY <2>1, <2>6, <2>7, <4>1, <4>2 DEF OnItsWay
    <3> QED BY <3>1, <3>2
  <2> QED BY <2>7 DEF OnItsWay
<1>4. ASSUME Changed(2) PROVE \A q \in Settings : last_value'[q] = last_value[q]
  <2>1. last_value' = [last_value EXCEPT ![2] = port[2]] BY <1>4 DEF Changed
  <2>2. \A q \in Settings : q \in Ports /\ q # 2 BY PortNumbers
  <2> QED BY <2>1, <2>2 DEF IInv, TypeOK
<1>5. CASE SendReset
  <2>1. Changed(2) /\ UNCHANGED <<msgs, organ>>
    BY <1>5, Numbers DEF SendReset, Changed
  <2> QED BY <1>4, <2>1 DEF OnItsWay
<1>6. CASE SendConfiguration
  <2>1. Changed(2) BY <1>6, Numbers DEF SendConfiguration
  <2>2. CASE SelectedPresets # <<>>
    <3>1. msgs' = SelectedPresets BY <1>6, <2>2 DEF SendConfiguration
    <3>2. SelectedPresets \in Seq(Message) /\ PortsBelow(SelectedPresets, 6)
      BY SentConfiguration
    <3>3. Len(SelectedPresets) \in Nat \ {0} BY <2>2, <3>2, EmptySeq
    <3>4. 1 \in 1..Len(msgs') BY <3>1, <3>3
    <3>5. msgs'[1] \in Message /\ msgs'[1].port < 6
      BY <3>1, <3>2, <3>4, ElementOfSeq DEF PortsBelow
    <3> DEFINE q == msgs'[1].port
    <3>6. q \in 2..44 /\ q < 6 BY <3>5, PortNumbers DEF Message
    <3> HIDE DEF q
    <3>7. q \notin Settings BY <3>6, PortNumbers
    <3> QED BY <3>4, <3>7 DEF OnItsWay, Affects, q
  <2>3. CASE SelectedPresets = <<>>
    <3>1. msgs' = AllSettings BY <1>6, <2>3 DEF SendConfiguration
    <3> QED BY <3>1, SettingsAllSent DEF OnItsWay, Affects
  <2> QED BY <2>2, <2>3
<1>7. CASE EndRun
  <2>1. organ' = [a \in DOMAIN organ |-> Played(a)] /\ UNCHANGED last_value
    BY <1>7 DEF EndRun
  <2>2. \A q \in Settings : Address(q) \in DOMAIN organ BY DEF IInv, TypeOK
  <2>3. \A q \in Settings : organ'[Address(q)] = Played(Address(q)) BY <2>1, <2>2
  <2> QED BY <2>1, <2>3, RunLeaves DEF OnItsWay
<1>8. CASE UNCHANGED vars \/ \E p \in Turned : \E v \in {0, Highest(p)} : Turn(p, v)
  BY <1>1, <1>8 DEF Turn, vars
<1> QED BY <1>2, <1>3, <1>5, <1>6, <1>7, <1>8 DEF Next, Run

\* The plugin's cache and the organ: between two runs the organ has each
\* setting as it was last read, or a preset chosen after it.
THEOREM OrganInSync ==
  ASSUME RoomForAll
  PROVE  Spec => []InSync
<1>1. Init => OnItsWay
  <2> SUFFICES ASSUME Init PROVE OnItsWay OBVIOUS
  <2>1. \A p \in Settings : last_value[p] = -1 BY PortNumbers DEF Init
  <2> QED BY <2>1 DEF OnItsWay
<1>2. IInv /\ OnItsWay /\ [Next]_vars => OnItsWay' BY StepOnItsWay
<1>3. IInv /\ OnItsWay => InSync
  <2> SUFFICES ASSUME IInv, OnItsWay, at = 0 PROVE InSync BY DEF InSync
  <2>1. Len(msgs) = 0 BY EmptySeq DEF IInv
  <2> QED BY <2>1 DEF OnItsWay, InSync
<1> QED BY <1>1, <1>2, <1>3, Inductive, PTL DEF Spec

\* A run that is asked for the configuration, with no preset selected, has a
\* message for every setting, with the value that was last read.
THEOREM ConfigurationIsSent == Spec => ConfigurationIsWhole
<1>1. ASSUME IInv, SendConfiguration, SelectedPresets = <<>>
      PROVE  \A p \in Settings : \E i \in 1..Len(msgs') :
               msgs'[i] = Control(p, last_value'[p])
  <2>1. msgs' = AllSettings BY <1>1 DEF SendConfiguration
  <2>2. last_value' = [last_value EXCEPT ![2] = port[2]]
    BY <1>1, Numbers DEF SendConfiguration, Changed
  <2>3. \A p \in Settings : p \in Ports /\ p # 2 BY PortNumbers
  <2>4. \A p \in Settings : last_value'[p] = last_value[p]
    BY <1>1, <2>2, <2>3 DEF IInv, TypeOK
  <2> QED BY <1>1, <2>1, <2>4, SettingsAllSent
<1>2. IInv => [SendConfiguration /\ SelectedPresets = <<>> =>
                 \A p \in Settings : \E i \in 1..Len(msgs') :
                   msgs'[i] = Control(p, last_value'[p])]_vars
  BY <1>1
<1> QED BY <1>2, Inductive, PTL DEF ConfigurationIsWhole
=============================================================================
