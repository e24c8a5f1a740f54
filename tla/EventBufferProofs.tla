-------------------------- MODULE EventBufferProofs --------------------------
(***************************************************************************)
(* Proofs about EventBuffer, for any capacities, sizes, times and numbers  *)
(* of events.                                                              *)
(***************************************************************************)
EXTENDS EventBuffer, SequenceTheorems, TLAPS

\* What lv2_atom_pad_size gives.
LEMMA Padding ==
  ASSUME NEW n \in Nat
  PROVE  Pad(n) \in Nat /\ Pad(n) % 8 = 0 /\ n <= Pad(n) /\ Pad(n) <= n + 7
  BY DEF Pad

\* The free bytes of an exact capacity are a multiple of eight, so that what fits
\* fits padded.
LEMMA PaddedFits ==
  ASSUME capacity \in Nat, Exact, NEW s \in Nat, NEW n \in Nat, s % 8 = 0,
         s + AtomHeader <= capacity, capacity - AtomHeader - s >= EventHeader + n
  PROVE  s + Pad(EventHeader + n) + AtomHeader <= capacity
<1> DEFINE m == EventHeader + n
<1>1. m \in Nat
  BY DEF EventHeader
<1>2. Pad(m) \in Nat /\ Pad(m) % 8 = 0 /\ Pad(m) <= m + 7
  BY <1>1, Padding
<1> HIDE DEF m
<1> DEFINE p == Pad(m)
<1>3. p \in Nat /\ p % 8 = 0 /\ p <= m + 7
  BY <1>2
<1> HIDE DEF p
<1>4. capacity \in Nat /\ capacity % 8 = 0
  BY DEF Exact
<1>5. m <= capacity - 8 - s /\ s + 8 <= capacity
  BY DEF m, AtomHeader
<1>6. s + p + 8 <= capacity
  BY <1>1, <1>3, <1>4, <1>5
<1> QED
  BY <1>6 DEF m, p, AtomHeader

LEMMA Capacity ==
  ASSUME capacity \in Capacities
  PROVE  capacity \in Nat
  BY EventBufferAssumption

\* The offsets up to the padded end of the memory.
LEMMA OffsetIn ==
  ASSUME capacity \in Capacities, NEW o \in Nat, o % 8 = 0,
         o <= capacity + EventHeader + 7
  PROVE  o \in Offsets
<1>1. capacity \in Nat
  BY Capacity
<1>2. o \in 0..(capacity + EventHeader + 7)
  BY <1>1 DEF EventHeader
<1> QED
  BY <1>2 DEF Offsets

LEMMA OffsetNat ==
  ASSUME NEW o \in Offsets
  PROVE  o \in Nat /\ o % 8 = 0
<1>1. PICK c \in Capacities : o \in 0..(c + EventHeader + 7)
  BY DEF Offsets
<1>2. c \in Nat
  BY EventBufferAssumption
<1> QED
  BY <1>1, <1>2 DEF Offsets, EventHeader

LEMMA EventSize ==
  ASSUME NEW e \in Event
  PROVE  e.size \in Nat /\ EventHeader + e.size \in Nat /\ EventHeader + e.size >= 16
<1>1. e.size \in Sizes \cup {0}
  BY DEF Event
<1>2. \A s \in Sizes \cup {0} : s \in Nat
  BY EventBufferAssumption
<1>3. e.size \in Nat
  BY <1>1, <1>2, Zenon
<1> QED
  BY <1>3 DEF EventHeader

LEMMA PaddedEvent ==
  ASSUME NEW e \in Event
  PROVE  Pad(EventHeader + e.size) \in Nat /\ Pad(EventHeader + e.size) >= 16
<1> DEFINE b == EventHeader + e.size
<1>1. b \in Nat /\ b >= 16
  BY EventSize
<1> HIDE DEF b
<1>2. Pad(b) \in Nat /\ b <= Pad(b)
  BY <1>1, Padding
<1>3. Pad(b) >= 16
  BY <1>1, <1>2
<1> QED
  BY <1>2, <1>3 DEF b

\* What a write within the memory leaves behind: the events that were there, the
\* new one after them, and a sequence that ends where the next event begins.
LEMMA AcceptKeeps ==
  ASSUME TypeOK, InBounds, Layout, type = "Sequence", NEW e \in Event,
         Inside(size - AtomHeader, e.size), capacity' = capacity,
         Accept(size - AtomHeader, e)
  PROVE  /\ mem' \in [Offsets -> Event] /\ size' \in Nat
         /\ size' % 8 = 0 /\ size' >= AtomHeader
         /\ given' \in Seq(Event) /\ starts' \in Seq(Offsets)
         /\ Layout'
         /\ size' - AtomHeader \in Offsets
<1> DEFINE o == size - AtomHeader
           p == Pad(EventHeader + e.size)
           n == Len(given)
<1>1. size \in Nat /\ size % 8 = 0 /\ size >= 8
  BY DEF TypeOK, InBounds, AtomHeader
<1>2. e.size \in Nat /\ EventHeader + e.size \in Nat /\ EventHeader + e.size >= 16
  BY EventSize
<1>3. p \in Nat /\ p >= 16 /\ p % 8 = 0 /\ p <= EventHeader + e.size + 7
  BY <1>2, PaddedEvent, Padding
<1>4. capacity \in Nat /\ capacity \in Capacities
  BY Capacity DEF TypeOK
<1>5. /\ mem' = [q \in Offsets |->
                  IF q = o THEN e
                  ELSE IF q > o /\ q < o + EventHeader + e.size THEN Garbage ELSE mem[q]]
      /\ size' = size + p /\ type' = type
      /\ given' = Append(given, e) /\ starts' = Append(starts, o)
  BY DEF Accept, Store
<1>6. o \in Nat /\ o + 8 = size /\ o % 8 = 0
  BY <1>1 DEF AtomHeader
<1>61. Inside(o, e.size)
  OBVIOUS
<1> DEFINE m == EventHeader + e.size
<1>63. o + m <= capacity + 16
  BY <1>2, <1>4, <1>6, <1>61 DEF Inside, Memory, EventHeader
<1>62. m \in Nat /\ p <= m + 7 /\ o + m <= capacity + 16
  BY <1>2, <1>3, <1>63
<1> HIDE DEF o, m, p, n
<1>7. o \in Offsets
  <2>1. o <= capacity + EventHeader + 7
    BY <1>4, <1>6, <1>62 DEF EventHeader
  <2> QED
    BY <1>4, <1>6, <2>1, OffsetIn
<1>8. given \in Seq(Event) /\ starts \in Seq(Offsets) /\ Len(starts) = n /\ n \in Nat
  BY LenProperties DEF TypeOK, Layout, n
<1>9. /\ given' \in Seq(Event) /\ Len(given') = n + 1 /\ given'[n + 1] = e
      /\ \A k \in 1..n : given'[k] = given[k]
  BY <1>5, <1>8, AppendProperties DEF n
<1>10. /\ starts' \in Seq(Offsets) /\ Len(starts') = n + 1 /\ starts'[n + 1] = o
       /\ \A k \in 1..n : starts'[k] = starts[k]
  BY <1>5, <1>7, <1>8, AppendProperties
<1>11. Garbage \in Event
  BY EventBufferAssumption DEF Garbage, Event
<1>12. mem' \in [Offsets -> Event]
  BY <1>5, <1>11 DEF TypeOK
<1>13. size' \in Nat /\ size' % 8 = 0 /\ size' >= AtomHeader
  <2>1. p \in Nat /\ p % 8 = 0 /\ size' = size + p
    BY <1>3, <1>5
  <2> QED
    BY <1>1, <2>1 DEF AtomHeader
<1>14. size' - AtomHeader \in Offsets /\ size' - AtomHeader = o + p
  <2>1. size' - AtomHeader = o + p
    BY <1>1, <1>3, <1>5, <1>6 DEF AtomHeader
  <2>2. o + p \in Nat /\ o + p <= capacity + EventHeader + 7
    BY <1>3, <1>4, <1>6, <1>62 DEF EventHeader
  <2>3. (o + p) % 8 = 0
    BY <1>3, <1>6
  <2>4. o + p \in Offsets
    BY <1>4, <2>2, <2>3, OffsetIn
  <2> QED
    BY <2>1, <2>4
<1>15. ASSUME NEW k \in 1..n PROVE Laid(k)'
  <2>1. Laid(k)
    BY DEF Layout, n
  <2>2. starts[k] \in Offsets /\ given[k] \in Event
    BY <1>8, ElementOfSeq DEF n
  <2> DEFINE q == Pad(EventHeader + given[k].size)
  <2>3. q \in Nat /\ q >= 16
    BY <2>2, PaddedEvent
  <2>4. mem[starts[k]] = given[k]
    BY <2>1 DEF Laid
  <2>5. starts[k] + q = (IF k = n THEN o ELSE starts[k + 1]) /\ starts[k] + q <= o
    BY <2>1 DEF Laid, n, o
  <2> HIDE DEF q
  <2>6. starts[k] \in Nat /\ starts[k] < o
    BY <2>2, <2>3, <2>5, <1>6, OffsetNat
  <2>7. mem'[starts[k]] = mem[starts[k]]
    BY <1>5, <1>6, <2>2, <2>6
  <2>8. given'[k] = given[k] /\ starts'[k] = starts[k]
    BY <1>9, <1>10
  <2>9. IF k = n + 1 THEN FALSE ELSE starts'[k + 1] = starts[k] + q
    <3>1. CASE k = n
      BY <3>1, <1>8, <1>10, <2>5
    <3>2. CASE k # n
      <4>1. k + 1 \in 1..n /\ k # n + 1
        BY <3>2, <1>8
      <4> QED
        BY <4>1, <3>2, <1>10, <2>5
    <3> QED
      BY <3>1, <3>2
  <2>10. starts[k] + q <= size' - AtomHeader
    BY <1>3, <1>6, <1>14, <2>3, <2>5, <2>6
  <2>11. Inside(starts[k], given[k].size)'
    BY <2>1, <2>8 DEF Laid, Inside, Memory
  <2> QED
    BY <1>9, <2>4, <2>7, <2>8, <2>9, <2>10, <2>11 DEF Laid, q
<1>16. ASSUME NEW k, k = n + 1 PROVE Laid(k)'
  <2>1. mem'[o] = e
    BY <1>5, <1>7
  <2>2. o + p <= size' - AtomHeader
    BY <1>3, <1>6, <1>14
  <2>3. Inside(starts[k], given[k].size)'
    BY <1>9, <1>10, <1>16, <1>61 DEF Inside, Memory
  <2> QED
    BY <1>9, <1>10, <1>14, <1>16, <2>1, <2>2, <2>3 DEF Laid, p
<1>17. starts'[1] = 0
  <2>1. CASE n = 0
    <3>1. given = <<>>
      BY <2>1, <1>8, EmptySeq DEF n
    <3>2. size = AtomHeader
      BY <3>1 DEF Layout
    <3> QED
      BY <2>1, <3>2, <1>10 DEF o, AtomHeader
  <2>2. CASE n # 0
    <3>1. given # <<>> /\ 1 \in 1..n
      BY <2>2, <1>8, EmptySeq DEF n
    <3> QED
      BY <3>1, <1>10 DEF Layout
  <2> QED
    BY <2>1, <2>2
<1>18. ASSUME NEW k \in 1..(n + 1) PROVE Laid(k)'
  <2>1. k \in 1..n \/ k = n + 1
    BY <1>8
  <2> QED
    BY <2>1, <1>15, <1>16
<1>19. Layout'
  <2>1. Len(starts') = Len(given') /\ given' # <<>>
    BY <1>8, <1>9, <1>10, EmptySeq
  <2> QED
    BY <1>5, <1>9, <1>17, <1>18, <2>1 DEF Layout
<1> QED
  BY <1>9, <1>10, <1>12, <1>13, <1>14, <1>19

\* A later event after events in order.
LEMMA AppendAscends ==
  ASSUME given \in Seq(Event), Ascending, NEW e \in Event,
         \A k \in 1..Len(given) : given[k].time <= e.time,
         given' = Append(given, e)
  PROVE  Ascending' /\ \A k \in 1..Len(given') : given'[k].time <= e.time
<1> DEFINE n == Len(given)
<1>1. /\ n \in Nat /\ Len(given') = n + 1 /\ given'[n + 1] = e
      /\ \A k \in 1..n : given'[k] = given[k]
  BY AppendProperties, LenProperties
<1>2. e.time \in Nat
  BY EventBufferAssumption DEF Event
<1>3. ASSUME NEW k \in 1..Len(given') PROVE given'[k].time <= e.time
  <2>1. CASE k \in 1..n
    BY <1>1, <2>1
  <2>2. CASE k = n + 1
    BY <1>1, <1>2, <2>2
  <2> QED
    BY <1>1, <2>1, <2>2
<1>4. ASSUME NEW i \in 1..Len(given'), NEW j \in 1..Len(given'), i <= j
      PROVE  given'[i].time <= given'[j].time
  <2>1. CASE j \in 1..n
    BY <1>1, <1>4, <2>1 DEF Ascending
  <2>2. CASE j = n + 1
    BY <1>1, <1>3, <2>2
  <2> QED
    BY <1>1, <2>1, <2>2
<1> QED
  BY <1>3, <1>4 DEF Ascending

\* Nothing of the buffer moves but the place the audio thread is at.
LEMMA Stays ==
  ASSUME UNCHANGED <<port, size, type, mem, given, starts>>
  PROVE  /\ InBounds /\ (phase' = "overrun" => phase = "overrun") => InBounds'
         /\ Layout => Layout'
         /\ Ascending => Ascending'
  BY DEF InBounds, Exact, Layout, Laid, Inside, Memory, Ascending, Pad, port

\* The end of a sequence is an offset: of none, or behind the last event.
LEMMA SizeOffset ==
  ASSUME TypeOK, InBounds, Layout, type = "Sequence"
  PROVE  size - AtomHeader \in Offsets
<1> DEFINE n == Len(given)
           o == size - AtomHeader
<1>1. /\ given \in Seq(Event) /\ starts \in Seq(Offsets) /\ Len(starts) = n /\ n \in Nat
      /\ capacity \in Nat /\ capacity \in Capacities
  BY Capacity, LenProperties DEF TypeOK, Layout
<1>2. o \in Nat /\ o % 8 = 0
  BY DEF TypeOK, InBounds, AtomHeader
<1> HIDE DEF o
<1>3. CASE given = <<>>
  <2>1. o = 0
    BY <1>3 DEF Layout, o, AtomHeader
  <2> QED
    BY <1>1, <1>2, <2>1, OffsetIn DEF o, EventHeader
<1>4. CASE given # <<>>
  <2>1. n \in 1..n /\ Laid(n)
    BY <1>1, <1>4, EmptySeq DEF Layout
  <2>2. starts[n] \in Offsets /\ given[n] \in Event
    BY <1>1, <2>1, ElementOfSeq
  <2> DEFINE a == starts[n]
             m == EventHeader + given[n].size
  <2>3. a \in Nat /\ m \in Nat /\ Pad(m) \in Nat /\ Pad(m) <= m + 7
    BY <2>2, OffsetNat, EventSize, Padding
  <2>4. a + Pad(m) = o
    BY <2>1 DEF Laid, o
  <2>5. a + m <= capacity + EventHeader
    <3>1. a + EventHeader + given[n].size <= capacity + EventHeader
      BY <2>1 DEF Laid, Inside, Memory
    <3> QED
      BY <2>2, <2>3, <3>1, EventSize DEF EventHeader
  <2> HIDE DEF a, m
  <2>6. o <= capacity + EventHeader + 7
    BY <1>1, <2>3, <2>4, <2>5 DEF EventHeader
  <2> QED
    BY <1>1, <1>2, <2>6, OffsetIn DEF o
<1> QED
  BY <1>3, <1>4

\* A write of an input that is let through: within the capacity it is within the
\* memory, and an exact capacity is not left.
LEMMA FitsKeeps ==
  ASSUME TypeOK, InBounds, type = "Sequence", flow = "input", NEW e \in Event,
         Fits(e.size)
  PROVE  /\ ~Inside(size - AtomHeader, e.size) => size + AtomHeader > capacity
         /\ Exact => /\ Inside(size - AtomHeader, e.size)
                     /\ size + Pad(EventHeader + e.size) + AtomHeader <= capacity
<1>1. size \in Nat /\ size % 8 = 0 /\ size >= 8 /\ capacity \in Nat
  BY Capacity DEF TypeOK, InBounds, AtomHeader
<1>2. e.size \in Nat
  BY EventSize
<1>3. size + AtomHeader <= capacity => capacity - AtomHeader - size >= EventHeader + e.size
  BY <1>1, <1>2 DEF Fits, AtomHeader, EventHeader
<1>4. size + AtomHeader <= capacity => Inside(size - AtomHeader, e.size)
  BY <1>1, <1>2, <1>3 DEF Inside, Memory, AtomHeader, EventHeader
<1>5. Exact => size + AtomHeader <= capacity
  BY DEF InBounds
<1>6. Exact => size + Pad(EventHeader + e.size) + AtomHeader <= capacity
  BY <1>1, <1>2, <1>3, <1>5, PaddedFits
<1>7. ~Inside(size - AtomHeader, e.size) => size + AtomHeader > capacity
  BY <1>1, <1>4 DEF AtomHeader
<1> QED
  BY <1>4, <1>5, <1>6, <1>7

\* So for whatever lv2_evbuf_write does to an input, at the end of its sequence.
LEMMA PutKeeps ==
  ASSUME TypeOK, InBounds, Layout, Ascending, type = "Sequence", flow = "input",
         phase # "overrun", NEW e \in Event, Put(size - AtomHeader, e),
         UNCHANGED <<flow, capacity>>,
         \A k \in 1..Len(given) : given[k].time <= e.time
  PROVE  /\ mem' \in [Offsets -> Event] /\ size' \in Nat /\ type' = "Sequence"
         /\ given' \in Seq(Event) /\ starts' \in Seq(Offsets)
         /\ InBounds' /\ Layout' /\ Ascending'
         /\ phase' \in {phase, "overrun"}
         /\ \A k \in 1..Len(given') : given'[k].time <= e.time
         /\ size' - AtomHeader = (size - AtomHeader)
              + (IF Fits(e.size) /\ Inside(size - AtomHeader, e.size)
                 THEN Pad(EventHeader + e.size) ELSE 0)
         /\ size' - AtomHeader \in Offsets
<1>1. size \in Nat /\ size >= 8 /\ given \in Seq(Event) /\ capacity \in Nat
  BY Capacity DEF TypeOK, InBounds, AtomHeader
<1>0. size - AtomHeader \in Offsets /\ size - AtomHeader \in Int
  BY <1>1, SizeOffset DEF AtomHeader
<1>2. CASE Fits(e.size) /\ Inside(size - AtomHeader, e.size)
  <2>1. Accept(size - AtomHeader, e) /\ phase' = phase
    BY <1>2 DEF Put
  <2>2. /\ mem' \in [Offsets -> Event] /\ size' \in Nat
        /\ size' % 8 = 0 /\ size' >= AtomHeader
        /\ given' \in Seq(Event) /\ starts' \in Seq(Offsets)
        /\ Layout' /\ size' - AtomHeader \in Offsets
    BY <1>2, <2>1, AcceptKeeps
  <2>3. size' = size + Pad(EventHeader + e.size) /\ type' = type /\ given' = Append(given, e)
    BY <2>1 DEF Accept
  <2>4. Ascending' /\ \A k \in 1..Len(given') : given'[k].time <= e.time
    BY <1>1, <2>3, AppendAscends
  <2>5. Exact => size' + AtomHeader <= capacity
    BY <1>2, <2>3, FitsKeeps
  <2>6. InBounds'
    BY <2>1, <2>2, <2>5 DEF InBounds, Exact
  <2>7. Pad(EventHeader + e.size) \in Nat
    BY PaddedEvent
  <2>8. size' - AtomHeader = (size - AtomHeader) + Pad(EventHeader + e.size)
    BY <1>1, <2>3, <2>7 DEF AtomHeader
  <2> QED
    BY <1>2, <2>1, <2>2, <2>3, <2>4, <2>6, <2>8
<1>3. CASE Fits(e.size) /\ ~Inside(size - AtomHeader, e.size)
  <2>1. Refuse /\ phase' = "overrun"
    BY <1>3 DEF Put
  <2>2. ~Exact /\ size + AtomHeader > capacity
    BY <1>3, FitsKeeps
  <2>3. UNCHANGED <<mem, size, type, given, starts>>
    BY <2>1 DEF Refuse, atom
  <2>4. InBounds'
    BY <2>1, <2>2, <2>3 DEF InBounds, Exact
  <2>5. Layout' /\ Ascending'
    BY <2>3, Stays DEF port
  <2> QED
    BY <1>0, <1>1, <1>3, <2>1, <2>3, <2>4, <2>5 DEF TypeOK
<1>4. CASE ~Fits(e.size)
  <2>1. Refuse /\ phase' = phase
    BY <1>4 DEF Put
  <2>2. UNCHANGED <<mem, size, type, given, starts>>
    BY <2>1 DEF Refuse, atom
  <2>3. InBounds' /\ Layout' /\ Ascending'
    BY <2>1, <2>2, Stays DEF port
  <2> QED
    BY <1>0, <1>1, <1>4, <2>1, <2>2, <2>3 DEF TypeOK
<1> QED
  BY <1>2, <1>3, <1>4

\* A sequence that was reset, and the whole buffer when it is made.
LEMMA ResetKeeps ==
  ASSUME NEW input \in BOOLEAN, capacity' \in Nat, Reset(input, capacity'),
         input = (flow' = "input"), flow' \in {"input", "output"}, phase' # "overrun"
  PROVE  /\ size' \in Nat /\ offered' \in Nat /\ type' \in {"Sequence", "Chunk"}
         /\ given' = <<>> /\ starts' = <<>> /\ got' = <<>>
         /\ given' \in Seq(Event) /\ starts' \in Seq(Offsets) /\ got' \in Seq(Event)
         /\ InBounds' /\ Layout' /\ Ascending'
<1>1. /\ size' \in Nat /\ offered' \in Nat /\ type' \in {"Sequence", "Chunk"}
      /\ given' = <<>> /\ starts' = <<>> /\ got' = <<>>
      /\ given' \in Seq(Event) /\ starts' \in Seq(Offsets) /\ got' \in Seq(Event)
  BY DEF Reset, AtomHeader
<1>2. Ascending'
  BY <1>1 DEF Ascending
<1>3. CASE input
  <2>1. size' = 8 /\ type' = "Sequence" /\ flow' = "input"
    BY <1>3 DEF Reset, AtomHeader
  <2>2. InBounds'
    <3>1. size' % 8 = 0 /\ size' >= 8
      BY <2>1
    <3>2. Exact' => size' + 8 <= capacity'
      BY <2>1 DEF Exact, AtomHeader
    <3> QED
      BY <2>1, <3>1, <3>2 DEF InBounds, AtomHeader
  <2>3. Layout'
    BY <1>1, <2>1 DEF Layout, AtomHeader
  <2> QED
    BY <1>1, <1>2, <2>2, <2>3
<1>4. CASE ~input
  <2>1. type' = "Chunk"
    BY <1>4 DEF Reset
  <2>2. InBounds'
    BY <2>1 DEF InBounds
  <2>3. Layout'
    BY <1>1, <2>1 DEF Layout
  <2> QED
    BY <1>1, <1>2, <2>2, <2>3
<1> QED
  BY <1>3, <1>4

\* A reader that begins stands at the first event, or at the end of none.
LEMMA ReadingStarts ==
  ASSUME TypeOK, Layout, got = <<>>, iter' = 0, UNCHANGED <<size, type, mem, given, starts, got>>
  PROVE  Reading'
<1>1. given \in Seq(Event) /\ Len(given) \in Nat /\ Len(got') = 0
  BY LenProperties DEF TypeOK
<1>2. CASE given = <<>>
  <2>1. GetSize = 0 /\ Len(given) = 0
    BY <1>2 DEF Layout, GetSize, AtomHeader
  <2> QED
    BY <1>1, <2>1 DEF Reading, GetSize
<1>3. CASE given # <<>>
  <2>1. Len(given) > 0 /\ starts[1] = 0
    BY <1>1, <1>3, EmptySeq DEF Layout
  <2> QED
    BY <1>1, <2>1 DEF Reading
<1> QED
  BY <1>2, <1>3

LEMMA EventTime ==
  ASSUME given \in Seq(Event), NEW k \in 1..Len(given)
  PROVE  given[k].time \in Nat /\ given[k].time <= NFrames
<1>1. given[k] \in Event
  BY ElementOfSeq
<1>2. given[k].time \in 0..NFrames
  BY <1>1 DEF Event
<1> QED
  BY <1>2, EventBufferAssumption

\* The end iterator stands behind the last event.
LEMMA EndIsSize ==
  ASSUME TypeOK, InBounds, type = "Sequence"
  PROVE  End = size - AtomHeader
<1>1. size \in Nat /\ size % 8 = 0 /\ size >= 8
  BY DEF TypeOK, InBounds, AtomHeader
<1> DEFINE s == size - 8
<1>2. s \in Nat /\ s % 8 = 0
  BY <1>1
<1> HIDE DEF s
<1>3. Pad(s) = s
  BY <1>2 DEF Pad
<1> QED
  BY <1>3 DEF End, GetSize, AtomHeader, s

\* The plugin keeps to the room it was told of, and so within the memory.
LEMMA PaddedIsMore ==
  ASSUME TypeOK, InBounds, type = "Sequence", NEW e \in Event,
         size + Pad(EventHeader + e.size) <= capacity
  PROVE  Inside(size - AtomHeader, e.size)
<1> DEFINE m == EventHeader + e.size
<1>1. m \in Nat
  BY EventSize
<1> HIDE DEF m
<1>2. Pad(m) \in Nat /\ m <= Pad(m)
  BY <1>1, Padding
<1>3. size \in Nat /\ size >= 8 /\ capacity \in Nat
  BY Capacity DEF TypeOK, InBounds, AtomHeader
<1>4. size + Pad(m) <= capacity
  BY DEF m
<1>5. (size - 8) + m <= capacity + 16
  BY <1>1, <1>2, <1>3, <1>4
<1>6. (size - 8) + m = (size - 8) + EventHeader + e.size
  BY <1>3, EventSize DEF m, EventHeader
<1> QED
  BY <1>5, <1>6 DEF Inside, Memory, AtomHeader, EventHeader

\* Every event begins before the end, and the next one after it.
LEMMA EventIsInside ==
  ASSUME TypeOK, InBounds, Layout, NEW c \in 1..Len(given)
  PROVE  starts[c] < size - AtomHeader
<1>1. starts \in Seq(Offsets) /\ given \in Seq(Event) /\ Len(starts) = Len(given) /\ Laid(c)
  BY DEF TypeOK, Layout
<1>2. starts[c] \in Offsets /\ given[c] \in Event
  BY <1>1, ElementOfSeq
<1> DEFINE q == Pad(EventHeader + given[c].size)
<1>3. q \in Nat /\ q >= 16
  BY <1>2, PaddedEvent
<1>4. starts[c] + q <= size - AtomHeader
  BY <1>1 DEF Laid
<1> HIDE DEF q
<1>5. given # <<>>
  BY <1>1, EmptySeq
<1>6. size \in Nat /\ size >= 8
  BY <1>5 DEF TypeOK, Layout, InBounds, AtomHeader
<1> QED
  BY <1>2, <1>3, <1>4, <1>6, OffsetNat DEF AtomHeader

\* A step of the reader: the next event, whole.
LEMMA GetReads ==
  ASSUME TypeOK, InBounds, Layout, Reading, iter < GetSize,
         got' = Append(got, mem[iter]), iter' = NextAfter(iter),
         UNCHANGED <<size, type, mem, given, starts>>
  PROVE  got' \in Seq(Event) /\ iter' \in Offsets /\ Reading'
<1> DEFINE n == Len(got)
<1>1. /\ got \in Seq(Event) /\ given \in Seq(Event) /\ starts \in Seq(Offsets)
      /\ n \in Nat /\ Len(given) \in Nat /\ Len(starts) = Len(given)
  BY LenProperties DEF TypeOK, Layout
<1>2. GetSize \in Nat /\ iter \in Nat
  BY OffsetNat DEF TypeOK, InBounds, GetSize, AtomHeader
<1>3. n < Len(given) /\ iter = starts[n + 1]
  BY <1>1, <1>2 DEF Reading
<1>4. PICK c : c = n + 1
  OBVIOUS
<1>5. c \in 1..Len(given) /\ Laid(c)
  BY <1>1, <1>3, <1>4 DEF Layout
<1>6. given # <<>>
  BY <1>1, <1>3, EmptySeq
<1>7. type = "Sequence" /\ GetSize = size - AtomHeader
  BY <1>6 DEF Layout, GetSize
<1>8. mem[iter] = given[c] /\ given[c] \in Event
  BY <1>1, <1>3, <1>4, <1>5, ElementOfSeq DEF Laid
<1>9. iter' = IF c = Len(given) THEN GetSize ELSE starts[c + 1]
  BY <1>3, <1>4, <1>5, <1>7, <1>8 DEF Laid, NextAfter
<1>10. /\ got' \in Seq(Event) /\ Len(got') = c /\ got'[c] = given[c]
       /\ \A k \in 1..n : got'[k] = got[k]
  BY <1>1, <1>4, <1>8, AppendProperties
<1> HIDE DEF n
<1>11. iter' \in Offsets
  <2>1. CASE c = Len(given)
    BY <1>7, <1>9, <2>1, SizeOffset
  <2>2. CASE c # Len(given)
    <3>1. c + 1 \in 1..Len(starts)
      BY <1>1, <1>5, <2>2
    <3> QED
      BY <1>1, <1>9, <2>2, <3>1, ElementOfSeq
  <2> QED
    BY <2>1, <2>2
<1>12. ASSUME NEW k \in 1..Len(got') PROVE got'[k] = given[k]
  <2>1. CASE k = c
    BY <1>10, <2>1
  <2>2. CASE k # c
    <3>1. k \in 1..n
      BY <1>1, <1>4, <1>10, <2>2
    <3> QED
      BY <1>10, <3>1 DEF Reading, n
  <2> QED
    BY <2>1, <2>2
<1>13. Len(got') <= Len(given)
  BY <1>5, <1>10
<1>14. iter' = IF Len(got') < Len(given) THEN starts[Len(got') + 1] ELSE GetSize
  BY <1>1, <1>5, <1>9, <1>10
<1> QED
  BY <1>10, <1>11, <1>12, <1>13, <1>14 DEF Reading, GetSize

LEMMA ZeroOffset ==
  ASSUME capacity \in Capacities
  PROVE  0 \in Offsets
  BY Capacity, OffsetIn DEF EventHeader

LEMMA GarbageIsEvent == Garbage \in Event
  BY EventBufferAssumption DEF Garbage, Event

\* The events in the buffer are one after the other within it and in order, and a
\* reader stands at the first one it has not read (lv2_evbuf.c:57-184).
THEOREM Inductive == Spec => []IInv
<1>1. Init => IInv
  <2> SUFFICES ASSUME Init PROVE IInv
    OBVIOUS
  <2>1. capacity \in Nat /\ NFrames \in Nat /\ 0 \in Offsets
    BY EventBufferAssumption, Capacity, ZeroOffset DEF Init
  <2>2. TypeOK
    BY <2>1, GarbageIsEvent DEF Init, TypeOK, AtomHeader
  <2> QED
    BY <2>1, <2>2 DEF Init, IInv, InBounds, Exact, Layout, Ascending, AtomHeader
<1>2. IInv /\ [Next]_vars => IInv'
  <2> SUFFICES ASSUME IInv, [Next]_vars PROVE IInv'
    OBVIOUS
  <2>0. TypeOK /\ InBounds /\ Layout /\ Ascending
    BY DEF IInv
  <2>00. NFrames \in Nat /\ 0 \in Offsets /\ capacity \in Nat
    BY <2>0, EventBufferAssumption, Capacity, ZeroOffset DEF TypeOK
  <2>1. CASE BeginInput
    <3>1. Reset(TRUE, capacity') /\ capacity' = capacity /\ flow = "input" /\ flow' = "input"
          /\ phase' = "fill" /\ iter' = 0 /\ clock' = 0 /\ mem' = mem
      BY <2>1 DEF BeginInput, Go, port
    <3>2. /\ size' \in Nat /\ offered' \in Nat /\ type' \in {"Sequence", "Chunk"}
          /\ given' = <<>> /\ got' = <<>>
          /\ given' \in Seq(Event) /\ starts' \in Seq(Offsets) /\ got' \in Seq(Event)
          /\ InBounds' /\ Layout' /\ Ascending'
      BY <2>00, <3>1, ResetKeeps
    <3>3. TypeOK'
      BY <2>0, <2>00, <3>1, <3>2 DEF TypeOK
    <3>4. Len(given') = 0
      BY <3>2
    <3>5. type' = "Sequence" /\ GetSize' = 0
      BY <3>1 DEF Reset, GetSize, AtomHeader
    <3> QED
      BY <3>1, <3>2, <3>3, <3>4, <3>5 DEF IInv
  <2>2. CASE BeginOutput
    <3>1. Reset(FALSE, capacity') /\ capacity' = capacity /\ flow = "output" /\ flow' = "output"
          /\ phase' = "run" /\ iter' = 0 /\ clock' = 0 /\ mem' = mem
      BY <2>2 DEF BeginOutput, Go, port
    <3>2. /\ size' \in Nat /\ offered' \in Nat /\ type' \in {"Sequence", "Chunk"}
          /\ given' = <<>> /\ got' = <<>>
          /\ given' \in Seq(Event) /\ starts' \in Seq(Offsets) /\ got' \in Seq(Event)
          /\ InBounds' /\ Layout' /\ Ascending'
      BY <2>00, <3>1, ResetKeeps
    <3>3. TypeOK'
      BY <2>0, <2>00, <3>1, <3>2 DEF TypeOK
    <3>4. Len(given') = 0
      BY <3>2
    <3>5. type' = "Chunk"
      BY <3>1 DEF Reset
    <3> QED
      BY <3>1, <3>2, <3>3, <3>4, <3>5 DEF IInv
  <2>3. CASE Renew
    <3>0. phase = "idle" /\ iter' = 0 /\ clock' = 0 /\ flow' = flow /\ phase' = phase
          /\ capacity' \in Capacities /\ Reset(flow = "input", capacity')
          /\ mem' = [o \in Offsets |-> Garbage]
      BY <2>3 DEF Renew
    <3>1. mem' \in [Offsets -> Event] /\ capacity' \in Nat /\ flow \in {"input", "output"}
      BY <2>0, <3>0, GarbageIsEvent, EventBufferAssumption DEF TypeOK
    <3>2. /\ size' \in Nat /\ offered' \in Nat /\ type' \in {"Sequence", "Chunk"}
          /\ given' = <<>> /\ got' = <<>>
          /\ given' \in Seq(Event) /\ starts' \in Seq(Offsets) /\ got' \in Seq(Event)
          /\ InBounds' /\ Layout' /\ Ascending'
      BY <3>0, <3>1, ResetKeeps
    <3>3. type' = "Chunk" => flow' = "output"
      BY <3>0, <3>1 DEF Reset
    <3>4. TypeOK'
      BY <2>0, <2>00, <3>0, <3>1, <3>2 DEF TypeOK
    <3> QED
      BY <3>0, <3>2, <3>3, <3>4 DEF IInv
  <2>4. CASE EndFill
    BY <2>0, <2>4, Stays DEF EndFill, Go, IInv, TypeOK, atom, hist, port
  <2>5. CASE Bypass
    BY <2>0, <2>5, Stays DEF Bypass, Go, IInv, TypeOK, atom, hist, port
  <2>6. CASE EndBypass
    BY <2>0, <2>6, Stays DEF EndBypass, Go, IInv, TypeOK, atom, hist, port
  <2>7. CASE UNCHANGED vars
    BY <2>0, <2>7, Stays DEF vars, IInv, TypeOK, Reading, GetSize, port
  <2>8. CASE RunInput
    <3>1. /\ flow = "input" /\ phase = "apply" /\ got = <<>> /\ phase' = "read" /\ iter' = 0
          /\ UNCHANGED <<port, atom, mem, clock, hist, got>>
      BY <2>8 DEF RunInput, Go, IInv
    <3>2. Reading'
      BY <2>0, <2>00, <3>1, ReadingStarts DEF IInv, atom, hist
    <3> QED
      BY <2>0, <2>00, <3>1, <3>2, Stays DEF IInv, TypeOK, atom, hist, port
  <2>9. CASE Compose
    BY <2>0, <2>00, <2>9 DEF Compose, Go, IInv, TypeOK, InBounds, Exact, Layout, Ascending, AtomHeader,
       hist, port
  <2>10. CASE RunOutput
    <3>1. /\ phase \in {"run", "compose"} /\ got = <<>> /\ phase' = "read" /\ iter' = 0
          /\ UNCHANGED <<port, atom, mem, clock, hist, got>>
      BY <2>10 DEF RunOutput, IInv
    <3>2. Reading'
      BY <2>0, <2>00, <3>1, ReadingStarts DEF IInv, atom, hist
    <3> QED
      BY <2>0, <2>00, <3>1, <3>2, Stays DEF IInv, TypeOK, atom, hist, port
  <2>11. CASE EndRead
    BY <2>0, <2>00, <2>11, Stays DEF EndRead, Go, IInv, TypeOK, atom, hist, port
  <2>12. ASSUME NEW t \in 0..NFrames, NEW n \in Sizes, Write(t, n) PROVE IInv'
    <3> DEFINE e == Offer(t, n)
    <3>1. e \in Event /\ e.time = t /\ e.size = n
      BY <2>0, <2>12 DEF Offer, Event, TypeOK
    <3>2. /\ phase = "fill" /\ flow = "input" /\ type = "Sequence" /\ got = <<>>
          /\ iter = size - AtomHeader /\ t >= clock
          /\ \A k \in 1..Len(given) : given[k].time <= clock
      BY <2>0, <2>12 DEF Write, IInv, GetSize, TypeOK
    <3>3. /\ clock' = t /\ offered' = offered + 1 /\ UNCHANGED <<flow, capacity, got>>
          /\ clock' \in 0..NFrames /\ offered' \in Nat
      BY <2>0, <2>12 DEF Write, TypeOK, port
    <3>4. given \in Seq(Event)
      BY <2>0 DEF TypeOK
    <3>5. \A k \in 1..Len(given) : given[k].time <= t
      <4> SUFFICES ASSUME NEW k \in 1..Len(given) PROVE given[k].time <= t
        OBVIOUS
      <4>1. given[k].time \in Nat
        BY <3>4, EventTime
      <4> QED
        BY <2>0, <2>00, <2>12, <3>2, <4>1 DEF TypeOK
    <3>6. /\ Put(size - AtomHeader, e)
          /\ iter' = iter + (IF Fits(e.size) /\ Inside(size - AtomHeader, e.size)
                             THEN Pad(EventHeader + e.size) ELSE 0)
      BY <2>12, <3>1, <3>2 DEF Write
    <3> HIDE DEF e
    <3>7. /\ mem' \in [Offsets -> Event] /\ size' \in Nat /\ type' = "Sequence"
          /\ given' \in Seq(Event) /\ starts' \in Seq(Offsets)
          /\ InBounds' /\ Layout' /\ Ascending' /\ phase' \in {"fill", "overrun"}
          /\ \A k \in 1..Len(given') : given'[k].time <= t
      BY <2>0, <3>1, <3>2, <3>3, <3>5, <3>6, PutKeeps
    <3>8. iter' = size' - AtomHeader /\ iter' \in Offsets
      BY <2>0, <3>1, <3>2, <3>3, <3>5, <3>6, PutKeeps
    <3>9. TypeOK'
      BY <2>0, <3>2, <3>3, <3>7, <3>8 DEF TypeOK
    <3> QED
      BY <3>2, <3>3, <3>7, <3>8, <3>9 DEF IInv, GetSize
  <2>13. ASSUME NEW n \in Sizes, WriteUi(n) PROVE IInv'
    <3> DEFINE e == Offer(NFrames, n)
    <3>1. e \in Event /\ e.time = NFrames /\ e.size = n
      BY <2>0, <2>00 DEF Offer, Event, TypeOK
    <3>2. phase \in {"apply", "bypass"} /\ flow = "input" /\ type = "Sequence"
      BY <2>0, <2>13 DEF WriteUi, IInv, TypeOK
    <3>3. /\ offered' = offered + 1 /\ UNCHANGED <<flow, capacity, iter, clock, got>>
          /\ offered' \in Nat
      BY <2>0, <2>13 DEF WriteUi, TypeOK, port
    <3>4. given \in Seq(Event)
      BY <2>0 DEF TypeOK
    <3>5. \A k \in 1..Len(given) : given[k].time <= NFrames
      BY <3>4, EventTime
    <3>6. Put(size - AtomHeader, e)
      BY <2>0, <2>13, <3>2, EndIsSize DEF WriteUi
    <3> HIDE DEF e
    <3>7. /\ mem' \in [Offsets -> Event] /\ size' \in Nat /\ type' = "Sequence"
          /\ given' \in Seq(Event) /\ starts' \in Seq(Offsets)
          /\ InBounds' /\ Layout' /\ Ascending' /\ phase' \in {phase, "overrun"}
      BY <2>0, <3>1, <3>2, <3>3, <3>5, <3>6, PutKeeps
    <3>8. TypeOK'
      BY <2>0, <3>2, <3>3, <3>7 DEF TypeOK
    <3>9. phase = "apply" => got = <<>>
      BY DEF IInv
    <3> QED
      BY <3>2, <3>3, <3>7, <3>8, <3>9 DEF IInv
  <2>14. ASSUME NEW t \in 0..NFrames, NEW n \in Sizes, WritePlugin(t, n) PROVE IInv'
    <3> DEFINE e == Offer(t, n)
    <3>1. e \in Event /\ e.time = t /\ e.size = n
      BY <2>0, <2>14 DEF Offer, Event, TypeOK
    <3>2. /\ phase = "compose" /\ type = "Sequence" /\ got = <<>> /\ t >= clock
          /\ \A k \in 1..Len(given) : given[k].time <= clock
      BY <2>0, <2>14 DEF WritePlugin, IInv, TypeOK
    <3>3. /\ clock' = t /\ offered' = offered + 1
          /\ UNCHANGED <<flow, capacity, phase, iter, got>>
          /\ clock' \in 0..NFrames /\ offered' \in Nat
      BY <2>0, <2>14 DEF WritePlugin, TypeOK, port
    <3>4. given \in Seq(Event)
      BY <2>0 DEF TypeOK
    <3>5. \A k \in 1..Len(given) : given[k].time <= t
      <4> SUFFICES ASSUME NEW k \in 1..Len(given) PROVE given[k].time <= t
        OBVIOUS
      <4>1. given[k].time \in Nat
        BY <3>4, EventTime
      <4> QED
        BY <2>0, <2>00, <2>14, <3>2, <4>1 DEF TypeOK
    <3>6. Accept(size - AtomHeader, e)
      BY <2>14 DEF WritePlugin
    <3>7. size + Pad(EventHeader + e.size) <= capacity /\ Inside(size - AtomHeader, e.size)
      BY <2>0, <2>14, <3>1, <3>2, PaddedIsMore DEF WritePlugin
    <3> HIDE DEF e
    <3>8. /\ mem' \in [Offsets -> Event] /\ size' \in Nat
          /\ given' \in Seq(Event) /\ starts' \in Seq(Offsets)
          /\ size' % 8 = 0 /\ size' >= AtomHeader /\ Layout'
      BY <2>0, <3>1, <3>2, <3>3, <3>6, <3>7, AcceptKeeps
    <3>9. /\ type' = type /\ given' = Append(given, e)
          /\ size' = size + Pad(EventHeader + e.size)
      BY <3>6 DEF Accept
    <3>11. flow = "output" /\ InBounds'
      BY <3>2, <3>3, <3>7, <3>8, <3>9 DEF IInv, InBounds, Exact
    <3>10. Ascending' /\ \A k \in 1..Len(given') : given'[k].time <= t
      BY <2>0, <3>1, <3>4, <3>5, <3>9, AppendAscends
    <3> QED
      BY <2>0, <3>2, <3>3, <3>8, <3>9, <3>10, <3>11 DEF IInv, TypeOK
  <2>15. CASE Get
    <3>1. /\ phase = "read" /\ Reading /\ iter < GetSize
          /\ got' = Append(got, mem[iter]) /\ iter' = NextAfter(iter)
          /\ UNCHANGED <<port, phase, atom, mem, clock, hist>>
      BY <2>15 DEF Get, IsValid, IInv
    <3>2. /\ got' \in Seq(Event) /\ iter' \in Offsets /\ Reading'
      BY <2>0, <3>1, GetReads DEF atom, hist
    <3> QED
      BY <2>0, <2>00, <3>1, <3>2, Stays DEF IInv, TypeOK, atom, hist, port
  <2> QED
    BY <2>1, <2>2, <2>3, <2>4, <2>5, <2>6, <2>7, <2>8, <2>9, <2>10, <2>11, <2>12, <2>13,
       <2>14, <2>15 DEF Next, Overrun
<1> QED
  BY <1>1, <1>2, PTL DEF Spec

\* No write of an event passes the memory while the sequence is within the capacity,
\* and none at all when that is a multiple of eight (lv2_evbuf.c:163-184).
THEOREM WritesStayInside == Spec => []InBounds
<1>1. IInv => InBounds
  BY DEF IInv
<1> QED
  BY <1>1, Inductive, PTL

\* Whoever reads the buffer gets what was written since the reset, all of it and
\* in the order of time.
THEOREM ReadersGetAll == Spec => []ReadsBack
<1>1. IInv => ReadsBack
  <2> SUFFICES ASSUME IInv, phase = "read", ~IsValid(iter) PROVE got = given
    BY DEF IInv, ReadsBack
  <2>1. TypeOK /\ InBounds /\ Layout /\ Reading
    BY DEF IInv
  <2>2. /\ got \in Seq(Event) /\ given \in Seq(Event) /\ starts \in Seq(Offsets)
        /\ Len(got) \in Nat /\ Len(given) \in Nat /\ Len(starts) = Len(given)
    BY <2>1, LenProperties DEF TypeOK, Layout
  <2>3. Len(got) = Len(given)
    <3> SUFFICES ASSUME Len(got) < Len(given) PROVE FALSE
      BY <2>1, <2>2 DEF Reading
    <3> DEFINE k == Len(got) + 1
    <3>1. k \in 1..Len(given) /\ iter = starts[k]
      BY <2>1, <2>2 DEF Reading
    <3>2. PICK c : c = k
      OBVIOUS
    <3>3. starts[c] < size - AtomHeader
      BY <2>1, <3>1, <3>2, EventIsInside
    <3>4. given # <<>>
      BY <2>2, <3>1, EmptySeq
    <3>5. type = "Sequence"
      BY <2>1, <3>4 DEF Layout
    <3> QED
      BY <3>1, <3>2, <3>3, <3>5 DEF IsValid, GetSize
  <2> QED
    BY <2>1, <2>2, <2>3, SeqEqual DEF Reading
<1> QED
  BY <1>1, Inductive, PTL
=============================================================================
