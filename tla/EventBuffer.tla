----------------------------- MODULE EventBuffer -----------------------------
(***************************************************************************)
(* The event buffer of jalv (lv2_evbuf.c) and its use by the audio thread  *)
(* (jack.c, process.c): one buffer of one event port, cycle after cycle.   *)
(*                                                                         *)
(* Bytes are counted where they are: an atom's header, an event's header,  *)
(* padding.  What an event holds is its identity.  Events of JACK come in  *)
(* the order of their times; the plugin reads and writes its ports as LV2  *)
(* says.  A custom UI writes to input ports.  The capacity is any number:  *)
(* it is the plugin's rsz:minimumSize, or the size of the host's buffers.  *)
(***************************************************************************)
EXTENDS Naturals, Sequences

CONSTANTS
  Capacities, \* that a buffer may have
  Sizes,      \* of the events
  NFrames,    \* of a cycle
  MaxEvents   \* bound: events offered between two resets

ASSUME EventBufferAssumption ==
  /\ Capacities \subseteq Nat
  /\ Sizes \subseteq Nat /\ NFrames \in Nat /\ MaxEvents \in Nat

AtomHeader  == 8   \* sizeof(LV2_Atom), and of LV2_Atom_Sequence_Body
EventHeader == 16  \* sizeof(LV2_Atom_Event), and of LV2_Atom_Sequence

VARIABLES
  flow,     \* the port's: "input" or "output"
  capacity, \* of the buffer
  phase,    \* where the audio thread is
  type, size, \* of the atom
  mem,      \* the event whose header is at an offset
  iter,     \* the iterator the audio thread or the plugin has
  clock,    \* the time of the last event of JACK
  offered,  \* history: how many were offered since the last reset
  given, starts, \* history: those that were written, and where
  got       \* history: those that were read

vars == <<flow, capacity, phase, type, size, mem, iter, clock, offered, given, starts, got>>
port == <<flow, capacity>>
atom == <<type, size>>
hist == <<offered, given, starts>>

\* lv2_evbuf_new takes room for a second sequence header: these bytes are there.
Memory  == capacity + EventHeader
Offsets == {n \in UNION {0..(c + EventHeader + 7) : c \in Capacities} : n % 8 = 0}
Event   == [time : 0..NFrames, size : Sizes \cup {0}, id : Nat]
Garbage == [time |-> 0, size |-> 0, id |-> 0]

Pad(n) == ((n + 7) \div 8) * 8

Init ==
  /\ flow \in {"input", "output"} /\ capacity \in Capacities /\ phase = "idle"
  /\ type = IF flow = "input" THEN "Sequence" ELSE "Chunk"
  /\ size = IF flow = "input" THEN AtomHeader ELSE capacity
  /\ mem = [o \in Offsets |-> Garbage] /\ iter = 0 /\ clock = 0
  /\ offered = 0 /\ given = <<>> /\ starts = <<>> /\ got = <<>>

-----------------------------------------------------------------------------
(* lv2_evbuf.c.                                                            *)

Reset(input, c) ==
  /\ size' = IF input THEN AtomHeader ELSE c
  /\ type' = IF input THEN "Sequence" ELSE "Chunk"
  /\ offered' = 0 /\ given' = <<>> /\ starts' = <<>> /\ got' = <<>>

GetSize == IF type = "Sequence" THEN size - AtomHeader ELSE 0

End_WithBody == Pad(size)
End == Pad(GetSize)

IsValid(o) == o < GetSize

NextAfter(o) == o + Pad(EventHeader + mem[o].size)

\* The subtraction is unsigned: a size past the capacity leaves endless room.
Fits_NoHeader(n) == size + AtomHeader > capacity \/ capacity - AtomHeader - size >= n
Fits(n) ==
  \/ size + AtomHeader > capacity
  \/ capacity - AtomHeader - size >= EventHeader + n

Inside(o, n) == o + EventHeader + n <= Memory

\* Bytes at o: an event's header, and what was at the offsets it covers is gone.
Store(o, e) ==
  mem' = [p \in Offsets |->
            IF p = o THEN e
            ELSE IF p > o /\ p < o + EventHeader + e.size THEN Garbage ELSE mem[p]]

Accept(o, e) ==
  /\ Store(o, e) /\ size' = size + Pad(EventHeader + e.size) /\ type' = type
  /\ given' = Append(given, e) /\ starts' = Append(starts, o)

Refuse == UNCHANGED <<mem, atom, given, starts>>

\* A write by an iterator at o: accepted, refused, or beyond what was allocated,
\* after which anything may happen.
Put(o, e) ==
  \/ Fits(e.size) /\ Inside(o, e.size) /\ Accept(o, e) /\ phase' = phase
  \/ Fits(e.size) /\ ~Inside(o, e.size) /\ Refuse /\ phase' = "overrun"
  \/ ~Fits(e.size) /\ Refuse /\ phase' = phase

Offer(t, n) == [time |-> t, size |-> n, id |-> offered + 1]

-----------------------------------------------------------------------------
(* The cycle.                                                              *)

Go(here, next) == phase = here /\ phase' = next

BeginInput ==
  /\ flow = "input" /\ Go("idle", "fill")
  /\ Reset(TRUE, capacity) /\ iter' = 0 /\ clock' = 0
  /\ UNCHANGED <<port, mem>>

\* An event of the transport or of JACK; a refused one leaves the iterator.
Write(t, n) ==
  /\ phase = "fill" /\ t >= clock /\ offered < MaxEvents
  /\ clock' = t /\ offered' = offered + 1
  /\ Put(iter, Offer(t, n))
  /\ iter' = iter + (IF Fits(n) /\ Inside(iter, n) THEN Pad(EventHeader + n) ELSE 0)
  /\ UNCHANGED <<port, got>>

EndFill ==
  /\ Go("fill", "apply")
  /\ UNCHANGED <<port, atom, mem, iter, clock, hist, got>>

\* apply_ui_events, in a cycle that runs the plugin or, without a reset before
\* it, in one that does not.
Bypass ==
  /\ flow = "input" /\ Go("idle", "bypass")
  /\ UNCHANGED <<port, atom, mem, iter, clock, hist, got>>

WriteUi(n) ==
  /\ phase \in {"apply", "bypass"} /\ offered < MaxEvents
  /\ offered' = offered + 1
  /\ Put(End, Offer(NFrames, n))
  /\ UNCHANGED <<port, iter, clock, got>>

EndBypass ==
  /\ Go("bypass", "idle")
  /\ UNCHANGED <<port, atom, mem, iter, clock, hist, got>>

\* The plugin reads its input.
RunInput ==
  /\ Go("apply", "read") /\ iter' = 0
  /\ UNCHANGED <<port, atom, mem, clock, hist, got>>

BeginOutput ==
  /\ flow = "output" /\ Go("idle", "run")
  /\ Reset(FALSE, capacity) /\ iter' = 0 /\ clock' = 0
  /\ UNCHANGED <<port, mem>>

\* The plugin makes a sequence of what it was told to be its room, or leaves it.
Compose ==
  /\ capacity >= AtomHeader
  /\ Go("run", "compose") /\ size' = AtomHeader /\ type' = "Sequence"
  /\ UNCHANGED <<port, mem, iter, clock, hist, got>>

WritePlugin(t, n) ==
  /\ phase = "compose" /\ t >= clock /\ offered < MaxEvents
  /\ size + Pad(EventHeader + n) <= capacity
  /\ clock' = t /\ offered' = offered + 1
  /\ Accept(size - AtomHeader, Offer(t, n))
  /\ UNCHANGED <<port, phase, iter, got>>

RunOutput ==
  /\ phase \in {"run", "compose"} /\ phase' = "read" /\ iter' = 0
  /\ UNCHANGED <<port, atom, mem, clock, hist, got>>

Get ==
  /\ phase = "read" /\ IsValid(iter)
  /\ got' = Append(got, mem[iter]) /\ iter' = NextAfter(iter)
  /\ UNCHANGED <<port, phase, atom, mem, clock, hist>>

EndRead ==
  /\ ~IsValid(iter) /\ Go("read", "idle")
  /\ UNCHANGED <<port, atom, mem, iter, clock, hist, got>>

\* jalv_process_activate, between two cycles: a new buffer, of what may be another
\* capacity, for the host's buffers may have another size.
Renew ==
  /\ phase = "idle"
  /\ \E c \in Capacities : capacity' = c /\ Reset(flow = "input", c)
  /\ mem' = [o \in Offsets |-> Garbage] /\ iter' = 0 /\ clock' = 0
  /\ UNCHANGED <<flow, phase>>

\* The state after a write beyond the memory is none the code speaks of.
Overrun == phase = "overrun" /\ UNCHANGED vars

Next ==
  \/ \E n \in Sizes : \/ WriteUi(n)
                      \/ \E t \in 0..NFrames : Write(t, n) \/ WritePlugin(t, n)
  \/ BeginInput \/ EndFill \/ Bypass \/ EndBypass \/ RunInput
  \/ BeginOutput \/ Compose \/ RunOutput \/ Get \/ EndRead \/ Renew \/ Overrun

Spec == Init /\ [][Next]_vars

-----------------------------------------------------------------------------
(* Properties.                                                             *)

TypeOK ==
  /\ flow \in {"input", "output"} /\ capacity \in Capacities
  /\ phase \in {"idle", "fill", "apply", "bypass", "run", "compose", "read", "overrun"}
  /\ type \in {"Sequence", "Chunk"} /\ size \in Nat
  /\ mem \in [Offsets -> Event] /\ iter \in Offsets
  /\ clock \in 0..NFrames /\ offered \in Nat
  /\ given \in Seq(Event) /\ got \in Seq(Event) /\ starts \in Seq(Offsets)

\* No event is written beyond the memory from within the capacity; and with a
\* capacity that is a multiple of eight the sequence never leaves it, although the
\* free bytes are tested before the padding is added and by an unsigned subtraction
\* (lines 163-184).  What else becomes of an input's capacity depends on the padding:
\* once the sequence is past it the test lets everything through.
Exact == capacity % 8 = 0 /\ capacity >= 2 * AtomHeader

InBounds ==
  /\ type = "Sequence" => size % 8 = 0 /\ size >= AtomHeader
  /\ type = "Sequence" /\ flow = "output" => size <= capacity
  /\ Exact => /\ type = "Sequence" /\ flow = "input" => size + AtomHeader <= capacity
              /\ phase # "overrun"
  /\ phase = "overrun" => flow = "input" /\ size + AtomHeader > capacity

\* Where the events are: one after the other, and nothing of them overwritten.
Laid(k) ==
  /\ mem[starts[k]] = given[k]
  /\ starts[k] + Pad(EventHeader + given[k].size)
       = IF k = Len(given) THEN size - AtomHeader ELSE starts[k + 1]
  /\ starts[k] + Pad(EventHeader + given[k].size) <= size - AtomHeader
  /\ Inside(starts[k], given[k].size)

Layout ==
  /\ Len(starts) = Len(given)
  /\ \A k \in 1..Len(given) : Laid(k)
  /\ given # <<>> => type = "Sequence" /\ starts[1] = 0
  /\ given = <<>> /\ type = "Sequence" => size = AtomHeader

Ascending ==
  \A i, j \in 1..Len(given) : i <= j => given[i].time <= given[j].time

Reading ==
  /\ Len(got) <= Len(given) /\ \A k \in 1..Len(got) : got[k] = given[k]
  /\ iter = IF Len(got) < Len(given) THEN starts[Len(got) + 1] ELSE GetSize

IInv ==
  /\ TypeOK /\ InBounds /\ Layout /\ Ascending
  /\ type = "Chunk" => flow = "output" /\ phase \in {"idle", "run", "read"}
  /\ phase \in {"fill", "apply", "run", "compose"} => got = <<>>
  /\ phase \in {"fill", "compose"} =>
       \A k \in 1..Len(given) : given[k].time <= clock
  /\ phase = "fill" => iter = GetSize
  /\ phase \in {"fill", "apply", "bypass"} => flow = "input"
  /\ phase \in {"run", "compose"} => flow = "output"
  /\ phase = "run" => given = <<>>
  /\ phase = "read" => Reading

\* Whoever reads the buffer gets the events that were written to it since it was
\* reset, every one, in the order of their times, also when others between them
\* were refused; and nothing from a plugin that left its output alone
\* (lines 70-145, jack.c:176-245, process.c:60-63).
ReadsBack == phase = "read" => (~IsValid(iter) => got = given) /\ Ascending
=============================================================================
