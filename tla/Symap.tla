------------------------------- MODULE Symap -------------------------------
(***************************************************************************)
(* symap.c: URIs and their ids.  symbols[id] is the symbol of an id, index *)
(* the ids in the order of their symbols, searched by bisection.  A symbol *)
(* is a number: strcmp only compares.  Positions in the index count from 0 *)
(* as in the code.  One call is in progress at a time (Mapper has the      *)
(* lock); a step is one comparison of the search, or what follows it.      *)
(***************************************************************************)
EXTENDS Naturals, Sequences

CONSTANT Symbols

ASSUME SymapAssumption == Symbols \subseteq Nat \ {0}

VARIABLES
  symbols,  \* map->symbols: the symbol of each id
  index,    \* map->index
  pc,       \* idle, search, loop, found, absent
  making,   \* the call is symap_map, not symap_try_map
  sym,      \* its symbol
  lower, upper, i,  \* symap_search's bounds and position
  result    \* what the last call returned

table == <<symbols, index>>
call  == <<making, sym>>
vars  == <<table, pc, call, lower, upper, i, result>>

Init ==
  /\ symbols = <<>> /\ index = <<>>
  /\ pc = "idle" /\ making = FALSE /\ sym = 0
  /\ lower = 0 /\ upper = 0 /\ i = 0 /\ result = 0

Size == Len(index)

\* The symbol at a position of the index.
At(n) == symbols[index[n + 1]]

Call(s, m) ==
  /\ pc = "idle" /\ pc' = "search"
  /\ sym' = s /\ making' = m /\ result' = 0
  /\ UNCHANGED <<table, lower, upper, i>>

\* symap_search: an empty map and a symbol behind the last are decided
\* without a search.
BehindAll_OrEqual == Size > 0 => At(Size - 1) <= sym
BehindAll == Size > 0 => At(Size - 1) < sym

SearchEnds ==
  /\ pc = "search" /\ BehindAll
  /\ i' = Size /\ pc' = "absent"
  /\ UNCHANGED <<table, call, lower, upper, result>>

SearchBegins ==
  /\ pc = "search" /\ ~BehindAll
  /\ lower' = 0 /\ upper' = Size - 1 /\ i' = Size - 1 /\ pc' = "loop"
  /\ UNCHANGED <<table, call, result>>

Middle == lower + (upper - lower) \div 2

Looking == pc = "loop" /\ upper >= lower

Hit ==
  /\ Looking /\ At(Middle) = sym
  /\ i' = Middle /\ pc' = "found"
  /\ UNCHANGED <<table, call, lower, upper, result>>

\* At position 0 the unsigned upper bound cannot go below it.
TooGreat ==
  /\ Looking /\ At(Middle) > sym
  /\ i' = Middle
  /\ IF Middle = 0 THEN pc' = "absent" /\ UNCHANGED upper
                   ELSE upper' = Middle - 1 /\ UNCHANGED pc
  /\ UNCHANGED <<table, call, lower, result>>

TooSmall ==
  /\ Looking /\ At(Middle) < sym
  /\ i' = Middle + 1 /\ lower' = Middle + 1
  /\ UNCHANGED <<table, call, pc, upper, result>>

LoopEnds ==
  /\ pc = "loop" /\ upper < lower /\ pc' = "absent"
  /\ UNCHANGED <<table, call, lower, upper, i, result>>

\* Both calls return the id of a symbol that is there.
ReturnFound ==
  /\ pc = "found" /\ pc' = "idle"
  /\ result' = index[i + 1]
  /\ UNCHANGED <<table, call, lower, upper, i>>

\* symap_try_map of an unknown symbol; symap_map when either array could not
\* grow, the one before it perhaps grown.
ReturnNothing ==
  /\ pc = "absent" /\ pc' = "idle"
  /\ result' = 0
  /\ UNCHANGED <<table, call, lower, upper, i>>

\* The new id goes last in symbols and, behind a memmove, at its place in the
\* index.
Inserted(n, id) ==
  [k \in 1..(Size + 1) |-> IF k = n + 1 THEN id
                           ELSE IF k <= n THEN index[k] ELSE index[k - 1]]

Insert ==
  /\ pc = "absent" /\ making /\ pc' = "idle"
  /\ symbols' = Append(symbols, sym)
  /\ index' = Inserted(i, Size + 1)
  /\ result' = Size + 1
  /\ UNCHANGED <<call, lower, upper, i>>

Search == SearchEnds \/ SearchBegins \/ Hit \/ TooGreat \/ TooSmall \/ LoopEnds

Step == Search \/ ReturnFound \/ ReturnNothing \/ Insert

Next == Step \/ \E s \in Symbols, m \in BOOLEAN : Call(s, m)

\* A call runs to its end.
SafeSpec == Init /\ [][Next]_vars
Spec == SafeSpec /\ WF_vars(Step)
-----------------------------------------------------------------------------
(* Properties.                                                             *)

TypeOK ==
  /\ symbols \in Seq(Symbols) /\ index \in Seq(Nat)
  /\ pc \in {"idle", "search", "loop", "found", "absent"}
  /\ making \in BOOLEAN /\ sym \in Symbols \cup {0}
  /\ lower \in Nat /\ upper \in Nat /\ i \in Nat /\ result \in Nat

\* The index lists every id once, in the order of the symbols, so that no
\* symbol ever gets a second id (symap.c:127-172).
IndexSorted ==
  /\ Len(index) = Len(symbols)
  /\ \A k \in 1..Size : index[k] \in 1..Size
  /\ \A id \in 1..Size : \E k \in 1..Size : index[k] = id
  /\ \A j, k \in 1..Size : j < k => symbols[index[j]] < symbols[index[k]]

\* A search that ends without a hit has found the place of the symbol:
\* everything before it is smaller, everything from it on is greater; one
\* that hits points at the symbol (symap.c:71-113).
SearchRight ==
  /\ pc = "found" => i < Size /\ At(i) = sym
  /\ pc = "absent" => /\ i <= Size
                      /\ \A k \in 1..Size : IF k <= i THEN symbols[index[k]] < sym
                                                     ELSE symbols[index[k]] > sym

\* The bounds of the search stay inside the index and between them lies every
\* position the symbol could have.
Bounded ==
  pc = "loop" =>
    /\ lower <= upper + 1 /\ upper < Size
    /\ upper < lower => i = lower
    /\ \A k \in 1..Size : /\ k <= lower => symbols[index[k]] < sym
                          /\ k > upper + 1 => symbols[index[k]] > sym

IInv == /\ TypeOK /\ IndexSorted /\ SearchRight /\ Bounded
        /\ pc # "idle" => sym \in Symbols

\* Every comparison of a search shrinks what is left to search, also at both
\* ends of the index (symap.c:92-109).
SearchShrinks ==
  [][pc = "loop" /\ pc' = "loop" => upper' + 1 - lower' < upper + 1 - lower]_vars

\* The map implements the promise of symap.h.
Table == INSTANCE Interner
           WITH table <- symbols, asked <- IF pc = "idle" THEN 0 ELSE sym,
                answer <- result
ImplementsInterner == Table!Spec
=============================================================================
