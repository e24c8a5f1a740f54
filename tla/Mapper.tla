------------------------------- MODULE Mapper -------------------------------
(***************************************************************************)
(* mapper.c: the symbol table of Symap shared by the threads of the host   *)
(* and of the plugin.  A map or unmap call made through the LV2 features   *)
(* holds the lock and takes the steps of symap.c under it;                 *)
(* jalv_mapper_unmap_uri does not take the lock and can see the writes of  *)
(* symap_map one by one.                                                   *)
(***************************************************************************)
EXTENDS Symap, FiniteSets

CONSTANTS
  Threads,
  Unlocked,  \* threads that call jalv_mapper_unmap_uri
  Garbage,   \* what a read of freed or unwritten memory yields
  MaxCalls   \* bound: calls begun

ASSUME MapperAssumption ==
  /\ Unlocked \subseteq Threads
  /\ Garbage \in Nat \ (Symbols \cup {0}) /\ MaxCalls \in Nat

VARIABLES
  size,      \* map->size
  block,     \* which allocation map->symbols is
  lock,      \* value of mapper->lock
  at,        \* per thread: where its call is
  op, arg,   \* per thread: map or unmap, and the symbol or id it is for
  loaded,    \* per thread: the allocation it read of map->symbols
  returned,  \* per thread: id or symbol its last call returned, 0: none
  known,     \* history, per thread: the ids at the start of its call
  calls      \* calls begun

memory   == <<size, block>>
threads  == <<op, arg, loaded, returned, known, calls>>
mapperVars == <<vars, memory, lock, at, threads>>

MapperInit ==
  /\ Init /\ size = 0 /\ block = 0 /\ lock = 1
  /\ at = [t \in Threads |-> "idle"] /\ op = [t \in Threads |-> "none"]
  /\ arg = [t \in Threads |-> 0]
  /\ loaded = [t \in Threads |-> 0] /\ returned = [t \in Threads |-> 0]
  /\ known = [t \in Threads |-> 0] /\ calls = 0

Go(t, from, to) == at[t] = from /\ at' = [at EXCEPT ![t] = to]

Begin(t, o, a, to) ==
  /\ Go(t, "idle", to) /\ calls < MaxCalls /\ calls' = calls + 1
  /\ op' = [op EXCEPT ![t] = o] /\ arg' = [arg EXCEPT ![t] = a]
  /\ known' = [known EXCEPT ![t] = Len(symbols)]
  /\ UNCHANGED <<vars, memory, lock, loaded, returned>>

Map(t, s) == Begin(t, "map", s, "map_wait")

\* A caller has an id from a map call or passes one of its own.
Unmap(t, id) == Begin(t, "unmap", id, IF t \in Unlocked THEN "test" ELSE "unmap_wait")

LockFree_Ignored == TRUE
LockFree == lock > 0

Lock(t) ==
  /\ LockFree /\ lock' = lock - 1
  /\ Go(t, "map_wait", "map") \/ Go(t, "unmap_wait", "test")
  /\ UNCHANGED <<vars, memory, threads>>

\* A thread leaves the table's function with r, through the unlock if it has
\* the lock.
Return(t, r) ==
  /\ returned' = [returned EXCEPT ![t] = r]
  /\ at' = [at EXCEPT ![t] = IF t \in Unlocked /\ op[t] = "unmap" THEN "idle" ELSE "unlock"]
  /\ UNCHANGED <<op, arg, loaded, known, calls>>

Unlock(t) ==
  /\ Go(t, "unlock", "idle") /\ lock' = lock + 1
  /\ UNCHANGED <<vars, memory, threads>>

\* symap_map.
MapCalls(t) ==
  /\ Go(t, "map", "search") /\ Call(arg[t], TRUE)
  /\ UNCHANGED <<memory, lock, threads>>

MapSearches(t) ==
  /\ at[t] = "search" /\ Search
  /\ UNCHANGED <<memory, lock, at, threads>>

MapFound(t) ==
  /\ at[t] = "search" /\ ReturnFound
  /\ Return(t, result') /\ UNCHANGED <<memory, lock>>

\* realloc leaves the symbols where they are or moves them and frees the old
\* array; the index array is grown next.
GrowSymbols(t) ==
  /\ pc = "absent" /\ Go(t, "search", "grow")
  /\ block' \in {block, block + 1}
  /\ UNCHANGED <<vars, size, lock, threads>>

\* Either array does not grow: the call returns no id.
GrowFails(t) ==
  /\ at[t] \in {"search", "grow"} /\ ReturnNothing
  /\ Return(t, 0) /\ UNCHANGED <<memory, lock>>

SetSize(t) ==
  /\ Go(t, "grow", "store") /\ size' = size + 1
  /\ UNCHANGED <<vars, block, lock, threads>>

\* The symbol and its place in the index, which only a locked call reads.
StoreSymbol(t) ==
  /\ at[t] = "store" /\ Insert
  /\ Return(t, size) /\ UNCHANGED <<memory, lock>>

\* symap_unmap.
UnmapNone_KeepsLock(t) ==
  /\ Go(t, "test", "idle") /\ arg[t] \notin 1..size
  /\ returned' = [returned EXCEPT ![t] = 0]
  /\ UNCHANGED <<vars, memory, lock, op, arg, loaded, known, calls>>
UnmapNone(t) ==
  /\ at[t] = "test" /\ arg[t] \notin 1..size
  /\ Return(t, 0) /\ UNCHANGED <<vars, memory, lock>>

TestSize_OffByOne(t) ==
  /\ Go(t, "test", "load") /\ arg[t] \in 1..(size + 1)
  /\ UNCHANGED <<vars, memory, lock, threads>>
TestSize(t) ==
  /\ Go(t, "test", "load") /\ arg[t] \in 1..size
  /\ UNCHANGED <<vars, memory, lock, threads>>

LoadArray(t) ==
  /\ Go(t, "load", "fetch") /\ loaded' = [loaded EXCEPT ![t] = block]
  /\ UNCHANGED <<vars, memory, lock, op, arg, returned, known, calls>>

Fetch(t) ==
  /\ at[t] = "fetch"
  /\ Return(t, IF loaded[t] = block /\ arg[t] \in DOMAIN symbols
               THEN symbols[arg[t]] ELSE Garbage)
  /\ UNCHANGED <<vars, memory, lock>>

MapStep(t) == \/ MapCalls(t) \/ MapSearches(t) \/ MapFound(t)
              \/ GrowSymbols(t) \/ GrowFails(t) \/ SetSize(t) \/ StoreSymbol(t)
UnmapStep(t) == UnmapNone(t) \/ TestSize(t) \/ LoadArray(t) \/ Fetch(t)
ThreadStep(t) == Lock(t) \/ Unlock(t) \/ MapStep(t) \/ UnmapStep(t)

\* The bounded calls are over.
Over == calls = MaxCalls /\ (\A t \in Threads : at[t] = "idle") /\ UNCHANGED mapperVars

MapperNext == \/ \E t \in Threads : \/ ThreadStep(t)
                                    \/ \E s \in Symbols : Map(t, s)
                                    \/ \E id \in 0..(Cardinality(Symbols) + 1) : Unmap(t, id)
              \/ Over

\* A thread inside a call goes on; nothing makes a thread begin one.
MapperSafeSpec == MapperInit /\ [][MapperNext]_mapperVars
MapperSpec == MapperSafeSpec /\ \A t \in Threads : WF_mapperVars(ThreadStep(t))
-----------------------------------------------------------------------------
(* Properties.  With the lock the table stays what Symap says of one call   *)
(* at a time (IInv, ImplementsInterner).                                   *)

MapperTypeOK ==
  /\ size \in Nat /\ block \in Nat /\ lock \in {0, 1}
  /\ at \in [Threads -> {"idle", "map_wait", "unmap_wait", "map", "search", "grow",
                         "store", "test", "load", "fetch", "unlock"}]
  /\ op \in [Threads -> {"none", "map", "unmap"}]
  /\ arg \in [Threads -> Nat] /\ loaded \in [Threads -> Nat]
  /\ returned \in [Threads -> Nat] /\ known \in [Threads -> Nat] /\ calls \in Nat

Returned(t, o) == at[t] \in {"unlock", "idle"} /\ op[t] = o

\* The id a map call returned names its symbol, from then on and for every
\* thread, also when a call between grew one array and failed on the other.
MapReturnsId ==
  \A t \in Threads : Returned(t, "map") /\ returned[t] # 0 =>
    returned[t] \in DOMAIN symbols /\ symbols[returned[t]] = arg[t]

\* An unmap under the lock returns the symbol of its id, whatever arrays move
\* before and after it, and returns nothing only for an id that was not known
\* when it began (mapper.c:33-43).  Of one without the lock this is not true:
\* it may read an array that was just moved (mapper.c:91).
UnmapReturnsSymbol ==
  \A t \in Threads \ Unlocked : Returned(t, "unmap") =>
    /\ returned[t] # 0 => arg[t] \in DOMAIN symbols /\ returned[t] = symbols[arg[t]]
    /\ arg[t] \in 1..known[t] => returned[t] # 0

\* Both: no answer of the table is ever wrong, whatever went on beside it.
AnswersAreRight == MapReturnsId /\ UnmapReturnsSymbol

\* A thread inside the lock is alone there; the table has a call in progress
\* when a thread is in one, for its symbol; and only a thread between its two
\* writes has the size ahead of the symbols (symap.c:157-159).
InMap(t)  == at[t] \in {"search", "grow", "store"}
Holding(t) == \/ at[t] \in {"map", "unlock"} \/ InMap(t)
              \/ at[t] \in {"test", "load", "fetch"} /\ t \notin Unlocked
Alone == \A t, u \in Threads : Holding(t) /\ Holding(u) => t = u
LockTaken == (lock = 0) <=> \E t \in Threads : Holding(t)
TableBusy == (pc # "idle") <=> \E t \in Threads : InMap(t)
SizeAhead ==
  /\ (\A t \in Threads : at[t] # "store") => size = Len(symbols)
  /\ (\E t \in Threads : at[t] = "store") => size = Len(symbols) + 1
Places ==
  \A t \in Threads :
    /\ InMap(t) => making /\ sym = arg[t]
    /\ at[t] \in {"grow", "store"} => pc = "absent"
    /\ at[t] \in {"map_wait", "map"} \/ InMap(t) => op[t] = "map" /\ arg[t] \in Symbols
    /\ at[t] \in {"unmap_wait", "test", "load", "fetch"} => op[t] = "unmap"
    /\ at[t] = "unmap_wait" => t \notin Unlocked
LockHeldOnce == Alone /\ LockTaken /\ TableBusy /\ SizeAhead /\ Places

\* What a locked unmap has read so far is still so.
UnmapIsCurrent ==
  \A t \in Threads :
    /\ known[t] <= Len(symbols)
    /\ t \notin Unlocked /\ at[t] \in {"load", "fetch"} => arg[t] \in 1..Len(symbols)
    /\ t \notin Unlocked /\ at[t] = "fetch" => loaded[t] = block

MapperInv == /\ IInv /\ MapperTypeOK /\ LockHeldOnce /\ UnmapIsCurrent /\ AnswersAreRight
=============================================================================
