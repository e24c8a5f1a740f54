---------------------------- MODULE MapperProofs ----------------------------
(***************************************************************************)
(* Proofs about the symbol table, for every set of symbols, any number of  *)
(* threads and a table of any size.  First symap.c by itself: every search *)
(* is right and the table implements Interner.  Then mapper.c: its lock    *)
(* makes the threads' calls a behaviour of Symap, one call at a time, so   *)
(* that all of that holds of the shared table; and no answer is wrong.     *)
(***************************************************************************)
EXTENDS Mapper, SequenceTheorems, TLAPS

-----------------------------------------------------------------------------
(* symap.c.                                                                *)

\* What the type invariant says of the two arrays, in the form the steps use.
LEMMA Arrays ==
  ASSUME TypeOK
  PROVE  /\ Size \in Nat /\ Len(symbols) \in Nat
         /\ \A k \in 1..Size : index[k] \in Nat
         /\ \A id \in 1..Len(symbols) : symbols[id] \in Nat /\ symbols[id] # 0
  BY SymapAssumption, ElementOfSeq, LenProperties DEF TypeOK, Size

\* The initial state satisfies the inductive invariant.
LEMMA InitIInv == Init => IInv
<1> SUFFICES ASSUME Init PROVE IInv
  OBVIOUS
<1>1. symbols \in Seq(Symbols) /\ index \in Seq(Nat) /\ Len(symbols) = 0 /\ Len(index) = 0
  BY EmptySeq DEF Init
<1>2. TypeOK
  BY <1>1 DEF Init, TypeOK
<1>3. IndexSorted
  BY <1>1 DEF IndexSorted, Size
<1> QED BY <1>2, <1>3 DEF Init, IInv, SearchRight, Bounded

\* The middle of what is left lies inside it.
LEMMA MiddleInside ==
  ASSUME IInv, Looking
  PROVE  /\ Middle \in Nat /\ lower <= Middle /\ Middle <= upper /\ Middle < Size
         /\ Middle + 1 \in 1..Size /\ At(Middle) \in Nat
         /\ \A k \in 1..Size : /\ k < Middle + 1 => symbols[index[k]] < At(Middle)
                               /\ k > Middle + 1 => symbols[index[k]] > At(Middle)
<1>1. /\ lower \in Nat /\ upper \in Nat /\ lower <= upper /\ upper < Size /\ Size \in Nat
      /\ Size = Len(symbols) /\ \A k \in 1..Size : index[k] \in 1..Size
      /\ \A id \in 1..Size : symbols[id] \in Nat
  BY Arrays DEF IInv, TypeOK, Bounded, Looking, IndexSorted, Size
<1>2. /\ Middle \in Nat /\ lower <= Middle /\ Middle <= upper /\ Middle < Size
      /\ Middle + 1 \in 1..Size
  BY <1>1 DEF Middle
<1>3. At(Middle) \in Nat
  BY <1>1, <1>2 DEF At
<1>4. \A k \in 1..Size : /\ k < Middle + 1 => symbols[index[k]] < At(Middle)
                         /\ k > Middle + 1 => symbols[index[k]] > At(Middle)
  BY <1>1, <1>2 DEF At, IInv, IndexSorted
<1> QED BY <1>2, <1>3, <1>4

\* Every step preserves the invariant.
LEMMA StepIInv == IInv /\ [Next]_vars => IInv'
<1> SUFFICES ASSUME IInv, [Next]_vars PROVE IInv'
  OBVIOUS
<1> USE SymapAssumption
<1>0. TypeOK /\ Size \in Nat /\ IndexSorted
  BY Arrays DEF IInv
<1>s. ASSUME UNCHANGED table PROVE IndexSorted' /\ Size' = Size
  BY <1>s DEF IInv, IndexSorted, Size, table
<1>k. /\ \A k \in 1..Size : index[k] \in 1..Size /\ symbols[index[k]] \in Nat
      /\ Size = Len(symbols)
  <2>1. Size = Len(symbols) /\ \A k \in 1..Size : index[k] \in 1..Size
    BY DEF IInv, IndexSorted, Size
  <2> QED BY <2>1, Arrays DEF IInv
<1>1. ASSUME NEW s \in Symbols, NEW m \in BOOLEAN, Call(s, m) PROVE IInv'
  BY <1>1, <1>s DEF Call, IInv, TypeOK, SearchRight, Bounded, table
<1>2. ASSUME SearchEnds PROVE IInv'
  <2>1. TypeOK' /\ IndexSorted' /\ sym' \in Symbols /\ Size' = Size
    BY <1>2, <1>0, <1>s DEF SearchEnds, IInv, TypeOK, table, call
  <2>2. \A k \in 1..Size : symbols[index[k]] < sym
    <3> TAKE k \in 1..Size
    <3>1. symbols[index[Size]] < sym
      BY <1>2, <1>0 DEF SearchEnds, BehindAll, At
    <3>2. k = Size \/ symbols[index[k]] < symbols[index[Size]]
      BY <1>0 DEF IndexSorted
    <3>3. sym \in Nat
      BY DEF IInv, TypeOK
    <3> QED BY <3>1, <3>2, <3>3, <1>k, <1>0
  <2> QED BY <1>2, <2>1, <2>2, <1>0 DEF SearchEnds, IInv, SearchRight, Bounded, At, table, call
<1>3. ASSUME SearchBegins PROVE IInv'
  <2>1. TypeOK' /\ IndexSorted' /\ sym' \in Symbols /\ Size' = Size
    BY <1>3, <1>0, <1>s DEF SearchBegins, BehindAll, IInv, TypeOK, table, call
  <2> QED BY <1>3, <2>1, <1>0 DEF SearchBegins, BehindAll, IInv, SearchRight, Bounded, table, call
<1>4. ASSUME Hit PROVE IInv'
  <2>1. TypeOK' /\ IndexSorted' /\ sym' \in Symbols /\ Size' = Size
    BY <1>4, <1>0, <1>s, MiddleInside DEF Hit, Looking, IInv, TypeOK, table, call
  <2> QED BY <1>4, <2>1, MiddleInside DEF Hit, IInv, SearchRight, Bounded, At, table, call
<1>5. ASSUME TooGreat PROVE IInv'
  <2>1. TypeOK' /\ IndexSorted' /\ sym' \in Symbols /\ Size' = Size
    BY <1>5, <1>0, <1>s, MiddleInside DEF TooGreat, Looking, IInv, TypeOK, table, call
  <2>2. /\ lower <= Middle /\ Middle <= upper /\ Middle < Size /\ Middle \in Nat
        /\ sym \in Nat /\ lower \in Nat /\ upper \in Nat
    <3>1. TypeOK /\ Looking
      BY <1>5, <1>0 DEF TooGreat
    <3>2. sym \in Nat /\ lower \in Nat /\ upper \in Nat
      BY <3>1 DEF TypeOK
    <3> QED BY <3>1, <3>2, MiddleInside
  <2>3. \A k \in 1..Size : k > Middle => symbols[index[k]] > sym
    <3> TAKE k \in 1..Size
    <3>1. ASSUME k > Middle PROVE k = Middle + 1 \/ k > Middle + 1
      BY <3>1, <2>2
    <3> QED BY <3>1, <1>5, <1>k, <2>2, MiddleInside DEF TooGreat, At
  <2>4. \A k \in 1..Size : k <= lower => symbols[index[k]] < sym
    BY <1>5 DEF TooGreat, Looking, IInv, Bounded
  <2>5. CASE Middle = 0
    <3>1. i' = 0 /\ pc' = "absent" /\ UNCHANGED <<symbols, index, sym>>
      BY <1>5, <2>5 DEF TooGreat, table, call
    <3> QED BY <1>0, <2>1, <2>3, <2>5, <3>1 DEF IInv, SearchRight, Bounded
  <2>6. CASE Middle # 0
    <3>1. /\ i' = Middle /\ upper' = Middle - 1 /\ pc' = "loop"
          /\ UNCHANGED <<symbols, index, sym, lower>>
      BY <1>5, <2>6 DEF TooGreat, Looking, table, call
    <3>2. Bounded'
      BY <1>0, <2>1, <2>2, <2>3, <2>4, <2>6, <3>1 DEF Bounded
    <3> QED BY <2>1, <3>1, <3>2 DEF IInv, SearchRight
  <2> QED BY <2>5, <2>6
<1>6. ASSUME TooSmall PROVE IInv'
  <2>1. TypeOK' /\ IndexSorted' /\ sym' \in Symbols /\ Size' = Size
    BY <1>6, <1>0, <1>s, MiddleInside DEF TooSmall, Looking, IInv, TypeOK, table, call
  <2>2. /\ lower <= Middle /\ Middle <= upper /\ Middle < Size /\ Middle \in Nat
        /\ sym \in Nat /\ lower \in Nat /\ upper \in Nat
    <3>1. TypeOK /\ Looking
      BY <1>6, <1>0 DEF TooSmall
    <3>2. sym \in Nat /\ lower \in Nat /\ upper \in Nat
      BY <3>1 DEF TypeOK
    <3> QED BY <3>1, <3>2, MiddleInside
  <2>3. \A k \in 1..Size : k <= Middle + 1 => symbols[index[k]] < sym
    <3> TAKE k \in 1..Size
    <3>1. ASSUME k <= Middle + 1 PROVE k = Middle + 1 \/ k < Middle + 1
      BY <3>1, <2>2
    <3> QED BY <3>1, <1>6, <1>k, <2>2, MiddleInside DEF TooSmall, At
  <2>4. upper < Size /\ \A k \in 1..Size : k > upper + 1 => symbols[index[k]] > sym
    BY <1>6 DEF TooSmall, Looking, IInv, Bounded
  <2> QED
    BY <1>6, <2>1, <2>2, <2>3, <2>4 DEF TooSmall, Looking, IInv, SearchRight, Bounded, table, call
<1>7. ASSUME LoopEnds PROVE IInv'
  <2>1. TypeOK' /\ IndexSorted' /\ sym' \in Symbols /\ Size' = Size
    BY <1>7, <1>0, <1>s DEF LoopEnds, IInv, TypeOK, table, call
  <2>2. i = lower /\ lower = upper + 1 /\ upper < Size /\ lower \in Nat /\ upper \in Nat
    BY <1>7 DEF LoopEnds, IInv, Bounded, TypeOK
  <2>3. \A k \in 1..Size : IF k <= i THEN symbols[index[k]] < sym ELSE symbols[index[k]] > sym
    BY <1>7, <2>2, <1>0 DEF LoopEnds, IInv, Bounded
  <2>4. pc' = "absent" /\ i' = i /\ UNCHANGED <<symbols, index, sym>>
    BY <1>7 DEF LoopEnds, table, call
  <2>5. SearchRight'
    BY <1>0, <2>1, <2>2, <2>3, <2>4 DEF SearchRight
  <2> QED BY <2>1, <2>4, <2>5 DEF IInv, Bounded
<1>8. ASSUME ReturnFound PROVE IInv'
  <2>1. result' \in Nat
    BY <1>8, <1>0, <1>k DEF ReturnFound, IInv, SearchRight, TypeOK
  <2> QED BY <1>8, <1>0, <1>s, <2>1 DEF ReturnFound, IInv, TypeOK, SearchRight, Bounded, table, call
<1>9. ASSUME ReturnNothing PROVE IInv'
  BY <1>9, <1>0, <1>s DEF ReturnNothing, IInv, TypeOK, SearchRight, Bounded, table, call
<1>10. ASSUME Insert PROVE IInv'
  <2>1. /\ i \in Nat /\ i <= Size /\ sym \in Symbols /\ sym \in Nat
        /\ \A k \in 1..Size : IF k <= i THEN symbols[index[k]] < sym ELSE symbols[index[k]] > sym
    BY <1>10 DEF Insert, IInv, TypeOK, SearchRight
  <2>2. /\ symbols' \in Seq(Symbols) /\ Len(symbols') = Size + 1
        /\ \A id \in 1..Size : symbols'[id] = symbols[id]
        /\ symbols'[Size + 1] = sym
    BY <1>10, <1>k, <2>1, AppendProperties DEF Insert, IInv, TypeOK
  <2>3. /\ index' \in Seq(Nat) /\ Len(index') = Size + 1
        /\ \A k \in 1..i : index'[k] = index[k]
        /\ index'[i + 1] = Size + 1
        /\ \A k \in (i + 2)..(Size + 1) : index'[k] = index[k - 1]
    <3>1. \A k \in 1..(Size + 1) : Inserted(i, Size + 1)[k] \in Nat
      BY <1>0, <1>k, <2>1 DEF Inserted
    <3>2. Inserted(i, Size + 1) \in Seq(Nat) /\ Len(Inserted(i, Size + 1)) = Size + 1
      BY <3>1, <1>0 DEF Inserted
    <3> QED BY <1>10, <1>0, <2>1, <3>2 DEF Insert, Inserted
  <2>4. TypeOK'
    BY <1>10, <1>0, <2>2, <2>3 DEF Insert, TypeOK, call
  <2>5. Size' = Size + 1 /\ Len(index') = Len(symbols')
    BY <2>2, <2>3 DEF Size
  <2>6. \A k \in 1..(Size + 1) : index'[k] \in 1..(Size + 1)
    <3> TAKE k \in 1..(Size + 1)
    <3>1. k \in 1..i \/ k = i + 1 \/ k \in (i + 2)..(Size + 1)
      BY <1>0, <2>1
    <3>2. CASE k \in 1..i
      <4>1. k \in 1..Size /\ index'[k] = index[k]
        BY <3>2, <1>0, <2>1, <2>3
      <4>2. index[k] \in 1..Size
        BY <4>1, <1>k
      <4> QED BY <4>1, <4>2, <1>0
    <3>3. CASE k = i + 1
      BY <3>3, <1>0, <2>3
    <3>4. CASE k \in (i + 2)..(Size + 1)
      <4>1. k - 1 \in 1..Size /\ index'[k] = index[k - 1]
        BY <3>4, <1>0, <2>1, <2>3
      <4>2. index[k - 1] \in 1..Size
        BY <4>1, <1>k
      <4> QED BY <4>1, <4>2, <1>0
    <3> QED BY <3>1, <3>2, <3>3, <3>4
  <2>7. \A id \in 1..(Size + 1) : \E k \in 1..(Size + 1) : index'[k] = id
    <3> TAKE id \in 1..(Size + 1)
    <3>1. CASE id = Size + 1
      BY <3>1, <1>0, <2>1, <2>3
    <3>2. CASE id \in 1..Size
      <4>1. PICK k \in 1..Size : index[k] = id
        BY <3>2 DEF IInv, IndexSorted
      <4>2. CASE k <= i
        BY <4>1, <4>2, <1>0, <2>1, <2>3
      <4>3. CASE k > i
        <5>1. k + 1 \in (i + 2)..(Size + 1) /\ index'[k + 1] = index[k]
          BY <4>3, <1>0, <2>1, <2>3
        <5> QED BY <4>1, <5>1, <1>0, <2>1
      <4> QED BY <4>2, <4>3, <2>1
    <3> QED BY <3>1, <3>2, <1>0
  <2> DEFINE key(k) == symbols[index[k]]
             new(k) == symbols'[index'[k]]
  <2>8. /\ \A k \in 1..i : new(k) = key(k) /\ k \in 1..Size
        /\ new(i + 1) = sym
        /\ \A k \in (i + 2)..(Size + 1) : new(k) = key(k - 1) /\ k - 1 \in 1..Size
    <3>1. ASSUME NEW k \in 1..i PROVE new(k) = key(k) /\ k \in 1..Size
      <4>1. k \in 1..Size
        BY <2>1, <1>0
      <4>2. index'[k] = index[k]
        BY <2>3
      <4>3. index[k] \in 1..Size
        BY <4>1, <1>k
      <4> QED BY <4>1, <4>2, <4>3, <2>2
    <3>2. new(i + 1) = sym
      BY <2>2, <2>3
    <3>3. ASSUME NEW k \in (i + 2)..(Size + 1) PROVE new(k) = key(k - 1) /\ k - 1 \in 1..Size
      <4>1. k - 1 \in 1..Size
        BY <2>1, <1>0
      <4>2. index'[k] = index[k - 1]
        BY <2>3
      <4>3. index[k - 1] \in 1..Size
        BY <4>1, <1>k
      <4> QED BY <4>1, <4>2, <4>3, <2>2
    <3> QED BY <3>1, <3>2, <3>3
  <2>9. \A j, k \in 1..Size : j < k => key(j) < key(k)
    BY <1>0 DEF IndexSorted
  <2>10. \A k \in 1..Size : key(k) \in Nat /\ IF k <= i THEN key(k) < sym ELSE key(k) > sym
    BY <1>k, <2>1
  <2> HIDE DEF key, new
  <2>11. ASSUME NEW j \in 1..(Size + 1), NEW k \in 1..(Size + 1), j < k PROVE new(j) < new(k)
    <3>1. CASE k <= i
      BY <3>1, <2>11, <2>8, <2>9, <1>0, <2>1
    <3>2. CASE k = i + 1
      BY <3>2, <2>11, <2>8, <2>10, <1>0, <2>1
    <3>3. CASE k > i + 1 /\ j <= i
      <4>1. k - 1 \in 1..Size /\ j < k - 1 /\ j \in 1..Size /\ j \in 1..i /\ k \in (i + 2)..(Size + 1)
        BY <3>3, <1>0, <2>1
      <4> QED BY <4>1, <2>8, <2>9
    <3>4. CASE k > i + 1 /\ j = i + 1
      <4>1. k - 1 \in 1..Size /\ ~(k - 1 <= i) /\ k \in (i + 2)..(Size + 1)
        BY <3>4, <1>0, <2>1
      <4> QED BY <4>1, <3>4, <2>8, <2>10
    <3>5. CASE k > i + 1 /\ j > i + 1
      <4>1. /\ k - 1 \in 1..Size /\ j - 1 \in 1..Size /\ j - 1 < k - 1
            /\ j \in (i + 2)..(Size + 1) /\ k \in (i + 2)..(Size + 1)
        BY <3>5, <2>11, <1>0, <2>1
      <4> QED BY <4>1, <2>8, <2>9
    <3> QED BY <3>1, <3>2, <3>3, <3>4, <3>5, <1>0, <2>1
  <2>12. IndexSorted'
    BY <2>5, <2>6, <2>7, <2>11 DEF IndexSorted, new
  <2> QED BY <1>10, <2>4, <2>12 DEF Insert, IInv, SearchRight, Bounded, call
<1>11. ASSUME UNCHANGED vars PROVE IInv'
  <2>1. IndexSorted' /\ Size' = Size /\ TypeOK'
    BY <1>11, <1>0, <1>s DEF vars, TypeOK, table, call
  <2> QED BY <1>11, <2>1 DEF vars, IInv, SearchRight, Bounded, At, table, call
<1> QED
  BY <1>1, <1>2, <1>3, <1>4, <1>5, <1>6, <1>7, <1>8, <1>9, <1>10, <1>11 DEF Next, Step, Search

\* The inductive invariant holds throughout.
THEOREM Inductive == SafeSpec => []IInv
  BY InitIInv, StepIInv, PTL DEF SafeSpec

\* The index stays sorted and lists every id once, however symbols arrive.
THEOREM IndexStaysSorted == SafeSpec => []IndexSorted
<1>1. IInv => IndexSorted
  BY DEF IInv
<1> QED BY <1>1, Inductive, PTL

\* A search finds its symbol or the symbol's place.
THEOREM SearchesAreRight == SafeSpec => []SearchRight
<1>1. IInv => SearchRight
  BY DEF IInv
<1> QED BY <1>1, Inductive, PTL

\* Every comparison shrinks what is left, so that no search runs for ever.
THEOREM SearchesShrink == SafeSpec => SearchShrinks
<1>1. IInv /\ [Next]_vars =>
        [pc = "loop" /\ pc' = "loop" => upper' + 1 - lower' < upper + 1 - lower]_vars
  <2> SUFFICES ASSUME IInv, Next, pc = "loop", pc' = "loop"
               PROVE  upper' + 1 - lower' < upper + 1 - lower
    BY DEF vars
  <2>1. TooGreat \/ TooSmall
    BY DEF Next, Step, Search, Call, SearchEnds, SearchBegins, Hit, LoopEnds, ReturnFound,
           ReturnNothing, Insert
  <2>2. /\ lower <= Middle /\ Middle <= upper /\ Middle \in Nat /\ lower \in Nat /\ upper \in Nat
    BY <2>1, MiddleInside DEF TooGreat, TooSmall, IInv, TypeOK
  <2>3. CASE TooGreat
    BY <2>2, <2>3 DEF TooGreat
  <2>4. CASE TooSmall
    BY <2>2, <2>4 DEF TooSmall
  <2> QED BY <2>1, <2>3, <2>4
<1> QED BY <1>1, Inductive, PTL DEF SafeSpec, SearchShrinks

\* A symbol for which the search found a place has no id.
LEMMA AbsentIsUnknown ==
  ASSUME IInv, pc = "absent"
  PROVE  \A id \in DOMAIN symbols : symbols[id] # sym
<1> TAKE id \in DOMAIN symbols
<1>1. id \in 1..Size
  BY LenProperties DEF IInv, TypeOK, IndexSorted, Size
<1>2. PICK k \in 1..Size : index[k] = id
  BY <1>1 DEF IInv, IndexSorted
<1>3. symbols[id] \in Nat /\ sym \in Nat
  BY <1>1, Arrays, SymapAssumption DEF IInv, TypeOK, IndexSorted, Size
<1> QED BY <1>2, <1>3 DEF IInv, SearchRight

\* Every step is a step of Interner or leaves it as it is.
LEMMA StepInterner == IInv /\ [Next]_vars => [Table!Next]_(Table!vars)
<1> SUFFICES ASSUME IInv, [Next]_vars PROVE [Table!Next]_(Table!vars)
  OBVIOUS
<1>0. pc # "idle" => sym \in Symbols /\ sym # 0
  BY SymapAssumption DEF IInv
<1>1. ASSUME NEW s \in Symbols, NEW m \in BOOLEAN, Call(s, m) PROVE Table!Ask
  BY <1>1, SymapAssumption DEF Call, table, Table!Ask
<1>2. ASSUME SearchEnds \/ SearchBegins \/ Hit \/ LoopEnds PROVE UNCHANGED Table!vars
  BY <1>2 DEF SearchEnds, SearchBegins, Hit, LoopEnds, Looking, table, call, Table!vars
<1>3. ASSUME TooGreat \/ TooSmall PROVE UNCHANGED Table!vars
  <2>1. pc = "loop" /\ pc' # "idle" /\ UNCHANGED <<symbols, making, sym, result>>
    BY <1>3 DEF TooGreat, TooSmall, Looking, table, call
  <2> QED BY <2>1 DEF Table!vars
<1>4. ASSUME ReturnFound PROVE Table!AnswerKnown
  <2>1. i + 1 \in 1..Size /\ symbols[index[i + 1]] = sym
    BY <1>4, Arrays DEF ReturnFound, IInv, TypeOK, SearchRight, At
  <2>2. index[i + 1] \in DOMAIN symbols
    BY <2>1, LenProperties DEF IInv, TypeOK, IndexSorted, Size
  <2> QED BY <1>0, <1>4, <2>1, <2>2 DEF ReturnFound, table, call, Table!AnswerKnown, Table!Known
<1>5. ASSUME ReturnNothing PROVE Table!AnswerNothing
  BY <1>0, <1>5, AbsentIsUnknown DEF ReturnNothing, table, call, Table!AnswerNothing, Table!Known
<1>6. ASSUME Insert PROVE Table!AnswerNew
  <2>1. Size = Len(symbols)
    BY DEF IInv, IndexSorted, Size
  <2> QED BY <1>0, <1>6, <2>1, AbsentIsUnknown DEF Insert, call, Table!AnswerNew, Table!Known
<1>7. ASSUME UNCHANGED vars PROVE UNCHANGED Table!vars
  BY <1>7 DEF vars, table, call, Table!vars
<1> QED BY <1>1, <1>2, <1>3, <1>4, <1>5, <1>6, <1>7 DEF Next, Step, Search, Table!Next

\* The table implements the promise of symap.h: one id for ever for each
\* symbol, whatever is mapped, looked up or refused in between.
THEOREM SymapImplementsInterner == SafeSpec => Table!SafeSpec
<1>1. Init => Table!Init
  BY DEF Init, Table!Init
<1> QED BY <1>1, Inductive, StepInterner, PTL DEF SafeSpec, Table!SafeSpec

-----------------------------------------------------------------------------
(* mapper.c.                                                               *)

\* What the lock does, with the types it needs.
LockInv == IInv /\ MapperTypeOK /\ LockHeldOnce

LEMMA InitLock == MapperInit => LockInv
<1> SUFFICES ASSUME MapperInit PROVE LockInv
  OBVIOUS
<1> USE SymapAssumption, MapperAssumption
<1>1. IInv
  BY InitIInv DEF MapperInit
<1>2. MapperTypeOK
  BY DEF MapperInit, MapperTypeOK
<1>3. Len(symbols) = 0 /\ pc = "idle"
  BY DEF MapperInit, Init
<1>4. LockHeldOnce
  BY <1>3 DEF MapperInit, LockHeldOnce, Alone, LockTaken, TableBusy, SizeAhead, Places, Holding, InMap
<1> QED BY <1>1, <1>2, <1>4 DEF LockInv

\* Every step of a thread is a step of Symap or leaves the table alone.
LEMMA StepIsSymaps == LockInv /\ [MapperNext]_mapperVars => [Next]_vars
<1> SUFFICES ASSUME LockInv, [MapperNext]_mapperVars PROVE [Next]_vars
  OBVIOUS
<1>1. ASSUME NEW t \in Threads, MapCalls(t) PROVE Next
  <2>1. arg[t] \in Symbols
    BY <1>1 DEF MapCalls, Go, LockInv, LockHeldOnce, Places
  <2> QED BY <1>1, <2>1 DEF MapCalls, Next
<1>2. ASSUME NEW t \in Threads, MapSearches(t) \/ MapFound(t) \/ GrowFails(t) \/ StoreSymbol(t)
      PROVE  Next
  BY <1>2 DEF MapSearches, MapFound, GrowFails, StoreSymbol, Next, Step
<1>3. ASSUME NEW t \in Threads, GrowSymbols(t) \/ SetSize(t) \/ Lock(t) \/ Unlock(t) \/ UnmapStep(t)
      PROVE  UNCHANGED vars
  BY <1>3 DEF GrowSymbols, SetSize, Lock, Unlock, UnmapStep, UnmapNone, TestSize, LoadArray, Fetch
<1>4. ASSUME NEW t \in Threads, NEW s, Map(t, s) \/ Unmap(t, s) PROVE UNCHANGED vars
  BY <1>4 DEF Map, Unmap, Begin
<1>5. ASSUME Over \/ UNCHANGED mapperVars PROVE UNCHANGED vars
  BY <1>5 DEF Over, mapperVars
<1> QED BY <1>1, <1>2, <1>3, <1>4, <1>5 DEF MapperNext, ThreadStep, MapStep

\* One thread at a time is between lock and unlock.
LEMMA StepLock == LockInv /\ [MapperNext]_mapperVars => LockInv'
<1> SUFFICES ASSUME LockInv, [MapperNext]_mapperVars PROVE LockInv'
  OBVIOUS
<1> USE SymapAssumption, MapperAssumption
<1>1. IInv'
  BY StepIsSymaps, StepIInv DEF LockInv
<1>2. /\ MapperTypeOK /\ LockHeldOnce /\ Len(symbols) \in Nat
      /\ result \in Nat /\ result' \in Nat
      /\ \A n \in DOMAIN symbols : symbols[n] \in Nat
  <2>1. TypeOK /\ TypeOK' /\ MapperTypeOK /\ LockHeldOnce
    BY <1>1 DEF LockInv, IInv
  <2>2. symbols \in Seq(Symbols) /\ result \in Nat /\ result' \in Nat
    BY <2>1 DEF TypeOK
  <2>3. Len(symbols) \in Nat /\ DOMAIN symbols = 1..Len(symbols)
    BY <2>2, LenProperties
  <2>4. \A n \in 1..Len(symbols) : symbols[n] \in Symbols
    BY <2>2, ElementOfSeq
  <2> QED BY <2>1, <2>2, <2>3, <2>4
<1>3. ASSUME NEW t \in Threads, NEW s \in Symbols, Map(t, s) PROVE LockInv'
  <2>1. MapperTypeOK'
    BY <1>2, <1>3 DEF Map, Begin, Go, MapperTypeOK, memory
  <2>2. LockHeldOnce'
    <3>1. Alone'
      BY <1>2, <1>3 DEF LockHeldOnce, Alone, LockTaken, Map, Begin, Go, MapperTypeOK, Holding,
         InMap, memory
    <3>2. LockTaken'
      BY <1>2, <1>3 DEF LockHeldOnce, Alone, LockTaken, Map, Begin, Go, MapperTypeOK, Holding,
         InMap, memory
    <3>3. TableBusy'
      BY <1>2, <1>3 DEF LockHeldOnce, Alone, TableBusy, Places, Map, Begin, Go, MapperTypeOK,
         Holding, InMap, memory, vars, table, call
    <3>4. SizeAhead'
      BY <1>2, <1>3 DEF LockHeldOnce, Alone, SizeAhead, Map, Begin, Go, MapperTypeOK, Holding,
         InMap, memory, vars, table
    <3>5. Places'
      BY <1>2, <1>3 DEF LockHeldOnce, Alone, TableBusy, Places, Map, Begin, Go, MapperTypeOK,
         Holding, InMap, memory, vars, table, call
    <3> QED BY <3>1, <3>2, <3>3, <3>4, <3>5 DEF LockHeldOnce
  <2> QED BY <1>1, <2>1, <2>2 DEF LockInv
<1>4. ASSUME NEW t \in Threads, NEW n \in Nat, Unmap(t, n) PROVE LockInv'
  <2>1. MapperTypeOK'
    BY <1>2, <1>4 DEF Unmap, Begin, Go, MapperTypeOK, memory
  <2>2. LockHeldOnce'
    <3>1. Alone'
      BY <1>2, <1>4 DEF LockHeldOnce, Alone, LockTaken, Unmap, Begin, Go, MapperTypeOK,
         Holding, InMap, memory
    <3>2. LockTaken'
      BY <1>2, <1>4 DEF LockHeldOnce, Alone, LockTaken, Unmap, Begin, Go, MapperTypeOK,
         Holding, InMap, memory
    <3>3. TableBusy'
      BY <1>2, <1>4 DEF LockHeldOnce, Alone, TableBusy, Places, Unmap, Begin, Go, MapperTypeOK,
         Holding, InMap, memory, vars, table, call
    <3>4. SizeAhead'
      BY <1>2, <1>4 DEF LockHeldOnce, Alone, SizeAhead, Unmap, Begin, Go, MapperTypeOK,
         Holding, InMap, memory, vars, table
    <3>5. Places'
      BY <1>2, <1>4 DEF LockHeldOnce, Alone, TableBusy, Places, Unmap, Begin, Go, MapperTypeOK,
         Holding, InMap, memory, vars, table, call
    <3> QED BY <3>1, <3>2, <3>3, <3>4, <3>5 DEF LockHeldOnce
  <2> QED BY <1>1, <2>1, <2>2 DEF LockInv
<1>5. ASSUME NEW t \in Threads, Lock(t) PROVE LockInv'
  <2>0. /\ lock = 1 /\ lock' = 0 /\ UNCHANGED <<vars, memory, threads>>
        /\ \/ at[t] = "map_wait" /\ at' = [at EXCEPT ![t] = "map"]
           \/ at[t] = "unmap_wait" /\ at' = [at EXCEPT ![t] = "test"]
    BY <1>2, <1>5 DEF Lock, LockFree, Go, MapperTypeOK
  <2>1. MapperTypeOK'
    BY <1>2, <2>0 DEF MapperTypeOK, memory, threads
  <2>2. LockHeldOnce'
    <3>0. /\ \A u \in Threads : ~Holding(u)
          /\ \A u \in Threads \ {t} : at'[u] = at[u]
          /\ at'[t] \in {"map", "test"} /\ (at'[t] = "test" => t \notin Unlocked)
          /\ (at'[t] = "test" => at[t] = "unmap_wait") /\ (at'[t] = "map" => at[t] = "map_wait")
      BY <1>2, <2>0 DEF LockHeldOnce, LockTaken, Places, MapperTypeOK
    <3>1. Alone'
      BY <1>2, <2>0, <3>0 DEF Alone, LockTaken, Holding, InMap, MapperTypeOK, LockHeldOnce,
         memory, threads
    <3>2. LockTaken'
      BY <1>2, <2>0, <3>0 DEF Alone, LockTaken, Holding, InMap, MapperTypeOK, LockHeldOnce,
         memory, threads
    <3>3. TableBusy'
      BY <1>2, <2>0, <3>0 DEF Alone, TableBusy, Places, Holding, InMap, MapperTypeOK,
         LockHeldOnce, memory, threads, vars, table, call
    <3>4. SizeAhead'
      BY <1>2, <2>0, <3>0 DEF Alone, SizeAhead, Holding, InMap, MapperTypeOK, LockHeldOnce,
         memory, threads, vars, table
    <3>5. Places'
      BY <1>2, <2>0, <3>0 DEF Alone, TableBusy, Places, Holding, InMap, MapperTypeOK,
         LockHeldOnce, memory, threads, vars, table, call
    <3> QED BY <3>1, <3>2, <3>3, <3>4, <3>5 DEF LockHeldOnce
  <2> QED BY <1>1, <2>1, <2>2 DEF LockInv
<1>6. ASSUME NEW t \in Threads, Unlock(t) PROVE LockInv'
  <2>1. MapperTypeOK'
    BY <1>2, <1>6 DEF Unlock, Go, MapperTypeOK, LockHeldOnce, LockTaken, Holding, memory, threads
  <2>2. LockHeldOnce'
    <3>1. Alone'
      BY <1>2, <1>6 DEF LockHeldOnce, Alone, LockTaken, Unlock, Go, MapperTypeOK, Holding,
         InMap, memory, threads
    <3>2. LockTaken'
      BY <1>2, <1>6 DEF LockHeldOnce, Alone, LockTaken, Unlock, Go, MapperTypeOK, Holding,
         InMap, memory, threads
    <3>3. TableBusy'
      BY <1>2, <1>6 DEF LockHeldOnce, Alone, TableBusy, Places, Unlock, Go, MapperTypeOK,
         Holding, InMap, memory, threads, vars, table, call
    <3>4. SizeAhead'
      BY <1>2, <1>6 DEF LockHeldOnce, Alone, SizeAhead, Unlock, Go, MapperTypeOK, Holding,
         InMap, memory, threads, vars, table
    <3>5. Places'
      BY <1>2, <1>6 DEF LockHeldOnce, Alone, TableBusy, Places, Unlock, Go, MapperTypeOK,
         Holding, InMap, memory, threads, vars, table, call
    <3> QED BY <3>1, <3>2, <3>3, <3>4, <3>5 DEF LockHeldOnce
  <2> QED BY <1>1, <2>1, <2>2 DEF LockInv
<1>7. ASSUME NEW t \in Threads, MapCalls(t) PROVE LockInv'
  <2>1. MapperTypeOK'
    BY <1>2, <1>7 DEF MapCalls, Go, MapperTypeOK, memory, threads
  <2>2. LockHeldOnce'
    <3>1. Alone'
      BY <1>2, <1>7 DEF LockHeldOnce, Alone, LockTaken, MapCalls, Call, Go, MapperTypeOK,
         Holding, InMap, memory, threads
    <3>2. LockTaken'
      BY <1>2, <1>7 DEF LockHeldOnce, Alone, LockTaken, MapCalls, Call, Go, MapperTypeOK,
         Holding, InMap, memory, threads
    <3>3. TableBusy'
      BY <1>2, <1>7 DEF LockHeldOnce, Alone, TableBusy, Places, MapCalls, Call, Go,
         MapperTypeOK, Holding, InMap, memory, threads, table
    <3>4. SizeAhead'
      BY <1>2, <1>7 DEF LockHeldOnce, Alone, SizeAhead, MapCalls, Call, Go, MapperTypeOK,
         Holding, InMap, memory, threads, table
    <3>5. Places'
      BY <1>2, <1>7 DEF LockHeldOnce, Alone, TableBusy, Places, MapCalls, Call, Go,
         MapperTypeOK, Holding, InMap, memory, threads, table
    <3> QED BY <3>1, <3>2, <3>3, <3>4, <3>5 DEF LockHeldOnce
  <2> QED BY <1>1, <2>1, <2>2 DEF LockInv
<1>8. ASSUME NEW t \in Threads, MapSearches(t) PROVE LockInv'
  <2>0. pc' # "idle" /\ pc # "absent" /\ pc # "idle" /\ UNCHANGED <<table, call>>
    BY <1>8 DEF MapSearches, Search, SearchEnds, SearchBegins, Hit, TooGreat, TooSmall, LoopEnds, Looking
  <2>1. MapperTypeOK'
    BY <1>2, <1>8 DEF MapSearches, MapperTypeOK, memory, threads
  <2>2. LockHeldOnce'
    <3>1. Alone'
      BY <1>2, <1>8, <2>0 DEF LockHeldOnce, Alone, LockTaken, MapSearches, MapperTypeOK,
         Holding, InMap, memory, threads
    <3>2. LockTaken'
      BY <1>2, <1>8, <2>0 DEF LockHeldOnce, Alone, LockTaken, MapSearches, MapperTypeOK,
         Holding, InMap, memory, threads
    <3>3. TableBusy'
      BY <1>2, <1>8, <2>0 DEF LockHeldOnce, Alone, TableBusy, Places, MapSearches,
         MapperTypeOK, Holding, InMap, memory, threads, table, call
    <3>4. SizeAhead'
      BY <1>2, <1>8, <2>0 DEF LockHeldOnce, Alone, SizeAhead, MapSearches, MapperTypeOK,
         Holding, InMap, memory, threads, table
    <3>5. Places'
      BY <1>2, <1>8, <2>0 DEF LockHeldOnce, Alone, TableBusy, Places, MapSearches,
         MapperTypeOK, Holding, InMap, memory, threads, table, call
    <3> QED BY <3>1, <3>2, <3>3, <3>4, <3>5 DEF LockHeldOnce
  <2> QED BY <1>1, <2>1, <2>2 DEF LockInv
<1>9. ASSUME NEW t \in Threads, MapFound(t) \/ GrowFails(t) PROVE LockInv'
  <2>0. /\ pc' = "idle" /\ UNCHANGED <<table, call, memory, lock>> /\ at[t] \in {"search", "grow"}
        /\ \E r \in Nat : Return(t, r)
    BY <1>2, <1>9 DEF MapFound, GrowFails, ReturnFound, ReturnNothing
  <2>1. at' = [at EXCEPT ![t] = "unlock"] /\ op[t] = "map"
    BY <1>2, <2>0 DEF Return, LockHeldOnce, Places, InMap
  <2>2. MapperTypeOK'
    BY <1>2, <2>0, <2>1 DEF Return, MapperTypeOK, memory
  <2>3. LockHeldOnce'
    <3>1. Alone'
      BY <1>2, <2>0, <2>1 DEF LockHeldOnce, Alone, LockTaken, Return, MapperTypeOK, Holding,
         InMap, memory
    <3>2. LockTaken'
      BY <1>2, <2>0, <2>1 DEF LockHeldOnce, Alone, LockTaken, Return, MapperTypeOK, Holding,
         InMap, memory
    <3>3. TableBusy'
      BY <1>2, <2>0, <2>1 DEF LockHeldOnce, Alone, TableBusy, Places, Return, MapperTypeOK,
         Holding, InMap, memory, table, call
    <3>4. SizeAhead'
      BY <1>2, <2>0, <2>1 DEF LockHeldOnce, Alone, SizeAhead, Return, MapperTypeOK, Holding,
         InMap, memory, table
    <3>5. Places'
      BY <1>2, <2>0, <2>1 DEF LockHeldOnce, Alone, TableBusy, Places, Return, MapperTypeOK,
         Holding, InMap, memory, table, call
    <3> QED BY <3>1, <3>2, <3>3, <3>4, <3>5 DEF LockHeldOnce
  <2> QED BY <1>1, <2>2, <2>3 DEF LockInv
<1>10. ASSUME NEW t \in Threads, GrowSymbols(t) PROVE LockInv'
  <2>1. MapperTypeOK'
    BY <1>2, <1>10 DEF GrowSymbols, Go, MapperTypeOK, threads
  <2>2. LockHeldOnce'
    <3>1. Alone'
      BY <1>2, <1>10 DEF LockHeldOnce, Alone, LockTaken, GrowSymbols, Go, MapperTypeOK,
         Holding, InMap, threads
    <3>2. LockTaken'
      BY <1>2, <1>10 DEF LockHeldOnce, Alone, LockTaken, GrowSymbols, Go, MapperTypeOK,
         Holding, InMap, threads
    <3>3. TableBusy'
      BY <1>2, <1>10 DEF LockHeldOnce, Alone, TableBusy, Places, GrowSymbols, Go, MapperTypeOK,
         Holding, InMap, threads, vars, table, call
    <3>4. SizeAhead'
      BY <1>2, <1>10 DEF LockHeldOnce, Alone, SizeAhead, GrowSymbols, Go, MapperTypeOK,
         Holding, InMap, threads, vars, table
    <3>5. Places'
      BY <1>2, <1>10 DEF LockHeldOnce, Alone, TableBusy, Places, GrowSymbols, Go, MapperTypeOK,
         Holding, InMap, threads, vars, table, call
    <3> QED BY <3>1, <3>2, <3>3, <3>4, <3>5 DEF LockHeldOnce
  <2> QED BY <1>1, <2>1, <2>2 DEF LockInv
<1>11. ASSUME NEW t \in Threads, SetSize(t) PROVE LockInv'
  <2>1. MapperTypeOK'
    BY <1>2, <1>11 DEF SetSize, Go, MapperTypeOK, threads
  <2>2. LockHeldOnce'
    <3>1. Alone'
      BY <1>2, <1>11 DEF LockHeldOnce, Alone, LockTaken, SetSize, Go, MapperTypeOK, Holding,
         InMap, threads
    <3>2. LockTaken'
      BY <1>2, <1>11 DEF LockHeldOnce, Alone, LockTaken, SetSize, Go, MapperTypeOK, Holding,
         InMap, threads
    <3>3. TableBusy'
      BY <1>2, <1>11 DEF LockHeldOnce, Alone, TableBusy, Places, SetSize, Go, MapperTypeOK,
         Holding, InMap, threads, vars, table, call
    <3>4. SizeAhead'
      BY <1>2, <1>11 DEF LockHeldOnce, Alone, SizeAhead, SetSize, Go, MapperTypeOK, Holding,
         InMap, threads, vars, table
    <3>5. Places'
      BY <1>2, <1>11 DEF LockHeldOnce, Alone, TableBusy, Places, SetSize, Go, MapperTypeOK,
         Holding, InMap, threads, vars, table, call
    <3> QED BY <3>1, <3>2, <3>3, <3>4, <3>5 DEF LockHeldOnce
  <2> QED BY <1>1, <2>1, <2>2 DEF LockInv
<1>12. ASSUME NEW t \in Threads, StoreSymbol(t) PROVE LockInv'
  <2>0. /\ pc' = "idle" /\ UNCHANGED <<call, memory, lock>> /\ at[t] = "store"
        /\ Return(t, size) /\ symbols' = Append(symbols, sym)
    BY <1>2, <1>12 DEF StoreSymbol, Insert
  <2>1. at' = [at EXCEPT ![t] = "unlock"] /\ op[t] = "map"
    BY <1>2, <2>0 DEF Return, LockHeldOnce, Places, InMap
  <2>2. Len(symbols') = Len(symbols) + 1
    BY <2>0, AppendProperties, <1>1 DEF LockInv, IInv, TypeOK, StoreSymbol
  <2>3. MapperTypeOK'
    BY <1>2, <2>0, <2>1 DEF Return, MapperTypeOK, memory
  <2>4. LockHeldOnce'
    <3>1. Alone'
      BY <1>2, <2>0, <2>1 DEF LockHeldOnce, Alone, Holding, InMap, MapperTypeOK
    <3>2. LockTaken'
      BY <1>2, <2>0, <2>1, <2>2 DEF LockHeldOnce, Alone, LockTaken, Return, MapperTypeOK,
         Holding, InMap, memory
    <3>3. TableBusy'
      BY <1>2, <2>0, <2>1, <2>2 DEF LockHeldOnce, Alone, TableBusy, Places, Return,
         MapperTypeOK, Holding, InMap, memory, call
    <3>4. SizeAhead'
      BY <1>2, <2>0, <2>1, <2>2 DEF LockHeldOnce, Alone, SizeAhead, Return, MapperTypeOK,
         Holding, InMap, memory
    <3>5. Places'
      BY <1>2, <2>0, <2>1, <2>2 DEF LockHeldOnce, Alone, TableBusy, Places, Return,
         MapperTypeOK, Holding, InMap, memory, call
    <3> QED BY <3>1, <3>2, <3>3, <3>4, <3>5 DEF LockHeldOnce
  <2> QED BY <1>1, <2>3, <2>4 DEF LockInv
<1>13. ASSUME NEW t \in Threads, UnmapNone(t) \/ Fetch(t) PROVE LockInv'
  <2>0. /\ UNCHANGED <<vars, memory, lock>> /\ at[t] \in {"test", "fetch"}
        /\ \E r \in Nat : Return(t, r)
    BY <1>2, <1>13 DEF UnmapNone, Fetch
  <2>1. op[t] = "unmap" /\ at' = [at EXCEPT ![t] = IF t \in Unlocked THEN "idle" ELSE "unlock"]
    BY <1>2, <2>0 DEF Return, LockHeldOnce, Places
  <2>2. MapperTypeOK'
    BY <1>2, <2>0, <2>1 DEF Return, MapperTypeOK, memory
  <2>3. LockHeldOnce'
    <3>0. /\ \A u \in Threads \ {t} : at'[u] = at[u]
          /\ at'[t] \in {"idle", "unlock"} /\ (at'[t] = "unlock" => t \notin Unlocked)
          /\ (t \notin Unlocked => at'[t] = "unlock") /\ UNCHANGED <<op, arg>>
      BY <1>2, <2>0, <2>1 DEF MapperTypeOK, Return
    <3>1. Alone'
      BY <1>2, <2>0, <3>0 DEF Alone, LockTaken, Holding, InMap, MapperTypeOK, LockHeldOnce, memory
    <3>2. LockTaken'
      BY <1>2, <2>0, <3>0 DEF Alone, LockTaken, Holding, InMap, MapperTypeOK, LockHeldOnce, memory
    <3>3. TableBusy'
      BY <1>2, <2>0, <3>0 DEF Alone, TableBusy, Places, Holding, InMap, MapperTypeOK,
         LockHeldOnce, memory, vars, table, call
    <3>4. SizeAhead'
      BY <1>2, <2>0, <3>0 DEF Alone, SizeAhead, Holding, InMap, MapperTypeOK, LockHeldOnce,
         memory, vars, table
    <3>5. Places'
      BY <1>2, <2>0, <3>0 DEF Alone, TableBusy, Places, Holding, InMap, MapperTypeOK,
         LockHeldOnce, memory, vars, table, call
    <3> QED BY <3>1, <3>2, <3>3, <3>4, <3>5 DEF LockHeldOnce
  <2> QED BY <1>1, <2>2, <2>3 DEF LockInv
<1>14. ASSUME NEW t \in Threads, TestSize(t) \/ LoadArray(t) PROVE LockInv'
  <2>0. /\ UNCHANGED <<vars, memory, lock, op, arg>> /\ at[t] \in {"test", "load"}
        /\ at'[t] \in {"load", "fetch"} /\ \A u \in Threads \ {t} : at'[u] = at[u]
    BY <1>2, <1>14 DEF TestSize, LoadArray, Go, MapperTypeOK, threads
  <2>1. MapperTypeOK'
    <3>1. CASE TestSize(t)
      BY <1>2, <3>1 DEF TestSize, Go, MapperTypeOK, memory, threads
    <3>2. CASE LoadArray(t)
      BY <1>2, <3>2 DEF LoadArray, Go, MapperTypeOK, memory
    <3> QED BY <1>14, <3>1, <3>2
  <2>2. LockHeldOnce'
    <3>1. Alone'
      BY <1>2, <2>0 DEF Alone, LockTaken, Holding, InMap, MapperTypeOK, LockHeldOnce, memory
    <3>2. LockTaken'
      BY <1>2, <2>0 DEF Alone, LockTaken, Holding, InMap, MapperTypeOK, LockHeldOnce, memory
    <3>3. TableBusy'
      BY <1>2, <2>0 DEF Alone, TableBusy, Places, Holding, InMap, MapperTypeOK, LockHeldOnce,
         memory, vars, table, call
    <3>4. SizeAhead'
      <4>1. /\ \A u \in Threads : at'[u] = "store" <=> at[u] = "store"
            /\ size' = size /\ symbols' = symbols
        BY <2>0 DEF memory, vars, table
      <4> QED BY <1>2, <4>1 DEF LockHeldOnce, SizeAhead
    <3>5. Places'
      BY <1>2, <2>0 DEF Alone, TableBusy, Places, Holding, InMap, MapperTypeOK, LockHeldOnce,
         memory, vars, table, call
    <3> QED BY <3>1, <3>2, <3>3, <3>4, <3>5 DEF LockHeldOnce
  <2> QED BY <1>1, <2>1, <2>2 DEF LockInv
<1>15. ASSUME Over \/ UNCHANGED mapperVars PROVE LockInv'
  <2>1. MapperTypeOK'
    BY <1>2, <1>15 DEF Over, mapperVars, MapperTypeOK, memory, threads
  <2>2. LockHeldOnce'
    <3>1. Alone'
      BY <1>2, <1>15 DEF LockHeldOnce, Alone, LockTaken, Over, mapperVars, Holding, InMap,
         memory, threads
    <3>2. LockTaken'
      BY <1>2, <1>15 DEF LockHeldOnce, Alone, LockTaken, Over, mapperVars, Holding, InMap,
         memory, threads
    <3>3. TableBusy'
      BY <1>2, <1>15 DEF LockHeldOnce, Alone, TableBusy, Places, Over, mapperVars, Holding,
         InMap, memory, threads, vars, table, call
    <3>4. SizeAhead'
      BY <1>2, <1>15 DEF LockHeldOnce, Alone, SizeAhead, Over, mapperVars, Holding, InMap,
         memory, threads, vars, table
    <3>5. Places'
      BY <1>2, <1>15 DEF LockHeldOnce, Alone, TableBusy, Places, Over, mapperVars, Holding,
         InMap, memory, threads, vars, table, call
    <3> QED BY <3>1, <3>2, <3>3, <3>4, <3>5 DEF LockHeldOnce
  <2> QED BY <1>1, <2>1, <2>2 DEF LockInv
<1> QED BY <1>3, <1>4, <1>5, <1>6, <1>7, <1>8, <1>9, <1>10, <1>11, <1>12, <1>13, <1>14, <1>15
        DEF MapperNext, ThreadStep, MapStep, UnmapStep

THEOREM LockIsHeldOnce == MapperSafeSpec => [](MapperTypeOK /\ LockHeldOnce)
<1>1. LockInv => MapperTypeOK /\ LockHeldOnce
  BY DEF LockInv
<1> QED BY <1>1, InitLock, StepLock, PTL DEF MapperSafeSpec

\* What the threads do to the table is a behaviour of Symap ...
THEOREM MapperIsSymap == MapperSafeSpec => SafeSpec
<1>1. MapperInit => Init
  BY DEF MapperInit
<1> QED BY <1>1, InitLock, StepLock, StepIsSymaps, PTL DEF MapperSafeSpec, SafeSpec

\* ... so that the shared table keeps the promise of symap.h.
THEOREM SharedTableIsInterner == MapperSafeSpec => Table!SafeSpec
  BY MapperIsSymap, SymapImplementsInterner, PTL

\* Symbols keep their ids.
LEMMA SymbolsStay ==
  ASSUME LockInv, LockInv', [MapperNext]_mapperVars
  PROVE  /\ Len(symbols) \in Nat /\ Len(symbols') \in Nat /\ Len(symbols) <= Len(symbols')
         /\ DOMAIN symbols = 1..Len(symbols) /\ DOMAIN symbols' = 1..Len(symbols')
         /\ \A n \in 1..Len(symbols) : symbols'[n] = symbols[n] /\ symbols[n] \in Symbols
<1>1. symbols \in Seq(Symbols) /\ symbols' \in Seq(Symbols)
  BY DEF LockInv, IInv, TypeOK
<1>2. /\ Len(symbols) \in Nat /\ Len(symbols') \in Nat
      /\ DOMAIN symbols = 1..Len(symbols) /\ DOMAIN symbols' = 1..Len(symbols')
      /\ \A n \in 1..Len(symbols) : symbols[n] \in Symbols
  BY <1>1, LenProperties, ElementOfSeq
<1>3. CASE symbols' = symbols
  BY <1>2, <1>3
<1>4. CASE symbols' # symbols
  <2>1. Insert
    BY <1>4, StepIsSymaps DEF Next, Step, Search, Call, SearchEnds, SearchBegins, Hit, TooGreat,
                              TooSmall, LoopEnds, ReturnFound, ReturnNothing, vars, table
  <2>2. symbols' = Append(symbols, sym) /\ sym \in Symbols
    BY <2>1 DEF Insert, LockInv, IInv
  <2>3. /\ Len(symbols') = Len(symbols) + 1
        /\ \A n \in 1..Len(symbols) : symbols'[n] = symbols[n]
    BY <2>2, <1>1, AppendProperties
  <2> QED BY <1>2, <2>3
<1> QED BY <1>3, <1>4

\* A call that finds or makes an id returns that of its symbol.
LEMMA IdOfSymbol ==
  ASSUME LockInv, LockInv', NEW t \in Threads, MapFound(t) \/ StoreSymbol(t)
  PROVE  /\ returned'[t] \in 1..Len(symbols') /\ symbols'[returned'[t]] = arg[t]
         /\ \A u \in Threads \ {t} : returned'[u] = returned[u]
<1>0. IInv /\ MapperTypeOK /\ LockHeldOnce /\ TypeOK /\ symbols \in Seq(Symbols)
  BY DEF LockInv, IInv, TypeOK
<1>1. CASE MapFound(t)
  <2>1. /\ returned' = [returned EXCEPT ![t] = index[i + 1]] /\ symbols' = symbols /\ pc = "found"
        /\ at[t] = "search"
    BY <1>1 DEF MapFound, ReturnFound, Return, table
  <2>2. i \in Nat /\ i < Size /\ At(i) = sym /\ sym = arg[t]
    BY <1>0, <2>1 DEF IInv, SearchRight, TypeOK, LockHeldOnce, Places, InMap
  <2>3. Size \in Nat /\ index[i + 1] \in 1..Len(symbols)
    BY <1>0, <2>2, Arrays DEF IInv, IndexSorted, Size
  <2> QED BY <1>0, <2>1, <2>2, <2>3 DEF At, MapperTypeOK
<1>2. CASE StoreSymbol(t)
  <2>1. /\ returned' = [returned EXCEPT ![t] = size] /\ symbols' = Append(symbols, sym)
        /\ at[t] = "store"
    BY <1>2 DEF StoreSymbol, Insert, Return
  <2>2. size = Len(symbols) + 1 /\ sym = arg[t] /\ sym \in Symbols
    BY <1>0, <2>1 DEF LockHeldOnce, SizeAhead, Places, InMap
  <2>3. Len(symbols') = Len(symbols) + 1 /\ symbols'[Len(symbols) + 1] = sym /\ Len(symbols) \in Nat
    BY <1>0, <2>1, <2>2, AppendProperties, LenProperties
  <2> QED BY <1>0, <2>1, <2>2, <2>3 DEF MapperTypeOK
<1> QED BY <1>1, <1>2

\* What a thread knows stays true whatever the others do.
LEMMA StepAnswers ==
  LockInv /\ LockInv' /\ UnmapIsCurrent /\ AnswersAreRight /\ [MapperNext]_mapperVars
    => UnmapIsCurrent' /\ AnswersAreRight'
<1> SUFFICES ASSUME LockInv, LockInv', UnmapIsCurrent, AnswersAreRight, [MapperNext]_mapperVars
             PROVE  UnmapIsCurrent' /\ AnswersAreRight'
  OBVIOUS
<1> USE SymapAssumption, MapperAssumption
<1>1. MapperTypeOK /\ LockHeldOnce /\ MapperTypeOK'
  BY DEF LockInv
<1>2. /\ Len(symbols) \in Nat /\ Len(symbols') \in Nat /\ Len(symbols) <= Len(symbols')
      /\ DOMAIN symbols = 1..Len(symbols) /\ DOMAIN symbols' = 1..Len(symbols')
      /\ \A n \in 1..Len(symbols) : symbols'[n] = symbols[n] /\ symbols[n] \in Symbols
  BY SymbolsStay
<1> DEFINE Known(t) == /\ known[t] <= Len(symbols)
                       /\ t \notin Unlocked /\ at[t] \in {"load", "fetch"} => arg[t] \in 1..Len(symbols)
                       /\ t \notin Unlocked /\ at[t] = "fetch" => loaded[t] = block
           Mapped(t) == Returned(t, "map") /\ returned[t] # 0 =>
                          returned[t] \in DOMAIN symbols /\ symbols[returned[t]] = arg[t]
           Unmapped(t) == t \notin Unlocked /\ Returned(t, "unmap") =>
                            /\ returned[t] # 0 => arg[t] \in DOMAIN symbols /\ returned[t] = symbols[arg[t]]
                            /\ arg[t] \in 1..known[t] => returned[t] # 0
           Good(t) == Known(t) /\ Mapped(t) /\ Unmapped(t)
<1>3. \A t \in Threads : Good(t)
  BY DEF UnmapIsCurrent, AnswersAreRight, MapReturnsId, UnmapReturnsSymbol
<1>4. SUFFICES \A u \in Threads : Good(u)'
  BY <1>1 DEF UnmapIsCurrent, AnswersAreRight, MapReturnsId, UnmapReturnsSymbol
\* A thread that does nothing, while another thread does not move the array
\* or this one is not inside the lock, keeps what it has.
<1>5. ASSUME NEW u \in Threads, at'[u] = at[u], op'[u] = op[u], arg'[u] = arg[u],
             loaded'[u] = loaded[u], returned'[u] = returned[u], known'[u] = known[u],
             block' = block \/ (at[u] = "fetch" => u \in Unlocked)
      PROVE  Good(u)'
  BY <1>1, <1>2, <1>3, <1>5 DEF Returned, MapperTypeOK
<1>6. ASSUME NEW t \in Threads, NEW s \in Nat, Map(t, s) \/ Unmap(t, s) PROVE \A u \in Threads : Good(u)'
  <2>1. /\ block' = block /\ loaded' = loaded /\ returned' = returned
        /\ known' = [known EXCEPT ![t] = Len(symbols)]
        /\ at'[t] \in {"map_wait", "test", "unmap_wait"}
        /\ \A u \in Threads \ {t} : /\ at'[u] = at[u] /\ op'[u] = op[u] /\ arg'[u] = arg[u]
    BY <1>1, <1>6 DEF Map, Unmap, Begin, Go, memory, MapperTypeOK
  <2>2. Good(t)'
    BY <1>1, <1>2, <2>1 DEF Returned, MapperTypeOK
  <2>3. ASSUME NEW u \in Threads \ {t} PROVE Good(u)'
    BY <1>1, <1>5, <2>1, <2>3 DEF MapperTypeOK
  <2> QED BY <2>2, <2>3
<1>7. ASSUME NEW t \in Threads,
             \/ Lock(t) \/ Unlock(t) \/ MapCalls(t) \/ MapSearches(t) \/ SetSize(t)
      PROVE  \A u \in Threads : Good(u)'
  <2>1. /\ UNCHANGED threads /\ block' = block
        /\ \A u \in Threads \ {t} : at'[u] = at[u]
        /\ at'[t] \in {"map", "test", "idle", "search", "store"}
        /\ at'[t] = "idle" => at[t] = "unlock"
    <3>1. CASE Lock(t)
      BY <1>1, <3>1 DEF Lock, Go, memory, MapperTypeOK
    <3>2. CASE Unlock(t) \/ MapCalls(t) \/ MapSearches(t) \/ SetSize(t)
      BY <1>1, <3>2 DEF Unlock, MapCalls, MapSearches, SetSize, Go, memory, MapperTypeOK
    <3> QED BY <1>7, <3>1, <3>2
  <2>2. Good(t)'
    BY <1>1, <1>2, <1>3, <2>1 DEF Returned, MapperTypeOK, threads
  <2>3. ASSUME NEW u \in Threads \ {t} PROVE Good(u)'
    BY <1>5, <2>1, <2>3 DEF threads
  <2> QED BY <2>2, <2>3
<1>8. ASSUME NEW t \in Threads, GrowSymbols(t) PROVE \A u \in Threads : Good(u)'
  <2>1. /\ UNCHANGED threads /\ at[t] = "search" /\ at'[t] = "grow"
        /\ \A u \in Threads \ {t} : at'[u] = at[u]
    BY <1>1, <1>8 DEF GrowSymbols, Go, MapperTypeOK
  <2>2. Good(t)'
    BY <1>1, <1>2, <1>3, <2>1 DEF Returned, MapperTypeOK, threads
  <2>3. \A u \in Threads \ {t} : at[u] = "fetch" => u \in Unlocked
    BY <1>1, <2>1 DEF LockHeldOnce, Alone, Holding, InMap
  <2>4. ASSUME NEW u \in Threads \ {t} PROVE Good(u)'
    BY <1>5, <2>1, <2>3, <2>4 DEF threads
  <2> QED BY <2>2, <2>4
<1>9. ASSUME NEW t \in Threads, TestSize(t) \/ LoadArray(t) PROVE \A u \in Threads : Good(u)'
  <2>1. /\ block' = block /\ op' = op /\ arg' = arg /\ returned' = returned /\ known' = known
        /\ \A u \in Threads \ {t} : at'[u] = at[u] /\ loaded'[u] = loaded[u]
        /\ \/ at[t] = "test" /\ at'[t] = "load" /\ arg[t] \in 1..size
           \/ at[t] = "load" /\ at'[t] = "fetch" /\ loaded'[t] = block
    BY <1>1, <1>9 DEF TestSize, LoadArray, Go, memory, threads, MapperTypeOK
  <2>2. ASSUME t \notin Unlocked, at[t] = "test" PROVE size = Len(symbols)
    <3>1. \A u \in Threads : at[u] # "store"
      BY <1>1, <2>2 DEF LockHeldOnce, Alone, Holding, InMap
    <3> QED BY <1>1, <1>2, <3>1 DEF LockHeldOnce, SizeAhead
  <2>3. Good(t)'
    <3>1. at'[t] \in {"load", "fetch"} /\ known'[t] <= Len(symbols')
      BY <1>1, <1>2, <1>3, <2>1 DEF MapperTypeOK
    <3>2. ASSUME t \notin Unlocked PROVE arg'[t] \in 1..Len(symbols')
      <4>1. arg[t] \in 1..Len(symbols)
        BY <1>3, <2>1, <2>2, <3>2
      <4> QED BY <1>2, <2>1, <4>1
    <3>3. at'[t] = "fetch" => loaded'[t] = block'
      BY <2>1
    <3> QED BY <3>1, <3>2, <3>3 DEF Returned
  <2>4. ASSUME NEW u \in Threads \ {t} PROVE Good(u)'
    BY <1>5, <2>1, <2>4
  <2> QED BY <2>3, <2>4
<1>10. ASSUME NEW t \in Threads, MapFound(t) \/ StoreSymbol(t) \/ GrowFails(t)
       PROVE  \A u \in Threads : Good(u)'
  <2>1. /\ UNCHANGED <<block, op, arg, loaded, known>> /\ \E r : Return(t, r)
        /\ at[t] \in {"search", "grow", "store"}
    BY <1>10 DEF MapFound, StoreSymbol, GrowFails, Return, memory
  <2>2. /\ op[t] = "map" /\ \A u \in Threads \ {t} : at'[u] = at[u] /\ returned'[u] = returned[u]
        /\ at'[t] = "unlock"
    BY <1>1, <2>1 DEF Return, LockHeldOnce, Places, InMap, MapperTypeOK
  <2>3. CASE GrowFails(t)
    <3>1. returned'[t] = 0
      BY <1>1, <2>3 DEF GrowFails, Return, MapperTypeOK
    <3>2. Good(t)'
      BY <1>1, <1>2, <1>3, <2>1, <2>2, <3>1 DEF Returned, MapperTypeOK
    <3>3. ASSUME NEW u \in Threads \ {t} PROVE Good(u)'
      BY <1>5, <2>1, <2>2, <3>3
    <3> QED BY <3>2, <3>3
  <2>4. CASE MapFound(t) \/ StoreSymbol(t)
    <3>1. returned'[t] \in 1..Len(symbols') /\ symbols'[returned'[t]] = arg[t]
      BY <2>4, IdOfSymbol
    <3>2. Good(t)'
      BY <1>1, <1>2, <1>3, <2>1, <2>2, <3>1 DEF Returned, MapperTypeOK
    <3>3. ASSUME NEW u \in Threads \ {t} PROVE Good(u)'
      BY <1>5, <2>1, <2>2, <3>3
    <3> QED BY <3>2, <3>3
  <2> QED BY <1>10, <2>3, <2>4
<1>11. ASSUME NEW t \in Threads, UnmapNone(t) \/ Fetch(t) PROVE \A u \in Threads : Good(u)'
  <2>1. /\ UNCHANGED <<block, op, arg, loaded, known>> /\ symbols' = symbols
        /\ \E r : Return(t, r) /\ at[t] \in {"test", "fetch"}
    BY <1>11 DEF UnmapNone, Fetch, Return, memory, vars, table
  <2>2. /\ op[t] = "unmap" /\ \A u \in Threads \ {t} : at'[u] = at[u] /\ returned'[u] = returned[u]
        /\ at'[t] \in {"unlock", "idle"}
    BY <1>1, <2>1 DEF Return, LockHeldOnce, Places, InMap, MapperTypeOK
  <2>3. CASE UnmapNone(t)
    <3>1. returned'[t] = 0 /\ arg[t] \notin 1..size
      BY <1>1, <2>3 DEF UnmapNone, Return, MapperTypeOK
    <3>2. size >= Len(symbols) /\ size \in Nat
      <4>1. CASE \E u \in Threads : at[u] = "store"
        BY <1>1, <1>2, <4>1 DEF LockHeldOnce, SizeAhead
      <4>2. CASE ~\E u \in Threads : at[u] = "store"
        BY <1>1, <1>2, <4>2 DEF LockHeldOnce, SizeAhead
      <4> QED BY <4>1, <4>2
    <3>3. arg[t] \notin 1..known[t]
      BY <1>1, <1>2, <1>3, <3>1, <3>2 DEF MapperTypeOK
    <3> QED BY <1>2, <1>3, <2>1, <2>2, <3>1, <3>3 DEF Returned
  <2>4. CASE Fetch(t)
    <3>1. CASE t \in Unlocked
      BY <1>2, <1>3, <2>1, <2>2, <3>1 DEF Returned
    <3>2. CASE t \notin Unlocked
      <4>1. returned'[t] = symbols[arg[t]] /\ arg[t] \in 1..Len(symbols)
        BY <1>1, <1>2, <1>3, <2>4, <3>2 DEF Fetch, Return, MapperTypeOK
      <4>2. symbols[arg[t]] # 0
        BY <1>2, <4>1
      <4> QED BY <1>2, <1>3, <2>1, <2>2, <3>2, <4>1, <4>2 DEF Returned
    <3> QED BY <3>1, <3>2
  <2>5. ASSUME NEW u \in Threads \ {t} PROVE Good(u)'
    BY <1>5, <2>1, <2>2, <2>5
  <2> QED BY <1>11, <2>3, <2>4, <2>5
<1>12. ASSUME Over \/ UNCHANGED mapperVars PROVE \A u \in Threads : Good(u)'
  BY <1>5, <1>12 DEF Over, mapperVars, memory, threads
<1>13. Symbols \subseteq Nat /\ \A n \in 0..(Cardinality(Symbols) + 1) : n \in Nat
  OBVIOUS
<1> QED BY <1>6, <1>7, <1>8, <1>9, <1>10, <1>11, <1>12, <1>13
        DEF MapperNext, ThreadStep, MapStep, UnmapStep

\* No answer of the table is wrong, whatever the other threads do beside it.
THEOREM NoAnswerIsWrong == MapperSafeSpec => []AnswersAreRight
<1>1. MapperInit => UnmapIsCurrent /\ AnswersAreRight
  BY DEF MapperInit, Init, UnmapIsCurrent, AnswersAreRight, MapReturnsId, UnmapReturnsSymbol, Returned
<1> QED BY <1>1, InitLock, StepLock, StepAnswers, PTL DEF MapperSafeSpec

\* The inductive invariant that the runs check.
THEOREM MapperInductive == MapperSafeSpec => []MapperInv
<1>1. MapperInit => UnmapIsCurrent /\ AnswersAreRight
  BY DEF MapperInit, Init, UnmapIsCurrent, AnswersAreRight, MapReturnsId, UnmapReturnsSymbol, Returned
<1>2. LockInv /\ UnmapIsCurrent /\ AnswersAreRight => MapperInv
  BY DEF LockInv, MapperInv
<1> QED BY <1>1, <1>2, InitLock, StepLock, StepAnswers, PTL DEF MapperSafeSpec
=============================================================================
