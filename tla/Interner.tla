------------------------------ MODULE Interner ------------------------------
(***************************************************************************)
(* What a symbol map promises (symap.h): a symbol has one id for ever, ids *)
(* count from 1 in the order symbols were first mapped, and a call returns *)
(* the id of its symbol, or 0 when there is none and none could be made.   *)
(***************************************************************************)
EXTENDS Naturals, Sequences

CONSTANT Symbols

VARIABLES
  table,   \* the symbol of each id
  asked,   \* symbol of the call in progress, 0: none
  making,  \* the call may make a new id
  answer   \* what the last call returned

vars == <<table, asked, making, answer>>

Init == table = <<>> /\ asked = 0 /\ making = FALSE /\ answer = 0

Ask == /\ asked = 0
       /\ asked' \in Symbols /\ making' \in BOOLEAN /\ answer' = 0
       /\ UNCHANGED table

Known == \E id \in DOMAIN table : table[id] = asked

AnswerKnown == /\ asked # 0 /\ Known
               /\ \E id \in DOMAIN table : table[id] = asked /\ answer' = id
               /\ asked' = 0
               /\ UNCHANGED <<table, making>>

AnswerNothing == /\ asked # 0 /\ ~Known
                 /\ answer' = 0 /\ asked' = 0
                 /\ UNCHANGED <<table, making>>

AnswerNew == /\ asked # 0 /\ making /\ ~Known
             /\ table' = Append(table, asked)
             /\ answer' = Len(table) + 1 /\ asked' = 0
             /\ UNCHANGED making

Next == Ask \/ AnswerKnown \/ AnswerNothing \/ AnswerNew

SafeSpec == Init /\ [][Next]_vars

\* Every call returns.
Spec == SafeSpec /\ WF_vars(AnswerKnown \/ AnswerNothing \/ AnswerNew)
=============================================================================
