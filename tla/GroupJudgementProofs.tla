------------------------- MODULE GroupJudgementProofs -------------------------
(**************************************************************************)
(* The budget of a group build and the honesty of its pair cache, for any *)
(* number of pairs, batches, tokens, attempts and faults.                 *)
(**************************************************************************)
EXTENDS GroupJudgement, TLAPS

-----------------------------------------------------------------------------
(* What is charged is reserved, what is reserved was within the budget when *)
(* it was asked for, and an overrun was the last thing of its build.        *)
BudgetInv ==
  /\ reserved \in Nat /\ charged \in Nat /\ overrun \in BOOLEAN
  /\ charged <= reserved
  /\ reserved <= MaxTokens + 1
  /\ ~overrun => reserved <= MaxTokens
  /\ overrun => ~Judging

LEMMA BudgetInit ==
  ASSUME MaxTokens \in Nat, Init
  PROVE  BudgetInv
<1>1. reserved = 0 /\ charged = 0
  BY DEF Init
<1>2. ~overrun /\ overrun \in BOOLEAN
  BY Zenon DEF Init
<1> QED
  BY <1>1, <1>2 DEF BudgetInv

LEMMA BudgetNext ==
  ASSUME MaxTokens \in Nat, Pairs \in Nat, BudgetInv, [Next]_judgeVars
  PROVE  BudgetInv'
<1> USE DEF BudgetInv, Judging
<1>1. CASE Reuse
  BY <1>1 DEF Reuse, NextPair
<1>2. CASE Open
  BY <1>2 DEF Open
<1>3. CASE Deadline
  BY <1>3 DEF Deadline, Break
<1>4. CASE Exhausted
  BY <1>4 DEF Exhausted, Break
<1>5. CASE Answer
  <2>1. /\ Judging /\ ~overrun /\ reserved + 1 <= MaxTokens
        /\ charged' = charged + 1 /\ reserved' = reserved + 1 /\ overrun' = overrun
    BY <1>5 DEF Answer, Calls, OverBudget
  <2> QED
    BY <2>1
<1>6. CASE CallFails
  <2>1. /\ Judging /\ ~overrun /\ reserved + 1 <= MaxTokens
        /\ charged' = charged + 1 /\ reserved' = reserved + 1 /\ overrun' = overrun
    BY <1>6 DEF CallFails, Calls, OverBudget, Reserved
  <2> QED
    BY <2>1
<1>7. CASE Useless
  <2>1. /\ Judging /\ ~overrun /\ reserved + 1 <= MaxTokens
        /\ charged' = charged + 1 /\ reserved' = reserved + 1 /\ overrun' = overrun
    BY <1>7 DEF Useless, Calls, OverBudget
  <2> QED
    BY <2>1
<1>8. CASE Overrun
  BY <1>8 DEF Overrun, OverBudget, Break
<1>9. CASE Finish
  <2>1. reserved' = 0 /\ charged' = 0
    BY <1>9 DEF Finish
  <2>2. ~overrun' /\ overrun' \in BOOLEAN
    BY <1>9, Zenon DEF Finish
  <2> QED
    BY <2>1, <2>2
<1>10. CASE UNCHANGED judgeVars
  BY <1>10 DEF judgeVars
<1> QED
  BY <1>1, <1>2, <1>3, <1>4, <1>5, <1>6, <1>7, <1>8, <1>9, <1>10 DEF Next

(* "Reservations are NEVER refunded": the provider never charges one build *)
(* more than its budget and what one answer used beyond its reservation    *)
(* (_model_relations, _observe_usage).                                     *)
THEOREM BudgetOfABuild ==
  ASSUME MaxTokens \in Nat, Pairs \in Nat
  PROVE  Spec => []BudgetHolds
<1>1. BudgetInv => BudgetHolds
  BY DEF BudgetInv, BudgetHolds
<1> QED
  BY BudgetInit, BudgetNext, <1>1, PTL DEF Spec

-----------------------------------------------------------------------------
LEMMA CarriedNext ==
  ASSUME CarriedWasJudged, [Next]_judgeVars
  PROVE  CarriedWasJudged'
<1> USE DEF CarriedWasJudged
<1>1. CASE Reuse
  BY <1>1 DEF Reuse, Known
<1>2. CASE Answer
  BY <1>2 DEF Answer, Answered, Cacheable
<1>3. CASE Finish
  BY <1>3 DEF Finish
<1>4. CASE Open \/ Deadline \/ Exhausted \/ CallFails \/ Useless \/ Overrun \/ UNCHANGED judgeVars
  BY <1>4 DEF Open, Deadline, Exhausted, CallFails, Useless, Overrun, judgeVars
<1> QED
  BY <1>1, <1>2, <1>3, <1>4 DEF Next

(* No build carries over a pair that no build judged completely, whatever *)
(* fails and however often a pair has been carried over (pair_cache).     *)
THEOREM CarriedPairsWereJudged == Spec => []CarriedWasJudged
<1>1. Init => CarriedWasJudged
  BY DEF Init, CarriedWasJudged
<1> QED
  BY <1>1, CarriedNext, PTL DEF Spec
=============================================================================
