--------------------------- MODULE DocumentOCRProofs ---------------------------
(****************************************************************************)
(* What a build pays for transcriptions, for any corpus, number of threads, *)
(* budget, attempts and faults.                                             *)
(****************************************************************************)
EXTENDS DocumentOCR, FiniteSetTheorems, TLAPS

(* Only reserved pages are sent, within the budget, and a page that is to *)
(* be sent was not in S3 when its thread looked, nor did this build put   *)
(* it there since: its one thread would have.                             *)
SpendInv ==
  /\ reserved \subseteq Page /\ sent \subseteq reserved
  /\ Cardinality(reserved) <= MaxNewPages
  /\ DOMAIN job = Page
  /\ \A p \in Page : job[p] = "call" => p \in reserved
  /\ \A p \in Page : job[p] \in {"reserve", "call"} => p \notin held
  /\ held \subseteq remote
  /\ repaid = {}

(* A thread that moves on, or pages that are queued, done or failed, owe *)
(* nothing.                                                              *)
LEMMA SubmittedOwesNothing ==
  ASSUME NEW d
  PROVE  DOMAIN Submitted(d) = Page /\ \A p \in Page : Submitted(d)[p] \in {"queued", "done"}
BY DEF Submitted

LEMMA SpendInit ==
  ASSUME MaxNewPages \in Nat, Init
  PROVE  SpendInv
<1>1. Cardinality({}) = 0
  BY FS_EmptySet
<1> QED
  BY <1>1, SubmittedOwesNothing DEF Init, SpendInv

LEMMA SpendNext ==
  ASSUME MaxNewPages \in Nat, IsFiniteSet(Page), SpendInv, [Next]_ocrVars
  PROVE  SpendInv'
<1> USE DEF SpendInv
<1>1. CASE Start
  <2>1. Cardinality({}) = 0
    BY FS_EmptySet
  <2> QED
    BY <1>1, <2>1, SubmittedOwesNothing DEF Start
<1>2. ASSUME NEW p \in Page, Take(p) PROVE SpendInv'
  BY <1>2 DEF Take, Now, Goto
<1>3. ASSUME NEW p \in Page, ReadCache(p) PROVE SpendInv'
  BY <1>3 DEF ReadCache, Now, Goto
<1>4. ASSUME NEW p \in Page, Reserve(p) PROVE SpendInv'
  <2>1. Cardinality(reserved \cup {p}) <= MaxNewPages \/ p \in reserved \/ ~Spare
    <3>1. IsFiniteSet(reserved)
      BY FS_Subset
    <3>2. Cardinality(reserved) \in Nat
      BY <3>1, FS_CardinalityType
    <3>3. Cardinality(reserved \cup {p}) <= Cardinality(reserved) + 1
      BY <3>1, <3>2, FS_AddElement
    <3>4. Cardinality(reserved \cup {p}) \in Nat
      BY <3>1, FS_AddElement, FS_CardinalityType
    <3> QED
      BY <3>2, <3>3, <3>4 DEF Spare
  <2> QED
    BY <1>4, <2>1 DEF Reserve, Now, Goto
<1>5. ASSUME NEW p \in Page, Call(p) PROVE SpendInv'
  BY <1>5 DEF Call, Now, Goto
<1>6. ASSUME NEW p \in Page, CallFails(p) PROVE SpendInv'
  BY <1>6 DEF CallFails, Now, Goto
<1>7. ASSUME NEW p \in Page, Put(p) PROVE SpendInv'
  BY <1>7 DEF Put, Now, Goto
<1>8. ASSUME NEW p \in Page, Keep(p) PROVE SpendInv'
  BY <1>8 DEF Keep, Now, Goto
<1>9. ASSUME NEW p \in Page, Breaks(p) PROVE SpendInv'
  BY <1>9 DEF Breaks, AfterError, Goto
<1>10. ASSUME NEW p \in Page, Stop(p) PROVE SpendInv'
  BY <1>10 DEF Stop, Goto
<1>11. CASE Late
  BY <1>11 DEF Late
<1>12. ASSUME NEW spoilt, Close(spoilt) PROVE SpendInv'
  <2>1. job' = Submitted(doc')
    BY <1>12 DEF Close
  <2> QED
    BY <1>12, <2>1, SubmittedOwesNothing DEF Close
<1>13. CASE Kill
  BY <1>13, SubmittedOwesNothing DEF Kill
<1>14. ASSUME NEW p \in Page, OtherPut(p) PROVE SpendInv'
  BY <1>14 DEF OtherPut
<1>15. CASE UNCHANGED ocrVars
  BY <1>15 DEF ocrVars
<1> QED
  BY <1>1, <1>2, <1>3, <1>4, <1>5, <1>6, <1>7, <1>8, <1>9, <1>10, <1>11, <1>12, <1>13, <1>14, <1>15
     DEF Next, Work, Process

(* "must never silently trigger another paid generation": no build sends *)
(* more pages than its budget, or a page that S3 held when the build     *)
(* began or looked, or that it put there, whatever breaks and whatever   *)
(* a build beside it does (_read_cache, process_page).                   *)
THEOREM SpendBounded ==
  ASSUME MaxNewPages \in Nat, IsFiniteSet(Page)
  PROVE  Spec => []OcrSpendIsBounded
<1>1. SpendInv => OcrSpendIsBounded
  <2> SUFFICES ASSUME SpendInv PROVE OcrSpendIsBounded
    OBVIOUS
  <2>1. IsFiniteSet(reserved)
    BY FS_Subset DEF SpendInv
  <2>2. Cardinality(sent) <= Cardinality(reserved)
    BY <2>1, FS_Subset DEF SpendInv
  <2>3. Cardinality(sent) \in Nat /\ Cardinality(reserved) \in Nat
    BY <2>1, FS_Subset, FS_CardinalityType DEF SpendInv
  <2> QED
    BY <2>2, <2>3 DEF SpendInv, OcrSpendIsBounded
<1> QED
  BY SpendInit, SpendNext, <1>1, PTL DEF Spec
=============================================================================
