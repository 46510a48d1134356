---------------------------- MODULE GroupJudgement ----------------------------
(****************************************************************************)
(* The model's part of a group build (lambdas/group_worker/engine.py): the  *)
(* candidates of each pair of sources are judged in batches under a budget  *)
(* of tokens and a deadline, and what was judged completely is carried over *)
(* to the next build in the manifest's pair_cache.  Builds of one group     *)
(* follow each other with the same sources, descriptions and model.         *)
(*                                                                          *)
(* Tokens are units of a batch's reservation.  Every attempt is taken to    *)
(* cost its whole reservation, answered or not.                             *)
(****************************************************************************)
EXTENDS Integers, FiniteSets

CONSTANTS
  Pairs,         \* number of pairs, in the order they are judged
  Batches(_),    \* batches of a pair
  MaxTokens,     \* MAX_INPUT_TOKENS or MAX_OUTPUT_TOKENS, whichever is reached first
  MaxAttempts,   \* MAX_MODEL_ATTEMPTS
  MaxFaults      \* bound: calls that fail, answers that are no use, deadlines, failed builds

VARIABLES
  published,   \* pairs in the pair_cache of the active manifest
  cache,       \* pairs in the pair_cache of the build at work
  at,          \* the pair, the batch and the attempt it is at
  reserved,    \* tokens reserved
  stopped,     \* BUDGET_EXCEEDED or DEADLINE_EXCEEDED is among the partial reasons
  cacheable,   \* nothing of the pair failed or went uncounted
  trouble,     \* faults so far
  charged,     \* history: tokens the provider charged the build
  overrun,     \* history: an answer reported more than its reservation
  judged       \* history: pairs all batches of which were once answered and counted

judgeVars == <<published, cache, at, reserved, stopped, cacheable, trouble, charged,
               overrun, judged>>

Pair == 1..Pairs
Start == [pair |-> 1, batch |-> 0, attempt |-> 0]

Init ==
  /\ published = {} /\ cache = {} /\ at = Start
  /\ reserved = 0 /\ stopped = FALSE /\ cacheable = TRUE /\ trouble = 0
  /\ charged = 0 /\ overrun = FALSE /\ judged = {}

Judging == at.pair <= Pairs
NextPair == at' = [pair |-> at.pair + 1, batch |-> 0, attempt |-> 0]
Break == at' = [pair |-> Pairs + 1, batch |-> 0, attempt |-> 0]
Trouble == trouble < MaxFaults /\ trouble' = trouble + 1

(* A pair: its entry in the old cache is used, or its batches are judged.   *)
KnownNever(p) == FALSE                \* mutant: the old cache is not consulted
Known(p) == p \in published

Reuse ==
  /\ Judging /\ at.batch = 0 /\ Known(at.pair)
  /\ cache' = cache \cup {at.pair}
  /\ NextPair
  /\ UNCHANGED <<published, reserved, stopped, cacheable, trouble, charged, overrun, judged>>

Open ==
  /\ Judging /\ at.batch = 0 /\ ~Known(at.pair)
  /\ at' = [at EXCEPT !.batch = 1]
  /\ cacheable' = TRUE
  /\ UNCHANGED <<published, cache, reserved, stopped, trouble, charged, overrun, judged>>

(* time_available says no, at a pair or before a call.                      *)
Deadline ==
  /\ Judging /\ Trouble
  /\ stopped' = TRUE /\ Break
  /\ UNCHANGED <<published, cache, reserved, cacheable, charged, overrun, judged>>

OverBudget == reserved + 1 > MaxTokens

Exhausted ==
  /\ Judging /\ at.batch > 0 /\ OverBudget
  /\ stopped' = TRUE /\ Break
  /\ UNCHANGED <<published, cache, reserved, cacheable, trouble, charged, overrun, judged>>

Calls == Judging /\ at.batch > 0 /\ ~OverBudget /\ charged' = charged + 1

(* The next batch, or the end of the pair, which is cached if it may be.    *)
Cacheable(counted) == cacheable /\ counted

Answered(counted) ==
  IF at.batch < Batches(at.pair)
  THEN /\ at' = [at EXCEPT !.batch = @ + 1, !.attempt = 0]
       /\ cacheable' = Cacheable(counted)
       /\ UNCHANGED <<cache, judged>>
  ELSE /\ cache' = IF Cacheable(counted) THEN cache \cup {at.pair} ELSE cache
       /\ judged' = IF cacheable /\ counted THEN judged \cup {at.pair} ELSE judged
       /\ NextPair /\ UNCHANGED cacheable

(* An answer with its decisions, counted or with its usage missing.         *)
Answer ==
  /\ Calls /\ reserved' = reserved + 1
  /\ \/ Answered(TRUE) /\ UNCHANGED trouble
     \/ Trouble /\ Answered(FALSE)
  /\ UNCHANGED <<published, stopped, overrun>>

(* The call raises: once more, or the pair is given up.                     *)
ReservedRefunded == reserved          \* mutant: a failed call gives back its reservation
Reserved == reserved + 1

CallFails ==
  /\ Calls /\ Trouble /\ reserved' = Reserved
  /\ cacheable' = FALSE
  /\ IF at.attempt + 1 < MaxAttempts THEN at' = [at EXCEPT !.attempt = @ + 1]
     ELSE IF stopped THEN Break ELSE NextPair
  /\ UNCHANGED <<published, cache, stopped, overrun, judged>>

(* An answer that is cut off or malformed: the pair is given up.            *)
Useless ==
  /\ Calls /\ Trouble /\ reserved' = reserved + 1
  /\ IF stopped THEN Break ELSE NextPair
  /\ UNCHANGED <<published, cache, stopped, cacheable, overrun, judged>>

(* An answer that used more than was reserved for it: no further request.   *)
Overrun ==
  /\ Judging /\ at.batch > 0 /\ ~OverBudget /\ Trouble
  /\ charged' = charged + 2 /\ reserved' = reserved + 2
  /\ overrun' = TRUE /\ stopped' = TRUE /\ Break
  /\ UNCHANGED <<published, cache, cacheable, judged>>

(* The build is activated with its cache, or fails after all.               *)
Finish ==
  /\ ~Judging
  /\ \/ published' = cache /\ UNCHANGED trouble
     \/ Trouble /\ UNCHANGED published
  /\ cache' = {} /\ at' = Start
  /\ reserved' = 0 /\ stopped' = FALSE /\ cacheable' = TRUE
  /\ charged' = 0 /\ overrun' = FALSE
  /\ UNCHANGED judged

Next ==
  \/ Reuse \/ Open \/ Deadline \/ Exhausted \/ Answer \/ CallFails \/ Useless \/ Overrun
  \/ Finish

Spec == Init /\ [][Next]_judgeVars /\ WF_judgeVars(Next)

-----------------------------------------------------------------------------
(* "Reservations are NEVER refunded": what the provider charges one build  *)
(* stays within the budget however calls fail, but for the one answer that *)
(* used more than was reserved for it, and nothing is asked after that     *)
(* (_model_relations, _observe_usage).                                     *)
BudgetHolds ==
  /\ charged <= MaxTokens + (IF overrun THEN 1 ELSE 0)
  /\ overrun => ~Judging

CarriedWasJudged == cache \cup published \subseteq judged

(* A pair with more batches than one build can pay for is never judged:     *)
(* what was answered of it is dropped, and the pairs after it wait for ever. *)
Fits(p) == Batches(p) <= MaxTokens
Payable == {p \in Pair : \A q \in 1..p : Fits(q)}
PayableAreCarried == published = Payable

(* A pair is carried over only if a build judged all of it and knew what it *)
(* cost; and over the builds every pair is that one budget can pay for and  *)
(* no larger pair sorts before, though one build's budget is not enough for *)
(* all of them and a build that stops early drops the pairs it did not      *)
(* reach (pair_cache, the loop over sorted(pairs.items())).                 *)
PairsAreJudged == []CarriedWasJudged /\ <>[]PayableAreCarried

=============================================================================
