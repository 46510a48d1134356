------------------------------- MODULE McpProxy -------------------------------
(****************************************************************************)
(* The MCP data plane's proxy (lambdas/mcp_proxy/handler.py): whether a     *)
(* source is enabled is cached for a while in each process, a call is       *)
(* forwarded with up to three attempts that share one deadline, and its end *)
(* is counted.                                                              *)
(*                                                                          *)
(* The two clocks have units of their own: the cache's, and half a second   *)
(* for the attempts.  urlopen's timeout is for each wait on the socket: an  *)
(* attempt waits for the connection and for the answer, which is taken to   *)
(* come in one piece.                                                       *)
(****************************************************************************)
EXTENDS Integers, FiniteSetsExt

CONSTANTS
  Ttl,        \* _ENABLED_TTL
  Budget,     \* UPSTREAM_TIMEOUT, in half seconds
  None

VARIABLES
  enabled,    \* the registry row of the source
  offFor,     \* how long it has been disabled, counted up to Ttl + 1
  seen,       \* _enabled_cache: value and age
  call,       \* a call: step, attempt, time left, waited twice, usage records
  forwarded   \* for how long the source was off when the call was forwarded

proxyVars == <<enabled, offFor, seen, call, forwarded>>

NoCall == [pc |-> "idle", attempt |-> 0, left |-> 0, slow |-> FALSE, usage |-> 0]

Init ==
  /\ enabled \in BOOLEAN /\ offFor = 0
  /\ seen = None /\ call = NoCall /\ forwarded = 0

Switch ==
  /\ enabled' = ~enabled /\ offFor' = 0
  /\ UNCHANGED <<seen, call, forwarded>>

Pass ==
  /\ offFor' = IF enabled THEN 0 ELSE Min({offFor + 1, Ttl + 1})
  /\ seen' = IF seen = None THEN None ELSE [seen EXCEPT !.age = Min({@ + 1, Ttl})]
  /\ UNCHANGED <<enabled, call, forwarded>>

-----------------------------------------------------------------------------
(* resolve_host; mutant: each use makes the entry young again.              *)
LookupSliding ==
  IF seen # None /\ seen.age < Ttl THEN [seen EXCEPT !.age = 0]
                                   ELSE [value |-> enabled, age |-> 0]
Lookup ==
  IF seen # None /\ seen.age < Ttl THEN seen ELSE [value |-> enabled, age |-> 0]

Resolve ==
  /\ call.pc = "idle"
  /\ seen' = Lookup
  /\ IF Lookup.value
     THEN /\ call' = [NoCall EXCEPT !.pc = "try", !.left = Budget]
          /\ forwarded' = offFor
     ELSE UNCHANGED <<call, forwarded>>
  /\ UNCHANGED <<enabled, offFor>>

(* The time an attempt gives each wait; mutant: all of it, every time.      *)
AllowanceEach(left) == Budget
Allowance(left) == left

Ended(c) == [c EXCEPT !.pc = "done", !.usage = @ + 1]

(* An attempt takes c to connect and r to be answered.  It is answered,   *)
(* times out or is refused; only a refusal is tried again, after a pause. *)
Attempt ==
  /\ call.pc = "try" /\ call.attempt < 3 /\ call.left > 1
  /\ LET most == Allowance(call.left) IN
     \E c \in 0..most, r \in 0..most :
       LET spent == [call EXCEPT !.attempt = @ + 1, !.left = @ - c - r,
                                 !.slow = @ \/ (c > 0 /\ r > 0)]
           pause == IF call.attempt < 2
                    THEN Min({call.attempt + 1, Max({spent.left, 0})}) ELSE 0 IN
       call' \in IF c = most \/ r = most THEN {Ended(spent)}
                 ELSE {Ended(spent), [spent EXCEPT !.left = @ - pause]}
  /\ UNCHANGED <<enabled, offFor, seen, forwarded>>

(* The attempts or the budget are used up.                                  *)
GiveUp ==
  /\ call.pc = "try" /\ (call.attempt = 3 \/ call.left <= 1)
  /\ call' = Ended(call)
  /\ UNCHANGED <<enabled, offFor, seen, forwarded>>

Return ==
  /\ call.pc = "done"
  /\ call' = NoCall /\ forwarded' = 0
  /\ UNCHANGED <<enabled, offFor, seen>>

Next == Switch \/ Pass \/ Resolve \/ Attempt \/ GiveUp \/ Return

Spec == Init /\ [][Next]_proxyVars

-----------------------------------------------------------------------------
(* "never per-attempt": a call whose attempts wait once each ends within  *)
(* the shared budget however often it is retried, and one that also waits *)
(* to connect within twice the budget, which is less than the Lambda may  *)
(* run (_forward).                                                        *)
CallsShareOneBudget ==
  call.pc = "done" =>
    /\ call.left >= (IF call.slow THEN -Budget ELSE 0)
    /\ call.attempt <= 3

(* A source that is switched off is cut off within _ENABLED_TTL, however *)
(* many calls keep asking for it (resolve_host).                         *)
DisabledIsCutOff == forwarded <= Ttl

=============================================================================
