----------------------------- MODULE Playground -----------------------------
(**************************************************************************)
(* The console's playground: chat turns of one user through the buffered  *)
(* Lambda (lambdas/playground/handler.py, "chat") and through the         *)
(* streaming one (lambdas/playground_stream/index.mjs, "stream").  A turn *)
(* is authorised, checked against the day's token budget, makes one model *)
(* call, meters it and runs the tools the model asked for through the MCP *)
(* proxy, within the time its Lambda may run.  Seconds are integers; a    *)
(* model or tool call is short or takes all the time it was given.        *)
(**************************************************************************)
EXTENDS Integers, FiniteSets

CONSTANTS
  Turns,        \* turns that may run at once
  DailyBudget,  \* DAILY_TOKEN_BUDGET
  MaxCost,      \* the most tokens one model call may use
  MaxAsks,      \* bound: tool uses in one answer
  MaxLosses     \* bound: calls whose spend is not known or not recorded

VARIABLES
  tokens,       \* the day's counter
  turn,         \* turn -> what it is doing
  losses,       \* how many more spends may go unrecorded
  used          \* history: the tokens whose use the code could record

playVars == <<tokens, turn, losses, used>>

Wall == [chat |-> 28, stream |-> 300]

Resting == [pc |-> "rest", kind |-> "chat", left |-> 0, asks |-> 0, answers |-> 0,
            cost |-> 0, aborted |-> FALSE, slow |-> FALSE]

Init ==
  /\ tokens = 0 /\ used = 0 /\ losses = MaxLosses
  /\ turn = [t \in Turns |-> Resting]

At(t, pc) == turn[t].pc = pc

Goto(t, pc) == turn' = [turn EXCEPT ![t].pc = pc]

End(t) == turn' = [turn EXCEPT ![t] = Resting]

(* A request whose user has the server's grant now; the others are refused
   and change nothing.  A group is authorised through the proxy, which may
   take the streaming Lambda fifteen seconds. *)
Authorize(t) ==
  /\ At(t, "rest")
  /\ \E kind \in {"chat", "stream"}, d \in {0, 15} :
       /\ kind = "chat" => d = 0
       /\ turn' = [turn EXCEPT ![t] = [Resting EXCEPT !.pc = "budget", !.kind = kind,
                                                      !.left = Wall[kind] - d]]
  /\ UNCHANGED <<tokens, losses, used>>

(* 429 when the counter has reached the budget; nothing is reserved. *)
CheckBudget(t) ==
  /\ At(t, "budget")
  /\ IF tokens >= DailyBudget THEN End(t) ELSE Goto(t, "model")
  /\ UNCHANGED <<tokens, losses, used>>

Most(a, b) == IF a >= b THEN a ELSE b
Least(a, b) == IF a <= b THEN a ELSE b

(* How long a model call may take: the client's timeout, or all but the
   last twelve seconds. *)
ModelTime(t) == IF turn[t].kind = "chat" THEN 24 ELSE Most(5, turn[t].left - 12)

(* One call, never retried.  An answer asks for tools or not. *)
Generate(t) ==
  /\ At(t, "model")
  /\ \E d \in {4, ModelTime(t)}, cost \in 1 .. MaxCost, asks \in 0 .. MaxAsks :
       turn' = [turn EXCEPT ![t].pc = "meter", ![t].left = @ - d,
                            ![t].cost = cost, ![t].asks = asks]
  /\ used' = used + turn'[t].cost
  /\ UNCHANGED <<tokens, losses>>

(* A stream that was cut off knows what it used; a buffered call that
   failed does not, and its tokens are lost to the counter. *)
Break(t) ==
  /\ At(t, "model")
  /\ IF turn[t].kind = "stream"
     THEN \E cost \in 1 .. MaxCost :
            /\ turn' = [turn EXCEPT ![t].pc = "meter", ![t].left = @ - ModelTime(t),
                                    ![t].cost = cost, ![t].aborted = TRUE]
            /\ used' = used + cost
     ELSE End(t) /\ UNCHANGED used
  /\ UNCHANGED <<tokens, losses>>

(* mutant: a turn that is cut off is not metered *)
MeteredIfWhole(t) == ~turn[t].aborted

Metered(t) == turn[t].cost > 0

(* The counter is added to, unless the write fails, which is only logged.
   A turn that was cut off ends with an error frame. *)
Meter(t) ==
  /\ At(t, "meter")
  /\ \E ok \in BOOLEAN :
       /\ IF ok THEN UNCHANGED losses ELSE losses > 0 /\ losses' = losses - 1
       /\ tokens' = IF ok /\ Metered(t) THEN tokens + turn[t].cost ELSE tokens
       /\ used' = IF ok THEN used ELSE used - turn[t].cost
  /\ IF turn[t].aborted THEN End(t)
     ELSE turn' = [turn EXCEPT ![t].pc = "tools", ![t].cost = 0]

(* mutant: no time is kept for the reply *)
SpareNone(t) == turn[t].left

Spare(t) == turn[t].left - (IF turn[t].kind = "chat" THEN 4 ELSE 5)

(* How long a tool may take; the buffered Lambda rounds its client's read
   timeout up. *)
ToolTime(t) ==
  IF turn[t].kind = "chat" THEN Most(2, Least(20, Spare(t)) + 1) ELSE Least(90, Spare(t))

(* The buffered Lambda's client has a timeout of its own to connect. *)
ConnectTime(t) == IF turn[t].kind = "chat" THEN 3 ELSE 0

(* The next tool use, through the proxy: at once connected or late. *)
CallTool(t) ==
  /\ At(t, "tools") /\ turn[t].answers < turn[t].asks /\ Spare(t) >= 2
  /\ \E d \in {1, ToolTime(t)}, c \in {0, ConnectTime(t)} :
       turn' = [turn EXCEPT ![t].answers = @ + 1, ![t].left = @ - (c + d),
                            ![t].slow = @ \/ c > 0]
  /\ UNCHANGED <<tokens, losses, used>>

(* Too late for it: answered with an error, and the client is told. *)
SkipTool(t) ==
  /\ At(t, "tools") /\ turn[t].answers < turn[t].asks /\ Spare(t) < 2
  /\ turn' = [turn EXCEPT ![t].answers = @ + 1]
  /\ UNCHANGED <<tokens, losses, used>>

(* The answer, with a result for every tool use. *)
Reply(t) ==
  /\ At(t, "tools") /\ turn[t].answers = turn[t].asks
  /\ End(t)
  /\ UNCHANGED <<tokens, losses, used>>

Next ==
  \E t \in Turns :
    \/ Authorize(t) \/ CheckBudget(t) \/ Generate(t) \/ Break(t) \/ Meter(t)
    \/ CallTool(t) \/ SkipTool(t) \/ Reply(t)

Spec == Init /\ [][Next]_playVars

-----------------------------------------------------------------------------
(* The budget is read before the model call and added to after it, with
   nothing reserved: what a user can spend beyond it is less than one call
   of each turn that runs at once, cut off or not, counting what the code
   could record (playground/handler.py:264-289, index.mjs:132-156 and
   367-376: "meter partial spend"). *)
SpendIsBounded == used <= DailyBudget - 1 + Cardinality(Turns) * MaxCost

(* Whatever the model and the tools take, no turn outlives its Lambda, and
   it has time left for its reply, unless a tool was late to connect to:
   every tool use that has no time left is skipped ("Leave >=4s of Lambda
   budget so the response itself still ships", playground/handler.py:
   340-350; index.mjs:341-372).  The reserve itself is not kept: a client's
   timeouts to connect and to read may take all of it. *)
ReplyShips ==
  \A t \in Turns : turn[t].pc # "rest" =>
    /\ turn[t].left >= 0
    /\ ~turn[t].slow => turn[t].left > 0
=============================================================================
