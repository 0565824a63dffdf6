------------------------------ MODULE ModelAgent -------------------------------
(***************************************************************************)
(* The parts every use of a model shares:                                  *)
(*                                                                         *)
(*   llm/client.py        LLMClient.complete and its retries               *)
(*   retrieval/agent.py   run_agent, one turn and one tool call at a time  *)
(*   retrieval/budget.py  Budget: tool calls and wall clock                *)
(*                                                                         *)
(* What a tool call does, and what an outcome means, is the caller's: see  *)
(* IngestStages.  The model server is external and may answer anything.    *)
(***************************************************************************)
EXTENDS Naturals

CONSTANTS
  MaxToolCalls,      \* limits.max_tool_calls
  ClientRetries,     \* LLMClient max_retries
  MaxCallsPerTurn    \* bound: tool calls the model requests in one answer

ASSUME AgentAssumption ==
  /\ MaxToolCalls \in Nat /\ ClientRetries \in Nat /\ MaxCallsPerTurn \in Nat \ {0}

VARIABLES
  at,        \* "off", "top" of the loop, "asking" the model, "dispatch"
  turn,      \* iterations of the loop begun
  calls,     \* tool calls of the current answer not yet dispatched
  charged,   \* Budget._tool_calls
  late,      \* max_wall_clock_s has passed since the Budget was made
  tries      \* requests of the current complete() that failed

agentVars == <<at, turn, calls, charged, late, tries>>

\* Mutants: a loop that looks at the clock only; a call left over in each answer.
MustStopOnTime(t) == late \/ t = 2 * MaxToolCalls + 10
KeepsCall(n) == n

HardCap == 2 * MaxToolCalls + 10

AgentTypeOK ==
  /\ at \in {"off", "top", "asking", "dispatch"}
  /\ turn \in 0..HardCap
  /\ calls \in 0..MaxCallsPerTurn
  /\ at = "dispatch" <=> calls > 0
  /\ charged \in 0..MaxToolCalls
  /\ late \in BOOLEAN
  /\ tries \in 0..ClientRetries

\* Both limits only grow towards exhaustion, so the latch adds nothing to this.
Exhausted == charged >= MaxToolCalls \/ late

MustStop(t) == Exhausted \/ t = HardCap

CallsLeft(n) == n - 1

-------------------------------------------------------------------------------
AgentOff == at = "off" /\ turn = 0 /\ calls = 0 /\ tries = 0

FreshBudget == charged' = 0 /\ late' = FALSE

Enter(place) == at' = place /\ turn' = 0 /\ calls' = 0 /\ tries' = 0

\* run_agent is called; complete() is called outside the loop; neither.
StartAgent == Enter("top")
CallModel == Enter("asking")
Rest == Enter("off")

\* The wall clock of the Budget runs out, whatever the program is doing.
TimeRunsOut == ~late /\ late' = TRUE /\ UNCHANGED <<at, turn, calls, charged, tries>>

\* The top of the loop lets the turn begin: client.complete is called.
BeginTurn ==
  /\ at = "top" /\ ~MustStop(turn)
  /\ at' = "asking" /\ turn' = turn + 1
  /\ UNCHANGED <<calls, charged, late, tries>>

\* A transient failure inside complete(): it sleeps and sends the request again.
Resend ==
  /\ at = "asking" /\ tries < ClientRetries
  /\ tries' = tries + 1
  /\ UNCHANGED <<at, turn, calls, charged, late>>

\* complete() raises: a transient error once its retries are spent, or a terminal one.
RaisesTransient == at = "asking" /\ tries = ClientRetries
RaisesTerminal == at = "asking"

\* The answer requests tool calls.
AnswersWithCalls ==
  /\ at = "asking"
  /\ calls' \in 1..MaxCallsPerTurn
  /\ at' = "dispatch" /\ tries' = 0
  /\ UNCHANGED <<turn, charged, late>>

\* One tool call of the answer has its result; the last one ends the turn.
CallReturns ==
  /\ at = "dispatch"
  /\ calls' = CallsLeft(calls)
  /\ at' = IF calls = 1 THEN "top" ELSE "dispatch"
  /\ UNCHANGED <<turn, late, tries>>

Charge == ~Exhausted /\ charged' = charged + 1

\* BUDGET_EXHAUSTED is returned to the model, not raised.
Refuse == Exhausted /\ UNCHANGED charged

\* What the top of the loop ends with.
LoopGivesUp == at = "top" /\ MustStop(turn)
===============================================================================
