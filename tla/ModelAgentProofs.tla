--------------------------- MODULE ModelAgentProofs ----------------------------
(***************************************************************************)
(* What the steps of ModelAgent do to its types, for the proofs about the  *)
(* modules that are built from them.                                       *)
(***************************************************************************)
EXTENDS ModelAgent, TLAPS

\* The loop's own part of the type invariant, step by step.
LEMMA AgentSteps ==
  ASSUME AgentTypeOK
  PROVE  /\ TimeRunsOut => AgentTypeOK'
         /\ BeginTurn => AgentTypeOK'
         /\ Resend => AgentTypeOK'
         /\ AnswersWithCalls => AgentTypeOK'
         /\ CallReturns /\ Charge => AgentTypeOK'
         /\ CallReturns /\ UNCHANGED charged => AgentTypeOK'
         /\ UNCHANGED agentVars => AgentTypeOK'
<1> USE AgentAssumption DEF AgentTypeOK, HardCap
<1>1. TimeRunsOut => AgentTypeOK'
  BY DEF TimeRunsOut
<1>2. BeginTurn => AgentTypeOK'
  BY DEF BeginTurn, MustStop
<1>3. Resend => AgentTypeOK'
  BY DEF Resend
<1>4. AnswersWithCalls => AgentTypeOK'
  BY DEF AnswersWithCalls
<1>5. CallReturns => /\ at' \in {"off", "top", "asking", "dispatch"}
                     /\ calls' \in 0..MaxCallsPerTurn
                     /\ at' = "dispatch" <=> calls' > 0
  BY DEF CallReturns, CallsLeft
<1>6. CallReturns /\ Charge => AgentTypeOK'
  BY <1>5 DEF CallReturns, Charge, Exhausted
<1>7. CallReturns /\ UNCHANGED charged => AgentTypeOK'
  BY <1>5 DEF CallReturns
<1>8. UNCHANGED agentVars => AgentTypeOK'
  BY DEF agentVars
<1> QED
  BY <1>1, <1>2, <1>3, <1>4, <1>6, <1>7, <1>8

\* Entering a stage restarts the loop's counters; the budget is kept or made anew.
LEMMA EnterSteps ==
  ASSUME AgentTypeOK, NEW place \in {"off", "top", "asking"}, Enter(place),
         UNCHANGED <<charged, late>> \/ FreshBudget
  PROVE  AgentTypeOK'
<1>1. at' \in {"off", "top", "asking", "dispatch"} /\ ~(at' = "dispatch")
  BY DEF Enter
<1>2. turn' \in 0..HardCap /\ calls' \in 0..MaxCallsPerTurn /\ tries' \in 0..ClientRetries
  BY AgentAssumption DEF Enter, HardCap
<1>3. (at' = "dispatch") <=> (calls' > 0)
  BY <1>1 DEF Enter
<1>4. charged' \in 0..MaxToolCalls
  BY AgentAssumption DEF AgentTypeOK, FreshBudget
<1>5. late' \in BOOLEAN
  BY DEF AgentTypeOK, FreshBudget
<1> QED
  BY <1>1, <1>2, <1>3, <1>4, <1>5, Zenon DEF AgentTypeOK, HardCap
===============================================================================
