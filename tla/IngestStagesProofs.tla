-------------------------- MODULE IngestStagesProofs ---------------------------
(***************************************************************************)
(* Proofs about IngestStages, for any model, vault and limits: the types,  *)
(* the shape of the buffered batch, the meter shared by the attempts, that *)
(* nothing partial is used, that the repair of links is narrow, and that a *)
(* batch that is returned is sound.                                        *)
(***************************************************************************)
EXTENDS IngestStages, ModelAgentProofs, WellFoundedInduction, FiniteSetTheorems, TLAPS

Links == UNION {b.links : b \in Bodies}

-------------------------------------------------------------------------------
(* Type correctness.                                                         *)

\* What an action does to the part of the state that is not the loop's.
JobTypeOK ==
  /\ stage \in {"survey", "reduce", "organize", "tag", "validate", "done"}
  /\ result \in {"none", "batch", "failed", "transient", "escaped"}
  /\ stage = "done" <=> result # "none"
  /\ attempt \in 1..Attempts
  /\ tagTry \in 1..TagAttempts
  /\ refused \subseteq {"survey", "organize"}
  /\ applied \in Nat

DraftsTypeOK ==
  /\ batch \in Seq(Drafts)
  /\ stamped \in 0..Len(batch)
  /\ downgraded \subseteq [path : Paths, links : SUBSET Links]

LEMMA TypeParts == TypeOK <=> AgentTypeOK /\ JobTypeOK /\ DraftsTypeOK
BY DEF TypeOK, JobTypeOK, DraftsTypeOK, Links

LEMMA DraftType ==
  ASSUME TypeOK, NEW p \in Paths, NEW new \in BOOLEAN, NEW body \in Bodies
  PROVE  Draft(p, new, body) \in Drafts
BY DEF TypeOK, Draft, Drafts

\* An attempt starts over with an empty batch; it ends for good with a result.
LEMMA AttemptSteps ==
  ASSUME TypeOK, stage # "done", NextAttempt \/ NoAttemptLeft
  PROVE  TypeOK'
<1> USE TypeParts
<1>1. CASE NextAttempt
  <2>1. AgentTypeOK'
    <3>1. charged' = charged /\ late' = late /\ Enter("top")
      BY <1>1 DEF NextAttempt, StartAgent, CarriedMeter
    <3> QED
      BY <3>1, EnterSteps
  <2>2. JobTypeOK'
    BY <1>1, StagesAssumption DEF NextAttempt, JobTypeOK, history
  <2>3. DraftsTypeOK'
    BY <1>1 DEF NextAttempt, DraftsTypeOK, CarriedWrites
  <2> QED
    BY <2>1, <2>2, <2>3, TypeParts, PTL
<1>2. CASE NoAttemptLeft
  <2>1. AgentTypeOK'
    BY <1>2, EnterSteps DEF NoAttemptLeft, Finish, Rest
  <2>2. JobTypeOK'
    BY <1>2 DEF NoAttemptLeft, JobTypeOK, history, Finish
  <2>3. DraftsTypeOK'
    BY <1>2 DEF NoAttemptLeft, DraftsTypeOK
  <2> QED
    BY <2>1, <2>2, <2>3, TypeParts, PTL
<1> QED
  BY <1>1, <1>2

LEMMA BatchSteps ==
  ASSUME TypeOK, Write
  PROVE  batch' \in Seq(Drafts) /\ stamped' \in 0..Len(batch')
<1>1. CASE ToolError
  BY <1>1 DEF Write, ToolError, TypeOK
<1>2. CASE \E p \in Paths, body \in Bodies : CreateNote(p, body) \/ UpdateNote(p, body)
  <2>1. PICK p \in Paths, body \in Bodies : CreateNote(p, body) \/ UpdateNote(p, body)
    BY <1>2
  <2>2. Draft(p, CreateIsNew(p), body) \in Drafts /\ Draft(p, FALSE, body) \in Drafts
    BY DraftType DEF CreateIsNew
  <2>3. batch' = batch \/ \E d \in Drafts : batch' = Append(batch, d)
    BY <2>1, <2>2 DEF CreateNote, UpdateNote
  <2>4. stamped' = stamped /\ batch \in Seq(Drafts) /\ stamped \in 0..Len(batch)
    BY DEF Write, TypeOK
  <2> QED
    BY <2>3, <2>4
<1> QED
  BY <1>1, <1>2 DEF Write, WriteTool

LEMMA DowngradeType ==
  ASSUME TypeOK, NEW i \in DOMAIN batch
  PROVE  /\ Downgrade(batch, i) \in Seq(Drafts)
         /\ Len(Downgrade(batch, i)) = Len(batch)
         /\ DOMAIN Downgrade(batch, i) = DOMAIN batch
<1>1. batch \in Seq(Drafts) /\ batch[i] \in Drafts
  BY DEF TypeOK
<1>2. [batch[i] EXCEPT !.links = @ \ Stripped(batch, batch[i])] \in Drafts
  BY <1>1 DEF Drafts
<1>3. Downgrade(batch, i) =
        [batch EXCEPT ![i] = [batch[i] EXCEPT !.links = @ \ Stripped(batch, batch[i])]]
  BY <1>1 DEF Downgrade
<1> QED
  BY <1>1, <1>2, <1>3

\* A set of positions that is not empty has a least element.
LEMMA LeastOf ==
  ASSUME NEW T, T \subseteq Nat, T # {}
  PROVE  \E m \in T : \A k \in T : m =< k
<1>1. IsWellFoundedOn(OpToRel(<, Nat), Nat)
  BY NatLessThanWellFounded
<1>2. \E m \in T : \A k \in T : ~ (<<k, m>> \in OpToRel(<, Nat))
  BY <1>1, WFMin
<1>3. \A k, m \in Nat : k < m => <<k, m>> \in OpToRel(<, Nat)
  BY DEF OpToRel
<1>4. PICK m \in T : \A k \in T : ~ (<<k, m>> \in OpToRel(<, Nat))
  BY <1>2
<1>5. ASSUME NEW k \in T PROVE m =< k
  <2>1. ~ (k < m)
    BY <1>3, <1>4, Zenon
  <2> QED
    BY <2>1
<1> QED
  BY <1>5

\* The first offending note is a note of the batch.
LEMMA FirstIsOffending ==
  ASSUME TypeOK, Verdict(batch) = "link_integrity"
  PROVE  FirstOffending(batch) \in DOMAIN batch
<1>1. Offending(batch) # {}
  BY DEF Verdict
<1>2. Offending(batch) \subseteq DOMAIN batch /\ Offending(batch) \subseteq Nat
  BY DEF Offending, TypeOK
<1>3. \E m \in Offending(batch) : \A k \in Offending(batch) : m =< k
  BY <1>1, <1>2, LeastOf
<1> QED
  BY <1>2, <1>3 DEF FirstOffending, Min

\* No note is stamped before organize is done, and a note is left while tagging runs.
StampInv ==
  /\ stage \in {"survey", "reduce", "organize"} => stamped = 0
  /\ stage = "tag" => stamped < Len(batch)

LEMMA TypeStep ==
  ASSUME TypeOK, StampInv, [Next]_vars
  PROVE  TypeOK'
<1> USE TypeParts
<1>1. CASE UNCHANGED vars
  <2>1. AgentTypeOK'
    BY <1>1, AgentSteps DEF vars
  <2>2. JobTypeOK' /\ DraftsTypeOK'
    BY <1>1 DEF vars, jobVars, history, JobTypeOK, DraftsTypeOK
  <2> QED
    BY <2>1, <2>2, TypeParts, PTL
<1>2. CASE Ask \/ Answer \/ Look \/ RefuseCall \/ RequestAgain \/ TimePasses
  <2>1. AgentTypeOK'
    BY <1>2, AgentSteps DEF Ask, Answer, Look, RefuseCall, RequestAgain, TimePasses, Refuse
  <2>2. JobTypeOK'
    BY <1>2 DEF Ask, Answer, Look, RefuseCall, RequestAgain, TimePasses, jobVars, history, JobTypeOK
  <2>3. DraftsTypeOK'
    BY <1>2 DEF Ask, Answer, Look, RefuseCall, RequestAgain, TimePasses, jobVars, DraftsTypeOK
  <2> QED
    BY <2>1, <2>2, <2>3, TypeParts, PTL
<1>3. CASE Write
  <2>1. AgentTypeOK'
    BY <1>3, AgentSteps DEF Write
  <2>2. JobTypeOK'
    BY <1>3 DEF Write, JobTypeOK
  <2>3. DraftsTypeOK'
    BY <1>3, BatchSteps DEF Write, DraftsTypeOK
  <2> QED
    BY <2>1, <2>2, <2>3, TypeParts, PTL
<1>4. CASE AgentGivesUp \/ AgentFails \/ CompleteRaises \/ TagPromptRaises \/ Accept
  <2>1. stage # "done" /\ UNCHANGED <<charged, late, attempt, batch, stamped, tagTry, downgraded, history>>
    BY <1>4 DEF AgentGivesUp, AgentFails, CompleteRaises, TagPromptRaises, Accept, TagAsked
  <2>2. \E r \in {"batch", "failed", "transient", "escaped"} : Finish(r)
    BY <1>4 DEF AgentGivesUp, AgentFails, CompleteRaises, TagPromptRaises, Accept
  <2>3. AgentTypeOK'
    BY <2>1, <2>2, EnterSteps DEF Finish, Rest
  <2>4. JobTypeOK'
    BY <2>1, <2>2 DEF Finish, JobTypeOK, history
  <2>5. DraftsTypeOK'
    BY <2>1 DEF DraftsTypeOK
  <2> QED
    BY <2>3, <2>4, <2>5, TypeParts, PTL
<1>5. CASE SurveyCompletes \/ Reduced \/ OrganizeCompletes
  <2>1. AgentTypeOK'
    BY <1>5, EnterSteps DEF SurveyCompletes, Reduced, OrganizeCompletes, CallModel, StartAgent
  <2>2. JobTypeOK'
    BY <1>5 DEF SurveyCompletes, Reduced, OrganizeCompletes, JobTypeOK, history
  <2>3. DraftsTypeOK'
    BY <1>5 DEF SurveyCompletes, Reduced, OrganizeCompletes, DraftsTypeOK
  <2> QED
    BY <2>1, <2>2, <2>3, TypeParts, PTL
<1>6. CASE OrganizeWroteNothing \/ RejectAndRetry \/ RejectFinally
  BY <1>6, AttemptSteps DEF OrganizeWroteNothing, RejectAndRetry, RejectFinally
<1>7. CASE TagNote \/ RejectTags
  <2>1. AgentTypeOK'
    <3>1. UNCHANGED <<charged, late>> /\ (Enter("off") \/ Enter("asking"))
      BY <1>7 DEF TagNote, RejectTags, Finish, Rest, CallModel
    <3> QED
      BY <3>1, EnterSteps
  <2>2. JobTypeOK'
    BY <1>7, StagesAssumption DEF TagNote, RejectTags, Finish, JobTypeOK, history, TagAsked, NextTry
  <2>3. DraftsTypeOK'
    BY <1>7 DEF TagNote, RejectTags, TagAsked, DraftsTypeOK, StampInv
  <2> QED
    BY <2>1, <2>2, <2>3, TypeParts, PTL
<1>8. CASE DowngradeLinks
  <2> DEFINE i == FirstOffending(batch)
  <2>1. i \in DOMAIN batch
    BY <1>8, FirstIsOffending DEF DowngradeLinks
  <2>2. AgentTypeOK'
    BY <1>8, EnterSteps DEF DowngradeLinks, Finish, Rest
  <2>3. JobTypeOK'
    BY <1>8 DEF DowngradeLinks, Finish, JobTypeOK, history
  <2>4. batch' \in Seq(Drafts) /\ Len(batch') = Len(batch) /\ stamped' = stamped
    BY <1>8, <2>1, DowngradeType DEF DowngradeLinks
  <2>5. [path |-> batch[i].path, links |-> Stripped(batch, batch[i])]
          \in [path : Paths, links : SUBSET Links]
    <3>1. batch[i] \in Drafts
      BY <2>1 DEF TypeOK
    <3> QED
      BY <3>1 DEF Drafts, Stripped, Dangling, Links
  <2>6. downgraded' \subseteq [path : Paths, links : SUBSET Links]
    BY <1>8, <2>5 DEF DowngradeLinks, DraftsTypeOK
  <2>7. DraftsTypeOK'
    BY <2>4, <2>6 DEF DraftsTypeOK
  <2> QED
    BY <2>2, <2>3, <2>7, TypeParts, PTL
<1> QED
  BY <1>1, <1>2, <1>3, <1>4, <1>5, <1>6, <1>7, <1>8 DEF Next, Step, Agent, Stage

LEMMA StampStep ==
  ASSUME TypeOK, StampInv, [Next]_vars
  PROVE  StampInv'
<1> USE DEF StampInv
<1>0. batch \in Seq(Drafts) /\ stamped \in 0..Len(batch)
  BY DEF TypeOK
<1>1. CASE UNCHANGED vars
  BY <1>1 DEF vars, jobVars
<1>2. CASE Ask \/ Answer \/ Look \/ RefuseCall \/ RequestAgain \/ TimePasses
  BY <1>2 DEF Ask, Answer, Look, RefuseCall, RequestAgain, TimePasses, jobVars
<1>3. CASE Write
  BY <1>3 DEF Write
<1>4. CASE AgentGivesUp \/ AgentFails \/ CompleteRaises \/ TagPromptRaises \/ Accept
  BY <1>4 DEF AgentGivesUp, AgentFails, CompleteRaises, TagPromptRaises, Accept, Finish
<1>5. CASE SurveyCompletes \/ Reduced \/ OrganizeCompletes
  BY <1>5, <1>0 DEF SurveyCompletes, Reduced, OrganizeCompletes
<1>6. CASE OrganizeWroteNothing \/ RejectAndRetry \/ RejectFinally
  BY <1>6 DEF OrganizeWroteNothing, RejectAndRetry, RejectFinally, NextAttempt, NoAttemptLeft, Finish
<1>7. CASE TagNote \/ RejectTags
  BY <1>7, <1>0 DEF TagNote, RejectTags, TagAsked, Finish
<1>8. CASE DowngradeLinks
  BY <1>8 DEF DowngradeLinks, Finish
<1> QED
  BY <1>1, <1>2, <1>3, <1>4, <1>5, <1>6, <1>7, <1>8 DEF Next, Step, Agent, Stage

\* Every variable of the stages keeps its type, for any model and any limits.
THEOREM StagesTypeCorrect == Spec => []TypeOK
<1>1. Init => TypeOK /\ StampInv
  <2>1. Init => AgentTypeOK
    <3>1. Init => at = "top" /\ ~(at = "dispatch") /\ calls = 0 /\ turn = 0 /\ tries = 0 /\ charged = 0
      BY DEF Init
    <3>2. Init => ((at = "dispatch") <=> (calls > 0))
      BY <3>1
    <3>3. Init => late \in BOOLEAN
      BY DEF Init
    <3>4. 0 \in 0..HardCap /\ 0 \in 0..MaxCallsPerTurn /\ 0 \in 0..MaxToolCalls /\ 0 \in 0..ClientRetries
      BY AgentAssumption DEF HardCap
    <3> QED
      BY <3>1, <3>2, <3>3, <3>4, Zenon DEF AgentTypeOK
  <2>2. Init => JobTypeOK /\ DraftsTypeOK /\ StampInv
    BY StagesAssumption DEF Init, JobTypeOK, DraftsTypeOK, StampInv
  <2> QED
    BY <2>1, <2>2, TypeParts
<1>2. TypeOK /\ StampInv /\ [Next]_vars => TypeOK' /\ StampInv'
  BY TypeStep, StampStep
<1> QED
  BY <1>1, <1>2, PTL DEF Spec

-------------------------------------------------------------------------------
(* The budget.                                                               *)

\* The meter of organize counts the write calls of all its attempts.
MeterInv ==
  /\ applied <= MaxToolCalls
  /\ stage \in {"survey", "reduce"} => applied = 0
  /\ stage \in {"organize", "tag", "validate"} => applied = charged

LEMMA MeterStep ==
  ASSUME TypeOK, MeterInv, [Next]_vars
  PROVE  MeterInv'
<1> USE DEF MeterInv
<1>0. charged \in 0..MaxToolCalls /\ applied \in Nat
  BY DEF TypeOK, AgentTypeOK
<1>1. CASE UNCHANGED vars
  BY <1>1 DEF vars, jobVars, agentVars, history
<1>2. CASE Ask \/ Answer \/ RequestAgain \/ TimePasses
  BY <1>2 DEF Ask, Answer, RequestAgain, TimePasses, BeginTurn, AnswersWithCalls, Resend,
       TimeRunsOut, jobVars, history
<1>3. CASE Look \/ RefuseCall
  BY <1>3 DEF Look, RefuseCall, Refuse, jobVars, history
<1>4. CASE Write
  BY <1>4, <1>0, AgentAssumption DEF Write, Charge, Exhausted
<1>5. CASE AgentGivesUp \/ AgentFails \/ CompleteRaises \/ TagPromptRaises \/ Accept
  BY <1>5 DEF AgentGivesUp, AgentFails, CompleteRaises, TagPromptRaises, Accept, Finish, history
<1>6. CASE SurveyCompletes \/ Reduced \/ OrganizeCompletes
  BY <1>6 DEF SurveyCompletes, Reduced, OrganizeCompletes, FreshBudget, history
<1>7. CASE OrganizeWroteNothing \/ RejectAndRetry \/ RejectFinally
  BY <1>7 DEF OrganizeWroteNothing, RejectAndRetry, RejectFinally, NextAttempt, NoAttemptLeft,
       CarriedMeter, Finish, history
<1>8. CASE TagNote \/ RejectTags
  BY <1>8 DEF TagNote, RejectTags, TagAsked, Finish, history
<1>9. CASE DowngradeLinks
  BY <1>9 DEF DowngradeLinks, Finish, history
<1> QED
  BY <1>1, <1>2, <1>3, <1>4, <1>5, <1>6, <1>7, <1>8, <1>9 DEF Next, Step, Agent, Stage

\* Over all its attempts, the organize step carries out at most max_tool_calls write calls.
THEOREM BudgetBoundsOrganize == Spec => []ToolCallsBounded
<1>1. Init => MeterInv
  BY AgentAssumption DEF Init, MeterInv
<1>2. TypeOK /\ MeterInv /\ [Next]_vars => MeterInv'
  BY MeterStep
<1>3. MeterInv => ToolCallsBounded
  BY DEF MeterInv, ToolCallsBounded
<1> QED
  BY <1>1, <1>2, <1>3, StagesTypeCorrect, PTL DEF Spec

-------------------------------------------------------------------------------
(* Nothing partial is used.                                                  *)

\* An agent that had a call refused is in that loop still, out of budget and not asking.
RefusalInv ==
  \A s \in refused :
    /\ stage \in {s, "done"} /\ result # "batch"
    /\ stage = s => Exhausted /\ at \in {"top", "dispatch"}

LEMMA RefusalStep ==
  ASSUME TypeOK, RefusalInv, [Next]_vars
  PROVE  RefusalInv'
<1> USE DEF RefusalInv
<1>0. refused \subseteq {"survey", "organize"} /\ (stage = "done" <=> result # "none")
  BY DEF TypeOK
<1>1. CASE UNCHANGED vars
  BY <1>1 DEF vars, jobVars, agentVars, history, Exhausted
<1>2. CASE Ask \/ Answer \/ RequestAgain
  BY <1>0, <1>2 DEF Ask, Answer, RequestAgain, BeginTurn, MustStop, AnswersWithCalls, Resend,
       jobVars, history, Exhausted
<1>3. CASE TimePasses
  BY <1>3 DEF TimePasses, TimeRunsOut, jobVars, history, Exhausted
<1>4. CASE Look
  <2>1. UNCHANGED <<stage, result, refused, late>> /\ at' \in {"top", "dispatch"}
    BY <1>4 DEF Look, CallReturns, jobVars, history
  <2>2. Exhausted => Exhausted'
    BY <1>4 DEF Look, CallReturns, Charge, Exhausted
  <2> QED
    BY <2>1, <2>2
<1>5. CASE Write
  BY <1>5 DEF Write, Charge
<1>6. CASE RefuseCall
  <2>1. UNCHANGED <<stage, result, charged, late>> /\ Exhausted /\ at' \in {"top", "dispatch"}
    BY <1>6 DEF RefuseCall, Refuse, CallReturns, jobVars
  <2>2. Exhausted'
    BY <2>1 DEF Exhausted
  <2>3. stage # "done" /\ result = "none" /\ \A s \in refused' : s = stage
    BY <1>0, <1>6 DEF RefuseCall
  <2> QED
    BY <2>1, <2>2, <2>3
<1>7. CASE AgentGivesUp \/ AgentFails \/ CompleteRaises \/ TagPromptRaises
  BY <1>0, <1>7 DEF AgentGivesUp, AgentFails, CompleteRaises, TagPromptRaises, TagAsked, Finish, history
<1>8. CASE SurveyCompletes \/ Reduced \/ OrganizeCompletes \/ OrganizeWroteNothing
  <2>1. at = "asking" /\ stage # "done" /\ refused' = refused
    BY <1>8 DEF SurveyCompletes, Reduced, OrganizeCompletes, OrganizeWroteNothing, NextAttempt,
         NoAttemptLeft, history
  <2>2. ASSUME NEW s \in refused
        PROVE  FALSE
    <3>1. stage = s /\ at \in {"top", "dispatch"}
      BY <2>1
    <3> QED
      BY <2>1, <3>1
  <2> QED
    BY <2>1, <2>2
<1>9. CASE Accept \/ RejectAndRetry \/ RejectFinally \/ DowngradeLinks
  BY <1>0, <1>9 DEF Accept, RejectAndRetry, RejectFinally, NextAttempt, NoAttemptLeft,
       DowngradeLinks, Finish, history
<1>10. CASE TagNote \/ RejectTags
  BY <1>0, <1>10 DEF TagNote, RejectTags, TagAsked, history
<1> QED
  BY <1>1, <1>2, <1>3, <1>4, <1>5, <1>6, <1>7, <1>8, <1>9, <1>10 DEF Next, Step, Agent, Stage

\* Neither a survey nor a batch is used after one of its tool calls was refused.
THEOREM RefusedCallsAreFatal == Spec => []NothingPartialIsUsed
<1>1. Init => RefusalInv
  BY DEF Init, RefusalInv
<1>2. TypeOK /\ RefusalInv /\ [Next]_vars => RefusalInv'
  BY RefusalStep
<1>3. RefusalInv => NothingPartialIsUsed
  BY DEF RefusalInv, NothingPartialIsUsed
<1> QED
  BY <1>1, <1>2, <1>3, StagesTypeCorrect, PTL DEF Spec

-------------------------------------------------------------------------------
(* The buffer.                                                               *)

\* Appending a note whose path is not in the buffer keeps it well formed.
LEMMA AppendWellFormed ==
  ASSUME TypeOK, BufferIsWellFormed, NEW d \in Drafts,
         d.path \notin PathsOf(batch), d.new <=> d.path \notin Existing,
         batch' = Append(batch, d)
  PROVE  BufferIsWellFormed'
<1>1. batch \in Seq(Drafts) /\ Len(batch) \in Nat /\ DOMAIN batch = 1..Len(batch)
  BY DEF TypeOK
<1>2. DOMAIN batch' = 1..Len(batch) + 1 /\ batch'[Len(batch) + 1] = d
  BY <1>1
<1>3. \A i \in DOMAIN batch : batch'[i] = batch[i] /\ batch[i].path # d.path
  BY <1>1 DEF PathsOf, NotesOf
<1>4. \A i \in DOMAIN batch' : i \in DOMAIN batch \/ i = Len(batch) + 1
  BY <1>1, <1>2
<1>5. ASSUME NEW i \in DOMAIN batch', NEW k \in DOMAIN batch'
      PROVE  /\ batch'[i].path = batch'[k].path => i = k
             /\ batch'[i].new <=> batch'[i].path \notin Existing
  <2>1. batch'[i].new <=> batch'[i].path \notin Existing
    BY <1>2, <1>3, <1>4 DEF BufferIsWellFormed
  <2>2. batch'[i].path = batch'[k].path => i = k
    BY <1>2, <1>3, <1>4 DEF BufferIsWellFormed
  <2> QED
    BY <2>1, <2>2
<1> QED
  BY <1>5 DEF BufferIsWellFormed

LEMMA BufferStep ==
  ASSUME TypeOK, BufferIsWellFormed, [Next]_vars
  PROVE  BufferIsWellFormed'
<1>1. CASE UNCHANGED batch
  BY <1>1 DEF BufferIsWellFormed
<1>2. CASE batch' = <<>>
  BY <1>2 DEF BufferIsWellFormed
<1>3. CASE Write
  <2>1. CASE \E p \in Paths, body \in Bodies : CreateNote(p, body) \/ UpdateNote(p, body)
    <3>1. PICK p \in Paths, body \in Bodies : CreateNote(p, body) \/ UpdateNote(p, body)
      BY <2>1
    <3>2. /\ Draft(p, CreateIsNew(p), body) \in Drafts
          /\ Draft(p, FALSE, body) \in Drafts
      BY DraftType DEF CreateIsNew
    <3>3. CASE CreateNote(p, body) /\ p \notin PathsOf(batch)
      <4>1. batch' = Append(batch, Draft(p, CreateIsNew(p), body))
        BY <3>3 DEF CreateNote
      <4>2. Draft(p, CreateIsNew(p), body).path = p
            /\ (Draft(p, CreateIsNew(p), body).new <=> p \notin Existing)
        BY DEF Draft, CreateIsNew
      <4> QED
        BY <3>2, <3>3, <4>1, <4>2, AppendWellFormed
    <3>4. CASE UpdateNote(p, body) /\ p \in Existing /\ p \notin PathsOf(batch)
      <4>1. batch' = Append(batch, Draft(p, FALSE, body))
        BY <3>4 DEF UpdateNote
      <4>2. Draft(p, FALSE, body).path = p /\ Draft(p, FALSE, body).new = FALSE
        BY DEF Draft
      <4> QED
        BY <3>2, <3>4, <4>1, <4>2, AppendWellFormed
    <3>5. CASE UNCHANGED batch
      BY <3>5, <1>1
    <3> QED
      BY <3>1, <3>3, <3>4, <3>5 DEF CreateNote, UpdateNote
  <2> QED
    BY <1>1, <1>3, <2>1 DEF Write, WriteTool, ToolError
<1>4. CASE DowngradeLinks
  <2> DEFINE i == FirstOffending(batch)
  <2>1. i \in DOMAIN batch /\ batch' = Downgrade(batch, i)
    BY <1>4, FirstIsOffending DEF DowngradeLinks
  <2>2. DOMAIN batch' = DOMAIN batch
    BY <2>1, DowngradeType
  <2>3. batch \in Seq(Drafts)
    BY DEF TypeOK
  <2>4. \A k \in DOMAIN batch : batch'[k].path = batch[k].path /\ batch'[k].new = batch[k].new
    BY <2>1, <2>3 DEF Downgrade, Drafts
  <2> QED
    BY <2>2, <2>4 DEF BufferIsWellFormed
<1>5. CASE Next /\ ~Write /\ ~DowngradeLinks
  <2>1. UNCHANGED batch \/ batch' = <<>>
    BY <1>5 DEF Next, Step, Agent, Stage, Ask, Answer, Look, RefuseCall, AgentGivesUp, AgentFails,
         RequestAgain, SurveyCompletes, Reduced, CompleteRaises, OrganizeCompletes,
         OrganizeWroteNothing, TagNote, RejectTags, TagPromptRaises, Accept, RejectAndRetry,
         RejectFinally, NextAttempt, NoAttemptLeft, CarriedWrites, TimePasses, jobVars
  <2> QED
    BY <1>1, <1>2, <2>1
<1> QED
  BY <1>1, <1>3, <1>4, <1>5 DEF vars, jobVars

\* The buffered batch names each path once and updates exactly the notes that exist, so the
\* validator's collision, missing_target and duplicate_path rules never reject it.
THEOREM BufferStaysWellFormed == Spec => []BufferIsWellFormed
<1>1. Init => BufferIsWellFormed
  BY DEF Init, BufferIsWellFormed
<1>2. TypeOK /\ BufferIsWellFormed /\ [Next]_vars => BufferIsWellFormed'
  BY BufferStep
<1> QED
  BY <1>1, <1>2, StagesTypeCorrect, PTL DEF Spec

-------------------------------------------------------------------------------
(* The batch that is written.                                                  *)

\* What validate lets through, note by note.
SoundNotes(b) ==
  \A n \in NotesOf(b) :
    /\ n.body.text /\ n.body.sound
    /\ n.new => n.path.folder \in Declared
    /\ \A l \in n.links : \E p \in Existing \union PathsOf(b) : l \in {<<p.folder, p.name>>, <<p.name>>}

LEMMA PassedIsSound ==
  ASSUME NEW b \in Seq(Drafts), Verdict(b) = "none"
  PROVE  Len(b) \in 1..MaxNotes /\ SoundNotes(b)
<1>1. b # <<>> /\ ~(Len(b) > MaxNotes) /\ Offending(b) = {}
  <2>1. \A i \in Offending(b) : RuleBroken(b, b[i]) # "none"
    BY DEF Offending
  <2>2. Offending(b) # {} => FirstOffending(b) \in Offending(b)
    <3>1. Offending(b) \subseteq Nat
      BY DEF Offending
    <3> QED BY <3>1, LeastOf DEF FirstOffending, Min
  <2> QED BY <2>1, <2>2 DEF Verdict
<1>2. Len(b) \in 1..MaxNotes
  BY <1>1, StagesAssumption
<1>3. ASSUME NEW n \in NotesOf(b) PROVE RuleBroken(b, n) = "none"
  BY <1>1, <1>3 DEF NotesOf, Offending
<1>4. ASSUME NEW n \in NotesOf(b)
      PROVE  /\ n.body.text /\ n.body.sound
             /\ n.new => n.path \notin Existing /\ n.path.folder \in Declared
             /\ Dangling(b, n) = {}
  BY <1>3 DEF RuleBroken
<1>5. ASSUME NEW n \in NotesOf(b), NEW l \in n.links
      PROVE  \E p \in Existing \union PathsOf(b) : l \in {<<p.folder, p.name>>, <<p.name>>}
  <2>1. l \in LinkKeys(Existing \union PathsOf(b))
    BY <1>4, <1>5 DEF Dangling
  <2> QED BY <2>1 DEF LinkKeys
<1> QED BY <1>2, <1>4, <1>5 DEF SoundNotes

\* A batch is of one attempt, and has every link that the model wrote until the job ends; it
\* is judged when all its notes are stamped.
PlainInv ==
  /\ \A i \in DOMAIN batch : batch[i].by = attempt
  /\ stage # "done" =>
       downgraded = {} /\ \A i \in DOMAIN batch : batch[i].links = batch[i].body.links
  /\ stage = "validate" => stamped = Len(batch)

LEMMA PlainIsNarrow ==
  ASSUME downgraded = {}, \A i \in DOMAIN batch : batch[i].links = batch[i].body.links
  PROVE  RepairIsNarrow
BY DEF RepairIsNarrow, NotesOf

\* What the one repair makes of the batch.
LEMMA RepairEffect ==
  ASSUME TypeOK, PlainInv, DowngradeLinks
  PROVE  LET i == FirstOffending(batch)
             gone == Stripped(batch, batch[i])
         IN  /\ i \in DOMAIN batch /\ DOMAIN batch' = DOMAIN batch /\ Len(batch') = Len(batch)
             /\ \A k \in DOMAIN batch : k # i => batch'[k] = batch[k]
             /\ batch'[i] = [batch[i] EXCEPT !.links = @ \ gone] /\ batch[i] \in Drafts
             /\ batch[i].links = batch[i].body.links
             /\ gone \subseteq batch[i].links
             /\ gone \intersect LinkKeys(Existing \union PathsOf(batch)) = {}
             /\ PathsOf(batch') = PathsOf(batch)
<1> DEFINE i == FirstOffending(batch)
           gone == Stripped(batch, batch[i])
<1>1. i \in DOMAIN batch /\ stage # "done"
  BY FirstIsOffending DEF DowngradeLinks
<1>2. batch \in Seq(Drafts) /\ batch[i] \in Drafts
  BY <1>1 DEF TypeOK
<1>3. batch' = [batch EXCEPT ![i] = [batch[i] EXCEPT !.links = @ \ gone]]
  BY <1>1, <1>2 DEF DowngradeLinks, Downgrade
<1> HIDE DEF i
<1>4. /\ DOMAIN batch' = DOMAIN batch /\ Len(batch') = Len(batch)
      /\ \A k \in DOMAIN batch : k # i => batch'[k] = batch[k]
      /\ batch'[i] = [batch[i] EXCEPT !.links = @ \ gone]
  BY <1>1, <1>2, <1>3
<1>5. \A k \in DOMAIN batch : batch'[k].path = batch[k].path
  BY <1>1, <1>2, <1>4 DEF Drafts
<1>6. PathsOf(batch') = PathsOf(batch)
  BY <1>4, <1>5 DEF PathsOf, NotesOf
<1>7. /\ batch[i].links = batch[i].body.links /\ gone \subseteq batch[i].links
      /\ gone \intersect LinkKeys(Existing \union PathsOf(batch)) = {}
  BY <1>1 DEF PlainInv, Stripped, Dangling
<1> QED BY <1>1, <1>2, <1>4, <1>6, <1>7 DEF i

LEMMA RepairStaysNarrow ==
  ASSUME TypeOK, PlainInv, DowngradeLinks
  PROVE  RepairIsNarrow'
<1> DEFINE i == FirstOffending(batch)
           gone == Stripped(batch, batch[i])
           note == [batch[i] EXCEPT !.links = @ \ gone]
<1>1. /\ i \in DOMAIN batch /\ DOMAIN batch' = DOMAIN batch
      /\ \A k \in DOMAIN batch : k # i => batch'[k] = batch[k]
      /\ batch'[i] = note /\ batch[i] \in Drafts
      /\ batch[i].links = batch[i].body.links
      /\ gone \subseteq batch[i].links
      /\ gone \intersect LinkKeys(Existing \union PathsOf(batch)) = {}
      /\ PathsOf(batch') = PathsOf(batch)
  BY RepairEffect
<1>2. /\ downgraded' = IF gone = {} THEN {} ELSE {[path |-> batch[i].path, links |-> gone]}
      /\ attempt = Attempts /\ attempt' = attempt
  BY DEF DowngradeLinks, PlainInv
<1> HIDE DEF i
<1>3. /\ note.path = batch[i].path /\ note.body = batch[i].body
      /\ note.links = batch[i].body.links \ gone
  BY <1>1 DEF Drafts
<1> HIDE DEF gone, note
<1>4. note.body.links \ note.links = gone
  BY <1>1, <1>3
<1>5. ASSUME NEW k \in DOMAIN batch, k # i PROVE batch'[k].links = batch'[k].body.links
  <2>1. stage # "done"
    BY DEF DowngradeLinks
  <2> QED BY <1>1, <1>5, <2>1 DEF PlainInv
<1>6. CASE gone = {}
  <2>1. \A k \in DOMAIN batch' : batch'[k].links = batch'[k].body.links
    BY <1>1, <1>3, <1>5, <1>6
  <2> QED BY <1>2, <1>6, <2>1 DEF RepairIsNarrow, NotesOf
<1>7. CASE gone # {}
  <2>1. note.links # note.body.links
    BY <1>4, <1>7
  <2>2. {n \in NotesOf(batch') : n.links # n.body.links} = {note}
    BY <1>1, <1>5, <2>1 DEF NotesOf
  <2>3. Cardinality({note}) = 1
    BY FS_Singleton
  <2>4. downgraded' = {[path |-> note.path, links |-> note.body.links \ note.links]}
    BY <1>2, <1>3, <1>4, <1>7
  <2>5. (note.body.links \ note.links) \intersect LinkKeys(Existing \union PathsOf(batch')) = {}
    BY <1>1, <1>4
  <2>6. {[path |-> n.path, links |-> n.body.links \ n.links] : n \in {note}} = downgraded'
    BY <2>4
  <2> QED BY <1>2, <2>2, <2>3, <2>5, <2>6, Zenon DEF RepairIsNarrow
<1> QED BY <1>6, <1>7

\* What the tools add is as the model wrote it, in this attempt.
LEMMA WritesArePlain ==
  ASSUME TypeOK, PlainInv, Write
  PROVE  PlainInv' /\ RepairIsNarrow'
<1>0. batch \in Seq(Drafts) /\ stage = "organize"
  BY DEF TypeOK, Write
<1>1. UNCHANGED <<stage, attempt, stamped, downgraded>>
  BY DEF Write
<1>2. batch' = batch \/ \E p \in Paths, new \in BOOLEAN, body \in Bodies :
                          batch' = Append(batch, Draft(p, new, body))
  <2>1. ASSUME NEW p \in Paths, NEW body \in Bodies, CreateNote(p, body) \/ UpdateNote(p, body)
        PROVE  batch' = batch \/ \E new \in BOOLEAN : batch' = Append(batch, Draft(p, new, body))
    <3>1. CreateIsNew(p) \in BOOLEAN /\ FALSE \in BOOLEAN
      BY DEF CreateIsNew
    <3> QED BY <2>1, <3>1, Zenon DEF CreateNote, UpdateNote
  <2>2. WriteTool
    BY DEF Write
  <2> QED BY <2>1, <2>2, Zenon DEF WriteTool, ToolError
<1>3. ASSUME NEW k \in DOMAIN batch'
      PROVE  batch'[k].by = attempt /\ batch'[k].links = batch'[k].body.links
  <2>1. CASE batch' = batch
    BY <1>0, <1>3, <2>1 DEF PlainInv
  <2>2. ASSUME NEW p \in Paths, NEW new \in BOOLEAN, NEW body \in Bodies,
               batch' = Append(batch, Draft(p, new, body))
        PROVE  batch'[k].by = attempt /\ batch'[k].links = batch'[k].body.links
    <3>1. Draft(p, new, body) \in Drafts
      BY DraftType
    <3>2. (k \in DOMAIN batch /\ batch'[k] = batch[k]) \/ batch'[k] = Draft(p, new, body)
      BY <1>0, <1>3, <2>2, <3>1
    <3> QED BY <1>0, <3>2 DEF PlainInv, Draft
  <2> QED BY <1>2, <2>1, <2>2
<1>4. PlainInv'
  BY <1>0, <1>1, <1>3 DEF PlainInv
<1>5. RepairIsNarrow'
  BY <1>0, <1>1, <1>3 DEF PlainInv, RepairIsNarrow, NotesOf
<1> QED BY <1>4, <1>5

LEMMA PlainStep ==
  ASSUME TypeOK, PlainInv, RepairIsNarrow, [Next]_vars
  PROVE  PlainInv' /\ RepairIsNarrow'
<1>1. CASE UNCHANGED <<stage, attempt, batch, stamped, downgraded>>
  BY <1>1 DEF PlainInv, RepairIsNarrow
<1>2. CASE Write
  BY <1>2, WritesArePlain
<1>3. CASE DowngradeLinks
  <2>1. RepairIsNarrow'
    BY <1>3, RepairStaysNarrow
  <2>2. /\ DOMAIN batch' = DOMAIN batch
        /\ \A k \in DOMAIN batch : batch'[k].by = batch[k].by
    BY <1>3, RepairEffect DEF Drafts
  <2>3. stage' = "done" /\ UNCHANGED attempt
    BY <1>3 DEF DowngradeLinks, Finish
  <2> QED BY <2>1, <2>2, <2>3 DEF PlainInv
<1>4. ASSUME stage # "done", UNCHANGED <<batch, attempt, downgraded>>,
             stage' = "validate" => stamped' = Len(batch)
      PROVE  PlainInv' /\ RepairIsNarrow'
  BY <1>4 DEF PlainInv, RepairIsNarrow, NotesOf
<1>5. CASE AgentGivesUp \/ AgentFails \/ CompleteRaises \/ TagPromptRaises \/ Accept
  BY <1>4, <1>5 DEF AgentGivesUp, AgentFails, CompleteRaises, TagPromptRaises, Accept, Finish, TagAsked
<1>6. CASE SurveyCompletes \/ Reduced \/ OrganizeCompletes \/ TagNote
  BY <1>4, <1>6 DEF SurveyCompletes, Reduced, OrganizeCompletes, TagNote, TagAsked
<1>7. CASE OrganizeWroteNothing \/ RejectAndRetry \/ RejectFinally
  <2>1. CASE NextAttempt
    <3>1. batch' = <<>> /\ downgraded' = {} /\ stage' = "organize"
      BY <1>7, <2>1 DEF NextAttempt, CarriedWrites, PlainInv, OrganizeWroteNothing,
         RejectAndRetry, RejectFinally
    <3> QED BY <3>1 DEF PlainInv, RepairIsNarrow, NotesOf
  <2>2. CASE NoAttemptLeft
    BY <1>4, <1>7, <2>2 DEF NoAttemptLeft, Finish, OrganizeWroteNothing, RejectAndRetry,
       RejectFinally
  <2> QED BY <1>7, <2>1, <2>2 DEF OrganizeWroteNothing, RejectAndRetry, RejectFinally
<1>8. CASE RejectTags
  <2>1. CASE UNCHANGED <<stage, result>>
    BY <1>1, <1>8, <2>1 DEF RejectTags
  <2>2. CASE Finish("failed")
    BY <1>4, <1>8, <2>2 DEF RejectTags, Finish, TagAsked
  <2> QED BY <1>8, <2>1, <2>2 DEF RejectTags
<1>9. CASE Ask \/ Answer \/ Look \/ RefuseCall \/ RequestAgain \/ TimePasses \/ UNCHANGED vars
  BY <1>1, <1>9 DEF Ask, Answer, Look, RefuseCall, RequestAgain, TimePasses, jobVars, vars
<1> QED
  BY <1>2, <1>3, <1>5, <1>6, <1>7, <1>8, <1>9 DEF Next, Step, Agent, Stage

LEMMA PlainInit == Init => PlainInv /\ RepairIsNarrow
BY DEF Init, PlainInv, RepairIsNarrow, NotesOf

\* The only change to what the model wrote is the markup of links that lead nowhere, in one
\* note, on the last attempt, and the record says which (pipeline.py, _downgrade_dangling_links).
THEOREM RepairsAreNarrow == Spec => []RepairIsNarrow
BY PlainInit, PlainStep, StagesTypeCorrect, PTL DEF Spec

\* A batch is returned at the end only, by a verdict on it as it is.
LEMMA SoundStep ==
  ASSUME TypeOK, BufferIsWellFormed, BufferIsWellFormed', TypeOK', PlainInv, PlainInv',
         ReturnedBatchIsSound, [Next]_vars
  PROVE  ReturnedBatchIsSound'
<1>0. batch \in Seq(Drafts) /\ batch' \in Seq(Drafts) /\ (stage = "done" <=> result # "none")
  BY DEF TypeOK
<1>1. CASE UNCHANGED <<result, attempt, batch, stamped>>
  BY <1>1 DEF ReturnedBatchIsSound
<1>2. CASE result' # "batch"
  BY <1>2 DEF ReturnedBatchIsSound
<1>3. ASSUME Verdict(batch') = "none", stamped' = Len(batch') PROVE ReturnedBatchIsSound'
  <2>1. Len(batch') \in 1..MaxNotes /\ SoundNotes(batch')
    BY <1>0, <1>3, PassedIsSound
  <2>2. \A i, k \in DOMAIN batch' : batch'[i].path = batch'[k].path => i = k
    BY DEF BufferIsWellFormed
  <2>3. \A n \in NotesOf(batch') : n.by = attempt'
    BY DEF PlainInv, NotesOf
  <2> QED BY <1>3, <2>1, <2>2, <2>3 DEF SoundNotes, ReturnedBatchIsSound
<1>4. CASE Accept
  <2>1. Verdict(batch) = "none" /\ stamped = Len(batch) /\ UNCHANGED <<batch, stamped>>
    BY <1>4 DEF Accept, PlainInv
  <2>2. Verdict(batch') = "none"
    BY <2>1
  <2> QED BY <1>3, <2>1, <2>2
<1>5. CASE DowngradeLinks
  <2>1. result' = IF PassesAgain(batch') THEN "batch" ELSE "failed"
    BY <1>5 DEF DowngradeLinks, Finish
  <2>2. stamped' = Len(batch')
    BY <1>5, RepairEffect DEF DowngradeLinks, PlainInv
  <2>3. CASE Verdict(batch') = "none"
    BY <1>3, <2>2, <2>3
  <2>4. CASE ~(Verdict(batch') = "none")
    BY <1>2, <2>1, <2>4 DEF PassesAgain
  <2> QED BY <2>3, <2>4
<1>6. CASE AgentGivesUp \/ AgentFails \/ CompleteRaises \/ TagPromptRaises
  BY <1>2, <1>6 DEF AgentGivesUp, AgentFails, CompleteRaises, TagPromptRaises, Finish
<1>7. CASE SurveyCompletes \/ Reduced \/ OrganizeCompletes \/ TagNote \/ RejectTags \/ Write
  BY <1>0, <1>2, <1>7 DEF SurveyCompletes, Reduced, OrganizeCompletes, TagNote, RejectTags, TagAsked,
     Finish, Write
<1>8. CASE OrganizeWroteNothing \/ RejectAndRetry \/ RejectFinally
  BY <1>0, <1>2, <1>8 DEF OrganizeWroteNothing, RejectAndRetry, RejectFinally, NextAttempt,
     NoAttemptLeft, Finish
<1>9. CASE Ask \/ Answer \/ Look \/ RefuseCall \/ RequestAgain \/ TimePasses \/ UNCHANGED vars
  BY <1>1, <1>9 DEF Ask, Answer, Look, RefuseCall, RequestAgain, TimePasses, jobVars, vars
<1> QED
  BY <1>4, <1>5, <1>6, <1>7, <1>8, <1>9 DEF Next, Step, Agent, Stage

\* A batch that is written satisfies every rule, each note by itself: it is of the last attempt,
\* fully stamped, names no path twice and links only to notes that are there or are written
\* with it (validator.py, pipeline.py).
THEOREM ReturnedBatchesAreSound == Spec => []ReturnedBatchIsSound
<1>1. Init => ReturnedBatchIsSound
  BY DEF Init, ReturnedBatchIsSound
<1> QED
  BY <1>1, SoundStep, PlainInit, PlainStep, BufferStaysWellFormed, StagesTypeCorrect, PTL DEF Spec

===============================================================================
