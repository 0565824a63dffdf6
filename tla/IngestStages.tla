----------------------------- MODULE IngestStages ------------------------------
(***************************************************************************)
(* The stages of one ingest that talk to the model, between the clean tree *)
(* and the first file written:                                             *)
(*                                                                         *)
(*   ingest/pipeline.py     _survey, _reduce, _organize_and_validate,      *)
(*                          _tag, _downgrade_dangling_links                *)
(*   ingest/write_tools.py  WriteTools: create_note, update_note, dispatch *)
(*   retrieval/tools.py     ReadOnlyTools: only what it charges            *)
(*   ingest/validator.py    validate, its rules in their order             *)
(*   ingest/links.py        check_links, downgrade_links                   *)
(*                                                                         *)
(* Nothing here touches the disk.  In IngestPipeline all of it is the step *)
(* "analyse", which ends with a batch, a failure or a transient error.     *)
(*                                                                         *)
(* A note path is a folder and a name.  A body is what the rules tell of   *)
(* it: its links, those of them that downgrade_links does not find (the    *)
(* markup runs over a line break or a code span, which extract_links       *)
(* joins), whether it is text at all, and whether it passes the rules on   *)
(* substance, front matter and size.                                       *)
(***************************************************************************)
EXTENDS ModelAgent, Sequences, FiniteSets, FiniteSetsExt

CONSTANTS
  Paths,         \* paths the model can name, [folder, name]
  Existing,      \* those of the vault's notes when the job starts
  Declared,      \* folders schema.md declares
  Bodies,        \* bodies the model writes, [links, stuck, text, sound]
  Attempts,      \* limits.organize_max_attempts
  TagAttempts,   \* _TAG_ATTEMPTS
  MaxNotes       \* limits.max_notes_per_ingest

ASSUME StagesAssumption ==
  /\ Existing \subseteq Paths
  /\ \A b \in Bodies : b.stuck \subseteq b.links /\ {b.text, b.sound} \subseteq BOOLEAN
  /\ Attempts \in Nat \ {0} /\ TagAttempts \in Nat \ {0} /\ MaxNotes \in Nat

VARIABLES
  stage,        \* the stage that runs, "done" at the end
  result,       \* "none", "batch", "failed", "transient" or "escaped"
  attempt,      \* organize attempt
  batch,        \* WriteTools.pending of that attempt
  stamped,      \* how many of its notes are tagged and stamped
  tagTry,       \* tag attempt of the next one
  downgraded,   \* _Accum.link_downgrades: set of [path, links]
  \* --- history ---
  refused,      \* agent stages that had a tool call refused
  applied       \* write tool calls carried out, over all attempts

jobVars == <<stage, result, attempt, batch, stamped, tagTry, downgraded>>
history == <<refused, applied>>
vars == <<agentVars, jobVars, history>>

Drafts ==
  [path : Paths, new : BOOLEAN, links : SUBSET UNION {b.links : b \in Bodies},
   body : Bodies, by : 1..Attempts]

TypeOK ==
  /\ AgentTypeOK
  /\ stage \in {"survey", "reduce", "organize", "tag", "validate", "done"}
  /\ result \in {"none", "batch", "failed", "transient", "escaped"}
  /\ stage = "done" <=> result # "none"
  /\ attempt \in 1..Attempts
  /\ batch \in Seq(Drafts)
  /\ stamped \in 0..Len(batch)
  /\ tagTry \in 1..TagAttempts
  /\ downgraded \subseteq [path : Paths, links : SUBSET UNION {b.links : b \in Bodies}]
  /\ refused \subseteq {"survey", "organize"}
  /\ applied \in Nat

Init ==
  /\ at = "top" /\ turn = 0 /\ calls = 0 /\ tries = 0
  /\ charged = 0 /\ late = FALSE
  /\ stage = "survey" /\ result = "none"
  /\ attempt = 1 /\ batch = <<>> /\ stamped = 0 /\ tagTry = 1
  /\ downgraded = {} /\ refused = {} /\ applied = 0

-------------------------------------------------------------------------------
(* Links and the validator.                                                  *)

NotesOf(b) == {b[i] : i \in DOMAIN b}
PathsOf(b) == {n.path : n \in NotesOf(b)}

\* _index: a link names a note by folder and name, or by its bare name.
LinkKeys(ps) == {<<p.folder, p.name>> : p \in ps} \union {<<p.name>> : p \in ps}

\* check_links, for a note of batch b.
Dangling(b, n) == n.links \ LinkKeys(Existing \union PathsOf(b))

\* validate, per note: the first rule that fails.
RuleBroken(b, n) ==
  IF ~n.body.text THEN "body_type"
  ELSE IF ~n.body.sound THEN "note_substance"
  ELSE IF n.new /\ n.path \in Existing THEN "collision"
  ELSE IF ~n.new /\ n.path \notin Existing THEN "missing_target"
  ELSE IF n.new /\ n.path.folder \notin Declared THEN "folder"
  ELSE IF Dangling(b, n) # {} THEN "link_integrity"
  ELSE "none"

Offending(b) == {i \in DOMAIN b : RuleBroken(b, b[i]) # "none"}
FirstOffending(b) == Min(Offending(b))

\* validate: the first rule the batch breaks.
Verdict(b) ==
  IF b = <<>> THEN "empty_batch"
  ELSE IF Len(b) > MaxNotes THEN "note_count"
  ELSE IF Cardinality(PathsOf(b)) # Len(b) THEN "duplicate_path"
  ELSE IF Offending(b) # {} THEN RuleBroken(b, b[FirstOffending(b)])
  ELSE "none"

\* Mutants: every link of the note loses its markup; the rewritten batch is not validated again.
StripsAll(b, n) == n.links \ n.body.stuck
NotRevalidated(b) == TRUE

\* _downgrade_dangling_links: what downgrade_links strips from note n.
Stripped(b, n) == Dangling(b, n) \ n.body.stuck

Downgrade(b, i) == [b EXCEPT ![i].links = @ \ Stripped(b, b[i])]

PassesAgain(b) == Verdict(b) = "none"

-------------------------------------------------------------------------------
(* The write tools.                                                          *)

\* create_note: a path that exists is buffered as an update.
CreateIsNew(p) == p \notin Existing

Draft(p, new, body) ==
  [path |-> p, new |-> new, links |-> body.links, body |-> body, by |-> attempt]

CreateNote(p, body) ==
  batch' = IF p \in PathsOf(batch) THEN batch
           ELSE Append(batch, Draft(p, CreateIsNew(p), body))

UpdateNote(p, body) ==
  batch' = IF p \notin Existing \/ p \in PathsOf(batch) THEN batch
           ELSE Append(batch, Draft(p, FALSE, body))

\* A tool that does not exist, an argument that is missing, a path that is refused.
ToolError == UNCHANGED batch

WriteTool ==
  \/ \E p \in Paths, body \in Bodies : CreateNote(p, body) \/ UpdateNote(p, body)
  \/ ToolError

-------------------------------------------------------------------------------
(* Stages.                                                                   *)

Finish(r) == stage' = "done" /\ result' = r /\ Rest

\* The tag step asks about the next note.
TagAsked == stage = "tag" /\ at = "asking" /\ batch[stamped + 1].body.text

\* Time passes on the budget's clock; organize's runs on while notes are tagged.
TimePasses ==
  /\ stage \in {"survey", "organize", "tag", "validate"}
  /\ TimeRunsOut
  /\ UNCHANGED <<jobVars, history>>

Ask ==
  /\ stage \in {"survey", "organize"}
  /\ BeginTurn
  /\ UNCHANGED <<jobVars, history>>

RequestAgain == (stage = "tag" => TagAsked) /\ Resend /\ UNCHANGED <<jobVars, history>>

Answer ==
  /\ stage \in {"survey", "organize"}
  /\ AnswersWithCalls
  /\ UNCHANGED <<jobVars, history>>

\* ls, grep and read are charged before they look; an unknown tool is not.
Look ==
  /\ stage = "survey"
  /\ CallReturns
  /\ Charge \/ UNCHANGED charged
  /\ UNCHANGED <<jobVars, history>>

\* WriteTools.dispatch charges first, whatever the tool then does.
Write ==
  /\ stage = "organize"
  /\ CallReturns /\ Charge /\ WriteTool
  /\ applied' = applied + 1
  /\ UNCHANGED <<stage, result, attempt, stamped, tagTry, downgraded, refused>>

RefuseCall ==
  /\ stage \in {"survey", "organize"}
  /\ CallReturns /\ Refuse
  /\ refused' = refused \union {stage}
  /\ UNCHANGED <<jobVars, applied>>

\* EXHAUSTED, or FAILED since the loop did not converge: both fail the job.
AgentGivesUp ==
  /\ stage \in {"survey", "organize"}
  /\ LoopGivesUp /\ Finish("failed")
  /\ UNCHANGED <<charged, late, attempt, batch, stamped, tagTry, downgraded, history>>

\* run_agent turns any GroundtruthError of complete(), a transient one too, into FAILED.
AgentFails ==
  /\ stage \in {"survey", "organize"}
  /\ RaisesTransient \/ RaisesTerminal
  /\ Finish("failed")
  /\ UNCHANGED <<charged, late, attempt, batch, stamped, tagTry, downgraded, history>>

\* The survey completes; reduce sends its one request.
SurveyCompletes ==
  /\ stage = "survey" /\ at = "asking"
  /\ stage' = "reduce" /\ CallModel
  /\ UNCHANGED <<charged, late, result, attempt, batch, stamped, tagTry, downgraded, history>>

\* organize starts: one budget for all its attempts.
Reduced ==
  /\ stage = "reduce" /\ at = "asking"
  /\ stage' = "organize" /\ StartAgent /\ FreshBudget
  /\ UNCHANGED <<result, attempt, batch, stamped, tagTry, downgraded, history>>

\* _complete: outside the agent loop a transient error leaves for the worker's retry, any
\* other fails the job; so does a reduce answer without items.
CompleteRaises ==
  /\ stage = "reduce" \/ TagAsked
  /\ \/ RaisesTransient /\ Finish("transient")
     \/ RaisesTerminal /\ Finish("failed")
  /\ UNCHANGED <<charged, late, attempt, batch, stamped, tagTry, downgraded, history>>

\* Mutant: the next attempt gets a new budget.
NewMeter(n) == 0

\* What an attempt leaves to the next: the meter, and no writes.
CarriedMeter(n) == n
CarriedWrites(b) == <<>>

NextAttempt ==
  /\ attempt < Attempts
  /\ attempt' = attempt + 1
  /\ batch' = CarriedWrites(batch) /\ stamped' = 0 /\ tagTry' = 1
  /\ stage' = "organize" /\ StartAgent
  /\ charged' = CarriedMeter(charged)
  /\ UNCHANGED <<late, result, downgraded, history>>

\* The last attempt is spent: the job fails.
NoAttemptLeft ==
  /\ attempt = Attempts
  /\ Finish("failed")
  /\ UNCHANGED <<charged, late, attempt, batch, stamped, tagTry, downgraded, history>>

\* COMPLETED with writes: the notes are tagged one by one.
OrganizeCompletes ==
  /\ stage = "organize" /\ at = "asking" /\ batch # <<>>
  /\ stage' = "tag" /\ CallModel
  /\ UNCHANGED <<charged, late, result, attempt, batch, stamped, tagTry, downgraded, history>>

\* COMPLETED without: the model is told so, or the job fails.
OrganizeWroteNothing ==
  /\ stage = "organize" /\ at = "asking" /\ batch = <<>>
  /\ NextAttempt \/ NoAttemptLeft

\* render_prompt replaces text by text: a body that is none (the arguments are any JSON)
\* raises TypeError, before the validator could reject it.
TagPromptRaises ==
  /\ stage = "tag" /\ ~batch[stamped + 1].body.text
  /\ Finish("escaped")
  /\ UNCHANGED <<charged, late, attempt, batch, stamped, tagTry, downgraded, history>>

\* parse_tags accepts: the note is stamped; after the last one, the validator runs.
TagNote ==
  /\ TagAsked
  /\ stamped' = stamped + 1 /\ tagTry' = 1
  /\ IF stamped' = Len(batch) THEN stage' = "validate" /\ Rest
                              ELSE UNCHANGED stage /\ CallModel
  /\ UNCHANGED <<charged, late, result, attempt, batch, downgraded, history>>

\* Mutant: the attempt is not counted.
SameTry(n) == n

NextTry(n) == n + 1

\* parse_tags rejects: one more prompt with the error, or the job fails.
RejectTags ==
  /\ TagAsked
  /\ \/ /\ tagTry < TagAttempts
        /\ tagTry' = NextTry(tagTry) /\ CallModel
        /\ UNCHANGED <<stage, result>>
     \/ /\ tagTry = TagAttempts
        /\ Finish("failed") /\ UNCHANGED tagTry
  /\ UNCHANGED <<charged, late, attempt, batch, stamped, downgraded, history>>

Accept ==
  /\ stage = "validate" /\ Verdict(batch) = "none"
  /\ Finish("batch")
  /\ UNCHANGED <<charged, late, attempt, batch, stamped, tagTry, downgraded, history>>

\* Any rejection before the last attempt asks the model again.
RejectAndRetry ==
  /\ stage = "validate" /\ Verdict(batch) # "none"
  /\ NextAttempt

\* On the last attempt only a link is repaired, and only in the note it was found in; the
\* whole batch then faces the validator again.
RejectFinally ==
  /\ stage = "validate" /\ Verdict(batch) \notin {"none", "link_integrity"}
  /\ NoAttemptLeft

DowngradeLinks ==
  /\ stage = "validate" /\ Verdict(batch) = "link_integrity" /\ attempt = Attempts
  /\ LET i == FirstOffending(batch)
         gone == Stripped(batch, batch[i])
     IN /\ batch' = Downgrade(batch, i)
        /\ downgraded' = IF gone = {} THEN downgraded
                         ELSE downgraded \union {[path |-> batch[i].path, links |-> gone]}
        /\ Finish(IF PassesAgain(batch') THEN "batch" ELSE "failed")
  /\ UNCHANGED <<charged, late, attempt, stamped, tagTry, history>>

Agent == Ask \/ Answer \/ Look \/ Write \/ RefuseCall \/ AgentGivesUp \/ AgentFails

Stage ==
  \/ SurveyCompletes \/ Reduced \/ CompleteRaises
  \/ OrganizeCompletes \/ OrganizeWroteNothing \/ TagNote \/ RejectTags \/ TagPromptRaises
  \/ Accept \/ RejectAndRetry \/ RejectFinally \/ DowngradeLinks

Step == Agent \/ RequestAgain \/ Stage

Next == Step \/ TimePasses

Spec == Init /\ [][Next]_vars

\* The worker thread runs on, and every request to the model returns or times out
\* (llm_timeout_s); the clock need not run out.
FairSpec == Spec /\ WF_vars(Step)

-------------------------------------------------------------------------------
(* Properties.                                                               *)

\* The batch the pipeline writes satisfies every rule of requirements.md 7.6, each note
\* by itself, whatever order the validator looked in and whatever was downgraded on the way:
\* every link leads to a note of the vault or of the batch.  A retry redoes the batch: what
\* is written was drafted in the last attempt, and no note of it is missing its stamp.
ReturnedBatchIsSound ==
  result = "batch" =>
    /\ Len(batch) \in 1..MaxNotes /\ stamped = Len(batch)
    /\ \A i, k \in DOMAIN batch : batch[i].path = batch[k].path => i = k
    /\ \A n \in NotesOf(batch) :
         /\ n.body.text /\ n.body.sound
         /\ n.new => n.path.folder \in Declared
         /\ n.by = attempt
         /\ \A l \in n.links : \E p \in Existing \union PathsOf(batch) :
              l \in {<<p.folder, p.name>>, <<p.name>>}

\* The write tools leave the validator's collision, missing_target and duplicate_path rules
\* nothing to find (write_tools.py: "stays as the defensive gate"): in the buffer no path
\* occurs twice, and exactly the notes that exist are updates.
BufferIsWellFormed ==
  \A i, k \in DOMAIN batch :
    /\ batch[i].path = batch[k].path => i = k
    /\ batch[i].new <=> batch[i].path \notin Existing

\* max_tool_calls bounds the organize step, not each of its attempts (pipeline.py, #112).
ToolCallsBounded == applied <= MaxToolCalls

\* A model that was refused a tool call never gets to say that it is done: neither a partial
\* survey (requirements.md 7.4) nor a batch with a write missing is used.
NothingPartialIsUsed ==
  \A s \in refused : stage \in {s, "done"} /\ result # "batch"

\* The one repair: a body differs from what the model wrote only by the markup of links that
\* lead nowhere, in one note, on the last attempt, and the job record names note and links.
RepairIsNarrow ==
  LET changed == {n \in NotesOf(batch) : n.links # n.body.links}
  IN /\ changed # {} => attempt = Attempts /\ Cardinality(changed) = 1
     /\ downgraded =
          {[path |-> n.path, links |-> n.body.links \ n.links] : n \in changed}
     /\ \A n \in changed :
          (n.body.links \ n.links) \intersect LinkKeys(Existing \union PathsOf(batch)) = {}

\* The stages end, whatever the model answers.
EveryAnalysisEnds == <>(stage = "done")

\* Not a property of the code: run_agent makes of a transient error an outcome that fails the
\* job, so the worker's retry never sees it.
TransientReachesTheWorker ==
  [][at = "asking" /\ tries = ClientRetries /\ stage' = "done" => result' # "failed"]_vars
===============================================================================
