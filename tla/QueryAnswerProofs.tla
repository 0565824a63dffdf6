-------------------------- MODULE QueryAnswerProofs ---------------------------
(***************************************************************************)
(* Proofs about QueryAnswer, for any vault, model and number of changes:   *)
(* what is answered is grounded, what is listed is honest, no reader sees  *)
(* a file outside the vault, and every variable keeps its type.            *)
(***************************************************************************)
EXTENDS QueryAnswer, ModelAgentProofs

\* Where the request is, and what belongs to each of its stages.
Shape ==
  /\ (stage = "agent") <=> (at # "off")
  /\ (stage = "answered") <=> (reply # "none")
  /\ opened # {} => stage \in {"open", "list"}
  /\ existing # {} => stage \in {"ground", "list"}
  /\ listed # {} => stage \in {"list", "answered"}

\* The steps of the agent that are no more than the loop's.
LoopStep ==
  /\ at # "off" /\ at' # "off"
  /\ UNCHANGED <<query, disk, watched>>

LEMMA LoopSteps ==
  ASSUME (TimePasses /\ at # "off") \/ TakeTurn \/ RequestAgain \/ CallTools \/ Tools
  PROVE  LoopStep
<1> USE DEF LoopStep
<1>1. CASE TimePasses /\ at # "off"
  BY <1>1 DEF TimePasses, TimeRunsOut
<1>2. CASE TakeTurn
  BY <1>2 DEF TakeTurn, BeginTurn
<1>3. CASE RequestAgain \/ CallTools
  BY <1>3 DEF RequestAgain, CallTools, Resend, AnswersWithCalls
<1>4. CallReturns => at # "off" /\ at' # "off"
  BY DEF CallReturns
<1>5. CASE Tools
  BY <1>4, <1>5 DEF Tools, CallNoTool, ListOrFail, RefuseCall, Grep, Read
<1> QED
  BY <1>1, <1>2, <1>3, <1>5

LEMMA ShapeInit == Init => Shape
BY DEF Init, Shape, AgentOff

LEMMA ShapeStep == Shape /\ [Next]_vars => Shape'
<1> SUFFICES ASSUME Shape, [Next]_vars PROVE Shape'
  OBVIOUS
<1> USE DEF Shape, Reply
<1>1. CASE Environment
  BY <1>1 DEF Environment, WriteNote, Spoil, Delete, CommitNotes, RollBack, query, scan,
              result, agentVars
<1>2. CASE \E c \in {"token", "other"} : Authenticate(c)
  BY <1>2 DEF Authenticate, scan, agentVars
<1>3. CASE Ask
  <2>1. PICK o \in {"query", "list", "note", "page"}, p \in Asked \union {<<>>} : Receive(o, p)
    BY <1>3 DEF Ask
  <2> QED
    BY <2>1 DEF Receive, scan, agentVars
<1>4. CASE LoadSchema
  BY <1>4 DEF LoadSchema, StartAgent, Enter, scan, agentVars
<1>5. CASE Agent
  <2>1. CASE TimePasses \/ TakeTurn \/ RequestAgain \/ CallTools \/ Tools
    <3>1. TimePasses => at # "off"
      BY DEF TimePasses
    <3> QED
      BY <2>1, <3>1, LoopSteps DEF LoopStep, query, scan, result
  <2>2. CASE AgentGivesUp \/ AgentFails
    BY <2>2 DEF AgentGivesUp, AgentFails, LoopGivesUp, RaisesTransient, RaisesTerminal, Rest,
                Enter, scan
  <2>3. CASE \E t \in Texts : AgentAnswers(t)
    BY <2>3 DEF AgentAnswers, Rest, Enter, result
  <2> QED
    BY <1>5, <2>1, <2>2, <2>3 DEF Agent
<1>6. CASE RefuseAtOnce \/ Scan \/ Ground
  BY <1>6 DEF RefuseAtOnce, Scan, Ground, result, agentVars
<1>7. CASE Notes
  <2>1. CASE OpenNote \/ ListIsDone
    BY <2>1 DEF OpenNote, ListIsDone, scan, agentVars
  <2>2. CASE \E f \in existing : NextNote(f)
    BY <2>2 DEF NextNote, result, agentVars
  <2>3. CASE \E f \in opened : FailToRead(f)
    BY <2>3 DEF FailToRead, agentVars
  <2>4. CASE \E f \in opened : ReadNote(f)
    BY <2>4 DEF ReadNote, agentVars
  <2> QED
    BY <1>7, <2>1, <2>2, <2>3, <2>4 DEF Notes
<1>8. CASE \E p \in {c[2] : c \in citations} \union {NotePath(f) : f \in listed} : Follow(p)
  BY <1>8 DEF Follow, agentVars
<1>9. CASE UNCHANGED vars
  BY <1>9 DEF vars, query, scan, result, agentVars
<1> QED
  BY <1>1, <1>2, <1>3, <1>4, <1>5, <1>6, <1>7, <1>8, <1>9 DEF Next

-------------------------------------------------------------------------------
(* The budget: a model that was refused a tool call has no later turn.         *)

Meter ==
  /\ stage \in {"idle", "admitted", "schema", "ground"} => ~refused
  /\ refused => Exhausted /\ at # "asking"

\* All steps but the agent's leave the meter and the loop alone.
MeterRests ==
  /\ UNCHANGED <<agentVars, refused>>
  /\ stage' = "ground" => stage = "ground"
  /\ stage' \in {"idle", "admitted", "schema"} => stage \in {"idle", "admitted", "schema"}

LEMMA OtherSteps ==
  ASSUME \/ Environment \/ (\E c \in {"token", "other"} : Authenticate(c)) \/ Ask
         \/ RefuseAtOnce \/ Scan \/ Ground \/ Notes \/ UNCHANGED vars
         \/ \E p \in {c[2] : c \in citations} \union {NotePath(f) : f \in listed} : Follow(p)
  PROVE  MeterRests
<1> USE DEF MeterRests, Reply, history
<1>1. CASE Environment
  BY <1>1 DEF Environment, WriteNote, Spoil, Delete, CommitNotes, RollBack, query
<1>2. CASE \E c \in {"token", "other"} : Authenticate(c)
  BY <1>2 DEF Authenticate
<1>3. CASE Ask
  <2>1. PICK o \in {"query", "list", "note", "page"}, p \in Asked \union {<<>>} : Receive(o, p)
    BY <1>3 DEF Ask
  <2> QED
    BY <2>1 DEF Receive
<1>4. CASE RefuseAtOnce \/ Scan \/ Ground
  BY <1>4 DEF RefuseAtOnce, Scan, Ground
<1>5. CASE Notes
  <2>1. CASE OpenNote \/ ListIsDone
    BY <2>1 DEF OpenNote, ListIsDone
  <2>2. CASE \E f \in existing : NextNote(f)
    BY <2>2 DEF NextNote
  <2>3. CASE \E f \in opened : FailToRead(f)
    BY <2>3 DEF FailToRead
  <2>4. CASE \E f \in opened : ReadNote(f)
    BY <2>4 DEF ReadNote
  <2> QED
    BY <1>5, <2>1, <2>2, <2>3, <2>4 DEF Notes
<1>6. CASE \E p \in {c[2] : c \in citations} \union {NotePath(f) : f \in listed} : Follow(p)
  BY <1>6 DEF Follow
<1>7. CASE UNCHANGED vars
  BY <1>7 DEF vars, query
<1> QED
  BY <1>1, <1>2, <1>3, <1>4, <1>5, <1>6, <1>7

LEMMA MeterInit == Init => Meter
BY DEF Init, Meter

LEMMA MeterStep == Shape /\ Meter /\ [Next]_vars => Meter'
<1> SUFFICES ASSUME Shape, Meter, [Next]_vars PROVE Meter'
  OBVIOUS
<1>1. CASE MeterRests
  BY <1>1 DEF MeterRests, Meter, Exhausted, agentVars
<1>2. CASE LoadSchema
  BY <1>2 DEF LoadSchema, StartAgent, Enter, Reply, Meter, Exhausted, agentVars, history
<1>3. CASE Agent
  <2>0. stage = "agent"
    BY <1>3 DEF Agent, Tools, TimePasses, TakeTurn, BeginTurn, RequestAgain, Resend, CallTools,
       AnswersWithCalls, CallNoTool, ListOrFail, RefuseCall, Grep, Read, CallReturns,
       AgentGivesUp, LoopGivesUp, AgentFails, RaisesTransient, RaisesTerminal, AgentAnswers, Shape
  <2>1. CASE TimePasses
    BY <2>0, <2>1 DEF TimePasses, TimeRunsOut, query, history, Meter, Exhausted
  <2>2. CASE TakeTurn
    BY <2>0, <2>2 DEF TakeTurn, BeginTurn, MustStop, query, history, Meter, Exhausted
  <2>3. CASE RequestAgain \/ CallTools
    BY <2>0, <2>3 DEF RequestAgain, CallTools, Resend, AnswersWithCalls, query, history, Meter,
       Exhausted
  <2>4. CASE CallNoTool
    BY <2>0, <2>4 DEF CallNoTool, CallReturns, query, history, Meter, Exhausted
  <2>5. CASE RefuseCall
    BY <2>0, <2>5 DEF RefuseCall, CallReturns, Refuse, query, Meter, Exhausted
  <2>6. CASE ListOrFail \/ \E s \in Asked : Grep(s) \/ Read(s)
    <3>1. ~Exhausted /\ refused' = refused
      BY <2>6 DEF ListOrFail, Grep, Read, Charge, history
    <3>2. ~refused'
      BY <3>1, Zenon DEF Meter
    <3> QED
      BY <3>2, Zenon DEF Meter
  <2>7. CASE AgentGivesUp \/ AgentFails
    <3>1. at' = "off" /\ stage' = "answered" /\ UNCHANGED <<refused, charged, late>>
      BY <2>7 DEF AgentGivesUp, AgentFails, Rest, Enter, Reply, history
    <3>2. refused' => Exhausted'
      BY <3>1 DEF Meter, Exhausted
    <3> QED
      BY <3>1, <3>2 DEF Meter
  <2>8. CASE \E t \in Texts : AgentAnswers(t)
    BY <2>8 DEF AgentAnswers, Rest, Enter, history, Meter
  <2> QED
    BY <1>3, <2>1, <2>2, <2>3, <2>4, <2>5, <2>6, <2>7, <2>8 DEF Agent, Tools
<1> QED
  BY <1>1, <1>2, <1>3, OtherSteps DEF Next

-------------------------------------------------------------------------------
(* The scan: what it has found was there since it was due.                     *)

Seen ==
  stage \in {"ground", "list"} => existing \subseteq lately /\ NotesIn(files, Root) \subseteq lately

LEMMA SeenInit == Init => Seen
BY DEF Init, Seen

LEMMA Beginning == existing = {} /\ UNCHANGED <<files, existing>> /\ BeginScan => Seen'
BY DEF BeginScan, Seen

LEMMA SeenStep == Shape /\ Seen /\ [Next]_vars => Seen'
<1> SUFFICES ASSUME Shape, Seen, [Next]_vars PROVE Seen'
  OBVIOUS
<1> USE DEF Reply
<1>a. CASE stage' \notin {"ground", "list"}
  BY <1>a DEF Seen
<1>b. CASE UNCHANGED <<files, existing, lately, stage>>
  BY <1>b DEF Seen
<1>1. CASE Environment
  <2>1. UNCHANGED <<stage, existing>>
    BY <1>1 DEF Environment, WriteNote, Spoil, Delete, CommitNotes, RollBack, query, scan
  <2>2. CASE Watch
    BY <2>1, <2>2 DEF Watch, Seen
  <2>3. CASE UNCHANGED <<files, lately>>
    BY <2>1, <2>3, <1>b
  <2> QED
    BY <1>1, <2>2, <2>3 DEF Environment, WriteNote, Spoil, Delete, CommitNotes, RollBack, watched
<1>2. CASE \E c \in {"token", "other"} : Authenticate(c)
  BY <1>2, <1>a DEF Authenticate
<1>3. CASE Ask
  <2>1. PICK o \in {"query", "list", "note", "page"}, p \in Asked \union {<<>>} : Receive(o, p)
    BY <1>3 DEF Ask
  <2>2. CASE stage' = "list"
    BY <2>1, <2>2, Beginning DEF Receive, Shape, disk
  <2> QED
    BY <2>1, <2>2, <1>a DEF Receive
<1>4. CASE LoadSchema
  BY <1>4, <1>a DEF LoadSchema
<1>5. CASE Agent
  <2>1. CASE TimePasses \/ TakeTurn \/ RequestAgain \/ CallTools \/ Tools
    <3>1. TimePasses => at # "off"
      BY DEF TimePasses, Shape
    <3> QED
      BY <2>1, <3>1, <1>b, LoopSteps DEF LoopStep, query, scan, disk, watched
  <2>2. CASE AgentGivesUp \/ AgentFails
    BY <2>2, <1>a DEF AgentGivesUp, AgentFails
  <2>3. CASE \E t \in Texts : AgentAnswers(t)
    BY <2>3, Beginning DEF AgentAnswers, Shape, disk
  <2> QED
    BY <1>5, <2>1, <2>2, <2>3 DEF Agent
<1>6. CASE RefuseAtOnce \/ Ground
  BY <1>6, <1>a DEF RefuseAtOnce, Ground
<1>7. CASE Scan
  BY <1>7 DEF Scan, Seen, disk, watched
<1>8. CASE Notes
  <2>1. CASE OpenNote
    <3>1. stage' \notin {"ground", "list"}
      BY <2>1 DEF OpenNote
    <3> QED
      BY <3>1, <1>a
  <2>2. CASE ListIsDone
    BY <2>2, <1>a DEF ListIsDone
  <2>3. CASE \E f \in existing : NextNote(f)
    BY <2>3 DEF NextNote, StillToList, Seen, disk, watched
  <2>4. CASE \E f \in opened : FailToRead(f)
    BY <2>4, <1>a DEF FailToRead
  <2>5. CASE \E f \in opened : ReadNote(f)
    <3>1. CASE stage = "list" /\ UNCHANGED <<stage, watched>>
      BY <2>5, <3>1, <1>b DEF ReadNote, disk, watched
    <3>2. CASE stage = "open" /\ BeginScan
      BY <2>5, <3>2, Beginning DEF ReadNote, Shape, disk
    <3> QED
      BY <2>5, <3>1, <3>2, <1>a DEF ReadNote
  <2> QED
    BY <1>8, <2>1, <2>2, <2>3, <2>4, <2>5 DEF Notes
<1>9. CASE \E p \in {c[2] : c \in citations} \union {NotePath(f) : f \in listed} : Follow(p)
  BY <1>9, <1>a DEF Follow
<1>10. CASE UNCHANGED vars
  BY <1>10, <1>b DEF vars, query, scan, disk, watched
<1> QED
  BY <1>1, <1>2, <1>3, <1>4, <1>5, <1>6, <1>7, <1>8, <1>9, <1>10 DEF Next

-------------------------------------------------------------------------------
(* Grounding.                                                                  *)

GroundInv == Shape /\ Meter /\ Seen /\ AnswerIsGrounded

\* The reply and all that stands behind it.
Answered == <<reply, citations, refused, lately>>

LEMMA GroundStep ==
  ASSUME Shape, Meter, Seen, Ground
  PROVE  AnswerIsGrounded'
<1>1. CASE ~AllCited
  BY <1>1 DEF Ground, Reply, AnswerIsGrounded
<1>2. CASE AllCited
  <2>1. citations' = Cited /\ lately' = lately /\ existing \subseteq lately
    BY <1>2 DEF Ground, watched, Seen
  <2>2. Cited # {} /\ \A c \in Cited : c[1] = Vault
    BY DEF Ground, Hopeless
  <2>3. \A c \in Cited : Reaches(c[2], lately)
    BY <1>2, <2>1 DEF AllCited, Reaches
  <2>4. ~refused /\ refused' = refused
    BY DEF Ground, Meter, history
  <2>5. ~refused'
    BY <2>4, Zenon
  <2> QED
    BY <2>1, <2>2, <2>3, <2>5 DEF AnswerIsGrounded
<1> QED
  BY <1>1, <1>2

\* No other step gives an answer, and none touches what stands behind a given one.
LEMMA OnlyGroundAnswers ==
  ASSUME Shape, [Next]_vars, ~Ground
  PROVE  reply' # "answer" \/ UNCHANGED Answered
<1> USE DEF Reply, Answered, Shape, history, watched
<1>1. CASE Environment
  <2>1. UNCHANGED <<stage, reply, citations, refused>>
    BY <1>1 DEF Environment, WriteNote, Spoil, Delete, CommitNotes, RollBack, query, result
  <2>2. CASE Watch
    BY <2>1, <2>2 DEF Watch
  <2> QED
    BY <1>1, <2>1, <2>2 DEF Environment, WriteNote, Spoil, Delete, CommitNotes, RollBack
<1>2. CASE \E c \in {"token", "other"} : Authenticate(c)
  BY <1>2 DEF Authenticate
<1>3. CASE Ask
  <2>1. PICK o \in {"query", "list", "note", "page"}, p \in Asked \union {<<>>} : Receive(o, p)
    BY <1>3 DEF Ask
  <2> QED
    BY <2>1 DEF Receive
<1>4. CASE LoadSchema
  BY <1>4 DEF LoadSchema
<1>5. CASE Agent
  <2>1. CASE TimePasses \/ TakeTurn \/ RequestAgain \/ CallTools \/ Tools
    <3>1. TimePasses => at # "off"
      BY DEF TimePasses
    <3> QED
      BY <2>1, <3>1, LoopSteps DEF LoopStep, query, result
  <2>2. CASE AgentGivesUp \/ AgentFails
    BY <2>2 DEF AgentGivesUp, AgentFails
  <2>3. CASE \E t \in Texts : AgentAnswers(t)
    BY <2>3 DEF AgentAnswers, result
  <2> QED
    BY <1>5, <2>1, <2>2, <2>3 DEF Agent
<1>6. CASE RefuseAtOnce \/ Scan
  BY <1>6 DEF RefuseAtOnce, Scan, result
<1>7. CASE Notes
  <2>1. CASE OpenNote \/ ListIsDone
    BY <2>1 DEF OpenNote, ListIsDone
  <2>2. CASE \E f \in existing : NextNote(f)
    BY <2>2 DEF NextNote, result
  <2>3. CASE \E f \in opened : FailToRead(f)
    BY <2>3 DEF FailToRead
  <2>4. CASE \E f \in opened : ReadNote(f)
    BY <2>4 DEF ReadNote
  <2> QED
    BY <1>7, <2>1, <2>2, <2>3, <2>4 DEF Notes
<1>8. CASE \E p \in {c[2] : c \in citations} \union {NotePath(f) : f \in listed} : Follow(p)
  BY <1>8 DEF Follow
<1>9. CASE UNCHANGED vars
  BY <1>9 DEF vars, query, result
<1> QED
  BY <1>1, <1>2, <1>3, <1>4, <1>5, <1>6, <1>7, <1>8, <1>9 DEF Next

\* Of an answer every citation names a note that was in the vault since the model gave it,
\* and the model was refused nothing (grounding.py:50-71, tools.py:41-45, agent.py:104-106).
THEOREM AnswersAreGrounded == Spec => []AnswerIsGrounded
<1>1. Init => GroundInv
  <2>1. Init => AnswerIsGrounded
    BY DEF Init, AnswerIsGrounded
  <2> QED
    BY <2>1, ShapeInit, MeterInit, SeenInit DEF GroundInv
<1>2. GroundInv /\ [Next]_vars => GroundInv'
  <2> SUFFICES ASSUME GroundInv, [Next]_vars PROVE GroundInv'
    OBVIOUS
  <2>1. Shape' /\ Meter' /\ Seen'
    BY ShapeStep, MeterStep, SeenStep DEF GroundInv
  <2>2. AnswerIsGrounded'
    <3>1. CASE Ground
      BY <3>1, GroundStep DEF GroundInv
    <3>2. CASE ~Ground /\ reply' # "answer"
      BY <3>2 DEF AnswerIsGrounded
    <3>3. CASE ~Ground /\ UNCHANGED Answered
      BY <3>3 DEF Answered, AnswerIsGrounded, GroundInv
    <3> QED
      BY <3>1, <3>2, <3>3, OnlyGroundAnswers DEF GroundInv
  <2> QED
    BY <2>1, <2>2 DEF GroundInv
<1>3. GroundInv => AnswerIsGrounded
  BY DEF GroundInv
<1> QED
  BY <1>1, <1>2, <1>3, PTL DEF Spec

-------------------------------------------------------------------------------
(* Lists.                                                                      *)

\* What opens a file, and where.
Place ==
  /\ files \subseteq Initial \union Files
  /\ toScan \in 0..Len(Folders)
  /\ \A f, g \in opened : f = g
  /\ stage = "open" => op \in {"note", "page"}

\* Files in the folders that rglob has still to visit.
ToVisit ==
  {f \in Initial \union Files :
     \E k \in 1..Len(Folders) : k > Len(Folders) - toScan /\ Folders[k] = Front(f)}

\* While a list is made: no note that was there all the time has been missed so far.
Complete ==
  stage = "list" =>
    /\ listed \subseteq lately /\ opened \subseteq lately
    /\ lasting \subseteq NotesIn(files, Root)
    /\ lasting \subseteq listed \union existing \union opened \union ToVisit

LEMMA FoldersAreFinite == Len(Folders) \in Nat
BY QueryAssumption

LEMMA PlaceInit == Init => Place
BY FoldersAreFinite DEF Init, Place

LEMMA PlaceStep == Place /\ [Next]_vars => Place'
<1> SUFFICES ASSUME Place, [Next]_vars PROVE Place'
  OBVIOUS
<1> USE DEF Place, Reply
<1>1. CASE Environment
  <2>1. UNCHANGED <<toScan, opened, stage, op>>
    BY <1>1 DEF Environment, WriteNote, Spoil, Delete, CommitNotes, RollBack, query, scan
  <2>2. files' \subseteq Initial \union Files
    BY <1>1 DEF Environment, WriteNote, Spoil, Delete, CommitNotes, RollBack
  <2> QED
    BY <2>1, <2>2
<1>2. CASE \E c \in {"token", "other"} : Authenticate(c)
  BY <1>2 DEF Authenticate, scan, disk
<1>3. CASE Ask
  <2>1. PICK o \in {"query", "list", "note", "page"}, p \in Asked \union {<<>>} : Receive(o, p)
    BY <1>3 DEF Ask
  <2> QED
    <3>1. UNCHANGED <<files, opened>>
      BY <2>1 DEF Receive, scan, disk
    <3>2. toScan' = toScan \/ toScan' = Len(Folders)
      BY <2>1 DEF Receive, scan, BeginScan
    <3>3. stage' = "open" => op' \in {"note", "page"}
      BY <2>1 DEF Receive
    <3> QED
      BY <3>1, <3>2, <3>3, FoldersAreFinite
<1>4. CASE LoadSchema
  BY <1>4 DEF LoadSchema, scan, disk
<1>5. CASE Agent
  <2>1. CASE TimePasses \/ TakeTurn \/ RequestAgain \/ CallTools \/ Tools
    <3>1. UNCHANGED <<query, disk>>
      BY <2>1 DEF TimePasses, TakeTurn, RequestAgain, CallTools, Tools, CallNoTool, ListOrFail,
         RefuseCall, Grep, Read
    <3> QED
      BY <3>1 DEF query, scan, disk
  <2>2. CASE AgentGivesUp \/ AgentFails
    <3>1. UNCHANGED <<scan, files>> /\ stage' # "open"
      BY <2>2 DEF AgentGivesUp, AgentFails, disk
    <3> QED
      BY <3>1 DEF scan
  <2>3. CASE \E t \in Texts : AgentAnswers(t)
    BY <2>3, FoldersAreFinite DEF AgentAnswers, disk, BeginScan
  <2> QED
    BY <1>5, <2>1, <2>2, <2>3 DEF Agent
<1>6. CASE RefuseAtOnce \/ Scan \/ Ground
  BY <1>6, FoldersAreFinite DEF RefuseAtOnce, Scan, Ground, disk
<1>7. CASE Notes
  <2>1. CASE OpenNote \/ ListIsDone
    BY <2>1 DEF OpenNote, ListIsDone, scan, disk
  <2>2. CASE \E f \in existing : NextNote(f)
    BY <2>2 DEF NextNote, disk
  <2>3. CASE \E f \in opened : FailToRead(f)
    BY <2>3 DEF FailToRead, disk
  <2>4. CASE \E f \in opened : ReadNote(f)
    <3>1. opened' = {} /\ stage' # "open"
      BY <2>4 DEF ReadNote
    <3>2. toScan' = toScan \/ toScan' = Len(Folders)
      BY <2>4 DEF ReadNote, BeginScan
    <3>3. files' = files
      BY <2>4 DEF ReadNote, disk
    <3> QED
      BY <3>1, <3>2, <3>3, FoldersAreFinite
  <2> QED
    BY <1>7, <2>1, <2>2, <2>3, <2>4 DEF Notes
<1>8. CASE \E p \in {c[2] : c \in citations} \union {NotePath(f) : f \in listed} : Follow(p)
  BY <1>8 DEF Follow, disk
<1>9. CASE UNCHANGED vars
  BY <1>9 DEF vars, query, scan, disk
<1> QED
  BY <1>1, <1>2, <1>3, <1>4, <1>5, <1>6, <1>7, <1>8, <1>9 DEF Next

\* A scan that begins has every folder to visit, hence every note.
LEMMA AllToVisit ==
  ASSUME Place, BeginScan, UNCHANGED files,
         existing' = {}, opened' = {}, listed' = {}
  PROVE  Complete'
<1>1. NotesIn(files, Root) \subseteq NotesIn(Initial \union Files, Root)
  BY DEF Place, NotesIn, MarkdownFiles
<1>2. NotesIn(files, Root) \subseteq Initial \union Files
  BY DEF Place, NotesIn, MarkdownFiles
<1>3. NotesIn(files, Root) \subseteq ToVisit'
  <2>1. toScan' = Len(Folders)
    BY DEF BeginScan
  <2>2. SUFFICES ASSUME NEW f \in NotesIn(files, Root) PROVE f \in ToVisit'
    OBVIOUS
  <2>3. PICK k \in 1..Len(Folders) : Folders[k] = Front(f)
    BY <1>1, QueryAssumption
  <2> QED
    BY <1>2, <2>1, <2>3, FoldersAreFinite DEF ToVisit
<1> QED
  BY <1>3 DEF BeginScan, Complete

LEMMA CompleteStep == Shape /\ Place /\ Seen /\ Complete /\ [Next]_vars => Complete'
<1> SUFFICES ASSUME Shape, Place, Seen, Complete, [Next]_vars PROVE Complete'
  OBVIOUS
<1> USE DEF Reply
<1>a. CASE stage' # "list"
  BY <1>a DEF Complete
<1>b. CASE UNCHANGED <<files, scan, watched, stage>>
  BY <1>b DEF Complete, ToVisit, scan, watched
<1>1. CASE Environment
  <2>1. UNCHANGED <<stage, scan>>
    BY <1>1 DEF Environment, WriteNote, Spoil, Delete, CommitNotes, RollBack, query
  <2>2. CASE Watch /\ stage = "list"
    BY <2>1, <2>2 DEF Watch, Complete, ToVisit, scan
  <2>3. CASE UNCHANGED <<files, watched>>
    BY <2>1, <2>3, <1>b
  <2>4. Watch \/ UNCHANGED <<files, watched>>
    BY <1>1 DEF Environment, WriteNote, Spoil, Delete, CommitNotes, RollBack
  <2> QED
    BY <2>1, <2>2, <2>3, <2>4, <1>a
<1>2. CASE \E c \in {"token", "other"} : Authenticate(c)
  BY <1>2, <1>a DEF Authenticate
<1>3. CASE Ask
  <2>1. PICK o \in {"query", "list", "note", "page"}, p \in Asked \union {<<>>} : Receive(o, p)
    BY <1>3 DEF Ask
  <2>2. CASE stage' = "list"
    <3>1. BeginScan /\ UNCHANGED <<files, existing, opened, listed>> /\ stage = "admitted"
      BY <2>1, <2>2 DEF Receive, disk
    <3> QED
      BY <3>1, AllToVisit DEF Shape
  <2> QED
    BY <2>2, <1>a
<1>4. CASE LoadSchema
  BY <1>4, <1>a DEF LoadSchema
<1>5. CASE Agent
  <2>1. CASE TimePasses \/ TakeTurn \/ RequestAgain \/ CallTools \/ Tools
    <3>1. UNCHANGED <<query, disk, watched>>
      BY <2>1 DEF TimePasses, TakeTurn, RequestAgain, CallTools, Tools, CallNoTool, ListOrFail,
         RefuseCall, Grep, Read
    <3> QED
      BY <3>1, <1>b DEF query, disk
  <2>2. CASE AgentGivesUp \/ AgentFails
    BY <2>2, <1>a DEF AgentGivesUp, AgentFails
  <2>3. CASE \E t \in Texts : AgentAnswers(t)
    BY <2>3, <1>a DEF AgentAnswers
  <2> QED
    BY <1>5, <2>1, <2>2, <2>3 DEF Agent
<1>6. CASE RefuseAtOnce \/ Ground
  BY <1>6, <1>a DEF RefuseAtOnce, Ground
<1>7. CASE Scan
  <2>1. UNCHANGED <<files, opened, listed, lately, lasting, stage>>
    BY <1>7 DEF Scan, disk, watched
  <2>2. CASE stage = "list"
    <3>1. toScan \in 1..Len(Folders) /\ toScan' = toScan - 1
      BY <1>7, FoldersAreFinite DEF Scan, Place
    <3> DEFINE k == Len(Folders) - toScan + 1
    <3>2. existing' = existing \union {f \in NotesIn(files, Root) : Front(f) = Folders[k]}
      BY <1>7 DEF Scan
    <3>3. ASSUME NEW f \in ToVisit PROVE f \in ToVisit' \/ Front(f) = Folders[k]
      BY <3>1, <3>3, FoldersAreFinite DEF ToVisit
    <3>4. lasting \subseteq NotesIn(files, Root)
      BY <2>2 DEF Complete
    <3>5. lasting' \subseteq listed' \union existing' \union opened' \union ToVisit'
      BY <2>1, <2>2, <3>2, <3>3, <3>4 DEF Complete
    <3> QED
      BY <2>1, <3>5 DEF Complete
  <2> QED
    BY <2>1, <2>2, <1>a
<1>8. CASE Notes
  <2>1. CASE OpenNote
    <3>1. stage' # "list"
      BY <2>1 DEF OpenNote
    <3> QED
      BY <3>1, <1>a
  <2>2. CASE ListIsDone
    BY <2>2, <1>a DEF ListIsDone
  <2>3. CASE \E f \in existing : NextNote(f)
    <3>1. PICK f \in existing : NextNote(f)
      BY <2>3
    <3>2. /\ existing' = existing \ {f} /\ opened' = {f} \intersect files /\ opened = {}
          /\ UNCHANGED <<files, listed, lately, lasting, stage, toScan>>
      BY <3>1 DEF NextNote, StillToList, disk, watched
    <3>3. NotesIn(files, Root) \subseteq files
      BY DEF NotesIn, MarkdownFiles
    <3> QED
      BY <3>1, <3>2, <3>3 DEF Complete, ToVisit, Seen, NextNote
  <2>4. CASE \E f \in opened : FailToRead(f)
    BY <2>4, <1>a DEF FailToRead
  <2>5. CASE \E f \in opened : ReadNote(f)
    <3>0. PICK f \in opened : ReadNote(f)
      BY <2>5
    <3>1. CASE stage = "list" /\ UNCHANGED <<stage, watched, toScan>> /\ listed' = listed \union {f}
      <4>1. /\ opened = {f} /\ opened' = {} /\ listed' = listed \union {f}
            /\ UNCHANGED <<files, existing, lately, lasting, stage, toScan>>
        BY <3>0, <3>1 DEF ReadNote, Place, disk, watched
      <4> QED
        BY <4>1 DEF Complete, ToVisit
    <3>2. CASE stage = "open" /\ BeginScan /\ UNCHANGED listed
      <4>1. opened' = {} /\ UNCHANGED <<files, existing>>
        BY <3>0 DEF ReadNote, disk
      <4> QED
        BY <4>1, <3>2, AllToVisit DEF Shape
    <3> QED
      BY <3>0, <3>1, <3>2, <1>a DEF ReadNote
  <2> QED
    BY <1>8, <2>1, <2>2, <2>3, <2>4, <2>5 DEF Notes
<1>9. CASE \E p \in {c[2] : c \in citations} \union {NotePath(f) : f \in listed} : Follow(p)
  BY <1>9, <1>a DEF Follow
<1>10. CASE UNCHANGED vars
  BY <1>10, <1>b DEF vars, query, disk
<1> QED
  BY <1>1, <1>2, <1>3, <1>4, <1>5, <1>6, <1>7, <1>8, <1>9, <1>10 DEF Next

ListInv == Shape /\ Place /\ Seen /\ Complete /\ ListIsHonest

\* What is told of a list, and what it is held against.
Told == <<reply, op, lasting, listed, lately>>

LEMMA OnlyListingTells ==
  ASSUME Shape, [Next]_vars, ~ListIsDone, ~\E f \in opened : FailToRead(f)
  PROVE  reply' \notin {"listed", "server error"} \/ UNCHANGED Told
<1> USE DEF Reply, Told, Shape, watched
<1>1. CASE Environment
  <2>1. UNCHANGED <<stage, reply, op, listed>>
    BY <1>1 DEF Environment, WriteNote, Spoil, Delete, CommitNotes, RollBack, query, scan, result
  <2>2. CASE Watch
    BY <2>1, <2>2 DEF Watch
  <2> QED
    BY <1>1, <2>1, <2>2 DEF Environment, WriteNote, Spoil, Delete, CommitNotes, RollBack
<1>2. CASE \E c \in {"token", "other"} : Authenticate(c)
  BY <1>2 DEF Authenticate, scan
<1>3. CASE Ask
  <2>1. PICK o \in {"query", "list", "note", "page"}, p \in Asked \union {<<>>} : Receive(o, p)
    BY <1>3 DEF Ask
  <2> QED
    BY <2>1 DEF Receive
<1>4. CASE LoadSchema
  BY <1>4 DEF LoadSchema
<1>5. CASE Agent
  <2>1. CASE TimePasses \/ TakeTurn \/ RequestAgain \/ CallTools \/ Tools
    <3>1. TimePasses => at # "off"
      BY DEF TimePasses
    <3> QED
      BY <2>1, <3>1, LoopSteps DEF LoopStep, query, scan, result
  <2>2. CASE AgentGivesUp \/ AgentFails
    BY <2>2 DEF AgentGivesUp, AgentFails
  <2>3. CASE \E t \in Texts : AgentAnswers(t)
    BY <2>3 DEF AgentAnswers, result
  <2> QED
    BY <1>5, <2>1, <2>2, <2>3 DEF Agent
<1>6. CASE RefuseAtOnce \/ Scan \/ Ground
  BY <1>6 DEF RefuseAtOnce, Scan, Ground, result
<1>7. CASE Notes
  <2>1. CASE OpenNote
    BY <2>1 DEF OpenNote
  <2>2. CASE \E f \in existing : NextNote(f)
    BY <2>2 DEF NextNote, result
  <2>3. CASE \E f \in opened : ReadNote(f)
    BY <2>3 DEF ReadNote
  <2> QED
    BY <1>7, <2>1, <2>2, <2>3 DEF Notes
<1>8. CASE \E p \in {c[2] : c \in citations} \union {NotePath(f) : f \in listed} : Follow(p)
  BY <1>8 DEF Follow
<1>9. CASE UNCHANGED vars
  BY <1>9 DEF vars, query, scan, result
<1> QED
  BY <1>1, <1>2, <1>3, <1>4, <1>5, <1>6, <1>7, <1>8, <1>9 DEF Next

\* A finished scan has nothing left to visit, so the list misses no lasting note.
LEMMA DoneIsHonest ==
  ASSUME Complete, ListIsDone
  PROVE  ListIsHonest'
<1>1. toScan = 0 /\ existing = {} /\ opened = {}
  BY DEF ListIsDone
<1>2. ToVisit = {}
  BY <1>1, FoldersAreFinite DEF ToVisit
<1>3. lasting \subseteq listed /\ listed \subseteq lately
  BY <1>1, <1>2 DEF Complete, ListIsDone
<1>4. reply' = "listed" /\ UNCHANGED <<listed, lately, lasting>>
  BY DEF ListIsDone, Reply, scan, watched
<1> QED
  BY <1>3, <1>4 DEF ListIsHonest

\* The note that cannot be read was there when it was opened, and is not now.
LEMMA FailureIsHonest ==
  ASSUME Shape, Place, Complete, NEW f \in opened, FailToRead(f)
  PROVE  ListIsHonest'
<1>1. CASE f \in files
  BY <1>1 DEF FailToRead, Reply, ListIsHonest
<1>2. CASE f \notin files /\ op = "list"
  <2>1. stage = "list"
    BY <1>2 DEF Shape, Place
  <2>2. f \in lately
    BY <2>1 DEF Complete
  <2>3. f \notin lasting
    BY <1>2, <2>1 DEF Complete, NotesIn, MarkdownFiles
  <2> QED
    BY <1>2, <2>2, <2>3 DEF FailToRead, Reply, ListIsHonest, watched
<1>3. CASE f \notin files /\ op # "list"
  BY <1>3 DEF FailToRead, Reply, ListIsHonest
<1> QED
  BY <1>1, <1>2, <1>3

\* A list has all the notes that were in the vault while it was made and none that was not,
\* whatever was written, rolled back, deleted or spoilt meanwhile (notes.py:93-108).
THEOREM ListsAreHonest == Spec => []ListIsHonest
<1>1. Init => ListInv
  <2>1. Init => Complete /\ ListIsHonest
    BY DEF Init, Complete, ListIsHonest
  <2> QED
    BY <2>1, ShapeInit, PlaceInit, SeenInit DEF ListInv
<1>2. ListInv /\ [Next]_vars => ListInv'
  <2> SUFFICES ASSUME ListInv, [Next]_vars PROVE ListInv'
    OBVIOUS
  <2>1. Shape' /\ Place' /\ Seen' /\ Complete'
    BY ShapeStep, PlaceStep, SeenStep, CompleteStep DEF ListInv
  <2>2. ListIsHonest'
    <3>1. CASE ListIsDone
      BY <3>1, DoneIsHonest DEF ListInv
    <3>2. CASE \E f \in opened : FailToRead(f)
      BY <3>2, FailureIsHonest DEF ListInv
    <3>3. CASE reply' \notin {"listed", "server error"}
      BY <3>3 DEF ListIsHonest
    <3>4. CASE UNCHANGED Told
      BY <3>4 DEF Told, ListIsHonest, ListInv
    <3> QED
      BY <3>1, <3>2, <3>3, <3>4, OnlyListingTells DEF ListInv
  <2> QED
    BY <2>1, <2>2 DEF ListInv
<1>3. ListInv => ListIsHonest
  BY DEF ListInv
<1> QED
  BY <1>1, <1>2, <1>3, PTL DEF Spec

-------------------------------------------------------------------------------
(* What readers see.                                                           *)

LEMMA PrefixIsTransitive ==
  ASSUME NEW p \in Seq(STRING), NEW q \in Seq(STRING), NEW r \in Seq(STRING),
         IsPrefix(p, q), IsPrefix(q, r)
  PROVE  IsPrefix(p, r)
<1>1. Len(p) \in Nat /\ Len(q) \in Nat /\ Len(r) \in Nat
  OBVIOUS
<1>2. Len(p) <= Len(q) /\ Len(q) <= Len(r) /\ Len(p) <= Len(r)
  BY <1>1 DEF IsPrefix
<1>3. SubSeq(p, 1, Len(p)) = SubSeq(q, 1, Len(p))
  BY DEF IsPrefix
<1>4. SubSeq(q, 1, Len(q)) = SubSeq(r, 1, Len(q))
  BY DEF IsPrefix
<1>5. \A k \in 1..Len(q) : q[k] = r[k]
  <2> SUFFICES ASSUME NEW k \in 1..Len(q) PROVE q[k] = r[k]
    OBVIOUS
  <2>1. SubSeq(q, 1, Len(q))[k] = q[k] /\ SubSeq(r, 1, Len(q))[k] = r[k]
    BY <1>1, <1>2
  <2> QED
    BY <2>1, <1>4
<1>6. SubSeq(q, 1, Len(p)) = SubSeq(r, 1, Len(p))
  BY <1>1, <1>2, <1>5
<1> QED
  BY <1>2, <1>3, <1>6 DEF IsPrefix

LEMMA RootIsReal == Real(Root) = Root /\ InVault(Root)
<1>1. Root \in Seq(STRING)
  BY FilesAssumption
<1>2. \A k \in 1..Len(Root) : SubSeq(Root, 1, k) \notin DOMAIN Links
  <2> SUFFICES ASSUME NEW k \in 1..Len(Root), SubSeq(Root, 1, k) \in DOMAIN Links PROVE FALSE
    OBVIOUS
  <2>1. IsPrefix(SubSeq(Root, 1, k), Root)
    BY <1>1 DEF IsPrefix
  <2> QED
    BY <2>1, FilesAssumption
<1>3. Real(Root) = Root
  BY <1>2 DEF Real
<1>4. InVault(Root)
  BY <1>1 DEF InVault, IsPrefix
<1> QED
  BY <1>3, <1>4

\* Where no link is on the way, the path opened is the path asked for.
LEMMA ResolvedIsReal ==
  ASSUME NEW s \in Seq(STRING), ToolResolves(s)
  PROVE  Real(Root \o s) = Root \o s /\ InVault(Root \o s) /\ Root \o s \in Seq(STRING)
<1>1. Root \in Seq(STRING) /\ Root \o s \in Seq(STRING)
  BY FilesAssumption
<1>2. CASE s = <<>>
  BY <1>1, <1>2, RootIsReal
<1>3. CASE s # <<>>
  <2>0. Resolves(s)
    BY <1>3 DEF ToolResolves
  <2>1. \A k \in 1..Len(Root \o s) : SubSeq(Root \o s, 1, k) \notin DOMAIN Links
    <3> SUFFICES ASSUME NEW k \in 1..Len(Root \o s), SubSeq(Root \o s, 1, k) \in DOMAIN Links
                 PROVE FALSE
      OBVIOUS
    <3>1. CASE k <= Len(Root)
      <4>1. SubSeq(Root \o s, 1, k) = SubSeq(Root, 1, k)
        BY <1>1, <3>1
      <4>2. IsPrefix(SubSeq(Root, 1, k), Root)
        BY <1>1, <3>1 DEF IsPrefix
      <4> QED
        BY <4>1, <4>2, FilesAssumption
    <3>2. CASE k > Len(Root)
      <4>1. k - Len(Root) \in 1..Len(s)
        BY <1>1, <3>2
      <4>2. SubSeq(Root \o s, 1, k) = Root \o SubSeq(s, 1, k - Len(Root))
        BY <1>1, <3>2, <4>1
      <4>3. k - Len(Root) \in DOMAIN s
        BY <4>1
      <4>4. Root \o SubSeq(s, 1, k - Len(Root)) \notin DOMAIN Links
        BY <2>0, <4>3, Zenon DEF Resolves
      <4> QED
        BY <4>2, <4>4
    <3> QED
      BY <1>1, <3>1, <3>2
  <2>2. Real(Root \o s) = Root \o s
    BY <2>1 DEF Real
  <2> QED
    BY <1>1, <2>0, <2>2 DEF Resolves
<1> QED
  BY <1>2, <1>3

\* What was shown, is read next, or was found.
Inside == \A f \in shown \union opened \union existing : InVault(f)

LEMMA ToolsStayInside ==
  ASSUME Place, NEW s \in Seq(STRING), ToolResolves(s)
  PROVE  \A f \in GrepReads(files, s) \union ReadReads(files, s) : InVault(f)
<1>1. Real(Root \o s) = Root \o s /\ InVault(Root \o s) /\ Root \o s \in Seq(STRING)
  BY ResolvedIsReal
<1>2. ASSUME NEW p \in MarkdownFiles(files, Root \o s) PROVE InVault(Real(p))
  <2>1. p \in files /\ IsPrefix(Root \o s, p)
    BY <1>1 DEF MarkdownFiles
  <2>2. p \in Seq(STRING) /\ Real(p) = p
    BY <2>1, QueryAssumption DEF Place
  <2> QED
    BY <1>1, <2>1, <2>2, PrefixIsTransitive, FilesAssumption DEF InVault
<1> QED
  BY <1>1, <1>2 DEF GrepReads, ReadReads

LEMMA InsideStep == Place /\ Inside /\ [Next]_vars => Inside'
<1> SUFFICES ASSUME Place, Inside, [Next]_vars PROVE Inside'
  OBVIOUS
<1> USE DEF Inside
<1>a. CASE UNCHANGED <<shown, opened, existing>>
  BY <1>a
<1>1. CASE Environment
  <2>1. UNCHANGED <<scan, shown>>
    BY <1>1 DEF Environment, WriteNote, Spoil, Delete, CommitNotes, RollBack, query, history
  <2> QED
    BY <2>1, <1>a DEF scan
<1>2. CASE (\E c \in {"token", "other"} : Authenticate(c)) \/ LoadSchema
  BY <1>2, <1>a DEF Authenticate, LoadSchema, scan, history
<1>3. CASE Ask
  <2>1. PICK o \in {"query", "list", "note", "page"}, p \in Asked \union {<<>>} : Receive(o, p)
    BY <1>3 DEF Ask
  <2>2. UNCHANGED <<shown, opened, existing>>
    BY <2>1 DEF Receive, scan, history
  <2> QED
    BY <2>2, <1>a
<1>4. CASE Agent
  <2>1. CASE TimePasses \/ TakeTurn \/ RequestAgain \/ CallTools \/ CallNoTool \/ ListOrFail
             \/ RefuseCall
    <3>1. UNCHANGED <<query, shown>>
      BY <2>1 DEF TimePasses, TakeTurn, RequestAgain, CallTools, CallNoTool, ListOrFail,
         RefuseCall, history
    <3> QED
      BY <3>1, <1>a DEF query, scan
  <2>2. CASE \E s \in Asked : Grep(s) \/ Read(s)
    <3>1. PICK s \in Asked : Grep(s) \/ Read(s)
      BY <2>2
    <3>2. s \in Seq(STRING) /\ ToolResolves(s)
      BY <3>1, QueryAssumption DEF Grep, Read
    <3>3. /\ shown' \subseteq shown \union GrepReads(files, s) \union ReadReads(files, s)
          /\ UNCHANGED query
      BY <3>1 DEF Grep, Read
    <3> QED
      BY <3>2, <3>3, ToolsStayInside DEF query, scan
  <2>3. CASE AgentGivesUp \/ AgentFails \/ \E t \in Texts : AgentAnswers(t)
    BY <2>3, <1>a DEF AgentGivesUp, AgentFails, AgentAnswers, scan, history
  <2> QED
    BY <1>4, <2>1, <2>2, <2>3 DEF Agent, Tools
<1>5. CASE RefuseAtOnce \/ Ground
  BY <1>5 DEF RefuseAtOnce, Ground, history
<1>6. CASE Scan
  <2>1. \A f \in NotesIn(files, Root) : InVault(f)
    BY RootIsReal DEF NotesIn, MarkdownFiles, InVault
  <2>2. UNCHANGED <<shown, opened>> /\ existing' \subseteq existing \union NotesIn(files, Root)
    BY <1>6 DEF Scan, history
  <2> QED
    BY <2>1, <2>2
<1>7. CASE Notes
  <2>1. CASE OpenNote
    <3>1. CASE Readable(files, wanted)
      <4>1. Root \o wanted \in files /\ InVault(Real(Root \o wanted))
        BY <3>1 DEF Readable, Resolves
      <4>2. Real(Root \o wanted) = Root \o wanted
        BY <4>1, QueryAssumption DEF Place
      <4>3. opened' = {Root \o wanted} /\ UNCHANGED <<shown, existing>>
        BY <2>1, <3>1 DEF OpenNote, history
      <4> QED
        BY <4>1, <4>2, <4>3
    <3>2. CASE ~Readable(files, wanted)
      BY <2>1, <3>2, <1>a DEF OpenNote, history
    <3> QED
      BY <3>1, <3>2
  <2>2. CASE \E f \in existing : NextNote(f)
    BY <2>2 DEF NextNote, StillToList, history
  <2>3. CASE \E f \in opened : FailToRead(f)
    BY <2>3 DEF FailToRead, history
  <2>4. CASE \E f \in opened : ReadNote(f)
    <3>1. PICK f \in opened : ReadNote(f)
      BY <2>4
    <3>2. opened' = {} /\ shown' = shown \union {f} /\ existing' = existing
      BY <3>1 DEF ReadNote
    <3> QED
      BY <3>2
  <2>5. CASE ListIsDone
    BY <2>5, <1>a DEF ListIsDone, scan, history
  <2> QED
    BY <1>7, <2>1, <2>2, <2>3, <2>4, <2>5 DEF Notes
<1>8. CASE \E p \in {c[2] : c \in citations} \union {NotePath(f) : f \in listed} : Follow(p)
  BY <1>8, <1>a DEF Follow, history
<1>9. CASE UNCHANGED vars
  BY <1>9, <1>a DEF vars, query, scan, history
<1> QED
  BY <1>1, <1>2, <1>3, <1>4, <1>5, <1>6, <1>7, <1>8, <1>9 DEF Next

\* No tool and no route returns text of a file outside the vault, for any paths the model
\* and the clients may ask for and any links on the disk (paths.py:119-165, notes.py:50-54).
THEOREM ReadersStayInTheVault == Spec => []ReadersSeeOnlyTheVault
<1>1. Init => Place /\ Inside
  BY PlaceInit DEF Init, Inside
<1>2. Place /\ Inside /\ [Next]_vars => (Place /\ Inside)'
  BY PlaceStep, InsideStep
<1>3. Inside => ReadersSeeOnlyTheVault
  BY DEF Inside, ReadersSeeOnlyTheVault
<1> QED
  BY <1>1, <1>2, <1>3, PTL DEF Spec

-------------------------------------------------------------------------------
(* Types.                                                                      *)

DiskTypeOK ==
  /\ files \subseteq Initial \union Files
  /\ drafts \subseteq Files \intersect files
  /\ malformed \subseteq Files \intersect files
  /\ drafts \intersect malformed = {}
  /\ changes \in 0..MaxChanges
  /\ lately \subseteq Files /\ lasting \subseteq lately

Wanted == Asked \union {<<>>} \union {c[2] : c \in Targets} \union {NotePath(f) : f \in Files}

QueryTypeOK ==
  /\ stage \in Stages
  /\ op \in {"none", "query", "list", "note", "page"}
  /\ wanted \in Wanted
  /\ text \in Texts \union {{}}
  /\ existing \subseteq Files /\ listed \subseteq Files
  /\ opened \subseteq Initial \union Files
  /\ stage = "list" => opened \subseteq Files
  /\ reply \in Answers \union Errors \union {"none"}
  /\ citations \subseteq Targets
  /\ shown \subseteq Initial \union Files
  /\ refused \in BOOLEAN

QueryTypes == AgentTypeOK /\ DiskTypeOK /\ QueryTypeOK

\* Notes of the vault are files that can be notes.
LEMMA NotesAreFiles ==
  ASSUME NEW some, some \subseteq Initial \union Files
  PROVE  NotesIn(some, Root) \subseteq Files
<1>1. ASSUME NEW f \in NotesIn(some, Root)
      PROVE  f \in Initial \union Files /\ InVault(f) /\ IsMarkdown(f) /\ Last(f) # SchemaName
  BY RootIsReal DEF NotesIn, MarkdownFiles, InVault
<1> QED BY <1>1, QueryAssumption

LEMMA QueryTypesInit == Init => QueryTypes
<1> SUFFICES ASSUME Init PROVE QueryTypes
  OBVIOUS
<1>1. AgentTypeOK
  <2>1. at = "off" /\ turn = 0 /\ calls = 0 /\ tries = 0 /\ charged = 0
    BY DEF Init, AgentOff
  <2>3. (at = "dispatch") <=> (calls > 0)
    BY <2>1
  <2>4. late \in BOOLEAN
    BY DEF Init
  <2>2. 0 \in 0..HardCap /\ 0 \in 0..MaxCallsPerTurn /\ 0 \in 0..MaxToolCalls /\ 0 \in 0..ClientRetries
    BY AgentAssumption DEF HardCap
  <2> QED BY <2>1, <2>2, <2>3, <2>4, Zenon DEF AgentTypeOK
<1>2. DiskTypeOK
  BY QueryAssumption DEF Init, DiskTypeOK
<1>3. QueryTypeOK
  BY DEF Init, QueryTypeOK, Stages, Wanted
<1> QED BY <1>1, <1>2, <1>3 DEF QueryTypes

LEMMA DiskTypeStep == DiskTypeOK /\ [Next]_vars => DiskTypeOK'
<1> SUFFICES ASSUME DiskTypeOK, [Next]_vars PROVE DiskTypeOK'
  OBVIOUS
<1> USE DEF DiskTypeOK
<1>1. CASE UNCHANGED <<disk, watched>>
  BY <1>1 DEF disk, watched
<1>2. ASSUME UNCHANGED disk, BeginScan PROVE DiskTypeOK'
  BY <1>2, NotesAreFiles DEF BeginScan, disk
<1>3. CASE Environment
  <2>1. /\ files' \subseteq Initial \union Files
        /\ drafts' \subseteq Files \intersect files'
        /\ malformed' \subseteq Files \intersect files'
        /\ drafts' \intersect malformed' = {}
    <3>1. ASSUME NEW f \in Files, WriteNote(f)
          PROVE  /\ f \notin files /\ files' = files \union {f} /\ drafts' = drafts \union {f}
                 /\ malformed' = malformed
      BY <3>1 DEF WriteNote
    <3>2. ASSUME NEW f \in Files, Spoil(f)
          PROVE  /\ f \in files \ drafts /\ malformed' = malformed \union {f}
                 /\ UNCHANGED <<files, drafts>>
      BY <3>2 DEF Spoil
    <3>3. ASSUME NEW f \in Files \union {SchemaFile}, Delete(f)
          PROVE  /\ f \notin drafts /\ files' = files \ {f} /\ malformed' = malformed \ {f}
                 /\ drafts' = drafts
      BY <3>3 DEF Delete
    <3>4. CommitNotes \/ RollBack =>
            /\ drafts' = {} /\ malformed' = malformed
            /\ files' = files \/ files' = files \ drafts
      BY DEF CommitNotes, RollBack
    <3> QED BY <1>3, <3>1, <3>2, <3>3, <3>4 DEF Environment
  <2>2. changes' \in 0..MaxChanges
    BY <1>3, QueryAssumption DEF Environment, WriteNote, Spoil, Delete, CommitNotes, RollBack, Change
  <2>3. lately' \subseteq Files /\ lasting' \subseteq lately'
    <3>1. Watch \/ UNCHANGED watched
      BY <1>3 DEF Environment, WriteNote, Spoil, Delete, CommitNotes, RollBack
    <3>2. NotesIn(files', Root) \subseteq Files
      BY <2>1, NotesAreFiles
    <3> QED BY <3>1, <3>2 DEF Watch, watched
  <2> QED BY <2>1, <2>2, <2>3
<1>4. CASE (\E c \in {"token", "other"} : Authenticate(c)) \/ LoadSchema
  BY <1>1, <1>4 DEF Authenticate, LoadSchema
<1>5. CASE Ask
  <2>1. PICK o \in {"query", "list", "note", "page"}, p \in Asked \union {<<>>} : Receive(o, p)
    BY <1>5 DEF Ask
  <2> QED BY <1>1, <1>2, <2>1 DEF Receive
<1>6. CASE Agent
  <2>1. CASE \E t \in Texts : AgentAnswers(t)
    BY <1>2, <2>1 DEF AgentAnswers
  <2> QED BY <1>1, <1>6, <2>1 DEF Agent, TimePasses, TakeTurn, RequestAgain, CallTools, Tools,
         CallNoTool, ListOrFail, RefuseCall, Grep, Read, AgentGivesUp, AgentFails
<1>7. CASE RefuseAtOnce \/ Scan \/ Ground \/ UNCHANGED vars
  BY <1>1, <1>7 DEF RefuseAtOnce, Scan, Ground, vars
<1>8. CASE Notes
  <2>1. CASE \E f \in opened : ReadNote(f)
    BY <1>1, <1>2, <2>1 DEF ReadNote
  <2>2. CASE OpenNote \/ ListIsDone \/ (\E f \in existing : NextNote(f)) \/ \E f \in opened : FailToRead(f)
    BY <1>1, <2>2 DEF OpenNote, ListIsDone, NextNote, FailToRead
  <2> QED BY <1>8, <2>1, <2>2 DEF Notes
<1>9. CASE \E p \in {c[2] : c \in citations} \union {NotePath(f) : f \in listed} : Follow(p)
  BY <1>1, <1>9 DEF Follow
<1> QED BY <1>3, <1>4, <1>5, <1>6, <1>7, <1>8, <1>9 DEF Next

LEMMA AgentTypeStep == AgentTypeOK /\ [Next]_vars => AgentTypeOK'
<1> SUFFICES ASSUME AgentTypeOK, [Next]_vars PROVE AgentTypeOK'
  OBVIOUS
<1>1. CASE UNCHANGED agentVars
  BY <1>1, AgentSteps
<1>2. CASE LoadSchema
  BY <1>1, <1>2, EnterSteps DEF LoadSchema, StartAgent
<1>3. CASE Agent
  <2>1. CASE TimePasses \/ TakeTurn \/ RequestAgain \/ CallTools
    BY <2>1, AgentSteps DEF TimePasses, TakeTurn, RequestAgain, CallTools
  <2>2. CASE Tools
    BY <2>2, AgentSteps DEF Tools, CallNoTool, ListOrFail, RefuseCall, Refuse, Grep, Read
  <2>3. CASE AgentGivesUp \/ AgentFails \/ \E t \in Texts : AgentAnswers(t)
    <3>1. Enter("off") /\ UNCHANGED <<charged, late>>
      BY <2>3 DEF AgentGivesUp, AgentFails, AgentAnswers, Rest
    <3> QED BY <3>1, EnterSteps
  <2> QED BY <1>3, <2>1, <2>2, <2>3 DEF Agent
<1>4. Environment \/ (\E c \in {"token", "other"} : Authenticate(c)) \/ Ask \/ RefuseAtOnce \/ Scan
        \/ Ground \/ Notes \/ UNCHANGED vars
        \/ (\E p \in {c[2] : c \in citations} \union {NotePath(f) : f \in listed} : Follow(p))
      => UNCHANGED agentVars
  BY OtherSteps DEF MeterRests
<1> QED BY <1>1, <1>2, <1>3, <1>4 DEF Next

\* A citation names a target of an answer.
LEMMA CitedAreTargets == text \in Texts \union {{}} => Cited \subseteq Targets
<1> SUFFICES ASSUME text \in Texts, NEW l \in text PROVE Citation(l) \in Targets
  BY DEF Cited
<1>1. l.vault \in UNION {{m.vault : m \in t} : t \in Texts}
  OBVIOUS
<1>2. l.target \in UNION {{m.target : m \in t} : t \in Texts}
  OBVIOUS
<1>3. (IF l.vault = Here THEN Vault ELSE l.vault)
        \in ({Vault} \union UNION {{m.vault : m \in t} : t \in Texts})
  BY <1>1
<1> QED BY <1>2, <1>3 DEF Citation, Targets

\* What the tools show are files.
LEMMA ShownAreFiles ==
  ASSUME DiskTypeOK, NEW s
  PROVE  GrepReads(files, s) \union ReadReads(files, s) \subseteq Initial \union Files
<1>1. \A p \in MarkdownFiles(files, Root \o s) : p \in files /\ Real(p) = p
  BY QueryAssumption DEF MarkdownFiles, DiskTypeOK
<1> QED BY <1>1 DEF GrepReads, ReadReads, DiskTypeOK

LEMMA QueryTypeStep ==
  ASSUME Shape, DiskTypeOK, QueryTypeOK, [Next]_vars
  PROVE  QueryTypeOK'
<1> USE DEF QueryTypeOK
<1>1. CASE UNCHANGED <<query, shown, refused>>
  BY <1>1 DEF query, scan, result
<1>2. CASE Environment
  BY <1>1, <1>2 DEF Environment, WriteNote, Spoil, Delete, CommitNotes, RollBack, history
<1>3. CASE \E c \in {"token", "other"} : Authenticate(c)
  BY <1>3 DEF Authenticate, Reply, scan, history, Stages, Errors
<1>4. CASE Ask
  <2>1. PICK o \in {"query", "list", "note", "page"}, p \in Asked \union {<<>>} : Receive(o, p)
    BY <1>4 DEF Ask
  <2>2. /\ UNCHANGED <<text, citations, shown, refused, existing, opened, listed>>
        /\ op' = o /\ wanted' = p /\ stage' \in Stages
        /\ reply' \in Errors \union {reply} /\ opened = {}
    BY <2>1 DEF Shape, Receive, Reply, scan, history, Stages, Errors
  <2> QED BY <2>2 DEF Wanted
<1>5. CASE LoadSchema
  BY <1>5 DEF LoadSchema, Reply, scan, history, Stages, Errors
<1>6. CASE Agent
  <2>1. CASE TimePasses \/ TakeTurn \/ RequestAgain \/ CallTools \/ CallNoTool \/ ListOrFail
    BY <1>1, <2>1 DEF TimePasses, TakeTurn, RequestAgain, CallTools, CallNoTool, ListOrFail, history
  <2>2. CASE RefuseCall
    BY <2>2 DEF RefuseCall, query, scan, result
  <2>3. CASE \E s \in Asked : Grep(s) \/ Read(s)
    <3>1. PICK s \in Asked : Grep(s) \/ Read(s)
      BY <2>3
    <3>2. /\ shown' \subseteq shown \union GrepReads(files, s) \union ReadReads(files, s)
          /\ UNCHANGED query /\ refused' = refused
      BY <3>1 DEF Grep, Read
    <3> QED BY <3>2, ShownAreFiles DEF query, scan, result
  <2>4. CASE AgentGivesUp \/ AgentFails
    BY <2>4 DEF AgentGivesUp, AgentFails, Reply, scan, history, Stages, Answers, Errors
  <2>5. CASE \E t \in Texts : AgentAnswers(t)
    BY <2>5 DEF AgentAnswers, result, history, Stages
  <2> QED BY <1>6, <2>1, <2>2, <2>3, <2>4, <2>5 DEF Agent, Tools
<1>7. CASE RefuseAtOnce
  BY <1>7 DEF RefuseAtOnce, Reply, history, Stages, Answers
<1>8. CASE Scan
  <2>1. existing' \subseteq existing \union NotesIn(files, Root)
    BY <1>8 DEF Scan
  <2>2. existing' \subseteq Files
    BY <2>1, NotesAreFiles DEF DiskTypeOK
  <2> QED BY <1>8, <2>2 DEF Scan, result, history
<1>9. CASE Ground
  <2>1. citations' \subseteq Targets
    BY <1>9, CitedAreTargets DEF Ground
  <2> QED BY <1>9, <2>1 DEF Ground, Reply, history, Stages, Answers
<1>10. CASE Notes
  <2>1. CASE OpenNote
    <3>1. opened' \subseteq Initial \union Files
      <4>1. CASE Readable(files, wanted)
        <5>1. opened' = {Root \o wanted}
          BY <2>1, <4>1 DEF OpenNote
        <5>2. Root \o wanted \in files
          BY <4>1 DEF Readable
        <5> QED BY <5>1, <5>2 DEF DiskTypeOK
      <4>2. CASE ~Readable(files, wanted)
        BY <2>1, <4>2 DEF OpenNote
      <4> QED BY <4>1, <4>2
    <3> QED BY <2>1, <3>1 DEF OpenNote, Reply, history, Stages, Errors
  <2>2. CASE \E f \in existing : NextNote(f)
    BY <2>2 DEF NextNote, StillToList, result, history, DiskTypeOK
  <2>3. CASE \E f \in opened : FailToRead(f)
    BY <2>3 DEF FailToRead, Reply, history, Stages, Errors
  <2>4. CASE \E f \in opened : ReadNote(f)
    <3>1. PICK f \in opened : ReadNote(f)
      BY <2>4
    <3>2. /\ f \in Initial \union Files /\ opened' = {} /\ shown' = shown \union {f}
          /\ UNCHANGED <<op, wanted, text, existing, citations, refused>>
          /\ reply' \in {reply, "note", "not registered", "bad request"} /\ stage' \in Stages
      BY <3>1 DEF ReadNote, Reply, Stages
    <3>3. listed' \subseteq Files
      <4>1. listed' = listed \/ (stage = "list" /\ listed' = listed \union {f})
        BY <3>1 DEF ReadNote
      <4> QED BY <4>1
    <3> QED BY <3>2, <3>3 DEF Answers, Errors
  <2>5. CASE ListIsDone
    BY <2>5 DEF ListIsDone, Reply, scan, history, Stages, Answers
  <2> QED BY <1>10, <2>1, <2>2, <2>3, <2>4, <2>5 DEF Notes
<1>11. CASE \E p \in {c[2] : c \in citations} \union {NotePath(f) : f \in listed} : Follow(p)
  <2>1. PICK p \in {c[2] : c \in citations} \union {NotePath(f) : f \in listed} : Follow(p)
    BY <1>11
  <2>2. p \in Wanted
    BY DEF Wanted
  <2> QED BY <2>1, <2>2 DEF Follow, history, Stages
<1>12. CASE UNCHANGED vars
  BY <1>1, <1>12 DEF vars, history
<1> QED BY <1>2, <1>3, <1>4, <1>5, <1>6, <1>7, <1>8, <1>9, <1>10, <1>11, <1>12 DEF Next

\* Every variable of a request, of the loop and of the disk keeps its type, for any vault, model
\* and number of changes.
THEOREM QueryTypeCorrect == Spec => []TypeOK
<1>1. Init => Shape /\ Place /\ QueryTypes
  BY ShapeInit, PlaceInit, QueryTypesInit
<1>2. Shape /\ Place /\ QueryTypes /\ [Next]_vars => (Shape /\ Place /\ QueryTypes)'
  <2> SUFFICES ASSUME Shape, Place, QueryTypes, [Next]_vars PROVE Shape' /\ Place' /\ QueryTypes'
    OBVIOUS
  <2>1. AgentTypeOK' /\ DiskTypeOK' /\ QueryTypeOK'
    BY AgentTypeStep, DiskTypeStep, QueryTypeStep DEF QueryTypes
  <2>2. QueryTypes'
    BY <2>1 DEF QueryTypes
  <2> QED BY <2>2, ShapeStep, PlaceStep
<1>3. Shape /\ Place /\ QueryTypes => TypeOK
  BY DEF Shape, Place, QueryTypes, DiskTypeOK, QueryTypeOK, Wanted, TypeOK
<1> QED
  BY <1>1, <1>2, <1>3, PTL DEF Spec

===============================================================================
