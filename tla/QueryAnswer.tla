------------------------------ MODULE QueryAnswer -------------------------------
(***************************************************************************)
(* What a client reads from a vault that changes all the while:            *)
(*                                                                         *)
(*   auth/strategies.py      who may ask                                   *)
(*   api/services.py         query, list_notes, read_note                  *)
(*   storage/notes.py        NoteRepository.list_notes, read               *)
(*   recovery/agent.py       recover                                       *)
(*   retrieval/tools.py      ls, grep, read, charged to the budget         *)
(*   recovery/grounding.py   check_grounding                               *)
(*   api/app.py, query.py, mcp/, web/   what the client is told            *)
(*                                                                         *)
(* No reader takes a lock: meanwhile an ingest writes notes, commits them  *)
(* or takes them back, and the user deletes or spoils some.  The client    *)
(* asks a question or lists the vault, and then opens a note by a citation *)
(* or from the list.  The loop and its limits are ModelAgent's; the model  *)
(* may call any tool with any path and answer with any links.              *)
(***************************************************************************)
EXTENDS ModelAgent, VaultFiles, FiniteSets

CONSTANTS
  Files,         \* note files that can be in the vault
  Initial,       \* files at the start, those outside the vault included
  Folders,       \* directories of the vault, in the order rglob visits them
  Asked,         \* segments the model passes to tools, and clients to read_note
  Texts,         \* answers: sets of links, [vault, target]
  Vault,         \* the name of the vault
  Here,          \* the prefix of a link without one
  Bearer,        \* auth.strategy is bearer, not none
  MaxChanges     \* bound: steps of the ingest and of the user

ASSUME QueryAssumption ==
  /\ \A f \in Files : InVault(f) /\ IsMarkdown(f)
  /\ \A f \in Initial \union Files : f \in Seq(STRING) /\ Real(f) = f
  /\ \A f \in Initial : InVault(f) /\ IsMarkdown(f) /\ Last(f) # SchemaName => f \in Files
  /\ Asked \subseteq Seq(STRING)
  /\ Folders \in Seq(Seq(STRING))
  /\ \A f \in NotesIn(Initial \union Files, Root) :
       \E k \in 1..Len(Folders) : Folders[k] = Front(f)
  /\ \A t \in Texts : \A l \in t : DOMAIN l = {"vault", "target"}
  /\ Vault # Here /\ MaxChanges \in Nat

VARIABLES
  files,        \* files on disk, by real path
  drafts,       \* of those, what a running ingest has not committed
  malformed,    \* of those, notes whose frontmatter does not parse
  stage,        \* where the request is
  op,           \* "query", "list", "note", or "page": a note and the list
  wanted,       \* the path of a note or page
  text,         \* the links of the model's answer
  toScan,       \* folders rglob has not listed yet
  existing,     \* notes it has found, and list_notes has not looked at
  opened,       \* the file that is_file() found and read_text() opens next
  listed,
  reply,        \* what the client is told
  citations,    \* with an answer
  \* --- bounds and history ---
  changes,
  shown,        \* files whose text a tool, or read_note, returned
  refused,      \* a tool call was refused
  lately,       \* notes in the vault at some time since the scan was due
  lasting       \* notes in the vault all the time since then

scan == <<toScan, existing, opened, listed>>
result == <<reply, citations>>
query == <<stage, op, wanted, text, scan, result>>
disk == <<files, drafts, malformed, changes>>
history == <<shown, refused>>
watched == <<lately, lasting>>
vars == <<agentVars, query, disk, history, watched>>

Answers == {"answer", "no_evidence", "budget_exhausted", "note", "listed"}       \* 200
Errors == {"unauthorized", "invalid", "not registered", "bad request", "not found",
           "failed to run", "server error"}           \* 401, 422, 422, 400, 404, 503, 500

SchemaFile == Append(Root, SchemaName)
Targets == ({Vault} \union UNION {{l.vault : l \in t} : t \in Texts})
             \X UNION {{l.target : l \in t} : t \in Texts}

Stages == {"idle", "admitted", "schema", "agent", "ground", "open", "list", "answered"}

TypeOK ==
  /\ AgentTypeOK
  /\ files \subseteq Initial \union Files
  /\ drafts \subseteq Files \intersect files
  /\ malformed \subseteq Files \intersect files
  /\ stage \in Stages
  /\ (stage = "agent") <=> (at # "off")
  /\ op \in {"none", "query", "list", "note", "page"}
  /\ wanted \in Asked \union {<<>>} \union {c[2] : c \in Targets} \union {NotePath(f) : f \in Files}
  /\ text \in Texts \union {{}}
  /\ toScan \in 0..Len(Folders)
  /\ existing \subseteq Files /\ listed \subseteq Files
  /\ opened \subseteq Initial \union Files
  /\ reply \in Answers \union Errors \union {"none"}
  /\ (stage = "answered") <=> (reply # "none")
  /\ citations \subseteq Targets
  /\ changes \in 0..MaxChanges
  /\ shown \subseteq Initial \union Files
  /\ refused \in BOOLEAN
  /\ lately \subseteq Files /\ lasting \subseteq lately

Init ==
  /\ AgentOff /\ charged = 0 /\ late = FALSE
  /\ files = Initial /\ drafts = {} /\ malformed = {}
  /\ stage = "idle" /\ op = "none" /\ wanted = <<>> /\ text = {}
  /\ toScan = 0 /\ existing = {} /\ opened = {} /\ listed = {}
  /\ reply = "none" /\ citations = {}
  /\ changes = 0 /\ shown = {} /\ refused = FALSE /\ lately = {} /\ lasting = {}

Reply(r) == stage' = "answered" /\ reply' = r

\* lately and lasting follow the disk while the vault is scanned and read.
Watch ==
  IF stage \in {"ground", "list"}
  THEN /\ lately' = lately \union NotesIn(files', Root)
       /\ lasting' = lasting \intersect NotesIn(files', Root)
  ELSE UNCHANGED watched

BeginScan ==
  /\ toScan' = Len(Folders)
  /\ lately' = NotesIn(files, Root) /\ lasting' = NotesIn(files, Root)

-------------------------------------------------------------------------------
(* The vault changes.                                                        *)

Change == changes < MaxChanges /\ changes' = changes + 1

\* An ingest writes a note that was not there, by an atomic replace ...
WriteNote(f) ==
  /\ Change /\ f \notin files
  /\ files' = files \union {f} /\ drafts' = drafts \union {f}
  /\ Watch /\ UNCHANGED <<agentVars, query, malformed, history>>

\* ... and commits what it has written ...
CommitNotes ==
  /\ drafts # {} /\ drafts' = {}
  /\ UNCHANGED <<agentVars, query, files, malformed, changes, history, watched>>

\* ... or is rolled back.
RollBack ==
  /\ drafts # {} /\ drafts' = {}
  /\ files' = files \ drafts
  /\ Watch /\ UNCHANGED <<agentVars, query, malformed, changes, history>>

\* The user deletes a file: a note, or the schema.
Delete(f) ==
  /\ Change /\ f \in files \ drafts
  /\ files' = files \ {f} /\ malformed' = malformed \ {f}
  /\ Watch /\ UNCHANGED <<agentVars, query, drafts, history>>

\* The user spoils the frontmatter of a note.
Spoil(f) ==
  /\ Change /\ f \in files \ drafts
  /\ malformed' = malformed \union {f}
  /\ UNCHANGED <<agentVars, query, files, drafts, history, watched>>

-------------------------------------------------------------------------------
(* A request arrives.                                                        *)

\* NoneStrategy takes anybody, BearerStrategy the token.
Authentic(credential) == ~Bearer \/ credential = "token"

\* principal_dependency, and SharedAuthMiddleware before MCP.
Authenticate(credential) ==
  /\ stage = "idle"
  /\ IF Authentic(credential) THEN stage' = "admitted" /\ UNCHANGED reply
                              ELSE Reply("unauthorized")
  /\ UNCHANGED <<agentVars, op, wanted, text, scan, citations, disk, history, watched>>

\* The routes: the body may be invalid; the vault is looked up, its configuration
\* read, and either may fail; then the handler proper.
Receive(o, path) ==
  /\ stage = "admitted"
  /\ \/ Reply("invalid") /\ UNCHANGED <<scan, watched>>
     \/ Reply("not registered") /\ UNCHANGED <<scan, watched>>
     \/ Reply("bad request") /\ UNCHANGED <<scan, watched>>
     \/ /\ o = "list" /\ stage' = "list"
        /\ BeginScan /\ UNCHANGED <<reply, existing, opened, listed>>
     \/ /\ o # "list" /\ stage' = IF o = "query" THEN "schema" ELSE "open"
        /\ UNCHANGED <<reply, scan, watched>>
  /\ op' = o /\ wanted' = path
  /\ UNCHANGED <<agentVars, text, citations, disk, history>>

Ask ==
  \/ Receive("query", <<>>) \/ Receive("list", <<>>)
  \/ \E p \in Asked : Receive("note", p) \/ Receive("page", p)

\* The client goes on to a note that it was told of.
Follow(path) ==
  /\ stage = "answered" /\ op \in {"query", "list"}
  /\ path \in {c[2] : c \in citations} \union {NotePath(f) : f \in listed}
  /\ stage' = "open" /\ op' \in {"note", "page"} /\ wanted' = path
  /\ reply' = "none" /\ listed' = {}
  /\ UNCHANGED <<agentVars, text, toScan, existing, opened, citations, disk, history, watched>>

-------------------------------------------------------------------------------
(* services.query and recover.                                               *)

\* load_schema: a missing or malformed schema.md is a TerminalError, a 400.
LoadSchema ==
  /\ stage = "schema"
  /\ \/ /\ SchemaFile \in files
        /\ stage' = "agent" /\ StartAgent /\ FreshBudget
        /\ UNCHANGED reply
     \/ Reply("bad request") /\ UNCHANGED agentVars
  /\ UNCHANGED <<op, wanted, text, scan, citations, disk, history, watched>>

TimePasses == stage = "agent" /\ TimeRunsOut /\ UNCHANGED <<query, disk, history, watched>>
TakeTurn == BeginTurn /\ UNCHANGED <<query, disk, history, watched>>
RequestAgain == Resend /\ UNCHANGED <<query, disk, history, watched>>
CallTools == AnswersWithCalls /\ UNCHANGED <<query, disk, history, watched>>

\* A tool that does not exist or a pattern that is missing: not charged.
CallNoTool ==
  /\ CallReturns /\ UNCHANGED charged
  /\ UNCHANGED <<query, disk, history, watched>>

\* ls names entries and shows no text; a pattern or a path that is refused, and
\* a file gone before it could be read, end in an error for the model.
ListOrFail ==
  /\ CallReturns /\ Charge
  /\ UNCHANGED <<query, disk, history, watched>>

Grep(segments) ==
  /\ CallReturns /\ Charge /\ ToolResolves(segments)
  /\ shown' = shown \union GrepReads(files, segments)
  /\ UNCHANGED <<query, disk, refused, watched>>

Read(segments) ==
  /\ CallReturns /\ Charge /\ ToolResolves(segments)
  /\ Root \o segments \notin DOMAIN Links
  /\ shown' = shown \union ReadReads(files, segments)
  /\ UNCHANGED <<query, disk, refused, watched>>

RefuseCall ==
  /\ CallReturns /\ Refuse
  /\ refused' = TRUE
  /\ UNCHANGED <<query, disk, shown, watched>>

\* EXHAUSTED, or FAILED when the loop has had its last turn.
AgentGivesUp ==
  /\ LoopGivesUp /\ Rest
  /\ Reply(IF turn < HardCap THEN "budget_exhausted" ELSE "failed to run")
  /\ UNCHANGED <<charged, late, op, wanted, text, scan, citations, disk, history, watched>>

\* Any GroundtruthError of complete(), a transient one too.
AgentFails ==
  /\ RaisesTransient \/ RaisesTerminal
  /\ Rest /\ Reply("failed to run")
  /\ UNCHANGED <<charged, late, op, wanted, text, scan, citations, disk, history, watched>>

\* COMPLETED: the answer is checked, never returned as it is.
AgentAnswers(t) ==
  /\ at = "asking" /\ Rest
  /\ stage' = "ground" /\ text' = t
  /\ BeginScan
  /\ UNCHANGED <<charged, late, op, wanted, existing, opened, listed, result, disk, history>>

-------------------------------------------------------------------------------
(* check_grounding.                                                          *)

\* _to_citation, by the vault a link names.
Citation(l) == <<IF l.vault = Here THEN Vault ELSE l.vault, l.target>>
Cited == {Citation(l) : l \in text}

\* No link, or one into another vault: refused before the disk is looked at.
Hopeless == Cited = {} \/ \E c \in Cited : c[1] # Vault

RefuseAtOnce ==
  /\ stage = "ground" /\ Hopeless
  /\ Reply("no_evidence") /\ toScan' = 0 /\ existing' = {}
  /\ UNCHANGED <<agentVars, op, wanted, text, opened, listed, citations, disk, history, watched>>

\* _existing_paths and list_notes: rglob lists the folders one after the other.
Scan ==
  /\ stage \in {"ground", "list"} /\ toScan > 0
  /\ stage = "ground" => ~Hopeless
  /\ LET folder == Folders[Len(Folders) - toScan + 1]
     IN existing' = existing \union {f \in NotesIn(files, Root) : Front(f) = folder}
  /\ toScan' = toScan - 1
  /\ UNCHANGED <<agentVars, stage, op, wanted, text, opened, listed, result, disk, history,
                 watched>>

\* Mutant: one citation that holds is enough.
SomeCited == \E c \in Cited : Reaches(c[2], existing)

AllCited == \A c \in Cited : Reaches(c[2], existing)

Ground ==
  /\ stage = "ground" /\ ~Hopeless /\ toScan = 0
  /\ IF AllCited THEN Reply("answer") /\ citations' = Cited
                 ELSE Reply("no_evidence") /\ UNCHANGED citations
  /\ existing' = {}
  /\ UNCHANGED <<agentVars, op, wanted, text, toScan, opened, listed, disk, history, watched>>

-------------------------------------------------------------------------------
(* NoteRepository.read and list_notes, file by file.                         *)

\* A path that is not allowed, a note that is not there, or one to open.
OpenNote ==
  /\ stage = "open" /\ opened = {}
  /\ IF Readable(files, wanted)
     THEN opened' = {Root \o wanted} /\ UNCHANGED <<stage, reply>>
     ELSE /\ Reply(IF Resolves(wanted) THEN "not found" ELSE "bad request")
          /\ UNCHANGED opened
  /\ UNCHANGED <<agentVars, op, wanted, text, toScan, existing, listed, citations, disk,
                 history, watched>>

\* Mutant: a file that has gone ends the loop.
LeftAfter(f) == IF f \in files THEN existing \ {f} ELSE {}

\* The loop of list_notes passes over a file that has gone.
StillToList(f) == existing \ {f}

NextNote(f) ==
  /\ stage = "list" /\ toScan = 0 /\ opened = {} /\ f \in existing
  /\ existing' = StillToList(f)
  /\ opened' = {f} \intersect files
  /\ UNCHANGED <<agentVars, stage, op, wanted, text, toScan, listed, result, disk, history,
                 watched>>

\* parse_note.
Parses(f) == f \notin malformed

\* read_text of a file that has gone meanwhile is an OSError, a 500; one note that
\* does not parse, a 400 for the whole list.
FailToRead(f) ==
  /\ f \in opened /\ (f \notin files \/ ~Parses(f))
  /\ Reply(IF f \in files THEN "bad request" ELSE "server error")
  /\ opened' = {} /\ existing' = {}
  /\ UNCHANGED <<agentVars, op, wanted, text, toScan, listed, citations, disk, history,
                 watched>>

\* A note of a list; the note asked for; a page, which looks the vault up again and
\* goes on to the list.
ReadNote(f) ==
  /\ f \in opened /\ f \in files /\ Parses(f)
  /\ opened' = {} /\ shown' = shown \union {f}
  /\ \/ /\ stage = "list" /\ listed' = listed \union {f}
        /\ UNCHANGED <<stage, reply, toScan, watched>>
     \/ /\ stage = "open" /\ op = "note" /\ Reply("note")
        /\ UNCHANGED <<listed, toScan, watched>>
     \/ /\ stage = "open" /\ op = "page" /\ stage' = "list" /\ BeginScan
        /\ UNCHANGED <<reply, listed>>
     \/ /\ stage = "open" /\ op = "page"
        /\ Reply("not registered") \/ Reply("bad request")
        /\ UNCHANGED <<listed, toScan, watched>>
  /\ UNCHANGED <<agentVars, op, wanted, text, existing, citations, disk, refused>>

ListIsDone ==
  /\ stage = "list" /\ toScan = 0 /\ existing = {} /\ opened = {}
  /\ Reply("listed")
  /\ UNCHANGED <<agentVars, op, wanted, text, scan, citations, disk, history, watched>>

Environment ==
  \/ \E f \in Files : WriteNote(f) \/ Spoil(f)
  \/ \E f \in Files \union {SchemaFile} : Delete(f)
  \/ CommitNotes \/ RollBack

Tools ==
  \/ CallNoTool \/ ListOrFail \/ RefuseCall
  \/ \E s \in Asked : Grep(s) \/ Read(s)

Agent ==
  \/ TimePasses \/ TakeTurn \/ RequestAgain \/ CallTools \/ Tools
  \/ AgentGivesUp \/ AgentFails \/ \E t \in Texts : AgentAnswers(t)

Notes ==
  \/ OpenNote \/ (\E f \in existing : NextNote(f))
  \/ (\E f \in opened : FailToRead(f) \/ ReadNote(f))
  \/ ListIsDone

Next ==
  \/ Environment
  \/ \E c \in {"token", "other"} : Authenticate(c)
  \/ Ask \/ LoadSchema \/ Agent
  \/ RefuseAtOnce \/ Scan \/ Ground
  \/ Notes
  \/ \E p \in {c[2] : c \in citations} \union {NotePath(f) : f \in listed} : Follow(p)

Spec == Init /\ [][Next]_vars

-------------------------------------------------------------------------------
(* Properties.                                                               *)

\* "Every cited note exists on disk in that vault" (requirements.md 9.1), for a
\* vault that changes all the while: an answer has a citation, and each of them
\* names a note that was in the vault after the model had given the answer; it
\* was not given by a model that had been refused a tool call (8.2: no partial
\* answer).
AnswerIsGrounded ==
  reply = "answer" =>
    /\ ~refused
    /\ citations # {}
    /\ \A c \in citations : c[1] = Vault /\ Reaches(c[2], lately)

\* No tool and no route returns text of a file that is not in the vault, whatever
\* path it is asked for and whatever links lead out of it (paths.py:119-165, tools.py:
\* 47-50, 94-103, notes.py:50-54, 93-108).
ReadersSeeOnlyTheVault == \A f \in shown : InVault(f)

\* A list of notes, taken without a lock, has every note that was there from its
\* beginning to its end and none that never was; and it breaks with a 500 only
\* where a note has gone meanwhile (notes.py:93-108).
ListIsHonest ==
  /\ reply = "listed" => lasting \subseteq listed /\ listed \subseteq lately
  /\ reply = "server error" /\ op = "list" => lasting # lately

-------------------------------------------------------------------------------
(* What the documentation says, and the code does not do.                    *)

\* "a citation names a file that either exists or does not" (requirements.md,
\* ADR-2), its path is the "Vault-relative path of the cited note"
\* (models/answer.py): followed while no file has gone, it leads to the note.
CitationLeadsToItsNote ==
  reply = "not found" /\ (\E c \in citations : c[2] = wanted) => ~(lately \subseteq files)
===============================================================================
