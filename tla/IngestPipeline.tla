---------------------------- MODULE IngestPipeline -----------------------------
(***************************************************************************)
(* One git working tree and everything that writes to it:                  *)
(*                                                                         *)
(*   ingest/pipeline.py   IngestPipeline.run, one step per git or file     *)
(*                        operation, its two except clauses and _fail      *)
(*   storage/git.py       is_clean, add, commit, amend, rollback, pull,    *)
(*                        push: git itself is external                     *)
(*   ingest/archive.py    write_archive, set_commit_sha                    *)
(*   ingest/dedup.py, storage/source_index.py   check_dedup, get, put      *)
(*   ingest/vocabulary.py   derive_vocabulary and its cache                *)
(*   api/services.py      update_schema, which runs in a request thread    *)
(*   jobs/recovery.py     the rollback of interrupted jobs                 *)
(*   the user             edits, commits and reverts beside all of it      *)
(*                                                                         *)
(* A vault has one worker: JobQueueProofs proves it.  The vaults here are  *)
(* those registered with this repository root, usually one.  A file's      *)
(* content is a version; a commit is the set of changes it brings.         *)
(***************************************************************************)
EXTENDS Naturals, Sequences, FiniteSets

CONSTANTS
  Jobs, Vaults, Texts, None,
  VaultOf, TextOf,     \* what each job brings, and where
  NotesPerJob,         \* notes the pipeline writes for one text
  Edits,               \* files the user edits in the working tree
  Schemas,             \* update_schema calls
  SchemaVault,         \* the vault of each of them
  RawArchive,          \* config.raw_archive
  AutoPush,            \* config.auto_push
  MaxCrashes,          \* bound: process crashes
  MaxHandled,          \* bound: stages that raise a GroundtruthError
  MaxEscaping,         \* bound: stages that raise anything else
  MaxForeign,          \* bound: commits others push to the remote
  StatusMayFail,       \* whether `git status` may fail
  RollbackMayFail,     \* whether `git reset` or `git clean` may fail
  EditWhileBusy,       \* whether the user edits while an ingest runs
  MayRevert            \* whether the user reverts an ingest

ASSUME PipelineAssumption ==
  /\ None \notin Jobs
  /\ VaultOf \in [Jobs -> Vaults] /\ TextOf \in [Jobs -> Texts]
  /\ SchemaVault \in [Schemas -> Vaults]
  /\ NotesPerJob \in Nat \ {0}
  /\ RawArchive \in BOOLEAN /\ AutoPush \in BOOLEAN
  /\ MaxCrashes \in Nat /\ MaxHandled \in Nat
  /\ MaxEscaping \in Nat /\ MaxForeign \in Nat
  /\ StatusMayFail \in BOOLEAN /\ RollbackMayFail \in BOOLEAN
  /\ EditWhileBusy \in BOOLEAN /\ MayRevert \in BOOLEAN

VARIABLES
  \* --- the repository: survives a crash ---
  dirty,     \* changes in the working tree that HEAD does not have
  staged,    \* changes in git's index that HEAD does not have
  log,       \* the commits of the branch, oldest first
  nextId,    \* the next commit sha
  pushed,    \* how many of them the remote has
  foreign,   \* commits of others the remote has beyond those
  \* --- the state dir: survives a crash ---
  state,     \* job -> state of its record
  reported,  \* job -> commit_sha of its record, 0 for none
  dedupOf,   \* job -> dedup_of of its record
  index,     \* vault -> text -> entry of the source index
  cache,     \* vault -> its vocabulary cache file
  \* --- the process ---
  phase,     \* "up", "down" or "recovering"
  pc, cur, written, sha,   \* vault -> where its worker is, with which job
  key, vocab,              \* vault -> HEAD and tags, as derive_vocabulary has them
  handler,   \* update_schema call -> its progress
  \* --- bounds and history ---
  crashes, handled, escaping, arrived,
  lost,      \* user edits a rollback has discarded
  reverted   \* shas of the commits the user has reverted

tree == <<dirty, staged>>
history == <<log, nextId>>
remote == <<pushed, foreign>>
records == <<state, reported, dedupOf>>
stored == <<index, cache>>
locals == <<cur, written, sha, key, vocab>>
bounds == <<crashes, handled, escaping, arrived>>
users == <<lost, reverted>>
vars == <<tree, history, remote, records, stored, phase, pc, locals, handler, bounds, users>>

PCs == {"idle", "clean", "dedup", "pull", "vocabulary", "lookup", "scan", "store",
        "storing", "analyse", "archive", "notes", "add",
        "commit", "head", "setsha", "readd", "amend", "amended", "put", "push",
        "succeed", "rollback", "fail", "undo", "raised"}

-------------------------------------------------------------------------------
(* Files and changes.                                                        *)

NoteFile(j, n) == <<"note", j, n>>
TextFile(x) == <<"external.txt", x>>
ManifestFile(x) == <<"external.json", x>>
SchemaFile(v) == <<"schema.md", v>>
EditFile(e) == <<"edit", e>>   \* a note of the user's
TheirFile == <<"theirs", 1>>   \* the notes that others push

Change(file, version) == [file |-> file, version |-> version]

NoteChange(j, n) == Change(NoteFile(j, n), 0)
Notes(j) == {NoteChange(j, n) : n \in 1..NotesPerJob}
TextChange(x) == Change(TextFile(x), 0)
ManifestChange(x, id) == Change(ManifestFile(x), id)   \* 0: commit_sha is null
SchemaChange(u) == Change(SchemaFile(SchemaVault[u]), u)
EditChange(e) == Change(EditFile(e), 0)
TheirChange(id) == Change(TheirFile, id)

IngestFiles ==
  {NoteFile(j, n) : j \in Jobs, n \in 1..NotesPerJob}
    \union {TextFile(x) : x \in Texts} \union {ManifestFile(x) : x \in Texts}

Files ==
  IngestFiles \union {SchemaFile(v) : v \in Vaults} \union {EditFile(e) : e \in Edits}
    \union {TheirFile}

Changes == [file : Files, version : Nat \union Schemas]

\* Later changes replace earlier ones of the same file.
Over(old, new) == {c \in old : \A d \in new : d.file # c.file} \union new

Commits ==
  [id : Nat, by : Jobs \union Schemas \union {"user", "remote"}, changes : SUBSET Changes]

Entries == [job : Jobs, commit : Nat]

\* What the tags of a vault come from: its notes, schema.md aside.
NotesAmong(changes) == {c \in changes : c.file[1] \in {"note", "edit", "theirs"}}

\* A vocabulary cache: the file as it is on disk, the HEAD it was stored for.
CacheFiles ==
  [file : {"absent", "torn", "whole"}, head : Nat, tags : SUBSET Changes]

CacheFile(file, head, tags) == [file |-> file, head |-> head, tags |-> tags]

TypeOK ==
  /\ dirty \in SUBSET Changes /\ staged \in SUBSET Changes
  /\ log \in Seq(Commits) /\ Len(log) > 0
  /\ nextId \in Nat
  /\ pushed \in 0..Len(log) /\ foreign \in Nat
  /\ state \in [Jobs -> {"none", "running", "succeeded", "failed"}]
  /\ reported \in [Jobs -> Nat]
  /\ dedupOf \in [Jobs -> Jobs \union {None}]
  /\ index \in [Vaults -> [Texts -> Entries \union {None}]]
  /\ cache \in [Vaults -> CacheFiles]
  /\ phase \in {"up", "down", "recovering"}
  /\ pc \in [Vaults -> PCs]
  /\ cur \in [Vaults -> Jobs \union {None}]
  /\ written \in [Vaults -> 0..NotesPerJob]
  /\ sha \in [Vaults -> Nat] /\ key \in [Vaults -> Nat]
  /\ vocab \in [Vaults -> SUBSET Changes]
  /\ handler \in [Schemas -> {"idle", "written", "committed", "error", "lost"}]
  /\ crashes \in Nat /\ handled \in Nat /\ escaping \in Nat /\ arrived \in Nat
  /\ lost \in SUBSET Edits /\ reverted \in SUBSET Nat

Init ==
  /\ dirty = {} /\ staged = {}
  /\ log = <<[id |-> 1, by |-> "user", changes |-> {}]>>
  /\ nextId = 2 /\ pushed = 1 /\ foreign = 0
  /\ state = [j \in Jobs |-> "none"]
  /\ reported = [j \in Jobs |-> 0]
  /\ dedupOf = [j \in Jobs |-> None]
  /\ index = [v \in Vaults |-> [x \in Texts |-> None]]
  /\ cache = [v \in Vaults |-> CacheFile("absent", 0, {})]
  /\ phase = "up"
  /\ pc = [v \in Vaults |-> "idle"]
  /\ cur = [v \in Vaults |-> None]
  /\ written = [v \in Vaults |-> 0]
  /\ sha = [v \in Vaults |-> 0] /\ key = [v \in Vaults |-> 0]
  /\ vocab = [v \in Vaults |-> {}]
  /\ handler = [u \in Schemas |-> "idle"]
  /\ crashes = 0 /\ handled = 0 /\ escaping = 0 /\ arrived = 0
  /\ lost = {} /\ reverted = {}

-------------------------------------------------------------------------------
(* git.                                                                      *)

Clean == dirty = {} /\ staged = {}

HEAD == log[Len(log)]

\* What the branch holds, reverted commits aside.
Committed == UNION {log[i].changes : i \in {k \in DOMAIN log : log[k].id \notin reverted}}

Exists(file) == \E c \in dirty \union Committed : c.file = file

NewCommit(by, changes) ==
  /\ log' = Append(log, [id |-> nextId, by |-> by, changes |-> changes])
  /\ nextId' = nextId + 1

\* git add -A
StageAll ==
  /\ staged' = dirty
  /\ UNCHANGED dirty

UserEdits(changes) == {e \in Edits : EditChange(e) \in changes}

\* Mutant: only `reset --hard`, which leaves files git does not know of.
ResetOnly ==
  /\ dirty' = dirty \ staged
  /\ staged' = {}
  /\ lost' = lost \union UserEdits(dirty \union staged)

\* reset --hard HEAD, then clean -fd
Rollback ==
  /\ dirty' = {} /\ staged' = {}
  /\ lost' = lost \union UserEdits(dirty \union staged)

\* One of the two commands fails, having discarded some of the changes.
RollbackStops ==
  /\ RollbackMayFail
  /\ \E left \in SUBSET dirty :
       /\ dirty' = left
       /\ staged' = staged \intersect left
       /\ lost' = lost \union UserEdits((dirty \union staged) \ left)

-------------------------------------------------------------------------------
(* IngestPipeline.run, from the check of the working tree to the commit.     *)

At(v, label) == phase = "up" /\ pc[v] = label

Goto(v, label) == pc' = [pc EXCEPT ![v] = label]

\* Mutant: the count of notes is not reset.
SettleKeepingCount(v, outcome) ==
  /\ state' = [state EXCEPT ![cur[v]] = outcome]
  /\ Goto(v, "idle")
  /\ cur' = [cur EXCEPT ![v] = None]
  /\ sha' = [sha EXCEPT ![v] = 0]
  /\ key' = [key EXCEPT ![v] = 0] /\ vocab' = [vocab EXCEPT ![v] = {}]
  /\ UNCHANGED written

\* The record reaches a terminal state and the worker is free again.
Settle(v, outcome) ==
  /\ state' = [state EXCEPT ![cur[v]] = outcome]
  /\ Goto(v, "idle")
  /\ cur' = [cur EXCEPT ![v] = None]
  /\ written' = [written EXCEPT ![v] = 0]
  /\ sha' = [sha EXCEPT ![v] = 0]
  /\ key' = [key EXCEPT ![v] = 0] /\ vocab' = [vocab EXCEPT ![v] = {}]

Start(v, j) ==
  /\ At(v, "idle")
  /\ state[j] = "none" /\ VaultOf[j] = v
  /\ state' = [state EXCEPT ![j] = "running"]
  /\ cur' = [cur EXCEPT ![v] = j]
  /\ Goto(v, "clean")
  /\ UNCHANGED <<tree, history, remote, reported, dedupOf, stored, phase, written,
                 sha, key, vocab, handler, bounds, users>>

\* Mutant: a dirty tree is rolled back like any other failure.
CheckCleanRollingBack(v) ==
  /\ At(v, "clean")
  /\ Goto(v, IF Clean THEN "dedup" ELSE "rollback")
  /\ UNCHANGED <<tree, history, remote, records, stored, phase, locals, handler, bounds, users>>

\* Mutant: the check is not made.
CheckCleanSkipped(v) ==
  /\ At(v, "clean")
  /\ Goto(v, "dedup")
  /\ UNCHANGED <<tree, history, remote, records, stored, phase, locals, handler, bounds, users>>

\* A dirty tree fails the job without a rollback.
CheckClean(v) ==
  /\ At(v, "clean")
  /\ Goto(v, IF Clean THEN "dedup" ELSE "fail")
  /\ UNCHANGED <<tree, history, remote, records, stored, phase, locals, handler, bounds, users>>

\* The index entry of the text the worker of v is ingesting.
Prior(v) == index[v][TextOf[cur[v]]]

DedupHit(v) ==
  /\ At(v, "dedup") /\ Prior(v) # None
  /\ dedupOf' = [dedupOf EXCEPT ![cur[v]] = Prior(v).job]
  /\ reported' = [reported EXCEPT ![cur[v]] = Prior(v).commit]
  /\ Settle(v, "succeeded")
  /\ UNCHANGED <<tree, history, remote, stored, phase, handler, bounds, users>>

DedupMiss(v) ==
  /\ At(v, "dedup") /\ Prior(v) = None
  /\ Goto(v, IF AutoPush THEN "pull" ELSE "vocabulary")
  /\ UNCHANGED <<tree, history, remote, records, stored, phase, locals, handler, bounds, users>>

Diverged == foreign > 0 /\ pushed < Len(log)

Pull(v) ==
  /\ At(v, "pull") /\ ~Diverged
  /\ IF foreign = 0
     THEN UNCHANGED <<history, remote>>
     ELSE /\ NewCommit("remote", {TheirChange(nextId)})   \* theirs, as one
          /\ pushed' = Len(log')
          /\ foreign' = 0
  /\ Goto(v, "vocabulary")
  /\ UNCHANGED <<tree, records, stored, phase, locals, handler, bounds, users>>

\* Not a fast-forward: GitConflictError, no rollback.
PullRefused(v) ==
  /\ At(v, "pull") /\ Diverged
  /\ Goto(v, "fail")
  /\ UNCHANGED <<tree, history, remote, records, stored, phase, locals, handler, bounds, users>>

\* derive_vocabulary, after load_schema: the HEAD that the cache is keyed by.
ReadKey(v) ==
  /\ At(v, "vocabulary")
  /\ key' = [key EXCEPT ![v] = HEAD.id]
  /\ Goto(v, "lookup")
  /\ UNCHANGED <<tree, history, remote, records, stored, phase, cur, written, sha,
                 vocab, handler, bounds, users>>

\* Mutant: whatever the cache holds is taken.
FreshAnyway(v) == cache[v].file = "whole"

Fresh(v) == cache[v].file = "whole" /\ cache[v].head = key[v]

\* The file is parsed before its key is looked at: a ValueError if it is torn.
LookUp(v) ==
  /\ At(v, "lookup")
  /\ Goto(v, IF cache[v].file = "torn" THEN "raised"
             ELSE IF Fresh(v) THEN "analyse" ELSE "scan")
  /\ vocab' = [vocab EXCEPT ![v] = IF Fresh(v) THEN cache[v].tags ELSE {}]
  /\ UNCHANGED <<tree, history, remote, records, stored, phase, cur, written, sha,
                 key, handler, bounds, users>>

\* _scan_tags reads the working tree, not HEAD.
Scan(v) ==
  /\ At(v, "scan")
  /\ vocab' = [vocab EXCEPT ![v] = NotesAmong(Over(Committed, dirty))]
  /\ Goto(v, "store")
  /\ UNCHANGED <<tree, history, remote, records, stored, phase, cur, written, sha,
                 key, handler, bounds, users>>

\* write_text opens the cache file, which empties it ...
EmptyCache(v) ==
  /\ At(v, "store")
  /\ cache' = [cache EXCEPT ![v] = CacheFile("torn", 0, {})]
  /\ Goto(v, "storing")
  /\ UNCHANGED <<tree, history, remote, records, index, phase, locals, handler, bounds, users>>

\* ... and then fills it.
FillCache(v) ==
  /\ At(v, "storing")
  /\ cache' = [cache EXCEPT ![v] = CacheFile("whole", key[v], vocab[v])]
  /\ Goto(v, "analyse")
  /\ UNCHANGED <<tree, history, remote, records, index, phase, locals, handler, bounds, users>>

\* Survey, reduce, organize, tag, validate, from the vocabulary: nothing is
\* written, and the batch that comes out is valid.
Analyse(v) ==
  /\ At(v, "analyse")
  /\ Goto(v, "archive")
  /\ key' = [key EXCEPT ![v] = 0] /\ vocab' = [vocab EXCEPT ![v] = {}]
  /\ UNCHANGED <<tree, history, remote, records, stored, phase, cur, written, sha,
                 handler, bounds, users>>

\* The files write_archive would create; it never rewrites one.
ArchiveWrites(v) ==
  LET x == TextOf[cur[v]]
  IN  {c \in {TextChange(x), ManifestChange(x, 0)} : ~Exists(c.file)}

Archive(v) ==
  /\ At(v, "archive")
  /\ dirty' = IF RawArchive THEN dirty \union ArchiveWrites(v) ELSE dirty
  /\ Goto(v, "notes")
  /\ UNCHANGED <<staged, history, remote, records, stored, phase, locals, handler,
                 bounds, users>>

WriteNote(v) ==
  /\ At(v, "notes")
  /\ written' = [written EXCEPT ![v] = @ + 1]
  /\ dirty' = Over(dirty, {NoteChange(cur[v], written[v] + 1)})
  /\ Goto(v, IF written[v] + 1 = NotesPerJob THEN "add" ELSE "notes")
  /\ UNCHANGED <<staged, history, remote, records, stored, phase, cur, sha, key,
                 vocab, handler, bounds, users>>

\* Mutant: the source index learns of the text before it is committed.
AddAndPut(v) ==
  /\ At(v, "add")
  /\ StageAll
  /\ index' = [index EXCEPT ![v][TextOf[cur[v]]] = [job |-> cur[v], commit |-> nextId]]
  /\ Goto(v, "commit")
  /\ UNCHANGED <<history, remote, records, cache, phase, locals, handler, bounds, users>>

Add(v) ==
  /\ At(v, "add")
  /\ StageAll
  /\ Goto(v, "commit")
  /\ UNCHANGED <<history, remote, records, stored, phase, locals, handler, bounds, users>>

\* Mutant: the commit is pushed as soon as it exists.
CommitAndPush(v) ==
  /\ At(v, "commit") /\ staged # {}
  /\ NewCommit(cur[v], staged)
  /\ dirty' = dirty \ staged /\ staged' = {}
  /\ Goto(v, "head")
  /\ pushed' = IF AutoPush /\ foreign = 0 THEN Len(log') ELSE pushed
  /\ UNCHANGED <<foreign, records, stored, phase, locals, handler, bounds, users>>

\* git commit exits 1 when nothing is staged: a GitError.
Commit(v) ==
  /\ At(v, "commit")
  /\ IF staged = {}
     THEN Goto(v, "rollback") /\ UNCHANGED <<tree, history>>
     ELSE /\ NewCommit(cur[v], staged)
          /\ dirty' = dirty \ staged /\ staged' = {}
          /\ Goto(v, "head")
  /\ UNCHANGED <<remote, records, stored, phase, locals, handler, bounds, users>>

\* The rev-parse that ends GitRepo.commit.
ReadHead(v) ==
  /\ At(v, "head")
  /\ sha' = [sha EXCEPT ![v] = HEAD.id]
  /\ Goto(v, IF RawArchive THEN "setsha" ELSE "put")
  /\ UNCHANGED <<tree, history, remote, records, stored, phase, cur, written, key,
                 vocab, handler, bounds, users>>

\* The manifest is read, changed and written back; OSError if it is gone.
SetCommitSha(v) ==
  LET x == TextOf[cur[v]] IN
  /\ At(v, "setsha")
  /\ IF Exists(ManifestFile(x))
     THEN dirty' = Over(dirty, {ManifestChange(x, sha[v])}) /\ Goto(v, "readd")
     ELSE Goto(v, "raised") /\ UNCHANGED dirty
  /\ UNCHANGED <<staged, history, remote, records, stored, phase, locals, handler,
                 bounds, users>>

ReAdd(v) ==
  /\ At(v, "readd")
  /\ StageAll
  /\ Goto(v, "amend")
  /\ UNCHANGED <<history, remote, records, stored, phase, locals, handler, bounds, users>>

\* git commit --amend --no-edit: HEAD, whoever made it, is replaced under its
\* own message; if the remote had it, the branch and the remote now diverge.
Amend(v) ==
  /\ At(v, "amend")
  /\ log' = [log EXCEPT ![Len(log)] =
               [id |-> nextId, by |-> HEAD.by, changes |-> Over(HEAD.changes, staged)]]
  /\ nextId' = nextId + 1
  /\ dirty' = dirty \ staged /\ staged' = {}
  /\ IF pushed = Len(log)
     THEN pushed' = pushed - 1 /\ foreign' = foreign + 1
     ELSE UNCHANGED remote
  /\ Goto(v, "amended")
  /\ UNCHANGED <<records, stored, phase, locals, handler, bounds, users>>

\* Mutant: the sha of the commit before the amend is kept.
KeepSha(v) ==
  /\ At(v, "amended")
  /\ Goto(v, "put")
  /\ UNCHANGED <<tree, history, remote, records, stored, phase, locals, handler, bounds, users>>

\* The rev-parse that ends GitRepo.amend.
ReadAmended(v) ==
  /\ At(v, "amended")
  /\ sha' = [sha EXCEPT ![v] = HEAD.id]
  /\ Goto(v, "put")
  /\ UNCHANGED <<tree, history, remote, records, stored, phase, cur, written, key,
                 vocab, handler, bounds, users>>

\* SourceIndex.put: the entry replaces any earlier one.
Put(v) ==
  /\ At(v, "put")
  /\ index' = [index EXCEPT ![v][TextOf[cur[v]]] = [job |-> cur[v], commit |-> sha[v]]]
  /\ Goto(v, IF AutoPush THEN "push" ELSE "succeed")
  /\ UNCHANGED <<tree, history, remote, records, cache, phase, locals, handler, bounds, users>>

\* A rejected push is recorded in the job and the ingest still succeeds.
Push(v) ==
  /\ At(v, "push")
  /\ pushed' = IF foreign = 0 THEN Len(log) ELSE pushed
  /\ Goto(v, "succeed")
  /\ UNCHANGED <<tree, history, foreign, records, stored, phase, locals, handler, bounds, users>>

Succeed(v) ==
  /\ At(v, "succeed")
  /\ reported' = [reported EXCEPT ![cur[v]] = sha[v]]
  /\ Settle(v, "succeeded")
  /\ UNCHANGED <<tree, history, remote, dedupOf, stored, phase, handler, bounds, users>>

-------------------------------------------------------------------------------
(* Failures.                                                                 *)

\* _fail(rollback=True), its first half.
RollBack(v) ==
  /\ At(v, "rollback")
  /\ Rollback
  /\ Goto(v, "fail")
  /\ UNCHANGED <<history, remote, records, stored, phase, locals, handler, bounds, reverted>>

\* A transient error: roll back, then raise it to the retry wrapper.
Undo(v) ==
  /\ At(v, "undo")
  /\ Rollback
  /\ Goto(v, "raised")
  /\ UNCHANGED <<history, remote, records, stored, phase, locals, handler, bounds, reverted>>

RollBackFails(v) ==
  /\ (At(v, "rollback") \/ At(v, "undo"))
  /\ RollbackStops
  /\ Goto(v, "raised")
  /\ UNCHANGED <<history, remote, records, stored, phase, locals, handler, bounds, reverted>>

\* The end of _fail, or of JobQueue's handling of an exception that left run:
\* no retry runs the pipeline again, its request being gone by then.
Fail(v) ==
  /\ (At(v, "fail") \/ At(v, "raised"))
  /\ Settle(v, "failed")
  /\ UNCHANGED <<tree, history, remote, reported, dedupOf, stored, phase, handler,
                 bounds, users>>

\* Where a GroundtruthError that is not transient can be raised: by git, by
\* the schema, by the analysis, by a note's path, by the record of the success.
Handling == {"pull", "vocabulary", "analyse", "notes", "add", "commit", "head", "readd", "amend",
             "amended", "push", "succeed"} \union (IF StatusMayFail THEN {"clean"} ELSE {})

StageFails(v) ==
  /\ phase = "up" /\ pc[v] \in Handling
  /\ handled < MaxHandled /\ handled' = handled + 1
  /\ Goto(v, "rollback")
  /\ UNCHANGED <<tree, history, remote, records, stored, phase, locals, handler,
                 crashes, escaping, arrived, users>>

\* A network error of the pull or of the model server.
StageInterrupted(v) ==
  /\ (At(v, "pull") \/ At(v, "analyse"))
  /\ handled < MaxHandled /\ handled' = handled + 1
  /\ Goto(v, "undo")
  /\ UNCHANGED <<tree, history, remote, records, stored, phase, locals, handler,
                 crashes, escaping, arrived, users>>

\* What a file operation of the stage may leave behind when it raises.
Partial(v) ==
  IF pc[v] = "archive" /\ RawArchive THEN ArchiveWrites(v)
  ELSE IF pc[v] = "setsha" THEN {ManifestChange(TextOf[cur[v]], sha[v])}
  ELSE {}

\* OSError, ValueError: neither except clause of run is for them.
StageEscapes(v) ==
  /\ phase = "up" /\ pc[v] \in {"dedup", "scan", "store", "storing", "analyse", "archive", "notes",
                            "setsha", "put"}
  /\ escaping < MaxEscaping /\ escaping' = escaping + 1
  /\ \E part \in SUBSET Partial(v) : dirty' = Over(dirty, part)
  /\ Goto(v, "raised")
  /\ UNCHANGED <<staged, history, remote, records, stored, phase, locals, handler,
                 crashes, handled, arrived, users>>

-------------------------------------------------------------------------------
(* Services.update_schema.                                                   *)

WriteSchema(u) ==
  /\ phase = "up" /\ handler[u] = "idle"
  /\ dirty' = Over(dirty, {SchemaChange(u)})
  /\ handler' = [handler EXCEPT ![u] = "written"]
  /\ UNCHANGED <<staged, history, remote, records, stored, phase, pc, locals, bounds, users>>

\* Mutant: git's refusal to make an empty commit is taken for success.
CommitSchemaUnchecked(u) ==
  LET here == {c \in dirty : c.file = SchemaFile(SchemaVault[u])} IN
  /\ phase = "up" /\ handler[u] = "written"
  /\ IF here = {}
     THEN UNCHANGED <<tree, history>>
     ELSE /\ NewCommit(u, here)
          /\ dirty' = dirty \ here
          /\ staged' = {c \in staged : c.file # SchemaFile(SchemaVault[u])}
  /\ handler' = [handler EXCEPT ![u] = "committed"]
  /\ UNCHANGED <<remote, records, stored, phase, pc, locals, bounds, users>>

\* Mutant: everything in the tree is committed, not the one path.
CommitSchemaAll(u) ==
  /\ phase = "up" /\ handler[u] = "written"
  /\ IF dirty = {}
     THEN UNCHANGED <<tree, history>> /\ handler' = [handler EXCEPT ![u] = "error"]
     ELSE /\ NewCommit(u, dirty)
          /\ dirty' = {} /\ staged' = {}
          /\ handler' = [handler EXCEPT ![u] = "committed"]
  /\ UNCHANGED <<remote, records, stored, phase, pc, locals, bounds, users>>

\* commit_paths: the file as the tree has it, with nothing else; a GitError
\* when it does not differ from HEAD.
CommitSchema(u) ==
  LET here == {c \in dirty : c.file = SchemaFile(SchemaVault[u])} IN
  /\ phase = "up" /\ handler[u] = "written"
  /\ IF here = {}
     THEN UNCHANGED <<tree, history>> /\ handler' = [handler EXCEPT ![u] = "error"]
     ELSE /\ NewCommit(u, here)
          /\ dirty' = dirty \ here
          /\ staged' = {c \in staged : c.file # SchemaFile(SchemaVault[u])}
          /\ handler' = [handler EXCEPT ![u] = "committed"]
  /\ UNCHANGED <<remote, records, stored, phase, pc, locals, bounds, users>>

\* git refuses, for one because the worker's git holds the index lock.
CommitSchemaFails(u) ==
  /\ phase = "up" /\ handler[u] = "written"
  /\ handled < MaxHandled /\ handled' = handled + 1
  /\ handler' = [handler EXCEPT ![u] = "error"]
  /\ UNCHANGED <<tree, history, remote, records, stored, phase, pc, locals, crashes,
                 escaping, arrived, users>>

-------------------------------------------------------------------------------
(* The user and the remote.                                                  *)

Busy == phase = "up" /\ \E v \in Vaults : pc[v] # "idle"

UserEdit(e) ==
  /\ EditWhileBusy \/ ~Busy
  /\ ~Exists(EditFile(e))
  /\ dirty' = dirty \union {EditChange(e)}
  /\ UNCHANGED <<staged, history, remote, records, stored, phase, pc, locals,
                 handler, bounds, users>>

\* The user commits the edits, leaving files that are not theirs alone.
UserCommit ==
  LET mine == {c \in dirty : \E e \in Edits : c = EditChange(e)} IN
  /\ ~Busy /\ mine # {}
  /\ NewCommit("user", mine)
  /\ dirty' = dirty \ mine /\ staged' = staged \ mine
  /\ UNCHANGED <<remote, records, stored, phase, pc, locals, handler, bounds, users>>

\* git revert of an ingest, in a clean tree.
UserRevert(i) ==
  /\ MayRevert /\ ~Busy /\ Clean
  /\ log[i].by \in Jobs /\ log[i].id \notin reverted
  /\ reverted' = reverted \union {log[i].id}
  /\ NewCommit("user", {})
  /\ UNCHANGED <<tree, remote, records, stored, phase, pc, locals, handler, bounds, lost>>

OthersPush ==
  /\ arrived < MaxForeign /\ arrived' = arrived + 1
  /\ foreign' = foreign + 1
  /\ UNCHANGED <<tree, history, pushed, records, stored, phase, pc, locals, handler,
                 crashes, handled, escaping, users>>

-------------------------------------------------------------------------------
(* Crash, restart, recovery.                                                 *)

Crash ==
  /\ phase # "down" /\ crashes < MaxCrashes
  /\ crashes' = crashes + 1
  /\ phase' = "down"
  /\ pc' = [v \in Vaults |-> "idle"]
  /\ cur' = [v \in Vaults |-> None]
  /\ written' = [v \in Vaults |-> 0]
  /\ sha' = [v \in Vaults |-> 0]
  /\ key' = [v \in Vaults |-> 0] /\ vocab' = [v \in Vaults |-> {}]
  /\ handler' = [u \in Schemas |-> IF handler[u] = "written" THEN "lost" ELSE handler[u]]
  /\ UNCHANGED <<tree, history, remote, records, stored, handled, escaping, arrived, users>>

Restart ==
  /\ phase = "down"
  /\ phase' = "recovering"
  /\ UNCHANGED <<tree, history, remote, records, stored, pc, locals, handler, bounds, users>>

\* Mutant: the tree is rolled back, the record is left RUNNING.
RecoverTreeOnly(j) ==
  /\ phase = "recovering" /\ state[j] = "running"
  /\ Rollback
  /\ UNCHANGED <<history, remote, records, stored, phase, pc, locals, handler, bounds, reverted>>

\* recover_on_startup on a job found RUNNING: roll back a tree that is not
\* clean, swallowing a GitError, and fail the job.
RecoverInterrupted(j) ==
  /\ phase = "recovering" /\ state[j] = "running"
  /\ IF Clean THEN UNCHANGED <<tree, lost>> ELSE Rollback \/ RollbackStops
  /\ state' = [state EXCEPT ![j] = "failed"]
  /\ UNCHANGED <<history, remote, reported, dedupOf, stored, phase, pc, locals,
                 handler, bounds, reverted>>

Serve ==
  /\ phase = "recovering"
  /\ \A j \in Jobs : state[j] # "running"
  /\ phase' = "up"
  /\ UNCHANGED <<tree, history, remote, records, stored, pc, locals, handler, bounds, users>>

-------------------------------------------------------------------------------

Stage(v) ==
  \/ CheckClean(v) \/ DedupHit(v) \/ DedupMiss(v) \/ Pull(v) \/ PullRefused(v)
  \/ ReadKey(v) \/ LookUp(v) \/ Scan(v) \/ EmptyCache(v) \/ FillCache(v)
  \/ Analyse(v) \/ Archive(v) \/ WriteNote(v) \/ Add(v)
  \/ Commit(v) \/ ReadHead(v)
  \/ SetCommitSha(v) \/ ReAdd(v) \/ Amend(v) \/ ReadAmended(v)
  \/ Put(v) \/ Push(v) \/ Succeed(v)
  \/ RollBack(v) \/ Undo(v) \/ Fail(v)

Fault(v) == StageFails(v) \/ StageInterrupted(v) \/ StageEscapes(v) \/ RollBackFails(v)

UpdateSchema(u) == WriteSchema(u) \/ CommitSchema(u) \/ CommitSchemaFails(u)

User == (\E e \in Edits : UserEdit(e)) \/ UserCommit \/ (\E i \in DOMAIN log : UserRevert(i))

Recovery == Restart \/ (\E j \in Jobs : RecoverInterrupted(j)) \/ Serve

Next ==
  \/ \E v \in Vaults : (\E j \in Jobs : Start(v, j)) \/ Stage(v) \/ Fault(v)
  \/ \E u \in Schemas : UpdateSchema(u)
  \/ User \/ OthersPush
  \/ Crash \/ Recovery

Spec == Init /\ [][Next]_vars

\* Worker threads are scheduled, every git, file and model call returns, and
\* a process that stopped is started again.
FairSpec ==
  /\ Spec
  /\ \A v \in Vaults : WF_vars(Stage(v))
  /\ WF_vars(Recovery)

-------------------------------------------------------------------------------
(* Properties.                                                               *)

\* No commit holds some of an ingest's notes without the others, and no two
\* commits share them, whatever stage fails and however it fails
\* (pipeline.py run and its except clauses, recovery.py _rollback).
AllOrNothing ==
  \A j \in Jobs :
    LET holding == {i \in DOMAIN log : log[i].changes \intersect Notes(j) # {}}
    IN  Cardinality(holding) <= 1 /\ \A i \in holding : Notes(j) \subseteq log[i].changes

\* The commit a job reports, when it was not a duplicate, is in the history
\* under the job's own message and holds its notes and nobody else's work, so
\* that reverting it retracts the ingest (pipeline.py:186-191, git.py commit
\* and amend).
ReportedCommitIsRetractable ==
  \A j \in Jobs :
    state[j] = "succeeded" /\ dedupOf[j] = None =>
      \E i \in DOMAIN log :
        /\ log[i].id = reported[j] /\ log[i].by = j
        /\ Notes(j) \subseteq log[i].changes
        /\ \A c \in log[i].changes \ Notes(j) :
             c.file \in {TextFile(TextOf[j]), ManifestFile(TextOf[j])}

\* An entry of the source index, which turns later ingests of the text into
\* duplicates, stands for notes that are in the history (pipeline.py:187-193).
IndexIsStored ==
  \A v \in Vaults, x \in Texts :
    index[v][x] # None => Notes(index[v][x].job) \subseteq Committed

\* Once no ingest runs, no ingest has left anything of its own in the tree:
\* the rollbacks of the pipeline and of recovery are complete, so the next
\* clean-tree check does not refuse (pipeline.py:233-241, recovery.py:77-85).
NothingLeftBehind ==
  phase = "up" /\ (\A v \in Vaults : pc[v] = "idle") =>
    \A c \in dirty \union staged : c.file \notin IngestFiles

\* A rollback of the pipeline destroys no edit of the user's (pipeline.py:278-283
\* refuses a dirty tree before anything else, and without rolling back); the
\* recovery after a crash does, and is left out.
UnsavedEditsSurvive == crashes = 0 => lost = {}

\* A schema update that was accepted is in the history, or the one that replaced
\* the file before it was committed is: no rollback of an ingest running beside
\* it has taken it away unnoticed (services.py:159-162).
AcceptedSchemaIsCommitted ==
  \A u \in Schemas :
    handler[u] = "committed" =>
      \E w \in Schemas :
        /\ SchemaVault[w] = SchemaVault[u]
        /\ w = u \/ handler[w] # "idle"
        /\ \E i \in DOMAIN log : SchemaChange(w) \in log[i].changes

\* What the remote has of the branch is never rewritten: the amend of the
\* archive's manifest comes before the push (pipeline.py:188-208).
PublishedHistoryIsStable ==
  [][\A i \in 1..pushed : log'[i] = log[i]]_<<log, pushed>>

\* The vocabulary the model is given lists the tags of the notes at HEAD, whether
\* derived or cached, through pulls, reverts, schema updates, failed ingests and
\* crashes: what the scan reads is what the key names, as long as the user leaves
\* the tree alone during an ingest (vocabulary.py:93-122, pipeline.py:128-134).
VocabularyIsCurrent ==
  \A v \in Vaults : At(v, "analyse") => vocab[v] = NotesAmong(Committed)

\* Every ingest that starts reaches an outcome, crashes included.
EveryIngestEnds ==
  \A j \in Jobs : state[j] = "running" ~> state[j] \in {"succeeded", "failed"}

\* The pipeline implements AtomicIngest: see that module.
SameSource(j, k) == VaultOf[j] = VaultOf[k] /\ TextOf[j] = TextOf[k]
Atomic == INSTANCE AtomicIngest WITH
  stored <- [j \in Jobs |-> Cardinality(Notes(j) \intersect Committed)]
ImplementsAtomicIngest == Atomic!Spec

-------------------------------------------------------------------------------
(* What the documentation says, and the code does not do.                    *)

\* "the job is reported failed": nothing of a failed job is in the history.
FailedMeansNothingCommitted ==
  \A j \in Jobs : state[j] = "failed" => Notes(j) \intersect Committed = {}

\* A manifest that names a commit names one that is in the history.
ManifestNamesItsCommit ==
  \A c \in Committed :
    (\E x \in Texts : c.file = ManifestFile(x)) /\ c.version # 0 =>
      \E i \in DOMAIN log : log[i].id = c.version

\* "so it invalidates exactly when the vault changes": when HEAD is not the one
\* the cache was stored for, the vocabulary is derived anew.
ChangedVaultIsRescanned ==
  [][\A v \in Vaults :
       pc[v] = "lookup" /\ pc'[v] \notin {"lookup", "idle"} /\ cache[v].head # key[v] =>
         pc'[v] = "scan"]_<<pc, cache>>

\* A text whose ingest was reverted is not a duplicate of it.
RevertedSourceIsReingested ==
  [][\A j \in Jobs :
       dedupOf'[j] # dedupOf[j] =>
         index[VaultOf[j]][TextOf[j]].commit \notin reverted]_<<dedupOf, index>>
===============================================================================
