------------------------- MODULE IngestPipelineProofs -------------------------
(***************************************************************************)
(* Proofs about IngestPipeline: the types, what the remote has, accepted   *)
(* schemas, the user's edits, and that an ingest is stored whole or not at *)
(* all.  What shares the tree is in the way of each of them: the handlers  *)
(* of update_schema, the user, the remote and the recovery.                *)
(* IngestHistoryProofs builds on these invariants.                         *)
(***************************************************************************)
EXTENDS IngestPipeline, FiniteSetTheorems, TLAPS

-------------------------------------------------------------------------------
(* Where a worker stands.                                                    *)

\* Past the clean-tree check and before the first note; past the commit; on the
\* way to FAILED.
BeforeWriting == {"dedup", "pull", "vocabulary", "lookup", "scan", "store", "storing",
                  "analyse", "archive"}
Recording == {"head", "setsha", "readd", "amend", "amended", "put", "push", "succeed"}
Failing == {"rollback", "fail", "undo", "raised"}

\* A worker that is not idle has a job of its vault, which is RUNNING.
LocalsInv ==
  \A v \in Vaults :
    /\ pc[v] # "idle" => /\ phase = "up"
                         /\ cur[v] \in Jobs /\ VaultOf[cur[v]] = v
                         /\ state[cur[v]] = "running"
    /\ pc[v] \in {"idle", "clean"} \union BeforeWriting => written[v] = 0
    /\ pc[v] = "notes" => written[v] < NotesPerJob

-------------------------------------------------------------------------------
(* Types.                                                                    *)

TypeTree ==
  dirty \in SUBSET Changes /\ staged \in SUBSET Changes
    /\ lost \in SUBSET Edits /\ reverted \in SUBSET Nat

TypeHistory ==
  log \in Seq(Commits) /\ Len(log) > 0 /\ nextId \in Nat
    /\ pushed \in 0..Len(log) /\ foreign \in Nat

TypeRecords ==
  /\ state \in [Jobs -> {"none", "running", "succeeded", "failed"}]
  /\ reported \in [Jobs -> Nat]
  /\ dedupOf \in [Jobs -> Jobs \union {None}]
  /\ index \in [Vaults -> [Texts -> Entries \union {None}]]
  /\ cache \in [Vaults -> CacheFiles]

TypeProcess ==
  /\ phase \in {"up", "down", "recovering"}
  /\ pc \in [Vaults -> PCs]
  /\ cur \in [Vaults -> Jobs \union {None}]
  /\ written \in [Vaults -> 0..NotesPerJob]
  /\ sha \in [Vaults -> Nat] /\ key \in [Vaults -> Nat]
  /\ vocab \in [Vaults -> SUBSET Changes]
  /\ handler \in [Schemas -> {"idle", "written", "committed", "error", "lost"}]

TypeBounds ==
  crashes \in Nat /\ handled \in Nat /\ escaping \in Nat /\ arrived \in Nat

TypeInv == TypeTree /\ TypeHistory /\ TypeRecords /\ TypeProcess /\ TypeBounds /\ LocalsInv

LEMMA TypeParts ==
  TypeOK <=> TypeTree /\ TypeHistory /\ TypeRecords /\ TypeProcess /\ TypeBounds
BY DEF TypeOK, TypeTree, TypeHistory, TypeRecords, TypeProcess, TypeBounds

\* Every change that a step makes is one.
LEMMA ChangeTypes ==
  /\ \A j \in Jobs, n \in 1..NotesPerJob : NoteChange(j, n) \in Changes
  /\ \A x \in Texts : TextChange(x) \in Changes
  /\ \A x \in Texts, id \in Nat : ManifestChange(x, id) \in Changes
  /\ \A u \in Schemas : SchemaChange(u) \in Changes
  /\ \A e \in Edits : EditChange(e) \in Changes
  /\ \A id \in Nat : TheirChange(id) \in Changes
BY PipelineAssumption
   DEF NoteChange, TextChange, ManifestChange, SchemaChange, EditChange, TheirChange, Change,
       Changes, Files, IngestFiles, NoteFile, TextFile, ManifestFile, SchemaFile, EditFile,
       TheirFile

LEMMA OverTypes ==
  \A old, new \in SUBSET Changes : Over(old, new) \in SUBSET Changes
BY DEF Over

\* What the branch holds.
LEMMA HistoryTypes ==
  ASSUME TypeHistory
  PROVE  /\ HEAD \in Commits /\ HEAD.id \in Nat /\ HEAD.changes \in SUBSET Changes
         /\ \A i \in DOMAIN log : log[i] \in Commits /\ log[i].changes \in SUBSET Changes
         /\ Committed \in SUBSET Changes
         /\ NotesAmong(Committed) \in SUBSET Changes
<1>1. Len(log) \in DOMAIN log /\ \A i \in DOMAIN log : log[i] \in Commits
  BY DEF TypeHistory
<1>2. \A i \in DOMAIN log : log[i].changes \in SUBSET Changes /\ log[i].id \in Nat
  BY <1>1 DEF Commits
<1>3. Committed \in SUBSET Changes
  BY <1>2 DEF Committed
<1> QED BY <1>1, <1>2, <1>3 DEF HEAD, NotesAmong

LEMMA InitTypes == Init => TypeInv
<1> SUFFICES ASSUME Init PROVE TypeInv
  OBVIOUS
<1>1. TypeTree /\ TypeBounds
  BY DEF Init, TypeTree, TypeBounds
<1>2. TypeHistory
  <2>1. [id |-> 1, by |-> "user", changes |-> {}] \in Commits
    BY DEF Commits
  <2> QED BY <2>1 DEF Init, TypeHistory
<1>3. TypeRecords
  BY DEF Init, TypeRecords, CacheFile, CacheFiles
<1>4. TypeProcess
  BY PipelineAssumption DEF Init, TypeProcess, PCs
<1>5. LocalsInv
  BY DEF Init, LocalsInv, BeforeWriting
<1> QED BY <1>1, <1>2, <1>3, <1>4, <1>5 DEF TypeInv

\* The steps of an ingest that leave the tree and the history alone.
LEMMA QuietStageTypes ==
  ASSUME TypeInv, NEW v \in Vaults,
         \/ CheckClean(v) \/ DedupMiss(v) \/ PullRefused(v) \/ ReadKey(v) \/ LookUp(v)
         \/ Scan(v) \/ EmptyCache(v) \/ FillCache(v) \/ Analyse(v) \/ ReadHead(v)
         \/ ReadAmended(v) \/ Put(v) \/ Push(v) \/ StageFails(v) \/ StageInterrupted(v)
  PROVE  TypeInv'
<1> USE DEF TypeInv, At, Goto, tree, history, remote, records, stored, locals, bounds, users
<1>1. TypeTree'
  BY DEF TypeTree, CheckClean, DedupMiss, PullRefused, ReadKey, LookUp, Scan, EmptyCache,
         FillCache, Analyse, ReadHead, ReadAmended, Put, Push, StageFails, StageInterrupted
<1>2. TypeHistory'
  BY DEF TypeHistory, CheckClean, DedupMiss, PullRefused, ReadKey, LookUp, Scan, EmptyCache,
         FillCache, Analyse, ReadHead, ReadAmended, Put, Push, StageFails, StageInterrupted
<1>3. TypeBounds'
  BY DEF TypeBounds, CheckClean, DedupMiss, PullRefused, ReadKey, LookUp, Scan, EmptyCache,
         FillCache, Analyse, ReadHead, ReadAmended, Put, Push, StageFails, StageInterrupted
<1>4. TypeProcess'
  <2>1. Over(Committed, dirty) \in SUBSET Changes
    BY HistoryTypes, OverTypes DEF TypeTree
  <2>2. NotesAmong(Over(Committed, dirty)) \in SUBSET Changes
    BY <2>1 DEF NotesAmong
  <2>3. cache[v].tags \in SUBSET Changes
    BY DEF TypeRecords, CacheFiles
  <2>4. CASE ReadKey(v) \/ ReadHead(v) \/ ReadAmended(v)
    <3>1. HEAD.id \in Nat
      BY HistoryTypes
    <3> QED BY <2>4, <3>1 DEF TypeProcess, PCs, ReadKey, ReadHead, ReadAmended
  <2>5. CASE LookUp(v) \/ Scan(v) \/ Analyse(v)
    BY <2>5, <2>2, <2>3 DEF TypeProcess, PCs, LookUp, Scan, Analyse
  <2> QED BY <2>4, <2>5
       DEF TypeProcess, PCs, CheckClean, DedupMiss, PullRefused, EmptyCache, FillCache, Put, Push,
           StageFails, StageInterrupted
<1>5. TypeRecords'
  <2>1. CASE EmptyCache(v) \/ FillCache(v)
    <3>1. CacheFile("torn", 0, {}) \in CacheFiles /\ CacheFile("whole", key[v], vocab[v]) \in CacheFiles
      BY DEF TypeProcess, CacheFile, CacheFiles
    <3> QED BY <2>1, <3>1 DEF EmptyCache, FillCache, TypeRecords
  <2>2. CASE Put(v)
    <3>1. cur[v] \in Jobs /\ TextOf[cur[v]] \in Texts /\ sha[v] \in Nat
      BY <2>2, PipelineAssumption DEF Put, LocalsInv, TypeProcess
    <3> QED BY <2>2, <3>1 DEF Put, TypeRecords, Entries
  <2> QED BY <2>1, <2>2
       DEF TypeRecords, CheckClean, DedupMiss, PullRefused, ReadKey, LookUp, Scan,
           Analyse, ReadHead, ReadAmended, Push, StageFails, StageInterrupted
<1>6. LocalsInv'
  BY DEF LocalsInv, TypeProcess, BeforeWriting, CheckClean, DedupMiss, PullRefused, ReadKey,
         LookUp, Scan, EmptyCache, FillCache, Analyse, ReadHead, ReadAmended, Put, Push,
         StageFails, StageInterrupted, Handling
<1> QED BY <1>1, <1>2, <1>3, <1>4, <1>5, <1>6


\* The steps that settle a job.
LEMMA SettleTypes ==
  ASSUME TypeInv, NEW v \in Vaults, DedupHit(v) \/ Succeed(v) \/ Fail(v)
  PROVE  TypeInv'
<1> USE DEF TypeInv, At, Goto, tree, history, remote, records, stored, locals, bounds, users
<1>0. cur[v] \in Jobs /\ VaultOf[cur[v]] = v /\ phase = "up"
  BY DEF LocalsInv, DedupHit, Succeed, Fail
<1>1. PICK outcome \in {"succeeded", "failed"} : Settle(v, outcome)
  BY DEF DedupHit, Succeed, Fail
<1>2. TypeTree' /\ TypeHistory' /\ TypeBounds'
  BY DEF TypeTree, TypeHistory, TypeBounds, DedupHit, Succeed, Fail
<1>3. TypeProcess'
  BY <1>1, PipelineAssumption DEF Settle, TypeProcess, PCs, DedupHit, Succeed, Fail
<1>4. TypeRecords'
  <2>1. CASE DedupHit(v)
    <3>1. Prior(v) \in Entries
      <4>1. TextOf[cur[v]] \in Texts
        BY <1>0, PipelineAssumption
      <4>2. index[v][TextOf[cur[v]]] \in Entries \union {None}
        BY <4>1 DEF TypeRecords
      <4> QED BY <2>1, <4>2 DEF DedupHit, Prior
    <3>2. Prior(v).job \in Jobs /\ Prior(v).commit \in Nat
      BY <3>1 DEF Entries
    <3> QED BY <2>1, <1>0, <1>1, <3>2 DEF DedupHit, Settle, TypeRecords
  <2>2. CASE Succeed(v)
    BY <2>2, <1>0, <1>1 DEF Succeed, Settle, TypeRecords, TypeProcess
  <2>3. CASE Fail(v)
    BY <2>3, <1>0, <1>1 DEF Fail, Settle, TypeRecords
  <2> QED BY <2>1, <2>2, <2>3
<1>5. LocalsInv'
  <2> SUFFICES ASSUME NEW w \in Vaults
      PROVE  /\ pc'[w] # "idle" => /\ phase' = "up"
                         /\ cur'[w] \in Jobs /\ VaultOf[cur'[w]] = w
                         /\ state'[cur'[w]] = "running"
             /\ pc'[w] \in {"idle", "clean"} \union BeforeWriting => written'[w] = 0
             /\ pc'[w] = "notes" => written'[w] < NotesPerJob
    BY DEF LocalsInv
  <2>1. CASE w = v
    BY <2>1, <1>1 DEF Settle, TypeProcess
  <2>2. CASE w # v
    <3>1. /\ pc'[w] = pc[w] /\ cur'[w] = cur[w] /\ written'[w] = written[w]
          /\ phase' = phase
          /\ state' = [state EXCEPT ![cur[v]] = outcome]
      BY <2>2, <1>1 DEF Settle, TypeProcess, DedupHit, Succeed, Fail
    <3>2. pc[w] # "idle" => cur[w] # cur[v]
      BY <2>2, <1>0 DEF LocalsInv
    <3> QED BY <3>1, <3>2, <1>0 DEF LocalsInv, TypeRecords
  <2> QED BY <2>1, <2>2
<1> QED BY <1>2, <1>3, <1>4, <1>5

\* The steps of an ingest that change the tree.
LEMMA TreeStageTypes ==
  ASSUME TypeInv, NEW v \in Vaults,
         \/ Archive(v) \/ WriteNote(v) \/ Add(v) \/ SetCommitSha(v) \/ ReAdd(v)
         \/ RollBack(v) \/ Undo(v) \/ RollBackFails(v) \/ StageEscapes(v)
  PROVE  TypeInv'
<1> USE DEF TypeInv, At, Goto, tree, history, remote, records, stored, locals, bounds, users
<1>0. /\ cur[v] \in Jobs /\ TextOf[cur[v]] \in Texts
      /\ written[v] \in Nat /\ sha[v] \in Nat /\ NotesPerJob \in Nat
  BY PipelineAssumption
     DEF LocalsInv, TypeProcess, Archive, WriteNote, Add, SetCommitSha, ReAdd, RollBack, Undo,
         RollBackFails, StageEscapes
<1>1. TypeHistory' /\ TypeRecords' /\ TypeBounds'
  BY DEF TypeHistory, TypeRecords, TypeBounds, Archive, WriteNote, Add, SetCommitSha, ReAdd,
         RollBack, Undo, RollBackFails, StageEscapes
<1>2. TypeProcess' /\ LocalsInv'
  <2>1. CASE WriteNote(v)
    <3>1. written[v] + 1 \in 0..NotesPerJob
      BY <2>1, <1>0 DEF WriteNote, LocalsInv
    <3>2. TypeProcess'
      BY <2>1, <3>1 DEF TypeProcess, PCs, WriteNote
    <3>3. LocalsInv'
      BY <2>1, <3>1, <1>0 DEF TypeProcess, LocalsInv, BeforeWriting, WriteNote
    <3> QED BY <3>2, <3>3
  <2>2. CASE ~WriteNote(v)
    <3>1. TypeProcess'
      BY <2>2 DEF TypeProcess, PCs, Archive, Add, SetCommitSha, ReAdd,
           RollBack, Undo, RollBackFails, StageEscapes
    <3>2. LocalsInv'
      BY <2>2, PipelineAssumption DEF TypeProcess, LocalsInv, BeforeWriting, Archive, Add, SetCommitSha, ReAdd,
           RollBack, Undo, RollBackFails, StageEscapes
    <3> QED BY <3>1, <3>2
  <2> QED BY <2>1, <2>2
<1>3. TypeTree'
  <2>1. ArchiveWrites(v) \in SUBSET Changes
    BY <1>0, ChangeTypes DEF ArchiveWrites
  <2>2. ManifestChange(TextOf[cur[v]], sha[v]) \in Changes
    BY <1>0, ChangeTypes
  <2>3. CASE Archive(v) \/ Add(v) \/ ReAdd(v)
    BY <2>1, <2>3 DEF TypeTree, Archive, Add, ReAdd, StageAll
  <2>4. CASE WriteNote(v)
    <3>1. NoteChange(cur[v], written[v] + 1) \in Changes
      BY <1>0, <2>4, ChangeTypes DEF WriteNote, LocalsInv
    <3> QED BY <3>1, <2>4, OverTypes DEF TypeTree, WriteNote
  <2>5. CASE SetCommitSha(v)
    BY <2>2, <2>5, OverTypes DEF TypeTree, SetCommitSha
  <2>6. CASE RollBack(v) \/ Undo(v) \/ RollBackFails(v)
    <3>1. \A c \in SUBSET Changes : UserEdits(c) \in SUBSET Edits
      BY DEF UserEdits
    <3> QED BY <2>6, <3>1 DEF TypeTree, RollBack, Undo, RollBackFails, Rollback, RollbackStops
  <2>7. CASE StageEscapes(v)
    <3>1. Partial(v) \in SUBSET Changes
      BY <2>1, <2>2 DEF Partial
    <3> QED BY <3>1, <2>7, OverTypes DEF TypeTree, StageEscapes
  <2> QED BY <2>3, <2>4, <2>5, <2>6, <2>7
<1> QED BY <1>1, <1>2, <1>3

\* A commit appended to the branch, or put in the place of the last.
LEMMA AppendTypes ==
  ASSUME TypeHistory, NEW e \in Commits
  PROVE  /\ Append(log, e) \in Seq(Commits) /\ Len(Append(log, e)) = Len(log) + 1
         /\ [log EXCEPT ![Len(log)] = e] \in Seq(Commits)
         /\ Len([log EXCEPT ![Len(log)] = e]) = Len(log)
BY DEF TypeHistory

LEMMA CommitTypes ==
  ASSUME TypeHistory, NEW by \in Jobs \union Schemas \union {"user", "remote"},
         NEW changes \in SUBSET Changes, NewCommit(by, changes), UNCHANGED remote
  PROVE  TypeHistory'
<1> DEFINE e == [id |-> nextId, by |-> by, changes |-> changes]
<1>1. e \in Commits
  BY DEF Commits, TypeHistory
<1>2. log' = Append(log, e) /\ nextId' = nextId + 1 /\ pushed' = pushed /\ foreign' = foreign
  BY DEF NewCommit, remote
<1> HIDE DEF e
<1>3. log' \in Seq(Commits) /\ Len(log') = Len(log) + 1
  BY <1>1, <1>2, AppendTypes
<1>4. Len(log) \in Nat /\ pushed \in 0..Len(log)
  BY DEF TypeHistory
<1>5. pushed' \in 0..Len(log') /\ Len(log') > 0
  BY <1>2, <1>3, <1>4
<1> QED BY <1>2, <1>3, <1>5 DEF TypeHistory

\* The steps of an ingest that change the history.
LEMMA HistoryStageTypes ==
  ASSUME TypeInv, NEW v \in Vaults, Pull(v) \/ Commit(v) \/ Amend(v)
  PROVE  TypeInv'
<1> USE DEF TypeInv, At, Goto, tree, history, remote, records, stored, locals, bounds, users
<1>0. cur[v] \in Jobs
  BY DEF LocalsInv, Pull, Commit, Amend
<1>1. TypeTree' /\ TypeRecords' /\ TypeBounds'
  BY DEF TypeTree, TypeRecords, TypeBounds, Pull, Commit, Amend
<1>2. TypeProcess' /\ LocalsInv'
  <2>1. TypeProcess'
    BY DEF TypeProcess, PCs, Pull, Commit, Amend
  <2>2. LocalsInv'
    BY DEF TypeProcess, LocalsInv, BeforeWriting, Pull, Commit, Amend
  <2> QED BY <2>1, <2>2
<1>3. TypeHistory'
  <2>1. CASE Pull(v)
    <3> DEFINE e == [id |-> nextId, by |-> "remote", changes |-> {TheirChange(nextId)}]
    <3>1. e \in Commits
      BY ChangeTypes DEF Commits, TypeHistory
    <3>2. \/ UNCHANGED <<history, remote>>
          \/ log' = Append(log, e) /\ nextId' = nextId + 1 /\ pushed' = Len(log') /\ foreign' = 0
      BY <2>1 DEF Pull, NewCommit
    <3> HIDE DEF e
    <3>3. Append(log, e) \in Seq(Commits) /\ Len(Append(log, e)) = Len(log) + 1
      BY <3>1, AppendTypes
    <3> QED BY <3>2, <3>3 DEF TypeHistory
  <2>2. CASE Commit(v)
    <3>1. CASE staged = {}
      BY <2>2, <3>1 DEF Commit, TypeHistory
    <3>2. CASE staged # {}
      <4>1. NewCommit(cur[v], staged) /\ UNCHANGED remote
        BY <2>2, <3>2 DEF Commit
      <4> QED BY <4>1, <1>0, CommitTypes DEF TypeTree
    <3> QED BY <3>1, <3>2
  <2>3. CASE Amend(v)
    <3> DEFINE e == [id |-> nextId, by |-> HEAD.by, changes |-> Over(HEAD.changes, staged)]
    <3>1. HEAD \in Commits /\ HEAD.changes \in SUBSET Changes
      BY HistoryTypes
    <3>2. e \in Commits
      BY <3>1, OverTypes DEF Commits, TypeHistory, TypeTree
    <3>3. log' = [log EXCEPT ![Len(log)] = e] /\ nextId' = nextId + 1
      BY <2>3 DEF Amend
    <3> HIDE DEF e
    <3>4. log' \in Seq(Commits) /\ Len(log') = Len(log)
      BY <3>2, <3>3, AppendTypes
    <3>5. pushed' \in 0..Len(log) /\ foreign' \in Nat
      BY <2>3 DEF Amend, TypeHistory
    <3> QED BY <3>3, <3>4, <3>5 DEF TypeHistory
  <2> QED BY <2>1, <2>2, <2>3
<1> QED BY <1>1, <1>2, <1>3


\* The steps beside the ingests.
LEMMA StartTypes ==
  ASSUME TypeInv, NEW v \in Vaults, NEW j \in Jobs, Start(v, j)
  PROVE  TypeInv'
<1> USE DEF TypeInv, At, Goto, tree, history, remote, records, stored, locals, bounds, users
<1>1. TypeTree' /\ TypeHistory' /\ TypeBounds'
  BY DEF TypeTree, TypeHistory, TypeBounds, Start
<1>2. TypeRecords'
  BY DEF TypeRecords, Start
<1>3. TypeProcess'
  BY DEF TypeProcess, PCs, Start
<1>4. LocalsInv'
  BY DEF LocalsInv, TypeProcess, TypeRecords, BeforeWriting, Start
<1> QED BY <1>1, <1>2, <1>3, <1>4

LEMMA SchemaTypes ==
  ASSUME TypeInv, NEW u \in Schemas, UpdateSchema(u)
  PROVE  TypeInv'
<1> USE DEF TypeInv, tree, history, remote, records, stored, locals, bounds, users, UpdateSchema
<1>1. TypeRecords' /\ LocalsInv' /\ TypeBounds'
  BY DEF TypeRecords, LocalsInv, TypeBounds, WriteSchema, CommitSchema, CommitSchemaFails
<1>2. TypeProcess'
  BY DEF TypeProcess, WriteSchema, CommitSchema, CommitSchemaFails
<1>3. TypeTree'
  <2>1. SchemaChange(u) \in Changes
    BY ChangeTypes
  <2> QED BY <2>1, OverTypes DEF TypeTree, WriteSchema, CommitSchema, CommitSchemaFails
<1>4. TypeHistory'
  <2>1. CASE UNCHANGED <<log, nextId>>
    BY <2>1 DEF TypeHistory, WriteSchema, CommitSchema, CommitSchemaFails
  <2>2. CASE ~UNCHANGED <<log, nextId>>
    <3>1. PICK here \in SUBSET dirty : NewCommit(u, here) /\ UNCHANGED remote
      BY <2>2 DEF WriteSchema, CommitSchema, CommitSchemaFails
    <3> QED BY <3>1, CommitTypes DEF TypeTree
  <2> QED BY <2>1, <2>2
<1> QED BY <1>1, <1>2, <1>3, <1>4

LEMMA UserTypes ==
  ASSUME TypeInv, User \/ OthersPush
  PROVE  TypeInv'
<1> USE DEF TypeInv, tree, history, remote, records, stored, locals, bounds, users, User
<1>1. TypeRecords' /\ LocalsInv' /\ TypeProcess'
  BY DEF TypeRecords, LocalsInv, TypeProcess, UserEdit, UserCommit, UserRevert, OthersPush
<1>2. TypeBounds'
  BY DEF TypeBounds, UserEdit, UserCommit, UserRevert, OthersPush
<1>3. CASE \E e \in Edits : UserEdit(e)
  BY <1>1, <1>2, <1>3, ChangeTypes DEF TypeTree, TypeHistory, UserEdit
<1>4. CASE UserCommit
  <2>1. PICK mine \in SUBSET dirty : NewCommit("user", mine) /\ UNCHANGED remote
    BY <1>4 DEF UserCommit
  <2>2. TypeHistory'
    BY <2>1, CommitTypes DEF TypeTree
  <2>3. TypeTree'
    BY <1>4 DEF TypeTree, UserCommit
  <2> QED BY <1>1, <1>2, <2>2, <2>3
<1>5. CASE \E i \in DOMAIN log : UserRevert(i)
  <2>1. PICK i \in DOMAIN log : UserRevert(i)
    BY <1>5
  <2>2. NewCommit("user", {}) /\ UNCHANGED remote
    BY <2>1 DEF UserRevert
  <2>3. log[i].id \in Nat
    BY HistoryTypes DEF Commits
  <2>4. TypeTree'
    BY <2>1, <2>3 DEF TypeTree, UserRevert
  <2>5. TypeHistory'
    BY <2>2, CommitTypes
  <2> QED BY <1>1, <1>2, <2>4, <2>5
<1>6. CASE OthersPush
  BY <1>1, <1>2, <1>6 DEF TypeTree, TypeHistory, OthersPush
<1> QED BY <1>3, <1>4, <1>5, <1>6

LEMMA RestartTypes ==
  ASSUME TypeInv, Crash \/ Recovery
  PROVE  TypeInv'
<1> USE DEF TypeInv, tree, history, remote, records, stored, locals, bounds, users, Recovery
<1>1. TypeHistory' /\ TypeBounds'
  BY DEF TypeHistory, TypeBounds, Crash, Restart, RecoverInterrupted, Serve
<1>2. TypeRecords'
  BY DEF TypeRecords, Crash, Restart, RecoverInterrupted, Serve
<1>3. TypeProcess'
  BY PipelineAssumption DEF TypeProcess, PCs, Crash, Restart, RecoverInterrupted, Serve
<1>4. TypeTree'
  <2>1. \A c \in SUBSET Changes : UserEdits(c) \in SUBSET Edits
    BY DEF UserEdits
  <2> QED BY <2>1
       DEF TypeTree, Rollback, RollbackStops, Crash, Restart, RecoverInterrupted, Serve
<1>5. LocalsInv'
  <2>1. CASE Crash
    BY <2>1 DEF LocalsInv, BeforeWriting, Crash
  <2>2. CASE Recovery
    <3>1. \A v \in Vaults : pc[v] = "idle"
      BY <2>2 DEF LocalsInv, Restart, RecoverInterrupted, Serve
    <3> QED BY <2>2, <3>1 DEF LocalsInv, BeforeWriting, Restart, RecoverInterrupted, Serve
  <2> QED BY <2>1, <2>2
<1> QED BY <1>1, <1>2, <1>3, <1>4, <1>5

LEMMA TypesKept == TypeInv /\ [Next]_vars => TypeInv'
<1> SUFFICES ASSUME TypeInv, [Next]_vars PROVE TypeInv'
  OBVIOUS
<1>1. ASSUME NEW v \in Vaults, NEW j \in Jobs, Start(v, j) PROVE TypeInv'
  BY <1>1, StartTypes
<1>2. ASSUME NEW v \in Vaults, Stage(v) \/ Fault(v) PROVE TypeInv'
  BY <1>2, QuietStageTypes, SettleTypes, TreeStageTypes, HistoryStageTypes DEF Stage, Fault
<1>3. ASSUME NEW u \in Schemas, UpdateSchema(u) PROVE TypeInv'
  BY <1>3, SchemaTypes
<1>4. CASE User \/ OthersPush \/ Crash \/ Recovery
  BY <1>4, UserTypes, RestartTypes
<1>5. CASE UNCHANGED vars
  BY <1>5 DEF vars, tree, history, remote, records, stored, locals, bounds, users, TypeInv, TypeTree,
     TypeHistory, TypeRecords, TypeProcess, TypeBounds, LocalsInv
<1> QED BY <1>1, <1>2, <1>3, <1>4, <1>5 DEF Next

\* Types, and where a worker stands: a worker that is not idle has a job of its
\* vault, whose record says RUNNING.
THEOREM TypesHold == Spec => []TypeInv
BY InitTypes, TypesKept, PTL DEF Spec

\* Every variable of the pipeline's model keeps its type (pipeline.py, git.py,
\* source_index.py, vocabulary.py, services.py).
THEOREM TypesCorrect == Spec => []TypeOK
BY TypesHold, TypeParts, PTL DEF TypeInv


-------------------------------------------------------------------------------
(* How the history changes.                                                  *)

\* One commit more.
LEMMA CommitAppends ==
  ASSUME TypeHistory, NEW by \in Jobs \union Schemas \union {"user", "remote"},
         NEW changes \in SUBSET Changes, NewCommit(by, changes)
  PROVE  /\ Len(log) \in Nat \ {0}
         /\ DOMAIN log = 1..Len(log) /\ DOMAIN log' = 1..(Len(log) + 1)
         /\ Len(log') = Len(log) + 1
         /\ \A i \in 1..Len(log) : log'[i] = log[i]
         /\ log'[Len(log) + 1] = [id |-> nextId, by |-> by, changes |-> changes]
         /\ HEAD' = [id |-> nextId, by |-> by, changes |-> changes]
         /\ nextId' = nextId + 1
<1> DEFINE e == [id |-> nextId, by |-> by, changes |-> changes]
<1>1. e \in Commits
  BY DEF Commits, TypeHistory
<1>2. log' = Append(log, e) /\ nextId' = nextId + 1
  BY DEF NewCommit
<1> HIDE DEF e
<1>3. log \in Seq(Commits) /\ Len(log) \in Nat \ {0}
  BY DEF TypeHistory
<1>4. /\ Len(log') = Len(log) + 1
      /\ \A i \in 1..Len(log) : log'[i] = log[i]
      /\ log'[Len(log) + 1] = e
  BY <1>1, <1>2, <1>3
<1>5. DOMAIN log = 1..Len(log) /\ DOMAIN log' = 1..(Len(log) + 1)
  BY <1>1, <1>2, <1>3
<1>6. HEAD' = e
  BY <1>4 DEF HEAD
<1> QED BY <1>2, <1>3, <1>4, <1>5, <1>6 DEF e

\* The last commit replaced.
LEMMA AmendReplaces ==
  ASSUME TypeInv, NEW v \in Vaults, Amend(v)
  PROVE  /\ Len(log) \in Nat \ {0}
         /\ DOMAIN log = 1..Len(log) /\ DOMAIN log' = 1..Len(log)
         /\ Len(log') = Len(log)
         /\ \A i \in 1..Len(log) : i # Len(log) => log'[i] = log[i]
         /\ log'[Len(log)] = HEAD'
         /\ HEAD' = [id |-> nextId, by |-> HEAD.by, changes |-> Over(HEAD.changes, staged)]
         /\ nextId' = nextId + 1
<1> DEFINE e == [id |-> nextId, by |-> HEAD.by, changes |-> Over(HEAD.changes, staged)]
<1>1. e \in Commits
  <2>1. HEAD \in Commits /\ HEAD.changes \in SUBSET Changes
    BY HistoryTypes DEF TypeInv
  <2> QED BY <2>1, OverTypes DEF Commits, TypeInv, TypeHistory, TypeTree
<1>2. log' = [log EXCEPT ![Len(log)] = e] /\ nextId' = nextId + 1
  BY DEF Amend
<1> HIDE DEF e
<1>3. log \in Seq(Commits) /\ Len(log) \in Nat \ {0}
  BY DEF TypeInv, TypeHistory
<1>4. /\ Len(log') = Len(log)
      /\ DOMAIN log = 1..Len(log) /\ DOMAIN log' = 1..Len(log)
      /\ \A i \in 1..Len(log) : i # Len(log) => log'[i] = log[i]
      /\ log'[Len(log)] = e
  BY <1>1, <1>2, <1>3
<1>5. HEAD' = e
  BY <1>4 DEF HEAD
<1> QED BY <1>2, <1>3, <1>4, <1>5 DEF e

-------------------------------------------------------------------------------
(* What is published.                                                        *)

\* The repository belongs to one vault.
SoleVault == \A v, w \in Vaults : v = w

\* While the amend of the ingest's own commit is still to come, that commit has
\* not been pushed.
PushedInv ==
  \A v \in Vaults : pc[v] \in {"head", "setsha", "readd", "amend"} => pushed < Len(log)

Published == \A i \in 1..pushed : log'[i] = log[i]

LEMMA QuietPublished ==
  ASSUME SoleVault, TypeInv, PushedInv, UNCHANGED <<log, pushed>>,
         \A v \in Vaults : pc'[v] \in {"head", "setsha", "readd", "amend"} =>
                             pc[v] \in {"head", "setsha", "readd", "amend"}
  PROVE  PushedInv' /\ Published
BY DEF PushedInv, Published

LEMMA GrownPublished ==
  ASSUME SoleVault, TypeInv, PushedInv, UNCHANGED pushed,
         NEW by \in Jobs \union Schemas \union {"user", "remote"},
         NEW changes \in SUBSET Changes, NewCommit(by, changes)
  PROVE  PushedInv' /\ Published
<1>1. pushed \in 0..Len(log) /\ Len(log') = Len(log) + 1 /\ Len(log) \in Nat
      /\ \A i \in 1..Len(log) : log'[i] = log[i]
  BY CommitAppends DEF TypeInv, TypeHistory
<1> QED BY <1>1 DEF PushedInv, Published

LEMMA PublishedKept ==
  ASSUME SoleVault, TypeInv, PushedInv, Next
  PROVE  PushedInv' /\ Published
<1> USE DEF At, Goto, tree, history, remote, records, stored, locals, bounds, users
<1>1. ASSUME NEW v \in Vaults, Commit(v) PROVE PushedInv' /\ Published
  <2>1. CASE staged = {}
    BY <1>1, <2>1, QuietPublished DEF Commit, SoleVault, TypeInv, TypeProcess
  <2>2. CASE staged # {}
    <3>1. NewCommit(cur[v], staged) /\ UNCHANGED pushed /\ cur[v] \in Jobs
      BY <1>1, <2>2 DEF Commit, TypeInv, LocalsInv
    <3> QED BY <3>1, GrownPublished DEF TypeInv, TypeTree
  <2> QED BY <2>1, <2>2
<1>2. ASSUME NEW v \in Vaults, Pull(v) PROVE PushedInv' /\ Published
  <2>1. \A w \in Vaults : pc'[w] = "vocabulary"
    BY <1>2 DEF Pull, SoleVault, TypeInv, TypeProcess
  <2>2. PushedInv'
    BY <2>1 DEF PushedInv
  <2>3. Published
    <3>1. CASE foreign = 0
      BY <1>2, <3>1 DEF Pull, Published
    <3>2. CASE foreign # 0
      <4>1. NewCommit("remote", {TheirChange(nextId)})
        BY <1>2, <3>2 DEF Pull
      <4>2. {TheirChange(nextId)} \in SUBSET Changes /\ pushed \in 0..Len(log)
        BY ChangeTypes DEF TypeInv, TypeHistory
      <4>3. \A i \in 1..Len(log) : log'[i] = log[i]
        BY <4>1, <4>2, CommitAppends DEF TypeInv
      <4> QED BY <4>2, <4>3, CommitAppends DEF Published, TypeInv, TypeHistory
    <3> QED BY <3>1, <3>2
  <2> QED BY <2>2, <2>3
<1>3. ASSUME NEW v \in Vaults, Push(v) PROVE PushedInv' /\ Published
  BY <1>3 DEF Push, SoleVault, TypeInv, TypeProcess, PushedInv, Published
<1>4. ASSUME NEW v \in Vaults, Amend(v) PROVE PushedInv' /\ Published
  <2>1. \A w \in Vaults : pc'[w] = "amended"
    BY <1>4 DEF Amend, SoleVault, TypeInv, TypeProcess
  <2>2. pushed < Len(log) /\ pushed \in Nat
    BY <1>4 DEF Amend, PushedInv, TypeInv, TypeHistory
  <2>3. \A i \in 1..Len(log) : i # Len(log) => log'[i] = log[i]
    BY <1>4, AmendReplaces
  <2>4. Published
    BY <2>2, <2>3, AmendReplaces, <1>4 DEF Published
  <2> QED BY <2>1, <2>4 DEF PushedInv
<1>5. ASSUME NEW v \in Vaults,
             \/ CheckClean(v) \/ DedupHit(v) \/ DedupMiss(v) \/ PullRefused(v) \/ ReadKey(v)
             \/ LookUp(v) \/ Scan(v) \/ EmptyCache(v) \/ FillCache(v) \/ Analyse(v)
             \/ Archive(v) \/ WriteNote(v) \/ Add(v)
      PROVE  PushedInv' /\ Published
  BY <1>5, QuietPublished
     DEF SoleVault, TypeInv, TypeProcess, CheckClean, DedupHit, DedupMiss, PullRefused, ReadKey,
         LookUp, Scan, EmptyCache, FillCache, Analyse, Archive, WriteNote, Add, Settle
<1>6. ASSUME NEW v \in Vaults,
             \/ ReadHead(v) \/ SetCommitSha(v) \/ ReAdd(v) \/ ReadAmended(v)
             \/ Put(v) \/ Succeed(v) \/ RollBack(v) \/ Undo(v) \/ Fail(v) \/ Fault(v)
      PROVE  PushedInv' /\ Published
  BY <1>6, QuietPublished
     DEF SoleVault, TypeInv, TypeProcess, ReadHead, SetCommitSha, ReAdd, ReadAmended, Put, Succeed,
         RollBack, Undo, Fail, Settle, Fault, StageFails, StageInterrupted, StageEscapes,
         RollBackFails
<1>7. ASSUME NEW v \in Vaults, NEW j \in Jobs, Start(v, j) PROVE PushedInv' /\ Published
  BY <1>7, QuietPublished DEF SoleVault, TypeInv, TypeProcess, Start
<1>8. ASSUME NEW u \in Schemas, UpdateSchema(u) PROVE PushedInv' /\ Published
  <2>1. CASE UNCHANGED log
    BY <1>8, <2>1, QuietPublished DEF UpdateSchema, WriteSchema, CommitSchema, CommitSchemaFails
  <2>2. CASE ~UNCHANGED log
    <3>1. PICK here \in SUBSET dirty : NewCommit(u, here)
      BY <1>8, <2>2 DEF UpdateSchema, WriteSchema, CommitSchema, CommitSchemaFails
    <3>2. UNCHANGED pushed
      BY <1>8 DEF UpdateSchema, WriteSchema, CommitSchema, CommitSchemaFails
    <3> QED BY <3>1, <3>2, GrownPublished DEF TypeInv, TypeTree
  <2> QED BY <2>1, <2>2
<1>9. CASE UserCommit \/ \E i \in DOMAIN log : UserRevert(i)
  <2>1. PICK mine \in SUBSET Changes : NewCommit("user", mine)
    BY <1>9 DEF UserCommit, UserRevert, TypeInv, TypeTree
  <2>2. UNCHANGED pushed
    BY <1>9 DEF UserCommit, UserRevert
  <2> QED BY <2>1, <2>2, GrownPublished
<1>10. CASE (\E e \in Edits : UserEdit(e)) \/ OthersPush \/ Recovery
  BY <1>10, QuietPublished DEF UserEdit, OthersPush, Recovery, Restart, RecoverInterrupted, Serve
<1>11. CASE Crash
  BY <1>11, QuietPublished DEF Crash
<1> QED BY <1>1, <1>2, <1>3, <1>4, <1>5, <1>6, <1>7, <1>8, <1>9, <1>10, <1>11
     DEF Next, Stage, User

\* A step of the specification that neither the log nor the remote sees.
LEMMA PushedAlways == ASSUME SoleVault PROVE Spec => []PushedInv
<1>1. Init => PushedInv
  BY DEF Init, PushedInv
<1>2. TypeInv /\ PushedInv /\ [Next]_vars => PushedInv'
  <2>1. ASSUME PushedInv, UNCHANGED vars PROVE PushedInv'
    BY <2>1 DEF PushedInv, vars, history, remote
  <2> QED BY <2>1, PublishedKept
<1> QED BY <1>1, <1>2, TypesHold, PTL DEF Spec

\* No commit that the remote has is ever rewritten, for every number of jobs,
\* notes, crashes and failing steps, in a repository that belongs to one vault:
\* the archive's amend comes before the push (pipeline.py:188-208).
THEOREM PublishedHistoryStands == ASSUME SoleVault PROVE Spec => PublishedHistoryIsStable
<1>1. TypeInv /\ PushedInv /\ [Next]_vars => [Published]_<<log, pushed>>
  <2>1. ASSUME UNCHANGED vars PROVE UNCHANGED <<log, pushed>>
    BY <2>1 DEF vars, history, remote
  <2> QED BY <2>1, PublishedKept
<1>2. Spec => [][Published]_<<log, pushed>>
  BY <1>1, TypesHold, PushedAlways, PTL DEF Spec
<1> QED BY <1>2 DEF PublishedHistoryIsStable, Published


-------------------------------------------------------------------------------
(* Files.                                                                    *)

\* No file is of two kinds, and a file's name says whose it is.
LEMMA FileKinds ==
  /\ \A j, n, v : NoteFile(j, n) # SchemaFile(v)
  /\ \A x, v : TextFile(x) # SchemaFile(v) /\ ManifestFile(x) # SchemaFile(v)
  /\ \A e, v : EditFile(e) # SchemaFile(v) /\ TheirFile # SchemaFile(v)
  /\ \A j, n, x : NoteFile(j, n) # TextFile(x) /\ NoteFile(j, n) # ManifestFile(x)
  /\ \A j, n, e : NoteFile(j, n) # EditFile(e) /\ NoteFile(j, n) # TheirFile
  /\ \A e, x : EditFile(e) # TextFile(x) /\ EditFile(e) # ManifestFile(x)
  /\ \A e, x : EditFile(e) # TheirFile /\ TextFile(x) # TheirFile /\ ManifestFile(x) # TheirFile
  /\ \A j, k, n, m : NoteFile(j, n) = NoteFile(k, m) => j = k /\ n = m
  /\ \A v, w : SchemaFile(v) = SchemaFile(w) => v = w
  /\ \A d, e : EditFile(d) = EditFile(e) => d = e
BY DEF NoteFile, SchemaFile, TextFile, ManifestFile, EditFile, TheirFile

LEMMA ChangeFiles ==
  /\ \A j, n : NoteChange(j, n).file = NoteFile(j, n)
  /\ \A x : TextChange(x).file = TextFile(x)
  /\ \A x, id : ManifestChange(x, id).file = ManifestFile(x)
  /\ \A u : SchemaChange(u).file = SchemaFile(SchemaVault[u])
  /\ \A e : EditChange(e).file = EditFile(e)
  /\ \A id : TheirChange(id).file = TheirFile
BY DEF NoteChange, TextChange, ManifestChange, SchemaChange, EditChange, TheirChange, Change

\* What a stage adds to the tree when it raises is of the archive of its text.
LEMMA PartialFiles ==
  ASSUME TypeInv, NEW v \in Vaults, pc[v] # "idle"
  PROVE  /\ \A c \in ArchiveWrites(v) \union Partial(v) :
              c.file \in {TextFile(TextOf[cur[v]]), ManifestFile(TextOf[cur[v]])}
         /\ Partial(v) \in SUBSET Changes /\ ArchiveWrites(v) \in SUBSET Changes
<1>1. cur[v] \in Jobs /\ TextOf[cur[v]] \in Texts /\ sha[v] \in Nat
  BY PipelineAssumption DEF TypeInv, LocalsInv, TypeProcess
<1>2. \A c \in ArchiveWrites(v) :
        c.file \in {TextFile(TextOf[cur[v]]), ManifestFile(TextOf[cur[v]])} /\ c \in Changes
  BY <1>1, ChangeFiles, ChangeTypes DEF ArchiveWrites
<1>3. ManifestChange(TextOf[cur[v]], sha[v]).file = ManifestFile(TextOf[cur[v]])
  BY ChangeFiles
<1>4. ManifestChange(TextOf[cur[v]], sha[v]) \in Changes
  BY <1>1, ChangeTypes
<1> QED BY <1>2, <1>3, <1>4 DEF Partial

-------------------------------------------------------------------------------
(* Accepted schemas.                                                         *)

Sent(u) == handler[u] # "idle"

SchemaIn(changes) == {c \in changes : \E v \in Vaults : c.file = SchemaFile(v)}

SentIn(changes) ==
  \A c \in SchemaIn(changes) : \E u \in Schemas : Sent(u) /\ c = SchemaChange(u)

KeptFor(u) ==
  \E w \in Schemas :
    /\ SchemaVault[w] = SchemaVault[u]
    /\ w = u \/ Sent(w)
    /\ \E i \in DOMAIN log : SchemaChange(w) \in log[i].changes

\* Every version of a schema.md in the tree was sent by some update, and an
\* accepted update, or one that replaced it, is in the history.
SchemaInv ==
  /\ SentIn(dirty) /\ SentIn(staged)
  /\ \A u \in Schemas : handler[u] = "committed" => KeptFor(u)

\* A step that brings no schema.md to the tree, and leaves the history alone.
LEMMA SchemaFrame ==
  ASSUME SchemaInv, UNCHANGED log,
         \A u \in Schemas : /\ Sent(u) => handler'[u] # "idle"
                            /\ handler'[u] = "committed" => handler[u] = "committed",
         \A c \in dirty' \ (dirty \union staged) : \A v \in Vaults : c.file # SchemaFile(v),
         \A c \in staged' \ (dirty \union staged) : \A v \in Vaults : c.file # SchemaFile(v)
  PROVE  SchemaInv'
BY DEF SchemaInv, SentIn, SchemaIn, KeptFor, Sent

\* A commit keeps what the history holds.
LEMMA SchemaGrows ==
  ASSUME SchemaInv, TypeHistory, NEW by \in Jobs \union Schemas \union {"user", "remote"},
         NEW changes \in SUBSET Changes, NewCommit(by, changes),
         \A u \in Schemas : /\ Sent(u) => handler'[u] # "idle"
                            /\ handler'[u] = "committed" =>
                                 handler[u] = "committed" \/ SchemaChange(u) \in changes
                                 \/ \E w \in Schemas : /\ SchemaVault[w] = SchemaVault[u]
                                                       /\ Sent(w) /\ SchemaChange(w) \in changes,
         dirty' \subseteq dirty, staged' \subseteq staged
  PROVE  SchemaInv'
<1>0. /\ DOMAIN log = 1..Len(log) /\ DOMAIN log' = 1..(Len(log) + 1) /\ Len(log) \in Nat
      /\ \A i \in 1..Len(log) : log'[i] = log[i]
      /\ log'[Len(log) + 1] = [id |-> nextId, by |-> by, changes |-> changes]
  BY CommitAppends
<1>1. /\ \A i \in DOMAIN log : i \in DOMAIN log' /\ log'[i].changes = log[i].changes
      /\ Len(log) + 1 \in DOMAIN log' /\ log'[Len(log) + 1].changes = changes
  BY <1>0
<1>2. SentIn(dirty)' /\ SentIn(staged)'
  BY DEF SchemaInv, SentIn, SchemaIn, Sent
<1>3. ASSUME NEW u \in Schemas, handler'[u] = "committed" PROVE KeptFor(u)'
  <2>1. CASE handler[u] = "committed"
    BY <2>1, <1>1 DEF SchemaInv, KeptFor, Sent
  <2>2. CASE handler[u] # "committed"
    BY <2>2, <1>1, <1>3 DEF KeptFor, Sent
  <2> QED BY <2>1, <2>2
<1> QED BY <1>2, <1>3 DEF SchemaInv

\* The amend replaces a schema.md only by a newer one.
LEMMA SchemaAmended ==
  ASSUME SchemaInv, TypeInv, NEW v \in Vaults, Amend(v)
  PROVE  SchemaInv'
<1>1. /\ Len(log) \in DOMAIN log /\ DOMAIN log' = DOMAIN log
      /\ \A i \in DOMAIN log : i # Len(log) => log'[i] = log[i]
      /\ log'[Len(log)].changes = Over(log[Len(log)].changes, staged)
  BY AmendReplaces DEF HEAD
<1>2. dirty' \subseteq dirty /\ staged' = {} /\ UNCHANGED handler
  BY DEF Amend
<1>3. SentIn(dirty)' /\ SentIn(staged)'
  BY <1>2 DEF SchemaInv, SentIn, SchemaIn, Sent
<1>4. ASSUME NEW u \in Schemas, handler'[u] = "committed" PROVE KeptFor(u)'
  <2>1. PICK w \in Schemas, i \in DOMAIN log :
          /\ SchemaVault[w] = SchemaVault[u] /\ (w = u \/ Sent(w))
          /\ SchemaChange(w) \in log[i].changes
    BY <1>2, <1>4 DEF SchemaInv, KeptFor
  <2>2. CASE SchemaChange(w) \in log'[i].changes
    BY <2>1, <2>2, <1>1, <1>2 DEF KeptFor, Sent
  <2>3. CASE SchemaChange(w) \notin log'[i].changes
    <3>1. i = Len(log)
      BY <2>1, <2>3, <1>1
    <3>2. PICK d \in staged : d.file = SchemaFile(SchemaVault[w])
      BY <2>1, <2>3, <3>1, <1>1, ChangeFiles DEF Over
    <3>3. SchemaVault[w] \in Vaults
      BY PipelineAssumption
    <3>4. PICK x \in Schemas : Sent(x) /\ d = SchemaChange(x)
      BY <3>2, <3>3 DEF SchemaInv, SentIn, SchemaIn
    <3>5. SchemaVault[x] = SchemaVault[u]
      BY <3>2, <3>4, <2>1, ChangeFiles, FileKinds
    <3>6. SchemaChange(x) \in log'[Len(log)].changes
      BY <3>2, <3>4, <1>1 DEF Over
    <3> QED BY <3>4, <3>5, <3>6, <1>1, <1>2 DEF KeptFor, Sent
  <2> QED BY <2>2, <2>3
<1> QED BY <1>3, <1>4 DEF SchemaInv


LEMMA SchemaKept ==
  ASSUME TypeInv, SchemaInv, [Next]_vars
  PROVE  SchemaInv'
<1> USE DEF At, Goto, tree, history, remote, records, stored, locals, bounds, users
<1>1. ASSUME NEW v \in Vaults, NEW j \in Jobs, Start(v, j) PROVE SchemaInv'
  BY <1>1, SchemaFrame DEF Start, Sent
<1>2. ASSUME NEW v \in Vaults,
             \/ CheckClean(v) \/ DedupHit(v) \/ DedupMiss(v) \/ PullRefused(v) \/ ReadKey(v)
             \/ LookUp(v) \/ Scan(v) \/ EmptyCache(v) \/ FillCache(v) \/ Analyse(v)
             \/ ReadHead(v) \/ ReadAmended(v) \/ Put(v) \/ Push(v) \/ Succeed(v) \/ Fail(v)
             \/ StageFails(v) \/ StageInterrupted(v)
      PROVE  SchemaInv'
  <2>1. UNCHANGED <<dirty, staged, log, handler>>
    BY <1>2 DEF CheckClean, DedupHit, DedupMiss, PullRefused, ReadKey,
         LookUp, Scan, EmptyCache, FillCache, Analyse, ReadHead, ReadAmended, Put, Push, Succeed, Fail,
         StageFails, StageInterrupted
  <2> QED BY <2>1, SchemaFrame DEF Sent
<1>3. ASSUME NEW v \in Vaults, Archive(v) \/ StageEscapes(v) PROVE SchemaInv'
  <2>1. pc[v] # "idle" /\ UNCHANGED <<staged, log, handler>>
    BY <1>3 DEF Archive, StageEscapes
  <2>2. \A c \in dirty' \ dirty : c \in ArchiveWrites(v) \union Partial(v)
    BY <1>3 DEF Archive, StageEscapes, Over
  <2>3. \A c \in dirty' \ dirty : \A w \in Vaults : c.file # SchemaFile(w)
    BY <2>1, <2>2, PartialFiles, FileKinds
  <2> QED BY <2>1, <2>3, SchemaFrame DEF Sent
<1>4. ASSUME NEW v \in Vaults, WriteNote(v) \/ SetCommitSha(v) PROVE SchemaInv'
  <2>1. UNCHANGED <<staged, log, handler>>
    BY <1>4 DEF WriteNote, SetCommitSha
  <2>2. \A c \in dirty' \ dirty : c \in {NoteChange(cur[v], written[v] + 1),
                                       ManifestChange(TextOf[cur[v]], sha[v])}
    BY <1>4 DEF WriteNote, SetCommitSha, Over
  <2>3. \A c \in dirty' \ dirty : \A w \in Vaults : c.file # SchemaFile(w)
    BY <2>2, ChangeFiles, FileKinds
  <2> QED BY <2>1, <2>3, SchemaFrame DEF Sent
<1>5. ASSUME NEW v \in Vaults, Add(v) \/ ReAdd(v) \/ RollBack(v) \/ Undo(v) \/ RollBackFails(v)
      PROVE  SchemaInv'
  <2>1. UNCHANGED <<log, handler>> /\ dirty' \subseteq dirty /\ staged' \subseteq dirty \union staged
    BY <1>5 DEF Add, ReAdd, StageAll, RollBack, Undo, RollBackFails, Rollback, RollbackStops
  <2> QED BY <2>1, SchemaFrame DEF Sent
<1>6. ASSUME NEW v \in Vaults, Pull(v) PROVE SchemaInv'
  <2>1. CASE foreign = 0
    BY <1>6, <2>1, SchemaFrame DEF Pull, Sent
  <2>2. CASE foreign # 0
    <3>1. NewCommit("remote", {TheirChange(nextId)}) /\ UNCHANGED <<dirty, staged, handler>>
      BY <1>6, <2>2 DEF Pull
    <3>2. {TheirChange(nextId)} \in SUBSET Changes
      BY ChangeTypes DEF TypeInv, TypeHistory
    <3> QED BY <3>1, <3>2, SchemaGrows DEF Sent, TypeInv
  <2> QED BY <2>1, <2>2
<1>7. ASSUME NEW v \in Vaults, Commit(v) PROVE SchemaInv'
  <2>1. CASE staged = {}
    BY <1>7, <2>1, SchemaFrame DEF Commit, Sent
  <2>2. CASE staged # {}
    <3>1. /\ NewCommit(cur[v], staged) /\ UNCHANGED handler /\ cur[v] \in Jobs
          /\ dirty' \subseteq dirty /\ staged' \subseteq staged
      BY <1>7, <2>2 DEF Commit, TypeInv, LocalsInv
    <3> QED BY <3>1, SchemaGrows DEF Sent, TypeInv, TypeTree
  <2> QED BY <2>1, <2>2
<1>8. ASSUME NEW u \in Schemas, WriteSchema(u) PROVE SchemaInv'
  <2>1. /\ dirty' \subseteq dirty \union {SchemaChange(u)} /\ UNCHANGED <<staged, log>>
        /\ handler' = [handler EXCEPT ![u] = "written"] /\ handler[u] = "idle"
    BY <1>8 DEF WriteSchema, Over
  <2>2. \A w \in Schemas : handler'[w] = IF w = u THEN "written" ELSE handler[w]
    BY <2>1 DEF TypeInv, TypeProcess
  <2>3. SentIn(dirty)' /\ SentIn(staged)'
    BY <2>1, <2>2 DEF SchemaInv, SentIn, SchemaIn, Sent
  <2>4. ASSUME NEW w \in Schemas, handler'[w] = "committed" PROVE KeptFor(w)'
    BY <2>1, <2>2, <2>4 DEF SchemaInv, KeptFor, Sent
  <2> QED BY <2>3, <2>4 DEF SchemaInv
<1>9. ASSUME NEW u \in Schemas, CommitSchema(u) PROVE SchemaInv'
  <2> DEFINE here == {c \in dirty : c.file = SchemaFile(SchemaVault[u])}
  <2>1. CASE here = {}
    <3>1. UNCHANGED <<dirty, staged, log>> /\ handler' = [handler EXCEPT ![u] = "error"]
      BY <1>9, <2>1 DEF CommitSchema
    <3> QED BY <3>1, SchemaFrame DEF Sent, TypeInv, TypeProcess
  <2>2. CASE here # {}
    <3>1. /\ NewCommit(u, here) /\ dirty' \subseteq dirty /\ staged' \subseteq staged
          /\ handler' = [handler EXCEPT ![u] = "committed"] /\ here \in SUBSET Changes
      BY <1>9, <2>2 DEF CommitSchema, TypeInv, TypeTree
    <3>2. PICK c \in dirty : c \in here /\ c.file = SchemaFile(SchemaVault[u])
      BY <2>2
    <3>3. SchemaVault[u] \in Vaults
      BY PipelineAssumption
    <3>4. PICK w \in Schemas : Sent(w) /\ c = SchemaChange(w)
      BY <3>2, <3>3 DEF SchemaInv, SentIn, SchemaIn
    <3>5. SchemaVault[w] = SchemaVault[u] /\ SchemaChange(w) \in here
      BY <3>2, <3>4, ChangeFiles, FileKinds
    <3> HIDE DEF here
    <3>6. \A x \in Schemas : handler'[x] = IF x = u THEN "committed" ELSE handler[x]
      BY <3>1 DEF TypeInv, TypeProcess
    <3>7. \A x \in Schemas : /\ Sent(x) => handler'[x] # "idle"
                             /\ handler'[x] = "committed" =>
                                 handler[x] = "committed" \/ SchemaChange(x) \in here
                                 \/ \E y \in Schemas : /\ SchemaVault[y] = SchemaVault[x]
                                                       /\ Sent(y) /\ SchemaChange(y) \in here
      BY <3>4, <3>5, <3>6 DEF Sent
    <3> QED BY <3>1, <3>7, SchemaGrows DEF TypeInv
  <2> QED BY <2>1, <2>2
<1>10. ASSUME NEW u \in Schemas, CommitSchemaFails(u) PROVE SchemaInv'
  BY <1>10, SchemaFrame DEF CommitSchemaFails, Sent, TypeInv, TypeProcess
<1>11. CASE \E e \in Edits : UserEdit(e)
  <2>1. PICK e \in Edits : dirty' = dirty \union {EditChange(e)} /\ UNCHANGED <<staged, log, handler>>
    BY <1>11 DEF UserEdit
  <2>2. \A w \in Vaults : EditChange(e).file # SchemaFile(w)
    BY ChangeFiles, FileKinds
  <2> QED BY <2>1, <2>2, SchemaFrame DEF Sent
<1>12. CASE UserCommit \/ \E i \in DOMAIN log : UserRevert(i)
  <2>1. PICK mine \in SUBSET Changes : NewCommit("user", mine)
    BY <1>12 DEF UserCommit, UserRevert, TypeInv, TypeTree
  <2>2. dirty' \subseteq dirty /\ staged' \subseteq staged /\ UNCHANGED handler
    BY <1>12 DEF UserCommit, UserRevert
  <2> QED BY <2>1, <2>2, SchemaGrows DEF Sent, TypeInv
<1>13. CASE OthersPush \/ Restart \/ Serve \/ \E j \in Jobs : RecoverInterrupted(j)
  <2>1. UNCHANGED <<log, handler>> /\ dirty' \subseteq dirty /\ staged' \subseteq staged
    BY <1>13 DEF OthersPush, Restart, Serve, RecoverInterrupted, Rollback, RollbackStops
  <2> QED BY <2>1, SchemaFrame DEF Sent
<1>14. CASE Crash
  BY <1>14, SchemaFrame DEF Crash, Sent
<1>15. CASE UNCHANGED vars
  BY <1>15, SchemaFrame DEF vars, Sent
<1>16. ASSUME NEW v \in Vaults, Amend(v) PROVE SchemaInv'
  BY <1>16, SchemaAmended
<1>17. ASSUME NEW v \in Vaults, Stage(v) \/ Fault(v) PROVE SchemaInv'
  BY <1>17, <1>2, <1>3, <1>4, <1>5, <1>6, <1>7, <1>16 DEF Stage, Fault
<1>18. ASSUME NEW u \in Schemas, UpdateSchema(u) PROVE SchemaInv'
  BY <1>18, <1>8, <1>9, <1>10 DEF UpdateSchema
<1> QED BY <1>1, <1>11, <1>12, <1>13, <1>14, <1>15, <1>17, <1>18 DEF Next, User, Recovery

\* An accepted schema update is in the history, or one that replaced its file is,
\* for every number of vaults on the repository, updates, ingests, rollbacks and
\* crashes (services.py:159-162).
THEOREM AcceptedSchemasStand == Spec => []AcceptedSchemaIsCommitted
<1>1. Init => SchemaInv
  BY DEF Init, SchemaInv, SentIn, SchemaIn
<1>2. SchemaInv => AcceptedSchemaIsCommitted
  BY DEF SchemaInv, KeptFor, Sent, AcceptedSchemaIsCommitted
<1> QED BY <1>1, <1>2, SchemaKept, TypesHold, PTL DEF Spec


-------------------------------------------------------------------------------
(* The user's edits.                                                         *)

\* Where a worker may be while the tree holds edits: nothing that rolls back.
Harmless == {"idle", "clean", "fail", "raised"}

NoEdits == UserEdits(dirty) = {} /\ UserEdits(staged) = {}

\* Past the clean-tree check the tree holds no edit of the user's.
EditsInv ==
  /\ phase # "up" => crashes > 0
  /\ crashes = 0 => lost = {}
  /\ (\E v \in Vaults : pc[v] \notin Harmless) => NoEdits

\* What a step may not do to an edit.
LEMMA EditsFrame ==
  ASSUME EditsInv, UNCHANGED <<phase, crashes>>,
         \/ lost' = lost
         \/ lost' = lost \union UserEdits(dirty \union staged) /\ NoEdits,
         \A c \in (dirty' \union staged') \ (dirty \union staged) : \A e \in Edits : c # EditChange(e),
         (\E v \in Vaults : pc'[v] \notin Harmless) => NoEdits
  PROVE  EditsInv'
<1>1. NoEdits => NoEdits'
  BY DEF NoEdits, UserEdits
<1>2. NoEdits => UserEdits(dirty \union staged) = {}
  BY DEF NoEdits, UserEdits
<1> QED BY <1>1, <1>2 DEF EditsInv

LEMMA EditsKept ==
  ASSUME ~StatusMayFail, ~EditWhileBusy, TypeInv, EditsInv, [Next]_vars
  PROVE  EditsInv'
<1> USE DEF At, Goto, tree, history, remote, records, stored, locals, bounds, users
<1>1. ASSUME NEW v \in Vaults, NEW j \in Jobs, Start(v, j) PROVE EditsInv'
  BY <1>1, EditsFrame DEF Start, TypeInv, TypeProcess, Harmless, EditsInv
<1>2. ASSUME NEW v \in Vaults, CheckClean(v) PROVE EditsInv'
  <2>1. pc'[v] \notin Harmless => NoEdits
    BY <1>2 DEF CheckClean, TypeInv, TypeProcess, Harmless, Clean, NoEdits, UserEdits
  <2> QED BY <1>2, <2>1, EditsFrame DEF CheckClean, TypeInv, TypeProcess, EditsInv
<1>3. ASSUME NEW v \in Vaults, pc[v] \notin Harmless, UNCHANGED <<phase, crashes, lost>>,
             \E label \in PCs : Goto(v, label),
             \A c \in (dirty' \union staged') \ (dirty \union staged) :
               \A e \in Edits : c # EditChange(e)
      PROVE  EditsInv'
  BY <1>3, EditsFrame DEF TypeInv, TypeProcess, EditsInv
<1>4. ASSUME NEW v \in Vaults,
             \/ DedupHit(v) \/ DedupMiss(v) \/ PullRefused(v) \/ ReadKey(v) \/ Pull(v)
             \/ LookUp(v) \/ Scan(v) \/ EmptyCache(v) \/ FillCache(v) \/ Analyse(v)
      PROVE  EditsInv'
  BY <1>4, <1>3
     DEF Harmless, PCs, DedupHit, DedupMiss, PullRefused, ReadKey, Pull, LookUp, Scan, EmptyCache,
         FillCache, Analyse, Settle
<1>5. ASSUME NEW v \in Vaults,
             \/ Add(v) \/ Commit(v) \/ ReadHead(v) \/ ReAdd(v) \/ Amend(v) \/ ReadAmended(v)
             \/ Put(v) \/ Push(v) \/ Succeed(v) \/ StageInterrupted(v) \/ StageFails(v)
      PROVE  EditsInv'
  BY <1>5, <1>3
     DEF Harmless, PCs, Add, Commit, ReadHead, ReAdd, Amend, ReadAmended, Put, Push, Succeed, Settle,
         StageInterrupted, StageFails, Handling, StageAll
<1>6. ASSUME NEW v \in Vaults, Archive(v) \/ StageEscapes(v) PROVE EditsInv'
  <2>1. /\ pc[v] \notin Harmless /\ UNCHANGED <<staged, phase, crashes, lost>>
        /\ \E label \in PCs : Goto(v, label)
    BY <1>6 DEF Archive, StageEscapes, Harmless, PCs
  <2>2. \A c \in dirty' \ dirty : c \in ArchiveWrites(v) \union Partial(v)
    BY <1>6 DEF Archive, StageEscapes, Over
  <2>3. \A c \in dirty' \ dirty : \A e \in Edits : c # EditChange(e)
    BY <2>1, <2>2, PartialFiles, FileKinds, ChangeFiles DEF Harmless
  <2> QED BY <2>1, <2>3, <1>3
<1>7. ASSUME NEW v \in Vaults, WriteNote(v) \/ SetCommitSha(v) PROVE EditsInv'
  <2>1. /\ pc[v] \notin Harmless /\ UNCHANGED <<staged, phase, crashes, lost>>
        /\ \E label \in PCs : Goto(v, label)
    BY <1>7 DEF WriteNote, SetCommitSha, Harmless, PCs
  <2>2. \A c \in dirty' \ dirty : c \in {NoteChange(cur[v], written[v] + 1),
                                       ManifestChange(TextOf[cur[v]], sha[v])}
    BY <1>7 DEF WriteNote, SetCommitSha, Over
  <2>3. \A c \in dirty' \ dirty : \A e \in Edits : c # EditChange(e)
    BY <2>2, ChangeFiles, FileKinds
  <2> QED BY <2>1, <2>3, <1>3
<1>8. ASSUME NEW v \in Vaults, RollBack(v) \/ Undo(v) \/ RollBackFails(v) PROVE EditsInv'
  <2>1. /\ pc[v] \notin Harmless /\ UNCHANGED <<phase, crashes>>
        /\ \E label \in PCs : Goto(v, label)
        /\ dirty' \subseteq dirty /\ staged' \subseteq staged
    BY <1>8 DEF RollBack, Undo, RollBackFails, Rollback, RollbackStops, Harmless, PCs
  <2>2. NoEdits
    BY <2>1 DEF EditsInv
  <2>3. lost' = lost
    <3>1. /\ UserEdits(dirty \union staged) = {}
          /\ \A left : UserEdits((dirty \union staged) \ left) = {}
      BY <2>2 DEF NoEdits, UserEdits
    <3> QED BY <1>8, <3>1 DEF RollBack, Undo, RollBackFails, Rollback, RollbackStops
  <2> QED BY <2>1, <2>3, <1>3
<1>9. ASSUME NEW v \in Vaults, Fail(v) PROVE EditsInv'
  BY <1>9, EditsFrame DEF Fail, Settle, TypeInv, TypeProcess, Harmless, EditsInv
<1>10. ASSUME NEW u \in Schemas, UpdateSchema(u) PROVE EditsInv'
  <2>1. UNCHANGED <<phase, crashes, lost, pc>>
    BY <1>10 DEF UpdateSchema, WriteSchema, CommitSchema, CommitSchemaFails
  <2>2. \A c \in (dirty' \union staged') \ (dirty \union staged) : c = SchemaChange(u)
    BY <1>10 DEF UpdateSchema, WriteSchema, CommitSchema, CommitSchemaFails, Over
  <2>3. \A e \in Edits : SchemaChange(u) # EditChange(e)
    BY ChangeFiles, FileKinds
  <2> QED BY <2>1, <2>2, <2>3, EditsFrame DEF EditsInv
<1>11. CASE \E e \in Edits : UserEdit(e)
  <2>1. UNCHANGED <<phase, crashes, lost, pc>> /\ \A v \in Vaults : pc[v] = "idle"
    BY <1>11 DEF UserEdit, Busy, TypeInv, LocalsInv
  <2> QED BY <2>1 DEF EditsInv, Harmless
<1>12. CASE UserCommit \/ OthersPush \/ \E i \in DOMAIN log : UserRevert(i)
  <2>1. /\ UNCHANGED <<phase, crashes, lost, pc>>
        /\ dirty' \subseteq dirty /\ staged' \subseteq staged
    BY <1>12 DEF UserCommit, UserRevert, OthersPush
  <2> QED BY <2>1, EditsFrame DEF EditsInv
<1>13. CASE Crash \/ Recovery
  <2>1. \A v \in Vaults : pc'[v] = "idle"
    BY <1>13 DEF Crash, Recovery, Restart, RecoverInterrupted, Serve, TypeInv, LocalsInv
  <2>2. crashes' > 0
    BY <1>13 DEF Crash, Recovery, Restart, RecoverInterrupted, Serve, EditsInv, TypeInv, TypeBounds
  <2> QED BY <2>1, <2>2 DEF EditsInv, Harmless
<1>14. CASE UNCHANGED vars
  BY <1>14, EditsFrame DEF vars, EditsInv
<1>15. ASSUME NEW v \in Vaults, Stage(v) \/ Fault(v) PROVE EditsInv'
  BY <1>15, <1>2, <1>4, <1>5, <1>6, <1>7, <1>8, <1>9 DEF Stage, Fault
<1> QED BY <1>1, <1>10, <1>11, <1>12, <1>13, <1>14, <1>15 DEF Next, User

\* No rollback of the pipeline destroys an edit of the user's, whatever stage fails
\* and however many vaults share the tree, when the status check itself does not fail
\* and nobody edits during an ingest (pipeline.py:278-283).
THEOREM EditsSurvive ==
  ASSUME ~StatusMayFail, ~EditWhileBusy
  PROVE  Spec => []UnsavedEditsSurvive
<1>1. Init => EditsInv
  BY DEF Init, EditsInv, Harmless
<1>2. TypeInv /\ EditsInv /\ [Next]_vars => EditsInv'
  BY EditsKept
<1>3. EditsInv => UnsavedEditsSurvive
  BY DEF EditsInv, UnsavedEditsSurvive
<1> QED BY <1>1, <1>2, <1>3, TypesHold, PTL DEF Spec


-------------------------------------------------------------------------------
(* The notes of an ingest.                                                   *)

NoteFiles == {NoteFile(j, n) : j \in Jobs, n \in 1..NotesPerJob}

\* The notes among some changes, and the first m of a job.
NotesIn(changes) == {c \in changes : c.file \in NoteFiles}
FirstNotes(j, m) == {NoteChange(j, n) : n \in 1..m}

\* Which notes the tree holds where the worker is; git's index only matters to
\* the commits.
NotesInv(v) ==
  /\ pc[v] \in BeforeWriting \union Recording => NotesIn(dirty) = {}
  /\ pc[v] = "notes" => NotesIn(dirty) = FirstNotes(cur[v], written[v])
  /\ pc[v] \in {"add", "commit"} => NotesIn(dirty) = Notes(cur[v])
  /\ pc[v] = "commit" => NotesIn(staged) = Notes(cur[v])
  /\ pc[v] = "amend" => NotesIn(staged) = {}

LEMMA NotesFacts ==
  /\ \A j \in Jobs : FirstNotes(j, 0) = {} /\ FirstNotes(j, NotesPerJob) = Notes(j)
  /\ \A j \in Jobs : \A c \in Notes(j) : c.file \in NoteFiles
  /\ \A j, k \in Jobs : j # k => Notes(j) \intersect Notes(k) = {}
  /\ \A j \in Jobs : Notes(j) # {}
<1>1. \A j \in Jobs : FirstNotes(j, 0) = {} /\ FirstNotes(j, NotesPerJob) = Notes(j)
  BY PipelineAssumption DEF FirstNotes, Notes
<1>2. \A j \in Jobs : \A c \in Notes(j) : c.file \in NoteFiles
  BY ChangeFiles DEF Notes, NoteFiles
<1>3. \A j, k \in Jobs : j # k => Notes(j) \intersect Notes(k) = {}
  BY ChangeFiles, FileKinds DEF Notes
<1>4. \A j \in Jobs : Notes(j) # {}
  BY PipelineAssumption DEF Notes
<1> QED BY <1>1, <1>2, <1>3, <1>4

\* What a set of changes holds of a job's notes.
LEMMA NotesInFacts ==
  ASSUME NEW S, NEW j \in Jobs
  PROVE  /\ NotesIn(S) = {} => S \intersect Notes(j) = {}
         /\ NotesIn(S) = Notes(j) => Notes(j) \subseteq S
         /\ \A k \in Jobs : k # j /\ NotesIn(S) = Notes(k) => S \intersect Notes(j) = {}
BY NotesFacts DEF NotesIn

\* The steps that touch no note in the tree.
LEMMA NotesUntouched ==
  ASSUME TypeInv,
         \/ \E v \in Vaults : Archive(v) \/ SetCommitSha(v) \/ StageEscapes(v)
         \/ \E u \in Schemas : UpdateSchema(u)
         \/ User
  PROVE  /\ NotesIn(dirty') = NotesIn(dirty) /\ NotesIn(staged') = NotesIn(staged)
         /\ UNCHANGED <<cur, written, state>>
<1> USE DEF At, Goto, tree, history, remote, records, stored, locals, bounds, users
<1> DEFINE Same == NotesIn(dirty') = NotesIn(dirty) /\ NotesIn(staged') = NotesIn(staged)
<1>1. ASSUME NEW v \in Vaults, Archive(v) \/ StageEscapes(v) PROVE Same
  <2>1. pc[v] # "idle" /\ UNCHANGED staged
    BY <1>1 DEF Archive, StageEscapes
  <2>2. PICK part \in SUBSET (ArchiveWrites(v) \union Partial(v)) :
          dirty' = dirty \union part \/ dirty' = Over(dirty, part)
    <3>1. CASE Archive(v)
      <4>1. CASE RawArchive
        BY <3>1, <4>1 DEF Archive
      <4>2. CASE ~RawArchive
        <5>1. dirty' = dirty \union {}
          BY <3>1, <4>2 DEF Archive
        <5> QED BY <5>1
      <4> QED BY <4>1, <4>2
    <3>2. CASE StageEscapes(v)
      BY <3>2 DEF StageEscapes
    <3> QED BY <1>1, <3>1, <3>2
  <2>3. \A c \in part : c.file \notin NoteFiles
    BY <2>1, <2>2, PartialFiles, FileKinds DEF NoteFiles
  <2> QED BY <2>1, <2>2, <2>3 DEF NotesIn, Over
<1>2. ASSUME NEW v \in Vaults, SetCommitSha(v) PROVE Same
  <2>1. ManifestChange(TextOf[cur[v]], sha[v]).file \notin NoteFiles
    BY ChangeFiles, FileKinds DEF NoteFiles
  <2> QED BY <1>2, <2>1 DEF NotesIn, Over, SetCommitSha
<1>3. ASSUME NEW u \in Schemas, WriteSchema(u) PROVE Same
  <2>1. SchemaChange(u).file \notin NoteFiles
    BY ChangeFiles, FileKinds DEF NoteFiles
  <2> QED BY <1>3, <2>1 DEF NotesIn, Over, WriteSchema
<1>4. ASSUME NEW u \in Schemas, CommitSchema(u) \/ CommitSchemaFails(u) PROVE Same
  <2>1. SchemaFile(SchemaVault[u]) \notin NoteFiles
    BY ChangeFiles, FileKinds DEF NoteFiles
  <2> QED BY <1>4, <2>1 DEF NotesIn, CommitSchema, CommitSchemaFails
<1>5. CASE User
  <2>1. \A e : EditChange(e).file \notin NoteFiles
    BY ChangeFiles, FileKinds DEF NoteFiles
  <2> QED BY <1>5, <2>1 DEF NotesIn, User, UserEdit, UserCommit, UserRevert
<1>6. UNCHANGED <<cur, written, state>>
  BY DEF Archive, SetCommitSha, StageEscapes, UpdateSchema, WriteSchema, CommitSchema,
         CommitSchemaFails, User, UserEdit, UserCommit, UserRevert
<1> QED BY <1>1, <1>2, <1>3, <1>4, <1>5, <1>6 DEF UpdateSchema

LEMMA NotesKept ==
  ASSUME SoleVault, TypeInv, NEW v \in Vaults, NotesInv(v), [Next]_vars
  PROVE  NotesInv(v)'
<1> USE DEF At, Goto, tree, history, remote, records, stored, locals, bounds, users
<1>0. pc \in [Vaults -> PCs] /\ \A w \in Vaults : w = v
  BY DEF SoleVault, TypeInv, TypeProcess
<1>1. ASSUME NEW j \in Jobs, Start(v, j) PROVE NotesInv(v)'
  BY <1>0, <1>1 DEF NotesInv, BeforeWriting, Recording, Start
<1>2. CASE CheckClean(v)
  BY <1>0, <1>2 DEF NotesInv, BeforeWriting, Recording, CheckClean, Clean, NotesIn
<1>3. CASE \/ DedupHit(v) \/ DedupMiss(v) \/ PullRefused(v) \/ ReadKey(v) \/ Pull(v)
           \/ LookUp(v) \/ Scan(v) \/ EmptyCache(v) \/ FillCache(v) \/ Analyse(v)
  BY <1>0, <1>3
     DEF NotesInv, BeforeWriting, Recording, DedupHit, DedupMiss, PullRefused, ReadKey, Pull, LookUp,
         Scan, EmptyCache, FillCache, Analyse, Settle
<1>4. CASE Archive(v)
  <2>1. written[v] = 0 /\ cur[v] \in Jobs /\ NotesIn(dirty) = {}
    BY <1>4 DEF Archive, TypeInv, LocalsInv, NotesInv, BeforeWriting
  <2>2. NotesIn(dirty') = FirstNotes(cur[v], written[v]) /\ UNCHANGED <<cur, written>>
    BY <1>4, <2>1, NotesUntouched, NotesFacts
  <2>3. pc'[v] = "notes"
    BY <1>0, <1>4 DEF Archive
  <2> QED BY <2>2, <2>3 DEF NotesInv, BeforeWriting, Recording
<1>5. CASE WriteNote(v)
  <2> DEFINE m == written[v]
             c == NoteChange(cur[v], m + 1)
  <2>1. /\ cur[v] \in Jobs /\ m \in Nat /\ m < NotesPerJob /\ NotesPerJob \in Nat
        /\ NotesIn(dirty) = FirstNotes(cur[v], m)
    BY <1>5, PipelineAssumption DEF WriteNote, TypeInv, TypeProcess, LocalsInv, NotesInv
  <2>2. c.file = NoteFile(cur[v], m + 1) /\ c.file \in NoteFiles
    BY <2>1, ChangeFiles DEF NoteFiles
  <2>3. \A d \in FirstNotes(cur[v], m) : d.file # c.file
    BY <2>1, <2>2, ChangeFiles, FileKinds DEF FirstNotes
  <2>4. FirstNotes(cur[v], m + 1) = FirstNotes(cur[v], m) \union {c}
    BY <2>1 DEF FirstNotes
  <2>5. dirty' = Over(dirty, {c}) /\ written'[v] = m + 1 /\ cur' = cur
        /\ pc'[v] = IF m + 1 = NotesPerJob THEN "add" ELSE "notes"
    BY <1>0, <1>5 DEF WriteNote, TypeInv, TypeProcess
  <2> HIDE DEF c, m
  <2>6. NotesIn(dirty') = NotesIn(dirty) \union {c}
    BY <2>1, <2>2, <2>3, <2>5 DEF NotesIn, Over
  <2>7. NotesIn(dirty') = FirstNotes(cur[v], m + 1)
    BY <2>1, <2>4, <2>6
  <2> QED BY <2>1, <2>5, <2>7, NotesFacts DEF NotesInv, BeforeWriting, Recording
<1>6. CASE Add(v) \/ ReAdd(v)
  BY <1>0, <1>6 DEF NotesInv, BeforeWriting, Recording, Add, ReAdd, StageAll
<1>7. CASE Commit(v)
  <2>1. CASE staged = {}
    BY <1>0, <1>7, <2>1 DEF NotesInv, BeforeWriting, Recording, Commit
  <2>2. CASE staged # {}
    <3>1. pc'[v] = "head" /\ dirty' = dirty \ staged
      BY <1>0, <1>7, <2>2 DEF Commit
    <3>2. NotesIn(dirty) = NotesIn(staged)
      BY <1>7 DEF Commit, NotesInv
    <3>3. NotesIn(dirty') = {}
      BY <3>1, <3>2 DEF NotesIn
    <3> QED BY <3>1, <3>3 DEF NotesInv, BeforeWriting, Recording
  <2> QED BY <2>1, <2>2
<1>8. CASE SetCommitSha(v)
  <2>1. NotesIn(dirty') = {} /\ pc'[v] \in {"readd", "raised"}
    BY <1>0, <1>8, NotesUntouched DEF SetCommitSha, NotesInv, Recording
  <2> QED BY <2>1 DEF NotesInv, BeforeWriting, Recording
<1>9. CASE \/ ReadHead(v) \/ Amend(v) \/ ReadAmended(v) \/ Put(v) \/ Push(v) \/ Succeed(v)
  BY <1>0, <1>9 DEF NotesInv, BeforeWriting, Recording, NotesIn, ReadHead, Amend, ReadAmended, Put,
     Push, Succeed, Settle
<1>10. CASE RollBack(v) \/ Undo(v) \/ Fail(v) \/ Fault(v)
  <2>1. pc'[v] \in Failing \union {"idle"}
    BY <1>0, <1>10 DEF RollBack, Undo, Fail, Settle, Fault, StageFails, StageInterrupted,
       StageEscapes, RollBackFails, Failing
  <2> QED BY <2>1 DEF NotesInv, BeforeWriting, Recording, Failing
<1>11. ASSUME \/ \E u \in Schemas : UpdateSchema(u)
              \/ User
       PROVE  NotesInv(v)'
  <2>1. UNCHANGED pc
    BY <1>11 DEF UpdateSchema, WriteSchema, CommitSchema, CommitSchemaFails, User, UserEdit,
       UserCommit, UserRevert
  <2> QED BY <1>11, <2>1, NotesUntouched DEF NotesInv
<1>12. CASE OthersPush \/ UNCHANGED vars
  BY <1>12 DEF NotesInv, OthersPush, vars
<1>13. CASE Crash \/ Recovery
  <2>1. pc'[v] = "idle"
    BY <1>0, <1>13 DEF Crash, Recovery, Restart, RecoverInterrupted, Serve, TypeInv, LocalsInv
  <2> QED BY <2>1 DEF NotesInv, BeforeWriting, Recording
<1>14. ASSUME NEW w \in Vaults, Stage(w) \/ Fault(w) PROVE NotesInv(v)'
  <2>1. Stage(v) \/ Fault(v)
    BY <1>0, <1>14
  <2> QED BY <2>1, <1>2, <1>3, <1>4, <1>5, <1>6, <1>7, <1>8, <1>9, <1>10 DEF Stage
<1>15. ASSUME NEW w \in Vaults, NEW j \in Jobs, Start(w, j) PROVE NotesInv(v)'
  BY <1>0, <1>1, <1>15
<1> QED BY <1>11, <1>12, <1>13, <1>14, <1>15 DEF Next


\* The commits that hold a note of the job.
Held(l, j) == {i \in DOMAIN l : l[i].changes \intersect Notes(j) # {}}

OnceIn(l, j) ==
  /\ \A i, k \in Held(l, j) : i = k
  /\ \A i \in Held(l, j) : Notes(j) \subseteq l[i].changes

\* The history holds all notes of a job in one commit, or none; and it holds none
\* before the job's own commit.
OnceInv(j) ==
  /\ OnceIn(log, j)
  /\ Held(log, j) # {} => state[j] # "none"
  /\ Held(log, j) # {} => \A v \in Vaults : cur[v] = j => pc[v] \in Recording \union Failing

LEMMA HeldGrowsByOthers ==
  ASSUME TypeInv, NEW by \in Jobs \union Schemas \union {"user", "remote"},
         NEW changes \in SUBSET Changes, NewCommit(by, changes),
         NEW j \in Jobs, changes \intersect Notes(j) = {}
  PROVE  Held(log', j) = Held(log, j) /\ (OnceIn(log, j) => OnceIn(log', j))
<1>1. /\ DOMAIN log = 1..Len(log) /\ DOMAIN log' = 1..(Len(log) + 1) /\ Len(log) \in Nat
      /\ \A i \in 1..Len(log) : log'[i] = log[i]
      /\ log'[Len(log) + 1] = [id |-> nextId, by |-> by, changes |-> changes]
  BY CommitAppends DEF TypeInv
<1>2. \A i \in DOMAIN log' : i \notin DOMAIN log => log'[i].changes = changes
  BY <1>1
<1>3. \A i \in DOMAIN log : i \in DOMAIN log' /\ log'[i].changes = log[i].changes
  BY <1>1
<1>4. Held(log', j) = Held(log, j)
  BY <1>2, <1>3 DEF Held
<1>5. \A i \in Held(log, j) : log'[i].changes = log[i].changes
  BY <1>3 DEF Held
<1> QED BY <1>4, <1>5 DEF OnceIn

LEMMA HeldGrowsByOwn ==
  ASSUME TypeInv, NEW by \in Jobs \union Schemas \union {"user", "remote"},
         NEW changes \in SUBSET Changes, NewCommit(by, changes),
         NEW j \in Jobs, Held(log, j) = {}, Notes(j) \subseteq changes
  PROVE  OnceIn(log', j)
<1>1. /\ DOMAIN log = 1..Len(log) /\ DOMAIN log' = 1..(Len(log) + 1) /\ Len(log) \in Nat
      /\ \A i \in 1..Len(log) : log'[i] = log[i]
      /\ log'[Len(log) + 1] = [id |-> nextId, by |-> by, changes |-> changes]
  BY CommitAppends DEF TypeInv
<1>2. log'[Len(log) + 1].changes = changes /\ \A i \in DOMAIN log : log'[i].changes = log[i].changes
  BY <1>1
<1>3. \A i \in Held(log', j) : i = Len(log) + 1
  BY <1>1, <1>2 DEF Held
<1> QED BY <1>2, <1>3 DEF OnceIn

LEMMA HeldAmended ==
  ASSUME TypeInv, NEW v \in Vaults, Amend(v), NotesIn(staged) = {}, NEW j \in Jobs
  PROVE  /\ Held(log', j) = Held(log, j) /\ (OnceIn(log, j) => OnceIn(log', j))
         /\ \A i \in DOMAIN log : log'[i].changes \intersect Notes(j) = log[i].changes \intersect Notes(j)
<1>1. /\ Len(log) \in DOMAIN log /\ DOMAIN log' = DOMAIN log
      /\ \A i \in DOMAIN log : i # Len(log) => log'[i] = log[i]
      /\ log'[Len(log)].changes = Over(log[Len(log)].changes, staged)
  BY AmendReplaces DEF HEAD
<1>2. \A c \in Notes(j), d \in staged : d.file # c.file
  BY NotesFacts DEF NotesIn
<1>3. \A S : Over(S, staged) \intersect Notes(j) = S \intersect Notes(j)
  BY <1>2 DEF Over
<1>4. \A i \in DOMAIN log : log'[i].changes \intersect Notes(j) = log[i].changes \intersect Notes(j)
  BY <1>1, <1>3
<1>5. Held(log', j) = Held(log, j)
  BY <1>1, <1>4 DEF Held
<1>6. \A i \in Held(log, j) : Notes(j) \subseteq log[i].changes => Notes(j) \subseteq log'[i].changes
  BY <1>4 DEF Held
<1> QED BY <1>4, <1>5, <1>6 DEF OnceIn

\* The steps that leave the notes in the history alone.
LEMMA OnceFrame ==
  ASSUME NEW j \in Jobs, OnceInv(j),
         Held(log', j) = Held(log, j), OnceIn(log, j) => OnceIn(log', j),
         state[j] # "none" => state'[j] # "none",
         state[j] # "none" => \A v \in Vaults : cur'[v] = j =>
           cur[v] = j /\ (pc[v] \in Recording \union Failing => pc'[v] \in Recording \union Failing)
  PROVE  OnceInv(j)'
BY DEF OnceInv

LEMMA OnceKept ==
  ASSUME SoleVault, TypeInv, NEW v \in Vaults, NotesInv(v), NEW j \in Jobs, OnceInv(j), [Next]_vars
  PROVE  OnceInv(j)'
<1> USE DEF At, Goto, tree, history, remote, records, stored, locals, bounds, users
<1>0. /\ pc \in [Vaults -> PCs] /\ cur \in [Vaults -> Jobs \union {None}]
      /\ state \in [Jobs -> {"none", "running", "succeeded", "failed"}]
      /\ None \notin Jobs
      /\ \A w \in Vaults : w = v
  BY PipelineAssumption DEF SoleVault, TypeInv, TypeProcess, TypeRecords
<1>1. ASSUME UNCHANGED log, state[j] # "none" => state'[j] # "none",
             state[j] # "none" /\ cur'[v] = j =>
               cur[v] = j /\ (pc[v] \in Recording \union Failing => pc'[v] \in Recording \union Failing)
      PROVE  OnceInv(j)'
  BY <1>0, <1>1, OnceFrame
<1>2. ASSUME NEW k \in Jobs, Start(v, k) PROVE OnceInv(j)'
  BY <1>0, <1>1, <1>2 DEF Start
<1>3. CASE DedupHit(v) \/ Succeed(v) \/ Fail(v)
  <2>1. cur'[v] = None /\ UNCHANGED log /\ (state[j] # "none" => state'[j] # "none")
    BY <1>0, <1>3 DEF DedupHit, Succeed, Fail, Settle
  <2> QED BY <1>0, <1>1, <2>1
<1>4. CASE \/ CheckClean(v) \/ DedupMiss(v) \/ PullRefused(v) \/ ReadKey(v)
           \/ LookUp(v) \/ Scan(v) \/ EmptyCache(v) \/ FillCache(v) \/ Analyse(v)
           \/ Archive(v) \/ WriteNote(v) \/ Add(v)
  <2>1. pc[v] \notin Recording \union Failing /\ UNCHANGED <<log, state, cur>>
    BY <1>4 DEF Recording, Failing, CheckClean, DedupMiss, PullRefused, ReadKey, LookUp, Scan,
       EmptyCache, FillCache, Analyse, Archive, WriteNote, Add
  <2> QED BY <1>1, <2>1
<1>5. CASE \/ ReadHead(v) \/ SetCommitSha(v) \/ ReAdd(v) \/ ReadAmended(v) \/ Put(v) \/ Push(v)
           \/ RollBack(v) \/ Undo(v) \/ Fault(v)
  <2>1. pc'[v] \in Recording \union Failing /\ UNCHANGED <<log, state, cur>>
    BY <1>0, <1>5 DEF Recording, Failing, ReadHead, SetCommitSha, ReAdd, ReadAmended, Put, Push,
       RollBack, Undo, Fault, StageFails, StageInterrupted, StageEscapes, RollBackFails
  <2> QED BY <1>1, <2>1
<1>6. CASE Pull(v)
  <2>1. pc[v] \notin Recording \union Failing /\ UNCHANGED <<state, cur>>
    BY <1>6 DEF Pull, Recording, Failing
  <2>2. CASE foreign = 0
    BY <1>6, <2>1, <2>2, <1>1 DEF Pull
  <2>3. CASE foreign # 0
    <3>1. NewCommit("remote", {TheirChange(nextId)})
      BY <1>6, <2>3 DEF Pull
    <3>2. {TheirChange(nextId)} \in SUBSET Changes /\ NotesIn({TheirChange(nextId)}) = {}
      BY ChangeTypes, ChangeFiles, FileKinds DEF TypeInv, TypeHistory, NotesIn, NoteFiles
    <3>3. Held(log', j) = Held(log, j) /\ (OnceIn(log, j) => OnceIn(log', j))
      BY <3>1, <3>2, NotesInFacts, HeldGrowsByOthers
    <3> QED BY <1>0, <2>1, <3>3, OnceFrame
  <2> QED BY <2>2, <2>3
<1>7. CASE Commit(v)
  <2>1. CASE staged = {}
    <3>1. pc[v] \notin Recording \union Failing /\ UNCHANGED <<log, state, cur>>
      BY <1>7, <2>1 DEF Commit, Recording, Failing
    <3> QED BY <3>1, <1>1
  <2>2. CASE staged # {}
    <3>1. /\ NewCommit(cur[v], staged) /\ UNCHANGED <<state, cur>> /\ cur[v] \in Jobs
          /\ NotesIn(staged) = Notes(cur[v]) /\ staged \in SUBSET Changes
          /\ pc[v] = "commit" /\ pc'[v] = "head"
          /\ state[cur[v]] = "running"
      BY <1>0, <1>7, <2>2 DEF Commit, NotesInv, TypeInv, LocalsInv, TypeTree
    <3>2. CASE j = cur[v]
      <4>1. Held(log, j) = {}
        BY <3>1, <3>2 DEF OnceInv, Recording, Failing
      <4>2. OnceIn(log', j)
        BY <3>1, <3>2, <4>1, NotesInFacts, HeldGrowsByOwn
      <4> QED BY <1>0, <3>1, <3>2, <4>2 DEF OnceInv, Recording
    <3>3. CASE j # cur[v]
      <4>1. Held(log', j) = Held(log, j) /\ (OnceIn(log, j) => OnceIn(log', j))
        BY <3>1, <3>3, NotesInFacts, HeldGrowsByOthers
      <4> QED BY <1>0, <3>1, <3>3, <4>1, OnceFrame
    <3> QED BY <3>2, <3>3
  <2> QED BY <2>1, <2>2
<1>8. CASE Amend(v)
  <2>1. NotesIn(staged) = {} /\ UNCHANGED <<state, cur>> /\ pc'[v] = "amended"
    BY <1>0, <1>8 DEF Amend, NotesInv
  <2>2. Held(log', j) = Held(log, j) /\ (OnceIn(log, j) => OnceIn(log', j))
    BY <1>8, <2>1, HeldAmended
  <2> QED BY <1>0, <2>1, <2>2, OnceFrame DEF Recording
<1>9. ASSUME NEW u \in Schemas, UpdateSchema(u) PROVE OnceInv(j)'
  <2>1. UNCHANGED <<state, cur, pc>>
    BY <1>9 DEF UpdateSchema, WriteSchema, CommitSchema, CommitSchemaFails
  <2>2. CASE UNCHANGED log
    BY <2>1, <2>2, <1>1
  <2>3. CASE ~UNCHANGED log
    <3> DEFINE here == {c \in dirty : c.file = SchemaFile(SchemaVault[u])}
    <3>1. NewCommit(u, here) /\ here \in SUBSET Changes
      BY <1>9, <2>3 DEF UpdateSchema, WriteSchema, CommitSchema, CommitSchemaFails, TypeInv, TypeTree
    <3>2. NotesIn(here) = {}
      BY FileKinds DEF NotesIn, NoteFiles
    <3> HIDE DEF here
    <3>3. Held(log', j) = Held(log, j) /\ (OnceIn(log, j) => OnceIn(log', j))
      BY <3>1, <3>2, NotesInFacts, HeldGrowsByOthers
    <3> QED BY <2>1, <3>3, OnceFrame
  <2> QED BY <2>2, <2>3
<1>10. CASE User
  <2>1. UNCHANGED <<state, cur, pc>>
    BY <1>10 DEF User, UserEdit, UserCommit, UserRevert
  <2>2. CASE UNCHANGED log
    BY <2>1, <2>2, <1>1
  <2>3. CASE ~UNCHANGED log
    <3>1. PICK mine \in SUBSET Changes :
            NewCommit("user", mine) /\ \A c \in mine : \E e \in Edits : c = EditChange(e)
      BY <1>10, <2>3 DEF User, UserEdit, UserCommit, UserRevert, TypeInv, TypeTree
    <3>2. NotesIn(mine) = {}
      BY <3>1, ChangeFiles, FileKinds DEF NotesIn, NoteFiles
    <3>3. Held(log', j) = Held(log, j) /\ (OnceIn(log, j) => OnceIn(log', j))
      BY <3>1, <3>2, NotesInFacts, HeldGrowsByOthers
    <3> QED BY <2>1, <3>3, OnceFrame
  <2> QED BY <2>2, <2>3
<1>11. CASE OthersPush \/ UNCHANGED vars
  BY <1>1, <1>11 DEF OthersPush, vars
<1>12. CASE Crash \/ Recovery
  <2>1. UNCHANGED log /\ (state[j] # "none" => state'[j] # "none")
    BY <1>0, <1>12 DEF Crash, Recovery, Restart, RecoverInterrupted, Serve
  <2>2. CASE Crash
    <3>1. cur'[v] = None
      BY <2>2 DEF Crash
    <3> QED BY <1>0, <2>1, <3>1, <1>1
  <2>3. CASE Recovery
    <3>1. UNCHANGED <<cur, pc>>
      BY <2>3 DEF Recovery, Restart, RecoverInterrupted, Serve
    <3> QED BY <2>1, <3>1, <1>1
  <2> QED BY <1>12, <2>2, <2>3
<1>13. ASSUME NEW w \in Vaults, Stage(w) \/ Fault(w) PROVE OnceInv(j)'
  <2>1. Stage(v) \/ Fault(v)
    BY <1>0, <1>13
  <2> QED BY <2>1, <1>3, <1>4, <1>5, <1>6, <1>7, <1>8 DEF Stage
<1>14. ASSUME NEW w \in Vaults, NEW k \in Jobs, Start(w, k) PROVE OnceInv(j)'
  BY <1>0, <1>2, <1>14
<1> QED BY <1>9, <1>10, <1>11, <1>12, <1>13, <1>14 DEF Next


\* The tree holds the notes the worker has written, and the history the batches.
BatchInv == (\A v \in Vaults : NotesInv(v)) /\ \A j \in Jobs : OnceInv(j)

LEMMA BatchAlways == ASSUME SoleVault PROVE Spec => []BatchInv
<1>1. Init => BatchInv
  <2> SUFFICES ASSUME Init PROVE BatchInv
    OBVIOUS
  <2>1. \A v \in Vaults : NotesInv(v)
    BY DEF Init, NotesInv, BeforeWriting, Recording
  <2>2. \A j \in Jobs : Held(log, j) = {}
    BY DEF Init, Held
  <2> QED BY <2>1, <2>2 DEF BatchInv, OnceInv, OnceIn
<1>2. TypeInv /\ BatchInv /\ [Next]_vars => BatchInv'
  <2> SUFFICES ASSUME TypeInv, BatchInv, [Next]_vars PROVE BatchInv'
    OBVIOUS
  <2>1. ASSUME NEW v \in Vaults PROVE NotesInv(v)'
    BY <2>1, NotesKept DEF BatchInv
  <2>2. ASSUME NEW j \in Jobs PROVE OnceInv(j)'
    <3>1. CASE Vaults = {}
      <4>1. Jobs = {}
        BY <3>1, PipelineAssumption
      <4> QED BY <4>1
    <3>2. CASE Vaults # {}
      BY <3>2, OnceKept DEF BatchInv
    <3> QED BY <3>1, <3>2
  <2> QED BY <2>1, <2>2 DEF BatchInv
<1> QED BY <1>1, <1>2, TypesHold, PTL DEF Spec

\* A repository of one vault never has a commit with some of an ingest's notes, nor
\* two that share them, for every number of jobs, notes, faults, crashes, edits and
\* schema updates beside the ingests (pipeline.py run and its except clauses,
\* recovery.py _rollback).
THEOREM BatchesAreWhole == ASSUME SoleVault PROVE Spec => []AllOrNothing
<1>1. BatchInv => AllOrNothing
  <2> SUFFICES ASSUME BatchInv, NEW j \in Jobs
      PROVE  /\ Cardinality(Held(log, j)) <= 1
             /\ \A i \in Held(log, j) : Notes(j) \subseteq log[i].changes
    BY DEF AllOrNothing, Held
  <2>1. OnceIn(log, j)
    BY DEF BatchInv, OnceInv
  <2>2. Held(log, j) = {} \/ \E i : Held(log, j) = {i}
    BY <2>1 DEF OnceIn
  <2>3. Cardinality(Held(log, j)) <= 1
    BY <2>2, FS_EmptySet, FS_Singleton
  <2> QED BY <2>1, <2>3 DEF OnceIn
<1> QED BY <1>1, BatchAlways, PTL

===============================================================================
