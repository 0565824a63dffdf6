-------------------------- MODULE IngestHistoryProofs --------------------------
(***************************************************************************)
(* Proofs about IngestPipeline: what the branch holds.  The source index,  *)
(* the commit a job reports, the cached vocabulary and what an ingest      *)
(* leaves in the tree follow from the invariants of IngestPipelineProofs,  *)
(* and the pipeline implements AtomicIngest.                               *)
(***************************************************************************)
EXTENDS IngestPipelineProofs

-------------------------------------------------------------------------------
(* How the history changes, step by step.                                    *)

\* The ids of commits increase along the branch, and the last is not reverted.
IdsInv ==
  /\ \A i \in DOMAIN log : log[i].id <= HEAD.id
  /\ HEAD.id < nextId
  /\ \A r \in reverted : r < HEAD.id

Authors == Jobs \union Schemas \union {"user", "remote"}

\* A step that appends a commit: that of an ingest, or one without notes.
Appends(by, changes) ==
  /\ NewCommit(by, changes) /\ UNCHANGED reverted
  /\ \/ \E v \in Vaults : Commit(v) /\ by = cur[v] /\ changes = staged /\ staged # {}
     \/ NotesIn(changes) = {}

LEMMA HistorySteps ==
  ASSUME TypeInv, [Next]_vars
  PROVE  \/ UNCHANGED <<log, nextId, reverted>>
         \/ \E v \in Vaults : Amend(v) /\ UNCHANGED reverted
         \/ \E by \in Authors, changes \in SUBSET Changes : Appends(by, changes)
         \/ \E i \in DOMAIN log : UserRevert(i)
<1> USE DEF At, Goto, tree, history, remote, records, stored, locals, bounds, users
<1> DEFINE Shape ==
         \/ UNCHANGED <<log, nextId, reverted>>
         \/ \E v \in Vaults : Amend(v) /\ UNCHANGED reverted
         \/ \E by \in Authors, changes \in SUBSET Changes : Appends(by, changes)
         \/ \E i \in DOMAIN log : UserRevert(i)
<1>1. ASSUME NEW v \in Vaults, Pull(v) PROVE Shape
  <2>1. CASE foreign = 0
    BY <1>1, <2>1 DEF Pull
  <2>2. CASE foreign # 0
    <3>1. NewCommit("remote", {TheirChange(nextId)}) /\ UNCHANGED reverted
      BY <1>1, <2>2 DEF Pull
    <3>2. {TheirChange(nextId)} \in SUBSET Changes /\ NotesIn({TheirChange(nextId)}) = {}
      BY ChangeTypes, ChangeFiles, FileKinds DEF TypeInv, TypeHistory, NotesIn, NoteFiles
    <3> QED BY <3>1, <3>2 DEF Appends, Authors
  <2> QED BY <2>1, <2>2
<1>2. ASSUME NEW v \in Vaults, Commit(v) PROVE Shape
  <2>1. CASE staged = {}
    BY <1>2, <2>1 DEF Commit
  <2>2. CASE staged # {}
    <3>1. /\ NewCommit(cur[v], staged) /\ UNCHANGED reverted
          /\ cur[v] \in Authors /\ staged \in SUBSET Changes
      BY <1>2, <2>2 DEF Commit, TypeInv, LocalsInv, TypeTree, Authors
    <3> QED BY <1>2, <2>2, <3>1 DEF Appends
  <2> QED BY <2>1, <2>2
<1>3. ASSUME NEW v \in Vaults, Amend(v) PROVE Shape
  BY <1>3 DEF Amend
<1>4. ASSUME NEW v \in Vaults,
             \/ CheckClean(v) \/ DedupHit(v) \/ DedupMiss(v) \/ PullRefused(v) \/ ReadKey(v)
             \/ LookUp(v) \/ Scan(v) \/ EmptyCache(v) \/ FillCache(v) \/ Analyse(v)
             \/ Archive(v) \/ WriteNote(v) \/ Add(v) \/ ReadHead(v) \/ SetCommitSha(v) \/ ReAdd(v)
             \/ ReadAmended(v) \/ Put(v) \/ Push(v) \/ Succeed(v) \/ RollBack(v) \/ Undo(v)
             \/ Fail(v) \/ Fault(v)
      PROVE  UNCHANGED <<log, nextId, reverted>>
  BY <1>4
     DEF CheckClean, DedupHit, DedupMiss, PullRefused, ReadKey, LookUp, Scan, EmptyCache, FillCache,
         Analyse, Archive, WriteNote, Add, ReadHead, SetCommitSha, ReAdd, ReadAmended, Put, Push,
         Succeed, RollBack, Undo, Fail, Fault, StageFails, StageInterrupted, StageEscapes,
         RollBackFails
<1>5. ASSUME NEW u \in Schemas, UpdateSchema(u) PROVE Shape
  <2>1. CASE UNCHANGED <<log, nextId>>
    BY <1>5, <2>1 DEF UpdateSchema, WriteSchema, CommitSchema, CommitSchemaFails
  <2>2. CASE ~UNCHANGED <<log, nextId>>
    <3> DEFINE here == {c \in dirty : c.file = SchemaFile(SchemaVault[u])}
    <3>1. NewCommit(u, here) /\ here \in SUBSET Changes /\ UNCHANGED reverted
      BY <1>5, <2>2 DEF UpdateSchema, WriteSchema, CommitSchema, CommitSchemaFails, TypeInv, TypeTree
    <3>2. NotesIn(here) = {}
      BY FileKinds DEF NotesIn, NoteFiles
    <3> HIDE DEF here
    <3> QED BY <3>1, <3>2 DEF Appends, Authors
  <2> QED BY <2>1, <2>2
<1>6. CASE UserCommit
  <2>1. PICK mine \in SUBSET Changes :
          NewCommit("user", mine) /\ UNCHANGED reverted /\ \A c \in mine : \E e \in Edits : c = EditChange(e)
    BY <1>6 DEF UserCommit, TypeInv, TypeTree
  <2>2. NotesIn(mine) = {}
    BY <2>1, ChangeFiles, FileKinds DEF NotesIn, NoteFiles
  <2> QED BY <2>1, <2>2 DEF Appends, Authors
<1>7. CASE (\E e \in Edits : UserEdit(e)) \/ OthersPush \/ Crash \/ Recovery \/ UNCHANGED vars
            \/ \E v \in Vaults, j \in Jobs : Start(v, j)
  BY <1>7 DEF UserEdit, OthersPush, Crash, Recovery, Restart, RecoverInterrupted, Serve, vars, Start
<1>8. ASSUME NEW v \in Vaults, Stage(v) \/ Fault(v) PROVE Shape
  BY <1>8, <1>1, <1>2, <1>3, <1>4 DEF Stage
<1> QED BY <1>5, <1>6, <1>7, <1>8 DEF Next, User

LEMMA IdsKept ==
  ASSUME TypeInv, IdsInv, [Next]_vars
  PROVE  IdsInv'
<1>0. /\ nextId \in Nat /\ HEAD.id \in Nat /\ Len(log) \in DOMAIN log /\ HEAD = log[Len(log)]
      /\ \A i \in DOMAIN log : log[i].id \in Nat
      /\ reverted \in SUBSET Nat
  BY HistoryTypes DEF TypeInv, TypeHistory, TypeTree, Commits, HEAD
<1>1. CASE UNCHANGED <<log, nextId, reverted>>
  BY <1>1 DEF IdsInv, HEAD
<1>2. ASSUME NEW v \in Vaults, Amend(v), UNCHANGED reverted PROVE IdsInv'
  <2>1. /\ DOMAIN log' = DOMAIN log /\ nextId' = nextId + 1
        /\ \A i \in DOMAIN log : i # Len(log) => log'[i] = log[i]
        /\ log'[Len(log)] = HEAD'
        /\ HEAD'.id = nextId
    BY <1>2, AmendReplaces
  <2> QED BY <1>0, <1>2, <2>1 DEF IdsInv
<1>3. ASSUME NEW by \in Authors, NEW changes \in SUBSET Changes, NewCommit(by, changes),
             \/ UNCHANGED reverted
             \/ \E i \in DOMAIN log : reverted' = reverted \union {log[i].id}
      PROVE  IdsInv'
  <2>1. /\ DOMAIN log = 1..Len(log) /\ DOMAIN log' = 1..(Len(log) + 1)
        /\ Len(log) \in Nat \ {0}
        /\ \A i \in 1..Len(log) : log'[i] = log[i]
        /\ log'[Len(log) + 1] = [id |-> nextId, by |-> by, changes |-> changes]
        /\ HEAD' = [id |-> nextId, by |-> by, changes |-> changes]
        /\ nextId' = nextId + 1
    BY <1>3, CommitAppends DEF TypeInv, Authors
  <2>2. HEAD'.id = nextId /\ log'[Len(log) + 1].id = nextId
    BY <2>1
  <2>3. \A i \in DOMAIN log' : log'[i].id <= HEAD'.id
    BY <1>0, <2>1, <2>2 DEF IdsInv
  <2>4. \A r \in reverted' : r < HEAD'.id
    <3>1. \A r \in reverted : r < nextId
      BY <1>0 DEF IdsInv
    <3>2. \A i \in DOMAIN log : log[i].id < nextId
      BY <1>0 DEF IdsInv
    <3> QED BY <1>3, <2>2, <3>1, <3>2
  <2> QED BY <1>0, <2>1, <2>2, <2>3, <2>4 DEF IdsInv
<1>4. ASSUME NEW i \in DOMAIN log, UserRevert(i) PROVE IdsInv'
  <2>1. NewCommit("user", {}) /\ reverted' = reverted \union {log[i].id}
    BY <1>4 DEF UserRevert
  <2> QED BY <2>1, <1>3 DEF Authors
<1> QED BY <1>1, <1>2, <1>3, <1>4, HistorySteps DEF Appends

LEMMA IdsAlways == Spec => []IdsInv
<1>1. Init => IdsInv
  <2> SUFFICES ASSUME Init PROVE IdsInv
    OBVIOUS
  <2>1. log = <<[id |-> 1, by |-> "user", changes |-> {}]>> /\ nextId = 2 /\ reverted = {}
    BY DEF Init
  <2>2. Len(log) = 1 /\ DOMAIN log = {1} /\ log[1].id = 1
    BY <2>1
  <2> QED BY <2>1, <2>2 DEF IdsInv, HEAD
<1> QED BY <1>1, IdsKept, TypesHold, PTL DEF Spec

-------------------------------------------------------------------------------
(* What is stored.                                                           *)

\* A commit holds a job's notes; it keeps them; only the job's own commit adds them.
LEMMA HeldSteps ==
  ASSUME SoleVault, TypeInv, BatchInv, [Next]_vars, NEW j \in Jobs
  PROVE  \/ Held(log', j) = Held(log, j)
         \/ \E v \in Vaults : /\ Commit(v) /\ staged # {} /\ cur[v] = j
                              /\ Held(log, j) = {} /\ Held(log', j) # {}
<1>1. CASE UNCHANGED <<log, nextId, reverted>>
  BY <1>1
<1>2. ASSUME NEW v \in Vaults, Amend(v) PROVE Held(log', j) = Held(log, j)
  <2>1. NotesIn(staged) = {}
    BY <1>2 DEF Amend, At, BatchInv, NotesInv
  <2> QED BY <1>2, <2>1, HeldAmended
<1>3. ASSUME NEW by \in Authors, NEW changes \in SUBSET Changes, NewCommit(by, changes),
             changes \intersect Notes(j) = {}
      PROVE  Held(log', j) = Held(log, j)
  BY <1>3, HeldGrowsByOthers DEF Authors
<1>4. ASSUME NEW v \in Vaults, Commit(v), NewCommit(cur[v], staged), staged # {}
      PROVE  \/ Held(log', j) = Held(log, j)
             \/ Commit(v) /\ staged # {} /\ cur[v] = j /\ Held(log, j) = {} /\ Held(log', j) # {}
  <2>1. /\ cur[v] \in Jobs /\ NotesIn(staged) = Notes(cur[v]) /\ staged \in SUBSET Changes
        /\ pc[v] = "commit"
    BY <1>4 DEF Commit, At, BatchInv, NotesInv, TypeInv, LocalsInv, TypeTree
  <2>2. CASE cur[v] # j
    BY <1>3, <1>4, <2>1, <2>2, NotesInFacts DEF Authors
  <2>3. CASE cur[v] = j
    <3>1. Held(log, j) = {}
      BY <2>1, <2>3 DEF BatchInv, OnceInv, Recording, Failing
    <3>2. /\ DOMAIN log' = 1..(Len(log) + 1) /\ Len(log) \in Nat
          /\ log'[Len(log) + 1] = [id |-> nextId, by |-> cur[v], changes |-> staged]
      BY <1>4, <2>1, CommitAppends DEF TypeInv
    <3>3. Len(log) + 1 \in DOMAIN log' /\ log'[Len(log) + 1].changes = staged
      BY <3>2
    <3>4. staged \intersect Notes(j) # {}
      BY <2>1, <2>3, NotesFacts, NotesInFacts
    <3> QED BY <1>4, <2>3, <3>1, <3>3, <3>4 DEF Held
  <2> QED BY <2>2, <2>3
<1>5. ASSUME NEW i \in DOMAIN log, UserRevert(i) PROVE Held(log', j) = Held(log, j)
  <2>1. NewCommit("user", {})
    BY <1>5 DEF UserRevert
  <2> QED BY <2>1, <1>3 DEF Authors
<1>6. ASSUME NEW by \in Authors, NEW changes \in SUBSET Changes, Appends(by, changes)
      PROVE  \/ Held(log', j) = Held(log, j)
             \/ \E v \in Vaults : /\ Commit(v) /\ staged # {} /\ cur[v] = j
                                  /\ Held(log, j) = {} /\ Held(log', j) # {}
  <2>1. CASE NotesIn(changes) = {}
    BY <1>3, <1>6, <2>1, NotesInFacts DEF Appends
  <2>2. CASE \E v \in Vaults : Commit(v) /\ by = cur[v] /\ changes = staged /\ staged # {}
    BY <1>4, <1>6, <2>2 DEF Appends
  <2> QED BY <1>6, <2>1, <2>2 DEF Appends
<1> QED BY <1>1, <1>2, <1>5, <1>6, HistorySteps

\* A worker that records its commit has made it.
LEMMA EntersRecording ==
  ASSUME SoleVault, TypeInv, [Next]_vars, NEW v \in Vaults, pc'[v] \in Recording
  PROVE  /\ cur'[v] = cur[v]
         /\ pc[v] \in Recording \/ (Commit(v) /\ staged # {} /\ pc'[v] = "head")
<1> USE DEF At, Goto, tree, history, remote, records, stored, locals, bounds, users
<1> DEFINE Entered == /\ cur'[v] = cur[v]
                      /\ pc[v] \in Recording \/ (Commit(v) /\ staged # {} /\ pc'[v] = "head")
<1>0. pc \in [Vaults -> PCs] /\ \A w \in Vaults : w = v
  BY DEF SoleVault, TypeInv, TypeProcess
<1>1. CASE \/ \E j \in Jobs : Start(v, j)
           \/ CheckClean(v) \/ DedupHit(v) \/ DedupMiss(v) \/ PullRefused(v) \/ ReadKey(v) \/ Pull(v)
           \/ LookUp(v) \/ Scan(v) \/ EmptyCache(v) \/ FillCache(v) \/ Analyse(v)
           \/ Archive(v) \/ WriteNote(v) \/ Add(v)
  <2>1. pc'[v] \notin Recording
    BY <1>0, <1>1
       DEF Recording, Start, CheckClean, DedupHit, DedupMiss, PullRefused, ReadKey, Pull, LookUp, Scan,
           EmptyCache, FillCache, Analyse, Archive, WriteNote, Add, Settle
  <2> QED BY <2>1
<1>2. CASE RollBack(v) \/ Undo(v) \/ Fail(v) \/ Fault(v)
  <2>1. pc'[v] \notin Recording
    BY <1>0, <1>2 DEF RollBack, Undo, Fail, Settle, Fault, StageFails, StageInterrupted,
       StageEscapes, RollBackFails, Recording
  <2> QED BY <2>1
<1>3. CASE Commit(v)
  BY <1>0, <1>3 DEF Commit, Recording
<1>4. CASE \/ ReadHead(v) \/ SetCommitSha(v) \/ ReAdd(v) \/ Amend(v) \/ ReadAmended(v) \/ Put(v)
           \/ Push(v)
  BY <1>0, <1>4 DEF ReadHead, SetCommitSha, ReAdd, Amend, ReadAmended, Put, Push, Recording
<1>5. CASE Succeed(v)
  BY <1>0, <1>5 DEF Succeed, Settle, Recording
<1>6. CASE \/ \E u \in Schemas : UpdateSchema(u)
           \/ User \/ OthersPush \/ Recovery \/ UNCHANGED vars
  BY <1>6 DEF UpdateSchema, WriteSchema, CommitSchema, CommitSchemaFails, User, UserEdit,
       UserCommit, UserRevert, OthersPush, Recovery, Restart, RecoverInterrupted, Serve, vars
<1>7. CASE Crash
  BY <1>7 DEF Crash, Recording
<1>8. ASSUME NEW w \in Vaults, Stage(w) \/ Fault(w) \/ \E j \in Jobs : Start(w, j) PROVE Entered
  <2>1. w = v
    BY <1>0
  <2> QED BY <2>1, <1>8, <1>1, <1>2, <1>3, <1>4, <1>5 DEF Stage
<1> QED BY <1>6, <1>7, <1>8 DEF Next

\* What the history holds is there for the index entries and for the worker that
\* is about to make one.
StoredInv ==
  /\ reverted = {}
  /\ \A v \in Vaults : pc[v] \in Recording => Held(log, cur[v]) # {}
  /\ \A v \in Vaults, x \in Texts : index[v][x] # None =>
       /\ VaultOf[index[v][x].job] = v /\ TextOf[index[v][x].job] = x
       /\ Held(log, index[v][x].job) # {}

\* The source index is written by put alone.
LEMMA IndexSteps ==
  ASSUME [Next]_vars
  PROVE  UNCHANGED index \/ \E v \in Vaults : Put(v)
<1> USE DEF tree, history, remote, records, stored, locals, bounds, users
<1>1. ASSUME NEW v \in Vaults, Stage(v) PROVE UNCHANGED index \/ Put(v)
  BY <1>1
     DEF Stage, CheckClean, DedupHit, DedupMiss, PullRefused, ReadKey, LookUp, Scan, EmptyCache,
         FillCache, Analyse, Archive, WriteNote, Add, ReadHead, SetCommitSha, ReAdd, ReadAmended,
         Push, Succeed, RollBack, Undo, Fail, Pull, Commit, Amend
<1>2. ASSUME NEW v \in Vaults, Fault(v) \/ \E j \in Jobs : Start(v, j) PROVE UNCHANGED index
  BY <1>2 DEF Start, Fault, StageFails, StageInterrupted, StageEscapes, RollBackFails
<1>3. CASE \/ \E u \in Schemas : UpdateSchema(u)
           \/ User \/ OthersPush \/ Crash \/ Recovery \/ UNCHANGED vars
  BY <1>3 DEF UpdateSchema, WriteSchema, CommitSchema, CommitSchemaFails, User, UserEdit,
       UserCommit, UserRevert, OthersPush, Crash, Recovery, Restart, RecoverInterrupted, Serve, vars
<1> QED BY <1>1, <1>2, <1>3 DEF Next

LEMMA StoredKept ==
  ASSUME SoleVault, ~MayRevert, TypeInv, BatchInv, StoredInv, [Next]_vars
  PROVE  StoredInv'
<1>1. \A j \in Jobs : Held(log, j) # {} => Held(log', j) # {}
  BY HeldSteps
<1>2. reverted' = {}
  BY HistorySteps DEF StoredInv, Appends, UserRevert
<1>3. ASSUME NEW v \in Vaults, pc'[v] \in Recording PROVE Held(log', cur'[v]) # {}
  <2>1. cur'[v] = cur[v] /\ (pc[v] \in Recording \/ (Commit(v) /\ staged # {}))
    BY <1>3, EntersRecording
  <2>2. cur[v] \in Jobs
    BY <2>1 DEF TypeInv, LocalsInv, Recording, Commit, At
  <2>3. CASE pc[v] \in Recording
    BY <1>1, <2>1, <2>2, <2>3 DEF StoredInv
  <2>4. CASE Commit(v) /\ staged # {}
    <3>1. NewCommit(cur[v], staged) /\ NotesIn(staged) = Notes(cur[v]) /\ staged \in SUBSET Changes
      BY <2>4 DEF Commit, At, BatchInv, NotesInv, TypeInv, TypeTree
    <3>2. /\ DOMAIN log' = 1..(Len(log) + 1) /\ Len(log) \in Nat
          /\ log'[Len(log) + 1] = [id |-> nextId, by |-> cur[v], changes |-> staged]
      BY <2>2, <3>1, CommitAppends DEF TypeInv
    <3>3. Len(log) + 1 \in DOMAIN log' /\ log'[Len(log) + 1].changes = staged
      BY <3>2
    <3>4. staged \intersect Notes(cur[v]) # {}
      BY <2>2, <3>1, NotesFacts, NotesInFacts
    <3> QED BY <2>1, <3>3, <3>4 DEF Held
  <2> QED BY <2>1, <2>3, <2>4
<1>4. ASSUME NEW v \in Vaults, NEW x \in Texts, index'[v][x] # None
      PROVE  /\ VaultOf[index'[v][x].job] = v /\ TextOf[index'[v][x].job] = x
             /\ Held(log', index'[v][x].job) # {}
  <2>1. CASE index'[v][x] = index[v][x]
    <3>1. index[v][x].job \in Jobs
      BY <2>1, <1>4 DEF TypeInv, TypeRecords, Entries
    <3> QED BY <1>1, <1>4, <2>1, <3>1 DEF StoredInv
  <2>2. CASE index'[v][x] # index[v][x]
    <3>1. PICK w \in Vaults : Put(w)
      BY <2>2, IndexSteps
    <3>2. cur[w] \in Jobs /\ VaultOf[cur[w]] = w /\ TextOf[cur[w]] \in Texts
          /\ pc[w] \in Recording
      BY <3>1, PipelineAssumption DEF Put, At, TypeInv, LocalsInv, Recording
    <3>3. v = w /\ x = TextOf[cur[w]] /\ index'[v][x] = [job |-> cur[w], commit |-> sha[w]]
      BY <2>2, <3>1, <3>2 DEF Put, TypeInv, TypeRecords
    <3>4. index'[v][x].job = cur[w]
      BY <3>3
    <3> QED BY <1>1, <3>2, <3>3, <3>4 DEF StoredInv
  <2> QED BY <2>1, <2>2
<1> QED BY <1>2, <1>3, <1>4 DEF StoredInv

LEMMA StoredAlways ==
  ASSUME SoleVault, ~MayRevert
  PROVE  Spec => []StoredInv
<1>1. Init => StoredInv
  BY DEF Init, StoredInv, Recording
<1>2. TypeInv /\ BatchInv /\ StoredInv /\ [Next]_vars => StoredInv'
  BY StoredKept
<1> QED BY <1>1, <1>2, TypesHold, BatchAlways, PTL DEF Spec

\* Of a job, the branch holds all notes or none.
LEMMA StoredNotes ==
  ASSUME reverted = {}, NEW j \in Jobs, OnceIn(log, j)
  PROVE  Notes(j) \intersect Committed = IF Held(log, j) = {} THEN {} ELSE Notes(j)
<1>1. Committed = UNION {log[i].changes : i \in DOMAIN log}
  BY DEF Committed
<1>2. CASE Held(log, j) = {}
  BY <1>1, <1>2 DEF Held
<1>3. ASSUME NEW i \in Held(log, j) PROVE Notes(j) \subseteq Committed
  BY <1>1, <1>3 DEF Held, OnceIn
<1> QED BY <1>2, <1>3

\* In a repository of one vault where no ingest is reverted, an entry of the source
\* index stands for notes that are in the history (pipeline.py:187-193): a later
\* ingest of the text is not skipped for the sake of one that was rolled back.
THEOREM IndexStands ==
  ASSUME SoleVault, ~MayRevert
  PROVE  Spec => []IndexIsStored
<1>1. TypeInv /\ BatchInv /\ StoredInv => IndexIsStored
  <2> SUFFICES ASSUME TypeInv, BatchInv, StoredInv,
                      NEW v \in Vaults, NEW x \in Texts, index[v][x] # None
               PROVE  Notes(index[v][x].job) \subseteq Committed
    BY DEF IndexIsStored
  <2>1. index[v][x].job \in Jobs
    BY DEF TypeInv, TypeRecords, Entries
  <2>2. Notes(index[v][x].job) \intersect Committed = Notes(index[v][x].job)
    BY <2>1, StoredNotes DEF StoredInv, BatchInv, OnceInv
  <2> QED BY <2>2
<1> QED BY <1>1, StoredAlways, TypesHold, BatchAlways, PTL

-------------------------------------------------------------------------------
(* The pipeline implements AtomicIngest.                                     *)

\* How many of each job's notes the history holds.
Kept == [j \in Jobs |-> Cardinality(Notes(j) \intersect Committed)]

LEMMA NotesCounted == \A j \in Jobs : Cardinality(Notes(j)) = NotesPerJob
<1> SUFFICES ASSUME NEW j \in Jobs PROVE Cardinality(Notes(j)) = NotesPerJob
  OBVIOUS
<1>1. IsFiniteSet(1..NotesPerJob) /\ Cardinality(1..NotesPerJob) = NotesPerJob
  BY PipelineAssumption, FS_Interval
<1> DEFINE name == [n \in 1..NotesPerJob |-> NoteChange(j, n)]
<1>2. name \in Bijection(1..NotesPerJob, Notes(j))
  <2>1. \A n, m \in 1..NotesPerJob : NoteChange(j, n) = NoteChange(j, m) => n = m
    BY ChangeFiles, FileKinds
  <2>2. name \in Injection(1..NotesPerJob, Notes(j))
    BY <2>1 DEF Injection, IsInjective, Notes
  <2>3. name \in Surjection(1..NotesPerJob, Notes(j))
    BY DEF Surjection, Notes
  <2> QED BY <2>2, <2>3 DEF Bijection
<1> QED BY <1>1, <1>2, FS_Bijection DEF ExistsBijection

LEMMA KeptCounts ==
  ASSUME reverted = {}, NEW j \in Jobs, OnceIn(log, j)
  PROVE  Kept[j] = IF Held(log, j) = {} THEN 0 ELSE NotesPerJob
<1>1. Kept[j] = Cardinality(Notes(j) \intersect Committed)
  BY DEF Kept
<1> QED BY <1>1, StoredNotes, NotesCounted, FS_EmptySet

CountInv == \A j \in Jobs : Kept[j] = IF Held(log, j) = {} THEN 0 ELSE NotesPerJob

LEMMA CountFollows == BatchInv /\ StoredInv => CountInv
BY KeptCounts DEF StoredInv, BatchInv, OnceInv, CountInv

\* What an ingest's step does to the records.
LEMMA RecordSteps ==
  ASSUME TypeInv, [Next]_vars
  PROVE  \/ UNCHANGED state
         \/ UNCHANGED log /\ \E v \in Vaults, j \in Jobs : Start(v, j)
         \/ UNCHANGED log /\ \E v \in Vaults : DedupHit(v) \/ Succeed(v) \/ Fail(v)
         \/ UNCHANGED log /\ \E j \in Jobs : RecoverInterrupted(j)
<1> USE DEF tree, history, remote, records, stored, locals, bounds, users
<1>1. ASSUME NEW v \in Vaults, Stage(v)
      PROVE  UNCHANGED state \/ (UNCHANGED log /\ (DedupHit(v) \/ Succeed(v) \/ Fail(v)))
  BY <1>1
     DEF Stage, CheckClean, DedupHit, DedupMiss, PullRefused, ReadKey, LookUp, Scan, EmptyCache,
         FillCache, Analyse, Archive, WriteNote, Add, ReadHead, SetCommitSha, ReAdd, ReadAmended,
         Put, Push, Succeed, RollBack, Undo, Fail, Pull, Commit, Amend
<1>2. ASSUME NEW v \in Vaults, Fault(v) PROVE UNCHANGED state
  BY <1>2 DEF Fault, StageFails, StageInterrupted, StageEscapes, RollBackFails
<1>3. ASSUME NEW v \in Vaults, NEW j \in Jobs, Start(v, j) PROVE UNCHANGED log
  BY <1>3 DEF Start
<1>4. ASSUME NEW j \in Jobs, RecoverInterrupted(j) PROVE UNCHANGED log
  BY <1>4 DEF RecoverInterrupted
<1>5. CASE \/ \E u \in Schemas : UpdateSchema(u)
           \/ User \/ OthersPush \/ Crash \/ Restart \/ Serve \/ UNCHANGED vars
  BY <1>5 DEF UpdateSchema, WriteSchema, CommitSchema, CommitSchemaFails, User, UserEdit,
       UserCommit, UserRevert, OthersPush, Crash, Restart, Serve, vars
<1> QED BY <1>1, <1>2, <1>3, <1>4, <1>5 DEF Next, Recovery

\* A step of the pipeline is a step of AtomicIngest, or none.
LEMMA AtomicStep ==
  ASSUME SoleVault, ~MayRevert, TypeInv, BatchInv, StoredInv, [Next]_vars,
         BatchInv', StoredInv'
  PROVE  [Atomic!Next]_(Atomic!vars)
<1> USE DEF At, Goto, tree, history, remote, records, stored, locals, bounds, users
<1>0. \A j \in Jobs : /\ Kept[j] = IF Held(log, j) = {} THEN 0 ELSE NotesPerJob
                      /\ Kept'[j] = IF Held(log', j) = {} THEN 0 ELSE NotesPerJob
  <2>1. CountInv
    BY CountFollows
  <2>2. CountInv'
    BY CountFollows, PTL
  <2> QED BY <2>1, <2>2 DEF CountInv
<1>1. Kept = [j \in Jobs |-> Kept[j]] /\ Kept' = [j \in Jobs |-> Kept'[j]]
  BY DEF Kept
<1>2. ASSUME \A j \in Jobs : Held(log', j) = Held(log, j) PROVE Kept' = Kept
  BY <1>0, <1>1, <1>2
<1>3. state \in [Jobs -> {"none", "running", "succeeded", "failed"}]
  BY DEF TypeInv, TypeRecords
<1>4. ASSUME NEW v \in Vaults, NEW j \in Jobs, Start(v, j), UNCHANGED log
      PROVE  Atomic!Begin(j)
  BY <1>2, <1>4 DEF Start, Atomic!Begin, Kept
<1>5. ASSUME NEW v \in Vaults, DedupHit(v), UNCHANGED log PROVE Atomic!Succeed(cur[v])
  <2>1. cur[v] \in Jobs /\ VaultOf[cur[v]] = v /\ state[cur[v]] = "running"
        /\ TextOf[cur[v]] \in Texts
    BY <1>5, PipelineAssumption DEF DedupHit, TypeInv, LocalsInv
  <2> DEFINE k == Prior(v).job
  <2>2. k \in Jobs /\ VaultOf[k] = v /\ TextOf[k] = TextOf[cur[v]] /\ Held(log, k) # {}
    BY <1>5, <2>1 DEF DedupHit, Prior, TypeInv, TypeRecords, Entries, StoredInv
  <2>3. SameSource(cur[v], k) /\ Kept[k] = NotesPerJob
    BY <1>0, <2>1, <2>2 DEF SameSource
  <2>4. state' = [state EXCEPT ![cur[v]] = "succeeded"] /\ Kept' = Kept
    BY <1>2, <1>5 DEF DedupHit, Settle
  <2> QED BY <2>1, <2>2, <2>3, <2>4 DEF Atomic!Succeed, Kept
<1>6. ASSUME NEW v \in Vaults, Succeed(v), UNCHANGED log PROVE Atomic!Succeed(cur[v])
  <2>1. cur[v] \in Jobs /\ state[cur[v]] = "running" /\ pc[v] \in Recording
    BY <1>6 DEF Succeed, TypeInv, LocalsInv, Recording
  <2>2. SameSource(cur[v], cur[v]) /\ Kept[cur[v]] = NotesPerJob
    BY <1>0, <2>1 DEF SameSource, StoredInv
  <2>3. state' = [state EXCEPT ![cur[v]] = "succeeded"] /\ Kept' = Kept
    BY <1>2, <1>6 DEF Succeed, Settle
  <2> QED BY <2>1, <2>2, <2>3 DEF Atomic!Succeed, Kept
<1>7. ASSUME NEW v \in Vaults, Fail(v), UNCHANGED log PROVE Atomic!Fail(cur[v])
  <2>1. cur[v] \in Jobs /\ state[cur[v]] = "running"
    BY <1>7 DEF Fail, TypeInv, LocalsInv
  <2>2. state' = [state EXCEPT ![cur[v]] = "failed"] /\ Kept' = Kept
    BY <1>2, <1>7 DEF Fail, Settle
  <2> QED BY <2>1, <2>2 DEF Atomic!Fail, Kept
<1>8. ASSUME NEW j \in Jobs, RecoverInterrupted(j), UNCHANGED log PROVE Atomic!Fail(j)
  BY <1>2, <1>8 DEF RecoverInterrupted, Atomic!Fail, Kept
<1>9. ASSUME UNCHANGED state, NEW j \in Jobs, Held(log', j) # Held(log, j)
      PROVE  Atomic!Store(j)
  <2>1. PICK v \in Vaults : /\ Commit(v) /\ staged # {} /\ cur[v] = j
                            /\ Held(log, j) = {} /\ Held(log', j) # {}
    BY <1>9, HeldSteps
  <2>2. state[j] = "running" /\ Kept[j] = 0 /\ Kept'[j] = NotesPerJob
    BY <1>0, <2>1 DEF Commit, TypeInv, LocalsInv
  <2>3. \A k \in Jobs : k # j => Held(log', k) = Held(log, k)
    <3> SUFFICES ASSUME NEW k \in Jobs, k # j, Held(log', k) # Held(log, k) PROVE FALSE
      OBVIOUS
    <3>1. PICK w \in Vaults : cur[w] = k
      BY HeldSteps
    <3> QED BY <2>1, <3>1 DEF SoleVault
  <2>4. Kept' = [Kept EXCEPT ![j] = NotesPerJob]
    <3>1. \A k \in Jobs : k # j => Kept'[k] = Kept[k]
      BY <1>0, <2>3
    <3> QED BY <1>1, <2>2, <3>1
  <2> QED BY <1>9, <2>2, <2>4 DEF Atomic!Store, Kept
<1>10. CASE UNCHANGED state
  <2>1. CASE \A j \in Jobs : Held(log', j) = Held(log, j)
    BY <1>2, <1>10, <2>1 DEF Atomic!vars, Kept
  <2>2. CASE \E j \in Jobs : Held(log', j) # Held(log, j)
    BY <1>9, <1>10, <2>2 DEF Atomic!Next
  <2> QED BY <2>1, <2>2
<1>11. ASSUME NEW v \in Vaults, DedupHit(v) \/ Succeed(v) \/ Fail(v), UNCHANGED log
       PROVE  Atomic!Next
  <2>1. cur[v] \in Jobs
    BY <1>11 DEF DedupHit, Succeed, Fail, TypeInv, LocalsInv
  <2> QED BY <1>5, <1>6, <1>7, <1>11, <2>1 DEF Atomic!Next
<1> QED BY <1>4, <1>8, <1>10, <1>11, RecordSteps DEF Atomic!Next

\* In a repository of one vault where no ingest is reverted, ingestion is what
\* AtomicIngest promises: the notes of a job enter the history at once and at most
\* once, while it runs, and it succeeds only when the notes of its text are there
\* (README.md "One ingest is exactly one commit, all-or-nothing").
THEOREM PipelineIsAtomic ==
  ASSUME SoleVault, ~MayRevert
  PROVE  Spec => ImplementsAtomicIngest
<1>1. Init => Atomic!Init
  <2> SUFFICES ASSUME Init PROVE Atomic!Init
    OBVIOUS
  <2>1. \A j \in Jobs : Notes(j) \intersect Committed = {}
    BY DEF Init, Committed
  <2> QED BY <2>1, FS_EmptySet DEF Init, Atomic!Init
<1>2. TypeInv /\ BatchInv /\ StoredInv /\ [Next]_vars /\ BatchInv' /\ StoredInv'
        => [Atomic!Next]_(Atomic!vars)
  BY AtomicStep
<1>3. Spec => Atomic!Init /\ [][Atomic!Next]_(Atomic!vars)
  BY <1>1, <1>2, TypesHold, BatchAlways, StoredAlways, PTL DEF Spec
<1> QED BY <1>3, PTL DEF ImplementsAtomicIngest, Atomic!Spec

-------------------------------------------------------------------------------
(* The commit a job reports.                                                 *)

\* What an ingest may put into its commit, and the commit it makes.
OwnFiles(j) == {TextFile(TextOf[j]), ManifestFile(TextOf[j])}
Own(j, changes) == \A c \in changes : c \in Notes(j) \/ c.file \in OwnFiles(j)

Retractable(j, commit) ==
  commit.by = j /\ Notes(j) \subseteq commit.changes /\ Own(j, commit.changes)

\* Where a worker's tree is its own: from the clean-tree check to the outcome.
Working == PCs \ ({"idle", "clean"} \union Failing)

OwnInv(v) ==
  /\ pc[v] \in Working => Own(cur[v], dirty) /\ Own(cur[v], staged)
  /\ pc[v] \in Recording => Retractable(cur[v], HEAD)
  /\ pc[v] \in {"put", "push", "succeed"} => sha[v] = HEAD.id

Reported(j) ==
  state[j] = "succeeded" /\ dedupOf[j] = None =>
    \E i \in DOMAIN log : log[i].id = reported[j] /\ Retractable(j, log[i])

LEMMA OwnFacts ==
  ASSUME NEW j \in Jobs
  PROVE  /\ \A S : \A T \in SUBSET S : Own(j, S) => Own(j, T)
         /\ \A S, T : Own(j, S) /\ Own(j, T) => Own(j, S \union T) /\ Own(j, Over(S, T))
BY DEF Own, Over

\* The steps of the worker that change its tree add only what is its own.
LEMMA OwnTree ==
  ASSUME TypeInv, NEW v \in Vaults, pc[v] \in Working, Own(cur[v], dirty), Own(cur[v], staged),
         Stage(v) \/ Fault(v)
  PROVE  Own(cur[v], dirty') /\ Own(cur[v], staged')
<1> USE DEF At, Goto, tree, history, remote, records, stored, locals, bounds, users
<1>0. cur[v] \in Jobs /\ pc[v] # "idle"
  BY DEF Working, TypeInv, LocalsInv
<1>1. CASE Archive(v) \/ StageEscapes(v)
  <2>1. Own(cur[v], ArchiveWrites(v) \union Partial(v))
    BY <1>0, PartialFiles DEF Own, OwnFiles
  <2>2. dirty' \subseteq dirty \union (ArchiveWrites(v) \union Partial(v)) /\ staged' = staged
    BY <1>1 DEF Archive, StageEscapes, Over
  <2> QED BY <2>1, <2>2 DEF Own
<1>2. CASE WriteNote(v)
  <2>1. NoteChange(cur[v], written[v] + 1) \in Notes(cur[v])
    <3>1. written[v] + 1 \in 1..NotesPerJob
      BY <1>2, PipelineAssumption DEF WriteNote, TypeInv, TypeProcess, LocalsInv
    <3> QED BY <3>1 DEF Notes
  <2>2. dirty' \subseteq dirty \union {NoteChange(cur[v], written[v] + 1)} /\ staged' = staged
    BY <1>2 DEF WriteNote, Over
  <2> QED BY <2>1, <2>2 DEF Own
<1>3. CASE SetCommitSha(v)
  <2>1. dirty' \subseteq dirty \union {ManifestChange(TextOf[cur[v]], sha[v])} /\ staged' = staged
    BY <1>3 DEF SetCommitSha, Over
  <2> QED BY <2>1, ChangeFiles DEF Own, OwnFiles
<1>4. CASE ~(Archive(v) \/ WriteNote(v) \/ SetCommitSha(v) \/ StageEscapes(v))
  <2>1. dirty' \subseteq dirty /\ staged' \subseteq dirty \union staged
    BY <1>4
       DEF Stage, Fault, CheckClean, DedupHit, DedupMiss, PullRefused, ReadKey, LookUp, Scan,
           EmptyCache, FillCache, Analyse, Add, ReadHead, ReAdd, ReadAmended,
           Put, Push, Succeed, RollBack, Undo, Fail, Pull, Commit, Amend, StageFails,
           StageInterrupted, RollBackFails, StageAll, Rollback, RollbackStops
  <2> QED BY <2>1 DEF Own
<1> QED BY <1>1, <1>2, <1>3, <1>4

\* A worker gets to work only through the clean-tree check.
LEMMA EntersWorking ==
  ASSUME TypeInv, NEW v \in Vaults, Stage(v) \/ Fault(v), pc'[v] \in Working
  PROVE  cur'[v] = cur[v] /\ (pc[v] \in Working \/ (CheckClean(v) /\ Clean))
<1> USE DEF At, Goto, tree, history, remote, records, stored, locals, bounds, users
<1>0. pc \in [Vaults -> PCs] /\ pc[v] \in PCs
  BY DEF TypeInv, TypeProcess
<1>1. CASE DedupHit(v) \/ Succeed(v) \/ RollBack(v) \/ Undo(v) \/ Fail(v) \/ Fault(v)
  <2>1. pc'[v] \in {"idle"} \union Failing
    BY <1>0, <1>1 DEF DedupHit, Succeed, RollBack, Undo, Fail, Settle, Fault, StageFails,
       StageInterrupted, StageEscapes, RollBackFails, Failing
  <2> QED BY <2>1 DEF Working
<1>2. CASE CheckClean(v)
  BY <1>0, <1>2 DEF CheckClean, Working, Failing
<1>3. CASE ~(CheckClean(v) \/ DedupHit(v) \/ Succeed(v) \/ RollBack(v) \/ Undo(v) \/ Fail(v)
            \/ Fault(v))
  <2>1. pc[v] \in Working /\ cur' = cur
    BY <1>0, <1>3
       DEF Working, Failing, Stage, DedupMiss, PullRefused, ReadKey, LookUp, Scan, EmptyCache,
           FillCache, Analyse, Archive, WriteNote, Add, ReadHead, SetCommitSha, ReAdd, ReadAmended,
           Put, Push, Pull, Commit, Amend
  <2> QED BY <2>1
<1> QED BY <1>1, <1>2, <1>3

\* Nobody but the worker changes the tree or the branch while it works.
LEMMA UndisturbedWorker ==
  ASSUME Schemas = {}, ~EditWhileBusy, SoleVault, TypeInv, NEW v \in Vaults, [Next]_vars,
         pc'[v] \in Working
  PROVE  \/ Stage(v) \/ Fault(v)
         \/ UNCHANGED <<dirty, staged, log, pc, cur, sha>>
<1> USE DEF At, Goto, tree, history, remote, records, stored, locals, bounds, users
<1>0. pc \in [Vaults -> PCs] /\ \A w \in Vaults : w = v
  BY DEF SoleVault, TypeInv, TypeProcess
<1>1. ASSUME NEW w \in Vaults, NEW j \in Jobs, Start(w, j) PROVE FALSE
  <2>1. pc'[v] = "clean"
    BY <1>0, <1>1 DEF Start
  <2> QED BY <2>1 DEF Working
<1>2. CASE User
  <2>1. UNCHANGED <<pc, phase>> /\ ~Busy
    BY <1>2 DEF User, UserEdit, UserCommit, UserRevert
  <2>2. pc[v] = "idle"
    BY <2>1 DEF Busy, TypeInv, LocalsInv
  <2> QED BY <2>1, <2>2 DEF Working
<1>3. CASE Crash \/ Recovery
  <2>1. pc'[v] = "idle"
    BY <1>0, <1>3 DEF Crash, Recovery, Restart, RecoverInterrupted, Serve, TypeInv, LocalsInv
  <2> QED BY <2>1 DEF Working
<1>4. CASE OthersPush \/ UNCHANGED vars
  BY <1>4 DEF OthersPush, vars
<1>5. ASSUME NEW w \in Vaults, Stage(w) \/ Fault(w) PROVE Stage(v) \/ Fault(v)
  BY <1>0, <1>5
<1> QED BY <1>1, <1>2, <1>3, <1>4, <1>5 DEF Next

LEMMA OwnKept ==
  ASSUME Schemas = {}, ~EditWhileBusy, SoleVault, TypeInv, BatchInv, NEW v \in Vaults, OwnInv(v),
         [Next]_vars
  PROVE  OwnInv(v)'
<1> USE DEF At, Goto, tree, history, remote, records, stored, locals, bounds, users
<1>0. pc \in [Vaults -> PCs] /\ sha \in [Vaults -> Nat]
  BY DEF TypeInv, TypeProcess
<1>1. ASSUME pc'[v] \in Working PROVE Own(cur'[v], dirty') /\ Own(cur'[v], staged')
  <2>1. CASE Stage(v) \/ Fault(v)
    <3>1. CASE pc[v] \in Working
      BY <1>1, <2>1, <3>1, OwnTree, EntersWorking DEF OwnInv
    <3>2. CASE CheckClean(v) /\ Clean
      BY <3>2 DEF CheckClean, Clean, Own
    <3> QED BY <1>1, <2>1, <3>1, <3>2, EntersWorking
  <2>2. CASE UNCHANGED <<dirty, staged, log, pc, cur, sha>>
    BY <1>1, <2>2 DEF OwnInv
  <2> QED BY <1>1, <2>1, <2>2, UndisturbedWorker
<1>2. Recording \subseteq Working
  BY DEF Recording, Working, PCs, Failing
<1>3. ASSUME pc'[v] \in Recording PROVE Retractable(cur'[v], HEAD')
  <2>1. cur'[v] = cur[v] /\ (pc[v] \in Recording \/ (Commit(v) /\ staged # {}))
    BY <1>3, EntersRecording
  <2>2. cur[v] \in Jobs
    BY <2>1 DEF TypeInv, LocalsInv, Recording, Commit
  <2>3. CASE Commit(v) /\ staged # {}
    <3>1. /\ NewCommit(cur[v], staged) /\ staged \in SUBSET Changes
          /\ Notes(cur[v]) \subseteq staged /\ Own(cur[v], staged)
      BY <2>2, <2>3, NotesInFacts
         DEF Commit, BatchInv, NotesInv, TypeInv, TypeTree, OwnInv, Working, PCs, Failing
    <3>2. HEAD' = [id |-> nextId, by |-> cur[v], changes |-> staged]
      BY <2>2, <3>1, CommitAppends DEF TypeInv
    <3> QED BY <2>1, <3>1, <3>2 DEF Retractable
  <2>4. CASE Amend(v)
    <3>1. /\ NotesIn(staged) = {} /\ Own(cur[v], staged) /\ Retractable(cur[v], HEAD)
      BY <2>4 DEF Amend, BatchInv, NotesInv, OwnInv, Working, PCs, Failing, Recording
    <3>2. HEAD' = [id |-> nextId, by |-> HEAD.by, changes |-> Over(HEAD.changes, staged)]
      BY <2>4, AmendReplaces
    <3>3. Own(cur[v], Over(HEAD.changes, staged))
      BY <2>2, <3>1, OwnFacts DEF Retractable
    <3>4. Notes(cur[v]) \subseteq Over(HEAD.changes, staged)
      <4>1. \A c \in Notes(cur[v]), d \in staged : d.file # c.file
        BY <2>2, <3>1, NotesFacts DEF NotesIn
      <4> QED BY <3>1, <4>1 DEF Over, Retractable
    <3> QED BY <2>1, <3>1, <3>2, <3>3, <3>4 DEF Retractable
  <2>5. CASE pc[v] \in Recording /\ ~Amend(v)
    <3>1. UNCHANGED log
      <4>1. CASE Stage(v) \/ Fault(v)
        BY <2>5, <4>1
           DEF Recording, Stage, Fault, CheckClean, DedupHit, DedupMiss, PullRefused, ReadKey, LookUp,
               Scan, EmptyCache, FillCache, Analyse, Archive, WriteNote, Add, ReadHead, SetCommitSha,
               ReAdd, ReadAmended, Put, Push, Succeed, RollBack, Undo, Fail, Pull, Commit, StageFails,
               StageInterrupted, StageEscapes, RollBackFails
      <4> QED BY <1>2, <1>3, <4>1, UndisturbedWorker
    <3> QED BY <2>1, <2>5, <3>1 DEF OwnInv, HEAD
  <2> QED BY <2>1, <2>3, <2>4, <2>5
<1>4. ASSUME pc'[v] \in {"put", "push", "succeed"} PROVE sha'[v] = HEAD'.id
  <2>0. pc'[v] \in Working
    BY <1>4 DEF Working, PCs, Failing
  <2>1. CASE ReadHead(v) \/ ReadAmended(v)
    BY <1>0, <2>1 DEF ReadHead, ReadAmended, HEAD
  <2>2. CASE Put(v) \/ Push(v)
    BY <2>2 DEF Put, Push, OwnInv, HEAD
  <2>3. CASE UNCHANGED <<dirty, staged, log, pc, cur, sha>>
    BY <1>4, <2>3 DEF OwnInv, HEAD
  <2>4. ASSUME Stage(v) \/ Fault(v), ~(ReadHead(v) \/ ReadAmended(v) \/ Put(v) \/ Push(v))
        PROVE  FALSE
    BY <1>0, <1>4, <2>4
       DEF Stage, Fault, CheckClean, DedupHit, DedupMiss, PullRefused, ReadKey, LookUp,
           Scan, EmptyCache, FillCache, Analyse, Archive, WriteNote, Add, SetCommitSha, Settle,
           ReAdd, Amend, Succeed, RollBack, Undo, Fail, Pull, Commit, StageFails,
           StageInterrupted, StageEscapes, RollBackFails
  <2> QED BY <2>0, <2>1, <2>2, <2>3, <2>4, UndisturbedWorker
<1> QED BY <1>1, <1>3, <1>4 DEF OwnInv

\* A job becomes a success that is no duplicate by Succeed alone.
LEMMA BecomesReported ==
  ASSUME TypeInv, [Next]_vars, NEW j \in Jobs, state'[j] = "succeeded", dedupOf'[j] = None
  PROVE  \/ state[j] = "succeeded" /\ dedupOf[j] = None /\ reported'[j] = reported[j]
         \/ \E v \in Vaults : Succeed(v) /\ cur[v] = j
<1> USE DEF At, Goto, tree, history, remote, records, stored, locals, bounds, users
<1> DEFINE Known == state[j] = "succeeded" /\ dedupOf[j] = None /\ reported'[j] = reported[j]
<1>0. /\ state \in [Jobs -> {"none", "running", "succeeded", "failed"}]
      /\ reported \in [Jobs -> Nat] /\ dedupOf \in [Jobs -> Jobs \union {None}]
      /\ None \notin Jobs
  BY PipelineAssumption DEF TypeInv, TypeRecords
<1>1. ASSUME UNCHANGED records PROVE Known
  BY <1>1
<1>2. ASSUME NEW v \in Vaults, DedupHit(v) PROVE Known
  <2>1. cur[v] \in Jobs /\ TextOf[cur[v]] \in Texts
    BY <1>2, PipelineAssumption DEF DedupHit, TypeInv, LocalsInv
  <2>2. Prior(v).job \in Jobs
    BY <1>2, <2>1 DEF DedupHit, Prior, TypeInv, TypeRecords, Entries
  <2>3. cur[v] # j
    BY <1>0, <1>2, <2>1, <2>2 DEF DedupHit
  <2> QED BY <1>0, <1>2, <2>1, <2>3 DEF DedupHit, Settle
<1>3. ASSUME NEW v \in Vaults, Succeed(v), cur[v] # j PROVE Known
  BY <1>0, <1>3 DEF Succeed, Settle
<1>4. ASSUME NEW v \in Vaults, Fail(v) PROVE Known
  BY <1>0, <1>4 DEF Fail, Settle
<1>5. ASSUME NEW v \in Vaults, NEW k \in Jobs, Start(v, k) PROVE Known
  BY <1>0, <1>5 DEF Start
<1>6. ASSUME NEW k \in Jobs, RecoverInterrupted(k) PROVE Known
  BY <1>0, <1>6 DEF RecoverInterrupted
<1>7. ASSUME NEW v \in Vaults, Stage(v) \/ Fault(v),
             ~(DedupHit(v) \/ Succeed(v) \/ Fail(v))
      PROVE  UNCHANGED records
  BY <1>7
     DEF Stage, CheckClean, DedupMiss, PullRefused, ReadKey, LookUp, Scan, EmptyCache,
         FillCache, Analyse, Archive, WriteNote, Add, ReadHead, SetCommitSha, ReAdd, ReadAmended,
         Put, Push, RollBack, Undo, Pull, Commit, Amend,
         Fault, StageFails, StageInterrupted, StageEscapes, RollBackFails
<1>8. CASE \/ \E u \in Schemas : UpdateSchema(u)
           \/ User \/ OthersPush \/ Crash \/ Restart \/ Serve \/ UNCHANGED vars
  <2>1. UNCHANGED records
    BY <1>8 DEF UpdateSchema, WriteSchema, CommitSchema, CommitSchemaFails, User, UserEdit,
       UserCommit, UserRevert, OthersPush, Crash, Restart, Serve, vars
  <2> QED BY <2>1, <1>1
<1> QED BY <1>1, <1>2, <1>3, <1>4, <1>5, <1>6, <1>7, <1>8 DEF Next, Recovery

LEMMA ReportedKept ==
  ASSUME TypeInv, \A v \in Vaults : OwnInv(v), [Next]_vars, NEW j \in Jobs, Reported(j)
  PROVE  Reported(j)'
<1> SUFFICES ASSUME state'[j] = "succeeded", dedupOf'[j] = None
    PROVE  \E i \in DOMAIN log' : log'[i].id = reported'[j] /\ Retractable(j, log'[i])
  BY DEF Reported, Retractable
<1>1. CASE \E v \in Vaults : Succeed(v) /\ cur[v] = j
  <2>1. PICK v \in Vaults : Succeed(v) /\ cur[v] = j
    BY <1>1
  <2>2. Retractable(j, HEAD) /\ sha[v] = HEAD.id
    BY <2>1 DEF Succeed, At, OwnInv, Recording
  <2>3. log' = log /\ reported'[j] = sha[v]
    BY <2>1 DEF Succeed, history, TypeInv, TypeRecords
  <2>4. Len(log) \in DOMAIN log /\ HEAD = log[Len(log)]
    BY DEF TypeInv, TypeHistory, HEAD
  <2> QED BY <2>2, <2>3, <2>4
<1>2. CASE state[j] = "succeeded" /\ dedupOf[j] = None /\ reported'[j] = reported[j]
  <2>1. PICK i \in DOMAIN log : log[i].id = reported[j] /\ Retractable(j, log[i])
    BY <1>2 DEF Reported
  <2>2. i \in DOMAIN log' /\ log'[i] = log[i]
    <3>1. CASE UNCHANGED <<log, nextId, reverted>>
      BY <3>1
    <3>2. ASSUME NEW v \in Vaults, Amend(v) PROVE i \in DOMAIN log' /\ log'[i] = log[i]
      <4>1. HEAD.by = cur[v] /\ state[cur[v]] = "running"
        BY <3>2 DEF Amend, At, OwnInv, Recording, Retractable, TypeInv, LocalsInv
      <4>2. i # Len(log)
        BY <1>2, <2>1, <4>1 DEF Retractable, HEAD
      <4> QED BY <3>2, <4>2, AmendReplaces
    <3>3. ASSUME NEW by \in Authors, NEW changes \in SUBSET Changes, NewCommit(by, changes)
          PROVE  i \in DOMAIN log' /\ log'[i] = log[i]
      <4>1. /\ DOMAIN log = 1..Len(log) /\ DOMAIN log' = 1..(Len(log) + 1) /\ Len(log) \in Nat
            /\ \A k \in 1..Len(log) : log'[k] = log[k]
        BY <3>3, CommitAppends DEF TypeInv, Authors
      <4> QED BY <4>1
    <3>4. ASSUME NEW k \in DOMAIN log, UserRevert(k) PROVE NewCommit("user", {})
      BY <3>4 DEF UserRevert
    <3> QED BY <3>1, <3>2, <3>3, <3>4, HistorySteps DEF Appends, Authors
  <2> QED BY <1>2, <2>1, <2>2
<1> QED BY <1>1, <1>2, BecomesReported

ReportedInv == (\A v \in Vaults : OwnInv(v)) /\ \A j \in Jobs : Reported(j)

\* In a repository of one vault where nobody writes beside the ingest, the commit a
\* job reports is in the history under the job's name, holds its notes and nobody
\* else's work, also after the amend and whatever comes later (pipeline.py:186-191):
\* reverting it retracts the ingest.
THEOREM ReportedCommitsStand ==
  ASSUME SoleVault, Schemas = {}, ~EditWhileBusy
  PROVE  Spec => []ReportedCommitIsRetractable
<1>1. Init => ReportedInv
  <2> SUFFICES ASSUME Init PROVE ReportedInv
    OBVIOUS
  <2>1. \A v \in Vaults : pc[v] = "idle"
    BY DEF Init
  <2>2. \A v \in Vaults : OwnInv(v)
    BY <2>1 DEF OwnInv, Working, Recording
  <2>3. \A j \in Jobs : Reported(j)
    BY DEF Init, Reported
  <2> QED BY <2>2, <2>3 DEF ReportedInv
<1>2. TypeInv /\ BatchInv /\ ReportedInv /\ [Next]_vars => ReportedInv'
  BY OwnKept, ReportedKept DEF ReportedInv
<1>3. ReportedInv => ReportedCommitIsRetractable
  <2> SUFFICES ASSUME ReportedInv, NEW j \in Jobs, state[j] = "succeeded", dedupOf[j] = None
      PROVE  \E i \in DOMAIN log :
               /\ log[i].id = reported[j] /\ log[i].by = j
               /\ Notes(j) \subseteq log[i].changes
               /\ \A c \in log[i].changes \ Notes(j) :
                    c.file \in {TextFile(TextOf[j]), ManifestFile(TextOf[j])}
    BY DEF ReportedCommitIsRetractable
  <2> QED BY DEF ReportedInv, Reported, Retractable, Own, OwnFiles
<1> QED BY <1>1, <1>2, <1>3, TypesHold, BatchAlways, PTL DEF Spec

-------------------------------------------------------------------------------
(* The vocabulary and its cache.                                             *)

\* The tags of the notes at HEAD.
Tags == NotesAmong(Committed)

\* A key read at some HEAD stays good while only schemas are committed; the cache of
\* the present HEAD is right, and so is what the worker took from it or scanned.
VocabularyInv(v) ==
  /\ cache[v].head < nextId /\ key[v] < nextId
  /\ cache[v].file = "whole" /\ cache[v].head = HEAD.id => cache[v].tags = Tags
  /\ pc[v] = "lookup" /\ Fresh(v) => cache[v].tags = Tags
  /\ pc[v] \in {"store", "storing", "analyse"} => vocab[v] = Tags
  /\ pc[v] \in BeforeWriting => NotesAmong(dirty) = {}

\* Where the vocabulary is being made.
Deriving == {"lookup", "scan", "store", "storing", "analyse"}

\* The branch with a commit more.
LEMMA CommittedGrows ==
  ASSUME TypeInv, IdsInv, NEW by \in Authors, NEW changes \in SUBSET Changes,
         NewCommit(by, changes), UNCHANGED reverted
  PROVE  Committed' = Committed \union changes
<1>1. /\ DOMAIN log = 1..Len(log) /\ DOMAIN log' = 1..(Len(log) + 1) /\ Len(log) \in Nat
      /\ \A i \in 1..Len(log) : log'[i] = log[i]
      /\ log'[Len(log) + 1] = [id |-> nextId, by |-> by, changes |-> changes]
  BY CommitAppends DEF TypeInv, Authors
<1>2. nextId \notin reverted
  <2>1. HEAD.id \in Nat /\ nextId \in Nat /\ reverted \in SUBSET Nat
    BY HistoryTypes DEF TypeInv, TypeHistory, TypeTree
  <2> QED BY <2>1 DEF IdsInv
<1>3. \A i \in DOMAIN log' : i \in DOMAIN log \/ i = Len(log) + 1
  BY <1>1
<1>4. log'[Len(log) + 1].changes = changes /\ log'[Len(log) + 1].id = nextId
      /\ Len(log) + 1 \in DOMAIN log'
      /\ \A i \in DOMAIN log : i \in DOMAIN log' /\ log'[i] = log[i]
  BY <1>1
<1> HIDE DEF Committed
<1>5. \A c : c \in Committed' <=> \E i \in DOMAIN log' : log'[i].id \notin reverted /\ c \in log'[i].changes
  BY DEF Committed
<1>6. \A c : c \in Committed <=> \E i \in DOMAIN log : log[i].id \notin reverted /\ c \in log[i].changes
  BY DEF Committed
<1>7. \A c : c \in Committed' <=> c \in Committed \/ c \in changes
  BY <1>2, <1>3, <1>4, <1>5, <1>6
<1> QED BY <1>7

\* The only commits made while a vocabulary is derived are of a schema.md.
LEMMA TagsStand ==
  ASSUME SoleVault, ~EditWhileBusy, TypeInv, IdsInv, [Next]_vars, NEW v \in Vaults,
         pc'[v] \in Deriving
  PROVE  Tags' = Tags
<1> USE DEF At, Goto, tree, history, remote, records, stored, locals, bounds, users
<1>0. pc \in [Vaults -> PCs] /\ \A w \in Vaults : w = v
  BY DEF SoleVault, TypeInv, TypeProcess
<1>1. ASSUME UNCHANGED <<log, reverted>> PROVE Tags' = Tags
  BY <1>1 DEF Tags, NotesAmong, Committed
<1>2. CASE \E w \in Vaults : Amend(w) \/ Commit(w) \/ Pull(w)
  BY <1>0, <1>2 DEF Amend, Commit, Pull, Deriving
<1>3. ASSUME NEW w \in Vaults, Stage(w) \/ Fault(w), ~(Amend(w) \/ Commit(w) \/ Pull(w))
      PROVE  UNCHANGED <<log, reverted>>
  BY <1>3
     DEF Stage, CheckClean, DedupHit, DedupMiss, PullRefused, ReadKey, LookUp, Scan, EmptyCache,
         FillCache, Analyse, Archive, WriteNote, Add, ReadHead, SetCommitSha, ReAdd, ReadAmended,
         Put, Push, Succeed, RollBack, Undo, Fail,
         Fault, StageFails, StageInterrupted, StageEscapes, RollBackFails
<1>4. ASSUME NEW w \in Vaults, NEW j \in Jobs, Start(w, j) PROVE Tags' = Tags
  BY <1>1, <1>4 DEF Start
<1>5. ASSUME NEW u \in Schemas, UpdateSchema(u) PROVE Tags' = Tags
  <2>1. CASE UNCHANGED <<log, nextId>>
    BY <1>1, <1>5, <2>1 DEF UpdateSchema, WriteSchema, CommitSchema, CommitSchemaFails
  <2>2. CASE ~UNCHANGED <<log, nextId>>
    <3> DEFINE here == {c \in dirty : c.file = SchemaFile(SchemaVault[u])}
    <3>1. NewCommit(u, here) /\ here \in SUBSET Changes /\ UNCHANGED reverted
      BY <1>5, <2>2 DEF UpdateSchema, WriteSchema, CommitSchema, CommitSchemaFails, TypeInv, TypeTree
    <3>2. NotesAmong(here) = {}
      BY DEF NotesAmong, SchemaFile
    <3> HIDE DEF here
    <3>3. Committed' = Committed \union here
      BY <3>1, CommittedGrows DEF Authors
    <3> QED BY <3>2, <3>3 DEF Tags, NotesAmong
  <2> QED BY <2>1, <2>2
<1>6. CASE User
  <2>1. UNCHANGED <<pc, phase>>
    BY <1>6 DEF User, UserEdit, UserCommit, UserRevert
  <2>2. phase = "up" /\ pc[v] # "idle"
    BY <2>1 DEF Deriving, TypeInv, LocalsInv
  <2> QED BY <1>6, <2>2 DEF User, UserEdit, UserCommit, UserRevert, Busy
<1>7. CASE OthersPush \/ Crash \/ Recovery \/ UNCHANGED vars
  BY <1>1, <1>7 DEF OthersPush, Crash, Recovery, Restart, RecoverInterrupted, Serve, vars
<1> QED BY <1>1, <1>2, <1>3, <1>4, <1>5, <1>6, <1>7 DEF Next

\* Before the first note the tree holds nothing that has tags.
LEMMA BareKept ==
  ASSUME SoleVault, ~EditWhileBusy, TypeInv, [Next]_vars, NEW v \in Vaults,
         pc[v] \in BeforeWriting => NotesAmong(dirty) = {}, pc'[v] \in BeforeWriting
  PROVE  NotesAmong(dirty') = {}
<1> USE DEF At, Goto, tree, history, remote, records, stored, locals, bounds, users
<1>0. pc \in [Vaults -> PCs] /\ \A w \in Vaults : w = v
  BY DEF SoleVault, TypeInv, TypeProcess
<1>1. CASE CheckClean(v)
  BY <1>0, <1>1 DEF CheckClean, Clean, NotesAmong, BeforeWriting
<1>2. CASE \/ DedupMiss(v) \/ PullRefused(v) \/ Pull(v) \/ ReadKey(v) \/ LookUp(v) \/ Scan(v)
           \/ EmptyCache(v) \/ FillCache(v) \/ Analyse(v)
  BY <1>0, <1>2 DEF DedupMiss, PullRefused, Pull, ReadKey, LookUp, Scan, EmptyCache, FillCache,
     Analyse, BeforeWriting
<1>3. CASE \/ DedupHit(v) \/ Archive(v) \/ WriteNote(v) \/ Add(v) \/ Commit(v) \/ ReadHead(v)
           \/ SetCommitSha(v) \/ ReAdd(v) \/ Amend(v) \/ ReadAmended(v) \/ Put(v) \/ Push(v)
           \/ Succeed(v) \/ RollBack(v) \/ Undo(v) \/ Fail(v) \/ Fault(v)
           \/ \E j \in Jobs : Start(v, j)
  BY <1>0, <1>3 DEF DedupHit, Archive, WriteNote, Add, Commit, ReadHead, SetCommitSha, ReAdd, Amend,
     ReadAmended, Put, Push, Succeed, RollBack, Undo, Fail, Settle, Fault, StageFails,
     StageInterrupted, StageEscapes, RollBackFails, Start, BeforeWriting
<1>4. ASSUME NEW u \in Schemas, UpdateSchema(u) PROVE NotesAmong(dirty') = {}
  <2>1. dirty' \subseteq dirty \union {SchemaChange(u)} /\ UNCHANGED pc
    BY <1>4 DEF UpdateSchema, WriteSchema, CommitSchema, CommitSchemaFails, Over
  <2>2. NotesAmong({SchemaChange(u)}) = {}
    BY ChangeFiles DEF NotesAmong, SchemaFile
  <2> QED BY <2>1, <2>2 DEF NotesAmong
<1>5. CASE User
  <2>1. UNCHANGED <<pc, phase>>
    BY <1>5 DEF User, UserEdit, UserCommit, UserRevert
  <2>2. phase = "up" /\ pc[v] # "idle"
    BY <2>1 DEF BeforeWriting, TypeInv, LocalsInv
  <2> QED BY <1>5, <2>2 DEF User, UserEdit, UserCommit, UserRevert, Busy
<1>6. CASE OthersPush \/ UNCHANGED vars
  BY <1>6 DEF OthersPush, vars
<1>7. CASE Crash \/ Recovery
  <2>1. pc'[v] = "idle"
    BY <1>0, <1>7 DEF Crash, Recovery, Restart, RecoverInterrupted, Serve, TypeInv, LocalsInv
  <2> QED BY <2>1 DEF BeforeWriting
<1>8. ASSUME NEW w \in Vaults, Stage(w) \/ Fault(w) \/ \E j \in Jobs : Start(w, j)
      PROVE  NotesAmong(dirty') = {}
  <2>1. w = v
    BY <1>0
  <2> QED BY <2>1, <1>8, <1>1, <1>2, <1>3 DEF Stage
<1> QED BY <1>4, <1>5, <1>6, <1>7, <1>8 DEF Next

\* A commit gets an id that no cache was stored for.
LEMMA HeadMoves ==
  ASSUME TypeInv, [Next]_vars
  PROVE  \/ UNCHANGED <<log, nextId, reverted>>
         \/ HEAD'.id = nextId /\ nextId' = nextId + 1
<1>1. ASSUME NEW v \in Vaults, Amend(v) PROVE HEAD'.id = nextId /\ nextId' = nextId + 1
  BY <1>1, AmendReplaces
<1>2. ASSUME NEW by \in Authors, NEW changes \in SUBSET Changes, NewCommit(by, changes)
      PROVE  HEAD'.id = nextId /\ nextId' = nextId + 1
  <2>1. HEAD' = [id |-> nextId, by |-> by, changes |-> changes] /\ nextId' = nextId + 1
    BY <1>2, CommitAppends DEF TypeInv, Authors
  <2> QED BY <2>1
<1>3. ASSUME NEW i \in DOMAIN log, UserRevert(i) PROVE HEAD'.id = nextId /\ nextId' = nextId + 1
  BY <1>2, <1>3 DEF UserRevert, Authors
<1> QED BY <1>1, <1>2, <1>3, HistorySteps DEF Appends

\* What a step does to the cache file, the key and the vocabulary of the worker.
LEMMA CacheSteps ==
  ASSUME SoleVault, TypeInv, [Next]_vars, NEW v \in Vaults
  PROVE  \/ ReadKey(v) \/ LookUp(v) \/ Scan(v) \/ EmptyCache(v) \/ FillCache(v)
         \/ /\ UNCHANGED <<cache, key, vocab>>
            /\ pc'[v] \in Deriving => pc'[v] = pc[v]
         \/ /\ UNCHANGED cache /\ key'[v] \in {key[v], 0} /\ pc'[v] \notin Deriving
<1> USE DEF At, Goto, tree, history, remote, records, stored, locals, bounds, users
<1>0. /\ pc \in [Vaults -> PCs] /\ key \in [Vaults -> Nat] /\ \A w \in Vaults : w = v
  BY DEF SoleVault, TypeInv, TypeProcess
<1>1. CASE \/ CheckClean(v) \/ DedupHit(v) \/ DedupMiss(v) \/ Pull(v) \/ PullRefused(v)
           \/ Analyse(v) \/ Archive(v) \/ WriteNote(v) \/ Add(v) \/ Commit(v)
           \/ ReadHead(v) \/ SetCommitSha(v) \/ ReAdd(v) \/ Amend(v) \/ ReadAmended(v)
           \/ Put(v) \/ Push(v)
  BY <1>0, <1>1 DEF CheckClean, DedupHit, DedupMiss, Pull, PullRefused, Analyse, Archive, WriteNote,
     Add, Commit, ReadHead, SetCommitSha, ReAdd, Amend, ReadAmended, Put, Push, Settle, Deriving
<1>2. CASE \/ Succeed(v) \/ RollBack(v) \/ Undo(v) \/ Fail(v) \/ Fault(v)
           \/ \E j \in Jobs : Start(v, j)
  BY <1>0, <1>2 DEF Succeed, RollBack, Undo, Fail, Settle, Fault, StageFails, StageInterrupted,
     StageEscapes, RollBackFails, Start, Deriving
<1>3. CASE \/ \E u \in Schemas : UpdateSchema(u)
           \/ User \/ OthersPush \/ Recovery \/ UNCHANGED vars
  BY <1>3 DEF UpdateSchema, WriteSchema, CommitSchema, CommitSchemaFails, User, UserEdit,
       UserCommit, UserRevert, OthersPush, Recovery, Restart, RecoverInterrupted, Serve, vars
<1>4. CASE Crash
  BY <1>4 DEF Crash, Deriving
<1>5. ASSUME NEW w \in Vaults, Stage(w) \/ Fault(w) \/ \E j \in Jobs : Start(w, j)
      PROVE  Stage(v) \/ Fault(v) \/ \E j \in Jobs : Start(v, j)
  BY <1>0, <1>5
<1> QED BY <1>1, <1>2, <1>3, <1>4, <1>5 DEF Next, Stage

LEMMA VocabularyKept ==
  ASSUME SoleVault, ~EditWhileBusy, TypeInv, IdsInv, [Next]_vars, NEW v \in Vaults, VocabularyInv(v)
  PROVE  VocabularyInv(v)'
<1> USE DEF At, Goto, tree, history, remote, records, stored, locals, bounds, users
<1>0. /\ pc \in [Vaults -> PCs] /\ key \in [Vaults -> Nat] /\ vocab \in [Vaults -> SUBSET Changes]
      /\ cache \in [Vaults -> CacheFiles] /\ cache[v].head \in Nat
      /\ nextId \in Nat /\ HEAD.id \in Nat /\ HEAD.id < nextId
  BY HistoryTypes DEF TypeInv, TypeProcess, TypeRecords, TypeHistory, CacheFiles, IdsInv
<1>1. pc'[v] \in BeforeWriting => NotesAmong(dirty') = {}
  BY BareKept DEF VocabularyInv
<1>2. pc'[v] \in Deriving => Tags' = Tags
  BY TagsStand
<1>3. UNCHANGED <<log, reverted>> => Tags' = Tags /\ HEAD' = HEAD
  BY DEF Tags, NotesAmong, Committed, HEAD
<1>4. ASSUME ReadKey(v) \/ LookUp(v) \/ Scan(v) PROVE VocabularyInv(v)'
  <2>0. UNCHANGED <<log, nextId, reverted, cache, dirty>> /\ Tags' = Tags /\ HEAD' = HEAD
    BY <1>3, <1>4 DEF ReadKey, LookUp, Scan
  <2>1. CASE ReadKey(v)
    <3>1. key'[v] = HEAD.id /\ pc'[v] = "lookup"
      BY <1>0, <2>1 DEF ReadKey
    <3> QED BY <1>0, <1>1, <2>0, <3>1 DEF VocabularyInv, Fresh
  <2>2. CASE LookUp(v)
    <3>1. /\ key'[v] = key[v] /\ pc'[v] \in {"raised", "analyse", "scan"}
          /\ pc'[v] = "analyse" => Fresh(v) /\ vocab'[v] = cache[v].tags
          /\ pc[v] = "lookup"
      BY <1>0, <2>2 DEF LookUp
    <3> QED BY <1>0, <1>1, <2>0, <3>1 DEF VocabularyInv
  <2>3. CASE Scan(v)
    <3>1. key'[v] = key[v] /\ pc'[v] = "store" /\ vocab'[v] = NotesAmong(Over(Committed, dirty))
          /\ pc[v] = "scan"
      BY <1>0, <2>3 DEF Scan
    <3>2. NotesAmong(dirty) = {}
      BY <3>1 DEF VocabularyInv, BeforeWriting
    <3>3. NotesAmong(Over(Committed, dirty)) = Tags
      BY <3>2 DEF NotesAmong, Over, Tags
    <3> QED BY <1>0, <1>1, <2>0, <3>1, <3>3 DEF VocabularyInv
  <2> QED BY <1>4, <2>1, <2>2, <2>3
<1>5. ASSUME EmptyCache(v) \/ FillCache(v) PROVE VocabularyInv(v)'
  <2>0. /\ UNCHANGED <<log, nextId, reverted, key, vocab, dirty>> /\ Tags' = Tags /\ HEAD' = HEAD
        /\ vocab[v] = Tags
    BY <1>3, <1>5 DEF EmptyCache, FillCache, VocabularyInv
  <2>1. CASE EmptyCache(v)
    <3>1. cache'[v] = CacheFile("torn", 0, {}) /\ pc'[v] = "storing"
      BY <1>0, <2>1 DEF EmptyCache
    <3>2. cache'[v].file = "torn" /\ cache'[v].head = 0
      BY <3>1 DEF CacheFile
    <3> QED BY <1>0, <1>1, <2>0, <3>1, <3>2 DEF VocabularyInv
  <2>2. CASE FillCache(v)
    <3>1. cache'[v] = CacheFile("whole", key[v], vocab[v]) /\ pc'[v] = "analyse"
      BY <1>0, <2>2 DEF FillCache
    <3>2. cache'[v].head = key[v] /\ cache'[v].tags = Tags
      BY <2>0, <3>1 DEF CacheFile
    <3> QED BY <1>0, <1>1, <2>0, <3>1, <3>2 DEF VocabularyInv
  <2> QED BY <1>5, <2>1, <2>2
<1>6. ASSUME UNCHANGED cache, key'[v] \in {key[v], 0},
             pc'[v] \in Deriving => pc'[v] = pc[v] /\ key'[v] = key[v] /\ vocab'[v] = vocab[v]
      PROVE  VocabularyInv(v)'
  <2>1. cache'[v].head < nextId' /\ key'[v] < nextId'
    BY <1>0, <1>6, HeadMoves DEF VocabularyInv
  <2>2. cache'[v].file = "whole" /\ cache'[v].head = HEAD'.id => cache'[v].tags = Tags'
    <3>1. CASE UNCHANGED <<log, nextId, reverted>>
      BY <1>3, <1>6, <3>1 DEF VocabularyInv
    <3>2. CASE HEAD'.id = nextId
      BY <1>0, <1>6, <3>2 DEF VocabularyInv
    <3> QED BY <3>1, <3>2, HeadMoves
  <2>3. pc'[v] = "lookup" /\ Fresh(v)' => cache'[v].tags = Tags'
    BY <1>2, <1>6 DEF VocabularyInv, Fresh, Deriving
  <2>4. pc'[v] \in {"store", "storing", "analyse"} => vocab'[v] = Tags'
    BY <1>2, <1>6 DEF VocabularyInv, Deriving
  <2> QED BY <1>1, <2>1, <2>2, <2>3, <2>4 DEF VocabularyInv
<1> QED BY <1>4, <1>5, <1>6, CacheSteps

\* In a repository of one vault where the user leaves the tree alone during an ingest,
\* the model is given the tags of the notes at HEAD, whether they come from a scan or
\* from the cache (vocabulary.py:93-122, pipeline.py:128-134): the key names what the
\* tags were taken from, whatever pulls, reverts, schema commits and crashes come in
\* between.
THEOREM VocabularyStands ==
  ASSUME SoleVault, ~EditWhileBusy
  PROVE  Spec => []VocabularyIsCurrent
<1> DEFINE Inv == \A v \in Vaults : VocabularyInv(v)
<1>1. Init => Inv
  <2> SUFFICES ASSUME Init, NEW v \in Vaults PROVE VocabularyInv(v)
    OBVIOUS
  <2>1. cache[v].file = "absent" /\ cache[v].head = 0 /\ key[v] = 0 /\ pc[v] = "idle" /\ nextId = 2
    BY DEF Init, CacheFile
  <2> QED BY <2>1 DEF VocabularyInv, BeforeWriting
<1>2. TypeInv /\ IdsInv /\ Inv /\ [Next]_vars => Inv'
  BY VocabularyKept
<1>3. Inv => VocabularyIsCurrent
  BY DEF VocabularyInv, VocabularyIsCurrent, At, Tags
<1> QED BY <1>1, <1>2, <1>3, TypesHold, IdsAlways, PTL DEF Spec

-------------------------------------------------------------------------------
(* What an ingest leaves in the tree.                                        *)

IngestIn(changes) == {c \in changes : c.file \in IngestFiles}

Tidy == IngestIn(dirty) = {} /\ IngestIn(staged) = {}

\* Where the tree holds no file of an ingest, and where the manifest is there to be
\* read once more.
TidyAt == {"idle", "clean"} \union BeforeWriting
            \union {"head", "setsha", "amended", "put", "push", "succeed", "fail", "raised"}
ArchivedAt == {"notes", "add", "commit", "head", "setsha"}

\* The commits take all that the ingest has written.
LeftInv(v) ==
  /\ pc[v] \in {"commit", "amend"} => IngestIn(dirty) \subseteq IngestIn(staged)
  /\ RawArchive /\ pc[v] \in ArchivedAt => Exists(ManifestFile(TextOf[cur[v]]))
  /\ pc[v] = "setsha" => RawArchive

TidyInv ==
  /\ phase = "up" /\ (\A v \in Vaults : pc[v] \in TidyAt) => Tidy
  /\ phase # "up" /\ (\A j \in Jobs : state[j] # "running") => Tidy
  /\ \A v \in Vaults : LeftInv(v)

\* Neither the handlers of update_schema nor the user touch the files of an ingest.
LEMMA IngestUntouched ==
  ASSUME User \/ \E u \in Schemas : UpdateSchema(u)
  PROVE  IngestIn(dirty') = IngestIn(dirty) /\ IngestIn(staged') = IngestIn(staged)
<1> USE DEF tree, history, remote, records, stored, locals, bounds, users
<1>0. /\ \A v : SchemaFile(v) \notin IngestFiles
      /\ \A u : SchemaChange(u).file \notin IngestFiles
      /\ \A e : EditChange(e).file \notin IngestFiles
  BY ChangeFiles, FileKinds DEF IngestFiles
<1>1. ASSUME NEW u \in Schemas, WriteSchema(u)
      PROVE  IngestIn(dirty') = IngestIn(dirty) /\ IngestIn(staged') = IngestIn(staged)
  BY <1>0, <1>1, ChangeFiles DEF IngestIn, Over, WriteSchema
<1>2. ASSUME NEW u \in Schemas, CommitSchema(u) \/ CommitSchemaFails(u)
      PROVE  IngestIn(dirty') = IngestIn(dirty) /\ IngestIn(staged') = IngestIn(staged)
  BY <1>0, <1>2 DEF IngestIn, CommitSchema, CommitSchemaFails
<1>3. CASE User
  BY <1>0, <1>3 DEF IngestIn, User, UserEdit, UserCommit, UserRevert
<1> QED BY <1>1, <1>2, <1>3 DEF UpdateSchema

\* A manifest that is there when the notes are written is there when its commit is
\* recorded in it.
LEMMA ManifestStays ==
  ASSUME SoleVault, TypeInv, IdsInv, [Next]_vars, NEW v \in Vaults, NEW x \in Texts,
         pc[v] \in ArchivedAt, pc'[v] \in ArchivedAt, Exists(ManifestFile(x))
  PROVE  Exists(ManifestFile(x))'
<1> USE DEF At, Goto, tree, history, remote, records, stored, locals, bounds, users
<1>0. pc \in [Vaults -> PCs] /\ \A w \in Vaults : w = v
  BY DEF SoleVault, TypeInv, TypeProcess
<1>1. PICK c \in dirty \union Committed : c.file = ManifestFile(x)
  BY DEF Exists
<1>2. ASSUME \/ UNCHANGED <<log, reverted>>
             \/ \E by \in Authors, changes \in SUBSET Changes :
                  NewCommit(by, changes) /\ UNCHANGED reverted
      PROVE  Committed \subseteq Committed'
  <2>1. CASE UNCHANGED <<log, reverted>>
    BY <2>1 DEF Committed
  <2> QED BY <1>2, <2>1, CommittedGrows
<1>3. ASSUME UNCHANGED <<log, reverted>>, c \in dirty => c \in dirty' PROVE Exists(ManifestFile(x))'
  BY <1>1, <1>2, <1>3 DEF Exists
<1>4. CASE WriteNote(v)
  <2>1. NoteChange(cur[v], written[v] + 1).file # c.file
    BY <1>1, ChangeFiles, FileKinds
  <2> QED BY <1>3, <1>4, <2>1 DEF WriteNote, Over
<1>5. CASE Add(v) \/ ReadHead(v)
  BY <1>3, <1>5 DEF Add, ReadHead, StageAll
<1>6. CASE Commit(v)
  <2>1. /\ NewCommit(cur[v], staged) /\ UNCHANGED reverted /\ dirty' = dirty \ staged
        /\ cur[v] \in Authors /\ staged \in SUBSET Changes
    BY <1>0, <1>6 DEF Commit, ArchivedAt, TypeInv, LocalsInv, TypeTree, Authors
  <2>2. Committed' = Committed \union staged
    BY <2>1, CommittedGrows
  <2> QED BY <1>1, <2>1, <2>2 DEF Exists
<1>7. CASE \/ CheckClean(v) \/ DedupHit(v) \/ DedupMiss(v) \/ Pull(v) \/ PullRefused(v)
           \/ ReadKey(v) \/ LookUp(v) \/ Scan(v) \/ EmptyCache(v) \/ FillCache(v)
           \/ Analyse(v) \/ Archive(v)
           \/ SetCommitSha(v) \/ ReAdd(v) \/ Amend(v) \/ ReadAmended(v)
           \/ Put(v) \/ Push(v) \/ Succeed(v)
           \/ RollBack(v) \/ Undo(v) \/ Fail(v) \/ Fault(v) \/ \E j \in Jobs : Start(v, j)
  BY <1>0, <1>7
     DEF ArchivedAt, CheckClean, DedupHit, DedupMiss, Pull, PullRefused, ReadKey, LookUp, Scan,
         EmptyCache, FillCache, Analyse, Archive, SetCommitSha, ReAdd, Amend, ReadAmended, Put, Push,
         Succeed, RollBack, Undo, Fail, Settle, Fault, StageFails, StageInterrupted, StageEscapes,
         RollBackFails, Start
<1>8. ASSUME NEW u \in Schemas, UpdateSchema(u) PROVE Exists(ManifestFile(x))'
  <2> DEFINE here == {d \in dirty : d.file = SchemaFile(SchemaVault[u])}
  <2>1. SchemaChange(u).file # c.file /\ c \notin here
    BY <1>1, ChangeFiles, FileKinds
  <2>2. CASE UNCHANGED <<log, nextId>>
    BY <1>3, <1>8, <2>1, <2>2
       DEF UpdateSchema, WriteSchema, CommitSchema, CommitSchemaFails, Over, NewCommit
  <2>3. CASE ~UNCHANGED <<log, nextId>>
    <3>1. NewCommit(u, here) /\ here \in SUBSET Changes /\ UNCHANGED reverted /\ dirty' = dirty \ here
      BY <1>8, <2>3 DEF UpdateSchema, WriteSchema, CommitSchema, CommitSchemaFails, TypeInv, TypeTree
    <3> HIDE DEF here
    <3>2. Committed \subseteq Committed'
      BY <1>2, <3>1 DEF Authors
    <3> QED BY <1>1, <2>1, <3>1, <3>2 DEF Exists
  <2> QED BY <2>2, <2>3
<1>9. CASE User
  <2>1. UNCHANGED <<pc, phase>>
    BY <1>9 DEF User, UserEdit, UserCommit, UserRevert
  <2>2. phase = "up" /\ pc[v] # "idle"
    BY <2>1 DEF ArchivedAt, TypeInv, LocalsInv
  <2>3. \E e \in Edits : UserEdit(e)
    BY <1>9, <2>2 DEF User, UserCommit, UserRevert, Busy
  <2> QED BY <1>3, <2>3 DEF UserEdit
<1>10. CASE OthersPush \/ UNCHANGED vars
  BY <1>3, <1>10 DEF OthersPush, vars
<1>11. CASE Crash \/ Recovery
  <2>1. pc'[v] = "idle"
    BY <1>0, <1>11 DEF Crash, Recovery, Restart, RecoverInterrupted, Serve, TypeInv, LocalsInv
  <2> QED BY <2>1 DEF ArchivedAt
<1>12. ASSUME NEW w \in Vaults, Stage(w) \/ Fault(w) \/ \E j \in Jobs : Start(w, j)
       PROVE  Stage(v) \/ Fault(v) \/ \E j \in Jobs : Start(v, j)
  BY <1>0, <1>12
<1> QED BY <1>4, <1>5, <1>6, <1>7, <1>8, <1>9, <1>10, <1>11, <1>12 DEF Next, Stage

\* Only an ingest's own steps put files of an ingest into the tree, and where the
\* rollback is complete no step that leaves them there ends the ingest.
LEMMA TidyStage ==
  ASSUME SoleVault, MaxEscaping = 0, ~RollbackMayFail, TypeInv, TidyInv, NEW v \in Vaults,
         Stage(v) \/ Fault(v) \/ \E j \in Jobs : Start(v, j), pc'[v] \in TidyAt
  PROVE  Tidy'
<1> USE DEF At, Goto, tree, history, remote, records, stored, locals, bounds, users
<1>0. pc \in [Vaults -> PCs] /\ \A w \in Vaults : w = v
  BY DEF SoleVault, TypeInv, TypeProcess
<1>1. ASSUME pc[v] \in TidyAt, phase = "up", UNCHANGED <<dirty, staged>> PROVE Tidy'
  BY <1>0, <1>1 DEF TidyInv, Tidy, IngestIn
<1>2. CASE \/ CheckClean(v) \/ DedupHit(v) \/ DedupMiss(v) \/ Pull(v) \/ PullRefused(v)
           \/ ReadKey(v) \/ LookUp(v) \/ Scan(v) \/ EmptyCache(v) \/ FillCache(v) \/ Analyse(v)
           \/ ReadHead(v) \/ ReadAmended(v) \/ Put(v) \/ Push(v) \/ Succeed(v) \/ Fail(v)
           \/ \E j \in Jobs : Start(v, j)
  BY <1>1, <1>2
     DEF TidyAt, BeforeWriting, CheckClean, DedupHit, DedupMiss, Pull, PullRefused, ReadKey, LookUp,
         Scan, EmptyCache, FillCache, Analyse, ReadHead, ReadAmended, Put, Push, Succeed, Fail, Start
<1>3. CASE \/ Archive(v) \/ WriteNote(v) \/ Add(v) \/ ReAdd(v) \/ StageFails(v)
           \/ StageInterrupted(v)
  BY <1>0, <1>3
     DEF TidyAt, BeforeWriting, Archive, WriteNote, Add, ReAdd, StageFails, StageInterrupted
<1>4. CASE SetCommitSha(v)
  <2>1. Exists(ManifestFile(TextOf[cur[v]]))
    BY <1>4 DEF SetCommitSha, TidyInv, LeftInv, ArchivedAt
  <2> QED BY <1>0, <1>4, <2>1 DEF SetCommitSha, TidyAt, BeforeWriting
<1>5. CASE Commit(v) \/ Amend(v)
  <2>1. IngestIn(dirty) \subseteq IngestIn(staged)
    BY <1>5 DEF Commit, Amend, TidyInv, LeftInv
  <2>2. dirty' = dirty \ staged /\ staged' = {}
    BY <1>0, <1>5 DEF Commit, Amend, TidyAt, BeforeWriting
  <2> QED BY <2>1, <2>2 DEF Tidy, IngestIn
<1>6. CASE RollBack(v) \/ Undo(v)
  BY <1>6 DEF RollBack, Undo, Rollback, Tidy, IngestIn
<1>7. ~StageEscapes(v) /\ ~RollBackFails(v)
  BY DEF StageEscapes, RollBackFails, RollbackStops, TypeInv, TypeBounds
<1> QED BY <1>2, <1>3, <1>4, <1>5, <1>6, <1>7 DEF Stage, Fault

LEMMA LeftKept ==
  ASSUME SoleVault, TypeInv, IdsInv, TidyInv, [Next]_vars, NEW v \in Vaults
  PROVE  LeftInv(v)'
<1> USE DEF At, Goto, tree, history, remote, records, stored, locals, bounds, users
<1>0. pc \in [Vaults -> PCs] /\ LeftInv(v) /\ \A w \in Vaults : w = v
  BY DEF SoleVault, TypeInv, TypeProcess, TidyInv
<1> DEFINE Moves == Stage(v) \/ Fault(v) \/ \E j \in Jobs : Start(v, j)
           Stands == \/ UNCHANGED <<pc, cur>> /\ (User \/ \E u \in Schemas : UpdateSchema(u))
                     \/ UNCHANGED <<pc, cur, dirty, staged>>
                     \/ pc'[v] = "idle"
<1>1. Moves \/ Stands
  <2>1. ASSUME NEW w \in Vaults, Stage(w) \/ Fault(w) \/ \E j \in Jobs : Start(w, j) PROVE Moves
    BY <1>0, <2>1
  <2>2. CASE User \/ \E u \in Schemas : UpdateSchema(u)
    BY <2>2 DEF User, UserEdit, UserCommit, UserRevert, UpdateSchema, WriteSchema, CommitSchema,
       CommitSchemaFails
  <2>3. CASE OthersPush \/ UNCHANGED vars
    BY <2>3 DEF OthersPush, vars
  <2>4. CASE Crash \/ Recovery
    BY <1>0, <2>4 DEF Crash, Recovery, Restart, RecoverInterrupted, Serve, TypeInv, LocalsInv
  <2> QED BY <2>1, <2>2, <2>3, <2>4 DEF Next
<1>2. ASSUME Stands PROVE \/ UNCHANGED <<pc, cur>> /\ IngestIn(dirty') = IngestIn(dirty)
                                                  /\ IngestIn(staged') = IngestIn(staged)
                          \/ pc'[v] = "idle"
  BY <1>2, IngestUntouched DEF IngestIn
<1>3. ASSUME Moves, pc'[v] \in {"commit", "amend"} PROVE Add(v) \/ ReAdd(v)
  BY <1>0, <1>3
     DEF Stage, Fault, CheckClean, DedupHit, DedupMiss, Pull, PullRefused, ReadKey, LookUp, Scan,
         EmptyCache, FillCache, Analyse, Archive, WriteNote, Commit, ReadHead, SetCommitSha, Amend,
         ReadAmended, Put, Push, Succeed, RollBack, Undo, Fail, Settle, StageFails,
         StageInterrupted, StageEscapes, RollBackFails, Start
<1>4. ASSUME pc'[v] \in {"commit", "amend"} PROVE IngestIn(dirty') \subseteq IngestIn(staged')
  <2>1. CASE Add(v) \/ ReAdd(v)
    BY <2>1 DEF Add, ReAdd, StageAll, IngestIn
  <2>2. CASE Stands
    BY <1>0, <1>2, <1>4, <2>2 DEF LeftInv
  <2> QED BY <1>1, <1>3, <1>4, <2>1, <2>2
<1>5. ASSUME Moves, pc'[v] \in ArchivedAt
      PROVE  /\ cur'[v] = cur[v] /\ (pc[v] \in ArchivedAt \/ Archive(v))
             /\ pc'[v] = "setsha" => RawArchive
  BY <1>0, <1>5
     DEF ArchivedAt, Stage, Fault, CheckClean, DedupHit, DedupMiss, Pull, PullRefused, ReadKey, LookUp,
         Scan, EmptyCache, FillCache, Analyse, Archive, WriteNote, Add, Commit, ReadHead, SetCommitSha,
         ReAdd, Amend, ReadAmended, Put, Push, Succeed, RollBack, Undo, Fail, Settle, StageFails,
         StageInterrupted, StageEscapes, RollBackFails, Start
<1>6. ASSUME pc'[v] \in ArchivedAt
      PROVE  /\ cur'[v] = cur[v] /\ (pc[v] \in ArchivedAt \/ Archive(v))
             /\ pc'[v] = "setsha" => RawArchive
  <2>1. CASE Stands
    BY <1>0, <1>2, <1>6, <2>1 DEF LeftInv, ArchivedAt
  <2> QED BY <1>1, <1>5, <1>6, <2>1
<1>7. ASSUME RawArchive, pc'[v] \in ArchivedAt, NEW x \in Texts, x = TextOf[cur[v]]
      PROVE  Exists(ManifestFile(x))'
  <2>1. CASE Archive(v)
    <3>1. dirty' = dirty \union ArchiveWrites(v) /\ UNCHANGED <<log, reverted>>
      BY <1>7, <2>1 DEF Archive
    <3>2. Committed' = Committed
      BY <3>1 DEF Committed
    <3>3. CASE Exists(ManifestFile(x))
      BY <3>1, <3>2, <3>3 DEF Exists
    <3>4. CASE ~Exists(ManifestFile(x))
      <4>1. ManifestChange(x, 0).file = ManifestFile(x)
        BY ChangeFiles
      <4>2. ManifestChange(x, 0) \in ArchiveWrites(v)
        BY <1>7, <3>4, <4>1 DEF ArchiveWrites
      <4> QED BY <3>1, <4>1, <4>2 DEF Exists
    <3> QED BY <3>3, <3>4
  <2>2. CASE pc[v] \in ArchivedAt
    <3>1. Exists(ManifestFile(x))
      BY <1>0, <1>7, <2>2 DEF LeftInv
    <3> QED BY <1>7, <2>2, <3>1, ManifestStays
  <2> QED BY <1>6, <1>7, <2>1, <2>2
<1>8. ASSUME RawArchive, pc'[v] \in ArchivedAt
      PROVE  \E c \in dirty' \union Committed' : c.file = ManifestFile(TextOf[cur'[v]])
  <2>1. cur'[v] = cur[v] /\ cur[v] \in Jobs /\ TextOf[cur[v]] \in Texts
    BY <1>6, <1>8, PipelineAssumption DEF TypeInv, LocalsInv, ArchivedAt, Archive
  <2> QED BY <1>7, <1>8, <2>1 DEF Exists
<1>9. pc'[v] = "setsha" => RawArchive
  BY <1>6 DEF ArchivedAt
<1> QED BY <1>4, <1>8, <1>9 DEF LeftInv, Exists

LEMMA TidyKept ==
  ASSUME SoleVault, MaxEscaping = 0, ~RollbackMayFail, TypeInv, IdsInv, TidyInv, [Next]_vars
  PROVE  TidyInv'
<1> USE DEF tree, history, remote, records, stored, locals, bounds, users
<1>0. /\ pc \in [Vaults -> PCs]
      /\ \A v \in Vaults : pc[v] # "idle" => cur[v] \in Jobs /\ state[cur[v]] = "running"
      /\ \A v \in Vaults : pc[v] # "idle" => phase = "up"
      /\ "idle" \in TidyAt
  BY DEF TypeInv, TypeProcess, LocalsInv, TidyAt
<1>1. \A v \in Vaults : LeftInv(v)'
  BY LeftKept
<1>2. ASSUME IngestIn(dirty') = IngestIn(dirty), IngestIn(staged') = IngestIn(staged)
      PROVE  Tidy => Tidy'
  BY <1>2 DEF Tidy, IngestIn
<1>3. ASSUME NEW v \in Vaults, Stage(v) \/ Fault(v) \/ \E j \in Jobs : Start(v, j)
      PROVE  TidyInv'
  <2>1. phase = "up" /\ phase' = "up"
    BY <1>3
       DEF At, Stage, Fault, CheckClean, DedupHit, DedupMiss, Pull, PullRefused, ReadKey, LookUp,
           Scan, EmptyCache, FillCache, Analyse, Archive, WriteNote, Add, Commit, ReadHead,
           SetCommitSha, ReAdd, Amend, ReadAmended, Put, Push, Succeed, RollBack, Undo, Fail,
           StageFails, StageInterrupted, StageEscapes, RollBackFails, Start
  <2>2. (\A w \in Vaults : pc'[w] \in TidyAt) => Tidy'
    BY <1>3, TidyStage
  <2> QED BY <1>1, <2>1, <2>2 DEF TidyInv
<1>4. CASE User \/ (\E u \in Schemas : UpdateSchema(u)) \/ OthersPush \/ UNCHANGED vars
  <2>1. UNCHANGED <<pc, phase, state>>
    BY <1>4 DEF User, UserEdit, UserCommit, UserRevert, UpdateSchema, WriteSchema, CommitSchema,
       CommitSchemaFails, OthersPush, vars
  <2>2. IngestIn(dirty') = IngestIn(dirty) /\ IngestIn(staged') = IngestIn(staged)
    <3>1. CASE OthersPush \/ UNCHANGED vars
      BY <3>1 DEF OthersPush, vars, IngestIn
    <3> QED BY <1>4, <3>1, IngestUntouched
  <2> QED BY <1>1, <1>2, <2>1, <2>2 DEF TidyInv
<1>5. CASE Crash
  <2>1. phase' = "down" /\ UNCHANGED <<dirty, staged, state>>
    BY <1>5 DEF Crash
  <2>2. ASSUME \A j \in Jobs : state[j] # "running" PROVE Tidy
    <3>1. \A v \in Vaults : pc[v] = "idle"
      BY <1>0, <2>2
    <3> QED BY <1>0, <2>2, <3>1 DEF TidyInv, TypeInv, TypeProcess
  <2> QED BY <1>1, <1>2, <2>1, <2>2 DEF TidyInv
<1>6. CASE Restart
  BY <1>1, <1>2, <1>6 DEF Restart, TidyInv
<1>7. ASSUME NEW j \in Jobs, RecoverInterrupted(j) PROVE TidyInv'
  <2>1. phase = "recovering" /\ phase' = "recovering"
    BY <1>7 DEF RecoverInterrupted
  <2>2. dirty' = {} /\ staged' = {}
    BY <1>7 DEF RecoverInterrupted, Clean, Rollback, RollbackStops
  <2> QED BY <1>1, <2>1, <2>2 DEF TidyInv, Tidy, IngestIn
<1>8. CASE Serve
  <2>1. phase = "recovering" /\ (\A j \in Jobs : state[j] # "running") /\ phase' = "up"
        /\ UNCHANGED <<dirty, staged>>
    BY <1>8 DEF Serve
  <2> QED BY <1>1, <1>2, <2>1 DEF TidyInv
<1> QED BY <1>3, <1>4, <1>5, <1>6, <1>7, <1>8 DEF Next, Recovery

\* In a repository of one vault, and as long as every failure is a GroundtruthError and
\* git's reset and clean work, an ingest that is over, by success, failure or recovery
\* from a crash, has left no note, text or manifest in the working tree or in git's
\* index (pipeline.py:233-241, recovery.py:77-85): what the next clean-tree check
\* refuses is the user's or a schema.md.  Neither of the last two hypotheses can go: an
\* OSError, which no except clause of run is for, leaves what its stage wrote, and so
\* does a rollback that stops half way.
THEOREM NothingStays ==
  ASSUME SoleVault, MaxEscaping = 0, ~RollbackMayFail
  PROVE  Spec => []NothingLeftBehind
<1>1. Init => TidyInv
  BY DEF Init, TidyInv, Tidy, IngestIn, LeftInv, ArchivedAt
<1>2. TypeInv /\ IdsInv /\ TidyInv /\ [Next]_vars => TidyInv'
  BY TidyKept
<1>3. TidyInv => NothingLeftBehind
  BY DEF TidyInv, Tidy, IngestIn, TidyAt, NothingLeftBehind
<1> QED BY <1>1, <1>2, <1>3, TypesHold, IdsAlways, PTL DEF Spec

===============================================================================
