---------------------------- MODULE JobQueueProofs ----------------------------
(***************************************************************************)
(* Proofs about JobQueue, for every number of jobs, vaults, threads,       *)
(* crashes and failing writes: its types, who works on what, and where a   *)
(* job is.  Between its submission and its outcome a job is in exactly one *)
(* place (its handler, its vault's deque, a worker), and its record, its   *)
(* event and its result say what that place allows.                        *)
(***************************************************************************)
EXTENDS JobQueue, TLAPS

-------------------------------------------------------------------------------
(* The operators the actions share.                                          *)

\* JobStore writes keep the types of the stored records.
LEMMA WrittenType ==
  ASSUME TypeOK, NEW j \in Jobs, NEW state \in JobStates, NEW why \in Stages,
         Written(j, state, why)
  PROVE  /\ disk' \in [Jobs -> JobStates \union {"none", "unreadable"}]
         /\ stage' \in [Jobs -> Stages]
         /\ faults' \in Nat
BY DEF TypeOK, Written

LEMMA RefusedType ==
  ASSUME TypeOK, NEW legal, Refused(legal)
  PROVE  /\ disk' \in [Jobs -> JobStates \union {"none", "unreadable"}]
         /\ stage' \in [Jobs -> Stages]
         /\ faults' \in Nat
BY DEF TypeOK, Refused, store

LEMMA GotoType ==
  ASSUME TypeOK, NEW t \in Threads, NEW to \in PCs, NEW with \in RunOutcomes,
         Goto(t, to, with)
  PROVE  /\ pc' \in [Threads -> PCs]
         /\ outcome' \in [Threads -> RunOutcomes]
         /\ serves' = serves /\ job' = job /\ attempt' = attempt
         /\ phase' = phase /\ todo' = todo /\ handler' = handler
         /\ pending' = pending /\ running' = running /\ workers' = workers
         /\ event' = event /\ results' = results /\ stopping' = stopping
         /\ stopper' = stopper /\ drain' = drain /\ joining' = joining /\ owed' = owed
         /\ crashes' = crashes /\ damage' = damage /\ order' = order
BY DEF TypeOK, Goto, locals, process, queue, shutdownVars

\* submit keeps the types of the queue, whether or not it starts a thread.
LEMMA EnqueueType ==
  ASSUME TypeOK, NEW v \in Vaults, NEW j \in Jobs, Enqueue(v, j)
  PROVE  /\ pending' \in [Vaults -> Seq(Jobs)]
         /\ running' \in [Vaults -> Jobs \union {NoJob}]
         /\ workers' \in [Vaults -> Threads \union {NoThread}]
         /\ event' \in [Jobs -> {"none", "clear", "set"}]
         /\ results' \in [Jobs -> {"none", "succeeded", "failed"}]
         /\ stopping' \in BOOLEAN
         /\ pc' \in [Threads -> PCs]
         /\ serves' \in [Threads -> Vaults \union {NoVault}]
         /\ job' \in [Threads -> Jobs \union {NoJob}]
         /\ attempt' \in [Threads -> Nat]
         /\ outcome' \in [Threads -> RunOutcomes]
         /\ order' \in [Vaults -> Seq(Jobs)]
<1>1. pending' \in [Vaults -> Seq(Jobs)] /\ event' \in [Jobs -> {"none", "clear", "set"}]
  BY DEF TypeOK, Enqueue
<1>2. order' \in [Vaults -> Seq(Jobs)]
  BY DEF TypeOK, Enqueue
<1>3. /\ workers' \in [Vaults -> Threads \union {NoThread}]
      /\ pc' \in [Threads -> PCs]
      /\ serves' \in [Threads -> Vaults \union {NoVault}]
      /\ job' = job /\ attempt' = attempt /\ outcome' = outcome
  <2>1. CASE NeedsWorker(v)
    <3>1. PICK t \in Threads :
            /\ workers' = [workers EXCEPT ![v] = t]
            /\ pc' = [pc EXCEPT ![t] = "loop"]
            /\ serves' = [serves EXCEPT ![t] = v]
            /\ UNCHANGED <<job, attempt, outcome>>
      BY <2>1 DEF Enqueue, EnsureWorker
    <3>2. QED BY <3>1 DEF TypeOK, PCs
  <2>2. CASE ~NeedsWorker(v)
    BY <2>2 DEF TypeOK, Enqueue, EnsureWorker, threads
  <2>3. QED BY <2>1, <2>2
<1>4. QED BY <1>1, <1>2, <1>3 DEF TypeOK, Enqueue

-------------------------------------------------------------------------------
(* Type correctness.                                                         *)

LEMMA TypeInit == Init => TypeOK
<1>. SUFFICES ASSUME Init PROVE TypeOK
  OBVIOUS
<1>1. /\ disk \in [Jobs -> JobStates \union {"none", "unreadable"}]
      /\ stage \in [Jobs -> Stages] /\ handler \in [Jobs -> HandlerStates]
      /\ event \in [Jobs -> {"none", "clear", "set"}]
      /\ results \in [Jobs -> {"none", "succeeded", "failed"}]
  BY DEF Init, Stages, HandlerStates
<1>2. /\ pending \in [Vaults -> Seq(Jobs)] /\ order \in [Vaults -> Seq(Jobs)]
  BY DEF Init
<1>3. /\ pc \in [Threads -> PCs] /\ serves \in [Threads -> Vaults \union {NoVault}]
      /\ job \in [Threads -> Jobs \union {NoJob}] /\ attempt \in [Threads -> Nat]
      /\ outcome \in [Threads -> RunOutcomes]
  BY DEF Init, PCs, RunOutcomes
<1>4. QED BY <1>1, <1>2, <1>3 DEF Init, TypeOK

LEMMA TypeHandler ==
  ASSUME TypeOK, NEW j \in Jobs, Handler(j)
  PROVE  TypeOK'
<1>. USE DEF store, process, services, queue, threads, shutdownVars, bounds
<1>1. CASE Create(j)
  BY <1>1 DEF TypeOK, Create, JobStates, HandlerStates
<1>2. CASE Register(j)
  BY <1>2 DEF TypeOK, Register, HandlerStates
<1>3. CASE Submit(j)
  <2>1. Enqueue(VaultOf[j], j) /\ VaultOf[j] \in Vaults
    BY <1>3, ConstantsAssumption DEF Submit
  <2>2. handler' \in [Jobs -> HandlerStates]
    BY <1>3 DEF TypeOK, Submit, HandlerStates
  <2>3. QED BY <1>3, <2>1, <2>2, EnqueueType DEF TypeOK, Submit
<1>4. CASE SubmitRefused(j)
  BY <1>4 DEF TypeOK, SubmitRefused, HandlerStates
<1>5. CASE WaitEnds(j)
  BY <1>5 DEF TypeOK, WaitEnds, HandlerStates
<1>6. QED BY <1>1, <1>2, <1>3, <1>4, <1>5 DEF Handler

LEMMA TypeRecover ==
  ASSUME TypeOK, NEW j \in Jobs, Recover(j)
  PROVE  TypeOK'
<1>. USE DEF store, process, services, queue, threads, shutdownVars, bounds
<1>1. CASE RecoverUnreadable(j)
  BY <1>1 DEF TypeOK, RecoverUnreadable
<1>2. CASE RecoverSkip(j)
  BY <1>2 DEF TypeOK, RecoverSkip
<1>3. CASE RecoverInterrupted(j)
  BY <1>3, WrittenType DEF TypeOK, RecoverInterrupted, JobStates, Stages
<1>4. CASE RecoverQueued(j)
  <2>1. Enqueue(VaultOf[j], j) /\ VaultOf[j] \in Vaults
    BY <1>4, ConstantsAssumption DEF RecoverQueued
  <2>2. QED BY <1>4, <2>1, EnqueueType DEF TypeOK, RecoverQueued
<1>5. QED BY <1>1, <1>2, <1>3, <1>4 DEF Recover

LEMMA TypeWorker ==
  ASSUME TypeOK, WorkerInv, NEW t \in Threads, Worker(t)
  PROVE  TypeOK'
<1>. USE DEF store, process, services, queue, threads, shutdownVars, bounds
<1>. DEFINE j == job[t]
            v == serves[t]
<1>a. pc[t] # "dead" => v \in Vaults
  BY DEF WorkerInv, Alive
<1>b. pc[t] \notin {"dead", "loop"} => j \in Jobs
  BY DEF WorkerInv
<1>1. CASE Exit(t)
  BY <1>1 DEF TypeOK, Exit, PCs
<1>2. CASE Take(t)
  <2>1. v \in Vaults /\ pending[v] \in Seq(Jobs) /\ pending[v] # <<>>
    BY <1>2, <1>a DEF TypeOK, Take, NothingToDo
  <2>2. Popped(pending[v]).head \in Jobs /\ Popped(pending[v]).rest \in Seq(Jobs)
    BY <2>1 DEF Popped
  <2>3. QED BY <1>2, <2>1, <2>2 DEF TypeOK, Take, PCs
<1>3. CASE Orphan(t)
  <2>1. j \in Jobs
    BY <1>3, <1>b DEF Orphan
  <2>2. UNCHANGED request
    BY <1>3 DEF Orphan
  <2>3. CASE UNCHANGED <<store, faults>> /\ Goto(t, "annotate", "failed")
    BY <2>2, <2>3, GotoType DEF TypeOK, PCs, RunOutcomes
  <2>4. CASE Written(j, "failed", "restart") /\ Goto(t, "annotate", "failed")
    BY <2>1, <2>2, <2>4, WrittenType, GotoType DEF TypeOK, PCs, RunOutcomes, JobStates, Stages
  <2>5. CASE Refused(CanForceFailed(disk[j])) /\ Goto(t, "retry", "terminal")
    BY <2>2, <2>5, RefusedType, GotoType DEF TypeOK, PCs, RunOutcomes
  <2>6. QED BY <1>3, <2>3, <2>4, <2>5 DEF Orphan
<1>4. CASE BadConfig(t)
  BY <1>4, GotoType DEF TypeOK, BadConfig, PCs, RunOutcomes
<1>5. CASE Begin(t)
  <2>. DEFINE legal == disk[j] \in JobStates /\ CanTransition(disk[j], "running")
  <2>1. j \in Jobs
    BY <1>5, <1>b DEF Begin
  <2>2. CASE Written(j, "running", "none") /\ Goto(t, "ingest", "none") /\ UNCHANGED request
    BY <2>1, <2>2, WrittenType, GotoType DEF TypeOK, PCs, RunOutcomes, JobStates, Stages
  <2>3. CASE Refused(legal) /\ Goto(t, "retry", "terminal") /\ request' = request \ {j}
    BY <2>3, RefusedType, GotoType DEF TypeOK, PCs, RunOutcomes
  <2>4. QED BY <1>5, <2>2, <2>3 DEF Begin
<1>6. CASE Ingest(t)
  <2>1. j \in Jobs
    BY <1>6, <1>b DEF Ingest
  <2>2. request' \in SUBSET Jobs
    BY <1>6 DEF TypeOK, Ingest, RequestsAfterRun
  <2>3. CASE Written(j, "succeeded", "none") /\ Goto(t, "annotate", "succeeded")
    BY <2>1, <2>2, <2>3, WrittenType, GotoType DEF TypeOK, PCs, RunOutcomes, JobStates, Stages
  <2>4. CASE Written(j, "failed", "pipeline") /\ Goto(t, "annotate", "failed")
    BY <2>1, <2>2, <2>4, WrittenType, GotoType DEF TypeOK, PCs, RunOutcomes, JobStates, Stages
  <2>5. ASSUME NEW raised \in {"transient", "terminal"},
               UNCHANGED <<store, faults>> /\ Goto(t, "retry", raised)
        PROVE  TypeOK'
    BY <2>2, <2>5, GotoType DEF TypeOK, PCs, RunOutcomes
  <2>6. QED BY <1>6, <2>3, <2>4, <2>5 DEF Ingest
<1>7. CASE Retry(t)
  BY <1>7 DEF TypeOK, Retry, PCs
<1>8. CASE GiveUp(t)
  <2>1. outcome[t] \in RunOutcomes
    BY DEF TypeOK
  <2>2. QED BY <1>8, <2>1, GotoType DEF TypeOK, GiveUp, PCs
<1>9. CASE Annotate(t)
  <2>1. /\ j \in Jobs /\ outcome[t] \in JobStates /\ outcome[t] \in RunOutcomes
        /\ stage[j] \in Stages
    BY <1>9, <1>b DEF TypeOK, WorkerInv, Annotate, TERMINAL_JOB_STATES, JobStates
  <2>2. UNCHANGED request
    BY <1>9 DEF Annotate
  <2>3. CASE Written(j, outcome[t], stage[j]) /\ Goto(t, "finish", outcome[t])
    BY <2>1, <2>2, <2>3, WrittenType, GotoType DEF TypeOK, PCs
  <2>4. CASE Refused(MayUpdate(disk[j], outcome[t])) /\ Goto(t, "force", "terminal")
    BY <2>2, <2>4, RefusedType, GotoType DEF TypeOK, PCs, RunOutcomes
  <2>5. QED BY <1>9, <2>3, <2>4 DEF Annotate
<1>10. CASE Exhaust(t)
  <2>1. j \in Jobs /\ UNCHANGED request
    BY <1>10, <1>b DEF Exhaust
  <2>2. CASE Written(j, "failed", "retry-exhausted") /\ Goto(t, "finish", "failed")
    BY <2>1, <2>2, WrittenType, GotoType DEF TypeOK, PCs, RunOutcomes, JobStates, Stages
  <2>3. CASE Refused(CanForceFailed(disk[j])) /\ Goto(t, "force", "terminal")
    BY <2>1, <2>3, RefusedType, GotoType DEF TypeOK, PCs, RunOutcomes
  <2>4. QED BY <1>10, <2>2, <2>3 DEF Exhaust
<1>11. CASE ForceFail(t)
  <2>1. j \in Jobs /\ UNCHANGED request
    BY <1>11, <1>b DEF ForceFail
  <2>2. CASE Written(j, "failed", "worker") /\ Goto(t, "finish", "failed")
    BY <2>1, <2>2, WrittenType, GotoType DEF TypeOK, PCs, RunOutcomes, JobStates, Stages
  <2>3. CASE Refused(CanForceFailed(disk[j])) /\ Goto(t, "dying", "terminal")
    BY <2>1, <2>3, RefusedType, GotoType DEF TypeOK, PCs, RunOutcomes
  <2>4. QED BY <1>11, <2>2, <2>3 DEF ForceFail
<1>12. CASE Die(t)
  BY <1>12 DEF TypeOK, Die, PCs, RunOutcomes
<1>13. CASE Finish(t)
  <2>1. outcome[t] \in {"succeeded", "failed"}
    BY <1>13 DEF WorkerInv, Finish, TERMINAL_JOB_STATES
  <2>2. QED BY <1>13, <2>1 DEF TypeOK, Finish, PCs, locals
<1>14. CASE Signal(t)
  BY <1>14 DEF TypeOK, Signal, PCs, RunOutcomes
<1>15. QED
  BY <1>1, <1>2, <1>3, <1>4, <1>5, <1>6, <1>7, <1>8, <1>9, <1>10, <1>11, <1>12, <1>13, <1>14
  DEF Worker

LEMMA TypeProcess ==
  ASSUME TypeOK, Stop \/ Crash \/ Restart \/ Serve \/ \E j \in Jobs : Damage(j)
  PROVE  TypeOK'
<1>. USE DEF store, process, services, queue, threads, shutdownVars, bounds
<1>1. CASE Shutdown
  BY <1>1 DEF TypeOK, Shutdown
<1>2. CASE Snapshot
  BY <1>2 DEF TypeOK, Snapshot, WorkersOnFile
<1>3. ASSUME NEW t \in Threads, Join(t) PROVE TypeOK'
  BY <1>3 DEF TypeOK, Join
<1>4. CASE ShutdownReturns
  BY <1>4 DEF TypeOK, ShutdownReturns
<1>5. CASE Crash
  <2>1. /\ handler' \in [Jobs -> HandlerStates]
        /\ event' \in [Jobs -> {"none", "clear", "set"}]
        /\ results' \in [Jobs -> {"none", "succeeded", "failed"}]
    BY <1>5 DEF TypeOK, Crash, HandlerStates
  <2>2. pending' \in [Vaults -> Seq(Jobs)]
    BY <1>5 DEF Crash
  <2>3. /\ pc' \in [Threads -> PCs] /\ serves' \in [Threads -> Vaults \union {NoVault}]
        /\ job' \in [Threads -> Jobs \union {NoJob}] /\ attempt' \in [Threads -> Nat]
        /\ outcome' \in [Threads -> RunOutcomes]
    BY <1>5 DEF Crash, PCs, RunOutcomes
  <2>4. /\ running' \in [Vaults -> Jobs \union {NoJob}]
        /\ workers' \in [Vaults -> Threads \union {NoThread}]
        /\ phase' \in {"down", "recovering", "up"}
        /\ stopper' \in {"idle", "snapshot", "joining", "returned"}
        /\ crashes' \in Nat
    BY <1>5 DEF TypeOK, Crash
  <2>5. /\ todo' \in SUBSET Jobs /\ request' \in SUBSET Jobs
        /\ joining' \in SUBSET Threads /\ owed' \in SUBSET Jobs
    BY <1>5, Zenon DEF Crash
  <2>6. stopping' \in BOOLEAN /\ drain' \in BOOLEAN
    BY <1>5, Zenon DEF Crash
  <2>7. /\ disk' \in [Jobs -> JobStates \union {"none", "unreadable"}]
        /\ stage' \in [Jobs -> Stages] /\ order' \in [Vaults -> Seq(Jobs)]
        /\ faults' \in Nat /\ damage' \in Nat
    BY <1>5 DEF TypeOK, Crash
  <2>8. QED BY <2>1, <2>2, <2>3, <2>4, <2>5, <2>6, <2>7 DEF TypeOK
<1>6. CASE Restart
  BY <1>6 DEF TypeOK, Restart
<1>7. CASE Serve
  BY <1>7 DEF TypeOK, Serve
<1>8. ASSUME NEW j \in Jobs, Damage(j) PROVE TypeOK'
  BY <1>8 DEF TypeOK, Damage
<1>9. QED BY <1>1, <1>2, <1>3, <1>4, <1>5, <1>6, <1>7, <1>8 DEF Stop

LEMMA TypeStep == TypeOK /\ WorkerInv /\ [Next]_vars => TypeOK'
<1>. SUFFICES ASSUME TypeOK, WorkerInv, [Next]_vars PROVE TypeOK'
  OBVIOUS
<1>1. CASE UNCHANGED vars
  BY <1>1 DEF TypeOK, vars, store, process, services, queue, threads, shutdownVars, bounds
<1>2. CASE Next
  BY <1>2, TypeHandler, TypeRecover, TypeWorker, TypeProcess DEF Next
<1>3. QED BY <1>1, <1>2

-------------------------------------------------------------------------------
(* One worker per vault.                                                     *)

LEMMA WorkerInit == Init => WorkerInv
BY DEF Init, WorkerInv, Alive

\* submit starts a thread only where none is live, and takes an identity that
\* is on file for no other vault.
LEMMA WorkerEnqueue ==
  ASSUME TypeOK, WorkerInv, NEW v \in Vaults, NEW j \in Jobs, Enqueue(v, j)
  PROVE  WorkerInv'
<1>1. CASE NeedsWorker(v)
  <2>1. PICK t \in Threads :
          /\ Fresh(v, t)
          /\ workers' = [workers EXCEPT ![v] = t]
          /\ pc' = [pc EXCEPT ![t] = "loop"]
          /\ serves' = [serves EXCEPT ![t] = v]
          /\ UNCHANGED <<job, attempt, outcome>>
    BY <1>1 DEF Enqueue, EnsureWorker
  <2>. SUFFICES ASSUME NEW u \in Threads
                PROVE  /\ Alive(u)' => serves'[u] \in Vaults /\ workers'[serves'[u]] = u
                       /\ pc'[u] \notin {"dead", "loop"} => job'[u] \in Jobs
                       /\ pc'[u] \in {"annotate", "finish", "signal"}
                            => outcome'[u] \in TERMINAL_JOB_STATES
    BY DEF WorkerInv
  <2>2. CASE u = t
    BY <2>1, <2>2 DEF TypeOK, Alive
  <2>3. CASE u # t
    <3>1. pc'[u] = pc[u] /\ serves'[u] = serves[u]
      BY <2>1, <2>3 DEF TypeOK
    <3>2. Alive(u) => serves[u] \in Vaults /\ workers[serves[u]] = u /\ serves[u] # v
      BY <1>1, ConstantsAssumption DEF TypeOK, WorkerInv, NeedsWorker, Alive
    <3>3. QED BY <2>1, <3>1, <3>2 DEF TypeOK, WorkerInv, Alive
  <2>4. QED BY <2>2, <2>3
<1>2. CASE ~NeedsWorker(v)
  BY <1>2 DEF Enqueue, EnsureWorker, WorkerInv, Alive, threads
<1>3. QED BY <1>1, <1>2

\* A step of thread t inside a job: what may change is its pc and its outcome.
LEMMA WorkerGoto ==
  ASSUME TypeOK, WorkerInv, NEW t \in Threads,
         pc[t] \notin {"dead", "loop"},
         NEW to \in PCs \ {"dead", "loop"}, NEW with \in RunOutcomes,
         to \in {"annotate", "finish"} => with \in TERMINAL_JOB_STATES,
         to # "signal",
         Goto(t, to, with)
  PROVE  WorkerInv'
<1>. SUFFICES ASSUME NEW u \in Threads
              PROVE  /\ Alive(u)' => serves'[u] \in Vaults /\ workers'[serves'[u]] = u
                     /\ pc'[u] \notin {"dead", "loop"} => job'[u] \in Jobs
                     /\ pc'[u] \in {"annotate", "finish", "signal"}
                          => outcome'[u] \in TERMINAL_JOB_STATES
  BY DEF WorkerInv
<1>1. workers' = workers /\ serves' = serves /\ job' = job
  BY GotoType
<1>2. CASE u = t
  BY <1>1, <1>2 DEF TypeOK, WorkerInv, Alive, Goto
<1>3. CASE u # t
  BY <1>1, <1>3 DEF TypeOK, WorkerInv, Alive, Goto
<1>4. QED BY <1>2, <1>3

LEMMA WorkerWorker ==
  ASSUME TypeOK, WorkerInv, NEW t \in Threads, Worker(t)
  PROVE  WorkerInv'
<1>. DEFINE Good(u) ==
       /\ Alive(u) => serves[u] \in Vaults /\ workers[serves[u]] = u
       /\ pc[u] \notin {"dead", "loop"} => job[u] \in Jobs
       /\ pc[u] \in {"annotate", "finish", "signal"} => outcome[u] \in TERMINAL_JOB_STATES
<1>a. \A u \in Threads : Good(u)
  BY DEF WorkerInv
<1>b. (\A u \in Threads : Good(u)') => WorkerInv'
  BY DEF WorkerInv
<1>1. CASE Exit(t)
  <2>. SUFFICES ASSUME NEW u \in Threads PROVE Good(u)'
    BY <1>b
  <2>1. CASE u = t
    BY <1>1, <2>1 DEF TypeOK, Exit, Alive
  <2>2. CASE u # t
    <3>1. serves[t] \in Vaults /\ workers[serves[t]] = t
      BY <1>1, <1>a DEF Exit, Alive
    <3>2. Alive(u) => serves[u] # serves[t]
      BY <1>a, <2>2, <3>1
    <3>3. QED BY <1>1, <1>a, <2>2, <3>2 DEF TypeOK, Exit, Alive
  <2>3. QED BY <2>1, <2>2
<1>2. CASE Take(t)
  <2>1. serves[t] \in Vaults
    BY <1>2, <1>a DEF Take, Alive
  <2>2. Popped(pending[serves[t]]).head \in Jobs
    BY <1>2, <2>1 DEF TypeOK, Take, NothingToDo, Popped
  <2>. SUFFICES ASSUME NEW u \in Threads PROVE Good(u)'
    BY <1>b
  <2>3. QED BY <1>2, <1>a, <2>2 DEF TypeOK, Take, Alive
<1>3. CASE Orphan(t) \/ BadConfig(t) \/ Begin(t) \/ Ingest(t) \/ GiveUp(t)
           \/ Annotate(t) \/ Exhaust(t) \/ ForceFail(t)
  <2>. USE DEF PCs, RunOutcomes, TERMINAL_JOB_STATES
  <2>1. CASE Orphan(t)
    BY <2>1, WorkerGoto DEF Orphan
  <2>2. CASE BadConfig(t)
    BY <2>2, WorkerGoto DEF BadConfig
  <2>3. CASE Begin(t)
    BY <2>3, WorkerGoto DEF Begin
  <2>4. CASE Ingest(t)
    BY <2>4, WorkerGoto DEF Ingest
  <2>5. CASE GiveUp(t)
    BY <2>5, WorkerGoto DEF GiveUp, TypeOK
  <2>6. CASE Annotate(t)
    <3>1. outcome[t] \in TERMINAL_JOB_STATES
      BY <2>6, <1>a DEF Annotate
    <3>2. QED BY <2>6, <3>1, WorkerGoto DEF Annotate
  <2>7. CASE Exhaust(t)
    BY <2>7, WorkerGoto DEF Exhaust
  <2>8. CASE ForceFail(t)
    BY <2>8, WorkerGoto DEF ForceFail
  <2>9. QED BY <1>3, <2>1, <2>2, <2>3, <2>4, <2>5, <2>6, <2>7, <2>8
<1>4. CASE Retry(t)
  <2>. SUFFICES ASSUME NEW u \in Threads PROVE Good(u)'
    BY <1>b
  <2>1. QED BY <1>4, <1>a DEF TypeOK, Retry, Alive, queue
<1>5. CASE Die(t)
  <2>. SUFFICES ASSUME NEW u \in Threads PROVE Good(u)'
    BY <1>b
  <2>1. QED BY <1>5, <1>a DEF TypeOK, Die, Alive, queue
<1>6. CASE Finish(t)
  <2>. SUFFICES ASSUME NEW u \in Threads PROVE Good(u)'
    BY <1>b
  <2>1. QED BY <1>6, <1>a DEF TypeOK, Finish, Alive, locals
<1>7. CASE Signal(t)
  <2>. SUFFICES ASSUME NEW u \in Threads PROVE Good(u)'
    BY <1>b
  <2>1. QED BY <1>7, <1>a DEF TypeOK, Signal, Alive
<1>8. QED BY <1>1, <1>2, <1>3, <1>4, <1>5, <1>6, <1>7 DEF Worker

LEMMA WorkerStep == TypeOK /\ WorkerInv /\ [Next]_vars => WorkerInv'
<1>. SUFFICES ASSUME TypeOK, WorkerInv, [Next]_vars PROVE WorkerInv'
  OBVIOUS
<1>1. CASE UNCHANGED <<threads, workers>>
  BY <1>1 DEF WorkerInv, Alive, threads
<1>2. CASE UNCHANGED vars
  BY <1>1, <1>2 DEF vars, queue
<1>3. ASSUME NEW j \in Jobs, Handler(j) PROVE WorkerInv'
  <2>1. CASE Submit(j)
    BY <2>1, WorkerEnqueue, ConstantsAssumption DEF Submit
  <2>2. CASE ~Submit(j)
    BY <1>1, <1>3, <2>2 DEF Handler, Create, Register, SubmitRefused, WaitEnds, queue
  <2>3. QED BY <2>1, <2>2
<1>4. ASSUME NEW j \in Jobs, Recover(j) PROVE WorkerInv'
  <2>1. CASE RecoverQueued(j)
    BY <2>1, WorkerEnqueue, ConstantsAssumption DEF RecoverQueued
  <2>2. CASE ~RecoverQueued(j)
    BY <1>1, <1>4, <2>2 DEF Recover, RecoverUnreadable, RecoverSkip, RecoverInterrupted, queue
  <2>3. QED BY <2>1, <2>2
<1>5. ASSUME NEW t \in Threads, Worker(t) PROVE WorkerInv'
  BY <1>5, WorkerWorker
<1>6. CASE Stop
  BY <1>1, <1>6 DEF Stop, Shutdown, Snapshot, Join, ShutdownReturns, queue
<1>7. CASE Crash
  BY <1>7 DEF Crash, WorkerInv, Alive
<1>8. CASE Restart \/ Serve \/ \E j \in Jobs : Damage(j)
  BY <1>1, <1>8 DEF Restart, Serve, Damage, queue
<1>9. QED BY <1>2, <1>3, <1>4, <1>5, <1>6, <1>7, <1>8 DEF Next

-------------------------------------------------------------------------------
(* Theorems.                                                                 *)

IInv == TypeOK /\ WorkerInv

\* IInv is an inductive invariant of the job service.
LEMMA Inductive == Spec => []IInv
<1>1. Init => IInv
  BY TypeInit, WorkerInit DEF IInv
<1>2. IInv /\ [Next]_vars => IInv'
  BY TypeStep, WorkerStep DEF IInv
<1>3. QED BY <1>1, <1>2, PTL DEF Spec

\* Records, queues, threads and answers keep their types; in particular what is
\* published as the result of a job is an outcome (JobQueue._work).
THEOREM TypeCorrect == Spec => []TypeOK
BY Inductive, PTL DEF IInv

\* At every moment each live worker thread is the one JobQueue._workers names
\* for its vault, and what it is about to publish is a terminal record.
THEOREM WorkersOnRecord == Spec => []WorkerInv
BY Inductive, PTL DEF IInv

\* "One ingest at a time within a vault" (queue.py): no two live threads serve
\* one vault, through dying threads, crashes and restarts.
THEOREM MutualExclusion == Spec => []OneWorkerPerVault
<1>1. IInv => OneWorkerPerVault
  BY DEF IInv, WorkerInv, OneWorkerPerVault
<1>2. QED BY <1>1, Inductive, PTL

-------------------------------------------------------------------------------
(* Outcomes are final.                                                       *)

\* OutcomeNeverRevised, of one step.
Final == \A j \in Jobs : disk[j] \in TERMINAL_JOB_STATES =>
           disk'[j] \in {disk[j], "none", "unreadable"}

\* JobStore.update refuses to take a record out of a terminal state, and so do
\* the paths that force a job to fail.
LEMMA TerminalIsClosed ==
  ASSUME NEW old \in TERMINAL_JOB_STATES
  PROVE  /\ ~CanForceFailed(old)
         /\ ~CanTransition(old, "running")
         /\ \A new : MayUpdate(old, new) => new = old
BY DEF TERMINAL_JOB_STATES, CanForceFailed, CanTransition, MayUpdate, LEGAL_JOB_TRANSITIONS

\* A write is harmless when it stores the same state or finds no outcome.
LEMMA WrittenFinal ==
  ASSUME TypeOK, NEW j \in Jobs, NEW state, NEW why, Written(j, state, why),
         disk[j] \in TERMINAL_JOB_STATES => state = disk[j]
  PROVE  Final
BY DEF TypeOK, Written, Final

LEMMA UnchangedFinal == UNCHANGED disk => Final
BY DEF Final

LEMMA FinalWorker ==
  ASSUME TypeOK, WorkerInv, NEW t \in Threads, Worker(t)
  PROVE  Final
<1>. USE DEF store
<1>. DEFINE j == job[t]
<1>a. pc[t] \notin {"dead", "loop"} => j \in Jobs
  BY DEF WorkerInv
<1>1. CASE Orphan(t)
  <2>1. j \in Jobs
    BY <1>1, <1>a DEF Orphan
  <2>2. QED BY <1>1, <2>1, TerminalIsClosed, WrittenFinal, UnchangedFinal DEF Orphan, Refused
<1>2. CASE Begin(t)
  <2>1. j \in Jobs
    BY <1>2, <1>a DEF Begin
  <2>2. QED BY <1>2, <2>1, TerminalIsClosed, WrittenFinal, UnchangedFinal DEF Begin, Refused
<1>3. CASE Ingest(t)
  <2>1. j \in Jobs
    BY <1>3, <1>a DEF Ingest
  <2>2. QED BY <1>3, <2>1, TerminalIsClosed, WrittenFinal, UnchangedFinal DEF Ingest
<1>4. CASE Annotate(t)
  <2>1. j \in Jobs
    BY <1>4, <1>a DEF Annotate
  <2>2. QED BY <1>4, <2>1, TerminalIsClosed, WrittenFinal, UnchangedFinal DEF Annotate, Refused
<1>5. CASE Exhaust(t)
  <2>1. j \in Jobs
    BY <1>5, <1>a DEF Exhaust
  <2>2. QED BY <1>5, <2>1, TerminalIsClosed, WrittenFinal, UnchangedFinal DEF Exhaust, Refused
<1>6. CASE ForceFail(t)
  <2>1. j \in Jobs
    BY <1>6, <1>a DEF ForceFail
  <2>2. QED BY <1>6, <2>1, TerminalIsClosed, WrittenFinal, UnchangedFinal DEF ForceFail, Refused
<1>7. CASE Exit(t) \/ Take(t) \/ BadConfig(t) \/ Retry(t) \/ GiveUp(t) \/ Die(t)
           \/ Finish(t) \/ Signal(t)
  BY <1>7, UnchangedFinal DEF Exit, Take, BadConfig, Retry, GiveUp, Die, Finish, Signal
<1>8. QED BY <1>1, <1>2, <1>3, <1>4, <1>5, <1>6, <1>7 DEF Worker

LEMMA FinalStep == TypeOK /\ WorkerInv /\ [Next]_vars => Final
<1>. SUFFICES ASSUME TypeOK, WorkerInv, [Next]_vars PROVE Final
  OBVIOUS
<1>. USE DEF store
<1>1. CASE UNCHANGED vars
  BY <1>1, UnchangedFinal DEF vars
<1>2. ASSUME NEW j \in Jobs, Handler(j) PROVE Final
  <2>1. CASE Create(j)
    BY <2>1 DEF TypeOK, Create, Final, TERMINAL_JOB_STATES
  <2>2. CASE ~Create(j)
    BY <1>2, <2>2, UnchangedFinal DEF Handler, Register, Submit, SubmitRefused, WaitEnds
  <2>3. QED BY <2>1, <2>2
<1>3. ASSUME NEW j \in Jobs, Recover(j) PROVE Final
  <2>1. CASE RecoverUnreadable(j)
    BY <2>1 DEF TypeOK, RecoverUnreadable, Final
  <2>2. CASE RecoverInterrupted(j)
    BY <2>2, WrittenFinal DEF RecoverInterrupted, TERMINAL_JOB_STATES
  <2>3. CASE RecoverSkip(j) \/ RecoverQueued(j)
    BY <2>3, UnchangedFinal DEF RecoverSkip, RecoverQueued
  <2>4. QED BY <1>3, <2>1, <2>2, <2>3 DEF Recover
<1>4. ASSUME NEW t \in Threads, Worker(t) PROVE Final
  BY <1>4, FinalWorker
<1>5. CASE Stop \/ Crash \/ Serve
  BY <1>5, UnchangedFinal DEF Stop, Shutdown, Snapshot, Join, ShutdownReturns, Crash, Serve
<1>6. CASE Restart
  BY <1>6 DEF TypeOK, Restart, Final
<1>7. ASSUME NEW j \in Jobs, Damage(j) PROVE Final
  BY <1>7 DEF TypeOK, Damage, Final
<1>8. QED BY <1>1, <1>2, <1>3, <1>4, <1>5, <1>6, <1>7 DEF Next

\* Neither the annotation of a finished run, nor retry exhaustion, nor the
\* worker's last resort, nor recovery turns a terminal record into another
\* outcome; only retention and damage make it disappear.
THEOREM OutcomesAreFinal == Spec => OutcomeNeverRevised
<1>1. IInv /\ [Next]_vars => [Final]_vars
  BY FinalStep DEF IInv
<1>2. QED BY <1>1, Inductive, PTL DEF Spec, OutcomeNeverRevised, Final

-------------------------------------------------------------------------------
(* Where a job is.                                                           *)

Holding(t) == pc[t] \notin {"dead", "loop"}

\* The files and fields of one job.
JobInv(j) ==
  /\ handler[j] = "idle" => disk[j] = "none"
  /\ handler[j] \in {"created", "registered"} => disk[j] = "queued"
  /\ event[j] # "none" => handler[j] \in {"waiting", "closed"} /\ j \notin todo
  /\ event[j] = "set" => results[j] # "none"
  /\ results[j] # "none" => event[j] # "none" /\ disk[j] = results[j]

\* A worker and the job it holds.
ThreadInv(t) ==
  /\ ~Holding(t) => job[t] = NoJob
  /\ Holding(t) => VaultOf[job[t]] = serves[t] /\ event[job[t]] = "clear"
  /\ Holding(t) /\ pc[t] # "signal" =>
       running[serves[t]] = job[t] /\ results[job[t]] = "none"
  /\ pc[t] \in {"finish", "signal"} => disk[job[t]] = outcome[t]
  /\ pc[t] = "signal" => results[job[t]] = outcome[t]

\* A job in a deque waits there once, untouched, for a thread to take it.
Untouched(v, j) ==
  /\ VaultOf[j] = v /\ disk[j] = "queued" /\ event[j] = "clear" /\ results[j] = "none"
  /\ running[v] # j
  /\ \A t \in Threads : job[t] # j

QueueInv(v) ==
  /\ \A i \in 1..Len(pending[v]) : Untouched(v, pending[v][i])
  /\ \A a, b \in 1..Len(pending[v]) : pending[v][a] = pending[v][b] => a = b
  /\ running[v] # NoJob => VaultOf[running[v]] = v /\ event[running[v]] # "none"
  /\ workers[v] # NoThread /\ Alive(workers[v]) => serves[workers[v]] = v

PhaseInv ==
  /\ phase # "up" => request = {} /\ stopper = "idle"
  /\ phase # "up" => \A j \in Jobs : handler[j] \in {"idle", "closed"}
  /\ phase # "recovering" => todo = {}
  /\ phase = "down" => (\A j \in Jobs : event[j] = "none") /\ \A t \in Threads : ~Alive(t)

Custody ==
  /\ \A j \in Jobs : JobInv(j)
  /\ \A t \in Threads : ThreadInv(t)
  /\ \A v \in Vaults : QueueInv(v)
  /\ PhaseInv

-------------------------------------------------------------------------------
(* Custody is kept by every step.                                            *)

\* A job that was never enqueued in this life of the process is nowhere.
LEMMA NotEnqueued ==
  ASSUME TypeOK, Custody, NEW j \in Jobs, event[j] = "none"
  PROVE  /\ results[j] = "none"
         /\ \A t \in Threads : job[t] # j
         /\ \A v \in Vaults : running[v] # j
         /\ \A v \in Vaults : \A i \in 1..Len(pending[v]) : pending[v][i] # j
<1>1. results[j] = "none"
  BY DEF Custody, JobInv
<1>2. ASSUME NEW t \in Threads PROVE job[t] # j
  BY ConstantsAssumption DEF Custody, ThreadInv
<1>3. ASSUME NEW v \in Vaults PROVE running[v] # j
  BY ConstantsAssumption DEF Custody, QueueInv
<1>4. ASSUME NEW v \in Vaults, NEW i \in 1..Len(pending[v]) PROVE pending[v][i] # j
  BY DEF Custody, QueueInv, Untouched
<1> QED BY <1>1, <1>2, <1>3, <1>4

\* A job is with one worker at most.
LEMMA OneHolder ==
  ASSUME WorkerInv, Custody, NEW t \in Threads, NEW u \in Threads, Holding(t), Holding(u),
         job[t] = job[u]
  PROVE  t = u
<1>1. serves[t] = serves[u]
  BY DEF Custody, ThreadInv
<1> QED BY <1>1 DEF WorkerInv, Alive, Holding

LEMMA CustodyInit == Init => Custody
<1> SUFFICES ASSUME Init PROVE Custody
  OBVIOUS
<1>1. \A j \in Jobs : JobInv(j)
  BY DEF Init, JobInv
<1>2. \A t \in Threads : ThreadInv(t)
  BY DEF Init, ThreadInv, Holding
<1>3. \A v \in Vaults : QueueInv(v)
  BY DEF Init, QueueInv
<1>4. PhaseInv
  BY DEF Init, PhaseInv
<1> QED BY <1>1, <1>2, <1>3, <1>4 DEF Custody

\* submit puts a job that is nowhere at the end of its vault's deque.
LEMMA CustodyEnqueue ==
  ASSUME TypeOK, WorkerInv, Custody, NEW v \in Vaults, NEW j \in Jobs,
         Enqueue(v, j), VaultOf[j] = v, event[j] = "none", disk[j] = "queued", UNCHANGED disk,
         handler' \in [Jobs -> HandlerStates], handler'[j] \in {"waiting", "closed"},
         \A k \in Jobs \ {j} : handler'[k] = handler[k],
         j \notin todo', todo' \subseteq todo
  PROVE  /\ (\A k \in Jobs : JobInv(k))'
         /\ (\A t \in Threads : ThreadInv(t))'
         /\ (\A w \in Vaults : QueueInv(w))'
<1>0. /\ pending' = [pending EXCEPT ![v] = Append(@, j)]
      /\ event' = [event EXCEPT ![j] = "clear"]
      /\ UNCHANGED <<running, results>>
  BY DEF Enqueue
<1>1. UNCHANGED <<job, outcome>> /\ \A t \in Threads : Holding(t)' <=> Holding(t)
  BY DEF TypeOK, Enqueue, EnsureWorker, threads, Fresh, Holding
<1>2. ASSUME NEW t \in Threads, Holding(t) PROVE pc'[t] = pc[t] /\ serves'[t] = serves[t]
  BY <1>2 DEF TypeOK, Enqueue, EnsureWorker, threads, Fresh, Holding
<1>3. ASSUME NEW k \in Jobs PROVE JobInv(k)'
  <2>1. CASE k = j
    BY <1>0, <2>1, NotEnqueued DEF TypeOK, JobInv
  <2>2. CASE k # j
    <3>1. event'[k] = event[k] /\ handler'[k] = handler[k] /\ k \in todo' => k \in todo
      BY <1>0, <2>2 DEF TypeOK
    <3> QED BY <1>0, <3>1 DEF Custody, JobInv
  <2> QED BY <2>1, <2>2
<1>4. ASSUME NEW t \in Threads PROVE ThreadInv(t)'
  <2>1. CASE Holding(t)
    <3>1. job[t] \in Jobs /\ job[t] # j
      BY <2>1, NotEnqueued DEF WorkerInv, Holding
    <3>2. event'[job[t]] = event[job[t]]
      BY <1>0, <3>1 DEF TypeOK
    <3> QED BY <1>0, <1>1, <1>2, <2>1, <3>2 DEF Custody, ThreadInv, Holding
  <2>2. CASE ~Holding(t)
    BY <1>1, <2>2 DEF Custody, ThreadInv, Holding
  <2> QED BY <2>1, <2>2
<1>5. ASSUME NEW w \in Vaults PROVE QueueInv(w)'
  <2>1. ASSUME NEW k \in Jobs, k # j, Untouched(w, k) PROVE Untouched(w, k)'
    BY <1>0, <1>1, <2>1 DEF TypeOK, Untouched
  <2>2. w = v => Untouched(v, j)'
    BY <1>0, <1>1, NotEnqueued DEF TypeOK, Untouched
  <2>3. pending[w] \in Seq(Jobs) /\ \A i \in 1..Len(pending[w]) : pending[w][i] \in Jobs \ {j}
    BY NotEnqueued DEF TypeOK
  <2>. DEFINE Waits == \A i \in 1..Len(pending[w]) : Untouched(w, pending[w][i])
              Once == \A a, b \in 1..Len(pending[w]) : pending[w][a] = pending[w][b] => a = b
              OnFile == workers[w] # NoThread /\ Alive(workers[w]) => serves[workers[w]] = w
  <2>a. Waits /\ Once /\ OnFile
    BY DEF Custody, QueueInv
  <2>4. Waits' /\ Once'
    <3>1. CASE w # v
      <4>1. pending'[w] = pending[w]
        BY <1>0, <3>1 DEF TypeOK
      <4> QED BY <2>1, <2>3, <2>a, <4>1
    <3>2. CASE w = v
      <4>1. pending'[w] = Append(pending[w], j)
        BY <1>0, <3>2 DEF TypeOK
      <4>2. /\ Len(pending'[w]) = Len(pending[w]) + 1
            /\ \A i \in 1..Len(pending[w]) : pending'[w][i] = pending[w][i]
            /\ pending'[w][Len(pending[w]) + 1] = j
        BY <2>3, <4>1
      <4>3. Len(pending[w]) \in Nat
        BY <2>3
      <4>4. ASSUME NEW i \in 1..Len(pending'[w])
            PROVE  \/ i \in 1..Len(pending[w]) /\ pending'[w][i] = pending[w][i]
                   \/ i = Len(pending[w]) + 1 /\ pending'[w][i] = j
        BY <4>2, <4>3
      <4>5. Waits'
        BY <2>1, <2>2, <2>3, <2>a, <3>2, <4>4
      <4>6. Once'
        BY <2>3, <2>a, <4>3, <4>4
      <4> QED BY <4>5, <4>6
    <3> QED BY <3>1, <3>2
  <2>5. running'[w] # NoJob => VaultOf[running'[w]] = w /\ event'[running'[w]] # "none"
    BY <1>0, ConstantsAssumption DEF TypeOK, Custody, QueueInv
  <2>6. OnFile'
    <3>1. CASE NeedsWorker(v)
      <4>1. PICK t \in Threads :
              /\ Fresh(v, t)
              /\ workers' = [workers EXCEPT ![v] = t]
              /\ pc' = [pc EXCEPT ![t] = "loop"]
              /\ serves' = [serves EXCEPT ![t] = v]
        BY <3>1 DEF Enqueue, EnsureWorker
      <4>2. CASE w = v
        BY <4>1, <4>2 DEF TypeOK
      <4>3. CASE w # v
        BY <2>a, <4>1, <4>3 DEF TypeOK, Fresh, Alive
      <4> QED BY <4>2, <4>3
    <3>2. CASE ~NeedsWorker(v)
      BY <2>a, <3>2 DEF Enqueue, EnsureWorker, threads, Alive
    <3> QED BY <3>1, <3>2
  <2> QED BY <2>4, <2>5, <2>6 DEF QueueInv
<1> QED BY <1>3, <1>4, <1>5

\* A step of a worker inside its job: the record of that job may change, and
\* the worker has what it is going to publish once the record says so.
LEMMA CustodyGoto ==
  ASSUME TypeOK, WorkerInv, Custody, NEW t \in Threads, Holding(t), pc[t] # "signal",
         NEW to \in PCs \ {"dead", "loop", "signal"}, NEW with \in RunOutcomes,
         Goto(t, to, with), request' \subseteq request,
         \A k \in Jobs : k # job[t] => disk'[k] = disk[k],
         to = "finish" => disk'[job[t]] = with
  PROVE  Custody'
<1>0. /\ UNCHANGED <<serves, job, phase, todo, handler, pending, running, workers, event,
                     results, stopper>>
      /\ pc' = [pc EXCEPT ![t] = to] /\ outcome' = [outcome EXCEPT ![t] = with]
  BY DEF Goto, locals, process, queue, shutdownVars
<1>a. job[t] \in Jobs /\ event[job[t]] = "clear" /\ results[job[t]] = "none"
  BY DEF WorkerInv, Holding, Custody, ThreadInv
<1>b. \A u \in Threads : Holding(u)' <=> Holding(u)
  BY <1>0 DEF TypeOK, Holding
<1>1. ASSUME NEW k \in Jobs PROVE JobInv(k)'
  BY <1>0, <1>a DEF Custody, JobInv
<1>2. ASSUME NEW u \in Threads PROVE ThreadInv(u)'
  <2>1. CASE u = t
    BY <1>0, <2>1 DEF TypeOK, Custody, ThreadInv, Holding
  <2>2. CASE u # t
    <3>1. Holding(u) => job[u] \in Jobs /\ job[u] # job[t]
      BY <2>2, OneHolder DEF WorkerInv, Holding
    <3>2. pc'[u] = pc[u] /\ outcome'[u] = outcome[u]
      BY <1>0, <2>2 DEF TypeOK
    <3> QED BY <1>0, <1>b, <3>1, <3>2 DEF Custody, ThreadInv, Holding
  <2> QED BY <2>1, <2>2
<1>3. ASSUME NEW v \in Vaults PROVE QueueInv(v)'
  <2>1. ASSUME NEW k \in Jobs, Untouched(v, k) PROVE Untouched(v, k)'
    BY <1>0, <2>1 DEF Untouched
  <2>2. \A i \in 1..Len(pending[v]) : pending[v][i] \in Jobs
    BY DEF TypeOK
  <2>3. workers[v] # NoThread => (Alive(workers[v])' <=> Alive(workers[v]))
    BY <1>0 DEF TypeOK, Alive, Holding
  <2> QED BY <1>0, <2>1, <2>2, <2>3 DEF Custody, QueueInv
<1>4. PhaseInv'
  BY <1>0 DEF Custody, PhaseInv, Alive, Holding
<1> QED BY <1>1, <1>2, <1>3, <1>4 DEF Custody

\* What a write of a record says about the records.
LEMMA WrittenRecords ==
  ASSUME TypeOK, NEW j \in Jobs, NEW state, NEW why, Written(j, state, why)
  PROVE  disk'[j] = state /\ \A k \in Jobs : k # j => disk'[k] = disk[k]
BY DEF TypeOK, Written

\* A worker that leaves, and one that has nothing left to say about its job.
LEMMA CustodyWorker ==
  ASSUME TypeOK, WorkerInv, Custody, NEW t \in Threads, Worker(t)
  PROVE  Custody'
<1>a. Holding(t) => job[t] \in Jobs
  BY DEF WorkerInv, Holding
<1>1. CASE Orphan(t) \/ BadConfig(t) \/ Begin(t) \/ Ingest(t) \/ GiveUp(t)
           \/ Annotate(t) \/ Exhaust(t) \/ ForceFail(t)
  <2>. USE DEF PCs, RunOutcomes, Holding, store, Refused
  <2>1. CASE Orphan(t)
    BY <1>a, <2>1, CustodyGoto, WrittenRecords DEF Orphan
  <2>2. CASE BadConfig(t)
    BY <1>a, <2>2, CustodyGoto DEF BadConfig
  <2>3. CASE Begin(t)
    BY <1>a, <2>3, CustodyGoto, WrittenRecords DEF Begin
  <2>4. CASE Ingest(t)
    BY <1>a, <2>4, CustodyGoto, WrittenRecords DEF Ingest, RequestsAfterRun
  <2>5. CASE GiveUp(t)
    BY <1>a, <2>5, CustodyGoto DEF GiveUp, TypeOK
  <2>6. CASE Annotate(t)
    <3>1. outcome[t] \in RunOutcomes
      BY DEF TypeOK
    <3> QED BY <1>a, <2>6, <3>1, CustodyGoto, WrittenRecords DEF Annotate
  <2>7. CASE Exhaust(t)
    BY <1>a, <2>7, CustodyGoto, WrittenRecords DEF Exhaust
  <2>8. CASE ForceFail(t)
    BY <1>a, <2>8, CustodyGoto, WrittenRecords DEF ForceFail
  <2> QED BY <1>1, <2>1, <2>2, <2>3, <2>4, <2>5, <2>6, <2>7, <2>8
<1>2. CASE Exit(t) \/ Retry(t) \/ Die(t)
  <2>0. UNCHANGED <<disk, phase, todo, request, handler, pending, running, event, results, stopper>>
    BY <1>2 DEF Exit, Retry, Die, store, process, services, queue, shutdownVars
  <2>1. ASSUME NEW k \in Jobs PROVE JobInv(k)'
    BY <2>0 DEF Custody, JobInv
  <2>2. ASSUME NEW u \in Threads PROVE ThreadInv(u)'
    BY <1>2, <2>0 DEF TypeOK, Custody, ThreadInv, Holding, Exit, Retry, Die
  <2>3. ASSUME NEW v \in Vaults PROVE QueueInv(v)'
    <3>1. \A u \in Threads : job'[u] = job[u] \/ job'[u] = NoJob
      BY <1>2 DEF TypeOK, Exit, Retry, Die
    <3>2. \A i \in 1..Len(pending[v]) : pending[v][i] \in Jobs
      BY DEF TypeOK
    <3>3. ASSUME NEW k \in Jobs, Untouched(v, k) PROVE Untouched(v, k)'
      BY <2>0, <3>1, <3>3, ConstantsAssumption DEF Untouched
    <3>4. workers'[v] # NoThread /\ pc'[workers'[v]] # "dead" =>
            /\ workers[v] # NoThread /\ Alive(workers[v]) /\ workers'[v] = workers[v]
            /\ serves'[workers[v]] = serves[workers[v]]
      <4>1. t \in Threads /\ \A u \in Threads : u # t => pc'[u] = pc[u] /\ serves'[u] = serves[u]
        BY <1>2 DEF TypeOK, Exit, Retry, Die, queue
      <4>2. workers'[v] \in {workers[v], NoThread}
        BY <1>2 DEF TypeOK, Exit, Retry, Die, queue
      <4>3. pc'[t] = "dead" \/ (serves' = serves /\ pc[t] # "dead")
        BY <1>2 DEF TypeOK, Exit, Retry, Die
      <4>4. workers[v] \in Threads \/ workers[v] = NoThread
        BY DEF TypeOK
      <4> QED BY <4>1, <4>2, <4>3, <4>4 DEF Alive
    <3>5. (workers[v] # NoThread /\ Alive(workers[v]) => serves[workers[v]] = v)'
      <4>1. workers[v] # NoThread /\ Alive(workers[v]) => serves[workers[v]] = v
        BY DEF Custody, QueueInv
      <4>2. CASE workers'[v] = NoThread \/ pc'[workers'[v]] = "dead"
        BY <4>2 DEF Alive
      <4>3. CASE workers'[v] # NoThread /\ pc'[workers'[v]] # "dead"
        BY <3>4, <4>1, <4>3 DEF Alive
      <4> QED BY <4>2, <4>3
    <3> QED BY <2>0, <3>2, <3>3, <3>5 DEF Custody, QueueInv
  <2>4. PhaseInv'
    BY <1>2, <2>0 DEF TypeOK, Custody, PhaseInv, Alive, Exit, Retry, Die
  <2> QED BY <2>1, <2>2, <2>3, <2>4 DEF Custody
<1>3. CASE Take(t)
  <2>. DEFINE v == serves[t]
              j == Head(pending[v])
  <2>0. /\ UNCHANGED <<disk, phase, todo, request, handler, event, results, workers, serves,
                       outcome, stopper>>
        /\ pending' = [pending EXCEPT ![v] = Tail(@)] /\ running' = [running EXCEPT ![v] = j]
        /\ job' = [job EXCEPT ![t] = j] /\ pc' = [pc EXCEPT ![t] = "attempt"]
        /\ pc[t] = "loop" /\ pending[v] # <<>>
    BY <1>3 DEF Take, Popped, NothingToDo, store, process, services, shutdownVars
  <2>1. v \in Vaults /\ workers[v] = t
    BY <2>0 DEF WorkerInv, Alive
  <2>2. pending[v] \in Seq(Jobs) /\ Len(pending[v]) \in Nat \ {0} /\ j = pending[v][1]
    BY <2>0, <2>1 DEF TypeOK
  <2>3. j \in Jobs /\ Untouched(v, j)
    BY <2>1, <2>2 DEF Custody, QueueInv
  <2>4. ASSUME NEW k \in Jobs PROVE JobInv(k)'
    BY <2>0 DEF Custody, JobInv
  <2>5. ASSUME NEW u \in Threads PROVE ThreadInv(u)'
    <3>1. CASE u = t
      BY <2>0, <2>1, <2>3, <3>1 DEF TypeOK, ThreadInv, Holding, Untouched
    <3>2. CASE u # t
      <4>1. pc'[u] = pc[u] /\ job'[u] = job[u]
        BY <2>0, <3>2 DEF TypeOK
      <4>2. Holding(u) => serves[u] # v
        BY <2>1, <3>2 DEF WorkerInv, Alive, Holding
      <4>3. Holding(u) => running'[serves[u]] = running[serves[u]]
        BY <2>0, <4>2 DEF TypeOK
      <4> QED BY <2>0, <4>1, <4>3 DEF Custody, ThreadInv, Holding
    <3> QED BY <3>1, <3>2
  <2>6. ASSUME NEW w \in Vaults PROVE QueueInv(w)'
    <3>1. CASE w # v
      <4>1. pending'[w] = pending[w] /\ running'[w] = running[w]
        BY <2>0, <3>1 DEF TypeOK
      <4>2. \A i \in 1..Len(pending[w]) : pending[w][i] \in Jobs
        BY DEF TypeOK
      <4>3. ASSUME NEW k \in Jobs, Untouched(w, k) PROVE Untouched(w, k)'
        <5>1. k # j
          BY <2>3, <3>1, <4>3 DEF Untouched
        <5> QED BY <2>0, <4>1, <4>3, <5>1 DEF TypeOK, Untouched
      <4>4. workers[w] # NoThread => workers[w] \in Threads
        BY DEF TypeOK
      <4>5. (workers[w] # NoThread /\ Alive(workers[w]) => serves[workers[w]] = w)'
        BY <2>0, <4>4 DEF TypeOK, Custody, QueueInv, Alive
      <4>6. QueueInv(w)
        BY DEF Custody
      <4>7. (\A i \in 1..Len(pending[w]) : Untouched(w, pending[w][i]))'
        <5>1. \A k \in Jobs : Untouched(w, k) => Untouched(w, k)'
          BY <4>3
        <5>2. \A i \in 1..Len(pending[w]) : Untouched(w, pending[w][i])
          BY <4>6 DEF QueueInv
        <5> QED BY <4>1, <4>2, <5>1, <5>2 DEF Untouched
      <4>8. running'[w] # NoJob => VaultOf[running'[w]] = w /\ event'[running'[w]] # "none"
        BY <2>0, <4>1, <4>6 DEF QueueInv
      <4>9. \A a, b \in 1..Len(pending'[w]) : pending'[w][a] = pending'[w][b] => a = b
        BY <4>1, <4>6 DEF QueueInv
      <4> QED BY <4>5, <4>7, <4>8, <4>9 DEF QueueInv
    <3>2. CASE w = v
      <4>1. /\ pending'[w] \in Seq(Jobs) /\ Len(pending'[w]) = Len(pending[v]) - 1
            /\ \A i \in 1..Len(pending'[w]) :
                 pending'[w][i] = pending[v][i + 1] /\ i + 1 \in 1..Len(pending[v])
        BY <2>0, <2>1, <2>2, <3>2 DEF TypeOK
      <4>2. ASSUME NEW k \in Jobs, k # j, Untouched(w, k) PROVE Untouched(w, k)'
        BY <2>0, <2>1, <3>2, <4>2 DEF TypeOK, Untouched
      <4>. DEFINE Waits == \A i \in 1..Len(pending[w]) : Untouched(w, pending[w][i])
                  Once == \A a, b \in 1..Len(pending[w]) : pending[w][a] = pending[w][b] => a = b
      <4>a. Waits /\ Once
        BY DEF Custody, QueueInv
      <4>b. ASSUME NEW i \in 1..Len(pending[v])
            PROVE  pending[v][i] \in Jobs /\ (i # 1 => pending[v][i] # j)
        BY <2>2, <3>2, <4>a
      <4>3. Waits'
        <5>1. ASSUME NEW i \in 1..Len(pending'[w])
              PROVE  /\ pending'[w][i] \in Jobs \ {j}
                     /\ Untouched(w, pending'[w][i])
          BY <2>2, <3>2, <4>1, <4>a, <4>b
        <5> QED BY <4>2, <5>1
      <4>4. Once'
        BY <2>2, <3>2, <4>1, <4>a
      <4>5. (running[w] # NoJob => VaultOf[running[w]] = w /\ event[running[w]] # "none")'
        BY <2>0, <2>1, <2>3, <3>2 DEF TypeOK, Untouched
      <4>6. (workers[w] # NoThread /\ Alive(workers[w]) => serves[workers[w]] = w)'
        BY <2>0, <2>1, <3>2
      <4> QED BY <4>3, <4>4, <4>5, <4>6 DEF QueueInv
    <3> QED BY <3>1, <3>2
  <2>7. PhaseInv'
    BY <2>0 DEF TypeOK, Custody, PhaseInv, Alive
  <2> QED BY <2>4, <2>5, <2>6, <2>7 DEF Custody
<1>4. CASE Finish(t)
  <2>. DEFINE v == serves[t]
              j == job[t]
  <2>0. /\ UNCHANGED <<disk, phase, todo, request, handler, pending, event, workers, serves, job,
                       outcome, stopper>>
        /\ running' = [running EXCEPT ![v] = NoJob]
        /\ results' = [results EXCEPT ![j] = outcome[t]]
        /\ pc' = [pc EXCEPT ![t] = "signal"] /\ pc[t] = "finish"
    BY <1>4 DEF Finish, store, process, services, locals, shutdownVars
  <2>1. /\ v \in Vaults /\ j \in Jobs /\ event[j] = "clear" /\ disk[j] = outcome[t] /\ VaultOf[j] = v
        /\ workers[v] = t
    BY <2>0 DEF WorkerInv, Alive, Custody, ThreadInv, Holding
  <2>4. ASSUME NEW k \in Jobs PROVE JobInv(k)'
    BY <2>0, <2>1 DEF TypeOK, Custody, JobInv
  <2>5. ASSUME NEW u \in Threads PROVE ThreadInv(u)'
    <3>1. CASE u = t
      BY <2>0, <2>1, <3>1 DEF TypeOK, ThreadInv, Holding
    <3>2. CASE u # t
      <4>1. pc'[u] = pc[u]
        BY <2>0, <3>2 DEF TypeOK
      <4>2. Holding(u) => serves[u] # v /\ job[u] # j /\ job[u] \in Jobs
        BY <2>0, <2>1, <3>2, OneHolder DEF WorkerInv, Alive, Holding
      <4>3. Holding(u) => running'[serves[u]] = running[serves[u]] /\ results'[job[u]] = results[job[u]]
        BY <2>0, <4>2 DEF TypeOK
      <4> QED BY <2>0, <4>1, <4>3 DEF Custody, ThreadInv, Holding
    <3> QED BY <3>1, <3>2
  <2>6. ASSUME NEW w \in Vaults PROVE QueueInv(w)'
    <3>1. \A i \in 1..Len(pending[w]) : pending[w][i] \in Jobs
      BY DEF TypeOK
    <3>2. ASSUME NEW k \in Jobs, Untouched(w, k) PROVE Untouched(w, k)'
      <4>1. k # j
        BY <3>2 DEF Untouched
      <4> QED BY <2>0, <3>2, <4>1, ConstantsAssumption DEF TypeOK, Untouched
    <3>3. (workers[w] # NoThread /\ Alive(workers[w]) => serves[workers[w]] = w)'
      BY <2>0, <2>1 DEF TypeOK, Custody, QueueInv, Alive
    <3>4. (running[w] # NoJob => VaultOf[running[w]] = w /\ event[running[w]] # "none")'
      BY <2>0 DEF TypeOK, Custody, QueueInv
    <3> QED BY <2>0, <3>1, <3>2, <3>3, <3>4 DEF Custody, QueueInv
  <2>7. PhaseInv'
    BY <2>0 DEF TypeOK, Custody, PhaseInv, Alive
  <2> QED BY <2>4, <2>5, <2>6, <2>7 DEF Custody
<1>5. CASE Signal(t)
  <2>. DEFINE v == serves[t]
              j == job[t]
  <2>0. /\ UNCHANGED <<disk, phase, todo, request, handler, pending, running, results, workers, serves,
                       stopper>>
        /\ event' = [event EXCEPT ![j] = "set"] /\ job' = [job EXCEPT ![t] = NoJob]
        /\ outcome' = [outcome EXCEPT ![t] = "none"]
        /\ pc' = [pc EXCEPT ![t] = "loop"] /\ pc[t] = "signal"
    BY <1>5 DEF Signal, store, process, services, shutdownVars
  <2>1. /\ v \in Vaults /\ j \in Jobs /\ event[j] = "clear" /\ VaultOf[j] = v
        /\ results[j] = outcome[t] /\ disk[j] = outcome[t] /\ outcome[t] # "none"
        /\ workers[v] = t
    BY <2>0 DEF WorkerInv, Alive, Custody, ThreadInv, Holding, TERMINAL_JOB_STATES
  <2>4. ASSUME NEW k \in Jobs PROVE JobInv(k)'
    BY <2>0, <2>1 DEF TypeOK, Custody, JobInv
  <2>5. ASSUME NEW u \in Threads PROVE ThreadInv(u)'
    <3>1. CASE u = t
      BY <2>0, <3>1 DEF TypeOK, ThreadInv, Holding
    <3>2. CASE u # t
      <4>1. pc'[u] = pc[u] /\ job'[u] = job[u] /\ outcome'[u] = outcome[u]
        BY <2>0, <3>2 DEF TypeOK
      <4>2. Holding(u) => job[u] # j /\ job[u] \in Jobs
        BY <2>0, <2>1, <3>2, OneHolder DEF WorkerInv, Holding
      <4>3. Holding(u) => event'[job[u]] = event[job[u]]
        BY <2>0, <4>2 DEF TypeOK
      <4> QED BY <2>0, <4>1, <4>3 DEF Custody, ThreadInv, Holding
    <3> QED BY <3>1, <3>2
  <2>6. ASSUME NEW w \in Vaults PROVE QueueInv(w)'
    <3>1. \A i \in 1..Len(pending[w]) : pending[w][i] \in Jobs
      BY DEF TypeOK
    <3>2. ASSUME NEW k \in Jobs, Untouched(w, k) PROVE Untouched(w, k)'
      <4>1. k # j
        BY <3>2 DEF Untouched
      <4> QED BY <2>0, <3>2, <4>1, ConstantsAssumption DEF TypeOK, Untouched
    <3>3. (workers[w] # NoThread /\ Alive(workers[w]) => serves[workers[w]] = w)'
      BY <2>0, <2>1 DEF TypeOK, Custody, QueueInv, Alive
    <3>4. (running[w] # NoJob => VaultOf[running[w]] = w /\ event[running[w]] # "none")'
      BY <2>0 DEF TypeOK, Custody, QueueInv
    <3> QED BY <2>0, <3>1, <3>2, <3>3, <3>4 DEF Custody, QueueInv
  <2>7. PhaseInv'
    BY <2>0 DEF TypeOK, Custody, PhaseInv, Alive
  <2> QED BY <2>4, <2>5, <2>6, <2>7 DEF Custody
<1> QED BY <1>1, <1>2, <1>3, <1>4, <1>5 DEF Worker

\* A job that is handed over, or not, by its submit_ingest call.
LEMMA CustodyHandler ==
  ASSUME TypeOK, WorkerInv, Custody, NEW j \in Jobs, Handler(j)
  PROVE  Custody'
<1>. USE DEF store, process, services, queue, threads, shutdownVars
<1>1. CASE Submit(j)
  <2>1. event[j] = "none" /\ disk[j] = "queued" /\ j \notin todo
    BY <1>1 DEF TypeOK, Custody, JobInv, PhaseInv, Submit
  <2>2. /\ UNCHANGED <<disk, phase, todo, request, stopper>>
        /\ handler' \in [Jobs -> HandlerStates] /\ handler'[j] \in {"waiting", "closed"}
        /\ \A k \in Jobs \ {j} : handler'[k] = handler[k]
        /\ VaultOf[j] \in Vaults /\ Enqueue(VaultOf[j], j)
    <3>1. /\ UNCHANGED <<disk, phase, todo, request, stopper>>
          /\ VaultOf[j] \in Vaults /\ Enqueue(VaultOf[j], j)
      BY <1>1, ConstantsAssumption DEF Submit
    <3>2. PICK next \in {"waiting", "closed"} : handler' = [handler EXCEPT ![j] = next]
      BY <1>1 DEF Submit
    <3>3. handler \in [Jobs -> HandlerStates] /\ next \in HandlerStates
      BY DEF TypeOK, HandlerStates
    <3> QED BY <3>1, <3>2, <3>3
  <2>3. PhaseInv'
    BY <1>1, <2>2 DEF Custody, PhaseInv, Submit
  <2> QED BY <2>1, <2>2, <2>3, CustodyEnqueue DEF Custody
<1>2. CASE Create(j) \/ Register(j) \/ SubmitRefused(j) \/ WaitEnds(j)
  <2>1. /\ UNCHANGED <<phase, todo, pending, running, workers, event, results, pc, serves, job,
                       outcome, stopper>>
        /\ phase = "up"
        /\ \A k \in Jobs : k # j => disk'[k] = disk[k] /\ handler'[k] = handler[k]
    BY <1>2 DEF TypeOK, Create, Register, SubmitRefused, WaitEnds
  <2>2. disk'[j] = disk[j] \/ (Create(j) /\ event[j] = "none")
    BY <1>2 DEF Create, Register, SubmitRefused, WaitEnds, Custody, JobInv
  <2>3. ASSUME NEW k \in Jobs PROVE JobInv(k)'
    <3>1. CASE k = j
      BY <1>2, <2>1, <2>2, <3>1 DEF TypeOK, Custody, JobInv, Create, Register, SubmitRefused, WaitEnds
    <3>2. CASE k # j
      BY <2>1, <3>2 DEF Custody, JobInv
    <3> QED BY <3>1, <3>2
  <2>4. \A k \in Jobs : event[k] # "none" => disk'[k] = disk[k]
    BY <2>1, <2>2
  <2>5. ASSUME NEW t \in Threads PROVE ThreadInv(t)'
    <3>1. Holding(t) => job[t] \in Jobs /\ disk'[job[t]] = disk[job[t]]
      BY <2>4 DEF WorkerInv, Holding, Custody, ThreadInv
    <3> QED BY <2>1, <3>1 DEF Custody, ThreadInv, Holding
  <2>6. ASSUME NEW v \in Vaults PROVE QueueInv(v)'
    <3>1. ASSUME NEW k \in Jobs, Untouched(v, k) PROVE Untouched(v, k)'
      BY <2>1, <2>4, <3>1 DEF Untouched
    <3>2. \A i \in 1..Len(pending[v]) : pending[v][i] \in Jobs
      BY DEF TypeOK
    <3> QED BY <2>1, <3>1, <3>2 DEF Custody, QueueInv, Alive
  <2>7. PhaseInv'
    BY <2>1 DEF Custody, PhaseInv
  <2> QED BY <2>3, <2>5, <2>6, <2>7 DEF Custody
<1> QED BY <1>1, <1>2 DEF Handler

\* Recovery visits jobs that nobody has enqueued in this life of the process.
LEMMA CustodyRecover ==
  ASSUME TypeOK, WorkerInv, Custody, NEW j \in Jobs, Recover(j)
  PROVE  Custody'
<1>. USE DEF store, process, services, queue, threads, shutdownVars
<1>0. j \in todo /\ phase = "recovering" /\ event[j] = "none"
  BY DEF Recover, RecoverUnreadable, RecoverSkip, RecoverInterrupted, RecoverQueued, Visiting,
         Custody, JobInv
<1>1. CASE RecoverQueued(j)
  <2>1. disk[j] = "queued" /\ handler[j] \in {"waiting", "closed"}
    BY <1>0, <1>1 DEF TypeOK, HandlerStates, Custody, JobInv, PhaseInv, RecoverQueued
  <2>2. /\ UNCHANGED <<disk, phase, handler, request, stopper>>
        /\ todo' = todo \ {j}
        /\ VaultOf[j] \in Vaults /\ Enqueue(VaultOf[j], j)
    BY <1>1, ConstantsAssumption DEF RecoverQueued
  <2>3. PhaseInv'
    BY <1>0, <2>2 DEF Custody, PhaseInv
  <2>4. handler \in [Jobs -> HandlerStates]
    BY DEF TypeOK
  <2> QED BY <1>0, <2>1, <2>2, <2>3, <2>4, CustodyEnqueue DEF Custody
<1>2. CASE RecoverUnreadable(j) \/ RecoverSkip(j) \/ RecoverInterrupted(j)
  <2>1. /\ UNCHANGED <<phase, request, handler, pending, running, workers, event, results, pc,
                       serves, job, outcome, stopper>>
        /\ todo' = todo \ {j}
        /\ \A k \in Jobs : k # j => disk'[k] = disk[k]
    BY <1>2 DEF TypeOK, RecoverUnreadable, RecoverSkip, RecoverInterrupted, Written
  <2>2. handler[j] \notin {"created", "registered"} /\ (handler[j] = "idle" => disk'[j] = "none")
    BY <1>0, <1>2 DEF TypeOK, HandlerStates, Custody, JobInv, PhaseInv, RecoverUnreadable,
                      RecoverSkip, RecoverInterrupted
  <2>3. \A k \in Jobs : event[k] # "none" => disk'[k] = disk[k]
    BY <1>0, <2>1
  <2>4. ASSUME NEW k \in Jobs PROVE JobInv(k)'
    <3>1. CASE k = j
      BY <1>0, <2>1, <2>2, <3>1 DEF Custody, JobInv
    <3>2. CASE k # j
      BY <2>1, <3>2 DEF Custody, JobInv
    <3> QED BY <3>1, <3>2
  <2>5. ASSUME NEW t \in Threads PROVE ThreadInv(t)'
    <3>1. Holding(t) => job[t] \in Jobs /\ disk'[job[t]] = disk[job[t]]
      BY <2>3 DEF WorkerInv, Holding, Custody, ThreadInv
    <3> QED BY <2>1, <3>1 DEF Custody, ThreadInv, Holding
  <2>6. ASSUME NEW v \in Vaults PROVE QueueInv(v)'
    <3>1. ASSUME NEW k \in Jobs, Untouched(v, k) PROVE Untouched(v, k)'
      BY <2>1, <2>3, <3>1 DEF Untouched
    <3>2. \A i \in 1..Len(pending[v]) : pending[v][i] \in Jobs
      BY DEF TypeOK
    <3> QED BY <2>1, <3>1, <3>2 DEF Custody, QueueInv, Alive
  <2>7. PhaseInv'
    BY <1>0, <2>1 DEF Custody, PhaseInv
  <2> QED BY <2>4, <2>5, <2>6, <2>7 DEF Custody
<1> QED BY <1>1, <1>2 DEF Recover

LEMMA CustodyProcess ==
  ASSUME TypeOK, WorkerInv, Custody,
         Stop \/ Crash \/ Restart \/ Serve \/ \E j \in Jobs : Damage(j)
  PROVE  Custody'
<1>. USE DEF store, process, services, queue, threads, shutdownVars, bounds
<1>1. CASE Stop \/ Serve
  <2>1. /\ UNCHANGED <<disk, todo, request, handler, pending, running, workers, event, results, pc,
                       serves, job, outcome>>
        /\ \/ UNCHANGED phase /\ phase = "up"
           \/ UNCHANGED stopper /\ phase = "recovering" /\ todo = {} /\ phase' = "up"
    BY <1>1 DEF Stop, Shutdown, Snapshot, Join, ShutdownReturns, Serve
  <2>2. (\A j \in Jobs : JobInv(j))' /\ (\A t \in Threads : ThreadInv(t))'
    BY <2>1 DEF Custody, JobInv, ThreadInv, Holding
  <2>3. (\A v \in Vaults : QueueInv(v))'
    BY <2>1 DEF Custody, QueueInv, Untouched, Alive
  <2>4. PhaseInv'
    BY <2>1 DEF Custody, PhaseInv, Alive
  <2> QED BY <2>2, <2>3, <2>4 DEF Custody
<1>2. CASE Crash
  <2>1. ASSUME NEW j \in Jobs PROVE JobInv(j)'
    BY <1>2 DEF TypeOK, Custody, JobInv, Crash
  <2>2. ASSUME NEW t \in Threads PROVE ThreadInv(t)'
    BY <1>2 DEF ThreadInv, Holding, Crash
  <2>3. ASSUME NEW v \in Vaults PROVE QueueInv(v)'
    BY <1>2 DEF QueueInv, Crash
  <2>4. PhaseInv'
    BY <1>2 DEF PhaseInv, Crash, Alive
  <2> QED BY <2>1, <2>2, <2>3, <2>4 DEF Custody
<1>3. CASE Restart \/ \E j \in Jobs : Damage(j)
  <2>1. /\ UNCHANGED <<request, handler, pending, running, workers, event, results, pc,
                       serves, job, outcome, stopper>>
        /\ phase = "down"
        /\ \A k \in Jobs : disk[k] = "none" => disk'[k] = "none"
        /\ (phase' = "down" /\ todo' = todo) \/ phase' = "recovering"
    BY <1>3 DEF TypeOK, Restart, Damage, JobStates
  <2>2. /\ \A j \in Jobs : event[j] = "none" /\ results[j] = "none"
                           /\ handler[j] \notin {"created", "registered"}
        /\ \A t \in Threads : ~Holding(t) /\ ~Alive(t)
    BY <2>1 DEF Custody, JobInv, PhaseInv, Alive, Holding
  <2>3. \A v \in Vaults : \A i \in 1..Len(pending[v]) : FALSE
    <3>1. ASSUME NEW v \in Vaults, NEW i \in 1..Len(pending[v]) PROVE FALSE
      <4>1. pending[v][i] \in Jobs
        BY DEF TypeOK
      <4>2. event[pending[v][i]] = "clear"
        BY DEF Custody, QueueInv, Untouched
      <4> QED BY <2>2, <4>1, <4>2
    <3> QED BY <3>1
  <2>4. \A j \in Jobs : JobInv(j)'
    BY <2>1, <2>2 DEF Custody, JobInv
  <2>5. \A t \in Threads : ThreadInv(t)'
    BY <2>1, <2>2, ConstantsAssumption DEF Custody, ThreadInv, Holding
  <2>6. ASSUME NEW v \in Vaults PROVE QueueInv(v)'
    BY <2>1, <2>3 DEF Custody, QueueInv, Alive
  <2>7. PhaseInv'
    BY <2>1, <2>2 DEF Custody, PhaseInv, Alive
  <2> QED BY <2>4, <2>5, <2>6, <2>7 DEF Custody
<1> QED BY <1>1, <1>2, <1>3

LEMMA CustodyStep == IInv /\ Custody /\ [Next]_vars => Custody'
<1>. SUFFICES ASSUME TypeOK, WorkerInv, Custody, [Next]_vars PROVE Custody'
  BY DEF IInv
<1>1. CASE UNCHANGED vars
  <2>1. (\A j \in Jobs : JobInv(j))' /\ (\A t \in Threads : ThreadInv(t))'
    BY <1>1 DEF Custody, JobInv, ThreadInv, Holding, vars, store, process, services, queue, threads
  <2>2. (\A v \in Vaults : QueueInv(v))' /\ PhaseInv'
    BY <1>1 DEF Custody, QueueInv, PhaseInv, Untouched, Alive, vars, store, process, services, queue,
                threads, shutdownVars
  <2> QED BY <2>1, <2>2 DEF Custody
<1> QED BY <1>1, CustodyHandler, CustodyRecover, CustodyWorker, CustodyProcess DEF Next

\* Between submission and outcome each job is in one place, and its record, its
\* event and its result are what that place allows.
THEOREM EveryJobInCustody == Spec => []Custody
<1>1. Init => Custody
  BY CustodyInit
<1> QED BY <1>1, CustodyStep, Inductive, PTL DEF Spec

\* What wait=true answers (JobQueue.wait) is what GET /jobs/<id> answers from
\* then on: a woken waiter finds a result, and every result is the stored record.
THEOREM AnswersAreDurable == Spec => []AnswerIsDurable
<1>1. Custody => AnswerIsDurable
  BY DEF Custody, JobInv, AnswerIsDurable
<1> QED BY <1>1, EveryJobInCustody, PTL
===============================================================================
