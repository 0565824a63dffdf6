------------------------------- MODULE JobQueue -------------------------------
(***************************************************************************)
(* The ingest job service of one groundtruth process and its state dir:    *)
(*                                                                         *)
(*   api/services.py    submit_ingest (one handler per request), _run_job  *)
(*   jobs/queue.py      JobQueue: per-vault deques and worker threads      *)
(*   jobs/retry.py      run_with_retry / retrying_runner around _run_job   *)
(*   jobs/recovery.py   recover_on_startup, run by main.py's lifespan      *)
(*   storage/job_store  one JSON record per job, replaced atomically       *)
(*                                                                         *)
(* Every lock region is one action; what happens between two of them       *)
(* (running the ingest, writing a record, setting an event) is a separate  *)
(* action of the worker thread, so that handlers, workers, recovery,       *)
(* shutdown and a crash interleave as they do in the program.  The ingest  *)
(* itself is reduced to its outcomes; IngestPipeline.tla models it.        *)
(***************************************************************************)
EXTENDS Naturals, Sequences, FiniteSets, JobLifecycle

CONSTANTS
  Jobs,            \* job ids (uuid4 hex, each used once)
  Vaults,          \* vault names
  Threads,         \* thread identities; one that is dead may be used again
  NoJob, NoThread, NoVault,
  VaultOf,         \* the vault each job is submitted to
  IdRank,          \* job -> rank of its id in the order of `sorted`
  MaxRetries,      \* retry.DEFAULT_MAX_RETRIES
  MaxCrashes,      \* bound: process crashes
  MaxStoreFaults,  \* bound: record writes that raise (full disk, secret found)
  MaxDamage,       \* bound: record files found unreadable after a crash
  MayShutdown      \* whether JobQueue.shutdown is ever called

ASSUME ConstantsAssumption ==
  /\ NoJob \notin Jobs /\ NoThread \notin Threads /\ NoVault \notin Vaults
  /\ VaultOf \in [Jobs -> Vaults]
  /\ IdRank \in [Jobs -> Nat]
  /\ \A j, k \in Jobs : IdRank[j] = IdRank[k] => j = k
  /\ MaxRetries \in Nat /\ MaxCrashes \in Nat
  /\ MaxStoreFaults \in Nat /\ MaxDamage \in Nat
  /\ MayShutdown \in BOOLEAN

VARIABLES
  \* --- state dir: survives a crash ---
  disk,      \* job -> state of its record, "none" or "unreadable"
  stage,     \* job -> failure_stage of its record
  \* --- the process ---
  phase,     \* "down", "recovering" (lifespan startup) or "up" (serving)
  todo,      \* jobs recover_on_startup has still to visit
  request,   \* jobs with an entry in Services._pending
  handler,   \* job -> progress of the submit_ingest call that made it
  \* --- JobQueue's fields, guarded by its lock ---
  pending, running, workers, event, results, stopping,
  \* --- worker threads and their local variables ---
  pc, serves, job, attempt, outcome,
  \* --- the caller of shutdown ---
  stopper, drain, joining,
  \* --- bounds and history ---
  crashes, faults, damage,
  order,     \* vault -> jobs in the order they were first enqueued
  owed       \* jobs in the queue when shutdown was called

store == <<disk, stage>>
process == <<phase, todo>>
services == <<request, handler>>
queue == <<pending, running, workers, event, results, stopping>>
locals == <<serves, job, attempt>>
threads == <<pc, serves, job, attempt, outcome>>
shutdownVars == <<stopper, drain, joining, owed>>
bounds == <<crashes, faults, damage>>
vars == <<store, process, services, queue, threads, shutdownVars, bounds, order>>

Stages == {"none", "pipeline", "retry-exhausted", "restart", "worker"}
HandlerStates == {"idle", "created", "registered", "waiting", "closed"}
PCs == {"dead", "loop", "attempt", "ingest", "retry", "annotate", "exhaust",
        "force", "finish", "signal", "dying"}
\* The record a run returned, or the class of the exception it raised.
RunOutcomes == {"none", "succeeded", "failed", "transient", "terminal"}

TypeOK ==
  /\ disk \in [Jobs -> JobStates \union {"none", "unreadable"}]
  /\ stage \in [Jobs -> Stages]
  /\ phase \in {"down", "recovering", "up"}
  /\ todo \in SUBSET Jobs
  /\ request \in SUBSET Jobs
  /\ handler \in [Jobs -> HandlerStates]
  /\ pending \in [Vaults -> Seq(Jobs)]
  /\ running \in [Vaults -> Jobs \union {NoJob}]
  /\ workers \in [Vaults -> Threads \union {NoThread}]
  /\ event \in [Jobs -> {"none", "clear", "set"}]
  /\ results \in [Jobs -> {"none", "succeeded", "failed"}]
  /\ stopping \in BOOLEAN
  /\ pc \in [Threads -> PCs]
  /\ serves \in [Threads -> Vaults \union {NoVault}]
  /\ job \in [Threads -> Jobs \union {NoJob}]
  /\ attempt \in [Threads -> Nat]
  /\ outcome \in [Threads -> RunOutcomes]
  /\ stopper \in {"idle", "snapshot", "joining", "returned"}
  /\ drain \in BOOLEAN
  /\ joining \in SUBSET Threads
  /\ owed \in SUBSET Jobs
  /\ crashes \in Nat /\ faults \in Nat /\ damage \in Nat
  /\ order \in [Vaults -> Seq(Jobs)]

Init ==
  /\ disk = [j \in Jobs |-> "none"]
  /\ stage = [j \in Jobs |-> "none"]
  /\ phase = "up"
  /\ todo = {}
  /\ request = {}
  /\ handler = [j \in Jobs |-> "idle"]
  /\ pending = [v \in Vaults |-> <<>>]
  /\ running = [v \in Vaults |-> NoJob]
  /\ workers = [v \in Vaults |-> NoThread]
  /\ event = [j \in Jobs |-> "none"]
  /\ results = [j \in Jobs |-> "none"]
  /\ stopping = FALSE
  /\ pc = [t \in Threads |-> "dead"]
  /\ serves = [t \in Threads |-> NoVault]
  /\ job = [t \in Threads |-> NoJob]
  /\ attempt = [t \in Threads |-> 0]
  /\ outcome = [t \in Threads |-> "none"]
  /\ stopper = "idle" /\ drain = FALSE /\ joining = {} /\ owed = {}
  /\ crashes = 0 /\ faults = 0 /\ damage = 0
  /\ order = [v \in Vaults |-> <<>>]

-------------------------------------------------------------------------------
(* The job store.  A write replaces the file atomically, so it either takes  *)
(* effect or raises and changes nothing.                                     *)

Written(j, state, why) ==
  /\ disk' = [disk EXCEPT ![j] = state]
  /\ stage' = [stage EXCEPT ![j] = why]
  /\ UNCHANGED faults

\* The update was illegal, or it was legal and the write raised.
Refused(legal) ==
  /\ UNCHANGED store
  /\ IF legal THEN faults < MaxStoreFaults /\ faults' = faults + 1
              ELSE UNCHANGED faults

-------------------------------------------------------------------------------
(* JobQueue.submit, the body under the lock.                                 *)

Alive(t) == pc[t] # "dead"

\* Mutant: a worker is started whenever nothing is running.
NeedsWorkerWhenIdle(v) == running[v] = NoJob

\* _ensure_worker: no thread on file for v, or it is no longer alive.
NeedsWorker(v) == workers[v] = NoThread \/ ~Alive(workers[v])

\* A thread object nobody else still refers to.
Fresh(v, t) ==
  /\ pc[t] = "dead"
  /\ t \notin joining
  /\ \A w \in Vaults \ {v} : workers[w] # t

EnsureWorker(v) ==
  IF NeedsWorker(v)
  THEN \E t \in Threads :
         /\ Fresh(v, t)
         /\ workers' = [workers EXCEPT ![v] = t]
         /\ pc' = [pc EXCEPT ![t] = "loop"]
         /\ serves' = [serves EXCEPT ![t] = v]
         /\ UNCHANGED <<job, attempt, outcome>>
  ELSE UNCHANGED <<workers, threads>>

\* Mutant: appendleft.
EnqueueInFront(v, j) ==
  /\ pending' = [pending EXCEPT ![v] = <<j>> \o @]
  /\ event' = [event EXCEPT ![j] = "clear"]
  /\ EnsureWorker(v)
  /\ UNCHANGED <<running, results, stopping, order>>

Enqueue(v, j) ==
  /\ pending' = [pending EXCEPT ![v] = Append(@, j)]
  /\ event' = [event EXCEPT ![j] = "clear"]
  /\ EnsureWorker(v)
  /\ order' = IF \E i \in 1..Len(order[v]) : order[v][i] = j
              THEN order
              ELSE [order EXCEPT ![v] = Append(@, j)]
  /\ UNCHANGED <<running, results, stopping>>

-------------------------------------------------------------------------------
(* Services.submit_ingest, one handler per job.                              *)

Create(j) ==
  /\ phase = "up" /\ handler[j] = "idle" /\ disk[j] = "none"
  /\ disk' = [disk EXCEPT ![j] = "queued"]
  /\ handler' = [handler EXCEPT ![j] = "created"]
  /\ UNCHANGED <<stage, process, request, queue, threads, shutdownVars, bounds, order>>

Register(j) ==
  /\ phase = "up" /\ handler[j] = "created"
  /\ request' = request \union {j}
  /\ handler' = [handler EXCEPT ![j] = "registered"]
  /\ UNCHANGED <<store, process, queue, threads, shutdownVars, bounds, order>>

\* wait=false returns the id at once, wait=true goes on to JobQueue.wait.
Submit(j) ==
  /\ phase = "up" /\ handler[j] = "registered" /\ ~stopping
  /\ Enqueue(VaultOf[j], j)
  /\ \E next \in {"waiting", "closed"} : handler' = [handler EXCEPT ![j] = next]
  /\ UNCHANGED <<store, process, request, shutdownVars, bounds>>

\* RuntimeError("queue is shutting down"): the record and the request stay.
SubmitRefused(j) ==
  /\ phase = "up" /\ handler[j] = "registered" /\ stopping
  /\ handler' = [handler EXCEPT ![j] = "closed"]
  /\ UNCHANGED <<store, process, request, queue, threads, shutdownVars, bounds, order>>

\* JobQueue.wait returns the result, or times out and degrades to the id.
WaitEnds(j) ==
  /\ phase = "up" /\ handler[j] = "waiting"
  /\ event[j] \in {"clear", "set"}
  /\ handler' = [handler EXCEPT ![j] = "closed"]
  /\ UNCHANGED <<store, process, request, queue, threads, shutdownVars, bounds, order>>

-------------------------------------------------------------------------------
(* A worker thread: JobQueue._work around retrying_runner around _run_job.   *)

\* Mutant: off by one.
NothingToDoButOne(v) == stopping \/ Len(pending[v]) <= 1

NothingToDo(v) == stopping \/ pending[v] = <<>>

\* Mutant: pop() from the other end.
PoppedLast(q) == [head |-> q[Len(q)], rest |-> SubSeq(q, 1, Len(q) - 1)]

\* popleft
Popped(q) == [head |-> Head(q), rest |-> Tail(q)]

\* Mutant: a worker leaves only an empty queue.
ExitWhenEmpty(t) ==
  /\ pc[t] = "loop" /\ pending[serves[t]] = <<>>
  /\ workers' = [workers EXCEPT ![serves[t]] = NoThread]
  /\ pc' = [pc EXCEPT ![t] = "dead"]
  /\ serves' = [serves EXCEPT ![t] = NoVault]
  /\ UNCHANGED <<store, process, services, pending, running, event, results, stopping,
                 job, attempt, outcome, shutdownVars, bounds, order>>

\* Locked: the worker deregisters itself and returns.
Exit(t) ==
  /\ pc[t] = "loop" /\ NothingToDo(serves[t])
  /\ workers' = [workers EXCEPT ![serves[t]] = NoThread]
  /\ pc' = [pc EXCEPT ![t] = "dead"]
  /\ serves' = [serves EXCEPT ![t] = NoVault]
  /\ UNCHANGED <<store, process, services, pending, running, event, results, stopping,
                 job, attempt, outcome, shutdownVars, bounds, order>>

\* Locked: the worker takes the next job and announces it as running.
Take(t) ==
  LET v == serves[t]
      next == Popped(pending[v])
  IN
  /\ pc[t] = "loop" /\ ~NothingToDo(v)
  /\ pending' = [pending EXCEPT ![v] = next.rest]
  /\ running' = [running EXCEPT ![v] = next.head]
  /\ job' = [job EXCEPT ![t] = next.head]
  /\ attempt' = [attempt EXCEPT ![t] = 1]
  /\ pc' = [pc EXCEPT ![t] = "attempt"]
  /\ UNCHANGED <<store, process, services, workers, event, results, stopping,
                 serves, outcome, shutdownVars, bounds, order>>

\* Thread t goes on at `to` with a returned record or a raised exception.
Goto(t, to, with) ==
  /\ pc' = [pc EXCEPT ![t] = to]
  /\ outcome' = [outcome EXCEPT ![t] = with]
  /\ UNCHANGED <<locals, process, handler, queue, shutdownVars, crashes, damage, order>>

\* _run_job without an in-memory request: _orphan_fail.  Without a record it
\* returns a FAILED record that is stored nowhere.
Orphan(t) ==
  LET j == job[t]
      legal == CanForceFailed(disk[j])
  IN
  /\ pc[t] = "attempt" /\ j \notin request
  /\ \/ disk[j] = "none" /\ UNCHANGED <<store, faults>> /\ Goto(t, "annotate", "failed")
     \/ legal /\ Written(j, "failed", "restart") /\ Goto(t, "annotate", "failed")
     \/ disk[j] # "none" /\ Refused(legal) /\ Goto(t, "retry", "terminal")
  /\ UNCHANGED request

\* load_vault_config or LLMClient() raises, before the `try` of _run_job.
BadConfig(t) ==
  /\ pc[t] = "attempt" /\ job[t] \in request
  /\ Goto(t, "retry", "terminal")
  /\ UNCHANGED <<store, request, faults>>

\* IngestPipeline.run writes RUNNING before its `try`.
Begin(t) ==
  LET j == job[t]
      legal == disk[j] \in JobStates /\ CanTransition(disk[j], "running")
  IN
  /\ pc[t] = "attempt" /\ j \in request
  /\ \/ /\ legal /\ Written(j, "running", "none")
        /\ Goto(t, "ingest", "none")
        /\ UNCHANGED request
     \/ /\ Refused(legal)
        /\ Goto(t, "retry", "terminal")
        /\ request' = request \ {j}

\* What _run_job's `finally` leaves of the in-memory requests.
RequestsAfterRun(j) == request \ {j}

\* IngestPipeline.run returns the record it stored, or raises: transient (after
\* a rollback), or terminal (an exception it does not handle, a failed write).
Ingest(t) ==
  LET j == job[t] IN
  /\ pc[t] = "ingest"
  /\ request' = RequestsAfterRun(j)
  /\ \/ /\ MayUpdate(disk[j], "succeeded") /\ Written(j, "succeeded", "none")
        /\ Goto(t, "annotate", "succeeded")
     \/ /\ MayUpdate(disk[j], "failed") /\ Written(j, "failed", "pipeline")
        /\ Goto(t, "annotate", "failed")
     \/ \E raised \in {"transient", "terminal"} :
          UNCHANGED <<store, faults>> /\ Goto(t, "retry", raised)

\* run_with_retry: a transient failure is tried again while attempts remain.
MayRetry(t) == outcome[t] = "transient" /\ attempt[t] <= MaxRetries

Retry(t) ==
  /\ pc[t] = "retry" /\ MayRetry(t)
  /\ attempt' = [attempt EXCEPT ![t] = @ + 1]
  /\ pc' = [pc EXCEPT ![t] = "attempt"]
  /\ UNCHANGED <<store, process, services, queue, serves, job, outcome,
                 shutdownVars, bounds, order>>

GiveUp(t) ==
  /\ pc[t] = "retry" /\ ~MayRetry(t)
  /\ Goto(t, "exhaust", outcome[t])
  /\ UNCHANGED <<store, request, faults>>

\* A returned record is stored again, in the same state, with the attempt count.
Annotate(t) ==
  LET j == job[t]
      legal == MayUpdate(disk[j], outcome[t])
  IN
  /\ pc[t] = "annotate"
  /\ \/ legal /\ Written(j, outcome[t], stage[j]) /\ Goto(t, "finish", outcome[t])
     \/ Refused(legal) /\ Goto(t, "force", "terminal")
  /\ UNCHANGED request

\* The rest of retrying_runner.run: the job fails as "retry-exhausted".
Exhaust(t) ==
  LET j == job[t]
      legal == CanForceFailed(disk[j])
  IN
  /\ pc[t] = "exhaust"
  /\ \/ legal /\ Written(j, "failed", "retry-exhausted") /\ Goto(t, "finish", "failed")
     \/ Refused(legal) /\ Goto(t, "force", "terminal")
  /\ UNCHANGED request

\* Mutants: the handler handles its own failure, by publishing the exception,
\* or a FAILED record it did not store.
ForceFailRaising(t) ==
  LET j == job[t]
      legal == CanForceFailed(disk[j])
  IN
  /\ pc[t] = "force"
  /\ \/ legal /\ Written(j, "failed", "worker") /\ Goto(t, "finish", "failed")
     \/ Refused(legal) /\ Goto(t, "finish", "terminal")
  /\ UNCHANGED request

ForceFailInMemory(t) ==
  LET j == job[t]
      legal == CanForceFailed(disk[j])
  IN
  /\ pc[t] = "force"
  /\ \/ legal /\ Written(j, "failed", "worker")
     \/ Refused(legal)
  /\ Goto(t, "finish", "failed")
  /\ UNCHANGED request

\* The runner raised: JobQueue._force_fail, itself outside any handler.  What
\* it raises ends the thread.
ForceFail(t) ==
  LET j == job[t]
      legal == CanForceFailed(disk[j])
  IN
  /\ pc[t] = "force"
  /\ \/ legal /\ Written(j, "failed", "worker") /\ Goto(t, "finish", "failed")
     \/ Refused(legal) /\ Goto(t, "dying", "terminal")
  /\ UNCHANGED request

\* Until now is_alive() still held.  _workers and _running keep their entries.
Die(t) ==
  /\ pc[t] = "dying"
  /\ pc' = [pc EXCEPT ![t] = "dead"]
  /\ serves' = [serves EXCEPT ![t] = NoVault]
  /\ job' = [job EXCEPT ![t] = NoJob]
  /\ attempt' = [attempt EXCEPT ![t] = 0]
  /\ outcome' = [outcome EXCEPT ![t] = "none"]
  /\ UNCHANGED <<store, process, services, queue, shutdownVars, bounds, order>>

\* Locked: the job leaves `running` and its result is published ...
Finish(t) ==
  /\ pc[t] = "finish"
  /\ running' = [running EXCEPT ![serves[t]] = NoJob]
  /\ results' = [results EXCEPT ![job[t]] = outcome[t]]
  /\ pc' = [pc EXCEPT ![t] = "signal"]
  /\ UNCHANGED <<store, process, services, pending, workers, event, stopping,
                 locals, outcome, shutdownVars, bounds, order>>

\* Mutant: waiters are woken for a success only.
SignalSuccess(t) ==
  /\ pc[t] = "signal"
  /\ event' = IF outcome[t] = "succeeded" THEN [event EXCEPT ![job[t]] = "set"] ELSE event
  /\ pc' = [pc EXCEPT ![t] = "loop"]
  /\ job' = [job EXCEPT ![t] = NoJob]
  /\ attempt' = [attempt EXCEPT ![t] = 0]
  /\ outcome' = [outcome EXCEPT ![t] = "none"]
  /\ UNCHANGED <<store, process, services, pending, running, workers, results, stopping,
                 serves, shutdownVars, bounds, order>>

\* ... and after the lock is released, the waiters are woken.
Signal(t) ==
  /\ pc[t] = "signal"
  /\ event' = [event EXCEPT ![job[t]] = "set"]
  /\ pc' = [pc EXCEPT ![t] = "loop"]
  /\ job' = [job EXCEPT ![t] = NoJob]
  /\ attempt' = [attempt EXCEPT ![t] = 0]
  /\ outcome' = [outcome EXCEPT ![t] = "none"]
  /\ UNCHANGED <<store, process, services, pending, running, workers, results, stopping,
                 serves, shutdownVars, bounds, order>>

Worker(t) ==
  \/ Exit(t) \/ Take(t) \/ Orphan(t) \/ BadConfig(t) \/ Begin(t) \/ Ingest(t)
  \/ Retry(t) \/ GiveUp(t) \/ Annotate(t) \/ Exhaust(t) \/ ForceFail(t) \/ Die(t)
  \/ Finish(t) \/ Signal(t)

-------------------------------------------------------------------------------
(* JobQueue.shutdown(drain, timeout=None).                                   *)

\* Mutant: the flag is raised in either mode.
ShutdownAlwaysStops ==
  /\ MayShutdown /\ phase = "up" /\ stopper = "idle"
  /\ drain' \in BOOLEAN
  /\ stopping' = TRUE
  /\ stopper' = "snapshot"
  /\ owed' = {j \in Jobs : event[j] = "clear"}
  /\ UNCHANGED <<store, process, services, pending, running, workers, event, results,
                 threads, joining, bounds, order>>

\* drain=False raises the flag, before the lock is taken.
Shutdown ==
  /\ MayShutdown /\ phase = "up" /\ stopper = "idle"
  /\ drain' \in BOOLEAN
  /\ stopping' = (stopping \/ ~drain')
  /\ stopper' = "snapshot"
  /\ owed' = {j \in Jobs : event[j] = "clear"}
  /\ UNCHANGED <<store, process, services, pending, running, workers, event, results,
                 threads, joining, bounds, order>>

\* Locked: workers = list(self._workers.values())
WorkersOnFile == {workers[v] : v \in Vaults} \ {NoThread}

Snapshot ==
  /\ phase = "up" /\ stopper = "snapshot"
  /\ joining' = WorkersOnFile
  /\ stopper' = "joining"
  /\ UNCHANGED <<store, process, services, queue, threads, drain, owed, bounds, order>>

Join(t) ==
  /\ phase = "up" /\ stopper = "joining"
  /\ t \in joining /\ ~Alive(t)
  /\ joining' = joining \ {t}
  /\ UNCHANGED <<store, process, services, queue, threads, stopper, drain, owed, bounds, order>>

ShutdownReturns ==
  /\ phase = "up" /\ stopper = "joining" /\ joining = {}
  /\ stopper' = "returned"
  /\ UNCHANGED <<store, process, services, queue, threads, drain, joining, owed, bounds, order>>

-------------------------------------------------------------------------------
(* The process dies, is started again, and recovers before it serves.        *)

\* Everything but the state dir is lost.
Crash ==
  /\ phase # "down" /\ crashes < MaxCrashes
  /\ crashes' = crashes + 1
  /\ phase' = "down"
  /\ todo' = {}
  /\ request' = {}
  /\ handler' = [j \in Jobs |-> IF handler[j] = "idle" THEN "idle" ELSE "closed"]
  /\ pending' = [v \in Vaults |-> <<>>]
  /\ running' = [v \in Vaults |-> NoJob]
  /\ workers' = [v \in Vaults |-> NoThread]
  /\ event' = [j \in Jobs |-> "none"]
  /\ results' = [j \in Jobs |-> "none"]
  /\ stopping' = FALSE
  /\ pc' = [t \in Threads |-> "dead"]
  /\ serves' = [t \in Threads |-> NoVault]
  /\ job' = [t \in Threads |-> NoJob]
  /\ attempt' = [t \in Threads |-> 0]
  /\ outcome' = [t \in Threads |-> "none"]
  /\ stopper' = "idle" /\ drain' = FALSE /\ joining' = {} /\ owed' = {}
  /\ UNCHANGED <<store, faults, damage, order>>

\* A record the new version of the code cannot parse, or a damaged file.
Damage(j) ==
  /\ phase = "down" /\ damage < MaxDamage
  /\ disk[j] \in JobStates
  /\ disk' = [disk EXCEPT ![j] = "unreadable"]
  /\ damage' = damage + 1
  /\ UNCHANGED <<stage, process, services, queue, threads, shutdownVars, crashes, faults, order>>

\* Mutant: retention looks at the age of a record, not at its state.
RestartSweepingAll ==
  /\ phase = "down"
  /\ phase' = "recovering"
  /\ \E old \in SUBSET Jobs :
       /\ disk' = [j \in Jobs |-> IF j \in old THEN "none" ELSE disk[j]]
       /\ todo' = {j \in Jobs : disk'[j] # "none"}
  /\ UNCHANGED <<stage, services, queue, threads, shutdownVars, bounds, order>>

\* sweep drops terminal records past retention, then list_ids is read, once.
Restart ==
  /\ phase = "down"
  /\ phase' = "recovering"
  /\ \E old \in SUBSET {j \in Jobs : disk[j] \in TERMINAL_JOB_STATES} :
       /\ disk' = [j \in Jobs |-> IF j \in old THEN "none" ELSE disk[j]]
       /\ todo' = {j \in Jobs : disk'[j] # "none"}
  /\ UNCHANGED <<stage, services, queue, threads, shutdownVars, bounds, order>>

\* The iteration of recover_on_startup's loop for job j.
Visiting(j) ==
  /\ phase = "recovering" /\ j \in todo
  /\ \A k \in todo : IdRank[j] <= IdRank[k]

RecoverUnreadable(j) ==
  /\ Visiting(j) /\ disk[j] = "unreadable"
  /\ disk' = [disk EXCEPT ![j] = "none"]   \* moved to jobs/quarantine/
  /\ todo' = todo \ {j}
  /\ UNCHANGED <<stage, phase, services, queue, threads, shutdownVars, bounds, order>>

RecoverSkip(j) ==
  /\ Visiting(j) /\ disk[j] \in TERMINAL_JOB_STATES \union {"none"}
  /\ todo' = todo \ {j}
  /\ UNCHANGED <<store, phase, services, queue, threads, shutdownVars, bounds, order>>

\* Mutant: the repository is rolled back, the record is not failed.
RecoverWithoutFailing(j) ==
  /\ Visiting(j) /\ disk[j] = "running"
  /\ todo' = todo \ {j}
  /\ UNCHANGED <<store, phase, services, queue, threads, shutdownVars, bounds, order>>

\* An interrupted job is never resumed.  (The rollback of its repository is in
\* IngestPipeline; a write that raises here ends the process: Crash.)
RecoverInterrupted(j) ==
  /\ Visiting(j) /\ disk[j] = "running"
  /\ Written(j, "failed", "restart")
  /\ todo' = todo \ {j}
  /\ UNCHANGED <<phase, services, queue, threads, shutdownVars, crashes, damage, order>>

\* Mutant: queued jobs are only reported.
RecoverReporting(j) ==
  /\ Visiting(j) /\ disk[j] = "queued"
  /\ todo' = todo \ {j}
  /\ UNCHANGED <<store, phase, services, queue, threads, shutdownVars, bounds, order>>

\* A queued job is enqueued again; its worker starts before recovery ends.
RecoverQueued(j) ==
  /\ Visiting(j) /\ disk[j] = "queued"
  /\ Enqueue(VaultOf[j], j)
  /\ todo' = todo \ {j}
  /\ UNCHANGED <<store, phase, services, shutdownVars, bounds>>

\* lifespan yields: the server accepts requests.
Serve ==
  /\ phase = "recovering" /\ todo = {}
  /\ phase' = "up"
  /\ UNCHANGED <<store, todo, services, queue, threads, shutdownVars, bounds, order>>

Handler(j) == Create(j) \/ Register(j) \/ Submit(j) \/ SubmitRefused(j) \/ WaitEnds(j)

Recover(j) == RecoverUnreadable(j) \/ RecoverSkip(j) \/ RecoverInterrupted(j) \/ RecoverQueued(j)

Stop == Shutdown \/ Snapshot \/ (\E t \in Threads : Join(t)) \/ ShutdownReturns

Next ==
  \/ \E j \in Jobs : Handler(j) \/ Recover(j) \/ Damage(j)
  \/ \E t \in Threads : Worker(t)
  \/ Stop
  \/ Crash \/ Restart \/ Serve

Spec == Init /\ [][Next]_vars

\* Threads are scheduled; every external call of an ingest is bounded by a
\* timeout or ends with its process; the container is restarted
\* (docker-compose.yml, `restart: unless-stopped`).  Nobody has to submit,
\* to shut down, or to crash.
Fairness ==
  /\ \A t \in Threads : WF_vars(Worker(t)) /\ WF_vars(Join(t))
  /\ \A j \in Jobs : WF_vars(Register(j)) /\ WF_vars(Submit(j)) /\ WF_vars(Recover(j))
  /\ WF_vars(Restart) /\ WF_vars(Serve)
  /\ WF_vars(Snapshot) /\ WF_vars(ShutdownReturns)

FairSpec == Spec /\ Fairness

-------------------------------------------------------------------------------
(* Observers.                                                                *)

InFlight(j) == \E t \in Threads : job[t] = j

Waiting(v) == {pending[v][i] : i \in 1..Len(pending[v])}

\* JobQueue.position_of, 0 while running, NoPosition once out of the queue.
NoPosition == Cardinality(Jobs) + 1

Position(j) ==
  LET v == VaultOf[j] IN
  IF event[j] = "none" THEN NoPosition
  ELSE IF running[v] = j THEN 0
  ELSE IF j \in Waiting(v) THEN CHOOSE i \in 1..Len(pending[v]) : pending[v][i] = j
  ELSE NoPosition

-------------------------------------------------------------------------------
(* Properties.                                                               *)

\* What makes the next property inductive: a live thread is the one on file for
\* the vault it serves.  While it runs a job it has a job, and what it is about
\* to publish is an outcome and not an exception.
WorkerInv ==
  \A t \in Threads :
    /\ Alive(t) => serves[t] \in Vaults /\ workers[serves[t]] = t
    /\ pc[t] \notin {"dead", "loop"} => job[t] \in Jobs
    /\ pc[t] \in {"annotate", "finish", "signal"} => outcome[t] \in TERMINAL_JOB_STATES

\* "One ingest at a time within a vault" (queue.py): whatever the interleaving
\* of submits, exits, dying threads, recovery and restarts, no two live threads
\* serve the same vault.
OneWorkerPerVault ==
  \A t, u \in Threads : Alive(t) /\ Alive(u) /\ serves[t] = serves[u] => t = u

\* A client that lists the jobs never sees two RUNNING records of one vault,
\* not even across a restart, unless a record write failed.
OneRunningRecordPerVault ==
  faults = 0 =>
    \A j, k \in Jobs :
      disk[j] = "running" /\ disk[k] = "running" /\ VaultOf[j] = VaultOf[k] => j = k

\* No lost wake-up between a worker that exits and a submit that sees it: a
\* vault with pending jobs has a live worker that will come back for them.
NoStrandedWork ==
  faults = 0 /\ ~stopping =>
    \A v \in Vaults : pending[v] # <<>> =>
      \E t \in Threads : Alive(t) /\ pc[t] # "dying" /\ serves[t] = v

\* Once the process serves, every job with an unsettled record is somewhere: in
\* its handler's hands, in its vault's deque, with a worker, or refused by a
\* stopping queue.
NoForgottenJob ==
  faults = 0 /\ phase = "up" =>
    \A j \in Jobs : disk[j] \in {"queued", "running"} =>
      \/ handler[j] \in {"created", "registered"}
      \/ j \in Waiting(VaultOf[j])
      \/ InFlight(j)
      \/ stopping /\ event[j] = "none"

\* A job is never overtaken: its reported position only decreases.
PositionNeverGrows ==
  [][\A j \in Jobs :
       event[j] = "clear" /\ event'[j] = "clear" /\ faults' = 0 =>
         \/ Position(j)' <= Position(j)
         \/ results'[j] # "none"]_vars

\* A job has started once a worker has it, or its record has left QUEUED.
Started(j) == InFlight(j) \/ disk[j] # "queued"

\* Within one process life, the jobs of a vault start in the order in which
\* they were enqueued.  (A worker whose writes fail may die and leave its job
\* QUEUED while the next one starts.)
FirstInFirstOut ==
  crashes = 0 /\ faults = 0 =>
    \A v \in Vaults : \A b \in 1..Len(order[v]) : \A a \in 1..b :
      Started(order[v][b]) => Started(order[v][a])

\* A terminal record is final: later writes of the same run, of the queue's
\* last-resort handler or of recovery never turn it into another outcome.
OutcomeNeverRevised ==
  [][\A j \in Jobs : disk[j] \in TERMINAL_JOB_STATES =>
       disk'[j] \in {disk[j], "none", "unreadable"}]_vars

\* What wait=true answers is what GET /jobs/<id> answers from then on: a set
\* event has a result, and a result is the stored outcome.
AnswerIsDurable ==
  \A j \in Jobs :
    /\ event[j] = "set" => results[j] # "none"
    /\ results[j] # "none" => disk[j] = results[j]

\* shutdown(drain=True) returns only after every job that was in the queue when
\* it was called has been finished and its waiters woken; after drain=False no
\* worker is left, none is started again, and what is still pending is QUEUED in
\* the store.
ShutdownIsOrderly ==
  stopper = "returned" =>
    IF drain
    THEN faults = 0 => \A j \in owed : event[j] = "set"
    ELSE /\ \A t \in Threads : ~Alive(t)
         /\ \A v \in Vaults : \A j \in Waiting(v) : disk[j] = "queued"

\* --- What the documentation says and the code does not do. ---

\* "Transient errors retry up to twice with backoff" (docs/requirements.md
\* 12.2): a retry runs the ingest again, so while the process has not been
\* restarted no job fails with "ingest request was lost on restart".
NoRestartFailureWithoutRestart ==
  crashes = 0 => \A j \in Jobs : stage[j] # "restart"

\* "Queued and running jobs recoverable from the state dir"
\* (docs/requirements.md 14): a job that was still QUEUED when the process
\* died is not failed because of the restart.
QueuedJobsAreRecoverable ==
  [][\A j \in Jobs : disk[j] = "queued" /\ disk'[j] = "failed" => stage'[j] # "restart"]_vars

\* "re-enqueues a queued job (order preserved)" (recovery.py): jobs of a vault
\* start in submission order, restarts included.
OrderPreservedByRestart ==
  \A v \in Vaults : \A b \in 1..Len(order[v]) : \A a \in 1..b :
    Started(order[v][b]) => Started(order[v][a])

\* "rolls the vault back to clean, and only then lets the queue accept new
\* work" (recovery.py): while a vault still has an interrupted job to be
\* rolled back, no worker serves it.
RecoveryPrecedesWork ==
  \A t \in Threads : \A j \in todo :
    Alive(t) /\ disk[j] = "running" => serves[t] # VaultOf[j]

\* "A failed job never blocks the queue - it is recorded and the vault's queue
\* proceeds to the next job" (docs/requirements.md 12.2).
QueueProceeds == \A v \in Vaults : pending[v] # <<>> ~> pending[v] = <<>>

\* --- Refinement and liveness. ---

\* The records implement the ledger of JobLedger.tla.
LedgerView == [j \in Jobs |->
  IF disk[j] # "none" THEN disk[j] ELSE IF handler[j] = "idle" THEN "absent" ELSE "gone"]

Ledger == INSTANCE JobLedger WITH ledger <- LedgerView

\* Crashes, restarts, retention and all, the job records behave as the ledger.
ImplementsLedger == Ledger!Spec

\* ... and every accepted job is settled in the end.
EveryJobSettles == Ledger!EveryJobSettles

\* A caller blocked in wait() is woken, unless its process dies.
EveryWaiterWakes == \A j \in Jobs : event[j] = "clear" ~> event[j] # "clear"

\* shutdown() returns, whatever is submitted meanwhile.
ShutdownTerminates == stopper = "snapshot" ~> stopper # "snapshot" /\ stopper # "joining"

===============================================================================
