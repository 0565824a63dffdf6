--------------------------- MODULE JobSteadyProofs ---------------------------
(***************************************************************************)
(* Proofs about JobQueue: what is never lost or overtaken.  From the       *)
(* custody of each job (JobQueueProofs) follow an orderly shutdown and,    *)
(* while no record write has failed, that no wake-up is lost, that no job  *)
(* is forgotten or overtaken, and that a vault has one RUNNING record; the *)
(* records then implement JobLedger.                                       *)
(***************************************************************************)
EXTENDS JobQueueProofs

-------------------------------------------------------------------------------
(* The invariants.                                                           *)

StopInv ==
  /\ stopping <=> stopper # "idle" /\ ~drain
  /\ stopper = "returned" => joining = {}
  /\ stopper \in {"joining", "returned"} /\ ~drain =>
       \A t \in Threads : Alive(t) => t \in joining

\* --- While no record write has failed. ---

\* What a worker may find in the store at each of its steps.
Steady(t) ==
  /\ pc[t] \notin {"force", "dying"}
  /\ pc[t] = "attempt" =>
       disk[job[t]] = "queued" \/ (disk[job[t]] = "running" /\ job[t] \notin request)
  /\ pc[t] = "ingest" => disk[job[t]] = "running"
  /\ pc[t] \in {"retry", "exhaust"} => disk[job[t]] \in {"queued", "running"}
  /\ pc[t] = "retry" /\ outcome[t] = "transient" =>
       disk[job[t]] = "running" /\ job[t] \notin request
  /\ pc[t] = "annotate" => disk[job[t]] = outcome[t]

\* The place of a job that is not settled.
Placed(j) ==
  /\ disk[j] = "running" => phase = "down" \/ j \in todo \/ InFlight(j)
  /\ disk[j] = "queued" =>
       \/ phase = "down" \/ j \in todo
       \/ handler[j] \in {"created", "registered"}
       \/ j \in Waiting(VaultOf[j]) \/ InFlight(j)
       \/ stopping /\ event[j] = "none"
  /\ event[j] = "clear" => j \in Waiting(VaultOf[j]) \/ InFlight(j)

SteadyInv ==
  faults = 0 =>
    /\ \A t \in Threads : Steady(t)
    /\ \A j \in Jobs : Placed(j)
    /\ \A v \in Vaults : pending[v] # <<>> /\ ~stopping => ~NeedsWorker(v)
    /\ \A j, k \in Jobs :
         disk[j] = "running" /\ disk[k] = "running" /\ VaultOf[j] = VaultOf[k] => j = k

\* What shutdown(drain=True) still has to wait for is with a thread it joins.
DrainInv ==
  faults = 0 /\ drain =>
    /\ \A j \in owed : event[j] # "none"
    /\ stopper \in {"joining", "returned"} =>
         \A j \in owed : event[j] = "set" \/ workers[VaultOf[j]] \in joining

\* The deque is the end of the order of submission, and the first n have started.
Aligned(o, p, n) == Len(o) = n + Len(p) /\ \A i \in 1..Len(p) : o[n + i] = p[i]

OrderInv(v) ==
  /\ \E n \in Nat : Aligned(order[v], pending[v], n) /\ \A i \in 1..n : Started(order[v][i])
  /\ \A i \in 1..Len(order[v]) : event[order[v][i]] # "none"

FirstInv == crashes = 0 /\ faults = 0 => \A v \in Vaults : OrderInv(v)

-------------------------------------------------------------------------------
(* Shutdown.                                                                 *)

LEMMA StopStep == IInv /\ Custody /\ StopInv /\ [Next]_vars => StopInv'
<1>. SUFFICES ASSUME TypeOK, WorkerInv, PhaseInv, StopInv, [Next]_vars PROVE StopInv'
  BY DEF IInv, Custody
<1>. USE DEF store, process, services, queue, locals, threads, shutdownVars
<1>0. UNCHANGED <<stopping, stopper, drain, joining>> /\ (\A t \in Threads : Alive(t)' => Alive(t))
        => StopInv'
  BY DEF StopInv
<1>1. ASSUME NEW v \in Vaults, NEW j \in Jobs, Enqueue(v, j),
             UNCHANGED <<stopper, drain, joining>>, stopper = "idle" \/ ~stopping
      PROVE  StopInv'
  BY <1>1 DEF StopInv, Enqueue
<1>2. ASSUME NEW j \in Jobs, Handler(j) PROVE StopInv'
  <2>1. CASE Submit(j)
    BY <1>1, <2>1, ConstantsAssumption DEF Submit
  <2>2. CASE ~Submit(j)
    BY <1>0, <1>2, <2>2 DEF Handler, Create, Register, SubmitRefused, WaitEnds, Alive
  <2> QED BY <2>1, <2>2
<1>3. ASSUME NEW j \in Jobs, Recover(j) PROVE StopInv'
  <2>1. CASE RecoverQueued(j)
    <3>1. stopper = "idle"
      BY <2>1 DEF RecoverQueued, Visiting, PhaseInv
    <3> QED BY <1>1, <2>1, <3>1, ConstantsAssumption DEF RecoverQueued
  <2>2. CASE ~RecoverQueued(j)
    BY <1>0, <1>3, <2>2 DEF Recover, RecoverUnreadable, RecoverSkip, RecoverInterrupted, Alive
  <2> QED BY <2>1, <2>2
<1>4. ASSUME NEW t \in Threads, Worker(t) PROVE StopInv'
  <2>1. UNCHANGED <<stopping, stopper, drain, joining>>
    BY <1>4 DEF Worker, Exit, Take, Orphan, BadConfig, Begin, Ingest, Retry, GiveUp, Annotate,
                Exhaust, ForceFail, Die, Finish, Signal, Goto
  <2>2. Alive(t) /\ \A u \in Threads : u # t => pc'[u] = pc[u]
    BY <1>4 DEF TypeOK, Alive, Worker, Exit, Take, Orphan, BadConfig, Begin, Ingest, Retry, GiveUp,
                Annotate, Exhaust, ForceFail, Die, Finish, Signal, Goto
  <2> QED BY <1>0, <2>1, <2>2 DEF Alive
<1>5. CASE Shutdown
  BY <1>5 DEF Shutdown, StopInv, TypeOK
<1>6. CASE Snapshot
  <2>1. \A t \in Threads : Alive(t) => t \in WorkersOnFile
    BY ConstantsAssumption DEF WorkerInv, WorkersOnFile
  <2> QED BY <1>6, <2>1 DEF Snapshot, StopInv, Alive
<1>7. ASSUME NEW t \in Threads, Join(t) PROVE StopInv'
  BY <1>7 DEF Join, StopInv, Alive
<1>8. CASE ShutdownReturns
  BY <1>8 DEF ShutdownReturns, StopInv, Alive
<1>9. CASE Crash
  BY <1>9 DEF Crash, StopInv, Alive
<1>10. CASE Restart \/ Serve \/ (\E j \in Jobs : Damage(j)) \/ UNCHANGED vars
  BY <1>0, <1>10 DEF Restart, Serve, Damage, vars, Alive
<1> QED BY <1>2, <1>3, <1>4, <1>5, <1>6, <1>7, <1>8, <1>9, <1>10 DEF Next, Stop

-------------------------------------------------------------------------------
(* Steps that no thread of the queue takes, and other threads' steps.        *)

LEMMA FaultsStay == TypeOK /\ [Next]_vars /\ faults' = 0 => faults = 0
<1>. SUFFICES ASSUME TypeOK, [Next]_vars, faults' = 0 PROVE faults = 0
  OBVIOUS
<1>. USE DEF bounds
<1>0. faults' = faults \/ faults' = faults + 1 => faults = 0
  BY DEF TypeOK
<1>1. ASSUME NEW t \in Threads, Worker(t) PROVE faults = 0
  BY <1>0, <1>1 DEF Worker, Exit, Take, Orphan, BadConfig, Begin, Ingest, Retry, GiveUp, Annotate,
                Exhaust, ForceFail, Die, Finish, Signal, Goto, Written, Refused
<1>2. ASSUME NEW j \in Jobs, Handler(j) \/ Recover(j) \/ Damage(j) PROVE faults = 0
  BY <1>0, <1>2 DEF Handler, Create, Register, Submit, SubmitRefused, WaitEnds, Recover,
       RecoverUnreadable, RecoverSkip, RecoverInterrupted, RecoverQueued, Damage, Written
<1>3. CASE Stop \/ Crash \/ Restart \/ Serve \/ UNCHANGED vars
  BY <1>0, <1>3 DEF Stop, Shutdown, Snapshot, Join, ShutdownReturns, Crash, Restart, Serve, vars
<1> QED BY <1>1, <1>2, <1>3 DEF Next

\* What the rest of the program leaves a thread that is inside a job.
Frame(u) ==
  /\ pc'[u] = pc[u] /\ job'[u] = job[u] /\ outcome'[u] = outcome[u]
  /\ disk'[job[u]] = disk[job[u]]
  /\ job[u] \notin request => job[u] \notin request'

LEMMA FrameWorker ==
  ASSUME TypeOK, WorkerInv, Custody, NEW t \in Threads, Worker(t),
         NEW u \in Threads, Holding(u), u # t
  PROVE  Frame(u)
<1>. USE DEF store, services, queue, locals, threads
<1>1. pc'[u] = pc[u] /\ job'[u] = job[u] /\ outcome'[u] = outcome[u]
  BY DEF TypeOK, Worker, Exit, Take, Orphan, BadConfig, Begin, Ingest, Retry, GiveUp, Annotate,
         Exhaust, ForceFail, Die, Finish, Signal, Goto
<1>2. request' \subseteq request
  BY DEF Worker, Exit, Take, Orphan, BadConfig, Begin, Ingest, Retry, GiveUp, Annotate,
         Exhaust, ForceFail, Die, Finish, Signal, Goto, RequestsAfterRun
<1>3. job[u] \in Jobs /\ (Holding(t) => job[t] \in Jobs /\ job[u] # job[t])
  BY OneHolder DEF WorkerInv, Holding
<1>4. disk'[job[u]] = disk[job[u]]
  <2>1. CASE Exit(t) \/ Take(t) \/ BadConfig(t) \/ Retry(t) \/ GiveUp(t) \/ Die(t)
             \/ Finish(t) \/ Signal(t)
    BY <2>1 DEF Exit, Take, BadConfig, Retry, GiveUp, Die, Finish, Signal
  <2>2. CASE Orphan(t) \/ Begin(t) \/ Ingest(t) \/ Annotate(t) \/ Exhaust(t) \/ ForceFail(t)
    <3>1. Holding(t)
      BY <2>2 DEF Holding, Orphan, Begin, Ingest, Annotate, Exhaust, ForceFail
    <3>2. disk' = disk \/ \E state, why : Written(job[t], state, why)
      BY <2>2 DEF Orphan, Begin, Ingest, Annotate, Exhaust, ForceFail, Refused
    <3> QED BY <1>3, <3>1, <3>2, WrittenRecords
  <2> QED BY <2>1, <2>2 DEF Worker
<1> QED BY <1>1, <1>2, <1>4 DEF Frame

LEMMA FrameOther ==
  ASSUME TypeOK, WorkerInv, Custody, NEW u \in Threads, Holding(u),
         \/ \E j \in Jobs : Handler(j) \/ Recover(j) \/ Damage(j)
         \/ Stop \/ Restart \/ Serve \/ UNCHANGED vars
  PROVE  Frame(u)
<1>. USE DEF store, process, services, queue, threads
<1>1. /\ job[u] \in Jobs /\ event[job[u]] = "clear" /\ handler[job[u]] \in {"waiting", "closed"}
      /\ job[u] \notin todo /\ phase # "down"
  BY DEF Holding, WorkerInv, Custody, ThreadInv, JobInv, PhaseInv, Alive
<1>2. ASSUME NEW v \in Vaults, NEW j \in Jobs, Enqueue(v, j)
      PROVE  pc'[u] = pc[u] /\ job'[u] = job[u] /\ outcome'[u] = outcome[u]
  BY <1>2 DEF TypeOK, Enqueue, EnsureWorker, Fresh, Holding
<1>3. ASSUME NEW j \in Jobs, Handler(j) PROVE Frame(u)
  <2>1. CASE Submit(j)
    BY <1>2, <2>1, ConstantsAssumption DEF Submit, Frame
  <2>2. CASE Create(j)
    BY <1>1, <2>2 DEF TypeOK, Create, Frame
  <2>3. CASE Register(j) \/ SubmitRefused(j) \/ WaitEnds(j)
    BY <1>1, <2>3 DEF Register, SubmitRefused, WaitEnds, Frame
  <2> QED BY <1>3, <2>1, <2>2, <2>3 DEF Handler
<1>4. ASSUME NEW j \in Jobs, Recover(j) PROVE Frame(u)
  <2>1. CASE RecoverQueued(j)
    BY <1>2, <2>1, ConstantsAssumption DEF RecoverQueued, Frame
  <2>2. CASE RecoverUnreadable(j) \/ RecoverSkip(j) \/ RecoverInterrupted(j)
    BY <1>1, <2>2 DEF TypeOK, RecoverUnreadable, RecoverSkip, RecoverInterrupted, Visiting, Written,
                      Frame
  <2> QED BY <1>4, <2>1, <2>2 DEF Recover
<1>5. ASSUME NEW j \in Jobs, Damage(j) PROVE Frame(u)
  BY <1>1, <1>5 DEF Damage
<1>6. CASE Stop \/ Restart \/ Serve \/ UNCHANGED vars
  BY <1>1, <1>6 DEF Stop, Shutdown, Snapshot, Join, ShutdownReturns, Restart, Serve, vars, Frame
<1> QED BY <1>3, <1>4, <1>5, <1>6

-------------------------------------------------------------------------------
(* What a worker finds in the store.                                         *)

\* Unless a write fails, an update that may be made is made.
LEMMA NoRefusal ==
  ASSUME TypeOK, NEW legal, Refused(legal), faults' = 0
  PROVE  ~legal /\ disk' = disk
BY DEF TypeOK, Refused, store

LEMMA LegalUpdates ==
  /\ CanTransition("queued", "running")
  /\ CanForceFailed("queued") /\ CanForceFailed("running")
  /\ \A state \in TERMINAL_JOB_STATES : MayUpdate(state, state)
  /\ ~CanForceFailed("succeeded") /\ ~CanForceFailed("failed")
BY DEF CanTransition, CanForceFailed, MayUpdate, JobStates, TERMINAL_JOB_STATES,
       LEGAL_JOB_TRANSITIONS

LEMMA SteadyWorker ==
  ASSUME TypeOK, WorkerInv, Custody, NEW t \in Threads, Steady(t), Worker(t), faults' = 0
  PROVE  Steady(t)'
<1>. USE DEF store, services, queue, locals, threads
<1>a. Holding(t) => job[t] \in Jobs
  BY DEF WorkerInv, Holding
<1>1. CASE Exit(t) \/ Signal(t)
  BY <1>1 DEF TypeOK, Exit, Signal, Steady
<1>2. CASE Take(t)
  <2>1. serves[t] \in Vaults /\ pending[serves[t]] \in Seq(Jobs) /\ pending[serves[t]] # <<>>
    BY <1>2 DEF TypeOK, WorkerInv, Alive, Take, NothingToDo
  <2>2. disk[pending[serves[t]][1]] = "queued"
    BY <2>1 DEF Custody, QueueInv, Untouched
  <2>3. disk'[job'[t]] = "queued" /\ pc'[t] = "attempt"
    BY <1>2, <2>1, <2>2 DEF TypeOK, Take, Popped
  <2> QED BY <2>3 DEF Steady
<1>3. CASE Orphan(t)
  <2>1. job[t] \in Jobs /\ job' = job /\ pc[t] = "attempt" /\ disk[job[t]] \in {"queued", "running"}
    BY <1>3, <1>a DEF Orphan, Holding, Goto, Steady
  <2>2. ~Refused(CanForceFailed(disk[job[t]]))
    BY <2>1, NoRefusal, LegalUpdates
  <2>3. Written(job[t], "failed", "restart") /\ Goto(t, "annotate", "failed")
    BY <1>3, <2>1, <2>2 DEF Orphan
  <2>4. disk'[job'[t]] = "failed" /\ pc'[t] = "annotate" /\ outcome'[t] = "failed"
    BY <2>1, <2>3, WrittenRecords DEF TypeOK, Goto
  <2> QED BY <2>4 DEF Steady
<1>4. CASE BadConfig(t)
  <2>1. /\ job' = job /\ disk' = disk /\ disk[job[t]] = "queued" /\ pc'[t] = "retry"
        /\ outcome'[t] = "terminal"
    BY <1>4 DEF TypeOK, BadConfig, Goto, Steady
  <2> QED BY <2>1 DEF Steady
<1>5. CASE Begin(t)
  <2>1. job[t] \in Jobs /\ job' = job /\ disk[job[t]] = "queued"
    BY <1>5, <1>a DEF Begin, Holding, Goto, Steady
  <2>2. ~Refused(disk[job[t]] \in JobStates /\ CanTransition(disk[job[t]], "running"))
    BY <2>1, NoRefusal, LegalUpdates DEF JobStates
  <2>3. Written(job[t], "running", "none") /\ Goto(t, "ingest", "none")
    BY <1>5, <2>2 DEF Begin
  <2>4. disk'[job'[t]] = "running" /\ pc'[t] = "ingest" /\ outcome'[t] = "none"
    BY <2>1, <2>3, WrittenRecords DEF TypeOK, Goto
  <2> QED BY <2>4 DEF Steady
<1>6. CASE Ingest(t)
  <2>1. /\ job[t] \in Jobs /\ job' = job /\ disk[job[t]] = "running" /\ request' = request \ {job[t]}
    BY <1>6, <1>a DEF Ingest, Holding, Goto, Steady, RequestsAfterRun
  <2>2. ASSUME NEW o \in {"succeeded", "failed"}, NEW why, Written(job[t], o, why),
               Goto(t, "annotate", o)
        PROVE  Steady(t)'
    <3>1. disk'[job'[t]] = o /\ pc'[t] = "annotate" /\ outcome'[t] = o
      BY <2>1, <2>2, WrittenRecords DEF TypeOK, Goto
    <3> QED BY <3>1 DEF Steady
  <2>3. ASSUME NEW raised, UNCHANGED store, Goto(t, "retry", raised)
        PROVE  Steady(t)'
    <3>1. disk'[job'[t]] = "running" /\ pc'[t] = "retry" /\ job'[t] \notin request'
      BY <2>1, <2>3 DEF TypeOK, Goto
    <3> QED BY <3>1 DEF Steady
  <2> QED BY <1>6, <2>2, <2>3 DEF Ingest
<1>7. CASE Retry(t)
  <2>1. job' = job /\ disk' = disk /\ request' = request /\ pc'[t] = "attempt"
    BY <1>7 DEF TypeOK, Retry
  <2>2. disk[job[t]] = "running" /\ job[t] \notin request
    BY <1>7 DEF Retry, MayRetry, Steady
  <2> QED BY <2>1, <2>2 DEF Steady
<1>8. CASE GiveUp(t)
  <2>1. job' = job /\ disk' = disk /\ pc'[t] = "exhaust"
    BY <1>8 DEF TypeOK, GiveUp, Goto
  <2>2. disk[job[t]] \in {"queued", "running"}
    BY <1>8 DEF GiveUp, Steady
  <2> QED BY <2>1, <2>2 DEF Steady
<1>9. CASE Annotate(t)
  <2>1. outcome[t] \in TERMINAL_JOB_STATES /\ disk[job[t]] = outcome[t]
    BY <1>9 DEF Annotate, WorkerInv, Steady
  <2>2. ~Refused(MayUpdate(disk[job[t]], outcome[t]))
    BY <2>1, NoRefusal, LegalUpdates
  <2>3. pc'[t] = "finish"
    BY <1>9, <2>2 DEF TypeOK, Annotate, Goto
  <2> QED BY <2>3 DEF Steady
<1>10. CASE Exhaust(t)
  <2>1. disk[job[t]] \in {"queued", "running"}
    BY <1>10 DEF Exhaust, Steady
  <2>2. ~Refused(CanForceFailed(disk[job[t]]))
    BY <2>1, NoRefusal, LegalUpdates
  <2>3. pc'[t] = "finish"
    BY <1>10, <2>2 DEF TypeOK, Exhaust, Goto
  <2> QED BY <2>3 DEF Steady
<1>11. CASE Finish(t)
  <2>1. pc'[t] = "signal"
    BY <1>11 DEF TypeOK, Finish
  <2> QED BY <2>1 DEF Steady
<1>12. CASE ForceFail(t) \/ Die(t)
  BY <1>12 DEF ForceFail, Die, Steady
<1> QED BY <1>1, <1>2, <1>3, <1>4, <1>5, <1>6, <1>7, <1>8, <1>9, <1>10, <1>11, <1>12 DEF Worker

LEMMA SteadyStep ==
  ASSUME IInv, Custody, [Next]_vars, \A t \in Threads : Steady(t), faults' = 0
  PROVE  \A t \in Threads : Steady(t)'
<1>. SUFFICES ASSUME NEW u \in Threads PROVE Steady(u)'
  OBVIOUS
<1>. USE DEF IInv
<1>1. CASE Frame(u)
  BY <1>1 DEF Frame, Steady
<1>2. CASE pc'[u] \in {"dead", "loop"}
  BY <1>2 DEF Steady
<1>3. ASSUME ~Holding(u), \/ \E j \in Jobs : Handler(j) \/ Recover(j) \/ Damage(j)
                          \/ Stop \/ Restart \/ Serve \/ UNCHANGED vars
      PROVE  pc'[u] \in {"dead", "loop"}
  <2>. USE DEF queue, threads
  <2>1. ASSUME NEW v \in Vaults, NEW j \in Jobs, Enqueue(v, j) PROVE pc'[u] \in {"dead", "loop"}
    BY <1>3, <2>1 DEF TypeOK, Enqueue, EnsureWorker, Holding
  <2>2. CASE \E j \in Jobs : Handler(j) \/ Recover(j)
    BY <1>3, <2>1, <2>2, ConstantsAssumption DEF Holding, Handler, Create, Register, Submit,
         SubmitRefused, WaitEnds, Recover, RecoverUnreadable, RecoverSkip, RecoverInterrupted,
         RecoverQueued
  <2>3. CASE \/ \E j \in Jobs : Damage(j)
             \/ Stop \/ Restart \/ Serve \/ UNCHANGED vars
    BY <1>3, <2>3 DEF Holding, Damage, Stop, Shutdown, Snapshot, Join, ShutdownReturns, Restart,
         Serve, vars
  <2> QED BY <1>3, <2>2, <2>3
<1>4. ASSUME NEW t \in Threads, Worker(t), t # u, ~Holding(u) PROVE pc'[u] \in {"dead", "loop"}
  BY <1>4 DEF TypeOK, Holding, Worker, Exit, Take, Orphan, BadConfig, Begin, Ingest, Retry, GiveUp,
              Annotate, Exhaust, ForceFail, Die, Finish, Signal, Goto
<1>5. ASSUME NEW t \in Threads, Worker(t) PROVE Steady(u)'
  BY <1>1, <1>2, <1>4, <1>5, FrameWorker, SteadyWorker
<1>6. CASE Crash
  BY <1>2, <1>6 DEF Crash
<1>7. CASE \/ \E j \in Jobs : Handler(j) \/ Recover(j) \/ Damage(j)
           \/ Stop \/ Restart \/ Serve \/ UNCHANGED vars
  BY <1>1, <1>2, <1>3, <1>7, FrameOther
<1> QED BY <1>5, <1>6, <1>7 DEF Next

-------------------------------------------------------------------------------
(* No job is lost.                                                           *)

\* The parts of the places of the job k.
Kept(k) ==
  /\ disk'[k] = disk[k] /\ event'[k] = event[k]
  /\ (phase = "down" => phase' = "down") /\ (k \in todo => k \in todo')
  /\ handler'[k] = handler[k] /\ (stopping => stopping')
  /\ k \in Waiting(VaultOf[k]) => k \in Waiting(VaultOf[k])'
  /\ InFlight(k) => InFlight(k)'

LEMMA KeptPlaced ==
  ASSUME NEW k \in Jobs, Kept(k), Placed(k)
  PROVE  Placed(k)'
<1>. DEFINE W == k \in Waiting(VaultOf[k])
            F == InFlight(k)
<1>1. (W => W') /\ (F => F')
  BY DEF Kept
<1>. HIDE DEF W, F
<1>2. /\ disk[k] = "running" => phase = "down" \/ k \in todo \/ F
      /\ disk[k] = "queued" =>
           \/ phase = "down" \/ k \in todo
           \/ handler[k] \in {"created", "registered"}
           \/ W \/ F
           \/ stopping /\ event[k] = "none"
      /\ event[k] = "clear" => W \/ F
  BY DEF Placed, W, F
<1>3. (/\ disk[k] = "running" => phase = "down" \/ k \in todo \/ F
       /\ disk[k] = "queued" =>
            \/ phase = "down" \/ k \in todo
            \/ handler[k] \in {"created", "registered"}
            \/ W \/ F
            \/ stopping /\ event[k] = "none"
       /\ event[k] = "clear" => W \/ F)'
  BY <1>1, <1>2 DEF Kept
<1> QED BY <1>3 DEF Placed, W, F

\* A queued job that is in the deque, or a job with a worker, is where it should be.
LEMMA InPlace ==
  ASSUME NEW k \in Jobs, (k \in Waiting(VaultOf[k])' /\ disk'[k] = "queued") \/ InFlight(k)'
  PROVE  Placed(k)'
BY DEF Placed

\* A settled job needs no place.
LEMMA SettledPlaced ==
  ASSUME NEW k \in Jobs, disk'[k] \notin {"queued", "running"}, event'[k] # "clear"
  PROVE  Placed(k)'
BY DEF Placed

LEMMA WaitingSame ==
  ASSUME NEW v \in Vaults, pending'[v] = pending[v]
  PROVE  Waiting(v)' = Waiting(v)
BY DEF Waiting

LEMMA WaitingAppend ==
  ASSUME TypeOK, NEW v \in Vaults, NEW j \in Jobs, Enqueue(v, j)
  PROVE  /\ j \in Waiting(v)'
         /\ \A w \in Vaults : Waiting(w) \subseteq Waiting(w)'
<1>1. pending[v] \in Seq(Jobs) /\ pending'[v] = Append(pending[v], j)
  BY DEF TypeOK, Enqueue
<1>2. ASSUME NEW w \in Vaults PROVE Waiting(w) \subseteq Waiting(w)'
  <2>1. CASE w = v
    BY <1>1, <2>1 DEF Waiting
  <2>2. CASE w # v
    <3>1. pending'[w] = pending[w]
      BY <2>2 DEF TypeOK, Enqueue
    <3> QED BY <3>1 DEF Waiting
  <2> QED BY <2>1, <2>2
<1>3. j \in Waiting(v)'
  <2>1. Len(pending'[v]) = Len(pending[v]) + 1 /\ pending'[v][Len(pending[v]) + 1] = j
        /\ Len(pending[v]) \in Nat
    BY <1>1
  <2>2. Len(pending[v]) + 1 \in 1..Len(pending'[v])
    BY <2>1
  <2> QED BY <2>1, <2>2 DEF Waiting
<1> QED BY <1>2, <1>3

LEMMA WaitingTake ==
  ASSUME TypeOK, WorkerInv, NEW t \in Threads, Take(t), NEW w \in Vaults, NEW k \in Waiting(w)
  PROVE  k \in Waiting(w)' \/ job'[t] = k
<1>1. /\ serves[t] \in Vaults /\ pending[serves[t]] \in Seq(Jobs) /\ pending[serves[t]] # <<>>
      /\ pending' = [pending EXCEPT ![serves[t]] = Tail(pending[serves[t]])]
      /\ job'[t] = pending[serves[t]][1]
  BY DEF TypeOK, WorkerInv, Alive, Take, NothingToDo, Popped
<1>2. CASE w # serves[t]
  <2>1. pending'[w] = pending[w]
    BY <1>1, <1>2 DEF TypeOK
  <2> QED BY <2>1 DEF Waiting
<1>3. CASE w = serves[t]
  <2>1. pending'[w] = Tail(pending[w])
    BY <1>1, <1>3 DEF TypeOK
  <2>2. PICK i \in 1..Len(pending[w]) : pending[w][i] = k
    BY DEF Waiting
  <2>3. CASE i = 1
    BY <1>1, <1>3, <2>2, <2>3
  <2>4. CASE i # 1
    <3>1. /\ Len(pending'[w]) = Len(pending[w]) - 1 /\ Len(pending[w]) \in Nat
          /\ \A a \in 1..Len(pending'[w]) : pending'[w][a] = pending[w][a + 1]
      <4>1. pending[w] \in Seq(Jobs) /\ pending[w] # <<>>
        BY <1>1, <1>3
      <4>2. DEFINE q == pending[w]
      <4>3. ASSUME NEW r, r = Tail(q)
            PROVE  /\ Len(r) = Len(q) - 1 /\ Len(q) \in Nat
                   /\ \A a \in 1..Len(r) : r[a] = q[a + 1]
        BY <4>1, <4>3
      <4> QED BY <2>1, <4>3
    <3>2. i - 1 \in 1..Len(pending'[w]) /\ pending'[w][i - 1] = k
      BY <2>2, <2>4, <3>1
    <3> QED BY <3>2 DEF Waiting
  <2> QED BY <2>3, <2>4
<1> QED BY <1>2, <1>3

LEMMA PlacedWorker ==
  ASSUME TypeOK, WorkerInv, Custody, NEW t \in Threads, Steady(t), Worker(t), faults' = 0,
         NEW k \in Jobs, Placed(k)
  PROVE  Placed(k)'
<1>. USE DEF store, process, services, queue, locals, threads, shutdownVars
<1>a. VaultOf[k] \in Vaults
  BY ConstantsAssumption
<1>b. Holding(t) => job[t] \in Jobs
  BY DEF WorkerInv, Holding
<1>1. CASE Exit(t)
  <2>1. Kept(k)
    BY <1>1 DEF Exit, Kept, Waiting, InFlight
  <2> QED BY <2>1, KeptPlaced
<1>2. CASE Take(t)
  <2>1. UNCHANGED <<disk, event, phase, todo, handler, stopping>>
        /\ \A u \in Threads : u # t => job'[u] = job[u]
    BY <1>2 DEF TypeOK, Take
  <2>2. job[t] # k
    BY <1>2, ConstantsAssumption DEF Take, Holding, Custody, ThreadInv
  <2>3. InFlight(k) => InFlight(k)'
    BY <2>1, <2>2 DEF InFlight
  <2>4. CASE job'[t] = k
    BY <2>4, InPlace DEF InFlight
  <2>5. CASE job'[t] # k
    <3>1. k \in Waiting(VaultOf[k]) => k \in Waiting(VaultOf[k])'
      BY <1>2, <1>a, <2>5, WaitingTake
    <3> QED BY <2>1, <2>3, <3>1, KeptPlaced DEF Kept
  <2> QED BY <2>4, <2>5
<1>3. CASE Signal(t)
  <2>1. /\ UNCHANGED <<disk, phase, todo, handler, stopping, pending>>
        /\ \A u \in Threads : u # t => job'[u] = job[u]
        /\ event' = [event EXCEPT ![job[t]] = "set"] /\ Holding(t) /\ pc[t] = "signal"
    BY <1>3 DEF TypeOK, Signal, Holding
  <2>2. CASE job[t] = k
    <3>1. disk'[k] \in TERMINAL_JOB_STATES /\ event'[k] = "set"
      BY <2>1, <2>2 DEF TypeOK, WorkerInv, Custody, ThreadInv
    <3> QED BY <3>1, SettledPlaced DEF TERMINAL_JOB_STATES
  <2>3. CASE job[t] # k
    <3>1. event'[k] = event[k] /\ (InFlight(k) => InFlight(k)')
      BY <2>1, <2>3 DEF TypeOK, InFlight
    <3>2. Waiting(VaultOf[k])' = Waiting(VaultOf[k])
      BY <2>1 DEF Waiting
    <3> QED BY <2>1, <3>1, <3>2, KeptPlaced DEF Kept
  <2> QED BY <2>2, <2>3
<1>4. CASE \/ Orphan(t) \/ BadConfig(t) \/ Begin(t) \/ Ingest(t) \/ Retry(t) \/ GiveUp(t)
           \/ Annotate(t) \/ Exhaust(t) \/ ForceFail(t) \/ Finish(t)
  <2>1. Holding(t) /\ UNCHANGED <<event, phase, todo, handler, stopping, pending, job>>
    BY <1>4 DEF Holding, Orphan, BadConfig, Begin, Ingest, Retry, GiveUp, Annotate, Exhaust,
                ForceFail, Finish, Goto
  <2>2. CASE job[t] = k
    BY <2>1, <2>2, InPlace DEF InFlight
  <2>3. CASE job[t] # k
    <3>1. disk' = disk \/ \E state, why : Written(job[t], state, why)
      BY <1>4 DEF Orphan, BadConfig, Begin, Ingest, Retry, GiveUp, Annotate, Exhaust, ForceFail,
                  Finish, Refused
    <3>2. disk'[k] = disk[k]
      BY <1>b, <2>1, <2>3, <3>1, WrittenRecords
    <3>3. Waiting(VaultOf[k])' = Waiting(VaultOf[k]) /\ (InFlight(k)' <=> InFlight(k))
      BY <2>1 DEF Waiting, InFlight
    <3> QED BY <2>1, <3>2, <3>3, KeptPlaced DEF Kept
  <2> QED BY <2>2, <2>3
<1>5. CASE Die(t)
  BY <1>5 DEF Die, Steady
<1> QED BY <1>1, <1>2, <1>3, <1>4, <1>5 DEF Worker

LEMMA PlacedEnqueue ==
  ASSUME TypeOK, NEW j \in Jobs, Enqueue(VaultOf[j], j), disk[j] = "queued",
         UNCHANGED <<disk, phase>>,
         \A k \in Jobs : k # j => handler'[k] = handler[k] /\ (k \in todo => k \in todo'),
         NEW k \in Jobs, Placed(k)
  PROVE  Placed(k)'
<1>a. VaultOf[j] \in Vaults /\ VaultOf[k] \in Vaults
  BY ConstantsAssumption
<1>1. CASE k = j
  BY <1>1, <1>a, WaitingAppend, InPlace
<1>2. CASE k # j
  <2>1. k \in Waiting(VaultOf[k]) => k \in Waiting(VaultOf[k])'
    BY <1>a, WaitingAppend
  <2>2. job' = job /\ event'[k] = event[k] /\ stopping' = stopping
    BY <1>2 DEF TypeOK, Enqueue, EnsureWorker, threads
  <2>3. Kept(k)
    BY <1>2, <2>1, <2>2 DEF Kept, InFlight
  <2> QED BY <2>3, KeptPlaced
<1> QED BY <1>1, <1>2

LEMMA PlacedStep ==
  ASSUME IInv, Custody, [Next]_vars, \A t \in Threads : Steady(t), faults' = 0,
         NEW k \in Jobs, Placed(k)
  PROVE  Placed(k)'
<1>. USE DEF IInv, store, process, services, queue, threads, shutdownVars
<1>1. ASSUME NEW j \in Jobs, Handler(j) PROVE Placed(k)'
  <2>1. CASE Submit(j)
    <3>1. \A i \in Jobs : i # j => handler'[i] = handler[i] /\ (i \in todo => i \in todo')
      BY <2>1 DEF TypeOK, Submit
    <3>2. disk[j] = "queued"
      BY <2>1 DEF Submit, Custody, JobInv
    <3> QED BY <2>1, <3>1, <3>2, PlacedEnqueue DEF Submit
  <2>2. CASE Create(j) \/ Register(j) \/ SubmitRefused(j) \/ WaitEnds(j)
    <3>1. /\ UNCHANGED <<phase, todo, pending, event, job, stopping>>
          /\ k # j => handler'[k] = handler[k] /\ disk'[k] = disk[k]
      BY <2>2 DEF TypeOK, Create, Register, SubmitRefused, WaitEnds
    <3>2. Waiting(VaultOf[k])' = Waiting(VaultOf[k]) /\ (InFlight(k)' <=> InFlight(k))
      BY <3>1 DEF Waiting, InFlight
    <3>3. CASE k # j
      BY <3>1, <3>2, <3>3, KeptPlaced DEF Kept
    <3>4. CASE k = j /\ (Create(j) \/ Register(j))
      <4>1. handler'[k] \in {"created", "registered"} /\ disk'[k] = "queued" /\ event'[k] = "none"
        BY <3>4 DEF TypeOK, Create, Register, Custody, JobInv
      <4> QED BY <4>1 DEF Placed
    <3>5. CASE k = j /\ SubmitRefused(j)
      <4>1. disk'[k] = "queued" /\ event'[k] = "none" /\ stopping'
        BY <3>5 DEF TypeOK, SubmitRefused, Custody, JobInv
      <4> QED BY <4>1 DEF Placed
    <3>6. CASE k = j /\ WaitEnds(j)
      <4>1. handler[k] = "waiting" /\ handler'[k] = "closed" /\ disk' = disk
        BY <3>6 DEF TypeOK, WaitEnds
      <4> QED BY <3>1, <3>2, <4>1 DEF Placed
    <3> QED BY <2>2, <3>3, <3>4, <3>5, <3>6
  <2> QED BY <1>1, <2>1, <2>2 DEF Handler
<1>2. ASSUME NEW j \in Jobs, Recover(j) PROVE Placed(k)'
  <2>1. CASE RecoverQueued(j)
    <3>1. \A i \in Jobs : i # j => handler'[i] = handler[i] /\ (i \in todo => i \in todo')
      BY <2>1 DEF RecoverQueued
    <3> QED BY <2>1, <3>1, PlacedEnqueue DEF RecoverQueued
  <2>2. CASE RecoverUnreadable(j) \/ RecoverSkip(j) \/ RecoverInterrupted(j)
    <3>1. /\ UNCHANGED <<phase, handler, pending, event, job, stopping>>
          /\ todo' = todo \ {j}
          /\ k # j => disk'[k] = disk[k]
      BY <2>2 DEF TypeOK, RecoverUnreadable, RecoverSkip, RecoverInterrupted, Written
    <3>2. Waiting(VaultOf[k])' = Waiting(VaultOf[k]) /\ (InFlight(k)' <=> InFlight(k))
      BY <3>1 DEF Waiting, InFlight
    <3>3. CASE k # j
      BY <3>1, <3>2, <3>3, KeptPlaced DEF Kept
    <3>4. CASE k = j
      <4>1. event[j] = "none"
        BY <2>2 DEF RecoverUnreadable, RecoverSkip, RecoverInterrupted, Visiting, Custody, JobInv
      <4>2. disk'[j] \notin {"queued", "running"}
        BY <2>2 DEF TypeOK, RecoverUnreadable, RecoverSkip, RecoverInterrupted, Written,
                    TERMINAL_JOB_STATES
      <4> QED BY <3>1, <3>4, <4>1, <4>2, SettledPlaced
    <3> QED BY <3>3, <3>4
  <2> QED BY <1>2, <2>1, <2>2 DEF Recover
<1>3. ASSUME NEW t \in Threads, Worker(t) PROVE Placed(k)'
  BY <1>3, PlacedWorker
<1>4. CASE Stop \/ UNCHANGED vars
  <2>1. UNCHANGED <<disk, event, phase, todo, handler, pending, job>>
    BY <1>4 DEF Stop, Shutdown, Snapshot, Join, ShutdownReturns, vars
  <2>2. stopping => stopping'
    BY <1>4, Zenon DEF Stop, Shutdown, Snapshot, Join, ShutdownReturns, vars
  <2>3. Waiting(VaultOf[k])' = Waiting(VaultOf[k]) /\ (InFlight(k)' <=> InFlight(k))
    BY <2>1 DEF Waiting, InFlight
  <2> QED BY <2>1, <2>2, <2>3, KeptPlaced DEF Kept
<1>5. CASE Crash
  <2>1. phase' = "down" /\ event'[k] = "none"
    BY <1>5 DEF Crash
  <2> QED BY <2>1 DEF Placed
<1>6. CASE Restart
  <2>1. event'[k] = event[k] /\ event[k] = "none"
    BY <1>6 DEF Restart, Custody, PhaseInv
  <2>2. disk'[k] \in {"queued", "running"} => k \in todo'
    BY <1>6 DEF Restart
  <2> QED BY <2>1, <2>2 DEF Placed
<1>7. CASE Serve
  <2>1. UNCHANGED <<disk, event, todo, handler, stopping, pending, job>> /\ phase # "down"
    BY <1>7 DEF Serve
  <2>2. Waiting(VaultOf[k])' = Waiting(VaultOf[k]) /\ (InFlight(k)' <=> InFlight(k))
    BY <2>1 DEF Waiting, InFlight
  <2> QED BY <2>1, <2>2, KeptPlaced DEF Kept
<1>8. ASSUME NEW j \in Jobs, Damage(j) PROVE Placed(k)'
  <2>1. phase' = "down" /\ event'[k] = "none"
    BY <1>8 DEF Damage, Custody, PhaseInv
  <2> QED BY <2>1 DEF Placed
<1> QED BY <1>1, <1>2, <1>3, <1>4, <1>5, <1>6, <1>7, <1>8 DEF Next

-------------------------------------------------------------------------------
(* No wake-up is lost.                                                       *)

\* A vault with pending jobs has its worker.
Attended(v) == pending[v] # <<>> /\ ~stopping => ~NeedsWorker(v)

LEMMA AttendedEnqueue ==
  ASSUME TypeOK, NEW v \in Vaults, NEW j \in Jobs, Enqueue(v, j), NEW w \in Vaults, Attended(w)
  PROVE  Attended(w)'
<1>1. CASE NeedsWorker(v)
  <2>1. PICK t \in Threads :
          /\ Fresh(v, t)
          /\ workers' = [workers EXCEPT ![v] = t]
          /\ pc' = [pc EXCEPT ![t] = "loop"]
    BY <1>1 DEF Enqueue, EnsureWorker
  <2>2. CASE w = v
    <3>1. workers'[w] = t /\ pc'[t] = "loop"
      BY <2>1, <2>2 DEF TypeOK
    <3> QED BY <3>1, ConstantsAssumption DEF Attended, NeedsWorker, Alive
  <2>3. CASE w # v
    <3>1. workers'[w] = workers[w] /\ pending'[w] = pending[w] /\ stopping' = stopping
      BY <2>1, <2>3 DEF TypeOK, Enqueue
    <3>2. ~NeedsWorker(w) => pc'[workers[w]] = pc[workers[w]]
      BY <2>1, <2>3 DEF TypeOK, Fresh, NeedsWorker
    <3> QED BY <3>1, <3>2 DEF Attended, NeedsWorker, Alive
  <2> QED BY <2>2, <2>3
<1>2. CASE ~NeedsWorker(v)
  <2>1. UNCHANGED <<workers, pc, stopping>> /\ (w # v => pending'[w] = pending[w])
    BY <1>2 DEF TypeOK, Enqueue, EnsureWorker, threads
  <2> QED BY <1>2, <2>1 DEF Attended, NeedsWorker, Alive
<1> QED BY <1>1, <1>2

LEMMA AttendedWorker ==
  ASSUME TypeOK, WorkerInv, Custody, NEW t \in Threads, Steady(t), Worker(t),
         NEW v \in Vaults, Attended(v)
  PROVE  Attended(v)'
<1>. USE DEF store, process, services, queue, locals, threads, shutdownVars
<1>1. CASE Exit(t)
  <2>1. serves[t] \in Vaults /\ workers[serves[t]] = t
    BY <1>1 DEF Exit, WorkerInv, Alive
  <2>2. CASE v = serves[t]
    BY <1>1, <2>2 DEF Exit, NothingToDo, Attended
  <2>3. CASE v # serves[t]
    <3>1. workers'[v] = workers[v] /\ UNCHANGED <<pending, stopping>>
      BY <1>1, <2>3 DEF TypeOK, Exit
    <3>2. ~NeedsWorker(v) => workers[v] # t
      BY <2>1, <2>3 DEF Custody, QueueInv, NeedsWorker
    <3>3. ~NeedsWorker(v) => pc'[workers[v]] = pc[workers[v]]
      BY <1>1, <3>2 DEF TypeOK, Exit, NeedsWorker
    <3> QED BY <3>1, <3>3 DEF Attended, NeedsWorker, Alive
  <2> QED BY <2>2, <2>3
<1>2. CASE Take(t)
  <2>1. /\ UNCHANGED <<workers, stopping>> /\ pc'[t] = "attempt"
        /\ \A u \in Threads : u # t => pc'[u] = pc[u]
    BY <1>2 DEF TypeOK, Take
  <2>2. pending[v] = <<>> => pending'[v] = <<>>
    BY <1>2 DEF TypeOK, Take, NothingToDo, WorkerInv, Alive
  <2>3. ~NeedsWorker(v) => ~NeedsWorker(v)'
    BY <2>1 DEF TypeOK, NeedsWorker, Alive
  <2> QED BY <2>1, <2>2, <2>3 DEF Attended
<1>3. CASE \/ Orphan(t) \/ BadConfig(t) \/ Begin(t) \/ Ingest(t) \/ Retry(t) \/ GiveUp(t)
           \/ Annotate(t) \/ Exhaust(t) \/ ForceFail(t) \/ Finish(t) \/ Signal(t)
  <2>1. /\ UNCHANGED <<workers, stopping, pending>>
    BY <1>3 DEF Orphan, BadConfig, Begin, Ingest, Retry, GiveUp, Annotate, Exhaust, ForceFail,
                Finish, Signal, Goto
  <2>2. pc'[t] # "dead" /\ \A u \in Threads : u # t => pc'[u] = pc[u]
    BY <1>3 DEF TypeOK, Orphan, BadConfig, Begin, Ingest, Retry, GiveUp, Annotate, Exhaust,
                ForceFail, Finish, Signal, Goto
  <2>3. ~NeedsWorker(v) => ~NeedsWorker(v)'
    BY <2>1, <2>2 DEF TypeOK, NeedsWorker, Alive
  <2> QED BY <2>1, <2>3 DEF Attended
<1>4. CASE Die(t)
  BY <1>4 DEF Die, Steady
<1> QED BY <1>1, <1>2, <1>3, <1>4 DEF Worker

LEMMA AttendedStep ==
  ASSUME IInv, Custody, [Next]_vars, \A t \in Threads : Steady(t), NEW v \in Vaults, Attended(v)
  PROVE  Attended(v)'
<1>. USE DEF IInv, store, process, services, queue, threads, shutdownVars
<1>1. ASSUME NEW j \in Jobs, Handler(j) \/ Recover(j) PROVE Attended(v)'
  <2>1. CASE Submit(j) \/ RecoverQueued(j)
    BY <2>1, AttendedEnqueue, ConstantsAssumption DEF Submit, RecoverQueued
  <2>2. CASE \/ Create(j) \/ Register(j) \/ SubmitRefused(j) \/ WaitEnds(j)
             \/ RecoverUnreadable(j) \/ RecoverSkip(j) \/ RecoverInterrupted(j)
    BY <2>2 DEF Create, Register, SubmitRefused, WaitEnds, RecoverUnreadable, RecoverSkip,
                RecoverInterrupted, Attended, NeedsWorker, Alive
  <2> QED BY <1>1, <2>1, <2>2 DEF Handler, Recover
<1>2. ASSUME NEW t \in Threads, Worker(t) PROVE Attended(v)'
  BY <1>2, AttendedWorker
<1>3. CASE \/ Stop \/ Restart \/ Serve \/ UNCHANGED vars \/ \E j \in Jobs : Damage(j)
  <2>1. UNCHANGED <<pending, workers, pc>>
    BY <1>3 DEF Stop, Shutdown, Snapshot, Join, ShutdownReturns, Restart, Serve, Damage, vars
  <2>2. stopping => stopping'
    BY <1>3, Zenon DEF Stop, Shutdown, Snapshot, Join, ShutdownReturns, Restart, Serve, Damage, vars
  <2> QED BY <2>1, <2>2 DEF Attended, NeedsWorker, Alive
<1>4. CASE Crash
  BY <1>4 DEF Crash, Attended
<1> QED BY <1>1, <1>2, <1>3, <1>4 DEF Next

-------------------------------------------------------------------------------
(* One RUNNING record per vault.                                             *)

OneRunning ==
  \A j, k \in Jobs :
    disk[j] = "running" /\ disk[k] = "running" /\ VaultOf[j] = VaultOf[k] => j = k

\* Only a worker that begins a job makes a record RUNNING.
LEMMA RunningGrows ==
  ASSUME TypeOK, WorkerInv, [Next]_vars, NEW j \in Jobs, disk'[j] = "running",
         \A t \in Threads : Begin(t) => job[t] # j
  PROVE  disk[j] = "running"
<1>. USE DEF store
<1>1. ASSUME NEW t \in Threads, Worker(t) PROVE disk[j] = "running"
  <2>1. CASE \/ Exit(t) \/ Take(t) \/ BadConfig(t) \/ Retry(t) \/ GiveUp(t) \/ Die(t)
             \/ Finish(t) \/ Signal(t)
    BY <2>1 DEF Exit, Take, BadConfig, Retry, GiveUp, Die, Finish, Signal
  <2>2. CASE Orphan(t) \/ Ingest(t) \/ Annotate(t) \/ Exhaust(t) \/ ForceFail(t)
    <3>1. job[t] \in Jobs
      BY <2>2 DEF WorkerInv, Orphan, Ingest, Annotate, Exhaust, ForceFail
    <3>2. disk' = disk \/ \E state, why : Written(job[t], state, why) /\ state # "running"
      BY <2>2 DEF WorkerInv, TERMINAL_JOB_STATES, Orphan, Ingest, Annotate, Exhaust, ForceFail,
                  Refused
    <3> QED BY <3>1, <3>2, WrittenRecords
  <2>3. CASE Begin(t)
    <3>1. job[t] \in Jobs /\ job[t] # j
      BY <2>3 DEF WorkerInv, Begin
    <3> QED BY <2>3, <3>1, WrittenRecords DEF Begin, Refused
  <2> QED BY <1>1, <2>1, <2>2, <2>3 DEF Worker
<1>2. ASSUME NEW k \in Jobs, Handler(k) \/ Recover(k) \/ Damage(k) PROVE disk[j] = "running"
  BY <1>2 DEF TypeOK, Handler, Create, Register, Submit, SubmitRefused, WaitEnds, Recover,
       RecoverUnreadable, RecoverSkip, RecoverInterrupted, RecoverQueued, Damage, Written
<1>3. CASE Stop \/ Crash \/ Restart \/ Serve \/ UNCHANGED vars
  BY <1>3 DEF TypeOK, Stop, Shutdown, Snapshot, Join, ShutdownReturns, Crash, Restart, Serve, vars
<1> QED BY <1>1, <1>2, <1>3 DEF Next

\* When a job begins, no record of its vault is RUNNING: that job would be with
\* this worker, or recovery would not have reached it and would accept no work.
LEMMA BeginAlone ==
  ASSUME WorkerInv, Custody, NEW t \in Threads, Begin(t), NEW k \in Jobs, Placed(k),
         disk[k] = "running", VaultOf[k] = VaultOf[job[t]]
  PROVE  k = job[t]
<1>1. Holding(t) /\ Alive(t) /\ request # {}
  BY DEF Begin, Holding, Alive
<1>2. phase = "up"
  BY <1>1 DEF Custody, PhaseInv
<1>3. todo = {}
  BY <1>2 DEF Custody, PhaseInv
<1>4. PICK u \in Threads : job[u] = k
  BY <1>2, <1>3 DEF Placed, InFlight
<1>5. Holding(u)
  BY <1>4, ConstantsAssumption DEF Custody, ThreadInv
<1>6. serves[u] = serves[t]
  BY <1>1, <1>4, <1>5 DEF Custody, ThreadInv
<1>7. u = t
  BY <1>1, <1>5, <1>6 DEF WorkerInv, Holding, Alive
<1> QED BY <1>4, <1>7

LEMMA OneRunningStep ==
  ASSUME IInv, Custody, [Next]_vars, \A k \in Jobs : Placed(k), OneRunning
  PROVE  OneRunning'
<1>. SUFFICES ASSUME NEW j \in Jobs, NEW k \in Jobs, disk'[j] = "running", disk'[k] = "running",
                     VaultOf[j] = VaultOf[k], j # k
              PROVE  FALSE
  BY DEF OneRunning
<1>. USE DEF IInv
<1>1. CASE \E t \in Threads : Begin(t) /\ job[t] \in {j, k}
  <2>1. PICK t \in Threads : Begin(t) /\ job[t] \in {j, k}
    BY <1>1
  <2>2. job[t] \in Jobs /\ \A i \in Jobs : i # job[t] => disk'[i] = disk[i]
    BY <2>1, WrittenRecords DEF Begin, Refused, store
  <2>3. PICK i \in {j, k} : i # job[t] /\ disk[i] = "running"
    BY <2>1, <2>2
  <2>4. VaultOf[i] = VaultOf[job[t]]
    BY <2>1, <2>3
  <2> QED BY <2>1, <2>3, <2>4, BeginAlone
<1>2. CASE \A t \in Threads : Begin(t) => job[t] \notin {j, k}
  <2>1. disk[j] = "running" /\ disk[k] = "running"
    BY <1>2, RunningGrows
  <2> QED BY <2>1 DEF OneRunning
<1> QED BY <1>1, <1>2

LEMMA SteadyInvStep == IInv /\ Custody /\ SteadyInv /\ [Next]_vars => SteadyInv'
<1>. SUFFICES ASSUME IInv, Custody, SteadyInv, [Next]_vars, faults' = 0
              PROVE  /\ \A t \in Threads : Steady(t)'
                     /\ \A j \in Jobs : Placed(j)'
                     /\ \A v \in Vaults : Attended(v)'
                     /\ OneRunning'
  BY DEF SteadyInv, Attended, OneRunning
<1>1. /\ \A t \in Threads : Steady(t)
      /\ \A j \in Jobs : Placed(j)
      /\ \A v \in Vaults : Attended(v)
      /\ OneRunning
  BY FaultsStay DEF IInv, SteadyInv, Attended, OneRunning
<1> QED BY <1>1, SteadyStep, PlacedStep, AttendedStep, OneRunningStep

LEMMA SteadyInit == Init => SteadyInv
<1>. SUFFICES ASSUME Init PROVE SteadyInv
  OBVIOUS
<1>1. /\ \A t \in Threads : Steady(t)
      /\ \A j \in Jobs : Placed(j)
      /\ \A v \in Vaults : pending[v] = <<>>
      /\ \A j \in Jobs : disk[j] # "running"
  BY DEF Init, Steady, Placed
<1> QED BY <1>1 DEF SteadyInv

\* While no record write has failed, each worker finds the record it expects,
\* each unsettled job has its place, and each vault with work has its worker.
THEOREM NothingIsLost == Spec => []SteadyInv
<1> QED BY SteadyInit, SteadyInvStep, Inductive, EveryJobInCustody, PTL DEF Spec

\* No lost wake-up between a worker that exits (JobQueue._work) and a submit
\* that finds its thread alive (_ensure_worker).
THEOREM NoWakeupIsLost == Spec => []NoStrandedWork
<1>1. IInv /\ Custody /\ SteadyInv => NoStrandedWork
  <2>. SUFFICES ASSUME IInv, Custody, SteadyInv, faults = 0, ~stopping,
                       NEW v \in Vaults, pending[v] # <<>>
                PROVE  \E t \in Threads : Alive(t) /\ pc[t] # "dying" /\ serves[t] = v
    BY DEF NoStrandedWork
  <2>1. workers[v] \in Threads /\ Alive(workers[v])
    BY DEF IInv, TypeOK, SteadyInv, NeedsWorker
  <2>2. serves[workers[v]] = v
    BY <2>1, ConstantsAssumption DEF Custody, QueueInv
  <2>3. pc[workers[v]] # "dying"
    BY <2>1 DEF SteadyInv, Steady
  <2> QED BY <2>1, <2>2, <2>3
<1> QED BY <1>1, Inductive, EveryJobInCustody, NothingIsLost, PTL

\* A job whose record is not settled is with its handler, in its deque or with
\* a worker, after a restart as well: none is only a file on disk.
THEOREM NoJobIsForgotten == Spec => []NoForgottenJob
<1>1. Custody /\ SteadyInv => NoForgottenJob
  BY DEF Custody, PhaseInv, SteadyInv, Placed, NoForgottenJob
<1> QED BY <1>1, EveryJobInCustody, NothingIsLost, PTL

\* A client that lists the jobs never sees two RUNNING records of one vault:
\* recovery has failed the interrupted one before a new job may begin.
THEOREM OneRunningRecord == Spec => []OneRunningRecordPerVault
<1>1. SteadyInv => OneRunningRecordPerVault
  BY DEF SteadyInv, OneRunningRecordPerVault
<1> QED BY <1>1, NothingIsLost, PTL

-------------------------------------------------------------------------------
(* Shutdown that drains.                                                     *)

Enqueuing(v, j) == Enqueue(v, j) /\ VaultOf[j] = v /\ event[j] = "none"

\* Where the vault of an event that is clear has its worker.
LEMMA ClearIsAttended ==
  ASSUME IInv, Custody, SteadyInv, faults = 0, ~stopping, NEW j \in Jobs, event[j] = "clear"
  PROVE  LET v == VaultOf[j] IN
         /\ workers[v] \in Threads /\ Alive(workers[v])
         /\ pc[workers[v]] = "loop" => pending[v] # <<>>
<1>. DEFINE v == VaultOf[j]
<1>0. v \in Vaults
  BY ConstantsAssumption
<1>1. CASE j \in Waiting(v)
  <2>1. pending[v] # <<>>
    BY <1>0, <1>1 DEF Waiting, IInv, TypeOK
  <2> QED BY <1>0, <2>1 DEF SteadyInv, NeedsWorker, IInv, TypeOK
<1>2. CASE InFlight(j)
  <2>1. PICK u \in Threads : job[u] = j
    BY <1>2 DEF InFlight
  <2>2. Holding(u) /\ serves[u] = v
    BY <2>1, ConstantsAssumption DEF Custody, ThreadInv
  <2> QED BY <2>2 DEF IInv, WorkerInv, Holding, Alive
<1> QED BY <1>1, <1>2 DEF SteadyInv, Placed

Drained(j) == event[j] = "set" \/ workers[VaultOf[j]] \in joining

LEMMA DrainStep == IInv /\ Custody /\ StopInv /\ SteadyInv /\ DrainInv /\ [Next]_vars => DrainInv'
<1>. SUFFICES ASSUME IInv, Custody, StopInv, SteadyInv, DrainInv, [Next]_vars,
                     faults' = 0, drain', NEW j \in owed'
              PROVE  /\ event'[j] # "none"
                     /\ stopper' \in {"joining", "returned"} => Drained(j)'
  BY DEF DrainInv, Drained
<1>. USE DEF IInv, store, process, services, queue, locals, threads, shutdownVars
<1>0. faults = 0
  BY FaultsStay
<1>a. CASE drain /\ owed' = owed /\ j \in Jobs /\ event[j] # "none"
  <2>1. stopper \in {"joining", "returned"} => Drained(j)
    BY <1>0, <1>a DEF DrainInv, Drained
  <2>2. stopper # "idle" => ~stopping
    BY <1>a DEF StopInv
  <2>v. VaultOf[j] \in Vaults
    BY <1>a, ConstantsAssumption
  <2>3. ASSUME NEW k \in Jobs, Submit(k) \/ RecoverQueued(k)
        PROVE  /\ event'[j] # "none"
               /\ stopper' \in {"joining", "returned"} => Drained(j)'
    <3>1. /\ Enqueue(VaultOf[k], k) /\ event[k] = "none" /\ UNCHANGED <<stopper, joining>>
          /\ VaultOf[k] \in Vaults
      BY <2>3, ConstantsAssumption DEF Submit, RecoverQueued, Visiting, Custody, JobInv
    <3>2. event'[j] = event[j]
      BY <1>a, <3>1 DEF TypeOK, Enqueue
    <3>3. CASE event[j] = "set" \/ stopper \notin {"joining", "returned"}
      BY <1>a, <3>1, <3>2, <3>3 DEF Drained
    <3>4. CASE event[j] = "clear" /\ stopper \in {"joining", "returned"}
      <4>1. ~NeedsWorker(VaultOf[j])
        BY <1>0, <1>a, <2>2, <3>4, ClearIsAttended, ConstantsAssumption DEF NeedsWorker
      <4>2. workers'[VaultOf[j]] = workers[VaultOf[j]]
        BY <2>v, <3>1, <4>1 DEF TypeOK, Enqueue, EnsureWorker
      <4> QED BY <1>a, <2>1, <3>1, <3>2, <3>4, <4>2 DEF Drained
    <3> QED BY <1>a, <3>3, <3>4 DEF TypeOK
  <2>4. ASSUME NEW t \in Threads, Exit(t)
        PROVE  /\ event'[j] # "none"
               /\ stopper' \in {"joining", "returned"} => Drained(j)'
    <3>1. /\ UNCHANGED <<event, stopper, joining>> /\ pc[t] = "loop"
          /\ workers' = [workers EXCEPT ![serves[t]] = NoThread]
          /\ stopping \/ pending[serves[t]] = <<>>
      BY <2>4 DEF Exit, NothingToDo
    <3>2. CASE event[j] = "set" \/ stopper \notin {"joining", "returned"}
      BY <1>a, <3>1, <3>2 DEF Drained
    <3>3. CASE event[j] = "clear" /\ stopper \in {"joining", "returned"}
      <4>1. serves[t] \in Vaults /\ workers[serves[t]] = t
        BY <3>1 DEF WorkerInv, Alive
      <4>2. serves[t] # VaultOf[j]
        BY <1>0, <1>a, <2>2, <3>1, <3>3, <4>1, ClearIsAttended
      <4>3. workers'[VaultOf[j]] = workers[VaultOf[j]]
        BY <2>v, <3>1, <4>1, <4>2 DEF TypeOK
      <4> QED BY <1>a, <2>1, <3>1, <3>3, <4>3 DEF Drained
    <3> QED BY <1>a, <3>2, <3>3 DEF TypeOK
  <2>5. ASSUME NEW t \in Threads, Signal(t)
        PROVE  /\ event'[j] # "none"
               /\ stopper' \in {"joining", "returned"} => Drained(j)'
    BY <1>a, <2>1, <2>5 DEF TypeOK, Signal, Drained
  <2>6. ASSUME NEW t \in Threads, Join(t)
        PROVE  /\ event'[j] # "none"
               /\ stopper' \in {"joining", "returned"} => Drained(j)'
    <3>1. /\ UNCHANGED <<event, workers, stopper>> /\ joining' = joining \ {t} /\ ~Alive(t)
          /\ stopper = "joining"
      BY <2>6 DEF Join
    <3>2. CASE event[j] = "set"
      BY <1>a, <3>1, <3>2 DEF Drained
    <3>3. CASE event[j] = "clear"
      <4>1. workers[VaultOf[j]] # t
        BY <1>0, <1>a, <2>2, <3>1, <3>3, ClearIsAttended
      <4> QED BY <1>a, <2>1, <3>1, <3>3, <4>1 DEF Drained
    <3> QED BY <1>a, <3>2, <3>3 DEF TypeOK
  <2>7. CASE Snapshot
    <3>1. UNCHANGED <<event, workers>> /\ joining' = WorkersOnFile /\ stopper = "snapshot"
      BY <2>7 DEF Snapshot
    <3>2. CASE event[j] = "set"
      BY <1>a, <3>1, <3>2 DEF Drained
    <3>3. CASE event[j] = "clear"
      <4>1. workers[VaultOf[j]] \in WorkersOnFile
        BY <1>0, <1>a, <2>2, <2>v, <3>1, <3>3, ClearIsAttended, ConstantsAssumption
        DEF WorkersOnFile
      <4> QED BY <1>a, <3>1, <3>3, <4>1 DEF Drained
    <3> QED BY <1>a, <3>2, <3>3 DEF TypeOK
  <2>8. CASE UNCHANGED <<event, workers, joining>>
             /\ (stopper' \in {"joining", "returned"} => stopper \in {"joining", "returned"})
    BY <1>a, <2>1, <2>8 DEF Drained
  <2>9. ASSUME NEW k \in Jobs, Handler(k) \/ Recover(k)
        PROVE  /\ event'[j] # "none"
               /\ stopper' \in {"joining", "returned"} => Drained(j)'
    <3>1. CASE \/ Create(k) \/ Register(k) \/ SubmitRefused(k) \/ WaitEnds(k)
               \/ RecoverUnreadable(k) \/ RecoverSkip(k) \/ RecoverInterrupted(k)
      BY <2>8, <3>1 DEF Create, Register, SubmitRefused, WaitEnds, RecoverUnreadable, RecoverSkip,
                        RecoverInterrupted
    <3> QED BY <2>3, <2>9, <3>1 DEF Handler, Recover
  <2>10. ASSUME NEW t \in Threads, Worker(t)
        PROVE  /\ event'[j] # "none"
               /\ stopper' \in {"joining", "returned"} => Drained(j)'
    <3>1. CASE \/ Take(t) \/ Orphan(t) \/ BadConfig(t) \/ Begin(t) \/ Ingest(t) \/ Retry(t)
               \/ GiveUp(t) \/ Annotate(t) \/ Exhaust(t) \/ ForceFail(t) \/ Die(t) \/ Finish(t)
      BY <2>8, <3>1 DEF Take, Orphan, BadConfig, Begin, Ingest, Retry, GiveUp, Annotate, Exhaust,
                        ForceFail, Die, Finish, Goto
    <3> QED BY <2>4, <2>5, <2>10, <3>1 DEF Worker
  <2>11. CASE ShutdownReturns \/ Restart \/ Serve \/ UNCHANGED vars \/ \E k \in Jobs : Damage(k)
    BY <2>8, <2>11 DEF ShutdownReturns, Restart, Serve, Damage, vars
  <2>12. CASE Shutdown
    BY <1>a, <2>12 DEF Shutdown
  <2>13. ~Crash
    BY DEF Crash
  <2> QED BY <2>6, <2>7, <2>9, <2>10, <2>11, <2>12, <2>13 DEF Next, Stop
<1>b. CASE Shutdown
  BY <1>b DEF Shutdown
<1>c. ~Crash
  BY DEF Crash
<1>d. ~Shutdown => UNCHANGED <<drain, owed>>
  <2>1. ASSUME NEW k \in Jobs, Handler(k) \/ Recover(k) \/ Damage(k) PROVE UNCHANGED <<drain, owed>>
    BY <2>1, Zenon DEF Handler, Create, Register, Submit, SubmitRefused, WaitEnds, Recover,
         RecoverUnreadable, RecoverSkip, RecoverInterrupted, RecoverQueued, Damage
  <2>2. ASSUME NEW t \in Threads, Worker(t) PROVE UNCHANGED <<drain, owed>>
    BY <2>2, Zenon DEF Worker, Exit, Take, Orphan, BadConfig, Begin, Ingest, Retry, GiveUp, Annotate,
         Exhaust, ForceFail, Die, Finish, Signal, Goto
  <2>3. CASE Snapshot \/ (\E t \in Threads : Join(t)) \/ ShutdownReturns \/ Restart \/ Serve
             \/ UNCHANGED vars
    BY <2>3, Zenon DEF Snapshot, Join, ShutdownReturns, Restart, Serve, vars
  <2> QED BY <1>c, <2>1, <2>2, <2>3 DEF Next, Stop
<1>e. ~Shutdown => drain /\ owed' = owed /\ j \in Jobs /\ event[j] # "none"
  <2>. SUFFICES ASSUME ~Shutdown PROVE drain /\ owed' = owed /\ j \in Jobs /\ event[j] # "none"
    OBVIOUS
  <2>1. drain /\ owed' = owed
    BY <1>d, Zenon
  <2> QED BY <1>0, <2>1 DEF TypeOK, DrainInv
<1> QED BY <1>a, <1>b, <1>e

LEMMA StopInit == Init => StopInv /\ DrainInv
BY DEF Init, StopInv, DrainInv

\* What shutdown has joined and what it still has to wait for, at every moment.
THEOREM ShutdownKeepsTrack == Spec => [](StopInv /\ DrainInv)
<1> QED BY StopInit, StopStep, DrainStep, Inductive, EveryJobInCustody, NothingIsLost, PTL DEF Spec

\* JobQueue.shutdown: with drain=True every job that was in the queue is
\* finished and its waiters woken when it returns; with drain=False no worker
\* is left, and what is still pending is QUEUED in the store.
THEOREM ShutdownOrderly == Spec => []ShutdownIsOrderly
<1>1. TypeOK /\ Custody /\ StopInv /\ DrainInv => ShutdownIsOrderly
  <2>. SUFFICES ASSUME TypeOK, Custody, StopInv, DrainInv, stopper = "returned"
                PROVE  IF drain
                       THEN faults = 0 => \A j \in owed : event[j] = "set"
                       ELSE /\ \A t \in Threads : ~Alive(t)
                            /\ \A v \in Vaults : \A j \in Waiting(v) : disk[j] = "queued"
    BY DEF ShutdownIsOrderly
  <2>1. joining = {}
    BY DEF StopInv
  <2>2. CASE drain
    BY <2>1, <2>2 DEF DrainInv
  <2>3. CASE ~drain
    <3>1. \A v \in Vaults : \A j \in Waiting(v) : disk[j] = "queued"
      BY DEF Waiting, Custody, QueueInv, Untouched
    <3> QED BY <2>1, <2>3, <3>1 DEF StopInv
  <2> QED BY <2>2, <2>3
<1> QED BY <1>1, Inductive, EveryJobInCustody, ShutdownKeepsTrack, PTL DEF IInv

-------------------------------------------------------------------------------
(* Order.                                                                    *)

LEMMA AlignedAppend ==
  ASSUME NEW S, NEW o \in Seq(S), NEW p \in Seq(S), NEW n \in Nat, Aligned(o, p, n), NEW x \in S
  PROVE  Aligned(Append(o, x), Append(p, x), n)
<1>1. /\ Len(o) \in Nat /\ Len(p) \in Nat /\ Len(o) = n + Len(p)
      /\ Len(Append(o, x)) = Len(o) + 1 /\ Len(Append(p, x)) = Len(p) + 1
  BY DEF Aligned
<1>2. ASSUME NEW i \in 1..(Len(p) + 1) PROVE Append(o, x)[n + i] = Append(p, x)[i]
  <2>1. CASE i \in 1..Len(p)
    <3>1. n + i \in 1..Len(o)
      BY <1>1, <2>1
    <3> QED BY <2>1, <3>1 DEF Aligned
  <2>2. CASE i = Len(p) + 1
    <3>1. n + i = Len(o) + 1
      BY <1>1, <2>2
    <3> QED BY <2>2, <3>1
  <2> QED BY <1>1, <2>1, <2>2
<1> QED BY <1>1, <1>2 DEF Aligned

LEMMA AlignedTail ==
  ASSUME NEW S, NEW o \in Seq(S), NEW p \in Seq(S), NEW n \in Nat, Aligned(o, p, n), p # <<>>
  PROVE  Aligned(o, Tail(p), n + 1) /\ o[n + 1] = Head(p)
<1>1. Len(o) \in Nat /\ Len(p) \in Nat \ {0} /\ Len(o) = n + Len(p) /\ Head(p) = p[1]
  BY DEF Aligned
<1>2. Len(Tail(p)) = Len(p) - 1 /\ \A i \in 1..Len(Tail(p)) : Tail(p)[i] = p[i + 1]
  OBVIOUS
<1>3. ASSUME NEW i \in 1..Len(Tail(p)) PROVE o[(n + 1) + i] = Tail(p)[i]
  <2>1. i + 1 \in 1..Len(p) /\ (n + 1) + i = n + (i + 1)
    BY <1>1, <1>2
  <2> QED BY <1>2, <2>1 DEF Aligned
<1>4. o[n + 1] = p[1]
  BY <1>1 DEF Aligned
<1> QED BY <1>1, <1>2, <1>3, <1>4 DEF Aligned

\* What has been enqueued stays enqueued, and what has started stays started.
Onward == \A k \in Jobs : event[k] # "none" => event'[k] # "none" /\ (Started(k) => Started(k)')

LEMMA OnwardStarted ==
  ASSUME TypeOK, Onward, NEW v \in Vaults, NEW i \in 1..Len(order[v]), NEW k,
         event[order[v][i]] # "none", Started(order[v][i]), k = order[v][i]
  PROVE  (\E t \in Threads : job'[t] = k) \/ disk'[k] # "queued"
<1>1. k \in Jobs /\ Started(k) /\ event[k] # "none"
  BY DEF TypeOK
<1>2. Started(k)'
  BY <1>1 DEF Onward
<1> QED BY <1>2 DEF Started, InFlight

LEMMA OrderSame ==
  ASSUME TypeOK, Onward, NEW v \in Vaults, OrderInv(v), pending'[v] = pending[v],
         order'[v] = order[v]
  PROVE  OrderInv(v)'
<1>1. PICK n \in Nat : Aligned(order[v], pending[v], n) /\ \A i \in 1..n : Started(order[v][i])
  BY DEF OrderInv
<1>2. Len(order[v]) = n + Len(pending[v]) /\ Len(pending[v]) \in Nat
  BY <1>1 DEF Aligned, TypeOK
<1>3. ASSUME NEW i \in 1..n
      PROVE  (\E t \in Threads : job'[t] = order[v][i]) \/ disk'[order[v][i]] # "queued"
  <2>1. i \in 1..Len(order[v])
    BY <1>2
  <2> QED BY <1>1, <2>1, OnwardStarted DEF OrderInv
<1>4. ASSUME NEW i \in 1..Len(order[v]) PROVE event'[order[v][i]] # "none"
  <2>1. order[v][i] \in Jobs
    BY DEF TypeOK
  <2> QED BY <2>1 DEF OrderInv, Onward
<1>5. \A i \in 1..n : Started(order[v][i])'
  BY <1>3 DEF Started, InFlight
<1> QED BY <1>1, <1>4, <1>5 DEF OrderInv

LEMMA OrderEnqueue ==
  ASSUME TypeOK, NEW v \in Vaults, NEW j \in Jobs, Enqueue(v, j), event[j] = "none",
         disk' = disk, NEW w \in Vaults, OrderInv(w)
  PROVE  OrderInv(w)'
<1>1. /\ event' = [event EXCEPT ![j] = "clear"] /\ job' = job
      /\ pending' = [pending EXCEPT ![v] = Append(@, j)]
  BY DEF Enqueue, EnsureWorker, threads
<1>2. \A i \in 1..Len(order[w]) :
        order[w][i] \in Jobs /\ event[order[w][i]] # "none" /\ event'[order[w][i]] # "none"
  BY <1>1 DEF TypeOK, OrderInv
<1>3. Onward
  BY <1>1 DEF TypeOK, Onward, Started, InFlight
<1>4. CASE w # v
  <2>1. pending'[w] = pending[w] /\ order'[w] = order[w]
    BY <1>1, <1>4 DEF TypeOK, Enqueue
  <2> QED BY <1>3, <2>1, OrderSame
<1>5. CASE w = v
  <2>1. ~\E i \in 1..Len(order[v]) : order[v][i] = j
    BY <1>2, <1>5
  <2>2. order' = [order EXCEPT ![v] = Append(order[v], j)]
    BY <2>1 DEF Enqueue
  <2>3. pending'[w] = Append(pending[w], j) /\ order'[w] = Append(order[w], j)
    BY <1>1, <1>5, <2>2 DEF TypeOK
  <2>4. pending[w] \in Seq(Jobs) /\ order[w] \in Seq(Jobs) /\ Len(order[w]) \in Nat
    BY DEF TypeOK
  <2>5. PICK n \in Nat : Aligned(order[w], pending[w], n) /\ \A i \in 1..n : Started(order[w][i])
    BY DEF OrderInv
  <2>6. Aligned(order'[w], pending'[w], n)
    BY <2>3, <2>4, <2>5, AlignedAppend
  <2>7. /\ Len(order'[w]) = Len(order[w]) + 1 /\ order'[w][Len(order[w]) + 1] = j
        /\ \A i \in 1..Len(order[w]) : order'[w][i] = order[w][i]
    BY <2>3, <2>4
  <2>8. ASSUME NEW i \in 1..n PROVE Started(order[w][i])'
    <3>1. i \in 1..Len(order[w])
      BY <2>4, <2>5 DEF Aligned, TypeOK
    <3>2. order'[w][i] = order[w][i]
      BY <2>7, <3>1
    <3>3. Started(order[w][i])
      BY <2>5
    <3> QED BY <1>1, <3>2, <3>3 DEF Started, InFlight
  <2>9. ASSUME NEW i \in 1..Len(order'[w]) PROVE event'[order'[w][i]] # "none"
    <3>1. CASE i \in 1..Len(order[w])
      BY <1>2, <2>7, <3>1
    <3>2. CASE i = Len(order[w]) + 1
      BY <1>1, <2>7, <3>2 DEF TypeOK
    <3> QED BY <2>4, <2>7, <3>1, <3>2
  <2> QED BY <2>6, <2>8, <2>9 DEF OrderInv
<1> QED BY <1>4, <1>5

\* A job that has started stays so: what holds it lets go of it only once its
\* record is settled.
LEMMA StartedStays ==
  ASSUME IInv, Custody, [Next]_vars, \A t \in Threads : Steady(t), crashes' = crashes,
         NEW j \in Jobs, Started(j), event[j] # "none"
  PROVE  Started(j)'
<1>. USE DEF IInv, store, queue, locals, threads
<1>1. CASE InFlight(j)
  <2>1. PICK t \in Threads : job[t] = j
    BY <1>1 DEF InFlight
  <2>2. Holding(t)
    BY <2>1, ConstantsAssumption DEF Custody, ThreadInv
  <2>3. CASE Worker(t)
    <3>1. CASE Signal(t)
      <4>1. disk'[j] # "queued"
        BY <2>1, <2>2, <3>1 DEF Signal, WorkerInv, TERMINAL_JOB_STATES, Custody, ThreadInv
      <4> QED BY <4>1 DEF Started
    <3>2. ~Signal(t) => job'[t] = j
      BY <2>1, <2>2, <2>3 DEF Worker, Exit, Take, Orphan, BadConfig, Begin, Ingest, Retry, GiveUp,
           Annotate, Exhaust, ForceFail, Die, Finish, Goto, Steady, Holding
    <3> QED BY <3>1, <3>2 DEF Started, InFlight
  <2>4. CASE Frame(t)
    BY <2>1, <2>4 DEF Frame, Started, InFlight
  <2>5. ~Crash
    BY DEF Crash, TypeOK
  <2> QED BY <2>2, <2>3, <2>4, <2>5, FrameWorker, FrameOther DEF Next
<1>2. CASE disk[j] # "queued"
  <2>1. disk'[j] # "queued"
    <3>1. ASSUME NEW k \in Jobs, Handler(k) \/ Recover(k) \/ Damage(k) PROVE disk'[j] # "queued"
      BY <1>2, <3>1 DEF TypeOK, Custody, JobInv, Handler, Create, Register, Submit, SubmitRefused,
           WaitEnds, Recover, RecoverUnreadable, RecoverSkip, RecoverInterrupted, RecoverQueued,
           Damage, Written
    <3>2. ASSUME NEW t \in Threads, Worker(t) PROVE disk'[j] # "queued"
      <4>1. disk' = disk \/ \E state, why : Written(job[t], state, why) /\ state # "queued"
        BY <3>2 DEF WorkerInv, TERMINAL_JOB_STATES, Worker, Exit, Take, Orphan, BadConfig, Begin,
             Ingest, Retry, GiveUp, Annotate, Exhaust, ForceFail, Die, Finish, Signal, Refused
      <4> QED BY <1>2, <4>1 DEF TypeOK, Written
    <3>3. CASE Stop \/ Crash \/ Restart \/ Serve \/ UNCHANGED vars
      BY <1>2, <3>3 DEF TypeOK, Stop, Shutdown, Snapshot, Join, ShutdownReturns, Crash, Restart,
           Serve, vars
    <3> QED BY <3>1, <3>2, <3>3 DEF Next
  <2> QED BY <2>1 DEF Started
<1> QED BY <1>1, <1>2 DEF Started

LEMMA OrderTake ==
  ASSUME IInv, Custody, NEW t \in Threads, Take(t), NEW w \in Vaults, OrderInv(w),
         Onward
  PROVE  OrderInv(w)'
<1>1. /\ serves[t] \in Vaults /\ pending[serves[t]] # <<>> /\ pending[serves[t]] \in Seq(Jobs)
      /\ pending' = [pending EXCEPT ![serves[t]] = Tail(pending[serves[t]])]
      /\ job'[t] = Head(pending[serves[t]])
      /\ UNCHANGED <<order, event>>
  BY DEF IInv, TypeOK, WorkerInv, Alive, Take, NothingToDo, Popped, queue
<1>2. \A i \in 1..Len(order[w]) :
        order[w][i] \in Jobs /\ event[order[w][i]] # "none" /\ event'[order[w][i]] # "none"
  BY <1>1 DEF IInv, TypeOK, OrderInv
<1>3. PICK n \in Nat : Aligned(order[w], pending[w], n) /\ \A i \in 1..n : Started(order[w][i])
  BY DEF OrderInv
<1>4. pending[w] \in Seq(Jobs) /\ order[w] \in Seq(Jobs) /\ Len(order[w]) \in Nat
      /\ Len(pending[w]) \in Nat
  BY DEF IInv, TypeOK
<1>5. ASSUME NEW i \in 1..n PROVE Started(order[w][i])'
  <2>1. i \in 1..Len(order[w]) /\ order'[w][i] = order[w][i]
    BY <1>1, <1>3, <1>4 DEF Aligned
  <2>2. (\E u \in Threads : job'[u] = order[w][i]) \/ disk'[order[w][i]] # "queued"
    BY <1>2, <1>3, <2>1, OnwardStarted DEF IInv
  <2> QED BY <2>1, <2>2 DEF Started, InFlight
<1>6. ASSUME NEW m \in Nat, Aligned(order[w], pending'[w], m),
             \A i \in 1..m : Started(order[w][i])'
      PROVE  OrderInv(w)'
  <2>1. order' = order
    BY <1>1
  <2> QED BY <1>2, <1>6, <2>1 DEF OrderInv
<1>7. CASE w # serves[t]
  <2>1. pending'[w] = pending[w]
    BY <1>1, <1>7 DEF IInv, TypeOK
  <2> QED BY <1>3, <1>5, <1>6, <2>1
<1>8. CASE w = serves[t]
  <2>1. pending'[w] = Tail(pending[w]) /\ job'[t] = Head(pending[w]) /\ pending[w] # <<>>
    BY <1>1, <1>8 DEF IInv, TypeOK
  <2>2. Aligned(order[w], pending'[w], n + 1) /\ order[w][n + 1] = job'[t]
    BY <1>3, <1>4, <2>1, AlignedTail
  <2>3. ASSUME NEW i \in 1..(n + 1) PROVE Started(order[w][i])'
    <3>1. CASE i = n + 1
      BY <1>1, <2>2, <3>1 DEF Started, InFlight
    <3> QED BY <1>5, <3>1
  <2> QED BY <1>6, <2>2, <2>3
<1> QED BY <1>7, <1>8

LEMMA OrderStep ==
  ASSUME IInv, Custody, [Next]_vars, \A t \in Threads : Steady(t), crashes' = crashes,
         NEW w \in Vaults, OrderInv(w)
  PROVE  OrderInv(w)'
<1>. USE DEF IInv, store, process, services, queue, locals, threads
<1>0. \A j \in Jobs : Started(j) /\ event[j] # "none" => Started(j)'
  BY StartedStays
<1>2. CASE UNCHANGED <<pending, order>> /\ \A j \in Jobs : event[j] # "none" => event'[j] # "none"
  BY <1>0, <1>2, OrderSame DEF Onward
<1>3. ASSUME NEW j \in Jobs, Handler(j) \/ Recover(j) PROVE OrderInv(w)'
  <2>1. CASE Submit(j) \/ RecoverQueued(j)
    <3>1. event[j] = "none"
      BY <2>1 DEF Submit, RecoverQueued, Visiting, Custody, JobInv
    <3> QED BY <2>1, <3>1, OrderEnqueue, ConstantsAssumption DEF Submit, RecoverQueued
  <2>2. CASE \/ Create(j) \/ Register(j) \/ SubmitRefused(j) \/ WaitEnds(j)
             \/ RecoverUnreadable(j) \/ RecoverSkip(j) \/ RecoverInterrupted(j)
    BY <1>2, <2>2 DEF Create, Register, SubmitRefused, WaitEnds, RecoverUnreadable, RecoverSkip,
                RecoverInterrupted
  <2> QED BY <1>3, <2>1, <2>2 DEF Handler, Recover
<1>4. ASSUME NEW t \in Threads, Worker(t) PROVE OrderInv(w)'
  <2>1. CASE Take(t)
    <3>1. Onward
      BY <1>0, <2>1 DEF Take, Onward
    <3> QED BY <2>1, <3>1, OrderTake
  <2>2. CASE Signal(t)
    <3>1. UNCHANGED <<pending, order>> /\ \A j \in Jobs : event[j] # "none" => event'[j] # "none"
      BY <2>2 DEF TypeOK, Signal
    <3> QED BY <1>2, <3>1
  <2>3. CASE ~Take(t) /\ ~Signal(t)
    <3>1. UNCHANGED <<pending, order, event>>
      BY <1>4, <2>3 DEF Worker, Exit, Orphan, BadConfig, Begin, Ingest, Retry, GiveUp, Annotate,
           Exhaust, ForceFail, Die, Finish, Goto
    <3> QED BY <1>2, <3>1
  <2> QED BY <2>1, <2>2, <2>3
<1>5. CASE \/ Stop \/ Restart \/ Serve \/ UNCHANGED vars \/ \E j \in Jobs : Damage(j)
  BY <1>2, <1>5 DEF Stop, Shutdown, Snapshot, Join, ShutdownReturns, Restart, Serve, Damage, vars
<1>6. ~Crash
  BY DEF Crash, TypeOK
<1> QED BY <1>3, <1>4, <1>5, <1>6 DEF Next

LEMMA CrashesStay == TypeOK /\ [Next]_vars /\ crashes' = 0 => crashes = 0
<1>. SUFFICES ASSUME TypeOK, [Next]_vars, crashes' = 0 PROVE crashes = 0
  OBVIOUS
<1>. USE DEF bounds
<1>0. crashes' = crashes \/ crashes' = crashes + 1 => crashes = 0
  BY DEF TypeOK
<1>1. ASSUME NEW t \in Threads, Worker(t) PROVE crashes = 0
  BY <1>0, <1>1 DEF Worker, Exit, Take, Orphan, BadConfig, Begin, Ingest, Retry, GiveUp, Annotate,
                Exhaust, ForceFail, Die, Finish, Signal, Goto
<1>2. ASSUME NEW j \in Jobs, Handler(j) \/ Recover(j) \/ Damage(j) PROVE crashes = 0
  BY <1>0, <1>2 DEF Handler, Create, Register, Submit, SubmitRefused, WaitEnds, Recover,
       RecoverUnreadable, RecoverSkip, RecoverInterrupted, RecoverQueued, Damage
<1>3. CASE Stop \/ Crash \/ Restart \/ Serve \/ UNCHANGED vars
  BY <1>0, <1>3 DEF Stop, Shutdown, Snapshot, Join, ShutdownReturns, Crash, Restart, Serve, vars
<1> QED BY <1>1, <1>2, <1>3 DEF Next

\* The order of submission, as long as one process lives and its writes succeed.
THEOREM OrderIsKept == Spec => []FirstInv
<1>1. Init => FirstInv
  <2>1. Init => \A v \in Vaults : pending[v] = <<>> /\ order[v] = <<>>
    BY DEF Init
  <2>2. Aligned(<<>>, <<>>, 0)
    BY DEF Aligned
  <2> QED BY <2>1, <2>2 DEF FirstInv, OrderInv
<1>2. IInv /\ Custody /\ SteadyInv /\ FirstInv /\ [Next]_vars => FirstInv'
  <2>. SUFFICES ASSUME IInv, Custody, SteadyInv, FirstInv, [Next]_vars, crashes' = 0, faults' = 0,
                       NEW v \in Vaults
                PROVE  OrderInv(v)'
    BY DEF FirstInv
  <2>1. crashes = 0 /\ faults = 0
    BY CrashesStay, FaultsStay DEF IInv
  <2> QED BY <2>1, OrderStep DEF FirstInv, SteadyInv
<1> QED BY <1>1, <1>2, Inductive, EveryJobInCustody, NothingIsLost, PTL DEF Spec

\* The jobs of a vault start in the order in which they were enqueued
\* (JobQueue's deques: append in submit, popleft in _work).
THEOREM StartsInOrder == Spec => []FirstInFirstOut
<1>1. IInv /\ Custody /\ FirstInv => FirstInFirstOut
  <2>. SUFFICES ASSUME IInv, Custody, FirstInv, faults = 0, crashes = 0, NEW v \in Vaults,
                       NEW b \in 1..Len(order[v]), NEW a \in 1..b, Started(order[v][b])
                PROVE  Started(order[v][a])
    BY DEF FirstInFirstOut
  <2>1. PICK n \in Nat : Aligned(order[v], pending[v], n) /\ \A i \in 1..n : Started(order[v][i])
    BY DEF FirstInv, OrderInv
  <2>2. /\ Len(order[v]) \in Nat /\ Len(pending[v]) \in Nat
        /\ b \in Nat /\ a \in Nat /\ a <= b /\ 1 <= a /\ b <= Len(order[v])
    BY DEF IInv, TypeOK
  <2>3. CASE b <= n
    BY <2>1, <2>2, <2>3
  <2>4. CASE ~(b <= n)
    <3>1. PICK i \in 1..Len(pending[v]) : b = n + i
      <4>1. b - n \in 1..Len(pending[v]) /\ b = n + (b - n)
        BY <2>1, <2>2, <2>4 DEF Aligned
      <4> QED BY <4>1
    <3>2. order[v][b] = pending[v][i]
      BY <2>1, <3>1 DEF Aligned
    <3>3. Untouched(v, order[v][b])
      BY <3>1, <3>2 DEF Custody, QueueInv
    <3> QED BY <3>3 DEF Untouched, Started, InFlight
  <2> QED BY <2>3, <2>4
<1> QED BY <1>1, Inductive, EveryJobInCustody, OrderIsKept, PTL

-------------------------------------------------------------------------------
(* A job is never overtaken.                                                 *)

\* The index of a job in its deque is its position.
PositionIsIndex ==
  \A j \in Jobs : \A i \in 1..Len(pending[VaultOf[j]]) :
    pending[VaultOf[j]][i] = j => Position(j) = i

LEMMA PositionWaiting == IInv /\ Custody => PositionIsIndex
<1>. SUFFICES ASSUME IInv, Custody, NEW j \in Jobs, NEW i \in 1..Len(pending[VaultOf[j]]),
                     pending[VaultOf[j]][i] = j
              PROVE  Position(j) = i
  BY DEF PositionIsIndex
<1>. DEFINE v == VaultOf[j]
<1>1. v \in Vaults
  BY ConstantsAssumption
<1>2. Untouched(v, j)
  BY <1>1 DEF Custody, QueueInv
<1>3. \A a \in 1..Len(pending[v]) : pending[v][a] = j => a = i
  BY <1>1 DEF Custody, QueueInv
<1>4. (CHOOSE a \in 1..Len(pending[v]) : pending[v][a] = j) = i
  BY <1>3
<1>5. j \in Waiting(v)
  BY DEF Waiting
<1> QED BY <1>2, <1>4, <1>5 DEF Position, Untouched

\* A job that is with a worker is at position 0 until its result is published.
HeldIsFirst == \A j \in Jobs : InFlight(j) /\ results[j] = "none" => Position(j) = 0

LEMMA PositionHeld == IInv /\ Custody => HeldIsFirst
<1>. SUFFICES ASSUME IInv, Custody, NEW j \in Jobs, InFlight(j), results[j] = "none"
              PROVE  Position(j) = 0
  BY DEF HeldIsFirst
<1>1. PICK t \in Threads : job[t] = j
  BY DEF InFlight
<1>2. Holding(t)
  BY <1>1, ConstantsAssumption DEF Custody, ThreadInv
<1>3. serves[t] = VaultOf[j] /\ event[j] = "clear"
  BY <1>1, <1>2 DEF Custody, ThreadInv
<1>4. pc[t] # "signal"
  BY <1>1, <1>2 DEF IInv, WorkerInv, TERMINAL_JOB_STATES, Custody, ThreadInv
<1>5. running[VaultOf[j]] = j
  BY <1>1, <1>2, <1>3, <1>4 DEF Custody, ThreadInv
<1> QED BY <1>3, <1>5 DEF Position

\* A result is published once.
LEMMA ResultsStay ==
  ASSUME IInv, [Next]_vars, NEW j \in Jobs, results[j] # "none", event'[j] = "clear"
  PROVE  results'[j] # "none"
<1>. USE DEF IInv, queue
<1>1. ASSUME NEW t \in Threads, Finish(t) PROVE results'[j] # "none"
  BY <1>1 DEF TypeOK, Finish, WorkerInv, TERMINAL_JOB_STATES
<1>2. CASE results' = results
  BY <1>2
<1>3. ASSUME NEW t \in Threads, Worker(t), ~Finish(t) PROVE results' = results
  BY <1>3 DEF Worker, Exit, Take, Orphan, BadConfig, Begin, Ingest, Retry, GiveUp, Annotate, Exhaust,
              ForceFail, Die, Signal, Goto
<1>4. ASSUME NEW k \in Jobs, Handler(k) \/ Recover(k) \/ Damage(k) PROVE results' = results
  BY <1>4 DEF Handler, Create, Register, Submit, SubmitRefused, WaitEnds, Recover,
       RecoverUnreadable, RecoverSkip, RecoverInterrupted, RecoverQueued, Damage, Enqueue
<1>5. CASE Stop \/ Restart \/ Serve \/ UNCHANGED vars
  BY <1>2, <1>5 DEF Stop, Shutdown, Snapshot, Join, ShutdownReturns, Restart, Serve, vars
<1>6. ~Crash
  BY DEF Crash
<1> QED BY <1>1, <1>2, <1>3, <1>4, <1>5, <1>6 DEF Next

\* Where a waiting job was before the step: not further ahead.
LEMMA WaitedBefore ==
  ASSUME IInv, Custody, [Next]_vars, NEW j \in Jobs, event[j] = "clear",
         NEW i \in 1..Len(pending'[VaultOf[j]]), pending'[VaultOf[j]][i] = j
  PROVE  \E a \in 1..Len(pending[VaultOf[j]]) : pending[VaultOf[j]][a] = j /\ i <= a
<1>. DEFINE v == VaultOf[j]
<1>. USE DEF IInv, store, process, services, queue, locals, threads
<1>0. v \in Vaults /\ pending[v] \in Seq(Jobs) /\ Len(pending[v]) \in Nat
  BY ConstantsAssumption DEF TypeOK
<1>1. CASE pending' = pending
  BY <1>1
<1>2. ASSUME NEW k \in Jobs, Handler(k) \/ Recover(k)
      PROVE  \E a \in 1..Len(pending[v]) : pending[v][a] = j /\ i <= a
  <2>1. CASE Submit(k) \/ RecoverQueued(k)
    <3>1. event[k] = "none" /\ pending' = [pending EXCEPT ![VaultOf[k]] = Append(@, k)]
          /\ VaultOf[k] \in Vaults
      BY <2>1, ConstantsAssumption DEF Submit, RecoverQueued, Visiting, Custody, JobInv, Enqueue
    <3>2. CASE v # VaultOf[k]
      <4>1. pending'[v] = pending[v]
        BY <1>0, <3>1, <3>2 DEF TypeOK
      <4> QED BY <4>1
    <3>3. CASE v = VaultOf[k]
      <4>1. pending'[v] = Append(pending[v], k)
        BY <1>0, <3>1, <3>3 DEF TypeOK
      <4>2. /\ Len(pending'[v]) = Len(pending[v]) + 1 /\ pending'[v][Len(pending[v]) + 1] = k
            /\ \A a \in 1..Len(pending[v]) : pending'[v][a] = pending[v][a]
        BY <1>0, <4>1
      <4>3. i # Len(pending[v]) + 1
        BY <3>1, <4>2
      <4>4. i \in 1..Len(pending[v])
        BY <1>0, <4>2, <4>3
      <4> QED BY <4>2, <4>4
    <3> QED BY <3>2, <3>3
  <2>2. CASE \/ Create(k) \/ Register(k) \/ SubmitRefused(k) \/ WaitEnds(k)
             \/ RecoverUnreadable(k) \/ RecoverSkip(k) \/ RecoverInterrupted(k)
    BY <1>1, <2>2 DEF Create, Register, SubmitRefused, WaitEnds, RecoverUnreadable, RecoverSkip,
                RecoverInterrupted
  <2> QED BY <1>2, <2>1, <2>2 DEF Handler, Recover
<1>3. ASSUME NEW t \in Threads, Worker(t)
      PROVE  \E a \in 1..Len(pending[v]) : pending[v][a] = j /\ i <= a
  <2>1. CASE Take(t)
    <3>1. /\ serves[t] \in Vaults /\ pending[serves[t]] # <<>>
          /\ pending' = [pending EXCEPT ![serves[t]] = Tail(pending[serves[t]])]
      BY <2>1 DEF WorkerInv, Alive, Take, NothingToDo, Popped
    <3>2. CASE v # serves[t]
      <4>1. pending'[v] = pending[v]
        BY <1>0, <3>1, <3>2 DEF TypeOK
      <4> QED BY <4>1
    <3>3. CASE v = serves[t]
      <4>1. pending'[v] = Tail(pending[v]) /\ pending[v] # <<>>
        BY <1>0, <3>1, <3>3 DEF TypeOK
      <4>2. Len(pending'[v]) = Len(pending[v]) - 1 /\ pending'[v][i] = pending[v][i + 1]
        BY <1>0, <4>1
      <4>3. i + 1 \in 1..Len(pending[v]) /\ i <= i + 1
        BY <1>0, <4>2
      <4> QED BY <4>2, <4>3
    <3> QED BY <3>2, <3>3
  <2>2. CASE ~Take(t)
    BY <1>1, <1>3, <2>2 DEF Worker, Exit, Orphan, BadConfig, Begin, Ingest, Retry, GiveUp, Annotate,
           Exhaust, ForceFail, Die, Finish, Signal, Goto
  <2> QED BY <2>1, <2>2
<1>4. CASE \/ Stop \/ Restart \/ Serve \/ UNCHANGED vars \/ \E k \in Jobs : Damage(k)
  BY <1>1, <1>4 DEF Stop, Shutdown, Snapshot, Join, ShutdownReturns, Restart, Serve, Damage, vars
<1>5. CASE Crash
  BY <1>0, <1>5 DEF Crash
<1> QED BY <1>2, <1>3, <1>4, <1>5 DEF Next

Overtaken(j) ==
  event[j] = "clear" /\ event'[j] = "clear" /\ faults' = 0 =>
    \/ Position(j)' <= Position(j)
    \/ results'[j] # "none"

LEMMA PositionStep ==
  ASSUME IInv, IInv', Custody, Custody', SteadyInv, SteadyInv', [Next]_vars, NEW j \in Jobs
  PROVE  Overtaken(j)
<1>. SUFFICES ASSUME event[j] = "clear", event'[j] = "clear", faults' = 0, results'[j] = "none"
              PROVE  Position(j)' <= Position(j)
  BY DEF Overtaken
<1>0. VaultOf[j] \in Vaults /\ results[j] = "none" /\ faults = 0
  BY ResultsStay, FaultsStay, ConstantsAssumption DEF IInv
<1>1. Placed(j) /\ Placed(j)'
  BY <1>0 DEF SteadyInv
<1>2. PositionIsIndex /\ PositionIsIndex'
  BY PositionWaiting, PTL
<1>3. HeldIsFirst /\ HeldIsFirst'
  BY PositionHeld, PTL
<1>4. Position(j) \in Nat
  <2>1. CASE InFlight(j)
    BY <1>0, <1>3, <2>1 DEF HeldIsFirst
  <2>2. CASE j \in Waiting(VaultOf[j])
    <3>1. PICK a \in 1..Len(pending[VaultOf[j]]) : pending[VaultOf[j]][a] = j
      BY <2>2 DEF Waiting
    <3> QED BY <1>2, <3>1 DEF PositionIsIndex
  <2> QED BY <1>1, <2>1, <2>2 DEF Placed
<1>5. CASE InFlight(j)'
  <2>1. Position(j)' = 0
    BY <1>3, <1>5 DEF HeldIsFirst
  <2> QED BY <1>4, <2>1
<1>6. CASE j \in Waiting(VaultOf[j])'
  <2>1. PICK i \in 1..Len(pending'[VaultOf[j]]) : pending'[VaultOf[j]][i] = j
    BY <1>6 DEF Waiting
  <2>2. PICK a \in 1..Len(pending[VaultOf[j]]) : pending[VaultOf[j]][a] = j /\ i <= a
    BY <2>1, WaitedBefore
  <2>3. Position(j) = a
    BY <1>2, <2>2 DEF PositionIsIndex
  <2>4. Position(j)' = i
    BY <1>2, <2>1 DEF PositionIsIndex
  <2> QED BY <2>2, <2>3, <2>4
<1> QED BY <1>1, <1>5, <1>6 DEF Placed

\* JobQueue.position_of: while a client waits for its job, the position it is
\* told only decreases.
THEOREM NeverOvertaken == Spec => PositionNeverGrows
<1>1. IInv /\ IInv' /\ Custody /\ Custody' /\ SteadyInv /\ SteadyInv' /\ [Next]_vars
        => \A j \in Jobs : Overtaken(j)
  BY PositionStep
<1>2. (\A j \in Jobs : Overtaken(j)) =>
        \A j \in Jobs :
          event[j] = "clear" /\ event'[j] = "clear" /\ faults' = 0 =>
            \/ Position(j)' <= Position(j)
            \/ results'[j] # "none"
  BY DEF Overtaken
<1> QED BY <1>1, <1>2, Inductive, EveryJobInCustody, NothingIsLost, PTL
    DEF Spec, PositionNeverGrows

-------------------------------------------------------------------------------
(* The job records implement the ledger of JobLedger.                        *)

\* While the disk is not full and no file is damaged, every record is readable.
Readable ==
  /\ faults <= MaxStoreFaults /\ damage <= MaxDamage
  /\ damage = 0 => \A j \in Jobs : disk[j] # "unreadable"

LEMMA ReadableStep == IInv /\ Readable /\ [Next]_vars => Readable'
<1>. SUFFICES ASSUME TypeOK, WorkerInv, Readable, [Next]_vars PROVE Readable'
  BY DEF IInv
<1>. USE DEF Readable, store, bounds
<1>0. /\ MaxStoreFaults \in Nat /\ MaxDamage \in Nat /\ faults \in Nat /\ damage \in Nat
  BY ConstantsAssumption DEF TypeOK
<1>1. ASSUME NEW t \in Threads, Worker(t) PROVE Readable'
  <2>1. damage' = damage
    BY <1>1 DEF Worker, Exit, Take, Orphan, BadConfig, Begin, Ingest, Retry, GiveUp, Annotate,
                Exhaust, ForceFail, Die, Finish, Signal, Goto
  <2>2. faults' = faults \/ (faults < MaxStoreFaults /\ faults' = faults + 1)
    BY <1>1 DEF Worker, Exit, Take, Orphan, BadConfig, Begin, Ingest, Retry, GiveUp, Annotate,
                Exhaust, ForceFail, Die, Finish, Signal, Written, Refused
  <2>3. disk' = disk \/ \E state, why : Written(job[t], state, why) /\ state # "unreadable"
    BY <1>1 DEF WorkerInv, TERMINAL_JOB_STATES, Worker, Exit, Take, Orphan, BadConfig, Begin, Ingest,
         Retry, GiveUp, Annotate, Exhaust, ForceFail, Die, Finish, Signal, Refused
  <2>4. ASSUME NEW j \in Jobs, disk[j] # "unreadable" PROVE disk'[j] # "unreadable"
    BY <2>3, <2>4 DEF TypeOK, Written
  <2> QED BY <1>0, <2>1, <2>2, <2>4
<1>2. ASSUME NEW k \in Jobs, Handler(k) \/ Recover(k) PROVE Readable'
  <2>1. UNCHANGED <<damage, faults>>
    BY <1>2 DEF Handler, Create, Register, Submit, SubmitRefused, WaitEnds, Recover,
         RecoverUnreadable, RecoverSkip, RecoverInterrupted, RecoverQueued, Written
  <2>2. ASSUME NEW j \in Jobs, disk[j] # "unreadable" PROVE disk'[j] # "unreadable"
    BY <1>2, <2>2 DEF TypeOK, Handler, Create, Register, Submit, SubmitRefused, WaitEnds, Recover,
         RecoverUnreadable, RecoverSkip, RecoverInterrupted, RecoverQueued, Written
  <2> QED BY <2>1, <2>2
<1>3. ASSUME NEW k \in Jobs, Damage(k) PROVE Readable'
  <2>1. faults' = faults /\ damage < MaxDamage /\ damage' = damage + 1
    BY <1>3 DEF Damage
  <2> QED BY <1>0, <2>1
<1>4. CASE Stop \/ Crash \/ Restart \/ Serve \/ UNCHANGED vars
  <2>1. UNCHANGED <<damage, faults>>
    BY <1>4 DEF Stop, Shutdown, Snapshot, Join, ShutdownReturns, Crash, Restart, Serve, vars
  <2>2. ASSUME NEW j \in Jobs, disk[j] # "unreadable" PROVE disk'[j] # "unreadable"
    BY <1>4, <2>2 DEF TypeOK, Stop, Shutdown, Snapshot, Join, ShutdownReturns, Crash, Restart, Serve,
         vars
  <2> QED BY <2>1, <2>2
<1> QED BY <1>1, <1>2, <1>3, <1>4 DEF Next

LEMMA LedgerSame ==
  ASSUME UNCHANGED disk, \A j \in Jobs : handler'[j] = "idle" <=> handler[j] = "idle"
  PROVE  LedgerView' = LedgerView
BY DEF LedgerView

LEMMA LedgerWritten ==
  ASSUME TypeOK, NEW j \in Jobs, NEW state \in JobStates, NEW why, Written(j, state, why),
         UNCHANGED handler
  PROVE  LedgerView' = [LedgerView EXCEPT ![j] = state]
BY DEF TypeOK, Written, LedgerView, JobStates

\* The ledger shows what is stored.
LEMMA LedgerShows ==
  ASSUME Custody, Readable, damage = 0, TypeOK, NEW j \in Jobs
  PROVE  /\ disk[j] \in JobStates => LedgerView[j] = disk[j]
         /\ LedgerView[j] = "running" => disk[j] = "running"
         /\ disk[j] \in JobStates \union {"none"}
         /\ handler[j] = "idle" => LedgerView[j] = "absent"
BY DEF TypeOK, Custody, JobInv, Readable, LedgerView, JobStates

LEMMA LedgerWorker ==
  ASSUME IInv, Custody, SteadyInv, Readable, damage = 0, faults' = 0, [Next]_vars,
         NEW t \in Threads, Worker(t)
  PROVE  [Ledger!Next]_LedgerView
<1>. USE DEF IInv, store, services, queue, locals, threads
<1>. DEFINE j == job[t]
<1>0. /\ faults = 0 /\ Steady(t) /\ (\A k \in Jobs : Placed(k))
      /\ Holding(t) => j \in Jobs
  BY FaultsStay DEF SteadyInv, WorkerInv, Holding
<1>1. handler' = handler
  BY DEF Worker, Exit, Take, Orphan, BadConfig, Begin, Ingest, Retry, GiveUp, Annotate, Exhaust,
         ForceFail, Die, Finish, Signal, Goto
<1>2. CASE disk' = disk
  BY <1>1, <1>2, LedgerSame
<1>3. ASSUME NEW o \in {"succeeded", "failed"}, NEW why, Written(j, o, why), Holding(t),
             disk[j] = "running" \/ (disk[j] = "queued" /\ o = "failed")
      PROVE  [Ledger!Next]_LedgerView
  <2>1. LedgerView' = [LedgerView EXCEPT ![j] = o] /\ LedgerView[j] = disk[j]
    BY <1>0, <1>1, <1>3, LedgerWritten, LedgerShows DEF JobStates
  <2>2. Ledger!Settle(j)
    BY <1>3, <2>1 DEF Ledger!Settle, Ledger!Outcomes
  <2> QED BY <1>0, <1>3, <2>2 DEF Ledger!Next
<1>4. CASE Exit(t) \/ Take(t) \/ BadConfig(t) \/ Retry(t) \/ GiveUp(t) \/ Die(t) \/ Finish(t)
           \/ Signal(t)
  BY <1>2, <1>4 DEF Exit, Take, BadConfig, Retry, GiveUp, Die, Finish, Signal
<1>5. CASE Orphan(t)
  <2>1. Holding(t) /\ disk[j] \in {"queued", "running"}
    BY <1>0, <1>5 DEF Orphan, Holding, Steady
  <2> QED BY <1>2, <1>3, <1>5, <2>1 DEF Orphan, Refused
<1>6. CASE Begin(t)
  <2>1. Holding(t) /\ disk[j] = "queued"
    BY <1>0, <1>6 DEF Begin, Holding, Steady
  <2>2. ASSUME Written(j, "running", "none") PROVE Ledger!Begin(j)
    <3>1. LedgerView' = [LedgerView EXCEPT ![j] = "running"] /\ LedgerView[j] = "queued"
      BY <1>0, <1>1, <2>1, <2>2, LedgerWritten, LedgerShows DEF JobStates
    <3>2. ASSUME NEW k \in Jobs, VaultOf[k] = VaultOf[j], LedgerView[k] = "running" PROVE FALSE
      <4>1. disk[k] = "running"
        BY <3>2, LedgerShows
      <4>2. k = j
        BY <1>0, <1>6, <3>2, <4>1, BeginAlone
      <4> QED BY <2>1, <4>1, <4>2
    <3> QED BY <3>1, <3>2 DEF Ledger!Begin
  <2>3. j \in Jobs
    BY <1>0, <2>1
  <2> QED BY <1>2, <1>6, <2>2, <2>3 DEF Begin, Refused, Ledger!Next
<1>7. CASE Ingest(t)
  <2>1. Holding(t) /\ disk[j] = "running"
    BY <1>0, <1>7 DEF Ingest, Holding, Steady
  <2> QED BY <1>2, <1>3, <1>7, <2>1 DEF Ingest
<1>8. CASE Annotate(t)
  <2>1. Holding(t) /\ disk[j] = outcome[t] /\ outcome[t] \in JobStates
    BY <1>0, <1>8 DEF Annotate, Holding, Steady, WorkerInv, TERMINAL_JOB_STATES, JobStates
  <2>2. ASSUME NEW why, Written(j, outcome[t], why) PROVE LedgerView' = LedgerView
    <3>1. LedgerView' = [LedgerView EXCEPT ![j] = outcome[t]] /\ LedgerView[j] = outcome[t]
      BY <1>0, <1>1, <2>1, <2>2, LedgerWritten, LedgerShows
    <3> QED BY <3>1 DEF LedgerView
  <2> QED BY <1>2, <1>8, <2>2 DEF Annotate, Refused
<1>9. CASE Exhaust(t)
  <2>1. Holding(t) /\ disk[j] \in {"queued", "running"}
    BY <1>0, <1>9 DEF Exhaust, Holding, Steady
  <2> QED BY <1>2, <1>3, <1>9, <2>1 DEF Exhaust, Refused
<1>10. ~ForceFail(t)
  BY <1>0 DEF ForceFail, Steady
<1> QED BY <1>4, <1>5, <1>6, <1>7, <1>8, <1>9, <1>10 DEF Worker

LEMMA LedgerStep ==
  ASSUME IInv, Custody, SteadyInv, Readable, damage' = 0, faults' = 0, [Next]_vars
  PROVE  [Ledger!Next]_LedgerView
<1>. USE DEF IInv, store, process, services, queue, threads, bounds
<1>0. damage = 0
  <2>1. ASSUME NEW t \in Threads, Worker(t) PROVE damage' = damage
    BY <2>1 DEF Worker, Exit, Take, Orphan, BadConfig, Begin, Ingest, Retry, GiveUp, Annotate,
                Exhaust, ForceFail, Die, Finish, Signal, Goto
  <2>2. ASSUME NEW k \in Jobs, Handler(k) \/ Recover(k) PROVE damage' = damage
    BY <2>2 DEF Handler, Create, Register, Submit, SubmitRefused, WaitEnds, Recover,
         RecoverUnreadable, RecoverSkip, RecoverInterrupted, RecoverQueued
  <2>3. ASSUME NEW k \in Jobs, Damage(k) PROVE damage = 0
    BY <2>3 DEF Damage, TypeOK
  <2>4. CASE Stop \/ Crash \/ Restart \/ Serve \/ UNCHANGED vars
    BY <2>4 DEF Stop, Shutdown, Snapshot, Join, ShutdownReturns, Crash, Restart, Serve, vars
  <2> QED BY <2>1, <2>2, <2>3, <2>4 DEF Next
<1>1. ASSUME NEW j \in Jobs, Create(j) PROVE Ledger!Next
  <2>1. LedgerView[j] = "absent"
    BY <1>0, <1>1, LedgerShows DEF Create
  <2>2. LedgerView' = [LedgerView EXCEPT ![j] = "queued"]
    BY <1>1 DEF Create, LedgerView, TypeOK
  <2> QED BY <2>1, <2>2 DEF Ledger!Next, Ledger!Accept
<1>2. ASSUME NEW j \in Jobs, Handler(j), ~Create(j) PROVE LedgerView' = LedgerView
  <2>1. disk' = disk /\ \A k \in Jobs : handler'[k] = "idle" <=> handler[k] = "idle"
    BY <1>2 DEF TypeOK, Handler, Register, Submit, SubmitRefused, WaitEnds
  <2> QED BY <2>1, LedgerSame
<1>3. ASSUME NEW j \in Jobs, Recover(j) PROVE [Ledger!Next]_LedgerView
  <2>1. CASE RecoverInterrupted(j)
    <3>1. LedgerView' = [LedgerView EXCEPT ![j] = "failed"] /\ LedgerView[j] = "running"
      BY <1>0, <2>1, LedgerWritten, LedgerShows DEF RecoverInterrupted, JobStates
    <3> QED BY <3>1 DEF Ledger!Next, Ledger!Settle, Ledger!Outcomes
  <2>2. CASE RecoverSkip(j) \/ RecoverQueued(j)
    BY <2>2, LedgerSame DEF RecoverSkip, RecoverQueued
  <2>3. ~RecoverUnreadable(j)
    BY <1>0 DEF RecoverUnreadable, Readable
  <2> QED BY <1>3, <2>1, <2>2, <2>3 DEF Recover
<1>4. ASSUME NEW t \in Threads, Worker(t) PROVE [Ledger!Next]_LedgerView
  BY <1>0, <1>4, LedgerWorker
<1>5. CASE Stop \/ Serve \/ UNCHANGED vars
  BY <1>5, LedgerSame DEF Stop, Shutdown, Snapshot, Join, ShutdownReturns, Serve, vars
<1>6. CASE Crash
  <2>1. disk' = disk /\ \A k \in Jobs : handler'[k] = "idle" <=> handler[k] = "idle"
    BY <1>6 DEF Crash
  <2> QED BY <2>1, LedgerSame
<1>7. CASE Restart
  <2>1. PICK old \in SUBSET {j \in Jobs : disk[j] \in TERMINAL_JOB_STATES} :
          disk' = [j \in Jobs |-> IF j \in old THEN "none" ELSE disk[j]]
    BY <1>7 DEF Restart
  <2>2. handler' = handler
    BY <1>7 DEF Restart
  <2>3. \A j \in old : j \in Jobs /\ handler[j] # "idle" /\ LedgerView[j] \in Ledger!Outcomes
    BY <2>1 DEF Custody, JobInv, TERMINAL_JOB_STATES, LedgerView, Ledger!Outcomes
  <2>4. LedgerView' = [j \in Jobs |-> IF j \in old THEN "gone" ELSE LedgerView[j]]
    BY <2>1, <2>2, <2>3 DEF LedgerView
  <2>5. old \in SUBSET {j \in Jobs : LedgerView[j] \in Ledger!Outcomes}
    BY <2>3
  <2>6. Ledger!Forget
    BY <2>4, <2>5 DEF Ledger!Forget
  <2> QED BY <2>6 DEF Ledger!Next
<1>8. ASSUME NEW j \in Jobs, Damage(j) PROVE FALSE
  BY <1>0, <1>8 DEF Damage
<1> QED BY <1>1, <1>2, <1>3, <1>4, <1>5, <1>6, <1>7, <1>8 DEF Next

\* Crashes, restarts, retention and all, what GET /jobs/<id> shows behaves as
\* the ledger of JobLedger: accepted, then perhaps running (one per vault), then
\* settled once, and forgotten only afterwards.
THEOREM RecordsImplementLedger ==
  ASSUME MaxStoreFaults = 0, MaxDamage = 0
  PROVE  Spec => ImplementsLedger
<1>1. Init => Ledger!Init
  BY DEF Init, Ledger!Init, LedgerView
<1>2. Init => Readable
  BY ConstantsAssumption DEF Init, Readable
<1>3. TypeOK' /\ Readable' => faults' = 0 /\ damage' = 0
  BY DEF TypeOK, Readable
<1>4. IInv /\ IInv' /\ Custody /\ SteadyInv /\ Readable /\ Readable' /\ [Next]_vars
        => [Ledger!Next]_LedgerView
  BY <1>3, LedgerStep DEF IInv
<1> QED BY <1>1, <1>2, <1>4, ReadableStep, Inductive, EveryJobInCustody, NothingIsLost, PTL
    DEF Spec, ImplementsLedger, Ledger!Spec

===============================================================================
