---------------------------- MODULE JobLifecycle ----------------------------
(***************************************************************************)
(* The lifecycle of one ingest job: models/job.py, and the rule by which   *)
(* JobStore.update accepts or refuses a new version of a record.           *)
(***************************************************************************)

JobStates == {"queued", "running", "succeeded", "failed"}

TERMINAL_JOB_STATES == {"succeeded", "failed"}

LEGAL_JOB_TRANSITIONS ==
  [queued    |-> {"running", "failed"},
   running   |-> {"succeeded", "failed"},
   succeeded |-> {},
   failed    |-> {}]

\* JobRecord.can_transition_to; transitioned_to raises exactly when it is FALSE.
CanTransition(old, new) == new \in LEGAL_JOB_TRANSITIONS[old]

\* What JobStore.update demands of the stored state `old` before it writes a
\* record in state `new`.  There is no record to update when old is neither
\* a job state nor readable.
MayUpdate(old, new) ==
  /\ old \in JobStates
  /\ new = old \/ CanTransition(old, new)

\* Mutant: model_copy(state=FAILED) without transitioned_to.
CanForceFailedAnyway(old) == old \in JobStates

\* `r if r.state is RUNNING else r.transitioned_to(RUNNING)`, followed by
\* transitioned_to(FAILED): how the orphan, retry and worker paths fail a job.
\* It raises ValueError from a terminal state, and the update that follows
\* raises JobStoreError when no record is stored.
CanForceFailed(old) == old = "running" \/ (old \in JobStates /\ CanTransition(old, "running"))
=============================================================================
