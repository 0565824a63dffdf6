----------------------------- MODULE AtomicIngest ------------------------------
(***************************************************************************)
(* What ingestion promises of a vault's history, without files, git or     *)
(* crashes: the notes of a job enter the history together and at most      *)
(* once, while the job runs, and a job is reported succeeded only when the *)
(* notes of its text, written by itself or by an earlier ingest of the     *)
(* same text, are there.  A job reported failed promises nothing of the    *)
(* kind: its notes may have been stored before it failed.                  *)
(* (README.md "One ingest is exactly one commit, all-or-nothing";          *)
(* docs/requirements.md 7.2, 7.7.)  IngestPipeline implements it.          *)
(***************************************************************************)
EXTENDS Naturals

CONSTANTS Jobs, NotesPerJob,
          SameSource(_, _)   \* whether two jobs bring the same text to one vault

VARIABLES state,   \* job -> "none", "running", "succeeded" or "failed"
          stored   \* job -> how many of its notes the history holds

vars == <<state, stored>>

Init ==
  /\ state = [j \in Jobs |-> "none"]
  /\ stored = [j \in Jobs |-> 0]

Begin(j) ==
  /\ state[j] = "none"
  /\ state' = [state EXCEPT ![j] = "running"]
  /\ UNCHANGED stored

\* All notes of the job at once.
Store(j) ==
  /\ state[j] = "running" /\ stored[j] = 0
  /\ stored' = [stored EXCEPT ![j] = NotesPerJob]
  /\ UNCHANGED state

Succeed(j) ==
  /\ state[j] = "running"
  /\ \E k \in Jobs : SameSource(j, k) /\ stored[k] = NotesPerJob
  /\ state' = [state EXCEPT ![j] = "succeeded"]
  /\ UNCHANGED stored

Fail(j) ==
  /\ state[j] = "running"
  /\ state' = [state EXCEPT ![j] = "failed"]
  /\ UNCHANGED stored

Next == \E j \in Jobs : Begin(j) \/ Store(j) \/ Succeed(j) \/ Fail(j)

Spec == Init /\ [][Next]_vars
===============================================================================
