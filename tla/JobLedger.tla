------------------------------ MODULE JobLedger ------------------------------
(***************************************************************************)
(* What the job service promises to whoever polls GET /jobs/<id>, and      *)
(* nothing about how: a ledger with one entry per job.                     *)
(*                                                                         *)
(* An accepted job is visible as "queued", then perhaps as "running", and  *)
(* ends "succeeded" or "failed"; an outcome is never revised; at most one  *)
(* job of a vault is "running"; an entry disappears only after its outcome *)
(* was published (retention).  JobQueue.tla is shown to implement it,      *)
(* process crashes and restarts included.                                  *)
(***************************************************************************)
CONSTANTS Jobs, Vaults, VaultOf

VARIABLE ledger

LedgerStates == {"absent", "queued", "running", "succeeded", "failed", "gone"}
Outcomes == {"succeeded", "failed"}

LedgerTypeOK == ledger \in [Jobs -> LedgerStates]

Init == ledger = [j \in Jobs |-> "absent"]

\* POST /ingest: the record is on disk before the request is queued.
Accept(j) ==
  /\ ledger[j] = "absent"
  /\ ledger' = [ledger EXCEPT ![j] = "queued"]

\* A vault runs one ingest at a time.
Begin(j) ==
  /\ ledger[j] = "queued"
  /\ \A k \in Jobs : VaultOf[k] = VaultOf[j] => ledger[k] # "running"
  /\ ledger' = [ledger EXCEPT ![j] = "running"]

\* A job that never ran can only fail.
Settle(j) ==
  \E outcome \in Outcomes :
    /\ \/ ledger[j] = "running"
       \/ ledger[j] = "queued" /\ outcome = "failed"
    /\ ledger' = [ledger EXCEPT ![j] = outcome]

\* Retention removes records of settled jobs, several in one sweep.
Forget ==
  \E old \in SUBSET {j \in Jobs : ledger[j] \in Outcomes} :
    ledger' = [j \in Jobs |-> IF j \in old THEN "gone" ELSE ledger[j]]

Next == \/ \E j \in Jobs : Accept(j) \/ Begin(j) \/ Settle(j)
        \/ Forget

Spec == Init /\ [][Next]_ledger

\* Every accepted job is settled in the end.
EveryJobSettles ==
  \A j \in Jobs : ledger[j] \in {"queued", "running"} ~> ledger[j] \in Outcomes \union {"gone"}
==============================================================================
