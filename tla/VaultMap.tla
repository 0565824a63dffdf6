------------------------------- MODULE VaultMap --------------------------------
(* What the vault registry promises its callers (storage/registry.py: "a     *)
(* persisted name -> repo root map"): each change takes effect at one moment *)
(* between the request and its answer, a success means that it did, a        *)
(* missing vault is reported only when there is none, and no crash loses or  *)
(* mixes up entries.  It is promised to requests whose changes do not        *)
(* overlap: after a race nothing is.                                         *)
CONSTANTS Names, Roots, None, Requests, Configured, Before

VARIABLES
  map,     \* name -> root, or None
  calls,   \* request -> what it asks and how far it is
  races    \* whether two changes have overlapped

vars == <<map, calls, races>>

Status(r, s) == calls' = [calls EXCEPT ![r].status = s]

Init ==
  /\ map = Before
  /\ \A r \in Requests : calls[r].status = "idle"
  /\ races = FALSE

Ask(r) ==
  /\ calls[r].status = "idle"
  /\ \E op \in {"adopt", "delete"}, n \in Names, p \in Roots \union {None} :
       calls' = [calls EXCEPT ![r] = [status |-> "asked", op |-> op, name |-> n, root |-> p]]
  /\ UNCHANGED map

Apply(r) ==
  LET c == calls[r] IN
  /\ c.status = "asked"
  /\ (c.op = "adopt") <=> (map[c.name] = None)
  /\ map' = [map EXCEPT ![c.name] = c.root]    \* a delete asks for None
  /\ Status(r, "applied") \/ Status(r, "accepted")

Accept(r) == calls[r].status = "applied" /\ Status(r, "accepted") /\ UNCHANGED map

\* An adopt is refused for many reasons, a delete only for want of the vault.
Refuse(r) ==
  /\ calls[r].status = "asked"
  /\ calls[r].op = "delete" => map[calls[r].name] = None
  /\ Status(r, "refused")
  /\ UNCHANGED map

\* git refuses to make a new vault's first commit: an adopt that has no effect.
Break(r) ==
  /\ calls[r].status = "asked" /\ calls[r].op = "adopt"
  /\ Status(r, "broken")
  /\ UNCHANGED map

Return(r) ==
  /\ calls[r].status \in {"accepted", "refused", "broken"}
  /\ calls' = [calls EXCEPT ![r] = [status |-> "idle", op |-> "none",
                                    name |-> None, root |-> None]]
  /\ UNCHANGED map

\* At a start, a vault of the configuration that is missing is registered.
Seed(n) ==
  /\ map[n] = None
  /\ map' = [map EXCEPT ![n] = Configured[n]]
  /\ UNCHANGED calls

Crash ==
  /\ \A r \in Requests : calls'[r].status = "idle"
  /\ UNCHANGED map

Step ==
  \/ \E r \in Requests :
       Ask(r) \/ Apply(r) \/ Accept(r) \/ Refuse(r) \/ Break(r) \/ Return(r)
  \/ \E n \in DOMAIN Configured : Seed(n)
  \/ Crash

Next == races' \/ (Step /\ UNCHANGED races)

Spec == Init /\ [][Next]_vars
===============================================================================
