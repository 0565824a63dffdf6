----------------------------- MODULE VaultRegistry ------------------------------
(***************************************************************************)
(* The registry of vaults and what in the state dir hangs on a vault's     *)
(* name:                                                                   *)
(*                                                                         *)
(*   storage/registry.py      register, deregister over one JSON file      *)
(*   api/vaults.py            POST /vaults (adopt, init), DELETE           *)
(*   storage/scaffold.py      scaffold_vault                               *)
(*   main.py                  the vaults of the configuration at a start   *)
(*   storage/source_index.py  put under its lock, drop without it          *)
(*   jobs/recovery.py         which repository an interrupted job is in    *)
(*                                                                         *)
(* Handlers run in a thread pool: any two requests interleave.  An ingest  *)
(* is what IngestPipeline says, in four steps; it keeps the repository it  *)
(* was submitted for, whatever becomes of the name.                        *)
(***************************************************************************)
EXTENDS Naturals, FiniteSets

CONSTANTS
  Names, Roots, Texts,
  Requests,       \* handler threads for POST and DELETE /vaults
  Ingests,
  Starter,        \* the thread that starts the server
  None, NoFile, Unreadable,
  Offers,         \* <<name, root>>: what clients ask to adopt
  Configured,     \* name -> root: `vaults` of config.yaml
  Prepared,       \* roots that hold a vault already
  Known,          \* name -> root: the registry of before
  MaxRequests,    \* bound: requests served
  MaxCrashes      \* bound: process crashes

ASSUME RegistryAssumption ==
  /\ Offers \subseteq Names \X Roots
  /\ \A o, q \in Offers : o[2] = q[2] => o[1] = q[1]   \* no root has two names
  /\ DOMAIN Configured \subseteq Names
  /\ \A n \in DOMAIN Configured : Configured[n] \in Prepared
  /\ Prepared \subseteq Roots
  /\ Known \in [Names -> Prepared \union {None}]
  /\ \A n \in Names : Known[n] # None => <<n, Known[n]>> \in Offers
  /\ \A n \in DOMAIN Configured : <<n, Configured[n]>> \in Offers
  /\ Starter \notin Requests
  /\ None \notin Names \union Roots
  /\ NoFile # Unreadable
  /\ {NoFile, Unreadable} \intersect [Names -> Roots \union {None}] = {}
  /\ MaxRequests \in Nat /\ MaxCrashes \in Nat

VARIABLES
  \* --- files: survive a crash ---
  registry,    \* registry.json
  tmp,         \* registry.json.<pid>.tmp, one name for all threads
  index,       \* name -> text -> root whose commit the entry names
  tree,        \* root -> [made, dirty, holds]
  \* --- the process ---
  phase,       \* "up", "down", "starting" or "recovering"
  todo,        \* configured names not yet looked at
  req,         \* request or Starter -> its locals
  job,         \* ingest -> its record and locals
  \* --- bounds and history ---
  served, crashes,
  overlapped   \* two changes of the registry have been in progress at once

files == <<registry, tmp>>
bounds == <<served, crashes>>
vars == <<files, index, tree, phase, todo, req, job, bounds, overlapped>>

Threads == Requests \union {Starter}
Maps == [Names -> Roots \union {None}]
EmptyMap == [n \in Names |-> None]
NoEntries == [x \in Texts |-> None]

\* write_text opens the file, which empties it, and then fills it; the open
\* handle follows a file that is renamed.
Writing == {"open", "fill", "replace"}
Handles == {"none", "tmp", "registry", "gone"}

Ats == {"idle", "check", "validate", "scaffold", "make", "commit", "read", "drop",
        "accepted", "refused", "broken"} \union Writing

Free == [at |-> "idle", op |-> "none", name |-> None, root |-> None,
         map |-> EmptyMap, handle |-> "none"]
NoJob == [at |-> "none", name |-> None, root |-> None, text |-> None, read |-> NoEntries]

Active == {"writing", "committed", "putting"}

TypeOK ==
  /\ registry \in Maps \union {NoFile, Unreadable}
  /\ tmp \in Maps \union {NoFile, Unreadable}
  /\ index \in [Names -> [Texts -> Roots \union {None}]]
  /\ tree \in [Roots -> [made : {"empty", "partial", "vault"}, dirty : BOOLEAN,
                         holds : SUBSET Texts]]
  /\ phase \in {"up", "down", "starting", "recovering"}
  /\ todo \subseteq DOMAIN Configured
  /\ req \in [Threads -> [at : Ats, op : {"none", "adopt", "init", "delete", "seed"},
                          name : Names \union {None}, root : Roots \union {None},
                          map : Maps, handle : Handles]]
  /\ job \in [Ingests -> [at : Active \union {"none", "queued", "done", "duplicate",
                                              "failed", "interrupted"},
                          name : Names \union {None}, root : Roots \union {None},
                          text : Texts \union {None},
                          read : [Texts -> Roots \union {None}]]]
  /\ served \in Nat /\ crashes \in Nat /\ overlapped \in BOOLEAN
  /\ \A t \in Threads : req[t].at # "fill" => req[t].handle = "none"
  /\ \A i \in Ingests : job[i].at # "putting" => job[i].read = NoEntries

Init ==
  /\ registry = IF Known = EmptyMap THEN NoFile ELSE Known
  /\ tmp = NoFile
  /\ index = [n \in Names |-> NoEntries]
  /\ tree = [p \in Roots |-> [made |-> IF p \in Prepared THEN "vault" ELSE "empty",
                              dirty |-> FALSE, holds |-> {}]]
  /\ phase = "starting" /\ todo = DOMAIN Configured
  /\ req = [t \in Threads |-> Free]
  /\ job = [i \in Ingests |-> NoJob]
  /\ served = 0 /\ crashes = 0 /\ overlapped = FALSE

-------------------------------------------------------------------------------
(* VaultRegistry: _read, _write, register, deregister.                       *)

\* _read: a missing file is an empty map, one that is not JSON raises.
Readable == registry # Unreadable
Registered == IF registry = NoFile THEN EmptyMap ELSE registry

Live(t) == phase = "up" \/ (t = Starter /\ phase = "starting")

At(t, label) == Live(t) /\ req[t].at = label

Goto(t, label) == req' = [req EXCEPT ![t].at = label]

\* The Starter has dealt with a name.
SeedDone(t) == t = Starter /\ req' = [req EXCEPT ![t] = Free] /\ todo' = todo \ {req[t].name}

Others(t) == \E u \in Threads \ {t} : req[u].at \in Writing

\* register refuses a name that is there, deregister one that is not.
Allowed(t) == (req[t].op = "delete") <=> (Registered[req[t].name] # None)

Changed(t) ==
  [Registered EXCEPT ![req[t].name] = IF req[t].op = "delete" THEN None ELSE req[t].root]

\* The read that register and deregister start with, and the change in memory.
ReadToChange(t) ==
  /\ At(t, "read") /\ Readable /\ Allowed(t)
  /\ req' = [req EXCEPT ![t].at = "open", ![t].map = Changed(t)]
  /\ overlapped' = (overlapped \/ Others(t))
  /\ UNCHANGED <<files, index, tree, phase, todo, job, bounds>>

\* RegistryError: 422, 404, or suppressed at a start.
ReadAndRefuse(t) ==
  /\ At(t, "read") /\ Readable /\ ~Allowed(t)
  /\ IF t = Starter THEN SeedDone(t) ELSE Goto(t, "refused") /\ UNCHANGED todo
  /\ UNCHANGED <<files, index, tree, phase, job, bounds, overlapped>>

\* JSONDecodeError: a 500, or the end of a start.
ReadGarbage(t) ==
  /\ At(t, "read") \/ At(t, "check")
  /\ ~Readable
  /\ IF t = Starter
     THEN phase' = "down" /\ todo' = {} /\ req' = [req EXCEPT ![t] = Free]
     ELSE Goto(t, "broken") /\ UNCHANGED <<phase, todo>>
  /\ UNCHANGED <<files, index, tree, job, bounds, overlapped>>

\* Mutant: the file itself is written, not a copy that replaces it.
OpenRegistry(t) ==
  /\ At(t, "open")
  /\ registry' = Unreadable
  /\ req' = [req EXCEPT ![t].at = "fill", ![t].handle = "registry"]
  /\ tmp' = req[t].map
  /\ UNCHANGED <<index, tree, phase, todo, job, bounds, overlapped>>

OpenTmp(t) ==
  /\ At(t, "open")
  /\ tmp' = Unreadable
  /\ req' = [req EXCEPT ![t].at = "fill", ![t].handle = "tmp"]
  /\ UNCHANGED <<registry, index, tree, phase, todo, job, bounds, overlapped>>

\* Over another thread's text, a shorter one leaves the end of it.
Filled(file, map) == IF file \in Maps THEN {map, Unreadable} ELSE {map}

\* Mutant: the file stays open.
FillAndKeep(t) ==
  /\ At(t, "fill")
  /\ tmp' = req[t].map
  /\ Goto(t, "replace")
  /\ UNCHANGED <<registry, index, tree, phase, todo, job, bounds, overlapped>>

FillTmp(t) ==
  LET h == req[t].handle IN
  /\ At(t, "fill")
  /\ IF h = "tmp" THEN tmp' \in Filled(tmp, req[t].map) ELSE UNCHANGED tmp
  /\ IF h = "registry" THEN registry' \in Filled(registry, req[t].map) ELSE UNCHANGED registry
  /\ req' = [req EXCEPT ![t].at = "replace", ![t].handle = "none"]
  /\ UNCHANGED <<index, tree, phase, todo, job, bounds, overlapped>>

Renamed(h) == CASE h = "tmp" -> "registry" [] h = "registry" -> "gone" [] OTHER -> h

\* os.replace, and what the caller does next.
Replace(t) ==
  /\ At(t, "replace") /\ tmp # NoFile
  /\ registry' = tmp /\ tmp' = NoFile
  /\ IF t = Starter
     THEN SeedDone(t)
     ELSE /\ req' = [u \in Threads |->
               IF u = t
               THEN [req[t] EXCEPT !.at = IF req[t].op = "delete" THEN "drop" ELSE "accepted"]
               ELSE [req[u] EXCEPT !.handle = Renamed(@)]]
          /\ UNCHANGED todo
  /\ UNCHANGED <<index, tree, phase, job, bounds, overlapped>>

\* Another thread has renamed the file away: FileNotFoundError, a 500.
ReplaceNothing(t) ==
  /\ At(t, "replace") /\ tmp = NoFile
  /\ Goto(t, "broken")
  /\ UNCHANGED <<files, index, tree, phase, todo, job, bounds, overlapped>>

-------------------------------------------------------------------------------
(* POST /vaults, DELETE /vaults/{name}.                                      *)

Receive(r, op, n, p) ==
  /\ phase = "up" /\ req[r].at = "idle" /\ served < MaxRequests
  /\ req' = [req EXCEPT ![r] =
       [Free EXCEPT !.at = IF op = "delete" THEN "read" ELSE "check",
                    !.op = op, !.name = n, !.root = p]]
  /\ served' = served + 1
  /\ UNCHANGED <<files, index, tree, phase, todo, job, crashes, overlapped>>

\* `request.name in registry`: an early 422, and no more than that.
CheckName(r) ==
  /\ At(r, "check") /\ Readable
  /\ Goto(r, IF Registered[req[r].name] # None THEN "refused"
             ELSE IF req[r].op = "init" THEN "scaffold" ELSE "validate")
  /\ UNCHANGED <<files, index, tree, phase, todo, job, bounds, overlapped>>

Root(r) == tree[req[r].root]

\* Mutant: the working tree may be dirty.
AcceptableDirty(r) == Root(r).made = "vault"

\* _validate_adopt: a repository with the vault's directory and schema, clean.
Acceptable(r) == Root(r).made = "vault" /\ ~Root(r).dirty

Validate(r) ==
  /\ At(r, "validate")
  /\ Goto(r, IF Acceptable(r) THEN "read" ELSE "refused")
  /\ UNCHANGED <<files, index, tree, phase, todo, job, bounds, overlapped>>

\* scaffold_vault: the root must be empty ...
CheckEmpty(r) ==
  /\ At(r, "scaffold")
  /\ Goto(r, IF Root(r).made = "empty" THEN "make" ELSE "refused")
  /\ UNCHANGED <<files, index, tree, phase, todo, job, bounds, overlapped>>

\* ... its files are written, unless another request got there first ...
MakeLayout(r) ==
  /\ At(r, "make")
  /\ IF Root(r).made = "empty"
     THEN tree' = [tree EXCEPT ![req[r].root].made = "partial"] /\ Goto(r, "commit")
     ELSE UNCHANGED tree /\ Goto(r, "broken")
  /\ UNCHANGED <<files, index, phase, todo, job, bounds, overlapped>>

\* Mutant: the vault is registered although git failed.
CommitIgnored(r) ==
  /\ At(r, "commit")
  /\ Goto(r, "read")
  /\ UNCHANGED <<files, index, tree, phase, todo, job, bounds, overlapped>>

\* ... and committed.
CommitLayout(r) ==
  /\ At(r, "commit")
  /\ tree' = [tree EXCEPT ![req[r].root].made = "vault"]
  /\ Goto(r, "read")
  /\ UNCHANGED <<files, index, phase, todo, job, bounds, overlapped>>

\* git init, add or commit fails, for one because git knows no author: the
\* files stay, and no request will take the root for empty or for a vault.
CommitFails(r) ==
  /\ At(r, "commit")
  /\ Goto(r, "broken")
  /\ UNCHANGED <<files, index, tree, phase, todo, job, bounds, overlapped>>

\* SourceIndex.drop takes no lock.
Drop(r) ==
  /\ At(r, "drop")
  /\ index' = [index EXCEPT ![req[r].name] = NoEntries]
  /\ Goto(r, "accepted")
  /\ UNCHANGED <<files, tree, phase, todo, job, bounds, overlapped>>

Answer(r) ==
  /\ At(r, "accepted") \/ At(r, "refused") \/ At(r, "broken")
  /\ req' = [req EXCEPT ![r] = Free]
  /\ UNCHANGED <<files, index, tree, phase, todo, job, bounds, overlapped>>

-------------------------------------------------------------------------------
(* Ingests.                                                                  *)

\* submit_ingest keeps the vault, name and root, with the text.
Submit(i, n, x) ==
  /\ phase = "up" /\ job[i].at = "none"
  /\ Readable /\ Registered[n] # None
  /\ job' = [job EXCEPT ![i] = [NoJob EXCEPT !.at = "queued", !.name = n,
                                             !.root = Registered[n], !.text = x]]
  /\ UNCHANGED <<files, index, tree, phase, todo, req, bounds, overlapped>>

\* One worker serves a name; a dirty tree fails the job, a known text ends it.
Start(i) ==
  LET j == job[i] IN
  /\ phase = "up" /\ j.at = "queued"
  /\ \A k \in Ingests : job[k].name = j.name => job[k].at \notin Active
  /\ IF tree[j.root].dirty
     THEN job' = [job EXCEPT ![i].at = "failed"] /\ UNCHANGED tree
     ELSE IF index[j.name][j.text] # None
     THEN job' = [job EXCEPT ![i].at = "duplicate"] /\ UNCHANGED tree
     ELSE /\ job' = [job EXCEPT ![i].at = "writing"]
          /\ tree' = [tree EXCEPT ![j.root].dirty = TRUE]
  /\ UNCHANGED <<files, index, phase, todo, req, bounds, overlapped>>

\* Any failure before the commit, rolled back.
Fail(i) ==
  /\ phase = "up" /\ job[i].at = "writing"
  /\ job' = [job EXCEPT ![i].at = "failed"]
  /\ tree' = [tree EXCEPT ![job[i].root].dirty = FALSE]
  /\ UNCHANGED <<files, index, phase, todo, req, bounds, overlapped>>

\* Mutant: git's failure to commit goes unnoticed.
CommitUnchecked(i) ==
  /\ phase = "up" /\ job[i].at = "writing"
  /\ job' = [job EXCEPT ![i].at = "committed"]
  /\ tree' = [tree EXCEPT ![job[i].root].dirty = FALSE]
  /\ UNCHANGED <<files, index, phase, todo, req, bounds, overlapped>>

Commit(i) ==
  /\ phase = "up" /\ job[i].at = "writing"
  /\ job' = [job EXCEPT ![i].at = "committed"]
  /\ tree' = [tree EXCEPT ![job[i].root].dirty = FALSE,
                          ![job[i].root].holds = @ \union {job[i].text}]
  /\ UNCHANGED <<files, index, phase, todo, req, bounds, overlapped>>

\* SourceIndex.put, by name: the file is read under the lock ...
ReadIndex(i) ==
  /\ phase = "up" /\ job[i].at = "committed"
  /\ job' = [job EXCEPT ![i].at = "putting", ![i].read = index[job[i].name]]
  /\ UNCHANGED <<files, index, tree, phase, todo, req, bounds, overlapped>>

\* ... and replaced with one more entry.
WriteIndex(i) ==
  LET j == job[i] IN
  /\ phase = "up" /\ j.at = "putting"
  /\ index' = [index EXCEPT ![j.name] = [j.read EXCEPT ![j.text] = j.root]]
  /\ job' = [job EXCEPT ![i].at = "done", ![i].read = NoEntries]
  /\ UNCHANGED <<files, tree, phase, todo, req, bounds, overlapped>>

-------------------------------------------------------------------------------
(* Crash, start, recovery.                                                   *)

\* The texts of queued jobs are lost: recovery resubmits them, and they fail.
Crash ==
  /\ phase # "down" /\ crashes < MaxCrashes
  /\ crashes' = crashes + 1
  /\ phase' = "down" /\ todo' = {}
  /\ req' = [t \in Threads |-> Free]
  /\ job' = [i \in Ingests |->
       CASE job[i].at = "queued" -> [job[i] EXCEPT !.at = "failed"]
         [] job[i].at \in Active -> [job[i] EXCEPT !.at = "interrupted", !.read = NoEntries]
         [] OTHER -> job[i]]
  /\ UNCHANGED <<files, index, tree, served, overlapped>>

Restart ==
  /\ phase = "down"
  /\ phase' = "starting" /\ todo' = DOMAIN Configured
  /\ UNCHANGED <<files, index, tree, req, job, bounds, overlapped>>

\* build_app registers the vaults of the configuration, one by one.
SeedNext(n) ==
  /\ phase = "starting" /\ req[Starter].at = "idle" /\ n \in todo
  /\ req' = [req EXCEPT ![Starter] =
       [Free EXCEPT !.at = "read", !.op = "seed", !.name = n, !.root = Configured[n]]]
  /\ UNCHANGED <<files, index, tree, phase, todo, job, bounds, overlapped>>

Seeded ==
  /\ phase = "starting" /\ todo = {}
  /\ phase' = "recovering"
  /\ UNCHANGED <<files, index, tree, todo, req, job, bounds, overlapped>>

\* Mutant: the GitError of a vault that is gone is not swallowed.
RecoverOrStop(i) ==
  LET p == Registered[job[i].name] IN
  /\ phase = "recovering" /\ job[i].at = "interrupted"
  /\ IF Readable /\ p # None
     THEN /\ job' = [job EXCEPT ![i].at = "failed"]
          /\ tree' = [tree EXCEPT ![p].dirty = FALSE]
          /\ UNCHANGED phase
     ELSE phase' = "down" /\ UNCHANGED <<job, tree>>
  /\ UNCHANGED <<files, index, todo, req, bounds, overlapped>>

\* recover_on_startup looks the vault up by name; /nonexistent, for a name that
\* is gone, is a GitError that it swallows; a registry that is not JSON ends it.
Recover(i) ==
  LET p == Registered[job[i].name] IN
  /\ phase = "recovering" /\ job[i].at = "interrupted"
  /\ IF Readable
     THEN /\ job' = [job EXCEPT ![i].at = "failed"]
          /\ tree' = IF p = None THEN tree ELSE [tree EXCEPT ![p].dirty = FALSE]
          /\ UNCHANGED phase
     ELSE phase' = "down" /\ UNCHANGED <<job, tree>>
  /\ UNCHANGED <<files, index, todo, req, bounds, overlapped>>

Serve ==
  /\ phase = "recovering" /\ \A i \in Ingests : job[i].at # "interrupted"
  /\ phase' = "up"
  /\ UNCHANGED <<files, index, tree, todo, req, job, bounds, overlapped>>

-------------------------------------------------------------------------------

Change(t) ==
  \/ ReadToChange(t) \/ ReadAndRefuse(t) \/ ReadGarbage(t)
  \/ OpenTmp(t) \/ FillTmp(t) \/ Replace(t) \/ ReplaceNothing(t)

Handle(r) ==
  \/ CheckName(r) \/ Validate(r)
  \/ CheckEmpty(r) \/ MakeLayout(r) \/ CommitLayout(r) \/ CommitFails(r)
  \/ Drop(r) \/ Answer(r)

Request(r) ==
  \/ \E o \in Offers, op \in {"adopt", "init"} : Receive(r, op, o[1], o[2])
  \/ \E n \in Names : Receive(r, "delete", n, None)

Ingest(i) ==
  \/ \E n \in Names, x \in Texts : Submit(i, n, x)
  \/ Start(i) \/ Fail(i) \/ Commit(i) \/ ReadIndex(i) \/ WriteIndex(i)

StartUp ==
  \/ Restart \/ (\E n \in DOMAIN Configured : SeedNext(n)) \/ Seeded
  \/ (\E i \in Ingests : Recover(i)) \/ Serve

Next ==
  \/ \E t \in Threads : Change(t)
  \/ \E r \in Requests : Request(r) \/ Handle(r)
  \/ \E i \in Ingests : Ingest(i)
  \/ Crash \/ StartUp

Spec == Init /\ [][Next]_vars

\* The process is restarted when it ends, and starting takes finitely long.
FairSpec == Spec /\ WF_vars(StartUp) /\ WF_vars(Change(Starter))

-------------------------------------------------------------------------------
(* Properties.                                                               *)

\* As long as no two changes overlap, the registry is the map that VaultMap
\* describes, crashes at any step of a write and restarts included: what was
\* answered is what the file says (registry.py:28-67, vaults.py:46-81).
Called(r) ==
  [status |-> IF req[r].at \in {"idle", "accepted", "refused", "broken"} THEN req[r].at
              ELSE IF req[r].at = "drop" THEN "applied" ELSE "asked",
   op |-> IF req[r].op = "init" THEN "adopt" ELSE req[r].op,
   name |-> req[r].name, root |-> req[r].root]
Map == INSTANCE VaultMap WITH
  map <- Registered, Before <- Known, calls <- [r \in Requests |-> Called(r)], races <- overlapped
ImplementsVaultMap == Map!Spec

\* An ingest that ends as a duplicate has its text in the repository it was
\* submitted for, when a name is offered with one root only: neither an index
\* that a put brings back after its drop nor one of before a crash misleads it
\* (source_index.py:37-77, vaults.py:75-81, pipeline.py:121-126).
DuplicateIsStored ==
  \A i \in Ingests :
    job[i].at = "duplicate" => job[i].text \in tree[job[i].root].holds

\* A registered vault is one that could be adopted or was made to the end: no
\* half-made one gets in, whoever else is making or adopting it, and whatever
\* becomes of the registry file (vaults.py:46-66, scaffold.py:41-58).
RegisteredRootsAreVaults ==
  Readable => \A n \in Names : Registered[n] # None => tree[Registered[n]].made = "vault"

\* The tree of a registered vault is dirty only while an ingest works in it, so
\* the next one is not refused, when a name is offered with one root only: an
\* interrupted ingest of a vault that was deregistered is not rolled back, but its
\* dirty root cannot be adopted
\* (main.py:78-87, recovery.py:61-64, vaults.py:36-40).
RegisteredVaultIsIngestable ==
  phase = "up" /\ Readable =>
    \A n \in Names : LET p == Registered[n] IN
      p # None /\ tree[p].dirty => \E i \in Ingests : job[i].at \in Active /\ job[i].root = p

\* A server that went down serves again, unless an overlap has left it a registry
\* that cannot be read (main.py:44-47, 85-89).
ComesBackUp == phase = "down" ~> phase = "up" \/ overlapped

-------------------------------------------------------------------------------
(* What the documentation says, and the code does not do.                    *)

\* "DELETE /vaults/{name} removes the registry entry and the vault's source
\* index": after its answer, the index of a name that is not registered is empty.
DeregistrationRemovesIndex ==
  \A r \in Requests :
    req[r].op = "delete" /\ req[r].at = "accepted" /\ Registered[req[r].name] = None =>
      index[req[r].name] = NoEntries
===============================================================================
