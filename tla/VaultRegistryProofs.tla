------------------------- MODULE VaultRegistryProofs --------------------------
(***************************************************************************)
(* Proofs about VaultRegistry, for any names, roots, requests and crashes: *)
(* its types, that only vaults are registered, that a duplicate is stored, *)
(* that a registered vault can be ingested into, and that the registry     *)
(* implements VaultMap while no two changes overlap.                       *)
(***************************************************************************)
EXTENDS VaultRegistry, TLAPS

Tree == [Roots -> [made : {"empty", "partial", "vault"}, dirty : BOOLEAN, holds : SUBSET Texts]]
Locals == [at : Ats, op : {"none", "adopt", "init", "delete", "seed"},
           name : Names \union {None}, root : Roots \union {None},
           map : Maps, handle : Handles]
Records == [at : Active \union {"none", "queued", "done", "duplicate", "failed", "interrupted"},
            name : Names \union {None}, root : Roots \union {None},
            text : Texts \union {None}, read : [Texts -> Roots \union {None}]]

\* TypeOK with the sets of records named, and what gives a step its operands.
Typed ==
  /\ registry \in Maps \union {NoFile, Unreadable}
  /\ tmp \in Maps \union {NoFile, Unreadable}
  /\ index \in [Names -> [Texts -> Roots \union {None}]]
  /\ tree \in Tree
  /\ phase \in {"up", "down", "starting", "recovering"}
  /\ todo \subseteq DOMAIN Configured
  /\ req \in [Threads -> Locals]
  /\ job \in [Ingests -> Records]
  /\ served \in Nat /\ crashes \in Nat /\ overlapped \in BOOLEAN

\* What a thread and an ingest are about, once they are about something.
Busy ==
  /\ \A t \in Threads : req[t].at # "fill" => req[t].handle = "none"
  /\ \A t \in Threads : req[t].at # "idle" =>
       /\ req[t].name \in Names /\ req[t].op # "none"
       /\ req[t].op # "delete" => <<req[t].name, req[t].root>> \in Offers
       /\ req[t].op = "delete" => req[t].root = None
  /\ \A i \in Ingests : job[i].at # "putting" => job[i].read = NoEntries
  /\ \A i \in Ingests : job[i].at # "none" =>
       job[i].name \in Names /\ job[i].root \in Roots /\ job[i].text \in Texts

RegistryTypes == Typed /\ Busy

LEMMA FreeIsTyped == Free \in Locals /\ Free.at = "idle" /\ Free.handle = "none"
BY DEF Free, Locals, Ats, Writing, Handles, Maps, EmptyMap

LEMMA RegistryReads == RegistryTypes /\ Readable => Registered \in Maps
BY DEF RegistryTypes, Typed, Readable, Registered, Maps, EmptyMap

\* A step that changes what is made of one root, or whether it is dirty.
LEMMA TreeStep ==
  ASSUME tree \in Tree, NEW p,
         \/ UNCHANGED tree
         \/ \E m \in {"partial", "vault"} : tree' = [tree EXCEPT ![p].made = m]
         \/ \E b \in BOOLEAN : tree' = [tree EXCEPT ![p].dirty = b]
  PROVE  tree' \in Tree
<1>0. \A q \in Roots : tree[q] \in [made : {"empty", "partial", "vault"}, dirty : BOOLEAN,
                                   holds : SUBSET Texts]
  BY DEF Tree
<1>1. ASSUME NEW m \in {"partial", "vault"}, tree' = [tree EXCEPT ![p].made = m]
      PROVE  tree' \in Tree
  <2>1. ASSUME NEW q \in Roots
        PROVE  [tree[q] EXCEPT !.made = m] \in
                 [made : {"empty", "partial", "vault"}, dirty : BOOLEAN, holds : SUBSET Texts]
    BY <1>0
  <2> QED
    BY <1>0, <1>1, <2>1 DEF Tree
<1>2. ASSUME NEW b \in BOOLEAN, tree' = [tree EXCEPT ![p].dirty = b]
      PROVE  tree' \in Tree
  <2>1. ASSUME NEW q \in Roots
        PROVE  [tree[q] EXCEPT !.dirty = b] \in
                 [made : {"empty", "partial", "vault"}, dirty : BOOLEAN, holds : SUBSET Texts]
    BY <1>0
  <2> QED
    BY <1>0, <1>2, <2>1 DEF Tree
<1> QED
  BY <1>1, <1>2

LEMMA TypesInit == Init => RegistryTypes
<1> SUFFICES ASSUME Init PROVE RegistryTypes
  OBVIOUS
<1>1. registry \in Maps \union {NoFile, Unreadable} /\ tmp = NoFile
  BY RegistryAssumption DEF Init, Maps
<1>2. index \in [Names -> [Texts -> Roots \union {None}]]
  BY DEF Init, NoEntries
<1>3. tree \in Tree
  BY DEF Init, Tree
<1>4. req \in [Threads -> Locals] /\ \A t \in Threads : req[t] = Free
  BY FreeIsTyped DEF Init
<1>5. job \in [Ingests -> Records] /\ \A i \in Ingests : job[i] = NoJob
  BY DEF Init, Records, NoJob, NoEntries
<1>6. Typed
  BY <1>1, <1>2, <1>3, <1>4, <1>5 DEF Init, Typed
<1>7. Busy
  BY <1>4, <1>5, FreeIsTyped DEF Busy, NoJob
<1> QED
  BY <1>6, <1>7 DEF RegistryTypes

\* What a thread of the server does to its locals.
Moved(t, next) ==
  /\ req' = [req EXCEPT ![t] = next]
  /\ next \in Locals
  /\ next.at # "fill" => next.handle = "none"
  /\ next.at # "idle" =>
       /\ next.name \in Names /\ next.op # "none"
       /\ next.op # "delete" => <<next.name, next.root>> \in Offers
       /\ next.op = "delete" => next.root = None

LEMMA Moving ==
  ASSUME RegistryTypes, NEW t \in Threads, NEW next, Moved(t, next), UNCHANGED job
  PROVE  req' \in [Threads -> Locals] /\ Busy'
BY DEF RegistryTypes, Typed, Busy, Moved

LEMMA GoingIsMoving ==
  ASSUME RegistryTypes, NEW t \in Threads, NEW label \in Ats \ {"idle"}, Goto(t, label),
         req[t].at \notin {"idle", "fill"}
  PROVE  Moved(t, [req[t] EXCEPT !.at = label])
BY DEF RegistryTypes, Typed, Busy, Goto, Moved, Locals

LEMMA FreeingIsMoving ==
  ASSUME NEW t \in Threads, req' = [req EXCEPT ![t] = Free]
  PROVE  Moved(t, Free)
BY FreeIsTyped DEF Moved

LEMMA ChangeTypes ==
  ASSUME RegistryTypes, NEW t \in Threads, Change(t)
  PROVE  RegistryTypes'
<1> USE DEF bounds, files
<1>0. UNCHANGED <<index, tree, job, bounds>>
  BY DEF Change, ReadToChange, ReadAndRefuse, ReadGarbage, OpenTmp, FillTmp, Replace,
     ReplaceNothing
<1>a. SUFFICES
        /\ registry' \in Maps \union {NoFile, Unreadable}
        /\ tmp' \in Maps \union {NoFile, Unreadable}
        /\ phase' \in {"up", "down", "starting", "recovering"}
        /\ todo' \subseteq DOMAIN Configured /\ overlapped' \in BOOLEAN
        /\ req' \in [Threads -> Locals] /\ Busy'
  BY <1>0 DEF RegistryTypes, Typed
<1>b. req[t] \in Locals
  BY DEF RegistryTypes, Typed
<1>1. CASE ReadToChange(t)
  <2> DEFINE next == [req[t] EXCEPT !.at = "open", !.map = Changed(t)]
  <2>0. Readable /\ req[t].at = "read"
    BY <1>1 DEF ReadToChange, At
  <2>1. Changed(t) \in Maps
    <3>1. Registered \in Maps
      BY <2>0, RegistryReads
    <3> QED
      BY <1>b, <3>1 DEF Changed, Maps, Locals
  <2>2. Moved(t, next)
    <3>1. req' = [req EXCEPT ![t] = next]
      BY <1>1, <1>b DEF ReadToChange, RegistryTypes, Typed
    <3>2. next \in Locals
      BY <1>b, <2>1 DEF Locals, Ats, Writing
    <3> QED
      BY <1>b, <2>0, <3>1, <3>2 DEF Moved, RegistryTypes, Busy, Locals
  <2> QED
    BY <1>0, <1>1, <2>2, Moving DEF ReadToChange, RegistryTypes, Typed
<1>2. CASE ReadAndRefuse(t)
  <2>1. CASE SeedDone(t)
    BY <1>0, <1>2, <2>1, FreeingIsMoving, Moving DEF SeedDone, ReadAndRefuse, RegistryTypes, Typed
  <2>2. CASE Goto(t, "refused") /\ UNCHANGED todo
    <3>1. Moved(t, [req[t] EXCEPT !.at = "refused"])
      BY <1>2, <2>2, GoingIsMoving DEF ReadAndRefuse, At, Ats
    <3> QED
      BY <1>0, <1>2, <2>2, <3>1, Moving DEF ReadAndRefuse, RegistryTypes, Typed
  <2> QED
    BY <1>2, <2>1, <2>2 DEF ReadAndRefuse
<1>3. CASE ReadGarbage(t)
  <2>1. CASE t = Starter
    BY <1>0, <1>3, <2>1, FreeingIsMoving, Moving DEF ReadGarbage, RegistryTypes, Typed
  <2>2. CASE t # Starter
    <3>1. Moved(t, [req[t] EXCEPT !.at = "broken"])
      BY <1>3, <2>2, GoingIsMoving DEF ReadGarbage, At, Ats
    <3> QED
      BY <1>0, <1>3, <2>2, <3>1, Moving DEF ReadGarbage, RegistryTypes, Typed
  <2> QED
    BY <2>1, <2>2
<1>4. CASE OpenTmp(t)
  <2> DEFINE next == [req[t] EXCEPT !.at = "fill", !.handle = "tmp"]
  <2>1. Moved(t, next)
    <3>1. req' = [req EXCEPT ![t] = next] /\ req[t].at = "open"
      BY <1>4, <1>b DEF OpenTmp, At, RegistryTypes, Typed
    <3>2. next \in Locals
      BY <1>b DEF Locals, Ats, Writing, Handles
    <3> QED
      BY <1>b, <3>1, <3>2 DEF Moved, RegistryTypes, Busy, Locals
  <2> QED
    BY <1>0, <1>4, <2>1, Moving DEF OpenTmp, RegistryTypes, Typed
<1>5. CASE FillTmp(t)
  <2> DEFINE next == [req[t] EXCEPT !.at = "replace", !.handle = "none"]
  <2>1. Moved(t, next)
    <3>1. req' = [req EXCEPT ![t] = next] /\ req[t].at = "fill"
      BY <1>5, <1>b DEF FillTmp, At, RegistryTypes, Typed
    <3>2. next \in Locals
      BY <1>b DEF Locals, Ats, Writing, Handles
    <3> QED
      BY <1>b, <3>1, <3>2 DEF Moved, RegistryTypes, Busy, Locals
  <2>2. \A f : Filled(f, req[t].map) \subseteq Maps \union {Unreadable}
    BY <1>b DEF Filled, Locals
  <2> QED
    BY <1>0, <1>5, <2>1, <2>2, Moving DEF FillTmp, RegistryTypes, Typed
<1>6. CASE Replace(t)
  <2>1. registry' \in Maps \union {NoFile, Unreadable} /\ tmp' = NoFile
    BY <1>6 DEF Replace, RegistryTypes, Typed
  <2>2. CASE t = Starter
    BY <1>0, <1>6, <2>1, <2>2, FreeingIsMoving, Moving DEF Replace, SeedDone, RegistryTypes, Typed
  <2>3. CASE t # Starter
    <3> DEFINE next == [req[t] EXCEPT !.at = IF req[t].op = "delete" THEN "drop" ELSE "accepted"]
    <3>1. /\ req' = [u \in Threads |->
                      IF u = t THEN next ELSE [req[u] EXCEPT !.handle = Renamed(@)]]
          /\ UNCHANGED todo /\ req[t].at = "replace"
      BY <1>6, <2>3 DEF Replace, At
    <3>2. next \in Locals
      BY <1>b DEF Locals, Ats
    <3>3. ASSUME NEW u \in Threads PROVE Renamed(req[u].handle) \in Handles
      BY DEF Renamed, Handles, RegistryTypes, Typed, Locals
    <3>4. Renamed("none") = "none"
      BY DEF Renamed
    <3>5. req' \in [Threads -> Locals]
      BY <3>1, <3>2, <3>3 DEF RegistryTypes, Typed, Locals
    <3>6. ASSUME NEW u \in Threads
          PROVE  /\ req'[u].at # "fill" => req'[u].handle = "none"
                 /\ req'[u].at # "idle" => req[u].at # "idle"
                 /\ req'[u].name = req[u].name /\ req'[u].op = req[u].op
                 /\ req'[u].root = req[u].root
      <4>1. req[u] \in Locals
        BY DEF RegistryTypes, Typed
      <4> QED
        BY <1>b, <3>1, <3>4, <4>1 DEF RegistryTypes, Busy, Locals
    <3>7. Busy'
      BY <1>0, <3>6 DEF Busy, RegistryTypes
    <3> QED
      BY <1>6, <2>1, <3>1, <3>5, <3>7 DEF Replace, RegistryTypes, Typed
  <2> QED
    BY <2>2, <2>3
<1>7. CASE ReplaceNothing(t)
  <2>1. Moved(t, [req[t] EXCEPT !.at = "broken"])
    BY <1>7, GoingIsMoving DEF ReplaceNothing, At, Ats
  <2> QED
    BY <1>0, <1>7, <2>1, Moving DEF ReplaceNothing, RegistryTypes, Typed
<1> QED
  BY <1>1, <1>2, <1>3, <1>4, <1>5, <1>6, <1>7 DEF Change

LEMMA RequestTypes ==
  ASSUME RegistryTypes, NEW r \in Requests, Request(r) \/ Handle(r)
  PROVE  RegistryTypes'
<1> USE DEF bounds, files
<1>a. r \in Threads /\ req[r] \in Locals
  BY DEF Threads, RegistryTypes, Typed
<1>1. CASE Request(r)
  <2>1. PICK op \in {"adopt", "init", "delete"}, n \in Names, p \in Roots \union {None} :
          /\ Receive(r, op, n, p)
          /\ op # "delete" => <<n, p>> \in Offers
          /\ op = "delete" => p = None
    <3>1. CASE \E o \in Offers, op \in {"adopt", "init"} : Receive(r, op, o[1], o[2])
      <4>1. PICK o \in Offers, op \in {"adopt", "init"} : Receive(r, op, o[1], o[2])
        BY <3>1
      <4>2. o[1] \in Names /\ o[2] \in Roots /\ o = <<o[1], o[2]>>
        BY RegistryAssumption
      <4> QED
        BY <4>1, <4>2
    <3>2. CASE \E n \in Names : Receive(r, "delete", n, None)
      BY <3>2
    <3> QED
      BY <1>1, <3>1, <3>2 DEF Request
  <2> DEFINE next == [Free EXCEPT !.at = IF op = "delete" THEN "read" ELSE "check",
                                  !.op = op, !.name = n, !.root = p]
  <2>2. Moved(r, next)
    <3>1. req' = [req EXCEPT ![r] = next]
      BY <2>1 DEF Receive
    <3>2. next \in Locals
      BY FreeIsTyped DEF Locals, Ats
    <3> QED
      BY <2>1, <3>1, <3>2, FreeIsTyped DEF Moved, Locals
  <2> QED
    BY <1>a, <2>1, <2>2, Moving DEF Receive, RegistryTypes, Typed
<1>2. CASE Handle(r)
  <2>1. tree' \in Tree
    <3>1. UNCHANGED tree \/ \E m \in {"partial", "vault"} :
            tree' = [tree EXCEPT ![req[r].root].made = m]
      BY <1>2 DEF Handle, CheckName, Validate, CheckEmpty, MakeLayout, CommitLayout, CommitFails,
         Drop, Answer
    <3>2. tree \in Tree
      BY DEF RegistryTypes, Typed
    <3> QED
      BY <3>1, <3>2, TreeStep, Zenon
  <2>2. index' \in [Names -> [Texts -> Roots \union {None}]]
    <3>1. UNCHANGED index \/ index' = [index EXCEPT ![req[r].name] = NoEntries]
      BY <1>2 DEF Handle, CheckName, Validate, CheckEmpty, MakeLayout, CommitLayout, CommitFails,
         Drop, Answer
    <3>2. NoEntries \in [Texts -> Roots \union {None}]
      BY DEF NoEntries
    <3> QED
      BY <3>1, <3>2 DEF RegistryTypes, Typed
  <2>3. req' \in [Threads -> Locals] /\ Busy'
    <3>1. UNCHANGED job
      BY <1>2 DEF Handle, CheckName, Validate, CheckEmpty, MakeLayout, CommitLayout, CommitFails,
         Drop, Answer
    <3>2. \/ Answer(r)
          \/ /\ req[r].at \in {"check", "validate", "scaffold", "make", "commit", "drop"}
             /\ \E label \in {"refused", "scaffold", "validate", "read", "make", "commit", "broken",
                              "accepted"} : Goto(r, label)
      BY <1>2 DEF Handle, CheckName, Validate, CheckEmpty, MakeLayout, CommitLayout, CommitFails,
         Drop, At
    <3>3. CASE Answer(r)
      BY <1>a, <3>1, <3>3, FreeingIsMoving, Moving DEF Answer
    <3>4. ASSUME NEW label \in {"refused", "scaffold", "validate", "read", "make", "commit",
                                "broken", "accepted"}, Goto(r, label),
                 req[r].at \notin {"idle", "fill"}
          PROVE  req' \in [Threads -> Locals] /\ Busy'
      <4>1. label \in Ats \ {"idle"}
        BY DEF Ats
      <4> QED
        BY <1>a, <3>1, <3>4, <4>1, GoingIsMoving, Moving
    <3> QED
      BY <3>2, <3>3, <3>4
  <2>4. UNCHANGED <<files, phase, todo, served, crashes, overlapped, job>>
    BY <1>2 DEF Handle, CheckName, Validate, CheckEmpty, MakeLayout, CommitLayout, CommitFails,
       Drop, Answer
  <2> QED
    BY <2>1, <2>2, <2>3, <2>4 DEF RegistryTypes, Typed
<1> QED
  BY <1>1, <1>2

LEMMA IngestTypes ==
  ASSUME RegistryTypes, NEW i \in Ingests, Ingest(i)
  PROVE  RegistryTypes'
<1> USE DEF bounds, files
<1>0. UNCHANGED <<files, phase, todo, req, bounds, overlapped>>
  BY DEF Ingest, Submit, Start, Fail, Commit, ReadIndex, WriteIndex
<1>a. job[i] \in Records /\ NoJob \in Records
  BY DEF RegistryTypes, Typed, NoJob, NoEntries, Records
<1>b. SUFFICES
        /\ tree' \in Tree /\ index' \in [Names -> [Texts -> Roots \union {None}]]
        /\ \E next \in Records :
             /\ job' = [job EXCEPT ![i] = next]
             /\ next.at # "putting" => next.read = NoEntries
             /\ next.at # "none" =>
                  next.name \in Names /\ next.root \in Roots /\ next.text \in Texts
  BY <1>0 DEF RegistryTypes, Typed, Busy
<1>1. CASE \E n \in Names, x \in Texts : Submit(i, n, x)
  <2>1. PICK n \in Names, x \in Texts : Submit(i, n, x)
    BY <1>1
  <2> DEFINE next == [NoJob EXCEPT !.at = "queued", !.name = n, !.root = Registered[n],
                                   !.text = x]
  <2>2. Registered[n] \in Roots
    BY <2>1, RegistryReads DEF Submit, Maps
  <2>3. next \in Records /\ next.at = "queued" /\ next.name = n /\ next.text = x
        /\ next.root = Registered[n] /\ next.read = NoEntries
    BY <2>2 DEF NoJob, NoEntries, Records
  <2> HIDE DEF next
  <2>4. job' = [job EXCEPT ![i] = next]
    BY <2>1 DEF Submit, next
  <2> QED
    BY <2>1, <2>2, <2>3, <2>4 DEF Submit, RegistryTypes, Typed
<1>2. CASE Start(i) \/ Fail(i) \/ Commit(i)
  <2>1. PICK label \in {"failed", "duplicate", "writing", "committed"} :
          job' = [job EXCEPT ![i].at = label]
    BY <1>2 DEF Start, Fail, Commit
  <2>2. job[i].at \notin {"none", "putting"} /\ UNCHANGED index
    BY <1>2 DEF Start, Fail, Commit
  <2>3. tree' \in Tree
    <3>1. job[i].text \in Texts
      BY <2>2 DEF RegistryTypes, Busy
    <3>2. tree \in Tree
      BY DEF RegistryTypes, Typed
    <3>3. CASE Commit(i)
      <4>1. tree' = [p \in Roots |->
                      IF p = job[i].root
                      THEN [tree[p] EXCEPT !.dirty = FALSE, !.holds = @ \union {job[i].text}]
                      ELSE tree[p]]
        BY <3>2, <3>3 DEF Commit, Tree
      <4>2. ASSUME NEW p \in Roots
            PROVE  [tree[p] EXCEPT !.dirty = FALSE, !.holds = @ \union {job[i].text}] \in
                     [made : {"empty", "partial", "vault"}, dirty : BOOLEAN, holds : SUBSET Texts]
        <5>1. tree[p] \in [made : {"empty", "partial", "vault"}, dirty : BOOLEAN,
                           holds : SUBSET Texts]
          BY <3>2 DEF Tree
        <5> QED
          BY <3>1, <5>1
      <4> QED
        BY <3>2, <4>1, <4>2 DEF Tree
    <3>4. CASE Start(i) \/ Fail(i)
      <4>1. UNCHANGED tree \/ \E b \in BOOLEAN : tree' = [tree EXCEPT ![job[i].root].dirty = b]
        BY <3>4 DEF Start, Fail
      <4>2. CASE UNCHANGED tree
        BY <3>2, <4>2
      <4>3. ASSUME NEW b \in BOOLEAN, tree' = [tree EXCEPT ![job[i].root].dirty = b]
            PROVE  tree' \in Tree
        <5> DEFINE p == job[i].root
        <5>1. tree' = [tree EXCEPT ![p].dirty = b]
          BY <4>3
        <5> HIDE DEF p
        <5> QED
          BY <3>2, <5>1, TreeStep, Zenon
      <4> QED
        BY <4>1, <4>2, <4>3, Zenon
    <3> QED
      BY <1>2, <3>3, <3>4
  <2> DEFINE next == [job[i] EXCEPT !.at = label]
  <2>4. next \in Records /\ job' = [job EXCEPT ![i] = next]
    BY <1>a, <2>1 DEF Records, Active, RegistryTypes, Typed
  <2> QED
    BY <1>a, <2>2, <2>3, <2>4 DEF RegistryTypes, Typed, Busy, Records
<1>3. CASE ReadIndex(i)
  <2> DEFINE next == [job[i] EXCEPT !.at = "putting", !.read = index[job[i].name]]
  <2>1. job[i].at = "committed" /\ job[i].name \in Names
    BY <1>3 DEF ReadIndex, RegistryTypes, Busy
  <2>2. next \in Records /\ job' = [job EXCEPT ![i] = next]
    BY <1>3, <1>a, <2>1 DEF ReadIndex, Records, Active, RegistryTypes, Typed
  <2> QED
    BY <1>3, <1>a, <2>1, <2>2 DEF ReadIndex, RegistryTypes, Typed, Busy, Records
<1>4. CASE WriteIndex(i)
  <2> DEFINE next == [job[i] EXCEPT !.at = "done", !.read = NoEntries]
  <2>1. job[i].at = "putting" /\ job[i].root \in Roots
    BY <1>4 DEF WriteIndex, RegistryTypes, Busy
  <2>2. next \in Records /\ job' = [job EXCEPT ![i] = next]
    BY <1>4, <1>a, <2>1 DEF WriteIndex, Records, Active, RegistryTypes, Typed, NoEntries
  <2>3. index' \in [Names -> [Texts -> Roots \union {None}]]
    BY <1>4, <1>a, <2>1 DEF WriteIndex, RegistryTypes, Typed, Records
  <2> QED
    BY <1>4, <1>a, <2>1, <2>2, <2>3 DEF WriteIndex, RegistryTypes, Typed, Busy, Records
<1> QED
  BY <1>1, <1>2, <1>3, <1>4 DEF Ingest

LEMMA ServerTypes ==
  ASSUME RegistryTypes, Crash \/ StartUp
  PROVE  RegistryTypes'
<1> USE DEF bounds, files
<1>1. CASE Crash
  <2>1. req' \in [Threads -> Locals] /\ \A t \in Threads : req'[t] = Free
    BY <1>1, FreeIsTyped DEF Crash
  <2>2. ASSUME NEW i \in Ingests
        PROVE  /\ job'[i] \in Records
               /\ job'[i].at # "putting" => job'[i].read = NoEntries
               /\ job'[i].at # "none" => job[i].at # "none"
               /\ job'[i].name = job[i].name /\ job'[i].root = job[i].root
               /\ job'[i].text = job[i].text
    <3>1. job[i] \in Records /\ NoEntries \in [Texts -> Roots \union {None}]
      BY DEF RegistryTypes, Typed, NoEntries
    <3>2. CASE job[i].at = "queued"
      <4>1. job'[i] = [job[i] EXCEPT !.at = "failed"]
        BY <1>1, <3>2 DEF Crash, Active
      <4> QED
        BY <3>1, <3>2, <4>1 DEF Records, RegistryTypes, Busy
    <3>3. CASE job[i].at \in Active
      <4>1. job'[i] = [job[i] EXCEPT !.at = "interrupted", !.read = NoEntries]
        BY <1>1, <3>3 DEF Crash, Active
      <4> QED
        BY <3>1, <3>3, <4>1 DEF Records, Active
    <3>4. CASE job[i].at # "queued" /\ job[i].at \notin Active
      <4>1. job'[i] = job[i]
        BY <1>1, <3>4 DEF Crash
      <4> QED
        BY <3>1, <3>4, <4>1 DEF RegistryTypes, Busy
    <3> QED
      BY <3>2, <3>3, <3>4
  <2>3. job' \in [Ingests -> Records]
    BY <1>1, <2>2 DEF Crash
  <2>4. Busy'
    BY <2>1, <2>2, FreeIsTyped DEF RegistryTypes, Busy
  <2>5. /\ UNCHANGED <<registry, tmp, index, tree, served, overlapped>>
        /\ phase' = "down" /\ todo' = {} /\ crashes' \in Nat
    <3>1. crashes \in Nat
      BY DEF RegistryTypes, Typed
    <3>2. crashes' = crashes + 1
      BY <1>1 DEF Crash
    <3>3. crashes' \in Nat
      BY <3>1, <3>2
    <3>4. UNCHANGED <<registry, tmp, index, tree, served, overlapped>>
      BY <1>1 DEF Crash
    <3>5. phase' = "down" /\ todo' = {}
      BY <1>1 DEF Crash
    <3> QED
      BY <3>3, <3>4, <3>5
  <2>6. Typed'
    BY <2>1, <2>3, <2>5 DEF RegistryTypes, Typed
  <2> QED
    BY <2>4, <2>6 DEF RegistryTypes
<1>2. CASE Restart \/ Seeded \/ Serve
  <2>1. /\ UNCHANGED <<files, index, tree, req, job, bounds, overlapped>>
        /\ phase' \in {"up", "down", "starting", "recovering"} /\ todo' \subseteq DOMAIN Configured
    BY <1>2 DEF Restart, Seeded, Serve, RegistryTypes, Typed
  <2>2. Typed'
    BY <2>1 DEF RegistryTypes, Typed
  <2>3. Busy'
    BY <2>1 DEF RegistryTypes, Busy
  <2> QED
    BY <2>2, <2>3 DEF RegistryTypes
<1>3. CASE \E n \in DOMAIN Configured : SeedNext(n)
  <2>1. PICK n \in DOMAIN Configured : SeedNext(n)
    BY <1>3
  <2>2. <<n, Configured[n]>> \in Offers /\ n \in Names /\ Configured[n] \in Roots
    BY RegistryAssumption
  <2> DEFINE next == [Free EXCEPT !.at = "read", !.op = "seed", !.name = n,
                                  !.root = Configured[n]]
  <2>3. Moved(Starter, next)
    <3>1. next \in Locals
      BY <2>2, FreeIsTyped DEF Locals, Ats
    <3> QED
      BY <2>1, <2>2, <3>1, FreeIsTyped DEF Moved, SeedNext, Locals
  <2> QED
    BY <2>1, <2>3, Moving DEF SeedNext, Threads, RegistryTypes, Typed
<1>4. CASE \E i \in Ingests : Recover(i)
  <2>1. PICK i \in Ingests : Recover(i)
    BY <1>4
  <2>2. tree' \in Tree
    <3>1. UNCHANGED tree \/ \E p : tree' = [tree EXCEPT ![p].dirty = FALSE]
      BY <2>1 DEF Recover
    <3>2. tree \in Tree
      BY DEF RegistryTypes, Typed
    <3> QED
      BY <3>1, <3>2, TreeStep, Zenon
  <2>3. job' \in [Ingests -> Records] /\ Busy'
    <3>1. UNCHANGED req /\ job[i] \in Records /\ job[i].at = "interrupted"
      BY <2>1 DEF Recover, RegistryTypes, Typed
    <3>2. CASE UNCHANGED job
      BY <3>1, <3>2 DEF RegistryTypes, Typed, Busy
    <3>3. CASE job' = [job EXCEPT ![i].at = "failed"]
      <4>1. job' \in [Ingests -> Records]
        BY <3>1, <3>3 DEF RegistryTypes, Typed, Records
      <4>2. ASSUME NEW k \in Ingests
            PROVE  /\ job'[k].at = job[k].at \/ (k = i /\ job'[k].at = "failed")
                   /\ job'[k].read = job[k].read /\ job'[k].name = job[k].name
                   /\ job'[k].root = job[k].root /\ job'[k].text = job[k].text
        BY <3>1, <3>3 DEF RegistryTypes, Typed, Records
      <4> QED
        BY <3>1, <4>1, <4>2 DEF RegistryTypes, Busy
    <3> QED
      BY <2>1, <3>2, <3>3 DEF Recover
  <2> QED
    BY <2>1, <2>2, <2>3 DEF Recover, RegistryTypes, Typed
<1> QED
  BY <1>1, <1>2, <1>3, <1>4 DEF StartUp

LEMMA TypesStep == RegistryTypes /\ [Next]_vars => RegistryTypes'
<1>1. RegistryTypes /\ UNCHANGED vars => RegistryTypes'
  BY DEF vars, files, bounds, RegistryTypes, Typed, Busy
<1> QED
  BY <1>1, ChangeTypes, RequestTypes, IngestTypes, ServerTypes DEF Next

\* Every variable keeps its type, every thread its one open file, every put its copy of the
\* index, whatever requests, ingests and crashes interleave (registry.py, vaults.py).
THEOREM RegistryTypeCorrect == Spec => []TypeOK
<1>1. RegistryTypes => TypeOK
  BY DEF RegistryTypes, Typed, Busy, TypeOK, Tree, Locals, Records
<1> QED
  BY <1>1, TypesInit, TypesStep, PTL DEF Spec

-------------------------------------------------------------------------------
(* Only vaults are registered.                                                 *)

IsVault(p) == tree[p].made = "vault"
AllVaults(m) == \A n \in Names : m[n] # None => IsVault(m[n])

\* Every map, on file, in the temporary file or in memory, has only vaults, and what is about
\* to be put into one is a vault.
OnlyVaults ==
  /\ registry \notin {NoFile, Unreadable} => AllVaults(registry)
  /\ tmp \notin {NoFile, Unreadable} => AllVaults(tmp)
  /\ \A t \in Threads :
       /\ AllVaults(req[t].map)
       /\ req[t].at = "read" /\ req[t].op # "delete" => IsVault(req[t].root)
  /\ \A p \in Prepared : IsVault(p)

LEMMA EmptyHasOnlyVaults == AllVaults(EmptyMap) /\ AllVaults(Free.map)
BY DEF AllVaults, EmptyMap, Free

LEMMA OnlyVaultsInit == Init => OnlyVaults
<1> SUFFICES ASSUME Init PROVE OnlyVaults
  OBVIOUS
<1>1. \A p \in Prepared : IsVault(p)
  BY RegistryAssumption DEF Init, IsVault
<1>2. AllVaults(Known)
  BY <1>1, RegistryAssumption DEF AllVaults
<1>3. \A t \in Threads : req[t] = Free /\ Free.at = "idle"
  BY DEF Init, Free
<1> QED
  BY <1>1, <1>2, <1>3, EmptyHasOnlyVaults DEF Init, OnlyVaults

LEMMA VaultsStay ==
  ASSUME RegistryTypes, [Next]_vars
  PROVE  /\ \A p \in Roots : IsVault(p) => IsVault(p)'
         /\ \A m \in Maps : AllVaults(m) => AllVaults(m)'
<1>0. tree \in Tree
  BY DEF RegistryTypes, Typed
<1>1. \A p \in Roots : IsVault(p) => IsVault(p)'
  <2>1. CASE UNCHANGED tree
    BY <2>1 DEF IsVault
  <2>2. CASE \E r \in Requests : MakeLayout(r) \/ CommitLayout(r)
    BY <1>0, <2>2 DEF MakeLayout, CommitLayout, Root, IsVault, Tree
  <2>3. CASE \E i \in Ingests : Start(i) \/ Fail(i) \/ Recover(i)
    <3>1. UNCHANGED tree \/ \E p, b : tree' = [tree EXCEPT ![p].dirty = b]
      BY <2>3 DEF Start, Fail, Recover
    <3> QED
      BY <1>0, <3>1 DEF IsVault, Tree
  <2>4. CASE \E i \in Ingests : Commit(i)
    BY <1>0, <2>4 DEF Commit, IsVault, Tree
  <2>5. \/ UNCHANGED tree \/ (\E r \in Requests : MakeLayout(r) \/ CommitLayout(r))
        \/ \E i \in Ingests : Start(i) \/ Fail(i) \/ Recover(i) \/ Commit(i)
    <3>1. ASSUME NEW t \in Threads, Change(t) PROVE UNCHANGED tree
      BY <3>1 DEF Change, ReadToChange, ReadAndRefuse, ReadGarbage, OpenTmp, FillTmp, Replace,
         ReplaceNothing
    <3>2. ASSUME NEW r \in Requests, Request(r) PROVE UNCHANGED tree
      BY <3>2 DEF Request, Receive
    <3>3. ASSUME NEW r \in Requests, Handle(r)
          PROVE  UNCHANGED tree \/ MakeLayout(r) \/ CommitLayout(r)
      BY <3>3 DEF Handle, CheckName, Validate, CheckEmpty, CommitFails, Drop, Answer
    <3>4. ASSUME NEW i \in Ingests, Ingest(i)
          PROVE  UNCHANGED tree \/ Start(i) \/ Fail(i) \/ Commit(i)
      BY <3>4 DEF Ingest, Submit, ReadIndex, WriteIndex
    <3>5. Crash => UNCHANGED tree
      BY DEF Crash
    <3>6. StartUp => UNCHANGED tree \/ \E i \in Ingests : Recover(i)
      BY DEF StartUp, Restart, SeedNext, Seeded, Serve
    <3>7. UNCHANGED vars => UNCHANGED tree
      BY DEF vars
    <3> QED
      BY <3>1, <3>2, <3>3, <3>4, <3>5, <3>6, <3>7 DEF Next
  <2> QED
    BY <2>1, <2>2, <2>3, <2>4, <2>5
<1>2. \A m \in Maps : AllVaults(m) => AllVaults(m)'
  BY <1>1 DEF Maps, AllVaults
<1> QED
  BY <1>1, <1>2

\* What a step makes of the files and the maps, and what it lets through to "read".
Traced ==
  /\ registry' \in {registry, tmp, NoFile, Unreadable} \union {req[t].map : t \in Threads}
  /\ tmp' \in {tmp, NoFile, Unreadable} \union {req[t].map : t \in Threads}
  /\ \A t \in Threads :
       /\ \/ req'[t].map \in {req[t].map, EmptyMap}
          \/ Readable /\ req[t].at = "read" /\ Allowed(t) /\ req'[t].map = Changed(t)
       /\ \/ req'[t].at # "read" \/ req'[t].op = "delete" \/ tree'[req'[t].root].made = "vault"
          \/ req'[t].root \in Prepared
          \/ req[t].at = "read" /\ req'[t].root = req[t].root /\ req'[t].op = req[t].op

LEMMA TracedIsEnough ==
  ASSUME RegistryTypes, OnlyVaults, Traced, [Next]_vars
  PROVE  OnlyVaults'
<1>0. /\ registry \in Maps \union {NoFile, Unreadable}
      /\ tmp \in Maps \union {NoFile, Unreadable}
      /\ \A t \in Threads : req[t] \in Locals /\ req[t].map \in Maps
  BY DEF RegistryTypes, Typed, Locals
<1>a. ASSUME NEW m \in Maps, AllVaults(m)
      PROVE  \A n \in Names : m[n] # None => tree'[m[n]].made = "vault"
  <2>1. AllVaults(m)'
    BY <1>a, VaultsStay
  <2> QED
    BY <2>1 DEF AllVaults, IsVault
<1>1. registry' \notin {NoFile, Unreadable} => AllVaults(registry)'
  BY <1>0, <1>a DEF Traced, OnlyVaults, AllVaults, IsVault
<1>2. tmp' \notin {NoFile, Unreadable} => AllVaults(tmp)'
  BY <1>0, <1>a DEF Traced, OnlyVaults, AllVaults, IsVault
<1>3. \A p \in Prepared : IsVault(p)'
  BY VaultsStay, RegistryAssumption DEF OnlyVaults
<1>4. ASSUME NEW t \in Threads PROVE AllVaults(req[t].map)'
  <2>1. CASE req'[t].map \in {req[t].map, EmptyMap}
    <3>1. EmptyMap \in Maps
      BY DEF EmptyMap, Maps
    <3> QED
      BY <1>0, <1>a, <2>1, <3>1, EmptyHasOnlyVaults DEF OnlyVaults, AllVaults, IsVault
  <2>2. CASE Readable /\ req[t].at = "read" /\ Allowed(t) /\ req'[t].map = Changed(t)
    <3>1. Registered \in Maps /\ AllVaults(Registered)
      BY <2>2, RegistryReads, EmptyHasOnlyVaults DEF OnlyVaults, Registered, Readable
    <3>2. req[t].op # "delete" => IsVault(req[t].root)
      BY <2>2 DEF OnlyVaults
    <3>3. Changed(t) \in Maps
      BY <1>0, <3>1 DEF Changed, Maps, Locals
    <3>4. AllVaults(Changed(t))
      BY <3>1, <3>2 DEF Changed, AllVaults, Maps
    <3> QED
      BY <1>a, <2>2, <3>3, <3>4 DEF AllVaults, IsVault
  <2> QED
    BY <2>1, <2>2 DEF Traced
<1>5. ASSUME NEW t \in Threads, req'[t].at = "read", req'[t].op # "delete"
      PROVE  IsVault(req[t].root)'
  <2>1. CASE req'[t].root \in Prepared
    BY <1>3, <2>1 DEF IsVault
  <2>2. CASE req[t].at = "read" /\ req'[t].root = req[t].root /\ req'[t].op = req[t].op
    <3>1. IsVault(req[t].root) /\ req[t].root \in Roots
      BY <1>5, <2>2, RegistryAssumption DEF OnlyVaults, RegistryTypes, Busy
    <3> QED
      BY <2>2, <3>1, VaultsStay DEF IsVault
  <2>3. CASE tree'[req'[t].root].made = "vault"
    BY <2>3 DEF IsVault
  <2> QED
    BY <1>5, <2>1, <2>2, <2>3 DEF Traced
<1> QED
  BY <1>1, <1>2, <1>3, <1>4, <1>5 DEF OnlyVaults

LEMMA StepsAreTraced ==
  ASSUME RegistryTypes, [Next]_vars
  PROVE  Traced
<1>0. \A t \in Threads : req[t] \in Locals
  BY DEF RegistryTypes, Typed
<1> USE DEF Traced, files
<1>f. Free.map = EmptyMap /\ Free.at = "idle"
  BY DEF Free
<1>1. ASSUME NEW t \in Threads, Change(t) PROVE Traced
  <2>1. CASE ReadToChange(t)
    <3>1. /\ req' = [req EXCEPT ![t].at = "open", ![t].map = Changed(t)]
          /\ Readable /\ req[t].at = "read" /\ Allowed(t) /\ UNCHANGED <<registry, tmp>>
      BY <2>1 DEF ReadToChange, At
    <3>2. ASSUME NEW u \in Threads \ {t} PROVE req'[u] = req[u]
      BY <1>0, <3>1 DEF RegistryTypes, Typed
    <3>3. req'[t].map = Changed(t) /\ req'[t].at = "open"
      BY <1>0, <3>1 DEF RegistryTypes, Typed, Locals
    <3> QED
      BY <3>1, <3>2, <3>3
  <2>2. CASE ReadAndRefuse(t) \/ ReadGarbage(t) \/ ReplaceNothing(t) \/ OpenTmp(t) \/ FillTmp(t)
    <3>1. \/ req' = [req EXCEPT ![t] = Free]
          \/ \E label \in {"refused", "broken"} : req' = [req EXCEPT ![t].at = label]
          \/ \E label \in {"fill", "replace"}, h \in {"tmp", "none"} :
               req' = [req EXCEPT ![t].at = label, ![t].handle = h]
      BY <2>2 DEF ReadAndRefuse, ReadGarbage, ReplaceNothing, OpenTmp, FillTmp, SeedDone, Goto
    <3>2. ASSUME NEW u \in Threads
          PROVE  /\ req'[u].map \in {req[u].map, EmptyMap}
                 /\ req'[u].at # "read" \/ req'[u] = req[u]
      BY <1>0, <1>f, <3>1 DEF RegistryTypes, Typed, Locals
    <3>3. /\ registry' \in {registry, Unreadable, req[t].map}
          /\ tmp' \in {tmp, Unreadable, req[t].map}
      BY <2>2 DEF ReadAndRefuse, ReadGarbage, ReplaceNothing, OpenTmp, FillTmp, Filled
    <3> QED
      BY <3>2, <3>3
  <2>3. CASE Replace(t)
    <3>1. registry' = tmp /\ tmp' = NoFile /\ req[t].at = "replace"
      BY <2>3 DEF Replace, At
    <3>2. ASSUME NEW u \in Threads
          PROVE  /\ req'[u].map \in {req[u].map, EmptyMap}
                 /\ \/ req'[u].at # "read"
                    \/ /\ req'[u].at = req[u].at /\ req'[u].op = req[u].op
                       /\ req'[u].root = req[u].root
      <4>1. CASE t = Starter
        BY <1>0, <1>f, <2>3, <4>1 DEF Replace, SeedDone, RegistryTypes, Typed
      <4>2. CASE t # Starter
        <5>1. req' = [v \in Threads |->
                 IF v = t
                 THEN [req[t] EXCEPT !.at = IF req[t].op = "delete" THEN "drop" ELSE "accepted"]
                 ELSE [req[v] EXCEPT !.handle = Renamed(@)]]
          BY <2>3, <4>2 DEF Replace
        <5> QED
          BY <1>0, <5>1 DEF Locals
      <4> QED
        BY <4>1, <4>2
    <3> QED
      BY <3>1, <3>2
  <2> QED
    BY <1>1, <2>1, <2>2, <2>3 DEF Change
<1>2. ASSUME NEW r \in Requests, Request(r) PROVE Traced
  <2>1. PICK op \in {"adopt", "init", "delete"}, n \in Names, p \in Roots \union {None} :
          Receive(r, op, n, p)
    <3>1. \A o \in Offers : o[1] \in Names /\ o[2] \in Roots
      BY RegistryAssumption
    <3> QED
      BY <1>2, <3>1 DEF Request
  <2> DEFINE next == [Free EXCEPT !.at = IF op = "delete" THEN "read" ELSE "check",
                                  !.op = op, !.name = n, !.root = p]
  <2>2. req' = [req EXCEPT ![r] = next] /\ UNCHANGED files
    BY <2>1 DEF Receive
  <2>3. next.map = EmptyMap /\ (next.at # "read" \/ next.op = "delete")
    BY DEF Free
  <2> HIDE DEF next
  <2> QED
    BY <1>0, <2>2, <2>3 DEF RegistryTypes, Typed
<1>3. ASSUME NEW r \in Requests, Handle(r) PROVE Traced
  <2>0. r \in Threads /\ req[r] \in Locals
    BY <1>0 DEF Threads
  <2>1. UNCHANGED files
    BY <1>3 DEF Handle, CheckName, Validate, CheckEmpty, MakeLayout, CommitLayout, CommitFails,
       Drop, Answer
  <2>2. \/ req' = [req EXCEPT ![r] = Free]
        \/ \E label \in Ats \ {"read"} : Goto(r, label)
        \/ Goto(r, "read") /\ (req[r].op = "delete" \/ tree'[req[r].root].made = "vault")
    <3>1. CASE CheckName(r) \/ CheckEmpty(r) \/ MakeLayout(r) \/ CommitFails(r) \/ Drop(r)
               \/ Answer(r)
      BY <3>1 DEF CheckName, CheckEmpty, MakeLayout, CommitFails, Drop, Answer, Ats
    <3>2. CASE Validate(r)
      BY <3>2 DEF Validate, Acceptable, Root, Ats
    <3>3. CASE CommitLayout(r)
      <4>1. /\ req[r].at = "commit" /\ Goto(r, "read")
            /\ tree' = [tree EXCEPT ![req[r].root].made = "vault"]
        BY <3>3 DEF CommitLayout, At
      <4>2. req[r].op # "delete" => req[r].root \in Roots
        BY <2>0, <4>1, RegistryAssumption DEF RegistryTypes, Busy
      <4>3. tree \in Tree
        BY DEF RegistryTypes, Typed
      <4>4. req[r].root \in Roots => tree'[req[r].root].made = "vault"
        BY <4>1, <4>3 DEF Tree
      <4> QED
        BY <4>1, <4>2, <4>4
    <3> QED
      BY <1>3, <3>1, <3>2, <3>3 DEF Handle
  <2>3. CASE req' = [req EXCEPT ![r] = Free]
    BY <1>0, <1>f, <2>0, <2>1, <2>3 DEF RegistryTypes, Typed
  <2>4. CASE \E label \in Ats \ {"read"} : Goto(r, label)
    BY <1>0, <2>0, <2>1, <2>4 DEF Goto, RegistryTypes, Typed, Locals
  <2>5. CASE Goto(r, "read") /\ (req[r].op = "delete" \/ tree'[req[r].root].made = "vault")
    BY <1>0, <2>0, <2>1, <2>5 DEF Goto, RegistryTypes, Typed, Locals
  <2> QED
    BY <2>2, <2>3, <2>4, <2>5
<1>4. CASE UNCHANGED <<files, req>>
  BY <1>4
<1>5. CASE Crash
  <2>1. UNCHANGED files /\ \A t \in Threads : req'[t] = Free
    BY <1>5 DEF Crash
  <2> QED
    BY <1>f, <2>1
<1>6. CASE \E n \in DOMAIN Configured : SeedNext(n)
  <2>1. PICK n \in DOMAIN Configured : SeedNext(n)
    BY <1>6
  <2> DEFINE next == [Free EXCEPT !.at = "read", !.op = "seed", !.name = n,
                                  !.root = Configured[n]]
  <2>2. req' = [req EXCEPT ![Starter] = next] /\ UNCHANGED files
    BY <2>1 DEF SeedNext
  <2>3. next.map = EmptyMap /\ next.root \in Prepared
    BY RegistryAssumption DEF Free
  <2> HIDE DEF next
  <2> QED
    BY <1>0, <2>2, <2>3 DEF RegistryTypes, Typed
<1>7. ASSUME NEW i \in Ingests, Ingest(i) PROVE UNCHANGED <<files, req>>
  BY <1>7 DEF Ingest, Submit, Start, Fail, Commit, ReadIndex, WriteIndex
<1>8. Restart \/ Seeded \/ Serve \/ (\E i \in Ingests : Recover(i)) => UNCHANGED <<files, req>>
  BY DEF Restart, Seeded, Serve, Recover
<1>9. UNCHANGED vars => UNCHANGED <<files, req>>
  BY DEF vars
<1> QED
  BY <1>1, <1>2, <1>3, <1>4, <1>5, <1>6, <1>7, <1>8, <1>9 DEF Next, StartUp

\* The registry never names a root that is not a vault, made or adopted to the end, however
\* its unlocked reads, its writes through a shared temporary file, starts and crashes
\* interleave (registry.py:34-67, scaffold.py:41-58, vaults.py:29-66).
THEOREM OnlyVaultsAreRegistered == Spec => []RegisteredRootsAreVaults
<1>1. Init => RegistryTypes /\ OnlyVaults
  BY TypesInit, OnlyVaultsInit
<1>2. RegistryTypes /\ OnlyVaults /\ [Next]_vars => (RegistryTypes /\ OnlyVaults)'
  BY TypesStep, StepsAreTraced, TracedIsEnough
<1>3. OnlyVaults => RegisteredRootsAreVaults
  BY EmptyHasOnlyVaults DEF OnlyVaults, RegisteredRootsAreVaults, Readable, Registered,
     AllVaults, IsVault
<1> QED
  BY <1>1, <1>2, <1>3, PTL DEF Spec
-------------------------------------------------------------------------------
(* A duplicate is stored.                                                      *)

Offered(m) == \A n \in Names : m[n] # None => <<n, m[n]>> \in Offers

\* Every map has only what was offered.
OnlyOffers ==
  /\ registry \notin {NoFile, Unreadable} => Offered(registry)
  /\ tmp \notin {NoFile, Unreadable} => Offered(tmp)
  /\ \A t \in Threads : Offered(req[t].map)

LEMMA EmptyIsOffered == Offered(EmptyMap) /\ Offered(Free.map)
BY DEF Offered, EmptyMap, Free

LEMMA OnlyOffersInit == Init => OnlyOffers
BY RegistryAssumption, EmptyIsOffered DEF Init, OnlyOffers, Offered

LEMMA ReadIsOffered == OnlyOffers /\ Readable => Offered(Registered)
BY EmptyIsOffered DEF OnlyOffers, Readable, Registered

LEMMA OnlyOffersStep == RegistryTypes /\ OnlyOffers /\ [Next]_vars => OnlyOffers'
<1> SUFFICES ASSUME RegistryTypes, OnlyOffers, [Next]_vars PROVE OnlyOffers'
  OBVIOUS
<1>0. Traced
  BY StepsAreTraced
<1>1. registry' \notin {NoFile, Unreadable} => Offered(registry')
  BY <1>0 DEF Traced, OnlyOffers
<1>2. tmp' \notin {NoFile, Unreadable} => Offered(tmp')
  BY <1>0 DEF Traced, OnlyOffers
<1>3. ASSUME NEW t \in Threads PROVE Offered(req'[t].map)
  <2>1. CASE req'[t].map \in {req[t].map, EmptyMap}
    BY <2>1, EmptyIsOffered DEF OnlyOffers
  <2>2. CASE Readable /\ req[t].at = "read" /\ Allowed(t) /\ req'[t].map = Changed(t)
    <3>1. Registered \in Maps /\ Offered(Registered)
      BY <2>2, RegistryReads, ReadIsOffered
    <3>2. req[t].op # "delete" => <<req[t].name, req[t].root>> \in Offers
      BY <2>2 DEF RegistryTypes, Busy
    <3>3. Offered(Changed(t))
      BY <3>1, <3>2 DEF Changed, Offered, Maps
    <3> QED
      BY <2>2, <3>3
  <2> QED
    BY <1>0, <2>1, <2>2 DEF Traced
<1> QED
  BY <1>1, <1>2, <1>3 DEF OnlyOffers, Offered

\* p has the text, and is where ingests for the name n work.
Stores(n, p, x) == <<n, p>> \in Offers /\ x \in tree[p].holds

Fine(j) ==
  /\ j.at # "none" => <<j.name, j.root>> \in Offers
  /\ j.at \in {"committed", "putting", "duplicate"} => Stores(j.name, j.root, j.text)
  /\ j.at = "putting" => \A x \in Texts : j.read[x] # None => Stores(j.name, j.read[x], x)

\* Every entry, on file or in memory, names a root that has the text, and so does every job that
\* has come to its commit or was told that it need not.
OnlyStored ==
  /\ \A n \in Names, x \in Texts : index[n][x] # None => Stores(n, index[n][x], x)
  /\ \A i \in Ingests : Fine(job[i])

LEMMA OnlyStoredInit == Init => OnlyStored
BY DEF Init, OnlyStored, Fine, NoEntries, NoJob

LEMMA TextsStay ==
  ASSUME RegistryTypes, [Next]_vars
  PROVE  \A n, x : \A p \in Roots : Stores(n, p, x) => Stores(n, p, x)'
<1>0. tree \in Tree
  BY DEF RegistryTypes, Typed
<1>1. CASE UNCHANGED tree
  BY <1>1 DEF Stores
<1>2. CASE \E p, m : tree' = [tree EXCEPT ![p].made = m]
  BY <1>0, <1>2 DEF Stores, Tree
<1>3. CASE \E p, b : tree' = [tree EXCEPT ![p].dirty = b]
  BY <1>0, <1>3 DEF Stores, Tree
<1>4. CASE \E i \in Ingests : Commit(i)
  BY <1>0, <1>4 DEF Commit, Stores, Tree
<1>5. ASSUME NEW t \in Threads, Change(t) PROVE UNCHANGED tree
  BY <1>5 DEF Change, ReadToChange, ReadAndRefuse, ReadGarbage, OpenTmp, FillTmp, Replace,
     ReplaceNothing
<1>6. ASSUME NEW r \in Requests, Request(r) \/ Handle(r)
      PROVE  UNCHANGED tree \/ \E p, m : tree' = [tree EXCEPT ![p].made = m]
  BY <1>6 DEF Request, Receive, Handle, CheckName, Validate, CheckEmpty, MakeLayout, CommitLayout,
     CommitFails, Drop, Answer
<1>7. ASSUME NEW i \in Ingests, Ingest(i) \/ Recover(i)
      PROVE  UNCHANGED tree \/ Commit(i) \/ \E p, b : tree' = [tree EXCEPT ![p].dirty = b]
  BY <1>7 DEF Ingest, Submit, Start, Fail, ReadIndex, WriteIndex, Recover
<1>8. Crash \/ UNCHANGED vars => UNCHANGED tree
  BY DEF Crash, vars
<1>9. StartUp => UNCHANGED tree \/ \E i \in Ingests : Recover(i)
  BY DEF StartUp, Restart, SeedNext, Seeded, Serve
<1> QED
  BY <1>1, <1>2, <1>3, <1>4, <1>5, <1>6, <1>7, <1>8, <1>9 DEF Next

\* What clients offer as one vault is in one place.
OneRootEach == \A o, q \in Offers : o[1] = q[1] => o[2] = q[2]

LEMMA FineStays ==
  ASSUME RegistryTypes, [Next]_vars
  PROVE  /\ \A j \in Records : Fine(j) => Fine(j)'
         /\ OnlyStored => \A n \in Names, x \in Texts :
              index[n][x] # None =>
                <<n, index[n][x]>> \in Offers /\ x \in tree'[index[n][x]].holds
<1>1. ASSUME NEW j \in Records, Fine(j) PROVE Fine(j)'
  <2>1. j.at # "none" => <<j.name, j.root>> \in Offers /\ j.root \in Roots
    BY <1>1, RegistryAssumption DEF Fine
  <2>2. j.at \in {"committed", "putting", "duplicate"} => Stores(j.name, j.root, j.text)'
    BY <1>1, <2>1, TextsStay DEF Fine
  <2>3. j.at = "putting" => \A x \in Texts : j.read[x] # None => Stores(j.name, j.read[x], x)'
    <3> SUFFICES ASSUME j.at = "putting", NEW x \in Texts, j.read[x] # None
                 PROVE  Stores(j.name, j.read[x], x)'
      OBVIOUS
    <3>1. Stores(j.name, j.read[x], x) /\ j.read[x] \in Roots
      BY <1>1 DEF Fine, Records
    <3> QED
      BY <3>1, TextsStay
  <2> QED
    BY <2>1, <2>2, <2>3 DEF Fine
<1>2. ASSUME OnlyStored, NEW n \in Names, NEW x \in Texts, index[n][x] # None
      PROVE  <<n, index[n][x]>> \in Offers /\ x \in tree'[index[n][x]].holds
  <2>1. Stores(n, index[n][x], x) /\ index[n][x] \in Roots
    BY <1>2 DEF OnlyStored, RegistryTypes, Typed
  <2>2. \A p \in Roots : Stores(n, p, x) => x \in tree'[p].holds
    BY TextsStay DEF Stores
  <2> QED
    BY <2>1, <2>2 DEF Stores
<1> QED
  BY <1>1, <1>2

LEMMA JobsStayFine ==
  ASSUME OneRootEach, RegistryTypes, OnlyOffers, OnlyStored, [Next]_vars, NEW i \in Ingests
  PROVE  Fine(job[i])'
<1> DEFINE j == job[i]
<1>0. j \in Records /\ Fine(j) /\ job \in [Ingests -> Records]
  BY DEF RegistryTypes, Typed, OnlyStored
<1>1. CASE job'[i] = job[i]
  <2>1. \A k \in Records : Fine(k) => Fine(k)'
    BY FineStays
  <2> QED
    BY <1>0, <1>1, <2>1 DEF Fine, Stores
<1>2. CASE /\ j.at # "none" /\ job'[i].at \in {"failed", "done", "interrupted", "writing"}
           /\ job'[i].name = j.name /\ job'[i].root = j.root
  BY <1>0, <1>2 DEF Fine
<1>3. CASE \E n \in Names, x \in Texts : Submit(i, n, x)
  <2>1. PICK n \in Names, x \in Texts : Submit(i, n, x)
    BY <1>3
  <2>2. <<n, Registered[n]>> \in Offers
    BY <2>1, ReadIsOffered DEF Submit, Offered
  <2>3. job'[i] = [NoJob EXCEPT !.at = "queued", !.name = n, !.root = Registered[n], !.text = x]
    BY <1>0, <2>1 DEF Submit
  <2>4. job'[i].at = "queued" /\ job'[i].name = n /\ job'[i].root = Registered[n]
    BY <2>3 DEF NoJob
  <2> QED
    BY <2>2, <2>4 DEF Fine
<1>4. CASE Start(i) /\ job'[i] # job[i] /\ job'[i].at = "duplicate"
  <2>1. /\ j.at = "queued" /\ index[j.name][j.text] # None /\ UNCHANGED tree
        /\ job' = [job EXCEPT ![i].at = "duplicate"]
    BY <1>0, <1>4 DEF Start, Records
  <2>2. <<j.name, j.root>> \in Offers /\ j.name \in Names /\ j.text \in Texts
    BY <1>0, <2>1 DEF Fine, RegistryTypes, Busy
  <2>3. Stores(j.name, index[j.name][j.text], j.text)
    BY <2>1, <2>2 DEF OnlyStored
  <2>4. index[j.name][j.text] = j.root
    <3>1. <<j.name, index[j.name][j.text]>> \in Offers
      BY <2>3 DEF Stores
    <3>2. \A o, q \in Offers : o[1] = q[1] => o[2] = q[2]
      BY DEF OneRootEach
    <3> QED
      BY <2>2, <3>1, <3>2
  <2>5. job'[i].at = "duplicate" /\ job'[i].name = j.name /\ job'[i].root = j.root
        /\ job'[i].text = j.text
    BY <1>0, <2>1 DEF Records
  <2> QED
    BY <2>1, <2>2, <2>3, <2>4, <2>5 DEF Fine, Stores
<1>5. CASE Commit(i)
  <2>1. /\ j.at = "writing" /\ job' = [job EXCEPT ![i].at = "committed"]
        /\ tree' = [tree EXCEPT ![j.root].dirty = FALSE, ![j.root].holds = @ \union {j.text}]
    BY <1>5 DEF Commit
  <2>2. j.text \in tree'[j.root].holds
    <3>1. j.root \in Roots /\ tree \in Tree
      BY <2>1 DEF RegistryTypes, Typed, Busy
    <3> QED
      BY <2>1, <3>1 DEF Tree
  <2>3. job'[i].at = "committed" /\ job'[i].name = j.name /\ job'[i].root = j.root
        /\ job'[i].text = j.text
    BY <1>0, <2>1 DEF Records
  <2> QED
    BY <1>0, <2>1, <2>2, <2>3 DEF Fine, Stores
<1>6. CASE ReadIndex(i)
  <2>1. /\ j.at = "committed" /\ UNCHANGED tree
        /\ job' = [job EXCEPT ![i].at = "putting", ![i].read = index[j.name]]
    BY <1>6 DEF ReadIndex
  <2>2. j.name \in Names
    BY <2>1 DEF RegistryTypes, Busy
  <2>3. job'[i].at = "putting" /\ job'[i].name = j.name /\ job'[i].root = j.root
        /\ job'[i].text = j.text /\ job'[i].read = index[j.name]
    BY <1>0, <2>1 DEF Records
  <2>4. \A x \in Texts : index[j.name][x] # None => Stores(j.name, index[j.name][x], x)
    BY <2>2 DEF OnlyStored
  <2> QED
    BY <1>0, <2>1, <2>3, <2>4 DEF Fine, Stores
<1>7. CASE \E k \in Ingests : Ingest(k)
  <2>1. PICK k \in Ingests : Ingest(k)
    BY <1>7
  <2>2. CASE k # i
    <3>1. job'[i] = job[i]
      BY <1>0, <2>1, <2>2 DEF Ingest, Submit, Start, Fail, Commit, ReadIndex, WriteIndex
    <3> QED
      BY <1>1, <3>1
  <2>3. CASE k = i
    <3>1. CASE Start(i) \/ Fail(i) \/ WriteIndex(i)
      <4>1. \/ \E label \in {"failed", "duplicate", "writing"} : job' = [job EXCEPT ![i].at = label]
            \/ job' = [job EXCEPT ![i].at = "done", ![i].read = NoEntries]
        BY <3>1 DEF Start, Fail, WriteIndex
      <4>2. j.at # "none" /\ (Fail(i) \/ WriteIndex(i) => job'[i].at # "duplicate")
        BY <1>0, <3>1 DEF Start, Fail, WriteIndex, Records
      <4>3. /\ job'[i].at \in {"failed", "done", "duplicate", "writing"}
            /\ job'[i].name = j.name /\ job'[i].root = j.root
        BY <1>0, <4>1 DEF Records
      <4> QED
        BY <1>1, <1>2, <1>4, <3>1, <4>2, <4>3
    <3> QED
      BY <2>1, <2>3, <3>1, <1>3, <1>5, <1>6 DEF Ingest
  <2> QED
    BY <2>2, <2>3
<1>8. CASE Crash
  <2>1. CASE j.at = "queued"
    <3>1. job'[i] = [j EXCEPT !.at = "failed"]
      BY <1>8, <2>1 DEF Crash, Active
    <3> QED
      BY <1>0, <1>2, <2>1, <3>1 DEF Records
  <2>2. CASE j.at \in Active
    <3>1. job'[i] = [j EXCEPT !.at = "interrupted", !.read = NoEntries]
      BY <1>8, <2>2 DEF Crash, Active
    <3> QED
      BY <1>0, <1>2, <2>2, <3>1 DEF Records, Active
  <2>3. CASE j.at # "queued" /\ j.at \notin Active
    <3>1. job'[i] = job[i]
      BY <1>8, <2>3 DEF Crash
    <3> QED
      BY <1>1, <3>1
  <2> QED
    BY <2>1, <2>2, <2>3
<1>9. CASE \E k \in Ingests : Recover(k)
  <2>1. PICK k \in Ingests : Recover(k)
    BY <1>9
  <2>2. job'[i] = job[i] \/ (k = i /\ job'[i] = [j EXCEPT !.at = "failed"])
    BY <1>0, <2>1 DEF Recover
  <2>3. CASE k = i /\ job'[i] = [j EXCEPT !.at = "failed"]
    BY <1>0, <1>2, <2>1, <2>3 DEF Recover, Records
  <2> QED
    BY <1>1, <2>2, <2>3
<1>10. CASE UNCHANGED job
  BY <1>1, <1>10
<1>11. ASSUME NEW t \in Threads, Change(t) PROVE UNCHANGED job
  BY <1>11 DEF Change, ReadToChange, ReadAndRefuse, ReadGarbage, OpenTmp, FillTmp, Replace,
     ReplaceNothing
<1>12. ASSUME NEW r \in Requests, Request(r) \/ Handle(r) PROVE UNCHANGED job
  BY <1>12 DEF Request, Receive, Handle, CheckName, Validate, CheckEmpty, MakeLayout,
     CommitLayout, CommitFails, Drop, Answer
<1>13. Restart \/ Seeded \/ Serve \/ (\E n \in DOMAIN Configured : SeedNext(n)) \/ UNCHANGED vars
         => UNCHANGED job
  BY DEF Restart, Seeded, Serve, SeedNext, vars
<1> QED
  BY <1>7, <1>8, <1>9, <1>10, <1>11, <1>12, <1>13 DEF Next, StartUp
LEMMA EntriesStayStored ==
  ASSUME RegistryTypes, OnlyStored, [Next]_vars,
         NEW n \in Names, NEW x \in Texts, index'[n][x] # None
  PROVE  <<n, index'[n][x]>> \in Offers /\ x \in tree'[index'[n][x]].holds
<1>0. index \in [Names -> [Texts -> Roots \union {None}]] /\ job \in [Ingests -> Records]
  BY DEF RegistryTypes, Typed
<1>1. CASE index'[n][x] = index[n][x]
  BY <1>1, FineStays
<1>2. CASE \E r \in Requests : Drop(r)
  <2>1. PICK r \in Requests : index' = [index EXCEPT ![req[r].name] = NoEntries]
    BY <1>2 DEF Drop
  <2>2. index'[n] = index[n] \/ index'[n] = NoEntries
    BY <1>0, <2>1
  <2> QED
    BY <1>1, <2>2 DEF NoEntries
<1>3. CASE \E i \in Ingests : WriteIndex(i)
  <2>1. PICK i \in Ingests : WriteIndex(i)
    BY <1>3
  <2> DEFINE j == job[i]
  <2>2. /\ j.at = "putting" /\ UNCHANGED tree
        /\ index' = [index EXCEPT ![j.name] = [j.read EXCEPT ![j.text] = j.root]]
    BY <2>1 DEF WriteIndex
  <2>3. j \in Records /\ Fine(j) /\ j.text \in Texts
    BY <1>0, <2>2 DEF OnlyStored, RegistryTypes, Busy
  <2>4. CASE n = j.name
    <3>1. index'[n] = [j.read EXCEPT ![j.text] = j.root]
      BY <1>0, <2>2, <2>4
    <3>2. CASE x = j.text
      <4>1. index'[n][x] = j.root
        BY <2>3, <3>1, <3>2 DEF Records
      <4>2. Stores(j.name, j.root, j.text)
        BY <2>2, <2>3 DEF Fine
      <4> QED
        BY <2>2, <2>4, <3>2, <4>1, <4>2 DEF Stores
    <3>3. CASE x # j.text
      <4>1. index'[n][x] = j.read[x]
        BY <2>3, <3>1, <3>3 DEF Records
      <4>2. Stores(j.name, j.read[x], x)
        BY <2>2, <2>3, <4>1 DEF Fine
      <4> QED
        BY <2>2, <2>4, <4>1, <4>2 DEF Stores
    <3> QED
      BY <3>2, <3>3
  <2>5. CASE n # j.name
    BY <1>0, <1>1, <2>2, <2>5
  <2> QED
    BY <2>4, <2>5
<1>4. ASSUME NEW t \in Threads, Change(t) PROVE UNCHANGED index
  BY <1>4 DEF Change, ReadToChange, ReadAndRefuse, ReadGarbage, OpenTmp, FillTmp, Replace,
     ReplaceNothing
<1>5. ASSUME NEW r \in Requests, Request(r) \/ Handle(r) PROVE Drop(r) \/ UNCHANGED index
  BY <1>5 DEF Request, Receive, Handle, CheckName, Validate, CheckEmpty, MakeLayout,
     CommitLayout, CommitFails, Answer
<1>6. ASSUME NEW i \in Ingests, Ingest(i) PROVE WriteIndex(i) \/ UNCHANGED index
  BY <1>6 DEF Ingest, Submit, Start, Fail, Commit, ReadIndex
<1>7. Crash \/ StartUp \/ UNCHANGED vars => UNCHANGED index
  BY DEF Crash, StartUp, Restart, Seeded, Serve, SeedNext, Recover, vars
<1>8. UNCHANGED index => index'[n][x] = index[n][x]
  OBVIOUS
<1> QED
  BY <1>1, <1>2, <1>3, <1>4, <1>5, <1>6, <1>7, <1>8 DEF Next

LEMMA OnlyStoredStep ==
  OneRootEach /\ RegistryTypes /\ OnlyOffers /\ OnlyStored /\ [Next]_vars => OnlyStored'
<1> SUFFICES ASSUME OneRootEach, RegistryTypes, OnlyOffers, OnlyStored, [Next]_vars
             PROVE  OnlyStored'
  OBVIOUS
<1>1. \A i \in Ingests : Fine(job[i])'
  BY JobsStayFine
<1>2. \A n \in Names, x \in Texts : index'[n][x] # None =>
        <<n, index'[n][x]>> \in Offers /\ x \in tree'[index'[n][x]].holds
  BY EntriesStayStored
<1> QED
  BY <1>1, <1>2 DEF OnlyStored, Stores

\* Where each vault is offered at one place, an ingest that ends as a duplicate has its text in
\* the repository it was submitted for, whatever drops, puts and crashes have made of the index
\* (source_index.py:37-77, vaults.py:75-81, pipeline.py:121-126).
THEOREM DuplicatesAreStored == OneRootEach => (Spec => []DuplicateIsStored)
<1> DEFINE Inv == RegistryTypes /\ OnlyOffers /\ OnlyStored
<1>1. Init => Inv
  BY TypesInit, OnlyOffersInit, OnlyStoredInit
<1>2. OneRootEach /\ Inv /\ [Next]_vars => Inv'
  BY TypesStep, OnlyOffersStep, OnlyStoredStep
<1>3. Inv => DuplicateIsStored
  BY DEF OnlyStored, Fine, Stores, DuplicateIsStored
<1> HIDE DEF Inv
<1>4. ASSUME OneRootEach PROVE Spec => []DuplicateIsStored
  <2>1. Inv /\ [Next]_vars => Inv'
    BY <1>2, <1>4
  <2> QED
    BY <1>1, <1>3, <2>1, PTL DEF Spec
<1> QED
  BY <1>4
-------------------------------------------------------------------------------
(* Who runs when, and what a change that is not disturbed has in hand.         *)

\* Requests are served by a server that is up, the configuration is read by one that
\* starts, and no job stays interrupted once the server serves.
QuietInv ==
  /\ phase # "up" => \A r \in Requests : req[r].at = "idle"
  /\ phase # "starting" => req[Starter].at = "idle"
  /\ phase = "up" => \A i \in Ingests : job[i].at # "interrupted"

\* What a request asks for fits where its handler is.
AskedInv ==
  \A r \in Requests :
    /\ req[r].at # "idle" => req[r].op \in {"adopt", "init", "delete"}
    /\ req[r].at \in {"check", "validate", "scaffold", "make", "commit"} => req[r].op # "delete"
    /\ req[r].at = "drop" => req[r].op = "delete"

\* A change that no other overlaps writes what it has read, with its own entry changed.
Alone(t) ==
  /\ \A u \in Threads : req[u].at \in Writing => u = t
  /\ Readable /\ Allowed(t) /\ req[t].map = Changed(t)
  /\ req[t].at = "fill" => req[t].handle = "tmp" /\ tmp = Unreadable
  /\ req[t].at = "replace" => tmp = req[t].map
AloneInv ==
  ~overlapped \/ phase = "starting" =>
    \A t \in Threads : req[t].at \in Writing => Alone(t)

\* A start registers the names of the configuration that are not registered yet.
SeedInv ==
  /\ req[Starter].at # "idle" =>
       /\ req[Starter].at \in {"read"} \union Writing /\ req[Starter].op = "seed"
       /\ req[Starter].name \in todo /\ req[Starter].root = Configured[req[Starter].name]
  /\ phase = "recovering" => todo = {}
  /\ phase \in {"starting", "recovering"} /\ Readable =>
       \A n \in DOMAIN Configured \ todo : Registered[n] # None

ServerInv ==
  /\ QuietInv /\ AskedInv /\ AloneInv /\ SeedInv
  /\ ~overlapped => Readable

\* A step of another leaves all of a thread's locals alone, its open file aside.
SameLocals(u) ==
  /\ req'[u].at = req[u].at /\ req'[u].op = req[u].op /\ req'[u].name = req[u].name
  /\ req'[u].root = req[u].root /\ req'[u].map = req[u].map

Moves(t, label) ==
  /\ req'[t].at = label /\ req'[t].op = req[t].op /\ req'[t].name = req[t].name
  /\ req'[t].root = req[t].root

\* The outcomes of Change(t).
Outcome(t) ==
  \/ ReadToChange(t) /\ Moves(t, "open") /\ req'[t].map = Changed(t)
  \/ ReadAndRefuse(t) /\ t = Starter /\ req'[t] = Free /\ todo' = todo \ {req[t].name}
  \/ ReadAndRefuse(t) /\ t # Starter /\ Moves(t, "refused") /\ UNCHANGED todo
  \/ ReadGarbage(t) /\ t = Starter /\ req'[t] = Free
  \/ ReadGarbage(t) /\ t # Starter /\ Moves(t, "broken")
  \/ OpenTmp(t) /\ Moves(t, "fill") /\ req'[t].map = req[t].map /\ req'[t].handle = "tmp"
  \/ FillTmp(t) /\ Moves(t, "replace") /\ req'[t].map = req[t].map
  \/ Replace(t) /\ t = Starter /\ req'[t] = Free /\ todo' = todo \ {req[t].name}
  \/ /\ Replace(t) /\ t # Starter /\ UNCHANGED todo
     /\ Moves(t, IF req[t].op = "delete" THEN "drop" ELSE "accepted")
  \/ ReplaceNothing(t) /\ Moves(t, "broken")

LEMMA ChangeMoves ==
  ASSUME RegistryTypes, NEW t \in Threads, Change(t)
  PROVE  /\ Outcome(t)
         /\ \A u \in Threads \ {t} :
              SameLocals(u) /\ (req'[u].handle = req[u].handle \/ Replace(t))
<1>0. req \in [Threads -> Locals] /\ req[t] \in Locals
  BY DEF RegistryTypes, Typed
<1>1. CASE ReadToChange(t)
  <2>1. req' = [req EXCEPT ![t].at = "open", ![t].map = Changed(t)]
    BY <1>1 DEF ReadToChange
  <2> QED BY <1>0, <1>1, <2>1 DEF Outcome, Moves, SameLocals, Locals
<1>2. CASE ReadAndRefuse(t)
  <2>1. \/ t = Starter /\ req' = [req EXCEPT ![t] = Free] /\ todo' = todo \ {req[t].name}
        \/ t # Starter /\ req' = [req EXCEPT ![t].at = "refused"] /\ UNCHANGED todo
    BY <1>2 DEF ReadAndRefuse, SeedDone, Goto
  <2> QED BY <1>0, <1>2, <2>1 DEF Outcome, Moves, SameLocals, Locals
<1>3. CASE ReadGarbage(t)
  <2>1. \/ t = Starter /\ req' = [req EXCEPT ![t] = Free]
        \/ t # Starter /\ req' = [req EXCEPT ![t].at = "broken"]
    BY <1>3 DEF ReadGarbage, Goto
  <2> QED BY <1>0, <1>3, <2>1 DEF Outcome, Moves, SameLocals, Locals
<1>4. CASE OpenTmp(t)
  <2>1. req' = [req EXCEPT ![t].at = "fill", ![t].handle = "tmp"]
    BY <1>4 DEF OpenTmp
  <2> QED BY <1>0, <1>4, <2>1 DEF Outcome, Moves, SameLocals, Locals
<1>5. CASE FillTmp(t)
  <2>1. req' = [req EXCEPT ![t].at = "replace", ![t].handle = "none"]
    BY <1>5 DEF FillTmp
  <2> QED BY <1>0, <1>5, <2>1 DEF Outcome, Moves, SameLocals, Locals
<1>6. CASE Replace(t) /\ t = Starter
  <2>1. req' = [req EXCEPT ![t] = Free] /\ todo' = todo \ {req[t].name}
    BY <1>6 DEF Replace, SeedDone
  <2> QED BY <1>0, <1>6, <2>1 DEF Outcome, SameLocals
<1>7. CASE Replace(t) /\ t # Starter
  <2>1. /\ req' = [u \in Threads |->
               IF u = t
               THEN [req[t] EXCEPT !.at = IF req[t].op = "delete" THEN "drop" ELSE "accepted"]
               ELSE [req[u] EXCEPT !.handle = Renamed(@)]]
        /\ UNCHANGED todo
    BY <1>7 DEF Replace
  <2> QED BY <1>0, <1>7, <2>1 DEF Outcome, Moves, SameLocals, Locals
<1>8. CASE ReplaceNothing(t)
  <2>1. req' = [req EXCEPT ![t].at = "broken"]
    BY <1>8 DEF ReplaceNothing, Goto
  <2> QED BY <1>0, <1>8, <2>1 DEF Outcome, Moves, SameLocals, Locals
<1> QED BY <1>1, <1>2, <1>3, <1>4, <1>5, <1>6, <1>7, <1>8 DEF Change

\* The outcomes of a step of a handler.
Handled(r) ==
  \/ /\ \E op \in {"adopt", "init", "delete"}, n \in Names, p \in Roots \union {None} :
          /\ Receive(r, op, n, p)
          /\ op = "delete" => p = None
          /\ req'[r].op = op /\ req'[r].name = n /\ req'[r].root = p
          /\ req'[r].at = IF op = "delete" THEN "read" ELSE "check"
  \/ CheckName(r) /\ Moves(r, "refused")
  \/ CheckName(r) /\ Moves(r, IF req[r].op = "init" THEN "scaffold" ELSE "validate")
  \/ Validate(r) /\ Acceptable(r) /\ Moves(r, "read")
  \/ Validate(r) /\ Moves(r, "refused")
  \/ CheckEmpty(r) /\ Root(r).made = "empty" /\ Moves(r, "make")
  \/ CheckEmpty(r) /\ Moves(r, "refused")
  \/ MakeLayout(r) /\ Root(r).made = "empty" /\ Moves(r, "commit")
  \/ MakeLayout(r) /\ Moves(r, "broken")
  \/ CommitLayout(r) /\ Moves(r, "read")
  \/ CommitFails(r) /\ Moves(r, "broken")
  \/ Drop(r) /\ Moves(r, "accepted")
  \/ Answer(r) /\ req'[r] = Free

LEMMA HandlerMoves ==
  ASSUME RegistryTypes, NEW r \in Requests, Request(r) \/ Handle(r)
  PROVE  /\ Handled(r) /\ r \in Threads
         /\ \A u \in Threads \ {r} : req'[u] = req[u]
         /\ UNCHANGED <<registry, tmp, phase, todo, job, overlapped>>
<1>0. req \in [Threads -> Locals] /\ r \in Threads /\ req[r] \in Locals
  BY DEF RegistryTypes, Typed, Threads
<1>1. UNCHANGED <<registry, tmp, phase, todo, job, overlapped>>
  BY DEF Request, Receive, Handle, CheckName, Validate, CheckEmpty, MakeLayout, CommitLayout,
     CommitFails, Drop, Answer, files, bounds
<1>2. CASE Request(r)
  <2>1. PICK op \in {"adopt", "init", "delete"}, n \in Names, p \in Roots \union {None} :
          Receive(r, op, n, p) /\ (op = "delete" => p = None)
    <3>1. \A o \in Offers : o[1] \in Names /\ o[2] \in Roots
      BY RegistryAssumption
    <3> QED BY <1>2, <3>1 DEF Request
  <2>2. req' = [req EXCEPT ![r] =
         [Free EXCEPT !.at = IF op = "delete" THEN "read" ELSE "check",
                      !.op = op, !.name = n, !.root = p]]
    BY <2>1 DEF Receive
  <2>3. /\ req'[r].op = op /\ req'[r].name = n /\ req'[r].root = p
        /\ req'[r].at = IF op = "delete" THEN "read" ELSE "check"
    BY <1>0, <2>2 DEF Free
  <2>4. \A u \in Threads \ {r} : req'[u] = req[u]
    BY <1>0, <2>2
  <2>5. Handled(r)
    BY <2>1, <2>3 DEF Handled
  <2> QED BY <1>0, <1>1, <2>4, <2>5
<1>3. ASSUME NEW label, Goto(r, label)
      PROVE  Moves(r, label) /\ \A u \in Threads \ {r} : req'[u] = req[u]
  <2>1. req' = [req EXCEPT ![r].at = label]
    BY <1>3 DEF Goto
  <2> QED BY <1>0, <2>1 DEF Moves, Locals
<1>4. CASE Answer(r)
  BY <1>0, <1>1, <1>4 DEF Answer, Handled
<1>5. CASE CheckName(r) \/ Validate(r) \/ CheckEmpty(r)
  BY <1>0, <1>1, <1>3, <1>5 DEF CheckName, Validate, CheckEmpty, Handled
<1>6. CASE MakeLayout(r) \/ CommitLayout(r) \/ CommitFails(r) \/ Drop(r)
  BY <1>0, <1>1, <1>3, <1>6 DEF MakeLayout, CommitLayout, CommitFails, Drop, Handled
<1> QED BY <1>2, <1>4, <1>5, <1>6 DEF Handle


LEMMA ServerInit == Init => ServerInv
<1> SUFFICES ASSUME Init PROVE ServerInv
  OBVIOUS
<1>1. /\ \A t \in Threads : req[t] = Free /\ req[t].at = "idle"
      /\ \A i \in Ingests : job[i].at = "none" /\ phase = "starting" /\ todo = DOMAIN Configured
      /\ Requests \subseteq Threads /\ Starter \in Threads
  BY DEF Init, Free, NoJob, Threads
<1>2. Readable
  BY RegistryAssumption DEF Init, Readable
<1> QED BY <1>1, <1>2 DEF ServerInv, QuietInv, AskedInv, AloneInv, SeedInv, Writing, Init

LEMMA ChangeServer ==
  ASSUME RegistryTypes, ServerInv, NEW t \in Threads, Change(t)
  PROVE  ServerInv'
<1>0. /\ Outcome(t)
      /\ \A u \in Threads \ {t} : SameLocals(u) /\ (req'[u].handle = req[u].handle \/ Replace(t))
      /\ req \in [Threads -> Locals] /\ req[t] \in Locals
  BY ChangeMoves DEF RegistryTypes, Typed
<1>1. /\ UNCHANGED job /\ Requests \subseteq Threads /\ Starter \in Threads /\ Starter \notin Requests
      /\ phase' = phase \/ (ReadGarbage(t) /\ t = Starter /\ phase' = "down")
      /\ Free.at = "idle"
  BY <1>0, RegistryAssumption
     DEF Threads, Free, Outcome, ReadToChange, ReadAndRefuse, ReadGarbage, OpenTmp, FillTmp, Replace,
         ReplaceNothing
<1>2. /\ t = Starter => phase = "starting"
      /\ t # Starter => phase = "up"
      /\ req[t].at # "idle"
  BY <1>0, <1>1
     DEF Outcome, ReadToChange, ReadAndRefuse, ReadGarbage, OpenTmp, FillTmp, Replace,
         ReplaceNothing, At, Live, ServerInv, QuietInv
<1>3. QuietInv'
  <2>1. CASE t = Starter
    <3>1. \A r \in Requests : req'[r].at = "idle"
      BY <1>0, <1>1, <1>2, <2>1 DEF ServerInv, QuietInv, SameLocals
    <3>2. phase' = "starting" \/ (phase' = "down" /\ req'[t] = Free)
      BY <1>0, <1>1, <1>2, <2>1 DEF Outcome, ReadGarbage
    <3> QED BY <1>1, <2>1, <3>1, <3>2 DEF QuietInv
  <2>2. CASE t # Starter
    <3>1. req'[Starter].at = "idle" /\ phase' = "up"
      BY <1>0, <1>1, <1>2, <2>2 DEF ServerInv, QuietInv, SameLocals
    <3> QED BY <1>1, <1>2, <2>2, <3>1 DEF ServerInv, QuietInv
  <2> QED BY <2>1, <2>2
<1>4. AskedInv'
  <2>1. ASSUME NEW r \in Requests, r # t
        PROVE  req'[r].at = req[r].at /\ req'[r].op = req[r].op
    BY <1>0, <1>1, <2>1 DEF SameLocals
  <2>2. ASSUME t \in Requests
        PROVE  /\ req'[t].op = req[t].op
               /\ req'[t].at \in {"open", "refused", "broken", "fill", "replace"}
                  \/ req'[t].at = IF req[t].op = "delete" THEN "drop" ELSE "accepted"
    BY <1>0, <1>1, <2>2 DEF Outcome, Moves
  <2> QED BY <1>2, <2>1, <2>2 DEF ServerInv, AskedInv
<1>5. /\ ~overlapped' => ~overlapped /\ (ReadToChange(t) => ~Others(t))
      /\ phase' = "starting" => t = Starter /\ phase = "starting" /\ ~Others(t)
      /\ ReadToChange(t) \/ UNCHANGED overlapped
  <2>1. (overlapped' = (overlapped \/ Others(t)) /\ ReadToChange(t)) \/ UNCHANGED overlapped
    BY <1>0 DEF Outcome, ReadToChange, ReadAndRefuse, ReadGarbage, OpenTmp, FillTmp, Replace,
       ReplaceNothing
  <2>2. phase = "starting" /\ t = Starter => ~Others(t)
    BY <1>1 DEF ServerInv, QuietInv, Others, Threads, Writing
  <2>3. ~overlapped' => ~overlapped /\ (ReadToChange(t) => ~Others(t))
    <3>1. ReadToChange(t) => overlapped' = (overlapped \/ Others(t))
      BY DEF ReadToChange
    <3> QED BY <2>1, <3>1, Zenon
  <2> QED BY <1>1, <1>2, <2>1, <2>2, <2>3, Zenon
<1>6. ASSUME ~overlapped' \/ phase' = "starting", req[t].at \in Writing PROVE Alone(t)
  BY <1>5, <1>6 DEF ServerInv, AloneInv
<1>7. AloneInv'
  <2> SUFFICES ASSUME ~overlapped' \/ phase' = "starting", NEW u \in Threads, req'[u].at \in Writing
               PROVE  Alone(u)'
    BY DEF AloneInv
  <2>1. CASE ReadToChange(t)
    <3>1. ~Others(t) /\ UNCHANGED <<registry, tmp>> /\ Readable /\ Allowed(t)
      BY <1>5, <2>1 DEF ReadToChange, files
    <3>2. \A w \in Threads : req'[w].at \in Writing => w = t
      BY <1>0, <3>1 DEF Others, SameLocals
    <3>3. Moves(t, "open") /\ req'[t].map = Changed(t)
      BY <1>0, <2>1 DEF Outcome, ReadToChange, ReadAndRefuse, ReadGarbage, OpenTmp, FillTmp, Replace,
         ReplaceNothing, At
    <3>4. Alone(t)'
      BY <3>1, <3>2, <3>3 DEF Alone, Moves, Readable, Allowed, Changed, Registered
    <3> QED BY <3>2, <3>4
  <2>2. CASE ReadAndRefuse(t) \/ ReadGarbage(t)
    <3>1. UNCHANGED <<registry, tmp>> /\ req'[t].at \notin Writing /\ req[t].at \notin Writing
      BY <1>0, <1>1, <2>2
         DEF Outcome, ReadToChange, ReadAndRefuse, ReadGarbage, OpenTmp, FillTmp, Replace,
             ReplaceNothing, At, Moves, Writing, files
    <3>2. u # t /\ req[u].at \in Writing /\ SameLocals(u) /\ req'[u].handle = req[u].handle
      BY <1>0, <2>2, <3>1 DEF SameLocals, ReadAndRefuse, ReadGarbage, Replace, At
    <3>3. Alone(u)
      BY <1>5, <3>2 DEF ServerInv, AloneInv
    <3>4. \A w \in Threads : req'[w].at \in Writing => w = u
      BY <1>0, <3>1, <3>3 DEF Alone, SameLocals
    <3> QED BY <3>1, <3>2, <3>3, <3>4 DEF Alone, SameLocals, Readable, Allowed, Changed, Registered
  <2>3. CASE OpenTmp(t) \/ FillTmp(t) \/ Replace(t) \/ ReplaceNothing(t)
    <3>1. req[t].at \in Writing
      BY <2>3 DEF OpenTmp, FillTmp, Replace, ReplaceNothing, At, Writing
    <3>2. Alone(t)
      BY <1>6, <3>1
    <3>3. \A w \in Threads : req'[w].at \in Writing => w = t
      BY <1>0, <3>2 DEF Alone, SameLocals
    <3>4. CASE OpenTmp(t)
      <4>1. /\ UNCHANGED registry /\ tmp' = Unreadable
            /\ Moves(t, "fill") /\ req'[t].map = req[t].map /\ req'[t].handle = "tmp"
        BY <1>0, <3>4 DEF Outcome, ReadToChange, ReadAndRefuse, ReadGarbage, OpenTmp, FillTmp,
           Replace, ReplaceNothing, At
      <4> QED BY <3>2, <3>3, <4>1 DEF Alone, Moves, Readable, Allowed, Changed, Registered
    <3>5. CASE FillTmp(t)
      <4>1. Moves(t, "replace") /\ req'[t].map = req[t].map /\ req[t].at = "fill"
        BY <1>0, <3>5 DEF Outcome, ReadToChange, ReadAndRefuse, ReadGarbage, OpenTmp, FillTmp,
           Replace, ReplaceNothing, At
      <4>2. tmp' = req[t].map /\ UNCHANGED registry
        BY <3>2, <3>5, <4>1, RegistryAssumption DEF Alone, FillTmp, Filled, Maps
      <4> QED BY <3>2, <3>3, <4>1, <4>2 DEF Alone, Moves, Readable, Allowed, Changed, Registered
    <3>6. CASE Replace(t) \/ ReplaceNothing(t)
      <4>1. req'[t].at \notin Writing
        BY <1>0, <1>1, <3>6 DEF Outcome, ReadToChange, ReadAndRefuse, ReadGarbage, OpenTmp, FillTmp,
           Replace, ReplaceNothing, At, Moves, Writing
      <4> QED BY <3>3, <4>1
    <3> QED BY <2>3, <3>3, <3>4, <3>5, <3>6
  <2> QED BY <2>1, <2>2, <2>3 DEF Change
<1>8. ASSUME t = Starter, req'[t].at # "idle"
      PROVE  /\ req'[t].at \in Writing /\ req'[t].op = req[t].op /\ req'[t].name = req[t].name
             /\ req'[t].root = req[t].root /\ UNCHANGED <<todo, phase>>
  <2>1. ~ReplaceNothing(t)
    <3> SUFFICES ASSUME ReplaceNothing(t) PROVE FALSE
      OBVIOUS
    <3>1. req[t].at = "replace" /\ tmp = NoFile /\ phase = "starting"
      BY <1>2, <1>8 DEF ReplaceNothing, At
    <3>2. tmp = req[t].map
      BY <3>1 DEF ServerInv, AloneInv, Alone, Writing
    <3> QED BY <1>0, <3>1, <3>2, RegistryAssumption DEF Locals, Maps
  <2>2. \/ ReadToChange(t) /\ Moves(t, "open")
        \/ OpenTmp(t) /\ Moves(t, "fill")
        \/ FillTmp(t) /\ Moves(t, "replace")
    <3>1. req'[t] # Free /\ ~(t # Starter)
      BY <1>1, <1>8
    <3> QED BY <1>0, <2>1, <3>1 DEF Outcome
  <2> QED BY <2>2 DEF ReadToChange, OpenTmp, FillTmp, Moves, Writing
<1>9. ASSUME t # Starter PROVE SameLocals(Starter) /\ UNCHANGED <<todo, phase>>
  BY <1>0, <1>1, <1>9 DEF Outcome, ReadToChange, ReadAndRefuse, ReadGarbage, OpenTmp, FillTmp,
     Replace, ReplaceNothing
<1>10. req'[Starter].at # "idle" =>
         /\ req'[Starter].at \in {"read"} \union Writing /\ req'[Starter].op = "seed"
         /\ req'[Starter].name \in todo'
         /\ req'[Starter].root = Configured[req'[Starter].name]
  <2>1. CASE t = Starter
    BY <1>2, <1>8, <2>1 DEF ServerInv, SeedInv
  <2>2. CASE t # Starter
    BY <1>9, <2>2 DEF ServerInv, SeedInv, SameLocals
  <2> QED BY <2>1, <2>2
<1>11. (~overlapped' => Readable') /\ (registry' = registry \/ Replace(t) \/ ~Alone(t))
  <2>1. CASE Replace(t)
    <3>1. ~overlapped' => registry' = req[t].map
      BY <1>5, <1>6, <2>1 DEF Replace, At, Alone, Writing
    <3> QED BY <1>0, <2>1, <3>1, RegistryAssumption DEF Readable, Locals, Maps
  <2>2. CASE ~Replace(t)
    <3>1. registry' = registry \/ ~Alone(t)
      BY <1>0, <2>2 DEF Outcome, ReadToChange, ReadAndRefuse, ReadGarbage, OpenTmp, FillTmp,
         ReplaceNothing, files, Alone, At
    <3>2. registry' = registry \/ req[t].at \in Writing
      BY <1>0, <2>2 DEF Outcome, ReadToChange, ReadAndRefuse, ReadGarbage, OpenTmp, FillTmp,
         ReplaceNothing, files, At, Writing
    <3> QED BY <1>5, <1>6, <3>1, <3>2 DEF ServerInv, Readable
  <2> QED BY <2>1, <2>2
<1>12. ASSUME phase' \in {"starting", "recovering"}, Readable', NEW n \in DOMAIN Configured \ todo'
       PROVE  Registered'[n] # None
  <2>0. t = Starter /\ phase = "starting" /\ phase' = "starting" /\ n \in Names
    BY <1>1, <1>2, <1>12, RegistryAssumption
  <2>1. CASE Replace(t)
    <3>1. Alone(t) /\ registry' = req[t].map /\ req[t].map = Changed(t)
          /\ todo' = todo \ {req[t].name} /\ req[t].name \in todo
      BY <1>0, <1>6, <2>0, <2>1 DEF Replace, At, Alone, Writing, SeedDone, ServerInv, SeedInv
    <3>2. registry' # NoFile /\ Registered' = Changed(t)
      BY <1>0, <3>1, RegistryAssumption DEF Registered, Locals, Maps
    <3>3. Registered \in Maps /\ Readable
      BY <3>1, RegistryReads DEF Alone
    <3>4. CASE n = req[t].name
      <4>1. req[t].op = "seed" /\ req[t].root = Configured[n]
        BY <1>2, <2>0, <3>4 DEF ServerInv, SeedInv
      <4>2. Configured[n] # None
        BY RegistryAssumption
      <4> QED BY <2>0, <3>2, <3>3, <3>4, <4>1, <4>2 DEF Changed, Maps
    <3>5. CASE n # req[t].name
      <4>1. Registered[n] # None
        BY <1>12, <2>0, <3>1, <3>3, <3>5 DEF ServerInv, SeedInv
      <4> QED BY <2>0, <3>2, <3>3, <3>5, <4>1 DEF Changed, Maps
    <3> QED BY <3>4, <3>5
  <2>2. CASE ~Replace(t)
    <3>1. registry' = registry
      <4>1. req[t].at \in Writing => Alone(t)
        BY <1>6, <2>0
      <4> QED BY <1>0, <1>11, <2>2, <4>1 DEF Outcome, ReadToChange, ReadAndRefuse, ReadGarbage,
             OpenTmp, FillTmp, ReplaceNothing, files, At, Writing
    <3>2. Registered' = Registered /\ Readable
      BY <1>12, <3>1 DEF Registered, Readable
    <3>3. \A m \in DOMAIN Configured \ todo : Registered[m] # None
      BY <2>0, <3>2 DEF ServerInv, SeedInv
    <3>4. CASE ReadAndRefuse(t)
      <4>1. todo' = todo \ {req[t].name} /\ ~Allowed(t) /\ req[t].at = "read"
        BY <2>0, <3>4 DEF ReadAndRefuse, SeedDone, At
      <4>2. Registered[req[t].name] # None
        BY <1>2, <2>0, <4>1 DEF Allowed, ServerInv, SeedInv
      <4> QED BY <3>2, <3>3, <4>1, <4>2, <1>12
    <3>5. CASE ~ReadAndRefuse(t)
      <4>1. UNCHANGED todo
        BY <1>0, <2>0, <2>2, <3>2, <3>5 DEF Outcome, ReadToChange, ReadGarbage,
             OpenTmp, FillTmp, ReplaceNothing
      <4> QED BY <1>12, <3>2, <3>3, <4>1
    <3> QED BY <3>4, <3>5
  <2> QED BY <2>1, <2>2
<1>13. SeedInv'
  <2>1. phase' # "recovering"
    BY <1>1, <1>2
  <2> QED BY <1>10, <1>12, <2>1 DEF SeedInv
<1> QED BY <1>3, <1>4, <1>7, <1>11, <1>13 DEF ServerInv

LEMMA HandlerServer ==
  ASSUME RegistryTypes, ServerInv, NEW r \in Requests, Request(r) \/ Handle(r)
  PROVE  ServerInv'
<1>0. /\ Handled(r) /\ r \in Threads /\ r # Starter /\ Starter \in Threads
      /\ \A u \in Threads \ {r} : req'[u] = req[u]
      /\ UNCHANGED <<registry, tmp, phase, todo, job, overlapped>>
      /\ Free.at = "idle"
  BY HandlerMoves, RegistryAssumption DEF Threads, Free
<1>1. phase = "up" /\ req[r].at \notin Writing /\ req'[r].at \notin Writing
  BY <1>0 DEF Handled, Receive, CheckName, Validate, CheckEmpty, MakeLayout, CommitLayout,
     CommitFails, Drop, Answer, At, Live, Moves, Writing
<1>2. QuietInv'
  BY <1>0, <1>1 DEF ServerInv, QuietInv
<1>3. AskedInv'
  <2>1. ASSUME NEW u \in Requests, u # r PROVE req'[u] = req[u]
    BY <1>0, <2>1 DEF Threads
  <2>2. /\ req'[r].at # "idle" => req'[r].op \in {"adopt", "init", "delete"}
        /\ req'[r].at \in {"check", "validate", "scaffold", "make", "commit"} => req'[r].op # "delete"
        /\ req'[r].at # "drop"
    BY <1>0 DEF Handled, Receive, CheckName, Validate, CheckEmpty, MakeLayout, CommitLayout,
       CommitFails, Drop, Answer, At, Moves, ServerInv, AskedInv
  <2> QED BY <2>1, <2>2 DEF ServerInv, AskedInv
<1>4. AloneInv'
  <2> SUFFICES ASSUME ~overlapped', NEW u \in Threads, req'[u].at \in Writing PROVE Alone(u)'
    BY <1>0, <1>1 DEF AloneInv
  <2>1. u # r /\ req'[u] = req[u] /\ Alone(u)
    BY <1>0, <1>1 DEF ServerInv, AloneInv
  <2>2. \A w \in Threads : req'[w].at \in Writing => w = u
    BY <1>0, <1>1, <2>1 DEF Alone
  <2> QED BY <1>0, <2>1, <2>2 DEF Alone, Readable, Allowed, Changed, Registered
<1>5. SeedInv' /\ (~overlapped' => Readable')
  BY <1>0, <1>1 DEF ServerInv, SeedInv, Readable, Registered
<1> QED BY <1>2, <1>3, <1>4, <1>5 DEF ServerInv

LEMMA IngestServer ==
  ASSUME RegistryTypes, ServerInv, NEW i \in Ingests, Ingest(i)
  PROVE  ServerInv'
<1>0. /\ UNCHANGED <<registry, tmp, req, phase, todo, overlapped>> /\ phase = "up"
      /\ job \in [Ingests -> Records]
  BY DEF Ingest, Submit, Start, Fail, Commit, ReadIndex, WriteIndex, files, bounds, RegistryTypes,
     Typed
<1>1. \A k \in Ingests : job'[k].at # "interrupted"
  <2>1. \/ \E label \in {"failed", "duplicate", "writing", "committed"} :
             job' = [job EXCEPT ![i].at = label]
        \/ job' = [job EXCEPT ![i].at = "done", ![i].read = NoEntries]
        \/ job' = [job EXCEPT ![i].at = "putting", ![i].read = index[job[i].name]]
        \/ \E n \in Names, x \in Texts :
             job' = [job EXCEPT ![i] = [NoJob EXCEPT !.at = "queued", !.name = n,
                                                     !.root = Registered[n], !.text = x]]
    BY DEF Ingest, Submit, Start, Fail, Commit, ReadIndex, WriteIndex
  <2>2. \E label \in {"failed", "duplicate", "writing", "committed", "done", "putting", "queued"} :
          job'[i].at = label
    BY <1>0, <2>1 DEF Records, NoJob
  <2>3. \A k \in Ingests : k # i => job'[k] = job[k]
    BY <1>0, <2>1
  <2> QED BY <1>0, <2>2, <2>3 DEF ServerInv, QuietInv
<1> QED BY <1>0, <1>1 DEF ServerInv, QuietInv, AskedInv, AloneInv, Alone, SeedInv, Readable, Allowed,
     Changed, Registered

LEMMA StartServer ==
  ASSUME RegistryTypes, ServerInv, Crash \/ StartUp
  PROVE  ServerInv'
<1> USE DEF files, bounds
<1>0. /\ Starter \in Threads /\ Requests \subseteq Threads /\ Starter \notin Requests
      /\ Free.at = "idle" /\ req \in [Threads -> Locals] /\ "idle" \notin Writing
  BY RegistryAssumption DEF Threads, Free, RegistryTypes, Typed, Writing
<1>1. CASE Crash
  <2>1. (\A t \in Threads : req'[t] = Free) /\ phase' = "down" /\ UNCHANGED <<registry, overlapped>>
    BY <1>1 DEF Crash
  <2> QED BY <1>0, <2>1 DEF ServerInv, QuietInv, AskedInv, AloneInv, SeedInv, Readable
<1>2. CASE Restart
  <2>1. (\A t \in Threads : req[t].at = "idle") /\ UNCHANGED <<registry, req, overlapped>>
        /\ phase' = "starting" /\ todo' = DOMAIN Configured
    BY <1>0, <1>2 DEF Restart, ServerInv, QuietInv, Threads
  <2> QED BY <1>0, <2>1 DEF ServerInv, QuietInv, AskedInv, AloneInv, SeedInv, Readable
<1>3. ASSUME NEW n \in DOMAIN Configured, SeedNext(n) PROVE ServerInv'
  <2>1. /\ phase = "starting" /\ n \in todo
        /\ UNCHANGED <<registry, tmp, phase, todo, job, overlapped>>
        /\ req' = [req EXCEPT ![Starter] =
             [Free EXCEPT !.at = "read", !.op = "seed", !.name = n, !.root = Configured[n]]]
    BY <1>3 DEF SeedNext
  <2>2. /\ req'[Starter].at = "read" /\ req'[Starter].op = "seed" /\ req'[Starter].name = n
        /\ req'[Starter].root = Configured[n]
        /\ \A r \in Requests : req'[r] = req[r] /\ req'[r].at = "idle"
    BY <1>0, <2>1 DEF Free, ServerInv, QuietInv
  <2>3. \A t \in Threads : req'[t].at \notin Writing
    BY <2>2 DEF Threads, Writing
  <2> QED BY <1>0, <2>1, <2>2, <2>3
       DEF ServerInv, QuietInv, AskedInv, AloneInv, SeedInv, Readable, Registered
<1>4. CASE Seeded
  <2>1. /\ phase = "starting" /\ todo = {} /\ phase' = "recovering"
        /\ UNCHANGED <<registry, req, todo, overlapped>>
    BY <1>4 DEF Seeded
  <2>2. \A t \in Threads : req[t].at = "idle"
    BY <1>0, <2>1 DEF ServerInv, QuietInv, SeedInv, Threads
  <2> QED BY <1>0, <2>1, <2>2
       DEF ServerInv, QuietInv, AskedInv, AloneInv, SeedInv, Readable, Registered
<1>5. CASE Serve \/ \E i \in Ingests : Recover(i)
  <2>1. /\ phase = "recovering" /\ phase' \in {"recovering", "down", "up"}
        /\ UNCHANGED <<registry, req, todo, overlapped>>
        /\ phase' = "up" => \A i \in Ingests : job'[i].at # "interrupted"
    BY <1>5 DEF Serve, Recover
  <2>2. \A t \in Threads : req[t].at = "idle"
    BY <1>0, <2>1 DEF ServerInv, QuietInv, Threads
  <2> QED BY <1>0, <2>1, <2>2
       DEF ServerInv, QuietInv, AskedInv, AloneInv, SeedInv, Readable, Registered
<1> QED BY <1>1, <1>2, <1>3, <1>4, <1>5 DEF StartUp

LEMMA ServerKept == RegistryTypes /\ ServerInv /\ [Next]_vars => ServerInv'
<1>1. ServerInv /\ UNCHANGED vars => ServerInv'
  BY DEF vars, files, bounds, ServerInv, QuietInv, AskedInv, AloneInv, Alone, SeedInv, Readable,
     Allowed, Changed, Registered
<1> QED BY <1>1, ChangeServer, HandlerServer, IngestServer, StartServer DEF Next

LEMMA ServerAlways == Spec => []ServerInv
BY TypesInit, TypesStep, ServerInit, ServerKept, PTL DEF Spec


-------------------------------------------------------------------------------
(* The registry implements the map it promises to be.                          *)

Calls == [r \in Requests |-> Called(r)]

StatusAt(at) ==
  IF at \in {"idle", "accepted", "refused", "broken"} THEN at
  ELSE IF at = "drop" THEN "applied" ELSE "asked"

\* What the caller sees of a step of one request.
LEMMA CallMoves ==
  ASSUME NEW r \in Requests, NEW label, Moves(r, label),
         \A u \in Requests \ {r} : SameLocals(u)
  PROVE  /\ Calls' = [Calls EXCEPT ![r].status = StatusAt(label)]
         /\ StatusAt(label) = StatusAt(req[r].at) => Calls' = Calls
<1>1. \A u \in Requests \ {r} : Called(u)' = Called(u)
  BY DEF SameLocals, Called
<1>2. Called(r)' = [Called(r) EXCEPT !.status = StatusAt(label)]
  BY DEF Moves, Called, StatusAt
<1>3. StatusAt(label) = StatusAt(req[r].at) => Called(r)' = Called(r)
  BY DEF Moves, Called, StatusAt
<1> QED BY <1>1, <1>2, <1>3 DEF Calls

LEMMA CallsStand ==
  ASSUME \A u \in Requests : SameLocals(u)
  PROVE  Calls' = Calls
BY DEF SameLocals, Called, Calls

LEMMA MapInit == Init => Map!Init
<1> SUFFICES ASSUME Init PROVE Map!Init
  OBVIOUS
<1>1. Registered = Known
  BY RegistryAssumption DEF Init, Registered, EmptyMap
<1>2. \A r \in Requests : Called(r).status = "idle"
  BY DEF Init, Called, Free, Threads
<1> QED BY <1>1, <1>2 DEF Init, Map!Init

\* A change that no other overlaps takes effect when it replaces the file.
LEMMA MapChange ==
  ASSUME RegistryTypes, ServerInv, ServerInv', ~overlapped, ~overlapped', NEW t \in Threads, Change(t)
  PROVE  \/ UNCHANGED <<Registered, Calls>>
         \/ \E r \in Requests : Map!Apply(r) \/ Map!Refuse(r)
         \/ \E n \in DOMAIN Configured : Map!Seed(n)
<1>0. /\ Outcome(t)
      /\ \A u \in Threads \ {t} : SameLocals(u)
      /\ req[t] \in Locals /\ Readable /\ Registered \in Maps
      /\ req[t].at # "idle" => req[t].name \in Names
      /\ Requests \subseteq Threads /\ Starter \notin Requests
      /\ t # Starter => t \in Requests
  BY ChangeMoves, RegistryReads, RegistryAssumption
     DEF RegistryTypes, Typed, Busy, Threads, ServerInv
<1>a. /\ ~ReadGarbage(t)
      /\ req[t].at \in Writing => Alone(t)
  BY <1>0 DEF ReadGarbage, ServerInv, AloneInv
<1>b. ~ReplaceNothing(t)
  <2> SUFFICES ASSUME ReplaceNothing(t) PROVE FALSE
    OBVIOUS
  <2>1. tmp = NoFile /\ tmp = req[t].map
    BY <1>a DEF ReplaceNothing, At, Writing, Alone
  <2> QED BY <1>0, <2>1, RegistryAssumption DEF Locals, Maps
<1>1. ASSUME UNCHANGED registry PROVE Registered' = Registered
  BY <1>1 DEF Registered
<1>2. CASE ReadToChange(t) \/ OpenTmp(t) \/ FillTmp(t)
  <2>1. UNCHANGED registry
    <3>1. CASE FillTmp(t)
      <4>1. req[t].handle = "tmp"
        BY <1>a, <3>1 DEF FillTmp, At, Writing, Alone
      <4> QED BY <3>1, <4>1 DEF FillTmp
    <3> QED BY <1>2, <3>1 DEF ReadToChange, OpenTmp, files
  <2>2. Calls' = Calls
    <3>1. CASE t = Starter
      BY <1>0, <3>1, CallsStand
    <3>2. CASE t # Starter
      <4>1. \E label \in {"open", "fill", "replace"} : Moves(t, label)
        BY <1>0, <1>2 DEF Outcome, ReadToChange, ReadAndRefuse, ReadGarbage, OpenTmp, FillTmp,
           Replace, ReplaceNothing, At
      <4>2. req[t].at \in {"read", "open", "fill"}
        BY <1>2 DEF ReadToChange, OpenTmp, FillTmp, At
      <4>3. \A label \in {"open", "fill", "replace"} : StatusAt(label) = StatusAt(req[t].at)
        BY <4>2 DEF StatusAt
      <4> QED BY <1>0, <3>2, <4>1, <4>3, CallMoves
    <3> QED BY <3>1, <3>2
  <2> QED BY <1>1, <2>1, <2>2
<1>3. CASE ReadAndRefuse(t)
  <2>0. UNCHANGED registry /\ ~Allowed(t) /\ req[t].at = "read"
    BY <1>3 DEF ReadAndRefuse, At, files
  <2>1. CASE t = Starter
    BY <1>0, <1>1, <2>0, <2>1, CallsStand
  <2>2. CASE t # Starter
    <3>1. Moves(t, "refused")
      BY <1>0, <1>3, <2>2 DEF Outcome, ReadToChange, ReadAndRefuse, ReadGarbage, OpenTmp, FillTmp,
         Replace, ReplaceNothing, At
    <3>2. Calls' = [Calls EXCEPT ![t].status = "refused"]
      <4>1. StatusAt("refused") = "refused"
        BY DEF StatusAt
      <4> QED BY <1>0, <2>2, <3>1, <4>1, CallMoves
    <3>3. /\ Calls[t].status = "asked"
          /\ Calls[t].op = "delete" => Registered[Calls[t].name] = None
      BY <1>0, <2>0, <2>2 DEF Calls, Called, Allowed
    <3>4. Map!Refuse(t)
      BY <1>1, <2>0, <3>2, <3>3 DEF Map!Refuse, Map!Status, Calls
    <3> QED BY <1>0, <2>2, <3>4
  <2> QED BY <2>1, <2>2
<1>4. CASE Replace(t)
  <2>0. /\ registry' = req[t].map /\ req[t].map = Changed(t) /\ Allowed(t) /\ req[t].at = "replace"
    BY <1>4, <1>a DEF Replace, At, Writing, Alone
  <2>1. Registered' = Changed(t)
    BY <1>0, <2>0, RegistryAssumption DEF Registered, Locals, Maps
  <2>2. CASE t = Starter
    <3>1. /\ req[t].op = "seed" /\ req[t].name \in DOMAIN Configured
          /\ req[t].root = Configured[req[t].name]
      BY <2>0, <2>2 DEF ServerInv, SeedInv, RegistryTypes, Typed
    <3>2. Calls' = Calls
      BY <1>0, <2>2, CallsStand
    <3>3. Map!Seed(req[t].name)
      BY <2>0, <2>1, <3>1, <3>2 DEF Map!Seed, Calls, Changed, Allowed
    <3> QED BY <3>1, <3>3
  <2>3. CASE t # Starter
    <3> DEFINE label == IF req[t].op = "delete" THEN "drop" ELSE "accepted"
    <3>1. Moves(t, label)
      BY <1>0, <1>4, <2>3 DEF Outcome, ReadToChange, ReadAndRefuse, ReadGarbage, OpenTmp, FillTmp,
         Replace, ReplaceNothing, At
    <3>2. StatusAt(label) \in {"applied", "accepted"}
      BY DEF StatusAt
    <3> HIDE DEF label
    <3>3. Calls' = [Calls EXCEPT ![t].status = StatusAt(label)]
      BY <1>0, <2>3, <3>1, CallMoves
    <3>4. /\ Calls[t].status = "asked" /\ Calls[t].name = req[t].name
          /\ (Calls[t].op = "adopt") <=> (req[t].op # "delete")
          /\ Calls[t].root = req[t].root /\ (req[t].op = "delete" => req[t].root = None)
      BY <1>0, <2>0, <2>3 DEF Calls, Called, ServerInv, AskedInv, RegistryTypes, Busy
    <3>5. Registered' = [Registered EXCEPT ![Calls[t].name] = Calls[t].root]
      BY <2>1, <3>4 DEF Changed
    <3>6. Map!Apply(t)
      BY <2>0, <3>2, <3>3, <3>4, <3>5 DEF Map!Apply, Map!Status, Calls, Allowed
    <3> QED BY <1>0, <2>3, <3>6
  <2> QED BY <2>2, <2>3
<1> QED BY <1>a, <1>b, <1>2, <1>3, <1>4 DEF Change


LEMMA MapHandler ==
  ASSUME RegistryTypes, ServerInv, NEW r \in Requests, Request(r) \/ Handle(r)
  PROVE  /\ UNCHANGED Registered
         /\ \/ UNCHANGED Calls
            \/ Map!Ask(r) \/ Map!Accept(r) \/ Map!Refuse(r) \/ Map!Break(r) \/ Map!Return(r)
<1>0. /\ Handled(r) /\ \A u \in Requests \ {r} : SameLocals(u)
      /\ UNCHANGED registry
  BY HandlerMoves DEF Threads, SameLocals
<1>1. Registered' = Registered
  BY <1>0 DEF Registered
<1>a. /\ Calls[r].status = StatusAt(req[r].at)
      /\ Calls[r].op = IF req[r].op = "init" THEN "adopt" ELSE req[r].op
  BY DEF Calls, Called, StatusAt
<1>b. ASSUME NEW op, NEW n, NEW p, Receive(r, op, n, p) PROVE req[r].at = "idle"
  BY <1>b DEF Receive
<1>2. CASE \E op \in {"adopt", "init", "delete"}, n \in Names, p \in Roots \union {None} :
             /\ req[r].at = "idle"
             /\ op = "delete" => p = None
             /\ req'[r].op = op /\ req'[r].name = n /\ req'[r].root = p
             /\ req'[r].at = IF op = "delete" THEN "read" ELSE "check"
  <2>1. PICK op \in {"adopt", "init", "delete"}, n \in Names, p \in Roots \union {None} :
             /\ req[r].at = "idle"
             /\ req'[r].op = op /\ req'[r].name = n /\ req'[r].root = p
             /\ req'[r].at = IF op = "delete" THEN "read" ELSE "check"
    BY <1>2
  <2> DEFINE kind == IF op = "init" THEN "adopt" ELSE op
  <2>2. Called(r)' = [status |-> "asked", op |-> kind, name |-> n, root |-> p]
    BY <2>1 DEF Called
  <2>3. \A u \in Requests \ {r} : Called(u)' = Called(u)
    BY <1>0 DEF SameLocals, Called
  <2>4. kind \in {"adopt", "delete"}
    OBVIOUS
  <2> HIDE DEF kind
  <2>5. Calls' = [Calls EXCEPT ![r] = [status |-> "asked", op |-> kind, name |-> n, root |-> p]]
    BY <2>2, <2>3 DEF Calls
  <2>6. Calls[r].status = "idle"
    BY <1>a, <2>1 DEF StatusAt
  <2>7. Map!Ask(r)
    BY <1>1, <2>4, <2>5, <2>6 DEF Map!Ask, Calls
  <2> QED BY <1>1, <2>7
<1>3. ASSUME NEW label \in {"scaffold", "validate", "read", "make", "commit"}, Moves(r, label),
             req[r].at \in {"check", "validate", "scaffold", "make", "commit"}
      PROVE  UNCHANGED Calls
  <2>1. StatusAt(label) = StatusAt(req[r].at)
    BY <1>3 DEF StatusAt
  <2> QED BY <1>0, <1>3, <2>1, CallMoves
<1>4. ASSUME Moves(r, "refused"), req[r].at \in {"check", "validate", "scaffold"}
      PROVE  Map!Refuse(r)
  <2>1. Calls' = [Calls EXCEPT ![r].status = "refused"]
    <3>1. StatusAt("refused") = "refused"
      BY DEF StatusAt
    <3> QED BY <1>0, <1>4, <3>1, CallMoves
  <2>2. Calls[r].status = "asked" /\ Calls[r].op # "delete"
    BY <1>4, <1>a DEF StatusAt, ServerInv, AskedInv
  <2> QED BY <1>1, <2>1, <2>2 DEF Map!Refuse, Map!Status, Calls
<1>5. ASSUME Moves(r, "broken"), req[r].at \in {"make", "commit"}
      PROVE  Map!Break(r)
  <2>1. Calls' = [Calls EXCEPT ![r].status = "broken"]
    <3>1. StatusAt("broken") = "broken"
      BY DEF StatusAt
    <3> QED BY <1>0, <1>5, <3>1, CallMoves
  <2>2. Calls[r].status = "asked" /\ Calls[r].op = "adopt"
    BY <1>5, <1>a DEF StatusAt, ServerInv, AskedInv
  <2> QED BY <1>1, <2>1, <2>2 DEF Map!Break, Map!Status, Calls
<1>6. ASSUME Moves(r, "accepted"), req[r].at = "drop" PROVE Map!Accept(r)
  <2>1. Calls' = [Calls EXCEPT ![r].status = "accepted"]
    <3>1. StatusAt("accepted") = "accepted"
      BY DEF StatusAt
    <3> QED BY <1>0, <1>6, <3>1, CallMoves
  <2>2. Calls[r].status = "applied"
    BY <1>6, <1>a DEF StatusAt
  <2> QED BY <1>1, <2>1, <2>2 DEF Map!Accept, Map!Status, Calls
<1>7. ASSUME req'[r] = Free, req[r].at \in {"accepted", "refused", "broken"} PROVE Map!Return(r)
  <2>1. Called(r)' = [status |-> "idle", op |-> "none", name |-> None, root |-> None]
    BY <1>7 DEF Called, Free
  <2>2. \A u \in Requests \ {r} : Called(u)' = Called(u)
    BY <1>0 DEF SameLocals, Called
  <2>3. Calls' = [Calls EXCEPT ![r] = [status |-> "idle", op |-> "none", name |-> None, root |-> None]]
    BY <2>1, <2>2 DEF Calls
  <2>4. Calls[r].status \in {"accepted", "refused", "broken"}
    BY <1>7, <1>a DEF StatusAt
  <2> QED BY <1>1, <2>3, <2>4 DEF Map!Return, Calls
<1>8. CASE \E op \in {"adopt", "init", "delete"}, n \in Names, p \in Roots \union {None} :
             Receive(r, op, n, p) /\ Handled(r)
  <2>1. req[r].at = "idle"
    BY <1>8, <1>b
  <2> QED BY <1>0, <1>1, <1>2, <2>1
       DEF Handled, CheckName, Validate, CheckEmpty, MakeLayout, CommitLayout, CommitFails, Drop,
           Answer, At
<1>9. CASE CheckName(r)
  <2>1. Moves(r, "refused") \/ Moves(r, "scaffold") \/ Moves(r, "validate")
    BY <1>0, <1>9 DEF Handled, Receive, CheckName, Validate, CheckEmpty, MakeLayout, CommitLayout,
       CommitFails, Drop, Answer, At
  <2> QED BY <1>1, <1>3, <1>4, <1>9, <2>1 DEF CheckName, At
<1>10. CASE Validate(r) \/ CheckEmpty(r)
  <2>1. Moves(r, "refused") \/ Moves(r, "read") \/ Moves(r, "make")
    BY <1>0, <1>10 DEF Handled, Receive, CheckName, Validate, CheckEmpty, MakeLayout, CommitLayout,
       CommitFails, Drop, Answer, At
  <2> QED BY <1>1, <1>3, <1>4, <1>10, <2>1 DEF Validate, CheckEmpty, At
<1>11. CASE MakeLayout(r) \/ CommitLayout(r) \/ CommitFails(r)
  <2>1. Moves(r, "commit") \/ Moves(r, "read") \/ Moves(r, "broken")
    BY <1>0, <1>11 DEF Handled, Receive, CheckName, Validate, CheckEmpty, MakeLayout, CommitLayout,
       CommitFails, Drop, Answer, At
  <2> QED BY <1>1, <1>3, <1>5, <1>11, <2>1 DEF MakeLayout, CommitLayout, CommitFails, At
<1>12. CASE Drop(r)
  <2>1. Moves(r, "accepted")
    BY <1>0, <1>12 DEF Handled, Receive, CheckName, Validate, CheckEmpty, MakeLayout, CommitLayout,
       CommitFails, Drop, Answer, At
  <2> QED BY <1>1, <1>6, <1>12, <2>1 DEF Drop, At
<1>13. CASE Answer(r)
  <2>1. req'[r] = Free
    BY <1>0, <1>13 DEF Handled, Receive, CheckName, Validate, CheckEmpty, MakeLayout, CommitLayout,
       CommitFails, Drop, Answer, At
  <2> QED BY <1>1, <1>7, <1>13, <2>1 DEF Answer, At
<1> QED BY <1>0, <1>8, <1>9, <1>10, <1>11, <1>12, <1>13 DEF Handled

LEMMA MapStep ==
  ASSUME RegistryTypes, RegistryTypes', ServerInv, ServerInv', [Next]_vars
  PROVE  [Map!Next]_(Map!vars)
<1> USE DEF files, bounds
<1> DEFINE Promised ==
         \/ UNCHANGED <<Registered, Calls>>
         \/ (\E r \in Requests :
               \/ Map!Ask(r) \/ Map!Apply(r) \/ Map!Accept(r) \/ Map!Refuse(r) \/ Map!Break(r)
               \/ Map!Return(r))
         \/ (\E n \in DOMAIN Configured : Map!Seed(n))
         \/ Map!Crash
<1>1. overlapped' \in BOOLEAN /\ overlapped \in BOOLEAN
  BY DEF RegistryTypes, Typed
<1>2. CASE overlapped'
  BY <1>2 DEF Map!Next
<1>3. CASE ~overlapped'
  <2>1. ~overlapped
    <3>1. ASSUME NEW t \in Threads, ReadToChange(t) PROVE overlapped' = (overlapped \/ Others(t))
      BY <3>1 DEF ReadToChange
    <3>2. (\E t \in Threads : ReadToChange(t)) \/ UNCHANGED overlapped
      BY DEF Next, Change, ReadAndRefuse, ReadGarbage, OpenTmp, FillTmp, Replace, ReplaceNothing,
         Request, Receive, Handle, CheckName, Validate, CheckEmpty, MakeLayout, CommitLayout,
         CommitFails, Drop, Answer, Ingest, Submit, Start, Fail, Commit, ReadIndex, WriteIndex,
         Crash, StartUp, Restart, SeedNext, Seeded, Recover, Serve, vars
    <3> QED BY <1>3, <3>1, <3>2, Zenon
  <2>2. Promised
    <3>1. ASSUME NEW t \in Threads, Change(t) PROVE Promised
      BY <1>3, <2>1, <3>1, MapChange
    <3>2. ASSUME NEW r \in Requests, Request(r) \/ Handle(r) PROVE Promised
      BY <3>2, MapHandler
    <3>3. ASSUME UNCHANGED <<registry, req>> PROVE Promised
      <4>1. Calls' = Calls
        BY <3>3, CallsStand DEF SameLocals
      <4> QED BY <3>3, <4>1 DEF Registered
    <3>4. ASSUME NEW i \in Ingests, Ingest(i) \/ Recover(i) PROVE UNCHANGED <<registry, req>>
      BY <3>4 DEF Ingest, Submit, Start, Fail, Commit, ReadIndex, WriteIndex, Recover
    <3>5. CASE Crash
      <4>1. UNCHANGED Registered /\ \A r \in Requests : Calls'[r].status = "idle"
        BY <3>5 DEF Crash, Registered, Calls, Called, Free, Threads
      <4> QED BY <4>1 DEF Map!Crash, Calls
    <3>6. ASSUME NEW n \in DOMAIN Configured, SeedNext(n) PROVE Promised
      <4>1. UNCHANGED registry /\ \A r \in Requests : req'[r] = req[r]
        BY <3>6, RegistryAssumption DEF SeedNext, RegistryTypes, Typed, Threads
      <4>2. Calls' = Calls
        BY <4>1, CallsStand DEF SameLocals
      <4> QED BY <4>1, <4>2 DEF Registered
    <3>7. Restart \/ Seeded \/ Serve \/ UNCHANGED vars => UNCHANGED <<registry, req>>
      BY DEF Restart, Seeded, Serve, vars
    <3> QED BY <3>1, <3>2, <3>3, <3>4, <3>5, <3>6, <3>7 DEF Next, StartUp
  <2>3. UNCHANGED overlapped
    BY <1>1, <1>3, <2>1
  <2>4. CASE UNCHANGED <<Registered, Calls>>
    BY <2>3, <2>4 DEF Map!vars, Calls
  <2>5. CASE ~UNCHANGED <<Registered, Calls>>
    <3>1. Map!Step
      BY <2>2, <2>5 DEF Map!Step
    <3> QED BY <2>3, <3>1 DEF Map!Next
  <2> QED BY <2>4, <2>5
<1> QED BY <1>2, <1>3

\* As long as no two changes overlap, the registry is the map it promises to be: each
\* request takes effect at one moment, when its file replaces the one before, or not at
\* all; a success means that it did, and neither a crash at any step of a write nor the
\* start after it loses or mixes up entries (registry.py:28-67, vaults.py:46-81).
THEOREM RegistryIsAMap == Spec => ImplementsVaultMap
<1>1. RegistryTypes /\ ServerInv /\ [Next]_vars => RegistryTypes' /\ ServerInv'
  BY TypesStep, ServerKept
<1>2. RegistryTypes /\ RegistryTypes' /\ ServerInv /\ ServerInv' /\ [Next]_vars
        => [Map!Next]_(Map!vars)
  BY MapStep
<1> QED BY <1>1, <1>2, TypesInit, ServerInit, MapInit, PTL DEF Spec, ImplementsVaultMap, Map!Spec

-------------------------------------------------------------------------------
(* The tree of a registered vault.                                             *)

NamedIn(m, p) == \E n \in Names : m[n] = p

\* Where the root of a vault is on its way into the registry, or is in it.
Held(p) ==
  \/ registry \notin {NoFile, Unreadable} /\ NamedIn(registry, p)
  \/ /\ tmp \notin {NoFile, Unreadable} /\ NamedIn(tmp, p)
     /\ \E t \in Threads : req[t].at \in {"fill", "replace"}
  \/ \E t \in Threads :
       \/ req[t].at \in Writing /\ NamedIn(req[t].map, p)
       \/ /\ req[t].at \in {"make", "commit", "read"} /\ req[t].op # "delete"
          /\ req[t].root = p

\* No name has the root, none is about to have it, and the configuration does not name it.
Out(p) == ~Held(p) /\ \A n \in DOMAIN Configured : Configured[n] # p

\* A dirty tree has an ingest that cleans it or that recovery cleans up after; one that
\* was given up is out of the registry for good.
Kept(p) ==
  \/ \E i \in Ingests : job[i].at \in {"writing", "interrupted"} /\ job[i].root = p
  \/ Out(p)

DirtyInv ==
  /\ \A i \in Ingests : job[i].at # "none" => IsVault(job[i].root)
  /\ \A p \in Roots : tree[p].dirty => IsVault(p) /\ Kept(p)

\* A root that is out stays out as long as its tree is dirty.
LEMMA ChangeKeepsOut ==
  ASSUME RegistryTypes, NEW t \in Threads, Change(t), NEW p \in Roots, ~Held(p)
  PROVE  ~Held(p)'
<1>0. /\ Outcome(t)
      /\ \A u \in Threads \ {t} : SameLocals(u)
      /\ req \in [Threads -> Locals] /\ req[t] \in Locals
      /\ Free.at = "idle" /\ p # None
  BY ChangeMoves, RegistryAssumption DEF RegistryTypes, Typed, Free
<1>1. ~NamedIn(EmptyMap, p)
  BY <1>0 DEF NamedIn, EmptyMap
<1>2. \/ registry' \in {registry, Unreadable}
      \/ registry' = tmp /\ req[t].at = "replace"
      \/ registry' = req[t].map /\ req[t].at = "fill"
  BY <1>0 DEF Outcome, ReadToChange, ReadAndRefuse, ReadGarbage, OpenTmp, FillTmp, Filled,
     Replace, ReplaceNothing, At, files
<1>3. \/ tmp' = NoFile \/ tmp' = Unreadable
      \/ tmp' = req[t].map /\ req[t].at = "fill"
      \/ tmp' = tmp /\ (req'[t].at \in {"fill", "replace"} => req[t].at \in {"fill", "replace"})
  BY <1>0 DEF Outcome, ReadToChange, ReadAndRefuse, ReadGarbage, OpenTmp, FillTmp, Filled,
     Replace, ReplaceNothing, At, files, Moves
<1>4. \/ req'[t].at \notin Writing
      \/ req[t].at \in Writing /\ req'[t].map = req[t].map
      \/ ReadToChange(t) /\ req'[t].map = Changed(t)
  BY <1>0 DEF Outcome, ReadAndRefuse, ReadGarbage, OpenTmp, FillTmp, Replace, ReplaceNothing, At,
     Moves, Writing
<1>5. req'[t].at \notin {"make", "commit", "read"}
  BY <1>0 DEF Outcome, ReadToChange, ReadAndRefuse, ReadGarbage, OpenTmp, FillTmp, Replace,
     ReplaceNothing, At, Moves
<1>6. ASSUME registry' \notin {NoFile, Unreadable} PROVE ~NamedIn(registry', p)
  BY <1>2, <1>6 DEF Held, Writing
<1>7. ASSUME tmp' \notin {NoFile, Unreadable}, NEW u \in Threads, req'[u].at \in {"fill", "replace"}
      PROVE  ~NamedIn(tmp', p)
  BY <1>0, <1>3, <1>7 DEF Held, Writing, SameLocals
<1>8. ASSUME NEW u \in Threads, req'[u].at \in Writing PROVE ~NamedIn(req'[u].map, p)
  <2>1. CASE ReadToChange(t) /\ u = t /\ req'[t].map = Changed(t)
    <3>1. Readable /\ req[t].at = "read" /\ Registered \in Maps
      BY <2>1, RegistryReads DEF ReadToChange, At
    <3>2. ~NamedIn(Registered, p)
      BY <1>1, <3>1 DEF Registered, Readable, Held
    <3>3. req[t].op # "delete" => req[t].root # p
      BY <3>1 DEF Held
    <3>4. ~NamedIn(Changed(t), p)
      BY <1>0, <3>1, <3>2, <3>3 DEF Changed, NamedIn, Maps
    <3> QED BY <2>1, <3>4
  <2>2. CASE req[u].at \in Writing /\ req'[u].map = req[u].map
    BY <2>2 DEF Held
  <2> QED BY <1>0, <1>4, <1>8, <2>1, <2>2 DEF SameLocals
<1>9. ASSUME NEW u \in Threads, req'[u].at \in {"make", "commit", "read"}, req'[u].op # "delete"
      PROVE  req'[u].root # p
  BY <1>0, <1>5, <1>9 DEF Held, SameLocals
<1> QED BY <1>6, <1>7, <1>8, <1>9 DEF Held, NamedIn

LEMMA HandlerKeepsOut ==
  ASSUME RegistryTypes, NEW r \in Requests, Request(r) \/ Handle(r),
         NEW p \in Roots, ~Held(p), IsVault(p), tree[p].dirty
  PROVE  ~Held(p)'
<1>0. /\ Handled(r) /\ r \in Threads
      /\ \A u \in Threads \ {r} : req'[u] = req[u]
      /\ UNCHANGED <<registry, tmp>> /\ Free.at = "idle"
  BY HandlerMoves DEF Free
<1>1. req'[r].at \notin Writing
  BY <1>0 DEF Handled, Receive, CheckName, Validate, CheckEmpty, MakeLayout, CommitLayout,
     CommitFails, Drop, Answer, Moves, Writing
<1>2. ASSUME req'[r].at \in {"make", "commit", "read"}, req'[r].op # "delete"
      PROVE  req'[r].root # p
  <2>1. CASE /\ req[r].at \in {"make", "commit"}
             /\ req'[r].op = req[r].op /\ req'[r].root = req[r].root
    BY <1>0, <1>2, <2>1 DEF Held
  <2>2. CASE Acceptable(r) /\ req'[r].root = req[r].root
    BY <2>2 DEF Acceptable, Root
  <2>3. CASE Root(r).made = "empty" /\ req'[r].root = req[r].root
    BY <2>3 DEF Root, IsVault
  <2> QED BY <1>0, <1>2, <2>1, <2>2, <2>3
         DEF Handled, MakeLayout, CommitLayout, At, Moves
<1> QED BY <1>0, <1>1, <1>2 DEF Held, Writing

LEMMA OutStays ==
  ASSUME RegistryTypes, [Next]_vars, NEW p \in Roots, Out(p), IsVault(p), tree[p].dirty
  PROVE  Out(p)'
<1> SUFFICES ~Held(p)'
  BY DEF Out
<1>0. ~Held(p) /\ p # None
  BY RegistryAssumption DEF Out
<1>1. CASE UNCHANGED <<registry, tmp, req>>
  BY <1>0, <1>1 DEF Held
<1>2. CASE Crash
  <2>1. UNCHANGED <<registry, tmp>> /\ \A t \in Threads : req'[t].at = "idle"
    BY <1>2 DEF Crash, Free, files
  <2> QED BY <1>0, <2>1 DEF Held, Writing
<1>3. ASSUME NEW n \in DOMAIN Configured, SeedNext(n) PROVE ~Held(p)'
  <2>1. /\ UNCHANGED <<registry, tmp>>
        /\ \A t \in Threads \ {Starter} : req'[t] = req[t]
        /\ req'[Starter].at = "read" /\ req'[Starter].root = Configured[n]
        /\ Starter \in Threads
    BY <1>3 DEF SeedNext, files, Free, RegistryTypes, Typed, Threads
  <2>2. Configured[n] # p
    BY DEF Out
  <2> QED BY <1>0, <2>1, <2>2 DEF Held, Writing
<1>4. ASSUME NEW i \in Ingests, Ingest(i) \/ Recover(i) PROVE UNCHANGED <<registry, tmp, req>>
  BY <1>4 DEF Ingest, Submit, Start, Fail, Commit, ReadIndex, WriteIndex, Recover, files
<1>5. Restart \/ Seeded \/ Serve \/ UNCHANGED vars => UNCHANGED <<registry, tmp, req>>
  BY DEF Restart, Seeded, Serve, vars, files
<1> QED BY <1>0, <1>1, <1>2, <1>3, <1>4, <1>5, ChangeKeepsOut, HandlerKeepsOut DEF Next, StartUp


\* A tree is made dirty by the ingest that starts in it.
LEMMA DirtyFrom ==
  ASSUME RegistryTypes, [Next]_vars, NEW p \in Roots, tree'[p].dirty
  PROVE  \/ tree[p].dirty
         \/ \E i \in Ingests : /\ job[i].at = "queued" /\ job[i].root = p
                               /\ job'[i].at = "writing" /\ job'[i].root = p
<1>0. tree \in Tree /\ job \in [Ingests -> Records]
  BY DEF RegistryTypes, Typed
<1>1. CASE UNCHANGED tree
  BY <1>1
<1>2. CASE \E r \in Requests : MakeLayout(r) \/ CommitLayout(r)
  BY <1>0, <1>2 DEF MakeLayout, CommitLayout, Tree
<1>3. ASSUME NEW i \in Ingests, Start(i), ~(UNCHANGED tree), ~tree[p].dirty
      PROVE  /\ job[i].at = "queued" /\ job[i].root = p
             /\ job'[i].at = "writing" /\ job'[i].root = p
  <2>1. /\ job[i].at = "queued" /\ job' = [job EXCEPT ![i].at = "writing"]
        /\ tree' = [tree EXCEPT ![job[i].root].dirty = TRUE]
    BY <1>3 DEF Start
  <2>2. job[i].root = p
    BY <1>0, <1>3, <2>1 DEF Tree
  <2> QED BY <1>0, <2>1, <2>2 DEF Records
<1>4. CASE \E i \in Ingests : Fail(i) \/ Commit(i) \/ Recover(i)
  BY <1>0, <1>4 DEF Fail, Commit, Recover, Tree
<1>5. ASSUME NEW t \in Threads, Change(t) PROVE UNCHANGED tree
  BY <1>5 DEF Change, ReadToChange, ReadAndRefuse, ReadGarbage, OpenTmp, FillTmp, Replace,
     ReplaceNothing
<1>6. ASSUME NEW r \in Requests, Request(r) \/ Handle(r)
      PROVE  UNCHANGED tree \/ MakeLayout(r) \/ CommitLayout(r)
  BY <1>6 DEF Request, Receive, Handle, CheckName, Validate, CheckEmpty, CommitFails, Drop, Answer
<1>7. ASSUME NEW i \in Ingests, Ingest(i)
      PROVE  UNCHANGED tree \/ Start(i) \/ Fail(i) \/ Commit(i)
  BY <1>7 DEF Ingest, Submit, ReadIndex, WriteIndex
<1>8. Crash \/ UNCHANGED vars => UNCHANGED tree
  BY DEF Crash, vars
<1>9. StartUp => UNCHANGED tree \/ \E i \in Ingests : Recover(i)
  BY DEF StartUp, Restart, SeedNext, Seeded, Serve
<1> QED
  BY <1>1, <1>2, <1>3, <1>4, <1>5, <1>6, <1>7, <1>8, <1>9 DEF Next

\* What becomes of a job, and of an ingest that is at work or was interrupted.
LEMMA JobFates ==
  ASSUME RegistryTypes, [Next]_vars, NEW i \in Ingests
  PROVE  /\ job[i].at # "none" => job'[i].root = job[i].root
         /\ job[i].at = "none" =>
              \/ job'[i].at = "none"
              \/ Readable /\ \E n \in Names : Registered[n] # None /\ job'[i].root = Registered[n]
         /\ job[i].at \in {"writing", "interrupted"} =>
              \/ job'[i].at \in {"writing", "interrupted"}
              \/ ~tree'[job[i].root].dirty
              \/ Recover(i) /\ Readable /\ Registered[job[i].name] # job[i].root
<1>0. /\ tree \in Tree /\ job \in [Ingests -> Records] /\ job[i] \in Records
      /\ job[i].at # "none" => job[i].name \in Names /\ job[i].root \in Roots
  BY DEF RegistryTypes, Typed, Busy
<1>1. CASE job'[i] = job[i]
  BY <1>1
<1>2. ASSUME NEW k \in Ingests, Ingest(k) \/ Recover(k), k # i PROVE job'[i] = job[i]
  BY <1>0, <1>2 DEF Ingest, Submit, Start, Fail, Commit, ReadIndex, WriteIndex, Recover
<1>3. ASSUME NEW n \in Names, NEW x \in Texts, Submit(i, n, x)
      PROVE  /\ job[i].at = "none" /\ Readable /\ Registered[n] # None
             /\ job'[i].root = Registered[n]
  BY <1>0, <1>3 DEF Submit, NoJob
<1>4. ASSUME Start(i) \/ ReadIndex(i) \/ WriteIndex(i)
      PROVE  job[i].at \notin {"none", "writing", "interrupted"} /\ job'[i].root = job[i].root
  BY <1>0, <1>4 DEF Start, ReadIndex, WriteIndex, Records
<1>5. ASSUME Fail(i) \/ Commit(i)
      PROVE  /\ job[i].at = "writing" /\ job'[i].root = job[i].root
             /\ ~tree'[job[i].root].dirty
  BY <1>0, <1>5 DEF Fail, Commit, Records, Tree
<1>6. CASE Recover(i)
  <2>1. CASE ~Readable
    BY <1>0, <1>6, <2>1 DEF Recover
  <2>2. CASE Readable
    <3>1. job[i].at = "interrupted" /\ job' = [job EXCEPT ![i].at = "failed"]
      BY <1>6, <2>2 DEF Recover
    <3>2. job'[i].root = job[i].root
      BY <1>0, <3>1 DEF Records
    <3>3. Registered[job[i].name] = job[i].root => ~tree'[job[i].root].dirty
      BY <1>0, <1>6, <2>2, <3>1, RegistryAssumption DEF Recover, Tree
    <3> QED BY <1>6, <2>2, <3>1, <3>2, <3>3
  <2> QED BY <2>1, <2>2
<1>7. CASE Crash
  <2>1. /\ job'[i].root = job[i].root
        /\ job[i].at = "none" => job'[i].at = "none"
        /\ job[i].at \in {"writing", "interrupted"} => job'[i].at = "interrupted"
    <3>1. CASE job[i].at = "queued"
      <4>1. job'[i] = [job[i] EXCEPT !.at = "failed"]
        BY <1>7, <3>1 DEF Crash, Active
      <4> QED BY <1>0, <3>1, <4>1 DEF Records
    <3>2. CASE job[i].at \in Active
      <4>1. job'[i] = [job[i] EXCEPT !.at = "interrupted", !.read = NoEntries]
        BY <1>7, <3>2 DEF Crash, Active
      <4> QED BY <1>0, <3>2, <4>1 DEF Records, Active
    <3>3. CASE job[i].at # "queued" /\ job[i].at \notin Active
      <4>1. job'[i] = job[i]
        BY <1>7, <3>3 DEF Crash
      <4> QED BY <3>3, <4>1 DEF Active
    <3> QED BY <3>1, <3>2, <3>3
  <2> QED BY <2>1
<1>8. ASSUME NEW t \in Threads, Change(t) PROVE UNCHANGED job
  BY <1>8 DEF Change, ReadToChange, ReadAndRefuse, ReadGarbage, OpenTmp, FillTmp, Replace,
     ReplaceNothing
<1>9. ASSUME NEW r \in Requests, Request(r) \/ Handle(r) PROVE UNCHANGED job
  BY <1>9, HandlerMoves
<1>10. Restart \/ Seeded \/ Serve \/ (\E n \in DOMAIN Configured : SeedNext(n)) \/ UNCHANGED vars
         => UNCHANGED job
  BY DEF Restart, Seeded, Serve, SeedNext, vars
<1>11. ASSUME Ingest(i)
       PROVE  \/ \E n \in Names, x \in Texts : Submit(i, n, x)
              \/ Start(i) \/ ReadIndex(i) \/ WriteIndex(i) \/ Fail(i) \/ Commit(i)
  BY <1>11 DEF Ingest
<1>12. CASE Ingest(i)
  BY <1>3, <1>4, <1>5, <1>11, <1>12
<1> QED
  BY <1>1, <1>2, <1>6, <1>7, <1>8, <1>9, <1>10, <1>12 DEF Next, StartUp

\* Recovery gives up the tree of an interrupted ingest only when its name is gone; then no
\* name has it, and none is about to.
LEMMA GivenUpIsOut ==
  ASSUME OneRootEach, RegistryTypes, OnlyOffers, OnlyStored, ServerInv,
         NEW i \in Ingests, Recover(i), Readable, Registered[job[i].name] # job[i].root
  PROVE  Out(job[i].root)
<1> DEFINE p == job[i].root
           n == job[i].name
<1>1. /\ phase = "recovering" /\ n \in Names /\ p \in Roots /\ <<n, p>> \in Offers
      /\ \A o \in Offers : o = <<o[1], o[2]>>
  BY RegistryAssumption DEF Recover, RegistryTypes, Busy, OnlyStored, Fine
<1>2. Registered \in Maps /\ Offered(Registered)
  BY RegistryReads, ReadIsOffered
<1>3. Registered[n] = None
  <2>1. Registered[n] # None => <<n, Registered[n]>> \in Offers
    BY <1>1, <1>2 DEF Offered
  <2> QED BY <1>1, <2>1 DEF OneRootEach
<1>4. ASSUME NEW m \in Names, <<m, p>> \in Offers PROVE m = n
  BY <1>1, <1>4, RegistryAssumption
<1>5. \A t \in Threads : req[t].at = "idle"
  BY <1>1 DEF ServerInv, QuietInv, Threads
<1>6. ~NamedIn(Registered, p)
  BY <1>1, <1>2, <1>3, <1>4, RegistryAssumption DEF NamedIn, Offered
<1>7. ~Held(p)
  BY <1>5, <1>6 DEF Held, Writing, Registered
<1>8. ASSUME NEW c \in DOMAIN Configured, Configured[c] = p PROVE FALSE
  <2>1. c = n
    BY <1>4, <1>8, RegistryAssumption
  <2>2. Registered[c] # None
    BY <1>1 DEF ServerInv, SeedInv
  <2> QED BY <1>3, <2>1, <2>2
<1> QED BY <1>7, <1>8 DEF Out

LEMMA DirtyInit == Init => DirtyInv
BY DEF Init, DirtyInv, NoJob

LEMMA DirtyStep ==
  ASSUME OneRootEach, RegistryTypes, OnlyVaults, OnlyOffers, OnlyStored, ServerInv, DirtyInv,
         [Next]_vars
  PROVE  DirtyInv'
<1>1. \A i \in Ingests : job[i].at # "none" => job[i].name \in Names /\ job[i].root \in Roots
  BY DEF RegistryTypes, Busy
<1>2. \A p \in Roots : IsVault(p) => IsVault(p)'
  BY VaultsStay
<1>3. ASSUME NEW i \in Ingests, job'[i].at # "none" PROVE IsVault(job[i].root)'
  <2>1. CASE job[i].at # "none" /\ job'[i].root = job[i].root
    <3>1. IsVault(job[i].root) /\ job[i].root \in Roots
      BY <1>1, <2>1 DEF DirtyInv
    <3> QED BY <1>2, <2>1, <3>1 DEF IsVault
  <2>2. ASSUME Readable, NEW n \in Names, Registered[n] # None, job'[i].root = Registered[n]
        PROVE  IsVault(job[i].root)'
    <3>1. Registered \in Maps /\ AllVaults(Registered)
      BY <2>2, RegistryReads, EmptyHasOnlyVaults DEF OnlyVaults, Registered, Readable
    <3>2. IsVault(Registered[n]) /\ Registered[n] \in Roots
      BY <2>2, <3>1 DEF AllVaults, Maps
    <3> QED BY <1>2, <2>2, <3>2 DEF IsVault
  <2> QED BY <1>3, <2>1, <2>2, JobFates
<1>4. ASSUME NEW p \in Roots, tree'[p].dirty PROVE IsVault(p)' /\ Kept(p)'
  <2>1. ASSUME NEW i \in Ingests, job[i].at = "queued", job[i].root = p,
               job'[i].at = "writing", job'[i].root = p
        PROVE  IsVault(p)' /\ Kept(p)'
    BY <1>2, <2>1 DEF DirtyInv, Kept
  <2>2. CASE tree[p].dirty
    <3>1. IsVault(p) /\ Kept(p)
      BY <2>2 DEF DirtyInv
    <3>2. CASE Out(p)
      <4>1. Out(p)'
        BY <2>2, <3>1, <3>2, OutStays
      <4> QED BY <1>2, <3>1, <4>1 DEF Kept, Out
    <3>3. ASSUME NEW i \in Ingests, job[i].at \in {"writing", "interrupted"}, job[i].root = p
          PROVE  Kept(p)'
      <4>1. CASE job'[i].at \in {"writing", "interrupted"}
        <5>1. job'[i].root = p
          BY <3>3, JobFates
        <5> QED BY <4>1, <5>1 DEF Kept
      <4>2. CASE Recover(i) /\ Readable /\ Registered[job[i].name] # job[i].root
        <5>1. Out(p)
          BY <3>3, <4>2, GivenUpIsOut
        <5>2. Out(p)'
          BY <2>2, <3>1, <5>1, OutStays
        <5> QED BY <5>2 DEF Kept, Out
      <4> QED BY <1>4, <3>3, <4>1, <4>2, JobFates
    <3> QED BY <1>2, <3>1, <3>2, <3>3 DEF Kept, Out
  <2> QED BY <1>4, <2>1, <2>2, DirtyFrom
<1> QED BY <1>3, <1>4 DEF DirtyInv

\* The tree of a registered vault is dirty only while an ingest works in it, where each vault
\* is offered at one place: what recovery does not roll back, because the name is gone, cannot
\* be adopted again (main.py:78-87, recovery.py:61-64, vaults.py:36-40).
THEOREM RegisteredAreIngestable == OneRootEach => (Spec => []RegisteredVaultIsIngestable)
<1> DEFINE Inv == /\ RegistryTypes /\ OnlyVaults /\ OnlyOffers /\ OnlyStored
                  /\ ServerInv /\ DirtyInv
<1>1. Init => Inv
  BY TypesInit, OnlyVaultsInit, OnlyOffersInit, OnlyStoredInit, ServerInit, DirtyInit
<1>2. OneRootEach /\ Inv /\ [Next]_vars => Inv'
  BY TypesStep, StepsAreTraced, TracedIsEnough, OnlyOffersStep, OnlyStoredStep, ServerKept,
     DirtyStep
<1>3. Inv => RegisteredVaultIsIngestable
  <2> SUFFICES ASSUME Inv, phase = "up", Readable, NEW n \in Names, Registered[n] # None,
                      tree[Registered[n]].dirty
               PROVE  \E i \in Ingests : job[i].at \in Active /\ job[i].root = Registered[n]
    BY DEF RegisteredVaultIsIngestable
  <2>1. Registered \in Maps /\ Registered[n] \in Roots
    BY RegistryReads DEF Maps
  <2>2. Held(Registered[n])
    <3>1. registry # NoFile
      BY DEF Registered, EmptyMap
    <3> QED BY <3>1 DEF Held, NamedIn, Registered, Readable
  <2>3. Kept(Registered[n])
    BY <2>1 DEF DirtyInv
  <2> QED BY <2>2, <2>3 DEF Kept, Out, ServerInv, QuietInv, Active
<1> HIDE DEF Inv
<1>4. ASSUME OneRootEach PROVE Spec => []RegisteredVaultIsIngestable
  <2>1. Inv /\ [Next]_vars => Inv'
    BY <1>2, <1>4
  <2> QED
    BY <1>1, <1>3, <2>1, PTL DEF Spec
<1> QED
  BY <1>4

===============================================================================
