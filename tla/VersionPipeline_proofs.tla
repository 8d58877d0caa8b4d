----------------------- MODULE VersionPipeline_proofs -----------------------
(* Proofs about VersionPipeline, for every number of concurrent requests,   *)
(* every history window and every number of attempts.  The last part shows  *)
(* that the pipeline implements ReleaseLog.                                 *)
EXTENDS VersionPipeline, FiniteSetTheorems, TLAPS

-----------------------------------------------------------------------------
(* The inductive invariant *)

\* What a request has in hand: an edit its change, and the request about to
\* repoint the environment a version that is sealed, unless it is gone.
AtHand(q) ==
  /\ q.op = "edit" => q.change \in Halves \X (1..MaxEdits)
  /\ q.pc = "append" => q.op = "edit"
  /\ q.pc \in {"append", "seal", "setLive"} => q.version \in Ids /\ q.version <= created
  /\ q.pc = "setLive" /\ Exists(q.version) => Published(q.version)

\* Row ids are given in order, so a new row never replaces one.
IdsInOrder == \A v \in Ids : Exists(v) => v <= created

\* The environment points at no draft and at no row that is gone.
LivePublished == live # None => Published(live)

IInv ==
  /\ TypeOK
  /\ IdsInOrder
  /\ LivePublished
  /\ \A r \in Requests : AtHand(req[r])

-----------------------------------------------------------------------------
(* Types of what requests become *)

LEMMA EmptyType == Empty \in Edits
BY ConstantsAssumption DEF Empty, Edits

LEMMA NoneIsNoVersion == None \notin Versions
BY ConstantsAssumption

LEMMA IdleType ==
  ASSUME NEW answer \in {"none", "done", "failed"}
  PROVE  Idle(answer) \in RequestStates /\ AtHand(Idle(answer))
BY EmptyType, ConstantsAssumption
   DEF Idle, RequestStates, Pcs, Halves, AtHand, Exists, Published

LEMMA BecomeType ==
  ASSUME TypeOK, NEW r \in Requests, NEW local \in RequestStates, Become(r, local)
  PROVE  /\ req' \in [Requests -> RequestStates]
         /\ req'[r] = local
         /\ \A p \in Requests \ {r} : req'[p] = req[p]
BY DEF TypeOK, Become

-----------------------------------------------------------------------------
(* How the table of versions may change: rows come with new ids, a published *)
(* one stays published, and drafts keep what was reported to them.           *)

Advances ==
  /\ \A v \in Ids : Published(v) /\ Exists(v)' => Published(v)'
  /\ \A v \in Ids : v <= created /\ ~Exists(v) => ~Exists(v)'
  /\ created <= created'

LEMMA MemoryHolds ==
  ASSUME IInv, TypeOK', Advances, NEW q \in RequestStates, AtHand(q)
  PROVE  AtHand(q)'
<1>1. created \in Nat /\ created' \in Nat /\ (q.version \in Ids => q.version \in Nat)
  BY DEF IInv, TypeOK, Ids
<1>2. q.pc = "setLive" /\ Exists(q.version)' => Published(q.version)'
  BY DEF AtHand, Advances
<1>3. QED
  BY <1>1, <1>2 DEF AtHand, Advances

\* The shape of every step: one request moves, the table advances.
LEMMA RequestStep ==
  ASSUME IInv, TypeOK', IdsInOrder', LivePublished', Advances, NEW r \in Requests,
         NEW local \in RequestStates, Become(r, local), AtHand(local)'
  PROVE  IInv'
<1>1. req'[r] = local /\ \A p \in Requests \ {r} : req'[p] = req[p]
  BY BecomeType DEF IInv
<1>2. AtHand(req[r])'
  BY <1>1 DEF AtHand
<1>3. ASSUME NEW p \in Requests, p # r
      PROVE  AtHand(req[p])'
  <2> DEFINE q == req[p]
  <2>1. q \in RequestStates /\ AtHand(q)
    BY DEF IInv, TypeOK
  <2>2. \A local2 \in RequestStates : AtHand(local2) => AtHand(local2)'
    BY MemoryHolds
  <2>3. req'[p] = req[p]
    BY <1>1, <1>3
  <2>4. QED
    BY <2>1, <2>2, <2>3 DEF AtHand
<1>4. QED
  BY <1>2, <1>3 DEF IInv

\* Most steps only read.
LEMMA ReadStep ==
  ASSUME IInv, NEW r \in Requests, NEW local \in RequestStates, Become(r, local), Reads,
         AtHand(local), arrivals' \in Nat, overlapped' \in SUBSET Requests
  PROVE  IInv'
<1>1. req' \in [Requests -> RequestStates]
  BY BecomeType DEF IInv
<1>2. TypeOK'
  BY <1>1 DEF IInv, TypeOK, Reads
<1>3. IdsInOrder' /\ LivePublished' /\ Advances
  BY DEF IInv, TypeOK, Reads, IdsInOrder, LivePublished, Published, Exists, Advances
<1>4. AtHand(local)'
  BY DEF AtHand, Exists, Published, Reads
<1>5. QED
  BY <1>2, <1>3, <1>4, RequestStep

\* A request ends without having written.
LEMMA EndStep ==
  ASSUME IInv, NEW r \in Requests, Answer(r) \/ Throw(r), Reads,
         arrivals' \in Nat, overlapped' \in SUBSET Requests
  PROVE  IInv'
BY IdleType, ReadStep DEF Answer, Throw

-----------------------------------------------------------------------------
(* Requests arrive *)

LEMMA ArriveStep ==
  ASSUME IInv, NEW r \in Requests, Arrive(r), arrivals' \in Nat
  PROVE  IInv'
<1> USE ConstantsAssumption
<1>0. /\ Idle("none") \in RequestStates /\ AtHand(Idle("none"))
      /\ TypeOK /\ working \in Edits /\ created \in Nat /\ live \in Ids \cup {None}
      /\ req \in [Requests -> RequestStates]
  BY IdleType DEF IInv, TypeOK
<1>1. Arrives(r) => overlapped' \in SUBSET Requests
  BY <1>0 DEF Arrives, TypeOK
<1>2. ASSUME NEW h \in Halves, StartEdit(r, h)
      PROVE  IInv'
  <2>1. working[h] \in 0..MaxEdits /\ working[h] < MaxEdits
    BY <1>0, <1>2 DEF StartEdit, Edits
  <2>2. PICK n \in 1..MaxEdits : n = working[h] + 1
    BY <2>1
  <2> DEFINE change == <<h, n>>
             local == [Idle("none") EXCEPT !.op = "edit", !.pc = "find", !.change = change]
  <2>3. local \in RequestStates
    <3>1. change \in Halves \X (0..MaxEdits) /\ change \in Halves \X (1..MaxEdits)
      OBVIOUS
    <3>2. QED
      BY <1>0, <3>1 DEF RequestStates, Pcs
  <2>4. working' \in Edits
    BY <1>0, <1>2, <2>2 DEF StartEdit, Edits
  <2>5. Become(r, local) /\ UNCHANGED <<versions, created, live, served, numbers>> /\ Arrives(r)
    BY <1>2, <2>2 DEF StartEdit
  <2>6. TypeOK'
    BY <1>0, <1>1, <2>3, <2>4, <2>5, BecomeType DEF TypeOK
  <2>7. IdsInOrder' /\ LivePublished' /\ Advances
    BY <1>0, <2>5 DEF IInv, IdsInOrder, LivePublished, Published, Exists, Advances
  <2>8. local.op = "edit" /\ local.pc = "find" /\ local.change = change
    BY DEF Idle
  <2>9. AtHand(local)'
    BY <2>8 DEF AtHand
  <2>10. QED
    BY <2>3, <2>5, <2>6, <2>7, <2>9, RequestStep
<1>3. CASE StartPublish(r)
  <2> DEFINE sides == IF live = None THEN {"working"} ELSE {"working", "live"}
             unread == sides \X Halves
             local == [Idle("none") EXCEPT !.op = "publish", !.pc = "read",
                                           !.liveRead = live, !.unread = unread]
  <2>1. local \in RequestStates
    BY <1>0 DEF RequestStates, Pcs
  <2>2. local.op = "publish" /\ local.pc = "read"
    BY DEF Idle
  <2>3. AtHand(local)
    BY <2>2 DEF AtHand
  <2>4. QED
    BY <1>1, <1>3, <2>1, <2>3, ReadStep DEF StartPublish
<1>4. ASSUME NEW v \in Ids, StartRollback(r, v)
      PROVE  IInv'
  <2> DEFINE local == [Idle("none") EXCEPT !.op = "rollback", !.pc = "setLive",
                                           !.version = v]
  <2>1. CASE Published(v)
    <3>1. local \in RequestStates
      BY <1>0 DEF RequestStates, Pcs
    <3>2. local.op = "rollback" /\ local.pc = "setLive" /\ local.version = v
      BY DEF Idle
    <3>3. AtHand(local)
      BY <1>4, <2>1, <3>2 DEF AtHand, StartRollback
    <3>4. QED
      BY <1>1, <1>4, <2>1, <3>1, <3>3, ReadStep DEF StartRollback
  <2>2. CASE ~Published(v)
    BY <1>1, <1>4, <2>2, IdleType, ReadStep DEF StartRollback
  <2>3. QED
    BY <2>1, <2>2
<1>5. QED
  BY <1>2, <1>3, <1>4 DEF Arrive

-----------------------------------------------------------------------------
(* Steps that only read *)

LEMMA OpenedType ==
  ASSUME IInv, NEW r \in Requests, NEW v \in Ids
  PROVE  LET local == [req[r] EXCEPT !.pc = IF req[r].op = "edit" THEN "append" ELSE "seal",
                                     !.version = v]
         IN  /\ local \in RequestStates
             /\ v <= created => AtHand(local)
<1> DEFINE q == req[r]
           pc == IF q.op = "edit" THEN "append" ELSE "seal"
           local == [q EXCEPT !.pc = pc, !.version = v]
<1>1. q \in RequestStates /\ AtHand(q)
  BY DEF IInv, TypeOK
<1>2. local \in RequestStates
  BY <1>1 DEF RequestStates, Pcs
<1>3. /\ local.op = q.op /\ local.change = q.change /\ local.version = v
      /\ local.pc = IF q.op = "edit" THEN "append" ELSE "seal"
  BY <1>1 DEF RequestStates
<1>4. v <= created => AtHand(local)
  BY <1>1, <1>3 DEF AtHand
<1>5. QED
  BY <1>2, <1>4

\* Moving on to a step that works on no version.
LEMMA GotoType ==
  ASSUME IInv, NEW r \in Requests, NEW pc \in Pcs \ {"append", "seal", "setLive"}
  PROVE  LET local == [req[r] EXCEPT !.pc = pc]
         IN  local \in RequestStates /\ AtHand(local)
<1> DEFINE q == req[r]
           local == [q EXCEPT !.pc = pc]
<1>1. q \in RequestStates /\ AtHand(q)
  BY DEF IInv, TypeOK
<1>2. local \in RequestStates
  BY <1>1 DEF RequestStates
<1>3. local.op = q.op /\ local.change = q.change /\ local.version = q.version /\ local.pc = pc
  BY <1>1 DEF RequestStates
<1>4. AtHand(local)
  BY <1>1, <1>3 DEF AtHand
<1>5. QED
  BY <1>2, <1>4

LEMMA GotoStep ==
  ASSUME IInv, NEW r \in Requests, NEW pc \in Pcs \ {"append", "seal", "setLive"},
         Goto(r, pc), Reads, arrivals' \in Nat, overlapped' \in SUBSET Requests
  PROVE  IInv'
BY GotoType, ReadStep DEF Goto

\* A step that refines what the request has read, or moves it on.
LEMMA NoteStep ==
  ASSUME IInv, NEW r \in Requests, NEW local \in RequestStates, Become(r, local), Reads,
         arrivals' \in Nat, overlapped' \in SUBSET Requests,
         local.op = req[r].op, local.change = req[r].change, local.version = req[r].version,
         local.pc \notin {"append", "seal", "setLive"}
  PROVE  IInv'
<1>1. AtHand(req[r])
  BY DEF IInv
<1>2. AtHand(local)
  BY <1>1 DEF AtHand
<1>3. QED
  BY <1>2, ReadStep

LEMMA ReadingStep ==
  ASSUME IInv, NEW r \in Requests, UNCHANGED <<arrivals, overlapped>>,
         \/ \E h \in Halves : ReadWorking(r, h) \/ ReadLive(r, h)
         \/ Compare(r) \/ Current(r) \/ Find(r) \/ ReadLatest(r) \/ Refind(r)
         \/ ReadSurvivors(r) \/ ReadProtected(r) \/ Fail(r)
  PROVE  IInv'
<1> USE ConstantsAssumption
<1> DEFINE q == req[r]
<1>0. /\ q \in RequestStates /\ arrivals' \in Nat /\ overlapped' \in SUBSET Requests
      /\ working \in Edits /\ versions \in [Ids -> Versions \cup {None}]
      /\ live \in Ids \cup {None}
  BY DEF IInv, TypeOK
<1>1. ASSUME NEW h \in Halves, ReadWorking(r, h)
      PROVE  IInv'
  <2> DEFINE unread == q.unread \ {<<"working", h>>}
             snapshot == [q.snapshot EXCEPT ![h] = working[h]]
             local == [q EXCEPT !.unread = unread, !.snapshot = snapshot]
  <2>1. snapshot \in Edits
    BY <1>0 DEF RequestStates, Edits
  <2>2. local \in RequestStates
    BY <1>0, <2>1 DEF RequestStates
  <2>3. Become(r, local) /\ Reads /\ q.pc = "read"
    BY <1>1 DEF ReadWorking, At
  <2>4. local.op = q.op /\ local.change = q.change /\ local.version = q.version
        /\ local.pc = q.pc
    BY <1>0 DEF RequestStates
  <2>5. QED
    BY <1>0, <2>2, <2>3, <2>4, NoteStep
<1>2. ASSUME NEW h \in Halves, ReadLive(r, h)
      PROVE  IInv'
  <2> DEFINE v == q.liveRead
             edits == IF Exists(v) THEN versions[v].snapshot[h] ELSE 0
             unread == q.unread \ {<<"live", h>>}
             snapshot == [q.liveSnapshot EXCEPT ![h] = edits]
             local == [q EXCEPT !.unread = unread, !.liveSnapshot = snapshot]
  <2>1. edits \in 0..MaxEdits
    <3>1. CASE Exists(v)
      BY <1>0, <3>1 DEF Exists, Versions, Edits
    <3>2. QED
      BY <3>1
  <2>2. snapshot \in Edits
    BY <1>0, <2>1 DEF RequestStates, Edits
  <2>3. local \in RequestStates
    BY <1>0, <2>2 DEF RequestStates
  <2>4. Become(r, local) /\ Reads /\ q.pc = "read"
    BY <1>2 DEF ReadLive, At
  <2>5. local.op = q.op /\ local.change = q.change /\ local.version = q.version
        /\ local.pc = q.pc
    BY <1>0 DEF RequestStates
  <2>6. QED
    BY <1>0, <2>3, <2>4, <2>5, NoteStep
<1>3. CASE Compare(r)
  BY <1>0, <1>3, GotoStep DEF Compare, Pcs
<1>4. CASE Current(r)
  BY <1>0, <1>4, GotoStep, EndStep DEF Current, Pcs
<1>5. ASSUME NEW v \in Drafts, Opened(r, v), Reads
      PROVE  IInv'
  <2>1. v \in Ids /\ v <= created
    BY <1>5 DEF Drafts, IInv, IdsInOrder
  <2>2. QED
    BY <1>0, <1>5, <2>1, OpenedType, ReadStep DEF Opened
<1>6. CASE Find(r)
  <2>1. \/ \E v \in Drafts : Opened(r, v)
        \/ Goto(r, "latest")
    BY <1>6 DEF Find, FindDraft, Goto
  <2>2. QED
    BY <1>0, <1>5, <1>6, <2>1, GotoStep DEF Find, Pcs
<1>7. CASE ReadLatest(r)
  <2> DEFINE used == {NumberOf(v) : v \in {u \in Ids : Exists(u)}}
  <2>1. PICK n \in used \cup {0} :
          Become(r, [req[r] EXCEPT !.pc = "insert", !.latest = n])
    BY <1>7 DEF ReadLatest
  <2>2. n \in Nat
    BY <1>0 DEF NumberOf, Exists, Versions
  <2> DEFINE local == [q EXCEPT !.pc = "insert", !.latest = n]
  <2>3. local \in RequestStates
    BY <1>0, <2>2 DEF RequestStates, Pcs
  <2>4. local.op = q.op /\ local.change = q.change /\ local.version = q.version
        /\ local.pc = "insert"
    BY <1>0 DEF RequestStates
  <2>5. QED
    BY <1>0, <1>7, <2>1, <2>3, <2>4, NoteStep DEF ReadLatest
<1>8. CASE Refind(r)
  <2> DEFINE n == q.attempt + 1
             local == [q EXCEPT !.pc = "latest", !.attempt = n]
  <2>1. \/ \E v \in Drafts : Opened(r, v)
        \/ Throw(r)
        \/ q.attempt # MaxAttempts /\ Become(r, local)
    BY <1>8 DEF Refind, FindDraft, Throw
  <2>2. ASSUME q.attempt # MaxAttempts
        PROVE  local \in RequestStates
    <3>1. n \in 1..MaxAttempts
      BY <1>0, <2>2 DEF RequestStates
    <3>2. QED
      BY <1>0, <3>1 DEF RequestStates, Pcs
  <2>3. local.op = q.op /\ local.change = q.change /\ local.version = q.version
        /\ local.pc = "latest"
    BY <1>0 DEF RequestStates
  <2>4. QED
    BY <1>0, <1>5, <1>8, <2>1, <2>2, <2>3, NoteStep, EndStep DEF Refind
<1>9. CASE ReadSurvivors(r)
  <2> DEFINE all == {v \in Ids : Exists(v)}
             newer(v) == {u \in all : NumberOf(u) > NumberOf(v)}
             kept == {v \in all : Cardinality(newer(v)) < Keep}
             local == [q EXCEPT !.pc = "protect", !.kept = kept]
  <2>1. local \in RequestStates
    BY <1>0 DEF RequestStates, Pcs
  <2>2. local.op = q.op /\ local.change = q.change /\ local.version = q.version
        /\ local.pc = "protect"
    BY <1>0 DEF RequestStates
  <2>3. Become(r, local) /\ Reads
    BY <1>9 DEF ReadSurvivors
  <2>4. QED
    BY <1>0, <2>1, <2>2, <2>3, NoteStep
<1>10. CASE ReadProtected(r)
  <2> DEFINE kept == q.kept \cup (IF live = None THEN {} ELSE {live})
             local == [q EXCEPT !.pc = "delete", !.kept = kept]
  <2>1. kept \in SUBSET Ids
    BY <1>0 DEF RequestStates
  <2>2. local \in RequestStates
    BY <1>0, <2>1 DEF RequestStates, Pcs
  <2>3. local.op = q.op /\ local.change = q.change /\ local.version = q.version
        /\ local.pc = "delete"
    BY <1>0 DEF RequestStates
  <2>4. Become(r, local) /\ Reads
    BY <1>10 DEF ReadProtected
  <2>5. QED
    BY <1>0, <2>2, <2>3, <2>4, NoteStep
<1>11. CASE Fail(r)
  BY <1>0, <1>11, EndStep DEF Fail
<1>12. QED
  BY <1>1, <1>2, <1>3, <1>4, <1>6, <1>7, <1>8, <1>9, <1>10, <1>11

-----------------------------------------------------------------------------
(* Steps that write *)

\* After its write a request that read before goes on or ends.
LEMMA MoveStep ==
  ASSUME IInv, versions' \in [Ids -> Versions \cup {None}], created' \in 0..MaxVersions,
         live' \in Ids \cup {None}, served' \in Ids \cup {None}, numbers' \in SUBSET Nat,
         UNCHANGED <<working, arrivals, overlapped>>,
         IdsInOrder', LivePublished', Advances, NEW r \in Requests,
         NEW local \in RequestStates, Become(r, local), AtHand(local)'
  PROVE  IInv'
<1>1. req' \in [Requests -> RequestStates]
  BY BecomeType DEF IInv
<1>2. TypeOK'
  BY <1>1 DEF IInv, TypeOK
<1>3. QED
  BY <1>2, RequestStep

LEMMA InsertStep ==
  ASSUME IInv, NEW r \in Requests, Insert(r), UNCHANGED <<arrivals, overlapped>>
  PROVE  IInv'
<1> USE ConstantsAssumption
<1> DEFINE q == req[r]
           number == q.latest + 1
           v == created + 1
           row == [number |-> number, status |-> "draft", snapshot |-> Empty, changes |-> {}]
<1>0. /\ q \in RequestStates /\ TypeOK /\ AtHand(q)
      /\ created \in 0..MaxVersions /\ versions \in [Ids -> Versions \cup {None}]
  BY DEF IInv, TypeOK
<1>1. CASE \E u \in Ids : Exists(u) /\ NumberOf(u) = number
  BY <1>0, <1>1, GotoStep DEF Insert, Reads, Pcs, TypeOK
<1>2. CASE ~ \E u \in Ids : Exists(u) /\ NumberOf(u) = number
  <2>1. /\ created < MaxVersions /\ versions' = [versions EXCEPT ![v] = row]
        /\ created' = v /\ numbers' = numbers \cup {number} /\ Opened(r, v)
        /\ UNCHANGED <<working, live, served>>
    BY <1>2 DEF Insert
  <2>2. v \in Ids /\ number \in Nat /\ row \in Versions /\ ~Exists(v)
    BY <1>0, <2>1, EmptyType DEF Ids, RequestStates, Versions, IInv, IdsInOrder
  <2>3. /\ versions' \in [Ids -> Versions \cup {None}] /\ created' \in 0..MaxVersions
        /\ live' \in Ids \cup {None} /\ served' \in Ids \cup {None} /\ numbers' \in SUBSET Nat
    <3>1. versions' \in [Ids -> Versions \cup {None}]
      BY <1>0, <2>1, <2>2
    <3>2. created' \in 0..MaxVersions
      BY <1>0, <2>1
    <3>3. live' \in Ids \cup {None} /\ served' \in Ids \cup {None} /\ numbers' \in SUBSET Nat
      BY <1>0, <2>1, <2>2 DEF TypeOK
    <3>4. QED
      BY <3>1, <3>2, <3>3
  <2>4. \A u \in Ids : u # v => (Exists(u)' <=> Exists(u)) /\ versions'[u] = versions[u]
    BY <1>0, <2>1 DEF Exists
  <2>5. IdsInOrder'
    BY <1>0, <2>1, <2>4 DEF IInv, IdsInOrder, Ids
  <2>6. LivePublished' /\ Advances
    <3>1. \A u \in Ids : Published(u) => u # v /\ Published(u)'
      BY <2>2, <2>4 DEF Published
    <3>2. \A u \in Ids : u <= created => u # v
      BY <1>0 DEF Ids
    <3>3. live # None => live \in Ids /\ Published(live)
      BY <1>0 DEF IInv, LivePublished, TypeOK
    <3>4. LivePublished'
      BY <2>1, <3>1, <3>3 DEF LivePublished, Published, Exists
    <3>5. Advances
      BY <1>0, <2>1, <2>4, <3>1, <3>2 DEF Advances, Ids
    <3>6. QED
      BY <3>4, <3>5
  <2>7. PICK u \in Ids : u = v
    BY <2>2
  <2> DEFINE local == [q EXCEPT !.pc = IF q.op = "edit" THEN "append" ELSE "seal",
                                !.version = u]
  <2>8. PICK moved \in RequestStates :
          /\ Become(r, moved) /\ moved.op = q.op /\ moved.change = q.change
          /\ moved.version = u /\ moved.pc = IF q.op = "edit" THEN "append" ELSE "seal"
    <3>1. local \in RequestStates
      BY OpenedType
    <3>2. /\ Become(r, local) /\ local.op = q.op /\ local.change = q.change
          /\ local.version = u /\ local.pc = IF q.op = "edit" THEN "append" ELSE "seal"
      BY <1>0, <2>1, <2>7 DEF Opened, RequestStates
    <3>3. QED
      BY <3>1, <3>2
  <2>9. AtHand(moved)'
    BY <1>0, <2>1, <2>7, <2>8 DEF AtHand
  <2>10. QED
    BY <2>1, <2>3, <2>5, <2>6, <2>8, <2>9, MoveStep
<1>3. QED
  BY <1>1, <1>2

LEMMA AppendStep ==
  ASSUME IInv, NEW r \in Requests, Append(r), UNCHANGED <<arrivals, overlapped>>
  PROVE  IInv'
<1> DEFINE q == req[r]
           v == q.version
<1>0. /\ q \in RequestStates /\ TypeOK /\ AtHand(q) /\ q.pc = "append"
      /\ versions \in [Ids -> Versions \cup {None}]
  BY DEF IInv, TypeOK, Append, At
<1>1. v \in Ids /\ q.change \in Halves \X (1..MaxEdits)
  BY <1>0 DEF AtHand
<1>2. CASE ~Exists(v)
  BY <1>0, <1>2, EndStep DEF Append, Reads, TypeOK
<1>3. CASE Exists(v)
  <2> DEFINE row == [versions[v] EXCEPT !.changes = @ \cup {q.change}]
  <2>1. versions[v] \in Versions
    BY <1>0, <1>1, <1>3 DEF Exists
  <2>2. row \in Versions /\ row.status = versions[v].status /\ row # None
    BY <1>1, <2>1, NoneIsNoVersion DEF Versions
  <2>3. versions' = [versions EXCEPT ![v] = row] /\ Answer(r)
        /\ UNCHANGED <<working, created, live, served, numbers>>
    BY <1>3 DEF Append
  <2>4. \A u \in Ids : (Exists(u)' <=> Exists(u)) /\ (Published(u)' <=> Published(u))
    BY <1>0, <1>1, <1>3, <2>2, <2>3 DEF Exists, Published
  <2>5. versions' \in [Ids -> Versions \cup {None}]
    BY <1>0, <2>2, <2>3
  <2>6. IdsInOrder' /\ LivePublished' /\ Advances
    BY <1>0, <2>3, <2>4
       DEF IInv, TypeOK, IdsInOrder, LivePublished, Advances, Exists, Published
  <2>7. Idle("done") \in RequestStates /\ AtHand(Idle("done"))'
    BY IdleType DEF AtHand, Idle
  <2>8. QED
    BY <1>0, <2>3, <2>5, <2>6, <2>7, MoveStep DEF Answer, TypeOK
<1>4. QED
  BY <1>2, <1>3

LEMMA SealStep ==
  ASSUME IInv, NEW r \in Requests, Seal(r), UNCHANGED <<arrivals, overlapped>>
  PROVE  IInv'
<1> DEFINE q == req[r]
           v == q.version
<1>0. /\ q \in RequestStates /\ TypeOK /\ AtHand(q) /\ q.pc = "seal"
      /\ versions \in [Ids -> Versions \cup {None}]
  BY DEF IInv, TypeOK, Seal, At
<1>1. v \in Ids /\ v <= created /\ q.snapshot \in Edits
  BY <1>0 DEF AtHand, RequestStates
<1>2. CASE ~Exists(v)
  BY <1>0, <1>2, EndStep DEF Seal, Reads, TypeOK
<1>3. CASE Exists(v)
  <2> DEFINE row == [versions[v] EXCEPT !.status = "published", !.snapshot = q.snapshot]
  <2>1. versions[v] \in Versions
    BY <1>0, <1>1, <1>3 DEF Exists
  <2>2. row \in Versions /\ row.status = "published" /\ row # None
    BY <1>1, <2>1, NoneIsNoVersion DEF Versions
  <2>3. versions' = [versions EXCEPT ![v] = row] /\ Goto(r, "setLive")
        /\ UNCHANGED <<working, created, live, served, numbers>>
    BY <1>3 DEF Seal
  <2>4. \A u \in Ids : (Exists(u)' <=> Exists(u)) /\ (Published(u) => Published(u)')
    BY <1>0, <1>1, <1>3, <2>2, <2>3 DEF Exists, Published
  <2>5. versions' \in [Ids -> Versions \cup {None}] /\ versions'[v] = row
    BY <1>0, <1>1, <2>2, <2>3
  <2>6. IdsInOrder' /\ LivePublished' /\ Advances
    BY <1>0, <2>3, <2>4
       DEF IInv, TypeOK, IdsInOrder, LivePublished, Advances, Exists, Published
  <2>7. PICK moved \in RequestStates :
          /\ Become(r, moved) /\ moved.op = q.op /\ moved.change = q.change
          /\ moved.version = v /\ moved.pc = "setLive"
    <3> DEFINE local == [q EXCEPT !.pc = "setLive"]
    <3>1. local \in RequestStates
      BY <1>0 DEF RequestStates, Pcs
    <3>2. /\ Become(r, local) /\ local.op = q.op /\ local.change = q.change
          /\ local.version = v /\ local.pc = "setLive"
      BY <1>0, <2>3 DEF Goto, RequestStates
    <3>3. QED
      BY <3>1, <3>2
  <2>8. AtHand(moved)'
    <3>1. Published(moved.version)'
      BY <1>1, <2>2, <2>5, <2>7 DEF Published, Exists
    <3>2. QED
      BY <1>0, <1>1, <2>3, <2>7, <3>1 DEF AtHand
  <2>9. QED
    BY <1>0, <2>3, <2>5, <2>6, <2>7, <2>8, MoveStep DEF TypeOK
<1>4. QED
  BY <1>2, <1>3

LEMMA SetLiveStep ==
  ASSUME IInv, NEW r \in Requests, SetLive(r), UNCHANGED <<arrivals, overlapped>>
  PROVE  IInv'
<1> DEFINE q == req[r]
           v == q.version
<1>0. /\ q \in RequestStates /\ TypeOK /\ AtHand(q) /\ q.pc = "setLive"
  BY DEF IInv, TypeOK, SetLive, At
<1>1. CASE ~Exists(v)
  BY <1>0, <1>1, EndStep DEF SetLive, Reads, TypeOK
<1>2. CASE Exists(v)
  <2>1. /\ live' = v /\ served' \in {v, None} /\ v \in Ids /\ Published(v)
        /\ UNCHANGED <<working, versions, created, numbers>>
    BY <1>0, <1>2 DEF SetLive, AtHand
  <2>2. IdsInOrder' /\ LivePublished' /\ Advances
    BY <1>0, <2>1 DEF IInv, TypeOK, IdsInOrder, LivePublished, Advances, Exists, Published
  <2>3. CASE Goto(r, "survivors")
    <3> DEFINE local == [q EXCEPT !.pc = "survivors"]
    <3>1. PICK moved \in RequestStates : Become(r, moved) /\ AtHand(moved)
      BY <2>3, GotoType DEF Goto, Pcs
    <3>2. AtHand(moved)'
      BY <2>1, <3>1 DEF AtHand, Exists, Published
    <3>3. QED
      BY <1>0, <2>1, <2>2, <3>1, <3>2, MoveStep DEF TypeOK
  <2>4. CASE Answer(r)
    <3>1. Idle("done") \in RequestStates /\ AtHand(Idle("done"))'
      BY IdleType DEF AtHand, Idle
    <3>2. QED
      BY <1>0, <2>1, <2>2, <2>4, <3>1, MoveStep DEF Answer, TypeOK
  <2>5. QED
    BY <1>2, <2>3, <2>4 DEF SetLive
<1>3. QED
  BY <1>1, <1>2

LEMMA DeleteStep ==
  ASSUME IInv, NEW r \in Requests, Delete(r), UNCHANGED <<arrivals, overlapped>>
  PROVE  IInv'
<1>0. TypeOK /\ versions \in [Ids -> Versions \cup {None}] /\ live \in Ids \cup {None}
  BY DEF IInv, TypeOK
<1>1. /\ versions' = [v \in Ids |-> IF v \in Prunable(r) THEN None ELSE versions[v]]
      /\ live' = IF live \in Prunable(r) THEN None ELSE live
      /\ Answer(r) /\ UNCHANGED <<working, created, served, numbers>>
  BY DEF Delete
<1>2. /\ \A v \in Ids : v \in Prunable(r) => ~Exists(v)'
      /\ \A v \in Ids : v \notin Prunable(r) => versions'[v] = versions[v]
  BY <1>1 DEF Exists
<1>3. IdsInOrder' /\ Advances
  BY <1>0, <1>1, <1>2 DEF IInv, TypeOK, IdsInOrder, Advances, Exists, Published
<1>4. LivePublished'
  BY <1>0, <1>1, <1>2 DEF IInv, LivePublished, Exists, Published
<1>5. Idle("done") \in RequestStates /\ AtHand(Idle("done"))'
  BY IdleType DEF AtHand, Idle
<1>6. QED
  BY <1>0, <1>1, <1>3, <1>4, <1>5, MoveStep DEF Answer, TypeOK

-----------------------------------------------------------------------------
(* The invariant holds *)

LEMMA IInit == Init => IInv
<1> SUFFICES ASSUME Init PROVE IInv
  OBVIOUS
<1>1. TypeOK
  BY EmptyType, IdleType, ConstantsAssumption DEF Init, TypeOK
<1>2. \A r \in Requests : AtHand(req[r])
  BY IdleType DEF Init
<1>3. QED
  BY <1>1, <1>2 DEF Init, IInv, IdsInOrder, LivePublished, Exists

LEMMA INext == IInv /\ [Next]_vars => IInv'
<1> SUFFICES ASSUME IInv, [Next]_vars PROVE IInv'
  OBVIOUS
<1>1. ASSUME NEW r \in Requests, arrivals' = arrivals + 1, Arrive(r)
      PROVE  IInv'
  BY <1>1, ArriveStep DEF IInv, TypeOK
<1>2. ASSUME NEW r \in Requests, Work(r), UNCHANGED <<arrivals, overlapped>>
      PROVE  IInv'
  BY <1>2, ReadingStep, InsertStep, AppendStep, SealStep, SetLiveStep, DeleteStep DEF Work
<1>3. CASE UNCHANGED vars
  BY <1>3 DEF vars, IInv, TypeOK, IdsInOrder, LivePublished, AtHand, Exists, Published
<1>4. QED
  BY <1>1, <1>2, <1>3 DEF Next

LEMMA Invariance == Spec => []IInv
BY IInit, INext, PTL DEF Spec

\* Every variable of the pipeline keeps its type.
THEOREM TypeCorrect == Spec => []TypeOK
<1>1. IInv => TypeOK
  BY DEF IInv
<1>2. QED
  BY <1>1, Invariance, PTL

\* No step of any request takes away a change reported to a version that is
\* still a draft (appendChange, sealVersion, pruneHistory).
THEOREM PendingChangesStay == Spec => PendingChangesKept
<1>1. ASSUME IInv, [Next]_vars, NEW v \in Drafts
      PROVE  versions'[v] # None /\ versions[v].changes \subseteq versions'[v].changes
  <2>1. /\ v \in Ids /\ versions[v] # None /\ versions[v].status = "draft" /\ v <= created
        /\ versions \in [Ids -> Versions \cup {None}] /\ created \in Nat
        /\ versions[v] \in Versions
    BY <1>1 DEF Drafts, Exists, IInv, IdsInOrder, TypeOK
  <2>2. CASE versions' = versions
    BY <2>1, <2>2
  <2>3. ASSUME NEW r \in Requests, Insert(r)
        PROVE  versions'[v] = versions[v]
    <3>1. v # created + 1
      BY <2>1 DEF Ids
    <3>2. QED
      BY <2>1, <2>3, <3>1 DEF Insert
  <2>4. ASSUME NEW r \in Requests, Append(r) \/ Seal(r)
        PROVE  versions'[v] # None /\ versions[v].changes \subseteq versions'[v].changes
    <3>1. PICK row \in Versions :
            /\ versions'[v] = row
            /\ versions[v].changes \subseteq row.changes
      <4>1. CASE Append(r)
        <5>1. req[r].change \in Halves \X (1..MaxEdits)
          BY <1>1, <4>1 DEF IInv, AtHand, Append, At
        <5>2. [versions[v] EXCEPT !.changes = @ \cup {req[r].change}] \in Versions
          BY <2>1, <5>1 DEF Versions
        <5>3. \/ versions'[v] = versions[v]
              \/ versions'[v] = [versions[v] EXCEPT !.changes = @ \cup {req[r].change}]
          BY <2>1, <4>1 DEF Append
        <5>4. QED
          BY <2>1, <5>2, <5>3 DEF Versions
      <4>2. CASE Seal(r)
        BY <2>1, <4>2 DEF Seal, Versions
      <4>3. QED
        BY <2>4, <4>1, <4>2
    <3>2. QED
      BY <3>1, NoneIsNoVersion
  <2>5. ASSUME NEW r \in Requests, Delete(r)
        PROVE  versions'[v] = versions[v]
    BY <2>1, <2>5 DEF Delete, Prunable, Published
  <2>6. versions' = versions \/ \E r \in Requests : Insert(r) \/ Append(r) \/ Seal(r) \/ Delete(r)
    BY <1>1 DEF Next, vars, Arrive, Work, StartEdit, StartPublish, StartRollback, ReadWorking,
       ReadLive, Compare, Current, Find, ReadLatest, Refind, SetLive, ReadSurvivors,
       ReadProtected, Fail, Reads
  <2>7. QED
    BY <2>1, <2>2, <2>3, <2>4, <2>5, <2>6
<1>2. IInv /\ [Next]_vars => KeepsPending
  BY <1>1 DEF KeepsPending
<1>3. QED
  BY <1>2, Invariance, PTL DEF Spec, PendingChangesKept
-----------------------------------------------------------------------------
(* Version numbers: a request inserts the number after one that was given    *)
(* before, so none is skipped, though what it read may be pruned by then.    *)

Numbered ==
  /\ \E k \in Nat : numbers = 1..k
  /\ \A v \in Ids : Exists(v) => NumberOf(v) \in numbers
  /\ \A u, v \in Ids : Exists(u) /\ Exists(v) /\ NumberOf(u) = NumberOf(v) => u = v
  /\ \A r \in Requests : req[r].latest \in numbers \cup {0}

\* A step that numbers nothing: rows keep their numbers, if they stay.
LEMMA NumbersStay ==
  ASSUME Numbered, numbers' = numbers,
         \A v \in Ids : Exists(v)' => Exists(v) /\ versions'[v].number = versions[v].number,
         \A r \in Requests : req'[r].latest \in {0, req[r].latest}
  PROVE  Numbered'
BY DEF Numbered, NumberOf

\* A request that goes on with the number it has read, or ends.
LEMMA LatestStays ==
  ASSUME TypeOK, NEW r \in Requests, NEW local \in RequestStates, Become(r, local),
         local.latest \in {0, req[r].latest}
  PROVE  \A p \in Requests : req'[p].latest \in {0, req[p].latest}
BY BecomeType

LEMMA SameNumbers ==
  ASSUME UNCHANGED versions
  PROVE  \A v \in Ids : Exists(v)' => Exists(v) /\ versions'[v].number = versions[v].number
BY DEF Exists

LEMMA IdleLatest ==
  ASSUME NEW answer \in {"none", "done", "failed"}
  PROVE  Idle(answer) \in RequestStates /\ Idle(answer).latest = 0
BY IdleType DEF Idle

LEMMA StateLatest ==
  ASSUME TypeOK, NEW r \in Requests
  PROVE  req[r] \in RequestStates /\ req[r].latest \in Nat
BY DEF TypeOK, RequestStates

LEMMA NumbersInit == Init => Numbered
<1> SUFFICES ASSUME Init PROVE Numbered
  OBVIOUS
<1>1. numbers = 1..0 /\ 0 \in Nat
  BY DEF Init
<1>2. \A v \in Ids : ~Exists(v)
  BY DEF Init, Exists
<1>3. \A r \in Requests : req[r].latest = 0
  BY IdleLatest DEF Init
<1>4. QED
  BY <1>1, <1>2, <1>3 DEF Numbered

\* A request reads the highest number in use, and keeps it.
LEMMA ReadLatestNumbers ==
  ASSUME IInv, Numbered, NEW r \in Requests, ReadLatest(r)
  PROVE  Numbered'
<1>0. TypeOK /\ req[r] \in RequestStates /\ UNCHANGED <<versions, numbers>>
  BY StateLatest DEF IInv, ReadLatest, Reads
<1>1. PICK n : /\ n \in {NumberOf(v) : v \in {u \in Ids : Exists(u)}} \cup {0}
               /\ Become(r, [req[r] EXCEPT !.pc = "insert", !.latest = n])
  BY DEF ReadLatest
<1>2. n \in numbers \cup {0} /\ n \in Nat
  BY <1>0, <1>1 DEF Numbered, TypeOK
<1>3. [req[r] EXCEPT !.pc = "insert", !.latest = n] \in RequestStates
  BY <1>0, <1>2 DEF RequestStates, Pcs
<1>4. req'[r].latest = n /\ \A p \in Requests \ {r} : req'[p] = req[p]
  <2> DEFINE local == [req[r] EXCEPT !.pc = "insert", !.latest = n]
  <2>1. local \in RequestStates /\ Become(r, local) /\ local.latest = n
    BY <1>0, <1>1, <1>3 DEF RequestStates
  <2> HIDE DEF local
  <2>2. QED
    BY <1>0, <2>1, BecomeType
<1>5. QED
  BY <1>0, <1>2, <1>4 DEF Numbered, Exists, NumberOf

LEMMA InsertNumbers ==
  ASSUME IInv, Numbered, NEW r \in Requests, Insert(r)
  PROVE  Numbered'
<1> DEFINE q == req[r]
           number == q.latest + 1
           v == created + 1
           row == [number |-> number, status |-> "draft", snapshot |-> Empty, changes |-> {}]
<1>0. /\ q \in RequestStates /\ q.latest \in Nat /\ TypeOK
      /\ created \in 0..MaxVersions /\ versions \in [Ids -> Versions \cup {None}]
  BY StateLatest DEF IInv, TypeOK
<1>1. CASE \E u \in Ids : Exists(u) /\ NumberOf(u) = number
  <2> DEFINE local == [q EXCEPT !.pc = "refind"]
  <2>1. Become(r, local) /\ UNCHANGED <<versions, numbers>>
    BY <1>1 DEF Insert, Goto
  <2>2. local \in RequestStates /\ local.latest = q.latest
    BY <1>0 DEF RequestStates, Pcs
  <2>3. \A p \in Requests : req'[p].latest \in {0, req[p].latest}
    BY <1>0, <2>1, <2>2, LatestStays
  <2>4. QED
    BY <2>1, <2>3, SameNumbers, NumbersStay
<1>2. CASE ~ \E u \in Ids : Exists(u) /\ NumberOf(u) = number
  <2>1. /\ created < MaxVersions /\ versions' = [versions EXCEPT ![v] = row]
        /\ numbers' = numbers \cup {number} /\ Opened(r, v)
    BY <1>2 DEF Insert
  <2>2. v \in Ids /\ number \in Nat /\ row \in Versions /\ ~Exists(v)
    BY <1>0, <2>1, EmptyType, ConstantsAssumption DEF Ids, Versions, IInv, IdsInOrder
  <2>3. row # None /\ row.number = number
    BY <2>2, NoneIsNoVersion
  <2> HIDE DEF row
  <2>4. \A u \in Ids : versions'[u] = IF u = v THEN row ELSE versions[u]
    BY <1>0, <2>1
  <2>5. PICK new \in Ids :
          /\ ~Exists(new) /\ Exists(new)' /\ NumberOf(new)' = number
          /\ \A u \in Ids : u # new => (Exists(u)' <=> Exists(u)) /\ NumberOf(u)' = NumberOf(u)
    <3>1. PICK new \in Ids : new = v
      BY <2>2
    <3>2. ~Exists(new) /\ versions'[new] = row /\ \A u \in Ids : u # new => versions'[u] = versions[u]
      BY <2>2, <2>4, <3>1
    <3>3. QED
      BY <2>3, <3>2 DEF Exists, NumberOf
  <2>6. \E k \in Nat : numbers' = 1..k
    <3>1. PICK k \in Nat : numbers = 1..k
      BY DEF Numbered
    <3>2. q.latest \in 0..k
      BY <3>1 DEF Numbered
    <3>3. number \in 1..k \/ number = k + 1
      BY <3>1, <3>2
    <3>4. CASE number \in 1..k
      BY <2>1, <3>1, <3>4
    <3>5. CASE number = k + 1
      <4>1. numbers' = 1..(k + 1) /\ k + 1 \in Nat
        BY <2>1, <3>1, <3>5
      <4>2. QED
        BY <4>1
    <3>6. QED
      BY <3>3, <3>4, <3>5
  <2>7. \A p \in Requests : req'[p].latest \in {0, req[p].latest}
    <3> DEFINE pc == IF q.op = "edit" THEN "append" ELSE "seal"
               local == [q EXCEPT !.pc = pc, !.version = v]
    <3>1. Become(r, local) /\ pc \in Pcs
      BY <2>1 DEF Opened, Pcs
    <3> HIDE DEF pc
    <3>2. local \in RequestStates /\ local.latest = q.latest
      BY <1>0, <2>2, <3>1 DEF RequestStates
    <3>3. QED
      BY <1>0, <3>1, <3>2, LatestStays
  <2>8. \A u \in Ids : Exists(u) => NumberOf(u) # number
    BY <1>2
  <2>9. QED
    <3>1. \A u \in Ids : Exists(u)' => NumberOf(u)' \in numbers'
      BY <2>1, <2>5 DEF Numbered
    <3>2. \A u, w \in Ids : Exists(u)' /\ Exists(w)' /\ NumberOf(u)' = NumberOf(w)' => u = w
      BY <2>5, <2>8 DEF Numbered
    <3>3. \A p \in Requests : req'[p].latest \in numbers' \cup {0}
      BY <2>1, <2>7 DEF Numbered
    <3>4. QED
      BY <2>6, <3>1, <3>2, <3>3 DEF Numbered
<1>3. QED
  BY <1>1, <1>2

\* Rows are only changed or taken away.
LEMMA RowsNumbers ==
  ASSUME IInv, NEW r \in Requests, Append(r) \/ Seal(r) \/ Delete(r)
  PROVE  \A v \in Ids : Exists(v)' => Exists(v) /\ versions'[v].number = versions[v].number
<1> SUFFICES ASSUME NEW v \in Ids, Exists(v)'
             PROVE  Exists(v) /\ versions'[v].number = versions[v].number
  OBVIOUS
<1>0. versions \in [Ids -> Versions \cup {None}]
  BY DEF IInv, TypeOK
<1>1. CASE Append(r)
  <2>1. versions' = versions \/ /\ Exists(req[r].version)
                                /\ versions' = [versions EXCEPT ![req[r].version].changes = @ \cup {req[r].change}]
    BY <1>1 DEF Append
  <2>2. CASE versions' = versions
    BY <2>2 DEF Exists
  <2>3. CASE /\ Exists(req[r].version) /\ v = req[r].version
             /\ versions' = [versions EXCEPT ![req[r].version].changes = @ \cup {req[r].change}]
    <3>1. Exists(v) /\ versions[v] \in Versions
      BY <1>0, <2>3 DEF Exists
    <3>2. versions'[v] = [versions[v] EXCEPT !.changes = @ \cup {req[r].change}]
      BY <1>0, <2>3
    <3>3. QED
      BY <3>1, <3>2 DEF Versions
  <2>4. CASE /\ Exists(req[r].version) /\ v # req[r].version
             /\ versions' = [versions EXCEPT ![req[r].version].changes = @ \cup {req[r].change}]
    BY <1>0, <2>4 DEF Exists
  <2>5. QED
    BY <2>1, <2>2, <2>3, <2>4
<1>2. CASE Seal(r)
  <2> DEFINE u == req[r].version
             sealed == [versions[u] EXCEPT !.status = "published", !.snapshot = req[r].snapshot]
  <2>1. versions' = versions \/ (Exists(u) /\ versions' = [versions EXCEPT ![u] = sealed])
    <3>1. \/ versions' = versions
          \/ /\ Exists(u)
             /\ versions' = [versions EXCEPT ![u].status = "published", ![u].snapshot = req[r].snapshot]
      BY <1>2 DEF Seal
    <3>2. CASE /\ Exists(u)
               /\ versions' = [versions EXCEPT ![u].status = "published", ![u].snapshot = req[r].snapshot]
      <4>1. u \in Ids /\ versions[u] \in Versions
        BY <1>0, <3>2 DEF Exists
      <4>2. versions' = [versions EXCEPT ![u] = sealed]
        BY <1>0, <3>2, <4>1 DEF Versions
      <4>3. QED
        BY <3>2, <4>2
    <3> HIDE DEF sealed
    <3>3. QED
      BY <3>1, <3>2
  <2>2. CASE versions' = versions
    BY <2>2 DEF Exists
  <2>3. CASE Exists(u) /\ v = u /\ versions' = [versions EXCEPT ![u] = sealed]
    <3>1. Exists(v) /\ versions[v] \in Versions
      BY <1>0, <2>3 DEF Exists
    <3>2. versions'[v] = sealed
      BY <1>0, <2>3
    <3>3. QED
      BY <2>3, <3>1, <3>2 DEF Versions
  <2>4. CASE Exists(u) /\ v # u /\ versions' = [versions EXCEPT ![u] = sealed]
    <3>1. versions'[v] = versions[v]
      BY <1>0, <2>4
    <3>2. QED
      BY <3>1 DEF Exists
  <2>5. QED
    BY <2>1, <2>2, <2>3, <2>4
<1>3. CASE Delete(r)
  <2>1. versions'[v] = None \/ versions'[v] = versions[v]
    BY <1>3 DEF Delete
  <2>2. QED
    BY <2>1 DEF Exists
<1>4. QED
  BY <1>1, <1>2, <1>3
LEMMA NumbersNext == IInv /\ Numbered /\ [Next]_vars => Numbered'
<1> SUFFICES ASSUME IInv, Numbered, [Next]_vars PROVE Numbered'
  OBVIOUS
<1>0. TypeOK
  BY DEF IInv
\* A step that neither reads nor gives a number.
<1>1. ASSUME NEW r \in Requests, NEW local \in RequestStates, Become(r, local),
             local.latest \in {0, req[r].latest}, numbers' = numbers,
             \A v \in Ids : Exists(v)' => Exists(v) /\ versions'[v].number = versions[v].number
      PROVE  Numbered'
  BY <1>0, <1>1, LatestStays, NumbersStay
\* Idle, and then some fields set; the number it has read is not one of them.
<1>2. ASSUME NEW r \in Requests, Answer(r) \/ Throw(r), numbers' = numbers,
             \A v \in Ids : Exists(v)' => Exists(v) /\ versions'[v].number = versions[v].number
      PROVE  Numbered'
  BY <1>1, <1>2, IdleLatest DEF Answer, Throw
<1>3. ASSUME NEW r \in Requests, Arrive(r) PROVE Numbered'
  <2>1. UNCHANGED <<versions, numbers>>
    BY <1>3 DEF Arrive, StartEdit, StartPublish, StartRollback, Reads
  <2>2. PICK local : Become(r, local) /\ local.latest = 0
    <3>1. Idle("none").latest = 0 /\ Idle("failed").latest = 0
      BY IdleLatest
    <3> DEFINE idle == Idle("none")
               Edit(c) == [idle EXCEPT !.op = "edit", !.pc = "find", !.change = c]
               Publish(unread) == [idle EXCEPT !.op = "publish", !.pc = "read", !.liveRead = live,
                                               !.unread = unread]
               Rollback(v) == [idle EXCEPT !.op = "rollback", !.pc = "setLive", !.version = v]
    <3>2. /\ \A c : Edit(c).latest = 0
          /\ \A unread : Publish(unread).latest = 0
          /\ \A v : Rollback(v).latest = 0
      BY DEF Idle
    <3>3. \/ \E c : Become(r, Edit(c))
          \/ \E unread : Become(r, Publish(unread))
          \/ \E v : Become(r, Rollback(v))
          \/ Become(r, Idle("failed"))
      <4> HIDE DEF idle
      <4>1. CASE \E h \in Halves : StartEdit(r, h)
        BY <4>1 DEF StartEdit, idle
      <4>2. CASE StartPublish(r)
        BY <4>2 DEF StartPublish, idle
      <4>3. CASE \E v \in Ids : StartRollback(r, v)
        <5>1. PICK v : Become(r, IF Published(v) THEN Rollback(v) ELSE Idle("failed"))
          BY <4>3 DEF StartRollback, idle
        <5>2. QED
          BY <5>1
      <4>4. QED
        BY <1>3, <4>1, <4>2, <4>3 DEF Arrive
    <3> HIDE DEF Edit, Publish, Rollback
    <3>4. QED
      BY <3>1, <3>2, <3>3
  <2>3. \A p \in Requests : req'[p].latest \in {0, req[p].latest}
    BY <1>0, <2>2 DEF Become, TypeOK
  <2>4. QED
    BY <2>1, <2>3, SameNumbers, NumbersStay
<1>4. ASSUME NEW r \in Requests, Work(r) PROVE Numbered'
  <2> DEFINE q == req[r]
  <2>0. q \in RequestStates
    BY StateLatest DEF IInv
  <2>1. CASE ReadLatest(r)
    BY <2>1, ReadLatestNumbers
  <2>2. CASE Insert(r)
    BY <2>2, InsertNumbers
  <2>3. CASE Append(r) \/ Delete(r)
    BY <1>2, <2>3, RowsNumbers DEF Append, Delete
  <2>4. CASE Fail(r)
    BY <1>2, <2>4, SameNumbers DEF Fail, Reads
  <2>5. ASSUME NEW local, Become(r, local), local.latest \in {0, q.latest}, numbers' = numbers,
               \A v \in Ids : Exists(v)' => Exists(v) /\ versions'[v].number = versions[v].number
        PROVE  Numbered'
    <3>1. \A p \in Requests : req'[p].latest \in {0, req[p].latest}
      BY <1>0, <2>5 DEF Become, TypeOK
    <3>2. QED
      BY <2>5, <3>1, NumbersStay
  <2>6. ASSUME NEW pc, Goto(r, pc), numbers' = numbers,
               \A v \in Ids : Exists(v)' => Exists(v) /\ versions'[v].number = versions[v].number
        PROVE  Numbered'
    <3> DEFINE local == [q EXCEPT !.pc = pc]
    <3>1. Become(r, local) /\ local.latest = q.latest
      BY <2>0, <2>6 DEF Goto, RequestStates
    <3> HIDE DEF local
    <3>2. QED
      BY <2>5, <2>6, <3>1
  <2>7. CASE Seal(r)
    <3>1. numbers' = numbers /\ (Goto(r, "setLive") \/ Throw(r))
      BY <2>7 DEF Seal
    <3>2. QED
      BY <1>2, <2>6, <2>7, <3>1, RowsNumbers
  <2>8. CASE SetLive(r)
    <3>1. UNCHANGED <<versions, numbers>> /\ (Goto(r, "survivors") \/ Answer(r) \/ Throw(r))
      BY <2>8 DEF SetLive
    <3>2. QED
      BY <1>2, <2>6, <3>1, SameNumbers
  <2>9. CASE Compare(r) \/ Current(r)
    <3>1. UNCHANGED <<versions, numbers>> /\ (Goto(r, "current") \/ Goto(r, "find") \/ Answer(r))
      BY <2>9 DEF Compare, Current, Reads
    <3>2. QED
      BY <1>2, <2>6, <3>1, SameNumbers
  <2>10. CASE \/ \E h \in Halves : ReadWorking(r, h) \/ ReadLive(r, h)
              \/ ReadSurvivors(r) \/ ReadProtected(r)
    <3>1. PICK local : Become(r, local) /\ local.latest = q.latest
      <4>1. CASE \E h \in Halves : ReadWorking(r, h)
        <5>1. PICK h \in Halves : ReadWorking(r, h)
          BY <4>1
        <5> DEFINE local == [q EXCEPT !.unread = @ \ {<<"working", h>>}, !.snapshot[h] = working[h]]
        <5>2. Become(r, local) /\ local.latest = q.latest
          BY <2>0, <5>1 DEF ReadWorking, RequestStates
        <5>3. QED
          BY <5>2
      <4>2. CASE \E h \in Halves : ReadLive(r, h)
        <5>1. PICK h \in Halves : ReadLive(r, h)
          BY <4>2
        <5> DEFINE n == IF Exists(q.liveRead) THEN versions[q.liveRead].snapshot[h] ELSE 0
        <5> DEFINE local == [q EXCEPT !.unread = @ \ {<<"live", h>>}, !.liveSnapshot[h] = n]
        <5>2. Become(r, local) /\ local.latest = q.latest
          BY <2>0, <5>1 DEF ReadLive, RequestStates
        <5>3. QED
          BY <5>2
      <4>3. CASE ReadSurvivors(r) \/ ReadProtected(r)
        <5>1. PICK pc, kept : Become(r, [q EXCEPT !.pc = pc, !.kept = kept])
          BY <2>0, <4>3 DEF ReadSurvivors, ReadProtected, RequestStates
        <5> DEFINE local == [q EXCEPT !.pc = pc, !.kept = kept]
        <5>2. Become(r, local) /\ local.latest = q.latest
          BY <2>0, <5>1 DEF RequestStates
        <5>3. QED
          BY <5>2
      <4>4. QED
        BY <2>10, <4>1, <4>2, <4>3
    <3>2. UNCHANGED <<versions, numbers>>
      BY <2>10 DEF ReadWorking, ReadLive, ReadSurvivors, ReadProtected, Reads
    <3>3. QED
      BY <2>5, <3>1, <3>2, SameNumbers
  <2>11. CASE Find(r) \/ Refind(r)
    <3>1. UNCHANGED <<versions, numbers>>
      BY <2>11 DEF Find, Refind, Reads
    <3>2. PICK local : Become(r, local) /\ local.latest \in {0, q.latest}
      <4>1. \/ \E v \in Drafts : Opened(r, v)
            \/ Become(r, [q EXCEPT !.pc = "latest"])
            \/ Become(r, Idle("failed"))
            \/ Become(r, [q EXCEPT !.pc = "latest", !.attempt = @ + 1])
        BY <2>11 DEF Find, Refind, FindDraft
      <4>2. CASE \E v \in Drafts : Opened(r, v)
        <5>1. PICK v, pc : Become(r, [q EXCEPT !.pc = pc, !.version = v])
          BY <4>2 DEF Opened
        <5> DEFINE local == [q EXCEPT !.pc = pc, !.version = v]
        <5>2. Become(r, local) /\ local.latest = q.latest
          BY <2>0, <5>1 DEF RequestStates
        <5>3. QED
          BY <5>2
      <4>3. CASE Become(r, [q EXCEPT !.pc = "latest"])
        <5> DEFINE local == [q EXCEPT !.pc = "latest"]
        <5>1. Become(r, local) /\ local.latest = q.latest
          BY <2>0, <4>3 DEF RequestStates
        <5>2. QED
          BY <5>1
      <4>4. CASE Become(r, Idle("failed"))
        BY <4>4, IdleLatest
      <4>5. CASE Become(r, [q EXCEPT !.pc = "latest", !.attempt = @ + 1])
        <5> DEFINE local == [q EXCEPT !.pc = "latest", !.attempt = @ + 1]
        <5>1. Become(r, local) /\ local.latest = q.latest
          BY <2>0, <4>5 DEF RequestStates
        <5>2. QED
          BY <5>1
      <4>6. QED
        BY <4>1, <4>2, <4>3, <4>4, <4>5
    <3>3. QED
      BY <2>5, <3>1, <3>2, SameNumbers
  <2>12. QED
    BY <1>4, <2>1, <2>2, <2>3, <2>4, <2>7, <2>8, <2>9, <2>10, <2>11 DEF Work
<1>5. CASE UNCHANGED vars
  BY <1>5 DEF vars, Numbered, Exists, NumberOf
<1>6. QED
  BY <1>3, <1>4, <1>5 DEF Next

\* Numbers are given without a gap and never to two rows at once, however many
\* requests allocate, seal and prune side by side (createDraft, :125-161).
THEOREM NumbersStayGapless == Spec => []NumbersGapless
<1>1. Numbered => NumbersGapless
  <2> SUFFICES ASSUME Numbered PROVE numbers = 1..Cardinality(numbers)
    BY DEF Numbered, NumbersGapless
  <2>1. PICK k \in Nat : numbers = 1..k
    BY DEF Numbered
  <2>2. Cardinality(1..k) = k
    <3>1. 1 \in Int /\ k \in Int /\ k - 1 + 1 = k
      BY <2>1
    <3>2. Cardinality(1..k) = IF 1 > k THEN 0 ELSE k - 1 + 1
      BY <3>1, FS_Interval
    <3>3. QED
      BY <2>1, <3>1, <3>2
  <2>3. QED
    BY <2>1, <2>2
<1>2. QED
  BY <1>1, NumbersInit, NumbersNext, Invariance, PTL DEF Spec

-----------------------------------------------------------------------------
(* A publish that nothing overlaps takes effect *)

\* Where a publish has got to, when no other request has run since it began:
\* what it has read is still so, what it has sealed is the working copy, and
\* once it has repointed the environment that is what is live.
OnCourse(q) ==
  /\ q.answer = "none" /\ q.pc \notin {"idle", "append"}
  /\ q.pc = "read" =>
       /\ q.liveRead = live
       /\ \A h \in Halves :
            /\ <<"working", h>> \notin q.unread => q.snapshot[h] = working[h]
            /\ <<"live", h>> \notin q.unread /\ live # None
                 => q.liveSnapshot[h] = versions[live].snapshot[h]
  /\ q.pc \in {"find", "latest", "insert", "refind", "seal"} => q.snapshot = working
  /\ q.pc = "setLive" => Exists(q.version) /\ versions[q.version].snapshot = working
  /\ q.pc \in {"current", "survivors", "protect", "delete"} =>
       live # None /\ versions[live].snapshot = working
  /\ q.pc = "current" => q.liveRead = live
  /\ q.pc = "delete" => live \in q.kept

Alone(r) == \A p \in Requests \ {r} : ~Busy(p)

LonePublishes == \A r \in LoneOnes : Alone(r) /\ OnCourse(req[r])

\* One step of a publish that is on course.
LEMMA PublishStep ==
  ASSUME IInv, NEW r \in Requests, req[r].op = "publish", OnCourse(req[r]), Work(r)
  PROVE  /\ req'[r].op = "publish" => OnCourse(req[r])'
         /\ req'[r].answer = "done" => live' # None /\ versions'[live'].snapshot = working
<1> USE ConstantsAssumption
<1> DEFINE q == req[r]
<1>0. /\ TypeOK /\ q \in RequestStates /\ AtHand(q) /\ q.op = "publish" /\ OnCourse(q)
      /\ working \in Edits /\ versions \in [Ids -> Versions \cup {None}]
      /\ live \in Ids \cup {None} /\ (live # None => Exists(live))
      /\ q.answer = "none"
  BY DEF IInv, TypeOK, LivePublished, Published, OnCourse
<1>1. ASSUME NEW local, Become(r, local)
      PROVE  req'[r] = local
  BY <1>0, <1>1 DEF TypeOK, Become
<1>2. ASSUME Throw(r)
      PROVE  req'[r].op = "none" /\ req'[r].answer = "failed"
  BY <1>1, <1>2 DEF Throw, Idle
<1>3. ASSUME Answer(r)
      PROVE  req'[r].op = "none"
  BY <1>1, <1>3 DEF Answer, Idle
<1>4. ASSUME NEW pc \in Pcs, Goto(r, pc)
      PROVE  /\ req'[r].pc = pc /\ req'[r].answer = "none" /\ req'[r].kept = q.kept
             /\ req'[r].snapshot = q.snapshot /\ req'[r].liveRead = q.liveRead
             /\ req'[r].version = q.version
  BY <1>0, <1>1, <1>4 DEF Goto, RequestStates
<1>5. ASSUME NEW v \in Ids, Opened(r, v)
      PROVE  /\ req'[r].pc = "seal" /\ req'[r].answer = "none"
             /\ req'[r].snapshot = q.snapshot
  BY <1>0, <1>1, <1>5 DEF Opened, RequestStates
<1>6. ASSUME NEW h \in Halves, ReadWorking(r, h)
      PROVE  OnCourse(req[r])' /\ req'[r].answer = "none"
  <2> DEFINE unread == q.unread \ {<<"working", h>>}
             snapshot == [q.snapshot EXCEPT ![h] = working[h]]
             local == [q EXCEPT !.unread = unread, !.snapshot = snapshot]
  <2>1. q.pc = "read" /\ Reads /\ req'[r] = local
    BY <1>1, <1>6 DEF ReadWorking, At
  <2>2. /\ local.pc = "read" /\ local.answer = "none" /\ local.liveRead = live
        /\ local.unread = unread /\ local.snapshot = snapshot
        /\ local.liveSnapshot = q.liveSnapshot
    BY <1>0, <2>1 DEF RequestStates, OnCourse
  <2>3. \A g \in Halves : <<"working", g>> \notin unread => snapshot[g] = working[g]
    BY <1>0, <2>1 DEF OnCourse, RequestStates, Edits
  <2>4. \A g \in Halves : <<"live", g>> \notin unread /\ live # None
           => q.liveSnapshot[g] = versions[live].snapshot[g]
    BY <1>0, <2>1 DEF OnCourse
  <2> HIDE DEF local, unread, snapshot
  <2>5. QED
    BY <2>1, <2>2, <2>3, <2>4 DEF OnCourse, Reads
<1>7. ASSUME NEW h \in Halves, ReadLive(r, h)
      PROVE  OnCourse(req[r])' /\ req'[r].answer = "none"
  <2> DEFINE v == q.liveRead
             edits == IF Exists(v) THEN versions[v].snapshot[h] ELSE 0
             unread == q.unread \ {<<"live", h>>}
             snapshot == [q.liveSnapshot EXCEPT ![h] = edits]
             local == [q EXCEPT !.unread = unread, !.liveSnapshot = snapshot]
  <2>1. q.pc = "read" /\ Reads /\ req'[r] = local
    BY <1>1, <1>7 DEF ReadLive, At
  <2>2. v = live
    BY <1>0, <2>1 DEF OnCourse
  <2>3. live # None => edits = versions[live].snapshot[h]
    BY <1>0, <2>2
  <2>4. /\ local.pc = "read" /\ local.answer = "none" /\ local.liveRead = live
        /\ local.unread = unread /\ local.snapshot = q.snapshot
        /\ local.liveSnapshot = snapshot
    BY <1>0, <2>1, <2>2 DEF RequestStates
  <2> HIDE DEF edits
  <2>5. \A g \in Halves : <<"live", g>> \notin unread /\ live # None
           => snapshot[g] = versions[live].snapshot[g]
    BY <1>0, <2>1, <2>3 DEF OnCourse, RequestStates, Edits
  <2>6. \A g \in Halves : <<"working", g>> \notin unread => q.snapshot[g] = working[g]
    BY <1>0, <2>1 DEF OnCourse
  <2> HIDE DEF local, unread, snapshot
  <2>7. QED
    BY <2>1, <2>4, <2>5, <2>6 DEF OnCourse, Reads
<1>8. CASE Compare(r)
  <2>1. q.pc = "read" /\ Reads /\ q.unread = {} /\ q.liveRead = live
    BY <1>0, <1>8 DEF Compare, At, OnCourse
  <2>2. q.snapshot = working
    BY <1>0, <2>1 DEF OnCourse, RequestStates, Edits
  <2>3. CASE live # None /\ q.snapshot = q.liveSnapshot
    <3>1. versions[live] \in Versions
      BY <1>0, <2>3 DEF Exists
    <3>2. q.liveSnapshot = versions[live].snapshot
      BY <1>0, <2>1, <2>3, <3>1 DEF OnCourse, RequestStates, Edits, Versions
    <3>3. Goto(r, "current")
      BY <1>8, <2>1, <2>3 DEF Compare
    <3>4. req'[r].pc = "current" /\ req'[r].answer = "none" /\ req'[r].liveRead = live
      BY <1>4, <2>1, <3>3 DEF Pcs
    <3>5. QED
      BY <2>1, <2>2, <2>3, <3>2, <3>4 DEF OnCourse, Reads
  <2>4. CASE ~(live # None /\ q.snapshot = q.liveSnapshot)
    <3>1. Goto(r, "find")
      BY <1>8, <2>1, <2>4 DEF Compare
    <3>2. req'[r].pc = "find" /\ req'[r].answer = "none" /\ req'[r].snapshot = working
      BY <1>4, <2>2, <3>1 DEF Pcs
    <3>3. QED
      BY <2>1, <3>2 DEF OnCourse, Reads
  <2>5. QED
    BY <2>3, <2>4
<1>9. CASE Current(r)
  <2>1. q.pc = "current" /\ Reads /\ Exists(q.liveRead) /\ live # None
        /\ versions[live].snapshot = working
    BY <1>0, <1>9 DEF Current, At, OnCourse
  <2>2. Answer(r)
    BY <1>9, <2>1 DEF Current
  <2>3. QED
    BY <1>3, <2>1, <2>2 DEF Reads
<1>10. ASSUME q.snapshot = working, NEW v \in Ids, Opened(r, v), UNCHANGED working
       PROVE  OnCourse(req[r])' /\ req'[r].answer = "none"
  BY <1>5, <1>10 DEF OnCourse
<1>11. CASE Find(r)
  <2>1. q.snapshot = working /\ Reads
    BY <1>0, <1>11 DEF Find, At, OnCourse
  <2>2. CASE \E v \in Drafts : Opened(r, v)
    BY <1>10, <2>1, <2>2 DEF Drafts, Reads
  <2>3. CASE Goto(r, "latest")
    <3>1. req'[r].pc = "latest" /\ req'[r].answer = "none" /\ req'[r].snapshot = working
      BY <1>4, <2>1, <2>3 DEF Pcs
    <3>2. QED
      BY <2>1, <3>1 DEF OnCourse, Reads
  <2>4. QED
    BY <1>11, <2>2, <2>3 DEF Find, FindDraft, Goto
<1>12. CASE ReadLatest(r)
  <2>1. q.snapshot = working /\ Reads
    BY <1>0, <1>12 DEF ReadLatest, At, OnCourse
  <2>2. PICK n : Become(r, [q EXCEPT !.pc = "insert", !.latest = n])
    BY <1>12 DEF ReadLatest
  <2>3. req'[r].pc = "insert" /\ req'[r].answer = "none" /\ req'[r].snapshot = working
    BY <1>0, <1>1, <2>1, <2>2 DEF RequestStates
  <2>4. QED
    BY <2>1, <2>3 DEF OnCourse, Reads
<1>13. CASE Insert(r)
  <2>1. q.snapshot = working /\ UNCHANGED working
    BY <1>0, <1>13 DEF Insert, At, OnCourse
  <2>2. CASE Goto(r, "refind")
    <3>1. req'[r].pc = "refind" /\ req'[r].answer = "none" /\ req'[r].snapshot = working
      BY <1>4, <2>1, <2>2 DEF Pcs
    <3>2. QED
      BY <2>1, <3>1 DEF OnCourse
  <2>3. CASE created < MaxVersions /\ Opened(r, created + 1)
    <3>1. created + 1 \in Ids
      BY <1>0, <2>3 DEF TypeOK, Ids
    <3>2. QED
      BY <1>10, <2>1, <2>3, <3>1
  <2>4. QED
    BY <1>13, <2>2, <2>3 DEF Insert
<1>14. CASE Refind(r)
  <2>1. q.snapshot = working /\ Reads
    BY <1>0, <1>14 DEF Refind, At, OnCourse
  <2>2. CASE \E v \in Drafts : Opened(r, v)
    BY <1>10, <2>1, <2>2 DEF Drafts, Reads
  <2>3. CASE Throw(r)
    BY <1>2, <2>3
  <2>4. CASE Become(r, [q EXCEPT !.pc = "latest", !.attempt = @ + 1])
    <3>1. req'[r].pc = "latest" /\ req'[r].answer = "none" /\ req'[r].snapshot = working
      BY <1>0, <1>1, <2>1, <2>4 DEF RequestStates
    <3>2. QED
      BY <2>1, <3>1 DEF OnCourse, Reads
  <2>5. QED
    BY <1>14, <2>2, <2>3, <2>4 DEF Refind, FindDraft, Throw
<1>15. CASE Seal(r)
  <2>1. q.snapshot = working /\ q.version \in Ids /\ UNCHANGED <<working, live>>
    BY <1>0, <1>15 DEF Seal, At, OnCourse, AtHand
  <2>2. CASE Exists(q.version)
    <3> DEFINE v == q.version
               row == [[versions[v] EXCEPT !.status = "published"] EXCEPT !.snapshot = working]
    <3>1. versions' = [versions EXCEPT ![v] = row] /\ Goto(r, "setLive")
      BY <1>0, <1>15, <2>1, <2>2 DEF Seal
    <3>2. versions[v] \in Versions
      BY <1>0, <2>1, <2>2 DEF Exists
    <3>3. row.snapshot = working /\ row \in Versions
      BY <1>0, <3>2 DEF Versions
    <3>4. row # None
      BY <3>3, NoneIsNoVersion
    <3>5. PICK u \in Ids : u = q.version
      BY <2>1
    <3>6. versions'[u] = row
      BY <1>0, <3>1, <3>5
    <3>7. /\ req'[r].pc = "setLive" /\ req'[r].answer = "none" /\ req'[r].version = u
      BY <1>4, <3>1, <3>5 DEF Pcs
    <3> HIDE DEF row
    <3>8. QED
      BY <2>1, <3>3, <3>4, <3>6, <3>7 DEF OnCourse, Exists
  <2>3. CASE ~Exists(q.version)
    BY <1>2, <1>15, <2>3 DEF Seal
  <2>4. QED
    BY <2>2, <2>3
<1>16. CASE SetLive(r)
  <2>1. Exists(q.version) /\ versions[q.version].snapshot = working
    BY <1>0, <1>16 DEF SetLive, At, OnCourse
  <2>2. live' = q.version /\ Goto(r, "survivors") /\ UNCHANGED <<working, versions>>
    BY <1>0, <1>16, <2>1 DEF SetLive
  <2>3. req'[r].pc = "survivors" /\ req'[r].answer = "none"
    BY <1>4, <2>2 DEF Pcs
  <2>4. live' # None /\ versions'[live'].snapshot = working'
    BY <2>1, <2>2 DEF Exists, Ids
  <2>5. QED
    BY <2>3, <2>4 DEF OnCourse
<1>17. CASE ReadSurvivors(r)
  <2>1. Reads /\ live # None /\ versions[live].snapshot = working
    BY <1>0, <1>17 DEF ReadSurvivors, At, OnCourse
  <2>2. PICK kept : Become(r, [q EXCEPT !.pc = "protect", !.kept = kept])
    BY <1>17 DEF ReadSurvivors
  <2>3. req'[r].pc = "protect" /\ req'[r].answer = "none"
    BY <1>0, <1>1, <2>2 DEF RequestStates
  <2>4. QED
    BY <2>1, <2>3 DEF OnCourse, Reads
<1>18. CASE ReadProtected(r)
  <2> DEFINE kept == q.kept \cup (IF live = None THEN {} ELSE {live})
             local == [q EXCEPT !.pc = "delete", !.kept = kept]
  <2>1. Reads /\ live # None /\ versions[live].snapshot = working
    BY <1>0, <1>18 DEF ReadProtected, At, OnCourse
  <2>2. req'[r] = local
    BY <1>1, <1>18 DEF ReadProtected
  <2>3. local.pc = "delete" /\ local.answer = "none" /\ live \in local.kept
    BY <1>0, <2>1 DEF RequestStates
  <2> HIDE DEF local
  <2>4. QED
    BY <2>1, <2>2, <2>3 DEF OnCourse, Reads
<1>19. CASE Delete(r)
  <2>1. live # None /\ versions[live].snapshot = working /\ live \in q.kept
    BY <1>0, <1>19 DEF Delete, At, OnCourse
  <2>2. live \notin Prunable(r)
    BY <2>1 DEF Prunable
  <2>3. live' = live /\ versions'[live] = versions[live] /\ Answer(r)
    BY <1>0, <1>19, <2>1, <2>2 DEF Delete
  <2>4. QED
    BY <1>3, <2>1, <2>3
<1>20. CASE Fail(r)
  BY <1>2, <1>20 DEF Fail
<1>21. ~Append(r)
  BY <1>0 DEF Append, At, OnCourse
<1>22. QED
  BY <1>6, <1>7, <1>8, <1>9, <1>11, <1>12, <1>13, <1>14, <1>15, <1>16, <1>17, <1>18, <1>19,
     <1>20, <1>21 DEF Work

\* Who works is busy, and stays with its operation until it ends.
LEMMA WorkIsBusy ==
  ASSUME IInv, NEW r \in Requests, Work(r)
  PROVE  /\ Busy(r)
         /\ req'[r].op \in {"none", req[r].op}
         /\ \A p \in Requests \ {r} : req'[p] = req[p]
<1> DEFINE q == req[r]
<1>0. TypeOK /\ q \in RequestStates
  BY DEF IInv, TypeOK
<1>1. Busy(r)
  BY DEF Work, ReadWorking, ReadLive, Compare, Current, Find, ReadLatest, Insert, Refind,
     Append, Seal, SetLive, ReadSurvivors, ReadProtected, Delete, Fail, At, Busy
<1>2. ASSUME NEW local, Become(r, local)
      PROVE  req'[r] = local /\ \A p \in Requests \ {r} : req'[p] = req[p]
  BY <1>0, <1>2 DEF TypeOK, Become
<1> DEFINE Stays(local) == local.op \in {"none", q.op}
<1>3. \E local : Become(r, local) /\ Stays(local)
  <2>1. ASSUME Throw(r) \/ Answer(r)
        PROVE  \E local : Become(r, local) /\ Stays(local)
    <3>1. Stays(Idle("failed")) /\ Stays(Idle("done"))
      BY DEF Idle
    <3>2. QED
      BY <2>1, <3>1 DEF Throw, Answer
  <2>2. ASSUME NEW pc, Goto(r, pc)
        PROVE  \E local : Become(r, local) /\ Stays(local)
    <3>1. Stays([q EXCEPT !.pc = pc])
      BY <1>0 DEF RequestStates
    <3>2. QED
      BY <2>2, <3>1 DEF Goto
  <2>3. ASSUME NEW v, Opened(r, v)
        PROVE  \E local : Become(r, local) /\ Stays(local)
    <3> DEFINE pc == IF q.op = "edit" THEN "append" ELSE "seal"
               local == [q EXCEPT !.pc = pc, !.version = v]
    <3>1. Stays(local)
      BY <1>0 DEF RequestStates
    <3>2. QED
      BY <2>3, <3>1 DEF Opened
  <2>4. ASSUME NEW h \in Halves, ReadWorking(r, h) \/ ReadLive(r, h)
        PROVE  \E local : Become(r, local) /\ Stays(local)
    <3>1. ASSUME NEW unread, NEW snapshot
          PROVE  /\ Stays([q EXCEPT !.unread = unread, !.snapshot = snapshot])
                 /\ Stays([q EXCEPT !.unread = unread, !.liveSnapshot = snapshot])
      BY <1>0 DEF RequestStates
    <3>2. \E unread, snapshot :
            \/ Become(r, [q EXCEPT !.unread = unread, !.snapshot = snapshot])
            \/ Become(r, [q EXCEPT !.unread = unread, !.liveSnapshot = snapshot])
      BY <2>4 DEF ReadWorking, ReadLive
    <3>3. QED
      BY <3>1, <3>2
  <2>5. CASE Compare(r) \/ Current(r)
    BY <2>1, <2>2, <2>5 DEF Compare, Current
  <2>6. CASE Find(r) \/ Refind(r)
    <3>1. ASSUME NEW n
          PROVE  Stays([q EXCEPT !.pc = "latest", !.attempt = n])
      BY <1>0 DEF RequestStates
    <3>2. Find(r) => Goto(r, "latest") \/ \E v \in Drafts : Opened(r, v)
      BY DEF Find, FindDraft, Goto
    <3>3. Refind(r) => \/ Throw(r) \/ \E v \in Drafts : Opened(r, v)
                       \/ Become(r, [q EXCEPT !.pc = "latest", !.attempt = q.attempt + 1])
      BY DEF Refind, FindDraft, Throw
    <3>4. QED
      BY <2>1, <2>2, <2>3, <2>6, <3>1, <3>2, <3>3
  <2>7. CASE ReadLatest(r)
    <3>1. ASSUME NEW n
          PROVE  Stays([q EXCEPT !.pc = "insert", !.latest = n])
      BY <1>0 DEF RequestStates
    <3>2. \E n : Become(r, [q EXCEPT !.pc = "insert", !.latest = n])
      BY <2>7 DEF ReadLatest
    <3>3. QED
      BY <3>1, <3>2
  <2>8. CASE Insert(r)
    BY <2>2, <2>3, <2>8 DEF Insert
  <2>9. CASE Append(r) \/ Seal(r) \/ SetLive(r) \/ Delete(r) \/ Fail(r)
    BY <2>1, <2>2, <2>9 DEF Append, Seal, SetLive, Delete, Fail
  <2>10. CASE ReadSurvivors(r) \/ ReadProtected(r)
    <3>1. ASSUME NEW pc, NEW kept
          PROVE  Stays([q EXCEPT !.pc = pc, !.kept = kept])
      BY <1>0 DEF RequestStates
    <3>2. \/ \E kept : Become(r, [q EXCEPT !.pc = "protect", !.kept = kept])
          \/ \E kept : Become(r, [q EXCEPT !.pc = "delete", !.kept = kept])
      BY <2>10 DEF ReadSurvivors, ReadProtected
    <3>3. QED
      BY <3>1, <3>2
  <2>11. QED
    BY <2>4, <2>5, <2>6, <2>7, <2>8, <2>9, <2>10 DEF Work
<1>4. QED
  BY <1>1, <1>2, <1>3

LEMMA WorkLone ==
  ASSUME IInv, LonePublishes, NEW r \in Requests, Work(r), UNCHANGED overlapped
  PROVE  LonePublishes'
<1>0. Busy(r) /\ req'[r].op \in {"none", req[r].op}
      /\ \A p \in Requests \ {r} : req'[p] = req[p]
  BY WorkIsBusy
<1>1. ASSUME NEW p \in Requests, req'[p].op = "publish", p \notin overlapped
      PROVE  p = r /\ p \in LoneOnes
  <2>1. p \in LoneOnes
    BY <1>0, <1>1 DEF LoneOnes
  <2>2. QED
    BY <1>0, <2>1 DEF LonePublishes, Alone
<1>2. ASSUME req'[r].op = "publish", r \in LoneOnes
      PROVE  Alone(r)' /\ OnCourse(req[r])'
  <2>1. req[r].op = "publish" /\ OnCourse(req[r]) /\ Alone(r)
    BY <1>2 DEF LonePublishes, LoneOnes
  <2>2. OnCourse(req[r])'
    BY <1>2, <2>1, PublishStep
  <2>3. Alone(r)'
    BY <1>0, <2>1 DEF Alone, Busy
  <2>4. QED
    BY <2>2, <2>3
<1>3. QED
  BY <1>1, <1>2 DEF LonePublishes, LoneOnes

LEMMA ArriveLone ==
  ASSUME IInv, LonePublishes, NEW r \in Requests, Arrive(r)
  PROVE  LonePublishes'
<1> DEFINE others == {p \in Requests \ {r} : Busy(p)}
<1>0. TypeOK
  BY DEF IInv
<1>1. overlapped' = IF others = {} THEN overlapped \ {r} ELSE overlapped \cup others \cup {r}
  BY DEF Arrive, StartEdit, StartPublish, StartRollback, Arrives
<1>2. \A p \in Requests \ {r} : req'[p] = req[p]
  <2>1. \E local : Become(r, local)
    BY DEF Arrive, StartEdit, StartPublish, StartRollback
  <2>2. QED
    BY <1>0, <2>1 DEF TypeOK, Become
<1>3. ASSUME NEW p \in Requests, p # r, req'[p].op = "publish", p \notin overlapped'
      PROVE  FALSE
  <2>1. p \in LoneOnes
    BY <1>1, <1>2, <1>3 DEF LoneOnes
  <2>2. Busy(p)
    BY <2>1 DEF LonePublishes, OnCourse, Busy
  <2>3. QED
    BY <1>1, <1>3, <2>2
<1>4. ASSUME req'[r].op = "publish", r \notin overlapped'
      PROVE  Alone(r)' /\ OnCourse(req[r])'
  <2>1. Alone(r)'
    BY <1>1, <1>2, <1>4 DEF Alone, Busy
  <2>2. ASSUME NEW local, Become(r, local)
        PROVE  req'[r] = local
    BY <1>0, <2>2 DEF TypeOK, Become
  <2>3. CASE StartPublish(r)
    <3> DEFINE sides == IF live = None THEN {"working"} ELSE {"working", "live"}
               unread == sides \X Halves
               local == [Idle("none") EXCEPT !.op = "publish", !.pc = "read",
                                             !.liveRead = live, !.unread = unread]
    <3>1. req'[r] = local /\ Reads
      BY <2>2, <2>3 DEF StartPublish
    <3>2. local.pc = "read" /\ local.answer = "none" /\ local.liveRead = live
          /\ local.unread = unread
      BY DEF Idle
    <3>3. \A h \in Halves : <<"working", h>> \in unread /\ (live # None => <<"live", h>> \in unread)
      OBVIOUS
    <3> HIDE DEF local, unread
    <3>4. QED
      BY <2>1, <3>1, <3>2, <3>3 DEF OnCourse, Reads
  <2>4. ASSUME NEW h \in Halves, StartEdit(r, h)
        PROVE  FALSE
    BY <1>4, <2>2, <2>4 DEF StartEdit, Idle
  <2>5. ASSUME NEW v \in Ids, StartRollback(r, v)
        PROVE  FALSE
    <3> DEFINE local == [Idle("none") EXCEPT !.op = "rollback", !.pc = "setLive", !.version = v]
    <3>1. Become(r, local) \/ Become(r, Idle("failed"))
      BY <2>5 DEF StartRollback
    <3>2. local.op = "rollback" /\ Idle("failed").op = "none"
      BY DEF Idle
    <3> HIDE DEF local
    <3>3. QED
      BY <1>4, <2>2, <3>1, <3>2
  <2>6. QED
    BY <2>3, <2>4, <2>5 DEF Arrive
<1>5. QED
  BY <1>3, <1>4 DEF LonePublishes, LoneOnes

LEMMA LoneNext == IInv /\ LonePublishes /\ [Next]_vars => LonePublishes'
<1> SUFFICES ASSUME IInv, LonePublishes, [Next]_vars
             PROVE  LonePublishes'
  OBVIOUS
<1>1. CASE UNCHANGED vars
  BY <1>1 DEF vars, LonePublishes, LoneOnes, Alone, Busy, OnCourse, Exists
<1>2. QED
  BY <1>1, ArriveLone, WorkLone DEF Next

\* domain/versions/version-service.ts:329-377: a publish that nothing overlaps
\* and that is answered leaves the working copy live, whatever drafts, sealed
\* versions and half-done publishes it found.
THEOREM LonePublishTakesEffect == Spec => PublishEffective
<1>1. Init => LonePublishes
  BY DEF Init, LonePublishes, LoneOnes, Idle
<1>2. IInv /\ LonePublishes /\ [Next]_vars
        => [\A r \in LoneOnes :
              req'[r].answer = "done" => live' # None /\ versions'[live'].snapshot = working]_vars
  <2> SUFFICES ASSUME IInv, LonePublishes, Next, NEW r \in LoneOnes, req'[r].answer = "done"
               PROVE  live' # None /\ versions'[live'].snapshot = working
    OBVIOUS
  <2>0. r \in Requests /\ req[r].op = "publish" /\ OnCourse(req[r]) /\ Alone(r) /\ Busy(r)
        /\ req[r].answer = "none"
    BY DEF LoneOnes, LonePublishes, OnCourse, Busy
  <2>1. PICK p \in Requests : Arrive(p) \/ Work(p)
    BY DEF Next
  <2>2. CASE p = r /\ Work(p)
    BY <2>0, <2>2, PublishStep
  <2>3. CASE p = r /\ Arrive(p)
    BY <2>0, <2>3 DEF Arrive, StartEdit, StartPublish, StartRollback, At, Busy
  <2>4. CASE p # r /\ Work(p)
    BY <2>0, <2>4, WorkIsBusy
  <2>5. CASE p # r /\ Arrive(p)
    <3>1. \E local : Become(p, local)
      BY <2>5 DEF Arrive, StartEdit, StartPublish, StartRollback
    <3>2. req'[r] = req[r]
      BY <2>0, <2>5, <3>1 DEF IInv, TypeOK, Become
    <3>3. QED
      BY <2>0, <3>2
  <2>6. QED
    BY <2>1, <2>2, <2>3, <2>4, <2>5
<1>3. QED
  BY <1>1, <1>2, Invariance, LoneNext, PTL DEF Spec, PublishEffective

-----------------------------------------------------------------------------
(* What was published stays live *)

\* The version being served is live, and every prune that has read what to
\* keep keeps it: one that has not will still read it as the live one.
Guarded ==
  served # None =>
    /\ live = served
    /\ \A p \in Requests : At(p, "delete") => served \in req[p].kept

\* A request that neither repoints the environment nor deletes is not about to
\* delete either, unless it has just read the live version.
LEMMA NotDeleting ==
  ASSUME IInv, NEW r \in Requests, Arrive(r) \/ Work(r),
         ~SetLive(r), ~Delete(r), ~ReadProtected(r)
  PROVE  req'[r].pc # "delete" /\ UNCHANGED <<live, served>>
<1> DEFINE q == req[r]
           Goal == req'[r].pc # "delete"
<1>0. /\ req \in [Requests -> RequestStates] /\ q \in RequestStates
  BY DEF IInv, TypeOK
<1>1. ASSUME NEW local, Become(r, local)
      PROVE  req'[r] = local
  BY <1>0, <1>1 DEF Become
<1>2. Answer(r) \/ Throw(r) => Goal
  BY <1>1 DEF Answer, Throw, Idle
<1>3. ASSUME NEW pc, Goto(r, pc), pc # "delete"
      PROVE  Goal
  BY <1>0, <1>1, <1>3 DEF Goto, RequestStates
<1>4. ASSUME NEW v, Opened(r, v)
      PROVE  Goal
  <2> DEFINE local == [q EXCEPT !.pc = IF q.op = "edit" THEN "append" ELSE "seal",
                                !.version = v]
  <2>1. local.pc # "delete"
    BY <1>0 DEF RequestStates
  <2>2. QED
    BY <1>1, <1>4, <2>1 DEF Opened
<1>5. ASSUME NEW h \in Halves, StartEdit(r, h)
      PROVE  Goal /\ UNCHANGED <<live, served>>
  BY <1>1, <1>5 DEF StartEdit, Idle
<1>6. CASE StartPublish(r)
  BY <1>1, <1>6 DEF StartPublish, Idle, Reads
<1>7. ASSUME NEW v \in Ids, StartRollback(r, v)
      PROVE  Goal /\ UNCHANGED <<live, served>>
  <2>1. UNCHANGED <<live, served>>
    BY <1>7 DEF StartRollback, Reads
  <2>2. ASSUME Become(r, [Idle("none") EXCEPT !.op = "rollback", !.pc = "setLive", !.version = v])
        PROVE  Goal
    BY <1>1, <2>2 DEF Idle
  <2>3. Become(r, Idle("failed")) => Goal
    BY <1>1 DEF Idle
  <2>4. QED
    BY <1>7, <2>1, <2>2, <2>3 DEF StartRollback
<1>8. ASSUME NEW h \in Halves, ReadWorking(r, h) \/ ReadLive(r, h)
      PROVE  Goal /\ UNCHANGED <<live, served>>
  <2>1. q.pc = "read" /\ UNCHANGED <<live, served>>
    BY <1>8 DEF ReadWorking, ReadLive, At, Reads
  <2>2. ASSUME NEW unread, NEW x,
               \/ Become(r, [q EXCEPT !.unread = unread, !.snapshot[h] = x])
               \/ Become(r, [q EXCEPT !.unread = unread, !.liveSnapshot[h] = x])
        PROVE  Goal
    BY <1>0, <1>1, <2>1, <2>2 DEF RequestStates
  <2>3. Goal
    BY <1>8, <2>2 DEF ReadWorking, ReadLive
  <2>4. QED
    BY <2>1, <2>3
<1>9. CASE Compare(r) \/ Current(r)
  BY <1>2, <1>3, <1>9 DEF Compare, Current, Reads
<1>10. CASE Find(r)
  <2>1. ASSUME Become(r, [q EXCEPT !.pc = "latest"])
        PROVE  Goal
    BY <1>0, <1>1, <2>1 DEF RequestStates
  <2>2. QED
    BY <1>4, <1>10, <2>1 DEF Find, FindDraft, Reads
<1>11. CASE ReadLatest(r)
  <2>1. ASSUME NEW n, Become(r, [q EXCEPT !.pc = "insert", !.latest = n])
        PROVE  Goal
    BY <1>0, <1>1, <2>1 DEF RequestStates
  <2>2. QED
    BY <1>11, <2>1 DEF ReadLatest, Reads
<1>12. CASE Insert(r)
  BY <1>3, <1>4, <1>12 DEF Insert
<1>13. CASE Refind(r)
  <2>1. ASSUME NEW n, Become(r, [q EXCEPT !.pc = "latest", !.attempt = n])
        PROVE  Goal
    BY <1>0, <1>1, <2>1 DEF RequestStates
  <2>2. Become(r, Idle("failed")) => Goal
    BY <1>1 DEF Idle
  <2>3. QED
    BY <1>4, <1>13, <2>1, <2>2 DEF Refind, FindDraft, Reads
<1>14. CASE Append(r) \/ Fail(r)
  BY <1>2, <1>14 DEF Append, Fail, Reads
<1>15. CASE Seal(r)
  BY <1>2, <1>3, <1>15 DEF Seal
<1>16. CASE ReadSurvivors(r)
  <2>1. ASSUME NEW kept, Become(r, [q EXCEPT !.pc = "protect", !.kept = kept])
        PROVE  Goal
    BY <1>0, <1>1, <2>1 DEF RequestStates
  <2>2. QED
    BY <1>16, <2>1 DEF ReadSurvivors, Reads
<1>17. QED
  BY <1>5, <1>6, <1>7, <1>8, <1>9, <1>10, <1>11, <1>12, <1>13, <1>14, <1>15, <1>16
     DEF Arrive, Work

LEMMA GuardStep ==
  ASSUME IInv, Guarded, NEW r \in Requests, Arrive(r) \/ Work(r)
  PROVE  Guarded'
<1> DEFINE q == req[r]
           v == q.version
<1>0. /\ TypeOK /\ q \in RequestStates
      /\ \A p \in Requests \ {r} : req'[p] = req[p]
  <2>1. TypeOK /\ q \in RequestStates
    BY DEF IInv, TypeOK
  <2>2. Arrive(r) => \E local : Become(r, local)
    BY DEF Arrive, StartEdit, StartPublish, StartRollback
  <2>3. QED
    BY <2>1, <2>2, WorkIsBusy DEF TypeOK, Become
<1>1. CASE SetLive(r) /\ ~Exists(v)
  <2>1. req'[r].pc = "idle" /\ UNCHANGED <<live, served>>
    BY <1>0, <1>1 DEF SetLive, Throw, Become, Idle, TypeOK
  <2>2. QED
    BY <1>0, <2>1 DEF Guarded, At
<1>2. CASE SetLive(r) /\ Exists(v)
  <2>1. req'[r].pc # "delete"
    BY <1>0, <1>2 DEF SetLive, Goto, Answer, Become, Idle, TypeOK, RequestStates
  <2>2. live' = v /\ served' = IF Doomed(v) THEN None ELSE v
    BY <1>2 DEF SetLive
  <2>3. QED
    BY <1>0, <2>1, <2>2 DEF Guarded, Doomed, At
<1>3. CASE Delete(r)
  <2>1. /\ req'[r].pc = "idle" /\ UNCHANGED served
        /\ live' = IF live \in Prunable(r) THEN None ELSE live
    BY <1>0, <1>3 DEF Delete, Answer, Become, Idle, TypeOK
  <2>2. served # None => live' = served
    BY <1>3, <2>1 DEF Guarded, Delete, Prunable
  <2>3. QED
    BY <1>0, <2>1, <2>2 DEF Guarded, At
<1>4. CASE ReadProtected(r)
  <2> DEFINE local == [q EXCEPT !.pc = "delete",
                                !.kept = @ \cup (IF live = None THEN {} ELSE {live})]
  <2>1. req'[r] = local /\ UNCHANGED <<live, served>>
    BY <1>0, <1>4 DEF ReadProtected, Become, Reads, TypeOK
  <2>2. local.kept = q.kept \cup (IF live = None THEN {} ELSE {live})
    BY <1>0 DEF RequestStates
  <2>3. QED
    BY <1>0, <2>1, <2>2 DEF Guarded, At
<1>5. CASE ~SetLive(r) /\ ~Delete(r) /\ ~ReadProtected(r)
  <2>1. req'[r].pc # "delete" /\ UNCHANGED <<live, served>>
    BY <1>5, NotDeleting
  <2>2. QED
    BY <1>0, <2>1 DEF Guarded, At
<1>6. QED
  BY <1>1, <1>2, <1>3, <1>4, <1>5

\* However many publishes, rollbacks and prunes run side by side, and wherever
\* any of them fails, an environment that was published serves the sealed
\* version last made live, unless a prune had by then read what to keep
\* (version-service.ts:329-394, pruneHistory).
THEOREM LiveStaysSealed == Spec => []LiveIsSealed
<1>1. Init => Guarded
  BY DEF Init, Guarded
<1>2. IInv /\ Guarded /\ [Next]_vars => Guarded'
  <2>1. ASSUME IInv, Guarded, UNCHANGED vars
        PROVE  Guarded'
    BY <2>1 DEF Guarded, vars, At
  <2>2. QED
    BY <2>1, GuardStep DEF Next
<1>3. IInv /\ Guarded => LiveIsSealed
  BY DEF IInv, LivePublished, Guarded, LiveIsSealed
<1>4. QED
  BY <1>1, <1>2, <1>3, Invariance, PTL DEF Spec

-----------------------------------------------------------------------------
(* The pipeline implements ReleaseLog.  A request that nothing overlaps is   *)
(* followed step by step: what it has found out about the history holds.     *)

Solo(r) == Busy(r) /\ r \notin overlapped

\* The rows with a higher number.
Above(v) == {u \in Ids : Exists(u) /\ NumberOf(u) > NumberOf(v)}

SoloCourse(q) ==
  /\ \/ q.op = "publish"
     \/ q.op = "edit" /\ q.pc \in {"find", "latest", "insert", "refind", "append"}
     \/ q.op = "rollback" /\ q.pc = "setLive"
  /\ q.pc \in {"latest", "insert", "refind"} => Drafts = {}
  /\ q.pc = "insert" =>
       /\ \A u \in Ids : Exists(u) => NumberOf(u) <= q.latest
       /\ q.latest = 0 \/ \E u \in Ids : Exists(u) /\ NumberOf(u) = q.latest
  /\ q.pc = "seal" => q.version \in Drafts
  /\ q.pc \in {"protect", "delete"} =>
       \A v \in Ids : Exists(v) /\ Cardinality(Above(v)) < Keep => v \in q.kept

SoloRequests == \A r \in Requests : Solo(r) => Alone(r) /\ SoloCourse(req[r])

\* A snapshot holds no edit that was not made.
SnapshotsAreSaved ==
  \A r \in Requests, h \in Halves : req[r].snapshot[h] <= working[h]

LEMMA SameHistory ==
  ASSUME UNCHANGED versions
  PROVE  /\ Drafts' = Drafts
         /\ \A v \in Ids : (Exists(v)' <=> Exists(v)) /\ NumberOf(v)' = NumberOf(v)
         /\ \A v \in Ids : Above(v)' = Above(v)
BY DEF Drafts, Exists, NumberOf, Above

\* One step of a request that nothing overlaps.
LEMMA SoloStep ==
  ASSUME IInv, NEW r \in Requests, SoloCourse(req[r]), Work(r), req'[r].pc # "idle"
  PROVE  SoloCourse(req[r])'
<1> USE ConstantsAssumption
<1> DEFINE q == req[r]
<1>0. /\ TypeOK /\ q \in RequestStates /\ AtHand(q) /\ SoloCourse(q)
      /\ versions \in [Ids -> Versions \cup {None}]
  BY DEF IInv, TypeOK
<1>1. ASSUME NEW local, Become(r, local)
      PROVE  req'[r] = local
  BY <1>0, <1>1 DEF TypeOK, Become
<1>2. ~Throw(r) /\ ~Answer(r)
  BY <1>1 DEF Throw, Answer, Idle
<1>3. ASSUME NEW pc \in Pcs, Goto(r, pc)
      PROVE  /\ req'[r].pc = pc /\ req'[r].op = q.op /\ req'[r].kept = q.kept
             /\ req'[r].version = q.version /\ req'[r].latest = q.latest
  BY <1>0, <1>1, <1>3 DEF Goto, RequestStates
<1>4. ASSUME NEW v \in Ids, Opened(r, v), q.op \in {"edit", "publish"}, v \in Drafts'
      PROVE  SoloCourse(req[r])'
  <2>1. /\ req'[r].op = q.op /\ req'[r].version = v
        /\ req'[r].pc = IF q.op = "edit" THEN "append" ELSE "seal"
    BY <1>0, <1>1, <1>4 DEF Opened, RequestStates
  <2>2. QED
    BY <1>4, <2>1 DEF SoloCourse
<1>5. ASSUME NEW h \in Halves, ReadWorking(r, h) \/ ReadLive(r, h)
      PROVE  SoloCourse(req[r])'
  <2>1. q.pc = "read" /\ q.op = "publish"
    BY <1>0, <1>5 DEF ReadWorking, ReadLive, At, SoloCourse
  <2>2. req'[r].pc = "read" /\ req'[r].op = "publish"
    <3> DEFINE Copied(unread, snapshot) == [q EXCEPT !.unread = unread, !.snapshot = snapshot]
               Loaded(unread, snapshot) == [q EXCEPT !.unread = unread,
                                                     !.liveSnapshot = snapshot]
    <3>1. \A unread, snapshot :
            /\ Copied(unread, snapshot).pc = "read" /\ Copied(unread, snapshot).op = "publish"
            /\ Loaded(unread, snapshot).pc = "read" /\ Loaded(unread, snapshot).op = "publish"
      BY <1>0, <2>1 DEF RequestStates
    <3>2. \E unread, snapshot :
            Become(r, Copied(unread, snapshot)) \/ Become(r, Loaded(unread, snapshot))
      BY <1>5 DEF ReadWorking, ReadLive
    <3> HIDE DEF Copied, Loaded
    <3>3. QED
      BY <1>1, <3>1, <3>2
  <2>3. QED
    BY <2>2 DEF SoloCourse
<1>6. CASE Compare(r) \/ Current(r)
  <2>1. q.op = "publish"
    BY <1>0, <1>6 DEF Compare, Current, At, SoloCourse
  <2>2. Goto(r, "current") \/ Goto(r, "find")
    BY <1>2, <1>6 DEF Compare, Current
  <2>3. req'[r].op = "publish" /\ req'[r].pc \in {"current", "find"}
    BY <1>3, <2>1, <2>2 DEF Pcs
  <2>4. QED
    BY <2>3 DEF SoloCourse
<1>7. CASE Find(r) \/ Refind(r)
  <2>1. q.op \in {"edit", "publish"} /\ UNCHANGED versions
    BY <1>0, <1>7 DEF Find, Refind, At, SoloCourse, Reads
  <2>2. CASE \E v \in Drafts : Opened(r, v)
    BY <1>4, <2>1, <2>2, SameHistory DEF Drafts
  <2>3. ASSUME Drafts = {}, NEW n, Become(r, [q EXCEPT !.pc = "latest", !.attempt = n])
        PROVE  SoloCourse(req[r])'
    <3>1. req'[r].pc = "latest" /\ req'[r].op = q.op
      BY <1>0, <1>1, <2>3 DEF RequestStates
    <3>2. QED
      BY <2>1, <2>3, <3>1, SameHistory DEF SoloCourse
  <2>4. CASE Drafts = {} /\ Goto(r, "latest")
    <3>1. req'[r].pc = "latest" /\ req'[r].op = q.op
      BY <1>3, <2>4 DEF Pcs
    <3>2. QED
      BY <2>1, <2>4, <3>1, SameHistory DEF SoloCourse
  <2>5. \/ \E v \in Drafts : Opened(r, v)
        \/ Drafts = {} /\ Goto(r, "latest")
        \/ Drafts = {} /\ Become(r, [q EXCEPT !.pc = "latest", !.attempt = q.attempt + 1])
    <3>1. CASE Find(r)
      BY <3>1 DEF Find, FindDraft, Goto
    <3>2. CASE Refind(r)
      <4>1. \/ \E v \in Drafts : Opened(r, v)
            \/ Drafts = {} /\ Throw(r)
            \/ Drafts = {} /\ Become(r, [q EXCEPT !.pc = "latest", !.attempt = q.attempt + 1])
        BY <3>2 DEF Refind, FindDraft, Throw
      <4>2. QED
        BY <1>2, <4>1
    <3>3. QED
      BY <1>7, <3>1, <3>2
  <2>6. QED
    BY <2>2, <2>3, <2>4, <2>5
<1>8. CASE ReadLatest(r)
  <2> DEFINE used == {NumberOf(v) : v \in {u \in Ids : Exists(u)}}
  <2>1. PICK n \in used \cup {0} :
          /\ \A m \in used : m <= n
          /\ Become(r, [q EXCEPT !.pc = "insert", !.latest = n])
    BY <1>8 DEF ReadLatest
  <2>2. /\ q.op \in {"edit", "publish"} /\ UNCHANGED versions /\ Drafts = {}
    BY <1>0, <1>8 DEF ReadLatest, At, SoloCourse, Reads
  <2>3. req'[r].pc = "insert" /\ req'[r].op = q.op /\ req'[r].latest = n
    BY <1>0, <1>1, <2>1 DEF RequestStates
  <2>4. /\ \A u \in Ids : Exists(u) => NumberOf(u) <= n
        /\ n = 0 \/ \E u \in Ids : Exists(u) /\ NumberOf(u) = n
    BY <2>1
  <2>5. QED
    BY <2>2, <2>3, <2>4, SameHistory DEF SoloCourse
<1>9. CASE Insert(r)
  <2> DEFINE number == q.latest + 1
             v == created + 1
             row == [number |-> number, status |-> "draft", snapshot |-> Empty, changes |-> {}]
  <2>1. /\ q.op \in {"edit", "publish"} /\ q.latest \in Nat
        /\ \A u \in Ids : Exists(u) => NumberOf(u) <= q.latest
    BY <1>0, <1>9 DEF Insert, At, SoloCourse, RequestStates
  <2>2. \A u \in Ids : Exists(u) => NumberOf(u) # number
    <3>1. \A u \in Ids : Exists(u) => NumberOf(u) \in Nat
      BY <1>0 DEF Exists, NumberOf, Versions
    <3>2. QED
      BY <2>1, <3>1
  <2>3. created < MaxVersions /\ versions' = [versions EXCEPT ![v] = row] /\ Opened(r, v)
    BY <1>9, <2>2 DEF Insert
  <2>4. v \in Ids /\ row \in Versions
    BY <1>0, <2>1, <2>3, EmptyType DEF Ids, TypeOK, Versions
  <2>5. v \in Drafts'
    <3>1. versions'[v] = row /\ row # None /\ row.status = "draft"
      BY <1>0, <2>3, <2>4, NoneIsNoVersion
    <3>2. QED
      BY <2>4, <3>1 DEF Drafts, Exists
  <2>6. QED
    BY <1>4, <2>1, <2>3, <2>4, <2>5
<1>10. CASE Append(r) \/ Delete(r) \/ Fail(r)
  BY <1>2, <1>10 DEF Append, Delete, Fail
<1>11. CASE Seal(r)
  <2>1. q.op = "publish" /\ Goto(r, "setLive")
    BY <1>0, <1>2, <1>11 DEF Seal, At, SoloCourse
  <2>2. req'[r].op = "publish" /\ req'[r].pc = "setLive"
    BY <1>3, <2>1 DEF Pcs
  <2>3. QED
    BY <2>2 DEF SoloCourse
<1>12. CASE SetLive(r)
  <2>1. q.op = "publish" /\ Goto(r, "survivors")
    BY <1>2, <1>12 DEF SetLive
  <2>2. req'[r].op = "publish" /\ req'[r].pc = "survivors"
    BY <1>3, <2>1 DEF Pcs
  <2>3. QED
    BY <2>2 DEF SoloCourse
<1>13. CASE ReadSurvivors(r)
  <2> DEFINE kept == {v \in {u \in Ids : Exists(u)} : Cardinality(Above(v)) < Keep}
  <2>1. q.op = "publish" /\ UNCHANGED versions
    BY <1>0, <1>13 DEF ReadSurvivors, At, SoloCourse, Reads
  <2>2. Become(r, [q EXCEPT !.pc = "protect", !.kept = kept])
    <3> DEFINE all == {v \in Ids : Exists(v)}
               newer(v) == {u \in all : NumberOf(u) > NumberOf(v)}
               survivors == {v \in all : Cardinality(newer(v)) < Keep}
    <3>1. \A v : newer(v) = Above(v)
      BY DEF Above
    <3>2. survivors = kept
      BY <3>1
    <3>3. Become(r, [q EXCEPT !.pc = "protect", !.kept = survivors])
      BY <1>13 DEF ReadSurvivors
    <3>4. QED
      BY <3>2, <3>3
  <2>3. req'[r].op = "publish" /\ req'[r].pc = "protect" /\ req'[r].kept = kept
    BY <1>0, <1>1, <2>1, <2>2 DEF RequestStates
  <2>4. \A v \in Ids : Exists(v)' /\ (Cardinality(Above(v)) < Keep)' => v \in kept
    BY <2>1, SameHistory
  <2> HIDE DEF kept
  <2>5. QED
    BY <2>3, <2>4 DEF SoloCourse
<1>14. CASE ReadProtected(r)
  <2> DEFINE kept == q.kept \cup (IF live = None THEN {} ELSE {live})
  <2>1. q.op = "publish" /\ UNCHANGED versions
    BY <1>0, <1>14 DEF ReadProtected, At, SoloCourse, Reads
  <2>2. req'[r].op = "publish" /\ req'[r].pc = "delete" /\ req'[r].kept = kept
    BY <1>0, <1>1, <1>14, <2>1 DEF ReadProtected, RequestStates
  <2>3. \A v \in Ids : Exists(v) /\ Cardinality(Above(v)) < Keep => v \in kept
    BY <1>0, <1>14 DEF ReadProtected, At, SoloCourse
  <2>4. \A v \in Ids : Exists(v)' /\ (Cardinality(Above(v)) < Keep)' => v \in kept
    BY <2>1, <2>3, SameHistory
  <2> HIDE DEF kept
  <2>5. QED
    BY <2>2, <2>4 DEF SoloCourse
<1>15. QED
  BY <1>5, <1>6, <1>7, <1>8, <1>9, <1>10, <1>11, <1>12, <1>13, <1>14 DEF Work

LEMMA ArriveSolo ==
  ASSUME IInv, SoloRequests, NEW r \in Requests, Arrive(r)
  PROVE  SoloRequests'
<1> DEFINE others == {p \in Requests \ {r} : Busy(p)}
<1>0. TypeOK
  BY DEF IInv
<1>1. overlapped' = IF others = {} THEN overlapped \ {r} ELSE overlapped \cup others \cup {r}
  BY DEF Arrive, StartEdit, StartPublish, StartRollback, Arrives
<1>2. \A p \in Requests \ {r} : req'[p] = req[p]
  <2>1. \E local : Become(r, local)
    BY DEF Arrive, StartEdit, StartPublish, StartRollback
  <2>2. QED
    BY <1>0, <2>1 DEF TypeOK, Become
<1>3. ASSUME NEW p \in Requests, p # r, Solo(p)'
      PROVE  FALSE
  BY <1>1, <1>2, <1>3 DEF Solo, Busy
<1>4. ASSUME Solo(r)'
      PROVE  Alone(r)' /\ SoloCourse(req[r])'
  <2>1. Alone(r)'
    BY <1>1, <1>2, <1>4 DEF Alone, Busy, Solo
  <2>2. ASSUME NEW local, Become(r, local)
        PROVE  req'[r] = local
    BY <1>0, <2>2 DEF TypeOK, Become
  <2>3. \/ req'[r].op = "edit" /\ req'[r].pc = "find"
        \/ req'[r].op = "publish" /\ req'[r].pc = "read"
        \/ req'[r].op = "rollback" /\ req'[r].pc = "setLive"
    <3> DEFINE Edit(c) == [Idle("none") EXCEPT !.op = "edit", !.pc = "find", !.change = c]
               Publish(unread) == [Idle("none") EXCEPT !.op = "publish", !.pc = "read",
                                     !.liveRead = live, !.unread = unread]
               Rollback(v) == [Idle("none") EXCEPT !.op = "rollback", !.pc = "setLive",
                                                   !.version = v]
    <3>1. /\ \A c : Edit(c).op = "edit" /\ Edit(c).pc = "find"
          /\ \A unread : Publish(unread).op = "publish" /\ Publish(unread).pc = "read"
          /\ \A v : Rollback(v).op = "rollback" /\ Rollback(v).pc = "setLive"
          /\ Idle("failed").pc = "idle"
      BY DEF Idle
    <3>2. \/ \E c : Become(r, Edit(c))
          \/ \E unread : Become(r, Publish(unread))
          \/ \E v : Become(r, Rollback(v))
          \/ Become(r, Idle("failed"))
      <4>1. CASE \E h \in Halves : StartEdit(r, h)
        BY <4>1 DEF StartEdit
      <4>2. CASE StartPublish(r)
        BY <4>2 DEF StartPublish
      <4>3. CASE \E v \in Ids : StartRollback(r, v)
        <5>1. PICK v : Become(r, IF Published(v) THEN Rollback(v) ELSE Idle("failed"))
          BY <4>3 DEF StartRollback
        <5>2. QED
          BY <5>1
      <4>4. QED
        BY <4>1, <4>2, <4>3 DEF Arrive
    <3> HIDE DEF Edit, Publish, Rollback
    <3>3. req'[r].pc # "idle"
      BY <1>4 DEF Solo, Busy
    <3>4. QED
      BY <2>2, <3>1, <3>2, <3>3
  <2>4. QED
    BY <2>1, <2>3 DEF SoloCourse
<1>5. QED
  BY <1>3, <1>4 DEF SoloRequests

LEMMA WorkSolo ==
  ASSUME IInv, SoloRequests, NEW r \in Requests, Work(r), UNCHANGED overlapped
  PROVE  SoloRequests'
<1>0. Busy(r) /\ \A p \in Requests \ {r} : req'[p] = req[p]
  BY WorkIsBusy
<1>1. ASSUME NEW p \in Requests, Solo(p)'
      PROVE  p = r /\ Solo(p)
  <2>1. Solo(p)
    BY <1>0, <1>1 DEF Solo, Busy
  <2>2. QED
    BY <1>0, <2>1 DEF SoloRequests, Alone
<1>2. ASSUME Solo(r), Solo(r)'
      PROVE  Alone(r)' /\ SoloCourse(req[r])'
  <2>1. Alone(r) /\ SoloCourse(req[r]) /\ req'[r].pc # "idle"
    BY <1>2 DEF SoloRequests, Solo, Busy
  <2>2. SoloCourse(req[r])'
    BY <2>1, SoloStep
  <2>3. Alone(r)'
    BY <1>0, <2>1 DEF Alone, Busy
  <2>4. QED
    BY <2>2, <2>3
<1>3. QED
  BY <1>1, <1>2 DEF SoloRequests

LEMMA SoloNext == IInv /\ SoloRequests /\ [Next]_vars => SoloRequests'
<1> SUFFICES ASSUME IInv, SoloRequests, [Next]_vars
             PROVE  SoloRequests'
  OBVIOUS
<1>1. CASE UNCHANGED vars
  BY <1>1, SameHistory DEF vars, SoloRequests, Solo, Alone, Busy, SoloCourse
<1>2. QED
  BY <1>1, ArriveSolo, WorkSolo DEF Next

\* The working copy only grows, and a request copies from it.
LEMMA SnapshotsNext == IInv /\ SnapshotsAreSaved /\ [Next]_vars => SnapshotsAreSaved'
<1> SUFFICES ASSUME IInv, SnapshotsAreSaved, [Next]_vars
             PROVE  SnapshotsAreSaved'
  OBVIOUS
<1>0. /\ TypeOK /\ working \in Edits
      /\ \A p \in Requests : req[p] \in RequestStates /\ req[p].snapshot \in Edits
      /\ \A h \in Halves : working[h] \in Nat
  BY DEF IInv, TypeOK, RequestStates, Edits
<1>1. CASE UNCHANGED vars
  BY <1>1 DEF vars, SnapshotsAreSaved
<1>2. ASSUME NEW r \in Requests, NEW local, Become(r, local),
             \A h \in Halves : local.snapshot[h] <= working'[h],
             \A h \in Halves : working'[h] \in Nat /\ working[h] <= working'[h]
      PROVE  SnapshotsAreSaved'
  <2> SUFFICES ASSUME NEW p \in Requests, NEW h \in Halves
               PROVE  req'[p].snapshot[h] <= working'[h]
    BY DEF SnapshotsAreSaved
  <2>1. req'[p] = IF p = r THEN local ELSE req[p]
    BY <1>0, <1>2 DEF TypeOK, Become
  <2>2. CASE p = r
    BY <1>2, <2>1, <2>2
  <2>3. CASE p # r
    <3>1. req[p].snapshot[h] \in Nat /\ req[p].snapshot[h] <= working[h]
      BY <1>0 DEF Edits, SnapshotsAreSaved
    <3>2. QED
      BY <1>0, <1>2, <2>1, <2>3, <3>1
  <2>4. QED
    BY <2>2, <2>3
<1>3. ASSUME NEW r \in Requests, Arrive(r)
      PROVE  SnapshotsAreSaved'
  <2>1. \A h \in Halves : working'[h] \in Nat /\ working[h] <= working'[h]
    <3>1. CASE working' = working
      BY <1>0, <3>1
    <3>2. ASSUME NEW g \in Halves, StartEdit(r, g)
          PROVE  \A h \in Halves : working'[h] \in Nat /\ working[h] <= working'[h]
      BY <1>0, <3>2 DEF StartEdit, Edits
    <3>3. QED
      BY <1>3, <3>1, <3>2 DEF Arrive, StartPublish, StartRollback, Reads
  <2>2. PICK local : Become(r, local) /\ local.snapshot = Empty
    <3> DEFINE Edit(c) == [Idle("none") EXCEPT !.op = "edit", !.pc = "find", !.change = c]
               Publish(unread) == [Idle("none") EXCEPT !.op = "publish", !.pc = "read",
                                     !.liveRead = live, !.unread = unread]
               Rollback(v) == [Idle("none") EXCEPT !.op = "rollback", !.pc = "setLive",
                                                   !.version = v]
    <3>1. /\ \A c : Edit(c).snapshot = Empty
          /\ \A unread : Publish(unread).snapshot = Empty
          /\ \A v : Rollback(v).snapshot = Empty
          /\ Idle("failed").snapshot = Empty
      BY DEF Idle
    <3>2. \/ \E c : Become(r, Edit(c))
          \/ \E unread : Become(r, Publish(unread))
          \/ \E v : Become(r, Rollback(v))
          \/ Become(r, Idle("failed"))
      <4>1. CASE \E h \in Halves : StartEdit(r, h)
        BY <4>1 DEF StartEdit
      <4>2. CASE StartPublish(r)
        BY <4>2 DEF StartPublish
      <4>3. CASE \E v \in Ids : StartRollback(r, v)
        <5>1. PICK v : Become(r, IF Published(v) THEN Rollback(v) ELSE Idle("failed"))
          BY <4>3 DEF StartRollback
        <5>2. QED
          BY <5>1
      <4>4. QED
        BY <1>3, <4>1, <4>2, <4>3 DEF Arrive
    <3> HIDE DEF Edit, Publish, Rollback
    <3>3. QED
      BY <3>1, <3>2
  <2>3. \A h \in Halves : local.snapshot[h] <= working'[h]
    BY <2>1, <2>2 DEF Empty
  <2>4. QED
    BY <1>2, <2>1, <2>2, <2>3
<1>4. ASSUME NEW r \in Requests, Work(r)
      PROVE  SnapshotsAreSaved'
  <2> DEFINE q == req[r]
  <2>0. q \in RequestStates /\ \A h \in Halves : q.snapshot[h] <= working[h]
    BY <1>0 DEF SnapshotsAreSaved
  <2>1. working' = working
    BY <1>4 DEF Work, ReadWorking, ReadLive, Compare, Current, Find, ReadLatest, Insert,
       Refind, Append, Seal, SetLive, ReadSurvivors, ReadProtected, Delete, Fail, Reads
  <2>2. ASSUME NEW local, Become(r, local), local.snapshot \in {Empty, q.snapshot}
        PROVE  SnapshotsAreSaved'
    <3>1. \A h \in Halves : local.snapshot[h] <= working'[h]
      BY <1>0, <2>0, <2>1, <2>2 DEF Empty
    <3>2. QED
      BY <1>0, <1>2, <2>1, <2>2, <3>1
  <2>3. ASSUME Throw(r) \/ Answer(r)
        PROVE  SnapshotsAreSaved'
    <3>1. Idle("failed").snapshot = Empty /\ Idle("done").snapshot = Empty
      BY DEF Idle
    <3>2. QED
      BY <2>2, <2>3, <3>1 DEF Throw, Answer
  <2>4. ASSUME NEW pc, Goto(r, pc)
        PROVE  SnapshotsAreSaved'
    <3>1. [q EXCEPT !.pc = pc].snapshot = q.snapshot
      BY <2>0 DEF RequestStates
    <3>2. QED
      BY <2>2, <2>4, <3>1 DEF Goto
  <2>5. ASSUME NEW v, Opened(r, v)
        PROVE  SnapshotsAreSaved'
    <3> DEFINE pc == IF q.op = "edit" THEN "append" ELSE "seal"
               local == [q EXCEPT !.pc = pc, !.version = v]
    <3>1. local.snapshot = q.snapshot
      BY <2>0 DEF RequestStates
    <3>2. Become(r, local)
      BY <2>5 DEF Opened
    <3>3. QED
      BY <2>2, <3>1, <3>2
  <2>6. ASSUME NEW h \in Halves, ReadWorking(r, h)
        PROVE  SnapshotsAreSaved'
    <3> DEFINE unread == q.unread \ {<<"working", h>>}
               snapshot == [q.snapshot EXCEPT ![h] = working[h]]
               local == [q EXCEPT !.unread = unread, !.snapshot = snapshot]
    <3>1. Become(r, local)
      BY <2>6 DEF ReadWorking
    <3>2. local.snapshot = snapshot
      BY <2>0 DEF RequestStates
    <3>3. \A g \in Halves : snapshot[g] <= working[g]
      BY <1>0, <2>0 DEF Edits
    <3> HIDE DEF local, snapshot
    <3>4. QED
      BY <1>0, <1>2, <2>1, <3>1, <3>2, <3>3
  <2>7. ASSUME NEW h \in Halves, ReadLive(r, h)
        PROVE  SnapshotsAreSaved'
    <3>1. ASSUME NEW unread, NEW snapshot
          PROVE  [q EXCEPT !.unread = unread, !.liveSnapshot = snapshot].snapshot = q.snapshot
      BY <2>0 DEF RequestStates
    <3>2. \E unread, snapshot :
            Become(r, [q EXCEPT !.unread = unread, !.liveSnapshot = snapshot])
      BY <2>7 DEF ReadLive
    <3>3. QED
      BY <2>2, <3>1, <3>2
  <2>8. CASE Compare(r) \/ Current(r)
    BY <2>3, <2>4, <2>8 DEF Compare, Current
  <2>9. CASE Find(r) \/ Refind(r)
    <3>1. ASSUME NEW n
          PROVE  [q EXCEPT !.pc = "latest", !.attempt = n].snapshot = q.snapshot
      BY <2>0 DEF RequestStates
    <3>2. Find(r) => Goto(r, "latest") \/ \E v \in Drafts : Opened(r, v)
      BY DEF Find, FindDraft, Goto
    <3>3. Refind(r) => \/ Throw(r) \/ \E v \in Drafts : Opened(r, v)
                       \/ Become(r, [q EXCEPT !.pc = "latest", !.attempt = q.attempt + 1])
      BY DEF Refind, FindDraft, Throw
    <3>4. QED
      BY <2>2, <2>3, <2>4, <2>5, <2>9, <3>1, <3>2, <3>3
  <2>10. CASE ReadLatest(r)
    <3>1. ASSUME NEW n
          PROVE  [q EXCEPT !.pc = "insert", !.latest = n].snapshot = q.snapshot
      BY <2>0 DEF RequestStates
    <3>2. \E n : Become(r, [q EXCEPT !.pc = "insert", !.latest = n])
      BY <2>10 DEF ReadLatest
    <3>3. QED
      BY <2>2, <3>1, <3>2
  <2>11. CASE Insert(r)
    BY <2>4, <2>5, <2>11 DEF Insert
  <2>12. CASE Append(r) \/ Seal(r) \/ SetLive(r) \/ Delete(r) \/ Fail(r)
    BY <2>3, <2>4, <2>12 DEF Append, Seal, SetLive, Delete, Fail
  <2>13. CASE ReadSurvivors(r) \/ ReadProtected(r)
    <3>1. ASSUME NEW pc, NEW kept
          PROVE  [q EXCEPT !.pc = pc, !.kept = kept].snapshot = q.snapshot
      BY <2>0 DEF RequestStates
    <3>2. \/ \E kept : Become(r, [q EXCEPT !.pc = "protect", !.kept = kept])
          \/ \E kept : Become(r, [q EXCEPT !.pc = "delete", !.kept = kept])
      BY <2>13 DEF ReadSurvivors, ReadProtected
    <3>3. QED
      BY <2>2, <3>1, <3>2
  <2>14. QED
    BY <1>4, <2>6, <2>7, <2>8, <2>9, <2>10, <2>11, <2>12, <2>13 DEF Work
<1>5. QED
  BY <1>1, <1>3, <1>4 DEF Next

-----------------------------------------------------------------------------
(* The history as ReleaseLog sees it *)

Numbers == [v \in Ids |-> IF Exists(v) THEN NumberOf(v) ELSE 0]
Contents == [v \in Ids |-> IF Published(v) THEN versions[v].snapshot ELSE None]
Overlap == \E r \in overlapped : Busy(r)

LogInv == IInv /\ Numbered /\ LonePublishes /\ SoloRequests /\ SnapshotsAreSaved

LEMMA NumberView ==
  ASSUME Numbered, NEW v \in Ids
  PROVE  Exists(v) => NumberOf(v) \in Nat \ {0}
<1>1. PICK k \in Nat : numbers = 1..k
  BY DEF Numbered
<1>2. QED
  BY <1>1 DEF Numbered

LEMMA EntryView ==
  ASSUME IInv, Numbered, NEW v \in Ids
  PROVE  /\ Exists(v) => Numbers[v] = NumberOf(v) /\ Numbers[v] # 0
         /\ ~Exists(v) => Numbers[v] = 0
         /\ Published(v) => Contents[v] = versions[v].snapshot /\ Contents[v] # None
         /\ ~Published(v) => Contents[v] = None
         /\ v \in Drafts <=> Exists(v) /\ ~Published(v)
<1>1. Exists(v) => versions[v] \in Versions
  BY DEF IInv, TypeOK, Exists
<1>2. Published(v) => versions[v].snapshot # None
  BY <1>1, ConstantsAssumption DEF Published, Versions
<1>3. QED
  BY <1>1, <1>2, NumberView DEF Numbers, Contents, Published, Drafts, Versions

LEMMA LogView ==
  ASSUME IInv, Numbered
  PROVE  /\ Log!Entries = {v \in Ids : Exists(v)}
         /\ \A v \in Ids : Log!Draft(v) <=> v \in Drafts
         /\ \A v \in Ids : Exists(v) => Log!Newer(v) = Above(v)
<1>1. Log!Entries = {v \in Ids : Exists(v)}
  BY EntryView DEF Log!Entries, Numbers
<1>2. \A v \in Ids : Log!Draft(v) <=> v \in Drafts
  BY <1>1, EntryView DEF Log!Draft, Contents
<1>3. ASSUME NEW v \in Ids, Exists(v)
      PROVE  Log!Newer(v) = Above(v)
  <2>1. \A u \in Ids : Exists(u) => (Numbers[u] > Numbers[v] <=> NumberOf(u) > NumberOf(v))
    BY <1>3, EntryView
  <2>2. Log!Newer(v) = {u \in Log!Entries : Numbers[u] > Numbers[v]}
    BY DEF Log!Newer, Numbers
  <2>3. QED
    BY <1>1, <2>1, <2>2 DEF Above
<1>4. QED
  BY <1>1, <1>2, <1>3

\* The log's operator is that of FiniteSets, under another name.
LEMMA SameCardinality ==
  ASSUME NEW S
  PROVE  Log!Cardinality(S) = Cardinality(S)
BY DEF Log!Cardinality, Cardinality

LEMMA Given ==
  ASSUME NEW k \in Nat
  PROVE  Cardinality(1..k) = k
<1>1. 1 \in Int /\ k \in Int /\ k - 1 + 1 = k
  OBVIOUS
<1>2. Cardinality(1..k) = IF 1 > k THEN 0 ELSE k - 1 + 1
  BY <1>1, FS_Interval
<1>3. QED
  BY <1>1, <1>2

\* A request that works while no requests overlap is followed.
LEMMA NobodyOverlaps ==
  ASSUME LogInv, NEW r \in Requests, Work(r), ~Overlap
  PROVE  /\ SoloCourse(req[r])
         /\ req[r].op = "publish" => OnCourse(req[r])
<1>1. Busy(r)
  BY WorkIsBusy DEF LogInv
<1>2. r \notin overlapped
  BY <1>1 DEF Overlap
<1>3. QED
  BY <1>1, <1>2 DEF LogInv, SoloRequests, Solo, LonePublishes, LoneOnes

-----------------------------------------------------------------------------
(* Each step is one of the log's, or leaves it alone *)

LEMMA NothingHappens ==
  ASSUME UNCHANGED <<working, live, numbers>>, Numbers' = Numbers, Contents' = Contents
  PROVE  Log!Nothing
BY DEF Log!Nothing, Numbers, Contents

LEMMA ReadsNothing ==
  ASSUME UNCHANGED <<working, versions, live, numbers>>
  PROVE  Log!Nothing
<1>1. Numbers' = Numbers /\ Contents' = Contents
  BY DEF Numbers, Contents, Exists, Published, NumberOf
<1>2. QED
  BY <1>1, NothingHappens

LEMMA ArriveLog ==
  ASSUME LogInv, NEW r \in Requests, Arrive(r)
  PROVE  Log!Nothing \/ \E h \in Halves : Log!Save(h)
<1>1. ASSUME NEW h \in Halves, StartEdit(r, h)
      PROVE  Log!Save(h)
  <2>1. Numbers' = Numbers /\ Contents' = Contents
    BY <1>1 DEF StartEdit, Numbers, Contents, Exists, Published, NumberOf
  <2>2. QED
    BY <1>1, <2>1 DEF StartEdit, Log!Save, Numbers, Contents
<1>2. CASE StartPublish(r) \/ \E v \in Ids : StartRollback(r, v)
  BY <1>2, ReadsNothing DEF StartPublish, StartRollback, Reads
<1>3. QED
  BY <1>1, <1>2 DEF Arrive

\* createDraft opens an entry under a number nobody has; the next one, and only
\* without a draft, if nothing ran beside it.
LEMMA InsertLog ==
  ASSUME LogInv, LogInv', NEW r \in Requests, Insert(r), Work(r)
  PROVE  \/ Log!Nothing
         \/ \E v \in Ids : \E n \in 1..(Cardinality(numbers) + 1) : Log!Open(v, n)
<1> DEFINE q == req[r]
           number == q.latest + 1
           v == created + 1
           row == [number |-> number, status |-> "draft", snapshot |-> Empty, changes |-> {}]
<1>0. /\ IInv /\ Numbered /\ IInv' /\ Numbered' /\ q.latest \in Nat
      /\ created \in 0..MaxVersions /\ versions \in [Ids -> Versions \cup {None}]
  BY StateLatest DEF LogInv, IInv, TypeOK
<1>1. CASE \E u \in Ids : Exists(u) /\ NumberOf(u) = number
  BY <1>1, ReadsNothing DEF Insert
<1>2. CASE ~ \E u \in Ids : Exists(u) /\ NumberOf(u) = number
  <2>1. /\ created < MaxVersions /\ versions' = [versions EXCEPT ![v] = row]
        /\ numbers' = numbers \cup {number} /\ UNCHANGED <<working, live>>
    BY <1>2 DEF Insert
  <2>2. number \in Nat /\ row \in Versions
    BY <1>0, EmptyType, ConstantsAssumption DEF Versions
  <2>3. row # None /\ row.number = number /\ row.status = "draft"
    BY <2>2, NoneIsNoVersion
  <2>4. PICK new \in Ids : new = v
    BY <1>0, <2>1, ConstantsAssumption DEF Ids
  <2>5. ~Exists(new)
    BY <1>0, <2>4 DEF IInv, IdsInOrder
  <2> HIDE DEF row
  <2>6. \A u \in Ids : versions'[u] = IF u = new THEN row ELSE versions[u]
    BY <1>0, <2>1, <2>4
  <2>7. Numbers' = [Numbers EXCEPT ![new] = number]
    <3>1. \A u \in Ids : Numbers'[u] = IF u = new THEN number ELSE Numbers[u]
      BY <2>3, <2>6 DEF Numbers, Exists, NumberOf
    <3>2. QED
      BY <3>1 DEF Numbers
  <2>8. Contents' = Contents
    <3>1. \A u \in Ids : Contents'[u] = Contents[u]
      BY <2>3, <2>5, <2>6 DEF Contents, Published, Exists
    <3>2. QED
      BY <3>1 DEF Contents
  <2>9. PICK k \in Nat : numbers = 1..k
    BY <1>0 DEF Numbered
  <2>10. number \in 1..(k + 1) /\ Cardinality(numbers) = k
    <3>1. q.latest \in 0..k
      BY <1>0, <2>9 DEF Numbered
    <3>2. QED
      BY <2>9, <3>1, Given
  <2>11. Cardinality(numbers') = IF number > k THEN number ELSE k
    <3>1. CASE number \in 1..k
      <4>1. numbers' = 1..k
        BY <2>1, <2>9, <3>1
      <4>2. QED
        BY <3>1, <4>1, Given
    <3>2. CASE number = k + 1
      <4>1. numbers' = 1..(k + 1) /\ k + 1 \in Nat
        BY <2>1, <2>9, <3>2
      <4>2. Cardinality(1..(k + 1)) = k + 1
        BY <4>1, Given
      <4>3. QED
        BY <3>2, <4>1, <4>2
    <3>3. QED
      BY <2>10, <3>1, <3>2
  <2>12. Log!Entries = {u \in Ids : Exists(u)} /\ \A u \in Ids : Log!Draft(u) <=> u \in Drafts
    BY <1>0, LogView
  <2>13. \A u \in Log!Entries : Numbers[u] # number
    BY <1>0, <1>2, <2>12, EntryView
  <2>14. ASSUME ~Overlap
         PROVE  /\ \A u \in Log!Entries : ~Log!Draft(u) /\ Numbers[u] < number
                /\ number = 1 \/ \E u \in Log!Entries : Numbers[u] = number - 1
    <3>1. /\ Drafts = {}
          /\ \A u \in Ids : Exists(u) => NumberOf(u) <= q.latest
          /\ q.latest = 0 \/ \E u \in Ids : Exists(u) /\ NumberOf(u) = q.latest
      BY <2>14, NobodyOverlaps DEF SoloCourse, Insert, At
    <3>2. \A u \in Ids : Exists(u) => Numbers[u] = NumberOf(u) /\ NumberOf(u) \in Nat
      BY <1>0, EntryView, NumberView
    <3>3. \A u \in Log!Entries : ~Log!Draft(u) /\ Numbers[u] < number
      BY <1>0, <2>12, <3>1, <3>2
    <3>4. number - 1 = q.latest
      BY <1>0
    <3>5. QED
      BY <1>0, <2>12, <3>1, <3>2, <3>3, <3>4
  <2>15. Numbers[new] = 0
    BY <1>0, <2>5, EntryView
  <2> HIDE DEF number
  <2>16. Log!Open(new, number)
    BY <2>1, <2>7, <2>8, <2>10, <2>11, <2>13, <2>14, <2>15
       DEF Log!Open, Numbers, Contents, Overlap
  <2>17. QED
    BY <2>10, <2>16
<1>3. QED
  BY <1>1, <1>2

LEMMA AppendLog ==
  ASSUME LogInv, NEW r \in Requests, Append(r)
  PROVE  Log!Nothing
<1> DEFINE q == req[r]
           v == q.version
<1>0. /\ IInv /\ q \in RequestStates /\ AtHand(q) /\ q.pc = "append"
      /\ versions \in [Ids -> Versions \cup {None}]
  BY DEF LogInv, IInv, TypeOK, Append, At
<1>1. CASE ~Exists(v)
  BY <1>1, ReadsNothing DEF Append
<1>2. CASE Exists(v)
  <2> DEFINE row == [versions[v] EXCEPT !.changes = @ \cup {q.change}]
  <2>1. v \in Ids /\ versions[v] \in Versions /\ q.change \in Halves \X (1..MaxEdits)
    BY <1>0, <1>2 DEF AtHand, Exists
  <2>2. /\ row \in Versions /\ row.status = versions[v].status
        /\ row.number = versions[v].number /\ row.snapshot = versions[v].snapshot
    BY <2>1 DEF Versions
  <2>3. row # None
    BY <2>2, NoneIsNoVersion
  <2>4. versions' = [versions EXCEPT ![v] = row] /\ UNCHANGED <<working, live, numbers>>
    BY <1>2 DEF Append
  <2> HIDE DEF row
  <2>5. \A u \in Ids : versions'[u] = IF u = v THEN row ELSE versions[u]
    BY <1>0, <2>4
  <2>6. \A u \in Ids : Numbers'[u] = Numbers[u] /\ Contents'[u] = Contents[u]
    BY <1>2, <2>2, <2>3, <2>5 DEF Numbers, Contents, Exists, Published, NumberOf
  <2>7. Numbers' = Numbers /\ Contents' = Contents
    BY <2>6 DEF Numbers, Contents
  <2>8. QED
    BY <2>4, <2>7, NothingHappens
<1>3. QED
  BY <1>1, <1>2

\* sealVersion: a draft, and all of the working copy, if nothing ran beside it.
LEMMA SealLog ==
  ASSUME LogInv, NEW r \in Requests, Seal(r), Work(r)
  PROVE  Log!Nothing \/ \E v \in Ids, s \in Edits : Log!Seal(v, s)
<1> DEFINE q == req[r]
           v == q.version
           s == q.snapshot
<1>0. /\ IInv /\ Numbered /\ q \in RequestStates /\ AtHand(q) /\ q.pc = "seal"
      /\ versions \in [Ids -> Versions \cup {None}] /\ s \in Edits
  BY DEF LogInv, IInv, TypeOK, Seal, At, RequestStates
<1>1. CASE ~Exists(v)
  BY <1>1, ReadsNothing DEF Seal
<1>2. CASE Exists(v)
  <2> DEFINE row == [[versions[v] EXCEPT !.status = "published"] EXCEPT !.snapshot = s]
  <2>1. v \in Ids /\ versions[v] \in Versions
    BY <1>0, <1>2 DEF AtHand, Exists
  <2>2. /\ row \in Versions /\ row.status = "published"
        /\ row.number = versions[v].number /\ row.snapshot = s
    BY <1>0, <2>1 DEF Versions
  <2>3. row # None
    BY <2>2, NoneIsNoVersion
  <2>4. versions' = [versions EXCEPT ![v] = row] /\ UNCHANGED <<working, live, numbers>>
    BY <1>0, <1>2, <2>1 DEF Seal
  <2> HIDE DEF row
  <2>5. \A u \in Ids : versions'[u] = IF u = v THEN row ELSE versions[u]
    BY <1>0, <2>4
  <2>6. Numbers' = Numbers
    <3>1. \A u \in Ids : Numbers'[u] = Numbers[u]
      BY <1>2, <2>2, <2>3, <2>5 DEF Numbers, Exists, NumberOf
    <3>2. QED
      BY <3>1 DEF Numbers
  <2>7. Contents' = [Contents EXCEPT ![v] = s]
    <3>1. \A u \in Ids : Contents'[u] = IF u = v THEN s ELSE Contents[u]
      BY <1>2, <2>2, <2>3, <2>5 DEF Contents, Exists, Published
    <3>2. QED
      BY <3>1 DEF Contents
  <2>8. v \in Log!Entries
    BY <1>0, <1>2, <2>1, LogView
  <2>9. \A h \in Halves : s[h] <= working[h]
    BY DEF LogInv, SnapshotsAreSaved
  <2>10. ~Overlap => Log!Draft(v) /\ s = working
    <3>1. ~Overlap => v \in Drafts /\ s = working
      BY <1>0, NobodyOverlaps DEF SoloCourse, OnCourse
    <3>2. QED
      BY <1>0, <2>1, <3>1, LogView
  <2>11. PICK u \in Ids : u = v
    BY <2>1
  <2>12. PICK t \in Edits : t = s
    BY <1>0
  <2> HIDE DEF v, s
  <2>13. Log!Seal(u, t)
    BY <2>4, <2>6, <2>7, <2>8, <2>9, <2>10, <2>11, <2>12
       DEF Log!Seal, Numbers, Contents, Overlap
  <2>14. QED
    BY <2>13
<1>3. QED
  BY <1>1, <1>2

LEMMA SetLiveLog ==
  ASSUME LogInv, NEW r \in Requests, SetLive(r)
  PROVE  Log!Nothing \/ \E v \in Ids : Log!Serve(v)
<1> DEFINE v == req[r].version
<1>0. IInv /\ Numbered /\ AtHand(req[r]) /\ req[r].pc = "setLive"
  BY DEF LogInv, IInv, SetLive, At
<1>1. CASE ~Exists(v)
  BY <1>1, ReadsNothing DEF SetLive
<1>2. CASE Exists(v)
  <2>1. v \in Ids /\ Published(v) /\ live' = v /\ UNCHANGED <<working, versions, numbers>>
    BY <1>0, <1>2 DEF AtHand, SetLive
  <2>2. Contents[v] # None
    BY <1>0, <2>1, EntryView
  <2>3. Numbers' = Numbers /\ Contents' = Contents
    BY <2>1 DEF Numbers, Contents, Exists, Published, NumberOf
  <2>4. Log!Serve(v)
    BY <2>1, <2>2, <2>3 DEF Log!Serve, Numbers, Contents
  <2>5. QED
    BY <2>1, <2>4
<1>3. QED
  BY <1>1, <1>2

\* pruneHistory: neither the live version nor one of the newest, if nothing ran
\* beside it.
LEMMA DeleteLog ==
  ASSUME LogInv, NEW r \in Requests, Delete(r), Work(r)
  PROVE  \E gone \in SUBSET Ids : Log!Prune(gone)
<1> DEFINE q == req[r]
           gone == Prunable(r)
<1>0. /\ IInv /\ Numbered /\ q.pc = "delete" /\ live \in Ids \cup {None}
      /\ versions \in [Ids -> Versions \cup {None}]
  BY DEF LogInv, IInv, TypeOK, Delete, At
<1>1. gone \in SUBSET Ids /\ \A v \in gone : v \in Ids /\ Published(v) /\ Exists(v) /\ v \notin q.kept
  BY DEF Prunable, Published
<1>2. /\ versions' = [v \in Ids |-> IF v \in gone THEN None ELSE versions[v]]
      /\ live' = IF live \in gone THEN None ELSE live
      /\ UNCHANGED <<working, numbers>>
  BY DEF Delete
<1> HIDE DEF gone
<1>3. \A v \in Ids : Numbers'[v] = IF v \in gone THEN 0 ELSE Numbers[v]
  BY <1>2 DEF Numbers, Exists, NumberOf
<1>4. \A v \in Ids : Contents'[v] = IF v \in gone THEN None ELSE Contents[v]
  BY <1>2 DEF Contents, Exists, Published
<1>5. /\ Numbers' = [v \in Ids |-> IF v \in gone THEN 0 ELSE Numbers[v]]
      /\ Contents' = [v \in Ids |-> IF v \in gone THEN None ELSE Contents[v]]
  BY <1>3, <1>4 DEF Numbers, Contents
<1>6. \A v \in gone : Contents[v] # None
  BY <1>0, <1>1, EntryView
<1>7. ASSUME ~Overlap
      PROVE  live \notin gone /\ \A v \in gone : Cardinality(Log!Newer(v)) >= Keep
  <2>1. SoloCourse(q) /\ OnCourse(q)
    BY <1>0, <1>7, NobodyOverlaps DEF SoloCourse
  <2>2. live \in q.kept
    BY <1>0, <2>1 DEF OnCourse
  <2>3. ASSUME NEW v \in gone
        PROVE  Cardinality(Log!Newer(v)) >= Keep
    <3>1. ~(Cardinality(Above(v)) < Keep) /\ v \in Ids /\ Exists(v)
      BY <1>0, <1>1, <2>1, <2>3 DEF SoloCourse
    <3>2. Log!Newer(v) = Above(v)
      BY <1>0, <3>1, LogView
    <3>3. IsFiniteSet(Above(v))
      <4>1. IsFiniteSet(Ids)
        BY ConstantsAssumption, FS_Interval DEF Ids
      <4>2. QED
        BY <4>1, FS_Subset DEF Above
    <3>4. Cardinality(Above(v)) \in Nat
      BY <3>3, FS_CardinalityType
    <3>5. QED
      BY <3>1, <3>2, <3>4, ConstantsAssumption
  <2>4. QED
    BY <1>1, <2>2, <2>3
<1>8. PICK some \in SUBSET Ids : some = gone
  BY <1>1
<1>9. ~Overlap => live \notin some /\ \A v \in some : Log!Cardinality(Log!Newer(v)) >= Keep
  BY <1>7, <1>8, SameCardinality
<1>10. Log!Prune(some)
  BY <1>2, <1>5, <1>6, <1>8, <1>9 DEF Log!Prune, Numbers, Contents, Overlap
<1>11. QED
  BY <1>10

LEMMA LogNext ==
  ASSUME LogInv, LogInv', [Next]_vars
  PROVE  [Log!Next]_(Log!vars)
<1>1. Overlap' \in BOOLEAN
  BY DEF Overlap
<1>2. CASE UNCHANGED vars
  BY <1>2 DEF vars, Log!vars, Exists, Published, NumberOf, Busy
<1>3. ASSUME NEW r \in Requests, Arrive(r)
      PROVE  Log!Next
  BY <1>1, <1>3, ArriveLog DEF Log!Next, Overlap
<1>4. ASSUME NEW r \in Requests, Work(r)
      PROVE  Log!Next
  <2>1. CASE Insert(r)
    BY <1>1, <1>4, <2>1, InsertLog DEF Log!Next, Overlap
  <2>2. CASE Append(r)
    BY <1>1, <2>2, AppendLog DEF Log!Next, Overlap
  <2>3. CASE Seal(r)
    BY <1>1, <1>4, <2>3, SealLog DEF Log!Next, Overlap
  <2>4. CASE SetLive(r)
    BY <1>1, <2>4, SetLiveLog DEF Log!Next, Overlap
  <2>5. CASE Delete(r)
    BY <1>1, <1>4, <2>5, DeleteLog DEF Log!Next, Overlap
  <2>6. CASE UNCHANGED <<working, versions, live, numbers>>
    BY <1>1, <2>6, ReadsNothing DEF Log!Next, Overlap
  <2>7. QED
    BY <1>4, <2>1, <2>2, <2>3, <2>4, <2>5, <2>6
       DEF Work, ReadWorking, ReadLive, Compare, Current, Find, ReadLatest, Refind,
           ReadSurvivors, ReadProtected, Fail, Reads
<1>5. QED
  BY <1>2, <1>3, <1>4 DEF Next

\* version-service.ts:48-53: however requests overlap, fail and race, the
\* versions of an environment are a log as ReleaseLog describes it, so that
\* requests that run one after another number, seal, serve and prune as if
\* they were the only ones ever.
THEOREM HistoryIsALog == Spec => ImplementsLog
<1>1. Init => Log!Init
  <2> SUFFICES ASSUME Init PROVE Log!Init
    OBVIOUS
  <2>1. \A v \in Ids : ~Exists(v)
    BY DEF Init, Exists
  <2>2. Cardinality(numbers) = 0
    BY FS_EmptySet DEF Init
  <2>3. QED
    BY <2>1, <2>2 DEF Init, Log!Init, Empty, Published
<1>2. Init => SoloRequests /\ SnapshotsAreSaved /\ LonePublishes
  <2> SUFFICES ASSUME Init PROVE SoloRequests /\ SnapshotsAreSaved /\ LonePublishes
    OBVIOUS
  <2>1. Idle("none").pc = "idle" /\ Idle("none").op = "none" /\ Idle("none").snapshot = Empty
    BY DEF Idle
  <2>2. \A r \in Requests : req[r] = Idle("none")
    BY DEF Init
  <2>3. QED
    BY <2>1, <2>2 DEF Init, SoloRequests, Solo, Busy, SnapshotsAreSaved, Empty,
       LonePublishes, LoneOnes
<1>3. Init => LogInv
  BY <1>2, IInit, NumbersInit DEF LogInv
<1>4. LogInv /\ [Next]_vars => LogInv'
  BY INext, NumbersNext, LoneNext, SoloNext, SnapshotsNext DEF LogInv
<1>5. LogInv /\ LogInv' /\ [Next]_vars => [Log!Next]_(Log!vars)
  BY LogNext
<1>6. QED
  BY <1>1, <1>3, <1>4, <1>5, PTL DEF Spec, Log!Spec, ImplementsLog
=============================================================================
