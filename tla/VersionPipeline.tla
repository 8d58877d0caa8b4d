--------------------------- MODULE VersionPipeline ---------------------------
(* The draft/publish pipeline of one environment: edits report into the     *)
(* open draft, a publish seals a draft into a snapshot and repoints the     *)
(* environment, a rollback repoints it at an older version, and every       *)
(* publish ends by pruning the history.                                     *)
(*                                                                          *)
(* domain/versions/version-service.ts is the code of the requests,          *)
(* data/versions/prisma-version-repository.ts the SQL statements, each one  *)
(* a step; any of them may fail and end its request where it is.            *)
(*                                                                          *)
(* The working copy has two halves, translations and flags, read by         *)
(* separate queries; what is in a half is abstracted to how many edits it   *)
(* has seen.  Promotion between environments is not part of this module.    *)
EXTENDS Naturals, FiniteSets

CONSTANTS
  Requests,       \* concurrent requests, each one operation at a time
  Keep,           \* MAX_VERSION_HISTORY
  MaxAttempts,    \* MAX_NUMBER_ATTEMPTS
  MaxVersions,    \* bound: how many versions are ever created
  MaxEdits,       \* bound: how many edits each half sees
  MaxArrivals,    \* bound: how many requests arrive in all
  None            \* no version, nothing read

VARIABLES
  working,    \* half -> the edits it has seen
  versions,   \* row id -> the version, or None: not created yet, or pruned
  created,    \* versions ever created: ids are given in this order
  live,       \* the environment's liveVersionId
  req,        \* request -> its local state
  arrivals,   \* requests that have arrived, for the bound
  (* history, never read by the code's own steps *)
  served,     \* the version last made live; None before the first, and when a
              \* prune under way had by then read which versions to keep without it
  numbers,    \* the version numbers ever allocated
  overlapped  \* requests another request was under way with

vars == <<working, versions, created, live, req, arrivals, served, numbers, overlapped>>

Halves == {"texts", "flags"}
Ids == 1..MaxVersions
Edits == [Halves -> 0..MaxEdits]
Empty == [h \in Halves |-> 0]

\* snapshot is what bundles and flagsSnapshot hold; a draft's is Empty.
Versions == [number : Nat, status : {"draft", "published"}, snapshot : Edits,
             changes : SUBSET (Halves \X (1..MaxEdits))]

ASSUME ConstantsAssumption ==
  /\ Keep \in Nat \ {0} /\ MaxAttempts \in Nat \ {0}
  /\ MaxVersions \in Nat /\ MaxEdits \in Nat /\ MaxArrivals \in Nat
  /\ None \notin Nat \cup Edits \cup Versions

Exists(v) == v \in Ids /\ versions[v] # None
Published(v) == Exists(v) /\ versions[v].status = "published"
Drafts == {v \in Ids : Exists(v) /\ versions[v].status = "draft"}
NumberOf(v) == versions[v].number

-----------------------------------------------------------------------------
(* A request's local state: its operation and where it is in it, the change *)
(* an edit reports, the reads a publish still awaits, the snapshot it has   *)
(* read, the liveVersionId and live snapshot it compares with, the version  *)
(* it works on, and what createDraft and pruneHistory have read.            *)

Pcs == {"idle", "read", "current", "find", "latest", "insert", "refind",
        "append", "seal", "setLive", "survivors", "protect", "delete"}

RequestStates ==
  [op : {"none", "edit", "publish", "rollback"}, pc : Pcs,
   answer : {"none", "done", "failed"},
   change : Halves \X (0..MaxEdits), unread : SUBSET ({"working", "live"} \X Halves),
   snapshot : Edits, liveRead : Ids \cup {None}, liveSnapshot : Edits,
   version : Ids \cup {None}, latest : Nat, attempt : 1..MaxAttempts,
   kept : SUBSET Ids]

Idle(answer) ==
  [op |-> "none", pc |-> "idle", answer |-> answer, change |-> <<"texts", 0>>,
   unread |-> {}, snapshot |-> Empty, liveRead |-> None, liveSnapshot |-> Empty,
   version |-> None, latest |-> 0, attempt |-> 1, kept |-> {}]

At(r, pc) == req[r].pc = pc
Become(r, local) == req' = [req EXCEPT ![r] = local]
Goto(r, pc) == Become(r, [req[r] EXCEPT !.pc = pc])
Answer(r) == Become(r, Idle("done"))
Throw(r) == Become(r, Idle("failed"))

Reads == UNCHANGED <<working, versions, created, live, served, numbers>>
Busy(r) == req[r].pc # "idle"

\* Bookkeeping: a request that arrives while others are under way overlaps them.
Arrives(r) ==
  LET others == {p \in Requests \ {r} : Busy(p)}
  IN  overlapped' = IF others = {} THEN overlapped \ {r} ELSE overlapped \cup others \cup {r}

-----------------------------------------------------------------------------
(* Requests arrive *)

\* A saved translation or flag: the row is written, then its change is
\* reported (TranslationService.record, FlagService's recorder).
StartEdit(r, h) ==
  /\ At(r, "idle") /\ working[h] < MaxEdits
  /\ working' = [working EXCEPT ![h] = @ + 1]
  /\ Become(r, [Idle("none") EXCEPT !.op = "edit", !.pc = "find",
                                    !.change = <<h, working[h] + 1>>])
  /\ Arrives(r)
  /\ UNCHANGED <<versions, created, live, served, numbers>>

\* publish reads the environment; then four reads run side by side, those of
\* the live version only if there is one.
StartPublish(r) ==
  /\ At(r, "idle")
  /\ Become(r, [Idle("none") EXCEPT
       !.op = "publish", !.pc = "read", !.liveRead = live,
       !.unread = (IF live = None THEN {"working"} ELSE {"working", "live"}) \X Halves])
  /\ Arrives(r)
  /\ Reads

\* rollback reads the version the client names; it must be published.
StartRollback(r, v) ==
  /\ At(r, "idle") /\ v <= created
  /\ Become(r, IF Published(v)
               THEN [Idle("none") EXCEPT !.op = "rollback", !.pc = "setLive", !.version = v]
               ELSE Idle("failed"))
  /\ Arrives(r)
  /\ Reads

-----------------------------------------------------------------------------
(* Publish: compare the working copy with the live snapshot *)

\* buildWorkingSnapshot: one of its queries.
ReadWorking(r, h) ==
  /\ At(r, "read") /\ <<"working", h>> \in req[r].unread
  /\ Become(r, [req[r] EXCEPT !.unread = @ \ {<<"working", h>>},
                              !.snapshot[h] = working[h]])
  /\ Reads

\* loadLiveSnapshot: one of its queries.  A version that is gone reads as empty.
ReadLive(r, h) ==
  /\ At(r, "read") /\ <<"live", h>> \in req[r].unread
  /\ LET v == req[r].liveRead
     IN  Become(r, [req[r] EXCEPT
           !.unread = @ \ {<<"live", h>>},
           !.liveSnapshot[h] = IF Exists(v) THEN versions[v].snapshot[h] ELSE 0])
  /\ Reads

\* diffSnapshots: nothing to publish when both sides agree.
Compare(r) ==
  /\ At(r, "read") /\ req[r].unread = {}
  /\ IF req[r].liveRead # None /\ req[r].snapshot = req[r].liveSnapshot
     THEN Goto(r, "current") ELSE Goto(r, "find")
  /\ Reads

\* getVersion of the live version: answered as unchanged, unless it is gone.
Current(r) ==
  /\ At(r, "current")
  /\ IF Exists(req[r].liveRead) THEN Answer(r) ELSE Goto(r, "find")
  /\ Reads

-----------------------------------------------------------------------------
(* openDraft *)

\* What the request wanted a draft for.
Opened(r, v) ==
  Become(r, [req[r] EXCEPT !.pc = IF req[r].op = "edit" THEN "append" ELSE "seal", !.version = v])

\* findDraft: the draft with the highest number.
Newest(v, some) == v \in some /\ \A u \in some : NumberOf(u) <= NumberOf(v)

\* Mutated form: the newest version of any status is taken for a draft.
FindNewest(r, otherwise) ==
  LET all == {v \in Ids : Exists(v)}
  IN  \/ \E v \in all : Newest(v, all) /\ Opened(r, v)
      \/ all = {} /\ Become(r, otherwise)

FindDraft(r, otherwise) ==
  \/ \E v \in Drafts : Newest(v, Drafts) /\ Opened(r, v)
  \/ Drafts = {} /\ Become(r, otherwise)

Find(r) ==
  /\ At(r, "find")
  /\ FindDraft(r, [req[r] EXCEPT !.pc = "latest"])
  /\ Reads

\* createDraft: the highest number in use ...
ReadLatest(r) ==
  /\ At(r, "latest")
  /\ LET used == {NumberOf(v) : v \in {u \in Ids : Exists(u)}}
     IN  \E n \in used \cup {0} :
           /\ \A m \in used : m <= n
           /\ Become(r, [req[r] EXCEPT !.pc = "insert", !.latest = n])
  /\ Reads

\* Mutated form: the (environmentId, number) index is not unique.
InsertUnchecked(r) ==
  /\ At(r, "insert")
  /\ LET number == req[r].latest + 1
     IN  /\ created < MaxVersions
         /\ versions' = [versions EXCEPT ![created + 1] =
              [number |-> number, status |-> "draft", snapshot |-> Empty, changes |-> {}]]
         /\ created' = created + 1
         /\ numbers' = numbers \cup {number}
         /\ Opened(r, created + 1)
  /\ UNCHANGED <<working, live, served>>

\* ... then INSERT with the next one, unless another row has it by now.
Insert(r) ==
  /\ At(r, "insert")
  /\ LET number == req[r].latest + 1
     IN  IF \E v \in Ids : Exists(v) /\ NumberOf(v) = number
         THEN Goto(r, "refind") /\ UNCHANGED <<versions, created, numbers>>
         ELSE /\ created < MaxVersions
              /\ versions' = [versions EXCEPT ![created + 1] =
                   [number |-> number, status |-> "draft", snapshot |-> Empty, changes |-> {}]]
              /\ created' = created + 1
              /\ numbers' = numbers \cup {number}
              /\ Opened(r, created + 1)
  /\ UNCHANGED <<working, live, served>>

\* Mutated form: createDraft tries as often as it takes.
RefindForever(r) ==
  /\ At(r, "refind")
  /\ FindDraft(r, [req[r] EXCEPT !.pc = "latest", !.attempt = @ + 1])
  /\ Reads

\* After the violation: whoever won may have opened the draft; else try again.
Refind(r) ==
  /\ At(r, "refind")
  /\ FindDraft(r, IF req[r].attempt = MaxAttempts THEN Idle("failed")
                  ELSE [req[r] EXCEPT !.pc = "latest", !.attempt = @ + 1])
  /\ Reads

\* appendChange: a foreign key on the version.  The recorder's failure is
\* logged, and the save is answered all the same.
Append(r) ==
  /\ At(r, "append")
  /\ LET v == req[r].version
     IN  versions' = IF Exists(v) THEN [versions EXCEPT ![v].changes = @ \cup {req[r].change}]
                     ELSE versions
  /\ Answer(r)
  /\ UNCHANGED <<working, created, live, served, numbers>>

-----------------------------------------------------------------------------
(* Seal, repoint, prune *)

\* sealVersion: one transaction, whatever the version's status is by now.
Seal(r) ==
  /\ At(r, "seal")
  /\ LET v == req[r].version
     IN  IF Exists(v)
         THEN /\ versions' = [versions EXCEPT ![v].status = "published",
                                              ![v].snapshot = req[r].snapshot]
              /\ Goto(r, "setLive")
         ELSE Throw(r) /\ UNCHANGED versions
  /\ UNCHANGED <<working, created, live, served, numbers>>

\* A prune is about to delete what it does not keep, and does not keep v.
Doomed(v) == \E p \in Requests : At(p, "delete") /\ v \notin req[p].kept

\* updateEnvironment: liveVersionId is a foreign key.
SetLive(r) ==
  /\ At(r, "setLive")
  /\ LET v == req[r].version
     IN  IF Exists(v)
         THEN /\ live' = v
              /\ served' = IF Doomed(v) THEN None ELSE v
              /\ IF req[r].op = "publish" THEN Goto(r, "survivors") ELSE Answer(r)
         ELSE Throw(r) /\ UNCHANGED <<live, served>>
  /\ UNCHANGED <<working, versions, created, numbers>>

\* pruneHistory: the newest versions ...
ReadSurvivors(r) ==
  /\ At(r, "survivors")
  /\ LET all == {v \in Ids : Exists(v)}
         newer(v) == {u \in all : NumberOf(u) > NumberOf(v)}
     IN  Become(r, [req[r] EXCEPT !.pc = "protect",
                                  !.kept = {v \in all : Cardinality(newer(v)) < Keep}])
  /\ Reads

\* Mutated form: the live version is not protected.
ReadProtectedNone(r) ==
  /\ At(r, "protect")
  /\ Goto(r, "delete")
  /\ Reads

\* ... and the live one are kept ...
ReadProtected(r) ==
  /\ At(r, "protect")
  /\ Become(r, [req[r] EXCEPT !.pc = "delete",
                              !.kept = @ \cup (IF live = None THEN {} ELSE {live})])
  /\ Reads

\* Mutated form: drafts are deleted like any other version.
PrunableByAge(r) == {v \in Ids : Exists(v)} \ req[r].kept
Prunable(r) == {v \in Ids : Published(v)} \ req[r].kept

\* ... and every other published version is deleted, its snapshot and changes
\* with it; a live pointer to it becomes null (onDelete: SetNull).
Delete(r) ==
  /\ At(r, "delete")
  /\ versions' = [v \in Ids |-> IF v \in Prunable(r) THEN None ELSE versions[v]]
  /\ live' = IF live \in Prunable(r) THEN None ELSE live
  /\ Answer(r)
  /\ UNCHANGED <<working, created, served, numbers>>

\* Any statement may fail, or the process stop: what is done is done.
Fail(r) ==
  /\ Busy(r)
  /\ Throw(r)
  /\ Reads

-----------------------------------------------------------------------------
Init ==
  /\ working = Empty
  /\ versions = [v \in Ids |-> None]
  /\ created = 0
  /\ live = None
  /\ req = [r \in Requests |-> Idle("none")]
  /\ arrivals = 0
  /\ served = None
  /\ numbers = {}
  /\ overlapped = {}

Arrive(r) ==
  \/ \E h \in Halves : StartEdit(r, h)
  \/ StartPublish(r)
  \/ \E v \in Ids : StartRollback(r, v)

Work(r) ==
  \/ \E h \in Halves : ReadWorking(r, h) \/ ReadLive(r, h)
  \/ Compare(r) \/ Current(r)
  \/ Find(r) \/ ReadLatest(r) \/ Insert(r) \/ Refind(r) \/ Append(r)
  \/ Seal(r) \/ SetLive(r) \/ ReadSurvivors(r) \/ ReadProtected(r) \/ Delete(r)
  \/ Fail(r)

Next ==
  \E r \in Requests :
    \/ arrivals < MaxArrivals /\ arrivals' = arrivals + 1 /\ Arrive(r)
    \/ Work(r) /\ UNCHANGED <<arrivals, overlapped>>

Spec == Init /\ [][Next]_vars

-----------------------------------------------------------------------------
(* Properties *)

\* Every variable has its type.
TypeOK ==
  /\ working \in Edits
  /\ versions \in [Ids -> Versions \cup {None}]
  /\ created \in 0..MaxVersions
  /\ live \in Ids \cup {None}
  /\ req \in [Requests -> RequestStates]
  /\ arrivals \in Nat
  /\ served \in Ids \cup {None}
  /\ numbers \in SUBSET Nat
  /\ overlapped \in SUBSET Requests

\* What an environment serves once it was published is the version last made
\* live, and that is sealed: never a draft, and never its working copy, which
\* version-service.ts:194-198 serves when liveVersionId is null.  It holds
\* whatever publishes, rollbacks and prunes run side by side, with one race
\* excepted: a version made live between a prune's reading of what to keep and
\* its deleting of the rest (prisma-version-repository.ts:271-292).
LiveIsSealed ==
  /\ live # None => Published(live)
  /\ served # None => live = served

\* prisma-version-repository.ts:121-123: numbers are per environment and
\* gapless.  No two rows share one, and none was ever skipped.
NumbersGapless ==
  /\ numbers = 1..Cardinality(numbers)
  /\ \A u, v \in Ids : Exists(u) /\ Exists(v) /\ NumberOf(u) = NumberOf(v) => u = v

\* A change waiting to be published is never lost: pruning, racing drafts and
\* failed publishes take a reported change away only with a published version.
KeepsPending ==
  \A v \in Drafts : versions'[v] # None /\ versions[v].changes \subseteq versions'[v].changes

PendingChangesKept == [][KeepsPending]_vars

\* A publish that nothing overlapped leaves the working copy live, whatever
\* the races and failures before it left behind: several drafts, drafts older
\* than the live version, versions sealed and never made live.
LoneOnes == {r \in Requests : req[r].op = "publish" /\ r \notin overlapped}

PublishEffective ==
  [][\A r \in LoneOnes :
       req'[r].answer = "done" => live' # None /\ versions'[live'].snapshot = working]_vars

\* The history is the log that ReleaseLog describes: what requests that overlap
\* spoil - a draft sealed twice or with half of another's edits, two drafts at
\* once, a fresh or a live version pruned - never comes of requests that run one
\* after another, wherever they fail and whatever races left behind.
Log == INSTANCE ReleaseLog WITH
  Contents <- Edits,
  number <- [v \in Ids |-> IF Exists(v) THEN NumberOf(v) ELSE 0],
  content <- [v \in Ids |-> IF Published(v) THEN versions[v].snapshot ELSE None],
  given <- Cardinality(numbers),
  overlap <- \E r \in overlapped : Busy(r)

ImplementsLog == Log!Spec

\* prisma-version-repository.ts:267-268: the environment's live version is
\* never pruned.
LiveNeverPruned == [][live # None => live' # None]_vars

\* schema.prisma:331 and version-service.ts:52: a published snapshot is
\* immutable, nothing mutates published content.
PublishedImmutable ==
  [][\A v \in Ids : Published(v) /\ versions'[v] # None =>
       versions'[v].snapshot = versions[v].snapshot]_vars
=============================================================================
