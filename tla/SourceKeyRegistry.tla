------------------------- MODULE SourceKeyRegistry -------------------------
(* The SDK's queue of source keys, packages/sdk/src/source-key-registry.ts: *)
(* the app reports a key with its default text whenever it renders it, and  *)
(* batches of the keys that are new go to the server.                       *)
(*                                                                          *)
(* One event loop runs everything.  A flush goes from one await to the next *)
(* in one step.  Callers whose promise has settled are in ready, the        *)
(* microtask queue: they resume in that order, before any timer fires or    *)
(* any answer of the network is seen, though the app's own microtasks may   *)
(* report keys or call flush in between.                                    *)
(*                                                                          *)
(* The server is pages/api/v1/projects/[projectId]/keys/sync.ts, reduced to *)
(* what it does with the names and texts of a batch: it refuses the batch   *)
(* at the plan's limit, or compares it with the keys it has and stores what *)
(* differs key by key.  A handler whose client has seen the request fail is *)
(* not cancelled: it may go on, and store an older batch after a newer one  *)
(* was acknowledged.  One client reports; what a rename detects and what    *)
(* translations come of a key are in KeyConsolidation and TranslationCells. *)
EXTENDS Naturals, Sequences, FiniteSets

CONSTANTS
  Keys,          \* names in the app's code: translations and flags
  Flags,         \* those that are feature flags, which have no text
  Texts,         \* default texts
  FlagText,      \* what stands for the text of a flag
  Calls,         \* concurrent calls of flush ...
  Hiding,        \* ... and those that a page being hidden makes
  BatchSize,
  MaxRetries,    \* config.maxRetries
  MaxReports,    \* bound: how often the app reports a key
  None

ASSUME ConstantsAssumption ==
  /\ Flags \subseteq Keys /\ Hiding \subseteq Calls /\ FlagText \in Texts
  /\ BatchSize \in Nat \ {0} /\ MaxRetries \in Nat /\ MaxReports \in Nat
  /\ None \notin Texts \cup Calls

VARIABLES
  pending,        \* key -> the text to send, or None
  acknowledged,   \* key -> the text the server confirmed last, or None
  timer,          \* a debounced flush is scheduled
  activeFlush,    \* the call whose drain new callers of flush await, or None
  ingestBlocked,
  call,           \* call of flush -> its local state
  waiters,        \* call -> the calls that await its drain, in order
  ready,          \* calls about to resume, in order
  server,         \* key -> the text the server holds, or None
  strays,         \* <<key, text>> that abandoned handlers may still store, however many
  merged,         \* keys that were merged into another: the server stores no text for them
  (* history, never read by the code's own steps *)
  reports,        \* how many keys the app has reported
  latest,         \* key -> the text reported last, or None
  displaced,      \* keys whose text on the server was replaced by an abandoned handler,
                  \* a merge or a rename, and not stored again since
  reverted,       \* keys reported with their acknowledged text while another was in flight
  overlapped,     \* two drains have run at once
  stalled         \* since the last report or flush, a drain failed or the client was disposed

queue == <<pending, acknowledged, timer, activeFlush, ingestBlocked>>
remote == <<server, strays, merged, displaced>>
history == <<reports, latest, reverted, overlapped, stalled>>
vars == <<queue, call, waiters, ready, remote, history>>

-----------------------------------------------------------------------------
Items == [Keys -> Texts \cup {None}]
Nothing == [k \in Keys |-> None]
KeysOf(items) == {k \in Keys : items[k] # None}

(* awaiting: flush awaits somebody's drain.  pushing, backoff: its drain is *)
(* at an attempt to push, or between two.  drained: its drain has settled,  *)
(* woken: the drain it awaited has; both are in ready, and failed says how. *)
(* taken: the handler of the push has compared the batch with its keys, and *)
(* left are those that it still has to store.                               *)
CallStates ==
  [pc : {"idle", "awaiting", "pushing", "backoff", "drained", "woken"},
   keepalive : BOOLEAN, batch : Items, attempt : Nat, taken : BOOLEAN, left : SUBSET Keys,
   failed : BOOLEAN]

Idle == [pc |-> "idle", keepalive |-> FALSE, batch |-> Nothing, attempt |-> 0,
         taken |-> FALSE, left |-> {}, failed |-> FALSE]

At(f, pc) == call[f].pc = pc
InFlight(f) == call[f].pc \in {"pushing", "backoff"}
Carries(f, k) == InFlight(f) /\ call[f].batch[k] # None
MacroTask == ready = <<>>

\* The batch a drain takes: BatchSize of what is pending, or all of it.
Batches ==
  LET all == KeysOf(pending)
      taken == IF Cardinality(all) <= BatchSize THEN {all}
               ELSE {s \in SUBSET all : Cardinality(s) = BatchSize}
  IN  {[k \in Keys |-> IF k \in s THEN pending[k] ELSE None] : s \in taken}

Pushing(items, keepalive) ==
  [Idle EXCEPT !.pc = "pushing", !.batch = items, !.keepalive = keepalive]

Without(items, taken) == [k \in Keys |-> IF taken[k] # None THEN None ELSE items[k]]
Over(items, old) == [k \in Keys |-> IF items[k] # None THEN items[k] ELSE old[k]]

-----------------------------------------------------------------------------
(* The app reports keys *)

\* Nothing to send: the text is pending already, or nothing is and it is the
\* acknowledged one.  What is in flight is not looked at.  A flag is sent
\* again at every report: its fingerprint never equals the stored one.
IsKnown(k, t) ==
  k \notin Flags /\ (pending[k] = t \/ (pending[k] = None /\ acknowledged[k] = t))

\* Mutated form: a timer is only set for the first key that is pending.
SchedulesFirst(k, t) == ~IsKnown(k, t) /\ pending = Nothing

Schedules(k, t) == ~IsKnown(k, t)

\* enqueue, enqueueFlag
Enqueue(k, t) ==
  /\ ~ingestBlocked /\ reports < MaxReports
  /\ k \in Flags => t = FlagText
  /\ pending' = IF IsKnown(k, t) THEN pending ELSE [pending EXCEPT ![k] = t]
  /\ timer' = (timer \/ Schedules(k, t))
  /\ reports' = reports + 1
  /\ latest' = [latest EXCEPT ![k] = t]
  /\ reverted' = IF IsKnown(k, t) /\ pending[k] = None /\ \E f \in Calls : Carries(f, k)
                 THEN reverted \cup {k} ELSE reverted \ {k}
  /\ stalled' = (stalled /\ IsKnown(k, t))
  /\ UNCHANGED <<acknowledged, activeFlush, ingestBlocked, call, waiters, ready, remote, overlapped>>

-----------------------------------------------------------------------------
(* flush.  rest is what is left of the microtask queue, active the active   *)
(* flush by the time the code looks at it.                                  *)

\* The synchronous part of drain: a batch leaves pending and is pushed, and
\* the drain is the active one.
Drain(f, keepalive, rest) ==
  /\ \E items \in Batches :
       /\ call' = [call EXCEPT ![f] = Pushing(items, keepalive)]
       /\ pending' = Without(pending, items)
  /\ activeFlush' = f
  /\ overlapped' = (overlapped \/ \E g \in Calls \ {f} : InFlight(g))
  /\ ready' = rest
  /\ UNCHANGED <<waiters, stalled>>

Return(f, active, rest, threw) ==
  /\ call' = [call EXCEPT ![f] = Idle]
  /\ activeFlush' = active
  /\ ready' = rest
  /\ stalled' = (stalled \/ threw)
  /\ UNCHANGED <<pending, waiters, overlapped>>

\* Awaiting a drain that has settled takes one turn of the microtask queue.
Await(f, keepalive, g, rest) ==
  LET settled == At(g, "drained")
  IN  /\ call' = [call EXCEPT ![f] = [Idle EXCEPT !.keepalive = keepalive,
                     !.pc = IF settled THEN "woken" ELSE "awaiting",
                     !.failed = settled /\ call[g].failed]]
      /\ ready' = IF settled THEN Append(rest, f) ELSE rest
      /\ waiters' = IF settled THEN waiters ELSE [waiters EXCEPT ![g] = Append(@, f)]
      /\ activeFlush' = g
      /\ UNCHANGED <<pending, overlapped, stalled>>

\* flush up to its first await.
Begin(f, keepalive, active, rest) ==
  /\ timer' = FALSE
  /\ \/ active # None /\ Await(f, keepalive, active, rest)
     \/ active = None /\ pending = Nothing /\ Return(f, None, rest, FALSE)
     \/ active = None /\ pending # Nothing /\ Drain(f, keepalive, rest)

\* The app calls flush, or the page is hidden: then it is to be kept alive,
\* and drains once.
Flush(f, keepalive) ==
  /\ At(f, "idle") /\ (keepalive <=> f \in Hiding)
  /\ Begin(f, keepalive, activeFlush, ready)
  /\ UNCHANGED <<acknowledged, ingestBlocked, remote, reports, latest, reverted>>

TimerFires(f) ==
  /\ MacroTask /\ timer /\ f \notin Hiding /\ At(f, "idle")
  /\ Begin(f, FALSE, activeFlush, ready)
  /\ UNCHANGED <<acknowledged, ingestBlocked, remote, reports, latest, reverted>>

\* dispose: nobody will flush what is pending, unless asked.
Dispose ==
  /\ timer' = FALSE
  /\ stalled' = TRUE
  /\ UNCHANGED <<pending, acknowledged, activeFlush, ingestBlocked, call, waiters, ready, remote,
                 reports, latest, reverted, overlapped>>

\* The call at the head of the microtask queue goes on after its await.
Resume(f) ==
  LET rest == Tail(ready)
      active == IF At(f, "drained") /\ activeFlush = f THEN None ELSE activeFlush
  IN  /\ ready # <<>> /\ f = Head(ready)
      /\ \/ /\ call[f].failed
            /\ Return(f, active, rest, TRUE)
            /\ UNCHANGED timer
         \/ /\ ~call[f].failed
            /\ pending = Nothing \/ (At(f, "drained") /\ call[f].keepalive)
            /\ Return(f, active, rest, FALSE)
            /\ UNCHANGED timer
         \/ /\ ~call[f].failed /\ At(f, "drained") /\ ~call[f].keepalive /\ pending # Nothing
            /\ Begin(f, FALSE, active, rest)
         \/ /\ ~call[f].failed /\ At(f, "woken") /\ pending # Nothing
            /\ Drain(f, call[f].keepalive, rest)
            /\ UNCHANGED timer
      /\ UNCHANGED <<acknowledged, ingestBlocked, remote, reports, latest, reverted>>

-----------------------------------------------------------------------------
(* A drain between its awaits *)

\* Mutated form: whoever waits is only told of a success.
SettleQuietly(f, failed) ==
  LET woken == {waiters[f][i] : i \in 1..Len(waiters[f])}
  IN  /\ call' = [g \in Calls |->
                    IF g = f THEN [Idle EXCEPT !.pc = "drained", !.keepalive = call[f].keepalive, !.failed = failed]
                    ELSE IF g \in woken /\ ~failed THEN [call[g] EXCEPT !.pc = "woken"]
                    ELSE call[g]]
      /\ ready' = IF failed THEN Append(ready, f) ELSE (ready \o <<f>>) \o waiters[f]
      /\ waiters' = [waiters EXCEPT ![f] = <<>>]

\* The drain's promise settles: its call and whoever awaits it will resume.
Settle(f, failed) ==
  LET woken == {waiters[f][i] : i \in 1..Len(waiters[f])}
  IN  /\ call' = [g \in Calls |->
                    IF g = f THEN [Idle EXCEPT !.pc = "drained", !.keepalive = call[f].keepalive, !.failed = failed]
                    ELSE IF g \in woken THEN [call[g] EXCEPT !.pc = "woken", !.failed = failed]
                    ELSE call[g]]
      /\ ready' = (ready \o <<f>>) \o waiters[f]
      /\ waiters' = [waiters EXCEPT ![f] = <<>>]

\* syncFromSource classifies the batch against the keys it finds: a merged
\* name only has its use recorded, an unchanged text is not written.
Take(f) ==
  /\ At(f, "pushing") /\ ~call[f].taken
  /\ LET items == call[f].batch
         differing == {k \in KeysOf(items) \ merged : server[k] # items[k]}
     IN  /\ call' = [call EXCEPT ![f].taken = TRUE, ![f].left = differing]
         /\ displaced' = displaced \ {k \in KeysOf(items) : server[k] = items[k]}
  /\ UNCHANGED <<queue, waiters, ready, server, strays, merged, history>>

\* createKey, updateKeySourceText, recordDetection of one key; an update by id
\* throws when the row has been merged away.
Apply(f, k) ==
  /\ At(f, "pushing") /\ k \in call[f].left \ merged
  /\ call' = [call EXCEPT ![f].left = @ \ {k}]
  /\ server' = [server EXCEPT ![k] = call[f].batch[k]]
  /\ displaced' = displaced \ {k}
  /\ UNCHANGED <<queue, waiters, ready, strays, merged, history>>

\* The same step of a handler whose client has given the request up.  Another
\* one may have the same to store, so the pair stays.
Stray(k, t) ==
  /\ <<k, t>> \in strays /\ k \notin merged
  /\ server' = [server EXCEPT ![k] = t]
  /\ displaced' = IF server[k] = t THEN displaced ELSE displaced \cup {k}
  /\ UNCHANGED <<queue, call, waiters, ready, strays, merged, history>>

\* Somebody merges the key, which leaves its name as an alias, or a sync finds
\* it renamed.
Retire(k, asAlias) ==
  /\ k \notin Flags /\ server[k] # None
  /\ server' = [server EXCEPT ![k] = None]
  /\ merged' = IF asAlias THEN merged \cup {k} ELSE merged
  /\ displaced' = displaced \cup {k}
  /\ UNCHANGED <<queue, call, waiters, ready, strays, history>>

\* The request has failed for the client: its handler is left to itself, with
\* what it has not stored, or all of it when it has not begun.
Abandon(f) ==
  LET rest == IF call[f].taken THEN call[f].left ELSE KeysOf(call[f].batch)
  IN  /\ strays' = strays \cup {<<k, call[f].batch[k]>> : k \in rest}
      /\ UNCHANGED <<server, merged, displaced>>

\* The push succeeds: the batch is acknowledged, and the drain goes on with
\* what was reported meanwhile.
Answer(f) ==
  /\ MacroTask /\ At(f, "pushing") /\ call[f].taken /\ call[f].left = {}
  /\ acknowledged' = Over(call[f].batch, acknowledged)
  /\ \/ /\ pending # Nothing
        /\ \E items \in Batches :
             /\ call' = [call EXCEPT ![f] = Pushing(items, call[f].keepalive)]
             /\ pending' = Without(pending, items)
        /\ UNCHANGED <<ready, waiters>>
     \/ /\ pending = Nothing
        /\ Settle(f, FALSE)
        /\ UNCHANGED pending
  /\ UNCHANGED <<timer, activeFlush, ingestBlocked, remote, history>>

\* It fails, whatever the server has stored of it or will, and is tried again.
AnswerLost(f) ==
  /\ MacroTask /\ At(f, "pushing") /\ call[f].attempt < MaxRetries
  /\ call' = [call EXCEPT ![f].pc = "backoff", ![f].taken = FALSE, ![f].left = {}]
  /\ Abandon(f)
  /\ UNCHANGED <<queue, waiters, ready, history>>

\* Mutated form: the attempts are not counted.
RetryUncounted(f) ==
  /\ MacroTask /\ At(f, "backoff")
  /\ call' = [call EXCEPT ![f].pc = "pushing"]
  /\ UNCHANGED <<queue, waiters, ready, remote, history>>

Retry(f) ==
  /\ MacroTask /\ At(f, "backoff")
  /\ call' = [call EXCEPT ![f].pc = "pushing", ![f].attempt = @ + 1]
  /\ UNCHANGED <<queue, waiters, ready, remote, history>>

\* Mutated form: the batch that failed replaces what was reported meanwhile.
PutBackOver(items) == Over(items, pending)

\* Mutated form: the batch that failed is forgotten.
PutBackNothing(items) == pending

\* A key reported again meanwhile keeps its newer text.
PutBack(items) == Over(pending, items)

GiveUp(f) ==
  /\ MacroTask /\ At(f, "pushing") /\ call[f].attempt >= MaxRetries
  /\ pending' = PutBack(call[f].batch)
  /\ Settle(f, TRUE)
  /\ Abandon(f)
  /\ UNCHANGED <<acknowledged, timer, activeFlush, ingestBlocked, history>>

\* The server refuses the batch at the plan's limit: the SDK reports no more.
Refused(f) ==
  /\ MacroTask /\ At(f, "pushing") /\ ~call[f].taken
  /\ ingestBlocked' = TRUE
  /\ pending' = Nothing
  /\ timer' = FALSE
  /\ Settle(f, FALSE)
  /\ UNCHANGED <<acknowledged, activeFlush, remote, history>>

-----------------------------------------------------------------------------
Init ==
  /\ pending = Nothing
  /\ acknowledged = Nothing
  /\ timer = FALSE
  /\ activeFlush = None
  /\ ingestBlocked = FALSE
  /\ call = [f \in Calls |-> Idle]
  /\ waiters = [f \in Calls |-> <<>>]
  /\ ready = <<>>
  /\ server \in {items \in Items : \A k \in Flags : items[k] \in {None, FlagText}}
  /\ strays = {}
  /\ merged = {}
  /\ displaced = {}
  /\ reports = 0
  /\ latest = Nothing
  /\ reverted = {}
  /\ overlapped = FALSE
  /\ stalled = FALSE

\* What the network and the event loop do by themselves.
Progress(f) == Resume(f) \/ Answer(f) \/ AnswerLost(f) \/ Retry(f) \/ GiveUp(f) \/ Refused(f)

Next ==
  \/ \E k \in Keys, t \in Texts : Enqueue(k, t)
  \/ Dispose
  \/ \E k \in Keys, t \in Texts : Stray(k, t)
  \/ \E k \in Keys, asAlias \in BOOLEAN : Retire(k, asAlias)
  \/ \E f \in Calls : \/ \E keepalive \in BOOLEAN : Flush(f, keepalive)
                      \/ \E k \in Keys : Apply(f, k)
                      \/ TimerFires(f) \/ Take(f) \/ Progress(f)

Fairness == \A f \in Calls : SF_vars(Progress(f))

Spec == Init /\ [][Next]_vars /\ Fairness

-----------------------------------------------------------------------------
(* Properties *)

\* Every variable has its type; ready lists the calls about to resume, and
\* whoever awaits a drain is among the waiters of one that runs.
TypeOK ==
  /\ pending \in Items /\ acknowledged \in Items /\ server \in Items /\ latest \in Items
  /\ timer \in BOOLEAN /\ ingestBlocked \in BOOLEAN
  /\ activeFlush \in Calls \cup {None}
  /\ call \in [Calls -> CallStates]
  /\ waiters \in [Calls -> Seq(Calls)] /\ ready \in Seq(Calls)
  /\ {ready[i] : i \in 1..Len(ready)} = {f \in Calls : call[f].pc \in {"drained", "woken"}}
  /\ \A f \in Calls : At(f, "awaiting") =>
       \E g \in Calls : InFlight(g) /\ \E i \in 1..Len(waiters[g]) : waiters[g][i] = f
  /\ strays \subseteq Keys \X Texts /\ merged \subseteq Keys /\ displaced \subseteq Keys
  /\ reports \in Nat /\ reverted \subseteq Keys
  /\ overlapped \in BOOLEAN /\ stalled \in BOOLEAN

\* The text of k that will be the server's in the end.
Final(k) ==
  IF pending[k] # None THEN {pending[k]}
  ELSE IF \E f \in Calls : Carries(f, k) THEN {call[f].batch[k] : f \in {g \in Calls : Carries(g, k)}}
  ELSE {acknowledged[k]}

\* client.test.ts:47, "deduplicates keys and keeps the latest source text":
\* the text reported last is pending, in flight, or acknowledged, and no older
\* one comes after it, through retries, batches that are put back and flushes
\* that overlap.  Excepted are a plan's limit, drains side by side, and a
\* report dropped because an older text is still the acknowledged one.
LatestKept ==
  ~ingestBlocked /\ ~overlapped =>
    \A k \in Keys \ reverted : latest[k] # None => Final(k) = {latest[k]}

\* With the same exceptions, when a key is neither pending nor in flight the
\* server holds the text reported last, though answers were lost and handlers
\* stopped half-way through a batch - unless, after it was stored or found
\* there, an abandoned handler came late with another text or the key was
\* merged or renamed.
ServerHasLatest ==
  ~ingestBlocked /\ ~overlapped =>
    \A k \in Keys \ (reverted \cup displaced) :
      latest[k] # None /\ pending[k] = None /\ (\A f \in Calls : ~Carries(f, k))
        => server[k] = latest[k]

\* What is pending has a timer or a flush that will send it, unless a flush
\* has thrown or the client was disposed.
NothingStranded ==
  pending # Nothing => timer \/ stalled \/ \E f \in Calls : ~At(f, "idle")

\* Every call of flush returns or throws, also one that waits for the drain
\* of another, drains again, or is put off by what is reported meanwhile.
EveryFlushEnds == \A f \in Calls : ~At(f, "idle") ~> At(f, "idle")
=============================================================================
