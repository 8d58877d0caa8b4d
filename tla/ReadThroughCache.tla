-------------------------- MODULE ReadThroughCache --------------------------
(* The read cache of one server process, lib/cache/read-through.ts: reads   *)
(* are remembered until a write drops them, and callers that miss while a   *)
(* load is under way await its promise.                                     *)
(*                                                                          *)
(* The process runs one callback at a time, and readThrough, remember and   *)
(* invalidateReads do not await inside: each is one step.  Between the      *)
(* steps of a load - the query, the then that remembers its value, the      *)
(* finally - any other callback may run.                                    *)
(*                                                                          *)
(* What is cached for a key is a view of one project; its content is        *)
(* abstracted to how many writes to the project it has seen.                *)
EXTENDS Naturals, Sequences, FiniteSets

CONSTANTS
  Keys,          \* cache keys, a prefix of which names the project
  Projects,
  ProjectOf,     \* key -> the project whose invalidation covers it
  Callers,       \* concurrent calls of readThrough
  Writers,       \* concurrent requests that write, then invalidate
  MaxEntries,    \* MAX_ENTRIES
  MaxWrites,     \* bound: how many writes a project sees
  None           \* no entry, no promise, nothing read

ASSUME ConstantsAssumption ==
  /\ ProjectOf \in [Keys -> Projects]
  /\ MaxEntries \in Nat \ {0} /\ MaxWrites \in Nat
  /\ None \notin Nat \cup Keys \cup Projects \cup Callers
  /\ None \notin [value : Nat, late : BOOLEAN]

VARIABLES
  db,         \* project -> the writes committed to it
  reads,      \* key -> what is remembered of it, or None
  order,      \* the remembered keys, the oldest insertion first
  pending,    \* key -> the caller whose promise new callers join, or None
  call,       \* caller -> its local state
  owed,       \* writer -> the project it has written and not yet invalidated
  (* history, never read by the code's own steps *)
  covered     \* project -> its writes by the time it was last invalidated

vars == <<db, reads, order, pending, call, owed, covered>>

-----------------------------------------------------------------------------
(* late: the project was invalidated while the value was being loaded.      *)
(* A caller has started a load of its own (query, loaded, failed, settled), *)
(* or awaits the promise of another (waiting).  since is what was covered   *)
(* when it called.                                                          *)
Entries == [value : Nat, late : BOOLEAN]

CallStates ==
  [pc : {"idle", "waiting", "query", "loaded", "failed", "settled"},
   key : Keys \cup {None}, promise : Callers \cup {None},
   value : Nat \cup {None}, since : Nat]

Idle == [pc |-> "idle", key |-> None, promise |-> None, value |-> None, since |-> 0]

At(c, pc) == call[c].pc = pc
Goto(c, pc) == call' = [call EXCEPT ![c].pc = pc]
Covered(k) == covered[ProjectOf[k]]

-----------------------------------------------------------------------------
(* readThrough *)

\* A hit is answered within the call and changes nothing.  On a miss, the
\* promise of a load under way is returned ...
Join(c, k) ==
  /\ At(c, "idle") /\ reads[k] = None /\ pending[k] # None
  /\ call' = [call EXCEPT ![c] = [Idle EXCEPT !.pc = "waiting", !.key = k,
                                              !.promise = pending[k], !.since = Covered(k)]]
  /\ UNCHANGED <<db, reads, order, pending, owed, covered>>

\* ... or a load is started, and its promise left for others to join.
Load(c, k) ==
  /\ At(c, "idle") /\ reads[k] = None /\ pending[k] = None
  /\ call' = [call EXCEPT ![c] = [Idle EXCEPT !.pc = "query", !.key = k, !.since = Covered(k)]]
  /\ pending' = [pending EXCEPT ![k] = c]
  /\ UNCHANGED <<db, reads, order, owed, covered>>

\* The database answers with what is committed by then.
Query(c) ==
  /\ At(c, "query")
  /\ call' = [call EXCEPT ![c].pc = "loaded", ![c].value = db[ProjectOf[call[c].key]]]
  /\ UNCHANGED <<db, reads, order, pending, owed, covered>>

\* Mutated form: the error is swallowed, and nothing is what was loaded.
QueryFailsSilently(c) ==
  /\ At(c, "query")
  /\ Goto(c, "loaded")
  /\ UNCHANGED <<db, reads, order, pending, owed, covered>>

QueryFails(c) ==
  /\ At(c, "query")
  /\ Goto(c, "failed")
  /\ UNCHANGED <<db, reads, order, pending, owed, covered>>

\* keys, in their order, but for those that are forgotten.
Without(keys, forgotten) ==
  LET rest[i \in 0..Len(keys)] ==
        IF i = 0 THEN <<>>
        ELSE IF keys[i] \in forgotten THEN rest[i - 1] ELSE Append(rest[i - 1], keys[i])
  IN  rest[Len(keys)]

RememberedKeys == {k \in Keys : reads[k] # None}

\* Mutated form: one more entry than the limit.
EvictedTooLate(k) ==
  IF Cardinality(RememberedKeys) > MaxEntries /\ reads[k] = None THEN {Head(order)} ELSE {}

\* The keys remember evicts to make room for k: the oldest, at the limit.
Evicted(k) ==
  IF Cardinality(RememberedKeys) >= MaxEntries /\ reads[k] = None THEN {Head(order)} ELSE {}

\* remember, in the promise's then: a Map keeps the place of a key it has.
Remember(c) ==
  /\ At(c, "loaded")
  /\ LET k == call[c].key
         gone == Evicted(k)
         entry == [value |-> call[c].value, late |-> call[c].since # Covered(k)]
     IN  /\ reads' = [x \in Keys |-> IF x = k THEN entry
                                     ELSE IF x \in gone THEN None ELSE reads[x]]
         /\ order' = IF reads[k] = None THEN Append(Without(order, gone), k) ELSE order
  /\ Goto(c, "settled")
  /\ UNCHANGED <<db, pending, owed, covered>>

Awaits(d, c) == call[d].pc = "waiting" /\ call[d].promise = c

\* Mutated form: a promise that was dropped from pending answers nobody.
ForgetOwn(c) ==
  /\ call[c].pc \in {"settled", "failed"}
  /\ LET k == call[c].key
         own == pending[k] = c
     IN  /\ pending' = IF own THEN [pending EXCEPT ![k] = None] ELSE pending
         /\ call' = [d \in Callers |-> IF d = c \/ (own /\ Awaits(d, c)) THEN Idle ELSE call[d]]
  /\ UNCHANGED <<db, reads, order, owed, covered>>

\* finally: the key's promise is forgotten, whoever's it is by now, and
\* everyone who awaits this one is answered with its value or its error.
Forget(c) ==
  /\ call[c].pc \in {"settled", "failed"}
  /\ pending' = [pending EXCEPT ![call[c].key] = None]
  /\ call' = [d \in Callers |-> IF d = c \/ Awaits(d, c) THEN Idle ELSE call[d]]
  /\ UNCHANGED <<db, reads, order, owed, covered>>

-----------------------------------------------------------------------------
(* Writers *)

Write(w, p) ==
  /\ owed[w] = None /\ db[p] < MaxWrites
  /\ db' = [db EXCEPT ![p] = @ + 1]
  /\ owed' = [owed EXCEPT ![w] = p]
  /\ UNCHANGED <<reads, order, pending, call, covered>>

\* Mutated form: only what is remembered is dropped.
InvalidateRemembered(w) ==
  LET p == owed[w]
      dropped == {k \in Keys : ProjectOf[k] = p}
  IN  /\ p # None
      /\ reads' = [k \in Keys |-> IF k \in dropped THEN None ELSE reads[k]]
      /\ order' = Without(order, dropped)
      /\ owed' = [owed EXCEPT ![w] = None]
      /\ covered' = [covered EXCEPT ![p] = db[p]]
      /\ UNCHANGED <<db, call, pending>>

\* Mutated form: only the promises of running loads are dropped.
InvalidatePending(w) ==
  LET p == owed[w]
  IN  /\ p # None
      /\ pending' = [k \in Keys |-> IF ProjectOf[k] = p THEN None ELSE pending[k]]
      /\ owed' = [owed EXCEPT ![w] = None]
      /\ covered' = [covered EXCEPT ![p] = db[p]]
      /\ UNCHANGED <<db, call, reads, order>>

\* invalidateProjectReads: the remembered reads of the project and the
\* promises of its loads are dropped; the loads themselves run on.
Invalidate(w) ==
  LET p == owed[w]
      dropped == {k \in Keys : ProjectOf[k] = p}
  IN  /\ p # None
      /\ reads' = [k \in Keys |-> IF k \in dropped THEN None ELSE reads[k]]
      /\ order' = Without(order, dropped)
      /\ pending' = [k \in Keys |-> IF k \in dropped THEN None ELSE pending[k]]
      /\ owed' = [owed EXCEPT ![w] = None]
      /\ covered' = [covered EXCEPT ![p] = db[p]]
      /\ UNCHANGED <<db, call>>

\* The request throws between its write and its invalidation.
Abandon(w) ==
  /\ owed[w] # None
  /\ owed' = [owed EXCEPT ![w] = None]
  /\ UNCHANGED <<db, reads, order, pending, call, covered>>

-----------------------------------------------------------------------------
Init ==
  /\ db = [p \in Projects |-> 0]
  /\ reads = [k \in Keys |-> None]
  /\ order = <<>>
  /\ pending = [k \in Keys |-> None]
  /\ call = [c \in Callers |-> Idle]
  /\ owed = [w \in Writers |-> None]
  /\ covered = [p \in Projects |-> 0]

Read(c) == \E k \in Keys : Join(c, k) \/ Load(c, k)

\* The steps of a load that has begun: the driver and the event loop run them.
Settle(c) == Query(c) \/ QueryFails(c) \/ Remember(c) \/ Forget(c)

Next ==
  \/ \E c \in Callers : Read(c) \/ Settle(c)
  \/ \E w \in Writers : (\E p \in Projects : Write(w, p)) \/ Invalidate(w) \/ Abandon(w)

Fairness == \A c \in Callers : WF_vars(Settle(c))

Spec == Init /\ [][Next]_vars /\ Fairness

-----------------------------------------------------------------------------
(* Properties *)

\* Every variable has its type, a load that is through has its value, and
\* order lists the remembered keys.
TypeOK ==
  /\ db \in [Projects -> Nat]
  /\ reads \in [Keys -> Entries \cup {None}]
  /\ order \in Seq(Keys)
  /\ {order[i] : i \in 1..Len(order)} = RememberedKeys
  /\ pending \in [Keys -> Callers \cup {None}]
  /\ call \in [Callers -> CallStates]
  /\ \A c \in Callers : call[c].pc \in {"loaded", "settled"} => call[c].value \in Nat
  /\ owed \in [Writers -> Projects \cup {None}]
  /\ covered \in [Projects -> Nat]

\* read-through.ts:5: however loads and invalidations interleave, no more
\* than MaxEntries reads are remembered.
WithinLimit == Cardinality(RememberedKeys) <= MaxEntries /\ Len(order) <= MaxEntries

\* A read that misses after a project's invalidation sees what was committed
\* before it, whether it loads itself or joins another's load.
MissesAreFresh ==
  /\ \A c \in Callers : call[c].pc \in {"loaded", "settled"} => call[c].value >= call[c].since
  /\ \A c, d \in Callers :
       Awaits(d, c) /\ call[c].pc \in {"loaded", "settled"} => call[c].value >= call[d].since

\* What is remembered is as new as the project's last invalidation, unless
\* its load was already under way when that invalidation ran.
HitsAreFresh == \A k \in Keys : reads[k] # None => reads[k].late \/ reads[k].value >= Covered(k)

\* Whoever awaits a promise is answered, though the promise was dropped from
\* pending and its key loaded again meanwhile.
EveryCallAnswered == \A c \in Callers : (call[c].pc # "idle") ~> (call[c].pc = "idle")
=============================================================================
