-------------------------- MODULE ActiveKeyMetering --------------------------
(* Active translation keys against the plan, for one billing scope and one  *)
(* month: every key sync counts the keys, is refused over the included pool *)
(* on Free or invoiced for the overage on Pro, and then detects its keys.   *)
(*                                                                          *)
(* lib/billing/enforce-limits.ts (enforceSourceKeyCapacity) and             *)
(* lib/billing/plan-usage.ts (recordActiveKeyOverage) are the code; each    *)
(* SQL statement and each call of Stripe is a step, and syncs interleave    *)
(* between them.  Stripe may fail, or accept an item and have its answer    *)
(* lost; any statement may fail and end its request.                        *)
(*                                                                          *)
(* Left out: plans without a pool, scopes without a Stripe customer, and    *)
(* the turn of the month.  The rest of a sync (TranslationCells) is here    *)
(* only what it does to which keys count.                                   *)
EXTENDS Naturals, FiniteSets

CONSTANTS
  Names,          \* key names
  Requests,       \* concurrent syncs
  Included,       \* includedActiveKeys
  Block,          \* keys an overage block covers (1000)
  MaxArrivals     \* bound: how many syncs arrive in all

ASSUME ConstantsAssumption ==
  /\ IsFiniteSet(Names)
  /\ Included \in Nat /\ Block \in Nat \ {0} /\ MaxArrivals \in Nat

VARIABLES
  plan,        \* "free" refuses overage, "pro" bills it
  lifecycle,   \* name -> whether its key counts
  highWater,   \* PlanUsage.activeKeyHighWater
  billed,      \* PlanUsage.billedOverageBlocks
  invoiced,    \* the overage blocks Stripe has invoice items for
  req,         \* request -> its local state
  arrivals,    \* syncs that have arrived, for the bound
  overlapped   \* history: requests another one was under way with

vars == <<plan, lifecycle, highWater, billed, invoiced, req, arrivals, overlapped>>
usage == <<highWater, billed, invoiced>>

Active == {n \in Names : lifecycle[n] = "active"}

\* The mutated form bills a block only when it is full.
BlocksWhenFull(keys) == IF keys <= Included THEN 0 ELSE (keys - Included) \div Block

\* overageBlocks: the last block need not be full.
Blocks(keys) == IF keys <= Included THEN 0 ELSE ((keys - Included) + (Block - 1)) \div Block

-----------------------------------------------------------------------------
(* A sync's local state: the incoming names, the names not detected yet,    *)
(* the counts it has read, and the usage row the upsert returned to it.     *)

RequestStates ==
  [pc : {"idle", "count", "incoming", "upsert", "invoice", "mark", "detect"},
   names : SUBSET Names, todo : SUBSET Names, next : Nat, high : Nat, billed : Nat]

Idle == [pc |-> "idle", names |-> {}, todo |-> {}, next |-> 0, high |-> 0, billed |-> 0]

At(r, pc) == req[r].pc = pc
Become(r, local) == req' = [req EXCEPT ![r] = local]
Goto(r, pc) == Become(r, [req[r] EXCEPT !.pc = pc])
Finish(r) == Become(r, Idle)

\* Bookkeeping: a sync that arrives while others are under way overlaps them.
Arrives(r) ==
  LET others == {p \in Requests \ {r} : ~At(p, "idle")}
  IN  overlapped' = IF others = {} THEN overlapped \ {r} ELSE overlapped \cup others \cup {r}

Start(r, names) ==
  /\ At(r, "idle") /\ names # {}
  /\ Become(r, [Idle EXCEPT !.pc = "count", !.names = names, !.todo = names])
  /\ Arrives(r)
  /\ UNCHANGED <<lifecycle, usage>>

\* countActiveTranslationKeys, over the projects of the billing scope ...
Count(r) ==
  /\ At(r, "count")
  /\ Become(r, [req[r] EXCEPT !.pc = "incoming", !.next = Cardinality(Active)])
  /\ UNCHANGED <<lifecycle, usage>>

\* ... then countIncomingAlreadyActive, and the plan decides.
CountIncoming(r) ==
  /\ At(r, "incoming")
  /\ LET next == req[r].next + Cardinality(req[r].names \ Active)
     IN  \/ /\ plan = "free" /\ next > Included
            /\ Finish(r)
         \/ /\ plan = "free" /\ next <= Included
            /\ Goto(r, "detect")
         \/ /\ plan = "pro"
            /\ Become(r, [req[r] EXCEPT !.pc = "upsert", !.next = next])
  /\ UNCHANGED <<lifecycle, usage>>

\* Mutated form: the last count wins.
UpsertLast(r) ==
  /\ At(r, "upsert")
  /\ highWater' = req[r].next
  /\ Become(r, [req[r] EXCEPT !.pc = IF Blocks(highWater') > billed THEN "invoice" ELSE "detect",
                              !.high = highWater', !.billed = billed])
  /\ UNCHANGED <<lifecycle, billed, invoiced>>

\* INSERT ... ON CONFLICT DO UPDATE, the greatest of both counts, RETURNING.
Upsert(r) ==
  /\ At(r, "upsert")
  /\ highWater' = IF req[r].next > highWater THEN req[r].next ELSE highWater
  /\ Become(r, [req[r] EXCEPT !.pc = IF Blocks(highWater') > billed THEN "invoice" ELSE "detect",
                              !.high = highWater', !.billed = billed])
  /\ UNCHANGED <<lifecycle, billed, invoiced>>

\* Stripe takes an item for the blocks the row does not say are billed.
Invoice(r) ==
  /\ At(r, "invoice")
  /\ invoiced' = invoiced + (Blocks(req[r].high) - req[r].billed)
  /\ Goto(r, "mark")
  /\ UNCHANGED <<lifecycle, highWater, billed>>

\* Mutated form: a failed item is recorded like any other.
InvoiceFailsUnnoticed(r) ==
  /\ At(r, "invoice")
  /\ invoiced' \in {invoiced, invoiced + (Blocks(req[r].high) - req[r].billed)}
  /\ Goto(r, "mark")
  /\ UNCHANGED <<lifecycle, highWater, billed>>

\* The call fails, before Stripe took the item or after: it is logged, the
\* row left as it is, and the sync goes on.
InvoiceFails(r) ==
  /\ At(r, "invoice")
  /\ invoiced' \in {invoiced, invoiced + (Blocks(req[r].high) - req[r].billed)}
  /\ Goto(r, "detect")
  /\ UNCHANGED <<lifecycle, highWater, billed>>

\* Mutated form: increment by the delta, whatever the row says by now.
MarkUnguarded(r) ==
  /\ At(r, "mark")
  /\ billed' = billed + (Blocks(req[r].high) - req[r].billed)
  /\ Goto(r, "detect")
  /\ UNCHANGED <<lifecycle, highWater, invoiced>>

\* Mutated form: the delta has the wrong sign.
MarkBackwards(r) ==
  /\ At(r, "mark")
  /\ billed' = IF billed = req[r].billed THEN billed - (Blocks(req[r].high) - billed) ELSE billed
  /\ Goto(r, "detect")
  /\ UNCHANGED <<lifecycle, highWater, invoiced>>

\* updateMany: only while the row says what it said when the item was made.
Mark(r) ==
  /\ At(r, "mark")
  /\ billed' = IF billed = req[r].billed THEN Blocks(req[r].high) ELSE billed
  /\ Goto(r, "detect")
  /\ UNCHANGED <<lifecycle, highWater, invoiced>>

\* syncFromSource detects the keys one by one: a new key counts, an old one
\* counts again unless it is archived or was detected a moment ago.
Detect(r) ==
  /\ At(r, "detect")
  /\ \E n \in req[r].todo :
       /\ \/ lifecycle' = [lifecycle EXCEPT ![n] = "active"]
          \/ lifecycle[n] = "inactive" /\ UNCHANGED lifecycle
       /\ Become(r, [req[r] EXCEPT !.todo = @ \ {n}])
  /\ UNCHANGED usage

\* The sync ends by deprecating the keys the code no longer has.
Deprecate(r, removed) ==
  /\ At(r, "detect") /\ req[r].todo = {}
  /\ lifecycle' = [n \in Names |-> IF n \in removed /\ lifecycle[n] = "active" THEN "inactive"
                                   ELSE lifecycle[n]]
  /\ Finish(r)
  /\ UNCHANGED usage

\* Any statement may fail, or the process stop: what is done is done.
Fail(r) ==
  /\ ~At(r, "idle")
  /\ Finish(r)
  /\ UNCHANGED <<lifecycle, usage>>

-----------------------------------------------------------------------------
Init ==
  /\ plan \in {"free", "pro"}
  /\ lifecycle = [n \in Names |-> "none"]
  /\ highWater = 0 /\ billed = 0 /\ invoiced = 0
  /\ req = [r \in Requests |-> Idle]
  /\ arrivals = 0
  /\ overlapped = {}

Work(r) ==
  \/ Count(r) \/ CountIncoming(r)
  \/ Upsert(r) \/ Invoice(r) \/ InvoiceFails(r) \/ Mark(r)
  \/ Detect(r) \/ \E removed \in SUBSET (Names \ req[r].names) : Deprecate(r, removed)
  \/ Fail(r)

Next ==
  /\ \E r \in Requests :
       \/ /\ arrivals < MaxArrivals /\ arrivals' = arrivals + 1
          /\ \E names \in SUBSET Names : Start(r, names)
       \/ Work(r) /\ UNCHANGED <<arrivals, overlapped>>
  /\ UNCHANGED plan

Spec == Init /\ [][Next]_vars

-----------------------------------------------------------------------------
(* Properties *)

\* Every variable has its type.
TypeOK ==
  /\ plan \in {"free", "pro"}
  /\ lifecycle \in [Names -> {"none", "active", "inactive"}]
  /\ highWater \in Nat /\ billed \in Nat /\ invoiced \in Nat
  /\ req \in [Requests -> RequestStates]
  /\ arrivals \in Nat
  /\ overlapped \in SUBSET Requests

\* plan-usage.ts:40: blocks are recorded as billed only when Stripe has items
\* for them, however syncs race for the row and Stripe's answers get lost.
BilledIsInvoiced == billed <= invoiced

\* Nor are more recorded than the month's highest count calls for.
BilledIsOwed == billed <= Blocks(highWater)

\* plan-usage.ts:41: drops during the month do not refund.
NeverRefunded == [][highWater' >= highWater /\ billed' >= billed]_vars

\* A sync that nothing overlaps, on Free, gets past the limit only if the
\* pool holds its keys; on Pro, when Stripe accepts what it is asked for, it
\* leaves every key that then counts paid for - whatever earlier syncs
\* raced, failed or lost.
Counted(r) == Cardinality(Active \cup req[r].names)

LoneSyncMetered ==
  [][\A r \in Requests \ overlapped :
       (req[r].pc \in {"incoming", "upsert", "mark"} /\ req'[r].pc = "detect") =>
         Counted(r) <= Included + (IF plan = "pro" THEN Block * billed' ELSE 0)]_vars
=============================================================================
