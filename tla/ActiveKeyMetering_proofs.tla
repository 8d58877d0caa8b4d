----------------------- MODULE ActiveKeyMetering_proofs -----------------------
(* What the usage row never says, for any number of syncs, names and keys:  *)
(* that blocks are billed which Stripe was not asked for, or which no count *)
(* called for.  The reason is that a sync which is to record blocks still   *)
(* holds a row it read no later than the row now is (RowsAreOld), and that  *)
(* once Stripe took its item, the items cover all it will record            *)
(* (ItemsCoverMarks).  And that a sync nothing overlaps pays for the keys   *)
(* that then count, because it alone has counted them (Alone).              *)
EXTENDS ActiveKeyMetering, FiniteSetTheorems, TLAPS

RowsAreOld ==
  \A r \in Requests :
    req[r].pc \in {"invoice", "mark"} =>
      /\ req[r].high <= highWater
      /\ req[r].billed <= billed
      /\ req[r].billed < Blocks(req[r].high)

ItemsCoverMarks ==
  \A r \in Requests : req[r].pc = "mark" => Blocks(req[r].high) <= invoiced

IInv ==
  /\ TypeOK
  /\ RowsAreOld
  /\ ItemsCoverMarks
  /\ BilledIsInvoiced
  /\ BilledIsOwed

-----------------------------------------------------------------------------
(* Blocks *)

\* The quotient, by its defining inequalities.
LEMMA Quotient ==
  ASSUME NEW n \in Nat, NEW d \in Nat \ {0}
  PROVE  /\ n \div d \in Nat
         /\ d * (n \div d) <= n
         /\ n < d * (n \div d) + d
<1>1. n \div d \in Int /\ n % d \in 0..(d - 1) /\ n = d * (n \div d) + (n % d)
      BY Z3
<1>2. n \div d >= 0
      BY Z3
<1> QED BY <1>1, <1>2

\* More keys are never fewer blocks.
LEMMA BlocksMonotone ==
  ASSUME NEW m \in Nat, NEW n \in Nat, m <= n
  PROVE  Blocks(m) \in Nat /\ Blocks(n) \in Nat /\ Blocks(m) <= Blocks(n)
<1> USE ConstantsAssumption
<1> DEFINE over(k) == (k - Included) + (Block - 1)
<1>1. \A k \in Nat : k > Included => over(k) \in Nat /\ Blocks(k) = over(k) \div Block
      BY DEF Blocks
<1>2. \A k \in Nat : Blocks(k) \in Nat
      BY <1>1, Quotient DEF Blocks
<1>3. CASE m <= Included
      BY <1>2, <1>3 DEF Blocks
<1>4. CASE m > Included
  <2> DEFINE a == Blocks(m)
             b == Blocks(n)
  <2>0. n > Included BY <1>4
  <2>1. /\ a \in Nat /\ b \in Nat /\ over(m) \in Nat /\ over(n) \in Nat
        /\ Block * a <= over(m) /\ over(n) < Block * b + Block
    <3> HIDE DEF over
    <3>1. over(m) \in Nat /\ Blocks(m) = over(m) \div Block BY <1>1, <1>4
    <3>2. over(n) \in Nat /\ Blocks(n) = over(n) \div Block BY <1>1, <2>0
    <3>3. Block * (over(m) \div Block) <= over(m) BY <3>1, Quotient
    <3>4. over(n) < Block * (over(n) \div Block) + Block BY <3>2, Quotient
    <3> QED BY <1>2, <3>1, <3>2, <3>3, <3>4
  <2>2. over(m) <= over(n) BY <1>4
  <2> HIDE DEF over, a, b
  <2>3. Block * a < Block * (b + 1) BY <2>1, <2>2
  <2>4. a < b + 1 BY <2>1, <2>3
  <2> QED BY <1>2, <2>1, <2>4 DEF a, b
<1> QED BY <1>3, <1>4

-----------------------------------------------------------------------------
LEMMA CountType ==
  ASSUME NEW names \in SUBSET Names
  PROVE  Cardinality(names) \in Nat
BY ConstantsAssumption, FS_Subset, FS_CardinalityType

LEMMA IdleType == Idle \in RequestStates /\ Idle.pc = "idle"
BY DEF Idle, RequestStates

\* A request's own step keeps the invariant when the row is left alone and
\* the request is not about to record blocks.
LEMMA LocalStep ==
  ASSUME IInv, NEW r \in Requests, NEW local \in RequestStates,
         local.pc \notin {"invoice", "mark"}, Become(r, local),
         UNCHANGED <<plan, usage>>,
         lifecycle' \in [Names -> {"none", "active", "inactive"}],
         arrivals' \in Nat, overlapped' \in SUBSET Requests
  PROVE  IInv' /\ UNCHANGED <<highWater, billed>>
<1> USE DEF IInv, usage
<1>1. /\ req' \in [Requests -> RequestStates] /\ req'[r] = local
      /\ \A p \in Requests : p # r => req'[p] = req[p]
      BY DEF Become, TypeOK
<1>2. TypeOK' BY <1>1 DEF TypeOK
<1>3. RowsAreOld' BY <1>1 DEF RowsAreOld
<1>4. ItemsCoverMarks' BY <1>1 DEF ItemsCoverMarks
<1>5. BilledIsInvoiced' /\ BilledIsOwed' BY DEF BilledIsInvoiced, BilledIsOwed
<1> QED BY <1>2, <1>3, <1>4, <1>5

LEMMA StartStep ==
  ASSUME IInv, NEW r \in Requests, NEW names \in SUBSET Names, Start(r, names),
         arrivals' = arrivals + 1, UNCHANGED plan
  PROVE  IInv' /\ UNCHANGED <<highWater, billed>>
<1> DEFINE local == [Idle EXCEPT !.pc = "count", !.names = names, !.todo = names]
<1>1. local \in RequestStates /\ local.pc = "count"
      BY IdleType DEF Idle, RequestStates
<1>2. Become(r, local) BY DEF Start
<1>3. overlapped' \in SUBSET Requests BY DEF IInv, TypeOK, Start, Arrives
<1>4. arrivals' \in Nat BY DEF IInv, TypeOK
<1> HIDE DEF local
<1> QED BY <1>1, <1>2, <1>3, <1>4, LocalStep DEF Start, IInv, TypeOK

\* The steps that only read, and the end of a sync.
LEMMA ReadingStep ==
  ASSUME IInv, NEW r \in Requests, UNCHANGED <<plan, arrivals, overlapped>>,
         \/ Count(r) \/ CountIncoming(r) \/ Detect(r) \/ Fail(r)
         \/ \E removed \in SUBSET (Names \ req[r].names) : Deprecate(r, removed)
  PROVE  IInv' /\ UNCHANGED <<highWater, billed>>
<1> USE DEF IInv
<1>1. /\ req[r] \in RequestStates
      /\ arrivals' \in Nat /\ overlapped' \in SUBSET Requests
      BY DEF TypeOK
<1>2. Active \in SUBSET Names BY DEF Active
<1>3. CASE Count(r)
  <2> DEFINE local == [req[r] EXCEPT !.pc = "incoming", !.next = Cardinality(Active)]
  <2>1. local \in RequestStates /\ local.pc = "incoming"
        BY <1>1, <1>2, CountType DEF RequestStates
  <2>2. Become(r, local) BY <1>3 DEF Count
  <2> HIDE DEF local
  <2> QED BY <1>1, <1>3, <2>1, <2>2, LocalStep DEF Count, TypeOK
<1>4. CASE CountIncoming(r)
  <2> DEFINE next == req[r].next + Cardinality(req[r].names \ Active)
             decided == [req[r] EXCEPT !.pc = "detect"]
             counted == [req[r] EXCEPT !.pc = "upsert", !.next = next]
  <2>1. next \in Nat
    <3>1. req[r].names \ Active \in SUBSET Names BY <1>1 DEF RequestStates
    <3> QED BY <1>1, <3>1, CountType DEF RequestStates
  <2>2. /\ decided \in RequestStates /\ decided.pc = "detect"
        /\ counted \in RequestStates /\ counted.pc = "upsert"
        BY <1>1, <2>1 DEF RequestStates
  <2>3. Become(r, Idle) \/ Become(r, decided) \/ Become(r, counted)
        BY <1>4 DEF CountIncoming, Finish, Goto
  <2> HIDE DEF decided, counted
  <2> QED BY <1>1, <1>4, <2>2, <2>3, IdleType, LocalStep DEF CountIncoming, TypeOK
<1>5. CASE Detect(r)
  <2> PICK n \in req[r].todo :
        /\ \/ lifecycle' = [lifecycle EXCEPT ![n] = "active"]
           \/ lifecycle[n] = "inactive" /\ UNCHANGED lifecycle
        /\ Become(r, [req[r] EXCEPT !.todo = @ \ {n}])
      BY <1>5 DEF Detect
  <2> DEFINE local == [req[r] EXCEPT !.todo = @ \ {n}]
  <2>1. local \in RequestStates /\ local.pc = "detect"
        BY <1>1, <1>5 DEF RequestStates, Detect, At
  <2>2. Become(r, local) OBVIOUS
  <2>3. lifecycle' \in [Names -> {"none", "active", "inactive"}] BY DEF TypeOK
  <2> HIDE DEF local
  <2> QED BY <1>1, <1>5, <2>1, <2>2, <2>3, LocalStep DEF Detect
<1>6. CASE Fail(r)
      BY <1>1, <1>6, IdleType, LocalStep DEF Fail, Finish, TypeOK
<1>7. CASE \E removed \in SUBSET (Names \ req[r].names) : Deprecate(r, removed)
  <2> PICK removed \in SUBSET (Names \ req[r].names) : Deprecate(r, removed)
      BY <1>7
  <2>1. lifecycle' \in [Names -> {"none", "active", "inactive"}]
        BY DEF Deprecate, TypeOK
  <2> QED BY <1>1, <2>1, IdleType, LocalStep DEF Deprecate, Finish
<1> QED BY <1>3, <1>4, <1>5, <1>6, <1>7

-----------------------------------------------------------------------------
(* The steps that write the usage row or ask Stripe for an item *)

LEMMA UpsertStep ==
  ASSUME IInv, NEW r \in Requests, Upsert(r), UNCHANGED <<plan, arrivals, overlapped>>
  PROVE  IInv' /\ highWater' >= highWater /\ billed' = billed
<1> USE DEF IInv
<1> DEFINE local == [req[r] EXCEPT !.pc = IF Blocks(highWater') > billed
                                          THEN "invoice" ELSE "detect",
                                   !.high = highWater', !.billed = billed]
<1>1. req[r] \in RequestStates /\ highWater \in Nat /\ billed \in Nat /\ invoiced \in Nat
      BY DEF TypeOK
<1>2. highWater' \in Nat /\ highWater' >= highWater
      BY <1>1 DEF Upsert, RequestStates
<1>3. Blocks(highWater) <= Blocks(highWater') /\ Blocks(highWater) \in Nat
      /\ Blocks(highWater') \in Nat
      BY <1>1, <1>2, BlocksMonotone
<1>4. /\ local \in RequestStates /\ local.pc # "mark"
      /\ local.pc = "invoice" => billed < Blocks(highWater')
      /\ local.high = highWater' /\ local.billed = billed
      BY <1>1, <1>2, <1>3 DEF RequestStates
<1>5. Become(r, local) BY DEF Upsert
<1> HIDE DEF local
<1>6. /\ req' \in [Requests -> RequestStates] /\ req'[r] = local
      /\ \A p \in Requests : p # r => req'[p] = req[p]
      BY <1>4, <1>5 DEF Become, TypeOK
<1>7. UNCHANGED <<billed, invoiced, lifecycle>> BY DEF Upsert
<1>8. TypeOK' BY <1>2, <1>6, <1>7 DEF TypeOK
<1>9. RowsAreOld'
  <2> SUFFICES ASSUME NEW p \in Requests, req'[p].pc \in {"invoice", "mark"}
               PROVE  /\ req'[p].high <= highWater'
                      /\ req'[p].billed <= billed'
                      /\ req'[p].billed < Blocks(req'[p].high)
      BY DEF RowsAreOld, Blocks
  <2>1. CASE p = r BY <2>1, <1>1, <1>2, <1>4, <1>6, <1>7
  <2>2. CASE p # r
    <3>1. req'[p] = req[p] /\ req[p] \in RequestStates BY <2>2, <1>6 DEF TypeOK
    <3>2. /\ req[p].high <= highWater /\ req[p].billed <= billed
          /\ req[p].billed < Blocks(req[p].high)
          BY <3>1 DEF RowsAreOld
    <3>3. req[p].high <= highWater' BY <3>1, <3>2, <1>1, <1>2 DEF RequestStates
    <3> QED BY <3>1, <3>2, <3>3, <1>7
  <2> QED BY <2>1, <2>2
<1>10. ItemsCoverMarks' BY <1>4, <1>6, <1>7 DEF ItemsCoverMarks, Blocks
<1>11. BilledIsInvoiced' BY <1>7 DEF BilledIsInvoiced
<1>12. billed <= Blocks(highWater') BY <1>1, <1>3 DEF BilledIsOwed
<1>13. BilledIsOwed' BY <1>7, <1>12 DEF BilledIsOwed, Blocks
<1> QED BY <1>2, <1>7, <1>8, <1>9, <1>10, <1>11, <1>13

LEMMA InvoiceStep ==
  ASSUME IInv, NEW r \in Requests, Invoice(r) \/ InvoiceFails(r),
         UNCHANGED <<plan, arrivals, overlapped>>
  PROVE  IInv' /\ UNCHANGED <<highWater, billed>>
<1> USE DEF IInv
<1> DEFINE item == Blocks(req[r].high) - req[r].billed
<1>1. /\ req[r] \in RequestStates /\ req[r].pc = "invoice"
      /\ highWater \in Nat /\ billed \in Nat /\ invoiced \in Nat
      BY DEF TypeOK, Invoice, InvoiceFails, At
<1>2. /\ req[r].high \in Nat /\ req[r].billed \in Nat
      /\ Blocks(req[r].high) \in Nat /\ req[r].billed <= billed
      /\ req[r].billed < Blocks(req[r].high)
      BY <1>1, BlocksMonotone DEF RowsAreOld, RequestStates
<1>3. item \in Nat BY <1>2
<1>4. invoiced' \in {invoiced, invoiced + item} BY DEF Invoice, InvoiceFails
<1>5. invoiced' \in Nat /\ invoiced' >= invoiced BY <1>1, <1>3, <1>4
<1>6. PICK pc \in {"mark", "detect"} :
        Become(r, [req[r] EXCEPT !.pc = pc]) /\ (pc = "mark" => invoiced' = invoiced + item)
      BY DEF Invoice, InvoiceFails, Goto
<1> DEFINE local == [req[r] EXCEPT !.pc = pc]
<1>7. /\ local \in RequestStates /\ local.pc = pc
      /\ local.high = req[r].high /\ local.billed = req[r].billed
      BY <1>1 DEF RequestStates
<1> HIDE DEF local
<1>8. /\ req' \in [Requests -> RequestStates] /\ req'[r] = local
      /\ \A p \in Requests : p # r => req'[p] = req[p]
      BY <1>6, <1>7 DEF Become, TypeOK, local
<1>9. UNCHANGED <<highWater, billed, lifecycle>> BY DEF Invoice, InvoiceFails
<1>10. TypeOK' BY <1>5, <1>8, <1>9 DEF TypeOK
<1>11. RowsAreOld' BY <1>1, <1>7, <1>8, <1>9 DEF RowsAreOld, Blocks
<1>12. pc = "mark" => Blocks(req[r].high) <= invoiced'
       BY <1>1, <1>2, <1>6 DEF BilledIsInvoiced
<1>13. ItemsCoverMarks'
  <2> SUFFICES ASSUME NEW p \in Requests, req'[p].pc = "mark"
               PROVE  Blocks(req'[p].high) <= invoiced'
      BY DEF ItemsCoverMarks, Blocks
  <2>1. CASE p = r BY <2>1, <1>7, <1>8, <1>12
  <2>2. CASE p # r
    <3>1. req'[p] = req[p] /\ req[p] \in RequestStates BY <2>2, <1>8 DEF TypeOK
    <3>2. Blocks(req[p].high) <= invoiced /\ Blocks(req[p].high) \in Nat
          BY <3>1, BlocksMonotone DEF ItemsCoverMarks, RequestStates
    <3> QED BY <3>1, <3>2, <1>1, <1>5
  <2> QED BY <2>1, <2>2
<1>14. BilledIsInvoiced' BY <1>1, <1>5, <1>9 DEF BilledIsInvoiced
<1>15. BilledIsOwed' BY <1>9 DEF BilledIsOwed, Blocks
<1> QED BY <1>9, <1>10, <1>11, <1>13, <1>14, <1>15

LEMMA MarkStep ==
  ASSUME IInv, NEW r \in Requests, Mark(r), UNCHANGED <<plan, arrivals, overlapped>>
  PROVE  IInv' /\ highWater' = highWater /\ billed' >= billed
<1> USE DEF IInv
<1> DEFINE local == [req[r] EXCEPT !.pc = "detect"]
<1>1. /\ req[r] \in RequestStates /\ req[r].pc = "mark"
      /\ highWater \in Nat /\ billed \in Nat /\ invoiced \in Nat
      BY DEF TypeOK, Mark, At
<1>2. /\ req[r].high \in Nat /\ req[r].billed \in Nat /\ req[r].high <= highWater
      /\ req[r].billed < Blocks(req[r].high) /\ Blocks(req[r].high) <= invoiced
      BY <1>1 DEF RowsAreOld, ItemsCoverMarks, RequestStates
<1>3. /\ Blocks(req[r].high) \in Nat /\ Blocks(highWater) \in Nat
      /\ Blocks(req[r].high) <= Blocks(highWater)
      BY <1>1, <1>2, BlocksMonotone
<1>4. billed' = IF billed = req[r].billed THEN Blocks(req[r].high) ELSE billed
      BY DEF Mark
<1>5. /\ billed' \in Nat /\ billed' >= billed
      /\ billed' <= invoiced /\ billed' <= Blocks(highWater)
      BY <1>1, <1>2, <1>3, <1>4 DEF BilledIsInvoiced, BilledIsOwed
<1>6. local \in RequestStates /\ local.pc = "detect" BY <1>1 DEF RequestStates
<1>7. Become(r, local) BY DEF Mark, Goto
<1> HIDE DEF local
<1>8. /\ req' \in [Requests -> RequestStates] /\ req'[r] = local
      /\ \A p \in Requests : p # r => req'[p] = req[p]
      BY <1>6, <1>7 DEF Become, TypeOK
<1>9. UNCHANGED <<highWater, invoiced, lifecycle>> BY DEF Mark
<1>10. TypeOK' BY <1>5, <1>8, <1>9 DEF TypeOK
<1>11. RowsAreOld'
  <2> SUFFICES ASSUME NEW p \in Requests, req'[p].pc \in {"invoice", "mark"}
               PROVE  /\ req'[p].high <= highWater'
                      /\ req'[p].billed <= billed'
                      /\ req'[p].billed < Blocks(req'[p].high)
      BY DEF RowsAreOld, Blocks
  <2>1. req'[p] = req[p] /\ req[p] \in RequestStates BY <1>6, <1>8 DEF TypeOK
  <2>2. /\ req[p].high <= highWater /\ req[p].billed <= billed
        /\ req[p].billed < Blocks(req[p].high)
        BY <2>1 DEF RowsAreOld
  <2>3. req[p].billed <= billed' BY <2>1, <2>2, <1>1, <1>5 DEF RequestStates
  <2> QED BY <2>1, <2>2, <2>3, <1>9
<1>12. ItemsCoverMarks' BY <1>6, <1>8, <1>9 DEF ItemsCoverMarks, Blocks
<1>13. BilledIsInvoiced' BY <1>5, <1>9 DEF BilledIsInvoiced
<1>14. BilledIsOwed' BY <1>5, <1>9 DEF BilledIsOwed, Blocks
<1> QED BY <1>5, <1>9, <1>10, <1>11, <1>12, <1>13, <1>14

-----------------------------------------------------------------------------
LEMMA IInit == Init => IInv
<1> SUFFICES ASSUME Init PROVE IInv
    OBVIOUS
<1> USE DEF Init
<1>1. TypeOK BY IdleType DEF TypeOK
<1>2. RowsAreOld /\ ItemsCoverMarks BY DEF RowsAreOld, ItemsCoverMarks, Idle
<1>3. BilledIsInvoiced BY DEF BilledIsInvoiced
<1>4. BilledIsOwed BY ConstantsAssumption DEF BilledIsOwed, Blocks
<1> QED BY <1>1, <1>2, <1>3, <1>4 DEF IInv

\* Every step, and what it may do to the usage row.
LEMMA INext == IInv /\ [Next]_vars => IInv' /\ highWater' >= highWater /\ billed' >= billed
<1> SUFFICES ASSUME IInv, [Next]_vars PROVE IInv' /\ highWater' >= highWater /\ billed' >= billed
    OBVIOUS
<1>0. highWater \in Nat /\ billed \in Nat BY DEF IInv, TypeOK
<1>1. CASE UNCHANGED vars
      BY <1>0, <1>1 DEF vars, IInv, TypeOK, RowsAreOld, ItemsCoverMarks, BilledIsInvoiced,
                        BilledIsOwed, Blocks
<1>2. CASE Next
  <2> PICK r \in Requests :
        \/ arrivals' = arrivals + 1 /\ \E names \in SUBSET Names : Start(r, names)
        \/ Work(r) /\ UNCHANGED <<arrivals, overlapped>>
      BY <1>2 DEF Next
  <2> UNCHANGED plan BY <1>2 DEF Next
  <2>1. CASE arrivals' = arrivals + 1 /\ \E names \in SUBSET Names : Start(r, names)
        BY <1>0, <2>1, StartStep
  <2>2. CASE Work(r) /\ UNCHANGED <<arrivals, overlapped>>
    <3>1. CASE Upsert(r) BY <1>0, <2>2, <3>1, UpsertStep
    <3>2. CASE Invoice(r) \/ InvoiceFails(r) BY <1>0, <2>2, <3>2, InvoiceStep
    <3>3. CASE Mark(r) BY <1>0, <2>2, <3>3, MarkStep
    <3>4. CASE \/ Count(r) \/ CountIncoming(r) \/ Detect(r) \/ Fail(r)
               \/ \E removed \in SUBSET (Names \ req[r].names) : Deprecate(r, removed)
      <4>1. IInv' /\ UNCHANGED <<highWater, billed>>
            BY <2>2, <3>4, ReadingStep
      <4> QED BY <1>0, <4>1
    <3> QED BY <2>2, <3>1, <3>2, <3>3, <3>4 DEF Work
  <2> QED BY <2>1, <2>2
<1> QED BY <1>1, <1>2

LEMMA Invariance == Spec => []IInv
<1> QED BY IInit, INext, PTL DEF Spec

\* The variables keep their types.
THEOREM TypeCorrect == Spec => []TypeOK
<1>1. IInv => TypeOK BY DEF IInv
<1> QED BY <1>1, Invariance, PTL

\* plan-usage.ts:102-128: no block is recorded as billed that Stripe was not
\* asked for, though any sync may fail and any answer of Stripe get lost.
THEOREM BilledStaysInvoiced == Spec => []BilledIsInvoiced
<1>1. IInv => BilledIsInvoiced BY DEF IInv
<1> QED BY <1>1, Invariance, PTL

\* Nor one that the month's highest count does not call for.
THEOREM BilledStaysOwed == Spec => []BilledIsOwed
<1>1. IInv => BilledIsOwed BY DEF IInv
<1> QED BY <1>1, Invariance, PTL

\* plan-usage.ts:41: what is used up or billed this month stays so.
THEOREM DropsDoNotRefund == Spec => NeverRefunded
<1>1. IInv /\ [Next]_vars => [highWater' >= highWater /\ billed' >= billed]_vars
      BY INext
<1> QED BY <1>1, Invariance, PTL DEF Spec, NeverRefunded
-----------------------------------------------------------------------------
(* A sync that nothing overlaps is alone with the keys and the row, so what *)
(* it has counted is what counts, and the row it holds is the row (Alone).  *)

Metered(q) ==
  /\ q.pc = "incoming" => q.next = Cardinality(Active)
  /\ q.pc \in {"upsert", "invoice", "mark"} =>
       plan = "pro" /\ q.next = Cardinality(Active \cup q.names)
  /\ q.pc \in {"invoice", "mark"} => q.next <= q.high /\ q.billed = billed

Alone ==
  \A r \in Requests \ overlapped :
    req[r].pc # "idle" => /\ \A p \in Requests \ {r} : req[p].pc = "idle"
                          /\ Metered(req[r])

\* What LoneSyncMetered says of a step.
PaidFor ==
  \A r \in Requests \ overlapped :
    (req[r].pc \in {"incoming", "upsert", "mark"} /\ req'[r].pc = "detect") =>
      Counted(r) <= Included + (IF plan = "pro" THEN Block * billed' ELSE 0)

\* The blocks of a count hold its keys.
LEMMA BlocksHold ==
  ASSUME NEW n \in Nat, NEW b \in Nat, Blocks(n) <= b
  PROVE  n <= Included + Block * b
<1> USE ConstantsAssumption
<1>1. Blocks(n) \in Nat
      BY BlocksMonotone
<1>2. Block * Blocks(n) <= Block * b /\ Block * b \in Nat
  <2> DEFINE a == Blocks(n)
  <2>1. a \in Nat /\ a <= b
        BY <1>1
  <2> HIDE DEF a
  <2>2. Block * a <= Block * b /\ Block * b \in Nat
        BY <2>1
  <2> QED BY <2>2 DEF a
<1>3. CASE n <= Included
      BY <1>2, <1>3
<1>4. CASE n > Included
  <2> DEFINE over == (n - Included) + (Block - 1)
  <2>1. over \in Nat /\ Blocks(n) = over \div Block
        BY <1>4 DEF Blocks
  <2> HIDE DEF over
  <2>2. over < Block * Blocks(n) + Block
        BY <2>1, Quotient
  <2>3. n - Included < Block * Blocks(n) + 1
    <3> DEFINE c == Block * Blocks(n)
    <3>1. c \in Nat
          BY <1>1
    <3>2. (n - Included) + (Block - 1) < c + Block
          BY <2>2 DEF over
    <3> HIDE DEF c
    <3>3. n - Included < c + 1
          BY <3>1, <3>2
    <3> QED BY <3>3 DEF c
  <2> DEFINE c == Block * Blocks(n)
             d == Block * b
  <2>4. c \in Nat /\ c <= d /\ d \in Nat /\ n - Included < c + 1
        BY <1>1, <1>2, <2>3
  <2> HIDE DEF c, d
  <2>5. n <= Included + d
        BY <2>4
  <2> QED BY <2>5 DEF d
<1> QED BY <1>3, <1>4

\* Keys that count and new ones are counted apart.
LEMMA CountedApart ==
  ASSUME NEW names \in SUBSET Names
  PROVE  Cardinality(Active \cup names) = Cardinality(Active) + Cardinality(names \ Active)
<1> DEFINE fresh == names \ Active
<1>1. Active \in SUBSET Names /\ fresh \in SUBSET Names
      BY DEF Active
<1>2. IsFiniteSet(Active) /\ IsFiniteSet(fresh)
      BY <1>1, ConstantsAssumption, FS_Subset
<1>3. Cardinality(Active \cup fresh)
        = Cardinality(Active) + Cardinality(fresh) - Cardinality(Active \cap fresh)
      BY <1>2, FS_Union
<1>4. Active \cap fresh = {} /\ Active \cup fresh = Active \cup names
      OBVIOUS
<1>5. Cardinality(Active) \in Nat /\ Cardinality(fresh) \in Nat /\ Cardinality({}) = 0
      BY <1>1, CountType, FS_EmptySet
<1>6. Cardinality(Active \cup names) = Cardinality(Active) + Cardinality(fresh)
  <2> HIDE DEF fresh
  <2>1. Cardinality(Active \cap fresh) = 0
        BY <1>4, <1>5, Zenon
  <2>2. Cardinality(Active \cup fresh) = Cardinality(Active \cup names)
        BY <1>4, Zenon
  <2> QED BY <1>3, <1>5, <2>1, <2>2
<1> QED BY <1>6

\* Each step of a sync keeps it metered when it keeps its own.
LEMMA MeteredGoes ==
  ASSUME IInv, Alone, NEW r \in Requests, req[r].pc # "idle", NEW local, Become(r, local),
         overlapped' = overlapped, r \notin overlapped => Metered(local)'
  PROVE  Alone'
<1>1. \A p \in Requests : req'[p] = IF p = r THEN local ELSE req[p]
      BY DEF IInv, TypeOK, Become
<1>2. ASSUME NEW p \in Requests \ overlapped, req'[p].pc # "idle"
      PROVE  (\A q \in Requests \ {p} : req'[q].pc = "idle") /\ Metered(req[p])'
  <2>1. CASE p = r
    <3>1. \A q \in Requests \ {p} : req'[q].pc = "idle"
          BY <1>1, <2>1 DEF Alone
    <3> QED BY <1>1, <2>1, <3>1
  <2>2. CASE p # r
    <3>1. req[r].pc = "idle"
          BY <1>1, <1>2, <2>2 DEF Alone
    <3> QED BY <3>1
  <2> QED BY <2>1, <2>2
<1> QED BY <1>2 DEF Alone

LEMMA StartAlone ==
  ASSUME IInv, Alone, NEW r \in Requests, NEW names \in SUBSET Names, Start(r, names)
  PROVE  Alone' /\ PaidFor
<1> DEFINE local == [Idle EXCEPT !.pc = "count", !.names = names, !.todo = names]
           others == {p \in Requests \ {r} : ~At(p, "idle")}
<1>1. local.pc = "count"
      BY DEF Idle
<1>2. Become(r, local) /\ req[r].pc = "idle"
      BY DEF Start, At
<1> HIDE DEF local
<1>3. \A p \in Requests : req'[p] = IF p = r THEN local ELSE req[p]
      BY <1>2 DEF IInv, TypeOK, Become
<1>4. overlapped' = IF others = {} THEN overlapped \ {r} ELSE overlapped \cup others \cup {r}
      BY DEF Start, Arrives
<1>5. ASSUME NEW p \in Requests \ overlapped', req'[p].pc # "idle"
      PROVE  (\A q \in Requests \ {p} : req'[q].pc = "idle") /\ Metered(req[p])'
  <2>1. p = r
        BY <1>3, <1>4, <1>5 DEF At
  <2>2. others = {}
        BY <1>4, <1>5, <2>1
  <2>3. \A q \in Requests \ {p} : req'[q].pc = "idle"
        BY <1>3, <2>1, <2>2 DEF At
  <2>4. \A q : q.pc = "count" => Metered(q)'
        BY DEF Metered
  <2>5. req'[p].pc = "count"
        BY <1>1, <1>3, <2>1
  <2>6. PICK q : q = req'[p]
        OBVIOUS
  <2>7. Metered(q)'
        BY <2>4, <2>5, <2>6
  <2> QED BY <2>3, <2>6, <2>7
<1>6. Alone'
      BY <1>5 DEF Alone
<1>7. PaidFor
      BY <1>1, <1>2, <1>3 DEF PaidFor
<1> QED BY <1>6, <1>7

\* A step that does not go on to the detections is no matter of PaidFor.
LEMMA NotPaid ==
  ASSUME IInv, NEW r \in Requests, NEW local, Become(r, local),
         req[r].pc \in {"incoming", "upsert", "mark"} => local.pc # "detect"
  PROVE  PaidFor
<1>1. \A p \in Requests : req'[p] = IF p = r THEN local ELSE req[p]
      BY DEF IInv, TypeOK, Become
<1> QED BY <1>1 DEF PaidFor

\* One that does is, for the request itself.
LEMMA Paid ==
  ASSUME IInv, NEW r \in Requests, NEW local, Become(r, local),
         r \notin overlapped => Counted(r) <= Included + (IF plan = "pro" THEN Block * billed' ELSE 0)
  PROVE  PaidFor
<1>1. \A p \in Requests : req'[p] = IF p = r THEN local ELSE req[p]
      BY DEF IInv, TypeOK, Become
<1> QED BY <1>1 DEF PaidFor

LEMMA CountAlone ==
  ASSUME IInv, Alone, NEW r \in Requests, Count(r), UNCHANGED <<plan, overlapped>>
  PROVE  Alone' /\ PaidFor
<1> DEFINE local == [req[r] EXCEPT !.pc = "incoming", !.next = Cardinality(Active)]
<1>1. req[r] \in RequestStates /\ req[r].pc = "count"
      BY DEF IInv, TypeOK, Count, At
<1>2. local.pc = "incoming" /\ local.next = Cardinality(Active)
      BY <1>1 DEF RequestStates
<1>3. Become(r, local) /\ Active' = Active
      BY DEF Count, Active
<1> HIDE DEF local
<1>4. PICK q : q = local
      OBVIOUS
<1>5. Metered(q)'
      BY <1>2, <1>3, <1>4 DEF Metered
<1> QED BY <1>1, <1>2, <1>3, <1>4, <1>5, MeteredGoes, NotPaid

LEMMA CountIncomingAlone ==
  ASSUME IInv, Alone, NEW r \in Requests, CountIncoming(r), UNCHANGED <<plan, overlapped>>
  PROVE  Alone' /\ PaidFor
<1> DEFINE next == req[r].next + Cardinality(req[r].names \ Active)
           decided == [req[r] EXCEPT !.pc = "detect"]
           counted == [req[r] EXCEPT !.pc = "upsert", !.next = next]
<1>1. req[r] \in RequestStates /\ req[r].pc = "incoming" /\ plan \in {"free", "pro"}
      /\ req[r].names \in SUBSET Names
      BY DEF IInv, TypeOK, CountIncoming, At, RequestStates
<1>2. decided.pc = "detect" /\ counted.pc = "upsert" /\ counted.next = next
      /\ counted.names = req[r].names
      BY <1>1 DEF RequestStates
<1>3. r \notin overlapped => next = Counted(r)
      BY <1>1, CountedApart DEF Alone, Metered, Counted
<1>4. Active' = Active
      BY DEF CountIncoming, Active
<1>5. CASE plan = "free" /\ Finish(r)
  <2>1. \A q : q.pc = "idle" => Metered(q)'
        BY DEF Metered
  <2>2. PICK q : q = Idle
        OBVIOUS
  <2>3. Become(r, q) /\ q.pc = "idle" /\ Metered(q)'
        BY <1>5, <2>1, <2>2, IdleType DEF Finish
  <2> QED BY <1>1, <2>3, MeteredGoes, NotPaid
<1>6. CASE plan = "free" /\ next <= Included /\ Goto(r, "detect")
  <2>1. Become(r, decided)
        BY <1>6 DEF Goto
  <2>2. r \notin overlapped => Counted(r) <= Included + (IF plan = "pro" THEN Block * billed' ELSE 0)
    <3>1. CASE r \notin overlapped
      <4> DEFINE n == Counted(r)
      <4>1. n <= Included
            BY <1>3, <1>6, <3>1
      <4>2. n \in Nat
            BY <1>1, CountType DEF Counted, Active
      <4> HIDE DEF n
      <4>3. n <= Included + 0
            BY <4>1, <4>2, ConstantsAssumption
      <4> QED BY <1>6, <4>3 DEF n
    <3> QED BY <3>1
  <2> HIDE DEF decided
  <2>3. PICK q : q = decided
        OBVIOUS
  <2>4. Metered(q)'
        BY <1>2, <2>3 DEF Metered
  <2> QED BY <1>1, <2>1, <2>2, <2>3, <2>4, MeteredGoes, Paid
<1>7. CASE plan = "pro" /\ Become(r, counted)
  <2> HIDE DEF counted, next
  <2>1. PICK q : q = counted
        OBVIOUS
  <2>2. r \notin overlapped => Metered(q)'
        BY <1>2, <1>3, <1>4, <1>7, <2>1 DEF Metered, Counted
  <2> QED BY <1>1, <1>2, <1>7, <2>1, <2>2, MeteredGoes, NotPaid
<1> QED BY <1>5, <1>6, <1>7 DEF CountIncoming

LEMMA UpsertAlone ==
  ASSUME IInv, Alone, NEW r \in Requests, Upsert(r), UNCHANGED <<plan, overlapped>>
  PROVE  Alone' /\ PaidFor
<1> DEFINE local == [req[r] EXCEPT !.pc = IF Blocks(highWater') > billed
                                          THEN "invoice" ELSE "detect",
                                   !.high = highWater', !.billed = billed]
<1>1. req[r] \in RequestStates /\ req[r].pc = "upsert" /\ highWater \in Nat /\ billed \in Nat
      /\ req[r].next \in Nat
      BY DEF IInv, TypeOK, Upsert, At, RequestStates
<1>2. highWater' \in Nat /\ req[r].next <= highWater' /\ billed' = billed /\ Active' = Active
      BY <1>1 DEF Upsert, Active
<1>3. Blocks(req[r].next) <= Blocks(highWater') /\ Blocks(req[r].next) \in Nat
      /\ Blocks(highWater') \in Nat
      BY <1>1, <1>2, BlocksMonotone
<1>4. /\ local.pc = IF Blocks(highWater') > billed THEN "invoice" ELSE "detect"
      /\ local.high = highWater' /\ local.billed = billed
      /\ local.next = req[r].next /\ local.names = req[r].names
      BY <1>1 DEF RequestStates
<1>5. Become(r, local)
      BY DEF Upsert
<1> HIDE DEF local
<1>6. r \notin overlapped => Metered(req[r])
      BY <1>1 DEF Alone
<1>7. PICK q : q = local
      OBVIOUS
<1>8. r \notin overlapped => Metered(q)'
      BY <1>1, <1>2, <1>4, <1>6, <1>7 DEF Metered
<1>9. Alone'
      BY <1>1, <1>5, <1>7, <1>8, MeteredGoes
<1>10. CASE Blocks(highWater') > billed
       BY <1>4, <1>5, <1>9, <1>10, NotPaid
<1>11. CASE ~(Blocks(highWater') > billed)
  <2>1. Blocks(req[r].next) <= billed
        BY <1>1, <1>3, <1>11
  <2>2. req[r].next <= Included + Block * billed'
        BY <1>1, <1>2, <2>1, BlocksHold
  <2>3. r \notin overlapped => Counted(r) <= Included + (IF plan = "pro" THEN Block * billed' ELSE 0)
        BY <1>1, <1>6, <2>2 DEF Metered, Counted
  <2> QED BY <1>5, <1>9, <2>3, Paid
<1> QED BY <1>10, <1>11

LEMMA InvoiceAlone ==
  ASSUME IInv, Alone, NEW r \in Requests, Invoice(r) \/ InvoiceFails(r),
         UNCHANGED <<plan, overlapped>>
  PROVE  Alone' /\ PaidFor
<1>1. req[r] \in RequestStates /\ req[r].pc = "invoice" /\ billed' = billed /\ Active' = Active
      BY DEF IInv, TypeOK, Invoice, InvoiceFails, At, Active
<1>2. PICK pc \in {"mark", "detect"} : Become(r, [req[r] EXCEPT !.pc = pc])
      BY DEF Invoice, InvoiceFails, Goto
<1> DEFINE local == [req[r] EXCEPT !.pc = pc]
<1>3. /\ local.pc = pc /\ local.high = req[r].high /\ local.billed = req[r].billed
      /\ local.next = req[r].next /\ local.names = req[r].names
      BY <1>1 DEF RequestStates
<1>4. Become(r, local)
      BY <1>2
<1> HIDE DEF local
<1>5. PICK q : q = local
      OBVIOUS
<1>6. r \notin overlapped => Metered(q)'
      BY <1>1, <1>3, <1>5 DEF Metered, Alone
<1> QED BY <1>1, <1>4, <1>5, <1>6, MeteredGoes, NotPaid

LEMMA MarkAlone ==
  ASSUME IInv, Alone, NEW r \in Requests, Mark(r), UNCHANGED <<plan, overlapped>>
  PROVE  Alone' /\ PaidFor
<1> DEFINE local == [req[r] EXCEPT !.pc = "detect"]
<1>1. /\ req[r] \in RequestStates /\ req[r].pc = "mark" /\ req[r].high \in Nat /\ req[r].next \in Nat
      /\ billed' = IF billed = req[r].billed THEN Blocks(req[r].high) ELSE billed
      BY DEF IInv, TypeOK, Mark, At, RequestStates
<1>2. local.pc = "detect" /\ Become(r, local)
      BY <1>1 DEF RequestStates, Mark, Goto
<1> HIDE DEF local
<1>3. PICK q : q = local
      OBVIOUS
<1>4. Metered(q)'
      BY <1>2, <1>3 DEF Metered
<1>5. Alone'
      BY <1>1, <1>2, <1>3, <1>4, MeteredGoes
<1>6. ASSUME r \notin overlapped
      PROVE  Counted(r) <= Included + (IF plan = "pro" THEN Block * billed' ELSE 0)
  <2>1. /\ plan = "pro" /\ req[r].next = Counted(r)
        /\ req[r].next <= req[r].high /\ req[r].billed = billed
        BY <1>1, <1>6 DEF Alone, Metered, Counted
  <2>2. Blocks(req[r].next) <= Blocks(req[r].high) /\ Blocks(req[r].high) \in Nat
        BY <1>1, <2>1, BlocksMonotone
  <2>3. req[r].next <= Included + Block * Blocks(req[r].high)
        BY <1>1, <2>2, BlocksHold
  <2> QED BY <1>1, <2>1, <2>3
<1>7. PaidFor
      BY <1>2, <1>6, Paid
<1> QED BY <1>5, <1>7

LEMMA DetectAlone ==
  ASSUME IInv, Alone, NEW r \in Requests, UNCHANGED <<plan, overlapped>>,
         \/ Detect(r) \/ Fail(r)
         \/ \E removed \in SUBSET (Names \ req[r].names) : Deprecate(r, removed)
  PROVE  Alone' /\ PaidFor
<1>1. req[r] \in RequestStates
      BY DEF IInv, TypeOK
<1>2. \A q : q.pc \in {"idle", "detect"} => Metered(q)'
      BY DEF Metered
<1>3. CASE Detect(r)
  <2>1. PICK n \in req[r].todo : Become(r, [req[r] EXCEPT !.todo = @ \ {n}])
        BY <1>3 DEF Detect
  <2> DEFINE local == [req[r] EXCEPT !.todo = @ \ {n}]
  <2>2. Become(r, local) /\ local.pc = "detect" /\ req[r].pc = "detect"
        BY <1>1, <1>3, <2>1 DEF Detect, At, RequestStates
  <2> HIDE DEF local
  <2>3. PICK q : q = local
        OBVIOUS
  <2> QED BY <1>2, <2>2, <2>3, MeteredGoes, NotPaid
<1>4. CASE Finish(r) /\ req[r].pc # "idle"
  <2>1. PICK q : q = Idle
        OBVIOUS
  <2>2. Become(r, q) /\ q.pc = "idle"
        BY <1>4, <2>1, IdleType DEF Finish
  <2> QED BY <1>2, <1>4, <2>2, MeteredGoes, NotPaid
<1> QED BY <1>3, <1>4 DEF Fail, Deprecate, At

LEMMA NextAlone == IInv /\ Alone /\ [Next]_vars => Alone' /\ [PaidFor]_vars
<1> SUFFICES ASSUME IInv, Alone, [Next]_vars PROVE Alone' /\ [PaidFor]_vars
    OBVIOUS
<1>1. CASE UNCHANGED vars
      BY <1>1 DEF vars, Alone, Metered, Active
<1>2. CASE Next
  <2> PICK r \in Requests :
        \/ \E names \in SUBSET Names : Start(r, names)
        \/ Work(r) /\ UNCHANGED <<arrivals, overlapped>>
      BY <1>2 DEF Next
  <2> UNCHANGED plan BY <1>2 DEF Next
  <2>1. CASE \E names \in SUBSET Names : Start(r, names)
        BY <2>1, StartAlone
  <2>2. CASE Work(r) /\ UNCHANGED <<arrivals, overlapped>>
        BY <2>2, CountAlone, CountIncomingAlone, UpsertAlone, InvoiceAlone, MarkAlone,
           DetectAlone DEF Work
  <2> QED BY <2>1, <2>2
<1> QED BY <1>1, <1>2

\* enforce-limits.ts:78: a sync that nothing overlaps gets past the limit on
\* Free only when the pool holds its keys, and on Pro, when Stripe accepts what
\* it is asked for, leaves every key that counts paid for - for any pool and
\* block size, whatever earlier syncs raced, failed or lost.
THEOREM LoneSyncIsMetered == Spec => LoneSyncMetered
<1>1. Init => Alone
      BY DEF Init, Alone, Idle
<1>2. IInv /\ Alone /\ [Next]_vars => Alone' /\ [PaidFor]_vars
      BY NextAlone
<1> QED BY <1>1, <1>2, Invariance, PTL DEF Spec, LoneSyncMetered, PaidFor
=============================================================================
