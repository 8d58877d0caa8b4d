---------------------- MODULE TranslationCells_proofs ----------------------
(* Proofs about TranslationCells, for every number of keys, environments,   *)
(* locales, texts and concurrent requests.                                  *)
EXTENDS TranslationCells, TLAPS

-----------------------------------------------------------------------------
(* Types *)

LEMMA RowTypes ==
  ASSUME NEW v \in Values
  PROVE  AsManual(v) \in Rows /\ AsAi(v) \in Rows /\ AsCode(v) \in Rows
BY DEF AsManual, AsAi, AsCode, Rows

LEMMA ValueTypes ==
  /\ \A t \in Texts : SourceValue(t) \in Values /\ AiValue(t) \in Values
  /\ \A i \in Inputs : InputValue(i) \in Values
BY DEF SourceValue, AiValue, InputValue, Values

LEMMA CellParts ==
  ASSUME NEW c \in Cells
  PROVE  KeyOf(c) \in Keys /\ EnvOf(c) \in Envs /\ LocaleOf(c) \in Locales
BY DEF Cells, KeyOf, EnvOf, LocaleOf

LEMMA IdleType == Idle \in RequestStates
BY ConstantsAssumption DEF Idle, RequestStates, NoRows, NoBundle, NoTexts, Ops, Pcs

\* Replacing one request's local state by a well-typed one.
LEMMA BecomeType ==
  ASSUME req \in [Requests -> RequestStates], NEW r \in Requests,
         NEW local \in RequestStates, Become(r, local)
  PROVE  /\ req' \in [Requests -> RequestStates]
         /\ req'[r] = local
         /\ \A q \in Requests \ {r} : req'[q] = req[q]
BY DEF Become

LEMMA FinishType ==
  ASSUME req \in [Requests -> RequestStates], NEW r \in Requests, Finish(r)
  PROVE  req' \in [Requests -> RequestStates]
BY IdleType, BecomeType DEF Finish

LEMMA GotoType ==
  ASSUME req \in [Requests -> RequestStates], NEW r \in Requests,
         NEW pc \in Pcs, Goto(r, pc)
  PROVE  req' \in [Requests -> RequestStates]
<1>1. [req[r] EXCEPT !.pc = pc] \in RequestStates
  BY DEF RequestStates
<1>2. QED
  BY <1>1, BecomeType DEF Goto

LEMMA ContinueType ==
  ASSUME req \in [Requests -> RequestStates], NEW r \in Requests, Continue(r)
  PROVE  req' \in [Requests -> RequestStates]
BY FinishType, GotoType DEF Continue, Pcs

\* A row is written: the row and the history keep their types.
LEMMA StoreType ==
  ASSUME TypeOK, NEW r \in Requests, NEW c \in Cells, NEW row \in Rows, Store(r, c, row)
  PROVE  /\ cell' \in [Cells -> Rows \cup {Absent}]
         /\ basis' \in [Cells -> Texts \cup {Absent}]
         /\ overtaken' \in SUBSET Cells
<1>1. req[r].decided[KeyOf(c)] \in Texts \cup {Absent}
  BY CellParts DEF TypeOK, RequestStates
<1>2. QED
  BY <1>1, CellParts DEF Store, TypeOK

-----------------------------------------------------------------------------
(* The inductive invariant *)

Writing == {"update", "create", "conflict"}
Asking == {"aiUpdate", "aiCreate"}
Looping == Filling \cup {"retranslate"}

AutomaticPatch(patch) == patch = AsAi(patch.value) \/ patch = AsCode(patch.value)
AnyPatch(patch) == patch = AsManual(patch.value) \/ AutomaticPatch(patch)

\* Which operation may be at which step.
StepOfOp(op, pc) ==
  \/ op = "none" /\ pc = "idle"
  \/ op = "save" /\ pc \in {"find"} \cup Writing
  \/ op = "accept" /\ pc \in {"find", "read"} \cup Writing
  \/ op = "review" /\ pc \in {"read", "confirm"}
  \/ op = "sync" /\ pc \in {"find", "createKey", "present"}
  \/ op = "change" /\ pc \in {"setText", "list", "next", "flag", "aiUpdate", "update"}
  \/ op \in Filling /\ pc \in {"next", "find", "aiCreate", "create", "conflict"}
  \/ op = "retranslate" /\ pc \in {"next", "find"} \cup Asking \cup Writing
  \/ op = "promote" /\ pc \in {"plan", "next", "find"} \cup Writing

\* What a request has at hand when it needs it: a cell, a text, a patch.
AtHand(q) ==
  /\ StepOfOp(q.op, q.pc)
  /\ q.pc \notin {"idle", "next", "plan"} \/ q.op = "change" => q.cell \in Cells
  /\ q.op \in {"sync", "change", "retranslate"} => q.text \in Texts
  /\ q.op \in Filling /\ q.pc \in {"find", "aiCreate"} => q.text \in Texts
  /\ q.op = "sync" => \A c \in q.todo : KeyOf(c) = KeyOf(q.cell)
  /\ q.pc \in Writing => q.patch \in Rows
  /\ q.op \in {"save", "accept"} =>
       /\ q.patch \in Rows
       /\ q.op = "save" => q.patch = AsManual(q.patch.value)
       /\ q.op = "accept" => q.patch \in {AsManual(q.patch.value), AsAi(q.patch.value)}
  /\ q.op = "promote" /\ q.pc # "plan" => \A c \in q.todo : Incoming(q.bundle, c) # Absent
  /\ q.op = "promote" /\ q.pc \in {"find"} \cup Writing =>
       q.patch \in Rows /\ AnyPatch(q.patch)
  /\ q.op \notin {"save", "accept", "promote"} /\ q.pc \in Writing => AutomaticPatch(q.patch)

\* The row the request read is still there, and a person still owns it.
StillHuman(q, c) ==
  q.rows[LocaleOf(c)] = removals[LocaleOf(c)]
    => cell[c] # Absent /\ IsHumanOwned(cell[c])

\* What a request remembers agrees with the tables: the keys it fills exist,
\* no row id is from the future, and a status-only patch, decided or still to
\* be decided, is for a row a person owns unless that row is gone.
Remembers(q) ==
  /\ q.op \in Filling => \A c \in q.todo : keyText[KeyOf(c)] # Absent
  /\ q.pc = "present" => keyText[KeyOf(q.cell)] # Absent
  /\ \A l \in Locales : q.rows[l] <= removals[l]
  /\ q.pc \in {"flag", "confirm"} => StillHuman(q, q.cell)
  /\ q.op = "change" => \A c \in q.todo \cap q.human : StillHuman(q, c)

IInv ==
  /\ TypeOK
  /\ \A r \in Requests : AtHand(req[r]) /\ Remembers(req[r])
  /\ RowsConsistent

-----------------------------------------------------------------------------
(* How the tables may change without a request's memory going wrong *)

\* Keys stay, row ids grow, and a human-owned row stays human-owned unless
\* its locale is removed.
Advances ==
  /\ \A k \in Keys : keyText[k] # Absent => keyText'[k] # Absent
  /\ \A l \in Locales : removals[l] <= removals'[l]
  /\ \A c \in Cells :
       removals'[LocaleOf(c)] = removals[LocaleOf(c)] /\ cell[c] # Absent /\ IsHumanOwned(cell[c])
         => cell'[c] # Absent /\ IsHumanOwned(cell'[c])

LEMMA MemoryHolds ==
  ASSUME TypeOK, TypeOK', Advances, NEW q \in RequestStates, AtHand(q), Remembers(q)
  PROVE  Remembers(q)'
<1>1. ASSUME NEW c \in Cells, StillHuman(q, c)
      PROVE  StillHuman(q, c)'
  <2>1. /\ q.rows[LocaleOf(c)] \in Nat
        /\ removals[LocaleOf(c)] \in Nat
        /\ removals'[LocaleOf(c)] \in Nat
        /\ q.rows[LocaleOf(c)] <= removals[LocaleOf(c)]
        /\ removals[LocaleOf(c)] <= removals'[LocaleOf(c)]
    BY CellParts DEF TypeOK, RequestStates, Remembers, Advances
  <2>2. SUFFICES ASSUME q.rows[LocaleOf(c)] = removals'[LocaleOf(c)]
                 PROVE  cell'[c] # Absent /\ IsHumanOwned(cell'[c])
    BY DEF StillHuman
  <2>3. removals'[LocaleOf(c)] = removals[LocaleOf(c)]
    BY <2>1, <2>2
  <2>4. cell[c] # Absent /\ IsHumanOwned(cell[c])
    BY <2>2, <2>3, <1>1 DEF StillHuman
  <2>5. QED
    BY <2>3, <2>4 DEF Advances
<1>2. /\ q.op \in Filling => \A c \in q.todo : keyText'[KeyOf(c)] # Absent
      /\ q.pc = "present" => keyText'[KeyOf(q.cell)] # Absent
  BY CellParts DEF Remembers, Advances, RequestStates, AtHand
<1>3. \A l \in Locales : q.rows[l] <= removals'[l]
  BY DEF Remembers, Advances, RequestStates, TypeOK
<1>4. q.pc \in {"flag", "confirm"} => q.cell \in Cells
  BY DEF AtHand
<1>5. q.todo \cap q.human \subseteq Cells
  BY DEF RequestStates
<1>6. QED
  BY <1>1, <1>2, <1>3, <1>4, <1>5 DEF Remembers

\* So does every request that does not move.
LEMMA MemoryStays ==
  ASSUME TypeOK, TypeOK', Advances, NEW r \in Requests,
         req'[r] = req[r], AtHand(req[r]), Remembers(req[r])
  PROVE  (AtHand(req[r]) /\ Remembers(req[r]))'
<1> DEFINE q == req[r]
<1>1. q \in RequestStates
  BY DEF TypeOK
<1>2. AtHand(q)'
  BY DEF AtHand
<1>3. Remembers(q)'
  BY <1>1, MemoryHolds DEF Remembers, StillHuman
<1>4. QED
  BY <1>2, <1>3

\* The shape of every step of IInv's proof: one request moves to a good local
\* state, the tables advance, the rest is as it was.
LEMMA RequestStep ==
  ASSUME IInv, TypeOK', RowsConsistent', Advances, NEW r \in Requests,
         NEW local \in RequestStates, Become(r, local),
         (AtHand(req[r]) /\ Remembers(req[r]))'
  PROVE  IInv'
<1>1. ASSUME NEW p \in Requests, p # r
      PROVE  AtHand(req[p])' /\ Remembers(req[p])'
  <2>1. req'[p] = req[p]
    BY <1>1, BecomeType DEF TypeOK, IInv
  <2>2. QED
    BY <2>1, MemoryStays DEF IInv
<1>2. QED
  BY <1>1 DEF IInv

\* Most steps read: only the request's own state changes.
LEMMA QuietStep ==
  ASSUME IInv, NEW r \in Requests, NEW local \in RequestStates, Become(r, local), Quiet,
         arrivals' \in Nat, AtHand(local), Remembers(local)
  PROVE  IInv'
<1>1. req' \in [Requests -> RequestStates] /\ req'[r] = local
  BY BecomeType DEF IInv, TypeOK
<1>2. TypeOK' /\ RowsConsistent'
  BY <1>1 DEF IInv, TypeOK, RowsConsistent, RowShape, Quiet, history
<1>3. Advances
  BY DEF Advances, Quiet, IInv, TypeOK
<1>4. AtHand(req[r])' /\ Remembers(req[r])'
  BY <1>1 DEF Quiet, AtHand, Remembers, StillHuman
<1>5. QED
  BY <1>2, <1>3, <1>4, RequestStep

-----------------------------------------------------------------------------
(* Requests arrive *)

LEMMA ArriveStep ==
  ASSUME IInv, NEW r \in Requests, Arrive(r), arrivals' \in Nat
  PROVE  IInv'
<1> USE ConstantsAssumption
<1>0. /\ Idle \in RequestStates
      /\ removals \in [Locales -> Nat] /\ keyText \in [Keys -> Texts \cup {Absent}]
  BY IdleType DEF IInv, TypeOK
<1>1. ASSUME NEW c \in Cells, NEW i \in Inputs, StartSave(r, c, i)
      PROVE  IInv'
  <2> DEFINE local == [Idle EXCEPT !.op = "save", !.pc = "find", !.cell = c, !.decided = keyText,
                                   !.patch = AsManual(InputValue(i))]
  <2>1. local \in RequestStates
    BY <1>0, RowTypes, ValueTypes DEF RequestStates, Ops, Pcs
  <2>2. AtHand(local)
    BY RowTypes, ValueTypes DEF AtHand, StepOfOp, Idle, AsManual, Writing, Filling
  <2>3. Remembers(local)
    BY <1>0 DEF Remembers, Idle, NoRows, Filling
  <2>4. QED
    BY <1>1, <2>1, <2>2, <2>3, QuietStep DEF StartSave
<1>2. ASSUME NEW c \in Cells, NEW i \in Inputs, StartAccept(r, c, i)
      PROVE  IInv'
  <2> DEFINE local == [Idle EXCEPT !.op = "accept", !.pc = "find", !.cell = c, !.decided = keyText,
                                   !.patch = AsAi(InputValue(i))]
  <2>1. local \in RequestStates
    BY <1>0, RowTypes, ValueTypes DEF RequestStates, Ops, Pcs
  <2>2. AtHand(local)
    BY RowTypes, ValueTypes DEF AtHand, StepOfOp, Idle, AsAi, Writing, Filling
  <2>3. Remembers(local)
    BY <1>0 DEF Remembers, Idle, NoRows, Filling
  <2>4. QED
    BY <1>2, <2>1, <2>2, <2>3, QuietStep DEF StartAccept
<1>3. ASSUME NEW c \in Cells, StartReview(r, c)
      PROVE  IInv'
  <2> DEFINE l == LocaleOf(c)
             local == [Idle EXCEPT !.op = "review", !.pc = "read", !.cell = c, !.decided = keyText,
                                   !.rows[l] = removals[l]]
  <2>1. local \in RequestStates
    BY <1>0, CellParts DEF RequestStates, Ops, Pcs
  <2>2. AtHand(local)
    BY DEF AtHand, StepOfOp, Idle, Writing, Filling
  <2>3. Remembers(local)
    BY <1>0, CellParts DEF Remembers, Idle, NoRows, Filling
  <2>4. QED
    BY <1>3, <2>1, <2>2, <2>3, QuietStep DEF StartReview
<1>4. ASSUME NEW k \in Keys, NEW e \in Envs, NEW t \in Texts, StartSync(r, k, e, t)
      PROVE  IInv'
  <2> DEFINE targets == {c \in CellsOf(k, e) : LocaleOf(c) \in locales \ {SourceLocale}}
             local == [Idle EXCEPT !.op = "sync", !.pc = "find", !.text = t,
                                   !.cell = <<k, e, SourceLocale>>, !.todo = targets]
  <2>1. local \in RequestStates
    BY <1>0 DEF RequestStates, Ops, Pcs, Cells, CellsOf
  <2>2. AtHand(local)
    BY DEF AtHand, StepOfOp, Idle, Writing, Filling, Cells, CellsOf, KeyOf
  <2>3. Remembers(local)
    BY <1>0 DEF Remembers, Idle, NoRows, Filling
  <2>4. QED
    BY <1>4, <2>1, <2>2, <2>3, QuietStep DEF StartSync
<1>5. ASSUME NEW e \in Envs, NEW l \in Locales, StartFillLocale(r, e, l)
      PROVE  IInv'
  <2> DEFINE cells == {c \in Cells : /\ EnvOf(c) = e /\ LocaleOf(c) = l
                                     /\ keyText[KeyOf(c)] # Absent}
             local == [Idle EXCEPT !.op = "fillLocale", !.pc = "next", !.todo = cells]
  <2>1. local \in RequestStates
    BY <1>0 DEF RequestStates, Ops, Pcs
  <2>2. AtHand(local)
    BY DEF AtHand, StepOfOp, Idle, Writing, Filling
  <2>3. Remembers(local)
    BY <1>0 DEF Remembers, Idle, NoRows
  <2>4. Become(r, local) /\ UNCHANGED <<removals, keyText, cell, older, history>>
        /\ locales' = locales \cup {l}
    BY <1>5 DEF StartFillLocale
  <2>5. TypeOK' /\ RowsConsistent' /\ Advances /\ req'[r] = local
    BY <2>1, <2>4, BecomeType DEF IInv, TypeOK, RowsConsistent, RowShape, history, Advances
  <2>6. AtHand(req[r])' /\ Remembers(req[r])'
    BY <2>2, <2>3, <2>4, <2>5 DEF AtHand, Remembers, StillHuman
  <2>7. QED
    BY <2>1, <2>4, <2>5, <2>6, RequestStep
<1>6. ASSUME NEW k \in Keys, NEW e \in Envs, NEW targets \in SUBSET Locales,
             StartFillSelection(r, k, e, targets)
      PROVE  IInv'
  <2> DEFINE cells == {c \in CellsOf(k, e) : LocaleOf(c) \in targets}
             local == [Idle EXCEPT !.op = "fillTargets", !.pc = "next", !.todo = cells]
  <2>1. local \in RequestStates
    BY <1>0 DEF RequestStates, Ops, Pcs, CellsOf
  <2>2. AtHand(local)
    BY DEF AtHand, StepOfOp, Idle, Writing, Filling
  <2>3. Remembers(local)
    BY <1>0, <1>6 DEF Remembers, Idle, NoRows, CellsOf, StartFillSelection
  <2>4. QED
    BY <1>6, <2>1, <2>2, <2>3, QuietStep DEF StartFillSelection
<1>7. ASSUME NEW k \in Keys, NEW e \in Envs, NEW targets \in SUBSET Locales,
             NEW from \in Locales, StartRetranslate(r, k, e, targets, from)
      PROVE  IInv'
  <2> DEFINE cells == {c \in CellsOf(k, e) : LocaleOf(c) \in targets}
             local == [Idle EXCEPT !.op = "retranslate", !.pc = "next", !.text = keyText[k],
                                   !.from = from, !.todo = cells]
  <2>0. keyText[k] \in Texts
    BY <1>0, <1>7 DEF StartRetranslate
  <2>1. local \in RequestStates
    BY <1>0, <2>0 DEF RequestStates, Ops, Pcs, CellsOf
  <2>2. AtHand(local)
    BY <2>0 DEF AtHand, StepOfOp, Idle, Writing, Filling, Asking
  <2>3. Remembers(local)
    BY <1>0 DEF Remembers, Idle, NoRows, Filling
  <2>4. QED
    BY <1>7, <2>1, <2>2, <2>3, QuietStep DEF StartRetranslate
<1>8. ASSUME NEW e \in Envs, NEW bundle \in Bundles, StartPromotion(r, e, bundle)
      PROVE  IInv'
  <2> DEFINE cells == {c \in Cells : EnvOf(c) = e /\ LocaleOf(c) \in locales}
             local == [Idle EXCEPT !.op = "promote", !.pc = "plan", !.bundle = bundle, !.decided = keyText,
                                   !.todo = cells]
  <2>1. local \in RequestStates
    BY <1>0 DEF RequestStates, Ops, Pcs
  <2>2. AtHand(local)
    BY DEF AtHand, StepOfOp, Idle, Writing, Filling
  <2>3. Remembers(local)
    BY <1>0 DEF Remembers, Idle, NoRows, Filling
  <2>4. QED
    BY <1>8, <2>1, <2>2, <2>3, QuietStep DEF StartPromotion
<1>9. QED
  BY <1>1, <1>2, <1>3, <1>4, <1>5, <1>6, <1>7, <1>8 DEF Arrive

-----------------------------------------------------------------------------
(* Steps that only read *)

\* Whatever a sealed version holds, what is promoted is a row of one's own.
LEMMA PromotedPatch ==
  ASSUME NEW row \in Rows
  PROVE  Promoted(row) \in Rows /\ AnyPatch(Promoted(row))
<1>1. row.value \in Values
  BY DEF Rows
<1>2. Promoted(row) \in {AsManual(row.value), AsCode(row.value), AsAi(row.value)}
  BY DEF Promoted
<1>3. \A v \in Values : AsManual(v).value = v /\ AsCode(v).value = v /\ AsAi(v).value = v
  BY DEF AsManual, AsCode, AsAi
<1>4. QED
  BY <1>1, <1>2, <1>3, RowTypes DEF AnyPatch, AutomaticPatch

\* A request that has begun its loop may return to its head.
LEMMA BackInOrder ==
  ASSUME NEW q \in RequestStates, AtHand(q), q.op \in Looping \cup {"change", "promote"},
         q.pc # "plan"
  PROVE  AtHand([q EXCEPT !.pc = "next"])
<1> DEFINE local == [q EXCEPT !.pc = "next"]
<1>1. /\ local.pc = "next" /\ local.op = q.op /\ local.cell = q.cell /\ local.text = q.text
      /\ local.todo = q.todo /\ local.bundle = q.bundle
  BY DEF RequestStates
<1>2. StepOfOp(local.op, local.pc)
  BY <1>1 DEF StepOfOp, Looping
<1> HIDE DEF local
<1>3. AtHand(local)
  BY <1>1, <1>2 DEF AtHand, Looping, Filling, Writing
<1>4. QED
  BY <1>3 DEF local

\* Ending a request is always in order.
LEMMA IdleInOrder ==
  ASSUME IInv
  PROVE  Idle \in RequestStates /\ AtHand(Idle) /\ Remembers(Idle)
BY IdleType
   DEF IInv, TypeOK, AtHand, Remembers, StepOfOp, Idle, NoRows, Filling, Writing

LEMMA FinishStep ==
  ASSUME IInv, NEW r \in Requests, Finish(r), Quiet, arrivals' \in Nat
  PROVE  IInv'
BY IdleInOrder, QuietStep DEF Finish

LEMMA ReadStep ==
  ASSUME IInv, NEW r \in Requests, arrivals' \in Nat,
         \/ FindForPerson(r) \/ ReadForAccept(r) \/ ReadForReview(r)
         \/ ClassifySync(r) \/ ListPresent(r) \/ ListForChange(r) \/ NextChanged(r)
         \/ NextToFill(r) \/ NextToRetranslate(r) \/ FinishLoop(r)
         \/ FindToFill(r) \/ FindToRetranslate(r) \/ PlanPromotion(r) \/ NextPromoted(r)
         \/ Translated(r) \/ TranslationFailed(r) \/ Conflict(r)
  PROVE  IInv'
<1> DEFINE q == req[r]
           c == q.cell
           l == LocaleOf(c)
<1>0. /\ q \in RequestStates /\ AtHand(q) /\ Remembers(q)
      /\ removals \in [Locales -> Nat] /\ keyText \in [Keys -> Texts \cup {Absent}]
      /\ cell \in [Cells -> Rows \cup {Absent}]
  BY DEF IInv, TypeOK
<1>1. ASSUME NEW pc \in Pcs, c \in Cells
      PROVE  /\ [q EXCEPT !.pc = pc] \in RequestStates
             /\ [q EXCEPT !.pc = pc, !.rows[l] = removals[l]] \in RequestStates
  BY <1>0, <1>1, CellParts DEF RequestStates
<1>2. CASE FindForPerson(r)
  <2>1. c \in Cells /\ q.pc = "find" /\ q.op \in {"save", "accept", "promote"}
    BY <1>0, <1>2 DEF AtHand, FindForPerson, At
  <2>2. CASE cell[c] = Absent
    <3> DEFINE local == [q EXCEPT !.pc = "create"]
    <3>1. local \in RequestStates
      BY <1>1, <2>1 DEF Pcs
    <3>2. AtHand(local) /\ Remembers(local)
      BY <1>0, <2>1 DEF RequestStates, AtHand, StepOfOp, Remembers, Writing, Filling, Asking
    <3>3. QED
      BY <1>2, <2>2, <3>1, <3>2, QuietStep DEF FindForPerson, Goto
  <2>3. CASE cell[c] # Absent
    <3> DEFINE pc == IF q.op = "accept" THEN "read" ELSE "update"
               local == [q EXCEPT !.pc = pc, !.rows[l] = removals[l]]
    <3>1. local \in RequestStates
      BY <1>1, <2>1 DEF Pcs
    <3>2. AtHand(local) /\ Remembers(local)
      BY <1>0, <2>1, CellParts
         DEF RequestStates, AtHand, StepOfOp, Remembers, Writing, Filling, Asking
    <3>3. QED
      BY <1>2, <2>3, <3>1, <3>2, QuietStep DEF FindForPerson, WithRow
  <2>4. QED
    BY <2>2, <2>3
<1>3. CASE ReadForAccept(r)
  <2>1. c \in Cells /\ q.pc = "read" /\ q.op = "accept" /\ q.patch \in Rows
    BY <1>0, <1>3 DEF AtHand, ReadForAccept, At
  <2> DEFINE patch == IF IsHumanOwned(cell[c]) THEN AsManual(q.patch.value)
                                               ELSE AsAi(q.patch.value)
             local == [q EXCEPT !.pc = "update", !.patch = patch]
  <2>2. q.patch.value \in Values
    BY <2>1 DEF Rows
  <2>3. patch \in Rows /\ patch.value = q.patch.value
        /\ patch \in {AsManual(patch.value), AsAi(patch.value)}
    BY <2>2, RowTypes DEF AsManual, AsAi
  <2>4. local \in RequestStates
    BY <1>0, <2>3 DEF RequestStates, Pcs
  <2>5. AtHand(local) /\ Remembers(local)
    BY <1>0, <2>1, <2>3
       DEF RequestStates, AtHand, StepOfOp, Remembers, Writing, Filling, Asking
  <2>6. QED
    BY <1>3, <2>4, <2>5, QuietStep, FinishStep DEF ReadForAccept
<1>4. CASE ReadForReview(r)
  <2>1. c \in Cells /\ q.pc = "read" /\ q.op = "review"
    BY <1>0, <1>4 DEF AtHand, ReadForReview, At
  <2>2. CASE Holds(r) /\ IsHumanOwned(cell[c])
    <3> DEFINE local == [q EXCEPT !.pc = "confirm"]
    <3>1. local \in RequestStates
      BY <1>1, <2>1 DEF Pcs
    <3>2. AtHand(local) /\ Remembers(local)
      BY <1>0, <2>1, <2>2, CellParts
         DEF RequestStates, AtHand, StepOfOp, Remembers, StillHuman, Holds, Writing, Filling, Asking
    <3>3. QED
      BY <1>4, <2>2, <3>1, <3>2, QuietStep DEF ReadForReview, Goto
  <2>3. QED
    BY <1>4, <2>2, FinishStep DEF ReadForReview
<1>5. CASE ClassifySync(r)
  <2>1. c \in Cells /\ q.pc = "find" /\ q.op = "sync" /\ q.text \in Texts
    BY <1>0, <1>5 DEF AtHand, ClassifySync, At
  <2>2. ASSUME NEW pc \in {"createKey", "present"}, Goto(r, pc),
               pc = "present" => keyText[KeyOf(c)] # Absent
        PROVE  IInv'
    <3> DEFINE local == [q EXCEPT !.pc = pc]
    <3>1. local \in RequestStates
      BY <1>1, <2>1 DEF Pcs
    <3>2. AtHand(local) /\ Remembers(local)
      BY <1>0, <2>1, <2>2
         DEF RequestStates, AtHand, StepOfOp, Remembers, Writing, Filling, Asking
    <3>3. QED
      BY <1>5, <2>2, <3>1, <3>2, QuietStep DEF ClassifySync, Goto
  <2>3. ASSUME Become(r, [q EXCEPT !.op = "change", !.pc = "setText", !.todo = {}])
        PROVE  IInv'
    <3> DEFINE local == [q EXCEPT !.op = "change", !.pc = "setText", !.todo = {}]
    <3>1. local \in RequestStates
      BY <1>0 DEF RequestStates, Ops, Pcs
    <3>2. AtHand(local) /\ Remembers(local)
      BY <1>0, <2>1
         DEF RequestStates, AtHand, StepOfOp, Remembers, Writing, Filling, Asking
    <3>3. QED
      BY <1>5, <2>3, <3>1, <3>2, QuietStep DEF ClassifySync
  <2>4. QED
    BY <1>5, <2>1, <2>2, <2>3, ConstantsAssumption DEF ClassifySync
<1>6. CASE ListPresent(r)
  <2>1. c \in Cells /\ q.pc = "present" /\ q.op = "sync"
    BY <1>0, <1>6 DEF AtHand, StepOfOp, ListPresent, At, Writing, Filling, Asking
  <2> DEFINE missing == {d \in q.todo : cell[d] = Absent}
             local == [q EXCEPT !.op = "fillTargets", !.pc = "next", !.todo = missing]
  <2>2. local \in RequestStates
    BY <1>0 DEF RequestStates, Ops, Pcs
  <2>3. AtHand(local) /\ Remembers(local)
    BY <1>0, <2>1 DEF RequestStates, AtHand, StepOfOp, Remembers, Writing, Filling, Asking
  <2>4. QED
    BY <1>6, <2>2, <2>3, QuietStep DEF ListPresent
<1>7. CASE ListForChange(r)
  <2>1. c \in Cells /\ q.pc = "list" /\ q.op = "change"
    BY <1>0, <1>7 DEF AtHand, StepOfOp, ListForChange, At, Writing, Filling, Asking
  <2> DEFINE listed == {d \in CellsOf(KeyOf(c), EnvOf(c)) : cell[d] # Absent}
             humans == {d \in listed : IsHumanOwned(cell[d])}
             local == [q EXCEPT !.pc = "next", !.todo = listed, !.human = humans,
                                !.rows = removals]
  <2>2. local \in RequestStates
    BY <1>0 DEF RequestStates, Pcs, CellsOf
  <2>3. AtHand(local)
    BY <1>0, <2>1 DEF RequestStates, AtHand, StepOfOp, Writing, Filling, Asking
  <2>4. \A d \in humans : cell[d] # Absent /\ IsHumanOwned(cell[d])
    OBVIOUS
  <2>5. Remembers(local)
    BY <1>0, <2>1, <2>4 DEF RequestStates, Remembers, StillHuman, Filling
  <2>6. QED
    BY <1>7, <2>2, <2>3, <2>5, QuietStep DEF ListForChange
<1>8. CASE NextChanged(r)
  <2>1. q.pc = "next" /\ q.op = "change" /\ q.text \in Texts
    BY <1>0, <1>8 DEF AtHand, NextChanged, At
  <2>2. PICK d \in q.todo :
          LET taken == [q EXCEPT !.cell = d, !.todo = @ \ {d}]
          IN  Become(r, IF d \in taken.human THEN [taken EXCEPT !.pc = "flag"]
                        ELSE IF LocaleOf(d) = SourceLocale
                        THEN [taken EXCEPT !.pc = "update",
                                           !.patch = AsCode(SourceValue(taken.text))]
                        ELSE [taken EXCEPT !.pc = "aiUpdate"])
    BY <1>8 DEF NextChanged
  <2> DEFINE left == q.todo \ {d}
             flagged == [q EXCEPT !.cell = d, !.todo = left, !.pc = "flag"]
             rewritten == [q EXCEPT !.cell = d, !.todo = left, !.pc = "update",
                                    !.patch = AsCode(SourceValue(q.text))]
             asked == [q EXCEPT !.cell = d, !.todo = left, !.pc = "aiUpdate"]
  <2>3. d \in Cells /\ left \in SUBSET Cells
    BY <1>0 DEF RequestStates
  <2>4. AsCode(SourceValue(q.text)) \in Rows
    BY <2>1, ValueTypes, RowTypes
  <2>5. flagged \in RequestStates /\ rewritten \in RequestStates /\ asked \in RequestStates
    BY <1>0, <2>3, <2>4 DEF RequestStates, Pcs
  <2>6. AtHand(flagged) /\ AtHand(rewritten) /\ AtHand(asked)
    BY <1>0, <2>1, <2>3, <2>4
       DEF RequestStates, AtHand, StepOfOp, AutomaticPatch, AsCode, Writing, Filling, Asking
  <2>7. /\ d \in q.human => Remembers(flagged)
        /\ Remembers(rewritten) /\ Remembers(asked)
    BY <1>0, <2>1, <2>3 DEF RequestStates, Remembers, StillHuman, Filling
  <2>8. \/ d \in q.human /\ Become(r, flagged)
        \/ Become(r, rewritten)
        \/ Become(r, asked)
    BY <1>0, <2>2 DEF RequestStates
  <2>9. QED
    BY <1>8, <2>5, <2>6, <2>7, <2>8, QuietStep DEF NextChanged
<1>9. CASE NextToFill(r) \/ NextToRetranslate(r)
  <2>1. q.pc = "next" /\ q.op \in Looping
    BY <1>9 DEF NextToFill, NextToRetranslate, At, Looping
  <2>2. PICK d \in q.todo, t \in Texts :
          Become(r, [q EXCEPT !.pc = "find", !.cell = d, !.todo = @ \ {d}, !.text = t])
    <3>1. CASE NextToFill(r)
      <4>1. PICK d \in q.todo :
              Become(r, [q EXCEPT !.pc = "find", !.cell = d, !.todo = @ \ {d},
                                  !.text = keyText[KeyOf(d)]])
        BY <3>1 DEF NextToFill
      <4>2. q.op \in Filling /\ d \in Cells
        BY <1>0, <3>1 DEF NextToFill, RequestStates
      <4>3. keyText[KeyOf(d)] \in Texts
        BY <1>0, <4>2, CellParts DEF Remembers
      <4>4. QED
        BY <4>1, <4>3
    <3>2. CASE NextToRetranslate(r)
      <4>1. PICK d \in q.todo :
              Become(r, [q EXCEPT !.pc = "find", !.cell = d, !.todo = @ \ {d}])
        BY <3>2 DEF NextToRetranslate
      <4>2. q.text \in Texts
        BY <1>0, <3>2 DEF NextToRetranslate, AtHand
      <4>3. [q EXCEPT !.pc = "find", !.cell = d, !.todo = @ \ {d}]
              = [q EXCEPT !.pc = "find", !.cell = d, !.todo = @ \ {d}, !.text = q.text]
        BY <1>0 DEF RequestStates
      <4>4. QED
        BY <4>1, <4>2, <4>3
    <3>3. QED
      BY <1>9, <3>1, <3>2
  <2> DEFINE left == q.todo \ {d}
             local == [q EXCEPT !.pc = "find", !.cell = d, !.todo = left, !.text = t]
  <2>3. d \in Cells /\ left \in SUBSET Cells
    BY <1>0 DEF RequestStates
  <2>4. local \in RequestStates
    BY <1>0, <2>2, <2>3 DEF RequestStates, Pcs
  <2>5. AtHand(local) /\ Remembers(local)
    BY <1>0, <2>1, <2>2, <2>3
       DEF RequestStates, AtHand, StepOfOp, Remembers, Writing, Filling, Asking, Looping
  <2>6. Become(r, local)
    BY <2>2
  <2>7. QED
    BY <1>9, <2>4, <2>5, <2>6, QuietStep DEF NextToFill, NextToRetranslate
<1>10. CASE FinishLoop(r)
  BY <1>10, FinishStep DEF FinishLoop
<1>11. ASSUME c \in Cells, q.op \in Looping \cup {"promote"}, q.pc # "plan",
              Goto(r, "next"), Quiet
       PROVE  IInv'
  <2> DEFINE local == [q EXCEPT !.pc = "next"]
  <2>1. local \in RequestStates
    BY <1>1, <1>11 DEF Pcs
  <2>2. AtHand(local)
    BY <1>0, <1>11, BackInOrder
  <2>3. Remembers(local)
    BY <1>0, <1>11 DEF RequestStates, Remembers, Filling, Looping
  <2>4. QED
    BY <1>11, <2>1, <2>2, <2>3, QuietStep DEF Goto
<1>12. CASE FindToFill(r)
  <2>1. c \in Cells /\ q.pc = "find" /\ q.op \in Filling /\ q.text \in Texts
    BY <1>0, <1>12 DEF AtHand, FindToFill, At
  <2> DEFINE copied == [q EXCEPT !.pc = "create", !.patch = AsCode(SourceValue(q.text))]
             asked == [q EXCEPT !.pc = "aiCreate"]
  <2>2. AsCode(SourceValue(q.text)) \in Rows
    BY <2>1, ValueTypes, RowTypes
  <2>3. copied \in RequestStates /\ asked \in RequestStates
    BY <1>0, <2>2 DEF RequestStates, Pcs
  <2>4. AtHand(copied) /\ AtHand(asked) /\ Remembers(copied) /\ Remembers(asked)
    BY <1>0, <2>1, <2>2
       DEF RequestStates, AtHand, StepOfOp, Remembers, AutomaticPatch, AsCode, StillHuman,
           Writing, Filling, Asking
  <2>5. Goto(r, "next") \/ Become(r, copied) \/ Become(r, asked)
    BY <1>12 DEF FindToFill, Goto
  <2>6. QED
    BY <1>11, <1>12, <2>1, <2>3, <2>4, <2>5, QuietStep DEF FindToFill, Looping
<1>13. CASE FindToRetranslate(r)
  <2>1. c \in Cells /\ q.pc = "find" /\ q.op = "retranslate" /\ q.text \in Texts
    BY <1>0, <1>13 DEF AtHand, FindToRetranslate, At
  <2> DEFINE exists == cell[c] # Absent
             value == SourceValue(q.text)
             patch == IF l = SourceLocale THEN AsCode(value) ELSE AsAi(value)
             writing == IF exists THEN "update" ELSE "create"
             asking == IF exists THEN "aiUpdate" ELSE "aiCreate"
             copied == [q EXCEPT !.pc = writing, !.patch = patch, !.rows[l] = removals[l]]
             asked == [q EXCEPT !.pc = asking, !.rows[l] = removals[l]]
  <2>2. patch \in Rows /\ AutomaticPatch(patch)
    BY <2>1, ValueTypes, RowTypes DEF AutomaticPatch, AsCode, AsAi
  <2>3. l \in Locales /\ removals[l] \in Nat
    BY <1>0, <2>1, CellParts
  <2>4. copied \in RequestStates /\ asked \in RequestStates
    BY <1>0, <2>2, <2>3 DEF RequestStates, Pcs
  <2>5. AtHand(copied) /\ AtHand(asked)
    BY <1>0, <2>1, <2>2
       DEF RequestStates, AtHand, StepOfOp, Writing, Filling, Asking
  <2>6. Remembers(copied) /\ Remembers(asked)
    BY <1>0, <2>1, <2>3
       DEF RequestStates, Remembers, StillHuman, Writing, Filling, Asking
  <2>7. Goto(r, "next") \/ Become(r, copied) \/ Become(r, asked)
    BY <1>0, <1>13 DEF FindToRetranslate, Goto, RequestStates
  <2>8. QED
    BY <1>11, <1>13, <2>1, <2>4, <2>5, <2>6, <2>7, QuietStep DEF FindToRetranslate, Looping
<1>14. CASE Translated(r)
  <2>1. c \in Cells /\ q.pc \in Asking /\ q.text \in Texts
        /\ q.op \in Looping \cup {"change"}
    BY <1>0, <1>14
       DEF AtHand, StepOfOp, Translated, Asking, Writing, Looping, Filling
  <2> DEFINE patch == AsAi(AiValue(q.text))
             local == [q EXCEPT !.pc = IF At(r, "aiUpdate") THEN "update" ELSE "create",
                                !.patch = patch]
  <2>2. patch \in Rows /\ AutomaticPatch(patch)
    BY <2>1, ValueTypes, RowTypes DEF AutomaticPatch, AsAi
  <2>3. local \in RequestStates
    BY <1>0, <2>2 DEF RequestStates, Pcs
  <2>4. AtHand(local) /\ Remembers(local)
    BY <1>0, <2>1, <2>2
       DEF RequestStates, AtHand, StepOfOp, Remembers, StillHuman, At,
           Writing, Filling, Asking, Looping
  <2>5. QED
    BY <1>14, <2>3, <2>4, QuietStep DEF Translated
<1>15. CASE TranslationFailed(r)
  <2>1. c \in Cells
    BY <1>0, <1>15 DEF AtHand, TranslationFailed
  <2>2. QED
    BY <1>11, <1>15, <2>1, FinishStep DEF TranslationFailed, BestEffort, Looping, Filling
<1>16. CASE Conflict(r)
  <2>1. c \in Cells /\ q.pc = "conflict" /\ q.patch \in Rows
        /\ q.op \in Single \cup Looping \cup {"promote"}
    BY <1>0, <1>16
       DEF AtHand, StepOfOp, Conflict, At, Writing, Asking, Looping, Filling, Single
  <2>2. CASE cell[c] = Absent \/ IsAutomatic(q.patch)
    BY <1>11, <1>16, <2>1, <2>2, FinishStep DEF Conflict, Continue, Single
  <2>3. CASE cell[c] # Absent /\ ~IsAutomatic(q.patch)
    <3> DEFINE local == [q EXCEPT !.pc = "update", !.rows[l] = removals[l]]
    <3>1. local \in RequestStates
      BY <1>1, <2>1 DEF Pcs
    <3>2. q.op \in {"save", "accept", "promote"}
      BY <1>0, <2>1, <2>3
         DEF AtHand, AutomaticPatch, IsAutomatic, AsAi, AsCode, Writing
    <3>3. AtHand(local) /\ Remembers(local)
      BY <1>0, <2>1, <3>2, CellParts
         DEF RequestStates, AtHand, StepOfOp, Remembers, StillHuman, Writing, Filling, Asking
    <3>4. QED
      BY <1>16, <2>3, <3>1, <3>3, QuietStep DEF Conflict, WithRow
  <2>4. QED
    BY <2>2, <2>3
<1>17. CASE PlanPromotion(r)
  <2> DEFINE chosen == {d \in q.todo : LET incoming == Incoming(q.bundle, d)
                                       IN  /\ keyText[KeyOf(d)] # Absent /\ incoming # Absent
                                           /\ ToApply(cell[d], incoming)}
             local == [q EXCEPT !.pc = "next", !.todo = chosen]
  <2>1. q.pc = "plan" /\ q.op = "promote"
    BY <1>0, <1>17 DEF AtHand, StepOfOp, PlanPromotion, At, Writing, Filling, Asking
  <2>2. local \in RequestStates
    BY <1>0 DEF RequestStates, Pcs
  <2>3. AtHand(local) /\ Remembers(local)
    BY <1>0, <2>1 DEF RequestStates, AtHand, StepOfOp, Remembers, Writing, Filling, Asking
  <2>4. QED
    BY <1>17, <2>2, <2>3, QuietStep DEF PlanPromotion
<1>18. CASE NextPromoted(r)
  <2>1. q.pc = "next" /\ q.op = "promote"
    BY <1>18 DEF NextPromoted, At
  <2>2. PICK d \in q.todo :
          Become(r, [q EXCEPT !.pc = "find", !.cell = d, !.todo = @ \ {d},
                              !.patch = Promoted(Incoming(q.bundle, d))])
    BY <1>18 DEF NextPromoted
  <2> DEFINE left == q.todo \ {d}
             patch == Promoted(Incoming(q.bundle, d))
             local == [q EXCEPT !.pc = "find", !.cell = d, !.todo = left, !.patch = patch]
  <2>3. d \in Cells /\ left \in SUBSET Cells
    BY <1>0 DEF RequestStates
  <2>4. Incoming(q.bundle, d) \in Rows
    BY <1>0, <2>1, <2>2, <2>3, CellParts DEF AtHand, Incoming, RequestStates
  <2>5. patch \in Rows /\ AnyPatch(patch)
    BY <2>4, PromotedPatch
  <2>6. local \in RequestStates
    BY <1>0, <2>3, <2>5 DEF RequestStates, Pcs
  <2>7. AtHand(local) /\ Remembers(local)
    BY <1>0, <2>1, <2>3, <2>5
       DEF RequestStates, AtHand, StepOfOp, Remembers, Writing, Filling, Asking
  <2>8. QED
    BY <1>18, <2>2, <2>6, <2>7, QuietStep DEF NextPromoted
<1>19. QED
  BY <1>2, <1>3, <1>4, <1>5, <1>6, <1>7, <1>8, <1>9, <1>10, <1>12, <1>13, <1>14,
     <1>15, <1>16, <1>17, <1>18

-----------------------------------------------------------------------------
(* Steps that write *)

\* Writing a request's patch over a row it may replace keeps every row in
\* shape and every human-owned row human-owned.
LEMMA StoreStep ==
  ASSUME IInv, NEW r \in Requests, NEW c \in Cells, NEW row \in Rows, Store(r, c, row), RowShape(row),
         cell[c] # Absent /\ IsHumanOwned(cell[c]) => IsHumanOwned(row),
         UNCHANGED <<locales, removals, keyText>>
  PROVE  /\ cell' \in [Cells -> Rows \cup {Absent}]
         /\ basis' \in [Cells -> Texts \cup {Absent}]
         /\ overtaken' \in SUBSET Cells
         /\ RowsConsistent' /\ Advances
<1>1. /\ cell' \in [Cells -> Rows \cup {Absent}]
      /\ basis' \in [Cells -> Texts \cup {Absent}]
      /\ overtaken' \in SUBSET Cells
      /\ cell' = [cell EXCEPT ![c] = row] /\ cell \in [Cells -> Rows \cup {Absent}]
  BY StoreType DEF IInv, Store, TypeOK
<1>2. RowsConsistent'
  BY <1>1 DEF IInv, RowsConsistent, RowShape
<1>3. row # Absent
  BY ConstantsAssumption
<1>4. Advances
  BY <1>1, <1>3 DEF Advances, IInv, TypeOK
<1>5. QED
  BY <1>1, <1>2, <1>4

\* A request that writes moves to a local state that was good before the write.
LEMMA LocalStep ==
  ASSUME IInv, TypeOK', RowsConsistent', Advances, NEW r \in Requests,
         NEW local \in RequestStates, Become(r, local), AtHand(local), Remembers(local)
  PROVE  IInv'
<1>1. Remembers(local)'
  BY MemoryHolds DEF IInv
<1>2. req'[r] = local
  BY BecomeType DEF IInv, TypeOK
<1>3. (AtHand(req[r]) /\ Remembers(req[r]))'
  BY <1>1, <1>2 DEF Remembers, AtHand, StillHuman
<1>4. QED
  BY <1>3, RequestStep

\* After a write a request is answered, or goes on to its next cell.
LEMMA LoopStep ==
  ASSUME IInv, TypeOK', RowsConsistent', Advances, NEW r \in Requests,
         Finish(r) \/ Continue(r), req[r].op \notin {"none", "sync"}, req[r].pc # "plan"
  PROVE  IInv'
<1> DEFINE q == req[r]
<1>0. /\ q \in RequestStates /\ AtHand(q) /\ Remembers(q) /\ TypeOK
  BY DEF IInv, TypeOK
<1>1. CASE Finish(r)
  BY <1>1, IdleInOrder, LocalStep DEF Finish
<1>2. CASE Continue(r) /\ q.op \notin Single
  <2> DEFINE local == [q EXCEPT !.pc = "next"]
  <2>1. local \in RequestStates
    BY <1>0 DEF RequestStates, Pcs
  <2>2. q.op \in Looping \cup {"change", "promote"}
    BY <1>0, <1>2 DEF RequestStates, Ops, Single, Looping, Filling
  <2>3. AtHand(local)
    BY <1>0, <2>2, BackInOrder
  <2>4. Remembers(local)
    <3>1. /\ local.op = q.op /\ local.pc = "next" /\ local.todo = q.todo
          /\ local.human = q.human /\ local.rows = q.rows
      BY <1>0 DEF RequestStates
    <3>2. QED
      BY <1>0, <3>1 DEF Remembers, StillHuman
  <2>5. QED
    BY <1>2, <2>1, <2>3, <2>4, LocalStep DEF Continue, Goto
<1>3. QED
  BY <1>1, <1>2 DEF Continue

\* Confirm and Flag set the status of a row they know to be human-owned, so
\* the row they leave is one a person owns.
LEMMA StatusShape ==
  ASSUME NEW row \in Rows, RowShape(row), IsHumanOwned(row),
         NEW status \in {"manual", "needs-review"}
  PROVE  LET marked == [row EXCEPT !.status = status]
         IN  marked \in Rows /\ RowShape(marked) /\ IsHumanOwned(marked)
BY DEF Rows, RowShape, IsHumanOwned, AsAi, AsCode

LEMMA PatchShape ==
  ASSUME NEW r \in Requests, AtHand(req[r]), req[r].pc \in Writing
  PROVE  /\ req[r].patch \in Rows /\ RowShape(req[r].patch)
         /\ ~IsAutomatic(req[r].patch) => IsHumanOwned(req[r].patch)
<1> DEFINE patch == req[r].patch
<1>1. patch \in Rows
  BY DEF AtHand
<1>2. \/ patch = AsManual(patch.value)
      \/ patch = AsAi(patch.value)
      \/ patch = AsCode(patch.value)
  BY DEF AtHand, AutomaticPatch, AnyPatch
<1>3. RowShape(patch)
  <2>1. CASE patch = AsManual(patch.value)
    <3>1. patch.source = "manual" /\ patch.aiLocked /\ patch.status = "manual"
      BY <2>1 DEF AsManual
    <3>2. QED
      BY <3>1 DEF RowShape
  <2>2. QED
    BY <1>2, <2>1 DEF RowShape
<1>4. IsAutomatic(patch) \/ IsHumanOwned(patch)
  BY <1>1 DEF Rows, IsAutomatic, IsHumanOwned
<1>5. QED
  BY <1>1, <1>3, <1>4

LEMMA WriteStep ==
  ASSUME IInv, NEW r \in Requests, arrivals' \in Nat,
         \/ Confirm(r) \/ CreateKey(r) \/ SetSourceText(r) \/ Flag(r) \/ FinishChange(r)
         \/ Update(r) \/ Create(r)
  PROVE  IInv'
<1> DEFINE q == req[r]
           c == q.cell
<1>0. /\ q \in RequestStates /\ AtHand(q) /\ Remembers(q) /\ TypeOK
      /\ removals \in [Locales -> Nat] /\ keyText \in [Keys -> Texts \cup {Absent}]
      /\ cell \in [Cells -> Rows \cup {Absent}]
  BY DEF IInv, TypeOK
<1>1. ASSUME NEW status \in {"manual", "needs-review"}, c \in Cells, Holds(r),
             q.pc \in {"flag", "confirm"}
      PROVE  LET row == [cell[c] EXCEPT !.status = status]
             IN  row \in Rows /\ RowShape(row) /\ IsHumanOwned(row)
  <2>1. cell[c] \in Rows /\ RowShape(cell[c]) /\ IsHumanOwned(cell[c])
    BY <1>0, <1>1 DEF Holds, Remembers, StillHuman, IInv, RowsConsistent
  <2>2. QED
    BY <2>1, StatusShape
<1>2. CASE Confirm(r)
  <2>1. c \in Cells /\ q.pc = "confirm" /\ q.op = "review"
    BY <1>0, <1>2 DEF AtHand, StepOfOp, Confirm, At, Writing, Filling, Asking
  <2>2. CASE Holds(r)
    <3> DEFINE row == [cell[c] EXCEPT !.status = "manual"]
    <3>1. row \in Rows /\ RowShape(row) /\ IsHumanOwned(row)
      BY <1>1, <2>1, <2>2
    <3>2. Store(r, c, row) /\ UNCHANGED <<locales, removals, keyText, older>> /\ Finish(r)
      BY <1>2, <2>2 DEF Confirm
    <3>3. /\ cell' \in [Cells -> Rows \cup {Absent}]
          /\ basis' \in [Cells -> Texts \cup {Absent}]
          /\ overtaken' \in SUBSET Cells
          /\ RowsConsistent' /\ Advances
      BY <2>1, <3>1, <3>2, StoreStep
    <3>4. TypeOK'
      BY <1>0, <3>2, <3>3, FinishType DEF TypeOK, Store
    <3>5. QED
      BY <2>1, <3>2, <3>3, <3>4, LoopStep
  <2>3. CASE ~Holds(r)
    BY <1>2, <2>3, FinishStep DEF Confirm, Quiet
  <2>4. QED
    BY <2>2, <2>3
<1>3. CASE CreateKey(r)
  <2>1. c \in Cells /\ q.pc = "createKey" /\ q.op = "sync" /\ q.text \in Texts
    BY <1>0, <1>3 DEF AtHand, StepOfOp, CreateKey, At, Writing, Filling, Asking
  <2>2. CASE keyText[KeyOf(c)] \in {Absent, q.text}
    <3> DEFINE patch == AsCode(SourceValue(q.text))
               local == [q EXCEPT !.op = "fillTargets", !.pc = "create", !.patch = patch]
    <3>1. patch \in Rows /\ AutomaticPatch(patch)
      BY <2>1, ValueTypes, RowTypes DEF AutomaticPatch, AsCode
    <3>2. local \in RequestStates
      BY <1>0, <3>1 DEF RequestStates, Ops, Pcs
    <3>3. /\ Become(r, local) /\ keyText' = [keyText EXCEPT ![KeyOf(c)] = q.text]
          /\ UNCHANGED <<locales, removals, cell, older, history>>
      BY <1>3, <2>2 DEF CreateKey
    <3>4. KeyOf(c) \in Keys /\ q.text # Absent
      BY <2>1, CellParts, ConstantsAssumption
    <3>5. /\ TypeOK' /\ RowsConsistent' /\ req'[r] = local
          /\ keyText'[KeyOf(c)] # Absent
      BY <1>0, <2>1, <3>2, <3>3, <3>4, BecomeType
         DEF TypeOK, IInv, RowsConsistent, RowShape, history
    <3>6. Advances
      BY <1>0, <3>3, <3>4 DEF Advances
    <3>7. AtHand(local)
      BY <1>0, <2>1, <3>1
         DEF RequestStates, AtHand, StepOfOp, Writing, Filling, Asking
    <3>8. Remembers(local)'
      BY <1>0, <2>1, <3>3, <3>5 DEF RequestStates, AtHand, Remembers, Filling
    <3>9. (AtHand(req[r]) /\ Remembers(req[r]))'
      BY <3>5, <3>7, <3>8 DEF Remembers, AtHand, StillHuman
    <3>10. QED
      BY <3>2, <3>3, <3>5, <3>6, <3>9, RequestStep
  <2>3. CASE keyText[KeyOf(c)] \notin {Absent, q.text}
    BY <1>3, <2>3, FinishStep DEF CreateKey, Quiet
  <2>4. QED
    BY <2>2, <2>3
<1>4. CASE SetSourceText(r)
  <2>1. c \in Cells /\ q.pc = "setText" /\ q.op = "change" /\ q.text \in Texts
    BY <1>0, <1>4 DEF AtHand, StepOfOp, SetSourceText, At, Writing, Filling, Asking
  <2> DEFINE local == [q EXCEPT !.pc = "list"]
  <2>2. local \in RequestStates
    BY <1>0 DEF RequestStates, Pcs
  <2>3. /\ Become(r, local) /\ keyText' = [keyText EXCEPT ![KeyOf(c)] = q.text]
        /\ latest' = [latest EXCEPT ![KeyOf(c)] = r]
        /\ swept' = [swept EXCEPT ![KeyOf(c)] = {}]
        /\ overtaken' = {d \in overtaken : KeyOf(d) # KeyOf(c)}
        /\ UNCHANGED <<locales, removals, cell, older, basis>>
    BY <1>4 DEF SetSourceText, Goto
  <2>4. KeyOf(c) \in Keys /\ q.text # Absent
    BY <2>1, CellParts, ConstantsAssumption
  <2>5. TypeOK' /\ RowsConsistent' /\ req'[r] = local
    BY <1>0, <2>1, <2>2, <2>3, <2>4, BecomeType DEF TypeOK, IInv, RowsConsistent, RowShape
  <2>6. Advances
    BY <1>0, <2>3, <2>4 DEF Advances
  <2>7. AtHand(local) /\ Remembers(local)
    <3>1. AtHand(local)
      BY <1>0, <2>1 DEF RequestStates, AtHand, StepOfOp, Writing, Filling, Asking
    <3>2. Remembers(local)
      BY <1>0, <2>1 DEF RequestStates, Remembers, StillHuman, Filling
    <3>3. QED
      BY <3>1, <3>2
  <2>8. QED
    BY <2>2, <2>3, <2>5, <2>6, <2>7, LocalStep
<1>5. CASE Flag(r)
  <2>1. c \in Cells /\ q.pc = "flag" /\ q.op = "change"
    BY <1>0, <1>5 DEF AtHand, StepOfOp, Flag, At, Writing, Filling, Asking
  <2>2. CASE Holds(r)
    <3> DEFINE row == [cell[c] EXCEPT !.status = "needs-review"]
    <3>1. row \in Rows /\ RowShape(row) /\ IsHumanOwned(row)
      BY <1>1, <2>1, <2>2
    <3>2. /\ cell' = [cell EXCEPT ![c] = row] /\ Continue(r)
          /\ UNCHANGED <<locales, removals, keyText, older, history>>
      BY <1>5, <2>2 DEF Flag
    <3>3. TypeOK'
      BY <1>0, <2>1, <3>1, <3>2, ContinueType DEF TypeOK, history
    <3>4. RowsConsistent'
      BY <1>0, <2>1, <3>1, <3>2 DEF IInv, RowsConsistent, RowShape
    <3>5. Advances
      BY <1>0, <2>1, <3>1, <3>2, ConstantsAssumption DEF Advances
    <3>6. QED
      BY <2>1, <3>2, <3>3, <3>4, <3>5, LoopStep
  <2>3. CASE ~Holds(r)
    BY <1>5, <2>3, FinishStep DEF Flag, Quiet
  <2>4. QED
    BY <2>2, <2>3
<1>6. CASE FinishChange(r)
  <2>1. q.op = "change" /\ q.pc = "next" /\ Finish(r)
    BY <1>6 DEF FinishChange, At
  <2>2. /\ UNCHANGED <<locales, removals, keyText, cell, older, basis, overtaken, latest>>
        /\ swept' \in [Keys -> SUBSET Envs]
    <3>1. KeyOf(c) \in Keys /\ EnvOf(c) \in Envs
      BY <1>0, <2>1, CellParts DEF AtHand
    <3>2. QED
      BY <1>0, <1>6, <3>1 DEF FinishChange, TypeOK
  <2>3. TypeOK' /\ RowsConsistent' /\ Advances
    BY <1>0, <2>1, <2>2, FinishType DEF TypeOK, IInv, RowsConsistent, RowShape, Advances
  <2>4. QED
    BY <2>1, <2>3, LoopStep
<1>7. CASE Update(r)
  <2>1. c \in Cells /\ q.pc = "update" /\ q.op \notin {"none", "sync"}
    BY <1>0, <1>7 DEF AtHand, StepOfOp, Update, At, Writing, Filling, Asking
  <2>2. CASE Holds(r) /\ ~Preserves(cell[c], q.patch)
    <3>1. /\ q.patch \in Rows /\ RowShape(q.patch)
          /\ cell[c] # Absent /\ IsHumanOwned(cell[c]) => IsHumanOwned(q.patch)
      BY <1>0, <2>1, <2>2, PatchShape DEF Preserves, Writing
    <3>2. Store(r, c, q.patch) /\ UNCHANGED <<locales, removals, keyText, older>> /\ Continue(r)
      BY <1>7, <2>2 DEF Update
    <3>3. /\ cell' \in [Cells -> Rows \cup {Absent}]
          /\ basis' \in [Cells -> Texts \cup {Absent}]
          /\ overtaken' \in SUBSET Cells
          /\ RowsConsistent' /\ Advances
      BY <2>1, <3>1, <3>2, StoreStep
    <3>4. TypeOK'
      BY <1>0, <3>2, <3>3, ContinueType DEF TypeOK, Store
    <3>5. QED
      BY <2>1, <3>2, <3>3, <3>4, LoopStep
  <2>3. CASE ~Holds(r) \/ Preserves(cell[c], q.patch)
    <3>1. (Finish(r) \/ Continue(r)) /\ Quiet
      BY <1>7, <2>3 DEF Update, Quiet
    <3>2. TypeOK' /\ RowsConsistent' /\ Advances
      BY <1>0, <3>1, FinishType, ContinueType
         DEF Quiet, TypeOK, IInv, RowsConsistent, RowShape, history, Advances
    <3>3. QED
      BY <2>1, <3>1, <3>2, LoopStep
  <2>4. QED
    BY <2>2, <2>3
<1>8. CASE Create(r)
  <2>1. c \in Cells /\ q.pc = "create" /\ q.op \notin {"none", "sync"}
    BY <1>0, <1>8 DEF AtHand, StepOfOp, Create, At, Writing, Filling, Asking
  <2>2. CASE cell[c] = Absent
    <3>1. q.patch \in Rows /\ RowShape(q.patch)
      BY <1>0, <2>1, PatchShape DEF Writing
    <3>2. /\ Store(r, c, q.patch) /\ UNCHANGED <<locales, removals, keyText>>
          /\ Newest(c) /\ Continue(r)
      BY <1>8, <2>2 DEF Create
    <3>3. /\ cell' \in [Cells -> Rows \cup {Absent}]
          /\ basis' \in [Cells -> Texts \cup {Absent}]
          /\ overtaken' \in SUBSET Cells
          /\ RowsConsistent' /\ Advances
      BY <2>1, <2>2, <3>1, <3>2, StoreStep
    <3>4. older' \in [Cells -> SUBSET Cells]
      BY <1>0, <2>1, <3>2 DEF Newest, TypeOK
    <3>5. TypeOK'
      BY <1>0, <3>2, <3>3, <3>4, ContinueType DEF TypeOK, Store
    <3>6. QED
      BY <2>1, <3>2, <3>3, <3>5, LoopStep
  <2>3. CASE cell[c] # Absent
    <3> DEFINE local == [q EXCEPT !.pc = "conflict"]
    <3>1. local \in RequestStates
      BY <1>0 DEF RequestStates, Pcs
    <3>2. AtHand(local) /\ Remembers(local)
      BY <1>0, <2>1
         DEF RequestStates, AtHand, StepOfOp, Remembers, Writing, Filling, Asking
    <3>3. QED
      BY <1>8, <2>3, <3>1, <3>2, QuietStep DEF Create, Goto, Quiet
  <2>4. QED
    BY <2>2, <2>3
<1>9. QED
  BY <1>2, <1>3, <1>4, <1>5, <1>6, <1>7, <1>8

LEMMA RemoveStep ==
  ASSUME IInv, NEW l \in Locales, RemoveLocale(l)
  PROVE  IInv'
<1>0. /\ removals \in [Locales -> Nat] /\ cell \in [Cells -> Rows \cup {Absent}]
      /\ basis \in [Cells -> Texts \cup {Absent}] /\ overtaken \in SUBSET Cells /\ TypeOK
  BY DEF IInv, TypeOK
<1>1. /\ removals' = [removals EXCEPT ![l] = @ + 1]
      /\ cell' = [c \in Cells |-> IF LocaleOf(c) = l THEN Absent ELSE cell[c]]
      /\ basis' = [c \in Cells |-> IF LocaleOf(c) = l THEN Absent ELSE basis[c]]
      /\ overtaken' = {c \in overtaken : LocaleOf(c) # l}
      /\ locales' = locales \ {l}
      /\ UNCHANGED <<keyText, older, req, arrivals, latest, swept>>
  BY DEF RemoveLocale
<1>2. TypeOK'
  BY <1>0, <1>1 DEF TypeOK
<1>3. RowsConsistent'
  BY <1>0, <1>1 DEF IInv, RowsConsistent, RowShape
<1>4. Advances
  BY <1>0, <1>1, CellParts DEF Advances
<1>5. \A r \in Requests : (AtHand(req[r]) /\ Remembers(req[r]))'
  BY <1>0, <1>1, <1>2, <1>4, MemoryStays DEF IInv
<1>6. QED
  BY <1>2, <1>3, <1>5 DEF IInv

-----------------------------------------------------------------------------
(* The invariant holds *)

LEMMA IInit == Init => IInv
<1> SUFFICES ASSUME Init PROVE IInv
  OBVIOUS
<1>1. TypeOK
  BY ConstantsAssumption, IdleType DEF Init, TypeOK, NoRows
<1>2. \A r \in Requests : AtHand(req[r]) /\ Remembers(req[r])
  BY DEF Init, AtHand, Remembers, StepOfOp, Idle, NoRows, Filling, Writing
<1>3. QED
  BY <1>1, <1>2 DEF Init, IInv, RowsConsistent

LEMMA INext == IInv /\ [Next]_vars => IInv'
<1> SUFFICES ASSUME IInv, [Next]_vars PROVE IInv'
  OBVIOUS
<1>0. arrivals \in Nat
  BY DEF IInv, TypeOK
<1>1. ASSUME NEW r \in Requests, Arrive(r), arrivals' = arrivals + 1
      PROVE  IInv'
  BY <1>0, <1>1, ArriveStep
<1>2. ASSUME NEW r \in Requests, Work(r), UNCHANGED arrivals
      PROVE  IInv'
  BY <1>0, <1>2, ReadStep, WriteStep DEF Work
<1>3. ASSUME NEW l \in Locales, RemoveLocale(l)
      PROVE  IInv'
  BY <1>3, RemoveStep
<1>4. CASE UNCHANGED vars
  BY <1>4
     DEF vars, history, IInv, TypeOK, RowsConsistent, RowShape, AtHand, Remembers, StillHuman
<1>5. QED
  BY <1>1, <1>2, <1>3, <1>4 DEF Next

LEMMA Invariance == Spec => []IInv
BY IInit, INext, PTL DEF Spec

\* Every variable of the workspace keeps its type, for any number of keys,
\* environments, locales, texts and requests.
THEOREM TypeCorrect == Spec => []TypeOK
<1>1. IInv => TypeOK
  BY DEF IInv
<1>2. QED
  BY <1>1, Invariance, PTL

\* asNeedsReview and markReviewed patch only the status of a row chosen on an
\* earlier read; whatever runs in between, the row they patch is still one a
\* person owns, so no row ever mixes a machine's and a person's ownership.
THEOREM RowsStayConsistent == Spec => []RowsConsistent
<1>1. IInv => RowsConsistent
  BY DEF IInv
<1>2. QED
  BY <1>1, Invariance, PTL

-----------------------------------------------------------------------------
(* The workspace keeps the promise of CellOwnership.  content and pending   *)
(* are the refinement mapping of ImplementsOwnership.                       *)

Contents == [c \in Cells |-> Content(cell[c])]
Pending == {<<req[r].cell, req[r].patch.value>> : r \in {s \in Requests : Submitted(s)}}
Submission(r) == <<req[r].cell, req[r].patch.value>>

\* A promotion takes its entries one by one: between two of them it is at its
\* loop, and within one it keeps the cell and the text.
LEMMA PromotionStep ==
  ASSUME IInv, NEW r \in Requests, Work(r), req[r].op = "promote", ~NextPromoted(r)
  PROVE  \/ req'[r] = Idle
         \/ /\ req'[r].op = "promote" /\ Submission(r)' = Submission(r)
            /\ req'[r].patch = req[r].patch
            /\ \/ req'[r].pc = "next"
               \/ req[r].pc \in {"find"} \cup Writing /\ req'[r].pc \in Writing
<1> DEFINE q == req[r]
<1>0. q \in RequestStates /\ AtHand(q) /\ req \in [Requests -> RequestStates]
  BY DEF IInv, TypeOK
<1>1. q.pc \in {"plan", "next", "find"} \cup Writing
  BY <1>0 DEF AtHand, StepOfOp, Filling
<1>2. \/ FindForPerson(r) \/ PlanPromotion(r) \/ FinishLoop(r)
      \/ Update(r) \/ Create(r) \/ Conflict(r)
  <2>1. ~ReadForAccept(r) /\ ~ReadForReview(r) /\ ~Confirm(r) /\ ~ClassifySync(r)
        /\ ~CreateKey(r) /\ ~ListPresent(r) /\ ~SetSourceText(r) /\ ~ListForChange(r)
    BY <1>1 DEF ReadForAccept, ReadForReview, Confirm, ClassifySync, CreateKey,
       ListPresent, SetSourceText, ListForChange, At, Writing
  <2>2. ~NextChanged(r) /\ ~Flag(r) /\ ~FinishChange(r) /\ ~NextToFill(r)
        /\ ~NextToRetranslate(r)
    BY <1>1 DEF NextChanged, Flag, FinishChange, NextToFill, NextToRetranslate, At, Writing,
       Filling
  <2>3. ~FindToFill(r) /\ ~FindToRetranslate(r) /\ ~Translated(r) /\ ~TranslationFailed(r)
    BY <1>1 DEF FindToFill, FindToRetranslate, Translated, TranslationFailed, At, Filling,
       Writing
  <2>4. QED
    BY <2>1, <2>2, <2>3 DEF Work
<1>3. ASSUME NEW pc \in Pcs, Goto(r, pc) \/ WithRow(r, pc)
      PROVE  /\ req'[r].op = "promote" /\ Submission(r)' = Submission(r)
             /\ req'[r].patch = q.patch /\ req'[r].pc = pc
  <2>1. /\ req'[r].op = q.op /\ req'[r].cell = q.cell
        /\ req'[r].patch = q.patch /\ req'[r].pc = pc
    <3>1. CASE Goto(r, pc)
      BY <1>0, <3>1 DEF Goto, Become, RequestStates
    <3>2. CASE WithRow(r, pc)
      BY <1>0, <3>2 DEF WithRow, Become, RequestStates
    <3>3. QED
      BY <1>3, <3>1, <3>2
  <2>2. QED
    BY <2>1 DEF Submission
<1>4. Finish(r) => req'[r] = Idle
  BY <1>0 DEF Finish, Become
<1>5. Continue(r) => Goto(r, "next")
  BY DEF Continue, Single
<1>6. CASE FindForPerson(r)
  <2>1. q.pc = "find" /\ (Goto(r, "create") \/ WithRow(r, "update"))
    BY <1>6 DEF FindForPerson, At
  <2>2. QED
    BY <1>3, <2>1 DEF Pcs, Writing
<1>7. CASE PlanPromotion(r)
  <2> DEFINE todo == {c \in q.todo :
                        LET incoming == Incoming(q.bundle, c)
                        IN  /\ keyText[KeyOf(c)] # Absent /\ incoming # Absent
                            /\ ToApply(cell[c], incoming)}
             local == [q EXCEPT !.pc = "next", !.todo = todo]
  <2>1. Become(r, local)
    BY <1>7 DEF PlanPromotion
  <2>2. req'[r] = local
    BY <1>0, <2>1 DEF Become
  <2>3. local.op = q.op /\ local.cell = q.cell /\ local.patch = q.patch /\ local.pc = "next"
    BY <1>0 DEF RequestStates
  <2>4. QED
    BY <2>2, <2>3 DEF Submission
<1>8. CASE FinishLoop(r)
  BY <1>4, <1>8 DEF FinishLoop
<1>9. CASE Update(r)
  BY <1>3, <1>4, <1>5, <1>9 DEF Update, Pcs
<1>10. CASE Create(r)
  <2>1. q.pc = "create" /\ (Goto(r, "conflict") \/ Goto(r, "next"))
    BY <1>5, <1>10 DEF Create, At
  <2>2. QED
    BY <1>3, <2>1 DEF Pcs, Writing
<1>11. CASE Conflict(r)
  <2>1. q.pc = "conflict" /\ (Finish(r) \/ Goto(r, "next") \/ WithRow(r, "update"))
    BY <1>5, <1>11 DEF Conflict, At
  <2>2. QED
    BY <1>3, <1>4, <2>1 DEF Pcs, Writing
<1>12. QED
  BY <1>2, <1>6, <1>7, <1>8, <1>9, <1>10, <1>11

\* A request that carries a person's text carries the same text for the same
\* cell until it is through with that cell.
LEMMA PersonStep ==
  ASSUME IInv, NEW r \in Requests, Work(r), Submitted(r)
  PROVE  ~Submitted(r)' \/ Submission(r)' = Submission(r)
<1> DEFINE q == req[r]
<1>0. q \in RequestStates /\ AtHand(q) /\ req \in [Requests -> RequestStates]
  BY DEF IInv, TypeOK
<1> SUFFICES ASSUME q.op \in {"save", "accept"}
             PROVE  req'[r] = Idle \/ Submission(r)' = Submission(r)
  <2>1. req'[r] = Idle => ~Submitted(r)'
    BY DEF Submitted, Idle
  <2>2. CASE q.op = "promote"
    <3>1. ~NextPromoted(r)
      BY <2>2 DEF Submitted, NextPromoted, At
    <3>2. QED
      BY <2>1, <2>2, <3>1, PromotionStep
  <2>3. QED
    BY <2>1, <2>2 DEF Submitted
<1>1. q.op \in {"save", "accept"} /\ q.pc \in {"find", "read"} \cup Writing
  BY <1>0 DEF AtHand, StepOfOp, Filling
<1>2. \/ FindForPerson(r) \/ ReadForAccept(r) \/ Update(r) \/ Create(r) \/ Conflict(r)
  BY <1>1 DEF Work, At, Writing, Filling, ReadForReview, Confirm, ClassifySync, CreateKey,
     ListPresent, SetSourceText, ListForChange, NextChanged, Flag, FinishChange, NextToFill,
     NextToRetranslate, FinishLoop, FindToFill, FindToRetranslate, PlanPromotion,
     NextPromoted, Translated, TranslationFailed
<1>3. ASSUME NEW pc \in Pcs, Goto(r, pc) \/ WithRow(r, pc)
      PROVE  Submission(r)' = Submission(r)
  <2>1. req'[r].op = q.op /\ req'[r].cell = q.cell /\ req'[r].patch = q.patch
    BY <1>0, <1>3 DEF Goto, WithRow, Become, RequestStates
  <2>2. QED
    BY <1>1, <2>1 DEF Submission
<1>4. Finish(r) => req'[r] = Idle
  BY <1>0 DEF Finish, Become
<1>5. Continue(r) => req'[r] = Idle
  BY <1>1, <1>4 DEF Continue, Single
<1>6. CASE ReadForAccept(r)
  <2> DEFINE v == q.patch.value
  <2>1. \/ Finish(r)
        \/ \E patch \in {AsManual(v), AsAi(v)} :
             Become(r, [q EXCEPT !.pc = "update", !.patch = patch])
    BY <1>6 DEF ReadForAccept
  <2>2. ASSUME NEW patch \in {AsManual(v), AsAi(v)},
               Become(r, [q EXCEPT !.pc = "update", !.patch = patch])
        PROVE  Submission(r)' = Submission(r)
    <3>1. patch.value = v
      BY <2>2 DEF AsManual, AsAi
    <3>2. req'[r].op = q.op /\ req'[r].cell = q.cell /\ req'[r].patch = patch
      BY <1>0, <2>2 DEF Become, RequestStates
    <3>3. QED
      BY <1>1, <3>1, <3>2 DEF Submission
  <2>3. QED
    BY <1>4, <2>1, <2>2
<1>7. CASE FindForPerson(r)
  BY <1>3, <1>7 DEF FindForPerson, Pcs
<1>8. CASE Update(r)
  BY <1>4, <1>5, <1>8 DEF Update
<1>9. CASE Create(r)
  BY <1>3, <1>5, <1>9 DEF Create, Pcs
<1>10. CASE Conflict(r)
  BY <1>3, <1>4, <1>5, <1>10 DEF Conflict, Pcs
<1>11. QED
  BY <1>2, <1>6, <1>7, <1>8, <1>9, <1>10

\* No other request comes to carry a person's text, a promotion that takes its
\* next entry excepted.
LEMMA MachineStep ==
  ASSUME IInv, NEW r \in Requests, Work(r), ~Submitted(r), ~NextPromoted(r)
  PROVE  ~Submitted(r)'
<1> DEFINE q == req[r]
           Machine(op) == op \notin {"save", "accept", "promote"}
<1> SUFFICES ASSUME Machine(q.op)
             PROVE  ~Submitted(r)'
  <2>1. CASE q.op = "promote"
    <3>1. q.pc \notin {"find"} \cup Writing \/ IsAutomatic(q.patch)
      BY <2>1 DEF Submitted, Writing
    <3>2. req'[r] = Idle => ~Submitted(r)'
      BY DEF Submitted, Idle
    <3>3. QED
      BY <2>1, <3>1, <3>2, PromotionStep DEF Submitted, Writing
  <2>2. QED
    BY <2>1 DEF Submitted
<1>0. q \in RequestStates /\ req \in [Requests -> RequestStates] /\ Machine(q.op)
  BY DEF IInv, TypeOK
<1>1. ASSUME NEW local, Become(r, local), Machine(local.op)
      PROVE  ~Submitted(r)'
  BY <1>0, <1>1 DEF Become, Submitted
<1>2. Finish(r) => ~Submitted(r)'
  BY <1>1 DEF Finish, Idle
<1>3. ASSUME NEW pc \in Pcs, Goto(r, pc) \/ WithRow(r, pc)
      PROVE  ~Submitted(r)'
  BY <1>0, <1>3 DEF Goto, WithRow, Become, Submitted, RequestStates
<1>4. Continue(r) => ~Submitted(r)'
  BY <1>2, <1>3 DEF Continue, Pcs
<1>5. CASE FindForPerson(r) \/ ReadForAccept(r)
  BY <1>0, <1>5 DEF FindForPerson, ReadForAccept
<1>6. CASE ReadForReview(r) \/ Confirm(r) \/ Flag(r) \/ FinishChange(r) \/ FinishLoop(r)
           \/ TranslationFailed(r) \/ Update(r) \/ Create(r) \/ Conflict(r) \/ SetSourceText(r)
  BY <1>2, <1>3, <1>4, <1>6
     DEF ReadForReview, Confirm, Flag, FinishChange, FinishLoop, TranslationFailed, Update,
         Create, Conflict, SetSourceText, Pcs
<1>7. CASE ClassifySync(r) \/ CreateKey(r)
  <2> DEFINE changed == [q EXCEPT !.op = "change", !.pc = "setText", !.todo = {}]
             created == [q EXCEPT !.op = "fillTargets", !.pc = "create",
                                  !.patch = AsCode(SourceValue(q.text))]
  <2>1. Machine(changed.op) /\ Machine(created.op)
    BY <1>0 DEF RequestStates
  <2>2. \/ Goto(r, "createKey") \/ Goto(r, "present") \/ Finish(r)
        \/ Become(r, changed) \/ Become(r, created)
    BY <1>7 DEF ClassifySync, CreateKey
  <2>3. QED
    BY <1>1, <1>2, <1>3, <2>1, <2>2 DEF Pcs
<1>8. CASE ListPresent(r)
  <2>1. req'[r].op \in {q.op, "fillTargets"}
    BY <1>0, <1>8 DEF ListPresent, Goto, Become, RequestStates
  <2>2. QED
    BY <1>0, <2>1 DEF Submitted
<1>9. CASE ListForChange(r)
  <2>1. req'[r].op \in {q.op, "fillTargets"}
    BY <1>0, <1>9 DEF ListForChange, Goto, Become, RequestStates
  <2>2. QED
    BY <1>0, <2>1 DEF Submitted
<1>10. CASE NextChanged(r)
  <2>1. req'[r].op \in {q.op, "fillTargets"}
    BY <1>0, <1>10 DEF NextChanged, Goto, Become, RequestStates
  <2>2. QED
    BY <1>0, <2>1 DEF Submitted
<1>11. CASE NextToFill(r)
  <2>1. req'[r].op \in {q.op, "fillTargets"}
    BY <1>0, <1>11 DEF NextToFill, Goto, Become, RequestStates
  <2>2. QED
    BY <1>0, <2>1 DEF Submitted
<1>12. CASE NextToRetranslate(r)
  <2>1. req'[r].op \in {q.op, "fillTargets"}
    BY <1>0, <1>12 DEF NextToRetranslate, Goto, Become, RequestStates
  <2>2. QED
    BY <1>0, <2>1 DEF Submitted
<1>13. CASE Translated(r)
  <2>1. req'[r].op \in {q.op, "fillTargets"}
    BY <1>0, <1>13 DEF Translated, Goto, Become, RequestStates
  <2>2. QED
    BY <1>0, <2>1 DEF Submitted
<1>14. CASE FindToFill(r)
  <2> DEFINE copied == [q EXCEPT !.pc = "create", !.patch = AsCode(SourceValue(q.text))]
             asked == [q EXCEPT !.pc = "aiCreate"]
  <2>1. Machine(copied.op) /\ Machine(asked.op)
    BY <1>0 DEF RequestStates
  <2>2. Goto(r, "next") \/ Become(r, copied) \/ Become(r, asked)
    BY <1>14 DEF FindToFill, Goto
  <2>3. QED
    BY <1>1, <1>3, <2>1, <2>2 DEF Pcs
<1>15. CASE FindToRetranslate(r)
  <2> DEFINE c == q.cell
             exists == cell[c] # Absent
             value == SourceValue(q.text)
             patch == IF LocaleOf(c) = SourceLocale THEN AsCode(value) ELSE AsAi(value)
             copying == [q EXCEPT !.pc = IF exists THEN "update" ELSE "create",
                                  !.patch = patch]
             asking == [q EXCEPT !.pc = IF exists THEN "aiUpdate" ELSE "aiCreate"]
             going == IF LocaleOf(c) = q.from THEN copying ELSE asking
             held == [going EXCEPT !.rows[LocaleOf(c)] = removals[LocaleOf(c)]]
  <2>1. Machine(held.op)
    BY <1>0 DEF RequestStates
  <2>2. Goto(r, "next") \/ Become(r, held)
    BY <1>15 DEF FindToRetranslate, Goto
  <2>3. QED
    BY <1>1, <1>3, <2>1, <2>2 DEF Pcs
<1>16. CASE PlanPromotion(r)
  <2>1. req'[r].op = q.op
    <3>1. \A todo : [q EXCEPT !.pc = "next", !.todo = todo].op = q.op
      BY <1>0 DEF RequestStates
    <3>2. QED
      BY <1>0, <1>16, <3>1 DEF PlanPromotion, Become
  <2>2. QED
    BY <1>0, <2>1 DEF Submitted
<1>17. QED
  BY <1>5, <1>6, <1>7, <1>8, <1>9, <1>10, <1>11, <1>12, <1>13, <1>14, <1>15, <1>16 DEF Work

\* What a step of one request does to what people await.
LEMMA PendingStep ==
  ASSUME NEW r \in Requests, \A p \in Requests \ {r} : req'[p] = req[p]
  PROVE  /\ ~Submitted(r) /\ ~Submitted(r)' => Pending' = Pending
         /\ Submitted(r) /\ Submitted(r)' /\ Submission(r)' = Submission(r)
              => Pending' = Pending
         /\ Submitted(r) /\ ~Submitted(r)'
              => Pending' \in {Pending, Pending \ {Submission(r)}}
         /\ ~Submitted(r) /\ Submitted(r)'
              => Pending' = Pending \cup {Submission(r)'}
<1>1. \A p \in Requests \ {r} :
        /\ Submitted(p)' <=> Submitted(p)
        /\ Submission(p)' = Submission(p)
  BY DEF Submitted, Submission
<1>2. Pending = {Submission(p) : p \in {s \in Requests : Submitted(s)}}
  BY DEF Pending, Submission
<1>3. Pending' = {Submission(p)' : p \in {s \in Requests : Submitted(s)'}}
  BY DEF Pending, Submission
<1>4. \A x : x \in Pending <=> \E p \in Requests : Submitted(p) /\ x = Submission(p)
  BY <1>2
<1>5. \A x : x \in Pending' <=> \E p \in Requests : Submitted(p)' /\ x = Submission(p)'
  BY <1>3
<1>6. QED
  BY <1>1, <1>4, <1>5

\* The steps of CellOwnership, said of the mapped state.
LEMMA OwnershipSteps ==
  ASSUME NEW c \in Cells, NEW v \in Values,
         LET answered == Pending' \in {Pending, Pending \ {<<c, v>>}}
         IN  \/ Contents' = Contents /\ Pending' \in {Pending \cup {<<c, v>>}, Pending \ {<<c, v>>}}
             \/ /\ Contents' = [Contents EXCEPT ![c] = [owner |-> "human", value |-> v]]
                /\ <<c, v>> \in Pending /\ answered
             \/ /\ Contents' = [Contents EXCEPT ![c] = [owner |-> "machine", value |-> v]]
                /\ Contents[c] = Absent \/ Contents[c].owner = "machine"
                /\ answered
  PROVE  Ownership!Next
<1>1. Contents' = Contents /\ Pending' = Pending \cup {<<c, v>>} => Ownership!Submit(c, v)
  BY DEF Ownership!Submit, Contents, Pending
<1>2. Contents' = Contents /\ Pending' = Pending \ {<<c, v>>} => Ownership!Withdraw(c, v)
  BY DEF Ownership!Withdraw, Contents, Pending
<1>3. /\ Contents' = [Contents EXCEPT ![c] = [owner |-> "human", value |-> v]]
      /\ <<c, v>> \in Pending /\ Pending' \in {Pending, Pending \ {<<c, v>>}}
      => Ownership!HumanWrite(c, v)
  BY DEF Ownership!HumanWrite, Ownership!Human, Ownership!Answered, Contents, Pending
<1>4. /\ Contents' = [Contents EXCEPT ![c] = [owner |-> "machine", value |-> v]]
      /\ Contents[c] = Absent \/ Contents[c].owner = "machine"
      /\ Pending' \in {Pending, Pending \ {<<c, v>>}}
      => Ownership!MachineWrite(c, v)
  <2>1. ASSUME Contents[c] = Absent \/ Contents[c].owner = "machine", NEW w \in Values
        PROVE  Contents[c] # Ownership!Human(w)
    BY <2>1, ConstantsAssumption DEF Ownership!Human
  <2>2. QED
    BY <2>1 DEF Ownership!MachineWrite, Ownership!Machine, Ownership!Answered, Contents, Pending
<1>5. QED
  BY <1>1, <1>2, <1>3, <1>4 DEF Ownership!Next

LEMMA ContentWrite ==
  ASSUME IInv, NEW c \in Cells, NEW row, cell' = [cell EXCEPT ![c] = row]
  PROVE  Contents' = [Contents EXCEPT ![c] = Content(row)]
BY DEF IInv, TypeOK, Contents

\* A step of a request leaves the others where they are.
LEMMA OthersWait ==
  ASSUME IInv, NEW r \in Requests, Work(r), NEW p \in Requests \ {r}
  PROVE  req'[p] = req[p]
<1>0. req \in [Requests -> RequestStates]
  BY DEF IInv, TypeOK
<1>1. ASSUME NEW local, Become(r, local)
      PROVE  req'[p] = req[p]
  BY <1>0, <1>1 DEF Become
<1>2. ASSUME NEW pc, Goto(r, pc) \/ WithRow(r, pc) \/ Finish(r) \/ Continue(r)
      PROVE  req'[p] = req[p]
  BY <1>1, <1>2 DEF Goto, WithRow, Finish, Continue
<1>3. FindForPerson(r) \/ ReadForReview(r) \/ Confirm(r) => req'[p] = req[p]
  BY <1>2 DEF FindForPerson, ReadForReview, Confirm
<1>4. ReadForAccept(r) \/ ClassifySync(r) \/ CreateKey(r) => req'[p] = req[p]
  BY <1>1, <1>2 DEF ReadForAccept, ClassifySync, CreateKey
<1>5. ListPresent(r) \/ SetSourceText(r) \/ ListForChange(r) => req'[p] = req[p]
  BY <1>1, <1>2 DEF ListPresent, SetSourceText, ListForChange
<1>6. NextChanged(r) => req'[p] = req[p]
  BY <1>1 DEF NextChanged
<1>7. Flag(r) \/ FinishChange(r) \/ FinishLoop(r) => req'[p] = req[p]
  BY <1>2 DEF Flag, FinishChange, FinishLoop
<1>8. NextToFill(r) \/ NextToRetranslate(r) => req'[p] = req[p]
  BY <1>1 DEF NextToFill, NextToRetranslate
<1>9. FindToFill(r) \/ FindToRetranslate(r) => req'[p] = req[p]
  BY <1>1, <1>2 DEF FindToFill, FindToRetranslate
<1>10. Translated(r) \/ TranslationFailed(r) => req'[p] = req[p]
  BY <1>1, <1>2 DEF Translated, TranslationFailed
<1>11. Update(r) \/ Create(r) \/ Conflict(r) => req'[p] = req[p]
  BY <1>2 DEF Update, Create, Conflict
<1>12. PlanPromotion(r) \/ NextPromoted(r) => req'[p] = req[p]
  BY <1>1 DEF PlanPromotion, NextPromoted
<1>13. QED
  BY <1>3, <1>4, <1>5, <1>6, <1>7, <1>8, <1>9, <1>10, <1>11, <1>12 DEF Work

\* A step of a request, seen from CellOwnership.
LEMMA WorkImplements ==
  ASSUME IInv, NEW r \in Requests, Work(r), ~NextPromoted(r)
  PROVE  Ownership!Next \/ UNCHANGED Ownership!vars
<1> DEFINE q == req[r]
           c == q.cell
           v == q.patch.value
<1>0. /\ q \in RequestStates /\ AtHand(q) /\ Remembers(q) /\ TypeOK
      /\ cell \in [Cells -> Rows \cup {Absent}] /\ req \in [Requests -> RequestStates]
  BY DEF IInv, TypeOK
<1>1. \A p \in Requests \ {r} : req'[p] = req[p]
  BY OthersWait
<1>2. Pending' \in {Pending, Pending \ {<<c, v>>}}
  <2>1. CASE Submitted(r)
    BY <1>1, <2>1, PersonStep, PendingStep DEF Submission
  <2>2. CASE ~Submitted(r)
    BY <1>1, <2>2, MachineStep, PendingStep
  <2>3. QED
    BY <2>1, <2>2
<1>3. Submitted(r) => c \in Cells /\ v \in Values /\ <<c, v>> \in Pending
  <2>1. Submitted(r) => c \in Cells /\ q.patch \in Rows
    BY <1>0 DEF Submitted, AtHand, StepOfOp, Filling, Writing
  <2>2. QED
    BY <2>1 DEF Pending, Rows
<1>4. ASSUME Contents' = Contents
      PROVE  Ownership!Next \/ UNCHANGED Ownership!vars
  <2>1. CASE Pending' = Pending
    BY <1>4, <2>1 DEF Ownership!vars, Contents, Pending
  <2>2. CASE Pending' # Pending
    <3>1. Submitted(r)
      BY <1>1, <2>2, MachineStep, PendingStep
    <3>2. QED
      BY <1>2, <1>3, <1>4, <2>2, <3>1, OwnershipSteps
  <2>3. QED
    BY <2>1, <2>2
<1>5. ASSUME c \in Cells, q.pc \in Writing, Store(r, c, q.patch),
             cell[c] # Absent /\ IsHumanOwned(cell[c]) => ~IsAutomatic(q.patch)
      PROVE  Ownership!Next
  <2>1. q.patch \in Rows /\ q.patch # Absent /\ v \in Values
    BY <1>0, <1>5, ConstantsAssumption DEF AtHand, Rows
  <2>2. Contents' = [Contents EXCEPT ![c] = Content(q.patch)]
    BY <1>5, ContentWrite DEF Store
  <2>3. CASE IsHumanOwned(q.patch)
    <3>1. Submitted(r)
      BY <1>0, <1>5, <2>3
         DEF AtHand, Submitted, AnyPatch, AutomaticPatch, IsHumanOwned, AsManual, AsAi,
             AsCode, IsAutomatic, Writing
    <3>2. Content(q.patch) = [owner |-> "human", value |-> v]
      BY <2>1, <2>3 DEF Content
    <3>3. QED
      BY <1>2, <1>3, <1>5, <2>1, <2>2, <3>1, <3>2, OwnershipSteps
  <2>4. CASE ~IsHumanOwned(q.patch)
    <3>1. IsAutomatic(q.patch)
      BY <1>0, <1>5, <2>4, PatchShape
    <3>2. Content(q.patch) = [owner |-> "machine", value |-> v]
      BY <2>1, <2>4 DEF Content
    <3>3. Contents[c] = Absent \/ Contents[c].owner = "machine"
      BY <1>5, <3>1 DEF Contents, Content
    <3>4. QED
      BY <1>2, <1>5, <2>1, <2>2, <3>2, <3>3, OwnershipSteps
  <2>5. QED
    BY <2>3, <2>4
<1>6. ASSUME UNCHANGED cell
      PROVE  Contents' = Contents
  BY <1>6 DEF Contents
<1>7. ASSUME NEW status \in {"manual", "needs-review"}, c \in Cells, cell[c] # Absent,
             cell' = [cell EXCEPT ![c] = [cell[c] EXCEPT !.status = status]]
      PROVE  Contents' = Contents
  <2> DEFINE row == [cell[c] EXCEPT !.status = status]
  <2>1. cell[c] \in Rows
    BY <1>0, <1>7
  <2>2. row \in Rows /\ row # Absent
    BY <2>1, ConstantsAssumption DEF Rows
  <2>3. Content(row) = Content(cell[c])
    BY <1>7, <2>1, <2>2 DEF Content, IsHumanOwned, Rows
  <2>4. Contents' = [Contents EXCEPT ![c] = Content(row)]
    BY <1>7, ContentWrite
  <2>5. QED
    BY <1>7, <2>3, <2>4 DEF Contents
<1>8. CASE Update(r)
  <2>1. c \in Cells /\ q.pc \in Writing
    BY <1>0, <1>8 DEF Update, At, AtHand, Writing
  <2>2. UNCHANGED cell \/ (Store(r, c, q.patch) /\ ~Preserves(cell[c], q.patch))
    BY <1>8 DEF Update
  <2>3. QED
    BY <1>4, <1>5, <1>6, <2>1, <2>2 DEF Preserves
<1>9. CASE Create(r)
  <2>1. c \in Cells /\ q.pc \in Writing
    BY <1>0, <1>9 DEF Create, At, AtHand, Writing
  <2>2. UNCHANGED cell \/ (Store(r, c, q.patch) /\ cell[c] = Absent)
    BY <1>9 DEF Create
  <2>3. QED
    BY <1>4, <1>5, <1>6, <2>1, <2>2
<1>10. CASE Confirm(r)
  <2>1. c \in Cells
    BY <1>0, <1>10 DEF Confirm, At, AtHand
  <2>2. \/ UNCHANGED cell
        \/ /\ cell[c] # Absent
           /\ cell' = [cell EXCEPT ![c] = [cell[c] EXCEPT !.status = "manual"]]
    BY <1>10 DEF Confirm, Store, Holds
  <2>3. QED
    BY <1>4, <1>6, <1>7, <2>1, <2>2
<1>11. CASE Flag(r)
  <2>1. c \in Cells
    BY <1>0, <1>11 DEF Flag, At, AtHand
  <2>2. \/ UNCHANGED cell
        \/ /\ cell[c] # Absent
           /\ cell' = [cell EXCEPT ![c] = [cell[c] EXCEPT !.status = "needs-review"]]
    BY <1>11 DEF Flag, Holds
  <2>3. QED
    BY <1>4, <1>6, <1>7, <2>1, <2>2
<1>12. CASE UNCHANGED cell
  BY <1>4, <1>6, <1>12
<1>13. UNCHANGED cell \/ Update(r) \/ Create(r) \/ Confirm(r) \/ Flag(r)
  BY DEF Work, Quiet, FindForPerson, ReadForAccept, ReadForReview, ClassifySync, CreateKey,
     ListPresent, SetSourceText, ListForChange, NextChanged, FinishChange, NextToFill,
     NextToRetranslate, FinishLoop, FindToFill, FindToRetranslate, PlanPromotion,
     NextPromoted, Translated, TranslationFailed, Conflict
<1>14. QED
  BY <1>8, <1>9, <1>10, <1>11, <1>12, <1>13

\* A promotion that takes its next entry submits the text, when a person wrote
\* it.
LEMMA PromotedImplements ==
  ASSUME IInv, NEW r \in Requests, NextPromoted(r)
  PROVE  Ownership!Next \/ UNCHANGED Ownership!vars
<1> DEFINE q == req[r]
<1>0. /\ q \in RequestStates /\ AtHand(q) /\ req \in [Requests -> RequestStates]
      /\ q.op = "promote" /\ q.pc = "next" /\ UNCHANGED cell
  BY DEF IInv, TypeOK, NextPromoted, At, Quiet
<1>1. ~Submitted(r) /\ Contents' = Contents
  BY <1>0 DEF Submitted, Contents
<1>2. PICK c \in q.todo :
        Become(r, [q EXCEPT !.pc = "find", !.cell = c, !.todo = q.todo \ {c},
                            !.patch = Promoted(Incoming(q.bundle, c))])
  BY DEF NextPromoted
<1>3. c \in Cells /\ Incoming(q.bundle, c) \in Rows
  BY <1>0, CellParts DEF AtHand, RequestStates, Incoming
<1>4. req'[r].cell = c /\ req'[r].patch \in Rows
  BY <1>0, <1>2, <1>3, PromotedPatch DEF Become, RequestStates
<1>5. \A p \in Requests \ {r} : req'[p] = req[p]
  BY <1>0, <1>2 DEF Become
<1>6. Pending' = Pending \/ Pending' = Pending \cup {<<c, req'[r].patch.value>>}
  BY <1>1, <1>4, <1>5, PendingStep DEF Submission
<1>7. CASE Pending' = Pending
  BY <1>1, <1>7 DEF Ownership!vars, Contents, Pending
<1>8. CASE Pending' = Pending \cup {<<c, req'[r].patch.value>>}
  <2>1. req'[r].patch.value \in Values
    BY <1>4 DEF Rows
  <2>2. QED
    BY <1>1, <1>3, <1>8, <2>1, OwnershipSteps
<1>9. QED
  BY <1>6, <1>7, <1>8

LEMMA ArriveImplements ==
  ASSUME IInv, NEW r \in Requests, Arrive(r)
  PROVE  Ownership!Next \/ UNCHANGED Ownership!vars
<1>0. /\ req \in [Requests -> RequestStates] /\ UNCHANGED cell /\ req[r].op = "none"
  <2>1. UNCHANGED cell /\ At(r, "idle")
    BY DEF Arrive, StartSave, StartAccept, StartReview, StartSync, StartFillLocale,
       StartFillSelection, StartRetranslate, StartPromotion, Quiet
  <2>2. AtHand(req[r]) /\ req \in [Requests -> RequestStates]
    BY DEF IInv, TypeOK
  <2>3. QED
    BY <2>1, <2>2 DEF At, AtHand, StepOfOp, Writing, Filling, Asking
<1>1. ~Submitted(r) /\ Contents' = Contents
  BY <1>0 DEF Submitted, Contents
<1>2. ASSUME NEW local, Become(r, local)
      PROVE  req'[r] = local /\ \A p \in Requests \ {r} : req'[p] = req[p]
  BY <1>0, <1>2 DEF Become
<1>3. ASSUME NEW local, Become(r, local), local.op \notin {"save", "accept"},
             local.op = "promote" => local.pc = "plan"
      PROVE  UNCHANGED Ownership!vars
  <2>1. Pending' = Pending
    BY <1>1, <1>2, <1>3, PendingStep DEF Submitted
  <2>2. QED
    BY <1>1, <2>1 DEF Ownership!vars, Contents, Pending
<1>4. ASSUME NEW local, Become(r, local), local.op \in {"save", "accept"},
             local.cell \in Cells, local.patch.value \in Values
      PROVE  Ownership!Next
  <2>1. Pending' = Pending \cup {<<local.cell, local.patch.value>>}
    BY <1>1, <1>2, <1>4, PendingStep DEF Submitted, Submission
  <2>2. QED
    BY <1>1, <1>4, <2>1, OwnershipSteps
<1>5. ASSUME NEW c \in Cells, NEW i \in Inputs, StartSave(r, c, i)
      PROVE  Ownership!Next
  <2> DEFINE local == [Idle EXCEPT !.op = "save", !.pc = "find", !.cell = c, !.decided = keyText,
                                   !.patch = AsManual(InputValue(i))]
  <2>1. Become(r, local) /\ local.op = "save" /\ local.cell = c
        /\ local.patch.value = InputValue(i)
    BY <1>5 DEF StartSave, Idle, AsManual
  <2>2. QED
    BY <1>4, <2>1, ValueTypes
<1>6. ASSUME NEW c \in Cells, NEW i \in Inputs, StartAccept(r, c, i)
      PROVE  Ownership!Next
  <2> DEFINE local == [Idle EXCEPT !.op = "accept", !.pc = "find", !.cell = c, !.decided = keyText,
                                   !.patch = AsAi(InputValue(i))]
  <2>1. Become(r, local) /\ local.op = "accept" /\ local.cell = c
        /\ local.patch.value = InputValue(i)
    BY <1>6 DEF StartAccept, Idle, AsAi
  <2>2. QED
    BY <1>4, <2>1, ValueTypes
<1>7. ASSUME NEW c \in Cells, StartReview(r, c)
      PROVE  UNCHANGED Ownership!vars
  BY <1>3, <1>7 DEF StartReview, Idle
<1>8. ASSUME NEW k \in Keys, NEW e \in Envs, NEW t \in Texts, StartSync(r, k, e, t)
      PROVE  UNCHANGED Ownership!vars
  BY <1>3, <1>8 DEF StartSync, Idle
<1>9. ASSUME NEW e \in Envs, NEW l \in Locales, StartFillLocale(r, e, l)
      PROVE  UNCHANGED Ownership!vars
  BY <1>3, <1>9 DEF StartFillLocale, Idle
<1>10. ASSUME NEW k \in Keys, NEW e \in Envs, NEW targets \in SUBSET Locales,
              StartFillSelection(r, k, e, targets)
       PROVE  UNCHANGED Ownership!vars
  BY <1>3, <1>10 DEF StartFillSelection, Idle
<1>11. ASSUME NEW k \in Keys, NEW e \in Envs, NEW targets \in SUBSET Locales,
              NEW from \in Locales, StartRetranslate(r, k, e, targets, from)
       PROVE  UNCHANGED Ownership!vars
  BY <1>3, <1>11 DEF StartRetranslate, Idle
<1>12. ASSUME NEW e \in Envs, NEW bundle \in Bundles, StartPromotion(r, e, bundle)
       PROVE  UNCHANGED Ownership!vars
  BY <1>3, <1>12 DEF StartPromotion, Idle
<1>13. QED
  BY <1>5, <1>6, <1>7, <1>8, <1>9, <1>10, <1>11, <1>12 DEF Arrive

LEMMA RemoveImplements ==
  ASSUME IInv, NEW l \in Locales, RemoveLocale(l)
  PROVE  Ownership!Next
<1> DEFINE group == {c \in Cells : LocaleOf(c) = l}
<1>1. Contents' = [c \in Cells |-> IF c \in group THEN Absent ELSE Contents[c]]
  BY DEF Contents, Content, RemoveLocale
<1>2. Pending' = Pending
  BY DEF Pending, Submitted, RemoveLocale
<1>3. Ownership!Erase(group)
  BY <1>1, <1>2 DEF Ownership!Erase, Contents, Pending
<1>4. QED
  BY <1>3 DEF Ownership!Next

\* The central rule of the product (README.md:23-30, invariants.ts:24-32 and
\* the guarded UPDATE of prisma-translation-repository.ts:489-515): under any
\* interleaving of any number of requests, a text a person put in a cell is
\* replaced only by a text a person submitted for that cell, there or in the
\* environment a promotion copies, and taken away only with its locale.
THEOREM OwnershipKept == Spec => ImplementsOwnership
<1>1. Init => Ownership!Init
  BY DEF Init, Ownership!Init, Content, Submitted, Idle
<1>2. IInv /\ [Next]_vars => [Ownership!Next]_(Ownership!vars)
  <2> SUFFICES ASSUME IInv, [Next]_vars
               PROVE  Ownership!Next \/ UNCHANGED Ownership!vars
    OBVIOUS
  <2>1. CASE UNCHANGED vars
    <3>1. UNCHANGED <<cell, req>>
      BY <2>1 DEF vars
    <3>2. QED
      BY <3>1 DEF Ownership!vars, Submitted
  <2>2. QED
    BY <2>1, ArriveImplements, WorkImplements, PromotedImplements, RemoveImplements DEF Next
<1>3. QED
  BY <1>1, <1>2, Invariance, PTL DEF Spec, Ownership!Spec, ImplementsOwnership

-----------------------------------------------------------------------------
(* A pass over a source change leaves nothing behind *)

\* A person's text that counts as reviewed under an older source text, and
\* whose request was not overtaken by the change.
Stale(c) ==
  /\ c \notin overtaken
  /\ cell[c] # Absent
  /\ IsHumanOwned(cell[c])
  /\ cell[c].status = "manual"
  /\ basis[c] # keyText[KeyOf(c)]

\* The request has listed the rows its source change is about.
Passing(q) == q.op = "change" /\ q.pc \in {"next", "flag", "aiUpdate", "update"}

Beside(q) == CellsOf(KeyOf(q.cell), EnvOf(q.cell))

\* The request will still flag the row.
Due(q, c) == c \in q.todo \cap q.human \/ (q.pc = "flag" /\ c = q.cell)

\* While a pass is the last one over its key, what is stale in its environment
\* is what it has listed as a person's and not come to: a text submitted after
\* the change is not stale and one submitted before it is overtaken when it is
\* written, so the list cannot miss one.
Sweeping ==
  /\ \A k \in Keys : keyText[k] = Absent => swept[k] = {} /\ latest[k] = Absent
  /\ \A r \in Requests : req[r].op = "change" => req[r].todo \subseteq Beside(req[r])
  /\ \A r \in Requests :
       Passing(req[r]) /\ latest[KeyOf(req[r].cell)] = r
         => \A c \in Beside(req[r]) : Stale(c) => Due(req[r], c)
  /\ \A c \in Cells : EnvOf(c) \in swept[KeyOf(c)] => ~Stale(c)

\* Two writes: one that puts a row in a cell, and none at all.
LEMMA StoredIsFresh ==
  ASSUME TypeOK, NEW r \in Requests, NEW c \in Cells, NEW row, Store(r, c, row),
         UNCHANGED keyText
  PROVE  /\ \A d \in Cells : Stale(d)' => Stale(d)
         /\ UNCHANGED <<latest, swept>>
<1>1. /\ cell' = [cell EXCEPT ![c] = row]
      /\ basis' = [basis EXCEPT ![c] = IF IsHumanOwned(row)
                                       THEN req[r].decided[KeyOf(c)] ELSE Absent]
      /\ overtaken' = IF IsHumanOwned(row) /\ req[r].decided[KeyOf(c)] # keyText[KeyOf(c)]
                      THEN overtaken \cup {c} ELSE overtaken \ {c}
      /\ UNCHANGED <<latest, swept>>
      /\ DOMAIN cell = Cells /\ DOMAIN basis = Cells
  BY DEF Store, TypeOK
<1>2. ASSUME NEW d \in Cells, d # c
      PROVE  Stale(d)' => Stale(d)
  BY <1>1, <1>2 DEF Stale
<1>3. ~Stale(c)'
  <2>1. cell'[c] = row
    BY <1>1
  <2>2. IsHumanOwned(row) /\ c \notin overtaken' => basis'[c] = keyText'[KeyOf(c)]
    BY <1>1
  <2>3. QED
    BY <2>1, <2>2 DEF Stale
<1>4. QED
  BY <1>1, <1>2, <1>3

LEMMA NothingStored ==
  ASSUME UNCHANGED <<cell, history>>, UNCHANGED keyText
  PROVE  /\ \A d \in Cells : Stale(d)' => Stale(d)
         /\ UNCHANGED <<latest, swept>>
BY DEF Stale, history

\* Only a change of the source text makes a text stale.
LEMMA NothingGrowsStale ==
  ASSUME IInv, NEW r \in Requests, Work(r),
         ~CreateKey(r), ~SetSourceText(r), ~FinishChange(r)
  PROVE  /\ \A d \in Cells : Stale(d)' => Stale(d)
         /\ UNCHANGED <<keyText, latest, swept>>
<1> DEFINE c == req[r].cell
           Goal == /\ \A d \in Cells : Stale(d)' => Stale(d)
                   /\ UNCHANGED <<keyText, latest, swept>>
<1>0. TypeOK /\ AtHand(req[r])
  BY DEF IInv
<1>1. CASE Confirm(r)
  <2>1. UNCHANGED keyText /\ c \in Cells
    BY <1>0, <1>1 DEF Confirm, At, AtHand
  <2>2. Store(r, c, [cell[c] EXCEPT !.status = "manual"]) \/ UNCHANGED <<cell, history>>
    BY <1>1 DEF Confirm
  <2>3. QED
    BY <1>0, <2>1, <2>2, StoredIsFresh, NothingStored
<1>2. CASE Update(r)
  <2>1. UNCHANGED keyText /\ c \in Cells
    BY <1>0, <1>2 DEF Update, At, AtHand
  <2>2. Store(r, c, req[r].patch) \/ UNCHANGED <<cell, history>>
    BY <1>2 DEF Update
  <2>3. QED
    BY <1>0, <2>1, <2>2, StoredIsFresh, NothingStored
<1>3. CASE Create(r)
  <2>1. UNCHANGED keyText /\ c \in Cells
    BY <1>0, <1>3 DEF Create, At, AtHand
  <2>2. Store(r, c, req[r].patch) \/ UNCHANGED <<cell, history>>
    BY <1>3 DEF Create
  <2>3. QED
    BY <1>0, <2>1, <2>2, StoredIsFresh, NothingStored
<1>4. CASE Flag(r)
  <2>1. UNCHANGED <<keyText, history>> /\ c \in Cells
    BY <1>0, <1>4 DEF Flag, At, AtHand
  <2>2. UNCHANGED cell
        \/ (Holds(r) /\ cell' = [cell EXCEPT ![c] = [cell[c] EXCEPT !.status = "needs-review"]])
    BY <1>4 DEF Flag
  <2>3. CASE UNCHANGED cell
    BY <2>1, <2>3, NothingStored
  <2>4. CASE Holds(r) /\ cell' = [cell EXCEPT ![c] = [cell[c] EXCEPT !.status = "needs-review"]]
    <3>1. cell[c] \in Rows
      BY <1>0, <2>1, <2>4 DEF Holds, TypeOK
    <3>2. cell'[c].status = "needs-review" /\ \A d \in Cells \ {c} : cell'[d] = cell[d]
      BY <1>0, <2>1, <2>4, <3>1 DEF TypeOK, Rows
    <3>3. QED
      BY <2>1, <3>2 DEF Stale, history
  <2>5. QED
    BY <2>2, <2>3, <2>4
<1>5. CASE Quiet
  BY <1>5, NothingStored DEF Quiet, history
<1>6. Quiet \/ Confirm(r) \/ Update(r) \/ Create(r) \/ Flag(r)
  BY DEF Work, FindForPerson, ReadForAccept, ReadForReview, ClassifySync,
     ListPresent, ListForChange, NextChanged, NextToFill,
     NextToRetranslate, FinishLoop, FindToFill, FindToRetranslate, PlanPromotion,
     NextPromoted, Translated, TranslationFailed, Conflict
<1>7. QED
  BY <1>1, <1>2, <1>3, <1>4, <1>5, <1>6

\* The shape of every step: one request moves and stays in order, the source
\* texts that matter stay, and nothing grows stale.
LEMMA SweepStep ==
  ASSUME IInv, Sweeping, NEW r \in Requests,
         \A q \in Requests \ {r} : req'[q] = req[q],
         latest' = latest,
         \A k \in Keys : keyText[k] # Absent => keyText'[k] # Absent,
         \A c \in Cells : Stale(c)' => Stale(c) \/ keyText[KeyOf(c)] = Absent,
         \A c \in Cells : EnvOf(c) \in swept'[KeyOf(c)] \ swept[KeyOf(c)] => ~Stale(c)',
         \A k \in Keys : keyText[k] = Absent => swept'[k] = {},
         req'[r].op = "change" => req'[r].todo \subseteq Beside(req'[r]),
         Passing(req'[r]) /\ latest[KeyOf(req'[r].cell)] = r
           => \A c \in Beside(req'[r]) : Stale(c)' => Due(req'[r], c)
  PROVE  Sweeping'
<1>1. \A k \in Keys : keyText'[k] = Absent => swept'[k] = {} /\ latest'[k] = Absent
  BY DEF Sweeping
<1>2. ASSUME NEW q \in Requests, q # r, Passing(req[q]), latest[KeyOf(req[q].cell)] = q,
             NEW c \in Beside(req[q]), Stale(c)'
      PROVE  Due(req[q], c)
  <2>1. req[q].cell \in Cells /\ c \in Cells /\ KeyOf(c) = KeyOf(req[q].cell)
    BY <1>2 DEF IInv, AtHand, Passing, Beside, CellsOf
  <2>2. keyText[KeyOf(c)] # Absent
    BY <1>2, <2>1, CellParts, ConstantsAssumption DEF Sweeping
  <2>3. Stale(c)
    BY <1>2, <2>1, <2>2
  <2>4. QED
    BY <1>2, <2>3 DEF Sweeping
<1>3. ASSUME NEW c \in Cells, EnvOf(c) \in swept'[KeyOf(c)]
      PROVE  ~Stale(c)'
  <2>1. CASE EnvOf(c) \in swept[KeyOf(c)]
    BY <2>1, CellParts DEF Sweeping
  <2>2. QED
    BY <1>3, <2>1
<1>4. ASSUME NEW q \in Requests, req'[q].op = "change"
      PROVE  req'[q].todo \subseteq Beside(req'[q])
  BY <1>4 DEF Sweeping
<1>5. ASSUME NEW q \in Requests, Passing(req'[q]), latest'[KeyOf(req'[q].cell)] = q,
             NEW c \in Beside(req'[q]), Stale(c)'
      PROVE  Due(req'[q], c)
  <2>1. CASE q = r
    BY <1>5, <2>1
  <2>2. CASE q # r
    BY <1>2, <1>5, <2>2
  <2>3. QED
    BY <2>1, <2>2
<1>6. QED
  BY <1>1, <1>3, <1>4, <1>5 DEF Sweeping, Passing, Beside, CellsOf, Due

\* A sync that finds the text changed has listed nothing yet; no other step
\* begins a pass.
LEMMA PassBegins ==
  ASSUME IInv, NEW r \in Requests, Arrive(r) \/ Work(r), req[r].op # "change"
  PROVE  req'[r].op = "change" => req'[r].pc = "setText" /\ req'[r].todo = {}
<1> DEFINE q == req[r]
           Goal == req'[r].op = "change" => req'[r].pc = "setText" /\ req'[r].todo = {}
<1>0. /\ req \in [Requests -> RequestStates] /\ q \in RequestStates /\ q.op # "change"
      /\ AtHand(q)
  BY DEF IInv, TypeOK
<1>1. ASSUME NEW local, Become(r, local)
      PROVE  req'[r] = local
  BY <1>0, <1>1 DEF Become
<1>2. Idle.op # "change"
  BY DEF Idle
<1>3. ASSUME NEW pc, Goto(r, pc) \/ WithRow(r, pc) \/ Finish(r) \/ Continue(r)
      PROVE  req'[r].op # "change"
  <2>1. ASSUME NEW p, Goto(r, p)
        PROVE  req'[r].op # "change"
    BY <1>0, <1>1, <2>1 DEF Goto, RequestStates
  <2>2. WithRow(r, pc) => req'[r].op # "change"
    BY <1>0, <1>1 DEF WithRow, RequestStates
  <2>3. Finish(r) => req'[r].op # "change"
    BY <1>1, <1>2 DEF Finish
  <2>4. Continue(r) => req'[r].op # "change"
    BY <2>1, <2>3 DEF Continue
  <2>5. QED
    BY <1>3, <2>1, <2>2, <2>3, <2>4
<1>4. CASE Arrive(r)
  <2>1. ASSUME NEW c \in Cells, NEW i \in Inputs, StartSave(r, c, i) \/ StartAccept(r, c, i)
        PROVE  req'[r].op # "change"
    BY <1>1, <2>1 DEF StartSave, StartAccept, Idle
  <2>2. ASSUME NEW c \in Cells, StartReview(r, c)
        PROVE  req'[r].op # "change"
    BY <1>1, <2>2 DEF StartReview, Idle
  <2>3. ASSUME NEW k \in Keys, NEW e \in Envs, NEW t \in Texts, StartSync(r, k, e, t)
        PROVE  req'[r].op # "change"
    BY <1>1, <2>3 DEF StartSync, Idle
  <2>4. ASSUME NEW e \in Envs, NEW l \in Locales, StartFillLocale(r, e, l)
        PROVE  req'[r].op # "change"
    BY <1>1, <2>4 DEF StartFillLocale, Idle
  <2>5. ASSUME NEW k \in Keys, NEW e \in Envs, NEW targets \in SUBSET Locales,
               StartFillSelection(r, k, e, targets)
        PROVE  req'[r].op # "change"
    BY <1>1, <2>5 DEF StartFillSelection, Idle
  <2>6. ASSUME NEW k \in Keys, NEW e \in Envs, NEW targets \in SUBSET Locales,
               NEW from \in Locales, StartRetranslate(r, k, e, targets, from)
        PROVE  req'[r].op # "change"
    BY <1>1, <2>6 DEF StartRetranslate, Idle
  <2>7. ASSUME NEW e \in Envs, NEW bundle \in Bundles, StartPromotion(r, e, bundle)
        PROVE  req'[r].op # "change"
    BY <1>1, <2>7 DEF StartPromotion, Idle
  <2>8. QED
    BY <1>4, <2>1, <2>2, <2>3, <2>4, <2>5, <2>6, <2>7 DEF Arrive
<1>5. CASE FindForPerson(r) \/ ReadForReview(r) \/ Confirm(r)
  BY <1>3, <1>5 DEF FindForPerson, ReadForReview, Confirm
<1>6. CASE ReadForAccept(r)
  <2>1. ASSUME NEW p, NEW patch, Become(r, [q EXCEPT !.pc = p, !.patch = patch])
        PROVE  req'[r].op # "change"
    BY <1>0, <1>1, <2>1 DEF RequestStates
  <2>2. QED
    BY <1>3, <1>6, <2>1 DEF ReadForAccept
<1>7. CASE ClassifySync(r)
  <2>1. Become(r, [q EXCEPT !.op = "change", !.pc = "setText", !.todo = {}])
        \/ (\E pc \in Pcs : Goto(r, pc))
    BY <1>7 DEF ClassifySync, Pcs
  <2>2. Become(r, [q EXCEPT !.op = "change", !.pc = "setText", !.todo = {}])
          => req'[r].pc = "setText" /\ req'[r].todo = {}
    BY <1>0, <1>1 DEF RequestStates
  <2>3. QED
    BY <1>3, <2>1, <2>2
<1>8. CASE CreateKey(r)
  <2>1. ASSUME NEW patch,
               Become(r, [q EXCEPT !.op = "fillTargets", !.pc = "create", !.patch = patch])
        PROVE  req'[r].op # "change"
    BY <1>0, <1>1, <2>1 DEF RequestStates
  <2>2. QED
    BY <1>3, <1>8, <2>1 DEF CreateKey
<1>9. CASE ListPresent(r)
  BY <1>0, <1>1, <1>9 DEF ListPresent, RequestStates
<1>10. CASE SetSourceText(r) \/ ListForChange(r) \/ NextChanged(r) \/ Flag(r) \/ FinishChange(r)
  BY <1>0, <1>10
     DEF SetSourceText, ListForChange, NextChanged, Flag, FinishChange, At, AtHand, StepOfOp,
         Filling, Writing, Asking
<1>11. CASE NextToFill(r) \/ NextToRetranslate(r)
  BY <1>0, <1>1, <1>11 DEF NextToFill, NextToRetranslate, RequestStates
<1>12. CASE FinishLoop(r)
  BY <1>3, <1>12 DEF FinishLoop
<1>13. ASSUME NEW p, NEW patch, Become(r, [q EXCEPT !.pc = p, !.patch = patch])
       PROVE  req'[r].op # "change"
  BY <1>0, <1>1, <1>13 DEF RequestStates
<1>14. CASE FindToFill(r)
  BY <1>3, <1>13, <1>14 DEF FindToFill
<1>15. CASE FindToRetranslate(r)
  <2> DEFINE l == LocaleOf(q.cell)
  <2>1. ASSUME NEW p, NEW patch,
               \/ Become(r, [[q EXCEPT !.pc = p, !.patch = patch]
                               EXCEPT !.rows[l] = removals[l]])
               \/ Become(r, [[q EXCEPT !.pc = p] EXCEPT !.rows[l] = removals[l]])
        PROVE  req'[r].op # "change"
    BY <1>0, <1>1, <2>1 DEF RequestStates
  <2>2. QED
    BY <1>3, <1>15, <2>1 DEF FindToRetranslate
<1>16. CASE Translated(r)
  BY <1>13, <1>16 DEF Translated
<1>17. CASE TranslationFailed(r)
  BY <1>3, <1>17 DEF TranslationFailed
<1>18. CASE Update(r) \/ Create(r) \/ Conflict(r)
  BY <1>3, <1>18 DEF Update, Create, Conflict
<1>19. CASE PlanPromotion(r) \/ NextPromoted(r)
  BY <1>0, <1>1, <1>19 DEF PlanPromotion, NextPromoted, RequestStates
<1>20. QED
  BY <1>4, <1>5, <1>6, <1>7, <1>8, <1>9, <1>10, <1>11, <1>12, <1>14, <1>15, <1>16, <1>17,
     <1>18, <1>19 DEF Work

\* A step of a request that is in no pass.
LEMMA SweepBeside ==
  ASSUME IInv, Sweeping, NEW r \in Requests, Work(r), req[r].op # "change"
  PROVE  Sweeping'
<1>0. TypeOK /\ AtHand(req[r]) /\ \A q \in Requests \ {r} : req'[q] = req[q]
  BY OthersWait DEF IInv
<1>1. req'[r].op = "change" => req'[r].pc = "setText" /\ req'[r].todo = {}
  BY PassBegins
<1>2. ~SetSourceText(r) /\ ~FinishChange(r)
  BY <1>0 DEF SetSourceText, FinishChange, At, AtHand, StepOfOp, Filling, Writing, Asking
<1>3. ~Passing(req'[r]) /\ (req'[r].op = "change" => req'[r].todo \subseteq Beside(req'[r]))
  BY <1>1 DEF Passing
<1>4. CASE CreateKey(r)
  <2> DEFINE k == KeyOf(req[r].cell)
  <2>1. k \in Keys /\ req[r].text # Absent /\ req[r].cell \in Cells
    BY <1>0, <1>4, CellParts, ConstantsAssumption
       DEF CreateKey, At, AtHand, StepOfOp, Filling, Writing, Asking
  <2>2. /\ UNCHANGED <<cell, basis, overtaken, latest, swept>>
        /\ UNCHANGED keyText
           \/ (keyText[k] \in {Absent, req[r].text} /\ keyText' = [keyText EXCEPT ![k] = req[r].text])
    BY <1>4 DEF CreateKey, history
  <2>3. \A j \in Keys : keyText[j] # Absent => keyText'[j] = keyText[j]
    BY <2>1, <2>2 DEF TypeOK, IInv
  <2>4. \A c \in Cells : Stale(c)' => Stale(c) \/ keyText[KeyOf(c)] = Absent
    BY <2>2, <2>3, CellParts DEF Stale
  <2>5. \A j \in Keys : keyText[j] = Absent => swept'[j] = {}
    BY <2>2 DEF Sweeping
  <2>6. QED
    BY <1>0, <1>3, <2>2, <2>3, <2>4, <2>5, SweepStep
<1>5. CASE ~CreateKey(r)
  <2>1. (\A d \in Cells : Stale(d)' => Stale(d)) /\ UNCHANGED <<keyText, latest, swept>>
    BY <1>2, <1>5, NothingGrowsStale
  <2>2. \A j \in Keys : keyText[j] = Absent => swept'[j] = {}
    BY <2>1 DEF Sweeping
  <2>3. QED
    BY <1>0, <1>3, <2>1, <2>2, SweepStep
<1>6. QED
  BY <1>4, <1>5

\* A request whose pass moves on within the same key and environment.
LEMMA PassMoves ==
  ASSUME IInv, Sweeping, NEW r \in Requests, req[r].op = "change", Passing(req[r]),
         Work(r), ~FinishChange(r),
         NEW local, Become(r, local),
         Beside(local) = Beside(req[r]), KeyOf(local.cell) = KeyOf(req[r].cell),
         local.todo \subseteq req[r].todo,
         \A c \in Cells : Stale(c)' /\ Due(req[r], c) => Due(local, c)
  PROVE  Sweeping'
<1>0. req'[r] = local /\ \A q \in Requests \ {r} : req'[q] = req[q]
  BY OthersWait DEF IInv, TypeOK, Become
<1>1. ~CreateKey(r) /\ ~SetSourceText(r)
  BY DEF IInv, AtHand, StepOfOp, CreateKey, SetSourceText, At, Passing, Filling, Writing, Asking
<1>2. (\A d \in Cells : Stale(d)' => Stale(d)) /\ UNCHANGED <<keyText, latest, swept>>
  BY <1>1, NothingGrowsStale
<1>3. \A k \in Keys : keyText[k] = Absent => swept'[k] = {}
  BY <1>2 DEF Sweeping
<1>4. local.todo \subseteq Beside(local)
  BY DEF Sweeping
<1>5. ASSUME latest[KeyOf(local.cell)] = r, NEW c \in Beside(local), Stale(c)'
      PROVE  Due(local, c)
  <2>1. c \in Cells /\ c \in Beside(req[r])
    BY <1>5 DEF Beside, CellsOf
  <2>2. Due(req[r], c)
    BY <1>2, <1>5, <2>1 DEF Sweeping
  <2>3. QED
    BY <1>5, <2>1, <2>2
<1>6. QED
  BY <1>0, <1>2, <1>3, <1>4, <1>5, SweepStep

\* A request that gives up leaves no pass behind.
LEMMA PassEnds ==
  ASSUME IInv, Sweeping, NEW r \in Requests, Work(r), Finish(r),
         ~CreateKey(r), ~SetSourceText(r), ~FinishChange(r)
  PROVE  Sweeping'
<1>0. req'[r] = Idle /\ \A q \in Requests \ {r} : req'[q] = req[q]
  BY OthersWait DEF IInv, TypeOK, Finish, Become
<1>1. ~Passing(req'[r]) /\ req'[r].op # "change"
  BY <1>0 DEF Passing, Idle
<1>2. (\A d \in Cells : Stale(d)' => Stale(d)) /\ UNCHANGED <<keyText, latest, swept>>
  BY NothingGrowsStale
<1>3. \A k \in Keys : keyText[k] = Absent => swept'[k] = {}
  BY <1>2 DEF Sweeping
<1>4. QED
  BY <1>0, <1>1, <1>2, <1>3, SweepStep

\* A step of a request that is in a pass.
LEMMA SweepWithin ==
  ASSUME IInv, Sweeping, NEW r \in Requests, Work(r), req[r].op = "change"
  PROVE  Sweeping'
<1> DEFINE q == req[r]
           k == KeyOf(q.cell)
           e == EnvOf(q.cell)
<1>0. /\ TypeOK /\ AtHand(q) /\ q \in RequestStates /\ q.cell \in Cells /\ q.op = "change"
      /\ \A p \in Requests \ {r} : req'[p] = req[p]
  BY OthersWait DEF IInv, AtHand, TypeOK
<1>1. k \in Keys /\ e \in Envs
  BY <1>0, CellParts
<1>2. q.todo \subseteq Beside(q)
  BY <1>0 DEF Sweeping
<1>3. ASSUME NEW local, Become(r, local)
      PROVE  req'[r] = local
  BY <1>0, <1>3 DEF TypeOK, Become
<1>4. q.op \notin Single /\ q.op \notin BestEffort
  BY <1>0 DEF Single, BestEffort
<1>5. CASE SetSourceText(r)
  <2> DEFINE local == [q EXCEPT !.pc = "list"]
  <2>1. /\ keyText' = [keyText EXCEPT ![k] = q.text]
        /\ latest' = [latest EXCEPT ![k] = r]
        /\ swept' = [swept EXCEPT ![k] = {}]
        /\ overtaken' = {c \in overtaken : KeyOf(c) # k}
        /\ UNCHANGED <<cell, basis>>
        /\ Become(r, local)
    BY <1>5 DEF SetSourceText, Goto
  <2>2. req'[r] = local /\ local.op = "change" /\ local.pc = "list"
        /\ local.todo = q.todo /\ local.cell = q.cell
    BY <1>0, <1>3, <2>1 DEF RequestStates
  <2>3. q.text # Absent
    BY <1>0, ConstantsAssumption DEF AtHand
  <2>4. ASSUME NEW j \in Keys, keyText'[j] = Absent
        PROVE  swept'[j] = {} /\ latest'[j] = Absent
    <3>1. j # k /\ keyText[j] = Absent
      BY <1>0, <1>1, <2>1, <2>3, <2>4 DEF TypeOK
    <3>2. swept'[j] = swept[j] /\ latest'[j] = latest[j]
      BY <1>0, <1>1, <2>1, <3>1 DEF TypeOK
    <3>3. QED
      BY <3>1, <3>2 DEF Sweeping
  <2>5. \A p \in Requests : req'[p].op = "change" => req'[p].todo \subseteq Beside(req'[p])
    BY <1>0, <1>2, <2>2 DEF Sweeping, Beside
  <2>6. ASSUME NEW c \in Cells, KeyOf(c) # k
        PROVE  Stale(c)' <=> Stale(c)
    <3>1. keyText'[KeyOf(c)] = keyText[KeyOf(c)]
      BY <1>0, <2>1, <2>6, CellParts DEF TypeOK
    <3>2. QED
      BY <2>1, <2>6, <3>1 DEF Stale
  <2>7. ASSUME NEW p \in Requests, Passing(req'[p]), latest'[KeyOf(req'[p].cell)] = p,
               NEW c \in Beside(req'[p]), Stale(c)'
        PROVE  Due(req'[p], c)
    <3>1. p # r
      BY <2>2, <2>7 DEF Passing
    <3>2. req'[p] = req[p] /\ req[p].cell \in Cells
      BY <1>0, <2>7, <3>1 DEF IInv, AtHand, Passing
    <3>3. KeyOf(req[p].cell) # k
      BY <1>0, <1>1, <2>1, <2>7, <3>1, <3>2 DEF TypeOK
    <3>4. latest[KeyOf(req[p].cell)] = p
      BY <1>0, <1>1, <2>1, <2>7, <3>2, <3>3, CellParts DEF TypeOK
    <3>5. c \in Cells /\ KeyOf(c) # k
      BY <2>7, <3>2, <3>3 DEF Beside, CellsOf
    <3>6. Stale(c)
      BY <2>6, <2>7, <3>5
    <3>7. QED
      BY <2>7, <3>2, <3>4, <3>6 DEF Sweeping
  <2>8. ASSUME NEW c \in Cells, EnvOf(c) \in swept'[KeyOf(c)]
        PROVE  ~Stale(c)'
    <3>1. KeyOf(c) # k
      BY <1>0, <1>1, <2>1, <2>8 DEF TypeOK
    <3>2. EnvOf(c) \in swept[KeyOf(c)]
      BY <1>0, <1>1, <2>1, <2>8, <3>1, CellParts DEF TypeOK
    <3>3. QED
      BY <2>6, <3>1, <3>2 DEF Sweeping
  <2>9. QED
    BY <2>4, <2>5, <2>7, <2>8 DEF Sweeping, Passing, Beside, CellsOf, Due
<1>6. CASE FinishChange(r)
  <2>1. /\ q.pc = "next" /\ q.todo = {} /\ UNCHANGED <<keyText, cell, basis, overtaken, latest>>
        /\ swept' = [swept EXCEPT ![k] = IF latest[k] = r THEN swept[k] \cup {e} ELSE swept[k]]
        /\ Finish(r)
    BY <1>6 DEF FinishChange, At
  <2>2. req'[r] = Idle /\ ~Passing(req'[r]) /\ req'[r].op # "change"
    BY <1>3, <2>1 DEF Finish, Passing, Idle
  <2>3. \A c \in Cells : Stale(c)' <=> Stale(c)
    BY <2>1 DEF Stale
  <2>4. ASSUME NEW c \in Cells, EnvOf(c) \in swept'[KeyOf(c)], EnvOf(c) \notin swept[KeyOf(c)]
        PROVE  ~Stale(c)
    <3>1. KeyOf(c) = k /\ EnvOf(c) = e /\ latest[k] = r
      BY <1>0, <1>1, <2>1, <2>4, CellParts DEF TypeOK
    <3>2. c \in Beside(q) /\ Passing(q)
      BY <1>0, <2>1, <3>1 DEF Beside, CellsOf, Passing
    <3>3. ~Due(q, c)
      BY <2>1 DEF Due
    <3>4. QED
      BY <3>1, <3>2, <3>3 DEF Sweeping
  <2>5. ASSUME NEW j \in Keys, keyText[j] = Absent
        PROVE  swept'[j] = {}
    <3>1. swept[j] = {} /\ latest[j] = Absent
      BY <2>5 DEF Sweeping
    <3>2. j = k => latest[k] # r
      BY <3>1, ConstantsAssumption
    <3>3. QED
      BY <1>0, <1>1, <2>1, <3>1, <3>2 DEF TypeOK
  <2>6. QED
    BY <1>0, <2>1, <2>2, <2>3, <2>4, <2>5, SweepStep
<1>7. CASE ListForChange(r)
  <2> DEFINE listed == {c \in CellsOf(k, e) : cell[c] # Absent}
             local == [q EXCEPT !.pc = "next", !.todo = listed,
                                !.human = {c \in listed : IsHumanOwned(cell[c])},
                                !.rows = removals]
  <2>1. Become(r, local) /\ Quiet
    BY <1>7 DEF ListForChange
  <2>2. req'[r] = local
    BY <1>3, <2>1
  <2>3. /\ local.cell = q.cell /\ local.todo = listed
        /\ local.human = {c \in listed : IsHumanOwned(cell[c])}
    BY <1>0 DEF RequestStates
  <2>4. Beside(local) = CellsOf(k, e)
    BY <2>3 DEF Beside
  <2>5. ~CreateKey(r) /\ ~SetSourceText(r) /\ ~FinishChange(r)
    BY <1>7 DEF ListForChange, CreateKey, SetSourceText, FinishChange, At
  <2>6. (\A d \in Cells : Stale(d)' => Stale(d)) /\ UNCHANGED <<keyText, latest, swept>>
    BY <2>5, NothingGrowsStale
  <2>7. \A c \in Beside(local) : Stale(c)' => Due(local, c)
    <3>1. ASSUME NEW c \in CellsOf(k, e), Stale(c)
          PROVE  c \in local.todo \cap local.human
      BY <2>3, <3>1 DEF Stale
    <3>2. QED
      BY <2>4, <2>6, <3>1 DEF Due, CellsOf
  <2>8. local.todo \subseteq Beside(local)
    BY <2>3, <2>4
  <2>9. \A j \in Keys : keyText[j] = Absent => swept'[j] = {}
    BY <2>6 DEF Sweeping
  <2> HIDE DEF local
  <2>10. QED
    BY <1>0, <2>2, <2>6, <2>7, <2>8, <2>9, SweepStep
<1>8. CASE NextChanged(r)
  <2>1. PICK c \in q.todo :
          LET local == [q EXCEPT !.cell = c, !.todo = q.todo \ {c}]
          IN  Become(r,
                IF c \in local.human THEN [local EXCEPT !.pc = "flag"]
                ELSE IF LocaleOf(c) = SourceLocale
                THEN [local EXCEPT !.pc = "update", !.patch = AsCode(SourceValue(local.text))]
                ELSE [local EXCEPT !.pc = "aiUpdate"])
    BY <1>8 DEF NextChanged
  <2>2. q.pc = "next" /\ Passing(q) /\ ~FinishChange(r)
    BY <1>0, <1>8 DEF NextChanged, FinishChange, At, Passing
  <2>3. PICK local :
          /\ Become(r, local)
          /\ local.cell = c /\ local.todo = q.todo \ {c} /\ local.human = q.human
          /\ c \in q.human => local.pc = "flag"
    <3>1. CASE c \in q.human
      <4> DEFINE new == [[q EXCEPT !.cell = c, !.todo = q.todo \ {c}] EXCEPT !.pc = "flag"]
      <4>1. Become(r, new)
        BY <1>0, <2>1, <3>1 DEF RequestStates
      <4>2. new.cell = c /\ new.todo = q.todo \ {c} /\ new.human = q.human /\ new.pc = "flag"
        BY <1>0 DEF RequestStates
      <4>3. QED
        BY <4>1, <4>2
    <3>2. CASE c \notin q.human /\ LocaleOf(c) = SourceLocale
      <4> DEFINE new == [[q EXCEPT !.cell = c, !.todo = q.todo \ {c}]
                           EXCEPT !.pc = "update", !.patch = AsCode(SourceValue(q.text))]
      <4>1. Become(r, new)
        BY <1>0, <2>1, <3>2 DEF RequestStates
      <4>2. new.cell = c /\ new.todo = q.todo \ {c} /\ new.human = q.human
        BY <1>0 DEF RequestStates
      <4>3. QED
        BY <3>2, <4>1, <4>2
    <3>3. CASE c \notin q.human /\ LocaleOf(c) # SourceLocale
      <4> DEFINE new == [[q EXCEPT !.cell = c, !.todo = q.todo \ {c}] EXCEPT !.pc = "aiUpdate"]
      <4>1. Become(r, new)
        BY <1>0, <2>1, <3>3 DEF RequestStates
      <4>2. new.cell = c /\ new.todo = q.todo \ {c} /\ new.human = q.human
        BY <1>0 DEF RequestStates
      <4>3. QED
        BY <3>3, <4>1, <4>2
    <3>4. QED
      BY <3>1, <3>2, <3>3
  <2>4. KeyOf(c) = k /\ EnvOf(c) = e
    BY <1>2 DEF Beside, CellsOf
  <2>5. Beside(local) = Beside(q) /\ KeyOf(local.cell) = KeyOf(q.cell)
    BY <2>3, <2>4 DEF Beside
  <2>6. \A d \in Cells : Due(q, d) => Due(local, d)
    BY <2>2, <2>3 DEF Due
  <2>7. QED
    BY <1>0, <2>2, <2>3, <2>5, <2>6, PassMoves
<1>9. CASE Flag(r)
  <2>1. q.pc = "flag" /\ Passing(q)
    BY <1>0, <1>9 DEF Flag, At, Passing
  <2>2. ~CreateKey(r) /\ ~SetSourceText(r) /\ ~FinishChange(r)
    BY <2>1 DEF CreateKey, SetSourceText, FinishChange, At
  <2>3. CASE Holds(r)
    <3> DEFINE local == [q EXCEPT !.pc = "next"]
    <3>1. Become(r, local)
      BY <1>4, <1>9, <2>3 DEF Flag, Continue, Goto
    <3>2. local.cell = q.cell /\ local.todo = q.todo /\ local.human = q.human
      BY <1>0 DEF RequestStates
    <3>3. PICK flagged \in Cells : flagged = q.cell
      BY <1>0
    <3>4. ~Stale(flagged)'
      <4>1. cell[flagged] \in Rows
        BY <1>0, <2>3, <3>3 DEF Holds, TypeOK
      <4>2. cell'[flagged].status = "needs-review"
        BY <1>0, <1>9, <2>3, <3>3, <4>1 DEF Flag, TypeOK, Rows
      <4>3. QED
        BY <4>2 DEF Stale
    <3>5. \A d \in Cells : Stale(d)' /\ Due(q, d) => Due(local, d)
      BY <3>2, <3>3, <3>4 DEF Due
    <3>6. Beside(local) = Beside(q) /\ KeyOf(local.cell) = KeyOf(q.cell)
          /\ local.todo \subseteq q.todo
      BY <3>2 DEF Beside
    <3> HIDE DEF local
    <3>7. QED
      BY <1>0, <2>1, <2>2, <3>1, <3>5, <3>6, PassMoves
  <2>4. CASE ~Holds(r)
    <3>1. Finish(r)
      BY <1>9, <2>4 DEF Flag
    <3>2. QED
      BY <2>2, <3>1, PassEnds
  <2>5. QED
    BY <2>3, <2>4
<1>10. CASE Translated(r)
  <2> DEFINE pc == IF At(r, "aiUpdate") THEN "update" ELSE "create"
             local == [q EXCEPT !.pc = pc, !.patch = AsAi(AiValue(q.text))]
  <2>1. Become(r, local) /\ q.pc \in {"aiUpdate", "aiCreate"}
    BY <1>10 DEF Translated
  <2>2. q.pc = "aiUpdate" /\ Passing(q) /\ ~FinishChange(r)
    BY <1>0, <2>1
       DEF AtHand, StepOfOp, Passing, FinishChange, At, Filling, Writing, Asking
  <2>3. local.cell = q.cell /\ local.todo = q.todo /\ local.human = q.human
    BY <1>0 DEF RequestStates
  <2>4. \A d \in Cells : Stale(d)' /\ Due(q, d) => Due(local, d)
    BY <2>2, <2>3 DEF Due
  <2>5. Beside(local) = Beside(q) /\ KeyOf(local.cell) = KeyOf(q.cell)
        /\ local.todo \subseteq q.todo
    BY <2>3 DEF Beside
  <2> HIDE DEF local
  <2>6. QED
    BY <1>0, <2>1, <2>2, <2>4, <2>5, PassMoves
<1>11. CASE TranslationFailed(r)
  <2>1. Finish(r) /\ q.pc \in {"aiUpdate", "aiCreate"}
    BY <1>4, <1>11 DEF TranslationFailed
  <2>2. ~CreateKey(r) /\ ~SetSourceText(r) /\ ~FinishChange(r)
    BY <2>1 DEF CreateKey, SetSourceText, FinishChange, At
  <2>3. QED
    BY <2>1, <2>2, PassEnds
<1>12. CASE Update(r)
  <2>1. q.pc = "update" /\ Passing(q)
    BY <1>0, <1>12 DEF Update, At, Passing
  <2>2. ~CreateKey(r) /\ ~SetSourceText(r) /\ ~FinishChange(r)
    BY <2>1 DEF CreateKey, SetSourceText, FinishChange, At
  <2>3. CASE Holds(r)
    <3> DEFINE local == [q EXCEPT !.pc = "next"]
    <3>1. Become(r, local)
      BY <1>4, <1>12, <2>3 DEF Update, Continue, Goto
    <3>2. local.cell = q.cell /\ local.todo = q.todo /\ local.human = q.human
      BY <1>0 DEF RequestStates
    <3>3. \A d \in Cells : Stale(d)' /\ Due(q, d) => Due(local, d)
      BY <2>1, <3>2 DEF Due
    <3>4. Beside(local) = Beside(q) /\ KeyOf(local.cell) = KeyOf(q.cell)
          /\ local.todo \subseteq q.todo
      BY <3>2 DEF Beside
    <3> HIDE DEF local
    <3>5. QED
      BY <1>0, <2>1, <2>2, <3>1, <3>3, <3>4, PassMoves
  <2>4. CASE ~Holds(r)
    <3>1. Finish(r)
      BY <1>12, <2>4 DEF Update
    <3>2. QED
      BY <2>2, <3>1, PassEnds
  <2>5. QED
    BY <2>3, <2>4
<1>13. \/ SetSourceText(r) \/ FinishChange(r) \/ ListForChange(r) \/ NextChanged(r) \/ Flag(r)
       \/ Translated(r) \/ TranslationFailed(r) \/ Update(r)
  <2>1. q.pc \in {"setText", "list", "next", "flag", "aiUpdate", "update"}
    BY <1>0 DEF AtHand, StepOfOp, Filling
  <2>2. ~FindForPerson(r) /\ ~ReadForAccept(r) /\ ~ReadForReview(r) /\ ~Confirm(r)
        /\ ~ClassifySync(r) /\ ~CreateKey(r) /\ ~ListPresent(r)
    BY <2>1 DEF FindForPerson, ReadForAccept, ReadForReview, Confirm, ClassifySync, CreateKey,
       ListPresent, At
  <2>3. ~NextToFill(r) /\ ~NextToRetranslate(r) /\ ~FinishLoop(r)
    BY <1>0 DEF NextToFill, NextToRetranslate, FinishLoop, Filling
  <2>4. ~FindToFill(r) /\ ~FindToRetranslate(r) /\ ~Create(r) /\ ~Conflict(r)
    BY <2>1 DEF FindToFill, FindToRetranslate, Create, Conflict, At
  <2>5. ~PlanPromotion(r) /\ ~NextPromoted(r)
    BY <1>0, <2>1 DEF PlanPromotion, NextPromoted, At
  <2>6. QED
    BY <2>2, <2>3, <2>4, <2>5 DEF Work
<1>14. QED
  BY <1>5, <1>6, <1>7, <1>8, <1>9, <1>10, <1>11, <1>12, <1>13

LEMMA SweepArrive ==
  ASSUME IInv, Sweeping, NEW r \in Requests, Arrive(r)
  PROVE  Sweeping'
<1>0. UNCHANGED <<cell, keyText, history>> /\ At(r, "idle")
  BY DEF Arrive, StartSave, StartAccept, StartReview, StartSync, StartFillLocale,
     StartFillSelection, StartRetranslate, StartPromotion, Quiet
<1>1. req[r].op # "change"
  BY <1>0 DEF IInv, AtHand, StepOfOp, At, Filling, Writing, Asking
<1>2. req'[r].op = "change" => req'[r].pc = "setText" /\ req'[r].todo = {}
  BY <1>1, PassBegins
<1>3. \A q \in Requests \ {r} : req'[q] = req[q]
  <2>1. \E local : Become(r, local)
    BY DEF Arrive, StartSave, StartAccept, StartReview, StartSync, StartFillLocale,
       StartFillSelection, StartRetranslate, StartPromotion
  <2>2. QED
    BY <2>1 DEF IInv, TypeOK, Become
<1>4. (\A d \in Cells : Stale(d)' => Stale(d)) /\ UNCHANGED <<keyText, latest, swept>>
  BY <1>0 DEF Stale, history
<1>5. \A k \in Keys : keyText[k] = Absent => swept'[k] = {}
  BY <1>4 DEF Sweeping
<1>6. ~Passing(req'[r]) /\ (req'[r].op = "change" => req'[r].todo \subseteq Beside(req'[r]))
  BY <1>2 DEF Passing
<1>7. QED
  BY <1>3, <1>4, <1>5, <1>6, SweepStep

LEMMA SweepRemove ==
  ASSUME IInv, Sweeping, NEW l \in Locales, RemoveLocale(l)
  PROVE  Sweeping'
<1>1. UNCHANGED <<keyText, req, latest, swept>>
  BY DEF RemoveLocale
<1>2. \A c \in Cells : Stale(c)' => Stale(c)
  BY DEF Stale, RemoveLocale
<1>3. ASSUME NEW q \in Requests, Passing(req[q]), latest[KeyOf(req[q].cell)] = q,
             NEW c \in Beside(req[q]), Stale(c)'
      PROVE  Due(req[q], c)
  BY <1>2, <1>3 DEF Sweeping, Beside, CellsOf
<1>4. QED
  BY <1>1, <1>2, <1>3 DEF Sweeping, Passing, Beside, CellsOf, Due

\* domain/translations/translation-service.ts:181-246: once handleSourceChange
\* has gone through an environment, whatever was saved, reviewed, translated
\* or removed during the pass, no human-owned text there counts as reviewed
\* that was last approved under an older source text.
THEOREM StaleReviewsStayFlagged == Spec => []StaleReviewsFlagged
<1>1. Init => Sweeping
  BY DEF Init, Sweeping, Idle, Stale, Passing, Cells, KeyOf
<1>2. IInv /\ Sweeping /\ [Next]_vars => Sweeping'
  <2> SUFFICES ASSUME IInv, Sweeping, [Next]_vars
               PROVE  Sweeping'
    OBVIOUS
  <2>1. CASE UNCHANGED vars
    BY <2>1 DEF vars, Sweeping, Stale, Passing, Beside, CellsOf, Due
  <2>2. QED
    BY <2>1, SweepArrive, SweepBeside, SweepWithin, SweepRemove DEF Next
<1>3. Sweeping => StaleReviewsFlagged
  BY DEF Sweeping, StaleReviewsFlagged, Stale
<1>4. QED
  BY <1>1, <1>2, <1>3, Invariance, PTL DEF Spec

-----------------------------------------------------------------------------
(* A saved text lands *)

\* A save that is to update a row, or that lost the race to create it, finds
\* the row there for as long as the locale was never removed.
Landing ==
  \A r \in Requests :
    /\ req[r].op = "save"
    /\ req[r].pc \in {"update", "conflict"}
    /\ removals[LocaleOf(req[r].cell)] = 0
    => cell[req[r].cell] # Absent

\* No step of a request takes a row away, or removes a locale.
LEMMA RowsStay ==
  ASSUME IInv, NEW r \in Requests, Arrive(r) \/ Work(r)
  PROVE  /\ UNCHANGED removals
         /\ \A c \in Cells : cell[c] # Absent => cell'[c] # Absent
<1> DEFINE q == req[r]
<1>0. TypeOK /\ AtHand(q) /\ cell \in [Cells -> Rows \cup {Absent}]
  BY DEF IInv, TypeOK
<1>1. ASSUME NEW c \in Cells, NEW row \in Rows, cell' = [cell EXCEPT ![c] = row]
      PROVE  \A d \in Cells : cell[d] # Absent => cell'[d] # Absent
  BY <1>0, <1>1, ConstantsAssumption
<1>2. ASSUME NEW c \in Cells, cell[c] # Absent, NEW status \in {"manual", "needs-review"},
             cell' = [cell EXCEPT ![c] = [cell[c] EXCEPT !.status = status]]
      PROVE  \A d \in Cells : cell[d] # Absent => cell'[d] # Absent
  <2>1. cell[c] \in Rows
    BY <1>0, <1>2
  <2>2. [cell[c] EXCEPT !.status = status] \in Rows
    BY <2>1 DEF Rows
  <2>3. QED
    BY <1>1, <1>2, <2>2
<1>3. CASE UNCHANGED cell /\ UNCHANGED removals
  BY <1>3
<1>4. CASE Update(r) \/ Create(r)
  <2>1. q.cell \in Cells /\ q.patch \in Rows /\ UNCHANGED removals
    BY <1>0, <1>4 DEF Update, Create, At, AtHand, Writing
  <2>2. UNCHANGED cell \/ cell' = [cell EXCEPT ![q.cell] = q.patch]
    BY <1>4 DEF Update, Create, Store
  <2>3. QED
    BY <1>1, <2>1, <2>2
<1>5. CASE Confirm(r)
  <2>1. q.cell \in Cells /\ UNCHANGED removals
    BY <1>0, <1>5 DEF Confirm, At, AtHand
  <2>2. \/ UNCHANGED cell
        \/ /\ cell[q.cell] # Absent
           /\ cell' = [cell EXCEPT ![q.cell] = [cell[q.cell] EXCEPT !.status = "manual"]]
    BY <1>5 DEF Confirm, Store, Holds
  <2>3. QED
    BY <1>2, <2>1, <2>2
<1>6. CASE Flag(r)
  <2>1. q.cell \in Cells /\ UNCHANGED removals
    BY <1>0, <1>6 DEF Flag, At, AtHand
  <2>2. \/ UNCHANGED cell
        \/ /\ cell[q.cell] # Absent
           /\ cell' = [cell EXCEPT ![q.cell] = [cell[q.cell] EXCEPT !.status = "needs-review"]]
    BY <1>6 DEF Flag, Holds
  <2>3. QED
    BY <1>2, <2>1, <2>2
<1>7. Arrive(r) => UNCHANGED cell /\ UNCHANGED removals
  BY DEF Arrive, StartSave, StartAccept, StartReview, StartSync, StartFillLocale,
     StartFillSelection, StartRetranslate, StartPromotion, Quiet
<1>8. \/ Update(r) \/ Create(r) \/ Confirm(r) \/ Flag(r)
      \/ Arrive(r)
      \/ UNCHANGED cell /\ UNCHANGED removals
  BY DEF Work, Quiet, FindForPerson, ReadForAccept, ReadForReview, ClassifySync, CreateKey,
     ListPresent, SetSourceText, ListForChange, NextChanged, FinishChange, NextToFill,
     NextToRetranslate, FinishLoop, FindToFill, FindToRetranslate, PlanPromotion,
     NextPromoted, Translated, TranslationFailed, Conflict
<1>9. QED
  BY <1>3, <1>4, <1>5, <1>6, <1>7, <1>8

\* What a step does to a save: it stays at the same cell with the same text,
\* with a row there when it is to update or has met a conflict, or it has
\* stored its text.
LEMMA SaveStep ==
  ASSUME IInv, Landing, NEW r \in Requests, Work(r), req[r].op = "save"
  PROVE  /\ req'[r].op = "save" =>
              /\ req'[r].cell = req[r].cell
              /\ req'[r].pc \in {"update", "conflict"} => cell[req[r].cell] # Absent
                                                          \/ removals[LocaleOf(req[r].cell)] # 0
         /\ req'[r].op # "save" =>
              removals[LocaleOf(req[r].cell)] # 0 \/ cell'[req[r].cell] = req[r].patch
<1> DEFINE q == req[r]
           c == q.cell
           l == LocaleOf(c)
<1>0. /\ TypeOK /\ AtHand(q) /\ Remembers(q) /\ q \in RequestStates
      /\ q.op = "save" /\ c \in Cells /\ l \in Locales
      /\ removals[l] \in Nat /\ q.rows[l] \in Nat
  <2>1. TypeOK /\ AtHand(q) /\ Remembers(q) /\ q \in RequestStates /\ q.op = "save"
    BY DEF IInv, TypeOK
  <2>2. c \in Cells
    BY <2>1 DEF AtHand, StepOfOp, Writing, Filling, Asking
  <2>3. l \in Locales
    BY <2>2, CellParts
  <2>4. QED
    BY <2>1, <2>2, <2>3 DEF TypeOK, RequestStates
<1>1. ASSUME NEW local, Become(r, local)
      PROVE  req'[r] = local
  BY <1>0, <1>1 DEF TypeOK, Become
<1>2. q.patch = AsManual(q.patch.value) /\ ~IsAutomatic(q.patch)
  BY <1>0 DEF AtHand, AsManual, IsAutomatic
<1>3. ASSUME NEW pc, Goto(r, pc) \/ WithRow(r, pc)
      PROVE  req'[r].op = "save" /\ req'[r].cell = c /\ req'[r].pc = pc
  <2>1. CASE Goto(r, pc)
    BY <1>0, <1>1, <2>1 DEF Goto, RequestStates
  <2>2. CASE WithRow(r, pc)
    BY <1>0, <1>1, <2>2 DEF WithRow, RequestStates
  <2>3. QED
    BY <1>3, <2>1, <2>2
<1>4. CASE FindForPerson(r)
  <2>1. (cell[c] = Absent /\ Goto(r, "create")) \/ (cell[c] # Absent /\ WithRow(r, "update"))
    BY <1>0, <1>4 DEF FindForPerson
  <2>2. QED
    BY <1>3, <2>1
<1>5. CASE Update(r)
  <2>1. CASE Holds(r)
    <3>1. Finish(r) /\ Store(r, c, q.patch)
      BY <1>0, <1>2, <1>5, <2>1 DEF Update, Preserves, Continue, Single
    <3>2. req'[r].op # "save" /\ cell'[c] = q.patch
      BY <1>0, <1>1, <3>1 DEF Finish, Idle, Store, TypeOK
    <3>3. QED
      BY <3>2
  <2>2. CASE ~Holds(r)
    <3>1. Finish(r) /\ q.pc = "update"
      BY <1>5, <2>2 DEF Update, At
    <3>2. removals[l] = 0 => cell[c] # Absent
      BY <1>0, <3>1 DEF Landing
    <3>3. removals[l] = 0 => q.rows[l] = removals[l]
      BY <1>0 DEF Remembers
    <3>4. removals[l] # 0
      BY <2>2, <3>2, <3>3 DEF Holds
    <3>5. req'[r].op # "save"
      BY <1>1, <3>1 DEF Finish, Idle
    <3>6. QED
      BY <3>4, <3>5
  <2>3. QED
    BY <2>1, <2>2
<1>6. CASE Create(r)
  <2>1. CASE cell[c] = Absent
    <3>1. Finish(r) /\ Store(r, c, q.patch)
      BY <1>0, <1>6, <2>1 DEF Create, Continue, Single
    <3>2. req'[r].op # "save" /\ cell'[c] = q.patch
      BY <1>0, <1>1, <3>1 DEF Finish, Idle, Store, TypeOK
    <3>3. QED
      BY <3>2
  <2>2. CASE cell[c] # Absent
    BY <1>3, <1>6, <2>2 DEF Create
  <2>3. QED
    BY <2>1, <2>2
<1>7. CASE Conflict(r)
  <2>1. CASE cell[c] = Absent
    <3>1. removals[l] # 0
      BY <1>0, <1>7, <2>1 DEF Landing, Conflict, At
    <3>2. req'[r].op # "save"
      BY <1>1, <1>7, <2>1 DEF Conflict, Finish, Idle
    <3>3. QED
      BY <3>1, <3>2
  <2>2. CASE cell[c] # Absent
    BY <1>2, <1>3, <1>7, <2>2 DEF Conflict
  <2>3. QED
    BY <2>1, <2>2
<1>8. FindForPerson(r) \/ Update(r) \/ Create(r) \/ Conflict(r)
  <2>1. q.pc \in {"find", "update", "create", "conflict"}
    BY <1>0 DEF AtHand, StepOfOp, Writing, Filling
  <2>2. ~ReadForAccept(r) /\ ~ReadForReview(r) /\ ~Confirm(r) /\ ~ClassifySync(r)
        /\ ~CreateKey(r) /\ ~ListPresent(r) /\ ~SetSourceText(r) /\ ~ListForChange(r)
    BY <1>0, <2>1 DEF ReadForAccept, ReadForReview, Confirm, ClassifySync, CreateKey,
       ListPresent, SetSourceText, ListForChange, At
  <2>3. ~NextChanged(r) /\ ~Flag(r) /\ ~FinishChange(r) /\ ~NextToFill(r)
        /\ ~NextToRetranslate(r) /\ ~FinishLoop(r)
    BY <2>1 DEF NextChanged, Flag, FinishChange, NextToFill, NextToRetranslate, FinishLoop, At
  <2>4. ~FindToFill(r) /\ ~FindToRetranslate(r) /\ ~Translated(r) /\ ~TranslationFailed(r)
    BY <1>0, <2>1
       DEF FindToFill, FindToRetranslate, Translated, TranslationFailed, At, Filling
  <2>5. ~PlanPromotion(r) /\ ~NextPromoted(r)
    BY <1>0, <2>1 DEF PlanPromotion, NextPromoted, At
  <2>6. QED
    BY <2>2, <2>3, <2>4, <2>5 DEF Work
<1>9. QED
  BY <1>4, <1>5, <1>6, <1>7, <1>8

\* A request does not become a save on its way.
LEMMA SaveBegins ==
  ASSUME IInv, NEW r \in Requests, Work(r), req[r].op # "save"
  PROVE  req'[r].op # "save"
<1> DEFINE q == req[r]
<1>0. TypeOK /\ AtHand(q) /\ q \in RequestStates
  BY DEF IInv, TypeOK
<1>1. CASE q.op # "accept"
  <2>1. CASE NextPromoted(r)
    BY <1>0, <2>1 DEF NextPromoted, Become, RequestStates, TypeOK
  <2>2. CASE q.op = "promote" /\ ~NextPromoted(r)
    BY <2>2, PromotionStep DEF Idle
  <2>3. CASE q.op # "promote"
    <3>1. ~NextPromoted(r) /\ ~Submitted(r)
      BY <1>1, <2>3 DEF NextPromoted, Submitted
    <3>2. QED
      BY <3>1, MachineStep DEF Submitted
  <2>4. QED
    BY <2>1, <2>2, <2>3
<1>2. CASE q.op = "accept"
  <2>1. ASSUME NEW local, Become(r, local), local.op # "save"
        PROVE  req'[r].op # "save"
    BY <1>0, <2>1 DEF TypeOK, Become
  <2>2. Finish(r) => req'[r].op # "save"
    BY <2>1 DEF Finish, Idle
  <2>3. ASSUME NEW pc, Goto(r, pc) \/ WithRow(r, pc)
        PROVE  req'[r].op # "save"
    <3>1. Goto(r, pc) => req'[r].op # "save"
      BY <1>0, <1>2, <2>1 DEF Goto, RequestStates
    <3>2. WithRow(r, pc) => req'[r].op # "save"
      BY <1>0, <1>2, <2>1 DEF WithRow, RequestStates
    <3>3. QED
      BY <2>3, <3>1, <3>2
  <2>4. CASE FindForPerson(r)
    BY <1>2, <2>3, <2>4 DEF FindForPerson
  <2>5. CASE ReadForAccept(r)
    <3>1. ASSUME NEW patch, Become(r, [q EXCEPT !.pc = "update", !.patch = patch])
          PROVE  req'[r].op # "save"
      BY <1>0, <1>2, <2>1, <3>1 DEF RequestStates
    <3>2. QED
      BY <2>2, <2>5, <3>1 DEF ReadForAccept
  <2>6. CASE Update(r) \/ Create(r) \/ Conflict(r)
    BY <1>2, <2>2, <2>3, <2>6 DEF Update, Create, Conflict, Continue, Single
  <2>7. FindForPerson(r) \/ ReadForAccept(r) \/ Update(r) \/ Create(r) \/ Conflict(r)
    <3>1. q.pc \in {"find", "read", "update", "create", "conflict"}
      BY <1>0, <1>2 DEF AtHand, StepOfOp, Writing, Filling
    <3>2. ~ReadForReview(r) /\ ~Confirm(r) /\ ~ClassifySync(r)
          /\ ~CreateKey(r) /\ ~ListPresent(r) /\ ~SetSourceText(r) /\ ~ListForChange(r)
      BY <1>2, <3>1 DEF ReadForReview, Confirm, ClassifySync, CreateKey, ListPresent,
         SetSourceText, ListForChange, At
    <3>3. ~NextChanged(r) /\ ~Flag(r) /\ ~FinishChange(r) /\ ~NextToFill(r)
          /\ ~NextToRetranslate(r) /\ ~FinishLoop(r)
      BY <3>1 DEF NextChanged, Flag, FinishChange, NextToFill, NextToRetranslate, FinishLoop, At
    <3>4. ~FindToFill(r) /\ ~FindToRetranslate(r) /\ ~Translated(r) /\ ~TranslationFailed(r)
      BY <1>2, <3>1
         DEF FindToFill, FindToRetranslate, Translated, TranslationFailed, At, Filling
    <3>5. ~PlanPromotion(r) /\ ~NextPromoted(r)
      BY <1>2, <3>1 DEF PlanPromotion, NextPromoted, At
    <3>6. QED
      BY <3>2, <3>3, <3>4, <3>5 DEF Work
  <2>8. QED
    BY <2>4, <2>5, <2>6, <2>7
<1>3. QED
  BY <1>1, <1>2

\* An arriving save has yet to look for its row.
LEMMA ArriveFinds ==
  ASSUME IInv, NEW r \in Requests, Arrive(r)
  PROVE  /\ req[r].op # "save"
         /\ req'[r].pc \notin {"update", "conflict"}
         /\ \A p \in Requests \ {r} : req'[p] = req[p]
<1>0. TypeOK /\ AtHand(req[r])
  BY DEF IInv
<1>1. req[r].pc = "idle"
  BY DEF Arrive, StartSave, StartAccept, StartReview, StartSync, StartFillLocale,
     StartFillSelection, StartRetranslate, StartPromotion, At
<1>2. req[r].op # "save"
  BY <1>0, <1>1 DEF AtHand, StepOfOp, Writing
<1>3. ASSUME NEW local, Become(r, local)
      PROVE  req'[r] = local
  BY <1>0, <1>3 DEF TypeOK, Become
<1>4. req'[r].pc \notin {"update", "conflict"}
  <2>1. ASSUME NEW c \in Cells, NEW i \in Inputs, StartSave(r, c, i) \/ StartAccept(r, c, i)
        PROVE  req'[r].pc \notin {"update", "conflict"}
    BY <1>3, <2>1 DEF StartSave, StartAccept, Idle
  <2>2. ASSUME NEW c \in Cells, StartReview(r, c)
        PROVE  req'[r].pc \notin {"update", "conflict"}
    BY <1>3, <2>2 DEF StartReview, Idle
  <2>3. ASSUME NEW k \in Keys, NEW e \in Envs, NEW t \in Texts, StartSync(r, k, e, t)
        PROVE  req'[r].pc \notin {"update", "conflict"}
    BY <1>3, <2>3 DEF StartSync, Idle
  <2>4. ASSUME NEW e \in Envs, NEW l \in Locales, StartFillLocale(r, e, l)
        PROVE  req'[r].pc \notin {"update", "conflict"}
    BY <1>3, <2>4 DEF StartFillLocale, Idle
  <2>5. ASSUME NEW k \in Keys, NEW e \in Envs, NEW targets \in SUBSET Locales,
               StartFillSelection(r, k, e, targets)
        PROVE  req'[r].pc \notin {"update", "conflict"}
    BY <1>3, <2>5 DEF StartFillSelection, Idle
  <2>6. ASSUME NEW k \in Keys, NEW e \in Envs, NEW targets \in SUBSET Locales,
               NEW from \in Locales, StartRetranslate(r, k, e, targets, from)
        PROVE  req'[r].pc \notin {"update", "conflict"}
    BY <1>3, <2>6 DEF StartRetranslate, Idle
  <2>7. ASSUME NEW e \in Envs, NEW bundle \in Bundles, StartPromotion(r, e, bundle)
        PROVE  req'[r].pc \notin {"update", "conflict"}
    BY <1>3, <2>7 DEF StartPromotion, Idle
  <2>8. QED
    BY <2>1, <2>2, <2>3, <2>4, <2>5, <2>6, <2>7 DEF Arrive
<1>5. \A p \in Requests \ {r} : req'[p] = req[p]
  <2>1. \E local : Become(r, local)
    BY DEF Arrive, StartSave, StartAccept, StartReview, StartSync, StartFillLocale,
       StartFillSelection, StartRetranslate, StartPromotion
  <2>2. QED
    BY <1>0, <2>1 DEF TypeOK, Become
<1>6. QED
  BY <1>2, <1>4, <1>5

LEMMA LandingHolds == IInv /\ Landing /\ [Next]_vars => Landing'
<1> SUFFICES ASSUME IInv, Landing, [Next]_vars,
                    NEW p \in Requests, req'[p].op = "save",
                    req'[p].pc \in {"update", "conflict"},
                    removals'[LocaleOf(req'[p].cell)] = 0
             PROVE  cell'[req'[p].cell] # Absent
  BY DEF Landing
<1>0. TypeOK /\ AtHand(req[p])
  BY DEF IInv
<1>1. ASSUME req'[p] = req[p]
      PROVE  req[p].cell \in Cells
  BY <1>0, <1>1 DEF AtHand, Writing
<1>2. CASE UNCHANGED vars
  BY <1>2 DEF vars, Landing
<1>3. ASSUME NEW r \in Requests, Arrive(r) \/ Work(r), p # r
      PROVE  cell'[req'[p].cell] # Absent
  <2>1. req'[p] = req[p]
    BY <1>3, ArriveFinds, OthersWait
  <2>2. removals' = removals /\ \A c \in Cells : cell[c] # Absent => cell'[c] # Absent
    BY <1>3, RowsStay
  <2>3. QED
    BY <1>1, <2>1, <2>2 DEF Landing
<1>4. ASSUME Work(p)
      PROVE  cell'[req'[p].cell] # Absent
  <2>1. req[p].op = "save"
    BY <1>4, SaveBegins
  <2>2. req'[p].cell = req[p].cell
        /\ (cell[req[p].cell] # Absent \/ removals[LocaleOf(req[p].cell)] # 0)
    BY <1>4, <2>1, SaveStep
  <2>3. req[p].cell \in Cells
    BY <1>0, <2>1 DEF AtHand, StepOfOp, Writing, Filling, Asking
  <2>4. removals' = removals /\ \A c \in Cells : cell[c] # Absent => cell'[c] # Absent
    BY <1>4, RowsStay
  <2>5. QED
    BY <2>2, <2>3, <2>4
<1>5. Arrive(p) => FALSE
  BY ArriveFinds
<1>6. ASSUME NEW l \in Locales, RemoveLocale(l)
      PROVE  cell'[req'[p].cell] # Absent
  <2>1. req'[p] = req[p] /\ removals \in [Locales -> Nat]
    BY <1>0, <1>6 DEF RemoveLocale, TypeOK
  <2>2. PICK c \in Cells : c = req[p].cell
    BY <1>1, <2>1
  <2>3. LocaleOf(c) \in Locales
    BY CellParts
  <2>4. LocaleOf(c) # l /\ removals[LocaleOf(c)] = 0
    BY <1>6, <2>1, <2>2, <2>3 DEF RemoveLocale
  <2>5. cell'[c] = cell[c]
    BY <1>6, <2>4 DEF RemoveLocale
  <2>6. QED
    BY <2>1, <2>2, <2>4, <2>5 DEF Landing
<1>7. QED
  BY <1>2, <1>3, <1>4, <1>5, <1>6 DEF Next

\* domain/translations/translation-service.ts:93-122 and the repository's
\* createTranslation: a save that is answered has stored the person's text,
\* whoever created the row first, unless the locale was removed.
THEOREM SavedTextsLand == Spec => SavedTextLands
<1>1. Init => Landing
  BY DEF Init, Landing, Idle
<1>2. IInv /\ Landing /\ [Next]_vars
        => [\A r \in Requests :
              LET c == req[r].cell
              IN  (req[r].op = "save" /\ req'[r].op # "save" /\ removals[LocaleOf(c)] = 0)
                    => cell'[c] = req[r].patch]_vars
  <2> SUFFICES ASSUME IInv, Landing, Next,
                      NEW p \in Requests, req[p].op = "save", req'[p].op # "save",
                      removals[LocaleOf(req[p].cell)] = 0
               PROVE  cell'[req[p].cell] = req[p].patch
    OBVIOUS
  <2>1. ASSUME NEW r \in Requests, Arrive(r)
        PROVE  FALSE
    BY <2>1, ArriveFinds
  <2>2. ASSUME NEW r \in Requests, Work(r)
        PROVE  cell'[req[p].cell] = req[p].patch
    <3>1. r = p
      BY <2>2, OthersWait
    <3>2. QED
      BY <2>2, <3>1, SaveStep
  <2>3. ASSUME NEW l \in Locales, RemoveLocale(l)
        PROVE  FALSE
    BY <2>3 DEF RemoveLocale
  <2>4. QED
    BY <2>1, <2>2, <2>3 DEF Next
<1>3. QED
  BY <1>1, <1>2, Invariance, LandingHolds, PTL DEF Spec, SavedTextLands
=============================================================================
