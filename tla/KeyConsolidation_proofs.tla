----------------------- MODULE KeyConsolidation_proofs -----------------------
(* What merges, renames and syncs keep, for any names, texts and requests:  *)
(* no two keys get one name, and a person's text is not lost.  The reason   *)
(* for the latter is that a merge which is not raced has read every         *)
(* person's text it is about to delete, and has given the target one        *)
(* before it deletes any (Keeps); two merges at once are raced (Exclusive). *)
(* And that a sync nothing runs beside takes effect: at each of its steps   *)
(* it holds the row, or the alias, that answers for its name (Course).      *)
(* And that merged names resolve: no alias is ever put where it closes a    *)
(* circle, and all end at a name that answers for them (Chains).            *)
EXTENDS KeyConsolidation, FiniteSetTheorems, WellFoundedInduction, TLAPS

MetaTables == [Names -> Maybe(Metas)]

Stored ==
  /\ row \in [Ids -> Maybe(Rows)] /\ created \in 0..MaxRows
  /\ \A i \in Ids : row[i] # None => i <= created
  /\ \A i, j \in Live : row[i].name = row[j].name => i = j
  /\ meta \in MetaTables

Merges(q) == q.pc \in {"target", "consolidate", "fill", "delete", "markTarget", "mark"}
Syncs(q) == q.pc \in {"lookup", "detect", "touch", "change", "rename", "renameMeta", "create",
                      "detectNew", "fillNew", "deprecate", "synced"}

\* What a request holds in its phases.
Shape(q) ==
  /\ Syncs(q) => q.name \in Names /\ q.text \in Texts
  /\ q.pc \in {"touch", "change", "rename", "renameMeta", "detectNew", "fillNew"} => q.from \in Ids
  /\ q.pc \in {"rename", "renameMeta"} => q.old \in Names
  /\ q.pc = "detect" => q.into \in Names
  /\ Merges(q) => q.into \in Names /\ q.text \in Texts
  /\ Merges(q) /\ q.pc # "target" => q.target \in Ids
  /\ q.pc = "delete" => q.target \notin q.sources

HumanAt(i) == row[i] # None /\ IsHuman(row[i].cell)

\* A merge has read every person's text it will delete, and the target has one
\* once the texts are consolidated.
Keeps(q) ==
  Merges(q) /\ ~q.raced =>
    /\ \A i \in q.sources : i # q.target /\ HumanAt(i) => IsHuman(q.read[i])
    /\ q.pc \in {"fill", "delete"} /\ (\E i \in Ids : IsHuman(q.read[i])) => HumanAt(q.target)

Exclusive == \A r, q \in Requests : r # q /\ Merging(r) /\ Merging(q) => request[r].raced

IInv ==
  /\ TypeOK /\ Exclusive
  /\ \A r \in Requests : Shape(request[r]) /\ Keeps(request[r])

\* No person's text comes or goes.
Calm ==
  \A i \in Ids : /\ HumanAt(i)' <=> HumanAt(i)
                 /\ HumanAt(i) => row'[i].cell.by = row[i].cell.by

\* What HumanTextsKept says of a step.
TextsKept ==
  \A by \in 1..saves :
    Held(by) /\ ~Held(by)' =>
      \/ saves' > saves
      \/ \E r \in Requests :
           /\ Merging(r)
           /\ \/ request[r].raced
              \/ \E i \in Ids \cap {request[r].target} : row'[i] # None /\ IsHuman(row'[i].cell)
-----------------------------------------------------------------------------
(* Types *)

LEMMA TypeParts ==
  TypeOK <=> /\ Stored /\ request \in [Requests -> RequestStates]
             /\ made \in Nat /\ saves \in 0..MaxSaves
             /\ merged \subseteq Names /\ lost \subseteq Names /\ mergeRaced \in BOOLEAN
BY DEF TypeOK, Stored, MetaTables

LEMMA IdleType ==
  /\ NoCell \in Cells /\ Machine \in Cells /\ ~IsHuman(NoCell) /\ ~IsHuman(Machine)
  /\ Idle \in RequestStates /\ Idle.pc = "idle" /\ ~Merges(Idle) /\ Shape(Idle)
  /\ Idle.read \in [Ids -> Cells]
<1>1. NoCell \in Cells /\ Machine \in Cells /\ ~IsHuman(NoCell) /\ ~IsHuman(Machine)
      BY ConstantsAssumption DEF NoCell, Machine, Cells, IsHuman
<1>2. NothingRead \in [Ids -> Cells]
      BY <1>1 DEF NothingRead
<1>3. Idle \in RequestStates /\ Idle.pc = "idle" /\ Idle.read = NothingRead
      BY <1>2 DEF Idle, RequestStates, Maybe
<1>4. ~Merges(Idle) /\ Shape(Idle)
      BY <1>3 DEF Merges, Syncs, Shape
<1> QED BY <1>1, <1>2, <1>3, <1>4

LEMMA LiveRow ==
  ASSUME Stored, NEW i \in Ids, row[i] # None
  PROVE  /\ row[i] \in Rows /\ row[i].name \in Names /\ row[i].text \in Texts /\ row[i].cell \in Cells
         /\ i \in Live
BY DEF Stored, Maybe, Rows, Live

LEMMA DetectionType ==
  ASSUME meta \in MetaTables, NEW n \in Names, NEW usage \in BOOLEAN, NEW m \in Detection(n, usage)
  PROVE  m \in MetaTables
<1>1. CASE meta[n] = None
  <2> DEFINE new == [deprecated |-> FALSE, replacement |-> None, used |-> usage]
  <2>1. m = [meta EXCEPT ![n] = new]
        BY <1>1 DEF Detection
  <2>2. new \in Maybe(Metas)
        BY DEF Metas, Maybe
  <2> HIDE DEF new
  <2> QED BY <2>1, <2>2 DEF MetaTables
<1>2. CASE meta[n] # None
  <2> DEFINE used == meta[n].used \/ usage
             new == [meta[n] EXCEPT !.deprecated = FALSE, !.used = used]
  <2>1. m = meta \/ m = [meta EXCEPT ![n] = new]
        BY <1>2 DEF Detection, MetaTables
  <2>2. used \in BOOLEAN
        OBVIOUS
  <2> HIDE DEF used
  <2>3. meta[n] \in Metas
        BY <1>2 DEF MetaTables, Maybe
  <2>4. new \in Maybe(Metas)
        BY <2>2, <2>3 DEF Metas, Maybe
  <2> HIDE DEF new
  <2> QED BY <2>1, <2>4 DEF MetaTables
<1> QED BY <1>1, <1>2
-----------------------------------------------------------------------------
(* Tables *)

LEMMA SameRows ==
  ASSUME Stored, UNCHANGED <<row, created>>, meta' \in MetaTables
  PROVE  Stored' /\ Calm
BY DEF Stored, Live, Calm, HumanAt

LEMMA RowIsStored ==
  ASSUME Stored, NEW i \in Ids, row[i] # None, NEW new \in Rows,
         \A j \in Live : row[j].name = new.name => j = i,
         row' = [row EXCEPT ![i] = new], created' = created, meta' \in MetaTables
  PROVE  Stored' /\ new # None /\ \A j \in Ids : row'[j] = IF j = i THEN new ELSE row[j]
<1>1. new # None
      BY ConstantsAssumption DEF Rows
<1>2. \A j \in Ids : row'[j] = IF j = i THEN new ELSE row[j]
      BY DEF Stored
<1>3. row' \in [Ids -> Maybe(Rows)]
      BY DEF Stored, Maybe
<1>4. Live' = Live
      BY <1>1, <1>2 DEF Live
<1>5. \A j, k \in Live : row'[j].name = row'[k].name => j = k
      BY <1>2 DEF Stored, Live
<1>6. Stored'
      BY <1>2, <1>3, <1>4, <1>5 DEF Stored
<1> QED BY <1>1, <1>2, <1>6

LEMMA RowChanges ==
  ASSUME Stored, NEW i \in Ids, row[i] # None, NEW new \in Rows,
         IsHuman(new.cell) <=> IsHuman(row[i].cell),
         IsHuman(row[i].cell) => new.cell.by = row[i].cell.by,
         \A j \in Live : row[j].name = new.name => j = i,
         row' = [row EXCEPT ![i] = new], created' = created, meta' \in MetaTables
  PROVE  Stored' /\ Calm
<1>1. Stored' /\ new # None /\ \A j \in Ids : row'[j] = IF j = i THEN new ELSE row[j]
      BY RowIsStored
<1>2. Calm
      BY <1>1 DEF Calm, HumanAt
<1> QED BY <1>1, <1>2

LEMMA RowIsGone ==
  ASSUME Stored, NEW i \in Ids, row' = [row EXCEPT ![i] = None], created' = created, meta' \in MetaTables
  PROVE  Stored' /\ \A j \in Ids : row'[j] = IF j = i THEN None ELSE row[j]
<1>1. \A j \in Ids : row'[j] = IF j = i THEN None ELSE row[j]
      BY DEF Stored
<1>2. row' \in [Ids -> Maybe(Rows)] /\ Live' \subseteq Live
      BY <1>1 DEF Stored, Maybe, Live
<1>3. \A j, k \in Live' : row'[j].name = row'[k].name => j = k
      BY <1>1, <1>2 DEF Stored, Live
<1> QED BY <1>1, <1>2, <1>3 DEF Stored

LEMMA RowIsNew ==
  ASSUME Stored, created < MaxRows, NEW n \in Names, NEW text \in Texts, Named(n) = {},
         row' = [row EXCEPT ![created + 1] = NewRow(n, text)], created' = created + 1,
         meta' \in MetaTables
  PROVE  Stored' /\ Calm /\ created + 1 \in Ids
<1> DEFINE i == created + 1
           new == NewRow(n, text)
<1>1. created \in Nat /\ i \in Ids /\ row[i] = None /\ created' \in 0..MaxRows
      BY ConstantsAssumption DEF Stored, Ids
<1>2. new \in Rows /\ new.name = n /\ ~IsHuman(new.cell)
      BY IdleType DEF NewRow, Rows
<1>3. new # None
      BY <1>2, ConstantsAssumption DEF Rows
<1>4. created' = i /\ row' = [row EXCEPT ![i] = new]
      OBVIOUS
<1> HIDE DEF i, new
<1>5. \A j \in Ids : row'[j] = IF j = i THEN new ELSE row[j]
      BY <1>1, <1>4 DEF Stored
<1>6. row' \in [Ids -> Maybe(Rows)]
      BY <1>1, <1>2, <1>4 DEF Stored, Maybe
<1>7. \A j \in Ids : row'[j] # None => j <= created'
  <2>1. \A j \in Ids : j # i => (row[j] # None => j <= created)
        BY DEF Stored
  <2>2. created <= i /\ \A j \in Ids : j <= created => j <= i
        BY <1>1 DEF i, Ids
  <2> QED BY <1>1, <1>4, <1>5, <2>1, <2>2 DEF Ids
<1>8. Live' = Live \cup {i} /\ i \notin Live
      BY <1>1, <1>3, <1>5 DEF Live
<1>9. \A j \in Live : row[j].name # n
      BY DEF Named
<1>10. \A j, k \in Live' : row'[j].name = row'[k].name => j = k
       BY <1>1, <1>2, <1>5, <1>8, <1>9 DEF Stored, Live
<1>11. Stored'
       BY <1>1, <1>6, <1>7, <1>10 DEF Stored
<1>12. Calm
       BY <1>1, <1>2, <1>5 DEF Calm, HumanAt
<1> QED BY <1>1, <1>11, <1>12 DEF i
-----------------------------------------------------------------------------
(* Steps *)

LEMMA RequestTyped ==
  ASSUME IInv, NEW r \in Requests
  PROVE  /\ request[r] \in RequestStates /\ Shape(request[r]) /\ Keeps(request[r])
         /\ Stored /\ meta \in MetaTables
BY TypeParts DEF IInv, Stored

\* A calm step keeps the texts, whoever takes it.
LEMMA CalmKeepsTexts ==
  ASSUME Calm
  PROVE  TextsKept
<1> SUFFICES ASSUME NEW by \in 1..saves, Held(by) PROVE Held(by)'
    BY DEF TextsKept
<1>1. PICK i \in Live : IsHuman(row[i].cell) /\ row[i].cell.by = by
      BY DEF Held
<1>2. i \in Ids /\ HumanAt(i)
      BY <1>1 DEF Live, HumanAt
<1>3. HumanAt(i)' /\ row'[i].cell.by = by
      BY <1>1, <1>2 DEF Calm
<1>4. i \in Live' /\ IsHuman(row'[i].cell)
      BY <1>2, <1>3 DEF Live, HumanAt, IsHuman
<1> QED BY <1>3, <1>4 DEF Held, IsHuman

\* What is left to say of a step: the state its request goes to is fit for
\* what it did.  Only a merge may change what is human.
LEMMA GoKeeps ==
  ASSUME IInv, NEW r \in Requests, NEW local \in RequestStates, Shape(local),
         request' = [request EXCEPT ![r] = local],
         Stored', UNCHANGED <<made, saves, mergeRaced>>, merged' \subseteq Names, lost' \subseteq Names,
         Calm \/ Merging(r),
         Merges(local) => Merging(r) /\ local.raced = request[r].raced /\ Keeps(local)'
  PROVE  IInv'
<1>1. request \in [Requests -> RequestStates] /\ made \in Nat /\ saves \in 0..MaxSaves
      /\ mergeRaced \in BOOLEAN
      BY TypeParts DEF IInv
<1>2. /\ request' \in [Requests -> RequestStates] /\ request'[r] = local
      /\ \A q \in Requests : q # r => request'[q] = request[q]
      BY <1>1
<1>3. TypeOK'
  <2>1. /\ request' \in [Requests -> RequestStates]
        /\ made' \in Nat /\ saves' \in 0..MaxSaves
        /\ merged' \subseteq Names /\ lost' \subseteq Names /\ mergeRaced' \in BOOLEAN
        BY <1>1, <1>2
  <2> QED BY <2>1 DEF TypeOK, Stored, MetaTables
<1>4. \A q \in Requests : Merges(request'[q]) => Merging(q) /\ request'[q].raced = request[q].raced
      BY <1>2 DEF Merges, Merging
<1>5. Exclusive'
      BY <1>4 DEF IInv, Exclusive, Merging, Merges
<1>6. \A q \in Requests : Shape(request'[q])
      BY <1>2 DEF IInv
<1>7. ASSUME NEW q \in Requests PROVE Keeps(request[q])'
  <2>1. CASE q = r
        BY <1>2, <2>1 DEF Keeps, Merges
  <2>2. CASE q # r
    <3>1. request'[q] = request[q] BY <1>2, <2>2
    <3>2. Keeps(request[q]) BY DEF IInv
    <3>3. CASE Calm /\ Merges(request[q]) /\ ~request[q].raced
      <4>1. request[q] \in RequestStates /\ Shape(request[q]) BY <1>1 DEF IInv
      <4>2. request[q].sources \subseteq Ids /\ (request[q].pc \in {"fill", "delete"} => request[q].target \in Ids)
            BY <3>3, <4>1 DEF RequestStates, Shape
      <4>3. /\ \A i \in request[q].sources :
                 i # request[q].target /\ row'[i] # None /\ IsHuman(row'[i].cell) => IsHuman(request[q].read[i])
            /\ request[q].pc \in {"fill", "delete"} /\ (\E i \in Ids : IsHuman(request[q].read[i]))
                 => row'[request[q].target] # None /\ IsHuman(row'[request[q].target].cell)
            BY <3>2, <3>3, <4>2 DEF Keeps, Calm, HumanAt
      <4> QED BY <3>1, <4>3 DEF Keeps, HumanAt
    <3>4. CASE ~(Merges(request[q]) /\ ~request[q].raced)
          BY <3>1, <3>4 DEF Keeps, Merges
    <3>5. CASE Merging(r) /\ Merges(request[q]) /\ ~request[q].raced
          BY <2>2, <3>5 DEF IInv, Exclusive, Merging, Merges
    <3> QED BY <3>3, <3>4, <3>5
  <2> QED BY <2>1, <2>2
<1>8. \A q \in Requests : Shape(request[q])'
      BY <1>6 DEF Shape, Syncs, Merges
<1> QED BY <1>3, <1>5, <1>7, <1>8 DEF IInv

\* The step of a sync.
LEMMA SyncGoes ==
  ASSUME IInv, NEW r \in Requests, NEW local \in RequestStates, Shape(local), ~Merges(local),
         request' = [request EXCEPT ![r] = local],
         Stored', Calm, UNCHANGED <<made, saves, mergeRaced>>,
         merged' \subseteq Names, lost' \subseteq Names
  PROVE  IInv' /\ TextsKept
BY GoKeeps, CalmKeepsTexts

\* The step of a sync that leaves the rows alone.
LEMMA SyncGoesOn ==
  ASSUME IInv, NEW r \in Requests, NEW local \in RequestStates, Shape(local), ~Merges(local),
         request' = [request EXCEPT ![r] = local],
         UNCHANGED <<row, created, history>>, meta' \in MetaTables
  PROVE  IInv' /\ TextsKept
<1>1. Stored' /\ Calm
      BY RequestTyped, SameRows
<1>2. merged \subseteq Names /\ lost \subseteq Names
      BY DEF IInv, TypeOK
<1> QED BY <1>1, <1>2, SyncGoes DEF history

\* A sync at pc goes on at another, with the rest of its state.
LEMMA SyncState ==
  ASSUME NEW q \in RequestStates, Shape(q), Syncs(q),
         NEW pc \in {"lookup", "touch", "change", "create", "detectNew", "fillNew", "deprecate", "synced",
                     "renameMeta"},
         pc \in {"touch", "change", "detectNew", "fillNew"} => q.from \in Ids,
         pc = "renameMeta" => q.pc = "rename"
  PROVE  LET local == [q EXCEPT !.pc = pc] IN local \in RequestStates /\ Shape(local) /\ ~Merges(local)
<1> DEFINE local == [q EXCEPT !.pc = pc]
<1>1. /\ local \in RequestStates /\ local.pc = pc /\ local.name = q.name /\ local.text = q.text
      /\ local.from = q.from /\ local.old = q.old
      BY DEF RequestStates
<1> HIDE DEF local
<1> QED BY <1>1 DEF Shape, Syncs, Merges, local

LEMMA GoToStep ==
  ASSUME IInv, NEW r \in Requests, NEW pc, GoTo(r, pc)
  PROVE  request' = [request EXCEPT ![r] = [request[r] EXCEPT !.pc = pc]]
BY TypeParts DEF IInv, GoTo
-----------------------------------------------------------------------------
(* Steps of syncs *)

\* A row that keeps its name.
LEMMA SameName ==
  ASSUME Stored, NEW i \in Ids, row[i] # None
  PROVE  \A j \in Live : row[j].name = row[i].name => j = i
BY DEF Stored, Live

LEMMA FilledStored ==
  ASSUME Stored, NEW i \in Ids, row[i] # None, row' = Filled(i), created' = created, meta' \in MetaTables
  PROVE  Stored' /\ Calm
<1> DEFINE cell == IF row[i].cell = NoCell THEN Machine ELSE row[i].cell
           new == [row[i] EXCEPT !.cell = cell]
<1>1. row[i] \in Rows
      BY LiveRow
<1>2. /\ cell \in Cells /\ (IsHuman(cell) <=> IsHuman(row[i].cell))
      /\ IsHuman(row[i].cell) => cell.by = row[i].cell.by
      BY <1>1, IdleType DEF Rows
<1>3. row' = [row EXCEPT ![i] = new]
      BY DEF Filled, Stored
<1> HIDE DEF cell
<1>4. new \in Rows /\ new.name = row[i].name /\ new.cell = cell
      BY <1>1, <1>2 DEF Rows
<1> HIDE DEF new
<1>5. \A j \in Live : row[j].name = new.name => j = i
      BY <1>4, SameName
<1> QED BY <1>2, <1>3, <1>4, <1>5, RowChanges

LEMMA LookupKeeps ==
  ASSUME IInv, NEW r \in Requests, Lookup(r)
  PROVE  IInv' /\ TextsKept
<1> DEFINE q == request[r]
           alias == Alias(q.name)
           known == [q EXCEPT !.pc = "detect", !.into = alias]
           create == [q EXCEPT !.pc = "create"]
           Renaming(i) == [q EXCEPT !.pc = "rename", !.from = i, !.old = row[i].name,
                                    !.rewrite = row[i].text # q.text]
<1>1. /\ q \in RequestStates /\ Shape(q) /\ Stored /\ meta \in MetaTables
      /\ q.pc = "lookup" /\ Syncs(q)
      BY RequestTyped DEF Lookup, At, Syncs
<1>2. /\ UNCHANGED <<row, created, history>> /\ meta' \in MetaTables
      BY <1>1 DEF Lookup, store
<1>3. CASE alias \in Names /\ request' = [request EXCEPT ![r] = known]
  <2>1. known \in RequestStates /\ known.pc = "detect" /\ known.name = q.name /\ known.text = q.text
        /\ known.into = alias
        BY <1>1, <1>3 DEF RequestStates, Maybe
  <2> HIDE DEF known
  <2>2. Shape(known) /\ ~Merges(known)
        BY <1>1, <1>3, <2>1 DEF Shape, Syncs, Merges
  <2> QED BY <1>2, <1>3, <2>1, <2>2, SyncGoesOn
<1>4. CASE request' = [request EXCEPT ![r] = create]
  <2>1. create \in RequestStates /\ Shape(create) /\ ~Merges(create)
        BY <1>1, SyncState
  <2> HIDE DEF create
  <2> QED BY <1>2, <1>4, <2>1, SyncGoesOn
<1>5. ASSUME NEW i \in Candidates(r), request' = [request EXCEPT ![r] = Renaming(i)]
      PROVE  IInv' /\ TextsKept
  <2> DEFINE renaming == Renaming(i)
             rewrite == row[i].text # q.text
  <2>1. i \in Ids /\ row[i] # None
        BY <1>5 DEF Candidates, Live
  <2>2. row[i].name \in Names
        BY <1>1, <2>1, LiveRow
  <2>3. rewrite \in BOOLEAN
        OBVIOUS
  <2> HIDE DEF rewrite
  <2>4. renaming = [q EXCEPT !.pc = "rename", !.from = i, !.old = row[i].name, !.rewrite = rewrite]
        BY DEF rewrite
  <2> HIDE DEF renaming
  <2>5. renaming \in RequestStates /\ renaming.pc = "rename" /\ renaming.name = q.name
        /\ renaming.text = q.text /\ renaming.from = i /\ renaming.old = row[i].name
        BY <1>1, <2>1, <2>2, <2>3, <2>4 DEF RequestStates, Maybe
  <2>6. Shape(renaming) /\ ~Merges(renaming)
        BY <1>1, <2>1, <2>2, <2>5 DEF Shape, Syncs, Merges
  <2>7. request' = [request EXCEPT ![r] = renaming]
        BY <1>5 DEF renaming
  <2> QED BY <1>2, <2>5, <2>6, <2>7, SyncGoesOn
<1>6. \/ alias \in Names /\ Go(r, known)
      \/ GoTo(r, "create")
      \/ \E i \in Candidates(r) : Go(r, Renaming(i))
      BY DEF Lookup
<1> HIDE DEF alias
<1> QED BY <1>3, <1>4, <1>5, <1>6, GoToStep DEF Go

LEMMA DetectKeeps ==
  ASSUME IInv, NEW r \in Requests, Detect(r)
  PROVE  IInv' /\ TextsKept
<1> DEFINE local == [request[r] EXCEPT !.pc = "deprecate"]
<1>1. /\ request[r] \in RequestStates /\ Shape(request[r]) /\ meta \in MetaTables
      /\ request[r].pc = "detect" /\ Syncs(request[r])
      BY RequestTyped DEF Detect, At, Syncs
<1>2. request[r].into \in Names /\ request[r].usage \in BOOLEAN
      BY <1>1 DEF Shape, RequestStates
<1>3. meta' \in MetaTables /\ UNCHANGED <<row, created, history>> /\ GoTo(r, "deprecate")
      BY <1>1, <1>2, DetectionType DEF Detect
<1>4. local \in RequestStates /\ Shape(local) /\ ~Merges(local)
      BY <1>1, SyncState
<1> HIDE DEF local
<1>5. request' = [request EXCEPT ![r] = local]
      BY <1>3, GoToStep DEF local
<1> QED BY <1>3, <1>4, <1>5, SyncGoesOn

LEMMA RenameKeeps ==
  ASSUME IInv, NEW r \in Requests, Rename(r)
  PROVE  IInv' /\ TextsKept
<1> DEFINE q == request[r]
           i == q.from
           n == q.name
           new == [row[i] EXCEPT !.name = n]
           local == [q EXCEPT !.pc = "renameMeta"]
<1>1. /\ q \in RequestStates /\ Shape(q) /\ Stored /\ meta \in MetaTables
      /\ q.pc = "rename" /\ Syncs(q)
      BY RequestTyped DEF Rename, At, Syncs
<1>2. i \in Ids /\ n \in Names /\ row[i] # None /\ Named(n) \subseteq {i}
      BY <1>1 DEF Shape, Rename
<1>3. /\ row' = [row EXCEPT ![i].name = n] /\ lost' = (lost \cup {row[i].name}) \ {n}
      /\ GoTo(r, "renameMeta") /\ UNCHANGED <<created, meta, made, saves, merged, mergeRaced>>
      BY DEF Rename
<1>4. row[i] \in Rows /\ row[i].name \in Names
      BY <1>1, <1>2, LiveRow
<1>5. new \in Rows /\ new.name = n /\ new.cell = row[i].cell
      BY <1>2, <1>4 DEF Rows
<1>6. row' = [row EXCEPT ![i] = new]
      BY <1>1, <1>2, <1>3 DEF Stored
<1>7. \A j \in Live : row[j].name = new.name => j = i
      BY <1>2, <1>5 DEF Named
<1> HIDE DEF new
<1>8. Stored' /\ Calm
      BY <1>1, <1>2, <1>3, <1>5, <1>6, <1>7, RowChanges
<1>9. merged' \subseteq Names /\ lost' \subseteq Names
      BY <1>3, <1>4 DEF IInv, TypeOK
<1>10. local \in RequestStates /\ Shape(local) /\ ~Merges(local)
       BY <1>1, SyncState
<1> HIDE DEF local
<1>11. request' = [request EXCEPT ![r] = local]
       BY <1>3, GoToStep DEF local
<1> QED BY <1>3, <1>8, <1>9, <1>10, <1>11, SyncGoes

LEMMA RenameMetaKeeps ==
  ASSUME IInv, NEW r \in Requests, RenameMeta(r)
  PROVE  IInv' /\ TextsKept
<1> DEFINE q == request[r]
           pc == IF q.rewrite THEN "change" ELSE "fillNew"
           local == [q EXCEPT !.pc = pc]
<1>1. /\ q \in RequestStates /\ Shape(q) /\ meta \in MetaTables
      /\ q.pc = "renameMeta" /\ Syncs(q) /\ UNCHANGED <<row, created, history>>
      BY RequestTyped DEF RenameMeta, At, Syncs
<1>2. q.name \in Names /\ q.usage \in BOOLEAN /\ q.from \in Ids
      BY <1>1 DEF Shape, RequestStates
<1>3. CASE meta' \in Detection(q.name, q.usage) /\ GoTo(r, pc)
  <2>1. meta' \in MetaTables
        BY <1>1, <1>2, <1>3, DetectionType
  <2>2. pc \in {"change", "fillNew"}
        OBVIOUS
  <2> HIDE DEF pc
  <2>3. local \in RequestStates /\ Shape(local) /\ ~Merges(local)
        BY <1>1, <1>2, <2>2, SyncState
  <2> HIDE DEF local
  <2>4. request' = [request EXCEPT ![r] = local]
        BY <1>3, GoToStep DEF local
  <2> QED BY <1>1, <2>1, <2>3, <2>4, SyncGoesOn
<1>4. CASE meta' = [meta EXCEPT ![q.name] = None] /\ Go(r, Idle)
  <2>1. meta' \in MetaTables
        BY <1>1, <1>4 DEF MetaTables, Maybe
  <2>2. request' = [request EXCEPT ![r] = Idle]
        BY <1>4 DEF Go
  <2> QED BY <1>1, <2>1, <2>2, IdleType, SyncGoesOn
<1> QED BY <1>3, <1>4 DEF RenameMeta

LEMMA ChangeKeeps ==
  ASSUME IInv, NEW r \in Requests, Change(r)
  PROVE  IInv' /\ TextsKept
<1> DEFINE q == request[r]
           i == q.from
           owner == IF IsHuman(row[i].cell) THEN "stale" ELSE row[i].cell.owner
           cell == [row[i].cell EXCEPT !.owner = owner]
           new == [row[i] EXCEPT !.text = q.text, !.cell = cell]
           local == [q EXCEPT !.pc = "deprecate"]
<1>1. /\ q \in RequestStates /\ Shape(q) /\ Stored /\ meta \in MetaTables
      /\ q.pc = "change" /\ Syncs(q)
      BY RequestTyped DEF Change, At, Syncs
<1>2. i \in Ids /\ q.name \in Names /\ q.text \in Texts /\ row[i] # None /\ q.usage \in BOOLEAN
      BY <1>1 DEF Shape, Change, RequestStates
<1>3. /\ row' = [row EXCEPT ![i].text = q.text, ![i].cell.owner = IF IsHuman(row[i].cell) THEN "stale" ELSE @]
      /\ GoTo(r, "deprecate") /\ UNCHANGED <<created, history>>
      BY DEF Change
<1>4. meta' \in MetaTables
      BY <1>1, <1>2, DetectionType DEF Change
<1>5. row[i] \in Rows /\ row[i].cell \in Cells
      BY <1>1, <1>2, LiveRow
<1>6. row' = [row EXCEPT ![i] = new]
      BY <1>1, <1>2, <1>3, <1>5 DEF Stored, Rows, Cells
<1>7. owner \in {"human", "stale", "machine", "none"} /\ (owner \in {"human", "stale"} <=> IsHuman(row[i].cell))
      BY <1>5 DEF Cells, IsHuman
<1> HIDE DEF owner
<1>8. cell \in Cells /\ cell.by = row[i].cell.by /\ (IsHuman(cell) <=> IsHuman(row[i].cell))
      BY <1>5, <1>7 DEF Cells, IsHuman
<1> HIDE DEF cell
<1>9. new \in Rows /\ new.cell = cell /\ new.name = row[i].name
      BY <1>2, <1>5, <1>8 DEF Rows
<1> HIDE DEF new
<1>10. Stored' /\ Calm
  <2>1. \A j \in Live : row[j].name = new.name => j = i
        BY <1>1, <1>2, <1>9, SameName
  <2> QED BY <1>1, <1>2, <1>3, <1>4, <1>6, <1>8, <1>9, <2>1, RowChanges DEF history
<1>11. local \in RequestStates /\ Shape(local) /\ ~Merges(local)
       BY <1>1, SyncState
<1> HIDE DEF local
<1>12. request' = [request EXCEPT ![r] = local]
       BY <1>3, GoToStep DEF local
<1>13. merged' \subseteq Names /\ lost' \subseteq Names
       BY <1>3 DEF IInv, TypeOK, history
<1> QED BY <1>3, <1>10, <1>11, <1>12, <1>13, SyncGoes DEF history

LEMMA CreateKeeps ==
  ASSUME IInv, NEW r \in Requests, Create(r)
  PROVE  IInv' /\ TextsKept
<1> DEFINE q == request[r]
           State(i) == [q EXCEPT !.pc = "detectNew", !.from = i]
<1>1. /\ q \in RequestStates /\ Shape(q) /\ Stored /\ meta \in MetaTables
      /\ q.pc = "create" /\ Syncs(q) /\ UNCHANGED <<meta, history>>
      BY RequestTyped DEF Create, At, Syncs
<1>2. q.name \in Names /\ q.text \in Texts
      BY <1>1 DEF Shape
<1>3. ASSUME NEW i \in Ids PROVE State(i) \in RequestStates /\ Shape(State(i)) /\ ~Merges(State(i))
  <2> DEFINE local == State(i)
  <2>1. /\ local \in RequestStates /\ local.pc = "detectNew" /\ local.from = i
        /\ local.name = q.name /\ local.text = q.text
        BY <1>1 DEF RequestStates, Maybe
  <2> HIDE DEF local
  <2>2. Shape(local) /\ ~Merges(local)
        BY <1>2, <2>1 DEF Shape, Syncs, Merges
  <2> QED BY <2>1, <2>2 DEF local
<1>4. merged' \subseteq Names /\ lost' \subseteq Names
      BY <1>1 DEF IInv, TypeOK, history
<1>5. \/ /\ Named(q.name) = {} /\ created < MaxRows /\ created' = created + 1
         /\ row' = [row EXCEPT ![created'] = NewRow(q.name, q.text)]
         /\ request' = [request EXCEPT ![r] = State(created')]
      \/ \E i \in Named(q.name) :
           request' = [request EXCEPT ![r] = State(i)] /\ UNCHANGED <<row, created>>
      BY DEF Create, Go
<1> HIDE DEF State
<1>6. CASE /\ Named(q.name) = {} /\ created < MaxRows /\ created' = created + 1
           /\ row' = [row EXCEPT ![created'] = NewRow(q.name, q.text)]
           /\ request' = [request EXCEPT ![r] = State(created')]
  <2>1. row' = [row EXCEPT ![created + 1] = NewRow(q.name, q.text)] /\ meta' \in MetaTables
        BY <1>1, <1>6
  <2>2. Stored' /\ Calm /\ created' \in Ids
        BY <1>1, <1>2, <1>6, <2>1, RowIsNew
  <2>3. State(created') \in RequestStates /\ Shape(State(created')) /\ ~Merges(State(created'))
        BY <1>3, <2>2
  <2> QED BY <1>1, <1>4, <1>6, <2>2, <2>3, SyncGoes DEF history
<1>7. CASE \E i \in Named(q.name) :
             request' = [request EXCEPT ![r] = State(i)] /\ UNCHANGED <<row, created>>
  <2>1. PICK i \in Ids : request' = [request EXCEPT ![r] = State(i)] /\ UNCHANGED <<row, created>>
        BY <1>7 DEF Named, Live
  <2>2. UNCHANGED <<row, created, history>> /\ meta' \in MetaTables
        BY <1>1, <2>1
  <2>3. State(i) \in RequestStates /\ Shape(State(i)) /\ ~Merges(State(i))
        BY <1>3
  <2> QED BY <2>1, <2>2, <2>3, SyncGoesOn
<1> QED BY <1>5, <1>6, <1>7

LEMMA DetectNewKeeps ==
  ASSUME IInv, NEW r \in Requests, DetectNew(r)
  PROVE  IInv' /\ TextsKept
<1> DEFINE local == [request[r] EXCEPT !.pc = "fillNew"]
<1>1. /\ request[r] \in RequestStates /\ Shape(request[r]) /\ meta \in MetaTables
      /\ request[r].pc = "detectNew" /\ Syncs(request[r])
      BY RequestTyped DEF DetectNew, At, Syncs
<1>2. request[r].name \in Names /\ request[r].usage \in BOOLEAN /\ request[r].from \in Ids
      BY <1>1 DEF Shape, RequestStates
<1>3. meta' \in MetaTables /\ UNCHANGED <<row, created, history>> /\ GoTo(r, "fillNew")
      BY <1>1, <1>2, DetectionType DEF DetectNew
<1>4. local \in RequestStates /\ Shape(local) /\ ~Merges(local)
      BY <1>1, <1>2, SyncState
<1> HIDE DEF local
<1>5. request' = [request EXCEPT ![r] = local]
      BY <1>3, GoToStep DEF local
<1> QED BY <1>3, <1>4, <1>5, SyncGoesOn

\* A sync fills the empty cell of its row and goes to the deprecation.
LEMMA FillsAndGoes ==
  ASSUME IInv, NEW r \in Requests, Syncs(request[r]), request[r].from \in Ids, row[request[r].from] # None,
         row' = Filled(request[r].from), GoTo(r, "deprecate"), meta' \in MetaTables,
         UNCHANGED <<created, history>>
  PROVE  IInv' /\ TextsKept
<1> DEFINE local == [request[r] EXCEPT !.pc = "deprecate"]
<1>1. request[r] \in RequestStates /\ Shape(request[r]) /\ Stored
      BY RequestTyped
<1>2. Stored' /\ Calm
      BY <1>1, FilledStored
<1>3. local \in RequestStates /\ Shape(local) /\ ~Merges(local)
      BY <1>1, SyncState
<1> HIDE DEF local
<1>4. request' = [request EXCEPT ![r] = local]
      BY GoToStep DEF local
<1>5. merged' \subseteq Names /\ lost' \subseteq Names
      BY DEF IInv, TypeOK, history
<1> QED BY <1>2, <1>3, <1>4, <1>5, SyncGoes DEF history

LEMMA FillNewKeeps ==
  ASSUME IInv, NEW r \in Requests, FillNew(r)
  PROVE  IInv' /\ TextsKept
<1>1. Shape(request[r]) /\ Stored /\ meta \in MetaTables /\ request[r].pc = "fillNew"
      BY RequestTyped DEF FillNew, At
<1>2. Syncs(request[r]) /\ request[r].from \in Ids
      BY <1>1 DEF Shape, Syncs
<1>3. meta' \in MetaTables
      BY <1>1 DEF FillNew
<1> QED BY <1>2, <1>3, FillsAndGoes DEF FillNew

LEMMA TouchKeeps ==
  ASSUME IInv, NEW r \in Requests, Touch(r)
  PROVE  IInv' /\ TextsKept
<1>1. Shape(request[r]) /\ Stored /\ meta \in MetaTables /\ request[r].pc = "touch"
      BY RequestTyped DEF Touch, At
<1>2. Syncs(request[r]) /\ request[r].from \in Ids /\ request[r].name \in Names
      BY <1>1 DEF Shape, Syncs
<1>3. meta' \in MetaTables
      BY <1>1, <1>2, DetectionType DEF Touch
<1> QED BY <1>2, <1>3, FillsAndGoes DEF Touch

LEMMA DeprecateKeeps ==
  ASSUME IInv, NEW r \in Requests, Deprecate(r)
  PROVE  IInv' /\ TextsKept
<1> DEFINE local == [request[r] EXCEPT !.pc = "synced"]
           fresh == [deprecated |-> TRUE, replacement |-> None, used |-> FALSE]
           Kept(n) == meta[n].used /\ meta[n].deprecated
           Old(n) == [meta[n] EXCEPT !.deprecated = TRUE, !.used = Kept(n)]
<1>1. /\ request[r] \in RequestStates /\ Shape(request[r]) /\ meta \in MetaTables
      /\ request[r].pc = "deprecate" /\ Syncs(request[r])
      BY RequestTyped DEF Deprecate, At, Syncs
<1>2. fresh \in Metas
      BY DEF Metas, Maybe
<1>3. ASSUME NEW n \in Names, meta[n] # None PROVE Old(n) \in Metas
  <2>1. meta[n] \in Metas
        BY <1>1, <1>3 DEF MetaTables, Maybe
  <2>2. Kept(n) \in BOOLEAN
        OBVIOUS
  <2> HIDE DEF Kept
  <2> QED BY <2>1, <2>2 DEF Metas
<1>4. meta' = [n \in Names |-> IF n \notin Gone(r) THEN meta[n]
                               ELSE IF meta[n] = None THEN fresh ELSE Old(n)]
  <2>1. \A n \in Names : meta[n] # None =>
          [meta[n] EXCEPT !.deprecated = TRUE, !.used = @ /\ meta[n].deprecated] = Old(n)
        BY <1>1 DEF MetaTables, Maybe, Metas
  <2> HIDE DEF Old, fresh
  <2> QED BY <2>1 DEF Deprecate, fresh
<1> HIDE DEF fresh, Old
<1>5. meta' \in MetaTables
      BY <1>1, <1>2, <1>3, <1>4 DEF MetaTables, Maybe
<1>6. UNCHANGED <<row, created, history>>
      BY DEF Deprecate
<1>7. local \in RequestStates /\ Shape(local) /\ ~Merges(local)
      BY <1>1, SyncState
<1>8. CASE GoTo(r, "synced")
  <2>1. request' = [request EXCEPT ![r] = local]
        BY <1>8, GoToStep
  <2> HIDE DEF local
  <2> QED BY <1>5, <1>6, <1>7, <2>1, SyncGoesOn
<1>9. CASE Go(r, Idle)
  <2>1. request' = [request EXCEPT ![r] = Idle]
        BY <1>9 DEF Go
  <2> QED BY <1>5, <1>6, <2>1, IdleType, SyncGoesOn
<1> QED BY <1>8, <1>9 DEF Deprecate

\* A request ends and leaves everything else alone.
LEMMA EndKeeps ==
  ASSUME IInv, NEW r \in Requests, Go(r, Idle), UNCHANGED <<store, history>>
  PROVE  IInv' /\ TextsKept
<1>1. meta' \in MetaTables /\ UNCHANGED <<row, created, history>>
      BY RequestTyped DEF store
<1>2. request' = [request EXCEPT ![r] = Idle]
      BY DEF Go
<1> QED BY <1>1, <1>2, IdleType, SyncGoesOn

\* A request begins.  A merge knows every person's text of its sources.
LEMMA BeginKeeps ==
  ASSUME IInv, NEW r \in Requests, NEW local \in RequestStates, Shape(local),
         Merges(local) => /\ local.pc = "target"
                          /\ \A i \in local.sources : HumanAt(i) => IsHuman(local.read[i]),
         Begin(r, local), UNCHANGED store
  PROVE  IInv' /\ TextsKept
<1> DEFINE merge == local.pc = "target"
           merges == {q \in Requests : Merging(q)}
           free == {q \in Requests : Running(q)} = {}
           Base(q) == IF q = r THEN local ELSE request[q]
           Raced(q) == IF q = r THEN merge /\ merges # {}
                       ELSE request[q].raced \/ (merge /\ q \in merges)
           Alone(q) == IF q = r THEN free ELSE FALSE
<1>1. /\ request \in [Requests -> RequestStates] /\ made \in Nat /\ saves \in 0..MaxSaves
      /\ merged \subseteq Names /\ lost \subseteq Names /\ mergeRaced \in BOOLEAN
      /\ Stored /\ meta \in MetaTables
      BY TypeParts DEF IInv, Stored
<1>2. request' = [q \in Requests |-> [Base(q) EXCEPT !.alone = Alone(q), !.raced = Raced(q)]]
  <2>1. \A q \in Requests : q # r =>
          [request[q] EXCEPT !.alone = FALSE, !.raced = @ \/ (merge /\ q \in merges)]
            = [Base(q) EXCEPT !.alone = Alone(q), !.raced = Raced(q)]
        BY <1>1 DEF RequestStates
  <2>2. [local EXCEPT !.alone = free, !.raced = merge /\ merges # {}]
          = [Base(r) EXCEPT !.alone = Alone(r), !.raced = Raced(r)]
        OBVIOUS
  <2>3. request' = [q \in Requests |->
           IF q = r THEN [local EXCEPT !.alone = free, !.raced = merge /\ merges # {}]
           ELSE [request[q] EXCEPT !.alone = FALSE, !.raced = @ \/ (merge /\ q \in merges)]]
        BY DEF Begin
  <2> HIDE DEF merge, merges, free, Base, Raced, Alone
  <2> QED BY <2>1, <2>2, <2>3
<1>3. ASSUME NEW q \in Requests
      PROVE  Base(q) \in RequestStates /\ Alone(q) \in BOOLEAN /\ Raced(q) \in BOOLEAN /\ Shape(Base(q))
  <2>1. Base(q) \in RequestStates /\ Shape(Base(q))
        BY <1>1 DEF IInv
  <2>2. request[q].raced \in BOOLEAN
        BY <1>1 DEF RequestStates
  <2>3. Raced(q) \in BOOLEAN /\ Alone(q) \in BOOLEAN
        BY <2>2
  <2> QED BY <2>1, <2>3
<1> HIDE DEF Alone
<1>4. ASSUME NEW q \in Requests
      PROVE  /\ request'[q] \in RequestStates /\ request'[q].pc = Base(q).pc
             /\ request'[q].name = Base(q).name /\ request'[q].text = Base(q).text
             /\ request'[q].from = Base(q).from /\ request'[q].old = Base(q).old
             /\ request'[q].into = Base(q).into /\ request'[q].sources = Base(q).sources
             /\ request'[q].read = Base(q).read /\ request'[q].target = Base(q).target
             /\ (request'[q].raced <=> Raced(q))
  <2> DEFINE base == Base(q)
             raced == Raced(q)
             alone == Alone(q)
  <2>1. request'[q] = [base EXCEPT !.alone = alone, !.raced = raced]
        BY <1>2
  <2>2. base \in RequestStates /\ alone \in BOOLEAN /\ raced \in BOOLEAN
        BY <1>3
  <2> HIDE DEF base, raced, alone
  <2>3. /\ request'[q] \in RequestStates /\ request'[q].pc = base.pc
        /\ request'[q].name = base.name /\ request'[q].text = base.text
        /\ request'[q].from = base.from /\ request'[q].old = base.old
        /\ request'[q].into = base.into /\ request'[q].sources = base.sources
        /\ request'[q].read = base.read /\ request'[q].target = base.target
        /\ request'[q].raced = raced
        BY <2>1, <2>2 DEF RequestStates
  <2> QED BY <2>3 DEF base, raced
<1>5. Stored' /\ Calm
      BY <1>1, SameRows DEF store
<1>6. TypeOK'
  <2>1. request' \in [Requests -> RequestStates]
        BY <1>2, <1>4
  <2>2. made' = made + 1
        BY DEF Begin
  <2>3. mergeRaced' \in BOOLEAN
        BY <1>1 DEF Begin
  <2>4. saves' \in 0..MaxSaves /\ merged' \subseteq Names /\ lost' \subseteq Names
        BY <1>1 DEF Begin
  <2>5. made' \in Nat
        BY <1>1, <2>2
  <2> QED BY <1>5, <2>1, <2>3, <2>4, <2>5 DEF TypeOK, Stored, MetaTables
<1>7. Exclusive'
  <2>1. \A p, q \in Requests :
          p # q /\ Merges(request'[p]) /\ Merges(request'[q]) => request'[p].raced
    <3>1. ASSUME NEW p \in Requests, NEW q \in Requests, p # q, Merges(Base(p)), Merges(Base(q))
          PROVE  Raced(p)
          BY <1>1, <3>1 DEF IInv, Exclusive, Merging, Merges
    <3> HIDE DEF Base, Raced
    <3> QED BY <1>4, <3>1 DEF Merges
  <2> QED BY <2>1 DEF Exclusive, Merging, Merges
<1>8. ASSUME NEW q \in Requests PROVE Shape(request[q])'
  <2>1. Shape(Base(q))
        BY <1>3
  <2> HIDE DEF Base, Raced
  <2> QED BY <1>4, <2>1 DEF Shape, Syncs, Merges
<1>9. ASSUME NEW q \in Requests PROVE Keeps(request[q])'
  <2>1. CASE ~(Merges(Base(q)) /\ ~Raced(q))
    <3> HIDE DEF Base, Raced
    <3> QED BY <1>4, <2>1 DEF Keeps, Merges
  <2>2. CASE Merges(Base(q)) /\ ~Raced(q)
    <3>1. /\ \A i \in Base(q).sources : i # Base(q).target /\ HumanAt(i) => IsHuman(Base(q).read[i])
          /\ Base(q).pc \in {"fill", "delete"} /\ (\E i \in Ids : IsHuman(Base(q).read[i]))
               => HumanAt(Base(q).target)
      <4>1. CASE q = r
            BY <2>2, <4>1
      <4>2. CASE q # r
        <5>1. Keeps(request[q]) /\ Base(q) = request[q] /\ ~request[q].raced
              BY <2>2, <4>2 DEF IInv
        <5> HIDE DEF Base, Raced
        <5> QED BY <2>2, <5>1 DEF Keeps
      <4> QED BY <4>1, <4>2
    <3>2. row' = row
          BY DEF store
    <3> HIDE DEF Base, Raced
    <3>3. /\ \A i \in request'[q].sources :
               i # request'[q].target /\ row'[i] # None /\ IsHuman(row'[i].cell) => IsHuman(request'[q].read[i])
          /\ request'[q].pc \in {"fill", "delete"} /\ (\E i \in Ids : IsHuman(request'[q].read[i]))
               => row'[request'[q].target] # None /\ IsHuman(row'[request'[q].target].cell)
          BY <1>4, <3>1, <3>2 DEF HumanAt
    <3> QED BY <3>3 DEF Keeps, HumanAt
  <2> QED BY <2>1, <2>2
<1> QED BY <1>5, <1>6, <1>7, <1>8, <1>9, CalmKeepsTexts DEF IInv

LEMMA SyncKeeps ==
  ASSUME IInv, NEW r \in Requests, NEW n \in Names, NEW text \in Texts, NEW usage \in BOOLEAN,
         NEW gone \in SUBSET Names, Sync(r, n, text, usage, gone)
  PROVE  IInv' /\ TextsKept
<1> DEFINE pc == IF Named(n) = {} THEN "lookup"
                 ELSE IF \E i \in Named(n) : row[i].text = text THEN "touch" ELSE "change"
           from == IF Named(n) = {} THEN None ELSE CHOOSE i \in Named(n) : TRUE
           base == [Idle EXCEPT !.name = n, !.text = text, !.usage = usage, !.gone = gone]
           local == [base EXCEPT !.pc = pc, !.from = from]
<1>1. /\ pc \in {"lookup", "touch", "change"} /\ (pc # "lookup" => from \in Ids) /\ from \in Maybe(Ids)
      BY DEF Named, Live, Maybe
<1>2. Begin(r, local) /\ UNCHANGED store
      BY DEF Sync
<1> HIDE DEF pc, from
<1>3. base \in RequestStates /\ base.name = n /\ base.text = text
      BY IdleType DEF RequestStates, Maybe
<1> HIDE DEF base
<1>4. /\ local \in RequestStates /\ local.pc = pc /\ local.from = from
      /\ local.name = n /\ local.text = text
      BY <1>1, <1>3 DEF RequestStates
<1> HIDE DEF local
<1>5. Shape(local) /\ ~Merges(local)
      BY <1>1, <1>4 DEF Shape, Syncs, Merges
<1> QED BY <1>2, <1>4, <1>5, BeginKeeps

LEMMA MergeKeeps ==
  ASSUME IInv, NEW r \in Requests, NEW names \in SUBSET Names, NEW into \in Names, NEW text \in Texts,
         Merge(r, names, into, text)
  PROVE  IInv' /\ TextsKept
<1> DEFINE sources == UNION {Named(n) : n \in names}
           target == IF Named(into) = {} THEN None ELSE CHOOSE i \in Named(into) : TRUE
           rewrite == \A i \in Named(into) : row[i].text # text
           read == [i \in Ids |-> IF i \in sources \cup Named(into) THEN row[i].cell ELSE NoCell]
           local == [Idle EXCEPT !.pc = "target", !.names = names, !.into = into, !.text = text,
                                 !.sources = sources, !.target = target, !.rewrite = rewrite, !.read = read]
<1>1. Stored
      BY RequestTyped
<1>2. \A n : Named(n) \subseteq Live
      BY DEF Named
<1>3. sources \subseteq Live /\ sources \subseteq Ids
      BY <1>2 DEF Live
<1>4. target \in Maybe(Ids) /\ rewrite \in BOOLEAN
      BY DEF Named, Live, Maybe
<1>5. read \in [Ids -> Cells]
  <2>1. \A i \in Live : row[i].cell \in Cells
        BY <1>1, LiveRow DEF Live
  <2> QED BY <1>2, <1>3, <2>1, IdleType
<1>6. \A i \in sources : HumanAt(i) => IsHuman(read[i])
      BY <1>3 DEF HumanAt
<1>7. Begin(r, local) /\ UNCHANGED store
      BY DEF Merge
<1> HIDE DEF sources, target, rewrite, read
<1>8. /\ local \in RequestStates /\ local.pc = "target" /\ local.into = into /\ local.text = text
      /\ local.sources = sources /\ local.read = read
      BY <1>3, <1>4, <1>5, IdleType DEF RequestStates, Maybe
<1> HIDE DEF local
<1>9. Shape(local)
      BY <1>8 DEF Shape, Syncs, Merges
<1> QED BY <1>6, <1>7, <1>8, <1>9, BeginKeeps DEF Merges
-----------------------------------------------------------------------------
(* Steps of merges *)

\* What a step of a merge shows of the state it goes to.
LEMMA MergeState ==
  ASSUME IInv, NEW r \in Requests, Merging(r)
  PROVE  /\ request[r] \in RequestStates /\ Stored /\ meta \in MetaTables
         /\ request[r].into \in Names /\ request[r].text \in Texts
         /\ request[r].pc # "target" => request[r].target \in Ids
         /\ request[r].pc = "delete" => request[r].target \notin request[r].sources
         /\ request[r].sources \subseteq Ids /\ request[r].target \in Maybe(Ids)
         /\ request[r].read \in [Ids -> Cells] /\ request[r].raced \in BOOLEAN
         /\ request[r].names \subseteq Names /\ None \notin Ids
<1>1. /\ request[r] \in RequestStates /\ Shape(request[r]) /\ Stored /\ meta \in MetaTables
      BY RequestTyped
<1>2. Merges(request[r])
      BY DEF Merges, Merging
<1>3. /\ request[r].sources \subseteq Ids /\ request[r].target \in Maybe(Ids)
      /\ request[r].read \in [Ids -> Cells] /\ request[r].raced \in BOOLEAN
      /\ request[r].names \subseteq Names
      BY <1>1 DEF RequestStates
<1>4. None \notin Ids
      BY ConstantsAssumption DEF Ids
<1> QED BY <1>1, <1>2, <1>3, <1>4 DEF Shape

\* The step of a merge, after which the texts it has read are still as it needs them.
LEMMA MergeGoes ==
  ASSUME IInv, NEW r \in Requests, Merging(r), NEW local \in RequestStates, Merges(local), Shape(local),
         local.raced = request[r].raced,
         ~local.raced =>
           /\ \A i \in local.sources :
                i # local.target /\ row'[i] # None /\ IsHuman(row'[i].cell) => IsHuman(local.read[i])
           /\ local.pc \in {"fill", "delete"} /\ (\E i \in Ids : IsHuman(local.read[i])) =>
                row'[local.target] # None /\ IsHuman(row'[local.target].cell),
         request' = [request EXCEPT ![r] = local],
         Stored', UNCHANGED <<made, saves, mergeRaced>>, merged' \subseteq Names, lost' \subseteq Names
  PROVE  IInv'
<1>1. Keeps(local)'
      BY DEF Keeps, HumanAt, Merges
<1> QED BY <1>1, GoKeeps

\* What a merge knows of its texts stays true when no person's text changes,
\* when it goes on with the sources, or fewer, and the target it had.
LEMMA KeepsOn ==
  ASSUME IInv, NEW r \in Requests, Merging(r), Calm, NEW local, local.read = request[r].read,
         local.raced = request[r].raced, local.sources \subseteq request[r].sources,
         local.target \in Ids, request[r].target \in {None, local.target},
         local.pc \in {"fill", "delete"} => request[r].pc \in {"fill", "delete"}
  PROVE  ~local.raced =>
           /\ \A i \in local.sources :
                i # local.target /\ row'[i] # None /\ IsHuman(row'[i].cell) => IsHuman(local.read[i])
           /\ local.pc \in {"fill", "delete"} /\ (\E i \in Ids : IsHuman(local.read[i])) =>
                row'[local.target] # None /\ IsHuman(row'[local.target].cell)
<1> SUFFICES ASSUME ~local.raced
             PROVE  /\ \A i \in local.sources :
                         i # local.target /\ row'[i] # None /\ IsHuman(row'[i].cell) => IsHuman(local.read[i])
                    /\ local.pc \in {"fill", "delete"} /\ (\E i \in Ids : IsHuman(local.read[i])) =>
                         row'[local.target] # None /\ IsHuman(row'[local.target].cell)
    OBVIOUS
<1>1. \A i \in Ids : row'[i] # None /\ IsHuman(row'[i].cell) <=> HumanAt(i)
      BY DEF Calm, HumanAt
<1>2. /\ \A i \in request[r].sources : i # request[r].target /\ HumanAt(i) => IsHuman(request[r].read[i])
      /\ request[r].pc \in {"fill", "delete"} /\ (\E i \in Ids : IsHuman(request[r].read[i]))
           => HumanAt(request[r].target)
      BY RequestTyped DEF Keeps, Merges, Merging
<1>3. request[r].sources \subseteq Ids /\ None \notin Ids /\ (request[r].pc # "target" => request[r].target \in Ids)
      BY MergeState
<1>4. \A i \in local.sources : i # local.target => i # request[r].target
      BY <1>3
<1>5. \A i \in local.sources :
        i # local.target /\ row'[i] # None /\ IsHuman(row'[i].cell) => IsHuman(local.read[i])
      BY <1>1, <1>2, <1>3, <1>4
<1>6. ASSUME local.pc \in {"fill", "delete"}, \E i \in Ids : IsHuman(local.read[i])
      PROVE  row'[local.target] # None /\ IsHuman(row'[local.target].cell)
  <2>1. HumanAt(request[r].target) /\ request[r].target = local.target
        BY <1>2, <1>3, <1>6
  <2> QED BY <1>1, <2>1
<1> QED BY <1>5, <1>6

LEMMA TargetKeeps ==
  ASSUME IInv, NEW r \in Requests, Target(r)
  PROVE  IInv' /\ TextsKept
<1> DEFINE q == request[r]
           State(i) == [q EXCEPT !.pc = "consolidate", !.target = i]
<1>1. /\ Merging(r) /\ q.pc = "target" /\ UNCHANGED <<meta, history>>
      BY DEF Target, At, Merging
<1>2. /\ q \in RequestStates /\ Stored /\ meta' \in MetaTables /\ q.into \in Names /\ q.text \in Texts
      /\ q.target \in Maybe(Ids) /\ None \notin Ids
      BY <1>1, MergeState
<1>3. merged' \subseteq Names /\ lost' \subseteq Names /\ UNCHANGED <<made, saves, mergeRaced>>
      BY <1>1 DEF IInv, TypeOK, history
<1>4. ASSUME NEW i \in Ids, Stored', Calm, request' = [request EXCEPT ![r] = State(i)], q.target \in {None, i}
      PROVE  IInv' /\ TextsKept
  <2> DEFINE local == State(i)
  <2>1. /\ local \in RequestStates /\ local.pc = "consolidate" /\ local.target = i
        /\ local.into = q.into /\ local.text = q.text /\ local.sources = q.sources
        /\ local.read = q.read /\ local.raced = q.raced
        BY <1>2 DEF RequestStates, Maybe
  <2>2. request' = [request EXCEPT ![r] = local]
        BY <1>4
  <2> HIDE DEF local
  <2>3. Merges(local) /\ Shape(local)
        BY <1>2, <2>1 DEF Shape, Merges, Syncs
  <2>4. ~local.raced =>
          /\ \A j \in local.sources :
               j # local.target /\ row'[j] # None /\ IsHuman(row'[j].cell) => IsHuman(local.read[j])
          /\ local.pc \in {"fill", "delete"} /\ (\E j \in Ids : IsHuman(local.read[j])) =>
               row'[local.target] # None /\ IsHuman(row'[local.target].cell)
        BY <1>1, <1>4, <2>1, KeepsOn
  <2>5. IInv'
        BY <1>1, <1>3, <1>4, <2>1, <2>2, <2>3, <2>4, MergeGoes
  <2> QED BY <1>4, <2>5, CalmKeepsTexts
<1> HIDE DEF State
<1>5. CASE /\ q.target # None /\ row[q.target] # None
           /\ row' = [row EXCEPT ![q.target].text = IF q.rewrite THEN q.text ELSE @]
           /\ GoTo(r, "consolidate") /\ UNCHANGED created
  <2> DEFINE i == q.target
             text == IF q.rewrite THEN q.text ELSE row[i].text
             new == [row[i] EXCEPT !.text = text]
  <2>1. i \in Ids /\ row[i] # None
        BY <1>2, <1>5 DEF Maybe
  <2>2. row[i] \in Rows /\ text \in Texts
        BY <1>2, <2>1, LiveRow
  <2>3. row' = [row EXCEPT ![i] = new]
        BY <1>2, <1>5, <2>1 DEF Stored
  <2> HIDE DEF text
  <2>4. new \in Rows /\ new.name = row[i].name /\ new.cell = row[i].cell
        BY <2>2 DEF Rows
  <2> HIDE DEF new
  <2>5. \A j \in Live : row[j].name = new.name => j = i
        BY <1>2, <2>1, <2>4, SameName
  <2>6. Stored' /\ Calm
        BY <1>2, <1>5, <2>1, <2>3, <2>4, <2>5, RowChanges
  <2>7. request' = [request EXCEPT ![r] = [q EXCEPT !.pc = "consolidate"]]
        BY <1>5, GoToStep
  <2>8. [q EXCEPT !.pc = "consolidate"] = State(i)
        BY <1>2 DEF State, RequestStates
  <2>9. request' = [request EXCEPT ![r] = State(i)]
        BY <2>7, <2>8
  <2> QED BY <1>4, <2>1, <2>6, <2>9
<1>6. CASE /\ q.target = None /\ Named(q.into) = {} /\ created < MaxRows
           /\ created' = created + 1 /\ row' = [row EXCEPT ![created'] = NewRow(q.into, q.text)]
           /\ request' = [request EXCEPT ![r] = State(created')]
  <2>1. row' = [row EXCEPT ![created + 1] = NewRow(q.into, q.text)]
        BY <1>6
  <2>2. Stored' /\ Calm /\ created' \in Ids
        BY <1>2, <1>6, <2>1, RowIsNew
  <2> QED BY <1>4, <1>6, <2>2
<1>7. CASE \E j \in Named(q.into) :
             /\ q.target = None /\ row[j].text = q.text
             /\ request' = [request EXCEPT ![r] = State(j)] /\ UNCHANGED <<row, created>>
  <2>1. PICK j \in Ids : /\ q.target = None /\ request' = [request EXCEPT ![r] = State(j)]
                         /\ UNCHANGED <<row, created>>
        BY <1>7 DEF Named, Live
  <2>2. Stored' /\ Calm
        BY <1>2, <2>1, SameRows
  <2> QED BY <1>4, <2>1, <2>2
<1> QED BY <1>5, <1>6, <1>7 DEF Target, Go, State

LEMMA ConsolidateKeeps ==
  ASSUME IInv, NEW r \in Requests, Consolidate(r)
  PROVE  IInv' /\ TextsKept
<1> DEFINE q == request[r]
           i == q.target
           local == [q EXCEPT !.pc = "fill"]
<1>1. /\ Merging(r) /\ q.pc = "consolidate" /\ row[i] # None /\ GoTo(r, "fill")
      /\ UNCHANGED <<created, meta, history>>
      BY DEF Consolidate, At, Merging
<1>2. /\ q \in RequestStates /\ Stored /\ meta' \in MetaTables /\ q.into \in Names /\ q.text \in Texts
      /\ i \in Ids /\ None \notin Ids /\ q.read \in [Ids -> Cells] /\ q.sources \subseteq Ids
      BY <1>1, MergeState
<1>3. PICK winner \in Winners(r) :
        row' = [row EXCEPT ![i].cell = IF winner = NoCell THEN @ ELSE Written(winner, @)]
      BY DEF Consolidate
<1> DEFINE cell == IF winner = NoCell THEN row[i].cell ELSE Written(winner, row[i].cell)
           new == [row[i] EXCEPT !.cell = cell]
<1>4. winner \in Cells /\ ((\E j \in Ids : IsHuman(q.read[j])) => IsHuman(winner))
  <2>1. PICK j \in Ids : winner = q.read[j] /\ \A k \in Ids : Rank(q.read[j]) >= Rank(q.read[k])
        BY <1>2 DEF Winners
  <2>2. \A k \in Ids : q.read[k] \in Cells
        BY <1>2
  <2>3. \A c \in Cells : IsHuman(c) <=> Rank(c) >= 2
        BY DEF Cells, IsHuman, Rank
  <2>4. \A c \in Cells : Rank(c) \in Nat
        BY DEF Cells, Rank
  <2>5. ASSUME NEW k \in Ids, IsHuman(q.read[k]) PROVE IsHuman(winner)
    <3>1. Rank(q.read[k]) >= 2 /\ Rank(q.read[k]) \in Nat /\ Rank(q.read[j]) \in Nat
          BY <2>2, <2>3, <2>4, <2>5
    <3>2. Rank(winner) >= 2
          BY <2>1, <3>1
    <3> QED BY <2>1, <2>2, <2>3, <3>2
  <2> QED BY <2>1, <2>2, <2>5
<1>5. row[i] \in Rows /\ row[i].cell \in Cells
      BY <1>1, <1>2, LiveRow
<1>6. /\ cell \in Cells /\ (IsHuman(row[i].cell) => IsHuman(cell)) /\ (IsHuman(winner) => IsHuman(cell))
      BY <1>4, <1>5, IdleType DEF Written
<1>7. row' = [row EXCEPT ![i] = new]
      BY <1>2, <1>3 DEF Stored
<1> HIDE DEF cell
<1>8. new \in Rows /\ new.cell = cell /\ new.name = row[i].name
      BY <1>5, <1>6 DEF Rows
<1> HIDE DEF new
<1>9. \A j \in Live : row[j].name = new.name => j = i
      BY <1>1, <1>2, <1>8, SameName
<1>10. Stored' /\ new # None /\ \A j \in Ids : row'[j] = IF j = i THEN new ELSE row[j]
       BY <1>1, <1>2, <1>7, <1>8, <1>9, RowIsStored
<1>11. /\ local \in RequestStates /\ local.pc = "fill" /\ local.target = i /\ local.into = q.into
       /\ local.text = q.text /\ local.sources = q.sources /\ local.read = q.read /\ local.raced = q.raced
       BY <1>2 DEF RequestStates
<1> HIDE DEF local
<1>12. Merges(local) /\ Shape(local)
       BY <1>2, <1>11 DEF Shape, Merges, Syncs
<1>13. ~q.raced => \A j \in q.sources : j # i /\ HumanAt(j) => IsHuman(q.read[j])
       BY <1>1, RequestTyped DEF Keeps, Merges, Merging
<1>14. ~local.raced =>
         /\ \A j \in local.sources :
              j # local.target /\ row'[j] # None /\ IsHuman(row'[j].cell) => IsHuman(local.read[j])
         /\ local.pc \in {"fill", "delete"} /\ (\E j \in Ids : IsHuman(local.read[j])) =>
              row'[local.target] # None /\ IsHuman(row'[local.target].cell)
       BY <1>2, <1>4, <1>6, <1>8, <1>10, <1>11, <1>13 DEF HumanAt
<1>15. request' = [request EXCEPT ![r] = local]
       BY <1>1, GoToStep DEF local
<1>16. merged' \subseteq Names /\ lost' \subseteq Names /\ UNCHANGED <<made, saves, mergeRaced>>
       BY <1>1 DEF IInv, TypeOK, history
<1>17. IInv'
       BY <1>1, <1>10, <1>11, <1>12, <1>14, <1>15, <1>16, MergeGoes
<1>18. ASSUME NEW by \in 1..saves, Held(by), ~Held(by)'
       PROVE  \E p \in Requests :
                Merging(p) /\ \E j \in Ids \cap {request[p].target} : row'[j] # None /\ IsHuman(row'[j].cell)
  <2>1. PICK j \in Live : IsHuman(row[j].cell) /\ row[j].cell.by = by
        BY <1>18 DEF Held
  <2>2. j = i
    <3> SUFFICES ASSUME j # i PROVE FALSE
        OBVIOUS
    <3>1. j \in Ids /\ row'[j] = row[j] /\ row[j] # None
          BY <1>10, <2>1 DEF Live
    <3>2. j \in Live'
          BY <3>1 DEF Live
    <3> QED BY <1>18, <2>1, <3>1, <3>2 DEF Held, IsHuman
  <2>3. row'[i] # None /\ IsHuman(row'[i].cell)
        BY <1>2, <1>6, <1>8, <1>10, <2>1, <2>2
  <2> QED BY <1>1, <1>2, <2>3
<1>19. TextsKept
       BY <1>18 DEF TextsKept
<1> QED BY <1>17, <1>19

LEMMA FillKeeps ==
  ASSUME IInv, NEW r \in Requests, Fill(r)
  PROVE  IInv' /\ TextsKept
<1> DEFINE q == request[r]
           i == q.target
           local == [q EXCEPT !.pc = "delete", !.sources = q.sources \ {i}]
<1>1. /\ Merging(r) /\ q.pc = "fill" /\ row[i] # None /\ row' = Filled(i)
      /\ UNCHANGED <<created, meta, history>>
      BY DEF Fill, At, Merging
<1>2. /\ q \in RequestStates /\ Stored /\ meta' \in MetaTables /\ q.into \in Names /\ q.text \in Texts
      /\ i \in Ids /\ q.sources \subseteq Ids
      BY <1>1, MergeState
<1>3. Stored' /\ Calm
      BY <1>1, <1>2, FilledStored
<1>4. request' = [request EXCEPT ![r] = local]
      BY <1>2 DEF Fill, Go, RequestStates
<1>5. /\ local \in RequestStates /\ local.pc = "delete" /\ local.target = i /\ local.into = q.into
      /\ local.text = q.text /\ local.sources = q.sources \ {i} /\ local.read = q.read
      /\ local.raced = q.raced
      BY <1>2 DEF RequestStates
<1> HIDE DEF local
<1>6. Merges(local) /\ Shape(local)
      BY <1>2, <1>5 DEF Shape, Merges, Syncs
<1>7. ~local.raced =>
        /\ \A j \in local.sources :
             j # local.target /\ row'[j] # None /\ IsHuman(row'[j].cell) => IsHuman(local.read[j])
        /\ local.pc \in {"fill", "delete"} /\ (\E j \in Ids : IsHuman(local.read[j])) =>
             row'[local.target] # None /\ IsHuman(row'[local.target].cell)
      BY <1>1, <1>2, <1>3, <1>5, KeepsOn
<1>8. merged' \subseteq Names /\ lost' \subseteq Names /\ UNCHANGED <<made, saves, mergeRaced>>
      BY <1>1 DEF IInv, TypeOK, history
<1>9. IInv'
      BY <1>1, <1>3, <1>4, <1>5, <1>6, <1>7, <1>8, MergeGoes
<1> QED BY <1>3, <1>9, CalmKeepsTexts

\* The step of a merge that leaves the rows alone, and goes on with the sources
\* and the target it had.
LEMMA MergeGoesOn ==
  ASSUME IInv, NEW r \in Requests, Merging(r), NEW local \in RequestStates, Merges(local),
         local.pc \in {"markTarget", "mark"}, local.into \in Names, local.text \in Texts,
         local.read = request[r].read, local.raced = request[r].raced,
         local.sources = request[r].sources, local.target \in Ids, local.target = request[r].target,
         request' = [request EXCEPT ![r] = local],
         UNCHANGED <<row, created, made, saves, mergeRaced>>, meta' \in MetaTables,
         merged' \subseteq Names, lost' \subseteq Names
  PROVE  IInv' /\ TextsKept
<1>1. Stored' /\ Calm
      BY RequestTyped, SameRows
<1>2. Shape(local)
      BY DEF Shape, Merges, Syncs
<1>3. ~local.raced =>
        /\ \A i \in local.sources :
             i # local.target /\ row'[i] # None /\ IsHuman(row'[i].cell) => IsHuman(local.read[i])
        /\ local.pc \in {"fill", "delete"} /\ (\E i \in Ids : IsHuman(local.read[i])) =>
             row'[local.target] # None /\ IsHuman(row'[local.target].cell)
      BY <1>1, KeepsOn
<1>4. IInv'
      BY <1>1, <1>2, <1>3, MergeGoes
<1> QED BY <1>1, <1>4, CalmKeepsTexts

LEMMA DeleteOldKeeps ==
  ASSUME IInv, NEW r \in Requests, DeleteOld(r)
  PROVE  IInv' /\ TextsKept
<1> DEFINE q == request[r]
           Without(i) == [q EXCEPT !.sources = q.sources \ {i}]
<1>1. Merging(r) /\ q.pc = "delete" /\ UNCHANGED <<created, meta, made, saves, merged, mergeRaced>>
      BY DEF DeleteOld, At, Merging
<1>2. /\ q \in RequestStates /\ Stored /\ meta' \in MetaTables /\ q.into \in Names /\ q.text \in Texts
      /\ q.target \in Ids /\ q.target \notin q.sources /\ q.sources \subseteq Ids
      BY <1>1, MergeState
<1>3. merged' \subseteq Names
      BY <1>1 DEF IInv, TypeOK
<1>4. CASE q.sources = {} /\ GoTo(r, "markTarget") /\ UNCHANGED <<row, lost>>
  <2> DEFINE local == [q EXCEPT !.pc = "markTarget"]
  <2>1. /\ local \in RequestStates /\ local.pc = "markTarget" /\ local.target = q.target
        /\ local.into = q.into /\ local.text = q.text /\ local.sources = q.sources
        /\ local.read = q.read /\ local.raced = q.raced
        BY <1>2 DEF RequestStates
  <2>2. request' = [request EXCEPT ![r] = local]
        BY <1>4, GoToStep
  <2> HIDE DEF local
  <2>3. Merges(local)
        BY <2>1 DEF Merges
  <2>4. lost' \subseteq Names
        BY <1>4 DEF IInv, TypeOK
  <2> QED BY <1>1, <1>2, <1>3, <1>4, <2>1, <2>2, <2>3, <2>4, MergeGoesOn
<1>5. ASSUME NEW i \in q.sources \cap Live, row' = [row EXCEPT ![i] = None], lost' = lost \cup {row[i].name},
             request' = [request EXCEPT ![r] = Without(i)]
      PROVE  IInv' /\ TextsKept
  <2> DEFINE local == Without(i)
  <2>1. i \in Ids /\ row[i] # None /\ i # q.target
        BY <1>2, <1>5 DEF Live
  <2>2. Stored' /\ \A j \in Ids : row'[j] = IF j = i THEN None ELSE row[j]
        BY <1>1, <1>2, <1>5, <2>1, RowIsGone
  <2>3. /\ local \in RequestStates /\ local.pc = "delete" /\ local.target = q.target
        /\ local.into = q.into /\ local.text = q.text /\ local.sources = q.sources \ {i}
        /\ local.read = q.read /\ local.raced = q.raced
        BY <1>1, <1>2 DEF RequestStates
  <2>4. request' = [request EXCEPT ![r] = local]
        BY <1>5
  <2> HIDE DEF local
  <2>5. Merges(local) /\ Shape(local)
        BY <1>2, <2>3 DEF Shape, Merges, Syncs
  <2>6. ~q.raced =>
          /\ \A j \in q.sources : j # q.target /\ HumanAt(j) => IsHuman(q.read[j])
          /\ (\E j \in Ids : IsHuman(q.read[j])) => HumanAt(q.target)
        BY <1>1, RequestTyped DEF Keeps, Merges
  <2>7. ~local.raced =>
          /\ \A j \in local.sources :
               j # local.target /\ row'[j] # None /\ IsHuman(row'[j].cell) => IsHuman(local.read[j])
          /\ local.pc \in {"fill", "delete"} /\ (\E j \in Ids : IsHuman(local.read[j])) =>
               row'[local.target] # None /\ IsHuman(row'[local.target].cell)
        BY <1>2, <2>1, <2>2, <2>3, <2>6 DEF HumanAt
  <2>8. lost' \subseteq Names
    <3>1. row[i].name \in Names /\ lost \subseteq Names
          BY <1>2, <2>1, LiveRow DEF IInv, TypeOK
    <3> QED BY <1>5, <3>1
  <2>9. IInv'
        BY <1>1, <1>3, <2>2, <2>3, <2>4, <2>5, <2>7, <2>8, MergeGoes
  <2>10. ASSUME NEW by \in 1..saves, Held(by), ~Held(by)'
         PROVE  \E p \in Requests :
                  /\ Merging(p)
                  /\ \/ request[p].raced
                     \/ \E j \in Ids \cap {request[p].target} : row'[j] # None /\ IsHuman(row'[j].cell)
    <3>1. PICK j \in Live : IsHuman(row[j].cell) /\ row[j].cell.by = by
          BY <2>10 DEF Held
    <3>2. j = i
      <4> SUFFICES ASSUME j # i PROVE FALSE
          OBVIOUS
      <4>1. j \in Ids /\ row'[j] = row[j] /\ row[j] # None
            BY <2>2, <3>1 DEF Live
      <4>2. j \in Live'
            BY <4>1 DEF Live
      <4> QED BY <2>10, <3>1, <4>1, <4>2 DEF Held, IsHuman
    <3>3. q.raced \/ HumanAt(q.target)
          BY <1>5, <2>1, <2>6, <3>1, <3>2 DEF HumanAt
    <3>4. HumanAt(q.target) => row'[q.target] # None /\ IsHuman(row'[q.target].cell)
          BY <1>2, <2>1, <2>2 DEF HumanAt
    <3> QED BY <1>1, <1>2, <3>3, <3>4
  <2>11. TextsKept
         BY <2>10 DEF TextsKept
  <2> QED BY <2>9, <2>11
<1>6. \A i : [q EXCEPT !.sources = @ \ {i}] = Without(i)
      BY <1>2 DEF RequestStates
<1> HIDE DEF Without
<1> QED BY <1>4, <1>5, <1>6 DEF DeleteOld, Go

LEMMA MarkTargetKeeps ==
  ASSUME IInv, NEW r \in Requests, MarkTarget(r)
  PROVE  IInv' /\ TextsKept
<1> DEFINE q == request[r]
           n == q.into
           used == meta[n] # None /\ meta[n].used
           new == [deprecated |-> FALSE, replacement |-> None, used |-> used]
           local == [q EXCEPT !.pc = "mark", !.names = q.names \ {n}]
<1>1. Merging(r) /\ q.pc = "markTarget" /\ UNCHANGED <<row, created, history>>
      BY DEF MarkTarget, At, Merging
<1>2. /\ q \in RequestStates /\ meta \in MetaTables /\ n \in Names /\ q.text \in Texts
      /\ q.target \in Ids /\ q.names \subseteq Names
      BY <1>1, MergeState
<1>3. meta' = [meta EXCEPT ![n] = new]
      BY <1>2 DEF MarkTarget, MetaTables
<1>4. used \in BOOLEAN
      OBVIOUS
<1> HIDE DEF used
<1>5. new \in Maybe(Metas)
      BY <1>4 DEF Metas, Maybe
<1> HIDE DEF new
<1>6. meta' \in MetaTables
      BY <1>2, <1>3, <1>5 DEF MetaTables
<1>7. request' = [request EXCEPT ![r] = local]
      BY <1>2 DEF MarkTarget, Go, RequestStates
<1>8. /\ local \in RequestStates /\ local.pc = "mark" /\ local.target = q.target
      /\ local.into = q.into /\ local.text = q.text /\ local.sources = q.sources
      /\ local.read = q.read /\ local.raced = q.raced
      BY <1>2 DEF RequestStates
<1> HIDE DEF local
<1>9. Merges(local)
      BY <1>8 DEF Merges
<1>10. merged' \subseteq Names /\ lost' \subseteq Names /\ UNCHANGED <<made, saves, mergeRaced>>
       BY <1>1 DEF IInv, TypeOK, history
<1> QED BY <1>1, <1>2, <1>6, <1>7, <1>8, <1>9, <1>10, MergeGoesOn

LEMMA MarkKeeps ==
  ASSUME IInv, NEW r \in Requests, Mark(r)
  PROVE  IInv' /\ TextsKept
<1> DEFINE q == request[r]
<1>1. Merging(r) /\ q.pc = "mark" /\ UNCHANGED <<row, created, made, saves, mergeRaced>>
      BY DEF Mark, At, Merging
<1>2. /\ q \in RequestStates /\ Stored /\ meta \in MetaTables /\ q.into \in Names /\ q.text \in Texts
      /\ q.target \in Ids /\ q.names \subseteq Names
      BY <1>1, MergeState
<1>3. PICK n \in q.names :
        LET used == meta[n] # None /\ meta[n].used
        IN  /\ meta' = [meta EXCEPT ![n] = [deprecated |-> TRUE, replacement |-> q.into, used |-> used]]
            /\ merged' = merged \cup {n} /\ lost' = lost \ {n}
            /\ Go(r, IF used \/ q.names = {n} THEN Idle ELSE [q EXCEPT !.names = @ \ {n}])
      BY DEF Mark
<1> DEFINE used == meta[n] # None /\ meta[n].used
           new == [deprecated |-> TRUE, replacement |-> q.into, used |-> used]
           local == [q EXCEPT !.names = q.names \ {n}]
<1>4. used \in BOOLEAN
      OBVIOUS
<1>5. meta' = [meta EXCEPT ![n] = new]
      BY <1>3
<1>6. merged' \subseteq Names /\ lost' \subseteq Names
      BY <1>2, <1>3 DEF IInv, TypeOK
<1>7. request' = [request EXCEPT ![r] = Idle] \/ request' = [request EXCEPT ![r] = local]
      BY <1>2, <1>3 DEF Go, RequestStates
<1> HIDE DEF used
<1>8. new \in Maybe(Metas)
      BY <1>2, <1>4 DEF Metas, Maybe
<1> HIDE DEF new
<1>9. meta' \in MetaTables
      BY <1>2, <1>5, <1>8 DEF MetaTables
<1>10. CASE request' = [request EXCEPT ![r] = Idle]
  <2>1. Stored' /\ Calm
        BY <1>1, <1>2, <1>9, SameRows
  <2> QED BY <1>1, <1>6, <1>10, <2>1, IdleType, SyncGoes
<1>11. CASE request' = [request EXCEPT ![r] = local]
  <2>1. /\ local \in RequestStates /\ local.pc = "mark" /\ local.target = q.target
        /\ local.into = q.into /\ local.text = q.text /\ local.sources = q.sources
        /\ local.read = q.read /\ local.raced = q.raced
        BY <1>1, <1>2 DEF RequestStates
  <2> HIDE DEF local
  <2>2. Merges(local)
        BY <2>1 DEF Merges
  <2> QED BY <1>1, <1>2, <1>6, <1>9, <1>11, <2>1, <2>2, MergeGoesOn
<1> QED BY <1>7, <1>10, <1>11
-----------------------------------------------------------------------------
(* The whole *)

\* A saved text is not a loss; a merge that does not know it is raced now.
LEMMA SaveKeeps ==
  ASSUME IInv, NEW i \in Ids, Save(i)
  PROVE  IInv' /\ TextsKept
<1> DEFINE cell == [owner |-> "human", by |-> saves']
           new == [row[i] EXCEPT !.cell = cell]
           Raced(q) == request[q].raced \/ (Merging(q) /\ i \in request[q].sources \cup {request[q].target})
<1>1. /\ request \in [Requests -> RequestStates] /\ made \in Nat /\ saves \in 0..MaxSaves
      /\ merged \subseteq Names /\ lost \subseteq Names /\ mergeRaced \in BOOLEAN
      /\ Stored /\ meta \in MetaTables
      BY TypeParts DEF IInv, Stored
<1>2. /\ row[i] # None /\ saves < MaxSaves /\ saves' = saves + 1
      /\ row' = [row EXCEPT ![i].cell = cell]
      /\ request' = [q \in Requests |-> [request[q] EXCEPT !.raced =
                       @ \/ (Merging(q) /\ i \in request[q].sources \cup {request[q].target})]]
      /\ UNCHANGED <<created, meta, made, merged, lost, mergeRaced>>
      BY DEF Save
<1>3. saves' \in 0..MaxSaves /\ saves' > saves
      BY <1>1, <1>2, ConstantsAssumption
<1>4. cell \in Cells
      BY <1>3, ConstantsAssumption DEF Cells
<1>5. row' = [row EXCEPT ![i] = new]
      BY <1>1, <1>2 DEF Stored
<1> HIDE DEF cell
<1>6. row[i] \in Rows
      BY <1>1, <1>2, LiveRow
<1>7. new \in Rows /\ new.name = row[i].name
      BY <1>4, <1>6 DEF Rows
<1> HIDE DEF new
<1>8. \A j \in Live : row[j].name = new.name => j = i
      BY <1>1, <1>2, <1>7, SameName
<1>9. meta' \in MetaTables
      BY <1>1, <1>2
<1>10. Stored' /\ \A j \in Ids : row'[j] = IF j = i THEN new ELSE row[j]
       BY <1>1, <1>2, <1>5, <1>7, <1>8, <1>9, RowIsStored
<1>11. ASSUME NEW q \in Requests PROVE request'[q] = [request[q] EXCEPT !.raced = Raced(q)] /\ Raced(q) \in BOOLEAN
  <2>1. request[q].raced \in BOOLEAN
        BY <1>1 DEF RequestStates
  <2> QED BY <1>1, <1>2, <2>1 DEF RequestStates
<1>12. ASSUME NEW q \in Requests
       PROVE  /\ request'[q] \in RequestStates /\ request'[q].pc = request[q].pc
              /\ request'[q].name = request[q].name /\ request'[q].text = request[q].text
              /\ request'[q].from = request[q].from /\ request'[q].old = request[q].old
              /\ request'[q].into = request[q].into /\ request'[q].sources = request[q].sources
              /\ request'[q].read = request[q].read /\ request'[q].target = request[q].target
              /\ (request'[q].raced <=> Raced(q))
  <2> DEFINE raced == Raced(q)
  <2>1. request'[q] = [request[q] EXCEPT !.raced = raced] /\ raced \in BOOLEAN
        BY <1>11
  <2> HIDE DEF raced
  <2>2. /\ request'[q] \in RequestStates /\ request'[q].pc = request[q].pc
        /\ request'[q].name = request[q].name /\ request'[q].text = request[q].text
        /\ request'[q].from = request[q].from /\ request'[q].old = request[q].old
        /\ request'[q].into = request[q].into /\ request'[q].sources = request[q].sources
        /\ request'[q].read = request[q].read /\ request'[q].target = request[q].target
        /\ request'[q].raced = raced
        BY <1>1, <2>1 DEF RequestStates
  <2> QED BY <2>2 DEF raced
<1>13. TypeOK'
  <2>1. request' \in [Requests -> RequestStates]
        BY <1>2, <1>12
  <2> QED BY <1>1, <1>2, <1>3, <1>10, <2>1 DEF TypeOK, Stored, MetaTables
<1>14. Exclusive'
  <2>1. \A p, q \in Requests : p # q /\ Merges(request'[p]) /\ Merges(request'[q]) => request'[p].raced
        BY <1>12 DEF IInv, Exclusive, Merging, Merges
  <2> QED BY <2>1 DEF Exclusive, Merging, Merges
<1>15. ASSUME NEW q \in Requests PROVE Shape(request[q])'
  <2>1. Shape(request[q])
        BY DEF IInv
  <2> QED BY <1>12, <2>1 DEF Shape, Syncs, Merges
<1>16. ASSUME NEW q \in Requests PROVE Keeps(request[q])'
  <2>1. CASE ~(Merges(request[q]) /\ ~Raced(q))
    <3> HIDE DEF Raced
    <3> QED BY <1>12, <2>1 DEF Keeps, Merges
  <2>2. CASE Merges(request[q]) /\ ~Raced(q)
    <3>1. Keeps(request[q]) /\ Merging(q) /\ Shape(request[q])
          BY <2>2 DEF IInv, Merging, Merges
    <3>2. ~request[q].raced /\ i \notin request[q].sources /\ i # request[q].target
          BY <2>2, <3>1
    <3>3. request[q].sources \subseteq Ids /\ (request[q].pc # "target" => request[q].target \in Ids)
          BY <3>1, MergeState
    <3>4. /\ \A j \in request[q].sources : j # request[q].target /\ HumanAt(j) => IsHuman(request[q].read[j])
          /\ request[q].pc \in {"fill", "delete"} /\ (\E j \in Ids : IsHuman(request[q].read[j]))
               => HumanAt(request[q].target)
          BY <2>2, <3>1, <3>2 DEF Keeps
    <3>5. /\ \A j \in request'[q].sources :
               j # request'[q].target /\ row'[j] # None /\ IsHuman(row'[j].cell) => IsHuman(request'[q].read[j])
          /\ request'[q].pc \in {"fill", "delete"} /\ (\E j \in Ids : IsHuman(request'[q].read[j]))
               => row'[request'[q].target] # None /\ IsHuman(row'[request'[q].target].cell)
          BY <1>10, <1>12, <3>2, <3>3, <3>4 DEF HumanAt
    <3> QED BY <3>5 DEF Keeps, HumanAt
  <2> QED BY <2>1, <2>2
<1>17. TextsKept
       BY <1>3 DEF TextsKept
<1> QED BY <1>13, <1>14, <1>15, <1>16, <1>17 DEF IInv

LEMMA InitHolds == Init => IInv
<1> SUFFICES ASSUME Init PROVE IInv
    OBVIOUS
<1>1. PICK names \in SUBSET Names, text \in [Names -> Texts], used \in BOOLEAN :
        \E name \in [1..Cardinality(names) -> names] :
          /\ Cardinality(names) <= MaxRows
          /\ \A i, j \in 1..Cardinality(names) : i # j => name[i] # name[j]
          /\ row = [i \in Ids |-> IF i <= Cardinality(names)
                                  THEN [name |-> name[i], text |-> text[name[i]], cell |-> Machine]
                                  ELSE None]
          /\ created = Cardinality(names)
          /\ meta = [n \in Names |->
                       IF n \in names THEN [deprecated |-> FALSE, replacement |-> None, used |-> used]
                       ELSE None]
      BY DEF Init
<1> DEFINE size == Cardinality(names)
<1>2. PICK name \in [1..size -> names] :
        /\ size <= MaxRows
        /\ \A i, j \in 1..size : i # j => name[i] # name[j]
        /\ row = [i \in Ids |-> IF i <= size
                                THEN [name |-> name[i], text |-> text[name[i]], cell |-> Machine]
                                ELSE None]
        /\ created = size
        /\ meta = [n \in Names |->
                     IF n \in names THEN [deprecated |-> FALSE, replacement |-> None, used |-> used]
                     ELSE None]
      BY <1>1
<1>3. size \in Nat
      BY FS_Subset, FS_CardinalityType, ConstantsAssumption
<1> HIDE DEF size
<1> DEFINE First(i) == [name |-> name[i], text |-> text[name[i]], cell |-> Machine]
<1>4. ASSUME NEW i \in Ids
      PROVE  /\ i <= size => i \in 1..size /\ row[i] = First(i) /\ row[i].name = name[i]
             /\ i <= size => row[i] \in Rows
             /\ ~(i <= size) => row[i] = None
  <2>1. i <= size => i \in 1..size
        BY <1>3 DEF Ids
  <2>2. i <= size => name[i] \in Names /\ text[name[i]] \in Texts
        BY <1>1, <1>2, <2>1
  <2>3. row[i] = IF i <= size THEN First(i) ELSE None
        BY <1>2
  <2>4. i <= size => First(i) \in Rows /\ First(i).name = name[i]
        BY <2>2, IdleType DEF Rows
  <2> HIDE DEF First
  <2> QED BY <2>1, <2>3, <2>4
<1> HIDE DEF First
<1>5. row \in [Ids -> Maybe(Rows)]
  <2>1. \A i \in Ids : row[i] \in Maybe(Rows)
        BY <1>4 DEF Maybe
  <2>2. row = [i \in Ids |-> row[i]]
        BY <1>2
  <2> QED BY <2>1, <2>2
<1>6. created \in 0..MaxRows /\ \A i \in Ids : row[i] # None => i <= created
      BY <1>2, <1>3, <1>4, ConstantsAssumption
<1>7. \A i, j \in Live : row[i].name = row[j].name => i = j
      BY <1>2, <1>4 DEF Live
<1>8. meta \in MetaTables
  <2>1. [deprecated |-> FALSE, replacement |-> None, used |-> used] \in Metas
        BY <1>1 DEF Metas, Maybe
  <2> QED BY <1>2, <2>1 DEF MetaTables, Maybe
<1>9. request = [r \in Requests |-> Idle] /\ made = 0 /\ saves = 0 /\ merged = {} /\ lost = {}
      /\ mergeRaced = FALSE
      BY DEF Init
<1>10. TypeOK
  <2>1. request \in [Requests -> RequestStates] /\ saves \in 0..MaxSaves
        BY <1>9, IdleType, ConstantsAssumption
  <2> QED BY <1>5, <1>6, <1>7, <1>8, <1>9, <2>1 DEF TypeOK, MetaTables
<1>11. \A r \in Requests : request[r] = Idle
       BY <1>9
<1> QED BY <1>10, <1>11, IdleType DEF IInv, Exclusive, Merging, Merges, Keeps

LEMMA StutterKeeps == IInv /\ UNCHANGED vars => IInv' /\ TextsKept
<1> SUFFICES ASSUME IInv, UNCHANGED vars PROVE IInv' /\ TextsKept
    OBVIOUS
<1>1. UNCHANGED <<row, created, meta, request, made, saves, merged, lost, mergeRaced>>
      BY DEF vars, store, history
<1>2. Stored' /\ Calm
  <2>1. Stored /\ meta' \in MetaTables
        BY <1>1, TypeParts DEF IInv, Stored
  <2> QED BY <1>1, <2>1, SameRows
<1>3. TypeOK'
      BY <1>1, <1>2, TypeParts DEF IInv, TypeOK, Stored, MetaTables
<1>4. Exclusive' /\ \A r \in Requests : Shape(request[r])' /\ Keeps(request[r])'
      BY <1>1 DEF IInv, Exclusive, Merging, Shape, Syncs, Keeps, Merges, HumanAt
<1> QED BY <1>2, <1>3, <1>4, CalmKeepsTexts DEF IInv

LEMMA NextKeeps == IInv /\ [Next]_vars => IInv' /\ TextsKept
<1> SUFFICES ASSUME IInv, [Next]_vars PROVE IInv' /\ TextsKept
    OBVIOUS
<1>1. ASSUME NEW r \in Requests, Step(r) PROVE IInv' /\ TextsKept
  <2>1. CASE Lookup(r) BY <2>1, LookupKeeps
  <2>2. CASE Detect(r) BY <2>2, DetectKeeps
  <2>3. CASE Rename(r) BY <2>3, RenameKeeps
  <2>4. CASE RenameMeta(r) BY <2>4, RenameMetaKeeps
  <2>5. CASE Change(r) BY <2>5, ChangeKeeps
  <2>6. CASE Create(r) BY <2>6, CreateKeeps
  <2>7. CASE DetectNew(r) BY <2>7, DetectNewKeeps
  <2>8. CASE FillNew(r) BY <2>8, FillNewKeeps
  <2>9. CASE Touch(r) BY <2>9, TouchKeeps
  <2>10. CASE Deprecate(r) BY <2>10, DeprecateKeeps
  <2>11. CASE Synced(r) BY <2>11, EndKeeps DEF Synced
  <2>12. CASE Target(r) BY <2>12, TargetKeeps
  <2>13. CASE Consolidate(r) BY <2>13, ConsolidateKeeps
  <2>14. CASE Fill(r) BY <2>14, FillKeeps
  <2>15. CASE DeleteOld(r) BY <2>15, DeleteOldKeeps
  <2>16. CASE MarkTarget(r) BY <2>16, MarkTargetKeeps
  <2>17. CASE Mark(r) BY <2>17, MarkKeeps
  <2>18. CASE Throw(r) BY <2>18, EndKeeps DEF Throw
  <2>19. CASE Crash(r) BY <2>19, EndKeeps DEF Crash
  <2> QED BY <1>1, <2>1, <2>2, <2>3, <2>4, <2>5, <2>6, <2>7, <2>8, <2>9, <2>10, <2>11, <2>12,
             <2>13, <2>14, <2>15, <2>16, <2>17, <2>18, <2>19 DEF Step
<1>2. CASE \E r \in Requests, n \in Names, text \in Texts, usage \in BOOLEAN, gone \in SUBSET Names :
             Sync(r, n, text, usage, gone)
      BY <1>2, SyncKeeps
<1>3. CASE \E r \in Requests, n \in Names, text \in Texts, names \in SUBSET Names :
             Merge(r, names, n, text)
      BY <1>3, MergeKeeps
<1>4. CASE \E i \in Ids : Save(i)
      BY <1>4, SaveKeeps
<1>5. CASE UNCHANGED vars
      BY <1>5, StutterKeeps
<1> QED BY <1>1, <1>2, <1>3, <1>4, <1>5 DEF Next

LEMMA Invariant == Spec => []IInv
BY InitHolds, NextKeeps, PTL DEF Spec

\* translation-service.ts:403, :663: through merges, renames and syncs side by
\* side, crashes and queries that throw, the tables hold what their types say
\* and no two keys have one name.
THEOREM TypeCorrect == Spec => []TypeOK
<1>1. IInv => TypeOK
      BY DEF IInv
<1> QED BY <1>1, Invariant, PTL

\* translation-service.ts:689: a text that a person saved is lost only to
\* another save, or to another person's text in a merge.
THEOREM HumanTextsAreKept == Spec => HumanTextsKept
<1>1. IInv /\ [Next]_vars => [TextsKept]_vars
      BY NextKeeps
<1> QED BY <1>1, Invariant, PTL DEF Spec, HumanTextsKept, TextsKept
-----------------------------------------------------------------------------
(* A sync that no other request runs beside is the only one to write names  *)
(* and texts, so its row stays as it left it (OnCourse); and no step of a   *)
(* sync changes where an alias leads (AliasesStay).                         *)

Lone == \A r, q \in Requests : r # q /\ request[r].alone => ~Running(q)

Holds(i, n) == row[i] # None /\ row[i].name = n

Effect(q) == (\E i \in Named(q.name) : row[i].text = q.text) \/ LeadsToKey(q.name)

Deprecated(n) == meta[n] # None /\ meta[n].deprecated

OnCourse(q) ==
  q.alone /\ Syncs(q) =>
    /\ q.pc \in {"lookup", "touch", "create", "detect", "detectNew"} => q.old = None
    /\ q.pc \in {"touch", "detectNew", "fillNew"} => Holds(q.from, q.name) /\ row[q.from].text = q.text
    /\ q.pc \in {"renameMeta", "change"} => Holds(q.from, q.name)
    /\ q.pc = "renameMeta" /\ ~q.rewrite => row[q.from].text = q.text
    /\ q.pc = "rename" => /\ Holds(q.from, q.old) /\ q.old # q.name
                          /\ ~q.rewrite => row[q.from].text = q.text
    /\ q.pc = "detect" => LeadsToKey(q.name)
    /\ q.pc \in {"renameMeta", "change", "fillNew", "deprecate", "synced"} => Named(q.old) = {}
    /\ q.pc \in {"deprecate", "synced"} => Effect(q)
    /\ q.pc = "synced" => \A n \in q.gone : Named(n) # {} => Deprecated(n)

Course == Lone /\ \A r \in Requests : OnCourse(request[r])

LEMMA NoneNamed ==
  ASSUME Stored
  PROVE  Named(None) = {}
BY LiveRow, ConstantsAssumption DEF Named, Live

LEMMA HeldIsNamed ==
  ASSUME NEW i \in Ids, NEW n, Holds(i, n)
  PROVE  i \in Named(n)
BY DEF Holds, Named, Live

\* A step that keeps names and aliases keeps what leads to a key.
LEMMA LeadsOn ==
  ASSUME Aliases' = Aliases, NEW n \in Names, LeadsToKey(n),
         \A m : Named(m) # {} => Named(m)' # {}
  PROVE  LeadsToKey(n)'
<1>1. Resolved(n)' = Resolved(n)
      BY DEF Resolved, HasAlias
<1>2. PICK m : m = Resolved(n)
      OBVIOUS
<1>3. m # None /\ Named(m) # {}
      BY <1>2 DEF LeadsToKey
<1>4. Named(m)' # {}
      BY <1>3
<1> QED BY <1>1, <1>2, <1>3, <1>4 DEF LeadsToKey

\* Detections leave aliases as they are.
LEMMA AliasesStay ==
  ASSUME NEW n \in Names, NEW usage \in BOOLEAN, meta \in MetaTables, meta' \in Detection(n, usage)
  PROVE  Aliases' = Aliases
<1>1. CASE meta' = meta
      BY <1>1 DEF Aliases
<1>2. CASE meta[n] = None
  <2> DEFINE new == [deprecated |-> FALSE, replacement |-> None, used |-> usage]
  <2>1. meta' = [meta EXCEPT ![n] = new] /\ new.replacement = None
        BY <1>2 DEF Detection
  <2> HIDE DEF new
  <2> QED BY <1>2, <2>1 DEF Aliases, MetaTables
<1>3. CASE meta[n] # None /\ meta' # meta
  <2> DEFINE used == meta[n].used \/ usage
             new == [meta[n] EXCEPT !.deprecated = FALSE, !.used = used]
  <2>1. meta[n] \in Metas
        BY <1>3 DEF MetaTables, Maybe
  <2>2. meta' = [meta EXCEPT ![n] = new]
        BY <1>3 DEF Detection, MetaTables
  <2>3. new.replacement = meta[n].replacement
        BY <2>1 DEF Metas
  <2>4. new # None
        BY <2>1, ConstantsAssumption DEF Metas, Maybe
  <2> HIDE DEF new
  <2> QED BY <1>3, <2>2, <2>3, <2>4 DEF Aliases, MetaTables
<1> QED BY <1>1, <1>2, <1>3

\* Each step of a request keeps the course when it keeps its own.
LEMMA CourseGoes ==
  ASSUME IInv, Course, NEW r \in Requests, Running(r), NEW local,
         request' = [request EXCEPT ![r] = local], local.alone => request[r].alone,
         OnCourse(local)'
  PROVE  Course'
<1>1. request \in [Requests -> RequestStates]
      BY TypeParts DEF IInv
<1>2. \A q \in Requests : request'[q] = IF q = r THEN local ELSE request[q]
      BY <1>1
<1>3. \A q \in Requests : q # r => ~request[q].alone
      BY DEF Course, Lone
<1>4. Lone'
      BY <1>2, <1>3 DEF Course, Lone, Running, At
<1>5. ASSUME NEW q \in Requests PROVE OnCourse(request[q])'
  <2>1. CASE q = r
        BY <1>2, <2>1
  <2>2. CASE q # r
    <3>1. ~request'[q].alone
          BY <1>2, <1>3, <2>2
    <3> QED BY <3>1 DEF OnCourse
  <2> QED BY <2>1, <2>2
<1> QED BY <1>4, <1>5 DEF Course

\* One that is no sync any more has nothing to keep.
LEMMA CourseEnds ==
  ASSUME IInv, Course, NEW r \in Requests, Running(r), NEW local,
         request' = [request EXCEPT ![r] = local], local.alone => request[r].alone, ~Syncs(local)
  PROVE  Course'
<1>1. OnCourse(local)'
      BY DEF OnCourse, Syncs
<1> QED BY <1>1, CourseGoes

LEMMA SyncTyped ==
  ASSUME IInv, NEW r \in Requests, Syncs(request[r])
  PROVE  /\ request[r] \in RequestStates /\ Running(r) /\ Stored /\ meta \in MetaTables
         /\ request[r].name \in Names /\ request[r].text \in Texts /\ request[r].usage \in BOOLEAN
         /\ request[r].gone \subseteq Names /\ request[r].alone \in BOOLEAN
         /\ request[r].pc \in {"touch", "change", "rename", "renameMeta", "detectNew", "fillNew"} => request[r].from \in Ids
         /\ request[r].pc = "detect" => request[r].into \in Names
         /\ Named(None) = {}
BY RequestTyped, NoneNamed DEF Shape, Syncs, Running, At, RequestStates

\* A sync that goes on, and has changed nothing of itself but where it is.
LEMMA SyncAt ==
  ASSUME IInv, NEW r \in Requests, Syncs(request[r]), NEW pc, NEW local,
         local = [request[r] EXCEPT !.pc = pc]
  PROVE  /\ local.pc = pc /\ local.name = request[r].name /\ local.text = request[r].text
         /\ local.from = request[r].from /\ local.old = request[r].old /\ local.gone = request[r].gone
         /\ local.rewrite = request[r].rewrite /\ local.into = request[r].into
         /\ local.alone = request[r].alone
BY SyncTyped DEF RequestStates

LEMMA LookupOnCourse ==
  ASSUME IInv, Course, NEW r \in Requests, Lookup(r)
  PROVE  Course'
<1>0. PICK q : q = request[r]
      OBVIOUS
<1>a. PICK alias : alias = Alias(q.name)
      OBVIOUS
<1> DEFINE known == [q EXCEPT !.pc = "detect", !.into = alias]
           create == [q EXCEPT !.pc = "create"]
           Renaming(i) == [q EXCEPT !.pc = "rename", !.from = i, !.old = row[i].name,
                                    !.rewrite = row[i].text # q.text]
<1>1. q.pc = "lookup" /\ Syncs(q) /\ UNCHANGED <<row, created, meta>>
      BY <1>0 DEF Lookup, At, Syncs, store
<1>2. q \in RequestStates /\ Running(r) /\ Stored /\ q.name \in Names /\ OnCourse(q)
      BY <1>0, <1>1, SyncTyped DEF Course
<1>3. CASE alias \in Names /\ request' = [request EXCEPT ![r] = known]
  <2>1. known.pc = "detect" /\ known.name = q.name /\ known.alone = q.alone /\ known.old = q.old
        BY <1>0, <1>2, <1>3 DEF RequestStates, Maybe
  <2>2. LeadsToKey(q.name)
        BY <1>a, <1>0, <1>3, ConstantsAssumption DEF Alias
  <2>3. Aliases' = Aliases /\ \A m : Named(m)' = Named(m)
        BY <1>0, <1>1 DEF Aliases, Named, Live
  <2>4. LeadsToKey(q.name)'
        BY <1>0, <1>2, <2>2, <2>3, LeadsOn
  <2> HIDE DEF known
  <2>5. OnCourse(known)'
        BY <1>0, <1>1, <1>2, <2>1, <2>4 DEF OnCourse
  <2> QED BY <1>0, <1>2, <1>3, <2>1, <2>5, CourseGoes
<1>4. CASE request' = [request EXCEPT ![r] = create]
  <2>1. create.pc = "create" /\ create.alone = q.alone /\ create.old = q.old
        BY <1>0, <1>2 DEF RequestStates
  <2> HIDE DEF create
  <2>2. OnCourse(create)'
        BY <1>0, <1>1, <1>2, <2>1 DEF OnCourse
  <2> QED BY <1>0, <1>2, <1>4, <2>1, <2>2, CourseGoes
<1>5. ASSUME NEW i \in Candidates(r), request' = [request EXCEPT ![r] = Renaming(i)]
      PROVE  Course'
  <2>0. PICK renaming : renaming = Renaming(i)
        OBVIOUS
  <2>1. i \in Ids /\ row[i] # None /\ row[i].name # q.name
        BY <1>0, <1>5 DEF Candidates, Live
  <2>2. /\ renaming.pc = "rename" /\ renaming.name = q.name /\ renaming.alone = q.alone
        /\ renaming.text = q.text /\ renaming.from = i /\ renaming.old = row[i].name
        /\ ~renaming.rewrite => row[i].text = q.text
        BY <1>0, <1>2, <2>0 DEF RequestStates
  <2>3. OnCourse(renaming)'
        BY <1>0, <1>1, <2>1, <2>2 DEF OnCourse, Holds
  <2>4. request' = [request EXCEPT ![r] = renaming]
        BY <1>5, <2>0
  <2> QED BY <1>0, <1>2, <2>2, <2>3, <2>4, CourseGoes
<1>6. \/ alias \in Names /\ Go(r, known)
      \/ GoTo(r, "create")
      \/ \E i \in Candidates(r) : Go(r, Renaming(i))
      BY <1>0, <1>a DEF Lookup
<1> QED BY <1>0, <1>3, <1>4, <1>5, <1>6, GoToStep DEF Go

LEMMA DetectOnCourse ==
  ASSUME IInv, Course, NEW r \in Requests, Detect(r)
  PROVE  Course'
<1>0. PICK q : q = request[r]
      OBVIOUS
<1> DEFINE local == [q EXCEPT !.pc = "deprecate"]
<1>1. q.pc = "detect" /\ Syncs(q) /\ UNCHANGED row
      BY <1>0 DEF Detect, At, Syncs
<1>2. /\ q \in RequestStates /\ Running(r) /\ meta \in MetaTables /\ q.name \in Names /\ OnCourse(q)
      /\ q.into \in Names /\ q.usage \in BOOLEAN /\ Named(None) = {}
      BY <1>0, <1>1, SyncTyped DEF Course
<1>3. Aliases' = Aliases
      BY <1>0, <1>2, AliasesStay DEF Detect
<1>4. \A m : Named(m)' = Named(m)
      BY <1>0, <1>1 DEF Named, Live
<1>5. q.alone => LeadsToKey(q.name)'
      BY <1>0, <1>1, <1>2, <1>3, <1>4, LeadsOn DEF OnCourse
<1>6. /\ local.pc = "deprecate" /\ local.name = q.name /\ local.old = q.old /\ local.alone = q.alone
      /\ local.text = q.text
      BY <1>0, <1>1, SyncAt
<1>7. request' = [request EXCEPT ![r] = local]
      BY <1>0, GoToStep DEF Detect
<1> HIDE DEF local
<1>8. OnCourse(local)'
      BY <1>0, <1>1, <1>2, <1>4, <1>5, <1>6 DEF OnCourse, Effect
<1> QED BY <1>0, <1>2, <1>6, <1>7, <1>8, CourseGoes

LEMMA RenameOnCourse ==
  ASSUME IInv, Course, NEW r \in Requests, Rename(r)
  PROVE  Course'
<1>0. PICK q : q = request[r]
      OBVIOUS
<1> DEFINE i == q.from
           local == [q EXCEPT !.pc = "renameMeta"]
<1>1. /\ q.pc = "rename" /\ Syncs(q) /\ row[i] # None /\ row' = [row EXCEPT ![i].name = q.name]
      BY <1>0 DEF Rename, At, Syncs
<1>2. /\ q \in RequestStates /\ Running(r) /\ Stored /\ q.name \in Names /\ OnCourse(q) /\ i \in Ids
      BY <1>0, <1>1, SyncTyped DEF Course
<1>3. row[i] \in Rows
      BY <1>0, <1>1, <1>2, LiveRow
<1>4. /\ row'[i] # None /\ row'[i].name = q.name /\ row'[i].text = row[i].text
      /\ \A j \in Ids : j # i => row'[j] = row[j]
  <2> DEFINE new == [row[i] EXCEPT !.name = q.name]
  <2>1. new \in Rows /\ new.name = q.name /\ new.text = row[i].text
        BY <1>0, <1>2, <1>3 DEF Rows
  <2>2. row' = [row EXCEPT ![i] = new]
        BY <1>0, <1>1, <1>2 DEF Stored
  <2> HIDE DEF new
  <2> QED BY <1>0, <1>2, <2>1, <2>2, ConstantsAssumption DEF Stored
<1>5. /\ local.pc = "renameMeta" /\ local.name = q.name /\ local.old = q.old /\ local.alone = q.alone
      /\ local.text = q.text /\ local.from = i /\ local.rewrite = q.rewrite
      BY <1>0, <1>1, SyncAt
<1>6. request' = [request EXCEPT ![r] = local]
      BY <1>0, GoToStep DEF Rename
<1> HIDE DEF local
<1>7. q.alone => Named(q.old)' = {}
  <2> SUFFICES ASSUME q.alone, NEW j \in Ids, row'[j] # None, row'[j].name = q.old PROVE FALSE
      BY <1>0 DEF Named, Live
  <2>1. row[i].name = q.old /\ q.old # q.name
        BY <1>0, <1>1, <1>2 DEF OnCourse, Holds
  <2>2. j # i
        BY <1>0, <1>4, <2>1
  <2> QED BY <1>0, <1>1, <1>2, <1>4, <2>1, <2>2 DEF Stored, Live
<1>8. OnCourse(local)'
      BY <1>0, <1>1, <1>2, <1>4, <1>5, <1>7 DEF OnCourse, Holds
<1> QED BY <1>0, <1>2, <1>5, <1>6, <1>8, CourseGoes

LEMMA RenameMetaOnCourse ==
  ASSUME IInv, Course, NEW r \in Requests, RenameMeta(r)
  PROVE  Course'
<1>0. PICK q : q = request[r]
      OBVIOUS
<1> DEFINE pc == IF q.rewrite THEN "change" ELSE "fillNew"
           local == [q EXCEPT !.pc = pc]
<1>1. q.pc = "renameMeta" /\ Syncs(q) /\ UNCHANGED row
      BY <1>0 DEF RenameMeta, At, Syncs
<1>2. Running(r) /\ OnCourse(q)
      BY <1>0, <1>1, SyncTyped DEF Course
<1>3. CASE GoTo(r, pc)
  <2>1. /\ local.pc = pc /\ local.name = q.name /\ local.old = q.old /\ local.alone = q.alone
        /\ local.text = q.text /\ local.from = q.from
        BY <1>0, <1>1, SyncAt
  <2>2. request' = [request EXCEPT ![r] = local]
        BY <1>0, <1>3, GoToStep
  <2>3. \A m : Named(m)' = Named(m)
        BY <1>0, <1>1 DEF Named, Live
  <2> HIDE DEF local
  <2>4. OnCourse(local)'
        BY <1>0, <1>1, <1>2, <2>1, <2>3 DEF OnCourse, Holds
  <2> QED BY <1>0, <1>2, <2>1, <2>2, <2>4, CourseGoes
<1>4. CASE Go(r, Idle)
  <2>1. request' = [request EXCEPT ![r] = Idle] /\ ~Idle.alone /\ ~Syncs(Idle)
        BY <1>0, <1>4 DEF Go, Idle, Syncs
  <2> QED BY <1>0, <1>2, <2>1, CourseEnds
<1> QED BY <1>0, <1>3, <1>4 DEF RenameMeta

LEMMA ChangeOnCourse ==
  ASSUME IInv, Course, NEW r \in Requests, Change(r)
  PROVE  Course'
<1>0. PICK q : q = request[r]
      OBVIOUS
<1> DEFINE i == q.from
           local == [q EXCEPT !.pc = "deprecate"]
<1>1. q.pc = "change" /\ Syncs(q) /\ row[i] # None
      BY <1>0 DEF Change, At, Syncs
<1>2. /\ q \in RequestStates /\ Running(r) /\ Stored /\ q.text \in Texts /\ OnCourse(q) /\ i \in Ids
      BY <1>0, <1>1, SyncTyped DEF Course
<1>3. row[i] \in Rows /\ row[i].cell \in Cells
      BY <1>0, <1>1, <1>2, LiveRow
<1>4. /\ row'[i] # None /\ row'[i].name = row[i].name /\ row'[i].text = q.text
      /\ \A j \in Ids : j # i => row'[j] = row[j]
  <2> DEFINE owner == IF IsHuman(row[i].cell) THEN "stale" ELSE row[i].cell.owner
             cell == [row[i].cell EXCEPT !.owner = owner]
             new == [row[i] EXCEPT !.text = q.text, !.cell = cell]
  <2>1. row' = [row EXCEPT ![i] = new]
        BY <1>0, <1>1, <1>2, <1>3 DEF Change, Stored, Rows, Cells
  <2>2. owner \in {"human", "stale", "machine", "none"}
        BY <1>0, <1>3 DEF Cells
  <2> HIDE DEF owner
  <2>3. cell \in Cells
        BY <1>0, <1>3, <2>2 DEF Cells
  <2> HIDE DEF cell
  <2>4. new \in Rows /\ new.name = row[i].name /\ new.text = q.text
        BY <1>0, <1>2, <1>3, <2>3 DEF Rows
  <2> HIDE DEF new
  <2> QED BY <1>0, <1>2, <2>1, <2>4, ConstantsAssumption DEF Stored
<1>5. /\ local.pc = "deprecate" /\ local.name = q.name /\ local.old = q.old /\ local.alone = q.alone
      /\ local.text = q.text
      BY <1>0, <1>1, SyncAt
<1>6. request' = [request EXCEPT ![r] = local]
      BY <1>0, GoToStep DEF Change
<1> HIDE DEF local
<1>7. \A m : Named(m)' = Named(m)
      BY <1>0, <1>1, <1>2, <1>4 DEF Named, Live
<1>8. q.alone => \E j \in Named(q.name)' : row'[j].text = q.text
      BY <1>0, <1>1, <1>2, <1>4 DEF OnCourse, Holds, Named, Live
<1>9. OnCourse(local)'
      BY <1>0, <1>1, <1>2, <1>5, <1>7, <1>8 DEF OnCourse, Effect
<1> QED BY <1>0, <1>2, <1>5, <1>6, <1>9, CourseGoes

LEMMA CreateOnCourse ==
  ASSUME IInv, Course, NEW r \in Requests, Create(r)
  PROVE  Course'
<1>0. PICK q : q = request[r]
      OBVIOUS
<1> DEFINE State(i) == [q EXCEPT !.pc = "detectNew", !.from = i]
<1>1. q.pc = "create" /\ Syncs(q)
      BY <1>0 DEF Create, At, Syncs
<1>2. /\ q \in RequestStates /\ Running(r) /\ Stored /\ q.name \in Names /\ q.text \in Texts
      /\ meta \in MetaTables /\ OnCourse(q)
      BY <1>0, <1>1, SyncTyped DEF Course
<1>3. ASSUME NEW i \in Ids, request' = [request EXCEPT ![r] = State(i)],
             row'[i] # None, row'[i].name = q.name, row'[i].text = q.text
      PROVE  Course'
  <2> DEFINE local == State(i)
  <2>1. /\ local.pc = "detectNew" /\ local.from = i /\ local.name = q.name /\ local.text = q.text
        /\ local.old = q.old /\ local.alone = q.alone
        BY <1>2 DEF RequestStates
  <2>2. request' = [request EXCEPT ![r] = local]
        BY <1>3
  <2> HIDE DEF local
  <2>3. OnCourse(local)'
        BY <1>1, <1>2, <1>3, <2>1 DEF OnCourse, Holds
  <2> QED BY <1>0, <1>2, <2>1, <2>2, <2>3, CourseGoes
<1>4. \/ /\ Named(q.name) = {} /\ created < MaxRows /\ created' = created + 1
         /\ row' = [row EXCEPT ![created'] = NewRow(q.name, q.text)]
         /\ request' = [request EXCEPT ![r] = State(created')]
      \/ \E i \in Named(q.name) :
           request' = [request EXCEPT ![r] = State(i)] /\ UNCHANGED <<row, created>> /\ row[i].text = q.text
      BY <1>0 DEF Create, Go
<1> HIDE DEF State
<1>5. CASE /\ Named(q.name) = {} /\ created < MaxRows /\ created' = created + 1
           /\ row' = [row EXCEPT ![created'] = NewRow(q.name, q.text)]
           /\ request' = [request EXCEPT ![r] = State(created')]
  <2>1. PICK i : i = created + 1
        OBVIOUS
  <2>2. row' = [row EXCEPT ![created + 1] = NewRow(q.name, q.text)] /\ UNCHANGED meta
        BY <1>5 DEF Create
  <2>3. i \in Ids
        BY <1>2, <1>5, <2>1, <2>2, RowIsNew
  <2>4. row'[i] = NewRow(q.name, q.text)
        BY <1>2, <2>1, <2>2, <2>3 DEF Stored
  <2>5. row'[i].name = q.name /\ row'[i].text = q.text /\ row'[i] # None
    <3>1. NewRow(q.name, q.text) \in Rows
          BY <1>2, IdleType DEF NewRow, Rows
    <3> QED BY <2>4, <3>1, ConstantsAssumption DEF NewRow
  <2> QED BY <1>3, <1>5, <2>1, <2>3, <2>5
<1>6. CASE \E i \in Named(q.name) :
             request' = [request EXCEPT ![r] = State(i)] /\ UNCHANGED <<row, created>> /\ row[i].text = q.text
      BY <1>3, <1>6 DEF Named, Live
<1> QED BY <1>4, <1>5, <1>6

LEMMA DetectNewOnCourse ==
  ASSUME IInv, Course, NEW r \in Requests, DetectNew(r)
  PROVE  Course'
<1>0. PICK q : q = request[r]
      OBVIOUS
<1> DEFINE local == [q EXCEPT !.pc = "fillNew"]
<1>1. q.pc = "detectNew" /\ Syncs(q) /\ UNCHANGED row
      BY <1>0 DEF DetectNew, At, Syncs
<1>2. Running(r) /\ OnCourse(q) /\ Named(None) = {}
      BY <1>0, <1>1, SyncTyped DEF Course
<1>3. /\ local.pc = "fillNew" /\ local.name = q.name /\ local.old = q.old /\ local.alone = q.alone
      /\ local.text = q.text /\ local.from = q.from
      BY <1>0, <1>1, SyncAt
<1>4. request' = [request EXCEPT ![r] = local]
      BY <1>0, GoToStep DEF DetectNew
<1>5. \A m : Named(m)' = Named(m)
      BY <1>1 DEF Named, Live
<1> HIDE DEF local
<1>6. OnCourse(local)'
      BY <1>1, <1>2, <1>3, <1>5 DEF OnCourse, Holds
<1> QED BY <1>0, <1>2, <1>3, <1>4, <1>6, CourseGoes

\* A sync that fills its row and goes to the deprecation.
LEMMA FillsOnCourse ==
  ASSUME IInv, Course, NEW r \in Requests, request[r].pc \in {"fillNew", "touch"},
         row[request[r].from] # None, row' = Filled(request[r].from), GoTo(r, "deprecate")
  PROVE  Course'
<1>0. PICK q : q = request[r]
      OBVIOUS
<1> DEFINE i == q.from
           local == [q EXCEPT !.pc = "deprecate"]
<1>1. Syncs(q)
      BY <1>0 DEF Syncs
<1>2. Running(r) /\ Stored /\ i \in Ids /\ OnCourse(q) /\ Named(None) = {}
      BY <1>0, <1>1, SyncTyped DEF Course
<1>3. row[i] \in Rows
      BY <1>0, <1>2, LiveRow
<1>4. /\ row'[i] # None /\ row'[i].name = row[i].name /\ row'[i].text = row[i].text
      /\ \A j \in Ids : j # i => row'[j] = row[j]
  <2> DEFINE cell == IF row[i].cell = NoCell THEN Machine ELSE row[i].cell
             new == [row[i] EXCEPT !.cell = cell]
  <2>1. row' = [row EXCEPT ![i] = new]
        BY <1>0, <1>2, <1>3 DEF Filled, Stored, Rows
  <2>2. cell \in Cells
        BY <1>3, IdleType DEF Rows
  <2> HIDE DEF cell
  <2>3. new \in Rows /\ new.name = row[i].name /\ new.text = row[i].text
        BY <1>3, <2>2 DEF Rows
  <2> HIDE DEF new
  <2> QED BY <1>2, <2>1, <2>3, ConstantsAssumption DEF Stored
<1>5. /\ local.pc = "deprecate" /\ local.name = q.name /\ local.old = q.old /\ local.alone = q.alone
      /\ local.text = q.text
      BY <1>0, <1>1, SyncAt
<1>6. request' = [request EXCEPT ![r] = local]
      BY <1>0, GoToStep
<1> HIDE DEF local
<1>7. \A m : Named(m)' = Named(m)
      BY <1>0, <1>2, <1>4 DEF Named, Live
<1>8. ASSUME q.alone PROVE Effect(local)'
  <2>1. Holds(i, q.name) /\ row[i].text = q.text
        BY <1>0, <1>1, <1>2, <1>8 DEF OnCourse
  <2>2. i \in Named(q.name)'
        BY <1>2, <1>7, <2>1, HeldIsNamed
  <2> QED BY <1>4, <1>5, <2>1, <2>2 DEF Effect
<1>9. OnCourse(local)'
      BY <1>0, <1>1, <1>2, <1>5, <1>7, <1>8 DEF OnCourse
<1> QED BY <1>0, <1>2, <1>5, <1>6, <1>9, CourseGoes

LEMMA DeprecateOnCourse ==
  ASSUME IInv, Course, NEW r \in Requests, Deprecate(r)
  PROVE  Course'
<1>0. PICK q : q = request[r]
      OBVIOUS
<1> DEFINE local == [q EXCEPT !.pc = "synced"]
<1>1. q.pc = "deprecate" /\ Syncs(q) /\ UNCHANGED row
      BY <1>0 DEF Deprecate, At, Syncs
<1>2. /\ Running(r) /\ OnCourse(q) /\ meta \in MetaTables /\ q.name \in Names /\ q.gone \subseteq Names
      BY <1>0, <1>1, SyncTyped DEF Course
<1>3. \A m : Named(m)' = Named(m)
      BY <1>1 DEF Named, Live
<1>4. ASSUME NEW n \in Names
      PROVE  /\ n \in Gone(r) => Deprecated(n)'
             /\ n \notin Gone(r) => meta'[n] = meta[n]
             /\ (meta'[n] # None /\ meta'[n].replacement # None) <=> (meta[n] # None /\ meta[n].replacement # None)
             /\ meta[n] # None => meta'[n].replacement = meta[n].replacement
  <2> DEFINE fresh == [deprecated |-> TRUE, replacement |-> None, used |-> FALSE]
             used == meta[n].used /\ meta[n].deprecated
             old == [meta[n] EXCEPT !.deprecated = TRUE, !.used = used]
  <2>1. meta'[n] = IF n \notin Gone(r) THEN meta[n] ELSE IF meta[n] = None THEN fresh ELSE
                     [meta[n] EXCEPT !.deprecated = TRUE, !.used = @ /\ meta[n].deprecated]
        BY DEF Deprecate
  <2>2. fresh.deprecated = TRUE /\ fresh.replacement = None /\ fresh \in Metas
        BY DEF Metas, Maybe
  <2>3. meta[n] # None => /\ old.deprecated = TRUE /\ old.replacement = meta[n].replacement /\ old \in Metas
                          /\ old = [meta[n] EXCEPT !.deprecated = TRUE, !.used = @ /\ meta[n].deprecated]
    <3>1. used \in BOOLEAN
          OBVIOUS
    <3>2. meta[n] # None => [meta[n] EXCEPT !.deprecated = TRUE, !.used = @ /\ meta[n].deprecated] = old
          BY <1>2 DEF MetaTables, Maybe, Metas
    <3> HIDE DEF used
    <3>3. meta[n] # None => old.deprecated = TRUE /\ old.replacement = meta[n].replacement /\ old \in Metas
          BY <1>2, <3>1 DEF MetaTables, Maybe, Metas
    <3> QED BY <3>2, <3>3
  <2> HIDE DEF fresh, old
  <2> QED BY <2>1, <2>2, <2>3, ConstantsAssumption DEF Deprecated
<1>5. Aliases' = Aliases
      BY <1>4 DEF Aliases
<1>6. Effect(q) => Effect(q)'
  <2>1. LeadsToKey(q.name) => LeadsToKey(q.name)'
        BY <1>2, <1>3, <1>5, LeadsOn
  <2> QED BY <1>1, <1>3, <2>1 DEF Effect
<1>7. ASSUME NEW n \in q.gone, Named(q.old) = {}, Named(n)' # {} PROVE Deprecated(n)'
  <2>1. n \in Gone(r)
        BY <1>0, <1>3, <1>7 DEF Gone
  <2> QED BY <1>2, <1>4, <2>1
<1>8. CASE Go(r, Idle)
  <2>1. request' = [request EXCEPT ![r] = Idle] /\ ~Idle.alone /\ ~Syncs(Idle)
        BY <1>8 DEF Go, Idle, Syncs
  <2> QED BY <1>2, <2>1, CourseEnds
<1>9. CASE GoTo(r, "synced")
  <2>1. /\ local.pc = "synced" /\ local.name = q.name /\ local.old = q.old /\ local.alone = q.alone
        /\ local.text = q.text /\ local.gone = q.gone
        BY <1>0, <1>1, SyncAt
  <2>2. request' = [request EXCEPT ![r] = local]
        BY <1>0, <1>9, GoToStep
  <2> HIDE DEF local
  <2>3. q.alone => Effect(q) /\ Named(q.old) = {}
        BY <1>1, <1>2 DEF OnCourse
  <2>4. q.alone => Effect(local)'
        BY <1>6, <2>1, <2>3 DEF Effect
  <2>5. OnCourse(local)'
        BY <1>3, <1>7, <2>1, <2>3, <2>4 DEF OnCourse
  <2> QED BY <1>0, <1>2, <2>1, <2>2, <2>5, CourseGoes
<1> QED BY <1>8, <1>9 DEF Deprecate

\* A request ends; and no step of a merge starts a sync.
LEMMA EndOnCourse ==
  ASSUME IInv, Course, NEW r \in Requests, Running(r), Go(r, Idle)
  PROVE  Course'
<1>1. request' = [request EXCEPT ![r] = Idle] /\ ~Idle.alone /\ ~Syncs(Idle)
      BY DEF Go, Idle, Syncs
<1> QED BY <1>1, CourseEnds

LEMMA MergeOnCourse ==
  ASSUME IInv, Course, NEW r \in Requests,
         Target(r) \/ Consolidate(r) \/ Fill(r) \/ DeleteOld(r) \/ MarkTarget(r) \/ Mark(r)
  PROVE  Course'
<1>0. PICK q : q = request[r]
      OBVIOUS
<1>1. Merging(r) /\ Running(r) /\ q \in RequestStates
      BY <1>0, RequestTyped DEF Target, Consolidate, Fill, DeleteOld, MarkTarget, Mark, At, Merging, Running
<1>2. \/ \E pc \in {"consolidate", "fill", "markTarget"} : GoTo(r, pc)
      \/ \E j : Go(r, [q EXCEPT !.pc = "consolidate", !.target = j])
      \/ \E rest : Go(r, [q EXCEPT !.pc = "delete", !.sources = rest])
      \/ \E rest : Go(r, [q EXCEPT !.sources = rest])
      \/ \E rest : Go(r, [q EXCEPT !.pc = "mark", !.names = rest])
      \/ \E rest : Go(r, [q EXCEPT !.names = rest])
      \/ Go(r, Idle)
  <2>1. CASE Target(r)
        BY <1>0, <2>1 DEF Target
  <2>2. CASE Consolidate(r) \/ Fill(r)
        BY <1>0, <1>1, <2>2 DEF Consolidate, Fill, RequestStates
  <2>3. CASE DeleteOld(r)
        BY <1>0, <1>1, <2>3 DEF DeleteOld, RequestStates
  <2>4. CASE MarkTarget(r)
        BY <1>0, <1>1, <2>4 DEF MarkTarget, RequestStates
  <2>5. CASE Mark(r)
        BY <1>0, <1>1, <2>5 DEF Mark, RequestStates
  <2> QED BY <2>1, <2>2, <2>3, <2>4, <2>5
<1>3. ASSUME NEW local, Go(r, local), ~Syncs(local), local.alone => q.alone PROVE Course'
      BY <1>0, <1>1, <1>3, CourseEnds DEF Go
<1>4. ASSUME NEW pc \in {"consolidate", "fill", "markTarget"}, GoTo(r, pc) PROVE Course'
  <2> DEFINE local == [q EXCEPT !.pc = pc]
  <2>1. local.pc = pc /\ local.alone = q.alone
        BY <1>1 DEF RequestStates
  <2>2. Go(r, local)
        BY <1>0, <1>4, GoToStep DEF Go
  <2> HIDE DEF local
  <2> QED BY <1>3, <2>1, <2>2 DEF Syncs
<1>5. ASSUME NEW rest, NEW pc \in {"delete", "mark", "consolidate", q.pc},
             NEW local \in {[q EXCEPT !.pc = pc, !.target = rest], [q EXCEPT !.pc = pc, !.sources = rest],
                            [q EXCEPT !.pc = pc, !.names = rest]},
             Go(r, local)
      PROVE  Course'
  <2>1. local.pc = pc /\ local.alone = q.alone
        BY <1>1 DEF RequestStates
  <2>2. q.pc \in {"target", "consolidate", "fill", "delete", "markTarget", "mark"}
        BY <1>0, <1>1 DEF Merging
  <2> QED BY <1>3, <1>5, <2>1, <2>2 DEF Syncs
<1>6. ASSUME Go(r, Idle) PROVE Course'
      BY <1>1, <1>6, EndOnCourse
<1>7. \A rest : /\ [q EXCEPT !.sources = rest] = [q EXCEPT !.pc = q.pc, !.sources = rest]
                /\ [q EXCEPT !.names = rest] = [q EXCEPT !.pc = q.pc, !.names = rest]
      BY <1>1 DEF RequestStates
<1> QED BY <1>2, <1>4, <1>5, <1>6, <1>7

\* A request begins: alone if no other runs, and no other is alone after that.
LEMMA BeginOnCourse ==
  ASSUME IInv, Course, NEW r \in Requests, NEW local \in RequestStates, Begin(r, local),
         \A q : /\ q.pc = local.pc /\ q.name = local.name /\ q.text = local.text
                /\ q.from = local.from /\ q.old = local.old
                => OnCourse(q)'
  PROVE  Course'
<1> DEFINE free == {q \in Requests : Running(q)} = {}
           raced == local.pc = "target" /\ {q \in Requests : Merging(q)} # {}
           begun == [local EXCEPT !.alone = free, !.raced = raced]
<1>1. request'[r] = begun
      BY DEF Begin
<1>2. \A q \in Requests : q # r => ~request'[q].alone
  <2> SUFFICES ASSUME NEW q \in Requests, q # r PROVE ~request'[q].alone
      OBVIOUS
  <2> DEFINE beside == request[q].raced \/ (local.pc = "target" /\ q \in {p \in Requests : Merging(p)})
  <2>1. request'[q] = [request[q] EXCEPT !.alone = FALSE, !.raced = beside]
    <3>1. request[q] \in RequestStates
          BY TypeParts DEF IInv
    <3>2. request'[q] = [request[q] EXCEPT !.alone = FALSE, !.raced = @ \/ (local.pc = "target" /\ q \in {p \in Requests : Merging(p)})]
          BY DEF Begin
    <3> QED BY <3>1, <3>2 DEF RequestStates
  <2>2. request[q] \in RequestStates
        BY TypeParts DEF IInv
  <2> HIDE DEF beside
  <2> QED BY <2>1, <2>2 DEF RequestStates
<1>3. free \in BOOLEAN /\ raced \in BOOLEAN /\ (free => \A q \in Requests : ~Running(q))
      OBVIOUS
<1> HIDE DEF free, raced
<1>4. /\ begun.pc = local.pc /\ begun.name = local.name /\ begun.text = local.text
      /\ begun.from = local.from /\ begun.old = local.old /\ begun.alone = free
      BY <1>3 DEF RequestStates
<1> HIDE DEF begun
<1>5. \A q \in Requests \ {r} : request'[q].pc = request[q].pc
  <2> SUFFICES ASSUME NEW q \in Requests, q # r PROVE request'[q].pc = request[q].pc
      OBVIOUS
  <2>1. request[q] \in RequestStates
        BY TypeParts DEF IInv
  <2>2. request'[q] = [request[q] EXCEPT !.alone = FALSE, !.raced = @ \/ (local.pc = "target" /\ q \in {p \in Requests : Merging(p)})]
        BY DEF Begin
  <2> QED BY <2>1, <2>2 DEF RequestStates
<1>6. Lone'
  <2> SUFFICES ASSUME NEW p \in Requests, NEW q \in Requests, p # q, request'[p].alone
               PROVE  request'[q].pc = "idle"
      BY DEF Lone, Running, At
  <2>1. p = r /\ free
        BY <1>1, <1>2, <1>4
  <2> QED BY <1>3, <1>5, <2>1 DEF Running, At
<1>7. ASSUME NEW q \in Requests PROVE OnCourse(request[q])'
  <2>1. CASE q = r
    <3>1. PICK x : x = request'[r]
          OBVIOUS
    <3>2. OnCourse(x)'
          BY <1>1, <1>4, <3>1
    <3> QED BY <2>1, <3>1, <3>2
  <2>2. CASE q # r
        BY <1>2, <2>2 DEF OnCourse
  <2> QED BY <2>1, <2>2
<1> QED BY <1>6, <1>7 DEF Course

LEMMA SyncOnCourse ==
  ASSUME IInv, Course, NEW r \in Requests, NEW n \in Names, NEW text \in Texts, NEW usage \in BOOLEAN,
         NEW gone \in SUBSET Names, Sync(r, n, text, usage, gone)
  PROVE  Course'
<1>1. PICK pc : pc = IF Named(n) = {} THEN "lookup"
                     ELSE IF \E i \in Named(n) : row[i].text = text THEN "touch" ELSE "change"
      OBVIOUS
<1>2. PICK from : from = IF Named(n) = {} THEN None ELSE CHOOSE i \in Named(n) : TRUE
      OBVIOUS
<1> DEFINE base == [Idle EXCEPT !.name = n, !.text = text, !.usage = usage, !.gone = gone]
           local == [base EXCEPT !.pc = pc, !.from = from]
<1>3. Begin(r, local) /\ UNCHANGED row
      BY <1>1, <1>2 DEF Sync, store
<1>4. /\ pc \in {"lookup", "touch", "change"} /\ (pc # "lookup" => from \in Named(n)) /\ from \in Maybe(Ids)
      BY <1>1, <1>2 DEF Named, Live, Maybe
<1>5. base \in RequestStates /\ base.name = n /\ base.text = text /\ base.old = None
      BY IdleType DEF RequestStates, Maybe, Idle
<1> HIDE DEF base
<1>6. /\ local \in RequestStates /\ local.pc = pc /\ local.from = from
      /\ local.name = n /\ local.text = text /\ local.old = None
      BY <1>4, <1>5 DEF RequestStates
<1> HIDE DEF local
<1>7. pc = "touch" => row[from].text = text
  <2>1. Stored
        BY RequestTyped
  <2> QED BY <1>1, <1>4, <2>1 DEF Named, Stored, Live
<1>8. pc # "lookup" => Holds(from, n)
      BY <1>4 DEF Named, Live, Holds
<1>9. ASSUME NEW q, q.pc = pc, q.name = n, q.text = text, q.from = from, q.old = None
      PROVE  OnCourse(q)'
  <2>1. (\A m : Named(m)' = Named(m)) /\ row' = row
        BY <1>3 DEF Named, Live
  <2>2. Named(None)' = {}
        BY <2>1, RequestTyped, NoneNamed
  <2>3. pc = "touch" => Holds(from, n)' /\ row'[from].text = text
        BY <2>1, <1>7, <1>8 DEF Holds
  <2>4. pc = "change" => Holds(from, n)'
        BY <2>1, <1>8 DEF Holds
  <2> QED BY <2>2, <2>3, <2>4, <1>4, <1>9 DEF OnCourse
<1> QED BY <1>3, <1>6, <1>9, BeginOnCourse

LEMMA MergeBeginsOnCourse ==
  ASSUME IInv, Course, NEW r \in Requests, NEW names \in SUBSET Names, NEW into \in Names, NEW text \in Texts,
         Merge(r, names, into, text)
  PROVE  Course'
<1> DEFINE sources == UNION {Named(n) : n \in names}
           target == IF Named(into) = {} THEN None ELSE CHOOSE i \in Named(into) : TRUE
           rewrite == \A i \in Named(into) : row[i].text # text
           read == [i \in Ids |-> IF i \in sources \cup Named(into) THEN row[i].cell ELSE NoCell]
           local == [Idle EXCEPT !.pc = "target", !.names = names, !.into = into, !.text = text,
                                 !.sources = sources, !.target = target, !.rewrite = rewrite, !.read = read]
<1>1. Begin(r, local)
      BY DEF Merge
<1>2. local \in RequestStates /\ local.pc = "target"
  <2>1. sources \in SUBSET Ids /\ target \in Maybe(Ids)
        BY DEF Named, Live, Maybe
  <2>2. rewrite \in BOOLEAN
        OBVIOUS
  <2>3. read \in [Ids -> Cells]
        BY RequestTyped, LiveRow, IdleType DEF Named, Live
  <2> HIDE DEF sources, target, rewrite, read
  <2> QED BY <2>1, <2>2, <2>3, IdleType DEF RequestStates, Maybe
<1>3. PICK x : x = local
      OBVIOUS
<1> HIDE DEF local
<1>4. \A q : q.pc = x.pc => OnCourse(q)'
      BY <1>2, <1>3 DEF OnCourse, Syncs
<1> QED BY <1>1, <1>2, <1>3, <1>4, BeginOnCourse

\* A saved text is in a cell, and not what a sync looks at.
LEMMA SaveOnCourse ==
  ASSUME IInv, Course, NEW i \in Ids, Save(i)
  PROVE  Course'
<1>1. request \in [Requests -> RequestStates] /\ Stored /\ saves \in 0..MaxSaves
      BY TypeParts DEF IInv
<1>2. row[i] # None /\ row[i] \in Rows /\ saves' \in 0..MaxSaves /\ UNCHANGED meta
      BY <1>1, LiveRow, ConstantsAssumption DEF Save
<1>3. /\ row'[i] # None /\ row'[i].name = row[i].name /\ row'[i].text = row[i].text
      /\ \A j \in Ids : j # i => row'[j] = row[j]
  <2> DEFINE cell == [owner |-> "human", by |-> saves']
             new == [row[i] EXCEPT !.cell = cell]
  <2>1. row' = [row EXCEPT ![i] = new]
        BY <1>1 DEF Save, Stored
  <2>2. cell \in Cells
        BY <1>2 DEF Cells
  <2> HIDE DEF cell
  <2>3. new \in Rows /\ new.name = row[i].name /\ new.text = row[i].text
        BY <1>2, <2>2 DEF Rows
  <2> HIDE DEF new
  <2> QED BY <1>1, <2>1, <2>3, ConstantsAssumption DEF Stored
<1>4. ASSUME NEW q \in Requests
      PROVE  /\ request'[q].pc = request[q].pc /\ request'[q].alone = request[q].alone
             /\ request'[q].name = request[q].name /\ request'[q].text = request[q].text
             /\ request'[q].from = request[q].from /\ request'[q].old = request[q].old
             /\ request'[q].rewrite = request[q].rewrite /\ request'[q].gone = request[q].gone
  <2>1. PICK raced : request'[q] = [request[q] EXCEPT !.raced = raced]
        BY DEF Save
  <2> QED BY <1>1, <2>1 DEF RequestStates
<1>5. \A m : Named(m)' = Named(m)
      BY <1>2, <1>3 DEF Named, Live
<1>6. Aliases' = Aliases
      BY <1>2 DEF Aliases
<1>7. ASSUME NEW q \in Requests, request[q].alone, Syncs(request[q]), OnCourse(request[q])
      PROVE  OnCourse(request[q])'
  <2>0. PICK old : old = request[q]
        OBVIOUS
  <2>1. PICK new : new = request'[q]
        OBVIOUS
  <2>2. /\ new.pc = old.pc /\ new.alone = old.alone /\ new.name = old.name /\ new.text = old.text
        /\ new.from = old.from /\ new.old = old.old /\ new.rewrite = old.rewrite /\ new.gone = old.gone
        BY <1>4, <2>0, <2>1
  <2>3. old.name \in Names /\ OnCourse(old) /\ Syncs(old) /\ old.alone
        BY <1>7, <2>0, SyncTyped
  <2>4. old.pc \in {"touch", "change", "rename", "renameMeta", "detectNew", "fillNew"} => old.from \in Ids
        BY <1>7, <2>0, SyncTyped
  <2>5. LeadsToKey(old.name) => LeadsToKey(old.name)'
        BY <1>5, <1>6, <2>3, LeadsOn
  <2>6. \A n : /\ old.from \in Ids /\ Holds(old.from, n) => Holds(old.from, n)'
               /\ old.from \in Ids /\ Holds(old.from, n) => row'[old.from].text = row[old.from].text
        BY <1>3 DEF Holds
  <2>7. Effect(old) => Effect(new)'
    <3>1. \A j \in Named(old.name) : row'[j].text = row[j].text
          BY <1>3 DEF Named, Live
    <3> QED BY <1>5, <2>2, <2>5, <3>1 DEF Effect
  <2>8. \A n : Deprecated(n)' = Deprecated(n)
        BY <1>2 DEF Deprecated
  <2>9. OnCourse(new)'
        BY <1>5, <2>2, <2>3, <2>4, <2>5, <2>6, <2>7, <2>8 DEF OnCourse
  <2> QED BY <2>1, <2>9
<1>8. \A q \in Requests : OnCourse(request[q])'
      BY <1>4, <1>7 DEF Course, OnCourse, Syncs
<1>9. Lone'
      BY <1>4 DEF Course, Lone, Running, At
<1> QED BY <1>8, <1>9 DEF Course

LEMMA InitOnCourse == Init => Course
<1> SUFFICES ASSUME Init PROVE Course
    OBVIOUS
<1>1. \A r \in Requests : request[r] = Idle
      BY DEF Init
<1>2. ~Idle.alone
      BY DEF Idle
<1> QED BY <1>1, <1>2 DEF Course, Lone, OnCourse

LEMMA StutterOnCourse ==
  ASSUME Course, UNCHANGED vars
  PROVE  Course'
<1>1. UNCHANGED <<row, meta, request>>
      BY DEF vars, store
<1>2. ASSUME NEW r \in Requests PROVE OnCourse(request[r])'
  <2>1. PICK q : q = request[r]
        OBVIOUS
  <2>2. OnCourse(q)
        BY <2>1 DEF Course
  <2>3. OnCourse(q)'
        BY <1>1, <2>2 DEF OnCourse, Holds, Effect, Named, Live, LeadsToKey, Resolved, HasAlias, Aliases, Deprecated
  <2> QED BY <1>1, <2>1, <2>3
<1>3. Lone'
      BY <1>1 DEF Course, Lone, Running, At
<1> QED BY <1>2, <1>3 DEF Course

LEMMA NextOnCourse == IInv /\ Course /\ [Next]_vars => Course'
<1> SUFFICES ASSUME IInv, Course, [Next]_vars PROVE Course'
    OBVIOUS
<1>1. ASSUME NEW r \in Requests, Step(r) PROVE Course'
  <2>1. CASE Lookup(r) BY <2>1, LookupOnCourse
  <2>2. CASE Detect(r) BY <2>2, DetectOnCourse
  <2>3. CASE Rename(r) BY <2>3, RenameOnCourse
  <2>4. CASE RenameMeta(r) BY <2>4, RenameMetaOnCourse
  <2>5. CASE Change(r) BY <2>5, ChangeOnCourse
  <2>6. CASE Create(r) BY <2>6, CreateOnCourse
  <2>7. CASE DetectNew(r) BY <2>7, DetectNewOnCourse
  <2>8. CASE FillNew(r) BY <2>8, FillsOnCourse DEF FillNew, At
  <2>9. CASE Touch(r) BY <2>9, FillsOnCourse DEF Touch, At
  <2>10. CASE Deprecate(r) BY <2>10, DeprecateOnCourse
  <2>11. CASE Synced(r) BY <2>11, EndOnCourse DEF Synced, At, Running
  <2>12. CASE Target(r) \/ Consolidate(r) \/ Fill(r) \/ DeleteOld(r) \/ MarkTarget(r) \/ Mark(r)
         BY <2>12, MergeOnCourse
  <2>13. CASE Throw(r) BY <2>13, EndOnCourse DEF Throw, At, Running
  <2>14. CASE Crash(r) BY <2>14, EndOnCourse DEF Crash
  <2> QED BY <1>1, <2>1, <2>2, <2>3, <2>4, <2>5, <2>6, <2>7, <2>8, <2>9, <2>10, <2>11, <2>12,
             <2>13, <2>14 DEF Step
<1>2. CASE \E r \in Requests, n \in Names, text \in Texts, usage \in BOOLEAN, gone \in SUBSET Names :
             Sync(r, n, text, usage, gone)
      BY <1>2, SyncOnCourse
<1>3. CASE \E r \in Requests, n \in Names, text \in Texts, names \in SUBSET Names :
             Merge(r, names, n, text)
      BY <1>3, MergeBeginsOnCourse
<1>4. CASE \E i \in Ids : Save(i)
      BY <1>4, SaveOnCourse
<1>5. CASE UNCHANGED vars
      BY <1>5, StutterOnCourse
<1> QED BY <1>1, <1>2, <1>3, <1>4, <1>5 DEF Next

\* keys/sync.ts:93: after a sync that no other request ran beside, the name it
\* found is a key with the text it found, or the alias of a key; the names that
\* are gone are deprecated, have been renamed, or are no keys.
THEOREM LoneSyncTakesEffect == Spec => []SyncTakesEffect
<1>1. Course => SyncTakesEffect
  <2> SUFFICES ASSUME Course, NEW r \in Requests, At(r, "synced"), request[r].alone
               PROVE  /\ \/ \E i \in Named(request[r].name) : row[i].text = request[r].text
                         \/ LeadsToKey(request[r].name)
                      /\ \A n \in request[r].gone : Named(n) # {} => meta[n] # None /\ meta[n].deprecated
      BY DEF SyncTakesEffect
  <2>1. OnCourse(request[r]) /\ Syncs(request[r]) /\ request[r].pc = "synced"
        BY DEF Course, At, Syncs
  <2> QED BY <2>1 DEF OnCourse, Effect, Deprecated
<1> QED BY <1>1, InitOnCourse, NextOnCourse, Invariant, PTL DEF Spec
-----------------------------------------------------------------------------
(* Induction over the numbers, stated of a set of them. *)

\* A set of numbers that is not empty has a least one.
LEMMA LeastNumber ==
  ASSUME NEW S \in SUBSET Nat, S # {}
  PROVE  \E n \in S : \A m \in S : n <= m
<1> DEFINE R == StrictSubsetOrdering(Nat)
           F == {1..n : n \in S}
<1>1. IsWellFoundedOn(R, FiniteSubsetsOf(Nat))
      BY FS_StrictSubsetOrderingWellFounded
<1>2. F \subseteq FiniteSubsetsOf(Nat)
  <2> SUFFICES ASSUME NEW n \in S PROVE 1..n \in FiniteSubsetsOf(Nat)
      OBVIOUS
  <2>1. IsFiniteSet(1..n) BY FS_Interval
  <2> QED BY <2>1 DEF FiniteSubsetsOf
<1>3. F # {} OBVIOUS
<1>4. PICK x \in F : \A y \in F : ~(<<y, x>> \in R)
  <2> HIDE DEF F, R
  <2> QED BY <1>1, <1>2, <1>3, WFMin
<1>5. PICK n \in S : x = 1..n OBVIOUS
<1>6. ASSUME NEW m \in S, m < n PROVE FALSE
  <2>1. 1..m \in F OBVIOUS
  <2>2. 1..m \in SUBSET Nat /\ 1..n \in SUBSET Nat OBVIOUS
  <2>3. 1..m # 1..n
    <3>1. n \in 1..n /\ n \notin 1..m BY <1>6
    <3> QED BY <3>1
  <2>4. 1..m \subseteq 1..n BY <1>6
  <2>5. <<1..m, 1..n>> \in R BY <2>2, <2>3, <2>4 DEF StrictSubsetOrdering
  <2> QED BY <2>1, <2>5, <1>4, <1>5
<1> QED BY <1>6

LEMMA NumbersByInduction ==
  ASSUME NEW S, 0 \in S, \A n \in Nat : n \in S => n + 1 \in S
  PROVE  Nat \subseteq S
<1> DEFINE B == Nat \ S
<1> SUFFICES ASSUME B # {} PROVE FALSE
    OBVIOUS
<1>1. PICK n \in B : \A m \in B : n <= m
  <2> HIDE DEF B
  <2>1. B \in SUBSET Nat BY DEF B
  <2> QED BY <2>1, LeastNumber
<1>2. n # 0 /\ n - 1 \in Nat OBVIOUS
<1>3. n - 1 \in S BY <1>1, <1>2
<1> QED BY <1>2, <1>3
-----------------------------------------------------------------------------
(* Chains of aliases, for any aliases.  What a chain reaches is the smallest *)
(* set that no alias leaves, so that facts about it need no induction; only  *)
(* that Follow is the function its recursion describes does (FollowSteps).   *)

AliasTables == [Names -> Names]

Closed(a, S) == \A m \in S : a[m] \in S
Reach(a, n) == {x \in Names : \A S \in SUBSET Names : n \in S /\ Closed(a, S) => x \in S}

\* No chain runs in a circle.
Ending(a) == \A n \in Names : \E e \in Reach(a, n) : a[e] = e

LEMMA ReachIsClosed ==
  ASSUME NEW a \in AliasTables, NEW n \in Names
  PROVE  n \in Reach(a, n) /\ Reach(a, n) \in SUBSET Names /\ Closed(a, Reach(a, n))
<1>1. n \in Reach(a, n) /\ Reach(a, n) \in SUBSET Names
      BY DEF Reach
<1>2. ASSUME NEW m \in Reach(a, n) PROVE a[m] \in Reach(a, n)
  <2>1. m \in Names /\ a[m] \in Names BY DEF Reach, AliasTables
  <2> SUFFICES ASSUME NEW S \in SUBSET Names, n \in S, Closed(a, S) PROVE a[m] \in S
      BY <2>1 DEF Reach
  <2>2. m \in S BY DEF Reach
  <2> QED BY <2>2 DEF Closed
<1> QED BY <1>1, <1>2 DEF Closed

LEMMA ReachIsLeast ==
  ASSUME NEW a, NEW n, NEW S \in SUBSET Names, n \in S, Closed(a, S)
  PROVE  Reach(a, n) \subseteq S
BY DEF Reach

\* A chain is its first name and the chain from the next.
LEMMA ReachStarts ==
  ASSUME NEW a \in AliasTables, NEW n \in Names
  PROVE  /\ Reach(a, n) = {n} \cup Reach(a, a[n])
         /\ a[n] = n => Reach(a, n) = {n}
<1>0. a[n] \in Names BY DEF AliasTables
<1>1. Reach(a, a[n]) \subseteq Reach(a, n)
  <2>1. a[n] \in Reach(a, n) BY ReachIsClosed DEF Closed
  <2> QED BY <2>1, ReachIsClosed, ReachIsLeast
<1>2. Reach(a, n) \subseteq {n} \cup Reach(a, a[n])
  <2> DEFINE S == {n} \cup Reach(a, a[n])
  <2>1. S \in SUBSET Names BY <1>0, ReachIsClosed
  <2>2. Closed(a, S) BY <1>0, ReachIsClosed DEF Closed
  <2> HIDE DEF S
  <2>3. n \in S BY DEF S
  <2>4. Reach(a, n) \subseteq S BY <2>1, <2>2, <2>3, ReachIsLeast
  <2> QED BY <2>4 DEF S
<1>3. ASSUME a[n] = n PROVE Reach(a, n) \subseteq {n}
  <2>1. Closed(a, {n}) BY <1>3 DEF Closed
  <2> QED BY <2>1, ReachIsLeast
<1> QED BY <1>1, <1>2, <1>3, ReachIsClosed

Moved(a, n, t) == [a EXCEPT ![n] = t]

\* An alias that is moved to the end of a chain, or dropped, lets every chain
\* end where it did, or there.
LEMMA Redirected ==
  ASSUME NEW a \in AliasTables, NEW n \in Names, NEW t \in Names, a[t] = t \/ t = n,
         NEW b, b = Moved(a, n, t)
  PROVE  /\ b \in AliasTables /\ b[t] = t
         /\ \A m \in Names : \A e \in Reach(a, m) :
              a[e] = e => (e \in Reach(b, m) /\ b[e] = e) \/ t \in Reach(b, m)
<1>1. b \in AliasTables /\ b[t] = t /\ b[n] = t /\ \A x \in Names : x # n => b[x] = a[x]
      BY DEF AliasTables, Moved
<1> SUFFICES ASSUME NEW m \in Names, NEW e \in Reach(a, m), a[e] = e
             PROVE  (e \in Reach(b, m) /\ b[e] = e) \/ t \in Reach(b, m)
    BY <1>1
<1>2. m \in Reach(b, m) /\ Reach(b, m) \in SUBSET Names /\ Closed(b, Reach(b, m))
      BY <1>1, ReachIsClosed
<1>3. ASSUME t \notin Reach(b, m) PROVE e \in Reach(b, m) /\ b[e] = e
  <2>1. n \notin Reach(b, m) BY <1>1, <1>2, <1>3 DEF Closed
  <2>2. Closed(a, Reach(b, m)) BY <1>1, <1>2, <2>1 DEF Closed
  <2>3. Reach(a, m) \subseteq Reach(b, m) BY <1>2, <2>2, ReachIsLeast
  <2>4. e \in Reach(b, m) BY <2>3
  <2>5. e \in Names /\ e # n BY <1>2, <2>1, <2>4
  <2> QED BY <1>1, <2>4, <2>5
<1> QED BY <1>1, <1>3

LEMMA RedirectedEnds ==
  ASSUME NEW a \in AliasTables, NEW n \in Names, NEW t \in Names, a[t] = t \/ t = n,
         NEW b, b = Moved(a, n, t), Ending(a)
  PROVE  Ending(b)
<1>1. /\ b[t] = t
      /\ \A m \in Names : \A e \in Reach(a, m) :
           a[e] = e => (e \in Reach(b, m) /\ b[e] = e) \/ t \in Reach(b, m)
      BY Redirected
<1>2. \A m \in Names : \E e \in Reach(a, m) : a[e] = e
      BY DEF Ending
<1>3. \A m \in Names : \E e \in Reach(b, m) : b[e] = e
      BY <1>1, <1>2
<1> QED BY <1>3 DEF Ending

\* The names of a chain from which e is reached are the chain: it has one end.
LEMMA ReachesEnd ==
  ASSUME NEW a \in AliasTables, NEW n \in Names, NEW e \in Reach(a, n), a[e] = e,
         NEW x \in Reach(a, n)
  PROVE  e \in Reach(a, x)
<1> DEFINE S == {y \in Reach(a, n) : e \in Reach(a, y)}
<1>1. S \in SUBSET Names /\ n \in S BY ReachIsClosed
<1>2. ASSUME NEW y \in S PROVE a[y] \in S
  <2>1. y \in Names /\ a[y] \in Reach(a, n) /\ a[y] \in Names
        BY ReachIsClosed DEF Closed, AliasTables
  <2>2. e = y \/ e \in Reach(a, a[y]) BY <2>1, ReachStarts
  <2>3. e \in Reach(a, a[y]) BY <2>1, <2>2, ReachIsClosed
  <2> QED BY <2>1, <2>3
<1>3. Closed(a, S)
  <2> HIDE DEF S
  <2> QED BY <1>2 DEF Closed
<1>4. Reach(a, n) \subseteq S
  <2> HIDE DEF S
  <2> QED BY <1>1, <1>3, ReachIsLeast
<1> QED BY <1>4

LEMMA OneEnd ==
  ASSUME NEW a \in AliasTables, NEW n \in Names,
         NEW e \in Reach(a, n), a[e] = e, NEW f \in Reach(a, n), a[f] = f
  PROVE  e = f
<1>1. e \in Reach(a, f) BY ReachesEnd
<1>2. f \in Names BY ReachIsClosed
<1>3. Reach(a, f) = {f} BY <1>2, ReachStarts
<1> QED BY <1>1, <1>3

LEMMA NoReturn ==
  ASSUME NEW a \in AliasTables, Ending(a), NEW n \in Names, a[n] # n
  PROVE  n \notin Reach(a, a[n])
<1> SUFFICES ASSUME n \in Reach(a, a[n]) PROVE FALSE
    OBVIOUS
<1>0. a[n] \in Names BY DEF AliasTables
<1> DEFINE S == {x \in Reach(a, n) : n \in Reach(a, x)}
<1>1. S \in SUBSET Names /\ n \in S BY ReachIsClosed
<1>2. ASSUME NEW y \in S PROVE a[y] \in S
  <2>1. y \in Names /\ a[y] \in Reach(a, n) /\ a[y] \in Names
        BY ReachIsClosed DEF Closed, AliasTables
  <2>2. n = y \/ n \in Reach(a, a[y]) BY <2>1, ReachStarts
  <2> QED BY <2>1, <2>2
<1>3. Closed(a, S)
  <2> HIDE DEF S
  <2> QED BY <1>2 DEF Closed
<1>4. Reach(a, n) \subseteq S
  <2> HIDE DEF S
  <2> QED BY <1>1, <1>3, ReachIsLeast
<1>5. PICK e \in Reach(a, n) : a[e] = e BY DEF Ending
<1>6. n \in Reach(a, e) /\ e \in Names BY <1>4, <1>5, ReachIsClosed
<1>7. Reach(a, e) = {e} BY <1>5, <1>6, ReachStarts
<1> QED BY <1>5, <1>6, <1>7

\* f follows the aliases a, for names not seen yet.
Follows(a, f, seen) ==
  f[seen] = [m \in Names |-> IF a[m] # m /\ m \notin seen THEN f[seen \cup {m}][a[m]] ELSE m]

Unseen(k) == {s \in SUBSET Names : Cardinality(Names \ s) <= k}

LEMMA OneMoreSeen ==
  ASSUME NEW k \in Nat, NEW s \in Unseen(k + 1), NEW m \in Names, m \notin s
  PROVE  s \cup {m} \in Unseen(k)
<1>1. IsFiniteSet(Names \ s)
      BY ConstantsAssumption, FS_Subset
<1>2. Names \ (s \cup {m}) = (Names \ s) \ {m} /\ m \in Names \ s
      OBVIOUS
<1>3. Cardinality((Names \ s) \ {m}) = Cardinality(Names \ s) - 1
      BY <1>1, <1>2, FS_RemoveElement
<1>4. Cardinality(Names \ s) \in Nat
      BY <1>1, FS_CardinalityType
<1>5. s \in SUBSET Names /\ Cardinality(Names \ s) <= k + 1
      BY DEF Unseen
<1>6. Cardinality(Names \ (s \cup {m})) <= k
      BY <1>2, <1>3, <1>4, <1>5
<1> QED BY <1>5, <1>6 DEF Unseen

\* Such a function exists, by induction on how many names it has not seen.
LEMMA FollowerExists ==
  ASSUME NEW a \in AliasTables
  PROVE  \E f : \A seen \in SUBSET Names : Follows(a, f, seen) /\ f[seen] \in AliasTables
<1> DEFINE Up(k) == \E f : \A seen \in Unseen(k) : Follows(a, f, seen) /\ f[seen] \in AliasTables
           S == {k \in Nat : Up(k)}
<1>1. 0 \in S
  <2> DEFINE f == [seen \in SUBSET Names |-> [m \in Names |-> m]]
  <2>1. ASSUME NEW s \in Unseen(0) PROVE Names \ s = {}
    <3>1. IsFiniteSet(Names \ s) BY ConstantsAssumption, FS_Subset
    <3>2. Cardinality(Names \ s) \in Nat /\ Cardinality(Names \ s) <= 0
          BY <3>1, FS_CardinalityType DEF Unseen
    <3>3. Cardinality(Names \ s) = 0 BY <3>2
    <3> QED BY <3>1, <3>3, FS_EmptySet
  <2>2. ASSUME NEW s \in Unseen(0) PROVE Follows(a, f, s) /\ f[s] \in AliasTables
    <3>1. s \in SUBSET Names BY DEF Unseen
    <3>2. f[s] = [m \in Names |-> m] BY <3>1
    <3> HIDE DEF f
    <3>3. \A m \in Names : m \in s BY <2>1
    <3> QED BY <3>2, <3>3 DEF Follows, AliasTables
  <2> HIDE DEF f
  <2> QED BY <2>2
<1>2. ASSUME NEW k \in Nat, k \in S PROVE k + 1 \in S
  <2>1. PICK f : \A seen \in Unseen(k) : Follows(a, f, seen) /\ f[seen] \in AliasTables
        BY <1>2
  <2> DEFINE step(s) == [m \in Names |-> IF a[m] # m /\ m \notin s THEN f[s \cup {m}][a[m]] ELSE m]
             h == [s \in Unseen(k + 1) |-> step(s)]
  <2>2. ASSUME NEW s \in Unseen(k + 1), NEW m \in Names, m \notin s
        PROVE  h[s \cup {m}] = f[s \cup {m}]
    <3>1. s \cup {m} \in Unseen(k) BY <2>2, OneMoreSeen
    <3>2. s \cup {m} \in Unseen(k + 1)
      <4>1. IsFiniteSet(Names \ (s \cup {m})) BY ConstantsAssumption, FS_Subset
      <4>2. Cardinality(Names \ (s \cup {m})) \in Nat BY <4>1, FS_CardinalityType
      <4> QED BY <3>1, <4>2 DEF Unseen
    <3>3. h[s \cup {m}] = step(s \cup {m}) BY <3>2
    <3>4. f[s \cup {m}] = step(s \cup {m}) BY <2>1, <3>1 DEF Follows
    <3> QED BY <3>3, <3>4
  <2>3. ASSUME NEW s \in Unseen(k + 1) PROVE Follows(a, h, s) /\ h[s] \in AliasTables
    <3>1. h[s] = step(s) OBVIOUS
    <3>2. ASSUME NEW m \in Names, m \notin s PROVE f[s \cup {m}][a[m]] \in Names
      <4>1. s \cup {m} \in Unseen(k) BY <3>2, OneMoreSeen
      <4> QED BY <2>1, <4>1 DEF AliasTables
    <3>3. step(s) \in AliasTables BY <3>2 DEF AliasTables
    <3> HIDE DEF h
    <3>4. h[s] = [m \in Names |-> IF a[m] # m /\ m \notin s THEN h[s \cup {m}][a[m]] ELSE m]
          BY <2>2, <3>1
    <3> QED BY <3>1, <3>3, <3>4 DEF Follows
  <2> HIDE DEF h
  <2> QED BY <2>3
<1>3. Nat \subseteq S
  <2> HIDE DEF S
  <2> QED BY <1>1, <1>2, NumbersByInduction
<1>4. Cardinality(Names) \in S
      BY <1>3, ConstantsAssumption, FS_CardinalityType
<1>5. SUBSET Names \subseteq Unseen(Cardinality(Names))
  <2> SUFFICES ASSUME NEW s \in SUBSET Names PROVE Cardinality(Names \ s) <= Cardinality(Names)
      BY DEF Unseen
  <2> QED BY ConstantsAssumption, FS_Subset
<1> QED BY <1>4, <1>5

\* What Follow does at a name: it stops at one that is seen, or no alias.
LEMMA FollowSteps ==
  ASSUME NEW a \in AliasTables
  PROVE  \A n \in Names, seen \in SUBSET Names :
           Follow(a, n, seen) =
             IF a[n] # n /\ n \notin seen THEN Follow(a, a[n], seen \cup {n}) ELSE n
<1> DEFINE body(f) == [seen \in SUBSET Names |->
                        [m \in Names |-> IF a[m] # m /\ m \notin seen THEN f[seen \cup {m}][a[m]] ELSE m]]
           h == CHOOSE f : f = body(f)
<1>1. PICK f : \A seen \in SUBSET Names : Follows(a, f, seen)
      BY FollowerExists
<1>2. [seen \in SUBSET Names |-> f[seen]] = body([seen \in SUBSET Names |-> f[seen]])
  <2> DEFINE g == [seen \in SUBSET Names |-> f[seen]]
  <2>1. ASSUME NEW s \in SUBSET Names PROVE g[s] = body(g)[s]
    <3>1. g[s] = f[s] /\ \A m \in Names : g[s \cup {m}] = f[s \cup {m}] OBVIOUS
    <3> HIDE DEF g
    <3> QED BY <1>1, <3>1 DEF Follows
  <2>2. body(g) = [s \in SUBSET Names |-> body(g)[s]]
    <3> HIDE DEF g
    <3> QED OBVIOUS
  <2> QED BY <2>1, <2>2
<1>3. h = body(h)
  <2> HIDE DEF body
  <2> QED BY <1>2
<1>4. \A n, seen : Follow(a, n, seen) = h[seen][n]
      BY DEF Follow
<1>5. ASSUME NEW s \in SUBSET Names, NEW n \in Names
      PROVE  h[s][n] = IF a[n] # n /\ n \notin s THEN h[s \cup {n}][a[n]] ELSE n
  <2>1. h[s] = body(h)[s]
    <3> HIDE DEF h, body
    <3> QED BY <1>3
  <2> HIDE DEF h
  <2> QED BY <2>1
<1> HIDE DEF h
<1> QED BY <1>4, <1>5

\* From a name that has an alias, Follow comes to the end of its chain.
LEMMA FollowEnds ==
  ASSUME NEW a \in AliasTables, Ending(a), NEW n \in Names, a[n] # n
  PROVE  Follow(a, a[n], {n}) \in Reach(a, n) /\ a[Follow(a, a[n], {n})] = Follow(a, a[n], {n})
<1> DEFINE ToEnd(m, seen) == /\ Follow(a, m, seen) \in Reach(a, m)
                             /\ a[Follow(a, m, seen)] = Follow(a, m, seen)
           Good == {m \in Names : \A seen \in SUBSET Names : seen \cap Reach(a, m) = {} => ToEnd(m, seen)}
           Bad == Names \ Good
<1>1. ASSUME NEW m \in Names, a[m] = m PROVE m \in Good
  <2> SUFFICES ASSUME NEW seen \in SUBSET Names PROVE ToEnd(m, seen)
      OBVIOUS
  <2>1. Follow(a, m, seen) = m BY <1>1, FollowSteps
  <2> QED BY <1>1, <2>1, ReachIsClosed
<1>2. ASSUME NEW m \in Names, a[m] # m, a[m] \in Good PROVE m \in Good
  <2> SUFFICES ASSUME NEW seen \in SUBSET Names, seen \cap Reach(a, m) = {} PROVE ToEnd(m, seen)
      OBVIOUS
  <2>1. m \in Reach(a, m) /\ m \notin seen BY ReachIsClosed
  <2>2. Follow(a, m, seen) = Follow(a, a[m], seen \cup {m}) BY <1>2, <2>1, FollowSteps
  <2>3. Reach(a, m) = {m} \cup Reach(a, a[m]) /\ m \notin Reach(a, a[m])
        BY <1>2, ReachStarts, NoReturn
  <2>4. (seen \cup {m}) \cap Reach(a, a[m]) = {} /\ seen \cup {m} \in SUBSET Names BY <2>3
  <2>5. ToEnd(a[m], seen \cup {m}) BY <1>2, <2>4
  <2> QED BY <2>2, <2>3, <2>5
<1>3. ASSUME NEW m \in Bad PROVE FALSE
  <2> HIDE DEF Good
  <2>1. Closed(a, Bad) BY <1>2, <1>1 DEF Closed, AliasTables
  <2>2. Reach(a, m) \subseteq Bad BY <2>1, ReachIsLeast
  <2>3. PICK e \in Reach(a, m) : a[e] = e BY DEF Ending
  <2> QED BY <1>1, <2>2, <2>3
<1>4. a[n] \in Good BY <1>3 DEF AliasTables
<1>5. n \notin Reach(a, a[n]) BY NoReturn
<1>6. ToEnd(a[n], {n}) BY <1>4, <1>5
<1> QED BY <1>6, ReachStarts
-----------------------------------------------------------------------------
(* Merged names.  Every chain of aliases ends, at a name that answers for    *)
(* those on it: it is a key, or was one that is gone (Ends).  A merge or a   *)
(* rename that is on its way holds what keeps that so (InHand).              *)

\* Names of keys, and of keys that are gone.
Answering == {n \in Names : Named(n) # {}} \cup lost

Answered(a, names, n) == n \in names \/ \E e \in Reach(a, n) : a[e] = e /\ e \in names

Ends == Ending(Aliases) /\ \A n \in merged : Answered(Aliases, Answering, n)

\* No request runs beside a merge.
Single == \A r, q \in Requests : r # q /\ Merging(r) => ~Running(q)

TargetHeld(q) == q.target \in Ids /\ Holds(q.target, q.into)

InHand(q) ==
  /\ q.pc = "renameMeta" => q.name \in Answering
  /\ q.pc = "target" /\ q.target # None => TargetHeld(q)
  /\ q.pc \in {"consolidate", "fill", "delete", "markTarget", "mark"} => TargetHeld(q)
  /\ q.pc = "mark" => Aliases[q.into] = q.into /\ q.into \notin q.names

Chains == ~mergeRaced => Single /\ Ends /\ \A r \in Requests : InHand(request[r])

LEMMA AliasesTyped ==
  ASSUME meta \in MetaTables
  PROVE  Aliases \in AliasTables
<1>1. ASSUME NEW n \in Names, meta[n] # None, meta[n].replacement # None
      PROVE  meta[n].replacement \in Names
  <2>1. meta[n] \in Metas BY <1>1 DEF MetaTables, Maybe
  <2> QED BY <1>1, <2>1 DEF Metas, Maybe
<1> QED BY <1>1 DEF Aliases, AliasTables

\* An alias becomes t, which ends a chain and answers, and no other name than n
\* stops answering.
LEMMA StillAnswered ==
  ASSUME NEW a \in AliasTables, NEW n \in Names, NEW t \in Names, a[t] = t \/ t = n,
         NEW b, b = Moved(a, n, t),
         NEW old, NEW new, old \ {n} \subseteq new, t \in new,
         NEW m \in Names, m = n \/ Answered(a, old, m)
  PROVE  Answered(b, new, m)
<1>1. /\ b \in AliasTables /\ b[t] = t
      /\ \A e \in Reach(a, m) : a[e] = e => (e \in Reach(b, m) /\ b[e] = e) \/ t \in Reach(b, m)
      BY Redirected
<1>2. b[n] = t BY DEF AliasTables, Moved
<1>3. CASE t \in Reach(b, m) BY <1>1, <1>3 DEF Answered
<1>4. CASE m = n
  <2>1. n \in Reach(b, n) /\ Closed(b, Reach(b, n)) BY <1>1, ReachIsClosed
  <2>2. t \in Reach(b, m) BY <1>2, <1>4, <2>1 DEF Closed
  <2> QED BY <1>3, <2>2
<1>5. CASE m # n /\ m \in old BY <1>5 DEF Answered
<1>6. CASE t \notin Reach(b, m) /\ \E e \in Reach(a, m) : a[e] = e /\ e \in old
  <2>1. PICK e \in Reach(a, m) : a[e] = e /\ e \in old BY <1>6
  <2>2. e \in Reach(b, m) /\ b[e] = e BY <1>1, <1>6, <2>1
  <2>3. e \in new BY <1>2, <2>1, <2>2
  <2> QED BY <2>2, <2>3 DEF Answered
<1> QED BY <1>3, <1>4, <1>5, <1>6 DEF Answered

\* What a step does to the chains: nothing, ...
LEMMA EndsStay ==
  ASSUME Ends, Aliases' = Aliases, merged' = merged, Answering \subseteq Answering'
  PROVE  Ends'
<1>1. PICK a : a = Aliases OBVIOUS
<1>2. PICK old : old = Answering OBVIOUS
<1>3. PICK new : new = Answering' OBVIOUS
<1>4. Ending(a) /\ \A n \in merged : Answered(a, old, n) BY <1>1, <1>2 DEF Ends
<1>5. \A n \in merged : Answered(a, new, n) BY <1>2, <1>3, <1>4 DEF Answered
<1>6. Aliases' = a BY <1>1
<1> QED BY <1>3, <1>4, <1>5, <1>6 DEF Ends

\* ... or it makes n an alias of t.
LEMMA EndsMove ==
  ASSUME Ends, meta \in MetaTables, merged \subseteq Names, NEW n \in Names, NEW t \in Names,
         Aliases[t] = t \/ t = n, Aliases' = Moved(Aliases, n, t),
         Answering \ {n} \subseteq Answering', t \in Answering', merged' \subseteq merged \cup {n}
  PROVE  Ends'
<1>1. PICK a : a = Aliases OBVIOUS
<1>2. PICK b : b = Aliases' OBVIOUS
<1>3. PICK old : old = Answering OBVIOUS
<1>4. PICK new : new = Answering' OBVIOUS
<1>5. a \in AliasTables /\ b = Moved(a, n, t) /\ (a[t] = t \/ t = n)
      BY <1>1, <1>2, AliasesTyped
<1>6. Ending(a) /\ \A m \in merged : Answered(a, old, m) BY <1>1, <1>3 DEF Ends
<1>7. Ending(b) BY <1>5, <1>6, RedirectedEnds
<1>8. \A m \in merged' : m \in Names /\ (m = n \/ Answered(a, old, m)) BY <1>6
<1>9. old \ {n} \subseteq new /\ t \in new BY <1>3, <1>4
<1>10. \A m \in merged' : Answered(b, new, m) BY <1>5, <1>8, <1>9, StillAnswered
<1> QED BY <1>2, <1>4, <1>7, <1>10 DEF Ends

\* A name that is answered for is a key, or Resolved finds what answers.
LEMMA AnsweredResolves ==
  ASSUME meta \in MetaTables, Ending(Aliases), NEW n \in Names, Answered(Aliases, Answering, n)
  PROVE  Named(n) # {} \/ LeadsToKey(n) \/ Resolved(n) \in lost \/ n \in lost
<1>1. PICK a : a = Aliases OBVIOUS
<1>2. a \in AliasTables /\ Ending(a) BY <1>1, AliasesTyped
<1>3. CASE n \in Answering BY <1>3 DEF Answering
<1>4. ASSUME NEW e \in Reach(a, n), a[e] = e, e \in Answering, n \notin Answering
      PROVE  LeadsToKey(n) \/ Resolved(n) \in lost
  <2>1. e # n BY <1>4
  <2>2. a[n] # n BY <1>2, <2>1, ReachStarts
  <2>3. Follow(a, a[n], {n}) = e BY <1>2, <1>4, <2>2, FollowEnds, OneEnd
  <2>4. Resolved(n) = e BY <1>1, <2>1, <2>2, <2>3 DEF Resolved, HasAlias
  <2>5. e \in Names BY <1>2, ReachIsClosed
  <2> QED BY <1>4, <2>4, <2>5, ConstantsAssumption DEF Answering, LeadsToKey
<1> QED BY <1>1, <1>3, <1>4 DEF Answered
-----------------------------------------------------------------------------
(* What a step of a request has to show. *)

LEMMA ChainsGo ==
  ASSUME IInv, Chains, NEW r \in Requests, Running(r), NEW local,
         request' = [request EXCEPT ![r] = local], Merges(local) => Merging(r),
         mergeRaced' = mergeRaced, Merging(r) \/ Answering \subseteq Answering',
         ~mergeRaced /\ Ends /\ InHand(request[r]) => InHand(local)' /\ Ends'
  PROVE  Chains'
<1> SUFFICES ASSUME ~mergeRaced PROVE Single' /\ Ends' /\ \A q \in Requests : InHand(request[q])'
    BY DEF Chains
<1>1. request \in [Requests -> RequestStates]
      BY TypeParts DEF IInv
<1>2. \A q \in Requests : request'[q] = IF q = r THEN local ELSE request[q]
      BY <1>1
<1>3. Single /\ Ends /\ \A q \in Requests : InHand(request[q])
      BY DEF Chains
<1>4. Single'
  <2>1. \A q \in Requests : Merges(request'[q]) => Merging(q)
        BY <1>2 DEF Merges, Merging
  <2>2. \A q \in Requests : request'[q].pc # "idle" => Running(q)
        BY <1>2 DEF Running, At
  <2> QED BY <1>3, <2>1, <2>2 DEF Single, Merging, Merges, Running, At
<1>5. ASSUME NEW q \in Requests PROVE InHand(request[q])'
  <2>1. CASE q = r
        BY <1>2, <1>3, <2>1
  <2>2. CASE q # r
    <3>1. PICK x : x = request[q]
          OBVIOUS
    <3>2. InHand(x) /\ request'[q] = x
          BY <1>2, <1>3, <2>2, <3>1
    <3>3. ~Merges(x) /\ (Merging(r) => x.pc = "idle")
          BY <1>3, <2>2, <3>1 DEF Single, Merging, Merges, Running, At
    <3>4. x.pc = "renameMeta" => x.name \in Answering'
          BY <3>2, <3>3 DEF InHand
    <3>5. InHand(x)'
          BY <3>3, <3>4 DEF InHand, Merges
    <3> QED BY <3>2, <3>5
  <2> QED BY <2>1, <2>2
<1> QED BY <1>3, <1>4, <1>5

\* A sync's step, that moves no alias.
LEMMA SyncChains ==
  ASSUME IInv, Chains, NEW r \in Requests, Running(r), NEW local, ~Merges(local),
         request' = [request EXCEPT ![r] = local], local.pc = "renameMeta" => local.name \in Answering',
         Aliases' = Aliases, Answering \subseteq Answering', UNCHANGED <<merged, mergeRaced>>
  PROVE  Chains'
<1>1. InHand(local)'
      BY DEF InHand, Merges
<1>2. Ends => Ends'
      BY EndsStay
<1> QED BY <1>1, <1>2, ChainsGo

\* A merge that has its target, and not marked it.
Onward(q) == q.pc \in {"consolidate", "fill", "delete", "markTarget"}

\* A merge's step, that moves no alias.
LEMMA MergeChains ==
  ASSUME IInv, Chains, NEW r \in Requests, Merging(r), NEW q, q = request[r],
         NEW local, Onward(local),
         request' = [request EXCEPT ![r] = local],
         InHand(q) => TargetHeld(local)',
         Aliases' = Aliases, Answering \subseteq Answering', UNCHANGED <<merged, mergeRaced>>
  PROVE  Chains'
<1>1. InHand(q) => InHand(local)'
      BY DEF InHand, Onward
<1>2. Ends => Ends'
      BY EndsStay
<1>3. Running(r)
      BY DEF Merging, Running, At
<1> QED BY <1>1, <1>2, <1>3, ChainsGo

\* A step that leaves the keys' names.
NamesStay == \A i \in Ids : row[i] # None => row'[i] # None /\ row'[i].name = row[i].name

LEMMA RowChanged ==
  ASSUME Stored, NEW i \in Ids, NEW new \in Rows, new.name = row[i].name, row' = [row EXCEPT ![i] = new]
  PROVE  NamesStay
BY ConstantsAssumption DEF NamesStay, Stored

LEMMA AnsweringStays ==
  ASSUME NamesStay, lost \subseteq lost'
  PROVE  Answering \subseteq Answering' /\ \A i \in Ids : \A n \in Names : Holds(i, n) => Holds(i, n)'
<1>1. \A n \in Names : Named(n) # {} => Named(n)' # {}
      BY DEF NamesStay, Named, Live
<1>2. \A i \in Ids : \A n \in Names : Holds(i, n) => Holds(i, n)'
      BY DEF NamesStay, Holds
<1> QED BY <1>1, <1>2 DEF Answering

LEMMA RowsUnchanged ==
  ASSUME row' = row
  PROVE  NamesStay
BY DEF NamesStay

LEMMA FilledNames ==
  ASSUME Stored, NEW i \in Ids, row[i] # None, row' = Filled(i)
  PROVE  NamesStay
<1> DEFINE cell == IF row[i].cell = NoCell THEN Machine ELSE row[i].cell
           new == [row[i] EXCEPT !.cell = cell]
<1>1. row[i] \in Rows
      BY LiveRow
<1>2. cell \in Cells
      BY <1>1, IdleType DEF Rows
<1>3. row' = [row EXCEPT ![i] = new]
      BY DEF Filled, Stored
<1> HIDE DEF cell
<1>4. new \in Rows /\ new.name = row[i].name
      BY <1>1, <1>2 DEF Rows
<1> QED BY <1>3, <1>4, RowChanged

\* A request's step that leaves names and aliases, and after which it is at no
\* merge and renames nothing.
LEMMA QuietChains ==
  ASSUME IInv, Chains, NEW r \in Requests, Running(r), NEW local, ~Merges(local), local.pc # "renameMeta",
         request' = [request EXCEPT ![r] = local], NamesStay, Aliases' = Aliases, UNCHANGED history
  PROVE  Chains'
<1>1. Answering \subseteq Answering' /\ UNCHANGED <<merged, mergeRaced>>
      BY AnsweringStays DEF history
<1> QED BY <1>1, SyncChains

\* A sync goes on.
LEMMA QuietGoTo ==
  ASSUME IInv, Chains, NEW r \in Requests, Syncs(request[r]), NEW pc \in {"create", "fillNew", "deprecate", "synced"},
         GoTo(r, pc), NamesStay, Aliases' = Aliases, UNCHANGED history
  PROVE  Chains'
<1> DEFINE local == [request[r] EXCEPT !.pc = pc]
<1>1. request' = [request EXCEPT ![r] = local] /\ local.pc = pc
      BY GoToStep, SyncAt
<1> HIDE DEF local
<1>2. ~Merges(local) /\ local.pc # "renameMeta" /\ Running(r)
      BY <1>1, SyncTyped DEF Merges
<1> QED BY <1>1, <1>2, QuietChains

LEMMA EndChains ==
  ASSUME IInv, Chains, NEW r \in Requests, Running(r), Go(r, Idle), NamesStay, Aliases' = Aliases,
         UNCHANGED history
  PROVE  Chains'
<1>1. request' = [request EXCEPT ![r] = Idle] /\ ~Merges(Idle) /\ Idle.pc # "renameMeta"
      BY IdleType DEF Go
<1> QED BY <1>1, QuietChains

LEMMA LookupChains ==
  ASSUME IInv, Chains, NEW r \in Requests, Lookup(r)
  PROVE  Chains'
<1>0. PICK q : q = request[r]
      OBVIOUS
<1> DEFINE Known(alias) == [q EXCEPT !.pc = "detect", !.into = alias]
           Renaming(i) == [q EXCEPT !.pc = "rename", !.from = i, !.old = row[i].name,
                                    !.rewrite = row[i].text # q.text]
<1>1. q.pc = "lookup" /\ Syncs(q) /\ UNCHANGED <<row, meta>> /\ UNCHANGED history
      BY <1>0 DEF Lookup, At, Syncs, store
<1>2. q \in RequestStates /\ Running(r)
      BY <1>0, <1>1, SyncTyped
<1>3. NamesStay /\ Aliases' = Aliases
      BY <1>1, RowsUnchanged DEF Aliases
<1>4. \/ \E alias : request' = [request EXCEPT ![r] = Known(alias)]
      \/ GoTo(r, "create")
      \/ \E i \in Ids : request' = [request EXCEPT ![r] = Renaming(i)]
      BY <1>0 DEF Lookup, Go, Candidates, Live
<1>5. ASSUME NEW alias, request' = [request EXCEPT ![r] = Known(alias)] PROVE Chains'
  <2>1. PICK local : local = Known(alias) OBVIOUS
  <2>2. local.pc = "detect" BY <1>2, <2>1 DEF RequestStates
  <2>3. request' = [request EXCEPT ![r] = local] BY <1>5, <2>1
  <2> QED BY <1>1, <1>2, <1>3, <2>2, <2>3, QuietChains DEF Merges
<1>6. ASSUME NEW i \in Ids, request' = [request EXCEPT ![r] = Renaming(i)] PROVE Chains'
  <2>1. PICK local : local = Renaming(i) OBVIOUS
  <2>2. local.pc = "rename" BY <1>2, <2>1 DEF RequestStates
  <2>3. request' = [request EXCEPT ![r] = local] BY <1>6, <2>1
  <2> QED BY <1>1, <1>2, <1>3, <2>2, <2>3, QuietChains DEF Merges
<1>7. CASE GoTo(r, "create")
      BY <1>0, <1>1, <1>3, <1>7, QuietGoTo
<1> QED BY <1>4, <1>5, <1>6, <1>7

\* The two detections, and the deprecation.
LEMMA DetectChains ==
  ASSUME IInv, Chains, NEW r \in Requests, Detect(r) \/ DetectNew(r)
  PROVE  Chains'
<1>1. /\ request[r].pc \in {"detect", "detectNew"} /\ Syncs(request[r]) /\ UNCHANGED row /\ UNCHANGED history
      BY DEF Detect, DetectNew, At, Syncs
<1>2. /\ request[r].name \in Names /\ request[r].usage \in BOOLEAN /\ meta \in MetaTables
      /\ request[r].pc = "detect" => request[r].into \in Names
      BY <1>1, SyncTyped
<1>3. \E n \in Names : meta' \in Detection(n, request[r].usage)
      BY <1>2 DEF Detect, DetectNew, At
<1>4. Aliases' = Aliases
      BY <1>2, <1>3, AliasesStay
<1>5. NamesStay
      BY <1>1, RowsUnchanged
<1>6. GoTo(r, "deprecate") \/ GoTo(r, "fillNew")
      BY DEF Detect, DetectNew
<1> QED BY <1>1, <1>4, <1>5, <1>6, QuietGoTo

LEMMA DeprecateAliases ==
  ASSUME meta \in MetaTables, NEW r, Deprecate(r)
  PROVE  Aliases' = Aliases
<1>1. ASSUME NEW n \in Names
      PROVE  /\ (meta'[n] # None /\ meta'[n].replacement # None) <=> (meta[n] # None /\ meta[n].replacement # None)
             /\ meta[n] # None => meta'[n].replacement = meta[n].replacement
  <2> DEFINE fresh == [deprecated |-> TRUE, replacement |-> None, used |-> FALSE]
             used == meta[n].used /\ meta[n].deprecated
             old == [meta[n] EXCEPT !.deprecated = TRUE, !.used = used]
  <2>1. meta'[n] = IF n \notin Gone(r) THEN meta[n] ELSE IF meta[n] = None THEN fresh ELSE
                     [meta[n] EXCEPT !.deprecated = TRUE, !.used = @ /\ meta[n].deprecated]
        BY DEF Deprecate
  <2>2. fresh.replacement = None /\ fresh \in Metas
        BY DEF Metas, Maybe
  <2>3. meta[n] # None => /\ old.replacement = meta[n].replacement /\ old \in Metas
                          /\ old = [meta[n] EXCEPT !.deprecated = TRUE, !.used = @ /\ meta[n].deprecated]
    <3>1. used \in BOOLEAN
          OBVIOUS
    <3>2. meta[n] # None => [meta[n] EXCEPT !.deprecated = TRUE, !.used = @ /\ meta[n].deprecated] = old
          BY DEF MetaTables, Maybe, Metas
    <3> HIDE DEF used
    <3>3. meta[n] # None => old.replacement = meta[n].replacement /\ old \in Metas
          BY <3>1 DEF MetaTables, Maybe, Metas
    <3> QED BY <3>2, <3>3
  <2> HIDE DEF fresh, old
  <2> QED BY <2>1, <2>2, <2>3, ConstantsAssumption
<1> QED BY <1>1 DEF Aliases

LEMMA DeprecateChains ==
  ASSUME IInv, Chains, NEW r \in Requests, Deprecate(r)
  PROVE  Chains'
<1>1. Syncs(request[r]) /\ UNCHANGED row /\ UNCHANGED history
      BY DEF Deprecate, At, Syncs
<1>2. meta \in MetaTables /\ Running(r)
      BY <1>1, SyncTyped
<1>3. NamesStay /\ Aliases' = Aliases
      BY <1>1, <1>2, RowsUnchanged, DeprecateAliases
<1>4. GoTo(r, "synced") \/ Go(r, Idle)
      BY DEF Deprecate
<1> QED BY <1>1, <1>2, <1>3, <1>4, QuietGoTo, EndChains

LEMMA ChangeChains ==
  ASSUME IInv, Chains, NEW r \in Requests, Change(r)
  PROVE  Chains'
<1>0. PICK q : q = request[r]
      OBVIOUS
<1> DEFINE i == q.from
           owner == IF IsHuman(row[i].cell) THEN "stale" ELSE row[i].cell.owner
           cell == [row[i].cell EXCEPT !.owner = owner]
           new == [row[i] EXCEPT !.text = q.text, !.cell = cell]
<1>1. q.pc = "change" /\ Syncs(q) /\ row[i] # None /\ UNCHANGED history /\ GoTo(r, "deprecate")
      BY <1>0 DEF Change, At, Syncs
<1>2. /\ Stored /\ q.text \in Texts /\ i \in Ids /\ q.name \in Names /\ q.usage \in BOOLEAN
      /\ meta \in MetaTables
      BY <1>0, <1>1, SyncTyped
<1>3. row[i] \in Rows /\ row[i].cell \in Cells
      BY <1>1, <1>2, LiveRow
<1>4. NamesStay
  <2>1. row' = [row EXCEPT ![i] = new]
        BY <1>0, <1>2, <1>3 DEF Change, Stored, Rows, Cells
  <2>2. owner \in {"human", "stale", "machine", "none"}
        BY <1>3 DEF Cells
  <2> HIDE DEF owner
  <2>3. cell \in Cells
        BY <1>3, <2>2 DEF Cells
  <2> HIDE DEF cell
  <2>4. new \in Rows /\ new.name = row[i].name
        BY <1>2, <1>3, <2>3 DEF Rows
  <2> HIDE DEF new
  <2> QED BY <1>2, <2>1, <2>4, RowChanged
<1>5. Aliases' = Aliases
  <2>1. meta' \in Detection(q.name, q.usage) \/ meta' = meta
        BY <1>0 DEF Change
  <2>2. meta' = meta => Aliases' = Aliases
        BY DEF Aliases
  <2> QED BY <1>2, <2>1, <2>2, AliasesStay
<1> QED BY <1>0, <1>1, <1>4, <1>5, QuietGoTo

LEMMA FillChains ==
  ASSUME IInv, Chains, NEW r \in Requests, FillNew(r) \/ Touch(r)
  PROVE  Chains'
<1>1. /\ request[r].pc \in {"fillNew", "touch"} /\ Syncs(request[r]) /\ UNCHANGED history
      /\ row[request[r].from] # None /\ row' = Filled(request[r].from) /\ GoTo(r, "deprecate")
      BY DEF FillNew, Touch, At, Syncs
<1>2. /\ Stored /\ request[r].from \in Ids /\ request[r].name \in Names /\ meta \in MetaTables
      BY <1>1, SyncTyped
<1>3. NamesStay
      BY <1>1, <1>2, FilledNames
<1>4. Aliases' = Aliases
  <2>1. meta' \in Detection(request[r].name, TRUE) \/ meta' = meta
        BY DEF FillNew, Touch
  <2>2. meta' = meta => Aliases' = Aliases
        BY DEF Aliases
  <2> QED BY <1>2, <2>1, <2>2, AliasesStay
<1> QED BY <1>1, <1>3, <1>4, QuietGoTo

\* A row of a new name makes it answer, and leaves the others.
LEMMA RowAdded ==
  ASSUME Stored, created < MaxRows, NEW n \in Names, NEW text \in Texts, Named(n) = {},
         NEW i, i = created', created' = created + 1, row' = [row EXCEPT ![i] = NewRow(n, text)],
         UNCHANGED meta
  PROVE  NamesStay /\ i \in Ids /\ Holds(i, n)'
<1>1. meta' \in MetaTables
      BY DEF Stored
<1>2. row' = [row EXCEPT ![created + 1] = NewRow(n, text)]
      OBVIOUS
<1>3. i \in Ids
      BY <1>1, <1>2, RowIsNew
<1>4. row[i] = None
      BY <1>3, ConstantsAssumption DEF Stored, Ids
<1>5. NewRow(n, text) \in Rows /\ NewRow(n, text).name = n
      BY IdleType DEF NewRow, Rows
<1>6. /\ row'[i] # None /\ row'[i].name = n
      /\ \A j \in Ids : j # i => row'[j] = row[j]
      BY <1>3, <1>5, ConstantsAssumption DEF Stored
<1> QED BY <1>3, <1>4, <1>6 DEF NamesStay, Holds

LEMMA CreateChains ==
  ASSUME IInv, Chains, NEW r \in Requests, Create(r)
  PROVE  Chains'
<1>0. PICK q : q = request[r]
      OBVIOUS
<1> DEFINE State(i) == [q EXCEPT !.pc = "detectNew", !.from = i]
<1>1. q.pc = "create" /\ Syncs(q) /\ UNCHANGED meta /\ UNCHANGED history
      BY <1>0 DEF Create, At, Syncs
<1>2. /\ q \in RequestStates /\ Running(r) /\ Stored /\ q.name \in Names /\ q.text \in Texts
      BY <1>0, <1>1, SyncTyped
<1>3. \/ /\ Named(q.name) = {} /\ created < MaxRows /\ created' = created + 1
         /\ row' = [row EXCEPT ![created'] = NewRow(q.name, q.text)]
      \/ UNCHANGED row
      BY <1>0 DEF Create
<1>4. NamesStay
  <2>1. CASE /\ Named(q.name) = {} /\ created < MaxRows /\ created' = created + 1
             /\ row' = [row EXCEPT ![created'] = NewRow(q.name, q.text)]
    <3>1. PICK i : i = created'
          OBVIOUS
    <3>2. row' = [row EXCEPT ![i] = NewRow(q.name, q.text)]
          BY <2>1, <3>1
    <3> QED BY <1>1, <1>2, <2>1, <3>1, <3>2, RowAdded
  <2> QED BY <1>3, <2>1, RowsUnchanged
<1>5. \E i : request' = [request EXCEPT ![r] = State(i)]
      BY <1>0 DEF Create, Go
<1>6. PICK i : request' = [request EXCEPT ![r] = State(i)]
      BY <1>5
<1>7. PICK local : local = State(i)
      OBVIOUS
<1>8. local.pc = "detectNew"
      BY <1>2, <1>7 DEF RequestStates
<1>9. request' = [request EXCEPT ![r] = local]
      BY <1>6, <1>7
<1>10. Aliases' = Aliases
       BY <1>1 DEF Aliases
<1> QED BY <1>1, <1>2, <1>4, <1>8, <1>9, <1>10, QuietChains DEF Merges

\* The old name of a key that is renamed is lost, and answers as that.
LEMMA RenameChains ==
  ASSUME IInv, Chains, NEW r \in Requests, Rename(r)
  PROVE  Chains'
<1>0. PICK q : q = request[r]
      OBVIOUS
<1> DEFINE i == q.from
           new == [row[i] EXCEPT !.name = q.name]
           local == [q EXCEPT !.pc = "renameMeta"]
<1>1. /\ q.pc = "rename" /\ Syncs(q) /\ row[i] # None /\ row' = [row EXCEPT ![i].name = q.name]
      /\ lost' = (lost \cup {row[i].name}) \ {q.name} /\ UNCHANGED <<meta, merged, mergeRaced>>
      BY <1>0 DEF Rename, At, Syncs
<1>2. /\ Running(r) /\ Stored /\ q.name \in Names /\ i \in Ids
      BY <1>0, <1>1, SyncTyped
<1>3. row[i] \in Rows
      BY <1>1, <1>2, LiveRow
<1>4. /\ row'[i] # None /\ row'[i].name = q.name
      /\ \A j \in Ids : j # i => row'[j] = row[j]
  <2>1. new \in Rows /\ new.name = q.name
        BY <1>2, <1>3 DEF Rows
  <2>2. row' = [row EXCEPT ![i] = new]
        BY <1>1, <1>2 DEF Stored
  <2> HIDE DEF new
  <2> QED BY <1>2, <2>1, <2>2, ConstantsAssumption DEF Stored
<1>5. q.name \in Answering'
      BY <1>2, <1>4 DEF Answering, Named, Live
<1>6. Answering \subseteq Answering'
  <2>1. ASSUME NEW m \in Names, Named(m) # {} PROVE m \in Answering'
    <3>1. PICK j \in Ids : row[j] # None /\ row[j].name = m
          BY <2>1 DEF Named, Live
    <3>2. j # i => Named(m)' # {}
          BY <1>4, <3>1 DEF Named, Live
    <3>3. j = i => m \in lost' \/ m = q.name
          BY <1>1, <3>1
    <3> QED BY <1>5, <2>1, <3>2, <3>3 DEF Answering
  <2>2. \A m \in lost : m \in lost' \/ m = q.name
        BY <1>1
  <2> QED BY <1>5, <2>1, <2>2 DEF Answering
<1>7. Aliases' = Aliases
      BY <1>1 DEF Aliases
<1>8. local.pc = "renameMeta" /\ local.name = q.name
      BY <1>0, <1>1, SyncAt
<1>9. request' = [request EXCEPT ![r] = local]
      BY <1>0, GoToStep DEF Rename
<1> HIDE DEF local
<1> QED BY <1>1, <1>2, <1>5, <1>6, <1>7, <1>8, <1>9, SyncChains DEF Merges

\* What was recorded of the new name is deleted, and with it the alias it had.
LEMMA RenameMetaChains ==
  ASSUME IInv, Chains, NEW r \in Requests, RenameMeta(r)
  PROVE  Chains'
<1>0. PICK q : q = request[r]
      OBVIOUS
<1>1. q.pc = "renameMeta" /\ Syncs(q) /\ UNCHANGED row /\ UNCHANGED history
      BY <1>0 DEF RenameMeta, At, Syncs
<1>2. Running(r) /\ meta \in MetaTables /\ q.name \in Names /\ q.usage \in BOOLEAN
      BY <1>0, <1>1, SyncTyped
<1>3. NamesStay /\ merged \subseteq Names /\ UNCHANGED <<lost, merged, mergeRaced>>
      BY <1>1, RowsUnchanged DEF IInv, TypeOK, history
<1>4. Answering' = Answering
      BY <1>1, <1>3 DEF Answering, Named, Live
<1>5. CASE meta' \in Detection(q.name, q.usage) /\ GoTo(r, IF q.rewrite THEN "change" ELSE "fillNew")
  <2>1. PICK pc \in {"change", "fillNew"} : GoTo(r, pc)
        BY <1>5
  <2>2. PICK local : local = [q EXCEPT !.pc = pc]
        OBVIOUS
  <2>3. local.pc = pc /\ request' = [request EXCEPT ![r] = local]
        BY <1>0, <1>1, <2>1, <2>2, SyncAt, GoToStep
  <2>4. Aliases' = Aliases
        BY <1>2, <1>5, AliasesStay
  <2> QED BY <1>1, <1>2, <1>3, <2>3, <2>4, QuietChains DEF Merges
<1>6. CASE meta' = [meta EXCEPT ![q.name] = None] /\ Go(r, Idle)
  <2>1. Aliases' = Moved(Aliases, q.name, q.name)
        BY <1>2, <1>6 DEF Aliases, Moved, MetaTables
  <2>2. InHand(q) => q.name \in Answering'
        BY <1>1, <1>4 DEF InHand
  <2>3. Ends /\ InHand(q) => Ends'
        BY <1>2, <1>3, <1>4, <2>1, <2>2, EndsMove
  <2>4. request' = [request EXCEPT ![r] = Idle] /\ ~Merges(Idle) /\ InHand(Idle)'
        BY <1>6, IdleType DEF Go, InHand
  <2> QED BY <1>0, <1>2, <1>3, <1>4, <2>3, <2>4, ChainsGo
<1> QED BY <1>0, <1>5, <1>6 DEF RenameMeta
-----------------------------------------------------------------------------
(* Steps of merges, and the chains *)

LEMMA TargetChains ==
  ASSUME IInv, Chains, NEW r \in Requests, Target(r)
  PROVE  Chains'
<1>0. PICK q : q = request[r]
      OBVIOUS
<1> DEFINE State(i) == [q EXCEPT !.pc = "consolidate", !.target = i]
<1>1. Merging(r) /\ q.pc = "target" /\ UNCHANGED meta /\ UNCHANGED history
      BY <1>0 DEF Target, At, Merging
<1>2. /\ q \in RequestStates /\ Stored /\ q.into \in Names /\ q.text \in Texts
      /\ q.target \in Maybe(Ids)
      BY <1>0, <1>1, MergeState
<1>3. Aliases' = Aliases /\ UNCHANGED <<merged, lost, mergeRaced>>
      BY <1>1 DEF Aliases, history
<1>4. ASSUME NEW i \in Ids, request' = [request EXCEPT ![r] = State(i)], NamesStay,
             InHand(q) => Holds(i, q.into)'
      PROVE  Chains'
  <2>1. PICK local : local = State(i)
        OBVIOUS
  <2>2. Onward(local) /\ local.target = i /\ local.into = q.into
        BY <1>2, <2>1 DEF RequestStates, Maybe, Onward
  <2>3. request' = [request EXCEPT ![r] = local]
        BY <1>4, <2>1
  <2>4. InHand(q) => TargetHeld(local)'
        BY <1>4, <2>2 DEF TargetHeld
  <2>5. Answering \subseteq Answering'
        BY <1>3, <1>4, AnsweringStays
  <2> QED BY <1>0, <1>1, <1>3, <2>2, <2>3, <2>4, <2>5, MergeChains
<1> HIDE DEF State
<1>5. CASE /\ q.target # None /\ row[q.target] # None
           /\ row' = [row EXCEPT ![q.target].text = IF q.rewrite THEN q.text ELSE @]
           /\ GoTo(r, "consolidate")
  <2> DEFINE i == q.target
             text == IF q.rewrite THEN q.text ELSE row[i].text
             new == [row[i] EXCEPT !.text = text]
  <2>1. i \in Ids /\ row[i] \in Rows
        BY <1>2, <1>5, LiveRow DEF Maybe
  <2>2. row' = [row EXCEPT ![i] = new]
        BY <1>2, <1>5, <2>1 DEF Stored, Rows
  <2>3. text \in Texts
        BY <1>2, <2>1 DEF Rows
  <2> HIDE DEF text
  <2>4. new \in Rows /\ new.name = row[i].name
        BY <2>1, <2>3 DEF Rows
  <2> HIDE DEF new
  <2>5. NamesStay
        BY <1>2, <2>1, <2>2, <2>4, RowChanged
  <2>6. InHand(q) => Holds(i, q.into)'
        BY <1>1, <1>2, <1>3, <1>5, <2>1, <2>5, AnsweringStays DEF InHand, TargetHeld
  <2>7. request' = [request EXCEPT ![r] = [q EXCEPT !.pc = "consolidate"]]
        BY <1>0, <1>5, GoToStep
  <2>8. [q EXCEPT !.pc = "consolidate"] = State(i)
        BY <1>2 DEF State, RequestStates
  <2> QED BY <1>4, <2>1, <2>5, <2>6, <2>7, <2>8
<1>6. CASE /\ Named(q.into) = {} /\ created < MaxRows
           /\ created' = created + 1 /\ row' = [row EXCEPT ![created'] = NewRow(q.into, q.text)]
           /\ request' = [request EXCEPT ![r] = State(created')]
  <2>1. PICK i : i = created'
        OBVIOUS
  <2>2. row' = [row EXCEPT ![i] = NewRow(q.into, q.text)] /\ request' = [request EXCEPT ![r] = State(i)]
        BY <1>6, <2>1
  <2>3. NamesStay /\ i \in Ids /\ Holds(i, q.into)'
        BY <1>1, <1>2, <1>6, <2>1, <2>2, RowAdded
  <2> QED BY <1>4, <2>2, <2>3
<1>7. CASE \E j \in Named(q.into) : request' = [request EXCEPT ![r] = State(j)] /\ UNCHANGED row
  <2>1. PICK j \in Ids : /\ row[j] # None /\ row[j].name = q.into
                         /\ request' = [request EXCEPT ![r] = State(j)] /\ UNCHANGED row
        BY <1>7 DEF Named, Live
  <2>2. NamesStay /\ Holds(j, q.into)'
        BY <2>1, RowsUnchanged DEF Holds
  <2> QED BY <1>4, <2>1, <2>2
<1> QED BY <1>0, <1>5, <1>6, <1>7 DEF Target, Go, State

\* The target is given its text.
LEMMA ConsolidatedNames ==
  ASSUME IInv, NEW r \in Requests, Consolidate(r)
  PROVE  NamesStay
<1>0. PICK q : q = request[r]
      OBVIOUS
<1> DEFINE i == q.target
<1>1. Merging(r) /\ q.pc = "consolidate" /\ row[i] # None
      BY <1>0 DEF Consolidate, At, Merging
<1>2. Stored /\ i \in Ids /\ q.read \in [Ids -> Cells]
      BY <1>0, <1>1, MergeState
<1>3. PICK winner \in Winners(r) :
        row' = [row EXCEPT ![i].cell = IF winner = NoCell THEN @ ELSE Written(winner, @)]
      BY <1>0 DEF Consolidate
<1> DEFINE cell == IF winner = NoCell THEN row[i].cell ELSE Written(winner, row[i].cell)
           new == [row[i] EXCEPT !.cell = cell]
<1>4. winner \in Cells
      BY <1>0, <1>2 DEF Winners
<1>5. row[i] \in Rows
      BY <1>1, <1>2, LiveRow
<1>6. cell \in Cells
      BY <1>4, <1>5 DEF Written, Rows
<1>7. row' = [row EXCEPT ![i] = new]
      BY <1>2, <1>3 DEF Stored
<1> HIDE DEF cell
<1>8. new \in Rows /\ new.name = row[i].name
      BY <1>5, <1>6 DEF Rows
<1> HIDE DEF new
<1> QED BY <1>2, <1>7, <1>8, RowChanged

LEMMA ConsolidateChains ==
  ASSUME IInv, Chains, NEW r \in Requests, Consolidate(r) \/ Fill(r)
  PROVE  Chains'
<1>0. PICK q : q = request[r]
      OBVIOUS
<1>1. /\ Merging(r) /\ q.pc \in {"consolidate", "fill"} /\ row[q.target] # None
      /\ UNCHANGED meta /\ UNCHANGED history
      BY <1>0 DEF Consolidate, Fill, At, Merging
<1>2. q \in RequestStates /\ Stored /\ q.into \in Names /\ q.target \in Ids
      BY <1>0, <1>1, MergeState
<1>3. NamesStay
      BY <1>0, <1>1, <1>2, ConsolidatedNames, FilledNames DEF Fill
<1>4. Aliases' = Aliases /\ UNCHANGED <<merged, lost, mergeRaced>>
      BY <1>1 DEF Aliases, history
<1>5. \E rest : request' = [request EXCEPT ![r] = [q EXCEPT !.pc = "fill", !.sources = rest]]
                \/ request' = [request EXCEPT ![r] = [q EXCEPT !.pc = "delete", !.sources = rest]]
  <2>1. CASE Consolidate(r)
    <3>1. request' = [request EXCEPT ![r] = [q EXCEPT !.pc = "fill"]]
          BY <1>0, <2>1, GoToStep DEF Consolidate
    <3>2. [q EXCEPT !.pc = "fill"] = [q EXCEPT !.pc = "fill", !.sources = q.sources]
          BY <1>2 DEF RequestStates
    <3> QED BY <3>1, <3>2
  <2>2. CASE Fill(r)
    <3>1. request' = [request EXCEPT ![r] = [q EXCEPT !.pc = "delete", !.sources = q.sources \ {q.target}]]
          BY <1>0, <1>2, <2>2 DEF Fill, Go, RequestStates
    <3> QED BY <3>1
  <2> QED BY <2>1, <2>2
<1>6. PICK rest :
        \E pc \in {"fill", "delete"} : request' = [request EXCEPT ![r] = [q EXCEPT !.pc = pc, !.sources = rest]]
      BY <1>5
<1>7. PICK pc \in {"fill", "delete"} : request' = [request EXCEPT ![r] = [q EXCEPT !.pc = pc, !.sources = rest]]
      BY <1>6
<1>8. PICK local : local = [q EXCEPT !.pc = pc, !.sources = rest]
      OBVIOUS
<1>9. Onward(local) /\ local.target = q.target /\ local.into = q.into
      BY <1>2, <1>8 DEF RequestStates, Onward
<1>10. request' = [request EXCEPT ![r] = local]
       BY <1>7, <1>8
<1>11. InHand(q) => TargetHeld(local)'
       BY <1>1, <1>2, <1>3, <1>4, <1>9, AnsweringStays DEF InHand, TargetHeld
<1>12. Answering \subseteq Answering'
       BY <1>3, <1>4, AnsweringStays
<1> QED BY <1>0, <1>1, <1>4, <1>9, <1>10, <1>11, <1>12, MergeChains

\* The name of a row that is deleted is lost; the target's row stays.
LEMMA DeleteOldChains ==
  ASSUME IInv, Chains, NEW r \in Requests, DeleteOld(r)
  PROVE  Chains'
<1>0. PICK q : q = request[r]
      OBVIOUS
<1> DEFINE Without(i) == [q EXCEPT !.sources = q.sources \ {i}]
<1>1. Merging(r) /\ q.pc = "delete" /\ UNCHANGED <<created, meta, merged, mergeRaced>>
      BY <1>0 DEF DeleteOld, At, Merging
<1>2. /\ q \in RequestStates /\ Stored /\ meta' \in MetaTables /\ q.into \in Names
      /\ q.target \in Ids /\ q.target \notin q.sources
      BY <1>0, <1>1, MergeState
<1>3. Aliases' = Aliases
      BY <1>1 DEF Aliases
<1>4. CASE GoTo(r, "markTarget") /\ UNCHANGED <<row, lost>>
  <2>1. PICK local : local = [q EXCEPT !.pc = "markTarget"]
        OBVIOUS
  <2>2. Onward(local) /\ local.target = q.target /\ local.into = q.into
        BY <1>2, <2>1 DEF RequestStates, Onward
  <2>3. request' = [request EXCEPT ![r] = local]
        BY <1>0, <1>4, <2>1, GoToStep
  <2>4. InHand(q) => TargetHeld(local)'
        BY <1>1, <1>4, <2>2 DEF InHand, TargetHeld, Holds
  <2>5. Answering' = Answering
        BY <1>4 DEF Answering, Named, Live
  <2> QED BY <1>0, <1>1, <1>3, <2>2, <2>3, <2>4, <2>5, MergeChains
<1>5. ASSUME NEW i \in q.sources \cap Live, row' = [row EXCEPT ![i] = None], lost' = lost \cup {row[i].name},
             request' = [request EXCEPT ![r] = Without(i)]
      PROVE  Chains'
  <2>1. i \in Ids /\ row[i] # None /\ i # q.target
        BY <1>2, <1>5 DEF Live
  <2>2. \A j \in Ids : row'[j] = IF j = i THEN None ELSE row[j]
        BY <1>1, <1>2, <1>5, <2>1, RowIsGone
  <2>3. PICK local : local = Without(i)
        OBVIOUS
  <2>4. Onward(local) /\ local.target = q.target /\ local.into = q.into
        BY <1>1, <1>2, <2>3 DEF RequestStates, Onward
  <2>5. request' = [request EXCEPT ![r] = local]
        BY <1>5, <2>3
  <2>6. InHand(q) => TargetHeld(local)'
        BY <1>1, <1>2, <2>1, <2>2, <2>4 DEF InHand, TargetHeld, Holds
  <2>7. Answering \subseteq Answering'
    <3>1. ASSUME NEW m \in Names, Named(m) # {} PROVE m \in Answering'
      <4>1. PICK j \in Ids : row[j] # None /\ row[j].name = m
            BY <3>1 DEF Named, Live
      <4>2. j # i => Named(m)' # {}
            BY <2>2, <4>1 DEF Named, Live
      <4>3. j = i => m \in lost'
            BY <1>5, <4>1
      <4> QED BY <3>1, <4>2, <4>3 DEF Answering
    <3> QED BY <1>5, <3>1 DEF Answering
  <2> QED BY <1>0, <1>1, <1>3, <2>4, <2>5, <2>6, <2>7, MergeChains
<1>6. \A i : [q EXCEPT !.sources = @ \ {i}] = Without(i)
      BY <1>2 DEF RequestStates
<1> HIDE DEF Without
<1> QED BY <1>0, <1>4, <1>5, <1>6 DEF DeleteOld, Go

\* The target ends its chain from here on.
LEMMA MarkTargetChains ==
  ASSUME IInv, Chains, NEW r \in Requests, MarkTarget(r)
  PROVE  Chains'
<1>0. PICK q : q = request[r]
      OBVIOUS
<1> DEFINE n == q.into
           used == meta[n] # None /\ meta[n].used
           new == [deprecated |-> FALSE, replacement |-> None, used |-> used]
<1>1. Merging(r) /\ q.pc = "markTarget" /\ UNCHANGED row /\ UNCHANGED history
      BY <1>0 DEF MarkTarget, At, Merging
<1>2. /\ q \in RequestStates /\ meta \in MetaTables /\ n \in Names /\ q.target \in Ids
      BY <1>0, <1>1, MergeState
<1>3. merged \subseteq Names /\ UNCHANGED <<lost, merged, mergeRaced>>
      BY <1>1 DEF IInv, TypeOK, history
<1>4. meta' = [meta EXCEPT ![n] = new]
      BY <1>0, <1>2 DEF MarkTarget, MetaTables
<1>5. Aliases' = Moved(Aliases, n, n)
  <2>1. new.replacement = None
        OBVIOUS
  <2> HIDE DEF new
  <2> QED BY <1>2, <1>4, <2>1 DEF Aliases, Moved, MetaTables
<1>6. Answering' = Answering
      BY <1>1, <1>3 DEF Answering, Named, Live
<1>7. InHand(q) => Holds(q.target, n)
      BY <1>1 DEF InHand, TargetHeld
<1>8. InHand(q) => n \in Answering'
      BY <1>2, <1>6, <1>7, HeldIsNamed DEF Answering
<1>9. Ends /\ InHand(q) => Ends'
      BY <1>2, <1>3, <1>5, <1>6, <1>8, EndsMove
<1>10. PICK local : local = [q EXCEPT !.pc = "mark", !.names = q.names \ {n}]
       OBVIOUS
<1>11. request' = [request EXCEPT ![r] = local]
       BY <1>0, <1>2, <1>10 DEF MarkTarget, Go, RequestStates
<1>12. local.pc = "mark" /\ local.target = q.target /\ local.into = n /\ local.names = q.names \ {n}
       BY <1>2, <1>10 DEF RequestStates
<1>13. Aliases'[n] = n
       BY <1>2, <1>5, AliasesTyped DEF Moved, AliasTables
<1>14. InHand(q) => InHand(local)'
       BY <1>1, <1>2, <1>7, <1>12, <1>13 DEF InHand, TargetHeld, Holds
<1>15. Running(r)
       BY <1>1 DEF Merging, Running, At
<1> QED BY <1>0, <1>1, <1>3, <1>9, <1>11, <1>14, <1>15, ChainsGo

LEMMA MarkChains ==
  ASSUME IInv, Chains, NEW r \in Requests, Mark(r)
  PROVE  Chains'
<1>0. PICK q : q = request[r]
      OBVIOUS
<1> DEFINE t == q.into
<1>1. Merging(r) /\ q.pc = "mark" /\ UNCHANGED <<row, created, mergeRaced>>
      BY <1>0 DEF Mark, At, Merging
<1>2. /\ q \in RequestStates /\ meta \in MetaTables /\ t \in Names /\ q.target \in Ids
      /\ q.names \subseteq Names /\ merged \subseteq Names
      BY <1>0, <1>1, MergeState DEF IInv, TypeOK
<1>3. PICK n \in q.names :
        LET used == meta[n] # None /\ meta[n].used
        IN  /\ meta' = [meta EXCEPT ![n] = [deprecated |-> TRUE, replacement |-> t, used |-> used]]
            /\ merged' = merged \cup {n} /\ lost' = lost \ {n}
            /\ Go(r, IF used \/ q.names = {n} THEN Idle ELSE [q EXCEPT !.names = @ \ {n}])
      BY <1>0 DEF Mark
<1> DEFINE used == meta[n] # None /\ meta[n].used
           new == [deprecated |-> TRUE, replacement |-> t, used |-> used]
<1>4. meta' = [meta EXCEPT ![n] = new] /\ n \in Names
      BY <1>2, <1>3
<1>5. new.replacement = t /\ t # None /\ new # None
  <2>1. used \in BOOLEAN
        OBVIOUS
  <2> HIDE DEF used
  <2>2. new \in Metas
        BY <1>2, <2>1 DEF Metas, Maybe
  <2> QED BY <1>2, <2>2, ConstantsAssumption
<1> HIDE DEF new
<1>6. Aliases' = Moved(Aliases, n, t)
      BY <1>2, <1>4, <1>5 DEF Aliases, Moved, MetaTables
<1>7. ASSUME InHand(q)
      PROVE  /\ Aliases[t] = t /\ n # t /\ Aliases'[t] = t /\ Holds(q.target, t)'
             /\ t \in Answering' /\ Answering \ {n} \subseteq Answering'
  <2>1. Aliases[t] = t /\ n # t /\ Holds(q.target, t)
        BY <1>1, <1>3, <1>7 DEF InHand, TargetHeld
  <2>2. Aliases'[t] = t
        BY <1>2, <1>4, <1>6, <2>1, AliasesTyped DEF Moved, AliasTables
  <2>3. Holds(q.target, t)' /\ \A m : Named(m)' = Named(m)
        BY <1>1, <2>1 DEF Holds, Named, Live
  <2>4. Named(t) # {}
        BY <1>2, <2>1, HeldIsNamed
  <2>5. lost' = lost \ {n}
        BY <1>3
  <2> QED BY <1>2, <2>1, <2>2, <2>3, <2>4, <2>5 DEF Answering
<1>8. Ends /\ InHand(q) => Ends'
  <2>1. merged' \subseteq merged \cup {n}
        BY <1>3
  <2> QED BY <1>2, <1>4, <1>6, <1>7, <2>1, EndsMove
<1>9. \/ request' = [request EXCEPT ![r] = Idle]
      \/ request' = [request EXCEPT ![r] = [q EXCEPT !.names = q.names \ {n}]]
      BY <1>2, <1>3 DEF Go, RequestStates
<1>10. Running(r)
       BY <1>1 DEF Merging, Running, At
<1>11. CASE request' = [request EXCEPT ![r] = Idle]
  <2>1. InHand(Idle)'
        BY IdleType DEF InHand
  <2> QED BY <1>0, <1>1, <1>8, <1>10, <1>11, <2>1, ChainsGo
<1>12. CASE request' = [request EXCEPT ![r] = [q EXCEPT !.names = q.names \ {n}]]
  <2>1. PICK local : local = [q EXCEPT !.names = q.names \ {n}]
        OBVIOUS
  <2>2. local.pc = "mark" /\ local.target = q.target /\ local.into = t /\ local.names = q.names \ {n}
        BY <1>1, <1>2, <2>1 DEF RequestStates
  <2>3. InHand(q) => t \notin q.names
        BY <1>1 DEF InHand
  <2>4. InHand(q) => InHand(local)'
        BY <1>2, <1>7, <2>2, <2>3 DEF InHand, TargetHeld
  <2>5. request' = [request EXCEPT ![r] = local]
        BY <1>12, <2>1
  <2> QED BY <1>0, <1>1, <1>8, <1>10, <2>4, <2>5, ChainsGo
<1> QED BY <1>9, <1>11, <1>12
-----------------------------------------------------------------------------
(* The rest, and the chains *)

\* A request begins: nothing runs beside a merge, or mergeRaced says so.
LEMMA BeginChains ==
  ASSUME IInv, Chains, NEW r \in Requests, NEW local \in RequestStates, Begin(r, local), UNCHANGED store,
         local.pc \in {"lookup", "touch", "change", "target"},
         \A q : q.pc = local.pc /\ q.target = local.target /\ q.into = local.into => InHand(q)'
  PROVE  Chains'
<1> DEFINE free == {q \in Requests : Running(q)} = {}
           raced == local.pc = "target" /\ {q \in Requests : Merging(q)} # {}
           begun == [local EXCEPT !.alone = free, !.raced = raced]
<1> SUFFICES ASSUME ~mergeRaced' PROVE Single' /\ Ends' /\ \A q \in Requests : InHand(request[q])'
    BY DEF Chains
<1>1. /\ ~mergeRaced /\ (\A q \in Requests : ~Merging(q))
      /\ local.pc = "target" => \A q \in Requests : ~Running(q)
      BY DEF Begin
<1>2. Single /\ Ends /\ \A q \in Requests : InHand(request[q])
      BY <1>1 DEF Chains
<1>3. request'[r] = begun
      BY DEF Begin
<1>4. begun.pc = local.pc /\ begun.target = local.target /\ begun.into = local.into
  <2>1. free \in BOOLEAN /\ raced \in BOOLEAN
        OBVIOUS
  <2> HIDE DEF free, raced
  <2> QED BY <2>1 DEF RequestStates
<1> HIDE DEF begun
<1>5. ASSUME NEW q \in Requests, q # r
      PROVE  /\ request'[q].pc = request[q].pc /\ request'[q].name = request[q].name
             /\ request'[q].target = request[q].target /\ request'[q].into = request[q].into
             /\ request'[q].names = request[q].names
  <2>1. request[q] \in RequestStates
        BY TypeParts DEF IInv
  <2>2. PICK beside : request'[q] = [request[q] EXCEPT !.alone = FALSE, !.raced = beside]
        BY <1>5 DEF Begin
  <2> QED BY <2>1, <2>2 DEF RequestStates
<1>6. Single'
  <2>1. \A q \in Requests : q # r => ~Merges(request'[q])
        BY <1>1, <1>5 DEF Merging, Merges
  <2>2. Merges(request'[r]) => \A q \in Requests : q # r => request'[q].pc = "idle"
        BY <1>1, <1>3, <1>4, <1>5 DEF Merges, Running, At
  <2> QED BY <2>1, <2>2 DEF Single, Merging, Merges, Running, At
<1>7. Answering' = Answering /\ Aliases' = Aliases /\ merged' = merged
      BY DEF Answering, Named, Live, Aliases, store, Begin
<1>8. Ends'
      BY <1>2, <1>7, EndsStay
<1>9. ASSUME NEW q \in Requests PROVE InHand(request[q])'
  <2>1. PICK x : x = request'[q]
        OBVIOUS
  <2>2. CASE q = r
    <3>1. InHand(x)'
          BY <1>3, <1>4, <2>1, <2>2
    <3> QED BY <2>1, <3>1
  <2>3. CASE q # r
    <3>1. PICK old : old = request[q]
          OBVIOUS
    <3>2. InHand(old) /\ ~Merges(old) /\ x.pc = old.pc /\ x.name = old.name
          BY <1>1, <1>2, <1>5, <2>1, <2>3, <3>1 DEF Merging, Merges
    <3>3. InHand(x)'
          BY <1>7, <3>2 DEF InHand, Merges
    <3> QED BY <2>1, <3>3
  <2> QED BY <2>2, <2>3
<1> QED BY <1>6, <1>8, <1>9

LEMMA SyncBeginsChains ==
  ASSUME IInv, Chains, NEW r \in Requests, NEW n \in Names, NEW text \in Texts, NEW usage \in BOOLEAN,
         NEW gone \in SUBSET Names, Sync(r, n, text, usage, gone)
  PROVE  Chains'
<1>1. PICK pc : pc = IF Named(n) = {} THEN "lookup"
                     ELSE IF \E i \in Named(n) : row[i].text = text THEN "touch" ELSE "change"
      OBVIOUS
<1>2. PICK from : from = IF Named(n) = {} THEN None ELSE CHOOSE i \in Named(n) : TRUE
      OBVIOUS
<1> DEFINE base == [Idle EXCEPT !.name = n, !.text = text, !.usage = usage, !.gone = gone]
           local == [base EXCEPT !.pc = pc, !.from = from]
<1>3. Begin(r, local) /\ UNCHANGED store
      BY <1>1, <1>2 DEF Sync
<1>4. pc \in {"lookup", "touch", "change"} /\ from \in Maybe(Ids)
      BY <1>1, <1>2 DEF Named, Live, Maybe
<1>5. base \in RequestStates
      BY IdleType DEF RequestStates, Maybe
<1> HIDE DEF base
<1>6. local \in RequestStates /\ local.pc = pc
      BY <1>4, <1>5 DEF RequestStates
<1> HIDE DEF local
<1>7. \A q : q.pc = pc => InHand(q)'
      BY <1>4 DEF InHand
<1> QED BY <1>3, <1>4, <1>6, <1>7, BeginChains

LEMMA MergeBeginsChains ==
  ASSUME IInv, Chains, NEW r \in Requests, NEW names \in SUBSET Names, NEW into \in Names, NEW text \in Texts,
         Merge(r, names, into, text)
  PROVE  Chains'
<1> DEFINE sources == UNION {Named(n) : n \in names}
           target == IF Named(into) = {} THEN None ELSE CHOOSE i \in Named(into) : TRUE
           rewrite == \A i \in Named(into) : row[i].text # text
           read == [i \in Ids |-> IF i \in sources \cup Named(into) THEN row[i].cell ELSE NoCell]
           local == [Idle EXCEPT !.pc = "target", !.names = names, !.into = into, !.text = text,
                                 !.sources = sources, !.target = target, !.rewrite = rewrite, !.read = read]
<1>1. Begin(r, local) /\ UNCHANGED store
      BY DEF Merge
<1>2. target # None => target \in Ids /\ Holds(target, into)
      BY DEF Named, Live, Holds
<1>3. local \in RequestStates /\ local.pc = "target" /\ local.target = target /\ local.into = into
  <2>1. sources \in SUBSET Ids /\ target \in Maybe(Ids)
        BY DEF Named, Live, Maybe
  <2>2. rewrite \in BOOLEAN
        OBVIOUS
  <2>3. read \in [Ids -> Cells]
        BY RequestTyped, LiveRow, IdleType DEF Named, Live
  <2> HIDE DEF sources, target, rewrite, read
  <2> QED BY <2>1, <2>2, <2>3, IdleType DEF RequestStates, Maybe
<1>4. PICK x : x = local
      OBVIOUS
<1>5. x.target # None => x.target \in Ids /\ Holds(x.target, x.into)
      BY <1>2, <1>3, <1>4
<1> HIDE DEF local, target
<1>6. x.pc = "target"
      BY <1>3, <1>4
<1>7. row' = row
      BY <1>1 DEF store
<1>8. \A q : q.pc = x.pc /\ q.target = x.target /\ q.into = x.into => InHand(q)'
      BY <1>5, <1>6, <1>7 DEF InHand, TargetHeld, Holds
<1> QED BY <1>1, <1>3, <1>4, <1>6, <1>8, BeginChains

LEMMA SaveChains ==
  ASSUME IInv, Chains, NEW i \in Ids, Save(i)
  PROVE  Chains'
<1>1. request \in [Requests -> RequestStates] /\ Stored /\ saves \in 0..MaxSaves
      BY TypeParts DEF IInv
<1>2. row[i] # None /\ row[i] \in Rows /\ saves' \in 0..MaxSaves /\ UNCHANGED <<meta, merged, lost, mergeRaced>>
      BY <1>1, LiveRow, ConstantsAssumption DEF Save
<1>3. NamesStay
  <2> DEFINE cell == [owner |-> "human", by |-> saves']
             new == [row[i] EXCEPT !.cell = cell]
  <2>1. row' = [row EXCEPT ![i] = new]
        BY <1>1 DEF Save, Stored
  <2>2. cell \in Cells
        BY <1>2 DEF Cells
  <2> HIDE DEF cell
  <2>3. new \in Rows /\ new.name = row[i].name
        BY <1>2, <2>2 DEF Rows
  <2> HIDE DEF new
  <2> QED BY <1>1, <2>1, <2>3, RowChanged
<1>4. ASSUME NEW q \in Requests
      PROVE  /\ request'[q].pc = request[q].pc /\ request'[q].name = request[q].name
             /\ request'[q].target = request[q].target /\ request'[q].into = request[q].into
             /\ request'[q].names = request[q].names
  <2>1. PICK raced : request'[q] = [request[q] EXCEPT !.raced = raced]
        BY DEF Save
  <2> QED BY <1>1, <2>1 DEF RequestStates
<1>5. Aliases' = Aliases
      BY <1>2 DEF Aliases
<1>6. /\ Answering \subseteq Answering'
      /\ \A j \in Ids : \A n \in Names : Holds(j, n) => Holds(j, n)'
      BY <1>2, <1>3, AnsweringStays
<1>7. ASSUME NEW q \in Requests, InHand(request[q])
      PROVE  InHand(request[q])'
  <2>1. PICK old : old = request[q]
        OBVIOUS
  <2>2. PICK new : new = request'[q]
        OBVIOUS
  <2>3. /\ InHand(old) /\ new.pc = old.pc /\ new.name = old.name /\ new.target = old.target
        /\ new.into = old.into /\ new.names = old.names
        BY <1>4, <1>7, <2>1, <2>2
  <2>4. Merges(old) => old.into \in Names
        BY <2>1, MergeState DEF Merges, Merging
  <2>5. Merges(old) /\ TargetHeld(old) => TargetHeld(new)'
        BY <1>6, <2>3, <2>4 DEF TargetHeld
  <2>6. InHand(new)'
        BY <1>5, <1>6, <2>3, <2>5 DEF InHand, Merges
  <2> QED BY <2>2, <2>6
<1>8. Single => Single'
      BY <1>4 DEF Single, Merging, Running, At
<1>9. Ends => Ends'
      BY <1>2, <1>5, <1>6, EndsStay
<1> QED BY <1>2, <1>7, <1>8, <1>9 DEF Chains

LEMMA InitChains == Init => Chains
<1> SUFFICES ASSUME Init PROVE Chains
    OBVIOUS
<1>1. \A r \in Requests : request[r] = Idle
      BY DEF Init
<1>2. merged = {} /\ meta \in MetaTables
      BY InitHolds, TypeParts DEF Init, IInv, Stored
<1>3. \A n \in Names : Aliases[n] = n
  <2> SUFFICES ASSUME NEW n \in Names, meta[n] # None PROVE meta[n].replacement = None
      BY DEF Aliases
  <2>1. PICK names \in SUBSET Names, used \in BOOLEAN :
          meta = [m \in Names |->
                    IF m \in names THEN [deprecated |-> FALSE, replacement |-> None, used |-> used] ELSE None]
        BY DEF Init
  <2> QED BY <2>1
<1>4. Ending(Aliases)
  <2>1. PICK a : a = Aliases
        OBVIOUS
  <2>2. \A n \in Names : n \in Reach(a, n) /\ a[n] = n
        BY <1>2, <1>3, <2>1, AliasesTyped, ReachIsClosed
  <2> QED BY <2>1, <2>2 DEF Ending
<1> QED BY <1>1, <1>2, <1>4, IdleType DEF Chains, Single, Ends, InHand, Merging, Merges

LEMMA StutterChains ==
  ASSUME Chains, UNCHANGED vars
  PROVE  Chains'
<1>1. UNCHANGED <<row, meta, request, merged, lost, mergeRaced>>
      BY DEF vars, store, history
<1>2. Aliases' = Aliases /\ Answering' = Answering
      BY <1>1 DEF Aliases, Answering, Named, Live
<1>3. ASSUME NEW q \in Requests, InHand(request[q]) PROVE InHand(request[q])'
  <2>1. PICK x : x = request[q]
        OBVIOUS
  <2>2. InHand(x)'
        BY <1>1, <1>2, <1>3, <2>1 DEF InHand, TargetHeld, Holds
  <2> QED BY <1>1, <2>1, <2>2
<1>4. Ends => Ends'
      BY <1>1, <1>2, EndsStay
<1>5. Single => Single'
      BY <1>1 DEF Single, Merging, Running, At
<1> QED BY <1>1, <1>3, <1>4, <1>5 DEF Chains

LEMMA NextChains == IInv /\ Chains /\ [Next]_vars => Chains'
<1> SUFFICES ASSUME IInv, Chains, [Next]_vars PROVE Chains'
    OBVIOUS
<1>1. ASSUME NEW r \in Requests, Step(r) PROVE Chains'
  <2>1. CASE Lookup(r) BY <2>1, LookupChains
  <2>2. CASE Detect(r) \/ DetectNew(r) BY <2>2, DetectChains
  <2>3. CASE Rename(r) BY <2>3, RenameChains
  <2>4. CASE RenameMeta(r) BY <2>4, RenameMetaChains
  <2>5. CASE Change(r) BY <2>5, ChangeChains
  <2>6. CASE Create(r) BY <2>6, CreateChains
  <2>7. CASE FillNew(r) \/ Touch(r) BY <2>7, FillChains
  <2>8. CASE Deprecate(r) BY <2>8, DeprecateChains
  <2>9. CASE Target(r) BY <2>9, TargetChains
  <2>10. CASE Consolidate(r) \/ Fill(r) BY <2>10, ConsolidateChains
  <2>11. CASE DeleteOld(r) BY <2>11, DeleteOldChains
  <2>12. CASE MarkTarget(r) BY <2>12, MarkTargetChains
  <2>13. CASE Mark(r) BY <2>13, MarkChains
  <2>14. CASE Synced(r) \/ Throw(r) \/ Crash(r)
    <3>1. Running(r) /\ Go(r, Idle) /\ UNCHANGED <<row, meta>> /\ UNCHANGED history
          BY <2>14 DEF Synced, Throw, Crash, Running, At, store
    <3>2. NamesStay /\ Aliases' = Aliases
          BY <3>1, RowsUnchanged DEF Aliases
    <3> QED BY <3>1, <3>2, EndChains
  <2> QED BY <1>1, <2>1, <2>2, <2>3, <2>4, <2>5, <2>6, <2>7, <2>8, <2>9, <2>10, <2>11, <2>12,
             <2>13, <2>14 DEF Step
<1>2. CASE \E r \in Requests, n \in Names, text \in Texts, usage \in BOOLEAN, gone \in SUBSET Names :
             Sync(r, n, text, usage, gone)
      BY <1>2, SyncBeginsChains
<1>3. CASE \E r \in Requests, n \in Names, text \in Texts, names \in SUBSET Names :
             Merge(r, names, n, text)
      BY <1>3, MergeBeginsChains
<1>4. CASE \E i \in Ids : Save(i)
      BY <1>4, SaveChains
<1>5. CASE UNCHANGED vars
      BY <1>5, StutterChains
<1> QED BY <1>1, <1>2, <1>3, <1>4, <1>5 DEF Next

\* translation-service.ts:692: a name that a merge has marked leads to a key,
\* or to one that is gone, through any sequence of merges, back and forth, and
\* syncs, renames and crashes, unless a request ran beside a merge; and it does
\* so while a merge is on its way.
THEOREM MergedNamesStayResolved == Spec => []MergedNamesResolve
<1>1. IInv /\ Chains => MergedNamesResolve
  <2> SUFFICES ASSUME IInv, Chains, ~mergeRaced, NEW n \in merged
               PROVE  Named(n) # {} \/ LeadsToKey(n) \/ Resolved(n) \in lost \/ n \in lost
      BY DEF MergedNamesResolve
  <2>1. Ends /\ n \in Names /\ meta \in MetaTables
        BY TypeParts DEF Chains, IInv, TypeOK, Stored
  <2> QED BY <2>1, AnsweredResolves DEF Ends
<1> QED BY <1>1, InitChains, NextChains, Invariant, PTL DEF Spec
=============================================================================
