-------------------------- MODULE KeyConsolidation --------------------------
(* Keys that are merged in the dashboard and renamed in source code, and    *)
(* the aliases that lead from their old names to the new ones:              *)
(* domain/translations/translation-service.ts (syncFromSource, mergeKeys),  *)
(* key-merge.ts, key-rename-detector.ts and the key catalog.                *)
(*                                                                          *)
(* One cell of each key stands for its cells in all environments and        *)
(* locales, which are consolidated one like the other; TranslationCells     *)
(* follows a single cell through fills and source changes in detail.  A     *)
(* sync carries one name that is found in the code, and any that are gone.  *)
(* No key is archived.  Row ids are not used twice.                         *)
EXTENDS Naturals, FiniteSets

CONSTANTS
  Names, Texts,
  normalizeText, \* text -> what it is but for white space
  MaxRows,       \* bound: how many keys are ever created
  MaxSaves,      \* bound: how often a person saves a text
  MaxRequests,   \* bound: how many syncs and merges there are
  MaxBeside,     \* bound: how many there are when the last begins beside another
  Requests, None,
  MayCrash       \* a restart may cut a request off

VARIABLES
  row,       \* id -> the TranslationKey and its cell, or None
  created,   \* how many rows there ever were; their ids are 1..created
  meta,      \* name -> its KeyMeta, or None
  request,   \* request -> its local state
  (* history, never read by the code's own steps *)
  made, saves,       \* how many requests and how many saved texts there were
  merged,            \* names a merge has marked
  lost,              \* names whose rows are gone and that no merge has marked since
  mergeRaced         \* a merge has run beside another request

store == <<row, created, meta>>
history == <<made, saves, merged, lost, mergeRaced>>
vars == <<store, request, history>>

-----------------------------------------------------------------------------
Ids == 1..MaxRows
Maybe(set) == set \cup {None}

\* owner: a person's text, one that is to be reviewed, a machine's, or no row.
\* by tells the texts that people saved apart.
Cells == [owner : {"human", "stale", "machine", "none"}, by : 0..MaxSaves]
Machine == [owner |-> "machine", by |-> 0]
NoCell == [owner |-> "none", by |-> 0]
Rows == [name : Names, text : Texts, cell : Cells]

\* used: places in the code are recorded for it.
Metas == [deprecated : BOOLEAN, replacement : Maybe(Names), used : BOOLEAN]

ASSUME ConstantsAssumption ==
  /\ MaxRows \in Nat /\ MaxSaves \in Nat /\ MaxRequests \in Nat /\ MaxBeside \in Nat
  /\ MayCrash \in BOOLEAN /\ IsFiniteSet(Names) /\ DOMAIN normalizeText = Texts
  /\ None \notin Names \cup Texts \cup Nat \cup Rows \cup Metas

Live == {i \in Ids : row[i] # None}
Named(n) == {i \in Live : row[i].name = n}
IsHuman(cell) == cell.owner \in {"human", "stale"}

(* A request's local state.  A sync: name with text, seen in a file when    *)
(* usage; from is its row, which was called old when it is to be renamed.   *)
(* A merge: names go into name; sources are their rows, read what they and  *)
(* the target held, target its row; raced: a person saved one of these     *)
(* since, or another merge ran beside.  rewrite: the row from or target had *)
(* another text.  alone: no other request has run since it began.           *)
RequestStates ==
  [pc : {"idle", "lookup", "detect", "touch", "change", "rename", "renameMeta", "create",
         "detectNew", "fillNew", "deprecate", "synced",
         "target", "consolidate", "fill", "delete", "markTarget", "mark"},
   name : Maybe(Names), text : Maybe(Texts), usage : BOOLEAN, gone : SUBSET Names,
   from : Maybe(Ids), old : Maybe(Names), rewrite : BOOLEAN, into : Maybe(Names), alone : BOOLEAN,
   names : SUBSET Names, sources : SUBSET Ids, read : [Ids -> Cells], target : Maybe(Ids),
   raced : BOOLEAN]

NothingRead == [i \in Ids |-> NoCell]
Idle ==
  [pc |-> "idle", name |-> None, text |-> None, usage |-> FALSE, gone |-> {}, from |-> None,
   old |-> None, rewrite |-> FALSE, into |-> None, alone |-> FALSE, names |-> {}, sources |-> {},
   read |-> NothingRead, target |-> None, raced |-> FALSE]

At(r, pc) == request[r].pc = pc
Running(r) == ~At(r, "idle")
Merging(r) == request[r].pc \in {"target", "consolidate", "fill", "delete", "markTarget", "mark"}

Begin(r, local) ==
  LET merge == local.pc = "target"
      others == {q \in Requests : Running(q)}
      merges == {q \in Requests : Merging(q)}
  IN  /\ At(r, "idle") /\ made < IF others = {} THEN MaxRequests ELSE MaxBeside
      /\ made' = made + 1
      /\ request' = [q \in Requests |->
           IF q = r THEN [local EXCEPT !.alone = others = {}, !.raced = merge /\ merges # {}]
           ELSE [request[q] EXCEPT !.alone = FALSE, !.raced = @ \/ (merge /\ q \in merges)]]
      /\ mergeRaced' = (mergeRaced \/ merges # {} \/ (merge /\ others # {}))
      /\ UNCHANGED <<saves, merged, lost>>

Go(r, local) == request' = [request EXCEPT ![r] = local]
GoTo(r, pc) == request' = [request EXCEPT ![r].pc = pc]

-----------------------------------------------------------------------------
(* Aliases *)

\* name -> the name it was merged into, or itself.
Aliases ==
  [n \in Names |-> IF meta[n] # None /\ meta[n].replacement # None THEN meta[n].replacement ELSE n]
HasAlias(n) == Aliases[n] # n

\* resolveTransitiveReplacements: the end of the chain of aliases from n.
Follow(aliases, n, visited) ==
  LET follow[seen \in SUBSET Names] ==
        [m \in Names |-> IF aliases[m] # m /\ m \notin seen
                         THEN follow[seen \cup {m}][aliases[m]] ELSE m]
  IN  follow[visited][n]

Resolved(n) ==
  LET target == Follow(Aliases, Aliases[n], {n})
  IN  IF HasAlias(n) /\ target # n THEN target ELSE None

LeadsToKey(n) == Resolved(n) # None /\ Named(Resolved(n)) # {}

\* The key that a name was merged into, if there still is one.
Alias(n) == IF LeadsToKey(n) THEN Resolved(n) ELSE None

\* recordDetection: an alias stays.  Without a file, a name that was detected
\* a moment ago is left as it is.
Detection(n, usage) ==
  IF meta[n] = None
  THEN {[meta EXCEPT ![n] = [deprecated |-> FALSE, replacement |-> None, used |-> usage]]}
  ELSE {[meta EXCEPT ![n].deprecated = FALSE, ![n].used = @ \/ usage]}
         \cup (IF usage THEN {} ELSE {meta})

-----------------------------------------------------------------------------
(* syncFromSource, and the deprecation of what is gone after it *)

Sync(r, n, text, usage, gone) ==
  LET local == [Idle EXCEPT !.name = n, !.text = text, !.usage = usage, !.gone = gone]
  IN  /\ n \notin gone
      /\ Begin(r, [local EXCEPT
           !.pc = IF Named(n) = {} THEN "lookup"
                  ELSE IF \E i \in Named(n) : row[i].text = text THEN "touch" ELSE "change",
           !.from = IF Named(n) = {} THEN None ELSE CHOOSE i \in Named(n) : TRUE])
      /\ UNCHANGED store

\* A key that may have been renamed to n: it has disappeared or was seen in
\* the same file; with a text that is really another one it must be gone.
SameText(i, text) == normalizeText[row[i].text] = normalizeText[text]
Disappeared(r, i) ==
  row[i].name \in request[r].gone \/ (meta[row[i].name] # None /\ meta[row[i].name].deprecated)
Candidates(r) ==
  {i \in Live : /\ row[i].name # request[r].name /\ ~HasAlias(row[i].name)
                /\ IF SameText(i, request[r].text)
                   THEN \/ Disappeared(r, i)
                        \/ request[r].usage /\ meta[row[i].name] # None /\ meta[row[i].name].used
                   ELSE row[i].name \in request[r].gone}
Certain(r) == {i \in Candidates(r) : Disappeared(r, i) /\ SameText(i, request[r].text)}

\* The name is unknown: it is an alias, a renamed key, or a new one.
Lookup(r) ==
  LET alias == Alias(request[r].name)
  IN  /\ At(r, "lookup")
      /\ \/ alias \in Names
            /\ Go(r, [request[r] EXCEPT !.pc = "detect", !.into = alias])
         \/ alias = None /\ Certain(r) = {}
            /\ GoTo(r, "create")
         \/ \E i \in Candidates(r) :
              /\ alias = None
              /\ Go(r, [request[r] EXCEPT !.pc = "rename", !.from = i, !.old = row[i].name,
                                          !.rewrite = row[i].text # request[r].text])
      /\ UNCHANGED <<store, history>>

Detect(r) ==
  /\ At(r, "detect")
  /\ meta' \in Detection(request[r].into, request[r].usage)
  /\ GoTo(r, "deprecate")
  /\ UNCHANGED <<row, created, history>>

\* Mutated form: nothing keeps two keys from having one name.
RenameAnyway(r) ==
  LET i == request[r].from
  IN  /\ At(r, "rename") /\ row[i] # None
      /\ row' = [row EXCEPT ![i].name = request[r].name]
      /\ lost' = lost \cup {row[i].name}
      /\ GoTo(r, "renameMeta")
      /\ UNCHANGED <<created, meta, made, saves, merged, mergeRaced>>

\* renameKey, of whatever the row is called by now.
Rename(r) ==
  LET i == request[r].from
      n == request[r].name
  IN  /\ At(r, "rename") /\ row[i] # None /\ Named(n) \subseteq {i}
      /\ row' = [row EXCEPT ![i].name = n]
      /\ lost' = (lost \cup {row[i].name}) \ {n}
      /\ GoTo(r, "renameMeta")
      /\ UNCHANGED <<created, meta, made, saves, merged, mergeRaced>>

\* renameDetectedKey.  When the old name was detected before, what was recorded
\* of the new one is deleted and then it throws: it writes lastSeenAt, a column
\* that KeyMeta does not have.
RenameMeta(r) ==
  LET n == request[r].name
  IN  /\ At(r, "renameMeta")
      /\ IF meta[request[r].old] = None
         THEN /\ meta' \in Detection(n, request[r].usage)
              /\ GoTo(r, IF request[r].rewrite THEN "change" ELSE "fillNew")
         ELSE /\ meta' = [meta EXCEPT ![n] = None]
              /\ Go(r, Idle)
      /\ UNCHANGED <<row, created, history>>

\* handleSourceChange; of a key that is not new the detection comes first.
Change(r) ==
  LET i == request[r].from
      t == request[r].text
  IN  /\ At(r, "change") /\ row[i] # None
      /\ row' = [row EXCEPT ![i].text = t,
                            ![i].cell.owner = IF IsHuman(row[i].cell) THEN "stale" ELSE @]
      /\ IF request[r].old = None
         THEN meta' \in Detection(request[r].name, request[r].usage) ELSE UNCHANGED meta
      /\ GoTo(r, "deprecate")
      /\ UNCHANGED <<created, history>>

\* createKey: who loses the race for a name goes on if the text is the same.
NewRow(n, text) == [name |-> n, text |-> text, cell |-> NoCell]

Create(r) ==
  LET n == request[r].name
  IN  /\ At(r, "create")
      /\ \/ /\ Named(n) = {} /\ created < MaxRows
            /\ created' = created + 1
            /\ row' = [row EXCEPT ![created'] = NewRow(n, request[r].text)]
            /\ Go(r, [request[r] EXCEPT !.pc = "detectNew", !.from = created'])
         \/ \E i \in Named(n) :
              /\ row[i].text = request[r].text
              /\ Go(r, [request[r] EXCEPT !.pc = "detectNew", !.from = i])
              /\ UNCHANGED <<row, created>>
      /\ UNCHANGED <<meta, history>>

DetectNew(r) ==
  /\ At(r, "detectNew")
  /\ meta' \in Detection(request[r].name, request[r].usage)
  /\ GoTo(r, "fillNew")
  /\ UNCHANGED <<row, created, history>>

Filled(i) == [row EXCEPT ![i].cell = IF @ = NoCell THEN Machine ELSE @]

FillNew(r) ==
  /\ At(r, "fillNew") /\ row[request[r].from] # None
  /\ row' = Filled(request[r].from)
  /\ GoTo(r, "deprecate")
  /\ UNCHANGED <<created, meta, history>>

\* An unchanged key: touchDetections leaves a deprecated one deprecated.
Touch(r) ==
  /\ At(r, "touch") /\ row[request[r].from] # None
  /\ IF request[r].usage THEN meta' \in Detection(request[r].name, TRUE) ELSE UNCHANGED meta
  /\ row' = Filled(request[r].from)
  /\ GoTo(r, "deprecate")
  /\ UNCHANGED <<created, history>>

\* Mutated form: a key that was never detected is not deprecated.
GoneKnown(r) == {n \in request[r].gone \ {request[r].old} : Named(n) # {} /\ meta[n] # None}

\* deprecateMissingTranslations, of the names that were not renamed.
Gone(r) == {n \in request[r].gone \ {request[r].old} : Named(n) # {}}

Deprecate(r) ==
  /\ At(r, "deprecate")
  /\ meta' = [n \in Names |->
                IF n \notin Gone(r) THEN meta[n]
                ELSE IF meta[n] = None
                THEN [deprecated |-> TRUE, replacement |-> None, used |-> FALSE]
                ELSE [meta[n] EXCEPT !.deprecated = TRUE, !.used = @ /\ meta[n].deprecated]]
  /\ IF request[r].alone THEN GoTo(r, "synced") ELSE Go(r, Idle)
  /\ UNCHANGED <<row, created, history>>

\* A sync that no other request ran beside is looked at before it is over.
Synced(r) ==
  /\ At(r, "synced")
  /\ Go(r, Idle)
  /\ UNCHANGED <<store, history>>

-----------------------------------------------------------------------------
(* mergeKeys *)

\* All keys and cells are read.  text is the one that was asked for, or that
\* of the target or of a source.
Merge(r, names, into, text) ==
  LET sources == UNION {Named(n) : n \in names}
  IN  /\ names \ {into} # {} /\ sources # {}
      /\ Begin(r, [Idle EXCEPT
           !.pc = "target", !.names = names, !.into = into, !.text = text, !.sources = sources,
           !.target = IF Named(into) = {} THEN None ELSE CHOOSE i \in Named(into) : TRUE,
           !.rewrite = \A i \in Named(into) : row[i].text # text,
           !.read = [i \in Ids |-> IF i \in sources \cup Named(into) THEN row[i].cell ELSE NoCell]])
      /\ UNCHANGED store

\* The target is given its text, or created.
Target(r) ==
  LET i == request[r].target
      n == request[r].into
  IN  /\ At(r, "target")
      /\ \/ /\ i # None /\ row[i] # None
            /\ row' = [row EXCEPT ![i].text = IF request[r].rewrite THEN request[r].text ELSE @]
            /\ GoTo(r, "consolidate")
            /\ UNCHANGED created
         \/ /\ i = None /\ Named(n) = {} /\ created < MaxRows
            /\ created' = created + 1
            /\ row' = [row EXCEPT ![created'] = NewRow(n, request[r].text)]
            /\ Go(r, [request[r] EXCEPT !.pc = "consolidate", !.target = created'])
         \/ \E j \in Named(n) :
              /\ i = None /\ row[j].text = request[r].text
              /\ Go(r, [request[r] EXCEPT !.pc = "consolidate", !.target = j])
              /\ UNCHANGED <<row, created>>
      /\ UNCHANGED <<meta, history>>

\* Mutated form: of two texts the target's own is as good as any.
RankFlat(cell) == IF cell = NoCell THEN 0 ELSE 1

\* pickMergedTranslation: by owner, and the target's own among equals.
Rank(cell) ==
  CASE cell.owner = "human" -> 3 [] cell.owner = "stale" -> 2 [] cell.owner = "machine" -> 1
    [] OTHER -> 0

Winners(r) ==
  LET read == request[r].read
      best == {i \in Ids : \A j \in Ids : Rank(read[i]) >= Rank(read[j])}
  IN  {read[i] : i \in IF request[r].target \in best THEN {request[r].target} ELSE best}

\* A machine's text does not replace a person's that came meanwhile; a
\* person's does.
Written(winner, cell) == IF IsHuman(cell) /\ ~IsHuman(winner) THEN cell ELSE winner

Consolidate(r) ==
  LET i == request[r].target
  IN  /\ At(r, "consolidate") /\ row[i] # None
      /\ \E winner \in Winners(r) :
           row' = [row EXCEPT ![i].cell = IF winner = NoCell THEN @ ELSE Written(winner, @)]
      /\ GoTo(r, "fill")
      /\ UNCHANGED <<created, meta, history>>

Fill(r) ==
  /\ At(r, "fill") /\ row[request[r].target] # None
  /\ row' = Filled(request[r].target)
  /\ Go(r, [request[r] EXCEPT !.pc = "delete", !.sources = @ \ {request[r].target}])
  /\ UNCHANGED <<created, meta, history>>

\* The rows that were read, one by one; each must still be there.
DeleteOld(r) ==
  /\ At(r, "delete")
  /\ \/ /\ request[r].sources = {}
        /\ GoTo(r, "markTarget")
        /\ UNCHANGED <<row, lost>>
     \/ \E i \in request[r].sources \cap Live :
          /\ row' = [row EXCEPT ![i] = None]
          /\ lost' = lost \cup {row[i].name}
          /\ Go(r, [request[r] EXCEPT !.sources = @ \ {i}])
  /\ UNCHANGED <<created, meta, made, saves, merged, mergeRaced>>

\* Mutated form: the target keeps the alias it had.
MarkTargetAliased(r) ==
  LET n == request[r].into
  IN  /\ At(r, "markTarget")
      /\ meta' = [meta EXCEPT ![n] = IF @ = None
                                     THEN [deprecated |-> FALSE, replacement |-> None, used |-> FALSE]
                                     ELSE [@ EXCEPT !.deprecated = FALSE]]
      /\ Go(r, [request[r] EXCEPT !.pc = "mark", !.names = @ \ {n}])
      /\ UNCHANGED <<row, created, history>>

\* markMergedKeys: the target is active and no alias any more ...
MarkTarget(r) ==
  LET n == request[r].into
  IN  /\ At(r, "markTarget")
      /\ meta' = [meta EXCEPT ![n] = [deprecated |-> FALSE, replacement |-> None,
                                      used |-> @ # None /\ @.used]]
      /\ Go(r, [request[r] EXCEPT !.pc = "mark", !.names = @ \ {n}])
      /\ UNCHANGED <<row, created, history>>

\* ... and the others become aliases, one by one.  At one with recorded usages
\* it throws after that: it writes columns of SourceUsage that do not exist.
Mark(r) ==
  /\ At(r, "mark")
  /\ \E n \in request[r].names :
       LET used == meta[n] # None /\ meta[n].used
       IN  /\ meta' = [meta EXCEPT ![n] = [deprecated |-> TRUE, replacement |-> request[r].into,
                                           used |-> used]]
           /\ merged' = merged \cup {n} /\ lost' = lost \ {n}
           /\ Go(r, IF used \/ request[r].names = {n} THEN Idle
                    ELSE [request[r] EXCEPT !.names = @ \ {n}])
  /\ UNCHANGED <<row, created, made, saves, mergeRaced>>

-----------------------------------------------------------------------------
(* A query meets a row that is gone, or a name that is taken, and throws. *)
Throw(r) ==
  LET q == request[r]
      Taken(n) == \E i \in Named(n) : row[i].text # q.text
  IN  /\ \/ q.pc \in {"change", "fillNew", "touch"} /\ row[q.from] = None
         \/ q.pc = "rename" /\ (row[q.from] = None \/ ~(Named(q.name) \subseteq {q.from}))
         \/ q.pc = "create" /\ Taken(q.name)
         \/ q.pc = "target" /\ IF q.target = None THEN Taken(q.into) ELSE row[q.target] = None
         \/ q.pc \in {"consolidate", "fill"} /\ row[q.target] = None
         \/ q.pc = "delete" /\ ~(q.sources \subseteq Live)
      /\ Go(r, Idle)
      /\ UNCHANGED <<store, history>>

\* A person saves a text.
Save(i) ==
  /\ row[i] # None /\ saves < MaxSaves
  /\ saves' = saves + 1
  /\ row' = [row EXCEPT ![i].cell = [owner |-> "human", by |-> saves']]
  /\ request' = [r \in Requests |->
                   [request[r] EXCEPT !.raced =
                      @ \/ (Merging(r) /\ i \in request[r].sources \cup {request[r].target})]]
  /\ UNCHANGED <<created, meta, made, merged, lost, mergeRaced>>

\* A restart cuts a request off.
Crash(r) ==
  /\ MayCrash /\ Running(r) /\ ~At(r, "synced")
  /\ Go(r, Idle)
  /\ UNCHANGED <<store, history>>

-----------------------------------------------------------------------------
\* Some keys were synced before, from files or without.
Init ==
  /\ \E names \in SUBSET Names, text \in [Names -> Texts], used \in BOOLEAN :
       \E name \in [1..Cardinality(names) -> names] :
         /\ Cardinality(names) <= MaxRows
         /\ \A i, j \in 1..Cardinality(names) : i # j => name[i] # name[j]
         /\ row = [i \in Ids |-> IF i <= Cardinality(names)
                                 THEN [name |-> name[i], text |-> text[name[i]], cell |-> Machine]
                                 ELSE None]
         /\ created = Cardinality(names)
         /\ meta = [n \in Names |->
                      IF n \in names THEN [deprecated |-> FALSE, replacement |-> None, used |-> used]
                      ELSE None]
  /\ request = [r \in Requests |-> Idle]
  /\ made = 0 /\ saves = 0 /\ merged = {} /\ lost = {}
  /\ mergeRaced = FALSE

Step(r) ==
  \/ Lookup(r) \/ Detect(r) \/ Rename(r) \/ RenameMeta(r) \/ Change(r) \/ Create(r)
  \/ DetectNew(r) \/ FillNew(r) \/ Touch(r) \/ Deprecate(r) \/ Synced(r)
  \/ Target(r) \/ Consolidate(r) \/ Fill(r) \/ DeleteOld(r) \/ MarkTarget(r) \/ Mark(r)
  \/ Throw(r) \/ Crash(r)

Next ==
  \/ \E r \in Requests :
       \/ Step(r)
       \/ \E n \in Names, text \in Texts :
            \/ \E usage \in BOOLEAN, gone \in SUBSET Names : Sync(r, n, text, usage, gone)
            \/ \E names \in SUBSET Names : Merge(r, names, n, text)
  \/ \E i \in Ids : Save(i)

Spec == Init /\ [][Next]_vars

-----------------------------------------------------------------------------
(* Properties *)

\* Every variable has its type; no two keys have one name.
TypeOK ==
  /\ row \in [Ids -> Maybe(Rows)] /\ created \in 0..MaxRows
  /\ \A i \in Ids : row[i] # None => i <= created
  /\ \A i, j \in Live : row[i].name = row[j].name => i = j
  /\ meta \in [Names -> Maybe(Metas)]
  /\ request \in [Requests -> RequestStates]
  /\ made \in Nat /\ saves \in 0..MaxSaves
  /\ merged \subseteq Names /\ lost \subseteq Names
  /\ mergeRaced \in BOOLEAN

\* translation-service.ts:692: a name that a merge has marked leads to a key -
\* one of its own again, the one it was merged into, or the one that was merged
\* into later on - through any sequence of merges, back and forth, and syncs.
\* Excepted are merges beside another request, and what leads to a key that
\* was renamed, or deleted by a merge that has not marked it, or was cut off.
MergedNamesResolve ==
  ~mergeRaced =>
    \A n \in merged :
      \/ Named(n) # {} \/ LeadsToKey(n)
      \/ Resolved(n) \in lost \/ n \in lost

\* keys/sync.ts:93: after a sync that no other request ran beside, the name it
\* found is a key with the text it found, or the alias of a key; the names that
\* are gone are deprecated, have been renamed, or are no keys.
SyncTakesEffect ==
  \A r \in Requests :
    At(r, "synced") /\ request[r].alone =>
      /\ \/ \E i \in Named(request[r].name) : row[i].text = request[r].text
         \/ LeadsToKey(request[r].name)
      /\ \A n \in request[r].gone : Named(n) # {} => meta[n] # None /\ meta[n].deprecated

Held(by) == \E i \in Live : IsHuman(row[i].cell) /\ row[i].cell.by = by

\* translation-service.ts:689: a text that a person saved is lost only to
\* another save, or to another person's text in a merge: not to a rename, a
\* change of the source, an AI text, a crash, or a request that throws.
\* Excepted are merges that read before the save, and merges at the same time.
HumanTextsKept ==
  [][\A by \in 1..saves :
       Held(by) /\ ~Held(by)' =>
         \/ saves' > saves
         \/ \E r \in Requests :
              /\ Merging(r)
              /\ \/ request[r].raced
                 \/ \E i \in Ids \cap {request[r].target} :
                      row'[i] # None /\ IsHuman(row'[i].cell)]_vars

\* translation-service.ts:692, "Marks the old keys as deprecated with
\* `replacementKey = targetKey`": a merge that nothing cuts off, and that has
\* deleted its rows, ends with all its names deprecated and its aliases.
OldKeysMarked ==
  [][\A r \in Requests :
       At(r, "mark") /\ request'[r].pc = "idle" =>
         \A n \in request[r].names :
           meta'[n] # None /\ meta'[n].deprecated /\ meta'[n].replacement = request[r].into]_vars
=============================================================================
