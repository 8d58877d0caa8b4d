------------------------- MODULE TranslationCells -------------------------
(* The working copy of a translation project: one row per key, environment  *)
(* and locale, written by requests that interleave at every await.          *)
(*                                                                          *)
(* domain/translations/translation-service.ts is the code of the requests,  *)
(* data/translations/prisma-translation-repository.ts the SQL statements    *)
(* they issue.  Each statement is one step, each await of the translator    *)
(* another; what a request read before a step is kept in its local state    *)
(* and may be stale when used.                                              *)
(*                                                                          *)
(* Left out: the audit trail a write reports to the open draft              *)
(* (VersionPipeline), key renames and merges.  A sync of several keys is a  *)
(* sequence of syncs of one.  A promotion, domain/versions/                 *)
(* version-service.ts, copies a sealed version into an environment; where   *)
(* the version comes from is outside the module.                            *)
EXTENDS Naturals

CONSTANTS
  Keys, Envs, Locales,
  SourceLocale,      \* the locale the code's own texts are written in
  Texts,             \* source texts the code may carry for a key
  Inputs,            \* texts a person may submit
  Bundles,           \* what sealed versions of other environments may hold
  Requests,          \* concurrent HTTP requests, each one operation at a time
  MaxRemovals,       \* bound: how often one locale may be removed
  MaxArrivals,       \* bound: how many requests arrive in all
  TranslatorFails,   \* whether the AI provider may fail
  Absent             \* no row, no key, nothing read

VARIABLES
  locales,    \* the project's locales
  removals,   \* locale -> how often it was removed: tells row ids apart
  keyText,    \* key -> its sourceText, or Absent before createKey
  cell,       \* <<key, env, locale>> -> its row, or Absent
  older,      \* cell -> the cells whose rows were there when its row was created
  req,        \* request -> its local state
  arrivals,   \* requests that have arrived, for the bound
  (* history, never read by the code's own steps *)
  basis,      \* cell -> the source text a person had when submitting its row
  overtaken,  \* cells written by a person whose source text had changed by then,
              \* and not again since
  latest,     \* key -> the request that last replaced its source text
  swept       \* key -> environments whose pass over that change is complete

vars == <<locales, removals, keyText, cell, older, req, arrivals,
          basis, overtaken, latest, swept>>
history == <<basis, overtaken, latest, swept>>

Cells == Keys \X Envs \X Locales
KeyOf(c) == c[1]
EnvOf(c) == c[2]
LocaleOf(c) == c[3]

-----------------------------------------------------------------------------
(* Rows *)

\* Source text as written, the AI's rendering of a source text, or what a
\* person submitted (typed, or a suggestion the client sent back).
Values == [kind : {"source", "ai"}, of : Texts] \cup [kind : {"input"}, of : Inputs]
SourceValue(t) == [kind |-> "source", of |-> t]
AiValue(t)     == [kind |-> "ai", of |-> t]
InputValue(i)  == [kind |-> "input", of |-> i]

Rows == [value : Values, source : {"ai", "manual", "code"}, aiLocked : BOOLEAN,
         status : {"ai", "manual", "source", "needs-review"}]

AsManual(v) == [value |-> v, source |-> "manual", aiLocked |-> TRUE, status |-> "manual"]
AsAi(v)     == [value |-> v, source |-> "ai", aiLocked |-> FALSE, status |-> "ai"]
\* Mutated form: the status is named after the source.
AsCodeMislabelled(v) == [value |-> v, source |-> "code", aiLocked |-> FALSE, status |-> "code"]
AsCode(v)   == [value |-> v, source |-> "code", aiLocked |-> FALSE, status |-> "source"]

IsHumanOwned(row) == row.aiLocked \/ row.source = "manual"

\* The patches updateTranslation guards in its WHERE clause.
IsAutomatic(patch) == patch.source \in {"ai", "code"}

ASSUME ConstantsAssumption ==
  /\ SourceLocale \in Locales
  /\ MaxRemovals \in Nat /\ MaxArrivals \in Nat
  /\ TranslatorFails \in BOOLEAN
  /\ Bundles \subseteq [Keys \X Locales -> Rows \cup {Absent}]
  /\ Absent \notin Rows \cup Texts \cup Requests \cup Cells
  /\ Absent \notin [owner : {"human", "machine"}, value : Values]

-----------------------------------------------------------------------------
(* A request's local state: the operation, where it is in it, the cell it   *)
(* works on, the cells its loop has left, those it listed as human-owned,   *)
(* the row ids it holds (removals of the locale when it read the row), the  *)
(* source text it read or was sent, fromLocale, the patch to write, the     *)
(* version that it promotes and, as history, the source texts when a person *)
(* sent it.                                                                 *)

Ops == {"none", "save", "accept", "review", "sync", "change",
        "fillTargets", "fillLocale", "retranslate", "promote"}
Pcs == {"idle", "plan", "find", "read", "createKey", "present", "setText", "list", "next",
        "aiUpdate", "aiCreate", "update", "create", "conflict", "flag", "confirm"}

RequestStates ==
  [op : Ops, pc : Pcs, cell : Cells \cup {Absent}, todo : SUBSET Cells,
   human : SUBSET Cells, rows : [Locales -> Nat], text : Texts \cup {Absent},
   from : Locales, patch : Rows \cup {Absent},
   bundle : [Keys \X Locales -> Rows \cup {Absent}],
   decided : [Keys -> Texts \cup {Absent}]]

NoRows == [l \in Locales |-> 0]
NoBundle == [kl \in Keys \X Locales |-> Absent]
NoTexts == [k \in Keys |-> Absent]

Idle == [op |-> "none", pc |-> "idle", cell |-> Absent, todo |-> {}, human |-> {},
         rows |-> NoRows, text |-> Absent, from |-> SourceLocale, patch |-> Absent,
         bundle |-> NoBundle, decided |-> NoTexts]

Single == {"save", "accept", "review"}          \* one cell, then the answer
Filling == {"fillTargets", "fillLocale"}        \* generateMissingTranslation
BestEffort == {"fillTargets", "retranslate"}    \* TranslatorError is counted

CellsOf(k, e) == {c \in Cells : KeyOf(c) = k /\ EnvOf(c) = e}

\* Mutated form: the update names the cell, not the row's id.
HoldsSomeRow(r) == cell[req[r].cell] # Absent

\* The row whose id the request holds is still in the table.
Holds(r) ==
  LET c == req[r].cell
  IN  cell[c] # Absent /\ req[r].rows[LocaleOf(c)] = removals[LocaleOf(c)]

At(r, pc) == req[r].pc = pc
Become(r, local) == req' = [req EXCEPT ![r] = local]
Goto(r, pc) == Become(r, [req[r] EXCEPT !.pc = pc])
Finish(r) == Become(r, Idle)

\* After the work on one cell: answer, or return to the head of the loop.
Continue(r) ==
  IF req[r].op \in Single THEN Finish(r) ELSE Goto(r, "next")

\* Go on with the row just read, remembering its id.
WithRow(r, pc) ==
  LET l == LocaleOf(req[r].cell)
  IN  Become(r, [req[r] EXCEPT !.pc = pc, !.rows[l] = removals[l]])

\* The row is stored.  When it is a person's, it is based on the source text
\* that was current when the request arrived: what the request reads later is
\* never compared with it again, so the text may have changed since.
Store(r, c, row) ==
  LET text == req[r].decided[KeyOf(c)]
  IN  /\ cell' = [cell EXCEPT ![c] = row]
      /\ basis' = [basis EXCEPT ![c] = IF IsHumanOwned(row) THEN text ELSE Absent]
      /\ overtaken' = IF IsHumanOwned(row) /\ text # keyText[KeyOf(c)]
                      THEN overtaken \cup {c} ELSE overtaken \ {c}
      /\ UNCHANGED <<latest, swept>>

Quiet == UNCHANGED <<locales, removals, keyText, cell, older, history>>

-----------------------------------------------------------------------------
(* Requests arrive *)

\* requireCell: the key exists and the project has the locale.
CellInProject(c) == keyText[KeyOf(c)] # Absent /\ LocaleOf(c) \in locales

\* TeamTranslationService.saveManual -> saveManualValue
StartSave(r, c, i) ==
  /\ At(r, "idle")
  /\ CellInProject(c)
  /\ Become(r, [Idle EXCEPT !.op = "save", !.pc = "find", !.cell = c, !.decided = keyText,
                            !.patch = AsManual(InputValue(i))])
  /\ Quiet

\* TeamTranslationService.acceptSuggestion -> acceptSuggestionValue
StartAccept(r, c, i) ==
  /\ At(r, "idle")
  /\ CellInProject(c)
  /\ Become(r, [Idle EXCEPT !.op = "accept", !.pc = "find", !.cell = c, !.decided = keyText,
                            !.patch = AsAi(InputValue(i))])
  /\ Quiet

\* TeamTranslationService.markReviewed: the client names a row id.
StartReview(r, c) ==
  /\ At(r, "idle")
  /\ cell[c] # Absent
  /\ Become(r, [Idle EXCEPT !.op = "review", !.pc = "read", !.cell = c, !.decided = keyText,
                            !.rows[LocaleOf(c)] = removals[LocaleOf(c)]])
  /\ Quiet

\* syncFromSource for one key: the project's target locales are read first.
StartSync(r, k, e, t) ==
  /\ At(r, "idle")
  /\ Become(r, [Idle EXCEPT !.op = "sync", !.pc = "find", !.text = t,
                            !.cell = <<k, e, SourceLocale>>,
                            !.todo = {c \in CellsOf(k, e) : LocaleOf(c) \in locales \ {SourceLocale}}])
  /\ Quiet

\* translateNewLocale and fillMissingForLocale: add the locale if it is new,
\* list the keys, fill them one by one; a TranslatorError ends the request.
StartFillLocale(r, e, l) ==
  /\ At(r, "idle")
  /\ locales' = locales \cup {l}
  /\ Become(r, [Idle EXCEPT !.op = "fillLocale", !.pc = "next",
                            !.todo = {c \in Cells : /\ EnvOf(c) = e /\ LocaleOf(c) = l
                                                    /\ keyText[KeyOf(c)] # Absent}])
  /\ UNCHANGED <<removals, keyText, cell, older, history>>

\* translateSelection in "fill-missing" mode, for one of its keys.
StartFillSelection(r, k, e, targets) ==
  /\ At(r, "idle")
  /\ keyText[k] # Absent /\ targets # {} /\ targets \subseteq locales
  /\ Become(r, [Idle EXCEPT !.op = "fillTargets", !.pc = "next",
                            !.todo = {c \in CellsOf(k, e) : LocaleOf(c) \in targets}])
  /\ Quiet

\* translateSelection in "retranslate" mode, for one of its keys: the key's
\* text is read once, before the loop over the locales.
StartRetranslate(r, k, e, targets, from) ==
  /\ At(r, "idle")
  /\ keyText[k] # Absent /\ targets # {} /\ targets \subseteq locales
  /\ Become(r, [Idle EXCEPT !.op = "retranslate", !.pc = "next", !.text = keyText[k],
                            !.from = from,
                            !.todo = {c \in CellsOf(k, e) : LocaleOf(c) \in targets}])
  /\ Quiet

\* applyPromotion: buildPromotion reads the project and the sealed version.
StartPromotion(r, e, bundle) ==
  /\ At(r, "idle")
  /\ Become(r, [Idle EXCEPT !.op = "promote", !.pc = "plan", !.bundle = bundle, !.decided = keyText,
                            !.todo = {c \in Cells : EnvOf(c) = e /\ LocaleOf(c) \in locales}])
  /\ Quiet

-----------------------------------------------------------------------------
(* Manual edits, suggestions, reviews *)

\* findTranslation of saveManualValue, acceptSuggestionValue, applyPromotion.
FindForPerson(r) ==
  /\ At(r, "find") /\ req[r].op \in {"save", "accept", "promote"}
  /\ IF cell[req[r].cell] = Absent THEN Goto(r, "create")
     ELSE WithRow(r, IF req[r].op = "accept" THEN "read" ELSE "update")
  /\ Quiet

\* acceptSuggestion reads the row again and decides who will own the text.
ReadForAccept(r) ==
  /\ At(r, "read") /\ req[r].op = "accept"
  /\ LET local == req[r]
         value == local.patch.value
         row == cell[local.cell]
     IN  IF Holds(r)
         THEN Become(r, [local EXCEPT
                !.pc = "update",
                !.patch = IF IsHumanOwned(row) THEN AsManual(value) ELSE AsAi(value)])
         ELSE Finish(r)
  /\ Quiet

\* markReviewed: only a human-owned row has anything to confirm.
ReadForReview(r) ==
  /\ At(r, "read") /\ req[r].op = "review"
  /\ IF Holds(r) /\ IsHumanOwned(cell[req[r].cell]) THEN Goto(r, "confirm") ELSE Finish(r)
  /\ Quiet

\* markReviewed: UPDATE status = 'manual' by id, throws if the row is gone.
Confirm(r) ==
  /\ At(r, "confirm")
  /\ IF Holds(r)
     THEN Store(r, req[r].cell, [cell[req[r].cell] EXCEPT !.status = "manual"])
     ELSE UNCHANGED <<cell, history>>
  /\ Finish(r)
  /\ UNCHANGED <<locales, removals, keyText, older>>

-----------------------------------------------------------------------------
(* Source sync *)

\* findKeysByNames decides what the sync is for this key.
ClassifySync(r) ==
  /\ At(r, "find") /\ req[r].op = "sync"
  /\ LET local == req[r]
         text == keyText[KeyOf(local.cell)]
     IN  \/ /\ text = Absent
            /\ Goto(r, "createKey")
         \/ /\ text = local.text
            /\ Goto(r, "present")
         \/ /\ text \notin {Absent, local.text}
            /\ Become(r, [local EXCEPT !.op = "change", !.pc = "setText", !.todo = {}])
  /\ Quiet

\* createKey: on a unique violation the existing key is returned when it has
\* the same text, otherwise the sync throws.  Then the source cell.
CreateKey(r) ==
  /\ At(r, "createKey")
  /\ LET local == req[r]
         k == KeyOf(local.cell)
     IN  IF keyText[k] \in {Absent, local.text}
         THEN /\ keyText' = [keyText EXCEPT ![k] = local.text]
              /\ Become(r, [local EXCEPT !.op = "fillTargets", !.pc = "create",
                                         !.patch = AsCode(SourceValue(local.text))])
         ELSE Finish(r) /\ UNCHANGED keyText
  /\ UNCHANGED <<locales, removals, cell, older, history>>

\* Unchanged text: listPresentLocales, then fill the targets that lack a row.
ListPresent(r) ==
  /\ At(r, "present")
  /\ Become(r, [req[r] EXCEPT !.op = "fillTargets", !.pc = "next",
                              !.todo = {c \in @ : cell[c] = Absent}])
  /\ Quiet

\* handleSourceChange: updateKeySourceText ...
SetSourceText(r) ==
  /\ At(r, "setText")
  /\ LET k == KeyOf(req[r].cell)
     IN  /\ keyText' = [keyText EXCEPT ![k] = req[r].text]
         /\ latest' = [latest EXCEPT ![k] = r]
         /\ swept' = [swept EXCEPT ![k] = {}]
         /\ overtaken' = {c \in overtaken : KeyOf(c) # k}
  /\ Goto(r, "list")
  /\ UNCHANGED <<locales, removals, cell, older, basis>>

\* ... then listTranslationsForKey in this one environment.  The rows, and
\* who owned them, are decided on from this list for the rest of the loop.
ListForChange(r) ==
  /\ At(r, "list")
  /\ LET local == req[r]
         listed == {c \in CellsOf(KeyOf(local.cell), EnvOf(local.cell)) : cell[c] # Absent}
     IN  Become(r, [local EXCEPT !.pc = "next", !.todo = listed,
                                 !.human = {c \in listed : IsHumanOwned(cell[c])},
                                 !.rows = removals])
  /\ Quiet

\* The listed row with the earliest createdAt comes first.
IsFirst(c, listed) == c \in listed /\ older[c] \cap listed = {}

\* Mutated form: a person's override of the source locale counts as code.
NextChangedSkippingSource(r) ==
  /\ At(r, "next") /\ req[r].op = "change"
  /\ \E c \in req[r].todo :
       /\ IsFirst(c, req[r].todo)
       /\ LET local == [req[r] EXCEPT !.cell = c, !.todo = @ \ {c}]
          IN  Become(r,
                IF LocaleOf(c) = SourceLocale
                THEN [local EXCEPT !.pc = "update", !.patch = AsCode(SourceValue(local.text))]
                ELSE [local EXCEPT !.pc = IF c \in local.human THEN "flag" ELSE "aiUpdate"])
  /\ Quiet

\* handleSourceChange's loop takes its next row.
NextChanged(r) ==
  /\ At(r, "next") /\ req[r].op = "change"
  /\ \E c \in req[r].todo :
    /\ IsFirst(c, req[r].todo)
    /\ LET local == [req[r] EXCEPT !.cell = c, !.todo = @ \ {c}]
       IN  Become(r,
             IF c \in local.human THEN [local EXCEPT !.pc = "flag"]
             ELSE IF LocaleOf(c) = SourceLocale
             THEN [local EXCEPT !.pc = "update", !.patch = AsCode(SourceValue(local.text))]
             ELSE [local EXCEPT !.pc = "aiUpdate"])
  /\ Quiet

\* handleSourceChange: UPDATE status = 'needs-review' by id.
Flag(r) ==
  /\ At(r, "flag")
  /\ IF Holds(r)
     THEN /\ cell' = [cell EXCEPT ![req[r].cell].status = "needs-review"]
          /\ Continue(r)
     ELSE Finish(r) /\ UNCHANGED cell
  /\ UNCHANGED <<locales, removals, keyText, older, history>>

\* The loop is through: the change is dealt with in this environment, unless
\* the text was replaced again meanwhile.
FinishChange(r) ==
  /\ At(r, "next") /\ req[r].op = "change" /\ req[r].todo = {}
  /\ LET k == KeyOf(req[r].cell)
         e == EnvOf(req[r].cell)
     IN  swept' = [swept EXCEPT ![k] = IF latest[k] = r THEN @ \cup {e} ELSE @]
  /\ Finish(r)
  /\ UNCHANGED <<locales, removals, keyText, cell, older, basis, overtaken, latest>>

-----------------------------------------------------------------------------
(* Filling and retranslating *)

\* The loop takes its next cell; generateMissingTranslation reads the key.
NextToFill(r) ==
  /\ At(r, "next") /\ req[r].op \in Filling
  /\ \E c \in req[r].todo :
       Become(r, [req[r] EXCEPT !.pc = "find", !.cell = c, !.todo = @ \ {c},
                                !.text = keyText[KeyOf(c)]])
  /\ Quiet

\* retranslateCell reuses the key its caller read.
NextToRetranslate(r) ==
  /\ At(r, "next") /\ req[r].op = "retranslate"
  /\ \E c \in req[r].todo :
       Become(r, [req[r] EXCEPT !.pc = "find", !.cell = c, !.todo = @ \ {c}])
  /\ Quiet

FinishLoop(r) ==
  /\ At(r, "next") /\ req[r].op \in Filling \cup {"retranslate", "promote"} /\ req[r].todo = {}
  /\ Finish(r)
  /\ Quiet

\* generateMissingTranslation: an existing row is skipped, the source locale
\* takes the text as it is, any other awaits the translator.
FindToFill(r) ==
  /\ At(r, "find") /\ req[r].op \in Filling
  /\ LET local == req[r]
     IN  IF cell[local.cell] # Absent THEN Goto(r, "next")
         ELSE IF LocaleOf(local.cell) = SourceLocale
         THEN Become(r, [local EXCEPT !.pc = "create",
                                      !.patch = AsCode(SourceValue(local.text))])
         ELSE Goto(r, "aiCreate")
  /\ Quiet

\* retranslateCell: a human-owned row is skipped; text already in the wanted
\* language is copied, any other awaits the translator.
FindToRetranslate(r) ==
  /\ At(r, "find") /\ req[r].op = "retranslate"
  /\ LET local == req[r]
         c == local.cell
         exists == cell[c] # Absent
         value == SourceValue(local.text)
         copied == IF LocaleOf(c) = SourceLocale THEN AsCode(value) ELSE AsAi(value)
         copying == [local EXCEPT !.pc = IF exists THEN "update" ELSE "create",
                                  !.patch = copied]
         asking == [local EXCEPT !.pc = IF exists THEN "aiUpdate" ELSE "aiCreate"]
         going == IF LocaleOf(c) = local.from THEN copying ELSE asking
     IN  IF exists /\ IsHumanOwned(cell[c]) THEN Goto(r, "next")
         ELSE Become(r, [going EXCEPT !.rows[LocaleOf(c)] = removals[LocaleOf(c)]])
  /\ Quiet

-----------------------------------------------------------------------------
(* Promotion *)

\* What the sealed version has for a cell, and what is written for it.
Incoming(bundle, c) == bundle[<<KeyOf(c), LocaleOf(c)>>]

Promoted(row) ==
  CASE row.source = "manual" -> AsManual(row.value)
    [] row.source = "code" -> AsCode(row.value)
    [] OTHER -> AsAi(row.value)

\* planPromotion: neither "unchanged" nor "skip-conflict".
ToApply(row, incoming) ==
  row # Absent =>
    /\ row.value # incoming.value
    /\ IsHumanOwned(row) => incoming.source = "manual"

\* The queries for the keys and for the rows run side by side.
PlanPromotion(r) ==
  /\ At(r, "plan")
  /\ Become(r, [req[r] EXCEPT !.pc = "next",
       !.todo = {c \in @ : LET incoming == Incoming(req[r].bundle, c)
                           IN  /\ keyText[KeyOf(c)] # Absent /\ incoming # Absent
                               /\ ToApply(cell[c], incoming)}])
  /\ Quiet

\* The loop takes its next entry, as it was planned.
NextPromoted(r) ==
  /\ At(r, "next") /\ req[r].op = "promote"
  /\ \E c \in req[r].todo :
       Become(r, [req[r] EXCEPT !.pc = "find", !.cell = c, !.todo = @ \ {c},
                                !.patch = Promoted(Incoming(req[r].bundle, c))])
  /\ Quiet

-----------------------------------------------------------------------------
(* The translator *)

\* translateText answers with a rendering of the text the request holds.
Translated(r) ==
  /\ req[r].pc \in {"aiUpdate", "aiCreate"}
  /\ Become(r, [req[r] EXCEPT !.pc = IF At(r, "aiUpdate") THEN "update" ELSE "create",
                              !.patch = AsAi(AiValue(req[r].text))])
  /\ Quiet

\* TranslatorError: best-effort loops count it and go on, every other caller
\* stops; what handleSourceChange has left of its loop is not done.
TranslationFailed(r) ==
  /\ TranslatorFails
  /\ req[r].pc \in {"aiUpdate", "aiCreate"}
  /\ IF req[r].op \in BestEffort THEN Goto(r, "next") ELSE Finish(r)
  /\ Quiet

-----------------------------------------------------------------------------
(* The repository's writes *)

\* updateTranslation with a full patch: an automatic one leaves a human-owned
\* row as it is; the row being gone is an error that ends the request.
\* Mutated form: updateMany without its WHERE clause.
PreservesNothing(row, patch) == FALSE
Preserves(row, patch) == IsAutomatic(patch) /\ IsHumanOwned(row)

Update(r) ==
  /\ At(r, "update")
  /\ LET c == req[r].cell
         patch == req[r].patch
     IN  IF Holds(r)
         THEN /\ IF Preserves(cell[c], patch) THEN UNCHANGED <<cell, history>>
                 ELSE Store(r, c, patch)
              /\ Continue(r)
         ELSE Finish(r) /\ UNCHANGED <<cell, history>>
  /\ UNCHANGED <<locales, removals, keyText, older>>

\* createdAt of a new row.
Newest(c) ==
  older' = [d \in Cells |-> IF d = c THEN {x \in Cells : cell[x] # Absent} ELSE older[d] \ {c}]

\* createTranslation: INSERT, or a unique violation.
Create(r) ==
  /\ At(r, "create")
  /\ IF cell[req[r].cell] = Absent
     THEN /\ Store(r, req[r].cell, req[r].patch)
          /\ Newest(req[r].cell)
          /\ Continue(r)
     ELSE /\ Goto(r, "conflict")
          /\ UNCHANGED <<cell, older, history>>
  /\ UNCHANGED <<locales, removals, keyText>>

\* Mutated form: whoever created the row first wins.
ConflictKeepingWinner(r) ==
  /\ At(r, "conflict")
  /\ IF cell[req[r].cell] = Absent THEN Finish(r) ELSE Continue(r)
  /\ Quiet

\* createTranslation after the violation: a person's text updates the row
\* that won, an automatic one settles for it.
Conflict(r) ==
  /\ At(r, "conflict")
  /\ IF cell[req[r].cell] = Absent THEN Finish(r)
     ELSE IF IsAutomatic(req[r].patch) THEN Continue(r)
     ELSE WithRow(r, "update")
  /\ Quiet

\* removeLocale: one serializable transaction drops the locale and its rows.
RemoveLocale(l) ==
  /\ l # SourceLocale /\ l \in locales
  /\ removals[l] < MaxRemovals
  /\ locales' = locales \ {l}
  /\ removals' = [removals EXCEPT ![l] = @ + 1]
  /\ cell' = [c \in Cells |-> IF LocaleOf(c) = l THEN Absent ELSE cell[c]]
  /\ basis' = [c \in Cells |-> IF LocaleOf(c) = l THEN Absent ELSE basis[c]]
  /\ overtaken' = {c \in overtaken : LocaleOf(c) # l}
  /\ UNCHANGED <<keyText, older, req, arrivals, latest, swept>>

-----------------------------------------------------------------------------
Init ==
  /\ locales = Locales
  /\ removals = NoRows
  /\ keyText = [k \in Keys |-> Absent]
  /\ cell = [c \in Cells |-> Absent]
  /\ older = [c \in Cells |-> {}]
  /\ req = [r \in Requests |-> Idle]
  /\ arrivals = 0
  /\ basis = [c \in Cells |-> Absent]
  /\ overtaken = {}
  /\ latest = [k \in Keys |-> Absent]
  /\ swept = [k \in Keys |-> {}]

Arrive(r) ==
  \/ \E c \in Cells, i \in Inputs : StartSave(r, c, i) \/ StartAccept(r, c, i)
  \/ \E c \in Cells : StartReview(r, c)
  \/ \E k \in Keys, e \in Envs, t \in Texts : StartSync(r, k, e, t)
  \/ \E e \in Envs, l \in Locales : StartFillLocale(r, e, l)
  \/ \E k \in Keys, e \in Envs, targets \in SUBSET Locales :
       \/ StartFillSelection(r, k, e, targets)
       \/ \E from \in Locales : StartRetranslate(r, k, e, targets, from)
  \/ \E e \in Envs, bundle \in Bundles : StartPromotion(r, e, bundle)

\* One more step of a request that has begun.
Work(r) ==
  \/ FindForPerson(r) \/ ReadForAccept(r) \/ ReadForReview(r) \/ Confirm(r)
  \/ ClassifySync(r) \/ CreateKey(r) \/ ListPresent(r)
  \/ SetSourceText(r) \/ ListForChange(r) \/ NextChanged(r) \/ Flag(r) \/ FinishChange(r)
  \/ NextToFill(r) \/ NextToRetranslate(r) \/ FinishLoop(r)
  \/ FindToFill(r) \/ FindToRetranslate(r) \/ PlanPromotion(r) \/ NextPromoted(r)
  \/ Translated(r) \/ TranslationFailed(r)
  \/ Update(r) \/ Create(r) \/ Conflict(r)

Next ==
  \/ /\ arrivals < MaxArrivals
     /\ arrivals' = arrivals + 1
     /\ \E r \in Requests : Arrive(r)
  \/ /\ \E r \in Requests : Work(r)
     /\ UNCHANGED arrivals
  \/ \E l \in Locales : RemoveLocale(l)

Spec == Init /\ [][Next]_vars

-----------------------------------------------------------------------------
(* Properties *)

\* Every variable has its type.
TypeOK ==
  /\ locales \in SUBSET Locales
  /\ removals \in [Locales -> Nat]
  /\ keyText \in [Keys -> Texts \cup {Absent}]
  /\ cell \in [Cells -> Rows \cup {Absent}]
  /\ older \in [Cells -> SUBSET Cells]
  /\ req \in [Requests -> RequestStates]
  /\ arrivals \in Nat
  /\ basis \in [Cells -> Texts \cup {Absent}]
  /\ overtaken \in SUBSET Cells
  /\ latest \in [Keys -> Requests \cup {Absent}]
  /\ swept \in [Keys -> SUBSET Envs]

\* The three shapes a row has: a status-only patch decided on a stale read
\* (asNeedsReview, markReviewed) never turns a machine's row into one that
\* looks human-owned to one field and machine-owned to another.
RowShape(row) ==
  \/ row = AsAi(row.value)
  \/ row = AsCode(row.value)
  \/ row.source = "manual" /\ row.aiLocked /\ row.status \in {"manual", "needs-review"}

RowsConsistent == \A c \in Cells : cell[c] # Absent => RowShape(cell[c])

\* The rule of README.md:23-30, as the abstract specification states it: a
\* person's text is replaced only by a text a person submitted for that cell,
\* there or where a promotion takes it from, and lost only with its locale,
\* under every interleaving of the requests.
Content(row) ==
  IF row = Absent THEN Absent
  ELSE [owner |-> IF IsHumanOwned(row) THEN "human" ELSE "machine", value |-> row.value]

\* A promotion submits the texts that a person wrote elsewhere, one by one.
Submitted(r) ==
  \/ req[r].op \in {"save", "accept"}
  \/ /\ req[r].op = "promote" /\ req[r].pc \in {"find", "update", "create", "conflict"}
     /\ ~IsAutomatic(req[r].patch)

Ownership == INSTANCE CellOwnership WITH
  Groups <- {{c \in Cells : LocaleOf(c) = l} : l \in Locales},
  content <- [c \in Cells |-> Content(cell[c])],
  pending <- {<<req[r].cell, req[r].patch.value>> : r \in {s \in Requests : Submitted(s)}}

ImplementsOwnership == Ownership!Spec

\* A manual save that is answered has stored the person's text, whichever
\* request created the row first, unless the locale was removed meanwhile.
SavedTextLands ==
  [][\A r \in Requests :
       LET c == req[r].cell
       IN  (req[r].op = "save" /\ req'[r].op # "save" /\ removals[LocaleOf(c)] = 0)
             => cell'[c] = req[r].patch]_vars

\* Once handleSourceChange has gone through an environment, no human-owned
\* text there still counts as reviewed that a person approved under an older
\* source text, saves and reviews that land during the pass included.  One
\* race is excepted: a save or review that arrived before the change and is
\* written after it (markReviewed reads at translation-service.ts:332 and
\* updates at :339, without asking again).
StaleReviewsFlagged ==
  \A c \in Cells \ overtaken :
    /\ EnvOf(c) \in swept[KeyOf(c)]
    /\ cell[c] # Absent
    /\ IsHumanOwned(cell[c])
    /\ cell[c].status = "manual"
    => basis[c] = keyText[KeyOf(c)]

\* README.md:27-30: if source text later changes, the human value's status
\* becomes needs-review.  Asked once no request is running.
ReviewPromise ==
  (\A r \in Requests : req[r].pc = "idle") =>
    \A c \in Cells :
      (cell[c] # Absent /\ IsHumanOwned(cell[c]) /\ cell[c].status = "manual")
        => basis[c] = keyText[KeyOf(c)]
=============================================================================
