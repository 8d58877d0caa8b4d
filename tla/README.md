# Verification of Keykit (magiclocale)

TLA+ models of the parts of this repository in which several actors change the
same state, with TLC runs on small instances and TLAPS proofs for all instances.
Paths are relative to the repository's root; line numbers are in `PROJECT.json`
(`map`).

## 1. The system

A Next.js server with one Postgres database keeps the texts and feature flags
of customers' apps. A team has projects; a project has keys, locales and
environments. Each (key, environment, locale) cell of the *working copy* holds
at most one row, written by people in the dashboard, by code syncs (CLI or SDK)
and by an AI translator. An environment serves either its working copy or a
published *version*; promotion copies one environment's values to another. An
SDK in the customer's app reports keys and reads bundles.

Handlers are `async` functions. Nothing in them locks; a few statements are
transactions or carry a guard in their WHERE. So every `await` is a point
where another request may run, and what was read before it may be stale
afterwards. That is the hazard behind nearly everything below.

### Components

| Component | State | Operations | What makes it correct |
|---|---|---|---|
| Translation workspace: `domain/translations/translation-service.ts`, `team-translation-service.ts`, `invariants.ts`, `data/translations/` | `Translation` rows, `TranslationKey.sourceText`, `Project.locales` | save, accept a suggestion, mark reviewed, sync from source, fill a locale or a selection, retranslate, remove a locale, rename and merge keys | only a text a person submitted replaces a person's text; a saved text lands; a source change sends every human text of the key to review |
| Versions: `domain/versions/version-service.ts`, `data/versions/` | `Version` rows, `Environment.liveVersionId` | record a change in the draft, publish, roll back, prune | what is live is a sealed version; versions have consecutive numbers; published content does not change; pending changes are not lost |
| Promotion: `version-service.ts`, `data/versions/` | working copies of two environments, audit trail | plan, apply | in the target, only a text a person wrote replaces a person's text, whatever is saved between plan and write |
| Read cache: `lib/cache/read-through.ts` | `reads`, `pending` (process-local) | read through, remember, evict, invalidate | a reader sees every write invalidated before it asked; one load per missed key; the size limit |
| Metering: `lib/billing/`, `domain/billing/plans.ts` | `PlanUsage`, `KeyMeta.lifecycle` | check capacity, record overage, invoice, count requests | never more billed than invoiced or owed; a sync that runs alone bills all that is owed |
| Key catalog: `data/keys/` | `KeyMeta`, usages | detect, deprecate, change | a key in the code counts, one that left the code does not |
| Key merges and renames: `domain/translations/key-merge.ts`, `key-rename-detector.ts` | `mergedIntoKey` aliases, cells | detect renames, merge, move | no human text is lost with its key; aliases have no cycle |
| Environments: `domain/environments/` | `Environment` rows, parent links | create, reparent, rename, delete | one production environment, no cycle, the plan's limit |
| Feature flags: `domain/flags/` | flags, values, rules | edit, promote, evaluate | evaluation is total and deterministic |
| Public content API: `pages/api/v1/`, `lib/api/serve-public-content.ts` | a response cache with a TTL, key authorization | bundle, flags, sync | a revoked key or a new publish takes effect within the TTL |
| SDK: `packages/sdk/src/` | pending and acknowledged source keys, bundle cache, flag cache | enqueue, flush, refresh, set locale | the server ends with the last text of every key |
| CLI: `packages/cli/src/` | a checkpoint on disk; pause state; the watcher's queue | sync in chunks, pause, resume, abort, watch, apply merges | every key in the code ends on the server with its text, whatever failed before; every save is followed by a pass |
| Teams, invitations, account lock: `pages/api/teams/`, `lib/accountLock.ts` | members, seats, attempts | join, leave, invite, lock | every team keeps an owner; limits hold |
| Webhooks: `pages/api/webhooks/` | subscriptions | upsert per event | the entitlement is Stripe's |
| AI translator, migrations, architecture views, dashboard | — | — | presentation, projections and an external service |

### How they interact

```
SDK / CLI --sync--> capacity check + invoice --> syncFromSource --> cells (AI translator)
                    ActiveKeyMetering            TranslationCells      |
dashboard --save/review/fill/remove locale------------------^         | each write reports a change
                                                                       v
dashboard --publish/rollback--> VersionPipeline <---- open draft of the environment
                |  snapshot, repoint, prune
                v
          invalidateProjectReads --> ReadThroughCache <-- dashboard reads
SDK --bundle--> public content API (TTL cache) --> live version or working copy
```

### What is hard in it

* **Stale decisions.** `writeAutomaticAiValue` decides on a row, awaits the
  translator for seconds, then writes. `handleSourceChange` lists rows once and
  walks them. `publish` compares with a live version it read earlier.
* **Check, then act.** Find a draft, else create it; find a row, else create it;
  count, then insert; read `billedOverageBlocks`, then ask Stripe.
* **Steps of a request fail one by one.** Publish = seal, repoint, prune,
  invalidate; metering = upsert, invoice, mark. No transaction spans them.
* **Row ids outlive rows.** A locale can be removed and added again while a
  request holds an id of the old row.
* **Promises in a cache.** A load that started before an invalidation ends after it.

`PROJECT.json` (`hazards`) lists these at their lines, with the property that
speaks of each, or why none does.

## 2. The modules

Each module is one component, with a proof module and an MC module beside it.
A step is one SQL statement, one call to an external service, or one callback
of the event loop; an operation of the code is a request that goes through
those steps (`req[r].pc`), so requests interleave at every await. What a
request read is in its local state, possibly stale.

Bounds are named `Max...`. Most are in the guards of actions that start something:
a request, a report, an edit, a locale removal, a write to the cache's source. A few
sit in a step of a request under way, where a table or a stack would grow: the
`Insert` of `VersionPipeline` (`MaxVersions`), `Create` and `Target` of
`KeyConsolidation` (`MaxRows`), `List` of `FlagInheritance` (`MaxDepth`), the start of a
queued pass of `CliSync` (`MaxBeside`). A request that meets such a bound stands still
there, as a request may anywhere, and safety is all that is claimed of those modules.
`MaxStrays` of `CliSync` bounds what abandoned handlers are left with, and stops nothing.
Variables under "history" are read only by properties and bounds, and by steps to set them.

### `CellOwnership` — what the workspace promises

The abstract specification: each cell is empty, or holds a text owned by a
`human` or by the `machine`. A person's text can be submitted, then written or
withdrawn. `HumanWrite` needs a pending submission **of that text for that
cell**; `MachineWrite` needs a cell that is not human's; `Erase` removes the
cells of a locale. It has no requests, rows or ids.

### `TranslationCells` — `translation-service.ts` and its repository

| Code | Model |
|---|---|
| `Translation` row: value, source, aiLocked, status | `cell[<<key, env, locale>>] \in Rows`, with `AsManual`, `AsAi`, `AsCode` from `invariants.ts` |
| row ids | `Holds(r)`: the row a request read is still the one there. `removals` counts how often a locale was removed, which tells an old id from a new one |
| `saveManual`, `acceptSuggestion`, `markReviewed` | `StartSave`, `StartAccept`, `StartReview`, then `FindForPerson`, `ReadForAccept`, `ReadForReview`, `Confirm` |
| `syncFromSource` for one key | `StartSync`, `ClassifySync`, `CreateKey` (new), `ListPresent` (unchanged), `SetSourceText` + `ListForChange` (changed) |
| `handleSourceChange` | `NextChanged`, `Flag` (needs-review), `FinishChange` |
| `generateMissingTranslation`, `translateNewLocale`, `translateSelection`, `retranslateLocales` | `NextToFill`, `FindToFill`, `NextToRetranslate`, `FindToRetranslate`, `FinishLoop` |
| awaiting the translator | `Translated`, `TranslationFailed` |
| `updateTranslation` with its guarded WHERE | `Update` (`Preserves`) |
| `createTranslation`, the unique index and what follows a conflict | `Create`, `Conflict` |
| `applyPromotion`: the plan, its entries one by one | `StartPromotion`, `PlanPromotion` (`ToApply`), `NextPromoted` with `Promoted`, then `FindForPerson` and the writes above |
| removing a locale | `RemoveLocale` |

A text is abstracted to where it came from: the source text `t`, the AI's
rendering of `t`, or a person's input. The order in which the code walks rows is
`older` (by creation); a fill or a promotion takes its cells in any order. A sealed
version is a bundle of rows, any of `Bundles`; a promotion keeps of a row its text and
its source, and what a person wrote is submitted when its entry is taken.

`req[r].decided` is what the source texts were when the request arrived, `basis` what
it was for the person whose row is in a cell: a person approves what the page shows, and
the code does not ask again at the write. `overtaken` are the cells written by a person
whose source text had changed by then.

### `VersionPipeline` — one environment's draft, publish, rollback, prune

| Code | Model |
|---|---|
| `Version` rows, `liveVersionId` | `versions`, `live`; ids are given in creation order |
| an edit that reports to the draft | `StartEdit`, then `Find` … `Append` |
| `publish` | `StartPublish`, `ReadWorking` and `ReadLive` (two halves each, in any order: they run in `Promise.all`), `Compare`, `Current`, `Find`, `Seal`, `SetLive`, `ReadSurvivors`, `ReadProtected`, `Delete` |
| `openDraft` and `createDraft` with its retry on the unique number | `Find`, `ReadLatest`, `Insert`, `Refind` (`MAX_NUMBER_ATTEMPTS`) |
| `rollback` | `StartRollback`, `SetLive` |
| `pruneHistory` | `ReadSurvivors`, `ReadProtected`, `Delete`; deleting the live version nulls `live` (`onDelete: SetNull`) |
| any await throws | `Fail` |

The content of the working copy is how many edits each half (texts, flags) has
seen. `served` is the version last made live, or `None` when at that moment a prune had
read what to keep and had yet to delete the rest (`Doomed`).

### `ReleaseLog` — what the pipeline promises

The abstract specification: a log of entries with numbers, a draft as long as nothing
is sealed into it, and a pointer to the entry that is served; no requests, reads,
retries or failures. `Open` gives the next number and needs that no draft is open,
`Seal` needs a draft and seals the whole working copy, `Serve` needs a sealed entry,
and `Prune` takes neither what is served nor one of the `Keep` newest. Its
`overlap` says whether requests overlap. While they do, the code keeps less, and the
module says how much: a number nobody has and that leaves no gap; a content no part
of which is ahead of the working copy; a sealed entry to serve; no draft pruned.

### `ReadThroughCache` — `lib/cache/read-through.ts`

`reads` and its insertion order (`order`), `pending`, one local state per call
of `readThrough`. `Join` is a call that finds a promise, `Load` one that starts
a load; then `Query` or `QueryFails`, `Remember` (the `then`, with `Evicted`),
`Forget` (the `finally`, which deletes the key's promise **whoever owns it now**,
and answers everyone waiting for it). A writer commits (`Write`), then
`Invalidate`s its project, or fails in between (`Abandon`). A hit changes nothing
and has no action. JavaScript runs one callback at a time, so each is one step.

### `ActiveKeyMetering` — capacity, overage and Stripe

A sync counts (`Count`, `CountIncoming`), is refused on Free or recorded on Pro
(`Upsert`: the high water, returning the row), asks Stripe (`Invoice`, or
`InvoiceFails`, in which the item may or may not exist), marks the blocks billed
in a guarded update (`Mark`), then detects its keys (`Detect`), or removes those
no longer in the code (`Deprecate`). `Fail` ends a request at any statement.
Stripe is external: it is modelled by what the code asks of it and can learn back.

### `SourceKeyRegistry` — `packages/sdk/src/source-key-registry.ts`

One event loop runs everything. A step goes from one await to the next; callers
whose promise has settled stand in `ready`, the microtask queue, and resume in that
order before a timer fires or an answer of the network is seen (`MacroTask`), though the
app's own microtasks may report keys or call `flush` in between.

| Code | Model |
|---|---|
| `pending`, `acknowledged`, `timer`, `activeFlush`, `ingestBlocked` | variables of the same names |
| `enqueue`, `enqueueFlag` | `Enqueue`, with `IsKnown` for the early return: it looks at what is pending and what was acknowledged, not at what is in flight, and never holds for a flag |
| `scheduleFlush` and its debounce | `timer`, `TimerFires` |
| `flush`, from the app or the page-hide handler | `Flush`, `Begin`: `Await` an active drain, return, or `Drain` |
| after an await | `Resume`: throw, return, drain, or look again |
| `drain`, its batches and retries | `Drain`, `Answer`, `AnswerLost`, `Retry`, `GiveUp` with `PutBack`, and `Settle` |
| the plan's limit | `Refused`: the queue is emptied for good |
| `dispose` | `Dispose` |
| the endpoint, `pages/api/v1/projects/[projectId]/keys/sync.ts` with `syncFromSource` | `Refused` or `Take` (the batch is compared with what there is), then `Apply` key by key, and `Answer` |
| a handler whose client has given up | `Abandon` leaves what it has yet to store in `strays`; `Stray` stores it, at any time and as often as handlers may have it |
| merges and renames on the server | `Retire`: the key's text is gone; a merged name is an alias, and gets no text any more |

`displaced` are the keys whose text on the server such a handler, a merge or a rename has
replaced, and no push has stored or found right since. One client reports; what a rename
looks for and what becomes of a key's cells are in the other modules.

### `CliSync` — `packages/cli/src/sync-*.ts`

| Code | Model |
|---|---|
| the source tree, `sync-state.json`, what the server was told | `code`, `checkpoint`, `server` |
| `executeSync`: scan, diff, `keysMissingFromScan` | `Begin` with `Started` and `Missing`; a scan of part of the tree, or of no file at all (`bare`), misses nothing |
| chunks, their answers and failures | `NextChunk`, `Answer`, `Retry`, `Fails` |
| the endpoint, the same as above | `Apply`, key by key; `Abandon` and `Stray` for a handler whose client tried again, gave up or was killed, and which may stop half-way itself |
| `reportRemovedKeys` | `ReportRemoved`, `RemovedAnswered`, `RemovedFails`, `Finish` |
| `q` between two chunks | `Abort` |
| `watchAndSync`, `startSyncWatcher` | `Launch`, `Trigger`, `PassEnds`, `Close`, `Stop`; `watch` is `queued`, the debounce timer, and whether it is on or closed |
| `writeSyncCheckpoint`, and reading a file that does not parse | `WriteCheckpoint`; `KillWriting` leaves an empty one |
| a kill | `Kill`, at any step |

The plain command and the watcher are separate processes. They share the tree, the
checkpoint and the server, and nothing locks any of them. How many attempts a request has
is left out: it may be tried again, or fail, at any point. `overwritten` are the keys that
an abandoned handler has stored since the last pass began or told of them.

### `FlagInheritance` — `environment-service.ts` and `flag-service.ts`

Linked environments of one project, and one flag's configuration in each
(the flags of a project do not touch one another).

| Code | Model |
|---|---|
| `Environment` rows, parent links; `FlagEnvironmentConfig` rows | `present`, `deleted`, `parent`; `config` |
| creating an environment: limit, insert, provision | `Create` (`BelowLimit`), `Insert`, `ListFlags`, `Provision` and a copy of the parent's configuration |
| changing a parent: `assertNoCycle`, then the update | `SetParent`, `Walk` (one query for each link), `Link` |
| deleting an environment | `Delete` with the database's cascades |
| creating and deleting a flag | `CreateFlag`, `ListEnvironments`, `Seed`; `DeleteFlag` |
| `ensureConfig` | `Ensured` |
| `setConfig` and `cascadeInherited`, which recurses | `SetConfig`, `Update`, then `List`, `Child`, `Return` on `stack`, with `copyConfig` in `Fetch` and `Store` |
| `setRules`, `promote`, `inherit` | `SetRules`, `Replace`, `Detach`; `PromoteConfig`; `InheritFromParent` |
| `rolloutSalt` | `salt` of a configuration: the environment it was drawn for. `Created` draws one, `Store` (`copyConfig`) leaves the target's |
| an environment of another project as the parent of a new one, which nothing checks | `Foreign`: it is a root, and is never deleted or changed by this project |
| a query that misses its row | `Throw` |

`setRules`, `promote` and `inherit` do not cascade, as in the code, although the
dashboard says that "Inherited values stay linked until overridden."
(`locales/en/common.json:546`). The module says what a cascade does, where there is one.

### `KeyConsolidation` — merges, renames and aliases

`mergeKeys` and the rename and alias paths of `syncFromSource` in
`translation-service.ts`, with `key-merge.ts`, `key-rename-detector.ts` and the
key catalog. One cell stands for all cells of a key: they are consolidated alike.

| Code | Model |
|---|---|
| `TranslationKey` rows and their cells; `KeyMeta` | `row`, `meta` |
| `resolveTransitiveReplacements`, the alias path | `Follow`, `Resolved`, `Alias`, `Lookup`, `Detect` |
| `key-rename-detector.ts` | `Candidates`; `Certain` when the text is the same but for white space (`SameText` with `normalizeText`) and the old key has disappeared. The score is abstracted to that |
| `renameKey`, `renameDetectedKey` | `Rename`, `RenameMeta` |
| `createKey`, a source change, an unchanged key | `Create`, `DetectNew`, `FillNew`; `Change`; `Touch` |
| `deprecateMissingTranslations` | `Deprecate` |
| `mergeKeys` | `Merge` (all reads), `Target`, `Consolidate` with `Rank` and `Winners` (`pickMergedTranslation`), `Fill`, `DeleteOld`, `MarkTarget`, `Mark` |
| a row that is gone, a taken name; a restart | `Throw`; `Crash` |

`RenameMeta` and `Mark` throw where the code writes columns or uses a unique key that
`schema.prisma` does not have (`lastSeenAt` of `KeyMeta`; `filePath`, `snippet` and
`keyMetaId_filePath_line` of `SourceUsage`): Prisma refuses such a query.

## 3. The runs

All bounds are the smallest at which the cases in question occur, and each
property of a passing run has a mutant of the code, listed in `PROJECT.json`,
that breaks it under the same configuration; a bound too small for the case
would let the mutant live.

### Passing

**`cells`** — one key, one environment, a source and a target locale, two source
texts, one input, two sealed versions to promote, two concurrent requests, four
arrivals, one locale removal, a translator that may fail. Four arrivals are enough
for: create the key, fill or save the target, then a change or a promotion racing a
save, review, fill or removal. The sealed versions differ in which locale holds a
person's text, so each cell meets a promoted text of every owner.
* `RowsConsistent`: source, aiLocked and status always agree, although
  reviews and flags patch the status alone, possibly of a row that changed hands.
* `ImplementsOwnership`: `CellOwnership` is implemented, with `content` as the rows'
  owners and values and `pending` the texts of saves and accepts under way, and those
  a promotion is about to write.
* `StaleReviewsFlagged`: once the pass over the latest change of a key is
  complete in an environment, a human text there that counts as reviewed was
  sent with the current source text before the person, whatever ran meanwhile. One
  race is excepted by name (`overtaken`): a save or review sent before the change and
  written after it. `markReviewed` reads the row, then sets its status by id
  (translation-service.ts:332, :339) and does not ask whether the source has changed, so a
  flag set in between is undone: there the code does not keep what README.md:28-29 says.
  A person who promotes a text approves it (`snapshot.ts:184`: "the operator
  confirms the plan first"), also if it awaited review where it came from.
* `SavedTextLands`: a save that ends has left its row in the cell, whoever created
  the row first, if the locale was never removed.

**`versions`** — two requests, five arrivals, three versions, two edits per half,
`Keep = 1` (so pruning happens with three versions; the code keeps 50),
`MaxAttempts = 2` (so giving up happens; the code tries 5).
* `LiveIsSealed`: an environment that was published serves the version last made live,
  and that is published; so it never falls back to the working copy. One race is excepted
  (`served` is `None`): a version made live after a prune has read what to keep and before
  it deletes the rest. `live_pruned` shows it.
* `NumbersGapless`: the numbers ever allocated are 1, 2, 3 ..., and no two rows share one.
* `PendingChangesKept`: a draft, or a change recorded in one, only goes away by
  being published.
* `PublishEffective`: a publish that overlaps no other request and succeeds leaves an
  environment whose live snapshot is the working copy, whatever drafts and
  half-done publishes it found.
* `ImplementsLog`: `ReleaseLog` is implemented, with `number` and `content` read off the
  rows, `given` as the numbers ever allocated, and `overlap` true while a request is
  under way that another overlapped. So the second seal `published_immutable` shows, a
  second draft, or a fresh version that is pruned, takes two requests at once.

**`read_cache`** — two keys of one project, room for one, three callers, one
writer, two writes. Three callers are needed for a load, the load that replaces
it after an invalidation, and a caller that joins the second.
* `WithinLimit`: never more than `MAX_ENTRIES` reads are remembered.
* `MissesAreFresh`: a call that missed returns a value no older than the last
  invalidation before the call, also when it joined somebody else's load.
* `HitsAreFresh`: a remembered value is as new as the last invalidation, unless
  its load overlapped that invalidation.
* `EveryCallAnswered`: every call settles, including those awaiting a promise
  no longer in `pending`.

**`metering`** — four names, two requests, pool of one, blocks of two, three
arrivals: counts 0 to 4 are 0, 0, 1, 1, 2 blocks, so both edges of a block occur.
* `BilledIsInvoiced`, `BilledIsOwed`: the row never says billed what Stripe was
  not asked for, or what the highest count does not call for.
* `NeverRefunded`: neither number falls.
* `LoneSyncMetered`: when a sync that overlaps no other gets to its detection, the
  keys that will then count fit the pool on Free, and the pool plus the billed
  blocks on Pro, whatever earlier races and failures left behind.

**`registry`** — two keys, one of them a flag, two texts, two calls of `flush` at a time,
one of the app or the timer and one of a page being hidden, batches of two, one retry, three
reports. Two calls are enough for one to await, wake beside, or overtake the drain of the
other, and three reports for two drains side by side. The endpoint stores one key of a batch
and fails at the next, or goes on after its client has left. Batches of one, of which a drain
has several, are within the theorems.
* `LatestKept`: the text reported last is pending, in flight or acknowledged, and no
  older one comes after it, whatever is retried or put back.
* `ServerHasLatest`: when nothing of a key is pending or in flight, the server has the text
  reported last, but for the keys in `displaced`.
* `NothingStranded`: what is pending has a timer or a running flush, unless one threw.
* `EveryFlushEnds`: every call of `flush` returns or throws, also one that waits for the
  drain of another, or drains again.

  The first two except what the code really loses: a plan's limit, which empties
  the queue; two drains side by side (`overlapped`), whose batches may land in any
  order; and a key reported with its acknowledged text while another text of it is
  in flight (`reverted`), a report the code drops.

**`cli_sync`** — two keys, two texts, chunks of one, any tree to begin with, two edits of
it, one plain sync and a watcher, any number of passes, retries, failures and kills at any
step. Chunks of one split a pass into two requests with a checkpoint in between; two edits
give a save during the pass another save has triggered. One key with its text may be left to
an abandoned handler (`MaxStrays`), and one pass may begin while another runs (`MaxBeside`;
the next waits until it is alone); what is checked then is the lone passes that come after.
The theorems have no such bounds.
* `DoneIsExact`: a pass that ends well, alone, leaves checkpoint and server as the
  code it scanned, for every key whose checkpoint entry did not wrongly match it. Keys it
  missed are gone only if it scanned the whole tree and found a file; and the server may
  differ where an abandoned handler has stored again since (`overwritten`).
* `ClaimsAreTold`: without passes at once, the checkpoint claims of a key what the
  server was told last, or a request about it ended unrecorded.
* `ProgressKept`: only a kill in the middle of a write forgets what is recorded rightly.
* `SavesAreCovered`: a save that the watcher saw is covered by its timer or a queued pass.

**`flags`** — three environments and one of another project, a plan of two, two requests
at a time, three in all, two values. Three environments make a cycle, a chain of two links
and an overrun possible. `MaxDepth` cuts the stack of a cascade, which in a cycle never ends.
* `AcyclicUnlessRaced`: links form no cycle unless two requests set parents at once.
* `WithinLimit`: the limit is exceeded only by creations that overlap.
* `ConfiguredEverywhere`: a flag is or will be configured in every environment, also
  when flag and environment are created at once, unless a request threw.
* `CascadeReachesAll`: a `setConfig` nothing runs beside leaves every environment that
  inherits from it, at any depth, with the same settings and a salt of
  its own. So a change does not reshuffle anybody's users; but where a percentage decides,
  an environment and the one it inherits from may answer one user differently, since
  `copyConfig` leaves the salt (prisma-flag-repository.ts:336-346) and `evaluate.ts:143`
  buckets on it.

**`keys`** — two names, three texts of which two differ in white space only, three rows
ever, one save, three requests of which two at once, crashes. A rename, a merge and a
sync of either name fit in.
* `TypeOK` says, among the types, that no two keys get one name.
* `SyncTakesEffect`: after a sync nothing ran beside, the name it found is a key with
  that text or leads to a key, and the names that are gone are deprecated, renamed or no keys.
* `HumanTextsKept`: a saved text is lost only to another save, or to another person's
  text in a merge. Merges that read before the save, or at the same time, are excepted.
* `MergedNamesResolve`: a name a merge has marked leads to a key, through merges back
  and forth; excepted are raced merges, and what leads to a key that was renamed, or
  deleted by a merge that was cut off. Chains through
  three names and more are within the theorem only.

Names and requests are interchangeable where a cfg gives a symmetry; none is used
with a liveness property. `CHECK_DEADLOCK FALSE` in all: when the bounds on
arrivals are used up and every request has ended, the model stops, as the
program does when nothing arrives.

### Violations: where the code and its own words disagree

| Run | Said | Done |
|---|---|---|
| `review_promise` | README.md:28: when the source changes, a human value "becomes `needs-review`" | A `TranslatorError` in the middle of `handleSourceChange` ends the pass; the new source is already stored, so no later sync returns to the rest |
| `live_pruned` | prisma-version-repository.ts:267-268: "The environment's live version is never pruned" | A prune reads what to keep, another publish makes a version live, the prune deletes it, and readers get the working copy |
| `published_immutable` | schema.prisma:331: "Immutable published translation snapshot" | Two publishes find the same draft; the second seals it again, replacing what is live |
| `old_keys_marked` | translation-service.ts:692: "Marks the old keys as deprecated with `replacementKey = targetKey`" | `markMergedKeys` upserts usages by columns and a unique key the schema lacks, and throws at the first old key that has recorded usages, after all old rows are deleted; the rest is never marked |

`review_promise` has a third locale, since the failing row must come before another;
`published_immutable` and `live_pruned` have the code's own window of 50; `old_keys_marked`
has neither crashes nor requests at once.

### Fairness

* `ReadThroughCache`: weak fairness of each load's own steps (`Settle`). The database
  driver answers or fails, and the event loop runs the callbacks of a settled
  promise; nothing disables them but themselves.
* `SourceKeyRegistry`: strong fairness of each call's `Progress`, an answer, a failure
  or a resumption. A request answers or fails and its callback runs; strong, because
  the app's own microtasks come first and may disable the step time and again.

No fairness is given to callers, writers or timers. The other modules state safety
only: a request may stop anywhere (a serverless function is frozen, a client goes
away), and the code has no recovery that would have to come.

## 4. The proofs

`tlapm` checks every module ending in `_proofs` from nothing. Assumptions are
only the named `ConstantsAssumption` of each module (a source locale among the
locales, bounds that are naturals, `None` outside the data), evaluated by TLC in
the runs. All hold for any number of requests, keys, versions, names and any bound.
`PROJECT.json` (`theorems`) lists the results.

* **`TranslationCells_proofs`** — `TypeCorrect`, `RowsStayConsistent`, `OwnershipKept`
  (`Spec` implements `CellOwnership`), `StaleReviewsStayFlagged`, `SavedTextsLand`.
  Rows alone are not inductive: `Flag` and `Confirm` patch the status only, and would
  spoil a row that is a machine's by then. The invariant adds what each request has at
  hand at each step (`AtHand`) and that a row it is to patch by status is still a
  person's unless its locale was removed since the id was read (`Remembers`); `Advances`
  says how any step may change the tables so that every other request's memory stays
  right. The refinement needs, in addition, that a patch about to be written is a
  person's only if the request is a save, an accept or a promotion of that text for
  that cell (`PersonStep`, `MachineStep`, `PromotionStep`), so that its write finds its
  submission pending. `Sweeping` says that in the environment of the last pass over a key,
  what is stale is what the pass has listed and not come to, or was overtaken; `Landing`
  that a save in `update` or `conflict` has a row in its cell, or lost its locale.
* **`VersionPipeline_proofs`** — `TypeCorrect`, `LiveStaysSealed`, `PendingChangesStay`,
  `NumbersStayGapless`, `LonePublishTakesEffect`, `HistoryIsALog` (`Spec` implements
  `ReleaseLog`). `LiveIsSealed` is not inductive:
  `SetLive` makes live what the request sealed steps ago. The invariant adds that a request
  in `setLive` holds a version that is published or has been pruned since (`AtHand`),
  that ids are given in order, so that a pruned id never returns as a draft, and that every
  prune about to delete keeps what is served, unless it was excepted. `Numbered`
  relates ids, numbers and what each `Insert` has read. A publish nothing overlaps is
  followed step by step (`OnCourse`, `LonePublishes`): what it has read is the working
  copy, and what it sealed is what it read. For the refinement, every request nothing
  overlaps is (`SoloRequests`): it inserts after the highest number there is, seals the
  draft it found, and spares all of the newest; and no request holds an edit that was not
  made (`SnapshotsAreSaved`). Each step is then one of the log's or leaves it alone.
* **`ReadThroughCache_proofs`** — `TypeCorrect`, `MissesStayFresh`, `HitsStayFresh`,
  `LimitStaysKept`. The
  inductive invariant relates the four places a value can be: what is covered
  by invalidations is committed (`CoveredIsCommitted`); a load's value is no older than
  its call (`LoadsAreSound`); a promise still in `pending` belongs to a load as new as
  the last invalidation (`PendingIsCurrent`), so whoever joins it called under the
  same invalidation (`JoinedAtOnce`). The last two are why `Invalidate` must drop the
  promises and not only the values. For the limit, `order` lists each remembered key
  once, so that it is as long as they are many; taking a key out of a list is followed
  along the list, by induction (`NumbersByInduction`).
* **`ActiveKeyMetering_proofs`** — `TypeCorrect`, `BilledStaysInvoiced`,
  `BilledStaysOwed`, `DropsDoNotRefund`, `LoneSyncIsMetered`. A request marks from a row it
  read earlier, so the invariant says that such rows are old (`RowsAreOld`: no more than
  the current high water) and that the items a request is about to mark exist
  (`ItemsCoverMarks`); `BlocksMonotone` turns a higher high water into at least as
  many blocks. `Alone` says that what a sync nothing overlaps has counted still counts.
* **`SourceKeyRegistry_proofs`** — `TypeCorrect`, `LatestIsKept`, `ServerCatchesUp`,
  `PendingIsSent`. Unless drains ran side by side, one call at most has a batch in
  flight (`OneInFlight`), so what it carries is the newest text of a key that is not
  pending; and what its handler was given, and does not have yet to store, is the server's,
  unless displaced since (`Newest`). The queue of microtasks
  agrees with the calls it will resume (`Queues`), and a call that may return without
  looking at what is pending is never the only one to rely on (`Relied`).
* **`CliSync_proofs`** — `TypeCorrect`, `PassIsExact`, `CheckpointIsTrue`, `NoSaveIsMissed`,
  `ProgressIsKept`. A pass with no other beside it is the only one to write (`Alone`), so
  the checkpoint is what it holds in memory, and each key is queued, in its request and
  stored or still to store, settled, or overwritten since (`Told`); without two passes at
  once every pass is such a one (`Covered`).
* **`FlagInheritance_proofs`** — `TypeCorrect`, `NoCycleUnlessRaced`, `LimitIsKept`,
  `FlagIsEverywhere`, `CascadeReachesEveryFollower`. A creation found room when it was
  checked, and only a creation takes room (`Limits`). A move has walked a set of
  environments that no link leaves, and only a move adds a link to an environment that
  was there (`Moves`), so its own link closes no cycle. In a cascade, the environments
  reached are set as the first one is, and their other followers are on the stack
  (`Reaches`, `Course`). No step writes a salt but the one that draws it (`Salted`), so each
  configuration keeps its own.
* **`KeyConsolidation_proofs`** — `TypeCorrect`, `HumanTextsAreKept`,
  `LoneSyncTakesEffect`, `MergedNamesStayResolved`. A merge that is not raced has read
  every person's text it is about to delete, and has given the target one before it
  deletes any (`Keeps`); two merges at once are raced (`Exclusive`). At each of its steps,
  a sync nothing runs beside holds the row, or the alias, that answers for its name
  (`Course`). What a chain of aliases comes to is stated of the set of names on it
  (`Reach`): every chain ends (`Ending`), at a name that answers (`Ends`), because a merge
  holds a target whose own alias is gone when it redirects the old names (`InHand`,
  `Redirected`). That `Follow` finds the end is by induction on the names not yet seen
  (`FollowEnds`).

Induction is stated of sets: a set of naturals that is not empty has a least element
(`LeastNumber`, from the well-foundedness of strict inclusion), hence
`NumbersByInduction`. A recursive function is unfolded by showing with it that a function
of that form exists.

Only model-checked: `EveryCallAnswered` and `EveryFlushEnds`, which are liveness under
fairness and out of the prover's reach. Every invariant, action property and refinement
of a passing run is proved.

## 5. Not modelled, and why

Within the modelled components:
* `TranslationCells`: a sync of several keys at once (they share nothing but the
  environment's draft), the contents of texts, placeholders and markup, and where a sealed
  version to promote comes from: any bundle of the cfg. A version pruned between two reads
  of a promotion ends it with an error, or leaves it nothing to write.
* `VersionPipeline`: the entries of the audit trail beyond which changes are pending; the
  entries a promotion adds are appends like those of edits.
* `ActiveKeyMetering`: plans without a pool, the turn of the month, the live-request meter
  (one atomic upsert).
* `SourceKeyRegistry`, `CliSync`: other clients of the same project.
* `CliSync`: key merges and source rewrites of the CLI; no keys are merged on the server
  while it runs. A save during the watcher's first
  pass is before its `watch` (index.ts:269-274) and not seen; a plain sync beside the
  watcher overwrites the checkpoint, which nothing locks (`overlapped`).
* `FlagInheritance`: archiving and labels. `setRules`, `promote` and `inherit` do not
  cascade, so followers keep what they had until the next `setConfig`.
* `KeyConsolidation`: the score of a rename beyond certain and possible; descriptions and
  owners of the catalog.

Left out:
* *Public content API*: it answers from process-local caches for up to a TTL, and its
  staleness is bounded by time only.
* *Flag evaluation*: a pure function of a user and the rules, which hashes; its unit tests
  cover the cases a small instance would.
* *SDK client and caches*: loads that overlap show the last answer; nothing in the repository
  says which one that should be.
* *Teams, webhooks*: handlers of one check and one write, or one upsert; the race on the last
  owner is listed as a hazard and can be read off its two lines.
* *Scanning and rewriting of source files* (parsing), *migrations* (a sync in another format),
  *architecture views* (projections), *dashboard and marketing pages* (presentation), and
  the *translator* (external: it answers with a rendering or fails).

## 6. What is left

In the order in which it would pay:

1. The public content API with time: the response cache and the live pointer with bounded
   staleness, composed with `VersionPipeline`.
2. The draft's side of a promotion: the draft is found once and many entries are appended,
   while it may be published.
3. Flag evaluation as operators against a reference definition; membership and seats.
