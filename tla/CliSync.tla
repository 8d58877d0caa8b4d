------------------------------ MODULE CliSync ------------------------------
(* keykit sync and keykit sync --watch, packages/cli/src: a pass scans the  *)
(* source tree, uploads in chunks the keys whose text is not in the         *)
(* checkpoint file, reports the keys that are gone, and records in the      *)
(* checkpoint what the server was told.                                     *)
(*                                                                          *)
(* The plain command and the watcher are two processes that share the tree, *)
(* the checkpoint and the server, as the README advises.  Between two       *)
(* awaits a process runs on, but the other is a process of its own and a    *)
(* kill may come at any file operation, so each write is a step.            *)
(*                                                                          *)
(* The server's handler stores a request key by key, and is not cancelled   *)
(* when its client gives the request up, tries again or is killed: it may   *)
(* go on, and store what is older then.  How many attempts a request has is *)
(* left out.  No keys are merged on the server meanwhile, so the source     *)
(* tree is changed by people only.                                          *)
EXTENDS Naturals, FiniteSets

CONSTANTS
  Keys, Texts,
  Plain,         \* processes that run keykit sync
  Watcher,       \* the process that runs keykit sync --watch
  ChunkSize,
  MaxEdits,      \* bound: how often the source tree is saved
  MaxStrays,     \* bound: how much is left to abandoned handlers
  MaxBeside,     \* bound: how often a pass begins while another runs
  None

ASSUME ConstantsAssumption ==
  /\ Watcher \notin Plain
  /\ ChunkSize \in Nat \ {0} /\ MaxEdits \in Nat
  /\ MaxStrays \in Nat /\ MaxBeside \in Nat
  /\ None \notin Texts

VARIABLES
  code,         \* key -> its text in the source tree, or None
  bare,         \* the tree holds no source file at all
  checkpoint,   \* key -> its text in sync-state.json, or None
  server,       \* key -> the text it was told last, None when it was told the key is gone
  pass,         \* process -> the pass it is in
  watch,        \* the watcher's own state
  strays,       \* <<key, text or None>> that abandoned handlers may still store, however many
  (* history, never read by the code's own steps *)
  edits,        \* how often the tree was saved
  unscanned,    \* the watcher saw a save that no scan of its own has covered
  unsettled,    \* keys the server was told about since the checkpoint last agreed with it
  overwritten,  \* keys that such a handler stored since the last pass began or told of them
  beside        \* how many passes have begun while another ran

tree == <<code, bare>>
history == <<edits, unscanned, unsettled, overwritten, beside>>
vars == <<tree, checkpoint, server, pass, watch, strays, history>>

-----------------------------------------------------------------------------
Processes == Plain \cup {Watcher}
Tables == [Keys -> Texts \cup {None}]
Nothing == [k \in Keys |-> None]

\* Two passes have run at once.
Overlapped == beside > 0

(* ready: before a chunk.  uploading, reporting: a request with a chunk or  *)
(* with removed keys only is on its way.  removing: all chunks are through. *)
(* done, failed: the pass has ended, and its process has not gone on yet.   *)
(* left is what the handler of the request has yet to store.                *)
(* sure and alone are for the properties: the keys whose entry was right,   *)
(* or differed from the scan, when the pass began, and whether no other     *)
(* pass has run during it.                                                  *)
Passes ==
  [pc : {"idle", "ready", "uploading", "removing", "reporting", "done", "failed"},
   deprecates : BOOLEAN, scan : Tables, synced : Tables, queue : SUBSET Keys,
   removed : SUBSET Keys, unreported : SUBSET Keys, first : BOOLEAN,
   chunk : SUBSET Keys, gone : SUBSET Keys, left : SUBSET Keys,
   sure : SUBSET Keys, alone : BOOLEAN]

NoPass ==
  [pc |-> "idle", deprecates |-> FALSE, scan |-> Nothing, synced |-> Nothing, queue |-> {},
   removed |-> {}, unreported |-> {}, first |-> FALSE, chunk |-> {}, gone |-> {},
   left |-> {}, sure |-> {}, alone |-> FALSE]

Failed == [NoPass EXCEPT !.pc = "failed"]

\* on: the watcher has started.  timer: a debounced trigger is set.
WatchStates == [on : BOOLEAN, timer : BOOLEAN, queued : BOOLEAN, closed : BOOLEAN]
NoWatch == [on |-> FALSE, timer |-> FALSE, queued |-> FALSE, closed |-> FALSE]

At(p, pc) == pass[p].pc = pc
Running(p) == ~At(p, "idle")
Requesting(p) == At(p, "uploading") \/ At(p, "reporting")

\* chunkItems: the next ChunkSize of them, or what is left.
Chunks(keys) ==
  IF Cardinality(keys) <= ChunkSize THEN {keys}
  ELSE {c \in SUBSET keys : Cardinality(c) = ChunkSize}

Recorded(table, keys, texts) == [k \in Keys |-> IF k \in keys THEN texts[k] ELSE table[k]]

\* writeSyncCheckpoint
WriteCheckpoint(synced) ==
  /\ checkpoint' = synced
  /\ unsettled' = unsettled \ {k \in Keys : synced[k] = server[k]}

-----------------------------------------------------------------------------
(* executeSync *)

\* keysMissingFromScan: a scan of part of the tree, or of no files, misses nothing.
Missing(k, scan, scope, deprecates) ==
  deprecates /\ scope = Keys /\ ~bare /\ checkpoint[k] # None /\ scan[k] = None

\* The scan and the checkpoint are read; what differs is queued.
Started(p, scope, deprecates) ==
  LET scan == [k \in Keys |-> IF k \in scope THEN code[k] ELSE None]
      queued == {k \in Keys : scan[k] # None /\ checkpoint[k] # scan[k]}
      removed == {k \in Keys : Missing(k, scan, scope, deprecates)}
  IN  [NoPass EXCEPT
         !.pc = IF queued # {} THEN "ready" ELSE IF removed # {} THEN "removing" ELSE "done",
         !.deprecates = deprecates /\ scope = Keys /\ ~bare,
         !.scan = scan, !.synced = IF queued \cup removed # {} THEN checkpoint ELSE Nothing, !.queue = queued,
         !.removed = removed, !.unreported = removed, !.first = queued # {},
         !.sure = {k \in Keys : checkpoint[k] # scan[k] \/ checkpoint[k] = server[k]},
         !.alone = \A q \in Processes \ {p} : ~Running(q)]

Begin(p, scope, deprecates) ==
  /\ pass' = [q \in Processes |->
                IF q = p THEN Started(p, scope, deprecates) ELSE [pass[q] EXCEPT !.alone = FALSE]]
  /\ beside' = IF \E q \in Processes \ {p} : Running(q) THEN beside + 1 ELSE beside
  /\ beside' <= MaxBeside
  /\ overwritten' = {}

\* keykit sync, of the whole tree or of some of it.
Sync(p, scope) ==
  /\ p \in Plain /\ At(p, "idle") /\ scope # {}
  /\ Begin(p, scope, TRUE)
  /\ UNCHANGED <<tree, checkpoint, server, watch, strays, edits, unscanned, unsettled>>

\* The next chunk is sent, the first with the first of the removed keys.
NextChunk(p) ==
  /\ At(p, "ready")
  /\ \E chunk \in Chunks(pass[p].queue),
       gone \in IF pass[p].first THEN Chunks(pass[p].removed) ELSE {{}} :
       pass' = [pass EXCEPT ![p].pc = "uploading", ![p].chunk = chunk, ![p].gone = gone,
                            ![p].left = chunk \cup gone, ![p].first = FALSE,
                            ![p].queue = @ \ chunk, ![p].unreported = @ \ gone]
  /\ UNCHANGED <<tree, checkpoint, server, watch, strays, history>>

\* q between two chunks: the progress is saved.
Abort(p) ==
  /\ p \in Plain /\ At(p, "ready")
  /\ WriteCheckpoint(pass[p].synced)
  /\ pass' = [pass EXCEPT ![p] = Failed]
  /\ UNCHANGED <<tree, server, watch, strays, edits, unscanned, overwritten, beside>>

\* What a request says of a key.
Sent(p, k) == IF k \in pass[p].chunk THEN pass[p].scan[k] ELSE None

\* The server stores a key, or deprecates one that is gone.
Apply(p, k) ==
  /\ Requesting(p) /\ k \in pass[p].left
  /\ server' = [server EXCEPT ![k] = Sent(p, k)]
  /\ unsettled' = unsettled \cup {k}
  /\ overwritten' = overwritten \ {k}
  /\ pass' = [pass EXCEPT ![p].left = @ \ {k}]
  /\ UNCHANGED <<tree, checkpoint, watch, strays, edits, unscanned, beside>>

\* The same step of a handler whose client is no longer there for it.
Stray(k, t) ==
  /\ <<k, t>> \in strays /\ server[k] # t
  /\ server' = [server EXCEPT ![k] = t]
  /\ unsettled' = unsettled \cup {k}
  /\ overwritten' = overwritten \cup {k}
  /\ UNCHANGED <<tree, checkpoint, pass, watch, strays, edits, unscanned, beside>>

\* The request has failed, or its client is killed: the handler is left with
\* what it has not stored, or some of it when it stops half-way itself.
Abandon(p) ==
  \E rest \in SUBSET pass[p].left :
    /\ strays' = strays \cup {<<k, Sent(p, k)>> : k \in rest}
    /\ Cardinality(strays') <= MaxStrays

\* pushSourceKeys tries again, with the whole request.
Retry(p) ==
  /\ Requesting(p)
  /\ pass' = [pass EXCEPT ![p].left = pass[p].chunk \cup pass[p].gone]
  /\ Abandon(p)
  /\ UNCHANGED <<tree, checkpoint, server, watch, history>>

\* Mutated form: there is always one more chunk.
AnswerMore(p) ==
  /\ At(p, "uploading") /\ pass[p].left = {}
  /\ LET synced == Recorded(pass[p].synced, pass[p].chunk, pass[p].scan)
     IN  /\ WriteCheckpoint(synced)
         /\ pass' = [pass EXCEPT ![p].synced = synced, ![p].chunk = {}, ![p].gone = {},
                                 ![p].pc = "ready"]
  /\ UNCHANGED <<tree, server, watch, strays, edits, unscanned, overwritten, beside>>

\* The chunk is recorded, in memory and in the file.
Answer(p) ==
  /\ At(p, "uploading") /\ pass[p].left = {}
  /\ LET synced == Recorded(pass[p].synced, pass[p].chunk, pass[p].scan)
     IN  /\ WriteCheckpoint(synced)
         /\ pass' = [pass EXCEPT ![p].synced = synced, ![p].chunk = {}, ![p].gone = {},
                                 ![p].pc = IF pass[p].queue # {} THEN "ready" ELSE "removing"]
  /\ UNCHANGED <<tree, server, watch, strays, edits, unscanned, overwritten, beside>>

\* Mutated form: what failed to be sent loses its entry.
FailsForgetting(p) ==
  /\ At(p, "uploading")
  /\ WriteCheckpoint(Recorded(pass[p].synced, pass[p].chunk, Nothing))
  /\ pass' = [pass EXCEPT ![p] = Failed]
  /\ Abandon(p)
  /\ UNCHANGED <<tree, server, watch, edits, unscanned, overwritten, beside>>

\* Mutated form: the chunk that failed is recorded with the others.
FailsRecording(p) ==
  /\ At(p, "uploading")
  /\ WriteCheckpoint(Recorded(pass[p].synced, pass[p].chunk, pass[p].scan))
  /\ pass' = [pass EXCEPT ![p] = Failed]
  /\ Abandon(p)
  /\ UNCHANGED <<tree, server, watch, edits, unscanned, overwritten, beside>>

\* The request fails for good: the chunks that went through are saved.
Fails(p) ==
  /\ At(p, "uploading")
  /\ WriteCheckpoint(pass[p].synced)
  /\ pass' = [pass EXCEPT ![p] = Failed]
  /\ Abandon(p)
  /\ UNCHANGED <<tree, server, watch, edits, unscanned, overwritten, beside>>

\* reportRemovedKeys, with the removed keys no chunk has taken along.
ReportRemoved(p) ==
  /\ At(p, "removing") /\ pass[p].unreported # {}
  /\ \E gone \in Chunks(pass[p].unreported) :
       pass' = [pass EXCEPT ![p].pc = "reporting", ![p].gone = gone, ![p].left = gone,
                            ![p].unreported = @ \ gone]
  /\ UNCHANGED <<tree, checkpoint, server, watch, strays, history>>

RemovedAnswered(p) ==
  /\ At(p, "reporting") /\ pass[p].left = {}
  /\ pass' = [pass EXCEPT ![p].pc = "removing", ![p].gone = {}]
  /\ UNCHANGED <<tree, checkpoint, server, watch, strays, history>>

\* Mutated form: the failure is ignored, and the keys count as reported.
RemovedFailsOn(p) ==
  /\ At(p, "reporting")
  /\ pass' = [pass EXCEPT ![p].pc = "removing", ![p].gone = {}, ![p].left = {}]
  /\ Abandon(p)
  /\ UNCHANGED <<tree, checkpoint, server, watch, history>>

\* It throws, before anything more is written.
RemovedFails(p) ==
  /\ At(p, "reporting")
  /\ pass' = [pass EXCEPT ![p] = Failed]
  /\ Abandon(p)
  /\ UNCHANGED <<tree, checkpoint, server, watch, history>>

Finish(p) ==
  /\ At(p, "removing") /\ pass[p].unreported = {}
  /\ WriteCheckpoint(Recorded(pass[p].synced, pass[p].removed, Nothing))
  /\ pass' = [pass EXCEPT ![p].pc = "done", ![p].synced = Nothing, ![p].removed = {}]
  /\ UNCHANGED <<tree, server, watch, strays, edits, unscanned, overwritten, beside>>

Exit(p) ==
  /\ p \in Plain /\ (At(p, "done") \/ At(p, "failed"))
  /\ pass' = [pass EXCEPT ![p] = NoPass]
  /\ UNCHANGED <<tree, checkpoint, server, watch, strays, history>>

-----------------------------------------------------------------------------
(* watchAndSync and startSyncWatcher *)

WatchPass == Begin(Watcher, Keys, FALSE) /\ unscanned' = FALSE

\* The pass at start-up; the watcher starts after it.
Launch ==
  /\ watch = NoWatch /\ At(Watcher, "idle")
  /\ WatchPass
  /\ UNCHANGED <<tree, checkpoint, server, watch, strays, edits, unsettled>>

\* trigger: a save during a pass queues one more.
Trigger ==
  /\ watch.timer
  /\ IF Running(Watcher)
     THEN /\ watch' = [watch EXCEPT !.timer = FALSE, !.queued = TRUE]
          /\ UNCHANGED <<pass, unscanned, overwritten, beside>>
     ELSE /\ watch' = [watch EXCEPT !.timer = FALSE, !.queued = FALSE]
          /\ WatchPass
  /\ UNCHANGED <<tree, checkpoint, server, strays, edits, unsettled>>

\* Mutated form: what was queued during a pass that failed is forgotten.
PassEndsForgetful ==
  /\ At(Watcher, "done") \/ At(Watcher, "failed")
  /\ IF watch.queued /\ ~watch.closed /\ At(Watcher, "done")
     THEN /\ watch' = [watch EXCEPT !.queued = FALSE]
          /\ WatchPass
     ELSE /\ watch' = [watch EXCEPT !.on = TRUE, !.queued = FALSE]
          /\ pass' = [pass EXCEPT ![Watcher] = NoPass]
          /\ UNCHANGED <<unscanned, overwritten, beside>>
  /\ UNCHANGED <<tree, checkpoint, server, strays, edits, unsettled>>

\* runPass: an error is reported, and a queued pass runs.
PassEnds ==
  /\ At(Watcher, "done") \/ At(Watcher, "failed")
  /\ IF watch.queued /\ ~watch.closed
     THEN /\ watch' = [watch EXCEPT !.queued = FALSE]
          /\ WatchPass
     ELSE /\ watch' = [watch EXCEPT !.on = TRUE]
          /\ pass' = [pass EXCEPT ![Watcher] = NoPass]
          /\ UNCHANGED <<unscanned, overwritten, beside>>
  /\ UNCHANGED <<tree, checkpoint, server, strays, edits, unsettled>>

\* Ctrl+C: a pass under way runs to its end.
Close ==
  /\ watch.on /\ ~watch.closed
  /\ watch' = [watch EXCEPT !.closed = TRUE, !.timer = FALSE]
  /\ unscanned' = FALSE
  /\ UNCHANGED <<tree, checkpoint, server, pass, strays, edits, unsettled, overwritten, beside>>

Stop ==
  /\ watch.closed /\ At(Watcher, "idle")
  /\ watch' = NoWatch
  /\ UNCHANGED <<tree, checkpoint, server, pass, strays, history>>

-----------------------------------------------------------------------------
(* The world around *)

\* A save: a key appears, changes its text, or disappears, maybe with the last
\* of the source files.
Edit(k, t) ==
  /\ edits < MaxEdits /\ code[k] # t
  /\ code' = [code EXCEPT ![k] = t]
  /\ bare' \in {FALSE, code' = Nothing}
  /\ edits' = edits + 1
  /\ LET seen == watch.on /\ ~watch.closed
     IN  /\ watch' = [watch EXCEPT !.timer = @ \/ seen]
         /\ unscanned' = (unscanned \/ seen)
  /\ UNCHANGED <<checkpoint, server, pass, strays, unsettled, overwritten, beside>>

\* A process is killed, between its steps ...
Kill(p) ==
  /\ Running(p)
  /\ pass' = [pass EXCEPT ![p] = NoPass]
  /\ watch' = IF p = Watcher THEN NoWatch ELSE watch
  /\ unscanned' = (unscanned /\ p # Watcher)
  /\ Abandon(p)
  /\ UNCHANGED <<tree, checkpoint, server, edits, unsettled, overwritten, beside>>

\* ... or while it writes the checkpoint, which is unreadable then and read
\* as an empty one.
KillWriting(p) ==
  /\ \/ At(p, "uploading") \/ (p \in Plain /\ At(p, "ready"))
     \/ At(p, "removing") /\ pass[p].unreported = {}
  /\ checkpoint' = Nothing
  /\ pass' = [q \in Processes |-> IF q = p THEN NoPass ELSE [pass[q] EXCEPT !.alone = FALSE]]
  /\ watch' = IF p = Watcher THEN NoWatch ELSE watch
  /\ unscanned' = (unscanned /\ p # Watcher)
  /\ Abandon(p)
  /\ UNCHANGED <<tree, server, edits, unsettled, overwritten, beside>>

-----------------------------------------------------------------------------
Init ==
  /\ code \in Tables
  /\ bare \in {FALSE, code = Nothing}
  /\ checkpoint = Nothing /\ server = Nothing
  /\ pass = [p \in Processes |-> NoPass]
  /\ watch = NoWatch
  /\ strays = {}
  /\ edits = 0 /\ unscanned = FALSE /\ unsettled = {} /\ overwritten = {} /\ beside = 0

\* What a process does without anyone's help: requests end, with an answer or
\* a failure.
Step(p) ==
  NextChunk(p) \/ Retry(p) \/ Answer(p) \/ Fails(p) \/ ReportRemoved(p) \/ RemovedAnswered(p)
    \/ RemovedFails(p) \/ Finish(p)

Next ==
  \/ \E p \in Plain : (\E scope \in SUBSET Keys : Sync(p, scope)) \/ Abort(p) \/ Exit(p)
  \/ \E p \in Processes : Step(p) \/ (\E k \in Keys : Apply(p, k)) \/ Kill(p) \/ KillWriting(p)
  \/ Launch \/ Trigger \/ PassEnds \/ Close \/ Stop
  \/ \E k \in Keys, t \in Texts \cup {None} : Edit(k, t) \/ Stray(k, t)

Spec == Init /\ [][Next]_vars

-----------------------------------------------------------------------------
(* Properties *)

\* Every variable has its type.
TypeOK ==
  /\ code \in Tables /\ bare \in BOOLEAN /\ checkpoint \in Tables /\ server \in Tables
  /\ pass \in [Processes -> Passes]
  /\ watch \in WatchStates
  /\ \A p \in Processes : /\ At(p, "ready") => pass[p].queue # {}
                           /\ pass[p].chunk \cap pass[p].queue = {}
  /\ strays \subseteq Keys \X (Texts \cup {None}) /\ overwritten \subseteq Keys
  /\ edits \in Nat /\ unscanned \in BOOLEAN /\ unsettled \subseteq Keys /\ beside \in Nat

\* sync-command.ts:89: a pass that ends well, and had no other beside it,
\* leaves each key it found on the server with the text it found, and each key
\* it missed gone, unless the scan was of part of the tree or found no files;
\* and the checkpoint says the same.  It says so of every key whose entry was
\* right, or differed from the code, when it began, whatever passes before it
\* failed, were aborted or were killed - but the server's part not of a key
\* that an abandoned handler stored again after the pass had told of it.
DoneIsExact ==
  \A p \in Processes :
    At(p, "done") /\ pass[p].alone =>
      \A k \in pass[p].sure :
        pass[p].scan[k] # None \/ pass[p].deprecates =>
          /\ checkpoint[k] = pass[p].scan[k]
          /\ server[k] = pass[p].scan[k] \/ k \in overwritten

\* sync-batch.ts:12: as long as no two passes run at once, the checkpoint
\* claims of a key what the server was told last, except a key the server has
\* been told of since, by a request whose outcome was never recorded or by the
\* handler of one.
ClaimsAreTold ==
  ~Overlapped => \A k \in Keys : checkpoint[k] \in {None, server[k]} \/ k \in unsettled

\* README.md:64 of the CLI, "Completed keys are remembered": with no two passes
\* at once, no step but a kill in the middle of a write forgets a key that is
\* recorded as the server has it, and not by the doing of an abandoned handler.
ProgressKept ==
  [][~Overlapped' /\ ~(\E p \in Processes : KillWriting(p)) =>
       \A k \in Keys \ overwritten :
         checkpoint[k] # None /\ checkpoint[k] = server[k] => checkpoint'[k] = checkpoint[k]]_vars

\* sync-watch.ts:33, "Saves that land while a sync is in flight queue one more
\* pass": a save the watcher has seen and not scanned is covered by a timer, or
\* by a pass that is queued behind the one under way, also when that one fails.
SavesAreCovered == unscanned => watch.timer \/ (watch.queued /\ Running(Watcher))
=============================================================================
