--------------------------- MODULE CliSync_proofs ---------------------------
(* What a pass of keykit sync leaves behind, for any keys, texts, processes *)
(* and chunk size.  A pass that no other has run beside is the only one to  *)
(* write, so the checkpoint is what it holds in memory and each key is      *)
(* queued, in its request, or settled (Told); and as long as no two passes  *)
(* have run at once, every pass is such a one (Covered).                    *)
EXTENDS CliSync, TLAPS

USE DEF Overlapped

\* What a pass holds in its phases.
Shape(p) ==
  LET s == pass[p]
  IN  /\ \A k \in s.queue \cup s.chunk : s.scan[k] # None
      /\ \A k \in s.removed : s.scan[k] = None
      /\ s.unreported \subseteq s.removed /\ s.gone \subseteq s.removed
      /\ s.chunk \cap s.queue = {}
      /\ s.left \subseteq s.chunk \cup s.gone
      /\ s.pc = "ready" => s.queue # {}
      /\ s.pc # "uploading" => s.chunk = {}
      /\ s.pc \notin {"uploading", "reporting"} => s.gone = {}
      /\ s.pc \notin {"ready", "uploading"} => s.queue = {}
      /\ s.pc \in {"idle", "done", "failed"} => s.removed = {}

Typed ==
  /\ code \in Tables /\ bare \in BOOLEAN /\ checkpoint \in Tables /\ server \in Tables
  /\ strays \subseteq Keys \X (Texts \cup {None}) /\ overwritten \subseteq Keys
  /\ pass \in [Processes -> Passes]
  /\ watch \in WatchStates
  /\ edits \in Nat /\ unscanned \in BOOLEAN /\ unsettled \subseteq Keys /\ beside \in Nat
  /\ \A p \in Processes : Shape(p)

Going(p) == pass[p].pc \notin {"idle", "failed"}
Working(p) == pass[p].pc \in {"ready", "uploading", "removing", "reporting"}

Alone == \A p \in Processes : pass[p].alone => \A q \in Processes \ {p} : ~Running(q)

Covered ==
  ~Overlapped => /\ \A p, q \in Processes : Running(p) /\ Running(q) => p = q
                 /\ \A p \in Processes : Going(p) => pass[p].alone

\* The server holds of k what t says, or what an abandoned handler stored since.
Holds(k, t) == server[k] = t \/ k \in overwritten

Told(p) ==
  LET s == pass[p]
  IN  /\ Working(p) => s.synced = checkpoint
      /\ \A k \in s.chunk \ s.left : /\ Holds(k, s.scan[k])
                                     /\ server[k] = s.scan[k] \/ k \in unsettled
      /\ \A k \in s.gone \ s.left : Holds(k, None)
      /\ \A k \in s.removed : k \in s.unreported \cup s.gone \/ Holds(k, None)
      /\ \A k \in s.sure :
           /\ s.scan[k] # None => \/ k \in s.queue \cup s.chunk
                                  \/ checkpoint[k] = s.scan[k] /\ Holds(k, s.scan[k])
           /\ s.scan[k] = None /\ s.deprecates => \/ k \in s.removed
                                                  \/ checkpoint[k] = None /\ Holds(k, None)

Tells == \A p \in Processes : pass[p].alone /\ Going(p) => Told(p)

Saves == /\ SavesAreCovered
         /\ watch.closed => ~unscanned

IInv == Typed /\ Alone /\ Covered /\ Tells /\ ClaimsAreTold /\ Saves
-----------------------------------------------------------------------------
(* A pass begins *)

LEMMA NoPassType ==
  /\ NoPass \in Passes /\ Failed \in Passes
  /\ NoPass.pc = "idle" /\ ~NoPass.alone /\ Failed.pc = "failed" /\ ~Failed.alone
  /\ \A s \in {NoPass, Failed} : /\ s.queue = {} /\ s.chunk = {} /\ s.removed = {}
                                 /\ s.unreported = {} /\ s.gone = {} /\ s.left = {}
<1>1. Nothing \in Tables BY DEF Nothing, Tables
<1>2. /\ NoPass \in Passes /\ NoPass.pc = "idle" /\ ~NoPass.alone /\ NoPass.queue = {} /\ NoPass.chunk = {}
      /\ NoPass.removed = {} /\ NoPass.unreported = {} /\ NoPass.gone = {} /\ NoPass.left = {}
      BY <1>1 DEF NoPass, Passes
<1>3. /\ Failed \in Passes /\ Failed.pc = "failed" /\ ~Failed.alone /\ Failed.queue = {} /\ Failed.chunk = {}
      /\ Failed.removed = {} /\ Failed.unreported = {} /\ Failed.gone = {} /\ Failed.left = {}
      BY <1>1 DEF Failed, NoPass, Passes
<1> QED BY <1>2, <1>3

\* What a pass of p is like when it begins.
Fresh(s, p) ==
  /\ s \in Passes
  /\ s.pc \in {"ready", "removing", "done"} /\ s.chunk = {} /\ s.gone = {} /\ s.left = {}
  /\ s.unreported = s.removed
  /\ s.alone <=> \A q \in Processes \ {p} : ~Running(q)
  /\ s.pc = "ready" <=> s.queue # {}
  /\ s.pc = "done" => s.removed = {}
  /\ s.pc # "done" => s.synced = checkpoint
  /\ \A k \in Keys :
       /\ k \in s.queue <=> s.scan[k] # None /\ checkpoint[k] # s.scan[k]
       /\ k \in s.removed => s.scan[k] = None
       /\ s.deprecates /\ checkpoint[k] # None /\ s.scan[k] = None => k \in s.removed
       /\ k \in s.sure => checkpoint[k] # s.scan[k] \/ checkpoint[k] = server[k]

LEMMA StartedType ==
  ASSUME Typed, NEW p \in Processes, NEW scope \in SUBSET Keys, NEW deprecates \in BOOLEAN
  PROVE  Fresh(Started(p, scope, deprecates), p)
<1> DEFINE s == Started(p, scope, deprecates)
           scan == [k \in Keys |-> IF k \in scope THEN code[k] ELSE None]
           queued == {k \in Keys : scan[k] # None /\ checkpoint[k] # scan[k]}
           removed == {k \in Keys : Missing(k, scan, scope, deprecates)}
           sure == {k \in Keys : checkpoint[k] # scan[k] \/ checkpoint[k] = server[k]}
           synced == IF queued \cup removed # {} THEN checkpoint ELSE Nothing
           alone == \A q \in Processes \ {p} : ~Running(q)
           first == queued # {}
           pc == IF queued # {} THEN "ready" ELSE IF removed # {} THEN "removing" ELSE "done"
           says == deprecates /\ scope = Keys /\ ~bare
<1>1. Nothing \in Tables /\ scan \in Tables /\ synced \in Tables
      BY DEF Typed, Nothing, Tables
<1>2. queued \subseteq Keys /\ removed \subseteq Keys /\ sure \subseteq Keys
      OBVIOUS
<1>3. alone \in BOOLEAN /\ first \in BOOLEAN /\ says \in BOOLEAN
      OBVIOUS
<1>4. /\ pc \in {"ready", "removing", "done"}
      /\ pc = "ready" <=> queued # {}
      /\ pc = "done" => queued = {} /\ removed = {}
      /\ pc # "done" => queued \cup removed # {}
      OBVIOUS
<1>5. s = [NoPass EXCEPT !.pc = pc, !.deprecates = says, !.scan = scan, !.synced = synced,
             !.queue = queued, !.removed = removed, !.unreported = removed, !.first = first,
             !.sure = sure, !.alone = alone]
      BY DEF Started
<1>6. \A k \in Keys : /\ k \in removed => scan[k] = None
                      /\ says /\ checkpoint[k] # None /\ scan[k] = None => k \in removed
                      /\ k \in queued <=> scan[k] # None /\ checkpoint[k] # scan[k]
                      /\ k \in sure => checkpoint[k] # scan[k] \/ checkpoint[k] = server[k]
      BY DEF Missing
<1>7. pc # "done" => synced = checkpoint
      BY <1>4
<1> HIDE DEF s, scan, queued, removed, sure, synced, alone, first, pc, says
<1>8. s = [pc |-> pc, deprecates |-> says, scan |-> scan, synced |-> synced, queue |-> queued,
           removed |-> removed, unreported |-> removed, first |-> first, chunk |-> {}, gone |-> {},
           left |-> {}, sure |-> sure, alone |-> alone]
      BY <1>5 DEF NoPass
<1>9. s \in Passes
      BY <1>1, <1>2, <1>3, <1>4, <1>8 DEF Passes
<1>10. s.alone <=> \A q \in Processes \ {p} : ~Running(q)
      BY <1>8 DEF alone
<1>11. Fresh(s, p)
      BY <1>4, <1>6, <1>7, <1>8, <1>9, <1>10 DEF Fresh
<1> QED BY <1>11 DEF s

LEMMA BeginKeeps ==
  ASSUME IInv, NEW p \in Processes, NEW scope \in SUBSET Keys, NEW deprecates \in BOOLEAN,
         ~Running(p) \/ pass[p].pc \in {"done", "failed"}, Begin(p, scope, deprecates),
         UNCHANGED <<tree, checkpoint, server, strays, unsettled>>
  PROVE  /\ pass' \in [Processes -> Passes] /\ beside' \in Nat /\ overwritten' = {}
         /\ \A q \in Processes : Shape(q)'
         /\ Running(p)'
         /\ Alone' /\ Covered' /\ Tells' /\ ClaimsAreTold'
<1> DEFINE s == Started(p, scope, deprecates)
<1>1. /\ pass' = [q \in Processes |-> IF q = p THEN s ELSE [pass[q] EXCEPT !.alone = FALSE]]
      /\ beside' = IF \E q \in Processes \ {p} : Running(q) THEN beside + 1 ELSE beside
      /\ overwritten' = {}
      BY DEF Begin
<1> HIDE DEF s
<1>2. /\ s \in Passes
      /\ s.pc \in {"ready", "removing", "done"} /\ s.chunk = {} /\ s.gone = {} /\ s.left = {}
      /\ s.unreported = s.removed
      /\ s.alone <=> \A q \in Processes \ {p} : ~Running(q)
      /\ s.pc = "ready" <=> s.queue # {}
      /\ s.pc = "done" => s.removed = {}
      /\ s.pc # "done" => s.synced = checkpoint
      /\ \A k \in Keys :
           /\ k \in s.queue <=> s.scan[k] # None /\ checkpoint[k] # s.scan[k]
           /\ k \in s.removed => s.scan[k] = None
           /\ s.deprecates /\ checkpoint[k] # None /\ s.scan[k] = None => k \in s.removed
           /\ k \in s.sure => checkpoint[k] # s.scan[k] \/ checkpoint[k] = server[k]
  <2>1. Fresh(s, p) BY StartedType DEF s, IInv
  <2> QED BY <2>1 DEF Fresh
<1>3. /\ s.queue \subseteq Keys /\ s.removed \subseteq Keys /\ s.sure \subseteq Keys
      BY <1>2 DEF Passes
<1>4. ASSUME NEW q \in Processes, q # p
      PROVE  /\ pass'[q] = [pass[q] EXCEPT !.alone = FALSE] /\ pass'[q] \in Passes /\ ~pass'[q].alone
             /\ pass'[q].pc = pass[q].pc /\ pass'[q].scan = pass[q].scan /\ pass'[q].queue = pass[q].queue
             /\ pass'[q].chunk = pass[q].chunk /\ pass'[q].removed = pass[q].removed
             /\ pass'[q].unreported = pass[q].unreported /\ pass'[q].gone = pass[q].gone
             /\ pass'[q].left = pass[q].left
  <2>1. pass[q] \in Passes BY DEF IInv, Typed
  <2>2. pass'[q] = [pass[q] EXCEPT !.alone = FALSE] BY <1>1, <1>4
  <2> QED BY <2>1, <2>2 DEF Passes
<1>5. pass'[p] = s
      BY <1>1
<1>6. pass' \in [Processes -> Passes]
  <2>1. \A q \in Processes : (IF q = p THEN s ELSE [pass[q] EXCEPT !.alone = FALSE]) \in Passes
        BY <1>1, <1>2, <1>4, <1>5
  <2> QED BY <1>1, <2>1
<1>7. Shape(p)'
      BY <1>2, <1>3, <1>5 DEF Shape
<1>8. ASSUME NEW q \in Processes, q # p PROVE Shape(q)'
  <2>1. Shape(q) BY DEF IInv, Typed
  <2> QED BY <1>4, <1>8, <2>1 DEF Shape
<1>9. Running(p)' /\ \A q \in Processes : q # p => (Running(q)' <=> Running(q))
      BY <1>2, <1>4, <1>5 DEF Running, At
<1>10. Alone'
      BY <1>2, <1>4, <1>5, <1>9 DEF Alone
<1>16. beside \in Nat BY DEF IInv, Typed
<1>17. /\ beside' \in Nat
       /\ ~Overlapped' => ~Overlapped /\ \A q \in Processes \ {p} : ~Running(q)
  <2> DEFINE company == \E q \in Processes \ {p} : Running(q)
  <2>1. CASE company
        BY <1>1, <1>16, <2>1
  <2>2. CASE ~company
        BY <1>1, <1>16, <2>2
  <2> QED BY <2>1, <2>2
<1>11. ~Overlapped' => \A q \in Processes : q # p => ~Running(q)' /\ ~Going(q)'
      BY <1>9, <1>17 DEF Running, Going, At
<1>12. Covered'
  <2> SUFFICES ASSUME ~Overlapped'
               PROVE  /\ \A q, r \in Processes : Running(q)' /\ Running(r)' => q = r
                      /\ \A q \in Processes : Going(q)' => pass'[q].alone
      BY DEF Covered
  <2>1. s.alone BY <1>2, <1>9, <1>11
  <2> QED BY <1>5, <1>11, <2>1
<1>13. ASSUME s.alone PROVE Told(p)'
  <2>1. Working(p)' => pass'[p].synced = checkpoint'
        BY <1>2, <1>5 DEF Working
  <2>2. s.chunk = {} /\ s.gone = {} /\ \A k \in s.removed : k \in s.unreported \cup s.gone
        BY <1>2
  <2>3. ASSUME NEW k \in s.sure
        PROVE  /\ s.scan[k] # None => \/ k \in s.queue \cup s.chunk
                                      \/ checkpoint'[k] = s.scan[k] /\ server'[k] = s.scan[k]
               /\ s.scan[k] = None /\ s.deprecates => \/ k \in s.removed
                                                      \/ checkpoint'[k] = None /\ server'[k] = None
        BY <1>2, <1>3
  <2> QED BY <1>5, <2>1, <2>2, <2>3 DEF Told, Holds
<1>14. Tells'
      BY <1>4, <1>5, <1>13 DEF Tells
<1>15. ClaimsAreTold'
      BY <1>17 DEF IInv, ClaimsAreTold
<1> QED BY <1>1, <1>17, <1>6, <1>7, <1>8, <1>9, <1>10, <1>12, <1>14, <1>15 DEF IInv, Typed, tree
-----------------------------------------------------------------------------
(* A step of one process *)

\* It concerns no other pass; of those that no other runs beside, only itself.
LEMMA StepKeeps ==
  ASSUME IInv, NEW p \in Processes, Running(p), NEW local \in Passes,
         pass' = [pass EXCEPT ![p] = local], beside' = beside,
         local.pc \notin {"idle", "failed"} => Going(p) /\ local.alone = pass[p].alone,
         local.pc \in {"idle", "failed"} => ~local.alone
  PROVE  /\ pass' \in [Processes -> Passes] /\ pass'[p] = local
         /\ \A q \in Processes : q # p => pass'[q] = pass[q] /\ Shape(q)'
         /\ Alone' /\ Covered'
         /\ (local.alone => Told(p)') => Tells'
         /\ UNCHANGED <<watch, unscanned>> /\ (local.pc # "idle" \/ p # Watcher) => Saves'
<1>1. /\ pass' \in [Processes -> Passes] /\ pass'[p] = local
      /\ \A q \in Processes : q # p => pass'[q] = pass[q]
      BY DEF IInv, Typed
<1>2. \A q \in Processes : q # p => Shape(q)'
  <2> SUFFICES ASSUME NEW q \in Processes, q # p PROVE Shape(q)'
      OBVIOUS
  <2>1. Shape(q) /\ pass'[q] = pass[q] BY <1>1 DEF IInv, Typed
  <2> QED BY <2>1 DEF Shape
<1>3. \A q \in Processes : q # p => ~pass[q].alone /\ (Running(q)' <=> Running(q)) /\ (Going(q)' <=> Going(q))
      BY <1>1 DEF IInv, Alone, Running, Going, At
<1>4. local.alone => pass[p].alone
      OBVIOUS
<1>5. Alone'
      BY <1>1, <1>3, <1>4 DEF IInv, Alone
<1>6. Going(p)' => Going(p) /\ pass'[p].alone = pass[p].alone
      BY <1>1 DEF Going
<1>7. Covered'
      BY <1>1, <1>3, <1>6 DEF IInv, Covered
<1>8. (local.alone => Told(p)') => Tells'
      BY <1>1, <1>3 DEF Tells
<1>9. ASSUME UNCHANGED <<watch, unscanned>>, local.pc # "idle" \/ p # Watcher
      PROVE  Saves'
  <2>1. Watcher \in Processes BY DEF Processes
  <2>2. Running(Watcher)' <=> Running(Watcher)
        BY <1>1, <1>3, <1>9, <2>1 DEF Running, At
  <2> QED BY <1>9, <2>2 DEF IInv, Saves, SavesAreCovered
<1> QED BY <1>1, <1>2, <1>5, <1>7, <1>8, <1>9

\* What is told a process when it writes: no two passes have run at once.
LEMMA NobodyElse ==
  ASSUME IInv, NEW p \in Processes, Going(p), ~Overlapped
  PROVE  pass[p].alone /\ Told(p)
BY DEF IInv, Covered, Tells

LEMMA NextChunkKeeps ==
  ASSUME IInv, NEW p \in Processes, NextChunk(p)
  PROVE  IInv'
<1>1. PICK chunk \in Chunks(pass[p].queue),
           gone \in IF pass[p].first THEN Chunks(pass[p].removed) ELSE {{}} :
       pass' = [pass EXCEPT ![p].pc = "uploading", ![p].chunk = chunk, ![p].gone = gone,
                            ![p].left = chunk \cup gone, ![p].first = FALSE,
                            ![p].queue = @ \ chunk, ![p].unreported = @ \ gone]
      BY DEF NextChunk
<1> DEFINE s == pass[p]
           local == [s EXCEPT !.pc = "uploading", !.chunk = chunk, !.gone = gone,
                            !.left = chunk \cup gone, !.first = FALSE,
                            !.queue = s.queue \ chunk, !.unreported = s.unreported \ gone]
<1>2. s \in Passes /\ s.pc = "ready" /\ Running(p) /\ Going(p) /\ Shape(p) /\ pass \in [Processes -> Passes]
      BY DEF IInv, Typed, NextChunk, At, Running, Going
<1>3. chunk \subseteq s.queue /\ gone \subseteq s.removed
      BY DEF Chunks
<1>4. pass' = [pass EXCEPT ![p] = local]
      BY <1>1, <1>2
<1>5. s.queue \subseteq Keys /\ s.removed \subseteq Keys /\ s.unreported \subseteq Keys
      BY <1>2 DEF Passes
<1>6. /\ local \in Passes /\ local.pc = "uploading" /\ local.chunk = chunk /\ local.gone = gone
      /\ local.left = chunk \cup gone /\ local.queue = s.queue \ chunk /\ local.unreported = s.unreported \ gone
      /\ local.removed = s.removed /\ local.scan = s.scan /\ local.synced = s.synced
      /\ local.sure = s.sure /\ local.deprecates = s.deprecates /\ local.alone = s.alone
      BY <1>2, <1>3, <1>5 DEF Passes
<1> HIDE DEF local
<1>7. /\ pass' \in [Processes -> Passes] /\ pass'[p] = local
      /\ \A q \in Processes : q # p => Shape(q)'
      /\ Alone' /\ Covered'
      /\ ((local.alone => Told(p)') => Tells') /\ Saves'
      BY <1>2, <1>4, <1>6, StepKeeps DEF NextChunk, history
<1>8. Shape(p)'
  <2>1. s.unreported \subseteq s.removed /\ (\A k \in s.queue : s.scan[k] # None) /\ (\A k \in s.removed : s.scan[k] = None)
        BY <1>2 DEF Shape
  <2> QED BY <1>3, <1>6, <1>7, <2>1 DEF Shape
<1>9. ASSUME s.alone PROVE Told(p)'
  <2>1. Told(p) BY <1>2, <1>9 DEF IInv, Tells
  <2>2. s.synced = checkpoint BY <1>2, <2>1 DEF Told, Working
  <2>3. \A k \in s.removed : k \in s.unreported \cup gone \/ Holds(k, None)
        BY <1>2, <2>1 DEF Told, Shape
  <2>4. s.chunk = {} BY <1>2 DEF Shape
  <2>5. checkpoint' = checkpoint /\ \A k, t : Holds(k, t)' <=> Holds(k, t)
        BY DEF NextChunk, Holds, history
  <2>6. \A k \in s.sure :
           /\ s.scan[k] # None => \/ k \in s.queue
                                  \/ checkpoint[k] = s.scan[k] /\ Holds(k, s.scan[k])
           /\ s.scan[k] = None /\ s.deprecates => \/ k \in s.removed
                                                  \/ checkpoint[k] = None /\ Holds(k, None)
        BY <2>1, <2>4 DEF Told
  <2> QED BY <1>3, <1>6, <1>7, <2>2, <2>3, <2>5, <2>6 DEF Told
<1>10. Typed'
      BY <1>7, <1>8 DEF IInv, Typed, NextChunk, history, tree
<1>11. ClaimsAreTold'
      BY DEF IInv, ClaimsAreTold, NextChunk, history
<1> QED BY <1>6, <1>7, <1>9, <1>10, <1>11 DEF IInv
LEMMA ApplyKeeps ==
  ASSUME IInv, NEW p \in Processes, NEW k \in Keys, Apply(p, k)
  PROVE  IInv'
<1> DEFINE s == pass[p]
           local == [s EXCEPT !.left = s.left \ {k}]
           Has(l, t) == server'[l] = t \/ l \in overwritten'
<1>1. /\ s \in Passes /\ s.pc \in {"uploading", "reporting"} /\ Running(p) /\ Going(p) /\ Working(p)
      /\ Shape(p) /\ pass \in [Processes -> Passes] /\ k \in s.left
      BY DEF IInv, Typed, Apply, Requesting, At, Running, Going, Working
<1>2. pass' = [pass EXCEPT ![p] = local]
      BY <1>1 DEF Apply
<1>3. s.chunk \subseteq Keys /\ s.gone \subseteq Keys /\ s.scan \in Tables /\ server \in Tables
      BY <1>1 DEF Passes, IInv, Typed
<1>4. /\ local \in Passes /\ local.pc = s.pc /\ local.chunk = s.chunk /\ local.gone = s.gone
      /\ local.left = s.left \ {k} /\ local.queue = s.queue /\ local.unreported = s.unreported
      /\ local.removed = s.removed /\ local.scan = s.scan /\ local.synced = s.synced
      /\ local.sure = s.sure /\ local.deprecates = s.deprecates /\ local.alone = s.alone
      BY <1>1 DEF Passes
<1> HIDE DEF local
<1>5. /\ pass' \in [Processes -> Passes] /\ pass'[p] = local
      /\ \A q \in Processes : q # p => Shape(q)'
      /\ Alone' /\ Covered'
      /\ ((local.alone => Told(p)') => Tells') /\ Saves'
      BY <1>1, <1>2, <1>4, StepKeeps DEF Apply
<1>6. /\ server' \in Tables /\ server'[k] = (IF k \in s.chunk THEN s.scan[k] ELSE None)
      /\ \A l \in Keys \ {k} : server'[l] = server[l]
      /\ unsettled' = unsettled \cup {k} /\ overwritten' = overwritten \ {k}
      /\ checkpoint' = checkpoint
      BY <1>3 DEF Apply, Sent, Tables, IInv, Typed
<1>7. /\ \A l \in s.chunk : s.scan[l] # None
      /\ s.removed \subseteq Keys /\ s.sure \subseteq Keys /\ s.gone \subseteq s.removed
      /\ \A l \in s.gone \cup s.removed : l \notin s.chunk /\ s.scan[l] = None
      /\ k \in s.chunk \cup s.gone
      BY <1>1 DEF Shape, Passes
<1>8. Shape(p)'
      BY <1>1, <1>4, <1>5 DEF Shape
<1>9. ASSUME s.alone PROVE Told(p)'
  <2>1. Told(p) BY <1>1, <1>9 DEF IInv, Tells
  <2>2. Working(p)' => s.synced = checkpoint BY <1>1, <2>1 DEF Told
  <2>3. \A l \in Keys \ {k} : \A t : Holds(l, t) => Has(l, t)
        BY <1>6 DEF Holds
  <2>4. /\ \A l \in s.chunk \ (s.left \ {k}) : /\ Has(l, s.scan[l])
                                               /\ server'[l] = s.scan[l] \/ l \in unsettled'
        /\ \A l \in s.gone \ (s.left \ {k}) : Has(l, None)
    <3>1. k \in s.chunk => server'[k] = s.scan[k] BY <1>6
    <3>2. k \in s.gone => server'[k] = None BY <1>6, <1>7
    <3>3. ASSUME NEW l \in s.chunk \ (s.left \ {k}), l # k
          PROVE  Has(l, s.scan[l]) /\ (server'[l] = s.scan[l] \/ l \in unsettled')
      <4>1. l \in Keys \ {k} /\ l \in s.chunk \ s.left BY <1>3, <3>3
      <4>2. Holds(l, s.scan[l]) /\ (server[l] = s.scan[l] \/ l \in unsettled) BY <2>1, <4>1 DEF Told
      <4> QED BY <1>6, <2>3, <4>1, <4>2
    <3>4. ASSUME NEW l \in s.gone \ (s.left \ {k}), l # k PROVE Has(l, None)
      <4>1. l \in Keys \ {k} /\ l \in s.gone \ s.left BY <1>3, <3>4
      <4> QED BY <2>1, <2>3, <4>1 DEF Told
    <3> QED BY <3>1, <3>2, <3>3, <3>4
  <2>5. \A l \in s.removed : l \in s.unreported \cup s.gone \/ Has(l, None)
        BY <1>7, <2>1, <2>3 DEF Told
  <2>6. ASSUME NEW l \in s.sure
        PROVE  /\ s.scan[l] # None => \/ l \in s.queue \cup s.chunk
                                      \/ checkpoint[l] = s.scan[l] /\ Has(l, s.scan[l])
               /\ s.scan[l] = None /\ s.deprecates => \/ l \in s.removed
                                                      \/ checkpoint[l] = None /\ Has(l, None)
    <3>1. CASE l = k BY <3>1, <1>7
    <3>2. CASE l # k
      <4>1. l \in Keys \ {k} BY <3>2, <1>7
      <4> QED BY <4>1, <2>1, <2>3 DEF Told
    <3> QED BY <3>1, <3>2
  <2> QED BY <1>4, <1>5, <1>6, <2>2, <2>4, <2>5, <2>6 DEF Told, Holds
<1>10. Typed'
      BY <1>5, <1>6, <1>8 DEF IInv, Typed, Apply, tree
<1>11. ClaimsAreTold'
      BY <1>6 DEF IInv, ClaimsAreTold, Apply
<1> QED BY <1>4, <1>5, <1>9, <1>10, <1>11 DEF IInv

LEMMA StrayKeeps ==
  ASSUME IInv, NEW k \in Keys, NEW t \in Texts \cup {None}, Stray(k, t)
  PROVE  IInv'
<1>1. /\ server' \in Tables /\ \A l \in Keys \ {k} : server'[l] = server[l]
      /\ unsettled' = unsettled \cup {k} /\ overwritten' = overwritten \cup {k}
      /\ UNCHANGED <<code, bare, checkpoint, pass, watch, strays, edits, unscanned, beside>>
      BY DEF Stray, Tables, IInv, Typed, tree
<1>2. \A l \in Keys : \A u : Holds(l, u) => Holds(l, u)'
      BY <1>1 DEF Holds
<1>3. Alone' /\ Covered' /\ Saves' /\ ClaimsAreTold'
      BY <1>1 DEF IInv, Alone, Covered, Saves, SavesAreCovered, ClaimsAreTold, Running, Going, At
<1>4. ASSUME NEW p \in Processes PROVE Shape(p)'
  <2>1. Shape(p) BY DEF IInv, Typed
  <2> QED BY <1>1, <2>1 DEF Shape
<1>5. Typed'
      BY <1>1, <1>4 DEF IInv, Typed
<1>6. ASSUME NEW p \in Processes, pass[p].alone, Going(p) PROVE Told(p)'
  <2>1. Told(p) BY <1>6 DEF IInv, Tells
  <2>2. /\ pass[p].chunk \subseteq Keys /\ pass[p].gone \subseteq Keys
        /\ pass[p].removed \subseteq Keys /\ pass[p].sure \subseteq Keys
        BY DEF IInv, Typed, Passes
  <2>3. Working(p)' <=> Working(p) BY <1>1 DEF Working
  <2> QED BY <1>1, <1>2, <2>1, <2>2, <2>3 DEF Told
<1>7. Tells'
      BY <1>1, <1>6 DEF Tells, Going
<1> QED BY <1>3, <1>5, <1>7 DEF IInv

\* What an abandoned handler may still store.
LEMMA AbandonType ==
  ASSUME Typed, NEW p \in Processes, Abandon(p)
  PROVE  strays' \subseteq Keys \X (Texts \cup {None})
<1>1. /\ pass[p].left \subseteq Keys /\ pass[p].scan \in Tables
      BY DEF Typed, Passes
<1>2. \A k \in pass[p].left : Sent(p, k) \in Texts \cup {None}
      BY <1>1 DEF Sent, Tables
<1>3. PICK rest \in SUBSET pass[p].left : strays' = strays \cup {<<k, Sent(p, k)>> : k \in rest}
      BY DEF Abandon
<1>4. {<<k, Sent(p, k)>> : k \in rest} \subseteq Keys \X (Texts \cup {None})
      BY <1>1, <1>2
<1> QED BY <1>3, <1>4 DEF Typed

LEMMA RetryKeeps ==
  ASSUME IInv, NEW p \in Processes, Retry(p)
  PROVE  IInv'
<1> DEFINE s == pass[p]
           local == [s EXCEPT !.left = s.chunk \cup s.gone]
<1>1. /\ s \in Passes /\ Running(p) /\ Going(p) /\ Working(p) /\ Shape(p) /\ pass \in [Processes -> Passes]
      BY DEF IInv, Typed, Retry, Requesting, At, Running, Going, Working
<1>2. /\ pass' = [pass EXCEPT ![p] = local]
      /\ UNCHANGED <<code, bare, checkpoint, server, watch, edits, unscanned, unsettled, overwritten, beside>>
      BY <1>1 DEF Retry, tree, history
<1>3. /\ local \in Passes /\ local.pc = s.pc /\ local.chunk = s.chunk /\ local.gone = s.gone
      /\ local.left = s.chunk \cup s.gone /\ local.queue = s.queue /\ local.unreported = s.unreported
      /\ local.removed = s.removed /\ local.scan = s.scan /\ local.synced = s.synced
      /\ local.sure = s.sure /\ local.deprecates = s.deprecates /\ local.alone = s.alone
      BY <1>1 DEF Passes
<1> HIDE DEF local
<1>4. local.pc \notin {"idle", "failed"}
      BY <1>1, <1>3 DEF Going
<1>5. /\ pass' \in [Processes -> Passes] /\ pass'[p] = local
      /\ \A q \in Processes : q # p => Shape(q)'
      /\ Alone' /\ Covered'
      /\ ((local.alone => Told(p)') => Tells') /\ Saves'
      BY <1>1, <1>2, <1>3, <1>4, StepKeeps
<1>6. Shape(p)'
      BY <1>1, <1>3, <1>5 DEF Shape
<1>7. ASSUME s.alone PROVE Told(p)'
  <2>1. Told(p) BY <1>1, <1>7 DEF IInv, Tells
  <2>2. \A k, t : Holds(k, t)' <=> Holds(k, t) BY <1>2 DEF Holds
  <2> QED BY <1>1, <1>2, <1>3, <1>5, <2>1, <2>2 DEF Told
<1>8. Typed'
  <2>1. strays' \subseteq Keys \X (Texts \cup {None}) BY AbandonType DEF IInv, Retry
  <2> QED BY <1>2, <1>5, <1>6, <2>1 DEF IInv, Typed
<1>9. ClaimsAreTold'
      BY <1>2 DEF IInv, ClaimsAreTold
<1> QED BY <1>3, <1>5, <1>7, <1>8, <1>9 DEF IInv

\* What is written is right of each key, or the key is not settled.
LEMMA WriteKeeps ==
  ASSUME NEW table, WriteCheckpoint(table), server' = server, beside' = beside,
         ~Overlapped => \A k \in Keys : table[k] \in {None, server[k]} \/ k \in unsettled
  PROVE  ClaimsAreTold'
BY DEF ClaimsAreTold, WriteCheckpoint

LEMMA RecordedType ==
  ASSUME NEW table \in Tables, NEW texts \in Tables, NEW keys
  PROVE  /\ Recorded(table, keys, texts) \in Tables
         /\ \A k \in Keys : Recorded(table, keys, texts)[k] = IF k \in keys THEN texts[k] ELSE table[k]
BY DEF Recorded, Tables

LEMMA AnswerKeeps ==
  ASSUME IInv, NEW p \in Processes, Answer(p)
  PROVE  /\ IInv'
         /\ ~Overlapped => \A k \in Keys \ overwritten : checkpoint[k] # None /\ checkpoint[k] = server[k] =>
                                             checkpoint'[k] = checkpoint[k]
<1> DEFINE s == pass[p]
           synced == Recorded(s.synced, s.chunk, s.scan)
           pc == IF s.queue # {} THEN "ready" ELSE "removing"
           local == [s EXCEPT !.synced = synced, !.chunk = {}, !.gone = {}, !.pc = pc]
<1>1. /\ s \in Passes /\ s.pc = "uploading" /\ s.left = {} /\ Running(p) /\ Going(p) /\ Working(p)
      /\ Shape(p) /\ pass \in [Processes -> Passes] /\ Requesting(p)
      BY DEF IInv, Typed, Answer, Requesting, At, Running, Going, Working
<1>2. /\ pass' = [pass EXCEPT ![p] = local] /\ WriteCheckpoint(synced)
      /\ UNCHANGED <<code, bare, server, watch, strays, edits, unscanned, overwritten, beside>>
      BY <1>1 DEF Answer, tree
<1>3. /\ s.chunk \subseteq Keys /\ s.removed \subseteq Keys /\ s.sure \subseteq Keys
      /\ s.scan \in Tables /\ s.synced \in Tables
      BY <1>1 DEF Passes
<1>4. synced \in Tables /\ \A k \in Keys : synced[k] = IF k \in s.chunk THEN s.scan[k] ELSE s.synced[k]
      BY <1>3, RecordedType
<1>5. pc \in {"ready", "removing"} /\ (pc = "ready" <=> s.queue # {})
      OBVIOUS
<1> HIDE DEF synced, pc
<1>6. /\ local \in Passes /\ local.pc = pc /\ local.chunk = {} /\ local.gone = {}
      /\ local.left = {} /\ local.queue = s.queue /\ local.unreported = s.unreported
      /\ local.removed = s.removed /\ local.scan = s.scan /\ local.synced = synced
      /\ local.sure = s.sure /\ local.deprecates = s.deprecates /\ local.alone = s.alone
      BY <1>1, <1>4, <1>5 DEF Passes
<1> HIDE DEF local
<1>7. /\ pass' \in [Processes -> Passes] /\ pass'[p] = local
      /\ \A q \in Processes : q # p => Shape(q)'
      /\ Alone' /\ Covered'
      /\ ((local.alone => Told(p)') => Tells') /\ Saves'
      BY <1>1, <1>2, <1>5, <1>6, StepKeeps
<1>8. checkpoint' = synced /\ unsettled' \subseteq Keys /\ server' = server
      BY <1>2 DEF WriteCheckpoint, IInv, Typed
<1>9. Shape(p)'
      BY <1>1, <1>5, <1>6, <1>7 DEF Shape
<1>10. ASSUME s.alone
       PROVE  /\ Told(p) /\ s.synced = checkpoint
              /\ \A k \in s.chunk : /\ Holds(k, s.scan[k])
                                    /\ server[k] = s.scan[k] \/ k \in unsettled
              /\ \A k \in s.gone : Holds(k, None)
       BY <1>1, <1>10 DEF IInv, Tells, Told
<1>11. ASSUME s.alone PROVE Told(p)'
  <2>1. \A k \in s.removed : k \in s.unreported \/ Holds(k, None)
        BY <1>10, <1>11 DEF Told
  <2>2. \A k \in s.removed : s.scan[k] = None /\ k \notin s.chunk
        BY <1>1 DEF Shape
  <2>3. \A k \in s.chunk : s.scan[k] # None
        BY <1>1 DEF Shape
  <2>4. \A k \in s.sure :
           /\ s.scan[k] # None => \/ k \in s.queue
                                  \/ synced[k] = s.scan[k] /\ Holds(k, s.scan[k])
           /\ s.scan[k] = None /\ s.deprecates => \/ k \in s.removed
                                                  \/ synced[k] = None /\ Holds(k, None)
    <3> SUFFICES ASSUME NEW k \in s.sure
                 PROVE  /\ s.scan[k] # None => \/ k \in s.queue
                                               \/ synced[k] = s.scan[k] /\ Holds(k, s.scan[k])
                        /\ s.scan[k] = None /\ s.deprecates => \/ k \in s.removed
                                                               \/ synced[k] = None /\ Holds(k, None)
        OBVIOUS
    <3>1. CASE k \in s.chunk BY <3>1, <1>3, <1>4, <1>10, <1>11, <2>3
    <3>2. CASE k \notin s.chunk BY <3>2, <1>3, <1>4, <1>10, <1>11 DEF Told
    <3> QED BY <3>1, <3>2
  <2>5. \A k, t : Holds(k, t)' <=> Holds(k, t)
        BY <1>2 DEF Holds
  <2> QED BY <1>6, <1>7, <1>8, <2>1, <2>4, <2>5 DEF Told
<1>12. Typed'
      BY <1>2, <1>4, <1>7, <1>8, <1>9 DEF IInv, Typed
<1>13. ~Overlapped => s.alone
      BY <1>1, NobodyElse
<1>14. ClaimsAreTold'
  <2>1. ~Overlapped => \A k \in Keys : synced[k] \in {None, server[k]} \/ k \in unsettled
        BY <1>3, <1>4, <1>10, <1>13 DEF IInv, ClaimsAreTold
  <2> QED BY <1>2, <2>1, WriteKeeps
<1>15. ~Overlapped => \A k \in Keys \ overwritten : checkpoint[k] # None /\ checkpoint[k] = server[k] => checkpoint'[k] = checkpoint[k]
      BY <1>4, <1>8, <1>10, <1>13 DEF Holds
<1> QED BY <1>6, <1>7, <1>11, <1>12, <1>14, <1>15 DEF IInv
-----------------------------------------------------------------------------
(* A pass ends *)

LEMMA EndKeeps ==
  ASSUME IInv, NEW p \in Processes, Running(p), NEW local \in {NoPass, Failed},
         pass' = [pass EXCEPT ![p] = local], beside' = beside
  PROVE  /\ pass' \in [Processes -> Passes] /\ \A q \in Processes : Shape(q)'
         /\ Alone' /\ Covered' /\ Tells'
         /\ UNCHANGED <<watch, unscanned>> /\ (local = Failed \/ p # Watcher) => Saves'
<1>1. /\ local \in Passes /\ local.pc \in {"idle", "failed"} /\ ~local.alone
      /\ local.queue = {} /\ local.chunk = {} /\ local.removed = {} /\ local.unreported = {} /\ local.gone = {}
      /\ local.left = {}
      /\ local = Failed => local.pc # "idle"
      BY NoPassType
<1>2. /\ pass' \in [Processes -> Passes] /\ pass'[p] = local
      /\ \A q \in Processes : q # p => Shape(q)'
      /\ Alone' /\ Covered' /\ Tells'
      /\ UNCHANGED <<watch, unscanned>> /\ (local = Failed \/ p # Watcher) => Saves'
      BY <1>1, StepKeeps
<1>3. Shape(p)'
      BY <1>1, <1>2 DEF Shape
<1> QED BY <1>2, <1>3

\* The progress is written on the way.
LEMMA EndWritingKeeps ==
  ASSUME IInv, NEW p \in Processes, Working(p), WriteCheckpoint(pass[p].synced),
         pass' = [pass EXCEPT ![p] = Failed],
         strays' \subseteq Keys \X (Texts \cup {None}),
         UNCHANGED <<code, bare, server, watch, edits, unscanned, overwritten, beside>>
  PROVE  IInv' /\ (~Overlapped => checkpoint' = checkpoint)
<1>1. Running(p) /\ Going(p) /\ pass[p] \in Passes
      BY DEF Working, Running, Going, At, IInv, Typed
<1>2. pass[p].synced \in Tables
      BY <1>1 DEF Passes
<1>3. /\ pass' \in [Processes -> Passes] /\ \A q \in Processes : Shape(q)'
      /\ Alone' /\ Covered' /\ Tells' /\ Saves'
      BY <1>1, EndKeeps
<1>4. ~Overlapped => pass[p].synced = checkpoint
      BY <1>1, NobodyElse DEF Told
<1>5. checkpoint' = pass[p].synced /\ unsettled' \subseteq Keys
      BY DEF WriteCheckpoint, IInv, Typed
<1>6. ClaimsAreTold'
  <2>1. ~Overlapped => \A k \in Keys : pass[p].synced[k] \in {None, server[k]} \/ k \in unsettled
        BY <1>4 DEF IInv, ClaimsAreTold
  <2> QED BY <2>1, WriteKeeps
<1>7. Typed'
      BY <1>2, <1>3, <1>5 DEF IInv, Typed
<1> QED BY <1>3, <1>4, <1>5, <1>6, <1>7 DEF IInv

LEMMA AbortKeeps ==
  ASSUME IInv, NEW p \in Plain, Abort(p)
  PROVE  IInv' /\ (~Overlapped => checkpoint' = checkpoint)
<1>1. p \in Processes /\ Working(p)
      BY DEF Processes, Abort, Working, At
<1>2. strays' \subseteq Keys \X (Texts \cup {None})
      BY DEF IInv, Typed, Abort
<1> QED BY <1>1, <1>2, EndWritingKeeps DEF Abort, tree

LEMMA FailsKeeps ==
  ASSUME IInv, NEW p \in Processes, Fails(p)
  PROVE  IInv' /\ (~Overlapped => checkpoint' = checkpoint)
<1>1. Working(p)
      BY DEF Fails, Working, At
<1>2. strays' \subseteq Keys \X (Texts \cup {None})
      BY AbandonType DEF IInv, Fails
<1> QED BY <1>1, <1>2, EndWritingKeeps DEF Fails, tree

LEMMA QuietEnd ==
  ASSUME IInv, NEW p \in Processes, Running(p), NEW local \in {NoPass, Failed},
         pass' = [pass EXCEPT ![p] = local], local = Failed \/ p # Watcher,
         strays' \subseteq Keys \X (Texts \cup {None}),
         UNCHANGED <<code, bare, checkpoint, server, watch, history>>
  PROVE  IInv'
<1>1. /\ pass' \in [Processes -> Passes] /\ \A q \in Processes : Shape(q)'
      /\ Alone' /\ Covered' /\ Tells' /\ Saves'
      BY EndKeeps DEF history
<1>2. ClaimsAreTold'
      BY DEF IInv, ClaimsAreTold, history
<1>3. Typed'
      BY <1>1 DEF IInv, Typed, history
<1> QED BY <1>1, <1>2, <1>3 DEF IInv

LEMMA RemovedFailsKeeps ==
  ASSUME IInv, NEW p \in Processes, RemovedFails(p)
  PROVE  IInv'
<1>1. Running(p)
      BY DEF RemovedFails, Running, At
<1>2. strays' \subseteq Keys \X (Texts \cup {None})
      BY AbandonType DEF IInv, RemovedFails
<1> QED BY <1>1, <1>2, QuietEnd DEF RemovedFails, tree

LEMMA ExitKeeps ==
  ASSUME IInv, NEW p \in Plain, Exit(p)
  PROVE  IInv'
<1>1. Running(p) /\ p \in Processes /\ p # Watcher
      BY ConstantsAssumption DEF Exit, Running, At, Processes
<1>2. strays' \subseteq Keys \X (Texts \cup {None})
      BY DEF IInv, Typed, Exit
<1> QED BY <1>1, <1>2, QuietEnd DEF Exit, tree

LEMMA KillKeeps ==
  ASSUME IInv, NEW p \in Processes, Kill(p)
  PROVE  IInv'
<1>1. Running(p) /\ Watcher \in Processes
      BY DEF Kill, Processes
<1>2. /\ pass' \in [Processes -> Passes] /\ \A q \in Processes : Shape(q)'
      /\ Alone' /\ Covered' /\ Tells'
      /\ UNCHANGED <<watch, unscanned>> /\ p # Watcher => Saves'
      BY <1>1, EndKeeps DEF Kill
<1>3. Saves'
  <2>1. CASE p # Watcher BY <1>2, <2>1 DEF Kill, IInv, Typed
  <2>2. CASE p = Watcher BY <2>2 DEF Kill, Saves, SavesAreCovered
  <2> QED BY <2>1, <2>2
<1>4. ClaimsAreTold'
      BY DEF IInv, ClaimsAreTold, Kill
<1>5. watch' \in WatchStates /\ unscanned' \in BOOLEAN
      BY DEF Kill, NoWatch, WatchStates, IInv, Typed
<1>6. Typed'
  <2>1. strays' \subseteq Keys \X (Texts \cup {None}) BY AbandonType DEF IInv, Kill
  <2> QED BY <1>2, <1>5, <2>1 DEF IInv, Typed, Kill, tree
<1> QED BY <1>2, <1>3, <1>4, <1>6 DEF IInv

LEMMA KillWritingKeeps ==
  ASSUME IInv, NEW p \in Processes, KillWriting(p)
  PROVE  IInv'
<1>1. Running(p) /\ Watcher \in Processes
      BY DEF KillWriting, Processes, Running, At
<1>2. pass' = [q \in Processes |-> IF q = p THEN NoPass ELSE [pass[q] EXCEPT !.alone = FALSE]]
      BY DEF KillWriting
<1>3. ASSUME NEW q \in Processes, q # p
      PROVE  /\ pass'[q] = [pass[q] EXCEPT !.alone = FALSE] /\ pass'[q] \in Passes /\ ~pass'[q].alone
             /\ pass'[q].pc = pass[q].pc /\ pass'[q].scan = pass[q].scan /\ pass'[q].queue = pass[q].queue
             /\ pass'[q].chunk = pass[q].chunk /\ pass'[q].removed = pass[q].removed
             /\ pass'[q].unreported = pass[q].unreported /\ pass'[q].gone = pass[q].gone
             /\ pass'[q].left = pass[q].left
  <2>1. pass[q] \in Passes BY DEF IInv, Typed
  <2>2. pass'[q] = [pass[q] EXCEPT !.alone = FALSE] BY <1>2, <1>3
  <2> QED BY <2>1, <2>2 DEF Passes
<1>4. /\ pass'[p] = NoPass /\ NoPass \in Passes /\ NoPass.pc = "idle" /\ ~NoPass.alone
      /\ NoPass.queue = {} /\ NoPass.chunk = {} /\ NoPass.removed = {} /\ NoPass.unreported = {}
      /\ NoPass.gone = {} /\ NoPass.left = {}
      BY <1>2, NoPassType
<1>5. pass' \in [Processes -> Passes]
  <2>1. \A q \in Processes : (IF q = p THEN NoPass ELSE [pass[q] EXCEPT !.alone = FALSE]) \in Passes
        BY <1>3, <1>4
  <2> QED BY <1>2, <2>1
<1>6. Shape(p)'
      BY <1>4 DEF Shape
<1>7. ASSUME NEW q \in Processes, q # p PROVE Shape(q)'
  <2>1. Shape(q) BY DEF IInv, Typed
  <2> QED BY <1>3, <1>7, <2>1 DEF Shape
<1>8. Alone' /\ Tells'
      BY <1>3, <1>4 DEF Alone, Tells
<1>9. Covered'
  <2>1. ~Overlapped => \A q \in Processes : ~Running(q)' /\ ~Going(q)'
    <3> SUFFICES ASSUME ~Overlapped, NEW q \in Processes PROVE pass'[q].pc = "idle"
        BY DEF Running, Going, At
    <3>1. CASE q = p BY <3>1, <1>4
    <3>2. CASE q # p
      <4>1. ~Running(q) BY <1>1, <3>2 DEF IInv, Covered
      <4> QED BY <1>3, <3>2, <4>1 DEF Running, At
    <3> QED BY <3>1, <3>2
  <2> QED BY <2>1 DEF Covered, KillWriting
<1>10. ClaimsAreTold'
      BY DEF ClaimsAreTold, KillWriting, Nothing
<1>11. Saves'
  <2>1. CASE p # Watcher
    <3>1. Running(Watcher)' <=> Running(Watcher) BY <1>1, <1>3, <2>1 DEF Running, At
    <3> QED BY <2>1, <3>1 DEF KillWriting, Saves, SavesAreCovered, IInv
  <2>2. CASE p = Watcher BY <2>2 DEF KillWriting, Saves, SavesAreCovered
  <2> QED BY <2>1, <2>2
<1>12. watch' \in WatchStates /\ unscanned' \in BOOLEAN
      BY DEF KillWriting, NoWatch, WatchStates, IInv, Typed
<1>13. Nothing \in Tables BY DEF Nothing, Tables
<1>14. Typed'
  <2>1. strays' \subseteq Keys \X (Texts \cup {None}) BY AbandonType DEF IInv, KillWriting
  <2> QED BY <1>5, <1>6, <1>7, <1>12, <1>13, <2>1 DEF IInv, Typed, KillWriting, tree
<1> QED BY <1>8, <1>9, <1>10, <1>11, <1>14 DEF IInv
-----------------------------------------------------------------------------
(* The keys that are gone *)

LEMMA ReportRemovedKeeps ==
  ASSUME IInv, NEW p \in Processes, ReportRemoved(p)
  PROVE  IInv'
<1>1. PICK gone \in Chunks(pass[p].unreported) :
        pass' = [pass EXCEPT ![p].pc = "reporting", ![p].gone = gone, ![p].left = gone,
                             ![p].unreported = @ \ gone]
      BY DEF ReportRemoved
<1> DEFINE s == pass[p]
           local == [s EXCEPT !.pc = "reporting", !.gone = gone, !.left = gone,
                              !.unreported = s.unreported \ gone]
<1>2. /\ s \in Passes /\ s.pc = "removing" /\ Running(p) /\ Going(p) /\ Working(p) /\ Shape(p)
      /\ pass \in [Processes -> Passes]
      BY DEF IInv, Typed, ReportRemoved, At, Running, Going, Working
<1>3. gone \subseteq s.unreported /\ s.unreported \subseteq s.removed /\ s.removed \subseteq Keys
      BY <1>2 DEF Chunks, Shape, Passes
<1>4. pass' = [pass EXCEPT ![p] = local]
      BY <1>1, <1>2
<1>5. UNCHANGED <<code, bare, checkpoint, server, watch, strays, history>>
      BY DEF ReportRemoved, tree
<1>6. /\ local \in Passes /\ local.pc = "reporting" /\ local.chunk = s.chunk /\ local.gone = gone
      /\ local.left = gone /\ local.queue = s.queue /\ local.unreported = s.unreported \ gone
      /\ local.removed = s.removed /\ local.scan = s.scan /\ local.synced = s.synced
      /\ local.sure = s.sure /\ local.deprecates = s.deprecates /\ local.alone = s.alone
      BY <1>2, <1>3 DEF Passes
<1> HIDE DEF local
<1>7. /\ pass' \in [Processes -> Passes] /\ pass'[p] = local
      /\ \A q \in Processes : q # p => Shape(q)'
      /\ Alone' /\ Covered'
      /\ ((local.alone => Told(p)') => Tells') /\ Saves'
      BY <1>2, <1>4, <1>5, <1>6, StepKeeps DEF history
<1>8. Shape(p)'
      BY <1>2, <1>3, <1>6, <1>7 DEF Shape
<1>9. ASSUME s.alone PROVE Told(p)'
  <2>1. Told(p) /\ s.gone = {} BY <1>2, <1>9 DEF IInv, Tells, Shape
  <2>2. \A k, t : Holds(k, t)' <=> Holds(k, t) BY <1>5 DEF Holds, history
  <2>3. s.chunk = {} BY <1>2 DEF Shape
  <2> QED BY <1>2, <1>3, <1>5, <1>6, <1>7, <2>1, <2>2, <2>3 DEF Told, Working
<1>10. Typed' /\ ClaimsAreTold'
      BY <1>5, <1>7, <1>8 DEF IInv, Typed, ClaimsAreTold, history
<1> QED BY <1>6, <1>7, <1>9, <1>10 DEF IInv

LEMMA RemovedAnsweredKeeps ==
  ASSUME IInv, NEW p \in Processes, RemovedAnswered(p)
  PROVE  IInv'
<1> DEFINE s == pass[p]
           local == [s EXCEPT !.pc = "removing", !.gone = {}]
<1>1. /\ s \in Passes /\ s.pc = "reporting" /\ s.left = {} /\ Running(p) /\ Going(p) /\ Working(p) /\ Shape(p)
      /\ Requesting(p) /\ pass \in [Processes -> Passes]
      BY DEF IInv, Typed, RemovedAnswered, Requesting, At, Running, Going, Working
<1>2. pass' = [pass EXCEPT ![p] = local] /\ UNCHANGED <<code, bare, checkpoint, server, watch, strays, history>>
      BY <1>1 DEF RemovedAnswered, tree
<1>3. /\ local \in Passes /\ local.pc = "removing" /\ local.chunk = s.chunk /\ local.gone = {}
      /\ local.left = {} /\ local.queue = s.queue /\ local.unreported = s.unreported
      /\ local.removed = s.removed /\ local.scan = s.scan /\ local.synced = s.synced
      /\ local.sure = s.sure /\ local.deprecates = s.deprecates /\ local.alone = s.alone
      BY <1>1 DEF Passes
<1> HIDE DEF local
<1>4. /\ pass' \in [Processes -> Passes] /\ pass'[p] = local
      /\ \A q \in Processes : q # p => Shape(q)'
      /\ Alone' /\ Covered'
      /\ ((local.alone => Told(p)') => Tells') /\ Saves'
      BY <1>1, <1>2, <1>3, StepKeeps DEF history
<1>5. Shape(p)'
      BY <1>1, <1>3, <1>4 DEF Shape
<1>6. ASSUME s.alone PROVE Told(p)'
  <2>1. Told(p) /\ s.chunk = {} /\ \A k \in s.gone : Holds(k, None) BY <1>1, <1>6 DEF IInv, Tells, Told, Shape
  <2>2. \A k, t : Holds(k, t)' <=> Holds(k, t) BY <1>2 DEF Holds, history
  <2> QED BY <1>1, <1>2, <1>3, <1>4, <2>1, <2>2 DEF Told, Working
<1>7. Typed' /\ ClaimsAreTold'
      BY <1>2, <1>4, <1>5 DEF IInv, Typed, ClaimsAreTold, history
<1> QED BY <1>3, <1>4, <1>6, <1>7 DEF IInv

LEMMA FinishKeeps ==
  ASSUME IInv, NEW p \in Processes, Finish(p)
  PROVE  /\ IInv'
         /\ ~Overlapped => \A k \in Keys \ overwritten : checkpoint[k] # None /\ checkpoint[k] = server[k] =>
                                             checkpoint'[k] = checkpoint[k]
<1> DEFINE s == pass[p]
           table == Recorded(s.synced, s.removed, Nothing)
           local == [s EXCEPT !.pc = "done", !.synced = Nothing, !.removed = {}]
<1>1. /\ s \in Passes /\ s.pc = "removing" /\ s.unreported = {} /\ Running(p) /\ Going(p) /\ Working(p)
      /\ Shape(p) /\ pass \in [Processes -> Passes] /\ Nothing \in Tables
      BY DEF IInv, Typed, Finish, At, Running, Going, Working, Nothing, Tables
<1>2. /\ pass' = [pass EXCEPT ![p] = local] /\ WriteCheckpoint(table)
      /\ UNCHANGED <<code, bare, server, watch, strays, edits, unscanned, overwritten, beside>>
      BY <1>1 DEF Finish, tree
<1>3. s.synced \in Tables /\ s.sure \subseteq Keys /\ s.removed \subseteq Keys
      BY <1>1 DEF Passes
<1>4. table \in Tables /\ \A k \in Keys : table[k] = IF k \in s.removed THEN None ELSE s.synced[k]
      BY <1>1, <1>3, RecordedType DEF Nothing
<1> HIDE DEF table
<1>5. /\ local \in Passes /\ local.pc = "done" /\ local.chunk = s.chunk /\ local.gone = s.gone
      /\ local.left = s.left /\ local.queue = s.queue /\ local.unreported = s.unreported
      /\ local.removed = {} /\ local.scan = s.scan
      /\ local.sure = s.sure /\ local.deprecates = s.deprecates /\ local.alone = s.alone
      BY <1>1 DEF Passes
<1> HIDE DEF local
<1>6. /\ pass' \in [Processes -> Passes] /\ pass'[p] = local
      /\ \A q \in Processes : q # p => Shape(q)'
      /\ Alone' /\ Covered'
      /\ ((local.alone => Told(p)') => Tells') /\ Saves'
      BY <1>1, <1>2, <1>5, StepKeeps
<1>7. s.queue = {} /\ s.chunk = {} /\ s.gone = {} /\ \A k \in s.removed : s.scan[k] = None
      BY <1>1 DEF Shape
<1>8. Shape(p)'
      BY <1>1, <1>5, <1>6, <1>7 DEF Shape
<1>9. checkpoint' = table /\ unsettled' \subseteq Keys /\ server' = server
      BY <1>2 DEF WriteCheckpoint, IInv, Typed
<1>10. ASSUME s.alone
       PROVE  Told(p) /\ s.synced = checkpoint /\ \A k \in s.removed : Holds(k, None)
       BY <1>1, <1>7, <1>10 DEF IInv, Tells, Told
<1>11. ASSUME s.alone PROVE Told(p)'
  <2>1. ~Working(p)'
        BY <1>5, <1>6 DEF Working
  <2>3. \A k, t : Holds(k, t)' <=> Holds(k, t)
        BY <1>2 DEF Holds
  <2>2. \A k \in s.sure :
           /\ s.scan[k] # None => table[k] = s.scan[k] /\ Holds(k, s.scan[k])
           /\ s.scan[k] = None /\ s.deprecates => table[k] = None /\ Holds(k, None)
        BY <1>3, <1>4, <1>7, <1>10, <1>11 DEF Told
  <2> QED BY <1>5, <1>6, <1>7, <1>9, <2>1, <2>2, <2>3 DEF Told
<1>12. ~Overlapped => s.alone
      BY <1>1, NobodyElse
<1>13. ClaimsAreTold'
  <2>1. ~Overlapped => \A k \in Keys : table[k] \in {None, server[k]} \/ k \in unsettled
        BY <1>4, <1>10, <1>12 DEF IInv, ClaimsAreTold
  <2> QED BY <1>2, <2>1, WriteKeeps
<1>14. Typed'
      BY <1>2, <1>4, <1>6, <1>8, <1>9 DEF IInv, Typed
<1>15. ~Overlapped => \A k \in Keys \ overwritten : checkpoint[k] # None /\ checkpoint[k] = server[k] => checkpoint'[k] = checkpoint[k]
      BY <1>4, <1>9, <1>10, <1>12 DEF Holds
<1> QED BY <1>5, <1>6, <1>11, <1>13, <1>14, <1>15 DEF IInv

-----------------------------------------------------------------------------
(* Steps that begin passes, and the world around *)

LEMMA SyncKeeps ==
  ASSUME IInv, NEW p \in Plain, NEW scope \in SUBSET Keys, Sync(p, scope)
  PROVE  IInv'
<1>1. p \in Processes /\ ~Running(p) /\ Watcher \in Processes /\ p # Watcher
      BY ConstantsAssumption DEF Processes, Sync, Running, At
<1>2. /\ pass' \in [Processes -> Passes] /\ beside' \in Nat /\ overwritten' = {}
      /\ \A q \in Processes : Shape(q)'
      /\ Alone' /\ Covered' /\ Tells' /\ ClaimsAreTold'
      BY <1>1, BeginKeeps DEF Sync
<1>3. Running(Watcher)' <=> Running(Watcher)
  <2>1. pass'[Watcher] = [pass[Watcher] EXCEPT !.alone = FALSE] /\ pass[Watcher] \in Passes
        BY <1>1 DEF Sync, Begin, IInv, Typed
  <2> QED BY <2>1 DEF Running, At, Passes
<1>4. Typed' /\ Saves'
      BY <1>2, <1>3 DEF IInv, Typed, Saves, SavesAreCovered, Sync, tree
<1> QED BY <1>2, <1>4 DEF IInv

\* The watcher begins a pass: what was not scanned is now.
LEMMA WatchPassKeeps ==
  ASSUME IInv, ~Running(Watcher) \/ pass[Watcher].pc \in {"done", "failed"}, WatchPass,
         UNCHANGED <<tree, checkpoint, server, strays, unsettled, edits>>, watch' \in WatchStates
  PROVE  IInv'
<1>1. Watcher \in Processes /\ Keys \in SUBSET Keys /\ FALSE \in BOOLEAN
      BY DEF Processes
<1>2. /\ pass' \in [Processes -> Passes] /\ beside' \in Nat /\ overwritten' = {}
      /\ \A q \in Processes : Shape(q)'
      /\ Alone' /\ Covered' /\ Tells' /\ ClaimsAreTold'
      BY <1>1, BeginKeeps DEF WatchPass
<1>3. Typed' /\ Saves'
      BY <1>2 DEF IInv, Typed, Saves, SavesAreCovered, WatchPass, tree
<1> QED BY <1>2, <1>3 DEF IInv

\* Steps that leave every pass, the checkpoint and the server alone.
LEMMA PassesAloneKeeps ==
  ASSUME IInv, UNCHANGED <<checkpoint, server, pass, unsettled, overwritten, beside>>
  PROVE  /\ \A p \in Processes : Shape(p)'
         /\ Alone' /\ Covered' /\ Tells' /\ ClaimsAreTold' /\ (Running(Watcher)' <=> Running(Watcher))
<1>1. \A p \in Processes : Shape(p)'
      BY DEF IInv, Typed, Shape
<1>2. Alone' /\ Covered' /\ ClaimsAreTold' /\ (Running(Watcher)' <=> Running(Watcher))
      BY DEF IInv, Alone, Covered, ClaimsAreTold, Running, Going, At
<1>3. Tells'
      BY DEF IInv, Tells, Told, Holds, Going, Working
<1> QED BY <1>1, <1>2, <1>3

LEMMA TriggerKeeps ==
  ASSUME IInv, Trigger
  PROVE  IInv'
<1>1. watch \in WatchStates /\ watch' \in WatchStates
      BY DEF IInv, Typed, Trigger, WatchStates
<1>2. CASE Running(Watcher)
  <2>1. /\ \A p \in Processes : Shape(p)'
        /\ Alone' /\ Covered' /\ Tells' /\ ClaimsAreTold' /\ (Running(Watcher)' <=> Running(Watcher))
        BY <1>2, PassesAloneKeeps DEF Trigger
  <2>2. watch'.queued /\ watch'.closed = watch.closed
        BY <1>1, <1>2 DEF Trigger, WatchStates
  <2> QED BY <1>1, <1>2, <2>1, <2>2 DEF IInv, Typed, Saves, SavesAreCovered, Trigger, tree
<1>3. CASE ~Running(Watcher)
      BY <1>1, <1>3, WatchPassKeeps DEF Trigger
<1> QED BY <1>2, <1>3

LEMMA PassEndsKeeps ==
  ASSUME IInv, PassEnds
  PROVE  IInv'
<1>1. watch \in WatchStates /\ watch' \in WatchStates
      BY DEF IInv, Typed, PassEnds, WatchStates
<1>2. Watcher \in Processes /\ Running(Watcher) /\ pass[Watcher].pc \in {"done", "failed"}
      BY DEF Processes, PassEnds, Running, At
<1>3. CASE watch.queued /\ ~watch.closed
      BY <1>1, <1>2, <1>3, WatchPassKeeps DEF PassEnds
<1>4. CASE ~(watch.queued /\ ~watch.closed)
  <2>1. /\ pass' \in [Processes -> Passes] /\ \A q \in Processes : Shape(q)'
        /\ Alone' /\ Covered' /\ Tells'
        BY <1>2, <1>4, EndKeeps DEF PassEnds
  <2>2. ClaimsAreTold'
        BY <1>4 DEF PassEnds, ClaimsAreTold, IInv
  <2>3. watch'.timer = watch.timer /\ watch'.closed = watch.closed
        BY <1>1, <1>4 DEF PassEnds, WatchStates
  <2>4. Saves'
        BY <1>4, <2>3 DEF IInv, Saves, SavesAreCovered, PassEnds
  <2>5. Typed'
        BY <1>1, <1>4, <2>1 DEF IInv, Typed, PassEnds, tree
  <2> QED BY <2>1, <2>2, <2>4, <2>5 DEF IInv
<1> QED BY <1>3, <1>4

LEMMA LaunchKeeps ==
  ASSUME IInv, Launch
  PROVE  IInv'
<1>1. ~Running(Watcher) /\ watch' \in WatchStates
      BY DEF Launch, Running, At, IInv, Typed
<1> QED BY <1>1, WatchPassKeeps DEF Launch

LEMMA WorldKeeps ==
  ASSUME IInv, Close \/ Stop \/ \E k \in Keys, t \in Texts \cup {None} : Edit(k, t)
  PROVE  IInv'
<1>1. UNCHANGED <<checkpoint, server, pass, strays, unsettled, overwritten, beside>>
      BY DEF Close, Stop, Edit, history
<1>2. /\ \A p \in Processes : Shape(p)'
      /\ Alone' /\ Covered' /\ Tells' /\ ClaimsAreTold' /\ (Running(Watcher)' <=> Running(Watcher))
      BY <1>1, PassesAloneKeeps
<1>3. watch \in WatchStates
      BY DEF IInv, Typed
<1>4. CASE Close
  <2>1. watch' \in WatchStates /\ unscanned' = FALSE BY <1>3, <1>4 DEF Close, WatchStates
  <2> QED BY <1>2, <1>4, <2>1 DEF IInv, Typed, Saves, SavesAreCovered, Close, tree
<1>5. CASE Stop
  <2>1. watch' \in WatchStates /\ ~unscanned /\ unscanned' = unscanned
        BY <1>3, <1>5 DEF Stop, WatchStates, NoWatch, IInv, Saves, history
  <2> QED BY <1>2, <1>5, <2>1 DEF IInv, Typed, Saves, SavesAreCovered, Stop, history, tree
<1>6. ASSUME NEW k \in Keys, NEW t \in Texts \cup {None}, Edit(k, t)
      PROVE  IInv'
  <2> DEFINE seen == watch.on /\ ~watch.closed
  <2>1. /\ watch' = [watch EXCEPT !.timer = @ \/ seen] /\ unscanned' = (unscanned \/ seen)
        BY <1>6 DEF Edit
  <2>2. /\ watch' \in WatchStates /\ watch'.timer = (watch.timer \/ seen)
        /\ watch'.queued = watch.queued /\ watch'.closed = watch.closed /\ unscanned' \in BOOLEAN
        BY <1>3, <2>1 DEF WatchStates, IInv, Typed
  <2>3. Saves'
        BY <1>2, <2>1, <2>2 DEF IInv, Saves, SavesAreCovered
  <2>4. code' \in Tables /\ bare' \in BOOLEAN /\ edits' \in Nat
    <3>1. code' \in Tables /\ edits' \in Nat BY <1>6 DEF Edit, Tables, IInv, Typed
    <3>2. bare' \in {FALSE, code' = Nothing} BY <1>6 DEF Edit
    <3>3. bare' \in BOOLEAN BY <3>2, Zenon
    <3> QED BY <3>1, <3>3
  <2>5. Typed'
        BY <1>1, <1>2, <2>2, <2>4 DEF IInv, Typed
  <2> QED BY <1>2, <2>3, <2>5 DEF IInv
<1> QED BY <1>4, <1>5, <1>6
-----------------------------------------------------------------------------
(* The specification *)

LEMMA InitHolds == Init => IInv
<1> SUFFICES ASSUME Init PROVE IInv
    OBVIOUS
<1>1. Nothing \in Tables /\ NoWatch \in WatchStates
      BY DEF Nothing, Tables, NoWatch, WatchStates
<1>2. \A p \in Processes : pass[p] = NoPass
      BY DEF Init
<1>3. \A p \in Processes : Shape(p) /\ ~Running(p) /\ ~Going(p) /\ ~pass[p].alone
      BY <1>2, NoPassType DEF Shape, Running, Going, At
<1>4. pass \in [Processes -> Passes]
      BY NoPassType DEF Init
<1>5. Typed
      BY <1>1, <1>3, <1>4 DEF Init, Typed
<1>6. Alone /\ Covered /\ Tells
      BY <1>3 DEF Alone, Covered, Tells
<1>7. ClaimsAreTold /\ Saves
      BY DEF Init, ClaimsAreTold, Saves, SavesAreCovered, Nothing, NoWatch
<1> QED BY <1>5, <1>6, <1>7 DEF IInv

LEMMA StutterKeeps == IInv /\ UNCHANGED vars => IInv'
<1> SUFFICES ASSUME IInv, UNCHANGED vars PROVE IInv'
    OBVIOUS
<1>1. UNCHANGED <<code, bare, checkpoint, server, pass, watch, strays, edits, unscanned, unsettled, overwritten, beside>>
      BY DEF vars, tree, history
<1>2. /\ \A p \in Processes : Shape(p)'
      /\ Alone' /\ Covered' /\ Tells' /\ ClaimsAreTold' /\ (Running(Watcher)' <=> Running(Watcher))
      BY <1>1, PassesAloneKeeps
<1> QED BY <1>1, <1>2 DEF IInv, Typed, Saves, SavesAreCovered

LEMMA NextKeeps == IInv /\ [Next]_vars => IInv'
<1> SUFFICES ASSUME IInv, Next PROVE IInv'
    BY StutterKeeps
<1>1. ASSUME NEW p \in Processes, Step(p) PROVE IInv'
      BY <1>1, NextChunkKeeps, RetryKeeps, AnswerKeeps, FailsKeeps, ReportRemovedKeeps, RemovedAnsweredKeeps,
         RemovedFailsKeeps, FinishKeeps DEF Step
<1>2. ASSUME NEW p \in Plain, (\E scope \in SUBSET Keys : Sync(p, scope)) \/ Abort(p) \/ Exit(p) PROVE IInv'
      BY <1>2, SyncKeeps, AbortKeeps, ExitKeeps
<1>3. ASSUME NEW p \in Processes, (\E k \in Keys : Apply(p, k)) \/ Kill(p) \/ KillWriting(p) PROVE IInv'
      BY <1>3, ApplyKeeps, KillKeeps, KillWritingKeeps
<1>4. CASE Launch \/ Trigger \/ PassEnds
      BY <1>4, LaunchKeeps, TriggerKeeps, PassEndsKeeps
<1>5. CASE Close \/ Stop \/ \E k \in Keys, t \in Texts \cup {None} : Edit(k, t)
      BY <1>5, WorldKeeps
<1>6. ASSUME NEW k \in Keys, NEW t \in Texts \cup {None}, Stray(k, t) PROVE IInv'
      BY <1>6, StrayKeeps
<1> QED BY <1>1, <1>2, <1>3, <1>4, <1>5, <1>6 DEF Next

LEMMA Invariant == Spec => []IInv
BY InitHolds, NextKeeps, PTL DEF Spec

\* Every variable keeps its type, and a pass never sends again, in a chunk to
\* come, what the chunk under way holds.
THEOREM TypeCorrect == Spec => []TypeOK
<1>1. IInv => TypeOK
      BY DEF IInv, Typed, Shape, TypeOK, At
<1> QED BY <1>1, Invariant, PTL

\* A pass that ends well and had no other beside it leaves the checkpoint with
\* what it found, and the server too but for what an abandoned handler stored
\* after it, whatever failures, kills, edits and passes came before it.
THEOREM PassIsExact == Spec => []DoneIsExact
<1>1. ASSUME IInv PROVE DoneIsExact
  <2> SUFFICES ASSUME NEW p \in Processes, At(p, "done"), pass[p].alone, NEW k \in pass[p].sure,
                      pass[p].scan[k] # None \/ pass[p].deprecates
               PROVE  checkpoint[k] = pass[p].scan[k] /\ Holds(k, pass[p].scan[k])
      BY DEF DoneIsExact, Holds
  <2>1. Told(p) BY <1>1 DEF IInv, Tells, Going, At
  <2>2. pass[p].queue = {} /\ pass[p].chunk = {} /\ pass[p].removed = {}
        BY <1>1 DEF IInv, Typed, Shape, At
  <2> QED BY <2>1, <2>2 DEF Told
<1> QED BY <1>1, Invariant, PTL

\* Without two passes at once the checkpoint claims of a key what the server
\* was told last, or the key is not settled.
THEOREM CheckpointIsTrue == Spec => []ClaimsAreTold
<1>1. IInv => ClaimsAreTold
      BY DEF IInv
<1> QED BY <1>1, Invariant, PTL

\* A save the watcher has seen is covered by a timer or a queued pass.
THEOREM NoSaveIsMissed == Spec => []SavesAreCovered
<1>1. IInv => SavesAreCovered
      BY DEF IInv, Saves
<1> QED BY <1>1, Invariant, PTL

\* Without two passes at once only a kill in the middle of a write loses what
\* the checkpoint records rightly.
THEOREM ProgressIsKept == Spec => ProgressKept
<1> DEFINE Kept == ~Overlapped' /\ ~(\E p \in Processes : KillWriting(p)) =>
                     \A k \in Keys \ overwritten : checkpoint[k] # None /\ checkpoint[k] = server[k] =>
                                       checkpoint'[k] = checkpoint[k]
<1>1. ASSUME IInv, [Next]_vars PROVE [Kept]_vars
  <2> SUFFICES ASSUME Next, ~Overlapped', ~(\E p \in Processes : KillWriting(p)),
                      NEW k \in Keys \ overwritten, checkpoint[k] # None, checkpoint[k] = server[k]
               PROVE  checkpoint'[k] = checkpoint[k]
      BY <1>1
  <2>1. ASSUME NEW p \in Processes, Step(p) PROVE checkpoint'[k] = checkpoint[k]
    <3>1. CASE NextChunk(p) \/ Retry(p) BY <3>1 DEF NextChunk, Retry
    <3>2. CASE Answer(p)
      <4>1. ~Overlapped BY <3>2 DEF Answer
      <4> QED BY <1>1, <3>2, <4>1, AnswerKeeps
    <3>3. CASE Fails(p)
      <4>1. ~Overlapped BY <3>3 DEF Fails
      <4> QED BY <1>1, <3>3, <4>1, FailsKeeps
    <3>4. CASE ReportRemoved(p) BY <3>4 DEF ReportRemoved
    <3>5. CASE RemovedAnswered(p) BY <3>5 DEF RemovedAnswered
    <3>6. CASE RemovedFails(p) BY <3>6 DEF RemovedFails
    <3>7. CASE Finish(p)
      <4>1. ~Overlapped BY <3>7 DEF Finish
      <4> QED BY <1>1, <3>7, <4>1, FinishKeeps
    <3> QED BY <2>1, <3>1, <3>2, <3>3, <3>4, <3>5, <3>6, <3>7 DEF Step
  <2>2. ASSUME NEW p \in Plain, Abort(p) PROVE checkpoint'[k] = checkpoint[k]
    <3>1. ~Overlapped BY <2>2 DEF Abort
    <3> QED BY <1>1, <2>2, <3>1, AbortKeeps
  <2>3. ASSUME NEW p \in Plain, (\E scope \in SUBSET Keys : Sync(p, scope)) \/ Exit(p)
        PROVE  checkpoint'[k] = checkpoint[k]
        BY <2>3 DEF Sync, Exit
  <2>4. ASSUME NEW p \in Processes, (\E l \in Keys : Apply(p, l)) \/ Kill(p) PROVE checkpoint'[k] = checkpoint[k]
        BY <2>4 DEF Apply, Kill
  <2>5. CASE Launch \/ Trigger \/ PassEnds
        BY <2>5 DEF Launch, Trigger, PassEnds
  <2>6. CASE Close \/ Stop \/ \E l \in Keys, t \in Texts \cup {None} : Edit(l, t)
        BY <2>6 DEF Close, Stop, Edit
  <2>7. ASSUME NEW l \in Keys, NEW t \in Texts \cup {None}, Stray(l, t) PROVE checkpoint'[k] = checkpoint[k]
        BY <2>7 DEF Stray
  <2> QED BY <2>1, <2>2, <2>3, <2>4, <2>5, <2>6, <2>7 DEF Next
<1>2. Spec => [][Kept]_vars
      BY <1>1, Invariant, PTL DEF Spec
<1> QED BY <1>2 DEF ProgressKept
=============================================================================
