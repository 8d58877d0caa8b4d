----------------------- MODULE SourceKeyRegistry_proofs -----------------------
(* What the queue keeps, for any keys, texts, calls, batches and retries:   *)
(* the text reported last, and a way to send what is pending.  The reason   *)
(* for the first is that, unless drains ran side by side, one call at most  *)
(* has a batch in flight (OneInFlight), so what it carries is the newest of *)
(* a key that is not pending, and what its handler has stored is still the  *)
(* server's, unless it was displaced there (Newest); for the second, that a call which may return without looking at *)
(* what is pending is never the only one to rely on (Relied).               *)
EXTENDS SourceKeyRegistry, SequenceTheorems, TLAPS

\* What a handler has to store is of its batch; between attempts there is none.
LocalStates ==
  {local \in CallStates : /\ local.left \subseteq KeysOf(local.batch)
                          /\ local.pc = "backoff" => ~local.taken}

Typed ==
  /\ pending \in Items /\ acknowledged \in Items /\ server \in Items /\ latest \in Items
  /\ timer \in BOOLEAN /\ ingestBlocked \in BOOLEAN
  /\ activeFlush \in Calls \cup {None}
  /\ call \in [Calls -> LocalStates]
  /\ waiters \in [Calls -> Seq(Calls)] /\ ready \in Seq(Calls)
  /\ reports \in Nat /\ reverted \subseteq Keys
  /\ overlapped \in BOOLEAN /\ stalled \in BOOLEAN
  /\ strays \subseteq Keys \X Texts /\ displaced \subseteq Keys
  /\ merged \subseteq displaced /\ \A k \in merged : server[k] = None

OneInFlight == ~overlapped => \A f, g \in Calls : InFlight(f) /\ InFlight(g) => f = g

\* Neither pending nor in flight.
AtRest(k) == pending[k] = None /\ \A f \in Calls : ~Carries(f, k)

Newest ==
  ~ingestBlocked /\ ~overlapped =>
    /\ \A k \in Keys :
         /\ AtRest(k) /\ acknowledged[k] # None /\ k \notin displaced => server[k] = acknowledged[k]
         /\ latest[k] = None => AtRest(k) /\ acknowledged[k] = None
         /\ k \notin reverted /\ latest[k] # None =>
              /\ pending[k] \in {None, latest[k]}
              /\ pending[k] = None => \A f \in Calls : Carries(f, k) => call[f].batch[k] = latest[k]
              /\ AtRest(k) => acknowledged[k] = latest[k]
    /\ \A f \in Calls, k \in Keys :
         At(f, "pushing") /\ call[f].taken /\ call[f].batch[k] # None /\ k \notin call[f].left \cup displaced
           => server[k] = call[f].batch[k]

\* A call that will drain what is pending, or throw.
Reliable(f) == ~At(f, "idle") /\ ~(At(f, "drained") /\ call[f].keepalive /\ ~call[f].failed)

Relied == pending # Nothing => timer \/ stalled \/ \E f \in Calls : Reliable(f)

Members(s) == {s[i] : i \in 1..Len(s)}
Once(s) == \A i, j \in 1..Len(s) : s[i] = s[j] => i = j

Settled(f) == At(f, "drained") \/ At(f, "woken")

\* Who awaits a drain is in one queue, once; who is about to resume, in ready.
Queues ==
  /\ \A f \in Calls : /\ Members(waiters[f]) \subseteq {g \in Calls : At(g, "awaiting")}
                      /\ Once(waiters[f])
                      /\ waiters[f] # <<>> => InFlight(f)
  /\ \A f, g \in Calls : f # g => Members(waiters[f]) \cap Members(waiters[g]) = {}
  /\ \A f \in Calls : At(f, "awaiting") => \E g \in Calls : InFlight(g) /\ f \in Members(waiters[g])
  /\ Once(ready) /\ Members(ready) = {f \in Calls : Settled(f)}
  /\ activeFlush # None => InFlight(activeFlush) \/ At(activeFlush, "drained")

IInv == Typed /\ OneInFlight /\ Newest /\ Queues /\ Relied

-----------------------------------------------------------------------------
(* Items *)

LEMMA IdleType == Idle \in LocalStates /\ Idle.pc = "idle" /\ Idle.left = {}
BY DEF Idle, CallStates, LocalStates, KeysOf, Items, Nothing

LEMMA BatchType ==
  ASSUME Typed, NEW items \in Batches
  PROVE  items \in Items /\ \A k \in Keys : items[k] \in {None, pending[k]}
<1>1. PICK s \in SUBSET Keys : items = [k \in Keys |-> IF k \in s THEN pending[k] ELSE None]
      BY DEF Batches, KeysOf
<1> QED BY <1>1 DEF Typed, Items

LEMMA PushingType ==
  ASSUME NEW items \in Items, NEW keepalive \in BOOLEAN
  PROVE  /\ Pushing(items, keepalive) \in LocalStates
         /\ Pushing(items, keepalive).pc = "pushing"
         /\ Pushing(items, keepalive).batch = items
         /\ Pushing(items, keepalive).taken = FALSE
BY DEF Pushing, Idle, CallStates, LocalStates, KeysOf, Items, Nothing

LEMMA OverType ==
  ASSUME NEW items \in Items, NEW old \in Items
  PROVE  /\ Over(items, old) \in Items
         /\ \A k \in Keys : Over(items, old)[k] = IF items[k] # None THEN items[k] ELSE old[k]
BY DEF Over, Items

-----------------------------------------------------------------------------
(* Steps that leave what is in flight, pending and acknowledged alone *)

LEMMA QuietKeeps ==
  ASSUME OneInFlight, Newest,
         \A g \in Calls : /\ InFlight(g)' <=> InFlight(g)
                          /\ InFlight(g) => call'[g].batch = call[g].batch
                          /\ (At(g, "pushing") /\ call[g].taken)' => At(g, "pushing") /\ call[g].taken /\ call'[g].left = call[g].left,
         overlapped' = overlapped,
         UNCHANGED <<pending, acknowledged, ingestBlocked, server, displaced, latest, reverted>>
  PROVE  OneInFlight' /\ Newest'
<1>1. OneInFlight' BY DEF OneInFlight
<1>2. \A g \in Calls, k \in Keys : Carries(g, k)' <=> Carries(g, k)
      BY DEF Carries
<1>3. \A k \in Keys : AtRest(k)' <=> AtRest(k)
      BY <1>2 DEF AtRest
<1>4. \A g \in Calls : At(g, "pushing") => InFlight(g)
      BY DEF At, InFlight
<1>5. \A g \in Calls, k \in Keys : Carries(g, k) => call'[g].batch[k] = call[g].batch[k]
      BY DEF Carries
<1> SUFFICES ASSUME ~ingestBlocked, ~overlapped PROVE Newest'
      BY <1>1 DEF Newest
<1>6. \A k \in Keys :
         /\ AtRest(k)' /\ acknowledged'[k] # None /\ k \notin displaced' => server'[k] = acknowledged'[k]
         /\ latest'[k] = None => AtRest(k)' /\ acknowledged'[k] = None
         /\ k \notin reverted' /\ latest'[k] # None =>
              /\ pending'[k] \in {None, latest'[k]}
              /\ pending'[k] = None => \A f \in Calls : Carries(f, k)' => call'[f].batch[k] = latest'[k]
              /\ AtRest(k)' => acknowledged'[k] = latest'[k]
      BY <1>2, <1>3, <1>5 DEF Newest
<1>7. \A f \in Calls, k \in Keys :
         At(f, "pushing")' /\ call'[f].taken /\ call'[f].batch[k] # None /\ k \notin call'[f].left \cup displaced'
           => server'[k] = call'[f].batch[k]
      BY <1>4 DEF Newest
<1> QED BY <1>6, <1>7 DEF Newest

\* One call is between two drains, before and after.
LEMMA CallerKeeps ==
  ASSUME Typed, OneInFlight, Newest, NEW f \in Calls, ~InFlight(f), NEW local \in LocalStates,
         local.pc \notin {"pushing", "backoff"},
         call' = [call EXCEPT ![f] = local], overlapped' = overlapped,
         UNCHANGED <<pending, acknowledged, ingestBlocked, server, displaced, latest, reverted>>
  PROVE  OneInFlight' /\ Newest' /\ call' \in [Calls -> LocalStates]
<1>1. call' \in [Calls -> LocalStates] /\ call'[f] = local /\ \A g \in Calls : g # f => call'[g] = call[g]
      BY DEF Typed
<1>2. \A g \in Calls : /\ InFlight(g)' <=> InFlight(g)
                       /\ InFlight(g) => call'[g].batch = call[g].batch
                       /\ (At(g, "pushing") /\ call[g].taken)' => At(g, "pushing") /\ call[g].taken /\ call'[g].left = call[g].left
      BY <1>1 DEF InFlight, At
<1> QED BY <1>1, <1>2, QuietKeeps

-----------------------------------------------------------------------------
(* Steps of a drain *)

\* A batch leaves pending for a call that has none, when no other has one:
\* wherever a key was before, its text is the same.
LEMMA TakesKeeps ==
  ASSUME Typed, Newest, NEW f \in Calls, NEW items \in Batches, NEW keepalive \in BOOLEAN,
         call' = [call EXCEPT ![f] = Pushing(items, keepalive)],
         pending' = Without(pending, items),
         ~ingestBlocked' /\ ~overlapped' => ~ingestBlocked /\ ~overlapped,
         ~overlapped' => \A g \in Calls : g # f => ~InFlight(g),
         acknowledged' \in Items, server' = server, displaced' = displaced, latest' = latest, reverted' = reverted,
         \A k \in Keys : Carries(f, k) /\ ~overlapped' /\ ~ingestBlocked' =>
            acknowledged'[k] = call[f].batch[k] /\ (k \notin displaced => server[k] = call[f].batch[k]),
         \A k \in Keys : ~Carries(f, k) => acknowledged'[k] = acknowledged[k]
  PROVE  /\ OneInFlight' /\ Newest'
         /\ call' \in [Calls -> LocalStates] /\ pending' \in Items
<1>1. /\ items \in Items /\ \A k \in Keys : items[k] \in {None, pending[k]}
      BY BatchType
<1>2. /\ call' \in [Calls -> LocalStates] /\ call'[f] = Pushing(items, keepalive)
      /\ \A g \in Calls : g # f => call'[g] = call[g]
      BY <1>1, PushingType DEF Typed
<1>3. /\ pending' \in Items
      /\ \A k \in Keys : pending'[k] = IF items[k] # None THEN None ELSE pending[k]
      BY DEF Without, Typed, Items
<1>4. OneInFlight'
      BY <1>2 DEF OneInFlight, InFlight, At
<1> SUFFICES ASSUME ~ingestBlocked', ~overlapped' PROVE Newest'
      BY <1>2, <1>3, <1>4 DEF Newest
<1>5. \A g \in Calls : g # f => ~InFlight(g) /\ ~InFlight(g)'
      BY <1>2 DEF InFlight, At
<1>6. \A g \in Calls, k \in Keys : Carries(g, k) => g = f
      BY <1>5 DEF Carries
<1>7. \A g \in Calls, k \in Keys : Carries(g, k)' <=> g = f /\ items[k] # None
      BY <1>1, <1>2, <1>5, PushingType DEF Carries, InFlight, At
<1>8. \A k \in Keys : AtRest(k)' <=> pending[k] = None
      BY <1>1, <1>3, <1>7 DEF AtRest
<1>9. \A k \in Keys : AtRest(k) <=> pending[k] = None /\ ~Carries(f, k)
      BY <1>6 DEF AtRest
<1>10. ASSUME NEW k \in Keys
       PROVE /\ AtRest(k)' /\ acknowledged'[k] # None /\ k \notin displaced' => server'[k] = acknowledged'[k]
             /\ latest'[k] = None => AtRest(k)' /\ acknowledged'[k] = None
             /\ k \notin reverted' /\ latest'[k] # None =>
                  /\ pending'[k] \in {None, latest'[k]}
                  /\ pending'[k] = None => \A g \in Calls : Carries(g, k)' => call'[g].batch[k] = latest'[k]
                  /\ AtRest(k)' => acknowledged'[k] = latest'[k]
  <2>1. AtRest(k)' /\ acknowledged'[k] # None /\ k \notin displaced' => server'[k] = acknowledged'[k]
        BY <1>8, <1>9 DEF Newest
  <2>2. latest'[k] = None => AtRest(k)' /\ acknowledged'[k] = None
        BY <1>8, <1>9 DEF Newest
  <2>3. ASSUME k \notin reverted', latest'[k] # None
        PROVE  /\ pending'[k] \in {None, latest'[k]}
               /\ items[k] # None => items[k] = latest'[k]
               /\ AtRest(k)' => acknowledged'[k] = latest'[k]
        BY <2>3, <1>1, <1>3, <1>8, <1>9 DEF Newest
  <2>4. \A g \in Calls : Carries(g, k)' => items[k] # None /\ call'[g].batch[k] = items[k]
        BY <1>1, <1>2, <1>7, PushingType
  <2> QED BY <2>1, <2>2, <2>3, <2>4
<1>11. ASSUME NEW g \in Calls, NEW k \in Keys,
              At(g, "pushing")', call'[g].taken
       PROVE FALSE
       BY <1>11, <1>1, <1>2, <1>5, PushingType DEF At, InFlight
<1> QED BY <1>10, <1>11 DEF Newest

-----------------------------------------------------------------------------
(* Queues *)

LEMMA TailMembers ==
  ASSUME NEW S, NEW s \in Seq(S), s # <<>>
  PROVE  /\ Tail(s) \in Seq(S) /\ Head(s) \in Members(s) /\ Head(s) \in S
         /\ Members(s) = Members(Tail(s)) \cup {Head(s)}
         /\ Once(s) => Once(Tail(s)) /\ Head(s) \notin Members(Tail(s))
<1>1. /\ Tail(s) \in Seq(S) /\ Len(s) \in Nat /\ Len(s) > 0
      /\ Len(Tail(s)) = Len(s) - 1 /\ Head(s) = s[1] /\ Head(s) \in S
      /\ \A i \in 1..Len(Tail(s)) : Tail(s)[i] = s[i + 1]
      BY EmptySeq, HeadTailProperties
<1>2. Members(s) = Members(Tail(s)) \cup {Head(s)}
  <2>1. ASSUME NEW i \in 1..Len(s) PROVE s[i] \in Members(Tail(s)) \cup {Head(s)}
    <3>1. CASE i = 1 BY <1>1, <3>1
    <3>2. CASE i # 1
      <4>1. i - 1 \in 1..Len(Tail(s)) /\ Tail(s)[i - 1] = s[i] BY <1>1, <3>2
      <4> QED BY <4>1 DEF Members
    <3> QED BY <3>1, <3>2
  <2>2. ASSUME NEW i \in 1..Len(Tail(s)) PROVE Tail(s)[i] \in Members(s)
    <3>1. i + 1 \in 1..Len(s) BY <1>1
    <3> QED BY <1>1, <3>1 DEF Members
  <2>3. Head(s) \in Members(s) BY <1>1 DEF Members
  <2> QED BY <2>1, <2>2, <2>3 DEF Members
<1>3. ASSUME Once(s) PROVE Once(Tail(s)) /\ Head(s) \notin Members(Tail(s))
      BY <1>1, <1>3 DEF Once, Members
<1> QED BY <1>1, <1>2, <1>3

LEMMA AppendMembers ==
  ASSUME NEW S, NEW s \in Seq(S), NEW x \in S
  PROVE  /\ Append(s, x) \in Seq(S) /\ Append(s, x) # <<>>
         /\ Members(Append(s, x)) = Members(s) \cup {x}
         /\ Once(s) /\ x \notin Members(s) => Once(Append(s, x))
<1>1. /\ Append(s, x) \in Seq(S) /\ Append(s, x) # <<>> /\ Len(s) \in Nat
      /\ Len(Append(s, x)) = Len(s) + 1
      /\ \A i \in 1..Len(s) : Append(s, x)[i] = s[i]
      /\ Append(s, x)[Len(s) + 1] = x
      BY AppendProperties
<1>2. \A i \in 1..(Len(s) + 1) : i = Len(s) + 1 \/ i \in 1..Len(s)
      BY <1>1
<1>3. \A i \in 1..Len(s) : i \in 1..(Len(s) + 1)
      BY <1>1
<1>4. Len(s) + 1 \in 1..(Len(s) + 1)
      BY <1>1
<1>5. Members(Append(s, x)) = Members(s) \cup {x}
      BY <1>1, <1>2, <1>3, <1>4 DEF Members
<1>6. ASSUME Once(s), x \notin Members(s) PROVE Once(Append(s, x))
      BY <1>1, <1>2, <1>6 DEF Once, Members
<1> QED BY <1>1, <1>5, <1>6

LEMMA JoinMembers ==
  ASSUME NEW S, NEW s \in Seq(S), NEW t \in Seq(S)
  PROVE  /\ s \o t \in Seq(S)
         /\ Members(s \o t) = Members(s) \cup Members(t)
         /\ Once(s) /\ Once(t) /\ Members(s) \cap Members(t) = {} => Once(s \o t)
<1>1. /\ s \o t \in Seq(S) /\ Len(s) \in Nat /\ Len(t) \in Nat
      /\ Len(s \o t) = Len(s) + Len(t)
      /\ \A i \in 1..Len(s) + Len(t) : (s \o t)[i] = IF i <= Len(s) THEN s[i] ELSE t[i - Len(s)]
      BY ConcatProperties
<1>2. \A i \in 1..Len(s \o t) : \/ i \in 1..Len(s) /\ (s \o t)[i] = s[i]
                                \/ i - Len(s) \in 1..Len(t) /\ (s \o t)[i] = t[i - Len(s)]
      BY <1>1
<1>3. \A i \in 1..Len(s) : i \in 1..Len(s \o t) /\ (s \o t)[i] = s[i]
      BY <1>1
<1>4. \A i \in 1..Len(t) : i + Len(s) \in 1..Len(s \o t) /\ (s \o t)[i + Len(s)] = t[i]
      BY <1>1
<1>5. Members(s \o t) = Members(s) \cup Members(t)
      BY <1>2, <1>3, <1>4 DEF Members
<1>6. ASSUME Once(s), Once(t), Members(s) \cap Members(t) = {} PROVE Once(s \o t)
  <2> SUFFICES ASSUME NEW i \in 1..Len(s \o t), NEW j \in 1..Len(s \o t), (s \o t)[i] = (s \o t)[j]
               PROVE  i = j
      BY DEF Once
  <2>1. CASE i \in 1..Len(s) /\ j \in 1..Len(s) BY <2>1, <1>3, <1>6 DEF Once
  <2>2. CASE i - Len(s) \in 1..Len(t) /\ j - Len(s) \in 1..Len(t)
    <3>1. (s \o t)[i] = t[i - Len(s)] /\ (s \o t)[j] = t[j - Len(s)]
          BY <2>2, <1>1
    <3>2. i - Len(s) = j - Len(s) BY <3>1, <2>2, <1>6 DEF Once
    <3> QED BY <3>2, <1>1
  <2>3. \A k \in 1..Len(s), l \in 1..Len(t) : s[k] # t[l]
        BY <1>6 DEF Members
  <2>4. CASE i \in 1..Len(s) /\ j - Len(s) \in 1..Len(t)
    <3>1. (s \o t)[i] = s[i] /\ (s \o t)[j] = t[j - Len(s)] BY <2>4, <1>1
    <3> QED BY <3>1, <2>3, <2>4
  <2>5. CASE j \in 1..Len(s) /\ i - Len(s) \in 1..Len(t)
    <3>1. (s \o t)[j] = s[j] /\ (s \o t)[i] = t[i - Len(s)] BY <2>5, <1>1
    <3> QED BY <3>1, <2>3, <2>5
  <2>6. /\ i \in 1..Len(s) \/ i - Len(s) \in 1..Len(t)
        /\ j \in 1..Len(s) \/ j - Len(s) \in 1..Len(t)
        BY <1>2
  <2> QED BY <2>1, <2>2, <2>4, <2>5, <2>6
<1> QED BY <1>1, <1>5, <1>6

-----------------------------------------------------------------------------
(* The end of a drain *)

LEMMA SettleStep ==
  ASSUME Typed, Queues, NEW f \in Calls, InFlight(f), NEW failed \in BOOLEAN,
         Settle(f, failed), activeFlush' = activeFlush
  PROVE  /\ call' \in [Calls -> LocalStates]
         /\ waiters' \in [Calls -> Seq(Calls)] /\ ready' \in Seq(Calls)
         /\ call'[f].pc = "drained" /\ call'[f].failed = failed
         /\ \A g \in Calls : g # f => /\ InFlight(g)' <=> InFlight(g)
                                      /\ InFlight(g) => call'[g] = call[g]
                                      /\ ~At(g, "idle") => call'[g].pc # "idle"
                                      /\ Reliable(g) => Reliable(g)'
         /\ Queues'
<1> DEFINE ended == [Idle EXCEPT !.pc = "drained", !.keepalive = call[f].keepalive, !.failed = failed]
           woken == Members(waiters[f])
<1>1. ended \in LocalStates /\ ended.pc = "drained" /\ ended.failed = failed
      BY IdleType DEF Typed, Idle, CallStates, LocalStates, KeysOf
<1>2. woken \subseteq {g \in Calls : At(g, "awaiting")} /\ f \notin woken /\ woken \subseteq Calls
      BY DEF Queues, InFlight, At
<1>3. call' = [g \in Calls |-> IF g = f THEN ended
                               ELSE IF g \in woken THEN [call[g] EXCEPT !.pc = "woken", !.failed = failed]
                               ELSE call[g]]
      BY DEF Settle, Members
<1>4. \A g \in Calls : [call[g] EXCEPT !.pc = "woken", !.failed = failed] \in LocalStates
      BY DEF Typed, CallStates, LocalStates, KeysOf
<1>5. call' \in [Calls -> LocalStates]
      BY <1>1, <1>3, <1>4 DEF Typed
<1>6. call'[f] = ended BY <1>3
<1>7. \A g \in woken : call'[g].pc = "woken" /\ g # f
      BY <1>2, <1>3, <1>4 DEF Typed, CallStates, LocalStates, KeysOf
<1>8. \A g \in Calls : g # f /\ g \notin woken => call'[g] = call[g]
      BY <1>3
<1>9. \A g \in Calls : g # f => /\ InFlight(g)' <=> InFlight(g)
                                /\ InFlight(g) => call'[g] = call[g]
                                /\ ~At(g, "idle") => call'[g].pc # "idle"
                                /\ Reliable(g) => Reliable(g)'
      BY <1>2, <1>7, <1>8 DEF InFlight, At, Reliable
<1>10. /\ waiters[f] \in Seq(Calls) /\ <<f>> \in Seq(Calls) /\ <<>> \in Seq(Calls)
       /\ Members(<<f>>) = {f} /\ Once(<<f>>) /\ Members(<<>>) = {} /\ Once(<<>>)
       BY DEF Typed, Members, Once
<1>11. /\ waiters' \in [Calls -> Seq(Calls)] /\ waiters'[f] = <<>>
       /\ \A g \in Calls : g # f => waiters'[g] = waiters[g]
       BY <1>10 DEF Settle, Typed
<1>12. ready' = (ready \o <<f>>) \o waiters[f] BY DEF Settle
<1>13. f \notin Members(ready) /\ Members(ready) \cap woken = {}
       BY <1>2 DEF Queues, Settled, InFlight, At
<1>14. Members(ready) \cap Members(<<f>>) = {} /\ (Members(ready) \cup Members(<<f>>)) \cap Members(waiters[f]) = {}
       BY <1>2, <1>10, <1>13
<1>15. /\ ready' \in Seq(Calls) /\ Members(ready') = (Members(ready) \cup {f}) \cup woken
       /\ Once(ready')
  <2>1. ready \in Seq(Calls) /\ Once(ready) /\ Once(waiters[f]) BY DEF Typed, Queues
  <2> DEFINE one == <<f>>
  <2>2. one \in Seq(Calls) /\ Once(one) /\ Members(one) = {f} /\ Members(ready) \cap Members(one) = {}
        /\ (Members(ready) \cup Members(one)) \cap Members(waiters[f]) = {}
        BY <1>10, <1>14
  <2>3. ready' = (ready \o one) \o waiters[f] BY <1>12
  <2> HIDE DEF one
  <2>4. /\ ready \o one \in Seq(Calls) /\ Members(ready \o one) = Members(ready) \cup Members(one)
        /\ Once(ready \o one)
        BY <2>1, <2>2, JoinMembers
  <2> DEFINE front == ready \o one
  <2>5. front \in Seq(Calls) /\ Once(front) /\ Members(front) \cap Members(waiters[f]) = {}
        BY <2>2, <2>4
  <2>6. ready' = front \o waiters[f] /\ Members(front) = Members(ready) \cup {f} BY <2>2, <2>3, <2>4
  <2> HIDE DEF front, woken
  <2>7. /\ front \o waiters[f] \in Seq(Calls)
        /\ Members(front \o waiters[f]) = Members(front) \cup Members(waiters[f])
        /\ Once(front \o waiters[f])
        BY <1>10, <2>1, <2>5, JoinMembers
  <2> QED BY <2>6, <2>7 DEF woken
<1>16. Queues'
  <2>1. ASSUME NEW g \in Calls
        PROVE  /\ Members(waiters'[g]) \subseteq {h \in Calls : At(h, "awaiting")'}
               /\ Once(waiters'[g])
               /\ waiters'[g] # <<>> => InFlight(g)'
    <3>1. CASE g = f BY <3>1, <1>10, <1>11
    <3>2. CASE g # f
      <4>1. Members(waiters[g]) \cap woken = {} /\ waiters'[g] = waiters[g]
            BY <3>2, <1>11 DEF Queues
      <4>2. \A h \in Members(waiters[g]) : h \in Calls /\ At(h, "awaiting") /\ h # f /\ h \notin woken
            BY <4>1 DEF Queues, InFlight, At
      <4>3. \A h \in Members(waiters[g]) : At(h, "awaiting")'
            BY <4>2, <1>8 DEF At
      <4> QED BY <3>2, <1>9, <4>1, <4>2, <4>3 DEF Queues
    <3> QED BY <3>1, <3>2
  <2>2. ASSUME NEW g \in Calls, At(g, "awaiting")'
        PROVE  \E h \in Calls : InFlight(h)' /\ g \in Members(waiters'[h])
    <3>1. g # f /\ g \notin woken /\ At(g, "awaiting")
          BY <2>2, <1>1, <1>6, <1>7, <1>8 DEF At
    <3>2. PICK h \in Calls : InFlight(h) /\ g \in Members(waiters[h])
          BY <3>1 DEF Queues
    <3>3. h # f BY <3>1, <3>2
    <3> QED BY <3>2, <3>3, <1>9, <1>11
  <2>3. Members(ready') = {g \in Calls : Settled(g)'}
    <3>1. \A g \in Calls : Settled(g)' <=> g = f \/ g \in woken \/ Settled(g)
          BY <1>1, <1>2, <1>6, <1>7, <1>8 DEF Settled, At
    <3> QED BY <1>2, <1>15, <3>1 DEF Queues
  <2>4. activeFlush' # None => InFlight(activeFlush)' \/ At(activeFlush, "drained")'
    <3>1. CASE activeFlush = f BY <3>1, <1>1, <1>6 DEF At
    <3>2. CASE activeFlush # f
          BY <3>2, <1>2, <1>8, <1>9 DEF Queues, At, Typed
    <3> QED BY <3>1, <3>2
  <2>5. \A g, h \in Calls : g # h => Members(waiters'[g]) \cap Members(waiters'[h]) = {}
        BY <1>10, <1>11 DEF Queues
  <2> QED BY <2>1, <2>2, <2>3, <2>4, <2>5, <1>15 DEF Queues
<1> QED BY <1>1, <1>5, <1>6, <1>9, <1>11, <1>15, <1>16
\* What the call carried is acknowledged, and the server holds it, or it is
\* pending again where nothing newer is.
LEMMA EndsKeeps ==
  ASSUME Typed, OneInFlight, Newest, NEW f \in Calls, At(f, "pushing"),
         call'[f].pc = "drained",
         \A g \in Calls : g # f => (InFlight(g)' <=> InFlight(g)),
         \/ /\ call[f].taken /\ call[f].left = {} /\ pending' = pending
            /\ \A k \in Keys : acknowledged'[k] = IF call[f].batch[k] # None THEN call[f].batch[k] ELSE acknowledged[k]
         \/ /\ acknowledged' = acknowledged
            /\ \A k \in Keys : pending'[k] = IF pending[k] # None THEN pending[k] ELSE call[f].batch[k],
         UNCHANGED <<ingestBlocked, server, displaced, latest, reverted, overlapped>>
  PROVE  OneInFlight' /\ Newest'
<1>1. InFlight(f) /\ ~InFlight(f)'
      BY DEF InFlight, At
<1>2. OneInFlight' BY <1>1 DEF OneInFlight
<1> SUFFICES ASSUME ~ingestBlocked, ~overlapped PROVE Newest'
      BY <1>2 DEF Newest
<1>3. \A g \in Calls : ~InFlight(g)' /\ (g # f => ~InFlight(g))
      BY <1>1 DEF OneInFlight
<1>4. \A k \in Keys : AtRest(k)' <=> pending'[k] = None
      BY <1>3 DEF AtRest, Carries
<1>5. \A k \in Keys : AtRest(k) <=> pending[k] = None /\ call[f].batch[k] = None
      BY <1>1, <1>3 DEF AtRest, Carries
<1>6. \A k \in Keys : Carries(f, k) <=> call[f].batch[k] # None
      BY <1>1 DEF Carries
<1>7. \A g \in Calls, k \in Keys : ~Carries(g, k)' /\ ~At(g, "pushing")'
      BY <1>3 DEF Carries, InFlight, At
<1>8. ASSUME NEW k \in Keys
      PROVE /\ AtRest(k)' /\ acknowledged'[k] # None /\ k \notin displaced' => server'[k] = acknowledged'[k]
            /\ latest'[k] = None => AtRest(k)' /\ acknowledged'[k] = None
            /\ k \notin reverted' /\ latest'[k] # None =>
                 /\ pending'[k] \in {None, latest'[k]}
                 /\ AtRest(k)' => acknowledged'[k] = latest'[k]
      BY <1>4, <1>5, <1>6 DEF Newest
<1> QED BY <1>7, <1>8 DEF Newest
-----------------------------------------------------------------------------
(* A call of flush between two awaits *)

\* f runs, rest is what is left of the microtask queue, active the drain that
\* others may await.
Runs(f, active, rest) ==
  /\ ~InFlight(f) /\ ~At(f, "awaiting")
  /\ rest \in Seq(Calls) /\ Once(rest) /\ Members(rest) = {g \in Calls : Settled(g)} \ {f}
  /\ active # None => active \in Calls \ {f} /\ (InFlight(active) \/ At(active, "drained"))

OthersAlone == UNCHANGED <<acknowledged, ingestBlocked, remote, latest, reverted, reports>>

LEMMA ReturnKeeps ==
  ASSUME Typed, OneInFlight, Newest, Queues, OthersAlone, timer' \in BOOLEAN,
         NEW f \in Calls, NEW active, NEW rest, Runs(f, active, rest), NEW threw \in BOOLEAN,
         Return(f, active, rest, threw)
  PROVE  Typed' /\ OneInFlight' /\ Newest' /\ Queues'
<1>1. OneInFlight' /\ Newest' /\ call' \in [Calls -> LocalStates]
      BY IdleType, CallerKeeps DEF Return, OthersAlone, remote, Runs
<1>2. Typed'
      BY <1>1 DEF Typed, Return, OthersAlone, remote, Runs
<1>3. call'[f].pc = "idle" /\ \A g \in Calls \ {f} : call'[g] = call[g]
      BY IdleType DEF Return, Typed
<1>4. \A g \in Calls : /\ InFlight(g)' <=> InFlight(g)
                       /\ At(g, "awaiting")' <=> At(g, "awaiting")
                       /\ Settled(g)' <=> g # f /\ Settled(g)
                       /\ g # f /\ At(g, "drained") => At(g, "drained")'
      BY <1>3 DEF InFlight, At, Settled, Runs
<1>5. waiters' = waiters /\ ready' = rest /\ activeFlush' = active
      BY DEF Return
<1>6. Members(ready') = {g \in Calls : Settled(g)'} /\ Once(ready')
      BY <1>4, <1>5 DEF Runs
<1>7. activeFlush' # None => InFlight(activeFlush)' \/ At(activeFlush, "drained")'
      BY <1>3, <1>5 DEF Runs, InFlight, At
<1>8. Queues'
      BY <1>4, <1>5, <1>6, <1>7 DEF Queues
<1> QED BY <1>1, <1>2, <1>8

LEMMA DrainKeeps ==
  ASSUME Typed, OneInFlight, Newest, Queues, OthersAlone, timer' \in BOOLEAN,
         NEW f \in Calls, NEW active, NEW rest, Runs(f, active, rest), NEW keepalive \in BOOLEAN,
         Drain(f, keepalive, rest)
  PROVE  Typed' /\ OneInFlight' /\ Newest' /\ Queues' /\ Reliable(f)'
<1>1. PICK items \in Batches : /\ call' = [call EXCEPT ![f] = Pushing(items, keepalive)]
                               /\ pending' = Without(pending, items)
      BY DEF Drain
<1>2. \A k \in Keys : ~Carries(f, k)
      BY DEF Carries, Runs
<1>3. ~overlapped' => ~overlapped /\ \A g \in Calls : g # f => ~InFlight(g)
      BY DEF Drain
<1>4. OneInFlight' /\ Newest' /\ call' \in [Calls -> LocalStates] /\ pending' \in Items
      BY <1>1, <1>2, <1>3, TakesKeeps DEF OthersAlone, remote, Typed
<1>5. Typed'
      BY <1>4 DEF Typed, Drain, OthersAlone, remote, Runs
<1>6. call'[f].pc = "pushing" /\ \A g \in Calls \ {f} : call'[g] = call[g]
      BY <1>1, BatchType, PushingType DEF Typed
<1>7. \A g \in Calls : /\ InFlight(g)' <=> g = f \/ InFlight(g)
                       /\ At(g, "awaiting")' <=> At(g, "awaiting")
                       /\ Settled(g)' <=> g # f /\ Settled(g)
      BY <1>6 DEF InFlight, At, Settled, Runs
<1>8. waiters' = waiters /\ ready' = rest /\ activeFlush' = f
      BY DEF Drain
<1>9. Members(ready') = {g \in Calls : Settled(g)'} /\ Once(ready')
      BY <1>7, <1>8 DEF Runs
<1>10. activeFlush' # None => InFlight(activeFlush)' \/ At(activeFlush, "drained")'
      BY <1>6, <1>8 DEF InFlight, At
<1>11. Queues'
      BY <1>7, <1>8, <1>9, <1>10 DEF Queues
<1> QED BY <1>4, <1>5, <1>6, <1>11 DEF Reliable, At
LEMMA AwaitKeeps ==
  ASSUME Typed, OneInFlight, Newest, Queues, OthersAlone, timer' \in BOOLEAN,
         NEW f \in Calls, NEW active, NEW rest, Runs(f, active, rest), NEW keepalive \in BOOLEAN,
         active # None, Await(f, keepalive, active, rest)
  PROVE  Typed' /\ OneInFlight' /\ Newest' /\ Queues' /\ Reliable(f)'
<1> DEFINE settled == At(active, "drained")
           local == [Idle EXCEPT !.keepalive = keepalive,
                       !.pc = IF settled THEN "woken" ELSE "awaiting",
                       !.failed = settled /\ call[active].failed]
<1>1. active \in Calls \ {f} /\ (settled \/ InFlight(active)) /\ ~(settled /\ InFlight(active))
      BY DEF Runs, InFlight, At
<1>2. (settled /\ call[active].failed) \in BOOLEAN
      BY <1>1 DEF Typed, CallStates, LocalStates, KeysOf
<1>3. local \in LocalStates /\ local.pc = IF settled THEN "woken" ELSE "awaiting"
      BY <1>2, IdleType DEF Idle, CallStates, LocalStates, KeysOf
<1>4. call' = [call EXCEPT ![f] = local]
      BY DEF Await
<1>5. OneInFlight' /\ Newest' /\ call' \in [Calls -> LocalStates]
  <2> HIDE DEF local
  <2>1. local.pc \notin {"pushing", "backoff"} BY <1>3
  <2> QED BY <1>3, <1>4, <2>1, CallerKeeps DEF Await, OthersAlone, remote, Runs
<1>6. call'[f].pc = (IF settled THEN "woken" ELSE "awaiting") /\ \A g \in Calls \ {f} : call'[g] = call[g]
      BY <1>3, <1>4 DEF Typed
<1> HIDE DEF local
<1>7. \A g \in Calls : /\ InFlight(g)' <=> InFlight(g)
                       /\ At(g, "awaiting")' <=> IF g = f THEN ~settled ELSE At(g, "awaiting")
                       /\ Settled(g)' <=> IF g = f THEN settled ELSE Settled(g)
      BY <1>6 DEF InFlight, At, Settled, Runs
<1>8. activeFlush' = active /\ (InFlight(active)' \/ At(active, "drained")')
      BY <1>1, <1>6, <1>7 DEF Await, At
<1>9. \A g \in Calls : /\ f \notin Members(waiters[g]) /\ waiters[g] \in Seq(Calls) /\ Once(waiters[g])
                       /\ \A h \in Members(waiters[g]) : h \in Calls /\ At(h, "awaiting")' /\ h # f
      BY <1>7 DEF Queues, Typed, Runs
<1>10. CASE settled
  <2>1. waiters' = waiters /\ ready' = Append(rest, f)
        BY <1>10 DEF Await
  <2>2. ready' \in Seq(Calls) /\ Once(ready') /\ Members(ready') = Members(rest) \cup {f}
        BY <2>1, AppendMembers DEF Runs
  <2>3. Members(ready') = {g \in Calls : Settled(g)'}
        BY <1>7, <1>10, <2>2 DEF Runs
  <2>4. Queues'
        BY <1>7, <1>8, <1>9, <1>10, <2>1, <2>2, <2>3 DEF Queues, Runs
  <2> QED BY <1>1, <1>5, <1>6, <1>8, <1>10, <2>1, <2>2, <2>4 DEF Typed, Await, OthersAlone, remote, Reliable, At
<1>11. CASE ~settled
  <2>1. /\ ready' = rest /\ waiters' \in [Calls -> Seq(Calls)]
        /\ waiters'[active] = Append(waiters[active], f)
        /\ \A g \in Calls \ {active} : waiters'[g] = waiters[g]
    <3>1. Append(waiters[active], f) \in Seq(Calls) BY <1>1, AppendProperties DEF Typed
    <3> QED BY <1>1, <1>11, <3>1 DEF Await, Typed
  <2>2. /\ Members(waiters'[active]) = Members(waiters[active]) \cup {f} /\ Once(waiters'[active])
        BY <1>1, <1>9, <2>1, AppendMembers
  <2>3. Members(ready') = {g \in Calls : Settled(g)'} /\ Once(ready')
        BY <1>7, <1>11, <2>1 DEF Runs
  <2>4. ASSUME NEW g \in Calls
        PROVE  /\ Members(waiters'[g]) \subseteq {h \in Calls : At(h, "awaiting")'}
               /\ Once(waiters'[g])
               /\ waiters'[g] # <<>> => InFlight(g)'
    <3>1. CASE g = active
      <4>1. At(f, "awaiting")' BY <1>7, <1>11
      <4>2. InFlight(g)' BY <3>1, <1>1, <1>7, <1>11
      <4> QED BY <3>1, <1>9, <2>2, <4>1, <4>2
    <3>2. CASE g # active
      <4>1. waiters'[g] = waiters[g] BY <3>2, <2>1
      <4>2. waiters[g] # <<>> => InFlight(g)' BY <1>7 DEF Queues
      <4> QED BY <1>9, <4>1, <4>2
    <3> QED BY <3>1, <3>2
  <2>5. \A g, h \in Calls : g # h => Members(waiters'[g]) \cap Members(waiters'[h]) = {}
    <3>1. ASSUME NEW g \in Calls, g # active
          PROVE  Members(waiters'[g]) \cap Members(waiters'[active]) = {}
          BY <1>1, <1>9, <2>1, <2>2, <3>1 DEF Queues
    <3>2. ASSUME NEW g \in Calls, NEW h \in Calls, g # active, h # active, g # h
          PROVE  Members(waiters'[g]) \cap Members(waiters'[h]) = {}
          BY <2>1, <3>2 DEF Queues
    <3> QED BY <1>1, <3>1, <3>2
  <2>6. ASSUME NEW g \in Calls, At(g, "awaiting")'
        PROVE  \E h \in Calls : InFlight(h)' /\ g \in Members(waiters'[h])
    <3>1. CASE g = f BY <3>1, <1>1, <1>7, <1>11, <2>2
    <3>2. CASE g # f
      <4>1. PICK h \in Calls : InFlight(h) /\ g \in Members(waiters[h])
            BY <2>6, <3>2, <1>7 DEF Queues
      <4> QED BY <4>1, <1>7, <2>1, <2>2
    <3> QED BY <3>1, <3>2
  <2>7. Queues'
        BY <1>8, <2>3, <2>4, <2>5, <2>6 DEF Queues
  <2> QED BY <1>1, <1>5, <1>6, <1>8, <1>11, <2>1, <2>7 DEF Typed, Await, OthersAlone, remote, Reliable, At, Runs
<1> QED BY <1>10, <1>11

LEMMA BeginKeeps ==
  ASSUME Typed, OneInFlight, Newest, Queues, OthersAlone,
         NEW f \in Calls, NEW active, NEW rest, Runs(f, active, rest), NEW keepalive \in BOOLEAN,
         Begin(f, keepalive, active, rest)
  PROVE  IInv'
<1>1. CASE active # None /\ Await(f, keepalive, active, rest)
      BY <1>1, AwaitKeeps DEF Begin, IInv, Relied
<1>2. CASE active = None /\ pending = Nothing /\ Return(f, None, rest, FALSE)
  <2>1. Typed' /\ OneInFlight' /\ Newest' /\ Queues'
        BY <1>2, ReturnKeeps DEF Begin
  <2> QED BY <1>2, <2>1 DEF IInv, Relied, Return, Nothing
<1>3. CASE active = None /\ pending # Nothing /\ Drain(f, keepalive, rest)
      BY <1>3, DrainKeeps DEF Begin, IInv, Relied
<1> QED BY <1>1, <1>2, <1>3 DEF Begin
-----------------------------------------------------------------------------
(* A step of a call whose batch stays, or another takes its place *)

LEMMA FlyingKeeps ==
  ASSUME Typed, Queues, NEW f \in Calls, InFlight(f), NEW local \in LocalStates,
         local.pc \in {"pushing", "backoff"}, call' = [call EXCEPT ![f] = local],
         UNCHANGED <<waiters, ready, activeFlush>>
  PROVE  /\ call' \in [Calls -> LocalStates] /\ Queues' /\ Reliable(f)'
         /\ call'[f] = local /\ \A g \in Calls \ {f} : call'[g] = call[g]
<1>1. /\ call' \in [Calls -> LocalStates] /\ call'[f] = local
      /\ \A g \in Calls \ {f} : call'[g] = call[g]
      BY DEF Typed
<1>2. \A g \in Calls : /\ InFlight(g)' <=> InFlight(g)
                       /\ At(g, "awaiting")' <=> At(g, "awaiting")
                       /\ At(g, "drained")' <=> At(g, "drained")
                       /\ Settled(g)' <=> Settled(g)
      BY <1>1 DEF InFlight, At, Settled
<1>3. activeFlush # None => activeFlush \in Calls
      BY DEF Typed
<1>4. activeFlush' # None => InFlight(activeFlush)' \/ At(activeFlush, "drained")'
      BY <1>1, <1>2, <1>3 DEF Queues, At, InFlight
<1>5. Members(ready') = {g \in Calls : Settled(g)'} /\ Once(ready')
      BY <1>2 DEF Queues
<1>6. \A g \in Calls : /\ Members(waiters'[g]) \subseteq {h \in Calls : At(h, "awaiting")'}
                       /\ Once(waiters'[g])
                       /\ waiters'[g] # <<>> => InFlight(g)'
      BY <1>2 DEF Queues
<1>7. \A g \in Calls : At(g, "awaiting")' => \E h \in Calls : InFlight(h)' /\ g \in Members(waiters'[h])
      BY <1>2 DEF Queues
<1>8. Queues'
      BY <1>4, <1>5, <1>6, <1>7 DEF Queues
<1> QED BY <1>1, <1>8 DEF Reliable, At

\* A step on the server leaves the queue, and who carries what, as they are.
LEMMA RemoteKeeps ==
  ASSUME IInv, call' \in [Calls -> LocalStates],
         \A g \in Calls : /\ call'[g].pc = call[g].pc /\ call'[g].batch = call[g].batch
                          /\ call'[g].keepalive = call[g].keepalive /\ call'[g].failed = call[g].failed,
         UNCHANGED <<queue, waiters, ready, strays, history>>,
         server' \in Items, displaced' \subseteq Keys,
         merged' \subseteq displaced', \A k \in merged' : server'[k] = None,
         ~overlapped => \A k \in Keys \ displaced' : AtRest(k) => k \notin displaced /\ server'[k] = server[k],
         ~overlapped /\ ~ingestBlocked =>
           \A f \in Calls, k \in Keys :
             At(f, "pushing") /\ call'[f].taken /\ call[f].batch[k] # None /\ k \notin call'[f].left \cup displaced'
               => server'[k] = call[f].batch[k]
  PROVE  IInv'
<1>1. \A g \in Calls : /\ InFlight(g)' <=> InFlight(g)
                       /\ Settled(g)' <=> Settled(g)
                       /\ Reliable(g)' <=> Reliable(g)
                       /\ \A pc \in {"idle", "awaiting", "pushing", "backoff", "drained", "woken"} : At(g, pc)' <=> At(g, pc)
      BY DEF InFlight, Settled, Reliable, At
<1>2. \A k \in Keys : AtRest(k)' <=> AtRest(k)
      BY <1>1 DEF AtRest, Carries, queue
<1>3. \A g \in Calls, k \in Keys : Carries(g, k)' <=> Carries(g, k)
      BY <1>1 DEF Carries
<1>4. Typed' BY DEF IInv, Typed, queue, history
<1>5. OneInFlight' BY <1>1 DEF IInv, OneInFlight, history
<1>6. Relied' BY <1>1 DEF IInv, Relied, queue, history, Nothing
<1>7. Queues'
  <2>1. activeFlush # None => activeFlush \in Calls BY DEF IInv, Typed
  <2>2. activeFlush' # None => InFlight(activeFlush)' \/ At(activeFlush, "drained")'
        BY <1>1, <2>1 DEF IInv, Queues, queue, At, InFlight
  <2> QED BY <1>1, <2>2 DEF IInv, Queues
<1> SUFFICES ASSUME ~ingestBlocked, ~overlapped PROVE Newest'
    BY <1>4, <1>5, <1>6, <1>7 DEF IInv, Newest, queue, history
<1>8. \A k \in Keys :
         /\ AtRest(k)' /\ acknowledged'[k] # None /\ k \notin displaced' => server'[k] = acknowledged'[k]
         /\ latest'[k] = None => AtRest(k)' /\ acknowledged'[k] = None
         /\ k \notin reverted' /\ latest'[k] # None =>
              /\ pending'[k] \in {None, latest'[k]}
              /\ pending'[k] = None => \A g \in Calls : Carries(g, k)' => call'[g].batch[k] = latest'[k]
              /\ AtRest(k)' => acknowledged'[k] = latest'[k]
      BY <1>2, <1>3 DEF IInv, Newest, queue, history
<1>9. \A f \in Calls, k \in Keys :
         At(f, "pushing")' /\ call'[f].taken /\ call'[f].batch[k] # None /\ k \notin call'[f].left \cup displaced'
           => server'[k] = call'[f].batch[k]
      BY <1>1
<1> QED BY <1>8, <1>9 DEF Newest

LEMMA TakeKeeps ==
  ASSUME IInv, NEW f \in Calls, Take(f)
  PROVE  IInv'
<1> DEFINE items == call[f].batch
           differing == {k \in KeysOf(items) \ merged : server[k] # items[k]}
           same == {k \in KeysOf(items) : server[k] = items[k]}
           local == [call[f] EXCEPT !.taken = TRUE, !.left = differing]
<1>1. At(f, "pushing") /\ InFlight(f)
      BY DEF Take, At, InFlight
<1>2. call' = [call EXCEPT ![f] = local] /\ displaced' = displaced \ same
      BY DEF Take, IInv, Typed
<1>3. /\ local \in LocalStates /\ local.pc = call[f].pc /\ local.batch = call[f].batch
      /\ local.keepalive = call[f].keepalive /\ local.failed = call[f].failed /\ local.left = differing
      BY <1>1 DEF IInv, Typed, CallStates, LocalStates, KeysOf, At
<1> HIDE DEF local
<1>4. call' \in [Calls -> LocalStates] /\ call'[f] = local /\ \A g \in Calls \ {f} : call'[g] = call[g]
      BY <1>2, <1>3 DEF IInv, Typed
<1>5. /\ UNCHANGED <<queue, waiters, ready, strays, history, server, merged>>
      BY DEF Take
<1>6. merged \cap same = {}
      BY DEF IInv, Typed, KeysOf
<1>7. ~overlapped => \A k \in Keys \ displaced' : AtRest(k) => k \notin displaced /\ server'[k] = server[k]
      BY <1>1, <1>2, <1>5 DEF AtRest, Carries, KeysOf
<1>8. ASSUME ~overlapped, ~ingestBlocked, NEW g \in Calls, NEW k \in Keys, At(g, "pushing"),
             call[g].batch[k] # None, k \notin call'[g].left \cup displaced'
      PROVE  server'[k] = call[g].batch[k]
  <2>1. g = f BY <1>1, <1>8 DEF IInv, OneInFlight, At, InFlight
  <2>2. k \in KeysOf(items) /\ k \notin differing BY <1>3, <1>4, <1>8, <2>1 DEF KeysOf
  <2>3. k \notin merged
        BY <1>2, <1>6, <1>8 DEF IInv, Typed
  <2> QED BY <1>5, <2>1, <2>2, <2>3
<1>9. displaced' \subseteq Keys /\ merged' \subseteq displaced' /\ \A k \in merged' : server'[k] = None
      BY <1>2, <1>5, <1>6 DEF IInv, Typed
<1>10. server' \in Items BY <1>5 DEF IInv, Typed
<1>11. \A g \in Calls : /\ call'[g].pc = call[g].pc /\ call'[g].batch = call[g].batch
                        /\ call'[g].keepalive = call[g].keepalive /\ call'[g].failed = call[g].failed
       BY <1>3, <1>4
<1> HIDE DEF items, differing, same
<1> QED BY <1>4, <1>5, <1>7, <1>8, <1>9, <1>10, <1>11, RemoteKeeps

LEMMA ApplyKeeps ==
  ASSUME IInv, NEW f \in Calls, NEW k \in Keys, Apply(f, k)
  PROVE  IInv'
<1> DEFINE local == [call[f] EXCEPT !.left = call[f].left \ {k}]
<1>1. At(f, "pushing") /\ InFlight(f) /\ k \in call[f].left /\ k \notin merged
      BY DEF Apply, At, InFlight
<1>2. call' = [call EXCEPT ![f] = local] /\ displaced' = displaced \ {k}
      BY DEF Apply, IInv, Typed
<1>3. /\ local \in LocalStates /\ local.pc = call[f].pc /\ local.batch = call[f].batch /\ local.taken = call[f].taken
      /\ local.keepalive = call[f].keepalive /\ local.failed = call[f].failed /\ local.left = call[f].left \ {k}
      /\ k \in KeysOf(call[f].batch) /\ call[f].batch \in Items
      BY <1>1 DEF IInv, Typed, CallStates, LocalStates, KeysOf
<1> HIDE DEF local
<1>4. call' \in [Calls -> LocalStates] /\ call'[f] = local /\ \A g \in Calls \ {f} : call'[g] = call[g]
      BY <1>2, <1>3 DEF IInv, Typed
<1>5. /\ UNCHANGED <<queue, waiters, ready, strays, history, merged>>
      BY DEF Apply
<1>6. /\ server' \in Items /\ server'[k] = call[f].batch[k]
      /\ \A l \in Keys \ {k} : server'[l] = server[l]
      BY <1>3 DEF Apply, IInv, Typed, Items
<1>7. ~overlapped => \A l \in Keys \ displaced' : AtRest(l) => l \notin displaced /\ server'[l] = server[l]
  <2>1. ~AtRest(k) BY <1>1, <1>3 DEF AtRest, Carries, KeysOf
  <2> QED BY <2>1, <1>2, <1>6
<1>8. ASSUME ~overlapped, ~ingestBlocked, NEW g \in Calls, NEW l \in Keys, At(g, "pushing"),
             call'[g].taken, call[g].batch[l] # None, l \notin call'[g].left \cup displaced'
      PROVE  server'[l] = call[g].batch[l]
  <2>1. g = f BY <1>1, <1>8 DEF IInv, OneInFlight, At, InFlight
  <2>2. CASE l = k BY <1>6, <2>1, <2>2
  <2>3. CASE l # k
    <3>1. call[f].taken /\ l \notin call[f].left \cup displaced
          BY <1>2, <1>3, <1>4, <1>8, <2>1, <2>3
    <3> QED BY <1>1, <1>6, <1>8, <2>1, <2>3, <3>1 DEF IInv, Newest
  <2> QED BY <2>2, <2>3
<1>9. displaced' \subseteq Keys /\ merged' \subseteq displaced' /\ \A l \in merged' : server'[l] = None
      BY <1>1, <1>2, <1>5, <1>6 DEF IInv, Typed
<1>11. \A g \in Calls : /\ call'[g].pc = call[g].pc /\ call'[g].batch = call[g].batch
                        /\ call'[g].keepalive = call[g].keepalive /\ call'[g].failed = call[g].failed
       BY <1>3, <1>4
<1> QED BY <1>4, <1>5, <1>6, <1>7, <1>8, <1>9, <1>11, RemoteKeeps

\* The text of one key is replaced by another's doing, and that is recorded.
LEMMA DisplacedKeeps ==
  ASSUME IInv, NEW k \in Keys,
         UNCHANGED <<queue, call, waiters, ready, strays, history>>,
         server' \in Items, \A l \in Keys \ {k} : server'[l] = server[l],
         displaced' \in {displaced, displaced \cup {k}}, k \in displaced' \/ server'[k] = server[k],
         merged' \subseteq displaced', \A l \in merged' : server'[l] = None
  PROVE  IInv'
<1>1. \A l \in Keys \ displaced' : l \notin displaced /\ server'[l] = server[l]
      OBVIOUS
<1>2. ~overlapped /\ ~ingestBlocked =>
        \A f \in Calls, l \in Keys :
          At(f, "pushing") /\ call'[f].taken /\ call[f].batch[l] # None /\ l \notin call'[f].left \cup displaced'
            => server'[l] = call[f].batch[l]
      BY <1>1 DEF IInv, Newest
<1>3. displaced' \subseteq Keys /\ call' \in [Calls -> LocalStates]
      BY DEF IInv, Typed
<1> QED BY <1>1, <1>2, <1>3, RemoteKeeps

LEMMA StrayKeeps ==
  ASSUME IInv, NEW k \in Keys, NEW t \in Texts, Stray(k, t)
  PROVE  IInv'
<1>1. /\ server' \in Items /\ server'[k] = t /\ \A l \in Keys \ {k} : server'[l] = server[l]
      BY DEF Stray, IInv, Typed, Items
<1>2. displaced' \in {displaced, displaced \cup {k}} /\ (k \in displaced' \/ server'[k] = server[k])
      BY <1>1 DEF Stray
<1>3. merged' \subseteq displaced' /\ \A l \in merged' : server'[l] = None
      BY <1>1, <1>2 DEF Stray, IInv, Typed
<1> QED BY <1>1, <1>2, <1>3, DisplacedKeeps DEF Stray

LEMMA RetireKeeps ==
  ASSUME IInv, NEW k \in Keys, NEW asAlias \in BOOLEAN, Retire(k, asAlias)
  PROVE  IInv'
<1>1. /\ server' \in Items /\ server'[k] = None /\ \A l \in Keys \ {k} : server'[l] = server[l]
      BY DEF Retire, IInv, Typed, Items
<1>2. displaced' = displaced \cup {k} /\ merged' \in {merged, merged \cup {k}}
      BY DEF Retire
<1>3. merged' \subseteq displaced' /\ \A l \in merged' : server'[l] = None
      BY <1>1, <1>2 DEF IInv, Typed
<1> QED BY <1>1, <1>2, <1>3, DisplacedKeeps DEF Retire

\* What an abandoned handler may still store.
LEMMA AbandonType ==
  ASSUME Typed, NEW f \in Calls, Abandon(f)
  PROVE  strays' \subseteq Keys \X Texts /\ UNCHANGED <<server, merged, displaced>>
<1> DEFINE rest == IF call[f].taken THEN call[f].left ELSE KeysOf(call[f].batch)
<1>1. call[f].batch \in Items /\ call[f].left \subseteq KeysOf(call[f].batch)
      BY DEF Typed, CallStates, LocalStates
<1>2. \A k \in rest : k \in Keys /\ call[f].batch[k] \in Texts
      BY <1>1 DEF KeysOf, Items
<1>3. {<<k, call[f].batch[k]>> : k \in rest} \subseteq Keys \X Texts
      BY <1>2
<1>4. strays' = strays \cup {<<k, call[f].batch[k]>> : k \in rest} /\ UNCHANGED <<server, merged, displaced>>
      BY DEF Abandon
<1> QED BY <1>3, <1>4 DEF Typed

\* An attempt fails, or the next one starts.
LEMMA AttemptKeeps ==
  ASSUME IInv, NEW f \in Calls, InFlight(f), NEW local \in LocalStates,
         local.pc \in {"pushing", "backoff"}, local.batch = call[f].batch,
         local.pc = "pushing" => ~local.taken,
         call' = [call EXCEPT ![f] = local],
         strays' \subseteq Keys \X Texts,
         UNCHANGED <<queue, waiters, ready, server, merged, displaced, history>>
  PROVE  IInv'
<1>1. /\ call' \in [Calls -> LocalStates] /\ Queues' /\ Reliable(f)'
      /\ call'[f] = local /\ \A g \in Calls \ {f} : call'[g] = call[g]
      BY FlyingKeeps DEF IInv, queue
<1>2. \A g \in Calls : /\ InFlight(g)' <=> InFlight(g)
                       /\ InFlight(g) => call'[g].batch = call[g].batch
                       /\ (At(g, "pushing") /\ call[g].taken)' => At(g, "pushing") /\ call[g].taken /\ call'[g].left = call[g].left
      BY <1>1 DEF InFlight, At
<1>3. OneInFlight' /\ Newest'
      BY <1>2, QuietKeeps DEF IInv, queue, history
<1>4. Typed' /\ Relied'
      BY <1>1 DEF IInv, Typed, Relied, queue, history
<1> QED BY <1>1, <1>3, <1>4 DEF IInv

LEMMA AnswerLostKeeps ==
  ASSUME IInv, NEW f \in Calls, AnswerLost(f)
  PROVE  IInv'
<1> DEFINE local == [call[f] EXCEPT !.pc = "backoff", !.taken = FALSE, !.left = {}]
<1>1. /\ local \in LocalStates /\ local.pc = "backoff" /\ local.batch = call[f].batch
      /\ call' = [call EXCEPT ![f] = local] /\ InFlight(f)
      BY DEF IInv, Typed, CallStates, LocalStates, KeysOf, AnswerLost, At, InFlight
<1> HIDE DEF local
<1>2. strays' \subseteq Keys \X Texts /\ UNCHANGED <<server, merged, displaced>>
      BY AbandonType DEF IInv, AnswerLost
<1> QED BY <1>1, <1>2, AttemptKeeps DEF AnswerLost

LEMMA RetryKeeps ==
  ASSUME IInv, NEW f \in Calls, Retry(f)
  PROVE  IInv'
<1> DEFINE local == [call[f] EXCEPT !.pc = "pushing", !.attempt = call[f].attempt + 1]
<1>1. local \in LocalStates /\ local.pc = "pushing" /\ local.batch = call[f].batch /\ ~local.taken
  <2>1. call[f] \in LocalStates /\ ~call[f].taken BY DEF IInv, Typed, LocalStates, Retry, At
  <2>2. call[f].attempt + 1 \in Nat BY <2>1 DEF LocalStates, CallStates
  <2> QED BY <2>1, <2>2 DEF LocalStates, CallStates, KeysOf
<1>2. call \in [Calls -> LocalStates]
      BY DEF IInv, Typed
<1>3. call' = [call EXCEPT ![f] = local]
      BY <1>2 DEF Retry
<1>4. InFlight(f)
      BY DEF Retry, At, InFlight
<1> HIDE DEF local
<1>5. strays' \subseteq Keys \X Texts /\ UNCHANGED <<server, merged, displaced>>
      BY DEF Retry, remote, IInv, Typed
<1> QED BY <1>1, <1>3, <1>4, <1>5, AttemptKeeps DEF Retry
-----------------------------------------------------------------------------
(* The steps of the app and of the event loop *)

LEMMA EnqueueKeeps ==
  ASSUME IInv, NEW k \in Keys, NEW t \in Texts, Enqueue(k, t)
  PROVE  IInv'
<1>1. t # None
      BY ConstantsAssumption
<1>2. /\ pending' \in Items /\ \A l \in Keys \ {k} : pending'[l] = pending[l]
      /\ pending'[k] = IF IsKnown(k, t) THEN pending[k] ELSE t
      BY DEF IInv, Typed, Items, Enqueue
<1>3. /\ latest' \in Items /\ latest'[k] = t /\ \A l \in Keys \ {k} : latest'[l] = latest[l]
      BY DEF IInv, Typed, Items, Enqueue
<1>4. Typed'
  <2>1. timer' \in BOOLEAN /\ stalled' \in BOOLEAN /\ reverted' \subseteq Keys /\ reports' \in Nat
        BY DEF IInv, Typed, Enqueue, Schedules, IsKnown
  <2> QED BY <1>2, <1>3, <2>1 DEF IInv, Typed, Enqueue, remote
<1>5. Queues' /\ OneInFlight'
      BY DEF IInv, Queues, OneInFlight, Enqueue, At, InFlight, Settled
<1>6. Relied'
      BY <1>1 DEF IInv, Relied, Enqueue, Schedules, Reliable, At
<1> SUFFICES ASSUME ~ingestBlocked, ~overlapped PROVE Newest'
      BY <1>4, <1>5, <1>6 DEF IInv, Newest, Enqueue
<1>7. \A g \in Calls, l \in Keys : Carries(g, l)' <=> Carries(g, l)
      BY DEF Carries, InFlight, Enqueue
<1>8. \A l \in Keys : AtRest(l)' <=> pending'[l] = None /\ \A g \in Calls : ~Carries(g, l)
      BY <1>7 DEF AtRest
<1>9. \A g \in Calls, l \in Keys :
        At(g, "pushing")' /\ call'[g].taken /\ call'[g].batch[l] # None /\ l \notin call'[g].left \cup displaced'
           => server'[l] = call'[g].batch[l]
      BY DEF IInv, Newest, Enqueue, remote, At
<1>10. ASSUME NEW l \in Keys
       PROVE /\ AtRest(l)' /\ acknowledged'[l] # None /\ l \notin displaced' => server'[l] = acknowledged'[l]
             /\ latest'[l] = None => AtRest(l)' /\ acknowledged'[l] = None
             /\ l \notin reverted' /\ latest'[l] # None =>
                  /\ pending'[l] \in {None, latest'[l]}
                  /\ pending'[l] = None => \A g \in Calls : Carries(g, l)' => call'[g].batch[l] = latest'[l]
                  /\ AtRest(l)' => acknowledged'[l] = latest'[l]
  <2>1. acknowledged' = acknowledged /\ server' = server /\ displaced' = displaced /\ call' = call
        BY DEF Enqueue, remote
  <2>2. AtRest(l) <=> pending[l] = None /\ \A g \in Calls : ~Carries(g, l)
        BY DEF AtRest
  <2>3. CASE l # k
    <3>1. l \in reverted' <=> l \in reverted BY <2>3 DEF Enqueue
    <3>2. pending'[l] = pending[l] /\ latest'[l] = latest[l] /\ (AtRest(l)' <=> AtRest(l))
          BY <2>2, <2>3, <1>2, <1>3, <1>8
    <3> QED BY <1>7, <2>1, <3>1, <3>2 DEF IInv, Newest
  <2>4. CASE l = k /\ ~IsKnown(k, t)
    <3>1. pending'[l] = t /\ latest'[l] = t /\ ~AtRest(l)' BY <2>4, <1>1, <1>2, <1>3, <1>8
    <3> QED BY <1>1, <3>1
  <2>5. CASE l = k /\ IsKnown(k, t)
    <3>1. latest'[l] = t /\ pending'[l] = pending[l] BY <2>5, <1>2, <1>3
    <3>2. pending[l] = t \/ (pending[l] = None /\ acknowledged[l] = t)
          BY <2>5 DEF IsKnown
    <3>3. l \notin reverted' => pending[l] # None \/ \A g \in Calls : ~Carries(g, l)
          BY <2>5 DEF Enqueue
    <3>4. /\ AtRest(l)' => acknowledged'[l] = t
          /\ AtRest(l)' /\ l \notin displaced' => server'[l] = acknowledged'[l]
          BY <1>1, <1>8, <2>1, <2>2, <3>1, <3>2 DEF IInv, Newest
    <3> QED BY <1>1, <1>7, <3>1, <3>2, <3>3, <3>4
  <2> QED BY <2>3, <2>4, <2>5
<1> QED BY <1>9, <1>10 DEF Newest

LEMMA DisposeKeeps ==
  ASSUME IInv, Dispose
  PROVE  IInv'
<1>1. OneInFlight' /\ Newest'
  <2>1. \A g \in Calls : /\ InFlight(g)' <=> InFlight(g)
                         /\ InFlight(g) => call'[g].batch = call[g].batch
                         /\ (At(g, "pushing") /\ call[g].taken)' => At(g, "pushing") /\ call[g].taken /\ call'[g].left = call[g].left
        BY DEF Dispose, InFlight, At
  <2> QED BY <2>1, QuietKeeps DEF IInv, Dispose, remote
<1>2. Typed' /\ Relied'
      BY DEF IInv, Typed, Relied, Dispose, remote
<1>3. Queues'
      BY DEF IInv, Queues, Dispose, At, InFlight, Settled
<1> QED BY <1>1, <1>2, <1>3 DEF IInv

LEMMA IdleRuns ==
  ASSUME Typed, Queues, NEW f \in Calls, At(f, "idle")
  PROVE  Runs(f, activeFlush, ready)
BY DEF Runs, Typed, Queues, At, InFlight, Settled

LEMMA FlushKeeps ==
  ASSUME IInv, NEW f \in Calls, NEW keepalive \in BOOLEAN, Flush(f, keepalive)
  PROVE  IInv'
BY IdleRuns, BeginKeeps DEF IInv, Flush, OthersAlone

LEMMA TimerKeeps ==
  ASSUME IInv, NEW f \in Calls, TimerFires(f)
  PROVE  IInv'
BY IdleRuns, BeginKeeps DEF IInv, TimerFires, OthersAlone

LEMMA ResumeKeeps ==
  ASSUME IInv, NEW f \in Calls, Resume(f)
  PROVE  IInv'
<1> DEFINE rest == Tail(ready)
           active == IF At(f, "drained") /\ activeFlush = f THEN None ELSE activeFlush
<1>1. OthersAlone
      BY DEF Resume, OthersAlone
<1>2. f = Head(ready) /\ ready # <<>>
      BY DEF Resume
<1>3. /\ rest \in Seq(Calls) /\ Once(rest) /\ f \notin Members(rest)
      /\ Members(ready) = Members(rest) \cup {f}
      BY <1>2, TailMembers DEF IInv, Typed, Queues
<1>4. Settled(f)
      BY <1>3 DEF IInv, Queues
<1>5. Members(rest) = {g \in Calls : Settled(g)} \ {f}
      BY <1>3 DEF IInv, Queues
<1>6. active # None => active \in Calls \ {f} /\ (InFlight(active) \/ At(active, "drained"))
      BY <1>4 DEF IInv, Typed, Queues, Settled, InFlight, At
<1>7. Runs(f, active, rest)
      BY <1>3, <1>4, <1>5, <1>6 DEF Runs, Settled, InFlight, At
<1>8. timer \in BOOLEAN /\ call[f].keepalive \in BOOLEAN
      BY DEF IInv, Typed, CallStates, LocalStates, KeysOf
<1>9. \/ /\ call[f].failed /\ Return(f, active, rest, TRUE) /\ UNCHANGED timer
      \/ /\ pending = Nothing \/ (At(f, "drained") /\ call[f].keepalive /\ ~call[f].failed)
         /\ Return(f, active, rest, FALSE) /\ UNCHANGED timer
      \/ Begin(f, FALSE, active, rest)
      \/ pending # Nothing /\ Drain(f, call[f].keepalive, rest) /\ UNCHANGED timer
      BY DEF Resume
<1> HIDE DEF rest, active
<1>10. CASE call[f].failed /\ Return(f, active, rest, TRUE) /\ UNCHANGED timer
  <2>1. Typed' /\ OneInFlight' /\ Newest' /\ Queues'
        BY <1>1, <1>7, <1>8, <1>10, ReturnKeeps DEF IInv
  <2> QED BY <2>1, <1>10 DEF IInv, Relied, Return
<1>11. CASE /\ pending = Nothing \/ (At(f, "drained") /\ call[f].keepalive /\ ~call[f].failed)
            /\ Return(f, active, rest, FALSE) /\ UNCHANGED timer
  <2>1. Typed' /\ OneInFlight' /\ Newest' /\ Queues'
        BY <1>1, <1>7, <1>8, <1>11, ReturnKeeps DEF IInv
  <2>2. \A g \in Calls \ {f} : Reliable(g) => Reliable(g)'
        BY <1>11 DEF IInv, Typed, Return, Reliable, At
  <2>3. pending # Nothing => ~Reliable(f)
        BY <1>11 DEF Reliable
  <2>4. pending' = pending /\ stalled' = stalled /\ timer' = timer /\ (Nothing)' = Nothing
        BY <1>8, <1>11 DEF Return, IInv, Typed, Nothing
  <2>5. Relied'
        BY <2>2, <2>3, <2>4 DEF IInv, Relied
  <2> QED BY <2>1, <2>5 DEF IInv
<1>12. CASE Begin(f, FALSE, active, rest)
      BY <1>1, <1>7, <1>12, BeginKeeps DEF IInv
<1>13. CASE pending # Nothing /\ Drain(f, call[f].keepalive, rest) /\ UNCHANGED timer
  <2>1. Typed' /\ OneInFlight' /\ Newest' /\ Queues' /\ Reliable(f)'
        BY <1>1, <1>7, <1>8, <1>13, DrainKeeps DEF IInv
  <2> QED BY <2>1 DEF IInv, Relied
<1> QED BY <1>9, <1>10, <1>11, <1>12, <1>13
-----------------------------------------------------------------------------
(* The answers to a push *)

LEMMA AnswerKeeps ==
  ASSUME IInv, NEW f \in Calls, Answer(f)
  PROVE  IInv'
<1>1. /\ InFlight(f) /\ At(f, "pushing") /\ call[f].taken /\ call[f].left = {} /\ call[f].batch \in Items
      /\ call[f].keepalive \in BOOLEAN
      BY DEF IInv, Typed, CallStates, LocalStates, KeysOf, Answer, At, InFlight
<1>2. /\ acknowledged' \in Items
      /\ \A k \in Keys : acknowledged'[k] = IF call[f].batch[k] # None THEN call[f].batch[k] ELSE acknowledged[k]
      BY <1>1, OverType DEF Answer, IInv, Typed
<1>3. CASE /\ pending # Nothing
           /\ \E items \in Batches :
                /\ call' = [call EXCEPT ![f] = Pushing(items, call[f].keepalive)]
                /\ pending' = Without(pending, items)
           /\ UNCHANGED <<ready, waiters>>
  <2>1. PICK items \in Batches : /\ call' = [call EXCEPT ![f] = Pushing(items, call[f].keepalive)]
                                 /\ pending' = Without(pending, items)
        BY <1>3
  <2>2. /\ Pushing(items, call[f].keepalive) \in LocalStates
        /\ Pushing(items, call[f].keepalive).pc = "pushing"
        BY <1>1, BatchType, PushingType DEF IInv
  <2>3. UNCHANGED <<remote, server, displaced, latest, reverted, overlapped, ingestBlocked, waiters, ready, activeFlush>>
        BY <1>3 DEF Answer, remote, history
  <2>4. Queues' /\ Reliable(f)'
        BY <1>1, <2>1, <2>2, <2>3, FlyingKeeps DEF IInv
  <2>5. \A k \in Keys : Carries(f, k) => call[f].batch[k] # None
        BY DEF Carries
  <2>6. \A k \in Keys : ~Carries(f, k) => call[f].batch[k] = None
        BY <1>1 DEF Carries
  <2>7. ~overlapped' => \A g \in Calls : g # f => ~InFlight(g)
        BY <1>1, <2>3 DEF IInv, OneInFlight
  <2>8. \A k \in Keys : Carries(f, k) /\ ~overlapped' /\ ~ingestBlocked' =>
            acknowledged'[k] = call[f].batch[k] /\ (k \notin displaced => server[k] = call[f].batch[k])
        BY <1>1, <1>2, <2>3, <2>5 DEF IInv, Newest
  <2>9. \A k \in Keys : ~Carries(f, k) => acknowledged'[k] = acknowledged[k]
        BY <1>2, <2>6
  <2>10. OneInFlight' /\ Newest' /\ call' \in [Calls -> LocalStates] /\ pending' \in Items
        BY <1>1, <1>2, <2>1, <2>3, <2>7, <2>8, <2>9, TakesKeeps DEF IInv
  <2>11. Typed'
        BY <1>2, <1>3, <2>10 DEF IInv, Typed, Answer, remote, history
  <2> QED BY <2>4, <2>10, <2>11 DEF IInv, Relied
<1>4. CASE pending = Nothing /\ Settle(f, FALSE) /\ UNCHANGED pending
  <2>1. /\ call' \in [Calls -> LocalStates] /\ waiters' \in [Calls -> Seq(Calls)] /\ ready' \in Seq(Calls)
        /\ call'[f].pc = "drained" /\ \A g \in Calls : g # f => (InFlight(g)' <=> InFlight(g))
        /\ Queues'
        BY <1>1, <1>4, SettleStep DEF IInv, Answer
  <2>2. OneInFlight' /\ Newest'
        BY <1>1, <1>2, <1>4, <2>1, EndsKeeps DEF IInv, Answer, remote, history
  <2>3. Typed' /\ Relied'
        BY <1>2, <1>4, <2>1 DEF IInv, Typed, Relied, Answer, remote, history, Nothing
  <2> QED BY <2>1, <2>2, <2>3 DEF IInv
<1> QED BY <1>3, <1>4 DEF Answer

LEMMA GiveUpKeeps ==
  ASSUME IInv, NEW f \in Calls, GiveUp(f)
  PROVE  IInv'
<1>1. InFlight(f) /\ At(f, "pushing") /\ call[f].batch \in Items
      BY DEF IInv, Typed, CallStates, LocalStates, KeysOf, GiveUp, At, InFlight
<1>2. /\ pending' \in Items
      /\ \A k \in Keys : pending'[k] = IF pending[k] # None THEN pending[k] ELSE call[f].batch[k]
      BY <1>1, OverType DEF GiveUp, PutBack, IInv, Typed
<1>3. /\ call' \in [Calls -> LocalStates] /\ waiters' \in [Calls -> Seq(Calls)] /\ ready' \in Seq(Calls)
      /\ call'[f].pc = "drained" /\ call'[f].failed = TRUE
      /\ \A g \in Calls : g # f => (InFlight(g)' <=> InFlight(g))
      /\ Queues'
      BY <1>1, SettleStep DEF IInv, GiveUp
<1>7. strays' \subseteq Keys \X Texts /\ UNCHANGED <<server, merged, displaced>>
      BY AbandonType DEF IInv, GiveUp
<1>4. OneInFlight' /\ Newest'
      BY <1>1, <1>2, <1>3, <1>7, EndsKeeps DEF IInv, GiveUp, history
<1>5. Typed'
      BY <1>2, <1>3, <1>7 DEF IInv, Typed, GiveUp, history
<1>6. Reliable(f)'
      BY <1>3 DEF Reliable, At
<1> QED BY <1>3, <1>4, <1>5, <1>6 DEF IInv, Relied

LEMMA RefusedKeeps ==
  ASSUME IInv, NEW f \in Calls, Refused(f)
  PROVE  IInv'
<1>1. InFlight(f)
      BY DEF Refused, At, InFlight
<1>2. /\ call' \in [Calls -> LocalStates] /\ waiters' \in [Calls -> Seq(Calls)] /\ ready' \in Seq(Calls)
      /\ call'[f].pc = "drained" /\ \A g \in Calls : g # f => (InFlight(g)' <=> InFlight(g))
      /\ Queues'
      BY <1>1, SettleStep DEF IInv, Refused
<1>3. OneInFlight'
      BY <1>2 DEF IInv, OneInFlight, Refused, history, InFlight
<1>4. Newest' BY DEF Newest, Refused
<1>5. Typed' /\ Relied'
      BY <1>2 DEF IInv, Typed, Relied, Refused, remote, history, Nothing, Items
<1> QED BY <1>2, <1>3, <1>4, <1>5 DEF IInv

-----------------------------------------------------------------------------
(* The specification *)

LEMMA InitHolds == Init => IInv
<1> SUFFICES ASSUME Init PROVE IInv
    OBVIOUS
<1>1. Nothing \in Items /\ \A k \in Keys : Nothing[k] = None
      BY DEF Nothing, Items
<1>2. \A f \in Calls : call[f] = Idle /\ ~InFlight(f) /\ At(f, "idle")
      BY IdleType DEF Init, InFlight, At
<1>3. \A f \in Calls : waiters[f] = <<>>
      BY DEF Init
<1>4. Members(<<>>) = {} /\ Once(<<>>)
      BY DEF Members, Once
<1>5. Typed
  <2>1. call \in [Calls -> LocalStates] BY IdleType DEF Init
  <2>2. waiters \in [Calls -> Seq(Calls)] /\ ready \in Seq(Calls) BY DEF Init
  <2> QED BY <1>1, <2>1, <2>2 DEF Init, Typed
<1>6. Queues
  <2>1. \A f \in Calls : ~Settled(f) /\ ~At(f, "awaiting")
        BY <1>2 DEF Settled, At
  <2> QED BY <1>3, <1>4, <2>1 DEF Init, Queues
<1>7. OneInFlight /\ Relied
      BY <1>2 DEF OneInFlight, Relied, Init
<1>8. Newest
  <2>1. \A f \in Calls, k \in Keys : ~Carries(f, k) /\ ~At(f, "pushing")
        BY <1>2 DEF Carries, InFlight, At
  <2> QED BY <1>1, <2>1 DEF Newest, AtRest, Init
<1> QED BY <1>5, <1>6, <1>7, <1>8 DEF IInv

LEMMA StutterKeeps == IInv /\ UNCHANGED vars => IInv'
BY DEF IInv, Typed, OneInFlight, Newest, AtRest, Carries, Queues, Relied, Reliable, Settled, InFlight, At,
       vars, queue, remote, history

LEMMA NextKeeps == IInv /\ [Next]_vars => IInv'
<1> SUFFICES ASSUME IInv, Next PROVE IInv'
    BY StutterKeeps
<1>1. ASSUME NEW f \in Calls, Progress(f) PROVE IInv'
      BY <1>1, ResumeKeeps, AnswerKeeps, AnswerLostKeeps, RetryKeeps, GiveUpKeeps, RefusedKeeps DEF Progress
<1> QED BY <1>1, EnqueueKeeps, DisposeKeeps, FlushKeeps, TimerKeeps, TakeKeeps, ApplyKeeps,
       StrayKeeps, RetireKeeps DEF Next

LEMMA Invariant == Spec => []IInv
BY InitHolds, NextKeeps, PTL DEF Spec

\* Every variable keeps its type, ready lists exactly the calls whose await is
\* over, and nobody waits for a drain that has ended without being resumed.
THEOREM TypeCorrect == Spec => []TypeOK
<1>1. ASSUME IInv PROVE TypeOK
  <2>1. {ready[i] : i \in 1..Len(ready)} = {f \in Calls : call[f].pc \in {"drained", "woken"}}
        BY <1>1 DEF IInv, Queues, Members, Settled, At
  <2>2. ASSUME NEW f \in Calls, At(f, "awaiting")
        PROVE  \E g \in Calls : InFlight(g) /\ \E i \in 1..Len(waiters[g]) : waiters[g][i] = f
    <3>1. PICK g \in Calls : InFlight(g) /\ f \in Members(waiters[g])
          BY <1>1, <2>2 DEF IInv, Queues
    <3> QED BY <3>1 DEF Members
  <2> QED BY <1>1, <2>1, <2>2 DEF IInv, Typed, LocalStates, TypeOK
<1> QED BY <1>1, Invariant, PTL

\* The text reported last is pending, in flight or acknowledged, and no older
\* text of the key comes after it, for any keys, texts, batch size and number
\* of retries and concurrent calls of flush.
THEOREM LatestIsKept == Spec => []LatestKept
<1>1. ASSUME IInv PROVE LatestKept
  <2> SUFFICES ASSUME ~ingestBlocked, ~overlapped, NEW k \in Keys \ reverted, latest[k] # None
               PROVE  Final(k) = {latest[k]}
      BY DEF LatestKept
  <2>1. CASE pending[k] # None
        BY <1>1, <2>1 DEF IInv, Newest, Final
  <2>2. CASE pending[k] = None /\ \E f \in Calls : Carries(f, k)
    <3>1. \A f \in Calls : Carries(f, k) => call[f].batch[k] = latest[k]
          BY <1>1, <2>2 DEF IInv, Newest
    <3>2. {call[f].batch[k] : f \in {g \in Calls : Carries(g, k)}} = {latest[k]}
          BY <2>2, <3>1
    <3> QED BY <2>2, <3>2 DEF Final
  <2>3. CASE pending[k] = None /\ \A f \in Calls : ~Carries(f, k)
        BY <1>1, <2>3 DEF IInv, Newest, AtRest, Final
  <2> QED BY <2>1, <2>2, <2>3
<1> QED BY <1>1, Invariant, PTL

\* When nothing of a key is pending or in flight, the server holds the text
\* that was reported last, whatever answers were lost on the way and wherever
\* handlers stopped in a batch, unless an abandoned handler, a merge or a rename
\* came after the text was stored.
THEOREM ServerCatchesUp == Spec => []ServerHasLatest
<1>1. IInv => ServerHasLatest
      BY ConstantsAssumption DEF IInv, Newest, AtRest, ServerHasLatest
<1> QED BY <1>1, Invariant, PTL

\* What is pending is never left without a timer or a running flush, unless a
\* flush has thrown or the client was disposed.
THEOREM PendingIsSent == Spec => []NothingStranded
<1>1. IInv => NothingStranded
      BY DEF IInv, Relied, Reliable, NothingStranded
<1> QED BY <1>1, Invariant, PTL
=============================================================================
