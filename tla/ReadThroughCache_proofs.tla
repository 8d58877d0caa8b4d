----------------------- MODULE ReadThroughCache_proofs -----------------------
(* What the read cache never serves, and how much it remembers, for any     *)
(* number of keys, projects, callers and writers.                           *)
(*                                                                          *)
(* A miss is answered with a value at least as new as the invalidation the  *)
(* call came after.  The reason is that a promise is in pending only while  *)
(* its load has seen every invalidation so far (PendingIsCurrent), so that  *)
(* a caller who joins it began, as far as invalidations go, when it did     *)
(* (JoinedAtOnce).                                                          *)
(*                                                                          *)
(* The limit rests on order listing each remembered key once (Ordered): it  *)
(* is as long as there are entries, so that the one in front can make room. *)
(* What an invalidation leaves of it is a recursion over its length; its    *)
(* facts are proved by induction, stated of sets (NumbersByInduction).      *)
EXTENDS ReadThroughCache, SequenceTheorems, FiniteSetTheorems, WellFoundedInduction, TLAPS

Loading(c) == call[c].pc \in {"query", "loaded", "failed", "settled"}
Loaded(c) == call[c].pc \in {"loaded", "settled"}

Types ==
  /\ db \in [Projects -> Nat]
  /\ reads \in [Keys -> Entries \cup {None}]
  /\ pending \in [Keys -> Callers \cup {None}]
  /\ call \in [Callers -> CallStates]
  /\ owed \in [Writers -> Projects \cup {None}]
  /\ covered \in [Projects -> Nat]

CoveredIsCommitted == \A p \in Projects : covered[p] <= db[p]

LoadsAreSound ==
  \A c \in Callers :
    /\ Loading(c) => call[c].key \in Keys /\ call[c].since <= Covered(call[c].key)
    /\ Loaded(c) => call[c].value \in Nat /\ call[c].value >= call[c].since

PendingIsCurrent ==
  \A k \in Keys : \A c \in Callers :
    pending[k] = c => Loading(c) /\ call[c].key = k /\ call[c].since = Covered(k)

JoinedAtOnce ==
  \A c, d \in Callers : Awaits(d, c) => Loading(c) /\ call[d].since = call[c].since

IInv ==
  /\ Types
  /\ CoveredIsCommitted
  /\ LoadsAreSound
  /\ PendingIsCurrent
  /\ JoinedAtOnce
  /\ HitsAreFresh

-----------------------------------------------------------------------------
LEMMA NoneIsNothing ==
  /\ None \notin Nat /\ None \notin Keys /\ None \notin Projects /\ None \notin Callers
  /\ None \notin Entries
BY ConstantsAssumption DEF Entries

LEMMA KeyHasProject == ASSUME NEW k \in Keys PROVE ProjectOf[k] \in Projects
BY ConstantsAssumption

LEMMA IdleType == Idle \in CallStates
BY DEF Idle, CallStates

\* What is fresh follows from the invariant.
LEMMA IInvImpliesFresh == IInv => MissesAreFresh /\ HitsAreFresh
<1> SUFFICES ASSUME IInv PROVE MissesAreFresh
    BY DEF IInv
<1>1. \A c \in Callers : Loaded(c) => call[c].value >= call[c].since
      BY DEF IInv, LoadsAreSound
<1>2. \A c, d \in Callers : Awaits(d, c) /\ Loaded(c) => call[c].value >= call[d].since
      BY <1>1 DEF IInv, JoinedAtOnce
<1> QED BY <1>1, <1>2 DEF MissesAreFresh, Loaded

LEMMA IInit == Init => IInv
<1> SUFFICES ASSUME Init PROVE IInv
    OBVIOUS
<1> USE DEF Init
<1>1. Types BY IdleType DEF Types
<1>2. CoveredIsCommitted BY DEF CoveredIsCommitted
<1>3. LoadsAreSound BY DEF LoadsAreSound, Loading, Loaded, Idle
<1>4. PendingIsCurrent BY NoneIsNothing DEF PendingIsCurrent
<1>5. JoinedAtOnce BY DEF JoinedAtOnce, Awaits, Idle
<1>6. HitsAreFresh BY DEF HitsAreFresh
<1> QED BY <1>1, <1>2, <1>3, <1>4, <1>5, <1>6 DEF IInv

-----------------------------------------------------------------------------
(* readThrough *)

LEMMA JoinStep ==
  ASSUME IInv, NEW c \in Callers, NEW k \in Keys, Join(c, k)
  PROVE  IInv'
<1> USE DEF IInv, Join, At
<1> DEFINE joined == [Idle EXCEPT !.pc = "waiting", !.key = k, !.promise = pending[k],
                                  !.since = Covered(k)]
<1>0. pending[k] \in Callers /\ Covered(k) \in Nat
      BY NoneIsNothing, KeyHasProject DEF Types, Covered
<1>1. call' = [call EXCEPT ![c] = joined]
      OBVIOUS
<1>2. joined \in CallStates
      BY <1>0, IdleType DEF CallStates
<1>3. /\ call'[c] = joined
      /\ \A d \in Callers : d # c => call'[d] = call[d]
      BY <1>1 DEF Types
<1> HIDE DEF joined
<1>a. joined.pc = "waiting" /\ joined.promise = pending[k] /\ joined.since = Covered(k)
      BY DEF joined, Idle
<1>4. Types'
      BY <1>1, <1>2 DEF Types
<1>5. CoveredIsCommitted' /\ HitsAreFresh'
      BY DEF CoveredIsCommitted, HitsAreFresh, Covered
<1>6. LoadsAreSound'
      BY <1>3, <1>a DEF LoadsAreSound, Loading, Loaded, Covered
<1>7. PendingIsCurrent'
      BY <1>3, <1>a DEF PendingIsCurrent, Loading, Covered
<1>8. JoinedAtOnce'
  <2> SUFFICES ASSUME NEW x \in Callers, NEW d \in Callers, Awaits(d, x)'
               PROVE  Loading(x)' /\ call'[d].since = call'[x].since
      BY DEF JoinedAtOnce
  <2>1. CASE d = c
    <3>1. x = pending[k] BY <2>1, <1>3, <1>a DEF Awaits
    <3>2. Loading(x) /\ call[x].since = Covered(k) BY <3>1 DEF PendingIsCurrent
    <3>3. x # c BY <3>2 DEF Loading
    <3> QED BY <2>1, <3>2, <3>3, <1>3, <1>a DEF Loading
  <2>2. CASE d # c
    <3>1. Awaits(d, x) BY <2>2, <1>3 DEF Awaits
    <3>2. Loading(x) /\ call[d].since = call[x].since BY <3>1 DEF JoinedAtOnce
    <3>3. x # c BY <3>2 DEF Loading
    <3> QED BY <2>2, <3>2, <3>3, <1>3 DEF Loading
  <2> QED BY <2>1, <2>2
<1> QED BY <1>4, <1>5, <1>6, <1>7, <1>8

LEMMA LoadStep ==
  ASSUME IInv, NEW c \in Callers, NEW k \in Keys, Load(c, k)
  PROVE  IInv'
<1> USE DEF IInv, Load, At
<1> DEFINE begun == [Idle EXCEPT !.pc = "query", !.key = k, !.since = Covered(k)]
<1>0. Covered(k) \in Nat
      BY KeyHasProject DEF Types, Covered
<1>1. call' = [call EXCEPT ![c] = begun]
      OBVIOUS
<1>2. begun \in CallStates
      BY <1>0, IdleType DEF CallStates
<1>3. /\ call'[c] = begun
      /\ \A d \in Callers : d # c => call'[d] = call[d]
      /\ pending'[k] = c
      /\ \A x \in Keys : x # k => pending'[x] = pending[x]
      BY <1>1 DEF Types
<1> HIDE DEF begun
<1>a. begun.pc = "query" /\ begun.key = k /\ begun.since = Covered(k)
      BY DEF begun, Idle
<1>4. Types'
      BY <1>1, <1>2 DEF Types
<1>5. CoveredIsCommitted' /\ HitsAreFresh'
      BY DEF CoveredIsCommitted, HitsAreFresh, Covered
<1>6. LoadsAreSound'
      BY <1>0, <1>3, <1>a DEF LoadsAreSound, Loading, Loaded, Covered
<1>7. PendingIsCurrent'
  <2> SUFFICES ASSUME NEW x \in Keys, NEW d \in Callers, pending'[x] = d
               PROVE  Loading(d)' /\ call'[d].key = x /\ call'[d].since = Covered(x)'
      BY DEF PendingIsCurrent
  <2>1. CASE x = k
        BY <2>1, <1>3, <1>a DEF Loading, Covered
  <2>2. CASE x # k
    <3>1. Loading(d) /\ call[d].key = x /\ call[d].since = Covered(x)
          BY <2>2, <1>3 DEF PendingIsCurrent
    <3>2. d # c BY <3>1 DEF Loading
    <3> QED BY <3>1, <3>2, <1>3 DEF Loading, Covered
  <2> QED BY <2>1, <2>2
<1>8. JoinedAtOnce'
      BY <1>3, <1>a DEF JoinedAtOnce, Awaits, Loading
<1> QED BY <1>4, <1>5, <1>6, <1>7, <1>8

-----------------------------------------------------------------------------
(* The steps of a load *)

\* A load moves on: it stays a load, of the same key, begun when it was.
LEMMA ProgressStep ==
  ASSUME IInv, NEW c \in Callers, Loading(c), call' \in [Callers -> CallStates],
         Loading(c)', call'[c].key = call[c].key, call'[c].since = call[c].since,
         Loaded(c)' => call'[c].value \in Nat /\ call'[c].value >= call'[c].since,
         \A d \in Callers : d # c => call'[d] = call[d],
         reads' \in [Keys -> Entries \cup {None}], HitsAreFresh',
         UNCHANGED <<db, pending, owed, covered>>
  PROVE  IInv'
<1> USE DEF IInv
<1>1. Types' BY DEF Types
<1>2. CoveredIsCommitted' BY DEF CoveredIsCommitted
<1>3. LoadsAreSound' BY DEF LoadsAreSound, Loading, Loaded, Covered
<1>4. PendingIsCurrent' BY DEF PendingIsCurrent, Loading, Covered
<1>5. JoinedAtOnce'
  <2> SUFFICES ASSUME NEW x \in Callers, NEW d \in Callers, Awaits(d, x)'
               PROVE  Loading(x)' /\ call'[d].since = call'[x].since
      BY DEF JoinedAtOnce
  <2>1. d # c BY DEF Awaits, Loading
  <2>2. Awaits(d, x) BY <2>1 DEF Awaits
  <2>3. Loading(x) /\ call[d].since = call[x].since BY <2>2 DEF JoinedAtOnce
  <2> QED BY <2>1, <2>3 DEF Loading
<1> QED BY <1>1, <1>2, <1>3, <1>4, <1>5

LEMMA QueryStep ==
  ASSUME IInv, NEW c \in Callers, Query(c) \/ QueryFails(c)
  PROVE  IInv'
<1> USE DEF IInv
<1>1. call[c].pc = "query" /\ call[c] \in CallStates
      BY DEF Query, QueryFails, At, Types
<1>2. Loading(c) /\ call[c].key \in Keys /\ call[c].since <= Covered(call[c].key)
      BY <1>1 DEF Loading, LoadsAreSound
<1>3. HitsAreFresh' BY DEF HitsAreFresh, Covered, Query, QueryFails
<1>4. CASE Query(c)
  <2> DEFINE seen == db[ProjectOf[call[c].key]]
  <2>1. seen \in Nat /\ seen >= Covered(call[c].key)
        BY <1>2, KeyHasProject DEF Types, CoveredIsCommitted, Covered
  <2>2. seen >= call[c].since
        BY <1>1, <1>2, <2>1, KeyHasProject DEF CallStates, Covered, Types
  <2>3. call' = [call EXCEPT ![c] = [call[c] EXCEPT !.pc = "loaded", !.value = seen]]
        BY <1>4 DEF Query, Types
  <2>4. [call[c] EXCEPT !.pc = "loaded", !.value = seen] \in CallStates
        BY <1>1, <2>1 DEF CallStates
  <2>5. /\ call'[c].pc = "loaded" /\ call'[c].value = seen
        /\ call'[c].key = call[c].key /\ call'[c].since = call[c].since
        /\ \A d \in Callers : d # c => call'[d] = call[d]
        BY <1>1, <2>3 DEF CallStates, Types
  <2> HIDE DEF seen
  <2>6. call' \in [Callers -> CallStates] BY <2>3, <2>4 DEF Types
  <2>7. Loading(c)' BY <2>5 DEF Loading
  <2> QED BY <1>2, <1>3, <1>4, <2>1, <2>2, <2>5, <2>6, <2>7, ProgressStep
          DEF Query, Types
<1>5. CASE QueryFails(c)
  <2>1. call' = [call EXCEPT ![c] = [call[c] EXCEPT !.pc = "failed"]]
        BY <1>5 DEF QueryFails, Goto, Types
  <2>2. [call[c] EXCEPT !.pc = "failed"] \in CallStates
        BY <1>1 DEF CallStates
  <2>3. /\ call'[c].pc = "failed"
        /\ call'[c].key = call[c].key /\ call'[c].since = call[c].since
        /\ \A d \in Callers : d # c => call'[d] = call[d]
        BY <1>1, <2>1 DEF CallStates, Types
  <2>4. call' \in [Callers -> CallStates] BY <2>1, <2>2 DEF Types
  <2>5. Loading(c)' /\ ~Loaded(c)' BY <2>3 DEF Loading, Loaded
  <2> QED BY <1>2, <1>3, <1>5, <2>3, <2>4, <2>5, ProgressStep DEF QueryFails, Types
<1> QED BY <1>4, <1>5

LEMMA RememberStep ==
  ASSUME IInv, NEW c \in Callers, Remember(c)
  PROVE  IInv'
<1> USE DEF IInv
<1> DEFINE k == call[c].key
           entry == [value |-> call[c].value, late |-> call[c].since # Covered(k)]
<1>1. call[c].pc = "loaded" /\ call[c] \in CallStates
      BY DEF Remember, At, Types
<1>2. /\ Loading(c) /\ Loaded(c) /\ k \in Keys
      /\ call[c].value \in Nat /\ call[c].value >= call[c].since
      BY <1>1 DEF Loading, Loaded, LoadsAreSound
<1>3. call' = [call EXCEPT ![c] = [call[c] EXCEPT !.pc = "settled"]]
      BY DEF Remember, Goto, Types
<1>4. [call[c] EXCEPT !.pc = "settled"] \in CallStates
      BY <1>1 DEF CallStates
<1>5. /\ call'[c].pc = "settled"
      /\ call'[c].key = call[c].key /\ call'[c].since = call[c].since
      /\ call'[c].value = call[c].value
      /\ \A d \in Callers : d # c => call'[d] = call[d]
      BY <1>1, <1>3 DEF CallStates, Types
<1>6. call' \in [Callers -> CallStates] BY <1>3, <1>4 DEF Types
<1>7. Loading(c)' BY <1>5 DEF Loading
<1>8. /\ entry \in Entries
      /\ entry.late \/ entry.value >= Covered(k)
      BY <1>1, <1>2 DEF Entries, CallStates
<1> HIDE DEF entry
<1>9. \A x \in Keys : reads'[x] = entry \/ reads'[x] = None \/ reads'[x] = reads[x]
      BY DEF Remember, entry
<1>10. \A x \in Keys : x # k => reads'[x] = None \/ reads'[x] = reads[x]
      BY DEF Remember
<1>11. reads' \in [Keys -> Entries \cup {None}]
      BY <1>8, <1>9 DEF Remember, Types
<1>12. HitsAreFresh'
  <2>1. covered' = covered BY DEF Remember
  <2>2. reads'[k] = entry BY <1>2 DEF Remember, entry
  <2> QED BY <1>8, <1>10, <2>1, <2>2 DEF HitsAreFresh, Covered
<1> QED BY <1>2, <1>5, <1>6, <1>7, <1>11, <1>12, ProgressStep DEF Remember, Types

LEMMA ForgetStep ==
  ASSUME IInv, NEW c \in Callers, Forget(c)
  PROVE  IInv'
<1> USE DEF IInv
<1>1. Loading(c) /\ call[c].key \in Keys
      BY DEF Forget, Loading, LoadsAreSound
<1>2. \A d \in Callers : call'[d] = Idle \/ call'[d] = call[d]
      BY DEF Forget
<1>3. \A d \in Callers : d # c /\ ~Awaits(d, c) => call'[d] = call[d]
      BY DEF Forget
<1>4. call'[c] = Idle /\ \A d \in Callers : Awaits(d, c) => call'[d] = Idle
      BY DEF Forget
<1>5. Idle.pc = "idle" BY DEF Idle
<1>6. pending'[call[c].key] = None /\ \A x \in Keys : x # call[c].key => pending'[x] = pending[x]
      BY <1>1 DEF Forget, Types
<1>7. Types'
      BY <1>1, <1>2, IdleType DEF Forget, Types
<1>8. CoveredIsCommitted' /\ HitsAreFresh'
      BY DEF CoveredIsCommitted, HitsAreFresh, Covered, Forget
<1>9. LoadsAreSound'
      BY <1>2, <1>5 DEF LoadsAreSound, Loading, Loaded, Covered, Forget
<1>10. PendingIsCurrent'
  <2> SUFFICES ASSUME NEW x \in Keys, NEW d \in Callers, pending'[x] = d
               PROVE  Loading(d)' /\ call'[d].key = x /\ call'[d].since = Covered(x)'
      BY DEF PendingIsCurrent
  <2>1. x # call[c].key BY <1>6, NoneIsNothing
  <2>2. Loading(d) /\ call[d].key = x /\ call[d].since = Covered(x)
        BY <2>1, <1>6 DEF PendingIsCurrent
  <2>3. d # c /\ ~Awaits(d, c) BY <2>1, <2>2 DEF Awaits, Loading
  <2> QED BY <2>2, <2>3, <1>3 DEF Loading, Covered, Forget
<1>11. JoinedAtOnce'
  <2> SUFFICES ASSUME NEW x \in Callers, NEW d \in Callers, Awaits(d, x)'
               PROVE  Loading(x)' /\ call'[d].since = call'[x].since
      BY DEF JoinedAtOnce
  <2>1. call'[d] = call[d] BY <1>2, <1>5 DEF Awaits
  <2>2. Awaits(d, x) BY <2>1 DEF Awaits
  <2>3. x # c BY <2>1, <2>2, <1>4, <1>5 DEF Awaits
  <2>4. Loading(x) /\ call[d].since = call[x].since BY <2>2 DEF JoinedAtOnce
  <2>5. ~Awaits(x, c) BY <2>4 DEF Awaits, Loading
  <2> QED BY <2>1, <2>3, <2>4, <2>5, <1>3 DEF Loading
<1> QED BY <1>7, <1>8, <1>9, <1>10, <1>11

-----------------------------------------------------------------------------
(* Writers *)

LEMMA WriteStep ==
  ASSUME IInv, NEW w \in Writers, NEW p \in Projects, Write(w, p)
  PROVE  IInv'
<1> USE DEF IInv, Write
<1>1. Types' BY DEF Types
<1>2. CoveredIsCommitted' BY DEF CoveredIsCommitted, Types
<1>3. LoadsAreSound' BY DEF LoadsAreSound, Loading, Loaded, Covered
<1>4. PendingIsCurrent' BY DEF PendingIsCurrent, Loading, Covered
<1>5. JoinedAtOnce' BY DEF JoinedAtOnce, Awaits, Loading
<1>6. HitsAreFresh' BY DEF HitsAreFresh, Covered
<1> QED BY <1>1, <1>2, <1>3, <1>4, <1>5, <1>6

LEMMA InvalidateStep ==
  ASSUME IInv, NEW w \in Writers, Invalidate(w)
  PROVE  IInv'
<1> USE DEF IInv, Invalidate
<1> DEFINE p == owed[w]
<1>1. p \in Projects BY DEF Types
<1>2. /\ \A k \in Keys : ProjectOf[k] = p => reads'[k] = None /\ pending'[k] = None
      /\ \A k \in Keys : ProjectOf[k] # p =>
           reads'[k] = reads[k] /\ pending'[k] = pending[k] /\ Covered(k)' = Covered(k)
      BY KeyHasProject DEF Types, Covered
<1>3. Types' BY <1>1 DEF Types
<1>4. covered'[p] = db[p] /\ \A q \in Projects : q # p => covered'[q] = covered[q]
      BY <1>1 DEF Types
<1>5. CoveredIsCommitted'
      BY <1>4 DEF CoveredIsCommitted, Types
<1>6. \A k \in Keys : Covered(k) <= Covered(k)' /\ Covered(k) \in Nat /\ Covered(k)' \in Nat
      BY <1>3, <1>4, KeyHasProject DEF CoveredIsCommitted, Types, Covered
<1>7. LoadsAreSound'
  <2> SUFFICES ASSUME NEW c \in Callers, Loading(c)
               PROVE  call[c].key \in Keys /\ call[c].since <= Covered(call[c].key)'
      BY DEF LoadsAreSound, Loading, Loaded, Covered
  <2>1. call[c].key \in Keys /\ call[c].since <= Covered(call[c].key)
        BY DEF LoadsAreSound
  <2>2. call[c].since \in Nat BY DEF Types, CallStates
  <2> QED BY <2>1, <2>2, <1>6
<1> HIDE DEF p
<1>8. PendingIsCurrent'
      BY <1>2, NoneIsNothing DEF PendingIsCurrent, Loading
<1>9. JoinedAtOnce' BY DEF JoinedAtOnce, Awaits, Loading
<1>10. HitsAreFresh' BY <1>2 DEF HitsAreFresh
<1> QED BY <1>3, <1>5, <1>7, <1>8, <1>9, <1>10

LEMMA AbandonStep ==
  ASSUME IInv, NEW w \in Writers, Abandon(w)
  PROVE  IInv'
<1> USE DEF IInv, Abandon
<1>1. Types' BY DEF Types
<1>2. CoveredIsCommitted' BY DEF CoveredIsCommitted
<1>3. LoadsAreSound' BY DEF LoadsAreSound, Loading, Loaded, Covered
<1>4. PendingIsCurrent' BY DEF PendingIsCurrent, Loading, Covered
<1>5. JoinedAtOnce' BY DEF JoinedAtOnce, Awaits, Loading
<1>6. HitsAreFresh' BY DEF HitsAreFresh, Covered
<1> QED BY <1>1, <1>2, <1>3, <1>4, <1>5, <1>6

-----------------------------------------------------------------------------
LEMMA INext == IInv /\ [Next]_vars => IInv'
<1> SUFFICES ASSUME IInv, [Next]_vars PROVE IInv'
    OBVIOUS
<1>1. CASE UNCHANGED vars
      BY <1>1 DEF vars, IInv, Types, CoveredIsCommitted, LoadsAreSound, PendingIsCurrent,
                  JoinedAtOnce, HitsAreFresh, Loading, Loaded, Awaits, Covered
<1>2. CASE \E c \in Callers : Read(c)
      BY <1>2, JoinStep, LoadStep DEF Read
<1>3. CASE \E c \in Callers : Settle(c)
      BY <1>3, QueryStep, RememberStep, ForgetStep DEF Settle
<1>4. CASE \E w \in Writers : (\E p \in Projects : Write(w, p)) \/ Invalidate(w) \/ Abandon(w)
      BY <1>4, WriteStep, InvalidateStep, AbandonStep
<1> QED BY <1>1, <1>2, <1>3, <1>4 DEF Next

LEMMA Invariance == Spec => []IInv
<1> QED BY IInit, INext, PTL DEF Spec

\* A call that misses, and every call that joins it, is answered with a value
\* at least as new as the invalidations before it: readThrough, lines 16-36.
THEOREM MissesStayFresh == Spec => []MissesAreFresh
<1> QED BY Invariance, IInvImpliesFresh, PTL

\* What remember stores, lines 60-68, is as new as the last invalidation,
\* unless its load was under way when that invalidation ran.
THEOREM HitsStayFresh == Spec => []HitsAreFresh
<1> QED BY Invariance, IInvImpliesFresh, PTL

-----------------------------------------------------------------------------
(* Induction, and the sequences that are left without some of their keys *)

\* A set of numbers that is not empty has a least one.
LEMMA LeastNumber ==
  ASSUME NEW S \in SUBSET Nat, S # {}
  PROVE  \E n \in S : \A m \in S : n <= m
<1> DEFINE R == StrictSubsetOrdering(Nat)
           F == {1..n : n \in S}
<1>1. IsWellFoundedOn(R, FiniteSubsetsOf(Nat))
      BY FS_StrictSubsetOrderingWellFounded
<1>2. F \subseteq FiniteSubsetsOf(Nat)
  <2> SUFFICES ASSUME NEW n \in S PROVE 1..n \in FiniteSubsetsOf(Nat)
      OBVIOUS
  <2>1. IsFiniteSet(1..n) BY FS_Interval
  <2> QED BY <2>1 DEF FiniteSubsetsOf
<1>3. F # {} OBVIOUS
<1>4. PICK x \in F : \A y \in F : ~(<<y, x>> \in R)
  <2> HIDE DEF F, R
  <2> QED BY <1>1, <1>2, <1>3, WFMin
<1>5. PICK n \in S : x = 1..n OBVIOUS
<1>6. ASSUME NEW m \in S, m < n PROVE FALSE
  <2>1. 1..m \in F OBVIOUS
  <2>2. 1..m \in SUBSET Nat /\ 1..n \in SUBSET Nat OBVIOUS
  <2>3. 1..m # 1..n
    <3>1. n \in 1..n /\ n \notin 1..m BY <1>6
    <3> QED BY <3>1
  <2>4. 1..m \subseteq 1..n BY <1>6
  <2>5. <<1..m, 1..n>> \in R BY <2>2, <2>3, <2>4 DEF StrictSubsetOrdering
  <2> QED BY <2>1, <2>5, <1>4, <1>5
<1> QED BY <1>6

\* Induction over the numbers, as a fact about sets.
LEMMA NumbersByInduction ==
  ASSUME NEW S, 0 \in S, \A n \in Nat : n \in S => n + 1 \in S
  PROVE  Nat \subseteq S
<1> DEFINE B == Nat \ S
<1> SUFFICES ASSUME B # {} PROVE FALSE
    OBVIOUS
<1>1. PICK n \in B : \A m \in B : n <= m
  <2> HIDE DEF B
  <2>1. B \in SUBSET Nat BY DEF B
  <2> QED BY <2>1, LeastNumber
<1>2. n # 0 /\ n - 1 \in Nat OBVIOUS
<1>3. n - 1 \in S BY <1>1, <1>2
<1> QED BY <1>2, <1>3

\* What is left of the first i keys; rest of Without is such a function.
Rest(keys, forgotten, rest, i) ==
  rest[i] = IF i = 0 THEN <<>>
            ELSE IF keys[i] \in forgotten THEN rest[i - 1] ELSE Append(rest[i - 1], keys[i])

LEMMA RestExists ==
  ASSUME NEW keys \in Seq(Keys), NEW forgotten
  PROVE  \E rest \in [0..Len(keys) -> Seq(Keys)] :
           \A i \in 0..Len(keys) : Rest(keys, forgotten, rest, i)
<1> DEFINE Up(k) == \E rest \in [0..k -> Seq(Keys)] : \A i \in 0..k : Rest(keys, forgotten, rest, i)
           S == {k \in Nat : k <= Len(keys) => Up(k)}
<1>0. Len(keys) \in Nat BY LenProperties
<1>1. 0 \in S
  <2>1. [i \in 0..0 |-> <<>>] \in [0..0 -> Seq(Keys)] BY EmptySeq
  <2>2. \A i \in 0..0 : Rest(keys, forgotten, [j \in 0..0 |-> <<>>], i) BY DEF Rest
  <2> QED BY <2>1, <2>2
<1>2. ASSUME NEW k \in Nat, k \in S PROVE k + 1 \in S
  <2> SUFFICES ASSUME k + 1 <= Len(keys) PROVE Up(k + 1)
      OBVIOUS
  <2>1. k <= Len(keys) BY <1>0
  <2>2. PICK g \in [0..k -> Seq(Keys)] : \A i \in 0..k : Rest(keys, forgotten, g, i)
        BY <1>2, <2>1
  <2> DEFINE next == IF keys[k + 1] \in forgotten THEN g[k] ELSE Append(g[k], keys[k + 1])
             h == [i \in 0..(k + 1) |-> IF i = k + 1 THEN next ELSE g[i]]
  <2>3. keys[k + 1] \in Keys BY <1>0, ElementOfSeq
  <2>4. g[k] \in Seq(Keys) OBVIOUS
  <2>5. next \in Seq(Keys) BY <2>3, <2>4, AppendProperties
  <2>6. h \in [0..(k + 1) -> Seq(Keys)]
    <3> HIDE DEF next
    <3> QED BY <2>5
  <2>7. ASSUME NEW i \in 0..(k + 1) PROVE Rest(keys, forgotten, h, i)
    <3>1. CASE i = k + 1
      <4>1. h[i] = next /\ h[i - 1] = g[k] /\ i # 0 BY <3>1
      <4> HIDE DEF h
      <4> QED BY <4>1, <3>1 DEF Rest
    <3>2. CASE i # k + 1
      <4>1. i \in 0..k BY <3>2
      <4>2. h[i] = g[i] /\ (i # 0 => h[i - 1] = g[i - 1]) BY <4>1
      <4>3. Rest(keys, forgotten, g, i) BY <2>2, <4>1
      <4> HIDE DEF h
      <4> QED BY <4>2, <4>3 DEF Rest
    <3> QED BY <3>1, <3>2
  <2> QED BY <2>6, <2>7
<1>3. Nat \subseteq S
  <2> HIDE DEF S
  <2> QED BY <1>1, <1>2, NumbersByInduction
<1>4. Len(keys) \in S BY <1>0, <1>3
<1> QED BY <1>0, <1>4

Listed(keys) == {keys[i] : i \in 1..Len(keys)}
Distinct(keys) == \A i, j \in 1..Len(keys) : keys[i] = keys[j] => i = j

\* A key at the end of a list is one more that is listed.
LEMMA AppendLists ==
  ASSUME NEW keys \in Seq(Keys), NEW k \in Keys
  PROVE  /\ Append(keys, k) \in Seq(Keys)
         /\ Len(Append(keys, k)) = Len(keys) + 1
         /\ Listed(Append(keys, k)) = Listed(keys) \cup {k}
         /\ Distinct(keys) /\ k \notin Listed(keys) => Distinct(Append(keys, k))
<1> DEFINE new == Append(keys, k)
<1>1. /\ new \in Seq(Keys) /\ Len(keys) \in Nat /\ Len(new) = Len(keys) + 1
      /\ \A i \in 1..Len(keys) : new[i] = keys[i]
      /\ new[Len(keys) + 1] = k
      BY AppendProperties, LenProperties
<1> HIDE DEF new
<1>2. Listed(new) \subseteq Listed(keys) \cup {k}
  <2> SUFFICES ASSUME NEW i \in 1..Len(new) PROVE new[i] \in Listed(keys) \cup {k}
      BY DEF Listed
  <2>1. i = Len(keys) + 1 \/ i \in 1..Len(keys) BY <1>1
  <2> QED BY <1>1, <2>1 DEF Listed
<1>3. Listed(keys) \subseteq Listed(new)
  <2> SUFFICES ASSUME NEW i \in 1..Len(keys) PROVE keys[i] \in Listed(new)
      BY DEF Listed
  <2>1. i \in 1..Len(new) /\ new[i] = keys[i] BY <1>1
  <2> QED BY <2>1 DEF Listed
<1>4. k \in Listed(new)
  <2>1. Len(keys) + 1 \in 1..Len(new) BY <1>1
  <2> QED BY <1>1, <2>1 DEF Listed
<1>5. ASSUME Distinct(keys), k \notin Listed(keys) PROVE Distinct(new)
      BY <1>1, <1>5 DEF Distinct, Listed
<1> QED BY <1>1, <1>2, <1>3, <1>4, <1>5 DEF new

\* What is left are the other keys, each as often as before.
LEMMA WithoutLeaves ==
  ASSUME NEW keys \in Seq(Keys), NEW forgotten
  PROVE  /\ Without(keys, forgotten) \in Seq(Keys)
         /\ Listed(Without(keys, forgotten)) = Listed(keys) \ forgotten
         /\ Distinct(keys) => Distinct(Without(keys, forgotten))
<1>0. Len(keys) \in Nat BY LenProperties
<1> DEFINE body(f) == [i \in 0..Len(keys) |->
                         IF i = 0 THEN <<>>
                         ELSE IF keys[i] \in forgotten THEN f[i - 1] ELSE Append(f[i - 1], keys[i])]
           rest == CHOOSE f : f = body(f)
<1>1. PICK g \in [0..Len(keys) -> Seq(Keys)] :
         \A i \in 0..Len(keys) : Rest(keys, forgotten, g, i)
      BY RestExists
<1>2. g = body(g)
      BY <1>1 DEF Rest
<1>3. rest = body(rest)
  <2> HIDE DEF body
  <2> QED BY <1>2
<1>4. Without(keys, forgotten) = rest[Len(keys)]
      BY DEF Without
<1>5. \A i \in 0..Len(keys) : Rest(keys, forgotten, rest, i)
  <2> SUFFICES ASSUME NEW i \in 0..Len(keys) PROVE Rest(keys, forgotten, rest, i)
      OBVIOUS
  <2>1. rest[i] = body(rest)[i]
    <3> HIDE DEF body, rest
    <3> QED BY <1>3
  <2> HIDE DEF rest
  <2> QED BY <2>1 DEF Rest
<1> HIDE DEF rest, body
<1> DEFINE
      Kept(i) == /\ rest[i] \in Seq(Keys)
                 /\ Listed(rest[i]) = {keys[j] : j \in 1..i} \ forgotten
                 /\ Distinct(keys) => Distinct(rest[i])
      S == {i \in Nat : i <= Len(keys) => Kept(i)}
<1>6. 0 \in S
  <2>1. rest[0] = <<>> BY <1>0, <1>5 DEF Rest
  <2>2. Len(<<>>) = 0 /\ <<>> \in Seq(Keys) BY EmptySeq
  <2>3. Listed(rest[0]) = {} /\ {keys[j] : j \in 1..0} = {} BY <2>1, <2>2 DEF Listed
  <2>4. Distinct(rest[0]) BY <2>1, <2>2 DEF Distinct
  <2>5. Kept(0) BY <2>1, <2>2, <2>3, <2>4
  <2> HIDE DEF Kept
  <2> QED BY <2>5
<1>7. ASSUME NEW i \in Nat, i \in S PROVE i + 1 \in S
  <2> SUFFICES ASSUME i + 1 <= Len(keys) PROVE Kept(i + 1)
      OBVIOUS
  <2>1. Kept(i) BY <1>7, <1>0
  <2>2. rest[i + 1] = IF keys[i + 1] \in forgotten THEN rest[i] ELSE Append(rest[i], keys[i + 1])
        BY <1>0, <1>5 DEF Rest
  <2>3. {keys[j] : j \in 1..(i + 1)} = {keys[j] : j \in 1..i} \cup {keys[i + 1]}
        OBVIOUS
  <2>4. CASE keys[i + 1] \in forgotten
        BY <2>1, <2>2, <2>3, <2>4
  <2>5. CASE keys[i + 1] \notin forgotten
    <3>1. keys[i + 1] \in Keys BY <1>0, ElementOfSeq
    <3>2. rest[i + 1] = Append(rest[i], keys[i + 1]) BY <2>2, <2>5
    <3>3. Listed(rest[i]) = {keys[j] : j \in 1..i} \ forgotten BY <2>1
    <3>4. /\ rest[i + 1] \in Seq(Keys)
          /\ Listed(rest[i + 1]) = Listed(rest[i]) \cup {keys[i + 1]}
          BY <2>1, <3>1, <3>2, AppendLists
    <3>5. Listed(rest[i + 1]) = {keys[j] : j \in 1..(i + 1)} \ forgotten
          BY <2>3, <2>5, <3>3, <3>4
    <3>6. ASSUME Distinct(keys) PROVE Distinct(rest[i + 1])
      <4>1. \A j \in 1..i : keys[j] # keys[i + 1]
            BY <3>6, <1>0 DEF Distinct
      <4>2. keys[i + 1] \notin Listed(rest[i]) BY <3>3, <4>1
      <4>3. Distinct(rest[i]) BY <2>1, <3>6
      <4> QED BY <2>1, <3>1, <3>2, <4>2, <4>3, AppendLists
    <3> QED BY <3>4, <3>5, <3>6
  <2> QED BY <2>4, <2>5
<1>8. Nat \subseteq S
  <2> HIDE DEF S
  <2> QED BY <1>6, <1>7, NumbersByInduction
<1>9. Kept(Len(keys))
  <2> HIDE DEF Kept
  <2> QED BY <1>0, <1>8
<1> QED BY <1>4, <1>9 DEF Listed

\* A list without repetitions is as long as the set of what it lists.
LEMMA DistinctLength ==
  ASSUME NEW keys \in Seq(Keys), Distinct(keys)
  PROVE  IsFiniteSet(Listed(keys)) /\ Cardinality(Listed(keys)) = Len(keys)
<1> DEFINE D == 1..Len(keys)
           f == [i \in D |-> keys[i]]
<1>1. Len(keys) \in Nat BY LenProperties
<1>2. IsFiniteSet(D) /\ Cardinality(D) = Len(keys) BY <1>1, FS_Interval
<1>3. f \in Bijection(D, Listed(keys))
  <2>1. f \in [D -> Listed(keys)] BY DEF Listed
  <2>2. IsInjective(f) BY <1>1 DEF IsInjective, Distinct
  <2>3. \A x \in Listed(keys) : \E i \in D : f[i] = x BY DEF Listed
  <2> HIDE DEF f, D
  <2> QED BY <2>1, <2>2, <2>3 DEF Bijection, Injection, Surjection
<1>4. ExistsBijection(D, Listed(keys)) BY <1>3 DEF ExistsBijection
<1> QED BY <1>2, <1>4, FS_Bijection

-----------------------------------------------------------------------------
(* The remembered keys and their order *)

Ordered ==
  /\ order \in Seq(Keys)
  /\ Listed(order) = RememberedKeys
  /\ Distinct(order)

Bounded == Ordered /\ WithinLimit

LEMMA OrderedLength ==
  ASSUME Ordered
  PROVE  /\ IsFiniteSet(RememberedKeys)
         /\ Cardinality(RememberedKeys) = Len(order)
         /\ Len(order) \in Nat
BY DistinctLength, LenProperties DEF Ordered

LEMMA BoundedInit == Init => Bounded
<1> SUFFICES ASSUME Init PROVE Bounded
    OBVIOUS
<1>1. order = <<>> /\ Len(order) = 0 /\ order \in Seq(Keys) BY EmptySeq DEF Init
<1>2. RememberedKeys = {} BY DEF Init, RememberedKeys
<1>3. Ordered BY <1>1, <1>2 DEF Ordered, Listed, Distinct
<1> QED BY <1>1, <1>3, OrderedLength, ConstantsAssumption DEF Bounded, WithinLimit

\* What a step must see to for the limit to stay: the rest follows.
LEMMA BoundedStays ==
  ASSUME Ordered', Len(order') <= MaxEntries
  PROVE  Bounded'
<1>1. IsFiniteSet(RememberedKeys)' /\ Cardinality(RememberedKeys)' = Len(order')
      BY DistinctLength DEF Ordered
<1> QED BY <1>1 DEF Bounded, WithinLimit

\* remember: the oldest makes room at the limit, and a key that is replaced
\* takes no room.
LEMMA RememberBounded ==
  ASSUME IInv, Bounded, NEW c \in Callers, Remember(c)
  PROVE  Bounded'
<1> DEFINE k == call[c].key
           gone == Evicted(k)
           entry == [value |-> call[c].value, late |-> call[c].since # Covered(k)]
<1>1. /\ order \in Seq(Keys) /\ Listed(order) = RememberedKeys /\ Distinct(order)
      /\ Cardinality(RememberedKeys) = Len(order) /\ Len(order) \in Nat
      /\ IsFiniteSet(RememberedKeys) /\ Len(order) <= MaxEntries
      BY OrderedLength DEF Bounded, Ordered, WithinLimit
<1>2. k \in Keys /\ call[c].value \in Nat
      BY DEF IInv, LoadsAreSound, Loading, Loaded, Remember, At
<1>3. entry # None
  <2>1. entry \in Entries BY <1>2 DEF Entries
  <2> QED BY <2>1, NoneIsNothing
<1>4. reads' = [x \in Keys |-> IF x = k THEN entry ELSE IF x \in gone THEN None ELSE reads[x]]
      BY DEF Remember
<1>5. order' = IF reads[k] = None THEN Append(Without(order, gone), k) ELSE order
      BY DEF Remember
<1> HIDE DEF entry
<1>6. CASE reads[k] # None
  <2>1. gone = {} /\ order' = order BY <1>5, <1>6 DEF Evicted
  <2>2. RememberedKeys' = RememberedKeys
        BY <1>2, <1>3, <1>4, <1>6, <2>1 DEF RememberedKeys
  <2>3. Ordered' BY <1>1, <2>1, <2>2 DEF Ordered
  <2> QED BY <1>1, <2>1, <2>3, BoundedStays
<1>7. CASE reads[k] = None
  <2> DEFINE rest == Without(order, gone)
  <2>1. /\ rest \in Seq(Keys) /\ Listed(rest) = RememberedKeys \ gone /\ Distinct(rest)
        BY <1>1, WithoutLeaves
  <2>2. order' = Append(rest, k) BY <1>5, <1>7
  <2>3. k \notin RememberedKeys BY <1>7 DEF RememberedKeys
  <2>4. Len(rest) \in Nat /\ Cardinality(RememberedKeys \ gone) = Len(rest)
        BY <2>1, DistinctLength, LenProperties
  <2>5. RememberedKeys' = (RememberedKeys \ gone) \cup {k}
        BY <1>2, <1>3, <1>4 DEF RememberedKeys
  <2>6. Len(rest) < MaxEntries
    <3>1. CASE Len(order) < MaxEntries
      <4>1. gone = {} BY <1>1, <3>1, ConstantsAssumption DEF Evicted
      <4> QED BY <1>1, <2>4, <3>1, <4>1
    <3>2. CASE Len(order) = MaxEntries
      <4>1. order # <<>> /\ Len(order) > 0
            BY <1>1, <3>2, ConstantsAssumption, EmptySeq
      <4>2. gone = {Head(order)}
            BY <1>1, <1>7, <3>2 DEF Evicted
      <4>3. Head(order) = order[1] BY <1>1, <4>1
      <4>4. Head(order) \in RememberedKeys BY <1>1, <4>1, <4>3 DEF Listed
      <4>5. Cardinality(RememberedKeys \ {Head(order)}) = Len(order) - 1
            BY <1>1, <4>4, FS_RemoveElement
      <4> QED BY <1>1, <2>4, <3>2, <4>2, <4>5
    <3> QED BY <1>1, <3>1, <3>2, ConstantsAssumption
  <2> HIDE DEF rest, gone, k
  <2>7. k \notin Listed(rest) BY <2>1, <2>3
  <2>8. /\ order' \in Seq(Keys) /\ Len(order') = Len(rest) + 1
        /\ Listed(order') = Listed(rest) \cup {k}
        /\ Distinct(order')
        BY <1>2, <2>1, <2>2, <2>7, AppendLists
  <2>9. Ordered' BY <2>1, <2>5, <2>8 DEF Ordered
  <2>10. Len(order') <= MaxEntries BY <2>4, <2>6, <2>8, ConstantsAssumption
  <2> QED BY <2>9, <2>10, BoundedStays
<1> QED BY <1>6, <1>7

LEMMA InvalidateBounded ==
  ASSUME IInv, Bounded, NEW w \in Writers, Invalidate(w)
  PROVE  Bounded'
<1> DEFINE dropped == {k \in Keys : ProjectOf[k] = owed[w]}
           rest == Without(order, dropped)
<1>1. /\ order \in Seq(Keys) /\ Listed(order) = RememberedKeys /\ Distinct(order)
      /\ Cardinality(RememberedKeys) = Len(order) /\ Len(order) \in Nat
      /\ IsFiniteSet(RememberedKeys) /\ Len(order) <= MaxEntries
      BY OrderedLength DEF Bounded, Ordered, WithinLimit
<1>2. order' = rest /\ reads' = [k \in Keys |-> IF k \in dropped THEN None ELSE reads[k]]
      BY DEF Invalidate
<1> HIDE DEF dropped
<1>3. /\ rest \in Seq(Keys) /\ Listed(rest) = RememberedKeys \ dropped /\ Distinct(rest)
      BY <1>1, WithoutLeaves
<1>4. RememberedKeys' = RememberedKeys \ dropped
      BY <1>2 DEF RememberedKeys
<1> HIDE DEF rest
<1>5. Ordered' BY <1>2, <1>3, <1>4 DEF Ordered
<1>6. Cardinality(RememberedKeys \ dropped) <= Cardinality(RememberedKeys)
      BY <1>1, FS_Subset
<1>7. Cardinality(Listed(rest)) = Len(rest) /\ Len(rest) \in Nat
      BY <1>3, DistinctLength, LenProperties
<1>8. Len(order') <= MaxEntries
      BY <1>1, <1>2, <1>3, <1>6, <1>7, ConstantsAssumption
<1> QED BY <1>5, <1>8, BoundedStays

LEMMA BoundedNext == IInv /\ Bounded /\ [Next]_vars => Bounded'
<1> SUFFICES ASSUME IInv, Bounded, [Next]_vars PROVE Bounded'
    OBVIOUS
<1>1. ASSUME UNCHANGED <<reads, order>> PROVE Bounded'
      BY <1>1 DEF Bounded, Ordered, WithinLimit, RememberedKeys
<1>2. CASE UNCHANGED vars
      BY <1>1, <1>2 DEF vars
<1>3. ASSUME NEW c \in Callers, Read(c) \/ Settle(c) PROVE Bounded'
  <2>1. CASE Remember(c) BY <2>1, RememberBounded
  <2>2. CASE Read(c) \/ Query(c) \/ QueryFails(c) \/ Forget(c)
        BY <1>1, <2>2 DEF Read, Join, Load, Query, QueryFails, Forget
  <2> QED BY <1>3, <2>1, <2>2 DEF Settle
<1>4. ASSUME NEW w \in Writers, (\E p \in Projects : Write(w, p)) \/ Invalidate(w) \/ Abandon(w)
      PROVE  Bounded'
  <2>1. CASE Invalidate(w) BY <2>1, InvalidateBounded
  <2>2. CASE (\E p \in Projects : Write(w, p)) \/ Abandon(w)
        BY <1>1, <2>2 DEF Write, Abandon
  <2> QED BY <1>4, <2>1, <2>2
<1> QED BY <1>2, <1>3, <1>4 DEF Next

LEMMA StaysBounded == Spec => []Bounded
<1> QED BY Invariance, BoundedInit, BoundedNext, PTL DEF Spec

\* Every variable has its type, and order lists the remembered keys, which is
\* how the code's Map knows the oldest.
THEOREM TypeCorrect == Spec => []TypeOK
<1>1. IInv /\ Bounded => TypeOK
      BY DEF IInv, Bounded, Ordered, Types, LoadsAreSound, Loaded, TypeOK, Listed
<1> QED BY <1>1, Invariance, StaysBounded, PTL

\* read-through.ts:5 and remember, lines 60-68: no more than MaxEntries reads
\* are ever remembered, for every number of keys and every limit.
THEOREM LimitStaysKept == Spec => []WithinLimit
<1>1. Bounded => WithinLimit BY DEF Bounded
<1> QED BY <1>1, StaysBounded, PTL
=============================================================================
