----------------------- MODULE FlagInheritance_proofs -----------------------
(* What the environments and a flag's configurations keep, for any          *)
(* environments, requests and values.  A creation found room when it was    *)
(* checked, and only a creation takes room (Limits).  A move has walked a   *)
(* set of environments that no link leaves, and only a move adds a link to  *)
(* an environment that was there (Moves).  And that a change nothing runs   *)
(* beside reaches all that inherit it: those it has reached have the        *)
(* settings of its own environment, and their other followers are on its    *)
(* stack (Course, Reaches).                                                 *)
EXTENDS FlagInheritance, SequenceTheorems, FiniteSetTheorems, TLAPS

\* What a request holds in its phases.
Held(q) ==
  /\ q.pc \in {"insert", "listFlags", "provision"} => q.op = "create"
  /\ q.op = "create" => q.env \in Environments
  /\ q.pc \in {"walk", "link"} => q.op = "setParent" /\ q.env \in Environments
  /\ q.pc \in {"listEnvironments", "seed"} => q.op = "createFlag"
  /\ q.pc \in {"update", "replace", "detach"} => q.env \in Environments
  /\ q.pc \in {"list", "child"} => q.stack # <<>>
  /\ q.pc = "fetch" => q.source \in Environments /\ q.target \in Environments
  /\ q.pc = "store" => q.target \in Environments
  /\ q.pc = "walk" => q.other \in Environments
  /\ q.pc = "insert" => q.other \in Maybe(Environments) /\ q.env \notin Foreign

Typed ==
  /\ TypeOK
  /\ \A e \in Environments \ present : parent[e] = None
  /\ \A r \in Requests : Held(request[r])

Alone(op) == \A r, q \in Requests : Doing(r, op) /\ Doing(q, op) => r = q

Limits ==
  /\ WithinLimit
  /\ ~createsOverlapped =>
       /\ Alone("create")
       /\ \A r \in Requests : At(r, "insert") => request[r].env \notin present /\ BelowLimit

\* Where a walk has been: it has followed every link, or reached the end.
Walks(q) ==
  LET seen == q.todo \ {q.env}
      known == Existing \cup deleted
  IN  /\ q.pc = "walk" =>
           /\ q.env \in q.todo /\ q.todo \subseteq known /\ q.other \in known
           /\ q.source \in seen \cup {q.other}
           /\ \A v \in seen : parent[v] \in seen \cup {q.other, None}
      /\ q.pc = "link" /\ q.source # None =>
           \E es \in SUBSET known : /\ q.source \in es /\ q.env \notin es
                                    /\ \A v \in es : parent[v] \in es \cup {None}

Moves ==
  ~movesOverlapped => /\ Alone("setParent") /\ NoCycle
                      /\ \A r \in Requests : Doing(r, "setParent") => Walks(request[r])

OnItsWay(r, e) ==
  \/ request[r].env = e /\ request[r].pc \in {"listFlags", "provision"}
  \/ At(r, "listEnvironments")
  \/ At(r, "seed") /\ e \in request[r].todo

Configured ==
  flag = "present" =>
    \A e \in present : config[e] # None \/ e \in broken \/ \E r \in Requests : OnItsWay(r, e)

IInv == Typed /\ Limits /\ Moves /\ Configured
-----------------------------------------------------------------------------
(* Local states and configurations *)

LEMMA IdleType ==
  /\ Default \in Configs /\ Idle \in RequestStates /\ Held(Idle)
  /\ Idle.op = "none" /\ Idle.pc = "idle" /\ Idle.env = None /\ Idle.todo = {} /\ Idle.alone = FALSE
  /\ Idle.stack = <<>> /\ Idle.other = None /\ Idle.source = None /\ Idle.target = None
  /\ Idle.new = Default /\ Idle.read = Default
<1>1. Default \in Configs
      BY ConstantsAssumption DEF Default, Configs
<1>2. <<>> \in Seq([env : Environments, todo : SUBSET Environments])
      OBVIOUS
<1>3. /\ Idle \in RequestStates
      /\ Idle.op = "none" /\ Idle.pc = "idle" /\ Idle.env = None /\ Idle.todo = {} /\ Idle.alone = FALSE
      /\ Idle.stack = <<>> /\ Idle.other = None /\ Idle.source = None /\ Idle.target = None
      /\ Idle.new = Default /\ Idle.read = Default
      BY <1>1, <1>2 DEF Idle, RequestStates, Maybe
<1> QED BY <1>1, <1>3 DEF Held

LEMMA FinishedType ==
  ASSUME Typed, NEW r \in Requests
  PROVE  /\ Finished(r) \in RequestStates /\ Held(Finished(r))
         /\ Finished(r).op \in {"none", "setConfig"} /\ Finished(r).pc \in {"idle", "done"}
<1> DEFINE last == [Idle EXCEPT !.op = "setConfig", !.pc = "done", !.env = request[r].env, !.alone = TRUE]
<1>1. request[r].env \in Maybe(Environments)
      BY DEF Typed, TypeOK, RequestStates
<1>2. last \in RequestStates /\ last.op = "setConfig" /\ last.pc = "done"
      BY <1>1, IdleType DEF RequestStates
<1>3. Finished(r) = last \/ Finished(r) = Idle
      BY DEF Finished
<1>4. Held(last)
      BY <1>2 DEF Held
<1> HIDE DEF last
<1> QED BY <1>2, <1>3, <1>4, IdleType

LEMMA CreatedType ==
  ASSUME NEW e \in Environments
  PROVE  /\ Created(e) \in Configs /\ Created(e) # None
         /\ Created(e).salt = e /\ ~Created(e).inherited
<1>1. Created(e) \in Configs /\ Created(e).salt = e /\ Created(e).inherited = FALSE
      BY IdleType DEF Created, Default, Configs
<1> QED BY <1>1, ConstantsAssumption

LEMMA EnsuredType ==
  ASSUME Typed, NEW es, es \subseteq Maybe(Existing), flag = "present"
  PROVE  /\ Ensured(es) \in [Environments -> Maybe(Configs)]
         /\ \A e \in Environments : /\ Ensured(es)[e] # None => e \in Existing
                                    /\ e \in es => Ensured(es)[e] # None
                                    /\ config[e] # None => Ensured(es)[e] = config[e]
<1>1. \A e \in Environments : Created(e) \in Configs /\ Created(e) # None
      BY CreatedType
<1>2. config \in [Environments -> Maybe(Configs)] /\ \A e \in Environments : config[e] # None => e \in Existing
      BY DEF Typed, TypeOK
<1>3. ASSUME NEW e \in Environments, e \in es PROVE e \in Existing
      BY <1>3, ConstantsAssumption DEF Maybe, Existing, Typed, TypeOK
<1>4. \A e \in Environments : Ensured(es)[e] = IF e \in es /\ config[e] = None THEN Created(e) ELSE config[e]
      BY DEF Ensured
<1>5. \A e \in Environments : (IF e \in es /\ config[e] = None THEN Created(e) ELSE config[e]) \in Maybe(Configs)
      BY <1>1, <1>2 DEF Maybe
<1>6. Ensured(es) \in [Environments -> Maybe(Configs)]
      BY <1>5 DEF Ensured
<1> QED BY <1>1, <1>2, <1>3, <1>4, <1>6
-----------------------------------------------------------------------------
(* Steps of requests *)

LEMMA GoStep ==
  ASSUME Typed, NEW r \in Requests, NEW local \in RequestStates, Held(local),
         request' = [request EXCEPT ![r] = local]
  PROVE  /\ request' \in [Requests -> RequestStates] /\ request'[r] = local
         /\ \A q \in Requests : q # r => request'[q] = request[q]
         /\ \A q \in Requests : Held(request[q])'
<1>1. /\ request' \in [Requests -> RequestStates] /\ request'[r] = local
      /\ \A q \in Requests : q # r => request'[q] = request[q]
      BY DEF Typed, TypeOK
<1>2. \A q \in Requests : Held(request'[q])
      BY <1>1 DEF Typed
<1> QED BY <1>1, <1>2 DEF Held

\* A step that changes no environment, and is not a step of a walk.
LEMMA QuietKeeps ==
  ASSUME IInv, NEW r \in Requests, NEW local \in RequestStates, Held(local),
         request' = [request EXCEPT ![r] = local],
         local.op \in {"create", "setParent"} => local.op = request[r].op,
         local.pc \notin {"insert", "walk", "link"},
         UNCHANGED <<present, deleted, parent, movesOverlapped, createsOverlapped, overLimit>>
  PROVE  Limits' /\ Moves'
<1>1. /\ request'[r] = local /\ \A q \in Requests : q # r => request'[q] = request[q]
      BY GoStep DEF IInv
<1>2. \A q \in Requests, op \in {"create", "setParent"} : Doing(q, op)' => Doing(q, op)
      BY <1>1 DEF Doing
<1>3. \A q \in Requests : At(q, "insert")' => At(q, "insert") /\ request'[q] = request[q]
      BY <1>1 DEF At
<1>4. Limits'
  <2>1. WithinLimit' BY DEF IInv, Limits, WithinLimit
  <2>2. ~createsOverlapped => Alone("create")' BY <1>2 DEF IInv, Limits, Alone
  <2> QED BY <1>3, <2>1, <2>2 DEF IInv, Limits, BelowLimit
<1>5. Walks(local)'
      BY DEF Walks, Existing
<1>6. \A q \in Requests : Walks(request[q]) /\ q # r => Walks(request[q])'
      BY <1>1 DEF Walks, Existing
<1>7. Moves'
  <2> SUFFICES ASSUME ~movesOverlapped
               PROVE  /\ Alone("setParent")' /\ NoCycle'
                      /\ \A q \in Requests : Doing(q, "setParent")' => Walks(request[q])'
      BY DEF Moves
  <2>1. Alone("setParent")' /\ NoCycle'
        BY <1>2 DEF IInv, Moves, Alone, NoCycle
  <2>2. ASSUME NEW q \in Requests, Doing(q, "setParent")' PROVE Walks(request[q])'
    <3>1. CASE q = r
      <4>1. Walks(request[r])' BY <1>1 DEF Walks, Existing
      <4> QED BY <3>1, <4>1
    <3>2. CASE q # r BY <3>2, <2>2, <1>2, <1>6 DEF IInv, Moves
    <3> QED BY <3>1, <3>2
  <2> QED BY <2>1, <2>2
<1> QED BY <1>4, <1>7
\* What a request is like once it has begun: the others lose what they were
\* alone with.
LEMMA BeginStep ==
  ASSUME Typed, NEW r \in Requests, NEW op \in Operations \cap {"create", "setParent", "delete",
           "createFlag", "deleteFlag", "setConfig", "setRules", "promote", "inherit"},
         NEW local \in RequestStates, Held([local EXCEPT !.op = op]), Begin(r, op, local)
  PROVE  /\ request' \in [Requests -> RequestStates]
         /\ \A q \in Requests : Held(request[q])'
         /\ At(r, "idle") /\ made' \in Nat
         /\ movesOverlapped' \in BOOLEAN /\ createsOverlapped' \in BOOLEAN
         /\ broken' = broken /\ overLimit' = overLimit
         /\ local = Idle => request'[r] = Idle
         /\ local # Idle =>
              /\ request'[r].op = op /\ request'[r].pc = local.pc /\ request'[r].env = local.env
              /\ request'[r].other = local.other /\ request'[r].todo = local.todo
              /\ request'[r].source = local.source
         /\ \A q \in Requests : q # r =>
              /\ request'[q].op = request[q].op /\ request'[q].pc = request[q].pc
              /\ request'[q].env = request[q].env /\ request'[q].other = request[q].other
              /\ request'[q].todo = request[q].todo /\ request'[q].source = request[q].source
<1> DEFINE alone == op = "setConfig" /\ \A p \in Requests : ~Running(p)
           begun == [local EXCEPT !.op = op, !.alone = alone]
<1>1. request' = [q \in Requests |->
                    IF q # r THEN [request[q] EXCEPT !.alone = FALSE]
                    ELSE IF local = Idle THEN Idle ELSE begun]
      BY DEF Begin
<1>2. alone \in BOOLEAN
      OBVIOUS
<1> HIDE DEF alone
<1>3. /\ begun \in RequestStates
      /\ begun.op = op /\ begun.pc = local.pc /\ begun.env = local.env
      /\ begun.other = local.other /\ begun.todo = local.todo /\ begun.source = local.source
      /\ begun.target = local.target /\ begun.stack = local.stack
      BY <1>2 DEF RequestStates
<1>4. Held(begun)
  <2>1. /\ [local EXCEPT !.op = op].op = op /\ [local EXCEPT !.op = op].pc = local.pc
        /\ [local EXCEPT !.op = op].env = local.env /\ [local EXCEPT !.op = op].other = local.other
        /\ [local EXCEPT !.op = op].source = local.source /\ [local EXCEPT !.op = op].target = local.target
        /\ [local EXCEPT !.op = op].stack = local.stack
        BY DEF RequestStates
  <2> QED BY <1>3, <2>1 DEF Held
<1> HIDE DEF begun
<1>5. ASSUME NEW q \in Requests, q # r
      PROVE  /\ request'[q] \in RequestStates
             /\ request'[q].op = request[q].op /\ request'[q].pc = request[q].pc
             /\ request'[q].env = request[q].env /\ request'[q].other = request[q].other
             /\ request'[q].todo = request[q].todo /\ request'[q].source = request[q].source
             /\ request'[q].target = request[q].target /\ request'[q].stack = request[q].stack
  <2>1. request[q] \in RequestStates BY DEF Typed, TypeOK
  <2>2. request'[q] = [request[q] EXCEPT !.alone = FALSE] BY <1>1, <1>5
  <2> QED BY <2>1, <2>2 DEF RequestStates
<1>6. request'[r] = IF local = Idle THEN Idle ELSE begun
      BY <1>1
<1>7. request' \in [Requests -> RequestStates]
  <2>1. \A q \in Requests : (IF q # r THEN [request[q] EXCEPT !.alone = FALSE]
                             ELSE IF local = Idle THEN Idle ELSE begun) \in RequestStates
        BY <1>1, <1>3, <1>5, <1>6, IdleType
  <2> QED BY <1>1, <2>1
<1>8. \A q \in Requests : q # r => Held(request'[q])
  <2> SUFFICES ASSUME NEW q \in Requests, q # r PROVE Held(request'[q])
      OBVIOUS
  <2>1. Held(request[q]) BY DEF Typed
  <2> QED BY <1>5, <2>1 DEF Held
<1>9. Held(request'[r])
      BY <1>4, <1>6, IdleType
<1>10. \A q \in Requests : Held(request[q])'
      BY <1>8, <1>9 DEF Held
<1>11. At(r, "idle") /\ made' \in Nat /\ broken' = broken /\ overLimit' = overLimit
  <2>1. At(r, "idle") /\ made' = made + 1 /\ broken' = broken /\ overLimit' = overLimit BY DEF Begin
  <2>2. made \in Nat BY DEF Typed, TypeOK
  <2> QED BY <2>1, <2>2
<1>12. movesOverlapped' \in BOOLEAN /\ createsOverlapped' \in BOOLEAN
      BY DEF Begin, Typed, TypeOK
<1> QED BY <1>3, <1>5, <1>6, <1>7, <1>10, <1>11, <1>12

\* A request begins that neither creates nor moves nor deletes.
LEMMA OtherBegins ==
  ASSUME IInv, NEW r \in Requests, NEW op \in Operations \cap {"createFlag", "deleteFlag", "setConfig",
           "setRules", "promote", "inherit"},
         NEW local \in RequestStates, Held([local EXCEPT !.op = op]), Begin(r, op, local),
         local.pc \notin {"insert", "walk", "link"},
         UNCHANGED <<present, deleted, parent>>
  PROVE  Limits' /\ Moves'
<1>1. /\ overLimit' = overLimit
      /\ request'[r] = Idle \/ (request'[r].op = op /\ request'[r].pc = local.pc)
      /\ \A q \in Requests : q # r =>
              /\ request'[q].op = request[q].op /\ request'[q].pc = request[q].pc
              /\ request'[q].env = request[q].env /\ request'[q].other = request[q].other
              /\ request'[q].todo = request[q].todo /\ request'[q].source = request[q].source
      BY BeginStep DEF IInv
<1>2. movesOverlapped' = movesOverlapped /\ createsOverlapped' = createsOverlapped
      BY DEF Begin, IInv, Typed, TypeOK
<1>3. \A q \in Requests, o \in {"create", "setParent"} : Doing(q, o)' => q # r /\ Doing(q, o)
      BY <1>1, IdleType DEF Doing
<1>4. \A q \in Requests : At(q, "insert")' => q # r /\ At(q, "insert") /\ request'[q].env = request[q].env
      BY <1>1, IdleType DEF At
<1>5. Limits'
  <2>1. WithinLimit' BY <1>1, <1>2 DEF IInv, Limits, WithinLimit
  <2>2. ~createsOverlapped => Alone("create")' BY <1>3 DEF IInv, Limits, Alone
  <2> QED BY <1>2, <1>4, <2>1, <2>2 DEF IInv, Limits, BelowLimit
<1>6. \A q \in Requests : q # r /\ Walks(request[q]) => Walks(request[q])'
      BY <1>1 DEF Walks, Existing
<1>7. Moves'
  <2> SUFFICES ASSUME ~movesOverlapped
               PROVE  /\ Alone("setParent")' /\ NoCycle'
                      /\ \A q \in Requests : Doing(q, "setParent")' => Walks(request[q])'
      BY <1>2 DEF Moves
  <2>1. Alone("setParent")' /\ NoCycle'
        BY <1>3 DEF IInv, Moves, Alone, NoCycle
  <2> QED BY <1>3, <1>6, <2>1 DEF IInv, Moves
<1> QED BY <1>5, <1>7
-----------------------------------------------------------------------------
(* Steps of requests that change no environment *)

LEMMA StillConfigured ==
  ASSUME Configured, flag' = "present" => flag = "present", present' \subseteq present,
         broken \subseteq broken',
         \A e \in present' : flag' = "present" /\ config[e] # None => config'[e] # None,
         \A e \in present', q \in Requests :
           flag' = "present" /\ OnItsWay(q, e) => OnItsWay(q, e)' \/ config'[e] # None \/ e \in broken'
  PROVE  Configured'
<1> SUFFICES ASSUME flag' = "present", NEW e \in present', config'[e] = None, e \notin broken'
             PROVE  \E q \in Requests : OnItsWay(q, e)'
    BY DEF Configured
<1>1. PICK q \in Requests : OnItsWay(q, e)
      BY DEF Configured
<1> QED BY <1>1

\* What most steps of a request have in common: it is not on its way to
\* configure an environment, or has done so.
LEMMA StepKeeps ==
  ASSUME IInv, NEW r \in Requests, NEW local \in RequestStates, Held(local),
         request' = [request EXCEPT ![r] = local],
         local.op \in {"create", "setParent"} => local.op = request[r].op,
         local.pc \notin {"insert", "walk", "link"},
         UNCHANGED <<present, deleted, parent, flag, made, movesOverlapped, createsOverlapped, overLimit>>,
         config' \in [Environments -> Maybe(Configs)], broken' \subseteq Environments,
         broken \subseteq broken',
         \A e \in Environments : /\ config'[e] # None => config[e] # None \/ (e \in Existing /\ flag = "present")
                                 /\ config[e] # None => config'[e] # None,
         \A e \in present : flag = "present" /\ OnItsWay(r, e) =>
                              OnItsWay(r, e)' \/ config'[e] # None \/ e \in broken'
  PROVE  IInv'
<1>1. Limits' /\ Moves'
      BY QuietKeeps
<1>2. /\ request' \in [Requests -> RequestStates]
      /\ \A q \in Requests : q # r => request'[q] = request[q]
      /\ \A q \in Requests : Held(request[q])'
      BY GoStep DEF IInv
<1>3. Typed'
      BY <1>2 DEF IInv, Typed, TypeOK, Existing
<1>4. \A e \in present, q \in Requests : q # r /\ OnItsWay(q, e) => OnItsWay(q, e)'
      BY <1>2 DEF OnItsWay, At
<1>5. present \subseteq Environments
      BY DEF IInv, Typed, TypeOK
<1>6. Configured'
  <2>1. \A e \in present, q \in Requests :
          flag = "present" /\ OnItsWay(q, e) => OnItsWay(q, e)' \/ config'[e] # None \/ e \in broken'
        BY <1>4
  <2> QED BY <1>5, <2>1, StillConfigured DEF IInv
<1> QED BY <1>1, <1>3, <1>6 DEF IInv

\* The configurations stay, and none is on its way by this request.
LEMMA PlainKeeps ==
  ASSUME IInv, NEW r \in Requests, NEW local \in RequestStates, Held(local),
         request' = [request EXCEPT ![r] = local],
         local.op \in {"create", "setParent"} => local.op = request[r].op,
         local.pc \notin {"insert", "walk", "link"},
         request[r].pc \notin {"listFlags", "provision", "listEnvironments", "seed"},
         UNCHANGED rows, UNCHANGED history
  PROVE  IInv'
<1>1. \A e \in present : ~OnItsWay(r, e)
      BY DEF OnItsWay, At
<1>2. config \in [Environments -> Maybe(Configs)] /\ broken \subseteq Environments
      BY DEF IInv, Typed, TypeOK
<1> QED BY <1>1, <1>2, StepKeeps DEF rows, history

LEMMA RequestTyped ==
  ASSUME Typed, NEW r \in Requests
  PROVE  request[r] \in RequestStates /\ Held(request[r])
BY DEF Typed, TypeOK

LEMMA ListFlagsKeeps ==
  ASSUME IInv, NEW r \in Requests, ListFlags(r)
  PROVE  IInv'
<1> DEFINE s == request[r]
           local == IF flag = "present" THEN [s EXCEPT !.pc = "provision"] ELSE Finished(r)
<1>1. s \in RequestStates /\ Held(s) /\ s.pc = "listFlags" /\ Typed
      BY RequestTyped DEF IInv, ListFlags, At
<1>2. request' = [request EXCEPT ![r] = local] /\ UNCHANGED rows /\ UNCHANGED history
      BY DEF ListFlags, Go
<1>3. CASE flag = "present"
  <2>1. /\ local \in RequestStates /\ local.pc = "provision" /\ local.op = s.op /\ local.env = s.env
        BY <1>1, <1>3 DEF RequestStates
  <2>2. Held(local)
        BY <1>1, <2>1 DEF Held
  <2> HIDE DEF local
  <2>3. \A e \in present : OnItsWay(r, e) => OnItsWay(r, e)'
    <3>1. request'[r] = local BY <1>1, <1>2, <2>1, <2>2, GoStep
    <3> QED BY <1>1, <2>1, <3>1 DEF OnItsWay, At
  <2>4. config \in [Environments -> Maybe(Configs)] /\ broken \subseteq Environments
        BY DEF IInv, Typed, TypeOK
  <2> QED BY <1>2, <2>1, <2>2, <2>3, <2>4, StepKeeps DEF rows, history
<1>4. CASE flag # "present"
  <2>1. /\ local \in RequestStates /\ Held(local) /\ local.op \in {"none", "setConfig"}
        /\ local.pc \in {"idle", "done"}
        BY <1>1, <1>4, FinishedType
  <2> HIDE DEF local
  <2>2. config \in [Environments -> Maybe(Configs)] /\ broken \subseteq Environments
        BY DEF IInv, Typed, TypeOK
  <2> QED BY <1>2, <1>4, <2>1, <2>2, StepKeeps DEF rows, history
<1> QED BY <1>3, <1>4

LEMMA ProvisionKeeps ==
  ASSUME IInv, NEW r \in Requests, Provision(r)
  PROVE  IInv'
<1> DEFINE s == request[r]
           e == s.env
           local == IF parent[e] = None THEN Finished(r)
                    ELSE [s EXCEPT !.pc = "fetch", !.source = parent[e], !.target = e]
<1>1. s \in RequestStates /\ Held(s) /\ s.pc = "provision" /\ Typed
      BY RequestTyped DEF IInv, Provision, At
<1>2. /\ e \in present /\ flag = "present" /\ config' = Ensured({e, parent[e]})
      /\ request' = [request EXCEPT ![r] = local]
      /\ UNCHANGED <<present, deleted, parent, flag>> /\ UNCHANGED history
      BY DEF Provision, Go
<1>3. /\ e \in Environments /\ parent[e] \in Maybe(Existing) /\ present \subseteq Environments
      /\ Existing \subseteq Environments
      BY <1>1, <1>2, ConstantsAssumption DEF Typed, TypeOK, Existing
<1>4. /\ local \in RequestStates /\ Held(local) /\ local.op \in {"none", "setConfig", s.op}
      /\ local.pc \in {"idle", "done", "fetch"}
  <2>1. CASE parent[e] = None BY <1>1, <2>1, FinishedType
  <2>2. CASE parent[e] # None
    <3>1. parent[e] \in Environments BY <1>3, <2>2 DEF Maybe
    <3>2. /\ local \in RequestStates /\ local.op = s.op /\ local.pc = "fetch" /\ local.env = e
          /\ local.source = parent[e] /\ local.target = e
          BY <1>1, <1>3, <2>2, <3>1 DEF RequestStates, Maybe
    <3> QED BY <1>1, <1>3, <3>1, <3>2 DEF Held
  <2> QED BY <2>1, <2>2
<1> HIDE DEF local
<1>5. /\ config' \in [Environments -> Maybe(Configs)]
      /\ \A d \in Environments : /\ config'[d] # None => d \in Existing
                                 /\ d \in {e, parent[e]} => config'[d] # None
                                 /\ config[d] # None => config'[d] = config[d]
  <2>1. {e, parent[e]} \subseteq Maybe(Existing) BY <1>2, <1>3 DEF Maybe, Existing
  <2> QED BY <1>1, <1>2, <2>1, EnsuredType
<1>6. \A d \in present : OnItsWay(r, d) => config'[d] # None
      BY <1>1, <1>3, <1>5 DEF OnItsWay, At
<1>7. broken' \subseteq Environments /\ broken \subseteq broken'
      BY <1>2 DEF history, IInv, Typed, TypeOK
<1> QED BY <1>2, <1>4, <1>5, <1>6, <1>7, StepKeeps DEF history
LEMMA ListEnvironmentsKeeps ==
  ASSUME IInv, NEW r \in Requests, ListEnvironments(r)
  PROVE  IInv'
<1> DEFINE s == request[r]
           local == [s EXCEPT !.pc = "seed", !.todo = present]
<1>1. s \in RequestStates /\ Held(s) /\ s.pc = "listEnvironments" /\ Typed
      BY RequestTyped DEF IInv, ListEnvironments, At
<1>2. request' = [request EXCEPT ![r] = local] /\ UNCHANGED rows /\ UNCHANGED history
      BY DEF ListEnvironments, Go
<1>3. present \subseteq Environments /\ config \in [Environments -> Maybe(Configs)] /\ broken \subseteq Environments
      BY DEF IInv, Typed, TypeOK
<1>4. local \in RequestStates /\ local.pc = "seed" /\ local.op = s.op /\ local.env = s.env
      /\ local.todo = present
      BY <1>1, <1>3 DEF RequestStates
<1>5. Held(local)
      BY <1>1, <1>4 DEF Held
<1> HIDE DEF local
<1>6. \A e \in present : OnItsWay(r, e)'
  <2>1. request'[r] = local BY <1>1, <1>2, <1>4, <1>5, GoStep
  <2> QED BY <1>4, <2>1 DEF OnItsWay, At
<1> QED BY <1>1, <1>2, <1>3, <1>4, <1>5, <1>6, StepKeeps DEF rows, history

LEMMA SeedKeeps ==
  ASSUME IInv, NEW r \in Requests, Seed(r)
  PROVE  IInv'
<1> DEFINE s == request[r]
<1>1. s \in RequestStates /\ Held(s) /\ s.pc = "seed" /\ Typed /\ s.todo \subseteq Environments
      BY RequestTyped DEF IInv, Seed, At, RequestStates
<1>2. UNCHANGED <<present, deleted, parent, flag>> /\ UNCHANGED history
      BY DEF Seed, Go
<1>3. config \in [Environments -> Maybe(Configs)] /\ broken \subseteq Environments /\ present \subseteq Environments
      BY DEF IInv, Typed, TypeOK
<1>4. CASE s.todo = {} /\ Go(r, Finished(r)) /\ UNCHANGED config
  <2>1. /\ Finished(r) \in RequestStates /\ Held(Finished(r)) /\ Finished(r).op \in {"none", "setConfig"}
        /\ Finished(r).pc \in {"idle", "done"}
        BY <1>1, FinishedType
  <2>2. \A e \in present : ~OnItsWay(r, e)
        BY <1>1, <1>4 DEF OnItsWay, At
  <2> QED BY <1>2, <1>3, <1>4, <2>1, <2>2, StepKeeps DEF Go, history
<1>5. ASSUME NEW e \in s.todo \cap present, flag = "present", config' = Ensured({e}),
             Go(r, [s EXCEPT !.todo = @ \ {e}])
      PROVE  IInv'
  <2> DEFINE local == [s EXCEPT !.todo = s.todo \ {e}]
  <2>1. request' = [request EXCEPT ![r] = local]
        BY <1>5 DEF Go
  <2>2. local \in RequestStates /\ local.pc = "seed" /\ local.op = s.op /\ local.env = s.env
        /\ local.todo = s.todo \ {e}
        BY <1>1 DEF RequestStates
  <2>3. Held(local)
        BY <1>1, <2>2 DEF Held
  <2> HIDE DEF local
  <2>4. /\ config' \in [Environments -> Maybe(Configs)]
        /\ \A d \in Environments : /\ config'[d] # None => d \in Existing
                                   /\ d = e => config'[d] # None
                                   /\ config[d] # None => config'[d] = config[d]
    <3>1. {e} \subseteq Maybe(Existing) BY DEF Maybe, Existing
    <3> QED BY <1>1, <1>5, <3>1, EnsuredType
  <2>5. \A d \in present : OnItsWay(r, d) => OnItsWay(r, d)' \/ config'[d] # None
    <3>1. request'[r] = local BY <1>1, <2>1, <2>2, <2>3, GoStep
    <3> QED BY <1>1, <1>3, <2>2, <2>4, <3>1 DEF OnItsWay, At
  <2>6. broken' = broken BY <1>2 DEF history
  <2> QED BY <1>1, <1>2, <1>3, <1>5, <2>1, <2>2, <2>3, <2>4, <2>5, <2>6, StepKeeps DEF history
<1> QED BY <1>4, <1>5 DEF Seed

\* A configuration that is there is changed.
LEMMA ChangeKeeps ==
  ASSUME IInv, NEW r \in Requests, NEW local \in RequestStates, Held(local),
         request' = [request EXCEPT ![r] = local],
         local.op \in {"create", "setParent"} => local.op = request[r].op,
         local.pc \notin {"insert", "walk", "link"},
         request[r].pc \notin {"listFlags", "provision", "listEnvironments", "seed"},
         NEW e \in Environments, config[e] # None, NEW new \in Configs,
         config' = [config EXCEPT ![e] = new],
         UNCHANGED <<present, deleted, parent, flag>>, UNCHANGED history
  PROVE  IInv'
<1>1. \A d \in present : ~OnItsWay(r, d)
      BY DEF OnItsWay, At
<1>2. config \in [Environments -> Maybe(Configs)] /\ broken \subseteq Environments
      BY DEF IInv, Typed, TypeOK
<1>3. new # None
      BY ConstantsAssumption
<1>4. /\ config' \in [Environments -> Maybe(Configs)]
      /\ \A d \in Environments : /\ config'[d] # None => config[d] # None
                                 /\ config[d] # None => config'[d] # None
      BY <1>2, <1>3 DEF Maybe
<1> QED BY <1>1, <1>2, <1>4, StepKeeps DEF history

LEMMA ConfigTyped ==
  ASSUME Typed, NEW e \in Environments, config[e] # None
  PROVE  config[e] \in Configs /\ e \in Existing /\ flag = "present"
BY DEF Typed, TypeOK, Maybe

Frames == [env : Environments, todo : SUBSET Environments]

LEMMA UpdateKeeps ==
  ASSUME IInv, NEW r \in Requests, Update(r)
  PROVE  IInv'
<1> DEFINE s == request[r]
           e == s.env
           local == [s EXCEPT !.pc = "list", !.new = Default, !.stack = <<[env |-> e, todo |-> {}]>>]
           new == [config[e] EXCEPT !.value = s.new.value, !.inherited = s.new.inherited]
<1>1. s \in RequestStates /\ Held(s) /\ s.pc = "update" /\ Typed
      BY RequestTyped DEF IInv, Update, At
<1>2. e \in Environments /\ config[e] # None /\ config[e] \in Configs
      BY <1>1, ConfigTyped DEF Held, Update
<1>3. <<[env |-> e, todo |-> {}]>> \in Seq(Frames) /\ <<[env |-> e, todo |-> {}]>> # <<>>
      BY <1>2 DEF Frames
<1>4. local \in RequestStates /\ local.pc = "list" /\ local.op = s.op /\ local.env = s.env
      /\ local.stack # <<>>
      BY <1>1, <1>3, IdleType DEF RequestStates, Frames
<1>5. Held(local)
      BY <1>1, <1>4 DEF Held
<1>6. new \in Configs
      BY <1>1, <1>2 DEF RequestStates, Configs
<1>7. config' = [config EXCEPT ![e] = new]
  <2>1. config \in [Environments -> Maybe(Configs)] BY <1>1 DEF Typed, TypeOK
  <2> QED BY <1>2, <2>1 DEF Update
<1>8. /\ request' = [request EXCEPT ![r] = local]
      /\ UNCHANGED <<present, deleted, parent, flag>> /\ UNCHANGED history
      BY DEF Update, Go
<1> HIDE DEF local, new, e
<1> QED BY <1>1, <1>2, <1>4, <1>5, <1>6, <1>7, <1>8, ChangeKeeps

\* The top of the stack, and a change of it.
LEMMA TopType ==
  ASSUME Typed, NEW r \in Requests, request[r].stack # <<>>, NEW todo \in SUBSET Environments
  PROVE  /\ Len(request[r].stack) \in Nat \ {0}
         /\ Top(r) \in Frames
         /\ WithTop(r, todo) \in Seq(Frames) /\ WithTop(r, todo) # <<>>
<1> DEFINE stack == request[r].stack
           frame == [stack[Len(stack)] EXCEPT !.todo = todo]
<1>1. stack \in Seq(Frames)
      BY RequestTyped DEF RequestStates, Frames
<1>2. Len(stack) \in Nat \ {0} /\ \A i \in 1..Len(stack) : stack[i] \in Frames
      BY <1>1, EmptySeq
<1>3. Len(stack) \in 1..Len(stack) /\ stack[Len(stack)] \in Frames
      BY <1>2
<1>4. frame \in Frames
      BY <1>3 DEF Frames
<1>5. WithTop(r, todo) = [stack EXCEPT ![Len(stack)] = frame]
      BY DEF WithTop
<1> HIDE DEF frame, stack
<1>6. /\ [stack EXCEPT ![Len(stack)] = frame] \in Seq(Frames)
      /\ Len([stack EXCEPT ![Len(stack)] = frame]) = Len(stack)
      BY <1>1, <1>3, <1>4, ExceptSeq
<1>7. [stack EXCEPT ![Len(stack)] = frame] # <<>>
      BY <1>2, <1>6, EmptySeq
<1> QED BY <1>2, <1>3, <1>5, <1>6, <1>7 DEF Top, stack
LEMMA ListKeeps ==
  ASSUME IInv, NEW r \in Requests, List(r)
  PROVE  IInv'
<1> DEFINE s == request[r]
           stack == WithTop(r, Children(Top(r).env))
           local == [s EXCEPT !.pc = "child", !.stack = stack]
<1>1. s \in RequestStates /\ Held(s) /\ s.pc = "list" /\ Typed /\ s.stack # <<>>
      BY RequestTyped DEF IInv, List, At, Held
<1>2. Children(Top(r).env) \subseteq Environments
      BY <1>1 DEF Children, Typed, TypeOK
<1>3. stack \in Seq(Frames) /\ stack # <<>>
      BY <1>1, <1>2, TopType
<1>4. request' = [request EXCEPT ![r] = local] /\ UNCHANGED rows /\ UNCHANGED history
      BY DEF List, Go
<1> HIDE DEF stack
<1>5. local \in RequestStates /\ local.pc = "child" /\ local.op = s.op /\ local.env = s.env
      /\ local.stack = stack
      BY <1>1, <1>3 DEF RequestStates, Frames
<1>6. Held(local)
      BY <1>1, <1>3, <1>5 DEF Held
<1> HIDE DEF local
<1> QED BY <1>1, <1>4, <1>5, <1>6, PlainKeeps

LEMMA ChildKeeps ==
  ASSUME IInv, NEW r \in Requests, Child(r)
  PROVE  IInv'
<1> DEFINE s == request[r]
<1>1. s \in RequestStates /\ Held(s) /\ s.pc = "child" /\ Typed /\ s.stack # <<>>
      BY RequestTyped DEF IInv, Child, At, Held
<1>2. PICK c \in Top(r).todo \cap present :
        /\ config' = Ensured({c})
        /\ Go(r, LET local == [s EXCEPT !.stack = WithTop(r, Top(r).todo \ {c})]
                 IN  IF config'[c].inherited
                     THEN [local EXCEPT !.pc = "fetch", !.source = Top(r).env, !.target = c]
                     ELSE local)
      BY DEF Child
<1>3. UNCHANGED <<present, deleted, parent, flag>> /\ flag = "present"
      BY DEF Child
<1>4. Top(r) \in Frames /\ Top(r).env \in Environments /\ Top(r).todo \subseteq Environments /\ c \in Environments
      BY <1>1, <1>2, TopType DEF Frames, Typed, TypeOK
<1> DEFINE stack == WithTop(r, Top(r).todo \ {c})
           local == [s EXCEPT !.stack = stack]
           fetch == [local EXCEPT !.pc = "fetch", !.source = Top(r).env, !.target = c]
           next == IF config'[c].inherited THEN fetch ELSE local
<1>5. stack \in Seq(Frames) /\ stack # <<>>
  <2>1. Top(r).todo \ {c} \in SUBSET Environments BY <1>4
  <2> QED BY <1>1, <2>1, TopType
<1>6. request' = [request EXCEPT ![r] = next] /\ UNCHANGED history
      BY <1>2 DEF Go
<1> HIDE DEF stack
<1>7. local \in RequestStates /\ local.pc = "child" /\ local.op = s.op /\ local.env = s.env
      /\ local.stack = stack
      BY <1>1, <1>5 DEF RequestStates, Frames
<1>8. Held(local)
      BY <1>1, <1>5, <1>7 DEF Held
<1> HIDE DEF local
<1>9. /\ fetch \in RequestStates /\ fetch.pc = "fetch" /\ fetch.op = s.op /\ fetch.env = s.env
      /\ fetch.source \in Environments /\ fetch.target \in Environments
      BY <1>4, <1>7 DEF RequestStates, Maybe
<1>10. Held(fetch)
      BY <1>1, <1>9 DEF Held
<1> HIDE DEF fetch
<1>11. next \in RequestStates /\ next.pc \in {"child", "fetch"} /\ next.op = s.op /\ Held(next)
      BY <1>7, <1>8, <1>9, <1>10
<1> HIDE DEF next
<1>12. /\ config' \in [Environments -> Maybe(Configs)]
       /\ \A d \in Environments : /\ config'[d] # None => d \in Existing
                                  /\ config[d] # None => config'[d] = config[d]
  <2>1. {c} \subseteq Maybe(Existing) BY DEF Maybe, Existing
  <2> QED BY <1>1, <1>2, <1>3, <2>1, EnsuredType
<1>13. \A d \in present : ~OnItsWay(r, d)
      BY <1>1 DEF OnItsWay, At
<1>14. broken' \subseteq Environments /\ broken \subseteq broken'
      BY <1>6 DEF history, IInv, Typed, TypeOK
<1> QED BY <1>1, <1>3, <1>6, <1>11, <1>12, <1>13, <1>14, StepKeeps DEF history

LEMMA ReturnKeeps ==
  ASSUME IInv, NEW r \in Requests, Return(r)
  PROVE  IInv'
<1> DEFINE s == request[r]
           stack == SubSeq(s.stack, 1, Len(s.stack) - 1)
           local == [s EXCEPT !.stack = stack]
           next == IF Len(s.stack) = 1 THEN Finished(r) ELSE local
<1>1. s \in RequestStates /\ Held(s) /\ s.pc = "child" /\ Typed /\ s.stack # <<>>
      BY RequestTyped DEF IInv, Return, At, Held
<1>2. request' = [request EXCEPT ![r] = next] /\ UNCHANGED rows /\ UNCHANGED history
      BY DEF Return, Go
<1>3. s.stack \in Seq(Frames)
      BY <1>1 DEF RequestStates, Frames
<1>4. Len(s.stack) \in Nat /\ Len(s.stack) > 0
      BY <1>1, <1>3, EmptySeq
<1>5. next \in RequestStates /\ next.pc \in {"idle", "done", "child"} /\ next.op \in {"none", "setConfig", s.op}
      /\ Held(next)
  <2>1. CASE Len(s.stack) = 1 BY <1>1, <2>1, FinishedType
  <2>2. CASE Len(s.stack) # 1
    <3> DEFINE n == Len(s.stack)
    <3>1. n \in Nat /\ n > 0 /\ n # 1 /\ s.stack \in Seq(Frames) BY <1>3, <1>4, <2>2
    <3>2. stack \in Seq(Frames) /\ stack # <<>>
      <4>1. \A i \in 1..(n - 1) : s.stack[i] \in Frames
            BY <3>1
      <4> HIDE DEF n
      <4>2. 1 \in Int /\ n - 1 \in Int /\ 1 <= n - 1 /\ n - 1 # 0
            BY <3>1
      <4>3. /\ SubSeq(s.stack, 1, n - 1) \in Seq(Frames)
            /\ Len(SubSeq(s.stack, 1, n - 1)) = (n - 1) - 1 + 1
            BY <4>1, <4>2, SubSeqProperties
      <4>4. Len(SubSeq(s.stack, 1, n - 1)) # 0
            BY <3>1, <4>2, <4>3
      <4>5. SubSeq(s.stack, 1, n - 1) # <<>>
            BY <4>3, <4>4, EmptySeq
      <4> QED BY <4>3, <4>5 DEF n
    <3> HIDE DEF stack
    <3>3. local \in RequestStates /\ local.pc = "child" /\ local.op = s.op /\ local.env = s.env
          /\ local.stack = stack
          BY <1>1, <3>2 DEF RequestStates, Frames
    <3>4. Held(local) BY <1>1, <3>2, <3>3 DEF Held
    <3> QED BY <2>2, <3>3, <3>4
  <2> QED BY <2>1, <2>2
<1> HIDE DEF next
<1> QED BY <1>1, <1>2, <1>5, PlainKeeps

LEMMA FetchKeeps ==
  ASSUME IInv, NEW r \in Requests, Fetch(r)
  PROVE  IInv'
<1> DEFINE s == request[r]
           local == [s EXCEPT !.pc = "store", !.read = config[s.source]]
<1>1. s \in RequestStates /\ Held(s) /\ s.pc = "fetch" /\ Typed
      BY RequestTyped DEF IInv, Fetch, At
<1>2. s.source \in Environments /\ s.target \in Environments
      BY <1>1 DEF Held
<1>3. config[s.source] \in Configs
      BY <1>1, <1>2, ConfigTyped DEF Fetch
<1>4. request' = [request EXCEPT ![r] = local] /\ UNCHANGED rows /\ UNCHANGED history
      BY DEF Fetch, Go
<1>5. local \in RequestStates /\ local.pc = "store" /\ local.op = s.op /\ local.env = s.env
      /\ local.target = s.target
      BY <1>1, <1>3 DEF RequestStates
<1>6. Held(local)
      BY <1>1, <1>2, <1>5 DEF Held
<1> HIDE DEF local
<1> QED BY <1>1, <1>4, <1>5, <1>6, PlainKeeps

LEMMA StoreKeeps ==
  ASSUME IInv, NEW r \in Requests, Store(r)
  PROVE  IInv'
<1> DEFINE s == request[r]
           e == s.target
           new == [s.read EXCEPT !.salt = config[e].salt, !.inherited = ~Doing(r, "promote")]
           stack == Append(s.stack, [env |-> e, todo |-> {}])
           local == IF Doing(r, "setConfig") THEN Stored(r) ELSE Finished(r)
<1>1. s \in RequestStates /\ Held(s) /\ s.pc = "store" /\ Typed
      BY RequestTyped DEF IInv, Store, At
<1>2. e \in Environments /\ config[e] # None
      BY <1>1 DEF Held, Store
<1>3. new \in Configs
  <2>1. (~Doing(r, "promote")) \in BOOLEAN BY DEF Doing
  <2>2. config[e] \in Configs BY <1>1, <1>2, ConfigTyped
  <2> QED BY <1>1, <2>1, <2>2 DEF RequestStates, Configs
<1>4. /\ request' = [request EXCEPT ![r] = local] /\ config' = [config EXCEPT ![e] = new]
      /\ UNCHANGED <<present, deleted, parent, flag>> /\ UNCHANGED history
      BY DEF Store, Go
<1>5. stack \in Seq(Frames) /\ stack # <<>>
  <2>1. [env |-> e, todo |-> {}] \in Frames BY <1>2 DEF Frames
  <2>2. s.stack \in Seq(Frames) BY <1>1 DEF RequestStates, Frames
  <2> QED BY <2>1, <2>2, AppendProperties
<1>6. Stored(r) = [s EXCEPT !.pc = "list", !.source = None, !.target = None, !.read = Default, !.stack = stack]
      BY <1>1 DEF Stored, RequestStates
<1> HIDE DEF stack
<1>7. /\ Stored(r) \in RequestStates /\ Stored(r).pc = "list" /\ Stored(r).op = s.op
      /\ Stored(r).stack = stack /\ Stored(r).env = s.env
      BY <1>1, <1>5, <1>6, IdleType DEF RequestStates, Frames, Maybe
<1>8. Held(Stored(r))
      BY <1>1, <1>5, <1>7 DEF Held
<1>9. local \in RequestStates /\ local.pc \in {"list", "idle", "done"} /\ local.op \in {"none", "setConfig", s.op}
      /\ Held(local)
      BY <1>1, <1>7, <1>8, FinishedType
<1> HIDE DEF local, new, e
<1> QED BY <1>1, <1>2, <1>3, <1>4, <1>9, ChangeKeeps

LEMMA ReplaceKeeps ==
  ASSUME IInv, NEW r \in Requests, Replace(r)
  PROVE  IInv'
<1> DEFINE s == request[r]
           e == s.env
           new == [config[e] EXCEPT !.rules = s.new.rules]
           detach == [s EXCEPT !.pc = "detach"]
           local == IF s.new.inherited THEN detach ELSE Finished(r)
<1>1. s \in RequestStates /\ Held(s) /\ s.pc = "replace" /\ Typed
      BY RequestTyped DEF IInv, Replace, At
<1>2. e \in Environments /\ config[e] # None /\ config[e] \in Configs
      BY <1>1, ConfigTyped DEF Held, Replace
<1>3. new \in Configs
      BY <1>1, <1>2 DEF RequestStates, Configs
<1>4. config' = [config EXCEPT ![e] = new]
  <2>1. config \in [Environments -> Maybe(Configs)] BY <1>1 DEF Typed, TypeOK
  <2> QED BY <1>2, <2>1 DEF Replace
<1>5. /\ request' = [request EXCEPT ![r] = local]
      /\ UNCHANGED <<present, deleted, parent, flag>> /\ UNCHANGED history
      BY DEF Replace, Go
<1>6. detach \in RequestStates /\ detach.pc = "detach" /\ detach.op = s.op /\ detach.env = e
      BY <1>1 DEF RequestStates
<1>7. Held(detach)
      BY <1>1, <1>2, <1>6 DEF Held
<1>8. local \in RequestStates /\ local.pc \in {"detach", "idle", "done"} /\ local.op \in {"none", "setConfig", s.op}
      /\ Held(local)
      BY <1>1, <1>6, <1>7, FinishedType
<1> HIDE DEF local, new, e
<1> QED BY <1>1, <1>2, <1>3, <1>4, <1>5, <1>8, ChangeKeeps

LEMMA DetachKeeps ==
  ASSUME IInv, NEW r \in Requests, Detach(r)
  PROVE  IInv'
<1> DEFINE s == request[r]
           e == s.env
           new == [config[e] EXCEPT !.inherited = FALSE]
<1>1. s \in RequestStates /\ Held(s) /\ s.pc = "detach" /\ Typed
      BY RequestTyped DEF IInv, Detach, At
<1>2. e \in Environments /\ config[e] # None /\ config[e] \in Configs
      BY <1>1, ConfigTyped DEF Held, Detach
<1>3. new \in Configs
      BY <1>2 DEF Configs
<1>4. config' = [config EXCEPT ![e] = new]
  <2>1. config \in [Environments -> Maybe(Configs)] BY <1>1 DEF Typed, TypeOK
  <2> QED BY <1>2, <2>1 DEF Detach
<1>5. /\ request' = [request EXCEPT ![r] = Finished(r)]
      /\ UNCHANGED <<present, deleted, parent, flag>> /\ UNCHANGED history
      BY DEF Detach, Go
<1>6. /\ Finished(r) \in RequestStates /\ Held(Finished(r)) /\ Finished(r).op \in {"none", "setConfig"}
      /\ Finished(r).pc \in {"idle", "done"}
      BY <1>1, FinishedType
<1> HIDE DEF new, e
<1> QED BY <1>1, <1>2, <1>3, <1>4, <1>5, <1>6, ChangeKeeps

LEMMA RespondKeeps ==
  ASSUME IInv, NEW r \in Requests, Respond(r)
  PROVE  IInv'
<1>1. /\ request' = [request EXCEPT ![r] = Idle] /\ UNCHANGED rows /\ UNCHANGED history
      /\ request[r].pc = "done"
      BY DEF Respond, Go, At
<1> QED BY <1>1, IdleType, PlainKeeps

LEMMA ThrowKeeps ==
  ASSUME IInv, NEW r \in Requests, Throw(r)
  PROVE  IInv'
<1> DEFINE s == request[r]
<1>1. s \in RequestStates /\ Held(s) /\ Typed /\ s.todo \subseteq Environments /\ s.env \in Maybe(Environments)
      BY RequestTyped DEF IInv, RequestStates
<1>2. /\ request' = [request EXCEPT ![r] = Idle]
      /\ UNCHANGED <<rows, made, movesOverlapped, createsOverlapped, overLimit>>
      /\ broken' = IF s.pc = "provision" THEN broken \cup {s.env}
                   ELSE IF s.op = "createFlag" THEN broken \cup s.todo ELSE broken
      BY DEF Throw, Doing, At
<1>3. config \in [Environments -> Maybe(Configs)] /\ broken \subseteq Environments
      BY <1>1 DEF Typed, TypeOK
<1>4. Gone(r) /\ s.pc \notin {"listFlags", "listEnvironments"}
      BY DEF Throw, Gone
<1>5. \A e \in present : OnItsWay(r, e) => e \in broken'
      BY <1>1, <1>2, <1>4 DEF OnItsWay, At, Held
<1>6. s.pc = "provision" => s.env \in Environments
      BY <1>1 DEF Held
<1>7. broken' \subseteq Environments /\ broken \subseteq broken'
      BY <1>1, <1>2, <1>3, <1>6
<1> QED BY <1>2, <1>3, <1>5, <1>7, IdleType, StepKeeps DEF rows
-----------------------------------------------------------------------------
(* Requests that begin *)

LEMMA BegunKeeps ==
  ASSUME IInv, NEW r \in Requests, NEW op \in Operations \cap {"createFlag", "deleteFlag", "setConfig",
           "setRules", "promote", "inherit"},
         NEW local \in RequestStates, Held([local EXCEPT !.op = op]), Begin(r, op, local),
         local.pc \notin {"insert", "walk", "link"},
         UNCHANGED <<present, deleted, parent>>,
         flag' \in {"absent", "present", "deleted"}, config' \in [Environments -> Maybe(Configs)],
         \A e \in Environments : config'[e] # None => e \in Existing /\ flag' = "present",
         Configured'
  PROVE  IInv'
<1>1. Limits' /\ Moves'
      BY OtherBegins
<1>2. /\ request' \in [Requests -> RequestStates]
      /\ \A q \in Requests : Held(request[q])'
      /\ made' \in Nat /\ movesOverlapped' \in BOOLEAN /\ createsOverlapped' \in BOOLEAN
      /\ broken' = broken /\ overLimit' = overLimit
      BY BeginStep DEF IInv
<1>3. Typed'
      BY <1>2 DEF IInv, Typed, TypeOK, Existing
<1> QED BY <1>1, <1>3 DEF IInv

LEMMA CreateFlagKeeps ==
  ASSUME IInv, NEW r \in Requests, CreateFlag(r)
  PROVE  IInv'
<1> DEFINE local == [Idle EXCEPT !.pc = "listEnvironments"]
<1>1. local \in RequestStates /\ local.pc = "listEnvironments" /\ local # Idle
      BY IdleType DEF RequestStates
<1>2. Held([local EXCEPT !.op = "createFlag"])
      BY <1>1 DEF Held, RequestStates
<1>3. /\ Begin(r, "createFlag", local) /\ flag' = "present"
      /\ UNCHANGED <<present, deleted, parent, config>> /\ "createFlag" \in Operations
      BY DEF CreateFlag, Begin
<1>4. config \in [Environments -> Maybe(Configs)] /\ flag = "absent"
      /\ \A e \in Environments : config[e] = None
      BY DEF IInv, Typed, TypeOK, CreateFlag
<1> HIDE DEF local
<1>5. request'[r].pc = "listEnvironments"
      BY <1>1, <1>2, <1>3, BeginStep DEF IInv
<1>6. Configured'
      BY <1>5 DEF Configured, OnItsWay, At
<1> QED BY <1>1, <1>2, <1>3, <1>4, <1>6, BegunKeeps

LEMMA DeleteFlagKeeps ==
  ASSUME IInv, NEW r \in Requests, DeleteFlag(r)
  PROVE  IInv'
<1>1. Idle \in RequestStates /\ Held([Idle EXCEPT !.op = "deleteFlag"]) /\ Idle.pc = "idle"
      BY IdleType DEF Held, RequestStates
<1>2. /\ Begin(r, "deleteFlag", Idle) /\ flag' = "deleted" /\ config' = [e \in Environments |-> None]
      /\ UNCHANGED <<present, deleted, parent>> /\ "deleteFlag" \in Operations
      BY DEF DeleteFlag, Begin
<1>3. config' \in [Environments -> Maybe(Configs)] /\ \A e \in Environments : config'[e] = None
      BY <1>2 DEF Maybe
<1>4. Configured'
      BY <1>2 DEF Configured
<1> QED BY <1>1, <1>2, <1>3, <1>4, BegunKeeps

\* The environment of a request, and those that are ensured beside it, exist.
LEMMA OnConfigKeeps ==
  ASSUME IInv, NEW r \in Requests, NEW op \in {"setConfig", "setRules", "promote", "inherit"},
         NEW e \in Environments, NEW es \in SUBSET Maybe(Existing), NEW local \in RequestStates,
         Held([[local EXCEPT !.env = e] EXCEPT !.op = op]),
         local.pc \notin {"insert", "walk", "link"}, OnConfig(r, op, e, es, local)
  PROVE  IInv'
<1> DEFINE begun == [local EXCEPT !.env = e]
<1>1. /\ flag = "present" /\ e \in present /\ config' = Ensured({e} \cup es)
      /\ Begin(r, op, begun) /\ UNCHANGED <<present, deleted, parent, flag>> /\ op \in Operations
      BY DEF OnConfig, Begin
<1>2. begun \in RequestStates /\ begun.pc = local.pc
      BY DEF RequestStates, Maybe
<1>3. Held([begun EXCEPT !.op = op])
      OBVIOUS
<1> HIDE DEF begun
<1>4. /\ config' \in [Environments -> Maybe(Configs)]
      /\ \A d \in Environments : /\ config'[d] # None => d \in Existing
                                 /\ config[d] # None => config'[d] = config[d]
  <2>1. {e} \cup es \subseteq Maybe(Existing) BY <1>1 DEF Maybe, Existing
  <2> QED BY <1>1, <2>1, EnsuredType DEF IInv
<1>5. /\ At(r, "idle") /\ broken' = broken
      /\ \A q \in Requests : q # r =>
              /\ request'[q].pc = request[q].pc
              /\ request'[q].env = request[q].env /\ request'[q].todo = request[q].todo
      BY <1>1, <1>2, <1>3, BeginStep DEF IInv
<1>6. \A d \in present, q \in Requests : OnItsWay(q, d) => OnItsWay(q, d)'
      BY <1>5 DEF OnItsWay, At
<1>7. present \subseteq Environments
      BY DEF IInv, Typed, TypeOK
<1>8. Configured'
      BY <1>1, <1>4, <1>5, <1>6, <1>7, StillConfigured DEF IInv
<1>9. flag' \in {"absent", "present", "deleted"}
      BY <1>1
<1> QED BY <1>1, <1>2, <1>3, <1>4, <1>8, <1>9, BegunKeeps

LEMMA SetConfigKeeps ==
  ASSUME IInv, NEW r \in Requests, NEW e \in Environments, NEW v \in Values, NEW inherited \in BOOLEAN,
         SetConfig(r, e, v, inherited)
  PROVE  IInv'
<1> DEFINE new == [Default EXCEPT !.value = v, !.inherited = inherited]
           local == [Idle EXCEPT !.pc = "update", !.new = new]
<1>1. new \in Configs
      BY IdleType DEF Configs
<1>2. OnConfig(r, "setConfig", e, {}, local)
      BY DEF SetConfig
<1> HIDE DEF new
<1>3. local \in RequestStates /\ local.pc = "update"
      BY <1>1, IdleType DEF RequestStates
<1> HIDE DEF local
<1>4. Held([[local EXCEPT !.env = e] EXCEPT !.op = "setConfig"])
      BY <1>3 DEF Held, RequestStates
<1> QED BY <1>2, <1>3, <1>4, OnConfigKeeps

LEMMA SetRulesKeeps ==
  ASSUME IInv, NEW r \in Requests, NEW e \in Environments, NEW v \in Values, SetRules(r, e, v)
  PROVE  IInv'
<1> DEFINE inherited == Ensured({e})[e].inherited
           new == [Default EXCEPT !.rules = v, !.inherited = inherited]
           local == [Idle EXCEPT !.pc = "replace", !.new = new]
<1>1. OnConfig(r, "setRules", e, {}, local)
      BY DEF SetRules
<1>2. inherited \in BOOLEAN
  <2>1. {e} \subseteq Maybe(Existing) /\ flag = "present" /\ Typed
        BY <1>1 DEF OnConfig, Maybe, Existing, IInv
  <2>2. Ensured({e})[e] \in Maybe(Configs) /\ Ensured({e})[e] # None
        BY <2>1, EnsuredType
  <2>3. Ensured({e})[e] \in Configs
        BY <2>2 DEF Maybe
  <2> QED BY <2>3 DEF Configs
<1> HIDE DEF inherited
<1>3. new \in Configs
      BY <1>2, IdleType DEF Configs
<1> HIDE DEF new
<1>4. local \in RequestStates /\ local.pc = "replace"
      BY <1>3, IdleType DEF RequestStates
<1> HIDE DEF local
<1>5. Held([[local EXCEPT !.env = e] EXCEPT !.op = "setRules"])
      BY <1>4 DEF Held, RequestStates
<1> QED BY <1>1, <1>4, <1>5, OnConfigKeeps

\* A copy that is to be made, between environments.
LEMMA CopyHeld ==
  ASSUME NEW source \in Environments, NEW e \in Environments, NEW op \in {"promote", "inherit"}
  PROVE  LET local == [Idle EXCEPT !.pc = "fetch", !.source = source, !.target = e]
         IN  /\ local \in RequestStates /\ local.pc = "fetch"
             /\ Held([[local EXCEPT !.env = e] EXCEPT !.op = op])
<1> DEFINE local == [Idle EXCEPT !.pc = "fetch", !.source = source, !.target = e]
<1>1. local \in RequestStates /\ local.pc = "fetch" /\ local.source = source /\ local.target = e
      BY IdleType DEF RequestStates, Maybe
<1> HIDE DEF local
<1>2. Held([[local EXCEPT !.env = e] EXCEPT !.op = op])
      BY <1>1 DEF Held, RequestStates
<1> QED BY <1>1, <1>2 DEF local

LEMMA PromoteConfigKeeps ==
  ASSUME IInv, NEW r \in Requests, NEW from \in Environments, NEW e \in Environments,
         PromoteConfig(r, from, e)
  PROVE  IInv'
<1> DEFINE local == [Idle EXCEPT !.pc = "fetch", !.source = from, !.target = e]
<1>1. OnConfig(r, "promote", e, {from}, local) /\ {from} \in SUBSET Maybe(Existing)
      BY DEF PromoteConfig, Maybe, Existing
<1>2. /\ local \in RequestStates /\ local.pc = "fetch"
      /\ Held([[local EXCEPT !.env = e] EXCEPT !.op = "promote"])
      BY CopyHeld
<1> HIDE DEF local
<1> QED BY <1>1, <1>2, OnConfigKeeps

LEMMA InheritKeeps ==
  ASSUME IInv, NEW r \in Requests, NEW e \in Environments, InheritFromParent(r, e)
  PROVE  IInv'
<1> DEFINE local == [Idle EXCEPT !.pc = "fetch", !.source = parent[e], !.target = e]
<1>1. OnConfig(r, "inherit", e, {parent[e]}, local) /\ parent[e] # None
      BY DEF InheritFromParent
<1>2. parent[e] \in Environments /\ {parent[e]} \in SUBSET Maybe(Existing)
  <2>1. parent[e] \in Maybe(Existing) /\ Existing \subseteq Environments
        BY <1>1, ConstantsAssumption DEF InheritFromParent, OnConfig, IInv, Typed, TypeOK, Existing
  <2> QED BY <1>1, <2>1 DEF Maybe
<1>3. /\ local \in RequestStates /\ local.pc = "fetch"
      /\ Held([[local EXCEPT !.env = e] EXCEPT !.op = "inherit"])
      BY <1>2, CopyHeld
<1> HIDE DEF local
<1> QED BY <1>1, <1>2, <1>3, OnConfigKeeps
-----------------------------------------------------------------------------
(* Steps that change environments, or walk over them *)

\* Others are on their way as before when a request begins or changes.
LEMMA OthersOnTheirWay ==
  ASSUME NEW r \in Requests, \A e \in present : ~OnItsWay(r, e),
         \A q \in Requests : q # r => /\ request'[q].pc = request[q].pc
                                      /\ request'[q].env = request[q].env
                                      /\ request'[q].todo = request[q].todo
  PROVE  \A e \in present, q \in Requests : OnItsWay(q, e) => OnItsWay(q, e)'
BY DEF OnItsWay, At

LEMMA CreateKeeps ==
  ASSUME IInv, NEW r \in Requests, NEW e \in Environments, NEW p \in Maybe(Environments), Create(r, e, p)
  PROVE  IInv'
<1> DEFINE local == [Idle EXCEPT !.pc = "insert", !.env = e, !.other = p]
<1>1. /\ Begin(r, "create", local) /\ UNCHANGED rows /\ "create" \in Operations
      /\ e \notin present /\ e \notin Foreign /\ BelowLimit
      BY DEF Create, Begin, Existing
<1>2. local \in RequestStates /\ local.pc = "insert" /\ local.env = e /\ local.other = p /\ local # Idle
      BY IdleType DEF RequestStates, Maybe
<1> HIDE DEF local
<1>3. Held([local EXCEPT !.op = "create"])
      BY <1>1, <1>2 DEF Held, RequestStates
<1>4. /\ request' \in [Requests -> RequestStates]
      /\ \A q \in Requests : Held(request[q])'
      /\ At(r, "idle") /\ made' \in Nat
      /\ movesOverlapped' \in BOOLEAN /\ createsOverlapped' \in BOOLEAN
      /\ broken' = broken /\ overLimit' = overLimit
      /\ request'[r].op = "create" /\ request'[r].pc = "insert" /\ request'[r].env = e
      /\ \A q \in Requests : q # r =>
              /\ request'[q].op = request[q].op /\ request'[q].pc = request[q].pc
              /\ request'[q].env = request[q].env /\ request'[q].other = request[q].other
              /\ request'[q].todo = request[q].todo /\ request'[q].source = request[q].source
      BY <1>1, <1>2, <1>3, BeginStep DEF IInv
<1>5. /\ movesOverlapped' = movesOverlapped
      /\ createsOverlapped' = (createsOverlapped \/ \E q \in Requests : Doing(q, "create"))
      BY <1>1 DEF Begin, IInv, Typed, TypeOK
<1>6. Typed'
      BY <1>1, <1>4 DEF IInv, Typed, TypeOK, Existing, rows
<1>7. Limits'
  <2>1. WithinLimit'
        BY <1>4, <1>5 DEF IInv, Limits, WithinLimit
  <2> SUFFICES ASSUME ~createsOverlapped'
               PROVE  /\ Alone("create")'
                      /\ \A q \in Requests : At(q, "insert")' => request'[q].env \notin present' /\ BelowLimit'
      BY <2>1 DEF Limits
  <2>2. \A q \in Requests : Doing(q, "create")' => q = r
        BY <1>4, <1>5 DEF Doing
  <2>3. \A q \in Requests : At(q, "insert")' => q = r
        BY <1>4, <2>2 DEF At, Held, Doing
  <2>4. Alone("create")'
        BY <2>2 DEF Alone
  <2> QED BY <1>1, <1>4, <2>3, <2>4 DEF BelowLimit, rows
<1>8. Moves'
  <2>1. \A q \in Requests : Doing(q, "setParent")' => q # r /\ Doing(q, "setParent")
        BY <1>4 DEF Doing
  <2>2. \A q \in Requests : q # r /\ Walks(request[q]) => Walks(request[q])'
        BY <1>1, <1>4 DEF Walks, Existing, rows
  <2>3. NoCycle => NoCycle'
        BY <1>1 DEF NoCycle, rows
  <2> QED BY <1>5, <2>1, <2>2, <2>3 DEF IInv, Moves, Alone
<1>9. Configured'
  <2>1. \A d \in present : ~OnItsWay(r, d)
        BY <1>4 DEF OnItsWay, At
  <2> QED BY <1>1, <1>4, <2>1, OthersOnTheirWay, StillConfigured DEF IInv, rows
<1> QED BY <1>6, <1>7, <1>8, <1>9 DEF IInv

LEMMA InsertKeeps ==
  ASSUME IInv, NEW r \in Requests, Insert(r)
  PROVE  IInv'
<1> DEFINE s == request[r]
           e == s.env
           local == [s EXCEPT !.pc = "listFlags"]
<1>1. s \in RequestStates /\ Held(s) /\ s.pc = "insert" /\ Typed /\ TypeOK
      BY RequestTyped DEF IInv, Insert, At, Typed
<1>2. s.op = "create" /\ e \in Environments /\ e \notin Foreign
      BY <1>1 DEF Held
<1>3. /\ s.other \in Maybe(Existing) /\ e \notin deleted
      /\ present' = present \cup {e}
      /\ parent' = IF e \in present THEN parent ELSE [parent EXCEPT ![e] = s.other]
      /\ request' = [request EXCEPT ![r] = local]
      /\ overLimit' = (overLimit \/ (e \notin present /\ Cardinality(present) >= MaxEnvironments))
      /\ UNCHANGED <<deleted, flag, config, made, broken, movesOverlapped, createsOverlapped>>
      BY DEF Insert
<1>4. local \in RequestStates /\ local.pc = "listFlags" /\ local.op = "create" /\ local.env = e
      BY <1>1, <1>2 DEF RequestStates
<1>5. Held(local)
      BY <1>2, <1>4 DEF Held
<1> HIDE DEF local
<1>6. /\ request' \in [Requests -> RequestStates] /\ request'[r] = local
      /\ \A q \in Requests : q # r => request'[q] = request[q]
      /\ \A q \in Requests : Held(request[q])'
      BY <1>1, <1>3, <1>4, <1>5, GoStep
<1>7. /\ present \subseteq Environments /\ parent \in [Environments -> Maybe(Existing)]
      /\ None \notin Environments /\ IsFiniteSet(Environments) /\ Existing \subseteq Existing'
      BY <1>1, <1>3, ConstantsAssumption DEF TypeOK, Existing
<1>8. parent' \in [Environments -> Maybe(Existing')] /\ \A d \in Environments \ {e} : parent'[d] = parent[d]
      BY <1>2, <1>3, <1>7 DEF Maybe
<1>9. Typed'
  <2>1. present' \subseteq Environments /\ Production \in present' /\ present' \cap deleted' = {}
        /\ deleted' \subseteq Environments /\ Foreign \cap (present' \cup deleted') = {}
        BY <1>1, <1>2, <1>3 DEF TypeOK
  <2>2. \A d \in Environments \ present' : parent'[d] = None
        BY <1>1, <1>3, <1>8 DEF Typed
  <2>3. overLimit' \in BOOLEAN
        BY <1>1, <1>3 DEF TypeOK
  <2>4. \A d \in Environments : config'[d] # None => d \in Existing' /\ flag' = "present"
        BY <1>1, <1>3, <1>7 DEF TypeOK
  <2>5. TypeOK'
        BY <1>1, <1>3, <1>6, <1>8, <2>1, <2>3, <2>4 DEF TypeOK
  <2> QED BY <1>6, <2>2, <2>5 DEF Typed
<1>10. Limits'
  <2>1. \A q \in Requests : /\ Doing(q, "create")' => Doing(q, "create")
                            /\ At(q, "insert")' => q # r /\ At(q, "insert")
        BY <1>2, <1>4, <1>6 DEF Doing, At
  <2>2. CASE createsOverlapped
    <3>1. createsOverlapped' BY <1>3, <2>2
    <3> QED BY <3>1 DEF Limits, WithinLimit
  <2>3. CASE ~createsOverlapped
    <3>1. Alone("create") /\ e \notin present /\ BelowLimit /\ ~overLimit
          BY <1>1, <2>3 DEF IInv, Limits, At, WithinLimit
    <3>2. Alone("create")' BY <2>1, <3>1 DEF Alone
    <3>3. \A q \in Requests : ~At(q, "insert")'
      <4> SUFFICES ASSUME NEW q \in Requests, At(q, "insert")' PROVE FALSE
          OBVIOUS
      <4>1. q # r /\ request[q].pc = "insert" BY <2>1 DEF At
      <4>2. Held(request[q]) BY <1>1 DEF Typed
      <4>3. Doing(q, "create") /\ Doing(r, "create") BY <1>2, <4>1, <4>2 DEF Held, Doing
      <4> QED BY <3>1, <4>1, <4>3 DEF Alone
    <3>4. ~overLimit'
      <4>1. IsFiniteSet(present) BY <1>7, FS_Subset
      <4>2. Cardinality(present) \in Nat BY <4>1, FS_CardinalityType
      <4>3. ~(Cardinality(present) >= MaxEnvironments)
            BY <3>1, <4>2, ConstantsAssumption DEF BelowLimit
      <4> QED BY <1>3, <3>1, <4>3
    <3> QED BY <3>2, <3>3, <3>4 DEF Limits, WithinLimit
  <2> QED BY <2>2, <2>3
<1>11. Moves'
  <2> SUFFICES ASSUME ~movesOverlapped
               PROVE  /\ Alone("setParent")' /\ NoCycle'
                      /\ \A q \in Requests : Doing(q, "setParent")' => Walks(request[q])'
      BY <1>3 DEF Moves
  <2>1. Alone("setParent") /\ NoCycle
        BY DEF IInv, Moves
  <2>2. \A q \in Requests : Doing(q, "setParent")' => q # r /\ Doing(q, "setParent") /\ request'[q] = request[q]
        BY <1>2, <1>4, <1>6 DEF Doing
  <2>3. Alone("setParent")'
        BY <2>1, <2>2 DEF Alone
  <2>4. ASSUME NEW q \in Requests, Doing(q, "setParent")' PROVE Walks(request[q])'
    <3>1. Walks(request[q]) /\ request'[q] = request[q]
          BY <2>2, <2>4 DEF IInv, Moves
    <3>2. Existing \cup deleted \subseteq Existing' \cup deleted'
          BY <1>3, <1>7
    <3>3. \A v \in Existing \cup deleted : parent'[v] = parent[v]
          BY <1>1, <1>2, <1>3, <1>7, <1>8, ConstantsAssumption DEF TypeOK, Existing
    <3> QED BY <3>1, <3>2, <3>3 DEF Walks
  <2>5. NoCycle'
    <3>1. CASE e \in present
          BY <1>3, <2>1, <3>1 DEF NoCycle
    <3>2. CASE e \notin present
      <4> SUFFICES ASSUME NEW es \in SUBSET present', es # {}, \A x \in es : parent'[x] \in es
                   PROVE  FALSE
          BY DEF NoCycle
      <4>1. parent'[e] = s.other /\ s.other # e
            BY <1>2, <1>3, <1>7, <3>2 DEF Maybe, Existing
      <4>2. es \ {e} \in (SUBSET present) \ {{}}
        <5>1. es \ {e} # {} BY <4>1
        <5> QED BY <1>3, <5>1
      <4>3. PICK x \in es \ {e} : parent[x] \notin es \ {e}
            BY <2>1, <4>2 DEF NoCycle
      <4>4. x \in present /\ parent[x] \in Maybe(Existing) /\ parent'[x] = parent[x]
            BY <1>7, <1>8, <4>2, <4>3
      <4>5. parent[x] = e
            BY <4>3, <4>4
      <4> QED BY <1>2, <1>7, <3>2, <4>4, <4>5 DEF Maybe, Existing
    <3> QED BY <3>1, <3>2
  <2> QED BY <2>3, <2>4, <2>5
<1>12. Configured'
  <2> SUFFICES ASSUME flag' = "present", NEW d \in present', config'[d] = None, d \notin broken'
               PROVE  \E q \in Requests : OnItsWay(q, d)'
      BY DEF Configured
  <2>1. CASE d = e
        BY <1>4, <1>6, <2>1 DEF OnItsWay, At
  <2>2. CASE d # e
    <3>1. PICK q \in Requests : OnItsWay(q, d)
          BY <1>3, <2>2 DEF IInv, Configured
    <3>2. q # r
          BY <1>1, <3>1 DEF OnItsWay, At
    <3> QED BY <1>6, <3>1, <3>2 DEF OnItsWay, At
  <2> QED BY <2>1, <2>2
<1> QED BY <1>9, <1>10, <1>11, <1>12 DEF IInv

LEMMA SetParentKeeps ==
  ASSUME IInv, NEW r \in Requests, NEW e \in Environments, NEW p \in Maybe(Environments), SetParent(r, e, p)
  PROVE  IInv'
<1> DEFINE local == [Idle EXCEPT !.pc = IF p = None THEN "link" ELSE "walk", !.env = e, !.new = Default,
                                 !.source = p, !.other = p, !.todo = {e}]
<1>1. /\ Begin(r, "setParent", local) /\ UNCHANGED rows /\ "setParent" \in Operations
      /\ e \in present /\ p \in Maybe(present)
      BY DEF SetParent, Begin, VisitedFirst
<1>2. /\ local \in RequestStates /\ local.pc = (IF p = None THEN "link" ELSE "walk") /\ local.env = e
      /\ local.other = p /\ local.source = p /\ local.todo = {e}
      BY IdleType DEF RequestStates, Maybe
<1> HIDE DEF local
<1>3. local # Idle
      BY <1>2, IdleType
<1>4. Held([local EXCEPT !.op = "setParent"])
      BY <1>2 DEF Held, RequestStates, Maybe
<1>5. /\ request' \in [Requests -> RequestStates]
      /\ \A q \in Requests : Held(request[q])'
      /\ At(r, "idle") /\ made' \in Nat
      /\ movesOverlapped' \in BOOLEAN /\ createsOverlapped' \in BOOLEAN
      /\ broken' = broken /\ overLimit' = overLimit
      /\ request'[r].op = "setParent" /\ request'[r].pc = local.pc /\ request'[r].env = e
      /\ request'[r].other = p /\ request'[r].todo = {e} /\ request'[r].source = p
      /\ \A q \in Requests : q # r =>
              /\ request'[q].op = request[q].op /\ request'[q].pc = request[q].pc
              /\ request'[q].env = request[q].env /\ request'[q].other = request[q].other
              /\ request'[q].todo = request[q].todo /\ request'[q].source = request[q].source
      BY <1>1, <1>2, <1>3, <1>4, BeginStep DEF IInv
<1>6. /\ createsOverlapped' = createsOverlapped
      /\ movesOverlapped' = (movesOverlapped \/ \E q \in Requests : Doing(q, "setParent"))
      BY <1>1 DEF Begin, IInv, Typed, TypeOK
<1>7. Typed'
      BY <1>1, <1>5 DEF IInv, Typed, TypeOK, Existing, rows
<1>8. Limits'
  <2>1. WithinLimit'
        BY <1>5, <1>6 DEF IInv, Limits, WithinLimit
  <2>2. \A q \in Requests : /\ Doing(q, "create")' => Doing(q, "create")
                            /\ At(q, "insert")' => At(q, "insert") /\ request'[q].env = request[q].env
        BY <1>2, <1>5 DEF Doing, At
  <2>3. UNCHANGED present
        BY <1>1 DEF rows
  <2>4. ~createsOverlapped => Alone("create")'
        BY <2>2 DEF IInv, Limits, Alone
  <2> QED BY <1>6, <2>1, <2>2, <2>3, <2>4 DEF IInv, Limits, BelowLimit
<1>9. Moves'
  <2> SUFFICES ASSUME ~movesOverlapped'
               PROVE  /\ Alone("setParent")' /\ NoCycle'
                      /\ \A q \in Requests : Doing(q, "setParent")' => Walks(request[q])'
      BY <1>6 DEF Moves
  <2>1. \A q \in Requests : Doing(q, "setParent")' => q = r
        BY <1>5, <1>6 DEF Doing
  <2>2. NoCycle'
        BY <1>1, <1>6 DEF IInv, Moves, NoCycle, rows
  <2>3. Walks(request[r])'
        BY <1>1, <1>2, <1>5 DEF Walks, Maybe, Existing, rows
  <2> QED BY <2>1, <2>2, <2>3 DEF Alone
<1>10. Configured'
  <2>1. \A d \in present : ~OnItsWay(r, d)
        BY <1>5 DEF OnItsWay, At
  <2> QED BY <1>1, <1>5, <2>1, OthersOnTheirWay, StillConfigured DEF IInv, rows
<1> QED BY <1>7, <1>8, <1>9, <1>10 DEF IInv

\* A step of a move that goes on, and changes no row.
LEMMA WalkGoesOn ==
  ASSUME IInv, NEW r \in Requests, NEW local \in RequestStates, Held(local),
         request[r].pc = "walk", local.op = "setParent", local.pc \in {"walk", "link"},
         request' = [request EXCEPT ![r] = local], UNCHANGED rows, UNCHANGED history,
         ~movesOverlapped => Walks(local)
  PROVE  IInv'
<1>1. /\ request' \in [Requests -> RequestStates] /\ request'[r] = local
      /\ \A q \in Requests : q # r => request'[q] = request[q]
      /\ \A q \in Requests : Held(request[q])'
      BY GoStep DEF IInv
<1>2. request[r].op = "setParent" /\ Typed
      BY DEF IInv, Typed, Held
<1>3. Typed'
      BY <1>1, <1>2 DEF Typed, TypeOK, Existing, rows, history
<1>4. \A q \in Requests, op \in {"create", "setParent"} : Doing(q, op)' => Doing(q, op)
      BY <1>1, <1>2 DEF Doing
<1>5. Limits'
  <2>1. WithinLimit' BY DEF IInv, Limits, WithinLimit, history
  <2>2. \A q \in Requests : At(q, "insert")' => At(q, "insert") /\ request'[q] = request[q]
        BY <1>1 DEF At
  <2>3. ~createsOverlapped => Alone("create")'
        BY <1>4 DEF IInv, Limits, Alone
  <2> QED BY <2>1, <2>2, <2>3 DEF IInv, Limits, BelowLimit, rows, history
<1>6. Moves'
  <2> SUFFICES ASSUME ~movesOverlapped
               PROVE  /\ Alone("setParent")' /\ NoCycle'
                      /\ \A q \in Requests : Doing(q, "setParent")' => Walks(request[q])'
      BY DEF Moves, history
  <2>1. Alone("setParent")' /\ NoCycle'
        BY <1>4 DEF IInv, Moves, Alone, NoCycle, rows
  <2>2. Walks(request[r])'
        BY <1>1 DEF Walks, Existing, rows
  <2>3. \A q \in Requests : Doing(q, "setParent")' => q = r
        BY <1>2, <1>4 DEF IInv, Moves, Alone, Doing
  <2> QED BY <2>1, <2>2, <2>3
<1>7. Configured'
  <2>1. \A d \in present : ~OnItsWay(r, d)
        BY DEF OnItsWay, At
  <2>2. \A q \in Requests : q # r => /\ request'[q].pc = request[q].pc
                                     /\ request'[q].env = request[q].env
                                     /\ request'[q].todo = request[q].todo
        BY <1>1
  <2> QED BY <2>1, <2>2, OthersOnTheirWay, StillConfigured DEF IInv, rows, history
<1> QED BY <1>3, <1>5, <1>6, <1>7 DEF IInv

LEMMA WalkKeeps ==
  ASSUME IInv, NEW r \in Requests, Walk(r)
  PROVE  IInv'
<1> DEFINE s == request[r]
           at == s.other
           next == IF at \in present THEN parent[at] ELSE None
           link == [s EXCEPT !.pc = "link", !.other = None, !.todo = {}]
           further == [s EXCEPT !.other = next, !.todo = s.todo \cup {at}]
<1>1. s \in RequestStates /\ Held(s) /\ s.pc = "walk" /\ Typed /\ TypeOK
      BY RequestTyped DEF IInv, Walk, At, Typed
<1>2. s.op = "setParent" /\ s.env \in Environments /\ at \in Environments
      BY <1>1 DEF Held
<1>3. /\ request' = [request EXCEPT ![r] = IF at \in s.todo THEN Idle
                                           ELSE IF next = None THEN link ELSE further]
      /\ UNCHANGED rows /\ UNCHANGED history
      BY <1>1 DEF Walk, Go, RequestStates
<1>4. next \in Maybe(Existing) /\ parent[at] = next /\ Existing \subseteq Environments
      BY <1>1, <1>2, ConstantsAssumption DEF Typed, TypeOK, Maybe, Existing
<1>5. /\ link \in RequestStates /\ link.pc = "link" /\ link.op = "setParent" /\ link.env = s.env
      /\ link.source = s.source
      BY <1>1, <1>2 DEF RequestStates, Maybe
<1>6. Held(link)
      BY <1>2, <1>5 DEF Held
<1>7. next # None =>
        /\ further \in RequestStates /\ further.pc = "walk" /\ further.op = "setParent"
        /\ further.env = s.env /\ further.source = s.source /\ further.other = next
        /\ further.todo = s.todo \cup {at}
      BY <1>1, <1>2, <1>4 DEF RequestStates, Maybe
<1>8. next # None => next \in Existing /\ next \in Environments
      BY <1>4 DEF Maybe
<1>9. next # None => Held(further)
      BY <1>2, <1>7, <1>8 DEF Held
<1> HIDE DEF next, link, further
<1>10. CASE at \in s.todo
       BY <1>1, <1>3, <1>10, IdleType, PlainKeeps
<1>11. ASSUME ~movesOverlapped
       PROVE  /\ s.env \in s.todo /\ s.todo \subseteq Existing \cup deleted /\ at \in Existing \cup deleted
              /\ s.source \in (s.todo \ {s.env}) \cup {at}
              /\ \A v \in s.todo \ {s.env} : parent[v] \in (s.todo \ {s.env}) \cup {at, None}
  <2>1. Walks(s) BY <1>2, <1>11 DEF IInv, Moves, Doing
  <2> QED BY <1>1, <2>1 DEF Walks
<1>12. CASE at \notin s.todo /\ next = None
  <2>1. ASSUME ~movesOverlapped PROVE Walks(link)
    <3> DEFINE es == (s.todo \ {s.env}) \cup {at}
    <3>1. /\ es \in SUBSET (Existing \cup deleted) /\ s.source \in es /\ s.env \notin es
          BY <1>11, <1>12, <2>1
    <3>2. \A v \in es : parent[v] \in es \cup {None}
          BY <1>4, <1>11, <1>12, <2>1
    <3> HIDE DEF es
    <3> QED BY <1>5, <3>1, <3>2 DEF Walks
  <2> QED BY <1>1, <1>3, <1>5, <1>6, <1>12, <2>1, WalkGoesOn
<1>13. CASE at \notin s.todo /\ next # None
  <2>1. ASSUME ~movesOverlapped PROVE Walks(further)
    <3> DEFINE seen == (s.todo \ {s.env}) \cup {at}
    <3>1. further.todo \ {further.env} = seen
          BY <1>7, <1>11, <1>13, <2>1
    <3>2. /\ further.env \in further.todo /\ further.todo \subseteq Existing \cup deleted
          /\ further.other \in Existing \cup deleted /\ further.source \in seen \cup {further.other}
          BY <1>7, <1>8, <1>11, <1>13, <2>1
    <3>3. \A v \in seen : parent[v] \in seen \cup {further.other, None}
          BY <1>4, <1>7, <1>11, <1>13, <2>1
    <3> HIDE DEF seen
    <3>4. further.pc # "link"
          BY <1>7, <1>13
    <3> QED BY <3>1, <3>2, <3>3, <3>4 DEF Walks
  <2> QED BY <1>1, <1>3, <1>7, <1>9, <1>13, <2>1, WalkGoesOn
<1> QED BY <1>10, <1>12, <1>13

LEMMA LinkKeeps ==
  ASSUME IInv, NEW r \in Requests, Link(r)
  PROVE  IInv'
<1> DEFINE s == request[r]
           e == s.env
           p == s.source
           local == Finished(r)
<1>1. s \in RequestStates /\ Held(s) /\ s.pc = "link" /\ Typed /\ TypeOK
      BY RequestTyped DEF IInv, Link, At, Typed
<1>2. s.op = "setParent" /\ e \in Environments
      BY <1>1 DEF Held
<1>3. /\ e \in present /\ p \in Maybe(present) /\ parent' = [parent EXCEPT ![e] = p]
      /\ request' = [request EXCEPT ![r] = local]
      /\ UNCHANGED <<present, deleted, flag, config>> /\ UNCHANGED history
      BY DEF Link, Go
<1>4. /\ local \in RequestStates /\ Held(local) /\ local.op \in {"none", "setConfig"}
      /\ local.pc \in {"idle", "done"}
      BY <1>1, FinishedType
<1> HIDE DEF local
<1>5. /\ request' \in [Requests -> RequestStates] /\ request'[r] = local
      /\ \A q \in Requests : q # r => request'[q] = request[q]
      /\ \A q \in Requests : Held(request[q])'
      BY <1>1, <1>3, <1>4, GoStep
<1>6. /\ present \subseteq Environments /\ parent \in [Environments -> Maybe(Existing)]
      /\ None \notin Environments /\ p \in Maybe(Existing) /\ Existing' = Existing
      BY <1>1, <1>3, ConstantsAssumption DEF TypeOK, Existing, Maybe
<1>7. /\ parent' \in [Environments -> Maybe(Existing)] /\ parent'[e] = p
      /\ \A d \in Environments \ {e} : parent'[d] = parent[d]
      BY <1>2, <1>3, <1>6
<1>8. Typed'
  <2>1. \A d \in Environments \ present : parent'[d] = None
        BY <1>1, <1>3, <1>7 DEF Typed
  <2>2. TypeOK'
        BY <1>1, <1>3, <1>5, <1>6, <1>7 DEF TypeOK, history
  <2> QED BY <1>3, <1>5, <2>1, <2>2 DEF Typed
<1>9. \A q \in Requests, op \in {"create", "setParent"} :
        Doing(q, op)' => q # r /\ Doing(q, op)
      BY <1>4, <1>5 DEF Doing
<1>10. Limits'
  <2>1. WithinLimit' BY <1>3 DEF IInv, Limits, WithinLimit, history
  <2>2. \A q \in Requests : At(q, "insert")' => At(q, "insert") /\ request'[q] = request[q]
        BY <1>4, <1>5 DEF At
  <2>3. ~createsOverlapped => Alone("create")'
        BY <1>9 DEF IInv, Limits, Alone
  <2> QED BY <1>3, <2>1, <2>2, <2>3 DEF IInv, Limits, BelowLimit, history
<1>11. Moves'
  <2> SUFFICES ASSUME ~movesOverlapped
               PROVE  /\ Alone("setParent")' /\ NoCycle'
                      /\ \A q \in Requests : Doing(q, "setParent")' => Walks(request[q])'
      BY <1>3 DEF Moves, history
  <2>1. Alone("setParent") /\ NoCycle /\ Walks(s)
        BY <1>2 DEF IInv, Moves, Doing
  <2>2. \A q \in Requests : ~Doing(q, "setParent")'
        BY <1>2, <1>9, <2>1 DEF Alone, Doing
  <2>3. NoCycle'
    <3> SUFFICES ASSUME NEW es \in SUBSET present, es # {}, \A x \in es : parent'[x] \in es
                 PROVE  FALSE
        BY <1>3 DEF NoCycle
    <3>1. PICK x \in es : parent[x] \notin es
          BY <2>1 DEF NoCycle
    <3>2. x = e
          BY <1>6, <1>7, <3>1
    <3>3. p \in es /\ p # None
          BY <1>6, <1>7, <3>1, <3>2
    <3>4. PICK known \in SUBSET (Existing \cup deleted) :
            p \in known /\ e \notin known /\ \A v \in known : parent[v] \in known \cup {None}
          BY <1>1, <2>1, <3>3 DEF Walks
    <3>5. es \cap known \in (SUBSET present) \ {{}}
          BY <3>3, <3>4
    <3>6. PICK y \in es \cap known : parent[y] \notin es \cap known
          BY <2>1, <3>5 DEF NoCycle
    <3>7. parent'[y] = parent[y] /\ parent[y] \in es
          BY <1>6, <1>7, <3>4, <3>6
    <3>8. parent[y] \in known
          BY <1>6, <3>4, <3>6, <3>7
    <3> QED BY <3>6, <3>7, <3>8
  <2> QED BY <2>2, <2>3 DEF Alone
<1>12. Configured'
  <2>1. \A d \in present : ~OnItsWay(r, d)
        BY <1>1 DEF OnItsWay, At
  <2>2. \A q \in Requests : q # r => /\ request'[q].pc = request[q].pc
                                     /\ request'[q].env = request[q].env
                                     /\ request'[q].todo = request[q].todo
        BY <1>5
  <2> QED BY <1>3, <2>1, <2>2, OthersOnTheirWay, StillConfigured DEF IInv, history
<1> QED BY <1>8, <1>10, <1>11, <1>12 DEF IInv

LEMMA DeleteKeeps ==
  ASSUME IInv, NEW r \in Requests, NEW e \in Environments, Delete(r, e)
  PROVE  IInv'
<1>1. /\ e \in present \ {Production}
      /\ present' = present \ {e} /\ deleted' = deleted \cup {e}
      /\ parent' = [c \in Environments |-> IF e \in {c, parent[c]} THEN None ELSE parent[c]]
      /\ config' = [config EXCEPT ![e] = None] /\ flag' = flag
      /\ Begin(r, "delete", Idle) /\ "delete" \in Operations
      BY DEF Delete, Begin
<1>2. Idle \in RequestStates /\ Held([Idle EXCEPT !.op = "delete"])
      BY IdleType DEF Held, RequestStates
<1>3. /\ request' \in [Requests -> RequestStates]
      /\ \A q \in Requests : Held(request[q])'
      /\ At(r, "idle") /\ made' \in Nat
      /\ movesOverlapped' \in BOOLEAN /\ createsOverlapped' \in BOOLEAN
      /\ broken' = broken /\ overLimit' = overLimit
      /\ request'[r] = Idle
      /\ \A q \in Requests : q # r =>
              /\ request'[q].op = request[q].op /\ request'[q].pc = request[q].pc
              /\ request'[q].env = request[q].env /\ request'[q].other = request[q].other
              /\ request'[q].todo = request[q].todo /\ request'[q].source = request[q].source
      BY <1>1, <1>2, BeginStep DEF IInv
<1>4. /\ TypeOK /\ present \subseteq Environments /\ parent \in [Environments -> Maybe(Existing)]
      /\ config \in [Environments -> Maybe(Configs)]
      /\ None \notin Environments /\ IsFiniteSet(Environments)
      BY ConstantsAssumption DEF IInv, Typed, TypeOK
<1>5. movesOverlapped' = movesOverlapped /\ createsOverlapped' = createsOverlapped
      BY <1>1, <1>4 DEF Begin, TypeOK
<1>6. \A c \in Environments : /\ parent'[c] \in Maybe(Existing')
                              /\ parent'[c] = parent[c] \/ parent'[c] = None
                              /\ c \notin present' => parent'[c] = None
      BY <1>1, <1>4 DEF Maybe, Existing, IInv, Typed
<1>7. Typed'
  <2>1. parent' \in [Environments -> Maybe(Existing')]
        BY <1>1, <1>6
  <2>2. /\ config' \in [Environments -> Maybe(Configs)]
        /\ \A d \in Environments : config'[d] # None => d \in Existing' /\ flag' = "present"
        BY <1>1, <1>4 DEF TypeOK, Maybe, Existing
  <2>3. /\ present' \subseteq Environments /\ deleted' \subseteq Environments
        /\ Production \in present' /\ present' \cap deleted' = {}
        /\ Foreign \cap (present' \cup deleted') = {}
        BY <1>1, <1>4 DEF TypeOK
  <2>4. TypeOK'
        BY <1>1, <1>3, <1>4, <2>1, <2>2, <2>3 DEF TypeOK
  <2> QED BY <1>3, <1>6, <2>4 DEF Typed
<1>8. \A q \in Requests, op \in {"create", "setParent"} : Doing(q, op)' => q # r /\ Doing(q, op)
      BY <1>3, IdleType DEF Doing
<1>9. Limits'
  <2>1. WithinLimit' BY <1>3, <1>5 DEF IInv, Limits, WithinLimit
  <2>2. \A q \in Requests : At(q, "insert")' => At(q, "insert") /\ request'[q].env = request[q].env
        BY <1>3, IdleType DEF At
  <2>3. ~createsOverlapped => Alone("create")'
        BY <1>8 DEF IInv, Limits, Alone
  <2>4. BelowLimit => BelowLimit'
    <3>1. IsFiniteSet(present) BY <1>4, FS_Subset
    <3>2. Cardinality(present) \in Nat BY <3>1, FS_CardinalityType
    <3>3. Cardinality(present \ {e}) = Cardinality(present) - 1 BY <1>1, <3>1, FS_RemoveElement
    <3>4. Cardinality(present') = Cardinality(present) - 1 BY <1>1, <3>3
    <3> QED BY <3>2, <3>4, ConstantsAssumption DEF BelowLimit
  <2> QED BY <1>1, <1>5, <2>1, <2>2, <2>3, <2>4 DEF IInv, Limits
<1>10. Moves'
  <2> SUFFICES ASSUME ~movesOverlapped
               PROVE  /\ Alone("setParent")' /\ NoCycle'
                      /\ \A q \in Requests : Doing(q, "setParent")' => Walks(request[q])'
      BY <1>5 DEF Moves
  <2>1. Alone("setParent")' /\ NoCycle
        BY <1>8 DEF IInv, Moves, Alone
  <2>2. NoCycle'
    <3> SUFFICES ASSUME NEW es \in (SUBSET present') \ {{}}
                 PROVE  \E x \in es : parent'[x] \notin es
        BY DEF NoCycle
    <3>1. es \in (SUBSET present) \ {{}}
          BY <1>1
    <3>2. PICK x \in es : parent[x] \notin es
          BY <2>1, <3>1 DEF NoCycle
    <3> QED BY <1>4, <1>6, <3>1, <3>2
  <2>3. ASSUME NEW q \in Requests, Doing(q, "setParent")' PROVE Walks(request[q])'
    <3>1. q # r /\ Walks(request[q])
          BY <1>8, <2>3 DEF IInv, Moves
    <3>2. /\ request'[q].pc = request[q].pc /\ request'[q].env = request[q].env
          /\ request'[q].other = request[q].other /\ request'[q].todo = request[q].todo
          /\ request'[q].source = request[q].source
          BY <1>3, <3>1
    <3>3. Existing' \cup deleted' = Existing \cup deleted
          BY <1>1 DEF Existing
    <3>4. \A v \in Existing \cup deleted : parent'[v] = parent[v] \/ parent'[v] = None
          BY <1>4, <1>6, ConstantsAssumption DEF TypeOK, Existing
    <3> QED BY <3>1, <3>2, <3>3, <3>4 DEF Walks
  <2> QED BY <2>1, <2>2, <2>3
<1>11. Configured'
  <2>1. \A d \in present : ~OnItsWay(r, d)
        BY <1>3 DEF OnItsWay, At
  <2>2. \A d \in present' : config'[d] = config[d]
        BY <1>1, <1>4
  <2> QED BY <1>1, <1>3, <2>1, <2>2, OthersOnTheirWay, StillConfigured DEF IInv
<1> QED BY <1>7, <1>9, <1>10, <1>11 DEF IInv
-----------------------------------------------------------------------------
(* The invariant *)

LEMMA InitHolds == Init => IInv
<1> SUFFICES ASSUME Init PROVE IInv
    OBVIOUS
<1>1. /\ present \subseteq Environments /\ present \cap Foreign = {} /\ Production \in present /\ deleted = {}
      /\ parent \in [Environments -> Maybe(Environments)]
      /\ \A e \in Environments : parent[e] \in Maybe(IF e \in present THEN present ELSE {})
      /\ flag \in {"absent", "present"}
      /\ config = [e \in Environments |->
                     IF e \in present /\ flag = "present"
                     THEN [Created(e) EXCEPT !.inherited = parent[e] # None] ELSE None]
      /\ request = [r \in Requests |-> Idle]
      /\ made = 0 /\ broken = {} /\ movesOverlapped = FALSE /\ createsOverlapped = FALSE
      /\ overLimit = FALSE
      BY DEF Init
<1>2. \A e \in Environments : [Created(e) EXCEPT !.inherited = parent[e] # None] \in Configs
  <2> SUFFICES ASSUME NEW e \in Environments
               PROVE  [Created(e) EXCEPT !.inherited = parent[e] # None] \in Configs
      OBVIOUS
  <2> DEFINE linked == parent[e] # None
  <2>1. linked \in BOOLEAN OBVIOUS
  <2> HIDE DEF linked
  <2>2. [Created(e) EXCEPT !.inherited = linked] \in Configs
        BY <2>1, CreatedType DEF Configs
  <2> QED BY <2>2 DEF linked
<1>3. /\ config \in [Environments -> Maybe(Configs)]
      /\ \A e \in Environments : /\ config[e] # None => e \in present /\ flag = "present"
                                 /\ e \in present /\ flag = "present" => config[e] # None
  <2>1. \A e \in Environments :
          (IF e \in present /\ flag = "present"
           THEN [Created(e) EXCEPT !.inherited = parent[e] # None] ELSE None) \in Maybe(Configs)
        BY <1>2 DEF Maybe
  <2>2. \A e \in Environments : [Created(e) EXCEPT !.inherited = parent[e] # None] # None
        BY <1>2, ConstantsAssumption
  <2> QED BY <1>1, <2>1, <2>2
<1>4. parent \in [Environments -> Maybe(Existing)] /\ \A e \in Environments \ present : parent[e] = None
      BY <1>1 DEF Maybe, Existing
<1>5. /\ request \in [Requests -> RequestStates] /\ \A r \in Requests : Held(request[r])
      /\ \A r \in Requests : request[r].op = "none" /\ request[r].pc = "idle"
      BY <1>1, IdleType
<1>6. Typed
      BY <1>1, <1>3, <1>4, <1>5 DEF Typed, TypeOK, Existing
<1>7. Limits
      BY <1>1, <1>5 DEF Limits, WithinLimit, Alone, Doing, At
<1>8. NoCycle
      BY DEF Init, NoCycle
<1>9. Moves
      BY <1>5, <1>8 DEF Moves, Alone, Doing
<1>10. Configured
      BY <1>1, <1>3 DEF Configured
<1> QED BY <1>6, <1>7, <1>9, <1>10 DEF IInv

LEMMA StutterKeeps ==
  ASSUME IInv, UNCHANGED vars
  PROVE  IInv'
<1>1. /\ UNCHANGED <<present, deleted, parent, flag, config, request>>
      /\ UNCHANGED <<made, broken, movesOverlapped, createsOverlapped, overLimit>>
      BY DEF vars, rows, history
<1>2. Typed' BY <1>1 DEF IInv, Typed, TypeOK, Held, Existing
<1>3. Limits' BY <1>1 DEF IInv, Limits, WithinLimit, Alone, Doing, At, BelowLimit
<1>4. Moves' BY <1>1 DEF IInv, Moves, Alone, Doing, NoCycle, Walks, Existing
<1>5. Configured' BY <1>1 DEF IInv, Configured, OnItsWay, At
<1> QED BY <1>2, <1>3, <1>4, <1>5 DEF IInv

LEMMA NextKeeps ==
  ASSUME IInv, Next
  PROVE  IInv'
<1>1. PICK r \in Requests : Accept(r) \/ Step(r)
      BY DEF Next
<1>2. CASE Accept(r)
      BY <1>2, CreateFlagKeeps, DeleteFlagKeeps, DeleteKeeps, InheritKeeps, CreateKeeps,
         SetParentKeeps, SetRulesKeeps, SetConfigKeeps, PromoteConfigKeeps DEF Accept
<1>3. CASE Step(r)
      BY <1>3, InsertKeeps, ListFlagsKeeps, ProvisionKeeps, WalkKeeps, LinkKeeps,
         ListEnvironmentsKeeps, SeedKeeps, UpdateKeeps, ListKeeps, ChildKeeps, ReturnKeeps,
         FetchKeeps, StoreKeeps, ReplaceKeeps, DetachKeeps, ThrowKeeps, RespondKeeps DEF Step
<1> QED BY <1>1, <1>2, <1>3

LEMMA Invariant == Spec => []IInv
<1>1. IInv /\ [Next]_vars => IInv'
      BY NextKeeps, StutterKeeps
<1> QED BY InitHolds, <1>1, PTL DEF Spec
-----------------------------------------------------------------------------
(* Theorems *)

\* Every variable has its type, and rows refer to rows that exist.
THEOREM TypeCorrect == Spec => []TypeOK
<1>1. IInv => TypeOK BY DEF IInv, Typed
<1> QED BY <1>1, Invariant, PTL

\* environment-service.ts:193: parent links form no cycle as long as no two
\* requests change parents at once.
THEOREM NoCycleUnlessRaced == Spec => []AcyclicUnlessRaced
<1>1. IInv => AcyclicUnlessRaced BY DEF IInv, Moves, AcyclicUnlessRaced
<1> QED BY <1>1, Invariant, PTL

\* environments.ts:51: the plan's environments are exceeded only by creations
\* that overlap.
THEOREM LimitIsKept == Spec => []WithinLimit
<1>1. IInv => WithinLimit BY DEF IInv, Limits
<1> QED BY <1>1, Invariant, PTL

\* flag-service.ts:123: a flag that exists is, or is about to be, configured in
\* every environment, unless a request threw.
THEOREM FlagIsEverywhere == Spec => []ConfiguredEverywhere
<1>1. IInv => ConfiguredEverywhere
      BY DEF IInv, Configured, OnItsWay, ConfiguredEverywhere
<1> QED BY <1>1, Invariant, PTL
-----------------------------------------------------------------------------
(* A change of a configuration that no other request runs beside has        *)
(* reached a set of environments that have the same settings (Reaches), and *)
(* whoever inherits from one of them is one of them or is awaited: it is in *)
(* a loop of a call on the stack, or about to be listed or copied to.       *)
(* Whatever is written, a salt stays that of its environment (Salted).      *)

Inherits(c, es) == config[c] # None /\ config[c].inherited /\ parent[c] \in es

Awaits(q, c) ==
  \/ q.pc \in {"fetch", "store"} /\ c = q.target
  \/ q.pc = "list" /\ parent[c] = q.stack[Len(q.stack)].env
  \/ \E i \in 1..Len(q.stack) : c \in q.stack[i].todo

Reaches(q, es) ==
  /\ es \subseteq present /\ q.env \in es
  /\ \A e \in es : config[e] # None /\ SameSettings(config[e], config[q.env])
  /\ \A i \in 1..Len(q.stack) : q.stack[i].env \in es
  /\ \A c \in present : Inherits(c, es) => c \in es \/ Awaits(q, c)
  /\ q.pc = "list" => q.stack[Len(q.stack)].todo = {}
  /\ q.pc \in {"fetch", "store"} => q.target \in present
  /\ q.pc = "fetch" => q.source \in es
  /\ q.pc = "store" => SameSettings(q.read, config[q.env])
  /\ q.pc = "done" => q.stack = <<>>

OnCourse(q) ==
  q.alone =>
    /\ q.op = "setConfig" /\ q.pc \in {"update", "list", "child", "fetch", "store", "done"}
    /\ IF q.pc = "update" THEN q.env \in present
       ELSE \E es \in SUBSET Environments : Reaches(q, es)

Lone == \A r, q \in Requests : r # q /\ request[r].alone => ~Running(q)

Course == Lone /\ \A r \in Requests : OnCourse(request[r])

\* Each step of a request keeps the course when it keeps its own.
LEMMA CourseGoes ==
  ASSUME IInv, Course, NEW r \in Requests, Running(r), NEW local,
         request' = [request EXCEPT ![r] = local], local.alone => request[r].alone,
         OnCourse(local)'
  PROVE  Course'
<1>1. \A q \in Requests : request'[q] = IF q = r THEN local ELSE request[q]
      BY DEF IInv, Typed, TypeOK
<1>2. \A q \in Requests : q # r => ~request[q].alone
      BY DEF Course, Lone
<1>3. Lone'
      BY <1>1, <1>2 DEF Course, Lone, Running, At
<1>4. ASSUME NEW q \in Requests PROVE OnCourse(request[q])'
  <2>1. CASE q = r
        BY <1>1, <2>1
  <2>2. CASE q # r
    <3>1. ~request'[q].alone
          BY <1>1, <1>2, <2>2
    <3> QED BY <3>1 DEF OnCourse
  <2> QED BY <2>1, <2>2
<1> QED BY <1>3, <1>4 DEF Course

\* A request that is not alone has nothing to keep.
LEMMA CourseEnds ==
  ASSUME IInv, Course, NEW r \in Requests, Running(r), NEW local,
         request' = [request EXCEPT ![r] = local], ~local.alone
  PROVE  Course'
<1>1. OnCourse(local)'
      BY DEF OnCourse
<1> QED BY <1>1, CourseGoes

\* Neither has one that begins, unless it is to change a configuration.
LEMMA CourseBegins ==
  ASSUME IInv, Course, NEW r \in Requests, NEW op, NEW local \in RequestStates, Begin(r, op, local),
         op = "setConfig" => local.pc = "update" /\ local.env \in present'
  PROVE  Course'
<1> DEFINE alone == op = "setConfig" /\ \A p \in Requests : ~Running(p)
           begun == [local EXCEPT !.op = op, !.alone = alone]
<1>1. /\ \A q \in Requests : request'[q] = IF q # r THEN [request[q] EXCEPT !.alone = FALSE]
                                           ELSE IF local = Idle THEN Idle ELSE begun
      BY DEF Begin
<1>2. begun.op = op /\ begun.pc = local.pc /\ begun.env = local.env /\ begun.alone = alone
      BY DEF RequestStates
<1>3. alone => op = "setConfig" /\ \A p \in Requests : ~Running(p)
      OBVIOUS
<1> HIDE DEF alone, begun
<1>4. \A q \in Requests : q # r => request'[q].alone = FALSE /\ request'[q].pc = request[q].pc
  <2> SUFFICES ASSUME NEW q \in Requests, q # r
               PROVE  request'[q].alone = FALSE /\ request'[q].pc = request[q].pc
      OBVIOUS
  <2>1. request[q] \in RequestStates
        BY DEF IInv, Typed, TypeOK
  <2>2. request'[q] = [request[q] EXCEPT !.alone = FALSE]
        BY <1>1
  <2> QED BY <2>1, <2>2 DEF RequestStates
<1>5. request'[r].alone =>
        /\ alone /\ request'[r].op = "setConfig" /\ request'[r].pc = "update"
        /\ request'[r].env \in present'
      BY <1>1, <1>2, <1>3, IdleType
<1>6. Lone'
      BY <1>3, <1>4, <1>5 DEF Lone, Running, At
<1>7. \A q \in Requests : OnCourse(request[q])'
      BY <1>4, <1>5 DEF OnCourse
<1> QED BY <1>6, <1>7 DEF Course

\* Requests that begin have local states.
LEMMA AcceptOnCourse ==
  ASSUME IInv, Course, NEW r \in Requests, Accept(r)
  PROVE  Course'
<1>1. Existing \subseteq Environments /\ parent \in [Environments -> Maybe(Existing)]
      BY ConstantsAssumption DEF IInv, Typed, TypeOK, Existing
<1>2. CASE CreateFlag(r)
  <2> DEFINE local == [Idle EXCEPT !.pc = "listEnvironments"]
  <2>1. local \in RequestStates
        BY IdleType DEF RequestStates
  <2>2. Begin(r, "createFlag", local)
        BY <1>2 DEF CreateFlag
  <2> HIDE DEF local
  <2> QED BY <2>1, <2>2, CourseBegins
<1>3. CASE DeleteFlag(r)
      BY <1>3, IdleType, CourseBegins DEF DeleteFlag
<1>4. ASSUME NEW e \in Environments, Delete(r, e) PROVE Course'
      BY <1>4, IdleType, CourseBegins DEF Delete
<1>5. ASSUME NEW e \in Environments, InheritFromParent(r, e) PROVE Course'
  <2>1. PICK p : p = parent[e]
        OBVIOUS
  <2>2. p \in Environments
        BY <1>1, <1>5, <2>1 DEF InheritFromParent, Maybe
  <2> DEFINE local == [[Idle EXCEPT !.pc = "fetch", !.source = p, !.target = e] EXCEPT !.env = e]
  <2>3. local \in RequestStates
        BY <2>2, IdleType DEF RequestStates, Maybe
  <2>4. Begin(r, "inherit", local)
        BY <1>5, <2>1 DEF InheritFromParent, OnConfig
  <2> HIDE DEF local
  <2> QED BY <2>3, <2>4, CourseBegins
<1>6. ASSUME NEW e \in Environments, NEW p \in Maybe(Environments), Create(r, e, p) PROVE Course'
  <2> DEFINE local == [Idle EXCEPT !.pc = "insert", !.env = e, !.other = p]
  <2>1. local \in RequestStates
        BY IdleType DEF RequestStates, Maybe
  <2>2. Begin(r, "create", local)
        BY <1>6 DEF Create
  <2> HIDE DEF local
  <2> QED BY <2>1, <2>2, CourseBegins
<1>7. ASSUME NEW e \in Environments, NEW p \in Maybe(Environments), SetParent(r, e, p) PROVE Course'
  <2>1. PICK pc \in {"link", "walk"} : pc = IF p = None THEN "link" ELSE "walk"
        OBVIOUS
  <2> DEFINE local == [Idle EXCEPT !.pc = pc, !.env = e, !.new = Default, !.source = p, !.other = p,
                                   !.todo = {e}]
  <2>2. local \in RequestStates
        BY IdleType DEF RequestStates, Maybe
  <2>3. Begin(r, "setParent", local)
        BY <1>7, <2>1 DEF SetParent, VisitedFirst
  <2> HIDE DEF local
  <2> QED BY <2>2, <2>3, CourseBegins
<1>8. ASSUME NEW e \in Environments, NEW v \in Values, SetRules(r, e, v) PROVE Course'
  <2>1. PICK inherited : inherited = Ensured({e})[e].inherited
        OBVIOUS
  <2>2. inherited \in BOOLEAN
    <3>1. e \in present /\ flag = "present"
          BY <1>8 DEF SetRules, OnConfig
    <3>2. {e} \subseteq Maybe(Existing)
          BY <3>1 DEF Maybe, Existing
    <3>3. Ensured({e})[e] \in Configs
          BY <3>1, <3>2, EnsuredType DEF IInv, Maybe
    <3> QED BY <2>1, <3>3 DEF Configs
  <2> DEFINE new == [Default EXCEPT !.rules = v, !.inherited = inherited]
             local == [[Idle EXCEPT !.pc = "replace", !.new = new] EXCEPT !.env = e]
  <2>3. new \in Configs
        BY <2>2, IdleType DEF Configs
  <2>4. Begin(r, "setRules", local)
        BY <1>8, <2>1 DEF SetRules, OnConfig
  <2> HIDE DEF new
  <2>5. local \in RequestStates
        BY <2>3, IdleType DEF RequestStates, Maybe
  <2> HIDE DEF local
  <2> QED BY <2>4, <2>5, CourseBegins
<1>9. ASSUME NEW e \in Environments, NEW v \in Values, NEW inherited \in BOOLEAN,
             SetConfig(r, e, v, inherited)
      PROVE  Course'
  <2> DEFINE new == [Default EXCEPT !.value = v, !.inherited = inherited]
             local == [[Idle EXCEPT !.pc = "update", !.new = new] EXCEPT !.env = e]
  <2>1. new \in Configs
        BY IdleType DEF Configs
  <2>2. Begin(r, "setConfig", local)
        BY <1>9 DEF SetConfig, OnConfig
  <2> HIDE DEF new
  <2>3. local \in RequestStates /\ local.pc = "update" /\ local.env = e
        BY <2>1, IdleType DEF RequestStates, Maybe
  <2>4. e \in present'
        BY <1>9 DEF SetConfig, OnConfig
  <2> HIDE DEF local
  <2> QED BY <2>2, <2>3, <2>4, CourseBegins
<1>10. ASSUME NEW e \in Environments, NEW from \in Environments, PromoteConfig(r, from, e) PROVE Course'
  <2> DEFINE local == [[Idle EXCEPT !.pc = "fetch", !.source = from, !.target = e] EXCEPT !.env = e]
  <2>1. local \in RequestStates
        BY IdleType DEF RequestStates, Maybe
  <2>2. Begin(r, "promote", local)
        BY <1>10 DEF PromoteConfig, OnConfig
  <2> HIDE DEF local
  <2> QED BY <2>1, <2>2, CourseBegins
<1> QED BY <1>2, <1>3, <1>4, <1>5, <1>6, <1>7, <1>8, <1>9, <1>10 DEF Accept

\* The steps of other requests, and the end of any.
LEMMA OthersOnCourse ==
  ASSUME IInv, Course, NEW r \in Requests,
         \/ Insert(r) \/ ListFlags(r) \/ Provision(r) \/ Walk(r) \/ Link(r) \/ ListEnvironments(r)
         \/ Seed(r) \/ Replace(r) \/ Detach(r) \/ Throw(r) \/ Respond(r)
  PROVE  Course'
<1>1. request[r] \in RequestStates /\ Running(r)
      BY DEF IInv, Typed, TypeOK, Running, At, Insert, ListFlags, Provision, Walk, Link,
             ListEnvironments, Seed, Replace, Detach, Throw, Gone, Respond
<1>2. ~Idle.alone
      BY IdleType
<1>3. CASE Throw(r) \/ Respond(r)
  <2>1. PICK local : local = Idle
        OBVIOUS
  <2> QED BY <1>1, <1>2, <1>3, <2>1, CourseEnds DEF Throw, Respond, Go
<1>4. CASE ~request[r].alone
  <2>1. ~Finished(r).alone
        BY <1>2, <1>4 DEF Finished
  <2>2. \A f : request' = [request EXCEPT ![r] = f] /\ ~f.alone => Course'
    <3> SUFFICES ASSUME NEW f, request' = [request EXCEPT ![r] = f], ~f.alone PROVE Course'
        OBVIOUS
    <3> QED BY <1>1, CourseEnds
  <2>3. CASE Insert(r)
    <3> DEFINE local == [request[r] EXCEPT !.pc = "listFlags"]
    <3>1. request' = [request EXCEPT ![r] = local] /\ ~local.alone
          BY <1>1, <1>4, <2>3 DEF Insert, RequestStates, IInv, Typed, TypeOK
    <3> HIDE DEF local
    <3> QED BY <2>2, <3>1
  <2>4. CASE ListFlags(r)
    <3> DEFINE local == [request[r] EXCEPT !.pc = "provision"]
    <3>1. ~local.alone
          BY <1>1, <1>4 DEF RequestStates
    <3>2. request' = [request EXCEPT ![r] = local] \/ request' = [request EXCEPT ![r] = Finished(r)]
          BY <2>4 DEF ListFlags, Go
    <3> HIDE DEF local
    <3> QED BY <2>1, <2>2, <3>1, <3>2
  <2>5. CASE Provision(r)
    <3>1. PICK e : e = request[r].env
          OBVIOUS
    <3> DEFINE local == [request[r] EXCEPT !.pc = "fetch", !.source = parent[e], !.target = e]
    <3>2. ~local.alone
          BY <1>1, <1>4 DEF RequestStates
    <3>3. request' = [request EXCEPT ![r] = local] \/ request' = [request EXCEPT ![r] = Finished(r)]
          BY <2>5, <3>1 DEF Provision, Go
    <3> HIDE DEF local
    <3> QED BY <2>1, <2>2, <3>2, <3>3
  <2>6. CASE Walk(r)
    <3>1. PICK at, next : at = request[r].other /\ next = IF at \in present THEN parent[at] ELSE None
          OBVIOUS
    <3> DEFINE linked == [request[r] EXCEPT !.pc = "link", !.other = None, !.todo = {}]
               local == [request[r] EXCEPT !.other = next, !.todo = request[r].todo \cup {at}]
    <3>2. ~local.alone /\ ~linked.alone
          BY <1>1, <1>4 DEF RequestStates
    <3>3. \/ request' = [request EXCEPT ![r] = local] \/ request' = [request EXCEPT ![r] = linked]
          \/ request' = [request EXCEPT ![r] = Idle]
          BY <2>6, <3>1 DEF Walk, Go
    <3> HIDE DEF local, linked
    <3> QED BY <1>2, <2>2, <3>2, <3>3
  <2>7. CASE Link(r)
        BY <2>1, <2>2, <2>7 DEF Link, Go
  <2>8. CASE ListEnvironments(r)
    <3> DEFINE local == [request[r] EXCEPT !.pc = "seed", !.todo = present]
    <3>1. ~local.alone /\ request' = [request EXCEPT ![r] = local]
          BY <1>1, <1>4, <2>8 DEF RequestStates, ListEnvironments, Go
    <3> HIDE DEF local
    <3> QED BY <2>2, <3>1
  <2>9. CASE Seed(r)
    <3>1. PICK e : \/ request' = [request EXCEPT ![r] = Finished(r)]
                   \/ request' = [request EXCEPT ![r] = [request[r] EXCEPT !.todo = request[r].todo \ {e}]]
          BY <2>9 DEF Seed, Go
    <3> DEFINE local == [request[r] EXCEPT !.todo = request[r].todo \ {e}]
    <3>2. ~local.alone
          BY <1>1, <1>4 DEF RequestStates
    <3>3. request' = [request EXCEPT ![r] = local] \/ request' = [request EXCEPT ![r] = Finished(r)]
          BY <3>1
    <3> HIDE DEF local
    <3> QED BY <2>1, <2>2, <3>2, <3>3
  <2>10. CASE Replace(r)
    <3> DEFINE local == [request[r] EXCEPT !.pc = "detach"]
    <3>1. ~local.alone
          BY <1>1, <1>4 DEF RequestStates
    <3>2. request' = [request EXCEPT ![r] = local] \/ request' = [request EXCEPT ![r] = Finished(r)]
          BY <2>10 DEF Replace, Go
    <3> HIDE DEF local
    <3> QED BY <2>1, <2>2, <3>1, <3>2
  <2>11. CASE Detach(r)
        BY <2>1, <2>2, <2>11 DEF Detach, Go
  <2> QED BY <1>3, <1>4, <2>3, <2>4, <2>5, <2>6, <2>7, <2>8, <2>9, <2>10, <2>11
<1>5. CASE request[r].alone
  <2>1. request[r].pc \in {"update", "list", "child", "fetch", "store", "done"}
        BY <1>5 DEF Course, OnCourse
  <2> QED BY <1>3, <2>1 DEF At, Insert, ListFlags, Provision, Walk, Link, ListEnvironments, Seed,
                            Replace, Detach
<1> QED BY <1>4, <1>5

\* A step of a cascade, to a set of environments that it reaches.
LEMMA CascadeGoes ==
  ASSUME IInv, Course, NEW r \in Requests, Running(r), NEW local,
         request' = [request EXCEPT ![r] = local], local.alone = request[r].alone,
         request[r].alone =>
           /\ local.op = "setConfig" /\ local.pc \in {"list", "child", "fetch", "store", "done"}
           /\ \E es \in SUBSET Environments : Reaches(local, es)'
  PROVE  Course'
<1>1. OnCourse(local)'
      BY DEF OnCourse
<1> QED BY <1>1, CourseGoes

LEMMA TopChanges ==
  ASSUME Typed, NEW r \in Requests, NEW q, q = request[r], q.stack # <<>>,
         NEW todo \in SUBSET Environments, NEW n, n = Len(q.stack), NEW stack, stack = WithTop(r, todo)
  PROVE  /\ n \in Nat \ {0} /\ Len(stack) = n /\ Top(r) = q.stack[n]
         /\ \A i \in 1..n : q.stack[i] \in Frames /\ stack[i].env = q.stack[i].env
         /\ \A i \in 1..n : i # n => stack[i].todo = q.stack[i].todo
         /\ stack[n].todo = todo
<1>1. q.stack \in Seq(Frames)
      BY RequestTyped DEF RequestStates, Frames
<1>2. n \in Nat \ {0} /\ \A i \in 1..n : q.stack[i] \in Frames
      BY <1>1, EmptySeq
<1> DEFINE frame == [q.stack[n] EXCEPT !.todo = todo]
<1>3. frame \in Frames /\ frame.todo = todo /\ frame.env = q.stack[n].env
      BY <1>2 DEF Frames
<1>4. stack = [q.stack EXCEPT ![n] = frame]
      BY DEF WithTop
<1> HIDE DEF frame
<1>5. Len(stack) = n /\ \A i \in 1..n : stack[i] = IF i = n THEN frame ELSE q.stack[i]
      BY <1>1, <1>2, <1>3, <1>4, ExceptSeq
<1> QED BY <1>2, <1>3, <1>5 DEF Top

LEMMA UpdateOnCourse ==
  ASSUME IInv, Course, NEW r \in Requests, Update(r)
  PROVE  Course'
<1>1. PICK q, e : q = request[r] /\ e = q.env
      OBVIOUS
<1> DEFINE stack == <<[env |-> e, todo |-> {}]>>
           local == [q EXCEPT !.pc = "list", !.new = Default, !.stack = stack]
           new == [config[e] EXCEPT !.value = q.new.value, !.inherited = q.new.inherited]
<1>2. q \in RequestStates /\ Held(q) /\ q.pc = "update" /\ Typed /\ Running(r) /\ OnCourse(q)
      BY <1>1, RequestTyped DEF IInv, Update, At, Running, Course
<1>3. e \in Environments /\ config[e] # None /\ config[e] \in Configs
      BY <1>1, <1>2, ConfigTyped DEF Held, Update
<1>4. /\ request' = [request EXCEPT ![r] = local]
      /\ UNCHANGED <<present, deleted, parent, flag>>
      BY <1>1 DEF Update, Go
<1>5. new # None
  <2>1. new \in Configs
        BY <1>2, <1>3 DEF RequestStates, Configs
  <2> QED BY <2>1, ConstantsAssumption
<1>6. config'[e] = new
  <2>1. config \in [Environments -> Maybe(Configs)]
        BY <1>2 DEF Typed, TypeOK
  <2>2. config' = [config EXCEPT ![e] = new]
        BY <1>1, <1>3, <2>1 DEF Update
  <2> HIDE DEF new
  <2> QED BY <1>3, <2>1, <2>2
<1>7. Len(stack) = 1 /\ stack[1].env = e /\ stack[1].todo = {}
      OBVIOUS
<1> HIDE DEF stack, new
<1>8. local.pc = "list" /\ local.op = q.op /\ local.env = e /\ local.stack = stack
      /\ local.alone = q.alone
      BY <1>1, <1>2 DEF RequestStates
<1> HIDE DEF local
<1>9. PICK x, y : x = local /\ y = stack
      OBVIOUS
<1>10. ASSUME q.alone PROVE Reaches(x, {e})'
  <2>4. e \in present
        BY <1>1, <1>2, <1>10 DEF OnCourse
  <2>1. x.pc = "list" /\ x.env = e /\ x.stack = y /\ Len(y) = 1 /\ y[1].env = e /\ y[1].todo = {}
        BY <1>7, <1>8, <1>9
  <2>2. \A c : Inherits(c, {e})' => Awaits(x, c)'
        BY <2>1 DEF Inherits, Awaits
  <2>3. config'[e] # None
        BY <1>5, <1>6
  <2> QED BY <1>3, <1>4, <2>1, <2>2, <2>3, <2>4 DEF Reaches, SameSettings
<1>11. {e} \in SUBSET Environments
       BY <1>3
<1> QED BY <1>1, <1>2, <1>4, <1>8, <1>9, <1>10, <1>11, CascadeGoes DEF OnCourse

LEMMA ListOnCourse ==
  ASSUME IInv, Course, NEW r \in Requests, List(r)
  PROVE  Course'
<1>1. PICK q : q = request[r]
      OBVIOUS
<1>2. PICK n, todo, stack : /\ n = Len(q.stack) /\ todo = Children(q.stack[n].env)
                            /\ stack = WithTop(r, todo)
      OBVIOUS
<1> DEFINE local == [q EXCEPT !.pc = "child", !.stack = stack]
<1>3. q \in RequestStates /\ q.pc = "list" /\ q.stack # <<>> /\ Typed /\ Running(r) /\ OnCourse(q)
      BY <1>1, RequestTyped DEF IInv, List, At, Running, Course, Held
<1>4. todo \in SUBSET Environments
      BY <1>2, <1>3 DEF Children, Typed, TypeOK
<1>5. /\ n \in Nat \ {0} /\ Len(stack) = n /\ Top(r) = q.stack[n]
      /\ \A i \in 1..n : stack[i].env = q.stack[i].env
      /\ \A i \in 1..n : i # n => stack[i].todo = q.stack[i].todo
      /\ stack[n].todo = todo
      BY <1>1, <1>2, <1>3, <1>4, TopChanges
<1>6. request' = [request EXCEPT ![r] = local] /\ UNCHANGED rows
      BY <1>1, <1>2, <1>5 DEF List, Go
<1>7. local.pc = "child" /\ local.op = q.op /\ local.env = q.env /\ local.stack = stack
      /\ local.alone = q.alone
      BY <1>3 DEF RequestStates
<1> HIDE DEF local
<1>8. ASSUME NEW es \in SUBSET Environments, Reaches(q, es), NEW x, x = local
      PROVE  Reaches(x, es)'
  <2>1. UNCHANGED <<present, parent, config>>
        BY <1>6 DEF rows
  <2>2. \A i \in 1..n : i = n \/ stack[i].todo = q.stack[i].todo
        BY <1>5
  <2>3. q.stack[n].todo = {}
        BY <1>2, <1>3, <1>8 DEF Reaches
  <2>4. \A c \in present : Awaits(q, c) => Awaits(x, c)
    <3> SUFFICES ASSUME NEW c \in present, Awaits(q, c)
                 PROVE  \E i \in 1..n : c \in stack[i].todo
        BY <1>5, <1>7, <1>8 DEF Awaits
    <3>1. CASE parent[c] = q.stack[n].env
      <4>1. c \in stack[n].todo
            BY <1>2, <1>5, <3>1 DEF Children
      <4> QED BY <1>5, <4>1
    <3>2. CASE \E i \in 1..n : c \in q.stack[i].todo
          BY <2>2, <2>3, <3>2
    <3> QED BY <1>2, <1>3, <3>1, <3>2 DEF Awaits
  <2>5. \A c \in present : Awaits(x, c) => Awaits(x, c)'
        BY <1>7, <1>8 DEF Awaits
  <2>6. \A c \in present : Inherits(c, es)' => Inherits(c, es)
        BY <2>1 DEF Inherits
  <2>7. /\ es \subseteq present /\ q.env \in es
        /\ \A e \in es : config[e] # None /\ SameSettings(config[e], config[q.env])
        /\ \A i \in 1..n : q.stack[i].env \in es
        /\ \A c \in present : Inherits(c, es) => c \in es \/ Awaits(q, c)
        BY <1>2, <1>8 DEF Reaches
  <2> QED BY <1>5, <1>7, <1>8, <2>1, <2>4, <2>5, <2>6, <2>7 DEF Reaches, SameSettings
<1>9. PICK x : x = local
      OBVIOUS
<1>10. q.alone => \E es \in SUBSET Environments : Reaches(x, es)'
       BY <1>3, <1>8, <1>9 DEF OnCourse
<1> QED BY <1>1, <1>3, <1>6, <1>7, <1>9, <1>10, CascadeGoes DEF OnCourse

LEMMA ChildOnCourse ==
  ASSUME IInv, Course, NEW r \in Requests, Child(r)
  PROVE  Course'
<1>1. PICK q : q = request[r]
      OBVIOUS
<1>2. PICK c \in Top(r).todo \cap present :
        /\ config' = Ensured({c})
        /\ Go(r, LET local == [request[r] EXCEPT !.stack = WithTop(r, Top(r).todo \ {c})]
                 IN  IF config'[c].inherited
                     THEN [local EXCEPT !.pc = "fetch", !.source = Top(r).env, !.target = c]
                     ELSE local)
      BY DEF Child
<1>3. q \in RequestStates /\ q.pc = "child" /\ q.stack # <<>> /\ Typed /\ Running(r) /\ OnCourse(q)
      BY <1>1, RequestTyped DEF IInv, Child, At, Running, Course, Held
<1>4. PICK n, todo, stack, source : /\ n = Len(q.stack) /\ todo = Top(r).todo \ {c}
                                    /\ stack = WithTop(r, todo) /\ source = Top(r).env
      OBVIOUS
<1>5. todo \in SUBSET Environments /\ c \in Environments
  <2>1. Top(r) \in Frames
        BY <1>1, <1>3, TopType
  <2> QED BY <1>2, <1>3, <1>4, <2>1 DEF Frames, Typed, TypeOK
<1>6. /\ n \in Nat \ {0} /\ Len(stack) = n /\ Top(r) = q.stack[n]
      /\ \A i \in 1..n : stack[i].env = q.stack[i].env
      /\ \A i \in 1..n : i # n => stack[i].todo = q.stack[i].todo
      /\ stack[n].todo = todo
      BY <1>1, <1>3, <1>4, <1>5, TopChanges
<1> DEFINE local == [q EXCEPT !.stack = stack]
           fetch == [local EXCEPT !.pc = "fetch", !.source = source, !.target = c]
<1>7. /\ local.pc = "child" /\ local.op = q.op /\ local.env = q.env /\ local.stack = stack
      /\ local.alone = q.alone
      /\ fetch.pc = "fetch" /\ fetch.op = q.op /\ fetch.env = q.env /\ fetch.stack = stack
      /\ fetch.alone = q.alone /\ fetch.source = source /\ fetch.target = c
      BY <1>3 DEF RequestStates
<1>8. UNCHANGED <<present, deleted, parent, flag>> /\ flag = "present"
      BY DEF Child
<1>9. /\ config' \in [Environments -> Maybe(Configs)]
      /\ \A d \in Environments : config[d] # None => config'[d] = config[d]
      /\ \A d \in Environments : config'[d] = config[d] \/ (d = c /\ config[d] = None /\ config'[d] = Created(d))
  <2>1. {c} \subseteq Maybe(Existing)
        BY <1>2 DEF Maybe, Existing
  <2>2. /\ config' \in [Environments -> Maybe(Configs)]
        /\ \A d \in Environments : config[d] # None => config'[d] = config[d]
        BY <1>2, <1>3, <1>8, <2>1, EnsuredType
  <2>3. \A d \in Environments : Ensured({c})[d] = IF d \in {c} /\ config[d] = None THEN Created(d) ELSE config[d]
        BY DEF Ensured
  <2> QED BY <1>2, <2>2, <2>3
<1>10. request' = [request EXCEPT ![r] = IF config'[c].inherited THEN fetch ELSE local]
       BY <1>1, <1>2, <1>4 DEF Go
<1> HIDE DEF local, fetch
<1>11. ASSUME NEW es \in SUBSET Environments, Reaches(q, es), NEW x,
              \/ x = local /\ ~config'[c].inherited
              \/ x = fetch
       PROVE  Reaches(x, es)'
  <2>1. /\ es \subseteq present /\ q.env \in es
        /\ \A e \in es : config[e] # None /\ SameSettings(config[e], config[q.env])
        /\ \A i \in 1..n : q.stack[i].env \in es
        /\ \A d \in present : Inherits(d, es) => d \in es \/ Awaits(q, d)
        BY <1>4, <1>11 DEF Reaches
  <2>2. \A e \in es : config'[e] = config[e]
        BY <1>9, <2>1
  <2>3. \A d \in Environments : ~Created(d).inherited
        BY CreatedType
  <2>4. ASSUME NEW d \in present, Inherits(d, es)', d \notin es
        PROVE  Awaits(x, d)'
    <3>1. d \in Environments /\ config'[d] # None /\ config'[d].inherited /\ parent[d] \in es
          BY <1>3, <1>8, <2>4 DEF Inherits, Typed, TypeOK
    <3>2. config'[d] = config[d]
          BY <1>9, <2>3, <3>1
    <3>3. Awaits(q, d)
          BY <2>1, <2>4, <3>1, <3>2 DEF Inherits
    <3>4. PICK i \in 1..n : d \in q.stack[i].todo
          BY <1>3, <1>4, <3>3 DEF Awaits
    <3>5. CASE d = c
          BY <1>7, <1>11, <3>1, <3>5 DEF Awaits
    <3>6. CASE d # c
      <4>1. d \in stack[i].todo
            BY <1>4, <1>6, <3>4, <3>6
      <4> QED BY <1>6, <1>7, <1>11, <4>1 DEF Awaits
    <3> QED BY <3>5, <3>6
  <2>5. x.env = q.env /\ x.stack = stack /\ x.pc \in {"child", "fetch"}
        /\ (x.pc = "fetch" => x.source = source /\ x.target = c)
        BY <1>7, <1>11
  <2>6. source \in es
        BY <1>4, <1>6, <2>1
  <2>7. c \in present
        BY <1>2
  <2> QED BY <1>6, <1>8, <2>1, <2>2, <2>4, <2>5, <2>6, <2>7 DEF Reaches, SameSettings
<1>12. PICK x : x = IF config'[c].inherited THEN fetch ELSE local
       OBVIOUS
<1>13. request' = [request EXCEPT ![r] = x] /\ x.alone = q.alone /\ x.op = q.op
       /\ x.pc \in {"child", "fetch"}
       BY <1>7, <1>10, <1>12
<1>14. q.alone => \E es \in SUBSET Environments : Reaches(x, es)'
       BY <1>3, <1>11, <1>12 DEF OnCourse
<1> QED BY <1>1, <1>3, <1>13, <1>14, CascadeGoes DEF OnCourse

LEMMA ReturnOnCourse ==
  ASSUME IInv, Course, NEW r \in Requests, Return(r)
  PROVE  Course'
<1>1. PICK q, n : q = request[r] /\ n = Len(q.stack)
      OBVIOUS
<1>2. q \in RequestStates /\ q.pc = "child" /\ q.stack # <<>> /\ Typed /\ Running(r) /\ OnCourse(q)
      BY <1>1, RequestTyped DEF IInv, Return, At, Running, Course, Held
<1>3. n \in Nat \ {0} /\ Top(r) = q.stack[n] /\ q.stack \in Seq(Frames)
  <2>1. q.stack \in Seq(Frames)
        BY <1>2 DEF RequestStates, Frames
  <2> QED BY <1>1, <1>2, <2>1, EmptySeq DEF Top
<1>4. q.stack[n].todo = {} /\ UNCHANGED rows
      BY <1>3 DEF Return
<1>5. UNCHANGED <<present, parent, config>>
      BY <1>4 DEF rows
<1>6. CASE n = 1
  <2>1. PICK x : x = Finished(r)
        OBVIOUS
  <2>2. request' = [request EXCEPT ![r] = x]
        BY <1>1, <1>6, <2>1 DEF Return, Go
  <2>3. CASE ~q.alone
    <3>1. ~x.alone
          BY <1>1, <2>1, <2>3, IdleType DEF Finished
    <3> QED BY <1>2, <2>2, <3>1, CourseEnds
  <2>4. CASE q.alone
    <3>1. /\ x.op = "setConfig" /\ x.pc = "done" /\ x.env = q.env /\ x.alone = TRUE /\ x.stack = <<>>
          BY <1>1, <2>1, <2>4, IdleType DEF Finished, RequestStates
    <3>2. ASSUME NEW es \in SUBSET Environments, Reaches(q, es)
          PROVE  Reaches(x, es)'
      <4>1. /\ es \subseteq present /\ q.env \in es
            /\ \A e \in es : config[e] # None /\ SameSettings(config[e], config[q.env])
            /\ \A d \in present : Inherits(d, es) => d \in es \/ Awaits(q, d)
            BY <3>2 DEF Reaches
      <4>2. \A d \in present : ~Awaits(q, d)
            BY <1>1, <1>2, <1>4, <1>6 DEF Awaits
      <4>3. \A d \in present : Inherits(d, es)' => d \in es
            BY <1>5, <4>1, <4>2 DEF Inherits
      <4>4. Len(x.stack) = 0
            BY <3>1
      <4> QED BY <1>5, <3>1, <4>1, <4>3, <4>4 DEF Reaches, SameSettings
    <3>3. q.alone = TRUE
          BY <1>2, <2>4 DEF RequestStates
    <3> QED BY <1>1, <1>2, <2>2, <2>4, <3>1, <3>2, <3>3, CascadeGoes DEF OnCourse
  <2> QED BY <2>3, <2>4
<1>7. CASE n # 1
  <2>1. PICK stack : stack = SubSeq(q.stack, 1, n - 1)
        OBVIOUS
  <2> DEFINE local == [q EXCEPT !.stack = stack]
  <2>2. request' = [request EXCEPT ![r] = local]
        BY <1>1, <1>7, <2>1 DEF Return, Go
  <2>3. local.pc = "child" /\ local.op = q.op /\ local.env = q.env /\ local.stack = stack
        /\ local.alone = q.alone
        BY <1>2 DEF RequestStates
  <2> HIDE DEF local
  <2>4. Len(stack) = n - 1 /\ \A i \in 1..(n - 1) : stack[i] = q.stack[i]
    <3>1. \A i \in 1..(n - 1) : q.stack[i] \in Frames
          BY <1>1, <1>3
    <3>2. 1 \in Int /\ n - 1 \in Int /\ 1 <= n - 1
          BY <1>3, <1>7
    <3>3. /\ Len(SubSeq(q.stack, 1, n - 1)) = (n - 1) - 1 + 1
          /\ \A i \in 1..((n - 1) - 1 + 1) : SubSeq(q.stack, 1, n - 1)[i] = q.stack[1 + i - 1]
          BY <3>1, <3>2, SubSeqProperties
    <3>4. \A i \in 1..(n - 1) : 1 + i - 1 = i
          OBVIOUS
    <3>5. (n - 1) - 1 + 1 = n - 1
          BY <1>3
    <3> QED BY <2>1, <3>3, <3>4, <3>5
  <2>5. PICK x : x = local
        OBVIOUS
  <2>6. ASSUME NEW es \in SUBSET Environments, Reaches(q, es)
        PROVE  Reaches(x, es)'
    <3>1. /\ es \subseteq present /\ q.env \in es
          /\ \A e \in es : config[e] # None /\ SameSettings(config[e], config[q.env])
          /\ \A i \in 1..n : q.stack[i].env \in es
          /\ \A d \in present : Inherits(d, es) => d \in es \/ Awaits(q, d)
          BY <1>1, <2>6 DEF Reaches
    <3>2. x.pc = "child" /\ x.env = q.env /\ x.stack = stack
          BY <2>3, <2>5
    <3>3. \A i \in 1..n : i \in 1..(n - 1) \/ i = n
          BY <1>3
    <3>4. \A d \in present : Awaits(q, d) => Awaits(x, d)'
          BY <1>1, <1>2, <1>4, <2>4, <3>2, <3>3 DEF Awaits
    <3>5. \A d \in present : Inherits(d, es)' => Inherits(d, es)
          BY <1>5 DEF Inherits
    <3>6. \A i \in 1..(n - 1) : stack[i].env \in es
      <4>1. \A i \in 1..(n - 1) : i \in 1..n
            BY <1>3
      <4> QED BY <2>4, <3>1, <4>1
    <3> QED BY <1>5, <2>4, <3>1, <3>2, <3>4, <3>5, <3>6 DEF Reaches, SameSettings
  <2>7. q.alone => \E es \in SUBSET Environments : Reaches(x, es)'
        BY <1>2, <2>6 DEF OnCourse
  <2> QED BY <1>1, <1>2, <2>2, <2>3, <2>5, <2>7, CascadeGoes DEF OnCourse
<1> QED BY <1>6, <1>7

LEMMA FetchOnCourse ==
  ASSUME IInv, Course, NEW r \in Requests, Fetch(r)
  PROVE  Course'
<1>1. PICK q, read : q = request[r] /\ read = config[q.source]
      OBVIOUS
<1> DEFINE local == [q EXCEPT !.pc = "store", !.read = read]
<1>2. q \in RequestStates /\ q.pc = "fetch" /\ Running(r) /\ OnCourse(q)
      BY <1>1, RequestTyped DEF IInv, Fetch, At, Running, Course
<1>3. request' = [request EXCEPT ![r] = local] /\ UNCHANGED rows
      BY <1>1 DEF Fetch, Go
<1>4. UNCHANGED <<present, parent, config>>
      BY <1>3 DEF rows
<1>5. local.pc = "store" /\ local.op = q.op /\ local.env = q.env /\ local.stack = q.stack
      /\ local.alone = q.alone /\ local.read = read /\ local.target = q.target
      BY <1>2 DEF RequestStates
<1> HIDE DEF local
<1>6. PICK x : x = local
      OBVIOUS
<1>7. ASSUME NEW es \in SUBSET Environments, Reaches(q, es)
      PROVE  Reaches(x, es)'
  <2>1. /\ es \subseteq present /\ q.env \in es
        /\ \A e \in es : config[e] # None /\ SameSettings(config[e], config[q.env])
        /\ \A i \in 1..Len(q.stack) : q.stack[i].env \in es
        /\ \A d \in present : Inherits(d, es) => d \in es \/ Awaits(q, d)
        /\ q.source \in es /\ q.target \in present
        BY <1>2, <1>7 DEF Reaches
  <2>2. \A d \in present : Awaits(q, d) => Awaits(x, d)'
        BY <1>2, <1>5, <1>6 DEF Awaits
  <2>3. \A d \in present : Inherits(d, es)' => Inherits(d, es)
        BY <1>4 DEF Inherits
  <2> QED BY <1>1, <1>4, <1>5, <1>6, <2>1, <2>2, <2>3 DEF Reaches, SameSettings
<1>8. q.alone => \E es \in SUBSET Environments : Reaches(x, es)'
      BY <1>2, <1>7 DEF OnCourse
<1> QED BY <1>1, <1>2, <1>3, <1>5, <1>6, <1>8, CascadeGoes DEF OnCourse

LEMMA StoreOnCourse ==
  ASSUME IInv, Course, NEW r \in Requests, Store(r)
  PROVE  Course'
<1>1. PICK q, t : q = request[r] /\ t = q.target
      OBVIOUS
<1>2. q \in RequestStates /\ q.pc = "store" /\ Running(r) /\ OnCourse(q) /\ Typed /\ Held(q)
      BY <1>1, RequestTyped DEF IInv, Store, At, Running, Course
<1>3. t \in Environments /\ config[t] # None /\ config[t] \in Configs
      BY <1>1, <1>2, ConfigTyped DEF Held, Store
<1>4. CASE ~q.alone
  <2>1. PICK stack : stack = Append(q.stack, [env |-> t, todo |-> {}])
        OBVIOUS
  <2> DEFINE local == [q EXCEPT !.pc = "list", !.source = None, !.target = None, !.read = Default,
                                !.stack = stack]
  <2>2. ~local.alone
        BY <1>2, <1>4 DEF RequestStates
  <2>3. ~Finished(r).alone
        BY <1>1, <1>4, IdleType DEF Finished
  <2>4. request' = [request EXCEPT ![r] = local] \/ request' = [request EXCEPT ![r] = Finished(r)]
        BY <1>1, <2>1 DEF Store, Stored, Go
  <2>5. PICK x : x \in {local, Finished(r)} /\ request' = [request EXCEPT ![r] = x]
        BY <2>4
  <2> HIDE DEF local
  <2> QED BY <1>2, <2>2, <2>3, <2>5, CourseEnds
<1>5. CASE q.alone
  <2>1. PICK m, stack : m = Len(q.stack) + 1 /\ stack = Append(q.stack, [env |-> t, todo |-> {}])
        OBVIOUS
  <2> DEFINE local == [q EXCEPT !.pc = "list", !.source = None, !.target = None, !.read = Default,
                                !.stack = stack]
             new == [q.read EXCEPT !.salt = config[t].salt, !.inherited = ~Doing(r, "promote")]
  <2>2. q.op = "setConfig"
        BY <1>2, <1>5 DEF OnCourse
  <2>3. request' = [request EXCEPT ![r] = local] /\ UNCHANGED <<present, deleted, parent, flag>>
        BY <1>1, <2>1, <2>2 DEF Store, Stored, Go, Doing
  <2>4. /\ new.value = q.read.value /\ new.rules = q.read.rules /\ new # None
    <3>1. (~Doing(r, "promote")) \in BOOLEAN
          BY DEF Doing
    <3>2. new \in Configs
          BY <1>2, <1>3, <3>1 DEF RequestStates, Configs
    <3>3. new.value = q.read.value /\ new.rules = q.read.rules
          BY <1>2 DEF RequestStates, Configs
    <3> QED BY <3>2, <3>3, ConstantsAssumption
  <2>5. config' = [config EXCEPT ![t] = new]
        BY <1>1 DEF Store
  <2> HIDE DEF new
  <2>6. \A e \in Environments : config'[e] = IF e = t THEN new ELSE config[e]
        BY <1>2, <2>5 DEF Typed, TypeOK
  <2>7. /\ m \in Nat \ {0} /\ Len(stack) = m /\ stack[m].env = t /\ stack[m].todo = {}
        /\ \A i \in 1..Len(q.stack) : i \in 1..m /\ stack[i] = q.stack[i]
        /\ \A i \in 1..m : i = m \/ i \in 1..Len(q.stack)
    <3>1. q.stack \in Seq(Frames) /\ [env |-> t, todo |-> {}] \in Frames
          BY <1>2, <1>3 DEF RequestStates, Frames
    <3>2. /\ Len(stack) = Len(q.stack) + 1
          /\ \A i \in 1..Len(q.stack) : stack[i] = q.stack[i]
          /\ stack[Len(q.stack) + 1] = [env |-> t, todo |-> {}]
          BY <2>1, <3>1, AppendProperties
    <3>3. Len(q.stack) \in Nat
          BY <3>1
    <3> QED BY <2>1, <3>2, <3>3
  <2>8. local.pc = "list" /\ local.op = q.op /\ local.env = q.env /\ local.stack = stack
        /\ local.alone = q.alone
        BY <1>2 DEF RequestStates
  <2> HIDE DEF local
  <2>9. PICK x : x = local
        OBVIOUS
  <2>10. ASSUME NEW es \in SUBSET Environments, Reaches(q, es), NEW larger, larger = es \cup {t}
         PROVE  Reaches(x, larger)'
    <3>1. /\ es \subseteq present /\ q.env \in es
          /\ \A e \in es : config[e] # None /\ SameSettings(config[e], config[q.env])
          /\ \A i \in 1..Len(q.stack) : q.stack[i].env \in es
          /\ \A d \in present : Inherits(d, es) => d \in es \/ Awaits(q, d)
          /\ SameSettings(q.read, config[q.env]) /\ t \in present
          BY <1>1, <1>2, <2>10 DEF Reaches
    <3>2. \A e \in larger : config'[e] # None /\ SameSettings(config'[e], config'[q.env])
          BY <1>3, <2>4, <2>6, <2>10, <3>1 DEF SameSettings
    <3>3. x.pc = "list" /\ x.env = q.env /\ x.stack = stack
          BY <2>8, <2>9
    <3>4. \A i \in 1..m : stack[i].env \in larger
          BY <2>7, <2>10, <3>1
    <3>5. ASSUME NEW d \in present, Inherits(d, larger)', d \notin larger
          PROVE  Awaits(x, d)'
      <4>1. config'[d] = config[d] /\ config[d] # None /\ config[d].inherited /\ parent[d] \in larger
        <5>1. d \in Environments /\ d # t
              BY <1>2, <2>10, <3>5 DEF Typed, TypeOK
        <5> QED BY <2>3, <2>6, <3>5, <5>1 DEF Inherits
      <4>2. CASE parent[d] = t
            BY <2>3, <2>7, <3>3, <4>2 DEF Awaits
      <4>3. CASE parent[d] \in es
        <5>1. Awaits(q, d)
              BY <2>10, <3>1, <3>5, <4>1, <4>3 DEF Inherits
        <5>2. PICK i \in 1..Len(q.stack) : d \in q.stack[i].todo
              BY <1>1, <1>2, <2>10, <3>5, <5>1 DEF Awaits
        <5> QED BY <2>7, <3>3, <5>2 DEF Awaits
      <4> QED BY <2>10, <4>1, <4>2, <4>3
    <3> QED BY <1>3, <2>3, <2>7, <2>10, <3>1, <3>2, <3>3, <3>4, <3>5 DEF Reaches
  <2>11. \E es \in SUBSET Environments : Reaches(x, es)'
    <3>1. PICK es \in SUBSET Environments : Reaches(q, es)
          BY <1>2, <1>5 DEF OnCourse
    <3>2. PICK larger : larger = es \cup {t}
          OBVIOUS
    <3> QED BY <1>3, <2>10, <3>1, <3>2
  <2> QED BY <1>1, <1>2, <1>5, <2>2, <2>3, <2>8, <2>9, <2>11, CascadeGoes
<1> QED BY <1>4, <1>5

LEMMA StutterOnCourse ==
  ASSUME Course, UNCHANGED vars
  PROVE  Course'
<1>1. UNCHANGED <<present, parent, config, request>>
      BY DEF vars, rows
<1>2. ASSUME NEW r \in Requests PROVE OnCourse(request[r])'
  <2>1. PICK q : q = request[r]
        OBVIOUS
  <2>2. \A es : Reaches(q, es) => Reaches(q, es)'
        BY <1>1 DEF Reaches, Inherits, Awaits
  <2>3. OnCourse(q)'
        BY <1>1, <2>1, <2>2 DEF Course, OnCourse
  <2> QED BY <1>1, <2>1, <2>3
<1> QED BY <1>1, <1>2 DEF Course, Lone, Running, At

LEMMA NextOnCourse == IInv /\ Course /\ [Next]_vars => Course'
<1> SUFFICES ASSUME IInv, Course, Next PROVE Course'
    BY StutterOnCourse
<1>1. PICK r \in Requests : Accept(r) \/ Step(r)
      BY DEF Next
<1>2. CASE Accept(r)
      BY <1>2, AcceptOnCourse
<1>3. CASE Step(r)
      BY <1>3, OthersOnCourse, UpdateOnCourse, ListOnCourse, ChildOnCourse, ReturnOnCourse,
         FetchOnCourse, StoreOnCourse DEF Step
<1> QED BY <1>1, <1>2, <1>3

-----------------------------------------------------------------------------
Salted == \A e \in Environments : config[e] # None => config[e].salt = e

LEMMA EnsuredSalted ==
  ASSUME Salted, NEW es, config' = Ensured(es)
  PROVE  Salted'
<1>1. \A e \in Environments : config'[e] = IF e \in es /\ config[e] = None THEN Created(e) ELSE config[e]
      BY DEF Ensured
<1> QED BY <1>1, CreatedType DEF Salted

LEMMA WriteSalted ==
  ASSUME Typed, Salted, NEW e \in Environments, NEW new, config' = [config EXCEPT ![e] = new],
         new # None => new.salt = e
  PROVE  Salted'
<1>1. \A d \in Environments : config'[d] = IF d = e THEN new ELSE config[d]
      BY DEF Typed, TypeOK
<1> QED BY <1>1 DEF Salted

LEMMA NextSalted == IInv /\ Salted /\ [Next]_vars => Salted'
<1> SUFFICES ASSUME IInv, Salted, [Next]_vars, config' # config PROVE Salted'
    BY DEF Salted
<1>1. PICK r \in Requests : Accept(r) \/ Step(r)
      BY DEF Next, vars, rows
<1>2. Typed /\ request[r] \in RequestStates /\ Held(request[r])
      BY RequestTyped DEF IInv
<1>3. ASSUME NEW e \in Environments, NEW op, NEW es, NEW local, OnConfig(r, op, e, es, local)
      PROVE  Salted'
      BY <1>3, EnsuredSalted DEF OnConfig
<1>4. CASE Accept(r)
  <2>1. CASE DeleteFlag(r)
        BY <2>1 DEF DeleteFlag, Salted
  <2>2. ASSUME NEW e \in Environments, Delete(r, e) PROVE Salted'
        BY <1>2, <2>2, WriteSalted DEF Delete
  <2>3. ASSUME NEW e \in Environments,
               \/ InheritFromParent(r, e)
               \/ \E v \in Values : SetRules(r, e, v) \/ \E inherited \in BOOLEAN : SetConfig(r, e, v, inherited)
               \/ \E from \in Environments : PromoteConfig(r, from, e)
        PROVE  Salted'
        BY <1>3, <2>3 DEF InheritFromParent, SetRules, SetConfig, PromoteConfig
  <2> QED BY <1>4, <2>1, <2>2, <2>3 DEF Accept, CreateFlag, Create, SetParent, rows
<1>5. CASE Step(r)
  <2>1. CASE Provision(r)
        BY <2>1, EnsuredSalted DEF Provision
  <2>2. CASE Seed(r)
        BY <2>2, EnsuredSalted DEF Seed
  <2>3. CASE Child(r)
        BY <2>3, EnsuredSalted DEF Child
  <2>4. CASE Update(r)
    <3>1. PICK e : e = request[r].env
          OBVIOUS
    <3> DEFINE new == [config[e] EXCEPT !.value = request[r].new.value, !.inherited = request[r].new.inherited]
    <3>2. e \in Environments /\ config[e] # None /\ config[e] \in Configs
          BY <1>2, <2>4, <3>1, ConfigTyped DEF Held, Update, At
    <3>3. config' = [config EXCEPT ![e] = new]
          BY <1>2, <2>4, <3>1, <3>2 DEF Update, Typed, TypeOK
    <3>4. new.salt = e
          BY <3>2 DEF Salted, Configs
    <3> HIDE DEF new
    <3> QED BY <1>2, <3>2, <3>3, <3>4, WriteSalted
  <2>5. CASE Store(r)
    <3>1. PICK e : e = request[r].target
          OBVIOUS
    <3> DEFINE new == [request[r].read EXCEPT !.salt = config[e].salt, !.inherited = ~Doing(r, "promote")]
    <3>2. e \in Environments /\ config[e] # None /\ config[e] \in Configs
          BY <1>2, <2>5, <3>1, ConfigTyped DEF Held, Store, At
    <3>3. config' = [config EXCEPT ![e] = new]
          BY <2>5, <3>1 DEF Store
    <3>4. new.salt = e
          BY <1>2, <3>2 DEF Salted, RequestStates, Configs
    <3> HIDE DEF new
    <3> QED BY <1>2, <3>2, <3>3, <3>4, WriteSalted
  <2>6. CASE Replace(r)
    <3>1. PICK e : e = request[r].env
          OBVIOUS
    <3> DEFINE new == [config[e] EXCEPT !.rules = request[r].new.rules]
    <3>2. e \in Environments /\ config[e] # None /\ config[e] \in Configs
          BY <1>2, <2>6, <3>1, ConfigTyped DEF Held, Replace, At
    <3>3. config' = [config EXCEPT ![e] = new]
          BY <2>6, <3>1 DEF Replace
    <3>4. new.salt = e
          BY <3>2 DEF Salted, Configs
    <3> HIDE DEF new
    <3> QED BY <1>2, <3>2, <3>3, <3>4, WriteSalted
  <2>7. CASE Detach(r)
    <3>1. PICK e : e = request[r].env
          OBVIOUS
    <3> DEFINE new == [config[e] EXCEPT !.inherited = FALSE]
    <3>2. e \in Environments /\ config[e] # None /\ config[e] \in Configs
          BY <1>2, <2>7, <3>1, ConfigTyped DEF Held, Detach, At
    <3>3. config' = [config EXCEPT ![e] = new]
          BY <2>7, <3>1 DEF Detach
    <3>4. new.salt = e
          BY <3>2 DEF Salted, Configs
    <3> HIDE DEF new
    <3> QED BY <1>2, <3>2, <3>3, <3>4, WriteSalted
  <2>8. CASE \/ Insert(r) \/ ListFlags(r) \/ Walk(r) \/ Link(r) \/ ListEnvironments(r) \/ List(r)
             \/ Return(r) \/ Fetch(r) \/ Throw(r) \/ Respond(r)
        BY <2>8 DEF Insert, ListFlags, Walk, Link, ListEnvironments, List, Return, Fetch, Throw,
           Respond, rows
  <2> QED BY <1>5, <2>1, <2>2, <2>3, <2>4, <2>5, <2>6, <2>7, <2>8 DEF Step
<1> QED BY <1>1, <1>4, <1>5

\* flag-service.ts:472: when a change of a configuration ends that no other
\* request ran beside, every environment that inherits from it, directly or
\* through any number of others, has its settings, and its own salt.
THEOREM CascadeReachesEveryFollower == Spec => []CascadeReachesAll
<1>1. Init => Course
  <2> SUFFICES ASSUME Init PROVE Course
      OBVIOUS
  <2>1. \A r \in Requests : request[r] = Idle
        BY DEF Init
  <2> QED BY <2>1, IdleType DEF Course, Lone, OnCourse
<1>4. Init => Salted
  <2> SUFFICES ASSUME Init, NEW e \in Environments, config[e] # None PROVE config[e].salt = e
      BY DEF Salted
  <2>1. config[e] = [Created(e) EXCEPT !.inherited = parent[e] # None]
        BY DEF Init
  <2> QED BY <2>1, CreatedType DEF Configs
<1>2. IInv /\ Course /\ Salted => CascadeReachesAll
  <2> SUFFICES ASSUME IInv, Course, Salted, NEW r \in Requests, At(r, "done"), request[r].alone,
                      NEW d \in Followers(request[r].env)
               PROVE  SameSettings(config[d], config[request[r].env]) /\ config[d].salt = d
      BY DEF CascadeReachesAll
  <2>1. PICK q : q = request[r]
        OBVIOUS
  <2>2. PICK es \in SUBSET Environments : Reaches(q, es)
        BY <2>1 DEF Course, OnCourse, At
  <2>3. q.pc = "done" /\ Len(q.stack) = 0
        BY <2>1, <2>2 DEF At, Reaches
  <2>4. \A c \in present : ~Awaits(q, c)
        BY <2>3 DEF Awaits
  <2>5. es \in SUBSET present /\ q.env \in es
        /\ \A c \in present : Inherits(c, es) => c \in es
        BY <2>2, <2>4 DEF Reaches
  <2>6. d \in es
        BY <2>1, <2>5 DEF Followers, Inherits
  <2> QED BY <2>1, <2>2, <2>6 DEF Reaches, Salted
<1>3. IInv /\ Course /\ [Next]_vars => Course'
      BY NextOnCourse
<1> QED BY <1>1, <1>2, <1>3, <1>4, NextSalted, Invariant, PTL DEF Spec
=============================================================================
