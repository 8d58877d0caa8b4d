-------------------------- MODULE FlagInheritance --------------------------
(* Linked environments and the configuration of a feature flag in each of   *)
(* them: domain/environments/environment-service.ts and                     *)
(* domain/flags/flag-service.ts of one project, behind the API handlers.    *)
(*                                                                          *)
(* Requests run side by side and every query is a step; reads that commute  *)
(* with the next query share its step.  The flags of a project do not touch *)
(* one another, so one flag stands for all.  A name in Environments stands  *)
(* for a row: a deleted one does not come back.  The production environment *)
(* is there from the start.  Nothing keeps a new environment from naming    *)
(* one of another project as its parent; those stay, and are roots there.   *)
EXTENDS Naturals, Sequences, FiniteSets

CONSTANTS
  Environments, Production,
  Foreign,           \* environments of other projects
  Values,            \* what enabled, defaultValue, offValue, rolloutPercentage or rules may be
  Off,               \* what they are at first
  Requests,
  MaxEnvironments,   \* of the plan
  Operations,        \* those that clients use
  MaxRequests,       \* bound: how many requests are made
  MaxDepth,          \* bound: how deep a cascade is followed
  None

\* A flag's configuration in an environment.  salt stands for the random text
\* its percentages are decided with, by the environment it was drawn for.
Configs ==
  [value : Values, rules : Values, salt : Environments \cup {None}, inherited : BOOLEAN]

ASSUME ConstantsAssumption ==
  /\ Production \in Environments /\ None \notin Environments \cup Configs
  /\ Foreign \subseteq Environments \ {Production}
  /\ IsFiniteSet(Environments) /\ IsFiniteSet(Requests)
  /\ Off \in Values
  /\ MaxEnvironments \in Nat \ {0} /\ MaxRequests \in Nat /\ MaxDepth \in Nat

VARIABLES
  present,     \* the environments that exist
  deleted,     \* those that did
  parent,      \* environment -> the one it is linked to, or None
  flag,        \* absent, present or deleted
  config,      \* environment -> the flag's configuration there, or None
  request,     \* request -> its local state
  (* history, never read by the code's own steps *)
  made,             \* how many requests were made
  broken,           \* environments left without a configuration by a request that threw
  movesOverlapped,  \* two changes of parents have run at once
  createsOverlapped, \* two creations have
  overLimit         \* an environment was added to as many as the plan allows, or more

rows == <<present, deleted, parent, flag, config>>
history == <<made, broken, movesOverlapped, createsOverlapped, overLimit>>
vars == <<rows, request, history>>

-----------------------------------------------------------------------------
Default == [value |-> Off, rules |-> Off, salt |-> None, inherited |-> FALSE]
Maybe(set) == set \cup {None}

(* A request's local state: env is the environment it names, other the one  *)
(* it names besides or walks at; todo what a loop has left, or has visited; *)
(* stack the calls of cascadeInherited; copyConfig copies read from source  *)
(* to target.  alone: it is a setConfig no other request has run beside.    *)
RequestStates ==
  [op : {"none", "create", "setParent", "delete", "createFlag", "deleteFlag", "setConfig",
         "setRules", "promote", "inherit"},
   pc : {"idle", "insert", "listFlags", "provision", "walk", "link", "listEnvironments", "seed",
         "update", "replace", "detach", "list", "child", "fetch", "store", "done"},
   env : Maybe(Environments), other : Maybe(Environments), todo : SUBSET Environments,
   new : Configs, stack : Seq([env : Environments, todo : SUBSET Environments]),
   source : Maybe(Environments), target : Maybe(Environments), read : Configs, alone : BOOLEAN]

Idle ==
  [op |-> "none", pc |-> "idle", env |-> None, other |-> None, todo |-> {}, new |-> Default,
   stack |-> <<>>, source |-> None, target |-> None, read |-> Default, alone |-> FALSE]

At(r, pc) == request[r].pc = pc
Running(r) == ~At(r, "idle")
Doing(r, op) == request[r].op = op
Children(e) == {c \in present : parent[c] = e}
Existing == present \cup Foreign

\* ensureConfig, of several: a row that is missing is created, with a salt of
\* its own; whoever loses the race to create it gets the winner's.
Created(e) == [Default EXCEPT !.salt = e]
Ensured(es) ==
  [e \in Environments |-> IF e \in es /\ config[e] = None THEN Created(e) ELSE config[e]]

\* A request begins, and its first queries run.
Begin(r, op, local) ==
  /\ op \in Operations /\ At(r, "idle") /\ made < MaxRequests
  /\ made' = made + 1
  /\ request' = [q \in Requests |->
                   IF q # r THEN [request[q] EXCEPT !.alone = FALSE]
                   ELSE IF local = Idle THEN Idle
                   ELSE [local EXCEPT !.op = op,
                                      !.alone = op = "setConfig" /\ \A p \in Requests : ~Running(p)]]
  /\ movesOverlapped' = (movesOverlapped \/ (op = "setParent" /\ \E q \in Requests : Doing(q, op)))
  /\ createsOverlapped' = (createsOverlapped \/ (op = "create" /\ \E q \in Requests : Doing(q, op)))
  /\ UNCHANGED <<broken, overLimit>>

Go(r, local) == request' = [request EXCEPT ![r] = local] /\ UNCHANGED history

\* A cascade that no other request ran beside is looked at before it is over.
Finished(r) ==
  IF request[r].alone
  THEN [Idle EXCEPT !.op = "setConfig", !.pc = "done", !.env = request[r].env, !.alone = TRUE]
  ELSE Idle

-----------------------------------------------------------------------------
(* Environments *)

\* Mutated form: one environment more than the plan has passes.
BelowLimitOrAt == Cardinality(present) <= MaxEnvironments

BelowLimit == Cardinality(present) < MaxEnvironments

\* POST: the limit and the slug are checked on a list; the parent is not.
Create(r, e, p) ==
  /\ e \notin Existing \cup deleted /\ p \in Maybe(Existing \cup deleted)
  /\ BelowLimit
  /\ Begin(r, "create", [Idle EXCEPT !.pc = "insert", !.env = e, !.other = p])
  /\ UNCHANGED rows

\* createEnvironment: whoever loses the race for a slug goes on with the
\* winner's environment.
Insert(r) ==
  LET e == request[r].env
  IN  /\ At(r, "insert") /\ request[r].other \in Maybe(Existing) /\ e \notin deleted
      /\ present' = present \cup {e}
      /\ parent' = IF e \in present THEN parent ELSE [parent EXCEPT ![e] = request[r].other]
      /\ request' = [request EXCEPT ![r].pc = "listFlags"]
      /\ overLimit' = (overLimit \/ (e \notin present /\ Cardinality(present) >= MaxEnvironments))
      /\ UNCHANGED <<deleted, flag, config, made, broken, movesOverlapped, createsOverlapped>>

\* Mutated form: only an environment that is linked is provisioned.
ListFlagsLinked(r) ==
  /\ At(r, "listFlags")
  /\ Go(r, IF flag = "present" /\ parent[request[r].env] # None
           THEN [request[r] EXCEPT !.pc = "provision"] ELSE Finished(r))
  /\ UNCHANGED rows

\* provisionEnvironment
ListFlags(r) ==
  /\ At(r, "listFlags")
  /\ Go(r, IF flag = "present" THEN [request[r] EXCEPT !.pc = "provision"] ELSE Finished(r))
  /\ UNCHANGED rows

Provision(r) ==
  LET e == request[r].env
  IN  /\ At(r, "provision") /\ e \in present /\ flag = "present"
      /\ config' = Ensured({e, parent[e]})
      /\ Go(r, IF parent[e] = None THEN Finished(r)
               ELSE [request[r] EXCEPT !.pc = "fetch", !.source = parent[e], !.target = e])
      /\ UNCHANGED <<present, deleted, parent, flag>>

\* Mutated form: the walk does not know where it came from.
VisitedNone(e) == {}

\* assertNoCycle starts with the environment that is to be moved.
VisitedFirst(e) == {e}

\* PATCH with a parent, or with null.
SetParent(r, e, p) ==
  /\ e \in present /\ p \in Maybe(present) \ {e}
  /\ Begin(r, "setParent",
       [Idle EXCEPT !.pc = IF p = None THEN "link" ELSE "walk", !.env = e, !.new = Default,
                    !.source = p, !.other = p, !.todo = VisitedFirst(e)])
  /\ UNCHANGED rows

\* One link of the walk; it throws at an environment it has visited.
Walk(r) ==
  LET at == request[r].other
      next == IF at \in present THEN parent[at] ELSE None
  IN  /\ At(r, "walk")
      /\ Go(r, IF at \in request[r].todo THEN Idle
               ELSE IF next = None
               THEN [request[r] EXCEPT !.pc = "link", !.other = None, !.todo = {}]
               ELSE [request[r] EXCEPT !.other = next, !.todo = @ \cup {at}])
      /\ UNCHANGED rows

Link(r) ==
  LET e == request[r].env
  IN  /\ At(r, "link") /\ e \in present /\ request[r].source \in Maybe(present)
      /\ parent' = [parent EXCEPT ![e] = request[r].source]
      /\ Go(r, Finished(r))
      /\ UNCHANGED <<present, deleted, flag, config>>

\* Mutated form: the children keep their parent.
DeleteUnlinked(r, e) ==
  /\ e \in present \ {Production}
  /\ present' = present \ {e}
  /\ deleted' = deleted \cup {e}
  /\ config' = [config EXCEPT ![e] = None]
  /\ Begin(r, "delete", Idle)
  /\ UNCHANGED <<parent, flag>>

\* DELETE: the configurations go with it, the children lose their parent.
Delete(r, e) ==
  /\ e \in present \ {Production}
  /\ present' = present \ {e}
  /\ deleted' = deleted \cup {e}
  /\ parent' = [c \in Environments |-> IF e \in {c, parent[c]} THEN None ELSE parent[c]]
  /\ config' = [config EXCEPT ![e] = None]
  /\ Begin(r, "delete", Idle)
  /\ UNCHANGED flag

-----------------------------------------------------------------------------
(* Flags *)

CreateFlag(r) ==
  /\ flag = "absent"
  /\ flag' = "present"
  /\ Begin(r, "createFlag", [Idle EXCEPT !.pc = "listEnvironments"])
  /\ UNCHANGED <<present, deleted, parent, config>>

ListEnvironments(r) ==
  /\ At(r, "listEnvironments")
  /\ Go(r, [request[r] EXCEPT !.pc = "seed", !.todo = present])
  /\ UNCHANGED rows

Seed(r) ==
  /\ At(r, "seed")
  /\ \/ /\ request[r].todo = {}
        /\ Go(r, Finished(r))
        /\ UNCHANGED config
     \/ \E e \in request[r].todo \cap present :
          /\ flag = "present"
          /\ config' = Ensured({e})
          /\ Go(r, [request[r] EXCEPT !.todo = @ \ {e}])
  /\ UNCHANGED <<present, deleted, parent, flag>>

DeleteFlag(r) ==
  /\ flag = "present"
  /\ flag' = "deleted"
  /\ config' = [e \in Environments |-> None]
  /\ Begin(r, "deleteFlag", Idle)
  /\ UNCHANGED <<present, deleted, parent>>

\* The flag and the environment are read, and its configuration ensured.
OnConfig(r, op, e, es, local) ==
  /\ flag = "present" /\ e \in present
  /\ config' = Ensured({e} \cup es)
  /\ Begin(r, op, [local EXCEPT !.env = e])
  /\ UNCHANGED <<present, deleted, parent, flag>>

SetConfig(r, e, v, inherited) ==
  OnConfig(r, "setConfig", e, {},
    [Idle EXCEPT !.pc = "update", !.new = [Default EXCEPT !.value = v, !.inherited = inherited]])

\* updateConfig; cascadeInherited is called.
Update(r) ==
  LET e == request[r].env
      new == request[r].new
  IN  /\ At(r, "update") /\ config[e] # None
      /\ config' = [config EXCEPT ![e].value = new.value, ![e].inherited = new.inherited]
      /\ Go(r, [request[r] EXCEPT !.pc = "list", !.new = Default,
                                  !.stack = <<[env |-> e, todo |-> {}]>>])
      /\ UNCHANGED <<present, deleted, parent, flag>>

Top(r) == request[r].stack[Len(request[r].stack)]
WithTop(r, todo) == [request[r].stack EXCEPT ![Len(request[r].stack)].todo = todo]

\* cascadeInherited lists the environments ...
List(r) ==
  /\ At(r, "list") /\ Len(request[r].stack) <= MaxDepth
  /\ Go(r, [request[r] EXCEPT !.pc = "child", !.stack = WithTop(r, Children(Top(r).env))])
  /\ UNCHANGED rows

\* ... and ensures the configuration of each child; one that is inherited is
\* to be replaced by a copy of its parent's.
Child(r) ==
  /\ At(r, "child") /\ flag = "present"
  /\ \E c \in Top(r).todo \cap present :
       /\ config' = Ensured({c})
       /\ Go(r, LET local == [request[r] EXCEPT !.stack = WithTop(r, Top(r).todo \ {c})]
                IN  IF config'[c].inherited
                    THEN [local EXCEPT !.pc = "fetch", !.source = Top(r).env, !.target = c]
                    ELSE local)
  /\ UNCHANGED <<present, deleted, parent, flag>>

\* It returns to its caller.
Return(r) ==
  /\ At(r, "child") /\ Top(r).todo = {}
  /\ Go(r, IF Len(request[r].stack) = 1 THEN Finished(r)
           ELSE [request[r] EXCEPT !.stack = SubSeq(@, 1, Len(@) - 1)])
  /\ UNCHANGED rows

\* copyConfig reads its source before its transaction ...
Fetch(r) ==
  /\ At(r, "fetch") /\ config[request[r].source] # None
  /\ Go(r, [request[r] EXCEPT !.pc = "store", !.read = config[request[r].source]])
  /\ UNCHANGED rows

\* Mutated form: the children of a child are not cascaded to.
StoredShallow(r) ==
  [request[r] EXCEPT !.pc = "child", !.source = None, !.target = None, !.read = Default]

\* What follows a copy: the cascade goes on below the child.
Stored(r) ==
  [request[r] EXCEPT !.pc = "list", !.source = None, !.target = None, !.read = Default,
                     !.stack = Append(@, [env |-> request[r].target, todo |-> {}])]

\* ... which writes the target, but not its salt.  A promoted one is an
\* override.
Store(r) ==
  LET target == request[r].target
  IN  /\ At(r, "store") /\ config[target] # None
      /\ config' = [config EXCEPT ![target] =
                      [request[r].read EXCEPT !.salt = config[target].salt,
                                              !.inherited = ~Doing(r, "promote")]]
      /\ Go(r, IF Doing(r, "setConfig") THEN Stored(r) ELSE Finished(r))
      /\ UNCHANGED <<present, deleted, parent, flag>>

SetRules(r, e, v) ==
  OnConfig(r, "setRules", e, {},
    [Idle EXCEPT !.pc = "replace",
                 !.new = [Default EXCEPT !.rules = v, !.inherited = Ensured({e})[e].inherited]])

\* replaceRules; what was inherited when it was read becomes an override by
\* another query.
Replace(r) ==
  LET e == request[r].env
  IN  /\ At(r, "replace") /\ config[e] # None
      /\ config' = [config EXCEPT ![e].rules = request[r].new.rules]
      /\ Go(r, IF request[r].new.inherited THEN [request[r] EXCEPT !.pc = "detach"] ELSE Finished(r))
      /\ UNCHANGED <<present, deleted, parent, flag>>

Detach(r) ==
  LET e == request[r].env
  IN  /\ At(r, "detach") /\ config[e] # None
      /\ config' = [config EXCEPT ![e].inherited = FALSE]
      /\ Go(r, Finished(r))
      /\ UNCHANGED <<present, deleted, parent, flag>>

PromoteConfig(r, from, e) ==
  /\ from \in present
  /\ OnConfig(r, "promote", e, {from},
       [Idle EXCEPT !.pc = "fetch", !.source = from, !.target = e])

InheritFromParent(r, e) ==
  /\ parent[e] # None
  /\ OnConfig(r, "inherit", e, {parent[e]},
       [Idle EXCEPT !.pc = "fetch", !.source = parent[e], !.target = e])

-----------------------------------------------------------------------------
(* A row that a query needs is gone, and the request throws. *)
Gone(r) ==
  LET q == request[r]
  IN  \/ q.pc = "insert" /\ (q.other \notin Maybe(Existing) \/ q.env \in deleted)
      \/ q.pc = "provision" /\ (q.env \notin present \/ flag # "present")
      \/ q.pc = "link" /\ (q.env \notin present \/ q.source \notin Maybe(present))
      \/ q.pc = "seed" /\ q.todo # {} /\ (flag # "present" \/ ~(q.todo \subseteq present))
      \/ q.pc \in {"update", "replace", "detach"} /\ config[q.env] = None
      \/ q.pc = "child" /\ Top(r).todo # {} /\ (flag # "present" \/ ~(Top(r).todo \subseteq present))
      \/ q.pc = "fetch" /\ config[q.source] = None
      \/ q.pc = "store" /\ config[q.target] = None

Throw(r) ==
  /\ Gone(r)
  /\ request' = [request EXCEPT ![r] = Idle]
  /\ broken' = IF At(r, "provision") THEN broken \cup {request[r].env}
               ELSE IF Doing(r, "createFlag") THEN broken \cup request[r].todo
               ELSE broken
  /\ UNCHANGED <<rows, made, movesOverlapped, createsOverlapped, overLimit>>

Respond(r) ==
  /\ At(r, "done")
  /\ Go(r, Idle)
  /\ UNCHANGED rows

\* There may be more environments than the plan allows, which may have been a
\* larger one.  None has a parent in another project yet.
Init ==
  /\ present \in {es \in SUBSET (Environments \ Foreign) : Production \in es}
  /\ deleted = {}
  /\ parent \in [Environments -> Maybe(Environments)]
  /\ \A e \in Environments : parent[e] \in Maybe(IF e \in present THEN present ELSE {})
  /\ \A es \in (SUBSET present) \ {{}} : \E e \in es : parent[e] \notin es
  /\ flag \in {"absent", "present"}
  /\ config = [e \in Environments |->
                 IF e \in present /\ flag = "present"
                 THEN [Created(e) EXCEPT !.inherited = parent[e] # None] ELSE None]
  /\ request = [r \in Requests |-> Idle]
  /\ made = 0 /\ broken = {} /\ movesOverlapped = FALSE /\ createsOverlapped = FALSE
  /\ overLimit = FALSE

Accept(r) ==
  \/ CreateFlag(r) \/ DeleteFlag(r)
  \/ \E e \in Environments :
       \/ Delete(r, e) \/ InheritFromParent(r, e)
       \/ \E p \in Maybe(Environments) : Create(r, e, p) \/ SetParent(r, e, p)
       \/ \E v \in Values : SetRules(r, e, v) \/ \E inherited \in BOOLEAN : SetConfig(r, e, v, inherited)
       \/ \E from \in Environments : PromoteConfig(r, from, e)

Step(r) ==
  \/ Insert(r) \/ ListFlags(r) \/ Provision(r) \/ Walk(r) \/ Link(r)
  \/ ListEnvironments(r) \/ Seed(r)
  \/ Update(r) \/ List(r) \/ Child(r) \/ Return(r) \/ Fetch(r) \/ Store(r) \/ Replace(r) \/ Detach(r)
  \/ Throw(r) \/ Respond(r)

Next == \E r \in Requests : Accept(r) \/ Step(r)

Spec == Init /\ [][Next]_vars

-----------------------------------------------------------------------------
(* Properties *)

\* Every variable has its type, and rows refer to rows that exist.
TypeOK ==
  /\ present \subseteq Environments /\ deleted \subseteq Environments
  /\ Production \in present /\ present \cap deleted = {}
  /\ Foreign \cap (present \cup deleted) = {}
  /\ parent \in [Environments -> Maybe(Existing)]
  /\ flag \in {"absent", "present", "deleted"}
  /\ config \in [Environments -> Maybe(Configs)]
  /\ \A e \in Environments : config[e] # None => e \in Existing /\ flag = "present"
  /\ request \in [Requests -> RequestStates]
  /\ made \in Nat /\ broken \subseteq Environments
  /\ movesOverlapped \in BOOLEAN /\ createsOverlapped \in BOOLEAN /\ overLimit \in BOOLEAN

NoCycle == \A es \in (SUBSET present) \ {{}} : \E e \in es : parent[e] \notin es

\* environment-service.ts:193: as long as no two requests change parents at
\* once, parent links form no cycle, whatever is created and deleted meanwhile.
AcyclicUnlessRaced == movesOverlapped \/ NoCycle

\* environments.ts:51: an environment is added to as many as the plan allows
\* only when two are created at once.
WithinLimit == overLimit => createsOverlapped

\* flag-service.ts:123, "so the flag shows up consistently everywhere": a flag
\* that exists has a configuration in every environment that exists, or one is
\* on its way - also when the two are created at once - unless a request threw.
ConfiguredEverywhere ==
  flag = "present" =>
    \A e \in present :
      \/ config[e] # None
      \/ e \in broken
      \/ \E r \in Requests :
           \/ request[r].env = e /\ request[r].pc \in {"listFlags", "provision"}
           \/ At(r, "listEnvironments")
           \/ At(r, "seed") /\ e \in request[r].todo

\* Those that inherit from e, directly or through others that do.
Followers(e) ==
  {d \in present : \A es \in SUBSET present :
     e \in es /\ (\A c \in present : config[c] # None /\ config[c].inherited /\ parent[c] \in es => c \in es)
       => d \in es}

SameSettings(c, d) == c.value = d.value /\ c.rules = d.rules

\* flag-service.ts:472 and :545: a change of a configuration that no other
\* request runs beside leaves every environment that inherits from it, at any
\* depth, with the same settings; and each with its own salt, so that the
\* change does not reshuffle its users.  It says nothing of a user's answers:
\* a percentage decides by the salt, for each environment on its own.
CascadeReachesAll ==
  \A r \in Requests :
    At(r, "done") /\ Doing(r, "setConfig") /\ request[r].alone =>
      \A d \in Followers(request[r].env) :
        SameSettings(config[d], config[request[r].env]) /\ config[d].salt = d
=============================================================================
