------------------------- MODULE ResourceManagement -------------------------
(***************************************************************************)
(* The objects the controller writes and deletes                           *)
(* (internal/rules/resource_management.go), in which namespaces            *)
(* (namespace_discovery.go and the engine's cache of the target            *)
(* namespaces), and in which order (stages/execution.go).                  *)
(*                                                                         *)
(* Staging has the goroutines, finalizers and accounts of others; here     *)
(* one batch runs at a time and a batch that fails is tried again          *)
(* (Orchestrator, Staging), while users change WSAs, Kubernetes deletes    *)
(* what a deleted WSA owned and agents and namespaces come and go.  Each   *)
(* operation of the execution is one step, in which some of its calls may  *)
(* fail.  Lists show the cluster as it is: the informer cache may be       *)
(* behind, and the batches that the collections' own deletions ask for are *)
(* left out (Staging has them).                                            *)
(*                                                                         *)
(* A name is the sequence of its parts between hyphens, so that joining    *)
(* two names with a hyphen is concatenation and forgets where it was; the  *)
(* hashes taken of such strings are modelled as injective.                 *)
(***************************************************************************)
EXTENDS Sequences, FiniteSets, Naturals

CONSTANTS
    Resource,       \* WSAs and CWSAs: records [ns, name], ns = "" for a CWSA
    SpecChoice,     \* specs: records [permissions, roles, clusterRoles, accounts]
    Namespace,      \* namespaces that may hold an agent
    Matching,       \* those TARGET_NAMESPACE_REGEX matches
    NoPermissions,  \* the empty list of inline permissions
    MaxWrites,      \* bound: writes of users
    MaxMoves,       \* bound: changes of agents and namespaces
    MaxFaults       \* bound: operations with failing calls

ASSUME ResourceAssumption ==
    /\ Matching \subseteq Namespace
    /\ "" \notin Namespace
    /\ MaxWrites \in Nat /\ MaxMoves \in Nat /\ MaxFaults \in Nat
    /\ \A s \in SpecChoice : s.accounts # {}

\* Parts of names are strings, but for the hash of a role's permissions.
ASSUME NameAssumption ==
    /\ Resource \subseteq [ns : STRING, name : Seq(STRING)]
    /\ \A s \in SpecChoice : s.roles \cup s.clusterRoles \subseteq Seq(STRING)

VARIABLES
    specs,              \* API server: the WSAs without a deletion timestamp
    namespaces,         \* API server: the namespaces in Namespace that exist
    agents,             \* API server: namespaces with an agent's Deployment
    serviceAccounts,    \* managed accounts: <<namespace, name>>
    roles,              \* managed Roles and ClusterRoles (ns = "") by key: their owner
    bindings,           \* managed bindings by key: their roleRef, subjects and owner
    namespaceCache,     \* InMemoryEngine.namespaceCache: valid, list
    pending,            \* an event or a failed batch waits
    batch,              \* the batch being processed: pc, plan, targets
    applied,            \* ghost: plan and targets of the last batch that succeeded
    counts              \* writes, moves and faults so far

cluster     == <<serviceAccounts, roles, bindings>>
environment == <<specs, namespaces, agents>>
vars == <<environment, cluster, namespaceCache, pending, batch, applied, counts>>

NoPlan == [r \in {} |-> {}]
Idle == [pc |-> "idle", plan |-> NoPlan, targets |-> {}]

Put(f, x, v) == [y \in (DOMAIN f) \cup {x} |-> IF y = x THEN v ELSE f[y]]
Only(f, S) == [y \in (DOMAIN f) \cap S |-> f[y]]

-----------------------------------------------------------------------------
\* WSAResource.
IsClusterScoped(r) == r.ns = ""
GetRoles(plan, r) == IF IsClusterScoped(r) THEN {} ELSE plan[r].roles

\* The names of the objects that are generated.
roleName(permissions) == <<"octopus-role", permissions>>
clusterRoleName(permissions) == <<"octopus-clusterrole", permissions>>
roleBindingName(resourceName, roleRefName) == <<"octopus-rb">> \o resourceName \o roleRefName
clusterRoleBindingName(resourceName, roleRefName) ==
    <<"octopus-crb">> \o resourceName \o roleRefName

HasPermissions(plan, r) == plan[r].permissions # NoPermissions
InlineRole(plan, r) ==
    IF IsClusterScoped(r) THEN clusterRoleName(plan[r].permissions)
                          ELSE roleName(plan[r].permissions)
InlineNames(plan, r) == IF HasPermissions(plan, r) THEN {InlineRole(plan, r)} ELSE {}

Accounts(plan) == UNION {plan[r].accounts : r \in DOMAIN plan}

\* createRoleIfNeeded, createClusterRoleIfNeeded: what they apply for a plan,
\* with the resource as the owner (ownerReferenceAC).
RolesFor(plan, r) ==
    {[key |-> [ns |-> r.ns, name |-> n], owner |-> r] : n \in InlineNames(plan, r)}

PlannedRoles(plan) == UNION {RolesFor(plan, r) : r \in DOMAIN plan}

\* createRoleBindingsForResource: the roles a resource is bound to.
RoleRefs(plan, r) ==
    {[kind |-> "Role", name |-> n] : n \in GetRoles(plan, r)}
    \cup {[kind |-> "ClusterRole", name |-> n] : n \in plan[r].clusterRoles}
    \cup {[kind |-> IF IsClusterScoped(r) THEN "ClusterRole" ELSE "Role", name |-> n] :
             n \in InlineNames(plan, r)}

\* createRoleBinding, createClusterRoleBinding: the object they apply, with
\* every account of the resource in every target namespace as a subject and
\* the resource as the owner.
BindingKey(r, roleRefName) ==
    [ns |-> r.ns, name |-> IF IsClusterScoped(r) THEN clusterRoleBindingName(r.name, roleRefName)
                                                 ELSE roleBindingName(r.name, roleRefName)]

BindingsFor(plan, targets, r) ==
    {[key |-> BindingKey(r, ref.name), roleRef |-> ref,
      subjects |-> targets \X plan[r].accounts, owner |-> r] : ref \in RoleRefs(plan, r)}

PlannedBindings(plan, targets) == UNION {BindingsFor(plan, targets, r) : r \in DOMAIN plan}

-----------------------------------------------------------------------------
\* What the garbage collection keeps.
\* A bug: accounts are kept by name, wherever they are.
Mut_shouldDeleteServiceAccount(sa, plan, targets) == sa[2] \notin Accounts(plan)

shouldDeleteServiceAccount(sa, plan, targets) ==
    sa[1] \notin targets \/ sa[2] \notin Accounts(plan)

\* GarbageCollectRoles: by name, in whatever namespace the role is.
ExpectedRoleNames(plan) == UNION {InlineNames(plan, r) : r \in DOMAIN plan}

\* GarbageCollectRoleBindings: by namespace and name.
\* A bug: the bindings of ClusterRoles a namespaced WSA refers to are missing.
Mut_KeptKeys(plan, r) ==
    {BindingKey(r, n) : n \in GetRoles(plan, r) \cup InlineNames(plan, r)}

KeptKeys(plan, r) ==
    {BindingKey(r, n) :
        n \in GetRoles(plan, r) \cup plan[r].clusterRoles \cup InlineNames(plan, r)}

ExpectedRoleBindings(plan) ==
    UNION {KeptKeys(plan, r) : r \in {x \in DOMAIN plan : ~IsClusterScoped(x)}}

\* GarbageCollectClusterRoleBindings: by name, and the names that namespaced
\* WSAs would give a ClusterRoleBinding count as well.
KeptClusterNames(plan, r) ==
    {clusterRoleBindingName(r.name, n) : n \in plan[r].clusterRoles \cup InlineNames(plan, r)}

ExpectedClusterRoleBindings(plan) == UNION {KeptClusterNames(plan, r) : r \in DOMAIN plan}

-----------------------------------------------------------------------------
Init ==
    /\ specs = NoPlan
    /\ namespaces = Namespace
    /\ agents \in SUBSET Namespace
    /\ serviceAccounts = {} /\ roles = NoPlan /\ bindings = NoPlan
    /\ namespaceCache = [valid |-> FALSE, list |-> {}]
    /\ pending = FALSE
    /\ batch = Idle
    /\ applied = [plan |-> NoPlan, targets |-> {}]
    /\ counts = [writes |-> 0, moves |-> 0, faults |-> 0]

Count(what, max) ==
    /\ counts[what] < max
    /\ counts' = [counts EXCEPT ![what] = @ + 1]

\* Users write WSAs; the change becomes an event.
WriteWSA(r, spec) ==
    /\ Count("writes", MaxWrites)
    /\ r \in DOMAIN specs => specs[r] # spec
    /\ specs' = Put(specs, r, spec)
    /\ pending' = TRUE
    /\ UNCHANGED <<namespaces, agents, cluster, namespaceCache, batch, applied>>

DeleteWSA(r) ==
    /\ Count("writes", MaxWrites)
    /\ r \in DOMAIN specs
    /\ specs' = Only(specs, Resource \ {r})
    /\ pending' = TRUE
    /\ UNCHANGED <<namespaces, agents, cluster, namespaceCache, batch, applied>>

\* Kubernetes deletes roles and bindings whose owner is gone.  Their deletion
\* stands for the owner and so for no event.  A WSA created again under its
\* name passes for the owner its predecessor was; the batch that its creation
\* asks for applies its objects anew.
KubernetesGC ==
    /\ \/ \E k \in DOMAIN roles :
            /\ roles[k] \notin DOMAIN specs
            /\ roles' = Only(roles, (DOMAIN roles) \ {k})
            /\ UNCHANGED bindings
       \/ \E k \in DOMAIN bindings :
            /\ bindings[k].owner \notin DOMAIN specs
            /\ bindings' = Only(bindings, (DOMAIN bindings) \ {k})
            /\ UNCHANGED roles
    /\ UNCHANGED <<environment, serviceAccounts, namespaceCache, pending, batch, applied, counts>>

\* Agents come and go; nothing watches Deployments.
InstallAgent(n) ==
    /\ Count("moves", MaxMoves)
    /\ n \in namespaces \ agents
    /\ agents' = agents \cup {n}
    /\ UNCHANGED <<specs, namespaces, cluster, namespaceCache, pending, batch, applied>>

RemoveAgent(n) ==
    /\ Count("moves", MaxMoves)
    /\ n \in agents
    /\ agents' = agents \ {n}
    /\ UNCHANGED <<specs, namespaces, cluster, namespaceCache, pending, batch, applied>>

\* A namespace goes with what is in it.  The deletion of a managed account is
\* an event of every WSA (MapServiceAccountToResources).
DeleteNamespace(n) ==
    /\ Count("moves", MaxMoves)
    /\ n \in namespaces
    /\ namespaces' = namespaces \ {n}
    /\ agents' = agents \ {n}
    /\ serviceAccounts' = {sa \in serviceAccounts : sa[1] # n}
    /\ pending' = (pending \/ (serviceAccounts' # serviceAccounts /\ specs # NoPlan))
    /\ UNCHANGED <<specs, roles, bindings, namespaceCache, batch, applied>>


\* The entry of the expirable LRU has reached its TTL.
ExpireNamespaceCache ==
    /\ namespaceCache.valid
    /\ namespaceCache' = [valid |-> FALSE, list |-> {}]
    /\ UNCHANGED <<environment, cluster, pending, batch, applied, counts>>

-----------------------------------------------------------------------------
\* A bug: the regular expression is not looked at.
Mut_Discovered == agents

\* DiscoverTargetNamespaces.
Discovered == agents \cap Matching

\* GetOrDiscoverTargetNamespaces: from the cache, else discovered and cached.
\* A list that fails is logged and counts as no namespace, which is cached.
GetOrDiscoverTargetNamespaces(targets) ==
    IF namespaceCache.valid
    THEN targets = namespaceCache.list /\ UNCHANGED <<namespaceCache, counts>>
    ELSE /\ \/ targets = Discovered /\ UNCHANGED counts
            \/ targets = {} /\ Count("faults", MaxFaults)
         /\ namespaceCache' = [valid |-> TRUE, list |-> targets]

\* PlanningStage.Execute: all resources, whatever the batch is about.
Planning ==
    /\ batch = Idle
    /\ pending
    /\ pending' = FALSE
    /\ \E targets \in SUBSET Namespace :
          /\ GetOrDiscoverTargetNamespaces(targets)
          /\ batch' = [pc |-> "validation", plan |-> specs, targets |-> targets]
    /\ UNCHANGED <<environment, cluster, applied>>

\* The batch fails and will be tried again.
FailBatch == batch' = Idle /\ pending' = TRUE
GoTo(op) == batch' = [batch EXCEPT !.pc = op] /\ UNCHANGED pending

\* checkNamespaceExistence, and the check of ExecutionStage.Execute that there
\* is a target at all, which also stands before the garbage collection.
Validation ==
    /\ batch.pc = "validation"
    /\ IF batch.targets \subseteq namespaces /\ batch.targets # {}
       THEN GoTo(IF batch.plan = NoPlan THEN "GarbageCollectServiceAccounts" ELSE "EnsureRoles")
       ELSE FailBatch
    /\ UNCHANGED <<environment, cluster, namespaceCache, applied, counts>>

\* An operation makes a set of calls; done are those that succeed.  It goes on
\* after a call that fails and reports the errors together.
Operation(op, calls, done, next) ==
    /\ batch.pc = op
    /\ done \subseteq calls
    /\ IF done = calls THEN GoTo(next) ELSE FailBatch
    /\ UNCHANGED <<environment, namespaceCache, applied>>

\* Calls fail because the API server refuses them, or because of a fault.
Faultless(calls, refused, done) ==
    IF done = calls \ refused THEN UNCHANGED counts ELSE Count("faults", MaxFaults)

\* Server-side apply by one field manager: of several resources that apply a
\* role, the last one, whichever it is, becomes its owner.
ApplyRoles(done) ==
    \E last \in SUBSET done :
        /\ \A c \in done : \E d \in last : d.key = c.key
        /\ \A c, d \in last : c.key = d.key => c = d
        /\ roles' = [k \in (DOMAIN roles) \cup {c.key : c \in last} |->
                        IF \E c \in last : c.key = k
                        THEN (CHOOSE c \in last : c.key = k).owner
                        ELSE roles[k]]

EnsureRoles ==
    LET calls == PlannedRoles(batch.plan)
    IN  \E done \in SUBSET calls :
            /\ Operation("EnsureRoles", calls, done, "EnsureServiceAccounts")
            /\ Faultless(calls, {}, done)
            /\ ApplyRoles(done)
            /\ UNCHANGED <<serviceAccounts, bindings>>

\* A namespace may have gone since the validation.
EnsureServiceAccounts ==
    LET calls == batch.targets \X Accounts(batch.plan)
        refused == {c \in calls : c[1] \notin namespaces}
    IN  \E done \in SUBSET (calls \ refused) :
            /\ Operation("EnsureServiceAccounts", calls, done, "EnsureRoleBindings")
            /\ Faultless(calls, refused, done)
            /\ serviceAccounts' = serviceAccounts \cup done
            /\ UNCHANGED <<roles, bindings>>

\* The roleRef of a binding cannot be changed: an apply with another one is
\* refused, be the other from an earlier plan or from this one.
RefusedBy(existing, calls) ==
    {c \in calls : \E e \in existing : e.key = c.key /\ e.roleRef # c.roleRef}

ExistingRefs == {[key |-> k, roleRef |-> bindings[k].roleRef] : k \in DOMAIN bindings}

ApplyBindings(done) ==
    [k \in (DOMAIN bindings) \cup {c.key : c \in done} |->
        IF \E c \in done : c.key = k
        THEN LET c == CHOOSE c \in done : c.key = k
             IN  [roleRef |-> c.roleRef, subjects |-> c.subjects, owner |-> c.owner]
        ELSE bindings[k]]

EnsureRoleBindings ==
    LET calls == PlannedBindings(batch.plan, batch.targets)
    IN  \E done \in SUBSET (calls \ RefusedBy(ExistingRefs, calls)) :
            /\ RefusedBy(done, done) = {}
            /\ Operation("EnsureRoleBindings", calls, done, "GarbageCollectServiceAccounts")
            /\ Faultless(calls, RefusedBy(ExistingRefs \cup done, calls), done)
            /\ bindings' = ApplyBindings(done)
            /\ UNCHANGED <<serviceAccounts, roles>>

-----------------------------------------------------------------------------
\* Garbage collection: list the managed objects, delete what is not expected.
GarbageCollectServiceAccounts ==
    LET calls == {sa \in serviceAccounts :
                     shouldDeleteServiceAccount(sa, batch.plan, batch.targets)}
    IN  \E done \in SUBSET calls :
            /\ Operation("GarbageCollectServiceAccounts", calls, done, "GarbageCollectRoles")
            /\ Faultless(calls, {}, done)
            /\ serviceAccounts' = serviceAccounts \ done
            /\ UNCHANGED <<roles, bindings>>

GarbageCollectRoles ==
    LET calls == {k \in DOMAIN roles :
                     k.ns # "" /\ k.name \notin ExpectedRoleNames(batch.plan)}
    IN  \E done \in SUBSET calls :
            /\ Operation("GarbageCollectRoles", calls, done, "GarbageCollectRoleBindings")
            /\ Faultless(calls, {}, done)
            /\ roles' = Only(roles, (DOMAIN roles) \ done)
            /\ UNCHANGED <<serviceAccounts, bindings>>

DeleteBindings(done) == bindings' = Only(bindings, (DOMAIN bindings) \ done)

GarbageCollectRoleBindings ==
    LET calls == {k \in DOMAIN bindings :
                     k.ns # "" /\ k \notin ExpectedRoleBindings(batch.plan)}
    IN  \E done \in SUBSET calls :
            /\ Operation("GarbageCollectRoleBindings", calls, done,
                         "GarbageCollectClusterRoleBindings")
            /\ Faultless(calls, {}, done)
            /\ DeleteBindings(done)
            /\ UNCHANGED <<serviceAccounts, roles>>

GarbageCollectClusterRoleBindings ==
    LET calls == {k \in DOMAIN bindings :
                     k.ns = "" /\ k.name \notin ExpectedClusterRoleBindings(batch.plan)}
    IN  \E done \in SUBSET calls :
            /\ Operation("GarbageCollectClusterRoleBindings", calls, done, "ApplyBatchPlan")
            /\ Faultless(calls, {}, done)
            /\ DeleteBindings(done)
            /\ UNCHANGED <<serviceAccounts, roles>>

ApplyBatchPlan ==
    /\ batch.pc = "ApplyBatchPlan"
    /\ applied' = [plan |-> batch.plan, targets |-> batch.targets]
    /\ batch' = Idle
    /\ UNCHANGED <<environment, cluster, namespaceCache, pending, counts>>

Execution ==
    \/ EnsureRoles \/ EnsureServiceAccounts \/ EnsureRoleBindings
    \/ GarbageCollectServiceAccounts \/ GarbageCollectRoles
    \/ GarbageCollectRoleBindings \/ GarbageCollectClusterRoleBindings
    \/ ApplyBatchPlan

Work == Planning \/ Validation \/ Execution

Next ==
    \/ \E r \in Resource : DeleteWSA(r) \/ \E spec \in SpecChoice : WriteWSA(r, spec)
    \/ \E n \in Namespace : InstallAgent(n) \/ RemoveAgent(n) \/ DeleteNamespace(n)
    \/ KubernetesGC \/ ExpireNamespaceCache
    \/ Work

Spec == Init /\ [][Next]_vars

\* The orchestrator works, and time passes.
Fairness == WF_vars(Work) /\ WF_vars(ExpireNamespaceCache)

FairSpec == Spec /\ Fairness

-----------------------------------------------------------------------------
\* Types; a target is always a namespace the regular expression matches.
TypeOK ==
    /\ DOMAIN specs \subseteq Resource
    /\ \A r \in DOMAIN specs : specs[r] \in SpecChoice
    /\ agents \subseteq namespaces /\ namespaces \subseteq Namespace
    /\ \A sa \in serviceAccounts : sa[1] \in Matching \cap namespaces
    /\ namespaceCache.valid \in BOOLEAN /\ namespaceCache.list \subseteq Matching
    /\ batch.targets \subseteq Matching /\ applied.targets \subseteq Matching
    /\ pending \in BOOLEAN
    /\ counts \in [writes : 0..MaxWrites, moves : 0..MaxMoves, faults : 0..MaxFaults]

\* Nothing waits and nothing runs: the last batch succeeded.
AtRest == batch = Idle /\ ~pending

\* A binding of the cluster as the calls describe it.
AsCalls(f) ==
    {[key |-> k, roleRef |-> f[k].roleRef, subjects |-> f[k].subjects, owner |-> f[k].owner] :
        k \in DOMAIN f}

\* Roles that Kubernetes keeps: their owner exists.
OwnedRoles == {k \in DOMAIN roles : roles[k] \in DOMAIN specs}

\* ClusterRoleBindings that are kept for their name only.
KeptForTheirName(plan) ==
    {c \in AsCalls(bindings) : /\ c.key.ns = ""
                               /\ c.key.name \in ExpectedClusterRoleBindings(plan)}

(***************************************************************************)
(* When a batch has succeeded and nothing has happened since, the managed  *)
(* objects are those of the WSAs that exist: their accounts in the target  *)
(* namespaces and nowhere else, every role and binding they need with its  *)
(* roleRef, its subjects and an owner that exists, so that Kubernetes does *)
(* not take it away with a WSA that applied it before.  What is left       *)
(* behind by design is named: ClusterRoles, a Role with a name that        *)
(* another namespace still needs, a ClusterRoleBinding with a name that    *)
(* counts as expected.                                                     *)
(***************************************************************************)
AppliedIsExact ==
    AtRest =>
        LET planned == PlannedBindings(specs, applied.targets)
        IN  /\ applied.plan = specs
            /\ serviceAccounts = applied.targets \X Accounts(specs)
            /\ {c.key : c \in PlannedRoles(specs)} \subseteq OwnedRoles
            /\ \A k \in DOMAIN roles : k.ns # "" => k.name \in ExpectedRoleNames(specs)
            /\ planned \subseteq AsCalls(bindings)
            /\ AsCalls(bindings) \ planned \subseteq KeptForTheirName(specs)

(***************************************************************************)
(* No interruption: a step of the controller never takes away an account,  *)
(* a role or a binding that its own plan needs, not for a moment and not   *)
(* when calls fail: pods that keep their permissions never lose them.      *)
(***************************************************************************)
NoInterruption ==
    [][Execution =>
        /\ serviceAccounts \cap (batch.targets \X Accounts(batch.plan)) \subseteq serviceAccounts'
        /\ {c.key : c \in PlannedRoles(batch.plan)} \cap DOMAIN roles \subseteq DOMAIN roles'
        /\ AsCalls(bindings) \cap PlannedBindings(batch.plan, batch.targets)
               \subseteq AsCalls(bindings')]_vars

\* What keeps every batch from succeeding: no agent in a matching namespace,
\* or two bindings of one name with different roles, of the specs or of a
\* spec and a binding that an earlier one left.
Blocked ==
    LET planned == PlannedBindings(specs, Discovered)
    IN  Discovered = {} \/ RefusedBy(ExistingRefs \cup planned, planned) # {}

=============================================================================
