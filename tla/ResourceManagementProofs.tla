---------------------- MODULE ResourceManagementProofs ----------------------
(***************************************************************************)
(* Proofs about ResourceManagement: types, that an execution takes nothing *)
(* away that its plan keeps, and that a batch that succeeds leaves the     *)
(* cluster exactly as its plan says, for any resources, specs, names,      *)
(* namespaces and failures.                                                *)
(***************************************************************************)
EXTENDS ResourceManagement, SequenceTheorems, TLAPS

\* The parts of generated names (the words are strings, which no backend knows).
Words == {"octopus-role", "octopus-clusterrole", "octopus-rb", "octopus-crb"}
Part == STRING \cup Words \cup {s.permissions : s \in SpecChoice}

Plans == UNION {[S -> SpecChoice] : S \in SUBSET Resource}

-----------------------------------------------------------------------------
\* Names.  With its first part and its end, a joined name determines the middle.
LEMMA NameCancel ==
    ASSUME NEW x \in Part, NEW a \in Seq(Part), NEW b \in Seq(Part), NEW n \in Seq(Part),
           <<x>> \o a \o n = <<x>> \o b \o n
    PROVE  a = b
<1>1. <<x>> \in Seq(Part)
  OBVIOUS
<1>2. <<x>> \o a \in Seq(Part) /\ <<x>> \o b \in Seq(Part)
  BY <1>1, ConcatProperties
<1>3. <<x>> \o a = <<x>> \o b
  BY <1>2, ConcatSimplifications
<1> QED
  BY <1>1, <1>3, ConcatSimplifications

\* The names of a plan's resources and of the roles they refer to are names.
LEMMA NamesAreNames ==
    ASSUME NEW plan \in Plans, NEW r \in DOMAIN plan
    PROVE  /\ r \in Resource /\ plan[r] \in SpecChoice
           /\ r.name \in Seq(Part)
           /\ \A ref \in RoleRefs(plan, r) : ref.name \in Seq(Part)
<1>1. r \in Resource /\ plan[r] \in SpecChoice
  BY DEF Plans
<1>2. Seq(STRING) \subseteq Seq(Part)
  BY SeqMonotonic DEF Part
<1>3. r.name \in Seq(Part)
  BY <1>1, <1>2, NameAssumption
<1>4. plan[r].permissions \in Part
  BY <1>1 DEF Part
<1>5. ASSUME NEW ref \in RoleRefs(plan, r)
      PROVE  ref.name \in Seq(Part)
  <2>1. ref.name \in GetRoles(plan, r) \cup plan[r].clusterRoles \/ ref.name = InlineRole(plan, r)
    BY DEF RoleRefs, InlineNames
  <2>2. CASE ref.name \in GetRoles(plan, r) \cup plan[r].clusterRoles
    BY <2>2, <1>1, <1>2, NameAssumption DEF GetRoles
  <2>3. CASE ref.name = InlineRole(plan, r)
    <3>1. "octopus-role" \in Part /\ "octopus-clusterrole" \in Part
      BY DEF Part, Words
    <3> QED
      BY <2>3, <3>1, <1>4 DEF InlineRole, roleName, clusterRoleName
  <2> QED
    BY <2>1, <2>2, <2>3
<1> QED
  BY <1>1, <1>3, <1>5

\* A planned binding has a resource and a role reference it was made for.
LEMMA PlannedBindingFor ==
    ASSUME NEW plan, NEW targets, NEW c \in PlannedBindings(plan, targets)
    PROVE  \E r \in DOMAIN plan : \E ref \in RoleRefs(plan, r) :
               c = [key |-> BindingKey(r, ref.name), roleRef |-> ref,
                    subjects |-> targets \X plan[r].accounts, owner |-> r]
BY DEF PlannedBindings, BindingsFor

\* Two planned bindings of one key and one role are the same binding: their
\* resources have the same namespace and, by cancellation, the same name.
LEMMA KeyAndRoleDetermine ==
    ASSUME NEW plan \in Plans, NEW targets,
           NEW c \in PlannedBindings(plan, targets), NEW d \in PlannedBindings(plan, targets),
           c.key = d.key, c.roleRef = d.roleRef
    PROVE  c = d
<1>r. PICK r \in DOMAIN plan : \E x \in RoleRefs(plan, r) :
          c = [key |-> BindingKey(r, x.name), roleRef |-> x,
               subjects |-> targets \X plan[r].accounts, owner |-> r]
  BY PlannedBindingFor
<1>1. PICK ref \in RoleRefs(plan, r) :
          c = [key |-> BindingKey(r, ref.name), roleRef |-> ref,
               subjects |-> targets \X plan[r].accounts, owner |-> r]
  BY <1>r
<1>q. PICK q \in DOMAIN plan : \E x \in RoleRefs(plan, q) :
          d = [key |-> BindingKey(q, x.name), roleRef |-> x,
               subjects |-> targets \X plan[q].accounts, owner |-> q]
  BY PlannedBindingFor
<1>2. PICK qref \in RoleRefs(plan, q) :
          d = [key |-> BindingKey(q, qref.name), roleRef |-> qref,
               subjects |-> targets \X plan[q].accounts, owner |-> q]
  BY <1>q
<1>3. ref = qref /\ BindingKey(r, ref.name) = BindingKey(q, ref.name)
  BY <1>1, <1>2
<1>4. r.ns = q.ns
  BY <1>3 DEF BindingKey
<1>5. /\ r.name \in Seq(Part) /\ q.name \in Seq(Part) /\ ref.name \in Seq(Part)
      /\ r \in Resource /\ q \in Resource
  BY NamesAreNames
<1>6. r.name = q.name
  <2>2. CASE IsClusterScoped(r)
    <3>1. <<"octopus-crb">> \o r.name \o ref.name = <<"octopus-crb">> \o q.name \o ref.name
      BY <2>2, <1>3, <1>4 DEF BindingKey, clusterRoleBindingName, IsClusterScoped
    <3> QED
      BY <3>1, <1>5, NameCancel DEF Part, Words
  <2>3. CASE ~IsClusterScoped(r)
    <3>1. <<"octopus-rb">> \o r.name \o ref.name = <<"octopus-rb">> \o q.name \o ref.name
      BY <2>3, <1>3, <1>4 DEF BindingKey, roleBindingName, IsClusterScoped
    <3> QED
      BY <3>1, <1>5, NameCancel DEF Part, Words
  <2> QED
    BY <2>2, <2>3
<1>7. r = q
  BY <1>4, <1>5, <1>6, NameAssumption
<1> QED
  BY <1>1, <1>2, <1>3, <1>7
-----------------------------------------------------------------------------
\* What the collections keep contains what the plan needs.
LEMMA NeededRolesExpected ==
    ASSUME NEW plan
    PROVE  \A c \in PlannedRoles(plan) : c.key.name \in ExpectedRoleNames(plan)
BY DEF PlannedRoles, RolesFor, ExpectedRoleNames

\* Every binding a plan needs is one that garbage collection expects.
LEMMA NeededBindingsExpected ==
    ASSUME NEW plan, NEW targets, NEW c \in PlannedBindings(plan, targets)
    PROVE  /\ c.key.ns # "" => c.key \in ExpectedRoleBindings(plan)
           /\ c.key.ns = "" => c.key.name \in ExpectedClusterRoleBindings(plan)
<1>1. PICK r \in DOMAIN plan : \E x \in RoleRefs(plan, r) :
          c = [key |-> BindingKey(r, x.name), roleRef |-> x,
               subjects |-> targets \X plan[r].accounts, owner |-> r]
  BY PlannedBindingFor
<1>2. PICK ref \in RoleRefs(plan, r) : c.key = BindingKey(r, ref.name)
  BY <1>1
<1>3. c.key.ns = r.ns
  BY <1>2 DEF BindingKey
<1>4. ref.name \in GetRoles(plan, r) \cup plan[r].clusterRoles \cup InlineNames(plan, r)
  BY DEF RoleRefs
<1>5. CASE r.ns # ""
  <2>1. c.key \in KeptKeys(plan, r)
    BY <1>2, <1>4 DEF KeptKeys
  <2> QED
    BY <1>3, <1>5, <2>1 DEF ExpectedRoleBindings, IsClusterScoped
<1>6. CASE r.ns = ""
  <2>1. ref.name \in plan[r].clusterRoles \cup InlineNames(plan, r)
    BY <1>4, <1>6 DEF GetRoles, IsClusterScoped
  <2>2. c.key.name = clusterRoleBindingName(r.name, ref.name)
    <3>1. IsClusterScoped(r)
      BY <1>6 DEF IsClusterScoped
    <3>2. BindingKey(r, ref.name).name = clusterRoleBindingName(r.name, ref.name)
      BY <3>1 DEF BindingKey
    <3> QED
      BY <1>2, <3>2
  <2>3. c.key.name \in KeptClusterNames(plan, r)
    BY <2>1, <2>2 DEF KeptClusterNames
  <2> QED
    BY <1>3, <1>6, <2>3 DEF ExpectedClusterRoleBindings
<1> QED
  BY <1>5, <1>6

\* Every key the collection of RoleBindings keeps is the key of a planned one.
LEMMA ExpectedBindingsNeeded ==
    ASSUME NEW plan, NEW targets, NEW k \in ExpectedRoleBindings(plan)
    PROVE  \E c \in PlannedBindings(plan, targets) : c.key = k
<1>1. PICK r \in DOMAIN plan : k \in KeptKeys(plan, r)
  BY DEF ExpectedRoleBindings
<1>2. PICK n \in GetRoles(plan, r) \cup plan[r].clusterRoles \cup InlineNames(plan, r) :
          k = BindingKey(r, n)
  BY <1>1 DEF KeptKeys
<1>3. \E ref \in RoleRefs(plan, r) : ref.name = n
  <2>1. CASE n \in GetRoles(plan, r)
    <3>1. [kind |-> "Role", name |-> n] \in RoleRefs(plan, r)
      BY <2>1 DEF RoleRefs
    <3> QED
      BY <3>1
  <2>2. CASE n \in plan[r].clusterRoles
    <3>1. [kind |-> "ClusterRole", name |-> n] \in RoleRefs(plan, r)
      BY <2>2 DEF RoleRefs
    <3> QED
      BY <3>1
  <2>3. CASE n \in InlineNames(plan, r)
    <3> DEFINE kind == IF IsClusterScoped(r) THEN "ClusterRole" ELSE "Role"
    <3>1. [kind |-> kind, name |-> n] \in RoleRefs(plan, r)
      BY <2>3 DEF RoleRefs
    <3> QED
      BY <3>1
  <2> QED
    BY <2>1, <2>2, <2>3
<1>4. PICK ref \in RoleRefs(plan, r) : ref.name = n
  BY <1>3
<1> DEFINE c == [key |-> BindingKey(r, ref.name), roleRef |-> ref,
                 subjects |-> targets \X plan[r].accounts, owner |-> r]
<1>5. c \in BindingsFor(plan, targets, r)
  BY DEF BindingsFor
<1>6. c \in PlannedBindings(plan, targets) /\ c.key = BindingKey(r, ref.name)
  BY <1>5 DEF PlannedBindings
<1> QED
  BY <1>2, <1>4, <1>6
-----------------------------------------------------------------------------
\* The steps of a batch from the collections on.
Collecting == {"GarbageCollectServiceAccounts", "GarbageCollectRoles",
               "GarbageCollectRoleBindings", "GarbageCollectClusterRoleBindings",
               "ApplyBatchPlan"}
Steps == {"idle", "validation", "EnsureRoles", "EnsureServiceAccounts", "EnsureRoleBindings"}
         \cup Collecting

Counts == [writes : 0..MaxWrites, moves : 0..MaxMoves, faults : 0..MaxFaults]

AllAccounts == UNION {s.accounts : s \in SpecChoice}

\* TypeOK with what its parts rest on.
StateOK ==
    /\ specs \in Plans
    /\ namespaces \subseteq Namespace /\ agents \subseteq namespaces
    /\ serviceAccounts \subseteq (Matching \cap namespaces) \X AllAccounts
    /\ namespaceCache \in [valid : BOOLEAN, list : SUBSET Matching]
    /\ pending \in BOOLEAN
    /\ batch \in [pc : Steps, plan : Plans, targets : SUBSET Matching]
    /\ batch.pc = "idle" => batch = Idle
    /\ applied.targets \subseteq Matching
    /\ counts \in Counts

\* What the operations have achieved once they are over.
RolesThere(plan) ==
    \A c \in PlannedRoles(plan) : c.key \in DOMAIN roles /\ roles[c.key] \in DOMAIN plan
AccountsThere(plan, targets) == targets \X Accounts(plan) \subseteq serviceAccounts
BindingsThere(plan, targets) == PlannedBindings(plan, targets) \subseteq AsCalls(bindings)
AccountsOnly(plan, targets) == serviceAccounts \subseteq targets \X Accounts(plan)
RolesOnly(plan) == \A k \in DOMAIN roles : k.ns # "" => k.name \in ExpectedRoleNames(plan)
RoleBindingsOnly(plan) ==
    \A k \in DOMAIN bindings : k.ns # "" => k \in ExpectedRoleBindings(plan)
ClusterRoleBindingsOnly(plan) ==
    \A k \in DOMAIN bindings : k.ns = "" => k.name \in ExpectedClusterRoleBindings(plan)

\* A batch during which nothing has changed is about the present specs, and the
\* operations behind it have done their work.
Progress ==
    batch.pc # "idle" /\ ~pending =>
        /\ batch.plan = specs
        /\ batch.pc \in {"EnsureServiceAccounts", "EnsureRoleBindings"} \cup Collecting =>
               RolesThere(batch.plan)
        /\ batch.pc \in {"EnsureRoleBindings"} \cup Collecting =>
               AccountsThere(batch.plan, batch.targets)
        /\ batch.pc \in Collecting => BindingsThere(batch.plan, batch.targets)
        /\ batch.pc \in Collecting \ {"GarbageCollectServiceAccounts"} =>
               AccountsOnly(batch.plan, batch.targets)
        /\ batch.pc \in {"GarbageCollectRoleBindings", "GarbageCollectClusterRoleBindings",
                         "ApplyBatchPlan"} => RolesOnly(batch.plan)
        /\ batch.pc \in {"GarbageCollectClusterRoleBindings", "ApplyBatchPlan"} =>
               RoleBindingsOnly(batch.plan)
        /\ batch.pc = "ApplyBatchPlan" => ClusterRoleBindingsOnly(batch.plan)

IInv == StateOK /\ Progress /\ AppliedIsExact

\* While something waits there is nothing to show but types.
LEMMA WhilePending ==
    ASSUME pending' = TRUE
    PROVE  Progress' /\ AppliedIsExact'
BY DEF Progress, AppliedIsExact, AtRest

\* The empty plan needs nothing.
LEMMA EmptyPlan ==
    /\ NoPlan \in Plans
    /\ Accounts(NoPlan) = {} /\ PlannedRoles(NoPlan) = {}
    /\ \A targets : PlannedBindings(NoPlan, targets) = {}
<1>1. DOMAIN NoPlan = {}
  BY DEF NoPlan
<1>2. NoPlan \in [{} -> SpecChoice]
  BY DEF NoPlan
<1>3. NoPlan \in Plans
  BY <1>2 DEF Plans
<1> QED
  BY <1>1, <1>3 DEF Accounts, PlannedRoles, PlannedBindings

\* A plan needs accounts of its specs only.
LEMMA AccountsTyped ==
    ASSUME NEW plan \in Plans
    PROVE  Accounts(plan) \subseteq AllAccounts
BY DEF Accounts, AllAccounts, Plans

\* The bounds of the environment are numbers.
LEMMA BoundsAreNat == MaxWrites \in Nat /\ MaxMoves \in Nat /\ MaxFaults \in Nat
BY ResourceAssumption, Zenon

\* The bounds are kept.
LEMMA Counted ==
    ASSUME StateOK,
           Count("writes", MaxWrites) \/ Count("moves", MaxMoves) \/ Count("faults", MaxFaults)
    PROVE  counts' \in Counts
<1>1. counts \in Counts
  BY DEF StateOK
<1>2. CASE Count("writes", MaxWrites)
  BY <1>1, <1>2, BoundsAreNat DEF Count, Counts
<1>3. CASE Count("moves", MaxMoves)
  BY <1>1, <1>3, BoundsAreNat DEF Count, Counts
<1>4. CASE Count("faults", MaxFaults)
  BY <1>1, <1>4, BoundsAreNat DEF Count, Counts
<1> QED
  BY <1>2, <1>3, <1>4

-----------------------------------------------------------------------------
\* Preservation, action by action.
LEMMA InitInv == Init => IInv
<1> SUFFICES ASSUME Init PROVE IInv
  OBVIOUS
<1>1. Idle \in [pc : Steps, plan : Plans, targets : SUBSET Matching]
  BY EmptyPlan DEF Idle, Steps
<1>2. StateOK
  <2>1. counts \in Counts
    BY BoundsAreNat DEF Init, Counts
  <2>2. applied.targets \subseteq Matching
    BY DEF Init
  <2> QED
    BY <1>1, <2>1, <2>2, EmptyPlan DEF Init, StateOK
<1>3. Progress
  BY DEF Init, Progress, Idle
<1>4. AppliedIsExact
  <2>1. /\ specs = NoPlan /\ applied = [plan |-> NoPlan, targets |-> {}]
        /\ serviceAccounts = {} /\ roles = NoPlan /\ bindings = NoPlan
    BY DEF Init
  <2>2. AsCalls(bindings) = {}
    BY <2>1 DEF AsCalls, NoPlan
  <2>3. applied.plan = specs /\ applied.targets = {}
    BY <2>1
  <2>4. serviceAccounts = applied.targets \X Accounts(specs)
    BY <2>1, <2>3
  <2>5. PlannedRoles(specs) = {} /\ PlannedBindings(specs, applied.targets) = {}
    BY <2>1, EmptyPlan
  <2>6. DOMAIN roles = {}
    BY <2>1 DEF NoPlan
  <2> QED
    BY <2>2, <2>3, <2>4, <2>5, <2>6 DEF AppliedIsExact
<1> QED
  BY <1>2, <1>3, <1>4 DEF IInv

\* Users.
LEMMA WriteWSAInv ==
    ASSUME IInv, NEW r \in Resource, NEW spec \in SpecChoice, WriteWSA(r, spec)
    PROVE  IInv'
<1>1. specs' \in Plans
  <2>1. PICK S \in SUBSET Resource : specs \in [S -> SpecChoice]
    BY DEF IInv, StateOK, Plans
  <2>2. specs' \in [S \cup {r} -> SpecChoice]
    BY <2>1 DEF WriteWSA, Put
  <2> QED
    BY <2>1, <2>2 DEF Plans
<1>2. StateOK'
  <2>1. counts' \in Counts
    BY Counted DEF IInv, WriteWSA
  <2> QED
    BY <1>1, <2>1 DEF IInv, StateOK, WriteWSA, cluster
<1> QED
  BY <1>2, WhilePending DEF IInv, WriteWSA

\* A deletion is a pending change: what the last batch achieved is not claimed of it.
LEMMA DeleteWSAInv ==
    ASSUME IInv, NEW r \in Resource, DeleteWSA(r)
    PROVE  IInv'
<1>1. specs' \in Plans
  <2>1. PICK S \in SUBSET Resource : specs \in [S -> SpecChoice]
    BY DEF IInv, StateOK, Plans
  <2>2. specs' \in [S \cap (Resource \ {r}) -> SpecChoice]
    BY <2>1 DEF DeleteWSA, Only
  <2> QED
    BY <2>1, <2>2 DEF Plans
<1>2. StateOK'
  <2>1. counts' \in Counts
    BY Counted DEF IInv, DeleteWSA
  <2> QED
    BY <1>1, <2>1 DEF IInv, StateOK, DeleteWSA, cluster
<1> QED
  BY <1>2, WhilePending DEF IInv, DeleteWSA

\* A step that leaves specs, cluster, batch and events alone leaves the claims.
LEMMA Undisturbed ==
    ASSUME Progress, AppliedIsExact, specs' = specs, UNCHANGED <<cluster, batch, pending, applied>>
    PROVE  Progress' /\ AppliedIsExact'
<1>1. Progress'
  BY DEF Progress, cluster, RolesThere, AccountsThere, BindingsThere, AccountsOnly, RolesOnly,
         RoleBindingsOnly, ClusterRoleBindingsOnly
<1>2. AppliedIsExact'
  BY DEF AppliedIsExact, AtRest, cluster, KeptForTheirName, OwnedRoles
<1> QED
  BY <1>1, <1>2

\* A new agent changes no object, and no batch that has its targets.
LEMMA InstallAgentInv ==
    ASSUME IInv, NEW n \in Namespace, InstallAgent(n)
    PROVE  IInv'
<1>1. StateOK'
  <2>1. counts' \in Counts
    BY Counted DEF IInv, InstallAgent
  <2> QED
    BY <2>1 DEF IInv, StateOK, InstallAgent, cluster
<1> QED
  BY <1>1, Undisturbed DEF IInv, InstallAgent

\* Nor does a removed one.
LEMMA RemoveAgentInv ==
    ASSUME IInv, NEW n \in Namespace, RemoveAgent(n)
    PROVE  IInv'
<1>1. StateOK'
  <2>1. counts' \in Counts
    BY Counted DEF IInv, RemoveAgent
  <2> QED
    BY <2>1 DEF IInv, StateOK, RemoveAgent, cluster
<1> QED
  BY <1>1, Undisturbed DEF IInv, RemoveAgent

\* The cache's expiry touches nothing but the cache.
LEMMA ExpireNamespaceCacheInv ==
    ASSUME IInv, ExpireNamespaceCache
    PROVE  IInv'
<1>1. StateOK'
  BY DEF IInv, StateOK, ExpireNamespaceCache, environment, cluster
<1> QED
  BY <1>1, Undisturbed DEF IInv, ExpireNamespaceCache, environment

\* A binding of the cluster is the call that would make it.
LEMMA CallOfBinding ==
    ASSUME NEW f, NEW c
    PROVE  c \in AsCalls(f) <=>
               \E k \in DOMAIN f :
                   c = [key |-> k, roleRef |-> f[k].roleRef, subjects |-> f[k].subjects,
                        owner |-> f[k].owner]
BY DEF AsCalls

\* What a plan needs is owned by its resources.
LEMMA PlannedOwners ==
    ASSUME NEW plan, NEW targets
    PROVE  /\ \A c \in PlannedRoles(plan) : c.owner \in DOMAIN plan
           /\ \A c \in PlannedBindings(plan, targets) : c.owner \in DOMAIN plan
BY DEF PlannedRoles, RolesFor, PlannedBindings, BindingsFor

\* Kubernetes takes a binding away: the others are as they were.
LEMMA FewerBindings ==
    ASSUME NEW S, bindings' = Only(bindings, S)
    PROVE  /\ DOMAIN bindings' = (DOMAIN bindings) \cap S
           /\ AsCalls(bindings') \subseteq AsCalls(bindings)
           /\ \A c \in AsCalls(bindings) : c.key \in S => c \in AsCalls(bindings')
<1>1. DOMAIN bindings' = (DOMAIN bindings) \cap S
  BY DEF Only
<1>2. \A k \in DOMAIN bindings' : bindings'[k] = bindings[k]
  BY DEF Only
<1>3. ASSUME NEW c \in AsCalls(bindings')
      PROVE  c \in AsCalls(bindings)
  <2>1. PICK k \in DOMAIN bindings' :
            c = [key |-> k, roleRef |-> bindings'[k].roleRef, subjects |-> bindings'[k].subjects,
                 owner |-> bindings'[k].owner]
    BY CallOfBinding
  <2> QED
    BY <1>1, <1>2, <2>1, CallOfBinding
<1>4. ASSUME NEW c \in AsCalls(bindings), c.key \in S
      PROVE  c \in AsCalls(bindings')
  <2>1. PICK k \in DOMAIN bindings :
            c = [key |-> k, roleRef |-> bindings[k].roleRef, subjects |-> bindings[k].subjects,
                 owner |-> bindings[k].owner]
    BY CallOfBinding
  <2>2. k \in DOMAIN bindings' /\ bindings'[k] = bindings[k]
    BY <1>1, <1>2, <1>4, <2>1
  <2> QED
    BY <2>1, <2>2, CallOfBinding
<1> QED
  BY <1>1, <1>3, <1>4

\* Kubernetes takes away only what no WSA that exists owns: nothing that a plan
\* of the present specs needs.
LEMMA KubernetesGCInv ==
    ASSUME IInv, KubernetesGC
    PROVE  IInv'
<1>1. UNCHANGED <<environment, serviceAccounts, namespaceCache, pending, batch, applied, counts>>
  BY DEF KubernetesGC
<1>2. StateOK'
  BY <1>1 DEF IInv, StateOK, environment
<1>3. /\ DOMAIN roles' \subseteq DOMAIN roles
      /\ \A k \in DOMAIN roles : roles[k] \in DOMAIN specs =>
             k \in DOMAIN roles' /\ roles'[k] = roles[k]
  BY DEF KubernetesGC, Only
<1>4. /\ DOMAIN bindings' \subseteq DOMAIN bindings
      /\ AsCalls(bindings') \subseteq AsCalls(bindings)
      /\ \A c \in AsCalls(bindings) : c.owner \in DOMAIN specs => c \in AsCalls(bindings')
  <2>1. CASE bindings' = bindings
    BY <2>1
  <2>2. ASSUME NEW k \in DOMAIN bindings, bindings[k].owner \notin DOMAIN specs,
               bindings' = Only(bindings, (DOMAIN bindings) \ {k})
        PROVE  /\ DOMAIN bindings' \subseteq DOMAIN bindings
               /\ AsCalls(bindings') \subseteq AsCalls(bindings)
               /\ \A c \in AsCalls(bindings) :
                      c.owner \in DOMAIN specs => c \in AsCalls(bindings')
    <3>1. ASSUME NEW c \in AsCalls(bindings), c.owner \in DOMAIN specs
          PROVE  c.key \in (DOMAIN bindings) \ {k}
      <4>1. PICK j \in DOMAIN bindings :
                c = [key |-> j, roleRef |-> bindings[j].roleRef,
                     subjects |-> bindings[j].subjects, owner |-> bindings[j].owner]
        BY CallOfBinding
      <4> QED
        BY <2>2, <3>1, <4>1
    <3> QED
      BY <2>2, <3>1, FewerBindings
  <2> QED
    BY <2>1, <2>2 DEF KubernetesGC
<1>5. Progress'
  <2>1. CASE batch.pc = "idle" \/ pending
    BY <1>1, <2>1 DEF Progress
  <2>2. CASE ~(batch.pc = "idle" \/ pending)
    <3>1. batch.plan = specs
      BY <2>2 DEF IInv, Progress
    <3>2. RolesThere(batch.plan) => RolesThere(batch.plan)'
      BY <1>1, <1>3, <3>1 DEF RolesThere
    <3>3. BindingsThere(batch.plan, batch.targets) => BindingsThere(batch.plan, batch.targets)'
      BY <1>1, <1>4, <3>1, PlannedOwners DEF BindingsThere
    <3>4. /\ AccountsThere(batch.plan, batch.targets) => AccountsThere(batch.plan, batch.targets)'
          /\ AccountsOnly(batch.plan, batch.targets) => AccountsOnly(batch.plan, batch.targets)'
      BY <1>1 DEF AccountsThere, AccountsOnly
    <3>5. /\ RolesOnly(batch.plan) => RolesOnly(batch.plan)'
          /\ RoleBindingsOnly(batch.plan) => RoleBindingsOnly(batch.plan)'
          /\ ClusterRoleBindingsOnly(batch.plan) => ClusterRoleBindingsOnly(batch.plan)'
      BY <1>1, <1>3, <1>4 DEF RolesOnly, RoleBindingsOnly, ClusterRoleBindingsOnly
    <3> QED
      BY <1>1, <2>2, <3>1, <3>2, <3>3, <3>4, <3>5 DEF IInv, Progress, environment
  <2> QED
    BY <2>1, <2>2
<1>6. AppliedIsExact'
  <2> SUFFICES ASSUME AtRest'
               PROVE  AppliedIsExact'
    BY DEF AppliedIsExact
  <2>1. AtRest
    BY <1>1 DEF AtRest
  <2> DEFINE planned == PlannedBindings(specs, applied.targets)
  <2>2. /\ applied.plan = specs
        /\ serviceAccounts = applied.targets \X Accounts(specs)
        /\ {c.key : c \in PlannedRoles(specs)} \subseteq OwnedRoles
        /\ \A k \in DOMAIN roles : k.ns # "" => k.name \in ExpectedRoleNames(specs)
        /\ planned \subseteq AsCalls(bindings)
        /\ AsCalls(bindings) \ planned \subseteq KeptForTheirName(specs)
    BY <2>1 DEF IInv, AppliedIsExact
  <2>3. specs' = specs /\ applied' = applied /\ serviceAccounts' = serviceAccounts
    BY <1>1 DEF environment
  <2>4. OwnedRoles \subseteq OwnedRoles'
    BY <1>3, <2>3 DEF OwnedRoles
  <2>5. planned \subseteq AsCalls(bindings')
    BY <1>4, <2>2, PlannedOwners
  <2>6. KeptForTheirName(specs)' = KeptForTheirName(specs) \cap AsCalls(bindings')
    BY <1>4, <2>3 DEF KeptForTheirName
  <2>7. AsCalls(bindings') \ planned \subseteq KeptForTheirName(specs)'
    BY <1>4, <2>2, <2>6
  <2>8. \A k \in DOMAIN roles' : k.ns # "" => k.name \in ExpectedRoleNames(specs)
    BY <1>3, <2>2
  <2> QED
    BY <2>2, <2>3, <2>4, <2>5, <2>7, <2>8 DEF AppliedIsExact
<1> QED
  BY <1>2, <1>5, <1>6 DEF IInv

\* A namespace that goes takes accounts with it, which is an event unless there
\* are no specs, and then there were no accounts to take.
LEMMA DeleteNamespaceInv ==
    ASSUME IInv, NEW n \in Namespace, DeleteNamespace(n)
    PROVE  IInv'
<1>1. StateOK'
  <2>1. counts' \in Counts
    BY Counted DEF IInv, DeleteNamespace
  <2>2. serviceAccounts' \subseteq (Matching \cap namespaces') \X AllAccounts
    BY DEF IInv, StateOK, DeleteNamespace
  <2> QED
    BY <2>1, <2>2 DEF IInv, StateOK, DeleteNamespace
<1>2. CASE pending'
  BY <1>1, <1>2, WhilePending DEF IInv, StateOK
<1>3. CASE ~pending' /\ serviceAccounts' = serviceAccounts
  <2>1. ~pending
    BY <1>3 DEF DeleteNamespace
  <2>2. pending' = pending
    BY <1>1, <1>3, <2>1 DEF IInv, StateOK
  <2> QED
    BY <1>1, <1>3, <2>2, Undisturbed DEF IInv, DeleteNamespace, cluster
<1>4. CASE ~pending' /\ serviceAccounts' # serviceAccounts
  <2>1. ~pending /\ specs = NoPlan
    BY <1>4 DEF DeleteNamespace
  <2>2. /\ serviceAccounts' \subseteq serviceAccounts
        /\ UNCHANGED <<specs, roles, bindings, batch, applied>>
    BY DEF DeleteNamespace
  <2>3. ~AtRest
    <3>1. AtRest => serviceAccounts = {}
      BY <2>1, EmptyPlan DEF IInv, AppliedIsExact
    <3> QED
      BY <3>1, <1>4, <2>2
  <2>4. AppliedIsExact'
    BY <2>1, <2>2, <2>3 DEF AppliedIsExact, AtRest
  <2>5. Progress'
    <3>1. batch.pc # "idle"
      BY <2>1, <2>3 DEF AtRest, IInv, StateOK
    <3>2. batch.plan = NoPlan
      BY <3>1, <2>1 DEF IInv, Progress
    <3>3. AccountsThere(batch.plan, batch.targets)'
      BY <3>2, <2>2, EmptyPlan DEF AccountsThere
    <3>4. AccountsOnly(batch.plan, batch.targets) => AccountsOnly(batch.plan, batch.targets)'
      BY <2>2 DEF AccountsOnly
    <3> QED
      BY <2>1, <2>2, <3>1, <3>3, <3>4 DEF IInv, Progress, RolesThere, BindingsThere,
         RolesOnly, RoleBindingsOnly, ClusterRoleBindingsOnly
  <2> QED
    BY <1>1, <2>4, <2>5 DEF IInv
<1> QED
  BY <1>2, <1>3, <1>4

-----------------------------------------------------------------------------
\* Planning takes the specs as they are.
LEMMA PlanningInv ==
    ASSUME IInv, Planning
    PROVE  IInv'
<1>1. PICK targets \in SUBSET Namespace :
          /\ GetOrDiscoverTargetNamespaces(targets)
          /\ batch' = [pc |-> "validation", plan |-> specs, targets |-> targets]
  BY DEF Planning
<1>2. targets \subseteq Matching /\ namespaceCache' \in [valid : BOOLEAN, list : SUBSET Matching]
  <2>1. CASE namespaceCache.valid
    BY <1>1, <2>1 DEF GetOrDiscoverTargetNamespaces, IInv, StateOK
  <2>2. CASE ~namespaceCache.valid
    <3>1. targets = Discovered \/ targets = {}
      BY <1>1, <2>2 DEF GetOrDiscoverTargetNamespaces
    <3>2. targets \subseteq Matching
      BY <3>1 DEF Discovered
    <3>3. namespaceCache' = [valid |-> TRUE, list |-> targets]
      BY <1>1, <2>2 DEF GetOrDiscoverTargetNamespaces
    <3> QED
      BY <3>2, <3>3
  <2> QED
    BY <2>1, <2>2
<1>3. counts' \in Counts
  <2>1. UNCHANGED counts \/ Count("faults", MaxFaults)
    BY <1>1 DEF GetOrDiscoverTargetNamespaces
  <2> QED
    BY <2>1, Counted DEF IInv, StateOK
<1>4. batch' \in [pc : Steps, plan : Plans, targets : SUBSET Matching] /\ batch'.pc = "validation"
  BY <1>1, <1>2 DEF Steps, IInv, StateOK
<1>5. StateOK'
  BY <1>2, <1>3, <1>4 DEF Planning, IInv, StateOK, environment, cluster
<1>6. Progress'
  BY <1>1 DEF Progress, Planning, environment, Collecting
<1>7. AppliedIsExact'
  <2>1. batch' # Idle
    BY <1>4 DEF Idle
  <2> QED
    BY <2>1 DEF AppliedIsExact, AtRest
<1> QED
  BY <1>5, <1>6, <1>7 DEF IInv

\* checkNamespaceExistence writes nothing to the cluster: the batch goes on or fails.
LEMMA ValidationInv ==
    ASSUME IInv, Validation
    PROVE  IInv'
<1>1. /\ UNCHANGED <<environment, cluster, namespaceCache, applied, counts>>
      /\ batch.pc = "validation"
  BY DEF Validation
<1>2. CASE batch' = Idle /\ pending' = TRUE
  <2>1. StateOK'
    BY <1>1, <1>2, EmptyPlan DEF IInv, StateOK, Idle, Steps, environment, cluster
  <2> QED
    BY <1>2, <2>1, WhilePending DEF IInv
<1>3. CASE GoTo(IF batch.plan = NoPlan THEN "GarbageCollectServiceAccounts" ELSE "EnsureRoles")
  <2>1. /\ batch'.plan = batch.plan /\ batch'.targets = batch.targets /\ pending' = pending
        /\ batch'.pc = IF batch.plan = NoPlan THEN "GarbageCollectServiceAccounts"
                                              ELSE "EnsureRoles"
        /\ batch' \in [pc : Steps, plan : Plans, targets : SUBSET Matching]
    BY <1>3 DEF GoTo, IInv, StateOK, Steps, Collecting
  <2>2. StateOK'
    BY <1>1, <2>1 DEF IInv, StateOK, environment, cluster
  <2>3. AppliedIsExact'
    <3>1. batch' # Idle
      BY <2>1 DEF Idle
    <3> QED
      BY <3>1 DEF AppliedIsExact, AtRest
  <2>4. CASE batch.plan = NoPlan
    <3>1. /\ RolesThere(batch.plan)' /\ AccountsThere(batch.plan, batch.targets)'
          /\ BindingsThere(batch.plan, batch.targets)'
      BY <2>1, <2>4, EmptyPlan DEF RolesThere, AccountsThere, BindingsThere
    <3>2. Progress'
      BY <1>1, <2>1, <2>4, <3>1 DEF Progress, IInv, environment
    <3> QED
      BY <2>2, <2>3, <3>2 DEF IInv
  <2>5. CASE batch.plan # NoPlan
    <3>1. Progress'
      BY <1>1, <2>1, <2>5 DEF Progress, IInv, environment, Collecting
    <3> QED
      BY <2>2, <2>3, <3>1 DEF IInv
  <2> QED
    BY <2>4, <2>5
<1> QED
  BY <1>2, <1>3 DEF Validation, FailBatch

-----------------------------------------------------------------------------
\* Every operation keeps the types; it ends with an event, or it made all its
\* calls, nothing waits and the batch goes on.
LEMMA OperationStep ==
    ASSUME IInv, NEW op, NEW calls, NEW done, NEW next \in Steps \ {"idle"},
           Operation(op, calls, done, next),
           UNCHANGED counts \/ Count("faults", MaxFaults),
           serviceAccounts' \subseteq (Matching \cap namespaces) \X AllAccounts
    PROVE  /\ StateOK' /\ AppliedIsExact'
           /\ pending' # TRUE =>
                  /\ done = calls /\ ~pending
                  /\ batch'.pc = next /\ batch'.plan = batch.plan /\ batch'.targets = batch.targets
                  /\ specs' = specs
<1>1. UNCHANGED <<environment, namespaceCache, applied>>
  BY DEF Operation
<1>2. counts' \in Counts
  BY Counted DEF IInv, StateOK
<1>3. CASE batch' = Idle /\ pending' = TRUE
  <2>1. StateOK'
    BY <1>1, <1>2, <1>3, EmptyPlan DEF IInv, StateOK, Idle, Steps, environment
  <2> QED
    BY <1>3, <2>1, WhilePending
<1>4. CASE done = calls /\ GoTo(next)
  <2>1. /\ batch'.plan = batch.plan /\ batch'.targets = batch.targets /\ pending' = pending
        /\ batch'.pc = next
        /\ batch' \in [pc : Steps, plan : Plans, targets : SUBSET Matching]
    BY <1>4 DEF GoTo, IInv, StateOK
  <2>2. StateOK'
    BY <1>1, <1>2, <2>1 DEF IInv, StateOK, environment
  <2>3. AppliedIsExact'
    <3>1. batch' # Idle
      BY <2>1 DEF Idle
    <3> QED
      BY <3>1 DEF AppliedIsExact, AtRest
  <2> QED
    BY <1>1, <1>4, <2>1, <2>2, <2>3 DEF environment, IInv, StateOK
<1> QED
  BY <1>3, <1>4 DEF Operation, FailBatch

\* A fault is counted or there is none.
LEMMA FaultCounted ==
    ASSUME NEW calls, NEW refused, NEW done, Faultless(calls, refused, done)
    PROVE  UNCHANGED counts \/ Count("faults", MaxFaults)
BY DEF Faultless

\* What EnsureRoles applies is then there and owned by a resource of the plan,
\* and no role goes.
LEMMA AppliedRoles ==
    ASSUME NEW plan, NEW done \in SUBSET PlannedRoles(plan), ApplyRoles(done)
    PROVE  /\ \A c \in done : c.key \in DOMAIN roles' /\ roles'[c.key] \in DOMAIN plan
           /\ DOMAIN roles \subseteq DOMAIN roles'
<1>1. PICK last \in SUBSET done :
          /\ \A c \in done : \E d \in last : d.key = c.key
          /\ roles' = [k \in (DOMAIN roles) \cup {c.key : c \in last} |->
                          IF \E c \in last : c.key = k
                          THEN (CHOOSE c \in last : c.key = k).owner
                          ELSE roles[k]]
  BY DEF ApplyRoles
<1>2. \A c \in done : c.owner \in DOMAIN plan
  BY DEF PlannedRoles, RolesFor
<1>3. ASSUME NEW c \in done
      PROVE  c.key \in DOMAIN roles' /\ roles'[c.key] \in DOMAIN plan
  <2> DEFINE d == CHOOSE d \in last : d.key = c.key
  <2>1. d \in last /\ d.key = c.key
    BY <1>1
  <2>2. c.key \in DOMAIN roles' /\ roles'[c.key] = d.owner
    BY <1>1, <2>1
  <2> QED
    BY <1>2, <2>1, <2>2
<1> QED
  BY <1>1, <1>3

\* EnsureRoles leaves every role of the plan in place, or fails the batch.
LEMMA EnsureRolesInv ==
    ASSUME IInv, EnsureRoles
    PROVE  IInv'
<1> DEFINE calls == PlannedRoles(batch.plan)
<1>1. PICK done \in SUBSET calls :
          /\ Operation("EnsureRoles", calls, done, "EnsureServiceAccounts")
          /\ Faultless(calls, {}, done)
          /\ ApplyRoles(done)
          /\ UNCHANGED <<serviceAccounts, bindings>>
  BY DEF EnsureRoles
<1> HIDE DEF calls
<1>2. /\ StateOK' /\ AppliedIsExact'
      /\ pending' # TRUE =>
             /\ done = calls /\ ~pending
             /\ batch'.pc = "EnsureServiceAccounts"
             /\ batch'.plan = batch.plan /\ batch'.targets = batch.targets
             /\ specs' = specs
  <2>1. UNCHANGED counts \/ Count("faults", MaxFaults)
    BY <1>1, FaultCounted
  <2>2. serviceAccounts' \subseteq (Matching \cap namespaces) \X AllAccounts
    BY <1>1 DEF IInv, StateOK
  <2>3. "EnsureServiceAccounts" \in Steps \ {"idle"}
    BY DEF Steps
  <2> QED
    BY <1>1, <2>1, <2>2, <2>3, OperationStep
<1>3. CASE pending' = TRUE
  BY <1>2, <1>3, WhilePending DEF IInv
<1>4. CASE pending' # TRUE
  <2>1. RolesThere(batch.plan)'
    <3>1. done = PlannedRoles(batch.plan)
      BY <1>2, <1>4 DEF calls
    <3>2. \A c \in done : c.key \in DOMAIN roles' /\ roles'[c.key] \in DOMAIN batch.plan
      BY <1>1, <3>1, AppliedRoles
    <3> QED
      BY <3>1, <3>2, <1>2, <1>4 DEF RolesThere
  <2>2. batch.plan = specs
    BY <1>1, <1>2, <1>4 DEF IInv, Progress, Operation
  <2>3. Progress'
    BY <1>2, <1>4, <2>1, <2>2 DEF Progress, Collecting
  <2> QED
    BY <1>2, <2>3 DEF IInv
<1> QED
  BY <1>3, <1>4

\* EnsureServiceAccounts leaves every account of the plan in place, or fails the batch.
LEMMA EnsureServiceAccountsInv ==
    ASSUME IInv, EnsureServiceAccounts
    PROVE  IInv'
<1> DEFINE calls == batch.targets \X Accounts(batch.plan)
           refused == {c \in calls : c[1] \notin namespaces}
<1>1. PICK done \in SUBSET (calls \ refused) :
          /\ Operation("EnsureServiceAccounts", calls, done, "EnsureRoleBindings")
          /\ Faultless(calls, refused, done)
          /\ serviceAccounts' = serviceAccounts \cup done
          /\ UNCHANGED <<roles, bindings>>
  BY DEF EnsureServiceAccounts
<1>2. /\ StateOK' /\ AppliedIsExact'
      /\ pending' # TRUE =>
             /\ done = calls /\ ~pending
             /\ batch'.pc = "EnsureRoleBindings"
             /\ batch'.plan = batch.plan /\ batch'.targets = batch.targets
             /\ specs' = specs
  <2>1. UNCHANGED counts \/ Count("faults", MaxFaults)
    BY <1>1, FaultCounted
  <2>2. serviceAccounts' \subseteq (Matching \cap namespaces) \X AllAccounts
    <3>1. Accounts(batch.plan) \subseteq AllAccounts /\ batch.targets \subseteq Matching
      BY AccountsTyped DEF IInv, StateOK
    <3>2. done \subseteq (Matching \cap namespaces) \X AllAccounts
      BY <3>1
    <3> QED
      BY <1>1, <3>2 DEF IInv, StateOK
  <2>3. "EnsureRoleBindings" \in Steps \ {"idle"}
    BY DEF Steps
  <2> HIDE DEF calls, refused
  <2> QED
    BY <1>1, <2>1, <2>2, <2>3, OperationStep
<1>3. CASE pending' = TRUE
  BY <1>2, <1>3, WhilePending DEF IInv
<1>4. CASE pending' # TRUE
  <2>1. batch.pc = "EnsureServiceAccounts" /\ batch.plan = specs /\ RolesThere(batch.plan)
    BY <1>1, <1>2, <1>4 DEF IInv, Progress, Operation
  <2>2. RolesThere(batch.plan)'
    BY <1>1, <1>2, <1>4, <2>1 DEF RolesThere
  <2>3. AccountsThere(batch.plan, batch.targets)'
    BY <1>1, <1>2, <1>4 DEF AccountsThere
  <2>4. Progress'
    BY <1>2, <1>4, <2>1, <2>2, <2>3 DEF Progress, Collecting
  <2> QED
    BY <1>2, <2>4 DEF IInv
<1> QED
  BY <1>3, <1>4

\* What is applied is then there, with the role and the subjects of the plan,
\* unless two calls have one key and different roles.
LEMMA AppliedBindings ==
    ASSUME NEW plan \in Plans, NEW targets,
           NEW done \in SUBSET PlannedBindings(plan, targets), RefusedBy(done, done) = {},
           bindings' = ApplyBindings(done)
    PROVE  done \subseteq AsCalls(bindings')
<1> SUFFICES ASSUME NEW c \in done
             PROVE  c \in AsCalls(bindings')
  OBVIOUS
<1> DEFINE d == CHOOSE d \in done : d.key = c.key
<1>1. d \in done /\ d.key = c.key
  OBVIOUS
<1>2. c.key \in DOMAIN bindings'
      /\ bindings'[c.key] = [roleRef |-> d.roleRef, subjects |-> d.subjects, owner |-> d.owner]
  BY DEF ApplyBindings
<1> HIDE DEF d
<1>3. d.roleRef = c.roleRef
  BY <1>1 DEF RefusedBy
<1>4. d = c
  BY <1>1, <1>3, KeyAndRoleDetermine
<1>5. c = [key |-> c.key, roleRef |-> c.roleRef, subjects |-> c.subjects, owner |-> c.owner]
  BY PlannedBindingFor
<1>6. c = [key |-> c.key, roleRef |-> bindings'[c.key].roleRef,
           subjects |-> bindings'[c.key].subjects, owner |-> bindings'[c.key].owner]
  BY <1>2, <1>4, <1>5
<1> QED
  BY <1>2, <1>6, CallOfBinding

\* A binding that was there and is planned stays: what is applied over it has
\* the role it had, or it would have been refused.
LEMMA BindingsStay ==
    ASSUME NEW plan \in Plans, NEW targets,
           NEW done \in SUBSET PlannedBindings(plan, targets),
           done \cap RefusedBy(ExistingRefs, PlannedBindings(plan, targets)) = {},
           bindings' = ApplyBindings(done),
           NEW c \in AsCalls(bindings), c \in PlannedBindings(plan, targets)
    PROVE  c \in AsCalls(bindings')
<1>1. PICK k \in DOMAIN bindings :
          c = [key |-> k, roleRef |-> bindings[k].roleRef, subjects |-> bindings[k].subjects,
           owner |-> bindings[k].owner]
  BY CallOfBinding
<1>2. k \in DOMAIN bindings'
  BY <1>1 DEF ApplyBindings
<1>3. CASE ~\E x \in done : x.key = k
  <2>1. bindings'[k] = bindings[k]
    BY <1>1, <1>3 DEF ApplyBindings
  <2> QED
    BY <1>1, <1>2, <2>1, CallOfBinding
<1>4. CASE \E x \in done : x.key = k
  <2> DEFINE d == CHOOSE d \in done : d.key = k
  <2>1. d \in done /\ d.key = k
    BY <1>4
  <2>2. bindings'[k] = [roleRef |-> d.roleRef, subjects |-> d.subjects, owner |-> d.owner]
    BY <1>1, <1>4 DEF ApplyBindings
  <2> HIDE DEF d
  <2>3. d.roleRef = bindings[k].roleRef
    <3>1. [key |-> k, roleRef |-> bindings[k].roleRef] \in ExistingRefs
      BY DEF ExistingRefs
    <3> DEFINE e == [key |-> k, roleRef |-> bindings[k].roleRef]
    <3>2. e \in ExistingRefs /\ e.key = d.key /\ e.roleRef = bindings[k].roleRef
      BY <3>1, <2>1
    <3> HIDE DEF e
    <3> QED
      BY <3>2, <2>1 DEF RefusedBy
  <2>4. d = c
    BY <1>1, <2>1, <2>3, KeyAndRoleDetermine
  <2>5. c = [key |-> k, roleRef |-> bindings'[k].roleRef, subjects |-> bindings'[k].subjects,
           owner |-> bindings'[k].owner]
    BY <1>1, <2>2, <2>4
  <2> QED
    BY <1>2, <2>5, CallOfBinding
<1> QED
  BY <1>3, <1>4

\* EnsureRoleBindings leaves every binding of the plan in place, or fails the batch.
LEMMA EnsureRoleBindingsInv ==
    ASSUME IInv, EnsureRoleBindings
    PROVE  IInv'
<1> DEFINE calls == PlannedBindings(batch.plan, batch.targets)
<1>1. PICK done \in SUBSET (calls \ RefusedBy(ExistingRefs, calls)) :
          /\ RefusedBy(done, done) = {}
          /\ Operation("EnsureRoleBindings", calls, done, "GarbageCollectServiceAccounts")
          /\ Faultless(calls, RefusedBy(ExistingRefs \cup done, calls), done)
          /\ bindings' = ApplyBindings(done)
          /\ UNCHANGED <<serviceAccounts, roles>>
  BY DEF EnsureRoleBindings
<1> HIDE DEF calls
<1>2. /\ StateOK' /\ AppliedIsExact'
      /\ pending' # TRUE =>
             /\ done = calls /\ ~pending
             /\ batch'.pc = "GarbageCollectServiceAccounts"
             /\ batch'.plan = batch.plan /\ batch'.targets = batch.targets
             /\ specs' = specs
  <2>1. UNCHANGED counts \/ Count("faults", MaxFaults)
    BY <1>1, FaultCounted
  <2>2. serviceAccounts' \subseteq (Matching \cap namespaces) \X AllAccounts
    BY <1>1 DEF IInv, StateOK
  <2>3. "GarbageCollectServiceAccounts" \in Steps \ {"idle"}
    BY DEF Steps, Collecting
  <2> QED
    BY <1>1, <2>1, <2>2, <2>3, OperationStep
<1>3. CASE pending' = TRUE
  BY <1>2, <1>3, WhilePending DEF IInv
<1>4. CASE pending' # TRUE
  <2>1. /\ batch.pc = "EnsureRoleBindings" /\ batch.plan = specs
        /\ RolesThere(batch.plan) /\ AccountsThere(batch.plan, batch.targets)
    BY <1>1, <1>2, <1>4 DEF IInv, Progress, Operation
  <2>2. RolesThere(batch.plan)' /\ AccountsThere(batch.plan, batch.targets)'
    BY <1>1, <1>2, <1>4, <2>1 DEF RolesThere, AccountsThere
  <2>3. BindingsThere(batch.plan, batch.targets)'
    <3>1. batch.plan \in Plans
      BY DEF IInv, StateOK
    <3>2. done \subseteq AsCalls(bindings')
      BY <1>1, <3>1, AppliedBindings DEF calls
    <3> QED
      BY <1>2, <1>4, <3>2 DEF BindingsThere, calls
  <2>4. Progress'
    BY <1>2, <1>4, <2>1, <2>2, <2>3 DEF Progress
  <2> QED
    BY <1>2, <2>4 DEF IInv
<1> QED
  BY <1>3, <1>4

-----------------------------------------------------------------------------
\* Collecting accounts keeps those of the plan, and leaves no other, or fails the batch.
LEMMA GarbageCollectServiceAccountsInv ==
    ASSUME IInv, GarbageCollectServiceAccounts
    PROVE  IInv'
<1> DEFINE calls == {sa \in serviceAccounts :
                        shouldDeleteServiceAccount(sa, batch.plan, batch.targets)}
<1>1. PICK done \in SUBSET calls :
          /\ Operation("GarbageCollectServiceAccounts", calls, done, "GarbageCollectRoles")
          /\ Faultless(calls, {}, done)
          /\ serviceAccounts' = serviceAccounts \ done
          /\ UNCHANGED <<roles, bindings>>
  BY DEF GarbageCollectServiceAccounts
<1> HIDE DEF calls
<1>2. /\ StateOK' /\ AppliedIsExact'
      /\ pending' # TRUE =>
             /\ done = calls /\ ~pending
             /\ batch'.pc = "GarbageCollectRoles"
             /\ batch'.plan = batch.plan /\ batch'.targets = batch.targets
             /\ specs' = specs
  <2>1. UNCHANGED counts \/ Count("faults", MaxFaults)
    BY <1>1, FaultCounted
  <2>2. serviceAccounts' \subseteq (Matching \cap namespaces) \X AllAccounts
    BY <1>1 DEF IInv, StateOK
  <2>3. "GarbageCollectRoles" \in Steps \ {"idle"}
    BY DEF Steps, Collecting
  <2> QED
    BY <1>1, <2>1, <2>2, <2>3, OperationStep
<1>3. CASE pending' = TRUE
  BY <1>2, <1>3, WhilePending DEF IInv
<1>4. CASE pending' # TRUE
  <2>1. /\ batch.pc = "GarbageCollectServiceAccounts" /\ batch.plan = specs
        /\ RolesThere(batch.plan) /\ AccountsThere(batch.plan, batch.targets)
        /\ BindingsThere(batch.plan, batch.targets)
    BY <1>1, <1>2, <1>4 DEF IInv, Progress, Operation, Collecting
  <2>2. RolesThere(batch.plan)' /\ BindingsThere(batch.plan, batch.targets)'
    BY <1>1, <1>2, <1>4, <2>1 DEF RolesThere, BindingsThere
  <2>3. AccountsThere(batch.plan, batch.targets)'
    BY <1>1, <1>2, <1>4, <2>1 DEF AccountsThere, calls, shouldDeleteServiceAccount
  <2>4. AccountsOnly(batch.plan, batch.targets)'
    <3>1. ASSUME NEW sa \in serviceAccounts'
          PROVE  sa \in batch.targets \X Accounts(batch.plan)
      <4>1. sa \in serviceAccounts /\ sa[1] \in batch.targets /\ sa[2] \in Accounts(batch.plan)
        BY <1>1, <1>2, <1>4 DEF calls, shouldDeleteServiceAccount
      <4>2. sa = <<sa[1], sa[2]>>
        BY <4>1 DEF IInv, StateOK
      <4> QED
        BY <4>1, <4>2
    <3> QED
      BY <3>1, <1>2, <1>4 DEF AccountsOnly
  <2>5. Progress'
    BY <1>2, <1>4, <2>1, <2>2, <2>3, <2>4 DEF Progress
  <2> QED
    BY <1>2, <2>5 DEF IInv
<1> QED
  BY <1>3, <1>4

\* Collecting roles keeps those of the plan, and leaves no other name, or fails the batch.
LEMMA GarbageCollectRolesInv ==
    ASSUME IInv, GarbageCollectRoles
    PROVE  IInv'
<1> DEFINE calls == {k \in DOMAIN roles :
                        k.ns # "" /\ k.name \notin ExpectedRoleNames(batch.plan)}
<1>1. PICK done \in SUBSET calls :
          /\ Operation("GarbageCollectRoles", calls, done, "GarbageCollectRoleBindings")
          /\ Faultless(calls, {}, done)
          /\ roles' = Only(roles, (DOMAIN roles) \ done)
          /\ UNCHANGED <<serviceAccounts, bindings>>
  BY DEF GarbageCollectRoles
<1> HIDE DEF calls
<1>2. /\ StateOK' /\ AppliedIsExact'
      /\ pending' # TRUE =>
             /\ done = calls /\ ~pending
             /\ batch'.pc = "GarbageCollectRoleBindings"
             /\ batch'.plan = batch.plan /\ batch'.targets = batch.targets
             /\ specs' = specs
  <2>1. UNCHANGED counts \/ Count("faults", MaxFaults)
    BY <1>1, FaultCounted
  <2>2. serviceAccounts' \subseteq (Matching \cap namespaces) \X AllAccounts
    BY <1>1 DEF IInv, StateOK
  <2>3. "GarbageCollectRoleBindings" \in Steps \ {"idle"}
    BY DEF Steps, Collecting
  <2> QED
    BY <1>1, <2>1, <2>2, <2>3, OperationStep
<1>3. CASE pending' = TRUE
  BY <1>2, <1>3, WhilePending DEF IInv
<1>4. CASE pending' # TRUE
  <2>1. /\ batch.pc = "GarbageCollectRoles" /\ batch.plan = specs
        /\ RolesThere(batch.plan) /\ AccountsThere(batch.plan, batch.targets)
        /\ BindingsThere(batch.plan, batch.targets) /\ AccountsOnly(batch.plan, batch.targets)
    BY <1>1, <1>2, <1>4 DEF IInv, Progress, Operation, Collecting
  <2>2. /\ AccountsThere(batch.plan, batch.targets)' /\ BindingsThere(batch.plan, batch.targets)'
        /\ AccountsOnly(batch.plan, batch.targets)'
    BY <1>1, <1>2, <1>4, <2>1 DEF AccountsThere, BindingsThere, AccountsOnly
  <2>3. RolesThere(batch.plan)'
    <3>1. \A c \in PlannedRoles(batch.plan) :
              c.key \in DOMAIN roles => c.key \in DOMAIN roles' /\ roles'[c.key] = roles[c.key]
      BY <1>1, NeededRolesExpected DEF calls, Only
    <3> QED
      BY <1>1, <1>2, <1>4, <2>1, <3>1 DEF RolesThere
  <2>4. RolesOnly(batch.plan)'
    BY <1>1, <1>2, <1>4 DEF RolesOnly, calls, Only
  <2>5. Progress'
    BY <1>2, <1>4, <2>1, <2>2, <2>3, <2>4 DEF Progress
  <2> QED
    BY <1>2, <2>5 DEF IInv
<1> QED
  BY <1>3, <1>4

\* The bindings that are not deleted are as they were.
LEMMA DeletedBindings ==
    ASSUME NEW done, DeleteBindings(done)
    PROVE  /\ DOMAIN bindings' = (DOMAIN bindings) \ done
           /\ \A c \in AsCalls(bindings) : c.key \notin done => c \in AsCalls(bindings')
<1>1. \A c \in AsCalls(bindings) : c.key \in DOMAIN bindings
  BY CallOfBinding
<1> QED
  BY <1>1, FewerBindings DEF DeleteBindings

\* Collecting RoleBindings keeps those of the plan, and leaves no other, or fails the batch.
LEMMA GarbageCollectRoleBindingsInv ==
    ASSUME IInv, GarbageCollectRoleBindings
    PROVE  IInv'
<1> DEFINE calls == {k \in DOMAIN bindings :
                        k.ns # "" /\ k \notin ExpectedRoleBindings(batch.plan)}
<1>1. PICK done \in SUBSET calls :
          /\ Operation("GarbageCollectRoleBindings", calls, done,
                       "GarbageCollectClusterRoleBindings")
          /\ Faultless(calls, {}, done)
          /\ DeleteBindings(done)
          /\ UNCHANGED <<serviceAccounts, roles>>
  BY DEF GarbageCollectRoleBindings
<1> HIDE DEF calls
<1>2. /\ StateOK' /\ AppliedIsExact'
      /\ pending' # TRUE =>
             /\ done = calls /\ ~pending
             /\ batch'.pc = "GarbageCollectClusterRoleBindings"
             /\ batch'.plan = batch.plan /\ batch'.targets = batch.targets
             /\ specs' = specs
  <2>1. UNCHANGED counts \/ Count("faults", MaxFaults)
    BY <1>1, FaultCounted
  <2>2. serviceAccounts' \subseteq (Matching \cap namespaces) \X AllAccounts
    BY <1>1 DEF IInv, StateOK
  <2>3. "GarbageCollectClusterRoleBindings" \in Steps \ {"idle"}
    BY DEF Steps, Collecting
  <2> QED
    BY <1>1, <2>1, <2>2, <2>3, OperationStep
<1>3. CASE pending' = TRUE
  BY <1>2, <1>3, WhilePending DEF IInv
<1>4. CASE pending' # TRUE
  <2>1. /\ batch.pc = "GarbageCollectRoleBindings" /\ batch.plan = specs
        /\ RolesThere(batch.plan) /\ AccountsThere(batch.plan, batch.targets)
        /\ BindingsThere(batch.plan, batch.targets) /\ AccountsOnly(batch.plan, batch.targets)
        /\ RolesOnly(batch.plan)
    BY <1>1, <1>2, <1>4 DEF IInv, Progress, Operation, Collecting
  <2>2. /\ RolesThere(batch.plan)' /\ AccountsThere(batch.plan, batch.targets)'
        /\ AccountsOnly(batch.plan, batch.targets)' /\ RolesOnly(batch.plan)'
    BY <1>1, <1>2, <1>4, <2>1 DEF RolesThere, AccountsThere, AccountsOnly, RolesOnly
  <2>3. BindingsThere(batch.plan, batch.targets)'
    <3>1. ASSUME NEW c \in PlannedBindings(batch.plan, batch.targets)
          PROVE  c \in AsCalls(bindings')
      BY <1>1, <2>1, NeededBindingsExpected, DeletedBindings DEF BindingsThere, calls
    <3> QED
      BY <3>1, <1>2, <1>4 DEF BindingsThere
  <2>4. RoleBindingsOnly(batch.plan)'
    BY <1>1, <1>2, <1>4, DeletedBindings DEF RoleBindingsOnly, calls
  <2>5. Progress'
    BY <1>2, <1>4, <2>1, <2>2, <2>3, <2>4 DEF Progress
  <2> QED
    BY <1>2, <2>5 DEF IInv
<1> QED
  BY <1>3, <1>4

\* Collecting ClusterRoleBindings keeps those of the plan, and leaves no other
\* name, or fails the batch.
LEMMA GarbageCollectClusterRoleBindingsInv ==
    ASSUME IInv, GarbageCollectClusterRoleBindings
    PROVE  IInv'
<1> DEFINE calls == {k \in DOMAIN bindings :
                        k.ns = "" /\ k.name \notin ExpectedClusterRoleBindings(batch.plan)}
<1>1. PICK done \in SUBSET calls :
          /\ Operation("GarbageCollectClusterRoleBindings", calls, done, "ApplyBatchPlan")
          /\ Faultless(calls, {}, done)
          /\ DeleteBindings(done)
          /\ UNCHANGED <<serviceAccounts, roles>>
  BY DEF GarbageCollectClusterRoleBindings
<1> HIDE DEF calls
<1>2. /\ StateOK' /\ AppliedIsExact'
      /\ pending' # TRUE =>
             /\ done = calls /\ ~pending
             /\ batch'.pc = "ApplyBatchPlan"
             /\ batch'.plan = batch.plan /\ batch'.targets = batch.targets
             /\ specs' = specs
  <2>1. UNCHANGED counts \/ Count("faults", MaxFaults)
    BY <1>1, FaultCounted
  <2>2. serviceAccounts' \subseteq (Matching \cap namespaces) \X AllAccounts
    BY <1>1 DEF IInv, StateOK
  <2>3. "ApplyBatchPlan" \in Steps \ {"idle"}
    BY DEF Steps, Collecting
  <2> QED
    BY <1>1, <2>1, <2>2, <2>3, OperationStep
<1>3. CASE pending' = TRUE
  BY <1>2, <1>3, WhilePending DEF IInv
<1>4. CASE pending' # TRUE
  <2>1. /\ batch.pc = "GarbageCollectClusterRoleBindings" /\ batch.plan = specs
        /\ RolesThere(batch.plan) /\ AccountsThere(batch.plan, batch.targets)
        /\ BindingsThere(batch.plan, batch.targets) /\ AccountsOnly(batch.plan, batch.targets)
        /\ RolesOnly(batch.plan) /\ RoleBindingsOnly(batch.plan)
    BY <1>1, <1>2, <1>4 DEF IInv, Progress, Operation, Collecting
  <2>2. /\ RolesThere(batch.plan)' /\ AccountsThere(batch.plan, batch.targets)'
        /\ AccountsOnly(batch.plan, batch.targets)' /\ RolesOnly(batch.plan)'
    BY <1>1, <1>2, <1>4, <2>1 DEF RolesThere, AccountsThere, AccountsOnly, RolesOnly
  <2>3. BindingsThere(batch.plan, batch.targets)'
    <3>1. ASSUME NEW c \in PlannedBindings(batch.plan, batch.targets)
          PROVE  c \in AsCalls(bindings')
      BY <1>1, <2>1, NeededBindingsExpected, DeletedBindings DEF BindingsThere, calls
    <3> QED
      BY <3>1, <1>2, <1>4 DEF BindingsThere
  <2>4. RoleBindingsOnly(batch.plan)'
    BY <1>1, <1>2, <1>4, <2>1, DeletedBindings DEF RoleBindingsOnly
  <2>5. ClusterRoleBindingsOnly(batch.plan)'
    BY <1>1, <1>2, <1>4, DeletedBindings DEF ClusterRoleBindingsOnly, calls
  <2>6. Progress'
    BY <1>2, <1>4, <2>1, <2>2, <2>3, <2>4, <2>5 DEF Progress
  <2> QED
    BY <1>2, <2>6 DEF IInv
<1> QED
  BY <1>3, <1>4

\* A batch that ends with nothing waiting leaves the cluster as planned.
LEMMA ApplyBatchPlanInv ==
    ASSUME IInv, ApplyBatchPlan
    PROVE  IInv'
<1>1. /\ batch.pc = "ApplyBatchPlan" /\ batch' = Idle
      /\ applied' = [plan |-> batch.plan, targets |-> batch.targets]
      /\ UNCHANGED <<environment, cluster, namespaceCache, pending, counts>>
  BY DEF ApplyBatchPlan
<1>2. StateOK'
  BY <1>1, EmptyPlan DEF IInv, StateOK, Idle, Steps, environment, cluster
<1>3. Progress'
  BY <1>1 DEF Progress, Idle
<1>4. CASE pending
  BY <1>1, <1>2, <1>3, <1>4 DEF IInv, AppliedIsExact, AtRest
<1>5. CASE ~pending
  <2>1. /\ batch.plan = specs
        /\ RolesThere(specs) /\ RolesOnly(specs)
        /\ AccountsThere(specs, batch.targets) /\ AccountsOnly(specs, batch.targets)
        /\ BindingsThere(specs, batch.targets)
        /\ RoleBindingsOnly(specs) /\ ClusterRoleBindingsOnly(specs)
    BY <1>1, <1>5 DEF IInv, Progress, Collecting
  <2>2. AsCalls(bindings) \ PlannedBindings(specs, batch.targets) \subseteq KeptForTheirName(specs)
    <3> SUFFICES ASSUME NEW c \in AsCalls(bindings),
                        c \notin PlannedBindings(specs, batch.targets)
                 PROVE  c \in KeptForTheirName(specs)
      OBVIOUS
    <3>1. PICK k \in DOMAIN bindings :
              c = [key |-> k, roleRef |-> bindings[k].roleRef, subjects |-> bindings[k].subjects,
           owner |-> bindings[k].owner]
      BY CallOfBinding
    <3>2. CASE k.ns # ""
      <4>0. k \in ExpectedRoleBindings(specs)
        BY <2>1, <3>1, <3>2 DEF RoleBindingsOnly
      <4>1. PICK d \in PlannedBindings(specs, batch.targets) : d.key = k
        BY <4>0, ExpectedBindingsNeeded
      <4>2. d \in AsCalls(bindings)
        BY <2>1 DEF BindingsThere
      <4>3. d = c
        BY <3>1, <4>1, <4>2, CallOfBinding
      <4> QED
        BY <4>3
    <3>3. CASE k.ns = ""
      BY <2>1, <3>1, <3>3 DEF ClusterRoleBindingsOnly, KeptForTheirName
    <3> QED
      BY <3>2, <3>3
  <2>3. /\ applied'.plan = specs /\ applied'.targets = batch.targets
        /\ UNCHANGED <<specs, serviceAccounts, roles, bindings>>
    BY <1>1, <2>1 DEF environment, cluster
  <2>4. serviceAccounts = batch.targets \X Accounts(specs)
    BY <2>1 DEF AccountsThere, AccountsOnly
  <2>5. AppliedIsExact'
    BY <2>1, <2>2, <2>3, <2>4 DEF AppliedIsExact, RolesThere, RolesOnly, BindingsThere,
       KeptForTheirName, OwnedRoles
  <2> QED
    BY <1>2, <1>3, <2>5 DEF IInv
<1> QED
  BY <1>4, <1>5

-----------------------------------------------------------------------------
\* The invariant is inductive.
LEMMA NextInv == IInv /\ [Next]_vars => IInv'
<1> SUFFICES ASSUME IInv, [Next]_vars PROVE IInv'
  OBVIOUS
<1>1. CASE \E r \in Resource : DeleteWSA(r) \/ \E spec \in SpecChoice : WriteWSA(r, spec)
  BY <1>1, WriteWSAInv, DeleteWSAInv
<1>2. CASE \E n \in Namespace : InstallAgent(n) \/ RemoveAgent(n) \/ DeleteNamespace(n)
  BY <1>2, InstallAgentInv, RemoveAgentInv, DeleteNamespaceInv
<1>3. CASE KubernetesGC \/ ExpireNamespaceCache
  BY <1>3, KubernetesGCInv, ExpireNamespaceCacheInv
<1>4. CASE Planning \/ Validation
  BY <1>4, PlanningInv, ValidationInv
<1>5. CASE Execution
  BY <1>5, EnsureRolesInv, EnsureServiceAccountsInv, EnsureRoleBindingsInv,
     GarbageCollectServiceAccountsInv, GarbageCollectRolesInv, GarbageCollectRoleBindingsInv,
     GarbageCollectClusterRoleBindingsInv, ApplyBatchPlanInv DEF Execution
<1>6. CASE UNCHANGED vars
  <2>1. StateOK'
    BY <1>6 DEF IInv, StateOK, vars, environment, cluster
  <2>2. Progress' /\ AppliedIsExact'
    BY <1>6, Undisturbed DEF IInv, vars, environment, cluster
  <2> QED
    BY <2>1, <2>2 DEF IInv
<1> QED
  BY <1>1, <1>2, <1>3, <1>4, <1>5, <1>6 DEF Next, Work

\* The inductive invariant holds in every reachable state.
THEOREM InvariantHolds == Spec => []IInv
BY InitInv, NextInv, PTL DEF Spec

\* Types: every target, and every account that is written, is in a namespace
\* that the regular expression matches (Discovered, EnsureServiceAccounts).
THEOREM TypeCorrect == Spec => []TypeOK
<1>1. IInv => TypeOK
  <2> SUFFICES ASSUME IInv PROVE TypeOK
    OBVIOUS
  <2>1. DOMAIN specs \subseteq Resource /\ \A r \in DOMAIN specs : specs[r] \in SpecChoice
    BY DEF IInv, StateOK, Plans
  <2>2. \A sa \in serviceAccounts : sa[1] \in Matching \cap namespaces
    BY DEF IInv, StateOK
  <2>3. /\ namespaceCache.valid \in BOOLEAN /\ namespaceCache.list \subseteq Matching
        /\ batch.targets \subseteq Matching
    BY DEF IInv, StateOK
  <2> QED
    BY <2>1, <2>2, <2>3 DEF IInv, StateOK, TypeOK, Counts
<1> QED
  BY <1>1, InvariantHolds, PTL

\* A batch that succeeds with nothing having changed leaves the accounts, roles
\* and bindings of the WSAs that exist, and no other but those named in
\* AppliedIsExact (the operations of ExecutionStage.Execute).
THEOREM BatchesAreExact == Spec => []AppliedIsExact
BY InvariantHolds, PTL DEF IInv

\* No step of an execution takes away what its plan keeps: what the collections
\* keep contains what is applied, and an apply over a planned binding repeats it.
THEOREM NothingInterrupted == Spec => NoInterruption
<1> DEFINE Kept ==
        /\ serviceAccounts \cap (batch.targets \X Accounts(batch.plan)) \subseteq serviceAccounts'
        /\ {c.key : c \in PlannedRoles(batch.plan)} \cap DOMAIN roles \subseteq DOMAIN roles'
        /\ AsCalls(bindings) \cap PlannedBindings(batch.plan, batch.targets)
               \subseteq AsCalls(bindings')
<1>1. ASSUME IInv, Execution PROVE Kept
  <2>1. CASE EnsureRoles
    BY <2>1, AppliedRoles DEF EnsureRoles
  <2>2. CASE EnsureServiceAccounts
    BY <2>2 DEF EnsureServiceAccounts
  <2>3. CASE EnsureRoleBindings
    <3> DEFINE calls == PlannedBindings(batch.plan, batch.targets)
    <3>1. PICK done \in SUBSET (calls \ RefusedBy(ExistingRefs, calls)) :
              /\ bindings' = ApplyBindings(done)
              /\ UNCHANGED <<serviceAccounts, roles>>
      BY <2>3 DEF EnsureRoleBindings
    <3>2. batch.plan \in Plans
      BY <1>1 DEF IInv, StateOK
    <3>3. AsCalls(bindings) \cap calls \subseteq AsCalls(bindings')
      BY <3>1, <3>2, BindingsStay
    <3> QED
      BY <3>1, <3>3
  <2>4. CASE GarbageCollectServiceAccounts
    BY <2>4 DEF GarbageCollectServiceAccounts, shouldDeleteServiceAccount
  <2>5. CASE GarbageCollectRoles
    BY <2>5, NeededRolesExpected DEF GarbageCollectRoles, Only
  <2>6. CASE GarbageCollectRoleBindings
    <3>1. PICK done : /\ \A k \in done : k.ns # "" /\ k \notin ExpectedRoleBindings(batch.plan)
                      /\ DeleteBindings(done)
                      /\ UNCHANGED <<serviceAccounts, roles>>
      BY <2>6 DEF GarbageCollectRoleBindings
    <3> QED
      BY <3>1, NeededBindingsExpected, DeletedBindings
  <2>7. CASE GarbageCollectClusterRoleBindings
    <3>1. PICK done : /\ \A k \in done :
                            k.ns = "" /\ k.name \notin ExpectedClusterRoleBindings(batch.plan)
                      /\ DeleteBindings(done)
                      /\ UNCHANGED <<serviceAccounts, roles>>
      BY <2>7 DEF GarbageCollectClusterRoleBindings
    <3> QED
      BY <3>1, NeededBindingsExpected, DeletedBindings
  <2>8. CASE ApplyBatchPlan
    BY <2>8 DEF ApplyBatchPlan, cluster
  <2> QED
    BY <1>1, <2>1, <2>2, <2>3, <2>4, <2>5, <2>6, <2>7, <2>8 DEF Execution
<1>2. IInv /\ [Next]_vars => [Execution => Kept]_vars
  BY <1>1
<1> QED
  BY <1>2, InvariantHolds, PTL DEF Spec, NoInterruption
=============================================================================
