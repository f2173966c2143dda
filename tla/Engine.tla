------------------------------- MODULE Engine -------------------------------
(***************************************************************************)
(* InMemoryEngine (internal/rules/engine.go): the maps the pod webhook and *)
(* the finalizer logic read, and the ways they are replaced.               *)
(*                                                                         *)
(* A batch worker (orchestrator or retry goroutine) lists the resources,   *)
(* computes a plan and publishes it: ApplyBatchPlan at the end of the      *)
(* execution stage, RebuildStateFromCluster after a permanent failure.  A  *)
(* syncer (StateSyncer of a replica that does not lead) does the same with *)
(* RefreshScopeMappings, which leaves saToWsaMap alone.  Listing takes two *)
(* calls (WSAs, then CWSAs) and no lock; only the swap of the maps holds   *)
(* the engine's mutex, so it is one step, and so is a webhook's lookup.    *)
(***************************************************************************)
EXTENDS ScopeComputation

CONSTANTS
    ClusterName,    \* the names in Name that are ClusterWorkloadServiceAccounts
    ScopeChoice,    \* the scopes users write
    Batchers,       \* workers that apply plans and rebuild
    Syncers,        \* workers that refresh the scope mappings only
    MaxChanges      \* bound: writes of users to the API server

ASSUME EngineAssumption ==
    /\ ClusterName \subseteq Name
    /\ ScopeChoice \subseteq WSAScope
    /\ Batchers \cap Syncers = {}
    /\ MaxChanges \in Nat

VARIABLES
    wsas,           \* API server: the resources without a deletion timestamp
    changes,        \* users' writes so far
    step,           \* per worker: "idle", "wsas" (listed), "computed"
    listed,         \* per worker: the resources its lists returned
    scopeToSA,      \* the engine's maps
    vocabulary,
    saToWsaMap,
    served,         \* ghost: the resources scopeToSA was computed from
    planned         \* ghost: the resources saToWsaMap was computed from

vars == <<wsas, changes, step, listed, scopeToSA, vocabulary, saToWsaMap,
          served, planned>>

Worker == Batchers \cup Syncers

NoResources == [w \in {} |-> NewGlobalVocabulary]

ClusterResources == UNION {[S -> ScopeChoice] : S \in SUBSET Name}

\* The resources of a list that are in S.
OnlyIn(R, S) == [w \in (DOMAIN R) \cap S |-> R[w]]

\* Two lists together.
Both(R, S) ==
    [w \in (DOMAIN R) \cup (DOMAIN S) |-> IF w \in DOMAIN R THEN R[w] ELSE S[w]]

\* NewInMemoryEngine: empty maps; the cluster holds whatever it held before.
Init ==
    /\ wsas \in ClusterResources
    /\ changes = 0
    /\ step = [k \in Worker |-> "idle"]
    /\ listed = [k \in Worker |-> NoResources]
    /\ scopeToSA = scopeToServiceAccount(ComputeScopesForWSAs(NoResources))
    /\ vocabulary = NewGlobalVocabulary
    /\ saToWsaMap \in serviceAccountToWSAs(ComputeScopesForWSAs(NoResources))
    /\ served = NoResources
    /\ planned = NoResources

engineMaps == <<scopeToSA, vocabulary, saToWsaMap, served, planned>>

-----------------------------------------------------------------------------
\* Users.  The validating webhook refuses a namespaced WSA without any scope,
\* on creation only; CWSAs and updates are not validated.
ValidateCreate(w, s) == w \in ClusterName \/ \E d \in Dim : s[d] # {}

CreateWSA(w, s) ==
    /\ changes < MaxChanges
    /\ w \notin DOMAIN wsas
    /\ ValidateCreate(w, s)
    /\ wsas' = [x \in (DOMAIN wsas) \cup {w} |-> IF x = w THEN s ELSE wsas[x]]
    /\ changes' = changes + 1
    /\ UNCHANGED <<step, listed, engineMaps>>

UpdateWSA(w, s) ==
    /\ changes < MaxChanges
    /\ w \in DOMAIN wsas
    /\ s # wsas[w]
    /\ wsas' = [wsas EXCEPT ![w] = s]
    /\ changes' = changes + 1
    /\ UNCHANGED <<step, listed, engineMaps>>

\* From the deletion timestamp on, every list of the engine skips it.
DeleteWSA(w) ==
    /\ changes < MaxChanges
    /\ w \in DOMAIN wsas
    /\ wsas' = OnlyIn(wsas, Name \ {w})
    /\ changes' = changes + 1
    /\ UNCHANGED <<step, listed, engineMaps>>

-----------------------------------------------------------------------------
\* computeStateFromCluster and PlanningStage.getAllResources: two lists.
ListWSAs(k) ==
    /\ step[k] = "idle"
    /\ listed' = [listed EXCEPT ![k] = OnlyIn(wsas, Name \ ClusterName)]
    /\ step' = [step EXCEPT ![k] = "wsas"]
    /\ UNCHANGED <<wsas, changes, engineMaps>>

ListCWSAs(k) ==
    /\ step[k] = "wsas"
    /\ listed' = [listed EXCEPT ![k] = Both(listed[k], OnlyIn(wsas, ClusterName))]
    /\ step' = [step EXCEPT ![k] = "computed"]
    /\ UNCHANGED <<wsas, changes, engineMaps>>

\* A list fails, or a later stage of the batch does: nothing is published.
GiveUp(k) ==
    /\ step[k] # "idle"
    /\ step' = [step EXCEPT ![k] = "idle"]
    /\ listed' = [listed EXCEPT ![k] = NoResources]
    /\ UNCHANGED <<wsas, changes, engineMaps>>

\* The worker is done with what it listed.
Finish(k) ==
    /\ step' = [step EXCEPT ![k] = "idle"]
    /\ listed' = [listed EXCEPT ![k] = NoResources]

\* A bug: the vocabulary is left as it was when the names are replaced.
Mut_PublishScopes(R) ==
    /\ scopeToSA' = scopeToServiceAccount(ComputeScopesForWSAs(R))
    /\ vocabulary' = vocabulary
    /\ served' = R

\* The maps the webhook reads: names, and the vocabulary that leads to them.
PublishScopes(R) ==
    /\ scopeToSA' = scopeToServiceAccount(ComputeScopesForWSAs(R))
    /\ vocabulary' = buildGlobalVocabulary(R)
    /\ served' = R

\* All three maps are replaced by those computed from a worker's lists.
PublishAll(k) ==
    /\ step[k] = "computed"
    /\ PublishScopes(listed[k])
    /\ saToWsaMap' \in serviceAccountToWSAs(ComputeScopesForWSAs(listed[k]))
    /\ planned' = listed[k]
    /\ Finish(k)
    /\ UNCHANGED <<wsas, changes>>

\* A bug: the new accounts are added to the map, none is dropped from it.
Mut_ApplyBatchPlan(k) ==
    /\ step[k] = "computed"
    /\ PublishScopes(listed[k])
    /\ \E f \in serviceAccountToWSAs(ComputeScopesForWSAs(listed[k])) :
          saToWsaMap' = Both(f, saToWsaMap)
    /\ planned' = listed[k]
    /\ Finish(k)
    /\ UNCHANGED <<wsas, changes>>

\* The execution stage's last call, with the plan of the planning stage.
ApplyBatchPlan(k) == PublishAll(k)

\* After a permanent failure.  The failed batch's own lists are gone (GiveUp)
\* and the rebuild lists anew, in the same two steps.
RebuildStateFromCluster(k) == PublishAll(k)

\* StateSyncer: names and vocabulary only.
RefreshScopeMappings(k) ==
    /\ step[k] = "computed"
    /\ PublishScopes(listed[k])
    /\ Finish(k)
    /\ UNCHANGED <<wsas, changes, saToWsaMap, planned>>

Next ==
    \/ \E w \in Name, s \in ScopeChoice : CreateWSA(w, s) \/ UpdateWSA(w, s)
    \/ \E w \in Name : DeleteWSA(w)
    \/ \E k \in Worker : ListWSAs(k) \/ ListCWSAs(k) \/ GiveUp(k)
    \/ \E k \in Batchers : ApplyBatchPlan(k) \/ RebuildStateFromCluster(k)
    \/ \E k \in Syncers : RefreshScopeMappings(k)

Spec == Init /\ [][Next]_vars

-----------------------------------------------------------------------------
\* Readers of the maps.
GetServiceAccountForScope(scope) ==
    LookupServiceAccount(vocabulary, scopeToSA, scope)

IsWSAInMaps(w) == \E n \in DOMAIN saToWsaMap : w \in saToWsaMap[n]

-----------------------------------------------------------------------------
\* The types of the engine's maps and of the lists in flight: in particular no
\* wildcard is in the vocabulary, and only known scopes have a name.
TypeOK ==
    /\ wsas \in ResourceList
    /\ changes \in 0..MaxChanges
    /\ step \in [Worker -> {"idle", "wsas", "computed"}]
    /\ listed \in [Worker -> ResourceList]
    /\ vocabulary \in GlobalVocabulary
    /\ DOMAIN scopeToSA \subseteq KnownScope
    /\ \A n \in DOMAIN saToWsaMap : saToWsaMap[n] \subseteq Name
    /\ served \in ResourceList
    /\ planned \in ResourceList

(***************************************************************************)
(* Whatever publications and changes interleave, the webhook's lookup      *)
(* (GetServiceAccountForScope on scopeToSA and vocabulary) answers every   *)
(* pod scope as the definition of "applies" does on one list of resources: *)
(* no account when no WSA applies, otherwise the account of exactly the    *)
(* set of WSAs that apply.  It fails when names and vocabulary come from   *)
(* different lists or when the enumeration misses or adds a scope.         *)
(***************************************************************************)
LookupMatchesResources ==
    LET scopeMap == ComputeScopesForWSAs(served)
    IN  \A scope \in PodScope :
            LET applicable == ApplicableWSAs(served, scope)
            IN  GetServiceAccountForScope(scope) =
                    IF applicable = {} THEN NoServiceAccount
                    ELSE GroupName(scopeMap, applicable)

(***************************************************************************)
(* The account a pod is given is a subject of the role bindings of every   *)
(* WSA that applies to the pod (wsaToServiceAccountNames of the same plan, *)
(* which EnsureRoleBindings writes): no applicable permission is missing.  *)
(***************************************************************************)
ApplicableWSAsAreBound ==
    LET scopeMap == ComputeScopesForWSAs(served)
    IN  \A scope \in PodScope : \A w \in ApplicableWSAs(served, scope) :
            GetServiceAccountForScope(scope) \in wsaToServiceAccountNames(scopeMap, w)

(***************************************************************************)
(* saToWsaMap holds no WSA that the last plan or rebuild did not list.     *)
(* handleDeletion waits while IsWSAInMaps, so a leftover would keep the    *)
(* finalizer of a deleted WSA forever.                                     *)
(***************************************************************************)
OnlyPlannedWSAsInMaps == \A w \in Name : IsWSAInMaps(w) => w \in DOMAIN planned

(***************************************************************************)
(* "Create one SA per unique WSA set" (generator.go:345): different sets   *)
(* of WSAs get different service accounts.                                 *)
(***************************************************************************)
OneSAPerWSASet ==
    LET scopeMap == ComputeScopesForWSAs(served)
    IN  \A g, h \in groupScopesByWSASet(scopeMap) :
            GroupName(scopeMap, g) = GroupName(scopeMap, h) => g = h
=============================================================================
