---------------------------- MODULE EngineProofs ----------------------------
(***************************************************************************)
(* The engine's maps answer as the definition of "applies" says, for every *)
(* number of dimensions, values, resources and workers.                    *)
(*                                                                         *)
(* The argument: in one dimension, the known value of a pod's value is in  *)
(* a WSA's coverage exactly when the WSA is unconstrained there or lists   *)
(* the pod's value (a value some WSA lists is in the vocabulary, so it is  *)
(* kept; any other becomes the wildcard, which no WSA lists).  Hence the   *)
(* group of the known scope is the set of applicable WSAs.  Every          *)
(* publication replaces names and vocabulary by those of one list, which   *)
(* is what the inductive invariant states.                                 *)
(***************************************************************************)
EXTENDS Engine, TLAPS

(***************************************************************************)
(* A resource list is a function from some of the names to scopes.         *)
(***************************************************************************)
LEMMA ResourceListDef ==
    \A R : R \in ResourceList <=>
        /\ DOMAIN R \subseteq Name
        /\ R \in [DOMAIN R -> WSAScope]
  BY DEF ResourceList

(***************************************************************************)
(* A vocabulary built from resources holds listed values only.             *)
(***************************************************************************)
LEMMA VocabularyType ==
    ASSUME NEW R \in ResourceList
    PROVE  buildGlobalVocabulary(R) \in GlobalVocabulary
  BY ResourceListDef DEF buildGlobalVocabulary, GlobalVocabulary, WSAScope

(***************************************************************************)
(* GetKnownScopeCombination yields a scope the enumeration can meet.       *)
(***************************************************************************)
LEMMA KnownScopeType ==
    ASSUME NEW v \in GlobalVocabulary, NEW scope \in PodScope
    PROVE  GetKnownScopeCombination(v, scope) \in KnownScope
  BY DEF GlobalVocabulary, PodScope, KnownScope, GetKnownScopeCombination

(***************************************************************************)
(* computeWSACoverage against the definition of "applies": a pod's known   *)
(* scope is covered by exactly the WSAs that apply to the pod.             *)
(***************************************************************************)
LEMMA CoverageIsApplicability ==
    ASSUME NEW R \in ResourceList, NEW scope \in PodScope, NEW w \in DOMAIN R
    PROVE  GetKnownScopeCombination(buildGlobalVocabulary(R), scope)
               \in computeWSACoverage(R[w], buildGlobalVocabulary(R))
           <=> Applies(R[w], scope)
<1> DEFINE v == buildGlobalVocabulary(R)
           k == GetKnownScopeCombination(v, scope)
<1>1. v \in GlobalVocabulary /\ k \in KnownScope
  BY VocabularyType, KnownScopeType
<1>2. R[w] \in WSAScope
  BY ResourceListDef
<1>3. ASSUME NEW d \in Dim
      PROVE  k[d] \in dimensionCoverage(R[w], v, d)
             <=> R[w][d] = {} \/ scope[d] \in R[w][d]
  <2>1. v[d] = UNION {R[x][d] : x \in DOMAIN R}
    BY DEF buildGlobalVocabulary
  <2>2. R[w][d] \subseteq v[d]
    BY <2>1
  <2>3. R[w][d] \subseteq Val
    BY <1>2 DEF WSAScope
  <2>4. k[d] = IF scope[d] \in v[d] THEN scope[d] ELSE WildcardValue
    BY DEF GetKnownScopeCombination
  <2>5. CASE R[w][d] = {}
    BY <2>4, <2>5 DEF dimensionCoverage
  <2>6. CASE R[w][d] # {}
    <3>1. dimensionCoverage(R[w], v, d) = R[w][d]
      BY <2>6 DEF dimensionCoverage
    <3>2. WildcardValue \notin R[w][d]
      BY <2>3, ScopeValuesAssumption
    <3>3. QED
      BY <2>2, <2>4, <2>6, <3>1, <3>2
  <2>7. QED
    BY <2>5, <2>6
<1>4. k \in computeWSACoverage(R[w], v)
      <=> \A d \in Dim : k[d] \in dimensionCoverage(R[w], v, d)
  BY <1>1 DEF computeWSACoverage
<1>5. QED
  BY <1>3, <1>4 DEF Applies

(***************************************************************************)
(* The lookup on the maps of one list of resources: no account when no WSA *)
(* applies, else the account of the set of WSAs that apply.                *)
(***************************************************************************)
LEMMA LookupIsExact ==
    ASSUME NEW R \in ResourceList, NEW scope \in PodScope
    PROVE  LookupServiceAccount(buildGlobalVocabulary(R),
               scopeToServiceAccount(ComputeScopesForWSAs(R)), scope)
           = IF ApplicableWSAs(R, scope) = {} THEN NoServiceAccount
             ELSE GroupName(ComputeScopesForWSAs(R), ApplicableWSAs(R, scope))
<1> DEFINE v == buildGlobalVocabulary(R)
           k == GetKnownScopeCombination(v, scope)
           m == ComputeScopesForWSAs(R)
<1>1. \A w \in DOMAIN R : k \in computeWSACoverage(R[w], v)
                          <=> Applies(R[w], scope)
  BY CoverageIsApplicability
<1>2. k \in DOMAIN m <=> ApplicableWSAs(R, scope) # {}
  BY <1>1 DEF ComputeScopesForWSAs, computeMinimalServiceAccountScopes, ApplicableWSAs
<1>3. k \in DOMAIN m => m[k] = ApplicableWSAs(R, scope)
  BY <1>1 DEF ComputeScopesForWSAs, computeMinimalServiceAccountScopes,
              findScopeIntersections, ApplicableWSAs
<1>4. /\ DOMAIN scopeToServiceAccount(m) = DOMAIN m
      /\ k \in DOMAIN m => scopeToServiceAccount(m)[k] = GroupName(m, m[k])
  BY DEF scopeToServiceAccount
<1> HIDE DEF m, k, v
<1>5. LookupServiceAccount(v, scopeToServiceAccount(m), scope)
      = IF k \in DOMAIN m THEN GroupName(m, m[k]) ELSE NoServiceAccount
  BY <1>4 DEF LookupServiceAccount, k
<1>6. QED
  BY <1>2, <1>3, <1>5 DEF m, v

-----------------------------------------------------------------------------
(***************************************************************************)
(* The state the maps are in: what the webhook reads was computed from the *)
(* one list served, saToWsaMap from the one list planned.                  *)
(***************************************************************************)
Published ==
    /\ vocabulary = buildGlobalVocabulary(served)
    /\ scopeToSA = scopeToServiceAccount(ComputeScopesForWSAs(served))
    /\ saToWsaMap \in serviceAccountToWSAs(ComputeScopesForWSAs(planned))

\* The lists in flight and behind the maps are resource lists.
ListsOK ==
    /\ wsas \in ResourceList
    /\ listed \in [Worker -> ResourceList]
    /\ served \in ResourceList
    /\ planned \in ResourceList

IInv == ListsOK /\ Published

(***************************************************************************)
(* The list operations of the model stay within resource lists.            *)
(***************************************************************************)
LEMMA ListOperations ==
    /\ NoResources \in ResourceList
    /\ \A R \in ResourceList : \A S : OnlyIn(R, S) \in ResourceList
    /\ \A R, S \in ResourceList : Both(R, S) \in ResourceList
<1>1. NoResources \in ResourceList
  BY ResourceListDef DEF NoResources
<1>2. ASSUME NEW R \in ResourceList, NEW S
      PROVE  OnlyIn(R, S) \in ResourceList
  <2>1. DOMAIN R \subseteq Name /\ R \in [DOMAIN R -> WSAScope]
    BY ResourceListDef
  <2>2. /\ DOMAIN OnlyIn(R, S) \subseteq Name
        /\ OnlyIn(R, S) \in [DOMAIN OnlyIn(R, S) -> WSAScope]
    BY <2>1 DEF OnlyIn
  <2>3. QED
    BY <2>2, ResourceListDef
<1>3. ASSUME NEW R \in ResourceList, NEW S \in ResourceList
      PROVE  Both(R, S) \in ResourceList
  <2>1. /\ DOMAIN R \subseteq Name /\ R \in [DOMAIN R -> WSAScope]
        /\ DOMAIN S \subseteq Name /\ S \in [DOMAIN S -> WSAScope]
    BY ResourceListDef
  <2>2. /\ DOMAIN Both(R, S) \subseteq Name
        /\ Both(R, S) \in [DOMAIN Both(R, S) -> WSAScope]
    BY <2>1 DEF Both
  <2>3. QED
    BY <2>2, ResourceListDef
<1>4. QED
  BY <1>1, <1>2, <1>3

(***************************************************************************)
(* Users' writes keep the API server's content a resource list.            *)
(***************************************************************************)
LEMMA WritesTyped ==
    ASSUME wsas \in ResourceList, NEW w \in Name, NEW s \in WSAScope
    PROVE  /\ [x \in (DOMAIN wsas) \cup {w} |-> IF x = w THEN s ELSE wsas[x]]
                  \in ResourceList
           /\ w \in DOMAIN wsas => [wsas EXCEPT ![w] = s] \in ResourceList
<1>1. DOMAIN wsas \subseteq Name /\ wsas \in [DOMAIN wsas -> WSAScope]
  BY ResourceListDef
<1> DEFINE f == [x \in (DOMAIN wsas) \cup {w} |-> IF x = w THEN s ELSE wsas[x]]
           g == [wsas EXCEPT ![w] = s]
<1>2. DOMAIN f \subseteq Name /\ f \in [DOMAIN f -> WSAScope]
  BY <1>1
<1>3. ASSUME w \in DOMAIN wsas
      PROVE  DOMAIN g \subseteq Name /\ g \in [DOMAIN g -> WSAScope]
  BY <1>1, <1>3
<1>4. QED
  BY <1>2, <1>3, ResourceListDef

(***************************************************************************)
(* The empty engine of NewInMemoryEngine is the one of no resources.       *)
(***************************************************************************)
LEMMA InitIInv == Init => IInv
<1> SUFFICES ASSUME Init PROVE IInv
  OBVIOUS
<1>1. wsas \in ResourceList
  BY EngineAssumption, ResourceListDef DEF Init, ClusterResources
<1>2. NewGlobalVocabulary = buildGlobalVocabulary(NoResources)
  BY DEF NewGlobalVocabulary, buildGlobalVocabulary, NoResources
<1>3. QED
  BY <1>1, <1>2, ListOperations DEF Init, IInv, ListsOK, Published

(***************************************************************************)
(* Every step keeps the maps those of one list.                            *)
(***************************************************************************)
LEMMA NextIInv == IInv /\ [Next]_vars => IInv'
<1> SUFFICES ASSUME IInv, [Next]_vars PROVE IInv'
  OBVIOUS
<1> USE DEF IInv
<1>1. ASSUME NEW w \in Name, NEW s \in ScopeChoice, CreateWSA(w, s)
      PROVE  IInv'
  BY <1>1, WritesTyped, EngineAssumption
     DEF CreateWSA, ListsOK, Published, engineMaps
<1>2. ASSUME NEW w \in Name, NEW s \in ScopeChoice, UpdateWSA(w, s)
      PROVE  IInv'
  BY <1>2, WritesTyped, EngineAssumption
     DEF UpdateWSA, ListsOK, Published, engineMaps
<1>3. ASSUME NEW w \in Name, DeleteWSA(w)
      PROVE  IInv'
  BY <1>3, ListOperations DEF DeleteWSA, ListsOK, Published, engineMaps
<1>4. ASSUME NEW k \in Worker, ListWSAs(k)
      PROVE  IInv'
  BY <1>4, ListOperations DEF ListWSAs, ListsOK, Published, engineMaps
<1>5. ASSUME NEW k \in Worker, ListCWSAs(k)
      PROVE  IInv'
  BY <1>5, ListOperations DEF ListCWSAs, ListsOK, Published, engineMaps
<1>6. ASSUME NEW k \in Worker, GiveUp(k)
      PROVE  IInv'
  BY <1>6, ListOperations DEF GiveUp, ListsOK, Published, engineMaps
<1>7. ASSUME NEW k \in Batchers, PublishAll(k)
      PROVE  IInv'
  BY <1>7, ListOperations
     DEF PublishAll, PublishScopes, Finish, ListsOK, Published, Worker
<1>8. ASSUME NEW k \in Syncers, RefreshScopeMappings(k)
      PROVE  IInv'
  BY <1>8, ListOperations
     DEF RefreshScopeMappings, PublishScopes, Finish, ListsOK, Published, Worker
<1>9. CASE UNCHANGED vars
  BY <1>9 DEF vars, ListsOK, Published
<1>10. QED
  BY <1>1, <1>2, <1>3, <1>4, <1>5, <1>6, <1>7, <1>8, <1>9
     DEF Next, ApplyBatchPlan, RebuildStateFromCluster

(***************************************************************************)
(* The maps are always those of one list of resources.                     *)
(***************************************************************************)
THEOREM MapsOfOneList == Spec => []IInv
  BY InitIInv, NextIInv, PTL DEF Spec

(***************************************************************************)
(* GetServiceAccountForScope answers every pod scope as "applies" says.    *)
(***************************************************************************)
THEOREM LookupCorrect == Spec => []LookupMatchesResources
<1>1. IInv => LookupMatchesResources
  BY LookupIsExact DEF IInv, ListsOK, Published, LookupMatchesResources,
                       GetServiceAccountForScope
<1>2. QED
  BY <1>1, MapsOfOneList, PTL

(***************************************************************************)
(* A pod's account is bound by every WSA that applies to the pod.          *)
(***************************************************************************)
THEOREM BindingsCorrect == Spec => []ApplicableWSAsAreBound
<1>1. ASSUME IInv, NEW scope \in PodScope, NEW w \in ApplicableWSAs(served, scope)
      PROVE  GetServiceAccountForScope(scope)
                 \in wsaToServiceAccountNames(ComputeScopesForWSAs(served), w)
  <2> DEFINE m == ComputeScopesForWSAs(served)
             v == buildGlobalVocabulary(served)
             k == GetKnownScopeCombination(v, scope)
             g == ApplicableWSAs(served, scope)
  <2>1. GetServiceAccountForScope(scope) = GroupName(m, g)
    BY <1>1, LookupIsExact DEF IInv, ListsOK, Published, GetServiceAccountForScope
  <2>2. w \in DOMAIN served /\ Applies(served[w], scope)
    BY <1>1 DEF ApplicableWSAs
  <2>3. k \in DOMAIN m /\ m[k] = g
    <3>1. \A x \in DOMAIN served : k \in computeWSACoverage(served[x], v)
                                   <=> Applies(served[x], scope)
      BY <1>1, CoverageIsApplicability DEF IInv, ListsOK
    <3>2. QED
      BY <2>2, <3>1 DEF ComputeScopesForWSAs, computeMinimalServiceAccountScopes,
                        findScopeIntersections, ApplicableWSAs
  <2>4. g \in groupScopesByWSASet(m) /\ w \in g
    BY <2>3 DEF groupScopesByWSASet
  <2> HIDE DEF m, g
  <2>5. QED
    BY <2>1, <2>4 DEF wsaToServiceAccountNames, m
<1>2. IInv => ApplicableWSAsAreBound
  BY <1>1 DEF ApplicableWSAsAreBound
<1>3. QED
  BY <1>2, MapsOfOneList, PTL

(***************************************************************************)
(* Only WSAs of the last plan can hold a finalizer back.                   *)
(***************************************************************************)
THEOREM MapsHoldOnlyPlanned == Spec => []OnlyPlannedWSAsInMaps
<1>1. ASSUME IInv, NEW w \in Name, IsWSAInMaps(w)
      PROVE  w \in DOMAIN planned
  <2> DEFINE m == ComputeScopesForWSAs(planned)
  <2>1. PICK n \in DOMAIN saToWsaMap : w \in saToWsaMap[n]
    BY <1>1 DEF IsWSAInMaps
  <2>2. saToWsaMap[n] \in groupScopesByWSASet(m)
    BY <1>1, <2>1 DEF IInv, Published, serviceAccountToWSAs
  <2>3. PICK k \in DOMAIN m : saToWsaMap[n] = m[k]
    BY <2>2 DEF groupScopesByWSASet
  <2>4. m[k] \subseteq DOMAIN planned
    BY <2>3 DEF ComputeScopesForWSAs, computeMinimalServiceAccountScopes,
                findScopeIntersections
  <2>5. QED
    BY <2>1, <2>3, <2>4
<1>2. IInv => OnlyPlannedWSAsInMaps
  BY <1>1 DEF OnlyPlannedWSAsInMaps
<1>3. QED
  BY <1>2, MapsOfOneList, PTL

(***************************************************************************)
(* The type invariant: counters and worker steps by induction, the maps    *)
(* from what they were computed from.                                      *)
(***************************************************************************)
THEOREM TypeCorrect == Spec => []TypeOK
<1> DEFINE Control == /\ changes \in 0..MaxChanges
                      /\ step \in [Worker -> {"idle", "wsas", "computed"}]
<1>1. Init => Control
  BY EngineAssumption DEF Init
<1>2. Control /\ [Next]_vars => Control'
  <2> SUFFICES ASSUME Control, [Next]_vars PROVE Control'
    OBVIOUS
  <2>1. ASSUME NEW w \in Name, NEW s \in ScopeChoice,
               CreateWSA(w, s) \/ UpdateWSA(w, s)
        PROVE  Control'
    BY <2>1, EngineAssumption DEF CreateWSA, UpdateWSA
  <2>2. ASSUME NEW w \in Name, DeleteWSA(w)
        PROVE  Control'
    BY <2>2, EngineAssumption DEF DeleteWSA
  <2>3. ASSUME NEW k \in Worker,
               ListWSAs(k) \/ ListCWSAs(k) \/ GiveUp(k) \/ PublishAll(k)
                 \/ RefreshScopeMappings(k)
        PROVE  Control'
    BY <2>3 DEF ListWSAs, ListCWSAs, GiveUp, PublishAll, RefreshScopeMappings, Finish
  <2>4. CASE UNCHANGED vars
    BY <2>4 DEF vars
  <2>5. QED
    BY <2>1, <2>2, <2>3, <2>4
       DEF Next, ApplyBatchPlan, RebuildStateFromCluster, Worker
<1>3. ASSUME IInv, Control PROVE TypeOK
  <2>1. DOMAIN scopeToSA \subseteq KnownScope
    BY <1>3 DEF IInv, Published, scopeToServiceAccount, ComputeScopesForWSAs,
                computeMinimalServiceAccountScopes, computeWSACoverage
  <2>2. ASSUME NEW n \in DOMAIN saToWsaMap PROVE saToWsaMap[n] \subseteq Name
    <3> DEFINE m == ComputeScopesForWSAs(planned)
    <3>1. saToWsaMap[n] \in groupScopesByWSASet(m)
      BY <1>3 DEF IInv, Published, serviceAccountToWSAs
    <3>2. PICK k \in DOMAIN m : saToWsaMap[n] = m[k]
      BY <3>1 DEF groupScopesByWSASet
    <3>3. m[k] \subseteq DOMAIN planned
      BY <3>2 DEF ComputeScopesForWSAs, computeMinimalServiceAccountScopes,
                  findScopeIntersections
    <3>4. DOMAIN planned \subseteq Name
      BY <1>3, ResourceListDef DEF IInv, ListsOK
    <3>5. QED
      BY <3>2, <3>3, <3>4
  <2>3. vocabulary \in GlobalVocabulary
    BY <1>3, VocabularyType DEF IInv, ListsOK, Published
  <2>4. QED
    BY <1>3, <2>1, <2>2, <2>3 DEF TypeOK, IInv, ListsOK
<1>4. QED
  BY <1>1, <1>2, <1>3, MapsOfOneList, PTL DEF Spec
=============================================================================
