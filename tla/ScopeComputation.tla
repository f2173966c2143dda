-------------------------- MODULE ScopeComputation --------------------------
(***************************************************************************)
(* From permission resources to service accounts: the pure functions of    *)
(* internal/rules/generator.go and scope_computation.go.                   *)
(*                                                                         *)
(* A WorkloadServiceAccount (namespaced) or ClusterWorkloadServiceAccount  *)
(* ("WSA" for either) limits, in each of the six scope dimensions (project,*)
(* project group, environment, tenant, step, space), the values it applies *)
(* to; an empty list means any value.  The controller enumerates the known *)
(* scopes, finds the WSAs that cover each, groups the scopes covered by    *)
(* the same WSAs and names one service account after each group.  The pod  *)
(* webhook reduces a pod's scope to a known one and looks the name up.     *)
(***************************************************************************)
EXTENDS FiniteSets, Naturals

CONSTANTS
    Dim,                \* the scope dimensions (DimensionIndex)
    Val,                \* the values a WSA may list: the CRD's item pattern
                        \*   excludes the empty string and the wildcard
    Name,               \* NamespacedNames of the WSA and CWSA resources
    NoServiceAccount    \* the empty name a failed lookup returns

\* generator.go: const WildcardValue
WildcardValue == "*"

\* A scope field nobody set: a pod without that annotation.
EmptyValue == ""

ASSUME ScopeValuesAssumption ==
    /\ WildcardValue \notin Val
    /\ EmptyValue \notin Val

-----------------------------------------------------------------------------
\* What the API server may hold and what a pod may ask for.

\* spec.scope of a resource: the listed values of each dimension.
WSAScope == [Dim -> SUBSET Val]

\* The value list of NamespacedName -> WSAResource handed to the computation.
ResourceList == UNION {[S -> WSAScope] : S \in SUBSET Name}

\* The Scope struct of a pod: annotations are free text or absent.
PodScope == [Dim -> Val \cup {WildcardValue, EmptyValue}]

\* The scopes the computation enumerates.
KnownScope == [Dim -> Val \cup {WildcardValue}]

\* GlobalVocabulary: the values known in each dimension.
GlobalVocabulary == [Dim -> SUBSET Val]

NewGlobalVocabulary == [d \in Dim |-> {}]

-----------------------------------------------------------------------------
\* A bug: an unconstrained dimension contributes the wildcard as a value.
Mut_buildGlobalVocabulary(R) ==
    [d \in Dim |-> UNION {IF R[w][d] = {} THEN {WildcardValue} ELSE R[w][d] : w \in DOMAIN R}]

\* Every value any resource lists, dimension by dimension.
buildGlobalVocabulary(R) ==
    [d \in Dim |-> UNION {R[w][d] : w \in DOMAIN R}]

\* A pod's scope with every value nobody lists replaced by the wildcard.
GetKnownScopeCombination(vocabulary, scope) ==
    [d \in Dim |-> IF scope[d] \in vocabulary[d] THEN scope[d]
                                                 ELSE WildcardValue]

\* An unconstrained dimension covers the whole vocabulary and the wildcard,
\* a constrained one the listed values only.
dimensionCoverage(s, vocabulary, d) ==
    IF s[d] = {} THEN vocabulary[d] \cup {WildcardValue} ELSE s[d]

\* The cartesian product of the dimension coverages.
computeWSACoverage(s, vocabulary) ==
    {k \in KnownScope : \A d \in Dim : k[d] \in dimensionCoverage(s, vocabulary, d)}

\* The WSAs whose coverage holds a scope.
findScopeIntersections(R, vocabulary, k) ==
    {w \in DOMAIN R : k \in computeWSACoverage(R[w], vocabulary)}

\* scopeMap: every covered scope with the WSAs that cover it.
computeMinimalServiceAccountScopes(R, vocabulary) ==
    [k \in UNION {computeWSACoverage(R[w], vocabulary) : w \in DOMAIN R} |->
        findScopeIntersections(R, vocabulary, k)]

ComputeScopesForWSAs(R) ==
    computeMinimalServiceAccountScopes(R, buildGlobalVocabulary(R))

-----------------------------------------------------------------------------
\* The sets of WSAs that cover some scope together: one group per such set.
groupScopesByWSASet(scopeMap) == {scopeMap[k] : k \in DOMAIN scopeMap}

\* The scopes of one group.
ScopesOfGroup(scopeMap, g) == {k \in DOMAIN scopeMap : scopeMap[k] = g}

\* The concrete values a group's scopes name; wildcards leave no trace.
collectDimensionValues(scopes) ==
    [d \in Dim |-> {k[d] : k \in scopes} \ {WildcardValue, EmptyValue}]

\* "octopus-sa-" and the hash of the non-empty dimensions, each with its
\* values; no part at all stands for the string "wildcard".  The values'
\* pattern excludes the separators, so different parts give different names
\* (hash collisions aside).
generateGroupedServiceAccountName(grouped) ==
    [prefix |-> "octopus-sa",
     parts  |-> {<<d, grouped[d]>> : d \in {e \in Dim : grouped[e] # {}}}]

\* The service account name of a group.
GroupName(scopeMap, g) ==
    generateGroupedServiceAccountName(
        collectDimensionValues(ScopesOfGroup(scopeMap, g)))

\* The four results of GenerateServiceAccountMappings.
scopeToServiceAccount(scopeMap) ==
    [k \in DOMAIN scopeMap |-> GroupName(scopeMap, scopeMap[k])]

uniqueServiceAccounts(scopeMap) ==
    {GroupName(scopeMap, g) : g \in groupScopesByWSASet(scopeMap)}

\* Two groups may get one name; then the group the map iteration (in Go's
\* random order) reaches last stays: every choice is a possible result.
serviceAccountToWSAs(scopeMap) ==
    {f \in [uniqueServiceAccounts(scopeMap) -> groupScopesByWSASet(scopeMap)] :
        \A n \in DOMAIN f : GroupName(scopeMap, f[n]) = n}

\* A bug: only the groups a WSA has to itself are tracked.
Mut_wsaToServiceAccountNames(scopeMap, w) ==
    {GroupName(scopeMap, g) : g \in {h \in groupScopesByWSASet(scopeMap) : h = {w}}}

\* The accounts each WSA's role bindings name as subjects.
wsaToServiceAccountNames(scopeMap, w) ==
    {GroupName(scopeMap, g) : g \in {h \in groupScopesByWSASet(scopeMap) : w \in h}}

\* ScopeComputationService.GetServiceAccountForScope on published maps.
LookupServiceAccount(vocabulary, scopeToSA, scope) ==
    LET knownScope == GetKnownScopeCombination(vocabulary, scope)
    IN  IF knownScope \in DOMAIN scopeToSA THEN scopeToSA[knownScope]
                                           ELSE NoServiceAccount

-----------------------------------------------------------------------------
\* The reference: the WSAs a user expects to apply to a pod.  Nothing here is
\* code; it is what the enumeration above has to agree with.
Applies(s, scope) == \A d \in Dim : s[d] = {} \/ scope[d] \in s[d]

ApplicableWSAs(R, scope) == {w \in DOMAIN R : Applies(R[w], scope)}
=============================================================================
