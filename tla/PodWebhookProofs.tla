-------------------------- MODULE PodWebhookProofs --------------------------
(***************************************************************************)
(* The pod webhook gives every pod the account it should have, and calling *)
(* it twice is calling it once, for every number of dimensions, values,    *)
(* resources, workers, containers and environment variables.               *)
(*                                                                         *)
(* The account: a pod's annotations are a pod scope, and the lookup        *)
(* answers pod scopes exactly (LookupCorrect of EngineProofs); an account  *)
(* that is found is never the empty name.  The environment: after one call *)
(* the first variable of the name has the version, so that a second call   *)
(* finds that variable and sets what it holds already.                     *)
(***************************************************************************)
EXTENDS PodWebhook, EngineProofs

(***************************************************************************)
(* The annotations of a pod are a scope the engine may be asked about.     *)
(***************************************************************************)
LEMMA PodScopeType ==
    ASSUME NEW pod \in Pod
    PROVE  getPodScope(pod) \in PodScope
<1>1. PICK S \in SUBSET Dim : pod.annotations \in [S -> Val \cup {WildcardValue, EmptyValue}]
  BY DEF Pod, PodAnnotations
<1>2. QED
  BY <1>1 DEF getPodScope, PodScope

(***************************************************************************)
(* The name of a group of scopes is a generated name, never the empty one. *)
(***************************************************************************)
LEMMA GroupNameIsNoEmptyName ==
    ASSUME NEW R \in ResourceList, NEW g
    PROVE  GroupName(ComputeScopesForWSAs(R), g) # NoServiceAccount
<1> DEFINE m == ComputeScopesForWSAs(R)
           values == collectDimensionValues(ScopesOfGroup(m, g))
<1>1. DOMAIN m \subseteq KnownScope
  BY DEF ComputeScopesForWSAs, computeMinimalServiceAccountScopes, computeWSACoverage
<1>2. ScopesOfGroup(m, g) \subseteq KnownScope
  BY <1>1 DEF ScopesOfGroup
<1>3. \A d \in Dim : values[d] \subseteq Val
  BY <1>2 DEF collectDimensionValues, KnownScope
<1>4. GroupName(m, g) = generateGroupedServiceAccountName(values)
  BY DEF GroupName
<1> HIDE DEF values, m
<1>5. generateGroupedServiceAccountName(values)
          \in [prefix : {"octopus-sa"}, parts : SUBSET (Dim \X SUBSET Val)]
  BY <1>3 DEF generateGroupedServiceAccountName
<1>6. QED
  BY <1>4, <1>5, NoAccountAssumption DEF m

(***************************************************************************)
(* A pod names a scope when some annotation is not the empty text.         *)
(***************************************************************************)
LEMMA ScopeIsNamed ==
    ASSUME NEW pod \in Pod
    PROVE  IsEmpty(getPodScope(pod))
           <=> ~ \E d \in DOMAIN pod.annotations : pod.annotations[d] # EmptyValue
<1>1. DOMAIN pod.annotations \subseteq Dim
  BY DEF Pod, PodAnnotations
<1>2. QED
  BY <1>1 DEF IsEmpty, getPodScope

(***************************************************************************)
(* AdmissionMatchesResources (Default) holds in every reachable state.     *)
(***************************************************************************)
THEOREM AdmissionCorrect == Spec => []AdmissionMatchesResources
<1>1. ASSUME IInv, NEW pod \in Pod
      PROVE  Default(pod).serviceAccountName =
                 IF /\ pod.enabled
                    /\ \E d \in DOMAIN pod.annotations : pod.annotations[d] # EmptyValue
                    /\ ApplicableWSAs(served, getPodScope(pod)) # {}
                 THEN GroupName(ComputeScopesForWSAs(served),
                                ApplicableWSAs(served, getPodScope(pod)))
                 ELSE pod.serviceAccountName
  <2> DEFINE scope == getPodScope(pod)
             g == ApplicableWSAs(served, scope)
             name == GroupName(ComputeScopesForWSAs(served), g)
  <2>1. served \in ResourceList /\ scope \in PodScope
    BY <1>1, PodScopeType DEF IInv, ListsOK
  <2>2. GetServiceAccountForScope(scope) = IF g = {} THEN NoServiceAccount ELSE name
    BY <1>1, <2>1, LookupIsExact DEF IInv, Published, GetServiceAccountForScope
  <2>3. name # NoServiceAccount
    BY <2>1, GroupNameIsNoEmptyName
  <2>4. IsEmpty(scope)
        <=> ~ \E d \in DOMAIN pod.annotations : pod.annotations[d] # EmptyValue
    BY ScopeIsNamed
  <2> HIDE DEF scope, g, name
  <2>5. pod.enabled => Default(pod).serviceAccountName = ServiceAccountFor(pod)
    BY DEF Default, injectVersionEnvironmentVariable, Pod
  <2>6. ~pod.enabled => Default(pod) = pod
    BY DEF Default
  <2>7. ServiceAccountFor(pod) = IF IsEmpty(scope) \/ g = {} THEN pod.serviceAccountName
                                                            ELSE name
    BY <2>2, <2>3 DEF ServiceAccountFor, scope
  <2>8. QED
    BY <2>4, <2>5, <2>6, <2>7 DEF scope, g, name
<1>2. IInv => AdmissionMatchesResources
  BY <1>1 DEF AdmissionMatchesResources
<1>3. QED
  BY <1>2, MapsOfOneList, PTL

-----------------------------------------------------------------------------
(***************************************************************************)
(* The version variable is injected once.                                  *)
(***************************************************************************)
LEMMA InjectTwice ==
    ASSUME NEW env \in Seq([name : EnvName, value : EnvValue])
    PROVE  InjectInto(InjectInto(env)) = InjectInto(env)
<1>0. \A j \in DOMAIN env : env[j] \in [name : EnvName, value : EnvValue]
  <2> DEFINE Var == [name : EnvName, value : EnvValue]
  <2> HIDE DEF Var
  <2>1. env \in Seq(Var)
    BY DEF Var
  <2>2. \A j \in DOMAIN env : env[j] \in Var
    BY <2>1
  <2>3. QED
    BY <2>2 DEF Var
<1> DEFINE var == [name |-> OPCVersionEnvVarKey, value |-> version]
           First(e, j) == /\ e[j].name = OPCVersionEnvVarKey
                          /\ \A i \in 1..(j - 1) : e[i].name # OPCVersionEnvVarKey
           Set(e) == [j \in DOMAIN e |-> IF First(e, j) THEN [e[j] EXCEPT !.value = version]
                                                        ELSE e[j]]
           Has(e) == \E j \in DOMAIN e : e[j].name = OPCVersionEnvVarKey
<1>1. \A e : InjectInto(e) = IF Has(e) THEN Set(e) ELSE Append(e, var)
  BY DEF InjectInto
<1>2. CASE Has(env)
  <2> DEFINE out == Set(env)
  <2>1. DOMAIN out = DOMAIN env
    OBVIOUS
  <2>3. \A j \in DOMAIN env : out[j].name = env[j].name
    BY <1>0
  <2>4. \A j \in DOMAIN env : First(env, j) => out[j] = [env[j] EXCEPT !.value = version]
    OBVIOUS
  <2>5. DOMAIN env = 1..Len(env) /\ Len(env) \in Nat
    OBVIOUS
  <2>6. \A j \in DOMAIN env : First(out, j) <=> First(env, j)
    <3>1. \A j \in DOMAIN env : \A i \in 1..(j - 1) : i \in DOMAIN env
      BY <2>5
    <3> HIDE DEF out
    <3>2. QED
      BY <2>3, <3>1
  <2>7. Has(out)
    <3> HIDE DEF out
    <3>1. QED
      BY <1>2, <2>1, <2>3
  <2>8. \A j \in DOMAIN out : Set(out)[j] = out[j]
    <3>1. \A j \in DOMAIN env : First(env, j) => [out[j] EXCEPT !.value = version] = out[j]
      BY <1>0, <2>4
    <3> HIDE DEF out
    <3>2. QED
      BY <2>1, <2>6, <3>1
  <2>9. Set(out) = out
    BY <2>8
  <2>10. QED
    BY <1>1, <1>2, <2>7, <2>9
<1>3. CASE ~Has(env)
  <2> DEFINE out == Append(env, var)
             n == Len(env) + 1
  <2>1. /\ Len(env) \in Nat /\ DOMAIN env = 1..Len(env)
        /\ DOMAIN out = 1..n
        /\ out[n] = var
        /\ \A j \in 1..Len(env) : out[j] = env[j]
    OBVIOUS
  <2> HIDE DEF out
  <2>2. \A j \in 1..Len(env) : out[j].name # OPCVersionEnvVarKey
    BY <1>3, <2>1
  <2>3. n \in DOMAIN out /\ out[n].name = OPCVersionEnvVarKey
    BY <2>1
  <2>4. \A j \in DOMAIN out : First(out, j) => j = n
    BY <2>1, <2>2
  <2>5. [out[n] EXCEPT !.value = version] = out[n]
    BY <2>1
  <2>6. \A j \in DOMAIN out : Set(out)[j] = out[j]
    BY <2>4, <2>5
  <2>7. out = [j \in DOMAIN out |-> out[j]]
    BY DEF out
  <2>8. Set(out) = out
    BY <2>6, <2>7
  <2>9. InjectInto(out) = out
    BY <1>1, <2>3, <2>8
  <2>10. QED
    BY <1>1, <1>3, <2>9 DEF out
<1>4. QED
  BY <1>2, <1>3

(***************************************************************************)
(* AdmissionIsStable (Default) holds in every state, reachable or not.     *)
(***************************************************************************)
THEOREM AdmissionStable == AdmissionIsStable
<1>1. ASSUME NEW pod \in Pod
      PROVE  Default(Default(pod)) = Default(pod)
  <2> DEFINE injected == [c \in Container |-> InjectInto(pod.env[c])]
             once == [enabled |-> TRUE, annotations |-> pod.annotations,
                      serviceAccountName |-> ServiceAccountFor(pod), env |-> injected]
  <2>1. \A c \in Container : pod.env[c] \in Seq([name : EnvName, value : EnvValue])
    BY PodAssumption DEF Pod
  <2>2. \A c \in Container : InjectInto(injected[c]) = injected[c]
    BY <2>1, InjectTwice
  <2>3. [c \in Container |-> InjectInto(injected[c])] = injected
    BY <2>2
  <2>4. CASE ~pod.enabled
    BY <2>4 DEF Default
  <2>5. CASE pod.enabled
    <3>1. Default(pod) = once
      BY <2>5 DEF Default, injectVersionEnvironmentVariable, Pod
    <3> HIDE DEF injected
    <3>2. getPodScope(once) = getPodScope(pod)
      BY DEF getPodScope
    <3>3. ServiceAccountFor(once) = ServiceAccountFor(pod)
      BY <3>2 DEF ServiceAccountFor
    <3>4. Default(once) = [once EXCEPT !.env = [c \in Container |-> InjectInto(injected[c])],
                                      !.serviceAccountName = ServiceAccountFor(once)]
      BY DEF Default, injectVersionEnvironmentVariable
    <3>5. QED
      BY <2>3, <3>1, <3>3, <3>4
  <2>6. QED
    BY <2>4, <2>5
<1>2. QED
  BY <1>1 DEF AdmissionIsStable
=============================================================================
