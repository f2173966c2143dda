----------------------------- MODULE PodWebhook -----------------------------
(***************************************************************************)
(* The mutating webhook on pods (internal/webhook/v1/pod_webhook.go), as a *)
(* function of the pod and of the engine's maps, which it reads under the  *)
(* engine's lock: the pods the API server asks it about are all those it   *)
(* may be asked about in a state.  The API server calls it when a pod is   *)
(* created or updated, and once more when a later webhook changed the pod. *)
(***************************************************************************)
EXTENDS Engine, Sequences

CONSTANTS
    Account,        \* service accounts pods ask for themselves
    Container,      \* the containers and init containers of a pod
    EnvName,        \* names of environment variables
    OPCVersionEnvVarKey,
    EnvValue,       \* their values
    version,        \* PodCustomDefaulter.version
    EnvChoice       \* the environments containers are written with

ASSUME PodAssumption ==
    /\ OPCVersionEnvVarKey \in EnvName
    /\ version \in EnvValue
    /\ EnvChoice \subseteq Seq([name : EnvName, value : EnvValue])

\* A failed lookup returns the empty string, which is no generated name.
ASSUME NoAccountAssumption ==
    NoServiceAccount \notin [prefix : {"octopus-sa"}, parts : SUBSET (Dim \X SUBSET Val)]

\* The annotations of agent.octopus.com: free text, each present or not.
PodAnnotations == UNION {[S -> Val \cup {WildcardValue, EmptyValue}] : S \in SUBSET Dim}

\* enabled: the label agent.octopus.com/permissions has the value "enabled".
Pod == [enabled : BOOLEAN, annotations : PodAnnotations, serviceAccountName : Account,
        env : [Container -> EnvChoice]]

getPodScope(pod) ==
    [d \in Dim |-> IF d \in DOMAIN pod.annotations THEN pod.annotations[d] ELSE EmptyValue]

IsEmpty(scope) == \A d \in Dim : scope[d] = EmptyValue

\* A bug: the variable is added whether or not it is there.
Mut_InjectInto(env) == Append(env, [name |-> OPCVersionEnvVarKey, value |-> version])

\* One container: the first variable of that name gets the version, or the
\* variable is appended.
InjectInto(env) ==
    LET IsFirst(j) == /\ env[j].name = OPCVersionEnvVarKey
                      /\ \A i \in 1..(j - 1) : env[i].name # OPCVersionEnvVarKey
    IN  IF \E j \in DOMAIN env : env[j].name = OPCVersionEnvVarKey
        THEN [j \in DOMAIN env |-> IF IsFirst(j) THEN [env[j] EXCEPT !.value = version]
                                                 ELSE env[j]]
        ELSE Append(env, [name |-> OPCVersionEnvVarKey, value |-> version])

injectVersionEnvironmentVariable(pod) ==
    [pod EXCEPT !.env = [c \in Container |-> InjectInto(pod.env[c])]]

\* A bug: a pod that names no scope is looked up as well.
Mut_ServiceAccountFor(pod) ==
    IF GetServiceAccountForScope(getPodScope(pod)) = NoServiceAccount
    THEN pod.serviceAccountName
    ELSE GetServiceAccountForScope(getPodScope(pod))

\* A pod that names no scope, or one nobody applies to, keeps its account.
ServiceAccountFor(pod) ==
    IF \/ IsEmpty(getPodScope(pod))
       \/ GetServiceAccountForScope(getPodScope(pod)) = NoServiceAccount
    THEN pod.serviceAccountName
    ELSE GetServiceAccountForScope(getPodScope(pod))

Default(pod) ==
    IF ~pod.enabled THEN pod
    ELSE [injectVersionEnvironmentVariable(pod) EXCEPT
             !.serviceAccountName = ServiceAccountFor(pod)]

-----------------------------------------------------------------------------
(***************************************************************************)
(* Whatever publications and changes interleave, a pod that opted in and   *)
(* names a scope is given the account of exactly the WSAs that apply to    *)
(* it; where none applies, and for a pod that names no scope, even if WSAs *)
(* without any scope exist, and for a pod that did not opt in, the account *)
(* stays the one the pod asked for: Default and the maps it reads.         *)
(***************************************************************************)
AdmissionMatchesResources ==
    LET scopeMap == ComputeScopesForWSAs(served)
    IN  \A pod \in Pod :
            LET applicable == ApplicableWSAs(served, getPodScope(pod))
            IN  Default(pod).serviceAccountName =
                    IF /\ pod.enabled
                       /\ \E d \in DOMAIN pod.annotations : pod.annotations[d] # EmptyValue
                       /\ applicable # {}
                    THEN GroupName(scopeMap, applicable)
                    ELSE pod.serviceAccountName

(***************************************************************************)
(* The webhook called again on its own result, while the maps are the      *)
(* same, changes nothing: neither the account nor the environment, however *)
(* often the version variable occurs in it (Default, on creation, on       *)
(* update and when it is reinvoked).                                       *)
(***************************************************************************)
AdmissionIsStable == \A pod \in Pod : Default(Default(pod)) = Default(pod)
=============================================================================
