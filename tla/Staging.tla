------------------------------ MODULE Staging ------------------------------
(***************************************************************************)
(* The leader's control loop over cluster objects: the two reconcilers     *)
(* (internal/controller), the stages planning, validation and execution    *)
(* (internal/reconciliation/stages) and the writes and garbage collection  *)
(* of internal/rules/resource_management.go, run by two goroutines at once *)
(* (Start's loop and the retry loop) against the API server, where users   *)
(* create, change and delete WSAs and others the managed objects           *)
(* meanwhile; with the status conditions that report a batch's outcome.    *)
(*                                                                         *)
(* Abstractions.  The collector is the set of pending events and the retry *)
(* queue a set of batches: EventCollector and Orchestrator show that they  *)
(* lose nothing.  The scope computation is used on WSAs that name one      *)
(* value of one dimension each, where it maps that value to one account    *)
(* bound by the WSAs that name it; ScopeComputation has the general case.  *)
(* One target namespace; the WSAs live in one namespace; reads of the API  *)
(* server are current; each call is one step.                              *)
(***************************************************************************)
EXTENDS Naturals, FiniteSets

CONSTANTS
    Name,           \* WSAs and CWSAs; a name is not reused (it stands for a UID)
    ClusterName,    \* the names in Name that are CWSAs
    SpecChoice,     \* specs users write: records [scope, rules]
    Resynced,       \* WSAs whose cache-sync-period may end meanwhile
    Foreign,        \* names of service accounts others have at the start
    MaxRetries,     \* StageOrchestrator.maxRetries
    MaxChanges,     \* bound: writes of users and drifts
    MaxDrifts,      \* bound: changes of others to managed objects
    MaxClaims,      \* bound: service accounts others create meanwhile
    MaxFaults,      \* bound: failing calls
    MaxCrashes      \* bound: restarts of the manager

ASSUME StagingAssumption ==
    /\ ClusterName \subseteq Name /\ Resynced \subseteq Name
    /\ MaxRetries \in Nat /\ MaxChanges \in Nat /\ MaxFaults \in Nat
    /\ MaxDrifts \in Nat /\ MaxClaims \in Nat /\ MaxCrashes \in Nat
    /\ \A s \in SpecChoice : s = [scope |-> s.scope, rules |-> s.rules]

VARIABLES
    wsas,           \* API server: WSAs, see NewWSA
    created,        \* names used so far
    sas,            \* API server: managed service accounts, by name
    roles,          \* API server: managed roles, each with its owner
    bindings,       \* API server: managed bindings, each with its subjects
    foreign,        \* API server: service accounts of others; ghost, for each:
                    \* the goroutines that could not see it, see CreateAccount
    requests,       \* WSAs queued for Reconcile
    checking,       \* WSAs whose Reconcile is about to call handleDeletion
    pending,        \* events in the collector and its channel
    retryQueue,     \* batches that failed: keys and failures so far
    job,            \* per goroutine: its batch and how far it is
    served,         \* engine: the resources scopeToSA was computed from
    mapped,         \* engine: the WSAs in saToWsaMap
    bounds,         \* changes, drifts, claims, faults and crashes so far
    disturbed,      \* ghost: see Disturb
    unreported      \* ghost: WSAs whose last condition was not written

cluster    == <<sas, roles, bindings, foreign>>
queues     == <<requests, checking, pending, retryQueue>>
engineMaps == <<served, mapped>>
ghosts     == <<disturbed, unreported>>
vars == <<wsas, created, cluster, queues, job, engineMaps, bounds, ghosts>>

Worker == {"main", "retry"}

\* The names of the accounts that specs need.
Scopes == {s.scope : s \in SpecChoice}

\* Partial functions: with x set to v, and without x.
Put(f, x, v) == [y \in (DOMAIN f) \cup {x} |-> IF y = x THEN v ELSE f[y]]
Drop(f, x) == [y \in (DOMAIN f) \ {x} |-> f[y]]
Nothing == [x \in {} |-> {}]

\* getAllResources: the WSAs without a deletion timestamp.
Live == [w \in {x \in DOMAIN wsas : ~wsas[x].deleting} |-> wsas[w].spec]

\* The plan for a list of resources.
UniqueAccounts(plan) == {plan[w].scope : w \in DOMAIN plan}
RoleOf(plan, w) ==
    [kind |-> IF w \in ClusterName THEN "ClusterRole" ELSE "Role", rules |-> plan[w].rules]
BindingOf(plan, w) == [wsa |-> w, role |-> RoleOf(plan, w)]
ExpectedRoles(plan) == {RoleOf(plan, w) : w \in DOMAIN plan}
ExpectedBindings(plan) == {BindingOf(plan, w) : w \in DOMAIN plan}

NewJob(pc, keys, fails) ==
    [pc |-> pc, keys |-> keys, fails |-> fails, plan |-> Nothing, todo |-> {}, failed |-> FALSE]
Idle == NewJob("idle", {}, 0)

Init ==
    /\ wsas = Nothing /\ created = {}
    /\ sas = {} /\ roles = Nothing /\ bindings = Nothing
    /\ foreign = [a \in Foreign |-> {}]
    /\ requests = {} /\ checking = {} /\ pending = {} /\ retryQueue = {}
    /\ job = [k \in Worker |-> Idle]
    /\ served = Nothing /\ mapped = {}
    /\ bounds = [changes |-> 0, drifts |-> 0, claims |-> 0, faults |-> 0, crashes |-> 0]
    /\ disturbed = FALSE /\ unreported = {}

Count(what, max) ==
    /\ bounds[what] < max
    /\ bounds' = [bounds EXCEPT ![what] = @ + 1]

-----------------------------------------------------------------------------
\* A WSA as a user creates it.  ready is the condition of that name, based on
\* the current generation of the object (observed) or an older one; byController
\* says that the newest entry of its managedFields is the controller's.
NewWSA(spec) == [spec |-> spec, deleting |-> FALSE, finalizer |-> FALSE,
                 ready |-> "Unknown", observed |-> FALSE, byController |-> FALSE]

\* Users.  Each write changes the generation of the WSA or deletes it, which
\* GenerationOrDeletePredicate lets through.
CreateWSA(w, spec) ==
    /\ Count("changes", MaxChanges)
    /\ w \notin created
    /\ created' = created \cup {w}
    /\ wsas' = Put(wsas, w, NewWSA(spec))
    /\ requests' = requests \cup {w}
    /\ UNCHANGED <<cluster, checking, pending, retryQueue, job, engineMaps, ghosts>>

UpdateWSA(w, spec) ==
    /\ Count("changes", MaxChanges)
    /\ w \in DOMAIN wsas
    /\ wsas[w].spec # spec
    /\ wsas' = [wsas EXCEPT ![w].spec = spec, ![w].observed = FALSE,
                            ![w].byController = FALSE]
    /\ requests' = requests \cup {w}
    /\ UNCHANGED <<created, cluster, checking, pending, retryQueue, job, engineMaps,
                   ghosts>>

\* A batch that is being processed, or the last one published, has seen the WSA.
Listed(w) == w \in DOMAIN served \/ \E k \in Worker : w \in DOMAIN job[k].plan

\* What the convergence property makes exceptions for, until a batch repairs it.
Disturb(condition) == disturbed' = (disturbed \/ condition)

\* With the finalizer the API server waits, without it the WSA is gone.
DeleteWSA(w) ==
    /\ Count("changes", MaxChanges)
    /\ w \in DOMAIN wsas
    /\ ~wsas[w].deleting
    /\ wsas' = IF wsas[w].finalizer
               THEN [wsas EXCEPT ![w].deleting = TRUE, ![w].observed = FALSE]
               ELSE Drop(wsas, w)
    /\ Disturb(~wsas[w].finalizer /\ Listed(w))
    /\ requests' = requests \cup {w}
    /\ UNCHANGED <<created, cluster, checking, pending, retryQueue, job, engineMaps, unreported>>

\* The watches on managed objects.  The deletion of an object that was there
\* passes ExternalDeletePredicate even when it is the controller's own: the
\* tracker that should tell them apart is never marked.
Enqueue(existed, names) == requests' = IF existed THEN requests \cup names ELSE requests

\* A service account has no owner: it stands for all WSAs not being deleted.
MapServiceAccountToResources == DOMAIN Live

\* Others delete a managed object, or edit the subjects of a binding, whose
\* newest managedFields entry is then not the controller's.
Drift ==
    /\ bounds.changes < MaxChanges /\ bounds.drifts < MaxDrifts
    /\ bounds' = [bounds EXCEPT !.changes = @ + 1, !.drifts = @ + 1]
    /\ \/ \E a \in sas :
            /\ sas' = sas \ {a}
            /\ Enqueue(TRUE, MapServiceAccountToResources)
            /\ UNCHANGED <<roles, bindings>>
       \/ \E r \in DOMAIN roles :
            /\ roles' = Drop(roles, r)
            /\ Enqueue(TRUE, {roles[r]})
            /\ UNCHANGED <<sas, bindings>>
       \/ \E b \in DOMAIN bindings :
            /\ bindings' \in {Drop(bindings, b), [bindings EXCEPT ![b] = {}]}
            /\ Enqueue(bindings' # bindings, {b.wsa})
            /\ UNCHANGED <<sas, roles>>
    /\ UNCHANGED <<wsas, created, foreign, checking, pending, retryQueue, job, engineMaps,
                   ghosts>>

\* The cache-sync-period: every WSA is shown once more as an update to itself.
\* Its generation is the same, so that ExternalChangePredicate decides.
Resync(w) ==
    /\ w \in Resynced \cap DOMAIN wsas
    /\ ~wsas[w].byController
    /\ requests' = requests \cup {w}
    /\ UNCHANGED <<wsas, created, cluster, checking, pending, retryQueue, job, engineMaps,
                   bounds, ghosts>>

\* Kubernetes deletes roles and bindings whose owner is gone.
KubernetesGC ==
    /\ \/ \E r \in DOMAIN roles :
            /\ roles[r] \notin DOMAIN wsas
            /\ roles' = Drop(roles, r)
            /\ UNCHANGED bindings
       \/ \E b \in DOMAIN bindings :
            /\ b.wsa \notin DOMAIN wsas
            /\ bindings' = Drop(bindings, b)
            /\ UNCHANGED roles
    /\ UNCHANGED <<wsas, created, sas, foreign, queues, job, engineMaps, bounds, ghosts>>

-----------------------------------------------------------------------------
\* Reconcile of either controller.  A resource that is gone is forgotten; one
\* that is being deleted becomes an event before handleDeletion looks at it;
\* any other gets its finalizer, whose patch is a change that triggers the
\* controller again, and becomes an event.
ReconcileGone(w) ==
    /\ w \in requests \ checking
    /\ w \notin DOMAIN wsas
    /\ requests' = requests \ {w}
    /\ UNCHANGED <<wsas, created, cluster, checking, pending, retryQueue, job, engineMaps,
                   bounds, ghosts>>

\* A bug: a deletion is no event, other events are left to process it.
Mut_ReconcileDeleting(w) ==
    /\ w \in requests \ checking
    /\ w \in DOMAIN wsas
    /\ wsas[w].deleting
    /\ requests' = requests \ {w}
    /\ checking' = checking \cup {w}
    /\ UNCHANGED <<wsas, created, cluster, pending, retryQueue, job, engineMaps, bounds,
                   ghosts>>

ReconcileDeleting(w) ==
    /\ w \in requests \ checking
    /\ w \in DOMAIN wsas
    /\ wsas[w].deleting
    /\ pending' = pending \cup {w}
    /\ requests' = requests \ {w}
    /\ checking' = checking \cup {w}
    /\ UNCHANGED <<wsas, created, cluster, retryQueue, job, engineMaps, bounds, ghosts>>

ReconcileLive(w) ==
    /\ w \in requests \ checking
    /\ w \in DOMAIN wsas
    /\ ~wsas[w].deleting
    /\ wsas' = IF wsas[w].finalizer THEN wsas
               ELSE [wsas EXCEPT ![w].finalizer = TRUE, ![w].byController = FALSE]
    /\ pending' = pending \cup {w}
    /\ requests' = IF wsas[w].finalizer THEN requests \ {w} ELSE requests
    /\ UNCHANGED <<created, cluster, checking, retryQueue, job, engineMaps, bounds, ghosts>>

\* A bug: a resource still in the maps is left to the next event.
Mut_handleDeletion(w) ==
    /\ w \in checking
    /\ checking' = checking \ {w}
    /\ requests' = IF w \in mapped THEN requests ELSE requests \cup {w}
    /\ wsas' = IF w \in mapped THEN wsas ELSE Drop(wsas, w)
    /\ UNCHANGED <<created, cluster, pending, retryQueue, job, engineMaps, bounds, ghosts>>

\* IsWSAInMaps: come back in two seconds.  Otherwise the finalizer goes, and
\* with it the resource.
handleDeletion(w) ==
    /\ w \in checking
    /\ checking' = checking \ {w}
    /\ requests' = requests \cup {w}
    /\ wsas' = IF w \in mapped THEN wsas ELSE Drop(wsas, w)
    /\ UNCHANGED <<created, cluster, pending, retryQueue, job, engineMaps, bounds, ghosts>>

-----------------------------------------------------------------------------
\* A goroutine takes a batch: the main loop new events, the retry loop a batch
\* that failed.  The other goroutine may be busy with an older plan.  A batch
\* that has the cluster to itself plans anew, whatever happened before.
Take(k, keys, fails) ==
    /\ job[k] = Idle
    /\ job' = [job EXCEPT ![k] = NewJob("planning", keys, fails)]
    /\ disturbed' = (\E j \in Worker : job[j] # Idle)
    /\ UNCHANGED unreported

TakeBatch ==
    /\ pending # {}
    /\ Take("main", pending, 0)
    /\ pending' = {}
    /\ UNCHANGED <<wsas, created, cluster, requests, checking, retryQueue, engineMaps, bounds>>

TakeRetry ==
    /\ \E b \in retryQueue :
          /\ Take("retry", b.keys, b.fails)
          /\ retryQueue' = retryQueue \ {b}
    /\ UNCHANGED <<wsas, created, cluster, requests, checking, pending, engineMaps, bounds>>

\* condition.Apply: a server-side apply of the status of the batch's resources
\* that still exist.  The generation a condition is based on is the one the
\* object has by now: the answer to the write before was decoded into it.
UpdateCondition(keys, ready) ==
    wsas' = [w \in DOMAIN wsas |->
                IF w \in keys
                THEN [wsas[w] EXCEPT !.byController = TRUE, !.ready = ready, !.observed = TRUE]
                ELSE wsas[w]]

\* The same for the conditions of the stages.
updateStageStatus(keys) ==
    wsas' = [w \in DOMAIN wsas |->
                IF w \in keys THEN [wsas[w] EXCEPT !.byController = TRUE] ELSE wsas[w]]

\* A bug: the retry in progress is not counted.
Mut_FailBatch(k) ==
    /\ UpdateCondition(job[k].keys, "False")
    /\ IF job[k].fails <= MaxRetries
       THEN /\ retryQueue' = retryQueue \cup {[keys |-> job[k].keys, fails |-> job[k].fails + 1]}
            /\ job' = [job EXCEPT ![k] = Idle]
       ELSE /\ job' = [job EXCEPT ![k] = NewJob("rebuild", job[k].keys, 0)]
            /\ UNCHANGED retryQueue

\* processBatch reports the failed stage, and processBatchWithRetry tries the
\* batch again later or gives it up.
FailBatch(k) ==
    /\ UpdateCondition(job[k].keys, "False")
    /\ IF job[k].fails + 1 <= MaxRetries
       THEN /\ retryQueue' = retryQueue \cup {[keys |-> job[k].keys, fails |-> job[k].fails + 1]}
            /\ job' = [job EXCEPT ![k] = Idle]
       ELSE /\ job' = [job EXCEPT ![k] = NewJob("rebuild", job[k].keys, 0)]
            /\ UNCHANGED retryQueue

\* PlanningStage.Execute: list everything, whatever the batch holds.
Planning(k) ==
    /\ job[k].pc = "planning"
    /\ updateStageStatus(job[k].keys)
    /\ job' = [job EXCEPT ![k].plan = Live, ![k].pc = "validation"]
    /\ UNCHANGED <<created, cluster, queues, engineMaps, bounds, ghosts>>

\* What a step of the execution has to go through.  The steps that delete list
\* the managed objects when they begin.
Todo(op, plan) ==
    CASE op \in {"EnsureRoles", "EnsureRoleBindings"} -> DOMAIN plan
      [] op = "EnsureServiceAccounts" -> UniqueAccounts(plan)
      [] op = "GarbageCollectServiceAccounts" -> sas \ UniqueAccounts(plan)
      [] op = "GarbageCollectRoles" ->
            {r \in DOMAIN roles : r.kind = "Role" /\ r \notin ExpectedRoles(plan)}
      [] op = "GarbageCollectRoleBindings" ->
            {b \in DOMAIN bindings : b.wsa \notin ClusterName /\ b \notin ExpectedBindings(plan)}
      [] op = "GarbageCollectClusterRoleBindings" ->
            {b \in DOMAIN bindings : b.wsa \in ClusterName /\ b \notin ExpectedBindings(plan)}
      [] op = "ApplyBatchPlan" -> {}

NextOp ==
    [EnsureRoles |-> "EnsureServiceAccounts",
     EnsureServiceAccounts |-> "EnsureRoleBindings",
     EnsureRoleBindings |-> "GarbageCollectServiceAccounts",
     GarbageCollectServiceAccounts |-> "GarbageCollectRoles",
     GarbageCollectRoles |-> "GarbageCollectRoleBindings",
     GarbageCollectRoleBindings |-> "GarbageCollectClusterRoleBindings",
     GarbageCollectClusterRoleBindings |-> "ApplyBatchPlan"]

BeginOp(k, op, plan) ==
    job' = [job EXCEPT ![k].pc = op, ![k].plan = plan, ![k].todo = Todo(op, plan)]

\* The plan's resources are those of the batch, and the answer to a status
\* write is decoded into them: where it succeeds, the rules to be applied are
\* those of the moment, while the accounts stay those planned.
Refreshed(plan, written) ==
    [w \in DOMAIN plan |->
        IF w \in written THEN [plan[w] EXCEPT !.rules = wsas[w].spec.rules] ELSE plan[w]]

\* ExecutionStage.Execute ensures nothing for an empty plan.
BeginExecution(k) ==
    /\ updateStageStatus(job[k].keys)
    /\ \E written \in SUBSET {w \in job[k].keys \cap DOMAIN job[k].plan \cap DOMAIN wsas :
                                job[k].plan[w].rules # wsas[w].spec.rules} :
          BeginOp(k, IF job[k].plan = Nothing THEN "GarbageCollectServiceAccounts"
                                              ELSE "EnsureRoles",
                  Refreshed(job[k].plan, written))

\* A bug: a conflict is a warning, as it is for roles.
Mut_Validation(k) ==
    /\ job[k].pc = "validation"
    /\ BeginExecution(k)
    /\ foreign' = [a \in DOMAIN foreign |-> foreign[a] \ {k}]
    /\ UNCHANGED <<created, sas, roles, bindings, queues, engineMaps, bounds, ghosts>>

\* ValidationStage.Execute: an account name that belongs to somebody else
\* fails the batch.  All that exist by now are seen.
Validation(k) ==
    /\ job[k].pc = "validation"
    /\ IF UniqueAccounts(job[k].plan) \cap DOMAIN foreign # {}
       THEN FailBatch(k)
       ELSE BeginExecution(k) /\ UNCHANGED retryQueue
    /\ foreign' = [a \in DOMAIN foreign |-> foreign[a] \ {k}]
    /\ UNCHANGED <<created, sas, roles, bindings, requests, checking, pending, engineMaps,
                   bounds, ghosts>>

-----------------------------------------------------------------------------
\* The execution, one call at a time.
Call(k, op, x) ==
    /\ job[k].pc = op
    /\ x \in job[k].todo
    /\ job' = [job EXCEPT ![k].todo = @ \ {x}]
    /\ UNCHANGED <<wsas, created, checking, pending, retryQueue, engineMaps, bounds, ghosts>>

\* Server-side apply by one field manager: the last WSA applied is the owner.
createRoleIfNeeded(k) == \E w \in DOMAIN job[k].plan :
    /\ Call(k, "EnsureRoles", w)
    /\ roles' = Put(roles, RoleOf(job[k].plan, w), w)
    /\ UNCHANGED <<sas, bindings, foreign, requests>>

\* A forced apply: an account of somebody else that exists by now is labelled
\* and managed from here on.
createServiceAccount(k) == \E a \in UniqueAccounts(job[k].plan) :
    /\ Call(k, "EnsureServiceAccounts", a)
    /\ sas' = sas \cup {a}
    /\ foreign' = Drop(foreign, a)
    /\ UNCHANGED <<roles, bindings, requests>>

createRoleBindingsForResource(k) == \E w \in DOMAIN job[k].plan :
    /\ Call(k, "EnsureRoleBindings", w)
    /\ bindings' = Put(bindings, BindingOf(job[k].plan, w), {job[k].plan[w].scope})
    /\ UNCHANGED <<sas, roles, foreign, requests>>

GarbageCollectServiceAccounts(k) == \E a \in job[k].todo :
    /\ Call(k, "GarbageCollectServiceAccounts", a)
    /\ sas' = sas \ {a}
    /\ Enqueue(a \in sas, MapServiceAccountToResources)
    /\ UNCHANGED <<roles, bindings, foreign>>

\* An owned object stands for its owner.
GarbageCollectRoles(k) == \E r \in job[k].todo :
    /\ Call(k, "GarbageCollectRoles", r)
    /\ roles' = Drop(roles, r)
    /\ Enqueue(r \in DOMAIN roles, {roles[r]})
    /\ UNCHANGED <<sas, bindings, foreign>>

DeleteBinding(k, op) == \E b \in job[k].todo :
    /\ Call(k, op, b)
    /\ bindings' = Drop(bindings, b)
    /\ Enqueue(b \in DOMAIN bindings, {b.wsa})
    /\ UNCHANGED <<sas, roles, foreign>>

GarbageCollectRoleBindings(k) == DeleteBinding(k, "GarbageCollectRoleBindings")

GarbageCollectClusterRoleBindings(k) == DeleteBinding(k, "GarbageCollectClusterRoleBindings")

\* A bug: the calls that failed are only logged.
Mut_FinishOp(k) ==
    /\ job[k].pc \in DOMAIN NextOp
    /\ job[k].todo = {}
    /\ BeginOp(k, NextOp[job[k].pc], job[k].plan)
    /\ UNCHANGED <<wsas, created, cluster, queues, engineMaps, bounds, ghosts>>

\* Every item was tried: go on, or fail the stage when a call failed.
FinishOp(k) ==
    /\ job[k].pc \in DOMAIN NextOp
    /\ job[k].todo = {}
    /\ IF job[k].failed
       THEN FailBatch(k)
       ELSE BeginOp(k, NextOp[job[k].pc], job[k].plan) /\ UNCHANGED <<wsas, retryQueue>>
    /\ UNCHANGED <<created, cluster, requests, checking, pending, engineMaps, bounds, ghosts>>

\* The maps are replaced under the engine's mutex.
ApplyBatchPlan(k) ==
    /\ job[k].pc = "ApplyBatchPlan"
    /\ served' = job[k].plan
    /\ mapped' = DOMAIN job[k].plan
    /\ job' = [job EXCEPT ![k].pc = "done"]
    /\ UNCHANGED <<wsas, created, cluster, queues, bounds, ghosts>>

\* A bug: the generation the condition is based on is not written.
Mut_updateFinalConditions(k) ==
    /\ job[k].pc = "done"
    /\ wsas' = [w \in DOMAIN wsas |->
                   IF w \in job[k].keys
                   THEN [wsas[w] EXCEPT !.byController = TRUE, !.ready = "True"] ELSE wsas[w]]
    /\ job' = [job EXCEPT ![k] = Idle]
    /\ unreported' = unreported \ job[k].keys
    /\ UNCHANGED <<created, cluster, queues, engineMaps, bounds, disturbed>>

updateFinalConditions(k) ==
    /\ job[k].pc = "done"
    /\ UpdateCondition(job[k].keys, "True")
    /\ job' = [job EXCEPT ![k] = Idle]
    /\ unreported' = unreported \ job[k].keys
    /\ UNCHANGED <<created, cluster, queues, engineMaps, bounds, disturbed>>

\* Others create a service account.  A goroutine that has validated its plan
\* will not see it.
CreateAccount(a) ==
    /\ Count("claims", MaxClaims)
    /\ a \notin sas \cup DOMAIN foreign
    /\ foreign' = Put(foreign, a, {k \in Worker : job[k].pc \in DOMAIN NextOp})
    /\ UNCHANGED <<wsas, created, sas, roles, bindings, queues, job, engineMaps, ghosts>>

-----------------------------------------------------------------------------
\* handlePermanentFailure: list, swap the maps, requeue what still exists.
RebuildStateFromCluster(k) ==
    /\ job[k].pc = "rebuild"
    /\ job' = [job EXCEPT ![k].plan = Live, ![k].pc = "swap"]
    /\ UNCHANGED <<wsas, created, cluster, queues, engineMaps, bounds, ghosts>>

SwapState(k) ==
    /\ job[k].pc = "swap"
    /\ served' = job[k].plan
    /\ mapped' = DOMAIN job[k].plan
    /\ job' = [job EXCEPT ![k].pc = "requeue"]
    /\ UNCHANGED <<wsas, created, cluster, queues, bounds, ghosts>>

\* A bug: the rebuild is taken for the repair.
Mut_requeueFailedResources(k) ==
    /\ job[k].pc = "requeue"
    /\ job' = [job EXCEPT ![k] = Idle]
    /\ UNCHANGED <<wsas, created, cluster, queues, engineMaps, bounds, ghosts>>

requeueFailedResources(k) ==
    /\ job[k].pc = "requeue"
    /\ pending' = pending \cup (job[k].keys \cap DOMAIN wsas)
    /\ job' = [job EXCEPT ![k] = Idle]
    /\ Disturb(job[k].keys \cap DOMAIN wsas = {})
    /\ UNCHANGED <<wsas, created, cluster, requests, checking, retryQueue, engineMaps, bounds,
                   unreported>>

-----------------------------------------------------------------------------
\* Failures.  One of several calls fails: the loops of the execution go on and
\* report the error at the end.
CallFails(k) ==
    /\ Count("faults", MaxFaults)
    /\ job[k].pc \in DOMAIN NextOp
    /\ \E x \in job[k].todo :
          job' = [job EXCEPT ![k].todo = @ \ {x}, ![k].failed = TRUE]
    /\ UNCHANGED <<wsas, created, cluster, queues, engineMaps, ghosts>>

\* A list or a read fails, or the stage runs into its timeout.
StageFails(k) ==
    /\ Count("faults", MaxFaults)
    /\ job[k].pc \in {"planning", "validation"} \cup DOMAIN NextOp
    /\ FailBatch(k)
    /\ UNCHANGED <<created, cluster, requests, checking, pending, engineMaps, ghosts>>

\* The rebuild fails: nothing is requeued.  Or the last status write does.
RebuildOrStatusFails(k) ==
    /\ Count("faults", MaxFaults)
    /\ job[k].pc \in {"rebuild", "done"}
    /\ job' = [job EXCEPT ![k] = Idle]
    /\ Disturb(job[k].pc = "rebuild")
    /\ unreported' = unreported \cup job[k].keys
    /\ UNCHANGED <<wsas, created, cluster, queues, engineMaps>>

\* The leader stops; its successor starts with what the API server holds.  All
\* in-memory state is gone; the state syncer has built the scope mappings (but
\* not saToWsaMap), and every existing WSA is reconciled once.
Restart ==
    /\ Count("crashes", MaxCrashes)
    /\ requests' = DOMAIN wsas
    /\ checking' = {} /\ pending' = {} /\ retryQueue' = {}
    /\ job' = [k \in Worker |-> Idle]
    /\ served' = Live
    /\ mapped' = {}
    /\ Disturb(DOMAIN wsas = {})
    /\ UNCHANGED <<wsas, created, cluster, unreported>>

-----------------------------------------------------------------------------
Reconcile(w) == ReconcileGone(w) \/ ReconcileDeleting(w) \/ ReconcileLive(w)

Work(k) ==
    \/ Planning(k) \/ Validation(k)
    \/ createRoleIfNeeded(k) \/ createServiceAccount(k) \/ createRoleBindingsForResource(k)
    \/ GarbageCollectServiceAccounts(k) \/ GarbageCollectRoles(k)
    \/ GarbageCollectRoleBindings(k) \/ GarbageCollectClusterRoleBindings(k)
    \/ FinishOp(k) \/ ApplyBatchPlan(k) \/ updateFinalConditions(k)
    \/ RebuildStateFromCluster(k) \/ SwapState(k) \/ requeueFailedResources(k)

Next ==
    \/ \E w \in Name, spec \in SpecChoice : CreateWSA(w, spec) \/ UpdateWSA(w, spec)
    \/ \E w \in Name : DeleteWSA(w) \/ Reconcile(w) \/ handleDeletion(w) \/ Resync(w)
    \/ Drift \/ KubernetesGC
    \/ \E a \in Scopes : CreateAccount(a)
    \/ TakeBatch \/ TakeRetry
    \/ \E k \in Worker : Work(k) \/ CallFails(k) \/ StageFails(k) \/ RebuildOrStatusFails(k)
    \/ Restart

Spec == Init /\ [][Next]_vars

\* Goroutines run: queued requests are reconciled, the informers resync, an
\* idle loop takes a batch, a busy one goes on.  Users and failures are never
\* forced.
Fairness ==
    /\ \A w \in Name :
          WF_vars(Reconcile(w)) /\ WF_vars(handleDeletion(w)) /\ WF_vars(Resync(w))
    /\ WF_vars(TakeBatch) /\ WF_vars(TakeRetry)
    /\ \A k \in Worker : WF_vars(Work(k))

FairSpec == Spec /\ Fairness

-----------------------------------------------------------------------------
Rules == {s.rules : s \in SpecChoice}
Plans == UNION {[S -> [scope : Scopes, rules : Rules]] : S \in SUBSET Name}
RoleKeys == [kind : {"Role", "ClusterRole"}, rules : Rules]

\* Types, and the bound of the failures a batch in the retry queue has had.
TypeOK ==
    /\ DOMAIN wsas \subseteq created /\ created \subseteq Name
    /\ \A w \in DOMAIN wsas :
          wsas[w] \in [spec : SpecChoice, deleting : BOOLEAN, finalizer : BOOLEAN,
                       ready : {"Unknown", "True", "False"}, observed : BOOLEAN,
                       byController : BOOLEAN]
    /\ sas \subseteq Scopes
    /\ DOMAIN roles \subseteq RoleKeys
    /\ \A r \in DOMAIN roles : roles[r] \in Name
    /\ DOMAIN bindings \subseteq [wsa : Name, role : RoleKeys]
    /\ sas \cap DOMAIN foreign = {}
    /\ \A a \in DOMAIN foreign : foreign[a] \subseteq Worker
    /\ requests \cup checking \cup pending \subseteq Name
    /\ retryQueue \subseteq [keys : SUBSET Name, fails : 1..MaxRetries]
    /\ \A k \in Worker :
          /\ job[k].pc \in {"idle", "planning", "validation", "ApplyBatchPlan", "done",
                            "rebuild", "swap", "requeue"} \cup DOMAIN NextOp
          /\ job[k].keys \subseteq Name
          /\ job[k].fails \in 0..MaxRetries
          /\ job[k].plan \in Plans
    /\ served \in Plans
    /\ mapped \subseteq Name
    /\ disturbed \in BOOLEAN /\ unreported \subseteq Name

\* No work is left that would be done without a further change.
Quiescent ==
    /\ requests = {} /\ checking = {} /\ pending = {} /\ retryQueue = {}
    /\ \A k \in Worker : job[k] = Idle

(***************************************************************************)
(* When the work is done, the cluster and the engine's maps are those of   *)
(* the WSAs that exist: the accounts, namespaced roles and bindings they   *)
(* need and no other, each binding with the right subject, the pod webhook *)
(* answering from the same resources.  Stages that fail half way, retries, *)
(* batches given up, restarts, objects deleted or edited by others,        *)
(* deletions before, during and after a plan and the triggers of the       *)
(* controller's own deletions are included.  The claim fails after what    *)
(* `disturbed' stands for, until a batch has had the cluster to itself:    *)
(* two batches processed at once, a rebuild that fails, a batch given up   *)
(* or a restart when no WSA is left to be reconciled, a WSA deleted before *)
(* it had its finalizer although a batch had listed it.                    *)
(***************************************************************************)
Converges ==
    Quiescent /\ ~disturbed =>
        /\ sas = UniqueAccounts(Live)
        /\ {r \in DOMAIN roles : r.kind = "Role"} =
               {r \in ExpectedRoles(Live) : r.kind = "Role"}
        /\ ExpectedRoles(Live) \subseteq DOMAIN roles
        /\ DOMAIN bindings = ExpectedBindings(Live)
        /\ \A b \in DOMAIN bindings : bindings[b] = {Live[b.wsa].scope}
        /\ served = Live
        /\ mapped = DOMAIN Live

(***************************************************************************)
(* When the work is done, every WSA is reported ready for its current      *)
(* generation, two batches at once included, but for those whose rebuild   *)
(* or last status write failed, which is only logged.                      *)
(***************************************************************************)
ReportedReady ==
    Quiescent => \A w \in DOMAIN Live \ unreported : wsas[w].ready = "True" /\ wsas[w].observed

(***************************************************************************)
(* A service account of somebody else is never taken over by a batch that  *)
(* was validated after it was there, by neither goroutine and in no retry, *)
(* although plans are made from newer lists and others create accounts all *)
(* the time.  One created between the validation and the forced apply of a *)
(* batch is taken over: nothing looks at it again.                         *)
(***************************************************************************)
KnownAccountsUntouched ==
    [][\A a \in DOMAIN foreign \ DOMAIN foreign' :
         \E k \in Worker : createServiceAccount(k) /\ k \in foreign[a]]_vars

(***************************************************************************)
(* A WSA that is being deleted is never forgotten: its next Reconcile is   *)
(* queued or under way, whatever its batches come to and whether or not it *)
(* is still in the maps when handleDeletion looks.                         *)
(***************************************************************************)
DeletionAwaited ==
    \A w \in DOMAIN wsas : wsas[w].deleting => w \in requests \cup checking

(***************************************************************************)
(* A WSA that is being deleted disappears, although its finalizer waits    *)
(* for a map that batches publish: through failing calls, retries, batches *)
(* given up, restarts and accounts in conflict.                            *)
(***************************************************************************)
DeletionCompletes ==
    \A w \in Name :
        (w \in DOMAIN wsas /\ wsas[w].deleting) ~> w \notin DOMAIN wsas

(***************************************************************************)
(* "Minimum frequency at which watched resources are reconciled"           *)
(* (main.go:110, of cache-sync-period): a WSA that stays is reconciled     *)
(* again and again.                                                        *)
(***************************************************************************)
WatchedResourcesReconciled ==
    \A w \in Resynced : <>[](w \in DOMAIN wsas) => []<>(w \in requests)

(***************************************************************************)
(* "the execution stage publishes mappings only after creating the service *)
(* accounts they name" (state_syncer.go:42): when ApplyBatchPlan publishes *)
(* a plan, its accounts exist.                                             *)
(***************************************************************************)
PublishedAccountsExist ==
    [][\A k \in Worker : ApplyBatchPlan(k) => UniqueAccounts(job[k].plan) \subseteq sas]_vars

(***************************************************************************)
(* The same sentence holds of a batch that has the cluster to itself while *)
(* nobody else deletes accounts: calls that fail, other changes of WSAs    *)
(* and the batch's own collection between creation and publication do not  *)
(* matter.                                                                 *)
(***************************************************************************)
PublishedAccountsExistAlone ==
    [][\A k \in Worker :
         ApplyBatchPlan(k) /\ ~disturbed /\ bounds.drifts = 0 =>
             UniqueAccounts(job[k].plan) \subseteq sas]_vars
=============================================================================
