--------------------------- MODULE StagingProofs ---------------------------
(***************************************************************************)
(* The types of Staging, and that no service account of somebody else is   *)
(* taken over by a batch that was validated after it was there, for every  *)
(* number of WSAs, specs, retries, failures, restarts and accounts that    *)
(* others create meanwhile.                                                *)
(*                                                                         *)
(* The argument: accounts are created from plans only, validation refuses  *)
(* a plan that needs an account of somebody else, and from validation on   *)
(* the accounts of a plan stay: what is refreshed by the status writes in  *)
(* between are its rules.  So the invariant says of each goroutine that is *)
(* past validation that its plan needs only such accounts of others as     *)
(* were created after its validation.                                      *)
(***************************************************************************)
EXTENDS Staging, TLAPS

WSARecord ==
    [spec : SpecChoice, deleting : BOOLEAN, finalizer : BOOLEAN,
     ready : {"Unknown", "True", "False"}, observed : BOOLEAN, byController : BOOLEAN]

\* The parts of TypeOK.
WSAsOK ==
    /\ DOMAIN wsas \subseteq created /\ created \subseteq Name
    /\ \A w \in DOMAIN wsas : wsas[w] \in WSARecord

ObjectsOK ==
    /\ sas \subseteq Scopes
    /\ DOMAIN roles \subseteq RoleKeys
    /\ \A r \in DOMAIN roles : roles[r] \in Name
    /\ DOMAIN bindings \subseteq [wsa : Name, role : RoleKeys]

QueuesOK ==
    /\ requests \cup checking \cup pending \subseteq Name
    /\ retryQueue \subseteq [keys : SUBSET Name, fails : 1..MaxRetries]

Executing == DOMAIN NextOp

JobPCs == {"idle", "planning", "validation", "ApplyBatchPlan", "done", "rebuild", "swap",
           "requeue"} \cup Executing

\* A job is a record; what its todo holds depends on the operation.
JobOK(j) ==
    /\ j = [f \in {"pc", "keys", "fails", "plan", "todo", "failed"} |-> j[f]]
    /\ j.pc \in JobPCs
    /\ j.keys \subseteq Name
    /\ j.fails \in 0..MaxRetries
    /\ j.plan \in Plans

JobsOK == DOMAIN job = Worker /\ \A k \in Worker : JobOK(job[k])

MapsOK == served \in Plans /\ mapped \subseteq Name

GhostsOK == disturbed \in BOOLEAN /\ unreported \subseteq Name

ForeignOK ==
    /\ sas \cap DOMAIN foreign = {}
    /\ \A a \in DOMAIN foreign : foreign[a] \subseteq Worker

\* A plan of goroutine k needs accounts of others only that k could not see.
Unseen(k, plan) == \A a \in UniqueAccounts(plan) \cap DOMAIN foreign : k \in foreign[a]

\* So does every plan that is being executed.
PlansFree == \A k \in Worker : job[k].pc \in Executing => Unseen(k, job[k].plan)

IInv ==
    /\ WSAsOK /\ ObjectsOK /\ QueuesOK /\ JobsOK /\ MapsOK /\ GhostsOK
    /\ PlansFree
    /\ ForeignOK

(***************************************************************************)
(* The invariant holds the type invariant.                                 *)
(***************************************************************************)
LEMMA InvariantImpliesTypes == IInv => TypeOK
  BY DEF IInv, TypeOK, WSAsOK, ObjectsOK, QueuesOK, JobsOK, JobOK, MapsOK, JobPCs, Executing,
         GhostsOK, WSARecord, ForeignOK

(***************************************************************************)
(* What a plan is: a function from some of the names to scopes and rules.  *)
(***************************************************************************)
LEMMA PlansDef ==
    \A p : p \in Plans <=>
        /\ DOMAIN p \subseteq Name
        /\ p \in [DOMAIN p -> [scope : Scopes, rules : Rules]]
  BY DEF Plans

(***************************************************************************)
(* Lists of the API server, refreshed plans and the empty plan are plans.  *)
(***************************************************************************)
LEMMA PlansTyped ==
    ASSUME WSAsOK
    PROVE  /\ Nothing \in Plans
           /\ Live \in Plans
           /\ \A plan \in Plans : \A S \in SUBSET ((DOMAIN plan) \cap DOMAIN wsas) :
                 /\ Refreshed(plan, S) \in Plans
                 /\ UniqueAccounts(Refreshed(plan, S)) = UniqueAccounts(plan)
<1>1. \A s \in SpecChoice : s \in [scope : Scopes, rules : Rules]
  BY StagingAssumption DEF Scopes, Rules
<1>2. \A w \in DOMAIN wsas : wsas[w].spec \in [scope : Scopes, rules : Rules]
  BY <1>1 DEF WSAsOK, WSARecord
<1>3. Nothing \in Plans
  BY PlansDef DEF Nothing
<1>4. Live \in Plans
  <2>1. DOMAIN Live \subseteq Name /\ DOMAIN Live \subseteq DOMAIN wsas
    BY DEF Live, WSAsOK
  <2>2. Live \in [DOMAIN Live -> [scope : Scopes, rules : Rules]]
    BY <1>2, <2>1 DEF Live
  <2>3. QED
    BY <2>1, <2>2, PlansDef
<1>5. ASSUME NEW plan \in Plans, NEW S \in SUBSET ((DOMAIN plan) \cap DOMAIN wsas)
      PROVE  /\ Refreshed(plan, S) \in Plans
             /\ UniqueAccounts(Refreshed(plan, S)) = UniqueAccounts(plan)
  <2>1. DOMAIN plan \subseteq Name /\ plan \in [DOMAIN plan -> [scope : Scopes, rules : Rules]]
    BY PlansDef
  <2>2. DOMAIN Refreshed(plan, S) = DOMAIN plan
    BY DEF Refreshed
  <2>3. \A w \in DOMAIN plan : wsas[w].spec.rules \in Rules \/ w \notin S
    BY <1>2, <1>5
  <2>4. \A w \in DOMAIN plan :
           /\ Refreshed(plan, S)[w] \in [scope : Scopes, rules : Rules]
           /\ Refreshed(plan, S)[w].scope = plan[w].scope
    BY <2>1, <2>3 DEF Refreshed
  <2>5. Refreshed(plan, S) \in Plans
    <3>1. Refreshed(plan, S) \in [DOMAIN Refreshed(plan, S) -> [scope : Scopes, rules : Rules]]
      BY <2>2, <2>4 DEF Refreshed
    <3>2. QED
      BY <2>1, <2>2, <3>1, PlansDef
  <2>6. UniqueAccounts(Refreshed(plan, S)) = UniqueAccounts(plan)
    BY <2>2, <2>4 DEF UniqueAccounts
  <2>7. QED
    BY <2>5, <2>6
<1>6. QED
  BY <1>3, <1>4, <1>5

(***************************************************************************)
(* What a plan needs is within the types.                                  *)
(***************************************************************************)
LEMMA PlanNeeds ==
    ASSUME NEW plan \in Plans, NEW w \in DOMAIN plan
    PROVE  /\ w \in Name
           /\ RoleOf(plan, w) \in RoleKeys
           /\ BindingOf(plan, w) \in [wsa : Name, role : RoleKeys]
           /\ UniqueAccounts(plan) \subseteq Scopes
<1>1. DOMAIN plan \subseteq Name /\ plan \in [DOMAIN plan -> [scope : Scopes, rules : Rules]]
  BY PlansDef
<1>2. RoleOf(plan, w) \in RoleKeys
  BY <1>1 DEF RoleOf, RoleKeys
<1>3. QED
  BY <1>1, <1>2 DEF BindingOf, UniqueAccounts

\* No account of others is new, and each is as unseen as before, but for k.
SeenBy(k) ==
    /\ DOMAIN foreign' \subseteq DOMAIN foreign
    /\ \A a \in DOMAIN foreign' : foreign[a] \ {k} \subseteq foreign'[a]

\* Accounts of others at most go.
ForeignGoes ==
    /\ DOMAIN foreign' \subseteq DOMAIN foreign
    /\ \A a \in DOMAIN foreign' : foreign'[a] = foreign[a]

(***************************************************************************)
(* One goroutine's step: a new job for k that is typed, and whose plan     *)
(* needs no account of others that k could see when it is executed, keeps  *)
(* the jobs as they should be.                                             *)
(***************************************************************************)
LEMMA JobStep ==
    ASSUME JobsOK, PlansFree, NEW k \in Worker, NEW j,
           JobOK(j), SeenBy(k),
           j.pc \in Executing =>
               \A a \in UniqueAccounts(j.plan) \cap DOMAIN foreign' : k \in foreign'[a],
           job' = [job EXCEPT ![k] = j]
    PROVE  JobsOK' /\ PlansFree'
<1>1. DOMAIN job' = Worker /\ job'[k] = j /\ \A i \in Worker \ {k} : job'[i] = job[i]
  BY DEF JobsOK
<1>2. \A i \in Worker : JobOK(job'[i])
  BY <1>1 DEF JobsOK
<1>3. ASSUME NEW i \in Worker, job'[i].pc \in Executing,
             NEW a \in UniqueAccounts(job'[i].plan) \cap DOMAIN foreign'
      PROVE  i \in foreign'[a]
  <2>1. CASE i = k
    BY <1>1, <1>3, <2>1
  <2>2. CASE i # k
    <3>1. job'[i] = job[i] /\ a \in DOMAIN foreign
      BY <1>1, <2>2 DEF SeenBy
    <3>2. i \in foreign[a]
      BY <1>3, <3>1 DEF PlansFree, Unseen
    <3>3. QED
      BY <2>2, <3>2 DEF SeenBy
  <2>3. QED
    BY <2>1, <2>2
<1>4. JobsOK'
  BY <1>1, <1>2 DEF JobsOK, JobOK
<1>5. PlansFree'
  BY <1>3 DEF PlansFree, Unseen, UniqueAccounts
<1>6. QED
  BY <1>4, <1>5

(***************************************************************************)
(* A job that is new is typed, and executes nothing.                       *)
(***************************************************************************)
LEMMA NewJobTyped ==
    /\ JobOK(Idle) /\ Idle.pc \notin Executing
    /\ \A pc \in {"planning", "rebuild"}, keys \in SUBSET Name, fails \in 0..MaxRetries :
          /\ JobOK(NewJob(pc, keys, fails))
          /\ NewJob(pc, keys, fails).pc \notin Executing
<1>1. Nothing \in Plans
  BY PlansDef DEF Nothing
<1>2. 0 \in 0..MaxRetries
  BY StagingAssumption
<1>3. /\ {"idle", "planning", "rebuild"} \subseteq JobPCs
      /\ {"idle", "planning", "rebuild"} \cap Executing = {}
  BY DEF JobPCs, Executing, NextOp
<1>4. QED
  BY <1>1, <1>2, <1>3 DEF Idle, NewJob, JobOK

(***************************************************************************)
(* The status writes keep the WSAs typed.                                  *)
(***************************************************************************)
LEMMA StatusTyped ==
    ASSUME WSAsOK, created' = created, NEW keys
    PROVE  /\ \A ready \in {"True", "False"} : UpdateCondition(keys, ready) => WSAsOK'
           /\ updateStageStatus(keys) => WSAsOK'
<1>1. ASSUME NEW ready \in {"True", "False"}, UpdateCondition(keys, ready) PROVE WSAsOK'
  BY <1>1 DEF WSAsOK, WSARecord, UpdateCondition
<1>2. ASSUME updateStageStatus(keys) PROVE WSAsOK'
  BY <1>2 DEF WSAsOK, WSARecord, updateStageStatus
<1>3. QED
  BY <1>1, <1>2

(***************************************************************************)
(* A batch that fails is queued within its bound, or given up.             *)
(***************************************************************************)
LEMMA FailBatchStep ==
    ASSUME IInv, NEW k \in Worker, FailBatch(k), SeenBy(k),
           UNCHANGED <<created, requests, checking, pending>>
    PROVE  WSAsOK' /\ QueuesOK' /\ JobsOK' /\ PlansFree'
<1> DEFINE again == [keys |-> job[k].keys, fails |-> job[k].fails + 1]
           given == NewJob("rebuild", job[k].keys, 0)
<1>1. WSAsOK /\ QueuesOK /\ JobsOK /\ PlansFree
  BY DEF IInv
<1>2. job[k].keys \in SUBSET Name /\ job[k].fails \in 0..MaxRetries
  BY <1>1 DEF JobsOK, JobOK
<1>3. WSAsOK'
  BY <1>1, StatusTyped DEF FailBatch
<1>4. CASE job[k].fails + 1 <= MaxRetries
  <2>1. retryQueue' = retryQueue \cup {again} /\ job' = [job EXCEPT ![k] = Idle]
    BY <1>4 DEF FailBatch
  <2>2. again \in [keys : SUBSET Name, fails : 1..MaxRetries]
    BY <1>2, <1>4, StagingAssumption
  <2>3. QueuesOK'
    BY <1>1, <2>1, <2>2 DEF QueuesOK
  <2>4. QED
    BY <1>1, <1>3, <2>1, <2>3, NewJobTyped, JobStep
<1>5. CASE ~(job[k].fails + 1 <= MaxRetries)
  <2>1. retryQueue' = retryQueue /\ job' = [job EXCEPT ![k] = given]
    BY <1>5 DEF FailBatch
  <2>2. JobOK(given) /\ given.pc \notin Executing
    BY <1>2, NewJobTyped, StagingAssumption
  <2>3. QueuesOK'
    BY <1>1, <2>1 DEF QueuesOK
  <2>4. JobsOK' /\ PlansFree'
    BY <1>1, <2>1, <2>2, JobStep
  <2>5. QED
    BY <1>3, <2>3, <2>4
<1>6. QED
  BY <1>4, <1>5

(***************************************************************************)
(* What an action leaves alone stays as it should be.                      *)
(***************************************************************************)
LEMMA Frame ==
    ASSUME IInv
    PROVE  /\ UNCHANGED <<wsas, created>> => WSAsOK'
           /\ UNCHANGED <<sas, roles, bindings>> => ObjectsOK'
           /\ UNCHANGED <<sas, foreign>> => ForeignOK'
           /\ UNCHANGED <<requests, checking, pending, retryQueue>> => QueuesOK'
           /\ UNCHANGED <<job, foreign>> => JobsOK' /\ PlansFree'
           /\ UNCHANGED foreign => ForeignGoes
           /\ ForeignGoes => \A k \in Worker : SeenBy(k)
           /\ UNCHANGED <<served, mapped>> => MapsOK'
           /\ UNCHANGED <<disturbed, unreported>> => GhostsOK'
<1>1. UNCHANGED <<wsas, created>> => WSAsOK'
  BY DEF IInv, WSAsOK
<1>2. UNCHANGED <<sas, roles, bindings>> => ObjectsOK'
  BY DEF IInv, ObjectsOK
<1>3. UNCHANGED <<sas, foreign>> => ForeignOK'
  BY DEF IInv, ForeignOK
<1>4. UNCHANGED <<requests, checking, pending, retryQueue>> => QueuesOK'
  BY DEF IInv, QueuesOK
<1>5. UNCHANGED <<job, foreign>> => JobsOK' /\ PlansFree'
  BY DEF IInv, JobsOK, JobOK, PlansFree, Unseen, UniqueAccounts
<1>6. UNCHANGED <<served, mapped>> => MapsOK'
  BY DEF IInv, MapsOK
<1>7. UNCHANGED <<disturbed, unreported>> => GhostsOK'
  BY DEF IInv, GhostsOK
<1>8. /\ UNCHANGED foreign => ForeignGoes
      /\ ForeignGoes => \A k \in Worker : SeenBy(k)
  BY DEF SeenBy, ForeignGoes
<1>9. QED
  BY <1>1, <1>2, <1>3, <1>4, <1>5, <1>6, <1>7, <1>8

\* A WSA keeps its type when another record of the type takes its place.
LEMMA OneWSAChanges ==
    ASSUME WSAsOK, NEW w \in DOMAIN wsas, NEW rec \in WSARecord,
           wsas' = [wsas EXCEPT ![w] = rec], created' = created
    PROVE  WSAsOK'
<1>1. DOMAIN wsas' = DOMAIN wsas
  OBVIOUS
<1>2. \A x \in DOMAIN wsas : wsas'[x] = IF x = w THEN rec ELSE wsas[x]
  OBVIOUS
<1>3. QED
  BY <1>1, <1>2 DEF WSAsOK

(***************************************************************************)
(* What the writes of users, and the resync of the informers, preserve.    *)
(***************************************************************************)
LEMMA UserStep ==
    ASSUME IInv, NEW w \in Name
    PROVE  /\ \A spec \in SpecChoice : CreateWSA(w, spec) \/ UpdateWSA(w, spec) => IInv'
           /\ DeleteWSA(w) => IInv'
           /\ Resync(w) => IInv'
<1>1. ASSUME NEW spec \in SpecChoice, CreateWSA(w, spec) PROVE IInv'
  <2>1. NewWSA(spec) \in WSARecord
    BY DEF NewWSA, WSARecord
  <2>2. WSAsOK'
    BY <1>1, <2>1 DEF CreateWSA, IInv, WSAsOK, Put
  <2>3. QueuesOK'
    BY <1>1 DEF CreateWSA, IInv, QueuesOK
  <2>4. QED
    BY <1>1, <2>2, <2>3, Frame DEF CreateWSA, cluster, engineMaps, ghosts, IInv
<1>2. ASSUME NEW spec \in SpecChoice, UpdateWSA(w, spec) PROVE IInv'
  <2>1. WSAsOK'
    <3>1. w \in DOMAIN wsas /\ wsas[w] \in WSARecord /\ WSAsOK
      BY <1>2 DEF UpdateWSA, IInv, WSAsOK
    <3> DEFINE rec == [wsas[w] EXCEPT !.spec = spec, !.observed = FALSE, !.byController = FALSE]
    <3>2. rec \in WSARecord
      BY <3>1 DEF WSARecord
    <3>3. wsas' = [wsas EXCEPT ![w] = rec] /\ created' = created
      BY <1>2, <3>1 DEF UpdateWSA
    <3> HIDE DEF rec
    <3>4. QED
      BY <3>1, <3>2, <3>3, OneWSAChanges
  <2>2. QueuesOK'
    BY <1>2 DEF UpdateWSA, IInv, QueuesOK
  <2>3. QED
    BY <1>2, <2>1, <2>2, Frame DEF UpdateWSA, cluster, engineMaps, ghosts, IInv
<1>3. ASSUME DeleteWSA(w) PROVE IInv'
  <2>1. ASSUME wsas[w].finalizer PROVE WSAsOK'
    <3>1. w \in DOMAIN wsas /\ wsas[w] \in WSARecord /\ WSAsOK
      BY <1>3 DEF DeleteWSA, IInv, WSAsOK
    <3> DEFINE rec == [wsas[w] EXCEPT !.deleting = TRUE, !.observed = FALSE]
    <3>2. rec \in WSARecord
      BY <3>1 DEF WSARecord
    <3>3. wsas' = [wsas EXCEPT ![w] = rec] /\ created' = created
      BY <1>3, <2>1, <3>1 DEF DeleteWSA
    <3> HIDE DEF rec
    <3>4. QED
      BY <3>1, <3>2, <3>3, OneWSAChanges
  <2>2. ~wsas[w].finalizer => WSAsOK'
    BY <1>3 DEF DeleteWSA, IInv, WSAsOK, Drop
  <2>3. QueuesOK'
    BY <1>3 DEF DeleteWSA, IInv, QueuesOK
  <2>4. GhostsOK'
    BY <1>3 DEF DeleteWSA, Disturb, IInv, GhostsOK
  <2>5. QED
    BY <1>3, <2>1, <2>2, <2>3, <2>4, Frame DEF DeleteWSA, cluster, engineMaps, ghosts, IInv
<1>4. ASSUME Resync(w) PROVE IInv'
  <2>1. QueuesOK'
    BY <1>4 DEF Resync, IInv, QueuesOK
  <2>2. QED
    BY <1>4, <2>1, Frame DEF Resync, cluster, engineMaps, ghosts, IInv
<1>5. QED
  BY <1>1, <1>2, <1>3, <1>4

(***************************************************************************)
(* What the watches enqueue for an object that is gone are names.          *)
(***************************************************************************)
LEMMA EnqueueNames ==
    ASSUME IInv, NEW existed, NEW names, existed => names \subseteq Name,
           Enqueue(existed, names), UNCHANGED <<checking, pending, retryQueue>>
    PROVE  QueuesOK'
  BY DEF Enqueue, IInv, QueuesOK

(***************************************************************************)
(* Managed objects that disappear leave typed objects, and take over       *)
(* nothing.                                                                *)
(***************************************************************************)
LEMMA ObjectsGo ==
    ASSUME IInv,
           sas' \subseteq sas, foreign' = foreign,
           DOMAIN roles' \subseteq DOMAIN roles,
           \A r \in DOMAIN roles' : roles'[r] = roles[r],
           DOMAIN bindings' \subseteq DOMAIN bindings
    PROVE  ObjectsOK' /\ ForeignOK'
  BY DEF IInv, ObjectsOK, ForeignOK

(***************************************************************************)
(* What the changes of others, and Kubernetes' garbage collection,         *)
(* preserve.                                                               *)
(***************************************************************************)
LEMMA OthersStep == IInv /\ (Drift \/ KubernetesGC \/ \E a \in Scopes : CreateAccount(a)) => IInv'
<1> SUFFICES ASSUME IInv, Drift \/ KubernetesGC \/ \E a \in Scopes : CreateAccount(a) PROVE IInv'
  OBVIOUS
<1>1. CASE Drift
  <2>1. MapServiceAccountToResources \subseteq Name
    BY DEF MapServiceAccountToResources, Live, IInv, WSAsOK
  <2>2. UNCHANGED <<foreign, checking, pending, retryQueue>>
    BY <1>1 DEF Drift
  <2>3. ASSUME NEW a \in sas, sas' = sas \ {a}, Enqueue(TRUE, MapServiceAccountToResources),
               UNCHANGED <<roles, bindings>>
        PROVE  QueuesOK' /\ ObjectsOK' /\ ForeignOK'
    BY <2>1, <2>2, <2>3, EnqueueNames, ObjectsGo
  <2>4. ASSUME NEW r \in DOMAIN roles, roles' = Drop(roles, r), Enqueue(TRUE, {roles[r]}),
               UNCHANGED <<sas, bindings>>
        PROVE  QueuesOK' /\ ObjectsOK' /\ ForeignOK'
    <3>1. roles[r] \in Name
      BY DEF IInv, ObjectsOK
    <3>2. DOMAIN roles' \subseteq DOMAIN roles /\ \A q \in DOMAIN roles' : roles'[q] = roles[q]
      BY <2>4 DEF Drop
    <3>3. QED
      BY <2>2, <2>4, <3>1, <3>2, EnqueueNames, ObjectsGo
  <2>5. ASSUME NEW b \in DOMAIN bindings,
               bindings' \in {Drop(bindings, b), [bindings EXCEPT ![b] = {}]},
               Enqueue(bindings' # bindings, {b.wsa}), UNCHANGED <<sas, roles>>
        PROVE  QueuesOK' /\ ObjectsOK' /\ ForeignOK'
    <3>1. b.wsa \in Name
      BY DEF IInv, ObjectsOK
    <3>2. DOMAIN bindings' \subseteq DOMAIN bindings
      BY <2>5 DEF Drop
    <3>3. QED
      BY <2>2, <2>5, <3>1, <3>2, EnqueueNames, ObjectsGo
  <2>6. QueuesOK' /\ ObjectsOK' /\ ForeignOK'
    BY <1>1, <2>3, <2>4, <2>5 DEF Drift
  <2>7. QED
    BY <1>1, <2>6, Frame DEF Drift, engineMaps, ghosts, IInv
<1>2. CASE KubernetesGC
  <2>1. ObjectsOK' /\ ForeignOK'
    <3>1. /\ DOMAIN roles' \subseteq DOMAIN roles /\ DOMAIN bindings' \subseteq DOMAIN bindings
          /\ \A q \in DOMAIN roles' : roles'[q] = roles[q]
      BY <1>2 DEF KubernetesGC, Drop
    <3>2. QED
      BY <1>2, <3>1, ObjectsGo DEF KubernetesGC
  <2>2. QED
    BY <1>2, <2>1, Frame DEF KubernetesGC, queues, engineMaps, ghosts, IInv
<1>3. ASSUME NEW a \in Scopes, CreateAccount(a) PROVE IInv'
  <2> DEFINE now == {k \in Worker : job[k].pc \in Executing}
  <2>1. /\ a \notin sas \cup DOMAIN foreign /\ UNCHANGED <<sas, job>>
        /\ DOMAIN foreign' = DOMAIN foreign \cup {a} /\ foreign'[a] = now
        /\ \A b \in DOMAIN foreign : foreign'[b] = foreign[b]
    BY <1>3 DEF CreateAccount, Put, Executing
  <2>2. ForeignOK'
    BY <2>1 DEF IInv, ForeignOK
  <2>3. JobsOK'
    BY <2>1 DEF IInv, JobsOK, JobOK
  <2>4. \A k \in Worker : job'[k].pc \in Executing =>
           \A b \in UniqueAccounts(job'[k].plan) \cap DOMAIN foreign' : k \in foreign'[b]
    BY <2>1 DEF IInv, PlansFree, Unseen
  <2>5. PlansFree'
    BY <2>4 DEF PlansFree, Unseen, UniqueAccounts
  <2>6. QED
    BY <1>3, <2>2, <2>3, <2>5, Frame DEF CreateAccount, queues, engineMaps, ghosts, IInv
<1>4. QED
  BY <1>1, <1>2, <1>3

(***************************************************************************)
(* What Reconcile and handleDeletion preserve.                             *)
(***************************************************************************)
LEMMA ReconcileStep ==
    ASSUME IInv, NEW w \in Name, Reconcile(w) \/ handleDeletion(w)
    PROVE  IInv'
<1>1. CASE ReconcileGone(w)
  <2>1. QueuesOK'
    BY <1>1 DEF ReconcileGone, IInv, QueuesOK
  <2>2. QED
    BY <1>1, <2>1, Frame DEF ReconcileGone, cluster, engineMaps, ghosts, IInv
<1>2. CASE ReconcileDeleting(w)
  <2>1. QueuesOK'
    BY <1>2 DEF ReconcileDeleting, IInv, QueuesOK
  <2>2. QED
    BY <1>2, <2>1, Frame DEF ReconcileDeleting, cluster, engineMaps, ghosts, IInv
<1>3. CASE ReconcileLive(w)
  <2>1. QueuesOK'
    <3>1. requests' \subseteq requests
      BY <1>3 DEF ReconcileLive
    <3>2. QED
      BY <1>3, <3>1 DEF ReconcileLive, IInv, QueuesOK
  <2>2. wsas[w].finalizer => WSAsOK'
    BY <1>3 DEF ReconcileLive, IInv, WSAsOK
  <2>3. ASSUME ~wsas[w].finalizer PROVE WSAsOK'
    <3>1. w \in DOMAIN wsas /\ wsas[w] \in WSARecord /\ WSAsOK
      BY <1>3 DEF ReconcileLive, IInv, WSAsOK
    <3> DEFINE rec == [wsas[w] EXCEPT !.finalizer = TRUE, !.byController = FALSE]
    <3>2. rec \in WSARecord
      BY <3>1 DEF WSARecord
    <3>3. wsas' = [wsas EXCEPT ![w] = rec] /\ created' = created
      BY <1>3, <2>3, <3>1 DEF ReconcileLive
    <3> HIDE DEF rec
    <3>4. QED
      BY <3>1, <3>2, <3>3, OneWSAChanges
  <2>4. QED
    BY <1>3, <2>1, <2>2, <2>3, Frame DEF ReconcileLive, cluster, engineMaps, ghosts, IInv
<1>4. CASE handleDeletion(w)
  <2>1. QueuesOK'
    BY <1>4 DEF handleDeletion, IInv, QueuesOK
  <2>2. WSAsOK'
    BY <1>4 DEF handleDeletion, IInv, WSAsOK, Drop
  <2>3. QED
    BY <1>4, <2>1, <2>2, Frame DEF handleDeletion, cluster, engineMaps, ghosts, IInv
<1>5. QED
  BY <1>1, <1>2, <1>3, <1>4 DEF Reconcile

(***************************************************************************)
(* What a goroutine that takes a batch preserves.                          *)
(***************************************************************************)
LEMMA TakeStep == IInv /\ (TakeBatch \/ TakeRetry) => IInv'
<1> SUFFICES ASSUME IInv, TakeBatch \/ TakeRetry PROVE IInv'
  OBVIOUS
<1>1. ASSUME NEW k \in Worker, NEW keys \in SUBSET Name, NEW fails \in 0..MaxRetries,
             Take(k, keys, fails), UNCHANGED foreign
      PROVE  JobsOK' /\ PlansFree' /\ GhostsOK'
  <2>1. job' = [job EXCEPT ![k] = NewJob("planning", keys, fails)]
    BY <1>1 DEF Take
  <2>2. GhostsOK'
    BY <1>1 DEF Take, IInv, GhostsOK
  <2>3. JobOK(NewJob("planning", keys, fails)) /\ NewJob("planning", keys, fails).pc \notin Executing
    BY NewJobTyped
  <2>4. JobsOK' /\ PlansFree'
    BY <1>1, <2>1, <2>3, JobStep, Frame DEF IInv
  <2>5. QED
    BY <2>2, <2>4
<1>2. CASE TakeBatch
  <2>1. JobsOK' /\ PlansFree' /\ GhostsOK'
    <3>1. pending \in SUBSET Name /\ 0 \in 0..MaxRetries /\ "main" \in Worker
      BY StagingAssumption DEF IInv, QueuesOK, Worker
    <3>2. QED
      BY <1>1, <1>2, <3>1 DEF TakeBatch, cluster
  <2>2. QueuesOK'
    BY <1>2 DEF TakeBatch, IInv, QueuesOK
  <2>3. QED
    BY <1>2, <2>1, <2>2, Frame DEF TakeBatch, cluster, engineMaps, ghosts, IInv
<1>3. CASE TakeRetry
  <2>1. PICK b \in retryQueue : Take("retry", b.keys, b.fails) /\ retryQueue' = retryQueue \ {b}
    BY <1>3 DEF TakeRetry
  <2>2. JobsOK' /\ PlansFree' /\ GhostsOK'
    <3>1. b.keys \in SUBSET Name /\ b.fails \in 0..MaxRetries /\ "retry" \in Worker
      BY StagingAssumption DEF IInv, QueuesOK, Worker
    <3>2. QED
      BY <1>1, <1>3, <2>1, <3>1 DEF TakeRetry, cluster
  <2>3. QueuesOK'
    BY <1>3, <2>1 DEF TakeRetry, IInv, QueuesOK
  <2>4. QED
    BY <1>3, <2>2, <2>3, Frame DEF TakeRetry, cluster, engineMaps, ghosts, IInv
<1>4. QED
  BY <1>2, <1>3

(***************************************************************************)
(* An operation of the execution begins with a plan that needs no account  *)
(* of others that the goroutine could see.                                 *)
(***************************************************************************)
LEMMA BeginOpStep ==
    ASSUME IInv, NEW k \in Worker, NEW op \in JobPCs, NEW plan \in Plans,
           \A a \in UniqueAccounts(plan) \cap DOMAIN foreign' : k \in foreign'[a],
           SeenBy(k), BeginOp(k, op, plan)
    PROVE  JobsOK' /\ PlansFree'
<1> DEFINE j == [job[k] EXCEPT !.pc = op, !.plan = plan, !.todo = Todo(op, plan)]
<1>1. JobOK(job[k]) /\ DOMAIN job = Worker
  BY DEF IInv, JobsOK
<1>2. job' = [job EXCEPT ![k] = j]
  BY <1>1 DEF BeginOp
<1>3. JobOK(j) /\ j.plan = plan
  BY <1>1 DEF JobOK
<1>4. QED
  BY <1>2, <1>3, JobStep DEF IInv

(***************************************************************************)
(* A job that only goes on with its plan: what is left to do, its outcome  *)
(* or its place in the same part of the work changes.                      *)
(***************************************************************************)
LEMMA SamePlanStep ==
    ASSUME IInv, NEW k \in Worker, NEW pc \in JobPCs, NEW todo, NEW failed,
           pc \in Executing => job[k].pc \in Executing, ForeignGoes,
           job' = [job EXCEPT ![k].pc = pc, ![k].todo = todo, ![k].failed = failed]
    PROVE  JobsOK' /\ PlansFree'
<1> DEFINE j == [job[k] EXCEPT !.pc = pc, !.todo = todo, !.failed = failed]
<1>1. JobOK(job[k]) /\ DOMAIN job = Worker
  BY DEF IInv, JobsOK
<1>2. job' = [job EXCEPT ![k] = j]
  BY <1>1
<1>3. JobOK(j) /\ j.plan = job[k].plan /\ j.pc = pc
  BY <1>1 DEF JobOK
<1>4. j.pc \in Executing => \A a \in UniqueAccounts(j.plan) \cap DOMAIN foreign' : k \in foreign'[a]
  BY <1>3 DEF IInv, PlansFree, Unseen, ForeignGoes
<1>5. SeenBy(k)
  BY Frame
<1> HIDE DEF j
<1>6. QED
  BY <1>2, <1>3, <1>4, <1>5, JobStep DEF IInv

(***************************************************************************)
(* Planning takes whatever the API server lists: nothing is known of its   *)
(* accounts yet.                                                           *)
(***************************************************************************)
LEMMA PlanningStep == ASSUME IInv, NEW k \in Worker, Planning(k) PROVE IInv'
<1> DEFINE j == [job[k] EXCEPT !.plan = Live, !.pc = "validation"]
<1>1. JobOK(job[k]) /\ DOMAIN job = Worker
  BY DEF IInv, JobsOK
<1>2. job' = [job EXCEPT ![k] = j]
  BY <1>1 DEF Planning
<1>3. Live \in Plans
  BY PlansTyped DEF IInv
<1>4. JobOK(j) /\ j.pc \notin Executing
  BY <1>1, <1>3 DEF JobOK, JobPCs, Executing, NextOp
<1>5. JobsOK' /\ PlansFree'
  <2>1. SeenBy(k)
    BY Frame DEF Planning, cluster
  <2> HIDE DEF j
  <2>2. QED
    BY <1>2, <1>4, <2>1, JobStep DEF IInv
<1>6. WSAsOK'
  BY StatusTyped DEF Planning, IInv
<1>7. QED
  BY <1>5, <1>6, Frame DEF Planning, cluster, queues, engineMaps, ghosts, IInv

(***************************************************************************)
(* Validation lets a plan through to the execution only when it is free of *)
(* accounts of others, and the refresh of its rules keeps it so.           *)
(***************************************************************************)
LEMMA ValidationStep == ASSUME IInv, NEW k \in Worker, Validation(k) PROVE IInv'
<1>a. foreign' = [a \in DOMAIN foreign |-> foreign[a] \ {k}]
  BY DEF Validation
<1>b. SeenBy(k) /\ DOMAIN foreign' = DOMAIN foreign
  BY <1>a DEF SeenBy
<1>c. ForeignOK'
  BY <1>a DEF Validation, IInv, ForeignOK
<1>1. CASE UniqueAccounts(job[k].plan) \cap DOMAIN foreign # {}
  <2>1. WSAsOK' /\ QueuesOK' /\ JobsOK' /\ PlansFree'
    BY <1>1, <1>b, FailBatchStep DEF Validation
  <2>2. QED
    BY <1>c, <2>1, Frame DEF Validation, engineMaps, ghosts, IInv
<1>2. CASE UniqueAccounts(job[k].plan) \cap DOMAIN foreign = {}
  <2>1. BeginExecution(k) /\ UNCHANGED retryQueue
    BY <1>2 DEF Validation
  <2>2. WSAsOK'
    BY <2>1, StatusTyped DEF BeginExecution, Validation, IInv
  <2>3. PICK written \in SUBSET {w \in job[k].keys \cap DOMAIN job[k].plan \cap DOMAIN wsas :
                                    job[k].plan[w].rules # wsas[w].spec.rules} :
           BeginOp(k, IF job[k].plan = Nothing THEN "GarbageCollectServiceAccounts"
                                               ELSE "EnsureRoles",
                   Refreshed(job[k].plan, written))
    BY <2>1 DEF BeginExecution
  <2>4. job[k].plan \in Plans /\ written \in SUBSET ((DOMAIN job[k].plan) \cap DOMAIN wsas)
    BY DEF IInv, JobsOK, JobOK
  <2>5. /\ Refreshed(job[k].plan, written) \in Plans
        /\ UniqueAccounts(Refreshed(job[k].plan, written)) \cap DOMAIN foreign' = {}
    BY <1>2, <1>b, <2>4, PlansTyped DEF IInv
  <2>6. (IF job[k].plan = Nothing THEN "GarbageCollectServiceAccounts" ELSE "EnsureRoles")
            \in JobPCs
    BY DEF JobPCs, Executing, NextOp
  <2>7. JobsOK' /\ PlansFree'
    BY <1>b, <2>3, <2>5, <2>6, BeginOpStep
  <2>8. QED
    BY <1>c, <2>1, <2>2, <2>7, Frame DEF Validation, engineMaps, ghosts, IInv
<1>3. QED
  BY <1>1, <1>2

(***************************************************************************)
(* A call of the execution takes an item off what is left to do.           *)
(***************************************************************************)
LEMMA CallStep ==
    ASSUME IInv, NEW k \in Worker, NEW op \in DOMAIN NextOp, NEW x, Call(k, op, x), ForeignGoes
    PROVE  JobsOK' /\ PlansFree' /\ job[k].pc \in Executing
<1>1. job[k].pc \in Executing /\ job[k].pc \in JobPCs
  BY DEF Call, Executing, JobPCs
<1>2. job' = [job EXCEPT ![k].pc = job[k].pc, ![k].todo = job[k].todo \ {x},
                         ![k].failed = job[k].failed]
  BY DEF Call, IInv, JobsOK, JobOK
<1>3. QED
  BY <1>1, <1>2, SamePlanStep

(***************************************************************************)
(* What the calls that create preserve.  Accounts are created from a plan  *)
(* that is being executed; one of somebody else is taken over.             *)
(***************************************************************************)
LEMMA EnsureStep ==
    ASSUME IInv, NEW k \in Worker,
           \/ createRoleIfNeeded(k)
           \/ createServiceAccount(k)
           \/ createRoleBindingsForResource(k)
    PROVE  IInv'
<1>1. job[k].plan \in Plans
  BY DEF IInv, JobsOK, JobOK
<1>2. {"EnsureRoles", "EnsureServiceAccounts", "EnsureRoleBindings"} \subseteq DOMAIN NextOp
  BY DEF NextOp
<1>3. CASE createRoleIfNeeded(k)
  <2>1. PICK w \in DOMAIN job[k].plan :
           /\ Call(k, "EnsureRoles", w)
           /\ roles' = Put(roles, RoleOf(job[k].plan, w), w)
           /\ UNCHANGED <<sas, bindings, foreign, requests>>
    BY <1>3 DEF createRoleIfNeeded
  <2>2. JobsOK' /\ PlansFree'
    BY <1>2, <2>1, CallStep, Frame
  <2>3. w \in Name /\ RoleOf(job[k].plan, w) \in RoleKeys
    BY <1>1, PlanNeeds
  <2>4. ObjectsOK'
    BY <2>1, <2>3 DEF IInv, ObjectsOK, Put
  <2>5. QED
    BY <2>1, <2>2, <2>4, Frame DEF Call, engineMaps, ghosts, IInv
<1>4. CASE createServiceAccount(k)
  <2>1. PICK a \in UniqueAccounts(job[k].plan) :
           /\ Call(k, "EnsureServiceAccounts", a)
           /\ sas' = sas \cup {a}
           /\ foreign' = Drop(foreign, a)
           /\ UNCHANGED <<roles, bindings, requests>>
    BY <1>4 DEF createServiceAccount
  <2>2. ForeignGoes /\ a \notin DOMAIN foreign'
    BY <2>1 DEF ForeignGoes, Drop
  <2>3. JobsOK' /\ PlansFree'
    BY <1>2, <2>1, <2>2, CallStep
  <2>4. a \in Scopes
    BY <1>1, PlansDef DEF UniqueAccounts
  <2>5. ObjectsOK' /\ ForeignOK'
    BY <2>1, <2>2, <2>4 DEF IInv, ObjectsOK, ForeignOK, ForeignGoes
  <2>6. QED
    BY <2>1, <2>3, <2>5, Frame DEF Call, engineMaps, ghosts, IInv
<1>5. CASE createRoleBindingsForResource(k)
  <2>1. PICK w \in DOMAIN job[k].plan :
           /\ Call(k, "EnsureRoleBindings", w)
           /\ bindings' = Put(bindings, BindingOf(job[k].plan, w), {job[k].plan[w].scope})
           /\ UNCHANGED <<sas, roles, foreign, requests>>
    BY <1>5 DEF createRoleBindingsForResource
  <2>2. JobsOK' /\ PlansFree'
    BY <1>2, <2>1, CallStep, Frame
  <2>3. BindingOf(job[k].plan, w) \in [wsa : Name, role : RoleKeys]
    BY <1>1, PlanNeeds
  <2>4. ObjectsOK'
    BY <2>1, <2>3 DEF IInv, ObjectsOK, Put
  <2>5. QED
    BY <2>1, <2>2, <2>4, Frame DEF Call, engineMaps, ghosts, IInv
<1>6. QED
  BY <1>3, <1>4, <1>5

(***************************************************************************)
(* What the garbage collection preserves: it only deletes.                 *)
(***************************************************************************)
LEMMA CollectStep ==
    ASSUME IInv, NEW k \in Worker,
           \/ GarbageCollectServiceAccounts(k) \/ GarbageCollectRoles(k)
           \/ GarbageCollectRoleBindings(k) \/ GarbageCollectClusterRoleBindings(k)
    PROVE  IInv'
<1>1. {"GarbageCollectServiceAccounts", "GarbageCollectRoles", "GarbageCollectRoleBindings",
       "GarbageCollectClusterRoleBindings"} \subseteq DOMAIN NextOp
  BY DEF NextOp
<1>2. CASE GarbageCollectServiceAccounts(k)
  <2>1. PICK a \in job[k].todo :
           /\ Call(k, "GarbageCollectServiceAccounts", a)
           /\ sas' = sas \ {a}
           /\ Enqueue(a \in sas, MapServiceAccountToResources)
           /\ UNCHANGED <<roles, bindings, foreign>>
    BY <1>2 DEF GarbageCollectServiceAccounts
  <2>2. JobsOK' /\ PlansFree'
    BY <1>1, <2>1, CallStep, Frame
  <2>3. MapServiceAccountToResources \subseteq Name
    BY DEF MapServiceAccountToResources, Live, IInv, WSAsOK
  <2>4. QueuesOK'
    BY <2>1, <2>3, EnqueueNames DEF Call
  <2>5. ObjectsOK' /\ ForeignOK'
    BY <2>1, ObjectsGo
  <2>6. QED
    BY <2>1, <2>2, <2>4, <2>5, Frame DEF Call, engineMaps, ghosts, IInv
<1>3. CASE GarbageCollectRoles(k)
  <2>1. PICK r \in job[k].todo :
           /\ Call(k, "GarbageCollectRoles", r)
           /\ roles' = Drop(roles, r)
           /\ Enqueue(r \in DOMAIN roles, {roles[r]})
           /\ UNCHANGED <<sas, bindings, foreign>>
    BY <1>3 DEF GarbageCollectRoles
  <2>2. JobsOK' /\ PlansFree'
    BY <1>1, <2>1, CallStep, Frame
  <2>3. r \in DOMAIN roles => {roles[r]} \subseteq Name
    BY DEF IInv, ObjectsOK
  <2>4. QueuesOK'
    BY <2>1, <2>3, EnqueueNames DEF Call
  <2>5. DOMAIN roles' \subseteq DOMAIN roles /\ \A q \in DOMAIN roles' : roles'[q] = roles[q]
    BY <2>1 DEF Drop
  <2>6. ObjectsOK' /\ ForeignOK'
    BY <2>1, <2>5, ObjectsGo
  <2>7. QED
    BY <2>1, <2>2, <2>4, <2>6, Frame DEF Call, engineMaps, ghosts, IInv
<1>4. ASSUME NEW op \in DOMAIN NextOp, DeleteBinding(k, op) PROVE IInv'
  <2>1. PICK b \in job[k].todo :
           /\ Call(k, op, b)
           /\ bindings' = Drop(bindings, b)
           /\ Enqueue(b \in DOMAIN bindings, {b.wsa})
           /\ UNCHANGED <<sas, roles, foreign>>
    BY <1>4 DEF DeleteBinding
  <2>2. JobsOK' /\ PlansFree'
    BY <2>1, CallStep, Frame
  <2>3. b \in DOMAIN bindings => {b.wsa} \subseteq Name
    BY DEF IInv, ObjectsOK
  <2>4. QueuesOK'
    BY <2>1, <2>3, EnqueueNames DEF Call
  <2>5. DOMAIN bindings' \subseteq DOMAIN bindings
    BY <2>1 DEF Drop
  <2>6. ObjectsOK' /\ ForeignOK'
    BY <2>1, <2>5, ObjectsGo
  <2>7. QED
    BY <2>1, <2>2, <2>4, <2>6, Frame DEF Call, engineMaps, ghosts, IInv
<1>5. QED
  BY <1>1, <1>2, <1>3, <1>4 DEF GarbageCollectRoleBindings, GarbageCollectClusterRoleBindings

(***************************************************************************)
(* The end of an operation begins the next one with the same plan, or      *)
(* fails the batch.                                                        *)
(***************************************************************************)
LEMMA FinishOpStep == ASSUME IInv, NEW k \in Worker, FinishOp(k) PROVE IInv'
<1>a. ForeignGoes /\ SeenBy(k)
  BY Frame DEF FinishOp, cluster
<1>1. CASE job[k].failed
  <2>1. WSAsOK' /\ QueuesOK' /\ JobsOK' /\ PlansFree'
    BY <1>1, <1>a, FailBatchStep DEF FinishOp
  <2>2. QED
    BY <2>1, Frame DEF FinishOp, cluster, engineMaps, ghosts, IInv
<1>2. CASE ~job[k].failed
  <2>1. BeginOp(k, NextOp[job[k].pc], job[k].plan) /\ UNCHANGED <<wsas, retryQueue>>
    BY <1>2 DEF FinishOp
  <2>2. job[k].pc \in Executing /\ NextOp[job[k].pc] \in JobPCs
    BY DEF FinishOp, Executing, JobPCs, NextOp
  <2>3. job[k].plan \in Plans /\ \A a \in UniqueAccounts(job[k].plan) \cap DOMAIN foreign' : k \in foreign'[a]
    BY <1>a, <2>2 DEF IInv, JobsOK, JobOK, PlansFree, Unseen, ForeignGoes
  <2>4. JobsOK' /\ PlansFree'
    BY <1>a, <2>1, <2>2, <2>3, BeginOpStep
  <2>5. QED
    BY <2>1, <2>4, Frame DEF FinishOp, cluster, engineMaps, ghosts, IInv
<1>3. QED
  BY <1>1, <1>2

(***************************************************************************)
(* A goroutine that ends its batch executes nothing.                       *)
(***************************************************************************)
LEMMA EndStep ==
    ASSUME IInv, NEW k \in Worker, job' = [job EXCEPT ![k] = Idle], UNCHANGED foreign
    PROVE  JobsOK' /\ PlansFree'
  BY NewJobTyped, JobStep, Frame DEF IInv

(***************************************************************************)
(* What the last steps of a batch preserve: publishing the plan, the final *)
(* conditions, and the rebuild after a batch is given up.                  *)
(***************************************************************************)
LEMMA PublishStep ==
    ASSUME IInv, NEW k \in Worker,
           \/ ApplyBatchPlan(k) \/ updateFinalConditions(k) \/ RebuildStateFromCluster(k)
           \/ SwapState(k) \/ requeueFailedResources(k)
    PROVE  IInv'
<1>1. JobOK(job[k]) /\ DOMAIN job = Worker
  BY DEF IInv, JobsOK
<1>2. job[k].plan \in Plans /\ DOMAIN job[k].plan \subseteq Name
  BY <1>1, PlansDef DEF JobOK
<1>3. CASE ApplyBatchPlan(k)
  <2>1. job' = [job EXCEPT ![k].pc = "done", ![k].todo = job[k].todo,
                           ![k].failed = job[k].failed]
    BY <1>1, <1>3 DEF ApplyBatchPlan, JobOK
  <2>2. "done" \in JobPCs /\ "done" \notin Executing /\ ForeignGoes
    BY <1>3, Frame DEF ApplyBatchPlan, JobPCs, Executing, NextOp, cluster
  <2>3. JobsOK' /\ PlansFree'
    BY <2>1, <2>2, SamePlanStep
  <2>4. MapsOK'
    BY <1>2, <1>3 DEF ApplyBatchPlan, MapsOK
  <2>5. QED
    BY <1>3, <2>3, <2>4, Frame DEF ApplyBatchPlan, cluster, queues, ghosts, IInv
<1>4. CASE updateFinalConditions(k)
  <2>1. WSAsOK'
    BY <1>4, StatusTyped DEF updateFinalConditions, IInv
  <2>2. JobsOK' /\ PlansFree'
    BY <1>4, EndStep DEF updateFinalConditions, cluster
  <2>3. GhostsOK'
    BY <1>4 DEF updateFinalConditions, IInv, GhostsOK
  <2>4. QED
    BY <1>4, <2>1, <2>2, <2>3, Frame
       DEF updateFinalConditions, cluster, queues, engineMaps, IInv
<1>5. CASE RebuildStateFromCluster(k)
  <2> DEFINE j == [job[k] EXCEPT !.plan = Live, !.pc = "swap"]
  <2>1. job' = [job EXCEPT ![k] = j]
    BY <1>1, <1>5 DEF RebuildStateFromCluster
  <2>2. Live \in Plans
    BY PlansTyped DEF IInv
  <2>3. JobOK(j) /\ j.pc \notin Executing
    BY <1>1, <2>2 DEF JobOK, JobPCs, Executing, NextOp
  <2>4. JobsOK' /\ PlansFree'
    <3>1. SeenBy(k)
      BY <1>5, Frame DEF RebuildStateFromCluster, cluster
    <3> HIDE DEF j
    <3>2. QED
      BY <2>1, <2>3, <3>1, JobStep DEF IInv
  <2>5. QED
    BY <1>5, <2>4, Frame DEF RebuildStateFromCluster, cluster, queues, engineMaps, ghosts, IInv
<1>6. CASE SwapState(k)
  <2>1. job' = [job EXCEPT ![k].pc = "requeue", ![k].todo = job[k].todo,
                           ![k].failed = job[k].failed]
    BY <1>1, <1>6 DEF SwapState, JobOK
  <2>2. "requeue" \in JobPCs /\ "requeue" \notin Executing /\ ForeignGoes
    BY <1>6, Frame DEF SwapState, JobPCs, Executing, NextOp, cluster
  <2>3. JobsOK' /\ PlansFree'
    BY <2>1, <2>2, SamePlanStep
  <2>4. MapsOK'
    BY <1>2, <1>6 DEF SwapState, MapsOK
  <2>5. QED
    BY <1>6, <2>3, <2>4, Frame DEF SwapState, cluster, queues, ghosts, IInv
<1>7. CASE requeueFailedResources(k)
  <2>1. JobsOK' /\ PlansFree'
    BY <1>7, EndStep DEF requeueFailedResources, cluster
  <2>2. QueuesOK'
    BY <1>1, <1>7 DEF requeueFailedResources, JobOK, IInv, QueuesOK
  <2>3. GhostsOK'
    BY <1>7 DEF requeueFailedResources, Disturb, IInv, GhostsOK
  <2>4. QED
    BY <1>7, <2>1, <2>2, <2>3, Frame DEF requeueFailedResources, cluster, engineMaps, ghosts, IInv
<1>8. QED
  BY <1>3, <1>4, <1>5, <1>6, <1>7

(***************************************************************************)
(* What failing calls, stages and rebuilds preserve.                       *)
(***************************************************************************)
LEMMA FailureStep ==
    ASSUME IInv, NEW k \in Worker, CallFails(k) \/ StageFails(k) \/ RebuildOrStatusFails(k)
    PROVE  IInv'
<1>1. CASE CallFails(k)
  <2>1. PICK x \in job[k].todo :
           job' = [job EXCEPT ![k].todo = @ \ {x}, ![k].failed = TRUE]
    BY <1>1 DEF CallFails
  <2>2. job' = [job EXCEPT ![k].pc = job[k].pc, ![k].todo = job[k].todo \ {x},
                           ![k].failed = TRUE]
    BY <2>1 DEF IInv, JobsOK, JobOK
  <2>3. job[k].pc \in JobPCs /\ ForeignGoes
    BY <1>1, Frame DEF CallFails, JobPCs, Executing, cluster
  <2>4. JobsOK' /\ PlansFree'
    BY <2>2, <2>3, SamePlanStep
  <2>5. QED
    BY <1>1, <2>4, Frame DEF CallFails, cluster, queues, engineMaps, ghosts, IInv
<1>2. CASE StageFails(k)
  <2>1. WSAsOK' /\ QueuesOK' /\ JobsOK' /\ PlansFree'
    BY <1>2, FailBatchStep, Frame DEF StageFails, cluster
  <2>2. QED
    BY <1>2, <2>1, Frame DEF StageFails, cluster, engineMaps, ghosts, IInv
<1>3. CASE RebuildOrStatusFails(k)
  <2>1. JobsOK' /\ PlansFree'
    BY <1>3, EndStep DEF RebuildOrStatusFails, cluster
  <2>2. GhostsOK'
    BY <1>3 DEF RebuildOrStatusFails, Disturb, IInv, GhostsOK, JobsOK, JobOK
  <2>3. QED
    BY <1>3, <2>1, <2>2, Frame DEF RebuildOrStatusFails, cluster, queues, engineMaps, ghosts, IInv
<1>4. QED
  BY <1>1, <1>2, <1>3

(***************************************************************************)
(* A successor starts without a batch and with what the API server lists.  *)
(***************************************************************************)
LEMMA RestartStep == IInv /\ Restart => IInv'
<1> SUFFICES ASSUME IInv, Restart PROVE IInv'
  OBVIOUS
<1>1. QueuesOK'
  BY DEF Restart, IInv, WSAsOK, QueuesOK
<1>2. JobsOK' /\ PlansFree'
  BY NewJobTyped DEF Restart, JobsOK, JobOK, PlansFree
<1>3. MapsOK'
  BY PlansTyped DEF Restart, IInv, MapsOK
<1>4. GhostsOK'
  BY DEF Restart, Disturb, IInv, GhostsOK
<1>5. QED
  BY <1>1, <1>2, <1>3, <1>4, Frame DEF Restart, cluster, IInv

(***************************************************************************)
(* The initial state satisfies the invariant.                              *)
(***************************************************************************)
LEMMA InitInvariant == Init => IInv
<1> SUFFICES ASSUME Init PROVE IInv
  OBVIOUS
<1>1. WSAsOK /\ ObjectsOK /\ QueuesOK /\ ForeignOK
  BY DEF Init, Nothing, WSAsOK, ObjectsOK, QueuesOK, ForeignOK
<1>2. JobsOK /\ PlansFree
  BY NewJobTyped DEF Init, JobsOK, PlansFree
<1>3. MapsOK /\ GhostsOK
  BY <1>1, PlansTyped DEF Init, MapsOK, GhostsOK
<1>4. QED
  BY <1>1, <1>2, <1>3 DEF IInv

(***************************************************************************)
(* Every step preserves the invariant.                                     *)
(***************************************************************************)
LEMMA NextInvariant == IInv /\ [Next]_vars => IInv'
<1> SUFFICES ASSUME IInv, [Next]_vars PROVE IInv'
  OBVIOUS
<1>1. CASE Next
  <2>1. ASSUME NEW k \in Worker, Work(k) PROVE IInv'
    BY <2>1, PlanningStep, ValidationStep, EnsureStep, CollectStep, FinishOpStep, PublishStep
       DEF Work
  <2>2. QED
    BY <1>1, <2>1, UserStep, OthersStep, ReconcileStep, TakeStep, FailureStep, RestartStep
       DEF Next
<1>2. CASE UNCHANGED vars
  BY <1>2, Frame DEF vars, cluster, queues, engineMaps, ghosts, IInv
<1>3. QED
  BY <1>1, <1>2

(***************************************************************************)
(* The invariant holds in every state of the control loop.                 *)
(***************************************************************************)
THEOREM InvariantHolds == Spec => []IInv
  BY InitInvariant, NextInvariant, PTL DEF Spec

(***************************************************************************)
(* The control loop keeps its types and the bound of the failures a queued *)
(* batch has had (orchestrator.go, retry queue), for all constants.        *)
(***************************************************************************)
THEOREM TypeCorrect == Spec => []TypeOK
  BY InvariantHolds, InvariantImpliesTypes, PTL

(***************************************************************************)
(* A service account of somebody else is taken over only by a batch that   *)
(* was validated before it was created (validation.go:58 looks once, the   *)
(* apply of resource_management.go is forced): never by one that could see *)
(* it, although WSAs change, two goroutines work on different plans and    *)
(* others create accounts between any two steps.                           *)
(***************************************************************************)
THEOREM KnownNeverTaken == Spec => KnownAccountsUntouched
<1>1. IInv /\ [Next]_vars =>
        [\A a \in DOMAIN foreign \ DOMAIN foreign' :
           \E k \in Worker : createServiceAccount(k) /\ k \in foreign[a]]_vars
  <2> SUFFICES ASSUME IInv, Next, NEW a \in DOMAIN foreign \ DOMAIN foreign'
               PROVE  \E k \in Worker : createServiceAccount(k) /\ k \in foreign[a]
    OBVIOUS
  <2>1. \E k \in Worker : createServiceAccount(k)
    <3>1. foreign' # foreign
      OBVIOUS
    <3>2. \A k \in Worker : ~Validation(k)
      BY DEF Validation
    <3>3. \A b \in Scopes : ~CreateAccount(b)
      BY DEF CreateAccount, Put
    <3>4. ASSUME NEW k \in Worker, Work(k) PROVE createServiceAccount(k)
      BY <3>1, <3>2, <3>4
         DEF Work, Planning, createRoleIfNeeded, createRoleBindingsForResource,
             GarbageCollectServiceAccounts, GarbageCollectRoles, DeleteBinding,
             GarbageCollectRoleBindings, GarbageCollectClusterRoleBindings, FinishOp,
             ApplyBatchPlan, updateFinalConditions, RebuildStateFromCluster, SwapState,
             requeueFailedResources, cluster
    <3>5. \A w \in Name :
             /\ \A spec \in SpecChoice : ~CreateWSA(w, spec) /\ ~UpdateWSA(w, spec)
             /\ ~DeleteWSA(w) /\ ~Reconcile(w) /\ ~handleDeletion(w) /\ ~Resync(w)
      BY <3>1 DEF CreateWSA, UpdateWSA, DeleteWSA, Reconcile, ReconcileGone, ReconcileDeleting,
                  ReconcileLive, handleDeletion, Resync, cluster
    <3>6. ~Drift /\ ~KubernetesGC /\ ~TakeBatch /\ ~TakeRetry /\ ~Restart
      BY <3>1 DEF Drift, KubernetesGC, TakeBatch, TakeRetry, Restart, cluster
    <3>7. \A k \in Worker : ~CallFails(k) /\ ~StageFails(k) /\ ~RebuildOrStatusFails(k)
      BY <3>1 DEF CallFails, StageFails, RebuildOrStatusFails, cluster
    <3>8. QED
      BY <3>3, <3>4, <3>5, <3>6, <3>7 DEF Next
  <2>2. PICK k \in Worker : createServiceAccount(k)
    BY <2>1
  <2>3. PICK b \in UniqueAccounts(job[k].plan) :
           Call(k, "EnsureServiceAccounts", b) /\ foreign' = Drop(foreign, b)
    BY <2>2 DEF createServiceAccount
  <2>4. a = b
    BY <2>3 DEF Drop
  <2>5. job[k].pc \in Executing
    BY <2>3 DEF Call, Executing, NextOp
  <2>6. k \in foreign[a]
    BY <2>3, <2>4, <2>5 DEF IInv, PlansFree, Unseen
  <2>7. QED
    BY <2>2, <2>6
<1>2. QED
  BY <1>1, InvariantHolds, PTL DEF Spec, KnownAccountsUntouched
=============================================================================
