---------------------- MODULE StagingConvergenceProofs ----------------------
(***************************************************************************)
(* Convergence of the control loop, for every number of WSAs, specs,       *)
(* retries, failures and restarts.                                         *)
(*                                                                         *)
(* The argument: as long as something is ahead that will make a batch plan *)
(* anew (Ahead), nothing need be known of the cluster.  When nothing is,   *)
(* the last plan is the list of the WSAs that exist, and of the operations *)
(* its batch has behind it each has done its part (Tracks): what is        *)
(* needed is there, and then, kind by kind, nothing else.  Every change    *)
(* that would spoil this puts something ahead.  That rests on ownership: a *)
(* watch event reaches the reconciler of the object's owner, whose request *)
(* is of use only if the owner still exists, so the objects that are       *)
(* needed must have owners that stay.                                      *)
(*                                                                         *)
(* The last part is about publication: the accounts of a batch's own plan, *)
(* whatever has become of the WSAs since.                                  *)
(***************************************************************************)
EXTENDS StagingProofs

\* WSAs that exist and that no deletion can take away without a trace: they
\* have their finalizer, or a batch has listed them.
SeenNames == {w \in DOMAIN wsas : ~wsas[w].deleting /\ (wsas[w].finalizer \/ Listed(w))}
Seen == [w \in SeenNames |-> wsas[w].spec]

\* A goroutine there will plan again, or leave an event that makes one plan.
PlansAgain == {"planning", "rebuild", "swap", "requeue"}

\* Something is ahead that will list all WSAs again.
Ahead ==
    \/ pending # {} \/ retryQueue # {}
    \/ \E w \in requests \ checking : w \in DOMAIN wsas /\ (wsas[w].deleting \/ w \in SeenNames)
    \/ \E k \in Worker : job[k].failed \/ job[k].pc \in PlansAgain

-----------------------------------------------------------------------------
\* Where a goroutine is when an operation lies behind it.  One that is idle has
\* all of them behind it.
AfterClusterRoleBindings == {"ApplyBatchPlan", "done", "idle"}
AfterRoleBindings == {"GarbageCollectClusterRoleBindings"} \cup AfterClusterRoleBindings
AfterRoles == {"GarbageCollectRoleBindings"} \cup AfterRoleBindings
AfterAccounts == {"GarbageCollectRoles"} \cup AfterRoles
AfterEnsureBindings == {"GarbageCollectServiceAccounts"} \cup AfterAccounts
AfterEnsureAccounts == {"EnsureRoleBindings"} \cup AfterEnsureBindings
AfterEnsureRoles == {"EnsureServiceAccounts"} \cup AfterEnsureAccounts

\* What an operation that is under way has still to do.
Left(j, op) == IF j.pc = op THEN j.todo ELSE {}

\* Accounts, roles and bindings, and what a job j that executes a plan has done
\* for each: those that are needed are there but for those left to be ensured,
\* no other is but for those left to be collected, and these are not needed.
AccountsTrack(j, plan, accounts) ==
    /\ j.pc \in {"EnsureServiceAccounts"} \cup AfterEnsureAccounts =>
           UniqueAccounts(plan) \ Left(j, "EnsureServiceAccounts") \subseteq accounts
    /\ j.pc \in {"GarbageCollectServiceAccounts"} \cup AfterAccounts =>
           accounts \ UniqueAccounts(plan) \subseteq Left(j, "GarbageCollectServiceAccounts")
    /\ Left(j, "GarbageCollectServiceAccounts") \cap UniqueAccounts(plan) = {}

\* The owner of a role is one of the WSAs that stay.
RolesThere(plan, owners, S) ==
    \A w \in S : RoleOf(plan, w) \in DOMAIN owners /\ owners[RoleOf(plan, w)] \in DOMAIN plan
SpareRoles(plan, owners) ==
    {r \in DOMAIN owners : r.kind = "Role" /\ r \notin ExpectedRoles(plan)}

RolesTrack(j, plan, owners) ==
    /\ j.pc \in {"EnsureRoles"} \cup AfterEnsureRoles =>
           RolesThere(plan, owners, DOMAIN plan \ Left(j, "EnsureRoles"))
    /\ j.pc \in {"GarbageCollectRoles"} \cup AfterRoles =>
           SpareRoles(plan, owners) \subseteq Left(j, "GarbageCollectRoles")
    /\ Left(j, "GarbageCollectRoles") \cap ExpectedRoles(plan) = {}

BindingsThere(plan, subjects, S) ==
    \A w \in S : /\ BindingOf(plan, w) \in DOMAIN subjects
                 /\ subjects[BindingOf(plan, w)] = {plan[w].scope}
SpareBindings(plan, subjects) == DOMAIN subjects \ ExpectedBindings(plan)

BindingsTrack(j, plan, subjects) ==
    /\ j.pc \in {"EnsureRoleBindings"} \cup AfterEnsureBindings =>
           BindingsThere(plan, subjects, DOMAIN plan \ Left(j, "EnsureRoleBindings"))
    /\ j.pc \in {"GarbageCollectRoleBindings"} \cup AfterRoleBindings =>
           \A b \in SpareBindings(plan, subjects) :
               b.wsa \notin ClusterName => b \in Left(j, "GarbageCollectRoleBindings")
    /\ j.pc \in {"GarbageCollectClusterRoleBindings"} \cup AfterClusterRoleBindings =>
           \A b \in SpareBindings(plan, subjects) :
               b.wsa \in ClusterName => b \in Left(j, "GarbageCollectClusterRoleBindings")
    /\ Left(j, "GarbageCollectRoleBindings") \cap ExpectedBindings(plan) = {}
    /\ Left(j, "GarbageCollectClusterRoleBindings") \cap ExpectedBindings(plan) = {}

Tracks(j, plan, accounts, owners, subjects) ==
    /\ AccountsTrack(j, plan, accounts)
    /\ RolesTrack(j, plan, owners)
    /\ BindingsTrack(j, plan, subjects)

\* Which plan it is, and that it has been published.
PlanIs(j, plan, published, names) ==
    /\ j.pc # "idle" => j.plan = plan
    /\ j.pc \in {"done", "idle"} => published = plan /\ names = DOMAIN plan

\* Of the goroutine that has the cluster to itself.
Alone(k) == \A i \in Worker \ {k} : job[i] = Idle
Settled ==
    \A k \in Worker : Alone(k) =>
        /\ Tracks(job[k], Seen, sas, roles, bindings)
        /\ PlanIs(job[k], Seen, served, mapped)

-----------------------------------------------------------------------------
\* handleDeletion looks at WSAs that are being deleted.
CheckingDeleting == \A w \in checking : w \in DOMAIN wsas /\ wsas[w].deleting

\* A WSA without its finalizer will be reconciled.
FinalizerAhead ==
    \A w \in DOMAIN wsas : ~wsas[w].deleting /\ ~wsas[w].finalizer => w \in requests

JobShape ==
    \A k \in Worker : /\ job[k].pc = "idle" => job[k] = Idle
                      /\ job[k].failed => job[k].pc \in DOMAIN NextOp

\* Lists hold names that were in use.
ListsOld == \A w : Listed(w) => w \in created

\* A WSA that is not reported ready has a batch or an event to its name.
Covered(w) ==
    \/ w \in unreported \cup requests \cup pending
    \/ \E b \in retryQueue : w \in b.keys
    \/ \E k \in Worker : w \in job[k].keys

ReadyCovered ==
    \A w \in DOMAIN wsas :
        ~wsas[w].deleting => (wsas[w].ready = "True" /\ wsas[w].observed) \/ Covered(w)

\* A batch that runs alone knows at least what the last one knew.
OneAtATime == \A i, k \in Worker : job[i] # Idle /\ job[k] # Idle => i = k

KnowsMore(j, published) ==
    /\ j.pc \in {"validation", "ApplyBatchPlan", "done"} \cup Executing =>
           \A w \in DOMAIN published \cap DOMAIN wsas : ~wsas[w].deleting => w \in DOMAIN j.plan
    /\ j.pc = "done" => published = j.plan

ListsNewer == \A k \in Worker : KnowsMore(job[k], served)

Main == ~disturbed => OneAtATime /\ ListsNewer /\ (~Ahead => Settled)

CInv ==
    /\ IInv
    /\ CheckingDeleting /\ DeletionAwaited /\ FinalizerAhead /\ JobShape /\ ListsOld /\ ReadyCovered
    /\ Main

-----------------------------------------------------------------------------
(***************************************************************************)
(* The operations of the execution are different places of a goroutine.    *)
(***************************************************************************)
LEMMA Places ==
    /\ DOMAIN NextOp = {"EnsureRoles", "EnsureServiceAccounts", "EnsureRoleBindings",
                        "GarbageCollectServiceAccounts", "GarbageCollectRoles",
                        "GarbageCollectRoleBindings", "GarbageCollectClusterRoleBindings"}
    /\ "idle" \notin PlansAgain \cup Executing \cup DOMAIN NextOp
    /\ "validation" \notin PlansAgain \cup Executing
    /\ PlansAgain \cap Executing = {}
    /\ \A k \in Worker : k \in {"main", "retry"}
  BY DEF NextOp, PlansAgain, Executing, Worker

(***************************************************************************)
(* A job that is idle: it has failed in nothing and lists nothing.         *)
(***************************************************************************)
LEMMA IdleJob ==
    /\ Idle.pc = "idle" /\ Idle.failed = FALSE /\ Idle.keys = {}
    /\ Idle.plan = Nothing /\ DOMAIN Idle.plan = {}
  BY DEF Idle, NewJob, Nothing

(***************************************************************************)
(* A job that has no operation under way has nothing to show for it.       *)
(***************************************************************************)
LEMMA NoOperation ==
    ASSUME NEW j, NEW plan, NEW accounts, NEW owners, NEW subjects, j.pc = "validation"
    PROVE  Tracks(j, plan, accounts, owners, subjects)
  BY DEF Tracks, AccountsTrack, RolesTrack, BindingsTrack, Left, AfterClusterRoleBindings,
         AfterRoleBindings, AfterRoles, AfterAccounts, AfterEnsureBindings,
         AfterEnsureAccounts, AfterEnsureRoles

(***************************************************************************)
(* An account that is not needed may go.                                   *)
(***************************************************************************)
LEMMA AccountGoes ==
    ASSUME NEW j, NEW plan, NEW accounts, NEW a, a \notin UniqueAccounts(plan),
           AccountsTrack(j, plan, accounts)
    PROVE  AccountsTrack(j, plan, accounts \ {a})
  BY DEF AccountsTrack

(***************************************************************************)
(* A role whose owner does not stay may go: the roles that are needed have *)
(* owners that stay.                                                       *)
(***************************************************************************)
LEMMA RoleGoes ==
    ASSUME NEW j, NEW plan, NEW owners, NEW r, owners[r] \notin DOMAIN plan,
           RolesTrack(j, plan, owners)
    PROVE  RolesTrack(j, plan, Drop(owners, r))
<1>1. /\ DOMAIN Drop(owners, r) = DOMAIN owners \ {r}
      /\ \A q \in DOMAIN owners \ {r} : Drop(owners, r)[q] = owners[q]
  BY DEF Drop
<1>2. ASSUME NEW S, RolesThere(plan, owners, S) PROVE RolesThere(plan, Drop(owners, r), S)
  BY <1>1, <1>2 DEF RolesThere
<1>3. SpareRoles(plan, Drop(owners, r)) \subseteq SpareRoles(plan, owners)
  BY <1>1 DEF SpareRoles
<1>4. QED
  BY <1>2, <1>3 DEF RolesTrack

(***************************************************************************)
(* A binding of a WSA that does not stay may go, or lose its subjects.     *)
(***************************************************************************)
LEMMA BindingGoes ==
    ASSUME NEW j, NEW plan, NEW subjects, NEW b, b.wsa \notin DOMAIN plan,
           BindingsTrack(j, plan, subjects),
           NEW new \in {Drop(subjects, b), [subjects EXCEPT ![b] = {}]}
    PROVE  BindingsTrack(j, plan, new)
<1>1. /\ DOMAIN new \subseteq DOMAIN subjects
      /\ \A c \in DOMAIN subjects \ {b} : c \in DOMAIN new /\ new[c] = subjects[c]
  BY DEF Drop
<1>2. \A w \in DOMAIN plan : BindingOf(plan, w) # b
  BY DEF BindingOf
<1>3. ASSUME NEW S \in SUBSET DOMAIN plan, BindingsThere(plan, subjects, S)
      PROVE  BindingsThere(plan, new, S)
  BY <1>1, <1>2, <1>3 DEF BindingsThere
<1>4. SpareBindings(plan, new) \subseteq SpareBindings(plan, subjects)
  BY <1>1 DEF SpareBindings
<1>5. QED
  BY <1>3, <1>4 DEF BindingsTrack

\* What the control loop reads of the WSAs is left alone.
SameWSAs ==
    /\ DOMAIN wsas' = DOMAIN wsas /\ created' = created
    /\ \A w \in DOMAIN wsas : /\ wsas'[w].spec = wsas[w].spec
                              /\ wsas'[w].deleting = wsas[w].deleting
                              /\ wsas'[w].finalizer = wsas[w].finalizer

(***************************************************************************)
(* The status writes leave alone what the control loop reads of the WSAs.  *)
(***************************************************************************)
LEMMA StatusWrites ==
    ASSUME WSAsOK, created' = created, NEW keys
    PROVE  /\ \A ready \in {"True", "False"} : UpdateCondition(keys, ready) => SameWSAs
           /\ updateStageStatus(keys) => SameWSAs
           /\ UNCHANGED wsas => SameWSAs
<1>1. ASSUME NEW ready \in {"True", "False"}, UpdateCondition(keys, ready) PROVE SameWSAs
  BY <1>1 DEF WSAsOK, WSARecord, UpdateCondition, SameWSAs
<1>2. ASSUME updateStageStatus(keys) PROVE SameWSAs
  BY <1>2 DEF WSAsOK, WSARecord, updateStageStatus, SameWSAs
<1>3. UNCHANGED wsas => SameWSAs
  BY DEF SameWSAs
<1>4. QED
  BY <1>1, <1>2, <1>3

(***************************************************************************)
(* The WSAs that stay, when the lists stay too.                            *)
(***************************************************************************)
LEMMA SameSeen ==
    ASSUME SameWSAs,
           \A w \in DOMAIN wsas : ~wsas[w].deleting => (Listed(w)' <=> Listed(w))
    PROVE  SeenNames' = SeenNames /\ Seen' = Seen
<1>1. SeenNames' = SeenNames
  BY DEF SameWSAs, SeenNames
<1>2. \A w \in SeenNames : wsas'[w].spec = wsas[w].spec
  BY DEF SameWSAs, SeenNames
<1>3. QED
  BY <1>1, <1>2 DEF Seen

(***************************************************************************)
(* What the parts of the invariant depend on.                              *)
(***************************************************************************)
LEMMA PartsKept ==
    ASSUME CInv
    PROVE  /\ SameWSAs /\ checking' \subseteq checking => CheckingDeleting'
           /\ SameWSAs /\ requests \subseteq requests' => FinalizerAhead'
           /\ SameWSAs /\ requests \subseteq requests' /\ checking' = checking =>
                 DeletionAwaited'
           /\ UNCHANGED job => JobShape'
           /\ created \subseteq created' /\ UNCHANGED <<job, served>> => ListsOld'
<1>1. SameWSAs /\ checking' \subseteq checking => CheckingDeleting'
  BY DEF CInv, SameWSAs, CheckingDeleting
<1>2. SameWSAs /\ requests \subseteq requests' => FinalizerAhead'
  BY DEF CInv, SameWSAs, FinalizerAhead
<1>3. SameWSAs /\ requests \subseteq requests' /\ checking' = checking => DeletionAwaited'
  BY DEF CInv, SameWSAs, DeletionAwaited
<1>4. UNCHANGED job => JobShape'
  BY DEF CInv, JobShape
<1>5. created \subseteq created' /\ UNCHANGED <<job, served>> => ListsOld'
  BY DEF CInv, ListsOld, Listed
<1>6. QED
  BY <1>1, <1>2, <1>3, <1>4, <1>5

(***************************************************************************)
(* A WSA that is not reported ready stays covered.                         *)
(***************************************************************************)
LEMMA StillCovered ==
    ASSUME CInv,
           \A w \in DOMAIN wsas' : ~wsas'[w].deleting =>
               \/ Covered(w)'
               \/ /\ w \in DOMAIN wsas /\ ~wsas[w].deleting
                  /\ wsas'[w].ready = wsas[w].ready /\ wsas'[w].observed = wsas[w].observed
                  /\ Covered(w) => Covered(w)'
               \/ wsas'[w].ready = "True" /\ wsas'[w].observed
    PROVE  ReadyCovered'
  BY DEF CInv, ReadyCovered

(***************************************************************************)
(* Steps that change neither the WSAs that stay nor the cluster nor a job. *)
(***************************************************************************)
LEMMA Unaffected ==
    ASSUME Main, disturbed => disturbed',
           UNCHANGED <<sas, roles, bindings, job, served, mapped>>,
           Seen' = Seen, Ahead => Ahead',
           \A w \in DOMAIN wsas' : w \in DOMAIN served /\ ~wsas'[w].deleting =>
               w \in DOMAIN wsas /\ ~wsas[w].deleting
    PROVE  Main'
<1>1. OneAtATime => OneAtATime'
  BY DEF OneAtATime
<1>2. ListsNewer => ListsNewer'
  BY DEF ListsNewer, KnowsMore
<1>3. Settled => Settled'
  BY DEF Settled, Alone
<1>4. QED
  BY <1>1, <1>2, <1>3 DEF Main

(***************************************************************************)
(* A request of a WSA that stays, or is being deleted, is ahead.           *)
(***************************************************************************)
LEMMA RequestAhead ==
    ASSUME CInv, NEW w \in requests, w \in SeenNames
    PROVE  Ahead
  BY DEF CInv, CheckingDeleting, SeenNames, Ahead

(***************************************************************************)
(* A new WSA has a request, and nobody knows it yet.                       *)
(***************************************************************************)
LEMMA CreateConverges ==
    ASSUME CInv, IInv', NEW w \in Name, NEW spec \in SpecChoice, CreateWSA(w, spec)
    PROVE  CInv'
<1>1. /\ DOMAIN wsas' = DOMAIN wsas \cup {w} /\ w \notin DOMAIN wsas /\ w \notin created
      /\ \A x \in DOMAIN wsas : wsas'[x] = wsas[x]
      /\ wsas'[w] = NewWSA(spec) /\ requests' = requests \cup {w}
      /\ UNCHANGED <<sas, roles, bindings, checking, pending, retryQueue, job, served, mapped,
                     disturbed, unreported>>
  BY DEF CreateWSA, Put, CInv, IInv, WSAsOK, cluster, engineMaps, ghosts
<1>2. wsas'[w].deleting = FALSE /\ wsas'[w].finalizer = FALSE
  BY <1>1 DEF NewWSA
<1>3. CheckingDeleting'
  BY <1>1 DEF CInv, CheckingDeleting
<1>4. DeletionAwaited' /\ FinalizerAhead'
  BY <1>1 DEF CInv, DeletionAwaited, FinalizerAhead
<1>5. JobShape' /\ ListsOld'
  BY <1>1, PartsKept DEF CreateWSA
<1>6. ReadyCovered'
  BY <1>1, StillCovered DEF Covered
<1>7. \A x : Listed(x)' <=> Listed(x)
  BY <1>1 DEF Listed
<1>8. ~Listed(w)
  BY <1>1 DEF CInv, ListsOld
<1>9. SeenNames' = SeenNames /\ Seen' = Seen
  <2>1. SeenNames' = SeenNames
    BY <1>1, <1>2, <1>7, <1>8 DEF SeenNames
  <2>2. \A x \in SeenNames : wsas'[x].spec = wsas[x].spec
    BY <1>1 DEF SeenNames
  <2>3. QED
    BY <2>1, <2>2 DEF Seen
<1>10. Ahead => Ahead'
  BY <1>1, <1>9 DEF Ahead
<1>11. w \notin DOMAIN served
  BY <1>8 DEF Listed
<1>12. Main'
  BY <1>1, <1>9, <1>10, <1>11, Unaffected DEF CInv
<1>13. QED
  BY <1>3, <1>4, <1>5, <1>6, <1>12 DEF CInv

(***************************************************************************)
(* A WSA that changes has a request, which is ahead unless nobody knows    *)
(* the WSA yet.                                                            *)
(***************************************************************************)
LEMMA UpdateConverges ==
    ASSUME CInv, IInv', NEW w \in Name, NEW spec \in SpecChoice, UpdateWSA(w, spec)
    PROVE  CInv'
<1>1. /\ DOMAIN wsas' = DOMAIN wsas /\ w \in DOMAIN wsas
      /\ \A x \in DOMAIN wsas \ {w} : wsas'[x] = wsas[x]
      /\ requests' = requests \cup {w}
      /\ UNCHANGED <<created, sas, roles, bindings, checking, pending, retryQueue, job, served,
                     mapped, disturbed, unreported>>
  BY DEF UpdateWSA, CInv, IInv, WSAsOK, cluster, engineMaps, ghosts
<1>2. wsas'[w].deleting = wsas[w].deleting /\ wsas'[w].finalizer = wsas[w].finalizer
  BY <1>1 DEF UpdateWSA, CInv, IInv, WSAsOK, WSARecord
<1>3. CheckingDeleting'
  BY <1>1, <1>2 DEF CInv, CheckingDeleting
<1>4. DeletionAwaited' /\ FinalizerAhead'
  BY <1>1, <1>2 DEF CInv, DeletionAwaited, FinalizerAhead
<1>5. JobShape' /\ ListsOld'
  BY <1>1, PartsKept
<1>6. ReadyCovered'
  BY <1>1, StillCovered DEF Covered
<1>7. \A x : Listed(x)' <=> Listed(x)
  BY <1>1 DEF Listed
<1>8. SeenNames' = SeenNames
  BY <1>1, <1>2, <1>7 DEF SeenNames
<1>9. Ahead => Ahead'
  BY <1>1, <1>2, <1>8 DEF Ahead
<1>10. CASE w \in SeenNames
  <2>1. Ahead'
    BY <1>1, <1>2, <1>3, <1>8, <1>10 DEF SeenNames, CheckingDeleting, Ahead
  <2>2. (OneAtATime => OneAtATime') /\ (ListsNewer => ListsNewer')
    BY <1>1, <1>2 DEF OneAtATime, ListsNewer, KnowsMore
  <2>3. QED
    BY <1>1, <1>3, <1>4, <1>5, <1>6, <2>1, <2>2 DEF CInv, Main
<1>11. CASE w \notin SeenNames
  <2>1. \A x \in SeenNames : wsas'[x].spec = wsas[x].spec
    BY <1>1, <1>11 DEF SeenNames
  <2>2. Seen' = Seen
    BY <1>8, <2>1 DEF Seen
  <2>3. Main'
    BY <1>1, <1>2, <1>9, <2>2, Unaffected DEF CInv
  <2>4. QED
    BY <1>3, <1>4, <1>5, <1>6, <2>3 DEF CInv
<1>12. QED
  BY <1>10, <1>11

(***************************************************************************)
(* A WSA with its finalizer stays to be reconciled.  Without it the WSA is *)
(* gone, and if a batch has listed it the claim is given up.               *)
(***************************************************************************)
LEMMA DeleteConverges ==
    ASSUME CInv, IInv', NEW w \in Name, DeleteWSA(w)
    PROVE  CInv'
<1>1. /\ w \in DOMAIN wsas /\ ~wsas[w].deleting /\ requests' = requests \cup {w}
      /\ disturbed' = (disturbed \/ (~wsas[w].finalizer /\ Listed(w)))
      /\ UNCHANGED <<created, sas, roles, bindings, checking, pending, retryQueue, job, served,
                     mapped, unreported>>
  BY DEF DeleteWSA, Disturb, cluster, engineMaps
<1>2. w \notin checking
  BY <1>1 DEF CInv, CheckingDeleting
<1>3. JobShape' /\ ListsOld'
  BY <1>1, PartsKept
<1>4. OneAtATime => OneAtATime'
  BY <1>1 DEF OneAtATime
<1>5. CASE wsas[w].finalizer
  <2>1. /\ DOMAIN wsas' = DOMAIN wsas /\ wsas'[w].deleting
        /\ \A x \in DOMAIN wsas \ {w} : wsas'[x] = wsas[x]
    BY <1>1, <1>5 DEF DeleteWSA, CInv, IInv, WSAsOK, WSARecord
  <2>2. CheckingDeleting' /\ DeletionAwaited' /\ FinalizerAhead'
    BY <1>1, <2>1 DEF CInv, CheckingDeleting, DeletionAwaited, FinalizerAhead
  <2>3. ReadyCovered'
    BY <1>1, <2>1, StillCovered DEF Covered
  <2>4. Ahead'
    BY <1>1, <1>2, <2>1 DEF Ahead
  <2>5. ListsNewer => ListsNewer'
    BY <1>1, <2>1 DEF ListsNewer, KnowsMore
  <2>6. QED
    BY <1>1, <1>3, <1>4, <2>2, <2>3, <2>4, <2>5 DEF CInv, Main
<1>6. CASE ~wsas[w].finalizer
  <2>1. /\ DOMAIN wsas' = DOMAIN wsas \ {w}
        /\ \A x \in DOMAIN wsas \ {w} : wsas'[x] = wsas[x]
    BY <1>1, <1>6 DEF DeleteWSA, Drop
  <2>2. CheckingDeleting' /\ DeletionAwaited' /\ FinalizerAhead'
    BY <1>1, <1>2, <2>1 DEF CInv, CheckingDeleting, DeletionAwaited, FinalizerAhead
  <2>3. ReadyCovered'
    BY <1>1, <2>1, StillCovered DEF Covered
  <2>4. Main'
    <3>1. CASE Listed(w)
      BY <1>1, <1>6, <3>1 DEF Main
    <3>2. CASE ~Listed(w)
      <4>1. w \notin SeenNames
        BY <1>6, <3>2 DEF SeenNames
      <4>2. \A x : Listed(x)' <=> Listed(x)
        BY <1>1 DEF Listed
      <4>3. SeenNames' = SeenNames
        BY <1>6, <2>1, <3>2, <4>2 DEF SeenNames
      <4>4. \A x \in SeenNames : wsas'[x].spec = wsas[x].spec
        BY <2>1, <4>1 DEF SeenNames
      <4>5. Seen' = Seen
        BY <4>3, <4>4 DEF Seen
      <4>6. Ahead => Ahead'
        BY <1>1, <2>1, <4>1, <4>3 DEF Ahead
      <4>7. QED
        BY <1>1, <2>1, <4>5, <4>6, Unaffected DEF CInv
    <3>3. QED
      BY <3>1, <3>2
  <2>5. QED
    BY <1>3, <2>2, <2>3, <2>4 DEF CInv
<1>7. QED
  BY <1>5, <1>6

(***************************************************************************)
(* A resync adds a request, no more.                                       *)
(***************************************************************************)
LEMMA ResyncConverges ==
    ASSUME CInv, IInv', NEW w \in Name, Resync(w)
    PROVE  CInv'
<1>1. /\ requests \subseteq requests'
      /\ UNCHANGED <<wsas, created, sas, roles, bindings, checking, pending, retryQueue, job,
                     served, mapped, disturbed, unreported>>
  BY DEF Resync, cluster, engineMaps, ghosts
<1>2. SameWSAs
  BY <1>1 DEF SameWSAs
<1>3. CheckingDeleting' /\ DeletionAwaited' /\ FinalizerAhead' /\ JobShape' /\ ListsOld'
  BY <1>1, <1>2, PartsKept
<1>4. ReadyCovered'
  BY <1>1, StillCovered DEF Covered
<1>5. \A x : Listed(x)' <=> Listed(x)
  BY <1>1 DEF Listed
<1>6. SeenNames' = SeenNames /\ Seen' = Seen
  BY <1>2, <1>5, SameSeen
<1>7. Ahead => Ahead'
  BY <1>1, <1>6 DEF Ahead
<1>8. Main'
  BY <1>1, <1>6, <1>7, Unaffected DEF CInv
<1>9. QED
  BY <1>3, <1>4, <1>8 DEF CInv

(***************************************************************************)
(* Changes of managed objects: they leave the jobs, the maps and the WSAs  *)
(* alone, and either something is ahead or the tracks are kept.            *)
(***************************************************************************)
LEMMA ObjectsChange ==
    ASSUME CInv, IInv', requests \subseteq requests',
           UNCHANGED <<wsas, created, checking, pending, retryQueue, job, served, mapped,
                       disturbed, unreported>>,
           \/ Ahead'
           \/ \A j : Tracks(j, Seen, sas, roles, bindings) =>
                         Tracks(j, Seen, sas', roles', bindings')
    PROVE  CInv'
<1>1. SameWSAs
  BY DEF SameWSAs
<1>2. CheckingDeleting' /\ DeletionAwaited' /\ FinalizerAhead' /\ JobShape' /\ ListsOld'
  BY <1>1, PartsKept
<1>3. ReadyCovered'
  BY StillCovered DEF Covered
<1>4. \A x : Listed(x)' <=> Listed(x)
  BY DEF Listed
<1>5. SeenNames' = SeenNames /\ Seen' = Seen
  BY <1>1, <1>4, SameSeen
<1>6. Ahead => Ahead'
  BY <1>5 DEF Ahead
<1>7. (OneAtATime => OneAtATime') /\ (ListsNewer => ListsNewer')
  BY DEF OneAtATime, ListsNewer, KnowsMore
<1>8. Settled /\ ~Ahead' => Settled'
  BY <1>5 DEF Settled, Alone
<1>9. QED
  BY <1>2, <1>3, <1>6, <1>7, <1>8 DEF CInv, Main

(***************************************************************************)
(* What others do to an object is an event of its owner.  If the owner     *)
(* stays that puts a batch ahead, and if it does not the object was not    *)
(* needed.  What Kubernetes collects has no owner any more, and an account *)
(* somebody creates is none of the managed ones.                           *)
(***************************************************************************)
LEMMA OthersConverge ==
    ASSUME CInv, IInv', Drift \/ KubernetesGC \/ \E a \in Scopes : CreateAccount(a)
    PROVE  CInv'
<1>1. ASSUME NEW w \in SeenNames, w \in requests',
             UNCHANGED <<wsas, checking, job, served>>
      PROVE  Ahead'
  <2>1. w \in DOMAIN wsas /\ ~wsas[w].deleting /\ w \notin checking
    BY DEF CInv, CheckingDeleting, SeenNames
  <2>2. w \in SeenNames'
    BY <1>1 DEF SeenNames, Listed
  <2>3. QED
    BY <1>1, <2>1, <2>2 DEF Ahead
<1>2. DOMAIN Seen = SeenNames
  BY DEF Seen
<1>3. CASE Drift
  <2>1. UNCHANGED <<wsas, created, checking, pending, retryQueue, job, served, mapped,
                    disturbed, unreported>>
    BY <1>3 DEF Drift, engineMaps, ghosts
  <2>2. ASSUME NEW a \in sas, sas' = sas \ {a}, Enqueue(TRUE, MapServiceAccountToResources),
               UNCHANGED <<roles, bindings>>
        PROVE  CInv'
    <3>1. requests' = requests \cup DOMAIN Live
      BY <2>2 DEF Enqueue, MapServiceAccountToResources
    <3>2. SeenNames \subseteq DOMAIN Live
      BY DEF SeenNames, Live
    <3>3. CASE SeenNames = {}
      <4>1. UniqueAccounts(Seen) = {}
        BY <1>2, <3>3 DEF UniqueAccounts
      <4>2. QED
        BY <2>1, <2>2, <3>1, <4>1, AccountGoes, ObjectsChange DEF Tracks
    <3>4. CASE SeenNames # {}
      BY <1>1, <2>1, <3>1, <3>2, <3>4, ObjectsChange
    <3>5. QED
      BY <3>3, <3>4
  <2>3. ASSUME NEW r \in DOMAIN roles, roles' = Drop(roles, r), Enqueue(TRUE, {roles[r]}),
               UNCHANGED <<sas, bindings>>
        PROVE  CInv'
    <3>1. requests' = requests \cup {roles[r]}
      BY <2>3 DEF Enqueue
    <3>2. CASE roles[r] \in SeenNames
      BY <1>1, <2>1, <3>1, <3>2, ObjectsChange
    <3>3. CASE roles[r] \notin SeenNames
      BY <1>2, <2>1, <2>3, <3>1, <3>3, RoleGoes, ObjectsChange DEF Tracks
    <3>4. QED
      BY <3>2, <3>3
  <2>4. ASSUME NEW b \in DOMAIN bindings,
               bindings' \in {Drop(bindings, b), [bindings EXCEPT ![b] = {}]},
               Enqueue(bindings' # bindings, {b.wsa}), UNCHANGED <<sas, roles>>
        PROVE  CInv'
    <3>1. requests' = (IF bindings' # bindings THEN requests \cup {b.wsa} ELSE requests)
      BY <2>4 DEF Enqueue
    <3>2. CASE bindings' = bindings
      BY <2>1, <2>4, <3>1, <3>2, ObjectsChange
    <3>3. CASE bindings' # bindings /\ b.wsa \in SeenNames
      BY <1>1, <2>1, <3>1, <3>3, ObjectsChange
    <3>4. CASE bindings' # bindings /\ b.wsa \notin SeenNames
      <4>1. CASE bindings' = Drop(bindings, b)
        <5>1. \A j : BindingsTrack(j, Seen, bindings) => BindingsTrack(j, Seen, bindings')
          BY <1>2, <3>4, <4>1, BindingGoes
        <5>2. QED
          BY <2>1, <2>4, <3>1, <5>1, ObjectsChange DEF Tracks
      <4>2. CASE bindings' = [bindings EXCEPT ![b] = {}]
        <5>1. \A j : BindingsTrack(j, Seen, bindings) => BindingsTrack(j, Seen, bindings')
          BY <1>2, <3>4, <4>2, BindingGoes
        <5>2. QED
          BY <2>1, <2>4, <3>1, <5>1, ObjectsChange DEF Tracks
      <4>3. QED
        BY <2>4, <4>1, <4>2
    <3>5. QED
      BY <3>2, <3>3, <3>4
  <2>5. QED
    BY <1>3, <2>2, <2>3, <2>4 DEF Drift
<1>4. CASE KubernetesGC
  <2>1. /\ requests' = requests
        /\ UNCHANGED <<wsas, created, sas, checking, pending, retryQueue, job, served, mapped,
                       disturbed, unreported>>
    BY <1>4 DEF KubernetesGC, queues, engineMaps, ghosts
  <2>2. SeenNames \subseteq DOMAIN wsas
    BY DEF SeenNames
  <2>3. ASSUME NEW r \in DOMAIN roles, roles[r] \notin DOMAIN wsas, roles' = Drop(roles, r),
               UNCHANGED bindings
        PROVE  CInv'
    BY <1>2, <2>1, <2>2, <2>3, RoleGoes, ObjectsChange DEF Tracks
  <2>4. ASSUME NEW b \in DOMAIN bindings, b.wsa \notin DOMAIN wsas,
               bindings' = Drop(bindings, b), UNCHANGED roles
        PROVE  CInv'
    <3>1. \A j : BindingsTrack(j, Seen, bindings) => BindingsTrack(j, Seen, bindings')
      BY <1>2, <2>2, <2>4, BindingGoes
    <3>2. QED
      BY <2>1, <2>4, <3>1, ObjectsChange DEF Tracks
  <2>5. QED
    BY <1>4, <2>3, <2>4 DEF KubernetesGC
<1>5. ASSUME NEW a \in Scopes, CreateAccount(a) PROVE CInv'
  <2>1. UNCHANGED <<wsas, created, sas, roles, bindings, requests, checking, pending,
                    retryQueue, job, served, mapped, disturbed, unreported>>
    BY <1>5 DEF CreateAccount, queues, engineMaps, ghosts
  <2>2. QED
    BY <2>1, ObjectsChange
<1>6. QED
  BY <1>3, <1>4, <1>5

(***************************************************************************)
(* Reconcile turns a request into an event.  handleDeletion drops a WSA    *)
(* that is being deleted, which does not stay anyway.                      *)
(***************************************************************************)
LEMMA ReconcileConverges ==
    ASSUME CInv, IInv', NEW w \in Name, Reconcile(w) \/ handleDeletion(w)
    PROVE  CInv'
<1>1. UNCHANGED <<created, sas, roles, bindings, retryQueue, job, served, mapped, disturbed,
                  unreported>>
  BY DEF Reconcile, ReconcileGone, ReconcileDeleting, ReconcileLive, handleDeletion,
         cluster, engineMaps, ghosts
<1>2. JobShape' /\ ListsOld'
  BY <1>1, PartsKept
<1>3. \A x : Listed(x)' <=> Listed(x)
  BY <1>1 DEF Listed
<1>4. OneAtATime => OneAtATime'
  BY <1>1 DEF OneAtATime
<1>5. CASE ReconcileGone(w)
  <2>1. /\ w \notin DOMAIN wsas /\ requests' = requests \ {w}
        /\ UNCHANGED <<wsas, checking, pending>>
    BY <1>5 DEF ReconcileGone
  <2>2. SameWSAs
    BY <1>1, <2>1 DEF SameWSAs
  <2>3. CheckingDeleting'
    BY <2>1, <2>2, PartsKept
  <2>4. DeletionAwaited' /\ FinalizerAhead'
    BY <2>1 DEF CInv, DeletionAwaited, FinalizerAhead
  <2>5. ReadyCovered'
    BY <1>1, <2>1, StillCovered DEF Covered
  <2>6. SeenNames' = SeenNames /\ Seen' = Seen
    BY <1>3, <2>2, SameSeen
  <2>7. Ahead => Ahead'
    BY <1>1, <2>1, <2>6 DEF Ahead
  <2>8. Main'
    BY <1>1, <2>1, <2>6, <2>7, Unaffected DEF CInv
  <2>9. QED
    BY <1>2, <2>3, <2>4, <2>5, <2>8 DEF CInv
<1>6. CASE ReconcileDeleting(w)
  <2>1. /\ w \in DOMAIN wsas /\ wsas[w].deleting
        /\ pending' = pending \cup {w} /\ requests' = requests \ {w}
        /\ checking' = checking \cup {w} /\ wsas' = wsas
    BY <1>6 DEF ReconcileDeleting
  <2>2. CheckingDeleting' /\ DeletionAwaited' /\ FinalizerAhead'
    BY <2>1 DEF CInv, CheckingDeleting, DeletionAwaited, FinalizerAhead
  <2>3. ReadyCovered'
    BY <1>1, <2>1, StillCovered DEF Covered
  <2>4. Ahead'
    BY <2>1 DEF Ahead
  <2>5. ListsNewer => ListsNewer'
    BY <1>1, <2>1 DEF ListsNewer, KnowsMore
  <2>6. QED
    BY <1>1, <1>2, <1>4, <2>2, <2>3, <2>4, <2>5 DEF CInv, Main
<1>7. CASE ReconcileLive(w)
  <2>1. /\ w \in DOMAIN wsas /\ ~wsas[w].deleting
        /\ pending' = pending \cup {w} /\ checking' = checking
        /\ requests' = (IF wsas[w].finalizer THEN requests \ {w} ELSE requests)
    BY <1>7 DEF ReconcileLive
  <2>2. /\ DOMAIN wsas' = DOMAIN wsas /\ \A x \in DOMAIN wsas \ {w} : wsas'[x] = wsas[x]
        /\ ~wsas'[w].deleting /\ wsas'[w].finalizer
    BY <1>7, <2>1 DEF ReconcileLive, CInv, IInv, WSAsOK, WSARecord
  <2>3. CheckingDeleting' /\ DeletionAwaited' /\ FinalizerAhead'
    BY <2>1, <2>2 DEF CInv, CheckingDeleting, DeletionAwaited, FinalizerAhead
  <2>4. ReadyCovered'
    BY <1>1, <2>1, <2>2, StillCovered DEF Covered
  <2>5. Ahead'
    BY <2>1 DEF Ahead
  <2>6. ListsNewer => ListsNewer'
    BY <1>1, <2>1, <2>2 DEF ListsNewer, KnowsMore
  <2>7. QED
    BY <1>1, <1>2, <1>4, <2>3, <2>4, <2>5, <2>6 DEF CInv, Main
<1>8. CASE handleDeletion(w)
  <2>1. /\ w \in checking /\ checking' = checking \ {w} /\ requests' = requests \cup {w}
        /\ pending' = pending
        /\ DOMAIN wsas' \in {DOMAIN wsas, DOMAIN wsas \ {w}}
        /\ \A x \in DOMAIN wsas' : x \in DOMAIN wsas /\ wsas'[x] = wsas[x]
    BY <1>8 DEF handleDeletion, Drop
  <2>2. w \in DOMAIN wsas /\ wsas[w].deleting
    BY <2>1 DEF CInv, CheckingDeleting
  <2>3. CheckingDeleting' /\ DeletionAwaited' /\ FinalizerAhead'
    BY <2>1, <2>2 DEF CInv, CheckingDeleting, DeletionAwaited, FinalizerAhead
  <2>4. ReadyCovered'
    BY <1>1, <2>1, StillCovered DEF Covered
  <2>5. SeenNames' = SeenNames
    BY <1>3, <2>1, <2>2 DEF SeenNames
  <2>6. \A x \in SeenNames : wsas'[x].spec = wsas[x].spec
    BY <2>1, <2>2 DEF SeenNames
  <2>7. Seen' = Seen
    BY <2>5, <2>6 DEF Seen
  <2>8. Ahead => Ahead'
    BY <1>1, <2>1, <2>5 DEF Ahead
  <2>9. Main'
    BY <1>1, <2>1, <2>7, <2>8, Unaffected DEF CInv
  <2>10. QED
    BY <1>2, <2>3, <2>4, <2>9 DEF CInv
<1>9. QED
  BY <1>5, <1>6, <1>7, <1>8 DEF Reconcile

-----------------------------------------------------------------------------
(***************************************************************************)
(* A goroutine takes a step: the WSAs and the requests stay what they are. *)
(***************************************************************************)
LEMMA JobMoves ==
    ASSUME CInv, SameWSAs, requests \subseteq requests', checking' = checking,
           NEW k \in Worker, NEW j, job' = [job EXCEPT ![k] = j],
           j.pc = "idle" => j = Idle,
           j.failed => j.pc \in DOMAIN NextOp,
           \A w \in DOMAIN j.plan \cup DOMAIN served' : w \in DOMAIN wsas \/ Listed(w)
    PROVE  /\ DOMAIN job = Worker /\ job'[k] = j /\ \A i \in Worker \ {k} : job'[i] = job[i]
           /\ CheckingDeleting' /\ DeletionAwaited' /\ FinalizerAhead' /\ JobShape' /\ ListsOld'
<1>1. DOMAIN job = Worker /\ job'[k] = j /\ \A i \in Worker \ {k} : job'[i] = job[i]
  BY DEF CInv, IInv, JobsOK
<1>2. CheckingDeleting' /\ DeletionAwaited' /\ FinalizerAhead'
  BY PartsKept
<1>3. JobShape'
  BY <1>1 DEF CInv, JobShape
<1>4. DOMAIN wsas \subseteq created /\ created' = created
  BY DEF CInv, IInv, WSAsOK, SameWSAs
<1>5. ListsOld'
  <2>1. ASSUME NEW w, Listed(w)' PROVE w \in DOMAIN wsas \/ Listed(w)
    BY <1>1, <2>1 DEF Listed
  <2>2. QED
    BY <1>4, <2>1 DEF CInv, ListsOld
<1>6. QED
  BY <1>1, <1>2, <1>3, <1>5

(***************************************************************************)
(* A step that leaves the events, the queues and the batch's keys.         *)
(***************************************************************************)
LEMMA CoverStays ==
    ASSUME JobsOK, NEW k \in Worker, NEW j, job' = [job EXCEPT ![k] = j],
           requests \subseteq requests', pending \subseteq pending',
           retryQueue \subseteq retryQueue', unreported \subseteq unreported'
    PROVE  /\ \A w : Covered(w) => Covered(w)' \/ w \in job[k].keys \ j.keys
           /\ \A w \in j.keys : Covered(w)'
<1>1. job'[k] = j /\ \A i \in Worker \ {k} : job'[i] = job[i]
  BY DEF JobsOK
<1>2. QED
  BY <1>1 DEF Covered

(***************************************************************************)
(* What is ahead stays ahead, unless the goroutine itself was to plan.     *)
(***************************************************************************)
LEMMA AheadStays ==
    ASSUME JobsOK, NEW k \in Worker, NEW j, job' = [job EXCEPT ![k] = j],
           SameWSAs, SeenNames' = SeenNames, requests \subseteq requests', checking' = checking,
           pending \subseteq pending', retryQueue \subseteq retryQueue',
           job[k].failed => j.failed, job[k].pc \notin PlansAgain,
           Ahead
    PROVE  Ahead'
<1>1. job'[k] = j /\ \A i \in Worker \ {k} : job'[i] = job[i]
  BY DEF JobsOK
<1>2. ASSUME NEW w \in requests \ checking,
             w \in DOMAIN wsas /\ (wsas[w].deleting \/ w \in SeenNames)
      PROVE  Ahead'
  BY <1>2 DEF SameWSAs, Ahead
<1>3. ASSUME NEW i \in Worker, job[i].failed \/ job[i].pc \in PlansAgain PROVE Ahead'
  BY <1>1, <1>3 DEF Ahead
<1>4. pending # {} \/ retryQueue # {} => Ahead'
  BY DEF Ahead
<1>5. QED
  BY <1>2, <1>3, <1>4 DEF Ahead

(***************************************************************************)
(* What is known of the goroutine that takes a step.                       *)
(***************************************************************************)
LEMMA KnownBefore ==
    ASSUME CInv, ~disturbed, NEW k \in Worker, job[k].pc # "idle"
    PROVE  /\ \A i \in Worker \ {k} : job[i] = Idle
           /\ KnowsMore(job[k], served)
           /\ ~Ahead => /\ Tracks(job[k], Seen, sas, roles, bindings)
                        /\ PlanIs(job[k], Seen, served, mapped)
<1>1. \A i \in Worker \ {k} : job[i] = Idle
  BY IdleJob DEF CInv, Main, OneAtATime
<1>2. QED
  BY <1>1 DEF CInv, Main, ListsNewer, Settled, Alone

(***************************************************************************)
(* What is to be shown of a goroutine that takes a step.                   *)
(***************************************************************************)
LEMMA MainMoves ==
    ASSUME CInv, ~disturbed, SameWSAs, NEW k \in Worker, job[k].pc # "idle",
           NEW j, job' = [job EXCEPT ![k] = j],
           KnowsMore(j, served'),
           \/ Ahead'
           \/ /\ Tracks(j, Seen', sas', roles', bindings')
              /\ PlanIs(j, Seen', served', mapped')
    PROVE  OneAtATime' /\ ListsNewer' /\ (~Ahead' => Settled')
<1>1. job'[k] = j /\ \A i \in Worker \ {k} : job'[i] = Idle
  BY KnownBefore DEF CInv, IInv, JobsOK
<1>2. OneAtATime'
  BY <1>1 DEF OneAtATime
<1>3. ListsNewer'
  <2>1. KnowsMore(j, served)'
    BY DEF KnowsMore, SameWSAs
  <2>2. KnowsMore(Idle, served)'
    BY IdleJob, Places DEF KnowsMore
  <2>3. ASSUME NEW i \in Worker PROVE KnowsMore(job[i], served)'
    <3>1. CASE i = k
      BY <1>1, <2>1, <3>1 DEF KnowsMore
    <3>2. CASE i # k
      BY <1>1, <2>2, <3>2 DEF KnowsMore
    <3>3. QED
      BY <3>1, <3>2
  <2>4. QED
    BY <2>3 DEF ListsNewer
<1>4. ASSUME ~Ahead' PROVE Settled'
  <2>1. /\ Tracks(j, Seen', sas', roles', bindings')
        /\ PlanIs(j, Seen', served', mapped')
    BY <1>4
  <2>2. ASSUME NEW i \in Worker, Alone(i)' PROVE job'[i] = j
    BY <1>1, <2>2 DEF Alone
  <2>3. QED
    BY <2>1, <2>2 DEF Settled
<1>5. QED
  BY <1>2, <1>3, <1>4

(***************************************************************************)
(* A batch is taken: a plan is ahead.  The claim holds again if no other   *)
(* batch is being processed.                                               *)
(***************************************************************************)
LEMMA TakeConverges ==
    ASSUME CInv, IInv', TakeBatch \/ TakeRetry
    PROVE  CInv'
<1>1. ASSUME NEW k \in Worker, NEW keys, NEW fails, Take(k, keys, fails),
             UNCHANGED <<wsas, created, requests, checking, served>>,
             \A w : Covered(w) => Covered(w)'
      PROVE  CInv'
  <2> DEFINE j == NewJob("planning", keys, fails)
  <2>1. j.pc = "planning" /\ ~j.failed /\ DOMAIN j.plan = {} /\ job' = [job EXCEPT ![k] = j]
    BY <1>1 DEF NewJob, Take, Nothing
  <2> HIDE DEF j
  <2>2. SameWSAs
    BY <1>1 DEF SameWSAs
  <2>3. \A w \in DOMAIN j.plan \cup DOMAIN served' : Listed(w)
    BY <1>1, <2>1 DEF Listed
  <2>4. /\ job'[k] = j /\ \A i \in Worker \ {k} : job'[i] = job[i]
        /\ CheckingDeleting' /\ DeletionAwaited' /\ FinalizerAhead' /\ JobShape' /\ ListsOld'
    BY <1>1, <2>1, <2>2, <2>3, JobMoves
  <2>5. ReadyCovered'
    BY <1>1, StillCovered
  <2>6. Ahead'
    BY <2>1, <2>4 DEF Ahead, PlansAgain
  <2>7. ASSUME ~disturbed' PROVE OneAtATime' /\ ListsNewer'
    <3>1. \A i \in Worker \ {k} : job'[i] = Idle
      BY <1>1, <2>4, <2>7 DEF Take
    <3>2. OneAtATime'
      BY <3>1 DEF OneAtATime
    <3>3. ListsNewer'
      BY <2>1, <2>4, <3>1, IdleJob DEF ListsNewer, KnowsMore, Executing, NextOp
    <3>4. QED
      BY <3>2, <3>3
  <2>8. QED
    BY <2>4, <2>5, <2>6, <2>7 DEF CInv, Main
<1>2. CASE TakeBatch
  <2>1. /\ Take("main", pending, 0)
        /\ UNCHANGED <<wsas, created, requests, checking, retryQueue, served, unreported>>
    BY <1>2 DEF TakeBatch, Take, engineMaps
  <2>2. "main" \in Worker
    BY DEF Worker
  <2>3. /\ job'["main"].keys = pending /\ \A i \in Worker \ {"main"} : job'[i] = job[i]
        /\ job["main"].keys = {}
    BY <2>1, <2>2, IdleJob DEF Take, NewJob, CInv, IInv, JobsOK
  <2>4. \A w : Covered(w) => Covered(w)'
    BY <2>1, <2>2, <2>3 DEF Covered
  <2>5. QED
    BY <1>1, <2>1, <2>2, <2>4
<1>3. CASE TakeRetry
  <2>1. PICK b \in retryQueue : Take("retry", b.keys, b.fails) /\ retryQueue' = retryQueue \ {b}
    BY <1>3 DEF TakeRetry
  <2>2. UNCHANGED <<wsas, created, requests, checking, pending, served, unreported>>
    BY <1>3 DEF TakeRetry, Take, engineMaps
  <2>3. "retry" \in Worker
    BY DEF Worker
  <2>4. /\ job'["retry"].keys = b.keys /\ \A i \in Worker \ {"retry"} : job'[i] = job[i]
        /\ job["retry"].keys = {}
    BY <2>1, <2>3, IdleJob DEF Take, NewJob, CInv, IInv, JobsOK
  <2>5. \A w : Covered(w) => Covered(w)'
    BY <2>1, <2>2, <2>3, <2>4 DEF Covered
  <2>6. QED
    BY <1>1, <2>1, <2>2, <2>3, <2>5
<1>4. QED
  BY <1>2, <1>3

(***************************************************************************)
(* A batch that fails is tried again, or given up and then requeued.  Its  *)
(* WSAs stay covered.                                                      *)
(***************************************************************************)
LEMMA FailBatchConverges ==
    ASSUME CInv, IInv', NEW k \in Worker, job[k].pc # "idle", FailBatch(k),
           UNCHANGED <<created, requests, checking, pending, served, disturbed, unreported>>
    PROVE  CInv'
<1> DEFINE again == [keys |-> job[k].keys, fails |-> job[k].fails + 1]
           given == NewJob("rebuild", job[k].keys, 0)
<1>1. SameWSAs
  BY StatusWrites DEF FailBatch, CInv, IInv
<1>2. \A w \in DOMAIN wsas' : w \notin job[k].keys => w \in DOMAIN wsas /\ wsas'[w] = wsas[w]
  BY DEF FailBatch, UpdateCondition
<1>3. JobsOK
  BY DEF CInv, IInv
<1>4. ASSUME NEW j, job' = [job EXCEPT ![k] = j], j.pc \in {"idle", "rebuild"},
             j.pc = "idle" => j = Idle, ~j.failed, DOMAIN j.plan = {},
             Ahead', retryQueue \subseteq retryQueue',
             \A w \in job[k].keys : Covered(w)'
      PROVE  CInv'
  <2>1. \A w \in DOMAIN j.plan \cup DOMAIN served' : Listed(w)
    BY <1>4 DEF Listed
  <2>2. CheckingDeleting' /\ DeletionAwaited' /\ FinalizerAhead' /\ JobShape' /\ ListsOld'
    BY <1>1, <1>4, <2>1, JobMoves
  <2>3. \A w : Covered(w) => Covered(w)'
    BY <1>3, <1>4, CoverStays
  <2>4. ReadyCovered'
    <3>1. ASSUME NEW w \in DOMAIN wsas', ~wsas'[w].deleting
          PROVE  \/ Covered(w)'
                 \/ /\ w \in DOMAIN wsas /\ ~wsas[w].deleting
                    /\ wsas'[w].ready = wsas[w].ready /\ wsas'[w].observed = wsas[w].observed
                    /\ Covered(w) => Covered(w)'
      BY <1>2, <1>4, <2>3, <3>1
    <3>2. QED
      BY <3>1, StillCovered
  <2>5. KnowsMore(j, served')
    BY <1>4 DEF KnowsMore, Executing, NextOp
  <2>6. Main'
    BY <1>1, <1>4, <2>5, MainMoves DEF Main
  <2>7. QED
    BY <2>2, <2>4, <2>6 DEF CInv
<1>5. CASE job[k].fails + 1 <= MaxRetries
  <2>1. retryQueue' = retryQueue \cup {again} /\ job' = [job EXCEPT ![k] = Idle]
    BY <1>5 DEF FailBatch
  <2>2. Ahead'
    BY <2>1 DEF Ahead
  <2>3. \A w \in job[k].keys : Covered(w)'
    <3>1. again.keys = job[k].keys /\ again \in retryQueue'
      BY <2>1
    <3>2. QED
      BY <3>1 DEF Covered
  <2>4. QED
    BY <1>4, <2>1, <2>2, <2>3, IdleJob
<1>6. CASE ~(job[k].fails + 1 <= MaxRetries)
  <2>1. /\ retryQueue' = retryQueue /\ job' = [job EXCEPT ![k] = given]
        /\ given.pc = "rebuild" /\ ~given.failed /\ DOMAIN given.plan = {}
        /\ given.keys = job[k].keys
    BY <1>6 DEF FailBatch, NewJob, Nothing
  <2> HIDE DEF given
  <2>2. job'[k] = given
    BY <1>3, <2>1 DEF JobsOK
  <2>3. Ahead'
    BY <2>1, <2>2 DEF Ahead, PlansAgain
  <2>4. \A w \in job[k].keys : Covered(w)'
    BY <1>3, <2>1, CoverStays
  <2>5. QED
    BY <1>4, <2>1, <2>3, <2>4
<1>7. QED
  BY <1>5, <1>6

(***************************************************************************)
(* A step that plans nothing new: the lists stay, and what the goroutine   *)
(* does to the cluster must keep to the plan.                              *)
(***************************************************************************)
LEMMA PlanKept ==
    ASSUME CInv, IInv', SameWSAs, requests \subseteq requests',
           UNCHANGED <<checking, pending, retryQueue, served, mapped, disturbed, unreported>>,
           \A w \in DOMAIN wsas : /\ wsas'[w].ready = wsas[w].ready
                                  /\ wsas'[w].observed = wsas[w].observed,
           NEW k \in Worker, job[k].pc \in {"validation"} \cup Executing,
           NEW j, job' = [job EXCEPT ![k] = j],
           j.keys = job[k].keys, DOMAIN j.plan = DOMAIN job[k].plan,
           j.pc \in DOMAIN NextOp \/ (j.pc = "ApplyBatchPlan" /\ ~j.failed),
           job[k].failed => j.failed,
           \/ j.failed
           \/ /\ job[k].plan = Seen
              /\ Tracks(job[k], Seen, sas, roles, bindings)
              => /\ j.plan = Seen
                 /\ Tracks(j, Seen, sas', roles', bindings')
    PROVE  CInv'
<1>1. job[k].pc \notin PlansAgain \cup {"idle"} /\ JobsOK
  BY Places DEF CInv, IInv
<1>2. \A w \in DOMAIN j.plan \cup DOMAIN served' : Listed(w)
  BY DEF Listed
<1>3. j.pc # "idle" /\ (j.failed => j.pc \in DOMAIN NextOp) /\ j.pc # "done"
  BY DEF NextOp
<1>4. /\ job'[k] = j /\ \A i \in Worker \ {k} : job'[i] = job[i]
      /\ CheckingDeleting' /\ DeletionAwaited' /\ FinalizerAhead' /\ JobShape' /\ ListsOld'
  BY <1>2, <1>3, JobMoves
<1>5. \A w : Covered(w) => Covered(w)'
  BY <1>1, CoverStays
<1>6. ReadyCovered'
  BY <1>5, StillCovered DEF SameWSAs
<1>7. \A w : Listed(w)' <=> Listed(w)
  BY <1>4 DEF Listed
<1>8. SeenNames' = SeenNames /\ Seen' = Seen
  BY <1>7, SameSeen
<1>9. Ahead => Ahead'
  BY <1>1, <1>8, AheadStays
<1>10. ASSUME ~disturbed PROVE OneAtATime' /\ ListsNewer' /\ (~Ahead' => Settled')
  <2>1. KnowsMore(j, served')
    <3>1. KnowsMore(job[k], served)
      BY <1>1, <1>10, KnownBefore
    <3>2. QED
      BY <1>3, <3>1 DEF KnowsMore
  <2>2. CASE Ahead'
    BY <1>1, <1>10, <2>1, <2>2, MainMoves
  <2>3. CASE ~Ahead'
    <3>1. ~Ahead /\ ~j.failed
      BY <1>4, <1>9, <2>3 DEF Ahead
    <3>2. /\ Tracks(job[k], Seen, sas, roles, bindings)
          /\ PlanIs(job[k], Seen, served, mapped)
      BY <1>1, <1>10, <3>1, KnownBefore
    <3>3. job[k].plan = Seen
      BY <1>1, <3>2 DEF PlanIs
    <3>4. j.plan = Seen /\ Tracks(j, Seen, sas', roles', bindings')
      BY <3>1, <3>2, <3>3
    <3>5. PlanIs(j, Seen, served', mapped')
      BY <1>3, <3>4 DEF PlanIs
    <3>6. QED
      BY <1>1, <1>8, <1>10, <2>1, <3>4, <3>5, MainMoves
  <2>4. QED
    BY <2>2, <2>3
<1>11. Main'
  BY <1>10 DEF Main
<1>12. QED
  BY <1>4, <1>6, <1>11 DEF CInv

-----------------------------------------------------------------------------
(***************************************************************************)
(* A plan is made of all WSAs: it is what stays from now on.               *)
(***************************************************************************)
LEMMA PlanningConverges ==
    ASSUME CInv, IInv', NEW k \in Worker, Planning(k)
    PROVE  CInv'
<1> DEFINE j == [job[k] EXCEPT !.plan = Live, !.pc = "validation"]
<1>1. /\ job[k].pc = "planning" /\ updateStageStatus(job[k].keys)
      /\ job' = [job EXCEPT ![k] = j]
      /\ UNCHANGED <<created, sas, roles, bindings, requests, checking, pending, retryQueue,
                     served, mapped, disturbed, unreported>>
  BY DEF Planning, cluster, queues, engineMaps, ghosts, CInv, IInv, JobsOK, JobOK
<1>2. JobsOK /\ JobOK(job[k]) /\ ~job[k].failed
  BY <1>1, Places DEF CInv, IInv, JobsOK, JobShape, PlansAgain
<1>3. j.pc = "validation" /\ j.plan = Live /\ j.keys = job[k].keys /\ ~j.failed
  BY <1>2 DEF JobOK
<1> HIDE DEF j
<1>4. SameWSAs
  BY <1>1, StatusWrites DEF CInv, IInv
<1>5. \A w \in DOMAIN wsas : wsas'[w].ready = wsas[w].ready /\ wsas'[w].observed = wsas[w].observed
  BY <1>1 DEF updateStageStatus, CInv, IInv, WSAsOK, WSARecord
<1>6. DOMAIN Live \subseteq DOMAIN wsas
  BY DEF Live
<1>7. /\ job'[k] = j /\ \A i \in Worker \ {k} : job'[i] = job[i]
      /\ CheckingDeleting' /\ DeletionAwaited' /\ FinalizerAhead' /\ JobShape' /\ ListsOld'
  <2>1. \A w \in DOMAIN j.plan \cup DOMAIN served' : w \in DOMAIN wsas \/ Listed(w)
    BY <1>1, <1>3, <1>6 DEF Listed
  <2>2. QED
    BY <1>1, <1>3, <1>4, <2>1, JobMoves
<1>8. ReadyCovered'
  <2>1. \A w : Covered(w) => Covered(w)'
    BY <1>1, <1>2, <1>3, CoverStays
  <2>2. QED
    BY <1>4, <1>5, <2>1, StillCovered DEF SameWSAs
<1>9. Seen' = Live
  <2>1. \A w \in DOMAIN Live : Listed(w)'
    BY <1>3, <1>7 DEF Listed
  <2>2. SeenNames' = DOMAIN Live
    BY <1>4, <2>1 DEF SeenNames, SameWSAs, Live
  <2>3. \A w \in DOMAIN Live : wsas'[w].spec = wsas[w].spec
    BY <1>4, <1>6 DEF SameWSAs
  <2>4. QED
    BY <2>2, <2>3 DEF Seen, Live
<1>10. KnowsMore(j, served')
  BY <1>3 DEF KnowsMore, Live
<1>11. Tracks(j, Seen', sas', roles', bindings')
  BY <1>3, NoOperation
<1>12. PlanIs(j, Seen', served', mapped')
  BY <1>3, <1>9 DEF PlanIs
<1>13. Main'
  BY <1>1, <1>4, <1>10, <1>11, <1>12, MainMoves DEF Main
<1>14. QED
  BY <1>7, <1>8, <1>13 DEF CInv

(***************************************************************************)
(* An operation that begins has its work before it, which is all that the  *)
(* operations behind it have left to be done.                              *)
(***************************************************************************)
LEMMA ExecutionBegins ==
    ASSUME NEW n, NEW plan,
           n.pc = IF plan = Nothing THEN "GarbageCollectServiceAccounts" ELSE "EnsureRoles",
           n.todo = Todo(n.pc, plan)
    PROVE  Tracks(n, plan, sas, roles, bindings)
<1>1. CASE plan = Nothing
  <2>1. /\ DOMAIN plan = {} /\ UniqueAccounts(plan) = {}
        /\ n.pc = "GarbageCollectServiceAccounts" /\ n.todo = sas
    BY <1>1 DEF Nothing, UniqueAccounts, Todo
  <2>2. AccountsTrack(n, plan, sas)
    BY <2>1 DEF AccountsTrack, Left
  <2>3. RolesTrack(n, plan, roles)
    BY <2>1 DEF RolesTrack, RolesThere, Left, AfterRoles, AfterRoleBindings,
                AfterClusterRoleBindings
  <2>4. BindingsTrack(n, plan, bindings)
    BY <2>1 DEF BindingsTrack, BindingsThere, Left, AfterRoleBindings, AfterClusterRoleBindings
  <2>5. QED
    BY <2>2, <2>3, <2>4 DEF Tracks
<1>2. CASE plan # Nothing
  <2>1. n.pc = "EnsureRoles" /\ n.todo = DOMAIN plan
    BY <1>2 DEF Todo
  <2>2. AccountsTrack(n, plan, sas)
    BY <2>1 DEF AccountsTrack, Left, AfterEnsureAccounts, AfterEnsureBindings, AfterAccounts,
                AfterRoles, AfterRoleBindings, AfterClusterRoleBindings
  <2>3. RolesTrack(n, plan, roles)
    BY <2>1 DEF RolesTrack, RolesThere, Left, AfterRoles, AfterRoleBindings,
                AfterClusterRoleBindings
  <2>4. BindingsTrack(n, plan, bindings)
    BY <2>1 DEF BindingsTrack, Left, AfterEnsureBindings, AfterAccounts, AfterRoles,
                AfterRoleBindings, AfterClusterRoleBindings
  <2>5. QED
    BY <2>2, <2>3, <2>4 DEF Tracks
<1>3. QED
  BY <1>1, <1>2

(***************************************************************************)
(* A plan that is that of the WSAs that stay has nothing to be refreshed.  *)
(***************************************************************************)
LEMMA ValidationConverges ==
    ASSUME CInv, IInv', NEW k \in Worker, Validation(k)
    PROVE  CInv'
<1>1. /\ job[k].pc = "validation"
      /\ UNCHANGED <<created, sas, roles, bindings, requests, checking, pending, served, mapped,
                     disturbed, unreported>>
  BY DEF Validation, cluster, engineMaps, ghosts
<1>2. CASE FailBatch(k)
  BY <1>1, <1>2, FailBatchConverges
<1>3. CASE BeginExecution(k) /\ UNCHANGED retryQueue
  <2> DEFINE op == IF job[k].plan = Nothing THEN "GarbageCollectServiceAccounts" ELSE "EnsureRoles"
  <2>1. PICK written \in SUBSET {w \in job[k].keys \cap DOMAIN job[k].plan \cap DOMAIN wsas :
                                   job[k].plan[w].rules # wsas[w].spec.rules} :
            BeginOp(k, op, Refreshed(job[k].plan, written))
    BY <1>3 DEF BeginExecution
  <2> DEFINE new == Refreshed(job[k].plan, written)
             j == [job[k] EXCEPT !.pc = op, !.plan = new, !.todo = Todo(op, new)]
  <2>2. JobOK(job[k]) /\ JobsOK
    BY DEF CInv, IInv, JobsOK
  <2>3. job' = [job EXCEPT ![k] = j]
    BY <2>1, <2>2 DEF BeginOp, JobsOK
  <2>4. /\ j.pc = op /\ j.plan = new /\ j.todo = Todo(op, new) /\ j.keys = job[k].keys
        /\ j.failed = job[k].failed
    BY <2>2 DEF JobOK
  <2>5. DOMAIN new = DOMAIN job[k].plan
    BY DEF Refreshed
  <2>6. op \in DOMAIN NextOp
    BY DEF NextOp
  <2>7. ASSUME job[k].plan = Seen
        PROVE  j.plan = Seen /\ Tracks(j, Seen, sas', roles', bindings')
    <3>1. written = {}
      BY <2>7 DEF Seen
    <3>2. new = Seen
      BY <2>7, <3>1 DEF Refreshed, Seen
    <3> HIDE DEF new, j
    <3>3. QED
      BY <1>1, <2>4, <2>7, <3>2, ExecutionBegins
  <2> HIDE DEF new, j, op
  <2>8. SameWSAs
    BY <1>1, <1>3, StatusWrites DEF BeginExecution, CInv, IInv
  <2>9. \A w \in DOMAIN wsas : /\ wsas'[w].ready = wsas[w].ready
                               /\ wsas'[w].observed = wsas[w].observed
    BY <1>3 DEF BeginExecution, updateStageStatus, CInv, IInv, WSAsOK, WSARecord
  <2>10. QED
    BY <1>1, <1>3, <2>3, <2>4, <2>5, <2>6, <2>7, <2>8, <2>9, PlanKept
<1>4. QED
  BY <1>2, <1>3 DEF Validation

(***************************************************************************)
(* An operation that has nothing left makes way for the next, which has    *)
(* its work before it: everything to be ensured, or everything spare.      *)
(***************************************************************************)
LEMMA OperationEnds ==
    ASSUME NEW j, NEW n, NEW plan, Tracks(j, plan, sas, roles, bindings),
           j.pc \in DOMAIN NextOp, j.todo = {},
           n.pc = NextOp[j.pc], n.todo = Todo(n.pc, plan)
    PROVE  Tracks(n, plan, sas, roles, bindings)
<1> USE DEF Tracks, AfterEnsureRoles, AfterEnsureAccounts, AfterEnsureBindings, AfterAccounts,
        AfterRoles, AfterRoleBindings, AfterClusterRoleBindings
<1>1. CASE j.pc = "EnsureRoles"
  <2>1. n.pc = "EnsureServiceAccounts" /\ n.todo = UniqueAccounts(plan)
    BY <1>1 DEF NextOp, Todo
  <2>2. QED
    BY <1>1, <2>1 DEF AccountsTrack, RolesTrack, BindingsTrack, Left
<1>2. CASE j.pc = "EnsureServiceAccounts"
  <2>1. n.pc = "EnsureRoleBindings" /\ n.todo = DOMAIN plan
    BY <1>2 DEF NextOp, Todo
  <2>2. QED
    BY <1>2, <2>1 DEF AccountsTrack, RolesTrack, BindingsTrack, BindingsThere, Left
<1>3. CASE j.pc = "EnsureRoleBindings"
  <2>1. n.pc = "GarbageCollectServiceAccounts" /\ n.todo = sas \ UniqueAccounts(plan)
    BY <1>3 DEF NextOp, Todo
  <2>2. QED
    BY <1>3, <2>1 DEF AccountsTrack, RolesTrack, BindingsTrack, Left
<1>4. CASE j.pc = "GarbageCollectServiceAccounts"
  <2>1. n.pc = "GarbageCollectRoles" /\ n.todo = SpareRoles(plan, roles)
    BY <1>4 DEF NextOp, Todo, SpareRoles
  <2>2. SpareRoles(plan, roles) \cap ExpectedRoles(plan) = {}
    BY DEF SpareRoles
  <2>3. QED
    BY <1>4, <2>1, <2>2 DEF AccountsTrack, RolesTrack, BindingsTrack, Left
<1>5. CASE j.pc = "GarbageCollectRoles"
  <2>1. /\ n.pc = "GarbageCollectRoleBindings"
        /\ n.todo = {b \in SpareBindings(plan, bindings) : b.wsa \notin ClusterName}
    BY <1>5 DEF NextOp, Todo, SpareBindings
  <2>2. n.todo \cap ExpectedBindings(plan) = {}
    BY <2>1 DEF SpareBindings
  <2>3. QED
    BY <1>5, <2>1, <2>2 DEF AccountsTrack, RolesTrack, BindingsTrack, Left
<1>6. CASE j.pc = "GarbageCollectRoleBindings"
  <2>1. /\ n.pc = "GarbageCollectClusterRoleBindings"
        /\ n.todo = {b \in SpareBindings(plan, bindings) : b.wsa \in ClusterName}
    BY <1>6 DEF NextOp, Todo, SpareBindings
  <2>2. n.todo \cap ExpectedBindings(plan) = {}
    BY <2>1 DEF SpareBindings
  <2>3. QED
    BY <1>6, <2>1, <2>2 DEF AccountsTrack, RolesTrack, BindingsTrack, Left
<1>7. CASE j.pc = "GarbageCollectClusterRoleBindings"
  <2>1. n.pc = "ApplyBatchPlan" /\ n.todo = {}
    BY <1>7 DEF NextOp, Todo
  <2>2. QED
    BY <1>7, <2>1 DEF AccountsTrack, RolesTrack, BindingsTrack, Left
<1>8. QED
  BY <1>1, <1>2, <1>3, <1>4, <1>5, <1>6, <1>7, Places

(***************************************************************************)
(* An operation ends: the next begins, or the batch fails.                 *)
(***************************************************************************)
LEMMA FinishOpConverges ==
    ASSUME CInv, IInv', NEW k \in Worker, FinishOp(k)
    PROVE  CInv'
<1>1. /\ job[k].pc \in DOMAIN NextOp /\ job[k].todo = {}
      /\ UNCHANGED <<created, sas, roles, bindings, requests, checking, pending, served, mapped,
                     disturbed, unreported>>
  BY DEF FinishOp, cluster, engineMaps, ghosts
<1>2. CASE job[k].failed
  BY <1>1, <1>2, Places, FailBatchConverges DEF FinishOp
<1>3. CASE ~job[k].failed
  <2> DEFINE op == NextOp[job[k].pc]
             j == [job[k] EXCEPT !.pc = op, !.plan = job[k].plan, !.todo = Todo(op, job[k].plan)]
  <2>1. BeginOp(k, op, job[k].plan) /\ UNCHANGED <<wsas, retryQueue>>
    BY <1>3 DEF FinishOp
  <2>2. JobOK(job[k]) /\ JobsOK
    BY DEF CInv, IInv, JobsOK
  <2>3. job' = [job EXCEPT ![k] = j]
    BY <2>1, <2>2 DEF BeginOp, JobsOK
  <2>4. /\ j.pc = op /\ j.plan = job[k].plan /\ j.todo = Todo(op, job[k].plan)
        /\ j.keys = job[k].keys /\ j.failed = job[k].failed
    BY <2>2 DEF JobOK
  <2>5. op \in DOMAIN NextOp \cup {"ApplyBatchPlan"}
    BY <1>1 DEF NextOp
  <2> HIDE DEF j
  <2>6. ASSUME job[k].plan = Seen, Tracks(job[k], Seen, sas, roles, bindings)
        PROVE  j.plan = Seen /\ Tracks(j, Seen, sas', roles', bindings')
    BY <1>1, <2>4, <2>6, OperationEnds
  <2>7. SameWSAs
    BY <1>1, <2>1 DEF SameWSAs
  <2>8. job[k].pc \in Executing
    BY <1>1 DEF Executing
  <2> HIDE DEF op
  <2>9. QED
    BY <1>1, <1>3, <2>1, <2>3, <2>4, <2>5, <2>6, <2>7, <2>8, PlanKept
<1>4. QED
  BY <1>2, <1>3

(***************************************************************************)
(* A call of an operation leaves the other kinds of objects as they are.   *)
(***************************************************************************)
LEMMA OtherKinds ==
    ASSUME NEW j, NEW n, NEW plan, n.pc = j.pc
    PROVE  /\ \A accounts : /\ AccountsTrack(j, plan, accounts)
                            /\ j.pc \notin {"EnsureServiceAccounts", "GarbageCollectServiceAccounts"}
                            => AccountsTrack(n, plan, accounts)
           /\ \A owners : /\ RolesTrack(j, plan, owners)
                          /\ j.pc \notin {"EnsureRoles", "GarbageCollectRoles"}
                          => RolesTrack(n, plan, owners)
           /\ \A subjects : /\ BindingsTrack(j, plan, subjects)
                            /\ j.pc \notin {"EnsureRoleBindings", "GarbageCollectRoleBindings",
                                            "GarbageCollectClusterRoleBindings"}
                            => BindingsTrack(n, plan, subjects)
<1>1. \A op : j.pc # op => Left(n, op) = {} /\ Left(j, op) = {}
  BY DEF Left
<1>2. QED
  BY <1>1 DEF AccountsTrack, RolesTrack, BindingsTrack

(***************************************************************************)
(* One call of an ensuring operation: one thing less that is missing.      *)
(***************************************************************************)
LEMMA EnsureTracks ==
    ASSUME NEW j, NEW n, NEW plan, NEW x \in j.todo, Tracks(j, plan, sas, roles, bindings),
           n.pc = j.pc, n.todo = j.todo \ {x}
    PROVE  /\ j.pc = "EnsureRoles" /\ x \in DOMAIN plan =>
                 Tracks(n, plan, sas, Put(roles, RoleOf(plan, x), x), bindings)
           /\ j.pc = "EnsureServiceAccounts" => Tracks(n, plan, sas \cup {x}, roles, bindings)
           /\ j.pc = "EnsureRoleBindings" /\ x \in DOMAIN plan =>
                 Tracks(n, plan, sas, roles,
                        Put(bindings, BindingOf(plan, x), {plan[x].scope}))
<1>1. AccountsTrack(j, plan, sas) /\ RolesTrack(j, plan, roles) /\ BindingsTrack(j, plan, bindings)
  BY DEF Tracks
<1>2. ASSUME j.pc = "EnsureRoles", x \in DOMAIN plan
      PROVE  RolesTrack(n, plan, Put(roles, RoleOf(plan, x), x))
  <2> DEFINE new == Put(roles, RoleOf(plan, x), x)
  <2>1. /\ DOMAIN new = DOMAIN roles \cup {RoleOf(plan, x)} /\ new[RoleOf(plan, x)] = x
        /\ \A r \in DOMAIN roles : r # RoleOf(plan, x) => new[r] = roles[r]
    BY DEF Put
  <2> HIDE DEF new
  <2>2. RolesThere(plan, roles, DOMAIN plan \ j.todo)
    BY <1>1, <1>2 DEF RolesTrack, Left
  <2>3. RolesThere(plan, new, DOMAIN plan \ n.todo)
    BY <1>2, <2>1, <2>2 DEF RolesThere
  <2>4. QED
    BY <1>2, <2>3 DEF new, RolesTrack, Left, AfterRoles, AfterRoleBindings,
                      AfterClusterRoleBindings
<1>3. ASSUME j.pc = "EnsureServiceAccounts" PROVE AccountsTrack(n, plan, sas \cup {x})
  BY <1>1, <1>3 DEF AccountsTrack, Left, AfterAccounts, AfterRoles, AfterRoleBindings,
                    AfterClusterRoleBindings
<1>4. ASSUME j.pc = "EnsureRoleBindings", x \in DOMAIN plan
      PROVE  BindingsTrack(n, plan, Put(bindings, BindingOf(plan, x), {plan[x].scope}))
  <2> DEFINE new == Put(bindings, BindingOf(plan, x), {plan[x].scope})
  <2>1. /\ DOMAIN new = DOMAIN bindings \cup {BindingOf(plan, x)}
        /\ new[BindingOf(plan, x)] = {plan[x].scope}
        /\ \A b \in DOMAIN bindings : b # BindingOf(plan, x) => new[b] = bindings[b]
    BY DEF Put
  <2> HIDE DEF new
  <2>2. BindingsThere(plan, bindings, DOMAIN plan \ j.todo)
    BY <1>1, <1>4 DEF BindingsTrack, Left
  <2>3. \A w \in DOMAIN plan : w # x => BindingOf(plan, w) # BindingOf(plan, x)
    BY DEF BindingOf
  <2>4. BindingsThere(plan, new, DOMAIN plan \ n.todo)
    BY <1>4, <2>1, <2>2, <2>3 DEF BindingsThere
  <2>5. QED
    BY <1>4, <2>4 DEF new, BindingsTrack, Left, AfterRoleBindings, AfterClusterRoleBindings
<1>5. QED
  BY <1>1, <1>2, <1>3, <1>4, OtherKinds DEF Tracks

(***************************************************************************)
(* One call of a collecting operation: one thing less that is spare.  What *)
(* is needed is not among them.                                            *)
(***************************************************************************)
LEMMA CollectTracks ==
    ASSUME NEW j, NEW n, NEW plan, NEW x \in j.todo, Tracks(j, plan, sas, roles, bindings),
           n.pc = j.pc, n.todo = j.todo \ {x}
    PROVE  /\ j.pc = "GarbageCollectServiceAccounts" =>
                 Tracks(n, plan, sas \ {x}, roles, bindings)
           /\ j.pc = "GarbageCollectRoles" => Tracks(n, plan, sas, Drop(roles, x), bindings)
           /\ j.pc \in {"GarbageCollectRoleBindings", "GarbageCollectClusterRoleBindings"} =>
                 Tracks(n, plan, sas, roles, Drop(bindings, x))
<1>1. AccountsTrack(j, plan, sas) /\ RolesTrack(j, plan, roles) /\ BindingsTrack(j, plan, bindings)
  BY DEF Tracks
<1>2. ASSUME j.pc = "GarbageCollectServiceAccounts" PROVE AccountsTrack(n, plan, sas \ {x})
  BY <1>1, <1>2 DEF AccountsTrack, Left
<1>3. ASSUME j.pc = "GarbageCollectRoles" PROVE RolesTrack(n, plan, Drop(roles, x))
  <2>1. /\ DOMAIN Drop(roles, x) = DOMAIN roles \ {x}
        /\ \A r \in DOMAIN roles \ {x} : Drop(roles, x)[r] = roles[r]
    BY DEF Drop
  <2>2. \A w \in DOMAIN plan : RoleOf(plan, w) # x
    BY <1>1, <1>3 DEF RolesTrack, Left, ExpectedRoles
  <2>3. ASSUME NEW S \in SUBSET DOMAIN plan, RolesThere(plan, roles, S)
        PROVE  RolesThere(plan, Drop(roles, x), S)
    BY <2>1, <2>2, <2>3 DEF RolesThere
  <2>4. SpareRoles(plan, Drop(roles, x)) = SpareRoles(plan, roles) \ {x}
    BY <2>1 DEF SpareRoles
  <2>5. QED
    BY <1>1, <1>3, <2>3, <2>4 DEF RolesTrack, Left
<1>4. ASSUME j.pc \in {"GarbageCollectRoleBindings", "GarbageCollectClusterRoleBindings"}
      PROVE  BindingsTrack(n, plan, Drop(bindings, x))
  <2>1. /\ DOMAIN Drop(bindings, x) = DOMAIN bindings \ {x}
        /\ \A b \in DOMAIN bindings \ {x} : Drop(bindings, x)[b] = bindings[b]
    BY DEF Drop
  <2>2. \A w \in DOMAIN plan : BindingOf(plan, w) # x
    BY <1>1, <1>4 DEF BindingsTrack, Left, ExpectedBindings
  <2>3. ASSUME NEW S \in SUBSET DOMAIN plan, BindingsThere(plan, bindings, S)
        PROVE  BindingsThere(plan, Drop(bindings, x), S)
    BY <2>1, <2>2, <2>3 DEF BindingsThere
  <2>4. SpareBindings(plan, Drop(bindings, x)) = SpareBindings(plan, bindings) \ {x}
    BY <2>1 DEF SpareBindings
  <2>5. QED
    BY <1>1, <1>4, <2>3, <2>4 DEF BindingsTrack, Left
<1>5. QED
  BY <1>1, <1>2, <1>3, <1>4, OtherKinds DEF Tracks

(***************************************************************************)
(* A call keeps to the plan.                                               *)
(***************************************************************************)
LEMMA CallConverges ==
    ASSUME CInv, IInv', NEW k \in Worker,
           \/ createRoleIfNeeded(k) \/ createServiceAccount(k) \/ createRoleBindingsForResource(k)
           \/ GarbageCollectServiceAccounts(k) \/ GarbageCollectRoles(k)
           \/ GarbageCollectRoleBindings(k) \/ GarbageCollectClusterRoleBindings(k)
    PROVE  CInv'
<1>1. ASSUME NEW op \in DOMAIN NextOp, NEW x, Call(k, op, x), requests \subseteq requests',
             ASSUME NEW n, n.pc = op, n.todo = job[k].todo \ {x}, job[k].plan = Seen,
                    Tracks(job[k], Seen, sas, roles, bindings)
             PROVE  Tracks(n, Seen, sas', roles', bindings')
      PROVE  CInv'
  <2> DEFINE j == [job[k] EXCEPT !.todo = @ \ {x}]
  <2>1. /\ job[k].pc = op
        /\ UNCHANGED <<wsas, created, checking, pending, retryQueue, served, mapped, disturbed,
                       unreported>>
    BY <1>1 DEF Call, engineMaps, ghosts
  <2>2. JobOK(job[k]) /\ JobsOK
    BY DEF CInv, IInv, JobsOK
  <2>3. job' = [job EXCEPT ![k] = j]
    BY <1>1, <2>2 DEF Call, JobsOK
  <2>4. /\ j.pc = op /\ j.plan = job[k].plan /\ j.todo = job[k].todo \ {x}
        /\ j.keys = job[k].keys /\ j.failed = job[k].failed
    BY <2>1, <2>2 DEF JobOK
  <2> HIDE DEF j
  <2>5. SameWSAs
    BY <2>1 DEF SameWSAs
  <2>6. job[k].pc \in Executing
    BY <2>1 DEF Executing
  <2>7. ASSUME job[k].plan = Seen, Tracks(job[k], Seen, sas, roles, bindings)
        PROVE  j.plan = Seen /\ Tracks(j, Seen, sas', roles', bindings')
    BY <1>1, <2>4, <2>7
  <2>8. QED
    BY <1>1, <2>1, <2>3, <2>4, <2>5, <2>6, <2>7, PlanKept
<1>2. CASE createRoleIfNeeded(k)
  <2>1. PICK w \in DOMAIN job[k].plan :
            /\ Call(k, "EnsureRoles", w) /\ roles' = Put(roles, RoleOf(job[k].plan, w), w)
            /\ UNCHANGED <<sas, bindings, requests>>
    BY <1>2 DEF createRoleIfNeeded
  <2>2. job[k].pc = "EnsureRoles" /\ w \in job[k].todo
    BY <2>1 DEF Call
  <2>3. ASSUME NEW n, n.pc = "EnsureRoles", n.todo = job[k].todo \ {w}, job[k].plan = Seen,
               Tracks(job[k], Seen, sas, roles, bindings)
        PROVE  Tracks(n, Seen, sas', roles', bindings')
    BY <2>1, <2>2, <2>3, EnsureTracks
  <2>4. QED
    BY <1>1, <2>1, <2>3, Places
<1>3. CASE createServiceAccount(k)
  <2>1. PICK a \in UniqueAccounts(job[k].plan) :
            /\ Call(k, "EnsureServiceAccounts", a) /\ sas' = sas \cup {a}
            /\ UNCHANGED <<roles, bindings, requests>>
    BY <1>3 DEF createServiceAccount
  <2>2. job[k].pc = "EnsureServiceAccounts" /\ a \in job[k].todo
    BY <2>1 DEF Call
  <2>3. ASSUME NEW n, n.pc = "EnsureServiceAccounts", n.todo = job[k].todo \ {a},
               job[k].plan = Seen, Tracks(job[k], Seen, sas, roles, bindings)
        PROVE  Tracks(n, Seen, sas', roles', bindings')
    BY <2>1, <2>2, <2>3, EnsureTracks
  <2>4. QED
    BY <1>1, <2>1, <2>3, Places
<1>4. CASE createRoleBindingsForResource(k)
  <2>1. PICK w \in DOMAIN job[k].plan :
            /\ Call(k, "EnsureRoleBindings", w)
            /\ bindings' = Put(bindings, BindingOf(job[k].plan, w), {job[k].plan[w].scope})
            /\ UNCHANGED <<sas, roles, requests>>
    BY <1>4 DEF createRoleBindingsForResource
  <2>2. job[k].pc = "EnsureRoleBindings" /\ w \in job[k].todo
    BY <2>1 DEF Call
  <2>3. ASSUME NEW n, n.pc = "EnsureRoleBindings", n.todo = job[k].todo \ {w},
               job[k].plan = Seen, Tracks(job[k], Seen, sas, roles, bindings)
        PROVE  Tracks(n, Seen, sas', roles', bindings')
    BY <2>1, <2>2, <2>3, EnsureTracks
  <2>4. QED
    BY <1>1, <2>1, <2>3, Places
<1>5. CASE GarbageCollectServiceAccounts(k)
  <2>1. PICK a \in job[k].todo :
            /\ Call(k, "GarbageCollectServiceAccounts", a) /\ sas' = sas \ {a}
            /\ requests \subseteq requests' /\ UNCHANGED <<roles, bindings>>
    BY <1>5 DEF GarbageCollectServiceAccounts, Enqueue
  <2>2. job[k].pc = "GarbageCollectServiceAccounts"
    BY <2>1 DEF Call
  <2>3. ASSUME NEW n, n.pc = "GarbageCollectServiceAccounts", n.todo = job[k].todo \ {a},
               job[k].plan = Seen, Tracks(job[k], Seen, sas, roles, bindings)
        PROVE  Tracks(n, Seen, sas', roles', bindings')
    BY <2>1, <2>2, <2>3, CollectTracks
  <2>4. QED
    BY <1>1, <2>1, <2>3, Places
<1>6. CASE GarbageCollectRoles(k)
  <2>1. PICK r \in job[k].todo :
            /\ Call(k, "GarbageCollectRoles", r) /\ roles' = Drop(roles, r)
            /\ requests \subseteq requests' /\ UNCHANGED <<sas, bindings>>
    BY <1>6 DEF GarbageCollectRoles, Enqueue
  <2>2. job[k].pc = "GarbageCollectRoles"
    BY <2>1 DEF Call
  <2>3. ASSUME NEW n, n.pc = "GarbageCollectRoles", n.todo = job[k].todo \ {r},
               job[k].plan = Seen, Tracks(job[k], Seen, sas, roles, bindings)
        PROVE  Tracks(n, Seen, sas', roles', bindings')
    BY <2>1, <2>2, <2>3, CollectTracks
  <2>4. QED
    BY <1>1, <2>1, <2>3, Places
<1>7. ASSUME NEW op \in {"GarbageCollectRoleBindings", "GarbageCollectClusterRoleBindings"},
             DeleteBinding(k, op)
      PROVE  CInv'
  <2>1. PICK b \in job[k].todo :
            /\ Call(k, op, b) /\ bindings' = Drop(bindings, b)
            /\ requests \subseteq requests' /\ UNCHANGED <<sas, roles>>
    BY <1>7 DEF DeleteBinding, Enqueue
  <2>2. job[k].pc = op
    BY <2>1 DEF Call
  <2>3. ASSUME NEW n, n.pc = op, n.todo = job[k].todo \ {b},
               job[k].plan = Seen, Tracks(job[k], Seen, sas, roles, bindings)
        PROVE  Tracks(n, Seen, sas', roles', bindings')
    BY <2>1, <2>2, <2>3, CollectTracks
  <2>4. QED
    BY <1>1, <2>1, <2>3, Places
<1>8. QED
  BY <1>2, <1>3, <1>4, <1>5, <1>6, <1>7
     DEF GarbageCollectRoleBindings, GarbageCollectClusterRoleBindings

-----------------------------------------------------------------------------
(***************************************************************************)
(* After the last operation nothing changes for the objects.               *)
(***************************************************************************)
LEMMA AllBehind ==
    ASSUME NEW j, NEW n, NEW plan, j.pc \in AfterClusterRoleBindings,
           n.pc \in AfterClusterRoleBindings, Tracks(j, plan, sas, roles, bindings)
    PROVE  Tracks(n, plan, sas, roles, bindings)
<1>1. \A op \in DOMAIN NextOp : Left(n, op) = {} /\ Left(j, op) = {}
  BY DEF Left, NextOp, AfterClusterRoleBindings
<1>2. QED
  BY <1>1, Places
     DEF Tracks, AccountsTrack, RolesTrack, BindingsTrack, AfterEnsureRoles,
         AfterEnsureAccounts, AfterEnsureBindings, AfterAccounts, AfterRoles, AfterRoleBindings,
         AfterClusterRoleBindings

(***************************************************************************)
(* The plan is published: it knows at least what the last one knew.        *)
(***************************************************************************)
LEMMA ApplyConverges ==
    ASSUME CInv, IInv', NEW k \in Worker, ApplyBatchPlan(k)
    PROVE  CInv'
<1> DEFINE j == [job[k] EXCEPT !.pc = "done"]
<1>1. /\ job[k].pc = "ApplyBatchPlan" /\ served' = job[k].plan /\ mapped' = DOMAIN job[k].plan
      /\ UNCHANGED <<wsas, created, sas, roles, bindings, requests, checking, pending,
                     retryQueue, disturbed, unreported>>
  BY DEF ApplyBatchPlan, cluster, queues, ghosts
<1>2. JobsOK /\ JobOK(job[k]) /\ ~job[k].failed /\ job[k].pc \notin PlansAgain \cup {"idle"}
  BY <1>1, Places DEF CInv, IInv, JobsOK, JobShape, PlansAgain
<1>3. job' = [job EXCEPT ![k] = j]
  BY <1>2 DEF ApplyBatchPlan, JobsOK
<1>4. j.pc = "done" /\ j.plan = job[k].plan /\ j.keys = job[k].keys /\ ~j.failed
  BY <1>2 DEF JobOK
<1> HIDE DEF j
<1>5. SameWSAs
  BY <1>1 DEF SameWSAs
<1>6. /\ job'[k] = j /\ \A i \in Worker \ {k} : job'[i] = job[i]
      /\ CheckingDeleting' /\ DeletionAwaited' /\ FinalizerAhead' /\ JobShape' /\ ListsOld'
  <2>1. \A w \in DOMAIN j.plan \cup DOMAIN served' : Listed(w)
    BY <1>1, <1>4 DEF Listed
  <2>2. QED
    BY <1>1, <1>3, <1>4, <1>5, <2>1, JobMoves
<1>7. ReadyCovered'
  <2>1. \A w : Covered(w) => Covered(w)'
    BY <1>1, <1>2, <1>3, <1>4, CoverStays
  <2>2. QED
    BY <1>1, <2>1, StillCovered
<1>8. ASSUME ~disturbed PROVE OneAtATime' /\ ListsNewer' /\ (~Ahead' => Settled')
  <2>1. KnowsMore(job[k], served)
    BY <1>2, <1>8, KnownBefore
  <2>2. KnowsMore(j, served')
    BY <1>1, <1>4 DEF KnowsMore
  <2>3. \A w \in DOMAIN served \cap DOMAIN wsas : ~wsas[w].deleting => w \in DOMAIN job[k].plan
    BY <1>1, <2>1 DEF KnowsMore, Executing
  <2>4. \A w \in DOMAIN wsas : ~wsas[w].deleting => (Listed(w)' <=> Listed(w))
    BY <1>1, <1>4, <1>6, <2>3 DEF Listed
  <2>5. SeenNames' = SeenNames /\ Seen' = Seen
    BY <1>5, <2>4, SameSeen
  <2>6. Ahead => Ahead'
    BY <1>1, <1>2, <1>3, <1>5, <2>5, AheadStays
  <2>7. ASSUME ~Ahead
        PROVE  Tracks(j, Seen, sas, roles, bindings) /\ PlanIs(j, Seen, served', mapped')
    <3>1. /\ Tracks(job[k], Seen, sas, roles, bindings)
          /\ PlanIs(job[k], Seen, served, mapped)
      BY <1>2, <1>8, <2>7, KnownBefore
    <3>2. Tracks(j, Seen, sas, roles, bindings)
      BY <1>1, <1>4, <3>1, AllBehind DEF AfterClusterRoleBindings
    <3>3. PlanIs(j, Seen, served', mapped')
      BY <1>1, <1>4, <3>1 DEF PlanIs
    <3>4. QED
      BY <3>2, <3>3
  <2>8. Ahead' \/ (Tracks(j, Seen', sas', roles', bindings') /\ PlanIs(j, Seen', served', mapped'))
    BY <1>1, <2>5, <2>6, <2>7
  <2>9. QED
    BY <1>2, <1>3, <1>5, <1>8, <2>2, <2>8, MainMoves
<1>9. Main'
  BY <1>1, <1>8 DEF Main
<1>10. QED
  BY <1>6, <1>7, <1>9 DEF CInv

(***************************************************************************)
(* A goroutine that is done with its batch becomes idle: its plan is what  *)
(* is published.                                                           *)
(***************************************************************************)
LEMMA BatchEnds ==
    ASSUME CInv, SameWSAs, NEW k \in Worker, job[k].pc = "done",
           job' = [job EXCEPT ![k] = Idle],
           UNCHANGED <<created, sas, roles, bindings, requests, checking, pending, retryQueue,
                       served, mapped, disturbed>>
    PROVE  Main'
<1>1. SUFFICES ASSUME ~disturbed PROVE OneAtATime' /\ ListsNewer' /\ (~Ahead' => Settled')
  BY DEF Main
<1>2. JobsOK /\ ~job[k].failed /\ job[k].pc \notin PlansAgain \cup {"idle"}
  BY Places DEF CInv, IInv, JobsOK, JobShape, PlansAgain
<1>3. job'[k] = Idle /\ \A i \in Worker \ {k} : job'[i] = job[i]
  BY <1>2 DEF JobsOK
<1>4. served = job[k].plan
  BY <1>1, <1>2, KnownBefore DEF KnowsMore
<1>5. \A w : Listed(w)' <=> Listed(w)
  BY <1>3, <1>4, IdleJob DEF Listed
<1>6. SeenNames' = SeenNames /\ Seen' = Seen
  BY <1>5, SameSeen
<1>7. Ahead => Ahead'
  BY <1>2, <1>6, AheadStays
<1>8. KnowsMore(Idle, served')
  BY IdleJob, Places DEF KnowsMore
<1>9. ASSUME ~Ahead
      PROVE  Tracks(Idle, Seen, sas, roles, bindings) /\ PlanIs(Idle, Seen, served, mapped)
  <2>1. Tracks(job[k], Seen, sas, roles, bindings) /\ PlanIs(job[k], Seen, served, mapped)
    BY <1>1, <1>2, <1>9, KnownBefore
  <2>2. Tracks(Idle, Seen, sas, roles, bindings)
    BY <2>1, IdleJob, AllBehind DEF AfterClusterRoleBindings
  <2>3. PlanIs(Idle, Seen, served, mapped)
    BY <2>1, IdleJob DEF PlanIs
  <2>4. QED
    BY <2>2, <2>3
<1>10. \/ Ahead'
       \/ Tracks(Idle, Seen', sas', roles', bindings') /\ PlanIs(Idle, Seen', served', mapped')
  BY <1>6, <1>7, <1>9
<1>11. QED
  BY <1>1, <1>2, <1>8, <1>10, MainMoves

(***************************************************************************)
(* The final conditions report the batch's WSAs ready.                     *)
(***************************************************************************)
LEMMA FinalConverges ==
    ASSUME CInv, IInv', NEW k \in Worker, updateFinalConditions(k)
    PROVE  CInv'
<1>1. /\ job[k].pc = "done" /\ UpdateCondition(job[k].keys, "True")
      /\ job' = [job EXCEPT ![k] = Idle] /\ unreported' = unreported \ job[k].keys
      /\ UNCHANGED <<created, sas, roles, bindings, requests, checking, pending, retryQueue,
                     served, mapped, disturbed>>
  BY DEF updateFinalConditions, cluster, queues, engineMaps
<1>2. SameWSAs
  BY <1>1, StatusWrites DEF CInv, IInv
<1>3. /\ job'[k] = Idle /\ \A i \in Worker \ {k} : job'[i] = job[i]
      /\ CheckingDeleting' /\ DeletionAwaited' /\ FinalizerAhead' /\ JobShape' /\ ListsOld'
  <2>1. \A w \in DOMAIN Idle.plan \cup DOMAIN served' : Listed(w)
    BY <1>1, IdleJob DEF Listed
  <2>2. QED
    BY <1>1, <1>2, <2>1, IdleJob, JobMoves
<1>4. ReadyCovered'
  <2>1. \A w \in DOMAIN wsas' : w \in DOMAIN wsas /\ (w \notin job[k].keys => wsas'[w] = wsas[w])
    BY <1>1 DEF UpdateCondition
  <2>2. ASSUME NEW w \in DOMAIN wsas', w \in job[k].keys
        PROVE  wsas'[w].ready = "True" /\ wsas'[w].observed
    <3>1. w \in DOMAIN wsas /\ wsas[w] \in WSARecord
      BY <2>1 DEF CInv, IInv, WSAsOK
    <3>2. wsas'[w] = [wsas[w] EXCEPT !.byController = TRUE, !.ready = "True", !.observed = TRUE]
      BY <1>1, <2>2, <3>1 DEF UpdateCondition
    <3>3. wsas'[w].ready = "True" /\ wsas'[w].observed = TRUE
      BY <3>1, <3>2 DEF WSARecord
    <3>4. QED
      BY <3>3
  <2>3. \A w : Covered(w) /\ w \notin job[k].keys => Covered(w)'
    BY <1>1, <1>3 DEF Covered
  <2>4. QED
    BY <2>1, <2>2, <2>3, StillCovered
<1>5. Main'
  BY <1>1, <1>2, BatchEnds
<1>6. QED
  BY <1>3, <1>4, <1>5 DEF CInv

(***************************************************************************)
(* After a batch is given up the maps are rebuilt and the batch's WSAs are *)
(* events again.  Until then a plan is ahead, and if none of them is left  *)
(* the claim is given up.                                                  *)
(***************************************************************************)
LEMMA RebuildConverges ==
    ASSUME CInv, IInv', NEW k \in Worker,
           RebuildStateFromCluster(k) \/ SwapState(k) \/ requeueFailedResources(k)
    PROVE  CInv'
<1>1. /\ JobsOK /\ JobOK(job[k]) /\ ~job[k].failed /\ job[k].pc # "idle"
      /\ UNCHANGED <<wsas, created, sas, roles, bindings, requests, checking, retryQueue,
                     unreported>>
  BY Places DEF RebuildStateFromCluster, SwapState, requeueFailedResources, cluster, queues,
                ghosts, CInv, IInv, JobsOK, JobShape, PlansAgain
<1>2. SameWSAs
  BY <1>1 DEF SameWSAs
<1>3. ASSUME NEW j, job' = [job EXCEPT ![k] = j], j.pc \in {"idle", "swap", "requeue"},
             j.pc = "idle" => j = Idle, ~j.failed,
             \A w \in DOMAIN j.plan \cup DOMAIN served' : w \in DOMAIN wsas \/ Listed(w),
             disturbed => disturbed', ~disturbed' => Ahead',
             \A w \in DOMAIN wsas : Covered(w) => Covered(w)'
      PROVE  CInv'
  <2>1. CheckingDeleting' /\ DeletionAwaited' /\ FinalizerAhead' /\ JobShape' /\ ListsOld'
    BY <1>1, <1>2, <1>3, JobMoves
  <2>2. ReadyCovered'
    BY <1>1, <1>3, StillCovered
  <2>3. KnowsMore(j, served')
    BY <1>3 DEF KnowsMore, Executing, NextOp
  <2>4. ASSUME ~disturbed' PROVE OneAtATime' /\ ListsNewer' /\ Ahead'
    BY <1>1, <1>2, <1>3, <2>3, <2>4, MainMoves
  <2>5. QED
    BY <2>1, <2>2, <2>4 DEF CInv, Main
<1>4. CASE RebuildStateFromCluster(k)
  <2> DEFINE j == [job[k] EXCEPT !.plan = Live, !.pc = "swap"]
  <2>1. job' = [job EXCEPT ![k] = j] /\ UNCHANGED <<pending, served, disturbed>>
    BY <1>1, <1>4 DEF RebuildStateFromCluster, queues, engineMaps, ghosts, JobsOK
  <2>2. j.pc = "swap" /\ j.plan = Live /\ j.keys = job[k].keys /\ ~j.failed
    BY <1>1 DEF JobOK
  <2> HIDE DEF j
  <2>3. \A w \in DOMAIN j.plan \cup DOMAIN served' : w \in DOMAIN wsas \/ Listed(w)
    BY <2>1, <2>2 DEF Live, Listed
  <2>4. \A w : Covered(w) => Covered(w)'
    BY <1>1, <2>1, <2>2, CoverStays
  <2>5. Ahead'
    <3>1. job'[k] = j
      BY <1>1, <2>1 DEF JobsOK
    <3>2. QED
      BY <2>2, <3>1 DEF Ahead, PlansAgain
  <2>6. QED
    BY <1>3, <2>1, <2>2, <2>3, <2>4, <2>5
<1>5. CASE SwapState(k)
  <2> DEFINE j == [job[k] EXCEPT !.pc = "requeue"]
  <2>1. job' = [job EXCEPT ![k] = j] /\ served' = job[k].plan /\ UNCHANGED <<pending, disturbed>>
    BY <1>1, <1>5 DEF SwapState, queues, ghosts, JobsOK
  <2>2. j.pc = "requeue" /\ j.plan = job[k].plan /\ j.keys = job[k].keys /\ ~j.failed
    BY <1>1 DEF JobOK
  <2> HIDE DEF j
  <2>3. \A w \in DOMAIN j.plan \cup DOMAIN served' : Listed(w)
    BY <2>1, <2>2 DEF Listed
  <2>4. \A w : Covered(w) => Covered(w)'
    BY <1>1, <2>1, <2>2, CoverStays
  <2>5. Ahead'
    <3>1. job'[k] = j
      BY <1>1, <2>1 DEF JobsOK
    <3>2. QED
      BY <2>2, <3>1 DEF Ahead, PlansAgain
  <2>6. QED
    BY <1>3, <2>1, <2>2, <2>3, <2>4, <2>5
<1>6. CASE requeueFailedResources(k)
  <2>1. /\ job' = [job EXCEPT ![k] = Idle] /\ served' = served
        /\ pending' = pending \cup (job[k].keys \cap DOMAIN wsas)
        /\ disturbed' = (disturbed \/ job[k].keys \cap DOMAIN wsas = {})
    BY <1>6 DEF requeueFailedResources, Disturb, engineMaps
  <2>2. \A w \in DOMAIN Idle.plan \cup DOMAIN served' : Listed(w)
    BY <2>1, IdleJob DEF Listed
  <2>3. \A w \in DOMAIN wsas : Covered(w) => Covered(w)'
    <3>1. \A w \in job[k].keys \cap DOMAIN wsas : Covered(w)'
      BY <2>1 DEF Covered
    <3>2. \A w : Covered(w) => Covered(w)' \/ w \in job[k].keys
      BY <1>1, <2>1, CoverStays
    <3>3. QED
      BY <3>1, <3>2
  <2>4. ~disturbed' => Ahead'
    BY <2>1 DEF Ahead
  <2>5. QED
    BY <1>3, <2>1, <2>2, <2>3, <2>4, IdleJob
<1>7. QED
  BY <1>4, <1>5, <1>6

(***************************************************************************)
(* Failures.  A call that fails makes the batch fail in the end.  A        *)
(* rebuild that fails gives up the claim, a status write that fails the    *)
(* report only.                                                            *)
(***************************************************************************)
LEMMA FailureConverges ==
    ASSUME CInv, IInv', NEW k \in Worker,
           CallFails(k) \/ StageFails(k) \/ RebuildOrStatusFails(k)
    PROVE  CInv'
<1>1. JobsOK /\ JobOK(job[k]) /\ (job[k].failed => job[k].pc \in DOMAIN NextOp)
  BY DEF CInv, IInv, JobsOK, JobShape
<1>2. CASE CallFails(k)
  <2>1. /\ job[k].pc \in DOMAIN NextOp
        /\ UNCHANGED <<wsas, created, sas, roles, bindings, requests, checking, pending,
                       retryQueue, served, mapped, disturbed, unreported>>
    BY <1>2 DEF CallFails, cluster, queues, engineMaps, ghosts
  <2>2. PICK x \in job[k].todo : job' = [job EXCEPT ![k].todo = @ \ {x}, ![k].failed = TRUE]
    BY <1>2 DEF CallFails
  <2> DEFINE j == [job[k] EXCEPT !.todo = @ \ {x}, !.failed = TRUE]
  <2>3. job' = [job EXCEPT ![k] = j]
    BY <1>1, <2>2 DEF JobsOK
  <2>4. j.pc = job[k].pc /\ j.plan = job[k].plan /\ j.keys = job[k].keys /\ j.failed
    BY <1>1 DEF JobOK
  <2> HIDE DEF j
  <2>5. SameWSAs /\ job[k].pc \in Executing
    BY <2>1 DEF SameWSAs, Executing
  <2>6. QED
    BY <2>1, <2>3, <2>4, <2>5, PlanKept
<1>3. CASE StageFails(k)
  <2>1. /\ job[k].pc # "idle" /\ FailBatch(k)
        /\ UNCHANGED <<created, requests, checking, pending, served, disturbed, unreported>>
    BY <1>3, Places DEF StageFails, engineMaps, ghosts
  <2>2. QED
    BY <2>1, FailBatchConverges
<1>4. CASE RebuildOrStatusFails(k)
  <2>1. /\ job[k].pc \in {"rebuild", "done"} /\ job' = [job EXCEPT ![k] = Idle]
        /\ disturbed' = (disturbed \/ job[k].pc = "rebuild")
        /\ unreported' = unreported \cup job[k].keys
        /\ UNCHANGED <<wsas, created, sas, roles, bindings, requests, checking, pending,
                       retryQueue, served, mapped>>
    BY <1>4 DEF RebuildOrStatusFails, Disturb, cluster, queues, engineMaps
  <2>2. SameWSAs
    BY <2>1 DEF SameWSAs
  <2>3. CheckingDeleting' /\ DeletionAwaited' /\ FinalizerAhead' /\ JobShape' /\ ListsOld'
    <3>1. \A w \in DOMAIN Idle.plan \cup DOMAIN served' : Listed(w)
      BY <2>1, IdleJob DEF Listed
    <3>2. QED
      BY <2>1, <2>2, <3>1, IdleJob, JobMoves
  <2>4. ReadyCovered'
    <3>1. \A w \in job[k].keys : Covered(w)'
      BY <2>1 DEF Covered
    <3>2. \A w : Covered(w) => Covered(w)' \/ w \in job[k].keys
      BY <1>1, <2>1, CoverStays
    <3>3. QED
      BY <2>1, <3>1, <3>2, StillCovered
  <2>5. Main'
    <3>1. CASE job[k].pc = "rebuild"
      BY <2>1, <3>1 DEF Main
    <3>2. CASE job[k].pc = "done"
      <4>1. disturbed' = disturbed
        BY <2>1, <3>2 DEF CInv, IInv, GhostsOK
      <4>2. QED
        BY <2>1, <2>2, <3>2, <4>1, BatchEnds
    <3>3. QED
      BY <2>1, <3>1, <3>2
  <2>6. QED
    BY <2>3, <2>4, <2>5 DEF CInv
<1>5. QED
  BY <1>2, <1>3, <1>4

(***************************************************************************)
(* A new leader reconciles every WSA.  If there is none, the claim is      *)
(* given up.                                                               *)
(***************************************************************************)
LEMMA RestartConverges ==
    ASSUME CInv, IInv', Restart
    PROVE  CInv'
<1>1. /\ requests' = DOMAIN wsas /\ checking' = {} /\ served' = Live
      /\ \A k \in Worker : job'[k] = Idle
      /\ disturbed' = (disturbed \/ DOMAIN wsas = {})
      /\ UNCHANGED <<wsas, created>>
  BY DEF Restart, Disturb
<1>2. CheckingDeleting' /\ DeletionAwaited' /\ FinalizerAhead' /\ JobShape'
  BY <1>1, IdleJob DEF CheckingDeleting, DeletionAwaited, FinalizerAhead, JobShape
<1>3. \A w : Listed(w)' <=> w \in DOMAIN Live
  BY <1>1, IdleJob DEF Listed
<1>4. ListsOld'
  BY <1>1, <1>3 DEF ListsOld, Live, CInv, IInv, WSAsOK
<1>5. ReadyCovered'
  BY <1>1 DEF ReadyCovered, Covered
<1>6. OneAtATime' /\ ListsNewer'
  BY <1>1, IdleJob, Places DEF OneAtATime, ListsNewer, KnowsMore
<1>7. ASSUME NEW w \in DOMAIN wsas PROVE Ahead'
  <2>1. w \in requests' \ checking' /\ w \in DOMAIN wsas'
    BY <1>1
  <2>2. wsas'[w].deleting \/ w \in SeenNames'
    BY <1>1, <1>3 DEF SeenNames, Live
  <2>3. QED
    BY <2>1, <2>2 DEF Ahead
<1>8. Main'
  BY <1>1, <1>6, <1>7 DEF Main
<1>9. QED
  BY <1>2, <1>4, <1>5, <1>8 DEF CInv

(***************************************************************************)
(* Nothing exists and nothing is to be done.                               *)
(***************************************************************************)
LEMMA InitConverges == Init => CInv
<1> SUFFICES ASSUME Init PROVE CInv
  OBVIOUS
<1>1. IInv
  BY InitInvariant
<1>2. /\ wsas = Nothing /\ DOMAIN wsas = {} /\ sas = {} /\ roles = Nothing /\ bindings = Nothing
      /\ DOMAIN roles = {} /\ DOMAIN bindings = {} /\ served = Nothing /\ DOMAIN served = {}
      /\ mapped = {} /\ checking = {} /\ \A k \in Worker : job[k] = Idle
  BY DEF Init, Nothing
<1>3. CheckingDeleting /\ DeletionAwaited /\ FinalizerAhead /\ JobShape /\ ReadyCovered
  BY <1>2, IdleJob DEF CheckingDeleting, DeletionAwaited, FinalizerAhead, JobShape, ReadyCovered
<1>4. ListsOld
  BY <1>2, IdleJob DEF ListsOld, Listed
<1>5. OneAtATime /\ ListsNewer
  BY <1>2, IdleJob, Places DEF OneAtATime, ListsNewer, KnowsMore
<1>6. Seen = Nothing
  BY <1>2 DEF Seen, SeenNames, Nothing
<1>7. DOMAIN Seen = {} /\ UniqueAccounts(Seen) = {}
  BY <1>6 DEF Nothing, UniqueAccounts
<1>8. Tracks(Idle, Seen, sas, roles, bindings)
  <2>1. \A op \in DOMAIN NextOp : Left(Idle, op) = {}
    BY IdleJob, Places DEF Left
  <2>2. AccountsTrack(Idle, Seen, sas)
    BY <1>2, <1>7, <2>1, Places DEF AccountsTrack
  <2>3. RolesTrack(Idle, Seen, roles)
    BY <1>2, <1>7, <2>1, Places DEF RolesTrack, RolesThere, SpareRoles
  <2>4. BindingsTrack(Idle, Seen, bindings)
    BY <1>2, <1>7, <2>1, Places DEF BindingsTrack, BindingsThere, SpareBindings
  <2>5. QED
    BY <2>2, <2>3, <2>4 DEF Tracks
<1>9. PlanIs(Idle, Seen, served, mapped)
  BY <1>2, <1>6, <1>7, IdleJob DEF PlanIs
<1>10. Settled
  BY <1>2, <1>8, <1>9 DEF Settled
<1>11. QED
  BY <1>1, <1>3, <1>4, <1>5, <1>10 DEF CInv, Main

(***************************************************************************)
(* Every step keeps the invariant.                                         *)
(***************************************************************************)
LEMMA NextConverges == CInv /\ [Next]_vars => CInv'
<1> SUFFICES ASSUME CInv, [Next]_vars PROVE CInv'
  OBVIOUS
<1>1. IInv'
  BY NextInvariant DEF CInv
<1>2. CASE UNCHANGED vars
  BY <1>1, <1>2, ObjectsChange DEF vars, cluster, queues, engineMaps, ghosts
<1>3. ASSUME NEW w \in Name, NEW spec \in SpecChoice, CreateWSA(w, spec) \/ UpdateWSA(w, spec)
      PROVE  CInv'
  BY <1>1, <1>3, CreateConverges, UpdateConverges
<1>4. ASSUME NEW w \in Name, DeleteWSA(w) \/ Reconcile(w) \/ handleDeletion(w) \/ Resync(w)
      PROVE  CInv'
  BY <1>1, <1>4, DeleteConverges, ReconcileConverges, ResyncConverges
<1>5. CASE Drift \/ KubernetesGC \/ \E a \in Scopes : CreateAccount(a)
  BY <1>1, <1>5, OthersConverge
<1>6. CASE TakeBatch \/ TakeRetry
  BY <1>1, <1>6, TakeConverges
<1>7. ASSUME NEW k \in Worker, Work(k) PROVE CInv'
  BY <1>1, <1>7, PlanningConverges, ValidationConverges, CallConverges, FinishOpConverges,
     ApplyConverges, FinalConverges, RebuildConverges DEF Work
<1>8. ASSUME NEW k \in Worker, CallFails(k) \/ StageFails(k) \/ RebuildOrStatusFails(k)
      PROVE  CInv'
  BY <1>1, <1>8, FailureConverges
<1>9. CASE Restart
  BY <1>1, <1>9, RestartConverges
<1>10. QED
  BY <1>2, <1>3, <1>4, <1>5, <1>6, <1>7, <1>8, <1>9 DEF Next

(***************************************************************************)
(* When the work is done, all is known of the cluster that the tracks say. *)
(***************************************************************************)
LEMMA QuiescentConverges == CInv => Converges
<1> SUFFICES ASSUME CInv, Quiescent, ~disturbed PROVE Converges
  BY DEF Converges
<1>1. requests = {} /\ checking = {} /\ \A k \in Worker : job[k] = Idle
  BY DEF Quiescent
<1>2. ~Ahead
  BY <1>1, IdleJob, Places DEF Quiescent, Ahead
<1>3. "main" \in Worker
  BY DEF Worker
<1>4. Tracks(Idle, Seen, sas, roles, bindings) /\ PlanIs(Idle, Seen, served, mapped)
  BY <1>1, <1>2, <1>3 DEF CInv, Main, Settled, Alone
<1>5. Seen = Live
  <2>1. SeenNames = {w \in DOMAIN wsas : ~wsas[w].deleting}
    BY <1>1 DEF CInv, FinalizerAhead, SeenNames
  <2>2. QED
    BY <2>1 DEF Seen, Live
<1>6. \A op \in DOMAIN NextOp : Left(Idle, op) = {}
  BY IdleJob, Places DEF Left
<1>7. /\ "idle" \in AfterClusterRoleBindings /\ "idle" \in AfterRoleBindings
      /\ "idle" \in AfterRoles /\ "idle" \in AfterAccounts /\ "idle" \in AfterEnsureBindings
      /\ "idle" \in AfterEnsureAccounts /\ "idle" \in AfterEnsureRoles
  BY DEF AfterEnsureRoles, AfterEnsureAccounts, AfterEnsureBindings, AfterAccounts, AfterRoles,
         AfterRoleBindings, AfterClusterRoleBindings
<1>8. sas = UniqueAccounts(Live)
  <2>1. AccountsTrack(Idle, Live, sas)
    BY <1>4, <1>5 DEF Tracks
  <2>2. UniqueAccounts(Live) \subseteq sas /\ sas \subseteq UniqueAccounts(Live)
    BY <1>6, <1>7, <2>1, IdleJob, Places DEF AccountsTrack
  <2>3. QED
    BY <2>2
<1>9. RolesThere(Live, roles, DOMAIN Live) /\ SpareRoles(Live, roles) = {}
  <2>1. RolesTrack(Idle, Live, roles)
    BY <1>4, <1>5 DEF Tracks
  <2>2. DOMAIN Live \ {} = DOMAIN Live
    OBVIOUS
  <2>3. QED
    BY <1>6, <1>7, <2>1, <2>2, IdleJob, Places DEF RolesTrack
<1>10. BindingsThere(Live, bindings, DOMAIN Live) /\ SpareBindings(Live, bindings) = {}
  <2>1. BindingsTrack(Idle, Live, bindings)
    BY <1>4, <1>5 DEF Tracks
  <2>2. DOMAIN Live \ {} = DOMAIN Live
    OBVIOUS
  <2>3. QED
    BY <1>6, <1>7, <2>1, <2>2, IdleJob, Places DEF BindingsTrack
<1>11. ExpectedRoles(Live) \subseteq DOMAIN roles
  BY <1>9 DEF RolesThere, ExpectedRoles
<1>12. {r \in DOMAIN roles : r.kind = "Role"} = {r \in ExpectedRoles(Live) : r.kind = "Role"}
  BY <1>9, <1>11 DEF SpareRoles
<1>13. DOMAIN bindings = ExpectedBindings(Live)
  BY <1>10 DEF BindingsThere, SpareBindings, ExpectedBindings
<1>14. \A b \in DOMAIN bindings : bindings[b] = {Live[b.wsa].scope}
  <2>1. \A w \in DOMAIN Live : BindingOf(Live, w).wsa = w
    BY DEF BindingOf
  <2>2. QED
    BY <1>10, <1>13, <2>1 DEF BindingsThere, ExpectedBindings
<1>15. served = Live /\ mapped = DOMAIN Live
  BY <1>4, <1>5, IdleJob DEF PlanIs
<1>16. QED
  BY <1>8, <1>11, <1>12, <1>13, <1>14, <1>15 DEF Converges

(***************************************************************************)
(* When the work is done, nothing covers a WSA that is not reported ready. *)
(***************************************************************************)
LEMMA QuiescentReported == CInv => ReportedReady
<1> SUFFICES ASSUME CInv, Quiescent, NEW w \in DOMAIN Live \ unreported
             PROVE  wsas[w].ready = "True" /\ wsas[w].observed
  BY DEF ReportedReady
<1>1. w \in DOMAIN wsas /\ ~wsas[w].deleting
  BY DEF Live
<1>2. ~Covered(w)
  BY IdleJob DEF Quiescent, Covered
<1>3. QED
  BY <1>1, <1>2 DEF CInv, ReadyCovered

-----------------------------------------------------------------------------
(***************************************************************************)
(* The inductive invariant holds: something that will make a batch list    *)
(* the WSAs again is ahead, or the cluster and the maps are, operation by  *)
(* operation, what the last list needs.                                    *)
(***************************************************************************)
THEOREM ConvergenceInvariant == Spec => []CInv
<1>1. CInv /\ [Next]_vars => CInv'
  BY NextConverges
<1>2. QED
  BY <1>1, InitConverges, PTL DEF Spec

(***************************************************************************)
(* Whenever the control loop has nothing left to do, the accounts, the     *)
(* roles, the bindings and the engine's maps are those of the WSAs that    *)
(* exist, whatever failed, was retried, given up, restarted or changed by  *)
(* others on the way (handlePermanentFailure, processBatchWithRetry, the   *)
(* garbage collectors and the watches of the controllers together).        *)
(***************************************************************************)
THEOREM LoopConverges == Spec => []Converges
<1>1. CInv => Converges
  BY QuiescentConverges
<1>2. QED
  BY <1>1, ConvergenceInvariant, PTL

(***************************************************************************)
(* Whenever the control loop has nothing left to do, every WSA is reported *)
(* ready for its generation (updateFinalConditions), two batches at once   *)
(* included, but for those whose report failed.                            *)
(***************************************************************************)
THEOREM ReadyReported == Spec => []ReportedReady
<1>1. CInv => ReportedReady
  BY QuiescentReported
<1>2. QED
  BY <1>1, ConvergenceInvariant, PTL
(***************************************************************************)
(* A WSA that is being deleted always has its next Reconcile before it     *)
(* (handleDeletion requeues it while it is in the maps): nothing a batch,  *)
(* a retry or a restart does makes the controller forget it.               *)
(***************************************************************************)
THEOREM DeletionsRemembered == Spec => []DeletionAwaited
<1>1. CInv => DeletionAwaited
  BY DEF CInv
<1>2. QED
  BY <1>1, ConvergenceInvariant, PTL

-----------------------------------------------------------------------------
\* What a batch j has done for its own accounts, whatever has become of the
\* WSAs it was planned for: those it has ensured are there, and those it is
\* going to collect are not its own.
AccountsKept(j, accounts) ==
    /\ j.pc \in {"EnsureServiceAccounts"} \cup AfterEnsureAccounts =>
           UniqueAccounts(j.plan) \ Left(j, "EnsureServiceAccounts") \subseteq accounts
    /\ Left(j, "GarbageCollectServiceAccounts") \cap UniqueAccounts(j.plan) = {}

\* A batch with a call that failed will fail and claims nothing.
AccountsInv ==
    /\ bounds.drifts \in Nat
    /\ ~disturbed /\ bounds.drifts = 0 =>
           \A k \in Worker : job[k].failed \/ AccountsKept(job[k], sas)

(***************************************************************************)
(* A job without a plan needs no accounts, and one that has no operation   *)
(* under way claims none.                                                  *)
(***************************************************************************)
LEMMA NoAccounts ==
    /\ \A accounts : AccountsKept(Idle, accounts)
    /\ \A j, accounts : j.pc \in {"validation", "planning", "rebuild", "swap", "requeue"} =>
                            AccountsKept(j, accounts)
<1>1. UniqueAccounts(Nothing) = {}
  BY DEF Nothing, UniqueAccounts
<1>2. \A accounts : AccountsKept(Idle, accounts)
  BY <1>1, IdleJob DEF AccountsKept
<1>3. \A j, accounts : j.pc \in {"validation", "planning", "rebuild", "swap", "requeue"} =>
                           AccountsKept(j, accounts)
  BY DEF AccountsKept, Left, AfterEnsureAccounts, AfterEnsureBindings, AfterAccounts, AfterRoles,
         AfterRoleBindings, AfterClusterRoleBindings
<1>4. QED
  BY <1>2, <1>3

(***************************************************************************)
(* A goroutine takes a step: under the claim the other one is idle.        *)
(***************************************************************************)
LEMMA AccountsMove ==
    ASSUME CInv, AccountsInv, NEW k \in Worker, job[k].pc # "idle",
           NEW j, job' = [job EXCEPT ![k] = j],
           disturbed => disturbed', bounds'.drifts = bounds.drifts,
           job[k].failed \/ AccountsKept(job[k], sas) => j.failed \/ AccountsKept(j, sas')
    PROVE  AccountsInv'
<1>1. DOMAIN job = Worker
  BY DEF CInv, IInv, JobsOK
<1>2. ASSUME ~disturbed', bounds'.drifts = 0, NEW i \in Worker
      PROVE  job'[i].failed \/ AccountsKept(job'[i], sas')
  <2>1. CASE i = k
    BY <1>1, <1>2, <2>1 DEF AccountsInv
  <2>2. CASE i # k
    <3>1. job'[i] = Idle
      BY <1>1, <1>2, <2>2, KnownBefore
    <3>2. QED
      BY <3>1, NoAccounts
  <2>3. QED
    BY <2>1, <2>2
<1>3. \A i \in Worker : AccountsKept(job'[i], sas') => AccountsKept(job[i], sas)'
  BY DEF AccountsKept, UniqueAccounts, Left
<1>4. QED
  BY <1>2, <1>3 DEF AccountsInv

(***************************************************************************)
(* Steps of users, reconcilers and Kubernetes touch neither managed        *)
(* accounts nor jobs, and a drift ends the claim.                          *)
(***************************************************************************)
LEMMA OtherAccounts ==
    ASSUME AccountsInv,
           \/ \E w \in Name, spec \in SpecChoice : CreateWSA(w, spec) \/ UpdateWSA(w, spec)
           \/ \E w \in Name : DeleteWSA(w) \/ Reconcile(w) \/ handleDeletion(w) \/ Resync(w)
           \/ Drift \/ KubernetesGC \/ (\E a \in Scopes : CreateAccount(a)) \/ UNCHANGED vars
    PROVE  AccountsInv'
<1>1. ASSUME UNCHANGED <<sas, job>>, disturbed => disturbed', bounds'.drifts = bounds.drifts
      PROVE  AccountsInv'
  BY <1>1 DEF AccountsInv, AccountsKept, UniqueAccounts, Left
<1>2. CASE Drift
  <2>1. bounds'.drifts = bounds.drifts + 1
    BY <1>2 DEF Drift
  <2>2. QED
    BY <2>1 DEF AccountsInv
<1>3. ASSUME bounds' = [bounds EXCEPT !["changes"] = @ + 1] PROVE bounds'.drifts = bounds.drifts
  BY <1>3
<1>4. ASSUME NEW w \in Name, NEW spec \in SpecChoice, CreateWSA(w, spec) \/ UpdateWSA(w, spec)
      PROVE  AccountsInv'
  BY <1>1, <1>3, <1>4 DEF CreateWSA, UpdateWSA, Count, cluster, ghosts
<1>5. ASSUME NEW w \in Name, DeleteWSA(w) PROVE AccountsInv'
  BY <1>1, <1>3, <1>5 DEF DeleteWSA, Count, Disturb, cluster
<1>6. ASSUME NEW w \in Name, Reconcile(w) \/ handleDeletion(w) \/ Resync(w) PROVE AccountsInv'
  BY <1>1, <1>6 DEF Reconcile, ReconcileGone, ReconcileDeleting, ReconcileLive, handleDeletion,
                    Resync, cluster, ghosts
<1>7. CASE KubernetesGC
  BY <1>1, <1>7 DEF KubernetesGC, ghosts
<1>8. CASE UNCHANGED vars
  BY <1>1, <1>8 DEF vars, cluster, ghosts
<1>9. ASSUME NEW a \in Scopes, CreateAccount(a) PROVE AccountsInv'
  <2>1. bounds' = [bounds EXCEPT !["claims"] = @ + 1]
    BY <1>9 DEF CreateAccount, Count
  <2>2. bounds'.drifts = bounds.drifts
    BY <2>1
  <2>3. QED
    BY <1>1, <1>9, <2>2 DEF CreateAccount, ghosts
<1>10. QED
  BY <1>2, <1>4, <1>5, <1>6, <1>7, <1>8, <1>9

(***************************************************************************)
(* A batch that is taken, fails or ends, and a new leader, claim nothing.  *)
(***************************************************************************)
LEMMA NewAccounts ==
    ASSUME CInv, AccountsInv,
           \/ TakeBatch \/ TakeRetry \/ Restart
           \/ \E k \in Worker : \/ FailBatch(k) /\ job[k].pc # "idle"
                                   /\ UNCHANGED <<sas, disturbed>>
                                   /\ bounds'.drifts = bounds.drifts
                                \/ updateFinalConditions(k) \/ requeueFailedResources(k)
                                \/ RebuildOrStatusFails(k)
    PROVE  AccountsInv'
<1>1. JobsOK
  BY DEF CInv, IInv
<1>2. ASSUME NEW k \in Worker, job[k].pc # "idle", NEW j, job' = [job EXCEPT ![k] = j],
             j = Idle \/ j.pc = "rebuild",
             disturbed => disturbed', bounds'.drifts = bounds.drifts
      PROVE  AccountsInv'
  <2>1. AccountsKept(j, sas')
    BY <1>2, NoAccounts
  <2>2. QED
    BY <1>2, <2>1, AccountsMove
<1>3. ASSUME NEW k \in Worker, NEW keys, NEW fails, Take(k, keys, fails), bounds' = bounds
      PROVE  AccountsInv'
  <2> DEFINE j == NewJob("planning", keys, fails)
  <2>1. job'[k] = j /\ j.pc = "planning" /\ \A i \in Worker \ {k} : job'[i] = job[i]
    BY <1>1, <1>3 DEF Take, NewJob, JobsOK
  <2> HIDE DEF j
  <2>2. ~disturbed' => \A i \in Worker \ {k} : job'[i] = Idle
    BY <1>3, <2>1 DEF Take
  <2>3. ~disturbed' => \A i \in Worker : AccountsKept(job'[i], sas')
    BY <2>1, <2>2, NoAccounts
  <2>4. \A i \in Worker : AccountsKept(job'[i], sas') => AccountsKept(job[i], sas)'
    BY DEF AccountsKept, UniqueAccounts, Left
  <2>5. QED
    BY <1>3, <2>3, <2>4 DEF AccountsInv
<1>4. CASE TakeBatch
  BY <1>3, <1>4 DEF TakeBatch, Worker
<1>5. CASE TakeRetry
  BY <1>3, <1>5 DEF TakeRetry, Worker
<1>6. CASE Restart
  <2>1. \A i \in Worker : AccountsKept(job'[i], sas')
    BY <1>6, NoAccounts DEF Restart
  <2>2. \A i \in Worker : AccountsKept(job'[i], sas') => AccountsKept(job[i], sas)'
    BY DEF AccountsKept, UniqueAccounts, Left
  <2>3. bounds'.drifts = bounds.drifts
    BY <1>6 DEF Restart, Count
  <2>4. QED
    BY <2>1, <2>2, <2>3 DEF AccountsInv
<1>7. ASSUME NEW k \in Worker, FailBatch(k), job[k].pc # "idle", UNCHANGED <<sas, disturbed>>,
             bounds'.drifts = bounds.drifts
      PROVE  AccountsInv'
  <2>1. CASE job[k].fails + 1 <= MaxRetries
    BY <1>2, <1>7, <2>1 DEF FailBatch
  <2>2. CASE ~(job[k].fails + 1 <= MaxRetries)
    <3>1. /\ job' = [job EXCEPT ![k] = NewJob("rebuild", job[k].keys, 0)]
          /\ NewJob("rebuild", job[k].keys, 0).pc = "rebuild"
      BY <1>7, <2>2 DEF FailBatch, NewJob
    <3>2. QED
      BY <1>2, <1>7, <3>1
  <2>3. QED
    BY <2>1, <2>2
<1>8. ASSUME NEW k \in Worker, updateFinalConditions(k) \/ requeueFailedResources(k)
      PROVE  AccountsInv'
  <2>1. job[k].pc # "idle" /\ job' = [job EXCEPT ![k] = Idle] /\ bounds' = bounds
    BY <1>8 DEF updateFinalConditions, requeueFailedResources
  <2>2. disturbed => disturbed'
    BY <1>8, Zenon DEF updateFinalConditions, requeueFailedResources, Disturb
  <2>3. QED
    BY <1>2, <2>1, <2>2
<1>9. ASSUME NEW k \in Worker, RebuildOrStatusFails(k) PROVE AccountsInv'
  <2>1. bounds'.drifts = bounds.drifts
    BY <1>9 DEF RebuildOrStatusFails, Count
  <2>2. QED
    BY <1>2, <1>9, <2>1 DEF RebuildOrStatusFails, Disturb
<1>10. QED
  BY <1>4, <1>5, <1>6, <1>7, <1>8, <1>9

(***************************************************************************)
(* An operation begins or ends, or the plan is published.                  *)
(***************************************************************************)
LEMMA OperationAccounts ==
    ASSUME CInv, AccountsInv, NEW k \in Worker,
           \/ Planning(k) \/ Validation(k) \/ FinishOp(k) \/ ApplyBatchPlan(k)
           \/ RebuildStateFromCluster(k) \/ SwapState(k)
    PROVE  AccountsInv'
<1>1. JobsOK /\ JobOK(job[k])
  BY DEF CInv, IInv, JobsOK
<1>2. /\ job[k].pc # "idle" /\ UNCHANGED <<sas, disturbed>> /\ bounds' = bounds
      /\ job[k].failed => job[k].pc \in DOMAIN NextOp
  BY Places DEF Planning, Validation, FinishOp, ApplyBatchPlan, RebuildStateFromCluster, SwapState,
                cluster, ghosts, CInv, JobShape
<1>3. CASE Planning(k)
  <2> DEFINE j == [job[k] EXCEPT !.plan = Live, !.pc = "validation"]
  <2>1. job' = [job EXCEPT ![k] = j] /\ j.pc = "validation"
    BY <1>1, <1>3 DEF Planning, JobsOK, JobOK
  <2> HIDE DEF j
  <2>2. AccountsKept(j, sas')
    BY <2>1, NoAccounts
  <2>3. QED
    BY <1>2, <2>1, <2>2, AccountsMove
<1>4. CASE RebuildStateFromCluster(k)
  <2> DEFINE j == [job[k] EXCEPT !.plan = Live, !.pc = "swap"]
  <2>1. job' = [job EXCEPT ![k] = j] /\ j.pc = "swap"
    BY <1>1, <1>4 DEF RebuildStateFromCluster, JobsOK, JobOK
  <2> HIDE DEF j
  <2>2. AccountsKept(j, sas')
    BY <2>1, NoAccounts
  <2>3. QED
    BY <1>2, <2>1, <2>2, AccountsMove
<1>5. CASE SwapState(k)
  <2> DEFINE j == [job[k] EXCEPT !.pc = "requeue"]
  <2>1. job' = [job EXCEPT ![k] = j] /\ j.pc = "requeue"
    BY <1>1, <1>5 DEF SwapState, JobsOK, JobOK
  <2> HIDE DEF j
  <2>2. AccountsKept(j, sas')
    BY <2>1, NoAccounts
  <2>3. QED
    BY <1>2, <2>1, <2>2, AccountsMove
<1>6. CASE Validation(k)
  <2>1. CASE FailBatch(k)
    BY <1>2, <2>1, NewAccounts
  <2>2. CASE BeginExecution(k)
    <3>1. PICK written : BeginOp(k, IF job[k].plan = Nothing
                                    THEN "GarbageCollectServiceAccounts" ELSE "EnsureRoles",
                                 Refreshed(job[k].plan, written))
      BY <2>2 DEF BeginExecution
    <3> DEFINE op == IF job[k].plan = Nothing THEN "GarbageCollectServiceAccounts" ELSE "EnsureRoles"
               new == Refreshed(job[k].plan, written)
               j == [job[k] EXCEPT !.pc = op, !.plan = new, !.todo = Todo(op, new)]
    <3>2. /\ job' = [job EXCEPT ![k] = j]
          /\ j.pc = op /\ j.plan = new /\ j.todo = Todo(op, new)
      BY <1>1, <3>1 DEF BeginOp, JobsOK, JobOK
    <3> HIDE DEF new, j
    <3>3. CASE op = "EnsureRoles"
      <4>1. AccountsKept(j, sas)
        BY <3>2, <3>3 DEF AccountsKept, Left, AfterEnsureAccounts, AfterEnsureBindings,
              AfterAccounts, AfterRoles, AfterRoleBindings, AfterClusterRoleBindings
      <4>2. QED
        BY <1>2, <3>2, <4>1, AccountsMove
    <3>4. CASE job[k].plan = Nothing
      <4>1. DOMAIN new = {}
        BY <3>4 DEF new, Refreshed, Nothing
      <4>2. UniqueAccounts(new) = {}
        BY <4>1 DEF UniqueAccounts
      <4>3. AccountsKept(j, sas)
        BY <3>2, <4>2 DEF AccountsKept
      <4>4. QED
        BY <1>2, <3>2, <4>3, AccountsMove
    <3>5. QED
      BY <3>3, <3>4
  <2>3. QED
    BY <1>6, <2>1, <2>2 DEF Validation
<1>7. CASE FinishOp(k)
  <2>1. job[k].pc \in DOMAIN NextOp /\ job[k].todo = {}
    BY <1>7 DEF FinishOp
  <2>2. CASE job[k].failed
    BY <1>2, <1>7, <2>2, NewAccounts DEF FinishOp
  <2>3. CASE ~job[k].failed
    <3> DEFINE op == NextOp[job[k].pc]
               j == [job[k] EXCEPT !.pc = op, !.plan = job[k].plan, !.todo = Todo(op, job[k].plan)]
    <3>1. /\ job' = [job EXCEPT ![k] = j]
          /\ j.pc = op /\ j.plan = job[k].plan /\ j.todo = Todo(op, job[k].plan)
      BY <1>1, <1>7, <2>3 DEF FinishOp, BeginOp, JobsOK, JobOK
    <3> HIDE DEF j
    <3>2. ASSUME AccountsKept(job[k], sas) PROVE AccountsKept(j, sas)
      <4>1. /\ op = "EnsureServiceAccounts" => Left(j, op) = UniqueAccounts(j.plan)
            /\ op = "GarbageCollectServiceAccounts" => Left(j, op) = sas \ UniqueAccounts(j.plan)
        BY <3>1 DEF Left, Todo
      <4>2. /\ op # "EnsureServiceAccounts" => Left(j, "EnsureServiceAccounts") = {}
            /\ op # "GarbageCollectServiceAccounts" =>
                   Left(j, "GarbageCollectServiceAccounts") = {}
            /\ Left(job[k], "EnsureServiceAccounts") = {}
        BY <2>1, <3>1 DEF Left
      <4>3. op \in AfterEnsureAccounts =>
                job[k].pc \in {"EnsureServiceAccounts"} \cup AfterEnsureAccounts
        BY <2>1 DEF NextOp, AfterEnsureAccounts, AfterEnsureBindings, AfterAccounts, AfterRoles,
                    AfterRoleBindings, AfterClusterRoleBindings
      <4> HIDE DEF op
      <4>4. op \in AfterEnsureAccounts => UniqueAccounts(j.plan) \subseteq sas
        BY <3>1, <3>2, <4>2, <4>3 DEF AccountsKept
      <4>5. QED
        BY <3>1, <4>1, <4>2, <4>4 DEF AccountsKept
    <3>3. QED
      BY <1>2, <2>3, <3>1, <3>2, AccountsMove
  <2>4. QED
    BY <2>2, <2>3
<1>8. CASE ApplyBatchPlan(k)
  <2> DEFINE j == [job[k] EXCEPT !.pc = "done"]
  <2>1. /\ job' = [job EXCEPT ![k] = j] /\ job[k].pc = "ApplyBatchPlan" /\ j.pc = "done"
        /\ j.plan = job[k].plan
    BY <1>1, <1>8 DEF ApplyBatchPlan, JobsOK, JobOK
  <2> HIDE DEF j
  <2>2. ~job[k].failed
    BY <1>2, <2>1 DEF NextOp
  <2>3. AccountsKept(job[k], sas) => AccountsKept(j, sas)
    BY <2>1 DEF AccountsKept, Left, AfterEnsureAccounts, AfterEnsureBindings, AfterAccounts,
                AfterRoles, AfterRoleBindings, AfterClusterRoleBindings
  <2>4. QED
    BY <1>2, <2>1, <2>2, <2>3, AccountsMove
<1>9. QED
  BY <1>3, <1>4, <1>5, <1>6, <1>7, <1>8

(***************************************************************************)
(* A call succeeds: an account is created, one that is not needed is       *)
(* collected, or accounts are not concerned.                               *)
(***************************************************************************)
LEMMA CallAccounts ==
    ASSUME CInv, AccountsInv, NEW k \in Worker,
           \/ createRoleIfNeeded(k) \/ createServiceAccount(k) \/ createRoleBindingsForResource(k)
           \/ GarbageCollectServiceAccounts(k) \/ GarbageCollectRoles(k)
           \/ GarbageCollectRoleBindings(k) \/ GarbageCollectClusterRoleBindings(k)
    PROVE  AccountsInv'
<1>1. JobsOK /\ JobOK(job[k])
  BY DEF CInv, IInv, JobsOK
<1>2. ASSUME NEW op \in DOMAIN NextOp, NEW x, Call(k, op, x),
             \/ op = "EnsureServiceAccounts" /\ sas' = sas \cup {x}
             \/ op = "GarbageCollectServiceAccounts" /\ sas' = sas \ {x}
             \/ op \notin {"EnsureServiceAccounts", "GarbageCollectServiceAccounts"} /\ sas' = sas
      PROVE  AccountsInv'
  <2> DEFINE j == [job[k] EXCEPT !.todo = @ \ {x}]
  <2>1. /\ job' = [job EXCEPT ![k] = j] /\ x \in job[k].todo
        /\ job[k].pc = op /\ j.pc = op /\ j.plan = job[k].plan /\ j.failed = job[k].failed
        /\ j.todo = job[k].todo \ {x}
    BY <1>1, <1>2 DEF Call, JobsOK, JobOK
  <2>2. /\ job[k].pc # "idle"
        /\ disturbed' = disturbed
        /\ bounds'.drifts = bounds.drifts
    BY <1>2, <2>1, Places DEF Call, ghosts
  <2> HIDE DEF j
  <2>3. ASSUME AccountsKept(job[k], sas) PROVE AccountsKept(j, sas')
    <3>1. CASE op = "EnsureServiceAccounts"
      <4>1. UniqueAccounts(j.plan) \ j.todo \subseteq sas'
        BY <1>2, <2>1, <2>3, <3>1 DEF AccountsKept, Left
      <4>2. QED
        BY <2>1, <3>1, <4>1 DEF AccountsKept, Left
    <3>2. CASE op = "GarbageCollectServiceAccounts"
      <4>1. /\ op \in AfterEnsureAccounts
            /\ Left(j, "EnsureServiceAccounts") = {} /\ Left(job[k], "EnsureServiceAccounts") = {}
            /\ Left(j, op) = job[k].todo \ {x} /\ Left(job[k], op) = job[k].todo
        BY <2>1, <3>2 DEF Left, AfterEnsureAccounts, AfterEnsureBindings
      <4>2. /\ UniqueAccounts(j.plan) \subseteq sas
            /\ job[k].todo \cap UniqueAccounts(j.plan) = {}
        BY <2>1, <2>3, <3>2, <4>1 DEF AccountsKept
      <4>3. QED
        BY <1>2, <2>1, <3>2, <4>1, <4>2 DEF AccountsKept
    <3>3. CASE op \notin {"EnsureServiceAccounts", "GarbageCollectServiceAccounts"}
      BY <1>2, <2>1, <2>3, <3>3 DEF AccountsKept, Left
    <3>4. QED
      BY <3>1, <3>2, <3>3
  <2>4. QED
    BY <2>1, <2>2, <2>3, AccountsMove
<1>3. CASE createRoleIfNeeded(k)
  BY <1>2, <1>3, Places DEF createRoleIfNeeded
<1>4. CASE createServiceAccount(k)
  BY <1>2, <1>4, Places DEF createServiceAccount
<1>5. CASE createRoleBindingsForResource(k)
  BY <1>2, <1>5, Places DEF createRoleBindingsForResource
<1>6. CASE GarbageCollectServiceAccounts(k)
  BY <1>2, <1>6, Places DEF GarbageCollectServiceAccounts
<1>7. CASE GarbageCollectRoles(k)
  BY <1>2, <1>7, Places DEF GarbageCollectRoles
<1>8. CASE GarbageCollectRoleBindings(k) \/ GarbageCollectClusterRoleBindings(k)
  BY <1>2, <1>8, Places DEF GarbageCollectRoleBindings, GarbageCollectClusterRoleBindings,
                            DeleteBinding
<1>9. QED
  BY <1>3, <1>4, <1>5, <1>6, <1>7, <1>8

(***************************************************************************)
(* A call or a stage fails: the batch will fail, or has.                   *)
(***************************************************************************)
LEMMA FailureAccounts ==
    ASSUME CInv, AccountsInv, NEW k \in Worker, CallFails(k) \/ StageFails(k)
    PROVE  AccountsInv'
<1>1. JobsOK /\ JobOK(job[k])
  BY DEF CInv, IInv, JobsOK
<1>2. bounds'.drifts = bounds.drifts
  <2>1. Count("faults", MaxFaults)
    BY Zenon DEF CallFails, StageFails
  <2>2. QED
    BY <2>1 DEF Count
<1>3. job[k].pc # "idle" /\ UNCHANGED <<sas, disturbed>>
  BY Places DEF CallFails, StageFails, cluster, ghosts
<1>4. CASE CallFails(k)
  <2>1. PICK x : job' = [job EXCEPT ![k].todo = @ \ {x}, ![k].failed = TRUE]
    BY <1>4 DEF CallFails
  <2> DEFINE j == [job[k] EXCEPT !.todo = @ \ {x}, !.failed = TRUE]
  <2>2. job' = [job EXCEPT ![k] = j] /\ j.failed = TRUE
    BY <1>1, <2>1 DEF JobsOK, JobOK
  <2> HIDE DEF j
  <2>3. QED
    BY <1>2, <1>3, <2>2, AccountsMove
<1>5. CASE StageFails(k)
  BY <1>2, <1>3, <1>5, NewAccounts DEF StageFails
<1>6. QED
  BY <1>4, <1>5

(***************************************************************************)
(* The claim on accounts is inductive.                                     *)
(***************************************************************************)
LEMMA InitAccounts == Init => AccountsInv
<1>1. ASSUME Init PROVE bounds.drifts = 0 /\ \A k \in Worker : job[k] = Idle
  BY <1>1 DEF Init
<1>2. QED
  BY <1>1, NoAccounts DEF AccountsInv

\* Every step preserves it, whatever the convergence invariant leaves open.
LEMMA NextAccounts == CInv /\ AccountsInv /\ [Next]_vars => AccountsInv'
<1>1. SUFFICES ASSUME CInv, AccountsInv, [Next]_vars PROVE AccountsInv'
  OBVIOUS
<1>2. ASSUME NEW k \in Worker, Work(k) PROVE AccountsInv'
  BY <1>1, <1>2, OperationAccounts, CallAccounts, NewAccounts DEF Work
<1>3. ASSUME NEW k \in Worker, CallFails(k) \/ StageFails(k) PROVE AccountsInv'
  BY <1>1, <1>3, FailureAccounts
<1>4. ASSUME NEW k \in Worker, RebuildOrStatusFails(k) PROVE AccountsInv'
  BY <1>1, <1>4, NewAccounts
<1>5. CASE TakeBatch \/ TakeRetry \/ Restart
  BY <1>1, <1>5, NewAccounts
<1>6. CASE \/ \E w \in Name, spec \in SpecChoice : CreateWSA(w, spec) \/ UpdateWSA(w, spec)
           \/ \E w \in Name : DeleteWSA(w) \/ Reconcile(w) \/ handleDeletion(w) \/ Resync(w)
           \/ Drift \/ KubernetesGC \/ (\E a \in Scopes : CreateAccount(a)) \/ UNCHANGED vars
  BY <1>1, <1>6, OtherAccounts
<1>7. QED
  BY <1>1, <1>2, <1>3, <1>4, <1>5, <1>6 DEF Next

(***************************************************************************)
(* ApplyBatchPlan of a batch that has the cluster to itself publishes only *)
(* accounts that exist, while nobody else deletes accounts: neither calls  *)
(* that fail nor the collection that runs between the creation and the     *)
(* publication of an account can make the webhook answer with one that is  *)
(* not there.                                                              *)
(***************************************************************************)
THEOREM PublishedAlone == Spec => PublishedAccountsExistAlone
<1>1. ASSUME CInv, AccountsInv, NEW k \in Worker, ApplyBatchPlan(k), ~disturbed, bounds.drifts = 0
      PROVE  UniqueAccounts(job[k].plan) \subseteq sas
  <2>1. job[k].pc = "ApplyBatchPlan"
    BY <1>1 DEF ApplyBatchPlan
  <2>2. ~job[k].failed
    BY <1>1, <2>1, Places DEF CInv, JobShape
  <2>3. AccountsKept(job[k], sas)
    BY <1>1, <2>2 DEF AccountsInv
  <2>4. "ApplyBatchPlan" \in AfterEnsureAccounts
    BY DEF AfterEnsureAccounts, AfterEnsureBindings, AfterAccounts, AfterRoles,
           AfterRoleBindings, AfterClusterRoleBindings
  <2>5. QED
    BY <2>1, <2>3, <2>4 DEF AccountsKept, Left
<1>2. CInv /\ AccountsInv /\ [Next]_vars =>
          [\A k \in Worker : ApplyBatchPlan(k) /\ ~disturbed /\ bounds.drifts = 0 =>
                                 UniqueAccounts(job[k].plan) \subseteq sas]_vars
  BY <1>1
<1>3. Spec => []AccountsInv
  <2>1. Init /\ []CInv /\ [][Next]_vars => []AccountsInv
    BY InitAccounts, NextAccounts, PTL
  <2>2. QED
    BY <2>1, ConvergenceInvariant, PTL DEF Spec
<1>4. QED
  BY <1>2, <1>3, ConvergenceInvariant, PTL DEF Spec, PublishedAccountsExistAlone
=============================================================================
