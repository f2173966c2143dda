----------------------------- MODULE StateSync -----------------------------
(***************************************************************************)
(* StateSyncer and StateSyncReconciler                                     *)
(* (internal/reconciliation/state_syncer.go, debouncer.go and              *)
(* internal/controller/state_sync_controller.go): how a replica that does  *)
(* not lead keeps the scope mappings its pod webhook answers from current. *)
(*                                                                         *)
(* One replica: replicas do not coordinate.  Its informer caches follow    *)
(* the API server, one per kind; a change seen there becomes a request of  *)
(* the statesync controller, then a trigger, a debounced tick and a        *)
(* rebuild, which lists both kinds from the caches and swaps the mappings. *)
(* When the replica is elected the syncer stands down and the batches of   *)
(* the leader publish the mappings instead.                                *)
(*                                                                         *)
(* Contents are versions: every change of a kind counts it up, and a       *)
(* mapping is known by the versions it was computed from, 0 for none.      *)
(***************************************************************************)
EXTENDS Naturals

CONSTANTS
    TimeCap,        \* capacity of BasicDebouncer.timeChan
    MaxVersion,     \* bound: version a kind reaches
    MaxFaults       \* bound: lists that fail and restarts of the process

ASSUME StateSyncAssumption ==
    /\ TimeCap \in Nat \ {0}
    /\ MaxVersion \in Nat \ {0} /\ MaxFaults \in Nat

VARIABLES
    version,        \* API server: the version of each kind
    cache,          \* informer caches: the version they hold
    queue,          \* kinds with a request of the statesync controller
    triggerCh,      \* StateSyncer.triggerCh holds a trigger
    timeChan,       \* timestamps in the debouncer's channel
    armed,          \* debouncer: startedTime is set and the ticker runs
    rebuildCh,      \* StateSyncer.rebuildCh holds a request
    pc,             \* syncer: where Start is
    seen,           \* syncer: the versions its rebuild has listed
    synced,         \* StateSyncer.synced
    elected,        \* the channel `elected' is closed
    batch,          \* leader: the versions a batch has listed, 0 before
    served,         \* engine: the versions scopeToSA was computed from
    faults,         \* failing lists and restarts so far
    started,        \* ghost: the caches when this process started
    failed          \* ghost: the last rebuild failed

debouncer == <<timeChan, armed>>
syncer    == <<pc, seen, synced>>
ghosts    == <<started, failed>>
vars == <<version, cache, queue, triggerCh, debouncer, rebuildCh, syncer, elected, batch,
          served, faults, ghosts>>

Kind == {"WSA", "CWSA"}
None == [k \in Kind |-> 0]

\* The process starts: the manager starts the syncer and the controllers once
\* the caches have what the API server holds; the mappings are empty.
Boot(current) ==
    /\ cache' = current /\ started' = current
    /\ queue' = {} /\ triggerCh' = FALSE /\ rebuildCh' = FALSE
    /\ timeChan' = 0 /\ armed' = FALSE
    /\ pc' = "build" /\ seen' = None /\ synced' = FALSE
    /\ elected' = FALSE /\ batch' = None
    /\ served' = None
    /\ failed' = FALSE

Init ==
    /\ version = [k \in Kind |-> 1]
    /\ cache = version /\ started = version
    /\ queue = {} /\ triggerCh = FALSE /\ rebuildCh = FALSE
    /\ timeChan = 0 /\ armed = FALSE
    /\ pc = "build" /\ seen = None /\ synced = FALSE
    /\ elected = FALSE /\ batch = None
    /\ served = None
    /\ faults = 0
    /\ failed = FALSE

-----------------------------------------------------------------------------
\* A user creates, changes or deletes a resource: its generation moves.
Change(k) ==
    /\ version[k] < MaxVersion
    /\ version' = [version EXCEPT ![k] = @ + 1]
    /\ UNCHANGED <<cache, queue, triggerCh, debouncer, rebuildCh, syncer, elected, batch,
                   served, faults, ghosts>>

\* A bug: CWSAs are cached and listed, but nothing watches them.
Mut_WatchEvent(k) ==
    /\ cache[k] < version[k]
    /\ cache' = [cache EXCEPT ![k] = @ + 1]
    /\ queue' = IF k = "WSA" THEN queue \cup {k} ELSE queue
    /\ UNCHANGED <<version, triggerCh, debouncer, rebuildCh, syncer, elected, batch, served,
                   faults, ghosts>>

\* The watch of a kind: the cache is updated, then the handlers run.  What the
\* leader writes to the status leaves the generation alone and is filtered.
WatchEvent(k) ==
    /\ cache[k] < version[k]
    /\ cache' = [cache EXCEPT ![k] = @ + 1]
    /\ queue' = queue \cup {k}
    /\ UNCHANGED <<version, triggerCh, debouncer, rebuildCh, syncer, elected, batch, served,
                   faults, ghosts>>

\* Trigger: never blocks, a full channel has a trigger already.
Trigger == triggerCh' = TRUE

\* StateSyncReconciler.Reconcile ignores which resource it is about.
Reconcile == \E k \in queue :
    /\ queue' = queue \ {k}
    /\ Trigger
    /\ UNCHANGED <<version, cache, debouncer, rebuildCh, syncer, elected, batch, served,
                   faults, ghosts>>

-----------------------------------------------------------------------------
\* A bug: a rebuild reports itself done when it begins.
Mut_ListWSAs ==
    /\ pc = "build"
    /\ pc' = "listed"
    /\ seen' = [seen EXCEPT !["WSA"] = cache["WSA"]]
    /\ synced' = TRUE
    /\ UNCHANGED <<version, cache, queue, triggerCh, debouncer, rebuildCh, elected, batch,
                   served, faults, ghosts>>

\* rebuild: computeStateFromCluster lists WSAs, then CWSAs, from the caches
\* and without a lock; the swap of the mappings makes the replica ready.
ListWSAs ==
    /\ pc = "build"
    /\ pc' = "listed"
    /\ seen' = [seen EXCEPT !["WSA"] = cache["WSA"]]
    /\ UNCHANGED <<version, cache, queue, triggerCh, debouncer, rebuildCh, synced, elected,
                   batch, served, faults, ghosts>>

\* A bug: the error of the second list is not checked, and what it would
\* have returned counts as empty.
Mut_ListCWSAs ==
    /\ pc = "listed"
    /\ pc' = "computed"
    /\ seen' \in {seen, [seen EXCEPT !["CWSA"] = cache["CWSA"]]}
    /\ UNCHANGED <<version, cache, queue, triggerCh, debouncer, rebuildCh, synced, elected,
                   batch, served, faults, ghosts>>

ListCWSAs ==
    /\ pc = "listed"
    /\ pc' = "computed"
    /\ seen' = [seen EXCEPT !["CWSA"] = cache["CWSA"]]
    /\ UNCHANGED <<version, cache, queue, triggerCh, debouncer, rebuildCh, synced, elected,
                   batch, served, faults, ghosts>>

\* A bug: a trigger that came meanwhile is taken to be covered.
Mut_RefreshScopeMappings ==
    /\ pc = "computed"
    /\ pc' = "select"
    /\ served' = seen
    /\ synced' = TRUE
    /\ seen' = None
    /\ failed' = FALSE
    /\ triggerCh' = FALSE
    /\ UNCHANGED <<version, cache, queue, debouncer, rebuildCh, elected, batch, faults,
                   started>>

RefreshScopeMappings ==
    /\ pc = "computed"
    /\ pc' = "select"
    /\ served' = seen
    /\ synced' = TRUE
    /\ seen' = None
    /\ failed' = FALSE
    /\ UNCHANGED <<version, cache, queue, triggerCh, debouncer, rebuildCh, elected, batch,
                   faults, started>>

Fault ==
    /\ faults < MaxFaults
    /\ faults' = faults + 1

Restart ==
    /\ Boot(version)
    /\ UNCHANGED version

\* A list fails.  The first rebuild takes Start and the process down with it,
\* a later one is logged and not tried again.
RebuildFails ==
    /\ pc \in {"build", "listed"}
    /\ Fault
    /\ IF synced
       THEN /\ pc' = "select" /\ seen' = None /\ failed' = TRUE
            /\ UNCHANGED <<version, cache, queue, triggerCh, debouncer, rebuildCh, synced,
                           elected, batch, served, started>>
       ELSE Restart

\* The loop of Start: one of the cases that are ready.
DebounceTrigger ==
    /\ pc = "select"
    /\ triggerCh
    /\ triggerCh' = FALSE
    /\ pc' = "debounce"
    /\ UNCHANGED <<version, cache, queue, debouncer, rebuildCh, seen, synced, elected, batch,
                   served, faults, ghosts>>

BeginRebuild ==
    /\ pc = "select"
    /\ rebuildCh
    /\ rebuildCh' = FALSE
    /\ pc' = "build"
    /\ UNCHANGED <<version, cache, queue, triggerCh, debouncer, seen, synced, elected, batch,
                   served, faults, ghosts>>

\* Elected: Start returns, whatever the channels hold.
StandDown ==
    /\ pc = "select"
    /\ elected
    /\ pc' = "stopped"
    /\ UNCHANGED <<version, cache, queue, triggerCh, debouncer, rebuildCh, seen, synced, elected,
                   batch, served, faults, ghosts>>

\* Debounce: blocks while timeChan is full.
Debounce ==
    /\ pc = "debounce"
    /\ timeChan < TimeCap
    /\ timeChan' = timeChan + 1
    /\ pc' = "select"
    /\ UNCHANGED <<version, cache, queue, triggerCh, armed, rebuildCh, seen, synced, elected,
                   batch, served, faults, ghosts>>

\* The debouncer: the first timestamp starts the ticker, later ones are
\* covered by it; the tick asks for a rebuild unless one is asked for.
ReceiveTimestamp ==
    /\ timeChan > 0
    /\ timeChan' = timeChan - 1
    /\ armed' = TRUE
    /\ UNCHANGED <<version, cache, queue, triggerCh, rebuildCh, syncer, elected, batch, served,
                   faults, ghosts>>

Tick ==
    /\ armed
    /\ armed' = FALSE
    /\ rebuildCh' = TRUE
    /\ UNCHANGED <<version, cache, queue, triggerCh, timeChan, syncer, elected, batch, served,
                   faults, ghosts>>

\* A bug: the callback waits for room in rebuildCh.
Mut_DebounceLoop == ~(armed /\ rebuildCh) /\ (ReceiveTimestamp \/ Tick)

DebounceLoop == ReceiveTimestamp \/ Tick

-----------------------------------------------------------------------------
\* The lease is this replica's, perhaps before its first rebuild is done.
BecomeLeader ==
    /\ ~elected
    /\ elected' = TRUE
    /\ UNCHANGED <<version, cache, queue, triggerCh, debouncer, rebuildCh, syncer, batch, served,
                   faults, ghosts>>

\* A batch of the leader, from its lists in PlanningStage to ApplyBatchPlan.
BatchListsWSAs ==
    /\ elected
    /\ batch = None
    /\ batch' = [batch EXCEPT !["WSA"] = cache["WSA"]]
    /\ UNCHANGED <<version, cache, queue, triggerCh, debouncer, rebuildCh, syncer, elected,
                   served, faults, ghosts>>

BatchListsCWSAs ==
    /\ batch["WSA"] > 0 /\ batch["CWSA"] = 0
    /\ batch' = [batch EXCEPT !["CWSA"] = cache["CWSA"]]
    /\ UNCHANGED <<version, cache, queue, triggerCh, debouncer, rebuildCh, syncer, elected,
                   served, faults, ghosts>>

ApplyBatchPlan ==
    /\ batch["CWSA"] > 0
    /\ served' = batch
    /\ batch' = None
    /\ UNCHANGED <<version, cache, queue, triggerCh, debouncer, rebuildCh, syncer, elected,
                   faults, ghosts>>

\* The process stops (the context is done, the lease is lost) and is replaced.
Crash ==
    /\ Fault
    /\ Restart

Rebuild == ListWSAs \/ ListCWSAs \/ RefreshScopeMappings
Start == Rebuild \/ DebounceTrigger \/ BeginRebuild \/ StandDown \/ Debounce

Next ==
    \/ \E k \in Kind : Change(k) \/ WatchEvent(k)
    \/ Reconcile
    \/ Start \/ RebuildFails
    \/ DebounceLoop
    \/ BecomeLeader \/ BatchListsWSAs \/ BatchListsCWSAs \/ ApplyBatchPlan
    \/ Crash

Spec == Init /\ [][Next]_vars

\* Watches deliver, the controller's worker, the syncer's loop and the
\* debouncer run.  Changes, elections, batches and failures are not forced.
Fairness ==
    /\ \A k \in Kind : WF_vars(WatchEvent(k))
    /\ WF_vars(Reconcile)
    /\ WF_vars(Start)
    /\ WF_vars(DebounceLoop)

FairSpec == Spec /\ Fairness

-----------------------------------------------------------------------------
\* ReadyzCheck: the replica is an endpoint of the webhook's service.
Ready == synced

\* Types.  A mapping is computed from lists of both kinds or not at all: no
\* list that failed, and no half of a rebuild or of a batch, is published.
TypeOK ==
    /\ version \in [Kind -> 1..MaxVersion]
    /\ cache \in [Kind -> 1..MaxVersion]
    /\ started \in [Kind -> 1..MaxVersion]
    /\ queue \subseteq Kind
    /\ triggerCh \in BOOLEAN /\ rebuildCh \in BOOLEAN
    /\ timeChan \in 0..TimeCap /\ armed \in BOOLEAN
    /\ pc \in {"build", "listed", "computed", "select", "debounce", "stopped"}
    /\ seen \in [Kind -> 0..MaxVersion]
    /\ batch \in [Kind -> 0..MaxVersion]
    /\ served \in {None} \cup [Kind -> 1..MaxVersion]
    /\ synced \in BOOLEAN /\ elected \in BOOLEAN /\ failed \in BOOLEAN
    /\ faults \in 0..MaxFaults

(***************************************************************************)
(* A ready replica answers pods from mappings at least as new as what the  *)
(* API server held when the process started: "keeps a replica out of the   *)
(* webhook Service endpoints until it can actually resolve a scope"        *)
(* (state_syncer.go:136), through restarts, elections before the first     *)
(* rebuild and batches published around a rebuild.                         *)
(***************************************************************************)
ReadyMeansBuilt == Ready => \A k \in Kind : served[k] >= started[k]

\* A rebuild that has yet to list kind k, or has listed it as it is now.
RebuildCovers(k) ==
    \/ pc = "build"
    \/ pc = "listed" /\ (k = "WSA" => seen["WSA"] = cache["WSA"])
    \/ pc = "computed" /\ seen[k] = cache[k]

\* Something is on its way that ends in a rebuild.
RebuildPending ==
    queue # {} \/ triggerCh \/ pc = "debounce" \/ timeChan > 0 \/ armed \/ rebuildCh

(***************************************************************************)
(* "an already-pending request covers whatever arrives behind it"          *)
(* (state_syncer.go:111): on a replica that does not lead, a change in the *)
(* caches that the mappings lack is covered by a rebuild that is pending   *)
(* or has not listed that kind yet.  Triggers dropped at full channels,    *)
(* changes between the two lists and ticks during a rebuild are where it   *)
(* could fail; a rebuild whose list failed is the one exception.           *)
(***************************************************************************)
PendingCoversChange ==
    \A k \in Kind :
        ~elected /\ served[k] # cache[k] => failed \/ RebuildPending \/ RebuildCovers(k)

(***************************************************************************)
(* A replica that does not lead catches up with every change, or its last  *)
(* rebuild failed: then it stays behind until the next change.             *)
(***************************************************************************)
FollowerCatchesUp == []<>(elected \/ failed \/ served = version)

(***************************************************************************)
(* "Stands down once elected" (state_syncer.go:42): the syncer stops, so   *)
(* that only batches publish, also with triggers and rebuilds pending.     *)
(***************************************************************************)
StandsDown == elected ~> (pc = "stopped" \/ ~elected)
=============================================================================
