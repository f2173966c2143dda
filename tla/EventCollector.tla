--------------------------- MODULE EventCollector ---------------------------
(***************************************************************************)
(* EventCollector and its debouncer (internal/reconciliation/collector.go  *)
(* and debouncer.go): how changes of resources become batches.             *)
(*                                                                         *)
(* Goroutines: callers of AddEvent (the reconcilers, and the retry worker  *)
(* that requeues a failed batch), the debouncer, the collector's loop and  *)
(* the orchestrator that receives batches.  They share the event map under *)
(* one mutex and three buffered channels; AddEvent sends to two of them    *)
(* while it holds the mutex.                                               *)
(*                                                                         *)
(* An event is its resource's generation; 0 stands for no event, so the    *)
(* event map and a batch are functions from resources to generations.      *)
(***************************************************************************)
EXTENDS Naturals, Sequences, FiniteSets

CONSTANTS
    Key,            \* resources
    Caller,         \* goroutines that call AddEvent
    MaxBatchSize,   \* EventCollector.maxBatchSize
    TimeCap,        \* capacity of BasicDebouncer.timeChan
    TriggerCap,     \* capacity of batchTriggerCh
    ReadyCap,       \* capacity of batchReadyCh
    MaxGen,         \* bound: generation a resource reaches
    MaxAdds         \* bound: calls of AddEvent

ASSUME CollectorAssumption ==
    /\ MaxBatchSize \in Nat \ {0}
    /\ TimeCap \in Nat \ {0} /\ TriggerCap \in Nat \ {0} /\ ReadyCap \in Nat \ {0}
    /\ MaxGen \in Nat \ {0} /\ MaxAdds \in Nat
    /\ "free" \notin Caller

VARIABLES
    gen,            \* API server: the current generation of each resource
    adds,           \* calls of AddEvent so far
    mu,             \* EventCollector.mu: "free" or the caller that holds it
    eventMap,
    apc, event,     \* per caller: position in AddEvent, the event it brings
    timeChan,       \* timestamps in the debouncer's channel
    armed,          \* debouncer: startedTime is set and the ticker runs
    dpc,            \* debouncer: "wait", "callback", "stopped"
    triggerCh,      \* triggers in batchTriggerCh
    cpc, cbatch,    \* collector: position, the batch it took from the map
    batchReadyCh,   \* batches on their way to the orchestrator
    cancelled,      \* the context is done
    owed,           \* ghost: resources with an event no received batch covers
    lastAdded,      \* ghost: generation of the last event added per resource
    backpressured   \* ghost: a batch found batchReadyCh full

callerVars    == <<apc, event>>
debounceVars  == <<timeChan, armed, dpc>>
collectorVars == <<cpc, cbatch>>
vars == <<gen, adds, mu, eventMap, callerVars, debounceVars, triggerCh,
          collectorVars, batchReadyCh, cancelled, owed, lastAdded, backpressured>>

NoEvents == [k \in Key |-> 0]
Size(m) == Cardinality({k \in Key : m[k] > 0})

NoEvent == <<>>     \* a caller outside AddEvent

Init ==
    /\ gen = [k \in Key |-> 1]
    /\ adds = 0
    /\ mu = "free"
    /\ eventMap = NoEvents
    /\ apc = [c \in Caller |-> "idle"]
    /\ event = [c \in Caller |-> NoEvent]
    /\ timeChan = 0 /\ armed = FALSE /\ dpc = "wait"
    /\ triggerCh = 0
    /\ cpc = "select" /\ cbatch = NoEvents
    /\ batchReadyCh = <<>>
    /\ cancelled = FALSE
    /\ owed = {}
    /\ lastAdded = NoEvents
    /\ backpressured = FALSE

-----------------------------------------------------------------------------
\* A user changes a resource; a caller reads one (fetchResource, or the Get of
\* requeueFailedResources) and adds the event later: others may be faster.
UpdateResource(k) ==
    /\ gen[k] < MaxGen
    /\ gen' = [gen EXCEPT ![k] = @ + 1]
    /\ UNCHANGED <<adds, mu, eventMap, callerVars, debounceVars, triggerCh, collectorVars,
                   batchReadyCh, cancelled, owed, lastAdded, backpressured>>

FetchResource(c, k) ==
    /\ apc[c] = "idle"
    /\ adds < MaxAdds
    /\ adds' = adds + 1
    /\ event' = [event EXCEPT ![c] = <<k, gen[k]>>]
    /\ apc' = [apc EXCEPT ![c] = "add"]
    /\ UNCHANGED <<gen, mu, eventMap, debounceVars, triggerCh, collectorVars,
                   batchReadyCh, cancelled, owed, lastAdded, backpressured>>

\* AddEvent takes the mutex and stores the event over any other.
StoreEvent(c) ==
    /\ apc[c] = "add"
    /\ mu = "free"
    /\ mu' = c
    /\ LET k == event[c][1]
           g == event[c][2]
       IN  /\ eventMap' = [eventMap EXCEPT ![k] = g]
           /\ owed' = owed \cup {k}
           /\ lastAdded' = [lastAdded EXCEPT ![k] = g]
    /\ apc' = [apc EXCEPT ![c] = "debounce"]
    /\ UNCHANGED <<gen, adds, event, debounceVars, triggerCh, collectorVars, batchReadyCh,
                   cancelled, backpressured>>

\* The caller is out of AddEvent and the mutex is free.
ReturnFromAdd(c) ==
    /\ apc' = [apc EXCEPT ![c] = "idle"]
    /\ event' = [event EXCEPT ![c] = NoEvent]
    /\ mu' = "free"

\* A bug: only a full map is announced.
Mut_Debounce(c) ==
    /\ apc[c] = "debounce"
    /\ IF Size(eventMap) >= MaxBatchSize
       THEN /\ apc' = [apc EXCEPT ![c] = "trigger"]
            /\ UNCHANGED <<event, mu>>
       ELSE ReturnFromAdd(c)
    /\ UNCHANGED <<gen, adds, eventMap, debounceVars, triggerCh, collectorVars,
                   batchReadyCh, cancelled, owed, lastAdded, backpressured>>

\* Debounce: blocks while timeChan is full.  A full event map triggers a
\* flush right away.
Debounce(c) ==
    /\ apc[c] = "debounce"
    /\ timeChan < TimeCap
    /\ timeChan' = timeChan + 1
    /\ IF Size(eventMap) >= MaxBatchSize
       THEN /\ apc' = [apc EXCEPT ![c] = "trigger"]
            /\ UNCHANGED <<event, mu>>
       ELSE ReturnFromAdd(c)
    /\ UNCHANGED <<gen, adds, eventMap, armed, dpc, triggerCh, collectorVars, batchReadyCh,
                   cancelled, owed, lastAdded, backpressured>>

\* A bug: this path returns without unlocking.
Mut_TriggerFlush(c) ==
    /\ apc[c] = "trigger"
    /\ triggerCh < TriggerCap
    /\ triggerCh' = triggerCh + 1
    /\ apc' = [apc EXCEPT ![c] = "idle"]
    /\ event' = [event EXCEPT ![c] = NoEvent]
    /\ UNCHANGED <<gen, adds, mu, eventMap, debounceVars, collectorVars, batchReadyCh,
                   cancelled, owed, lastAdded, backpressured>>

\* The send to batchTriggerCh: blocks while it is full.
TriggerFlush(c) ==
    /\ apc[c] = "trigger"
    /\ triggerCh < TriggerCap
    /\ triggerCh' = triggerCh + 1
    /\ ReturnFromAdd(c)
    /\ UNCHANGED <<gen, adds, eventMap, debounceVars, collectorVars, batchReadyCh,
                   cancelled, owed, lastAdded, backpressured>>

-----------------------------------------------------------------------------
\* The debouncer: the first timestamp starts the ticker, later ones do not.
TakeTimestamp ==
    /\ dpc = "wait"
    /\ timeChan > 0
    /\ timeChan' = timeChan - 1
    /\ armed' = TRUE
    /\ UNCHANGED <<gen, adds, mu, eventMap, callerVars, dpc, triggerCh, collectorVars,
                   batchReadyCh, cancelled, owed, lastAdded, backpressured>>

Tick ==
    /\ dpc = "wait"
    /\ armed
    /\ armed' = FALSE
    /\ dpc' = "callback"
    /\ UNCHANGED <<gen, adds, mu, eventMap, callerVars, timeChan, triggerCh, collectorVars,
                   batchReadyCh, cancelled, owed, lastAdded, backpressured>>

\* NewEventCollector's callback: blocks while batchTriggerCh is full.
Callback ==
    /\ dpc = "callback"
    /\ triggerCh < TriggerCap
    /\ triggerCh' = triggerCh + 1
    /\ dpc' = "wait"
    /\ UNCHANGED <<gen, adds, mu, eventMap, callerVars, timeChan, armed, collectorVars,
                   batchReadyCh, cancelled, owed, lastAdded, backpressured>>

StopDebouncer ==
    /\ dpc = "wait"
    /\ cancelled
    /\ dpc' = "stopped"
    /\ UNCHANGED <<gen, adds, mu, eventMap, callerVars, timeChan, armed, triggerCh,
                   collectorVars, batchReadyCh, cancelled, owed, lastAdded, backpressured>>

-----------------------------------------------------------------------------
\* The collector's loop, EventCollector.Start.
TakeTrigger ==
    /\ cpc = "select"
    /\ triggerCh > 0
    /\ triggerCh' = triggerCh - 1
    /\ cpc' = "flush"
    /\ UNCHANGED <<gen, adds, mu, eventMap, callerVars, debounceVars, cbatch, batchReadyCh,
                   cancelled, owed, lastAdded, backpressured>>

\* collectEventsIntoBatch: under the mutex, so one step.
Collect ==
    /\ cpc = "flush"
    /\ mu = "free"
    /\ IF eventMap = NoEvents
       THEN /\ cpc' = "select"
            /\ UNCHANGED <<eventMap, cbatch>>
       ELSE /\ cpc' = "send"
            /\ cbatch' = eventMap
            /\ eventMap' = NoEvents
    /\ UNCHANGED <<gen, adds, mu, callerVars, debounceVars, triggerCh, batchReadyCh,
                   cancelled, owed, lastAdded, backpressured>>

\* sendBatch never blocks; the mutex is free, so events arrive meanwhile.
Send ==
    /\ cpc = "send"
    /\ IF Len(batchReadyCh) < ReadyCap
       THEN /\ batchReadyCh' = Append(batchReadyCh, cbatch)
            /\ cbatch' = NoEvents
            /\ cpc' = "select"
            /\ UNCHANGED backpressured
       ELSE /\ cpc' = "putback"
            /\ backpressured' = TRUE
            /\ UNCHANGED <<batchReadyCh, cbatch>>
    /\ UNCHANGED <<gen, adds, mu, eventMap, callerVars, debounceVars, triggerCh,
                   cancelled, owed, lastAdded>>

\* A bug: the batch overwrites events that arrived while it was sent.
Mut_PutBack ==
    /\ cpc = "putback"
    /\ mu = "free"
    /\ eventMap' = [k \in Key |-> IF cbatch[k] > 0 THEN cbatch[k] ELSE eventMap[k]]
    /\ cbatch' = NoEvents
    /\ cpc' = "select"
    /\ UNCHANGED <<gen, adds, mu, callerVars, debounceVars, triggerCh, batchReadyCh,
                   cancelled, owed, lastAdded, backpressured>>

\* The batch goes back under the mutex; an event that arrived meanwhile stays
\* unless the batch has a later generation.
PutBack ==
    /\ cpc = "putback"
    /\ mu = "free"
    /\ eventMap' = [k \in Key |-> IF cbatch[k] > eventMap[k] THEN cbatch[k] ELSE eventMap[k]]
    /\ cbatch' = NoEvents
    /\ cpc' = "select"
    /\ UNCHANGED <<gen, adds, mu, callerVars, debounceVars, triggerCh, batchReadyCh,
                   cancelled, owed, lastAdded, backpressured>>

StopCollector ==
    /\ cpc = "select"
    /\ cancelled
    /\ cpc' = "stopped"
    /\ UNCHANGED <<gen, adds, mu, eventMap, callerVars, debounceVars, triggerCh, cbatch,
                   batchReadyCh, cancelled, owed, lastAdded, backpressured>>

-----------------------------------------------------------------------------
\* The orchestrator takes a batch.  A resource with another event behind it
\* is still owed one.
Receive ==
    /\ batchReadyCh # <<>>
    /\ batchReadyCh' = Tail(batchReadyCh)
    /\ owed' = {k \in owed : \/ Head(batchReadyCh)[k] = 0
                             \/ eventMap[k] > 0 \/ cbatch[k] > 0
                             \/ \E i \in 2..Len(batchReadyCh) : batchReadyCh[i][k] > 0}
    /\ UNCHANGED <<gen, adds, mu, eventMap, callerVars, debounceVars, triggerCh,
                   collectorVars, cancelled, lastAdded, backpressured>>

Cancel ==
    /\ ~cancelled
    /\ cancelled' = TRUE
    /\ UNCHANGED <<gen, adds, mu, eventMap, callerVars, debounceVars, triggerCh,
                   collectorVars, batchReadyCh, owed, lastAdded, backpressured>>

Next ==
    \/ \E k \in Key : UpdateResource(k)
    \/ \E c \in Caller, k \in Key : FetchResource(c, k)
    \/ \E c \in Caller : StoreEvent(c) \/ Debounce(c) \/ TriggerFlush(c)
    \/ TakeTimestamp \/ Tick \/ Callback \/ StopDebouncer
    \/ TakeTrigger \/ Collect \/ Send \/ PutBack \/ StopCollector
    \/ Receive \/ Cancel

Spec == Init /\ [][Next]_vars

\* Every goroutine that can run does, the ticker ticks and a select that finds
\* a case ready again and again takes it.  A goroutine that waits for the
\* mutex gets it when it is released again and again (sync.Mutex hands over to
\* the longest waiter after a millisecond), hence SF.  The orchestrator keeps
\* receiving.  Nothing forces users, reconcilers or the manager to act.
Fairness ==
    /\ \A c \in Caller : SF_vars(StoreEvent(c))
                         /\ WF_vars(Debounce(c)) /\ WF_vars(TriggerFlush(c))
    /\ WF_vars(TakeTimestamp) /\ WF_vars(Tick) /\ WF_vars(Callback)
    /\ WF_vars(TakeTrigger) /\ SF_vars(Collect) /\ WF_vars(Send) /\ SF_vars(PutBack)
    /\ WF_vars(Receive)

FairSpec == Spec /\ Fairness

-----------------------------------------------------------------------------
Generation == 0..MaxGen
Events == [Key -> Generation]

\* Types, and the discipline of EventCollector.mu: whoever is between the Lock
\* of AddEvent and its deferred Unlock holds it, and nobody else does.
TypeOK ==
    /\ gen \in [Key -> 1..MaxGen]
    /\ adds \in 0..MaxAdds
    /\ mu \in Caller \cup {"free"}
    /\ eventMap \in Events
    /\ apc \in [Caller -> {"idle", "add", "debounce", "trigger"}]
    /\ event \in [Caller -> {NoEvent} \cup (Key \X (1..MaxGen))]
    /\ \A c \in Caller : apc[c] # "idle" => event[c] \in Key \X (1..MaxGen)
    /\ \A c \in Caller : apc[c] \in {"debounce", "trigger"} <=> mu = c
    /\ timeChan \in 0..TimeCap
    /\ armed \in BOOLEAN
    /\ dpc \in {"wait", "callback", "stopped"}
    /\ triggerCh \in 0..TriggerCap
    /\ cpc \in {"select", "flush", "send", "putback", "stopped"}
    /\ cbatch \in Events
    /\ batchReadyCh \in Seq(Events) /\ Len(batchReadyCh) <= ReadyCap
    /\ cancelled \in BOOLEAN
    /\ owed \subseteq Key
    /\ lastAdded \in Events
    /\ backpressured \in BOOLEAN

\* Where an event can be between AddEvent and the orchestrator.
InPipeline(k) ==
    \/ eventMap[k] > 0
    \/ cbatch[k] > 0
    \/ \E i \in 1..Len(batchReadyCh) : batchReadyCh[i][k] > 0

\* The copy that will be processed last is not older than the last event.
NewestIsCurrent(k) ==
    IF eventMap[k] > 0 THEN eventMap[k] >= lastAdded[k]
    ELSE IF cbatch[k] > 0 THEN cbatch[k] >= lastAdded[k]
    ELSE \A i \in 1..Len(batchReadyCh) :
            /\ batchReadyCh[i][k] > 0
            /\ \A j \in (i + 1)..Len(batchReadyCh) : batchReadyCh[j][k] = 0
            => batchReadyCh[i][k] >= lastAdded[k]

(***************************************************************************)
(* No event is lost between AddEvent and the orchestrator, although the    *)
(* map is emptied before the send is known to succeed: a resource that was *)
(* added and not received since is in the map, in the collector's hands or *)
(* in a batch, and the copy processed last is at least as recent as the    *)
(* last event added, whatever sendBatch put back in between.               *)
(***************************************************************************)
NoEventLost == \A k \in owed : InPipeline(k) /\ NewestIsCurrent(k)

\* Something that will make the collector look at the event map.
FlushAhead ==
    \/ \E c \in Caller : apc[c] = "debounce"
    \/ timeChan > 0 \/ armed \/ dpc = "callback"
    \/ triggerCh > 0 \/ cpc = "flush"

(***************************************************************************)
(* No wakeup is lost: an event in the map has a timestamp, the one-shot    *)
(* ticker, its callback or a trigger before it, with both goroutines       *)
(* running, until a batch finds batchReadyCh full (its events go back      *)
(* without any, see RetriedOnNextTick) or the manager stops.               *)
(***************************************************************************)
NoWakeupLost ==
    ~backpressured /\ ~cancelled =>
        /\ dpc # "stopped" /\ cpc # "stopped"
        /\ eventMap # NoEvents => FlushAhead

(***************************************************************************)
(* The deadlock AddEvent risks by sending with the mutex held: the sender  *)
(* waits for room in batchTriggerCh, by itself or behind the debouncer,    *)
(* whose timeChan is full, and the collector, the only one to make room    *)
(* there, waits for the mutex.                                             *)
(***************************************************************************)
Wedged ==
    /\ cpc \in {"flush", "putback"}
    /\ triggerCh = TriggerCap
    /\ \E c \in Caller :
          \/ apc[c] = "trigger"
          \/ apc[c] = "debounce" /\ timeChan = TimeCap /\ dpc = "callback"

(***************************************************************************)
(* Until a batch finds batchReadyCh full or the goroutines are wedged,     *)
(* every event reaches the orchestrator: the one-shot ticker never misses  *)
(* an event added while it was running or while its callback ran.          *)
(***************************************************************************)
EventsDelivered ==
    \A k \in Key : k \in owed ~> (k \notin owed \/ backpressured \/ cancelled \/ Wedged)

(***************************************************************************)
(* AddEvent sends to two channels with the mutex held, and the reader of   *)
(* one of them needs that mutex.  It returns all the same, full channels   *)
(* included, unless the three goroutines block each other in the one way   *)
(* Wedged names: a full batchTriggerCh while the collector waits for the   *)
(* mutex.  Neither a full timeChan nor a full batchReadyCh is enough.      *)
(***************************************************************************)
AddEventReturns ==
    \A c \in Caller : apc[c] = "add" ~> (apc[c] = "idle" \/ cancelled \/ Wedged)

(***************************************************************************)
(* "Batch channel full, events will be retried on next tick"               *)
(* (collector.go:135): an event put back is sent again, with no further    *)
(* event needed.                                                           *)
(***************************************************************************)
RetriedOnNextTick ==
    \A k \in Key : k \in owed ~> (k \notin owed \/ cancelled)
=============================================================================
