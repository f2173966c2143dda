------------------------ MODULE EventCollectorProofs ------------------------
(***************************************************************************)
(* Proofs about EventCollector: for any number of resources, callers and   *)
(* generations and any capacities, no event is lost on the way to the      *)
(* orchestrator, and no event waits in the map without a wakeup ahead.     *)
(***************************************************************************)
EXTENDS EventCollector, TLAPS

\* Outside sendBatch the collector holds no events.
EmptyHands == cpc \in {"select", "flush", "stopped"} => cbatch = NoEvents

\* Of a resource that is not owed an event nothing is left in the pipeline
\* that is older than its last event either.
Freshness == \A k \in Key : NewestIsCurrent(k)

IInv ==
    /\ TypeOK
    /\ EmptyHands
    /\ \A k \in owed : InPipeline(k)
    /\ Freshness

\* An event map without events is an event map.
LEMMA EmptyMap == NoEvents \in Events /\ \A k \in Key : NoEvents[k] = 0
BY CollectorAssumption DEF NoEvents, Events, Generation

\* Everything starts empty (NewEventCollector).
LEMMA InitIInv == Init => IInv
<1> SUFFICES ASSUME Init PROVE IInv
  OBVIOUS
<1>1. TypeOK
  <2>1. /\ gen \in [Key -> 1..MaxGen] /\ adds \in 0..MaxAdds
        /\ timeChan \in 0..TimeCap /\ triggerCh \in 0..TriggerCap
    BY CollectorAssumption DEF Init
  <2>2. /\ eventMap \in Events /\ cbatch \in Events /\ lastAdded \in Events
    BY EmptyMap DEF Init
  <2>3. batchReadyCh \in Seq(Events) /\ Len(batchReadyCh) <= ReadyCap
    BY CollectorAssumption DEF Init
  <2>4. armed \in BOOLEAN /\ cancelled \in BOOLEAN /\ backpressured \in BOOLEAN
    BY Zenon DEF Init
  <2>5. /\ apc \in [Caller -> {"idle", "add", "debounce", "trigger"}]
        /\ event \in [Caller -> {NoEvent} \cup (Key \X (1..MaxGen))]
        /\ \A c \in Caller : apc[c] = "idle"
    BY DEF Init
  <2>6. /\ mu \in Caller \cup {"free"} /\ owed \subseteq Key
        /\ dpc \in {"wait", "callback", "stopped"}
        /\ cpc \in {"select", "flush", "send", "putback", "stopped"}
    BY DEF Init
  <2>7. \A c \in Caller : apc[c] \in {"debounce", "trigger"} <=> mu = c
    BY CollectorAssumption, <2>5 DEF Init
  <2> QED
    BY <2>1, <2>2, <2>3, <2>4, <2>5, <2>6, <2>7, Zenon DEF TypeOK
<1>2. EmptyHands
  BY DEF Init, EmptyHands
<1>3. \A k \in owed : InPipeline(k)
  BY DEF Init
<1>4. Freshness
  BY EmptyMap DEF Init, Freshness, NewestIsCurrent
<1> QED
  BY <1>1, <1>2, <1>3, <1>4 DEF IInv

\* The pipeline is as it was: so are the three facts about it.
LEMMA PipelineUntouched ==
    ASSUME IInv, TypeOK',
           UNCHANGED <<eventMap, collectorVars, batchReadyCh, owed, lastAdded>>
    PROVE  IInv'
<1> USE DEF IInv, collectorVars
<1>1. EmptyHands'
  BY DEF EmptyHands, NoEvents
<1>2. (\A k \in owed : InPipeline(k))'
  BY DEF InPipeline
<1>3. Freshness'
  BY DEF Freshness, NewestIsCurrent
<1> QED
  BY <1>1, <1>2, <1>3

\* Steps of users, callers and the debouncer that leave the pipeline alone.
LEMMA OtherSteps ==
    ASSUME IInv,
           \/ \E k \in Key : UpdateResource(k)
           \/ \E c \in Caller, k \in Key : FetchResource(c, k)
           \/ \E c \in Caller : Debounce(c) \/ TriggerFlush(c)
           \/ TakeTimestamp \/ Tick \/ Callback \/ StopDebouncer
           \/ Cancel
    PROVE  IInv'
<1> USE CollectorAssumption DEF IInv
<1>1. ASSUME NEW k \in Key, UpdateResource(k) PROVE IInv'
  <2>1. TypeOK'
    BY <1>1 DEF UpdateResource, TypeOK, callerVars, debounceVars, collectorVars
  <2> QED
    BY <1>1, <2>1, PipelineUntouched DEF UpdateResource
<1>2. ASSUME NEW c \in Caller, NEW k \in Key, FetchResource(c, k) PROVE IInv'
  <2>1. <<k, gen[k]>> \in Key \X (1..MaxGen)
    BY DEF TypeOK
  <2>2. TypeOK'
    BY <1>2, <2>1 DEF FetchResource, TypeOK, debounceVars, collectorVars
  <2> QED
    BY <1>2, <2>2, PipelineUntouched DEF FetchResource
<1>3. ASSUME NEW c \in Caller, Debounce(c) PROVE IInv'
  <2>1. /\ apc' \in [Caller -> {"idle", "add", "debounce", "trigger"}]
        /\ event' \in [Caller -> {NoEvent} \cup (Key \X (1..MaxGen))]
        /\ \A d \in Caller : apc'[d] # "idle" => event'[d] \in Key \X (1..MaxGen)
        /\ mu' \in Caller \cup {"free"}
    BY <1>3 DEF Debounce, ReturnFromAdd, TypeOK
  <2>2. timeChan' \in 0..TimeCap
    BY <1>3 DEF Debounce, TypeOK
  <2>m. \A d \in Caller : apc'[d] \in {"debounce", "trigger"} <=> mu' = d
    <3>1. mu = c
      BY <1>3 DEF Debounce, TypeOK
    <3> QED
      BY <1>3, <3>1 DEF Debounce, ReturnFromAdd, TypeOK
  <2>3. TypeOK'
    BY <1>3, <2>1, <2>2, <2>m DEF Debounce, TypeOK, collectorVars
  <2> QED
    BY <1>3, <2>3, PipelineUntouched DEF Debounce
<1>4. ASSUME NEW c \in Caller, TriggerFlush(c) PROVE IInv'
  <2>1. TypeOK'
    BY <1>4 DEF TriggerFlush, ReturnFromAdd, TypeOK, debounceVars, collectorVars
  <2> QED
    BY <1>4, <2>1, PipelineUntouched DEF TriggerFlush
<1>5. ASSUME TakeTimestamp \/ Tick \/ Callback \/ StopDebouncer \/ Cancel PROVE IInv'
  <2>1. TypeOK'
    <3> USE DEF TypeOK, callerVars, debounceVars, collectorVars
    <3>1. CASE TakeTimestamp
      BY <3>1 DEF TakeTimestamp
    <3>2. CASE Tick
      BY <3>2 DEF Tick
    <3>3. CASE Callback
      BY <3>3 DEF Callback
    <3>4. CASE StopDebouncer
      BY <3>4 DEF StopDebouncer
    <3>5. CASE Cancel
      BY <3>5 DEF Cancel
    <3> QED
      BY <1>5, <3>1, <3>2, <3>3, <3>4, <3>5
  <2>2. UNCHANGED <<eventMap, collectorVars, batchReadyCh, owed, lastAdded>>
    BY <1>5 DEF TakeTimestamp, Tick, Callback, StopDebouncer, Cancel
  <2> QED
    BY <2>1, <2>2, PipelineUntouched
<1> QED
  BY <1>1, <1>2, <1>3, <1>4, <1>5

\* AddEvent stores an event: its resource becomes owed one, and the map has it.
LEMMA StoreEventIInv ==
    ASSUME IInv, NEW c \in Caller, StoreEvent(c)
    PROVE  IInv'
<1> USE CollectorAssumption DEF IInv
<1>1. PICK k \in Key, g \in 1..MaxGen :
         /\ eventMap' = [eventMap EXCEPT ![k] = g]
         /\ owed' = owed \cup {k}
         /\ lastAdded' = [lastAdded EXCEPT ![k] = g]
  <2>1. event[c] \in Key \X (1..MaxGen)
    BY DEF StoreEvent, TypeOK
  <2> QED
    BY <2>1 DEF StoreEvent
<1>2. TypeOK'
  <2>1. /\ apc' \in [Caller -> {"idle", "add", "debounce", "trigger"}]
        /\ mu' \in Caller \cup {"free"}
        /\ \A d \in Caller : apc'[d] # "idle" => event[d] \in Key \X (1..MaxGen)
        /\ \A d \in Caller : apc'[d] \in {"debounce", "trigger"} <=> mu' = d
    BY DEF StoreEvent, TypeOK
  <2>2. eventMap' \in Events /\ lastAdded' \in Events /\ owed' \subseteq Key
    BY <1>1 DEF TypeOK, Events, Generation
  <2> QED
    BY <2>1, <2>2 DEF StoreEvent, TypeOK, debounceVars, collectorVars
<1>3. EmptyHands'
  BY DEF StoreEvent, EmptyHands, NoEvents, collectorVars
<1>4. (\A j \in owed : InPipeline(j))'
  <2> SUFFICES ASSUME NEW j \in owed' PROVE InPipeline(j)'
    OBVIOUS
  <2>1. CASE j = k
    BY <1>1, <2>1 DEF InPipeline, TypeOK, Events
  <2>2. CASE j # k
    <3>1. InPipeline(j) /\ eventMap'[j] = eventMap[j]
      BY <1>1, <2>2 DEF TypeOK, Events
    <3>2. cbatch' = cbatch /\ batchReadyCh' = batchReadyCh
      BY DEF StoreEvent, collectorVars
    <3> QED
      BY <3>1, <3>2 DEF InPipeline
  <2> QED
    BY <2>1, <2>2
<1>5. Freshness'
  <2> SUFFICES ASSUME NEW j \in Key PROVE NewestIsCurrent(j)'
    BY DEF Freshness
  <2>1. CASE j = k
    BY <1>1, <2>1 DEF NewestIsCurrent, TypeOK, Events, Generation
  <2>2. CASE j # k
    <3>1. eventMap'[j] = eventMap[j] /\ lastAdded'[j] = lastAdded[j]
      BY <1>1, <2>2 DEF TypeOK, Events
    <3>2. cbatch' = cbatch /\ batchReadyCh' = batchReadyCh
      BY DEF StoreEvent, collectorVars
    <3> QED
      BY <3>1, <3>2 DEF NewestIsCurrent, Freshness
  <2> QED
    BY <2>1, <2>2
<1> QED
  BY <1>2, <1>3, <1>4, <1>5

\* The collector empties the map into its hands.
LEMMA CollectIInv ==
    ASSUME IInv, Collect
    PROVE  IInv'
<1> USE CollectorAssumption DEF IInv
<1>1. CASE eventMap = NoEvents
  <2>1. cpc' = "select" /\ UNCHANGED <<eventMap, cbatch>>
    BY <1>1 DEF Collect
  <2>2. TypeOK'
    BY <2>1 DEF Collect, TypeOK, callerVars, debounceVars
  <2>3. EmptyHands'
    BY <2>1 DEF Collect, EmptyHands, NoEvents
  <2>4. (\A k \in owed : InPipeline(k))'
    BY <2>1 DEF Collect, InPipeline
  <2>5. Freshness'
    BY <2>1 DEF Collect, Freshness, NewestIsCurrent
  <2> QED
    BY <2>2, <2>3, <2>4, <2>5
<1>2. CASE eventMap # NoEvents
  <2>1. /\ cpc' = "send" /\ cbatch' = eventMap /\ eventMap' = NoEvents
        /\ UNCHANGED <<batchReadyCh, owed, lastAdded>>
    BY <1>2 DEF Collect
  <2>2. cbatch = NoEvents
    BY DEF Collect, EmptyHands
  <2>3. TypeOK'
    BY <2>1, EmptyMap DEF Collect, TypeOK, callerVars, debounceVars
  <2>4. EmptyHands'
    BY <2>1 DEF EmptyHands
  <2>5. \A k \in Key : /\ eventMap'[k] = 0 /\ cbatch'[k] = eventMap[k]
                       /\ cbatch[k] = 0 /\ eventMap[k] \in Nat
    BY <2>1, <2>2, EmptyMap DEF TypeOK, Events, Generation
  <2>6. (\A k \in owed : InPipeline(k))'
    <3> SUFFICES ASSUME NEW k \in owed PROVE InPipeline(k)'
      BY <2>1
    <3>1. k \in Key
      BY DEF TypeOK
    <3> QED
      BY <2>1, <2>5, <3>1 DEF InPipeline
  <2>7. Freshness'
    <3> SUFFICES ASSUME NEW k \in Key PROVE NewestIsCurrent(k)'
      BY DEF Freshness
    <3>1. NewestIsCurrent(k)
      BY DEF Freshness
    <3>2. lastAdded' = lastAdded /\ batchReadyCh' = batchReadyCh
      BY <2>1
    <3> QED
      BY <2>5, <3>1, <3>2 DEF NewestIsCurrent
  <2> QED
    BY <2>3, <2>4, <2>6, <2>7
<1> QED
  BY <1>1, <1>2

\* The batch joins the channel behind all others, or stays in hand.
LEMMA SendIInv ==
    ASSUME IInv, Send
    PROVE  IInv'
<1> USE CollectorAssumption DEF IInv
<1>0. /\ cbatch \in Events /\ eventMap \in Events /\ lastAdded \in Events
      /\ batchReadyCh \in Seq(Events)
  BY DEF TypeOK
<1>1. CASE Len(batchReadyCh) < ReadyCap
  <2>1. /\ batchReadyCh' = Append(batchReadyCh, cbatch)
        /\ cbatch' = NoEvents /\ cpc' = "select"
        /\ UNCHANGED <<eventMap, owed, lastAdded, backpressured>>
    BY <1>1 DEF Send
  <2> DEFINE n == Len(batchReadyCh)
  <2>2. /\ n \in Nat /\ Len(batchReadyCh') = n + 1
        /\ batchReadyCh'[n + 1] = cbatch
        /\ \A i \in 1..n : batchReadyCh'[i] = batchReadyCh[i]
        /\ batchReadyCh' \in Seq(Events)
    BY <1>0, <2>1
  <2>3. TypeOK'
    BY <1>1, <2>1, <2>2, EmptyMap DEF Send, TypeOK, callerVars, debounceVars
  <2>4. EmptyHands'
    BY <2>1 DEF EmptyHands, NoEvents
  <2>5. (\A k \in owed : InPipeline(k))'
    <3> SUFFICES ASSUME NEW k \in owed PROVE InPipeline(k)'
      BY <2>1
    <3>1. InPipeline(k)
      OBVIOUS
    <3>2. CASE cbatch[k] > 0
      <4>1. n + 1 \in 1..Len(batchReadyCh') /\ batchReadyCh'[n + 1][k] > 0
        BY <2>2, <3>2
      <4> QED
        BY <4>1 DEF InPipeline
    <3>3. CASE eventMap[k] > 0
      BY <2>1, <3>3 DEF InPipeline
    <3>4. ASSUME NEW i \in 1..n, batchReadyCh[i][k] > 0 PROVE InPipeline(k)'
      <4>1. i \in 1..Len(batchReadyCh') /\ batchReadyCh'[i][k] > 0
        BY <2>2, <3>4
      <4> QED
        BY <4>1 DEF InPipeline
    <3> QED
      BY <3>1, <3>2, <3>3, <3>4 DEF InPipeline
  <2>6. Freshness'
    <3> SUFFICES ASSUME NEW k \in Key PROVE NewestIsCurrent(k)'
      BY DEF Freshness
    <3>1. NewestIsCurrent(k)
      BY DEF Freshness
    <3>2. eventMap'[k] = eventMap[k] /\ lastAdded'[k] = lastAdded[k] /\ cbatch'[k] = 0
      BY <2>1, EmptyMap
    <3>3. eventMap[k] \in Nat /\ cbatch[k] \in Nat /\ lastAdded[k] \in Nat
      BY <1>0 DEF Events, Generation
    <3>4. CASE eventMap[k] > 0
      BY <3>1, <3>2, <3>4 DEF NewestIsCurrent
    <3>5. CASE eventMap[k] = 0
      <4> SUFFICES ASSUME NEW i \in 1..Len(batchReadyCh'), batchReadyCh'[i][k] > 0,
                          \A j \in (i + 1)..Len(batchReadyCh') : batchReadyCh'[j][k] = 0
                   PROVE  batchReadyCh'[i][k] >= lastAdded[k]
        BY <3>2, <3>5 DEF NewestIsCurrent
      <4>1. CASE i = n + 1
        BY <2>2, <3>1, <3>5, <4>1 DEF NewestIsCurrent
      <4>2. CASE i # n + 1
        <5>1. i \in 1..n /\ n + 1 \in (i + 1)..Len(batchReadyCh')
          BY <2>2, <4>2
        <5>2. cbatch[k] = 0
          BY <2>2, <5>1
        <5>3. \A j \in (i + 1)..n : batchReadyCh[j][k] = 0
          BY <2>2, <5>1
        <5>4. batchReadyCh[i][k] > 0
          BY <2>2, <5>1
        <5>5. batchReadyCh[i][k] >= lastAdded[k]
          BY <3>1, <3>5, <5>1, <5>2, <5>3, <5>4 DEF NewestIsCurrent
        <5> QED
          BY <2>2, <5>1, <5>5
      <4> QED
        BY <4>1, <4>2
    <3> QED
      BY <3>3, <3>4, <3>5
  <2> QED
    BY <2>3, <2>4, <2>5, <2>6
<1>2. CASE ~(Len(batchReadyCh) < ReadyCap)
  <2>1. /\ cpc' = "putback" /\ backpressured' = TRUE
        /\ UNCHANGED <<batchReadyCh, cbatch, eventMap, owed, lastAdded>>
    BY <1>2 DEF Send
  <2>2. TypeOK'
    BY <2>1 DEF Send, TypeOK, callerVars, debounceVars
  <2>3. EmptyHands'
    BY <2>1 DEF EmptyHands
  <2>4. (\A k \in owed : InPipeline(k))'
    BY <2>1 DEF InPipeline
  <2>5. Freshness'
    BY <2>1 DEF Freshness, NewestIsCurrent
  <2> QED
    BY <2>2, <2>3, <2>4, <2>5
<1> QED
  BY <1>1, <1>2

\* sendBatch puts the batch back: the later generation of two survives.
LEMMA PutBackIInv ==
    ASSUME IInv, PutBack
    PROVE  IInv'
<1> USE CollectorAssumption DEF IInv
<1>1. /\ \A k \in Key : eventMap'[k] = IF cbatch[k] > eventMap[k] THEN cbatch[k]
                                                                 ELSE eventMap[k]
      /\ cbatch' = NoEvents /\ cpc' = "select"
      /\ UNCHANGED <<batchReadyCh, owed, lastAdded>>
  BY DEF PutBack
<1>2. \A k \in Key : /\ eventMap[k] \in Nat /\ cbatch[k] \in Nat /\ lastAdded[k] \in Nat
                     /\ cbatch'[k] = 0
  BY <1>1, EmptyMap DEF TypeOK, Events, Generation
<1>3. TypeOK'
  <2>1. eventMap' \in Events
    BY DEF PutBack, TypeOK, Events
  <2> QED
    BY <1>1, <2>1, EmptyMap DEF PutBack, TypeOK, callerVars, debounceVars
<1>4. EmptyHands'
  BY <1>1 DEF EmptyHands, NoEvents
<1>5. (\A k \in owed : InPipeline(k))'
  <2> SUFFICES ASSUME NEW k \in owed PROVE InPipeline(k)'
    BY <1>1
  <2>1. k \in Key /\ InPipeline(k)
    BY DEF TypeOK
  <2> QED
    BY <1>1, <1>2, <2>1 DEF InPipeline
<1>6. Freshness'
  <2> SUFFICES ASSUME NEW k \in Key PROVE NewestIsCurrent(k)'
    BY DEF Freshness
  <2>1. NewestIsCurrent(k)
    BY DEF Freshness
  <2>2. lastAdded' = lastAdded /\ batchReadyCh' = batchReadyCh
    BY <1>1
  <2>3. CASE eventMap'[k] = 0
    <3>1. eventMap[k] = 0 /\ cbatch[k] = 0
      BY <1>1, <1>2, <2>3
    <3> QED
      BY <1>2, <2>1, <2>2, <2>3, <3>1 DEF NewestIsCurrent
  <2>4. CASE eventMap'[k] # 0
    <3>1. eventMap'[k] > 0 /\ eventMap'[k] >= lastAdded[k]
      BY <1>1, <1>2, <2>1, <2>4 DEF NewestIsCurrent
    <3> QED
      BY <2>2, <3>1 DEF NewestIsCurrent
  <2> QED
    BY <2>3, <2>4
<1> QED
  BY <1>3, <1>4, <1>5, <1>6

\* EventCollector.Start takes a trigger: the collector still holds nothing.
LEMMA TakeTriggerIInv ==
    ASSUME IInv, TakeTrigger \/ StopCollector
    PROVE  IInv'
<1> USE CollectorAssumption DEF IInv
<1>1. /\ cpc = "select" /\ cpc' \in {"flush", "stopped"}
      /\ UNCHANGED <<eventMap, cbatch, batchReadyCh, owed, lastAdded>>
  BY DEF TakeTrigger, StopCollector
<1>2. TypeOK'
  BY <1>1 DEF TakeTrigger, StopCollector, TypeOK, callerVars, debounceVars
<1>3. EmptyHands'
  BY <1>1 DEF EmptyHands, NoEvents
<1>4. (\A k \in owed : InPipeline(k))'
  BY <1>1 DEF InPipeline
<1>5. Freshness'
  BY <1>1 DEF Freshness, NewestIsCurrent
<1> QED
  BY <1>2, <1>3, <1>4, <1>5

\* The orchestrator takes the first batch; the others move up.
LEMMA ReceiveIInv ==
    ASSUME IInv, Receive
    PROVE  IInv'
<1> USE CollectorAssumption DEF IInv
<1>1. /\ batchReadyCh # <<>> /\ batchReadyCh' = Tail(batchReadyCh)
      /\ UNCHANGED <<eventMap, cbatch, cpc, lastAdded>>
  BY DEF Receive, collectorVars
<1> DEFINE n == Len(batchReadyCh)
<1>2. /\ n \in Nat /\ n > 0 /\ Len(batchReadyCh') = n - 1
      /\ \A i \in 1..(n - 1) : batchReadyCh'[i] = batchReadyCh[i + 1]
      /\ batchReadyCh' \in Seq(Events)
      /\ Head(batchReadyCh) = batchReadyCh[1]
  BY <1>1 DEF TypeOK
<1>3. owed' \subseteq owed
  BY DEF Receive
<1>4. TypeOK'
  BY <1>1, <1>2, <1>3 DEF Receive, TypeOK, callerVars, debounceVars, collectorVars
<1>5. EmptyHands'
  BY <1>1 DEF EmptyHands, NoEvents
<1>6. (\A k \in owed : InPipeline(k))'
  <2> SUFFICES ASSUME NEW k \in owed' PROVE InPipeline(k)'
    OBVIOUS
  <2>1. InPipeline(k) /\ k \in Key
    BY <1>3 DEF TypeOK
  <2>2. CASE eventMap[k] > 0 \/ cbatch[k] > 0
    BY <1>1, <2>2 DEF InPipeline
  <2>3. ASSUME NEW i \in 2..n, batchReadyCh[i][k] > 0 PROVE InPipeline(k)'
    <3>1. i - 1 \in 1..(n - 1) /\ batchReadyCh'[i - 1] = batchReadyCh[i]
      BY <1>2
    <3> QED
      BY <1>2, <2>3, <3>1 DEF InPipeline
  <2>4. CASE batchReadyCh[1][k] = 0
    <3>1. CASE \E i \in 1..n : batchReadyCh[i][k] > 0
      <4>1. PICK i \in 1..n : batchReadyCh[i][k] > 0
        BY <3>1
      <4>2. i \in 2..n
        BY <1>2, <2>4, <4>1
      <4> QED
        BY <2>3, <4>1, <4>2
    <3> QED
      BY <2>1, <2>2, <3>1 DEF InPipeline
  <2> QED
    BY <1>2, <2>2, <2>3, <2>4 DEF Receive
<1>7. Freshness'
  <2> SUFFICES ASSUME NEW k \in Key PROVE NewestIsCurrent(k)'
    BY DEF Freshness
  <2>1. NewestIsCurrent(k)
    BY DEF Freshness
  <2>2. CASE eventMap[k] > 0 \/ cbatch[k] > 0
    BY <1>1, <2>1, <2>2 DEF NewestIsCurrent
  <2>3. CASE ~(eventMap[k] > 0) /\ ~(cbatch[k] > 0)
    <3> SUFFICES ASSUME NEW i \in 1..(n - 1), batchReadyCh'[i][k] > 0,
                        \A j \in (i + 1)..(n - 1) : batchReadyCh'[j][k] = 0
                 PROVE  batchReadyCh'[i][k] >= lastAdded[k]
      BY <1>1, <1>2, <2>3 DEF NewestIsCurrent
    <3>1. i + 1 \in 1..n /\ batchReadyCh'[i] = batchReadyCh[i + 1]
      BY <1>2
    <3>2. ASSUME NEW j \in (i + 1 + 1)..n PROVE batchReadyCh[j][k] = 0
      <4>1. j - 1 \in (i + 1)..(n - 1) /\ j - 1 \in 1..(n - 1) /\ (j - 1) + 1 = j
        BY <1>2
      <4>2. batchReadyCh'[j - 1] = batchReadyCh[j]
        BY <1>2, <4>1
      <4> QED
        BY <4>1, <4>2
    <3> QED
      BY <2>1, <2>3, <3>1, <3>2 DEF NewestIsCurrent
  <2> QED
    BY <2>2, <2>3
<1> QED
  BY <1>4, <1>5, <1>6, <1>7

\* Every step of callers, debouncer, collector and orchestrator keeps it.
LEMMA NextIInv == IInv /\ [Next]_vars => IInv'
<1> SUFFICES ASSUME IInv, [Next]_vars PROVE IInv'
  OBVIOUS
<1>1. CASE UNCHANGED vars
  <2>1. TypeOK'
    BY <1>1 DEF IInv, TypeOK, vars, callerVars, debounceVars, collectorVars
  <2> QED
    BY <1>1, <2>1, PipelineUntouched DEF vars
<1>2. CASE Next
  BY <1>2, OtherSteps, StoreEventIInv, TakeTriggerIInv, CollectIInv, SendIInv,
     PutBackIInv, ReceiveIInv DEF Next
<1> QED
  BY <1>1, <1>2

(***************************************************************************)
(* The inductive invariant holds: besides NoEventLost, the collector's     *)
(* hands are empty outside sendBatch (else collecting would overwrite a    *)
(* batch), and no stale copy is last in the pipeline of any resource.      *)
(***************************************************************************)
THEOREM PipelineInvariant == Spec => []IInv
BY InitIInv, NextIInv, PTL DEF Spec

(***************************************************************************)
(* No event is lost between AddEvent and the orchestrator, for every       *)
(* number of resources and callers and every capacity of the channels.     *)
(***************************************************************************)
THEOREM EventsKept == Spec => []NoEventLost
<1>1. IInv => NoEventLost
  BY DEF IInv, NoEventLost, Freshness, TypeOK
<1> QED
  BY <1>1, PipelineInvariant, PTL

(***************************************************************************)
(* Type correctness, and the mutex: it is held by exactly the caller that  *)
(* is inside AddEvent, on both of its ways out.                            *)
(***************************************************************************)
THEOREM TypeCorrect == Spec => []TypeOK
<1>1. IInv => TypeOK
  BY DEF IInv
<1> QED
  BY <1>1, PipelineInvariant, PTL

\* The collector puts a batch back only after it found batchReadyCh full.
WakeInv ==
    /\ TypeOK
    /\ cpc = "putback" => backpressured
    /\ NoWakeupLost

\* Nothing is in the map at first.
LEMMA InitWakeInv == Init => WakeInv
<1> SUFFICES ASSUME Init PROVE WakeInv
  OBVIOUS
<1>1. TypeOK
  BY InitIInv DEF IInv
<1>2. NoWakeupLost /\ cpc # "putback"
  BY DEF Init, NoWakeupLost
<1> QED
  BY <1>1, <1>2 DEF WakeInv

\* Each wakeup is handed on: the caller that stored an event leaves a
\* timestamp, that arms the ticker, the tick calls back, the callback triggers,
\* the trigger makes the collector look, and then the map is empty.
LEMMA NextWakeInv == WakeInv /\ TypeOK' /\ [Next]_vars => WakeInv'
<1> SUFFICES ASSUME WakeInv, TypeOK', [Next]_vars PROVE WakeInv'
  OBVIOUS
<1> USE CollectorAssumption DEF WakeInv
<1>1. CASE UNCHANGED vars
  <2>1. FlushAhead => FlushAhead'
    BY <1>1 DEF FlushAhead, vars, callerVars, debounceVars, collectorVars
  <2> QED
    BY <1>1, <2>1 DEF NoWakeupLost, NoEvents, vars, debounceVars, collectorVars
<1>2. ASSUME NEW k \in Key, UpdateResource(k) PROVE WakeInv'
  <2>1. FlushAhead => FlushAhead'
    BY <1>2 DEF UpdateResource, FlushAhead, callerVars, debounceVars, collectorVars
  <2> QED
    BY <1>2, <2>1 DEF UpdateResource, NoWakeupLost, NoEvents, debounceVars, collectorVars
<1>3. ASSUME NEW c \in Caller, NEW k \in Key, FetchResource(c, k) PROVE WakeInv'
  <2>1. \A d \in Caller : apc[d] = "debounce" => apc'[d] = "debounce"
    BY <1>3 DEF FetchResource, TypeOK
  <2>2. FlushAhead => FlushAhead'
    BY <1>3, <2>1 DEF FetchResource, FlushAhead, debounceVars, collectorVars
  <2> QED
    BY <1>3, <2>2 DEF FetchResource, NoWakeupLost, NoEvents, debounceVars, collectorVars
<1>4. ASSUME NEW c \in Caller, StoreEvent(c) PROVE WakeInv'
  <2>1. apc'[c] = "debounce"
    BY <1>4 DEF StoreEvent, TypeOK
  <2>2. FlushAhead'
    BY <2>1 DEF FlushAhead
  <2> QED
    BY <1>4, <2>2 DEF StoreEvent, NoWakeupLost, debounceVars, collectorVars
<1>5. ASSUME NEW c \in Caller, Debounce(c) PROVE WakeInv'
  <2>1. timeChan' > 0
    BY <1>5 DEF Debounce, TypeOK
  <2>2. FlushAhead'
    BY <2>1 DEF FlushAhead
  <2> QED
    BY <1>5, <2>2 DEF Debounce, NoWakeupLost, collectorVars
<1>6. ASSUME NEW c \in Caller, TriggerFlush(c) PROVE WakeInv'
  <2>1. triggerCh' > 0
    BY <1>6 DEF TriggerFlush, TypeOK
  <2>2. FlushAhead'
    BY <2>1 DEF FlushAhead
  <2> QED
    BY <1>6, <2>2 DEF TriggerFlush, NoWakeupLost, debounceVars, collectorVars
<1>7. CASE TakeTimestamp
  <2>1. FlushAhead'
    BY <1>7 DEF TakeTimestamp, FlushAhead
  <2> QED
    BY <1>7, <2>1 DEF TakeTimestamp, NoWakeupLost, collectorVars
<1>8. CASE Tick
  <2>1. FlushAhead'
    BY <1>8 DEF Tick, FlushAhead
  <2> QED
    BY <1>8, <2>1 DEF Tick, NoWakeupLost, collectorVars
<1>9. CASE Callback
  <2>1. triggerCh' > 0
    BY <1>9 DEF Callback, TypeOK
  <2>2. FlushAhead'
    BY <2>1 DEF FlushAhead
  <2> QED
    BY <1>9, <2>2 DEF Callback, NoWakeupLost, collectorVars
<1>10. CASE StopDebouncer \/ StopCollector \/ Cancel
  <2>1. cancelled'
    BY <1>10 DEF StopDebouncer, StopCollector, Cancel
  <2>2. cpc' = "putback" => cpc = "putback" /\ backpressured' = backpressured
    BY <1>10 DEF StopDebouncer, StopCollector, Cancel, collectorVars
  <2> QED
    BY <2>1, <2>2 DEF NoWakeupLost
<1>11. CASE TakeTrigger
  <2>1. FlushAhead'
    BY <1>11 DEF TakeTrigger, FlushAhead
  <2> QED
    BY <1>11, <2>1 DEF TakeTrigger, NoWakeupLost, debounceVars
<1>12. CASE Collect
  <2>1. eventMap' = NoEvents
    BY <1>12 DEF Collect
  <2> QED
    BY <1>12, <2>1 DEF Collect, NoWakeupLost, NoEvents, debounceVars
<1>13. CASE Send
  <2>1. CASE Len(batchReadyCh) < ReadyCap
    <3>1. cpc' = "select" /\ UNCHANGED <<backpressured, cancelled, eventMap, dpc>>
      BY <1>13, <2>1 DEF Send, debounceVars
    <3>2. FlushAhead => FlushAhead'
      BY <1>13 DEF Send, FlushAhead, callerVars, debounceVars
    <3> QED
      BY <1>13, <3>1, <3>2 DEF NoWakeupLost, NoEvents
  <2>2. CASE ~(Len(batchReadyCh) < ReadyCap)
    BY <1>13, <2>2 DEF Send, NoWakeupLost
  <2> QED
    BY <2>1, <2>2
<1>14. CASE PutBack
  BY <1>14 DEF PutBack, NoWakeupLost
<1>15. CASE Receive
  <2>1. FlushAhead => FlushAhead'
    BY <1>15 DEF Receive, FlushAhead, callerVars, debounceVars, collectorVars
  <2> QED
    BY <1>15, <2>1 DEF Receive, NoWakeupLost, NoEvents, debounceVars, collectorVars
<1> QED
  BY <1>1, <1>2, <1>3, <1>4, <1>5, <1>6, <1>7, <1>8, <1>9, <1>10, <1>11, <1>12, <1>13, <1>14,
     <1>15 DEF Next

(***************************************************************************)
(* An event in the map never waits without a wakeup ahead: the one-shot    *)
(* ticker of the debouncer, started by the first event and not restarted   *)
(* by later ones, misses none of them.                                     *)
(***************************************************************************)
THEOREM WakeupsKept == Spec => []NoWakeupLost
<1>1. WakeInv => NoWakeupLost
  BY DEF WakeInv
<1> QED
  BY <1>1, TypeCorrect, InitWakeInv, NextWakeInv, PTL DEF Spec
=============================================================================
