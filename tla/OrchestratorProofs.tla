------------------------- MODULE OrchestratorProofs -------------------------
(***************************************************************************)
(* No batch is lost, no retry misses its batch, nothing is left behind and *)
(* the lifecycle is implemented, for every number of batches, retries,     *)
(* stages and every channel capacity.                                      *)
(*                                                                         *)
(* The invariants are not inductive by themselves: they need to know where *)
(* a batch may be (at most one of: unsent, in the channel, with one of the *)
(* workers, waiting, queued), what its counters are there, and that the    *)
(* workqueue's processing set is what the retry worker holds.              *)
(***************************************************************************)
EXTENDS Orchestrator, TLAPS

NoDup(s) == \A i, j \in 1..Len(s) : s[i] = s[j] => i = j

Held(b) == \E w \in Worker : cur[w] = b

\* A batch nobody has attempted yet.
Fresh(b) ==
    /\ attempts[b] = 0 /\ requeues[b] = 0 /\ outcome[b] = "none"
    /\ b \notin batches \cup waiting \cup dirty
    /\ ~Held(b)

\* A batch that failed and will be tried again.
Retrying(b) ==
    /\ b \in seen /\ b \in batches
    /\ outcome[b] = "none"
    /\ requeues[b] = attempts[b] /\ attempts[b] <= MaxRetries

\* A batch that is over.
Over(b) ==
    /\ outcome[b] # "none"
    /\ b \notin batches /\ requeues[b] = 0

\* What a worker's position says about its batch.
HeldInv(w, b) ==
    /\ b \in seen
    /\ pc[w] = "lookup" => Retrying(b)
    /\ pc[w] \in {"stage", "addMap", "addQueue"} =>
          outcome[b] = "none" /\ attempts[b] = requeues[b] + 1
    /\ pc[w] \in {"addMap", "addQueue"} => attempts[b] <= MaxRetries
    /\ pc[w] = "addQueue" => b \in batches
    /\ pc[w] \in {"forget", "forgetQueue"} => outcome[b] # "none"
    /\ pc[w] = "forgetQueue" => b \notin batches
    /\ pc[w] \in {"rebuild", "requeue"} => Over(b) /\ outcome[b] = "failed"
    /\ pc[w] = "done" =>
          Over(b) \/ (Retrying(b) /\ (b \in waiting \cup dirty \/ queueDown))

\* What is known of one batch.
BatchInv(b) ==
    /\ b \notin seen => Fresh(b) /\ b \notin Elements(batchChan)
    /\ b \in Elements(batchChan) => Fresh(b)
    /\ b \in waiting \cup dirty => Retrying(b) /\ b # cur[Main]
    /\ b \notin waiting \cap dirty
    /\ b \in dirty => b \in Elements(queue) \/ b = cur[Retry]
    /\ b = cur[Retry] /\ b \in waiting \cup dirty => pc[Retry] = "done"
    /\ b = cur[Retry] => b \notin Elements(queue)
    /\ \A w \in Worker : cur[w] = b => HeldInv(w, b)
    /\ outcome[b] # "none" /\ ~Held(b) => Over(b)
    /\ b \in seen /\ outcome[b] = "none" =>
          \/ b \in Elements(batchChan) \/ Held(b) \/ b \in waiting
          \/ b \in Elements(queue) \/ queueDown

\* What is known of the queues and the workers.
Shape ==
    /\ NoDup(batchChan) /\ NoDup(queue)
    /\ pc[Main] \notin {"lookup", "done"}
    /\ \A w \in Worker : cur[w] = NoBatch <=> pc[w] \in {"next", "stopped"}
    /\ cur[Main] = cur[Retry] => cur[Main] = NoBatch
    /\ processing = {cur[Retry]} \ {NoBatch}
    /\ Elements(queue) \subseteq dirty

\* TypeOK without the flags, which no other part needs.
Typed ==
    /\ seen \subseteq Batch
    /\ batchChan \in Seq(Batch) /\ queue \in Seq(Batch)
    /\ pc \in [Worker -> {"next", "lookup", "stage", "addMap", "addQueue", "forget",
                          "forgetQueue", "rebuild", "requeue", "done", "stopped"}]
    /\ cur \in [Worker -> Batch \cup {NoBatch}]
    /\ stage \in [Worker -> 0..NumStages]
    /\ batches \subseteq Batch
    /\ dirty \subseteq Batch /\ processing \subseteq Batch /\ waiting \subseteq Batch
    /\ requeues \in [Batch -> 0..MaxRetries]
    /\ attempts \in [Batch -> 0..(MaxRetries + 1)]
    /\ outcome \in [Batch -> {"none", "succeeded", "failed"}]
    /\ requeued \subseteq Batch

IInv == Typed /\ Shape /\ \A b \in Batch : BatchInv(b)

-----------------------------------------------------------------------------
(***************************************************************************)
(* Appending adds one element.                                             *)
(***************************************************************************)
LEMMA AppendElements ==
    ASSUME NEW s \in Seq(Batch), NEW b \in Batch
    PROVE  /\ Append(s, b) \in Seq(Batch)
           /\ Elements(Append(s, b)) = Elements(s) \cup {b}
           /\ NoDup(s) /\ b \notin Elements(s) => NoDup(Append(s, b))
<1>1. /\ Append(s, b) \in Seq(Batch)
      /\ Len(Append(s, b)) = Len(s) + 1
      /\ \A i \in 1..Len(s) : Append(s, b)[i] = s[i]
      /\ Append(s, b)[Len(s) + 1] = b
      /\ Len(s) \in Nat
  OBVIOUS
<1> DEFINE t == Append(s, b)
<1> HIDE DEF t
<1>2. Elements(t) = Elements(s) \cup {b}
  <2>1. ASSUME NEW x \in Elements(t) PROVE x \in Elements(s) \cup {b}
    <3>1. PICK i \in 1..Len(t) : x = t[i]
      BY <2>1 DEF Elements
    <3>2. CASE i = Len(s) + 1
      BY <1>1, <3>1, <3>2 DEF t
    <3>3. CASE i # Len(s) + 1
      <4>1. i \in 1..Len(s)
        BY <1>1, <3>1, <3>3 DEF t
      <4>2. QED
        BY <1>1, <3>1, <4>1 DEF Elements, t
    <3>4. QED
      BY <3>2, <3>3
  <2>2. ASSUME NEW x \in Elements(s) PROVE x \in Elements(t)
    <3>1. PICK i \in 1..Len(s) : x = s[i]
      BY <2>2 DEF Elements
    <3>2. i \in 1..Len(t) /\ x = t[i]
      BY <1>1, <3>1 DEF t
    <3>3. QED
      BY <3>2 DEF Elements
  <2>3. b \in Elements(t)
    <3>1. Len(s) + 1 \in 1..Len(t) /\ t[Len(s) + 1] = b
      BY <1>1 DEF t
    <3>2. QED
      BY <3>1 DEF Elements
  <2>4. QED
    BY <2>1, <2>2, <2>3
<1>3. ASSUME NoDup(s), b \notin Elements(s) PROVE NoDup(t)
  <2>1. SUFFICES ASSUME NEW i \in 1..Len(t), NEW j \in 1..Len(t), t[i] = t[j]
                 PROVE  i = j
    BY DEF NoDup
  <2>2. \A k \in 1..Len(s) : s[k] # b
    BY <1>3 DEF Elements
  <2>3. QED
    BY <1>1, <1>3, <2>1, <2>2 DEF NoDup, t
<1>4. QED
  BY <1>1, <1>2, <1>3 DEF t

(***************************************************************************)
(* Taking the head of a sequence without duplicates removes that element.  *)
(***************************************************************************)
LEMMA TailElements ==
    ASSUME NEW s \in Seq(Batch), s # <<>>, NoDup(s)
    PROVE  /\ Tail(s) \in Seq(Batch)
           /\ Head(s) \in Elements(s) /\ Head(s) \in Batch
           /\ Elements(Tail(s)) = Elements(s) \ {Head(s)}
           /\ NoDup(Tail(s))
<1>1. /\ Tail(s) \in Seq(Batch)
      /\ Len(s) \in Nat \ {0}
      /\ Len(Tail(s)) = Len(s) - 1
      /\ \A i \in 1..Len(Tail(s)) : Tail(s)[i] = s[i + 1]
      /\ Head(s) = s[1]
      /\ \A i \in 1..Len(s) : s[i] \in Batch
  OBVIOUS
<1> DEFINE t == Tail(s)
           h == Head(s)
<1> HIDE DEF t, h
<1>2. h \in Elements(s) /\ h \in Batch
  BY <1>1 DEF Elements, h
<1>3. Elements(t) = Elements(s) \ {h}
  <2>1. ASSUME NEW x \in Elements(t) PROVE x \in Elements(s) \ {h}
    <3>1. PICK i \in 1..Len(t) : x = t[i]
      BY <2>1 DEF Elements
    <3>2. i + 1 \in 1..Len(s) /\ x = s[i + 1] /\ i + 1 # 1
      BY <1>1, <3>1 DEF t
    <3>3. x # s[1]
      BY <1>1, <3>2 DEF NoDup
    <3>4. QED
      BY <1>1, <3>2, <3>3 DEF Elements, h
  <2>2. ASSUME NEW x \in Elements(s), x # h PROVE x \in Elements(t)
    <3>1. PICK i \in 1..Len(s) : x = s[i]
      BY <2>2 DEF Elements
    <3>2. i # 1
      BY <1>1, <2>2, <3>1 DEF h
    <3>3. i - 1 \in 1..Len(t) /\ x = t[i - 1]
      BY <1>1, <3>1, <3>2 DEF t
    <3>4. QED
      BY <3>3 DEF Elements
  <2>3. QED
    BY <2>1, <2>2
<1>4. NoDup(t)
  <2>1. SUFFICES ASSUME NEW i \in 1..Len(t), NEW j \in 1..Len(t), t[i] = t[j]
                 PROVE  i = j
    BY DEF NoDup
  <2>2. i + 1 \in 1..Len(s) /\ j + 1 \in 1..Len(s) /\ s[i + 1] = s[j + 1]
    BY <1>1, <2>1 DEF t
  <2>3. i + 1 = j + 1
    BY <2>2 DEF NoDup
  <2>4. QED
    BY <2>3
<1>5. QED
  BY <1>1, <1>2, <1>3, <1>4 DEF t, h

(***************************************************************************)
(* The initial state satisfies the inductive invariant.                    *)
(***************************************************************************)
LEMMA InitIInv == Init => IInv
<1> SUFFICES ASSUME Init PROVE IInv
  OBVIOUS
<1>1. Elements(<<>>) = {} /\ NoDup(<<>>)
  BY DEF Elements, NoDup
<1>2. Typed
  BY OrchestratorAssumption DEF Init, Typed, Worker
<1>3. Shape
  BY <1>1 DEF Init, Shape, Worker, Main, Retry
<1>4. ASSUME NEW b \in Batch PROVE BatchInv(b)
  <2>1. ~Held(b)
    BY OrchestratorAssumption DEF Init, Held, Worker, Main, Retry
  <2>2. QED
    BY <1>1, <2>1, OrchestratorAssumption
       DEF Init, BatchInv, Fresh, Held, Worker, Main, Retry
<1>5. QED
  BY <1>2, <1>3, <1>4 DEF IInv

-----------------------------------------------------------------------------
(***************************************************************************)
(* The collector sends a batch nobody has seen.                            *)
(***************************************************************************)
LEMMA SendBatchIInv ==
    ASSUME IInv, NEW a \in Batch, SendBatch(a)
    PROVE  IInv'
<1>1. /\ batchChan' \in Seq(Batch)
      /\ Elements(batchChan') = Elements(batchChan) \cup {a}
      /\ NoDup(batchChan')
  BY AppendElements DEF IInv, Typed, Shape, BatchInv, SendBatch
<1>2. Typed'
  BY <1>1 DEF IInv, Typed, SendBatch, queueVars
<1>3. Shape'
  BY <1>1 DEF IInv, Shape, SendBatch, queueVars, Elements, NoDup
<1>4. ASSUME NEW b \in Batch PROVE BatchInv(b)'
  <2>1. BatchInv(b)
    BY DEF IInv
  <2>2. Elements(queue)' = Elements(queue)
    BY DEF SendBatch, queueVars, Elements
  <2>3. QED
    BY <1>1, <2>1, <2>2 DEF BatchInv, Fresh, Held, HeldInv, Retrying, Over, SendBatch, queueVars
<1>5. QED
  BY <1>2, <1>3, <1>4 DEF IInv

(***************************************************************************)
(* Steps of the manager, its shutdown goroutine and the collector's close  *)
(* and the returns of the two loops move no batch.                         *)
(***************************************************************************)
LEMMA StopIInv ==
    ASSUME IInv, Cancel \/ CloseChannel \/ ShutDown \/ StopMain \/ StopRetry
                   \/ UNCHANGED vars
    PROVE  IInv'
<1> USE DEF Cancel, CloseChannel, ShutDown, StopMain, StopRetry, vars, chanVars, queueVars
<1>1. Typed'
  BY DEF IInv, Typed, Goto
<1>2. /\ UNCHANGED <<cur, batches, queue, batchChan, seen, dirty, processing, waiting>>
      /\ UNCHANGED <<requeues, attempts, outcome>>
      /\ queueDown => queueDown'
      /\ \A w \in Worker : pc'[w] = pc[w] \/ (pc[w] = "next" /\ pc'[w] = "stopped")
  BY DEF IInv, Typed, Goto
<1>3. Elements(queue)' = Elements(queue) /\ Elements(batchChan)' = Elements(batchChan)
      /\ NoDup(queue)' = NoDup(queue) /\ NoDup(batchChan)' = NoDup(batchChan)
  BY <1>2 DEF Elements, NoDup
<1>4. Shape'
  BY <1>2, <1>3 DEF IInv, Shape, Worker
<1>5. ASSUME NEW b \in Batch PROVE BatchInv(b)'
  <2>1. BatchInv(b) /\ Shape
    BY DEF IInv
  <2>2. QED
    BY <1>2, <1>3, <2>1, OrchestratorAssumption
       DEF BatchInv, Fresh, Held, HeldInv, Retrying, Over, Shape, Worker
<1>6. QED
  BY <1>1, <1>4, <1>5 DEF IInv

(***************************************************************************)
(* The constants as the provers need them.                                 *)
(***************************************************************************)
LEMMA Bounds ==
    /\ NoBatch \notin Batch
    /\ MaxRetries \in Nat
    /\ NumStages \in Nat /\ 1 <= NumStages
  BY OrchestratorAssumption

(***************************************************************************)
(* Start's loop takes the oldest batch of the channel.                     *)
(***************************************************************************)
LEMMA ReceiveIInv ==
    ASSUME IInv, Receive
    PROVE  IInv'
<1>1. /\ Elements(queue)' = Elements(queue) /\ NoDup(queue)' = NoDup(queue)
      /\ Head(batchChan) \in Elements(batchChan) /\ Head(batchChan) \in Batch
      /\ batchChan' \in Seq(Batch) /\ NoDup(batchChan)'
      /\ Elements(batchChan)' = Elements(batchChan) \ {Head(batchChan)}
      /\ BatchInv(Head(batchChan))
  <2>1. /\ batchChan' = Tail(batchChan) /\ batchChan # <<>> /\ UNCHANGED queue
        /\ batchChan \in Seq(Batch) /\ NoDup(batchChan)
    BY DEF IInv, Typed, Shape, Receive, queueVars
  <2>2. /\ Tail(batchChan) \in Seq(Batch) /\ NoDup(Tail(batchChan))
        /\ Head(batchChan) \in Elements(batchChan) /\ Head(batchChan) \in Batch
        /\ Elements(Tail(batchChan)) = Elements(batchChan) \ {Head(batchChan)}
    BY <2>1, TailElements
  <2>3. BatchInv(Head(batchChan))
    BY <2>2 DEF IInv
  <2>4. /\ Elements(batchChan)' = Elements(Tail(batchChan))
        /\ NoDup(batchChan)' = NoDup(Tail(batchChan))
        /\ Elements(queue)' = Elements(queue) /\ NoDup(queue)' = NoDup(queue)
    BY <2>1 DEF Elements, NoDup
  <2>5. QED
    BY <2>1, <2>2, <2>3, <2>4
<1>2. Typed'
  <2>1. Typed /\ attempts[Head(batchChan)] = 0
    BY <1>1, Bounds DEF IInv, BatchInv, Fresh, HeldInv, Retrying, Typed,
       Receive, Begin, Goto, queueVars, chanVars
  <2>2. stage' \in [Worker -> 0..NumStages]
    <3>1. stage' = [stage EXCEPT ![Main] = 1] /\ 1 \in 0..NumStages
      BY Bounds DEF Receive, Begin
    <3>2. QED
      BY <2>1, <3>1 DEF Typed
  <2>3. attempts' \in [Batch -> 0..(MaxRetries + 1)]
    BY <1>1, <2>1, Bounds DEF Typed, Receive, Begin, Goto, queueVars, chanVars
  <2>4. QED
    BY <1>1, <2>1, <2>2, <2>3, Bounds DEF Typed, Worker, Main, Retry,
       Receive, Begin, Goto, queueVars, chanVars
<1>3. Shape'
  <2>1. Typed /\ Shape
    BY DEF IInv
  <2>2. QED
    BY <1>1, <2>1, OrchestratorAssumption DEF Typed, Shape, BatchInv, Fresh, Held, HeldInv, Worker, Main, Retry,
       Receive, Begin, Goto, queueVars, chanVars
<1>4. ASSUME NEW b \in Batch PROVE BatchInv(b)'
  <2>1. BatchInv(b) /\ Shape /\ Typed
    BY DEF IInv
  <2>2. QED
    BY <1>1, <2>1, Bounds
       DEF BatchInv, Fresh, Held, HeldInv, Retrying, Over, Shape, Typed,
           Worker, Main, Retry, Receive, Begin, Goto, queueVars, chanVars
<1>5. QED
  BY <1>2, <1>3, <1>4 DEF IInv

(***************************************************************************)
(* The retry loop takes the oldest ID of the queue.                        *)
(***************************************************************************)
LEMMA GetIDIInv ==
    ASSUME IInv, GetID
    PROVE  IInv'
<1>1. /\ Elements(batchChan)' = Elements(batchChan)
      /\ NoDup(batchChan)' = NoDup(batchChan)
      /\ Head(queue) \in Elements(queue) /\ Head(queue) \in Batch
      /\ queue' \in Seq(Batch) /\ NoDup(queue)'
      /\ Elements(queue)' = Elements(queue) \ {Head(queue)}
      /\ BatchInv(Head(queue))
  <2>1. /\ queue' = Tail(queue) /\ queue # <<>> /\ UNCHANGED batchChan
        /\ queue \in Seq(Batch) /\ NoDup(queue)
    BY DEF IInv, Typed, Shape, GetID, chanVars
  <2>2. /\ Tail(queue) \in Seq(Batch) /\ NoDup(Tail(queue))
        /\ Head(queue) \in Elements(queue) /\ Head(queue) \in Batch
        /\ Elements(Tail(queue)) = Elements(queue) \ {Head(queue)}
    BY <2>1, TailElements
  <2>3. BatchInv(Head(queue))
    BY <2>2 DEF IInv
  <2>4. /\ Elements(queue)' = Elements(Tail(queue))
        /\ NoDup(queue)' = NoDup(Tail(queue))
        /\ Elements(batchChan)' = Elements(batchChan)
        /\ NoDup(batchChan)' = NoDup(batchChan)
    BY <2>1 DEF Elements, NoDup
  <2>5. QED
    BY <2>1, <2>2, <2>3, <2>4
<1>2. Typed'
  <2>1. Typed
    BY DEF IInv
  <2>2. QED
    BY <1>1, <2>1, Bounds DEF Typed, Worker, Main, Retry,
       GetID, Goto, queueVars, chanVars
<1>3. Shape'
  <2>1. Typed /\ Shape
    BY DEF IInv
  <2>2. QED
    BY <1>1, <2>1, OrchestratorAssumption DEF Typed, Shape, BatchInv, Fresh, Held, HeldInv, Worker, Main, Retry,
       GetID, Goto, queueVars, chanVars
<1>4. ASSUME NEW b \in Batch PROVE BatchInv(b)'
  <2>1. BatchInv(b) /\ Shape /\ Typed
    BY DEF IInv
  <2>2. QED
    BY <1>1, <2>1, Bounds
       DEF BatchInv, Fresh, Held, HeldInv, Retrying, Over, Shape, Typed,
           Worker, Main, Retry, GetID, Goto, queueVars, chanVars
<1>5. QED
  BY <1>2, <1>3, <1>4 DEF IInv

(***************************************************************************)
(* The batch behind an ID is found, so nothing is dropped.                 *)
(***************************************************************************)
LEMMA GetBatchIInv ==
    ASSUME IInv, GetBatch
    PROVE  IInv'
<1> DEFINE c == cur[Retry]
<1>1. c \in Batch /\ BatchInv(c) /\ HeldInv(Retry, c) /\ Retrying(c) /\ Shape /\ Typed
  <2>1. c \in Batch
    BY DEF IInv, Typed, Shape, GetBatch, Worker, Main, Retry
  <2>2. QED
    BY <2>1 DEF IInv, BatchInv, HeldInv, GetBatch, Worker
<1>2. /\ pc[Retry] = "lookup"
      /\ cur' = [cur EXCEPT ![Retry] = c] /\ pc' = [pc EXCEPT ![Retry] = "stage"]
      /\ stage' = [stage EXCEPT ![Retry] = 1]
      /\ attempts' = [attempts EXCEPT ![c] = @ + 1]
      /\ UNCHANGED <<seen, batchChan, batches, queue, dirty, processing, waiting,
                     requeues, queueDown, outcome, requeued>>
  BY <1>1 DEF GetBatch, Begin, Goto, Retrying, chanVars
<1>3. /\ Elements(queue)' = Elements(queue) /\ NoDup(queue)' = NoDup(queue)
      /\ Elements(batchChan)' = Elements(batchChan)
      /\ NoDup(batchChan)' = NoDup(batchChan)
  BY <1>2 DEF Elements, NoDup
<1> HIDE DEF c
<1>4. Typed'
  <2>1. attempts[c] <= MaxRetries /\ attempts[c] \in Nat /\ 1 \in 0..NumStages
    BY <1>1, Bounds DEF Retrying, Typed
  <2>2. stage' \in [Worker -> 0..NumStages]
    BY <1>1, <1>2, <2>1 DEF Typed
  <2>3. attempts' \in [Batch -> 0..(MaxRetries + 1)]
    BY <1>1, <1>2, <2>1, Bounds DEF Typed
  <2>4. QED
    BY <1>1, <1>2, <2>2, <2>3 DEF Typed
<1>5. Shape'
  BY <1>1, <1>2, <1>3, Bounds DEF Typed, Shape, Worker, Main, Retry, c
<1>6. ASSUME NEW b \in Batch PROVE BatchInv(b)'
  <2>1. BatchInv(b)
    BY DEF IInv
  <2>2. QED
    BY <1>1, <1>2, <1>3, <2>1, Bounds
       DEF BatchInv, Fresh, Held, HeldInv, Retrying, Over, Shape, Typed,
           Worker, Main, Retry, c
<1>7. QED
  BY <1>4, <1>5, <1>6 DEF IInv

(***************************************************************************)
(* A stage returns without an error.                                       *)
(***************************************************************************)
LEMMA NextStageIInv ==
    ASSUME IInv, NEW v \in Worker, StageSucceeds(v), stage[v] < NumStages
    PROVE  IInv'
<1> DEFINE c == cur[v]
<1>1. c \in Batch /\ BatchInv(c) /\ HeldInv(v, c) /\ Shape /\ Typed
  <2>1. c \in Batch
    BY DEF IInv, Typed, Shape, StageSucceeds
  <2>2. QED
    BY <2>1 DEF IInv, BatchInv
<1>2. /\ pc[v] = "stage" /\ stage[v] < NumStages
      /\ stage' = [stage EXCEPT ![v] = @ + 1]
      /\ UNCHANGED <<seen, batchChan, batches, queue, dirty, processing, waiting,
                     requeues, queueDown, attempts, requeued, cur>>
      /\ UNCHANGED <<pc, outcome>>
  BY DEF StageSucceeds, chanVars, queueVars
<1>3. /\ Elements(queue)' = Elements(queue) /\ NoDup(queue)' = NoDup(queue)
      /\ Elements(batchChan)' = Elements(batchChan)
      /\ NoDup(batchChan)' = NoDup(batchChan)
  BY <1>2 DEF Elements, NoDup
<1> HIDE DEF c
<1>4. Typed'
  <2>1. stage' \in [Worker -> 0..NumStages]
    <3>1. stage \in [Worker -> 0..NumStages] /\ stage[v] + 1 \in 0..NumStages
      BY <1>1, <1>2, Bounds DEF Typed
    <3>2. QED
      BY <1>2, <3>1
  <2>2. outcome' \in [Batch -> {"none", "succeeded", "failed"}]
    BY <1>1, <1>2 DEF Typed
  <2>3. QED
    BY <1>1, <1>2, <2>1, <2>2 DEF Typed
<1>5. Shape'
  BY <1>1, <1>2, <1>3, Bounds DEF Typed, Shape, Worker, Main, Retry, c
<1>6. ASSUME NEW b \in Batch PROVE BatchInv(b)'
  <2>1. BatchInv(b)
    BY DEF IInv
  <2>2. QED
    BY <1>1, <1>2, <1>3, <2>1, Bounds
       DEF BatchInv, Fresh, Held, HeldInv, Retrying, Over, Shape, Typed,
           Worker, Main, Retry, c
<1>7. QED
  BY <1>4, <1>5, <1>6 DEF IInv

(***************************************************************************)
(* The last stage succeeds: the batch is finished.                         *)
(***************************************************************************)
LEMMA LastStageIInv ==
    ASSUME IInv, NEW v \in Worker, StageSucceeds(v), ~(stage[v] < NumStages)
    PROVE  IInv'
<1> DEFINE c == cur[v]
<1>1. c \in Batch /\ BatchInv(c) /\ HeldInv(v, c) /\ Shape /\ Typed
  <2>1. c \in Batch
    BY DEF IInv, Typed, Shape, StageSucceeds
  <2>2. QED
    BY <2>1 DEF IInv, BatchInv
<1>2. /\ pc[v] = "stage"
      /\ stage' = [stage EXCEPT ![v] = 0]
      /\ pc' = [pc EXCEPT ![v] = "forget"]
      /\ outcome' = [outcome EXCEPT ![c] = "succeeded"]
      /\ UNCHANGED <<seen, batchChan, batches, queue, dirty, processing, waiting,
                     requeues, queueDown, attempts, requeued, cur>>
  BY DEF StageSucceeds, Goto, chanVars, queueVars
<1>3. /\ Elements(queue)' = Elements(queue) /\ NoDup(queue)' = NoDup(queue)
      /\ Elements(batchChan)' = Elements(batchChan)
      /\ NoDup(batchChan)' = NoDup(batchChan)
  BY <1>2 DEF Elements, NoDup
<1> HIDE DEF c
<1>4. Typed'
  <2>1. stage' \in [Worker -> 0..NumStages]
    <3>1. stage \in [Worker -> 0..NumStages] /\ 0 \in 0..NumStages
      BY <1>1, <1>2, Bounds DEF Typed
    <3>2. QED
      BY <1>2, <3>1
  <2>2. outcome' \in [Batch -> {"none", "succeeded", "failed"}]
    BY <1>1, <1>2 DEF Typed
  <2>3. QED
    BY <1>1, <1>2, <2>1, <2>2 DEF Typed
<1>5. Shape'
  BY <1>1, <1>2, <1>3, Bounds DEF Typed, Shape, Worker, Main, Retry, c
<1>6. ASSUME NEW b \in Batch PROVE BatchInv(b)'
  <2>1. BatchInv(b)
    BY DEF IInv
  <2>2. QED
    BY <1>1, <1>2, <1>3, <2>1, Bounds
       DEF BatchInv, Fresh, Held, HeldInv, Retrying, Over, Shape, Typed,
           Worker, Main, Retry, c
<1>7. QED
  BY <1>4, <1>5, <1>6 DEF IInv

(***************************************************************************)
(* A stage fails: the batch is retried or given up.                        *)
(***************************************************************************)
LEMMA StageRetriedIInv ==
    ASSUME IInv, NEW v \in Worker, StageFails(v), RetryAllowed(cur[v])
    PROVE  IInv'
<1> DEFINE c == cur[v]
<1>1. c \in Batch /\ BatchInv(c) /\ HeldInv(v, c) /\ Shape /\ Typed
  <2>1. c \in Batch
    BY DEF IInv, Typed, Shape, StageFails
  <2>2. QED
    BY <2>1 DEF IInv, BatchInv
<1>2. /\ pc[v] = "stage"
      /\ requeues[c] + 1 <= MaxRetries
      /\ stage' = [stage EXCEPT ![v] = 0]
      /\ pc' = [pc EXCEPT ![v] = "addMap"]
      /\ UNCHANGED <<seen, batchChan, batches, queue, dirty, processing, waiting,
                     requeues, queueDown, attempts, requeued, cur>>
      /\ UNCHANGED outcome
  BY DEF StageFails, RetryAllowed, Goto, chanVars, queueVars
<1>3. /\ Elements(queue)' = Elements(queue) /\ NoDup(queue)' = NoDup(queue)
      /\ Elements(batchChan)' = Elements(batchChan)
      /\ NoDup(batchChan)' = NoDup(batchChan)
  BY <1>2 DEF Elements, NoDup
<1> HIDE DEF c
<1>4. Typed'
  <2>1. stage' \in [Worker -> 0..NumStages]
    <3>1. stage \in [Worker -> 0..NumStages] /\ 0 \in 0..NumStages
      BY <1>1, <1>2, Bounds DEF Typed
    <3>2. QED
      BY <1>2, <3>1
  <2>2. outcome' \in [Batch -> {"none", "succeeded", "failed"}]
    BY <1>1, <1>2 DEF Typed
  <2>3. QED
    BY <1>1, <1>2, <2>1, <2>2 DEF Typed
<1>5. Shape'
  BY <1>1, <1>2, <1>3, Bounds DEF Typed, Shape, Worker, Main, Retry, c
<1>6. ASSUME NEW b \in Batch PROVE BatchInv(b)'
  <2>1. BatchInv(b)
    BY DEF IInv
  <2>2. QED
    BY <1>1, <1>2, <1>3, <2>1, Bounds
       DEF BatchInv, Fresh, Held, HeldInv, Retrying, Over, Shape, Typed,
           Worker, Main, Retry, c
<1>7. QED
  BY <1>4, <1>5, <1>6 DEF IInv

(***************************************************************************)
(* A stage fails after the last retry: the batch is given up.              *)
(***************************************************************************)
LEMMA StageGivenUpIInv ==
    ASSUME IInv, NEW v \in Worker, StageFails(v), ~RetryAllowed(cur[v])
    PROVE  IInv'
<1> DEFINE c == cur[v]
<1>1. c \in Batch /\ BatchInv(c) /\ HeldInv(v, c) /\ Shape /\ Typed
  <2>1. c \in Batch
    BY DEF IInv, Typed, Shape, StageFails
  <2>2. QED
    BY <2>1 DEF IInv, BatchInv
<1>2. /\ pc[v] = "stage"
      /\ stage' = [stage EXCEPT ![v] = 0]
      /\ pc' = [pc EXCEPT ![v] = "forget"]
      /\ outcome' = [outcome EXCEPT ![c] = "failed"]
      /\ UNCHANGED <<seen, batchChan, batches, queue, dirty, processing, waiting,
                     requeues, queueDown, attempts, requeued, cur>>
  BY DEF StageFails, Goto, chanVars, queueVars
<1>3. /\ Elements(queue)' = Elements(queue) /\ NoDup(queue)' = NoDup(queue)
      /\ Elements(batchChan)' = Elements(batchChan)
      /\ NoDup(batchChan)' = NoDup(batchChan)
  BY <1>2 DEF Elements, NoDup
<1> HIDE DEF c
<1>4. Typed'
  <2>1. stage' \in [Worker -> 0..NumStages]
    <3>1. stage \in [Worker -> 0..NumStages] /\ 0 \in 0..NumStages
      BY <1>1, <1>2, Bounds DEF Typed
    <3>2. QED
      BY <1>2, <3>1
  <2>2. outcome' \in [Batch -> {"none", "succeeded", "failed"}]
    BY <1>1, <1>2 DEF Typed
  <2>3. QED
    BY <1>1, <1>2, <2>1, <2>2 DEF Typed
<1>5. Shape'
  BY <1>1, <1>2, <1>3, Bounds DEF Typed, Shape, Worker, Main, Retry, c
<1>6. ASSUME NEW b \in Batch PROVE BatchInv(b)'
  <2>1. BatchInv(b)
    BY DEF IInv
  <2>2. CASE b = c
    BY <1>1, <1>2, <1>3, <2>1, <2>2, Bounds
       DEF BatchInv, Fresh, Held, HeldInv, Retrying, Over, Shape, Typed,
           Worker, Main, Retry, c
  <2>3. CASE b # c
    BY <1>1, <1>2, <1>3, <2>1, <2>3, Bounds
       DEF BatchInv, Fresh, Held, HeldInv, Retrying, Over, Shape, Typed,
           Worker, Main, Retry, c
  <2>4. QED
    BY <2>2, <2>3
<1>7. QED
  BY <1>4, <1>5, <1>6 DEF IInv

(***************************************************************************)
(* A failed batch enters the map before the queue.                         *)
(***************************************************************************)
LEMMA AddToMapIInv ==
    ASSUME IInv, NEW v \in Worker, AddToMap(v)
    PROVE  IInv'
<1>1. /\ cur[v] \in Batch /\ BatchInv(cur[v])
      /\ Elements(queue)' = Elements(queue) /\ NoDup(queue)' = NoDup(queue)
      /\ Elements(batchChan)' = Elements(batchChan)
      /\ NoDup(batchChan)' = NoDup(batchChan)
  <2>1. cur[v] \in Batch
    BY DEF IInv, Typed, Shape, AddToMap
  <2>2. QED
    BY <2>1 DEF IInv, Elements, NoDup, queueVars, chanVars, AddToMap
<1>2. Typed'
  <2>1. Typed
    BY DEF IInv
  <2>2. QED
    BY <1>1, <2>1, Bounds DEF Typed, Worker, Main, Retry,
       AddToMap, Goto, queueVars, chanVars
<1>3. Shape'
  <2>1. Typed /\ Shape
    BY DEF IInv
  <2>2. QED
    BY <1>1, <2>1, OrchestratorAssumption DEF Typed, Shape, Worker, Main, Retry,
       AddToMap, Goto, queueVars, chanVars
<1>4. ASSUME NEW b \in Batch PROVE BatchInv(b)'
  <2>1. BatchInv(b) /\ Shape /\ Typed
    BY DEF IInv
  <2>2. QED
    BY <1>1, <2>1, Bounds
       DEF BatchInv, Fresh, Held, HeldInv, Retrying, Over, Shape, Typed,
           Worker, Main, Retry, AddToMap, Goto, queueVars, chanVars
<1>5. QED
  BY <1>2, <1>3, <1>4 DEF IInv

(***************************************************************************)
(* A failed batch waits for its delay, unless the queue is shut down.      *)
(***************************************************************************)
LEMMA AddRateLimitedIInv ==
    ASSUME IInv, NEW v \in Worker, AddRateLimited(v)
    PROVE  IInv'
<1> DEFINE c == cur[v]
<1>1. c \in Batch /\ BatchInv(c) /\ HeldInv(v, c) /\ Shape /\ Typed
  <2>1. c \in Batch
    BY DEF IInv, Typed, Shape, AddRateLimited
  <2>2. QED
    BY <2>1 DEF IInv, BatchInv
<1>2. /\ pc[v] = "addQueue"
      /\ requeues' = [requeues EXCEPT ![c] = @ + 1]
      /\ waiting' = IF queueDown THEN waiting ELSE waiting \cup {c}
      /\ IF v = Main THEN /\ pc' = [pc EXCEPT ![Main] = "next"]
                          /\ cur' = [cur EXCEPT ![Main] = NoBatch]
                     ELSE /\ pc' = [pc EXCEPT ![Retry] = "done"]
                          /\ cur' = cur
      /\ UNCHANGED <<seen, batchChan, batches, queue, dirty, processing, queueDown,
                     attempts, outcome, requeued, stage>>
  BY DEF AddRateLimited, Release, chanVars, queueVars
<1>3. /\ Elements(queue)' = Elements(queue) /\ NoDup(queue)' = NoDup(queue)
      /\ Elements(batchChan)' = Elements(batchChan)
      /\ NoDup(batchChan)' = NoDup(batchChan)
  BY <1>2 DEF Elements, NoDup
<1> HIDE DEF c
<1>4. Typed'
  <2>1. requeues[c] + 1 <= MaxRetries /\ requeues[c] \in Nat
    BY <1>1, <1>2, Bounds DEF HeldInv, Typed
  <2>2. requeues' \in [Batch -> 0..MaxRetries]
    BY <1>1, <1>2, <2>1, Bounds DEF Typed
  <2>3. QED
    BY <1>1, <1>2, <2>2 DEF Typed, Worker, Main, Retry
<1>5. Shape'
  BY <1>1, <1>2, <1>3, Bounds DEF Typed, Shape, Worker, Main, Retry, c
<1>6. ASSUME NEW b \in Batch PROVE BatchInv(b)'
  <2>1. BatchInv(b)
    BY DEF IInv
  <2>2. CASE v = Main
    BY <1>1, <1>2, <1>3, <2>1, <2>2, Bounds
       DEF BatchInv, Fresh, Held, HeldInv, Retrying, Over, Shape, Typed,
           Worker, Main, Retry, c
  <2>3. CASE v = Retry
    <3>1. /\ pc' = [pc EXCEPT ![Retry] = "done"] /\ cur' = cur /\ v # Main
          /\ c # cur[Main] /\ c \notin waiting \cup dirty
      BY <1>1, <1>2, <2>3, Bounds DEF Main, Retry, BatchInv, Shape, c
    <3>2. CASE b # c
      BY <1>1, <1>2, <1>3, <2>1, <2>3, <3>1, <3>2, Bounds
         DEF BatchInv, Fresh, Held, HeldInv, Retrying, Over, Shape, Typed,
             Worker, Main, Retry, c
    <3>3. CASE b = c
      <4>1. Retrying(b)'
        BY <1>1, <1>2, <2>3, <3>3, Bounds DEF HeldInv, Retrying, Typed
      <4>2. HeldInv(Retry, b)'
        BY <1>1, <1>2, <2>3, <3>1, <3>3, <4>1 DEF HeldInv, Typed, Worker
      <4>3. QED
        BY <1>1, <1>2, <1>3, <2>1, <2>3, <3>1, <3>3, <4>1, <4>2, Bounds
           DEF BatchInv, Fresh, Held, Retrying, Shape, Typed, Worker, Main, Retry, c
    <3>4. QED
      BY <3>2, <3>3
  <2>4. QED
    BY <2>2, <2>3 DEF Worker
<1>7. QED
  BY <1>4, <1>5, <1>6 DEF IInv

(***************************************************************************)
(* A finished batch leaves the map.                                        *)
(***************************************************************************)
LEMMA ForgetInMapIInv ==
    ASSUME IInv, NEW v \in Worker, ForgetInMap(v)
    PROVE  IInv'
<1>1. /\ cur[v] \in Batch /\ BatchInv(cur[v])
      /\ Elements(queue)' = Elements(queue) /\ NoDup(queue)' = NoDup(queue)
      /\ Elements(batchChan)' = Elements(batchChan)
      /\ NoDup(batchChan)' = NoDup(batchChan)
  <2>1. cur[v] \in Batch
    BY DEF IInv, Typed, Shape, ForgetInMap
  <2>2. QED
    BY <2>1 DEF IInv, Elements, NoDup, queueVars, chanVars, ForgetInMap
<1>2. Typed'
  <2>1. Typed
    BY DEF IInv
  <2>2. QED
    BY <1>1, <2>1, Bounds DEF Typed, Worker, Main, Retry,
       ForgetInMap, Goto, queueVars, chanVars
<1>3. Shape'
  <2>1. Typed /\ Shape
    BY DEF IInv
  <2>2. QED
    BY <1>1, <2>1, OrchestratorAssumption DEF Typed, Shape, Worker, Main, Retry,
       ForgetInMap, Goto, queueVars, chanVars
<1>4. ASSUME NEW b \in Batch PROVE BatchInv(b)'
  <2>1. BatchInv(b) /\ Shape /\ Typed
    BY DEF IInv
  <2>2. QED
    BY <1>1, <2>1, Bounds
       DEF BatchInv, Fresh, Held, HeldInv, Retrying, Over, Shape, Typed,
           Worker, Main, Retry, ForgetInMap, Goto, queueVars, chanVars
<1>5. QED
  BY <1>2, <1>3, <1>4 DEF IInv

(***************************************************************************)
(* A finished batch leaves the rate limiter.                               *)
(***************************************************************************)
LEMMA ForgetInQueueIInv ==
    ASSUME IInv, NEW v \in Worker, ForgetInQueue(v)
    PROVE  IInv'
<1>1. /\ cur[v] \in Batch /\ BatchInv(cur[v])
      /\ Elements(queue)' = Elements(queue) /\ NoDup(queue)' = NoDup(queue)
      /\ Elements(batchChan)' = Elements(batchChan)
      /\ NoDup(batchChan)' = NoDup(batchChan)
  <2>1. cur[v] \in Batch
    BY DEF IInv, Typed, Shape, ForgetInQueue
  <2>2. QED
    BY <2>1 DEF IInv, Elements, NoDup, queueVars, chanVars, ForgetInQueue
<1>2. Typed'
  <2>1. Typed
    BY DEF IInv
  <2>2. QED
    BY <1>1, <2>1, Bounds DEF Typed, Worker, Main, Retry,
       ForgetInQueue, Release, Goto, queueVars, chanVars
<1>3. Shape'
  <2>1. Typed /\ Shape
    BY DEF IInv
  <2>2. QED
    BY <1>1, <2>1, OrchestratorAssumption DEF Typed, Shape, Worker, Main, Retry,
       ForgetInQueue, Release, Goto, queueVars, chanVars
<1>4. ASSUME NEW b \in Batch PROVE BatchInv(b)'
  <2>1. BatchInv(b) /\ Shape /\ Typed
    BY DEF IInv
  <2>2. QED
    BY <1>1, <2>1, Bounds
       DEF BatchInv, Fresh, Held, HeldInv, Retrying, Over, Shape, Typed,
           Worker, Main, Retry, ForgetInQueue, Release, Goto, queueVars, chanVars
<1>5. QED
  BY <1>2, <1>3, <1>4 DEF IInv

(***************************************************************************)
(* The rebuild after a permanent failure succeeds.                         *)
(***************************************************************************)
LEMMA RebuildSucceedsIInv ==
    ASSUME IInv, NEW v \in Worker, RebuildSucceeds(v)
    PROVE  IInv'
<1>1. /\ cur[v] \in Batch /\ BatchInv(cur[v])
      /\ Elements(queue)' = Elements(queue) /\ NoDup(queue)' = NoDup(queue)
      /\ Elements(batchChan)' = Elements(batchChan)
      /\ NoDup(batchChan)' = NoDup(batchChan)
  <2>1. cur[v] \in Batch
    BY DEF IInv, Typed, Shape, RebuildSucceeds
  <2>2. QED
    BY <2>1 DEF IInv, Elements, NoDup, queueVars, chanVars, RebuildSucceeds
<1>2. Typed'
  <2>1. Typed
    BY DEF IInv
  <2>2. QED
    BY <1>1, <2>1, Bounds DEF Typed, Worker, Main, Retry,
       RebuildSucceeds, Goto, queueVars, chanVars
<1>3. Shape'
  <2>1. Typed /\ Shape
    BY DEF IInv
  <2>2. QED
    BY <1>1, <2>1, OrchestratorAssumption DEF Typed, Shape, Worker, Main, Retry,
       RebuildSucceeds, Goto, queueVars, chanVars
<1>4. ASSUME NEW b \in Batch PROVE BatchInv(b)'
  <2>1. BatchInv(b) /\ Shape /\ Typed
    BY DEF IInv
  <2>2. QED
    BY <1>1, <2>1, Bounds
       DEF BatchInv, Fresh, Held, HeldInv, Retrying, Over, Shape, Typed,
           Worker, Main, Retry, RebuildSucceeds, Goto, queueVars, chanVars
<1>5. QED
  BY <1>2, <1>3, <1>4 DEF IInv

(***************************************************************************)
(* The rebuild after a permanent failure fails.                            *)
(***************************************************************************)
LEMMA RebuildFailsIInv ==
    ASSUME IInv, NEW v \in Worker, RebuildFails(v)
    PROVE  IInv'
<1>1. /\ cur[v] \in Batch /\ BatchInv(cur[v])
      /\ Elements(queue)' = Elements(queue) /\ NoDup(queue)' = NoDup(queue)
      /\ Elements(batchChan)' = Elements(batchChan)
      /\ NoDup(batchChan)' = NoDup(batchChan)
  <2>1. cur[v] \in Batch
    BY DEF IInv, Typed, Shape, RebuildFails
  <2>2. QED
    BY <2>1 DEF IInv, Elements, NoDup, queueVars, chanVars, RebuildFails
<1>2. Typed'
  <2>1. Typed
    BY DEF IInv
  <2>2. QED
    BY <1>1, <2>1, Bounds DEF Typed, Worker, Main, Retry,
       RebuildFails, Release, queueVars, chanVars
<1>3. Shape'
  <2>1. Typed /\ Shape
    BY DEF IInv
  <2>2. QED
    BY <1>1, <2>1, OrchestratorAssumption DEF Typed, Shape, Worker, Main, Retry,
       RebuildFails, Release, queueVars, chanVars
<1>4. ASSUME NEW b \in Batch PROVE BatchInv(b)'
  <2>1. BatchInv(b) /\ Shape /\ Typed
    BY DEF IInv
  <2>2. QED
    BY <1>1, <2>1, Bounds
       DEF BatchInv, Fresh, Held, HeldInv, Retrying, Over, Shape, Typed,
           Worker, Main, Retry, RebuildFails, Release, queueVars, chanVars
<1>5. QED
  BY <1>2, <1>3, <1>4 DEF IInv

(***************************************************************************)
(* The resources of a failed batch become events again.                    *)
(***************************************************************************)
LEMMA RequeueFailedResourcesIInv ==
    ASSUME IInv, NEW v \in Worker, RequeueFailedResources(v)
    PROVE  IInv'
<1>1. /\ cur[v] \in Batch /\ BatchInv(cur[v])
      /\ Elements(queue)' = Elements(queue) /\ NoDup(queue)' = NoDup(queue)
      /\ Elements(batchChan)' = Elements(batchChan)
      /\ NoDup(batchChan)' = NoDup(batchChan)
  <2>1. cur[v] \in Batch
    BY DEF IInv, Typed, Shape, RequeueFailedResources
  <2>2. QED
    BY <2>1 DEF IInv, Elements, NoDup, queueVars, chanVars, RequeueFailedResources
<1>2. Typed'
  <2>1. Typed
    BY DEF IInv
  <2>2. QED
    BY <1>1, <2>1, Bounds DEF Typed, Worker, Main, Retry,
       RequeueFailedResources, Release, queueVars, chanVars
<1>3. Shape'
  <2>1. Typed /\ Shape
    BY DEF IInv
  <2>2. QED
    BY <1>1, <2>1, OrchestratorAssumption DEF Typed, Shape, Worker, Main, Retry,
       RequeueFailedResources, Release, queueVars, chanVars
<1>4. ASSUME NEW b \in Batch PROVE BatchInv(b)'
  <2>1. BatchInv(b) /\ Shape /\ Typed
    BY DEF IInv
  <2>2. QED
    BY <1>1, <2>1, Bounds
       DEF BatchInv, Fresh, Held, HeldInv, Retrying, Over, Shape, Typed,
           Worker, Main, Retry, RequeueFailedResources, Release, queueVars, chanVars
<1>5. QED
  BY <1>2, <1>3, <1>4 DEF IInv

(***************************************************************************)
(* A delay is over: the ID is queued, or marked for its Done.              *)
(***************************************************************************)
LEMMA DelayElapsedIInv ==
    ASSUME IInv, NEW a \in Batch, DelayElapsed(a)
    PROVE  IInv'
<1>1. /\ Elements(batchChan)' = Elements(batchChan)
      /\ NoDup(batchChan)' = NoDup(batchChan)
      /\ BatchInv(a) /\ a \notin dirty /\ a \notin Elements(queue)
      /\ queue' \in Seq(Batch) /\ NoDup(queue)'
      /\ Elements(queue)' = IF a \in processing THEN Elements(queue)
                            ELSE Elements(queue) \cup {a}
  <2>1. BatchInv(a) /\ a \notin dirty /\ a \notin Elements(queue)
    BY DEF IInv, BatchInv, Shape, DelayElapsed
  <2>2. CASE a \in processing
    BY <2>1, <2>2 DEF IInv, Typed, Shape, DelayElapsed, chanVars, Elements, NoDup
  <2>3. CASE a \notin processing
    <3>1. queue' = Append(queue, a) /\ UNCHANGED batchChan
      BY <2>1, <2>3 DEF DelayElapsed, chanVars
    <3>2. /\ Append(queue, a) \in Seq(Batch) /\ NoDup(Append(queue, a))
          /\ Elements(Append(queue, a)) = Elements(queue) \cup {a}
      BY <2>1, AppendElements DEF IInv, Typed, Shape
    <3>3. QED
      BY <2>1, <2>3, <3>1, <3>2 DEF Elements, NoDup
  <2>4. QED
    BY <2>2, <2>3
<1>2. Typed'
  <2>1. Typed
    BY DEF IInv
  <2>2. QED
    BY <1>1, <2>1, Bounds DEF Typed, Worker, Main, Retry,
       DelayElapsed, queueVars, chanVars
<1>3. Shape'
  <2>1. Typed /\ Shape
    BY DEF IInv
  <2>2. QED
    BY <1>1, <2>1, OrchestratorAssumption DEF Typed, Shape, Worker, Main, Retry,
       DelayElapsed, queueVars, chanVars
<1>4. ASSUME NEW b \in Batch PROVE BatchInv(b)'
  <2>1. BatchInv(b) /\ Shape /\ Typed
    BY DEF IInv
  <2>2. QED
    BY <1>1, <2>1, Bounds
       DEF BatchInv, Fresh, Held, HeldInv, Retrying, Over, Shape, Typed,
           Worker, Main, Retry, DelayElapsed, queueVars, chanVars
<1>5. QED
  BY <1>2, <1>3, <1>4 DEF IInv

(***************************************************************************)
(* The retry loop reports its batch done.                                  *)
(***************************************************************************)
LEMMA DoneIInv ==
    ASSUME IInv, Done
    PROVE  IInv'
<1>1. /\ Elements(batchChan)' = Elements(batchChan)
      /\ NoDup(batchChan)' = NoDup(batchChan)
      /\ cur[Retry] \in Batch /\ BatchInv(cur[Retry])
      /\ queue' \in Seq(Batch) /\ NoDup(queue)'
      /\ Elements(queue)' = IF cur[Retry] \in dirty
                            THEN Elements(queue) \cup {cur[Retry]}
                            ELSE Elements(queue)
  <2>1. cur[Retry] \in Batch
    BY DEF IInv, Typed, Shape, Done, Worker, Main, Retry
  <2>2. BatchInv(cur[Retry]) /\ cur[Retry] \notin Elements(queue)
    BY <2>1 DEF IInv, BatchInv
  <2>3. CASE cur[Retry] \notin dirty
    BY <2>1, <2>2, <2>3 DEF IInv, Typed, Shape, Done, chanVars, Elements, NoDup
  <2>4. CASE cur[Retry] \in dirty
    <3>1. queue' = Append(queue, cur[Retry]) /\ UNCHANGED batchChan
      BY <2>4 DEF Done, chanVars
    <3>2. /\ Append(queue, cur[Retry]) \in Seq(Batch)
          /\ NoDup(Append(queue, cur[Retry]))
          /\ Elements(Append(queue, cur[Retry])) = Elements(queue) \cup {cur[Retry]}
      BY <2>1, <2>2, AppendElements DEF IInv, Typed, Shape
    <3>3. QED
      BY <2>1, <2>2, <2>4, <3>1, <3>2 DEF Elements, NoDup
  <2>5. QED
    BY <2>3, <2>4
<1>2. Typed'
  <2>1. Typed
    BY DEF IInv
  <2>2. QED
    BY <1>1, <2>1, Bounds DEF Typed, Worker, Main, Retry,
       Done, Goto, queueVars, chanVars
<1>3. Shape'
  <2>1. Typed /\ Shape
    BY DEF IInv
  <2>2. QED
    BY <1>1, <2>1, OrchestratorAssumption DEF Typed, Shape, Worker, Main, Retry,
       Done, Goto, queueVars, chanVars
<1>4. ASSUME NEW b \in Batch PROVE BatchInv(b)'
  <2>1. BatchInv(b) /\ Shape /\ Typed
    BY DEF IInv
  <2>2. QED
    BY <1>1, <2>1, Bounds
       DEF BatchInv, Fresh, Held, HeldInv, Retrying, Over, Shape, Typed,
           Worker, Main, Retry, Done, Goto, queueVars, chanVars
<1>5. QED
  BY <1>2, <1>3, <1>4 DEF IInv

(***************************************************************************)
(* Every step preserves the inductive invariant.                           *)
(***************************************************************************)
LEMMA NextIInv == IInv /\ [Next]_vars => IInv'
<1> SUFFICES ASSUME IInv, [Next]_vars PROVE IInv'
  OBVIOUS
<1>1. ASSUME NEW b \in Batch, SendBatch(b) \/ DelayElapsed(b) PROVE IInv'
  BY <1>1, SendBatchIInv, DelayElapsedIInv
<1>2. CASE Cancel \/ CloseChannel \/ ShutDown \/ StopMain \/ StopRetry \/ UNCHANGED vars
  BY <1>2, StopIInv
<1>3. CASE Receive \/ GetID \/ GetBatch \/ Done
  BY <1>3, ReceiveIInv, GetIDIInv, GetBatchIInv, DoneIInv
<1>4. ASSUME NEW w \in Worker, Process(w) PROVE IInv'
  <2>1. CASE StageSucceeds(w)
    BY <2>1, NextStageIInv, LastStageIInv
  <2>2. CASE StageFails(w)
    BY <2>2, StageRetriedIInv, StageGivenUpIInv
  <2>3. CASE AddToMap(w) \/ AddRateLimited(w) \/ ForgetInMap(w) \/ ForgetInQueue(w)
    BY <2>3, AddToMapIInv, AddRateLimitedIInv, ForgetInMapIInv, ForgetInQueueIInv
  <2>4. CASE RebuildSucceeds(w) \/ RebuildFails(w) \/ RequeueFailedResources(w)
    BY <2>4, RebuildSucceedsIInv, RebuildFailsIInv, RequeueFailedResourcesIInv
  <2>5. QED
    BY <1>4, <2>1, <2>2, <2>3, <2>4 DEF Process
<1>5. QED
  BY <1>1, <1>2, <1>3, <1>4 DEF Next

(***************************************************************************)
(* The inductive invariant holds in every reachable state.                 *)
(***************************************************************************)
THEOREM Inductive == Spec => []IInv
  BY InitIInv, NextIInv, PTL DEF Spec

(***************************************************************************)
(* No batch is lost between the channel, the workers and the retry queue.  *)
(***************************************************************************)
THEOREM BatchesKept == Spec => []NoBatchLost
<1>1. IInv => NoBatchLost
  BY DEF IInv, Typed, BatchInv, Held, NoBatchLost
<1>2. QED
  BY <1>1, Inductive, PTL

(***************************************************************************)
(* The lookup of batchQueue.Get never misses.                              *)
(***************************************************************************)
THEOREM LookupsHit == Spec => []RetryFindsBatch
<1>1. ASSUME IInv, pc[Retry] = "lookup" PROVE cur[Retry] \in batches
  <2>1. cur[Retry] \in Batch
    BY <1>1 DEF IInv, Typed, Shape, Worker, Main, Retry
  <2>2. QED
    BY <1>1, <2>1 DEF IInv, BatchInv, HeldInv, Retrying, Worker
<1>2. IInv => RetryFindsBatch
  BY <1>1 DEF RetryFindsBatch
<1>3. QED
  BY <1>2, Inductive, PTL

(***************************************************************************)
(* Finished batches leave nothing in the map, the rate limiter, the queue. *)
(***************************************************************************)
THEOREM NothingLeft == Spec => []NoResidue
<1>1. ASSUME IInv, NEW b \in Batch, outcome[b] # "none", \A w \in Worker : cur[w] # b
      PROVE  /\ b \notin batches /\ requeues[b] = 0
             /\ b \notin waiting \cup dirty \cup processing \cup Elements(queue)
  BY <1>1 DEF IInv, Shape, BatchInv, Held, Over, Retrying, Worker
<1>2. IInv => NoResidue
  BY <1>1 DEF NoResidue
<1>3. QED
  BY <1>2, Inductive, PTL

-----------------------------------------------------------------------------
Running(b) == \E w \in Worker : pc[w] = "stage" /\ cur[w] = b

(***************************************************************************)
(* A step that changes neither what the lifecycle sees of any batch nor    *)
(* the attempts is a stuttering step of the lifecycle.                     *)
(***************************************************************************)
LEMMA Stutters ==
    ASSUME \A b \in Batch : Status(b)' = Status(b), UNCHANGED attempts
    PROVE  UNCHANGED Lifecycle!lifecycle
  BY DEF Lifecycle!lifecycle

(***************************************************************************)
(* A step that changes the status of one batch only moves the lifecycle.   *)
(***************************************************************************)
LEMMA Moves ==
    ASSUME NEW c \in Batch, NEW from, NEW to,
           Status(c) = from, Status(c)' = to,
           \A b \in Batch \ {c} : Status(b)' = Status(b)
    PROVE  Lifecycle!Move(c, from, to)
  BY DEF Lifecycle!Move

(***************************************************************************)
(* A worker that starts an attempt moves its batch from waiting to running.*)
(***************************************************************************)
LEMMA StartsAttempt ==
    ASSUME IInv, NEW v \in Worker, NEW c \in Batch, c \in seen, outcome[c] = "none",
           pc[v] # "stage", ~Running(c), attempts[c] <= MaxRetries,
           pc' = [pc EXCEPT ![v] = "stage"], cur' = [cur EXCEPT ![v] = c],
           attempts' = [attempts EXCEPT ![c] = @ + 1], UNCHANGED <<seen, outcome>>
    PROVE  Lifecycle!Next
<1>1. Status(c) = "waiting"
  BY DEF Status, Running
<1>2. Status(c)' = "running"
  BY DEF Status, IInv, Typed
<1>3. ASSUME NEW b \in Batch, b # c PROVE Status(b)' = Status(b)
  <2>1. Running(b)' <=> Running(b)
    BY <1>3 DEF Running, IInv, Typed
  <2>2. QED
    BY <2>1 DEF Status, Running
<1>4. Lifecycle!Start(c)
  BY <1>1, <1>2, <1>3, Moves DEF Lifecycle!Start
<1>5. QED
  BY <1>4 DEF Lifecycle!Next

(***************************************************************************)
(* A worker that ends an attempt is the only one that runs its batch.      *)
(***************************************************************************)
LEMMA EndsAttempt ==
    ASSUME IInv, NEW v \in Worker, pc[v] = "stage", NEW label, label # "stage",
           pc' = [pc EXCEPT ![v] = label], UNCHANGED <<cur, seen>>
    PROVE  /\ cur[v] \in Batch /\ cur[v] \in seen /\ Running(cur[v])
           /\ outcome[cur[v]] = "none" /\ attempts[cur[v]] = requeues[cur[v]] + 1
           /\ ~Running(cur[v])'
           /\ \A b \in Batch \ {cur[v]} : Running(b)' <=> Running(b)
<1>1. cur[v] \in Batch
  BY DEF IInv, Typed, Shape
<1>2. /\ cur[v] \in seen /\ outcome[cur[v]] = "none"
      /\ attempts[cur[v]] = requeues[cur[v]] + 1
  BY <1>1 DEF IInv, BatchInv, HeldInv
<1>3. \A u \in Worker : cur[u] = cur[v] => u = v
  BY <1>1, Bounds DEF IInv, Shape, Worker
<1>4. QED
  BY <1>1, <1>2, <1>3 DEF IInv, Typed, Running

(***************************************************************************)
(* Every other step leaves attempts, outcomes and running batches alone.   *)
(***************************************************************************)
LEMMA OtherSteps ==
    ASSUME IInv, UNCHANGED <<seen, outcome, attempts>>,
           \A b \in Batch : Running(b)' <=> Running(b)
    PROVE  UNCHANGED Lifecycle!lifecycle
  BY Stutters DEF Status, Running

(***************************************************************************)
(* Each step of the orchestrator is a step of the lifecycle or changes     *)
(* nothing the lifecycle sees.                                             *)
(***************************************************************************)
LEMMA StepSimulation ==
    ASSUME IInv, [Next]_vars
    PROVE  [Lifecycle!Next]_(Lifecycle!lifecycle)
<1>1. ASSUME NEW a \in Batch, SendBatch(a) PROVE Lifecycle!Next
  <2>1. \A b \in Batch : Running(b)' <=> Running(b)
    BY <1>1 DEF SendBatch, Running
  <2>2. ~Running(a) /\ outcome[a] = "none" /\ a \notin seen
    BY <1>1 DEF SendBatch, IInv, BatchInv, Fresh, Held, Running
  <2>3. Status(a) = "unseen" /\ Status(a)' = "waiting"
    BY <1>1, <2>1, <2>2 DEF SendBatch, Status, Running
  <2>4. \A b \in Batch \ {a} : Status(b)' = Status(b)
    BY <1>1, <2>1 DEF SendBatch, Status, Running
  <2>5. Lifecycle!Accept(a)
    BY <1>1, <2>3, <2>4, Moves DEF SendBatch, Lifecycle!Accept
  <2>6. QED
    BY <2>5 DEF Lifecycle!Next
<1>2. CASE Receive
  <2> DEFINE c == Head(batchChan)
  <2>1. c \in Elements(batchChan) /\ c \in Batch
    BY <1>2, TailElements DEF Receive, IInv, Typed, Shape
  <2>2. /\ c \in seen /\ outcome[c] = "none" /\ attempts[c] = 0 /\ ~Running(c)
    BY <2>1 DEF IInv, BatchInv, Fresh, Held, Running
  <2>3. /\ pc[Main] # "stage" /\ Main \in Worker /\ attempts[c] <= MaxRetries
        /\ pc' = [pc EXCEPT ![Main] = "stage"] /\ cur' = [cur EXCEPT ![Main] = c]
        /\ attempts' = [attempts EXCEPT ![c] = @ + 1] /\ UNCHANGED <<seen, outcome>>
    BY <1>2, <2>2, Bounds DEF Receive, Begin, Goto, Worker
  <2> HIDE DEF c
  <2>4. QED
    BY <2>1, <2>2, <2>3, StartsAttempt
<1>3. CASE GetBatch
  <2> DEFINE c == cur[Retry]
  <2>1. c \in Batch /\ pc[Retry] = "lookup" /\ Retry \in Worker
    BY <1>3 DEF GetBatch, IInv, Typed, Shape, Worker, Main, Retry
  <2>2. c \in seen /\ c \in batches /\ outcome[c] = "none" /\ attempts[c] <= MaxRetries
    BY <2>1 DEF IInv, BatchInv, HeldInv, Retrying
  <2>3. ~Running(c)
    BY <2>1, Bounds DEF Running, IInv, Shape, Worker, Main, Retry
  <2>4. /\ pc' = [pc EXCEPT ![Retry] = "stage"] /\ cur' = [cur EXCEPT ![Retry] = c]
        /\ attempts' = [attempts EXCEPT ![c] = @ + 1] /\ UNCHANGED <<seen, outcome>>
    BY <1>3, <2>2 DEF GetBatch, Begin, Goto, chanVars
  <2>5. QED
    BY <2>1, <2>2, <2>3, <2>4, StartsAttempt
<1>4. ASSUME NEW v \in Worker, StageSucceeds(v), ~(stage[v] < NumStages)
      PROVE  Lifecycle!Next
  <2> DEFINE c == cur[v]
  <2>1. /\ pc[v] = "stage" /\ pc' = [pc EXCEPT ![v] = "forget"]
        /\ outcome' = [outcome EXCEPT ![c] = "succeeded"]
        /\ UNCHANGED <<cur, seen, attempts>>
    BY <1>4 DEF StageSucceeds, Goto, chanVars
  <2>2. /\ c \in Batch /\ c \in seen /\ Running(c) /\ outcome[c] = "none"
        /\ \A b \in Batch \ {c} : Running(b)' <=> Running(b)
    BY <2>1, EndsAttempt
  <2>3. Status(c) = "running" /\ Status(c)' = "succeeded"
    BY <2>1, <2>2 DEF Status, Running, IInv, Typed
  <2>4. \A b \in Batch \ {c} : Status(b)' = Status(b)
    BY <2>1, <2>2 DEF Status, Running, IInv, Typed
  <2>5. Lifecycle!Succeed(c)
    BY <2>1, <2>2, <2>3, <2>4, Moves DEF Lifecycle!Succeed
  <2>6. QED
    BY <2>2, <2>5 DEF Lifecycle!Next
<1>5. ASSUME NEW v \in Worker, StageFails(v), RetryAllowed(cur[v])
      PROVE  Lifecycle!Next
  <2> DEFINE c == cur[v]
  <2>1. /\ pc[v] = "stage" /\ pc' = [pc EXCEPT ![v] = "addMap"]
        /\ UNCHANGED <<cur, seen, attempts, outcome>>
    BY <1>5 DEF StageFails, Goto, chanVars
  <2>2. /\ c \in Batch /\ c \in seen /\ Running(c) /\ outcome[c] = "none"
        /\ attempts[c] = requeues[c] + 1 /\ ~Running(c)'
        /\ \A b \in Batch \ {c} : Running(b)' <=> Running(b)
    BY <2>1, EndsAttempt
  <2>3. Status(c) = "running" /\ Status(c)' = "waiting"
    BY <2>1, <2>2 DEF Status, Running
  <2>4. \A b \in Batch \ {c} : Status(b)' = Status(b)
    BY <2>1, <2>2 DEF Status, Running
  <2>5. attempts[c] <= MaxRetries
    BY <1>5, <2>2 DEF RetryAllowed
  <2>6. Lifecycle!Retry(c)
    BY <2>1, <2>2, <2>3, <2>4, <2>5, Moves DEF Lifecycle!Retry
  <2>7. QED
    BY <2>2, <2>6 DEF Lifecycle!Next
<1>6. ASSUME NEW v \in Worker, StageFails(v), ~RetryAllowed(cur[v])
      PROVE  Lifecycle!Next
  <2> DEFINE c == cur[v]
  <2>1. /\ pc[v] = "stage" /\ pc' = [pc EXCEPT ![v] = "forget"]
        /\ outcome' = [outcome EXCEPT ![c] = "failed"]
        /\ UNCHANGED <<cur, seen, attempts>>
    BY <1>6 DEF StageFails, Goto, chanVars
  <2>2. /\ c \in Batch /\ c \in seen /\ Running(c) /\ outcome[c] = "none"
        /\ attempts[c] = requeues[c] + 1
        /\ \A b \in Batch \ {c} : Running(b)' <=> Running(b)
    BY <2>1, EndsAttempt
  <2>3. Status(c) = "running" /\ Status(c)' = "failed"
    BY <2>1, <2>2 DEF Status, Running, IInv, Typed
  <2>4. \A b \in Batch \ {c} : Status(b)' = Status(b)
    BY <2>1, <2>2 DEF Status, Running, IInv, Typed
  <2>5. attempts[c] = MaxRetries + 1
    BY <1>6, <2>2, Bounds DEF RetryAllowed, IInv, Typed
  <2>6. Lifecycle!GiveUp(c)
    BY <2>1, <2>2, <2>3, <2>4, <2>5, Moves DEF Lifecycle!GiveUp
  <2>7. QED
    BY <2>2, <2>6 DEF Lifecycle!Next
<1>7. ASSUME NEW v \in Worker, StageSucceeds(v), stage[v] < NumStages
      PROVE  UNCHANGED Lifecycle!lifecycle
  BY <1>7, OtherSteps DEF StageSucceeds, chanVars, Running
<1>8. ASSUME NEW v \in Worker, Process(v), ~StageSucceeds(v), ~StageFails(v)
      PROVE  UNCHANGED Lifecycle!lifecycle
  <2>1. /\ UNCHANGED <<seen, outcome, attempts>>
        /\ \A u \in Worker : pc[u] = "stage" \/ pc'[u] = "stage" =>
               pc'[u] = pc[u] /\ cur'[u] = cur[u]
    BY <1>8 DEF Process, AddToMap, AddRateLimited, ForgetInMap, ForgetInQueue,
       RebuildSucceeds, RebuildFails, RequeueFailedResources, Release, Goto, chanVars,
       IInv, Typed, Worker, Main, Retry
  <2>2. QED
    BY <2>1, OtherSteps DEF Running
<1>9. ASSUME Cancel \/ CloseChannel \/ ShutDown \/ StopMain \/ GetID \/ StopRetry \/ Done
               \/ (\E b \in Batch : DelayElapsed(b)) \/ UNCHANGED vars
      PROVE  UNCHANGED Lifecycle!lifecycle
  <2>1. /\ UNCHANGED <<seen, outcome, attempts>>
        /\ \A u \in Worker : pc[u] = "stage" \/ pc'[u] = "stage" =>
               pc'[u] = pc[u] /\ cur'[u] = cur[u]
    BY <1>9 DEF Cancel, CloseChannel, ShutDown, StopMain, GetID, StopRetry, Done,
       DelayElapsed, vars, Goto, chanVars, IInv, Typed, Worker, Main, Retry
  <2>2. QED
    BY <2>1, OtherSteps DEF Running
<1>10. QED
  BY <1>1, <1>2, <1>3, <1>4, <1>5, <1>6, <1>7, <1>8, <1>9 DEF Next, Process

(***************************************************************************)
(* The orchestrator implements BatchLifecycle.                             *)
(***************************************************************************)
THEOREM Implementation == Spec => ImplementsLifecycle
<1>1. Init => Lifecycle!Init
  <2> SUFFICES ASSUME Init PROVE Lifecycle!Init
    OBVIOUS
  <2>1. \A b \in Batch : Status(b) = "unseen"
    BY DEF Init, Status
  <2>2. attempts = [b \in Batch |-> 0]
    BY DEF Init
  <2>3. QED
    BY <2>1, <2>2 DEF Lifecycle!Init
<1>2. QED
  BY <1>1, StepSimulation, Inductive, PTL
     DEF Spec, ImplementsLifecycle, Lifecycle!Spec

(***************************************************************************)
(* The type invariant: the flags are set by their own steps only.          *)
(***************************************************************************)
THEOREM TypeCorrect == Spec => []TypeOK
<1> DEFINE Flags == /\ chanClosed \in BOOLEAN
                    /\ cancelled \in BOOLEAN
                    /\ queueDown \in BOOLEAN
<1>1. Init => Flags
  BY DEF Init
<1>2. Flags /\ [Next]_vars => Flags'
  <2> SUFFICES ASSUME Flags, [Next]_vars PROVE Flags'
    OBVIOUS
  <2>1. chanClosed' = chanClosed \/ chanClosed' = TRUE
    BY DEF Next, vars, chanVars, queueVars, SendBatch, DelayElapsed, Cancel, CloseChannel,
       ShutDown, Receive, StopMain, GetID, GetBatch, StopRetry, Done, Process,
       StageSucceeds, StageFails, AddToMap, AddRateLimited, ForgetInMap, ForgetInQueue,
       RebuildSucceeds, RebuildFails, RequeueFailedResources
  <2>2. cancelled' = cancelled \/ cancelled' = TRUE
    BY DEF Next, vars, chanVars, queueVars, SendBatch, DelayElapsed, Cancel, CloseChannel,
       ShutDown, Receive, StopMain, GetID, GetBatch, StopRetry, Done, Process,
       StageSucceeds, StageFails, AddToMap, AddRateLimited, ForgetInMap, ForgetInQueue,
       RebuildSucceeds, RebuildFails, RequeueFailedResources
  <2>3. queueDown' = queueDown \/ queueDown' = TRUE
    BY DEF Next, vars, chanVars, queueVars, SendBatch, DelayElapsed, Cancel, CloseChannel,
       ShutDown, Receive, StopMain, GetID, GetBatch, StopRetry, Done, Process,
       StageSucceeds, StageFails, AddToMap, AddRateLimited, ForgetInMap, ForgetInQueue,
       RebuildSucceeds, RebuildFails, RequeueFailedResources
  <2>4. QED
    BY <2>1, <2>2, <2>3, Zenon
<1>3. IInv /\ Flags => TypeOK
  <2> SUFFICES ASSUME IInv, Flags PROVE TypeOK
    OBVIOUS
  <2>1. Typed
    BY DEF IInv
  <2>2. QED
    BY <2>1, Zenon DEF Typed, TypeOK
<1>4. QED
  BY <1>1, <1>2, <1>3, Inductive, PTL DEF Spec
=============================================================================
