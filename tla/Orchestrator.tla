---------------------------- MODULE Orchestrator ----------------------------
(***************************************************************************)
(* StageOrchestrator and batchQueue (internal/reconciliation/              *)
(* orchestrator.go and batch_queue.go): two goroutines process batches at  *)
(* the same time, Start's main loop those that arrive from the collector,  *)
(* processRetryQueue those that failed before.  They meet in the retry     *)
(* queue: a map of batches under a mutex and client-go's rate limiting     *)
(* workqueue, which are updated one after the other and not together.      *)
(*                                                                         *)
(* The workqueue is external code, modelled from how the repository uses   *)
(* it: Add, AddAfter, Get, Done and ShutDown with the dirty and processing *)
(* sets, the waiting set of delayed adds, the failure counts of the rate   *)
(* limiter.                                                                *)
(***************************************************************************)
EXTENDS Naturals, Sequences

CONSTANTS
    Batch,          \* batch IDs (uuids: never reused)
    NoBatch,
    MaxRetries,     \* StageOrchestrator.maxRetries
    NumStages,      \* planning, validation, execution
    ChannelCap      \* capacity of the collector's batch channel

ASSUME OrchestratorAssumption ==
    /\ NoBatch \notin Batch
    /\ MaxRetries \in Nat
    /\ NumStages \in Nat \ {0}
    /\ ChannelCap \in Nat \ {0}

Main  == "main"     \* Start's loop
Retry == "retry"    \* processRetryQueue
Worker == {Main, Retry}

VARIABLES
    seen,           \* batches the collector has sent
    batchChan,      \* the collector's channel
    chanClosed,
    cancelled,      \* the manager's context is done
    pc, cur, stage, \* per worker: where it is, its batch, the running stage
    batches,        \* batchQueue.batches: the IDs in the map
    queue,          \* workqueue: ready items, in order
    dirty, processing, waiting,
    requeues,       \* rate limiter: failures per item
    queueDown,      \* workqueue: ShutDown was called
    attempts,       \* ghost: attempts started per batch
    outcome,        \* ghost: "none", "succeeded", "failed"
    requeued        \* ghost: failed batches whose resources became events again

chanVars  == <<seen, batchChan, chanClosed, cancelled>>
queueVars == <<queue, dirty, processing, waiting, queueDown>>
vars == <<chanVars, pc, cur, stage, batches, queueVars, requeues, attempts,
          outcome, requeued>>

Init ==
    /\ seen = {}
    /\ batchChan = <<>>
    /\ chanClosed = FALSE
    /\ cancelled = FALSE
    /\ pc = [w \in Worker |-> "next"]
    /\ cur = [w \in Worker |-> NoBatch]
    /\ stage = [w \in Worker |-> 0]
    /\ batches = {}
    /\ queue = <<>>
    /\ dirty = {} /\ processing = {} /\ waiting = {}
    /\ requeues = [b \in Batch |-> 0]
    /\ queueDown = FALSE
    /\ attempts = [b \in Batch |-> 0]
    /\ outcome = [b \in Batch |-> "none"]
    /\ requeued = {}

Elements(s) == {s[i] : i \in 1..Len(s)}

-----------------------------------------------------------------------------
\* The collector's side of the channel: a send that does not block, and the
\* close when its context ends.
SendBatch(b) ==
    /\ ~chanClosed
    /\ b \notin seen
    /\ Len(batchChan) < ChannelCap
    /\ batchChan' = Append(batchChan, b)
    /\ seen' = seen \cup {b}
    /\ UNCHANGED <<chanClosed, cancelled, pc, cur, stage, batches, queueVars,
                   requeues, attempts, outcome, requeued>>

CloseChannel ==
    /\ cancelled
    /\ ~chanClosed
    /\ chanClosed' = TRUE
    /\ UNCHANGED <<seen, batchChan, cancelled, pc, cur, stage, batches, queueVars,
                   requeues, attempts, outcome, requeued>>

\* The manager stops: the context of every goroutine ends.
Cancel ==
    /\ ~cancelled
    /\ cancelled' = TRUE
    /\ UNCHANGED <<seen, batchChan, chanClosed, pc, cur, stage, batches, queueVars,
                   requeues, attempts, outcome, requeued>>

\* A bug: nobody shuts the queue down.
Mut_ShutDown == FALSE /\ UNCHANGED vars

\* The goroutine of Start that waits for the context: retryQueue.ShutDown.
ShutDown ==
    /\ cancelled
    /\ ~queueDown
    /\ queueDown' = TRUE
    /\ UNCHANGED <<chanVars, pc, cur, stage, batches, queue, dirty, processing,
                   waiting, requeues, attempts, outcome, requeued>>

-----------------------------------------------------------------------------
\* A worker begins processBatch with a batch.
Begin(w, b) ==
    /\ cur' = [cur EXCEPT ![w] = b]
    /\ stage' = [stage EXCEPT ![w] = 1]
    /\ attempts' = [attempts EXCEPT ![b] = @ + 1]

Goto(w, label) == pc' = [pc EXCEPT ![w] = label]

\* Start: a batch arrives (NewBatch).
Receive ==
    /\ pc[Main] = "next"
    /\ batchChan # <<>>
    /\ batchChan' = Tail(batchChan)
    /\ Begin(Main, Head(batchChan))
    /\ Goto(Main, "stage")
    /\ UNCHANGED <<seen, chanClosed, cancelled, batches, queueVars, requeues,
                   outcome, requeued>>

\* Start returns; select takes any ready case, so batches may be left behind.
StopMain ==
    /\ pc[Main] = "next"
    /\ cancelled \/ (chanClosed /\ batchChan = <<>>)
    /\ Goto(Main, "stopped")
    /\ UNCHANGED <<chanVars, cur, stage, batches, queueVars, requeues, attempts,
                   outcome, requeued>>

-----------------------------------------------------------------------------
\* workqueue.Get: the oldest item moves from dirty to processing.
GetID ==
    /\ pc[Retry] = "next"
    /\ queue # <<>>
    /\ queue' = Tail(queue)
    /\ processing' = processing \cup {Head(queue)}
    /\ dirty' = dirty \ {Head(queue)}
    /\ cur' = [cur EXCEPT ![Retry] = Head(queue)]
    /\ Goto(Retry, "lookup")
    /\ UNCHANGED <<chanVars, stage, batches, waiting, queueDown, requeues,
                   attempts, outcome, requeued>>

\* batchQueue.Get: the batch behind the ID; an ID without a batch is dropped
\* (queue.Done and queue.Forget) and the loop goes on.
GetBatch ==
    /\ pc[Retry] = "lookup"
    /\ LET b == cur[Retry] IN
       IF b \in batches
       THEN /\ Begin(Retry, b)
            /\ Goto(Retry, "stage")
            /\ UNCHANGED <<processing, queue, requeues>>
       ELSE /\ processing' = processing \ {b}
            /\ queue' = IF b \in dirty THEN Append(queue, b) ELSE queue
            /\ requeues' = [requeues EXCEPT ![b] = 0]
            /\ Goto(Retry, "next")
            /\ cur' = [cur EXCEPT ![Retry] = NoBatch]
            /\ UNCHANGED <<stage, attempts>>
    /\ UNCHANGED <<chanVars, batches, dirty, waiting, queueDown, outcome, requeued>>

\* processRetryQueue returns once the queue is shut down and drained.
StopRetry ==
    /\ pc[Retry] = "next"
    /\ queueDown /\ queue = <<>>
    /\ Goto(Retry, "stopped")
    /\ UNCHANGED <<chanVars, cur, stage, batches, queueVars, requeues, attempts,
                   outcome, requeued>>

-----------------------------------------------------------------------------
\* processBatch: the stages in order; the first failure ends it.
StageSucceeds(w) ==
    /\ pc[w] = "stage"
    /\ IF stage[w] < NumStages
       THEN /\ stage' = [stage EXCEPT ![w] = @ + 1]
            /\ UNCHANGED <<pc, outcome>>
       ELSE /\ Goto(w, "forget")
            /\ stage' = [stage EXCEPT ![w] = 0]
            /\ outcome' = [outcome EXCEPT ![cur[w]] = "succeeded"]
    /\ UNCHANGED <<chanVars, cur, batches, queueVars, requeues, attempts, requeued>>

\* A bug: the retry in progress is not counted.
Mut_RetryAllowed(b) == requeues[b] <= MaxRetries

\* processBatchWithRetry: NumRequeues(batch) + 1 against maxRetries.
RetryAllowed(b) == requeues[b] + 1 <= MaxRetries

StageFails(w) ==
    /\ pc[w] = "stage"
    /\ stage' = [stage EXCEPT ![w] = 0]
    /\ IF RetryAllowed(cur[w])
       THEN Goto(w, "addMap") /\ UNCHANGED outcome
       ELSE /\ Goto(w, "forget")
            /\ outcome' = [outcome EXCEPT ![cur[w]] = "failed"]
    /\ UNCHANGED <<chanVars, cur, batches, queueVars, requeues, attempts, requeued>>

\* The worker is done with its batch: the retry loop still owes queue.Done.
Release(w) ==
    IF w = Main
    THEN /\ pc' = [pc EXCEPT ![Main] = "next"]
         /\ cur' = [cur EXCEPT ![Main] = NoBatch]
    ELSE /\ pc' = [pc EXCEPT ![Retry] = "done"]
         /\ UNCHANGED cur

\* A bug: the map is left to whoever added the batch first.
Mut_AddToMap(w) ==
    /\ pc[w] = "addMap"
    /\ Goto(w, "addQueue")
    /\ UNCHANGED <<chanVars, cur, stage, batches, queueVars, requeues, attempts,
                   outcome, requeued>>

\* AddRateLimited, first half: the batch goes into the map (under mu).
AddToMap(w) ==
    /\ pc[w] = "addMap"
    /\ batches' = batches \cup {cur[w]}
    /\ Goto(w, "addQueue")
    /\ UNCHANGED <<chanVars, cur, stage, queueVars, requeues, attempts, outcome, requeued>>

\* Second half: the rate limiter counts a failure and the ID is added after a
\* delay, unless the queue is shutting down.
AddRateLimited(w) ==
    /\ pc[w] = "addQueue"
    /\ requeues' = [requeues EXCEPT ![cur[w]] = @ + 1]
    /\ waiting' = IF queueDown THEN waiting ELSE waiting \cup {cur[w]}
    /\ Release(w)
    /\ UNCHANGED <<chanVars, stage, batches, queue, dirty, processing, queueDown,
                   attempts, outcome, requeued>>

\* A delay is over: workqueue.Add.  An item being processed waits for its Done.
DelayElapsed(b) ==
    /\ b \in waiting
    /\ ~queueDown
    /\ waiting' = waiting \ {b}
    /\ dirty' = dirty \cup {b}
    /\ queue' = IF b \in dirty \cup processing THEN queue ELSE Append(queue, b)
    /\ UNCHANGED <<chanVars, pc, cur, stage, batches, processing, queueDown,
                   requeues, attempts, outcome, requeued>>

\* A bug: a finished batch stays in the map.
Mut_ForgetInMap(w) ==
    /\ pc[w] = "forget"
    /\ Goto(w, "forgetQueue")
    /\ UNCHANGED <<chanVars, cur, stage, batches, queueVars, requeues, attempts,
                   outcome, requeued>>

\* Forget, first half: the batch leaves the map (under mu).
ForgetInMap(w) ==
    /\ pc[w] = "forget"
    /\ batches' = batches \ {cur[w]}
    /\ Goto(w, "forgetQueue")
    /\ UNCHANGED <<chanVars, cur, stage, queueVars, requeues, attempts, outcome, requeued>>

\* Second half: the rate limiter forgets the failures.  A batch that succeeded
\* is finished, one that failed for good goes to handlePermanentFailure.
ForgetInQueue(w) ==
    /\ pc[w] = "forgetQueue"
    /\ requeues' = [requeues EXCEPT ![cur[w]] = 0]
    /\ IF outcome[cur[w]] = "failed"
       THEN Goto(w, "rebuild") /\ UNCHANGED cur
       ELSE Release(w)
    /\ UNCHANGED <<chanVars, stage, batches, queueVars, attempts, outcome, requeued>>

-----------------------------------------------------------------------------
\* handlePermanentFailure: the engine is rebuilt; when that fails too, the
\* batch's resources are not requeued.
RebuildSucceeds(w) ==
    /\ pc[w] = "rebuild"
    /\ Goto(w, "requeue")
    /\ UNCHANGED <<chanVars, cur, stage, batches, queueVars, requeues, attempts,
                   outcome, requeued>>

RebuildFails(w) ==
    /\ pc[w] = "rebuild"
    /\ Release(w)
    /\ UNCHANGED <<chanVars, stage, batches, queueVars, requeues, attempts,
                   outcome, requeued>>

\* requeueFailedResources: the resources that still exist become events again.
RequeueFailedResources(w) ==
    /\ pc[w] = "requeue"
    /\ requeued' = requeued \cup {cur[w]}
    /\ Release(w)
    /\ UNCHANGED <<chanVars, stage, batches, queueVars, requeues, attempts, outcome>>

\* A bug: an item added while it was processed is not queued.
Mut_Done ==
    /\ pc[Retry] = "done"
    /\ processing' = processing \ {cur[Retry]}
    /\ cur' = [cur EXCEPT ![Retry] = NoBatch]
    /\ Goto(Retry, "next")
    /\ UNCHANGED <<chanVars, stage, batches, queue, dirty, waiting, queueDown,
                   requeues, attempts, outcome, requeued>>

\* processRetryQueue: retryQueue.Done.  An item added meanwhile is queued now.
Done ==
    /\ pc[Retry] = "done"
    /\ LET b == cur[Retry] IN
       /\ processing' = processing \ {b}
       /\ queue' = IF b \in dirty THEN Append(queue, b) ELSE queue
    /\ cur' = [cur EXCEPT ![Retry] = NoBatch]
    /\ Goto(Retry, "next")
    /\ UNCHANGED <<chanVars, stage, batches, dirty, waiting, queueDown, requeues,
                   attempts, outcome, requeued>>

-----------------------------------------------------------------------------
\* The steps of processBatchWithRetry.
Process(w) ==
    \/ StageSucceeds(w) \/ StageFails(w)
    \/ AddToMap(w) \/ AddRateLimited(w)
    \/ ForgetInMap(w) \/ ForgetInQueue(w)
    \/ RebuildSucceeds(w) \/ RebuildFails(w) \/ RequeueFailedResources(w)

MainStep  == Receive \/ StopMain \/ Process(Main)
RetryStep == GetID \/ GetBatch \/ StopRetry \/ Process(Retry) \/ Done

Next ==
    \/ \E b \in Batch : SendBatch(b) \/ DelayElapsed(b)
    \/ Cancel \/ CloseChannel \/ ShutDown
    \/ Receive \/ StopMain
    \/ GetID \/ GetBatch \/ StopRetry \/ Done
    \/ \E w \in Worker : Process(w)

Spec == Init /\ [][Next]_vars

\* Goroutines are scheduled and a stage always returns (stageTimeout), so a
\* worker that can step does; delays elapse; the goroutines that wait for the
\* context see it end.  Nothing forces a batch to be sent or the manager to
\* stop, and a stage may fail every time.
Fairness ==
    /\ WF_vars(MainStep) /\ WF_vars(RetryStep)
    /\ \A b \in Batch : WF_vars(DelayElapsed(b))
    /\ WF_vars(CloseChannel) /\ WF_vars(ShutDown)

FairSpec == Spec /\ Fairness

-----------------------------------------------------------------------------
\* Types, and the bounds of the rate limiter's count and of the attempts.
TypeOK ==
    /\ seen \subseteq Batch
    /\ batchChan \in Seq(Batch)
    /\ chanClosed \in BOOLEAN /\ cancelled \in BOOLEAN /\ queueDown \in BOOLEAN
    /\ pc \in [Worker -> {"next", "lookup", "stage", "addMap", "addQueue", "forget",
                          "forgetQueue", "rebuild", "requeue", "done", "stopped"}]
    /\ cur \in [Worker -> Batch \cup {NoBatch}]
    /\ stage \in [Worker -> 0..NumStages]
    /\ batches \subseteq Batch
    /\ queue \in Seq(Batch)
    /\ dirty \subseteq Batch /\ processing \subseteq Batch /\ waiting \subseteq Batch
    /\ requeues \in [Batch -> 0..MaxRetries]
    /\ attempts \in [Batch -> 0..(MaxRetries + 1)]
    /\ outcome \in [Batch -> {"none", "succeeded", "failed"}]
    /\ requeued \subseteq Batch

(***************************************************************************)
(* A batch the collector sent and that neither succeeded nor failed for    *)
(* good is somewhere: in the channel, in a worker's hands, waiting for its *)
(* delay or in the retry queue.  Only a retry that is queued after the     *)
(* queue was shut down is given up.  This is where the two halves of       *)
(* AddRateLimited, the lookup in Get and Done's re-queueing have to fit.   *)
(***************************************************************************)
NoBatchLost ==
    \A b \in seen : outcome[b] = "none" =>
        \/ b \in Elements(batchChan)
        \/ \E w \in Worker : cur[w] = b
        \/ b \in waiting
        \/ b \in Elements(queue)
        \/ queueDown

(***************************************************************************)
(* An ID taken from the queue always has its batch: the branch of          *)
(* batchQueue.Get that silently drops an ID is never taken.                *)
(***************************************************************************)
RetryFindsBatch == pc[Retry] = "lookup" => cur[Retry] \in batches

(***************************************************************************)
(* A finished batch nobody holds any more has left no trace: neither the   *)
(* map nor the rate limiter nor the workqueue grows with every failure.    *)
(***************************************************************************)
NoResidue ==
    \A b \in Batch : outcome[b] # "none" /\ (\A w \in Worker : cur[w] # b) =>
        /\ b \notin batches
        /\ requeues[b] = 0
        /\ b \notin waiting \cup dirty \cup processing \cup Elements(queue)

\* The lifecycle a batch is in, seen from outside.
Status(b) ==
    IF b \notin seen THEN "unseen"
    ELSE IF outcome[b] # "none" THEN outcome[b]
    ELSE IF \E w \in Worker : pc[w] = "stage" /\ cur[w] = b THEN "running"
    ELSE "waiting"

Lifecycle == INSTANCE BatchLifecycle WITH status <- [b \in Batch |-> Status(b)]

(***************************************************************************)
(* The orchestrator implements BatchLifecycle: at most maxRetries + 1      *)
(* attempts, never two at once although two goroutines process batches,    *)
(* given up only after the last, and no attempt after the end.             *)
(***************************************************************************)
ImplementsLifecycle == Lifecycle!Spec

(***************************************************************************)
(* Every batch that is sent eventually succeeds or fails for good, unless  *)
(* the manager stops: no batch waits forever behind the other goroutine.   *)
(***************************************************************************)
EveryBatchSettles ==
    \A b \in Batch : b \in seen ~> (outcome[b] # "none" \/ cancelled)

(***************************************************************************)
(* When the manager stops, both goroutines return, whatever is queued.     *)
(***************************************************************************)
StopsWhenCancelled ==
    cancelled ~> (\A w \in Worker : pc[w] = "stopped")
=============================================================================
