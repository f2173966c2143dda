--------------------------- MODULE BatchLifecycle ---------------------------
(***************************************************************************)
(* What the orchestrator promises about a batch of events, without the     *)
(* goroutines, the channel and the retry queue: it is attempted at most    *)
(* MaxRetries + 1 times, one attempt at a time, until an attempt succeeds; *)
(* it is given up only after the last allowed attempt, and never touched   *)
(* again once it succeeded or was given up.                                *)
(***************************************************************************)
EXTENDS Naturals

CONSTANTS Batch, MaxRetries

VARIABLES
    status,     \* per batch: "unseen", "waiting", "running", "succeeded", "failed"
    attempts    \* per batch: attempts started

lifecycle == <<status, attempts>>

Move(b, from, to) ==
    /\ status[b] = from
    /\ status' = [status EXCEPT ![b] = to]

Init ==
    /\ status = [b \in Batch |-> "unseen"]
    /\ attempts = [b \in Batch |-> 0]

Accept(b) ==
    /\ Move(b, "unseen", "waiting")
    /\ UNCHANGED attempts

Start(b) ==
    /\ attempts[b] <= MaxRetries
    /\ Move(b, "waiting", "running")
    /\ attempts' = [attempts EXCEPT ![b] = @ + 1]

Succeed(b) ==
    /\ Move(b, "running", "succeeded")
    /\ UNCHANGED attempts

Retry(b) ==
    /\ attempts[b] <= MaxRetries
    /\ Move(b, "running", "waiting")
    /\ UNCHANGED attempts

GiveUp(b) ==
    /\ attempts[b] = MaxRetries + 1
    /\ Move(b, "running", "failed")
    /\ UNCHANGED attempts

Next == \E b \in Batch :
    Accept(b) \/ Start(b) \/ Succeed(b) \/ Retry(b) \/ GiveUp(b)

Spec == Init /\ [][Next]_lifecycle
=============================================================================
