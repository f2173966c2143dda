-------------------------- MODULE StateSyncProofs --------------------------
(***************************************************************************)
(* Proofs about StateSync, for every capacity of the debouncer's channel   *)
(* and every bound: no change a follower has seen is forgotten, and a      *)
(* ready replica answers from mappings that were really built.             *)
(***************************************************************************)
EXTENDS StateSync, TLAPS

\* Only an elected replica has batches or a syncer that stopped.
LeaderOnly ==
    /\ pc = "stopped" => elected
    /\ batch # None => elected

\* What a rebuild has listed is current, or another rebuild follows.
ListsCovered ==
    /\ pc = "listed" /\ seen["WSA"] # cache["WSA"] => RebuildPending
    /\ pc = "computed" => \A k \in Kind : seen[k] # cache[k] => RebuildPending

\* Everything that is listed is at least as new as the start of the process.
NoOlderThanStart ==
    /\ \A k \in Kind : started[k] <= cache[k] /\ cache[k] <= version[k]
    /\ pc \in {"listed", "computed"} => seen["WSA"] >= started["WSA"]
    /\ pc = "computed" => seen["CWSA"] >= started["CWSA"]
    /\ \A k \in Kind : batch[k] > 0 => batch[k] >= started[k]
    /\ batch["CWSA"] > 0 => batch["WSA"] > 0

IInv ==
    /\ TypeOK
    /\ LeaderOnly
    /\ ListsCovered
    /\ NoOlderThanStart
    /\ PendingCoversChange
    /\ ReadyMeansBuilt

-----------------------------------------------------------------------------
\* Types.

\* The mapping built from nothing is within the types.
LEMMA NoneTyped == None \in [Kind -> 0..MaxVersion]
BY StateSyncAssumption DEF None

\* A process that boots has the types it is declared with.
LEMMA BootTyped ==
    ASSUME TypeOK, Restart, faults' \in 0..MaxFaults
    PROVE  TypeOK'
<1>1. seen' \in [Kind -> 0..MaxVersion] /\ batch' \in [Kind -> 0..MaxVersion]
      /\ served' = None
  BY NoneTyped DEF Restart, Boot
<1>2. version' \in [Kind -> 1..MaxVersion] /\ cache' \in [Kind -> 1..MaxVersion]
      /\ started' \in [Kind -> 1..MaxVersion]
  BY DEF TypeOK, Restart, Boot
<1>3. timeChan' \in 0..TimeCap
  BY StateSyncAssumption DEF Restart, Boot
<1>4. /\ queue' \subseteq Kind
      /\ pc' \in {"build", "listed", "computed", "select", "debounce", "stopped"}
      /\ triggerCh' \in BOOLEAN /\ rebuildCh' \in BOOLEAN /\ armed' \in BOOLEAN
      /\ synced' \in BOOLEAN /\ elected' \in BOOLEAN /\ failed' \in BOOLEAN
  BY DEF Restart, Boot
<1> QED
  BY <1>1, <1>2, <1>3, <1>4, Zenon DEF TypeOK

\* Every step of the syncer, the batches and the cluster keeps the types.
\* What a rebuild or a batch publishes is listed whole by then.
LEMMA TypeStep == TypeOK /\ NoOlderThanStart /\ [Next]_vars => TypeOK'
<1> SUFFICES ASSUME TypeOK, NoOlderThanStart, [Next]_vars PROVE TypeOK'
  OBVIOUS
<1> USE StateSyncAssumption DEF TypeOK, debouncer, syncer, ghosts, Kind
<1>1. ASSUME NEW k \in Kind, Change(k) PROVE TypeOK'
  BY <1>1 DEF Change
<1>2. ASSUME NEW k \in Kind, WatchEvent(k) PROVE TypeOK'
  BY <1>2 DEF WatchEvent
<1>3. CASE Reconcile
  BY <1>3 DEF Reconcile, Trigger
<1>4. CASE ListWSAs
  BY <1>4 DEF ListWSAs
<1>5. CASE ListCWSAs
  BY <1>5 DEF ListCWSAs
<1>6. CASE RefreshScopeMappings
  <2>1. seen \in [Kind -> 1..MaxVersion]
    BY <1>6 DEF RefreshScopeMappings, NoOlderThanStart
  <2> QED BY <1>6, <2>1, NoneTyped DEF RefreshScopeMappings
<1>7. CASE RebuildFails
  <2>1. faults' \in 0..MaxFaults
    BY <1>7 DEF RebuildFails, Fault
  <2>2. CASE synced
    BY <1>7, <2>1, <2>2, NoneTyped DEF RebuildFails
  <2>3. CASE ~synced
    <3>1. Restart
      BY <1>7, <2>3 DEF RebuildFails
    <3> QED BY <2>1, <3>1, BootTyped
  <2> QED BY <2>2, <2>3
<1>8. CASE DebounceTrigger
  BY <1>8 DEF DebounceTrigger
<1>9. CASE BeginRebuild
  BY <1>9 DEF BeginRebuild
<1>10. CASE StandDown
  BY <1>10 DEF StandDown
<1>11. CASE Debounce
  BY <1>11 DEF Debounce
<1>12. CASE ReceiveTimestamp
  BY <1>12 DEF ReceiveTimestamp
<1>13. CASE Tick
  BY <1>13 DEF Tick
<1>14. CASE BecomeLeader
  BY <1>14 DEF BecomeLeader
<1>15. CASE BatchListsWSAs
  BY <1>15 DEF BatchListsWSAs
<1>16. CASE BatchListsCWSAs
  BY <1>16 DEF BatchListsCWSAs
<1>17. CASE ApplyBatchPlan
  <2>1. batch \in [Kind -> 1..MaxVersion]
    BY <1>17 DEF ApplyBatchPlan, NoOlderThanStart
  <2> QED BY <1>17, <2>1, NoneTyped DEF ApplyBatchPlan
<1>18. CASE Crash
  <2>1. faults' \in 0..MaxFaults
    BY <1>18 DEF Crash, Fault
  <2> QED BY <1>18, <2>1, BootTyped DEF Crash
<1>19. CASE UNCHANGED vars
  BY <1>19 DEF vars
<1> QED
  BY <1>1, <1>2, <1>3, <1>4, <1>5, <1>6, <1>7, <1>8, <1>9, <1>10, <1>11, <1>12, <1>13,
     <1>14, <1>15, <1>16, <1>17, <1>18, <1>19 DEF Next, Start, Rebuild, DebounceLoop

-----------------------------------------------------------------------------
\* The parts of the invariant.

\* The syncer stands down, and batches run, on a leader only.
LEMMA LeaderOnlyStep == TypeOK /\ LeaderOnly /\ [Next]_vars => LeaderOnly'
<1> SUFFICES ASSUME TypeOK, LeaderOnly, [Next]_vars PROVE LeaderOnly'
  OBVIOUS
<1> USE DEF TypeOK, LeaderOnly, debouncer, syncer, ghosts, Kind
<1>1. ASSUME NEW k \in Kind, Change(k) PROVE LeaderOnly'
  BY <1>1 DEF Change
<1>2. ASSUME NEW k \in Kind, WatchEvent(k) PROVE LeaderOnly'
  BY <1>2 DEF WatchEvent
<1>3. CASE Reconcile
  BY <1>3 DEF Reconcile, Trigger
<1>4. CASE ListWSAs
  BY <1>4 DEF ListWSAs
<1>5. CASE ListCWSAs
  BY <1>5 DEF ListCWSAs
<1>6. CASE RefreshScopeMappings
  BY <1>6 DEF RefreshScopeMappings
<1>7. CASE RebuildFails
  <2>1. CASE synced
    BY <1>7, <2>1 DEF RebuildFails
  <2>2. CASE ~synced
    <3>1. Restart
      BY <1>7, <2>2 DEF RebuildFails
    <3> QED BY <3>1 DEF Restart, Boot, None
  <2> QED BY <2>1, <2>2
<1>8. CASE DebounceTrigger
  BY <1>8 DEF DebounceTrigger
<1>9. CASE BeginRebuild
  BY <1>9 DEF BeginRebuild
<1>10. CASE StandDown
  BY <1>10 DEF StandDown
<1>11. CASE Debounce
  BY <1>11 DEF Debounce
<1>12. CASE ReceiveTimestamp
  BY <1>12 DEF ReceiveTimestamp
<1>13. CASE Tick
  BY <1>13 DEF Tick
<1>14. CASE BecomeLeader
  BY <1>14 DEF BecomeLeader
<1>15. CASE BatchListsWSAs
  BY <1>15 DEF BatchListsWSAs
<1>16. CASE BatchListsCWSAs
  BY <1>16 DEF BatchListsCWSAs, None
<1>17. CASE ApplyBatchPlan
  BY <1>17 DEF ApplyBatchPlan, None
<1>18. CASE Crash
  BY <1>18 DEF Crash, Restart, Boot, None
<1>19. CASE UNCHANGED vars
  BY <1>19 DEF vars
<1> QED
  BY <1>1, <1>2, <1>3, <1>4, <1>5, <1>6, <1>7, <1>8, <1>9, <1>10, <1>11, <1>12, <1>13,
     <1>14, <1>15, <1>16, <1>17, <1>18, <1>19 DEF Next, Start, Rebuild, DebounceLoop

\* What is listed and published is never older than the replica's start.
LEMMA NoOlderStep == TypeOK /\ NoOlderThanStart /\ [Next]_vars => NoOlderThanStart'
<1> SUFFICES ASSUME TypeOK, NoOlderThanStart, [Next]_vars PROVE NoOlderThanStart'
  OBVIOUS
<1> USE DEF TypeOK, NoOlderThanStart, debouncer, syncer, ghosts, Kind
<1>1. ASSUME NEW k \in Kind, Change(k) PROVE NoOlderThanStart'
  BY <1>1 DEF Change
<1>2. ASSUME NEW k \in Kind, WatchEvent(k) PROVE NoOlderThanStart'
  BY <1>2 DEF WatchEvent
<1>3. CASE Reconcile
  BY <1>3 DEF Reconcile, Trigger
<1>4. CASE ListWSAs
  BY <1>4 DEF ListWSAs
<1>5. CASE ListCWSAs
  BY <1>5 DEF ListCWSAs
<1>6. CASE RefreshScopeMappings
  BY <1>6 DEF RefreshScopeMappings, None
<1>7. CASE RebuildFails
  <2>1. CASE synced
    BY <1>7, <2>1 DEF RebuildFails, None
  <2>2. CASE ~synced
    <3>1. Restart
      BY <1>7, <2>2 DEF RebuildFails
    <3> QED BY <3>1 DEF Restart, Boot, None
  <2> QED BY <2>1, <2>2
<1>8. CASE DebounceTrigger
  BY <1>8 DEF DebounceTrigger
<1>9. CASE BeginRebuild
  BY <1>9 DEF BeginRebuild
<1>10. CASE StandDown
  BY <1>10 DEF StandDown
<1>11. CASE Debounce
  BY <1>11 DEF Debounce
<1>12. CASE ReceiveTimestamp
  BY <1>12 DEF ReceiveTimestamp
<1>13. CASE Tick
  BY <1>13 DEF Tick
<1>14. CASE BecomeLeader
  BY <1>14 DEF BecomeLeader
<1>15. CASE BatchListsWSAs
  BY <1>15 DEF BatchListsWSAs
<1>16. CASE BatchListsCWSAs
  BY <1>16 DEF BatchListsCWSAs
<1>17. CASE ApplyBatchPlan
  BY <1>17 DEF ApplyBatchPlan, None
<1>18. CASE Crash
  BY <1>18 DEF Crash, Restart, Boot, None
<1>19. CASE UNCHANGED vars
  BY <1>19 DEF vars
<1> QED
  BY <1>1, <1>2, <1>3, <1>4, <1>5, <1>6, <1>7, <1>8, <1>9, <1>10, <1>11, <1>12, <1>13,
     <1>14, <1>15, <1>16, <1>17, <1>18, <1>19 DEF Next, Start, Rebuild, DebounceLoop

\* Until the syncer's loop takes it, what is pending moves on and stays.
LEMMA ListsCoveredStep == TypeOK /\ ListsCovered /\ [Next]_vars => ListsCovered'
<1> SUFFICES ASSUME TypeOK, ListsCovered, [Next]_vars PROVE ListsCovered'
  OBVIOUS
<1> USE DEF TypeOK, ListsCovered, RebuildPending, debouncer, syncer, ghosts, Kind
<1>1. ASSUME NEW k \in Kind, Change(k) PROVE ListsCovered'
  BY <1>1 DEF Change
<1>2. ASSUME NEW k \in Kind, WatchEvent(k) PROVE ListsCovered'
  BY <1>2 DEF WatchEvent
<1>3. CASE Reconcile
  BY <1>3 DEF Reconcile, Trigger
<1>4. CASE ListWSAs
  BY <1>4 DEF ListWSAs
<1>5. CASE ListCWSAs
  BY <1>5 DEF ListCWSAs
<1>6. CASE RefreshScopeMappings
  BY <1>6 DEF RefreshScopeMappings
<1>7. CASE RebuildFails
  <2>1. CASE synced
    BY <1>7, <2>1 DEF RebuildFails
  <2>2. CASE ~synced
    <3>1. Restart
      BY <1>7, <2>2 DEF RebuildFails
    <3> QED BY <3>1 DEF Restart, Boot, None
  <2> QED BY <2>1, <2>2
<1>8. CASE DebounceTrigger
  BY <1>8 DEF DebounceTrigger
<1>9. CASE BeginRebuild
  BY <1>9 DEF BeginRebuild
<1>10. CASE StandDown
  BY <1>10 DEF StandDown
<1>11. CASE Debounce
  BY <1>11 DEF Debounce
<1>12. CASE ReceiveTimestamp
  BY <1>12 DEF ReceiveTimestamp
<1>13. CASE Tick
  BY <1>13 DEF Tick
<1>14. CASE BecomeLeader
  BY <1>14 DEF BecomeLeader
<1>15. CASE BatchListsWSAs
  BY <1>15 DEF BatchListsWSAs
<1>16. CASE BatchListsCWSAs
  BY <1>16 DEF BatchListsCWSAs
<1>17. CASE ApplyBatchPlan
  BY <1>17 DEF ApplyBatchPlan
<1>18. CASE Crash
  BY <1>18 DEF Crash, Restart, Boot, None
<1>19. CASE UNCHANGED vars
  BY <1>19 DEF vars
<1> QED
  BY <1>1, <1>2, <1>3, <1>4, <1>5, <1>6, <1>7, <1>8, <1>9, <1>10, <1>11, <1>12, <1>13,
     <1>14, <1>15, <1>16, <1>17, <1>18, <1>19 DEF Next, Start, Rebuild, DebounceLoop

\* The loop takes a trigger to the debouncer and a request to a rebuild that
\* lists everything; a rebuild that ends has what the caches had, or more is
\* pending.
LEMMA PendingStep ==
    TypeOK /\ LeaderOnly /\ ListsCovered /\ PendingCoversChange /\ [Next]_vars
        => PendingCoversChange'
<1> SUFFICES ASSUME TypeOK, LeaderOnly, ListsCovered, PendingCoversChange, [Next]_vars
             PROVE  PendingCoversChange'
  OBVIOUS
<1> USE DEF TypeOK, LeaderOnly, ListsCovered, PendingCoversChange, RebuildPending, RebuildCovers,
            debouncer, syncer, ghosts, Kind
<1>1. ASSUME NEW k \in Kind, Change(k) PROVE PendingCoversChange'
  BY <1>1 DEF Change
<1>2. ASSUME NEW k \in Kind, WatchEvent(k) PROVE PendingCoversChange'
  BY <1>2 DEF WatchEvent
<1>3. CASE Reconcile
  BY <1>3 DEF Reconcile, Trigger
<1>4. CASE ListWSAs
  BY <1>4 DEF ListWSAs
<1>5. CASE ListCWSAs
  BY <1>5 DEF ListCWSAs
<1>6. CASE RefreshScopeMappings
  BY <1>6 DEF RefreshScopeMappings
<1>7. CASE RebuildFails
  <2>1. CASE synced
    BY <1>7, <2>1 DEF RebuildFails
  <2>2. CASE ~synced
    <3>1. Restart
      BY <1>7, <2>2 DEF RebuildFails
    <3> QED BY <3>1 DEF Restart, Boot, None
  <2> QED BY <2>1, <2>2
<1>8. CASE DebounceTrigger
  BY <1>8 DEF DebounceTrigger
<1>9. CASE BeginRebuild
  BY <1>9 DEF BeginRebuild
<1>10. CASE StandDown
  BY <1>10 DEF StandDown
<1>11. CASE Debounce
  BY <1>11 DEF Debounce
<1>12. CASE ReceiveTimestamp
  BY <1>12 DEF ReceiveTimestamp
<1>13. CASE Tick
  BY <1>13 DEF Tick
<1>14. CASE BecomeLeader
  BY <1>14 DEF BecomeLeader
<1>15. CASE BatchListsWSAs
  BY <1>15 DEF BatchListsWSAs
<1>16. CASE BatchListsCWSAs
  BY <1>16 DEF BatchListsCWSAs, None
<1>17. CASE ApplyBatchPlan
  BY <1>17 DEF ApplyBatchPlan, None
<1>18. CASE Crash
  BY <1>18 DEF Crash, Restart, Boot, None
<1>19. CASE UNCHANGED vars
  BY <1>19 DEF vars
<1> QED
  BY <1>1, <1>2, <1>3, <1>4, <1>5, <1>6, <1>7, <1>8, <1>9, <1>10, <1>11, <1>12, <1>13,
     <1>14, <1>15, <1>16, <1>17, <1>18, <1>19 DEF Next, Start, Rebuild, DebounceLoop

\* A replica that reports ready keeps having a mapping that was built.
LEMMA ReadyStep ==
    TypeOK /\ NoOlderThanStart /\ ReadyMeansBuilt /\ [Next]_vars => ReadyMeansBuilt'
<1> SUFFICES ASSUME TypeOK, NoOlderThanStart, ReadyMeansBuilt, [Next]_vars
             PROVE  ReadyMeansBuilt'
  OBVIOUS
<1> USE DEF TypeOK, NoOlderThanStart, ReadyMeansBuilt, Ready, debouncer, syncer, ghosts, Kind
<1>1. ASSUME NEW k \in Kind, Change(k) PROVE ReadyMeansBuilt'
  BY <1>1 DEF Change
<1>2. ASSUME NEW k \in Kind, WatchEvent(k) PROVE ReadyMeansBuilt'
  BY <1>2 DEF WatchEvent
<1>3. CASE Reconcile
  BY <1>3 DEF Reconcile, Trigger
<1>4. CASE ListWSAs
  BY <1>4 DEF ListWSAs
<1>5. CASE ListCWSAs
  BY <1>5 DEF ListCWSAs
<1>6. CASE RefreshScopeMappings
  BY <1>6 DEF RefreshScopeMappings
<1>7. CASE RebuildFails
  <2>1. CASE synced
    BY <1>7, <2>1 DEF RebuildFails
  <2>2. CASE ~synced
    <3>1. Restart
      BY <1>7, <2>2 DEF RebuildFails
    <3> QED BY <3>1 DEF Restart, Boot, None
  <2> QED BY <2>1, <2>2
<1>8. CASE DebounceTrigger
  BY <1>8 DEF DebounceTrigger
<1>9. CASE BeginRebuild
  BY <1>9 DEF BeginRebuild
<1>10. CASE StandDown
  BY <1>10 DEF StandDown
<1>11. CASE Debounce
  BY <1>11 DEF Debounce
<1>12. CASE ReceiveTimestamp
  BY <1>12 DEF ReceiveTimestamp
<1>13. CASE Tick
  BY <1>13 DEF Tick
<1>14. CASE BecomeLeader
  BY <1>14 DEF BecomeLeader
<1>15. CASE BatchListsWSAs
  BY <1>15 DEF BatchListsWSAs
<1>16. CASE BatchListsCWSAs
  BY <1>16 DEF BatchListsCWSAs
<1>17. CASE ApplyBatchPlan
  BY <1>17 DEF ApplyBatchPlan
<1>18. CASE Crash
  BY <1>18 DEF Crash, Restart, Boot, None
<1>19. CASE UNCHANGED vars
  BY <1>19 DEF vars
<1> QED
  BY <1>1, <1>2, <1>3, <1>4, <1>5, <1>6, <1>7, <1>8, <1>9, <1>10, <1>11, <1>12, <1>13,
     <1>14, <1>15, <1>16, <1>17, <1>18, <1>19 DEF Next, Start, Rebuild, DebounceLoop

\* The initial state satisfies the invariant.
LEMMA InitInv == Init => IInv
<1> SUFFICES ASSUME Init PROVE IInv
  OBVIOUS
<1>1. TypeOK
  <2>1. version \in [Kind -> 1..MaxVersion]
    BY StateSyncAssumption DEF Init
  <2>2. timeChan \in 0..TimeCap /\ faults \in 0..MaxFaults
    BY StateSyncAssumption DEF Init
  <2>3. /\ queue \subseteq Kind
        /\ pc \in {"build", "listed", "computed", "select", "debounce", "stopped"}
        /\ triggerCh \in BOOLEAN /\ rebuildCh \in BOOLEAN /\ armed \in BOOLEAN
        /\ synced \in BOOLEAN /\ elected \in BOOLEAN /\ failed \in BOOLEAN
    BY DEF Init
  <2>4. /\ cache = version /\ started = version
        /\ seen = None /\ batch = None /\ served = None
    BY DEF Init
  <2> QED BY <2>1, <2>2, <2>3, <2>4, NoneTyped, Zenon DEF TypeOK
<1>2. LeaderOnly /\ ListsCovered /\ PendingCoversChange /\ ReadyMeansBuilt
  BY DEF Init, LeaderOnly, ListsCovered, PendingCoversChange, RebuildCovers, ReadyMeansBuilt,
         Ready
<1>3. NoOlderThanStart
  BY DEF Init, NoOlderThanStart, Kind, None
<1> QED BY <1>1, <1>2, <1>3 DEF IInv

\* The invariant holds in every reachable state.
LEMMA Invariance == Spec => []IInv
<1>1. IInv /\ [Next]_vars => IInv'
  BY TypeStep, LeaderOnlyStep, ListsCoveredStep, NoOlderStep, PendingStep, ReadyStep DEF IInv
<1> QED BY InitInv, <1>1, PTL DEF Spec

-----------------------------------------------------------------------------
\* The types of the syncer's state, for every bound: what RefreshScopeMappings
\* and ApplyBatchPlan publish was computed from lists of both kinds.
THEOREM TypeCorrect == Spec => []TypeOK
BY Invariance, PTL DEF IInv

(***************************************************************************)
(* No change is forgotten (Trigger, the debouncer and rebuildCh drop what  *)
(* does not fit): what the mappings of a follower lack is covered by a     *)
(* rebuild that is pending or has not listed it yet.                       *)
(***************************************************************************)
THEOREM NoChangeForgotten == Spec => []PendingCoversChange
BY Invariance, PTL DEF IInv

(***************************************************************************)
(* ReadyzCheck: a ready replica has mappings no older than its process.    *)
(***************************************************************************)
THEOREM ReadinessIsSound == Spec => []ReadyMeansBuilt
BY Invariance, PTL DEF IInv
=============================================================================
