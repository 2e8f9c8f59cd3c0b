----------------------- MODULE SnapshotApplyQueueProofs -----------------------
(***************************************************************************)
(* Proofs about SnapshotApplyQueue for every value of its constants: its   *)
(* types, that no wakeup is lost, that the live cache follows the state    *)
(* machine, and that failures are handled once and in order.               *)
(***************************************************************************)
EXTENDS SnapshotApplyQueue, TLAPS

\* The records the queue builds are of the declared types.
LEMMA EmptyRecords ==
    /\ EmptyBatch \in Batch
    /\ NoPending \in Pending
    /\ NoEvent \in Event
    BY BoundsAssumption DEF EmptyBatch, Batch, NoPending, Pending, NoEvent, Event,
       KeysOrNone, Keys

\* What coalescing can leave of a batch is a batch again.
LEMMA AppendPendingType ==
    ASSUME NEW b \in Batch, NEW k \in Keys, NEW next \in AppendPending(b, k)
    PROVE  next \in Batch
<1>1. Retainable(b) \subseteq Keys /\ LatestKey(b) \in KeysOrNone /\ k \in KeysOrNone
    BY BoundsAssumption DEF Retainable, LatestKey, Batch, Keys, KeysOrNone
<1>2. CASE \E kept \in SUBSET Retainable(b) : next = [b EXCEPT !.mid = kept, !.last = k]
    BY <1>1, <1>2 DEF Batch
<1>3. CASE next = [head |-> "barrier", upto |-> LatestKey(b), mid |-> {}, last |-> k]
    BY <1>1, <1>3 DEF Batch
<1> QED BY <1>2, <1>3 DEF AppendPending

LEMMA InitType == Init => TypeOK
<1> SUFFICES ASSUME Init PROVE TypeOK
    OBVIOUS
<1> USE BoundsAssumption, FailureAssumption, EmptyRecords DEF Init
<1>1. FlagType
    BY Zenon DEF FlagType
<1>2. EnqueueType /\ FailureType
    BY DEF EnqueueType, FailureType, KeysOrNone
<1>3. QueueType
    BY DEF QueueType, KeysOrNone
<1>4. FlushType
    BY DEF FlushType, KeysOrNone
<1>5. EffectType
    BY DEF EffectType, KeysOrNone, Health
<1> QED BY <1>1, <1>2, <1>3, <1>4, <1>5 DEF TypeOK

\* Scheduling and retaining touch the pending event and its flush only.
LEMMA ScheduleType ==
    ASSUME QueueType, FlagType, ScheduleFlush
    PROVE  /\ flushPending' \in BOOLEAN /\ stranded' \in BOOLEAN
           /\ callbacks' \in Nat /\ faultsLeft' \in 0..SchedulerFaults
<1>1. flushPending' \in BOOLEAN /\ stranded' \in BOOLEAN
    BY Zenon DEF ScheduleFlush, FlagType
<1>2. callbacks' \in Nat /\ faultsLeft' \in 0..SchedulerFaults
    BY FailureAssumption DEF ScheduleFlush, QueueType
<1> QED BY <1>1, <1>2

LEMMA RetainType ==
    ASSUME QueueType, FlushType, RetainBatch
    PROVE  pending' \in Pending
<1>1. 0 \in KeysOrNone
    BY BoundsAssumption DEF KeysOrNone
<1>2. [kind |-> "snapshot", batch |-> batch, cacheHead |-> cacheHead, failure |-> 0] \in Pending
    BY <1>1 DEF FlushType, Pending
<1>3. CASE current
    BY <1>2, <1>3 DEF RetainBatch
<1>4. CASE ~current
    BY <1>4 DEF RetainBatch, QueueType
<1> QED BY <1>3, <1>4

LEMMA NextType ==
    ASSUME TypeOK, [Next]_vars
    PROVE  TypeOK'
<1> USE BoundsAssumption, FailureAssumption, EmptyRecords DEF TypeOK
<1> USE DEF gateVars, enqueueVars, queueVars, retryVars, failureVars, flushVars, effectVars
<1>1. CASE BeginHandoff
  <2>1. FlagType'
    BY Zenon, <1>1 DEF BeginHandoff, FlagType
  <2>2. EnqueueType'
    <3>1. Keys \subseteq KeysOrNone /\ FailureKeys \subseteq KeysOrNone
      BY DEF Keys, KeysOrNone
    <3>2. handoff' \in Event
      BY <1>1, <3>1 DEF BeginHandoff, Event
    <3> QED BY <1>1, <3>2 DEF BeginHandoff, EnqueueType
  <2>3. QueueType'
    BY <1>1 DEF BeginHandoff, QueueType
  <2>4. FailureType'
    BY <1>1 DEF BeginHandoff, FailureType
  <2>5. FlushType'
    BY <1>1 DEF BeginHandoff, FlushType
  <2>6. EffectType'
    BY <1>1 DEF BeginHandoff, EffectType
  <2> QED BY <2>1, <2>2, <2>3, <2>4, <2>5, <2>6
<1>2. CASE RejectHandoff
  <2>1. FlagType'
    BY Zenon, <1>2 DEF RejectHandoff, FlagType
  <2>2. EnqueueType'
    BY <1>2 DEF RejectHandoff, EnqueueType
  <2>3. QueueType'
    BY <1>2 DEF RejectHandoff, QueueType
  <2>4. FailureType'
    BY <1>2 DEF RejectHandoff, FailureType
  <2>5. FlushType'
    BY <1>2 DEF RejectHandoff, FlushType
  <2>6. EffectType'
    BY <1>2 DEF RejectHandoff, EffectType
  <2> QED BY <2>1, <2>2, <2>3, <2>4, <2>5, <2>6
<1>3. CASE EnqueueSnapshot
  <2>0. pending' \in Pending
    <3>1. handoff.key \in Keys /\ handoff.key \in KeysOrNone /\ 0 \in KeysOrNone
      BY <1>3 DEF EnqueueSnapshot, EnqueueType, Event, Keys, KeysOrNone
    <3>2. PICK next \in IF handoff.kind = "clear"
                        THEN {[head |-> "clear", upto |-> handoff.key, mid |-> {}, last |-> 0]}
                        ELSE AppendPending(pending.batch, handoff.key) :
             pending' = [kind |-> "snapshot", batch |-> next, failure |-> 0,
                         cacheHead |-> IF handoff.kind = "clear" THEN handoff.key
                                       ELSE pending.cacheHead]
      BY <1>3 DEF EnqueueSnapshot
    <3>3. next \in Batch
      <4>1. CASE handoff.kind = "clear"
        BY <3>1, <3>2, <4>1 DEF Batch
      <4>2. CASE handoff.kind # "clear"
        BY <3>1, <3>2, <4>2, AppendPendingType DEF QueueType, Pending
      <4> QED BY <4>1, <4>2
    <3> QED BY <3>1, <3>2, <3>3 DEF QueueType, Pending
  <2>1. FlagType'
    BY Zenon, ScheduleType, <1>3 DEF EnqueueSnapshot, FlagType, ApplyRetryAfterEnqueue, QueueType
  <2>2. EnqueueType'
    BY <1>3 DEF EnqueueSnapshot, EnqueueType, Event, KeysOrNone
  <2>3. QueueType'
    BY ScheduleType, <2>0, <1>3 DEF EnqueueSnapshot, QueueType, FlagType
  <2>4. FailureType'
    BY <1>3 DEF EnqueueSnapshot, FailureType
  <2>5. FlushType'
    BY <1>3 DEF EnqueueSnapshot, FlushType
  <2>6. EffectType'
    BY <1>3 DEF EnqueueSnapshot, EffectType
  <2> QED BY <2>1, <2>2, <2>3, <2>4, <2>5, <2>6
<1>4. CASE EnqueueDecodeFailed
  <2>0. pending' \in Pending
    BY <1>4 DEF EnqueueDecodeFailed, EnqueueType, Event, NoPending, QueueType, Pending
  <2>1. FlagType'
    BY Zenon, ScheduleType, <1>4 DEF EnqueueDecodeFailed, FlagType, QueueType
  <2>2. EnqueueType'
    BY <1>4 DEF EnqueueDecodeFailed, EnqueueType, Event, KeysOrNone
  <2>3. QueueType'
    BY ScheduleType, <2>0, <1>4 DEF EnqueueDecodeFailed, QueueType, FlagType
  <2>4. FailureType'
    BY <1>4 DEF EnqueueDecodeFailed, FailureType, RetainedAfter, EnqueueType, Event, KeysOrNone
  <2>5. FlushType'
    BY <1>4 DEF EnqueueDecodeFailed, FlushType
  <2>6. EffectType'
    BY <1>4 DEF EnqueueDecodeFailed, EffectType
  <2> QED BY <2>1, <2>2, <2>3, <2>4, <2>5, <2>6
<1>5. CASE RunCallback \/ FlushDirectly
  <2>1. FlagType'
    BY Zenon, <1>5 DEF RunCallback, FlushDirectly, Dequeue, FlagType
  <2>2. EnqueueType'
    BY <1>5 DEF RunCallback, FlushDirectly, Dequeue, EnqueueType
  <2>3. QueueType'
    BY <1>5 DEF RunCallback, FlushDirectly, Dequeue, QueueType
  <2>4. FailureType'
    BY <1>5 DEF RunCallback, FlushDirectly, Dequeue, FailureType, FlushFailureEvent, Report, KeysOrNone, QueueType, Pending
  <2>5. FlushType'
    BY <1>5 DEF RunCallback, FlushDirectly, Dequeue, FlushType, QueueType, Pending
  <2>6. EffectType'
    BY <1>5 DEF RunCallback, FlushDirectly, Dequeue, EffectType, FlushFailureEvent, Report, FailureType, KeysOrNone, Health
  <2> QED BY <2>1, <2>2, <2>3, <2>4, <2>5, <2>6
<1>6. CASE PlanBatch
  <2>1. FlagType'
    BY Zenon, <1>6 DEF PlanBatch, FlagType
  <2>2. EnqueueType'
    BY <1>6 DEF PlanBatch, EnqueueType
  <2>3. QueueType'
    BY <1>6 DEF PlanBatch, QueueType
  <2>4. FailureType'
    BY <1>6 DEF PlanBatch, FailureType
  <2>5. FlushType'
    <3>1. batch.mid \subseteq Keys /\ {batch.last} \ {0} \subseteq Keys
      BY DEF FlushType, Batch, Keys, KeysOrNone
    <3>2. todo' \subseteq Keys
      BY <1>6, <3>1 DEF PlanBatch
    <3>3. flush' = "applying" /\ batch' = batch /\ cacheHead' = cacheHead
      BY <1>6 DEF PlanBatch
    <3> QED BY <3>2, <3>3 DEF FlushType
  <2>6. EffectType'
    BY <1>6 DEF PlanBatch, EffectType
  <2> QED BY <2>1, <2>2, <2>3, <2>4, <2>5, <2>6
<1>7. CASE PlanFails
  <2>1. FlagType'
    BY Zenon, ScheduleType, <1>7 DEF PlanFails, EndFlush, FlagType, QueueType
  <2>2. EnqueueType'
    BY <1>7 DEF PlanFails, EndFlush, EnqueueType
  <2>3. QueueType'
    BY ScheduleType, RetainType, <1>7 DEF PlanFails, EndFlush, QueueType, FlagType, FlushType
  <2>4. FailureType'
    BY <1>7 DEF PlanFails, EndFlush, FailureType
  <2>5. FlushType'
    BY <1>7 DEF PlanFails, EndFlush, FlushType, KeysOrNone
  <2>6. EffectType'
    BY <1>7 DEF PlanFails, EndFlush, EffectType
  <2> QED BY <2>1, <2>2, <2>3, <2>4, <2>5, <2>6
<1>8. CASE AbandonFlush
  <2>1. FlagType'
    BY Zenon, <1>8 DEF AbandonFlush, EndFlush, FlagType
  <2>2. EnqueueType'
    BY <1>8 DEF AbandonFlush, EndFlush, EnqueueType
  <2>3. QueueType'
    BY <1>8 DEF AbandonFlush, EndFlush, QueueType
  <2>4. FailureType'
    BY <1>8 DEF AbandonFlush, EndFlush, FailureType
  <2>5. FlushType'
    BY <1>8 DEF AbandonFlush, EndFlush, FlushType, KeysOrNone
  <2>6. EffectType'
    BY <1>8 DEF AbandonFlush, EndFlush, EffectType
  <2> QED BY <2>1, <2>2, <2>3, <2>4, <2>5, <2>6
<1>9. CASE FinishFlush
  <2>1. FlagType'
    BY Zenon, <1>9 DEF FinishFlush, EndFlush, FlagType
  <2>2. EnqueueType'
    BY <1>9 DEF FinishFlush, EndFlush, EnqueueType
  <2>3. QueueType'
    BY <1>9 DEF FinishFlush, EndFlush, QueueType
  <2>4. FailureType'
    BY <1>9 DEF FinishFlush, EndFlush, FailureType, SettleRetained, Report, KeysOrNone
  <2>5. FlushType'
    BY <1>9 DEF FinishFlush, EndFlush, FlushType, KeysOrNone
  <2>6. EffectType'
    BY <1>9 DEF FinishFlush, EndFlush, EffectType, SettleRetained, Report, FailureType, KeysOrNone, Health, FlushType, Batch, LatestKey
  <2> QED BY <2>1, <2>2, <2>3, <2>4, <2>5, <2>6
<1>10. ASSUME NEW k \in KeysOrNone, ApplyStep(k) PROVE TypeOK'
  <2>1. FlagType'
    BY Zenon, <1>10 DEF ApplyStep, FlagType
  <2>2. EnqueueType'
    BY <1>10 DEF ApplyStep, EnqueueType
  <2>3. QueueType'
    BY <1>10 DEF ApplyStep, QueueType
  <2>4. FailureType'
    BY <1>10 DEF ApplyStep, FailureType
  <2>5. FlushType'
    BY <1>10 DEF ApplyStep, FlushType
  <2>6. EffectType'
    BY <1>10 DEF ApplyStep, EffectType, CountAttempt, StepSource, Keys, KeysOrNone
  <2> QED BY <2>1, <2>2, <2>3, <2>4, <2>5, <2>6
<1>11. ASSUME NEW k \in KeysOrNone, ApplyFails(k) PROVE TypeOK'
  <2>1. FlagType'
    BY Zenon, ScheduleType, <1>11 DEF ApplyFails, EndFlush, FlagType, QueueType
  <2>2. EnqueueType'
    BY <1>11 DEF ApplyFails, EndFlush, EnqueueType
  <2>3. QueueType'
    BY ScheduleType, RetainType, <1>11 DEF ApplyFails, EndFlush, QueueType, FlagType, FlushType
  <2>4. FailureType'
    BY <1>11 DEF ApplyFails, EndFlush, FailureType, Report, StepSource, KeysOrNone
  <2>5. FlushType'
    BY <1>11 DEF ApplyFails, EndFlush, FlushType, KeysOrNone
  <2>6. EffectType'
    BY <1>11 DEF ApplyFails, EndFlush, EffectType, ResetTransport, Report, CountAttempt, StepSource, Keys, KeysOrNone, Health
  <2> QED BY <2>1, <2>2, <2>3, <2>4, <2>5, <2>6
<1>12. ASSUME NEW k \in KeysOrNone, SubmitStep(k) PROVE TypeOK'
  <2>1. FlagType'
    BY Zenon, <1>12 DEF SubmitStep, FlagType
  <2>2. EnqueueType'
    BY <1>12 DEF SubmitStep, EnqueueType
  <2>3. QueueType'
    BY <1>12 DEF SubmitStep, QueueType
  <2>4. FailureType'
    BY <1>12 DEF SubmitStep, FailureType
  <2>5. FlushType'
    BY <1>12 DEF SubmitStep, FlushType
  <2>6. EffectType'
    BY <1>12 DEF SubmitStep, EffectType, SubmittedAfter, FlushType, StepSource, KeysOrNone, Health
  <2> QED BY <2>1, <2>2, <2>3, <2>4, <2>5, <2>6
<1>13. CASE ChangeGeneration
  <2>1. FlagType'
    BY Zenon, <1>13 DEF ChangeGeneration, FlagType
  <2>2. EnqueueType'
    BY <1>13 DEF ChangeGeneration, EnqueueType
  <2>3. QueueType'
    BY <1>13 DEF ChangeGeneration, QueueType
  <2>4. FailureType'
    BY <1>13 DEF ChangeGeneration, FailureType
  <2>5. FlushType'
    BY <1>13 DEF ChangeGeneration, FlushType
  <2>6. EffectType'
    BY <1>13 DEF ChangeGeneration, EffectType
  <2> QED BY <2>1, <2>2, <2>3, <2>4, <2>5, <2>6
<1>14. CASE UNCHANGED vars
  <2>1. FlagType'
    BY Zenon, <1>14 DEF vars, FlagType
  <2>2. EnqueueType'
    BY <1>14 DEF vars, EnqueueType
  <2>3. QueueType'
    BY <1>14 DEF vars, QueueType
  <2>4. FailureType'
    BY <1>14 DEF vars, FailureType
  <2>5. FlushType'
    BY <1>14 DEF vars, FlushType
  <2>6. EffectType'
    BY <1>14 DEF vars, EffectType
  <2> QED BY <2>1, <2>2, <2>3, <2>4, <2>5, <2>6
<1> QED
    BY <1>1, <1>2, <1>3, <1>4, <1>5, <1>6, <1>7, <1>8, <1>9, <1>10, <1>11, <1>12, <1>13, <1>14
    DEF Next, Handoff, FlushProgress

\* Every reachable state has the declared types.
THEOREM TypeCorrect == Spec => []TypeOK
<1>1. TypeOK /\ [Next]_vars => TypeOK'
    BY NextType
<1> QED BY <1>1, InitType, PTL DEF Spec

-----------------------------------------------------------------------------
(* No wakeup is lost.  The flush that runs has taken the pending event, so   *)
(* what a failing flush puts back is all there is to schedule for.           *)

FlushTookPending == flush # "idle" => pending = NoPending
WakeupInvariant == NoLostWakeup /\ FlushTookPending

\* An event that schedules its flush is covered by it.
LEMMA ScheduleWakes ==
    ASSUME TypeOK, NoLostWakeup, ScheduleFlush
    PROVE  /\ flushPending' \/ stranded'
           /\ flushPending' => callbacks' > 0
<1>1. callbacks \in Nat
    BY DEF TypeOK, QueueType
<1>2. CASE flushPending /\ UNCHANGED <<flushPending, callbacks, faultsLeft, stranded>>
    BY <1>2 DEF NoLostWakeup
<1>3. CASE ~flushPending /\ flushPending' = TRUE /\ callbacks' = callbacks + 1
    BY <1>1, <1>3
<1>4. CASE ~flushPending /\ stranded' = TRUE /\ UNCHANGED <<flushPending, callbacks>>
    BY <1>4
<1> QED BY <1>2, <1>3, <1>4 DEF ScheduleFlush

LEMMA WakeupStep ==
    ASSUME TypeOK, WakeupInvariant, [Next]_vars
    PROVE  WakeupInvariant'
<1> USE DEF WakeupInvariant, FlushTookPending
<1> USE DEF gateVars, enqueueVars, queueVars, retryVars, failureVars, flushVars, effectVars
<1>0. NoPending.kind = "none"
    BY DEF NoPending
<1>1. CASE EnqueueSnapshot
    BY <1>1, ScheduleWakes DEF EnqueueSnapshot, NoLostWakeup
<1>2. CASE EnqueueDecodeFailed
    BY <1>2, ScheduleWakes DEF EnqueueDecodeFailed, NoLostWakeup
<1>3. CASE RunCallback \/ FlushDirectly
    BY <1>3, <1>0 DEF RunCallback, FlushDirectly, Dequeue, NoLostWakeup
<1>4. CASE PlanFails
    BY <1>4, ScheduleWakes DEF PlanFails, EndFlush, NoLostWakeup
<1>5. ASSUME NEW k \in KeysOrNone, ApplyFails(k) PROVE WakeupInvariant'
    BY <1>5, <1>0, ScheduleWakes DEF ApplyFails, EndFlush, NoLostWakeup
<1>6. CASE BeginHandoff \/ RejectHandoff \/ ChangeGeneration \/ UNCHANGED vars
    BY <1>6 DEF BeginHandoff, RejectHandoff, ChangeGeneration, vars, NoLostWakeup
<1>7. CASE PlanBatch
    BY <1>7, <1>0 DEF PlanBatch, NoLostWakeup
<1>8. CASE AbandonFlush \/ FinishFlush
    BY <1>8, <1>0 DEF AbandonFlush, FinishFlush, EndFlush, NoLostWakeup
<1>9. ASSUME NEW k \in KeysOrNone, ApplyStep(k) \/ SubmitStep(k) PROVE WakeupInvariant'
    BY <1>9, <1>0 DEF ApplyStep, SubmitStep, NoLostWakeup
<1> QED
    BY <1>1, <1>2, <1>3, <1>4, <1>5, <1>6, <1>7, <1>8, <1>9
    DEF Next, Handoff, FlushProgress

\* A pending event always has a flush on its way, unless a failure stranded it.
THEOREM WakeupNeverLost == Spec => []NoLostWakeup
<1>1. Init => WakeupInvariant
    BY DEF Init, WakeupInvariant, NoLostWakeup, FlushTookPending, NoPending
<1>2. TypeOK /\ WakeupInvariant /\ [Next]_vars => WakeupInvariant'
    BY WakeupStep
<1>3. WakeupInvariant => NoLostWakeup
    BY DEF WakeupInvariant
<1> QED BY <1>1, <1>2, <1>3, TypeCorrect, PTL DEF Spec

-----------------------------------------------------------------------------
(* The live cache follows the state machine.  What makes it inductive is the *)
(* order of the keys: a pending batch is ahead of the cache, so are the      *)
(* steps a flush still has to apply, and only the last step submits what the *)
(* machine has received in full.                                             *)

CacheInvariant == QueueInvariant /\ CacheNeverAheadOfMachine /\ CacheCaughtUp

\* Coalescing a newer snapshot keeps the batch ordered and ahead of the cache.
LEMMA AppendKeepsOrder ==
    ASSUME NEW b \in Batch, NEW k \in Keys, NEW next \in AppendPending(b, k),
           NEW clear \in KeysOrNone, NEW newest \in KeysOrNone, NEW cached \in KeysOrNone,
           BatchShape(b, clear, newest), CacheBehind(b, cached),
           newest < k, cached <= newest
    PROVE  /\ BatchShape(next, clear, k)
           /\ CacheBehind(next, cached)
           /\ next # EmptyBatch
<1> USE BoundsAssumption DEF Keys, KeysOrNone
<1>1. b.upto \in 0..MaxKey /\ b.last \in 0..MaxKey /\ Retainable(b) \subseteq 1..MaxKey
    BY DEF Batch, Retainable
<1>2. \A j \in Retainable(b) : b.upto <= j /\ j < k
    BY <1>1 DEF BatchShape
<1>3. CASE \E kept \in SUBSET Retainable(b) : next = [b EXCEPT !.mid = kept, !.last = k]
  <2>1. PICK kept \in SUBSET Retainable(b) : next = [b EXCEPT !.mid = kept, !.last = k]
    BY <1>3
  <2>2. /\ next.head = b.head /\ next.upto = b.upto /\ next.last = k
        /\ Retainable(next) = kept \cup {k}
    BY <2>1 DEF Batch, Retainable
  <2>3. \A j \in Retainable(next) : b.upto <= j /\ j <= k /\ cached <= j
    BY <1>1, <1>2, <2>2 DEF BatchShape, CacheBehind
  <2>4. BatchShape(next, clear, k)
    BY <1>1, <2>2, <2>3 DEF BatchShape
  <2>5. CacheBehind(next, cached)
    BY <2>2, <2>3 DEF CacheBehind
  <2>6. next # EmptyBatch
    BY <2>2 DEF EmptyBatch
  <2> QED BY <2>4, <2>5, <2>6
<1>4. CASE /\ b # EmptyBatch
           /\ next = [head |-> "barrier", upto |-> LatestKey(b), mid |-> {}, last |-> k]
  <2>1. LatestKey(b) \in 0..MaxKey /\ b.upto <= LatestKey(b) /\ LatestKey(b) < k
    BY <1>1, <1>2 DEF LatestKey, BatchShape, Retainable
  <2>2. Retainable(next) = {k}
    BY <1>4 DEF Retainable
  <2>3. BatchShape(next, clear, k)
    BY <1>1, <1>4, <2>1, <2>2 DEF BatchShape
  <2>4. cached <= LatestKey(b)
    <3>1. CASE b.last # 0
      BY <3>1, <1>1 DEF LatestKey, Retainable, CacheBehind
    <3>2. CASE b.last = 0
      BY <3>2, <1>4 DEF LatestKey, BatchShape, CacheBehind
    <3> QED BY <3>1, <3>2
  <2>5. CacheBehind(next, cached)
    BY <1>4, <2>2, <2>4 DEF CacheBehind
  <2>6. next # EmptyBatch
    BY <1>4 DEF EmptyBatch
  <2> QED BY <2>3, <2>5, <2>6
<1> QED BY <1>3, <1>4 DEF AppendPending

\* At most one step is next.
LEMMA NextStepUnique ==
    ASSUME TypeOK, NEW j \in KeysOrNone, NEW k \in KeysOrNone, IsNextStep(j), IsNextStep(k)
    PROVE  j = k
    BY DEF IsNextStep, KeysOrNone

\* A flush with steps to apply holds a batch worth retaining.
LEMMA AppliedBatchNotEmpty ==
    ASSUME TypeOK, FlushInOrder, flush \in {"planning", "applying", "applied", "raised"}
    PROVE  batch # EmptyBatch
<1>1. Retainable(EmptyBatch) = {} /\ EmptyBatch.head = "none"
    BY DEF EmptyBatch, Retainable
<1> QED BY <1>1 DEF FlushInOrder

\* A batch put back after a failure is as ordered as it was.
LEMMA RetainKeepsOrder ==
    ASSUME TypeOK, FlushInOrder, RetainBatch, pending = NoPending,
           flush \in {"planning", "applying", "applied", "raised"},
           NEW cached \in KeysOrNone, CacheBehind(batch, cached)
    PROVE  /\ BatchShape(pending'.batch, pending'.cacheHead, newestSource)
           /\ CacheBehind(pending'.batch, cached)
           /\ pending'.kind = "snapshot" <=> pending'.batch # EmptyBatch
<1>1. batch # EmptyBatch
    BY AppliedBatchNotEmpty
<1>2. CASE current
  <2>1. /\ pending'.kind = "snapshot" /\ pending'.batch = batch
        /\ pending'.cacheHead = cacheHead
    BY <1>2 DEF RetainBatch
  <2> QED BY <1>1, <2>1 DEF FlushInOrder
<1>3. CASE ~current
  <2>1. pending' = NoPending
    BY <1>3 DEF RetainBatch
  <2> QED BY <2>1, BoundsAssumption
          DEF NoPending, EmptyBatch, BatchShape, CacheBehind, Retainable, TypeOK,
              EnqueueType, KeysOrNone
<1> QED BY <1>2, <1>3

\* Nothing pending, and a queue at rest, are trivially in order.
LEMMA EmptyInOrder ==
    ASSUME NEW newest \in KeysOrNone, NEW cached \in KeysOrNone
    PROVE  BatchShape(EmptyBatch, 0, newest) /\ CacheBehind(EmptyBatch, cached)
    BY BoundsAssumption DEF EmptyBatch, BatchShape, CacheBehind, Retainable, KeysOrNone

LEMMA CacheInit == Init => CacheInvariant
<1> SUFFICES ASSUME Init PROVE CacheInvariant
    OBVIOUS
<1> USE BoundsAssumption DEF Init
<1>1. 0 \in KeysOrNone /\ NoPending.batch = EmptyBatch /\ NoPending.cacheHead = 0
    BY DEF KeysOrNone, NoPending
<1>2. PendingInOrder
    BY <1>1, EmptyInOrder DEF PendingInOrder, NoPending
<1>3. FlushInOrder
    BY <1>1, EmptyInOrder DEF FlushInOrder
<1>4. CacheInOrder /\ CacheNeverAheadOfMachine /\ CacheCaughtUp
    BY DEF CacheInOrder, CacheNeverAheadOfMachine, CacheCaughtUp
<1> QED BY <1>2, <1>3, <1>4 DEF CacheInvariant, QueueInvariant

LEMMA CacheEnqueueSnapshot ==
    ASSUME TypeOK, CacheInvariant, EnqueueSnapshot
    PROVE  CacheInvariant'
<1> USE DEF EnqueueSnapshot, CacheInvariant, QueueInvariant
<1> USE DEF gateVars, failureVars, flushVars, effectVars
<1> DEFINE k == handoff.key
<1>1. /\ k \in Keys /\ k > newestSource
      /\ newestSource \in KeysOrNone /\ cacheKey \in KeysOrNone
      /\ pending.batch \in Batch /\ pending.cacheHead \in KeysOrNone
    BY DEF TypeOK, EnqueueType, EffectType, QueueType, Event, Pending, Keys, KeysOrNone
<1>2. PICK next \in IF handoff.kind = "clear"
                    THEN {[head |-> "clear", upto |-> k, mid |-> {}, last |-> 0]}
                    ELSE AppendPending(pending.batch, k) :
         pending' = [kind |-> "snapshot", batch |-> next, failure |-> 0,
                     cacheHead |-> IF handoff.kind = "clear" THEN k
                                   ELSE pending.cacheHead]
    OBVIOUS
<1>3. /\ BatchShape(pending'.batch, pending'.cacheHead, k)
      /\ CacheBehind(pending'.batch, cacheKey)
      /\ pending'.batch # EmptyBatch /\ pending'.kind = "snapshot"
  <2>1. CASE handoff.kind = "clear"
    <3>1. /\ pending'.batch = [head |-> "clear", upto |-> k, mid |-> {}, last |-> 0]
          /\ pending'.cacheHead = k /\ pending'.kind = "snapshot"
      BY <1>2, <2>1
    <3>2. Retainable(pending'.batch) = {}
      BY <3>1 DEF Retainable
    <3> QED BY <1>1, <3>1, <3>2
            DEF BatchShape, CacheBehind, EmptyBatch, CacheInOrder, Keys, KeysOrNone
  <2>2. CASE handoff.kind # "clear"
    <3>1. BatchShape(pending.batch, pending.cacheHead, newestSource)
      BY DEF PendingInOrder
    <3>2. CacheBehind(pending.batch, cacheKey) /\ cacheKey <= newestSource
      BY DEF PendingInOrder, CacheInOrder
    <3> QED BY <1>1, <1>2, <2>2, <3>1, <3>2, AppendKeepsOrder
  <2> QED BY <2>1, <2>2
<1>4. PendingInOrder'
    BY <1>3 DEF PendingInOrder
<1>5. FlushInOrder'
  <2>1. BatchShape(batch, cacheHead, newestSource')
    <3>1. /\ batch.upto \in KeysOrNone /\ Retainable(batch) \subseteq Keys
          /\ BatchShape(batch, cacheHead, newestSource)
      BY DEF TypeOK, FlushType, Batch, Retainable, Keys, KeysOrNone, FlushInOrder
    <3> QED BY <1>1, <3>1 DEF BatchShape, Keys, KeysOrNone
  <2> QED BY <2>1 DEF FlushInOrder
<1>6. CacheInOrder' /\ CacheNeverAheadOfMachine' /\ CacheCaughtUp'
    BY <1>1 DEF CacheInOrder, CacheNeverAheadOfMachine, CacheCaughtUp, Keys, KeysOrNone
<1> QED BY <1>4, <1>5, <1>6

LEMMA CacheEnqueueDecodeFailed ==
    ASSUME TypeOK, CacheInvariant, EnqueueDecodeFailed
    PROVE  CacheInvariant'
<1> USE DEF EnqueueDecodeFailed, CacheInvariant, QueueInvariant
<1> USE DEF gateVars, queueVars, flushVars, effectVars
<1>1. newestSource \in KeysOrNone /\ cacheKey \in KeysOrNone
    BY DEF TypeOK, EnqueueType, EffectType
<1>2. PendingInOrder'
  <2>1. CASE pending.kind = "snapshot"
    BY <2>1 DEF PendingInOrder
  <2>2. CASE pending.kind # "snapshot"
    <3>1. pending' = [kind |-> "decode_failed", batch |-> EmptyBatch, cacheHead |-> 0,
                      failure |-> handoff.key]
      BY <2>2 DEF NoPending
    <3> QED BY <1>1, <3>1, EmptyInOrder DEF PendingInOrder
  <2> QED BY <2>1, <2>2
<1>3. FlushInOrder'
    BY DEF FlushInOrder
<1>4. CacheInOrder' /\ CacheNeverAheadOfMachine' /\ CacheCaughtUp'
    BY DEF CacheInOrder, CacheNeverAheadOfMachine, CacheCaughtUp, IsNextStep
<1> QED BY <1>2, <1>3, <1>4

LEMMA CacheDequeue ==
    ASSUME TypeOK, CacheInvariant, Dequeue
    PROVE  CacheInvariant'
<1> USE DEF Dequeue, CacheInvariant, QueueInvariant
<1> USE DEF gateVars, enqueueVars, flushVars
<1>1. newestSource \in KeysOrNone /\ cacheKey \in KeysOrNone
    BY DEF TypeOK, EnqueueType, EffectType
<1>2. PendingInOrder'
    BY <1>1, EmptyInOrder DEF PendingInOrder, NoPending
<1>3. FlushInOrder' /\ CacheInOrder' /\ CacheCaughtUp'
  <2>1. CASE pending.kind = "snapshot" /\ current
    BY <2>1 DEF PendingInOrder, FlushInOrder, CacheInOrder, CacheCaughtUp
  <2>2. CASE UNCHANGED flushVars
    BY <2>2 DEF FlushInOrder, CacheInOrder, CacheCaughtUp
  <2> QED BY <2>1, <2>2
<1>4. CacheNeverAheadOfMachine'
    BY DEF CacheNeverAheadOfMachine
<1> QED BY <1>2, <1>3, <1>4

LEMMA CachePlanBatch ==
    ASSUME TypeOK, CacheInvariant, PlanBatch
    PROVE  CacheInvariant'
<1> USE DEF PlanBatch, CacheInvariant, QueueInvariant
<1> USE DEF gateVars, enqueueVars, queueVars, failureVars, effectVars
<1>1. PendingInOrder'
    BY DEF PendingInOrder
<1>2. FlushInOrder'
  <2>1. BatchShape(batch, cacheHead, newestSource) /\ CacheBehind(batch, cacheKey)
    BY DEF FlushInOrder
  <2>2. todo' \subseteq Retainable(batch) /\ (batch.last # 0 => batch.last \in todo')
    BY DEF Retainable
  <2>3. (headDue' <=> batch.head # "none") /\ (headDue' \/ todo' # {})
    BY DEF FlushInOrder, BatchShape
  <2>4. (headDue' => cacheKey <= batch.upto) /\ (\A k \in todo' : cacheKey <= k)
    BY <2>1, <2>2, <2>3 DEF CacheBehind
  <2> QED BY <2>1, <2>2, <2>3, <2>4 DEF FlushInOrder
<1>3. CacheInOrder' /\ CacheNeverAheadOfMachine' /\ CacheCaughtUp'
    BY DEF CacheInOrder, CacheNeverAheadOfMachine, CacheCaughtUp
<1> QED BY <1>1, <1>2, <1>3

\* A flush that ends leaves nothing to keep in order but what is pending.
LEMMA EndFlushInOrder ==
    ASSUME TypeOK, EndFlush, UNCHANGED newestSource
    PROVE  FlushInOrder'
<1>1. newestSource \in KeysOrNone /\ 0 \in KeysOrNone
    BY BoundsAssumption DEF TypeOK, EnqueueType, KeysOrNone
<1> QED BY <1>1, EmptyInOrder DEF EndFlush, FlushInOrder

LEMMA CachePlanFails ==
    ASSUME TypeOK, CacheInvariant, PlanFails
    PROVE  CacheInvariant'
<1> USE DEF PlanFails, CacheInvariant, QueueInvariant
<1> USE DEF gateVars, enqueueVars, failureVars, effectVars
<1>1. cacheKey \in KeysOrNone /\ pending = NoPending /\ CacheBehind(batch, cacheKey)
    BY DEF TypeOK, EffectType, PendingInOrder, FlushInOrder
<1>2. PendingInOrder'
    BY <1>1, RetainKeepsOrder DEF EndFlush, PendingInOrder
<1>3. FlushInOrder'
    BY EndFlushInOrder
<1>4. CacheInOrder' /\ CacheNeverAheadOfMachine' /\ CacheCaughtUp'
    BY DEF EndFlush, CacheInOrder, CacheNeverAheadOfMachine, CacheCaughtUp
<1> QED BY <1>2, <1>3, <1>4

\* The step that is next is ahead of the live cache.
LEMMA NextStepAhead ==
    ASSUME TypeOK, FlushInOrder, flush \in {"applying", "applied", "raised"},
           NEW k \in KeysOrNone, IsNextStep(k)
    PROVE  cacheKey <= k
    BY DEF IsNextStep, FlushInOrder

LEMMA CacheApplyStep ==
    ASSUME TypeOK, CacheInvariant, NEW k \in KeysOrNone, ApplyStep(k)
    PROVE  CacheInvariant'
<1> USE DEF ApplyStep, CacheInvariant, QueueInvariant
<1> USE DEF gateVars, enqueueVars, queueVars, retryVars, failureVars
<1>1. PendingInOrder' /\ FlushInOrder'
    BY DEF PendingInOrder, FlushInOrder
<1>2. CacheInOrder'
    BY NextStepUnique DEF CacheInOrder, IsNextStep
<1>3. CacheNeverAheadOfMachine' /\ CacheCaughtUp'
    BY NextStepAhead DEF CacheNeverAheadOfMachine, CacheCaughtUp
<1> QED BY <1>1, <1>2, <1>3

LEMMA CacheApplyFails ==
    ASSUME TypeOK, CacheInvariant, NEW k \in KeysOrNone, ApplyFails(k)
    PROVE  CacheInvariant'
<1> USE DEF ApplyFails, ResetTransport, CacheInvariant, QueueInvariant
<1> USE DEF gateVars, enqueueVars
<1>1. pending = NoPending /\ 0 \in KeysOrNone /\ flush = "raised"
    BY BoundsAssumption DEF PendingInOrder, KeysOrNone
<1>2. CacheBehind(batch, 0)
    BY DEF TypeOK, FlushType, Batch, CacheBehind, Retainable, Keys, KeysOrNone
<1>3. PendingInOrder'
  <2>1. CASE ~(current /\ ~applyRetry)
    BY <1>1, <2>1, EmptyInOrder
    DEF queueVars, EndFlush, PendingInOrder, NoPending, TypeOK, EnqueueType
  <2>2. CASE current /\ ~applyRetry
    BY <1>1, <1>2, <2>2, RetainKeepsOrder DEF EndFlush, PendingInOrder
  <2> QED BY <2>1, <2>2
<1>4. FlushInOrder'
    BY EndFlushInOrder
<1>5. CacheInOrder' /\ CacheNeverAheadOfMachine' /\ CacheCaughtUp'
    BY DEF EndFlush, CacheInOrder, CacheNeverAheadOfMachine, CacheCaughtUp,
           TypeOK, EnqueueType, KeysOrNone
<1> QED BY <1>3, <1>4, <1>5

\* What a step submits is no newer than the step, and no newer than the steps
\* that follow it.
LEMMA SubmittedInOrder ==
    ASSUME TypeOK, CacheInvariant, NEW k \in KeysOrNone, SubmitStep(k)
    PROVE  /\ cacheKey' <= k
           /\ \A j \in todo' : cacheKey' <= j
           /\ todo' = {} => cacheKey' = k
<1> USE DEF CacheInvariant, QueueInvariant, SubmitStep, SubmittedAfter
<1>1. /\ cacheKey \in 0..MaxKey /\ cacheHead \in 0..MaxKey /\ todo \subseteq 1..MaxKey
      /\ batch.upto \in 0..MaxKey /\ batch.last \in 0..MaxKey
      /\ Retainable(batch) \subseteq 1..MaxKey
    BY DEF TypeOK, EffectType, FlushType, Batch, Retainable, Keys, KeysOrNone
<1>2. /\ BatchShape(batch, cacheHead, newestSource)
      /\ todo \subseteq Retainable(batch)
      /\ headDue => batch.head # "none"
      /\ batch.last # 0 => batch.last \in todo
    BY DEF FlushInOrder
<1>3. cacheKey <= k
    BY NextStepAhead
<1>4. \A j \in todo : batch.upto <= j /\ j <= batch.last
    BY <1>2 DEF BatchShape
<1>5. CASE headDue
  <2>1. k = batch.upto /\ todo' = todo
    BY <1>5 DEF IsNextStep
  <2>2. cacheHead <= batch.upto
    BY <1>2 DEF BatchShape
  <2>3. cacheKey' <= k
    BY <1>3, <1>5, <2>1, <2>2
  <2>4. \A j \in todo' : cacheKey' <= j
    BY <1>1, <1>4, <2>1, <2>3, SMT DEF KeysOrNone
  <2>5. ASSUME todo' = {} PROVE cacheKey' = k
    <3>1. batch.last = 0 /\ batch.head = "clear"
      BY <1>2, <1>5, <2>1, <2>5 DEF BatchShape, TypeOK, FlushType, Batch
    <3>2. cacheHead = k
      BY <1>2, <2>1, <3>1 DEF BatchShape
    <3> QED BY <1>1, <1>3, <1>5, <3>2
  <2> QED BY <2>3, <2>4, <2>5
<1>6. CASE ~headDue
  <2>1. k \in todo /\ (\A j \in todo : k <= j) /\ todo' = todo \ {k}
    BY <1>6 DEF IsNextStep
  <2>2. CASE k = batch.last
    BY <1>1, <1>6, <2>1, <2>2
  <2>3. CASE k # batch.last
    <3>1. cacheKey' = cacheKey
      BY <1>6, <2>3
    <3>2. batch.last # 0
      BY <1>1, <1>4, <2>1
    <3>3. todo' # {}
      BY <1>2, <2>1, <2>3, <3>2
    <3> QED BY <1>1, <1>3, <2>1, <3>1, <3>3 DEF FlushInOrder
  <2> QED BY <2>2, <2>3
<1> QED BY <1>5, <1>6

LEMMA CacheSubmitStep ==
    ASSUME TypeOK, CacheInvariant, NEW k \in KeysOrNone, SubmitStep(k)
    PROVE  CacheInvariant'
<1> USE DEF CacheInvariant, QueueInvariant
<1> USE DEF gateVars, enqueueVars, queueVars, retryVars, failureVars
<1>1. machineKey = k /\ machineKey' = k /\ UNCHANGED newestSource
    BY DEF SubmitStep, CacheInOrder
<1>2. k <= newestSource
    BY DEF SubmitStep, IsNextStep, FlushInOrder, BatchShape
<1>3. PendingInOrder'
  <2>1. UNCHANGED pending /\ pending = NoPending
    BY DEF SubmitStep, PendingInOrder
  <2>2. newestSource \in KeysOrNone /\ cacheKey' \in KeysOrNone
    BY DEF SubmitStep, SubmittedAfter, TypeOK, EnqueueType, EffectType, FlushType
  <2> QED BY <1>1, <2>1, <2>2, EmptyInOrder DEF PendingInOrder, NoPending
<1>4. FlushInOrder'
  <2>1. CASE todo' = {}
    BY <2>1 DEF SubmitStep, FlushInOrder
  <2>2. CASE todo' # {}
    <3>1. todo' \subseteq todo /\ ~headDue' /\ UNCHANGED <<batch, cacheHead>>
      BY DEF SubmitStep
    <3>2. \A j \in todo' : cacheKey' <= j
      BY SubmittedInOrder
    <3>3. batch.last # 0 => batch.last \in todo'
      <4>1. CASE headDue
        BY <4>1 DEF SubmitStep, FlushInOrder
      <4>2. CASE ~headDue
        <5>1. k \in todo /\ (\A j \in todo : k <= j) /\ todo' = todo \ {k}
          BY <4>2 DEF SubmitStep, IsNextStep
        <5>2. PICK j \in todo' : TRUE
          BY <2>2
        <5>3. j \in todo /\ k # j /\ k <= j /\ j <= batch.last
          BY <5>1, <5>2 DEF SubmitStep, FlushInOrder, BatchShape
        <5>4. k # batch.last
          BY <5>3 DEF TypeOK, FlushType, Batch, Keys, KeysOrNone
        <5> QED BY <5>1, <5>4 DEF SubmitStep, FlushInOrder
      <4> QED BY <4>1, <4>2
    <3> QED BY <1>1, <2>2, <3>1, <3>2, <3>3 DEF SubmitStep, FlushInOrder
  <2> QED BY <2>1, <2>2
<1>5. CacheInOrder'
  <2>1. cacheKey' <= newestSource
    <3>1. cacheKey' \in KeysOrNone /\ newestSource \in KeysOrNone
      BY DEF SubmitStep, SubmittedAfter, TypeOK, EnqueueType, EffectType, FlushType
    <3>2. cacheKey' <= k
      BY SubmittedInOrder
    <3> QED BY <1>2, <3>1, <3>2 DEF KeysOrNone
  <2>2. flush' = "finishing" => cacheKey' = machineKey'
    BY <1>1, SubmittedInOrder DEF SubmitStep
  <2>3. flush' \in {"applying", "finishing"}
    BY DEF SubmitStep
  <2> QED BY <1>1, <2>1, <2>2, <2>3 DEF CacheInOrder
<1>6. CacheNeverAheadOfMachine' /\ CacheCaughtUp'
    BY <1>1, SubmittedInOrder DEF SubmitStep, CacheNeverAheadOfMachine, CacheCaughtUp
<1> QED BY <1>3, <1>4, <1>5, <1>6 DEF SubmitStep

LEMMA CacheFlushEnds ==
    ASSUME TypeOK, CacheInvariant, AbandonFlush \/ FinishFlush
    PROVE  CacheInvariant'
<1> USE DEF AbandonFlush, FinishFlush, CacheInvariant, QueueInvariant
<1> USE DEF gateVars, enqueueVars, queueVars, effectVars
<1>1. PendingInOrder'
    BY DEF EndFlush, PendingInOrder
<1>2. FlushInOrder'
    BY EndFlushInOrder
<1>3. CacheInOrder' /\ CacheNeverAheadOfMachine' /\ CacheCaughtUp'
    BY DEF EndFlush, CacheInOrder, CacheNeverAheadOfMachine, CacheCaughtUp
<1> QED BY <1>1, <1>2, <1>3

LEMMA CacheUntouched ==
    ASSUME TypeOK, CacheInvariant,
           BeginHandoff \/ RejectHandoff \/ ChangeGeneration \/ UNCHANGED vars
    PROVE  CacheInvariant'
<1> USE DEF BeginHandoff, RejectHandoff, ChangeGeneration, vars, CacheInvariant, QueueInvariant
<1> USE DEF gateVars, enqueueVars, queueVars, flushVars, effectVars
<1>1. PendingInOrder' /\ FlushInOrder'
    BY DEF PendingInOrder, FlushInOrder
<1>2. CacheInOrder' /\ CacheNeverAheadOfMachine' /\ CacheCaughtUp'
    BY DEF CacheInOrder, IsNextStep, CacheNeverAheadOfMachine, CacheCaughtUp
<1>3. (~everStale => current)'
    OBVIOUS
<1> QED BY <1>1, <1>2, <1>3

LEMMA CacheStep ==
    ASSUME TypeOK, CacheInvariant, [Next]_vars
    PROVE  CacheInvariant'
    BY CacheEnqueueSnapshot, CacheEnqueueDecodeFailed, CacheDequeue, CachePlanBatch,
       CachePlanFails, CacheApplyStep, CacheApplyFails, CacheSubmitStep, CacheFlushEnds,
       CacheUntouched
    DEF Next, Handoff, FlushProgress, RunCallback, FlushDirectly

\* The invariant the cache properties rest on holds in every reachable state.
THEOREM CacheOrderKept == Spec => []CacheInvariant
<1>1. TypeOK /\ CacheInvariant /\ [Next]_vars => CacheInvariant'
    BY CacheStep
<1> QED BY <1>1, CacheInit, TypeCorrect, PTL DEF Spec

\* The live cache holds nothing the state machine has not applied, and once a flush
\* of a live generation is over, it holds all of it.
THEOREM CacheFollows == Spec => []CacheFollowsMachine
    BY CacheOrderKept, PTL DEF CacheInvariant, CacheFollowsMachine

\* The order of batches, steps and live cache is kept, whatever fails and
\* however the enqueues and the steps of a flush interleave.
THEOREM OrderKept == Spec => []QueueInvariant
    BY CacheOrderKept, PTL DEF CacheInvariant

-----------------------------------------------------------------------------
(* A replaced generation has no effects: every step that has one looks at    *)
(* the generation first, but for the handler of a step that raised.          *)

\* Once its generation is replaced, a flush changes nothing outside the queue
\* except to clear what a step that raised had left behind.
THEOREM StaleFlushIsHarmless == Spec => StaleFlushHasNoEffect
<1> DEFINE Harmless == \/ UNCHANGED <<machineKey, cacheKey, shown, lastApplied>>
                       \/ flush = "raised" /\ machineKey' = 0 /\ cacheKey' = 0
<1>1. ASSUME [Next]_vars, ~current PROVE Harmless
  <2> USE <1>1 DEF gateVars, enqueueVars, queueVars, retryVars, failureVars, flushVars,
                   effectVars
  <2>1. CASE BeginHandoff \/ RejectHandoff \/ EnqueueSnapshot \/ EnqueueDecodeFailed
    BY <2>1 DEF BeginHandoff, RejectHandoff, EnqueueSnapshot, EnqueueDecodeFailed
  <2>2. CASE RunCallback \/ FlushDirectly
    BY <2>2 DEF RunCallback, FlushDirectly, Dequeue
  <2>3. CASE PlanBatch \/ PlanFails \/ AbandonFlush \/ ChangeGeneration \/ UNCHANGED vars
    BY <2>3 DEF PlanBatch, PlanFails, AbandonFlush, ChangeGeneration, vars
  <2>4. CASE FinishFlush
    BY <2>4 DEF FinishFlush
  <2>5. ASSUME NEW k \in KeysOrNone, ApplyStep(k) \/ ApplyFails(k) \/ SubmitStep(k)
        PROVE  Harmless
    BY <2>5 DEF ApplyStep, ApplyFails, SubmitStep, StepIsCurrent, ResetTransport
  <2> QED BY <2>1, <2>2, <2>3, <2>4, <2>5 DEF Next, Handoff, FlushProgress
<1>2. [Next]_vars => [~current => Harmless]_vars
    BY <1>1
<1> QED BY <1>2, PTL DEF Spec, StaleFlushHasNoEffect

-----------------------------------------------------------------------------
(* The health row.  A failure is only retained while it is newer than what   *)
(* has been applied, and what is pending or being flushed is newer, too.     *)

FailureOrder ==
    /\ lastApplied <= newestSource
    /\ retained # 0 => lastApplied < retained
    /\ pending.kind = "snapshot" => lastApplied < LatestKey(pending.batch)
    /\ flush # "idle" => lastApplied < LatestKey(batch)

\* What a failing flush puts back is what it has taken.
LEMMA RetainKeepsLatest ==
    ASSUME pending = NoPending, RetainBatch
    PROVE  pending'.kind = "snapshot" => pending'.batch = batch
    BY DEF RetainBatch, NoPending

\* The newest key of a batch is a key that was accepted.
LEMMA LatestIsAccepted ==
    ASSUME TypeOK, NEW b \in Batch, NEW clear \in KeysOrNone,
           BatchShape(b, clear, newestSource)
    PROVE  LatestKey(b) \in KeysOrNone /\ LatestKey(b) <= newestSource
    BY DEF BatchShape, LatestKey, Retainable, Batch, KeysOrNone, Keys

\* A snapshot that is appended is the last one.
LEMMA AppendPutsLast ==
    ASSUME NEW b \in Batch, NEW k, NEW next \in AppendPending(b, k)
    PROVE  next.last = k
<1>1. CASE \E kept \in SUBSET Retainable(b) : next = [b EXCEPT !.mid = kept, !.last = k]
    BY <1>1 DEF Batch
<1>2. CASE next = [head |-> "barrier", upto |-> LatestKey(b), mid |-> {}, last |-> k]
    BY <1>2
<1> QED BY <1>1, <1>2 DEF AppendPending

\* Reporting a failure retains no other one.
LEMMA FailureEventKeepsOrder ==
    ASSUME TypeOK, FailureOrder, NEW key \in KeysOrNone, FlushFailureEvent(key)
    PROVE  retained' = retained \/ retained' = 0
    BY DEF FlushFailureEvent, failureVars

LEMMA FailureStep ==
    ASSUME TypeOK, CacheInvariant, FailureOrder, [Next]_vars
    PROVE  FailureOrder'
<1> USE BoundsAssumption DEF FailureOrder
<1> USE DEF gateVars, enqueueVars, queueVars, retryVars, failureVars, flushVars, effectVars
<1>0. /\ NoPending.kind = "none"
      /\ newestSource \in 0..MaxKey /\ lastApplied \in 0..MaxKey /\ retained \in 0..MaxKey
      /\ flush # "idle" => pending = NoPending
    BY DEF NoPending, TypeOK, EnqueueType, EffectType, FailureType, KeysOrNone,
           CacheInvariant, QueueInvariant, PendingInOrder
<1>1. CASE EnqueueSnapshot
  <2>1. PICK next \in IF handoff.kind = "clear"
                      THEN {[head |-> "clear", upto |-> handoff.key, mid |-> {}, last |-> 0]}
                      ELSE AppendPending(pending.batch, handoff.key) :
              pending'.batch = next
    BY <1>1 DEF EnqueueSnapshot
  <2>2. handoff.key \in 0..MaxKey /\ newestSource < handoff.key
    BY <1>1 DEF EnqueueSnapshot, TypeOK, EnqueueType, Event, KeysOrNone
  <2>3. LatestKey(next) = handoff.key
    <3>1. CASE handoff.kind = "clear"
      BY <2>1, <3>1 DEF LatestKey
    <3>2. CASE handoff.kind # "clear"
      <4>1. pending.batch \in Batch
        BY DEF TypeOK, QueueType, Pending
      <4>2. next.last = handoff.key
        BY <2>1, <3>2, <4>1, AppendPutsLast
      <4> QED BY <2>2, <1>0, <4>2 DEF LatestKey
    <3> QED BY <3>1, <3>2
  <2>4. /\ lastApplied' = lastApplied /\ retained' = retained /\ flush' = "idle"
        /\ newestSource' = handoff.key
    BY <1>1 DEF EnqueueSnapshot
  <2> QED BY <1>0, <2>1, <2>2, <2>3, <2>4
<1>2. CASE EnqueueDecodeFailed
  <2>1. handoff.key \in 0..MaxKey /\ (handoff.key = 0 \/ newestSource < handoff.key)
    BY <1>2 DEF EnqueueDecodeFailed, TypeOK, EnqueueType, Event, KeysOrNone
  <2>2. /\ lastApplied' = lastApplied /\ newestSource' = newestSource /\ flush' = "idle"
        /\ retained' # 0 => lastApplied < retained'
    BY <1>0, <1>2, <2>1 DEF EnqueueDecodeFailed, RetainedAfter
  <2>3. pending'.kind = "snapshot" => pending' = pending
    BY <1>2 DEF EnqueueDecodeFailed, NoPending
  <2> QED BY <2>2, <2>3
<1>3. CASE RunCallback \/ FlushDirectly
  <2>1. Dequeue
    BY <1>3 DEF RunCallback, FlushDirectly
  <2>2. pending.failure \in KeysOrNone
    BY DEF TypeOK, QueueType, Pending
  <2>3. retained' = retained \/ retained' = 0
    BY <2>1, <2>2, FailureEventKeepsOrder DEF Dequeue
  <2>4. /\ pending'.kind = "none"
        /\ lastApplied' = lastApplied /\ newestSource' = newestSource
        /\ flush' # "idle" => pending.kind = "snapshot" /\ batch' = pending.batch
    BY <2>1, <1>0 DEF Dequeue
  <2> QED BY <1>0, <2>3, <2>4
<1>4. CASE PlanFails \/ \E k \in KeysOrNone : ApplyFails(k)
  <2>1. flush # "idle" /\ flush' = "idle"
    BY <1>4 DEF PlanFails, ApplyFails, EndFlush
  <2>2. /\ lastApplied' = lastApplied /\ newestSource' = newestSource /\ retained' = retained
        /\ RetainBatch \/ pending' = pending
    BY <1>4 DEF PlanFails, ApplyFails, Report
  <2>3. pending'.kind = "snapshot" => pending'.batch = batch
    BY <1>0, <2>1, <2>2, RetainKeepsLatest
  <2> QED BY <2>1, <2>2, <2>3
<1>5. CASE FinishFlush
  <2>1. /\ flush # "idle" /\ flush' = "idle" /\ pending' = pending
        /\ newestSource' = newestSource
    BY <1>5 DEF FinishFlush, EndFlush
  <2>2. LatestKey(batch) \in 0..MaxKey /\ LatestKey(batch) <= newestSource
    BY LatestIsAccepted DEF CacheInvariant, QueueInvariant, FlushInOrder, TypeOK, FlushType,
                            KeysOrNone
  <2>3. lastApplied' = LatestKey(batch)
    BY <1>5, <2>1 DEF FinishFlush
  <2>4. retained' # 0 => LatestKey(batch) < retained'
    BY <1>0, <1>5, <2>2 DEF FinishFlush, SettleRetained, Report
  <2> QED BY <1>0, <2>1, <2>2, <2>3, <2>4
<1>6. CASE \/ BeginHandoff \/ RejectHandoff \/ ChangeGeneration \/ PlanBatch \/ AbandonFlush
           \/ UNCHANGED vars
    BY <1>6 DEF BeginHandoff, RejectHandoff, ChangeGeneration, PlanBatch, AbandonFlush,
                EndFlush, vars
<1>7. ASSUME NEW k \in KeysOrNone, ApplyStep(k) \/ SubmitStep(k) PROVE FailureOrder'
    BY <1>7 DEF ApplyStep, SubmitStep
<1> QED BY <1>1, <1>2, <1>3, <1>4, <1>5, <1>6, <1>7 DEF Next, Handoff, FlushProgress

\* The health row never comes to show a stamped decode failure that an applied
\* snapshot has overtaken.
THEOREM FailureShownIsNewest == Spec => ReportedFailureIsNewest
<1> DEFINE Shows == shown' # shown /\ shown'.kind = "decodeFailed" /\ shown'.key # 0
<1>1. Init => FailureOrder
    BY BoundsAssumption DEF Init, FailureOrder, NoPending
<1>2. TypeOK /\ CacheInvariant /\ FailureOrder /\ [Next]_vars => FailureOrder'
    BY FailureStep
<1>3. ASSUME TypeOK, FailureOrder, [Next]_vars, Shows PROVE lastApplied' < shown'.key
  <2> USE <1>3 DEF gateVars, enqueueVars, queueVars, retryVars, failureVars, flushVars,
                   effectVars
  <2>1. CASE RunCallback \/ FlushDirectly
    <3>1. lastApplied' = lastApplied
      BY <2>1 DEF RunCallback, FlushDirectly, Dequeue
    <3>2. FlushFailureEvent(pending.failure)
      BY <2>1 DEF RunCallback, FlushDirectly, Dequeue
    <3>3. lastApplied < retained /\ shown'.key = retained
      BY <3>2 DEF FlushFailureEvent, Report
    <3> QED BY <3>1, <3>3
  <2>2. CASE FinishFlush
    <3>1. lastApplied' = LatestKey(batch)
      BY <2>2 DEF FinishFlush, FailureOrder
    <3>2. LatestKey(batch) < retained /\ shown'.key = retained
      BY <2>2 DEF FinishFlush, SettleRetained, Report
    <3> QED BY <3>1, <3>2
  <2>3. ASSUME NEW k \in KeysOrNone, ApplyStep(k) \/ ApplyFails(k) \/ SubmitStep(k)
        PROVE  FALSE
    BY <2>3 DEF ApplyStep, ApplyFails, SubmitStep, Report
  <2>4. CASE \/ BeginHandoff \/ RejectHandoff \/ EnqueueSnapshot \/ EnqueueDecodeFailed
             \/ PlanBatch \/ PlanFails \/ AbandonFlush \/ ChangeGeneration \/ UNCHANGED vars
    BY <2>4 DEF BeginHandoff, RejectHandoff, EnqueueSnapshot, EnqueueDecodeFailed, PlanBatch,
                PlanFails, AbandonFlush, ChangeGeneration, vars
  <2> QED BY <2>1, <2>2, <2>3, <2>4 DEF Next, Handoff, FlushProgress
<1>4. ASSUME TypeOK, FailureOrder, [Next]_vars
      PROVE  [Shows => shown'.key > lastApplied']_vars
  <2>1. CASE Shows
    <3>1. shown'.key \in Nat /\ lastApplied' \in Nat
      BY <1>4, NextType DEF TypeOK, EffectType, Health, KeysOrNone
    <3> QED BY <1>3, <1>4, <2>1, <3>1
  <2> QED BY <2>1
<1> QED
    BY <1>1, <1>2, <1>4, TypeCorrect, CacheOrderKept, PTL DEF Spec, ReportedFailureIsNewest

-----------------------------------------------------------------------------
(* Failures are handled once and in order.  A batch is put back only by the  *)
(* first failure of an apply, so a snapshot is offered once more after that; *)
(* and whatever failure is newer than the last applied snapshot has taken    *)
(* the place of "applied" on the health row, or is still to be reported.     *)

\* Coalescing adds the new snapshot and brings back none that it dropped.
LEMMA AppendSources ==
    ASSUME NEW b \in Batch, NEW k \in Keys, NEW next \in AppendPending(b, k),
           NEW clear, NEW newest \in KeysOrNone, BatchShape(b, clear, newest), newest < k,
           HeadFirst(b)
    PROVE  HeadFirst(next) /\ Sources(next) \subseteq Sources(b) \cup {k}
<1> USE BoundsAssumption DEF Keys, KeysOrNone
<1>1. b.upto \in 0..MaxKey /\ b.last \in 0..MaxKey /\ Retainable(b) \subseteq 1..MaxKey
    BY DEF Batch, Retainable
<1>2. b.upto < k
    BY <1>1 DEF BatchShape
<1>3. CASE \E kept \in SUBSET Retainable(b) : next = [b EXCEPT !.mid = kept, !.last = k]
  <2>1. PICK kept \in SUBSET Retainable(b) : next = [b EXCEPT !.mid = kept, !.last = k]
    BY <1>3
  <2>2. next.head = b.head /\ next.upto = b.upto /\ Retainable(next) = kept \cup {k}
    BY <2>1 DEF Batch, Retainable
  <2>3. HeadFirst(next)
    BY <1>2, <2>1, <2>2 DEF HeadFirst
  <2>4. Sources(next) \subseteq Sources(b) \cup {k}
    BY <2>1, <2>2 DEF Sources
  <2> QED BY <2>3, <2>4
<1>4. CASE next = [head |-> "barrier", upto |-> LatestKey(b), mid |-> {}, last |-> k]
  <2>1. LatestKey(b) < k
    BY <1>1, <1>2 DEF LatestKey, Retainable, BatchShape
  <2>2. Retainable(next) = {k} /\ next.head = "barrier" /\ next.upto = LatestKey(b)
    BY <1>4 DEF Retainable
  <2> QED BY <2>1, <2>2 DEF Sources, HeadFirst
<1> QED BY <1>3, <1>4 DEF AppendPending

\* Nothing pending, and no batch, offers nothing.
LEMMA EmptySources == Sources(EmptyBatch) = {} /\ HeadFirst(EmptyBatch)
    BY DEF EmptyBatch, Sources, HeadFirst, Retainable

\* What has to be known of a batch: its sources are keys that were accepted.
LEMMA SourcesAccepted ==
    ASSUME NEW b \in Batch, NEW clear, NEW newest \in KeysOrNone, BatchShape(b, clear, newest)
    PROVE  /\ \A k \in Sources(b) : k \in Keys /\ k <= newest
           /\ b.upto \in KeysOrNone /\ b.upto <= newest
           /\ \A k \in Retainable(b) : k \in Keys /\ k <= newest
<1>1. b.upto \in KeysOrNone /\ b.upto <= newest
    BY DEF BatchShape, Batch
<1>2. \A k \in Retainable(b) : k \in Keys /\ k <= newest
    BY DEF BatchShape, Batch, Retainable, Keys, KeysOrNone
<1>3. b.upto # 0 => b.upto \in Keys
    BY <1>1 DEF Keys, KeysOrNone
<1> QED BY <1>1, <1>2, <1>3 DEF Sources

\* A flush takes its batch, or its batch goes away; no snapshot is offered.
LEMMA AttemptsFlush ==
    ASSUME TypeOK, CacheInvariant, AttemptsInvariant,
           UNCHANGED <<attempts, newestSource>>,
           HeadFirst(pending'.batch), HeadFirst(batch'), flush' = "idle" => batch' = EmptyBatch,
           \A k \in Sources(pending'.batch) : attempts[k] <= Offered(0)',
           \A k \in Sources(batch') : attempts[k] <= Offered(1)',
           \A k \in Remaining' : attempts[k] <= Offered(0)'
    PROVE  AttemptsInvariant'
    BY DEF AttemptsInvariant, HeadFirst, Sources, Retainable

LEMMA AttemptsStep ==
    ASSUME TypeOK, CacheInvariant, AttemptsInvariant, [Next]_vars
    PROVE  AttemptsInvariant'
<1> USE DEF gateVars, enqueueVars, queueVars, retryVars, failureVars, flushVars, effectVars
<1>0. /\ NoPending.kind = "none" /\ NoPending.batch = EmptyBatch
      /\ flush # "idle" => pending = NoPending
      /\ newestSource \in KeysOrNone /\ applyRetry \in BOOLEAN
      /\ pending.batch \in Batch /\ batch \in Batch
      /\ attempts \in [Keys -> Nat]
      /\ BatchShape(batch, cacheHead, newestSource)
      /\ BatchShape(pending.batch, pending.cacheHead, newestSource)
      /\ todo \subseteq Keys
    BY DEF NoPending, TypeOK, FlagType, EnqueueType, QueueType, Pending, FlushType, EffectType,
           CacheInvariant, QueueInvariant, PendingInOrder, FlushInOrder
<1>1. CASE EnqueueSnapshot
  <2>1. PICK k : k = handoff.key
    OBVIOUS
  <2>2. /\ k \in Keys /\ newestSource < k /\ flush = "idle" /\ newestSource' = k
        /\ applyRetry' \in BOOLEAN /\ (applyRetry' # applyRetry => pending.kind = "none")
        /\ UNCHANGED <<attempts, batch, flush, todo, headDue>>
    BY <1>0, <1>1, <2>1 DEF EnqueueSnapshot, ApplyRetryAfterEnqueue, TypeOK, EnqueueType, Event,
                            KeysOrNone, Keys
  <2>3. PICK next \in IF handoff.kind = "clear"
                      THEN {[head |-> "clear", upto |-> k, mid |-> {}, last |-> 0]}
                      ELSE AppendPending(pending.batch, k) :
              pending'.batch = next
    BY <1>1, <2>1 DEF EnqueueSnapshot
  <2>4. HeadFirst(next) /\ Sources(next) \subseteq Sources(pending.batch) \cup {k}
    <3>1. CASE handoff.kind = "clear"
      BY <2>3, <3>1 DEF HeadFirst, Sources, Retainable
    <3>2. CASE handoff.kind # "clear"
      BY <1>0, <2>2, <2>3, <3>2, AppendSources DEF AttemptsInvariant
    <3> QED BY <3>1, <3>2
  <2>5. attempts[k] = 0
    BY <2>2 DEF AttemptsInvariant
  <2>6. \A j \in Sources(pending.batch) : attempts[j] <= Offered(0)'
    <3>1. CASE applyRetry' = applyRetry
      BY <3>1 DEF AttemptsInvariant, Offered
    <3>2. CASE pending.kind = "none"
      BY <3>2, EmptySources DEF CacheInvariant, QueueInvariant, PendingInOrder
    <3> QED BY <2>2, <3>1, <3>2
  <2>7. \A j \in Sources(next) : attempts[j] <= Offered(0)'
    BY <2>2, <2>4, <2>5, <2>6 DEF Offered
  <2>8. batch = EmptyBatch /\ Sources(batch) = {} /\ HeadFirst(batch)
    BY <2>2, EmptySources DEF AttemptsInvariant
  <2>9. Remaining' = {}
    BY <2>2, <2>8 DEF Remaining, Sources, Retainable
  <2>10. \A j \in Keys : k < j => newestSource < j
    BY <1>0, <2>2 DEF Keys, KeysOrNone
  <2>11. Sources(batch') = {} /\ HeadFirst(batch') /\ batch' = EmptyBatch
    BY <2>2, <2>8
  <2>12. HeadFirst(pending'.batch) /\ \A j \in Sources(pending'.batch) : attempts[j] <= Offered(0)'
    BY <2>3, <2>4, <2>7
  <2>13. \A j \in Keys : attempts[j] <= 2 /\ (k < j => attempts[j] = 0)
    BY <2>10 DEF AttemptsInvariant
  <2> QED BY <2>2, <2>9, <2>11, <2>12, <2>13 DEF AttemptsInvariant, HeadFirst, Sources, Retainable
<1>2. CASE EnqueueDecodeFailed
  <2>1. /\ flush = "idle" /\ UNCHANGED <<attempts, newestSource, batch, flush, todo, headDue, applyRetry>>
        /\ pending'.batch \in {pending.batch, EmptyBatch}
    BY <1>2 DEF EnqueueDecodeFailed, NoPending
  <2>2. Remaining' = Remaining /\ Offered(0)' = Offered(0) /\ Offered(1)' = Offered(1)
    BY <2>1 DEF Remaining, Offered, Sources, Retainable
  <2>3. HeadFirst(pending'.batch) /\ \A j \in Sources(pending'.batch) : attempts[j] <= Offered(0)
    BY <2>1, EmptySources DEF AttemptsInvariant
  <2>4. /\ HeadFirst(batch') /\ batch' = EmptyBatch /\ \A j \in Sources(batch') : attempts[j] <= Offered(1)
    BY <2>1 DEF AttemptsInvariant
  <2>5. \A k \in Remaining : attempts[k] <= Offered(0)
    BY DEF AttemptsInvariant
  <2> QED BY <2>1, <2>2, <2>3, <2>4, <2>5, AttemptsFlush
<1>3. CASE RunCallback \/ FlushDirectly
  <2>1. /\ flush = "idle" /\ UNCHANGED <<attempts, newestSource, applyRetry>> /\ pending' = NoPending
        /\ \/ UNCHANGED <<batch, flush>>
           \/ flush' = "planning" /\ batch' = pending.batch
    BY <1>3 DEF RunCallback, FlushDirectly, Dequeue
  <2>2. Offered(0)' = Offered(0) /\ Offered(1)' = Offered(1) /\ Offered(0) <= Offered(1)
    BY <2>1 DEF Offered
  <2>3. HeadFirst(pending'.batch) /\ Sources(pending'.batch) = {}
    BY <1>0, <2>1, EmptySources
  <2>4. HeadFirst(batch') /\ (flush' = "idle" => batch' = EmptyBatch)
    BY <2>1 DEF AttemptsInvariant
  <2>5. \A k \in Sources(batch') : attempts[k] <= Offered(0)
    <3>1. CASE UNCHANGED <<batch, flush>>
      BY <2>1, <3>1, EmptySources DEF AttemptsInvariant
    <3>2. CASE batch' = pending.batch
      BY <3>2 DEF AttemptsInvariant
    <3> QED BY <2>1, <3>1, <3>2
  <2>6. Remaining' \subseteq Sources(batch')
    BY DEF Remaining, Sources, Retainable
  <2>7. \A k \in Sources(batch') : attempts[k] <= Offered(1)
    <3> SUFFICES ASSUME NEW k \in Sources(batch') PROVE attempts[k] <= Offered(1)
      OBVIOUS
    <3>1. CASE UNCHANGED <<batch, flush>>
      BY <2>1, <3>1, EmptySources DEF AttemptsInvariant
    <3>2. CASE batch' = pending.batch
      <4>1. k \in Keys
        BY <1>0, <3>2, SourcesAccepted
      <4> QED BY <1>0, <2>5, <4>1 DEF Offered
    <3> QED BY <2>1, <3>1, <3>2
  <2> QED BY <2>1, <2>2, <2>3, <2>4, <2>5, <2>6, <2>7, AttemptsFlush
<1>4. CASE PlanBatch
  <2>1. /\ flush = "planning" /\ flush' = "applying"
        /\ UNCHANGED <<attempts, newestSource, pending, batch, applyRetry>>
    BY <1>4 DEF PlanBatch
  <2>2. Offered(0)' = Offered(0) /\ Offered(1)' = Offered(1)
    BY <2>1 DEF Offered
  <2>3. Remaining' \subseteq Sources(batch) /\ Remaining = Sources(batch)
    BY <2>1 DEF Remaining, Sources, Retainable
  <2>4. /\ HeadFirst(pending'.batch) /\ HeadFirst(batch')
        /\ \A k \in Sources(pending'.batch) : attempts[k] <= Offered(0)
        /\ \A k \in Sources(batch') : attempts[k] <= Offered(1)
        /\ \A k \in Remaining : attempts[k] <= Offered(0)
    BY <2>1 DEF AttemptsInvariant
  <2> QED BY <2>1, <2>2, <2>3, <2>4, AttemptsFlush
<1>5. CASE PlanFails
  <2>1. /\ flush = "planning" /\ flush' = "idle" /\ batch' = EmptyBatch
        /\ UNCHANGED <<attempts, newestSource, applyRetry>>
        /\ pending'.batch \in {batch, pending.batch}
    BY <1>5 DEF PlanFails, EndFlush, RetainBatch
  <2>2. Offered(0)' = Offered(0) /\ Offered(1)' = Offered(1)
    BY <2>1 DEF Offered
  <2>3. Sources(batch') = {} /\ HeadFirst(batch')
    BY <2>1, EmptySources
  <2>4. Remaining' = {}
    BY <2>1 DEF Remaining
  <2>5. Remaining = Sources(batch)
    BY <2>1 DEF Remaining
  <2>6. HeadFirst(pending'.batch) /\ \A k \in Sources(pending'.batch) : attempts[k] <= Offered(0)
    BY <2>1, <2>5 DEF AttemptsInvariant
  <2> QED BY <2>1, <2>2, <2>3, <2>4, <2>6, AttemptsFlush
<1>6. ASSUME NEW k \in KeysOrNone, ApplyStep(k) PROVE AttemptsInvariant'
  <2>1. /\ flush = "applying" /\ flush' \in {"applied", "raised"} /\ IsNextStep(k)
        /\ attempts' = (IF StepSource(k) = 0 THEN attempts ELSE [attempts EXCEPT ![k] = @ + 1])
        /\ UNCHANGED <<newestSource, pending, batch, applyRetry, todo, headDue>>
    BY <1>6 DEF ApplyStep, CountAttempt
  <2>2. pending.batch = EmptyBatch
    BY <1>0, <2>1
  <2>3. todo \subseteq Retainable(batch) /\ (headDue => batch.head # "none")
    BY <2>1 DEF CacheInvariant, QueueInvariant, FlushInOrder
  <2>4. batch.head \in {"none", "clear", "barrier"} /\ headDue \in BOOLEAN
    BY <1>0 DEF Batch, TypeOK, FlagType
  <2>5. StepSource(k) # 0 => k \in Remaining
    BY <2>1, <2>3, <2>4 DEF Remaining, Sources, StepSource, IsNextStep
  <2>6. StepSource(k) # 0 => k \in Keys /\ k <= newestSource /\ attempts[k] <= Offered(0)
    <3>1. Remaining \subseteq Sources(batch)
      BY DEF Remaining
    <3> QED BY <1>0, <2>5, <3>1, SourcesAccepted DEF AttemptsInvariant
  <2>7. attempts' \in [Keys -> Nat] /\ \A j \in Keys : j # k => attempts'[j] = attempts[j]
    <3>1. CASE StepSource(k) = 0
      BY <1>0, <2>1, <3>1
    <3>2. CASE StepSource(k) # 0
      <4>1. attempts' = [attempts EXCEPT ![k] = @ + 1] /\ attempts[k] \in Nat
        BY <1>0, <2>1, <2>6, <3>2
      <4>2. PICK n \in Nat : n = attempts[k] + 1
        BY <4>1
      <4>3. attempts' = [attempts EXCEPT ![k] = n]
        BY <4>1, <4>2
      <4> QED BY <1>0, <4>3
    <3> QED BY <3>1, <3>2
  <2>8. \A j \in Sources(batch) : j \in Keys
    BY <1>0, SourcesAccepted
  <2>9. \A j \in Keys : \/ attempts'[j] = attempts[j]
                        \/ j = k /\ StepSource(k) # 0 /\ attempts'[j] = attempts[j] + 1
    BY <1>0, <2>1
  <2>10. Offered(0) \in {0, 1} /\ Offered(1) = Offered(0) + 1 /\ Offered(0)' = Offered(0) /\ Offered(1)' = Offered(1)
    BY <1>0, <2>1 DEF Offered
  <2>11. Remaining' \subseteq Sources(batch) /\ k \notin Remaining'
    <3>1. Remaining' = {j \in Sources(batch) : j \in todo /\ (headDue \/ \E earlier \in todo : earlier < j)}
      BY <2>1 DEF Remaining, Sources, Retainable
    <3>2. CASE headDue
      BY <1>0, <2>1, <2>3, <3>1, <3>2 DEF IsNextStep, AttemptsInvariant, HeadFirst, KeysOrNone
    <3>3. CASE ~headDue
      <4>1. \A earlier \in todo : k <= earlier
        BY <2>1, <3>3 DEF IsNextStep
      <4>2. \A earlier \in todo : ~(earlier < k)
        BY <1>0, <4>1, BoundsAssumption DEF Keys, KeysOrNone
      <4> QED BY <3>1, <3>3, <4>2
    <3> QED BY <3>1, <3>2, <3>3
  <2>12. \A j \in Keys : attempts'[j] <= 2 /\ (newestSource < j => attempts'[j] = 0)
    <3> SUFFICES ASSUME NEW j \in Keys
                 PROVE  attempts'[j] <= 2 /\ (newestSource < j => attempts'[j] = 0)
      OBVIOUS
    <3>1. attempts[j] <= 2 /\ (newestSource < j => attempts[j] = 0) /\ attempts[j] \in Nat
      BY <1>0 DEF AttemptsInvariant
    <3>2. CASE attempts'[j] = attempts[j]
      BY <3>1, <3>2
    <3>3. CASE j = k /\ StepSource(k) # 0 /\ attempts'[j] = attempts[j] + 1
      <4>1. attempts[j] <= 1 /\ ~(newestSource < j)
        BY <1>0, <2>6, <2>10, <3>1, <3>3 DEF Keys, KeysOrNone
      <4> QED BY <3>1, <3>3, <4>1
    <3> QED BY <2>9, <3>2, <3>3
  <2>13. \A j \in Sources(batch) : attempts'[j] <= Offered(1)
    <3> SUFFICES ASSUME NEW j \in Sources(batch) PROVE attempts'[j] <= Offered(1)
      OBVIOUS
    <3>1. j \in Keys /\ attempts[j] \in Nat /\ attempts[j] <= Offered(1)
      BY <1>0, <2>8 DEF AttemptsInvariant
    <3> QED BY <2>6, <2>9, <2>10, <3>1
  <2>14. \A j \in Remaining' : attempts'[j] <= Offered(0)
    <3>1. Remaining' \subseteq Remaining
      BY <2>1 DEF Remaining, Sources, Retainable
    <3> QED BY <2>7, <2>8, <2>11, <3>1 DEF AttemptsInvariant
  <2>15. /\ HeadFirst(pending'.batch) /\ HeadFirst(batch') /\ Sources(pending'.batch) = {}
         /\ flush' # "idle" /\ batch' = batch /\ newestSource' = newestSource
    BY <2>1, <2>2, EmptySources DEF AttemptsInvariant
  <2> QED BY <2>10, <2>12, <2>13, <2>14, <2>15 DEF AttemptsInvariant, HeadFirst, Sources, Retainable
<1>7. ASSUME NEW k \in KeysOrNone, ApplyFails(k) PROVE AttemptsInvariant'
  <2>1. /\ flush = "raised" /\ flush' = "idle" /\ batch' = EmptyBatch
        /\ UNCHANGED <<attempts, newestSource>>
        /\ \/ /\ applyRetry = FALSE /\ applyRetry' = TRUE /\ pending'.batch = batch
           \/ /\ applyRetry' = applyRetry /\ pending' = pending
    <3>1. CASE current /\ ~applyRetry
      <4>1. applyRetry' = TRUE /\ RetainBatch
        BY <1>7, <3>1 DEF ApplyFails
      <4>2. pending'.batch = batch
        BY <3>1, <4>1 DEF RetainBatch
      <4>3. /\ flush = "raised" /\ flush' = "idle" /\ batch' = EmptyBatch
            /\ UNCHANGED <<attempts, newestSource>>
        BY <1>7 DEF ApplyFails, EndFlush
      <4> QED BY <1>0, <3>1, <4>1, <4>2, <4>3
    <3>2. CASE ~(current /\ ~applyRetry)
      BY <1>7, <3>2 DEF ApplyFails, EndFlush
    <3> QED BY <3>1, <3>2
  <2>2. Remaining' = {} /\ Sources(batch') = {} /\ HeadFirst(batch')
    <3>1. Remaining' = {}
      BY <2>1 DEF Remaining
    <3> QED BY <2>1, <3>1, EmptySources
  <2>3. HeadFirst(pending'.batch)
    BY <2>1 DEF AttemptsInvariant
  <2>4. \A j \in Sources(pending'.batch) : attempts[j] <= Offered(0)'
    <3>1. CASE applyRetry = FALSE /\ applyRetry' = TRUE /\ pending'.batch = batch
      <4>1. Offered(0)' = Offered(1)
        BY <3>1 DEF Offered
      <4> QED BY <3>1, <4>1 DEF AttemptsInvariant
    <3>2. CASE applyRetry' = applyRetry /\ pending' = pending
      <4>1. Offered(0)' = Offered(0)
        BY <3>2 DEF Offered
      <4> QED BY <3>2, <4>1 DEF AttemptsInvariant
    <3> QED BY <2>1, <3>1, <3>2
  <2> QED BY <2>1, <2>2, <2>3, <2>4, AttemptsFlush
<1>8. ASSUME NEW k \in KeysOrNone, SubmitStep(k) PROVE AttemptsInvariant'
  <2>1. /\ flush = "applied" /\ flush' \in {"applying", "finishing"} /\ IsNextStep(k)
        /\ headDue' = FALSE /\ todo' = (IF headDue THEN todo ELSE todo \ {k})
        /\ UNCHANGED <<attempts, newestSource, pending, batch, applyRetry>>
    BY <1>8 DEF SubmitStep
  <2>2. Offered(0)' = Offered(0) /\ Offered(1)' = Offered(1)
    BY <2>1 DEF Offered
  <2>3. \A j \in todo' : j \in todo /\ (headDue \/ k < j)
    BY <1>0, <2>1 DEF IsNextStep, Keys, KeysOrNone
  <2>4. Remaining' \subseteq todo' \cap Sources(batch)
    BY <2>1 DEF Remaining, Sources, Retainable
  <2>5. headDue \/ k \in todo
    BY <2>1 DEF IsNextStep
  <2>6. Remaining' \subseteq Remaining
    BY <2>1, <2>3, <2>4, <2>5 DEF Remaining
  <2>7. /\ HeadFirst(pending'.batch) /\ HeadFirst(batch')
        /\ \A j \in Sources(pending'.batch) : attempts[j] <= Offered(0)
        /\ \A j \in Sources(batch') : attempts[j] <= Offered(1)
        /\ \A j \in Remaining : attempts[j] <= Offered(0)
    BY <2>1 DEF AttemptsInvariant
  <2> QED BY <2>1, <2>2, <2>6, <2>7, AttemptsFlush
<1>9. CASE AbandonFlush \/ FinishFlush
  <2>1. /\ flush # "idle" /\ flush' = "idle" /\ batch' = EmptyBatch /\ pending' = pending
        /\ UNCHANGED <<attempts, newestSource>>
    BY <1>9 DEF AbandonFlush, FinishFlush, EndFlush
  <2>2. Remaining' = {} /\ Sources(batch') = {} /\ HeadFirst(batch')
    <3>1. Remaining' = {}
      BY <2>1 DEF Remaining
    <3> QED BY <2>1, <3>1, EmptySources
  <2>3. HeadFirst(pending'.batch) /\ Sources(pending'.batch) = {}
    BY <1>0, <2>1, EmptySources
  <2> QED BY <2>1, <2>2, <2>3, AttemptsFlush
<1>10. CASE BeginHandoff \/ RejectHandoff \/ ChangeGeneration \/ UNCHANGED vars
  <2>1. UNCHANGED <<attempts, newestSource, pending, batch, flush, todo, headDue, applyRetry>>
    BY <1>10 DEF BeginHandoff, RejectHandoff, ChangeGeneration, vars
  <2>2. Remaining' = Remaining /\ Offered(0)' = Offered(0) /\ Offered(1)' = Offered(1)
    BY <2>1 DEF Remaining, Offered, Sources, Retainable
  <2>3. /\ HeadFirst(pending'.batch) /\ HeadFirst(batch') /\ (flush' = "idle" => batch' = EmptyBatch)
        /\ \A j \in Sources(pending'.batch) : attempts[j] <= Offered(0)
        /\ \A j \in Sources(batch') : attempts[j] <= Offered(1)
        /\ \A j \in Remaining : attempts[j] <= Offered(0)
    BY <2>1 DEF AttemptsInvariant
  <2> QED BY <2>1, <2>2, <2>3, AttemptsFlush
<1> QED BY <1>1, <1>2, <1>3, <1>4, <1>5, <1>6, <1>7, <1>8, <1>9, <1>10
        DEF Next, Handoff, FlushProgress

\* A step is given the key of a source that was accepted, or none.
LEMMA StepIsAccepted ==
    ASSUME TypeOK, CacheInvariant, flush \in {"applying", "applied", "raised"},
           NEW k \in KeysOrNone, IsNextStep(k)
    PROVE  StepSource(k) \in KeysOrNone /\ StepSource(k) <= newestSource
<1>1. /\ batch \in Batch /\ newestSource \in KeysOrNone /\ 0 \in KeysOrNone
      /\ BatchShape(batch, cacheHead, newestSource) /\ todo \subseteq Retainable(batch)
    BY BoundsAssumption DEF TypeOK, EnqueueType, FlushType, CacheInvariant, QueueInvariant,
                            FlushInOrder, KeysOrNone
<1>2. k <= newestSource
    BY <1>1, SourcesAccepted DEF IsNextStep
<1> QED BY <1>1, <1>2 DEF StepSource, KeysOrNone

LEMMA ShownStep ==
    ASSUME TypeOK, CacheInvariant, ShownInvariant, [Next]_vars
    PROVE  ShownInvariant'
<1> USE BoundsAssumption
<1> USE DEF gateVars, enqueueVars, queueVars, retryVars, failureVars, flushVars, effectVars
<1>0. /\ NoPending.kind = "none" /\ (~everStale => current)
      /\ flush # "idle" => pending = NoPending
      /\ newestSource \in 0..MaxKey /\ lastApplied \in 0..MaxKey /\ retained \in 0..MaxKey
      /\ lastReported \in 0..MaxKey /\ handoff.key \in 0..MaxKey
    BY DEF NoPending, TypeOK, EnqueueType, EffectType, FailureType, KeysOrNone, Event,
           CacheInvariant, QueueInvariant, PendingInOrder
<1>1. CASE EnqueueSnapshot
  <2>1. /\ newestSource < newestSource' /\ newestSource' \in 0..MaxKey /\ pending'.kind = "snapshot"
        /\ flush = "idle" /\ UNCHANGED <<everStale, retained, lastReported, flush, lastApplied, shown>>
    BY <1>0, <1>1 DEF EnqueueSnapshot
  <2> QED BY <1>0, <2>1 DEF ShownInvariant
<1>2. CASE EnqueueDecodeFailed
  <2>1. /\ handoff.key = 0 \/ newestSource < handoff.key
        /\ flush = "idle" /\ retained' = RetainedAfter(handoff.key) /\ pending'.kind # "none"
        /\ UNCHANGED <<everStale, newestSource, lastReported, flush, lastApplied, shown>>
    BY <1>2 DEF EnqueueDecodeFailed, NoPending
  <2>2. \/ retained' = retained
        \/ retained' = handoff.key /\ retained < handoff.key /\ newestSource < handoff.key
    BY <1>0, <2>1 DEF RetainedAfter
  <2> QED BY <1>0, <2>1, <2>2 DEF ShownInvariant
<1>3. CASE RunCallback \/ FlushDirectly
  <2>1. /\ flush = "idle" /\ pending' = NoPending
        /\ UNCHANGED <<everStale, newestSource, lastApplied>>
        /\ \/ /\ pending.kind = "none" \/ ~current
              /\ UNCHANGED <<flush, retained, lastReported, shown>>
           \/ flush' = "planning" /\ UNCHANGED <<retained, lastReported, shown>>
           \/ flush' = flush /\ FlushFailureEvent(pending.failure)
    BY <1>3 DEF RunCallback, FlushDirectly, Dequeue
  <2>2. CASE flush' = flush /\ FlushFailureEvent(pending.failure)
    BY <1>0, <2>1, <2>2 DEF FlushFailureEvent, Report, ShownInvariant
  <2>3. CASE UNCHANGED <<retained, lastReported, shown>> /\ flush' = "planning"
    BY <1>0, <2>1, <2>3 DEF ShownInvariant
  <2>4. CASE (pending.kind = "none" \/ ~current) /\ UNCHANGED <<flush, retained, lastReported, shown>>
    BY <1>0, <2>1, <2>4 DEF ShownInvariant
  <2> QED BY <2>1, <2>2, <2>3, <2>4
<1>4. CASE PlanFails
  <2>1. /\ flush = "planning" /\ flush' = "idle" /\ (current => pending'.kind = "snapshot")
        /\ UNCHANGED <<everStale, newestSource, retained, lastReported, lastApplied, shown>>
    BY <1>4 DEF PlanFails, EndFlush, RetainBatch
  <2> QED BY <1>0, <2>1 DEF ShownInvariant
<1>5. ASSUME NEW k \in KeysOrNone, ApplyFails(k) PROVE ShownInvariant'
  <2>1. /\ shown' = [kind |-> "applyFailed", key |-> StepSource(k)] /\ lastReported' = StepSource(k)
        /\ newestSource' = newestSource /\ flush = "raised" /\ IsNextStep(k)
    BY <1>5 DEF ApplyFails, Report
  <2> QED BY <2>1, StepIsAccepted DEF ShownInvariant
<1>6. CASE FinishFlush
  <2>1. /\ flush' = "idle" /\ SettleRetained /\ newestSource' = newestSource
        /\ lastApplied' \in Nat /\ lastApplied' >= lastApplied
    <3>1. LatestKey(batch) \in 0..MaxKey
      BY LatestIsAccepted DEF CacheInvariant, QueueInvariant, FlushInOrder, TypeOK, FlushType,
                              KeysOrNone
    <3> QED BY <1>0, <1>6, <3>1 DEF FinishFlush, EndFlush
  <2> QED BY <1>0, <2>1 DEF SettleRetained, Report, ShownInvariant
<1>7. CASE AbandonFlush \/ PlanBatch \/ \E k \in KeysOrNone : ApplyStep(k) \/ SubmitStep(k)
  <2>1. /\ flush' \notin {"idle", "planning"} \/ everStale'
        /\ UNCHANGED <<newestSource, retained, lastReported>>
    BY <1>0, <1>7 DEF AbandonFlush, PlanBatch, ApplyStep, SubmitStep
  <2> QED BY <2>1 DEF ShownInvariant
<1>8. CASE BeginHandoff \/ RejectHandoff \/ ChangeGeneration \/ UNCHANGED vars
  <2>1. /\ everStale' = everStale \/ everStale' = TRUE
        /\ UNCHANGED <<newestSource, retained, lastReported, flush, pending, lastApplied, shown>>
    BY <1>8 DEF BeginHandoff, RejectHandoff, ChangeGeneration, vars
  <2> QED BY <2>1 DEF ShownInvariant
<1> QED BY <1>1, <1>2, <1>3, <1>4, <1>5, <1>6, <1>7, <1>8 DEF Next, Handoff, FlushProgress

\* However failures, retries and newer snapshots interleave: no snapshot is offered to the
\* state machine more than twice, and at rest the health row does not say "applied" while a
\* newer decode failure is known.
THEOREM FailuresAreOrdered == Spec => []FailuresInOrder
<1>1. Init => AttemptsInvariant /\ ShownInvariant
  <2> SUFFICES ASSUME Init PROVE AttemptsInvariant /\ ShownInvariant
    OBVIOUS
  <2>1. /\ attempts = [k \in Keys |-> 0] /\ pending.batch = EmptyBatch /\ batch = EmptyBatch
        /\ newestSource = 0 /\ lastReported = 0 /\ retained = 0 /\ lastApplied = 0
    BY DEF Init, NoPending
  <2>2. Remaining = {}
    BY <2>1, EmptySources DEF Remaining
  <2>3. AttemptsInvariant
    BY <2>1, <2>2, EmptySources DEF AttemptsInvariant
  <2> QED BY <2>1, <2>3 DEF ShownInvariant
<1>2. TypeOK /\ CacheInvariant /\ AttemptsInvariant /\ ShownInvariant /\ [Next]_vars
        => AttemptsInvariant' /\ ShownInvariant'
  BY AttemptsStep, ShownStep
<1>3. AttemptsInvariant /\ ShownInvariant => FailuresInOrder
  BY DEF AttemptsInvariant, ShownInvariant, FailuresInOrder
<1> QED BY <1>1, <1>2, <1>3, TypeCorrect, CacheOrderKept, PTL DEF Spec
=============================================================================
