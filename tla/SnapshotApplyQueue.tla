-------------------------- MODULE SnapshotApplyQueue --------------------------
(***************************************************************************)
(* SnapshotApplyQueue (snapshot_pipeline.py) together with the handoff in  *)
(* front of it (_connect_screenshot_watcher in __main__.py).               *)
(*                                                                         *)
(* Decoder workers deliver snapshots and decode failures under the         *)
(* handoff lock; the queue coalesces them into one pending event and asks  *)
(* the scheduler for a flush; the GUI thread flushes, applying the planned *)
(* steps one after the other while the watcher generation stays current.   *)
(* The queue's lock is held for a whole flush, so an enqueue waits for it; *)
(* the signal gate has no lock, so the generation may change between any   *)
(* two steps.                                                              *)
(*                                                                         *)
(* A source order key is a number, 0 standing for an unstamped source.     *)
(* What a snapshot carries is abstracted to whether it is a terminal clear *)
(* and, when it is appended, to the choice coalescing makes: earlier       *)
(* snapshots may be dropped, or be replaced by the producer barrier.       *)
(***************************************************************************)
EXTENDS Naturals, FiniteSets

CONSTANTS MaxKey,            \* the greatest source order key delivered
          FailureKeys,       \* the keys decode failures arrive with, 0 for unstamped
          MaxCallbacks,      \* bound: flush callbacks waiting in the event loop
          SchedulerFaults,   \* bound: how often the scheduler raises
          PlanMayFail,       \* may snapshot_application_plan raise?
          ApplyMayFail       \* may StateMachine.apply_snapshot raise?

ASSUME BoundsAssumption == MaxKey \in Nat \ {0} /\ MaxCallbacks \in Nat \ {0}
ASSUME FailureAssumption ==
    /\ FailureKeys \subseteq 0..MaxKey
    /\ SchedulerFaults \in Nat
    /\ PlanMayFail \in BOOLEAN
    /\ ApplyMayFail \in BOOLEAN

Keys == 1..MaxKey
KeysOrNone == 0..MaxKey

(***************************************************************************)
(* A batch is the tuple of snapshots waiting in _pending: an optional head *)
(* (a terminal clear, or the barrier append_pending_snapshot builds when   *)
(* the producer changes), the retained snapshots and the last one received *)
(* (0 when the batch is a lone clear).  Source keys of accepted snapshots  *)
(* increase, so a set keeps their order.  upto is the newest key the head  *)
(* accounts for: the clear's own key, or the last one the barrier retires. *)
(***************************************************************************)
Batch == [head : {"none", "clear", "barrier"}, upto : KeysOrNone,
          mid : SUBSET Keys, last : KeysOrNone]
EmptyBatch == [head |-> "none", upto |-> 0, mid |-> {}, last |-> 0]
LatestKey(b) == IF b.last # 0 THEN b.last ELSE b.upto
Retainable(b) == b.mid \cup ({b.last} \ {0})

Pending == [kind : {"none", "snapshot", "decode_failed"}, batch : Batch,
            cacheHead : KeysOrNone, failure : KeysOrNone]
NoPending == [kind |-> "none", batch |-> EmptyBatch, cacheHead |-> 0, failure |-> 0]

Event == [kind : {"none", "snapshot", "clear", "decode_failed"}, key : KeysOrNone]
NoEvent == [kind |-> "none", key |-> 0]

VARIABLES
    current,       \* _WatcherSignalGate.is_current(generation)
    everStale,     \* history: the generation was not current at some moment
    newestSource,  \* _SnapshotSourceGate._latest_source_key
    handoff,       \* the event a worker holds inside the handoff lock
    pending,       \* _pending and the head of _pending_cache_snapshots
    flushPending,  \* _flush_pending
    callbacks,     \* flush callbacks queued on the GUI event loop
    faultsLeft,    \* the faults the scheduler still has in store
    stranded,      \* history: pending kept without a flush after a failure
    planRetry,     \* _planning_retry_attempted
    applyRetry,    \* _apply_retry_attempted
    retained,      \* key of _retained_decode_failure, 0 for None
    lastApplied,   \* _last_applied_source_key
    lastReported,  \* _last_reported_failure_key
    flush,         \* progress of the flush that holds the queue's lock
    batch,         \* the batch that flush dequeued
    cacheHead,     \* the terminal clear heading its cache snapshots, or 0
    headDue,       \* planned steps still to apply: the head's ...
    todo,          \* ... and those of the other segments, by newest key
    machineKey,    \* newest key the state machine reflects, 0 after recovery
    cacheKey,      \* newest key submitted to the live cache, 0 after clear
    shown,         \* what the window's health row last reported
    attempts       \* history: times a step was given to the state machine

gateVars == <<current, everStale>>
enqueueVars == <<newestSource, handoff>>
queueVars == <<pending, flushPending, callbacks, faultsLeft, stranded>>
retryVars == <<planRetry, applyRetry>>
failureVars == <<retained, lastReported>>
flushVars == <<flush, batch, cacheHead, headDue, todo>>
effectVars == <<lastApplied, machineKey, cacheKey, shown, attempts>>
vars == <<gateVars, enqueueVars, queueVars, retryVars, failureVars, flushVars, effectVars>>

Health == [kind : {"none", "applied", "applyFailed", "decodeFailed"}, key : KeysOrNone]

FlagType ==
    /\ current \in BOOLEAN /\ everStale \in BOOLEAN
    /\ flushPending \in BOOLEAN /\ stranded \in BOOLEAN
    /\ planRetry \in BOOLEAN /\ applyRetry \in BOOLEAN
    /\ headDue \in BOOLEAN
EnqueueType == newestSource \in KeysOrNone /\ handoff \in Event
QueueType == pending \in Pending /\ callbacks \in Nat /\ faultsLeft \in 0..SchedulerFaults
FailureType == retained \in KeysOrNone /\ lastReported \in KeysOrNone
FlushType ==
    /\ flush \in {"idle", "planning", "applying", "applied", "raised", "finishing"}
    /\ batch \in Batch /\ cacheHead \in KeysOrNone /\ todo \in SUBSET Keys
EffectType ==
    /\ lastApplied \in KeysOrNone /\ machineKey \in KeysOrNone /\ cacheKey \in KeysOrNone
    /\ shown \in Health
    /\ attempts \in [Keys -> Nat]

TypeOK ==
    FlagType /\ EnqueueType /\ QueueType /\ FailureType /\ FlushType /\ EffectType

Init ==
    /\ current = TRUE /\ everStale = FALSE
    /\ newestSource = 0 /\ handoff = NoEvent
    /\ pending = NoPending /\ flushPending = FALSE /\ callbacks = 0
    /\ faultsLeft = SchedulerFaults /\ stranded = FALSE
    /\ planRetry = FALSE /\ applyRetry = FALSE
    /\ retained = 0 /\ lastReported = 0
    /\ flush = "idle" /\ batch = EmptyBatch /\ cacheHead = 0
    /\ headDue = FALSE /\ todo = {}
    /\ lastApplied = 0 /\ machineKey = 0 /\ cacheKey = 0
    /\ shown = [kind |-> "none", key |-> 0]
    /\ attempts = [k \in Keys |-> 0]

-----------------------------------------------------------------------------
(* Scheduling and retention. *)

\* mutant: the flush that is running is taken for one that is scheduled
ScheduleFlushUnlessFlushing ==
    IF flushPending \/ flush # "idle"
    THEN UNCHANGED <<flushPending, callbacks, faultsLeft, stranded>>
    ELSE /\ flushPending' = TRUE
         /\ callbacks' = callbacks + 1
         /\ stranded' = FALSE
         /\ UNCHANGED faultsLeft

\* _schedule_flush: one request at a time; a scheduler that raises leaves the
\* pending event where it is.
ScheduleFlush ==
    \/ /\ flushPending
       /\ UNCHANGED <<flushPending, callbacks, faultsLeft, stranded>>
    \/ /\ ~flushPending
       /\ flushPending' = TRUE
       /\ callbacks' = callbacks + 1
       /\ stranded' = FALSE
       /\ UNCHANGED faultsLeft
    \/ /\ ~flushPending
       /\ faultsLeft > 0
       /\ faultsLeft' = faultsLeft - 1
       /\ stranded' = TRUE
       /\ UNCHANGED <<flushPending, callbacks>>

\* _retain_failed_snapshot_apply: the whole original batch goes back, unless
\* the generation has been replaced.
RetainBatch ==
    pending' = IF current
               THEN [kind |-> "snapshot", batch |-> batch,
                     cacheHead |-> cacheHead, failure |-> 0]
               ELSE pending

\* mutant: coalescing keeps the oldest snapshot in place of the newest
AppendPendingKeepsOldest(b, k) ==
    {[b EXCEPT !.last = IF @ # 0 THEN @ ELSE k]}

\* append_pending_snapshot for a snapshot that is not a terminal clear:
\* compaction keeps any subset of the earlier ones, a producer conflict
\* replaces them all by a barrier.
AppendPending(b, k) ==
    {[b EXCEPT !.mid = kept, !.last = k] : kept \in SUBSET Retainable(b)}
      \cup {[head |-> "barrier", upto |-> LatestKey(b), mid |-> {}, last |-> k] :
               conflict \in {c \in {TRUE} : b # EmptyBatch}}

-----------------------------------------------------------------------------
(* Decoder workers. *)

\* A worker takes the handoff lock and finds its generation current.
BeginHandoff ==
    /\ handoff = NoEvent
    /\ current
    /\ handoff' \in [kind : {"snapshot", "clear"}, key : Keys]
                      \cup [kind : {"decode_failed"}, key : FailureKeys]
    /\ UNCHANGED <<gateVars, newestSource, queueVars, retryVars, failureVars,
                   flushVars, effectVars>>

\* The source gate refuses what is not newer than the newest accepted snapshot.
RejectHandoff ==
    /\ handoff.kind # "none"
    /\ handoff.key # 0
    /\ handoff.key <= newestSource
    /\ handoff' = NoEvent
    /\ UNCHANGED <<gateVars, newestSource, queueVars, retryVars, failureVars,
                   flushVars, effectVars>>

\* A batch that starts from nothing gets its apply retry back.
ApplyRetryAlwaysRenewed == FALSE    \* mutant
ApplyRetryAfterEnqueue == applyRetry /\ (pending.kind # "none" \/ flushPending)

\* enqueue_snapshot.  The flush that holds the lock must have ended.
EnqueueSnapshot ==
    /\ handoff.kind \in {"snapshot", "clear"}
    /\ handoff.key > newestSource
    /\ flush = "idle"
    /\ newestSource' = handoff.key
    /\ applyRetry' = ApplyRetryAfterEnqueue
    /\ \E next \in IF handoff.kind = "clear"
                   THEN {[head |-> "clear", upto |-> handoff.key, mid |-> {}, last |-> 0]}
                   ELSE AppendPending(pending.batch, handoff.key) :
          pending' = [kind |-> "snapshot", batch |-> next, failure |-> 0,
                      cacheHead |-> IF handoff.kind = "clear" THEN handoff.key
                                    ELSE pending.cacheHead]
    /\ planRetry' = FALSE
    /\ ScheduleFlush
    /\ handoff' = NoEvent
    /\ UNCHANGED <<gateVars, failureVars, flushVars, effectVars>>

\* The newest stamped failure is retained whatever is pending.
RetainedUnlessSnapshotPends(key) ==    \* mutant
    IF key # 0 /\ key >= retained /\ pending.kind # "snapshot" THEN key ELSE retained
RetainedAfter(key) == IF key # 0 /\ key >= retained THEN key ELSE retained

\* enqueue_decode_failed: the event only becomes pending when no snapshot is.
EnqueueDecodeFailed ==
    /\ handoff.kind = "decode_failed"
    /\ handoff.key = 0 \/ handoff.key > newestSource
    /\ flush = "idle"
    /\ retained' = RetainedAfter(handoff.key)
    /\ IF pending.kind = "snapshot"
       THEN UNCHANGED queueVars
       ELSE /\ pending' = [NoPending EXCEPT !.kind = "decode_failed",
                                            !.failure = handoff.key]
            /\ ScheduleFlush
    /\ handoff' = NoEvent
    /\ UNCHANGED <<gateVars, newestSource, retryVars, lastReported, flushVars, effectVars>>

-----------------------------------------------------------------------------
(* The flush, step by step, on the GUI thread. *)

\* The flush returns and releases the lock; its locals are gone.
EndFlush ==
    /\ flush' = "idle"
    /\ batch' = EmptyBatch /\ cacheHead' = 0
    /\ headDue' = FALSE /\ todo' = {}

Report(kind, key) ==
    /\ lastReported' = key
    /\ shown' = [kind |-> kind, key |-> key]

\* _flush_failure_event_locked: an unstamped failure is reported as it is; for
\* a stamped one the retained failure is, unless a snapshot overtook it.
FlushFailureEvent(key) ==
    \/ /\ key = 0
       /\ Report("decodeFailed", 0)
       /\ UNCHANGED retained
    \/ /\ key # 0 /\ retained # 0 /\ retained <= lastApplied
       /\ retained' = 0 /\ lastReported' = 0
       /\ UNCHANGED shown
    \/ /\ key # 0 /\ retained > lastApplied /\ retained # lastReported
       /\ Report("decodeFailed", retained)
       /\ UNCHANGED retained
    \/ /\ key # 0
       /\ retained = 0 \/ (retained > lastApplied /\ retained = lastReported)
       /\ UNCHANGED <<failureVars, shown>>

\* _flush_locked: dequeue the event, drop it if the generation was replaced,
\* else hand a snapshot batch to planning or report a failure event.
Dequeue ==
    /\ flush = "idle"
    /\ flushPending' = FALSE
    /\ pending' = NoPending
    /\ \/ /\ pending.kind = "none" \/ ~current
          /\ UNCHANGED <<flushVars, failureVars, shown>>
       \/ /\ pending.kind = "snapshot" /\ current
          /\ flush' = "planning"
          /\ batch' = pending.batch /\ cacheHead' = pending.cacheHead
          /\ UNCHANGED <<headDue, todo, failureVars, shown>>
       \/ /\ pending.kind = "decode_failed" /\ current
          /\ FlushFailureEvent(pending.failure)
          /\ UNCHANGED flushVars
    /\ UNCHANGED <<gateVars, enqueueVars, faultsLeft, stranded, retryVars,
                   lastApplied, machineKey, cacheKey, attempts>>

\* The event loop runs a scheduled flush.
RunCallback ==
    /\ callbacks > 0
    /\ callbacks' = callbacks - 1
    /\ Dequeue

\* Quiescing ingestion and draining at shutdown flush without a callback.
FlushDirectly ==
    /\ callbacks < MaxCallbacks
    /\ UNCHANGED callbacks
    /\ Dequeue

\* snapshot_application_plan succeeds: the head is a step of its own, and the
\* other snapshots are merged into segments that end in the last one.
PlanBatch ==
    /\ flush = "planning"
    /\ headDue' = (batch.head # "none")
    /\ \E ends \in SUBSET batch.mid : todo' = ends \cup ({batch.last} \ {0})
    /\ planRetry' = FALSE
    /\ flush' = "applying"
    /\ UNCHANGED <<gateVars, enqueueVars, queueVars, applyRetry, failureVars,
                   batch, cacheHead, effectVars>>

\* Planning raises: the batch is retained and planned once more.
PlanFails ==
    /\ PlanMayFail
    /\ flush = "planning"
    /\ RetainBatch
    /\ IF planRetry
       THEN stranded' = TRUE /\ UNCHANGED <<flushPending, callbacks, faultsLeft, planRetry>>
       ELSE planRetry' = TRUE /\ ScheduleFlush
    /\ EndFlush
    /\ UNCHANGED <<gateVars, enqueueVars, applyRetry, failureVars, effectVars>>

\* The step a flush applies next: the head, then the segments in key order.
IsNextStep(k) == IF headDue THEN k = batch.upto
                 ELSE k \in todo /\ \A other \in todo : k <= other

\* The source key of that step; the barrier has none.
StepSource(k) == IF headDue /\ batch.head = "barrier" THEN 0 ELSE k

CountAttempt(k) ==
    attempts' = IF StepSource(k) = 0 THEN attempts ELSE [attempts EXCEPT ![k] = @ + 1]

\* The generation check before a step is applied, and again before its effects
\* are published: a slot of a signal apply_snapshot emits may replace it.
StepIsCurrentAtStart == current \/ flush = "applied"    \* mutant
StepIsCurrent == current

\* _apply_plan_step up to the second generation check; apply_snapshot may raise
\* with the step partly applied.
ApplyStep(k) ==
    /\ flush = "applying"
    /\ StepIsCurrent
    /\ IsNextStep(k)
    /\ machineKey' = k
    /\ CountAttempt(k)
    /\ flush' \in {"applied"} \cup {raised \in {"raised"} : ApplyMayFail}
    /\ UNCHANGED <<gateVars, enqueueVars, queueVars, retryVars, failureVars, batch,
                   cacheHead, headDue, todo, lastApplied, cacheKey, shown>>

\* recover_snapshot_apply_failure and the clear of the live cache.
ResetMachineOnly == machineKey' = 0 /\ UNCHANGED cacheKey    \* mutant
ResetTransport == machineKey' = 0 /\ cacheKey' = 0

\* Its exception handler: machine and live cache are cleared and the failure is
\* reported even if the generation was replaced meanwhile; the whole batch is
\* retained for one more flush if it was not.
ApplyFails(k) ==
    /\ flush = "raised"
    /\ IsNextStep(k)
    /\ ResetTransport
    /\ Report("applyFailed", StepSource(k))
    /\ IF current /\ ~applyRetry
       THEN applyRetry' = TRUE /\ RetainBatch /\ ScheduleFlush
       ELSE UNCHANGED <<queueVars, applyRetry>>
    /\ EndFlush
    /\ UNCHANGED <<gateVars, enqueueVars, planRetry, retained, lastApplied, attempts>>

\* The cache after a step: the head submits the cached clear, the last segment
\* everything else that was received.
SubmittedWithFirstStepOnly(k) ==    \* mutant
    IF headDue /\ cacheHead # 0 THEN cacheHead
    ELSE IF batch.head = "none" /\ k = batch.last THEN k ELSE cacheKey
SubmittedAfter(k) ==
    IF headDue THEN IF cacheHead # 0 THEN cacheHead ELSE cacheKey
    ELSE IF k = batch.last THEN k ELSE cacheKey

\* The rest of _apply_plan_step.
SubmitStep(k) ==
    /\ flush = "applied"
    /\ StepIsCurrent
    /\ IsNextStep(k)
    /\ cacheKey' = SubmittedAfter(k)
    /\ shown' = [kind |-> "applied", key |-> StepSource(k)]
    /\ headDue' = FALSE
    /\ todo' = IF headDue THEN todo ELSE todo \ {k}
    /\ flush' = IF todo' = {} THEN "finishing" ELSE "applying"
    /\ UNCHANGED <<gateVars, enqueueVars, queueVars, retryVars, failureVars, batch,
                   cacheHead, lastApplied, machineKey, attempts>>

\* A replaced generation abandons the rest of the plan.
AbandonFlush ==
    /\ flush \in {"applying", "applied", "finishing"}
    /\ ~current
    /\ EndFlush
    /\ UNCHANGED <<gateVars, enqueueVars, queueVars, retryVars, failureVars, effectVars>>

\* mutant: a failure is not reported twice, even if a snapshot came between
SettleRetainedOnce ==
    \/ /\ retained > LatestKey(batch) /\ retained # lastReported
       /\ Report("decodeFailed", retained)
       /\ UNCHANGED retained
    \/ /\ retained # 0 /\ retained <= LatestKey(batch)
       /\ retained' = 0 /\ lastReported' = 0
       /\ UNCHANGED shown
    \/ /\ retained = 0 \/ (retained > LatestKey(batch) /\ retained = lastReported)
       /\ UNCHANGED <<failureVars, shown>>

\* mutant: whatever failure was retained is reported after the snapshot
SettleRetainedAlways ==
    \/ /\ retained # 0
       /\ Report("decodeFailed", retained)
       /\ UNCHANGED retained
    \/ /\ retained = 0
       /\ UNCHANGED <<failureVars, shown>>

\* A retained failure newer than the applied batch is reported again, since the
\* applied snapshot took its place on the health row; an older one is forgotten.
SettleRetained ==
    \/ /\ retained > LatestKey(batch)
       /\ Report("decodeFailed", retained)
       /\ UNCHANGED retained
    \/ /\ retained # 0 /\ retained <= LatestKey(batch)
       /\ retained' = 0 /\ lastReported' = 0
       /\ UNCHANGED shown
    \/ /\ retained = 0
       /\ UNCHANGED <<failureVars, shown>>

\* All steps applied: the end of _flush_snapshot_locked.
FinishFlush ==
    /\ flush = "finishing"
    /\ current
    /\ applyRetry' = FALSE
    /\ lastApplied' = IF LatestKey(batch) > lastApplied THEN LatestKey(batch) ELSE lastApplied
    /\ SettleRetained
    /\ EndFlush
    /\ UNCHANGED <<gateVars, enqueueVars, queueVars, planRetry,
                   machineKey, cacheKey, attempts>>

-----------------------------------------------------------------------------
\* The watcher is replaced, or a failed replacement restores its generation.
ChangeGeneration ==
    /\ current' = ~current
    /\ everStale' = TRUE
    /\ UNCHANGED <<enqueueVars, queueVars, retryVars, failureVars, flushVars, effectVars>>

Handoff == RejectHandoff \/ EnqueueSnapshot \/ EnqueueDecodeFailed
FlushProgress ==
    \/ PlanBatch \/ PlanFails \/ AbandonFlush \/ FinishFlush
    \/ \E k \in KeysOrNone : ApplyStep(k) \/ ApplyFails(k) \/ SubmitStep(k)

Next ==
    \/ BeginHandoff \/ Handoff
    \/ RunCallback \/ FlushDirectly \/ FlushProgress
    \/ ChangeGeneration

Spec == Init /\ [][Next]_vars

\* Workers finish their call, the event loop runs what is queued and a flush
\* runs to its end; nothing makes a screenshot arrive or a watcher be replaced.
Fairness ==
    /\ WF_vars(Handoff)
    /\ WF_vars(RunCallback)
    /\ WF_vars(FlushProgress)

FairSpec == Spec /\ Fairness

-----------------------------------------------------------------------------
(* Properties. *)

\* No lost wakeup: an event is pending without a queued flush only if the
\* scheduler raised or planning failed twice (_schedule_flush, _flush_locked),
\* and _flush_pending is never set without a callback that will clear it.
NoLostWakeup ==
    /\ pending.kind # "none" /\ flush = "idle" => flushPending \/ stranded
    /\ flushPending => callbacks > 0

\* The shape of a batch and of the clear heading its cache snapshots: no key is
\* newer than the newest accepted source, the head is older than the rest, the
\* last snapshot is the newest, and a clear heads the cache snapshots as well.
BatchShape(b, clear, newest) ==
    /\ b.head = "none" => b.upto = 0 /\ clear = 0
    /\ b.head = "none" /\ b.last = 0 => b = EmptyBatch
    /\ b.head = "clear" => clear = b.upto
    /\ b.head = "barrier" => b.last # 0
    /\ clear <= b.upto /\ b.upto <= newest
    /\ \A k \in Retainable(b) : b.upto <= k /\ k <= b.last /\ k <= newest

\* Nothing in the batch is older than what the live cache holds already.
CacheBehind(b, cached) ==
    /\ b.head # "none" => cached <= b.upto
    /\ \A k \in Retainable(b) : cached <= k

PendingInOrder ==
    /\ BatchShape(pending.batch, pending.cacheHead, newestSource)
    /\ CacheBehind(pending.batch, cacheKey)
    /\ pending.kind = "snapshot" <=> pending.batch # EmptyBatch
    /\ flush # "idle" => pending = NoPending

FlushInOrder ==
    /\ BatchShape(batch, cacheHead, newestSource)
    /\ flush = "planning" => batch # EmptyBatch /\ CacheBehind(batch, cacheKey)
    /\ flush \in {"applying", "applied", "raised"} =>
          /\ headDue => batch.head # "none" /\ cacheKey <= batch.upto
          /\ todo \subseteq Retainable(batch)
          /\ \A k \in todo : cacheKey <= k
          /\ batch.last # 0 => batch.last \in todo
          /\ headDue \/ todo # {}

CacheInOrder ==
    /\ cacheKey <= newestSource
    /\ flush = "applied" => \A k \in KeysOrNone : IsNextStep(k) => machineKey = k
    /\ flush \in {"planning", "finishing"} /\ ~everStale => cacheKey = machineKey

\* The inductive invariant behind the cache properties: pending and dequeued
\* batches keep their shape, a running flush has taken whatever was pending,
\* and the steps it still has to apply are ahead of the live cache.
QueueInvariant ==
    /\ ~everStale => current
    /\ PendingInOrder /\ FlushInOrder /\ CacheInOrder

\* The live cache follows the state machine: it never gets ahead of what has been
\* applied, not even between the steps of a plan or after a failed one
\* (_apply_plan_step), and between flushes of a generation that was never replaced
\* it has received everything the machine reflects (step_cache_snapshots).
CacheNeverAheadOfMachine == cacheKey <= machineKey
CacheCaughtUp == flush = "idle" /\ ~everStale => cacheKey = machineKey
CacheFollowsMachine == CacheNeverAheadOfMachine /\ CacheCaughtUp

\* Failures are handled once and in order, however they, retries and newer snapshots
\* interleave: one snapshot is offered to the state machine at most twice
\* (_apply_retry_attempted), and at rest the health row does not say "applied" while
\* a newer decode failure is known (_retained_decode_failure).
FailuresInOrder ==
    /\ \A k \in Keys : attempts[k] <= 2
    /\ (/\ flush = "idle" /\ pending.kind = "none" /\ ~everStale
        /\ retained > lastApplied)
          => shown.kind # "applied"

\* The inductive invariants behind it.  The snapshots of a batch with a source of
\* their own are new when it is first planned and were offered once when it is
\* retried; those that a flush has still to offer were offered once less than those
\* that it has offered.
Sources(b) == Retainable(b) \cup (IF b.head = "clear" THEN {b.upto} \ {0} ELSE {})
HeadFirst(b) == \A k \in Retainable(b) : b.upto < k
Remaining ==
    {k \in Sources(batch) :
        \/ flush = "planning"
        \/ flush = "applying" /\ (k \in todo \/ (headDue /\ k = batch.upto))
        \/ /\ flush \in {"applied", "raised"} /\ k \in todo
           /\ headDue \/ \E earlier \in todo : earlier < k}
Offered(before) == before + (IF applyRetry THEN 1 ELSE 0)
AttemptsInvariant ==
    /\ \A k \in Keys : attempts[k] <= 2 /\ (newestSource < k => attempts[k] = 0)
    /\ HeadFirst(pending.batch) /\ HeadFirst(batch) /\ (flush = "idle" => batch = EmptyBatch)
    /\ \A k \in Sources(pending.batch) : attempts[k] <= Offered(0)
    /\ \A k \in Sources(batch) : attempts[k] <= Offered(1)
    /\ \A k \in Remaining : attempts[k] <= Offered(0)

\* A failure that was reported is newer than every snapshot only while it is retained,
\* and it has replaced "applied" on the health row.
ShownInvariant ==
    /\ lastReported <= newestSource \/ lastReported <= retained
    /\ ~everStale /\ retained > lastApplied =>
          /\ flush = "idle" /\ pending.kind = "none" => shown.kind # "applied"
          /\ flush \in {"idle", "planning"} /\ retained = lastReported
                => shown.kind # "applied"

\* A stamped decode failure is shown only if no snapshot at least as new has
\* been applied (_failure_is_newer_than_snapshot, _flush_failure_event_locked).
ReportedFailureIsNewest ==
    [][shown' # shown /\ shown'.kind = "decodeFailed" /\ shown'.key # 0
         => shown'.key > lastApplied']_vars

\* Once its generation is replaced, even in the middle of a flush, a queue
\* changes neither the machine, the live cache nor the health row, but for the
\* handler of a step that raised, which clears what the step left behind.
StaleFlushHasNoEffect ==
    [][~current => \/ UNCHANGED <<machineKey, cacheKey, shown, lastApplied>>
                   \/ flush = "raised" /\ machineKey' = 0 /\ cacheKey' = 0]_vars

\* What a worker hands over and the source gate takes is applied, or overtaken
\* by a newer snapshot, or its failure shows, unless the watcher is replaced or
\* the flush could not be scheduled or planned.
HandedSnapshotIsApplied ==
    \A k \in Keys :
        handoff.kind \in {"snapshot", "clear"} /\ handoff.key = k /\ k > newestSource
          ~> lastApplied >= k \/ shown.kind = "applyFailed" \/ everStale \/ stranded

\* A stamped failure handed over reaches the health row, or one as new or without
\* a stamp does, unless a snapshot at least as new is accepted, under the same
\* reservations.
HandedFailureIsShown ==
    \A k \in Keys :
        handoff.kind = "decode_failed" /\ handoff.key = k
          ~> \/ shown.kind = "decodeFailed" /\ (shown.key >= k \/ shown.key = 0)
             \/ lastApplied >= k \/ newestSource >= k
             \/ shown.kind = "applyFailed" \/ everStale \/ stranded

\* Nothing that is handed over is passed over in silence.
HandedEventIsAnswered == HandedSnapshotIsApplied /\ HandedFailureIsShown

\* The except clause of _schedule_flush says "retain pending state for the
\* next event": once the scheduler works again, the next event the queue takes
\* leaves nothing pending without a flush.
NextEventReschedules ==
    [][faultsLeft = 0 /\ (EnqueueSnapshot \/ EnqueueDecodeFailed)
         => pending'.kind = "none" \/ flushPending']_vars
=============================================================================
