---------------------------- MODULE WatcherHandoff ----------------------------
(***************************************************************************)
(* Replacing the screenshot watcher when the user selects a folder         *)
(* (__main__.py: _replace_screenshots_runtime, _replace_screenshot_watcher,*)
(* _WatcherSignalGate, _PreparedWatcherSignalScheduler).  The GUI thread   *)
(* starts a new watcher, commits it and retires the old one, while the     *)
(* threads of both decode and hand over; what the new one hands over early *)
(* waits until the commit.  Each watcher has an apply queue, reduced here  *)
(* to one snapshot and one scheduled callback (SnapshotApplyQueue has the  *)
(* rest).  Watchers are numbered by their replacement; 0 is "none".        *)
(***************************************************************************)
EXTENDS Integers, FiniteSets

CONSTANTS Folders, MaxWatchers, MaxSnapshots, MaxFailures

WatcherAssumption == MaxWatchers \in Nat

Watchers == 1..MaxWatchers
None == 0

VARIABLES
    made,                    \* watchers made so far
    folder, generation,      \* per watcher its folder and its generation
    gate, pendingGate,       \* _WatcherSignalGate: _generation, _pending_generation
    scheduler, buffered,     \* per watcher its _state; a callback is in _pending
    stopped,                 \* watchers whose _stopped is set
    emitting, emitted,       \* watchers with a thread past its last look at _stopped
    inbox, scheduled,        \* per watcher: its queue holds a snapshot, a callback
    posted,                  \* callbacks in the GUI thread's event queue
    pc, current,             \* where the GUI thread is; the watcher in charge
    shown,                   \* the folder that what is shown comes from
    unhooked,                \* history: the source hook of the current watcher failed
    uncommitted,             \* history: some commit was rolled back
    failures

gates == <<gate, pendingGate>>
queues == <<inbox, scheduled, posted>>
threads == <<stopped, emitting, emitted>>
history == <<unhooked, uncommitted, failures>>
vars == <<made, folder, generation, gates, scheduler, buffered, threads, queues, pc, current,
          shown, history>>

Init ==
    /\ made = 0 /\ folder = [w \in Watchers |-> None] /\ generation = [w \in Watchers |-> None]
    /\ gate = 0 /\ pendingGate = None
    /\ scheduler = [w \in Watchers |-> "prepared"] /\ buffered = {}
    /\ stopped = {} /\ emitting = {} /\ emitted = [w \in Watchers |-> 0]
    /\ inbox = {} /\ scheduled = {} /\ posted = {}
    /\ pc = "idle" /\ current = None /\ shown = None
    /\ unhooked = FALSE /\ uncommitted = FALSE /\ failures = 0

IsCurrent(w) == generation[w] \in {gate} \cup ({pendingGate} \ {None})

-----------------------------------------------------------------------------
(* The watchers' threads.                                                   *)

Started(w) == w <= made /\ w \notin stopped

\* _emit_snapshot looks at _stopped.
Emit(w) ==
    /\ Started(w) /\ w \notin emitting /\ emitted[w] < MaxSnapshots
    /\ emitting' = emitting \cup {w} /\ emitted' = [emitted EXCEPT ![w] = @ + 1]
    /\ UNCHANGED <<made, folder, generation, gates, scheduler, buffered, stopped, queues, pc,
                   current, shown, history>>

\* _snapshot_if_current, enqueue_snapshot and schedule: a prepared scheduler keeps
\* the callback, a cancelled one drops it.
HandOver(w) ==
    /\ w \in emitting /\ emitting' = emitting \ {w}
    /\ IF ~IsCurrent(w) THEN UNCHANGED <<queues, buffered>>
       ELSE /\ inbox' = inbox \cup {w} /\ scheduled' = scheduled \cup {w}
            /\ buffered' = IF w \notin scheduled /\ scheduler[w] = "prepared"
                           THEN buffered \cup {w} ELSE buffered
            /\ posted' = IF w \notin scheduled /\ scheduler[w] = "committed"
                         THEN posted \cup {w} ELSE posted
    /\ UNCHANGED <<made, folder, generation, gates, scheduler, stopped, emitted, pc, current,
                   shown, history>>

-----------------------------------------------------------------------------
(* The GUI thread.                                                          *)

\* A callback: flush applies what is queued, or drops it if its generation is over.
Flush(w) ==
    /\ pc \in {"idle", "ended"} /\ w \in posted
    /\ posted' = posted \ {w} /\ scheduled' = scheduled \ {w} /\ inbox' = inbox \ {w}
    /\ shown' = IF w \in inbox /\ IsCurrent(w) THEN folder[w] ELSE shown
    /\ UNCHANGED <<made, folder, generation, gates, scheduler, buffered, threads, pc, current, history>>

\* prepare_next, the queue of the new watcher, and its start.
Replace(f) ==
    /\ pc = "idle" /\ made < MaxWatchers
    /\ made' = made + 1
    /\ folder' = [folder EXCEPT ![made + 1] = f]
    /\ pendingGate' = gate + 1
    /\ generation' = [generation EXCEPT ![made + 1] = gate + 1]
    /\ pc' = "starting"
    /\ UNCHANGED <<gate, scheduler, buffered, threads, queues, current, shown, history>>

\* restore, the end of the watcher that failed; nothing of it is kept.
GiveUpAtGate(w, state) ==    \* mutant
    /\ failures < MaxFailures /\ failures' = failures + 1
    /\ pendingGate' = None /\ UNCHANGED gate
    /\ stopped' = stopped \cup {w}
    /\ scheduler' = [scheduler EXCEPT ![w] = state] /\ buffered' = buffered \ {w}
    /\ pc' = "idle"
GiveUp(w, state) ==
    /\ failures < MaxFailures /\ failures' = failures + 1
    /\ gate' = generation[w] - 1 /\ pendingGate' = None
    /\ stopped' = stopped \cup {w}
    /\ scheduler' = [scheduler EXCEPT ![w] = state] /\ buffered' = buffered \ {w}
    /\ pc' = "idle"

StartFails ==
    /\ pc = "starting" /\ GiveUp(made, "cancelled")
    /\ UNCHANGED <<made, folder, generation, emitting, emitted, queues, current, shown,
                   unhooked, uncommitted>>

Starts ==
    /\ pc = "starting"
    /\ gate' = generation[made] /\ pendingGate' = None
    /\ pc' = "committing"
    /\ UNCHANGED <<made, folder, generation, scheduler, buffered, threads, queues, current,
                   shown, history>>

\* _PreparedWatcherSignalScheduler.commit: what was kept is scheduled.
NothingKept == {}    \* mutant
Kept == buffered \cap {made}
Commit ==
    /\ pc = "committing" /\ pc' = "hook"
    /\ scheduler' = [scheduler EXCEPT ![made] = "committed"]
    /\ posted' = posted \cup Kept /\ buffered' = buffered \ {made}
    /\ UNCHANGED <<made, folder, generation, gates, threads, inbox, scheduled, current, shown, history>>

\* It raises; the generation before is put back.
CommitFails ==
    /\ pc = "committing" /\ made \in buffered
    /\ GiveUp(made, "committed") /\ uncommitted' = TRUE
    /\ UNCHANGED <<made, folder, generation, emitting, emitted, queues, current, shown, unhooked>>

\* _commit_runtime_source: what is shown of another folder is withdrawn. A failure
\* is logged, the watcher stays.
KeepShown == shown    \* mutant
Withdrawn == IF shown # folder[made] THEN None ELSE shown
Hook ==
    /\ pc = "hook" /\ pc' = "retire"
    /\ \/ shown' = Withdrawn /\ unhooked' = FALSE /\ UNCHANGED failures
       \/ /\ failures < MaxFailures /\ failures' = failures + 1
          /\ unhooked' = TRUE /\ UNCHANGED shown
    /\ UNCHANGED <<made, folder, generation, gates, scheduler, buffered, threads, queues, current,
                   uncommitted>>

Retire ==
    /\ pc = "retire" /\ pc' = "idle"
    /\ current' = made
    /\ stopped' = stopped \cup ({current} \ {None})
    /\ UNCHANGED <<made, folder, generation, gates, scheduler, buffered, emitting, emitted, queues,
                   shown, history>>

\* _quiesce_screenshot_ingestion: stop, flush, invalidate.
Quiesce ==
    /\ pc = "idle" /\ pc' = "ended"
    /\ stopped' = stopped \cup ({current} \ {None})
    /\ inbox' = inbox \ {current} /\ scheduled' = scheduled \ {current}
    /\ shown' = IF current \in inbox THEN folder[current] ELSE shown
    /\ gate' = gate + 1 /\ pendingGate' = None
    /\ UNCHANGED <<made, folder, generation, scheduler, buffered, emitting, emitted, posted,
                   current, history>>

Next ==
    \/ \E w \in Watchers : Emit(w) \/ HandOver(w) \/ Flush(w)
    \/ \E f \in Folders : Replace(f)
    \/ Starts \/ StartFails \/ Commit \/ CommitFails \/ Hook \/ Retire
    \/ Quiesce

Spec == Init /\ [][Next]_vars

-----------------------------------------------------------------------------
(* Properties. *)

\* What is shown comes from the folder of the watcher in charge, although watchers
\* that were replaced, or that failed to start, still hand over (is_current); unless
\* the withdrawal failed, or a commit did: its generation is used again, and its
\* watcher may then pass for the next one's.
ShownIsOfCurrentFolder ==
    pc \in {"idle", "ended"} /\ ~unhooked /\ ~uncommitted =>
        shown = None \/ (current # None /\ shown = folder[current])

\* Between replacements the watcher in charge runs and its generation is current,
\* also when a replacement failed half-way: the application is never without the one
\* and the other.
CurrentFeeds ==
    pc = "idle" /\ current # None =>
        current \notin stopped /\ generation[current] = gate /\ pendingGate = None

\* A snapshot the watcher in charge handed over is applied: there is a callback for
\* it, whether it came before, during or after the commit.
NothingStranded ==
    pc = "idle" /\ current \in inbox => current \in posted

-----------------------------------------------------------------------------
(* Why: an inductive invariant. *)

InChargeNext == pc \in {"hook", "retire"}       \* the new watcher is committed
Owner == IF InChargeNext THEN made ELSE current
Base == IF current = None THEN 0 ELSE generation[current]
InProgress == pc \in {"starting", "committing", "hook", "retire"}

TypeOK ==
    /\ made \in 0..MaxWatchers /\ current \in 0..made
    /\ folder \in [Watchers -> Folders \cup {None}] /\ generation \in [Watchers -> Nat]
    /\ gate \in Nat /\ pendingGate \in Nat
    /\ scheduler \in [Watchers -> {"prepared", "committed", "cancelled"}]
    /\ buffered \subseteq 1..made /\ stopped \subseteq 1..made /\ emitting \subseteq 1..made
    /\ inbox \subseteq scheduled /\ scheduled \subseteq 1..made /\ posted \subseteq 1..made
    /\ pc \in {"idle", "starting", "committing", "hook", "retire", "ended"}
    /\ emitted \in [Watchers -> Nat]

\* The generations follow each other, and the gate follows them.
GateInvariant ==
    /\ gate = IF pc \in {"idle", "starting"} THEN Base ELSE Base + 1
    /\ pendingGate = IF pc = "starting" THEN gate + 1 ELSE None
    /\ InProgress => generation[made] = Base + 1 /\ current < made /\ made \notin stopped

\* A watcher delivers once it was committed, and not before.
SchedulerInvariant ==
    /\ current # None => scheduler[current] = "committed"
    /\ InChargeNext => scheduler[made] = "committed"
    /\ pc \in {"starting", "committing"} => scheduler[made] = "prepared"
    /\ \A w \in Watchers : w > made => scheduler[w] = "prepared"
    /\ \A w \in posted : scheduler[w] = "committed"

\* The watchers committed before are of older generations.
OlderInvariant ==
    ~uncommitted =>
        \A w \in Watchers : scheduler[w] = "committed" /\ w # Owner =>
            Owner # None /\ generation[w] < generation[Owner]

ShownInvariant ==
    ~unhooked /\ ~uncommitted =>
        LET f == IF pc = "retire" THEN made ELSE current
        IN  shown = None \/ (f # None /\ shown = folder[f])

\* What was handed over has its callback, in the buffer until the commit.
CallbackInvariant ==
    /\ pc # "ended" => current \notin stopped /\ (current \in scheduled => current \in posted)
    /\ pc \in {"starting", "committing"} /\ made \in scheduled => made \in buffered
    /\ InChargeNext /\ made \in scheduled => made \in posted

HandoffInvariant ==
    /\ TypeOK /\ GateInvariant /\ SchedulerInvariant /\ OlderInvariant /\ ShownInvariant
    /\ CallbackInvariant
=============================================================================
