----------------------------- MODULE StartupShortcut -----------------------------
(***************************************************************************)
(* The shortcut that starts the program's helper when the user signs in     *)
(* (__main__.py: _WowSyncStartupConfigurator; wow_lifecycle.py:             *)
(* configure_wow_sync_startup, enable_wow_sync_startup_approval).           *)
(*                                                                         *)
(* Every request gets a generation and a thread; one thread at a time       *)
(* works, and one that was overtaken does nothing more.  Windows keeps its  *)
(* own approval of the shortcut, which the user may take back in Windows    *)
(* and which only an explicit request restores.  close brings the shortcut  *)
(* to what was asked last, as far as its deadline allows.                   *)
(***************************************************************************)
EXTENDS Naturals

CONSTANTS
    MaxRequests,    \* bound: requests
    MaxFaults,      \* bound: operations that fail or come after the deadline
    MaxRefusals     \* bound: times the user takes the approval back in Windows

RequestsAssumption == MaxRequests \in Nat

VARIABLES
    shortcut, approved,     \* Windows: the file is there; its start is approved
    refusals,
    wanted,                 \* generation, and what was asked last
    applied,                \* what the program believes the shortcut is
    workers, holder,        \* threads, and the one with the work lock
    notices,                \* callbacks on their way to the GUI thread
    told,                   \* the last answer the user was shown
    closing,                \* the shutdown
    faults

vars == <<shortcut, approved, refusals, wanted, applied, workers, holder, notices, told,
          closing, faults>>

-----------------------------------------------------------------------------

Unknown == "unknown"
Nobody == 0
Closer == MaxRequests + 2      \* the thread of close
Nothing == [gen |-> 0, ok |-> TRUE]

Fails == faults < MaxFaults /\ faults' = faults + 1
Works == UNCHANGED faults

Init ==
    /\ shortcut \in {"on", "off"} /\ approved \in BOOLEAN /\ refusals = 0
    /\ wanted = [gen |-> 0, on |-> Unknown, restore |-> FALSE]
    /\ applied = Unknown
    /\ workers = {} /\ holder = Nobody
    /\ notices = {} /\ told = Nothing
    /\ closing = [stage |-> "open", result |-> "none"]
    /\ faults = 0

ShuttingDown == closing.stage # "open"
CurrentAlways(gen) == ~ShuttingDown    \* mutant
Current(gen) == ~ShuttingDown /\ wanted.gen = gen

\* request: a restored approval is part of an explicit request to turn the start on. The
\* request counts even when its thread cannot be started.
Request(on, restore) ==
    LET gen == wanted.gen + 1
    IN /\ ~ShuttingDown /\ gen <= MaxRequests
       /\ wanted' = [gen |-> gen, on |-> on, restore |-> on = "on" /\ restore]
       /\ \/ /\ workers' = workers \cup {[gen |-> gen, on |-> on, restore |-> wanted'.restore,
                                         stage |-> "waiting"]}
             /\ Works /\ UNCHANGED told
          \/ /\ told' = [gen |-> gen, ok |-> FALSE]
             /\ Fails /\ UNCHANGED workers
       /\ UNCHANGED <<shortcut, approved, refusals, applied, holder, notices, closing>>

\* The user takes the approval back in the settings of Windows.
Refuse ==
    /\ approved /\ refusals < MaxRefusals
    /\ approved' = FALSE /\ refusals' = refusals + 1
    /\ UNCHANGED <<shortcut, wanted, applied, workers, holder, notices, told, closing, faults>>

-----------------------------------------------------------------------------
(* A thread: _apply_generation                                              *)

Become(w, stage) == workers' = (workers \ {w}) \cup {[w EXCEPT !.stage = stage]}
Leave(w) == workers' = workers \ {w} /\ holder' = Nobody

NeedsConfigure(w) == applied # w.on \/ w.restore

Begin(w) ==
    /\ w.stage = "waiting" /\ holder = Nobody
    /\ IF Current(w.gen)
       THEN holder' = w.gen /\ Become(w, IF NeedsConfigure(w) THEN "configure" ELSE "record")
       ELSE Leave(w)
    /\ UNCHANGED <<shortcut, approved, refusals, wanted, applied, notices, told, closing, faults>>

\* configure_wow_sync_startup: the file is replaced or removed, or stays as it was.
Configure(w) ==
    /\ w.stage = "configure"
    /\ \/ shortcut' = w.on /\ Become(w, "record") /\ Works
       \/ UNCHANGED shortcut /\ Become(w, "failed") /\ Fails
    /\ UNCHANGED <<approved, refusals, wanted, applied, holder, notices, told, closing>>

Notify(w, ok) == notices' = notices \cup {[gen |-> w.gen, ok |-> ok]}

\* enable_wow_sync_startup_approval refuses a shortcut that is not there.
Approve == approved' = TRUE /\ shortcut = "on"

\* What was applied is noted; the approval follows only if no other request came.
Record(w) ==
    /\ w.stage = "record" /\ applied' = w.on
    /\ \/ ~Current(w.gen) /\ Leave(w) /\ Works /\ UNCHANGED <<approved, wanted, notices>>
       \/ /\ Current(w.gen) /\ ~w.restore
          /\ Notify(w, TRUE) /\ Leave(w) /\ Works /\ UNCHANGED <<approved, wanted>>
       \/ /\ Current(w.gen) /\ w.restore /\ Approve
          /\ wanted' = [wanted EXCEPT !.restore = FALSE]
          /\ Notify(w, TRUE) /\ Leave(w) /\ Works
       \/ /\ Current(w.gen) /\ w.restore /\ Become(w, "failed") /\ Fails
          /\ UNCHANGED <<approved, wanted, notices, holder>>
    /\ UNCHANGED <<shortcut, refusals, told, closing>>

Failed(w) ==
    /\ w.stage = "failed" /\ Leave(w)
    /\ IF Current(w.gen) THEN Notify(w, FALSE) ELSE UNCHANGED notices
    /\ UNCHANGED <<shortcut, approved, refusals, wanted, applied, told, closing, faults>>

\* The callback runs in the GUI thread, if it still is the answer to the last request.
Deliver ==
    \E n \in notices :
        /\ notices' = notices \ {n}
        /\ told' = IF Current(n.gen) THEN n ELSE told
        /\ UNCHANGED <<shortcut, approved, refusals, wanted, applied, workers, holder, closing,
                       faults>>

-----------------------------------------------------------------------------
(* close *)

NeedsReconciliationIgnoresThreads ==    \* mutant
    wanted.on # Unknown /\ (applied # wanted.on \/ wanted.restore)
NeedsReconciliation ==
    wanted.on # Unknown /\ (workers # {} \/ applied # wanted.on \/ wanted.restore)

Close ==
    /\ ~ShuttingDown
    /\ wanted' = [wanted EXCEPT !.gen = @ + 1]
    /\ closing' = IF NeedsReconciliation THEN [stage |-> "reconcile", result |-> "none"]
                  ELSE [stage |-> "closed", result |-> "ok"]
    /\ UNCHANGED <<shortcut, approved, refusals, applied, workers, holder, notices, told, faults>>

\* _reconcile_shutdown takes the work lock, or gives up at the deadline.
Reconcile ==
    /\ closing.stage = "reconcile" /\ holder = Nobody
    /\ IF applied = wanted.on /\ ~wanted.restore
       THEN closing' = [closing EXCEPT !.stage = "done"] /\ UNCHANGED holder
       ELSE closing' = [closing EXCEPT !.stage = "configure"] /\ holder' = Closer
    /\ UNCHANGED <<shortcut, approved, refusals, wanted, applied, workers, notices, told, faults>>

ReconcileConfigure ==
    /\ closing.stage = "configure"
    /\ \/ /\ shortcut' = wanted.on /\ applied' = wanted.on
          /\ closing' = [closing EXCEPT !.stage = "approve"] /\ Works /\ UNCHANGED holder
       \/ /\ closing' = [stage |-> "done",
                         result |-> IF closing.result = "none" THEN "error" ELSE closing.result]
          /\ holder' = Nobody /\ Fails /\ UNCHANGED <<shortcut, applied>>
    /\ UNCHANGED <<approved, refusals, wanted, workers, notices, told>>

ReconcileApproval ==
    /\ closing.stage = "approve" /\ holder' = Nobody
    /\ \/ /\ wanted.on = "on" /\ wanted.restore /\ closing.result # "timeout" /\ Approve /\ Works
          /\ wanted' = [wanted EXCEPT !.restore = FALSE]
          /\ closing' = [closing EXCEPT !.stage = "done"]
       \/ /\ ~(wanted.on = "on" /\ wanted.restore) /\ Works /\ UNCHANGED approved
          /\ wanted' = [wanted EXCEPT !.restore = FALSE]
          /\ closing' = [closing EXCEPT !.stage = "done"]
       \/ /\ wanted.on = "on" /\ wanted.restore /\ closing.result = "timeout" /\ Works
          /\ closing' = [closing EXCEPT !.stage = "done"] /\ UNCHANGED <<approved, wanted>>
       \/ /\ wanted.on = "on" /\ wanted.restore /\ closing.result # "timeout" /\ Fails
          /\ UNCHANGED <<approved, wanted>>
          /\ closing' = [stage |-> "done",
                         result |-> IF closing.result = "none" THEN "error" ELSE closing.result]
    /\ UNCHANGED <<shortcut, refusals, applied, workers, notices, told>>

\* The deadline passes while the thread of close still waits or works: close returns an
\* error and the thread, a daemon, goes on.
DeadlinePasses ==
    /\ closing.stage \in {"reconcile", "configure", "approve"} /\ closing.result = "none"
    /\ closing' = [closing EXCEPT !.result = "timeout"]
    /\ Fails
    /\ UNCHANGED <<shortcut, approved, refusals, wanted, applied, workers, holder, notices, told>>

\* Waiting for the lock is given up.
GivesUp ==
    /\ closing.stage = "reconcile" /\ closing.result = "timeout"
    /\ closing' = [closing EXCEPT !.stage = "closed"]
    /\ UNCHANGED <<shortcut, approved, refusals, wanted, applied, workers, holder, notices, told,
                   faults>>

\* The thread has ended: what close answers is what was reached.
Reached == applied = wanted.on /\ ~wanted.restore
CloseReturns ==
    /\ closing.stage = "done"
    /\ closing' = [stage |-> "closed",
                   result |-> IF closing.result # "none" THEN closing.result
                              ELSE IF Reached THEN "ok" ELSE "timeout"]
    /\ UNCHANGED <<shortcut, approved, refusals, wanted, applied, workers, holder, notices, told,
                   faults>>

-----------------------------------------------------------------------------

Work == \E w \in workers : Begin(w) \/ Configure(w) \/ Record(w) \/ Failed(w)
Next ==
    \/ \E on \in {"on", "off"}, restore \in BOOLEAN : Request(on, restore)
    \/ Refuse \/ Work \/ Deliver
    \/ Close \/ Reconcile \/ ReconcileConfigure \/ ReconcileApproval
    \/ DeadlinePasses \/ GivesUp \/ CloseReturns

Spec == Init /\ [][Next]_vars

-----------------------------------------------------------------------------
(* Properties *)

\* When the user was told that the last request succeeded, and when close returns no error,
\* the shortcut is what was asked last, and no thread of an earlier request can change it
\* any more.
AnswersAreTrue ==
    /\ told.ok /\ told.gen = wanted.gen /\ told.gen > 0 => shortcut = wanted.on
    /\ closing.result = "ok" /\ closing.stage = "closed" /\ wanted.on # Unknown =>
            /\ shortcut = wanted.on
            /\ \A w \in workers : w.stage \in {"waiting", "record", "failed"}

\* The approval the user took back in Windows is restored only while the last thing asked
\* is to turn the start on with its approval: never for a request that was overtaken.
ApprovesOnRequest ==
    ~approved /\ approved' => wanted.on = "on" /\ wanted.restore
-----------------------------------------------------------------------------
(* Why: an inductive invariant. *)

AtWork(w) == w.stage # "waiting"
Quiet == \A w \in workers : ~AtWork(w)

\* Every request has its own thread, and the one at work holds the lock.
ThreadInvariant ==
    /\ wanted \in [gen : Nat, on : {Unknown, "on", "off"}, restore : BOOLEAN]
    /\ workers \subseteq
          [gen : 1..wanted.gen, on : {"on", "off"}, restore : BOOLEAN,
           stage : {"waiting", "configure", "record", "failed"}]
    /\ \A v, w \in workers : v.gen = w.gen => v = w
    /\ \A w \in workers : w.gen <= MaxRequests /\ (AtWork(w) => holder = w.gen)

\* The thread of the last request carries what is wanted.
CurrentInvariant ==
    \A w \in workers : Current(w.gen) => w.on = wanted.on /\ w.restore = wanted.restore

\* What the program believes is so, but between a thread's two steps.
BeliefInvariant ==
    /\ \A w \in workers : w.stage = "record" => shortcut = w.on
    /\ applied \in {Unknown, shortcut} \/ \E w \in workers : w.stage = "record"

\* After a good answer nobody changes the shortcut until the next request.
Good(n) == n.ok /\ n.gen = wanted.gen /\ n.gen > 0
AnswerInvariant ==
    /\ told.gen \in 0..wanted.gen /\ \A n \in notices : n.gen \in 1..wanted.gen
    /\ \A n \in notices \cup {told} : Good(n) =>
          /\ ~ShuttingDown /\ shortcut = wanted.on
          /\ \A w \in workers : ~AtWork(w) /\ w.gen # wanted.gen

\* The thread of close works alone, and later threads find themselves overtaken.
CloseInvariant ==
    /\ wanted.on = Unknown => workers = {}
    /\ closing \in [stage : {"open", "reconcile", "configure", "approve", "done", "closed"},
                    result : {"none", "ok", "error", "timeout"}]
    /\ closing.stage \in {"configure", "approve"} => holder = Closer
    /\ closing.stage \in {"configure", "approve", "done"} \/ closing.result = "ok" => Quiet
    /\ closing.result = "ok" =>
          closing.stage = "closed" /\ (wanted.on = Unknown \/ shortcut = wanted.on)

ShortcutInvariant ==
    /\ ThreadInvariant /\ CurrentInvariant /\ BeliefInvariant /\ AnswerInvariant
    /\ CloseInvariant
=============================================================================
