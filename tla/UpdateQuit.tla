------------------------------- MODULE UpdateQuit -------------------------------
(***************************************************************************)
(* An update of the program while the user, the installer and the game may  *)
(* ask the program to quit: the gate that blocks quitting, the attempt that *)
(* downloads and starts the installer on a thread, its cancellation, the    *)
(* completion that comes back to the GUI thread, and the timer that         *)
(* recovers when the installer does not end the program (__main__.py:       *)
(* _UpdateQuitGate, _UpdateHandoffRecoveryController, _check_updates,        *)
(* _handle_update_completed; updater.py: UpdateDownloadControl;              *)
(* app_bootstrap.py: make_quit_pipeline).                                    *)
(***************************************************************************)
EXTENDS Naturals

CONSTANTS
    MaxAttempts,    \* bound: updates the user starts
    MaxChecks       \* bound: silent checks for a new release

BoundAssumption == MaxAttempts \in Nat

VARIABLES
    updating, handoff, attempt,     \* _UpdateQuitGate: _update_in_progress,
                                    \* _installer_handoff_started, _attempt_generation
    entry,          \* of each attempt: where it was started
    worker,         \* of each attempt: where its thread is
    control,        \* attempt whose UpdateDownloadControl is active_update_control
    holds,          \* of each attempt: the control its thread was given
    cancelled, installing,      \* controls
    completions,    \* answers of workers on their way to the GUI thread
    installer,      \* of each attempt: the installer's process
    recovery,       \* attempt whose installer the recovery timer watches
    offer,          \* pending_update_version is set
    checks,         \* silent checks: the latest generation, and those under way
    promised,       \* a quit that the control socket confirmed and that is not done yet
    ended,
    abandoned       \* history: installers the recovery gave up on

gate == <<updating, handoff, attempt>>
vars == <<gate, entry, worker, control, holds, cancelled, installing, completions,
          installer, recovery, offer, checks, promised, ended, abandoned>>

-----------------------------------------------------------------------------

Attempts == 1..MaxAttempts
None == 0

FreeGate == updating' = FALSE /\ handoff' = FALSE
can_user_quit == ~updating
CanQuitAnyway == attempt >= 0    \* mutant
can_control_quit == ~updating \/ handoff

Init ==
    /\ updating = FALSE /\ handoff = FALSE /\ attempt = 0
    /\ entry = [a \in Attempts |-> "none"]
    /\ worker = [a \in Attempts |-> "none"]
    /\ control = None /\ holds = [a \in Attempts |-> None]
    /\ cancelled = {} /\ installing = {}
    /\ completions = {}
    /\ installer = [a \in Attempts |-> "none"]
    /\ recovery = None
    /\ offer = FALSE /\ checks = [latest |-> 0, flying |-> {}]
    /\ promised = None /\ ended = FALSE
    /\ abandoned = {}

\* _set_update_in_progress(True): an attempt that begins while another runs
\* keeps the control of the first.
BeginAttempt ==
    /\ updating' = TRUE /\ attempt' = attempt + 1 /\ UNCHANGED handoff
    /\ control' = IF updating THEN control ELSE attempt'

\* _set_update_in_progress(False, generation): a stale completion changes nothing.
Finish(a) ==
    IF a = attempt THEN FreeGate /\ control' = None /\ UNCHANGED attempt
                   ELSE UNCHANGED <<gate, control>>

\* _run_update and the dialog's _check_for_updates.  Both need an update on offer
\* and settings that could be flushed.
MayBeginTwice == offer      \* mutant
MayBegin == offer /\ ~updating

Begin ==
    /\ ~ended /\ MayBegin /\ attempt < MaxAttempts
    /\ BeginAttempt
    /\ \E e \in {"tray", "dialog"} : entry' = [entry EXCEPT ![attempt'] = e]
    /\ worker' = [worker EXCEPT ![attempt'] = "start"]
    /\ UNCHANGED <<holds, cancelled, installing, completions, installer, recovery, offer,
                   checks, promised, ended, abandoned>>

\* The thread did not start: the error is handled before the click returns.
BeginFails ==
    /\ ~ended /\ MayBegin /\ attempt < MaxAttempts
    /\ FreeGate /\ attempt' = attempt + 1 /\ control' = None
    /\ \E e \in {"tray", "dialog"} :
         /\ entry' = [entry EXCEPT ![attempt'] = e]
         /\ recovery' = IF e = "tray" THEN None ELSE recovery
    /\ UNCHANGED <<worker, holds, cancelled, installing, completions, installer, offer,
                   checks, promised, ended, abandoned>>

-----------------------------------------------------------------------------
\* The thread of an attempt: _check_updates.

LockHeld == \E a \in Attempts : worker[a] \in {"check", "download", "begin", "mark", "launch"}

Goes(a, from, to) == ~ended /\ worker[a] = from /\ worker' = [worker EXCEPT ![a] = to]
\* The lock is released and the completion emitted.
Answers(a, kind) == completions' = completions \cup {[attempt |-> a, kind |-> kind]}

Steps == <<entry, control, recovery, offer, checks, promised, ended, abandoned>>

Start(a) ==
    /\ holds' = [holds EXCEPT ![a] = control]
    /\ IF LockHeld THEN Goes(a, "start", "over") /\ Answers(a, "error")
                   ELSE Goes(a, "start", "check") /\ UNCHANGED completions
    /\ UNCHANGED <<Steps, gate, cancelled, installing, installer>>

\* Up to date, or the check failed or found nothing that can be installed.
GivesUp(a) ==
    /\ worker[a] \in {"check", "download"} /\ Goes(a, worker[a], "over")
    /\ \E kind \in {"error", "current"} :
         /\ kind = "current" => worker[a] = "check"
         /\ Answers(a, kind)
    /\ UNCHANGED <<Steps, gate, holds, cancelled, installing, installer>>

\* checkpoint: it raises UpdateCancelled.
Cancels(a) ==
    /\ holds[a] \in cancelled
    /\ worker[a] \in {"check", "download", "begin"} /\ Goes(a, worker[a], "over")
    /\ Answers(a, "cancelled")
    /\ UNCHANGED <<Steps, gate, holds, cancelled, installing, installer>>

Advances(a) ==
    /\ holds[a] \notin cancelled
    /\ Goes(a, "check", "download") \/ Goes(a, "download", "begin")
    /\ UNCHANGED <<Steps, gate, holds, cancelled, installing, installer, completions>>

begin_installation(a) ==
    /\ holds[a] \notin cancelled
    /\ Goes(a, "begin", "mark")
    /\ installing' = installing \cup {holds[a]}
    /\ UNCHANGED <<Steps, gate, holds, cancelled, installer, completions>>

mark_installer_handoff_started(a) ==
    /\ IF updating THEN /\ handoff' = TRUE
                        /\ Goes(a, "mark", "launch") /\ UNCHANGED completions
                   ELSE /\ Goes(a, "mark", "over") /\ Answers(a, "error")
                        /\ UNCHANGED handoff
    /\ UNCHANGED <<Steps, updating, attempt, holds, cancelled, installing, installer>>

launch_update_installer(a) ==
    /\ Goes(a, "launch", "over")
    /\ \/ /\ installer' = [installer EXCEPT ![a] = "running"]
          /\ Answers(a, "handoff") /\ UNCHANGED handoff
       \/ /\ handoff' = (handoff /\ ~updating)
          /\ Answers(a, "error") /\ UNCHANGED installer
    /\ UNCHANGED <<Steps, updating, attempt, holds, cancelled, installing>>

Worker(a) ==
    \/ Start(a) \/ GivesUp(a) \/ Cancels(a) \/ Advances(a)
    \/ begin_installation(a) \/ mark_installer_handoff_started(a) \/ launch_update_installer(a)

\* The user's cancellation: the dialog says the download is being cancelled
\* exactly when the control has not begun the installation.
CancelAcceptedLate == control # None     \* mutant
CancelAccepted == control # None /\ control \notin installing

Cancel ==
    /\ ~ended /\ updating /\ CancelAccepted
    /\ cancelled' = cancelled \cup {control}
    /\ UNCHANGED <<gate, entry, worker, control, holds, installing, completions, installer,
                   recovery, offer, checks, promised, ended, abandoned>>

-----------------------------------------------------------------------------
\* The completion on the GUI thread.

\* Only the tray's completion disarms the recovery timer, and it does so before
\* it looks whether it is stale.
Disarms(a) == recovery' = IF entry[a] = "tray" THEN None ELSE recovery

Take(c) == ~ended /\ c \in completions /\ completions' = completions \ {c}

\* _handle_update_completed and _finish_async_action
Fails(c) ==
    /\ Take(c) /\ c.kind \in {"error", "cancelled"}
    /\ Disarms(c.attempt) /\ Finish(c.attempt)
    /\ UNCHANGED <<entry, worker, holds, cancelled, installing, installer, offer, checks,
                   promised, ended, abandoned>>

IsCurrent(c) ==
    /\ Take(c) /\ c.kind = "current"
    /\ Disarms(c.attempt) /\ Finish(c.attempt)
    /\ offer' = FALSE
    /\ UNCHANGED <<entry, worker, holds, cancelled, installing, installer, checks, promised,
                   ended, abandoned>>

\* _handle_update_handoff_started
WatchesNothing(a) == recovery' = recovery /\ a \in Attempts    \* mutant
Watches(a) == recovery' = a

HandoffStarted(c) ==
    /\ Take(c) /\ c.kind = "handoff"
    /\ Watches(c.attempt)
    /\ UNCHANGED <<gate, entry, worker, control, holds, cancelled, installing, installer,
                   offer, checks, promised, ended, abandoned>>

Completes == \E c \in completions : Fails(c) \/ IsCurrent(c) \/ HandoffStarted(c)

\* _recover_update_handoff: without a retry the offer is withdrawn.
Recover(retry) ==
    /\ recovery' = None
    /\ IF updating THEN FreeGate /\ control' = None /\ offer' = (offer /\ retry)
                   ELSE UNCHANGED <<updating, handoff, control, offer>>
    /\ UNCHANGED <<attempt, entry, worker, holds, cancelled, installing, completions, installer, checks,
                   promised, ended>>

\* The installer has ended although the program still runs: it failed, or the
\* installed version did not change.
InstallerExited ==
    /\ ~ended /\ recovery # None /\ installer[recovery] \in {"ok", "failed"}
    /\ \E retry \in BOOLEAN :
         /\ installer[recovery] = "failed" => retry
         /\ Recover(retry)
    /\ UNCHANGED abandoned

\* The time is over, or the process could not be asked (then a retry is offered).
HandoffTimedOut ==
    /\ ~ended /\ recovery # None /\ installer[recovery] = "running"
    /\ \E retry \in BOOLEAN : Recover(retry)
    /\ abandoned' = abandoned \cup {recovery}

-----------------------------------------------------------------------------

\* External: the installer's process.
InstallerEnds(a) ==
    /\ installer[a] = "running"
    /\ \E code \in {"ok", "failed"} : installer' = [installer EXCEPT ![a] = code]
    /\ UNCHANGED <<gate, entry, worker, control, holds, cancelled, installing, completions,
                   recovery, offer, checks, promised, ended, abandoned>>

\* A quit command on the control socket, of the installer or of another process:
\* during a hand-over it is confirmed without preparing the settings.
ControlQuit ==
    /\ ~ended /\ promised = None /\ can_control_quit
    /\ promised' = attempt + 1
    /\ UNCHANGED <<gate, entry, worker, control, holds, cancelled, installing, completions,
                   installer, recovery, offer, checks, ended, abandoned>>

\* The confirmed quit runs when the event loop comes to it.
PromisedQuit ==
    /\ ~ended /\ promised # None
    /\ ended' = TRUE /\ recovery' = None
    /\ UNCHANGED <<gate, entry, worker, control, holds, cancelled, installing, completions,
                   installer, offer, checks, promised, abandoned>>

\* The tray, the dialog, Ctrl+C or the end of the game.
UserQuit ==
    /\ ~ended /\ can_user_quit
    /\ ended' = TRUE /\ recovery' = None
    /\ UNCHANGED <<gate, entry, worker, control, holds, cancelled, installing, completions,
                   installer, offer, checks, promised, abandoned>>

\* _run_silent_update_check: hourly, at the start and after a recovery.
CheckStarts ==
    /\ ~ended /\ checks.latest < MaxChecks
    /\ checks' = [latest |-> checks.latest + 1, flying |-> checks.flying \cup {checks.latest + 1}]
    /\ UNCHANGED <<gate, entry, worker, control, holds, cancelled, installing, completions,
                   installer, recovery, offer, promised, ended, abandoned>>

\* A transient failure keeps the offer that was there.
CheckAnswers ==
    /\ ~ended
    /\ \E g \in checks.flying, found \in {"available", "nothing", "transient"} :
         /\ checks' = [checks EXCEPT !.flying = @ \ {g}]
         /\ offer' = IF g # checks.latest \/ found = "transient" THEN offer
                     ELSE found = "available"
    /\ UNCHANGED <<gate, entry, worker, control, holds, cancelled, installing, completions,
                   installer, recovery, promised, ended, abandoned>>

-----------------------------------------------------------------------------

Next ==
    \/ Begin \/ BeginFails \/ (\E a \in Attempts : Worker(a))
    \/ Cancel \/ Completes
    \/ InstallerExited \/ HandoffTimedOut
    \/ (\E a \in Attempts : InstallerEnds(a))
    \/ ControlQuit \/ PromisedQuit \/ UserQuit
    \/ CheckStarts \/ CheckAnswers

Spec == Init /\ [][Next]_vars

\* Threads run on, the event loop delivers completions, and the recovery timer ticks.
FairSpec ==
    /\ Spec
    /\ \A a \in Attempts : WF_vars(Worker(a))
    /\ WF_vars(Completes)
    /\ WF_vars(InstallerExited \/ HandoffTimedOut)

-----------------------------------------------------------------------------

Completion == [attempt : Attempts, kind : {"error", "current", "cancelled", "handoff"}]
TypeOK ==
    /\ updating \in BOOLEAN /\ handoff \in BOOLEAN /\ attempt \in 0..MaxAttempts
    /\ control \in 0..MaxAttempts /\ recovery \in 0..MaxAttempts
    /\ completions \subseteq Completion
    /\ handoff => updating

\* A download that the user was told is being cancelled never starts its
\* installer, wherever its thread was (UpdateDownloadControl).
CancelHolds == \A a \in Attempts : holds[a] \in cancelled => installer[a] = "none"

\* The program does not end under an attempt whose installer was not handed
\* over, except by a quit that was confirmed before the attempt began: the
\* control socket answers first and quits from the event loop.
NotInterrupted ==
    ended => \A a \in Attempts :
        worker[a] \notin {"none", "over"} => worker[a] = "launch" \/ promised \in 1..a

\* An installer that runs under a live program is watched, is about to be, or
\* was given up after the time for it: no completion of another attempt takes
\* the recovery away from it.
InstallerWatched ==
    ~ended => \A a \in Attempts : installer[a] = "running" =>
        \/ recovery = a \/ a \in abandoned
        \/ [attempt |-> a, kind |-> "handoff"] \in completions

\* Why: attempts follow one another.  While a thread, its completion or the recovery
\* timer is at work, the gate is busy with that very attempt and the other two are
\* not, so that no completion is ever stale; a control is cancelled or installs, never
\* both; and the gate hands over only to a thread that has passed its mark.
Current(a) == updating /\ attempt = a
AtWork(a) == worker[a] \notin {"none", "over"}
AttemptInvariant(a) ==
    /\ AtWork(a) => Current(a) /\ completions = {} /\ recovery = None /\ installer[a] = "none"
    /\ worker[a] = "none" => installer[a] = "none" /\ ~Current(a)
    /\ a > attempt => worker[a] = "none"
    /\ worker[a] \in {"mark", "launch"} \/ installer[a] # "none" => holds[a] \in installing
    /\ handoff /\ Current(a) => worker[a] \in {"launch", "over"}
    /\ AtWork(a) /\ promised > a => worker[a] = "launch"
    /\ ended /\ AtWork(a) => worker[a] = "launch" \/ promised \in 1..a
    /\ ~ended /\ installer[a] = "running" =>
          recovery = a \/ a \in abandoned \/ [attempt |-> a, kind |-> "handoff"] \in completions
CompletionInvariant ==
    \A c \in completions : Current(c.attempt) /\ completions = {c} /\ recovery = None
                           /\ (c.kind # "handoff" => installer[c.attempt] = "none")
UpdateTyped ==
    /\ attempt \in 0..MaxAttempts /\ control \in 0..MaxAttempts /\ recovery \in 0..MaxAttempts
    /\ promised \in 0..(attempt + 1)
    /\ worker \in [Attempts -> {"none", "start", "check", "download", "begin", "mark",
                               "launch", "over"}]
    /\ installer \in [Attempts -> {"none", "running", "ok", "failed"}]
    /\ holds \in [Attempts -> 0..MaxAttempts]
GateInvariant == (handoff => updating) /\ (updating => attempt # 0)
UpdateInvariant ==
    /\ updating \in BOOLEAN /\ handoff \in BOOLEAN
    /\ UpdateTyped /\ GateInvariant
    /\ completions \subseteq Completion
    /\ cancelled \cap installing = {}
    /\ \A a \in Attempts : AttemptInvariant(a)
    /\ CompletionInvariant
    /\ recovery # None => Current(recovery)

\* An update never blocks quitting for good: it ends, it is recovered, or the
\* program has quit.
UpdateEnds == updating ~> (~updating \/ ended)

=============================================================================
