------------------------------ MODULE MCProgress ------------------------------
(***************************************************************************)
(* Work that must come to an end under fairness: publication and shutdown  *)
(* of screenshots, retired watchers, settings from the dialog to the       *)
(* runtime, the helper that follows the game, updates and the usage        *)
(* choice.  The parts share no state in the models; one is chosen at the   *)
(* start and runs alone, so that the behaviours checked are those of the   *)
(* seven specifications put side by side.                                  *)
(***************************************************************************)
EXTENDS Naturals

CONSTANTS
    Workers, Timer, NoKey, MaxKey, Fragments, EmitMayRaise,             \* ScreenshotPublication
    Watchers, MaxFailures,                                              \* RetiredWatchers
    MaxSubmits, SettingsFaults,                                         \* SettingsApply
    Folders, MaxEdits, MaxActs,                                         \* SettingsEdits
    Procs, Misses, MaxGames, UserActs, LifecycleFaults,                 \* WowLifecycle
    MaxAttempts, MaxChecks,                                             \* UpdateQuit
    Events, Retries, MaxToggles, UsageFaults, MaxRestarts               \* UsageConsent

VARIABLES
    part,   \* the part that runs
    onDisk, claimed, frontier, stream, group, token, armed, queue, active, stopped, pc,
    shot, files, holding, sourceGate, pending, applied, shutdown, accepted, deferred,
    handed, refused, raised,
    fresh, owned, retiredPc, held, timed, stopLock, todo, deadline, caller, complete, hung,
    retiredStopped, failures,
    env, file, writes, cfg, applier, submits, latest, worker, posted, timer, verify, faults,
    tested, promised, unrestored,
    path, other, good, autosave, debounce, started, ready, required, waiting, warning,
    readyPath, probe, baseline, editsApplied, reports, succeeded, busy, editsTested, quit,
    edits, acts, clean,
    wow, games, sync, stage, byHelper, lifecycleTimer, lifecyclePending, session,
    lifecycleActs, lifecycleFaults, excused,
    updating, handoff, attempt, entry, updateWorker, control, holds, cancelled, installing,
    completions, installer, recovery, offer, checks, updatePromised, ended, abandoned,
    usageFile, consent, desired, failed, usagePending, closed, request, generation,
    usageQueue, queued, attempted, seen, identity, thread, delivery, writers, check,
    reported, toggles, usageFaults, restarts, period

Pub == INSTANCE ScreenshotPublication
Retired == INSTANCE RetiredWatchers WITH pc <- retiredPc, stopped <- retiredStopped
Settings == INSTANCE SettingsApply WITH MaxFaults <- SettingsFaults
Edits == INSTANCE SettingsEdits WITH applied <- editsApplied, tested <- editsTested
Lifecycle == INSTANCE WowLifecycle WITH
    MaxActs <- UserActs, MaxFaults <- LifecycleFaults, timer <- lifecycleTimer,
    pending <- lifecyclePending, acts <- lifecycleActs, faults <- lifecycleFaults
Update == INSTANCE UpdateQuit WITH worker <- updateWorker, promised <- updatePromised
Usage == INSTANCE UsageConsent WITH
    MaxFaults <- UsageFaults, file <- usageFile, pending <- usagePending,
    queue <- usageQueue, faults <- usageFaults

PublicationVars ==
    <<onDisk, claimed, frontier, stream, group, token, armed, queue, active, stopped, pc,
      shot, files, holding, sourceGate, pending, applied, shutdown, accepted, deferred,
      handed, refused, raised>>
RetiredVars ==
    <<fresh, owned, retiredPc, held, timed, stopLock, todo, deadline, caller, complete,
      hung, retiredStopped, failures>>
SettingsVars ==
    <<env, file, writes, cfg, applier, submits, latest, worker, posted, timer, verify,
      faults, tested, promised, unrestored>>
EditsVars ==
    <<path, other, good, autosave, debounce, started, ready, required, waiting, warning,
      readyPath, probe, baseline, editsApplied, reports, succeeded, busy, editsTested, quit,
      edits, acts, clean>>
LifecycleVars ==
    <<wow, games, sync, stage, byHelper, lifecycleTimer, lifecyclePending, session,
      lifecycleActs, lifecycleFaults, excused>>
UpdateVars ==
    <<updating, handoff, attempt, entry, updateWorker, control, holds, cancelled,
      installing, completions, installer, recovery, offer, checks, updatePromised, ended,
      abandoned>>
UsageVars ==
    <<usageFile, consent, desired, failed, usagePending, closed, request, generation,
      usageQueue, queued, attempted, seen, identity, thread, delivery, writers, check,
      reported, toggles, usageFaults, restarts, period>>

\* The variables of a part that does not run have no meaning.
Off == 0
PublicationOff ==
    /\ onDisk = Off /\ claimed = Off /\ frontier = Off /\ stream = Off /\ group = Off
    /\ token = Off /\ armed = Off /\ queue = Off /\ active = Off /\ stopped = Off
    /\ pc = Off /\ shot = Off /\ files = Off /\ holding = Off /\ sourceGate = Off
    /\ pending = Off /\ applied = Off /\ shutdown = Off /\ accepted = Off /\ deferred = Off
    /\ handed = Off /\ refused = Off /\ raised = Off
RetiredOff ==
    /\ fresh = Off /\ owned = Off /\ retiredPc = Off /\ held = Off /\ timed = Off
    /\ stopLock = Off /\ todo = Off /\ deadline = Off /\ caller = Off /\ complete = Off
    /\ hung = Off /\ retiredStopped = Off /\ failures = Off
SettingsOff ==
    /\ env = Off /\ file = Off /\ writes = Off /\ cfg = Off /\ applier = Off
    /\ submits = Off /\ latest = Off /\ worker = Off /\ posted = Off /\ timer = Off
    /\ verify = Off /\ faults = Off /\ tested = Off /\ promised = Off /\ unrestored = Off
EditsOff ==
    /\ path = Off /\ other = Off /\ good = Off /\ autosave = Off /\ debounce = Off
    /\ started = Off /\ ready = Off /\ required = Off /\ waiting = Off /\ warning = Off
    /\ readyPath = Off /\ probe = Off /\ baseline = Off /\ editsApplied = Off
    /\ reports = Off /\ succeeded = Off /\ busy = Off /\ editsTested = Off /\ quit = Off
    /\ edits = Off /\ acts = Off /\ clean = Off
LifecycleOff ==
    /\ wow = Off /\ games = Off /\ sync = Off /\ stage = Off /\ byHelper = Off
    /\ lifecycleTimer = Off /\ lifecyclePending = Off /\ session = Off
    /\ lifecycleActs = Off /\ lifecycleFaults = Off /\ excused = Off
UpdateOff ==
    /\ updating = Off /\ handoff = Off /\ attempt = Off /\ entry = Off /\ updateWorker = Off
    /\ control = Off /\ holds = Off /\ cancelled = Off /\ installing = Off
    /\ completions = Off /\ installer = Off /\ recovery = Off /\ offer = Off /\ checks = Off
    /\ updatePromised = Off /\ ended = Off /\ abandoned = Off
UsageOff ==
    /\ usageFile = Off /\ consent = Off /\ desired = Off /\ failed = Off
    /\ usagePending = Off /\ closed = Off /\ request = Off /\ generation = Off
    /\ usageQueue = Off /\ queued = Off /\ attempted = Off /\ seen = Off /\ identity = Off
    /\ thread = Off /\ delivery = Off /\ writers = Off /\ check = Off /\ reported = Off
    /\ toggles = Off /\ usageFaults = Off /\ restarts = Off /\ period = Off

Init ==
    \/ /\ part = "publication" /\ Pub!Init
       /\ RetiredOff /\ SettingsOff /\ EditsOff /\ LifecycleOff /\ UpdateOff /\ UsageOff
    \/ /\ part = "retired" /\ Retired!Init
       /\ PublicationOff /\ SettingsOff /\ EditsOff /\ LifecycleOff /\ UpdateOff /\ UsageOff
    \/ /\ part = "settings" /\ Settings!Init
       /\ PublicationOff /\ RetiredOff /\ EditsOff /\ LifecycleOff /\ UpdateOff /\ UsageOff
    \/ /\ part = "edits" /\ Edits!Init
       /\ PublicationOff /\ RetiredOff /\ SettingsOff /\ LifecycleOff /\ UpdateOff
       /\ UsageOff
    \/ /\ part = "lifecycle" /\ Lifecycle!Init
       /\ PublicationOff /\ RetiredOff /\ SettingsOff /\ EditsOff /\ UpdateOff /\ UsageOff
    \/ /\ part = "update" /\ Update!Init
       /\ PublicationOff /\ RetiredOff /\ SettingsOff /\ EditsOff /\ LifecycleOff
       /\ UsageOff
    \/ /\ part = "usage" /\ Usage!Init
       /\ PublicationOff /\ RetiredOff /\ SettingsOff /\ EditsOff /\ LifecycleOff
       /\ UpdateOff

PublicationNext ==
    /\ part = "publication" /\ Pub!Next
    /\ UNCHANGED <<part, RetiredVars, SettingsVars, EditsVars, LifecycleVars, UpdateVars,
                   UsageVars>>
RetiredNext ==
    /\ part = "retired" /\ Retired!Next
    /\ UNCHANGED <<part, PublicationVars, SettingsVars, EditsVars, LifecycleVars,
                   UpdateVars, UsageVars>>
SettingsNext ==
    /\ part = "settings" /\ Settings!Next
    /\ UNCHANGED <<part, PublicationVars, RetiredVars, EditsVars, LifecycleVars, UpdateVars,
                   UsageVars>>
EditsNext ==
    /\ part = "edits" /\ Edits!Next
    /\ UNCHANGED <<part, PublicationVars, RetiredVars, SettingsVars, LifecycleVars,
                   UpdateVars, UsageVars>>
LifecycleNext ==
    /\ part = "lifecycle" /\ Lifecycle!Next
    /\ UNCHANGED <<part, PublicationVars, RetiredVars, SettingsVars, EditsVars, UpdateVars,
                   UsageVars>>
UpdateNext ==
    /\ part = "update" /\ Update!Next
    /\ UNCHANGED <<part, PublicationVars, RetiredVars, SettingsVars, EditsVars,
                   LifecycleVars, UsageVars>>
UsageNext ==
    /\ part = "usage" /\ Usage!Next
    /\ UNCHANGED <<part, PublicationVars, RetiredVars, SettingsVars, EditsVars,
                   LifecycleVars, UpdateVars>>

Next ==
    PublicationNext \/ RetiredNext \/ SettingsNext \/ EditsNext \/ LifecycleNext \/
    UpdateNext \/ UsageNext
vars ==
    <<part, PublicationVars, RetiredVars, SettingsVars, EditsVars, LifecycleVars,
    UpdateVars, UsageVars>>

ASSUME PublicationAssumption == Pub!ActorAssumption /\ Pub!KeyAssumption
ASSUME RetiredAssumption == Retired!WatcherAssumption
ASSUME UpdateAssumption == Update!BoundAssumption

\* The fairness of each part, as its module states and justifies it.
PublicationFairness ==
    /\ \A w \in Workers : WF_PublicationVars(part = "publication" /\ Pub!Take(w))
    /\ \A a \in Pub!Actors :
          /\ WF_PublicationVars(part = "publication" /\ Pub!Publish(a))
          /\ WF_PublicationVars(part = "publication" /\ Pub!Remove(a))
    /\ WF_PublicationVars(part = "publication" /\ Pub!QueueTimeout)
    /\ WF_PublicationVars(part = "publication" /\ Pub!ScheduledFlush)
    /\ WF_PublicationVars(part = "publication" /\ Pub!Quiesce)
RetiredFairness ==
    /\ WF_RetiredVars(part = "retired" /\ Retired!Passes)
    /\ WF_RetiredVars(part = "retired" /\ Retired!StopAllReturns)
SettingsFairness ==
    /\ WF_SettingsVars(part = "settings" /\ Settings!Work)
    /\ WF_SettingsVars(part = "settings" /\ Settings!Gui)
EditsFairness ==
    /\ WF_EditsVars(part = "edits" /\ Edits!Autosave)
    /\ WF_EditsVars(part = "edits" /\ Edits!Debounce)
    /\ WF_EditsVars(part = "edits" /\ (Edits!StaleResult \/ Edits!Result))
    /\ WF_EditsVars(part = "edits" /\ Edits!Release)
    /\ WF_EditsVars(part = "edits" /\ Edits!TestEnds)
LifecycleFairness ==
    /\ \A p \in Procs :
          /\ WF_LifecycleVars(part = "lifecycle" /\ Lifecycle!Watch(p))
          /\ WF_LifecycleVars(part = "lifecycle" /\ Lifecycle!Probe(p))
          /\ WF_LifecycleVars(part = "lifecycle" /\ Lifecycle!Launch(p))
    /\ WF_LifecycleVars(part = "lifecycle" /\ Lifecycle!TimerSteps)
    /\ WF_LifecycleVars(part = "lifecycle" /\ Lifecycle!Ends)
    /\ WF_LifecycleVars(part = "lifecycle" /\ (Lifecycle!TurnOn \/ Lifecycle!TurnOff))
UpdateFairness ==
    /\ \A a \in Update!Attempts : WF_UpdateVars(part = "update" /\ Update!Worker(a))
    /\ WF_UpdateVars(part = "update" /\ Update!Completes)
    /\ WF_UpdateVars(part = "update" /\ (Update!InstallerExited \/ Update!HandoffTimedOut))
UsageFairness ==
    /\ WF_UsageVars(part = "usage" /\ Usage!Writer)
    /\ WF_UsageVars(part = "usage" /\ Usage!Delivers)

Spec ==
    /\ Init /\ [][Next]_vars
    /\ PublicationFairness /\ RetiredFairness /\ SettingsFairness /\ EditsFairness
    /\ LifecycleFairness /\ UpdateFairness /\ UsageFairness

-----------------------------------------------------------------------------
(* Properties. *)

\* Two decoder workers, the fragment timer and the shutdown: one publisher at a
\* time, in the order of acceptance; what it deletes is in the apply queue, and
\* once the gate is closed it is applied.
PublicationIsSafe ==
    part = "publication" =>
        /\ Pub!TypeOK /\ Pub!OnePublisher
        /\ Pub!AcceptedNotRefused /\ Pub!AcceptedNotForgotten
        /\ Pub!DeletedAfterOwnHandoff /\ Pub!ClosedWithNothingLost

\* No retired watcher is stopped by two threads or twice.
StoppedOnce == part = "retired" => Retired!StoppedOnce

\* Settings that are submitted, superseded, rolled back and repaired: the file
\* follows the runtime, untested credentials and unprobed folders are never used,
\* and no exit timer runs with the sync turned off.
SettingsAreSound ==
    /\ part = "settings" =>
          Settings!FileFollowsRuntime /\ Settings!UntestedNeverActive /\ Settings!NoExitTimerWithoutSync
    /\ part = "edits" => Edits!TypeOK /\ Edits!OnlyProbedFolders

\* Helper and program relieve each other around the game.
NobodyLeftBehind == part = "lifecycle" => Lifecycle!NobodyLeftBehind

\* A cancelled update starts no installer, the program does not end under one
\* that is under way, and an installer that runs is watched.
UpdateIsSafe ==
    part = "update" =>
        Update!TypeOK /\ Update!CancelHolds /\ Update!NotInterrupted /\ Update!InstallerWatched

\* The file of the usage choice holds the choice that was settled last.
FileHoldsTheChoice == part = "usage" => Usage!TypeOK /\ Usage!FileHoldsTheChoice

\* Nothing happens too late: no timeout is reported after a newer snapshot, no
\* stop of a watcher begins past the shutdown's budget, and nothing is reported
\* after the user opted out.
NothingTooLate ==
    [][/\ part = "publication" => Pub!TimeoutInOrder
       /\ part = "retired" => Retired!BeginsInTime
       /\ part = "usage" => Usage!ReportsWithConsent]_vars

\* An accepted snapshot is applied or overtaken, unless the watcher is stopped or
\* a slot raised; when the user stops editing, the dialog has given everything to
\* the pipeline, and the pipeline has brought it to the runtime.
EverythingArrives ==
    <>[](/\ part = "publication" => \A k \in accepted : Pub!Served(k)
         /\ part = "edits" => Edits!SavedOrBad
         /\ part = "settings" => Settings!ReachedRuntime)

\* What has begun ends: the shutdown does not wait for a watcher that hangs, an
\* update does not block quitting for good, and a choice is settled.
WhatBeganEnds ==
    []<>(/\ part = "retired" => caller # "waits"
         /\ part = "update" => ~updating \/ ended
         /\ part = "usage" => ~usagePending \/ closed)

\* The program comes with the game and goes with it.
FollowsTheGame == <>[](part = "lifecycle" => Lifecycle!FollowsNow)
=============================================================================
