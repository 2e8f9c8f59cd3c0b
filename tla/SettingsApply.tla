----------------------------- MODULE SettingsApply -----------------------------
(***************************************************************************)
(* Applying settings while the program runs (__main__.py:                  *)
(* _CoalescedSettingsApplier, _prepare_settings_apply,                     *)
(* _commit_settings_apply, _apply_wow_sync_runtime), next to the check of   *)
(* the saved screenshot folder that may repair it at start                 *)
(* (_verify_startup_screenshots_dir, config.py:                            *)
(* save_discovered_screenshots_path).                                       *)
(*                                                                         *)
(* A worker writes the file; the GUI thread then changes the runtime, or    *)
(* restores the file.  A change submitted meanwhile waits, and the latest   *)
(* one only.  Of the settings are modelled: the Warcraft Logs credentials,  *)
(* tested or a draft, the screenshot folder and the sync with WoW, whose    *)
(* exit timer ends the program when WoW ends.                               *)
(***************************************************************************)
EXTENDS Naturals, FiniteSets

CONSTANTS
    MaxSubmits,     \* bound: changes submitted
    MaxFaults       \* bound: operations that fail

VARIABLES
    env,            \* settings the process environment overrides
    file, writes,   \* the config file, and the writes of this process to it
    cfg,            \* the configuration the runtime follows
    applier,        \* the pipeline's pending change, whether it is busy, what it would restore
    submits, latest,
    worker, posted, \* the worker, and the outcome its signal carries to the GUI thread
    timer,          \* the exit timers, and the one the program knows of
    verify,         \* the check of the screenshot folder
    faults,
    tested, promised, unrestored    \* history

vars == <<env, file, writes, cfg, applier, submits, latest, worker, posted, timer, verify,
          faults, tested, promised, unrestored>>

-----------------------------------------------------------------------------
(* Settings                                                                 *)

Found == 3       \* the folder a moved installation is found at
\* Changes of which every two settings take every pair of values.
Values ==
    {v \in [creds : {1, 2}, path : {1, 2}, sync : BOOLEAN] : v.sync <=> v.creds = v.path}
Overrides == {<<>>, [creds |-> 2], [path |-> 2], [sync |-> FALSE]}
NoDraft == 0
Absent == [absent |-> TRUE]    \* no file yet: a legacy one is read in its place
NoSnapshot == [absent |-> FALSE]
Legacy(sync) == [creds |-> 1, draft |-> NoDraft, path |-> 1, sync |-> sync]
First == Legacy(TRUE)

Saved(contents) == IF contents = Absent THEN First ELSE contents
\* What the process environment overrides, in the configuration and in what is kept of it.
Overridden(f) == f \in DOMAIN env
Effective(e, c) ==
    [creds |-> IF "creds" \in DOMAIN e THEN e.creds ELSE c.creds, draft |-> c.draft,
     path |-> IF "path" \in DOMAIN e THEN e.path ELSE c.path,
     sync |-> IF "sync" \in DOMAIN e THEN e.sync ELSE c.sync]
Load(contents) == Effective(env, Saved(contents))

\* _settings_values_to_config: credentials that were not tested stay a draft.
ToConfig(v, apply, old) ==
    Effective(env, [creds |-> IF apply THEN v.creds ELSE old.creds,
                    draft |-> IF ~apply /\ v.creds # old.creds THEN v.creds ELSE NoDraft,
                    path |-> v.path, sync |-> v.sync])

\* _persist_settings_values: what the environment overrides keeps its saved value.
PersistedUntested(v, apply, old, saved) ==    \* mutant
    [creds |-> v.creds, draft |-> NoDraft, path |-> v.path, sync |-> v.sync]
Persisted(v, apply, old, saved) ==
    LET untested == IF apply THEN Overridden("creds") ELSE v.creds # old.creds
        active == IF apply THEN v.creds ELSE old.creds
    IN [creds |-> IF Overridden("creds") THEN saved.creds ELSE active,
        draft |-> IF untested THEN v.creds ELSE NoDraft,
        path |-> IF Overridden("path") THEN saved.path ELSE v.path,
        sync |-> IF Overridden("sync") THEN saved.sync ELSE v.sync]

-----------------------------------------------------------------------------

NoItem == [no |-> 0]
Idle == applier.pending = NoItem /\ ~applier.busy
Fails == faults < MaxFaults /\ faults' = faults + 1
Works == UNCHANGED faults
WriteFile(contents) ==
    /\ file' = contents
    /\ writes' = IF contents = Absent /\ file = Absent THEN writes ELSE writes + 1

NoWork == [stage |-> "none", item |-> NoItem, old |-> First, snap |-> NoSnapshot, saved |-> First]
Starts(item, current) == [NoWork EXCEPT !.stage = "capture", !.item = item, !.old = current]
Init ==
    /\ env \in Overrides
    /\ \E contents \in {Absent, Legacy(TRUE), Legacy(FALSE)} :
            file = contents /\ cfg = Load(contents)
    /\ writes = 0
    /\ applier = [pending |-> NoItem, busy |-> FALSE, rollback |-> NoSnapshot]
    /\ submits = 0 /\ latest = NoItem
    /\ worker = NoWork /\ posted = {}
    /\ timer = IF cfg.sync THEN [own |-> 1, running |-> {1}, created |-> 1]
               ELSE [own |-> 0, running |-> {}, created |-> 0]
    /\ verify = [stage |-> "probing", absent |-> file = Absent, writes |-> 0, path |-> cfg.path]
    /\ faults = 0
    /\ tested = {cfg.creds, Saved(file).creds} /\ promised = 0 /\ unrestored = FALSE

\* _pump: the worker of the change that waits is started. If no thread can be, the change
\* fails at once, without touching the disk.
Pump(pending, rollback, current) ==
    \/ /\ pending = NoItem
       /\ applier' = [pending |-> NoItem, busy |-> FALSE, rollback |-> rollback]
       /\ worker' = NoWork /\ Works /\ UNCHANGED unrestored
    \/ /\ pending # NoItem
       /\ applier' = [pending |-> NoItem, busy |-> TRUE, rollback |-> rollback]
       /\ worker' = Starts(pending, current)
       /\ Works /\ UNCHANGED unrestored
    \/ /\ pending # NoItem
       /\ applier' = [pending |-> NoItem, busy |-> FALSE, rollback |-> rollback]
       /\ worker' = NoWork /\ Fails
       /\ unrestored' = (unrestored \/ rollback # NoSnapshot)

\* submit: an edit of the settings dialog, or credentials Warcraft Logs has accepted.
Submit(v, apply) ==
    LET item == [no |-> submits + 1, values |-> v, apply |-> apply]
    IN /\ submits < MaxSubmits /\ submits' = submits + 1 /\ latest' = item
       /\ IF applier.busy
          THEN /\ applier' = [applier EXCEPT !.pending = item]
               /\ UNCHANGED <<worker, faults, unrestored>>
          ELSE Pump(item, applier.rollback, cfg)
       /\ tested' = IF apply THEN tested \cup {v.creds} ELSE tested
       /\ promised' = IF apply THEN v.creds ELSE IF v.creds # promised THEN 0 ELSE promised
       /\ UNCHANGED <<env, file, writes, cfg, posted, timer, verify>>

-----------------------------------------------------------------------------
(* The worker                                                               *)

Outcome(ok, snap) == [item |-> worker.item, old |-> worker.old, ok |-> ok, snap |-> snap]
Post(o) == posted' = {o} /\ worker' = NoWork

\* The bytes to restore: those of the last change the runtime followed.
Snapshot == IF applier.rollback = NoSnapshot THEN file ELSE applier.rollback

Capture ==
    /\ worker.stage = "capture"
    /\ \/ worker' = [worker EXCEPT !.stage = "prepare", !.snap = Snapshot] /\ Works /\ UNCHANGED posted
       \/ applier.rollback = NoSnapshot /\ Post(Outcome(FALSE, NoSnapshot)) /\ Fails
    /\ UNCHANGED <<env, file, writes, cfg, applier, submits, latest, timer, verify, tested,
                   promised, unrestored>>

\* The new configuration, and the saved values it must keep.
Prepare ==
    /\ worker.stage = "prepare"
    /\ \/ worker' = [worker EXCEPT !.stage = "write", !.saved = Saved(file)] /\ Works
       \/ worker' = [worker EXCEPT !.stage = "restore"] /\ Fails
    /\ UNCHANGED <<env, file, writes, cfg, applier, submits, latest, posted, timer, verify, tested,
                   promised, unrestored>>

\* save_config_values replaces the file or leaves it as it was.
Write ==
    LET i == worker.item
    IN /\ worker.stage = "write"
       /\ \/ /\ WriteFile(Persisted(i.values, i.apply, worker.old, worker.saved))
             /\ Post(Outcome(TRUE, worker.snap)) /\ Works
          \/ /\ worker' = [worker EXCEPT !.stage = "restore"] /\ Fails
             /\ UNCHANGED <<file, writes, posted>>
       /\ UNCHANGED <<env, cfg, applier, submits, latest, timer, verify, tested, promised,
                      unrestored>>

\* _restore_persisted_config_snapshot
Restore ==
    /\ worker.stage = "restore"
    /\ \/ WriteFile(worker.snap) /\ Works /\ unrestored' = FALSE
       \/ Fails /\ unrestored' = (unrestored \/ file # worker.snap) /\ UNCHANGED <<file, writes>>
    /\ Post(Outcome(FALSE, worker.snap))
    /\ UNCHANGED <<env, cfg, applier, submits, latest, timer, verify, tested, promised>>

-----------------------------------------------------------------------------
(* The GUI thread                                                           *)

\* _on_finished: a later change waits, which will do all this one would.
Superseded(o) == applier.pending # NoItem /\ (~o.item.apply \/ applier.pending.apply)
BaselineForgotten(o) == NoSnapshot    \* mutant
KeptBaseline(o) == IF o.snap = NoSnapshot THEN applier.rollback ELSE o.snap

\* Skipped, or its failure is shown.
NotCommitted ==
    \E o \in posted :
        /\ Superseded(o) \/ ~o.ok
        /\ posted' = {} /\ Pump(applier.pending, KeptBaseline(o), cfg)
        /\ UNCHANGED <<env, file, writes, cfg, submits, latest, timer, verify, tested, promised>>

\* _apply_wow_sync_runtime: the timers after it, and the one it returns. Starting the
\* helper process may fail, and so does stopping a timer that was deleted before.
SyncRaises(on, known, t, helper) ==
    IF on THEN ~helper ELSE known # 0 /\ known \notin t.running
SyncLeaksTimer(on, known, t) ==    \* mutant
    IF on /\ known = 0
    THEN [own |-> t.created + 1, running |-> t.running \cup {t.created + 1}, created |-> t.created + 1]
    ELSE IF on THEN [t EXCEPT !.own = known]
    ELSE [t EXCEPT !.own = 0]
SyncRuntime(on, known, t) ==
    IF on /\ known = 0
    THEN [own |-> t.created + 1, running |-> t.running \cup {t.created + 1}, created |-> t.created + 1]
    ELSE IF on THEN [t EXCEPT !.own = known]
    ELSE [own |-> 0, running |-> t.running \ {known}, created |-> t.created]

NewConfig(o) == ToConfig(o.item.values, o.item.apply, o.old)

\* Then the change that waits is taken, by a worker that starts.
PumpForgets(current, rollback) ==    \* mutant
    /\ applier' = [applier EXCEPT !.busy = FALSE, !.rollback = rollback]
    /\ worker' = NoWork
PumpAfter(current, rollback) ==
    LET next == applier.pending
    IN /\ applier' = [pending |-> NoItem, busy |-> next # NoItem, rollback |-> rollback]
       /\ worker' = IF next = NoItem THEN NoWork
                    ELSE Starts(next, current)

\* _commit_settings_apply: the sync is switched where the change changes it.
Changes(o) == NewConfig(o).sync # o.old.sync
Raises(o, helper) == Changes(o) /\ SyncRaises(NewConfig(o).sync, timer.own, timer, helper)
Switched(o, helper) ==
    IF Changes(o) /\ ~Raises(o, helper) THEN SyncRuntime(NewConfig(o).sync, timer.own, timer)
    ELSE timer

Commit ==
    \E o \in posted :
        /\ o.ok /\ ~Superseded(o)
        /\ ~Raises(o, TRUE) /\ timer' = Switched(o, TRUE)
        /\ cfg' = NewConfig(o) /\ posted' = {}
        /\ unrestored' = FALSE
        /\ PumpAfter(NewConfig(o), NoSnapshot) /\ Works
        /\ UNCHANGED <<env, file, writes, submits, latest, verify, tested, promised>>

\* The helper or the watcher of the new folder does not start: the sync is put back, as far
\* as that works, and the file.
PutBack(o, helper, back) ==
    LET first == Switched(o, helper)
        undone == IF Changes(o) /\ ~SyncRaises(o.old.sync, first.own, first, back)
                  THEN SyncRuntime(o.old.sync, first.own, first) ELSE first
    IN [undone EXCEPT !.own = timer.own]
\* The operations that fail; the watcher is started after the sync.
Failing(o, helper, back, restored) ==
    Cardinality({f \in {"helper", "watcher", "back", "file"} :
                    CASE f = "helper" -> ~helper
                      [] f = "watcher" -> ~Raises(o, helper)
                      [] f = "back" -> ~back
                      [] f = "file" -> ~restored})
CommitFails ==
    \E o \in posted, helper \in BOOLEAN, back \in BOOLEAN, restored \in BOOLEAN :
        LET new == NewConfig(o)
            again == Failing(o, helper, back, restored)
        IN /\ o.ok /\ ~Superseded(o)
           /\ Raises(o, helper) \/ (helper /\ new.path # cfg.path)
           /\ (~Changes(o) => helper /\ back) /\ (~new.sync => helper) /\ (~o.old.sync => back)
           /\ faults + again <= MaxFaults /\ faults' = faults + again
           /\ timer' = PutBack(o, helper, back)
           /\ posted' = {}
           /\ IF restored THEN WriteFile(o.snap) ELSE UNCHANGED <<file, writes>>
           /\ unrestored' = (~restored /\ (unrestored \/ file # o.snap))
           /\ PumpAfter(cfg, KeptBaseline(o))
           /\ UNCHANGED <<env, cfg, submits, latest, verify, tested, promised>>

-----------------------------------------------------------------------------
(* The check of the saved folder at start                                   *)

\* The folder is not where it was and found elsewhere; it is saved unless somebody wrote
\* the file since it was read.
StillOwned ==
    /\ (file = Absent) = verify.absent /\ writes = verify.writes
    /\ Saved(file).path = verify.path /\ ~Overridden("path")

Repair ==
    /\ verify.stage = "probing"
    /\ \/ /\ StillOwned /\ WriteFile([Saved(file) EXCEPT !.path = Found])
          /\ verify' = [verify EXCEPT !.stage = "repaired", !.writes = writes'] /\ Works
       \/ ~StillOwned /\ verify' = [verify EXCEPT !.stage = "quiet"]
          /\ UNCHANGED <<file, writes>> /\ Works
       \/ StillOwned /\ verify' = [verify EXCEPT !.stage = "warned"]
          /\ UNCHANGED <<file, writes>> /\ Fails
    /\ UNCHANGED <<env, cfg, applier, submits, latest, worker, posted, timer, tested, promised,
                   unrestored>>

\* _surface_startup_verification: told to the user if nobody wrote the file since.
Announce ==
    /\ verify.stage = "repaired"
    /\ verify' = [verify EXCEPT !.stage = IF writes = verify.writes THEN "announced" ELSE "quiet"]
    /\ UNCHANGED <<env, file, writes, cfg, applier, submits, latest, worker, posted, timer, faults,
                   tested, promised, unrestored>>

-----------------------------------------------------------------------------

Work == Capture \/ Prepare \/ Write \/ Restore
Gui == NotCommitted \/ Commit \/ CommitFails
Next ==
    \/ \E v \in Values, apply \in BOOLEAN : Submit(v, apply)
    \/ Work \/ Gui \/ Repair \/ Announce

Spec == Init /\ [][Next]_vars
FairSpec == Spec /\ WF_vars(Work) /\ WF_vars(Gui)

-----------------------------------------------------------------------------
(* Properties *)

AgreesWith(contents, e, c, moved) ==
    LET saved == Effective(e, Saved(contents))
    IN /\ saved.creds = c.creds /\ saved.sync = c.sync
       /\ saved.path = c.path \/ (saved.path = Found /\ c.path = moved)
       /\ "creds" \in DOMAIN e \/ saved.draft = c.draft
Agrees(contents) == AgreesWith(contents, env, cfg, verify.path)

\* Once the pipeline is idle, a restart loads what the runtime follows, whatever was skipped,
\* failed or put back before: the file agrees with it unless it could not be restored, and
\* then the baseline kept for the next change does. A folder saved by the check at start is
\* there in place of the one that moved, never in place of one chosen since.
FileFollowsRuntime ==
    Idle => /\ unrestored \/ Agrees(file)
            /\ Agrees(IF applier.rollback = NoSnapshot THEN file ELSE applier.rollback)

\* At every moment, also for a restart in the middle of a change, the credentials in use are
\* ones the environment or the file gave at start, or ones Warcraft Logs has accepted.
UntestedNeverActive == cfg.creds \in tested /\ Load(file).creds \in tested

\* With the sync turned off no exit timer runs, not even one of a change that failed: the
\* program does not end with WoW.
NoExitTimerWithoutSync == ~cfg.sync => timer.running = {}

\* Why: what a worker captured, or the baseline kept for it, loads what the runtime
\* follows; what it wrote loads what the commit makes of the runtime; and nobody else
\* writes the file once it did.
Configs == [creds : {1, 2}, draft : {NoDraft, 1, 2}, path : {1, 2, Found}, sync : {TRUE, FALSE}]
Contents == Configs \cup {Absent}
Items == [no : Nat, values : Values, apply : {TRUE, FALSE}]
Stages == {"none", "capture", "prepare", "write", "restore"}
SettingsTyped ==
    /\ env \in Overrides /\ cfg \in Configs /\ file \in Contents /\ writes \in Nat
    /\ unrestored \in {TRUE, FALSE}
    /\ applier \in [pending : Items \cup {NoItem}, busy : {TRUE, FALSE},
                    rollback : Contents \cup {NoSnapshot}]
    /\ worker \in [stage : Stages, item : Items \cup {NoItem}, old : Configs,
                   snap : Contents \cup {NoSnapshot}, saved : Configs]
    /\ posted \subseteq [item : Items, old : Configs, ok : {TRUE, FALSE},
                         snap : Contents \cup {NoSnapshot}]
    /\ verify \in [stage : {"probing", "repaired", "quiet", "warned", "announced"},
                   absent : {TRUE, FALSE}, writes : Nat, path : {1, 2, Found}]
    /\ verify.stage = "probing" => verify.writes = 0
PipelineInvariant ==
    /\ submits \in Nat
    /\ applier.busy <=> worker.stage # "none" \/ posted # {}
    /\ ~applier.busy => applier.pending = NoItem
    /\ worker.stage # "none" => posted = {} /\ worker.item \in Items /\ worker.old = cfg
    /\ \A o \in posted : o.old = cfg
Baseline(contents) == IF applier.rollback = NoSnapshot THEN contents ELSE applier.rollback
NoFolder == 0
Follows(contents, o) == AgreesWith(contents, env, NewConfig(o), NoFolder)
FileInvariant ==
    /\ ~applier.busy => (unrestored \/ Agrees(file)) /\ Agrees(Baseline(file))
    /\ worker.stage = "capture" => Agrees(Baseline(file))
    /\ worker.stage \in {"prepare", "write", "restore"} =>
          worker.snap # NoSnapshot /\ Agrees(worker.snap)
    /\ \A o \in posted :
          /\ o.snap # NoSnapshot => Agrees(o.snap)
          /\ o.ok => o.snap # NoSnapshot /\ writes > 0 /\ Follows(file, o)
          /\ ~o.ok => unrestored \/ Agrees(file)
          /\ o.snap = NoSnapshot => applier.rollback = NoSnapshot /\ Agrees(file)
TestedItem(item) == item # NoItem /\ item.apply => item.values.creds \in tested
TestedContents(contents) == contents # NoSnapshot => Load(contents).creds \in tested
TestedInvariant ==
    /\ UntestedNeverActive /\ (Overridden("creds") => env.creds \in tested)
    /\ TestedContents(applier.rollback) /\ TestedContents(worker.snap)
    /\ TestedItem(applier.pending) /\ TestedItem(worker.item)
    /\ \A o \in posted : TestedContents(o.snap) /\ TestedItem(o.item)
TimerInvariant ==
    /\ timer \in [own : Nat, running : SUBSET Nat, created : Nat]
    /\ timer.own <= timer.created
    /\ timer.running \subseteq 1..timer.created
    /\ cfg.sync <=> timer.own # 0
    /\ NoExitTimerWithoutSync
    /\ timer.own \in timer.running => timer.running = {timer.own}
SettingsInvariant ==
    /\ SettingsTyped /\ PipelineInvariant /\ FileInvariant /\ TestedInvariant /\ TimerInvariant

\* Every change is answered, and when nothing failed the runtime follows the latest one.
ReachedRuntime ==
    /\ Idle
    /\ faults = 0 /\ latest # NoItem =>
          /\ cfg.path = Load([Saved(file) EXCEPT !.path = latest.values.path]).path
          /\ Overridden("sync") \/ cfg.sync = latest.values.sync
          /\ Overridden("creds") \/ latest.values.creds \in {cfg.creds, cfg.draft}
EditsReachRuntime == <>[]ReachedRuntime

\* What the comment in _on_finished says: a promotion of credentials is never dropped for a
\* newer change that would not repeat it.
PromotionSurvives ==
    Idle /\ faults = 0 /\ promised # 0 /\ ~Overridden("creds") => cfg.creds = promised

\* What the documentation says of turning the sync off ("turn sync off for manual launch
\* and quit"): the timer that runs is the one the program would stop.
RunningTimerIsKnown == timer.running \subseteq {timer.own}
=============================================================================
