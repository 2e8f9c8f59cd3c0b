------------------------------ MODULE SettingsEdits ------------------------------
(***************************************************************************)
(* How the edits of the settings dialog become saved settings               *)
(* (settings_dialog.py, SettingsDialog): every edit starts the autosave     *)
(* timer; an edited screenshots folder is probed by a process of its own    *)
(* and may not be saved before the probe found it good; updates, the reset  *)
(* of the cache and the credential test hold saves back; quitting flushes.  *)
(* The generations of the validation are kept as what their comparison with *)
(* the current generation says.                                             *)
(***************************************************************************)
EXTENDS Naturals

CONSTANTS
    Folders,        \* non-empty screenshots paths
    MaxEdits,       \* bound: edits of the user
    MaxActs         \* bound: updates, cache resets and credential tests

VARIABLES
    path, other,    \* the fields: the screenshots path, and all other settings
    good,           \* folders that a probe finds good
    autosave, debounce,         \* _autosave_timer, _screenshots_warning_timer
    started, ready, required,   \* the current generation was started, is ready, is required
    waiting,        \* _screenshots_validation_waiting_autosave
    warning,        \* path and verdict of the last finished probe
    readyPath,      \* _last_ready_screenshots_path
    probe,          \* the process that runs: its path, and whether its generation is current
    baseline,       \* _last_emitted_values, or the initial values
    applied,        \* the values last given to the settings pipeline
    reports,        \* results of the settings pipeline still to come, at most two
    succeeded,      \* _last_values_apply_succeeded
    busy,           \* "no", "update", "cache" or "test"
    tested,         \* the other settings that the running test was given
    quit,
    edits, acts,
    clean           \* history: folders that some probe found good

vars == <<path, other, good, autosave, debounce, started, ready, required, waiting, warning,
          readyPath, probe, baseline, applied, reports, succeeded, busy, tested, quit,
          edits, acts, clean>>

-----------------------------------------------------------------------------

Empty == "empty"
NoProbe == [on |-> FALSE, path |-> Empty, current |-> FALSE]
values == [path |-> path, other |-> other]
\* An update and a reset of the cache disable the controls.
Enabled == busy \notin {"update", "cache"}

Init ==
    /\ path \in Folders /\ other = 0
    /\ good \in SUBSET Folders
    /\ autosave = FALSE /\ debounce = FALSE
    /\ started = FALSE /\ ready = FALSE /\ required = FALSE
    /\ waiting = FALSE /\ warning = [path |-> Empty, bad |-> FALSE]
    /\ readyPath = path             \* the saved path is trusted until it is edited
    /\ probe = NoProbe
    /\ baseline = values /\ applied = values
    /\ reports = 0 /\ succeeded = TRUE
    /\ busy = "no" /\ tested = 0 /\ quit = FALSE
    /\ edits = 0 /\ acts = 0
    /\ clean = {path}

-----------------------------------------------------------------------------
\* Edits.

Edit == ~quit /\ Enabled /\ edits < MaxEdits /\ edits' = edits + 1

\* _schedule_screenshots_warning, with require_before_save
Revalidate(p) ==
    /\ started' = FALSE /\ required' = TRUE
    /\ probe' = [probe EXCEPT !.current = FALSE]
    /\ debounce' = (p # Empty)
    /\ ready' = (p = Empty)
    /\ waiting' = (waiting /\ p # Empty)
    /\ warning' = IF p = Empty THEN [path |-> Empty, bad |-> FALSE] ELSE warning

\* Typing another path, or choosing one; choosing the same path probes it again.
EditPath ==
    /\ Edit
    /\ path' \in Folders \cup {Empty} /\ (path' = path => path # Empty)
    /\ Revalidate(path')
    /\ autosave' = TRUE
    /\ UNCHANGED <<other, good, readyPath, baseline, applied, reports, succeeded, busy, tested,
                   quit, acts, clean>>

EditOther ==
    /\ Edit
    /\ other' = 1 - other
    /\ autosave' = TRUE
    /\ UNCHANGED <<path, good, debounce, started, ready, required, waiting, warning, readyPath,
                   probe, baseline, applied, reports, succeeded, busy, tested, quit, acts, clean>>

-----------------------------------------------------------------------------
\* The probe.

\* _start_screenshots_validation: a newer probe kills the one that runs.
StartProbe(begun) ==
    IF path = Empty \/ begun
    THEN UNCHANGED <<debounce, probe>> /\ started' = begun
    ELSE /\ debounce' = FALSE /\ started' = TRUE
         /\ probe' = [on |-> TRUE, path |-> path, current |-> TRUE]

Checked == ready /\ warning.path = path

\* _current_screenshots_validation and _hard_validation_error: what keeps the
\* current values from being saved.
Obstacle(requireReady) ==
    IF path = Empty THEN "none"
    ELSE IF Checked THEN IF warning.bad THEN "bad" ELSE "none"
    ELSE IF ~requireReady /\ ~required THEN "none"
    ELSE "pending"

\* _screenshots_save_may_proceed
MayProceed ==
    IF path # baseline.path THEN other # baseline.other
    ELSE ~required /\ path = readyPath

\* A save of other settings takes the last good folder along.
Unpinned == values      \* mutant
Pinned == [values EXCEPT !.path = readyPath]

\* The pipeline reports a worker that does not start at once, other results later.
Later == IF reports < 2 THEN reports + 1 ELSE reports    \* one applied, one waiting
Reports == succeeded' \in BOOLEAN /\ reports' = IF succeeded' THEN Later ELSE reports

Sends(v) == baseline' = v /\ applied' = v /\ Reports

Blocked ==
    /\ succeeded' = FALSE
    /\ UNCHANGED <<baseline, applied, reports>>

\* _emit_values_changed_if_valid; `begun`, `wait`: started and waiting as the
\* caller leaves them.  A pending folder starts its probe.
Emit(requireReady, begun, wait) ==
    IF busy = "update"
    THEN UNCHANGED <<baseline, applied, reports, succeeded, debounce, probe>>
         /\ started' = begun /\ waiting' = wait
    ELSE CASE Obstacle(requireReady) = "none" ->
                /\ Sends(values) /\ waiting' = wait
                /\ UNCHANGED <<debounce, probe>> /\ started' = begun
           [] Obstacle(requireReady) = "bad" ->
                /\ Blocked /\ waiting' = wait
                /\ UNCHANGED <<debounce, probe>> /\ started' = begun
           [] OTHER ->
                /\ StartProbe(begun)
                /\ waiting' = TRUE
                /\ IF ~requireReady /\ MayProceed THEN Sends(Pinned) ELSE Blocked

Autosave ==
    /\ ~quit /\ autosave /\ autosave' = FALSE
    /\ Emit(FALSE, started, waiting)
    /\ UNCHANGED <<path, other, good, ready, required, warning, readyPath, busy, tested, quit,
                   edits, acts, clean>>

Debounce ==
    /\ ~quit /\ debounce
    /\ IF path = Empty \/ started
       THEN debounce' = FALSE /\ UNCHANGED <<started, probe>>
       ELSE StartProbe(FALSE)
    /\ UNCHANGED <<path, other, good, autosave, ready, required, waiting, warning, readyPath,
                   baseline, applied, reports, succeeded, busy, tested, quit, edits, acts, clean>>

\* The result of a probe for another generation or path starts the one that is due.
StaleResult ==
    /\ ~quit /\ probe.on /\ ~(probe.current /\ probe.path = path)
    /\ IF path = Empty \/ started
       THEN probe' = NoProbe /\ UNCHANGED <<debounce, started>>
       ELSE StartProbe(FALSE)
    /\ UNCHANGED <<path, other, good, autosave, ready, required, waiting, warning, readyPath,
                   baseline, applied, reports, succeeded, busy, tested, quit, edits, acts, clean>>

ResultWith(bad) ==
    /\ warning' = [path |-> path, bad |-> bad]
    /\ ready' = TRUE
    /\ readyPath' = IF bad THEN readyPath ELSE path
    /\ clean' = IF bad THEN clean ELSE clean \cup {path}

\* _finish_screenshots_validation; a probe that fails or takes too long counts
\* as a bad folder.  A save that waited for it is made now.
WaitedIgnored == waiting /\ other = 2       \* mutant
Waited == waiting

Result ==
    /\ ~quit /\ probe.on /\ probe.current /\ probe.path = path
    /\ probe' = NoProbe
    /\ \E bad \in BOOLEAN :
         /\ path \notin good => bad
         /\ ResultWith(bad)
         /\ started' \in BOOLEAN /\ (~bad => started') \* one that is killed was not started
         /\ IF Enabled /\ Waited
            THEN /\ waiting' = FALSE /\ autosave' = FALSE
                 /\ IF bad THEN Blocked ELSE Sends(values)
            ELSE UNCHANGED <<waiting, autosave, baseline, applied, reports, succeeded>>
    /\ UNCHANGED <<path, other, good, debounce, required, busy, tested, quit, edits, acts>>

-----------------------------------------------------------------------------
\* Saves that come back, and what holds saves back.

\* report_values_apply_result
Reported ==
    /\ ~quit /\ reports > 0 /\ reports' = reports - 1
    /\ succeeded' \in BOOLEAN
    /\ UNCHANGED <<path, other, good, autosave, debounce, started, ready, required, waiting,
                   warning, readyPath, probe, baseline, applied, busy, tested, quit, edits, acts,
                   clean>>

\* flush_pending_values: it saves what is pending and returns how the last save went.
Flush(requireReady) ==
    /\ busy = "no"
    /\ IF autosave THEN Emit(requireReady, started, waiting)
                   ELSE UNCHANGED <<baseline, applied, reports, succeeded, debounce, probe,
                                    started, waiting>>
    /\ autosave' = FALSE

Act == ~quit /\ acts < MaxActs /\ acts' = acts + 1

\* _check_for_updates, _run_update, _clear_cache_dir
Hold ==
    /\ Act
    /\ Flush(FALSE)
    /\ IF succeeded' THEN busy' \in {"update", "cache"} ELSE UNCHANGED busy
    /\ UNCHANGED <<path, other, good, ready, required, warning, readyPath, tested, quit, edits, clean>>

\* _refresh_settings_interaction_state: a probe that ended meanwhile is acted upon.
Release ==
    /\ ~quit /\ ~Enabled
    /\ busy' = "no"
    /\ IF waiting /\ ready THEN waiting' = FALSE /\ autosave' = TRUE
                           ELSE UNCHANGED <<waiting, autosave>>
    /\ UNCHANGED <<path, other, good, debounce, started, ready, required, warning, readyPath,
                   probe, baseline, applied, reports, succeeded, tested, quit, edits, acts, clean>>

_test_credentials ==
    /\ Act /\ busy = "no"
    /\ busy' = "test" /\ tested' = other
    /\ UNCHANGED <<path, other, good, autosave, debounce, started, ready, required, waiting,
                   warning, readyPath, probe, baseline, applied, reports, succeeded, quit, edits,
                   clean>>

\* A test that succeeded for the current settings saves them, unless the folder
\* may not be saved.
TestEnds ==
    /\ ~quit /\ busy = "test" /\ busy' = "no"
    /\ \E success \in BOOLEAN :
         IF success /\ tested = other
         THEN IF Obstacle(FALSE) = "none"
              THEN /\ autosave' = FALSE
                   /\ applied' = values
                   /\ \/ succeeded' = FALSE /\ UNCHANGED reports
                      \/ UNCHANGED succeeded /\ reports' = Later
                   /\ UNCHANGED <<debounce, started, probe>>
              ELSE /\ UNCHANGED <<autosave, applied, reports, succeeded>>
                   /\ IF Obstacle(FALSE) = "pending"
                      THEN StartProbe(started) ELSE UNCHANGED <<debounce, started, probe>>
         ELSE UNCHANGED <<autosave, applied, reports, succeeded, debounce, started, probe>>
    /\ UNCHANGED <<path, other, good, ready, required, waiting, warning, readyPath, baseline,
                   tested, quit, edits, acts, clean>>

\* prepare_quit, which the dialog's own quit and the tray's quit go through.
prepare_quit ==
    /\ ~quit
    /\ Flush(required) /\ quit' = succeeded'
    /\ UNCHANGED <<path, other, good, ready, required, warning, readyPath, busy, tested, edits,
                   acts, clean>>

-----------------------------------------------------------------------------

Next ==
    \/ EditPath \/ EditOther
    \/ Autosave \/ Debounce \/ StaleResult \/ Result
    \/ Reported \/ Hold \/ Release \/ _test_credentials \/ TestEnds
    \/ prepare_quit

Spec == Init /\ [][Next]_vars

\* Timers fire, probes end (or are timed out), and so do updates, resets and tests.
FairSpec ==
    /\ Spec
    /\ WF_vars(Autosave) /\ WF_vars(Debounce) /\ WF_vars(StaleResult \/ Result)
    /\ WF_vars(Release) /\ WF_vars(TestEnds)

-----------------------------------------------------------------------------

TypeOK ==
    /\ path \in Folders \cup {Empty} /\ other \in {0, 1}
    /\ probe \in [on : BOOLEAN, path : Folders \cup {Empty}, current : BOOLEAN]
    /\ applied.path \in Folders \cup {Empty} /\ baseline.path \in Folders \cup {Empty}
    /\ busy \in {"no", "update", "cache", "test"}

\* A folder is never given to the settings pipeline, and through it to the
\* watcher, before a probe has found it good, although other settings are saved
\* while its probe runs.
OnlyProbedFolders == applied.path \in clean \cup {Empty}

\* Why: what may be saved is the folder shown, if a probe found it good or nobody has
\* edited it, or else the last folder that a probe found good.
FlagsTyped ==
    /\ autosave \in BOOLEAN /\ debounce \in BOOLEAN /\ started \in BOOLEAN
    /\ ready \in BOOLEAN /\ required \in BOOLEAN /\ waiting \in BOOLEAN
ProbedInvariant ==
    /\ applied.path \in clean \cup {Empty}
    /\ clean \subseteq Folders \cup {Empty} /\ readyPath \in clean
    /\ ~required => path \in clean
    /\ ~warning.bad => warning.path \in clean \cup {Empty}
EditsInvariant == TypeOK /\ FlagsTyped /\ ProbedInvariant

\* When the user stops editing, the dialog's values are saved, or the folder it
\* shows was found bad: no save stays behind a probe, an update or a test.
SavedOrBad == quit \/ applied = values \/ (Checked /\ warning.bad)
EditsAreSaved == <>[]SavedOrBad

\* The promise of prepare_quit's comment.  The code breaks it: when another
\* setting was saved while the folder's probe runs, nothing is left to flush and
\* the last save went well, so the program quits and the folder is dropped.
QuitKeepsTheFolder == quit => ~(required /\ ~ready /\ applied.path # path)

=============================================================================
