------------------------------ MODULE WowLifecycle ------------------------------
(***************************************************************************)
(* Starting and stopping with World of Warcraft: the processes of one user. *)
(* A helper (--watch-wow) waits for the game and then becomes the program;  *)
(* the program's exit timer ends it when the game is gone, after starting a *)
(* helper for the next time (__main__.py: _prepare_wow_watch_mode,          *)
(* _start_wow_lifecycle_timer, _apply_wow_sync_runtime; wow_lifecycle.py:   *)
(* start_wow_sync_watcher, stop_current_session_watcher).  One program runs *)
(* at a time (runtime_control.py: acquire_runtime_owner,                    *)
(* create_control_server).                                                  *)
(***************************************************************************)
EXTENDS Naturals, FiniteSets

CONSTANTS
    Procs,          \* processes; an identity is used again once its process is gone
    Misses,         \* WOW_EXIT_MISSES_BEFORE_QUIT
    MaxGames,       \* bound: times the game starts or ends
    MaxActs,        \* bound: what the user does, and processes that crash
    MaxFaults       \* bound: operations that fail

VARIABLES
    wow, games,     \* the game runs
    sync,           \* the saved setting
    stage,          \* of each process
    byHelper,       \* the program that runs began as a helper
    timer,          \* its exit timer
    pending,        \* a change of the setting that is saved and not committed yet
    session,        \* the helper this program started, and those it could not stop
    acts, faults,
    excused         \* history: somebody left the user without a helper or a program

vars == <<wow, games, sync, stage, byHelper, timer, pending, session, acts, faults, excused>>

-----------------------------------------------------------------------------

NoOne == 0
At(s) == {p \in Procs : stage[p] = s}
\* The owner's mutex and its local server, which answer until the process ends.
Instance == At("run") \cup At("quit")
Helpers == At("watch") \cup At("probe") \cup At("launch")

NoTimer == [on |-> FALSE, observed |-> FALSE, misses |-> 0, check |-> "no"]
StartTimer(observed) == [NoTimer EXCEPT !.on = TRUE, !.observed = observed]
NoSession == [current |-> NoOne, retired |-> {}, ended |-> FALSE]
\* The program still holds the handles of helpers that have ended.
SessionWithout(p) ==
    [current |-> IF session.current = p THEN NoOne ELSE session.current,
     retired |-> session.retired \ {p},
     ended |-> session.ended \/ p \in session.retired]
Leaves(p) == stage' = [stage EXCEPT ![p] = "none"] /\ session' = SessionWithout(p)

Init ==
    /\ wow \in BOOLEAN /\ games = 0
    /\ sync \in BOOLEAN
    /\ \E p \in Procs : stage = [q \in Procs |-> IF q = p /\ sync THEN "watch" ELSE "none"]
    /\ byHelper = FALSE
    /\ timer = NoTimer /\ pending = "none" /\ session = NoSession
    /\ acts = 0 /\ faults = 0 /\ excused = FALSE

Act == acts < MaxActs /\ acts' = acts + 1
Fails == faults < MaxFaults /\ faults' = faults + 1

Game ==
    /\ games < MaxGames /\ games' = games + 1 /\ wow' = ~wow
    /\ UNCHANGED <<sync, stage, byHelper, timer, pending, session, acts, faults, excused>>

-----------------------------------------------------------------------------
(* A helper *)

\* It reads the setting again on every round, and leaves when it is off.
Watch(p) ==
    /\ stage[p] = "watch"
    /\ \/ sync /\ wow /\ stage' = [stage EXCEPT ![p] = "probe"] /\ UNCHANGED session
       \/ ~sync /\ Leaves(p)
    /\ UNCHANGED <<wow, games, sync, byHelper, timer, pending, acts, faults, excused>>

\* A program that runs will take care of the game; one that is ending will not.
LeavesBehind == excused' = (excused \/ At("quit") # {})

Probe(p) ==
    /\ stage[p] = "probe"
    /\ \/ Instance # {} /\ Leaves(p) /\ LeavesBehind
       \/ Instance = {} /\ stage' = [stage EXCEPT ![p] = "launch"] /\ UNCHANGED <<session, excused>>
    /\ UNCHANGED <<wow, games, sync, byHelper, timer, pending, acts, faults>>

\* create_control_server: the process becomes the program, or it is a duplicate and leaves.
Claim(p, helper) ==
    IF Instance # {}
    THEN Leaves(p) /\ LeavesBehind /\ UNCHANGED <<byHelper, timer, pending>>
    ELSE /\ stage' = [stage EXCEPT ![p] = "run"] /\ byHelper' = helper
         /\ timer' = IF sync THEN StartTimer(helper) ELSE NoTimer
         /\ pending' = "none" /\ session' = NoSession
         /\ UNCHANGED excused

Launch(p) ==
    /\ stage[p] = "launch" /\ Claim(p, TRUE)
    /\ UNCHANGED <<wow, games, sync, acts, faults>>

\* The user starts the program; a duplicate asks the first one to show itself.
Start(p) ==
    /\ stage[p] = "none" /\ Act /\ Claim(p, FALSE)
    /\ UNCHANGED <<wow, games, sync, faults>>

-----------------------------------------------------------------------------
(* start_wow_sync_watcher and stop_current_session_watcher *)

Alive(p) == p # NoOne /\ stage[p] \in {"watch", "probe", "launch"}

StartNothing(checkExisting, stages, started) == started = NoOne /\ stage' = stages    \* mutant
\* Nothing is started while the session's own helper lives, or while another one is found.
StartHelper(checkExisting, stages, started) ==
    \/ /\ Alive(session.current) \/ (checkExisting /\ Helpers # {})
       /\ started = NoOne /\ stage' = stages
    \/ /\ ~Alive(session.current) /\ ~(checkExisting /\ Helpers # {})
       /\ started # NoOne /\ stages[started] = "none"
       /\ stage' = [stages EXCEPT ![started] = "watch"]

Known(started) == [session EXCEPT !.current = IF started = NoOne THEN @ ELSE started]
\* A helper that could not be stopped forbids another one, even after it has ended.
Unstopped == session.retired # {} \/ session.ended

-----------------------------------------------------------------------------
(* The program *)

Running == At("run") # {}

\* A tick of the timer starts a scan unless one is under way.
Tick ==
    /\ Running /\ timer.on /\ timer.check = "no"
    /\ timer' = [timer EXCEPT !.check = "scan"]
    /\ UNCHANGED <<wow, games, sync, stage, byHelper, pending, session, acts, faults, excused>>

Scan ==
    /\ Running /\ timer.check = "scan"
    /\ \/ timer' = [timer EXCEPT !.check = IF wow THEN "seen" ELSE "missing"] /\ UNCHANGED faults
       \/ timer' = [timer EXCEPT !.check = "unknown"] /\ Fails
    /\ UNCHANGED <<wow, games, sync, stage, byHelper, pending, session, acts, excused>>

Seen ==
    /\ Running /\ timer.check = "seen"
    /\ timer' = [timer EXCEPT !.observed = TRUE, !.misses = 0, !.check = "no"]
    /\ UNCHANGED <<wow, games, sync, stage, byHelper, pending, session, acts, faults, excused>>

\* A scan that failed breaks the chain of evidence.
ScanFailedKeepsChecking ==    \* mutant
    /\ Running /\ timer.check = "unknown"
    /\ timer' = [timer EXCEPT !.misses = 0]
    /\ UNCHANGED <<wow, games, sync, stage, byHelper, pending, session, acts, faults, excused>>
ScanFailed ==
    /\ Running /\ timer.check = "unknown"
    /\ timer' = [timer EXCEPT !.misses = 0, !.check = "no"]
    /\ UNCHANGED <<wow, games, sync, stage, byHelper, pending, session, acts, faults, excused>>

Missed == IF timer.misses < Misses THEN timer.misses + 1 ELSE Misses
Counted == [timer EXCEPT !.misses = Missed, !.check = "no"]

\* Not enough evidence, the game was never seen, or quitting is refused for now.
Missing ==
    /\ Running /\ timer.check = "missing"
    /\ \/ ~timer.observed /\ timer' = [timer EXCEPT !.check = "no"] /\ UNCHANGED faults
       \/ timer.observed /\ timer' = Counted
          /\ \/ Missed < Misses /\ UNCHANGED faults
             \/ Missed = Misses /\ Fails
    /\ UNCHANGED <<wow, games, sync, stage, byHelper, pending, session, acts, excused>>

\* A helper is started first. Then quitting waits for a change that is saved: one that turns
\* the sync off ends the session's helpers again, and the program ends all the same.
EndWithGame(p) ==
    /\ stage[p] = "run" /\ timer.check = "missing" /\ timer.observed /\ Missed = Misses
    /\ pending # "off" /\ \E started \in Procs \cup {NoOne} :
          /\ StartHelper(TRUE, [stage EXCEPT ![p] = "quit"], started)
          /\ session' = Known(started)
          \* only helpers that are past waiting were found: they meet a program that ends
          /\ excused' = (excused \/ (started = NoOne /\ Helpers # {} /\ At("watch") = {}))
    /\ ~Unstopped
    /\ timer' = NoTimer /\ pending' = "none"
    /\ UNCHANGED <<wow, games, sync, byHelper, acts, faults>>

EndAfterTurnOff(p) ==
    /\ stage[p] = "run" /\ timer.check = "missing" /\ timer.observed /\ Missed = Misses
    /\ pending = "off" /\ ~Unstopped
    /\ stage' = [q \in Procs |-> IF q = p THEN "quit"
                               ELSE IF q = session.current /\ Alive(q) THEN "none" ELSE stage[q]]
    /\ session' = NoSession /\ timer' = NoTimer /\ pending' = "none"
    /\ UNCHANGED <<wow, games, sync, byHelper, acts, faults, excused>>

\* The tray's Quit or an update, once a saved change is committed: nothing is started.
Quit(p) ==
    /\ stage[p] = "run" /\ pending = "none" /\ Act
    /\ stage' = [stage EXCEPT ![p] = "quit"] /\ timer' = NoTimer
    /\ excused' = TRUE
    /\ UNCHANGED <<wow, games, sync, byHelper, pending, session, faults>>

\* The last of the program's threads and its mutex are gone.
End(p) ==
    /\ stage[p] = "quit" /\ Leaves(p)
    /\ UNCHANGED <<wow, games, sync, byHelper, timer, pending, acts, faults, excused>>

Crash(p) ==
    /\ stage[p] # "none" /\ Act
    /\ Leaves(p) /\ excused' = TRUE
    /\ IF stage[p] = "run" THEN timer' = NoTimer /\ pending' = "none" ELSE UNCHANGED <<timer, pending>>
    /\ UNCHANGED <<wow, games, sync, byHelper, faults>>

-----------------------------------------------------------------------------
(* The setting: saved by a worker, then committed by the GUI thread *)

Save(on) ==
    /\ Running /\ sync # on /\ Act
    /\ sync' = on /\ pending' = IF timer.on = on THEN "none" ELSE IF on THEN "on" ELSE "off"
    /\ UNCHANGED <<wow, games, stage, byHelper, timer, session, faults, excused>>

\* The helpers of the session are ended, or kept to be ended later.
StopHelpers ==
    LET own == {p \in {session.current} \cup session.retired : Alive(p)}
    IN \/ /\ stage' = [p \in Procs |-> IF p \in own THEN "none" ELSE stage[p]]
          /\ session' = NoSession /\ UNCHANGED faults
       \/ /\ own # {} /\ Fails
          /\ session' = [current |-> NoOne, retired |-> own, ended |-> FALSE] /\ UNCHANGED stage

TurnOn ==
    /\ Running /\ pending = "on" /\ pending' = "none"
    /\ \/ /\ ~Unstopped
          /\ \E started \in Procs \cup {NoOne} :
                StartHelper(FALSE, stage, started) /\ session' = Known(started)
          /\ timer' = StartTimer(FALSE) /\ UNCHANGED <<sync, faults>>
       \/ Unstopped /\ StopHelpers /\ sync' = FALSE /\ UNCHANGED timer
    /\ UNCHANGED <<wow, games, byHelper, acts, excused>>

TurnOff ==
    /\ Running /\ pending = "off" /\ pending' = "none"
    /\ timer' = NoTimer /\ StopHelpers
    /\ UNCHANGED <<wow, games, sync, byHelper, acts, excused>>

-----------------------------------------------------------------------------

HelperSteps == \E p \in Procs : Watch(p) \/ Probe(p) \/ Launch(p)
TimerSteps == Tick \/ Scan \/ Seen \/ ScanFailed \/ Missing \/ \E p \in Procs : EndWithGame(p) \/ EndAfterTurnOff(p)
Next ==
    \/ Game
    \/ HelperSteps \/ TimerSteps \/ TurnOn \/ TurnOff
    \/ \E p \in Procs : Start(p) \/ Quit(p) \/ End(p) \/ Crash(p)
    \/ \E on \in BOOLEAN : Save(on)

Spec == Init /\ [][Next]_vars
Ends == \E p \in Procs : End(p)
FairSpec ==
    /\ Spec
    /\ \A p \in Procs : WF_vars(Watch(p)) /\ WF_vars(Probe(p)) /\ WF_vars(Launch(p))
    /\ WF_vars(TimerSteps) /\ WF_vars(Ends) /\ WF_vars(TurnOn \/ TurnOff)

-----------------------------------------------------------------------------
(* Properties *)

\* While the setting is on, a helper waits or the program runs, whatever the user and the
\* game did, unless the user ended it, a process crashed, or a helper met a program that was
\* ending.
NobodyLeftBehind ==
    sync /\ ~excused /\ pending = "none" => Helpers # {} \/ Running

\* Why: what ends a program that was not told to leaves a helper behind, a helper that
\* leaves has seen the program, and a saved change is only ever turned off while it is.
LifecycleInvariant ==
    /\ stage \in [Procs -> {"none", "watch", "probe", "launch", "run", "quit"}]
    /\ session \in [current : Procs \cup {NoOne}, retired : SUBSET Procs, ended : {TRUE, FALSE}]
    /\ sync \in {TRUE, FALSE} /\ excused \in {TRUE, FALSE}
    /\ pending \in {"none", "on", "off"} /\ (pending = "off" => ~sync)
    /\ NobodyLeftBehind

\* A game that stays finds the program running, and a program whose game is gone for good
\* ends, once nobody intervenes. With the setting off no helper waits on.
FollowsNow ==
    /\ sync /\ ~excused /\ pending = "none" =>
          /\ wow => Running
          /\ ~wow /\ Running => ~timer.observed
    /\ ~sync => At("watch") = {}
FollowsTheGame == <>[]FollowsNow
=============================================================================
