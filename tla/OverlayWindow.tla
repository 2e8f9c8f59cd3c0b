---------------------------- MODULE OverlayWindow ----------------------------
(***************************************************************************)
(* What of the overlay is in sight (overlay.py: OverlayWindow,             *)
(* OverlayLauncher; foreground_hook.py).  The window and its badge, the    *)
(* launcher, lie on top of everything, so they have to leave when another  *)
(* program comes to the front and to return with the game, whatever the    *)
(* user, the snapshots, the task switcher and the clock do in between.     *)
(*                                                                         *)
(* A timer and a hook make the window look at what is in front.  It looks  *)
(* more than once in a tick, and the front may change between the looks.   *)
(* Deadlines are flags that time takes away in any order.  Where the two   *)
(* surfaces lie and what they show is left out.                            *)
(***************************************************************************)
EXTENDS Naturals

VARIABLES
    front,      \* whose window is in front
    button,     \* the left mouse button is down
    ui,         \* the window and the badge, see UI
    hook,       \* ForegroundHook: its thread, _stop_requested, whether start()
                \* waits for it, and whether the window owns it
    refresh,    \* _schedule_overlay_refresh: the flush has to show the rows
    closed      \* _closed

vars == <<front, button, ui, hook, refresh, closed>>

\* "overlay": the window itself; "unknown": no window, or one of a process that
\* cannot be told.
Fronts == {"game", "other", "unknown", "switcher", "overlay"}

UI == [open : BOOLEAN,          \* the window is visible
       collapsed : BOOLEAN,     \* _collapsed_to_launcher
       badge : BOOLEAN,         \* the launcher is visible
       says : BOOLEAN,          \* its tooltip: set_overlay_open
       game : BOOLEAN,          \* _game_foreground
       linger : BOOLEAN,        \* _launcher_visible_after_non_game_foreground
       timer : {"off", "slow", "fast"},         \* _foreground_timer
       drag : {"none", "pressed", "moved"},     \* _drag_active, _dragged
       settling : BOOLEAN,      \* _drag_button_up_since
       manual : BOOLEAN,        \* before _manual_reopen_grace_until
       loss : {"none", "runs", "over"},     \* _open_overlay_foreground_loss_grace_until
       grace : BOOLEAN,         \* before _launcher_foreground_grace_until
       switcher : BOOLEAN]      \* a switcher was seen less than TASK_SWITCHER_SETTLE_S ago

Threads == {"installing", "failed", "installed", "loop", "ended"}

TypeOK ==
    /\ front \in Fronts /\ button \in BOOLEAN
    /\ ui \in UI
    /\ hook \in [thread : Threads, stop : BOOLEAN, waiting : BOOLEAN, owned : BOOLEAN]
    /\ refresh \in BOOLEAN /\ closed \in BOOLEAN

\* The constructor ends with the badge, if the game is in front, and the hook
\* being installed.
Init ==
    /\ front \in Fronts \ {"overlay"} /\ button = FALSE
    /\ ui = [open |-> FALSE, collapsed |-> TRUE, badge |-> front = "game", says |-> FALSE,
             game |-> front = "game", linger |-> FALSE, timer |-> "fast", drag |-> "none",
             settling |-> FALSE, manual |-> FALSE, loss |-> "none", grace |-> FALSE,
             switcher |-> FALSE]
    /\ hook = [thread |-> "installing", stop |-> FALSE, waiting |-> TRUE, owned |-> FALSE]
    /\ refresh = FALSE /\ closed = FALSE

-----------------------------------------------------------------------------
(* What the window sees.                                                   *)

\* classify_foreground_state: this program's own window is another program's.
StateOf(f) == CASE f = "game" -> "game" [] f = "unknown" -> "unknown" [] OTHER -> "other"
Active(f) == f = "overlay"

\* _is_overlay_effectively_hidden.
Hidden(w) == ~(w.open /\ ~w.collapsed)
Dragging(w) == w.drag # "none"

-----------------------------------------------------------------------------
(* The steps handlers are made of.                                         *)

\* _update_foreground_polling.
Poll(w) ==
    IF Dragging(w) THEN w
    ELSE [w EXCEPT !.timer = IF w.badge \/ ~Hidden(w) THEN "fast" ELSE "slow"]

\* _finish_drag tells the window, which gives the badge its grace and polls again.
Dropped(w) == [w EXCEPT !.drag = "none", !.settling = FALSE]
NeverResumed(w) == [w EXCEPT !.grace = TRUE]    \* mutant
Resumed(w) == Poll([w EXCEPT !.grace = TRUE])

\* A badge that is hidden while it is dragged ends the drag, without a click.
HideBadge(w) ==
    IF w.badge /\ Dragging(w) THEN Resumed(Dropped([w EXCEPT !.badge = FALSE]))
    ELSE [w EXCEPT !.badge = FALSE]

\* _hide_launcher_for_foreground_loss.
LeaveBadge(w) == [HideBadge([w EXCEPT !.linger = FALSE]) EXCEPT !.says = FALSE]
\* The window is hidden unless the user works in it.
LeaveWindow(w, active) == IF active THEN w ELSE [w EXCEPT !.open = FALSE]

\* _ensure_launcher_visible_for_open_overlay.
Ensure(w) == IF Dragging(w) \/ w.game THEN [w EXCEPT !.badge = TRUE] ELSE HideBadge(w)

\* show and showEvent.
ShowWindow(w) ==
    IF w.open THEN w
    ELSE [Ensure([w EXCEPT !.open = TRUE, !.collapsed = FALSE]) EXCEPT !.says = TRUE]

\* show_launcher_only, and _collapse_from_launcher_toggle, which does not move
\* a badge in sight.
LauncherOnly(w) ==
    LET v == [w EXCEPT !.collapsed = TRUE, !.open = FALSE, !.says = FALSE]
    IN IF Dragging(v) \/ v.game THEN Poll([v EXCEPT !.badge = TRUE]) ELSE Poll(HideBadge(v))

\* _restore_from_launcher, from the badge or from the tray.  A click on a badge
\* that was shown over the game does not look what is in front.
Reopened(w, fromBadge) ==
    LET hot == fromBadge /\ Hidden(w) /\ w.badge /\ w.game /\ ~w.linger
        v == [w EXCEPT !.game = TRUE, !.manual = @ \/ ~w.game, !.grace = hot,
                       !.loss = IF hot THEN "runs" ELSE "none",
                       !.linger = FALSE, !.collapsed = FALSE]
    IN Poll([Ensure(ShowWindow(v)) EXCEPT !.says = TRUE])
Restored(w, fromBadge) ==
    IF fromBadge /\ ~(Hidden(w) /\ w.badge /\ w.game /\ ~w.linger) /\ StateOf(front) = "other"
    THEN LeaveBadge([w EXCEPT !.game = FALSE, !.collapsed = TRUE])
    ELSE Reopened(w, fromBadge)

\* _toggle_from_launcher.
Toggled(w) == IF Hidden(w) THEN Restored(w, TRUE) ELSE LauncherOnly(w)

\* _maybe_show: over the game a hidden window stays hidden and its badge comes,
\* although its callers' comments speak of popping the window; away from the game
\* an open one may be hidden.
MaybeShow(w) ==
    IF w.game THEN Poll(IF Hidden(w) /\ ~Dragging(w) THEN [w EXCEPT !.badge = TRUE] ELSE w)
    ELSE IF ~Hidden(w) /\ StateOf(front) = "unknown" THEN Poll(w)
    ELSE IF Hidden(w) /\ Dragging(w) THEN w
    ELSE Poll(LeaveWindow(LeaveBadge(w), Active(front)))

\* Handlers of a window that is closed return at once.
Shows(w) == ui' = IF closed THEN ui ELSE w

\* A window that is gone is in front no more.
KeepFront ==
    IF Active(front) /\ ~ui'.open THEN front' \in {"game", "other", "unknown"}
    ELSE front' = front

\* The GUI thread, once the constructor has returned.
GuiRuns == ~hook.waiting

-----------------------------------------------------------------------------
(* _sync_game_foreground_visibility.  state is what was in front at the     *)
(* first look, seen at the later ones.                                      *)

Latched == ui.manual /\ ~Hidden(ui)
KeepReopened(state, seen) ==
    /\ Latched
    /\ ui' = Poll([ui EXCEPT !.switcher = @ \/ seen = "switcher", !.game = state = "game"])

HideForSwitcher(seen) ==
    /\ ~Latched /\ seen = "switcher"
    /\ ui' = Poll(LeaveWindow(LeaveBadge(
                [ui EXCEPT !.switcher = TRUE, !.loss = "none", !.game = FALSE]), Active(seen)))

KeepUnknown(state, seen) ==
    /\ ~Latched /\ seen # "switcher" /\ state = "unknown"
    /\ ui' = Poll(ui)

Told(state, seen) == ~Latched /\ seen # "switcher" /\ state # "unknown"

\* The user works in the window: it is active, the cursor is over it or its sort
\* menu is open.  Or the game was lost a moment ago.
Lost(state) == ~Hidden(ui) /\ state # "game"
HoldOpen(state, seen, works) ==
    /\ Told(state, seen) /\ Lost(state)
    /\ \/ /\ works \/ ui.loss = "none"
          /\ ui' = Poll([ui EXCEPT !.loss = "runs"])
       \/ /\ ~works /\ ui.loss = "runs"
          /\ ui' = Poll(ui)

\* What remains is decided without the loss, or after it.
Decided(state, seen, works) ==
    Told(state, seen) /\ (Lost(state) => ~works /\ ui.loss = "over")
Calm(state) == IF Lost(state) THEN ui ELSE [ui EXCEPT !.loss = "none"]

HeldBadge == Hidden(ui) /\ ui.badge /\ ui.grace
HoldBadge(state, seen, works) ==
    /\ Decided(state, seen, works) /\ state # "game" /\ HeldBadge
    /\ ui' = [Calm(state) EXCEPT !.linger = TRUE]

\* Another program is in front.
Leave(state, seen, works) ==
    /\ Decided(state, seen, works) /\ state # "game" /\ ~HeldBadge
    /\ LET w == Calm(state) IN
         \/ /\ w.game
            /\ ui' = Poll(LeaveWindow(LeaveBadge([w EXCEPT !.game = FALSE]), Active(seen)))
         \/ /\ ~w.game /\ Hidden(w) /\ w.badge
            /\ ui' = Poll(LeaveBadge(w))
         \/ /\ ~w.game /\ ~(Hidden(w) /\ w.badge) /\ w.open /\ ~Active(seen)
            /\ ui' = Poll(LeaveBadge([w EXCEPT !.open = FALSE]))
         \/ /\ ~w.game /\ ~(Hidden(w) /\ w.badge) /\ (w.open => Active(seen))
            /\ ui' = w

\* The game is in front again, and no switcher was a moment ago.
EagerlyReturn(state, seen, works) == Decided(state, seen, works) /\ state = "game"    \* mutant
Settled(state, seen, works) == Decided(state, seen, works) /\ state = "game" /\ ~ui.switcher
Return(state, seen, works) ==
    /\ Settled(state, seen, works)
    /\ LET w == Calm(state)
           v == [w EXCEPT !.game = TRUE, !.linger = FALSE]
       IN ui' = IF w.game THEN w
                ELSE IF Hidden(v)
                     THEN Poll(IF Dragging(v) THEN v ELSE [v EXCEPT !.badge = TRUE])
                     ELSE Poll([Ensure(ShowWindow(v)) EXCEPT !.says = TRUE])
AwaitSettled(state, seen, works) ==
    /\ Decided(state, seen, works) /\ state = "game" /\ ui.switcher
    /\ ui' = IF ui.game THEN Calm(state) ELSE Poll(Calm(state))

Look(state, seen, works) ==
    \/ KeepReopened(state, seen) \/ HideForSwitcher(seen) \/ KeepUnknown(state, seen)
    \/ HoldOpen(state, seen, works)
    \/ HoldBadge(state, seen, works) \/ Leave(state, seen, works)
    \/ Return(state, seen, works) \/ AwaitSettled(state, seen, works)

Sync ==
    IF closed \/ Dragging(ui) THEN UNCHANGED <<ui, front>>
    ELSE \E seen \in Fronts, works \in BOOLEAN :
           /\ seen = "overlay" => ui.open
           /\ works => ui.open
           /\ Look(StateOf(front), seen, works \/ Active(seen))
           /\ front' = seen

TimerTick ==
    /\ GuiRuns /\ ui.timer # "off"
    /\ Sync
    /\ UNCHANGED <<button, hook, refresh, closed>>

\* The hook hears that something came to the front: _handle_win_event, the
\* signal and _on_foreground_hook.
HookTick ==
    /\ GuiRuns /\ hook.thread = "loop" /\ ~hook.stop
    /\ Sync
    /\ UNCHANGED <<button, hook, refresh, closed>>

-----------------------------------------------------------------------------
(* The user.                                                                *)

\* restore_from_tray; Windows may refuse to activate the window.
RestoreFromTray ==
    /\ GuiRuns /\ ~closed
    /\ ui' = Restored(ui, FALSE)
    /\ front' \in {front, "overlay"}
    /\ UNCHANGED <<button, hook, refresh, closed>>

\* The hide button of the window, or closeEvent.
Collapse ==
    /\ GuiRuns /\ ~closed /\ ui.open
    /\ ui' = LauncherOnly(ui)
    /\ KeepFront
    /\ UNCHANGED <<button, hook, refresh, closed>>

\* mousePressEvent on the badge.  A release that was lost may precede it.
Press ==
    /\ GuiRuns /\ ui.badge /\ ~button
    /\ button' = TRUE
    /\ ui' = [ui EXCEPT !.drag = "pressed", !.settling = FALSE, !.timer = "off"]
    /\ UNCHANGED <<front, hook, refresh, closed>>

\* _finish_drag with a click, if the badge was not moved; the click is over
\* before the window hears of the end of the drag.
Finished(w) == Resumed(IF w.drag = "pressed" THEN Toggled(Dropped(w)) ELSE Dropped(w))

\* mouseReleaseEvent, which Qt may miss; the badge may be dragged no more.
Release ==
    /\ GuiRuns /\ button /\ button' = FALSE
    /\ ui' \in {ui, IF Dragging(ui) THEN Finished(ui) ELSE ui}
    /\ KeepFront
    /\ UNCHANGED <<hook, refresh, closed>>

\* _poll_drag_cursor, and mouseMoveEvent while the button is down.
DragOn ==
    /\ GuiRuns /\ Dragging(ui) /\ button
    /\ ui' \in {[ui EXCEPT !.settling = FALSE],
                [ui EXCEPT !.settling = FALSE, !.drag = "moved"]}
    /\ UNCHANGED <<front, button, hook, refresh, closed>>
FindReleased ==
    /\ GuiRuns /\ Dragging(ui) /\ ~button
    /\ \/ ui.drag = "moved" /\ ~ui.settling /\ ui' = [ui EXCEPT !.settling = TRUE]
       \/ ui.drag = "pressed" /\ ui' = [ui EXCEPT !.drag = "moved", !.settling = TRUE]
       \/ (ui.drag = "moved" => ui.settling) /\ ui' = Finished(ui)
    /\ KeepFront
    /\ UNCHANGED <<button, hook, refresh, closed>>

-----------------------------------------------------------------------------
(* Snapshots.                                                               *)

\* on_applicant_added, on_applicant_removed, on_listing_changed,
\* on_roster_changed, on_cleared: some ask for a refresh that shows the rows, and
\* a new listing with applicants shows them at once.
ChangeRows ==
    /\ GuiRuns
    /\ refresh' \in {refresh, TRUE}
    /\ UNCHANGED ui \/ Shows(MaybeShow(ui))
    /\ KeepFront
    /\ UNCHANGED <<button, hook, closed>>
\* Nothing is left and nothing is listed.
LoseRows ==
    /\ GuiRuns
    /\ refresh' \in {refresh, TRUE}
    /\ Shows(LauncherOnly(ui))
    /\ KeepFront
    /\ UNCHANGED <<button, hook, closed>>

\* _flush_overlay_refresh; there may be no rows any more.
Flush ==
    /\ GuiRuns /\ refresh /\ refresh' = FALSE
    /\ UNCHANGED ui \/ Shows(MaybeShow(ui))
    /\ KeepFront
    /\ UNCHANGED <<button, hook, closed>>

-----------------------------------------------------------------------------
(* The world: what comes to the front, and time.                            *)

MoveFront ==
    /\ front' \in Fronts \ {front} /\ (Active(front') => ui.open /\ GuiRuns)
    /\ UNCHANGED <<button, ui, hook, refresh, closed>>

PassTime(deadline) ==
    /\ \/ deadline = "manual" /\ ui.manual /\ ui' = [ui EXCEPT !.manual = FALSE]
       \/ deadline = "loss" /\ ui.loss = "runs" /\ ui' = [ui EXCEPT !.loss = "over"]
       \/ deadline = "grace" /\ ui.grace /\ ui' = [ui EXCEPT !.grace = FALSE]
       \/ deadline = "switcher" /\ ui.switcher /\ ui' = [ui EXCEPT !.switcher = FALSE]
    /\ UNCHANGED <<front, button, hook, refresh, closed>>
Deadlines == {"manual", "loss", "grace", "switcher"}

-----------------------------------------------------------------------------
(* ForegroundHook.                                                          *)

HookOnly == UNCHANGED <<front, button, ui, refresh, closed>>

\* _thread_main installs the hook, or fails, and says so; it enters its loop
\* unless it has been given up meanwhile.
Install ==
    /\ hook.thread = "installing"
    /\ \E result \in {"installed", "failed"} : hook' = [hook EXCEPT !.thread = result]
    /\ HookOnly
Entered(h) == IF h.stop THEN "ended" ELSE "loop"
EnterLoop ==
    /\ hook.thread = "installed"
    /\ hook' = [hook EXCEPT !.thread = Entered(hook)]
    /\ HookOnly

\* start returns, or gives up waiting and stops the hook.
StartReturns ==
    /\ hook.waiting
    /\ hook' = IF hook.thread = "installing" THEN [hook EXCEPT !.waiting = FALSE, !.stop = TRUE]
               ELSE [hook EXCEPT !.waiting = FALSE, !.owned = hook.thread # "failed"]
    /\ HookOnly

\* _run_message_loop ends with WM_QUIT or an error, and the hook is removed.
EndLoop ==
    /\ hook.thread = "loop"
    /\ hook' = [hook EXCEPT !.thread = "ended"]
    /\ HookOnly
Quit == hook.stop /\ EndLoop

-----------------------------------------------------------------------------
\* _begin_terminal_shutdown.
Shutdown ==
    /\ GuiRuns /\ ~closed /\ closed' = TRUE
    /\ ui' = [Dropped(ui) EXCEPT !.timer = "off", !.open = FALSE, !.badge = FALSE]
    /\ hook' = [hook EXCEPT !.stop = @ \/ hook.owned, !.owned = FALSE]
    /\ KeepFront
    /\ UNCHANGED <<button, refresh>>

HookRuns == Install \/ EnterLoop \/ Quit
Next ==
    \/ TimerTick \/ HookTick \/ RestoreFromTray \/ Collapse
    \/ Press \/ Release \/ DragOn \/ FindReleased
    \/ ChangeRows \/ LoseRows \/ Flush \/ MoveFront
    \/ \E deadline \in Deadlines : PassTime(deadline)
    \/ HookRuns \/ StartReturns \/ EndLoop \/ Shutdown

Spec == Init /\ [][Next]_vars

-----------------------------------------------------------------------------
(* Properties.                                                              *)

InSight == ui.badge \/ ~Hidden(ui)

\* The badge does what it says: it says "hide" while the window is open and
\* "show" while it is not.  While the game is in front, as far as the window
\* knows, one of the two is in sight; a badge that is dragged stays; the timer
\* that takes them away again runs fast while one is in sight, except in a drag,
\* which restarts it however it ends.  Nothing is in sight after the end.
Agree ==
    /\ ui.badge => (ui.says <=> ~Hidden(ui))
    /\ ~closed /\ ui.game => InSight
    /\ Dragging(ui) => ui.badge
    /\ ~closed /\ ~Dragging(ui) => ui.timer # "off" /\ (InSight => ui.timer = "fast")
    /\ closed => ~ui.open /\ ~ui.badge /\ ui.timer = "off"

\* A badge that comes back says what it said before.
WindowInvariant == TypeOK /\ Agree /\ (~closed /\ ui.says => ~Hidden(ui))

\* What the user opens and closes.
UserOpens == RestoreFromTray \/ Release \/ FindReleased
UserCloses == Collapse \/ Release \/ FindReleased \/ LoseRows \/ Shutdown
Looks == ~closed /\ ~Dragging(ui) /\ (TimerTick \/ HookTick)
Undecided == front = "unknown" /\ front' = "unknown"
OtherInFront == front = "other" /\ front' = "other"
GameInFront == front = "game" /\ front' = "game"

\* The badge comes only with the game, and the game is taken for being back only
\* when it is in front and no task switcher was there a moment ago, or the user
\* has asked for the window.  A front that is not known hides no open window.
\* Once the graces are over and the user is not at work in it, one look at another
\* program's window clears the screen, and one at the game brings badge or window
\* back.
Follows ==
    /\ ~ui.badge /\ ui'.badge => ui'.game
    /\ ~ui.game /\ ui'.game =>
         UserOpens \/ (front = "game" /\ (~ui.switcher \/ Latched))
    /\ Undecided /\ ~Hidden(ui) /\ Hidden(ui)' => UserCloses
    /\ OtherInFront /\ ~Latched /\ ~ui.grace /\ (Hidden(ui) \/ ui.loss = "over")
         => (Looks => ~InSight' \/ ui'.loss = "runs")
    /\ GameInFront /\ ~ui.switcher => (Looks => InSight')
=============================================================================
