------------------------- MODULE CharacterCacheFile -------------------------
(***************************************************************************)
(* How CharacterCache of wcl.py keeps its file.  Fetch workers put answers *)
(* in memory and start a timer; timers, a clear by the user and the worker *)
(* that closes the cache take turns at the write lock; close waits for its *)
(* worker until a deadline and may be called again.  The program may crash *)
(* between any two steps and reads the file when it starts anew.           *)
(*                                                                         *)
(* What the cache holds is the number of the last put or clear; the same   *)
(* numbers stand for _save_epoch and _generation, which only tell whether  *)
(* a snapshot is the current one.                                          *)
(***************************************************************************)
EXTENDS Naturals

CONSTANTS
    MaxVersions,  \* bound on puts and clears
    MaxFaults,    \* bound on failing writes
    MaxLate,      \* bound on timers that fired and wait behind the write lock
    MaxCloses,    \* bound on calls of close
    MaxCrashes    \* bound on crashes

VARIABLES
    number,       \* of the last put or clear
    version,      \* what _data holds: what was put up to then, after the last clear
    cleared,      \* the last clear
    dirty, timer, \* _dirty, _save_timer: "none", "set" or "fired"
    late,         \* timers that fired and are no longer _save_timer
    lock,         \* _write_lock: who holds it, doing what, with which snapshot
    clearing,     \* _clear_cache_dir: "idle", "waiting", "unlinking" or "wiping"
    requested, closing, closeResult, attempts, closer, caller,
    file,         \* the version on disk, 0 when there is no file
    durable,      \* history: the last clear that was reported as done
    wiped,        \* history: the wipe of the directory has removed the last file written
    faults, closes, crashes

memory == <<number, version, cleared, dirty, timer, late>>
closeVars == <<requested, closing, closeResult, attempts, closer, caller>>
bounds == <<faults, closes, crashes>>
vars == <<memory, lock, clearing, closeVars, file, durable, wiped, bounds>>

Free == [by |-> "none"]
Holds(who, stage) == [by |-> who, stage |-> stage, version |-> version]

Init ==
    /\ number = 0 /\ version = 0 /\ cleared = 0 /\ file = 0 /\ durable = 0 /\ wiped = FALSE
    /\ faults = 0 /\ closes = 0 /\ crashes = 0
    /\ dirty = FALSE /\ timer = "none" /\ late = 0
    /\ lock = Free /\ clearing = "idle"
    /\ requested = FALSE /\ closing = FALSE /\ closeResult = "none" /\ attempts = 0
    /\ closer = "none" /\ caller = "none"

Ending == closing \/ requested
Current(snapshot) == snapshot.version = version

\* The end of a flush or failed clear: a failure makes a current snapshot dirty
\* again, and a dirty cache gets a timer.
SettleWithoutTimer(ok) ==    \* mutant
    dirty' = (dirty \/ (~ok /\ Current(lock))) /\ UNCHANGED timer
Settle(ok) ==
    /\ dirty' = (dirty \/ (~ok /\ Current(lock)))
    /\ timer' = IF dirty' /\ ~Ending /\ timer = "none" THEN "set" ELSE timer

\* The timer is taken away: cancelled, or too late for that.
TakeTimer ==
    /\ timer' = "none"
    /\ late' = IF timer = "fired" THEN late + 1 ELSE late

Fails == faults < MaxFaults /\ faults' = faults + 1
Succeeds == UNCHANGED faults
WriteFile == file' = lock.version /\ wiped' = FALSE

-----------------------------------------------------------------------------
\* put and put_raid_boss_details.
Put ==
    /\ ~Ending /\ number < MaxVersions
    /\ number' = number + 1 /\ version' = number + 1 /\ dirty' = TRUE
    /\ timer' = IF timer = "none" THEN "set" ELSE timer
    /\ UNCHANGED <<cleared, late, lock, clearing, closeVars, file, durable, wiped, bounds>>

TimerFires ==
    /\ timer = "set" /\ late < MaxLate
    /\ timer' = "fired"
    /\ UNCHANGED <<number, version, cleared, dirty, late, lock, clearing, closeVars, file, durable, wiped, bounds>>

\* A timer's flush gets the write lock. It may be another timer than the one
\* it takes away, which is cancelled only if there is something to write; after
\* a request to close it does nothing.
FlushClaims ==
    /\ lock = Free
    /\ \E own \in {t \in BOOLEAN : IF t THEN timer = "fired" ELSE late > 0} :
          /\ timer' = IF requested /\ ~own THEN timer ELSE "none"
          /\ late' = IF own \/ (~requested /\ timer \in (IF dirty THEN {"fired"} ELSE {"fired", "set"}))
                     THEN late ELSE late - 1
          /\ IF requested \/ ~dirty THEN UNCHANGED <<dirty, lock>>
             ELSE dirty' = FALSE /\ lock' = Holds("flush", "write")
    /\ UNCHANGED <<number, version, cleared, clearing, closeVars, file, durable, wiped, bounds>>

FlushWrites ==
    /\ lock.by = "flush"
    /\ lock' = Free
    /\ \/ Succeeds /\ WriteFile /\ Settle(TRUE)
       \/ Fails /\ Settle(FALSE) /\ UNCHANGED <<file, wiped>>
    /\ UNCHANGED <<number, version, cleared, late, clearing, closeVars, durable, closes, crashes>>

-----------------------------------------------------------------------------
(* Clear Cache: CharacterCache.clear, then the directory is wiped.          *)

ClearBegins ==
    /\ clearing = "idle" /\ number < MaxVersions
    /\ clearing' = IF requested THEN "wiping" ELSE "waiting"
    /\ UNCHANGED <<memory, lock, closeVars, file, durable, wiped, bounds>>

ClearClaims ==
    /\ clearing = "waiting" /\ lock = Free
    /\ IF Ending THEN clearing' = "wiping" /\ UNCHANGED <<memory, lock>>
       ELSE /\ clearing' = "unlinking"
            /\ number' = number + 1 /\ version' = number' /\ cleared' = number' /\ dirty' = FALSE
            /\ TakeTimer
            /\ lock' = [by |-> "clear", stage |-> "write", version |-> number']
    /\ UNCHANGED <<closeVars, file, durable, wiped, bounds>>

\* The file is unlinked or, if that fails, overwritten with an empty one.
EraseOrIgnore == \/ Succeeds /\ file' = 0 /\ wiped' = FALSE    \* mutant
                 \/ Fails /\ UNCHANGED <<file, wiped>>
Erase == \/ Succeeds /\ file' = 0 /\ wiped' = FALSE
         \/ Fails /\ WriteFile
ClearWrites ==
    /\ lock.by = "clear"
    /\ lock' = Free /\ clearing' = "wiping"
    /\ \/ /\ Erase
          /\ durable' = lock.version /\ UNCHANGED <<dirty, timer>>
       \/ Fails /\ Settle(FALSE) /\ UNCHANGED <<file, wiped, durable>>
    /\ UNCHANGED <<number, version, cleared, late, closeVars, closes, crashes>>

\* _clear_cache_dir removes what is left in the directory, without the lock; it
\* does not look at what clear returned.
Wipe ==
    /\ clearing = "wiping" /\ clearing' = "idle"
    /\ \/ Succeeds /\ file' = 0 /\ durable' = cleared
          /\ wiped' = (wiped \/ file # 0)
       \/ Fails /\ UNCHANGED <<file, durable, wiped>>
    /\ UNCHANGED <<memory, lock, closeVars, closes, crashes>>

-----------------------------------------------------------------------------
(* close and its worker; whether the deadline has passed is open wherever   *)
(* the code asks.                                                           *)

Close ==
    /\ caller = "none" /\ closes < MaxCloses
    /\ closes' = closes + 1
    /\ requested' = TRUE /\ caller' = "called"
    /\ UNCHANGED <<memory, lock, clearing, closing, closeResult, attempts, closer,
                   file, durable, wiped, faults, crashes>>

\* close finds the result of an earlier call, a worker to join, or no time; or it
\* starts a worker.
CloseProceeds ==
    /\ caller = "called"
    /\ \/ closeResult # "none" /\ caller' = "none" /\ UNCHANGED <<timer, late, closing, closer>>
       \/ closeResult = "none" /\ closer # "none" /\ caller' = "joining"
          /\ UNCHANGED <<timer, late, closing, closer>>
       \/ closeResult = "none" /\ closer = "none"
          /\ \/ caller' = "none" /\ UNCHANGED <<timer, late, closing, closer>>
             \/ /\ closing' = TRUE /\ TakeTimer
                /\ \/ caller' = "joining" /\ closer' = "waiting"
                   \/ caller' = "none" /\ UNCHANGED closer
    /\ UNCHANGED <<number, version, cleared, dirty, lock, clearing, requested, closeResult, attempts,
                   file, durable, wiped, bounds>>

\* The worker has ended, or the deadline has passed.
CloseReturns ==
    /\ caller = "joining" /\ caller' = "none"
    /\ UNCHANGED <<memory, lock, clearing, requested, closing, closeResult, attempts, closer,
                   file, durable, wiped, bounds>>

WorkerLocks ==
    /\ closer = "waiting"
    /\ \/ lock = Free /\ lock' = Holds("closer", "look") /\ closer' = "working"
       \/ closer' = "none" /\ UNCHANGED lock
    /\ UNCHANGED <<memory, clearing, requested, closing, closeResult, attempts, caller,
                   file, durable, wiped, bounds>>

WorkerEnds(result) == closer' = "none" /\ lock' = Free /\ closeResult' = result
WorkerGoesOn(stage) ==
    lock' = Holds("closer", stage) /\ UNCHANGED <<closer, closeResult>>

WorkerLooks ==
    /\ lock.by = "closer" /\ lock.stage = "look"
    /\ \/ ~dirty /\ WorkerEnds("saved") /\ UNCHANGED dirty
       \/ WorkerEnds(closeResult) /\ UNCHANGED dirty
       \/ dirty /\ dirty' = FALSE /\ WorkerGoesOn("write")
    /\ UNCHANGED <<number, version, cleared, timer, late, clearing, requested, closing, attempts, caller,
                   file, durable, wiped, bounds>>

\* The deadline passes while the snapshot is encoded; or it is written, or the
\* write fails, at most twice.
NeverRedirty == UNCHANGED dirty    \* mutant
Redirty == dirty' = (dirty \/ Current(lock))
WorkerWrites ==
    /\ lock.by = "closer" /\ lock.stage = "write"
    /\ \/ WorkerEnds(closeResult) /\ Redirty /\ UNCHANGED <<attempts, file, wiped, faults>>
       \/ /\ Succeeds /\ WriteFile /\ UNCHANGED <<dirty, attempts>>
          /\ IF ~dirty THEN WorkerEnds("saved")
             ELSE WorkerGoesOn("look") \/ WorkerEnds(closeResult)
       \/ /\ Fails /\ Redirty /\ attempts' = attempts + 1 /\ UNCHANGED <<file, wiped>>
          /\ IF attempts' >= 2 THEN WorkerEnds("failed")
             ELSE WorkerGoesOn("look") \/ WorkerEnds(closeResult)
    /\ UNCHANGED <<number, version, cleared, timer, late, clearing, requested, closing, caller, durable, closes, crashes>>

-----------------------------------------------------------------------------
\* The program is gone, in order or not; _load reads the file.
Restart ==
    /\ crashes < MaxCrashes /\ crashes' = crashes + 1
    /\ version' = file
    /\ UNCHANGED <<number, cleared, file, durable, wiped, faults, closes>>
    /\ dirty' = FALSE /\ timer' = "none" /\ late' = 0
    /\ lock' = Free /\ clearing' = "idle"
    /\ requested' = FALSE /\ closing' = FALSE /\ closeResult' = "none" /\ attempts' = 0
    /\ closer' = "none" /\ caller' = "none"

Next ==
    \/ Put \/ TimerFires \/ FlushClaims \/ FlushWrites
    \/ ClearBegins \/ ClearClaims \/ ClearWrites \/ Wipe
    \/ Close \/ CloseProceeds \/ CloseReturns \/ WorkerLocks \/ WorkerLooks \/ WorkerWrites
    \/ Restart

Spec == Init /\ [][Next]_vars

-----------------------------------------------------------------------------
(* Properties. *)

\* What the user cleared, and was told was cleared, is not on disk again: not
\* from a save that was waiting or half-way, not after a crash (the generation
\* of _snapshot_is_current_locked, the write lock held by clear).
ClearIsDurable == file = 0 \/ file >= durable

\* Once close has reported success, what the cache held when it began to refuse
\* puts is on disk, whatever timers, failed writes, a late clear or an earlier
\* close that ran out of time have done; only a wipe of the directory that
\* _clear_cache_dir had under way may have taken a newer file with it.
Empty == version \in {0, cleared}
CloseIsDurable == closeResult = "saved" => ~dirty /\ (file = version \/ Empty \/ wiped)

\* An unsaved answer is never left without somebody to save it: a timer, or a
\* writer that will set one; and the timer is never taken away for nothing.
SaveIsScheduled == dirty /\ ~Ending => timer # "none" \/ lock.by \in {"flush", "clear"}

-----------------------------------------------------------------------------
(* Why: an inductive invariant. *)

FileTyped ==
    /\ number \in Nat /\ version \in Nat /\ cleared \in Nat /\ file \in Nat /\ durable \in Nat
    /\ dirty \in BOOLEAN /\ wiped \in BOOLEAN /\ requested \in BOOLEAN /\ closing \in BOOLEAN
    /\ lock \in {Free} \cup [by : {"flush", "clear"}, stage : {"write"}, version : Nat]
                       \cup [by : {"closer"}, stage : {"look", "write"}, version : Nat]

Writing == lock.by # "none" /\ lock.stage = "write"

\* What is about to be written is newer than every clear that was reported.
ClearInvariant ==
    /\ ClearIsDurable /\ durable <= cleared /\ cleared <= number
    /\ dirty => version >= cleared
    /\ Writing => lock.version >= cleared

\* What is not dirty is on disk, or a writer is about to bring it there; a clear
\* has emptied what it holds.
WriterInvariant ==
    /\ ~dirty /\ ~Writing => file = version \/ Empty \/ wiped
    /\ ~dirty /\ lock.by \in {"flush", "closer"} /\ Writing => lock.version = version
    /\ lock.by = "clear" => lock.version = cleared /\ (dirty \/ version = cleared)

\* A timer follows every put but while a writer will look after it; only a request to
\* close starts the worker, and after its result nobody writes.
EndInvariant ==
    /\ SaveIsScheduled /\ (dirty /\ ~Ending /\ lock.by = "clear" => timer # "none")
    /\ caller # "none" \/ closing => requested
    /\ closer # "none" => closing
    /\ lock.by = "closer" <=> closer = "working"
    /\ closeResult # "none" => lock = Free /\ closer = "none" /\ closing
    /\ closeResult = "saved" => ~dirty

FileInvariant == FileTyped /\ ClearInvariant /\ WriterInvariant /\ EndInvariant
=============================================================================
