--------------------------- MODULE LiveSnapshotCache ---------------------------
(***************************************************************************)
(* LiveSnapshotCacheWriter (live_snapshot_cache.py): the file that carries *)
(* the last live snapshot over a restart, and its use in __main__.py.      *)
(*                                                                         *)
(* The GUI thread submits what the state machine applied, clears and       *)
(* closes; a debounce timer's thread flushes the one pending operation; a  *)
(* settings worker invalidates the writer and wipes the cache directory; a *)
(* close worker makes the last attempts.  File operations are serialized   *)
(* by the write lock, bookkeeping by a second lock, and an operation that  *)
(* failed goes back unless a newer one or a new generation took its place. *)
(*                                                                         *)
(* A snapshot that can be saved is its producer, its listing being part of *)
(* that, and a body for all else.  The stamp numbers submissions and       *)
(* stands for saved_at.  Rebinding the source is a clear: generations      *)
(* change with the source, so its name adds nothing.                       *)
(***************************************************************************)
EXTENDS Naturals

CONSTANTS Producers,     \* fully named producers of snapshots
          Unnamed,       \* the producer of a snapshot without one
          Bodies,        \* what else a saved snapshot may hold
          MaxStamp,      \* bound: submissions
          MaxGeneration, \* bound: clears and invalidations
          MaxEvents      \* bound: file operations that fail, timers that do not
                         \* start, calls of close and restarts, all together

ASSUME ProducerAssumption == Unnamed \notin Producers /\ 0 \notin Bodies
ASSUME BoundAssumption ==
    MaxStamp \in Nat \ {0} /\ MaxGeneration \in Nat /\ MaxEvents \in Nat

Names == Producers \cup {Unnamed}
Checks == {"context", "producer"}

\* _PendingLiveSnapshotCacheOperation; what the file holds is the save that
\* wrote it, or NoOperation.
Operation == [kind : {"none", "save", "clear"} \cup Checks, producer : Names,
              body : Bodies \cup {0}, stamp : 0..MaxStamp]
NoOperation == [kind |-> "none", producer |-> Unnamed, body |-> 0, stamp |-> 0]
NoFile == NoOperation
Clear(n) == [NoOperation EXCEPT !.kind = "clear", !.stamp = n]

\* _operation_for_snapshot.
OperationsOf(n) ==
    [kind : {"save"}, producer : Names, body : Bodies, stamp : {n}]
      \cup [kind : {"context"}, producer : Names, body : {0}, stamp : {n}]
      \cup [kind : {"producer"}, producer : Names, body : {0}, stamp : {n}]
      \cup {Clear(n)}

VARIABLES
    disk,           \* the cache file
    pending,        \* _pending
    latest,         \* _latest_logical_operation
    lastSaved,      \* _last_saved_content
    generation,     \* _generation
    timer,          \* _timer: "off", "armed", or "fired" until its flush starts
    waiting,        \* fired timers that wait for the write lock
    io,             \* who holds the write lock, and the operation it performs
    gui,            \* the call the GUI thread is in
    settings,       \* the settings worker that clears the cache directory
    closeRequested, \* _close_requested
    closed,         \* _closed
    closer,         \* _close_worker
    tries,          \* its attempts
    closeResult,    \* _close_result
    restored,       \* stamp of the snapshot restored at startup, 0 for none
    stamp,          \* submissions so far
    intended,       \* history: the file, had each operation been done at once
    barrier,        \* history: the submissions made before the last done clear
    kept,           \* history: stamp of the file that should have gone, but could
                    \* not be read or removed when its turn came; 0 for none
    superseded,     \* history: a producer check was replaced by another
    wiped,          \* history: the directory was wiped since the last save
    stranded,       \* history: no timer could be started for what is pending
    closeReturned,  \* history: what close last returned
    left            \* events, see MaxEvents, that may still happen

writerVars == <<pending, latest, lastSaved, generation>>
timerVars == <<timer, stranded>>
closeVars == <<closeRequested, closed, closer, tries, closeResult, closeReturned>>
historyVars == <<intended, superseded, wiped>>
vars == <<disk, kept, writerVars, timerVars, waiting, io, gui, settings, closeVars, restored,
          stamp, historyVars, barrier, left>>

NoIo == [phase |-> "none", owner |-> "none", op |-> NoOperation, generation |-> 0]
Io(owner, op, g) == [phase |-> "io", owner |-> owner, op |-> op, generation |-> g]
NoCall == [call |-> "none", op |-> NoOperation, generation |-> 0]

TypeOK ==
    /\ {disk, pending, latest, lastSaved, intended} \subseteq Operation
    /\ generation \in 0..MaxGeneration
    /\ timer \in {"off", "armed", "fired"} /\ waiting \in 0..2
    /\ io \in [phase : {"none", "io", "done", "failed"}, owner : {"none", "timer", "gui", "closer"},
               op : Operation, generation : 0..MaxGeneration]
    /\ gui \in [call : {"none", "submit", "clear", "close", "join"}, op : Operation,
                generation : 0..MaxGeneration]
    /\ settings \in {"idle", "waiting", "wiping"}
    /\ closer \in {"none", "waiting", "trying", "dead"} /\ tries \in 0..2
    /\ {closeRequested, closed, closeResult, superseded, wiped, stranded} \subseteq BOOLEAN
    /\ closeReturned \in {"none", "true", "false"}
    /\ {restored, stamp, barrier, kept} \subseteq 0..MaxStamp
    /\ left \in 0..MaxEvents

\* A fresh writer, over the file an earlier session may have left.
Init ==
    /\ pending = NoOperation /\ latest = NoOperation /\ lastSaved = NoOperation
    /\ generation = 0 /\ timer = "off" /\ waiting = 0 /\ io = NoIo
    /\ gui = NoCall /\ settings = "idle"
    /\ closeRequested = FALSE /\ closed = FALSE /\ closer = "none" /\ tries = 0
    /\ closeResult = FALSE /\ closeReturned = "none"
    /\ stamp = 1 /\ barrier = 0
    /\ disk \in {op \in OperationsOf(1) : op.kind = "save"} \cup {NoFile}
    /\ intended = disk /\ kept = 0 /\ restored \in {disk.stamp, 0}
    /\ superseded = FALSE /\ wiped = FALSE /\ stranded = FALSE
    /\ left = MaxEvents

OneEvent == left > 0 /\ left' = left - 1
Closing == closed \/ closeRequested
WriteLockFree == io.phase = "none"

-----------------------------------------------------------------------------
(* What operations do to the file, and how they are coalesced. *)

\* producer_identities_conflict.
Conflict(p, q) == p # Unnamed /\ q # Unnamed /\ p # q
SameContent(op, other) ==
    /\ op.kind = "save" /\ other.kind = "save"
    /\ op.producer = other.producer /\ op.body = other.body

\* _perform_live_snapshot_cache_operation.
Effect(op, file) ==
    IF \/ op.kind = "clear"
       \/ op.kind = "context" /\ file.producer # op.producer
       \/ op.kind = "producer" /\ Conflict(file.producer, op.producer)
    THEN NoFile
    ELSE IF op.kind = "save" THEN op ELSE file

\* _coalesce_operation_locked: a check is void if a clear or an agreeing
\* operation came before it, and a clear if the two disagree.
VoidCheck(op) ==
    /\ op.kind \in Checks
    /\ \/ "clear" \in {pending.kind, latest.kind}
       \/ latest.kind = "save" /\ op.kind = "producer" /\ ~Conflict(latest.producer, op.producer)
       \/ latest.kind \in {"save", op.kind} /\ latest.producer = op.producer

RefutedCheck(op) ==
    /\ op.kind \in Checks /\ ~VoidCheck(op)
    /\ \/ latest.kind \in Checks \ {op.kind}
       \/ latest.kind \in {"save", "context"} /\ op.kind = "context"
       \/ latest.kind \in {"save", "producer"} /\ Conflict(latest.producer, op.producer)

Coalesced(op) ==
    IF VoidCheck(op) THEN NoOperation
    ELSE IF RefutedCheck(op) THEN Clear(op.stamp) ELSE op

\* _is_recent_duplicate_locked, but for the time that has passed.
Duplicate(op) ==
    pending.kind = "none" /\ SameContent(latest, op) /\ SameContent(lastSaved, op)

\* A producer check that has not been carried out is about to be replaced.
SupersedesCheck(op) ==
    /\ op.kind = "producer"
    /\ \/ pending.kind = "producer"
       \/ io.phase # "none" /\ io.op.kind = "producer"

-----------------------------------------------------------------------------
(* Bookkeeping under the second lock. *)

\* _schedule_locked and _cancel_timer_locked.
Schedule ==
    \/ timer # "off" /\ UNCHANGED <<timerVars, left>>
    \/ timer = "off" /\ timer' = "armed" /\ stranded' = FALSE /\ UNCHANGED left
    \/ /\ timer = "off" /\ OneEvent
       /\ stranded' = TRUE /\ UNCHANGED timer
CancelTimer == timer' = "off" /\ UNCHANGED stranded

\* _requeue_failed_operation and _record_successful_operation.
RequeueUnscheduled(op, g) ==    \* mutant
    /\ pending' = IF pending.kind = "none" /\ g = generation THEN op ELSE pending
    /\ UNCHANGED <<timerVars, left>>
Requeue(op, g) ==
    IF pending.kind # "none" \/ g # generation THEN UNCHANGED <<pending, timerVars, left>>
    ELSE /\ pending' = op
         /\ IF Closing THEN UNCHANGED <<timerVars, left>> ELSE Schedule

Record(op, g) ==
    lastSaved' = IF g # generation THEN lastSaved
                 ELSE IF op.kind = "save" THEN op ELSE NoOperation

\* A clear, rebinding or invalidation retires all earlier work.
KeepPending == UNCHANGED pending    \* mutant
DropPending == pending' = NoOperation
NextGeneration ==
    /\ generation < MaxGeneration
    /\ generation' = generation + 1
    /\ CancelTimer
    /\ DropPending
    /\ lastSaved' = NoOperation
    /\ intended' = NoFile /\ superseded' = FALSE

-----------------------------------------------------------------------------
(* The GUI thread. *)

\* submit: the operation is built between two looks at the generation.
BeginSubmit ==
    /\ gui = NoCall /\ ~closeRequested
    /\ stamp < MaxStamp /\ stamp' = stamp + 1
    /\ \E op \in OperationsOf(stamp') :
          gui' = [call |-> "submit", op |-> op, generation |-> generation]
    /\ UNCHANGED <<disk, kept, writerVars, timerVars, waiting, io, settings, closeVars, restored,
                   historyVars, barrier, left>>

CommitSubmit ==
    /\ gui.call = "submit"
    /\ gui' = NoCall
    /\ LET op == Coalesced(gui.op)
           stale == Closing \/ gui.generation # generation
       IN
       \/ /\ stale
          /\ UNCHANGED <<pending, latest, timerVars, historyVars, left>>
       \/ /\ ~stale /\ (op.kind = "none" \/ Duplicate(op))
          /\ intended' = Effect(gui.op, intended)
          /\ UNCHANGED <<pending, latest, timerVars, superseded, wiped, left>>
       \/ /\ ~stale /\ op.kind # "none"
          /\ pending' = op /\ latest' = op
          /\ Schedule
          /\ intended' = Effect(gui.op, intended)
          /\ superseded' = (SupersedesCheck(op) \/ (superseded /\ op.kind \in Checks))
          /\ wiped' = (wiped /\ op.kind # "save")
    /\ UNCHANGED <<disk, kept, lastSaved, generation, waiting, io, settings, closeVars, restored,
                   stamp, barrier>>

\* clear and rebind_source: the write lock is held for bookkeeping and file.
BeginClear ==
    /\ gui = NoCall /\ ~Closing /\ WriteLockFree
    /\ NextGeneration
    /\ latest' = Clear(stamp)
    /\ io' = Io("gui", Clear(stamp), generation')
    /\ gui' = [NoCall EXCEPT !.call = "clear"]
    /\ UNCHANGED <<disk, kept, waiting, settings, closeVars, restored, stamp, wiped, barrier, left>>

EndClear ==
    /\ io.owner = "gui" /\ io.phase \in {"done", "failed"}
    /\ io' = NoIo /\ gui' = NoCall
    /\ \/ /\ io.phase = "done"
          /\ Record(io.op, io.generation)
          /\ barrier' = io.op.stamp
          /\ UNCHANGED <<pending, timerVars, left>>
       \/ /\ io.phase = "failed"
          /\ Requeue(io.op, io.generation)
          /\ UNCHANGED <<lastSaved, barrier>>
    /\ UNCHANGED <<disk, kept, latest, generation, waiting, settings, closeVars, restored, stamp,
                   historyVars>>

-----------------------------------------------------------------------------
(* The debounce timer. *)

FireTimer ==
    /\ timer = "armed" /\ waiting < 2
    /\ timer' = "fired" /\ waiting' = waiting + 1
    /\ UNCHANGED <<disk, kept, writerVars, stranded, io, gui, settings, closeVars, restored, stamp,
                   historyVars, barrier, left>>

\* flush: it claims what is pending under the write lock.
BeginFlush ==
    /\ waiting > 0 /\ WriteLockFree
    /\ waiting' = waiting - 1
    /\ CancelTimer
    /\ IF Closing \/ pending.kind = "none"
       THEN UNCHANGED <<pending, io>>
       ELSE io' = Io("timer", pending, generation) /\ pending' = NoOperation
    /\ UNCHANGED <<disk, kept, latest, lastSaved, generation, gui, settings, closeVars, restored, stamp,
                   historyVars, barrier, left>>

EndFlush ==
    /\ io.owner = "timer" /\ io.phase \in {"done", "failed"}
    /\ io' = NoIo
    /\ \/ /\ io.phase = "done"
          /\ Record(io.op, io.generation)
          /\ UNCHANGED <<pending, timerVars, left>>
       \/ /\ io.phase = "failed"
          /\ Requeue(io.op, io.generation)
          /\ UNCHANGED lastSaved
    /\ UNCHANGED <<disk, kept, latest, generation, waiting, gui, settings, closeVars, restored, stamp,
                   historyVars, barrier>>

\* The file operation itself, whoever performs it: the file is replaced or
\* removed, or it stays as it is.
Performed == disk' = Effect(io.op, disk) /\ UNCHANGED <<kept, left>>
\* A check that cannot read the file (load_live_snapshot), or finds it too old and
\* discards it in vain, counts as done all the same.
Unchecked ==
    /\ io.op.kind \in Checks /\ OneEvent
    /\ UNCHANGED disk
    /\ kept' = IF Effect(io.op, disk) = disk THEN kept ELSE disk.stamp
\* A check that finds the file too old discards it, whosever it is.
Outdated == io.op.kind \in Checks /\ disk' = NoFile /\ UNCHANGED <<kept, left>>
PerformIo ==
    /\ io.phase = "io"
    /\ \/ (Performed \/ Unchecked \/ Outdated) /\ io' = [io EXCEPT !.phase = "done"]
       \/ /\ OneEvent
          /\ io' = [io EXCEPT !.phase = "failed"] /\ UNCHANGED <<disk, kept>>
    /\ UNCHANGED <<writerVars, timerVars, waiting, gui, settings, closeVars, restored, stamp,
                   historyVars, barrier>>

-----------------------------------------------------------------------------
(* The settings worker: _clear_cache_dir. *)

Invalidate ==
    /\ settings = "idle"
    /\ NextGeneration
    /\ latest' = NoOperation
    /\ settings' = "waiting"
    /\ UNCHANGED <<disk, kept, waiting, io, gui, closeVars, restored, stamp, wiped, barrier, left>>

\* invalidate returns once it has had the write lock.
NeedNotWait == TRUE    \* mutant
InFlightDone == WriteLockFree
EndInvalidate ==
    /\ settings = "waiting" /\ InFlightDone
    /\ settings' = "wiping"
    /\ UNCHANGED <<disk, kept, writerVars, timerVars, waiting, io, gui, closeVars, restored, stamp,
                   historyVars, barrier, left>>

\* (A file that cannot be removed is reported to the user and not modelled.)
Wipe ==
    /\ settings = "wiping"
    /\ settings' = "idle"
    /\ disk' = NoFile /\ wiped' = TRUE
    /\ UNCHANGED <<kept, writerVars, timerVars, waiting, io, gui, closeVars, restored, stamp, intended,
                   superseded, barrier, left>>

-----------------------------------------------------------------------------
(* close and its worker.  A deadline may pass anywhere. *)

Return(result) == gui' = NoCall /\ closeReturned' = result

RequestClose ==
    /\ gui = NoCall /\ OneEvent
    /\ closeRequested' = TRUE
    /\ gui' = [NoCall EXCEPT !.call = "close"]
    /\ closeReturned' = "none"
    /\ UNCHANGED <<disk, kept, writerVars, timerVars, waiting, io, settings, closed, closer, tries,
                   closeResult, restored, stamp, historyVars, barrier>>

CloserAlive == closer \in {"waiting", "trying"}

\* The worker is done, still at work, or started.
StartCloser ==
    /\ gui.call = "close"
    /\ \/ /\ closer = "dead" /\ closeResult
          /\ Return("true")
          /\ UNCHANGED <<timerVars, closed, closer, tries, closeResult>>
       \/ /\ CloserAlive
          /\ gui' = [gui EXCEPT !.call = "join"]
          /\ UNCHANGED <<timerVars, closed, closer, tries, closeResult, closeReturned>>
       \/ /\ ~CloserAlive /\ ~closeResult
          /\ closed' = TRUE /\ CancelTimer
          /\ closer' = "waiting" /\ tries' = 0 /\ closeResult' = FALSE
          /\ gui' = [gui EXCEPT !.call = "join"]
          /\ UNCHANGED closeReturned
    /\ UNCHANGED <<disk, kept, writerVars, waiting, io, settings, closeRequested, restored, stamp,
                   historyVars, barrier, left>>

\* Locks not had in time, a thread that does not start, or a deadline that has
\* passed; the last counts as success if nothing is pending or being written.
CloseWithoutWorker ==
    /\ gui.call = "close" /\ ~CloserAlive /\ ~closeResult
    /\ \/ UNCHANGED <<closed, timerVars>> /\ Return("false")
       \/ /\ closed' = TRUE /\ CancelTimer
          /\ \/ Return("false")
             \/ WriteLockFree /\ pending.kind = "none" /\ Return("true")
    /\ UNCHANGED <<disk, kept, writerVars, waiting, io, settings, closeRequested, closer, tries,
                   closeResult, restored, stamp, historyVars, barrier, left>>

JoinCloser ==
    /\ gui.call = "join"
    /\ \/ closer = "dead" /\ closeResult /\ Return("true")
       \/ ~(closer = "dead" /\ closeResult) /\ Return("false")
    /\ UNCHANGED <<disk, kept, writerVars, timerVars, waiting, io, settings, closeRequested, closed,
                   closer, tries, closeResult, restored, stamp, historyVars, barrier, left>>

\* _finish_close takes the pending operation, finds none, or is out of time.
CloserBegins ==
    /\ closer = "waiting"
    /\ \/ /\ WriteLockFree /\ pending.kind # "none"
          /\ io' = Io("closer", pending, generation) /\ pending' = NoOperation
          /\ closer' = "trying" /\ tries' = 1
          /\ UNCHANGED closeResult
       \/ /\ WriteLockFree /\ pending.kind = "none"
          /\ closer' = "dead" /\ closeResult' = TRUE
          /\ UNCHANGED <<io, pending, tries>>
       \/ closer' = "dead" /\ UNCHANGED <<io, pending, tries, closeResult>>
    /\ UNCHANGED <<disk, kept, latest, lastSaved, generation, timerVars, waiting, gui, settings,
                   closeRequested, closed, closeReturned, restored, stamp, historyVars, barrier,
                   left>>

MayRetryForever == TRUE    \* mutant
MayRetry == tries < 2
ResultAfterFailureTrue == TRUE    \* mutant
ResultAfterFailure == FALSE
CloserEnds ==
    /\ io.owner = "closer" /\ io.phase \in {"done", "failed"}
    /\ \/ /\ io.phase = "done"
          /\ Record(io.op, io.generation)
          /\ io' = NoIo /\ closer' = "dead" /\ closeResult' = TRUE
          /\ UNCHANGED <<pending, timerVars, tries, left>>
       \/ /\ io.phase = "failed" /\ MayRetry
          /\ tries' = tries + 1
          /\ io' = [io EXCEPT !.phase = "io"]
          /\ UNCHANGED <<pending, timerVars, lastSaved, closer, closeResult, left>>
       \/ /\ io.phase = "failed"
          /\ Requeue(io.op, io.generation)
          /\ io' = NoIo /\ closer' = "dead" /\ closeResult' = ResultAfterFailure
          /\ UNCHANGED <<lastSaved, tries>>
    /\ UNCHANGED <<disk, kept, latest, generation, waiting, gui, settings, closeRequested, closed,
                   closeReturned, restored, stamp, historyVars, barrier>>

-----------------------------------------------------------------------------
(* Restart. *)

\* The process ends wherever it is, and the next one restores the file unless
\* it is too old (_restore_live_snapshot_cache) or cannot be read.
Restart ==
    /\ OneEvent
    /\ pending' = NoOperation /\ latest' = NoOperation /\ lastSaved' = NoOperation
    /\ generation' = 0 /\ timer' = "off" /\ waiting' = 0 /\ io' = NoIo
    /\ gui' = NoCall /\ settings' = "idle"
    /\ closeRequested' = FALSE /\ closed' = FALSE /\ closer' = "none" /\ tries' = 0
    /\ closeResult' = FALSE /\ closeReturned' = "none"
    /\ disk' \in {disk, NoFile}
    /\ intended' = disk' /\ kept' = 0 /\ restored' \in {disk'.stamp, 0}
    /\ superseded' = FALSE /\ wiped' = FALSE /\ stranded' = FALSE
    /\ UNCHANGED <<stamp, barrier>>

\* The grace period of the restored snapshot ends before a fresh one came:
\* clear_live_snapshot_if_saved_at, once, whether it can read and remove the file
\* or not.
AnyFile(file) == TRUE    \* mutant
IsRestored(file) == file.stamp = restored
ExpireRestored ==
    /\ restored # 0 /\ restored' = 0
    /\ \/ disk' = (IF IsRestored(disk) THEN NoFile ELSE disk) /\ UNCHANGED <<kept, left>>
       \/ IsRestored(disk) /\ OneEvent /\ kept' = disk.stamp /\ UNCHANGED disk
    /\ intended' = IF IsRestored(intended) THEN NoFile ELSE intended
    /\ UNCHANGED <<writerVars, timerVars, waiting, io, gui, settings, closeVars, stamp,
                   superseded, wiped, barrier>>

-----------------------------------------------------------------------------
Flush == BeginFlush \/ EndFlush
ClearCacheDir == EndInvalidate \/ Wipe
Close == StartCloser \/ CloseWithoutWorker \/ JoinCloser
CloseWorker == CloserBegins \/ CloserEnds

Next ==
    \/ BeginSubmit \/ CommitSubmit \/ BeginClear \/ EndClear
    \/ FireTimer \/ Flush \/ PerformIo
    \/ Invalidate \/ ClearCacheDir
    \/ RequestClose \/ Close \/ CloseWorker
    \/ Restart \/ ExpireRestored

Spec == Init /\ [][Next]_vars

\* Calls return, timers fire and threads run; nothing makes a snapshot arrive,
\* the user clear the cache or the program end.
Fairness ==
    /\ WF_vars(CommitSubmit) /\ WF_vars(EndClear)
    /\ WF_vars(FireTimer) /\ WF_vars(Flush) /\ WF_vars(PerformIo)
    /\ WF_vars(ClearCacheDir) /\ WF_vars(Close) /\ WF_vars(CloseWorker)

FairSpec == Spec /\ Fairness

-----------------------------------------------------------------------------
(* Properties. *)

\* How the file may look once what is under way has ended in either way and
\* what is then pending has been done.
Outcomes ==
    {Effect(pending, Effect(io.op, disk))} \cup
    (IF io.phase \in {"io", "failed"} /\ (pending.kind # "none" \/ io.generation # generation)
     THEN {Effect(pending, disk)} ELSE {})

\* Coalescing, retries and the debounce never leave a file that doing every
\* operation at once would not have left; they may only clear too much.  Two
\* reservations: a producer check that another one replaced is lost, and so is a
\* check or an expiry whose read or removal failed.  Of the latter no more than the
\* very file remains that it was about.
Fits(file) == file = NoFile \/ SameContent(file, intended) \/ file.stamp = kept
NothingStale == settings = "idle" /\ ~superseded => \A file \in Outcomes : Fits(file)

\* The first reservation is not made by the test
\* test_live_snapshot_writer_producer_checks_cannot_restore_older_producer,
\* which says that producer checks do not bring an older producer back.
ChecksRestoreNoOlderProducer == settings = "idle" => \A file \in Outcomes : Fits(file)

\* At rest the file holds the save that was accepted last, if no clear came
\* after it, whatever failed before, was suppressed as a duplicate or expired.
LatestSavePersisted ==
    pending.kind = "none" /\ io = NoIo /\ latest.kind = "save" /\ ~wiped
      => SameContent(disk, latest)

\* Once clear has succeeded no earlier submission comes back, not from a timer
\* that was about to write it nor after a crash.
DurableClearHolds == disk # NoFile => disk.stamp > barrier

\* close returns True only when nothing is pending or being written.
CloseIsDurable == closeReturned = "true" => pending.kind = "none" /\ io = NoIo

\* What submissions, clears, the timer, the wipe, close, failed writes and
\* restarts leave behind: nothing that was retired, the latest save, and what
\* clear and close have promised.
CacheIsSound ==
    TypeOK /\ NothingStale /\ LatestSavePersisted /\ DurableClearHolds /\ CloseIsDurable

\* The file catches up with the latest accepted save, again and again, unless
\* the program ends, the directory is wiped or no timer could be started.
LatestSaveIsWritten ==
    []<>(\/ latest.kind = "save" => disk.stamp = latest.stamp
         \/ closeRequested \/ wiped \/ stranded)

-----------------------------------------------------------------------------
(* Why: an inductive invariant. *)

\* A file operation of the current generation is under way, and has not been done yet.
Current == io.phase # "none" /\ io.generation = generation
Due == Current /\ io.phase \in {"io", "failed"}

\* Who holds the write lock is in the call that took it; an operation of a former
\* generation is waited for.
CallInvariant ==
    /\ io.phase = "none" => io = NoIo
    /\ io.phase # "none" => io.owner # "none" /\ io.op.kind # "none"
    /\ io.owner = "gui" <=> gui.call = "clear"
    /\ io.owner = "closer" <=> closer = "trying"
    /\ io.owner = "gui" => io.op.kind = "clear" /\ pending.kind = "none"
    /\ closer = "trying" => pending.kind = "none"
    /\ gui.call = "submit" => gui.op.kind # "none" /\ gui.op.stamp = stamp
    /\ gui.call # "submit" => gui.op = NoOperation
    /\ settings # "waiting" => io.phase = "none" \/ io.generation = generation

\* What may still be written is newer than the last clear and this session's.
StampInvariant ==
    /\ barrier <= stamp /\ restored <= stamp /\ stamp > 0
    /\ gui.call = "submit" => barrier < stamp /\ restored < stamp
    /\ \A op \in {pending, io.op, disk} : op.kind = "save" => barrier < op.stamp
    /\ \A op \in {pending, latest, io.op} : op.kind = "save" => restored < op.stamp
    /\ \A op \in {pending, latest, io.op, disk, intended} : op.stamp <= stamp
    /\ \A file \in {disk, intended} : file = NoFile \/ (file.kind = "save" /\ 0 < file.stamp)
    /\ io.owner = "gui" /\ io.phase = "done" => disk = NoFile

\* After close has succeeded nothing moves any more.
CloseInvariant ==
    /\ closed \/ gui.call \in {"close", "join"} => closeRequested
    /\ CloserAlive => closed /\ ~closeResult
    /\ closeResult => closer = "dead"
    /\ closeResult \/ closeReturned = "true" => closed /\ pending.kind = "none" /\ io = NoIo

\* What is pending, or else under way, is the operation accepted last; a check
\* follows no operation but a producer check.
ChainInvariant ==
    /\ latest.kind = "none" => pending.kind = "none" /\ ~Current
    /\ pending.kind # "none" => pending = latest
    /\ pending.kind = "none" /\ Current => io.op = latest
    /\ io.phase # "none" /\ io.generation # generation /\ latest.kind # "none" => pending = latest
    /\ latest.kind \in Checks /\ ~superseded /\ pending.kind # "none" => ~Current
    /\ superseded => latest.kind = "producer"

\* The save accepted last is on disk once it is neither pending nor under way.
PersistInvariant ==
    latest.kind = "save" /\ pending.kind = "none" /\ ~Due => wiped \/ disk = latest

\* What the file should be agrees with the operation accepted last; the restored
\* snapshot is only replaced by saves.
IntendedInvariant ==
    /\ latest.kind = "save" => SameContent(intended, latest) /\ restored < intended.stamp
    /\ latest.kind \in Checks => Effect(latest, intended) = intended
    /\ intended.kind = "save" /\ intended.stamp = restored =>
          disk \in {NoFile, intended} /\ pending.kind # "save" /\ io.op.kind # "save"

\* The file fits, or will once the operation accepted last is done.
Done == pending.kind = "none" /\ ~Due
FileInvariant ==
    settings = "idle" =>
        /\ latest.kind \in {"none", "save"} /\ Done => Fits(disk)
        /\ latest.kind = "clear" /\ Done => disk = NoFile
        /\ latest.kind \in Checks /\ ~superseded =>
              Fits(Effect(latest, disk)) /\ (Done => Fits(disk))

CacheInvariant ==
    /\ TypeOK /\ CallInvariant /\ StampInvariant /\ CloseInvariant
    /\ ChainInvariant /\ PersistInvariant /\ IntendedInvariant /\ FileInvariant
=============================================================================
