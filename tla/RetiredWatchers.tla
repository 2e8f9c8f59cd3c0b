---------------------------- MODULE RetiredWatchers ----------------------------
(***************************************************************************)
(* Stopping replaced screenshot watchers (__main__.py:                     *)
(* _RetiredScreenshotWatchers).  Stopping one joins its observer, which    *)
(* may hang, so retire leaves it to a thread; at the end of the program    *)
(* stop_all has a worker stop what is left and waits for it no longer than *)
(* its budget.  The program calls stop_all once, and retires nothing more  *)
(* from then on.  A thread is numbered like the watcher it stops; the      *)
(* shutdown worker is 0.                                                   *)
(***************************************************************************)
EXTENDS Naturals

CONSTANTS Watchers, MaxFailures

Worker == 0
Threads == {Worker} \cup Watchers

\* Watchers are numbered from 1.
WatcherAssumption == Worker \notin Watchers

VARIABLES
    fresh, owned,        \* watchers not replaced yet; _watchers
    pc, held,            \* where each thread is; the watcher it is to stop
    timed,               \* threads that wait for _stop_lock with a timeout
    stopLock,            \* the thread that holds it, as a set
    todo,                \* of those the shutdown worker listed, the ones still to do
    deadline,            \* _shutdown_deadline and the clock: "none", "set", "past"
    caller,              \* stop_all: "no", "waits", "returned"
    complete,            \* _shutdown_complete
    hung,                \* watchers whose stop does not return
    stopped,             \* history: watchers whose stop returned
    failures

thread == <<pc, held, timed, stopLock>>
shutdown == <<deadline, caller, complete>>
vars == <<fresh, owned, thread, todo, shutdown, hung, stopped, failures>>

Init ==
    /\ fresh = Watchers /\ owned = {}
    /\ pc = [t \in Threads |-> "none"] /\ held = [t \in Threads |-> t] /\ timed = {}
    /\ stopLock = {} /\ todo = {}
    /\ deadline = "none" /\ caller = "no" /\ complete = FALSE
    /\ hung = {} /\ stopped = {} /\ failures = 0

To(t, at) == pc' = [pc EXCEPT ![t] = at]

\* retire: the watcher is owned before its thread starts, which may fail.
Retire(w) ==
    /\ caller = "no" /\ w \in fresh
    /\ fresh' = fresh \ {w} /\ owned' = owned \cup {w} /\ complete' = FALSE
    /\ \/ To(w, "begin") /\ UNCHANGED failures
       \/ failures < MaxFailures /\ failures' = failures + 1 /\ UNCHANGED pc
    /\ UNCHANGED <<held, timed, stopLock, todo, deadline, caller, hung, stopped>>

-----------------------------------------------------------------------------
(* _stop_one, on a thread of retire or on the shutdown worker.              *)

Ends(t) == To(t, IF t = Worker THEN "next" ELSE "done")

\* It reads the deadline, and waits with or without a timeout.
StopBegin(t) ==
    /\ pc[t] = "begin" /\ To(t, "wait")
    /\ timed' = IF deadline = "none" THEN timed ELSE timed \cup {t}
    /\ UNCHANGED <<fresh, owned, held, stopLock, todo, shutdown, hung, stopped, failures>>

Acquire(t) ==
    /\ pc[t] = "wait" /\ stopLock = {} /\ stopLock' = {t} /\ To(t, "check")
    /\ UNCHANGED <<fresh, owned, held, timed, todo, shutdown, hung, stopped, failures>>

TimesOut(t) ==
    /\ pc[t] = "wait" /\ t \in timed /\ deadline = "past" /\ Ends(t)
    /\ UNCHANGED <<fresh, owned, held, timed, stopLock, todo, shutdown, hung, stopped, failures>>

\* Another thread has stopped it, or the budget is used up.
OutOfBudgetNever == FALSE    \* mutant
OutOfBudget == deadline = "past"
NotOwned(t) == held[t] \notin owned
Check(t) ==
    /\ pc[t] = "check"
    /\ IF NotOwned(t) \/ OutOfBudget THEN Ends(t) /\ stopLock' = {}
       ELSE To(t, "stopping") /\ UNCHANGED stopLock
    /\ UNCHANGED <<fresh, owned, held, timed, todo, shutdown, hung, stopped, failures>>

\* watcher.stop returns, raises (the watcher stays owned), or hangs.
StopReturnsKept(t) == UNCHANGED owned    \* mutant
StopReturns(t) == owned' = owned \ {held[t]}
Stop(t) ==
    /\ pc[t] = "stopping" /\ held[t] \notin hung
    /\ \/ /\ StopReturns(t) /\ stopped' = stopped \cup {held[t]}
          /\ Ends(t) /\ stopLock' = {} /\ UNCHANGED <<hung, failures>>
       \/ /\ failures < MaxFailures /\ failures' = failures + 1
          /\ Ends(t) /\ stopLock' = {} /\ UNCHANGED <<hung, owned, stopped>>
       \/ /\ failures < MaxFailures /\ failures' = failures + 1
          /\ hung' = hung \cup {held[t]} /\ UNCHANGED <<pc, stopLock, owned, stopped>>
    /\ UNCHANGED <<fresh, held, timed, todo, shutdown>>

-----------------------------------------------------------------------------
(* stop_all and its worker, _stop_all_until.                                *)

StopAll ==
    /\ caller = "no" /\ caller' = "waits" /\ deadline' = "set"
    /\ To(Worker, "list")
    /\ UNCHANGED <<fresh, owned, held, timed, stopLock, todo, complete, hung, stopped, failures>>

\* request_stop of each is asynchronous; it may hang as well.
List ==
    /\ pc[Worker] = "list"
    /\ \/ todo' = owned /\ To(Worker, "next") /\ UNCHANGED failures
       \/ /\ failures < MaxFailures /\ failures' = failures + 1
          /\ To(Worker, "hangs") /\ UNCHANGED todo
    /\ UNCHANGED <<fresh, owned, held, timed, stopLock, shutdown, hung, stopped>>

NextOne ==
    /\ pc[Worker] = "next"
    /\ IF todo = {} THEN /\ To(Worker, "done") /\ complete' = (owned = {})
                         /\ UNCHANGED <<held, todo>>
       ELSE IF deadline = "past" THEN To(Worker, "done") /\ UNCHANGED <<held, todo, complete>>
       ELSE \E w \in todo :
            /\ held' = [held EXCEPT ![Worker] = w] /\ todo' = todo \ {w} /\ To(Worker, "begin")
            /\ UNCHANGED complete
    /\ UNCHANGED <<fresh, owned, timed, stopLock, deadline, caller, hung, stopped, failures>>

\* The clock reaches the deadline.
Passes ==
    /\ deadline = "set" /\ deadline' = "past"
    /\ UNCHANGED <<fresh, owned, thread, todo, caller, complete, hung, stopped, failures>>

\* The join ends with the worker or with the budget.
JoinedOnly == pc[Worker] = "done"    \* mutant
Joined == pc[Worker] = "done" \/ deadline = "past"
StopAllReturns ==
    /\ caller = "waits" /\ Joined /\ caller' = "returned"
    /\ UNCHANGED <<fresh, owned, thread, todo, deadline, complete, hung, stopped, failures>>

StopOne(t) == StopBegin(t) \/ Acquire(t) \/ TimesOut(t) \/ Check(t) \/ Stop(t)
Next ==
    \/ \E w \in Watchers : Retire(w)
    \/ \E t \in Threads : StopOne(t)
    \/ StopAll \/ List \/ NextOne \/ Passes \/ StopAllReturns

Spec == Init /\ [][Next]_vars
FairSpec == Spec /\ WF_vars(Passes) /\ WF_vars(StopAllReturns)

-----------------------------------------------------------------------------
(* Properties. *)

\* No watcher is stopped twice, not by two threads at a time and not after a stop
\* that succeeded (_stop_lock and the second look at _watchers).
StoppedOnce ==
    \A t \in Threads : pc[t] = "stopping" =>
        /\ held[t] \notin stopped
        /\ \A u \in Threads \ {t} : pc[u] # "stopping"

\* Why: a stop is under way only under _stop_lock and of a watcher that is owned,
\* and no watcher comes back among the owned ones.
StopInvariant ==
    /\ pc \in [Threads -> {"none", "begin", "wait", "check", "stopping", "done",
                           "list", "next", "hangs"}]
    /\ held \in [Threads -> Threads] /\ owned \subseteq Threads /\ todo \subseteq Threads
    /\ \A t \in Threads :
          /\ pc[t] \in {"check", "stopping"} => stopLock = {t}
          /\ pc[t] = "stopping" => held[t] \in owned
    /\ fresh \cap owned = {} /\ (fresh \cup owned) \cap stopped = {}

\* Once the budget is used up no stop begins, not even one that waited for a stop
\* that hung before the shutdown.
BeginsInTime ==
    \A t \in Threads : deadline = "past" /\ pc[t] # "stopping" => pc'[t] # "stopping"
NoStopBeginsLate == [][BeginsInTime]_vars

\* The program does not wait for a watcher that hangs: stop_all returns.
ShutdownReturns == caller = "waits" ~> caller = "returned"
=============================================================================
