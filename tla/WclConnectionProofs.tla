--------------------------- MODULE WclConnectionProofs ---------------------------
(***************************************************************************)
(* LimitsAreCurrent of WclConnection for any number of workers, auths and  *)
(* runtime generations.                                                    *)
(*                                                                         *)
(* Block, quota and the validation's outcome are written after a look at   *)
(* the auth's own generation.  A fetch's result is not: it is judged by    *)
(* the overlay's runtime generation.  That this is as good is the          *)
(* strengthening, RuntimeTellsAuth: the request was launched before it     *)
(* took its auth, and the generation changes after the auth.               *)
(*                                                                         *)
(* TypeOK says who holds the refresh locks, too; what it needs is that a   *)
(* thread past its start has an auth.                                      *)
(***************************************************************************)
EXTENDS WclConnection, TLAPS

\* Where a thread can be.
Places == {"idle", "begun", "launched", "blocked?", "enter", "token", "lock", "oauth", "send",
           "answer", "done", "report"}

\* The part of TypeOK that the argument needs.
Typed ==
    /\ auth \in Auths /\ runtime \in Nat
    /\ pc \in [Actors -> Places]
    /\ req \in [Actors -> [runtime : Nat, auth : AuthOrNone, retry : BOOLEAN, ok : BOOLEAN]]

RuntimeTellsAuth ==
    \A w \in Workers :
        /\ pc[w] \in {"idle", "launched"} => req[w].auth = 0
        /\ req[w].runtime <= runtime
        /\ req[w].runtime = runtime /\ gui # "commit" => req[w].auth \in {0, auth}

LimitInvariant == Typed /\ RuntimeTellsAuth /\ LimitsAreCurrent

LEMMA InitialLimits == Init => LimitInvariant
<1> SUFFICES ASSUME Init PROVE LimitInvariant
  OBVIOUS
<1>1. Typed
  <2>1. 1 \in Auths /\ {0, 1} \subseteq AuthOrNone
    BY BoundAssumption DEF Auths, AuthOrNone
  <2>2. {"idle", "begun"} \subseteq Places
    BY DEF Places
  <2>3. pc \in [Actors -> Places]
    BY <2>2 DEF Init
  <2>4. /\ NoRequest \in [runtime : Nat, auth : AuthOrNone, retry : BOOLEAN, ok : BOOLEAN]
        /\ RequestOf(1)
             \in [runtime : Nat, auth : AuthOrNone, retry : BOOLEAN, ok : BOOLEAN]
    BY <2>1 DEF NoRequest, RequestOf
  <2>5. req \in [Actors -> [runtime : Nat, auth : AuthOrNone, retry : BOOLEAN, ok : BOOLEAN]]
    BY <2>4 DEF Init
  <2> QED BY <2>1, <2>3, <2>5 DEF Init, Typed
<1>2. RuntimeTellsAuth
  <2>1. NoRequest.auth = 0 /\ NoRequest.runtime = 0
    BY DEF NoRequest, RequestOf
  <2>2. ASSUME NEW w \in Workers PROVE req[w] = NoRequest
    <3>1. w \in Actors /\ w # Validator
      BY ActorAssumption DEF Actors
    <3> QED BY <3>1 DEF Init
  <2>3. \A w \in Workers : req[w].auth = 0 /\ req[w].runtime = 0
    BY <2>1, <2>2
  <2>4. runtime = 0 /\ 0 <= runtime
    BY DEF Init
  <2> QED BY <2>3, <2>4, Zenon DEF RuntimeTellsAuth
<1>3. LimitsAreCurrent
  BY DEF Init, LimitsAreCurrent, Status
<1> QED BY <1>1, <1>2, <1>3 DEF LimitInvariant

-----------------------------------------------------------------------------
(* Requests: every step keeps Typed and RuntimeTellsAuth.                    *)

\* A thread that has its auth goes on, and so does the validation.
LEMMA MoveKeepsRequests ==
  ASSUME Typed, RuntimeTellsAuth, UNCHANGED <<auth, runtime, gui>>,
         NEW t \in Actors, NEW from \in Places, NEW to \in Places, Move(t, from, to),
         t = Validator \/ {from, to} \cap {"idle", "launched"} = {}
  PROVE  Typed' /\ RuntimeTellsAuth'
<1>1. Typed'
  BY DEF Typed, Move, Goto
<1>2. RuntimeTellsAuth'
  BY ActorAssumption DEF Typed, RuntimeTellsAuth, Move, Goto, Actors
<1> QED BY <1>1, <1>2

\* A request gets a new state of its own, with the same generation and auth.
LEMMA AnswerKeepsRequests ==
  ASSUME Typed, RuntimeTellsAuth, UNCHANGED <<auth, runtime, gui>>,
         NEW t \in Actors, NEW to \in Places, Goto(t, to),
         pc[t] \notin {"idle", "launched"}, to \notin {"idle", "launched"},
         NEW ok \in BOOLEAN, NEW retry \in BOOLEAN,
         req' = [req EXCEPT ![t] = [@ EXCEPT !.ok = ok, !.retry = retry]]
  PROVE  Typed' /\ RuntimeTellsAuth'
<1>1. Typed'
  BY DEF Typed, Goto
<1>2. RuntimeTellsAuth'
  BY ActorAssumption DEF Typed, RuntimeTellsAuth, Goto, Actors
<1> QED BY <1>1, <1>2

\* A worker drops its request.
LEMMA EndKeepsRequests ==
  ASSUME Typed, RuntimeTellsAuth, UNCHANGED <<auth, runtime, gui>>,
         NEW w \in Workers, Goto(w, "idle"), req' = [req EXCEPT ![w] = NoRequest]
  PROVE  Typed' /\ RuntimeTellsAuth'
<1>1. NoRequest \in [runtime : Nat, auth : AuthOrNone, retry : BOOLEAN, ok : BOOLEAN]
  BY BoundAssumption DEF NoRequest, RequestOf, AuthOrNone
<1>2. NoRequest.auth = 0 /\ NoRequest.runtime = 0
  BY DEF NoRequest, RequestOf
<1>3. "idle" \in Places /\ w \in Actors
  BY DEF Actors, Places
<1>4. Typed'
  <2>1. pc' \in [Actors -> Places]
    BY <1>3 DEF Typed, Goto
  <2>2. req' \in [Actors -> [runtime : Nat, auth : AuthOrNone, retry : BOOLEAN, ok : BOOLEAN]]
    BY <1>1 DEF Typed
  <2> QED BY <2>1, <2>2 DEF Typed
<1>5. RuntimeTellsAuth'
  <2> SUFFICES ASSUME NEW v \in Workers
               PROVE  /\ pc'[v] \in {"idle", "launched"} => req'[v].auth = 0
                      /\ req'[v].runtime <= runtime
                      /\ req'[v].runtime = runtime /\ gui # "commit"
                            => req'[v].auth \in {0, auth}
    BY DEF RuntimeTellsAuth
  <2>1. CASE v = w
    <3>1. req'[v] = NoRequest
      BY <2>1, <1>3 DEF Typed
    <3> QED BY <3>1, <1>2 DEF Typed
  <2>2. CASE v # w
    <3>1. pc'[v] = pc[v] /\ req'[v] = req[v]
      BY <2>2 DEF Typed, Goto, Actors
    <3> QED BY <3>1 DEF RuntimeTellsAuth
  <2> QED BY <2>1, <2>2
<1> QED BY <1>4, <1>5

\* The auth changes while a commit is under way, the generation at its end.
LEMMA GuiKeepsRequests ==
  ASSUME Typed, RuntimeTellsAuth, GuiStep
  PROVE  Typed' /\ RuntimeTellsAuth'
<1>1. CASE Reconfigure
  BY <1>1, BoundAssumption DEF Reconfigure, Typed, RuntimeTellsAuth, Auths
<1>2. CASE BumpRuntime
  <2>1. Typed' /\ runtime' = runtime + 1 /\ UNCHANGED <<pc, req>>
    BY <1>2 DEF BumpRuntime, Typed
  <2>2. \A w \in Workers : req[w].runtime \in Nat /\ req[w].runtime <= runtime
    BY DEF Typed, RuntimeTellsAuth, Actors
  <2>3. RuntimeTellsAuth'
    BY <2>1, <2>2 DEF Typed, RuntimeTellsAuth
  <2> QED BY <2>1, <2>3
<1>3. CASE MarkValidated
  BY <1>3 DEF MarkValidated, Typed, RuntimeTellsAuth, guiVars
<1>4. CASE CloseOverlay
  BY <1>4 DEF CloseOverlay, Typed, RuntimeTellsAuth
<1>5. CASE Close
  BY <1>5 DEF Close, Typed, RuntimeTellsAuth
<1> QED BY <1>1, <1>2, <1>3, <1>4, <1>5 DEF GuiStep

\* A worker takes the generation when it is launched and the auth when it starts.
LEMMA TakingKeepsRequests ==
  ASSUME Typed, RuntimeTellsAuth, NEW w \in Workers, Launch(w) \/ Start(w)
  PROVE  Typed' /\ RuntimeTellsAuth'
<1>1. w \in Actors /\ Workers \subseteq Actors
  BY DEF Actors
<1>2. CASE Launch(w)
  <2>1. /\ pc' = [pc EXCEPT ![w] = "launched"] /\ req' = [req EXCEPT ![w].runtime = runtime]
        /\ pc[w] = "idle" /\ gui = "idle" /\ UNCHANGED <<auth, runtime, gui>>
    BY <1>2 DEF Launch, Goto, guiVars
  <2>2. Typed'
    BY <2>1, <1>1 DEF Typed, Places
  <2>3. RuntimeTellsAuth'
    BY <2>1, <1>1 DEF Typed, RuntimeTellsAuth
  <2> QED BY <2>2, <2>3
<1>3. CASE Start(w)
  <2>1. /\ pc' = [pc EXCEPT ![w] = "blocked?"] /\ req' = [req EXCEPT ![w].auth = auth]
        /\ UNCHANGED <<auth, runtime, gui>>
    BY <1>3 DEF Start, Goto, guiVars
  <2>2. Typed'
    BY <2>1, <1>1 DEF Typed, Places, Auths, AuthOrNone
  <2>3. RuntimeTellsAuth'
    BY <2>1, <1>1 DEF Typed, RuntimeTellsAuth
  <2> QED BY <2>2, <2>3
<1> QED BY <1>2, <1>3

\* Every step keeps them.
LEMMA RequestsKept ==
  ASSUME Typed, RuntimeTellsAuth, [Next]_vars
  PROVE  Typed' /\ RuntimeTellsAuth'
<1> USE DEF guiVars
<1>1. Validator \in Actors /\ Workers \subseteq Actors
  BY DEF Actors
<1>2. \A t \in Actors : req[t].ok \in BOOLEAN /\ req[t].retry \in BOOLEAN
  BY DEF Typed
<1>3. ASSUME NEW w \in Workers, Launch(w) \/ WorkerStep(w)
      PROVE  Typed' /\ RuntimeTellsAuth'
  <2>1. CASE Launch(w) \/ Start(w)
    BY <2>1, TakingKeepsRequests
  <2>2. CASE CheckBlock(w)
    BY <2>2, <1>1, MoveKeepsRequests DEF CheckBlock, Places
  <2>3. CASE Enter(w) \/ Send(w)
    BY <2>3, <1>1, MoveKeepsRequests DEF Enter, Send, RequireCurrent, Places
  <2>4. CASE Abandon(w)
    BY <2>4, EndKeepsRequests DEF Abandon
  <2>5. CASE HasToken(w)
    BY <2>5, <1>1, MoveKeepsRequests DEF HasToken, Places
  <2>6. CASE OauthSucceeds(w)
    BY <2>6, <1>1, MoveKeepsRequests DEF OauthSucceeds, Places
  <2>7. CASE OauthFails(w)
    BY <2>7, <1>1, MoveKeepsRequests DEF OauthFails, Places
  <2>8. CASE QueryFails(w)
    BY <2>8, <1>1, MoveKeepsRequests DEF QueryFails, Places
  <2>9. CASE Unauthorized(w)
    <3>1. /\ Goto(w, "enter") /\ pc[w] \notin {"idle", "launched"}
          /\ req' = [req EXCEPT ![w] = [@ EXCEPT !.ok = req[w].ok, !.retry = TRUE]]
          /\ UNCHANGED <<auth, runtime, gui>>
      BY <2>9, <1>1 DEF Unauthorized, Typed
    <3> QED BY <3>1, <1>1, <1>2, AnswerKeepsRequests DEF Places
  <2>10. CASE Answered(w)
    <3>1. /\ Goto(w, "done") /\ pc[w] \notin {"idle", "launched"}
          /\ req' = [req EXCEPT ![w] = [@ EXCEPT !.ok = TRUE, !.retry = req[w].retry]]
          /\ UNCHANGED <<auth, runtime, gui>>
      BY <2>10, <1>1 DEF Answered, Typed
    <3> QED BY <3>1, <1>1, <1>2, AnswerKeepsRequests DEF Places
  <2>11. CASE ReceiveResult(w)
    BY <2>11, EndKeepsRequests DEF ReceiveResult
  <2> QED BY <1>3, <2>1, <2>2, <2>3, <2>4, <2>5, <2>6, <2>7, <2>8, <2>9, <2>10, <2>11
          DEF WorkerStep
<1>4. ASSUME NEW t \in Actors, Lock(t) PROVE Typed' /\ RuntimeTellsAuth'
  BY <1>4, MoveKeepsRequests DEF Lock, Places
<1>5. CASE ValidatorStep
  <2>1. CASE CancelValidation
    BY <2>1, <1>1, MoveKeepsRequests DEF CancelValidation, Places
  <2>2. CASE BeginValidation
    BY <2>2, <1>1, MoveKeepsRequests DEF BeginValidation, Places
  <2>3. CASE Probed
    <3>1. PICK ok \in BOOLEAN : req' = [req EXCEPT ![Validator].ok = ok]
      BY <2>3 DEF Probed
    <3>2. /\ Goto(Validator, "report") /\ pc[Validator] \notin {"idle", "launched"}
          /\ req' = [req EXCEPT ![Validator] =
                       [@ EXCEPT !.ok = ok, !.retry = req[Validator].retry]]
          /\ UNCHANGED <<auth, runtime, gui>>
      BY <2>3, <3>1, <1>1 DEF Probed, Typed
    <3> QED BY <3>2, <1>1, <1>2, AnswerKeepsRequests DEF Places
  <2>4. CASE Report
    BY <2>4, <1>1, MoveKeepsRequests DEF Report, Places
  <2> QED BY <1>5, <2>1, <2>2, <2>3, <2>4 DEF ValidatorStep
<1>6. CASE GuiStep
  BY <1>6, GuiKeepsRequests
<1>7. CASE Unblock \/ UNCHANGED vars
  BY <1>7 DEF Unblock, vars, Typed, RuntimeTellsAuth
<1> QED BY <1>3, <1>4, <1>5, <1>6, <1>7 DEF Next

-----------------------------------------------------------------------------
(* Limits. *)

\* Most steps touch none of what is limited, nor what it is judged by.
LEMMA UntouchedLimits ==
  ASSUME LimitsAreCurrent, UNCHANGED <<auth, block, quota, status, gui>>
  PROVE  LimitsAreCurrent'
  BY DEF LimitsAreCurrent

\* A look at the generation keeps a failure of former credentials away, ...
LEMMA BlocksCurrent ==
  ASSUME LimitsAreCurrent, NEW a, BlockIfCurrent(a) \/ UNCHANGED block,
         UNCHANGED <<auth, quota, status, gui>>
  PROVE  LimitsAreCurrent'
  BY DEF LimitsAreCurrent, BlockIfCurrent, IsCurrent

\* ... and their quota, ...
LEMMA QuotaCurrent ==
  ASSUME LimitsAreCurrent, NEW a, QuotaIfCurrent(a), UNCHANGED <<auth, block, status, gui>>
  PROVE  LimitsAreCurrent'
  BY DEF LimitsAreCurrent, QuotaIfCurrent, IsCurrent

\* ... and a fetch's result is of the current credentials if its runtime
\* generation is the current one.
LEMMA ResultsCurrent ==
  ASSUME LimitInvariant, NEW w \in Workers, ReceiveResult(w)
  PROVE  LimitsAreCurrent'
<1>1. UNCHANGED <<auth, block, quota, gui>>
  BY DEF ReceiveResult, limitVars, guiVars
<1>2. CASE UNCHANGED status
  BY <1>1, <1>2, UntouchedLimits DEF LimitInvariant
<1>3. CASE /\ ResultCounts(w)
           /\ status' = Status(IF req[w].ok THEN "api_ready" ELSE "error", req[w].auth)
  <2>1. gui = "idle" /\ req[w].auth \in {0, auth}
    BY <1>3 DEF ResultCounts, LimitInvariant, RuntimeTellsAuth
  <2>2. status'.of = req[w].auth
    BY <1>3 DEF Status
  <2> QED BY <1>1, <2>1, <2>2 DEF LimitInvariant, LimitsAreCurrent
<1> QED BY <1>2, <1>3 DEF ReceiveResult

\* What the validation publishes is about the auth it began with, if that is
\* still current.
LEMMA ValidationCurrent ==
  ASSUME LimitsAreCurrent, ValidatorStep
  PROVE  LimitsAreCurrent'
<1>1. UNCHANGED <<auth, block, quota, gui>>
  BY DEF ValidatorStep, CancelValidation, BeginValidation, Probed, Report, limitVars, guiVars
<1>2. CASE UNCHANGED status
  BY <1>1, <1>2, UntouchedLimits
<1>3. CASE Awaited /\ \E s, a : status' = Status(s, a) /\ a \in {0, req[Validator].auth}
  BY <1>1, <1>3 DEF Awaited, IsCurrent, Status, LimitsAreCurrent
<1> QED BY <1>2, <1>3 DEF ValidatorStep, CancelValidation, BeginValidation, Probed, Report

\* The commit replaces the auth with all that was about the former one.
LEMMA GuiCurrent ==
  ASSUME LimitsAreCurrent, GuiStep
  PROVE  LimitsAreCurrent'
<1>1. CASE Reconfigure
  BY <1>1 DEF Reconfigure, LimitsAreCurrent, Status
<1>2. CASE BumpRuntime
  BY <1>2 DEF BumpRuntime, LimitsAreCurrent, limitVars
<1>3. CASE MarkValidated
  BY <1>3 DEF MarkValidated, LimitsAreCurrent, Status, limitVars, guiVars
<1>4. CASE CloseOverlay
  BY <1>4 DEF CloseOverlay, LimitsAreCurrent, limitVars
<1>5. CASE Close
  BY <1>5 DEF Close, LimitsAreCurrent, Status, limitVars
<1> QED BY <1>1, <1>2, <1>3, <1>4, <1>5 DEF GuiStep

LEMMA LimitsKept == LimitInvariant /\ [Next]_vars => LimitInvariant'
<1> SUFFICES ASSUME LimitInvariant, [Next]_vars PROVE LimitInvariant'
  OBVIOUS
<1> USE DEF limitVars, guiVars
<1>1. Typed /\ RuntimeTellsAuth /\ LimitsAreCurrent
  BY DEF LimitInvariant
<1>2. Typed' /\ RuntimeTellsAuth'
  BY <1>1, RequestsKept
<1>3. LimitsAreCurrent'
  <2>1. ASSUME NEW w \in Workers, Launch(w) \/ WorkerStep(w) PROVE LimitsAreCurrent'
    <3>1. CASE Launch(w) \/ Start(w) \/ CheckBlock(w) \/ Enter(w) \/ Send(w) \/ Abandon(w)
      BY <3>1, <1>1, UntouchedLimits
         DEF Launch, Start, CheckBlock, Enter, Send, RequireCurrent, Abandon
    <3>2. CASE HasToken(w) \/ OauthSucceeds(w) \/ Unauthorized(w)
      BY <3>2, <1>1, UntouchedLimits DEF HasToken, OauthSucceeds, Unauthorized
    <3>3. CASE OauthFails(w) \/ QueryFails(w)
      BY <3>3, <1>1, BlocksCurrent DEF OauthFails, QueryFails
    <3>4. CASE Answered(w)
      BY <3>4, <1>1, QuotaCurrent DEF Answered
    <3>5. CASE ReceiveResult(w)
      BY <3>5, ResultsCurrent
    <3> QED BY <2>1, <3>1, <3>2, <3>3, <3>4, <3>5 DEF WorkerStep
  <2>2. ASSUME NEW t \in Actors, Lock(t) PROVE LimitsAreCurrent'
    BY <2>2, <1>1, UntouchedLimits DEF Lock
  <2>3. CASE ValidatorStep
    BY <2>3, <1>1, ValidationCurrent
  <2>4. CASE GuiStep
    BY <2>4, <1>1, GuiCurrent
  <2>5. CASE Unblock \/ UNCHANGED vars
    BY <2>5, <1>1 DEF Unblock, vars, LimitsAreCurrent
  <2> QED BY <2>1, <2>2, <2>3, <2>4, <2>5 DEF Next
<1> QED BY <1>2, <1>3 DEF LimitInvariant

\* The retry block, the quota and the status are about the credentials in force
\* (WCLClient.reconfigure_auth and the checks of _auth_generation), for any
\* number of workers and replacements.
THEOREM LimitsAlwaysCurrent == Spec => []LimitsAreCurrent
<1>1. LimitInvariant => LimitsAreCurrent
  BY DEF LimitInvariant
<1> QED BY <1>1, InitialLimits, LimitsKept, PTL DEF Spec

-----------------------------------------------------------------------------
(* The refresh locks. *)

LockInvariant ==
    /\ refresher \in [Auths -> Actors \cup {None}]
    /\ \A a \in Auths, t \in Actors :
          refresher[a] = t <=> pc[t] = "oauth" /\ req[t].auth = a
    /\ \A t \in Actors : pc[t] \notin {"idle", "launched"} => req[t].auth \in Auths

\* The bounds and what the limits and the status are.
BoundInvariant ==
    /\ runtime <= MaxRuntime /\ \A t \in Actors : req[t].runtime <= MaxRuntime
    /\ block \in AuthOrNone /\ quota \in AuthOrNone
    /\ status.of \in AuthOrNone
    /\ status.state \in {"unknown", "checking", "oauth_ready", "api_ready", "error"}
    /\ status = Status(status.state, status.of)
    /\ gui \in {"idle", "commit", "closing", "closed"}

LEMMA TypeFollows == Typed /\ LockInvariant /\ BoundInvariant => TypeOK
<1> SUFFICES ASSUME Typed, LockInvariant, BoundInvariant PROVE TypeOK
  OBVIOUS
<1>1. runtime \in 0..MaxRuntime
  BY BoundAssumption DEF Typed, BoundInvariant
<1>2. req \in [Actors -> Request]
  <2> SUFFICES ASSUME NEW t \in Actors PROVE req[t] \in Request
    BY DEF Typed
  <2>1. /\ req[t] \in [runtime : Nat, auth : AuthOrNone, retry : BOOLEAN, ok : BOOLEAN]
        /\ req[t].runtime <= MaxRuntime
    BY DEF Typed, BoundInvariant
  <2> QED BY <2>1, BoundAssumption DEF Request
<1>3. status \in [state : {"unknown", "checking", "oauth_ready", "api_ready", "error"},
                  of : AuthOrNone]
  BY DEF BoundInvariant, Status
<1>4. pc \in [Actors -> {"idle", "begun", "launched", "blocked?", "enter", "token", "lock",
                         "oauth", "send", "answer", "done", "report"}]
  BY DEF Typed, Places
<1> QED BY <1>1, <1>2, <1>3, <1>4 DEF Typed, LockInvariant, BoundInvariant, TypeOK

\* A thread moves on without a lock, and keeps its auth or takes one.
LEMMA LocksStay ==
  ASSUME Typed, LockInvariant, NEW t \in Actors, NEW to, Goto(t, to),
         pc[t] # "oauth", to # "oauth", UNCHANGED refresher, req' \in [Actors -> Request],
         \A u \in Actors : u # t => req'[u] = req[u],
         to \notin {"idle", "launched"} => req'[t].auth \in Auths
  PROVE  LockInvariant'
<1>1. /\ pc'[t] = to /\ \A u \in Actors : u # t => pc'[u] = pc[u] /\ req'[u] = req[u]
      /\ refresher' = refresher
  BY DEF Typed, Goto
<1>2. \A a \in Auths, u \in Actors : refresher'[a] = u <=> pc'[u] = "oauth" /\ req'[u].auth = a
  <2> SUFFICES ASSUME NEW a \in Auths, NEW u \in Actors
               PROVE  refresher'[a] = u <=> pc'[u] = "oauth" /\ req'[u].auth = a
    OBVIOUS
  <2>1. refresher[a] = u <=> pc[u] = "oauth" /\ req[u].auth = a
    BY DEF LockInvariant
  <2>2. CASE u = t
    BY <1>1, <2>1, <2>2
  <2>3. CASE u # t
    BY <1>1, <2>1, <2>3
  <2> QED BY <2>2, <2>3
<1>3. \A u \in Actors : pc'[u] \notin {"idle", "launched"} => req'[u].auth \in Auths
  BY <1>1 DEF LockInvariant
<1> QED BY <1>1, <1>2, <1>3 DEF LockInvariant

\* A thread moves on with its request.
LEMMA LocksStayMoving ==
  ASSUME Typed, LockInvariant, NEW t \in Actors, NEW from, NEW to, Move(t, from, to),
         from \notin {"oauth", "idle", "launched"}, to # "oauth", UNCHANGED refresher,
         Typed'
  PROVE  LockInvariant'
<1>1. Goto(t, to) /\ req' = req /\ pc[t] = from
  BY DEF Move
<1>2. /\ pc'[t] = to /\ refresher' = refresher
      /\ \A u \in Actors : u # t => pc'[u] = pc[u]
  BY <1>1 DEF Typed, Goto
<1>3. \A a \in Auths, u \in Actors : refresher'[a] = u <=> pc'[u] = "oauth" /\ req'[u].auth = a
  <2> SUFFICES ASSUME NEW a \in Auths, NEW u \in Actors
               PROVE  refresher'[a] = u <=> pc'[u] = "oauth" /\ req'[u].auth = a
    OBVIOUS
  <2>1. refresher[a] = u <=> pc[u] = "oauth" /\ req[u].auth = a
    BY DEF LockInvariant
  <2> QED BY <1>1, <1>2, <2>1
<1>4. \A u \in Actors : pc'[u] \notin {"idle", "launched"} => req'[u].auth \in Auths
  BY <1>1, <1>2 DEF LockInvariant
<1> QED BY <1>2, <1>3, <1>4 DEF LockInvariant

\* Its OAuth request ends.
LEMMA LocksReleased ==
  ASSUME Typed, LockInvariant, NEW t \in Actors, NEW to, Goto(t, to), pc[t] = "oauth",
         to # "oauth", Unlock(t), \A u \in Actors : req'[u].auth = req[u].auth
  PROVE  LockInvariant'
<1>1. /\ pc'[t] = to /\ \A u \in Actors : u # t => pc'[u] = pc[u]
  BY DEF Typed, Goto
<1>2. PICK a \in Auths : a = req[t].auth
  BY DEF LockInvariant
<1>3. /\ refresher' = [refresher EXCEPT ![a] = None] /\ refresher[a] = t
      /\ refresher' \in [Auths -> Actors \cup {None}]
  BY <1>2 DEF Unlock, LockInvariant
<1>4. \A b \in Auths, u \in Actors : refresher'[b] = u <=> pc'[u] = "oauth" /\ req'[u].auth = b
  <2> SUFFICES ASSUME NEW b \in Auths, NEW u \in Actors
               PROVE  refresher'[b] = u <=> pc'[u] = "oauth" /\ req'[u].auth = b
    OBVIOUS
  <2>1. refresher[b] = u <=> pc[u] = "oauth" /\ req[u].auth = b
    BY DEF LockInvariant
  <2>2. None # u
    BY ActorAssumption DEF Actors
  <2>3. refresher'[b] = IF b = a THEN None ELSE refresher[b]
    BY <1>3 DEF LockInvariant
  <2> QED BY <1>1, <1>2, <1>3, <2>1, <2>2, <2>3
<1>5. \A u \in Actors : pc'[u] \notin {"idle", "launched"} => req'[u].auth \in Auths
  BY <1>1 DEF LockInvariant
<1> QED BY <1>3, <1>4, <1>5 DEF LockInvariant

\* A free lock is taken.
LEMMA LocksTaken ==
  ASSUME Typed, LockInvariant, NEW t \in Actors, Lock(t)
  PROVE  LockInvariant'
<1>1. PICK a : a = req[t].auth
  OBVIOUS
<1>2. /\ pc[t] = "lock" /\ pc' = [pc EXCEPT ![t] = "oauth"] /\ req' = req
      /\ refresher[a] = None /\ refresher' = [refresher EXCEPT ![a] = t]
  BY <1>1 DEF Lock, Move, Goto
<1>3. a \in Auths
  BY <1>1, <1>2 DEF LockInvariant
<1>4. \A b \in Auths, u \in Actors : refresher'[b] = u <=> pc'[u] = "oauth" /\ req'[u].auth = b
  <2> SUFFICES ASSUME NEW b \in Auths, NEW u \in Actors
               PROVE  refresher'[b] = u <=> pc'[u] = "oauth" /\ req'[u].auth = b
    OBVIOUS
  <2>1. refresher[b] = u <=> pc[u] = "oauth" /\ req[u].auth = b
    BY DEF LockInvariant
  <2>2. None # u
    BY ActorAssumption DEF Actors
  <2>3. refresher'[b] = IF b = a THEN t ELSE refresher[b]
    BY <1>2 DEF LockInvariant
  <2>4. pc'[u] = IF u = t THEN "oauth" ELSE pc[u]
    BY <1>2 DEF Typed
  <2> QED BY <1>1, <1>2, <2>1, <2>2, <2>3, <2>4
<1>5. \A u \in Actors : pc'[u] \notin {"idle", "launched"} => req'[u].auth \in Auths
  BY <1>2 DEF LockInvariant, Typed
<1>6. refresher' \in [Auths -> Actors \cup {None}]
  BY <1>2, <1>3 DEF LockInvariant
<1> QED BY <1>4, <1>5, <1>6 DEF LockInvariant

\* Nothing happens to requests and locks.
LEMMA LocksSame ==
  ASSUME LockInvariant, UNCHANGED <<pc, req, refresher>> PROVE LockInvariant'
  BY DEF LockInvariant

LEMMA LocksKept ==
  ASSUME Typed, Typed', TypeOK, LockInvariant, [Next]_vars
  PROVE  LockInvariant'
<1> USE DEF guiVars, limitVars
<1>1. Validator \in Actors /\ Workers \subseteq Actors
  BY DEF Actors
<1>2. NoRequest \in Request /\ auth \in Auths /\ req \in [Actors -> Request]
  BY BoundAssumption DEF NoRequest, RequestOf, Request, AuthOrNone, TypeOK
<1>3. ASSUME NEW w \in Workers, Launch(w) \/ WorkerStep(w) PROVE LockInvariant'
  <2>1. CASE Launch(w)
    <3>1. /\ Goto(w, "launched") /\ pc[w] = "idle" /\ UNCHANGED refresher
          /\ req' = [req EXCEPT ![w].runtime = runtime]
      BY <2>1 DEF Launch
    <3>2. \A u \in Actors : u # w => req'[u] = req[u]
      BY <1>2, <3>1
    <3>3. req' \in [Actors -> Request]
      BY <1>1, <1>2, <3>1 DEF TypeOK, Request
    <3> QED BY <1>1, <3>1, <3>2, <3>3, LocksStay
  <2>2. CASE Start(w)
    <3>1. /\ Goto(w, "blocked?") /\ pc[w] = "launched" /\ UNCHANGED refresher
          /\ req' = [req EXCEPT ![w].auth = auth]
      BY <2>2 DEF Start
    <3>2. req'[w].auth = auth /\ \A u \in Actors : u # w => req'[u] = req[u]
      BY <1>1, <1>2, <3>1 DEF Request
    <3>3. req' \in [Actors -> Request]
      BY <1>1, <1>2, <3>1 DEF Request, Auths, AuthOrNone
    <3> QED BY <1>1, <1>2, <3>1, <3>2, <3>3, LocksStay
  <2>3. CASE CheckBlock(w)
    BY <2>3, <1>1, LocksStayMoving DEF CheckBlock
  <2>4. CASE Enter(w) \/ Send(w)
    BY <2>4, <1>1, LocksStayMoving DEF Enter, Send, RequireCurrent
  <2>5. CASE Abandon(w) \/ ReceiveResult(w)
    <3>1. /\ Goto(w, "idle") /\ pc[w] # "oauth" /\ UNCHANGED refresher
          /\ req' = [req EXCEPT ![w] = NoRequest]
      BY <2>5 DEF Abandon, ReceiveResult
    <3>2. \A u \in Actors : u # w => req'[u] = req[u]
      BY <1>2, <3>1
    <3>3. req' \in [Actors -> Request]
      BY <1>2, <3>1
    <3> QED BY <1>1, <3>1, <3>2, <3>3, LocksStay
  <2>6. CASE HasToken(w)
    BY <2>6, <1>1, LocksStayMoving DEF HasToken
  <2>7. CASE OauthSucceeds(w) \/ OauthFails(w)
    <3>1. PICK to : /\ Goto(w, to) /\ to \in {"send", "done"} /\ pc[w] = "oauth" /\ Unlock(w)
                    /\ req' = req
      BY <2>7 DEF OauthSucceeds, OauthFails, Move
    <3> QED BY <1>1, <3>1, LocksReleased
  <2>8. CASE QueryFails(w)
    BY <2>8, <1>1, LocksStayMoving DEF QueryFails
  <2>9. CASE Unauthorized(w) \/ Answered(w)
    <3>1. PICK to : /\ Goto(w, to) /\ to \in {"enter", "done"} /\ pc[w] = "answer"
                    /\ UNCHANGED refresher
                    /\ \/ req' = [req EXCEPT ![w].retry = TRUE]
                       \/ req' = [req EXCEPT ![w].ok = TRUE]
      BY <2>9 DEF Unauthorized, Answered
    <3>2. req'[w].auth = req[w].auth /\ \A u \in Actors : u # w => req'[u] = req[u]
      BY <1>1, <1>2, <3>1 DEF Request
    <3>3. req' \in [Actors -> Request]
      <4>1. CASE req' = [req EXCEPT ![w].retry = TRUE]
        BY <1>1, <1>2, <4>1 DEF Request
      <4>2. CASE req' = [req EXCEPT ![w].ok = TRUE]
        BY <1>1, <1>2, <4>2 DEF Request
      <4> QED BY <3>1, <4>1, <4>2
    <3>4. req[w].auth \in Auths
      BY <1>1, <3>1 DEF LockInvariant
    <3> QED BY <1>1, <3>1, <3>2, <3>3, <3>4, LocksStay
  <2> QED BY <1>3, <2>1, <2>2, <2>3, <2>4, <2>5, <2>6, <2>7, <2>8, <2>9 DEF WorkerStep
<1>4. ASSUME NEW t \in Actors, Lock(t) PROVE LockInvariant'
  BY <1>4, LocksTaken
<1>5. CASE ValidatorStep
  <2>1. CASE CancelValidation \/ BeginValidation
    BY <2>1, <1>1, LocksStayMoving DEF CancelValidation, BeginValidation
  <2>2. CASE Probed
    <3>1. PICK ok \in BOOLEAN : req' = [req EXCEPT ![Validator].ok = ok]
      BY <2>2 DEF Probed
    <3>2. Goto(Validator, "report") /\ pc[Validator] = "oauth" /\ Unlock(Validator)
      BY <2>2 DEF Probed
    <3>3. \A u \in Actors : req'[u].auth = req[u].auth
      BY <1>1, <1>2, <3>1 DEF Request
    <3> QED BY <1>1, <3>2, <3>3, LocksReleased
  <2>3. CASE Report
    BY <2>3, <1>1, LocksStayMoving DEF Report
  <2> QED BY <1>5, <2>1, <2>2, <2>3 DEF ValidatorStep
<1>6. CASE GuiStep \/ Unblock \/ UNCHANGED vars
  <2>1. UNCHANGED <<pc, req, refresher>>
    BY <1>6 DEF GuiStep, Reconfigure, BumpRuntime, MarkValidated, CloseOverlay, Close, Unblock, vars
  <2> QED BY <2>1, LocksSame
<1> QED BY <1>3, <1>4, <1>5, <1>6 DEF Next

LEMMA BoundsKept ==
  ASSUME Typed, TypeOK, BoundInvariant, [Next]_vars
  PROVE  BoundInvariant'
<1> USE DEF guiVars, limitVars
<1>1. /\ Validator \in Actors /\ Workers \subseteq Actors /\ NoRequest.runtime = 0
      /\ req \in [Actors -> Request] /\ auth \in AuthOrNone /\ 0 \in AuthOrNone
      /\ auth + 1 <= MaxAuths => auth + 1 \in AuthOrNone
      /\ runtime \in Nat /\ MaxRuntime \in Nat
  BY BoundAssumption DEF Actors, NoRequest, RequestOf, TypeOK, Auths, AuthOrNone, Typed
<1>2. runtime' <= MaxRuntime
  <2>1. CASE BumpRuntime
    BY <1>1, <2>1 DEF BumpRuntime
  <2>2. CASE runtime' = runtime
    BY <2>2 DEF BoundInvariant
  <2> QED BY <2>1, <2>2 DEF Next, WorkerStep, Launch, Start, CheckBlock, Enter, Send, RequireCurrent,
                            Abandon, HasToken, OauthSucceeds, OauthFails, QueryFails, Unauthorized,
                            Answered, ReceiveResult, Lock, ValidatorStep, CancelValidation,
                            BeginValidation, Probed, Report, GuiStep, Reconfigure, MarkValidated,
                            CloseOverlay, Close, Unblock, vars
<1>3. \A t \in Actors : req'[t].runtime <= MaxRuntime
  <2>1. ASSUME NEW w \in Workers, Launch(w) PROVE \A t \in Actors : req'[t].runtime <= MaxRuntime
    <3>1. req' = [req EXCEPT ![w].runtime = runtime] /\ runtime <= MaxRuntime
      BY <2>1 DEF Launch, BoundInvariant
    <3> QED BY <1>1, <3>1 DEF BoundInvariant, Request
  <2>2. ASSUME NEW w \in Workers, Abandon(w) \/ ReceiveResult(w)
        PROVE  \A t \in Actors : req'[t].runtime <= MaxRuntime
    <3>1. req' = [req EXCEPT ![w] = NoRequest]
      BY <2>2 DEF Abandon, ReceiveResult
    <3>2. \A t \in Actors : req'[t] = IF t = w THEN NoRequest ELSE req[t]
      BY <1>1, <3>1
    <3> QED BY <1>1, <3>2 DEF BoundInvariant
  <2>3. ASSUME NEW w \in Workers, Start(w) \/ Unauthorized(w) \/ Answered(w)
        PROVE  \A t \in Actors : req'[t].runtime <= MaxRuntime
    <3>1. \/ req' = [req EXCEPT ![w].auth = auth]
          \/ req' = [req EXCEPT ![w].retry = TRUE]
          \/ req' = [req EXCEPT ![w].ok = TRUE]
      BY <2>3 DEF Start, Unauthorized, Answered
    <3>2. \A t \in Actors : req'[t].runtime = req[t].runtime
      BY <1>1, <3>1 DEF Request
    <3> QED BY <3>2 DEF BoundInvariant
  <2>4. CASE Probed
    <3>1. PICK ok \in BOOLEAN : req' = [req EXCEPT ![Validator].ok = ok]
      BY <2>4 DEF Probed
    <3>2. \A t \in Actors : req'[t].runtime = req[t].runtime
      BY <1>1, <3>1 DEF Request
    <3> QED BY <3>2 DEF BoundInvariant
  <2>5. CASE req' = req
    BY <2>5 DEF BoundInvariant
  <2>6. \/ \E w \in Workers : \/ Launch(w) \/ Abandon(w) \/ ReceiveResult(w) \/ Start(w)
                              \/ Unauthorized(w) \/ Answered(w)
        \/ Probed
        \/ req' = req
    BY DEF Next, WorkerStep, CheckBlock, Enter, Send, RequireCurrent, HasToken, OauthSucceeds,
           OauthFails, QueryFails, Lock, Move, ValidatorStep, CancelValidation, BeginValidation,
           Report, GuiStep, Reconfigure, BumpRuntime, MarkValidated, CloseOverlay, Close, Unblock,
           vars
  <2> QED BY <2>1, <2>2, <2>3, <2>4, <2>5, <2>6
<1>4. block' \in AuthOrNone
  <2>1. ASSUME NEW w \in Workers, OauthFails(w) \/ QueryFails(w) PROVE block' \in AuthOrNone
    BY <1>1, <2>1 DEF OauthFails, QueryFails, BlockIfCurrent, IsCurrent, BoundInvariant
  <2>2. \/ \E w \in Workers : OauthFails(w) \/ QueryFails(w)
        \/ block' = block
        \/ block' = 0
    BY DEF Next, WorkerStep, Launch, Start, CheckBlock, Enter, Send, RequireCurrent, Abandon, HasToken,
           OauthSucceeds, Unauthorized, Answered, ReceiveResult, Lock, ValidatorStep,
           CancelValidation, BeginValidation, Probed, Report, GuiStep, Reconfigure, BumpRuntime,
           MarkValidated, CloseOverlay, Close, Unblock, vars
  <2> QED BY <1>1, <2>1, <2>2 DEF BoundInvariant
<1>5. quota' \in AuthOrNone
  <2>1. ASSUME NEW w \in Workers, Answered(w) PROVE quota' \in AuthOrNone
    BY <1>1, <2>1 DEF Answered, QuotaIfCurrent, IsCurrent, BoundInvariant
  <2>2. \/ \E w \in Workers : Answered(w)
        \/ quota' = quota
        \/ quota' = 0
    BY DEF Next, WorkerStep, Launch, Start, CheckBlock, Enter, Send, RequireCurrent, Abandon, HasToken,
           OauthSucceeds, OauthFails, QueryFails, Unauthorized, ReceiveResult, Lock, ValidatorStep,
           CancelValidation, BeginValidation, Probed, Report, GuiStep, Reconfigure, BumpRuntime,
           MarkValidated, CloseOverlay, Close, Unblock, vars
  <2> QED BY <1>1, <2>1, <2>2 DEF BoundInvariant
<1>6. \/ status' = status
      \/ \E of \in AuthOrNone,
            state \in {"unknown", "checking", "oauth_ready", "api_ready", "error"} :
               status' = Status(state, of)
  <2>1. \A t \in Actors : req[t].auth \in AuthOrNone
    BY <1>1 DEF Request
  <2>2. ASSUME NEW w \in Workers, ReceiveResult(w)
        PROVE  \/ status' = status
               \/ \E of \in AuthOrNone, state \in {"api_ready", "error"} : status' = Status(state, of)
    BY <1>1, <2>1, <2>2 DEF ReceiveResult
  <2>3. CASE Report
    BY <1>1, <2>1, <2>3 DEF Report
  <2>4. CASE CancelValidation \/ Close
    BY <1>1, <2>4 DEF CancelValidation, Close
  <2>5. CASE Reconfigure
    BY <1>1, BoundAssumption, <2>5 DEF Reconfigure, Auths, AuthOrNone, TypeOK
  <2>6. CASE MarkValidated
    BY <1>1, <2>6 DEF MarkValidated
  <2>7. \/ \E w \in Workers : ReceiveResult(w)
        \/ Report \/ CancelValidation \/ Close \/ Reconfigure \/ MarkValidated
        \/ status' = status
    BY DEF Next, WorkerStep, Launch, Start, CheckBlock, Enter, Send, RequireCurrent, Abandon, HasToken,
           OauthSucceeds, OauthFails, QueryFails, Unauthorized, Answered, Lock, ValidatorStep,
           BeginValidation, Probed, GuiStep, BumpRuntime, CloseOverlay, Unblock, vars
  <2> QED BY <2>2, <2>3, <2>4, <2>5, <2>6, <2>7
<1>7. /\ status'.of \in AuthOrNone
      /\ status'.state \in {"unknown", "checking", "oauth_ready", "api_ready", "error"}
      /\ status' = Status(status'.state, status'.of)
  BY <1>6 DEF BoundInvariant, Status
<1>8. gui' \in {"idle", "commit", "closing", "closed"}
  BY DEF BoundInvariant, Next, WorkerStep, Launch, Start, CheckBlock, Enter, Send, RequireCurrent,
         Abandon, HasToken, OauthSucceeds, OauthFails, QueryFails, Unauthorized, Answered,
         ReceiveResult, Lock, ValidatorStep, CancelValidation, BeginValidation, Probed, Report,
         GuiStep, Reconfigure, BumpRuntime, MarkValidated, CloseOverlay, Close, Unblock, vars
<1> QED BY <1>2, <1>3, <1>4, <1>5, <1>7, <1>8 DEF BoundInvariant

\* Whoever is in an OAuth request holds the refresh lock of its auth, and nobody else does;
\* runtime generations, blocks, quota and status stay within what they can be.
THEOREM LocksAreHeldByOne == Spec => []TypeOK
<1> DEFINE I == LimitInvariant /\ LockInvariant /\ BoundInvariant
<1>1. Init => I
  <2> SUFFICES ASSUME Init PROVE I
    OBVIOUS
  <2>1. LimitInvariant
    BY InitialLimits
  <2>2. /\ Validator \in Actors /\ Workers \subseteq Actors /\ Validator \notin Workers
        /\ 1 \in Auths /\ 0 \notin Auths /\ None \notin Actors /\ MaxRuntime \in Nat
        /\ {0, 1} \subseteq AuthOrNone
    BY ActorAssumption, BoundAssumption DEF Actors, Auths, AuthOrNone
  <2>3. /\ \A t \in Actors : pc[t] \in {"begun", "idle"}
        /\ \A t \in Actors : pc[t] # "idle" => req[t].auth = 1
        /\ \A t \in Actors : req[t].runtime = 0
        /\ refresher = [a \in Auths |-> None]
    BY <2>2 DEF Init, RequestOf, NoRequest
  <2>4. LockInvariant
    BY <2>2, <2>3 DEF LockInvariant
  <2>5. BoundInvariant
    BY <2>2, <2>3 DEF Init, BoundInvariant, Status
  <2> QED BY <2>1, <2>4, <2>5
<1>2. I => TypeOK
  BY TypeFollows DEF LimitInvariant
<1>3. I /\ [Next]_vars => I'
  <2> SUFFICES ASSUME I, [Next]_vars PROVE I'
    OBVIOUS
  <2>1. LimitInvariant' /\ Typed /\ Typed' /\ TypeOK
    BY <1>2, LimitsKept DEF LimitInvariant
  <2> QED BY <2>1, LocksKept, BoundsKept
<1> QED BY <1>1, <1>2, <1>3, PTL DEF Spec
=============================================================================
