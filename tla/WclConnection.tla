------------------------------ MODULE WclConnection ------------------------------
(***************************************************************************)
(* WCLClient (wcl.py): what the program believes of its connection to      *)
(* Warcraft Logs, and its use by the overlay and __main__.py.              *)
(*                                                                         *)
(* A worker takes the client's auth and its generation, gives up if a      *)
(* retry block is in force, gets a token, which may take an OAuth request  *)
(* under the auth's refresh lock, and posts its query.  Its failures block *)
(* further requests and its answers bring the quota; its result reaches    *)
(* the GUI thread, which publishes the connection's status.  The startup   *)
(* validation publishes one, too, and so does the settings commit, which   *)
(* replaces the auth and then changes the overlay's runtime generation.    *)
(* The tokens themselves are WclAuth's affair.                             *)
(*                                                                         *)
(* Auths are numbered as they are made, and name _auth_generation:         *)
(* reconfigure_auth changes both, and close ends the last one.  The only   *)
(* validation's "checking" is never published again: it is the status, or  *)
(* _connection_status_revision has moved on.                               *)
(***************************************************************************)
EXTENDS Naturals

CONSTANTS Workers,    \* threads of the fetch pool
          Validator,  \* the startup validation's thread
          None,       \* no thread
          MaxAuths,   \* bound: auths the client is given
          MaxRuntime  \* bound: changes of the runtime generation

ASSUME ActorAssumption == Validator \notin Workers /\ None \notin Workers \cup {Validator}
ASSUME BoundAssumption == MaxAuths \in Nat \ {0} /\ MaxRuntime \in Nat

Actors == Workers \cup {Validator}
Auths == 1..MaxAuths
AuthOrNone == 0..MaxAuths

VARIABLES
    auth,      \* _auth
    block,     \* the auth that met the retry block in force, 0 for none
    quota,     \* the auth _quota_snapshot was taken with, 0 for none
    status,    \* _connection_status, and the auth it is about
    refresher, \* who holds each auth's _refresh_lock
    runtime,   \* the overlay's _wcl_runtime_generation
    gui,       \* what the GUI thread is in the middle of
    pc,        \* where each thread is
    req        \* its request

limitVars == <<block, quota>>
guiVars == <<runtime, gui>>
vars == <<auth, limitVars, status, refresher, guiVars, pc, req>>

Request == [runtime : 0..MaxRuntime, auth : AuthOrNone, retry : BOOLEAN, ok : BOOLEAN]
RequestOf(a) == [runtime |-> 0, auth |-> a, retry |-> FALSE, ok |-> FALSE]
NoRequest == RequestOf(0)
Status(state, of) == [state |-> state, of |-> of]

TypeOK ==
    /\ auth \in Auths /\ block \in AuthOrNone /\ quota \in AuthOrNone
    /\ status \in [state : {"unknown", "checking", "oauth_ready", "api_ready", "error"},
                   of : AuthOrNone]
    /\ refresher \in [Auths -> Actors \cup {None}]
    /\ runtime \in 0..MaxRuntime
    /\ gui \in {"idle", "commit", "closing", "closed"}
    /\ pc \in [Actors -> {"idle", "begun", "launched", "blocked?", "enter", "token", "lock",
                          "oauth", "send", "answer", "done", "report"}]
    /\ req \in [Actors -> Request]
    /\ \A a \in Auths, t \in Actors :
          refresher[a] = t <=> pc[t] = "oauth" /\ req[t].auth = a

\* begin_auth_validation has been called (_validate_oauth_async).
Init ==
    /\ auth = 1 /\ block = 0 /\ quota = 0 /\ status = Status("checking", 1)
    /\ refresher = [a \in Auths |-> None]
    /\ runtime = 0 /\ gui = "idle"
    /\ pc = [t \in Actors |-> IF t = Validator THEN "begun" ELSE "idle"]
    /\ req = [t \in Actors |-> IF t = Validator THEN RequestOf(1) ELSE NoRequest]

Goto(t, l) == pc' = [pc EXCEPT ![t] = l]
Move(t, from, to) == pc[t] = from /\ Goto(t, to) /\ UNCHANGED req

\* The generation taken with a is still _auth_generation.
IsCurrent(a) == a = auth /\ gui # "closed"

-----------------------------------------------------------------------------
(* A worker's request: fetch_character_ranks, fetch_character_raid_boss_details *)
(* and _post_graphql_with_auth_retry.                                        *)

\* The overlay launches a fetch.
Launch(w) ==
    /\ gui = "idle" /\ pc[w] = "idle"
    /\ Goto(w, "launched") /\ req' = [req EXCEPT ![w].runtime = runtime]
    /\ UNCHANGED <<auth, limitVars, status, refresher, guiVars>>

\* The worker takes the auth and its generation, ...
Start(w) ==
    /\ pc[w] = "launched"
    /\ Goto(w, "blocked?") /\ req' = [req EXCEPT ![w].auth = auth]
    /\ UNCHANGED <<auth, limitVars, status, refresher, guiVars>>

\* ... asks for a retry block, ...
CheckBlock(w) ==
    /\ Move(w, "blocked?", IF block # 0 THEN "done" ELSE "enter")
    /\ UNCHANGED <<auth, limitVars, status, refresher, guiVars>>

\* ... and before it asks for a token, and before it uses it, makes sure that
\* its auth is current.
RequireCurrent(w, here, next) ==
    /\ Move(w, here, IF IsCurrent(req[w].auth) THEN next ELSE "done")
    /\ UNCHANGED <<auth, limitVars, status, refresher, guiVars>>
Enter(w) == RequireCurrent(w, "enter", "token")
Send(w) == RequireCurrent(w, "send", "answer")

\* There, an operation that the overlay has retired ends without a result.
Abandon(w) ==
    /\ pc[w] \in {"launched", "enter", "send"}
    /\ Goto(w, "idle") /\ req' = [req EXCEPT ![w] = NoRequest]
    /\ UNCHANGED <<auth, limitVars, status, refresher, guiVars>>

\* get_token has one in memory, or another thread has just refreshed it, ...
HasToken(w) ==
    /\ \/ Move(w, "token", "send")
       \/ Move(w, "token", "lock")
       \/ Move(w, "lock", "send") /\ refresher[req[w].auth] = None
    /\ UNCHANGED <<auth, limitVars, status, refresher, guiVars>>

\* ... or it takes the lock and makes an OAuth request; so does the validation.
Lock(t) ==
    /\ Move(t, "lock", "oauth")
    /\ refresher[req[t].auth] = None
    /\ refresher' = [refresher EXCEPT ![req[t].auth] = t]
    /\ UNCHANGED <<auth, limitVars, status, guiVars>>

\* mutant: the lock is kept when the request ends
KeepLock(t) == UNCHANGED refresher

Unlock(t) == refresher' = [refresher EXCEPT ![req[t].auth] = None]

OauthSucceeds(w) ==
    /\ Move(w, "oauth", "send") /\ Unlock(w)
    /\ UNCHANGED <<auth, limitVars, status, guiVars>>

\* mutant: a failure of former credentials blocks the present ones
BlockAnyway(a) == block' = a

\* _set_retry_block_if_current.
BlockIfCurrent(a) == IF IsCurrent(a) THEN block' = a ELSE UNCHANGED block

\* A failed OAuth request sets a block if it may be retried, ...
OauthFails(w) ==
    /\ Move(w, "oauth", "done") /\ Unlock(w)
    /\ BlockIfCurrent(req[w].auth) \/ UNCHANGED block
    /\ UNCHANGED <<auth, quota, status, guiVars>>

\* ... and so does a failed query.
QueryFails(w) ==
    /\ Move(w, "answer", "done")
    /\ BlockIfCurrent(req[w].auth) \/ UNCHANGED block
    /\ UNCHANGED <<auth, quota, status, refresher, guiVars>>

\* 401: the first one of a current auth is followed by another attempt.
Unauthorized(w) ==
    /\ pc[w] = "answer" /\ ~req[w].retry /\ IsCurrent(req[w].auth)
    /\ Goto(w, "enter") /\ req' = [req EXCEPT ![w].retry = TRUE]
    /\ UNCHANGED <<auth, limitVars, status, refresher, guiVars>>

\* mutant: the quota of former credentials is recorded
QuotaAnyway(a) == quota' \in {quota, a}

\* _record_quota_snapshot, if the answer has one.
QuotaIfCurrent(a) == IF IsCurrent(a) THEN quota' \in {quota, a} ELSE UNCHANGED quota

Answered(w) ==
    /\ pc[w] = "answer"
    /\ Goto(w, "done") /\ req' = [req EXCEPT ![w].ok = TRUE]
    /\ QuotaIfCurrent(req[w].auth)
    /\ UNCHANGED <<auth, block, status, refresher, guiVars>>

\* A retry block expires.
Unblock ==
    /\ block # 0 /\ block' = 0
    /\ UNCHANGED <<auth, quota, status, refresher, guiVars, pc, req>>

\* mutant: a result of any runtime generation counts
ResultOfAny(w) == gui = "idle"

\* _record_fetch_connection_status: the overlay is open and has not moved on.
ResultCounts(w) == gui = "idle" /\ req[w].runtime = runtime

\* networkDone reaches the GUI thread (record_api_result); a result whose route
\* has gone does not count either.
ReceiveResult(w) ==
    /\ gui # "commit" /\ pc[w] = "done"
    /\ \/ /\ ResultCounts(w)
          /\ status' = Status(IF req[w].ok THEN "api_ready" ELSE "error", req[w].auth)
       \/ UNCHANGED status
    /\ Goto(w, "idle") /\ req' = [req EXCEPT ![w] = NoRequest]
    /\ UNCHANGED <<auth, limitVars, refresher, guiVars>>

-----------------------------------------------------------------------------
(* The startup validation.                                                   *)

\* The generation and the status revision are those it began with.
Awaited == IsCurrent(req[Validator].auth) /\ status.state = "checking"

\* mutant: when the thread does not start, the status stays
CancelNothing ==
    /\ Move(Validator, "begun", "idle")
    /\ UNCHANGED <<auth, limitVars, status, refresher, guiVars>>

\* Its thread is not started (cancel_auth_validation), ...
CancelValidation ==
    /\ Move(Validator, "begun", "idle")
    /\ IF Awaited THEN status' = Status("unknown", 0) ELSE UNCHANGED status
    /\ UNCHANGED <<auth, limitVars, refresher, guiVars>>

\* ... or run_auth_validation begins, ...
BeginValidation ==
    /\ Move(Validator, "begun", IF Awaited THEN "lock" ELSE "idle")
    /\ UNCHANGED <<auth, limitVars, status, refresher, guiVars>>

\* ... probes the auth, ...
Probed ==
    /\ pc[Validator] = "oauth" /\ Goto(Validator, "report") /\ Unlock(Validator)
    /\ \E ok \in BOOLEAN : req' = [req EXCEPT ![Validator].ok = ok]
    /\ UNCHANGED <<auth, limitVars, status, guiVars>>

\* ... and publishes the outcome if nothing newer is known.
Report ==
    /\ Move(Validator, "report", "idle")
    /\ \/ /\ Awaited
          /\ status' = Status(IF req[Validator].ok THEN "oauth_ready" ELSE "error",
                              req[Validator].auth)
       \/ ~Awaited /\ UNCHANGED status
    /\ UNCHANGED <<auth, limitVars, refresher, guiVars>>

-----------------------------------------------------------------------------
(* The GUI thread.                                                           *)

\* mutant: what the former connection met stays in force
ReconfigureOnly ==
    /\ gui = "idle" /\ gui' = "commit"
    /\ auth < MaxAuths /\ auth' = auth + 1
    /\ status' = Status("oauth_ready", auth + 1)
    /\ UNCHANGED <<limitVars, runtime, refresher, pc, req>>

\* The settings commit gives the client a new auth (reconfigure_auth), ...
Reconfigure ==
    /\ gui = "idle" /\ gui' = "commit"
    /\ auth < MaxAuths /\ auth' = auth + 1
    /\ block' = 0 /\ quota' = 0
    /\ status' = Status("oauth_ready", auth + 1)
    /\ UNCHANGED <<runtime, refresher, pc, req>>

\* ... and changes the runtime generation; for another region, only that.
BumpRuntime ==
    /\ gui = "commit" \/ (gui = "idle" /\ runtime + MaxAuths - auth < MaxRuntime)
    /\ runtime < MaxRuntime
    /\ gui' = "idle" /\ runtime' = runtime + 1
    /\ UNCHANGED <<auth, limitVars, status, refresher, pc, req>>

\* mark_active_auth_validated: the same credentials were tested again.
MarkValidated ==
    /\ gui = "idle"
    /\ status' = Status("oauth_ready", auth)
    /\ UNCHANGED <<auth, limitVars, refresher, guiVars, pc, req>>

\* shutdown_fetches closes the overlay, then the client.
CloseOverlay ==
    /\ gui = "idle" /\ gui' = "closing"
    /\ UNCHANGED <<auth, limitVars, status, refresher, runtime, pc, req>>

Close ==
    /\ gui = "closing" /\ gui' = "closed"
    /\ status' = Status("unknown", 0)
    /\ UNCHANGED <<auth, limitVars, refresher, runtime, pc, req>>

-----------------------------------------------------------------------------
WorkerStep(w) ==
    \/ Start(w) \/ CheckBlock(w) \/ Enter(w) \/ Send(w) \/ Abandon(w) \/ HasToken(w)
    \/ OauthSucceeds(w) \/ OauthFails(w)
    \/ QueryFails(w) \/ Unauthorized(w) \/ Answered(w) \/ ReceiveResult(w)
ValidatorStep == CancelValidation \/ BeginValidation \/ Probed \/ Report
GuiStep == Reconfigure \/ BumpRuntime \/ MarkValidated \/ CloseOverlay \/ Close

Next ==
    \/ \E w \in Workers : Launch(w) \/ WorkerStep(w)
    \/ \E t \in Actors : Lock(t)
    \/ ValidatorStep \/ GuiStep \/ Unblock

Spec == Init /\ [][Next]_vars

\* The validation's thread runs, OAuth requests end (they have a time limit), and
\* the validation gets the refresh lock in the end.
Fairness ==
    /\ \A w \in Workers : WF_vars(OauthSucceeds(w) \/ OauthFails(w))
    /\ WF_vars(ValidatorStep) /\ SF_vars(Lock(Validator))

FairSpec == Spec /\ Fairness

-----------------------------------------------------------------------------
(* Properties. *)

\* A retry block, the quota and the status shown are about the credentials in
\* force, whichever requests, results and validations of former ones were under
\* way when they were replaced; nothing is shown of a closed connection.
LimitsAreCurrent ==
    /\ block \in {0, auth} /\ quota \in {0, auth} /\ status.of \in {0, auth}
    /\ gui = "closed" => status.state = "unknown"

\* "Checking" is not shown for ever: the validation publishes its outcome, or
\* gives way to something newer.
CheckingEnds == status.state = "checking" ~> status.state # "checking"
=============================================================================
