--------------------------------- MODULE WclAuth ---------------------------------
(***************************************************************************)
(* WCLAuth (wcl.py): the OAuth token of Warcraft Logs in memory and in     *)
(* token.json, and its use by WCLClient and __main__.py.                   *)
(*                                                                         *)
(* Fetch workers and the startup validator share an auth, whose refresh    *)
(* lock admits one OAuth request at a time.  A worker whose request is     *)
(* refused invalidates its token and tries once more.  The settings commit *)
(* makes a new auth, which takes the token file over; a worker of the      *)
(* settings dialog wipes the cache directory and resets the auth.          *)
(*                                                                         *)
(* Auths and tokens are numbered as they come.  _invalidate_generation is  *)
(* only compared with the value that the refresh under way remembers:      *)
(* overtaken says whether they differ.                                     *)
(***************************************************************************)
EXTENDS Naturals

CONSTANTS Workers,     \* threads of the fetch pool
          Validator,   \* the startup validation's thread
          Credentials, \* pairs of client id and secret
          None,        \* no thread, no credentials
          MaxAuths,    \* bound: auths made
          MaxTokens    \* bound: tokens issued

ActorAssumption == Validator \notin Workers /\ None \notin Workers \cup {Validator}
CredentialsAssumption == Credentials # {} /\ None \notin Credentials
BoundAssumption == MaxAuths \in Nat \ {0} /\ MaxTokens \in Nat \ {0}

Actors == Workers \cup {Validator}
Auths == 1..MaxAuths
Tokens == 1..MaxTokens
TokenOrNone == 0..MaxTokens

VARIABLES
    owner,       \* _cache_owner_generation_by_path: the newest auth
    creds,       \* the credentials of each auth
    file,        \* the token in token.json, and the fingerprint it was saved with
    memory,      \* _token of each auth
    usable,      \* it is not about to expire
    refresher,   \* who holds its _refresh_lock
    overtaken,   \* its _invalidate_generation has changed since the refresh began
    auth,        \* the client's _auth
    clearer,     \* the worker that clears the cache directory, the auth it will reset
    pc,          \* where each thread is
    req,         \* its request: auth, token, and the token refused at first
    issued,      \* how many tokens the service has issued
    dead,        \* history: for which auth and token an invalidation was meant
    unlinkFailed \* history: the token file could not be deleted, or protected

fileVars == <<owner, creds, file, unlinkFailed>>
authVars == <<memory, usable, refresher, overtaken>>
threadVars == <<pc, req>>
vars == <<fileVars, authVars, auth, clearer, threadVars, issued, dead>>

NoFile == [token |-> 0, cred |-> None]
Request == [auth : 0..MaxAuths, token : TokenOrNone, first : TokenOrNone]
RequestOf(a) == [auth |-> a, token |-> 0, first |-> 0]
NoRequest == RequestOf(0)

\* Where a thread is while it holds the refresh lock.
Refreshing == {"oauth", "publish", "save", "recheck", "drop"}

TypeOK ==
    /\ owner \in Auths /\ auth \in Auths /\ auth <= owner
    /\ creds \in [Auths -> Credentials \cup {None}]
    /\ file \in [token : Tokens, cred : Credentials] \cup {NoFile}
    /\ memory \in [Auths -> TokenOrNone]
    /\ usable \in [Auths -> BOOLEAN] /\ overtaken \in [Auths -> BOOLEAN]
    /\ refresher \in [Auths -> Actors \cup {None}]
    /\ clearer \in [step : {"idle", "wipe", "reset"}, auth : 0..MaxAuths]
    /\ pc \in [Actors -> Refreshing \cup {"idle", "get", "lock", "use", "reject"}]
    /\ req \in [Actors -> Request]
    /\ issued \in TokenOrNone
    /\ dead \subseteq Auths \X Tokens /\ unlinkFailed \in BOOLEAN
    \* one refresh at a time
    /\ \A a \in Auths, t \in Actors :
          refresher[a] = t <=> pc[t] \in Refreshing /\ req[t].auth = a

\* The first auth has been made, and the validation is about to probe it.
Init ==
    /\ owner = 1 /\ auth = 1
    /\ \E c \in Credentials : creds = [a \in Auths |-> IF a = 1 THEN c ELSE None]
    /\ file \in {NoFile, [token |-> 1, cred |-> creds[1]]}
    /\ issued = file.token
    \* a file that cannot be protected is not read
    /\ \E t \in {0, file.token} : memory = [a \in Auths |-> IF a = 1 THEN t ELSE 0]
    /\ \E u \in BOOLEAN : usable = [a \in Auths |-> u /\ memory[a] # 0]
    /\ refresher = [a \in Auths |-> None] /\ overtaken = [a \in Auths |-> FALSE]
    /\ clearer = [step |-> "idle", auth |-> 0]
    /\ pc = [t \in Actors |-> IF t = Validator THEN "lock" ELSE "idle"]
    /\ req = [t \in Actors |-> IF t = Validator THEN RequestOf(1) ELSE NoRequest]
    /\ dead = {} /\ unlinkFailed = FALSE

-----------------------------------------------------------------------------
(* The token file.  Whoever looks whether it is the owner holds the ownership *)
(* lock until the file has been written or deleted.                          *)

\* _delete_cached_token.
DeleteCached(a) ==
    \/ owner # a /\ UNCHANGED <<file, unlinkFailed>>
    \/ owner = a /\ file' = NoFile /\ UNCHANGED unlinkFailed
    \/ owner = a /\ file # NoFile /\ unlinkFailed' = TRUE /\ UNCHANGED file

\* _save_cached: a failure is tolerated.
SaveCached(a, token) ==
    \/ owner = a /\ file' = [token |-> token, cred |-> creds[a]]
    \/ UNCHANGED file

\* What an invalidation of a is meant for: every token asked for before it.
Invalidated(a) ==
    {a} \X (({memory[a]} \cup (IF owner = a THEN {file.token} ELSE {})
              \cup {req[t].token : t \in {u \in Actors : refresher[a] = u}}) \ {0})

\* mutant: only the file is deleted
InvalidateFile(a) ==
    /\ overtaken' = [overtaken EXCEPT ![a] = refresher[a] # None]
    /\ DeleteCached(a)
    /\ dead' = dead \cup Invalidated(a)
    /\ UNCHANGED <<owner, creds, memory, usable, refresher>>

\* WCLAuth.invalidate, once it has found that it applies.
Invalidate(a) ==
    /\ memory' = [memory EXCEPT ![a] = 0] /\ usable' = [usable EXCEPT ![a] = FALSE]
    /\ overtaken' = [overtaken EXCEPT ![a] = refresher[a] # None]
    /\ DeleteCached(a)
    /\ dead' = dead \cup Invalidated(a)
    /\ UNCHANGED <<owner, creds, refresher>>

-----------------------------------------------------------------------------
(* get_token, probe_online and _refresh.                                     *)

Goto(t, l) == pc' = [pc EXCEPT ![t] = l]
HasToken(a) == memory[a] # 0 /\ usable[a]
UseMemory(t) ==
    Goto(t, "use") /\ req' = [req EXCEPT ![t].token = memory[req[t].auth]]
\* The validator has no use for its token.
WithToken(t) ==
    \/ t = Validator /\ Goto(t, "idle") /\ req' = [req EXCEPT ![t] = NoRequest]
    \/ t # Validator /\ Goto(t, "use") /\ UNCHANGED req
Release(a) ==
    /\ refresher' = [refresher EXCEPT ![a] = None]
    /\ overtaken' = [overtaken EXCEPT ![a] = FALSE]

\* A worker's fetch takes the client's auth, ...
Begin(w) ==
    /\ pc[w] = "idle"
    /\ Goto(w, "get") /\ req' = [req EXCEPT ![w] = RequestOf(auth)]
    /\ UNCHANGED <<fileVars, authVars, auth, clearer, issued, dead>>

\* ... gets its token without the lock, ...
Get(w) ==
    /\ pc[w] = "get"
    /\ \/ HasToken(req[w].auth) /\ UseMemory(w)
       \/ ~HasToken(req[w].auth) /\ Goto(w, "lock") /\ UNCHANGED req
    /\ UNCHANGED <<fileVars, authVars, auth, clearer, issued, dead>>

\* mutant: no lock around the refresh
LockNothing(t) ==
    LET a == req[t].auth IN
    /\ pc[t] = "lock"
    /\ refresher' = [refresher EXCEPT ![a] = t]
    /\ Goto(t, "oauth")
    /\ UNCHANGED <<fileVars, memory, usable, overtaken, auth, clearer, req, issued, dead>>

\* ... or takes the lock and refreshes, if no other thread has done so before.
\* A probe refreshes in any case.
Lock(t) ==
    LET a == req[t].auth IN
    /\ pc[t] = "lock" /\ refresher[a] = None
    /\ \/ t # Validator /\ HasToken(a) /\ UseMemory(t) /\ UNCHANGED refresher
       \/ /\ t = Validator \/ ~HasToken(a)
          /\ refresher' = [refresher EXCEPT ![a] = t]
          /\ Goto(t, "oauth") /\ UNCHANGED req
    /\ UNCHANGED <<fileVars, memory, usable, overtaken, auth, clearer, issued, dead>>

\* _request_token returns a token, ...
Issue(t) ==
    /\ pc[t] = "oauth" /\ issued < MaxTokens
    /\ issued' = issued + 1
    /\ Goto(t, "publish") /\ req' = [req EXCEPT ![t].token = issued + 1]
    /\ dead' = dead \cup IF overtaken[req[t].auth] THEN {<<req[t].auth, issued + 1>>} ELSE {}
    /\ UNCHANGED <<fileVars, authVars, auth, clearer>>

\* ... or raises, which ends the request.
OauthFails(t) ==
    /\ pc[t] = "oauth"
    /\ Release(req[t].auth)
    /\ Goto(t, "idle") /\ req' = [req EXCEPT ![t] = NoRequest]
    /\ UNCHANGED <<fileVars, memory, usable, auth, clearer, issued, dead>>

\* mutant: the token is published although an invalidation overtook the request
PublishAnyway(t) ==
    LET a == req[t].auth IN
    /\ pc[t] = "publish"
    /\ memory' = [memory EXCEPT ![a] = req[t].token] /\ usable' = [usable EXCEPT ![a] = TRUE]
    /\ Goto(t, "save") /\ UNCHANGED <<req, refresher, overtaken>>
    /\ UNCHANGED <<fileVars, auth, clearer, issued, dead>>

\* _refresh publishes the token, unless an invalidation overtook the request, ...
Publish(t) ==
    LET a == req[t].auth IN
    /\ pc[t] = "publish"
    /\ \/ /\ ~overtaken[a]
          /\ memory' = [memory EXCEPT ![a] = req[t].token]
          /\ usable' = [usable EXCEPT ![a] = TRUE]
          /\ Goto(t, "save") /\ UNCHANGED <<req, refresher, overtaken>>
       \/ overtaken[a] /\ Release(a) /\ WithToken(t) /\ UNCHANGED <<memory, usable>>
    /\ UNCHANGED <<fileVars, auth, clearer, issued, dead>>

\* ... saves it, ...
Save(t) ==
    /\ pc[t] = "save"
    /\ SaveCached(req[t].auth, req[t].token)
    /\ Goto(t, "recheck")
    /\ UNCHANGED <<owner, creds, unlinkFailed, authVars, auth, clearer, req, issued, dead>>

\* mutant: no second look at the generation
RecheckNothing(t) ==
    /\ pc[t] = "recheck"
    /\ Release(req[t].auth) /\ WithToken(t)
    /\ UNCHANGED <<fileVars, memory, usable, auth, clearer, issued, dead>>

\* ... and looks again whether it was overtaken meanwhile.
Recheck(t) ==
    LET a == req[t].auth IN
    /\ pc[t] = "recheck"
    /\ \/ ~overtaken[a] /\ Release(a) /\ WithToken(t) /\ UNCHANGED <<memory, usable>>
       \/ /\ overtaken[a]
          /\ memory' = [memory EXCEPT ![a] = 0] /\ usable' = [usable EXCEPT ![a] = FALSE]
          /\ Goto(t, "drop") /\ UNCHANGED <<req, refresher, overtaken>>
    /\ UNCHANGED <<fileVars, auth, clearer, issued, dead>>

Drop(t) ==
    /\ pc[t] = "drop"
    /\ DeleteCached(req[t].auth)
    /\ Release(req[t].auth) /\ WithToken(t)
    /\ UNCHANGED <<owner, creds, memory, usable, auth, clearer, issued, dead>>

\* A token comes within a minute of its expiry.
Expire(a) ==
    /\ HasToken(a)
    /\ usable' = [usable EXCEPT ![a] = FALSE]
    /\ UNCHANGED <<fileVars, memory, refresher, overtaken, auth, clearer, threadVars,
                   issued, dead>>

-----------------------------------------------------------------------------
(* What a request does with its token (_post_graphql_with_auth_retry).       *)

\* It ends with an answer or an error, or because its auth is no longer the
\* client's.
Finish(w) ==
    /\ pc[w] \in {"get", "use"}
    /\ Goto(w, "idle") /\ req' = [req EXCEPT ![w] = NoRequest]
    /\ UNCHANGED <<fileVars, authVars, auth, clearer, issued, dead>>

\* 401: the first one of the client's auth is followed by another attempt.
Refuse(w) ==
    /\ pc[w] = "use" /\ req[w].first = 0 /\ req[w].auth = auth
    /\ Goto(w, "reject")
    /\ UNCHANGED <<fileVars, authVars, auth, clearer, req, issued, dead>>

\* mutant: a delayed refusal invalidates whatever token there is
RejectsAny(a, token) == TRUE

\* invalidate(rejected_token) applies to the token in memory only.
Rejects(a, token) == memory[a] = token

Reject(w) ==
    LET a == req[w].auth IN
    /\ pc[w] = "reject"
    /\ Goto(w, "get")
    /\ req' = [req EXCEPT ![w] = [RequestOf(a) EXCEPT !.first = req[w].token]]
    /\ \/ Rejects(a, req[w].token) /\ Invalidate(a)
       \/ ~Rejects(a, req[w].token) /\ UNCHANGED <<fileVars, authVars, dead>>
    /\ UNCHANGED <<auth, clearer, issued>>

-----------------------------------------------------------------------------
(* Settings.                                                                 *)

\* _load_cached of a new auth: what is not its own is deleted, if that and the
\* file's protection succeed.
LoadCached(a, c) ==
    \/ /\ file.cred = c /\ UNCHANGED <<file, unlinkFailed>>
       /\ \E t \in {0, file.token}, u \in BOOLEAN :
             /\ memory' = [memory EXCEPT ![a] = t]
             /\ usable' = [usable EXCEPT ![a] = u /\ t # 0]
    \/ /\ file.cred # c /\ UNCHANGED <<memory, usable>>
       /\ \/ file' = NoFile /\ UNCHANGED unlinkFailed
          \/ file # NoFile /\ unlinkFailed' = TRUE /\ UNCHANGED file

\* The settings commit makes an auth for other credentials: it takes the token
\* file over, whoever is using it, and loads it.
CreateAuth ==
    /\ owner = auth /\ owner < MaxAuths
    /\ owner' = owner + 1
    /\ \E c \in Credentials \ {creds[owner]} :
          creds' = [creds EXCEPT ![owner + 1] = c] /\ LoadCached(owner + 1, c)
    /\ UNCHANGED <<refresher, overtaken, auth, clearer, threadVars, issued, dead>>

\* reconfigure_auth.
PromoteAuth ==
    /\ auth < owner /\ auth' = owner
    /\ UNCHANGED <<fileVars, authVars, clearer, threadVars, issued, dead>>

\* _clear_cache_dir runs on a worker with the auth of the moment, ...
BeginClear ==
    /\ clearer.step = "idle" /\ clearer' = [step |-> "wipe", auth |-> auth]
    /\ UNCHANGED <<fileVars, authVars, auth, threadVars, issued, dead>>

\* ... removes the directory's files without any lock, if it can, ...
Wipe ==
    /\ clearer.step = "wipe" /\ clearer' = [clearer EXCEPT !.step = "reset"]
    /\ file' \in {file, NoFile}
    /\ UNCHANGED <<owner, creds, unlinkFailed, authVars, auth, threadVars, issued, dead>>

\* ... and resets the auth in any case.
Reset ==
    /\ clearer.step = "reset" /\ clearer' = [step |-> "idle", auth |-> 0]
    /\ Invalidate(clearer.auth)
    /\ UNCHANGED <<auth, threadVars, issued>>

-----------------------------------------------------------------------------
Refresh(t) ==
    Lock(t) \/ Issue(t) \/ OauthFails(t) \/ Publish(t) \/ Save(t) \/ Recheck(t) \/ Drop(t)

Next ==
    \/ \E t \in Actors : Refresh(t)
    \/ \E w \in Workers : Begin(w) \/ Get(w) \/ Finish(w) \/ Refuse(w) \/ Reject(w)
    \/ \E a \in Auths : Expire(a)
    \/ CreateAuth \/ PromoteAuth \/ BeginClear \/ Wipe \/ Reset

Spec == Init /\ [][Next]_vars

-----------------------------------------------------------------------------
(* Properties. *)

\* A token that was invalidated, or asked for before an invalidation, is not
\* in memory for the next request, whatever refresh was under way
\* (_invalidate_generation).
InvalidatedNotServed == \A a \in Auths : <<a, memory[a]>> \notin dead

\* The token file serves the next start: it holds a token of the newest
\* credentials that was not invalidated, unless the file could not be deleted
\* or protected, or the refresh that wrote it has still to look again.
FileServesNextStart ==
    file # NoFile =>
        \/ unlinkFailed
        \/ /\ file.cred = creds[owner]
           /\ \/ <<owner, file.token>> \notin dead
              \/ \E t \in Actors : /\ pc[t] \in {"recheck", "drop"}
                                   /\ req[t].auth = owner /\ req[t].token = file.token

\* A token leaves the memory only for another one, by the user's reset, or when
\* the service has refused that very token: a delayed refusal of an older token
\* costs no refresh.
DropsOnlyRefused ==
    \A a \in Auths : memory[a] # 0 /\ memory'[a] = 0
        => \/ \E w \in Workers : pc[w] = "reject" /\ req[w].token = memory[a]
           \/ clearer.step = "reset" /\ clearer'.step = "idle"

\* The second attempt of a request uses another token than the one refused.
RetryUsesNewToken ==
    \A w \in Workers : pc[w] = "use" => req[w].token # req[w].first

-----------------------------------------------------------------------------
(* Why: an inductive invariant. *)

\* Nothing is known of auths and tokens to come.
NumbersInvariant ==
    /\ \A a \in Auths : /\ memory[a] <= issued /\ (a > owner => memory[a] = 0)
                        /\ a <= owner => creds[a] # None
    /\ file # NoFile => file.token <= issued
    /\ \A t \in Actors : /\ req[t].auth <= owner /\ (pc[t] # "idle" => req[t].auth \in Auths)
                         /\ req[t].token <= issued /\ req[t].first <= issued
    /\ clearer.auth <= owner /\ (clearer.step # "idle" => clearer.auth \in Auths)
    /\ \A d \in dead : d[1] <= owner /\ d[2] <= issued

\* A refresh that nothing overtook brings a token that is good, and one that an
\* invalidation overtook has published nothing, or something that is gone.
RefreshInvariant ==
    \A t \in Actors : LET a == req[t].auth IN
        /\ pc[t] \in {"publish", "save", "recheck", "drop"} =>
              req[t].token \in Tokens /\ (~overtaken[a] => <<a, req[t].token>> \notin dead)
        /\ pc[t] \in {"save", "recheck", "drop"} /\ overtaken[a] => memory[a] = 0

\* A token that has just been issued is known to the one who asked for it only.
NewTokenInvariant ==
    \A t \in Actors : pc[t] = "publish" =>
        /\ file.token # req[t].token /\ \A a \in Auths : memory[a] # req[t].token
        /\ \A u \in Actors \ {t} : req[u].token # req[t].token
        /\ \A u \in Actors : req[u].first # req[t].token

\* A request meets the token that was refused to it no more.
RetryInvariant ==
    \A w \in Actors :
        /\ req[w].first # 0 => memory[req[w].auth] # req[w].first
        /\ pc[w] \in {"publish", "save", "recheck", "drop", "use"} => req[w].token # req[w].first
        /\ pc[w] \in {"use", "reject"} => req[w].token \in Tokens

AuthInvariant ==
    /\ TypeOK /\ NumbersInvariant /\ RefreshInvariant /\ NewTokenInvariant /\ RetryInvariant
    /\ InvalidatedNotServed /\ FileServesNextStart
=============================================================================
