----------------------------- MODULE MCStoresProofs -----------------------------
EXTENDS MCStores, TLAPS

-----------------------------------------------------------------------------
(* WclAuth. *)

Locations == Auth!Refreshing \cup {"idle", "get", "lock", "use", "reject"}

LEMMA AuthInit == Auth!Init => Auth!AuthInvariant
<1> SUFFICES ASSUME Auth!Init PROVE Auth!AuthInvariant
  OBVIOUS
<1> USE AuthAssumption DEF Auth!ActorAssumption, Auth!CredentialsAssumption,
       Auth!BoundAssumption, Auth!Actors, Auth!Auths, Auth!Tokens, Auth!TokenOrNone,
           Auth!NoFile,
       Auth!Request, Auth!RequestOf, Auth!NoRequest, Auth!Refreshing
<1>1. PICK c \in Credentials : creds = [a \in Auth!Auths |-> IF a = 1 THEN c ELSE None]
  BY DEF Auth!Init
<1>2. /\ file \in {Auth!NoFile, [token |-> 1, cred |-> c]} /\ file.token \in {0, 1}
      /\ issued = file.token /\ creds[1] = c
  BY <1>1 DEF Auth!Init
<1>3. PICK k \in {0, file.token} : memory = [a \in Auth!Auths |-> IF a = 1 THEN k ELSE 0]
  BY DEF Auth!Init
<1>4. PICK u \in BOOLEAN : usable = [a \in Auth!Auths |-> u /\ memory[a] # 0]
  BY DEF Auth!Init
<1>5. /\ \A t \in Auth!Actors : pc[t] \in {"lock", "idle"}
           /\ req[t] \in {Auth!RequestOf(1), Auth!NoRequest}
      /\ \A t \in Auth!Actors : req[t].token = 0 /\ req[t].first = 0 /\ req[t].auth \in {0, 1}
      /\ \A t \in Auth!Actors : pc[t] # "idle" => req[t].auth = 1
      /\ dead = {} /\ clearer.auth = 0 /\ clearer.step = "idle" /\ owner = 1 /\ auth = 1
  BY DEF Auth!Init
<1>6. Auth!TypeOK
  <2>1. owner \in Auth!Auths /\ auth \in Auth!Auths /\ auth <= owner
    BY <1>5
  <2>2. creds \in [Auth!Auths -> Credentials \cup {None}]
          /\ file \in [token : Auth!Tokens, cred : Credentials] \cup {Auth!NoFile}
    BY <1>1, <1>2
  <2>3. memory \in [Auth!Auths -> Auth!TokenOrNone]
    BY <1>2, <1>3
  <2>4. usable \in [Auth!Auths -> BOOLEAN] /\ overtaken \in [Auth!Auths -> BOOLEAN]
    BY <1>4 DEF Auth!Init
  <2>5. refresher \in [Auth!Auths -> Auth!Actors \cup {None}]
          /\ clearer \in [step : {"idle", "wipe", "reset"}, auth : 0..MaxAuths]
    BY DEF Auth!Init
  <2>6. /\ pc \in [Auth!Actors -> Auth!Refreshing \cup {"idle", "get", "lock", "use", "reject"}]
        /\ req \in [Auth!Actors -> Auth!Request]
    BY DEF Auth!Init
  <2>7. issued \in Auth!TokenOrNone /\ dead \subseteq Auth!Auths \X Auth!Tokens
    <3>1. issued \in {0, 1} /\ dead = {}
      BY <1>2, <1>5
    <3> QED BY <3>1
  <2>9. unlinkFailed \in BOOLEAN
    BY DEF Auth!Init
  <2>8. \A a \in Auth!Auths, t \in Auth!Actors : refresher[a] # t
          /\ pc[t] \notin Auth!Refreshing
    BY <1>5 DEF Auth!Init
  <2> QED BY <2>1, <2>2, <2>3, <2>4, <2>5, <2>6, <2>7, <2>8, <2>9 DEF Auth!TypeOK
<1>7. Auth!NumbersInvariant
  BY <1>2, <1>3, <1>5 DEF Auth!NumbersInvariant
<1>8. Auth!RefreshInvariant /\ Auth!NewTokenInvariant /\ Auth!RetryInvariant
  BY <1>5 DEF Auth!RefreshInvariant, Auth!NewTokenInvariant, Auth!RetryInvariant
<1>9. Auth!InvalidatedNotServed /\ Auth!FileServesNextStart
  BY <1>2, <1>5 DEF Auth!InvalidatedNotServed, Auth!FileServesNextStart
<1> QED BY <1>6, <1>7, <1>8, <1>9 DEF Auth!AuthInvariant

\* A thread moves on, while the tokens stay where they are.
LEMMA AuthThread ==
  ASSUME Auth!AuthInvariant, NEW t \in Auth!Actors, NEW l \in Locations, NEW r \in Auth!Request,
         UNCHANGED <<owner, creds, file, memory, usable, auth, clearer, issued, dead,
             unlinkFailed>>,
         pc' = [pc EXCEPT ![t] = l], req' = [req EXCEPT ![t] = r],
         refresher' \in [Auth!Auths -> Auth!Actors \cup {None}],
             overtaken' \in [Auth!Auths -> BOOLEAN],
         \A a \in Auth!Auths : refresher'[a] = t <=> l \in Auth!Refreshing /\ r.auth = a,
         \A a \in Auth!Auths, u \in Auth!Actors \ {t} : refresher'[a] = u <=> refresher[a] = u,
         \A a \in Auth!Auths : overtaken'[a] = overtaken[a] \/ refresher[a] \in {t, None},
         r.auth <= owner, l # "idle"
           => r.auth \in Auth!Auths, r.token <= issued, r.first <= issued,
         l # "publish",
         l \in {"save", "recheck", "drop"} =>
             /\ r.token \in Auth!Tokens
                  /\ (~overtaken'[r.auth] => <<r.auth, r.token>> \notin dead)
             /\ overtaken'[r.auth] => memory[r.auth] = 0,
         \A u \in Auth!Actors \ {t} : pc[u] = "publish" => r.token # req[u].token
           /\ r.first # req[u].token,
         r.first # 0 => memory[r.auth] # r.first,
         l \in {"save", "recheck", "drop", "use"} => r.token # r.first,
         l \in {"use", "reject"} => r.token \in Auth!Tokens,
         pc[t] \in {"recheck", "drop"} => overtaken[req[t].auth] = FALSE
  PROVE  Auth!AuthInvariant'
<1> USE DEF Auth!AuthInvariant
<1>1. /\ pc'[t] = l /\ req'[t] = r
      /\ \A u \in Auth!Actors \ {t} : pc'[u] = pc[u] /\ req'[u] = req[u]
  BY DEF Auth!TypeOK
<1>2. Auth!TypeOK'
  <2>1. /\ pc' \in [Auth!Actors -> Auth!Refreshing \cup {"idle", "get", "lock", "use",
               "reject"}]
        /\ req' \in [Auth!Actors -> Auth!Request]
    BY DEF Auth!TypeOK, Locations
  <2>2. \A a \in Auth!Auths,
            u \in Auth!Actors : refresher'[a] = u <=> pc'[u] \in Auth!Refreshing
              /\ req'[u].auth = a
    BY <1>1 DEF Auth!TypeOK
  <2> QED BY <2>1, <2>2 DEF Auth!TypeOK
<1>3. Auth!NumbersInvariant'
  BY <1>1 DEF Auth!NumbersInvariant
<1>4. Auth!RefreshInvariant'
  <2>1. ASSUME NEW u \in Auth!Actors \ {t}, pc[u] \in Auth!Refreshing
        PROVE  overtaken'[req[u].auth] = overtaken[req[u].auth]
    <3>1. req[u].auth \in Auth!Auths
      BY <2>1 DEF Auth!NumbersInvariant, Auth!Refreshing
    <3>2. refresher[req[u].auth] = u
      BY <2>1, <3>1 DEF Auth!TypeOK
    <3> QED BY <3>1, <3>2, AuthAssumption DEF Auth!ActorAssumption, Auth!Actors
  <2> QED BY <1>1, <2>1 DEF Auth!RefreshInvariant, Auth!Refreshing
<1>5. Auth!NewTokenInvariant'
  BY <1>1 DEF Auth!NewTokenInvariant
<1>6. Auth!RetryInvariant'
  BY <1>1 DEF Auth!RetryInvariant
<1>7. Auth!InvalidatedNotServed'
  BY DEF Auth!InvalidatedNotServed
<1>8. Auth!FileServesNextStart'
  <2>1. SUFFICES ASSUME file # Auth!NoFile, ~unlinkFailed
                 PROVE  /\ file.cred = creds[owner]
                        /\ \/ <<owner, file.token>> \notin dead
                           \/ \E u \in Auth!Actors : /\ pc'[u] \in {"recheck", "drop"}
                                                     /\ req'[u].auth = owner
                                                          /\ req'[u].token = file.token
    BY DEF Auth!FileServesNextStart, Auth!NoFile
  <2>2. CASE <<owner, file.token>> \notin dead
    BY <2>1, <2>2 DEF Auth!FileServesNextStart
  <2>3. CASE <<owner, file.token>> \in dead
    <3>1. PICK u \in Auth!Actors : /\ pc[u] \in {"recheck", "drop"}
                                   /\ req[u].auth = owner /\ req[u].token = file.token
      BY <2>1, <2>3 DEF Auth!FileServesNextStart
    <3>2. overtaken[req[u].auth]
      BY <2>3, <3>1 DEF Auth!RefreshInvariant
    <3>3. u # t
      BY <3>1, <3>2
    <3> QED BY <1>1, <2>1, <3>1, <3>3 DEF Auth!FileServesNextStart
  <2> QED BY <2>2, <2>3
<1> QED BY <1>2, <1>3, <1>4, <1>5, <1>6, <1>7, <1>8
\* What is known of a thread's request.
LEMMA RequestFacts ==
  ASSUME Auth!AuthInvariant, NEW t \in Auth!Actors
  PROVE  /\ req[t] \in Auth!Request /\ pc[t] \in Locations /\ pc = [pc EXCEPT ![t] = pc[t]]
         /\ req = [req EXCEPT ![t] = req[t]]
         /\ req[t].auth <= owner /\ req[t].token <= issued /\ req[t].first <= issued
         /\ pc[t] # "idle" => req[t].auth \in Auth!Auths
         /\ \A a \in Auth!Auths : refresher[a] = t <=> pc[t] \in Auth!Refreshing
              /\ req[t].auth = a
         /\ \A u \in Auth!Actors \ {t} : pc[u] = "publish" =>
               req[t].token # req[u].token /\ req[t].first # req[u].token
         /\ refresher \in [Auth!Auths -> Auth!Actors \cup {None}]
              /\ overtaken \in [Auth!Auths -> BOOLEAN]
<1> USE DEF Auth!AuthInvariant
<1>1. /\ req \in [Auth!Actors -> Auth!Request] /\ pc \in [Auth!Actors -> Locations]
      /\ refresher \in [Auth!Auths -> Auth!Actors \cup {None}]
           /\ overtaken \in [Auth!Auths -> BOOLEAN]
      /\ \A a \in Auth!Auths : refresher[a] = t <=> pc[t] \in Auth!Refreshing /\ req[t].auth = a
  BY DEF Auth!TypeOK, Locations
<1>2. req[t].auth <= owner /\ req[t].token <= issued /\ req[t].first <= issued
        /\ (pc[t] # "idle" => req[t].auth \in Auth!Auths)
  BY DEF Auth!NumbersInvariant
<1>3. \A u \in Auth!Actors \ {t} : pc[u] = "publish" => req[t].token # req[u].token
        /\ req[t].first # req[u].token
  BY DEF Auth!NewTokenInvariant
<1> QED BY <1>1, <1>2, <1>3

LEMMA NoRequestFacts ==
  ASSUME Auth!AuthInvariant
  PROVE  /\ Auth!NoRequest \in Auth!Request /\ Auth!NoRequest.auth = 0
              /\ Auth!NoRequest.token = 0 /\ Auth!NoRequest.first = 0
         /\ 0 <= owner /\ 0 <= issued
         /\ \A u \in Auth!Actors : pc[u] = "publish" => req[u].token # 0
         /\ \A a \in Auth!Auths : /\ Auth!RequestOf(a) \in Auth!Request
                                       /\ Auth!RequestOf(a).auth = a
                                  /\ Auth!RequestOf(a).token = 0 /\ Auth!RequestOf(a).first = 0
<1>1. owner \in Nat /\ issued \in Nat /\ 0 \in Auth!TokenOrNone /\ 0 \in 0..MaxAuths
  BY AuthAssumption DEF Auth!AuthInvariant, Auth!TypeOK, Auth!Auths, Auth!TokenOrNone,
     Auth!BoundAssumption
<1>2. \A a \in Auth!Auths : a \in 0..MaxAuths
  BY AuthAssumption DEF Auth!Auths, Auth!BoundAssumption
<1>3. \A u \in Auth!Actors : pc[u] = "publish" => req[u].token \in Auth!Tokens
  BY DEF Auth!AuthInvariant, Auth!RefreshInvariant
<1> QED BY <1>1, <1>2, <1>3 DEF Auth!NoRequest, Auth!RequestOf, Auth!Request, Auth!Tokens

\* A thread that holds no refresh lock, and takes none.
LEMMA AuthStep ==
  ASSUME Auth!AuthInvariant, NEW t \in Auth!Actors,
             NEW l \in {"idle", "get", "lock", "use", "reject"}, NEW r \in Auth!Request,
         UNCHANGED <<Auth!fileVars, Auth!authVars, auth, clearer, issued, dead>>,
         pc' = [pc EXCEPT ![t] = l], req' = [req EXCEPT ![t] = r],
         pc[t] \notin Auth!Refreshing,
         r.auth <= owner, l # "idle"
           => r.auth \in Auth!Auths, r.token <= issued, r.first <= issued,
         \A u \in Auth!Actors \ {t} : pc[u] = "publish" => r.token # req[u].token
           /\ r.first # req[u].token,
         r.first # 0 => memory[r.auth] # r.first,
         l = "use" => r.token # r.first,
         l \in {"use", "reject"} => r.token \in Auth!Tokens
  PROVE  Auth!AuthInvariant'
<1>1. UNCHANGED <<owner, creds, file, memory, usable, auth, clearer, issued, dead,
          unlinkFailed>>
      /\ UNCHANGED <<refresher, overtaken>>
  BY DEF Auth!fileVars, Auth!authVars
<1>2. l \in Locations /\ l \notin Auth!Refreshing /\ l # "publish"
        /\ l \notin {"save", "recheck", "drop"}
  BY DEF Locations, Auth!Refreshing
<1>3. refresher' \in [Auth!Auths -> Auth!Actors \cup {None}]
        /\ overtaken' \in [Auth!Auths -> BOOLEAN]
  BY <1>1, RequestFacts
<1>4. /\ \A a \in Auth!Auths : refresher'[a] = t <=> l \in Auth!Refreshing /\ r.auth = a
      /\ \A a \in Auth!Auths, u \in Auth!Actors \ {t} : refresher'[a] = u <=> refresher[a] = u
      /\ \A a \in Auth!Auths : overtaken'[a] = overtaken[a] \/ refresher[a] \in {t, None}
  BY <1>1, <1>2, RequestFacts
<1>5. pc[t] \notin {"recheck", "drop"}
  BY DEF Auth!Refreshing
<1>6. l \in {"save", "recheck", "drop"} =>
             /\ r.token \in Auth!Tokens
                  /\ (~overtaken'[r.auth] => <<r.auth, r.token>> \notin dead)
             /\ overtaken'[r.auth] => memory[r.auth] = 0
  BY <1>2
<1>7. l \in {"save", "recheck", "drop", "use"} => r.token # r.first
  BY <1>2
<1>8. pc[t] \in {"recheck", "drop"} => overtaken[req[t].auth] = FALSE
  BY <1>5
<1> QED BY <1>1, <1>2, <1>3, <1>4, <1>6, <1>7, <1>8, AuthThread, ZenonT(120)

LEMMA AuthBegin ==
  ASSUME Auth!AuthInvariant, NEW w \in Workers, Auth!Begin(w)
  PROVE  Auth!AuthInvariant'
<1>1. w \in Auth!Actors /\ auth \in Auth!Auths /\ auth <= owner
  BY DEF Auth!Actors, Auth!AuthInvariant, Auth!TypeOK
<1>2. /\ UNCHANGED <<Auth!fileVars, Auth!authVars, auth, clearer, issued, dead>>
      /\ pc' = [pc EXCEPT ![w] = "get"] /\ req' = [req EXCEPT ![w] = Auth!RequestOf(auth)]
           /\ pc[w] \notin Auth!Refreshing
  BY DEF Auth!Begin, Auth!Goto, Auth!Refreshing
<1>3. /\ Auth!RequestOf(auth) \in Auth!Request /\ Auth!RequestOf(auth).auth = auth
           /\ Auth!RequestOf(auth).token = 0
      /\ Auth!RequestOf(auth).first = 0 /\ 0 <= issued
           /\ \A u \in Auth!Actors : pc[u] = "publish" => req[u].token # 0
  BY <1>1, NoRequestFacts
<1> QED BY <1>1, <1>2, <1>3, AuthStep, ZenonT(120)

LEMMA AuthEnds ==
  ASSUME Auth!AuthInvariant, NEW w \in Workers, Auth!Finish(w)
  PROVE  Auth!AuthInvariant'
<1>1. w \in Auth!Actors
  BY DEF Auth!Actors
<1>2. /\ UNCHANGED <<Auth!fileVars, Auth!authVars, auth, clearer, issued, dead>>
      /\ pc' = [pc EXCEPT ![w] = "idle"] /\ req' = [req EXCEPT ![w] = Auth!NoRequest]
           /\ pc[w] \notin Auth!Refreshing
  BY DEF Auth!Finish, Auth!Goto, Auth!Refreshing
<1>3. /\ Auth!NoRequest \in Auth!Request /\ Auth!NoRequest.auth = 0 /\ Auth!NoRequest.token = 0
           /\ Auth!NoRequest.first = 0
      /\ 0 <= owner /\ 0 <= issued /\ \A u \in Auth!Actors : pc[u] = "publish"
           => req[u].token # 0
  BY NoRequestFacts
<1> QED BY <1>1, <1>2, <1>3, AuthStep, ZenonT(120)

LEMMA AuthRefuse ==
  ASSUME Auth!AuthInvariant, NEW w \in Workers, Auth!Refuse(w)
  PROVE  Auth!AuthInvariant'
<1>1. w \in Auth!Actors
  BY DEF Auth!Actors
<1>2. /\ UNCHANGED <<Auth!fileVars, Auth!authVars, auth, clearer, issued, dead, req>>
      /\ pc' = [pc EXCEPT ![w] = "reject"] /\ pc[w] \notin Auth!Refreshing /\ pc[w] = "use"
  BY DEF Auth!Refuse, Auth!Goto, Auth!Refreshing
<1>3. req[w].token \in Auth!Tokens /\ (req[w].first # 0 => memory[req[w].auth] # req[w].first)
  BY <1>1, <1>2 DEF Auth!AuthInvariant, Auth!RetryInvariant
<1>4. req' = [req EXCEPT ![w] = req[w]]
  BY <1>1, <1>2, RequestFacts
<1>5. /\ req[w] \in Auth!Request /\ req[w].auth <= owner /\ req[w].token <= issued
           /\ req[w].first <= issued
      /\ req[w].auth \in Auth!Auths /\ \A u \in Auth!Actors \ {w} : pc[u] = "publish" =>
            req[w].token # req[u].token /\ req[w].first # req[u].token
  BY <1>1, <1>2, RequestFacts
<1> QED BY <1>1, <1>2, <1>3, <1>4, <1>5, AuthStep

\* The token in memory is used.
LEMMA MemoryFacts ==
  ASSUME Auth!AuthInvariant, NEW t \in Auth!Actors, pc[t] # "idle", Auth!HasToken(req[t].auth),
             Auth!UseMemory(t)
  PROVE  \E r \in Auth!Request :
            /\ req' = [req EXCEPT ![t] = r] /\ r.auth = req[t].auth /\ r.first = req[t].first
            /\ r.token = memory[r.auth] /\ r.token \in Auth!Tokens /\ r.token <= issued
            /\ \A u \in Auth!Actors : pc[u] = "publish" => r.token # req[u].token
            /\ r.first # 0 => r.token # r.first
<1>1. PICK a \in Auth!Auths : a = req[t].auth
  BY RequestFacts
<1>2. PICK k \in Auth!Tokens : k = memory[a] /\ k <= issued
             /\ (\A u \in Auth!Actors : pc[u] = "publish" => k # req[u].token)
  BY <1>1 DEF Auth!AuthInvariant, Auth!TypeOK, Auth!HasToken, Auth!Tokens, Auth!TokenOrNone,
     Auth!NumbersInvariant, Auth!NewTokenInvariant
<1>3. k \in Auth!TokenOrNone
  BY AuthAssumption DEF Auth!Tokens, Auth!TokenOrNone, Auth!BoundAssumption
<1>4. req[t] \in Auth!Request /\ req \in [Auth!Actors -> Auth!Request]
  BY DEF Auth!AuthInvariant, Auth!TypeOK
<1>5. PICK f \in Auth!TokenOrNone : f = req[t].first
  BY <1>4 DEF Auth!Request
<1>6. [auth |-> a, token |-> k, first |-> f] \in Auth!Request
  BY <1>1, <1>3, <1>4 DEF Auth!Request
<1>7. req' = [req EXCEPT ![t] = [auth |-> a, token |-> k, first |-> f]]
  <2>1. [req[t] EXCEPT !.token = k] = [auth |-> a, token |-> k, first |-> f]
    BY <1>1, <1>4, <1>5 DEF Auth!Request
  <2>2. req' = [req EXCEPT ![t] = [@ EXCEPT !.token = k]]
    BY <1>1, <1>2 DEF Auth!UseMemory
  <2> QED BY <2>1, <2>2
<1>8. f # 0 => memory[a] # f
  BY <1>1, <1>5 DEF Auth!AuthInvariant, Auth!RetryInvariant
<1> QED BY <1>1, <1>2, <1>5, <1>6, <1>7, <1>8

LEMMA AuthGet ==
  ASSUME Auth!AuthInvariant, NEW w \in Workers, Auth!Get(w)
  PROVE  Auth!AuthInvariant'
<1>1. w \in Auth!Actors
  BY DEF Auth!Actors
<1>2. UNCHANGED <<Auth!fileVars, Auth!authVars, auth, clearer, issued, dead>> /\ pc[w] = "get"
        /\ pc[w] \notin Auth!Refreshing
  BY DEF Auth!Get, Auth!Refreshing
<1>3. CASE Auth!HasToken(req[w].auth) /\ Auth!UseMemory(w)
  <2>1. PICK r \in Auth!Request :
            /\ req' = [req EXCEPT ![w] = r] /\ r.auth = req[w].auth /\ r.first = req[w].first
            /\ r.token = memory[r.auth] /\ r.token \in Auth!Tokens /\ r.token <= issued
            /\ \A u \in Auth!Actors : pc[u] = "publish" => r.token # req[u].token
            /\ r.first # 0 => r.token # r.first
    BY <1>1, <1>2, <1>3, MemoryFacts
  <2>2. pc' = [pc EXCEPT ![w] = "use"]
    BY <1>3 DEF Auth!UseMemory, Auth!Goto
  <2>3. r.token # r.first
    BY <2>1, AuthAssumption DEF Auth!Tokens, Auth!BoundAssumption
  <2>4. /\ req[w] \in Auth!Request /\ req[w].auth <= owner /\ req[w].token <= issued
             /\ req[w].first <= issued
        /\ req[w].auth \in Auth!Auths /\ \A u \in Auth!Actors \ {w} : pc[u] = "publish" =>
              req[w].token # req[u].token /\ req[w].first # req[u].token
    BY <1>1, <1>2, RequestFacts
  <2>5. /\ r.auth <= owner /\ r.auth \in Auth!Auths /\ r.first <= issued
        /\ \A u \in Auth!Actors \ {w} : pc[u] = "publish" => r.token # req[u].token
             /\ r.first # req[u].token
        /\ r.first # 0 => memory[r.auth] # r.first
    BY <2>1, <2>4
  <2> QED BY <1>1, <1>2, <2>1, <2>2, <2>3, <2>5, AuthStep
<1>4. CASE Auth!Goto(w, "lock") /\ UNCHANGED req
  <2>1. pc' = [pc EXCEPT ![w] = "lock"] /\ req' = [req EXCEPT ![w] = req[w]]
    BY <1>1, <1>4, RequestFacts DEF Auth!Goto
  <2>2. req[w].first # 0 => memory[req[w].auth] # req[w].first
    BY <1>1 DEF Auth!AuthInvariant, Auth!RetryInvariant
  <2>3. /\ req[w] \in Auth!Request /\ req[w].auth <= owner /\ req[w].token <= issued
             /\ req[w].first <= issued
        /\ req[w].auth \in Auth!Auths /\ \A u \in Auth!Actors \ {w} : pc[u] = "publish" =>
              req[w].token # req[u].token /\ req[w].first # req[u].token
    BY <1>1, <1>2, RequestFacts
  <2> QED BY <1>1, <1>2, <2>1, <2>2, <2>3, AuthStep
<1> QED BY <1>3, <1>4 DEF Auth!Get

LEMMA AuthLock ==
  ASSUME Auth!AuthInvariant, NEW t \in Auth!Actors, Auth!Lock(t)
  PROVE  Auth!AuthInvariant'
<1>1. /\ UNCHANGED <<owner, creds, file, memory, usable, auth, clearer, issued, dead,
             unlinkFailed, overtaken>>
      /\ pc[t] = "lock" /\ pc[t] \notin Auth!Refreshing /\ refresher[req[t].auth] = None
  BY DEF Auth!Lock, Auth!fileVars, Auth!Refreshing
<1>2. /\ req[t] \in Auth!Request /\ req[t].auth <= owner /\ req[t].token <= issued
           /\ req[t].first <= issued
      /\ req[t].auth \in Auth!Auths /\ \A u \in Auth!Actors \ {t} : pc[u] = "publish" =>
            req[t].token # req[u].token /\ req[t].first # req[u].token
      /\ req = [req EXCEPT ![t] = req[t]]
      /\ refresher \in [Auth!Auths -> Auth!Actors \cup {None}]
           /\ overtaken \in [Auth!Auths -> BOOLEAN]
      /\ \A a \in Auth!Auths : refresher[a] # t
      /\ req[t].first # 0 => memory[req[t].auth] # req[t].first
  BY <1>1, RequestFacts DEF Auth!AuthInvariant, Auth!RetryInvariant
<1>3. CASE Auth!HasToken(req[t].auth) /\ Auth!UseMemory(t) /\ UNCHANGED refresher
  <2>1. PICK r \in Auth!Request :
            /\ req' = [req EXCEPT ![t] = r] /\ r.auth = req[t].auth /\ r.first = req[t].first
            /\ r.token = memory[r.auth] /\ r.token \in Auth!Tokens /\ r.token <= issued
            /\ \A u \in Auth!Actors : pc[u] = "publish" => r.token # req[u].token
            /\ r.first # 0 => r.token # r.first
    BY <1>1, <1>3, MemoryFacts
  <2>2. pc' = [pc EXCEPT ![t] = "use"] /\ UNCHANGED <<Auth!fileVars, Auth!authVars>>
    BY <1>1, <1>3 DEF Auth!UseMemory, Auth!Goto, Auth!fileVars, Auth!authVars
  <2>3. r.token # r.first
    BY <2>1, AuthAssumption DEF Auth!Tokens, Auth!BoundAssumption
  <2>4. /\ r.auth <= owner /\ r.auth \in Auth!Auths /\ r.first <= issued
        /\ \A u \in Auth!Actors \ {t} : pc[u] = "publish" => r.token # req[u].token
             /\ r.first # req[u].token
        /\ r.first # 0 => memory[r.auth] # r.first
    BY <1>2, <2>1
  <2> QED BY <1>1, <2>1, <2>2, <2>3, <2>4, AuthStep
<1>4. CASE refresher' = [refresher EXCEPT ![req[t].auth] = t] /\ Auth!Goto(t, "oauth")
             /\ UNCHANGED req
  <2>1. PICK l \in Locations : l = "oauth"
    BY DEF Locations, Auth!Refreshing
  <2>2. PICK r \in Auth!Request : r = req[t]
    BY <1>2
  <2>3. /\ pc' = [pc EXCEPT ![t] = l] /\ req' = [req EXCEPT ![t] = r]
        /\ UNCHANGED <<owner, creds, file, memory, usable, auth, clearer, issued, dead,
               unlinkFailed>>
    BY <1>1, <1>2, <1>4, <2>1, <2>2 DEF Auth!Goto
  <2>4. refresher' \in [Auth!Auths -> Auth!Actors \cup {None}]
          /\ overtaken' \in [Auth!Auths -> BOOLEAN]
    BY <1>1, <1>2, <1>4
  <2>5. \A a \in Auth!Auths : refresher'[a] = t <=> l \in Auth!Refreshing /\ r.auth = a
    BY <1>2, <1>4, <2>1, <2>2 DEF Auth!Refreshing
  <2>6. \A a \in Auth!Auths, u \in Auth!Actors \ {t} : refresher'[a] = u <=> refresher[a] = u
    BY <1>1, <1>2, <1>4, AuthAssumption DEF Auth!ActorAssumption, Auth!Actors
  <2>7. \A a \in Auth!Auths : overtaken'[a] = overtaken[a] \/ refresher[a] \in {t, None}
    BY <1>1
  <2>8. /\ r.auth <= owner /\ r.auth \in Auth!Auths /\ r.token <= issued /\ r.first <= issued
        /\ \A u \in Auth!Actors \ {t} : pc[u] = "publish" => r.token # req[u].token
             /\ r.first # req[u].token
        /\ r.first # 0 => memory[r.auth] # r.first
    BY <1>2, <2>2
  <2>9. l # "publish" /\ l \notin {"save", "recheck", "drop", "use", "reject"}
    BY <2>1
  <2>10. /\ l \in {"save", "recheck", "drop"} =>
               /\ r.token \in Auth!Tokens
                    /\ (~overtaken'[r.auth] => <<r.auth, r.token>> \notin dead)
               /\ overtaken'[r.auth] => memory[r.auth] = 0
         /\ l \in {"save", "recheck", "drop", "use"} => r.token # r.first
         /\ l \in {"use", "reject"} => r.token \in Auth!Tokens
    BY <2>9
  <2>11. pc[t] \in {"recheck", "drop"} => overtaken[req[t].auth] = FALSE
    BY <1>1
  <2>12. /\ l # "idle" => r.auth \in Auth!Auths
         /\ r.auth <= owner /\ r.token <= issued /\ r.first <= issued
    BY <2>8
  <2>13. pc' = [pc EXCEPT ![t] = l] /\ req' = [req EXCEPT ![t] = r]
    BY <2>3
  <2>14. UNCHANGED <<owner, creds, file, memory, usable, auth, clearer, issued, dead,
             unlinkFailed>>
    BY <2>3
  <2>15. \A u \in Auth!Actors \ {t} : pc[u] = "publish" => r.token # req[u].token
           /\ r.first # req[u].token
    BY <2>8
  <2>16. r.first # 0 => memory[r.auth] # r.first
    BY <2>8
  <2>17. l # "publish"
    BY <2>9
  <2> QED BY <2>4, <2>5, <2>6, <2>7, <2>10, <2>11, <2>12, <2>13, <2>14, <2>15, <2>16, <2>17,
         AuthThread, ZenonT(200)
<1> QED BY <1>3, <1>4 DEF Auth!Lock

\* A thread that gives its refresh lock back.
LEMMA AuthReleases ==
  ASSUME Auth!AuthInvariant, NEW t \in Auth!Actors, pc[t] \in Auth!Refreshing,
             Auth!Release(req[t].auth),
         NEW l \in {"idle", "use"}, NEW r \in Auth!Request,
         UNCHANGED <<owner, creds, file, memory, usable, auth, clearer, issued, dead,
             unlinkFailed>>,
         pc' = [pc EXCEPT ![t] = l], req' = [req EXCEPT ![t] = r],
         r = Auth!NoRequest \/ r = req[t],
         l = "use" => r = req[t] /\ pc[t] \in {"publish", "save", "recheck", "drop"},
         pc[t] \in {"recheck", "drop"} => overtaken[req[t].auth] = FALSE
  PROVE  Auth!AuthInvariant'
<1>1. PICK a \in Auth!Auths : a = req[t].auth
  BY RequestFacts DEF Auth!Refreshing
<1>2. /\ refresher' = [refresher EXCEPT ![a] = None]
           /\ overtaken' = [overtaken EXCEPT ![a] = FALSE]
      /\ refresher[a] = t /\ \A b \in Auth!Auths : refresher[b] = t => b = a
      /\ refresher \in [Auth!Auths -> Auth!Actors \cup {None}]
           /\ overtaken \in [Auth!Auths -> BOOLEAN]
  BY <1>1, RequestFacts DEF Auth!Release
<1>3. /\ req[t] \in Auth!Request /\ req[t].auth <= owner /\ req[t].token <= issued
           /\ req[t].first <= issued
      /\ \A u \in Auth!Actors \ {t} : pc[u] = "publish" => req[t].token # req[u].token
           /\ req[t].first # req[u].token
      /\ req[t].first # 0 => memory[req[t].auth] # req[t].first
      /\ l = "use" => req[t].token \in Auth!Tokens /\ req[t].token # req[t].first
  BY RequestFacts DEF Auth!AuthInvariant, Auth!RetryInvariant, Auth!RefreshInvariant
<1>4. /\ Auth!NoRequest \in Auth!Request /\ Auth!NoRequest.auth = 0 /\ Auth!NoRequest.token = 0
           /\ Auth!NoRequest.first = 0
      /\ 0 <= owner /\ 0 <= issued /\ \A u \in Auth!Actors : pc[u] = "publish"
           => req[u].token # 0
  BY NoRequestFacts
<1>5. l \in Locations /\ l \notin Auth!Refreshing /\ l # "publish"
        /\ l \notin {"save", "recheck", "drop"}
  BY DEF Locations, Auth!Refreshing
<1>6. refresher' \in [Auth!Auths -> Auth!Actors \cup {None}]
        /\ overtaken' \in [Auth!Auths -> BOOLEAN]
  BY <1>2
<1>7. /\ \A b \in Auth!Auths : refresher'[b] = t <=> l \in Auth!Refreshing /\ r.auth = b
      /\ \A b \in Auth!Auths, u \in Auth!Actors \ {t} : refresher'[b] = u <=> refresher[b] = u
      /\ \A b \in Auth!Auths : overtaken'[b] = overtaken[b] \/ refresher[b] \in {t, None}
  BY <1>2, <1>5, AuthAssumption DEF Auth!ActorAssumption, Auth!Actors
<1>8. /\ r.auth <= owner /\ (l # "idle" => r.auth \in Auth!Auths) /\ r.token <= issued
           /\ r.first <= issued
      /\ \A u \in Auth!Actors \ {t} : pc[u] = "publish" => r.token # req[u].token
           /\ r.first # req[u].token
      /\ r.first # 0 => memory[r.auth] # r.first
  BY <1>1, <1>3, <1>4
<1>9. /\ l \in {"save", "recheck", "drop"} =>
             /\ r.token \in Auth!Tokens
                  /\ (~overtaken'[r.auth] => <<r.auth, r.token>> \notin dead)
             /\ overtaken'[r.auth] => memory[r.auth] = 0
      /\ l \in {"save", "recheck", "drop", "use"} => r.token # r.first
      /\ l \in {"use", "reject"} => r.token \in Auth!Tokens
  BY <1>3, <1>5
<1> QED BY <1>5, <1>6, <1>7, <1>8, <1>9, AuthThread

LEMMA AuthOauthFails ==
  ASSUME Auth!AuthInvariant, NEW t \in Auth!Actors, Auth!OauthFails(t)
  PROVE  Auth!AuthInvariant'
<1>1. /\ pc[t] = "oauth" /\ pc[t] \in Auth!Refreshing /\ Auth!Release(req[t].auth)
      /\ UNCHANGED <<owner, creds, file, memory, usable, auth, clearer, issued, dead,
             unlinkFailed>>
      /\ pc' = [pc EXCEPT ![t] = "idle"] /\ req' = [req EXCEPT ![t] = Auth!NoRequest]
  BY DEF Auth!OauthFails, Auth!Goto, Auth!fileVars, Auth!Refreshing
<1>2. Auth!NoRequest \in Auth!Request /\ pc[t] \notin {"recheck", "drop"}
  BY <1>1, NoRequestFacts
<1> QED BY <1>1, <1>2, AuthReleases

LEMMA WithTokenFacts ==
  ASSUME Auth!AuthInvariant, NEW t \in Auth!Actors, Auth!WithToken(t)
  PROVE  \E l \in {"idle", "use"}, r \in Auth!Request :
            /\ pc' = [pc EXCEPT ![t] = l] /\ req' = [req EXCEPT ![t] = r]
            /\ r = Auth!NoRequest \/ r = req[t]
            /\ l = "use" => r = req[t]
<1>1. Auth!NoRequest \in Auth!Request /\ req[t] \in Auth!Request
        /\ req = [req EXCEPT ![t] = req[t]]
  BY NoRequestFacts, RequestFacts
<1>2. CASE Auth!Goto(t, "idle") /\ req' = [req EXCEPT ![t] = Auth!NoRequest]
  BY <1>1, <1>2 DEF Auth!Goto
<1>3. CASE Auth!Goto(t, "use") /\ UNCHANGED req
  BY <1>1, <1>3 DEF Auth!Goto
<1> QED BY <1>2, <1>3 DEF Auth!WithToken

LEMMA AuthIssue ==
  ASSUME Auth!AuthInvariant, NEW t \in Auth!Actors, Auth!Issue(t)
  PROVE  Auth!AuthInvariant'
<1>1. PICK a \in Auth!Auths : a = req[t].auth
  BY RequestFacts DEF Auth!Issue
<1>2. issued \in Nat /\ issued < MaxTokens
  BY AuthAssumption DEF Auth!Issue, Auth!AuthInvariant, Auth!TypeOK, Auth!TokenOrNone,
     Auth!BoundAssumption
<1>3. PICK k \in Auth!Tokens : k = issued + 1 /\ k > issued /\ k \in Auth!TokenOrNone
  BY <1>2, AuthAssumption DEF Auth!Tokens, Auth!TokenOrNone, Auth!BoundAssumption
<1>4. PICK r \in Auth!Request : r = [auth |-> a, token |-> k, first |-> req[t].first]
  <2>1. req[t] \in Auth!Request
    BY RequestFacts
  <2> QED BY <1>1, <1>3, <2>1 DEF Auth!Request
<1>5. /\ pc[t] = "oauth" /\ pc' = [pc EXCEPT ![t] = "publish"] /\ issued' = k
      /\ req' = [req EXCEPT ![t] = r]
      /\ UNCHANGED <<owner, creds, file, memory, usable, refresher, overtaken, auth, clearer,
             unlinkFailed>>
  <2>1. req[t] \in Auth!Request
    BY RequestFacts
  <2>2. [req[t] EXCEPT !.token = k] = r
    BY <1>1, <1>3, <1>4, <2>1 DEF Auth!Request
  <2>3. req' = [req EXCEPT ![t] = [@ EXCEPT !.token = k]]
    BY <1>3 DEF Auth!Issue
  <2>4. req' = [req EXCEPT ![t] = r]
    BY <2>2, <2>3
  <2> QED BY <1>3, <2>4 DEF Auth!Issue, Auth!Goto, Auth!fileVars, Auth!authVars
<1>6. /\ pc'[t] = "publish" /\ req'[t] = r /\ req[t].auth = a /\ r.auth = a /\ r.token = k
           /\ r.first = req[t].first
      /\ \A u \in Auth!Actors \ {t} : pc'[u] = pc[u] /\ req'[u] = req[u]
  BY <1>1, <1>4, <1>5 DEF Auth!AuthInvariant, Auth!TypeOK
<1>7. /\ dead \subseteq dead' /\ \A d \in dead' : d \in dead \/ d = <<a, k>>
      /\ <<a, k>> \in dead' => <<a, k>> \in dead \/ overtaken[a]
  BY <1>1, <1>3 DEF Auth!Issue
<1>8. <<a, k>> \notin dead
  BY <1>2, <1>3 DEF Auth!AuthInvariant, Auth!NumbersInvariant
<1> USE DEF Auth!AuthInvariant
<1>9. Auth!TypeOK'
  <2>1. pc' \in [Auth!Actors -> Auth!Refreshing \cup {"idle", "get", "lock", "use", "reject"}]
          /\ req' \in [Auth!Actors -> Auth!Request]
    BY <1>5 DEF Auth!TypeOK, Auth!Refreshing
  <2>2. dead' \subseteq Auth!Auths \X Auth!Tokens /\ issued' \in Auth!TokenOrNone
    BY <1>3, <1>5, <1>7 DEF Auth!TypeOK
  <2>3. \A b \in Auth!Auths,
            u \in Auth!Actors : refresher'[b] = u <=> pc'[u] \in Auth!Refreshing
              /\ req'[u].auth = b
    BY <1>5, <1>6 DEF Auth!TypeOK, Auth!Refreshing
  <2> QED BY <1>5, <2>1, <2>2, <2>3 DEF Auth!TypeOK
<1>10. Auth!NumbersInvariant'
  <2>1. \A n \in Nat : n <= issued => n <= k
    BY <1>2, <1>3
  <2>2. \A b \in Auth!Auths : memory[b] \in Nat /\ memory'[b] <= issued'
          /\ (b > owner' => memory'[b] = 0)
    BY <1>3, <1>5, <2>1 DEF Auth!TypeOK, Auth!TokenOrNone, Auth!NumbersInvariant
  <2>3. file' # Auth!NoFile => file'.token <= issued'
    BY <1>3, <1>5, <2>1 DEF Auth!TypeOK, Auth!Tokens, Auth!NoFile, Auth!NumbersInvariant
  <2>4. \A u \in Auth!Actors : /\ req'[u].auth <= owner'
                                    /\ (pc'[u] # "idle" => req'[u].auth \in Auth!Auths)
                               /\ req'[u].token <= issued' /\ req'[u].first <= issued'
    BY <1>3, <1>5, <1>6, <2>1 DEF Auth!TypeOK, Auth!Request, Auth!TokenOrNone,
       Auth!NumbersInvariant
  <2>5. \A d \in dead' : d[1] <= owner' /\ d[2] <= issued'
    <3>1. ASSUME NEW d \in dead PROVE d[1] <= owner' /\ d[2] <= issued'
      BY <1>3, <1>5, <2>1, <3>1 DEF Auth!TypeOK, Auth!Tokens, Auth!NumbersInvariant
    <3>2. a <= owner'
      BY <1>1, <1>5 DEF Auth!NumbersInvariant
    <3> QED BY <1>3, <1>5, <1>7, <3>1, <3>2
  <2> QED BY <1>5, <2>2, <2>3, <2>4, <2>5 DEF Auth!NumbersInvariant
<1>11. Auth!RefreshInvariant'
  <2>1. \A u \in Auth!Actors \ {t} : req[u].auth \in Auth!Auths /\ req[u].token <= issued =>
              (<<req[u].auth, req[u].token>> \in dead' => <<req[u].auth,
                  req[u].token>> \in dead)
    BY <1>2, <1>3, <1>7
  <2>2. \A u \in Auth!Actors \ {t} : req[u].token <= issued
          /\ (pc[u] # "idle" => req[u].auth \in Auth!Auths)
    BY DEF Auth!NumbersInvariant
  <2>3. ~overtaken'[a] => <<a, k>> \notin dead'
    BY <1>5, <1>7, <1>8
  <2> QED BY <1>3, <1>5, <1>6, <2>1, <2>2, <2>3 DEF Auth!RefreshInvariant
<1>12. Auth!NewTokenInvariant'
  <2>1. /\ file.token # k /\ \A b \in Auth!Auths : memory[b] # k
        /\ \A u \in Auth!Actors : req[u].token # k /\ req[u].first # k
    BY <1>2, <1>3 DEF Auth!NumbersInvariant, Auth!NoFile
  <2> QED BY <1>5, <1>6, <2>1 DEF Auth!NewTokenInvariant
<1>13. Auth!RetryInvariant'
  <2>1. req[t].first # k
    BY <1>2, <1>3 DEF Auth!NumbersInvariant
  <2> QED BY <1>3, <1>5, <1>6, <2>1 DEF Auth!RetryInvariant
<1>14. Auth!InvalidatedNotServed'
  <2>1. \A b \in Auth!Auths : memory[b] # k
    BY <1>2, <1>3 DEF Auth!NumbersInvariant
  <2> QED BY <1>5, <1>7, <2>1 DEF Auth!InvalidatedNotServed
<1>15. Auth!FileServesNextStart'
  <2>1. file # Auth!NoFile => file.token # k
    BY <1>2, <1>3 DEF Auth!NumbersInvariant
  <2>2. file # Auth!NoFile /\ <<owner, file.token>> \in dead' => <<owner, file.token>> \in dead
    BY <1>7, <2>1
  <2>3. \A u \in Auth!Actors : pc[u] \in {"recheck", "drop"} => pc'[u] = pc[u]
          /\ req'[u] = req[u]
    BY <1>5, <1>6
  <2> QED BY <1>5, <2>2, <2>3 DEF Auth!FileServesNextStart, Auth!NoFile
<1> QED BY <1>9, <1>10, <1>11, <1>12, <1>13, <1>14, <1>15

LEMMA AuthPublish ==
  ASSUME Auth!AuthInvariant, NEW t \in Auth!Actors, Auth!Publish(t)
  PROVE  Auth!AuthInvariant'
<1>1. PICK a \in Auth!Auths : a = req[t].auth
  BY RequestFacts DEF Auth!Publish
<1>2. /\ pc[t] = "publish" /\ pc[t] \in Auth!Refreshing
      /\ UNCHANGED <<owner, creds, file, auth, clearer, issued, dead, unlinkFailed>>
  BY DEF Auth!Publish, Auth!fileVars, Auth!Refreshing
<1>3. CASE overtaken[a] /\ Auth!Release(a) /\ Auth!WithToken(t) /\ UNCHANGED <<memory, usable>>
  <2>1. PICK l \in {"idle", "use"}, r \in Auth!Request :
            /\ pc' = [pc EXCEPT ![t] = l] /\ req' = [req EXCEPT ![t] = r]
            /\ r = Auth!NoRequest \/ r = req[t]
            /\ l = "use" => r = req[t]
    BY <1>3, WithTokenFacts
  <2>2. pc[t] \notin {"recheck", "drop"}
    BY <1>2
  <2> QED BY <1>1, <1>2, <1>3, <2>1, <2>2, AuthReleases
<1>4. CASE /\ ~overtaken[a] /\ memory' = [memory EXCEPT ![a] = req[t].token]
           /\ usable' = [usable EXCEPT ![a] = TRUE]
           /\ Auth!Goto(t, "save") /\ UNCHANGED <<req, refresher, overtaken>>
  <2> USE DEF Auth!AuthInvariant
  <2>1. PICK k \in Auth!Tokens : k = req[t].token /\ <<a, k>> \notin dead /\ k <= issued
               /\ k # req[t].first
    BY <1>1, <1>2, <1>4 DEF Auth!RefreshInvariant, Auth!NumbersInvariant,
       Auth!RetryInvariant
  <2>2. /\ memory'[a] = k /\ \A b \in Auth!Auths \ {a} : memory'[b] = memory[b]
        /\ pc'[t] = "save" /\ \A u \in Auth!Actors \ {t} : pc'[u] = pc[u]
    BY <1>4, <2>1 DEF Auth!TypeOK, Auth!Goto
  <2>3. Auth!TypeOK'
    <3>1. memory' \in [Auth!Auths -> Auth!TokenOrNone] /\ k \in Auth!TokenOrNone
      BY <1>4, <2>1, AuthAssumption DEF Auth!TypeOK, Auth!Tokens, Auth!TokenOrNone,
         Auth!BoundAssumption
    <3>2. usable' \in [Auth!Auths -> BOOLEAN] /\ overtaken' \in [Auth!Auths -> BOOLEAN]
      BY <1>4 DEF Auth!TypeOK
    <3>3. pc' \in [Auth!Actors -> Auth!Refreshing \cup {"idle", "get", "lock", "use", "reject"}]
      BY <1>4 DEF Auth!TypeOK, Auth!Goto, Auth!Refreshing
    <3>4. \A b \in Auth!Auths,
              u \in Auth!Actors : refresher'[b] = u <=> pc'[u] \in Auth!Refreshing
                /\ req'[u].auth = b
      BY <1>2, <1>4, <2>2 DEF Auth!TypeOK, Auth!Refreshing
    <3> QED BY <1>2, <1>4, <3>1, <3>2, <3>3, <3>4 DEF Auth!TypeOK
  <2>4. Auth!NumbersInvariant'
    <3>1. a <= owner
      BY <1>1 DEF Auth!NumbersInvariant
    <3>2. ~(a > owner)
      BY <3>1 DEF Auth!TypeOK, Auth!Auths
    <3> QED BY <1>2, <1>4, <2>1, <2>2, <3>2 DEF Auth!NumbersInvariant
  <2>5. Auth!RefreshInvariant'
    <3>1. \A u \in Auth!Actors \ {t} : pc[u] \in Auth!Refreshing => req[u].auth # a
      BY <1>1, <1>2 DEF Auth!TypeOK
    <3>2. \A u \in Auth!Actors : pc[u] \in Auth!Refreshing => req[u].auth \in Auth!Auths
      BY DEF Auth!NumbersInvariant, Auth!Refreshing
    <3> QED BY <1>1, <1>2, <1>4, <2>1, <2>2, <3>1, <3>2 DEF Auth!RefreshInvariant,
           Auth!Refreshing
  <2>6. Auth!NewTokenInvariant'
    <3>1. ASSUME NEW u \in Auth!Actors, pc'[u] = "publish" PROVE u # t /\ pc[u] = "publish"
                   /\ req[u].token # k
      BY <1>2, <2>1, <2>2, <3>1 DEF Auth!NewTokenInvariant
    <3> QED BY <1>2, <1>4, <2>2, <3>1 DEF Auth!NewTokenInvariant
  <2>7. Auth!RetryInvariant'
    <3>1. \A u \in Auth!Actors : req[u].first # k
      BY <1>2, <2>1 DEF Auth!NewTokenInvariant
    <3>2. \A u \in Auth!Actors : req[u].first # 0 => memory'[req[u].auth] # req[u].first
      <4>1. \A u \in Auth!Actors : req[u].auth = a \/ req[u].auth # a
        OBVIOUS
      <4>2. \A u \in Auth!Actors : req[u].auth # a => memory'[req[u].auth] = memory[req[u].auth]
        BY <1>4 DEF Auth!TypeOK
      <4> QED BY <2>2, <3>1, <4>2 DEF Auth!RetryInvariant
    <3> QED BY <1>2, <1>4, <2>1, <2>2, <3>2 DEF Auth!RetryInvariant
  <2>8. Auth!InvalidatedNotServed'
    BY <1>2, <2>1, <2>2 DEF Auth!InvalidatedNotServed
  <2>9. Auth!FileServesNextStart'
    BY <1>2, <1>4, <2>2 DEF Auth!FileServesNextStart, Auth!NoFile
  <2> QED BY <2>3, <2>4, <2>5, <2>6, <2>7, <2>8, <2>9
<1> QED BY <1>1, <1>3, <1>4 DEF Auth!Publish

LEMMA AuthSave ==
  ASSUME Auth!AuthInvariant, NEW t \in Auth!Actors, Auth!Save(t)
  PROVE  Auth!AuthInvariant'
<1> USE DEF Auth!AuthInvariant
<1>1. PICK a \in Auth!Auths : a = req[t].auth
  BY RequestFacts DEF Auth!Save
<1>2. /\ pc[t] = "save" /\ pc' = [pc EXCEPT ![t] = "recheck"]
      /\ UNCHANGED <<owner, creds, unlinkFailed, memory, usable, refresher, overtaken, auth,
             clearer, req, issued,
                     dead>>
  BY DEF Auth!Save, Auth!Goto, Auth!authVars
<1>3. pc'[t] = "recheck" /\ \A u \in Auth!Actors \ {t} : pc'[u] = pc[u]
  BY <1>2 DEF Auth!TypeOK
<1>4. PICK k \in Auth!Tokens : k = req[t].token /\ k <= issued
  BY <1>2 DEF Auth!RefreshInvariant, Auth!NumbersInvariant
<1>5. \/ file' = file
      \/ a = owner /\ file' = [token |-> k, cred |-> creds[a]]
  BY <1>1, <1>4 DEF Auth!Save, Auth!SaveCached
<1>6. Auth!TypeOK'
  <2>1. pc' \in [Auth!Actors -> Auth!Refreshing \cup {"idle", "get", "lock", "use", "reject"}]
    BY <1>2 DEF Auth!TypeOK, Auth!Refreshing
  <2>2. file' \in [token : Auth!Tokens, cred : Credentials] \cup {Auth!NoFile}
    <3>1. creds[a] \in Credentials \/ a > owner
      BY <1>1 DEF Auth!TypeOK, Auth!Auths, Auth!NumbersInvariant
    <3> QED BY <1>5, <3>1 DEF Auth!TypeOK, Auth!Auths
  <2>3. \A b \in Auth!Auths,
            u \in Auth!Actors : refresher'[b] = u <=> pc'[u] \in Auth!Refreshing
              /\ req'[u].auth = b
    BY <1>2, <1>3 DEF Auth!TypeOK, Auth!Refreshing
  <2> QED BY <1>2, <2>1, <2>2, <2>3 DEF Auth!TypeOK
<1>7. Auth!NumbersInvariant'
  BY <1>2, <1>3, <1>4, <1>5 DEF Auth!NumbersInvariant
<1>8. Auth!RefreshInvariant'
  BY <1>2, <1>3 DEF Auth!RefreshInvariant
<1>9. Auth!NewTokenInvariant'
  BY <1>2, <1>3, <1>4, <1>5 DEF Auth!NewTokenInvariant
<1>10. Auth!RetryInvariant'
  BY <1>2, <1>3 DEF Auth!RetryInvariant
<1>11. Auth!InvalidatedNotServed'
  BY <1>2 DEF Auth!InvalidatedNotServed
<1>12. Auth!FileServesNextStart'
  BY <1>1, <1>2, <1>3, <1>4, <1>5 DEF Auth!FileServesNextStart, Auth!NoFile
<1> QED BY <1>6, <1>7, <1>8, <1>9, <1>10, <1>11, <1>12

LEMMA AuthRecheck ==
  ASSUME Auth!AuthInvariant, NEW t \in Auth!Actors, Auth!Recheck(t)
  PROVE  Auth!AuthInvariant'
<1>1. PICK a \in Auth!Auths : a = req[t].auth
  BY RequestFacts DEF Auth!Recheck
<1>2. /\ pc[t] = "recheck" /\ pc[t] \in Auth!Refreshing
      /\ UNCHANGED <<owner, creds, file, auth, clearer, issued, dead, unlinkFailed>>
  BY DEF Auth!Recheck, Auth!fileVars, Auth!Refreshing
<1>3. CASE ~overtaken[a] /\ Auth!Release(a) /\ Auth!WithToken(t) /\ UNCHANGED <<memory, usable>>
  <2>1. PICK l \in {"idle", "use"}, r \in Auth!Request :
            /\ pc' = [pc EXCEPT ![t] = l] /\ req' = [req EXCEPT ![t] = r]
            /\ r = Auth!NoRequest \/ r = req[t]
            /\ l = "use" => r = req[t]
    BY <1>3, WithTokenFacts
  <2>2. overtaken[req[t].auth] = FALSE
    BY <1>1, <1>3 DEF Auth!AuthInvariant, Auth!TypeOK
  <2> QED BY <1>1, <1>2, <1>3, <2>1, <2>2, AuthReleases
<1>4. CASE /\ overtaken[a] /\ memory' = [memory EXCEPT ![a] = 0]
                /\ usable' = [usable EXCEPT ![a] = FALSE]
           /\ Auth!Goto(t, "drop") /\ UNCHANGED <<req, refresher, overtaken>>
  <2> USE DEF Auth!AuthInvariant
  <2>1. memory[a] = 0
    BY <1>1, <1>2, <1>4 DEF Auth!RefreshInvariant
  <2>2. memory' = memory
    BY <1>4, <2>1 DEF Auth!TypeOK
  <2>3. pc'[t] = "drop" /\ \A u \in Auth!Actors \ {t} : pc'[u] = pc[u]
    BY <1>4 DEF Auth!TypeOK, Auth!Goto
  <2>4. Auth!TypeOK'
    <3>1. usable' \in [Auth!Auths -> BOOLEAN]
      BY <1>4 DEF Auth!TypeOK
    <3>2. pc' \in [Auth!Actors -> Auth!Refreshing \cup {"idle", "get", "lock", "use", "reject"}]
      BY <1>4 DEF Auth!TypeOK, Auth!Goto, Auth!Refreshing
    <3>3. \A b \in Auth!Auths,
              u \in Auth!Actors : refresher'[b] = u <=> pc'[u] \in Auth!Refreshing
                /\ req'[u].auth = b
      BY <1>2, <1>4, <2>3 DEF Auth!TypeOK, Auth!Refreshing
    <3> QED BY <1>2, <1>4, <2>2, <3>1, <3>2, <3>3 DEF Auth!TypeOK
  <2>5. Auth!NumbersInvariant'
    BY <1>2, <1>4, <2>2, <2>3 DEF Auth!NumbersInvariant
  <2>6. Auth!RefreshInvariant'
    BY <1>2, <1>4, <2>2, <2>3 DEF Auth!RefreshInvariant
  <2>7. Auth!NewTokenInvariant'
    BY <1>2, <1>4, <2>2, <2>3 DEF Auth!NewTokenInvariant
  <2>8. Auth!RetryInvariant'
    BY <1>2, <1>4, <2>2, <2>3 DEF Auth!RetryInvariant
  <2>9. Auth!InvalidatedNotServed' /\ Auth!FileServesNextStart'
    BY <1>2, <1>4, <2>2, <2>3 DEF Auth!InvalidatedNotServed, Auth!FileServesNextStart,
       Auth!NoFile
  <2> QED BY <2>4, <2>5, <2>6, <2>7, <2>8, <2>9
<1> QED BY <1>1, <1>3, <1>4 DEF Auth!Recheck

LEMMA AuthDrop ==
  ASSUME Auth!AuthInvariant, NEW t \in Auth!Actors, Auth!Drop(t)
  PROVE  Auth!AuthInvariant'
<1> USE DEF Auth!AuthInvariant
<1>1. PICK a \in Auth!Auths : a = req[t].auth
  BY RequestFacts DEF Auth!Drop
<1>2. /\ pc[t] = "drop" /\ pc[t] \in Auth!Refreshing
      /\ UNCHANGED <<owner, creds, memory, usable, auth, clearer, issued, dead>>
  BY DEF Auth!Drop, Auth!Refreshing
<1>3. \/ a # owner /\ UNCHANGED <<file, unlinkFailed>>
      \/ file' = Auth!NoFile /\ UNCHANGED unlinkFailed
      \/ unlinkFailed' = TRUE /\ UNCHANGED file
  BY <1>1 DEF Auth!Drop, Auth!DeleteCached
<1>4. PICK l \in {"idle", "use"}, r \in Auth!Request :
            /\ pc' = [pc EXCEPT ![t] = l] /\ req' = [req EXCEPT ![t] = r]
            /\ r = Auth!NoRequest \/ r = req[t]
            /\ l = "use" => r = req[t]
  BY WithTokenFacts DEF Auth!Drop
<1>5. /\ pc'[t] = l /\ req'[t] = r
      /\ \A u \in Auth!Actors \ {t} : pc'[u] = pc[u] /\ req'[u] = req[u]
  BY <1>4 DEF Auth!TypeOK
<1>6. /\ refresher' = [refresher EXCEPT ![a] = None]
           /\ overtaken' = [overtaken EXCEPT ![a] = FALSE]
      /\ refresher[a] = t /\ \A b \in Auth!Auths : refresher[b] = t => b = a
  BY <1>1, <1>2 DEF Auth!Drop, Auth!Release, Auth!TypeOK
<1>7. /\ Auth!NoRequest.auth = 0 /\ Auth!NoRequest.token = 0 /\ Auth!NoRequest.first = 0
      /\ 0 <= owner /\ 0 <= issued /\ \A u \in Auth!Actors : pc[u] = "publish"
           => req[u].token # 0
  BY NoRequestFacts
<1>8. l \notin Auth!Refreshing /\ l \notin {"publish", "save", "recheck", "drop", "reject"}
  BY DEF Auth!Refreshing
<1>9. Auth!TypeOK'
  <2>1. /\ pc' \in [Auth!Actors -> Auth!Refreshing \cup {"idle", "get", "lock", "use",
               "reject"}]
        /\ req' \in [Auth!Actors -> Auth!Request]
    BY <1>4 DEF Auth!TypeOK
  <2>2. refresher' \in [Auth!Auths -> Auth!Actors \cup {None}]
          /\ overtaken' \in [Auth!Auths -> BOOLEAN]
    BY <1>6 DEF Auth!TypeOK
  <2>3. file' \in [token : Auth!Tokens, cred : Credentials] \cup {Auth!NoFile}
    BY <1>3 DEF Auth!TypeOK
  <2>4. unlinkFailed' \in BOOLEAN
    BY <1>3 DEF Auth!TypeOK
  <2>5. \A b \in Auth!Auths,
            u \in Auth!Actors : refresher'[b] = u <=> pc'[u] \in Auth!Refreshing
              /\ req'[u].auth = b
    <3>1. \A b \in Auth!Auths, u \in Auth!Actors \ {t} : refresher'[b] = u <=> refresher[b] = u
      BY <1>6, AuthAssumption DEF Auth!TypeOK, Auth!ActorAssumption, Auth!Actors
    <3>2. \A b \in Auth!Auths : refresher'[b] # t
      BY <1>6, AuthAssumption DEF Auth!TypeOK, Auth!ActorAssumption, Auth!Actors
    <3> QED BY <1>5, <1>8, <3>1, <3>2 DEF Auth!TypeOK
  <2> QED BY <1>2, <2>1, <2>2, <2>3, <2>4, <2>5 DEF Auth!TypeOK
<1>10. Auth!NumbersInvariant'
  <2>1. r.auth <= owner /\ (l # "idle" => r.auth \in Auth!Auths) /\ r.token <= issued
          /\ r.first <= issued
    BY <1>1, <1>4, <1>7 DEF Auth!NumbersInvariant
  <2>2. file' # Auth!NoFile => file' = file
    BY <1>3
  <2> QED BY <1>2, <1>5, <2>1, <2>2 DEF Auth!NumbersInvariant
<1>11. Auth!RefreshInvariant'
  <2>1. \A u \in Auth!Actors \ {t} : pc[u] \in Auth!Refreshing => req[u].auth # a
          /\ req[u].auth \in Auth!Auths
    <3>1. \A u \in Auth!Actors : pc[u] \in Auth!Refreshing => req[u].auth \in Auth!Auths
      BY DEF Auth!NumbersInvariant, Auth!Refreshing
    <3> QED BY <1>6, <3>1 DEF Auth!TypeOK
  <2>2. \A u \in Auth!Actors \ {t} : pc[u] \in Auth!Refreshing
          => overtaken'[req[u].auth] = overtaken[req[u].auth]
    BY <1>6, <2>1 DEF Auth!TypeOK
  <2> QED BY <1>2, <1>5, <1>8, <2>2 DEF Auth!RefreshInvariant, Auth!Refreshing
<1>12. Auth!NewTokenInvariant'
  <2>1. file'.token = file.token \/ file'.token = 0
    BY <1>3 DEF Auth!NoFile
  <2>2. \A u \in Auth!Actors : r.token = 0 \/ r.token = req[t].token
    BY <1>4, <1>7
  <2>3. r.first = 0 \/ r.first = req[t].first
    BY <1>4, <1>7
  <2>4. ASSUME NEW u \in Auth!Actors, pc'[u] = "publish"
        PROVE  /\ u # t /\ pc[u] = "publish" /\ req'[u].token # 0
               /\ req'[u].token = req[u].token
    BY <1>5, <1>7, <1>8, <2>4
  <2>5. ASSUME NEW u \in Auth!Actors, pc'[u] = "publish"
        PROVE  /\ file'.token # req'[u].token
                    /\ \A b \in Auth!Auths : memory'[b] # req'[u].token
               /\ \A v \in Auth!Actors \ {u} : req'[v].token # req'[u].token
               /\ \A v \in Auth!Actors : req'[v].first # req'[u].token
    BY <1>2, <1>5, <2>1, <2>2, <2>3, <2>4, <2>5 DEF Auth!NewTokenInvariant
  <2> QED BY <2>5 DEF Auth!NewTokenInvariant
<1>13. Auth!RetryInvariant'
  <2>1. r.first # 0 => memory[r.auth] # r.first
    BY <1>4, <1>7 DEF Auth!RetryInvariant
  <2>2. l = "use" => r.token # r.first /\ r.token \in Auth!Tokens
    BY <1>2, <1>4 DEF Auth!RetryInvariant, Auth!RefreshInvariant
  <2> QED BY <1>2, <1>5, <1>8, <2>1, <2>2 DEF Auth!RetryInvariant
<1>14. Auth!InvalidatedNotServed'
  BY <1>2 DEF Auth!InvalidatedNotServed
<1>15. Auth!FileServesNextStart'
  <2>1. CASE a # owner /\ UNCHANGED <<file, unlinkFailed>>
    <3>1. \A u \in Auth!Actors : req[u].auth = owner => u # t
      BY <1>1, <2>1
    <3> QED BY <1>2, <1>5, <2>1, <3>1 DEF Auth!FileServesNextStart, Auth!NoFile
  <2>2. CASE file' = Auth!NoFile
    BY <2>2 DEF Auth!FileServesNextStart, Auth!NoFile
  <2>3. CASE unlinkFailed' = TRUE
    BY <2>3 DEF Auth!FileServesNextStart
  <2> QED BY <1>3, <2>1, <2>2, <2>3
<1> QED BY <1>9, <1>10, <1>11, <1>12, <1>13, <1>14, <1>15

LEMMA AuthQuiet ==
  ASSUME Auth!AuthInvariant, \/ \E a \in Auth!Auths : Auth!Expire(a)
                             \/ Auth!PromoteAuth \/ Auth!BeginClear \/ Auth!Wipe
  PROVE  Auth!AuthInvariant'
<1> USE DEF Auth!AuthInvariant
<1>1. UNCHANGED <<owner, creds, unlinkFailed, memory, refresher, overtaken, pc, req, issued,
          dead>>
  BY DEF Auth!Expire, Auth!PromoteAuth, Auth!BeginClear, Auth!Wipe, Auth!fileVars,
     Auth!authVars, Auth!threadVars
<1>2. file' \in {file, Auth!NoFile}
  BY DEF Auth!Expire, Auth!PromoteAuth, Auth!BeginClear, Auth!Wipe, Auth!fileVars
<1>3. usable' \in [Auth!Auths -> BOOLEAN]
  BY ZenonT(120) DEF Auth!Expire, Auth!PromoteAuth, Auth!BeginClear, Auth!Wipe, Auth!authVars,
     Auth!TypeOK
<1>4. /\ auth' \in Auth!Auths /\ auth' <= owner
  BY DEF Auth!Expire, Auth!PromoteAuth, Auth!BeginClear, Auth!Wipe, Auth!TypeOK, Auth!Auths
<1>5. /\ clearer' \in [step : {"idle", "wipe", "reset"}, auth : 0..MaxAuths]
      /\ clearer'.auth <= owner /\ (clearer'.step # "idle" => clearer'.auth \in Auth!Auths)
  <2>1. CASE UNCHANGED clearer
    BY <2>1 DEF Auth!TypeOK, Auth!NumbersInvariant
  <2>2. CASE Auth!BeginClear
    <3>1. auth \in 0..MaxAuths
      BY AuthAssumption DEF Auth!TypeOK, Auth!Auths, Auth!BoundAssumption
    <3> QED BY <2>2, <3>1 DEF Auth!BeginClear, Auth!TypeOK
  <2>3. CASE Auth!Wipe
    <3>1. PICK a \in Auth!Auths : a = clearer.auth /\ a <= owner
      BY <2>3 DEF Auth!Wipe, Auth!NumbersInvariant
    <3>2. clearer' = [step |-> "reset", auth |-> a]
      BY <2>3, <3>1 DEF Auth!Wipe, Auth!TypeOK
    <3>3. a \in 0..MaxAuths
      BY AuthAssumption DEF Auth!Auths, Auth!BoundAssumption
    <3> QED BY <3>1, <3>2, <3>3
  <2> QED BY <2>1, <2>2, <2>3 DEF Auth!Expire, Auth!PromoteAuth
<1>6. Auth!TypeOK'
  BY <1>1, <1>2, <1>3, <1>4, <1>5 DEF Auth!TypeOK
<1>7. Auth!NumbersInvariant'
  BY <1>1, <1>2, <1>5 DEF Auth!NumbersInvariant
<1>8. Auth!RefreshInvariant' /\ Auth!RetryInvariant' /\ Auth!InvalidatedNotServed'
  BY <1>1 DEF Auth!RefreshInvariant, Auth!RetryInvariant, Auth!InvalidatedNotServed
<1>9. Auth!NewTokenInvariant'
  <2>1. file'.token = file.token \/ file'.token = 0
    BY <1>2 DEF Auth!NoFile
  <2> QED BY <1>1, <2>1, NoRequestFacts DEF Auth!NewTokenInvariant
<1>10. Auth!FileServesNextStart'
  BY <1>1, <1>2 DEF Auth!FileServesNextStart, Auth!NoFile
<1> QED BY <1>6, <1>7, <1>8, <1>9, <1>10

LEMMA AuthCreate ==
  ASSUME Auth!AuthInvariant, Auth!CreateAuth
  PROVE  Auth!AuthInvariant'
<1> USE DEF Auth!AuthInvariant
<1>1. PICK n \in Auth!Auths : n = owner + 1 /\ n > owner /\ ~(n <= owner)
  BY AuthAssumption DEF Auth!CreateAuth, Auth!TypeOK, Auth!Auths, Auth!BoundAssumption
<1>2. PICK c \in Credentials : creds' = [creds EXCEPT ![n] = c] /\ Auth!LoadCached(n, c)
  BY <1>1 DEF Auth!CreateAuth
<1>3. owner' = n /\ UNCHANGED <<refresher, overtaken, auth, clearer, pc, req, issued, dead>>
  BY <1>1 DEF Auth!CreateAuth, Auth!threadVars
<1>4. creds'[n] = c /\ \A a \in Auth!Auths \ {n} : creds'[a] = creds[a]
  BY <1>2 DEF Auth!TypeOK
<1>5. \A a \in Auth!Auths : a <= owner => a # n /\ a <= n
  BY <1>1 DEF Auth!Auths, Auth!TypeOK
<1>6. memory[n] = 0
  BY <1>1 DEF Auth!NumbersInvariant
<1>7. \E k \in {0, file.token} :
         /\ memory' = [memory EXCEPT ![n] = k]
         /\ file # Auth!NoFile \/ k = 0
  <2>1. CASE file.cred = c
    BY <1>2, <2>1, AuthAssumption DEF Auth!LoadCached, Auth!NoFile,
       Auth!CredentialsAssumption
  <2>2. CASE UNCHANGED memory
    <3>1. memory' = [memory EXCEPT ![n] = 0]
      BY <1>6, <2>2 DEF Auth!TypeOK
    <3> QED BY <3>1
  <2> QED BY <1>2, <2>1, <2>2 DEF Auth!LoadCached
<1>8. PICK k \in Auth!TokenOrNone : /\ memory' = [memory EXCEPT ![n] = k]
                                         /\ k \in {0, file.token} /\ k <= issued
                                    /\ file # Auth!NoFile \/ k = 0
  <2>1. 0 \in Auth!TokenOrNone /\ 0 <= issued /\ \A k \in Auth!Tokens : k \in Auth!TokenOrNone
    BY AuthAssumption DEF Auth!TypeOK, Auth!TokenOrNone, Auth!Tokens, Auth!BoundAssumption
  <2>2. file # Auth!NoFile => file.token \in Auth!Tokens /\ file.token <= issued
    BY DEF Auth!TypeOK, Auth!NumbersInvariant
  <2> QED BY <1>7, <2>1, <2>2
<1>9. memory'[n] = k /\ \A a \in Auth!Auths \ {n} : memory'[a] = memory[a]
  BY <1>8 DEF Auth!TypeOK
<1>10. /\ file' \in {file, Auth!NoFile} /\ unlinkFailed' \in {TRUE, unlinkFailed}
       /\ file' # Auth!NoFile => unlinkFailed' \/ file.cred = c
  BY <1>2 DEF Auth!LoadCached
<1>11. \A t \in Auth!Actors : req[t].auth <= owner
  BY DEF Auth!NumbersInvariant
<1>12. Auth!TypeOK'
  <2>1. creds' \in [Auth!Auths -> Credentials \cup {None}]
          /\ memory' \in [Auth!Auths -> Auth!TokenOrNone]
    BY <1>2, <1>8 DEF Auth!TypeOK
  <2>2. usable' \in [Auth!Auths -> BOOLEAN]
    <3>1. CASE UNCHANGED usable
      BY <3>1 DEF Auth!TypeOK
    <3>2. ASSUME NEW u \in BOOLEAN, NEW j, usable' = [usable EXCEPT ![n] = u /\ j # 0]
          PROVE  usable' \in [Auth!Auths -> BOOLEAN]
      BY <3>2 DEF Auth!TypeOK
    <3> QED BY <1>2, <3>1, <3>2 DEF Auth!LoadCached
  <2>3. owner' \in Auth!Auths /\ auth' <= owner' /\ unlinkFailed' \in BOOLEAN
    <3>1. auth <= owner /\ auth \in Auth!Auths
      BY DEF Auth!TypeOK
    <3>2. auth <= n
      BY <1>5, <3>1
    <3>3. unlinkFailed' \in BOOLEAN
      BY <1>10 DEF Auth!TypeOK
    <3> QED BY <1>3, <3>2, <3>3
  <2> QED BY <1>3, <1>10, <2>1, <2>2, <2>3 DEF Auth!TypeOK
<1>13. Auth!NumbersInvariant'
  <2>1. ASSUME NEW a \in Auth!Auths
        PROVE  /\ memory'[a] <= issued /\ (a > n => memory'[a] = 0)
               /\ a <= n => creds'[a] # None
    <3>1. CASE a = n
      BY <1>1, <1>4, <1>8, <1>9, <3>1, AuthAssumption DEF Auth!CredentialsAssumption,
         Auth!Auths
    <3>2. CASE a # n
      <4>1. (a > n => a > owner) /\ (a <= n => a <= owner)
        BY <1>1, <3>2 DEF Auth!Auths, Auth!TypeOK
      <4> QED BY <1>4, <1>9, <3>2, <4>1 DEF Auth!NumbersInvariant
    <3> QED BY <3>1, <3>2
  <2>2. \A a \in Nat : a <= owner => a <= n
    BY <1>1 DEF Auth!TypeOK, Auth!Auths
  <2>3. \A t \in Auth!Actors : req[t].auth <= n
    BY <1>11, <2>2 DEF Auth!TypeOK, Auth!Request
  <2>4. clearer.auth <= n
    BY <2>2 DEF Auth!TypeOK, Auth!NumbersInvariant
  <2>5. \A d \in dead : d[1] <= n
    <3>1. \A d \in dead : d[1] \in Nat
      BY DEF Auth!TypeOK, Auth!Auths
    <3> QED BY <2>2, <3>1 DEF Auth!NumbersInvariant
  <2>6. file' # Auth!NoFile => file'.token <= issued
    BY <1>10 DEF Auth!NumbersInvariant
  <2> QED BY <1>3, <2>1, <2>3, <2>4, <2>5, <2>6 DEF Auth!NumbersInvariant
<1>14. Auth!RefreshInvariant'
  <2>1. \A t \in Auth!Actors : pc[t] # "idle" => memory'[req[t].auth] = memory[req[t].auth]
    BY <1>5, <1>9, <1>11 DEF Auth!NumbersInvariant
  <2> QED BY <1>3, <2>1 DEF Auth!RefreshInvariant
<1>15. Auth!NewTokenInvariant'
  <2>1. file'.token = file.token \/ file'.token = 0
    BY <1>10 DEF Auth!NoFile
  <2> QED BY <1>3, <1>8, <1>9, <2>1, NoRequestFacts DEF Auth!NewTokenInvariant
<1>16. Auth!RetryInvariant'
  <2>1. ASSUME NEW t \in Auth!Actors, req[t].first # 0 PROVE memory'[req[t].auth] # req[t].first
    <3>1. req[t].auth # n
      BY <1>1, <1>11 DEF Auth!TypeOK, Auth!Request
    <3>2. memory'[req[t].auth] = memory[req[t].auth]
      BY <1>8, <3>1 DEF Auth!TypeOK
    <3> QED BY <2>1, <3>2 DEF Auth!RetryInvariant
  <2> QED BY <1>3, <2>1 DEF Auth!RetryInvariant
<1>17. Auth!InvalidatedNotServed'
  <2>1. \A j : <<n, j>> \notin dead
    <3>1. \A j : <<n, j>> \in dead => <<n, j>>[1] <= owner
      BY DEF Auth!NumbersInvariant
    <3> QED BY <1>1, <3>1
  <2> QED BY <1>3, <1>9, <2>1 DEF Auth!InvalidatedNotServed
<1>18. Auth!FileServesNextStart'
  <2>1. \A j : <<n, j>> \notin dead
    <3>1. \A j : <<n, j>> \in dead => <<n, j>>[1] <= owner
      BY DEF Auth!NumbersInvariant
    <3> QED BY <1>1, <3>1
  <2> QED BY <1>3, <1>4, <1>10, <2>1 DEF Auth!FileServesNextStart, Auth!NoFile
<1> QED BY <1>12, <1>13, <1>14, <1>15, <1>16, <1>17, <1>18

LEMMA InvalidatedFacts ==
  ASSUME Auth!AuthInvariant, NEW a \in Auth!Auths, a <= owner
  PROVE  /\ \A d \in Auth!Invalidated(a) : /\ d \in Auth!Auths \X Auth!Tokens /\ d[1] = a
                                                /\ d[1] <= owner /\ d[2] <= issued
         /\ \A b, k : <<b, k>> \in Auth!Invalidated(a) => b = a
         /\ \A k : <<a, k>> \in Auth!Invalidated(a) =>
               \/ k = memory[a] \/ (owner = a /\ k = file.token)
               \/ \E t \in Auth!Actors : refresher[a] = t /\ k = req[t].token
<1> DEFINE K == ({memory[a]} \cup (IF owner = a THEN {file.token} ELSE {})
                   \cup {req[t].token : t \in {u \in Auth!Actors : refresher[a] = u}}) \ {0}
<1>1. Auth!Invalidated(a) = {a} \X K
  BY DEF Auth!Invalidated
<1>2. \A k \in K : \/ k = memory[a] \/ (owner = a /\ k = file.token)
                   \/ \E t \in Auth!Actors : refresher[a] = t /\ k = req[t].token
  OBVIOUS
<1>3. \A k \in Auth!TokenOrNone \ {0} : k \in Auth!Tokens
  BY AuthAssumption DEF Auth!TokenOrNone, Auth!Tokens, Auth!BoundAssumption
<1>4. memory[a] \in Auth!TokenOrNone /\ memory[a] <= issued
  BY DEF Auth!AuthInvariant, Auth!TypeOK, Auth!NumbersInvariant
<1>5. file.token \in Auth!TokenOrNone /\ file.token <= issued
  <2>1. CASE file = Auth!NoFile
    BY <2>1, NoRequestFacts, AuthAssumption DEF Auth!NoFile, Auth!TokenOrNone,
       Auth!BoundAssumption
  <2>2. CASE file # Auth!NoFile
    BY <2>2, AuthAssumption DEF Auth!AuthInvariant, Auth!TypeOK, Auth!NumbersInvariant,
       Auth!TokenOrNone, Auth!Tokens, Auth!BoundAssumption
  <2> QED BY <2>1, <2>2
<1>6. \A t \in Auth!Actors : req[t].token \in Auth!TokenOrNone /\ req[t].token <= issued
  BY DEF Auth!AuthInvariant, Auth!TypeOK, Auth!Request, Auth!NumbersInvariant
<1>7. \A k \in K : k \in Auth!Tokens /\ k <= issued
  <2>1. ASSUME NEW k \in K PROVE k \in Auth!TokenOrNone /\ k <= issued /\ k # 0
    BY <1>2, <1>4, <1>5, <1>6
  <2> QED BY <1>3, <2>1
<1> HIDE DEF K
<1> QED BY <1>1, <1>2, <1>7

\* An invalidation; a worker that was refused may go on.
LEMMA AuthInvalidates ==
  ASSUME Auth!AuthInvariant, NEW a \in Auth!Auths, a <= owner, Auth!Invalidate(a),
         UNCHANGED <<auth, issued>>,
         clearer' \in [step : {"idle", "wipe", "reset"}, auth : 0..MaxAuths],
             clearer'.auth <= owner,
         clearer'.step # "idle" => clearer'.auth \in Auth!Auths,
         pc' \in [Auth!Actors -> Locations], req' \in [Auth!Actors -> Auth!Request],
         \A t \in Auth!Actors : \/ pc'[t] = pc[t] /\ req'[t] = req[t]
                                \/ /\ pc[t] = "reject" /\ pc'[t] = "get"
                                        /\ req'[t].auth = req[t].auth
                                   /\ req'[t].token = 0 /\ req'[t].first = req[t].token
                                        /\ req[t].auth = a
  PROVE  Auth!AuthInvariant'
<1> USE DEF Auth!AuthInvariant
<1>1. /\ memory' = [memory EXCEPT ![a] = 0] /\ usable' = [usable EXCEPT ![a] = FALSE]
      /\ overtaken' = [overtaken EXCEPT ![a] = refresher[a] # None]
      /\ dead' = dead \cup Auth!Invalidated(a)
      /\ UNCHANGED <<owner, creds, refresher>>
  BY DEF Auth!Invalidate
<1>2. \/ a # owner /\ UNCHANGED <<file, unlinkFailed>>
      \/ file' = Auth!NoFile /\ UNCHANGED unlinkFailed
      \/ unlinkFailed' = TRUE /\ UNCHANGED file
  BY DEF Auth!Invalidate, Auth!DeleteCached
<1>3. memory'[a] = 0 /\ \A b \in Auth!Auths \ {a} : memory'[b] = memory[b]
        /\ overtaken'[b] = overtaken[b]
  BY <1>1 DEF Auth!TypeOK
<1>4. /\ \A d \in dead' : d \in dead
           \/ (d \in Auth!Auths \X Auth!Tokens /\ d[1] = a /\ d[1] <= owner /\ d[2] <= issued)
      /\ \A b, k : <<b, k>> \in dead' => <<b, k>> \in dead \/ b = a
  BY <1>1, InvalidatedFacts
<1>5. \A t \in Auth!Actors : pc'[t] \in Auth!Refreshing \/ pc[t] \in Auth!Refreshing
        => pc'[t] = pc[t] /\ req'[t] = req[t]
  BY DEF Auth!Refreshing
<1>6. Auth!TypeOK'
  <2>1. memory' \in [Auth!Auths -> Auth!TokenOrNone] /\ usable' \in [Auth!Auths -> BOOLEAN]
    BY <1>1, AuthAssumption DEF Auth!TypeOK, Auth!TokenOrNone, Auth!BoundAssumption
  <2>2. overtaken' \in [Auth!Auths -> BOOLEAN]
    BY <1>1 DEF Auth!TypeOK
  <2>3. dead' \subseteq Auth!Auths \X Auth!Tokens
    BY <1>4 DEF Auth!TypeOK
  <2>4. unlinkFailed' \in BOOLEAN
    BY <1>2 DEF Auth!TypeOK
  <2>5. file' \in [token : Auth!Tokens, cred : Credentials] \cup {Auth!NoFile}
    BY <1>2 DEF Auth!TypeOK
  <2>6. \A b \in Auth!Auths,
            t \in Auth!Actors : refresher'[b] = t <=> pc'[t] \in Auth!Refreshing
              /\ req'[t].auth = b
    BY <1>1, <1>5 DEF Auth!TypeOK
  <2> QED BY <1>1, <2>1, <2>2, <2>3, <2>4, <2>5, <2>6 DEF Auth!TypeOK, Locations
<1>7. Auth!NumbersInvariant'
  <2>1. \A b \in Auth!Auths : /\ memory'[b] <= issued /\ (b > owner => memory'[b] = 0)
                              /\ b <= owner => creds[b] # None
    BY <1>3, NoRequestFacts DEF Auth!NumbersInvariant
  <2>2. \A t \in Auth!Actors : /\ req'[t].auth <= owner
                                    /\ (pc'[t] # "idle" => req'[t].auth \in Auth!Auths)
                               /\ req'[t].token <= issued /\ req'[t].first <= issued
    BY NoRequestFacts DEF Auth!NumbersInvariant
  <2>3. file' # Auth!NoFile => file'.token <= issued
    BY <1>2 DEF Auth!NumbersInvariant
  <2>4. \A d \in dead' : d[1] <= owner /\ d[2] <= issued
    BY <1>4 DEF Auth!NumbersInvariant
  <2> QED BY <1>1, <2>1, <2>2, <2>3, <2>4 DEF Auth!NumbersInvariant
<1>8. Auth!RefreshInvariant'
  <2>1. ASSUME NEW t \in Auth!Actors, pc[t] \in Auth!Refreshing
        PROVE  /\ req[t].auth = a => overtaken'[a]
               /\ req[t].auth # a => /\ overtaken'[req[t].auth] = overtaken[req[t].auth]
                                     /\ memory'[req[t].auth] = memory[req[t].auth]
                                     /\ \A k : <<req[t].auth, k>> \in dead'
                                          => <<req[t].auth, k>> \in dead
    <3>1. req[t].auth \in Auth!Auths
      BY <2>1 DEF Auth!NumbersInvariant, Auth!Refreshing
    <3>2. req[t].auth = a => refresher[a] = t
      BY <2>1 DEF Auth!TypeOK
    <3>3. t # None
      BY AuthAssumption DEF Auth!ActorAssumption, Auth!Actors
    <3>4. req[t].auth = a => overtaken'[a]
      BY <1>1, <3>2, <3>3 DEF Auth!TypeOK
    <3> QED BY <1>3, <1>4, <3>1, <3>4
  <2>2. ASSUME NEW t \in Auth!Actors, pc'[t] \in {"publish", "save", "recheck", "drop"}
        PROVE  /\ req'[t].token \in Auth!Tokens
               /\ ~overtaken'[req'[t].auth] => <<req'[t].auth, req'[t].token>> \notin dead'
               /\ pc'[t] # "publish" /\ overtaken'[req'[t].auth] => memory'[req'[t].auth] = 0
    <3>1. pc'[t] = pc[t] /\ req'[t] = req[t] /\ pc[t] \in Auth!Refreshing
      BY <1>5, <2>2 DEF Auth!Refreshing
    <3>2. CASE req[t].auth = a
      BY <1>3, <2>1, <2>2, <3>1, <3>2 DEF Auth!RefreshInvariant
    <3>3. CASE req[t].auth # a
      BY <2>1, <2>2, <3>1, <3>3 DEF Auth!RefreshInvariant
    <3> QED BY <3>2, <3>3
  <2> QED BY <2>2 DEF Auth!RefreshInvariant
<1>9. Auth!NewTokenInvariant'
  <2>1. file'.token = file.token \/ file'.token = 0
    BY <1>2 DEF Auth!NoFile
  <2>2. ASSUME NEW u \in Auth!Actors, pc'[u] = "publish"
        PROVE  /\ pc[u] = "publish" /\ req'[u] = req[u] /\ req[u].token # 0
               /\ \A v \in Auth!Actors : req[v].token = req[u].token => v = u
    BY <1>5, <2>2, NoRequestFacts DEF Auth!NewTokenInvariant, Auth!Refreshing
  <2>3. ASSUME NEW u \in Auth!Actors, pc'[u] = "publish"
        PROVE  /\ file'.token # req'[u].token
                    /\ \A b \in Auth!Auths : memory'[b] # req'[u].token
               /\ \A v \in Auth!Actors \ {u} : req'[v].token # req'[u].token
               /\ \A v \in Auth!Actors : req'[v].first # req'[u].token
    BY <1>3, <2>1, <2>2, <2>3 DEF Auth!NewTokenInvariant
  <2> QED BY <2>3 DEF Auth!NewTokenInvariant
<1>10. Auth!RetryInvariant'
  <2>1. ASSUME NEW t \in Auth!Actors,
                   req'[t].first # 0 PROVE memory'[req'[t].auth] # req'[t].first
    <3>1. CASE pc'[t] = pc[t] /\ req'[t] = req[t]
      <4>1. req[t].auth = a \/ memory'[req[t].auth] = memory[req[t].auth]
        BY <1>1 DEF Auth!TypeOK
      <4> QED BY <1>3, <2>1, <3>1, <4>1 DEF Auth!RetryInvariant
    <3>2. CASE req'[t].auth = a
      BY <1>3, <2>1, <3>2
    <3> QED BY <3>1, <3>2
  <2> QED BY <2>1 DEF Auth!RetryInvariant
<1>11. Auth!InvalidatedNotServed'
  <2>1. \A b : <<b, 0>> \notin dead'
    <3>1. \A b, k : <<b, k>> \in Auth!Auths \X Auth!Tokens => k # 0
      BY AuthAssumption DEF Auth!Tokens, Auth!BoundAssumption
    <3> QED BY <1>6, <3>1 DEF Auth!TypeOK
  <2> QED BY <1>3, <1>4, <2>1 DEF Auth!InvalidatedNotServed
<1>12. Auth!FileServesNextStart'
  <2>1. CASE a # owner /\ UNCHANGED <<file, unlinkFailed>>
    <3>1. \A k : <<owner, k>> \in dead' => <<owner, k>> \in dead
      BY <1>4, <2>1
    <3>2. \A t \in Auth!Actors : pc[t] \in {"recheck", "drop"} => pc'[t] = pc[t]
            /\ req'[t] = req[t]
      BY <1>5 DEF Auth!Refreshing
    <3> QED BY <1>1, <2>1, <3>1, <3>2 DEF Auth!FileServesNextStart, Auth!NoFile
  <2>2. CASE file' = Auth!NoFile
    BY <2>2 DEF Auth!FileServesNextStart, Auth!NoFile
  <2>3. CASE unlinkFailed' = TRUE
    BY <2>3 DEF Auth!FileServesNextStart
  <2> QED BY <1>2, <2>1, <2>2, <2>3
<1> QED BY <1>6, <1>7, <1>8, <1>9, <1>10, <1>11, <1>12

LEMMA AuthReset ==
  ASSUME Auth!AuthInvariant, Auth!Reset
  PROVE  Auth!AuthInvariant'
<1>1. PICK a \in Auth!Auths : a = clearer.auth /\ a <= owner
  BY DEF Auth!Reset, Auth!AuthInvariant, Auth!NumbersInvariant
<1>2. Auth!Invalidate(a) /\ UNCHANGED <<auth, issued, pc, req>>
  BY <1>1 DEF Auth!Reset, Auth!threadVars
<1>3. /\ clearer' \in [step : {"idle", "wipe", "reset"}, auth : 0..MaxAuths]
           /\ clearer'.auth = 0
      /\ clearer'.step = "idle" /\ 0 <= owner
  BY AuthAssumption, NoRequestFacts DEF Auth!Reset, Auth!BoundAssumption
<1>4. pc \in [Auth!Actors -> Locations] /\ req \in [Auth!Actors -> Auth!Request]
  BY DEF Auth!AuthInvariant, Auth!TypeOK, Locations
<1> QED BY <1>1, <1>2, <1>3, <1>4, AuthInvalidates

LEMMA AuthReject ==
  ASSUME Auth!AuthInvariant, NEW w \in Workers, Auth!Reject(w)
  PROVE  Auth!AuthInvariant'
<1>1. w \in Auth!Actors /\ pc[w] = "reject" /\ pc[w] \notin Auth!Refreshing
  BY DEF Auth!Reject, Auth!Actors, Auth!Refreshing
<1>2. PICK a \in Auth!Auths : a = req[w].auth
  BY <1>1, RequestFacts
<1>3. PICK k \in Auth!Tokens : k = req[w].token /\ k <= issued
  BY <1>1, RequestFacts DEF Auth!AuthInvariant, Auth!RetryInvariant
<1>4. PICK r \in Auth!Request : r = [auth |-> a, token |-> 0, first |-> k]
  <2>1. a \in 0..MaxAuths /\ 0 \in Auth!TokenOrNone /\ k \in Auth!TokenOrNone
    BY AuthAssumption DEF Auth!TokenOrNone, Auth!Tokens, Auth!Auths, Auth!BoundAssumption
  <2> QED BY <2>1 DEF Auth!Request
<1>5. pc' = [pc EXCEPT ![w] = "get"] /\ req' = [req EXCEPT ![w] = r]
  <2>1. [Auth!RequestOf(a) EXCEPT !.first = k] = r
    BY <1>4 DEF Auth!RequestOf
  <2> QED BY <1>2, <1>3, <2>1 DEF Auth!Reject, Auth!Goto
<1>6. UNCHANGED <<auth, clearer, issued>>
  BY DEF Auth!Reject
<1>7. a <= owner /\ 0 <= issued /\ \A u \in Auth!Actors : pc[u] = "publish" => req[u].token # 0
  BY <1>1, <1>2, RequestFacts, NoRequestFacts
<1>8. CASE ~Auth!Rejects(a, k) /\ UNCHANGED <<Auth!fileVars, Auth!authVars, dead>>
  <2>1. memory[a] # k
    BY <1>8 DEF Auth!Rejects
  <2>2. \A u \in Auth!Actors \ {w} : pc[u] = "publish" => k # req[u].token
    BY <1>1, <1>3 DEF Auth!AuthInvariant, Auth!NewTokenInvariant
  <2>3. /\ r.auth <= owner /\ r.auth \in Auth!Auths /\ r.token <= issued /\ r.first <= issued
        /\ \A u \in Auth!Actors \ {w} : pc[u] = "publish" => r.token # req[u].token
             /\ r.first # req[u].token
        /\ memory[r.auth] # r.first
    BY <1>3, <1>4, <1>7, <2>1, <2>2
  <2> QED BY <1>1, <1>5, <1>6, <1>8, <2>3, AuthStep
<1>9. CASE Auth!Invalidate(a)
  <2>1. pc' \in [Auth!Actors -> Locations] /\ req' \in [Auth!Actors -> Auth!Request]
    BY <1>5 DEF Auth!AuthInvariant, Auth!TypeOK, Locations
  <2>2. /\ pc'[w] = "get" /\ req'[w] = r /\ r.auth = req[w].auth /\ r.token = 0
             /\ r.first = req[w].token
        /\ \A t \in Auth!Actors \ {w} : pc'[t] = pc[t] /\ req'[t] = req[t]
    BY <1>1, <1>2, <1>3, <1>4, <1>5 DEF Auth!AuthInvariant, Auth!TypeOK
  <2>3. \A t \in Auth!Actors : \/ pc'[t] = pc[t] /\ req'[t] = req[t]
                               \/ /\ pc[t] = "reject" /\ pc'[t] = "get"
                                       /\ req'[t].auth = req[t].auth
                                  /\ req'[t].token = 0 /\ req'[t].first = req[t].token
                                       /\ req[t].auth = a
    BY <1>1, <1>2, <2>2
  <2>4. /\ clearer' \in [step : {"idle", "wipe", "reset"}, auth : 0..MaxAuths]
             /\ clearer'.auth <= owner
        /\ clearer'.step # "idle" => clearer'.auth \in Auth!Auths
    BY <1>6 DEF Auth!AuthInvariant, Auth!TypeOK, Auth!NumbersInvariant
  <2> QED BY <1>6, <1>7, <1>9, <2>1, <2>3, <2>4, AuthInvalidates
<1> QED BY <1>2, <1>3, <1>8, <1>9 DEF Auth!Reject

LEMMA AuthNextKeeps ==
  ASSUME Auth!AuthInvariant, Auth!Next
  PROVE  Auth!AuthInvariant'
<1>1. ASSUME NEW t \in Auth!Actors, Auth!Refresh(t) PROVE Auth!AuthInvariant'
  BY <1>1, AuthLock, AuthIssue, AuthOauthFails, AuthPublish, AuthSave, AuthRecheck, AuthDrop
     DEF Auth!Refresh
<1>2. ASSUME NEW w \in Workers, Auth!Begin(w) \/ Auth!Get(w) \/ Auth!Finish(w)
               \/ Auth!Refuse(w) \/ Auth!Reject(w)
      PROVE  Auth!AuthInvariant'
  BY <1>2, AuthBegin, AuthGet, AuthEnds, AuthRefuse, AuthReject
<1>3. CASE (\E a \in Auth!Auths : Auth!Expire(a)) \/ Auth!PromoteAuth \/ Auth!BeginClear
             \/ Auth!Wipe
  BY <1>3, AuthQuiet
<1> QED BY <1>1, <1>2, <1>3, AuthCreate, AuthReset DEF Auth!Next

LEMMA AuthSame ==
  ASSUME Auth!AuthInvariant, UNCHANGED Auth!vars
  PROVE  Auth!AuthInvariant'
<1> USE DEF Auth!vars, Auth!fileVars, Auth!authVars, Auth!threadVars, Auth!AuthInvariant
<1>1. Auth!TypeOK'
  BY DEF Auth!TypeOK
<1>2. Auth!NumbersInvariant' /\ Auth!RefreshInvariant' /\ Auth!NewTokenInvariant'
        /\ Auth!RetryInvariant'
  BY DEF Auth!NumbersInvariant, Auth!RefreshInvariant, Auth!NewTokenInvariant,
     Auth!RetryInvariant
<1>3. Auth!InvalidatedNotServed' /\ Auth!FileServesNextStart'
  BY DEF Auth!InvalidatedNotServed, Auth!FileServesNextStart
<1> QED BY <1>1, <1>2, <1>3

\* Nobody but a refused request and the reset empties the memory.
LEMMA AuthDrops ==
  ASSUME Auth!AuthInvariant, Auth!Next
  PROVE  Auth!DropsOnlyRefused
<1> SUFFICES ASSUME NEW a \in Auth!Auths, memory[a] # 0, memory'[a] = 0
             PROVE  \/ \E w \in Workers : pc[w] = "reject" /\ req[w].token = memory[a]
                    \/ clearer.step = "reset" /\ clearer'.step = "idle"
  BY DEF Auth!DropsOnlyRefused
<1>1. ASSUME NEW t \in Auth!Actors, Auth!Refresh(t) PROVE FALSE
  <2>1. Auth!Publish(t) \/ Auth!Recheck(t)
    BY <1>1 DEF Auth!Refresh, Auth!Lock, Auth!Issue, Auth!OauthFails, Auth!Save, Auth!Drop,
       Auth!authVars
  <2>2. CASE Auth!Publish(t)
    <3>1. req[t].token \in Auth!Tokens
      BY <2>2 DEF Auth!Publish, Auth!AuthInvariant, Auth!RefreshInvariant
    <3>2. req[t].token # 0
      BY <3>1 DEF Auth!Tokens
    <3>3. memory' = memory \/ memory' = [memory EXCEPT ![req[t].auth] = req[t].token]
      BY <2>2 DEF Auth!Publish
    <3> QED BY <3>2, <3>3 DEF Auth!AuthInvariant, Auth!TypeOK
  <2>3. CASE Auth!Recheck(t)
    <3>1. memory' = memory
            \/ (memory' = [memory EXCEPT ![req[t].auth] = 0] /\ overtaken[req[t].auth]
                 /\ pc[t] = "recheck")
      BY <2>3 DEF Auth!Recheck
    <3>2. memory' = memory \/ memory[req[t].auth] = 0
      BY <3>1 DEF Auth!AuthInvariant, Auth!RefreshInvariant
    <3> QED BY <3>1, <3>2 DEF Auth!AuthInvariant, Auth!TypeOK
  <2> QED BY <2>1, <2>2, <2>3
<1>2. ASSUME NEW w \in Workers, Auth!Begin(w) \/ Auth!Get(w) \/ Auth!Finish(w)
               \/ Auth!Refuse(w) PROVE FALSE
  BY <1>2 DEF Auth!Begin, Auth!Get, Auth!Finish, Auth!Refuse, Auth!authVars
<1>3. ASSUME NEW w \in Workers, Auth!Reject(w)
      PROVE  pc[w] = "reject" /\ req[w].token = memory[a]
  <2>1. memory' # memory
    OBVIOUS
  <2>2. Auth!Rejects(req[w].auth, req[w].token) /\ Auth!Invalidate(req[w].auth)
          /\ pc[w] = "reject"
    BY <1>3, <2>1 DEF Auth!Reject, Auth!authVars
  <2>3. req[w].auth = a
    BY <2>2 DEF Auth!Invalidate, Auth!AuthInvariant, Auth!TypeOK
  <2> QED BY <2>2, <2>3 DEF Auth!Rejects
<1>4. ASSUME NEW b \in Auth!Auths, Auth!Expire(b) PROVE FALSE
  BY <1>4 DEF Auth!Expire
<1>5. CASE Auth!CreateAuth
  <2>1. PICK n \in Auth!Auths : n = owner + 1 /\ n > owner
    BY <1>5, AuthAssumption DEF Auth!CreateAuth, Auth!AuthInvariant, Auth!TypeOK,
       Auth!Auths, Auth!BoundAssumption
  <2>2. memory[n] = 0
    BY <2>1 DEF Auth!AuthInvariant, Auth!NumbersInvariant
  <2>3. UNCHANGED memory \/ \E k \in {0, file.token} : memory' = [memory EXCEPT ![n] = k]
    BY <1>5, <2>1 DEF Auth!CreateAuth, Auth!LoadCached
  <2>4. a # n
    BY <2>2
  <2> QED BY <2>3, <2>4 DEF Auth!AuthInvariant, Auth!TypeOK
<1>6. CASE Auth!PromoteAuth \/ Auth!BeginClear \/ Auth!Wipe
  BY <1>6 DEF Auth!PromoteAuth, Auth!BeginClear, Auth!Wipe, Auth!authVars
<1>7. CASE Auth!Reset
  BY <1>7 DEF Auth!Reset
<1> QED BY <1>1, <1>2, <1>3, <1>4, <1>5, <1>6, <1>7 DEF Auth!Next

LEMMA AuthSafe ==
  Auth!AuthInvariant => Auth!TypeOK /\ Auth!InvalidatedNotServed /\ Auth!RetryUsesNewToken
    /\ Auth!FileServesNextStart
  BY DEF Auth!AuthInvariant, Auth!RetryInvariant, Auth!RetryUsesNewToken, Auth!Actors

-----------------------------------------------------------------------------
(* CharacterCacheFile. *)

LEMMA FileSame ==
  ASSUME CacheFile!FileInvariant,
             UNCHANGED <<number, version, cleared, dirty, timer, lock, requested, closing,
                 caller,
                                    closeResult, closer, cacheFileFile, durable, wiped>>
  PROVE  CacheFile!FileInvariant'
  BY DEF CacheFile!FileInvariant, CacheFile!FileTyped, CacheFile!ClearInvariant,
     CacheFile!ClearIsDurable, CacheFile!WriterInvariant, CacheFile!Writing, CacheFile!Empty,
     CacheFile!EndInvariant, CacheFile!SaveIsScheduled, CacheFile!Ending

\* What the lock may be.
LEMMA LockCases ==
  ASSUME CacheFile!FileTyped
  PROVE  /\ lock.by \in {"none", "flush", "clear", "closer"}
         /\ lock.by = "none" <=> lock = CacheFile!Free
         /\ lock.by \in {"flush", "clear"} => CacheFile!Writing
         /\ lock.by # "none" => lock.version \in Nat /\ lock.stage \in {"look", "write"}
  BY DEF CacheFile!FileTyped, CacheFile!Free, CacheFile!Writing

LEMMA FreeNotWriting == CacheFile!Free.by = "none"
  BY DEF CacheFile!Free

LEMMA FileInit == CacheFile!Init => CacheFile!FileInvariant
<1> SUFFICES ASSUME CacheFile!Init PROVE CacheFile!FileInvariant
  OBVIOUS
<1>1. CacheFile!FileTyped
  BY DEF CacheFile!Init, CacheFile!FileTyped
<1>2. CacheFile!ClearInvariant /\ CacheFile!WriterInvariant
  BY FreeNotWriting DEF CacheFile!Init, CacheFile!ClearInvariant, CacheFile!ClearIsDurable,
     CacheFile!WriterInvariant, CacheFile!Writing
<1>3. CacheFile!EndInvariant
  BY FreeNotWriting DEF CacheFile!Init, CacheFile!EndInvariant, CacheFile!SaveIsScheduled,
     CacheFile!Ending
<1> QED BY <1>1, <1>2, <1>3 DEF CacheFile!FileInvariant

LEMMA FilePut ==
  ASSUME CacheFile!FileInvariant, CacheFile!Put \/ CacheFile!TimerFires
  PROVE  CacheFile!FileInvariant'
<1>1. CASE CacheFile!TimerFires
  <2>1. /\ timer # "none" /\ timer' # "none"
        /\ UNCHANGED <<number, version, cleared, dirty, lock, requested, closing, caller,
               closeResult, closer, cacheFileFile,
                       durable, wiped>>
    BY <1>1 DEF CacheFile!TimerFires, CacheFile!closeVars
  <2> QED BY <2>1 DEF CacheFile!FileInvariant, CacheFile!FileTyped,
         CacheFile!ClearInvariant, CacheFile!ClearIsDurable, CacheFile!WriterInvariant,
         CacheFile!Writing, CacheFile!Empty, CacheFile!EndInvariant, CacheFile!SaveIsScheduled,
         CacheFile!Ending
<1>2. CASE CacheFile!Put
  <2>1. PICK n \in Nat : n = number + 1 /\ n >= number /\ n >= cleared
    BY DEF CacheFile!FileInvariant, CacheFile!FileTyped, CacheFile!ClearInvariant
  <2>2. /\ number' = n /\ version' = n /\ dirty' = TRUE /\ timer' # "none" /\ ~CacheFile!Ending
        /\ UNCHANGED <<cleared, lock, requested, closing, caller, closeResult, closer,
               cacheFileFile, durable, wiped>>
    BY <1>2, <2>1 DEF CacheFile!Put, CacheFile!closeVars
  <2>4. closeResult # "saved"
    BY <2>2 DEF CacheFile!FileInvariant, CacheFile!EndInvariant, CacheFile!Ending
  <2> QED BY <2>1, <2>2, <2>4 DEF CacheFile!FileInvariant, CacheFile!FileTyped,
         CacheFile!ClearInvariant, CacheFile!ClearIsDurable, CacheFile!WriterInvariant,
         CacheFile!Writing, CacheFile!Empty, CacheFile!EndInvariant, CacheFile!SaveIsScheduled,
         CacheFile!Ending
<1> QED BY <1>1, <1>2

LEMMA FileFlushClaims ==
  ASSUME CacheFile!FileInvariant, CacheFile!FlushClaims
  PROVE  CacheFile!FileInvariant'
<1>1. /\ lock = CacheFile!Free
      /\ UNCHANGED <<number, version, cleared, requested, closing, caller, closeResult, closer,
             cacheFileFile, durable, wiped>>
  BY DEF CacheFile!FlushClaims, CacheFile!closeVars
<1>2. CASE requested \/ ~dirty
  <2>1. UNCHANGED <<dirty, lock>>
    BY <1>2 DEF CacheFile!FlushClaims
  <2> QED BY <1>1, <1>2, <2>1 DEF CacheFile!FileInvariant, CacheFile!FileTyped,
         CacheFile!ClearInvariant, CacheFile!ClearIsDurable, CacheFile!WriterInvariant,
         CacheFile!Writing, CacheFile!Empty, CacheFile!EndInvariant, CacheFile!SaveIsScheduled,
         CacheFile!Ending, CacheFile!Free
<1>3. CASE ~requested /\ dirty
  <2>1. dirty' = FALSE /\ lock' = [by |-> "flush", stage |-> "write", version |-> version]
    BY <1>3 DEF CacheFile!FlushClaims, CacheFile!Holds
  <2>2. lock'.by = "flush" /\ lock'.stage = "write" /\ lock'.version = version
    BY <2>1
  <2>3. lock.by = "none" /\ closer # "working" /\ closeResult = "none"
    BY <1>1, <1>3 DEF CacheFile!FileInvariant, CacheFile!EndInvariant, CacheFile!Free
  <2>4. CacheFile!FileTyped'
    BY <1>1, <2>1 DEF CacheFile!FileInvariant, CacheFile!FileTyped
  <2> QED BY <1>1, <1>3, <2>1, <2>2, <2>3, <2>4 DEF CacheFile!FileInvariant,
         CacheFile!ClearInvariant, CacheFile!ClearIsDurable, CacheFile!WriterInvariant,
         CacheFile!Writing, CacheFile!Empty, CacheFile!EndInvariant, CacheFile!SaveIsScheduled,
         CacheFile!Ending
<1> QED BY <1>2, <1>3

\* A flush or a clear has tried to write.
LEMMA FileSettles ==
  ASSUME CacheFile!FileInvariant, lock.by \in {"flush", "clear"}, NEW ok \in BOOLEAN,
             CacheFile!Settle(ok), lock' = CacheFile!Free,
         UNCHANGED <<number, version, cleared, requested, closing, caller, closeResult, closer,
             durable>>,
         \/ ok /\ CacheFile!WriteFile
         \/ ~ok /\ UNCHANGED <<cacheFileFile, wiped>>
  PROVE  CacheFile!FileInvariant'
<1>1. CacheFile!Writing /\ lock.version \in Nat /\ lock.version >= cleared
  BY LockCases DEF CacheFile!FileInvariant, CacheFile!ClearInvariant
<1>2. dirty' \in BOOLEAN /\ dirty' = (dirty \/ (~ok /\ lock.version = version))
  BY DEF CacheFile!Settle, CacheFile!Current, CacheFile!FileInvariant, CacheFile!FileTyped
<1>3. cacheFileFile' \in {cacheFileFile, lock.version} /\ wiped' \in BOOLEAN
  BY DEF CacheFile!WriteFile, CacheFile!FileInvariant, CacheFile!FileTyped
<1>4. CacheFile!FileTyped'
  BY <1>1, <1>2, <1>3 DEF CacheFile!FileInvariant, CacheFile!FileTyped
<1>5. CacheFile!ClearInvariant'
  BY <1>1, <1>2, <1>3, FreeNotWriting DEF CacheFile!FileInvariant, CacheFile!FileTyped,
     CacheFile!ClearInvariant, CacheFile!ClearIsDurable, CacheFile!Writing
<1>6. ~CacheFile!Writing'
  BY FreeNotWriting DEF CacheFile!Writing
<1>7. ~dirty' => cacheFileFile' = version \/ version = cleared \/ wiped'
  BY <1>1, <1>2 DEF CacheFile!FileInvariant, CacheFile!WriterInvariant, CacheFile!WriteFile
<1>8. CacheFile!WriterInvariant'
  BY <1>6, <1>7, FreeNotWriting DEF CacheFile!WriterInvariant, CacheFile!Empty
<1>9. CacheFile!EndInvariant'
  <2>1. dirty' /\ ~CacheFile!Ending' => timer' # "none"
    BY DEF CacheFile!Settle, CacheFile!Ending
  <2>2. closeResult = "none" /\ closer # "working"
    BY FreeNotWriting DEF CacheFile!FileInvariant, CacheFile!EndInvariant
  <2> QED BY <2>1, <2>2, FreeNotWriting DEF CacheFile!FileInvariant, CacheFile!EndInvariant,
         CacheFile!SaveIsScheduled, CacheFile!Ending
<1> QED BY <1>4, <1>5, <1>8, <1>9 DEF CacheFile!FileInvariant

LEMMA FileFlushWrites ==
  ASSUME CacheFile!FileInvariant, CacheFile!FlushWrites
  PROVE  CacheFile!FileInvariant'
<1>1. lock.by = "flush" /\ lock' = CacheFile!Free
  BY DEF CacheFile!FlushWrites
<1>2. UNCHANGED <<number, version, cleared, requested, closing, caller, closeResult, closer,
          durable>>
  BY DEF CacheFile!FlushWrites, CacheFile!closeVars
<1>3. (CacheFile!WriteFile /\ CacheFile!Settle(TRUE))
        \/ (CacheFile!Settle(FALSE) /\ UNCHANGED <<cacheFileFile, wiped>>)
  BY DEF CacheFile!FlushWrites
<1> QED BY <1>1, <1>2, <1>3, FileSettles

LEMMA FileClearClaims ==
  ASSUME CacheFile!FileInvariant, CacheFile!ClearClaims
  PROVE  CacheFile!FileInvariant'
<1>1. lock = CacheFile!Free
        /\ UNCHANGED <<requested, closing, caller, closeResult, closer, cacheFileFile, durable,
               wiped>>
  BY DEF CacheFile!ClearClaims, CacheFile!closeVars
<1>2. CASE CacheFile!Ending
  BY <1>1, <1>2, FileSame DEF CacheFile!ClearClaims, CacheFile!memory
<1>3. CASE ~CacheFile!Ending
  <2>1. PICK n \in Nat : n = number + 1 /\ n >= number /\ n >= cleared
    BY DEF CacheFile!FileInvariant, CacheFile!FileTyped, CacheFile!ClearInvariant
  <2>2. /\ number' = n /\ version' = n /\ cleared' = n /\ dirty' = FALSE
        /\ lock' = [by |-> "clear", stage |-> "write", version |-> n]
    BY <1>3, <2>1 DEF CacheFile!ClearClaims
  <2>3. lock'.by = "clear" /\ lock'.stage = "write" /\ lock'.version = n
    BY <2>2
  <2>4. CacheFile!FileTyped'
    BY <1>1, <2>2 DEF CacheFile!FileInvariant, CacheFile!FileTyped
  <2>5. closer # "working" /\ closeResult = "none"
    BY <1>1, <1>3 DEF CacheFile!FileInvariant, CacheFile!EndInvariant, CacheFile!Ending,
       CacheFile!Free
  <2>6. CacheFile!ClearInvariant'
    BY <1>1, <2>1, <2>2, <2>3, <2>4 DEF CacheFile!FileInvariant, CacheFile!FileTyped,
       CacheFile!ClearInvariant, CacheFile!ClearIsDurable
  <2>7. CacheFile!WriterInvariant'
    BY <2>2, <2>3 DEF CacheFile!WriterInvariant, CacheFile!Writing, CacheFile!Empty
  <2>8. CacheFile!EndInvariant'
    BY <1>1, <2>2, <2>3, <2>5 DEF CacheFile!FileInvariant, CacheFile!EndInvariant,
       CacheFile!SaveIsScheduled, CacheFile!Ending
  <2> QED BY <2>4, <2>6, <2>7, <2>8 DEF CacheFile!FileInvariant
<1> QED BY <1>2, <1>3

LEMMA FileClearWrites ==
  ASSUME CacheFile!FileInvariant, CacheFile!ClearWrites
  PROVE  CacheFile!FileInvariant'
<1>1. lock.by = "clear" /\ lock' = CacheFile!Free
      /\ UNCHANGED <<number, version, cleared, requested, closing, caller, closeResult, closer>>
  BY DEF CacheFile!ClearWrites, CacheFile!closeVars
<1>2. CASE CacheFile!Settle(FALSE) /\ UNCHANGED <<cacheFileFile, wiped, durable>>
  BY <1>1, <1>2, FileSettles
<1>3. CASE CacheFile!Erase /\ durable' = lock.version /\ UNCHANGED <<dirty, timer>>
  <2>1. CacheFile!Writing /\ lock.version \in Nat /\ lock.version = cleared
    BY <1>1, LockCases DEF CacheFile!FileInvariant, CacheFile!WriterInvariant
  <2>2. cacheFileFile' \in {0, lock.version} /\ wiped' = FALSE
    BY <1>3 DEF CacheFile!Erase, CacheFile!WriteFile
  <2>8. cacheFileFile' \in Nat /\ durable' \in Nat
    BY <1>3, <2>1, <2>2
  <2>9. wiped' \in BOOLEAN
    BY <2>2
  <2>3. CacheFile!FileTyped'
    BY <1>1, <1>3, <2>8, <2>9 DEF CacheFile!FileInvariant, CacheFile!FileTyped
  <2>4. CacheFile!ClearInvariant'
    BY <1>1, <1>3, <2>1, <2>2, FreeNotWriting DEF CacheFile!FileInvariant,
       CacheFile!FileTyped, CacheFile!ClearInvariant, CacheFile!ClearIsDurable,
       CacheFile!Writing
  <2>5. CacheFile!WriterInvariant'
    BY <1>1, <1>3, FreeNotWriting DEF CacheFile!FileInvariant, CacheFile!WriterInvariant,
       CacheFile!Writing, CacheFile!Empty
  <2>6. closeResult = "none" /\ closer # "working"
          /\ (dirty /\ ~CacheFile!Ending => timer # "none")
    BY <1>1, FreeNotWriting DEF CacheFile!FileInvariant, CacheFile!EndInvariant
  <2>7. CacheFile!EndInvariant'
    BY <1>1, <1>3, <2>6, FreeNotWriting DEF CacheFile!FileInvariant, CacheFile!EndInvariant,
       CacheFile!SaveIsScheduled, CacheFile!Ending
  <2> QED BY <2>3, <2>4, <2>5, <2>7 DEF CacheFile!FileInvariant
<1> QED BY <1>2, <1>3 DEF CacheFile!ClearWrites

LEMMA FileWipe ==
  ASSUME CacheFile!FileInvariant, CacheFile!Wipe
  PROVE  CacheFile!FileInvariant'
<1>1. UNCHANGED <<number, version, cleared, dirty, timer, lock, requested, closing, caller,
          closeResult, closer>>
  BY DEF CacheFile!Wipe, CacheFile!memory, CacheFile!closeVars
<1>2. CASE UNCHANGED <<cacheFileFile, durable, wiped>>
  BY <1>1, <1>2, FileSame
<1>3. CASE cacheFileFile' = 0 /\ durable' = cleared /\ wiped' = (wiped \/ cacheFileFile # 0)
  <2>1. wiped' \in BOOLEAN /\ cacheFileFile' \in Nat /\ durable' \in Nat
    BY <1>3 DEF CacheFile!FileInvariant, CacheFile!FileTyped
  <2>2. CacheFile!FileTyped'
    BY <1>1, <2>1 DEF CacheFile!FileInvariant, CacheFile!FileTyped
  <2>3. CacheFile!ClearInvariant'
    BY <1>1, <1>3 DEF CacheFile!FileInvariant, CacheFile!FileTyped,
       CacheFile!ClearInvariant, CacheFile!ClearIsDurable, CacheFile!Writing
  <2>4. CacheFile!WriterInvariant'
    BY <1>1, <1>3 DEF CacheFile!FileInvariant, CacheFile!WriterInvariant, CacheFile!Writing,
       CacheFile!Empty
  <2>5. CacheFile!EndInvariant'
    BY <1>1 DEF CacheFile!FileInvariant, CacheFile!EndInvariant, CacheFile!SaveIsScheduled,
       CacheFile!Ending
  <2> QED BY <2>2, <2>3, <2>4, <2>5 DEF CacheFile!FileInvariant
<1> QED BY <1>2, <1>3 DEF CacheFile!Wipe

LEMMA FileClose ==
  ASSUME CacheFile!FileInvariant, CacheFile!Close \/ CacheFile!CloseProceeds
           \/ CacheFile!CloseReturns
  PROVE  CacheFile!FileInvariant'
<1>1. CASE CacheFile!Close
  BY <1>1 DEF CacheFile!Close, CacheFile!memory, CacheFile!FileInvariant,
     CacheFile!FileTyped, CacheFile!ClearInvariant, CacheFile!ClearIsDurable,
     CacheFile!WriterInvariant, CacheFile!Writing, CacheFile!Empty, CacheFile!EndInvariant,
     CacheFile!SaveIsScheduled, CacheFile!Ending
<1>2. CASE CacheFile!CloseProceeds
  <2>1. /\ UNCHANGED <<number, version, cleared, dirty, lock, requested, closeResult,
               cacheFileFile, durable, wiped>>
        /\ requested
    BY <1>2 DEF CacheFile!CloseProceeds, CacheFile!FileInvariant, CacheFile!EndInvariant
  <2>2. CASE UNCHANGED <<timer, late, closing, closer>>
    BY <2>1, <2>2 DEF CacheFile!FileInvariant, CacheFile!FileTyped,
       CacheFile!ClearInvariant, CacheFile!ClearIsDurable, CacheFile!WriterInvariant,
       CacheFile!Writing, CacheFile!Empty, CacheFile!EndInvariant, CacheFile!SaveIsScheduled,
       CacheFile!Ending
  <2>3. CASE closing' = TRUE /\ closeResult = "none" /\ closer = "none"
               /\ closer' \in {"none", "waiting"}
    BY <2>1, <2>3 DEF CacheFile!FileInvariant, CacheFile!FileTyped,
       CacheFile!ClearInvariant, CacheFile!ClearIsDurable, CacheFile!WriterInvariant,
       CacheFile!Writing, CacheFile!Empty, CacheFile!EndInvariant, CacheFile!SaveIsScheduled,
       CacheFile!Ending
  <2> QED BY <1>2, <2>2, <2>3 DEF CacheFile!CloseProceeds
<1>3. CASE CacheFile!CloseReturns
  BY <1>3 DEF CacheFile!CloseReturns, CacheFile!memory, CacheFile!FileInvariant,
     CacheFile!FileTyped, CacheFile!ClearInvariant, CacheFile!ClearIsDurable,
     CacheFile!WriterInvariant, CacheFile!Writing, CacheFile!Empty, CacheFile!EndInvariant,
     CacheFile!SaveIsScheduled, CacheFile!Ending
<1> QED BY <1>1, <1>2, <1>3

LEMMA FileWorkerLocks ==
  ASSUME CacheFile!FileInvariant, CacheFile!WorkerLocks
  PROVE  CacheFile!FileInvariant'
<1>1. /\ closer = "waiting"
      /\ UNCHANGED <<number, version, cleared, dirty, timer, requested, closing, caller,
             closeResult, cacheFileFile, durable, wiped>>
  BY DEF CacheFile!WorkerLocks, CacheFile!memory
<1>2. CASE closer' = "none" /\ UNCHANGED lock
  BY <1>1, <1>2 DEF CacheFile!FileInvariant, CacheFile!FileTyped, CacheFile!ClearInvariant,
     CacheFile!ClearIsDurable, CacheFile!WriterInvariant, CacheFile!Writing, CacheFile!Empty,
     CacheFile!EndInvariant, CacheFile!SaveIsScheduled, CacheFile!Ending
<1>3. CASE lock = CacheFile!Free /\ lock' = CacheFile!Holds("closer", "look")
             /\ closer' = "working"
  <2>1. lock' = [by |-> "closer", stage |-> "look", version |-> version]
    BY <1>3 DEF CacheFile!Holds
  <2>2. lock'.by = "closer" /\ lock'.stage = "look" /\ lock.by = "none"
    BY <1>3, <2>1, FreeNotWriting
  <2>3. CacheFile!FileTyped'
    BY <1>1, <2>1 DEF CacheFile!FileInvariant, CacheFile!FileTyped
  <2> QED BY <1>1, <1>3, <2>2, <2>3 DEF CacheFile!FileInvariant, CacheFile!ClearInvariant,
         CacheFile!ClearIsDurable, CacheFile!WriterInvariant, CacheFile!Writing,
             CacheFile!Empty,
         CacheFile!EndInvariant, CacheFile!SaveIsScheduled, CacheFile!Ending
<1> QED BY <1>2, <1>3 DEF CacheFile!WorkerLocks

\* The worker ends, having saved what there was or given up.
LEMMA FileWorkerEnds ==
  ASSUME CacheFile!FileInvariant, lock.by = "closer", NEW result, CacheFile!WorkerEnds(result),
         result = "saved" => ~dirty',
         UNCHANGED <<number, version, cleared, timer, requested, closing, caller, durable>>,
         dirty' \in BOOLEAN, dirty' => version >= cleared,
         cacheFileFile' \in Nat, cacheFileFile' = 0
           \/ cacheFileFile' >= durable, wiped' \in BOOLEAN,
         ~dirty' => cacheFileFile' = version \/ CacheFile!Empty \/ wiped'
  PROVE  CacheFile!FileInvariant'
<1>1. closer' = "none" /\ lock' = CacheFile!Free /\ closeResult' = result
  BY DEF CacheFile!WorkerEnds
<1>2. closing /\ requested
  BY DEF CacheFile!FileInvariant, CacheFile!EndInvariant
<1>3. CacheFile!FileTyped'
  BY <1>1 DEF CacheFile!FileInvariant, CacheFile!FileTyped
<1> QED BY <1>1, <1>2, <1>3, FreeNotWriting DEF CacheFile!FileInvariant,
       CacheFile!ClearInvariant, CacheFile!ClearIsDurable, CacheFile!WriterInvariant,
       CacheFile!Writing, CacheFile!Empty, CacheFile!EndInvariant, CacheFile!SaveIsScheduled,
       CacheFile!Ending

\* It goes on with what the cache holds now.
LEMMA FileWorkerGoesOn ==
  ASSUME CacheFile!FileInvariant, lock.by = "closer", NEW l \in {"look", "write"},
             CacheFile!WorkerGoesOn(l),
         UNCHANGED <<number, version, cleared, timer, requested, closing, caller, durable>>,
         dirty' \in BOOLEAN, dirty' => version >= cleared,
         cacheFileFile' \in Nat, cacheFileFile' = 0
           \/ cacheFileFile' >= durable, wiped' \in BOOLEAN,
         l = "write" => version >= cleared,
         l = "look" /\ ~dirty' => cacheFileFile' = version \/ CacheFile!Empty \/ wiped'
  PROVE  CacheFile!FileInvariant'
<1>1. UNCHANGED <<closer, closeResult>>
        /\ lock' = [by |-> "closer", stage |-> l, version |-> version]
  BY DEF CacheFile!WorkerGoesOn, CacheFile!Holds
<1>2. lock'.by = "closer" /\ lock'.stage = l /\ lock'.version = version
  BY <1>1
<1>3. closing /\ requested /\ closeResult = "none"
  BY FreeNotWriting DEF CacheFile!FileInvariant, CacheFile!EndInvariant
<1>4. CacheFile!FileTyped'
  BY <1>1 DEF CacheFile!FileInvariant, CacheFile!FileTyped
<1> QED BY <1>1, <1>2, <1>3, <1>4 DEF CacheFile!FileInvariant, CacheFile!ClearInvariant,
       CacheFile!ClearIsDurable, CacheFile!WriterInvariant, CacheFile!Writing, CacheFile!Empty,
       CacheFile!EndInvariant, CacheFile!SaveIsScheduled, CacheFile!Ending

LEMMA FileWorkerLooks ==
  ASSUME CacheFile!FileInvariant, CacheFile!WorkerLooks
  PROVE  CacheFile!FileInvariant'
<1>1. /\ lock.by = "closer" /\ lock.stage = "look"
      /\ UNCHANGED <<number, version, cleared, timer, requested, closing, caller,
             cacheFileFile, durable, wiped>>
  BY DEF CacheFile!WorkerLooks
<1>2. /\ dirty \in BOOLEAN /\ cacheFileFile \in Nat /\ wiped \in BOOLEAN
           /\ (dirty => version >= cleared)
      /\ cacheFileFile = 0 \/ cacheFileFile >= durable
      /\ ~dirty => cacheFileFile = version \/ CacheFile!Empty \/ wiped
  BY <1>1 DEF CacheFile!FileInvariant, CacheFile!FileTyped, CacheFile!ClearInvariant,
     CacheFile!ClearIsDurable, CacheFile!WriterInvariant, CacheFile!Writing
<1>3. closeResult # "saved"
  BY <1>1, FreeNotWriting DEF CacheFile!FileInvariant, CacheFile!EndInvariant
<1>4. CASE ~dirty /\ CacheFile!WorkerEnds("saved") /\ UNCHANGED dirty
  BY <1>1, <1>2, <1>4, FileWorkerEnds
<1>5. CASE CacheFile!WorkerEnds(closeResult) /\ UNCHANGED dirty
  BY <1>1, <1>2, <1>3, <1>5, FileWorkerEnds
<1>6. CASE dirty /\ dirty' = FALSE /\ CacheFile!WorkerGoesOn("write")
  BY <1>1, <1>2, <1>6, FileWorkerGoesOn
<1> QED BY <1>4, <1>5, <1>6 DEF CacheFile!WorkerLooks

LEMMA FileWorkerWrites ==
  ASSUME CacheFile!FileInvariant, CacheFile!WorkerWrites
  PROVE  CacheFile!FileInvariant'
<1>1. /\ lock.by = "closer" /\ lock.stage = "write"
      /\ UNCHANGED <<number, version, cleared, timer, requested, closing, caller, durable>>
  BY DEF CacheFile!WorkerWrites
<1>2. /\ dirty \in BOOLEAN /\ cacheFileFile \in Nat /\ wiped \in BOOLEAN
           /\ (dirty => version >= cleared)
      /\ cacheFileFile = 0 \/ cacheFileFile >= durable
      /\ lock.version \in Nat /\ lock.version >= cleared /\ lock.version >= durable
      /\ ~dirty => lock.version = version
  BY <1>1, LockCases DEF CacheFile!FileInvariant, CacheFile!FileTyped,
     CacheFile!ClearInvariant, CacheFile!ClearIsDurable, CacheFile!WriterInvariant,
     CacheFile!Writing
<1>3. closeResult # "saved"
  BY <1>1, FreeNotWriting DEF CacheFile!FileInvariant, CacheFile!EndInvariant
<1>4. CacheFile!Redirty => dirty' = TRUE /\ version >= cleared
  BY <1>2 DEF CacheFile!Redirty, CacheFile!Current
<1>5. CASE CacheFile!WorkerEnds(closeResult) /\ CacheFile!Redirty
             /\ UNCHANGED <<cacheFileFile, wiped>>
  BY <1>1, <1>2, <1>3, <1>4, <1>5, FileWorkerEnds
<1>6. CASE /\ CacheFile!WriteFile /\ UNCHANGED dirty
           /\ IF ~dirty THEN CacheFile!WorkerEnds("saved") ELSE CacheFile!WorkerGoesOn("look")
                \/ CacheFile!WorkerEnds(closeResult)
  <2>1. cacheFileFile' = lock.version /\ wiped' = FALSE
    BY <1>6 DEF CacheFile!WriteFile
  <2>2. CASE ~dirty
    BY <1>1, <1>2, <1>6, <2>1, <2>2, FileWorkerEnds
  <2>3. CASE dirty /\ CacheFile!WorkerGoesOn("look")
    BY <1>1, <1>2, <1>6, <2>1, <2>3, FileWorkerGoesOn
  <2>4. CASE dirty /\ CacheFile!WorkerEnds(closeResult)
    BY <1>1, <1>2, <1>3, <1>6, <2>1, <2>4, FileWorkerEnds
  <2> QED BY <1>6, <2>2, <2>3, <2>4
<1>7. CASE CacheFile!Redirty /\ UNCHANGED <<cacheFileFile, wiped>>
             /\ CacheFile!WorkerEnds("failed")
  BY <1>1, <1>2, <1>4, <1>7, FileWorkerEnds
<1>8. CASE CacheFile!Redirty /\ UNCHANGED <<cacheFileFile, wiped>>
             /\ CacheFile!WorkerGoesOn("look")
  BY <1>1, <1>2, <1>4, <1>8, FileWorkerGoesOn
<1> QED BY <1>5, <1>6, <1>7, <1>8 DEF CacheFile!WorkerWrites

LEMMA FileRestart ==
  ASSUME CacheFile!FileInvariant, CacheFile!Restart
  PROVE  CacheFile!FileInvariant'
  BY DEF CacheFile!Restart, CacheFile!FileInvariant, CacheFile!FileTyped,
     CacheFile!ClearInvariant, CacheFile!ClearIsDurable, CacheFile!WriterInvariant,
     CacheFile!Writing, CacheFile!Empty, CacheFile!EndInvariant, CacheFile!SaveIsScheduled,
     CacheFile!Ending, CacheFile!Free

LEMMA FileNextKeeps ==
  ASSUME CacheFile!FileInvariant, CacheFile!Next
  PROVE  CacheFile!FileInvariant'
<1>1. CASE CacheFile!ClearBegins
  BY <1>1, FileSame DEF CacheFile!ClearBegins, CacheFile!memory, CacheFile!closeVars
<1> QED BY <1>1, FilePut, FileFlushClaims, FileFlushWrites, FileClearClaims,
       FileClearWrites, FileWipe, FileClose, FileWorkerLocks, FileWorkerLooks, FileWorkerWrites,
       FileRestart DEF CacheFile!Next

LEMMA FileSafe == CacheFile!FileInvariant => CacheFile!ClearIsDurable
  /\ CacheFile!CloseIsDurable /\ CacheFile!SaveIsScheduled
  BY FreeNotWriting DEF CacheFile!FileInvariant, CacheFile!ClearInvariant,
     CacheFile!WriterInvariant, CacheFile!EndInvariant, CacheFile!Writing,
     CacheFile!CloseIsDurable

-----------------------------------------------------------------------------
(* StartupShortcut. *)

LEMMA ShortcutInit == Shortcut!Init => Shortcut!ShortcutInvariant
  BY DEF Shortcut!Init, Shortcut!Nothing, Shortcut!Unknown, Shortcut!ShortcutInvariant,
     Shortcut!ThreadInvariant, Shortcut!CurrentInvariant, Shortcut!BeliefInvariant,
     Shortcut!AnswerInvariant, Shortcut!Good, Shortcut!CloseInvariant, Shortcut!Quiet,
     Shortcut!AtWork, Shortcut!ShuttingDown

\* A thread that moves on, and the others that stay.
LEMMA ShortcutBecome ==
  ASSUME Shortcut!ThreadInvariant, NEW w \in workers,
             NEW l \in {"configure", "record", "failed"}, Shortcut!Become(w, l)
  PROVE  /\ \A v \in workers' : v.gen # w.gen => v \in workers
         /\ \A v \in workers' : v.gen = w.gen =>
               v = [gen |-> w.gen, on |-> w.on, restore |-> w.restore, stage |-> l]
         /\ \E v \in workers' : v.gen = w.gen
         /\ \A v \in workers : v.gen # w.gen => v \in workers'
         /\ workers' \subseteq [gen : 1..wanted.gen, on : {"on", "off"}, restore : BOOLEAN,
                                stage : {"waiting", "configure", "record", "failed"}]
<1>1. w \in [gen : 1..wanted.gen, on : {"on", "off"}, restore : BOOLEAN,
              stage : {"waiting", "configure", "record", "failed"}]
  BY DEF Shortcut!ThreadInvariant
<1>2. [w EXCEPT !.stage = l] = [gen |-> w.gen, on |-> w.on, restore |-> w.restore, stage |-> l]
  BY <1>1
<1>3. workers' = (workers \ {w}) \cup {[gen |-> w.gen, on |-> w.on, restore |-> w.restore,
          stage |-> l]}
  BY <1>2 DEF Shortcut!Become
<1>4. \A v \in workers \ {w} : v.gen # w.gen
  BY DEF Shortcut!ThreadInvariant
<1>5. workers \subseteq [gen : 1..wanted.gen, on : {"on", "off"}, restore : BOOLEAN,
                         stage : {"waiting", "configure", "record", "failed"}]
  BY DEF Shortcut!ThreadInvariant
<1>6. \A v \in workers' : v.gen # w.gen => v \in workers
  BY <1>3
<1>7. \A v \in workers' : v.gen = w.gen =>
          v = [gen |-> w.gen, on |-> w.on, restore |-> w.restore, stage |-> l]
  BY <1>3, <1>4
<1>8. \E v \in workers' : v.gen = w.gen
  <2>1. [gen |-> w.gen, on |-> w.on, restore |-> w.restore, stage |-> l] \in workers'
    BY <1>3
  <2> QED BY <2>1
<1>9. \A v \in workers : v.gen # w.gen => v \in workers'
  BY <1>3
<1>10. workers' \subseteq [gen : 1..wanted.gen, on : {"on", "off"}, restore : BOOLEAN,
                           stage : {"waiting", "configure", "record", "failed"}]
  BY <1>1, <1>3, <1>5
<1> QED BY <1>6, <1>7, <1>8, <1>9, <1>10

LEMMA ShortcutRequest ==
  ASSUME Shortcut!ShortcutInvariant, NEW on \in {"on", "off"}, NEW restore \in BOOLEAN,
             Shortcut!Request(on, restore)
  PROVE  Shortcut!ShortcutInvariant'
<1> USE DEF Shortcut!Request
<1>1. PICK g \in Nat : g = wanted.gen + 1 /\ g > wanted.gen /\ g >= 1 /\ g # wanted.gen
  BY DEF Shortcut!ShortcutInvariant, Shortcut!ThreadInvariant
<1>2. PICK r \in BOOLEAN : r = (on = "on" /\ restore)
  OBVIOUS
<1>3. wanted' = [gen |-> g, on |-> on, restore |-> r] /\ g <= MaxRequests
        /\ ~Shortcut!ShuttingDown /\ ~Shortcut!ShuttingDown'
  BY <1>1, <1>2 DEF Shortcut!ShuttingDown
<1>4. /\ UNCHANGED <<shortcut, applied, holder, notices, shortcutClosing>>
      /\ \/ /\ workers' = workers \cup {[gen |-> g, on |-> on, restore |-> r,
                   stage |-> "waiting"]}
            /\ UNCHANGED told
         \/ told' = [gen |-> g, ok |-> FALSE] /\ UNCHANGED workers
  BY <1>1, <1>2, <1>3
<1>5. \A w \in workers : w.gen \in 1..wanted.gen /\ w.gen # g
  BY <1>1 DEF Shortcut!ShortcutInvariant, Shortcut!ThreadInvariant
<1>6. Shortcut!ThreadInvariant'
  <2>1. wanted' \in [gen : Nat, on : {Shortcut!Unknown, "on", "off"}, restore : BOOLEAN]
    BY <1>3
  <2>2. \A w \in workers' : w \in [gen : 1..g, on : {"on", "off"}, restore : BOOLEAN,
                          stage : {"waiting", "configure", "record", "failed"}]
    <3>1. \A w \in workers : w \in [gen : 1..g, on : {"on", "off"}, restore : BOOLEAN,
                          stage : {"waiting", "configure", "record", "failed"}]
      BY <1>1 DEF Shortcut!ShortcutInvariant, Shortcut!ThreadInvariant
    <3> QED BY <3>1, <1>1, <1>4
  <2>3. \A v, w \in workers' : v.gen = w.gen => v = w
    BY <1>4, <1>5 DEF Shortcut!ShortcutInvariant, Shortcut!ThreadInvariant
  <2>4. \A w \in workers' : w.gen <= MaxRequests /\ (Shortcut!AtWork(w) => holder' = w.gen)
    BY <1>3, <1>4 DEF Shortcut!ShortcutInvariant, Shortcut!ThreadInvariant, Shortcut!AtWork
  <2> QED BY <2>1, <2>2, <2>3, <2>4, <1>3 DEF Shortcut!ThreadInvariant
<1>7. Shortcut!CurrentInvariant'
  BY <1>3, <1>4, <1>5 DEF Shortcut!ShortcutInvariant, Shortcut!CurrentInvariant,
     Shortcut!Current
<1>8. Shortcut!BeliefInvariant'
  BY <1>4 DEF Shortcut!ShortcutInvariant, Shortcut!BeliefInvariant
<1>9. Shortcut!AnswerInvariant'
  <2>1. told'.gen \in 0..g /\ \A n \in notices' : n.gen \in 1..g
    BY <1>1, <1>4 DEF Shortcut!ShortcutInvariant, Shortcut!AnswerInvariant,
       Shortcut!ThreadInvariant
  <2>2. \A n \in notices' \cup {told'} : ~(n.ok /\ n.gen = g)
    BY <1>1, <1>4 DEF Shortcut!ShortcutInvariant, Shortcut!AnswerInvariant,
       Shortcut!ThreadInvariant
  <2> QED BY <2>1, <2>2, <1>3 DEF Shortcut!AnswerInvariant, Shortcut!Good
<1>10. Shortcut!CloseInvariant'
  BY <1>3, <1>4 DEF Shortcut!ShortcutInvariant, Shortcut!CloseInvariant,
     Shortcut!ShuttingDown, Shortcut!Unknown, Shortcut!Quiet, Shortcut!AtWork
<1> QED BY <1>6, <1>7, <1>8, <1>9, <1>10 DEF Shortcut!ShortcutInvariant

LEMMA ShortcutBegin ==
  ASSUME Shortcut!ShortcutInvariant, NEW w \in workers, Shortcut!Begin(w)
  PROVE  Shortcut!ShortcutInvariant'
<1>1. w.stage = "waiting" /\ holder = Shortcut!Nobody
        /\ UNCHANGED <<shortcut, wanted, applied, notices, told, shortcutClosing>>
  BY DEF Shortcut!Begin
<1>2. \A v \in workers : v.gen \in Nat /\ v.gen > 0
  BY DEF Shortcut!ShortcutInvariant, Shortcut!ThreadInvariant
<1>3. Shortcut!Quiet
  BY <1>1, <1>2 DEF Shortcut!ShortcutInvariant, Shortcut!ThreadInvariant, Shortcut!Quiet,
     Shortcut!Nobody
<1>4. CASE ~Shortcut!Current(w.gen)
  <2>1. workers' = workers \ {w} /\ holder' = Shortcut!Nobody
    BY <1>4 DEF Shortcut!Begin, Shortcut!Leave
  <2> QED BY <1>1, <1>3, <2>1 DEF Shortcut!ShortcutInvariant, Shortcut!ThreadInvariant,
         Shortcut!CurrentInvariant, Shortcut!BeliefInvariant, Shortcut!AnswerInvariant,
         Shortcut!CloseInvariant, Shortcut!Good, Shortcut!Quiet, Shortcut!AtWork,
             Shortcut!Current,
         Shortcut!ShuttingDown, Shortcut!Nobody
<1>5. CASE Shortcut!Current(w.gen)
  <2>1. PICK l \in {"configure", "record"} : Shortcut!Become(w, l) /\ holder' = w.gen
               /\ (l = "record" => applied = w.on)
    BY <1>5 DEF Shortcut!Begin, Shortcut!NeedsConfigure
  <2>2. /\ \A v \in workers' : v.gen # w.gen => v \in workers
        /\ \A v \in workers' : v.gen = w.gen =>
               v = [gen |-> w.gen, on |-> w.on, restore |-> w.restore, stage |-> l]
        /\ \E v \in workers' : v.gen = w.gen
        /\ workers' \subseteq [gen : 1..wanted.gen, on : {"on", "off"}, restore : BOOLEAN,
                                stage : {"waiting", "configure", "record", "failed"}]
    BY <2>1, ShortcutBecome DEF Shortcut!ShortcutInvariant
  <2>3. Shortcut!ThreadInvariant'
    <3>1. \A v, u \in workers' : v.gen = u.gen => v = u
      BY <2>2 DEF Shortcut!ShortcutInvariant, Shortcut!ThreadInvariant
    <3>2. \A v \in workers' : v.gen <= MaxRequests /\ (Shortcut!AtWork(v) => holder' = v.gen)
      BY <2>1, <2>2, <1>3 DEF Shortcut!ShortcutInvariant, Shortcut!ThreadInvariant,
         Shortcut!Quiet, Shortcut!AtWork
    <3> QED BY <3>1, <3>2, <2>2, <1>1 DEF Shortcut!ShortcutInvariant,
           Shortcut!ThreadInvariant
  <2>4. Shortcut!CurrentInvariant'
    BY <1>1, <2>2 DEF Shortcut!ShortcutInvariant, Shortcut!CurrentInvariant,
       Shortcut!Current, Shortcut!ShuttingDown
  <2>5. Shortcut!BeliefInvariant'
    <3>1. applied \in {Shortcut!Unknown, shortcut}
      BY <1>3 DEF Shortcut!ShortcutInvariant, Shortcut!BeliefInvariant, Shortcut!Quiet,
         Shortcut!AtWork
    <3>2. l = "record" => shortcut = w.on
      BY <2>1, <3>1 DEF Shortcut!ShortcutInvariant, Shortcut!ThreadInvariant,
         Shortcut!Unknown
    <3> QED BY <1>1, <1>3, <2>2, <3>1, <3>2 DEF Shortcut!BeliefInvariant, Shortcut!Quiet,
           Shortcut!AtWork
  <2>6. Shortcut!AnswerInvariant'
    <3>1. \A n \in notices \cup {told} : ~Shortcut!Good(n)
      BY <1>5 DEF Shortcut!ShortcutInvariant, Shortcut!AnswerInvariant, Shortcut!Current
    <3> QED BY <1>1, <3>1 DEF Shortcut!ShortcutInvariant, Shortcut!AnswerInvariant,
           Shortcut!Good
  <2>7. Shortcut!CloseInvariant'
    BY <1>1, <1>5 DEF Shortcut!ShortcutInvariant, Shortcut!CloseInvariant, Shortcut!Current,
       Shortcut!ShuttingDown, Shortcut!Unknown
  <2> QED BY <2>3, <2>4, <2>5, <2>6, <2>7 DEF Shortcut!ShortcutInvariant
<1> QED BY <1>4, <1>5

\* The thread at work is the only one, and nothing good has been said since its request.
LEMMA ShortcutAlone ==
  ASSUME Shortcut!ShortcutInvariant, NEW w \in workers, Shortcut!AtWork(w)
  PROVE  /\ holder = w.gen /\ w.gen \in Nat /\ w.gen > 0 /\ holder # Shortcut!Nobody
              /\ holder # Shortcut!Closer
         /\ \A v \in workers : Shortcut!AtWork(v) => v = w
         /\ \A n \in notices \cup {told} : ~Shortcut!Good(n)
         /\ shortcutClosing.stage \notin {"configure", "approve", "done"}
              /\ shortcutClosing.result # "ok"
         /\ wanted.on \in {"on", "off"} /\ w.on \in {"on", "off"}
<1>1. holder = w.gen /\ w.gen \in Nat /\ w.gen > 0 /\ w.gen <= MaxRequests
        /\ w.on \in {"on", "off"}
  BY DEF Shortcut!ShortcutInvariant, Shortcut!ThreadInvariant
<1>2. holder # Shortcut!Closer /\ holder # Shortcut!Nobody
  BY <1>1, ShortcutAssumption DEF Shortcut!RequestsAssumption, Shortcut!Closer,
     Shortcut!Nobody
<1>3. \A v \in workers : Shortcut!AtWork(v) => v = w
  BY <1>1 DEF Shortcut!ShortcutInvariant, Shortcut!ThreadInvariant
<1>4. \A n \in notices \cup {told} : ~Shortcut!Good(n)
  BY DEF Shortcut!ShortcutInvariant, Shortcut!AnswerInvariant
<1>5. shortcutClosing.stage \notin {"configure", "approve", "done"}
        /\ shortcutClosing.result # "ok"
  BY DEF Shortcut!ShortcutInvariant, Shortcut!CloseInvariant, Shortcut!Quiet
<1>6. wanted.on \in {"on", "off"}
  BY DEF Shortcut!ShortcutInvariant, Shortcut!CloseInvariant, Shortcut!ThreadInvariant,
     Shortcut!Unknown
<1> QED BY <1>1, <1>2, <1>3, <1>4, <1>5, <1>6

\* It moves on and keeps the lock.
LEMMA ShortcutMoves ==
  ASSUME Shortcut!ShortcutInvariant, NEW w \in workers, Shortcut!AtWork(w),
             NEW l \in {"configure", "record", "failed"},
         Shortcut!Become(w, l), UNCHANGED <<wanted, holder, notices, told, shortcutClosing>>,
         l = "record" => shortcut' = w.on,
         l # "record" => applied' \in {Shortcut!Unknown, shortcut'}
  PROVE  Shortcut!ShortcutInvariant'
<1>1. /\ \A v \in workers' : v.gen # w.gen => v \in workers
      /\ \A v \in workers' : v.gen = w.gen =>
             v = [gen |-> w.gen, on |-> w.on, restore |-> w.restore, stage |-> l]
      /\ \E v \in workers' : v.gen = w.gen
      /\ workers' \subseteq [gen : 1..wanted.gen, on : {"on", "off"}, restore : BOOLEAN,
                              stage : {"waiting", "configure", "record", "failed"}]
  BY ShortcutBecome DEF Shortcut!ShortcutInvariant
<1>2. /\ holder = w.gen /\ \A v \in workers : Shortcut!AtWork(v) => v = w
      /\ \A n \in notices \cup {told} : ~Shortcut!Good(n)
      /\ shortcutClosing.stage \notin {"configure", "approve", "done"}
           /\ shortcutClosing.result # "ok"
      /\ wanted.on \in {"on", "off"}
  BY ShortcutAlone
<1>3. Shortcut!ThreadInvariant'
  <2>1. \A v, u \in workers' : v.gen = u.gen => v = u
    BY <1>1 DEF Shortcut!ShortcutInvariant, Shortcut!ThreadInvariant
  <2>2. \A v \in workers' : v.gen <= MaxRequests /\ (Shortcut!AtWork(v) => holder' = v.gen)
    BY <1>1, <1>2 DEF Shortcut!ShortcutInvariant, Shortcut!ThreadInvariant, Shortcut!AtWork
  <2> QED BY <2>1, <2>2, <1>1 DEF Shortcut!ShortcutInvariant, Shortcut!ThreadInvariant
<1>4. Shortcut!CurrentInvariant'
  BY <1>1 DEF Shortcut!ShortcutInvariant, Shortcut!CurrentInvariant, Shortcut!Current,
     Shortcut!ShuttingDown
<1>5. Shortcut!BeliefInvariant'
  BY <1>1, <1>2 DEF Shortcut!BeliefInvariant, Shortcut!AtWork
<1>6. Shortcut!AnswerInvariant'
  BY <1>2 DEF Shortcut!ShortcutInvariant, Shortcut!AnswerInvariant, Shortcut!Good
<1>7. Shortcut!CloseInvariant'
  BY <1>2 DEF Shortcut!ShortcutInvariant, Shortcut!CloseInvariant, Shortcut!Unknown
<1> QED BY <1>3, <1>4, <1>5, <1>6, <1>7 DEF Shortcut!ShortcutInvariant

\* It ends and leaves the lock, with or without a notice.
LEMMA ShortcutLeaves ==
  ASSUME Shortcut!ShortcutInvariant, NEW w \in workers, Shortcut!AtWork(w), Shortcut!Leave(w),
         UNCHANGED <<shortcut, told, shortcutClosing>>,
             applied' \in {Shortcut!Unknown, shortcut},
         NEW r \in BOOLEAN, wanted' = [gen |-> wanted.gen, on |-> wanted.on, restore |-> r],
         Shortcut!Current(w.gen) \/ r = wanted.restore,
         \/ UNCHANGED notices
         \/ Shortcut!Current(w.gen) /\ Shortcut!Notify(w, FALSE)
         \/ Shortcut!Current(w.gen) /\ Shortcut!Notify(w, TRUE) /\ shortcut = wanted.on
  PROVE  Shortcut!ShortcutInvariant'
<1>1. workers' = workers \ {w} /\ holder' = Shortcut!Nobody
  BY DEF Shortcut!Leave
<1>2. /\ holder = w.gen /\ w.gen \in Nat /\ w.gen > 0 /\ \A v \in workers : Shortcut!AtWork(v)
           => v = w
      /\ \A n \in notices \cup {told} : ~Shortcut!Good(n)
      /\ shortcutClosing.stage \notin {"configure", "approve", "done"}
           /\ shortcutClosing.result # "ok"
      /\ wanted.on \in {"on", "off"}
  BY ShortcutAlone
<1>3. Shortcut!Quiet'
  BY <1>1, <1>2 DEF Shortcut!Quiet, Shortcut!AtWork
<1>4. \A v \in workers' : v.gen # w.gen /\ v \in workers
  BY <1>1 DEF Shortcut!ShortcutInvariant, Shortcut!ThreadInvariant
<1>5. Shortcut!ThreadInvariant'
  <2>1. wanted' \in [gen : Nat, on : {Shortcut!Unknown, "on", "off"}, restore : BOOLEAN]
    BY DEF Shortcut!ShortcutInvariant, Shortcut!ThreadInvariant
  <2>2. \A v \in workers' : v \in [gen : 1..wanted'.gen, on : {"on", "off"}, restore : BOOLEAN,
                              stage : {"waiting", "configure", "record", "failed"}]
    BY <1>4 DEF Shortcut!ShortcutInvariant, Shortcut!ThreadInvariant
  <2> QED BY <2>1, <2>2, <1>3, <1>4 DEF Shortcut!ShortcutInvariant,
         Shortcut!ThreadInvariant, Shortcut!Quiet
<1>6. Shortcut!CurrentInvariant'
  BY <1>4 DEF Shortcut!ShortcutInvariant, Shortcut!CurrentInvariant, Shortcut!Current,
     Shortcut!ShuttingDown
<1>7. Shortcut!BeliefInvariant'
  BY <1>3 DEF Shortcut!BeliefInvariant, Shortcut!Quiet, Shortcut!AtWork
<1>8. Shortcut!AnswerInvariant'
  <2>1. w.gen \in 1..wanted.gen
    BY DEF Shortcut!ShortcutInvariant, Shortcut!ThreadInvariant
  <2>2. told'.gen \in 0..wanted'.gen /\ \A n \in notices' : n.gen \in 1..wanted'.gen
    BY <2>1 DEF Shortcut!ShortcutInvariant, Shortcut!AnswerInvariant, Shortcut!Notify
  <2>3. ASSUME NEW n \in notices' \cup {told'}, n.ok, n.gen = wanted'.gen, n.gen > 0
        PROVE  Shortcut!Current(w.gen) /\ shortcut = wanted.on
    BY <1>2, <2>3 DEF Shortcut!Good, Shortcut!Notify
  <2> QED BY <2>2, <2>3, <1>3, <1>4 DEF Shortcut!AnswerInvariant, Shortcut!Good,
         Shortcut!Current, Shortcut!ShuttingDown, Shortcut!Quiet
<1>9. Shortcut!CloseInvariant'
  BY <1>2 DEF Shortcut!ShortcutInvariant, Shortcut!CloseInvariant, Shortcut!Unknown
<1> QED BY <1>5, <1>6, <1>7, <1>8, <1>9 DEF Shortcut!ShortcutInvariant

LEMMA ShortcutWork ==
  ASSUME Shortcut!ShortcutInvariant, NEW w \in workers, Shortcut!Configure(w)
           \/ Shortcut!Record(w) \/ Shortcut!Failed(w)
  PROVE  Shortcut!ShortcutInvariant'
<1> DEFINE Same == wanted' = [gen |-> wanted.gen, on |-> wanted.on, restore |-> wanted.restore]
<1>0. /\ wanted = [gen |-> wanted.gen, on |-> wanted.on, restore |-> wanted.restore]
      /\ wanted.restore \in BOOLEAN
  BY DEF Shortcut!ShortcutInvariant, Shortcut!ThreadInvariant
<1>1. CASE Shortcut!Configure(w)
  <2>1. Shortcut!AtWork(w)
          /\ UNCHANGED <<wanted, applied, holder, notices, told, shortcutClosing>>
    BY <1>1 DEF Shortcut!Configure, Shortcut!AtWork
  <2>2. CASE shortcut' = w.on /\ Shortcut!Become(w, "record")
    BY <2>1, <2>2, ShortcutMoves
  <2>3. CASE UNCHANGED shortcut /\ Shortcut!Become(w, "failed")
    <3>1. \A v \in workers : v.stage # "record"
      BY <1>1, <2>1, ShortcutAlone DEF Shortcut!AtWork, Shortcut!Configure
    <3>2. applied \in {Shortcut!Unknown, shortcut}
      BY <3>1 DEF Shortcut!ShortcutInvariant, Shortcut!BeliefInvariant
    <3> QED BY <2>1, <2>3, <3>2, ShortcutMoves
  <2> QED BY <1>1, <2>2, <2>3 DEF Shortcut!Configure
<1>2. CASE Shortcut!Record(w)
  <2>1. Shortcut!AtWork(w) /\ UNCHANGED <<shortcut, told, shortcutClosing>> /\ applied' = w.on
          /\ shortcut = w.on
    BY <1>2 DEF Shortcut!Record, Shortcut!AtWork, Shortcut!ShortcutInvariant,
       Shortcut!BeliefInvariant
  <2>2. CASE ~Shortcut!Current(w.gen) /\ Shortcut!Leave(w) /\ UNCHANGED <<wanted, notices>>
    BY <2>1, <2>2, <1>0, ShortcutLeaves
  <2>3. CASE Shortcut!Current(w.gen) /\ Shortcut!Notify(w, TRUE) /\ Shortcut!Leave(w)
               /\ UNCHANGED wanted
    BY <2>1, <2>3, <1>0, ShortcutLeaves DEF Shortcut!ShortcutInvariant,
       Shortcut!CurrentInvariant
  <2>4. CASE /\ Shortcut!Current(w.gen) /\ Shortcut!Notify(w, TRUE) /\ Shortcut!Leave(w)
             /\ wanted' = [wanted EXCEPT !.restore = FALSE]
    <3>1. wanted' = [gen |-> wanted.gen, on |-> wanted.on, restore |-> FALSE]
      BY <1>0, <2>4
    <3> QED BY <2>1, <2>4, <3>1, ShortcutLeaves DEF Shortcut!ShortcutInvariant,
           Shortcut!CurrentInvariant
  <2>5. CASE Shortcut!Become(w, "failed") /\ UNCHANGED <<wanted, notices, holder>>
    BY <2>1, <2>5, ShortcutMoves
  <2> QED BY <1>2, <2>2, <2>3, <2>4, <2>5 DEF Shortcut!Record
<1>3. CASE Shortcut!Failed(w)
  <2>1. Shortcut!AtWork(w) /\ Shortcut!Leave(w)
          /\ UNCHANGED <<shortcut, wanted, applied, told, shortcutClosing>>
    BY <1>3 DEF Shortcut!Failed, Shortcut!AtWork
  <2>2. UNCHANGED notices \/ (Shortcut!Current(w.gen) /\ Shortcut!Notify(w, FALSE))
    BY <1>3 DEF Shortcut!Failed
  <2>3. \A v \in workers : v.stage # "record"
    BY <1>3, <2>1, ShortcutAlone DEF Shortcut!AtWork, Shortcut!Failed
  <2>4. applied' \in {Shortcut!Unknown, shortcut}
    BY <2>1, <2>3 DEF Shortcut!ShortcutInvariant, Shortcut!BeliefInvariant
  <2> QED BY <2>1, <2>2, <2>4, <1>0, ShortcutLeaves
<1> QED BY <1>1, <1>2, <1>3

LEMMA ShortcutDeliver ==
  ASSUME Shortcut!ShortcutInvariant, Shortcut!Deliver
  PROVE  Shortcut!ShortcutInvariant'
<1>1. /\ UNCHANGED <<shortcut, wanted, applied, workers, holder, shortcutClosing>>
      /\ notices' \subseteq notices /\ told' \in notices \cup {told}
  BY DEF Shortcut!Deliver
<1>2. Shortcut!AnswerInvariant'
  <2>1. told'.gen \in 0..wanted.gen /\ \A n \in notices' : n.gen \in 1..wanted.gen
    BY <1>1 DEF Shortcut!ShortcutInvariant, Shortcut!AnswerInvariant
  <2>2. \A n \in notices' \cup {told'} : n \in notices \cup {told}
    BY <1>1
  <2> QED BY <1>1, <2>1, <2>2 DEF Shortcut!ShortcutInvariant, Shortcut!AnswerInvariant,
         Shortcut!Good, Shortcut!AtWork, Shortcut!ShuttingDown
<1> QED BY <1>1, <1>2 DEF Shortcut!ShortcutInvariant, Shortcut!ThreadInvariant,
       Shortcut!CurrentInvariant, Shortcut!BeliefInvariant, Shortcut!CloseInvariant,
       Shortcut!Quiet, Shortcut!AtWork, Shortcut!Current, Shortcut!ShuttingDown

LEMMA ShortcutClose ==
  ASSUME Shortcut!ShortcutInvariant, Shortcut!Close
  PROVE  Shortcut!ShortcutInvariant'
<1>1. /\ UNCHANGED <<shortcut, applied, workers, holder, notices, told>>
      /\ shortcutClosing' = IF Shortcut!NeedsReconciliation THEN [stage |-> "reconcile",
             result |-> "none"]
                    ELSE [stage |-> "closed", result |-> "ok"]
  BY DEF Shortcut!Close
<1>2. PICK g \in Nat : g = wanted.gen + 1 /\ g > wanted.gen
  BY DEF Shortcut!ShortcutInvariant, Shortcut!ThreadInvariant
<1>3. wanted' = [gen |-> g, on |-> wanted.on, restore |-> wanted.restore]
  BY <1>2 DEF Shortcut!Close, Shortcut!ShortcutInvariant, Shortcut!ThreadInvariant
<1>4. Shortcut!ThreadInvariant'
  <2>1. \A v \in workers : v \in [gen : 1..g, on : {"on", "off"}, restore : BOOLEAN,
                              stage : {"waiting", "configure", "record", "failed"}]
    BY <1>2 DEF Shortcut!ShortcutInvariant, Shortcut!ThreadInvariant
  <2>2. wanted' \in [gen : Nat, on : {Shortcut!Unknown, "on", "off"}, restore : BOOLEAN]
    BY <1>3 DEF Shortcut!ShortcutInvariant, Shortcut!ThreadInvariant
  <2> QED BY <1>1, <1>3, <2>1, <2>2 DEF Shortcut!ShortcutInvariant,
         Shortcut!ThreadInvariant, Shortcut!AtWork
<1>5. Shortcut!CurrentInvariant'
  BY <1>1 DEF Shortcut!CurrentInvariant, Shortcut!Current, Shortcut!ShuttingDown
<1>6. Shortcut!BeliefInvariant'
  BY <1>1 DEF Shortcut!ShortcutInvariant, Shortcut!BeliefInvariant
<1>7. Shortcut!AnswerInvariant'
  <2>1. told'.gen \in 0..g /\ \A n \in notices' : n.gen \in 1..g
    BY <1>1, <1>2 DEF Shortcut!ShortcutInvariant, Shortcut!AnswerInvariant,
       Shortcut!ThreadInvariant
  <2>2. \A n \in notices' \cup {told'} : n.gen # g
    BY <1>1, <1>2 DEF Shortcut!ShortcutInvariant, Shortcut!AnswerInvariant,
       Shortcut!ThreadInvariant
  <2> QED BY <1>3, <2>1, <2>2 DEF Shortcut!AnswerInvariant, Shortcut!Good
<1>8. Shortcut!CloseInvariant'
  <2>1. CASE Shortcut!NeedsReconciliation
    BY <1>1, <1>3, <2>1 DEF Shortcut!ShortcutInvariant, Shortcut!CloseInvariant
  <2>2. CASE ~Shortcut!NeedsReconciliation
    <3>1. workers = {}
      BY <2>2 DEF Shortcut!NeedsReconciliation, Shortcut!ShortcutInvariant,
         Shortcut!CloseInvariant
    <3>2. wanted.on = Shortcut!Unknown \/ shortcut = wanted.on
      BY <2>2, <3>1 DEF Shortcut!NeedsReconciliation, Shortcut!ShortcutInvariant,
         Shortcut!BeliefInvariant
    <3> QED BY <1>1, <1>3, <2>2, <3>1, <3>2 DEF Shortcut!CloseInvariant, Shortcut!Quiet
  <2> QED BY <2>1, <2>2
<1> QED BY <1>4, <1>5, <1>6, <1>7, <1>8 DEF Shortcut!ShortcutInvariant

\* The thread of close.
LEMMA ShortcutReconciles ==
  ASSUME Shortcut!ShortcutInvariant, Shortcut!Reconcile \/ Shortcut!ReconcileConfigure
           \/ Shortcut!ReconcileApproval
  PROVE  Shortcut!ShortcutInvariant'
<1>1. UNCHANGED <<workers, notices, told>> /\ Shortcut!ShuttingDown /\ Shortcut!ShuttingDown'
  BY DEF Shortcut!Reconcile, Shortcut!ReconcileConfigure, Shortcut!ReconcileApproval,
     Shortcut!ShuttingDown, Shortcut!ShortcutInvariant, Shortcut!CloseInvariant
<1>2. Shortcut!Quiet
  BY DEF Shortcut!Reconcile, Shortcut!ReconcileConfigure, Shortcut!ReconcileApproval,
     Shortcut!ShortcutInvariant, Shortcut!CloseInvariant, Shortcut!ThreadInvariant,
     Shortcut!Quiet, Shortcut!Nobody
<1>3. /\ wanted'.gen = wanted.gen /\ wanted'.on = wanted.on
      /\ wanted' \in [gen : Nat, on : {Shortcut!Unknown, "on", "off"}, restore : BOOLEAN]
  BY DEF Shortcut!Reconcile, Shortcut!ReconcileConfigure, Shortcut!ReconcileApproval,
     Shortcut!ShortcutInvariant, Shortcut!ThreadInvariant
<1>4. applied \in {Shortcut!Unknown, shortcut}
  BY <1>2 DEF Shortcut!ShortcutInvariant, Shortcut!BeliefInvariant, Shortcut!Quiet,
     Shortcut!AtWork
<1>5. applied' \in {Shortcut!Unknown, shortcut'}
  BY <1>4 DEF Shortcut!Reconcile, Shortcut!ReconcileConfigure, Shortcut!ReconcileApproval
<1>6. /\ shortcutClosing.result # "ok"
      /\ shortcutClosing'.stage \in {"configure", "approve", "done"}
           /\ shortcutClosing'.result # "ok"
      /\ shortcutClosing'.stage \in {"configure", "approve"} => holder' = Shortcut!Closer
  <2>1. shortcutClosing.result # "ok"
    BY DEF Shortcut!Reconcile, Shortcut!ReconcileConfigure, Shortcut!ReconcileApproval,
       Shortcut!ShortcutInvariant, Shortcut!CloseInvariant
  <2> QED BY <2>1 DEF Shortcut!Reconcile, Shortcut!ReconcileConfigure,
         Shortcut!ReconcileApproval, Shortcut!ShortcutInvariant, Shortcut!CloseInvariant
<1>7. Shortcut!ThreadInvariant'
  BY <1>1, <1>2, <1>3 DEF Shortcut!ShortcutInvariant, Shortcut!ThreadInvariant,
     Shortcut!Quiet, Shortcut!AtWork
<1>8. Shortcut!CurrentInvariant'
  BY <1>1 DEF Shortcut!CurrentInvariant, Shortcut!Current
<1>9. Shortcut!BeliefInvariant'
  BY <1>1, <1>2, <1>5 DEF Shortcut!BeliefInvariant, Shortcut!Quiet, Shortcut!AtWork
<1>10. Shortcut!AnswerInvariant'
  BY <1>1, <1>3 DEF Shortcut!ShortcutInvariant, Shortcut!AnswerInvariant, Shortcut!Good
<1>11. shortcutClosing' \in [stage : {"open", "reconcile", "configure", "approve", "done",
           "closed"},
                   result : {"none", "ok", "error", "timeout"}]
  BY DEF Shortcut!Reconcile, Shortcut!ReconcileConfigure, Shortcut!ReconcileApproval,
     Shortcut!ShortcutInvariant, Shortcut!CloseInvariant
<1>12. Shortcut!CloseInvariant'
  BY <1>1, <1>2, <1>3, <1>6, <1>11 DEF Shortcut!ShortcutInvariant, Shortcut!CloseInvariant,
     Shortcut!Quiet, Shortcut!AtWork
<1> QED BY <1>7, <1>8, <1>9, <1>10, <1>12 DEF Shortcut!ShortcutInvariant

\* The answer of close.
LEMMA ShortcutAnswers ==
  ASSUME Shortcut!ShortcutInvariant, Shortcut!DeadlinePasses \/ Shortcut!GivesUp
           \/ Shortcut!CloseReturns
  PROVE  Shortcut!ShortcutInvariant'
<1>1. /\ UNCHANGED <<shortcut, wanted, applied, workers, holder, notices, told>>
      /\ Shortcut!ShuttingDown /\ Shortcut!ShuttingDown'
  BY DEF Shortcut!DeadlinePasses, Shortcut!GivesUp, Shortcut!CloseReturns,
     Shortcut!ShuttingDown, Shortcut!ShortcutInvariant, Shortcut!CloseInvariant
<1>2. Shortcut!CloseInvariant'
  <2>1. CASE Shortcut!DeadlinePasses
    BY <1>1, <2>1 DEF Shortcut!DeadlinePasses, Shortcut!ShortcutInvariant,
       Shortcut!CloseInvariant, Shortcut!Quiet, Shortcut!AtWork
  <2>2. CASE Shortcut!GivesUp
    BY <1>1, <2>2 DEF Shortcut!GivesUp, Shortcut!ShortcutInvariant, Shortcut!CloseInvariant,
       Shortcut!Quiet, Shortcut!AtWork
  <2>3. CASE Shortcut!CloseReturns
    <3>1. Shortcut!Quiet /\ applied \in {Shortcut!Unknown, shortcut}
            /\ shortcutClosing.result # "ok"
      BY <2>3 DEF Shortcut!CloseReturns, Shortcut!ShortcutInvariant,
         Shortcut!CloseInvariant, Shortcut!BeliefInvariant, Shortcut!Quiet, Shortcut!AtWork
    <3>2. shortcutClosing'.stage = "closed"
            /\ (shortcutClosing'.result = "ok" => applied = wanted.on)
      BY <2>3, <3>1 DEF Shortcut!CloseReturns, Shortcut!Reached
    <3>3. shortcutClosing' \in [stage : {"closed"}, result : {"none", "ok", "error", "timeout"}]
      BY <2>3 DEF Shortcut!CloseReturns, Shortcut!ShortcutInvariant, Shortcut!CloseInvariant
    <3> QED BY <1>1, <3>1, <3>2, <3>3 DEF Shortcut!ShortcutInvariant,
           Shortcut!CloseInvariant, Shortcut!Quiet, Shortcut!AtWork
  <2> QED BY <2>1, <2>2, <2>3
<1>3. Shortcut!ThreadInvariant' /\ Shortcut!CurrentInvariant' /\ Shortcut!BeliefInvariant'
  BY <1>1 DEF Shortcut!ShortcutInvariant, Shortcut!ThreadInvariant,
     Shortcut!CurrentInvariant, Shortcut!BeliefInvariant, Shortcut!AtWork, Shortcut!Current
<1>4. Shortcut!AnswerInvariant'
  BY <1>1 DEF Shortcut!ShortcutInvariant, Shortcut!AnswerInvariant, Shortcut!Good
<1> QED BY <1>2, <1>3, <1>4 DEF Shortcut!ShortcutInvariant

LEMMA ShortcutSame ==
  ASSUME Shortcut!ShortcutInvariant,
             UNCHANGED <<shortcut, wanted, applied, workers, holder, notices, told,
                 shortcutClosing>>
  PROVE  Shortcut!ShortcutInvariant'
  BY DEF Shortcut!ShortcutInvariant, Shortcut!ThreadInvariant, Shortcut!CurrentInvariant,
     Shortcut!BeliefInvariant, Shortcut!AnswerInvariant, Shortcut!Good,
     Shortcut!CloseInvariant, Shortcut!Quiet, Shortcut!AtWork, Shortcut!Current,
     Shortcut!ShuttingDown

LEMMA ShortcutNextKeeps ==
  ASSUME Shortcut!ShortcutInvariant, Shortcut!Next
  PROVE  Shortcut!ShortcutInvariant'
<1>1. ASSUME NEW on \in {"on", "off"}, NEW restore \in BOOLEAN, Shortcut!Request(on, restore)
      PROVE  Shortcut!ShortcutInvariant'
  BY <1>1, ShortcutRequest
<1>2. CASE Shortcut!Refuse
  BY <1>2, ShortcutSame DEF Shortcut!Refuse
<1>3. ASSUME NEW w \in workers, Shortcut!Begin(w) \/ Shortcut!Configure(w)
               \/ Shortcut!Record(w) \/ Shortcut!Failed(w)
      PROVE  Shortcut!ShortcutInvariant'
  BY <1>3, ShortcutBegin, ShortcutWork
<1>4. CASE Shortcut!Deliver
  BY <1>4, ShortcutDeliver
<1>5. CASE Shortcut!Close
  BY <1>5, ShortcutClose
<1>6. CASE Shortcut!Reconcile \/ Shortcut!ReconcileConfigure \/ Shortcut!ReconcileApproval
  BY <1>6, ShortcutReconciles
<1>7. CASE Shortcut!DeadlinePasses \/ Shortcut!GivesUp \/ Shortcut!CloseReturns
  BY <1>7, ShortcutAnswers
<1> QED BY <1>1, <1>2, <1>3, <1>4, <1>5, <1>6, <1>7 DEF Shortcut!Next, Shortcut!Work

\* Nobody but the thread of the last request, or close, approves the start.
LEMMA ApprovesAsAsked ==
  ASSUME Shortcut!ShortcutInvariant, Shortcut!Next
  PROVE  Shortcut!ApprovesOnRequest
<1> SUFFICES ASSUME ~approved, approved' PROVE wanted.on = "on" /\ wanted.restore
  BY DEF Shortcut!ApprovesOnRequest
<1>1. ASSUME NEW w \in workers, Shortcut!Record(w) PROVE wanted.on = "on" /\ wanted.restore
  <2>1. Shortcut!Current(w.gen) /\ w.restore /\ shortcut = "on"
    BY <1>1 DEF Shortcut!Record, Shortcut!Approve
  <2>2. shortcut = w.on
    BY <1>1 DEF Shortcut!Record, Shortcut!ShortcutInvariant, Shortcut!BeliefInvariant
  <2> QED BY <2>1, <2>2 DEF Shortcut!ShortcutInvariant, Shortcut!CurrentInvariant
<1>2. CASE Shortcut!ReconcileApproval
  BY <1>2 DEF Shortcut!ReconcileApproval
<1>3. ASSUME NEW w \in workers, Shortcut!Begin(w) \/ Shortcut!Configure(w)
               \/ Shortcut!Failed(w) PROVE FALSE
  BY <1>3 DEF Shortcut!Begin, Shortcut!Configure, Shortcut!Failed
<1>4. ASSUME NEW on \in {"on", "off"}, NEW restore \in BOOLEAN,
                 Shortcut!Request(on, restore) PROVE FALSE
  BY <1>4 DEF Shortcut!Request
<1> QED BY <1>1, <1>2, <1>3, <1>4 DEF Shortcut!Next, Shortcut!Work, Shortcut!Refuse,
       Shortcut!Deliver, Shortcut!Close, Shortcut!Reconcile, Shortcut!ReconcileConfigure,
       Shortcut!DeadlinePasses, Shortcut!GivesUp, Shortcut!CloseReturns

LEMMA ShortcutSafe == Shortcut!ShortcutInvariant => Shortcut!AnswersAreTrue
  BY DEF Shortcut!ShortcutInvariant, Shortcut!AnswerInvariant, Shortcut!CloseInvariant,
     Shortcut!Good, Shortcut!AnswersAreTrue, Shortcut!Quiet, Shortcut!AtWork

-----------------------------------------------------------------------------
(* The sum. *)

LEMMA StepOfPart ==
  ASSUME [Next]_vars
  PROVE  /\ part' = part
         /\ part = "coalescing" => [Coalescing!Next]_CoalescingVars
         /\ part = "auth" => [Auth!Next]_AuthVars
         /\ part = "cacheFile" => [CacheFile!Next]_CacheFileVars
         /\ part = "shortcut" => [Shortcut!Next]_ShortcutVars
  BY DEF vars, Next, CoalescingNext, AuthNext, CacheFileNext, ShortcutNext, AddonNext, WindowNext

\* The inductive invariant of each part holds whenever that part runs.
LEMMA AuthHolds == Spec => [](part = "auth" => Auth!AuthInvariant)
<1> DEFINE I == part = "auth" => Auth!AuthInvariant
<1>1. Init => I
  BY AuthInit DEF Init
<1>2. I /\ [Next]_vars => I'
  <2>1. Auth!AuthInvariant /\ UNCHANGED AuthVars => Auth!AuthInvariant'
    BY AuthSame DEF AuthVars, Auth!vars, Auth!fileVars, Auth!authVars, Auth!threadVars
  <2> QED BY <2>1, StepOfPart, AuthNextKeeps
<1> QED BY <1>1, <1>2, PTL DEF Spec

LEMMA CacheFilePartHolds == Spec => [](part = "cacheFile" => CacheFile!FileInvariant)
<1> DEFINE I == part = "cacheFile" => CacheFile!FileInvariant
<1>1. Init => I
  BY FileInit DEF Init
<1>2. I /\ [Next]_vars => I'
  <2>1. CacheFile!FileInvariant /\ UNCHANGED CacheFileVars => CacheFile!FileInvariant'
    BY FileSame DEF CacheFileVars
  <2> QED BY <2>1, StepOfPart, FileNextKeeps
<1> QED BY <1>1, <1>2, PTL DEF Spec

LEMMA ShortcutHolds == Spec => [](part = "shortcut" => Shortcut!ShortcutInvariant)
<1> DEFINE I == part = "shortcut" => Shortcut!ShortcutInvariant
<1>1. Init => I
  BY ShortcutInit DEF Init
<1>2. I /\ [Next]_vars => I'
  <2>1. Shortcut!ShortcutInvariant /\ UNCHANGED ShortcutVars => Shortcut!ShortcutInvariant'
    BY ShortcutSame DEF ShortcutVars
  <2> QED BY <2>1, StepOfPart, ShortcutNextKeeps
<1> QED BY <1>1, <1>2, PTL DEF Spec

\* However many auths, tokens and threads there are, and however refreshes, refusals, new
\* credentials and a reset cross: one refresh at a time for an auth, a token that was
\* invalidated, or asked for before an invalidation, serves no further request, and a
\* second attempt does not meet the token refused to the first.
THEOREM InvalidTokensServeNobody == Spec => []TokensAreLive
<1>1. (part = "auth" => Auth!AuthInvariant) => TokensAreLive
  BY AuthSafe DEF TokensAreLive
<1> QED BY <1>1, AuthHolds, PTL

\* The token file holds a live token of the newest credentials, unless it could not be
\* deleted, or the refresh that wrote it has still to look again.
THEOREM TokenFileIsFit == Spec => []TokenFileServes
<1>1. (part = "auth" => Auth!AuthInvariant) => TokenFileServes
  BY AuthSafe DEF TokenFileServes
<1> QED BY <1>1, AuthHolds, PTL

\* However often saves, failing writes, clears, calls of close and crashes meet: what was
\* cleared does not come back, what close reported as saved is on disk, and unsaved answers
\* always have somebody who will save them.
THEOREM CacheFileLasts == Spec => []CacheFileIsDurable
<1>1. (part = "cacheFile" => CacheFile!FileInvariant) => CacheFileIsDurable
  BY FileSafe DEF CacheFileIsDurable
<1> QED BY <1>1, CacheFilePartHolds, PTL

\* However many requests, refusals in Windows, failures and threads there are: when the user
\* is told that the last request succeeded, or close returns without an error, the shortcut
\* is what was asked last and no earlier thread can change it any more.
THEOREM ShortcutAnswersHold == Spec => []ShortcutAnswersAreTrue
<1>1. (part = "shortcut" => Shortcut!ShortcutInvariant) => ShortcutAnswersAreTrue
  BY ShortcutSafe DEF ShortcutAnswersAreTrue
<1> QED BY <1>1, ShortcutHolds, PTL

\* A token leaves the memory only for another one, by a reset or after the service refused
\* that very token; the approval that the user took back in Windows is restored only while
\* the last request asks for it.
THEOREM DropsAndApprovals == Spec => NothingDroppedOrApprovedUnasked
<1> DEFINE I == /\ part = "auth" => Auth!AuthInvariant
                /\ part = "shortcut" => Shortcut!ShortcutInvariant
           D == /\ part = "auth" => Auth!DropsOnlyRefused
                /\ part = "shortcut" => Shortcut!ApprovesOnRequest
<1>1. I /\ [Next]_vars => [D]_vars
  <2>1. SUFFICES ASSUME I, [Next]_vars, ~UNCHANGED vars PROVE D
    OBVIOUS
  <2>2. Next
    BY <2>1
  <2>3. part = "auth" => Auth!Next
    BY <2>2 DEF Next, CoalescingNext, AuthNext, CacheFileNext, ShortcutNext, AddonNext,
           WindowNext
  <2>4. part = "shortcut" => Shortcut!Next
    BY <2>2 DEF Next, CoalescingNext, AuthNext, CacheFileNext, ShortcutNext, AddonNext,
           WindowNext
  <2> QED BY <2>1, <2>3, <2>4, AuthDrops, ApprovesAsAsked
<1>2. Spec => []I
  BY AuthHolds, ShortcutHolds, PTL
<1> QED BY <1>1, <1>2, PTL DEF Spec, NothingDroppedOrApprovedUnasked
==============================================================================
