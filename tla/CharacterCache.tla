--------------------------- MODULE CharacterCache ---------------------------
(***************************************************************************)
(* CharacterCache of wcl.py with the store of wcl_cache_store.py, the      *)
(* fetch workers that fill it and the overlay that shows what they bring.  *)
(* Ranks and raid details of a character are asked for in parallel and     *)
(* answered in any order; the cache orders them by its publication clock   *)
(* (_save_epoch), read before a question is asked, and by proofs that      *)
(* outlive the entries.  How the file is written is another module's       *)
(* concern: here a save is one step.                                       *)
(***************************************************************************)
EXTENDS Integers, FiniteSets, FiniteSetsExt, Functions

CONSTANTS
    Characters,    \* region, server and name
    Variants,      \* spec and role
    Scopes,        \* METRIC_SCOPES
    RaidScopes,    \* those with a raid difficulty, for which details exist
    Preferences,   \* the scope selections the settings may hold
    Workers,
    MaxAnswers,    \* bound on answers of the service
    MaxEvents,     \* bound on flushes that drop entries, clears and restarts
    MaxEntries,    \* MAX_ENTRIES
    MaxProofs      \* MAX_ENTRIES times the number of scopes

ASSUME ScopeAssumption ==
    IsFiniteSet(Scopes) /\ RaidScopes \subseteq Scopes /\ Preferences \subseteq (SUBSET Scopes) \ {{}}
ASSUME BoundAssumption ==
    MaxAnswers \in Nat /\ MaxEvents \in Nat /\ MaxEntries \in Nat \ {0} /\ MaxProofs \in Nat \ {0}

Identities == Characters \X Variants
Times == 1..MaxAnswers

\* The scopes a question of a kind is about: details have raid scopes only.
Selected(kind, prefs) == IF kind = "detail" THEN prefs \cap RaidScopes ELSE prefs
Questions == {q \in [kind : {"rank", "detail"}, id : Identities, prefs : Preferences] :
                 Selected(q.kind, q.prefs) # {}}

\* One piece of evidence: what the answer at a time said of one scope. The
\* evidence that a character does not exist is of no variant and no scope.
Absent == "absent"
PublicEvidence == [kind : {"rank", "detail"}, id : Identities, scope : Scopes, time : Times]
AbsentEvidence == [kind : {Absent}, id : Characters, scope : {Absent}, time : Times]
Evidence == PublicEvidence \cup AbsentEvidence

\* Keys of the store: rank and rb: keys per identity and preferences, and
\* the nf: key of the character.
Key(kind, id, prefs) == [kind |-> kind, id |-> id, prefs |-> prefs]
AbsentKey(c) == Key(Absent, c, {})
OfCharacter(k, c) == k.kind # Absent /\ k.id[1] = c

\* An entry: fetched_at as the number of its put, and per scope the clock and
\* what was seen, with its time. The publication_epoch of an entry is the
\* latest clock of its scopes.
Seen == [state : {"public", "private"}, time : Times]

History == {"detail", "summary", "present", Absent}
Pairs(id, scopes) == {<<id, s>> : s \in scopes}
Subjects == (Identities \X Scopes) \cup Characters

VARIABLES
    data,          \* _data
    epoch,         \* _save_epoch
    generation,    \* _generation
    proofs, floor, \* _raid_detail_privacy_epochs, _raid_summary_..., _character_positive_..., _negative_...
    task,          \* per worker: the fetch it runs
    puts, time,    \* the wall clock of fetched_at; answers of the service
    delivered,     \* what the overlay was just handed
    events,
    answered, withdrawn, \* history: evidence given, and overtaken by accepted evidence
    lastAbsent     \* history: the time of the newest accepted absence

storeVars == <<data, epoch, generation, proofs, floor>>
vars == <<storeVars, task, puts, time, delivered, events, answered, lastAbsent, withdrawn>>

Idle == [stage |-> "idle"]
NoProofs == [h \in History |-> [s \in Subjects |-> 0]]
NoFloor == [h \in History |-> 0]
NoEntries == [k \in {} |-> {}]

Init ==
    /\ data = NoEntries
    /\ epoch = 0 /\ generation = 0
    /\ proofs = NoProofs /\ floor = NoFloor
    /\ task = [w \in Workers |-> Idle]
    /\ puts = 0 /\ time = 0 /\ events = 0
    /\ delivered = {}
    /\ answered = {} /\ withdrawn = {} /\ lastAbsent = [c \in Characters |-> 0]

-----------------------------------------------------------------------------
(* Reading. *)

\* The entry get serves ranks from: the newest fresh one that covers prefs.
RankKeys(id, prefs) == {k \in DOMAIN data : /\ k.kind = "rank" /\ k.id = id
                                            /\ prefs \subseteq k.prefs}
Newest(keys) == CHOOSE k \in keys : \A j \in keys : data[j].at <= data[k].at

\* The entries that know a scope's details, and the one that wins.
DetailKeys(id, s) == {k \in DOMAIN data : /\ k.kind = "detail" /\ k.id = id
                                          /\ s \in DOMAIN data[k].seen}
Wins(k, j, s) == \/ data[j].clock[s] < data[k].clock[s]
                 \/ data[j].clock[s] = data[k].clock[s] /\ data[j].at <= data[k].at
Winner(id, s) == CHOOSE k \in DetailKeys(id, s) :
                         \A j \in DetailKeys(id, s) : Wins(k, j, s)

\* What get and get_raid_boss_details return: nothing, that the character is
\* absent, or what was seen of the scopes asked for.
Nothing == [found |-> "nothing"]
IsAbsent(t) == [found |-> Absent, time |-> t]
Rows(seen) == [found |-> "rows", seen |-> seen]

Read(q) ==
    LET absent == AbsentKey(q.id[1])
        selected == Selected(q.kind, q.prefs)
        ranks == RankKeys(q.id, q.prefs)
    IN  IF absent \in DOMAIN data
        THEN IF q.kind = "rank" THEN IsAbsent(data[absent].seen[Absent].time) ELSE Nothing
        ELSE IF q.kind = "rank"
             THEN IF ranks = {} THEN Nothing
                  ELSE Rows([s \in selected |-> data[Newest(ranks)].seen[s]])
             ELSE IF \E s \in selected : DetailKeys(q.id, s) = {} THEN Nothing
                  ELSE Rows([s \in selected |-> data[Winner(q.id, s)].seen[s]])

\* The clocks to judge a read result by: ranks by the clock of the read, the
\* others by their own.
ReadClock(q) ==
    IF AbsentKey(q.id[1]) \in DOMAIN data THEN data[AbsentKey(q.id[1])].clock
    ELSE [s \in Selected(q.kind, q.prefs) |->
             IF q.kind = "rank" THEN epoch ELSE data[Winner(q.id, s)].clock[s]]

\* The evidence somebody who is handed such a result is shown.
Items(q, result) ==
    IF result.found = Absent
    THEN {[kind |-> Absent, id |-> q.id[1], scope |-> Absent, time |-> result.time]}
    ELSE IF result.found = "rows"
         THEN {[kind |-> q.kind, id |-> q.id, scope |-> s, time |-> result.seen[s].time] :
                  s \in {x \in DOMAIN result.seen : result.seen[x].state = "public"}}
         ELSE {}

Readings == {<<q, Read(q)>> : q \in Questions}
Visible == (UNION {Items(r[1], r[2]) : r \in Readings}) \cup delivered

-----------------------------------------------------------------------------
(* Which of two answers is newer. *)

NewerEntry(k, e) == k \in DOMAIN data /\ \E s \in DOMAIN data[k].clock : data[k].clock[s] > e

AbsentSince(c, e) ==
    \/ e < floor[Absent] \/ proofs[Absent][c] > e
    \/ NewerEntry(AbsentKey(c), e)

PresentSince(c, e) ==
    \/ e < floor["present"] \/ proofs["present"][c] > e
    \/ \E k \in DOMAIN data : OfCharacter(k, c) /\ NewerEntry(k, e)

SummarySince(id, scopes, e) ==
    \/ e < floor["summary"]
    \/ \E s \in scopes : proofs["summary"][<<id, s>>] > e
    \/ \E k \in DOMAIN data : /\ k.kind = "rank" /\ k.id = id /\ k.prefs \cap scopes # {}
                              /\ NewerEntry(k, e)

\* Newer detail of a scope in an entry whose state is one of states.
DetailEntrySince(d, id, s, e, states) ==
    \E k \in DOMAIN d : /\ k.kind = "detail" /\ k.id = id /\ s \in DOMAIN d[k].seen
                        /\ d[k].clock[s] > e /\ d[k].seen[s].state \in states

DetailSinceInEntries(id, s, e) ==    \* mutant: what was evicted is forgotten
    DetailEntrySince(data, id, s, e, {"public", "private"})
DetailSince(id, s, e) ==
    \/ e < floor["detail"] \/ proofs["detail"][<<id, s>>] > e
    \/ DetailEntrySince(data, id, s, e, {"public", "private"})

\* May what an answer to q, asked for at clock e, says of a scope still count?
MayCount(q, s, e) ==
    /\ ~AbsentSince(q.id[1], e)
    /\ IF q.kind = "rank" THEN ~SummarySince(q.id, q.prefs, e) ELSE ~DetailSince(q.id, s, e)

\* _source_response_current_locked of a whole answer.
SourceResponseCurrent(q, e, absent) ==
    IF absent THEN ~AbsentSince(q.id[1], e) /\ ~PresentSince(q.id[1], e)
    ELSE \A s \in Selected(q.kind, q.prefs) : MayCount(q, s, e)

-----------------------------------------------------------------------------
(* Storing. *)

KeepAll(d) == {d}    \* mutant
\* The ways to keep MaxEntries of the entries: the oldest go.
Capped(d) ==
    LET overflow == Max({0, Cardinality(DOMAIN d) - MaxEntries})
        evictions == {out \in SUBSET DOMAIN d :
                        /\ Cardinality(out) = overflow
                        /\ \A k \in out, j \in DOMAIN d \ out : d[k].at <= d[j].at}
    IN  {Restrict(d, DOMAIN d \ out) : out \in evictions}

With(d, k, entry) == [j \in DOMAIN d \cup {k} |-> IF j = k THEN entry ELSE d[j]]
Without(d, keys) == Restrict(d, DOMAIN d \ keys)

\* A history learns of subjects at the new clock; the oldest proofs go and
\* raise the floor.
Proved(h, subjects) ==
    LET all == [s \in Subjects |-> IF s \in subjects THEN epoch + 1 ELSE proofs[h][s]]
        held == {s \in Subjects : all[s] # 0}
        overflow == Max({0, Cardinality(held) - MaxProofs})
        out == CHOOSE out \in SUBSET held :
                  /\ Cardinality(out) = overflow
                  /\ \A s \in out, r \in held \ out : all[s] <= all[r]
    IN  [proofs |-> [s \in Subjects |-> IF s \in out THEN 0 ELSE all[s]],
         floor |-> Max({floor[h]} \cup {all[s] : s \in out})]

\* A private answer at time t hides what older rank entries say of its scopes,
\* without making the rest of those entries newer.
RetractRanks(d, id, scopes, e, t) ==
    [k \in DOMAIN d |->
        IF k.kind = "rank" /\ k.id = id /\ \A s \in DOMAIN d[k].clock : d[k].clock[s] <= e
        THEN [d[k] EXCEPT !.seen = [s \in DOMAIN @ |->
                 IF s \in scopes THEN [state |-> "private", time |-> t] ELSE @[s]]]
        ELSE d[k]]

\* The scopes whose privacy an answer asked for at e may record: nothing newer
\* is known, or only newer privacy.
PrivacyCounts(d, id, scopes, e) ==
    {s \in scopes : /\ e >= floor["detail"] /\ proofs["detail"][<<id, s>>] <= e
                    /\ ~DetailEntrySince(d, id, s, e, {"public"})}

\* Older details of those scopes become private at the new clock, and an entry
\* of its own keeps the proof of each.
RetractDetails(d, id, scopes, e, t) ==
    LET hidden(k) == {s \in scopes \cap DOMAIN d[k].seen : d[k].clock[s] <= e}
        retracted == [k \in DOMAIN d |->
            IF k.kind = "detail" /\ k.id = id
            THEN [d[k] EXCEPT
                    !.seen = [s \in DOMAIN @ |-> IF s \in hidden(k)
                                 THEN [state |-> "private", time |-> t] ELSE @[s]],
                    !.clock = [s \in DOMAIN @ |-> IF s \in hidden(k) THEN epoch + 1 ELSE @[s]]]
            ELSE d[k]]
        own == [k \in {Key("detail", id, {s}) : s \in scopes} |->
                   [at |-> puts + 1,
                    clock |-> [s \in k.prefs |-> epoch + 1],
                    seen |-> [s \in k.prefs |-> [state |-> "private", time |-> t]]]]
    IN  [k \in DOMAIN d \cup DOMAIN own |-> IF k \in DOMAIN own THEN own[k] ELSE retracted[k]]

Entry(seen) == [at |-> puts + 1,
                clock |-> [s \in DOMAIN seen |-> epoch + 1], seen |-> seen]

Private(seen) == {s \in DOMAIN seen : seen[s].state = "private"}

-----------------------------------------------------------------------------
(* A fetch: asked, answered, put, emitted to the overlay, delivered. *)

\* The overlay launches a fetch that the cache cannot serve; the task notes the
\* cache generation and the publication clock.
Ask(w, q) ==
    /\ task[w] = Idle /\ Read(q) = Nothing
    /\ Cardinality({x \in Workers : task[x].stage = "asked"}) + time < MaxAnswers
    /\ task' = [task EXCEPT ![w] = [stage |-> "asked", q |-> q,
                                    generation |-> generation, epoch |-> epoch]]
    /\ delivered' = {}
    /\ UNCHANGED <<storeVars, puts, time, events, answered, lastAbsent, withdrawn>>

\* Another task has filled the cache before this one got to the network.
CacheHit(w) ==
    /\ task[w].stage = "asked" /\ Read(task[w].q) # Nothing
    /\ task[w].generation = generation
    /\ task' = [task EXCEPT ![w] = Idle]
    /\ delivered' = {}
    /\ UNCHANGED <<storeVars, puts, time, events, answered, lastAbsent, withdrawn>>

\* The overlay retires the operation: the task ends, or put refuses its answer.
\* (That the answer had come already makes no difference to anyone.)
Retire(w) ==
    /\ task[w].stage = "asked"
    /\ task' = [task EXCEPT ![w] = Idle]
    /\ delivered' = {}
    /\ UNCHANGED <<storeVars, puts, time, events, answered, lastAbsent, withdrawn>>

\* The service answers, each scope public or private, or no such character.
Answers(q, t) ==
    {IsAbsent(t)} \cup
    {Rows(seen) : seen \in [Selected(q.kind, q.prefs) -> [state : {"public", "private"}, time : {t}]]}

Answer(w) ==
    /\ task[w].stage = "asked" /\ time < MaxAnswers
    /\ time' = time + 1
    /\ \E a \in Answers(task[w].q, time + 1) :
          /\ answered' = answered \cup Items(task[w].q, a)
          /\ task' = [task EXCEPT ![w] = [stage |-> "answered", q |-> @.q, time |-> time + 1,
                         generation |-> @.generation, epoch |-> @.epoch, answer |-> a]]
    /\ delivered' = {}
    /\ UNCHANGED <<storeVars, puts, events, lastAbsent, withdrawn>>

\* The scopes of an answer that put takes; that a character is absent is one.
Eligible(t) ==
    IF t.generation # generation THEN {}
    ELSE IF t.answer.found = Absent
         THEN {x \in {Absent} : SourceResponseCurrent(t.q, t.epoch, TRUE)}
         ELSE {s \in DOMAIN t.answer.seen : MayCount(t.q, s, t.epoch)}

\* What the task emits: its result, and per scope the clock to judge it by.
ClockOf(scopes, e) == [s \in scopes |-> e]
Responded(w, result, clock) ==
    task' = [task EXCEPT ![w] = [stage |-> "emitted", q |-> @.q, result |-> result, clock |-> clock]]

Stored == /\ epoch' = epoch + 1 /\ puts' = puts + 1 /\ delivered' = {}
          /\ UNCHANGED <<generation, time, events, answered>>

\* The histories in DOMAIN known learn of those subjects at the new clock.
SetProofs(known) ==
    /\ proofs' = [h \in History |-> IF h \in DOMAIN known THEN Proved(h, known[h]).proofs ELSE proofs[h]]
    /\ floor' = [h \in History |-> IF h \in DOMAIN known THEN Proved(h, known[h]).floor ELSE floor[h]]

\* History: answers of a kind that a later one, given at time t, overtakes.
Older(kind, id, scopes, t) ==
    {i \in answered : i.kind = kind /\ i.id = id /\ i.scope \in scopes /\ i.time < t}
\* History: the scopes of whose details nothing newer than clock e is known, so
\* that privacy asked for at e must count.
Unopposed(id, scopes, e) == {s \in scopes : ~DetailSince(id, s, e)}

\* put of an answer that there is no such character.
PutAbsent(w) ==
    LET t == task[w]  c == t.q.id[1]
        swept == {k \in DOMAIN data : OfCharacter(k, c)}
        entry == Entry([x \in {Absent} |-> [state |-> "public", time |-> t.time]])
    IN  /\ t.stage = "answered" /\ t.answer.found = Absent /\ Eligible(t) # {}
        /\ data' \in Capped(With(Without(data, swept), AbsentKey(c), entry))
        /\ SetProofs([h \in {Absent} |-> {c}])
        /\ Responded(w, t.answer, ClockOf({Absent}, epoch + 1))
        /\ lastAbsent' = [lastAbsent EXCEPT ![c] = t.time]
        /\ withdrawn' = withdrawn \cup {i \in answered : i.kind # Absent /\ i.id[1] = c /\ i.time < t.time}
        /\ Stored

\* put of ranks: what older ranks and details say of private scopes goes.
PutRanks(w) ==
    LET t == task[w]  id == t.q.id  c == id[1]
        private == Private(t.answer.seen)
        raids == private \cap RaidScopes
    IN  /\ t.stage = "answered" /\ t.q.kind = "rank" /\ t.answer.found = "rows" /\ Eligible(t) # {}
        /\ \E stored \in Capped(With(Without(data, {AbsentKey(c)}),
                                     Key("rank", id, t.q.prefs), Entry(t.answer.seen))) :
              LET ranks == RetractRanks(stored, id, private, t.epoch, t.time)
                  counts == PrivacyCounts(ranks, id, raids, t.epoch)
              IN  /\ data' \in IF raids = {} THEN {ranks}
                               ELSE Capped(RetractDetails(ranks, id, counts, t.epoch, t.time))
                  /\ SetProofs([summary |-> Pairs(id, t.q.prefs), present |-> {c},
                                detail |-> Pairs(id, counts)])
                  /\ withdrawn' = withdrawn
                        \cup Older(Absent, c, {Absent}, t.time) \cup Older("rank", id, private, t.time)
                        \cup Older("detail", id, counts \cup Unopposed(id, raids, t.epoch), t.time)
        /\ Responded(w, t.answer, ClockOf(t.q.prefs, epoch + 1))
        /\ UNCHANGED lastAbsent
        /\ Stored

\* put_raid_boss_details: only the scopes without newer evidence are taken.
PutDetails(w) ==
    LET t == task[w]  id == t.q.id  c == id[1]
        seen == Restrict(t.answer.seen, Eligible(t))
        stored == With(Without(data, {AbsentKey(c)}), Key("detail", id, t.q.prefs), Entry(seen))
        counts == PrivacyCounts(stored, id, Private(seen), t.epoch)
    IN  /\ t.stage = "answered" /\ t.q.kind = "detail" /\ t.answer.found = "rows" /\ Eligible(t) # {}
        /\ data' \in Capped(RetractDetails(stored, id, counts, t.epoch, t.time))
        /\ SetProofs([detail |-> Pairs(id, DOMAIN seen), present |-> {c}])
        /\ Responded(w, Rows(seen), ClockOf(DOMAIN seen, epoch + 1))
        /\ withdrawn' = withdrawn
              \cup Older(Absent, c, {Absent}, t.time) \cup Older("detail", id, Private(seen), t.time)
        /\ UNCHANGED lastAbsent
        /\ Stored

\* What the cache says in place of a result, or what may be kept of the result:
\* can_deliver_response asks for newer evidence than the clock it came with.
Unavailable == Rows([s \in {} |-> {}])
Settled(q, result, clock) ==
    IF Read(q) # Nothing THEN [result |-> Read(q), clock |-> ReadClock(q)]
    ELSE IF result.found = Absent
         THEN [result |-> IF SourceResponseCurrent(q, clock[Absent], TRUE) THEN result ELSE Unavailable,
               clock |-> clock]
         ELSE [result |-> Rows(Restrict(result.seen,
                              {s \in DOMAIN result.seen : MayCount(q, s, clock[s])})),
               clock |-> clock]

\* put refuses: the worker looks at the cache again and emits what it may. (It
\* looks after a put of details as well, as the overlay will in any case.)
PutRefused(w) ==
    LET t == task[w]
        settled == Settled(t.q, t.answer, ClockOf(Scopes \cup {Absent}, t.epoch))
    IN  /\ t.stage = "answered" /\ Eligible(t) = {}
        /\ Responded(w, settled.result, settled.clock)
        /\ delivered' = {}
        /\ UNCHANGED <<storeVars, puts, time, events, answered, lastAbsent, withdrawn>>

\* current_not_found_publication_epoch: the cache or its proofs know that the
\* character is absent, and no later answer found it.
KnownAbsent(c) ==
    LET k == AbsentKey(c)
        e == IF proofs[Absent][c] # 0 THEN proofs[Absent][c]
             ELSE IF k \in DOMAIN data THEN data[k].clock[Absent] ELSE -1
    IN  e >= Max({floor[Absent], floor["present"], proofs["present"][c]})

\* The overlay receives what a worker emitted: a known absence comes first,
\* then what the cache has, then what may be kept.
Deliver(w) ==
    LET t == task[w]  c == t.q.id[1]
    IN  /\ t.stage = "emitted"
        /\ task' = [task EXCEPT ![w] = Idle]
        /\ delivered' = Items(t.q, IF KnownAbsent(c) THEN IsAbsent(lastAbsent[c])
                                   ELSE Settled(t.q, t.result, t.clock).result)
        /\ UNCHANGED <<storeVars, puts, time, events, answered, lastAbsent, withdrawn>>

-----------------------------------------------------------------------------
(* Time and the file. *)

\* A flush prunes what is past its time to live, the oldest entry or an absence,
\* which lives shorter, and moves the clock. What a read skips because it has
\* expired counts as dropped.
Flush ==
    /\ events < MaxEvents /\ events' = events + 1
    /\ \E k \in DOMAIN data :
          /\ k.kind = Absent \/ \A j \in DOMAIN data : data[k].at <= data[j].at
          /\ data' = Without(data, {k})
    /\ epoch' = epoch + 1
    /\ delivered' = {}
    /\ UNCHANGED <<generation, proofs, floor, task, puts, time,
                   answered, lastAbsent, withdrawn>>

\* clear: entries, proofs and file are gone and older questions count no more.
Clear ==
    /\ events < MaxEvents /\ events' = events + 1
    /\ data' = NoEntries
    /\ epoch' = epoch + 1 /\ generation' = generation + 1
    /\ proofs' = NoProofs /\ floor' = NoFloor
    /\ delivered' = {} /\ withdrawn' = {}
    /\ UNCHANGED <<task, puts, time, answered, lastAbsent>>

\* The program ends in order and starts anew: all that _load
\* takes is older than any question to come.
Restart ==
    /\ events < MaxEvents /\ events' = events + 1
    /\ data' = [k \in DOMAIN data |-> [data[k] EXCEPT !.clock = [s \in DOMAIN @ |-> 0]]]
    /\ epoch' = 0 /\ generation' = 0 /\ proofs' = NoProofs /\ floor' = NoFloor
    /\ task' = [w \in Workers |-> Idle]
    /\ delivered' = {}
    /\ lastAbsent' = [c \in Characters |->
          IF AbsentKey(c) \in DOMAIN data' THEN data[AbsentKey(c)].seen[Absent].time ELSE 0]
    /\ UNCHANGED <<puts, time, answered, withdrawn>>

Next ==
    \/ \E w \in Workers :
          \/ \E q \in Questions : Ask(w, q)
          \/ CacheHit(w) \/ Retire(w) \/ Answer(w)
          \/ PutRefused(w) \/ PutAbsent(w) \/ PutRanks(w) \/ PutDetails(w)
          \/ Deliver(w)
    \/ Flush \/ Clear \/ Restart

Spec == Init /\ [][Next]_vars

-----------------------------------------------------------------------------
(* Properties. *)

EntryOK(k, entry) ==
    /\ entry.at \in 1..MaxAnswers
    /\ DOMAIN entry.clock = DOMAIN entry.seen
    /\ DOMAIN entry.seen \subseteq (IF k.kind = Absent THEN {Absent} ELSE Selected(k.kind, k.prefs))
    /\ \A s \in DOMAIN entry.seen : entry.clock[s] \in Nat /\ entry.seen[s] \in Seen

TypeOK ==
    /\ \A k \in DOMAIN data : EntryOK(k, data[k]) /\ \A s \in DOMAIN data[k].clock : data[k].clock[s] <= epoch
    /\ Cardinality(DOMAIN data) <= MaxEntries
    /\ \A h \in History :
          /\ floor[h] \in 0..epoch
          /\ \A x \in Subjects : proofs[h][x] \in 0..epoch
          /\ Cardinality({x \in Subjects : proofs[h][x] # 0}) <= MaxProofs
    /\ answered \subseteq Evidence /\ withdrawn \subseteq answered

\* The cache implements the ledger.  Whoever asks it, or is handed an answer on
\* the way to it, is shown nothing but what was answered for that very scope of
\* that character, and nothing a later accepted answer withdrew: public ranks or
\* details that are private by now, a character that is gone, or an absence that
\* is over (_source_response_current_locked, retract_private_rank_summaries,
\* record_publication_proofs), whatever is evicted, expired, pruned or retired,
\* in whatever order the answers arrive, and over an orderly restart.
Ledger == INSTANCE EvidenceLedger WITH visible <- Visible
ImplementsLedger == Ledger!Spec
=============================================================================
