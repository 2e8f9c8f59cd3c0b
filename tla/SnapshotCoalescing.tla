--------------------------- MODULE SnapshotCoalescing ---------------------------
(***************************************************************************)
(* Coalescing in front of the state machine (snapshot_pipeline.py:         *)
(* append_pending_snapshot, snapshot_semantic_segments,                    *)
(* compact_snapshot_segment, merge_snapshot_segment,                       *)
(* snapshot_application_plan).  While the GUI thread is busy, snapshots are *)
(* dropped and merged; what is applied in the end has to be what applying   *)
(* each of them would have given.                                           *)
(***************************************************************************)
EXTENDS SnapshotApply, FiniteSets

CONSTANTS MaxEvents

VARIABLES
    machine, pending,        \* the machine, and the snapshots that wait for it
    outcome, sequential,     \* the machine once it has applied them, as planned and in turn
    focus, events

vars == <<machine, pending, outcome, sequential, focus, events>>

-----------------------------------------------------------------------------
(* append_pending_snapshot                                                  *)

\* snapshot_carries_leader_update
CarriesLeaderAlways(s) == TRUE    \* mutant
CarriesLeader(s) == s.terminal \/ ~s.lfg \/ s.leader # 0

\* snapshot_authority_mask
Authority(s) ==
    {a \in {"listing", "seed", "leader", "applicants", "party", "version"} :
        CASE a = "listing" -> s.terminal \/ ~s.lfg
          [] a = "seed" -> s.terminal \/ ~s.lfg \/ s.listing # 0
          [] a = "leader" -> CarriesLeader(s)
          [] a = "applicants" -> s.terminal \/ (~s.lfg /\ ~s.applicantsNA)
          [] a = "party" -> s.terminal \/ ~s.partyNA
          [] a = "version" -> s.version # NoVersion}

\* Cuts a sequence before each element the predicate, given what was observed since
\* the last cut, calls a change.
Observe(observed, incoming) ==
    [k \in DOMAIN observed \cup DOMAIN incoming |->
        IF k \in DOMAIN incoming THEN incoming[k] ELSE observed[k]]
Conflicts(observed, incoming) ==
    \E k \in DOMAIN observed \cap DOMAIN incoming : observed[k] # incoming[k]
Segments(snapshots, Incoming(_)) ==
    LET step(acc, s) ==
            LET incoming == Incoming(s)
            IN IF acc.segments # <<>> /\ Conflicts(acc.observed, incoming)
               THEN [segments |-> Append(acc.segments, <<s>>), observed |-> incoming]
               ELSE [segments |-> IF acc.segments = <<>> THEN <<<<s>>>>
                                  ELSE Front(acc.segments) \o <<Append(Last(acc.segments), s)>>,
                     observed |-> Observe(acc.observed, incoming)]
    IN FoldLeft(step, [segments |-> <<>>, observed |-> <<>>], snapshots).segments

\* What a snapshot says of each surface, as snapshot_semantic_segments compares it.
Only(c, r) == IF c THEN r ELSE <<>>
Incoming(s) ==
    LET v == [version |-> IF s.version = NoVersion THEN <<>>
                          ELSE <<s.version, s.history, Authority(s)>>]
        l == Only(~s.lfg \/ s.listing # 0, [seed |-> s.listing])
        a == Only(~s.lfg /\ (s.listing = 0 \/ ~s.applicantsNA),
                  [applicants |-> IF s.listing = 0 THEN NoRows ELSE s.applicants])
        p == Only(~s.partyNA, [party |-> s.party])
    IN v @@ l @@ a @@ p
SeenListing(s) == Only(~s.lfg, [listing |-> s.listing])
SemanticSegments(snapshots) ==
    LET byListing == Segments(snapshots, SeenListing)
    IN FlattenSeq([i \in DOMAIN byListing |-> Segments(byListing[i], Incoming)])

\* compact_snapshot_segment: of each segment only what has some authority left.
Compact(snapshots) ==
    LET retained(segment) ==
            LET step(s, acc) ==
                    IF acc.kept = <<>> \/ Authority(s) \ acc.covered # {}
                    THEN [kept |-> <<s>> \o acc.kept, covered |-> acc.covered \cup Authority(s)]
                    ELSE acc
            IN FoldRight(step, segment, [kept |-> <<>>, covered |-> {}]).kept
        segments == SemanticSegments(snapshots)
    IN FlattenSeq([i \in DOMAIN segments |-> retained(segments[i])])

\* The versions seen so far, from the last one that needs no fallback.
FullIdentity(v) == v.name # "?" /\ v.realm # "" /\ v.region # 0
History(snapshots) ==
    LET own(s) == IF s.version = NoVersion THEN s.history ELSE Append(s.history, s.version)
        all == FlattenSeq([i \in DOMAIN snapshots |-> own(snapshots[i])])
        full == {i \in DOMAIN all : FullIdentity(all[i])}
    IN IF full = {} THEN all ELSE SubSeq(all, Max(full), Len(all))

\* producer_identities_conflict
ProducersConflict(a, b) ==
    /\ a.name \notin {"", "?"} /\ b.name \notin {"", "?"}
    /\ \/ a.name # b.name
       \/ a.realm # "" /\ b.realm # "" /\ a.realm # b.realm
       \/ a.region # 0 /\ b.region # 0 /\ a.region # b.region

Barrier == [terminal |-> TRUE, reset |-> TRUE, lfg |-> FALSE, partyNA |-> FALSE,
            applicantsNA |-> FALSE, version |-> NoVersion, history |-> <<>>, listing |-> 0,
            leader |-> 0, applicants |-> NoRows, party |-> NoRows,
            applicantsCtx |-> NoCtx, partyCtx |-> NoCtx]

AppendPending(waiting, s) ==
    LET history == History(waiting)
        player == FoldLeft(ResolvePlayer, NoPlayer, history)
        incoming == IF s.version = NoVersion THEN player ELSE ResolvePlayer(player, s.version)
    IN CASE s.terminal /\ history = <<>> -> <<s>>
         [] s.terminal /\ history # <<>> ->
                IF s.version # NoVersion THEN <<[s EXCEPT !.history = history \o @]>>
                ELSE <<[s EXCEPT !.version = Last(history), !.history = Front(history) \o @]>>
         [] ~s.terminal /\ ProducersConflict(player, incoming) ->
                <<Barrier, [s EXCEPT !.history = history \o @]>>
         [] ~s.terminal /\ ~ProducersConflict(player, incoming) ->
                IF waiting # <<>> /\ Head(waiting).terminal
                THEN <<Head(waiting)>> \o Compact(Append(Tail(waiting), s))
                ELSE Compact(Append(waiting, s))

-----------------------------------------------------------------------------
(* snapshot_application_plan                                                *)

\* producer_identity_matches
ProducerMatches(candidate, reference) ==
    /\ candidate.name \notin {"", "?"} /\ candidate.name = reference.name
    /\ reference.realm \in {"", candidate.realm}
    /\ reference.region \in {0, candidate.region}

\* latest_producer_segment
LatestProducer(snapshots) ==
    LET versioned == {i \in DOMAIN snapshots : snapshots[i].version # NoVersion}
        latest == snapshots[Max(versioned)].version
        other == {i \in versioned : ProducersConflict(snapshots[i].version, latest)}
        same == {i \in versioned : i > Max(other) /\
                    (i = Max(versioned) \/ ProducerMatches(snapshots[i].version, latest))}
    IN IF Cardinality(versioned) < 2 \/ other = {} THEN snapshots
       ELSE SubSeq(snapshots, Min(same), Len(snapshots))

LatestOf(snapshots, Test(_)) ==
    LET found == {i \in DOMAIN snapshots : Test(snapshots[i])}
    IN IF found = {} THEN <<>> ELSE <<snapshots[Max(found)]>>

\* merge_snapshot_segment
Merge(all) ==
    LET snapshots == LatestProducer(all)
        readable(s) == ~s.lfg
        listing == LatestOf(snapshots, readable)
        sameListing(s) == ~s.lfg /\ ~s.applicantsNA /\ s.listing = listing[1].listing
        applicants == IF listing = <<>> THEN <<>> ELSE LatestOf(snapshots, sameListing)
        hasParty(s) == ~s.partyNA
        party == LatestOf(snapshots, hasParty)
        hasVersion(s) == s.version # NoVersion
        version == LatestOf(snapshots, hasVersion)
        leader == LatestOf(snapshots, CarriesLeader)
        named(s) == s.listing # 0
        seed == LatestOf(snapshots, named)
    IN [terminal |-> FALSE, reset |-> Last(snapshots).reset,
        lfg |-> listing = <<>>, partyNA |-> party = <<>>, applicantsNA |-> applicants = <<>>,
        version |-> IF version = <<>> THEN NoVersion ELSE version[1].version,
        history |-> IF version = <<>> THEN <<>> ELSE version[1].history,
        listing |-> IF listing # <<>> THEN listing[1].listing
                    ELSE IF seed # <<>> THEN seed[1].listing ELSE 0,
        leader |-> IF leader = <<>> THEN 0 ELSE leader[1].leader,
        applicants |-> IF applicants = <<>> THEN NoRows ELSE applicants[1].applicants,
        party |-> IF party = <<>> THEN NoRows ELSE party[1].party,
        applicantsCtx |-> IF applicants = <<>> THEN CtxOf(0, 0)
                          ELSE RioContext(applicants[1], applicants[1].applicantsCtx),
        partyCtx |-> IF party = <<>> THEN CtxOf(0, 0)
                     ELSE RioContext(party[1], party[1].partyCtx)]

MergedSteps(snapshots) ==
    LET segments == SemanticSegments(snapshots)
    IN [i \in DOMAIN segments |-> Merge(segments[i])]

Plan(snapshots) ==
    IF snapshots = <<>> \/ ~Head(snapshots).terminal THEN MergedSteps(snapshots)
    ELSE LET terminal == Head(snapshots)
             rest == Tail(snapshots)
         IN IF rest = <<>> \/ Head(rest).version = NoVersion
            THEN <<terminal>> \o MergedSteps(rest)
            ELSE LET first == IF terminal.version = NoVersion THEN Head(rest)
                              ELSE [Head(rest) EXCEPT !.history =
                                        terminal.history \o <<terminal.version>> \o @]
                 IN <<[terminal EXCEPT !.version = NoVersion]>>
                    \o MergedSteps(<<first>> \o Tail(rest))

ApplyAll(m, snapshots) == FoldLeft(Apply, m, snapshots)

-----------------------------------------------------------------------------
(* Behaviours. What differs between the snapshots of one behaviour is its    *)
(* `focus`: whose they are, what they say of the applicants or of the party. *)

Version(name, realm, region) == [name |-> name, realm |-> realm, region |-> region]
Host == Version("h", "r", 1)
Versions(f) ==
    CASE f = "player" ->
            {NoVersion, Host, Version("h", "", 2), Version("o", "q", 1), Version("?", "", 2)}
      [] f = "applicants" -> {NoVersion, Host}
      [] f = "party" -> {NoVersion}

Decoded(name, cls, spec) == [name |-> name, cls |-> cls, spec |-> spec]
Known(name) == <<Decoded(name, 1, 1)>>
Unread(name) == <<Decoded(name, 1, 0)>>
OtherClass(name) == <<Decoded(name, 2, 0)>>
X == <<"x", "q">>    \* an applicant of another realm
Y == <<"y", "">>
T == <<"t", "">>

\* A first snapshot says something of every surface; others leave some out. What could
\* not be read is empty, and there are no applicants without a listing.
First(v) == [Barrier EXCEPT !.terminal = FALSE, !.reset = FALSE, !.version = v, !.listing = 1,
                            !.applicants = Known(X), !.party = Known(T)]
Unreadable(s) == [s EXCEPT !.lfg = TRUE, !.listing = 0, !.applicants = NoRows]
NoApplicants(s) == [s EXCEPT !.applicantsNA = TRUE, !.applicants = NoRows]
NoParty(s) == [s EXCEPT !.partyNA = TRUE, !.party = NoRows]

OfThePlayer ==
    UNION {{Unreadable(First(v)), NoApplicants(First(v)), NoParty(First(v))} :
              v \in Versions("player")}
OfApplicants ==
    LET base == {NoParty(First(v)) : v \in Versions("applicants")}
    IN UNION {{[Unreadable(s) EXCEPT !.listing = l] : l \in {0, 2}} : s \in base}
       \cup {[s EXCEPT !.listing = 0, !.applicants = NoRows] : s \in base}
       \cup {[NoApplicants(s) EXCEPT !.listing = l] : s \in base, l \in {1, 2}}
       \cup {[s EXCEPT !.listing = l, !.applicants = rows] :
                 s \in base, l \in {1, 2}, rows \in {NoRows, Known(Y), Known(X), Unread(X)}}
OfTheParty ==
    LET base == {[Unreadable(First(NoVersion)) EXCEPT !.lfg = lfg, !.leader = l] :
                    lfg \in BOOLEAN, l \in {0, 1}}
    IN {NoParty(s) : s \in base}
       \cup {[s EXCEPT !.party = rows] :
                 s \in base, rows \in {NoRows, Known(T), Unread(T), OtherClass(T)}}

Terminal(v) == [Barrier EXCEPT !.reset = FALSE, !.version = v]
Terminals(f) == {Terminal(v) : v \in Versions(f) \cap {NoVersion, Host, Version("o", "q", 1)}}
Snapshots(f) ==
    Terminals(f) \cup
    (CASE f = "player" -> OfThePlayer [] f = "applicants" -> OfApplicants [] f = "party" -> OfTheParty)

\* Results of Warcraft Logs have arrived for every row that can be asked about.
Own(row, m) == <<Character(row.name, m.player), row.spec>>
WithResults(rows, m) ==
    [i \in DOMAIN rows |-> IF rows[i].name[2] = "" /\ m.player.realm = "" THEN rows[i]
                           ELSE [rows[i] EXCEPT !.data = Own(rows[i], m)]]
Fetched(m) ==
    LET n == [m EXCEPT !.applicants = WithResults(@, m), !.party = WithResults(@, m)]
    IN [n EXCEPT !.seen.applicants = n.applicants, !.seen.party = n.party]
Init ==
    /\ focus \in {"player", "applicants", "party"}
    /\ \E v \in {Host} \cup (IF focus = "player" THEN {Version("?", "", 1)} ELSE {}) :
            machine = Fetched(Apply(Machine, First(v)))
    /\ outcome = machine /\ sequential = machine /\ pending = <<>> /\ events = 0

\* enqueue_snapshot
HandOver(s) ==
    /\ events < MaxEvents /\ events' = events + 1
    /\ pending' = AppendPending(pending, s)
    /\ outcome' = ApplyAll(machine, Plan(pending'))
    /\ sequential' = Apply(sequential, s)
    /\ UNCHANGED <<machine, focus>>

\* flush; from then on the two are compared anew.
Flush ==
    /\ pending # <<>> /\ pending' = <<>>
    /\ machine' = outcome /\ sequential' = outcome
    /\ UNCHANGED <<outcome, focus, events>>

FetchAll ==
    /\ pending = <<>>
    /\ machine' = Fetched(machine) /\ machine' # machine
    /\ sequential' = machine' /\ outcome' = machine'
    /\ UNCHANGED <<pending, focus, events>>

\* Another folder is selected, an application failed, or what a restart restored
\* expires before a snapshot came.
Withdrawn ==
    {RetireSource(machine), Recover(machine)} \cup
    {ExpireSurfaces(machine, a, l, p) : a \in BOOLEAN, l \in BOOLEAN, p \in BOOLEAN}
WithdrawAll ==
    /\ events < MaxEvents /\ events' = events + 1
    /\ pending = <<>> /\ machine' \in Withdrawn /\ machine' # machine
    /\ sequential' = machine' /\ outcome' = machine'
    /\ UNCHANGED <<pending, focus>>

Next == Flush \/ FetchAll \/ WithdrawAll \/ \E s \in Snapshots(focus) : HandOver(s)

Spec == Init /\ [][Next]_vars

-----------------------------------------------------------------------------
(* Properties. *)

\* Coalescing keeps the life of the rows (compact_snapshot_segment: "without discarding
\* fallback or row lifecycle steps"): what is applied in the end gives the state that
\* applying every snapshot in turn gives, down to which rows keep their results.
CoalescingIsInvisible ==
    [outcome EXCEPT !.producer = NoPlayer] = [sequential EXCEPT !.producer = NoPlayer]

\* What was coalesced shows the same player, listing and key, and the same rows, in the
\* context they were captured for. Where it differs from applying every snapshot, it
\* knows more of a row, and of the same character.
SameOrMore(row, plain, m) ==
    /\ row.name = plain.name /\ row.ctx = plain.ctx
    /\ plain.cls \in {0, row.cls} /\ plain.spec \in {0, row.spec}
    /\ plain.data # NoData => row.data = plain.data
CoalescingLosesNothing ==
    LET o == outcome s == sequential
    IN /\ o.player = s.player /\ o.listing = s.listing /\ o.leader = s.leader
       /\ o.wclRegion = s.wclRegion
       /\ DOMAIN o.applicants = DOMAIN s.applicants
       /\ \A i \in DOMAIN s.applicants : SameOrMore(o.applicants[i], s.applicants[i], s)
       /\ DOMAIN o.party = DOMAIN s.party
       /\ \A i \in DOMAIN s.party : SameOrMore(o.party[i], s.party[i], s)

\* Results of Warcraft Logs never outlive what they were asked for: those a row shows
\* are of its character, with the player's realm and region, and its specialisation.
ResultsAreOwn ==
    LET o == outcome
        own(row) == row.data \in {NoData, Own(row, o)}
    IN o.player.realm # "" =>
        /\ \A i \in DOMAIN o.applicants : own(o.applicants[i])
        /\ \A i \in DOMAIN o.party : own(o.party[i])

\* The listeners have been told of every change.
ListenersUpToDate ==
    LET o == outcome
    IN o.seen = [listing |-> o.listing, leader |-> o.leader,
                 applicants |-> o.applicants, party |-> o.party]
=============================================================================
