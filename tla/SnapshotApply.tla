----------------------------- MODULE SnapshotApply -----------------------------
(***************************************************************************)
(* What a decoded snapshot does to the application (__main__.py:           *)
(* StateMachine.apply_snapshot; producer_identity.py, state.py): the       *)
(* player it comes from, the listing, the leader's key, the applicants and *)
(* the party.  The machine is a record; `seen` is what its signals have    *)
(* told the listeners, one signal renewing one part of it.  A character is *)
(* <<name, realm>>, "" a missing realm, region 0 an unknown region, class, *)
(* specialisation and listing 0 none.  A row's other columns are `ctx`, the*)
(* target its Raider.IO summary was captured for, and `data`, of whom and   *)
(* in which specialisation the results of Warcraft Logs it has are.         *)
(***************************************************************************)
EXTENDS Integers, SequencesExt

NoPlayer == [name |-> "", realm |-> "", region |-> 0]
NoVersion == [name |-> "none", realm |-> "", region |-> 0]
NoCtx == <<>>
NoData == <<>>
NoRows == <<>>

Machine == [player |-> NoPlayer, producer |-> NoPlayer, listing |-> 0, leader |-> 0,
            applicants |-> NoRows, party |-> NoRows, wclRegion |-> 0,
            seen |-> [listing |-> 0, leader |-> 0, applicants |-> NoRows, party |-> NoRows]]

KeyListings == {1}       \* listings that name a key level; the others have none

-----------------------------------------------------------------------------
(* Identities. A placeholder ("?", "Unknown") stands for a name not known.  *)

\* resolve_transport_player: what a version leaves out is taken from the player before.
ResolvePlayer(old, version) ==
    LET known == version.name # "?"
        inherits == old.name = version.name /\ version.realm = "" /\
                    ~(old.region # 0 /\ version.region # 0 /\ old.region # version.region)
    IN [name |-> IF known THEN version.name ELSE old.name,
        realm |-> IF ~known \/ inherits THEN old.realm ELSE version.realm,
        region |-> IF old.region # 0 /\ (version.region = 0 \/ (~known /\ old.name # ""))
                   THEN old.region ELSE version.region]

\* _compute_identity_delta: another character or account uses the same folder.
OtherPlayer(producer, player) ==
    /\ player.name # "" /\ producer.name # ""
    /\ \/ player.name # producer.name
       \/ player.realm # "" /\ producer.realm # "" /\ player.realm # producer.realm
       \/ player.region # 0 /\ player.region # producer.region

\* The end of _apply_player_identity.
Producer(producer, player, changed) ==
    IF player.name = "" THEN producer
    ELSE IF changed \/ player.name # producer.name THEN player
    ELSE [name |-> player.name,
          realm |-> IF player.realm # "" THEN player.realm ELSE producer.realm,
          region |-> IF player.region # 0 THEN player.region ELSE producer.region]

\* _applicant_character_identity: a bare name is of the player's realm.
Character(name, player) ==
    <<name[1], IF name[2] = "" THEN player.realm ELSE name[2], player.region>>

\* _identity_context_changed
ContextChangedByRealm(name, delta) == delta.realm /\ name[2] = ""    \* mutant
ContextChanged(name, delta) == delta.region \/ (delta.realm /\ name[2] = "")

-----------------------------------------------------------------------------
(* Signals.                                                                 *)

ListingChanged(m) == [m EXCEPT !.seen.listing = m.listing, !.seen.leader = m.leader]
Cleared(m) == [m EXCEPT !.seen.applicants = NoRows]
RosterChanged(m) == [m EXCEPT !.seen.party = m.party]
ApplicantsTold(m, ids) ==
    [m EXCEPT !.seen.applicants =
        [i \in (DOMAIN @ \ ids) \cup (ids \cap DOMAIN m.applicants) |->
            IF i \in ids THEN m.applicants[i] ELSE @[i]]]
TellIf(c, m, told) == IF c THEN told ELSE m

-----------------------------------------------------------------------------
(* Rows.                                                                    *)

\* A decoded row and the one shown before, of the same character: a field that could
\* not be read keeps its value, unless the class changed or the context did; results
\* of Warcraft Logs are kept while they are of the same character in the same role.
Row(old, decoded, ctx, stable) ==
    LET cls == IF stable /\ decoded.cls = 0 THEN old.cls ELSE decoded.cls
        classChanged == old.cls # 0 /\ cls # 0 /\ old.cls # cls
        spec == IF stable /\ ~classChanged /\ decoded.spec = 0 THEN old.spec ELSE decoded.spec
    IN [name |-> decoded.name, cls |-> cls, spec |-> spec, ctx |-> ctx,
        data |-> IF stable /\ ~classChanged /\ spec = old.spec THEN old.data ELSE NoData]

NewRow(decoded, ctx) ==
    [name |-> decoded.name, cls |-> decoded.cls, spec |-> decoded.spec, ctx |-> ctx, data |-> NoData]

\* The rows of the previous snapshot in `kept` that the new one has again, and new ones.
Merged(kept, old, decoded, ctx, delta) ==
    [i \in DOMAIN decoded |->
        IF i \in kept THEN Row(old[i], decoded[i], ctx, ~ContextChanged(decoded[i].name, delta))
        ELSE NewRow(decoded[i], ctx)]

\* _apply_roster_snapshot
ApplyRoster(m, decoded, ctx, delta) ==
    LET new == Merged(DOMAIN m.party \cap DOMAIN decoded, m.party, decoded, ctx, delta)
        n == [m EXCEPT !.party = new]
    IN TellIf(new # m.party, n, RosterChanged(n))

WithoutData(rows, delta) ==
    [i \in DOMAIN rows |->
        IF ContextChanged(rows[i].name, delta) THEN [rows[i] EXCEPT !.data = NoData] ELSE rows[i]]

\* _refresh_preserved_identity_rows: rows the snapshot leaves alone, in a new context.
RefreshApplicantsSilently(m, delta) ==    \* mutant
    [m EXCEPT !.applicants = WithoutData(@, delta)]
RefreshApplicants(m, delta) ==
    ApplicantsTold([m EXCEPT !.applicants = WithoutData(@, delta)],
                   {i \in DOMAIN m.applicants : ContextChanged(m.applicants[i].name, delta)})
RefreshParty(m, delta) ==
    LET n == [m EXCEPT !.party = WithoutData(@, delta)]
    IN TellIf(n.party # m.party, n, RosterChanged(n))

\* The listing, the leader's key, the applicants or the whole of it are given up;
\* each part that changes is told.
Withdraw(m, listing, leader, decodedParty) ==
    LET n == [m EXCEPT !.listing = listing, !.leader = leader, !.applicants = NoRows]
        a == TellIf(listing # m.listing \/ leader # m.leader, n, ListingChanged(n))
        b == TellIf(m.listing # 0 \/ m.applicants # NoRows, a, Cleared(a))
    IN IF decodedParty THEN ApplyRoster(b, NoRows, NoCtx, [region |-> FALSE, realm |-> FALSE]) ELSE b

\* retire_screenshot_source
RetireSource(m) == [Withdraw(m, 0, 0, TRUE) EXCEPT !.player = NoPlayer, !.producer = NoPlayer]

\* recover_snapshot_apply_failure: everything is told anew.
Recover(m) ==
    [Machine EXCEPT !.wclRegion = m.wclRegion]

\* expire_restored_snapshot_surfaces
ExpireSurfaces(m, applicants, listing, party) ==
    LET a == IF listing THEN Withdraw(m, 0, 0, FALSE)
             ELSE IF applicants THEN LET n == [m EXCEPT !.applicants = NoRows]
                                     IN TellIf(m.applicants # NoRows, n, Cleared(n))
             ELSE m
    IN IF party THEN ApplyRoster(a, NoRows, NoCtx, [region |-> FALSE, realm |-> FALSE]) ELSE a
-----------------------------------------------------------------------------
(* apply_snapshot. A snapshot's flags: `terminal` the group finder was left,*)
(* `lfg`, `partyNA`, `applicantsNA` a part could not be read.               *)

\* snapshot_rio_context
CtxOf(listing, leader) == <<listing, IF listing \in KeyListings THEN 0 ELSE leader>>
RioContext(snap, preserved) ==
    IF preserved # NoCtx THEN preserved ELSE CtxOf(snap.listing, snap.leader)

\* _resolve_snapshot_player
SnapshotPlayer(player, snap) == FoldLeft(ResolvePlayer, player, Append(snap.history, snap.version))

\* What of the context of the rows changes (_apply_version_block).
Delta(m, snap) ==
    IF snap.version = NoVersion THEN [region |-> FALSE, realm |-> FALSE]
    ELSE LET new == SnapshotPlayer(m.player, snap)
         IN [region |-> new.region # 0 /\ new.region # m.player.region,
             realm |-> new.realm # "" /\ new.realm # m.player.realm]

\* _apply_version_block and _apply_player_identity.
ApplyVersion(m, snap) ==
    IF snap.version = NoVersion THEN m
    ELSE LET new == SnapshotPlayer(m.player, snap)
             changed == OtherPlayer(m.producer, new)
             n == IF changed THEN RetireSource(m) ELSE m
         IN [n EXCEPT !.player = new,
                      !.producer = Producer(m.producer, new, changed),
                      !.wclRegion = IF new.region \notin {0, m.player.region} THEN new.region ELSE @]

\* The diff of the applicants: a row whose character changed is removed and added.
ApplyApplicants(m, snap, delta) ==
    LET decoded == IF snap.applicantsNA THEN NoRows ELSE snap.applicants
        old == m.applicants
        kept == {i \in DOMAIN old \cap DOMAIN decoded :
                    Character(old[i].name, m.player) = Character(decoded[i].name, m.player)}
        new == Merged(kept, old, decoded, RioContext(snap, snap.applicantsCtx), delta)
        told == {i \in DOMAIN old \cup DOMAIN decoded :
                    IF i \in kept THEN new[i] # old[i] ELSE TRUE}
    IN ApplicantsTold([m EXCEPT !.applicants = new], told)

\* _apply_listing_block, and what apply_snapshot does if it did not consume the snapshot.
ApplySurfaces(m, snap, delta) ==
    LET leader == IF snap.lfg /\ snap.leader = 0 THEN m.leader ELSE snap.leader
        withParty(n) == IF snap.partyNA THEN n
                        ELSE ApplyRoster(n, snap.party, RioContext(snap, snap.partyCtx), delta)
        withListing(n, listing) ==
            LET k == [n EXCEPT !.listing = listing, !.leader = leader]
            IN TellIf(k.listing # n.listing \/ leader # n.leader, k, ListingChanged(k))
        preserved(n) == IF snap.partyNA THEN RefreshParty(RefreshApplicants(n, delta), delta)
                        ELSE RefreshApplicants(n, delta)
    IN CASE snap.terminal -> Withdraw(m, 0, 0, TRUE)
         [] ~snap.terminal /\ snap.lfg ->
                withListing(preserved(withParty(m)), IF m.listing = 0 THEN snap.listing ELSE m.listing)
         [] ~snap.terminal /\ ~snap.lfg /\ snap.listing = 0 ->
                IF m.listing # 0 THEN withParty(Withdraw(m, 0, leader, FALSE))
                ELSE withListing(withParty(m), 0)
         [] ~snap.terminal /\ ~snap.lfg /\ snap.listing # 0 ->
                IF snap.applicantsNA /\ snap.listing = m.listing
                THEN withListing(preserved(withParty(m)), snap.listing)
                ELSE withParty(ApplyApplicants(withListing(m, snap.listing), snap, delta))

Apply(m, snap) ==
    LET m0 == IF snap.reset THEN [m EXCEPT !.producer = NoPlayer] ELSE m
        delta == Delta(m0, snap)
        m1 == ApplyVersion(m0, snap)
        m2 == IF ~snap.terminal /\ ~snap.lfg /\ snap.partyNA THEN RefreshParty(m1, delta) ELSE m1
    IN ApplySurfaces(m2, snap, delta)
=============================================================================
