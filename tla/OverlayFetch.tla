------------------------------ MODULE OverlayFetch ------------------------------
(***************************************************************************)
(* How the overlay (overlay.py, overlay_fetch.py, fetch_operation.py)      *)
(* fetches Warcraft Logs data for its rows.                                *)
(*                                                                         *)
(* Rows come and go with the snapshots StateMachine applies (__main__.py). *)
(* A row that needs data is served by the cache, joins the worker that     *)
(* fetches the same target already, or starts a worker with an operation   *)
(* of its own.  _fetches_in_flight tracks one identity per row;            *)
(* _fetch_waiters_by_target tells who waits on which completion route.     *)
(* Preferences, credentials, the listing and the rows change while workers *)
(* run; an operation nobody waits for is retired.                          *)
(*                                                                         *)
(* Everything but the workers runs on the GUI thread.  A cache hit         *)
(* completes inside the launch and may launch again, so what a handler has *)
(* still to do is a stack of calls, and a worker's answer is received when *)
(* it is empty.                                                            *)
(*                                                                         *)
(* The cache may know an answer, or hold one back, at any time: what it    *)
(* publishes when is CharacterCache's affair.  The fetches of a row's raid *)
(* bosses go through the same functions with maps of their own and are     *)
(* left out.                                                               *)
(***************************************************************************)
EXTENDS Naturals, Sequences, FiniteSets

CONSTANTS Applicants,  \* rows of the applicants
          Members,     \* rows of the party
          Characters,
          NoRealm,     \* a name without a realm, for which there is no target
          NoFetch,     \* no tracked identity
          Absent,      \* no row
          Specs,       \* "known" and "unknown" specs
          Choices,     \* the preferences the user may choose
          Private,     \* the scopes that a character may keep private
          MaxChanges   \* bound: snapshots, settings and retries

ASSUME RowsAssumption == Applicants \cap Members = {}
ASSUME SentinelAssumption == NoRealm \notin Characters
ASSUME ChoiceAssumption ==
    /\ Specs \subseteq {"known", "unknown"}
    /\ Choices \subseteq SUBSET {"mplus", "raid"} /\ Private \subseteq {"mplus", "raid"}
ASSUME BoundAssumption == MaxChanges \in Nat

Rows == Applicants \cup Members
Sources == {"applicants", "party"}
RowsOf(source) == IF source = "party" THEN Members ELSE Applicants

\* What can be asked of a character: the Mythic+ scope needs a known spec.
Scopes == {"mplus", "raid"}
Preferences == SUBSET Scopes
Targets == [char : Characters, spec : Specs]
             \cup [char : {NoRealm}, spec : {"known"}]
EffectivePreferences(target, p) == IF target.spec = "known" THEN p ELSE p \ {"mplus"}

VARIABLES
    row,          \* the rows: Applicant and RosterMember
    prefs,        \* _metric_preferences
    runtime,      \* _wcl_runtime_generation
    session,      \* _listing_session_generation
    provisional,  \* the sources restored from the cache and not confirmed
    tracked,      \* _fetches_in_flight
    waiting,      \* _fetch_waiters_by_target
    retired,      \* retired operations that are still referred to
    tasks,        \* _FetchTasks whose answer has not been received, by identity
    calls,        \* what the GUI thread's current handler has still to do
    closed,       \* _closed
    changesLeft   \* see MaxChanges

worldVars == <<prefs, runtime, session, provisional>>
trackVars == <<tracked, waiting, retired>>
vars == <<row, worldVars, trackVars, tasks, calls, closed, changesLeft>>

Statuses == {"pending", "loading", "ready", "restricted", "not_found", "error"}
\* covers: the scopes its data covers; private: those that are restricted;
\* source is history: whose data it is, and with which credentials fetched.
Row == [target : Targets, status : Statuses, covers : Preferences, private : Preferences,
        source : {NoFetch} \cup (Targets \X Nat)]
NewRow(target) == [target |-> target, status |-> "pending", covers |-> {}, private |-> {},
                   source |-> NoFetch]
Cleared(r, status) == [NewRow(r.target) EXCEPT !.status = status]

Identity == [row : Rows, target : Targets, runtime : Nat, session : Nat,
             prefs : Preferences, op : Nat]
Key(i) == [target |-> i.target, runtime |-> i.runtime, session |-> i.session, prefs |-> i.prefs]
\* Equality of identities disregards the operation.
Bare(i) == [i EXCEPT !.op = 0]
IdentityOf(r, target, s) ==
    [row |-> r, target |-> target, runtime |-> runtime, session |-> s,
     prefs |-> EffectivePreferences(target, prefs), op |-> 0]
Current(r) == IdentityOf(r, row[r].target, session)
SameTarget(i, j) == i.target = j.target /\ i.runtime = j.runtime /\ i.session = j.session

Present == {r \in Rows : row[r] # Absent}
IsTracked(i) == tracked[i.row] # NoFetch /\ Bare(tracked[i.row]) = Bare(i)
TrackedOps == {tracked[r].op : r \in {q \in Rows : tracked[q] # NoFetch}}
WaitingOn(route) == {w.id : w \in {v \in waiting : v.route = route}}

\* A call that is still to be made, for one or several rows.
Call(name, rs) == [call |-> name, rows |-> rs]
ForEach(name, rs, rest) == IF rs = {} THEN rest ELSE <<Call(name, rs)>> \o rest
Top(name) == calls # <<>> /\ Head(calls).call = name
Rest == Tail(calls)
\* The stack with the top call made for row r.
After(r) == ForEach(Head(calls).call, Head(calls).rows \ {r}, Rest)
OpsInCalls == UNION {calls[n].ops : n \in {k \in DOMAIN calls : calls[k].call = "fan"}}

Outstanding == TrackedOps \cup {t.op : t \in tasks} \cup {w.id.op : w \in waiting}
FreshOp == LET used == Outstanding \cup retired \cup OpsInCalls
           IN CHOOSE n \in 1..(Cardinality(used) + 1) :
                n \notin used /\ \A k \in 1..(n - 1) : k \in used

TypeOK ==
    /\ row \in [Rows -> Row \cup {Absent}]
    /\ prefs \in Preferences /\ runtime \in Nat /\ session \in Nat
    /\ provisional \subseteq Sources
    /\ tracked \in [Rows -> Identity \cup {NoFetch}]
    /\ waiting \subseteq [route : [target : Targets, runtime : Nat, session : Nat,
                                   prefs : Preferences], id : Identity]
    /\ retired \subseteq Nat \ {0}
    /\ tasks \subseteq Identity
    /\ closed \in BOOLEAN /\ changesLeft \in 0..MaxChanges

Init ==
    /\ \/ row = [r \in Rows |-> Absent] /\ provisional = {}
       \/ /\ row \in [Rows -> {Absent} \cup {NewRow(t) : t \in Targets}]
          /\ provisional = Sources
    /\ prefs = Scopes /\ runtime = 0 /\ session = 0
    /\ tracked = [r \in Rows |-> NoFetch] /\ waiting = {} /\ retired = {}
    /\ tasks = {} /\ calls = <<>>
    /\ closed = FALSE /\ changesLeft = MaxChanges

-----------------------------------------------------------------------------
(* Tracking. *)

\* _discard_tracked_fetch, for each row of rs: the operation of a route on
\* which nobody waits any more is retired.
NoneRetired(before, after) == {}    \* mutant
RetiredBy(before, after) ==
    {w.id.op : w \in {v \in before : \A u \in after : u.id.op # v.id.op}}
Discard(rs) ==
    LET left == {w \in waiting : ~(w.id.row \in rs /\ w.id = tracked[w.id.row])}
    IN /\ tracked' = [r \in Rows |-> IF r \in rs THEN NoFetch ELSE tracked[r]]
       /\ waiting' = left
       /\ retired' = retired \cup RetiredBy(waiting, left)

\* _tracked_fetch_covers.
Covered(i) ==
    LET t == tracked[i.row]
    IN t # NoFetch /\ t.op \notin retired /\ SameTarget(t, i) /\ i.prefs \subseteq t.prefs

\* _retire_inapplicable_fetches: what the row asks for now is not what it waits for.
Inapplicable(r, target) ==
    /\ tracked[r] # NoFetch
    /\ LET i == IdentityOf(r, target, session)
       IN \/ target.char = NoRealm
          \/ i.prefs = {}
          \/ ~SameTarget(tracked[r], i)
          \/ ~(i.prefs \subseteq tracked[r].prefs)

\* _coalesce_tracked_fetch: the waiters who wait for the same.
OwnersByRoute(i) == {w \in waiting : w.route = Key(i) /\ w.id.op \notin retired}    \* mutant
Owners(i) ==
    {w \in waiting : /\ Key(w.id) = Key(i)
                     /\ tracked[w.id.row] = w.id
                     /\ w.id.op \notin retired}

-----------------------------------------------------------------------------
(* _launch_fetch of a row. *)

HasTarget(r) == row[r].target.char # NoRealm
WantsNothing(r) == prefs = {} \/ (HasTarget(r) /\ Current(r).prefs = {})

LaunchRefused(r) ==
    /\ WantsNothing(r) \/ ~HasTarget(r) \/ Covered(Current(r))
    /\ row' = [row EXCEPT ![r] =
                 IF WantsNothing(r) THEN Cleared(@, "ready")
                 ELSE IF ~HasTarget(r) THEN [@ EXCEPT !.status = "error"] ELSE @]
    /\ calls' = After(r)
    /\ UNCHANGED <<trackVars, tasks>>

Launchable(r) == ~WantsNothing(r) /\ HasTarget(r) /\ ~Covered(Current(r))

\* The cache completes it at once.
Delivery(i, ok) == [call |-> "deliver", id |-> i, ok |-> ok]
LaunchFromCache(r) ==
    /\ Launchable(r)
    /\ calls' = <<Delivery(Current(r), TRUE)>> \o After(r)
    /\ UNCHANGED <<row, trackVars, tasks>>

Loading(r) == row' = [row EXCEPT ![r].status = "loading"]

\* It joins the worker of another row.
Join(i, owner) ==
    LET shared == [i EXCEPT !.op = owner.id.op]
        leaves == tracked[i.row] # NoFetch /\ tracked[i.row].op # owner.id.op
        left == IF leaves THEN {w \in waiting : w.id # tracked[i.row]} ELSE waiting
    IN /\ tracked' = [tracked EXCEPT ![i.row] = shared]
       /\ waiting' = {w \in left : ~(w.route = owner.route /\ w.id.row = i.row)}
                       \cup {[route |-> owner.route, id |-> shared]}
       /\ retired' = retired \cup RetiredBy(waiting, left)

LaunchJoins(r) ==
    /\ Launchable(r)
    /\ \E owner \in Owners(Current(r)) : Join(Current(r), owner)
    /\ Loading(r)
    /\ calls' = After(r)
    /\ UNCHANGED tasks

\* It starts a worker of its own.
LaunchStarts(r) ==
    /\ Launchable(r) /\ Owners(Current(r)) = {}
    /\ LET i == [Current(r) EXCEPT !.op = FreshOp]
           left == {w \in waiting : w.id # tracked[r]}
       IN /\ tracked' = [tracked EXCEPT ![r] = i]
          /\ waiting' = {w \in left : ~(w.route = Key(i) /\ w.id.row = r)}
                          \cup {[route |-> Key(i), id |-> i]}
          /\ retired' = retired \cup RetiredBy(waiting, left)
          /\ tasks' = tasks \cup {i}
    /\ Loading(r)
    /\ calls' = After(r)

Launch ==
    /\ Top("launch")
    /\ \E r \in Head(calls).rows :
         LaunchRefused(r) \/ LaunchFromCache(r) \/ LaunchJoins(r) \/ LaunchStarts(r)
    /\ UNCHANGED <<worldVars, closed, changesLeft>>

-----------------------------------------------------------------------------
(* _FetchTask.run: a worker answers, unless it notices its retirement.     *)
(* When it has its answer does not matter before the GUI thread receives   *)
(* it, so that is one step.                                                *)

Vanish ==
    /\ \E t \in tasks :
         /\ t.op \in retired
         /\ tasks' = tasks \ {t} /\ retired' = retired \ {t.op}
    /\ UNCHANGED <<row, worldVars, tracked, waiting, calls, closed, changesLeft>>

-----------------------------------------------------------------------------
(* _on_fetch_done. *)

\* _operation_owns_route.
OwnsNothing(i) == FALSE    \* mutant
OwnsRoute(i) ==
    LET ids == WaitingOn(Key(i))
    IN i.op \notin retired /\ ids # {} /\ \A j \in ids : j.op = i.op

\* A worker's answer: all who wait on its route are served.
FanOut(ids, ops, ok) == [call |-> "fan", ids |-> ids, ops |-> ops, ok |-> ok]

ReceiveAnswer ==
    /\ calls = <<>>
    /\ \E t \in tasks :
         /\ tasks' = tasks \ {t}
         /\ \/ /\ closed \/ ~OwnsRoute(t)
               /\ retired' = retired \ {t.op} /\ UNCHANGED <<waiting, calls>>
            \/ /\ ~closed /\ OwnsRoute(t)
               /\ waiting' = {w \in waiting : w.route # Key(t)}
               /\ \E ok \in BOOLEAN : calls' = <<FanOut(WaitingOn(Key(t)), {t.op}, ok)>>
               /\ UNCHANGED retired
    /\ UNCHANGED <<row, worldVars, tracked, closed, changesLeft>>

\* A waiter whose fetch was dropped or replaced meanwhile is passed over.
StillWaits(i) == i.op = 0 \/ tracked[i.row] = i

ServeNext ==
    /\ Top("fan")
    /\ LET fan == Head(calls) IN
         \E i \in fan.ids :
           LET rest == <<[fan EXCEPT !.ids = @ \ {i}]>> \o Rest
           IN calls' = IF StillWaits(i) THEN <<Delivery(Bare(i), fan.ok)>> \o rest ELSE rest
    /\ UNCHANGED <<row, worldVars, trackVars, tasks, closed, changesLeft>>

AllServed ==
    /\ Top("fan") /\ Head(calls).ids = {}
    /\ retired' = retired \cup (Head(calls).ops \cap Outstanding)
    /\ calls' = Rest
    /\ UNCHANGED <<row, worldVars, tracked, waiting, tasks, closed, changesLeft>>

\* A result without an operation goes to the route of its target if there is
\* one (_fetch_completion_route_key), and else to its row.
RoutesFor(i) ==
    LET routes == {w.route : w \in waiting}
    IN IF Key(i) \in routes THEN {Key(i)}
       ELSE {w.route : w \in {v \in waiting : Key(v.id) = Key(i)}}

DeliverToRoute ==
    /\ Top("deliver")
    /\ LET d == Head(calls) IN
         \E route \in RoutesFor(d.id) :
           LET ids == WaitingOn(route)
               own == IF \E j \in ids : j.row = d.id.row THEN {} ELSE {d.id}
           IN /\ waiting' = {w \in waiting : w.route # route}
              /\ calls' = <<FanOut(ids \cup own, {j.op : j \in ids}, d.ok)>> \o Rest
    /\ UNCHANGED <<row, worldVars, tracked, retired, tasks, closed, changesLeft>>

\* The delivery to a row, reconcile_fetch_done deciding what becomes of it.
DataCovers(r) ==
    /\ \/ row[r].status = "ready"
       \/ row[r].status = "restricted" /\ Current(r).prefs \subseteq row[r].private
    /\ row[r].covers # {} /\ Current(r).prefs \subseteq row[r].covers
FetchedCurrent(i) == SameTarget(Current(i.row), i) /\ Current(i.row).prefs \subseteq i.prefs

\* project_wcl_data_to_preferences.
Projected(r, p) ==
    LET hidden == r.private \cap p
    IN [r EXCEPT !.covers = IF p \subseteq r.covers THEN p ELSE {},
                 !.private = hidden,
                 !.status = IF r.status \notin {"ready", "restricted"} THEN r.status
                            ELSE IF p \subseteq hidden THEN "restricted" ELSE "ready"]

DropTracked(i) == Discard(IF IsTracked(i) THEN {i.row} ELSE {})

DeliverNothing(i) ==
    /\ \/ row[i.row] = Absent /\ UNCHANGED row
       \/ /\ row[i.row] # Absent
          /\ \/ WantsNothing(i.row) /\ row' = [row EXCEPT ![i.row] = Cleared(@, "ready")]
             \/ /\ prefs # {} /\ ~HasTarget(i.row)
                /\ row' = [row EXCEPT ![i.row] = Cleared(@, "error")]
    /\ DropTracked(i)
    /\ calls' = Rest

Deliverable(i) == row[i.row] # Absent /\ ~WantsNothing(i.row) /\ HasTarget(i.row)

AlreadyCurrent(i) ==
    ~IsTracked(i) /\ row[i.row].status = "ready" /\ DataCovers(i.row) /\ FetchedCurrent(i)

\* The answer is for another target, or for less: the row is fetched anew
\* unless it has a result of its own or is fetched already.
DeliverStale(i) ==
    /\ Deliverable(i) /\ ~FetchedCurrent(i)
    /\ DropTracked(i)
    /\ IF \/ row[i.row].status \in {"error", "not_found", "restricted"}
          \/ DataCovers(i.row)
          \/ Covered(Current(i.row)) /\ ~IsTracked(i)
       THEN UNCHANGED row /\ calls' = Rest
       ELSE /\ row' = [row EXCEPT ![i.row] = Cleared(@, "pending")]
            /\ calls' = <<Call("launch", {i.row})>> \o Rest

DeliverAgain(i) ==
    /\ Deliverable(i) /\ AlreadyCurrent(i)
    /\ calls' = Rest
    /\ UNCHANGED <<row, trackVars>>

\* Ranks, of which any part may be private.
DeliverRanks(i) ==
    /\ Deliverable(i) /\ FetchedCurrent(i) /\ ~AlreadyCurrent(i)
    /\ \E private \in SUBSET (i.prefs \cap Private) :
         row' = [row EXCEPT ![i.row] =
                   Projected([@ EXCEPT !.status = "ready", !.covers = i.prefs,
                                       !.private = private,
                                       !.source = <<i.target, i.runtime>>],
                             Current(i.row).prefs)]
    /\ DropTracked(i)
    /\ calls' = Rest

DeliverError(i) ==
    /\ Deliverable(i) /\ FetchedCurrent(i) /\ ~AlreadyCurrent(i)
    /\ row' = [row EXCEPT ![i.row] = Cleared(@, "error")]
    /\ DropTracked(i)
    /\ calls' = Rest

\* _apply_character_not_found: every fetch of the character that began before
\* the proof is dropped and its rows are told; later names the operations that
\* began after it.
SameCharacter(i, r) ==
    tracked[r] # NoFetch /\ tracked[r].target.char = i.target.char
      /\ tracked[r].runtime = i.runtime /\ tracked[r].session = i.session
OthersOf(i) == {r \in Rows : SameCharacter(i, r) /\ ~(r = i.row /\ IsTracked(i))}
DeliverNotFound(i) ==
    /\ Deliverable(i) /\ FetchedCurrent(i) /\ ~AlreadyCurrent(i)
    /\ \E later \in SUBSET {tracked[r].op : r \in OthersOf(i)} :
         LET kept == {r \in OthersOf(i) : tracked[r].op \in later}
             gone == (OthersOf(i) \ kept) \cup (IF IsTracked(i) THEN {i.row} ELSE {})
         IN /\ Discard(gone)
            /\ row' = [r \in Rows |->
                 IF row[r] = Absent \/ row[r].target.char # i.target.char THEN row[r]
                 ELSE Cleared(row[r], IF r \in kept /\ r # i.row THEN "loading" ELSE "not_found")]
    /\ calls' = Rest

DeliverToRow ==
    /\ Top("deliver") /\ RoutesFor(Head(calls).id) = {}
    /\ LET i == Head(calls).id IN
         \/ DeliverNothing(i) \/ DeliverStale(i) \/ DeliverAgain(i)
         \/ Head(calls).ok /\ (DeliverRanks(i) \/ DeliverNotFound(i))
         \/ ~Head(calls).ok /\ DeliverError(i)
    /\ UNCHANGED <<worldVars, tasks, closed, changesLeft>>

-----------------------------------------------------------------------------
(* Snapshots: StateMachine changes the rows and tells the overlay. *)

OneChange == ~closed /\ calls = <<>> /\ changesLeft > 0 /\ changesLeft' = changesLeft - 1
Contents(rs) == [rs -> Targets \cup {Absent}]
Content(rs) == [r \in rs |-> IF row[r] = Absent THEN Absent ELSE row[r].target]

Changes(rs, new, rest) ==
    IF rs = {} THEN rest ELSE <<[call |-> "change", rows |-> rs, new |-> new]>> \o rest
NewRoster(new, rest) ==
    IF \A r \in Members : new[r] = Content(Rows)[r] THEN rest
    ELSE <<[call |-> "roster", new |-> new]>> \o rest
Confirmation(sources) ==
    IF sources = {} THEN <<>> ELSE <<[call |-> "confirm", sources |-> sources]>>

\* A slot that another character takes over is a removal and an addition; for
\* the same character with another spec the row stays and is cleared.
KeepsOldData(r, target) ==    \* mutant: another spec keeps the data
    row[r] # Absent /\ target # Absent /\ row[r].target.char = target.char
KeepsData(r, target) == row[r] # Absent /\ row[r].target = target
RowAfter(r, target) ==
    IF target = Absent THEN Absent
    ELSE IF KeepsData(r, target) THEN [row[r] EXCEPT !.target = target] ELSE NewRow(target)

\* on_applicant_removed for those that are gone or replaced; the others follow,
\* then the party, and last note_snapshot_applied.
ApplySnapshot ==
    /\ OneChange
    /\ \E new \in Contents(Rows), sources \in SUBSET provisional :
         LET old == Content(Rows)
             changed == {r \in Applicants : new[r] # old[r]}
             removed == {r \in changed : \/ new[r] = Absent /\ old[r] # Absent
                                        \/ /\ new[r] # Absent /\ old[r] # Absent
                                           /\ new[r].char # old[r].char}
         IN /\ changed # {} => "applicants" \notin provisional \ sources
            /\ "party" \in provisional \ sources => \A r \in Members : new[r] = old[r]
            /\ Discard(removed)
            /\ row' = [r \in Rows |-> IF r \in removed THEN Absent ELSE row[r]]
            /\ calls' = Changes({r \in changed : new[r] # Absent}, new,
                          NewRoster(new, Confirmation(sources)))
    /\ UNCHANGED <<worldVars, tasks, closed>>

\* on_applicant_added, on_applicant_updated.
ChangeApplicant ==
    /\ Top("change")
    /\ LET change == Head(calls) IN
         \E r \in change.rows :
           LET rest == Changes(change.rows \ {r}, change.new, Rest)
               after == RowAfter(r, change.new[r])
           IN /\ row' = [row EXCEPT ![r] = after]
              /\ Discard(IF Inapplicable(r, change.new[r]) THEN {r} ELSE {})
              /\ calls' = IF after.status = "pending" /\ "applicants" \notin provisional
                          THEN <<Call("launch", {r})>> \o rest ELSE rest
    /\ UNCHANGED <<worldVars, tasks, closed, changesLeft>>

\* _apply_roster_snapshot and on_roster_changed.
ChangeRoster ==
    /\ Top("roster")
    /\ LET new == Head(calls).new IN
         /\ row' = [r \in Rows |-> IF r \in Members THEN RowAfter(r, new[r]) ELSE row[r]]
         /\ Discard({r \in Members : new[r] = Absent})
         /\ calls' = ForEach("refresh", {r \in Members : new[r] # Absent}, Rest)
    /\ UNCHANGED <<worldVars, tasks, closed, changesLeft>>

RefreshMember ==
    /\ Top("refresh")
    /\ \E r \in Head(calls).rows :
         /\ Discard(IF Inapplicable(r, row[r].target) THEN {r} ELSE {})
         /\ calls' = IF row[r].status = "pending" /\ "party" \notin provisional
                     THEN <<Call("launch", {r})>> \o After(r) ELSE After(r)
    /\ UNCHANGED <<row, worldVars, tasks, closed, changesLeft>>

\* note_snapshot_applied releases the sources the snapshot has confirmed.
NotReleased(r) == FALSE    \* mutant
Released(r) == row[r].status = "pending"
Confirm ==
    /\ Top("confirm")
    /\ LET confirmed == Head(calls).sources \cap provisional
           rs == {r \in Present : Released(r) /\ \E s \in confirmed : r \in RowsOf(s)}
       IN /\ provisional' = provisional \ confirmed
          /\ calls' = ForEach("launch", rs, Rest)
    /\ UNCHANGED <<row, prefs, runtime, session, trackVars, tasks, closed, changesLeft>>

-----------------------------------------------------------------------------
(* The listing ends: on_cleared, after the rows have changed. *)

\* _rebind_unchanged_party_fetch_state: a member whose target is the same
\* waits on, for the new session; the running worker's route stays as it is.
NewRoute(w, i) == Key(i)    \* mutant
CompletionRoute(w, i) == w.route
Rebound(w, new) ==
    LET r == w.id.row
        i == [w.id EXCEPT !.session = session + 1]
    IN IF /\ r \in Members /\ tracked[r] = w.id
          /\ new[r] # Absent /\ new[r].char # NoRealm
          /\ Bare(i) = IdentityOf(r, new[r], session + 1)
       THEN {[route |-> CompletionRoute(w, i), id |-> i]} ELSE {}

\* What remains of the handler is done after that.
ClearListing(new, remaining) ==
    LET left == UNION {Rebound(w, new) : w \in waiting}
        present == {r \in Members : new[r] # Absent}
        restored == {r \in present : /\ tracked[r] # NoFetch
                                     /\ RowAfter(r, new[r]).status \in {"pending", "loading"}}
        unchanged == new = Content(Members)
    IN /\ session' = session + 1
       /\ row' = [r \in Rows |-> IF r \in Members THEN RowAfter(r, new[r]) ELSE Absent]
       /\ waiting' = left
       /\ tracked' = [r \in Rows |-> IF \E w \in left : w.id.row = r
                                     THEN (CHOOSE w \in left : w.id.row = r).id ELSE NoFetch]
       /\ retired' = retired \cup RetiredBy(waiting, left)
       /\ calls' = ForEach("launch", restored,
                     ForEach("refresh", IF unchanged THEN {} ELSE present, remaining))

\* A snapshot without a listing, with or without a new roster.
EndListing ==
    /\ OneChange
    /\ \E new \in Contents(Members), sources \in SUBSET provisional :
         /\ "applicants" \notin provisional \ sources
         /\ "party" \in provisional \ sources => new = Content(Members)
         /\ ClearListing(new, Confirmation(sources))
    /\ UNCHANGED <<prefs, runtime, provisional, tasks, closed>>

\* _expire_restored_snapshot: the sources nothing has confirmed are dropped.
ExpireRestored ==
    /\ ~closed /\ calls = <<>> /\ provisional # {}
    /\ provisional' = {}
    /\ LET new == [r \in Members |-> IF "party" \in provisional THEN Absent ELSE Content(Rows)[r]]
       IN IF "applicants" \in provisional
          THEN ClearListing(new, <<>>)
          ELSE /\ calls' = NewRoster(new, <<>>)
               /\ UNCHANGED <<row, session, trackVars>>
    /\ UNCHANGED <<prefs, runtime, tasks, closed, changesLeft>>

-----------------------------------------------------------------------------
(* Settings, retries and the end. *)

\* apply_metric_preferences; new credentials or a new region follow it with
\* bump_wcl_runtime_generation and leave the fetching to that.
ApplyPreferences ==
    /\ OneChange
    /\ prefs' \in Choices
    /\ calls' \in {ForEach("preferences", Present, <<>>),
                   ForEach("project", Present, <<Call("bump", {})>>)}
    /\ UNCHANGED <<row, runtime, session, provisional, trackVars, tasks, closed>>

AdjustRow ==
    /\ Top("preferences") \/ Top("project")
    /\ \E r \in Head(calls).rows :
         LET eff == EffectivePreferences(row[r].target, prefs)
             projected == Projected(row[r], eff)
             lacking == /\ Top("preferences")
                        /\ projected.status = "ready" /\ ~(eff \subseteq projected.covers)
         IN /\ Discard(IF eff = {} \/ Inapplicable(r, row[r].target) THEN {r} ELSE {})
            /\ IF eff = {}
               THEN row' = [row EXCEPT ![r] = Cleared(@, "ready")] /\ calls' = After(r)
               ELSE /\ row' = [row EXCEPT ![r] = IF lacking THEN Cleared(@, "pending")
                                                ELSE projected]
                    /\ calls' = IF lacking \/ projected.status \in {"pending", "loading"}
                                THEN <<Call("launch", {r})>> \o After(r) ELSE After(r)
    /\ UNCHANGED <<worldVars, tasks, closed, changesLeft>>

BumpRuntime ==
    /\ Top("bump")
    /\ runtime' = runtime + 1
    /\ Discard(Rows)
    /\ row' = [r \in Rows |-> IF row[r] = Absent THEN Absent ELSE Cleared(row[r], "pending")]
    /\ calls' = ForEach("launch", Present, Rest)
    /\ UNCHANGED <<prefs, session, provisional, tasks, closed, changesLeft>>

\* _retry_failed_wcl_fetches and _retry_visible_wcl_error; a batch is one
\* after the other.
Retry ==
    /\ OneChange /\ prefs # {}
    /\ \E r \in Present :
         /\ row[r].status = "error" /\ HasTarget(r) /\ ~Covered(Current(r))
         /\ row' = [row EXCEPT ![r] = Cleared(@, "pending")]
         /\ calls' = <<Call("launch", {r})>>
    /\ UNCHANGED <<worldVars, trackVars, tasks, closed>>

\* _begin_terminal_shutdown and shutdown_fetches: queued workers are discarded.
Shutdown ==
    /\ ~closed /\ calls = <<>>
    /\ closed' = TRUE
    /\ Discard(Rows)
    /\ tasks' \in SUBSET tasks
    /\ UNCHANGED <<row, worldVars, calls, changesLeft>>

-----------------------------------------------------------------------------
Complete == ServeNext \/ AllServed \/ DeliverToRoute \/ DeliverToRow
ApplyRows == ChangeApplicant \/ ChangeRoster \/ RefreshMember \/ Confirm
Handle == Launch \/ Complete \/ ApplyRows \/ AdjustRow \/ BumpRuntime

Next ==
    \/ ApplySnapshot \/ EndListing \/ ExpireRestored
    \/ ApplyPreferences \/ Retry \/ Shutdown
    \/ Handle \/ Vanish \/ ReceiveAnswer

Spec == Init /\ [][Next]_vars

\* Handlers run to their end, requests end (the client has time limits), and
\* the event loop delivers what was posted.
FairSpec ==
    Spec /\ WF_vars(Handle) /\ WF_vars(ReceiveAnswer)

-----------------------------------------------------------------------------
(* Properties.  Handlers are atomic for the rest of the program: most hold     *)
(* between them.                                                           *)

Idle == calls = <<>> /\ ~closed

\* A row that shows "loading" waits on the route of a worker that has yet to
\* answer, whatever happened to the row, to those it shares the worker with,
\* to the listing and to the settings: it does not load for ever.
LoadingIsServed ==
    Idle => \A r \in Present : row[r].status = "loading" =>
        /\ tracked[r] # NoFetch
        /\ \E w \in waiting :
             /\ w.id = tracked[r]
             /\ \E t \in tasks : t.op = w.id.op /\ Key(t) = w.route /\ OwnsRoute(t)

\* No worker is let run for nobody, and what is tracked is what the rows ask for.
OperationsAreWanted ==
    calls = <<>> =>
        /\ \A t \in tasks : t.op \in retired \/ t.op \in TrackedOps
        /\ \A r \in Rows : tracked[r] # NoFetch =>
             row[r] # Absent /\ ~Inapplicable(r, row[r].target)

\* Rows with the same target share one worker, those of the party that waited
\* through the end of a listing included.
OneFetchPerTarget ==
    calls = <<>> => \A q, r \in Rows :
        tracked[q] # NoFetch /\ tracked[r] # NoFetch /\ Key(tracked[q]) = Key(tracked[r])
          => tracked[q].op = tracked[r].op

\* Only rows that were restored and not confirmed are left without a fetch.
PendingIsProvisional ==
    Idle => \A r \in Present : row[r].status = "pending" =>
        \E s \in provisional : r \in RowsOf(s)

\* What a row shows was fetched for the character and spec it stands for, with
\* the credentials in force, and covers what is enabled.
ShownIsCurrent ==
    Idle => \A r \in Present : row[r].status \in {"ready", "restricted"} =>
        \/ Current(r).prefs = {}
        \/ row[r].source = <<row[r].target, runtime>> /\ DataCovers(r)

\* Together: rows and fetches belong to each other at every rest of the overlay, and
\* what a row shows belongs to what it stands for.
RowsAreServed ==
    /\ TypeOK /\ LoadingIsServed /\ OperationsAreWanted /\ OneFetchPerTarget
    /\ PendingIsProvisional /\ ShownIsCurrent

\* Every row ends with data, with an answer or with an error.
RowsSettle ==
    []<>(closed \/ \A r \in Present : \/ row[r].status \notin {"pending", "loading"}
                                      \/ \E s \in provisional : r \in RowsOf(s))
=============================================================================
