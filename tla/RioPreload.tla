----------------------------- MODULE RioPreload -----------------------------
(***************************************************************************)
(* How the rows get the local RaiderIO data (__main__.py: StateMachine;    *)
(* raiderio_local.py: preload_region_async).  A snapshot looks up what the *)
(* reader has loaded and never waits for a load.  The load of a region     *)
(* runs on a thread of its own; its completion comes back as a queued      *)
(* signal that has the rows looked up again, unless the region, the client *)
(* or a later request has overtaken it.                                    *)
(*                                                                         *)
(* A new Screenshots folder brings a new reader.  Its watcher applies      *)
(* snapshots with that reader even if the machine could not be given it.   *)
(* What a load finds is RaiderIOLocal's affair; lookups that fail and a    *)
(* folder outside any client, which has no reader, are left out.           *)
(***************************************************************************)
EXTENDS Naturals

CONSTANTS Regions,      \* regions of players
          NoRegion,     \* the player is not known yet
          NoRequest,
          MaxReaders,   \* bound: folders chosen
          MaxRequests   \* bound: requests

Readers == 0..MaxReaders
Keys == Readers \X Regions
Requests == Readers \X Regions \X Nat

PreloadAssumption ==
    /\ NoRegion \notin Regions /\ NoRequest \notin Keys \cup Requests
    /\ MaxReaders \in Nat /\ MaxRequests \in Nat

VARIABLES
    reader,     \* _rio_reader_generation: the machine's reader
    source,     \* the reader of the watcher whose snapshots are applied
    region,     \* the player's region
    key,        \* _rio_preload_current_key
    serial,     \* _rio_preload_serial
    active,     \* _rio_preload_active
    completed,  \* _rio_preload_completed_key
    fresh,      \* before _rio_preload_refresh_after
    loading,    \* the readers' _loading
    callbacks,  \* the readers' _load_callbacks
    posted,     \* signals _rioPreloadCompleted on their way
    loads,      \* loads that have ended
    shown,      \* whose data the rows show, and after which load
    refused     \* history: the last request found no thread

requestVars == <<key, serial, active, completed, fresh>>
threadVars == <<loading, callbacks, posted, loads>>
preloadVars == <<reader, source, region, requestVars, threadVars, shown, refused>>

KeyOf(request) == <<request[1], request[2]>>

\* What a lookup finds: allow_load is FALSE.
Looked(r, g) == IF g = NoRegion THEN NoRequest ELSE <<r, g, loads[<<r, g>>]>>

Init ==
    /\ reader = 0 /\ source = 0 /\ region = NoRegion
    /\ key = NoRequest /\ serial = 0 /\ active = NoRequest /\ completed = NoRequest
    /\ fresh = FALSE
    /\ loading = {} /\ callbacks = {} /\ posted = {}
    /\ loads = [k \in Keys |-> 0]
    /\ shown = NoRequest /\ refused = FALSE

-----------------------------------------------------------------------------
\* A request for the same region of the same reader is answered by the one that
\* is under way, or was answered a moment ago.
AskedWhoever(k) ==    \* mutant
    key # NoRequest /\ k[2] = key[2] /\ (active # NoRequest \/ (completed # NoRequest /\ fresh))
Asked(k) ==
    key = k /\ \/ active # NoRequest /\ KeyOf(active) = k
               \/ completed = k /\ fresh

\* preload_region_async: a load that is under way takes one more callback.
Ask(k) ==
    LET request == <<k[1], k[2], serial + 1>>
    IN /\ serial < MaxRequests
       /\ key' = k /\ serial' = serial + 1
       /\ \/ /\ active' = request /\ callbacks' = callbacks \cup {request}
             /\ loading' = loading \cup {k}
             /\ refused' = FALSE
          \/ /\ k \notin loading /\ active' = NoRequest /\ refused' = TRUE
             /\ UNCHANGED <<callbacks, loading>>
       /\ UNCHANGED <<completed, fresh, posted, loads>>

\* _preload_local_rio_region, of the machine's reader r.
Preload(r, g) ==
    IF g = NoRegion \/ Asked(<<r, g>>)
    THEN UNCHANGED <<requestVars, threadVars, refused>>
    ELSE Ask(<<r, g>>)

\* apply_snapshot, of a player in region g: the preload, unless the snapshot is
\* bound to a reader that is not the machine's, then the rows; not all of them are
\* looked up again while the region stays.
Snapshot(g) ==
    /\ region' = g
    /\ IF source = reader THEN Preload(reader, g)
       ELSE UNCHANGED <<requestVars, threadVars, refused>>
    /\ \/ shown' = Looked(source, g)
       \/ g = region /\ UNCHANGED shown
    /\ UNCHANGED <<reader, source>>

\* _replace_screenshots_runtime: the machine is given the reader unless what
\* comes before it in the hook fails; the preload is for whichever it has.
Replace ==
    /\ source < MaxReaders
    /\ source' = source + 1
    /\ reader' \in {reader, source + 1}
    /\ Preload(reader', region)
    /\ UNCHANGED <<region, shown>>

\* _worker: the load ends, the callbacks are taken and called.
EndLoad(k) ==
    /\ k \in loading
    /\ loading' = loading \ {k}
    /\ loads' = [loads EXCEPT ![k] = @ + 1]
    /\ LET mine == {request \in callbacks : KeyOf(request) = k}
       IN callbacks' = callbacks \ mine /\ posted' = posted \cup mine
    /\ UNCHANGED <<reader, source, region, requestVars, shown, refused>>

\* _on_rio_preload_completed.
Receive(request) ==
    /\ request \in posted /\ posted' = posted \ {request}
    /\ IF request # active THEN UNCHANGED <<active, completed, fresh, shown>>
       ELSE /\ active' = NoRequest /\ completed' = KeyOf(request) /\ fresh' = TRUE
            /\ shown' = IF KeyOf(request) = <<reader, region>>
                        THEN Looked(reader, region) ELSE shown
    /\ UNCHANGED <<reader, source, region, key, serial, loading, callbacks, loads, refused>>

\* RIO_PRELOAD_REFRESH_INTERVAL_SECONDS have passed.
PassTime ==
    /\ fresh /\ fresh' = FALSE
    /\ UNCHANGED <<reader, source, region, key, serial, active, completed, threadVars, shown,
                   refused>>

Next ==
    \/ \E g \in Regions : Snapshot(g)
    \/ Replace \/ PassTime
    \/ \E k \in Keys : EndLoad(k)
    \/ \E request \in posted : Receive(request)

Spec == Init /\ [][Next]_preloadVars

-----------------------------------------------------------------------------
\* The request the machine waits for will be answered.
ActiveIsAnswered ==
    active # NoRequest =>
        active \in posted \/ (active \in callbacks /\ KeyOf(active) \in loading)

\* Once no load and no answer is under way, however regions, folders and loads
\* have overtaken each other, the rows show what the last load brought for the
\* player's region and the folder's client, if a thread could be had.
RowsShowTheLoad ==
    loading = {} /\ posted = {} /\ ~refused /\ reader = source /\ region # NoRegion =>
        /\ active = NoRequest
        /\ shown = <<reader, region, loads[<<reader, region>>]>>

-----------------------------------------------------------------------------
(* The inductive invariant.                                                 *)

TypeOK ==
    /\ source \in Readers /\ reader \in 0..source
    /\ region \in Regions \cup {NoRegion}
    /\ key \in Keys \cup {NoRequest} /\ serial \in Nat
    /\ active \in Requests \cup {NoRequest}
    /\ loading \subseteq Keys /\ callbacks \subseteq Requests /\ posted \subseteq Requests
    /\ loads \in [Keys -> Nat]
    /\ refused \in BOOLEAN

\* The newest request is the one that counts, and is on its way at one place only.
NewestCounts ==
    /\ region = NoRegion => key = NoRequest
    /\ key # NoRequest => key[1] <= source
    /\ reader = source /\ region # NoRegion => key = <<reader, region>>
    /\ active # NoRequest => KeyOf(active) = key
    /\ \A request \in callbacks \cup posted : request[3] <= serial
    /\ active \in posted => KeyOf(active) \notin loading

\* What the rows show once the machine waits for nothing.
RowsFollow ==
    reader = source /\ region # NoRegion /\ active = NoRequest /\ ~refused =>
        /\ <<reader, region>> \notin loading
        /\ shown = <<reader, region, loads[<<reader, region>>]>>

PreloadInvariant == TypeOK /\ NewestCounts /\ RowsFollow /\ ActiveIsAnswered
=============================================================================
