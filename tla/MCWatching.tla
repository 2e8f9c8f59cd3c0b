------------------------------ MODULE MCWatching ------------------------------
(***************************************************************************)
(* The watcher's side of the program: what it does with files, how chunks  *)
(* become snapshots, and how one watcher takes over from another.  These   *)
(* parts share no state in the models, so one of them is chosen at the     *)
(* start and runs alone: the states checked are those of the three         *)
(* specifications put side by side, never their product.                   *)
(***************************************************************************)
EXTENDS Naturals

CONSTANTS
    Kinds, MaxGenerations, MaxAttempts, ClaimFaults, RetryWindow,   \* ScreenshotClaims
    MaxShots, Streams, MaxGeneration, ChunkCount, FragmentFaults,           \* FragmentAssembler
    Folders, MaxWatchers, MaxSnapshots, MaxFailures                         \* WatcherHandoff

VARIABLES
    part,   \* the part that runs
    written, kind, name, file, over, old, observing, events, genTimers, incTimers, active,
    recent, manual, deferred, cursor, saved, job, scan, rescan, pending, failed, deleting,
    frontier, published, reported, removed, unread, faults,
    shot, group, signature, completed, poisoned, fragmentsFrontier, fragmentsPending,
    barred, arrivals, retired, accepted, lost,
    made, folder, generation, gate, pendingGate, scheduler, buffered, stopped, emitting,
    emitted, inbox, scheduled, posted, pc, current, shown, unhooked, uncommitted, failures

Claims == INSTANCE ScreenshotClaims WITH MaxFaults <- ClaimFaults
Frag == INSTANCE FragmentAssembler WITH
    MaxFaults <- FragmentFaults, frontier <- fragmentsFrontier, pending <- fragmentsPending
Handoff == INSTANCE WatcherHandoff

ASSUME ClaimsAssumption == Claims!BoundsAssumption
ASSUME FragmentsAssumption == Frag!ShotAssumption
ASSUME HandoffAssumption == Handoff!WatcherAssumption

ClaimsVars ==
    <<written, kind, name, file, over, old, observing, events, genTimers, incTimers, active,
      recent, manual, deferred, cursor, saved, job, scan, rescan, pending, failed, deleting,
      frontier, published, reported, removed, unread, faults>>
FragmentsVars ==
    <<shot, group, signature, completed, poisoned, fragmentsFrontier, fragmentsPending,
      barred, arrivals, retired, accepted, lost>>
HandoffVars ==
    <<made, folder, generation, gate, pendingGate, scheduler, buffered, stopped, emitting,
      emitted, inbox, scheduled, posted, pc, current, shown, unhooked, uncommitted,
      failures>>

\* The variables of a part that does not run have no meaning.
Off == 0
ClaimsOff ==
    /\ written = Off /\ kind = Off /\ name = Off /\ file = Off /\ over = Off /\ old = Off
    /\ observing = Off /\ events = Off /\ genTimers = Off /\ incTimers = Off /\ active = Off
    /\ recent = Off /\ manual = Off /\ deferred = Off /\ cursor = Off /\ saved = Off
    /\ job = Off /\ scan = Off /\ rescan = Off /\ pending = Off /\ failed = Off
    /\ deleting = Off /\ frontier = Off /\ published = Off /\ reported = Off /\ removed = Off
    /\ unread = Off /\ faults = Off
FragmentsOff ==
    /\ shot = Off /\ group = Off /\ signature = Off /\ completed = Off /\ poisoned = Off
    /\ fragmentsFrontier = Off /\ fragmentsPending = Off /\ barred = Off /\ arrivals = Off
    /\ retired = Off /\ accepted = Off /\ lost = Off
HandoffOff ==
    /\ made = Off /\ folder = Off /\ generation = Off /\ gate = Off /\ pendingGate = Off
    /\ scheduler = Off /\ buffered = Off /\ stopped = Off /\ emitting = Off /\ emitted = Off
    /\ inbox = Off /\ scheduled = Off /\ posted = Off /\ pc = Off /\ current = Off
    /\ shown = Off /\ unhooked = Off /\ uncommitted = Off /\ failures = Off

Init ==
    \/ /\ part = "claims" /\ Claims!Init
       /\ FragmentsOff /\ HandoffOff
    \/ /\ part = "fragments" /\ Frag!Init
       /\ ClaimsOff /\ HandoffOff
    \/ /\ part = "handoff" /\ Handoff!Init
       /\ ClaimsOff /\ FragmentsOff

ClaimsNext ==
    /\ part = "claims" /\ Claims!Next
    /\ UNCHANGED <<part, FragmentsVars, HandoffVars>>
FragmentsNext ==
    /\ part = "fragments" /\ Frag!Next
    /\ UNCHANGED <<part, ClaimsVars, HandoffVars>>
HandoffNext ==
    /\ part = "handoff" /\ Handoff!Next
    /\ UNCHANGED <<part, ClaimsVars, FragmentsVars>>

Next == ClaimsNext \/ FragmentsNext \/ HandoffNext
vars == <<part, ClaimsVars, FragmentsVars, HandoffVars>>

Spec == Init /\ [][Next]_vars

-----------------------------------------------------------------------------
(* Properties. *)

\* Live events, retry timers, the backlog scan and the supervisor take up, decode
\* and delete files behind each other's back, and the index of the user's own
\* screenshots is read back after a crash: only the addon's files are deleted,
\* and no file of the addon is taken for the user's.
UserFilesAreSafe == part = "claims" => Claims!OnlyOwnedRemoved /\ Claims!IndexIsTrue

\* A screenshot is not deleted before it or a newer one was applied or, its payload
\* being corrupt, reported; and at rest no snapshot lies about unread.
ScreenshotsAreNotLost == part = "claims" => Claims!NothingFreshLost /\ Claims!NothingForgotten

\* Chunks of streams and generations that arrive in any order, repeated, late or
\* broken: an accepted snapshot is made of one generation, and every file is
\* given back for deletion once its group is settled.
GroupsArePure == part = "fragments" => Frag!NeverMixed /\ Frag!FilesAccounted

\* Snapshots are accepted in the order of their screenshots, and the newest
\* complete one is among them.
GroupsKeepOrder == part = "fragments" => Frag!AcceptedInOrder /\ Frag!NewestAccepted

\* While watchers replace each other, fail to start and are retired with their
\* threads and callbacks still under way: what is shown comes from the folder in
\* force, the watcher in charge feeds the program, and no snapshot that was
\* handed to the program stays behind.
HandoffIsClean ==
    part = "handoff" =>
        Handoff!ShownIsOfCurrentFolder /\ Handoff!CurrentFeeds /\ Handoff!NothingStranded
=============================================================================
