------------------------------ MODULE MCStores ------------------------------
(***************************************************************************)
(* State that outlives a call: what waits for the state machine, the token *)
(* and the character cache with their files, the shortcut that starts the  *)
(* helper, what is read from the RaiderIO addon, and what of the overlay   *)
(* is in sight.  The parts share no state in the models; one is chosen at  *)
(* the start and runs alone, so that the states checked are those of the   *)
(* eight specifications put side by side.                                  *)
(***************************************************************************)
EXTENDS Naturals, TLC

CONSTANTS
    MaxEvents,                                                      \* SnapshotCoalescing
    Workers, Validator, Credentials, None, MaxAuths, MaxTokens,     \* WclAuth
    MaxVersions, FailingWrites, MaxLate, MaxCloses, MaxCrashes,     \* CharacterCacheFile
    MaxRequests, ShortcutFaults, MaxRefusals,                       \* StartupShortcut
    Regions, MaxReaders, MaxPreloads,                               \* RioPreload
    AddonVersions, MaxLoads, MaxTroubles                            \* RaiderIOLocal

VARIABLES
    part,   \* the part that runs
    machine, pending, outcome, sequential, focus, events,
    owner, creds, file, memory, usable, refresher, overtaken, auth, clearer, pc, req,
    issued, dead, unlinkFailed,
    number, version, cleared, dirty, timer, late, lock, clearing, requested, closing,
    closeResult, attempts, closer, caller, cacheFileFile, durable, wiped, faults, closes,
    crashes,
    shortcut, approved, refusals, wanted, applied, workers, holder, notices, told,
    shortcutClosing, shortcutFaults,
    reader, source, region, key, serial, active, completed, fresh, loading, callbacks,
    posted, loads, shown, refused,
    disk, entry, loader, payloads, generation, left, together, failing, decodedCleared,
    plan, index, lookup, record, pieces, offset, rows, rowsRead,
    front, button, ui, hook, refresh, closed

\* The statements of the addon that RioRecord reads: every field of a Mythic+ record
\* and the fewest, records that are too short, fields that are missing or not known;
\* raids whose bosses the companion knows, knows otherwise or does not know.
MplusPlan(order, size, milestones, dungeons) ==
    [half |-> "mplus", order |-> order, size |-> size, milestones |-> milestones,
     dungeons |-> dungeons]
RaidPlan(order, size, current, previous) ==
    [half |-> "raid", order |-> order, size |-> size, current |-> current,
     previous |-> previous]
Raid(id, bosses) == [id |-> id, bosses |-> bosses]
Realm(realm, base, names) == [realm |-> realm, base |-> base, names |-> names]
MplusPlans ==
    {MplusPlan([i \in 1..16 |-> i], size, 2, 2) : size \in {21, 22}}
        \cup {MplusPlan(<<10, 1>>, size, 0, 1) : size \in {2, 3}}
        \cup {MplusPlan(order, 9, 0, 1) : order \in {<<1, 3>>, <<1, 9, 10>>, <<1, 10, 17>>}}
RaidPlans ==
    {RaidPlan(order, size, <<Raid(1, 1)>>, <<previous>>) :
        order \in {<<1, 2, 3, 4>>, <<4, 1, 2>>}, size \in {6, 7},
        previous \in {Raid(2, 2), Raid(1, 1), Raid(2, 1)}}
        \cup {RaidPlan(<<1>>, size, <<Raid(1, 1), Raid(id, 1)>>, <<>>) :
                size \in {3, 4}, id \in {0, 1, 2}}
        \cup {RaidPlan(<<1>>, 4, <<Raid(1, 0)>>, <<>>)}
Indexes ==
    {<<Realm("r", 0, <<"a", "b", "a">>)>>,
     <<Realm("r", 0, <<"a">>), Realm("s", 22, <<"a", "b">>)>>}
AddonHalves ==
    (MplusPlans \X Indexes \X {20, 66, 100})
        \cup (RaidPlans \X {<<Realm("r", 0, <<"a">>)>>} \X {24})

\* Two versions of the addon's files in a row state the same identity.
AddonIdentities == [v \in 1..AddonVersions |-> (v + 1) \div 2]

Preloading == INSTANCE RioPreload WITH
    MaxRequests <- MaxPreloads, NoRegion <- None, NoRequest <- None
Profiles == INSTANCE RaiderIOLocal WITH
    Generation <- AddonIdentities, NoEntry <- None, NoData <- None, cleared <- decodedCleared
Record == INSTANCE RioRecord WITH
    Halves <- AddonHalves, Encounters <- <<1, 2>>, RawDifficulties <- {0, 1, 3},
    RawKills <- {0, 26}
Window == INSTANCE OverlayWindow
Coalescing == INSTANCE SnapshotCoalescing
Auth == INSTANCE WclAuth
CacheFile == INSTANCE CharacterCacheFile WITH MaxFaults <- FailingWrites, file <- cacheFileFile
Shortcut == INSTANCE StartupShortcut WITH
    MaxFaults <- ShortcutFaults, closing <- shortcutClosing, faults <- shortcutFaults

CoalescingVars ==
    <<machine, pending, outcome, sequential, focus, events>>
AuthVars ==
    <<owner, creds, file, memory, usable, refresher, overtaken, auth, clearer, pc, req,
      issued, dead, unlinkFailed>>
CacheFileVars ==
    <<number, version, cleared, dirty, timer, late, lock, clearing, requested, closing,
      closeResult, attempts, closer, caller, cacheFileFile, durable, wiped, faults, closes,
      crashes>>
ShortcutVars ==
    <<shortcut, approved, refusals, wanted, applied, workers, holder, notices, told,
      shortcutClosing, shortcutFaults>>
PreloadVars ==
    <<reader, source, region, key, serial, active, completed, fresh, loading, callbacks,
      posted, loads, shown, refused>>
ProfileVars ==
    <<disk, entry, loader, payloads, generation, left, together, failing, decodedCleared>>
RecordVars == <<plan, index, lookup, record, pieces, offset, rows, rowsRead>>
WindowVars == <<front, button, ui, hook, refresh, closed>>
AddonVars == <<PreloadVars, ProfileVars, RecordVars>>

\* The variables of a part that does not run have no meaning.
Off == 0
CoalescingOff ==
    /\ machine = Off /\ pending = Off /\ outcome = Off /\ sequential = Off /\ focus = Off
    /\ events = Off
AuthOff ==
    /\ owner = Off /\ creds = Off /\ file = Off /\ memory = Off /\ usable = Off
    /\ refresher = Off /\ overtaken = Off /\ auth = Off /\ clearer = Off /\ pc = Off
    /\ req = Off /\ issued = Off /\ dead = Off /\ unlinkFailed = Off
CacheFileOff ==
    /\ number = Off /\ version = Off /\ cleared = Off /\ dirty = Off /\ timer = Off
    /\ late = Off /\ lock = Off /\ clearing = Off /\ requested = Off /\ closing = Off
    /\ closeResult = Off /\ attempts = Off /\ closer = Off /\ caller = Off
    /\ cacheFileFile = Off /\ durable = Off /\ wiped = Off /\ faults = Off /\ closes = Off
    /\ crashes = Off
ShortcutOff ==
    /\ shortcut = Off /\ approved = Off /\ refusals = Off /\ wanted = Off /\ applied = Off
    /\ workers = Off /\ holder = Off /\ notices = Off /\ told = Off /\ shortcutClosing = Off
    /\ shortcutFaults = Off
PreloadOff ==
    /\ reader = Off /\ source = Off /\ region = Off /\ key = Off /\ serial = Off
    /\ active = Off /\ completed = Off /\ fresh = Off /\ loading = Off /\ callbacks = Off
    /\ posted = Off /\ loads = Off /\ shown = Off /\ refused = Off
ProfilesOff ==
    /\ disk = Off /\ entry = Off /\ loader = Off /\ payloads = Off /\ generation = Off
    /\ left = Off /\ together = Off /\ failing = Off /\ decodedCleared = Off
RecordOff ==
    /\ plan = Off /\ index = Off /\ lookup = Off /\ record = Off /\ pieces = Off
    /\ offset = Off /\ rows = Off /\ rowsRead = Off
WindowOff ==
    /\ front = Off /\ button = Off /\ ui = Off /\ hook = Off /\ refresh = Off /\ closed = Off
AddonOff == PreloadOff /\ ProfilesOff /\ RecordOff

Init ==
    \/ /\ part = "coalescing" /\ Coalescing!Init
       /\ AuthOff /\ CacheFileOff /\ ShortcutOff /\ AddonOff /\ WindowOff
    \/ /\ part = "auth" /\ Auth!Init
       /\ CoalescingOff /\ CacheFileOff /\ ShortcutOff /\ AddonOff /\ WindowOff
    \/ /\ part = "cacheFile" /\ CacheFile!Init
       /\ CoalescingOff /\ AuthOff /\ ShortcutOff /\ AddonOff /\ WindowOff
    \/ /\ part = "shortcut" /\ Shortcut!Init
       /\ CoalescingOff /\ AuthOff /\ CacheFileOff /\ AddonOff /\ WindowOff
    \/ /\ CoalescingOff /\ AuthOff /\ CacheFileOff /\ ShortcutOff
       /\ \/ part = "preload" /\ Preloading!Init /\ ProfilesOff /\ RecordOff /\ WindowOff
          \/ part = "profiles" /\ Profiles!Init /\ PreloadOff /\ RecordOff /\ WindowOff
          \/ part = "record" /\ Record!Init /\ PreloadOff /\ ProfilesOff /\ WindowOff
          \/ part = "window" /\ Window!Init /\ AddonOff

CoalescingNext ==
    /\ part = "coalescing" /\ Coalescing!Next
    /\ UNCHANGED <<part, AuthVars, CacheFileVars, ShortcutVars, AddonVars, WindowVars>>
AuthNext ==
    /\ part = "auth" /\ Auth!Next
    /\ UNCHANGED <<part, CoalescingVars, CacheFileVars, ShortcutVars, AddonVars, WindowVars>>
CacheFileNext ==
    /\ part = "cacheFile" /\ CacheFile!Next
    /\ UNCHANGED <<part, CoalescingVars, AuthVars, ShortcutVars, AddonVars, WindowVars>>
ShortcutNext ==
    /\ part = "shortcut" /\ Shortcut!Next
    /\ UNCHANGED <<part, CoalescingVars, AuthVars, CacheFileVars, AddonVars, WindowVars>>
AddonNext ==
    /\ \/ /\ part = "preload" /\ Preloading!Next
          /\ UNCHANGED <<ProfileVars, RecordVars>>
       \/ /\ part = "profiles" /\ Profiles!Next
          /\ UNCHANGED <<PreloadVars, RecordVars>>
       \/ /\ part = "record" /\ Record!Next
          /\ UNCHANGED <<PreloadVars, ProfileVars>>
    /\ UNCHANGED <<part, CoalescingVars, AuthVars, CacheFileVars, ShortcutVars, WindowVars>>
WindowNext ==
    /\ part = "window" /\ Window!Next
    /\ UNCHANGED <<part, CoalescingVars, AuthVars, CacheFileVars, ShortcutVars, AddonVars>>

Next ==
    CoalescingNext \/ AuthNext \/ CacheFileNext \/ ShortcutNext \/ AddonNext \/ WindowNext
vars ==
    <<part, CoalescingVars, AuthVars, CacheFileVars, ShortcutVars, AddonVars, WindowVars>>

ASSUME AuthAssumption ==
    Auth!ActorAssumption /\ Auth!CredentialsAssumption /\ Auth!BoundAssumption
ASSUME ShortcutAssumption == Shortcut!RequestsAssumption
ASSUME AddonAssumption ==
    /\ Preloading!PreloadAssumption /\ Profiles!GenerationAssumption /\ Profiles!EntryAssumption
    /\ Record!RecordAssumption

Spec == Init /\ [][Next]_vars

Symmetry == Permutations(Workers) \cup Permutations(Credentials)

-----------------------------------------------------------------------------
(* Properties. *)

\* Whatever snapshots wait for the GUI thread and are coalesced there, what is
\* applied in the end shows the player, listing and rows that applying each in
\* turn shows, or knows more of the same rows; the overlay has been told of every
\* change, and no row keeps results that were asked for another character, realm,
\* region or spec.
CoalescingIsSafe ==
    part = "coalescing" =>
        /\ Coalescing!CoalescingLosesNothing
        /\ Coalescing!ListenersUpToDate /\ Coalescing!ResultsAreOwn

\* However refreshes, refusals, new credentials and a reset of the cache cross,
\* a token that was invalidated serves no further request.
TokensAreLive == part = "auth" => Auth!TypeOK /\ Auth!InvalidatedNotServed /\ Auth!RetryUsesNewToken

\* The token file serves the next start of the program.
TokenFileServes == part = "auth" => Auth!FileServesNextStart

\* A token leaves the memory only for a newer one, by the user's reset, or after
\* the service refused that very token; the start of the helper at sign-in, which
\* the user took back in Windows, is approved again only while the last request
\* asks for it.
NothingDroppedOrApprovedUnasked ==
    [][/\ part = "auth" => Auth!DropsOnlyRefused
       /\ part = "shortcut" => Shortcut!ApprovesOnRequest]_vars

\* Deferred saves, failing writes, clear, close and a crash: what was cleared does
\* not come back, what close reported as saved is on disk, and unsaved answers
\* always have somebody who will save them.
CacheFileIsDurable ==
    part = "cacheFile" =>
        CacheFile!ClearIsDurable /\ CacheFile!CloseIsDurable /\ CacheFile!SaveIsScheduled

\* What the user and the shutdown are told of the shortcut is so.
ShortcutAnswersAreTrue == part = "shortcut" => Shortcut!AnswersAreTrue

\* While the addon's updater replaces its files and the user clears what was decoded,
\* a profile comes from files that belong together, for one grace after loads begin to
\* fail, and no file outlives its clear.  However regions, folders and loads overtake
\* each other, the answer that the state machine waits for comes, and the rows then
\* show what the last load brought.
LocalProfilesAreSound ==
    /\ part = "profiles" =>
         Profiles!BundlesAreWhole /\ Profiles!GraceIsBounded /\ Profiles!ClearedStaysCleared
    /\ part = "preload" => Preloading!ActiveIsAnswered /\ Preloading!RowsShowTheLoad

\* What a load accepts is read to the last bit, and every boss has its own kills.
RecordsAreRead == part = "record" => Record!AcceptedIsRead /\ Record!BossesInPlace

\* The window, its badge, the badge's tooltip and the timer agree.
SurfacesAgree == part = "window" => Window!TypeOK /\ Window!Agree

\* The surfaces come and go with the game, whatever the user, the snapshots, the task
\* switcher and the clock do in between.
SurfacesFollow == [][part = "window" => Window!Follows]_vars
=============================================================================
