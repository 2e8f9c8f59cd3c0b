# ApplicantScout Companion: specification and proofs

ApplicantScout Companion is a Windows tray program for World of Warcraft. The
game addon paints the Mythic+ applicants of the player's listing into QR codes
on screenshots; the companion watches the screenshot folder, decodes the codes,
keeps the state of the listing, asks Warcraft Logs (WCL) about every player and
shows an overlay. This directory holds TLA+ modules translated from the Python
source under `src/src/applicant_scout/`, the TLC runs that check them, and
TLAPS proofs.

Paths below are relative to `src/src/applicant_scout/` unless they start with
`src/`. `PROJECT.json` maps every definition to the lines it models.

    tlc -workers 2 -config queue.cfg SnapshotApplyQueue
    tlapm SnapshotApplyQueueProofs.tla

The modules named `*Proofs` hold the theorems; the modules named `MC*` put
several component modules side by side for a run or add a symmetry.

## 1. Inventory

The way of a snapshot through the program:

    screenshot file -> ScreenshotWatcher -> source gate -> SnapshotApplyQueue
        (observer, backlog, timers: several threads)        |  GUI thread
                                                            v
    live snapshot file <- LiveSnapshotCacheWriter <-- StateMachine
                                                            |
    WCL <- WCLClient <- workers <- overlay (rows, fetches) <-+

| Component | State it keeps | Operations | What is hard | What makes it correct |
|---|---|---|---|---|
| **Snapshot apply queue** `snapshot_pipeline.py`, gates and dispatchers of `__main__.py` | one pending event, the retained decode failure, the one-retry flag, newest source | enqueue from any thread, flush on the GUI thread, retry, drain at shutdown | enqueues between any two steps of a flush; a scheduler, a plan or a step that fails; a generation replaced in mid-flush | no lost wakeup; machine, live cache and health row agree; two attempts at most; a stale flush has no effect |
| **Screenshot publication** `screenshot.py` | queue of publications, active flag, frontier, expiry token | accept, join or drain the queue, expire a fragment group, delete, stop | several decoders, one publisher, a timer, slots that raise, shutdown under way | order of acceptance kept; nothing accepted is lost; deletion after handoff |
| **Screenshot watcher** (discovery, claims, retries, cleanup) `screenshot.py`, `verified_file_cleanup.py` | work and decode claims, generations of files, manual-screenshot index, deferred cleanups | backlog scan, live event, retry of an incomplete or rewritten file, verified deletion | the same file through two doors; a file rewritten while decoded; crash between index and deletion | each content decoded once; a user's own screenshot never deleted |
| **QR decoding, fragment assembly** `screenshot.py` | streams, generations and chunks of fragments | add chunk, complete, supersede, expire | repeated, lost and reordered chunks of several generations | only chunks of one generation make a snapshot; newest wins |
| **Watcher replacement and retirement** `__main__.py` | current and retired watchers, signal generation | replace, restore, retire, drain at exit | the new watcher fails to start after the old one stopped | one live generation; retired workers joined |
| **Applicant state machine** `__main__.py`, `state.py` | applicants, party, listing, producer per surface | apply, clear, expire, restore | producers that overlap, authority and barriers | no row from an older producer |
| **Live snapshot cache** `live_snapshot_cache.py` | the file, one pending operation, generation, timer, close worker | submit, clear, flush, invalidate, close, load | a write claimed before a clear; failed writes put back; close with a deadline; crash | nothing cleared comes back; the latest save reaches the file |
| **Overlay and WCL fetches** `overlay.py`, `overlay_fetch.py`, `fetch_operation.py` | rows, tracked fetches, waiters by route, retired operations, sessions | launch, join, complete, rebind, retire, retry | answers for rows, settings, credentials and sessions that changed; nested completions | what loads is served; what is shown is current; no worker for nobody |
| **WCL credentials, token, client** `wcl.py` | token and its file, invalidation and auth generations, retry blocks, status | refresh, invalidate, reconfigure, close | several instances and threads on one file; answers of old credentials | no rejected token is used again; blocks and status belong to the current credentials |
| **Character cache** `wcl.py`, `wcl_cache_store.py` | entries, publication clocks, privacy and not-found proofs | get, put, evict, flush, close, clear | answers in another order than their questions | an older public answer never hides a newer private one |
| **Settings apply** `__main__.py`, `config.py`, `settings_dialog.py` | submitted, prepared and committed settings | prepare on a worker, commit on the GUI thread, roll back | superseded submissions, half-failed commits | file and runtime agree |
| **Update and quit** `__main__.py`, `updater.py` | attempts, quit lock, hand-off recovery | check, download, cancel, hand over, quit | cancel against hand-off, late finishers | quit never blocked for ever, never during hand-off |
| **WoW lifecycle, single instance** `wow_lifecycle.py`, `runtime_control.py`, `foreground_hook.py` | session watcher, control socket, owner | start with WoW, quit after it, show request | process races | one runtime |
| **Startup shortcut** `__main__.py`, `wow_lifecycle.py` | shortcut and its approval in Windows, requests and their threads | request, supersede, restore an approval, close | overtaken threads, a deadline at shutdown, an approval the user took back | what is told of the shortcut is so; no approval unasked |
| **Usage reporting** `usage.py` | consent, its file, delivery queue | grant, withdraw, deliver | withdrawal during a write or delivery | nothing is sent without consent |
| **Local Raider.IO data** `raiderio_local.py`, `__main__.py` | a cache entry for each region with the state of its two halves, decoded lookups on disk and their generation; requests, loading threads, the row's profiles | load, audit, retry, clear; preload, receive; decode a record | the addon's updater replaces file by file while they are read; a clear during a load; answers for a region, reader or request that is over | a profile comes from files that belong together; failures are bridged for one grace only; the last answer reaches the rows; what is accepted can be read |
| **Overlay window and launcher** `overlay.py`, `foreground_hook.py` | visibility of both, the game's foreground, graces, timer, drag, the hook's thread | timer and hook tick, restore, collapse, press, drag, release, show rows, shut down | the front changes between two looks of one tick; drags whose release is lost; deadlines that run out in any order | the surfaces agree, and follow the game |
| **Atomic file output** `atomic_io.py` | none | write and replace | crash in the middle | old or new file, taken as such by all models |
| **Scoring, presentation, look-ups, build scripts** | none that outlives a call | | | pure code |

How they interact: decoder threads call into the gates and the queue under the
handoff lock; the queue posts a callback to the Qt event loop; the state
machine, the overlay and the settings commit all run on the GUI thread; WCL
workers, the cache timers and the settings worker run beside it and come back
through posted events. Replacing the watcher changes the generation that the
queue's gates compare; settings change the runtime generation that fetch
identities carry.

`PROJECT.json` lists under `hazards` each place where this is hard to test.

## 2. Modules

One action is one stretch of code between two places where another thread, a
callback or the outside can act: a call under a lock is one step, a call that
releases a lock, waits or emits is taken apart there. Every variable's comment
names the attribute it stands for. History variables (what was accepted, given
up, answered, ...) record what properties compare with and steer nothing.

| Module | Models | Run | Theorems in |
|---|---|---|---|
| `SnapshotApplyQueue` | apply queue, gates, dispatchers | `queue` | `SnapshotApplyQueueProofs` |
| `SnapshotCoalescing`, `SnapshotApply` | merge of waiting snapshots; the state machine | `stores` | |
| `ScreenshotPublication` | from a decoded screenshot to hand-over and deletion | `progress` | `MCProgressProofs` |
| `ScreenshotClaims` | files, claims, retries, index, cleanup | `watching` | `MCWatchingProofs` |
| `FragmentAssembler` | chunks of several streams and generations | `watching` | `MCWatchingProofs` |
| `WatcherHandoff` | replacing the watcher | `watching` | `MCWatchingProofs` |
| `RetiredWatchers` | stopping replaced watchers | `progress` | `MCProgressProofs` |
| `LiveSnapshotCache` | the live snapshot file | `live_cache` | `LiveSnapshotCacheProofs` |
| `OverlayFetch` | rows and their fetches | `overlay_fetch` | |
| `WclAuth` | tokens in memory and on disk | `stores` | `MCStoresProofs` |
| `WclConnection` | the client's limits and status | `wcl_connection` | `WclConnectionProofs` |
| `CharacterCache` with `EvidenceLedger` | what readers are shown, and the abstract promise | `character_cache` | `CharacterCacheProofs` |
| `CharacterCacheFile` | the cache's file | `stores` | `MCStoresProofs` |
| `SettingsApply` | settings pipeline, config file, runtime | `progress` | `MCProgressProofs` |
| `SettingsEdits` | the dialog in front of it | `progress` | `MCProgressProofs` |
| `WowLifecycle` | helper, program, exit timer | `progress` | `MCProgressProofs` |
| `StartupShortcut` | the sign-in shortcut | `stores` | `MCStoresProofs` |
| `RaiderIOLocal` | loading the addon's files while they are replaced | `stores` | `MCShownProofs` |
| `RioPreload` | requests for a region's data and the way to the rows | `stores` | `MCShownProofs` |
| `RioRecord` | which statements are accepted and how a record is read | `stores` | |
| `OverlayWindow` | window and badge following the game | `stores` | `MCShownProofs` |
| `UpdateQuit` | updates against quitting | `progress` | `MCProgressProofs` |
| `UsageConsent` | the usage choice and its reports | `progress` | `MCProgressProofs` |

**Modules side by side.** `MCProgress`, `MCStores` and `MCWatching` check several
components in one run. The components share no variable, so their product would
only multiply the states. Instead `part` is chosen in the initial state and
never changes; the part that was chosen runs its own `Init` and `Next`, and the
variables of the others are `Off`. Every behaviour of such a module is a
behaviour of one component, and every behaviour of each component is one of the
module. A property reads `part = "..." => ...` for each part it speaks of, and
each part's fairness is restated with the same guard.

### SnapshotApplyQueue

`SnapshotApplyQueue` of `snapshot_pipeline.py` with `_SnapshotSignalGate`,
`_SnapshotSourceGate` and the dispatchers of `__main__.py` in front of it.

| State | Code |
|---|---|
| `handoff` | the call a decoder thread is about to make under the handoff lock |
| `newestSource` | `_SnapshotSourceGate._latest_source_key` |
| `pending`, `flushPending`, `callbacks` | `_pending`, `_flush_pending`, callbacks in the event loop |
| `planRetry`, `applyRetry` | `_plan_retry_attempted`, `_apply_retry_attempted` |
| `retained`, `lastReported`, `lastApplied` | `_retained_decode_failure` and the two marks of the health row |
| `flush`, `batch`, `cacheHead`, `headDue`, `todo` | where a flush is, what it took and the steps left |
| `current` | `is_current`: the generation of the gate |
| `machineKey`, `cacheKey`, `shown` | the state machine, what the live cache was given, the health row |
| `attempts`, `everStale`, `stranded` | history |

`EnqueueSnapshot` and `EnqueueDecodeFailed` are whole calls, since the queue's
lock is held; a flush is taken apart into planning, each apply, each submission
to the live cache, and the end, because the generation may change in between
(`ChangeGeneration`). The lock is held for the whole flush, so enqueues wait.

A source is its order key (0 for unstamped). Which snapshots
`append_pending_snapshot` drops depends on their contents; here it may keep any
subset or retire all of them behind a producer barrier, which covers every
choice of the code. `SnapshotCoalescing` has the exact functions.

### SnapshotApply, SnapshotCoalescing

`SnapshotApply` is `StateMachine.apply_snapshot` with `producer_identity.py` and
`state.py` as operators: the machine is a record, `seen` is what its signals
have told the listeners. `SnapshotCoalescing` translates
`append_pending_snapshot`, the segments, `compact_snapshot_segment`,
`merge_snapshot_segment` and `snapshot_application_plan`, and carries two
machines: `outcome` applies what the plan gives, `sequential` each snapshot in
turn. One applicant and one party member, each with two identities; listing
texts, columns and tooltips are left out, Warcraft Logs results and the
Raider.IO context are kept as whose they are.

### ScreenshotPublication

`_dispatch_live_decode_result`, `_accept_result`, `_drain_snapshot_publications`,
the fragment expiry timer and the deletion of `screenshot.py`, with the source
gate and `_quiesce_screenshot_ingestion` of `__main__.py`. Each thread has a
program counter (`pc`); `queue` and `active` are `_snapshot_publications` and
`_snapshot_publication_active`; `frontier`, `stream`, `group`, `token`, `armed`
are the assembler's part. A publisher emits outside the lock, so between
`Publish` steps others accept, expire or stop. A slot may raise while a
snapshot is emitted. The apply queue is reduced to `pending` and `applied`.

### ScreenshotClaims

The watchdog dispatcher, the retry timers, the backlog scan and the
supervisor's cleanup (`screenshot.py`, `verified_file_cleanup.py`), all of which
may take up one file. What a worker knows of a file is one generation of it
(identity, time, size). `kind` says whether a generation is the addon's or the
user's, and whether its payload parses; the index of the user's own files
(`manual`, `deferred`, `cursor`, `saved`) survives a restart. A listing of the
directory is one step.

A decoding ends with what the file shows, with nothing (`scan_incomplete`), or
without a decoder; the last two cost a fault and put the generation among the
`unread`, as does a scan cut short by its limits. A corrupt payload behind the
marker is reported (`reported`) and the file goes like one that was applied; the
backlog reports the newest only, and removes what is older than the snapshot it
applied, or too old, without applying or reporting it. So the promise is not
that every screenshot is applied: what is removed was applied or reported, or
something newer was, or it was past its time (`NothingFreshLost`); and what is
still there at rest is read, unless a newer one was reported instead or could
not be read. An `error_reason` without a marker reaches no finalizer on its
own: `_decode_screenshot_result` and `_decode_claim_generation` return one only
with `decoder_unavailable` or `scan_incomplete`, which are tested first, so the
branches for it (`screenshot.py:3629`, `4213`) are dead. Not told apart are the
files between the time in which snapshots are applied and the one that a scan
reads in its first phase: here they belong to the second. Chunks are left to the two modules named above, and
with them the damaged chunk whose report a scan defers to the end of its phase.
A crash in the middle of a fault's consequences starts as `Init` does, from any
files and any index on disk.

### FragmentAssembler

`_SnapshotFragmentAssembler`: every call holds its lock, so each of
`AcceptSnapshot`, `AcceptFragment`, `DropFragment`, `GrowStale`, `Expire` is one
step. Screenshots are numbered by source order and arrive in any order, some
twice; a chunk may differ in bytes or metadata from its generation. `shot` is
chosen in `Init`: what each screenshot shows, subject only to each client's
generations growing with time.

### WatcherHandoff, RetiredWatchers

`WatcherHandoff` is the GUI thread that starts, commits and retires watchers
(`_replace_screenshots_runtime`, `_replace_screenshot_watcher`) against their
threads that look at `_stopped`, emit and flush later; `gate`, `pendingGate` are
`_WatcherSignalGate`'s generations, `scheduler` and `buffered` the prepared
scheduler's state. Starting, committing, or hooking the source may fail and roll
back. `RetiredWatchers` is `_RetiredScreenshotWatchers`: `retire` leaves a stop
that may hang to a thread, `stop_all` takes over what is left within its budget.

### LiveSnapshotCache

`LiveSnapshotCacheWriter` with its debounce timer and its close worker, and its
users: submissions of the GUI thread, the settings worker that invalidates the
writer and wipes the directory, start-up restore and its expiry. `io` is the
holder of the write lock and its operation; bookkeeping under the other lock is
one step. A timer that fired waits in `waiting` for the write lock and re-checks
what the code re-checks. `Restart` crashes at any time and keeps only `disk`.
`intended` is the file that would exist had every operation been done at once:
the abstract promise that the properties compare with.

The code takes a check that cannot read the file for done, and an expiry that
cannot read or remove it is not tried again (`live_snapshot_cache.py:928`, 984):
a snapshot that was retired can then stay on disk and be restored. `Unchecked`
and `ExpireRestored` say so, and `kept` is the stamp of that file; the property
allows this very file, once, and nothing else that was retired. A clear that
fails is put back and tried again; that the wipe could not remove the file is
told to the user and left out.

### OverlayFetch

Rows, `_fetches_in_flight`, `_fetch_waiters_by_target`, retirement, settings,
credentials, sessions and shutdown of `overlay.py`. A GUI handler is a stack of
calls (`calls`), since a cache hit completes inside the launch and may launch
again; the world changes (`ApplySnapshot`, `ApplyPreferences`, `EndListing`,
`Retry`, `ExpireRestored`, `Shutdown`) only when it is empty. An identity is
what `FetchIdentity` compares, plus the operation that it does not. `tasks` are
the workers whose answer has not been received. The cache may answer or hold
back at any time. A region change appears as a change of target, a batch of
retries as one row after another, an answer's arrival and receipt as one step.

### WclAuth, WclConnection

`WclAuth` is every `WCLAuth` made for one `token.json`, with the fetch workers,
the startup validation, the settings commit that makes a new one and the wipe of
the cache directory. A refresh is taken apart where its locks are released: the
OAuth request, the publication in memory, the save, the second look at the
generation, and the deletion of what was saved too late.
`_invalidate_generation` is only ever compared, so one flag (`overtaken`) stands
for it. The file may fail to be written, deleted or protected.

`WclConnection` is the other side: `WCLClient`'s auth generation, retry block,
quota and connection status with the overlay's runtime generation. Tokens are
reduced to whether one is at hand; auths are numbered and the number doubles as
`_auth_generation`. The three kinds of retry block are one that remembers its
auth, and so are the quota and the status.

### CharacterCache, EvidenceLedger, CharacterCacheFile

`CharacterCache` orders answers that come in any order by the publication clock
read before the question (`_save_epoch`) and by proofs that outlive entries.
`EvidenceLedger` is what it promises its readers, without keys, clocks and caps:
evidence is given, may be withdrawn by later evidence, and what is visible is
some part of what was given and not withdrawn. `ImplementsLedger` maps the cache
to it with `visible` the answers a `get` may return. Three readings follow from
the code and are part of the ledger's bookkeeping: a private summary withdraws
older details of the scopes whose privacy is recorded (`PrivacyCounts`), or that
nothing newer opposes (`Unopposed`); privacy that newer public details oppose is
dropped, and when those are overwritten by an answer about fewer scopes
(`wcl.py:3145-3152`) still older public details of another key may show again;
and `clear` forgets what was withdrawn. The proof of the refinement found the
second: an earlier bookkeeping, which withdrew those details, holds with two
scopes and fails with three. `CharacterCacheFile` is the other half, the file:
what the cache holds is reduced to the number of the last put or clear, and the
timers, flushes, the clear, the close worker and a crash are taken apart.

### SettingsApply, SettingsEdits

`SettingsApply` is `_CoalescedSettingsApplier` with its prepare, commit and
roll-back: a worker captures and writes the file, the GUI thread changes the
runtime or restores the file; a legacy file, overrides of the environment,
credentials that are tested or a draft, the exit timer of the sync, and the
folder check that may repair the file at start. `Values` is an orthogonal array:
every two of the three settings take every pair of values. `SettingsEdits` is
the dialog: autosave, the probe of an edited folder and the generation that its
answer must match, holds by updates, resets and tests, and quitting.

### WowLifecycle, StartupShortcut

`WowLifecycle` has one user's processes: each waits for the game as a helper,
starts, runs as the program or ends; the exit timer counts misses; turning the
sync on or off starts or stops a helper. `StartupShortcut` has the threads of
`_WowSyncStartupConfigurator`, each with the generation of its request, the
work lock, the approval that Windows keeps, and the reconciliation at shutdown.
`Watch` reads the setting and the list of games in one step. A helper that
leaves because the sync was turned off removes the shortcut itself
(`_remove_wow_sync_startup_best_effort`, `__main__.py:2971`, 2982); that second
hand on the shortcut, in another process, is in neither module.

### RaiderIOLocal, RioPreload, RioRecord

`RaiderIOLocal` is `RaiderIOLocalReader` for one region. A load takes the
fingerprint of the four files one after the other, reads index and lookup of
each half, and takes the fingerprint again; the addon's updater replaces files
at any point in between. `entry` is `_RegionCacheEntry` (`state[h]` the
`_HalfCacheState` of a half, its `fallback` the grace), `loader` the loading
thread and where it is, `payloads` the decoded lookups on disk with the
generation of the load that wrote them. A version stands for content, size and
time of a file; `Generation` is the identity it states, which several versions
may share. `together` records which index and lookup were on disk at once:
a bundle is whole if it is such a pair, provided both files could be
fingerprinted. Of a file that could not be read at either fingerprint, but could
in between, nothing is known (`Told`): the code publishes such a half, and it may
be mixed until the next load. `Init` is the state before the first load, or after
one that nothing disturbed.

`RioPreload` has the requests of `StateMachine` (`key`, `serial`, `active`,
`completed`), the readers' threads with their callbacks, and the queued signals
that bring the answers. A replaced folder brings a new reader, which the machine
may fail to get: after a failed commit hook `source # reader`, and snapshots of
that watcher ask for no load; the property then promises nothing.

`RioRecord` is what a load accepts (`_validate_encoding_plan`,
`_parse_character_layout`) and what `lookup_profile` then reads, piece by piece
off the record's bits. Widths, sizes, offsets and the order of bosses are exact;
a value that is read is one of a few, and the names of Mythic+ values are left
out. `MCStores` lists the statements that are tried: every field and the fewest,
records one byte too short, raids known, unknown, twice, or with a different
number of bosses, realms stated twice and lookups too short.

### OverlayWindow

The window, its badge (`OverlayLauncher`), the foreground timer and
`ForegroundHook`. `ui` holds the attributes named beside its fields; a handler
is a chain of functions from one `ui` to the next, in the order of the code.
`TimerTick` and `HookTick` look at the front twice (`front`, then `front'`),
since it may change between the two looks; deadlines are flags that `PassTime`
takes away in any order; the button may be released without the program hearing
of it. The hook's thread installs, enters its loop and ends by itself.

### UpdateQuit, UsageConsent

`UpdateQuit` has the gate that blocks quitting, an attempt's thread with its
control, cancellation, hand-over to the installer and recovery, silent checks
and the control socket's quit. `UsageConsent` has the choices of the dialog,
the threads that persist them under the state lock, the delivery thread with its
retries and identities, and restarts. An HTTP request is one step that is
answered or fails. A delivery thread that cannot be started (`usage.py:362`) is
left out: the choice is then saved, and nothing is reported in that session.

## 3. Runs

| Run | Module | Bounds | Distinct states |
|---|---|---|---|
| `queue` | SnapshotApplyQueue | 2 keys, failures of key 2 and unstamped, 2 callbacks, 1 scheduler fault, planning and applying may fail | 354,711 |
| `live_cache` | LiveSnapshotCache | 2 named producers and the unnamed one, 3 submissions, 1 clear or wipe, 3 faults, closes or restarts | 1,434,000 |
| `overlay_fetch` | OverlayFetch | an applicant and a party member of one character, known and unknown spec, 2 choices of metrics, a private raid scope, 2 changes | 943,468 |
| `wcl_connection` | WclConnection | 2 workers and the validation, 2 auths, 2 runtime generations | 1,253,992 |
| `character_cache` | MCCharacterCache | 2 workers (symmetric), 1 character and variant, 2 scopes, 3 answers, 1 event, caps of 3 entries and 1 proof | 492,241 |
| `watching` | MCWatching | files: 2 screenshots of 3 kinds, 1 retry, 1 fault or restart; chunks: 4 screenshots, 2 streams, 2 generations, 2 chunks, 1 fault; replacement: 2 folders, 3 watchers, 2 snapshots each, 1 failure | 2,198,742 |
| `stores` | MCStores | merge: 3 events; tokens: 2 workers and the validation, 2 credentials, auths and tokens; file: 3 versions, 2 failing writes, 1 late timer, 2 closes, 1 crash; shortcut: 3 requests, 2 faults, 1 refusal; addon: 2 versions of each file, 2 loads, 3 replacements, unreadable files and clears; preloads: 2 regions, 2 readers, 5 requests; records: the 26 statements listed in MCStores, the Mythic+ ones with 2 indexes and 3 lengths of the lookup; window: none | 1,401,411 |
| `progress` | MCProgress | publication: 2 workers and the timer, 3 screenshots of which 2 are chunks; retired: 2 watchers, 2 failures; settings: 2 changes, 2 faults, and 3 edits of 2 folders; lifecycle: 3 processes, 3 games, 3 acts, 1 fault; update: 2 attempts, 2 checks; usage: 3 choices, 1 fault, 1 restart | 497,305 |
| `queue_scheduler_fault` | SnapshotApplyQueue | 2 keys, one scheduler fault | violation |
| `publication_early_delete` | ScreenshotPublication | 2 workers, 3 whole snapshots, no slot raises | violation |
| `live_cache_producer_checks` | LiveSnapshotCache | as `live_cache`, 1 fault | violation |
| `screenshot_claims_stuck` | ScreenshotClaims | 2 screenshots, 1 fault, a window of one file | violation |

Each passing run takes one to three minutes with two workers. What they show,
and why the bounds are enough:

* **queue.** Between any two steps of a flush: the live cache is never ahead of
  the machine and catches up at rest (`CacheFollowsMachine`); no snapshot is
  tried three times and the health row neither hides a newer failure nor shows
  an overtaken one (`FailuresInOrder`, `ReportedFailureIsNewest`); a replaced
  generation has no effect (`StaleFlushHasNoEffect`); nothing is pending without
  a flush (`NoLostWakeup`) and what is handed over is applied or shown
  (`HandedEventIsAnswered`). A failed batch, a snapshot that joins it and a
  failure between them need two keys; unstamped failures take branches of their
  own. The theorems cover all larger instances.
* **live_cache.** One generation change and three faults let a save in flight
  meet a clear, a failed write, a retry and a restart. `CacheIsSound`: nothing
  stale is left but a file that could not be read or removed when its turn came,
  the latest save is kept at rest, a clear that returned True
  survives a crash, a close that returned True left nothing undone.
  `LatestSaveIsWritten`: it reaches the file in the end.
* **overlay_fetch.** Two rows of one character are the least that share a worker
  and a route; two changes let every pair of events meet running workers. A
  loading row has a worker that will answer it, no worker runs for nobody, and
  what is shown is of the current target, credentials and settings
  (`RowsAreServed`, with `ShownIsCurrent`); every row settles (`RowsSettle`).
* **wcl_connection.** One replacement, one region change and two requests let
  every answer, failure and result of the old credentials arrive after the
  change, before and after the overlay knows of it. Retry block, quota and
  status stay those of the credentials in force (`LimitsAreCurrent`), the
  refresh lock has one holder (part of `TypeOK`), "checking" ends
  (`CheckingEnds`).
* **character_cache.** Three answers are a question overtaken by a second and
  proved by a third; the caps are reached; a flush, clear or restart falls
  between any two steps. Readers are shown only what was answered and is not
  withdrawn (`ImplementsLedger`).
* **watching.** Only the addon's files are deleted and the index is true
  (`UserFilesAreSafe`); none is removed before it or a newer one was answered
  for, nor forgotten (`ScreenshotsAreNotLost`); a snapshot is made of one generation and every file
  is given back (`GroupsArePure`), in source order with the newest among them
  (`GroupsKeepOrder`); what is shown is of the folder in force, the watcher in
  charge feeds the program, nothing handed over is stranded (`HandoffIsClean`).
  Two screenshots are the least of which one may be overwritten, deferred or
  overtaken; three watchers are one in charge, one that fails and one more.
* **stores.** What is coalesced shows what applying each snapshot would and
  listeners know of every change (`CoalescingIsSafe`); an invalidated token
  serves nobody (`TokensAreLive`) nor the next start (`TokenFileServes`); what
  was cleared stays away and what close reported is on disk
  (`CacheFileIsDurable`); what is told of the shortcut is so
  (`ShortcutAnswersAreTrue`); no token is dropped and no start approved without
  cause (`NothingDroppedOrApprovedUnasked`); profiles come from files that
  belong together, one grace long, and the last answer reaches the rows
  (`LocalProfilesAreSound`); what is accepted of the addon is read to the last
  bit, each boss with its own kills (`RecordsAreRead`); window, badge, tooltip
  and timer agree (`SurfacesAgree`) and follow the game (`SurfacesFollow`). Two
  versions are an update, and three troubles a replacement, a file that cannot
  be read and a clear during one load. The window needs no bound. Workers and
  credentials are only compared for equality and no liveness is checked, so the
  symmetry is sound.
* **progress.** Safety of the seven parts (`PublicationIsSafe`, `StoppedOnce`,
  `SettingsAreSound`, `NobodyLeftBehind`, `UpdateIsSafe`, `FileHoldsTheChoice`,
  `NothingTooLate`) and their liveness (`EverythingArrives`, `WhatBeganEnds`,
  `FollowsTheGame`). Two of whatever shares something, three of whatever is
  ordered, and one or two faults.

Every property of a passing run has mutants in `PROJECT.json`: plausible bugs in
one definition that make TLC find it violated. `CHECK_DEADLOCK FALSE` is set
where the program really may stop: after shutdown or close, and when the bounded
inputs are used up. The queue checks deadlock: its generation may always change.

### Disagreements between code and text

With a run of their own:

* `queue_scheduler_fault`: the comment at `snapshot_pipeline.py:535` promises
  that a pending event is retained "for the next event" when the scheduler
  raised. A decode failure that follows a pending snapshot returns before
  `_schedule_flush` and leaves it without a flush; only another snapshot or
  shutdown flushes it.
* `publication_early_delete`: the comment at `__main__.py:3971` says that a
  worker hands its snapshot to the apply queue before it may delete the
  screenshot. A worker whose snapshot joins another publisher's queue deletes
  at once (`screenshot.py:3123`).
* `live_cache_producer_checks`: a test says that producer checks cannot restore
  an older producer. A pending check of a named producer may be replaced by one
  without a usable name (`live_snapshot_cache.py:822`), and the older
  producer's file stays.
* `screenshot_claims_stuck`: a rescan is requested so that an older snapshot
  "cannot remain stuck" (`screenshot.py:4025`), but a file outside the small
  window of the first scan was claimed and released, and stays among the recent
  keys while the rescan passes it by (`screenshot.py:3556`).

Met while modelling and stated in the modules, without a run:

* `SettingsApply!PromotionSurvives`: the comment at `__main__.py:4784` says that
  a promotion of tested credentials is never dropped for a newer item that would
  not repeat it. That holds of one whose outcome has come; one that still waits
  is replaced by the next submission (`submit`), be it a draft only.
* `SettingsApply!RunningTimerIsKnown`: after a failed turn-off whose back-out
  started a new exit timer, the program no longer knows the timer that runs, and
  turning the sync off does not stop it (`src/README.md:177`).
* `src/RELEASE_NOTES.md:183` says that a manually reopened overlay stays open for
  a few seconds. The tick keeps it (`KeepReopened` of OverlayWindow), but rows
  that arrive while another program is in front hide it (`MaybeShow`,
  `overlay.py:6936`).
* `SettingsEdits!QuitKeepsTheFolder`: quitting while a probe is under way can
  keep the folder out of the file (`settings_dialog.py:1940`).
* The comments at `overlay.py:5540` and `overlay.py:5616` speak of popping the
  window up when an applicant or a listing comes. Over the game `_maybe_show`
  never opens a hidden window, it shows the badge (`MaybeShow`), as
  `src/tests/test_info_panel_widget.py:4973` wants it. No property of
  OverlayWindow takes either side.

No run of this project shows these five, and nothing checked above rests on
them.

Readings of the code that the properties take into account, each with a history
variable that says so: a confirmed control quit comes later and ends an update
begun in between (`promised` of UpdateQuit); a helper that meets an ending
program leaves nobody (`excused` of WowLifecycle); after a failed commit a
generation is used again (`uncommitted` of WatcherHandoff); after an expiry an
older assembly may be accepted (`lost` of FragmentAssembler); the wipe of the
cache directory takes no lock and may remove a newer file (`wiped` of
CharacterCacheFile); an opt-out not saved yet is lost by a crash (UsageConsent).

### Fairness

Weak fairness, with one exception, and only of what the program's own schedulers
run: a call that has begun ends, the Qt event loop runs what was posted, a
started timer fires, a started thread runs. By module:

| Module | Weakly fair |
|---|---|
| SnapshotApplyQueue | `Handoff`, the callbacks, `Flush` |
| ScreenshotPublication | `Take`, `Publish`, `Remove`, `QueueTimeout`, `ScheduledFlush`, `Quiesce` |
| LiveSnapshotCache | `CommitSubmit`, `EndClear`, `FireTimer`, `PerformIo`, `CloseWorker`, `ClearCacheDir` |
| OverlayFetch | `Handle`, `ReceiveAnswer` |
| WclConnection | the steps of the threads; the validation's `Lock` strongly |
| RetiredWatchers | `Passes` (a stop that does not hang), `StopAllReturns` (its deadline) |
| SettingsApply, SettingsEdits | the worker and the GUI thread; timers, the probe's result, releases |
| WowLifecycle | each process's polling, the exit timer, `Ends`, the toggles begun |
| UpdateQuit | each attempt's thread, its answer, the recovery timer |
| UsageConsent | the writers, the delivery thread |

The exception is the validation's wait for the refresh lock: workers take the
lock in turn, so it is free again and again but not for good, and strong fairness
says that the validation gets it in the end. Python's locks promise no order; it
is enough here that a worker that has a token leaves the lock alone until the
token expires. Requests end because `WCLClient` has time limits. Nothing is
assumed of the outside: no screenshot need arrive, no watcher be replaced, no
user act, no game start, and nothing that fails is assumed to succeed in the
end.

## 4. Proofs

Every theorem is about the specification that the runs check, for every value of
its constants that satisfies the named assumptions; bounds such as
`SchedulerFaults` or `MaxFailures` may be any number, so the theorems cover any
number of failures. The assumptions only say that actors are different, that
bounds are natural numbers and that keys and flags have their types
(`ActorAssumption`, `KeyAssumption`, `BoundAssumption`, `BoundsAssumption`,
`FailureAssumption`, `ProducerAssumption`, `WatcherAssumption`,
`CredentialsAssumption`, `RequestsAssumption`, `ShotAssumption`,
`GenerationAssumption`, `EntryAssumption`, `PreloadAssumption`, and
`ScopeAssumption`: the difficulties are finitely many, details exist for some of
them, and at least one is selected); TLC evaluates them on every run.

None of the invariants is inductive as it stands. Each module therefore states,
under a heading of its own, the parts that have to be added; their conjunction is
inductive, TLC checks it on the run's constants, and the proofs show that it
holds initially, that every action preserves each conjunct, and that it implies
the property.

| Theorem | Property | What the inductive invariant adds |
|---|---|---|
| `TypeCorrect`, `OrderKept` (queue) | `TypeOK`, `QueueInvariant` | batches keep their shape, what is left to do is ahead of the cache |
| `WakeupNeverLost` | `NoLostWakeup` | a flush has taken what was pending; otherwise a failing flush could put a batch back next to another one that counts on its own flush |
| `CacheFollows` | `CacheFollowsMachine` | order of batches and of a plan's steps: a submission is safe because the steps are ahead of the cache, and that because batches were ordered when merged |
| `FailuresAreOrdered` | `FailuresInOrder` | how often each source of a batch was offered: once before a flush, or twice after the one retry; the head is strictly older than the rest |
| `FailureShownIsNewest` | `ReportedFailureIsNewest` | what is retained, pending or being flushed is newer than what was applied |
| `StaleFlushIsHarmless` | `StaleFlushHasNoEffect` | every step with an effect looks at the generation first |
| `CacheFileIsSound` | `CacheIsSound` | the file on disk fits, but for the one kept, or will once the operation accepted last is done (`FileInvariant`); the operation accepted last is pending, or under way, or done (`ChainInvariant`), so a failed write puts only that back; an operation of a former generation is waited for; an operation dropped by coalescing leaves the intended file as it is |
| `LimitsAlwaysCurrent` | `LimitsAreCurrent` | outside a commit, a request launched in the current runtime generation has taken the current auth; results are judged by the runtime generation alone |
| `LocksAreHeldByOne` | `TypeOK` (WclConnection) | a thread past its start has an auth; who waits, holds and releases |
| `PublicationsAreSafe` | `PublicationIsSafe` | what is accepted and not applied is in the queue, with the publisher, or behind a newer one (`AwaitInvariant`), in order; claims are disjoint |
| `RetiredStopsOnce` | `StoppedOnce` | the stop lock's holder is the only thread in a stop; what it holds is still owned |
| `SettingsFollow` | `SettingsAreSound` | what the worker captured, or the kept baseline, loads what the runtime follows; what it wrote loads what the commit will make of the runtime; an own timer runs exactly with the sync |
| `SomebodyServes` | `NobodyLeftBehind` | who may leave knows of another: a helper, the instance that answered, or the saved setting |
| `UpdatesAreSafe` | `UpdateIsSafe` | the gate is held from the start of an attempt to its completion; a completion carries its attempt's control |
| `UsageFileHoldsTheChoice` | `FileHoldsTheChoice` | one writer under the lock; a later request makes an older writer stop or write the same |
| `NothingComesTooLate` | `NothingTooLate` | with the invariants above: a timeout waits behind what was accepted before it, a stop looks at the deadline under the lock, a report at the consent |
| `InvalidTokensServeNobody`, `TokenFileIsFit` | `TokensAreLive`, `TokenFileServes` | tokens are numbered as issued; one that is being published is known to nobody else; a refresh nothing overtook brings one not invalidated; a second attempt differs from the first |
| `DropsAndApprovals` | `NothingDroppedOrApprovedUnasked` | with the invariants of tokens and of the shortcut |
| `TypesHold` (CharacterCache) | `TypeOK` | entries are complete for their keys, and every put stores an answer of its own, so that there are no more puts than answers |
| `CacheImplementsLedger` | `ImplementsLedger` | what the store shows was answered and is not withdrawn; what a task holds was answered, and if it is withdrawn by now, a proof or a floor bars it (`ItemBarred`), which stays so for every clock read before (`StillBarred`); an absence known only by its proof is barred likewise once the character was found |
| `CacheFileLasts` | `CacheFileIsDurable` | what is about to be written is no older than any reported clear; what is not dirty is on disk or with a writer; after close's result nobody writes |
| `ShortcutAnswersHold` | `ShortcutAnswersAreTrue` | the thread at work holds the lock and is alone; what the program believes is so except between a thread's two steps; after a good answer nobody changes the shortcut |
| `OneGenerationPerSnapshot` | `GroupsArePure` | pending chunks are of the group in force, from files not given back |
| `AcceptedFollowsSources` | `GroupsKeepOrder` | a stream's tenure begins with a chunk newer than the frontier and generations grow with source order; once a chunk of the last generation has come it stays current until accepted; a barred generation is never collected again |
| `UserFilesSurvive` | `UserFilesAreSafe` | paths only get newer generations; what a worker is to delete, or what is queued for it, is one of the addon's if it is still on its path; what was decoded is the generation claimed, unless the file has changed by now |
| `NoScreenshotIsLost` | `ScreenshotsAreNotLost` | what is removed: generations of a path follow each other, a path is held by one thread, a scan works from the newest to the oldest, and whatever is queued, claimed for removal or left behind by a snapshot that was applied is no newer than the frontier or than what was reported, or old (`Sound`). What is left: as long as every screenshot could be read, something leads to every file that is still to be applied (`ChargesFit`: an event, a timer, a scan or a thread), because a thread that lets go of a path has settled what is there (`HoldFits`), recent keys and the index name only what needs nothing more (`IndexOK`, `GuardOK`); with nothing unread no generation is deferred and no scan is blocked |
| `ProfilesAreSound` | `LocalProfilesAreSound` | versions only grow, so of two that a fingerprint saw one after the other, either they were there together or the first has been replaced since (`Met`); what was read lies between the first fingerprint and now, and the second fingerprint shows what was replaced (`ReprintHolds`); the history of failures is the entry's grace (`FailuresAreCounted`); a request is at one place only and the newest one counts (`NewestCounts`) |
| `ShownSurfacesAgree` | `SurfacesAgree` | a badge that is out of sight keeps a tooltip that is right once it comes back |
| `ShownSurfacesFollow` | `SurfacesFollow` | from the same invariant: the three conditions on what a step brings hold handler by handler (`Brings`), the two on what a look leaves by the branch that the look takes (`Leaves`) |
| `ReplacementsAreClean` | `HandoffIsClean` | the gate is the generation of the watcher in charge, or one more while replacing; other committed watchers are strictly older unless a commit failed; what was handed over early is buffered until the commit, then posted |

The newest of a set of sources and the first element to fail are found with
`FS_StrictSubsetOrderingWellFounded` and `WFMin`, since the induction theorems
of the library cannot be instantiated here.

Model-checked only:

* **Liveness** (`HandedEventIsAnswered`, `LatestSaveIsWritten`, `RowsSettle`,
  `CheckingEnds`, `EverythingArrives`, `WhatBeganEnds`, `FollowsTheGame`): out of
  the prover's reach, as is ENABLED.
* **`CoalescingIsSafe`, `RecordsAreRead`**: the plan is a fold over the sequence
  of waiting snapshots, a record's budget a sum over its fields, and what a fold
  yields for every sequence needs induction over data, which the provers cannot
  instantiate.
* **`RowsAreServed` (OverlayFetch)**: provable in principle; not done.

## 5. Plan

What is left, in the order it would be done:

1. A proof of `RowsAreServed` (OverlayFetch).
2. The raid-boss fetches of the overlay next to its rank fetches; their answers
   are already ordered by `CharacterCache`.
3. The choice and verification of a release, before `UpdateQuit` begins.

## 6. Not modelled

* **Image code and QR payload.** Which pixels make a code, and the bytes of a
  chunk, are data: a screenshot decodes to a fragment, a snapshot or a failure.
* **Scoring, presentation, the text of Raider.IO's files.** Pure functions of data
  that the modules above hand over, and widgets.
* **Look-ups**: installation discovery, constants, logging.
* **Build, packaging and release scripts** run outside the program.
* **Atomic file output** is one step that happens or fails; that a crash leaves
  the old or the new file is `os.replace`'s promise.
* **The probe's child process, the first-run flow**: the modules see their
  results.
* **Time** is "a timer may fire" or "an entry may be too old".
* **Windows, Qt and the WCL service** are external: they may do what the code
  is prepared for, in any order.
