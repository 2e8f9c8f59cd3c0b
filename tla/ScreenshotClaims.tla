--------------------------- MODULE ScreenshotClaims ---------------------------
(***************************************************************************)
(* The screenshot watcher (screenshot.py, verified_file_cleanup.py) with   *)
(* all the threads that may pick up a screenshot: the watchdog dispatcher, *)
(* retry timers, the backlog scan and the supervisor's cleanup.  WoW       *)
(* writes screenshots, also over existing ones; the addon's are applied    *)
(* and deleted, the user's are remembered in an index and left alone.      *)
(*                                                                         *)
(* What a worker knows of a file is one generation of it (_ScreenshotWork- *)
(* Key: identity, time and size); generations are numbered by their time.  *)
(* Assembling fragments and publishing from several threads is the concern *)
(* of ScreenshotPublication and FragmentAssembler: here a snapshot is whole *)
(* and a publication is one step. Chunks, damaged ones with their report at *)
(* the end of a phase included, are left out.                              *)
(***************************************************************************)
EXTENDS Integers, FiniteSetsExt, SequencesExt

CONSTANTS
    Kinds,          \* what screenshots may show: the addon's marker with a snapshot
                    \* ("owned") or with a payload that does not parse ("corrupt"),
                    \* what may be a damaged marker ("suspect"), no marker ("manual")
    MaxGenerations, \* bound on screenshots written
    MaxAttempts,    \* _CLEANUP_RETRY_DELAYS: removals tried after the first
    MaxFaults,      \* bound on failing decodes, failing removals, observers that die
                    \* and restarts, all together
    RetryWindow     \* _BACKLOG_INCOMPLETE_SCAN_LIMIT

BoundsAssumption == MaxGenerations \in Nat
Generations == 1..MaxGenerations
Paths == Generations     \* a file is named for the first screenshot written to it
Missing == 0
NoDecoder == -1          \* in place of what a worker got: there was nothing to read with

VARIABLES
    written,        \* the number of the last screenshot taken
    kind,           \* what each generation shows
    name,           \* the file each generation is written to
    file,           \* per path the generation on disk
    over,           \* the second in which the last screenshot was taken is over
    old,            \* generations past the time in which they are applied
    observing,      \* the watchdog observer is alive
    events, genTimers, incTimers,  \* watchdog events; the two kinds of retry timers
    active, recent, \* _active_paths, _recent_keys
    manual, deferred, cursor,      \* _ManualScreenshotIndex
    saved,          \* the index on disk
    job,            \* per thread: the file it works on
    scan, rescan,   \* the backlog scan under way; _backlog_rescan_requested
    pending, failed, deleting,     \* _cleanup_pending, _failed, _active
    frontier,       \* the newest snapshot the assembler has accepted
    published, reported,    \* history: generations announced, and reported as corrupt
    removed, unread,        \* history: generations deleted, and not read
    faults

disk == <<written, kind, name, file, over, old>>
wakeups == <<observing, events, genTimers, incTimers>>
claims == <<active, recent>>
indexMemory == <<manual, deferred, cursor>>
index == <<indexMemory, saved>>
cleanup == <<pending, failed, deleting>>
history == <<published, reported, removed, unread>>
vars == <<disk, wakeups, claims, index, job, scan, rescan, cleanup, frontier, history, faults>>

Threads == {"observer", "timer", "backlog", "supervisor"}
Idle == [stage |-> "idle", mode |-> "none"]
None == [generation |-> Missing]
NoScan == [todo |-> {}, on |-> FALSE]

Init ==
    /\ kind \in [Generations -> Kinds]
    /\ name \in {f \in [Generations -> Paths] : \A g \in Generations :
                    f[g] = g \/ (g > 1 /\ f[g] = f[g - 1])}
    /\ written \in 0..MaxGenerations
    /\ file = [p \in Paths |-> Max({Missing} \cup {g \in 1..written : name[g] = p})]
    /\ \E n \in 0..written : old = 1..n
    /\ saved \in [manual : SUBSET {g \in 1..written : kind[g] = "manual"},
                  deferred : SUBSET (1..written), cursor : {Missing}]
    /\ saved.manual \cap saved.deferred = {}
    /\ over \in {(written \in old \cup saved.manual \cup saved.deferred), TRUE}
    /\ manual = saved.manual /\ deferred = saved.deferred /\ cursor = saved.cursor
    /\ observing = TRUE /\ events = {} /\ genTimers = {} /\ incTimers = [p \in Paths |-> Missing]
    /\ active = {} /\ recent = {}
    /\ job = [t \in Threads |-> Idle]
    /\ scan = NoScan /\ rescan = TRUE
    /\ pending = [p \in Paths |-> None] /\ failed = [p \in Paths |-> Missing]
    /\ deleting = [p \in Paths |-> None]
    /\ frontier = 0 /\ published = {} /\ reported = {} /\ removed = {} /\ unread = saved.deferred
    /\ faults = 0

-----------------------------------------------------------------------------
(* The game, the file system and time.                                      *)

\* A screenshot is taken; the name holds the second, so that one taken within the
\* same second replaces the last.
WriteScreenshot ==
    LET g == written + 1
    IN  /\ g \in Generations
        /\ name[g] = g \/ ~over
        /\ written' = g /\ over' = FALSE
        /\ file' = [file EXCEPT ![name[g]] = g]
        /\ events' = IF observing THEN events \cup {name[g]} ELSE events
        /\ UNCHANGED <<kind, name, old, observing, genTimers, incTimers, claims, index, job, scan, rescan,
                       cleanup, frontier, history, faults>>

\* Time passes: the oldest generation that was recent is no longer. It is not applied
\* any more after snapshot_apply_cutoff_ns. (A scan reads those of the next minutes
\* still in its first phase; here they belong to the second.)
Age ==
    /\ \E g \in 1..written \ old :
          /\ \A h \in 1..g - 1 : h \in old
          /\ old' = old \cup {g} /\ over' = (over \/ g = written)
    /\ UNCHANGED <<written, kind, name, file, wakeups, claims, index, job, scan, rescan,
                   cleanup, frontier, history, faults>>

\* _RECENT_WORK_KEY_TTL_SECONDS, more than a second, passes.
RecentExpires(g) ==
    /\ g \in recent /\ recent' = recent \ {g}
    /\ over' = (over \/ name[g] = name[written])
    /\ UNCHANGED <<written, kind, name, file, old, wakeups, active, index, job, scan, rescan, cleanup, frontier, history, faults>>

-----------------------------------------------------------------------------
(* Claims.                                                                  *)

Claimable(p) == file[p] # Missing /\ p \notin active /\ file[p] \notin recent

\* A thread takes a file on: `decoded` is the generation its decoding is about,
\* `seen` the generations whose keys it has come across.
Job(p, mode, attempt, final) ==
    [stage |-> "claimed", path |-> p, mode |-> mode, attempt |-> attempt, final |-> final,
     decoded |-> file[p], seen |-> {file[p]}, got |-> Missing, settled |-> FALSE,
     retry |-> FALSE, again |-> FALSE, tries |-> 0]

\* _on_new_file_guarded for p: a file another thread has, or had a moment ago, is
\* left to that thread.
Take(t, p, mode, attempt, final) ==
    IF Claimable(p)
    THEN active' = active \cup {p} /\ job' = [job EXCEPT ![t] = Job(p, mode, attempt, final)]
    ELSE job' = [job EXCEPT ![t] = Idle] /\ UNCHANGED active

Event ==
    /\ job["observer"] = Idle
    /\ \E p \in events : events' = events \ {p} /\ Take("observer", p, "live", 1, FALSE)
    /\ UNCHANGED <<disk, observing, genTimers, incTimers, recent, index, scan, rescan, cleanup,
                   frontier, history, faults>>

GenerationRetry ==
    /\ job["timer"] = Idle
    /\ \E p \in genTimers : genTimers' = genTimers \ {p} /\ Take("timer", p, "live", 1, FALSE)
    /\ UNCHANGED <<disk, observing, events, incTimers, recent, index, scan, rescan, cleanup,
                   frontier, history, faults>>

\* The last try of an unchanged generation whose scan was incomplete.
IncompleteRetry ==
    /\ job["timer"] = Idle
    /\ \E p \in {x \in Paths : incTimers[x] # Missing} :
          /\ incTimers' = [incTimers EXCEPT ![p] = Missing]
          /\ IF file[p] # incTimers[p] THEN UNCHANGED <<job, claims>>
             ELSE /\ recent' = recent \ {file[p]}
                  /\ IF p \in active THEN UNCHANGED <<job, active>>
                     ELSE /\ active' = active \cup {p}
                          /\ job' = [job EXCEPT !["timer"] = Job(p, "live", 1, TRUE)]
    /\ UNCHANGED <<disk, observing, events, genTimers, index, scan, rescan, cleanup, frontier, history, faults>>

-----------------------------------------------------------------------------
(* Deciding on, decoding and classifying a file.                            *)

With(r, fields) == [f \in DOMAIN r |-> IF f \in DOMAIN fields THEN fields[f] ELSE r[f]]
Step(t, fields) == job' = [job EXCEPT ![t] = With(@, fields)]
Leave(t) == Step(t, [stage |-> "release"])
Path(t) == job[t].path
Now(t) == file[Path(t)]

\* _process_new_file and _decode_current_claim up to the decoder: the claim is
\* refreshed, a file the index knows is left alone. The sweep looks at the age.
LookLive(t) ==
    LET known == Now(t) = Missing \/ Now(t) \in manual \/ job[t].decoded \in manual
        young == job[t].mode = "sweep" /\ job[t].decoded \notin old
    IN  /\ job[t].stage = "claimed" /\ job[t].mode \in {"live", "sweep"}
        /\ IF young THEN Step(t, [stage |-> "release", again |-> TRUE])
           ELSE IF known THEN Leave(t)
           ELSE Step(t, [stage |-> "decoding", decoded |-> Now(t), seen |-> job[t].seen \cup {Now(t)}])
        /\ UNCHANGED <<disk, wakeups, claims, index, scan, rescan, cleanup, frontier, history, faults>>

\* _classify_backlog_candidate after the claim. A file outside of the retry window
\* stays undecided, and no older one may be acted on.
LookBacklog(t) ==
    LET skipped == scan.window /\ job[t].decoded \notin scan.selected
    IN  /\ job[t].stage = "claimed" /\ job[t].mode = "backlog"
        /\ IF job[t].decoded \in manual \/ skipped THEN Leave(t) ELSE Step(t, [stage |-> "decoding"])
        /\ scan' = [scan EXCEPT !.blocked = @ \/ (job[t].decoded \notin manual /\ skipped)]
        /\ UNCHANGED <<disk, wakeups, claims, index, rescan, cleanup, frontier, history, faults>>

\* _decode_claim_generation reads what the file holds by now, and a retry finds out
\* that it is gone. A scan that stays incomplete has got nothing.
Decode(t) ==
    /\ job[t].stage = "decoding"
    /\ \/ /\ Now(t) # Missing /\ UNCHANGED <<faults, unread>>
          /\ Step(t, [stage |-> "decoded", got |-> Now(t)])
       \/ Now(t) = Missing /\ Leave(t) /\ UNCHANGED <<faults, unread>>
       \/ /\ faults < MaxFaults /\ faults' = faults + 1
          /\ unread' = unread \cup {IF Now(t) = Missing THEN job[t].decoded ELSE Now(t)}
          /\ \E got \in {Missing, NoDecoder} : Step(t, [stage |-> "decoded", got |-> got])
    /\ UNCHANGED <<disk, wakeups, claims, index, scan, rescan, cleanup, frontier, published,
                   reported, removed>>

\* (An error without a marker is always one of the last two; the branches for
\* others are dead.)
Complete(t) == job[t].got # Missing
Shows(t, k) == job[t].got \in Generations /\ kind[job[t].got] = k
Marked(g) == kind[g] \in {"owned", "corrupt"}
ShowsMarker(t) == job[t].got \in Generations /\ Marked(job[t].got)

\* _finalize_decode_result: another generation is there by now.
ChangedNever(t) == FALSE    \* mutant
Changed(t) == Now(t) \notin {Missing, job[t].decoded}
FinalizeChanged(t) ==
    /\ job[t].stage = "decoded" /\ Changed(t)
    /\ Step(t, [stage |-> "release", settled |-> TRUE, retry |-> TRUE])
    /\ UNCHANGED <<disk, wakeups, claims, index, scan, rescan, cleanup, frontier, history, faults>>

\* The rest of it, and note_deferred of the backlog: the index learns of the
\* generation, at once on disk unless a scan saves at its end, and a deferred one
\* that is resolved asks for a new scan.
Classify(t) ==
    LET g == job[t].decoded
    IN  /\ job[t].stage = "decoded" /\ ~Changed(t)
        /\ manual' = IF Shows(t, "manual") /\ Now(t) # Missing THEN manual \cup {g} ELSE manual
        /\ deferred' = IF Complete(t) THEN deferred \ {g}
                       ELSE IF job[t].mode = "backlog" THEN deferred \cup {g} ELSE deferred
        /\ rescan' = (rescan \/ (g \in deferred /\ Complete(t)))
        /\ saved' = IF Complete(t) /\ job[t].mode # "backlog"
                    THEN [manual |-> manual', deferred |-> deferred', cursor |-> cursor] ELSE saved
        /\ UNCHANGED cursor

\* Accepted is what is newer than all the assembler has accepted.
Accept(g, publish) ==
    /\ frontier' = Max({frontier, g})
    /\ published' = IF g > frontier /\ publish THEN published \cup {g} ELSE published

Settled(t, stage) == Step(t, [stage |-> stage, settled |-> TRUE])

Report(g, needed) == reported' = IF needed THEN reported \cup {g} ELSE reported

\* _dispatch_live_decode_result. An incomplete scan is tried once more, unless too
\* many in a row were: then it is reported, as a missing decoder is. A corrupt
\* screenshot is reported and goes like one that was applied.
FinalizeLive(t) ==
    LET g == job[t].decoded
        retried == ~Complete(t) /\ ~job[t].final
    IN  /\ job[t].mode = "live" /\ Classify(t)
        /\ incTimers' \in {incTimers} \cup (IF retried THEN {[incTimers EXCEPT ![Path(t)] = g]} ELSE {})
        /\ IF Shows(t, "owned") THEN Accept(g, TRUE) ELSE UNCHANGED <<frontier, published>>
        /\ Report(g, Shows(t, "corrupt"))
        /\ Settled(t, IF ShowsMarker(t) THEN "delete" ELSE "release")
        /\ UNCHANGED <<disk, observing, events, genTimers, claims, scan, cleanup, removed, unread, faults>>

\* _handle_decoded_generation: newest first, one snapshot is applied, or one failure
\* reported, if nothing newer is undecided; what is older is removed without either.
\* What is blocked and not the user's is to be looked at again. Without a decoder
\* the scan ends, and the rest of its list is not read.
FinalizeBacklog(t) ==
    LET g == job[t].decoded
        fresh == scan.recent /\ g \notin scan.old
        owned == Shows(t, "owned") /\ ~scan.blocked
        failing == Shows(t, "corrupt") /\ ~scan.blocked /\ scan.recent /\ ~scan.applied
        ends == \/ job[t].got = NoDecoder
                \/ ~Complete(t) /\ scan.incomplete + 1 >= RetryWindow
    IN  /\ job[t].mode = "backlog" /\ Classify(t)
        /\ IF owned THEN Accept(g, fresh /\ ~scan.applied) ELSE UNCHANGED <<frontier, published>>
        /\ Report(g, failing)
        /\ incTimers' = IF ~Complete(t) /\ scan.recent THEN [incTimers EXCEPT ![Path(t)] = g] ELSE incTimers
        /\ unread' = IF job[t].got = NoDecoder
                     THEN unread \cup {file[e.path] : e \in scan.todo} ELSE unread
        /\ scan' = [scan EXCEPT
              !.applied = @ \/ (owned /\ fresh /\ g > frontier) \/ failing,
              !.blocked = @ \/ ~Complete(t),
              !.incomplete = IF Complete(t) THEN @ ELSE @ + 1,
              !.todo = IF ends THEN {} ELSE @]
        /\ Step(t, [stage |-> IF ShowsMarker(t) /\ ~scan.blocked THEN "delete" ELSE "release",
                    settled |-> TRUE,
                    again |-> (ShowsMarker(t) \/ Shows(t, "suspect")) /\ scan.blocked])
        /\ UNCHANGED <<disk, observing, events, genTimers, claims, cleanup, removed, faults>>

\* _cleanup_tick after the decoding: what is not historical is left to others.
FinalizeSweep(t) ==
    LET young == job[t].decoded \notin old
    IN  /\ job[t].mode = "sweep" /\ Classify(t)
        /\ Step(t, [stage |-> IF ShowsMarker(t) /\ ~young THEN "delete" ELSE "release",
                    settled |-> TRUE, again |-> young])
        /\ UNCHANGED <<disk, wakeups, claims, scan, cleanup, frontier, history, faults>>

-----------------------------------------------------------------------------
(* Removing a screenshot: _delete_owned_screenshot.                         *)

Deleted(t) == IF job[t].mode = "retry" THEN job' = [job EXCEPT ![t] = Idle] ELSE Leave(t)

\* The generation a removal of this path is about already.
Tracked(p) == IF pending[p] # None THEN pending[p].generation ELSE deleting[p].generation

\* It is refused if a removal of this generation is queued or under way, or of
\* another one that may be newer.
MayDelete(p, g, tries) ==
    /\ Tracked(p) \in {Missing, g} \/ file[p] = g
    /\ IF tries > 0 THEN pending[p] = [generation |-> g, tries |-> tries]
       ELSE pending[p].generation # g
    /\ deleting[p].generation # g

DeleteBegin(t) ==
    LET p == Path(t)  g == job[t].decoded
    IN  /\ job[t].stage = "delete"
        /\ IF MayDelete(p, g, job[t].tries)
           THEN /\ deleting' = [deleting EXCEPT ![p] = [generation |-> g, by |-> t]]
                /\ pending' = IF job[t].tries = 0 THEN [pending EXCEPT ![p] = None] ELSE pending
                /\ Step(t, [stage |-> "unlink"])
           ELSE Deleted(t) /\ UNCHANGED <<pending, deleting>>
        /\ UNCHANGED <<disk, wakeups, claims, index, scan, rescan, failed, frontier, history, faults>>

\* unlink_verified_file: only the generation that was looked at is removed. What
\* could not be removed is tried again later or reported.
MatchesByName(p, g) == TRUE    \* mutant
Matches(p, g) == file[p] = g
Unlink(t) ==
    LET p == Path(t)  g == job[t].decoded
        mine == deleting[p] = [generation |-> g, by |-> t]
        dequeued == IF pending[p].generation = g THEN None ELSE pending[p]
    IN  /\ job[t].stage = "unlink"
        /\ \/ /\ UNCHANGED faults
              /\ IF Matches(p, g) /\ file[p] # Missing
                 THEN file' = [file EXCEPT ![p] = Missing] /\ removed' = removed \cup {file[p]}
                 ELSE UNCHANGED <<file, removed>>
              /\ pending' = IF mine THEN [pending EXCEPT ![p] = dequeued] ELSE pending
              /\ failed' = IF mine /\ failed[p] = g THEN [failed EXCEPT ![p] = Missing] ELSE failed
           \/ /\ file[p] # Missing /\ faults < MaxFaults /\ faults' = faults + 1
              /\ UNCHANGED <<file, removed>>
              /\ IF ~mine THEN UNCHANGED <<pending, failed>>
                 ELSE IF job[t].tries < MaxAttempts
                 THEN /\ pending' = [pending EXCEPT ![p] = [generation |-> g, tries |-> job[t].tries + 1]]
                      /\ UNCHANGED failed
                 ELSE /\ pending' = [pending EXCEPT ![p] = dequeued]
                      /\ failed' = [failed EXCEPT ![p] = g]
        /\ deleting' = IF mine THEN [deleting EXCEPT ![p] = None] ELSE deleting
        /\ Deleted(t)
        /\ UNCHANGED <<written, kind, name, over, old, wakeups, claims, index, scan, rescan, frontier,
                       published, reported, unread>>

-----------------------------------------------------------------------------
(* The end of a claim.                                                      *)

\* release: the generation decoded, or all that were seen, will not be taken on
\* again for a while. A settled one that has been replaced since is new work.
WorkedOnAll(t) == job[t].seen \cup ({Now(t)} \ {Missing})    \* mutant
Worked(t) == IF job[t].settled THEN {job[t].decoded} ELSE job[t].seen \cup ({Now(t)} \ {Missing})
NewWork(t) == job[t].retry \/ (job[t].settled /\ Changed(t))

\* What the caller forgets again: a blocked generation, a file the sweep left.
Forgotten(t) ==
    IF job[t].mode = "backlog" /\ job[t].again THEN {job[t].decoded}
    ELSE IF job[t].mode = "sweep" /\ (job[t].again \/ NewWork(t))
    THEN {IF Now(t) = Missing THEN job[t].decoded ELSE Now(t)}
    ELSE {}

Release(t) ==
    LET twice == job[t].mode = "live" /\ job[t].attempt = 2
    IN  /\ job[t].stage = "release"
        /\ active' = active \ {Path(t)}
        /\ recent' = (recent \cup Worked(t)) \ Forgotten(t)
        /\ genTimers' = IF NewWork(t) /\ twice THEN genTimers \cup {Path(t)} ELSE genTimers
        /\ rescan' = (rescan \/ (job[t].mode = "sweep" /\ (job[t].again \/ NewWork(t))))
        /\ IF NewWork(t) /\ ~twice /\ job[t].mode # "sweep"
           THEN Step(t, [stage |-> "retake"])
           ELSE job' = [job EXCEPT ![t] = Idle]
        /\ UNCHANGED <<disk, observing, events, incTimers, index, scan, cleanup, frontier, history, faults>>

\* The second attempt of _on_new_file_guarded, or the first one for a file of the
\* backlog that has changed.
Retake(t) ==
    /\ job[t].stage = "retake"
    /\ Take(t, Path(t), "live", IF job[t].mode = "live" THEN 2 ELSE 1, job[t].final)
    /\ UNCHANGED <<disk, wakeups, recent, index, scan, rescan, cleanup, frontier, history, faults>>

-----------------------------------------------------------------------------
(* The backlog scan.                                                        *)

Present == {file[p] : p \in Paths} \ {Missing}
NewestFirst(S) == SetToSortSeq(S, >)
OldestOf(listed) ==    \* mutant
    CHOOSE e \in listed : \A f \in listed : f.generation >= e.generation
NewestOf(listed) == CHOOSE e \in listed : \A f \in listed : f.generation <= e.generation

\* select_retry_window: after the cursor, around the list.
Window(eligible) ==
    LET start == IF Contains(eligible, cursor) THEN CHOOSE i \in DOMAIN eligible : eligible[i] = cursor ELSE 0
        count == Min({RetryWindow, Len(eligible)})
    IN  [i \in 1..count |-> eligible[((start + i - 1) % Len(eligible)) + 1]]

\* _scan_recent_backlog: the index forgets what is gone; while some generation is
\* deferred, a pass looks at a few undecided ones only.
ScanBegin ==
    LET known == manual \cap Present
        deferredNow == deferred \cap Present
        window == Window(NewestFirst(Present \ known))
    IN  /\ rescan /\ ~scan.on /\ job["backlog"] = Idle
        /\ rescan' = FALSE
        /\ manual' = known /\ deferred' = deferredNow
        /\ cursor' = IF deferredNow # {} THEN Last(window)
                     ELSE IF cursor \in Present THEN cursor ELSE Missing
        /\ scan' = [on |-> TRUE, recent |-> TRUE, old |-> old, blocked |-> FALSE, applied |-> FALSE,
                    incomplete |-> 0, window |-> deferredNow # {},
                    selected |-> IF deferredNow # {} THEN ToSet(window) ELSE {},
                    todo |-> {[path |-> p, generation |-> file[p]] :
                                p \in {q \in Paths : file[q] # Missing}}]
        /\ UNCHANGED <<disk, wakeups, claims, saved, job, cleanup, frontier, history, faults>>

ScanNext ==
    LET listed == NewestOf(scan.todo)
        p == listed.path
    IN  /\ scan.on /\ scan.todo # {} /\ job["backlog"] = Idle
        /\ scan' = [scan EXCEPT !.todo = @ \ {listed}, !.recent = listed.generation \notin scan.old]
        /\ IF file[p] \in manual THEN UNCHANGED <<job, active>>
           ELSE Take("backlog", p, "backlog", 1, FALSE)
        /\ UNCHANGED <<disk, wakeups, recent, index, rescan, cleanup, frontier, history, faults>>

\* The end of the list, or of what one scan may take: the index is saved.
ScanEnd ==
    /\ scan.on /\ job["backlog"] = Idle
    /\ \/ scan.todo = {} /\ UNCHANGED <<faults, unread>>
       \/ /\ scan.todo # {} /\ faults < MaxFaults /\ faults' = faults + 1
          /\ unread' = unread \cup {file[e.path] : e \in scan.todo}
    /\ scan' = NoScan
    /\ saved' = [manual |-> manual, deferred |-> deferred, cursor |-> cursor]
    /\ UNCHANGED <<disk, wakeups, claims, indexMemory, job, rescan, cleanup, frontier,
                   published, reported, removed>>

-----------------------------------------------------------------------------
(* The supervisor's _cleanup_tick, and the end of the program.              *)

\* Watchdog's threads die: screenshots are not noticed.
ObserverDies ==
    /\ observing /\ faults < MaxFaults
    /\ faults' = faults + 1 /\ observing' = FALSE /\ events' = {}
    /\ UNCHANGED <<disk, genTimers, incTimers, claims, index, job, scan, rescan, cleanup,
                   frontier, history>>

\* ensure_running: a new observer, and a scan for what the dead one missed.
EnsureRunning ==
    /\ ~observing /\ job["supervisor"] = Idle
    /\ observing' = TRUE /\ rescan' = TRUE
    /\ UNCHANGED <<disk, events, genTimers, incTimers, claims, index, job, scan, cleanup,
                   frontier, history, faults>>

ForgetFailure(p) ==
    /\ failed[p] \notin {Missing, file[p]}
    /\ failed' = [failed EXCEPT ![p] = Missing]
    /\ UNCHANGED <<disk, wakeups, claims, index, job, scan, rescan, pending, deleting, frontier,
                   history, faults>>

RetryRemoval(p) ==
    /\ job["supervisor"] = Idle /\ pending[p] # None
    /\ job' = [job EXCEPT !["supervisor"] =
                  [stage |-> "delete", mode |-> "retry", path |-> p,
                   decoded |-> pending[p].generation, tries |-> pending[p].tries]]
    /\ UNCHANGED <<disk, wakeups, claims, index, scan, rescan, cleanup, frontier, history, faults>>

Sweep(p) ==
    /\ job["supervisor"] = Idle /\ ~scan.on /\ ~rescan
    /\ file[p] \in old \ manual /\ pending[p] = None
    /\ Claimable(p) /\ Take("supervisor", p, "sweep", 1, FALSE)
    /\ UNCHANGED <<disk, wakeups, recent, index, scan, rescan, cleanup, frontier, history, faults>>

\* The program ends, or crashes, and starts again with the index on disk.
Restart ==
    /\ faults < MaxFaults /\ faults' = faults + 1
    /\ manual' = saved.manual /\ deferred' = saved.deferred /\ cursor' = saved.cursor
    /\ observing' = TRUE /\ events' = {} /\ genTimers' = {} /\ incTimers' = [p \in Paths |-> Missing]
    /\ active' = {} /\ recent' = {}
    /\ job' = [t \in Threads |-> Idle]
    /\ scan' = NoScan /\ rescan' = TRUE
    /\ pending' = [p \in Paths |-> None] /\ failed' = [p \in Paths |-> Missing]
    /\ deleting' = [p \in Paths |-> None]
    /\ frontier' = 0 /\ over' = TRUE
    /\ UNCHANGED <<written, kind, name, file, old, saved, history>>

ThreadStep(t) ==
    \/ LookLive(t) \/ LookBacklog(t) \/ Decode(t)
    \/ FinalizeChanged(t) \/ FinalizeLive(t) \/ FinalizeBacklog(t) \/ FinalizeSweep(t)
    \/ DeleteBegin(t) \/ Unlink(t) \/ Release(t) \/ Retake(t)

Next ==
    \/ \E t \in Threads : ThreadStep(t)
    \/ Event \/ GenerationRetry \/ IncompleteRetry
    \/ ScanBegin \/ ScanNext \/ ScanEnd
    \/ WriteScreenshot \/ \E p \in Paths : ForgetFailure(p) \/ RetryRemoval(p) \/ Sweep(p)
    \/ ObserverDies \/ EnsureRunning
    \/ Age \/ \E g \in Generations : RecentExpires(g)
    \/ Restart

Spec == Init /\ [][Next]_vars

-----------------------------------------------------------------------------
(* Properties. *)

Manual(g) == kind[g] = "manual"

\* Only what shows the addon's marker is removed, never a screenshot the user took,
\* although WoW may write it over one of the addon's while that is decoded, queued
\* for a removal or removed (_unlink_if_source_matches, "a replacement never
\* inherits permission").
OnlyOwnedRemoved == \A g \in removed : Marked(g)

\* A screenshot of the addon is never taken for one of the user's, in memory or on
\* disk, where it would be ignored for ever (note_manual behind the comparison of
\* generations).
IndexIsTrue == \A g \in manual \cup saved.manual : Manual(g)

\* What is removed was applied or reported as corrupt, or something newer was, or it
\* was too old to be: no cleanup takes a screenshot away before the scan or the live
\* path has answered for it.
NothingFreshLost ==
    \A g \in removed : g \in old \/ \E h \in published \cup reported : h >= g

\* When nothing is left to do, no recent snapshot that could be read lies about
\* unapplied (_finalize_decode_result, "so an older valid APS snapshot cannot remain
\* stuck until another filesystem event"), unless a newer screenshot could not be
\* read and holds it back, or was reported instead.
Quiet ==
    /\ observing = TRUE /\ events = {} /\ genTimers = {} /\ \A p \in Paths : incTimers[p] = Missing
    /\ \A t \in Threads : job[t] = Idle
    /\ ~scan.on /\ ~rescan
Open(g) == kind[g] = "owned" /\ g > frontier
Held(g) == \E h \in (deferred \cap Present) \cup reported : h > g
NothingStuck == Quiet => \A g \in Present \ (old \cup unread) : Open(g) => Held(g)

\* As long as every screenshot could be read: none is forgotten, whichever thread
\* gave way to which other and whatever was written over it (try_claim, release).
NothingForgotten == Quiet /\ unread = {} => \A g \in Present \ old : ~Open(g)
=============================================================================
