------------------------- MODULE ScreenshotPublication -------------------------
(***************************************************************************)
(* How a decoded screenshot leaves ScreenshotWatcher (screenshot.py) and   *)
(* how shutdown meets it (_quiesce_screenshot_ingestion in __main__.py).   *)
(*                                                                         *)
(* Workers (the observer thread, the backlog thread, retry timers) decode  *)
(* one screenshot each.  The fragment assembler accepts what is newer than *)
(* its frontier; an accepted snapshot joins a queue of publications, and   *)
(* the worker that finds no publisher active drains that queue outside the *)
(* lock.  A worker that is done deletes its screenshot.  The timer that    *)
(* expires an unfinished fragment group publishes through the same queue.  *)
(* Shutdown requests a stop, flushes the apply queue and closes the signal *)
(* gate while the workers run on.                                          *)
(*                                                                         *)
(* Screenshots are numbered in source order.  Those in Fragments carry the *)
(* chunks of one generation of one fragment stream, the others a whole     *)
(* snapshot; what further streams and generations add is left out.         *)
(***************************************************************************)
EXTENDS Naturals, Sequences, FiniteSets

CONSTANTS Workers,       \* threads that decode screenshots
          Timer,         \* the fragment expiry timer's thread
          MaxKey,        \* screenshots 1..MaxKey
          Fragments,     \* those that carry a chunk
          EmitMayRaise,  \* may a slot of snapshotReceived raise?
          NoKey          \* no screenshot, or no publication, in hand

ActorAssumption == Timer \notin Workers
KeyAssumption ==
    /\ MaxKey \in Nat \ {0} /\ NoKey \notin Nat
    /\ Fragments \subseteq 1..MaxKey
    /\ EmitMayRaise \in BOOLEAN

Shots == 1..MaxKey
Actors == Workers \cup {Timer}

\* A publication is a snapshot, or the notice that a fragment group timed out,
\* with the group's newest source and the expiry token it was made under (past
\* is history: the snapshots accepted before).
Publication == [kind : {"snapshot", "timeout"}, key : Shots, token : Nat, past : SUBSET Shots]
Snapshot(k) == [kind |-> "snapshot", key |-> k, token |-> 0, past |-> {}]
NoPublication == [kind |-> "none", key |-> NoKey, token |-> 0, past |-> {}]

VARIABLES
    onDisk,       \* screenshots not deleted
    claimed,      \* screenshots a worker has taken up
    frontier,     \* the assembler's _frontier_source_key
    stream,       \* what the assembler knows of the fragment stream
    group,        \* files of its pending assembly
    token,        \* _fragment_expiry_token
    armed,        \* the fragment expiry timer runs
    queue,        \* _snapshot_publications
    active,       \* _snapshot_publication_active
    stopped,      \* _stopped
    pc,           \* where each thread is
    shot,         \* the screenshot each worker processes
    files,        \* what each thread will delete
    holding,      \* the publication each thread took from the queue
    sourceGate,   \* _SnapshotSourceGate._latest_source_key
    pending,      \* the newest snapshot in the apply queue, 0 for none
    applied,      \* the newest snapshot applied
    shutdown,     \* progress of _quiesce_screenshot_ingestion
    accepted,     \* history: the snapshots the assembler accepted
    deferred,     \* history: those left to another thread's publisher
    handed,       \* history: those the apply queue took
    refused,      \* history: those the source gate refused
    raised        \* history: a slot raised

diskVars == <<onDisk, claimed>>
assemblerVars == <<frontier, stream, group, accepted, deferred>>
expiryVars == <<token, armed>>
publicationVars == <<queue, active>>
workerVars == <<shot, files>>
threadVars == <<pc, workerVars, holding>>
handoffVars == <<sourceGate, pending, handed, refused>>
guiVars == <<applied, shutdown>>
vars == <<diskVars, assemblerVars, expiryVars, publicationVars, stopped, threadVars,
          handoffVars, guiVars, raised>>

TypeOK ==
    /\ onDisk \subseteq Shots /\ claimed \subseteq Shots
    /\ frontier \in 0..MaxKey /\ accepted \subseteq Shots /\ deferred \subseteq accepted
    /\ stream \in {"new", "open", "done", "barred"} /\ group \subseteq Fragments
    /\ token \in Nat /\ armed \in BOOLEAN
    /\ queue \in Seq(Publication) /\ active \in BOOLEAN /\ stopped \in BOOLEAN
    /\ pc \in [Actors -> {"idle", "accept", "notify", "drain", "emit", "handing",
                          "emitted", "dead", "delete", "unlink"}]
    /\ shot \in [Workers -> Shots \cup {NoKey}]
    /\ files \in [Actors -> SUBSET Shots]
    /\ holding \in [Actors -> Publication \cup {NoPublication}]
    /\ {sourceGate, pending, applied} \subseteq 0..MaxKey
    /\ handed \subseteq Shots /\ refused \subseteq Shots
    /\ shutdown \in {"running", "stopping", "flushed", "closed"}
    /\ raised \in BOOLEAN

Init ==
    /\ onDisk = Shots /\ claimed = {}
    /\ frontier = 0 /\ accepted = {} /\ deferred = {} /\ stream = "new" /\ group = {}
    /\ token = 0 /\ armed = FALSE
    /\ queue = <<>> /\ active = FALSE /\ stopped = FALSE
    /\ pc = [a \in Actors |-> "idle"]
    /\ shot = [w \in Workers |-> NoKey]
    /\ files = [a \in Actors |-> {}]
    /\ holding = [a \in Actors |-> NoPublication]
    /\ sourceGate = 0 /\ pending = 0 /\ applied = 0
    /\ handed = {} /\ refused = {}
    /\ shutdown = "running" /\ raised = FALSE

Goto(a, label) == pc' = [pc EXCEPT ![a] = label]

\* The worker returns from its screenshot; the timer thread ends.
Leave(a) ==
    /\ Goto(a, "idle")
    /\ shot' = IF a \in Workers THEN [shot EXCEPT ![a] = NoKey] ELSE shot
    /\ files' = [files EXCEPT ![a] = {}]
    /\ holding' = [holding EXCEPT ![a] = NoPublication]

ToDelete(a, shots) ==
    /\ files' = [files EXCEPT ![a] = shots]
    /\ UNCHANGED <<shot, holding>>

-----------------------------------------------------------------------------
(* Acceptance by the fragment assembler. *)

\* A worker claims a screenshot and decodes it; _decode_current_claim gives up
\* once the watcher is stopped.
Decode(w) ==
    /\ pc[w] = "idle" /\ ~stopped
    /\ \E k \in onDisk \ claimed :
          /\ claimed' = claimed \cup {k}
          /\ shot' = [shot EXCEPT ![w] = k]
    /\ Goto(w, "accept")
    /\ UNCHANGED <<onDisk, assemblerVars, expiryVars, publicationVars, stopped, files,
                   holding, handoffVars, guiVars, raised>>

\* _cancel_fragment_expiry.
CancelExpiry == token' = token + 1 /\ armed' = FALSE


\* Who queues a publication drains the queue if nobody else does.
BecomesPublisherAlways == TRUE    \* mutant
BecomesPublisherNever == FALSE    \* mutant: the signal is queued, not direct
BecomesPublisher == ~active

\* _queue_snapshot_publication_locked.
QueuePublication(a, publication, otherwise) ==
    /\ queue' = Append(queue, publication)
    /\ active' = TRUE
    /\ Goto(a, IF BecomesPublisher THEN "drain" ELSE otherwise)

\* The assembler accepts the snapshot of source k; it enters the publication
\* queue in the same critical section, and files are deleted afterwards.
Accept(w, k, retired) ==
    /\ accepted' = accepted \cup {k}
    /\ deferred' = IF active THEN deferred \cup {k} ELSE deferred
    /\ group' = {}
    /\ CancelExpiry
    /\ QueuePublication(w, Snapshot(k), "delete")
    /\ ToDelete(w, retired)

\* _accept_snapshot_for_publication: a whole snapshot newer than the frontier
\* retires the unfinished group and bars its generation; an older one is only
\* deleted.
AcceptSnapshot(w) ==
    /\ pc[w] = "accept" /\ shot[w] \notin Fragments
    /\ \/ /\ shot[w] > frontier
          /\ frontier' = shot[w]
          /\ stream' = IF stream = "new" THEN "new" ELSE "barred"
          /\ Accept(w, shot[w], group \cup {shot[w]})
       \/ /\ shot[w] <= frontier
          /\ ToDelete(w, {shot[w]}) /\ Goto(w, "delete")
          /\ UNCHANGED <<assemblerVars, expiryVars, publicationVars>>
    /\ UNCHANGED <<diskVars, stopped, handoffVars, guiVars, raised>>

\* A chunk is taken into the open group, or opens it if it is newer than the
\* frontier.
JoinsGroup(k) == stream = "open" \/ (stream = "new" /\ k > frontier)
Newest(shots) == CHOOSE k \in shots : \A j \in shots : j <= k
Advance(k) == frontier' = IF k > frontier THEN k ELSE frontier

\* The chunk leaves the group incomplete: its file stays and _arm_fragment_expiry
\* restarts the timer.
HoldFragment(w) ==
    /\ pc[w] = "accept" /\ shot[w] \in Fragments /\ JoinsGroup(shot[w])
    /\ group \cup {shot[w]} # Fragments
    /\ group' = group \cup {shot[w]}
    /\ stream' = "open" /\ Advance(shot[w])
    /\ IF stopped THEN UNCHANGED expiryVars ELSE token' = token + 1 /\ armed' = TRUE
    /\ Leave(w)
    /\ UNCHANGED <<diskVars, accepted, deferred, publicationVars, stopped, handoffVars, guiVars,
                   raised>>

\* The chunk completes the group: its snapshot bears the newest source.
CompleteFragments(w) ==
    /\ pc[w] = "accept" /\ shot[w] \in Fragments /\ JoinsGroup(shot[w])
    /\ group \cup {shot[w]} = Fragments
    /\ stream' = "done" /\ Advance(shot[w])
    /\ Accept(w, Newest(Fragments), Fragments)
    /\ UNCHANGED <<diskVars, stopped, handoffVars, guiVars, raised>>

\* The chunk conflicts with the group, which is given up with all its files
\* (the failure is emitted at once, outside the publication queue).
PoisonFragments(w) ==
    /\ pc[w] = "accept" /\ shot[w] \in Fragments /\ JoinsGroup(shot[w])
    /\ group # {}
    /\ stream' = "done" /\ Advance(shot[w])
    /\ group' = {}
    /\ CancelExpiry
    /\ ToDelete(w, group \cup {shot[w]}) /\ Goto(w, "delete")
    /\ UNCHANGED <<diskVars, accepted, deferred, publicationVars, stopped, handoffVars, guiVars,
                   raised>>

\* A chunk that comes too late is deleted.
RetireFragment(w) ==
    /\ pc[w] = "accept" /\ shot[w] \in Fragments /\ ~JoinsGroup(shot[w])
    /\ ToDelete(w, {shot[w]}) /\ Goto(w, "delete")
    /\ UNCHANGED <<diskVars, assemblerVars, expiryVars, publicationVars, stopped,
                   handoffVars, guiVars, raised>>

\* A notice of another token has been overtaken.
NeverOvertaken(publication) == FALSE    \* mutant
OvertakenByFrontier(publication) == publication.key < frontier    \* mutant
Overtaken(publication) == publication.kind = "timeout" /\ publication.token # token

\* _on_fragment_expiry detaches the expired group, deletes its files ...
ExpireFragments ==
    /\ pc[Timer] = "idle" /\ armed /\ ~stopped
    /\ armed' = FALSE /\ group' = {}
    /\ holding' = [holding EXCEPT ![Timer] =
                      [kind |-> "timeout", key |-> Newest(group), token |-> token,
                       past |-> accepted]]
    /\ files' = [files EXCEPT ![Timer] = group]
    /\ Goto(Timer, "delete")
    /\ UNCHANGED <<diskVars, frontier, stream, accepted, deferred, token, publicationVars, stopped,
                   shot, handoffVars, guiVars, raised>>

\* ... and then takes the lock again to queue the notice.
QueueTimeout ==
    /\ pc[Timer] = "notify"
    /\ \/ /\ stopped \/ Overtaken(holding[Timer])
          /\ Leave(Timer)
          /\ UNCHANGED publicationVars
       \/ /\ ~stopped /\ ~Overtaken(holding[Timer])
          /\ QueuePublication(Timer, holding[Timer], "idle")
          /\ holding' = [holding EXCEPT ![Timer] = NoPublication]
          /\ UNCHANGED workerVars
    /\ UNCHANGED <<diskVars, assemblerVars, expiryVars, stopped, handoffVars, guiVars, raised>>

-----------------------------------------------------------------------------
(* _drain_snapshot_publications. *)

ClearQueue == queue' = <<>> /\ active' = FALSE

\* The publisher takes the next publication or ends: with the queue empty it
\* goes on to delete, stopped it clears the queue and its screenshot stays.
TakePublication(a) ==
    /\ pc[a] = "drain"
    /\ \/ /\ stopped
          /\ ClearQueue /\ Leave(a)
       \/ /\ ~stopped /\ queue = <<>>
          /\ ClearQueue
          /\ IF a = Timer THEN Leave(a)
             ELSE Goto(a, "delete") /\ UNCHANGED <<workerVars, holding>>
       \/ /\ ~stopped /\ queue # <<>>
          /\ queue' = Tail(queue)
          /\ IF Overtaken(Head(queue)) THEN UNCHANGED <<pc, holding>>
             ELSE /\ holding' = [holding EXCEPT ![a] = Head(queue)]
                  /\ Goto(a, "emit")
          /\ UNCHANGED <<active, workerVars>>
    /\ UNCHANGED <<diskVars, assemblerVars, expiryVars, stopped, handoffVars, guiVars, raised>>

\* _emit_snapshot and _emit_decode_failed look whether the watcher was stopped
\* before they emit and after.
LooksAlive(a, alive) == Goto(a, IF stopped THEN "dead" ELSE alive)

Emit(a) ==
    /\ pc[a] = "emit"
    /\ LooksAlive(a, "handing")
    /\ UNCHANGED <<diskVars, assemblerVars, expiryVars, publicationVars, stopped,
                   workerVars, holding, handoffVars, guiVars, raised>>

\* The direct slot: unless the signal gate is closed or the source gate refuses
\* it, the apply queue takes the snapshot.
HandOver(a) ==
    /\ pc[a] = "handing"
    /\ LET k == holding[a].key
           taken == k > sourceGate
       IN
       \/ /\ holding[a].kind = "snapshot" /\ shutdown # "closed"
          /\ sourceGate' = IF taken THEN k ELSE sourceGate
          /\ pending' = IF taken THEN k ELSE pending
          /\ handed' = IF taken THEN handed \cup {k} ELSE handed
          /\ refused' = IF taken THEN refused ELSE refused \cup {k}
       \/ /\ holding[a].kind = "timeout" \/ shutdown = "closed"
          /\ UNCHANGED handoffVars
    /\ Goto(a, "emitted")
    /\ UNCHANGED <<diskVars, assemblerVars, expiryVars, publicationVars, stopped,
                   workerVars, holding, guiVars, raised>>

Emitted(a) ==
    /\ pc[a] = "emitted"
    /\ LooksAlive(a, "drain")
    /\ holding' = [holding EXCEPT ![a] = NoPublication]
    /\ UNCHANGED <<diskVars, assemblerVars, expiryVars, publicationVars, stopped,
                   workerVars, handoffVars, guiVars, raised>>

\* A slot raised: the publisher is gone, and what it left in the queue waits for
\* the next publication.
EmitRaises(a) ==
    /\ EmitMayRaise
    /\ pc[a] = "emitted"
    /\ active' = FALSE /\ raised' = TRUE
    /\ Leave(a)
    /\ UNCHANGED <<diskVars, assemblerVars, expiryVars, queue, stopped, handoffVars, guiVars>>

\* The emission was refused: the rest of the queue is dropped.
Abandon(a) ==
    /\ pc[a] = "dead"
    /\ ClearQueue /\ Leave(a)
    /\ UNCHANGED <<diskVars, assemblerVars, expiryVars, stopped, handoffVars, guiVars, raised>>

-----------------------------------------------------------------------------
(* Deletion, the end of _dispatch_live_decode_result and of an expiry. *)

\* _delete_owned_screenshot does nothing once the watcher is stopped ...
MayDelete == ~stopped

Delete(a) ==
    /\ pc[a] = "delete"
    /\ IF MayDelete THEN Goto(a, "unlink") /\ UNCHANGED <<workerVars, holding>>
                    ELSE Leave(a)
    /\ UNCHANGED <<diskVars, assemblerVars, expiryVars, publicationVars, stopped,
                   handoffVars, guiVars, raised>>

\* ... but an unlink under way is not recalled.
Unlink(a) ==
    /\ pc[a] = "unlink"
    /\ onDisk' = onDisk \ files[a]
    /\ IF a = Timer THEN Goto(a, "notify") /\ UNCHANGED <<workerVars, holding>>
                    ELSE Leave(a)
    /\ UNCHANGED <<claimed, assemblerVars, expiryVars, publicationVars, stopped,
                   handoffVars, guiVars, raised>>

-----------------------------------------------------------------------------
(* The GUI thread. *)

Flush == applied' = (IF pending # 0 THEN pending ELSE applied) /\ pending' = 0

ScheduledFlush ==
    /\ pending # 0 /\ shutdown # "closed"
    /\ Flush
    /\ UNCHANGED <<diskVars, assemblerVars, expiryVars, publicationVars, stopped, threadVars,
                   sourceGate, handed, refused, shutdown, raised>>

\* _quiesce_screenshot_ingestion: request_stop, flush, then invalidate the gate.
RequestStop ==
    /\ shutdown = "running"
    /\ shutdown' = "stopping"
    /\ stopped' = TRUE
    /\ CancelExpiry
    /\ UNCHANGED <<diskVars, assemblerVars, publicationVars, threadVars, handoffVars,
                   applied, raised>>

NoFlush == UNCHANGED <<pending, applied>>    \* mutant
FlushBeforeClose == Flush
QuiesceFlush ==
    /\ shutdown = "stopping"
    /\ shutdown' = "flushed"
    /\ FlushBeforeClose
    /\ UNCHANGED <<diskVars, assemblerVars, expiryVars, publicationVars, stopped, threadVars,
                   sourceGate, handed, refused, raised>>

CloseGate ==
    /\ shutdown = "flushed"
    /\ shutdown' = "closed"
    /\ UNCHANGED <<diskVars, assemblerVars, expiryVars, publicationVars, stopped, threadVars,
                   handoffVars, applied, raised>>

-----------------------------------------------------------------------------
Take(w) ==
    \/ AcceptSnapshot(w)
    \/ HoldFragment(w) \/ CompleteFragments(w) \/ PoisonFragments(w) \/ RetireFragment(w)
Publish(a) ==
    \/ TakePublication(a) \/ Emit(a) \/ HandOver(a) \/ Emitted(a) \/ EmitRaises(a) \/ Abandon(a)
Remove(a) == Delete(a) \/ Unlink(a)
Quiesce == QuiesceFlush \/ CloseGate

Next ==
    \/ \E w \in Workers : Decode(w) \/ Take(w)
    \/ \E a \in Actors : Publish(a) \/ Remove(a)
    \/ ExpireFragments \/ QueueTimeout
    \/ ScheduledFlush \/ RequestStop \/ Quiesce

Spec == Init /\ [][Next]_vars

\* Threads finish what they have started and the event loop keeps running;
\* nothing makes a screenshot be decoded, a group expire or the program quit.
Fairness ==
    /\ \A w \in Workers : WF_vars(Take(w))
    /\ \A a \in Actors : WF_vars(Publish(a)) /\ WF_vars(Remove(a))
    /\ WF_vars(QueueTimeout)
    /\ WF_vars(ScheduledFlush) /\ WF_vars(Quiesce)

FairSpec == Spec /\ Fairness

-----------------------------------------------------------------------------
(* Properties. *)

Publishing(a) == pc[a] \in {"drain", "emit", "handing", "emitted", "dead"}

\* There is at most one publisher, _snapshot_publication_active says so, and no
\* publication waits without one unless a slot raised.
OnePublisher ==
    /\ \A a, b \in Actors : Publishing(a) /\ Publishing(b) => a = b
    /\ active <=> \E a \in Actors : Publishing(a)
    /\ queue # <<>> => active \/ raised

\* The source gate never has to refuse what the assembler accepted: snapshots
\* arrive there in acceptance order whatever threads emit them (the comment in
\* _drain_snapshot_publications: "acceptance orders frames").
AcceptedNotRefused == refused = {}

\* While the watcher runs, every accepted snapshot is in the queue, in the
\* publisher's hands or in the apply queue, unless a slot raised.
AcceptedNotForgotten ==
    stopped \/ raised \/
    \A k \in accepted \ handed :
        \/ Snapshot(k) \in {queue[i] : i \in DOMAIN queue}
        \/ \E a \in Actors : holding[a] = Snapshot(k)

\* A fragment timeout is not emitted once a snapshot accepted after the group
\* expired has been handed over (_fragment_expiry_token, FIFO publication).
TimeoutInOrder ==
    \A a \in Actors :
        pc[a] = "handing" /\ pc'[a] = "emitted" /\ holding[a].kind = "timeout"
            => handed \subseteq holding[a].past
TimeoutNotAfterNewer == [][TimeoutInOrder]_vars

\* A publisher's own screenshot is not deleted before a snapshot at least as new
\* is in the apply queue: until then the file is the only copy.
DeletedAfterOwnHandoff ==
    \A k \in accepted \ (onDisk \cup deferred) : \E j \in handed : j >= k

\* Nor is any other, as the comment in _connect_screenshot_watcher has it: "The
\* worker must synchronously hand decoded state to the thread-safe apply queue
\* before it may delete the source screenshot".
DeletedOnlyAfterHandoff ==
    \A k \in accepted \ onDisk : \E j \in handed : j >= k

\* Once the gate is closed, what a publisher deleted has been applied: the order
\* of stop, flush and close leaves no such snapshot behind in the apply queue.
ClosedWithNothingLost ==
    shutdown = "closed" => \A k \in accepted \ (onDisk \cup deferred) : applied >= k

\* Why: snapshots are accepted in the order of their sources, enter the queue in the
\* critical section that accepts them, and leave it through one publisher at a time;
\* a chunk is in one place only, and a group that lost one never completes; a notice
\* whose token is still the assembler's is newer than every acceptance; and a
\* publisher turns to its files only when nothing accepted waits any more.
Emitting(a) == pc[a] \in {"emit", "handing"}
PublisherInvariant ==
    /\ OnePublisher
    /\ \A a \in Actors :
          /\ pc[a] = "accept" => a # Timer
          /\ pc[a] = "notify" => a = Timer
          /\ pc[a] = "dead" => stopped
          /\ pc[a] \in {"emit", "handing", "emitted"} => holding[a] \in Publication
    /\ pc[Timer] \in {"delete", "unlink", "notify"} =>
          holding[Timer] \in Publication /\ holding[Timer].kind = "timeout"
    /\ stopped <=> shutdown # "running"
ClaimInvariant ==
    /\ accepted \cup group \subseteq claimed /\ group \subseteq onDisk \ accepted
    /\ \A a \in Actors : files[a] \subseteq claimed /\ files[a] \cap group = {}
    /\ \A w \in Workers : pc[w] = "accept" =>
          /\ shot[w] \in (onDisk \cap claimed) \ (accepted \cup group)
          /\ \A a \in Actors : shot[w] \notin files[a]
          /\ \A v \in Workers : pc[v] = "accept" /\ shot[v] = shot[w] => v = w
WithinFrontier ==
    /\ \A k \in accepted \cup group : k <= frontier
    /\ stream # "open" => group = {}
    /\ armed => group # {}
OpenGroup ==
    stream = "open" =>
        \/ frontier \in group \ accepted
        \/ \E k \in claimed \cap Fragments :
              k \notin group /\ \A w \in Workers : pc[w] = "accept" => shot[w] # k
HandedInOrder ==
    /\ refused = {} /\ handed \subseteq accepted /\ \A k \in handed : k <= sourceGate
    /\ sourceGate \in handed \cup {0} /\ applied <= sourceGate
    /\ sourceGate = IF pending # 0 THEN pending ELSE applied
InTurn(publication) ==
    publication.kind = "snapshot" =>
        /\ publication = Snapshot(publication.key)
        /\ publication.key \in accepted /\ sourceGate < publication.key
Precedes(p, q) == p.kind = "snapshot" /\ q.kind = "snapshot" => p.key < q.key
QueueInOrder ==
    /\ \A i \in 1..Len(queue) : InTurn(queue[i])
    /\ \A i, j \in 1..Len(queue) : i < j => Precedes(queue[i], queue[j])
EmittingInOrder ==
    \A a \in Actors : Emitting(a) =>
        InTurn(holding[a]) /\ \A i \in 1..Len(queue) : Precedes(holding[a], queue[i])
Awaited(k) ==
    \/ \E i \in 1..Len(queue) : queue[i] = Snapshot(k)
    \/ \E a \in Actors : Emitting(a) /\ holding[a] = Snapshot(k)
AwaitInvariant == stopped \/ \A k \in accepted \ handed : Awaited(k)
Timely(publication) ==
    publication.kind = "timeout" =>
        publication.token <= token
        /\ (publication.token = token => accepted \subseteq publication.past)
QueueTimely == \A i \in 1..Len(queue) : Timely(queue[i])
HoldingTimely ==
    \A a \in Actors :
        /\ Timely(holding[a])
        /\ Emitting(a) /\ holding[a].kind = "timeout" => handed \subseteq holding[a].past
HandedOver(k) == \E j \in handed : j >= k
FilesHandedOver ==
    \A a \in Actors : pc[a] \in {"delete", "unlink"} =>
        \A k \in (files[a] \cap accepted) \ deferred : HandedOver(k)
AppliedInTime ==
    shutdown \in {"flushed", "closed"} =>
        \A k \in accepted \ deferred :
            k \notin onDisk \/ (\E a \in Actors : pc[a] = "unlink" /\ k \in files[a])
                => applied >= k
PublicationInvariant ==
    /\ TypeOK /\ PublisherInvariant /\ ClaimInvariant /\ WithinFrontier /\ OpenGroup
    /\ HandedInOrder /\ QueueInOrder /\ EmittingInOrder /\ AwaitInvariant
    /\ QueueTimely /\ HoldingTimely
    /\ DeletedAfterOwnHandoff /\ FilesHandedOver /\ AppliedInTime

\* An accepted snapshot is applied, or overtaken by a newer one, unless the
\* watcher is stopped or a slot raised.
Served(k) == applied >= k \/ stopped \/ raised
AcceptedIsApplied == \A k \in Shots : k \in accepted ~> Served(k)
=============================================================================
