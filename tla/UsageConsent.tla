------------------------------ MODULE UsageConsent ------------------------------
(***************************************************************************)
(* The user's consent to usage reports (usage.py, UsageClient;              *)
(* settings_dialog.py, _change_usage_consent): a choice is registered at    *)
(* once on the GUI thread, saved by a thread of its own, and may be revoked *)
(* while older threads still write; one more thread delivers milestones     *)
(* under an identity that an opt-out forgets.                                *)
(***************************************************************************)
EXTENDS Naturals

CONSTANTS
    Events,         \* milestones of one day and version
    Retries,        \* repeated deliveries, _RETRY_DELAYS
    MaxToggles,     \* bound: choices of the user
    MaxFaults,      \* bound: writes that fail and threads that do not start
    MaxRestarts     \* bound: ends and starts of the program

VARIABLES
    file,           \* usage.json
    consent, desired, failed, pending, closed,
    request,        \* _consent_generation
    generation,
    queue, queued,  \* events with their generation; _pending
    attempted, seen, identity,
    thread,         \* the delivery thread was started
    delivery,       \* what it does
    writers,        \* threads that save a choice
    check, reported,            \* the dialog's checkbox, and whether its answer came
    toggles, faults, restarts,
    period          \* history: choices to opt out, and starts

vars == <<file, consent, desired, failed, pending, closed, request, generation, queue, queued,
          attempted, seen, identity, thread, delivery, writers, check, reported, toggles,
          faults, restarts, period>>

-----------------------------------------------------------------------------

NoIdentity == 0
Idle == [stage |-> "idle", event |-> 0, generation |-> 0, identity |-> NoIdentity, tries |-> 0]
OptedOut == [consent |-> FALSE, identity |-> NoIdentity, seen |-> {}]
OptedIn(i, s) == [consent |-> TRUE, identity |-> i, seen |-> s]

\* _consent_request_current and _current
RequestIsCurrent(w) == ~closed /\ w.request = request /\ w.enabled = desired
IsCurrent(g) == consent /\ ~closed /\ g = generation
\* _state_lock
Locked == \E w \in writers : w.stage \in {"write", "settle"}

Fault == faults < MaxFaults /\ faults' = faults + 1

\* What _enable records at once; the rest comes through Record.
Started(g) == [event : Events, generation : {g}]

\* _load and _enable of a new process.  Without a file the installer's choice
\* is written first.
Loads(f) ==
    /\ consent = f.consent /\ desired = f.consent /\ check = f.consent
    /\ failed = FALSE /\ pending = FALSE /\ closed = FALSE
    /\ request = 0 /\ generation = 0
    /\ queue = IF f.consent THEN Started(0) ELSE {}
    /\ queued = IF f.consent THEN Events ELSE {}
    /\ attempted = {} /\ seen = f.seen /\ identity = f.identity
    /\ thread = f.consent
    /\ delivery = Idle /\ writers = {} /\ reported = TRUE

Init ==
    /\ file \in {OptedOut, OptedIn(NoIdentity, {})}
    /\ Loads(file)
    /\ toggles = 0 /\ faults = 0 /\ restarts = 0 /\ period = 1

-----------------------------------------------------------------------------
\* The GUI thread.

\* request_consent: reporting stops at once, whatever becomes of the save.
Registers(enabled) ==
    /\ request' = request + 1 /\ generation' = generation + 1
    /\ desired' = enabled /\ pending' = TRUE /\ consent' = FALSE
    /\ queue' = {} /\ queued' = {} /\ attempted' = {}

NeedsNoWrite(enabled) == consent = enabled /\ desired = enabled /\ ~failed /\ ~pending

Period(enabled) == period' = IF enabled THEN period ELSE period + 1

\* _change_usage_consent with a thread that starts.  An identical choice that is
\* in force needs neither.
Toggle ==
    /\ ~closed /\ toggles < MaxToggles /\ toggles' = toggles + 1
    /\ check' = ~check
    /\ IF NeedsNoWrite(check')
       THEN /\ reported' = TRUE
            /\ UNCHANGED <<request, generation, desired, pending, consent, queue, queued,
                           attempted, writers, period>>
       ELSE /\ reported' = FALSE
            /\ Registers(check') /\ Period(check')
            /\ writers' = writers \cup
                   {[request |-> request', enabled |-> check', stage |-> "start"]}
    /\ UNCHANGED <<file, failed, closed, seen, identity, thread, delivery, faults, restarts>>

\* fail_consent_request: the thread does not start, and the choice is retired.
ToggleFails ==
    /\ ~closed /\ toggles < MaxToggles /\ toggles' = toggles + 1 /\ Fault
    /\ ~NeedsNoWrite(~check)
    /\ request' = request + 2 /\ generation' = generation + 1
    /\ desired' = ~check /\ pending' = FALSE /\ consent' = FALSE /\ failed' = TRUE
    /\ queue' = {} /\ queued' = {} /\ attempted' = {}
    /\ check' = FALSE /\ reported' = TRUE
    /\ Period(~check)
    /\ UNCHANGED <<file, closed, seen, identity, thread, delivery, writers, restarts>>

\* record
Record(e) ==
    /\ consent /\ ~closed /\ ~failed /\ e \notin queued \cup attempted
    /\ queued' = queued \cup {e}
    /\ queue' = queue \cup {[event |-> e, generation |-> generation]}
    /\ UNCHANGED <<file, consent, desired, failed, pending, closed, request, generation,
                   attempted, seen, identity, thread, delivery, writers, check, reported,
                   toggles, faults, restarts, period>>

close ==
    /\ ~closed /\ closed' = TRUE
    /\ generation' = generation + 1 /\ queue' = {} /\ queued' = {}
    /\ UNCHANGED <<file, consent, desired, failed, pending, request, attempted, seen, identity,
                   thread, delivery, writers, check, reported, toggles, faults, restarts, period>>

\* The program ends or crashes with all its threads, and starts again.
Restart ==
    /\ restarts < MaxRestarts /\ restarts' = restarts + 1
    /\ consent' = file.consent /\ desired' = file.consent /\ check' = file.consent
    /\ failed' = FALSE /\ pending' = FALSE /\ closed' = FALSE
    /\ request' = 0 /\ generation' = 0
    /\ queue' = IF file.consent THEN Started(0) ELSE {}
    /\ queued' = IF file.consent THEN Events ELSE {}
    /\ attempted' = {} /\ seen' = file.seen /\ identity' = file.identity
    /\ thread' = file.consent
    /\ delivery' = Idle /\ writers' = {} /\ reported' = TRUE
    /\ period' = IF file.identity = NoIdentity THEN period + 1 ELSE file.identity
    /\ UNCHANGED <<file, toggles, faults>>

-----------------------------------------------------------------------------
\* The threads that save a choice: apply_consent.

Client == <<consent, desired, failed, pending, closed, request, generation, queue, queued,
            attempted, seen, identity, thread, delivery>>
Rest == <<closed, request, generation, attempted, delivery, toggles, faults, restarts, period>>

MovesTo(w, stage) == writers' = (writers \ {w}) \cup {[w EXCEPT !.stage = stage]}
Leaves(w) == writers' = writers \ {w}

\* A current choice is always unsaved here: "already in force" is never met.
TakeLock(w) ==
    /\ w.stage = "start" /\ ~Locked
    /\ IF RequestIsCurrent(w) THEN MovesTo(w, "write") ELSE Leaves(w)
    /\ UNCHANGED <<Client, file, check, reported, toggles, faults, restarts, period>>

\* The publication guard: a choice that is no longer current replaces nothing.
Publish(w) ==
    /\ w.stage = "write"
    /\ IF RequestIsCurrent(w)
       THEN /\ file' = IF w.enabled THEN OptedIn(NoIdentity, {}) ELSE OptedOut
            /\ MovesTo(w, "settle")
       ELSE Leaves(w) /\ UNCHANGED file
    /\ UNCHANGED <<Client, check, reported, toggles, faults, restarts, period>>

\* _finish_usage_consent_save of a failure, for the dialog's latest choice.
ReportsFailure == check' = consent /\ reported' = TRUE

PublishFails(w) ==
    /\ w.stage = "write" /\ Fault /\ Leaves(w)
    /\ IF RequestIsCurrent(w)
       THEN failed' = TRUE /\ pending' = FALSE /\ ReportsFailure
       ELSE UNCHANGED <<failed, pending, check, reported>>
    /\ UNCHANGED <<file, consent, desired, closed, request, generation, queue, queued, attempted,
                   seen, identity, thread, delivery, toggles, restarts, period>>

SettlesForgetting == pending' = pending      \* mutant
Settles == pending' = FALSE

Settle(w) ==
    /\ w.stage = "settle"
    /\ IF ~RequestIsCurrent(w)
       THEN Leaves(w) /\ UNCHANGED <<identity, seen, failed, pending, reported>>
       ELSE /\ identity' = NoIdentity /\ seen' = {} /\ failed' = FALSE /\ Settles
            /\ IF w.enabled THEN MovesTo(w, "enable") /\ UNCHANGED reported
                            ELSE Leaves(w) /\ reported' = TRUE
    /\ UNCHANGED <<Rest, file, consent, desired, queue, queued, thread, check>>

\* _enable
Enable(w) ==
    /\ w.stage = "enable" /\ Leaves(w)
    /\ IF RequestIsCurrent(w)
       THEN /\ consent' = TRUE /\ thread' = TRUE /\ reported' = TRUE
            /\ queue' = queue \cup Started(generation) /\ queued' = Events
       ELSE UNCHANGED <<consent, thread, reported, queue, queued>>
    /\ UNCHANGED <<Rest, file, desired, failed, pending, seen, identity, check>>

Writer == \E w \in writers : TakeLock(w) \/ Publish(w) \/ Settle(w) \/ Enable(w)

-----------------------------------------------------------------------------
\* The delivery thread: _run and _deliver.

Stage(s) == thread /\ delivery.stage = s
Choice == <<consent, desired, pending, closed, request, generation>>
Others == <<thread, writers, check, reported, toggles, restarts, period>>

Ends(g) ==
    /\ delivery' = Idle
    /\ queued' = IF g = generation THEN queued \ {delivery.event} ELSE queued

Take(q) ==
    /\ Stage("idle") /\ ~closed /\ q \in queue
    /\ queue' = queue \ {q}
    /\ IF IsCurrent(q.generation)
       THEN /\ attempted' = attempted \cup {q.event}
            /\ delivery' = [Idle EXCEPT !.stage = "prepare", !.event = q.event,
                                        !.generation = q.generation]
       ELSE UNCHANGED <<attempted, delivery>>
    /\ UNCHANGED <<Choice, Others, file, failed, queued, seen, identity, faults>>

\* The publication guard of what the delivery writes.
MayWriteAlways == delivery.stage # "idle"      \* mutant
MayWrite == IsCurrent(delivery.generation)

\* _prepare: an event already acknowledged is not sent; the identity is saved
\* before it is used.
Prepare ==
    /\ Stage("prepare") /\ ~Locked
    /\ IF ~MayWrite
       THEN delivery' = Idle /\ UNCHANGED <<file, identity, queued>>
       ELSE IF delivery.event \in seen
       THEN Ends(delivery.generation) /\ UNCHANGED <<file, identity>>
       ELSE /\ identity' = IF identity = NoIdentity THEN period ELSE identity
            /\ file' = IF identity = NoIdentity THEN OptedIn(period, seen) ELSE file
            /\ delivery' = [delivery EXCEPT !.stage = "deliver", !.identity = identity']
            /\ UNCHANGED queued
    /\ UNCHANGED <<Choice, Others, queue, failed, attempted, seen, faults>>

StillConsent == consent /\ ~closed      \* mutant
StillCurrent == IsCurrent(delivery.generation)

\* The request is handed to the transport, unless the choice changed.
HandOver ==
    /\ Stage("deliver")
    /\ IF StillCurrent
       THEN delivery' = [delivery EXCEPT !.stage = "flight"] /\ UNCHANGED queued
       ELSE Ends(delivery.generation)
    /\ UNCHANGED <<Choice, Others, queue, file, failed, attempted, seen, identity, faults>>

Answered ==
    /\ Stage("flight")
    /\ \/ /\ delivery' = [delivery EXCEPT !.stage = "mark"] /\ UNCHANGED queued
       \/ Ends(delivery.generation)
       \/ /\ delivery.tries < Retries
          /\ delivery' = [delivery EXCEPT !.stage = "deliver", !.tries = @ + 1]
          /\ UNCHANGED queued
    /\ UNCHANGED <<Choice, Others, queue, file, failed, attempted, seen, identity, faults>>

\* _mark_seen
Mark ==
    /\ Stage("mark") /\ ~Locked
    /\ IF MayWrite
       THEN /\ seen' = seen \cup {delivery.event}
            /\ file' = OptedIn(identity, seen')
            /\ Ends(delivery.generation)
       ELSE delivery' = Idle /\ UNCHANGED <<seen, file, queued>>
    /\ UNCHANGED <<Choice, Others, queue, failed, attempted, identity, faults>>

\* A save of the thread fails: it reports no more.
SaveFails ==
    /\ (Stage("prepare") /\ identity = NoIdentity) \/ Stage("mark")
    /\ ~Locked /\ IsCurrent(delivery.generation) /\ Fault
    /\ failed' = TRUE /\ queue' = {} /\ queued' = {} /\ delivery' = Idle
    /\ UNCHANGED <<Choice, Others, file, attempted, seen, identity>>

Delivers == (\E q \in queue : Take(q)) \/ Prepare \/ HandOver \/ Answered \/ Mark

-----------------------------------------------------------------------------

Next ==
    \/ Toggle \/ ToggleFails \/ (\E e \in Events : Record(e)) \/ close \/ Restart
    \/ Writer \/ (\E w \in writers : PublishFails(w))
    \/ Delivers \/ SaveFails

Spec == Init /\ [][Next]_vars

\* Threads run on.
FairSpec == Spec /\ WF_vars(Writer) /\ WF_vars(Delivers)

-----------------------------------------------------------------------------

Files(p) == {OptedOut} \cup {OptedIn(i, s) : i \in 0..p, s \in SUBSET Events}
TypeOK ==
    /\ file \in Files(period)
    /\ {q.event : q \in queue} \subseteq queued
    /\ consent => desired /\ ~pending

\* Nothing is handed to the transport after the user opted out, and nothing ever
\* carries an identity from before an opt-out, however the threads of older
\* choices and the delivery are interleaved.
ReportsWithConsent ==
    delivery'.stage = "flight" =>
        delivery' = delivery \/ (consent /\ delivery.identity = period)
NoReportAfterOptOut == [][ReportsWithConsent]_vars

\* When a choice is settled, the file holds it: no older thread, neither one that
\* saves a choice nor the delivery, replaces it, and the checkbox agrees.
FileHoldsTheChoice ==
    ~pending /\ ~failed /\ ~closed /\ writers = {} =>
        /\ file.consent = desired /\ consent = desired
        /\ reported => check = consent

\* Why: only the thread of the latest request is current, and until it settles the
\* choice is pending and nothing is consented, so that the delivery writes nothing;
\* the queue holds events of the present generation only; and what a delivery of the
\* present generation carries is the identity of the present period.
Flags == {TRUE, FALSE}
Writers == [request : Nat, enabled : Flags, stage : {"start", "write", "settle", "enable"}]
WriterInvariant(w) ==
    /\ w.request \in 1..request /\ w.enabled \in Flags
    /\ w.stage = "enable" => w.enabled
    /\ w.request = request =>
          /\ w.enabled = desired /\ ~consent
          /\ IF w.stage = "enable" THEN ~pending /\ identity = NoIdentity ELSE pending
          /\ w.stage \in {"settle", "enable"} => file.consent = w.enabled
    /\ \A v \in writers : v.request = w.request => v = w
Enabling == \E w \in writers : w.stage = "enable" /\ w.request = request
ChoiceInvariant ==
    /\ ~pending /\ ~failed /\ ~closed =>
          file.consent = desired /\ (consent = desired \/ Enabling)
    /\ pending \/ ~failed => check = desired
    /\ consent => desired /\ ~pending /\ identity \in {NoIdentity, period}
QueueInvariant ==
    /\ queue \subseteq [event : Events, generation : {generation}]
    /\ \A q \in queue : q.event \in queued
    /\ ~consent => queue = {}
DeliveryInvariant ==
    delivery.stage # "idle" =>
        /\ delivery.event \in Events /\ delivery.generation \in 0..generation
        /\ delivery.generation = generation =>
              /\ consent /\ delivery.event \in attempted
              /\ \A q \in queue : q.event # delivery.event
              /\ delivery.stage # "prepare" => delivery.identity = period /\ identity = period
DeliveryStages == {"idle", "prepare", "deliver", "flight", "mark"}
Delivery == [stage : DeliveryStages, event : Events \cup {0},
             generation : Nat, identity : Nat, tries : Nat]
UsageTyped ==
    /\ request \in Nat /\ generation \in Nat /\ period \in Nat \ {0}
    /\ identity \in 0..period /\ seen \in SUBSET Events
UsageFlags ==
    /\ consent \in Flags /\ desired \in Flags /\ failed \in Flags /\ pending \in Flags
    /\ closed \in Flags /\ check \in Flags
UsageInvariant ==
    /\ UsageTyped /\ UsageFlags /\ file \in Files(period)
    /\ delivery \in Delivery
    /\ writers \subseteq Writers /\ \A w \in writers : WriterInvariant(w)
    /\ ChoiceInvariant /\ QueueInvariant /\ DeliveryInvariant

\* A registered choice is settled one day.
ChoicesSettle == pending ~> (~pending \/ closed)

=============================================================================
