---------------------------- MODULE MCProgressProofs ----------------------------
EXTENDS MCProgress, Sequences, TLAPS, FiniteSetTheorems, WellFoundedInduction

LEMMA RetiredInit == Retired!Init => Retired!StopInvariant
BY DEF Retired!Init, Retired!StopInvariant, Retired!Threads

LEMMA StopOneKeeps ==
  ASSUME Retired!StopInvariant, NEW t \in Retired!Threads, Retired!StopOne(t)
  PROVE  Retired!StopInvariant'
<1> USE DEF Retired!StopInvariant, Retired!To, Retired!Ends, Retired!shutdown
<1>1. CASE Retired!StopBegin(t)
  BY <1>1 DEF Retired!StopBegin
<1>2. CASE Retired!Acquire(t)
  BY <1>2 DEF Retired!Acquire
<1>3. CASE Retired!TimesOut(t)
  BY <1>3 DEF Retired!TimesOut
<1>4. CASE Retired!Check(t)
  BY <1>4 DEF Retired!Check, Retired!NotOwned
<1>5. CASE Retired!Stop(t)
  BY <1>5 DEF Retired!Stop, Retired!StopReturns
<1> QED BY <1>1, <1>2, <1>3, <1>4, <1>5 DEF Retired!StopOne

LEMMA RetiredNextKeeps ==
  ASSUME Retired!StopInvariant, Retired!Next
  PROVE  Retired!StopInvariant'
<1> USE RetiredAssumption DEF Retired!WatcherAssumption, Retired!StopInvariant, Retired!To,
       Retired!shutdown, Retired!thread, Retired!Threads
<1>1. ASSUME NEW w \in Watchers, Retired!Retire(w) PROVE Retired!StopInvariant'
  BY <1>1 DEF Retired!Retire, Retired!Threads
<1>2. CASE \E t \in Retired!Threads : Retired!StopOne(t)
  BY <1>2, StopOneKeeps
<1>3. CASE Retired!StopAll
  BY <1>3 DEF Retired!StopAll, Retired!Threads
<1>4. CASE Retired!List
  BY <1>4 DEF Retired!List
<1>5. CASE Retired!NextOne
  BY <1>5 DEF Retired!NextOne
<1>6. CASE Retired!Passes \/ Retired!StopAllReturns
  BY <1>6 DEF Retired!Passes, Retired!StopAllReturns
<1> QED BY <1>1, <1>2, <1>3, <1>4, <1>5, <1>6 DEF Retired!Next

-----------------------------------------------------------------------------
(* UpdateQuit. *)

LEMMA UpdateInit == Update!Init => Update!UpdateInvariant
<1> SUFFICES ASSUME Update!Init PROVE Update!UpdateInvariant
  OBVIOUS
<1> USE UpdateAssumption DEF Update!BoundAssumption, Update!Init, Update!None
<1>1. updating \in BOOLEAN /\ handoff \in BOOLEAN
  OBVIOUS
<1>2. Update!UpdateTyped
  BY DEF Update!UpdateTyped
<1>3. Update!GateInvariant /\ Update!CompletionInvariant /\ completions \subseteq Update!Completion
  BY DEF Update!GateInvariant, Update!CompletionInvariant
<1>4. ASSUME NEW a \in Update!Attempts PROVE Update!AttemptInvariant(a)
  BY DEF Update!AttemptInvariant, Update!AtWork, Update!Current
<1> QED BY <1>1, <1>2, <1>3, <1>4 DEF Update!UpdateInvariant

\* A thread answers at most once, and for the attempt of the gate.
LEMMA AnswersKeep ==
  ASSUME Update!UpdateInvariant, NEW a \in Update!Attempts, Update!AtWork(a),
         UNCHANGED <<updating, attempt, recovery>>,
         \/ UNCHANGED <<completions, installer>>
         \/ \E kind \in {"error", "current", "cancelled", "handoff"} :
              Update!Answers(a, kind) /\ (kind # "handoff" => installer'[a] = "none")
  PROVE  (completions \subseteq Update!Completion)' /\ Update!CompletionInvariant'
<1>1. CASE UNCHANGED <<completions, installer>>
  BY <1>1 DEF Update!UpdateInvariant, Update!CompletionInvariant, Update!Current, Update!None
<1>2. ASSUME NEW kind \in {"error", "current", "cancelled", "handoff"}, Update!Answers(a, kind),
             kind # "handoff" => installer'[a] = "none"
      PROVE  (completions \subseteq Update!Completion)' /\ Update!CompletionInvariant'
  <2>1. completions = {} /\ Update!Current(a)' /\ recovery' = Update!None
    BY DEF Update!UpdateInvariant, Update!AttemptInvariant, Update!Current
  <2>2. completions' = {[attempt |-> a, kind |-> kind]}
    BY <1>2, <2>1 DEF Update!Answers
  <2> QED BY <1>2, <2>1, <2>2 DEF Update!Completion, Update!CompletionInvariant, Update!Current
<1> QED BY <1>1, <1>2

LEMMA UpdateWorkerKeeps ==
  ASSUME Update!UpdateInvariant, NEW a \in Update!Attempts, Update!Worker(a)
  PROVE  Update!UpdateInvariant'
<1> USE UpdateAssumption DEF Update!gate, Update!BoundAssumption, Update!Attempts, Update!None,
       Update!AtWork, Update!Current, Update!Steps, Update!Goes, Update!Answers, Update!UpdateInvariant
<1>1. CASE Update!Start(a)
  <2>1. (updating \in BOOLEAN /\ handoff \in BOOLEAN)'
    BY <1>1 DEF Update!Start
  <2>2. Update!UpdateTyped'
    BY <1>1 DEF Update!UpdateTyped, Update!Start
  <2>3. Update!GateInvariant' /\ (recovery # Update!None => Update!Current(recovery))'
    BY <1>1 DEF Update!AttemptInvariant, Update!CompletionInvariant, Update!GateInvariant,
           Update!UpdateTyped, Update!Start
  <2>4. (completions \subseteq Update!Completion)' /\ Update!CompletionInvariant'
    BY <1>1, AnswersKeep DEF Update!AttemptInvariant, Update!UpdateTyped, Update!Start
  <2>5. ASSUME NEW b \in Update!Attempts PROVE Update!AttemptInvariant(b)'
    BY <1>1, ZenonT(120) DEF Update!AttemptInvariant, Update!CompletionInvariant, Update!GateInvariant,
           Update!UpdateTyped, Update!Start
  <2>7. (cancelled \cap installing = {})'
    BY <1>1 DEF Update!AttemptInvariant, Update!CompletionInvariant, Update!GateInvariant,
           Update!UpdateTyped, Update!Start
  <2> QED BY <2>1, <2>2, <2>3, <2>4, <2>5, <2>7 DEF Update!UpdateInvariant
<1>2. CASE Update!GivesUp(a)
  <2>1. (updating \in BOOLEAN /\ handoff \in BOOLEAN)'
    BY <1>2 DEF Update!GivesUp
  <2>2. Update!UpdateTyped'
    BY <1>2 DEF Update!UpdateTyped, Update!GivesUp
  <2>3. Update!GateInvariant' /\ (recovery # Update!None => Update!Current(recovery))'
    BY <1>2 DEF Update!AttemptInvariant, Update!CompletionInvariant, Update!GateInvariant,
           Update!UpdateTyped, Update!GivesUp
  <2>4. (completions \subseteq Update!Completion)' /\ Update!CompletionInvariant'
    BY <1>2, AnswersKeep DEF Update!AttemptInvariant, Update!UpdateTyped, Update!GivesUp
  <2>5. ASSUME NEW b \in Update!Attempts PROVE Update!AttemptInvariant(b)'
    BY <1>2 DEF Update!AttemptInvariant, Update!CompletionInvariant, Update!GateInvariant,
           Update!UpdateTyped, Update!GivesUp
  <2>7. (cancelled \cap installing = {})'
    BY <1>2 DEF Update!AttemptInvariant, Update!CompletionInvariant, Update!GateInvariant,
           Update!UpdateTyped, Update!GivesUp
  <2> QED BY <2>1, <2>2, <2>3, <2>4, <2>5, <2>7 DEF Update!UpdateInvariant
<1>3. CASE Update!Cancels(a)
  <2>1. (updating \in BOOLEAN /\ handoff \in BOOLEAN)'
    BY <1>3 DEF Update!Cancels
  <2>2. Update!UpdateTyped'
    BY <1>3 DEF Update!UpdateTyped, Update!Cancels
  <2>3. Update!GateInvariant' /\ (recovery # Update!None => Update!Current(recovery))'
    BY <1>3 DEF Update!AttemptInvariant, Update!CompletionInvariant, Update!GateInvariant,
           Update!UpdateTyped, Update!Cancels
  <2>4. (completions \subseteq Update!Completion)' /\ Update!CompletionInvariant'
    BY <1>3, AnswersKeep DEF Update!AttemptInvariant, Update!UpdateTyped, Update!Cancels
  <2>5. ASSUME NEW b \in Update!Attempts PROVE Update!AttemptInvariant(b)'
    BY <1>3 DEF Update!AttemptInvariant, Update!CompletionInvariant, Update!GateInvariant,
           Update!UpdateTyped, Update!Cancels
  <2>7. (cancelled \cap installing = {})'
    BY <1>3 DEF Update!AttemptInvariant, Update!CompletionInvariant, Update!GateInvariant,
           Update!UpdateTyped, Update!Cancels
  <2> QED BY <2>1, <2>2, <2>3, <2>4, <2>5, <2>7 DEF Update!UpdateInvariant
<1>4. CASE Update!Advances(a)
  <2>1. (updating \in BOOLEAN /\ handoff \in BOOLEAN)'
    BY <1>4 DEF Update!Advances
  <2>2. Update!UpdateTyped'
    BY <1>4 DEF Update!UpdateTyped, Update!Advances
  <2>3. Update!GateInvariant' /\ (recovery # Update!None => Update!Current(recovery))'
    BY <1>4 DEF Update!AttemptInvariant, Update!CompletionInvariant, Update!GateInvariant,
           Update!UpdateTyped, Update!Advances
  <2>4. (completions \subseteq Update!Completion)' /\ Update!CompletionInvariant'
    BY <1>4, AnswersKeep DEF Update!AttemptInvariant, Update!UpdateTyped, Update!Advances
  <2>5. ASSUME NEW b \in Update!Attempts PROVE Update!AttemptInvariant(b)'
    BY <1>4 DEF Update!AttemptInvariant, Update!CompletionInvariant, Update!GateInvariant,
           Update!UpdateTyped, Update!Advances
  <2>7. (cancelled \cap installing = {})'
    BY <1>4 DEF Update!AttemptInvariant, Update!CompletionInvariant, Update!GateInvariant,
           Update!UpdateTyped, Update!Advances
  <2> QED BY <2>1, <2>2, <2>3, <2>4, <2>5, <2>7 DEF Update!UpdateInvariant
<1>5. CASE Update!begin_installation(a)
  <2>1. (updating \in BOOLEAN /\ handoff \in BOOLEAN)'
    BY <1>5 DEF Update!begin_installation
  <2>2. Update!UpdateTyped'
    BY <1>5 DEF Update!UpdateTyped, Update!begin_installation
  <2>3. Update!GateInvariant' /\ (recovery # Update!None => Update!Current(recovery))'
    BY <1>5 DEF Update!AttemptInvariant, Update!CompletionInvariant, Update!GateInvariant,
           Update!UpdateTyped, Update!begin_installation
  <2>4. (completions \subseteq Update!Completion)' /\ Update!CompletionInvariant'
    BY <1>5, AnswersKeep DEF Update!AttemptInvariant, Update!UpdateTyped, Update!begin_installation
  <2>5. ASSUME NEW b \in Update!Attempts PROVE Update!AttemptInvariant(b)'
    BY <1>5 DEF Update!AttemptInvariant, Update!CompletionInvariant, Update!GateInvariant,
           Update!UpdateTyped, Update!begin_installation
  <2>7. (cancelled \cap installing = {})'
    BY <1>5 DEF Update!AttemptInvariant, Update!CompletionInvariant, Update!GateInvariant,
           Update!UpdateTyped, Update!begin_installation
  <2> QED BY <2>1, <2>2, <2>3, <2>4, <2>5, <2>7 DEF Update!UpdateInvariant
<1>6. CASE Update!mark_installer_handoff_started(a)
  <2>1. (updating \in BOOLEAN /\ handoff \in BOOLEAN)'
    BY <1>6 DEF Update!mark_installer_handoff_started
  <2>2. Update!UpdateTyped'
    BY <1>6 DEF Update!UpdateTyped, Update!mark_installer_handoff_started
  <2>3. Update!GateInvariant' /\ (recovery # Update!None => Update!Current(recovery))'
    BY <1>6 DEF Update!AttemptInvariant, Update!CompletionInvariant, Update!GateInvariant,
           Update!UpdateTyped, Update!mark_installer_handoff_started
  <2>4. (completions \subseteq Update!Completion)' /\ Update!CompletionInvariant'
    BY <1>6, AnswersKeep DEF Update!AttemptInvariant, Update!UpdateTyped, Update!mark_installer_handoff_started
  <2>5. ASSUME NEW b \in Update!Attempts PROVE Update!AttemptInvariant(b)'
    BY <1>6 DEF Update!AttemptInvariant, Update!CompletionInvariant, Update!GateInvariant,
           Update!UpdateTyped, Update!mark_installer_handoff_started
  <2>7. (cancelled \cap installing = {})'
    BY <1>6 DEF Update!AttemptInvariant, Update!CompletionInvariant, Update!GateInvariant,
           Update!UpdateTyped, Update!mark_installer_handoff_started
  <2> QED BY <2>1, <2>2, <2>3, <2>4, <2>5, <2>7 DEF Update!UpdateInvariant
<1>7. CASE Update!launch_update_installer(a)
  <2>1. (updating \in BOOLEAN /\ handoff \in BOOLEAN)'
    BY <1>7 DEF Update!launch_update_installer
  <2>2. Update!UpdateTyped'
    BY <1>7 DEF Update!UpdateTyped, Update!launch_update_installer
  <2>3. Update!GateInvariant' /\ (recovery # Update!None => Update!Current(recovery))'
    BY <1>7 DEF Update!AttemptInvariant, Update!CompletionInvariant, Update!GateInvariant,
           Update!UpdateTyped, Update!launch_update_installer
  <2>4. (completions \subseteq Update!Completion)' /\ Update!CompletionInvariant'
    BY <1>7, AnswersKeep DEF Update!AttemptInvariant, Update!UpdateTyped, Update!launch_update_installer
  <2>5. ASSUME NEW b \in Update!Attempts PROVE Update!AttemptInvariant(b)'
    BY <1>7 DEF Update!AttemptInvariant, Update!CompletionInvariant, Update!GateInvariant,
           Update!UpdateTyped, Update!launch_update_installer
  <2>7. (cancelled \cap installing = {})'
    BY <1>7 DEF Update!AttemptInvariant, Update!CompletionInvariant, Update!GateInvariant,
           Update!UpdateTyped, Update!launch_update_installer
  <2> QED BY <2>1, <2>2, <2>3, <2>4, <2>5, <2>7 DEF Update!UpdateInvariant
<1> QED BY <1>1, <1>2, <1>3, <1>4, <1>5, <1>6, <1>7 DEF Update!Worker

LEMMA UpdateNextKeeps ==
  ASSUME Update!UpdateInvariant, Update!Next
  PROVE  Update!UpdateInvariant'
<1> USE UpdateAssumption DEF Update!gate, Update!BoundAssumption, Update!Attempts, Update!None,
       Update!AtWork, Update!Current, Update!Steps, Update!Goes, Update!Answers, Update!UpdateInvariant
<1>1. CASE Update!Begin
  <2>1. (updating \in BOOLEAN /\ handoff \in BOOLEAN)'
    BY <1>1 DEF Update!Begin, Update!BeginAttempt, Update!MayBegin
  <2>2. Update!UpdateTyped'
    BY <1>1 DEF Update!UpdateTyped, Update!Begin, Update!BeginAttempt, Update!MayBegin
  <2>3. Update!GateInvariant' /\ (recovery # Update!None => Update!Current(recovery))'
    BY <1>1 DEF Update!AttemptInvariant, Update!CompletionInvariant, Update!GateInvariant,
           Update!UpdateTyped, Update!Begin, Update!BeginAttempt, Update!MayBegin
  <2>4. (completions \subseteq Update!Completion)'
    BY <1>1 DEF Update!Begin, Update!BeginAttempt, Update!MayBegin
  <2>5. ASSUME NEW b \in Update!Attempts PROVE Update!AttemptInvariant(b)'
    BY <1>1 DEF Update!AttemptInvariant, Update!CompletionInvariant, Update!GateInvariant,
           Update!UpdateTyped, Update!Begin, Update!BeginAttempt, Update!MayBegin
  <2>6. Update!CompletionInvariant'
    BY <1>1 DEF Update!AttemptInvariant, Update!CompletionInvariant, Update!GateInvariant,
           Update!UpdateTyped, Update!Begin, Update!BeginAttempt, Update!MayBegin
  <2>7. (cancelled \cap installing = {})'
    BY <1>1 DEF Update!AttemptInvariant, Update!CompletionInvariant, Update!GateInvariant,
           Update!UpdateTyped, Update!Begin, Update!BeginAttempt, Update!MayBegin
  <2> QED BY <2>1, <2>2, <2>3, <2>4, <2>5, <2>6, <2>7 DEF Update!UpdateInvariant
<1>2. CASE Update!BeginFails
  <2>1. (updating \in BOOLEAN /\ handoff \in BOOLEAN)'
    BY <1>2 DEF Update!BeginFails, Update!MayBegin, Update!FreeGate
  <2>2. Update!UpdateTyped'
    BY <1>2 DEF Update!UpdateTyped, Update!BeginFails, Update!MayBegin, Update!FreeGate
  <2>3. Update!GateInvariant' /\ (recovery # Update!None => Update!Current(recovery))'
    BY <1>2 DEF Update!AttemptInvariant, Update!CompletionInvariant, Update!GateInvariant,
           Update!UpdateTyped, Update!BeginFails, Update!MayBegin, Update!FreeGate
  <2>4. (completions \subseteq Update!Completion)'
    BY <1>2 DEF Update!BeginFails, Update!MayBegin, Update!FreeGate
  <2>5. ASSUME NEW b \in Update!Attempts PROVE Update!AttemptInvariant(b)'
    BY <1>2 DEF Update!AttemptInvariant, Update!CompletionInvariant, Update!GateInvariant,
           Update!UpdateTyped, Update!BeginFails, Update!MayBegin, Update!FreeGate
  <2>6. Update!CompletionInvariant'
    BY <1>2 DEF Update!AttemptInvariant, Update!CompletionInvariant, Update!GateInvariant,
           Update!UpdateTyped, Update!BeginFails, Update!MayBegin, Update!FreeGate
  <2>7. (cancelled \cap installing = {})'
    BY <1>2 DEF Update!AttemptInvariant, Update!CompletionInvariant, Update!GateInvariant,
           Update!UpdateTyped, Update!BeginFails, Update!MayBegin, Update!FreeGate
  <2> QED BY <2>1, <2>2, <2>3, <2>4, <2>5, <2>6, <2>7 DEF Update!UpdateInvariant
<1>3. CASE \E a \in Update!Attempts : Update!Worker(a)
  BY <1>3, UpdateWorkerKeeps
<1>4. CASE Update!Cancel
  <2>1. (updating \in BOOLEAN /\ handoff \in BOOLEAN)'
    BY <1>4 DEF Update!Cancel, Update!CancelAccepted
  <2>2. Update!UpdateTyped'
    BY <1>4 DEF Update!UpdateTyped, Update!Cancel, Update!CancelAccepted
  <2>3. Update!GateInvariant' /\ (recovery # Update!None => Update!Current(recovery))'
    BY <1>4 DEF Update!AttemptInvariant, Update!CompletionInvariant, Update!GateInvariant,
           Update!UpdateTyped, Update!Cancel, Update!CancelAccepted
  <2>4. (completions \subseteq Update!Completion)'
    BY <1>4 DEF Update!Cancel, Update!CancelAccepted
  <2>5. ASSUME NEW b \in Update!Attempts PROVE Update!AttemptInvariant(b)'
    BY <1>4 DEF Update!AttemptInvariant, Update!CompletionInvariant, Update!GateInvariant,
           Update!UpdateTyped, Update!Cancel, Update!CancelAccepted
  <2>6. Update!CompletionInvariant'
    BY <1>4 DEF Update!AttemptInvariant, Update!CompletionInvariant, Update!GateInvariant,
           Update!UpdateTyped, Update!Cancel, Update!CancelAccepted
  <2>7. (cancelled \cap installing = {})'
    BY <1>4 DEF Update!AttemptInvariant, Update!CompletionInvariant, Update!GateInvariant,
           Update!UpdateTyped, Update!Cancel, Update!CancelAccepted
  <2> QED BY <2>1, <2>2, <2>3, <2>4, <2>5, <2>6, <2>7 DEF Update!UpdateInvariant
<1>5. CASE Update!Completes
  <2>1. ASSUME NEW c \in completions, Update!Fails(c) \/ Update!IsCurrent(c) PROVE Update!UpdateInvariant'
    <3>1. (updating \in BOOLEAN /\ handoff \in BOOLEAN)'
      BY <2>1 DEF Update!Fails, Update!IsCurrent, Update!Take, Update!Disarms, Update!Finish, Update!FreeGate
    <3>2. Update!UpdateTyped'
      BY <2>1 DEF Update!UpdateTyped, Update!Fails, Update!IsCurrent, Update!Take, Update!Disarms, Update!Finish, Update!FreeGate
    <3>3. Update!GateInvariant' /\ (recovery # Update!None => Update!Current(recovery))'
      BY <2>1 DEF Update!AttemptInvariant, Update!CompletionInvariant, Update!GateInvariant,
             Update!UpdateTyped, Update!Fails, Update!IsCurrent, Update!Take, Update!Disarms, Update!Finish, Update!FreeGate
    <3>4. (completions \subseteq Update!Completion)'
      BY <2>1 DEF Update!Fails, Update!IsCurrent, Update!Take, Update!Disarms, Update!Finish, Update!FreeGate
    <3>5. ASSUME NEW b \in Update!Attempts PROVE Update!AttemptInvariant(b)'
      BY <2>1 DEF Update!AttemptInvariant, Update!CompletionInvariant, Update!GateInvariant,
             Update!UpdateTyped, Update!Fails, Update!IsCurrent, Update!Take, Update!Disarms, Update!Finish, Update!FreeGate
    <3>6. Update!CompletionInvariant'
      BY <2>1 DEF Update!AttemptInvariant, Update!CompletionInvariant, Update!GateInvariant,
             Update!UpdateTyped, Update!Fails, Update!IsCurrent, Update!Take, Update!Disarms, Update!Finish, Update!FreeGate
    <3>7. (cancelled \cap installing = {})'
      BY <2>1 DEF Update!AttemptInvariant, Update!CompletionInvariant, Update!GateInvariant,
             Update!UpdateTyped, Update!Fails, Update!IsCurrent, Update!Take, Update!Disarms, Update!Finish, Update!FreeGate
    <3> QED BY <3>1, <3>2, <3>3, <3>4, <3>5, <3>6, <3>7 DEF Update!UpdateInvariant
  <2>2. ASSUME NEW c \in completions, Update!HandoffStarted(c) PROVE Update!UpdateInvariant'
    <3>1. (updating \in BOOLEAN /\ handoff \in BOOLEAN)'
      BY <2>2 DEF Update!HandoffStarted, Update!Take, Update!Watches, Update!Completion
    <3>2. Update!UpdateTyped'
      BY <2>2 DEF Update!UpdateTyped, Update!HandoffStarted, Update!Take, Update!Watches, Update!Completion
    <3>3. Update!GateInvariant' /\ (recovery # Update!None => Update!Current(recovery))'
      BY <2>2 DEF Update!AttemptInvariant, Update!CompletionInvariant, Update!GateInvariant,
             Update!UpdateTyped, Update!HandoffStarted, Update!Take, Update!Watches, Update!Completion
    <3>4. (completions \subseteq Update!Completion)'
      BY <2>2 DEF Update!HandoffStarted, Update!Take, Update!Watches, Update!Completion
    <3>5. ASSUME NEW b \in Update!Attempts PROVE Update!AttemptInvariant(b)'
      BY <2>2 DEF Update!AttemptInvariant, Update!CompletionInvariant, Update!GateInvariant,
             Update!UpdateTyped, Update!HandoffStarted, Update!Take, Update!Watches, Update!Completion
    <3>6. Update!CompletionInvariant'
      BY <2>2 DEF Update!AttemptInvariant, Update!CompletionInvariant, Update!GateInvariant,
             Update!UpdateTyped, Update!HandoffStarted, Update!Take, Update!Watches, Update!Completion
    <3>7. (cancelled \cap installing = {})'
      BY <2>2 DEF Update!AttemptInvariant, Update!CompletionInvariant, Update!GateInvariant,
             Update!UpdateTyped, Update!HandoffStarted, Update!Take, Update!Watches, Update!Completion
    <3> QED BY <3>1, <3>2, <3>3, <3>4, <3>5, <3>6, <3>7 DEF Update!UpdateInvariant
  <2> QED BY <1>5, <2>1, <2>2 DEF Update!Completes
<1>6. CASE Update!InstallerExited \/ Update!HandoffTimedOut
  <2>1. (updating \in BOOLEAN /\ handoff \in BOOLEAN)'
    BY <1>6 DEF Update!InstallerExited, Update!HandoffTimedOut, Update!Recover, Update!FreeGate
  <2>2. Update!UpdateTyped'
    BY <1>6 DEF Update!UpdateTyped, Update!InstallerExited, Update!HandoffTimedOut, Update!Recover, Update!FreeGate
  <2>3. Update!GateInvariant' /\ (recovery # Update!None => Update!Current(recovery))'
    BY <1>6 DEF Update!AttemptInvariant, Update!CompletionInvariant, Update!GateInvariant,
           Update!UpdateTyped, Update!InstallerExited, Update!HandoffTimedOut, Update!Recover, Update!FreeGate
  <2>4. (completions \subseteq Update!Completion)'
    BY <1>6 DEF Update!InstallerExited, Update!HandoffTimedOut, Update!Recover, Update!FreeGate
  <2>5. ASSUME NEW b \in Update!Attempts PROVE Update!AttemptInvariant(b)'
    BY <1>6 DEF Update!AttemptInvariant, Update!CompletionInvariant, Update!GateInvariant,
           Update!UpdateTyped, Update!InstallerExited, Update!HandoffTimedOut, Update!Recover, Update!FreeGate
  <2>6. Update!CompletionInvariant'
    BY <1>6 DEF Update!AttemptInvariant, Update!CompletionInvariant, Update!GateInvariant,
           Update!UpdateTyped, Update!InstallerExited, Update!HandoffTimedOut, Update!Recover, Update!FreeGate
  <2>7. (cancelled \cap installing = {})'
    BY <1>6 DEF Update!AttemptInvariant, Update!CompletionInvariant, Update!GateInvariant,
           Update!UpdateTyped, Update!InstallerExited, Update!HandoffTimedOut, Update!Recover, Update!FreeGate
  <2> QED BY <2>1, <2>2, <2>3, <2>4, <2>5, <2>6, <2>7 DEF Update!UpdateInvariant
<1>7. ASSUME NEW a \in Update!Attempts, Update!InstallerEnds(a) PROVE Update!UpdateInvariant'
  <2>1. (updating \in BOOLEAN /\ handoff \in BOOLEAN)'
    BY <1>7 DEF Update!InstallerEnds
  <2>2. Update!UpdateTyped'
    BY <1>7 DEF Update!UpdateTyped, Update!InstallerEnds
  <2>3. Update!GateInvariant' /\ (recovery # Update!None => Update!Current(recovery))'
    BY <1>7 DEF Update!AttemptInvariant, Update!CompletionInvariant, Update!GateInvariant,
           Update!UpdateTyped, Update!InstallerEnds
  <2>4. (completions \subseteq Update!Completion)'
    BY <1>7 DEF Update!InstallerEnds
  <2>5. ASSUME NEW b \in Update!Attempts PROVE Update!AttemptInvariant(b)'
    BY <1>7 DEF Update!AttemptInvariant, Update!CompletionInvariant, Update!GateInvariant,
           Update!UpdateTyped, Update!InstallerEnds
  <2>6. Update!CompletionInvariant'
    BY <1>7 DEF Update!AttemptInvariant, Update!CompletionInvariant, Update!GateInvariant,
           Update!UpdateTyped, Update!InstallerEnds
  <2>7. (cancelled \cap installing = {})'
    BY <1>7 DEF Update!AttemptInvariant, Update!CompletionInvariant, Update!GateInvariant,
           Update!UpdateTyped, Update!InstallerEnds
  <2> QED BY <2>1, <2>2, <2>3, <2>4, <2>5, <2>6, <2>7 DEF Update!UpdateInvariant
<1>8. CASE Update!ControlQuit
  <2>1. (updating \in BOOLEAN /\ handoff \in BOOLEAN)'
    BY <1>8 DEF Update!ControlQuit, Update!can_control_quit
  <2>2. Update!UpdateTyped'
    BY <1>8 DEF Update!UpdateTyped, Update!ControlQuit, Update!can_control_quit
  <2>3. Update!GateInvariant' /\ (recovery # Update!None => Update!Current(recovery))'
    BY <1>8 DEF Update!AttemptInvariant, Update!CompletionInvariant, Update!GateInvariant,
           Update!UpdateTyped, Update!ControlQuit, Update!can_control_quit
  <2>4. (completions \subseteq Update!Completion)'
    BY <1>8 DEF Update!ControlQuit, Update!can_control_quit
  <2>5. ASSUME NEW b \in Update!Attempts PROVE Update!AttemptInvariant(b)'
    BY <1>8 DEF Update!AttemptInvariant, Update!CompletionInvariant, Update!GateInvariant,
           Update!UpdateTyped, Update!ControlQuit, Update!can_control_quit
  <2>6. Update!CompletionInvariant'
    BY <1>8 DEF Update!AttemptInvariant, Update!CompletionInvariant, Update!GateInvariant,
           Update!UpdateTyped, Update!ControlQuit, Update!can_control_quit
  <2>7. (cancelled \cap installing = {})'
    BY <1>8 DEF Update!AttemptInvariant, Update!CompletionInvariant, Update!GateInvariant,
           Update!UpdateTyped, Update!ControlQuit, Update!can_control_quit
  <2> QED BY <2>1, <2>2, <2>3, <2>4, <2>5, <2>6, <2>7 DEF Update!UpdateInvariant
<1>9. CASE Update!PromisedQuit \/ Update!UserQuit
  <2>1. (updating \in BOOLEAN /\ handoff \in BOOLEAN)'
    BY <1>9 DEF Update!PromisedQuit, Update!UserQuit, Update!can_user_quit
  <2>2. Update!UpdateTyped'
    BY <1>9 DEF Update!UpdateTyped, Update!PromisedQuit, Update!UserQuit, Update!can_user_quit
  <2>3. Update!GateInvariant' /\ (recovery # Update!None => Update!Current(recovery))'
    BY <1>9 DEF Update!AttemptInvariant, Update!CompletionInvariant, Update!GateInvariant,
           Update!UpdateTyped, Update!PromisedQuit, Update!UserQuit, Update!can_user_quit
  <2>4. (completions \subseteq Update!Completion)'
    BY <1>9 DEF Update!PromisedQuit, Update!UserQuit, Update!can_user_quit
  <2>5. ASSUME NEW b \in Update!Attempts PROVE Update!AttemptInvariant(b)'
    BY <1>9 DEF Update!AttemptInvariant, Update!CompletionInvariant, Update!GateInvariant,
           Update!UpdateTyped, Update!PromisedQuit, Update!UserQuit, Update!can_user_quit
  <2>6. Update!CompletionInvariant'
    BY <1>9 DEF Update!AttemptInvariant, Update!CompletionInvariant, Update!GateInvariant,
           Update!UpdateTyped, Update!PromisedQuit, Update!UserQuit, Update!can_user_quit
  <2>7. (cancelled \cap installing = {})'
    BY <1>9 DEF Update!AttemptInvariant, Update!CompletionInvariant, Update!GateInvariant,
           Update!UpdateTyped, Update!PromisedQuit, Update!UserQuit, Update!can_user_quit
  <2> QED BY <2>1, <2>2, <2>3, <2>4, <2>5, <2>6, <2>7 DEF Update!UpdateInvariant
<1>10. CASE Update!CheckStarts \/ Update!CheckAnswers
  <2>1. (updating \in BOOLEAN /\ handoff \in BOOLEAN)'
    BY <1>10 DEF Update!CheckStarts, Update!CheckAnswers
  <2>2. Update!UpdateTyped'
    BY <1>10 DEF Update!UpdateTyped, Update!CheckStarts, Update!CheckAnswers
  <2>3. Update!GateInvariant' /\ (recovery # Update!None => Update!Current(recovery))'
    BY <1>10 DEF Update!AttemptInvariant, Update!CompletionInvariant, Update!GateInvariant,
           Update!UpdateTyped, Update!CheckStarts, Update!CheckAnswers
  <2>4. (completions \subseteq Update!Completion)'
    BY <1>10 DEF Update!CheckStarts, Update!CheckAnswers
  <2>5. ASSUME NEW b \in Update!Attempts PROVE Update!AttemptInvariant(b)'
    BY <1>10 DEF Update!AttemptInvariant, Update!CompletionInvariant, Update!GateInvariant,
           Update!UpdateTyped, Update!CheckStarts, Update!CheckAnswers
  <2>6. Update!CompletionInvariant'
    BY <1>10 DEF Update!AttemptInvariant, Update!CompletionInvariant, Update!GateInvariant,
           Update!UpdateTyped, Update!CheckStarts, Update!CheckAnswers
  <2>7. (cancelled \cap installing = {})'
    BY <1>10 DEF Update!AttemptInvariant, Update!CompletionInvariant, Update!GateInvariant,
           Update!UpdateTyped, Update!CheckStarts, Update!CheckAnswers
  <2> QED BY <2>1, <2>2, <2>3, <2>4, <2>5, <2>6, <2>7 DEF Update!UpdateInvariant
<1> QED BY <1>1, <1>2, <1>3, <1>4, <1>5, <1>6, <1>7, <1>8, <1>9, <1>10 DEF Update!Next

-----------------------------------------------------------------------------
(* ScreenshotPublication. *)

\* A set of bounded numbers has a greatest one: consider the smallest of the sets of
\* what lies above a member.
LEMMA GreatestExists ==
  ASSUME NEW n \in Nat, NEW S \in SUBSET (0..n), S # {}
  PROVE  \E k \in S : \A j \in S : j <= k
<1> DEFINE Above(k) == {j \in S : j > k}
           T == {Above(k) : k \in S}
<1>1. IsFiniteSet(S)
  BY FS_BoundedSetOfNaturals
<1>2. IsWellFoundedOn(StrictSubsetOrdering(S), SUBSET S)
  BY <1>1, FS_StrictSubsetOrderingWellFounded, FS_FiniteSubsetsOfFinite
<1>3. T \subseteq SUBSET S /\ T # {}
  OBVIOUS
<1>4. PICK X \in T : \A Y \in T : ~ (<<Y, X>> \in StrictSubsetOrdering(S))
  BY <1>2, <1>3, WFMin
<1>5. PICK k \in S : X = Above(k)
  BY <1>4
<1>6. ASSUME NEW j \in S, j > k PROVE FALSE
  <2>1. Above(j) \subseteq Above(k) /\ j \in Above(k) /\ j \notin Above(j)
    <3>1. j \in Int /\ k \in Int /\ \A i \in S : i \in Int
      OBVIOUS
    <3>2. \A i \in S : i > j => i > k
      BY <3>1, <1>6
    <3>3. ASSUME NEW i \in Above(j) PROVE i \in Above(k)
      BY <3>2
    <3>4. j \in Above(k) /\ j \notin Above(j)
      BY <3>1, <1>6
    <3> QED BY <3>3, <3>4
  <2>2. <<Above(j), Above(k)>> \in (SUBSET S) \X (SUBSET S)
    OBVIOUS
  <2>3. <<Above(j), Above(k)>> \in StrictSubsetOrdering(S)
    BY <2>1, <2>2 DEF StrictSubsetOrdering
  <2> QED BY <2>3, <1>4, <1>5
<1> QED BY <1>6

LEMMA NewestExists ==
  ASSUME NEW S \in SUBSET Pub!Shots, S # {}
  PROVE  Pub!Newest(S) \in S /\ \A j \in S : j <= Pub!Newest(S)
<1>1. MaxKey \in Nat /\ S \in SUBSET (0..MaxKey)
  BY PublicationAssumption DEF Pub!KeyAssumption, Pub!Shots
<1>2. \E k \in S : \A j \in S : j <= k
  BY <1>1, GreatestExists
<1> QED BY <1>2 DEF Pub!Newest

LEMMA SnapshotShape ==
  /\ \A k : Pub!Snapshot(k).kind = "snapshot" /\ Pub!Snapshot(k).key = k
  /\ \A k \in Pub!Shots : Pub!Snapshot(k) \in Pub!Publication
  /\ Pub!NoPublication.kind = "none"
BY DEF Pub!Snapshot, Pub!Publication, Pub!NoPublication

\* A publication enters the queue at its end and leaves it at its head.
LEMMA Enqueue ==
  ASSUME NEW q \in Seq(Pub!Publication), NEW p \in Pub!Publication
  PROVE  /\ Append(q, p) \in Seq(Pub!Publication) /\ Len(q) \in Nat /\ Len(Append(q, p)) = Len(q) + 1
         /\ \A i \in 1..Len(q) : Append(q, p)[i] = q[i]
         /\ Append(q, p)[Len(q) + 1] = p
OBVIOUS

LEMMA Dequeue ==
  ASSUME NEW q \in Seq(Pub!Publication), q # <<>>
  PROVE  /\ Head(q) \in Pub!Publication /\ Head(q) = q[1] /\ Tail(q) \in Seq(Pub!Publication)
         /\ Len(q) \in Nat \ {0} /\ Len(Tail(q)) = Len(q) - 1
         /\ \A i \in 1..Len(q)-1 : Tail(q)[i] = q[i + 1]
OBVIOUS

LEMMA NoticeShape ==
  /\ \A p \in Pub!Publication : p.kind \in {"snapshot", "timeout"} /\ p.token \in Nat /\ p.key \in Pub!Shots
  /\ \A p \in Pub!Publication \cup {Pub!NoPublication} : p.kind # "none" => p \in Pub!Publication
BY DEF Pub!Publication, Pub!NoPublication

\* A notice that was timely stays timely.
LEMMA TimelyStays ==
  ASSUME token \in Nat, NEW p \in Pub!Publication \cup {Pub!NoPublication}, Pub!Timely(p),
         UNCHANGED <<accepted, token>> \/ token' = token + 1
  PROVE  Pub!Timely(p)'
BY NoticeShape DEF Pub!Timely

LEMMA QueueStaysTimely ==
  ASSUME Pub!TypeOK, Pub!QueueTimely, Pub!HoldingTimely,
         UNCHANGED <<accepted, token>> \/ token' = token + 1,
         \A i \in 1..Len(queue') :
            \/ queue'[i].kind # "timeout"
            \/ \E j \in 1..Len(queue) : queue'[i] = queue[j]
            \/ \E a \in Pub!Actors : queue'[i] = holding[a]
  PROVE  Pub!QueueTimely'
<1>1. queue \in Seq(Pub!Publication) /\ token \in Nat
      /\ holding \in [Pub!Actors -> Pub!Publication \cup {Pub!NoPublication}]
  BY DEF Pub!TypeOK
<1>2. SUFFICES ASSUME NEW i \in 1..Len(queue') PROVE Pub!Timely(queue[i])'
  BY DEF Pub!QueueTimely
<1>3. ASSUME NEW p \in Pub!Publication \cup {Pub!NoPublication}, Pub!Timely(p), queue'[i] = p
      PROVE  Pub!Timely(queue[i])'
  <2>1. Pub!Timely(p)'
    BY <1>1, <1>3, TimelyStays
  <2> QED BY <2>1, <1>3 DEF Pub!Timely
<1>4. CASE queue'[i].kind # "timeout"
  BY <1>4 DEF Pub!Timely
<1>5. ASSUME NEW j \in 1..Len(queue), queue'[i] = queue[j] PROVE Pub!Timely(queue[i])'
  <2>1. queue[j] \in Pub!Publication /\ Pub!Timely(queue[j])
    BY <1>1 DEF Pub!QueueTimely
  <2> QED BY <2>1, <1>3, <1>5
<1>6. ASSUME NEW a \in Pub!Actors, queue'[i] = holding[a] PROVE Pub!Timely(queue[i])'
  <2>1. holding[a] \in Pub!Publication \cup {Pub!NoPublication} /\ Pub!Timely(holding[a])
    BY <1>1 DEF Pub!HoldingTimely
  <2> QED BY <2>1, <1>3, <1>6
<1> QED BY <1>4, <1>5, <1>6

\* What a thread holds stays timely; it may let go of it, or keep on emitting it.
LEMMA HoldingStaysTimely ==
  ASSUME Pub!TypeOK, Pub!HoldingTimely, UNCHANGED handed,
         UNCHANGED <<accepted, token>> \/ token' = token + 1,
         \A a \in Pub!Actors :
            \/ holding'[a] = Pub!NoPublication
            \/ holding'[a] = holding[a] /\ (Pub!Emitting(a)' => Pub!Emitting(a))
  PROVE  Pub!HoldingTimely'
<1>1. token \in Nat /\ holding \in [Pub!Actors -> Pub!Publication \cup {Pub!NoPublication}]
  BY DEF Pub!TypeOK
<1>2. SUFFICES ASSUME NEW a \in Pub!Actors
               PROVE  /\ Pub!Timely(holding[a])'
                      /\ Pub!Emitting(a)' /\ holding'[a].kind = "timeout" => handed' \subseteq holding'[a].past
  BY DEF Pub!HoldingTimely
<1>3. CASE holding'[a] = Pub!NoPublication
  BY <1>3, SnapshotShape DEF Pub!Timely
<1>4. CASE holding'[a] = holding[a] /\ (Pub!Emitting(a)' => Pub!Emitting(a))
  <2>1. PICK p \in Pub!Publication \cup {Pub!NoPublication} : p = holding[a]
    BY <1>1
  <2>2. Pub!Timely(p) /\ Pub!Timely(holding[a])
    BY <2>1 DEF Pub!HoldingTimely
  <2>3. Pub!Timely(p)'
    BY <1>1, <2>2, TimelyStays
  <2>4. Pub!Timely(holding[a])'
    BY <2>3, <2>1, <1>4 DEF Pub!Timely
  <2>5. Pub!Emitting(a) /\ holding[a].kind = "timeout" => handed \subseteq holding[a].past
    BY DEF Pub!HoldingTimely
  <2> QED BY <2>4, <2>5, <1>4
<1> QED BY <1>2, <1>3, <1>4

\* The queue stays in order when a publication newer than all enters it.
LEMMA EnqueueKeepsOrder ==
  ASSUME Pub!TypeOK, Pub!QueueInOrder, Pub!EmittingInOrder, UNCHANGED sourceGate, accepted \subseteq accepted',
         NEW p \in Pub!Publication, queue' = Append(queue, p),
         p.kind = "snapshot" =>
            /\ p = Pub!Snapshot(p.key) /\ p.key \in accepted' /\ sourceGate < p.key
            /\ \A k \in accepted : k < p.key,
         \A a \in Pub!Actors : Pub!Emitting(a)' => Pub!Emitting(a) /\ holding'[a] = holding[a]
  PROVE  Pub!QueueInOrder' /\ Pub!EmittingInOrder'
<1>1. queue \in Seq(Pub!Publication)
  BY DEF Pub!TypeOK
<1>2. /\ Len(queue) \in Nat /\ Len(queue') = Len(queue) + 1 /\ queue'[Len(queue) + 1] = p
      /\ \A i \in 1..Len(queue) : queue'[i] = queue[i]
  BY <1>1, Enqueue
<1>3. \A i \in 1..Len(queue) : Pub!Precedes(queue[i], p)
  BY DEF Pub!QueueInOrder, Pub!InTurn, Pub!Precedes
<1>4. ASSUME NEW i \in 1..Len(queue') PROVE Pub!InTurn(queue[i])'
  <2>1. CASE i \in 1..Len(queue)
    BY <2>1, <1>2 DEF Pub!QueueInOrder, Pub!InTurn, Pub!Snapshot
  <2>2. CASE i = Len(queue) + 1
    BY <2>2, <1>2 DEF Pub!InTurn, Pub!Snapshot
  <2> QED BY <2>1, <2>2, <1>2
<1>5. ASSUME NEW i \in 1..Len(queue'), NEW j \in 1..Len(queue'), i < j
      PROVE  Pub!Precedes(queue'[i], queue'[j])
  <2>1. i \in 1..Len(queue)
    BY <1>2, <1>5
  <2>2. CASE j \in 1..Len(queue)
    BY <2>1, <2>2, <1>2, <1>5 DEF Pub!QueueInOrder
  <2>3. CASE j = Len(queue) + 1
    BY <2>1, <2>3, <1>2, <1>3
  <2> QED BY <2>2, <2>3, <1>2
<1>6. Pub!QueueInOrder'
  BY <1>4, <1>5 DEF Pub!QueueInOrder, Pub!Precedes
<1>7. ASSUME NEW a \in Pub!Actors, Pub!Emitting(a)'
      PROVE  Pub!InTurn(holding[a])' /\ \A i \in 1..Len(queue') : Pub!Precedes(holding'[a], queue'[i])
  <2>1. Pub!Emitting(a) /\ holding'[a] = holding[a]
    BY <1>7
  <2>2. Pub!InTurn(holding[a]) /\ \A i \in 1..Len(queue) : Pub!Precedes(holding[a], queue[i])
    BY <2>1 DEF Pub!EmittingInOrder
  <2>3. Pub!InTurn(holding[a])'
    BY <2>1, <2>2 DEF Pub!InTurn, Pub!Snapshot
  <2>4. Pub!Precedes(holding[a], p)
    BY <2>2 DEF Pub!InTurn, Pub!Precedes
  <2>5. \A i \in 1..Len(queue') : Pub!Precedes(holding[a], queue'[i])
    BY <2>2, <2>4, <1>2
  <2> QED BY <2>1, <2>3, <2>5
<1>8. Pub!EmittingInOrder'
  BY <1>7 DEF Pub!EmittingInOrder, Pub!Precedes
<1> QED BY <1>6, <1>8

\* What the assembler accepts enters the queue, and every promise about what was
\* accepted before is kept.
LEMMA AcceptKeeps ==
  ASSUME Pub!PublicationInvariant, NEW w \in Workers, NEW k \in Pub!Shots, NEW retired \in SUBSET Pub!Shots,
         pc[w] = "accept", Pub!Accept(w, k, retired), \A j \in accepted : j < k,
         k \in onDisk, \A a \in Pub!Actors : k \notin files[a], retired \cap accepted = {},
         UNCHANGED <<Pub!diskVars, stopped, Pub!handoffVars, Pub!guiVars, raised>>
  PROVE  /\ Pub!HandedInOrder' /\ Pub!QueueInOrder' /\ Pub!EmittingInOrder' /\ Pub!AwaitInvariant'
         /\ Pub!QueueTimely' /\ Pub!HoldingTimely'
         /\ Pub!DeletedAfterOwnHandoff' /\ Pub!FilesHandedOver' /\ Pub!AppliedInTime'
         /\ queue' \in Seq(Pub!Publication) /\ token' \in Nat
<1> USE DEF Pub!diskVars, Pub!handoffVars, Pub!guiVars
<1>t. Pub!TypeOK /\ Pub!HandedInOrder /\ Pub!QueueInOrder /\ Pub!EmittingInOrder
  BY DEF Pub!PublicationInvariant
<1>m. Pub!QueueTimely /\ Pub!HoldingTimely /\ Pub!PublisherInvariant
  BY DEF Pub!PublicationInvariant
<1>f. /\ pc \in [Pub!Actors -> {"idle", "accept", "notify", "drain", "emit", "handing", "emitted",
                            "dead", "delete", "unlink"}]
      /\ files \in [Pub!Actors -> SUBSET Pub!Shots]
  BY <1>t DEF Pub!TypeOK
<1>g. queue \in Seq(Pub!Publication) /\ token \in Nat /\ w \in Pub!Actors /\ Pub!Snapshot(k) \in Pub!Publication
  BY <1>t, SnapshotShape DEF Pub!TypeOK, Pub!Actors
<1>1. /\ pc'[w] \in {"drain", "delete"} /\ \A a \in Pub!Actors : a # w => pc'[a] = pc[a]
      /\ UNCHANGED holding
  BY <1>f, <1>g DEF Pub!Accept, Pub!QueuePublication, Pub!Goto,
     Pub!ToDelete
<1>2. /\ queue' = Append(queue, Pub!Snapshot(k)) /\ token' = token + 1
      /\ accepted' = accepted \cup {k}
  BY DEF Pub!Accept, Pub!QueuePublication, Pub!CancelExpiry
<1>3. \A a \in Pub!Actors : Pub!Emitting(a)' => Pub!Emitting(a) /\ holding'[a] = holding[a]
  BY <1>1 DEF Pub!Emitting
<1>e. \A a \in Pub!Actors : Pub!Emitting(a) => Pub!Emitting(a)' /\ holding'[a] = holding[a]
  BY <1>1 DEF Pub!Emitting
<1>4. Pub!HandedInOrder'
  BY <1>t, <1>2 DEF Pub!HandedInOrder
<1>5. sourceGate < k
  BY <1>t DEF Pub!HandedInOrder, Pub!Shots
<1>6. Pub!QueueInOrder' /\ Pub!EmittingInOrder'
  BY <1>t, <1>g, <1>2, <1>3, <1>5, SnapshotShape, EnqueueKeepsOrder
<1>7. /\ Len(queue) \in Nat /\ Len(queue') = Len(queue) + 1 /\ queue'[Len(queue) + 1] = Pub!Snapshot(k)
      /\ \A i \in 1..Len(queue) : queue'[i] = queue[i]
      /\ queue' \in Seq(Pub!Publication)
  BY <1>g, <1>2, Enqueue
<1>8. Pub!AwaitInvariant'
  <2>1. ASSUME NEW j, Pub!Awaited(j) PROVE Pub!Awaited(j)'
    <3>1. CASE \E i \in 1..Len(queue) : queue[i] = Pub!Snapshot(j)
      BY <3>1, <1>7 DEF Pub!Awaited, Pub!Snapshot
    <3>2. CASE \E a \in Pub!Actors : Pub!Emitting(a) /\ holding[a] = Pub!Snapshot(j)
      BY <3>2, <1>e DEF Pub!Awaited, Pub!Snapshot
    <3> QED BY <2>1, <3>1, <3>2 DEF Pub!Awaited
  <2>2. Pub!Awaited(k)'
    BY <1>7 DEF Pub!Awaited, Pub!Snapshot
  <2>3. Pub!AwaitInvariant
    BY DEF Pub!PublicationInvariant
  <2> QED BY <2>1, <2>2, <2>3, <1>2 DEF Pub!AwaitInvariant
<1>9. Pub!QueueTimely'
  <2>1. ASSUME NEW i \in 1..Len(queue')
        PROVE  queue'[i].kind # "timeout" \/ \E j \in 1..Len(queue) : queue'[i] = queue[j]
    BY <1>7, SnapshotShape
  <2> QED BY <2>1, <1>t, <1>m, <1>2, QueueStaysTimely
<1>10. Pub!HoldingTimely'
  BY <1>t, <1>m, <1>1, <1>2, <1>3, HoldingStaysTimely
<1>11. Pub!DeletedAfterOwnHandoff'
  BY <1>2 DEF Pub!PublicationInvariant, Pub!DeletedAfterOwnHandoff,
     Pub!Accept
<1>12. Pub!FilesHandedOver'
  <2>1. Pub!FilesHandedOver
    BY DEF Pub!PublicationInvariant
  <2>2. /\ files'[w] = retired /\ \A a \in Pub!Actors : a # w => files'[a] = files[a]
        /\ pc'[w] = "delete" => k \in deferred'
        /\ deferred \subseteq deferred'
    BY <1>f, <1>g DEF Pub!Accept, Pub!ToDelete,
       Pub!QueuePublication, Pub!Goto, Pub!BecomesPublisher
  <2> QED BY <2>1, <2>2, <1>1, <1>2 DEF Pub!FilesHandedOver, Pub!HandedOver
<1>13. Pub!AppliedInTime'
  <2>1. Pub!AppliedInTime
    BY DEF Pub!PublicationInvariant
  <2>2. \A a \in Pub!Actors : pc'[a] = "unlink" => a # w /\ pc[a] = "unlink" /\ files'[a] = files[a]
    BY <1>1, <1>f, <1>g DEF Pub!Accept, Pub!ToDelete
  <2>3. deferred \subseteq deferred'
    BY DEF Pub!Accept
  <2> QED BY <2>1, <2>2, <2>3, <1>2 DEF Pub!AppliedInTime
<1>14. token' \in Nat
  BY <1>g, <1>2
<1> QED BY <1>4, <1>6, <1>7, <1>8, <1>9, <1>10, <1>11, <1>12, <1>13, <1>14

\* The queue stays in order when its head leaves it, and the head precedes the rest.
LEMMA DequeueKeepsOrder ==
  ASSUME Pub!TypeOK, Pub!QueueInOrder, queue # <<>>, queue' = Tail(queue), UNCHANGED <<sourceGate, accepted>>
  PROVE  /\ Pub!QueueInOrder' /\ Pub!InTurn(Head(queue))
         /\ \A i \in 1..Len(queue') : Pub!Precedes(Head(queue), queue'[i])
         /\ \A i \in 1..Len(queue) : queue[i] = Head(queue) \/ \E j \in 1..Len(queue') : queue'[j] = queue[i]
         /\ \A j \in 1..Len(queue') : \E i \in 1..Len(queue) : queue'[j] = queue[i]
         /\ Head(queue) \in Pub!Publication /\ (Pub!QueueTimely => Pub!Timely(Head(queue)))
         /\ queue' \in Seq(Pub!Publication)
<1>1. queue \in Seq(Pub!Publication)
  BY DEF Pub!TypeOK
<1>2. /\ Head(queue) \in Pub!Publication /\ Head(queue) = queue[1] /\ queue' \in Seq(Pub!Publication)
      /\ Len(queue) \in Nat \ {0} /\ Len(queue') = Len(queue) - 1
      /\ \A i \in 1..Len(queue)-1 : queue'[i] = queue[i + 1]
  BY <1>1, Dequeue
<1>3. \A i \in 1..Len(queue') : i + 1 \in 1..Len(queue) /\ queue'[i] = queue[i + 1]
  BY <1>2
<1>4. \A i \in 1..Len(queue) : i = 1 \/ (i - 1 \in 1..Len(queue') /\ queue'[i - 1] = queue[i])
  BY <1>2
<1>5. ASSUME NEW i \in 1..Len(queue') PROVE Pub!InTurn(queue[i])'
  <2>1. Pub!InTurn(queue[i + 1])
    BY <1>3 DEF Pub!QueueInOrder
  <2> QED BY <2>1, <1>3 DEF Pub!InTurn, Pub!Snapshot
<1>6. ASSUME NEW i \in 1..Len(queue'), NEW j \in 1..Len(queue'), i < j
      PROVE  Pub!Precedes(queue'[i], queue'[j])
  <2>1. i + 1 \in 1..Len(queue) /\ j + 1 \in 1..Len(queue) /\ i + 1 < j + 1
    BY <1>2, <1>3, <1>6
  <2>2. Pub!Precedes(queue[i + 1], queue[j + 1])
    BY <2>1 DEF Pub!QueueInOrder
  <2> QED BY <2>2, <1>3
<1>7. Pub!QueueInOrder'
  BY <1>5, <1>6 DEF Pub!QueueInOrder, Pub!Precedes
<1>8. 1 \in 1..Len(queue)
  BY <1>2
<1>9. Pub!InTurn(Head(queue)) /\ (Pub!QueueTimely => Pub!Timely(Head(queue)))
  BY <1>2, <1>8 DEF Pub!QueueInOrder, Pub!QueueTimely
<1>10. ASSUME NEW i \in 1..Len(queue') PROVE Pub!Precedes(Head(queue), queue'[i])
  <2>1. i + 1 \in 1..Len(queue) /\ 1 < i + 1
    BY <1>2, <1>3
  <2>2. Pub!Precedes(queue[1], queue[i + 1])
    BY <2>1, <1>8 DEF Pub!QueueInOrder
  <2> QED BY <2>2, <1>2, <1>3
<1>11. \A i \in 1..Len(queue) : queue[i] = Head(queue) \/ \E j \in 1..Len(queue') : queue'[j] = queue[i]
  BY <1>2, <1>4
<1>12. \A j \in 1..Len(queue') : \E i \in 1..Len(queue) : queue'[j] = queue[i]
  BY <1>3
<1> QED BY <1>2, <1>7, <1>9, <1>10, <1>11, <1>12

LEMMA PublicationInit == Pub!Init => Pub!PublicationInvariant
<1> SUFFICES ASSUME Pub!Init PROVE Pub!PublicationInvariant
  OBVIOUS
<1> USE PublicationAssumption DEF Pub!ActorAssumption, Pub!KeyAssumption,
       Pub!Actors, Pub!Shots, Pub!Init
<1>1. Pub!TypeOK
  <2>1. queue \in Seq(Pub!Publication)
    OBVIOUS
  <2>2. armed \in BOOLEAN /\ active \in BOOLEAN /\ stopped \in BOOLEAN /\ raised \in BOOLEAN
    OBVIOUS
  <2>3. holding \in [Pub!Actors -> Pub!Publication \cup {Pub!NoPublication}]
    OBVIOUS
  <2>4. files \in [Pub!Actors -> SUBSET Pub!Shots] /\ shot \in [Workers -> Pub!Shots \cup {NoKey}]
    OBVIOUS
  <2>5. frontier \in 0..MaxKey /\ {sourceGate, pending, applied} \subseteq 0..MaxKey
    OBVIOUS
  <2> QED BY <2>1, <2>2, <2>3, <2>4, <2>5 DEF Pub!TypeOK
<1>2. Pub!PublisherInvariant
  BY DEF Pub!PublisherInvariant, Pub!OnePublisher, Pub!Publishing
<1>3. Pub!ClaimInvariant /\ Pub!WithinFrontier /\ Pub!OpenGroup
  BY DEF Pub!ClaimInvariant, Pub!WithinFrontier, Pub!OpenGroup
<1>4. Pub!HandedInOrder /\ Pub!QueueInOrder /\ Pub!EmittingInOrder
  BY DEF Pub!HandedInOrder, Pub!QueueInOrder, Pub!EmittingInOrder,
     Pub!Emitting
<1>5. Pub!AwaitInvariant
  BY DEF Pub!AwaitInvariant
<1>6. Pub!QueueTimely /\ Pub!HoldingTimely
  BY DEF Pub!QueueTimely, Pub!HoldingTimely, Pub!Timely,
     Pub!Emitting, Pub!NoPublication
<1>7. Pub!DeletedAfterOwnHandoff /\ Pub!FilesHandedOver /\ Pub!AppliedInTime
  BY DEF Pub!DeletedAfterOwnHandoff, Pub!FilesHandedOver,
     Pub!AppliedInTime
<1> QED BY <1>1, <1>2, <1>3, <1>4, <1>5, <1>6, <1>7 DEF Pub!PublicationInvariant

LEMMA TakeKeeps ==
  ASSUME Pub!PublicationInvariant, NEW w \in Workers, Pub!Decode(w) \/ Pub!Take(w)
  PROVE  Pub!PublicationInvariant'
<1>t. Pub!TypeOK
  BY DEF Pub!PublicationInvariant
<1>p. Pub!PublisherInvariant
  BY DEF Pub!PublicationInvariant
<1>c. Pub!ClaimInvariant
  BY DEF Pub!PublicationInvariant
<1>g. Pub!WithinFrontier
  BY DEF Pub!PublicationInvariant
<1>h. Pub!OpenGroup
  BY DEF Pub!PublicationInvariant
<1>o. Pub!HandedInOrder
  BY DEF Pub!PublicationInvariant
<1>q. Pub!QueueInOrder
  BY DEF Pub!PublicationInvariant
<1>e. Pub!EmittingInOrder
  BY DEF Pub!PublicationInvariant
<1>a. Pub!AwaitInvariant
  BY DEF Pub!PublicationInvariant
<1>m. Pub!QueueTimely
  BY DEF Pub!PublicationInvariant
<1>n. Pub!HoldingTimely
  BY DEF Pub!PublicationInvariant
<1>d. Pub!DeletedAfterOwnHandoff
  BY DEF Pub!PublicationInvariant
<1>d2. Pub!FilesHandedOver
  BY DEF Pub!PublicationInvariant
<1>d3. Pub!AppliedInTime
  BY DEF Pub!PublicationInvariant
<1>f. /\ pc \in [Pub!Actors -> {"idle", "accept", "notify", "drain", "emit", "handing", "emitted", "dead", "delete", "unlink"}]
      /\ shot \in [Workers -> Pub!Shots \cup {NoKey}] /\ files \in [Pub!Actors -> SUBSET Pub!Shots]
      /\ holding \in [Pub!Actors -> Pub!Publication \cup {Pub!NoPublication}]
  BY <1>t DEF Pub!TypeOK
<1> USE PublicationAssumption DEF Pub!ActorAssumption, Pub!KeyAssumption,
       Pub!Actors, Pub!Shots, Pub!Goto, Pub!Leave,
       Pub!ToDelete, Pub!diskVars, Pub!assemblerVars,
       Pub!expiryVars, Pub!publicationVars, Pub!workerVars,
       Pub!threadVars, Pub!handoffVars, Pub!guiVars
<1>1. CASE Pub!Decode(w)
  <2>1. (onDisk \subseteq Pub!Shots /\ claimed \subseteq Pub!Shots /\ accepted \subseteq Pub!Shots /\ deferred \subseteq accepted /\ handed \subseteq Pub!Shots /\ refused \subseteq Pub!Shots)'
    BY <1>1, <1>t DEF Pub!TypeOK, Pub!Decode
  <2>2. (frontier \in 0..MaxKey /\ stream \in {"new", "open", "done", "barred"} /\ group \subseteq Fragments /\ token \in Nat /\ {sourceGate, pending, applied} \subseteq 0..MaxKey)'
    BY <1>1, <1>t DEF Pub!TypeOK, Pub!Decode
  <2>3. (armed \in BOOLEAN /\ active \in BOOLEAN /\ stopped \in BOOLEAN /\ raised \in BOOLEAN /\ shutdown \in {"running", "stopping", "flushed", "closed"})'
    BY <1>1, <1>t DEF Pub!TypeOK, Pub!Decode
  <2>4. (queue \in Seq(Pub!Publication))'
    BY <1>1, <1>t DEF Pub!TypeOK, Pub!Decode
  <2>5. (pc \in [Pub!Actors -> {"idle", "accept", "notify", "drain", "emit", "handing", "emitted", "dead", "delete", "unlink"}])'
    BY <1>1, <1>t DEF Pub!TypeOK, Pub!Decode
  <2>6. (shot \in [Workers -> Pub!Shots \cup {NoKey}] /\ files \in [Pub!Actors -> SUBSET Pub!Shots] /\ holding \in [Pub!Actors -> Pub!Publication \cup {Pub!NoPublication}])'
    BY <1>1, <1>t DEF Pub!TypeOK, Pub!Decode
  <2>7. Pub!PublisherInvariant'
    BY <1>1, <1>p, <1>f DEF Pub!PublisherInvariant, Pub!OnePublisher,
       Pub!Publishing, Pub!Decode
  <2>8. Pub!ClaimInvariant'
    BY <1>1, <1>c, <1>f DEF Pub!ClaimInvariant, Pub!Decode
  <2>9. Pub!WithinFrontier'
    BY <1>1, <1>g, <1>f DEF Pub!WithinFrontier, Pub!Decode
  <2>10. Pub!OpenGroup'
    BY <1>1, <1>h, <1>f DEF Pub!OpenGroup, Pub!Decode
  <2>11. Pub!HandedInOrder'
    BY <1>1, <1>o, <1>f DEF Pub!HandedInOrder, Pub!Decode
  <2>12. Pub!QueueInOrder'
    BY <1>1, <1>q, <1>f DEF Pub!QueueInOrder, Pub!InTurn, Pub!Decode
  <2>13. Pub!EmittingInOrder'
    BY <1>1, <1>e, <1>f DEF Pub!EmittingInOrder, Pub!InTurn,
       Pub!Emitting, Pub!Decode
  <2>14. Pub!AwaitInvariant'
    BY <1>1, <1>a, <1>f DEF Pub!AwaitInvariant, Pub!Awaited,
       Pub!Emitting, Pub!Decode
  <2>15. Pub!QueueTimely'
    BY <1>1, <1>m, <1>f DEF Pub!QueueTimely, Pub!Timely, Pub!Decode
  <2>16. Pub!HoldingTimely'
    BY <1>1, <1>n, <1>f DEF Pub!HoldingTimely, Pub!Timely,
       Pub!Emitting, Pub!Decode
  <2>17. Pub!DeletedAfterOwnHandoff'
    BY <1>1, <1>d, <1>f DEF Pub!DeletedAfterOwnHandoff, Pub!Decode
  <2>18. Pub!FilesHandedOver'
    BY <1>1, <1>d2, <1>f DEF Pub!FilesHandedOver, Pub!HandedOver,
       Pub!Decode
  <2>19. Pub!AppliedInTime'
    BY <1>1, <1>d3, <1>f DEF Pub!AppliedInTime, Pub!Decode
  <2> QED BY <2>1, <2>2, <2>3, <2>4, <2>5, <2>6, <2>7, <2>8, <2>9, <2>10, <2>11, <2>12,
         <2>13,
     <2>14, <2>15, <2>16, <2>17, <2>18, <2>19 DEF Pub!PublicationInvariant, Pub!TypeOK
<1>2. CASE Pub!AcceptSnapshot(w) /\ shot[w] > frontier
  <2>a. /\ w \in Pub!Actors /\ pc[w] = "accept" /\ shot[w] \in Pub!Shots
        /\ shot[w] \in onDisk \cap claimed /\ shot[w] \notin accepted \cup group
        /\ \A a \in Pub!Actors : shot[w] \notin files[a]
    BY <1>2, <1>c, <1>t DEF Pub!ClaimInvariant, Pub!TypeOK,
       Pub!AcceptSnapshot
  <2>s. shot[w] \in Pub!Shots
    BY <2>a
  <2>k. shot[w] \in Nat /\ frontier \in Nat /\ accepted \subseteq Nat
    BY <2>s, <1>t DEF Pub!TypeOK
  <2>l. shot[w] > frontier /\ ~ (shot[w] <= frontier)
    BY <1>2, <2>k
  <2>b. /\ Pub!Accept(w, shot[w], group \cup {shot[w]}) /\ frontier' = shot[w]
        /\ stream' = IF stream = "new" THEN "new" ELSE "barred"
        /\ UNCHANGED <<Pub!diskVars, stopped, Pub!handoffVars, Pub!guiVars, raised>>
    <3>1. Pub!Accept(w, shot[w], group \cup {shot[w]})
      BY <1>2, <2>l, Zenon DEF Pub!AcceptSnapshot
    <3>2. frontier' = shot[w] /\ stream' = IF stream = "new" THEN "new" ELSE "barred"
      BY <1>2, <2>l, Zenon DEF Pub!AcceptSnapshot
    <3>3. UNCHANGED <<Pub!diskVars, stopped, Pub!handoffVars, Pub!guiVars, raised>>
      BY <1>2, Zenon DEF Pub!AcceptSnapshot
    <3> QED BY <3>1, <3>2, <3>3, Zenon
  <2>bf. frontier' = shot[w] /\ stream' = IF stream = "new" THEN "new" ELSE "barred"
    BY <2>b, Zenon
  <2>bu. UNCHANGED <<Pub!diskVars, stopped, Pub!handoffVars, Pub!guiVars, raised>>
    BY <2>b, Zenon
  <2>ba. Pub!Accept(w, shot[w], group \cup {shot[w]})
    BY <2>b, Zenon
  <2>d. \A j \in accepted : j < shot[w]
    BY <2>l, <2>k, <1>g DEF Pub!WithinFrontier
  <2>e. (group \cup {shot[w]}) \in SUBSET Pub!Shots
    BY <1>t, <2>s DEF Pub!TypeOK
  <2>g. (group \cup {shot[w]}) \cap accepted = {}
    BY <1>c, <2>a DEF Pub!ClaimInvariant
  <2>v. w \in Workers /\ pc[w] = "accept" /\ shot[w] \in onDisk /\ \A a \in Pub!Actors : shot[w] \notin files[a]
    BY <2>a
  <2>x. /\ Pub!HandedInOrder' /\ Pub!QueueInOrder' /\ Pub!EmittingInOrder' /\ Pub!AwaitInvariant'
        /\ Pub!QueueTimely' /\ Pub!HoldingTimely'
        /\ Pub!DeletedAfterOwnHandoff' /\ Pub!FilesHandedOver' /\ Pub!AppliedInTime'
        /\ queue' \in Seq(Pub!Publication) /\ token' \in Nat
    BY <2>v, <2>s, <2>ba, <2>bu, <2>d, <2>e, <2>g, AcceptKeeps
  <2>y. /\ accepted' = accepted \cup {shot[w]} /\ deferred' = (IF active THEN deferred \cup {shot[w]} ELSE deferred)
        /\ group' = {} /\ armed' = FALSE /\ UNCHANGED <<shot, holding>>
        /\ files' = [files EXCEPT ![w] = group \cup {shot[w]}]
    BY <2>b DEF Pub!Accept, Pub!CancelExpiry
  <2>1. (onDisk \subseteq Pub!Shots /\ claimed \subseteq Pub!Shots /\ accepted \subseteq Pub!Shots /\ deferred \subseteq accepted /\ handed \subseteq Pub!Shots /\ refused \subseteq Pub!Shots)'
    <3>1. UNCHANGED <<onDisk, claimed, handed, refused>>
      BY <2>bu
    <3>2. accepted' \subseteq Pub!Shots /\ deferred' \subseteq accepted'
      BY <1>t, <2>s, <2>y DEF Pub!TypeOK
    <3> QED BY <3>1, <3>2, <1>t DEF Pub!TypeOK
  <2>2. (frontier \in 0..MaxKey /\ stream \in {"new", "open", "done", "barred"} /\ group \subseteq Fragments /\ token \in Nat /\ {sourceGate, pending, applied} \subseteq 0..MaxKey)'
    <3>1. frontier' \in 0..MaxKey
      BY <2>bf, <2>s
    <3>2. stream' \in {"new", "open", "done", "barred"} /\ group' \subseteq Fragments
      BY <2>bf, <2>y, <1>t DEF Pub!TypeOK
    <3>3. token' \in Nat
      BY <2>x
    <3>4. UNCHANGED <<sourceGate, pending, applied>>
      BY <2>bu
    <3> QED BY <3>1, <3>2, <3>3, <3>4, <1>t DEF Pub!TypeOK
  <2>3. (armed \in BOOLEAN /\ active \in BOOLEAN /\ stopped \in BOOLEAN /\ raised \in BOOLEAN /\ shutdown \in {"running", "stopping", "flushed", "closed"})'
    BY <1>2, <1>t DEF Pub!TypeOK, Pub!AcceptSnapshot, Pub!Accept,
       Pub!CancelExpiry, Pub!QueuePublication, Pub!BecomesPublisher,
       Pub!Snapshot
  <2>4. (queue \in Seq(Pub!Publication))'
    BY <2>x
  <2>5. (pc \in [Pub!Actors -> {"idle", "accept", "notify", "drain", "emit", "handing", "emitted", "dead", "delete", "unlink"}])'
    BY <1>2, <1>t DEF Pub!TypeOK, Pub!AcceptSnapshot, Pub!Accept,
       Pub!CancelExpiry, Pub!QueuePublication, Pub!BecomesPublisher,
       Pub!Snapshot
  <2>6. (shot \in [Workers -> Pub!Shots \cup {NoKey}] /\ files \in [Pub!Actors -> SUBSET Pub!Shots] /\ holding \in [Pub!Actors -> Pub!Publication \cup {Pub!NoPublication}])'
    BY <1>f, <2>e, <2>y
  <2>7. Pub!PublisherInvariant'
    BY <1>2, <1>p, <1>f DEF Pub!PublisherInvariant, Pub!OnePublisher,
       Pub!Publishing, Pub!AcceptSnapshot, Pub!Accept,
       Pub!CancelExpiry, Pub!QueuePublication, Pub!BecomesPublisher,
       Pub!Snapshot
  <2>8. Pub!ClaimInvariant'
    BY <1>2, <1>c, <1>f DEF Pub!ClaimInvariant, Pub!AcceptSnapshot,
       Pub!Accept, Pub!CancelExpiry, Pub!QueuePublication,
       Pub!BecomesPublisher, Pub!Snapshot
  <2>9. Pub!WithinFrontier'
    <3>1. frontier' = shot[w]
      BY <2>bf
    <3>2. \A j \in accepted' \cup group' : j <= frontier'
      BY <3>1, <2>d, <2>k, <2>y
    <3>3. group' = {} /\ armed' = FALSE
      BY <2>y
    <3> QED BY <3>2, <3>3 DEF Pub!WithinFrontier
  <2>10. Pub!OpenGroup'
    BY <1>2, <1>h, <1>f DEF Pub!OpenGroup, Pub!AcceptSnapshot,
       Pub!Accept, Pub!CancelExpiry, Pub!QueuePublication,
       Pub!BecomesPublisher, Pub!Snapshot
  <2>11. Pub!HandedInOrder'
    BY <2>x
  <2>12. Pub!QueueInOrder'
    BY <2>x
  <2>13. Pub!EmittingInOrder'
    BY <2>x
  <2>14. Pub!AwaitInvariant'
    BY <2>x
  <2>15. Pub!QueueTimely'
    BY <2>x
  <2>16. Pub!HoldingTimely'
    BY <2>x
  <2>17. Pub!DeletedAfterOwnHandoff'
    BY <2>x
  <2>18. Pub!FilesHandedOver'
    BY <2>x
  <2>19. Pub!AppliedInTime'
    BY <2>x
  <2> QED BY <2>1, <2>2, <2>3, <2>4, <2>5, <2>6, <2>7, <2>8, <2>9, <2>10, <2>11, <2>12,
         <2>13,
     <2>14, <2>15, <2>16, <2>17, <2>18, <2>19 DEF Pub!PublicationInvariant, Pub!TypeOK
<1>3. CASE Pub!AcceptSnapshot(w) /\ ~ (shot[w] > frontier)
  <2>1. (onDisk \subseteq Pub!Shots /\ claimed \subseteq Pub!Shots /\ accepted \subseteq Pub!Shots /\ deferred \subseteq accepted /\ handed \subseteq Pub!Shots /\ refused \subseteq Pub!Shots)'
    BY <1>3, <1>t DEF Pub!TypeOK, Pub!AcceptSnapshot
  <2>2. (frontier \in 0..MaxKey /\ stream \in {"new", "open", "done", "barred"} /\ group \subseteq Fragments /\ token \in Nat /\ {sourceGate, pending, applied} \subseteq 0..MaxKey)'
    BY <1>3, <1>t DEF Pub!TypeOK, Pub!AcceptSnapshot
  <2>3. (armed \in BOOLEAN /\ active \in BOOLEAN /\ stopped \in BOOLEAN /\ raised \in BOOLEAN /\ shutdown \in {"running", "stopping", "flushed", "closed"})'
    BY <1>3, <1>t DEF Pub!TypeOK, Pub!AcceptSnapshot
  <2>4. (queue \in Seq(Pub!Publication))'
    BY <1>3, <1>t DEF Pub!TypeOK, Pub!AcceptSnapshot
  <2>5. (pc \in [Pub!Actors -> {"idle", "accept", "notify", "drain", "emit", "handing", "emitted", "dead", "delete", "unlink"}])'
    BY <1>3, <1>t DEF Pub!TypeOK, Pub!AcceptSnapshot
  <2>6. (shot \in [Workers -> Pub!Shots \cup {NoKey}] /\ files \in [Pub!Actors -> SUBSET Pub!Shots] /\ holding \in [Pub!Actors -> Pub!Publication \cup {Pub!NoPublication}])'
    <3>1. UNCHANGED <<shot, holding>> /\ files' = [files EXCEPT ![w] = {shot[w]}] /\ shot[w] \in onDisk
      BY <1>3, <1>c DEF Pub!AcceptSnapshot, Pub!ClaimInvariant
    <3>2. shot[w] \in Pub!Shots
      BY <3>1, <1>t DEF Pub!TypeOK
    <3> QED BY <3>1, <3>2, <1>f
  <2>7. Pub!PublisherInvariant'
    BY <1>3, <1>p, <1>f DEF Pub!PublisherInvariant, Pub!OnePublisher,
       Pub!Publishing, Pub!AcceptSnapshot
  <2>8. Pub!ClaimInvariant'
    BY <1>3, <1>c, <1>f DEF Pub!ClaimInvariant, Pub!AcceptSnapshot
  <2>9. Pub!WithinFrontier'
    BY <1>3, <1>g, <1>f DEF Pub!WithinFrontier, Pub!AcceptSnapshot
  <2>10. Pub!OpenGroup'
    BY <1>3, <1>h, <1>f DEF Pub!OpenGroup, Pub!AcceptSnapshot
  <2>11. Pub!HandedInOrder'
    BY <1>3, <1>o, <1>f DEF Pub!HandedInOrder, Pub!AcceptSnapshot
  <2>12. Pub!QueueInOrder'
    BY <1>3, <1>q, <1>f DEF Pub!QueueInOrder, Pub!InTurn,
       Pub!AcceptSnapshot
  <2>13. Pub!EmittingInOrder'
    BY <1>3, <1>e, <1>f DEF Pub!EmittingInOrder, Pub!InTurn,
       Pub!Emitting, Pub!AcceptSnapshot
  <2>14. Pub!AwaitInvariant'
    BY <1>3, <1>a, <1>f DEF Pub!AwaitInvariant, Pub!Awaited,
       Pub!Emitting, Pub!AcceptSnapshot
  <2>15. Pub!QueueTimely'
    BY <1>3, <1>m, <1>f DEF Pub!QueueTimely, Pub!Timely,
       Pub!AcceptSnapshot
  <2>16. Pub!HoldingTimely'
    BY <1>3, <1>n, <1>f DEF Pub!HoldingTimely, Pub!Timely,
       Pub!Emitting, Pub!AcceptSnapshot
  <2>17. Pub!DeletedAfterOwnHandoff'
    BY <1>3, <1>d, <1>f DEF Pub!DeletedAfterOwnHandoff, Pub!AcceptSnapshot
  <2>18. Pub!FilesHandedOver'
    <3>1. shot[w] \notin accepted
      BY <1>3, <1>c DEF Pub!ClaimInvariant, Pub!AcceptSnapshot
    <3> QED BY <3>1, <1>3, <1>d2, <1>f DEF Pub!FilesHandedOver,
           Pub!HandedOver, Pub!AcceptSnapshot
  <2>19. Pub!AppliedInTime'
    BY <1>3, <1>d3, <1>f DEF Pub!AppliedInTime, Pub!AcceptSnapshot
  <2> QED BY <2>1, <2>2, <2>3, <2>4, <2>5, <2>6, <2>7, <2>8, <2>9, <2>10, <2>11, <2>12,
         <2>13,
     <2>14, <2>15, <2>16, <2>17, <2>18, <2>19 DEF Pub!PublicationInvariant, Pub!TypeOK
<1>4. CASE Pub!HoldFragment(w)
  <2>a. /\ w \in Pub!Actors /\ pc[w] = "accept" /\ shot[w] \in Pub!Shots
        /\ shot[w] \in onDisk \cap claimed /\ shot[w] \notin accepted \cup group
        /\ \A a \in Pub!Actors : shot[w] \notin files[a]
    BY <1>4, <1>c, <1>t DEF Pub!ClaimInvariant, Pub!TypeOK,
       Pub!HoldFragment
  <2>b. /\ group' = group \cup {shot[w]} /\ stream' = "open" /\ Pub!Advance(shot[w])
        /\ Pub!JoinsGroup(shot[w]) /\ shot[w] \in Fragments /\ UNCHANGED <<accepted, claimed>>
        /\ pc' = [pc EXCEPT ![w] = "idle"] /\ shot' = [shot EXCEPT ![w] = NoKey]
        /\ token' \in Nat
    BY <1>4, <1>t DEF Pub!HoldFragment, Pub!TypeOK
  <2>z. frontier' \in 0..MaxKey /\ frontier <= frontier' /\ shot[w] <= frontier'
        /\ frontier' \in {frontier, shot[w]}
    BY <2>a, <2>b, <1>t, <1>g DEF Pub!Advance, Pub!TypeOK,
       Pub!WithinFrontier
  <2>1. (onDisk \subseteq Pub!Shots /\ claimed \subseteq Pub!Shots /\ accepted \subseteq Pub!Shots /\ deferred \subseteq accepted /\ handed \subseteq Pub!Shots /\ refused \subseteq Pub!Shots)'
    BY <1>4, <1>t DEF Pub!TypeOK, Pub!HoldFragment, Pub!JoinsGroup,
       Pub!Advance
  <2>2. (frontier \in 0..MaxKey /\ stream \in {"new", "open", "done", "barred"} /\ group \subseteq Fragments /\ token \in Nat /\ {sourceGate, pending, applied} \subseteq 0..MaxKey)'
    BY <1>4, <1>t, <2>a, <2>b, <2>z DEF Pub!TypeOK, Pub!HoldFragment
  <2>3. (armed \in BOOLEAN /\ active \in BOOLEAN /\ stopped \in BOOLEAN /\ raised \in BOOLEAN /\ shutdown \in {"running", "stopping", "flushed", "closed"})'
    BY <1>4, <1>t DEF Pub!TypeOK, Pub!HoldFragment, Pub!JoinsGroup,
       Pub!Advance
  <2>4. (queue \in Seq(Pub!Publication))'
    BY <1>4, <1>t DEF Pub!TypeOK, Pub!HoldFragment, Pub!JoinsGroup,
       Pub!Advance
  <2>5. (pc \in [Pub!Actors -> {"idle", "accept", "notify", "drain", "emit", "handing", "emitted", "dead", "delete", "unlink"}])'
    BY <1>4, <1>t DEF Pub!TypeOK, Pub!HoldFragment, Pub!JoinsGroup,
       Pub!Advance
  <2>6. (shot \in [Workers -> Pub!Shots \cup {NoKey}] /\ files \in [Pub!Actors -> SUBSET Pub!Shots] /\ holding \in [Pub!Actors -> Pub!Publication \cup {Pub!NoPublication}])'
    BY <1>4, <1>t DEF Pub!TypeOK, Pub!HoldFragment, Pub!JoinsGroup,
       Pub!Advance
  <2>7. Pub!PublisherInvariant'
    BY <1>4, <1>p, <1>f DEF Pub!PublisherInvariant, Pub!OnePublisher,
       Pub!Publishing, Pub!HoldFragment, Pub!JoinsGroup,
       Pub!Advance
  <2>8. Pub!ClaimInvariant'
    BY <1>4, <1>c, <1>f DEF Pub!ClaimInvariant, Pub!HoldFragment,
       Pub!JoinsGroup, Pub!Advance
  <2>9. Pub!WithinFrontier'
    BY <1>4, <2>a, <2>b, <2>z, <1>g, <1>t, <1>c DEF Pub!WithinFrontier,
       Pub!TypeOK, Pub!ClaimInvariant, Pub!HoldFragment
  <2>10. Pub!OpenGroup'
    <3>1. CASE stream = "open"
      <4>1. CASE frontier \in group \ accepted
        BY <4>1, <2>a, <2>b, <2>z DEF Pub!OpenGroup
      <4>2. ASSUME NEW k \in claimed \cap Fragments, k \notin group,
                   \A v \in Workers : pc[v] = "accept" => shot[v] # k
            PROVE  Pub!OpenGroup'
        <5>1. k \notin group' /\ k \in claimed' \cap Fragments
          BY <4>2, <2>a, <2>b
        <5>2. \A v \in Workers : pc'[v] = "accept" => shot'[v] # k
          BY <4>2, <2>b, <1>f
        <5> QED BY <5>1, <5>2 DEF Pub!OpenGroup
      <4> QED BY <3>1, <4>1, <4>2, <1>h DEF Pub!OpenGroup
    <3>2. CASE stream # "open"
      <4>1. frontier' = shot[w]
        BY <3>2, <2>b DEF Pub!JoinsGroup, Pub!Advance
      <4> QED BY <4>1, <2>a, <2>b DEF Pub!OpenGroup
    <3> QED BY <3>1, <3>2
  <2>11. Pub!HandedInOrder'
    BY <1>4, <1>o, <1>f DEF Pub!HandedInOrder, Pub!HoldFragment,
       Pub!JoinsGroup, Pub!Advance
  <2>12. Pub!QueueInOrder'
    BY <1>4, <1>q, <1>f DEF Pub!QueueInOrder, Pub!InTurn,
       Pub!HoldFragment, Pub!JoinsGroup, Pub!Advance
  <2>13. Pub!EmittingInOrder'
    BY <1>4, <1>e, <1>f DEF Pub!EmittingInOrder, Pub!InTurn,
       Pub!Emitting, Pub!HoldFragment, Pub!JoinsGroup,
       Pub!Advance
  <2>14. Pub!AwaitInvariant'
    BY <1>4, <1>a, <1>f DEF Pub!AwaitInvariant, Pub!Awaited,
       Pub!Emitting, Pub!HoldFragment, Pub!JoinsGroup,
       Pub!Advance
  <2>15. Pub!QueueTimely'
    <3>1. UNCHANGED <<queue, accepted>> /\ (token' = token \/ token' = token + 1)
      BY <1>4 DEF Pub!HoldFragment
    <3> QED BY <3>1, <1>t, <1>m, <1>n, QueueStaysTimely
  <2>16. Pub!HoldingTimely'
    <3>1. UNCHANGED <<handed, accepted>> /\ (token' = token \/ token' = token + 1)
      BY <1>4 DEF Pub!HoldFragment
    <3>2. \A b \in Pub!Actors :
             \/ holding'[b] = Pub!NoPublication
             \/ holding'[b] = holding[b] /\ (Pub!Emitting(b)' => Pub!Emitting(b))
      BY <1>4, <1>f DEF Pub!HoldFragment, Pub!Emitting
    <3> QED BY <3>1, <3>2, <1>t, <1>n, HoldingStaysTimely
  <2>17. Pub!DeletedAfterOwnHandoff'
    BY <1>4, <1>d, <1>f DEF Pub!DeletedAfterOwnHandoff, Pub!HoldFragment,
       Pub!JoinsGroup, Pub!Advance
  <2>18. Pub!FilesHandedOver'
    BY <1>4, <1>d2, <1>f DEF Pub!FilesHandedOver, Pub!HandedOver,
       Pub!HoldFragment, Pub!JoinsGroup, Pub!Advance
  <2>19. Pub!AppliedInTime'
    BY <1>4, <1>d3, <1>f DEF Pub!AppliedInTime, Pub!HoldFragment,
       Pub!JoinsGroup, Pub!Advance
  <2> QED BY <2>1, <2>2, <2>3, <2>4, <2>5, <2>6, <2>7, <2>8, <2>9, <2>10, <2>11, <2>12,
         <2>13,
     <2>14, <2>15, <2>16, <2>17, <2>18, <2>19 DEF Pub!PublicationInvariant, Pub!TypeOK
<1>5. CASE Pub!CompleteFragments(w)
  <2>a. /\ w \in Pub!Actors /\ pc[w] = "accept" /\ shot[w] \in Pub!Shots
        /\ shot[w] \in onDisk \cap claimed /\ shot[w] \notin accepted \cup group
        /\ \A a \in Pub!Actors : shot[w] \notin files[a]
    BY <1>5, <1>c, <1>t DEF Pub!ClaimInvariant, Pub!TypeOK,
       Pub!CompleteFragments
  <2> DEFINE k == Pub!Newest(Fragments)
  <2>b. /\ Pub!Accept(w, k, Fragments) /\ group \cup {shot[w]} = Fragments /\ Pub!JoinsGroup(shot[w])
        /\ stream' = "done" /\ Pub!Advance(shot[w])
        /\ UNCHANGED <<Pub!diskVars, stopped, Pub!handoffVars, Pub!guiVars, raised>>
    BY <1>5 DEF Pub!CompleteFragments
  <2>n. k \in group \cup {shot[w]} /\ k \in Pub!Shots /\ \A j \in Fragments : j <= k
    <3>1. Fragments \in SUBSET Pub!Shots /\ Fragments # {}
      BY <2>b
    <3> QED BY <3>1, <2>b, NewestExists
  <2> HIDE DEF k
  <2>d. \A j \in accepted : j < k
    <3>1. CASE stream = "open"
      <4>1. frontier \in group \ accepted
        BY <3>1, <2>a, <2>b, <1>h DEF Pub!OpenGroup
      <4>2. frontier <= k /\ frontier \in Nat /\ \A j \in accepted : j <= frontier /\ j \in Nat
        BY <4>1, <2>b, <2>n, <1>g, <1>t DEF Pub!WithinFrontier, Pub!TypeOK
      <4> QED BY <4>1, <4>2, <2>n
    <3>2. CASE stream # "open"
      <4>1. shot[w] > frontier /\ shot[w] <= k
        BY <3>2, <2>b, <2>n DEF Pub!JoinsGroup
      <4> QED BY <4>1, <2>a, <2>n, <1>g, <1>t DEF Pub!WithinFrontier,
             Pub!TypeOK
    <3> QED BY <3>1, <3>2
  <2>e. /\ Fragments \in SUBSET Pub!Shots /\ Fragments \cap accepted = {} /\ k \in onDisk \cap claimed
        /\ \A a \in Pub!Actors : k \notin files[a]
    BY <1>c, <2>a, <2>b, <2>n DEF Pub!ClaimInvariant
  <2>x. /\ Pub!HandedInOrder' /\ Pub!QueueInOrder' /\ Pub!EmittingInOrder' /\ Pub!AwaitInvariant'
        /\ Pub!QueueTimely' /\ Pub!HoldingTimely'
        /\ Pub!DeletedAfterOwnHandoff' /\ Pub!FilesHandedOver' /\ Pub!AppliedInTime'
        /\ queue' \in Seq(Pub!Publication) /\ token' \in Nat
    BY <2>a, <2>b, <2>d, <2>e, <2>n, AcceptKeeps
  <2>y. /\ accepted' = accepted \cup {k} /\ deferred' = (IF active THEN deferred \cup {k} ELSE deferred)
        /\ group' = {} /\ armed' = FALSE /\ UNCHANGED <<shot, holding>>
        /\ files' = [files EXCEPT ![w] = Fragments]
        /\ \A a \in Pub!Actors : a # w => pc'[a] = pc[a]
        /\ pc'[w] # "accept"
    BY <2>a, <2>b, <1>f DEF Pub!Accept, Pub!CancelExpiry,
       Pub!QueuePublication
  <2>z. frontier' \in 0..MaxKey /\ frontier <= frontier' /\ k <= frontier'
    BY <2>a, <2>b, <2>n, <1>t, <1>g DEF Pub!Advance, Pub!TypeOK,
       Pub!WithinFrontier
  <2>1. (onDisk \subseteq Pub!Shots /\ claimed \subseteq Pub!Shots /\ accepted \subseteq Pub!Shots /\ deferred \subseteq accepted /\ handed \subseteq Pub!Shots /\ refused \subseteq Pub!Shots)'
    BY <1>t, <2>b, <2>n, <2>y DEF Pub!TypeOK
  <2>2. (frontier \in 0..MaxKey /\ stream \in {"new", "open", "done", "barred"} /\ group \subseteq Fragments /\ token \in Nat /\ {sourceGate, pending, applied} \subseteq 0..MaxKey)'
    BY <1>t, <2>b, <2>x, <2>y, <2>z DEF Pub!TypeOK
  <2>3. (armed \in BOOLEAN /\ active \in BOOLEAN /\ stopped \in BOOLEAN /\ raised \in BOOLEAN /\ shutdown \in {"running", "stopping", "flushed", "closed"})'
    BY <1>5, <1>t DEF Pub!TypeOK, Pub!CompleteFragments,
       Pub!JoinsGroup, Pub!Advance, Pub!Accept,
       Pub!CancelExpiry, Pub!QueuePublication, Pub!BecomesPublisher,
       Pub!Snapshot
  <2>4. (queue \in Seq(Pub!Publication))'
    BY <2>x
  <2>5. (pc \in [Pub!Actors -> {"idle", "accept", "notify", "drain", "emit", "handing", "emitted", "dead", "delete", "unlink"}])'
    BY <1>5, <1>t DEF Pub!TypeOK, Pub!CompleteFragments,
       Pub!JoinsGroup, Pub!Advance, Pub!Accept,
       Pub!CancelExpiry, Pub!QueuePublication, Pub!BecomesPublisher,
       Pub!Snapshot
  <2>6. (shot \in [Workers -> Pub!Shots \cup {NoKey}] /\ files \in [Pub!Actors -> SUBSET Pub!Shots] /\ holding \in [Pub!Actors -> Pub!Publication \cup {Pub!NoPublication}])'
    BY <1>f, <2>a, <2>b, <2>e, <2>y
  <2>7. Pub!PublisherInvariant'
    BY <1>5, <1>p, <1>f DEF Pub!PublisherInvariant, Pub!OnePublisher,
       Pub!Publishing, Pub!CompleteFragments, Pub!JoinsGroup,
       Pub!Advance, Pub!Accept, Pub!CancelExpiry,
       Pub!QueuePublication, Pub!BecomesPublisher, Pub!Snapshot
  <2>8. Pub!ClaimInvariant'
    <3>1. /\ files'[w] = Fragments /\ \A a \in Pub!Actors : a # w => files'[a] = files[a]
          /\ UNCHANGED <<onDisk, claimed>>
      BY <2>a, <2>b, <2>y, <1>f
    <3>2. Fragments \subseteq claimed
      BY <2>a, <2>b, <1>c DEF Pub!ClaimInvariant
    <3>3. \A v \in Workers : pc'[v] = "accept" => v # w /\ pc[v] = "accept" /\ v \in Pub!Actors
      BY <2>y
    <3>4. \A v \in Workers : pc'[v] = "accept" => shot[v] \notin Fragments
      BY <3>3, <2>a, <2>b, <1>c DEF Pub!ClaimInvariant
    <3>5. accepted' \cup group' \subseteq claimed' /\ group' \subseteq onDisk' \ accepted'
      <4>1. accepted' = accepted \cup {k} /\ group' = {} /\ k \in claimed
        BY <2>y, <2>e
      <4> QED BY <4>1, <3>1, <1>c DEF Pub!ClaimInvariant
    <3>6. \A a \in Pub!Actors : files'[a] \subseteq claimed' /\ files'[a] \cap group' = {}
      <4>1. group' = {}
        BY <2>y
      <4> QED BY <4>1, <3>1, <3>2, <1>c DEF Pub!ClaimInvariant
    <3>7. ASSUME NEW v \in Workers, pc'[v] = "accept"
          PROVE  /\ shot'[v] \in (onDisk' \cap claimed') \ (accepted' \cup group')
                 /\ \A a \in Pub!Actors : shot'[v] \notin files'[a]
                 /\ \A u \in Workers : pc'[u] = "accept" /\ shot'[u] = shot'[v] => u = v
      <4>1. pc[v] = "accept" /\ shot[v] \notin Fragments /\ shot' = shot
        BY <3>3, <3>4, <3>7, <2>y
      <4>2. /\ shot[v] \in (onDisk \cap claimed) \ (accepted \cup group)
            /\ \A a \in Pub!Actors : shot[v] \notin files[a]
            /\ \A u \in Workers : pc[u] = "accept" /\ shot[u] = shot[v] => u = v
        BY <4>1, <1>c DEF Pub!ClaimInvariant
      <4>3. k \in Fragments /\ accepted' = accepted \cup {k} /\ group' = {}
        BY <2>n, <2>b, <2>y
      <4>4. shot'[v] \in (onDisk' \cap claimed') \ (accepted' \cup group')
        BY <4>1, <4>2, <4>3, <3>1
      <4>5. \A a \in Pub!Actors : shot'[v] \notin files'[a]
        BY <4>1, <4>2, <3>1
      <4> QED BY <4>1, <4>2, <4>4, <4>5, <3>3
    <3> QED BY <3>5, <3>6, <3>7 DEF Pub!ClaimInvariant
  <2>9. Pub!WithinFrontier'
    BY <2>b, <2>n, <2>y, <2>z, <1>g, <1>t DEF Pub!WithinFrontier, Pub!TypeOK
  <2>10. Pub!OpenGroup'
    BY <1>5, <1>h, <1>f DEF Pub!OpenGroup, Pub!CompleteFragments,
       Pub!JoinsGroup, Pub!Advance, Pub!Accept,
       Pub!CancelExpiry, Pub!QueuePublication, Pub!BecomesPublisher,
       Pub!Snapshot
  <2>11. Pub!HandedInOrder'
    BY <2>x
  <2>12. Pub!QueueInOrder'
    BY <2>x
  <2>13. Pub!EmittingInOrder'
    BY <2>x
  <2>14. Pub!AwaitInvariant'
    BY <2>x
  <2>15. Pub!QueueTimely'
    BY <2>x
  <2>16. Pub!HoldingTimely'
    BY <2>x
  <2>17. Pub!DeletedAfterOwnHandoff'
    BY <2>x
  <2>18. Pub!FilesHandedOver'
    BY <2>x
  <2>19. Pub!AppliedInTime'
    BY <2>x
  <2> QED BY <2>1, <2>2, <2>3, <2>4, <2>5, <2>6, <2>7, <2>8, <2>9, <2>10, <2>11, <2>12,
         <2>13,
     <2>14, <2>15, <2>16, <2>17, <2>18, <2>19 DEF Pub!PublicationInvariant, Pub!TypeOK
<1>6. CASE Pub!PoisonFragments(w)
  <2>1. (onDisk \subseteq Pub!Shots /\ claimed \subseteq Pub!Shots /\ accepted \subseteq Pub!Shots /\ deferred \subseteq accepted /\ handed \subseteq Pub!Shots /\ refused \subseteq Pub!Shots)'
    BY <1>6, <1>t DEF Pub!TypeOK, Pub!PoisonFragments,
       Pub!JoinsGroup, Pub!Advance, Pub!CancelExpiry
  <2>2. (frontier \in 0..MaxKey /\ stream \in {"new", "open", "done", "barred"} /\ group \subseteq Fragments /\ token \in Nat /\ {sourceGate, pending, applied} \subseteq 0..MaxKey)'
    BY <1>6, <1>t DEF Pub!TypeOK, Pub!PoisonFragments,
       Pub!JoinsGroup, Pub!Advance, Pub!CancelExpiry
  <2>3. (armed \in BOOLEAN /\ active \in BOOLEAN /\ stopped \in BOOLEAN /\ raised \in BOOLEAN /\ shutdown \in {"running", "stopping", "flushed", "closed"})'
    BY <1>6, <1>t DEF Pub!TypeOK, Pub!PoisonFragments,
       Pub!JoinsGroup, Pub!Advance, Pub!CancelExpiry
  <2>4. (queue \in Seq(Pub!Publication))'
    BY <1>6, <1>t DEF Pub!TypeOK, Pub!PoisonFragments,
       Pub!JoinsGroup, Pub!Advance, Pub!CancelExpiry
  <2>5. (pc \in [Pub!Actors -> {"idle", "accept", "notify", "drain", "emit", "handing", "emitted", "dead", "delete", "unlink"}])'
    BY <1>6, <1>t DEF Pub!TypeOK, Pub!PoisonFragments,
       Pub!JoinsGroup, Pub!Advance, Pub!CancelExpiry
  <2>6. (shot \in [Workers -> Pub!Shots \cup {NoKey}] /\ files \in [Pub!Actors -> SUBSET Pub!Shots] /\ holding \in [Pub!Actors -> Pub!Publication \cup {Pub!NoPublication}])'
    BY <1>6, <1>t DEF Pub!TypeOK, Pub!PoisonFragments,
       Pub!JoinsGroup, Pub!Advance, Pub!CancelExpiry
  <2>7. Pub!PublisherInvariant'
    BY <1>6, <1>p, <1>f DEF Pub!PublisherInvariant, Pub!OnePublisher,
       Pub!Publishing, Pub!PoisonFragments, Pub!JoinsGroup,
       Pub!Advance, Pub!CancelExpiry
  <2>8. Pub!ClaimInvariant'
    BY <1>6, <1>c, <1>f DEF Pub!ClaimInvariant, Pub!PoisonFragments,
       Pub!JoinsGroup, Pub!Advance, Pub!CancelExpiry
  <2>9. Pub!WithinFrontier'
    <3>1. frontier <= frontier'
      BY <1>6, <1>t, <1>c DEF Pub!PoisonFragments, Pub!Advance,
         Pub!TypeOK, Pub!ClaimInvariant
    <3>2. group' = {} /\ armed' = FALSE /\ accepted' = accepted /\ frontier \in Nat /\ frontier' \in Nat /\ accepted \subseteq Nat
      BY <1>6, <1>t, <1>c DEF Pub!PoisonFragments, Pub!Advance,
         Pub!CancelExpiry, Pub!TypeOK, Pub!ClaimInvariant
    <3> QED BY <3>1, <3>2, <1>g DEF Pub!WithinFrontier
  <2>10. Pub!OpenGroup'
    BY <1>6, <1>h, <1>f DEF Pub!OpenGroup, Pub!PoisonFragments,
       Pub!JoinsGroup, Pub!Advance, Pub!CancelExpiry
  <2>11. Pub!HandedInOrder'
    BY <1>6, <1>o, <1>f DEF Pub!HandedInOrder, Pub!PoisonFragments,
       Pub!JoinsGroup, Pub!Advance, Pub!CancelExpiry
  <2>12. Pub!QueueInOrder'
    BY <1>6, <1>q, <1>f DEF Pub!QueueInOrder, Pub!InTurn,
       Pub!PoisonFragments, Pub!JoinsGroup, Pub!Advance,
       Pub!CancelExpiry
  <2>13. Pub!EmittingInOrder'
    BY <1>6, <1>e, <1>f DEF Pub!EmittingInOrder, Pub!InTurn,
       Pub!Emitting, Pub!PoisonFragments, Pub!JoinsGroup,
       Pub!Advance, Pub!CancelExpiry
  <2>14. Pub!AwaitInvariant'
    BY <1>6, <1>a, <1>f DEF Pub!AwaitInvariant, Pub!Awaited,
       Pub!Emitting, Pub!PoisonFragments, Pub!JoinsGroup,
       Pub!Advance, Pub!CancelExpiry
  <2>15. Pub!QueueTimely'
    <3>1. UNCHANGED <<queue, accepted>> /\ (token' = token \/ token' = token + 1)
      BY <1>6 DEF Pub!PoisonFragments, Pub!CancelExpiry
    <3> QED BY <3>1, <1>t, <1>m, <1>n, QueueStaysTimely
  <2>16. Pub!HoldingTimely'
    <3>1. UNCHANGED <<handed, accepted>> /\ (token' = token \/ token' = token + 1)
      BY <1>6 DEF Pub!PoisonFragments, Pub!CancelExpiry
    <3>2. \A b \in Pub!Actors :
             \/ holding'[b] = Pub!NoPublication
             \/ holding'[b] = holding[b] /\ (Pub!Emitting(b)' => Pub!Emitting(b))
      BY <1>6, <1>f DEF Pub!PoisonFragments, Pub!CancelExpiry,
         Pub!Emitting
    <3> QED BY <3>1, <3>2, <1>t, <1>n, HoldingStaysTimely
  <2>17. Pub!DeletedAfterOwnHandoff'
    BY <1>6, <1>d, <1>f DEF Pub!DeletedAfterOwnHandoff, Pub!PoisonFragments,
       Pub!JoinsGroup, Pub!Advance, Pub!CancelExpiry
  <2>18. Pub!FilesHandedOver'
    <3>1. (group \cup {shot[w]}) \cap accepted = {} /\ w \in Pub!Actors
      BY <1>6, <1>c DEF Pub!ClaimInvariant, Pub!PoisonFragments
    <3> QED BY <3>1, <1>6, <1>d2, <1>f DEF Pub!FilesHandedOver,
           Pub!HandedOver, Pub!PoisonFragments
  <2>19. Pub!AppliedInTime'
    BY <1>6, <1>d3, <1>f DEF Pub!AppliedInTime, Pub!PoisonFragments,
       Pub!JoinsGroup, Pub!Advance, Pub!CancelExpiry
  <2> QED BY <2>1, <2>2, <2>3, <2>4, <2>5, <2>6, <2>7, <2>8, <2>9, <2>10, <2>11, <2>12,
         <2>13,
     <2>14, <2>15, <2>16, <2>17, <2>18, <2>19 DEF Pub!PublicationInvariant, Pub!TypeOK
<1>7. CASE Pub!RetireFragment(w)
  <2>1. (onDisk \subseteq Pub!Shots /\ claimed \subseteq Pub!Shots /\ accepted \subseteq Pub!Shots /\ deferred \subseteq accepted /\ handed \subseteq Pub!Shots /\ refused \subseteq Pub!Shots)'
    BY <1>7, <1>t DEF Pub!TypeOK, Pub!RetireFragment
  <2>2. (frontier \in 0..MaxKey /\ stream \in {"new", "open", "done", "barred"} /\ group \subseteq Fragments /\ token \in Nat /\ {sourceGate, pending, applied} \subseteq 0..MaxKey)'
    BY <1>7, <1>t DEF Pub!TypeOK, Pub!RetireFragment
  <2>3. (armed \in BOOLEAN /\ active \in BOOLEAN /\ stopped \in BOOLEAN /\ raised \in BOOLEAN /\ shutdown \in {"running", "stopping", "flushed", "closed"})'
    BY <1>7, <1>t DEF Pub!TypeOK, Pub!RetireFragment
  <2>4. (queue \in Seq(Pub!Publication))'
    BY <1>7, <1>t DEF Pub!TypeOK, Pub!RetireFragment
  <2>5. (pc \in [Pub!Actors -> {"idle", "accept", "notify", "drain", "emit", "handing", "emitted", "dead", "delete", "unlink"}])'
    BY <1>7, <1>t DEF Pub!TypeOK, Pub!RetireFragment
  <2>6. (shot \in [Workers -> Pub!Shots \cup {NoKey}] /\ files \in [Pub!Actors -> SUBSET Pub!Shots] /\ holding \in [Pub!Actors -> Pub!Publication \cup {Pub!NoPublication}])'
    BY <1>7, <1>t DEF Pub!TypeOK, Pub!RetireFragment
  <2>7. Pub!PublisherInvariant'
    BY <1>7, <1>p, <1>f DEF Pub!PublisherInvariant, Pub!OnePublisher,
       Pub!Publishing, Pub!RetireFragment
  <2>8. Pub!ClaimInvariant'
    BY <1>7, <1>c, <1>f DEF Pub!ClaimInvariant, Pub!RetireFragment
  <2>9. Pub!WithinFrontier'
    BY <1>7, <1>g, <1>f DEF Pub!WithinFrontier, Pub!RetireFragment
  <2>10. Pub!OpenGroup'
    BY <1>7, <1>h, <1>f DEF Pub!OpenGroup, Pub!RetireFragment
  <2>11. Pub!HandedInOrder'
    BY <1>7, <1>o, <1>f DEF Pub!HandedInOrder, Pub!RetireFragment
  <2>12. Pub!QueueInOrder'
    BY <1>7, <1>q, <1>f DEF Pub!QueueInOrder, Pub!InTurn,
       Pub!RetireFragment
  <2>13. Pub!EmittingInOrder'
    BY <1>7, <1>e, <1>f DEF Pub!EmittingInOrder, Pub!InTurn,
       Pub!Emitting, Pub!RetireFragment
  <2>14. Pub!AwaitInvariant'
    BY <1>7, <1>a, <1>f DEF Pub!AwaitInvariant, Pub!Awaited,
       Pub!Emitting, Pub!RetireFragment
  <2>15. Pub!QueueTimely'
    BY <1>7, <1>m, <1>f DEF Pub!QueueTimely, Pub!Timely,
       Pub!RetireFragment
  <2>16. Pub!HoldingTimely'
    BY <1>7, <1>n, <1>f DEF Pub!HoldingTimely, Pub!Timely,
       Pub!Emitting, Pub!RetireFragment
  <2>17. Pub!DeletedAfterOwnHandoff'
    BY <1>7, <1>d, <1>f DEF Pub!DeletedAfterOwnHandoff, Pub!RetireFragment
  <2>18. Pub!FilesHandedOver'
    <3>1. shot[w] \notin accepted /\ w \in Pub!Actors
      BY <1>7, <1>c DEF Pub!ClaimInvariant, Pub!RetireFragment
    <3> QED BY <3>1, <1>7, <1>d2, <1>f DEF Pub!FilesHandedOver,
           Pub!HandedOver, Pub!RetireFragment
  <2>19. Pub!AppliedInTime'
    BY <1>7, <1>d3, <1>f DEF Pub!AppliedInTime, Pub!RetireFragment
  <2> QED BY <2>1, <2>2, <2>3, <2>4, <2>5, <2>6, <2>7, <2>8, <2>9, <2>10, <2>11, <2>12,
         <2>13,
     <2>14, <2>15, <2>16, <2>17, <2>18, <2>19 DEF Pub!PublicationInvariant, Pub!TypeOK
<1> QED BY <1>1, <1>2, <1>3, <1>4, <1>5, <1>6, <1>7 DEF Pub!Take

LEMMA PublishKeeps ==
  ASSUME Pub!PublicationInvariant, NEW a \in Pub!Actors, Pub!Publish(a) \/ Pub!Remove(a)
  PROVE  Pub!PublicationInvariant'
<1>t. Pub!TypeOK
  BY DEF Pub!PublicationInvariant
<1>p. Pub!PublisherInvariant
  BY DEF Pub!PublicationInvariant
<1>c. Pub!ClaimInvariant
  BY DEF Pub!PublicationInvariant
<1>g. Pub!WithinFrontier
  BY DEF Pub!PublicationInvariant
<1>h. Pub!OpenGroup
  BY DEF Pub!PublicationInvariant
<1>o. Pub!HandedInOrder
  BY DEF Pub!PublicationInvariant
<1>q. Pub!QueueInOrder
  BY DEF Pub!PublicationInvariant
<1>e. Pub!EmittingInOrder
  BY DEF Pub!PublicationInvariant
<1>a. Pub!AwaitInvariant
  BY DEF Pub!PublicationInvariant
<1>m. Pub!QueueTimely
  BY DEF Pub!PublicationInvariant
<1>n. Pub!HoldingTimely
  BY DEF Pub!PublicationInvariant
<1>d. Pub!DeletedAfterOwnHandoff
  BY DEF Pub!PublicationInvariant
<1>d2. Pub!FilesHandedOver
  BY DEF Pub!PublicationInvariant
<1>d3. Pub!AppliedInTime
  BY DEF Pub!PublicationInvariant
<1>f. /\ pc \in [Pub!Actors -> {"idle", "accept", "notify", "drain", "emit", "handing", "emitted", "dead", "delete", "unlink"}]
      /\ shot \in [Workers -> Pub!Shots \cup {NoKey}] /\ files \in [Pub!Actors -> SUBSET Pub!Shots]
      /\ holding \in [Pub!Actors -> Pub!Publication \cup {Pub!NoPublication}]
  BY <1>t DEF Pub!TypeOK
<1> USE PublicationAssumption DEF Pub!ActorAssumption, Pub!KeyAssumption,
       Pub!Actors, Pub!Shots, Pub!Goto, Pub!Leave,
       Pub!ToDelete, Pub!diskVars, Pub!assemblerVars,
       Pub!expiryVars, Pub!publicationVars, Pub!workerVars,
       Pub!threadVars, Pub!handoffVars, Pub!guiVars
<1>1. CASE Pub!TakePublication(a) /\ stopped
  <2>1. (onDisk \subseteq Pub!Shots /\ claimed \subseteq Pub!Shots /\ accepted \subseteq Pub!Shots /\ deferred \subseteq accepted /\ handed \subseteq Pub!Shots /\ refused \subseteq Pub!Shots)'
    BY <1>1, <1>t DEF Pub!TypeOK, Pub!TakePublication,
       Pub!ClearQueue
  <2>2. (frontier \in 0..MaxKey /\ stream \in {"new", "open", "done", "barred"} /\ group \subseteq Fragments /\ token \in Nat /\ {sourceGate, pending, applied} \subseteq 0..MaxKey)'
    BY <1>1, <1>t DEF Pub!TypeOK, Pub!TakePublication,
       Pub!ClearQueue
  <2>3. (armed \in BOOLEAN /\ active \in BOOLEAN /\ stopped \in BOOLEAN /\ raised \in BOOLEAN /\ shutdown \in {"running", "stopping", "flushed", "closed"})'
    BY <1>1, <1>t DEF Pub!TypeOK, Pub!TakePublication,
       Pub!ClearQueue
  <2>4. (queue \in Seq(Pub!Publication))'
    BY <1>1, <1>t DEF Pub!TypeOK, Pub!TakePublication,
       Pub!ClearQueue
  <2>5. (pc \in [Pub!Actors -> {"idle", "accept", "notify", "drain", "emit", "handing", "emitted", "dead", "delete", "unlink"}])'
    BY <1>1, <1>t DEF Pub!TypeOK, Pub!TakePublication,
       Pub!ClearQueue
  <2>6. (shot \in [Workers -> Pub!Shots \cup {NoKey}] /\ files \in [Pub!Actors -> SUBSET Pub!Shots] /\ holding \in [Pub!Actors -> Pub!Publication \cup {Pub!NoPublication}])'
    BY <1>1, <1>t DEF Pub!TypeOK, Pub!TakePublication,
       Pub!ClearQueue
  <2>7. Pub!PublisherInvariant'
    BY <1>1, <1>p, <1>f DEF Pub!PublisherInvariant, Pub!OnePublisher,
       Pub!Publishing, Pub!TakePublication, Pub!ClearQueue
  <2>8. Pub!ClaimInvariant'
    BY <1>1, <1>c, <1>f DEF Pub!ClaimInvariant, Pub!TakePublication,
       Pub!ClearQueue
  <2>9. Pub!WithinFrontier'
    BY <1>1, <1>g, <1>f DEF Pub!WithinFrontier, Pub!TakePublication,
       Pub!ClearQueue
  <2>10. Pub!OpenGroup'
    BY <1>1, <1>h, <1>f DEF Pub!OpenGroup, Pub!TakePublication,
       Pub!ClearQueue
  <2>11. Pub!HandedInOrder'
    BY <1>1, <1>o, <1>f DEF Pub!HandedInOrder, Pub!TakePublication,
       Pub!ClearQueue
  <2>12. Pub!QueueInOrder'
    BY <1>1, <1>q, <1>f DEF Pub!QueueInOrder, Pub!InTurn,
       Pub!TakePublication, Pub!ClearQueue
  <2>13. Pub!EmittingInOrder'
    BY <1>1, <1>e, <1>f DEF Pub!EmittingInOrder, Pub!InTurn,
       Pub!Emitting, Pub!TakePublication, Pub!ClearQueue
  <2>14. Pub!AwaitInvariant'
    BY <1>1, <1>a, <1>f DEF Pub!AwaitInvariant, Pub!Awaited,
       Pub!Emitting, Pub!TakePublication, Pub!ClearQueue
  <2>15. Pub!QueueTimely'
    BY <1>1, <1>m, <1>f DEF Pub!QueueTimely, Pub!Timely,
       Pub!TakePublication, Pub!ClearQueue
  <2>16. Pub!HoldingTimely'
    <3>1. UNCHANGED <<handed, accepted>> /\ (token' = token \/ token' = token + 1)
      BY <1>1 DEF Pub!TakePublication, Pub!ClearQueue
    <3>2. \A b \in Pub!Actors :
             \/ holding'[b] = Pub!NoPublication
             \/ holding'[b] = holding[b] /\ (Pub!Emitting(b)' => Pub!Emitting(b))
      BY <1>1, <1>f DEF Pub!TakePublication, Pub!ClearQueue,
         Pub!Emitting
    <3> QED BY <3>1, <3>2, <1>t, <1>n, HoldingStaysTimely
  <2>17. Pub!DeletedAfterOwnHandoff'
    BY <1>1, <1>d, <1>f DEF Pub!DeletedAfterOwnHandoff, Pub!TakePublication,
       Pub!ClearQueue
  <2>18. Pub!FilesHandedOver'
    BY <1>1, <1>d2, <1>f DEF Pub!FilesHandedOver, Pub!HandedOver,
       Pub!TakePublication, Pub!ClearQueue
  <2>19. Pub!AppliedInTime'
    BY <1>1, <1>d3, <1>f DEF Pub!AppliedInTime, Pub!TakePublication,
       Pub!ClearQueue
  <2> QED BY <2>1, <2>2, <2>3, <2>4, <2>5, <2>6, <2>7, <2>8, <2>9, <2>10, <2>11, <2>12,
         <2>13,
     <2>14, <2>15, <2>16, <2>17, <2>18, <2>19 DEF Pub!PublicationInvariant, Pub!TypeOK
<1>2. CASE Pub!TakePublication(a) /\ ~stopped /\ queue = <<>>
  <2>1. (onDisk \subseteq Pub!Shots /\ claimed \subseteq Pub!Shots /\ accepted \subseteq Pub!Shots /\ deferred \subseteq accepted /\ handed \subseteq Pub!Shots /\ refused \subseteq Pub!Shots)'
    BY <1>2, <1>t DEF Pub!TypeOK, Pub!TakePublication,
       Pub!ClearQueue
  <2>2. (frontier \in 0..MaxKey /\ stream \in {"new", "open", "done", "barred"} /\ group \subseteq Fragments /\ token \in Nat /\ {sourceGate, pending, applied} \subseteq 0..MaxKey)'
    BY <1>2, <1>t DEF Pub!TypeOK, Pub!TakePublication,
       Pub!ClearQueue
  <2>3. (armed \in BOOLEAN /\ active \in BOOLEAN /\ stopped \in BOOLEAN /\ raised \in BOOLEAN /\ shutdown \in {"running", "stopping", "flushed", "closed"})'
    BY <1>2, <1>t DEF Pub!TypeOK, Pub!TakePublication,
       Pub!ClearQueue
  <2>4. (queue \in Seq(Pub!Publication))'
    BY <1>2, <1>t DEF Pub!TypeOK, Pub!TakePublication,
       Pub!ClearQueue
  <2>5. (pc \in [Pub!Actors -> {"idle", "accept", "notify", "drain", "emit", "handing", "emitted", "dead", "delete", "unlink"}])'
    BY <1>2, <1>t DEF Pub!TypeOK, Pub!TakePublication,
       Pub!ClearQueue
  <2>6. (shot \in [Workers -> Pub!Shots \cup {NoKey}] /\ files \in [Pub!Actors -> SUBSET Pub!Shots] /\ holding \in [Pub!Actors -> Pub!Publication \cup {Pub!NoPublication}])'
    BY <1>2, <1>t DEF Pub!TypeOK, Pub!TakePublication,
       Pub!ClearQueue
  <2>7. Pub!PublisherInvariant'
    BY <1>2, <1>p, <1>f DEF Pub!PublisherInvariant, Pub!OnePublisher,
       Pub!Publishing, Pub!TakePublication, Pub!ClearQueue
  <2>8. Pub!ClaimInvariant'
    BY <1>2, <1>c, <1>f DEF Pub!ClaimInvariant, Pub!TakePublication,
       Pub!ClearQueue
  <2>9. Pub!WithinFrontier'
    BY <1>2, <1>g, <1>f DEF Pub!WithinFrontier, Pub!TakePublication,
       Pub!ClearQueue
  <2>10. Pub!OpenGroup'
    BY <1>2, <1>h, <1>f DEF Pub!OpenGroup, Pub!TakePublication,
       Pub!ClearQueue
  <2>11. Pub!HandedInOrder'
    BY <1>2, <1>o, <1>f DEF Pub!HandedInOrder, Pub!TakePublication,
       Pub!ClearQueue
  <2>12. Pub!QueueInOrder'
    BY <1>2, <1>q, <1>f DEF Pub!QueueInOrder, Pub!InTurn,
       Pub!TakePublication, Pub!ClearQueue
  <2>13. Pub!EmittingInOrder'
    BY <1>2, <1>e, <1>f DEF Pub!EmittingInOrder, Pub!InTurn,
       Pub!Emitting, Pub!TakePublication, Pub!ClearQueue
  <2>14. Pub!AwaitInvariant'
    BY <1>2, <1>a, <1>f DEF Pub!AwaitInvariant, Pub!Awaited,
       Pub!Emitting, Pub!TakePublication, Pub!ClearQueue
  <2>15. Pub!QueueTimely'
    BY <1>2, <1>m, <1>f DEF Pub!QueueTimely, Pub!Timely,
       Pub!TakePublication, Pub!ClearQueue
  <2>16. Pub!HoldingTimely'
    <3>1. UNCHANGED <<handed, accepted>> /\ (token' = token \/ token' = token + 1)
      BY <1>2 DEF Pub!TakePublication, Pub!ClearQueue
    <3>2. \A b \in Pub!Actors :
             \/ holding'[b] = Pub!NoPublication
             \/ holding'[b] = holding[b] /\ (Pub!Emitting(b)' => Pub!Emitting(b))
      BY <1>2, <1>f DEF Pub!TakePublication, Pub!ClearQueue,
         Pub!Emitting
    <3> QED BY <3>1, <3>2, <1>t, <1>n, HoldingStaysTimely
  <2>17. Pub!DeletedAfterOwnHandoff'
    BY <1>2, <1>d, <1>f DEF Pub!DeletedAfterOwnHandoff, Pub!TakePublication,
       Pub!ClearQueue
  <2>18. Pub!FilesHandedOver'
    <3>1. /\ accepted \subseteq handed /\ UNCHANGED <<accepted, handed, deferred>>
          /\ \A b \in Pub!Actors : files'[b] = files[b] \/ files'[b] = {}
      <4>1. \A b \in Pub!Actors : ~ Pub!Emitting(b)
        BY <1>2, <1>p DEF Pub!TakePublication, Pub!PublisherInvariant,
           Pub!OnePublisher, Pub!Publishing, Pub!Emitting
      <4>2. \A k : ~ Pub!Awaited(k)
        BY <1>2, <4>1 DEF Pub!Awaited
      <4> QED BY <1>2, <4>2, <1>a, <1>f DEF Pub!AwaitInvariant,
             Pub!TakePublication
    <3>2. \A k \in accepted : k \in Nat
      BY <1>t DEF Pub!TypeOK
    <3> QED BY <3>1, <3>2 DEF Pub!FilesHandedOver, Pub!HandedOver
  <2>19. Pub!AppliedInTime'
    BY <1>2, <1>d3, <1>f DEF Pub!AppliedInTime, Pub!TakePublication,
       Pub!ClearQueue
  <2> QED BY <2>1, <2>2, <2>3, <2>4, <2>5, <2>6, <2>7, <2>8, <2>9, <2>10, <2>11, <2>12,
         <2>13,
     <2>14, <2>15, <2>16, <2>17, <2>18, <2>19 DEF Pub!PublicationInvariant, Pub!TypeOK
<1>3. CASE Pub!TakePublication(a) /\ ~stopped /\ queue # <<>> /\ Pub!Overtaken(Head(queue))
  <2>a. /\ pc[a] = "drain" /\ queue' = Tail(queue) /\ UNCHANGED <<accepted, handed, sourceGate, token, stopped>>
    BY <1>3 DEF Pub!TakePublication
  <2>c. Pub!TypeOK /\ Pub!QueueInOrder /\ Pub!QueueTimely
    BY <1>t, <1>q, <1>m
  <2>e. queue # <<>>
    BY <1>3
  <2>b. /\ Pub!QueueInOrder' /\ Pub!InTurn(Head(queue))
        /\ \A i \in 1..Len(queue') : Pub!Precedes(Head(queue), queue'[i])
        /\ \A i \in 1..Len(queue) : queue[i] = Head(queue) \/ \E j \in 1..Len(queue') : queue'[j] = queue[i]
        /\ \A j \in 1..Len(queue') : \E i \in 1..Len(queue) : queue'[j] = queue[i]
        /\ Head(queue) \in Pub!Publication /\ (Pub!QueueTimely => Pub!Timely(Head(queue))) /\ queue' \in Seq(Pub!Publication)
    BY <2>a, <2>c, <2>e, DequeueKeepsOrder
  <2>q. Pub!QueueInOrder' /\ Pub!InTurn(Head(queue)) /\ queue' \in Seq(Pub!Publication)
    BY <2>b
  <2>r. \A i \in 1..Len(queue') : Pub!Precedes(Head(queue), queue'[i])
    BY <2>b
  <2>s. \A i \in 1..Len(queue) : queue[i] = Head(queue) \/ \E j \in 1..Len(queue') : queue'[j] = queue[i]
    BY <2>b
  <2>u. \A j \in 1..Len(queue') : \E i \in 1..Len(queue) : queue'[j] = queue[i]
    BY <2>b
  <2>v. Head(queue) \in Pub!Publication /\ Pub!Timely(Head(queue))
    BY <2>b, <2>c
  <2>o. \A b \in Pub!Actors : ~ Pub!Emitting(b)
    BY <2>a, <1>p DEF Pub!PublisherInvariant, Pub!OnePublisher,
       Pub!Publishing, Pub!Emitting
  <2>h. UNCHANGED <<pc, holding>> /\ Head(queue).kind = "timeout"
    BY <1>3 DEF Pub!TakePublication, Pub!Overtaken
  <2>1. (onDisk \subseteq Pub!Shots /\ claimed \subseteq Pub!Shots /\ accepted \subseteq Pub!Shots /\ deferred \subseteq accepted /\ handed \subseteq Pub!Shots /\ refused \subseteq Pub!Shots)'
    BY <1>3, <1>t DEF Pub!TypeOK, Pub!TakePublication
  <2>2. (frontier \in 0..MaxKey /\ stream \in {"new", "open", "done", "barred"} /\ group \subseteq Fragments /\ token \in Nat /\ {sourceGate, pending, applied} \subseteq 0..MaxKey)'
    BY <1>3, <1>t DEF Pub!TypeOK, Pub!TakePublication
  <2>3. (armed \in BOOLEAN /\ active \in BOOLEAN /\ stopped \in BOOLEAN /\ raised \in BOOLEAN /\ shutdown \in {"running", "stopping", "flushed", "closed"})'
    BY <1>3, <1>t DEF Pub!TypeOK, Pub!TakePublication
  <2>4. (queue \in Seq(Pub!Publication))'
    BY <2>q
  <2>5. (pc \in [Pub!Actors -> {"idle", "accept", "notify", "drain", "emit", "handing", "emitted", "dead", "delete", "unlink"}])'
    BY <1>3, <1>t DEF Pub!TypeOK, Pub!TakePublication
  <2>6. (shot \in [Workers -> Pub!Shots \cup {NoKey}] /\ files \in [Pub!Actors -> SUBSET Pub!Shots] /\ holding \in [Pub!Actors -> Pub!Publication \cup {Pub!NoPublication}])'
    BY <1>3, <1>t DEF Pub!TypeOK, Pub!TakePublication
  <2>7. Pub!PublisherInvariant'
    BY <1>3, <1>p, <1>f DEF Pub!PublisherInvariant, Pub!OnePublisher,
       Pub!Publishing, Pub!TakePublication
  <2>8. Pub!ClaimInvariant'
    BY <1>3, <1>c, <1>f DEF Pub!ClaimInvariant, Pub!TakePublication
  <2>9. Pub!WithinFrontier'
    BY <1>3, <1>g, <1>f DEF Pub!WithinFrontier, Pub!TakePublication
  <2>10. Pub!OpenGroup'
    BY <1>3, <1>h, <1>f DEF Pub!OpenGroup, Pub!TakePublication
  <2>11. Pub!HandedInOrder'
    BY <1>3, <1>o, <1>f DEF Pub!HandedInOrder, Pub!TakePublication
  <2>12. Pub!QueueInOrder'
    BY <2>q
  <2>13. Pub!EmittingInOrder'
    BY <2>o, <2>h DEF Pub!EmittingInOrder, Pub!Emitting
  <2>14. Pub!AwaitInvariant'
    <3>1. ASSUME NEW k, Pub!Awaited(k) PROVE Pub!Awaited(k)'
      <4>1. PICK i \in 1..Len(queue) : queue[i] = Pub!Snapshot(k)
        BY <3>1, <2>o DEF Pub!Awaited
      <4>2. queue[i] # Head(queue)
        <5>1. Pub!Snapshot(k).kind = "snapshot"
          BY DEF Pub!Snapshot
        <5> QED BY <5>1, <4>1, <2>h
      <4> QED BY <4>1, <4>2, <2>s DEF Pub!Awaited, Pub!Snapshot
    <3> QED BY <3>1, <2>a, <1>a DEF Pub!AwaitInvariant
  <2>15. Pub!QueueTimely'
    <3> QED BY <2>u, <2>a, <1>t, <1>m, <1>n, QueueStaysTimely
  <2>16. Pub!HoldingTimely'
    <3>1. UNCHANGED <<handed, accepted>> /\ (token' = token \/ token' = token + 1)
      BY <1>3 DEF Pub!TakePublication
    <3>2. \A b \in Pub!Actors :
             \/ holding'[b] = Pub!NoPublication
             \/ holding'[b] = holding[b] /\ (Pub!Emitting(b)' => Pub!Emitting(b))
      BY <1>3, <1>f DEF Pub!TakePublication, Pub!Emitting
    <3> QED BY <3>1, <3>2, <1>t, <1>n, HoldingStaysTimely
  <2>17. Pub!DeletedAfterOwnHandoff'
    BY <1>3, <1>d, <1>f DEF Pub!DeletedAfterOwnHandoff, Pub!TakePublication
  <2>18. Pub!FilesHandedOver'
    BY <1>3, <1>d2, <1>f DEF Pub!FilesHandedOver, Pub!HandedOver,
       Pub!TakePublication
  <2>19. Pub!AppliedInTime'
    BY <1>3, <1>d3, <1>f DEF Pub!AppliedInTime, Pub!TakePublication
  <2> QED BY <2>1, <2>2, <2>3, <2>4, <2>5, <2>6, <2>7, <2>8, <2>9, <2>10, <2>11, <2>12,
         <2>13,
     <2>14, <2>15, <2>16, <2>17, <2>18, <2>19 DEF Pub!PublicationInvariant, Pub!TypeOK
<1>4. CASE Pub!TakePublication(a) /\ ~stopped /\ queue # <<>> /\ ~Pub!Overtaken(Head(queue))
  <2>a. /\ pc[a] = "drain" /\ queue' = Tail(queue) /\ UNCHANGED <<accepted, handed, sourceGate, token, stopped>>
    BY <1>4 DEF Pub!TakePublication
  <2>c. Pub!TypeOK /\ Pub!QueueInOrder /\ Pub!QueueTimely
    BY <1>t, <1>q, <1>m
  <2>e. queue # <<>>
    BY <1>4
  <2>b. /\ Pub!QueueInOrder' /\ Pub!InTurn(Head(queue))
        /\ \A i \in 1..Len(queue') : Pub!Precedes(Head(queue), queue'[i])
        /\ \A i \in 1..Len(queue) : queue[i] = Head(queue) \/ \E j \in 1..Len(queue') : queue'[j] = queue[i]
        /\ \A j \in 1..Len(queue') : \E i \in 1..Len(queue) : queue'[j] = queue[i]
        /\ Head(queue) \in Pub!Publication /\ (Pub!QueueTimely => Pub!Timely(Head(queue))) /\ queue' \in Seq(Pub!Publication)
    BY <2>a, <2>c, <2>e, DequeueKeepsOrder
  <2>q. Pub!QueueInOrder' /\ Pub!InTurn(Head(queue)) /\ queue' \in Seq(Pub!Publication)
    BY <2>b
  <2>r. \A i \in 1..Len(queue') : Pub!Precedes(Head(queue), queue'[i])
    BY <2>b
  <2>s. \A i \in 1..Len(queue) : queue[i] = Head(queue) \/ \E j \in 1..Len(queue') : queue'[j] = queue[i]
    BY <2>b
  <2>u. \A j \in 1..Len(queue') : \E i \in 1..Len(queue) : queue'[j] = queue[i]
    BY <2>b
  <2>v. Head(queue) \in Pub!Publication /\ Pub!Timely(Head(queue))
    BY <2>b, <2>c
  <2>o. \A b \in Pub!Actors : ~ Pub!Emitting(b)
    BY <2>a, <1>p DEF Pub!PublisherInvariant, Pub!OnePublisher,
       Pub!Publishing, Pub!Emitting
  <2>h. /\ pc' = [pc EXCEPT ![a] = "emit"] /\ holding' = [holding EXCEPT ![a] = Head(queue)]
        /\ ~ Pub!Overtaken(Head(queue))
    BY <1>4 DEF Pub!TakePublication
  <2>i. /\ pc'[a] = "emit" /\ holding'[a] = Head(queue)
        /\ \A b \in Pub!Actors : b # a => pc'[b] = pc[b] /\ holding'[b] = holding[b]
    BY <2>h, <1>f
  <2>j. \A b \in Pub!Actors : Pub!Emitting(b)' => b = a
    BY <2>i, <2>o DEF Pub!Emitting
  <2>1. (onDisk \subseteq Pub!Shots /\ claimed \subseteq Pub!Shots /\ accepted \subseteq Pub!Shots /\ deferred \subseteq accepted /\ handed \subseteq Pub!Shots /\ refused \subseteq Pub!Shots)'
    BY <1>4, <1>t DEF Pub!TypeOK, Pub!TakePublication
  <2>2. (frontier \in 0..MaxKey /\ stream \in {"new", "open", "done", "barred"} /\ group \subseteq Fragments /\ token \in Nat /\ {sourceGate, pending, applied} \subseteq 0..MaxKey)'
    BY <1>4, <1>t DEF Pub!TypeOK, Pub!TakePublication
  <2>3. (armed \in BOOLEAN /\ active \in BOOLEAN /\ stopped \in BOOLEAN /\ raised \in BOOLEAN /\ shutdown \in {"running", "stopping", "flushed", "closed"})'
    BY <1>4, <1>t DEF Pub!TypeOK, Pub!TakePublication
  <2>4. (queue \in Seq(Pub!Publication))'
    BY <2>q
  <2>5. (pc \in [Pub!Actors -> {"idle", "accept", "notify", "drain", "emit", "handing", "emitted", "dead", "delete", "unlink"}])'
    BY <1>4, <1>t DEF Pub!TypeOK, Pub!TakePublication
  <2>6. (shot \in [Workers -> Pub!Shots \cup {NoKey}] /\ files \in [Pub!Actors -> SUBSET Pub!Shots] /\ holding \in [Pub!Actors -> Pub!Publication \cup {Pub!NoPublication}])'
    <3>1. UNCHANGED <<shot, files>>
      BY <1>4 DEF Pub!TakePublication
    <3> QED BY <3>1, <2>v, <2>h, <1>f
  <2>7. Pub!PublisherInvariant'
    <3>1. UNCHANGED <<active, raised, stopped, shutdown>> /\ ~ stopped
      BY <1>4 DEF Pub!TakePublication
    <3>2. Pub!Publishing(a) /\ Pub!Publishing(a)' /\ \A b \in Pub!Actors : b # a => (Pub!Publishing(b)' <=> Pub!Publishing(b))
      BY <2>a, <2>i DEF Pub!Publishing
    <3>5. Pub!OnePublisher /\ queue # <<>>
      BY <2>e, <1>p DEF Pub!PublisherInvariant
    <3>3. Pub!OnePublisher'
      BY <3>1, <3>2, <3>5 DEF Pub!OnePublisher
    <3>4. pc[a] = "drain" /\ holding'[a] \in Pub!Publication
      BY <2>a, <2>i, <2>v
    <3> QED BY <3>1, <3>3, <3>4, <2>i, <1>p DEF Pub!PublisherInvariant
  <2>8. Pub!ClaimInvariant'
    BY <1>4, <1>c, <1>f DEF Pub!ClaimInvariant, Pub!TakePublication
  <2>9. Pub!WithinFrontier'
    BY <1>4, <1>g, <1>f DEF Pub!WithinFrontier, Pub!TakePublication
  <2>10. Pub!OpenGroup'
    BY <1>4, <1>h, <1>f DEF Pub!OpenGroup, Pub!TakePublication
  <2>11. Pub!HandedInOrder'
    BY <1>4, <1>o, <1>f DEF Pub!HandedInOrder, Pub!TakePublication
  <2>12. Pub!QueueInOrder'
    BY <2>q
  <2>13. Pub!EmittingInOrder'
    <3>1. Head(queue).kind = "snapshot" =>
            /\ Head(queue) = Pub!Snapshot(Head(queue).key)
            /\ Head(queue).key \in accepted' /\ sourceGate' < Head(queue).key
      BY <2>q, <2>a DEF Pub!InTurn
    <3>3. holding'[a] = Head(queue)
      BY <2>i
    <3>4. Pub!InTurn(holding[a])'
      BY <3>1, <3>3 DEF Pub!InTurn, Pub!Snapshot
    <3>2. Pub!InTurn(holding[a])' /\ \A i \in 1..Len(queue') : Pub!Precedes(holding'[a], queue'[i])
      BY <3>4, <3>3, <2>r
    <3> QED BY <3>2, <2>j DEF Pub!EmittingInOrder, Pub!Precedes
  <2>14. Pub!AwaitInvariant'
    <3>1. ASSUME NEW k, Pub!Awaited(k) PROVE Pub!Awaited(k)'
      <4>1. PICK i \in 1..Len(queue) : queue[i] = Pub!Snapshot(k)
        BY <3>1, <2>o DEF Pub!Awaited
      <4>2. CASE queue[i] = Head(queue)
        <5>1. Pub!Emitting(a)' /\ holding'[a] = Pub!Snapshot(k)
          BY <4>1, <4>2, <2>i DEF Pub!Emitting
        <5> QED BY <5>1 DEF Pub!Awaited, Pub!Snapshot
      <4> QED BY <4>1, <4>2, <2>s DEF Pub!Awaited, Pub!Snapshot
    <3> QED BY <3>1, <2>a, <1>a DEF Pub!AwaitInvariant
  <2>15. Pub!QueueTimely'
    <3> QED BY <2>u, <2>a, <1>t, <1>m, <1>n, QueueStaysTimely
  <2>16. Pub!HoldingTimely'
    <3>1. Pub!Timely(Head(queue)) /\ (Head(queue).kind = "timeout" => handed \subseteq Head(queue).past)
      BY <2>v, <2>h, <1>o DEF Pub!Timely, Pub!Overtaken,
         Pub!HandedInOrder
    <3>2. ASSUME NEW b \in Pub!Actors, b # a PROVE Pub!Timely(holding[b])' /\ ~ Pub!Emitting(b)'
      BY <3>2, <2>a, <2>i, <2>j, <1>n DEF Pub!HoldingTimely, Pub!Timely
    <3>3. Pub!Timely(holding[a])' /\ (holding'[a].kind = "timeout" => handed' \subseteq holding'[a].past)
      BY <3>1, <2>a, <2>i DEF Pub!Timely
    <3> QED BY <3>2, <3>3 DEF Pub!HoldingTimely
  <2>17. Pub!DeletedAfterOwnHandoff'
    BY <1>4, <1>d, <1>f DEF Pub!DeletedAfterOwnHandoff, Pub!TakePublication
  <2>18. Pub!FilesHandedOver'
    BY <1>4, <1>d2, <1>f DEF Pub!FilesHandedOver, Pub!HandedOver,
       Pub!TakePublication
  <2>19. Pub!AppliedInTime'
    BY <1>4, <1>d3, <1>f DEF Pub!AppliedInTime, Pub!TakePublication
  <2> QED BY <2>1, <2>2, <2>3, <2>4, <2>5, <2>6, <2>7, <2>8, <2>9, <2>10, <2>11, <2>12,
         <2>13,
     <2>14, <2>15, <2>16, <2>17, <2>18, <2>19 DEF Pub!PublicationInvariant, Pub!TypeOK
<1>5. CASE Pub!Emit(a)
  <2>1. (onDisk \subseteq Pub!Shots /\ claimed \subseteq Pub!Shots /\ accepted \subseteq Pub!Shots /\ deferred \subseteq accepted /\ handed \subseteq Pub!Shots /\ refused \subseteq Pub!Shots)'
    BY <1>5, <1>t DEF Pub!TypeOK, Pub!Emit, Pub!LooksAlive
  <2>2. (frontier \in 0..MaxKey /\ stream \in {"new", "open", "done", "barred"} /\ group \subseteq Fragments /\ token \in Nat /\ {sourceGate, pending, applied} \subseteq 0..MaxKey)'
    BY <1>5, <1>t DEF Pub!TypeOK, Pub!Emit, Pub!LooksAlive
  <2>3. (armed \in BOOLEAN /\ active \in BOOLEAN /\ stopped \in BOOLEAN /\ raised \in BOOLEAN /\ shutdown \in {"running", "stopping", "flushed", "closed"})'
    BY <1>5, <1>t DEF Pub!TypeOK, Pub!Emit, Pub!LooksAlive
  <2>4. (queue \in Seq(Pub!Publication))'
    BY <1>5, <1>t DEF Pub!TypeOK, Pub!Emit, Pub!LooksAlive
  <2>5. (pc \in [Pub!Actors -> {"idle", "accept", "notify", "drain", "emit", "handing", "emitted", "dead", "delete", "unlink"}])'
    BY <1>5, <1>t DEF Pub!TypeOK, Pub!Emit, Pub!LooksAlive
  <2>6. (shot \in [Workers -> Pub!Shots \cup {NoKey}] /\ files \in [Pub!Actors -> SUBSET Pub!Shots] /\ holding \in [Pub!Actors -> Pub!Publication \cup {Pub!NoPublication}])'
    BY <1>5, <1>t DEF Pub!TypeOK, Pub!Emit, Pub!LooksAlive
  <2>7. Pub!PublisherInvariant'
    BY <1>5, <1>p, <1>f DEF Pub!PublisherInvariant, Pub!OnePublisher,
       Pub!Publishing, Pub!Emit, Pub!LooksAlive
  <2>8. Pub!ClaimInvariant'
    BY <1>5, <1>c, <1>f DEF Pub!ClaimInvariant, Pub!Emit,
       Pub!LooksAlive
  <2>9. Pub!WithinFrontier'
    BY <1>5, <1>g, <1>f DEF Pub!WithinFrontier, Pub!Emit,
       Pub!LooksAlive
  <2>10. Pub!OpenGroup'
    BY <1>5, <1>h, <1>f DEF Pub!OpenGroup, Pub!Emit, Pub!LooksAlive
  <2>11. Pub!HandedInOrder'
    BY <1>5, <1>o, <1>f DEF Pub!HandedInOrder, Pub!Emit,
       Pub!LooksAlive
  <2>12. Pub!QueueInOrder'
    BY <1>5, <1>q, <1>f DEF Pub!QueueInOrder, Pub!InTurn, Pub!Emit,
       Pub!LooksAlive
  <2>13. Pub!EmittingInOrder'
    BY <1>5, <1>e, <1>f DEF Pub!EmittingInOrder, Pub!InTurn,
       Pub!Emitting, Pub!Emit, Pub!LooksAlive
  <2>14. Pub!AwaitInvariant'
    BY <1>5, <1>a, <1>f DEF Pub!AwaitInvariant, Pub!Awaited,
       Pub!Emitting, Pub!Emit, Pub!LooksAlive
  <2>15. Pub!QueueTimely'
    BY <1>5, <1>m, <1>f DEF Pub!QueueTimely, Pub!Timely, Pub!Emit,
       Pub!LooksAlive
  <2>16. Pub!HoldingTimely'
    BY <1>5, <1>n, <1>f DEF Pub!HoldingTimely, Pub!Timely,
       Pub!Emitting, Pub!Emit, Pub!LooksAlive
  <2>17. Pub!DeletedAfterOwnHandoff'
    BY <1>5, <1>d, <1>f DEF Pub!DeletedAfterOwnHandoff, Pub!Emit,
       Pub!LooksAlive
  <2>18. Pub!FilesHandedOver'
    BY <1>5, <1>d2, <1>f DEF Pub!FilesHandedOver, Pub!HandedOver,
       Pub!Emit, Pub!LooksAlive
  <2>19. Pub!AppliedInTime'
    BY <1>5, <1>d3, <1>f DEF Pub!AppliedInTime, Pub!Emit,
       Pub!LooksAlive
  <2> QED BY <2>1, <2>2, <2>3, <2>4, <2>5, <2>6, <2>7, <2>8, <2>9, <2>10, <2>11, <2>12,
         <2>13,
     <2>14, <2>15, <2>16, <2>17, <2>18, <2>19 DEF Pub!PublicationInvariant, Pub!TypeOK
<1>6. CASE Pub!HandOver(a) /\ holding[a].kind = "snapshot" /\ shutdown # "closed"
  <2> DEFINE k == holding[a].key
  <2>a. /\ Pub!Emitting(a) /\ holding[a] \in Pub!Publication /\ pc' = [pc EXCEPT ![a] = "emitted"]
        /\ UNCHANGED <<accepted, queue, holding, token, stopped>>
    BY <1>6, <1>p DEF Pub!HandOver, Pub!Emitting,
       Pub!PublisherInvariant
  <2>b. /\ holding[a] = Pub!Snapshot(k) /\ k \in accepted /\ sourceGate < k /\ k \in Pub!Shots
        /\ \A i \in 1..Len(queue) : Pub!Precedes(holding[a], queue[i])
    BY <1>6, <2>a, <1>e, <1>t DEF Pub!EmittingInOrder, Pub!InTurn,
       Pub!TypeOK
  <2>h. /\ sourceGate' = k /\ pending' = k /\ handed' = handed \cup {k} /\ refused' = refused
    <3>1. k > sourceGate
      BY <2>b, <1>t DEF Pub!TypeOK
    <3> QED BY <1>6, <3>1, <2>a DEF Pub!HandOver, Pub!Publication
  <2> HIDE DEF k
  <2>i. pc'[a] = "emitted" /\ \A b \in Pub!Actors : b # a => pc'[b] = pc[b]
    BY <2>a, <1>f
  <2>j. \A b \in Pub!Actors : ~ Pub!Emitting(b)' /\ (Pub!Emitting(b) => b = a)
    BY <2>a, <2>i, <1>p DEF Pub!Emitting, Pub!PublisherInvariant,
       Pub!OnePublisher, Pub!Publishing
  <2>1. (onDisk \subseteq Pub!Shots /\ claimed \subseteq Pub!Shots /\ accepted \subseteq Pub!Shots /\ deferred \subseteq accepted /\ handed \subseteq Pub!Shots /\ refused \subseteq Pub!Shots)'
    BY <2>b, <2>h, <1>t, <1>6 DEF Pub!TypeOK, Pub!HandOver
  <2>2. (frontier \in 0..MaxKey /\ stream \in {"new", "open", "done", "barred"} /\ group \subseteq Fragments /\ token \in Nat /\ {sourceGate, pending, applied} \subseteq 0..MaxKey)'
    BY <2>b, <2>h, <1>t, <1>6 DEF Pub!TypeOK, Pub!HandOver
  <2>3. (armed \in BOOLEAN /\ active \in BOOLEAN /\ stopped \in BOOLEAN /\ raised \in BOOLEAN /\ shutdown \in {"running", "stopping", "flushed", "closed"})'
    BY <1>6, <1>t DEF Pub!TypeOK, Pub!HandOver
  <2>4. (queue \in Seq(Pub!Publication))'
    BY <1>6, <1>t DEF Pub!TypeOK, Pub!HandOver
  <2>5. (pc \in [Pub!Actors -> {"idle", "accept", "notify", "drain", "emit", "handing", "emitted", "dead", "delete", "unlink"}])'
    BY <1>6, <1>t DEF Pub!TypeOK, Pub!HandOver
  <2>6. (shot \in [Workers -> Pub!Shots \cup {NoKey}] /\ files \in [Pub!Actors -> SUBSET Pub!Shots] /\ holding \in [Pub!Actors -> Pub!Publication \cup {Pub!NoPublication}])'
    BY <1>6, <1>t DEF Pub!TypeOK, Pub!HandOver
  <2>7. Pub!PublisherInvariant'
    BY <1>6, <1>p, <1>f DEF Pub!PublisherInvariant, Pub!OnePublisher,
       Pub!Publishing, Pub!HandOver
  <2>8. Pub!ClaimInvariant'
    BY <1>6, <1>c, <1>f DEF Pub!ClaimInvariant, Pub!HandOver
  <2>9. Pub!WithinFrontier'
    BY <1>6, <1>g, <1>f DEF Pub!WithinFrontier, Pub!HandOver
  <2>10. Pub!OpenGroup'
    BY <1>6, <1>h, <1>f DEF Pub!OpenGroup, Pub!HandOver
  <2>11. Pub!HandedInOrder'
    BY <2>b, <2>h, <2>a, <1>o, <1>t, <1>6 DEF Pub!HandedInOrder, Pub!TypeOK,
       Pub!HandOver
  <2>12. Pub!QueueInOrder'
    <3>1. ASSUME NEW i \in 1..Len(queue) PROVE Pub!InTurn(queue[i])'
      <4>1. Pub!InTurn(queue[i]) /\ Pub!Precedes(holding[a], queue[i]) /\ holding[a].kind = "snapshot"
        BY <1>6, <2>b, <1>q DEF Pub!QueueInOrder
      <4> QED BY <4>1, <2>a, <2>b, <2>h, SnapshotShape DEF Pub!InTurn,
             Pub!Precedes, Pub!Snapshot
    <3> QED BY <3>1, <2>a, <1>q DEF Pub!QueueInOrder, Pub!Precedes
  <2>13. Pub!EmittingInOrder'
    BY <2>j DEF Pub!EmittingInOrder
  <2>14. Pub!AwaitInvariant'
    <3>1. ASSUME NEW j \in accepted \ handed' PROVE stopped \/ Pub!Awaited(j)'
      <4>1. j # k /\ j \in accepted \ handed
        BY <2>h
      <4>2. stopped \/ Pub!Awaited(j)
        BY <4>1, <1>a DEF Pub!AwaitInvariant
      <4>3. ASSUME Pub!Awaited(j) PROVE \E i \in 1..Len(queue) : queue[i] = Pub!Snapshot(j)
        BY <4>1, <4>3, <2>b, <2>j, SnapshotShape DEF Pub!Awaited
      <4> QED BY <4>2, <4>3, <2>a DEF Pub!Awaited, Pub!Snapshot
    <3> QED BY <3>1, <2>a DEF Pub!AwaitInvariant
  <2>15. Pub!QueueTimely'
    BY <1>6, <1>m, <1>f DEF Pub!QueueTimely, Pub!Timely,
       Pub!HandOver
  <2>16. Pub!HoldingTimely'
    <3>1. ASSUME NEW b \in Pub!Actors PROVE Pub!Timely(holding[b])'
      BY <2>a, <1>n DEF Pub!HoldingTimely, Pub!Timely
    <3> QED BY <3>1, <2>j DEF Pub!HoldingTimely
  <2>17. Pub!DeletedAfterOwnHandoff'
    BY <1>6, <1>d, <1>f DEF Pub!DeletedAfterOwnHandoff, Pub!HandOver
  <2>18. Pub!FilesHandedOver'
    BY <1>6, <1>d2, <1>f DEF Pub!FilesHandedOver, Pub!HandedOver,
       Pub!HandOver
  <2>19. Pub!AppliedInTime'
    BY <1>6, <1>d3, <1>f DEF Pub!AppliedInTime, Pub!HandOver
  <2> QED BY <2>1, <2>2, <2>3, <2>4, <2>5, <2>6, <2>7, <2>8, <2>9, <2>10, <2>11, <2>12,
         <2>13,
     <2>14, <2>15, <2>16, <2>17, <2>18, <2>19 DEF Pub!PublicationInvariant, Pub!TypeOK
<1>7. CASE Pub!HandOver(a) /\ ~(holding[a].kind = "snapshot" /\ shutdown # "closed")
  <2>1. (onDisk \subseteq Pub!Shots /\ claimed \subseteq Pub!Shots /\ accepted \subseteq Pub!Shots /\ deferred \subseteq accepted /\ handed \subseteq Pub!Shots /\ refused \subseteq Pub!Shots)'
    BY <1>t, <1>7 DEF Pub!TypeOK, Pub!HandOver
  <2>2. (frontier \in 0..MaxKey /\ stream \in {"new", "open", "done", "barred"} /\ group \subseteq Fragments /\ token \in Nat /\ {sourceGate, pending, applied} \subseteq 0..MaxKey)'
    BY <1>7, <1>t DEF Pub!TypeOK, Pub!HandOver
  <2>3. (armed \in BOOLEAN /\ active \in BOOLEAN /\ stopped \in BOOLEAN /\ raised \in BOOLEAN /\ shutdown \in {"running", "stopping", "flushed", "closed"})'
    BY <1>7, <1>t DEF Pub!TypeOK, Pub!HandOver
  <2>4. (queue \in Seq(Pub!Publication))'
    BY <1>7, <1>t DEF Pub!TypeOK, Pub!HandOver
  <2>5. (pc \in [Pub!Actors -> {"idle", "accept", "notify", "drain", "emit", "handing", "emitted", "dead", "delete", "unlink"}])'
    BY <1>7, <1>t DEF Pub!TypeOK, Pub!HandOver
  <2>6. (shot \in [Workers -> Pub!Shots \cup {NoKey}] /\ files \in [Pub!Actors -> SUBSET Pub!Shots] /\ holding \in [Pub!Actors -> Pub!Publication \cup {Pub!NoPublication}])'
    BY <1>7, <1>t DEF Pub!TypeOK, Pub!HandOver
  <2>7. Pub!PublisherInvariant'
    BY <1>7, <1>p, <1>f DEF Pub!PublisherInvariant, Pub!OnePublisher,
       Pub!Publishing, Pub!HandOver
  <2>8. Pub!ClaimInvariant'
    BY <1>7, <1>c, <1>f DEF Pub!ClaimInvariant, Pub!HandOver
  <2>9. Pub!WithinFrontier'
    BY <1>7, <1>g, <1>f DEF Pub!WithinFrontier, Pub!HandOver
  <2>10. Pub!OpenGroup'
    BY <1>7, <1>h, <1>f DEF Pub!OpenGroup, Pub!HandOver
  <2>11. Pub!HandedInOrder'
    BY <1>7, <1>o, <1>f DEF Pub!HandedInOrder, Pub!HandOver
  <2>12. Pub!QueueInOrder'
    BY <1>7, <1>q, <1>f DEF Pub!QueueInOrder, Pub!InTurn,
       Pub!HandOver
  <2>13. Pub!EmittingInOrder'
    BY <1>7, <1>e, <1>f DEF Pub!EmittingInOrder, Pub!InTurn,
       Pub!Emitting, Pub!HandOver
  <2>14. Pub!AwaitInvariant'
    <3>1. pc[a] = "handing" /\ holding[a] \in Pub!Publication /\ UNCHANGED <<queue, holding, accepted, handed, stopped>>
      BY <1>7, <1>p DEF Pub!HandOver, Pub!PublisherInvariant
    <3>2. stopped \/ holding[a].kind = "timeout"
      BY <1>7, <3>1, <1>p, NoticeShape DEF Pub!HandOver,
         Pub!PublisherInvariant
    <3>3. \A b \in Pub!Actors : b # a => pc'[b] = pc[b]
      BY <1>7, <1>f DEF Pub!HandOver
    <3>4. ASSUME NEW k, Pub!Awaited(k), holding[a].kind = "timeout" PROVE Pub!Awaited(k)'
      <4>1. CASE \E i \in 1..Len(queue) : queue[i] = Pub!Snapshot(k)
        BY <4>1, <3>1 DEF Pub!Awaited, Pub!Snapshot
      <4>2. ASSUME NEW b \in Pub!Actors, Pub!Emitting(b), holding[b] = Pub!Snapshot(k) PROVE Pub!Awaited(k)'
        <5>1. b # a
          BY <4>2, <3>4, SnapshotShape
        <5> QED BY <5>1, <4>2, <3>1, <3>3 DEF Pub!Awaited, Pub!Emitting,
               Pub!Snapshot
      <4> QED BY <3>4, <4>1, <4>2 DEF Pub!Awaited
    <3> QED BY <3>1, <3>2, <3>4, <1>a DEF Pub!AwaitInvariant
  <2>15. Pub!QueueTimely'
    BY <1>7, <1>m, <1>f DEF Pub!QueueTimely, Pub!Timely,
       Pub!HandOver
  <2>16. Pub!HoldingTimely'
    <3>1. UNCHANGED <<handed, accepted>> /\ (token' = token \/ token' = token + 1)
      BY <1>7 DEF Pub!HandOver
    <3>2. \A b \in Pub!Actors :
             \/ holding'[b] = Pub!NoPublication
             \/ holding'[b] = holding[b] /\ (Pub!Emitting(b)' => Pub!Emitting(b))
      BY <1>7, <1>f DEF Pub!HandOver, Pub!Emitting
    <3> QED BY <3>1, <3>2, <1>t, <1>n, HoldingStaysTimely
  <2>17. Pub!DeletedAfterOwnHandoff'
    BY <1>7, <1>d, <1>f DEF Pub!DeletedAfterOwnHandoff, Pub!HandOver
  <2>18. Pub!FilesHandedOver'
    BY <1>7, <1>d2, <1>f DEF Pub!FilesHandedOver, Pub!HandedOver,
       Pub!HandOver
  <2>19. Pub!AppliedInTime'
    BY <1>7, <1>d3, <1>f DEF Pub!AppliedInTime, Pub!HandOver
  <2> QED BY <2>1, <2>2, <2>3, <2>4, <2>5, <2>6, <2>7, <2>8, <2>9, <2>10, <2>11, <2>12,
         <2>13,
     <2>14, <2>15, <2>16, <2>17, <2>18, <2>19 DEF Pub!PublicationInvariant, Pub!TypeOK
<1>8. CASE Pub!Emitted(a)
  <2>1. (onDisk \subseteq Pub!Shots /\ claimed \subseteq Pub!Shots /\ accepted \subseteq Pub!Shots /\ deferred \subseteq accepted /\ handed \subseteq Pub!Shots /\ refused \subseteq Pub!Shots)'
    BY <1>8, <1>t DEF Pub!TypeOK, Pub!Emitted, Pub!LooksAlive
  <2>2. (frontier \in 0..MaxKey /\ stream \in {"new", "open", "done", "barred"} /\ group \subseteq Fragments /\ token \in Nat /\ {sourceGate, pending, applied} \subseteq 0..MaxKey)'
    BY <1>8, <1>t DEF Pub!TypeOK, Pub!Emitted, Pub!LooksAlive
  <2>3. (armed \in BOOLEAN /\ active \in BOOLEAN /\ stopped \in BOOLEAN /\ raised \in BOOLEAN /\ shutdown \in {"running", "stopping", "flushed", "closed"})'
    BY <1>8, <1>t DEF Pub!TypeOK, Pub!Emitted, Pub!LooksAlive
  <2>4. (queue \in Seq(Pub!Publication))'
    BY <1>8, <1>t DEF Pub!TypeOK, Pub!Emitted, Pub!LooksAlive
  <2>5. (pc \in [Pub!Actors -> {"idle", "accept", "notify", "drain", "emit", "handing", "emitted", "dead", "delete", "unlink"}])'
    BY <1>8, <1>t DEF Pub!TypeOK, Pub!Emitted, Pub!LooksAlive
  <2>6. (shot \in [Workers -> Pub!Shots \cup {NoKey}] /\ files \in [Pub!Actors -> SUBSET Pub!Shots] /\ holding \in [Pub!Actors -> Pub!Publication \cup {Pub!NoPublication}])'
    BY <1>8, <1>t DEF Pub!TypeOK, Pub!Emitted, Pub!LooksAlive
  <2>7. Pub!PublisherInvariant'
    BY <1>8, <1>p, <1>f DEF Pub!PublisherInvariant, Pub!OnePublisher,
       Pub!Publishing, Pub!Emitted, Pub!LooksAlive
  <2>8. Pub!ClaimInvariant'
    BY <1>8, <1>c, <1>f DEF Pub!ClaimInvariant, Pub!Emitted,
       Pub!LooksAlive
  <2>9. Pub!WithinFrontier'
    BY <1>8, <1>g, <1>f DEF Pub!WithinFrontier, Pub!Emitted,
       Pub!LooksAlive
  <2>10. Pub!OpenGroup'
    BY <1>8, <1>h, <1>f DEF Pub!OpenGroup, Pub!Emitted,
       Pub!LooksAlive
  <2>11. Pub!HandedInOrder'
    BY <1>8, <1>o, <1>f DEF Pub!HandedInOrder, Pub!Emitted,
       Pub!LooksAlive
  <2>12. Pub!QueueInOrder'
    BY <1>8, <1>q, <1>f DEF Pub!QueueInOrder, Pub!InTurn,
       Pub!Emitted, Pub!LooksAlive
  <2>13. Pub!EmittingInOrder'
    BY <1>8, <1>e, <1>f DEF Pub!EmittingInOrder, Pub!InTurn,
       Pub!Emitting, Pub!Emitted, Pub!LooksAlive
  <2>14. Pub!AwaitInvariant'
    BY <1>8, <1>a, <1>f DEF Pub!AwaitInvariant, Pub!Awaited,
       Pub!Emitting, Pub!Emitted, Pub!LooksAlive
  <2>15. Pub!QueueTimely'
    BY <1>8, <1>m, <1>f DEF Pub!QueueTimely, Pub!Timely,
       Pub!Emitted, Pub!LooksAlive
  <2>16. Pub!HoldingTimely'
    <3>1. UNCHANGED <<handed, accepted>> /\ (token' = token \/ token' = token + 1)
      BY <1>8 DEF Pub!Emitted, Pub!LooksAlive
    <3>2. \A b \in Pub!Actors :
             \/ holding'[b] = Pub!NoPublication
             \/ holding'[b] = holding[b] /\ (Pub!Emitting(b)' => Pub!Emitting(b))
      BY <1>8, <1>f DEF Pub!Emitted, Pub!LooksAlive, Pub!Emitting
    <3> QED BY <3>1, <3>2, <1>t, <1>n, HoldingStaysTimely
  <2>17. Pub!DeletedAfterOwnHandoff'
    BY <1>8, <1>d, <1>f DEF Pub!DeletedAfterOwnHandoff, Pub!Emitted,
       Pub!LooksAlive
  <2>18. Pub!FilesHandedOver'
    BY <1>8, <1>d2, <1>f DEF Pub!FilesHandedOver, Pub!HandedOver,
       Pub!Emitted, Pub!LooksAlive
  <2>19. Pub!AppliedInTime'
    BY <1>8, <1>d3, <1>f DEF Pub!AppliedInTime, Pub!Emitted,
       Pub!LooksAlive
  <2> QED BY <2>1, <2>2, <2>3, <2>4, <2>5, <2>6, <2>7, <2>8, <2>9, <2>10, <2>11, <2>12,
         <2>13,
     <2>14, <2>15, <2>16, <2>17, <2>18, <2>19 DEF Pub!PublicationInvariant, Pub!TypeOK
<1>9. CASE Pub!EmitRaises(a)
  <2>1. (onDisk \subseteq Pub!Shots /\ claimed \subseteq Pub!Shots /\ accepted \subseteq Pub!Shots /\ deferred \subseteq accepted /\ handed \subseteq Pub!Shots /\ refused \subseteq Pub!Shots)'
    BY <1>9, <1>t DEF Pub!TypeOK, Pub!EmitRaises
  <2>2. (frontier \in 0..MaxKey /\ stream \in {"new", "open", "done", "barred"} /\ group \subseteq Fragments /\ token \in Nat /\ {sourceGate, pending, applied} \subseteq 0..MaxKey)'
    BY <1>9, <1>t DEF Pub!TypeOK, Pub!EmitRaises
  <2>3. (armed \in BOOLEAN /\ active \in BOOLEAN /\ stopped \in BOOLEAN /\ raised \in BOOLEAN /\ shutdown \in {"running", "stopping", "flushed", "closed"})'
    BY <1>9, <1>t DEF Pub!TypeOK, Pub!EmitRaises
  <2>4. (queue \in Seq(Pub!Publication))'
    BY <1>9, <1>t DEF Pub!TypeOK, Pub!EmitRaises
  <2>5. (pc \in [Pub!Actors -> {"idle", "accept", "notify", "drain", "emit", "handing", "emitted", "dead", "delete", "unlink"}])'
    BY <1>9, <1>t DEF Pub!TypeOK, Pub!EmitRaises
  <2>6. (shot \in [Workers -> Pub!Shots \cup {NoKey}] /\ files \in [Pub!Actors -> SUBSET Pub!Shots] /\ holding \in [Pub!Actors -> Pub!Publication \cup {Pub!NoPublication}])'
    BY <1>9, <1>t DEF Pub!TypeOK, Pub!EmitRaises
  <2>7. Pub!PublisherInvariant'
    BY <1>9, <1>p, <1>f DEF Pub!PublisherInvariant, Pub!OnePublisher,
       Pub!Publishing, Pub!EmitRaises
  <2>8. Pub!ClaimInvariant'
    BY <1>9, <1>c, <1>f DEF Pub!ClaimInvariant, Pub!EmitRaises
  <2>9. Pub!WithinFrontier'
    BY <1>9, <1>g, <1>f DEF Pub!WithinFrontier, Pub!EmitRaises
  <2>10. Pub!OpenGroup'
    BY <1>9, <1>h, <1>f DEF Pub!OpenGroup, Pub!EmitRaises
  <2>11. Pub!HandedInOrder'
    BY <1>9, <1>o, <1>f DEF Pub!HandedInOrder, Pub!EmitRaises
  <2>12. Pub!QueueInOrder'
    BY <1>9, <1>q, <1>f DEF Pub!QueueInOrder, Pub!InTurn,
       Pub!EmitRaises
  <2>13. Pub!EmittingInOrder'
    BY <1>9, <1>e, <1>f DEF Pub!EmittingInOrder, Pub!InTurn,
       Pub!Emitting, Pub!EmitRaises
  <2>14. Pub!AwaitInvariant'
    BY <1>9, <1>a, <1>f DEF Pub!AwaitInvariant, Pub!Awaited,
       Pub!Emitting, Pub!EmitRaises
  <2>15. Pub!QueueTimely'
    BY <1>9, <1>m, <1>f DEF Pub!QueueTimely, Pub!Timely,
       Pub!EmitRaises
  <2>16. Pub!HoldingTimely'
    <3>1. UNCHANGED <<handed, accepted>> /\ (token' = token \/ token' = token + 1)
      BY <1>9 DEF Pub!EmitRaises
    <3>2. \A b \in Pub!Actors :
             \/ holding'[b] = Pub!NoPublication
             \/ holding'[b] = holding[b] /\ (Pub!Emitting(b)' => Pub!Emitting(b))
      BY <1>9, <1>f DEF Pub!EmitRaises, Pub!Emitting
    <3> QED BY <3>1, <3>2, <1>t, <1>n, HoldingStaysTimely
  <2>17. Pub!DeletedAfterOwnHandoff'
    BY <1>9, <1>d, <1>f DEF Pub!DeletedAfterOwnHandoff, Pub!EmitRaises
  <2>18. Pub!FilesHandedOver'
    BY <1>9, <1>d2, <1>f DEF Pub!FilesHandedOver, Pub!HandedOver,
       Pub!EmitRaises
  <2>19. Pub!AppliedInTime'
    BY <1>9, <1>d3, <1>f DEF Pub!AppliedInTime, Pub!EmitRaises
  <2> QED BY <2>1, <2>2, <2>3, <2>4, <2>5, <2>6, <2>7, <2>8, <2>9, <2>10, <2>11, <2>12,
         <2>13,
     <2>14, <2>15, <2>16, <2>17, <2>18, <2>19 DEF Pub!PublicationInvariant, Pub!TypeOK
<1>10. CASE Pub!Abandon(a)
  <2>1. (onDisk \subseteq Pub!Shots /\ claimed \subseteq Pub!Shots /\ accepted \subseteq Pub!Shots /\ deferred \subseteq accepted /\ handed \subseteq Pub!Shots /\ refused \subseteq Pub!Shots)'
    BY <1>10, <1>t DEF Pub!TypeOK, Pub!Abandon, Pub!ClearQueue
  <2>2. (frontier \in 0..MaxKey /\ stream \in {"new", "open", "done", "barred"} /\ group \subseteq Fragments /\ token \in Nat /\ {sourceGate, pending, applied} \subseteq 0..MaxKey)'
    BY <1>10, <1>t DEF Pub!TypeOK, Pub!Abandon, Pub!ClearQueue
  <2>3. (armed \in BOOLEAN /\ active \in BOOLEAN /\ stopped \in BOOLEAN /\ raised \in BOOLEAN /\ shutdown \in {"running", "stopping", "flushed", "closed"})'
    BY <1>10, <1>t DEF Pub!TypeOK, Pub!Abandon, Pub!ClearQueue
  <2>4. (queue \in Seq(Pub!Publication))'
    BY <1>10, <1>t DEF Pub!TypeOK, Pub!Abandon, Pub!ClearQueue
  <2>5. (pc \in [Pub!Actors -> {"idle", "accept", "notify", "drain", "emit", "handing", "emitted", "dead", "delete", "unlink"}])'
    BY <1>10, <1>t DEF Pub!TypeOK, Pub!Abandon, Pub!ClearQueue
  <2>6. (shot \in [Workers -> Pub!Shots \cup {NoKey}] /\ files \in [Pub!Actors -> SUBSET Pub!Shots] /\ holding \in [Pub!Actors -> Pub!Publication \cup {Pub!NoPublication}])'
    BY <1>10, <1>t DEF Pub!TypeOK, Pub!Abandon, Pub!ClearQueue
  <2>7. Pub!PublisherInvariant'
    BY <1>10, <1>p, <1>f DEF Pub!PublisherInvariant, Pub!OnePublisher,
       Pub!Publishing, Pub!Abandon, Pub!ClearQueue
  <2>8. Pub!ClaimInvariant'
    BY <1>10, <1>c, <1>f DEF Pub!ClaimInvariant, Pub!Abandon,
       Pub!ClearQueue
  <2>9. Pub!WithinFrontier'
    BY <1>10, <1>g, <1>f DEF Pub!WithinFrontier, Pub!Abandon,
       Pub!ClearQueue
  <2>10. Pub!OpenGroup'
    BY <1>10, <1>h, <1>f DEF Pub!OpenGroup, Pub!Abandon,
       Pub!ClearQueue
  <2>11. Pub!HandedInOrder'
    BY <1>10, <1>o, <1>f DEF Pub!HandedInOrder, Pub!Abandon,
       Pub!ClearQueue
  <2>12. Pub!QueueInOrder'
    BY <1>10, <1>q, <1>f DEF Pub!QueueInOrder, Pub!InTurn,
       Pub!Abandon, Pub!ClearQueue
  <2>13. Pub!EmittingInOrder'
    BY <1>10, <1>e, <1>f DEF Pub!EmittingInOrder, Pub!InTurn,
       Pub!Emitting, Pub!Abandon, Pub!ClearQueue
  <2>14. Pub!AwaitInvariant'
    <3>1. stopped'
      BY <1>10, <1>p DEF Pub!Abandon, Pub!PublisherInvariant
    <3> QED BY <3>1 DEF Pub!AwaitInvariant
  <2>15. Pub!QueueTimely'
    BY <1>10, <1>m, <1>f DEF Pub!QueueTimely, Pub!Timely,
       Pub!Abandon, Pub!ClearQueue
  <2>16. Pub!HoldingTimely'
    <3>1. UNCHANGED <<handed, accepted>> /\ (token' = token \/ token' = token + 1)
      BY <1>10 DEF Pub!Abandon, Pub!ClearQueue
    <3>2. \A b \in Pub!Actors :
             \/ holding'[b] = Pub!NoPublication
             \/ holding'[b] = holding[b] /\ (Pub!Emitting(b)' => Pub!Emitting(b))
      BY <1>10, <1>f DEF Pub!Abandon, Pub!ClearQueue, Pub!Emitting
    <3> QED BY <3>1, <3>2, <1>t, <1>n, HoldingStaysTimely
  <2>17. Pub!DeletedAfterOwnHandoff'
    BY <1>10, <1>d, <1>f DEF Pub!DeletedAfterOwnHandoff, Pub!Abandon,
       Pub!ClearQueue
  <2>18. Pub!FilesHandedOver'
    BY <1>10, <1>d2, <1>f DEF Pub!FilesHandedOver, Pub!HandedOver,
       Pub!Abandon, Pub!ClearQueue
  <2>19. Pub!AppliedInTime'
    BY <1>10, <1>d3, <1>f DEF Pub!AppliedInTime, Pub!Abandon,
       Pub!ClearQueue
  <2> QED BY <2>1, <2>2, <2>3, <2>4, <2>5, <2>6, <2>7, <2>8, <2>9, <2>10, <2>11, <2>12,
         <2>13,
     <2>14, <2>15, <2>16, <2>17, <2>18, <2>19 DEF Pub!PublicationInvariant, Pub!TypeOK
<1>11. CASE Pub!Delete(a)
  <2>1. (onDisk \subseteq Pub!Shots /\ claimed \subseteq Pub!Shots /\ accepted \subseteq Pub!Shots /\ deferred \subseteq accepted /\ handed \subseteq Pub!Shots /\ refused \subseteq Pub!Shots)'
    BY <1>11, <1>t DEF Pub!TypeOK, Pub!Delete, Pub!MayDelete
  <2>2. (frontier \in 0..MaxKey /\ stream \in {"new", "open", "done", "barred"} /\ group \subseteq Fragments /\ token \in Nat /\ {sourceGate, pending, applied} \subseteq 0..MaxKey)'
    BY <1>11, <1>t DEF Pub!TypeOK, Pub!Delete, Pub!MayDelete
  <2>3. (armed \in BOOLEAN /\ active \in BOOLEAN /\ stopped \in BOOLEAN /\ raised \in BOOLEAN /\ shutdown \in {"running", "stopping", "flushed", "closed"})'
    BY <1>11, <1>t DEF Pub!TypeOK, Pub!Delete, Pub!MayDelete
  <2>4. (queue \in Seq(Pub!Publication))'
    BY <1>11, <1>t DEF Pub!TypeOK, Pub!Delete, Pub!MayDelete
  <2>5. (pc \in [Pub!Actors -> {"idle", "accept", "notify", "drain", "emit", "handing", "emitted", "dead", "delete", "unlink"}])'
    BY <1>11, <1>t DEF Pub!TypeOK, Pub!Delete, Pub!MayDelete
  <2>6. (shot \in [Workers -> Pub!Shots \cup {NoKey}] /\ files \in [Pub!Actors -> SUBSET Pub!Shots] /\ holding \in [Pub!Actors -> Pub!Publication \cup {Pub!NoPublication}])'
    BY <1>11, <1>t DEF Pub!TypeOK, Pub!Delete, Pub!MayDelete
  <2>7. Pub!PublisherInvariant'
    BY <1>11, <1>p, <1>f DEF Pub!PublisherInvariant, Pub!OnePublisher,
       Pub!Publishing, Pub!Delete, Pub!MayDelete
  <2>8. Pub!ClaimInvariant'
    BY <1>11, <1>c, <1>f DEF Pub!ClaimInvariant, Pub!Delete,
       Pub!MayDelete
  <2>9. Pub!WithinFrontier'
    BY <1>11, <1>g, <1>f DEF Pub!WithinFrontier, Pub!Delete,
       Pub!MayDelete
  <2>10. Pub!OpenGroup'
    BY <1>11, <1>h, <1>f DEF Pub!OpenGroup, Pub!Delete,
       Pub!MayDelete
  <2>11. Pub!HandedInOrder'
    BY <1>11, <1>o, <1>f DEF Pub!HandedInOrder, Pub!Delete,
       Pub!MayDelete
  <2>12. Pub!QueueInOrder'
    BY <1>11, <1>q, <1>f DEF Pub!QueueInOrder, Pub!InTurn,
       Pub!Delete, Pub!MayDelete
  <2>13. Pub!EmittingInOrder'
    BY <1>11, <1>e, <1>f DEF Pub!EmittingInOrder, Pub!InTurn,
       Pub!Emitting, Pub!Delete, Pub!MayDelete
  <2>14. Pub!AwaitInvariant'
    BY <1>11, <1>a, <1>f DEF Pub!AwaitInvariant, Pub!Awaited,
       Pub!Emitting, Pub!Delete, Pub!MayDelete
  <2>15. Pub!QueueTimely'
    BY <1>11, <1>m, <1>f DEF Pub!QueueTimely, Pub!Timely,
       Pub!Delete, Pub!MayDelete
  <2>16. Pub!HoldingTimely'
    <3>1. UNCHANGED <<handed, accepted>> /\ (token' = token \/ token' = token + 1)
      BY <1>11 DEF Pub!Delete
    <3>2. \A b \in Pub!Actors :
             \/ holding'[b] = Pub!NoPublication
             \/ holding'[b] = holding[b] /\ (Pub!Emitting(b)' => Pub!Emitting(b))
      BY <1>11, <1>f DEF Pub!Delete, Pub!Emitting
    <3> QED BY <3>1, <3>2, <1>t, <1>n, HoldingStaysTimely
  <2>17. Pub!DeletedAfterOwnHandoff'
    BY <1>11, <1>d, <1>f DEF Pub!DeletedAfterOwnHandoff, Pub!Delete,
       Pub!MayDelete
  <2>18. Pub!FilesHandedOver'
    BY <1>11, <1>d2, <1>f DEF Pub!FilesHandedOver, Pub!HandedOver,
       Pub!Delete, Pub!MayDelete
  <2>19. Pub!AppliedInTime'
    BY <1>11, <1>d3, <1>p, <1>f DEF Pub!AppliedInTime,
       Pub!PublisherInvariant, Pub!Delete, Pub!MayDelete
  <2> QED BY <2>1, <2>2, <2>3, <2>4, <2>5, <2>6, <2>7, <2>8, <2>9, <2>10, <2>11, <2>12,
         <2>13,
     <2>14, <2>15, <2>16, <2>17, <2>18, <2>19 DEF Pub!PublicationInvariant, Pub!TypeOK
<1>12. CASE Pub!Unlink(a)
  <2>1. (onDisk \subseteq Pub!Shots /\ claimed \subseteq Pub!Shots /\ accepted \subseteq Pub!Shots /\ deferred \subseteq accepted /\ handed \subseteq Pub!Shots /\ refused \subseteq Pub!Shots)'
    BY <1>12, <1>t DEF Pub!TypeOK, Pub!Unlink
  <2>2. (frontier \in 0..MaxKey /\ stream \in {"new", "open", "done", "barred"} /\ group \subseteq Fragments /\ token \in Nat /\ {sourceGate, pending, applied} \subseteq 0..MaxKey)'
    BY <1>12, <1>t DEF Pub!TypeOK, Pub!Unlink
  <2>3. (armed \in BOOLEAN /\ active \in BOOLEAN /\ stopped \in BOOLEAN /\ raised \in BOOLEAN /\ shutdown \in {"running", "stopping", "flushed", "closed"})'
    BY <1>12, <1>t DEF Pub!TypeOK, Pub!Unlink
  <2>4. (queue \in Seq(Pub!Publication))'
    BY <1>12, <1>t DEF Pub!TypeOK, Pub!Unlink
  <2>5. (pc \in [Pub!Actors -> {"idle", "accept", "notify", "drain", "emit", "handing", "emitted", "dead", "delete", "unlink"}])'
    BY <1>12, <1>t DEF Pub!TypeOK, Pub!Unlink
  <2>6. (shot \in [Workers -> Pub!Shots \cup {NoKey}] /\ files \in [Pub!Actors -> SUBSET Pub!Shots] /\ holding \in [Pub!Actors -> Pub!Publication \cup {Pub!NoPublication}])'
    BY <1>12, <1>t DEF Pub!TypeOK, Pub!Unlink
  <2>7. Pub!PublisherInvariant'
    BY <1>12, <1>p, <1>f DEF Pub!PublisherInvariant, Pub!OnePublisher,
       Pub!Publishing, Pub!Unlink
  <2>8. Pub!ClaimInvariant'
    BY <1>12, <1>c, <1>f DEF Pub!ClaimInvariant, Pub!Unlink
  <2>9. Pub!WithinFrontier'
    BY <1>12, <1>g, <1>f DEF Pub!WithinFrontier, Pub!Unlink
  <2>10. Pub!OpenGroup'
    BY <1>12, <1>h, <1>f DEF Pub!OpenGroup, Pub!Unlink
  <2>11. Pub!HandedInOrder'
    BY <1>12, <1>o, <1>f DEF Pub!HandedInOrder, Pub!Unlink
  <2>12. Pub!QueueInOrder'
    BY <1>12, <1>q, <1>f DEF Pub!QueueInOrder, Pub!InTurn,
       Pub!Unlink
  <2>13. Pub!EmittingInOrder'
    BY <1>12, <1>e, <1>f DEF Pub!EmittingInOrder, Pub!InTurn,
       Pub!Emitting, Pub!Unlink
  <2>14. Pub!AwaitInvariant'
    BY <1>12, <1>a, <1>f DEF Pub!AwaitInvariant, Pub!Awaited,
       Pub!Emitting, Pub!Unlink
  <2>15. Pub!QueueTimely'
    BY <1>12, <1>m, <1>f DEF Pub!QueueTimely, Pub!Timely, Pub!Unlink
  <2>16. Pub!HoldingTimely'
    <3>1. UNCHANGED <<handed, accepted>> /\ (token' = token \/ token' = token + 1)
      BY <1>12 DEF Pub!Unlink
    <3>2. \A b \in Pub!Actors :
             \/ holding'[b] = Pub!NoPublication
             \/ holding'[b] = holding[b] /\ (Pub!Emitting(b)' => Pub!Emitting(b))
      BY <1>12, <1>f DEF Pub!Unlink, Pub!Emitting
    <3> QED BY <3>1, <3>2, <1>t, <1>n, HoldingStaysTimely
  <2>17. Pub!DeletedAfterOwnHandoff'
    <3>1. \A k \in accepted \ (onDisk \cup deferred) : Pub!HandedOver(k)
      BY <1>d DEF Pub!DeletedAfterOwnHandoff, Pub!HandedOver
    <3>2. \A k \in (files[a] \cap accepted) \ deferred : Pub!HandedOver(k)
      BY <1>12, <1>d2 DEF Pub!FilesHandedOver, Pub!Unlink
    <3>3. onDisk' = onDisk \ files[a] /\ UNCHANGED <<accepted, deferred, handed>>
      BY <1>12 DEF Pub!Unlink
    <3> QED BY <3>1, <3>2, <3>3 DEF Pub!DeletedAfterOwnHandoff,
           Pub!HandedOver
  <2>18. Pub!FilesHandedOver'
    BY <1>12, <1>d2, <1>f DEF Pub!FilesHandedOver, Pub!HandedOver,
       Pub!Unlink
  <2>19. Pub!AppliedInTime'
    BY <1>12, <1>d3, <1>f DEF Pub!AppliedInTime, Pub!Unlink
  <2> QED BY <2>1, <2>2, <2>3, <2>4, <2>5, <2>6, <2>7, <2>8, <2>9, <2>10, <2>11, <2>12,
         <2>13,
     <2>14, <2>15, <2>16, <2>17, <2>18, <2>19 DEF Pub!PublicationInvariant, Pub!TypeOK
<1> QED BY <1>1, <1>2, <1>3, <1>4, <1>5, <1>6, <1>7, <1>8, <1>9, <1>10, <1>11, <1>12 DEF
       Pub!Publish, Pub!Remove

LEMMA PublicationNextKeeps ==
  ASSUME Pub!PublicationInvariant, Pub!Next
  PROVE  Pub!PublicationInvariant'
<1>t. Pub!TypeOK
  BY DEF Pub!PublicationInvariant
<1>p. Pub!PublisherInvariant
  BY DEF Pub!PublicationInvariant
<1>c. Pub!ClaimInvariant
  BY DEF Pub!PublicationInvariant
<1>g. Pub!WithinFrontier
  BY DEF Pub!PublicationInvariant
<1>h. Pub!OpenGroup
  BY DEF Pub!PublicationInvariant
<1>o. Pub!HandedInOrder
  BY DEF Pub!PublicationInvariant
<1>q. Pub!QueueInOrder
  BY DEF Pub!PublicationInvariant
<1>e. Pub!EmittingInOrder
  BY DEF Pub!PublicationInvariant
<1>a. Pub!AwaitInvariant
  BY DEF Pub!PublicationInvariant
<1>m. Pub!QueueTimely
  BY DEF Pub!PublicationInvariant
<1>n. Pub!HoldingTimely
  BY DEF Pub!PublicationInvariant
<1>d. Pub!DeletedAfterOwnHandoff
  BY DEF Pub!PublicationInvariant
<1>d2. Pub!FilesHandedOver
  BY DEF Pub!PublicationInvariant
<1>d3. Pub!AppliedInTime
  BY DEF Pub!PublicationInvariant
<1>f. /\ pc \in [Pub!Actors -> {"idle", "accept", "notify", "drain", "emit", "handing", "emitted", "dead", "delete", "unlink"}]
      /\ shot \in [Workers -> Pub!Shots \cup {NoKey}] /\ files \in [Pub!Actors -> SUBSET Pub!Shots]
      /\ holding \in [Pub!Actors -> Pub!Publication \cup {Pub!NoPublication}]
  BY <1>t DEF Pub!TypeOK
<1> USE PublicationAssumption DEF Pub!ActorAssumption, Pub!KeyAssumption,
       Pub!Actors, Pub!Shots, Pub!Goto, Pub!Leave,
       Pub!ToDelete, Pub!diskVars, Pub!assemblerVars,
       Pub!expiryVars, Pub!publicationVars, Pub!workerVars,
       Pub!threadVars, Pub!handoffVars, Pub!guiVars
<1>1. CASE Pub!ExpireFragments
  <2>a. group # {} /\ group \in SUBSET Pub!Shots /\ Pub!Newest(group) \in Pub!Shots
    <3>1. group # {} /\ group \in SUBSET Pub!Shots
      BY <1>1, <1>g, <1>t DEF Pub!WithinFrontier, Pub!TypeOK,
         Pub!ExpireFragments
    <3> QED BY <3>1, NewestExists
  <2> DEFINE p == [kind |-> "timeout", key |-> Pub!Newest(group), token |-> token, past |-> accepted]
  <2>b. p \in Pub!Publication /\ p.kind = "timeout" /\ p.token = token /\ p.past = accepted
    BY <2>a, <1>t DEF Pub!Publication, Pub!TypeOK
  <2>h. holding' = [holding EXCEPT ![Timer] = p] /\ pc[Timer] = "idle"
        /\ pc' = [pc EXCEPT ![Timer] = "delete"] /\ UNCHANGED <<token, accepted, handed>>
    BY <1>1 DEF Pub!ExpireFragments
  <2> HIDE DEF p
  <2>i. Timer \in Pub!Actors /\ holding'[Timer] = p /\ pc'[Timer] = "delete"
        /\ \A b \in Pub!Actors : b # Timer => pc'[b] = pc[b] /\ holding'[b] = holding[b]
    BY <2>h, <1>f
  <2>1. (onDisk \subseteq Pub!Shots /\ claimed \subseteq Pub!Shots /\ accepted \subseteq Pub!Shots /\ deferred \subseteq accepted /\ handed \subseteq Pub!Shots /\ refused \subseteq Pub!Shots)'
    BY <1>1, <1>t DEF Pub!TypeOK, Pub!ExpireFragments
  <2>2. (frontier \in 0..MaxKey /\ stream \in {"new", "open", "done", "barred"} /\ group \subseteq Fragments /\ token \in Nat /\ {sourceGate, pending, applied} \subseteq 0..MaxKey)'
    BY <1>1, <1>t DEF Pub!TypeOK, Pub!ExpireFragments
  <2>3. (armed \in BOOLEAN /\ active \in BOOLEAN /\ stopped \in BOOLEAN /\ raised \in BOOLEAN /\ shutdown \in {"running", "stopping", "flushed", "closed"})'
    BY <1>1, <1>t DEF Pub!TypeOK, Pub!ExpireFragments
  <2>4. (queue \in Seq(Pub!Publication))'
    BY <1>1, <1>t DEF Pub!TypeOK, Pub!ExpireFragments
  <2>5. (pc \in [Pub!Actors -> {"idle", "accept", "notify", "drain", "emit", "handing", "emitted", "dead", "delete", "unlink"}])'
    BY <1>1, <1>t DEF Pub!TypeOK, Pub!ExpireFragments
  <2>6. (shot \in [Workers -> Pub!Shots \cup {NoKey}] /\ files \in [Pub!Actors -> SUBSET Pub!Shots] /\ holding \in [Pub!Actors -> Pub!Publication \cup {Pub!NoPublication}])'
    BY <2>a, <2>b, <2>h, <1>f, <1>1 DEF Pub!ExpireFragments
  <2>7. Pub!PublisherInvariant'
    <3>1. UNCHANGED <<active, queue, raised, stopped, shutdown>>
      BY <1>1 DEF Pub!ExpireFragments
    <3>2. \A b \in Pub!Actors : Pub!Publishing(b)' <=> Pub!Publishing(b)
      BY <2>h, <2>i DEF Pub!Publishing
    <3>3. Pub!OnePublisher'
      BY <3>1, <3>2, <1>p DEF Pub!OnePublisher, Pub!PublisherInvariant
    <3> QED BY <3>1, <3>3, <2>b, <2>i, <1>p DEF Pub!PublisherInvariant
  <2>8. Pub!ClaimInvariant'
    BY <1>1, <1>c, <1>f DEF Pub!ClaimInvariant, Pub!ExpireFragments
  <2>9. Pub!WithinFrontier'
    BY <1>1, <1>g, <1>f DEF Pub!WithinFrontier, Pub!ExpireFragments
  <2>10. Pub!OpenGroup'
    <3>0. \E k : k \in group
      BY <2>a
    <3>1. PICK k \in group : k \in claimed \cap Fragments /\ \A v \in Workers : pc[v] = "accept" => shot[v] # k
      BY <3>0, <1>c, <1>t DEF Pub!ClaimInvariant, Pub!TypeOK
    <3>2. group' = {} /\ UNCHANGED <<claimed, shot, stream>>
      BY <1>1 DEF Pub!ExpireFragments
    <3>3. \A v \in Workers : pc'[v] = "accept" => pc[v] = "accept"
      BY <2>i
    <3> QED BY <3>1, <3>2, <3>3 DEF Pub!OpenGroup
  <2>11. Pub!HandedInOrder'
    BY <1>1, <1>o, <1>f DEF Pub!HandedInOrder, Pub!ExpireFragments
  <2>12. Pub!QueueInOrder'
    BY <1>1, <1>q, <1>f DEF Pub!QueueInOrder, Pub!InTurn,
       Pub!ExpireFragments
  <2>13. Pub!EmittingInOrder'
    BY <1>1, <1>e, <1>f DEF Pub!EmittingInOrder, Pub!InTurn,
       Pub!Emitting, Pub!ExpireFragments
  <2>14. Pub!AwaitInvariant'
    BY <1>1, <1>a, <1>f DEF Pub!AwaitInvariant, Pub!Awaited,
       Pub!Emitting, Pub!ExpireFragments
  <2>15. Pub!QueueTimely'
    BY <1>1, <1>m, <1>f DEF Pub!QueueTimely, Pub!Timely,
       Pub!ExpireFragments
  <2>16. Pub!HoldingTimely'
    <3>1. ASSUME NEW b \in Pub!Actors, b # Timer
          PROVE  Pub!Timely(holding[b])' /\ (Pub!Emitting(b)' /\ holding'[b].kind = "timeout" => handed' \subseteq holding'[b].past)
      BY <3>1, <2>h, <2>i, <1>n DEF Pub!HoldingTimely, Pub!Timely,
         Pub!Emitting
    <3>2. Pub!Timely(holding[Timer])' /\ ~ Pub!Emitting(Timer)'
      <4>1. token \in Nat
        BY <1>t DEF Pub!TypeOK
      <4> QED BY <4>1, <2>h, <2>i, <2>b DEF Pub!Timely, Pub!Emitting
    <3> QED BY <3>1, <3>2 DEF Pub!HoldingTimely
  <2>17. Pub!DeletedAfterOwnHandoff'
    BY <1>1, <1>d, <1>f DEF Pub!DeletedAfterOwnHandoff, Pub!ExpireFragments
  <2>18. Pub!FilesHandedOver'
    <3>1. group \cap accepted = {}
      BY <1>c DEF Pub!ClaimInvariant
    <3>2. files'[Timer] = group /\ (\A b \in Pub!Actors : b # Timer => files'[b] = files[b])
          /\ UNCHANGED deferred
      BY <1>1, <2>i, <1>f DEF Pub!ExpireFragments
    <3> QED BY <3>1, <3>2, <2>h, <2>i, <1>d2 DEF Pub!FilesHandedOver,
           Pub!HandedOver
  <2>19. Pub!AppliedInTime'
    BY <1>1, <1>d3, <1>f DEF Pub!AppliedInTime, Pub!ExpireFragments
  <2> QED BY <2>1, <2>2, <2>3, <2>4, <2>5, <2>6, <2>7, <2>8, <2>9, <2>10, <2>11, <2>12,
         <2>13,
     <2>14, <2>15, <2>16, <2>17, <2>18, <2>19 DEF Pub!PublicationInvariant, Pub!TypeOK
<1>2. CASE Pub!QueueTimeout /\ (stopped \/ Pub!Overtaken(holding[Timer]))
  <2>1. (onDisk \subseteq Pub!Shots /\ claimed \subseteq Pub!Shots /\ accepted \subseteq Pub!Shots /\ deferred \subseteq accepted /\ handed \subseteq Pub!Shots /\ refused \subseteq Pub!Shots)'
    BY <1>2, <1>t DEF Pub!TypeOK, Pub!QueueTimeout
  <2>2. (frontier \in 0..MaxKey /\ stream \in {"new", "open", "done", "barred"} /\ group \subseteq Fragments /\ token \in Nat /\ {sourceGate, pending, applied} \subseteq 0..MaxKey)'
    BY <1>2, <1>t DEF Pub!TypeOK, Pub!QueueTimeout
  <2>3. (armed \in BOOLEAN /\ active \in BOOLEAN /\ stopped \in BOOLEAN /\ raised \in BOOLEAN /\ shutdown \in {"running", "stopping", "flushed", "closed"})'
    BY <1>2, <1>t DEF Pub!TypeOK, Pub!QueueTimeout
  <2>4. (queue \in Seq(Pub!Publication))'
    BY <1>2, <1>t DEF Pub!TypeOK, Pub!QueueTimeout
  <2>5. (pc \in [Pub!Actors -> {"idle", "accept", "notify", "drain", "emit", "handing", "emitted", "dead", "delete", "unlink"}])'
    BY <1>2, <1>t DEF Pub!TypeOK, Pub!QueueTimeout
  <2>6. (shot \in [Workers -> Pub!Shots \cup {NoKey}] /\ files \in [Pub!Actors -> SUBSET Pub!Shots] /\ holding \in [Pub!Actors -> Pub!Publication \cup {Pub!NoPublication}])'
    BY <1>2, <1>t DEF Pub!TypeOK, Pub!QueueTimeout
  <2>7. Pub!PublisherInvariant'
    BY <1>2, <1>p, <1>f DEF Pub!PublisherInvariant, Pub!OnePublisher,
       Pub!Publishing, Pub!QueueTimeout
  <2>8. Pub!ClaimInvariant'
    BY <1>2, <1>c, <1>f DEF Pub!ClaimInvariant, Pub!QueueTimeout
  <2>9. Pub!WithinFrontier'
    BY <1>2, <1>g, <1>f DEF Pub!WithinFrontier, Pub!QueueTimeout
  <2>10. Pub!OpenGroup'
    BY <1>2, <1>h, <1>f DEF Pub!OpenGroup, Pub!QueueTimeout
  <2>11. Pub!HandedInOrder'
    BY <1>2, <1>o, <1>f DEF Pub!HandedInOrder, Pub!QueueTimeout
  <2>12. Pub!QueueInOrder'
    BY <1>2, <1>q, <1>f DEF Pub!QueueInOrder, Pub!InTurn,
       Pub!QueueTimeout
  <2>13. Pub!EmittingInOrder'
    BY <1>2, <1>e, <1>f DEF Pub!EmittingInOrder, Pub!InTurn,
       Pub!Emitting, Pub!QueueTimeout
  <2>14. Pub!AwaitInvariant'
    BY <1>2, <1>a, <1>f DEF Pub!AwaitInvariant, Pub!Awaited,
       Pub!Emitting, Pub!QueueTimeout
  <2>15. Pub!QueueTimely'
    BY <1>2, <1>m, <1>f DEF Pub!QueueTimely, Pub!Timely,
       Pub!QueueTimeout
  <2>16. Pub!HoldingTimely'
    <3>1. UNCHANGED <<handed, accepted>> /\ (token' = token \/ token' = token + 1)
      BY <1>2 DEF Pub!QueueTimeout
    <3>2. \A b \in Pub!Actors :
             \/ holding'[b] = Pub!NoPublication
             \/ holding'[b] = holding[b] /\ (Pub!Emitting(b)' => Pub!Emitting(b))
      BY <1>2, <1>f DEF Pub!QueueTimeout, Pub!Emitting
    <3> QED BY <3>1, <3>2, <1>t, <1>n, HoldingStaysTimely
  <2>17. Pub!DeletedAfterOwnHandoff'
    BY <1>2, <1>d, <1>f DEF Pub!DeletedAfterOwnHandoff, Pub!QueueTimeout
  <2>18. Pub!FilesHandedOver'
    BY <1>2, <1>d2, <1>f DEF Pub!FilesHandedOver, Pub!HandedOver,
       Pub!QueueTimeout
  <2>19. Pub!AppliedInTime'
    BY <1>2, <1>d3, <1>f DEF Pub!AppliedInTime, Pub!QueueTimeout
  <2> QED BY <2>1, <2>2, <2>3, <2>4, <2>5, <2>6, <2>7, <2>8, <2>9, <2>10, <2>11, <2>12,
         <2>13,
     <2>14, <2>15, <2>16, <2>17, <2>18, <2>19 DEF Pub!PublicationInvariant, Pub!TypeOK
<1>3. CASE Pub!QueueTimeout /\ ~(stopped \/ Pub!Overtaken(holding[Timer]))
  <2> DEFINE p == holding[Timer]
  <2>a. /\ Timer \in Pub!Actors /\ pc[Timer] = "notify" /\ p \in Pub!Publication /\ p.kind = "timeout"
        /\ queue' = Append(queue, p) /\ UNCHANGED <<sourceGate, accepted, token, handed>>
        /\ holding' = [holding EXCEPT ![Timer] = Pub!NoPublication]
    BY <1>3, <1>p DEF Pub!QueueTimeout, Pub!QueuePublication,
       Pub!PublisherInvariant
  <2>b. \A b \in Pub!Actors :
           \/ holding'[b] = Pub!NoPublication /\ ~ Pub!Emitting(b)'
           \/ holding'[b] = holding[b] /\ (Pub!Emitting(b)' => Pub!Emitting(b))
    BY <1>3, <2>a, <1>f DEF Pub!QueueTimeout, Pub!QueuePublication,
       Pub!Emitting
  <2>d. queue \in Seq(Pub!Publication)
    BY <1>t DEF Pub!TypeOK
  <2> HIDE DEF p
  <2>e. /\ queue' \in Seq(Pub!Publication) /\ Len(queue) \in Nat /\ Len(queue') = Len(queue) + 1
        /\ queue'[Len(queue) + 1] = p /\ \A i \in 1..Len(queue) : queue'[i] = queue[i]
    BY <2>a, <2>d, Enqueue
  <2>1. (onDisk \subseteq Pub!Shots /\ claimed \subseteq Pub!Shots /\ accepted \subseteq Pub!Shots /\ deferred \subseteq accepted /\ handed \subseteq Pub!Shots /\ refused \subseteq Pub!Shots)'
    BY <1>3, <1>t DEF Pub!TypeOK, Pub!QueueTimeout,
       Pub!QueuePublication, Pub!BecomesPublisher
  <2>2. (frontier \in 0..MaxKey /\ stream \in {"new", "open", "done", "barred"} /\ group \subseteq Fragments /\ token \in Nat /\ {sourceGate, pending, applied} \subseteq 0..MaxKey)'
    BY <1>3, <1>t DEF Pub!TypeOK, Pub!QueueTimeout,
       Pub!QueuePublication, Pub!BecomesPublisher
  <2>3. (armed \in BOOLEAN /\ active \in BOOLEAN /\ stopped \in BOOLEAN /\ raised \in BOOLEAN /\ shutdown \in {"running", "stopping", "flushed", "closed"})'
    BY <1>3, <1>t DEF Pub!TypeOK, Pub!QueueTimeout,
       Pub!QueuePublication, Pub!BecomesPublisher
  <2>4. (queue \in Seq(Pub!Publication))'
    BY <2>e
  <2>5. (pc \in [Pub!Actors -> {"idle", "accept", "notify", "drain", "emit", "handing", "emitted", "dead", "delete", "unlink"}])'
    BY <1>3, <1>t DEF Pub!TypeOK, Pub!QueueTimeout,
       Pub!QueuePublication, Pub!BecomesPublisher
  <2>6. (shot \in [Workers -> Pub!Shots \cup {NoKey}] /\ files \in [Pub!Actors -> SUBSET Pub!Shots] /\ holding \in [Pub!Actors -> Pub!Publication \cup {Pub!NoPublication}])'
    BY <1>3, <1>t DEF Pub!TypeOK, Pub!QueueTimeout,
       Pub!QueuePublication, Pub!BecomesPublisher
  <2>7. Pub!PublisherInvariant'
    BY <1>3, <1>p, <1>f DEF Pub!PublisherInvariant, Pub!OnePublisher,
       Pub!Publishing, Pub!QueueTimeout, Pub!QueuePublication,
       Pub!BecomesPublisher
  <2>8. Pub!ClaimInvariant'
    BY <1>3, <1>c, <1>f DEF Pub!ClaimInvariant, Pub!QueueTimeout,
       Pub!QueuePublication, Pub!BecomesPublisher
  <2>9. Pub!WithinFrontier'
    BY <1>3, <1>g, <1>f DEF Pub!WithinFrontier, Pub!QueueTimeout,
       Pub!QueuePublication, Pub!BecomesPublisher
  <2>10. Pub!OpenGroup'
    BY <1>3, <1>h, <1>f DEF Pub!OpenGroup, Pub!QueueTimeout,
       Pub!QueuePublication, Pub!BecomesPublisher
  <2>11. Pub!HandedInOrder'
    BY <1>3, <1>o, <1>f DEF Pub!HandedInOrder, Pub!QueueTimeout,
       Pub!QueuePublication, Pub!BecomesPublisher
  <2>12. Pub!QueueInOrder'
    BY <2>a, <2>b, <1>t, <1>q, <1>e, EnqueueKeepsOrder
  <2>13. Pub!EmittingInOrder'
    BY <2>a, <2>b, <1>t, <1>q, <1>e, EnqueueKeepsOrder
  <2>14. Pub!AwaitInvariant'
    <3>1. UNCHANGED <<stopped, accepted, handed>> /\ ~ Pub!Emitting(Timer)
      BY <1>3 DEF Pub!QueueTimeout, Pub!Emitting
    <3>3. \A b \in Pub!Actors : b # Timer => holding'[b] = holding[b] /\ pc'[b] = pc[b]
      BY <1>3, <2>a, <1>f DEF Pub!QueueTimeout, Pub!QueuePublication
    <3>2. ASSUME NEW k, Pub!Awaited(k) PROVE Pub!Awaited(k)'
      <4>1. CASE \E i \in 1..Len(queue) : queue[i] = Pub!Snapshot(k)
        BY <4>1, <2>e DEF Pub!Awaited, Pub!Snapshot
      <4>2. ASSUME NEW b \in Pub!Actors, Pub!Emitting(b), holding[b] = Pub!Snapshot(k) PROVE Pub!Awaited(k)'
        BY <4>2, <3>1, <3>3 DEF Pub!Awaited, Pub!Emitting,
           Pub!Snapshot
      <4> QED BY <3>2, <4>1, <4>2 DEF Pub!Awaited
    <3> QED BY <3>1, <3>2, <1>a DEF Pub!AwaitInvariant
  <2>15. Pub!QueueTimely'
    <3>1. p = holding[Timer]
      BY DEF p
    <3>2. \A i \in 1..Len(queue') : (\E j \in 1..Len(queue) : queue'[i] = queue[j]) \/ queue'[i] = holding[Timer]
      BY <3>1, <2>e
    <3> QED BY <3>2, <2>a, <1>t, <1>m, <1>n, QueueStaysTimely
  <2>16. Pub!HoldingTimely'
    BY <2>a, <2>b, <1>t, <1>n, HoldingStaysTimely
  <2>17. Pub!DeletedAfterOwnHandoff'
    BY <1>3, <1>d, <1>f DEF Pub!DeletedAfterOwnHandoff, Pub!QueueTimeout,
       Pub!QueuePublication, Pub!BecomesPublisher
  <2>18. Pub!FilesHandedOver'
    BY <1>3, <1>d2, <1>f DEF Pub!FilesHandedOver, Pub!HandedOver,
       Pub!QueueTimeout, Pub!QueuePublication, Pub!BecomesPublisher
  <2>19. Pub!AppliedInTime'
    BY <1>3, <1>d3, <1>f DEF Pub!AppliedInTime, Pub!QueueTimeout,
       Pub!QueuePublication, Pub!BecomesPublisher
  <2> QED BY <2>1, <2>2, <2>3, <2>4, <2>5, <2>6, <2>7, <2>8, <2>9, <2>10, <2>11, <2>12,
         <2>13,
     <2>14, <2>15, <2>16, <2>17, <2>18, <2>19 DEF Pub!PublicationInvariant, Pub!TypeOK
<1>4. CASE Pub!ScheduledFlush
  <2>1. (onDisk \subseteq Pub!Shots /\ claimed \subseteq Pub!Shots /\ accepted \subseteq Pub!Shots /\ deferred \subseteq accepted /\ handed \subseteq Pub!Shots /\ refused \subseteq Pub!Shots)'
    BY <1>4, <1>t DEF Pub!TypeOK, Pub!ScheduledFlush, Pub!Flush
  <2>2. (frontier \in 0..MaxKey /\ stream \in {"new", "open", "done", "barred"} /\ group \subseteq Fragments /\ token \in Nat /\ {sourceGate, pending, applied} \subseteq 0..MaxKey)'
    BY <1>4, <1>t DEF Pub!TypeOK, Pub!ScheduledFlush, Pub!Flush
  <2>3. (armed \in BOOLEAN /\ active \in BOOLEAN /\ stopped \in BOOLEAN /\ raised \in BOOLEAN /\ shutdown \in {"running", "stopping", "flushed", "closed"})'
    BY <1>4, <1>t DEF Pub!TypeOK, Pub!ScheduledFlush, Pub!Flush
  <2>4. (queue \in Seq(Pub!Publication))'
    BY <1>4, <1>t DEF Pub!TypeOK, Pub!ScheduledFlush, Pub!Flush
  <2>5. (pc \in [Pub!Actors -> {"idle", "accept", "notify", "drain", "emit", "handing", "emitted", "dead", "delete", "unlink"}])'
    BY <1>4, <1>t DEF Pub!TypeOK, Pub!ScheduledFlush, Pub!Flush
  <2>6. (shot \in [Workers -> Pub!Shots \cup {NoKey}] /\ files \in [Pub!Actors -> SUBSET Pub!Shots] /\ holding \in [Pub!Actors -> Pub!Publication \cup {Pub!NoPublication}])'
    BY <1>4, <1>t DEF Pub!TypeOK, Pub!ScheduledFlush, Pub!Flush
  <2>7. Pub!PublisherInvariant'
    BY <1>4, <1>p, <1>f DEF Pub!PublisherInvariant, Pub!OnePublisher,
       Pub!Publishing, Pub!ScheduledFlush, Pub!Flush
  <2>8. Pub!ClaimInvariant'
    BY <1>4, <1>c, <1>f DEF Pub!ClaimInvariant, Pub!ScheduledFlush,
       Pub!Flush
  <2>9. Pub!WithinFrontier'
    BY <1>4, <1>g, <1>f DEF Pub!WithinFrontier, Pub!ScheduledFlush,
       Pub!Flush
  <2>10. Pub!OpenGroup'
    BY <1>4, <1>h, <1>f DEF Pub!OpenGroup, Pub!ScheduledFlush,
       Pub!Flush
  <2>11. Pub!HandedInOrder'
    BY <1>4, <1>o, <1>f DEF Pub!HandedInOrder, Pub!ScheduledFlush,
       Pub!Flush
  <2>12. Pub!QueueInOrder'
    BY <1>4, <1>q, <1>f DEF Pub!QueueInOrder, Pub!InTurn,
       Pub!ScheduledFlush, Pub!Flush
  <2>13. Pub!EmittingInOrder'
    BY <1>4, <1>e, <1>f DEF Pub!EmittingInOrder, Pub!InTurn,
       Pub!Emitting, Pub!ScheduledFlush, Pub!Flush
  <2>14. Pub!AwaitInvariant'
    BY <1>4, <1>a, <1>f DEF Pub!AwaitInvariant, Pub!Awaited,
       Pub!Emitting, Pub!ScheduledFlush, Pub!Flush
  <2>15. Pub!QueueTimely'
    BY <1>4, <1>m, <1>f DEF Pub!QueueTimely, Pub!Timely,
       Pub!ScheduledFlush, Pub!Flush
  <2>16. Pub!HoldingTimely'
    BY <1>4, <1>n, <1>f DEF Pub!HoldingTimely, Pub!Timely,
       Pub!Emitting, Pub!ScheduledFlush, Pub!Flush
  <2>17. Pub!DeletedAfterOwnHandoff'
    BY <1>4, <1>d, <1>f DEF Pub!DeletedAfterOwnHandoff, Pub!ScheduledFlush,
       Pub!Flush
  <2>18. Pub!FilesHandedOver'
    BY <1>4, <1>d2, <1>f DEF Pub!FilesHandedOver, Pub!HandedOver,
       Pub!ScheduledFlush, Pub!Flush
  <2>19. Pub!AppliedInTime'
    <3>1. applied <= applied' /\ applied' \in Nat /\ applied \in Nat
      BY <1>4, <1>o, <1>t DEF Pub!ScheduledFlush, Pub!Flush,
         Pub!HandedInOrder, Pub!TypeOK
    <3>2. UNCHANGED <<shutdown, accepted, deferred, onDisk, pc, files>>
      BY <1>4 DEF Pub!ScheduledFlush
    <3>3. \A j \in accepted : j \in Nat
      BY <1>t DEF Pub!TypeOK
    <3> QED BY <3>1, <3>2, <3>3, <1>d3 DEF Pub!AppliedInTime
  <2> QED BY <2>1, <2>2, <2>3, <2>4, <2>5, <2>6, <2>7, <2>8, <2>9, <2>10, <2>11, <2>12,
         <2>13,
     <2>14, <2>15, <2>16, <2>17, <2>18, <2>19 DEF Pub!PublicationInvariant, Pub!TypeOK
<1>5. CASE Pub!RequestStop
  <2>1. (onDisk \subseteq Pub!Shots /\ claimed \subseteq Pub!Shots /\ accepted \subseteq Pub!Shots /\ deferred \subseteq accepted /\ handed \subseteq Pub!Shots /\ refused \subseteq Pub!Shots)'
    BY <1>5, <1>t DEF Pub!TypeOK, Pub!RequestStop, Pub!CancelExpiry
  <2>2. (frontier \in 0..MaxKey /\ stream \in {"new", "open", "done", "barred"} /\ group \subseteq Fragments /\ token \in Nat /\ {sourceGate, pending, applied} \subseteq 0..MaxKey)'
    BY <1>5, <1>t DEF Pub!TypeOK, Pub!RequestStop, Pub!CancelExpiry
  <2>3. (armed \in BOOLEAN /\ active \in BOOLEAN /\ stopped \in BOOLEAN /\ raised \in BOOLEAN /\ shutdown \in {"running", "stopping", "flushed", "closed"})'
    BY <1>5, <1>t DEF Pub!TypeOK, Pub!RequestStop, Pub!CancelExpiry
  <2>4. (queue \in Seq(Pub!Publication))'
    BY <1>5, <1>t DEF Pub!TypeOK, Pub!RequestStop, Pub!CancelExpiry
  <2>5. (pc \in [Pub!Actors -> {"idle", "accept", "notify", "drain", "emit", "handing", "emitted", "dead", "delete", "unlink"}])'
    BY <1>5, <1>t DEF Pub!TypeOK, Pub!RequestStop, Pub!CancelExpiry
  <2>6. (shot \in [Workers -> Pub!Shots \cup {NoKey}] /\ files \in [Pub!Actors -> SUBSET Pub!Shots] /\ holding \in [Pub!Actors -> Pub!Publication \cup {Pub!NoPublication}])'
    BY <1>5, <1>t DEF Pub!TypeOK, Pub!RequestStop, Pub!CancelExpiry
  <2>7. Pub!PublisherInvariant'
    BY <1>5, <1>p, <1>f DEF Pub!PublisherInvariant, Pub!OnePublisher,
       Pub!Publishing, Pub!RequestStop, Pub!CancelExpiry
  <2>8. Pub!ClaimInvariant'
    BY <1>5, <1>c, <1>f DEF Pub!ClaimInvariant, Pub!RequestStop,
       Pub!CancelExpiry
  <2>9. Pub!WithinFrontier'
    BY <1>5, <1>g, <1>f DEF Pub!WithinFrontier, Pub!RequestStop,
       Pub!CancelExpiry
  <2>10. Pub!OpenGroup'
    BY <1>5, <1>h, <1>f DEF Pub!OpenGroup, Pub!RequestStop,
       Pub!CancelExpiry
  <2>11. Pub!HandedInOrder'
    BY <1>5, <1>o, <1>f DEF Pub!HandedInOrder, Pub!RequestStop,
       Pub!CancelExpiry
  <2>12. Pub!QueueInOrder'
    BY <1>5, <1>q, <1>f DEF Pub!QueueInOrder, Pub!InTurn,
       Pub!RequestStop, Pub!CancelExpiry
  <2>13. Pub!EmittingInOrder'
    BY <1>5, <1>e, <1>f DEF Pub!EmittingInOrder, Pub!InTurn,
       Pub!Emitting, Pub!RequestStop, Pub!CancelExpiry
  <2>14. Pub!AwaitInvariant'
    BY <1>5, <1>a, <1>f DEF Pub!AwaitInvariant, Pub!Awaited,
       Pub!Emitting, Pub!RequestStop, Pub!CancelExpiry
  <2>15. Pub!QueueTimely'
    <3>1. UNCHANGED <<queue, accepted>> /\ (token' = token \/ token' = token + 1)
      BY <1>5 DEF Pub!RequestStop, Pub!CancelExpiry
    <3> QED BY <3>1, <1>t, <1>m, <1>n, QueueStaysTimely
  <2>16. Pub!HoldingTimely'
    <3>1. UNCHANGED <<handed, accepted>> /\ (token' = token \/ token' = token + 1)
      BY <1>5 DEF Pub!RequestStop, Pub!CancelExpiry
    <3>2. \A b \in Pub!Actors :
             \/ holding'[b] = Pub!NoPublication
             \/ holding'[b] = holding[b] /\ (Pub!Emitting(b)' => Pub!Emitting(b))
      BY <1>5, <1>f DEF Pub!RequestStop, Pub!CancelExpiry,
         Pub!Emitting
    <3> QED BY <3>1, <3>2, <1>t, <1>n, HoldingStaysTimely
  <2>17. Pub!DeletedAfterOwnHandoff'
    BY <1>5, <1>d, <1>f DEF Pub!DeletedAfterOwnHandoff, Pub!RequestStop,
       Pub!CancelExpiry
  <2>18. Pub!FilesHandedOver'
    BY <1>5, <1>d2, <1>f DEF Pub!FilesHandedOver, Pub!HandedOver,
       Pub!RequestStop, Pub!CancelExpiry
  <2>19. Pub!AppliedInTime'
    BY <1>5, <1>d3, <1>f DEF Pub!AppliedInTime, Pub!RequestStop,
       Pub!CancelExpiry
  <2> QED BY <2>1, <2>2, <2>3, <2>4, <2>5, <2>6, <2>7, <2>8, <2>9, <2>10, <2>11, <2>12,
         <2>13,
     <2>14, <2>15, <2>16, <2>17, <2>18, <2>19 DEF Pub!PublicationInvariant, Pub!TypeOK
<1>6. CASE Pub!QuiesceFlush
  <2>1. (onDisk \subseteq Pub!Shots /\ claimed \subseteq Pub!Shots /\ accepted \subseteq Pub!Shots /\ deferred \subseteq accepted /\ handed \subseteq Pub!Shots /\ refused \subseteq Pub!Shots)'
    BY <1>6, <1>t DEF Pub!TypeOK, Pub!QuiesceFlush,
       Pub!FlushBeforeClose, Pub!Flush
  <2>2. (frontier \in 0..MaxKey /\ stream \in {"new", "open", "done", "barred"} /\ group \subseteq Fragments /\ token \in Nat /\ {sourceGate, pending, applied} \subseteq 0..MaxKey)'
    BY <1>6, <1>t DEF Pub!TypeOK, Pub!QuiesceFlush,
       Pub!FlushBeforeClose, Pub!Flush
  <2>3. (armed \in BOOLEAN /\ active \in BOOLEAN /\ stopped \in BOOLEAN /\ raised \in BOOLEAN /\ shutdown \in {"running", "stopping", "flushed", "closed"})'
    BY <1>6, <1>t DEF Pub!TypeOK, Pub!QuiesceFlush,
       Pub!FlushBeforeClose, Pub!Flush
  <2>4. (queue \in Seq(Pub!Publication))'
    BY <1>6, <1>t DEF Pub!TypeOK, Pub!QuiesceFlush,
       Pub!FlushBeforeClose, Pub!Flush
  <2>5. (pc \in [Pub!Actors -> {"idle", "accept", "notify", "drain", "emit", "handing", "emitted", "dead", "delete", "unlink"}])'
    BY <1>6, <1>t DEF Pub!TypeOK, Pub!QuiesceFlush,
       Pub!FlushBeforeClose, Pub!Flush
  <2>6. (shot \in [Workers -> Pub!Shots \cup {NoKey}] /\ files \in [Pub!Actors -> SUBSET Pub!Shots] /\ holding \in [Pub!Actors -> Pub!Publication \cup {Pub!NoPublication}])'
    BY <1>6, <1>t DEF Pub!TypeOK, Pub!QuiesceFlush,
       Pub!FlushBeforeClose, Pub!Flush
  <2>7. Pub!PublisherInvariant'
    BY <1>6, <1>p, <1>f DEF Pub!PublisherInvariant, Pub!OnePublisher,
       Pub!Publishing, Pub!QuiesceFlush, Pub!FlushBeforeClose,
       Pub!Flush
  <2>8. Pub!ClaimInvariant'
    BY <1>6, <1>c, <1>f DEF Pub!ClaimInvariant, Pub!QuiesceFlush,
       Pub!FlushBeforeClose, Pub!Flush
  <2>9. Pub!WithinFrontier'
    BY <1>6, <1>g, <1>f DEF Pub!WithinFrontier, Pub!QuiesceFlush,
       Pub!FlushBeforeClose, Pub!Flush
  <2>10. Pub!OpenGroup'
    BY <1>6, <1>h, <1>f DEF Pub!OpenGroup, Pub!QuiesceFlush,
       Pub!FlushBeforeClose, Pub!Flush
  <2>11. Pub!HandedInOrder'
    BY <1>6, <1>o, <1>f DEF Pub!HandedInOrder, Pub!QuiesceFlush,
       Pub!FlushBeforeClose, Pub!Flush
  <2>12. Pub!QueueInOrder'
    BY <1>6, <1>q, <1>f DEF Pub!QueueInOrder, Pub!InTurn,
       Pub!QuiesceFlush, Pub!FlushBeforeClose, Pub!Flush
  <2>13. Pub!EmittingInOrder'
    BY <1>6, <1>e, <1>f DEF Pub!EmittingInOrder, Pub!InTurn,
       Pub!Emitting, Pub!QuiesceFlush, Pub!FlushBeforeClose,
       Pub!Flush
  <2>14. Pub!AwaitInvariant'
    BY <1>6, <1>a, <1>f DEF Pub!AwaitInvariant, Pub!Awaited,
       Pub!Emitting, Pub!QuiesceFlush, Pub!FlushBeforeClose,
       Pub!Flush
  <2>15. Pub!QueueTimely'
    BY <1>6, <1>m, <1>f DEF Pub!QueueTimely, Pub!Timely,
       Pub!QuiesceFlush, Pub!FlushBeforeClose, Pub!Flush
  <2>16. Pub!HoldingTimely'
    BY <1>6, <1>n, <1>f DEF Pub!HoldingTimely, Pub!Timely,
       Pub!Emitting, Pub!QuiesceFlush, Pub!FlushBeforeClose,
       Pub!Flush
  <2>17. Pub!DeletedAfterOwnHandoff'
    BY <1>6, <1>d, <1>f DEF Pub!DeletedAfterOwnHandoff, Pub!QuiesceFlush,
       Pub!FlushBeforeClose, Pub!Flush
  <2>18. Pub!FilesHandedOver'
    BY <1>6, <1>d2, <1>f DEF Pub!FilesHandedOver, Pub!HandedOver,
       Pub!QuiesceFlush, Pub!FlushBeforeClose, Pub!Flush
  <2>19. Pub!AppliedInTime'
    <3>1. applied' = sourceGate /\ sourceGate \in Nat /\ handed \subseteq Nat /\ accepted \subseteq Nat
      BY <1>6, <1>o, <1>t DEF Pub!QuiesceFlush, Pub!FlushBeforeClose,
         Pub!Flush, Pub!HandedInOrder, Pub!TypeOK
    <3>2. UNCHANGED <<accepted, deferred, onDisk, pc, files>>
      BY <1>6 DEF Pub!QuiesceFlush
    <3>3. \A k \in accepted \ deferred :
             k \notin onDisk \/ (\E a \in Pub!Actors : pc[a] = "unlink" /\ k \in files[a]) => Pub!HandedOver(k)
      BY <1>d, <1>d2 DEF Pub!DeletedAfterOwnHandoff, Pub!FilesHandedOver,
         Pub!HandedOver
    <3>4. \A k \in accepted : Pub!HandedOver(k) => applied' >= k
      BY <3>1, <1>o DEF Pub!HandedOver, Pub!HandedInOrder
    <3> QED BY <3>2, <3>3, <3>4 DEF Pub!AppliedInTime
  <2> QED BY <2>1, <2>2, <2>3, <2>4, <2>5, <2>6, <2>7, <2>8, <2>9, <2>10, <2>11, <2>12,
         <2>13,
     <2>14, <2>15, <2>16, <2>17, <2>18, <2>19 DEF Pub!PublicationInvariant, Pub!TypeOK
<1>7. CASE Pub!CloseGate
  <2>1. (onDisk \subseteq Pub!Shots /\ claimed \subseteq Pub!Shots /\ accepted \subseteq Pub!Shots /\ deferred \subseteq accepted /\ handed \subseteq Pub!Shots /\ refused \subseteq Pub!Shots)'
    BY <1>7, <1>t DEF Pub!TypeOK, Pub!CloseGate
  <2>2. (frontier \in 0..MaxKey /\ stream \in {"new", "open", "done", "barred"} /\ group \subseteq Fragments /\ token \in Nat /\ {sourceGate, pending, applied} \subseteq 0..MaxKey)'
    BY <1>7, <1>t DEF Pub!TypeOK, Pub!CloseGate
  <2>3. (armed \in BOOLEAN /\ active \in BOOLEAN /\ stopped \in BOOLEAN /\ raised \in BOOLEAN /\ shutdown \in {"running", "stopping", "flushed", "closed"})'
    BY <1>7, <1>t DEF Pub!TypeOK, Pub!CloseGate
  <2>4. (queue \in Seq(Pub!Publication))'
    BY <1>7, <1>t DEF Pub!TypeOK, Pub!CloseGate
  <2>5. (pc \in [Pub!Actors -> {"idle", "accept", "notify", "drain", "emit", "handing", "emitted", "dead", "delete", "unlink"}])'
    BY <1>7, <1>t DEF Pub!TypeOK, Pub!CloseGate
  <2>6. (shot \in [Workers -> Pub!Shots \cup {NoKey}] /\ files \in [Pub!Actors -> SUBSET Pub!Shots] /\ holding \in [Pub!Actors -> Pub!Publication \cup {Pub!NoPublication}])'
    BY <1>7, <1>t DEF Pub!TypeOK, Pub!CloseGate
  <2>7. Pub!PublisherInvariant'
    BY <1>7, <1>p, <1>f DEF Pub!PublisherInvariant, Pub!OnePublisher,
       Pub!Publishing, Pub!CloseGate
  <2>8. Pub!ClaimInvariant'
    BY <1>7, <1>c, <1>f DEF Pub!ClaimInvariant, Pub!CloseGate
  <2>9. Pub!WithinFrontier'
    BY <1>7, <1>g, <1>f DEF Pub!WithinFrontier, Pub!CloseGate
  <2>10. Pub!OpenGroup'
    BY <1>7, <1>h, <1>f DEF Pub!OpenGroup, Pub!CloseGate
  <2>11. Pub!HandedInOrder'
    BY <1>7, <1>o, <1>f DEF Pub!HandedInOrder, Pub!CloseGate
  <2>12. Pub!QueueInOrder'
    BY <1>7, <1>q, <1>f DEF Pub!QueueInOrder, Pub!InTurn,
       Pub!CloseGate
  <2>13. Pub!EmittingInOrder'
    BY <1>7, <1>e, <1>f DEF Pub!EmittingInOrder, Pub!InTurn,
       Pub!Emitting, Pub!CloseGate
  <2>14. Pub!AwaitInvariant'
    BY <1>7, <1>a, <1>f DEF Pub!AwaitInvariant, Pub!Awaited,
       Pub!Emitting, Pub!CloseGate
  <2>15. Pub!QueueTimely'
    BY <1>7, <1>m, <1>f DEF Pub!QueueTimely, Pub!Timely,
       Pub!CloseGate
  <2>16. Pub!HoldingTimely'
    BY <1>7, <1>n, <1>f DEF Pub!HoldingTimely, Pub!Timely,
       Pub!Emitting, Pub!CloseGate
  <2>17. Pub!DeletedAfterOwnHandoff'
    BY <1>7, <1>d, <1>f DEF Pub!DeletedAfterOwnHandoff, Pub!CloseGate
  <2>18. Pub!FilesHandedOver'
    BY <1>7, <1>d2, <1>f DEF Pub!FilesHandedOver, Pub!HandedOver,
       Pub!CloseGate
  <2>19. Pub!AppliedInTime'
    BY <1>7, <1>d3, <1>f DEF Pub!AppliedInTime, Pub!CloseGate
  <2> QED BY <2>1, <2>2, <2>3, <2>4, <2>5, <2>6, <2>7, <2>8, <2>9, <2>10, <2>11, <2>12,
         <2>13,
     <2>14, <2>15, <2>16, <2>17, <2>18, <2>19 DEF Pub!PublicationInvariant, Pub!TypeOK
<1>8. CASE \E w \in Workers : Pub!Decode(w) \/ Pub!Take(w)
  BY <1>8, TakeKeeps
<1>9. CASE \E a \in Pub!Actors : Pub!Publish(a) \/ Pub!Remove(a)
  BY <1>9, PublishKeeps
<1> QED BY <1>1, <1>2, <1>3, <1>4, <1>5, <1>6, <1>7, <1>8, <1>9 DEF Pub!Quiesce,
       Pub!Next


\* A notice of a timeout is handed over only while nothing newer has been.
LEMMA TimeoutsInOrder ==
  ASSUME Pub!PublicationInvariant
  PROVE  Pub!TimeoutInOrder
<1> SUFFICES ASSUME NEW a \in Pub!Actors, pc[a] = "handing", holding[a].kind = "timeout"
             PROVE  handed \subseteq holding[a].past
  BY DEF Pub!TimeoutInOrder
<1> QED BY DEF Pub!PublicationInvariant, Pub!HoldingTimely,
       Pub!Emitting

\* What PublicationIsSafe promises follows from the invariant.
LEMMA PublicationSafe ==
  ASSUME Pub!PublicationInvariant
  PROVE  /\ Pub!TypeOK /\ Pub!OnePublisher /\ Pub!AcceptedNotRefused /\ Pub!AcceptedNotForgotten
         /\ Pub!DeletedAfterOwnHandoff /\ Pub!ClosedWithNothingLost
<1>1. Pub!TypeOK /\ Pub!OnePublisher /\ Pub!DeletedAfterOwnHandoff
  BY DEF Pub!PublicationInvariant, Pub!PublisherInvariant
<1>2. Pub!AcceptedNotRefused
  BY DEF Pub!PublicationInvariant, Pub!HandedInOrder,
     Pub!AcceptedNotRefused
<1>3. ASSUME NEW k, Pub!Awaited(k)
      PROVE  \/ Pub!Snapshot(k) \in {queue[i] : i \in DOMAIN queue}
             \/ \E a \in Pub!Actors : holding[a] = Pub!Snapshot(k)
  <2>1. queue \in Seq(Pub!Publication)
    BY <1>1 DEF Pub!TypeOK
  <2>2. DOMAIN queue = 1..Len(queue)
    BY <2>1
  <2>3. CASE \E i \in 1..Len(queue) : queue[i] = Pub!Snapshot(k)
    BY <2>2, <2>3
  <2>4. CASE \E a \in Pub!Actors : Pub!Emitting(a) /\ holding[a] = Pub!Snapshot(k)
    BY <2>4
  <2> QED BY <1>3, <2>3, <2>4 DEF Pub!Awaited
<1>4. Pub!AwaitInvariant
  BY DEF Pub!PublicationInvariant
<1>5. Pub!AcceptedNotForgotten
  BY <1>3, <1>4 DEF Pub!AwaitInvariant, Pub!AcceptedNotForgotten
<1>6. Pub!ClosedWithNothingLost
  BY DEF Pub!PublicationInvariant, Pub!AppliedInTime,
     Pub!ClosedWithNothingLost
<1> QED BY <1>1, <1>2, <1>5, <1>6

-----------------------------------------------------------------------------
(* UsageConsent. *)


\* The fields of the two kinds of file.
LEMMA FileShapes ==
  /\ Usage!OptedOut.consent = FALSE
  /\ \A i, s : /\ Usage!OptedIn(i, s).consent = TRUE /\ Usage!OptedIn(i, s).identity = i
                /\ Usage!OptedIn(i, s).seen = s
BY DEF Usage!OptedOut, Usage!OptedIn

LEMMA FileTypes ==
  /\ \A p : Usage!OptedOut \in Usage!Files(p)
  /\ \A p \in Nat : \A i \in 0..p, s \in SUBSET Events : Usage!OptedIn(i, s) \in Usage!Files(p)
  /\ \A p \in Nat : \A f \in Usage!Files(p) :
        f.consent \in Usage!Flags /\ f.identity \in 0..p /\ f.seen \in SUBSET Events
  /\ \A p, q \in Nat : \A f \in Usage!Files(p) : f.identity <= q => f \in Usage!Files(q)
<1>1. ASSUME NEW p \in Nat, NEW f \in Usage!Files(p)
      PROVE  /\ f.consent \in Usage!Flags /\ f.identity \in 0..p /\ f.seen \in SUBSET Events
             /\ \A q \in Nat : f.identity <= q => f \in Usage!Files(q)
  <2>1. CASE f = Usage!OptedOut
    BY <2>1 DEF Usage!OptedOut, Usage!NoIdentity, Usage!Flags, Usage!Files
  <2>2. ASSUME NEW i \in 0..p, NEW s \in SUBSET Events, f = Usage!OptedIn(i, s)
        PROVE  /\ f.consent \in Usage!Flags /\ f.identity \in 0..p /\ f.seen \in SUBSET Events
               /\ \A q \in Nat : f.identity <= q => f \in Usage!Files(q)
    <3>1. f.consent = TRUE /\ f.identity = i /\ f.seen = s
      BY <2>2, FileShapes
    <3>2. ASSUME NEW q \in Nat, i <= q PROVE f \in Usage!Files(q)
      <4>1. i \in 0..q
        BY <3>2
      <4> QED BY <4>1, <2>2 DEF Usage!Files
    <3> QED BY <3>1, <3>2 DEF Usage!Flags
  <2> QED BY <2>1, <2>2 DEF Usage!Files
<1> QED BY <1>1 DEF Usage!Files

\* What the delivery thread makes of its record.
LEMMA IdleShape == Usage!Idle \in Usage!Delivery /\ Usage!Idle.stage = "idle"
BY DEF Usage!Idle, Usage!Delivery, Usage!NoIdentity, Usage!DeliveryStages

SameEvent(d, n) == n.event = d.event /\ n.generation = d.generation

LEMMA UsageInit == Usage!Init => Usage!UsageInvariant
<1> SUFFICES ASSUME Usage!Init PROVE Usage!UsageInvariant
  OBVIOUS
<1> USE DEF Usage!Init, Usage!Loads
<1>0. usageFile \in Usage!Files(1) /\ period = 1
  <2>1. 0 \in 0..1 /\ {} \in SUBSET Events
    OBVIOUS
  <2> QED BY <2>1, FileTypes DEF Usage!NoIdentity
<1>a. usageFile.consent \in Usage!Flags /\ usageFile.identity \in 0..1 /\ usageFile.seen \in SUBSET Events
  BY <1>0, FileTypes
<1>1. usageFile \in Usage!Files(period) /\ Usage!UsageTyped
  BY <1>0, <1>a DEF Usage!UsageTyped
<1>2. Usage!UsageFlags
  BY <1>a DEF Usage!UsageFlags, Usage!Flags
<1>3. Usage!ChoiceInvariant
  BY FileShapes DEF Usage!ChoiceInvariant, Usage!OptedIn, Usage!OptedOut, Usage!NoIdentity
<1>4. Usage!QueueInvariant
  BY DEF Usage!QueueInvariant, Usage!Started, Usage!OptedIn, Usage!OptedOut
<1>5. Usage!DeliveryInvariant /\ writers = {} /\ delivery \in Usage!Delivery
  BY IdleShape DEF Usage!DeliveryInvariant
<1> QED BY <1>1, <1>2, <1>3, <1>4, <1>5 DEF Usage!UsageInvariant

\* The thread of a request.
LEMMA UsageWriterKeeps ==
  ASSUME Usage!UsageInvariant, NEW w \in writers,
         Usage!TakeLock(w) \/ Usage!Publish(w) \/ Usage!PublishFails(w) \/ Usage!Settle(w) \/ Usage!Enable(w)
  PROVE  Usage!UsageInvariant'
<1>0. /\ delivery \in Usage!Delivery /\ Usage!UsageTyped /\ Usage!UsageFlags /\ usageFile \in Usage!Files(period)
      /\ writers \subseteq Usage!Writers /\ \A v \in writers : Usage!WriterInvariant(v)
      /\ Usage!ChoiceInvariant /\ Usage!QueueInvariant /\ Usage!DeliveryInvariant
  BY DEF Usage!UsageInvariant
<1>w. \A v \in writers : Usage!WriterInvariant(v)
  BY <1>0
<1>v. writers \subseteq Usage!Writers
  BY <1>0
<1>t. Usage!UsageTyped
  BY <1>0
<1> USE DEF Usage!RequestIsCurrent, Usage!Client, Usage!Rest
<1>a. Usage!WriterInvariant(w) /\ w \in Usage!Writers /\ \A u, v \in writers : u.request = v.request => u = v
  BY <1>0 DEF Usage!WriterInvariant
<1>1. CASE Usage!TakeLock(w)
  <2>p. UNCHANGED period
    BY <1>1 DEF Usage!TakeLock
  <2>b. UNCHANGED <<desired, consent, closed, request, generation, usagePending, failed, identity, usageFile, check>> /\ w.stage = "start" 
    BY <1>1, <1>0 DEF Usage!TakeLock
  <2> DEFINE n == [w EXCEPT !.stage = "write"]
  <2>q. n \in Usage!Writers /\ n.stage = "write" /\ n.request = w.request /\ n.enabled = w.enabled
    BY <1>a DEF Usage!Writers
  <2>n. writers' = IF Usage!RequestIsCurrent(w) THEN (writers \ {w}) \cup {n} ELSE writers \ {w}
    BY <1>1 DEF Usage!TakeLock, Usage!MovesTo, Usage!Leaves
  <2> HIDE DEF n
  <2>s. writers' \subseteq Usage!Writers /\ \A u \in writers : u # w => u \in writers'
    BY <1>0, <2>q, <2>n
  <2>o. \A u \in writers : u # w => u.request # w.request
    BY <1>a
  <2>e. Usage!Enabling => Usage!Enabling'
    <3> SUFFICES ASSUME NEW u \in writers, u.stage = "enable", u.request = request
                 PROVE  Usage!Enabling' 
      BY DEF Usage!Enabling
    <3>1. u # w => Usage!Enabling'
      BY <2>s, <2>b DEF Usage!Enabling
    <3> QED BY <3>1, <2>b
  <2>1. (delivery \in Usage!Delivery)'
    BY <1>1, <1>0, <1>a, IdleShape DEF Usage!TakeLock
  <2>2. Usage!UsageTyped'
    BY <1>1, <1>0, <1>a DEF Usage!UsageTyped, Usage!NoIdentity, Usage!TakeLock
  <2>3. Usage!UsageFlags'
    BY <1>1, <1>0, <1>a DEF Usage!UsageFlags, Usage!Flags, Usage!TakeLock
  <2>4. (usageFile \in Usage!Files(period))'
    BY <1>1, <1>0, <1>a, FileTypes DEF Usage!UsageTyped, Usage!NoIdentity, Usage!TakeLock
  <2>5. (writers \subseteq Usage!Writers)' /\ \A v \in writers' : Usage!WriterInvariant(v)'
    <3>1. ASSUME NEW v \in writers, v # w PROVE Usage!WriterInvariant(v)'
      <4>1. Usage!WriterInvariant(v) /\ v.request # w.request
        BY <3>1, <1>w, <2>o
      <4>2. \A x \in writers' : x.request = v.request => x = v
        BY <4>1, <2>q, <2>n DEF Usage!WriterInvariant
      <4>3. v.request = request => UNCHANGED <<usageFile, usagePending, consent, identity>>
        BY <2>b, <4>1
      <4>4. UNCHANGED <<request, desired>>
        BY <2>b
      <4> QED BY <4>1, <4>2, <4>3, <4>4 DEF Usage!WriterInvariant
    <3>2. ASSUME n \in writers' PROVE Usage!WriterInvariant(n)'
      <4>1. Usage!RequestIsCurrent(w)
        BY <3>2, <2>q, <2>n, <2>o
      <4>2. \A x \in writers' : x.request = n.request => x = n
        BY <2>q, <2>n, <2>o
      <4>3. Usage!WriterInvariant(w) /\ Usage!UsageTyped
        BY <1>0, <1>a
      <4> QED BY <4>1, <4>2, <4>3, <2>q, <2>b DEF Usage!WriterInvariant, Usage!UsageTyped
    <3> QED BY <3>1, <3>2, <2>s, <2>n
  <2>6. Usage!ChoiceInvariant'
    <3>0. Usage!WriterInvariant(w) /\ Usage!ChoiceInvariant
      BY <1>0, <1>a
    <3>u. Usage!UsageFlags
      BY <1>0
    <3>1. ~usagePending' /\ ~failed' /\ ~closed' => usageFile'.consent = desired' /\ (consent' = desired' \/ Usage!Enabling')
      <4>1. CASE Usage!RequestIsCurrent(w)
        BY <3>0, <3>u, <4>1, <2>b, <2>e DEF Usage!WriterInvariant, Usage!ChoiceInvariant,
           Usage!UsageFlags, Usage!Flags
      <4>2. CASE ~Usage!RequestIsCurrent(w) /\ w.request # request
        BY <3>0, <3>u, <4>2, <2>b, <2>e DEF Usage!ChoiceInvariant
      <4>3. CASE ~Usage!RequestIsCurrent(w) /\ w.request = request
        BY <3>0, <3>u, <4>3, <2>b DEF Usage!WriterInvariant
      <4> QED BY <4>1, <4>2, <4>3
    <3>2. usagePending' \/ ~failed' => check' = desired'
      BY <3>0, <3>u, <2>b DEF Usage!WriterInvariant, Usage!ChoiceInvariant,
         Usage!UsageFlags, Usage!Flags
    <3>3. consent' => desired' /\ ~usagePending' /\ identity' \in {Usage!NoIdentity, period'}
      <4>1. CASE w.request = request
        BY <3>0, <3>u, <4>1, <2>b, <2>p DEF Usage!WriterInvariant, Usage!UsageFlags,
           Usage!Flags
      <4>2. CASE w.request # request
        BY <3>0, <3>u, <4>2, <2>b, <2>p DEF Usage!ChoiceInvariant
      <4> QED BY <4>1, <4>2
    <3> QED BY <3>1, <3>2, <3>3 DEF Usage!ChoiceInvariant
  <2>7. Usage!QueueInvariant'
    BY <1>1, <1>0, <1>a DEF Usage!QueueInvariant, Usage!TakeLock
  <2>8. Usage!DeliveryInvariant'
    BY <1>1, <1>0, <1>a, IdleShape DEF Usage!DeliveryInvariant, Usage!UsageTyped,
       Usage!TakeLock
  <2> QED BY <2>1, <2>2, <2>3, <2>4, <2>5, <2>6, <2>7, <2>8 DEF Usage!UsageInvariant
<1>2. CASE Usage!Publish(w)
  <2>z. w.enabled \in {TRUE, FALSE}
    BY <1>a DEF Usage!WriterInvariant, Usage!Flags
  <2>p. UNCHANGED period
    BY <1>2 DEF Usage!Publish
  <2>b. /\ UNCHANGED <<desired, consent, closed, request, generation, usagePending, failed, identity, check>> /\ w.stage = "write"
        /\ IF Usage!RequestIsCurrent(w) THEN usageFile'.consent = w.enabled ELSE UNCHANGED usageFile
    <3>1. w.stage = "write" /\ UNCHANGED <<desired, consent, closed, request, generation, usagePending, failed, identity, check>>
      BY <1>2 DEF Usage!Publish
    <3>2. CASE Usage!RequestIsCurrent(w) /\ w.enabled
      <4>1. usageFile' = Usage!OptedIn(Usage!NoIdentity, {})
        BY <1>2, <3>2 DEF Usage!Publish
      <4> QED BY <4>1, <3>1, <3>2, FileShapes, <2>z
    <3>3. CASE Usage!RequestIsCurrent(w) /\ ~w.enabled
      <4>1. usageFile' = Usage!OptedOut
        BY <1>2, <3>3 DEF Usage!Publish
      <4> QED BY <4>1, <3>1, <3>3, FileShapes, <2>z
    <3>4. CASE ~Usage!RequestIsCurrent(w)
      BY <1>2, <3>1, <3>4 DEF Usage!Publish
    <3> QED BY <3>2, <3>3, <3>4
  <2> DEFINE n == [w EXCEPT !.stage = "settle"]
  <2>q. n \in Usage!Writers /\ n.stage = "settle" /\ n.request = w.request /\ n.enabled = w.enabled
    BY <1>a DEF Usage!Writers
  <2>n. writers' = IF Usage!RequestIsCurrent(w) THEN (writers \ {w}) \cup {n} ELSE writers \ {w}
    BY <1>2 DEF Usage!Publish, Usage!MovesTo, Usage!Leaves
  <2> HIDE DEF n
  <2>s. writers' \subseteq Usage!Writers /\ \A u \in writers : u # w => u \in writers'
    BY <1>0, <2>q, <2>n
  <2>o. \A u \in writers : u # w => u.request # w.request
    BY <1>a
  <2>e. Usage!Enabling => Usage!Enabling'
    <3> SUFFICES ASSUME NEW u \in writers, u.stage = "enable", u.request = request
                 PROVE  Usage!Enabling' 
      BY DEF Usage!Enabling
    <3>1. u # w => Usage!Enabling'
      BY <2>s, <2>b DEF Usage!Enabling
    <3> QED BY <3>1, <2>b
  <2>1. (delivery \in Usage!Delivery)'
    BY <1>2, <1>0, <1>a, IdleShape DEF Usage!Publish
  <2>2. Usage!UsageTyped'
    BY <1>2, <1>0, <1>a DEF Usage!UsageTyped, Usage!NoIdentity, Usage!Publish
  <2>3. Usage!UsageFlags'
    BY <1>2, <1>0, <1>a DEF Usage!UsageFlags, Usage!Flags, Usage!Publish
  <2>4. (usageFile \in Usage!Files(period))'
    BY <1>2, <1>0, <1>a, FileTypes DEF Usage!UsageTyped, Usage!NoIdentity, Usage!Publish
  <2>5. (writers \subseteq Usage!Writers)' /\ \A v \in writers' : Usage!WriterInvariant(v)'
    <3>1. ASSUME NEW v \in writers, v # w PROVE Usage!WriterInvariant(v)'
      <4>1. Usage!WriterInvariant(v) /\ v.request # w.request
        BY <3>1, <1>w, <2>o
      <4>2. \A x \in writers' : x.request = v.request => x = v
        BY <4>1, <2>q, <2>n DEF Usage!WriterInvariant
      <4>3. v.request = request => UNCHANGED <<usageFile, usagePending, consent, identity>>
        BY <2>b, <4>1
      <4>4. UNCHANGED <<request, desired>>
        BY <2>b
      <4> QED BY <4>1, <4>2, <4>3, <4>4 DEF Usage!WriterInvariant
    <3>2. ASSUME n \in writers' PROVE Usage!WriterInvariant(n)'
      <4>1. Usage!RequestIsCurrent(w)
        BY <3>2, <2>q, <2>n, <2>o
      <4>2. \A x \in writers' : x.request = n.request => x = n
        BY <2>q, <2>n, <2>o
      <4>3. Usage!WriterInvariant(w) /\ Usage!UsageTyped
        BY <1>0, <1>a
      <4> QED BY <4>1, <4>2, <4>3, <2>q, <2>b DEF Usage!WriterInvariant, Usage!UsageTyped
    <3> QED BY <3>1, <3>2, <2>s, <2>n
  <2>6. Usage!ChoiceInvariant'
    <3>0. Usage!WriterInvariant(w) /\ Usage!ChoiceInvariant
      BY <1>0, <1>a
    <3>u. Usage!UsageFlags
      BY <1>0
    <3>1. ~usagePending' /\ ~failed' /\ ~closed' => usageFile'.consent = desired' /\ (consent' = desired' \/ Usage!Enabling')
      <4>1. CASE Usage!RequestIsCurrent(w)
        BY <3>0, <3>u, <4>1, <2>b, <2>e DEF Usage!WriterInvariant, Usage!ChoiceInvariant,
           Usage!UsageFlags, Usage!Flags
      <4>2. CASE ~Usage!RequestIsCurrent(w) /\ w.request # request
        BY <3>0, <3>u, <4>2, <2>b, <2>e DEF Usage!ChoiceInvariant
      <4>3. CASE ~Usage!RequestIsCurrent(w) /\ w.request = request
        BY <3>0, <3>u, <4>3, <2>b DEF Usage!WriterInvariant
      <4> QED BY <4>1, <4>2, <4>3
    <3>2. usagePending' \/ ~failed' => check' = desired'
      BY <3>0, <3>u, <2>b DEF Usage!WriterInvariant, Usage!ChoiceInvariant,
         Usage!UsageFlags, Usage!Flags
    <3>3. consent' => desired' /\ ~usagePending' /\ identity' \in {Usage!NoIdentity, period'}
      <4>1. CASE w.request = request
        BY <3>0, <3>u, <4>1, <2>b, <2>p DEF Usage!WriterInvariant, Usage!UsageFlags,
           Usage!Flags
      <4>2. CASE w.request # request
        BY <3>0, <3>u, <4>2, <2>b, <2>p DEF Usage!ChoiceInvariant
      <4> QED BY <4>1, <4>2
    <3> QED BY <3>1, <3>2, <3>3 DEF Usage!ChoiceInvariant
  <2>7. Usage!QueueInvariant'
    BY <1>2, <1>0, <1>a DEF Usage!QueueInvariant, Usage!Publish
  <2>8. Usage!DeliveryInvariant'
    BY <1>2, <1>0, <1>a, IdleShape DEF Usage!DeliveryInvariant, Usage!UsageTyped,
       Usage!Publish
  <2> QED BY <2>1, <2>2, <2>3, <2>4, <2>5, <2>6, <2>7, <2>8 DEF Usage!UsageInvariant
<1>3. CASE Usage!PublishFails(w)
  <2>p. UNCHANGED period
    BY <1>3 DEF Usage!PublishFails
  <2>b. /\ UNCHANGED <<desired, consent, closed, request, generation, usageFile, identity>> /\ w.stage = "write" 
        /\ IF Usage!RequestIsCurrent(w) THEN failed' = TRUE /\ usagePending' = FALSE
                                  ELSE UNCHANGED <<failed, usagePending, check>>
    BY <1>3, <1>0 DEF Usage!PublishFails, Usage!Fault, Usage!ReportsFailure
  <2>n. writers' = writers \ {w}
    BY <1>3 DEF Usage!PublishFails, Usage!Fault, Usage!ReportsFailure, Usage!Leaves
  <2>s. writers' \subseteq Usage!Writers /\ \A u \in writers : u # w => u \in writers'
    BY <1>0, <2>n
  <2>o. \A u \in writers : u # w => u.request # w.request
    BY <1>a
  <2>e. Usage!Enabling => Usage!Enabling'
    <3> SUFFICES ASSUME NEW u \in writers, u.stage = "enable", u.request = request
                 PROVE  Usage!Enabling' 
      BY DEF Usage!Enabling
    <3>1. u # w => Usage!Enabling'
      BY <2>s, <2>b DEF Usage!Enabling
    <3> QED BY <3>1, <2>b
  <2>1. (delivery \in Usage!Delivery)'
    BY <1>3, <1>0, <1>a, IdleShape DEF Usage!PublishFails, Usage!Fault, Usage!ReportsFailure
  <2>2. Usage!UsageTyped'
    BY <1>3, <1>0, <1>a DEF Usage!UsageTyped, Usage!NoIdentity, Usage!PublishFails,
       Usage!Fault, Usage!ReportsFailure
  <2>3. Usage!UsageFlags'
    BY <1>3, <1>0, <1>a DEF Usage!UsageFlags, Usage!Flags, Usage!PublishFails, Usage!Fault,
       Usage!ReportsFailure
  <2>4. (usageFile \in Usage!Files(period))'
    BY <1>3, <1>0, <1>a, FileTypes DEF Usage!UsageTyped, Usage!NoIdentity,
       Usage!PublishFails, Usage!Fault, Usage!ReportsFailure
  <2>5. (writers \subseteq Usage!Writers)' /\ \A v \in writers' : Usage!WriterInvariant(v)'
    <3>1. ASSUME NEW v \in writers, v # w PROVE Usage!WriterInvariant(v)'
      <4>1. Usage!WriterInvariant(v) /\ v.request # w.request
        BY <3>1, <1>w, <2>o
      <4>2. \A x \in writers' : x.request = v.request => x = v
        BY <4>1, <2>n DEF Usage!WriterInvariant
      <4>3. v.request = request => UNCHANGED <<usageFile, usagePending, consent, identity>>
        BY <2>b, <4>1
      <4>4. UNCHANGED <<request, desired>>
        BY <2>b
      <4> QED BY <4>1, <4>2, <4>3, <4>4 DEF Usage!WriterInvariant
    <3> QED BY <3>1, <2>s, <2>n
  <2>6. Usage!ChoiceInvariant'
    <3>0. Usage!WriterInvariant(w) /\ Usage!ChoiceInvariant
      BY <1>0, <1>a
    <3>u. Usage!UsageFlags
      BY <1>0
    <3>1. ~usagePending' /\ ~failed' /\ ~closed' => usageFile'.consent = desired' /\ (consent' = desired' \/ Usage!Enabling')
      <4>1. CASE Usage!RequestIsCurrent(w)
        BY <3>0, <3>u, <4>1, <2>b, <2>e DEF Usage!WriterInvariant, Usage!ChoiceInvariant,
           Usage!UsageFlags, Usage!Flags
      <4>2. CASE ~Usage!RequestIsCurrent(w) /\ w.request # request
        BY <3>0, <3>u, <4>2, <2>b, <2>e DEF Usage!ChoiceInvariant
      <4>3. CASE ~Usage!RequestIsCurrent(w) /\ w.request = request
        BY <3>0, <3>u, <4>3, <2>b DEF Usage!WriterInvariant
      <4> QED BY <4>1, <4>2, <4>3
    <3>2. usagePending' \/ ~failed' => check' = desired'
      BY <3>0, <3>u, <2>b DEF Usage!WriterInvariant, Usage!ChoiceInvariant,
         Usage!UsageFlags, Usage!Flags
    <3>3. consent' => desired' /\ ~usagePending' /\ identity' \in {Usage!NoIdentity, period'}
      <4>1. CASE w.request = request
        BY <3>0, <3>u, <4>1, <2>b, <2>p DEF Usage!WriterInvariant, Usage!UsageFlags,
           Usage!Flags
      <4>2. CASE w.request # request
        BY <3>0, <3>u, <4>2, <2>b, <2>p DEF Usage!ChoiceInvariant
      <4> QED BY <4>1, <4>2
    <3> QED BY <3>1, <3>2, <3>3 DEF Usage!ChoiceInvariant
  <2>7. Usage!QueueInvariant'
    BY <1>3, <1>0, <1>a DEF Usage!QueueInvariant, Usage!PublishFails, Usage!Fault,
       Usage!ReportsFailure
  <2>8. Usage!DeliveryInvariant'
    BY <1>3, <1>0, <1>a, IdleShape DEF Usage!DeliveryInvariant, Usage!UsageTyped,
       Usage!PublishFails, Usage!Fault, Usage!ReportsFailure
  <2> QED BY <2>1, <2>2, <2>3, <2>4, <2>5, <2>6, <2>7, <2>8 DEF Usage!UsageInvariant
<1>4. CASE Usage!Settle(w)
  <2>p. UNCHANGED period
    BY <1>4 DEF Usage!Settle
  <2>b. /\ UNCHANGED <<desired, consent, closed, request, generation, usageFile, check>> /\ w.stage = "settle"
        /\ IF Usage!RequestIsCurrent(w)
           THEN identity' = Usage!NoIdentity /\ failed' = FALSE /\ usagePending' = FALSE
           ELSE UNCHANGED <<identity, failed, usagePending>>
    BY <1>4, <1>0 DEF Usage!Settle, Usage!Settles
  <2> DEFINE n == [w EXCEPT !.stage = "enable"]
  <2>q. n \in Usage!Writers /\ n.stage = "enable" /\ n.request = w.request /\ n.enabled = w.enabled
    BY <1>a DEF Usage!Writers
  <2>n. writers' = IF Usage!RequestIsCurrent(w) /\ w.enabled THEN (writers \ {w}) \cup {n} ELSE writers \ {w}
    BY <1>4 DEF Usage!Settle, Usage!Settles, Usage!MovesTo, Usage!Leaves
  <2> HIDE DEF n
  <2>s. writers' \subseteq Usage!Writers /\ \A u \in writers : u # w => u \in writers'
    BY <1>0, <2>q, <2>n
  <2>o. \A u \in writers : u # w => u.request # w.request
    BY <1>a
  <2>e. Usage!Enabling => Usage!Enabling'
    <3> SUFFICES ASSUME NEW u \in writers, u.stage = "enable", u.request = request
                 PROVE  Usage!Enabling' 
      BY DEF Usage!Enabling
    <3>1. u # w => Usage!Enabling'
      BY <2>s, <2>b DEF Usage!Enabling
    <3> QED BY <3>1, <2>b
  <2>f. Usage!RequestIsCurrent(w) /\ w.enabled => Usage!Enabling'
    BY <2>b, <2>q, <2>n DEF Usage!Enabling
  <2>1. (delivery \in Usage!Delivery)'
    BY <1>4, <1>0, <1>a, IdleShape DEF Usage!Settle, Usage!Settles
  <2>2. Usage!UsageTyped'
    BY <1>4, <1>0, <1>a DEF Usage!UsageTyped, Usage!NoIdentity, Usage!Settle, Usage!Settles
  <2>3. Usage!UsageFlags'
    BY <1>4, <1>0, <1>a DEF Usage!UsageFlags, Usage!Flags, Usage!Settle, Usage!Settles
  <2>4. (usageFile \in Usage!Files(period))'
    BY <1>4, <1>0, <1>a, FileTypes DEF Usage!UsageTyped, Usage!NoIdentity, Usage!Settle,
       Usage!Settles
  <2>5. (writers \subseteq Usage!Writers)' /\ \A v \in writers' : Usage!WriterInvariant(v)'
    <3>1. ASSUME NEW v \in writers, v # w PROVE Usage!WriterInvariant(v)'
      <4>1. Usage!WriterInvariant(v) /\ v.request # w.request
        BY <3>1, <1>w, <2>o
      <4>2. \A x \in writers' : x.request = v.request => x = v
        BY <4>1, <2>q, <2>n DEF Usage!WriterInvariant
      <4>3. v.request = request => UNCHANGED <<usageFile, usagePending, consent, identity>>
        BY <2>b, <4>1
      <4>4. UNCHANGED <<request, desired>>
        BY <2>b
      <4> QED BY <4>1, <4>2, <4>3, <4>4 DEF Usage!WriterInvariant
    <3>2. ASSUME n \in writers' PROVE Usage!WriterInvariant(n)'
      <4>1. Usage!RequestIsCurrent(w) /\ w.enabled
        BY <3>2, <2>q, <2>n, <2>o
      <4>2. \A x \in writers' : x.request = n.request => x = n
        BY <2>q, <2>n, <2>o
      <4>3. Usage!WriterInvariant(w) /\ Usage!UsageTyped
        BY <1>0, <1>a
      <4> QED BY <4>1, <4>2, <4>3, <2>q, <2>b DEF Usage!WriterInvariant, Usage!UsageTyped
    <3> QED BY <3>1, <3>2, <2>s, <2>n
  <2>6. Usage!ChoiceInvariant'
    <3>0. Usage!WriterInvariant(w) /\ Usage!ChoiceInvariant
      BY <1>0, <1>a
    <3>u. Usage!UsageFlags
      BY <1>0
    <3>1. ~usagePending' /\ ~failed' /\ ~closed' => usageFile'.consent = desired' /\ (consent' = desired' \/ Usage!Enabling')
      <4>1. CASE Usage!RequestIsCurrent(w)
        BY <3>0, <3>u, <4>1, <2>b, <2>e, <2>f DEF Usage!WriterInvariant,
           Usage!ChoiceInvariant, Usage!UsageFlags, Usage!Flags
      <4>2. CASE ~Usage!RequestIsCurrent(w) /\ w.request # request
        BY <3>0, <3>u, <4>2, <2>b, <2>e, <2>f DEF Usage!ChoiceInvariant
      <4>3. CASE ~Usage!RequestIsCurrent(w) /\ w.request = request
        BY <3>0, <3>u, <4>3, <2>b DEF Usage!WriterInvariant
      <4> QED BY <4>1, <4>2, <4>3
    <3>2. usagePending' \/ ~failed' => check' = desired'
      BY <3>0, <3>u, <2>b DEF Usage!WriterInvariant, Usage!ChoiceInvariant,
         Usage!UsageFlags, Usage!Flags
    <3>3. consent' => desired' /\ ~usagePending' /\ identity' \in {Usage!NoIdentity, period'}
      <4>1. CASE w.request = request
        BY <3>0, <3>u, <4>1, <2>b, <2>p DEF Usage!WriterInvariant, Usage!UsageFlags,
           Usage!Flags
      <4>2. CASE w.request # request
        BY <3>0, <3>u, <4>2, <2>b, <2>p DEF Usage!ChoiceInvariant
      <4> QED BY <4>1, <4>2
    <3> QED BY <3>1, <3>2, <3>3 DEF Usage!ChoiceInvariant
  <2>7. Usage!QueueInvariant'
    BY <1>4, <1>0, <1>a DEF Usage!QueueInvariant, Usage!Settle, Usage!Settles
  <2>8. Usage!DeliveryInvariant'
    BY <1>4, <1>0, <1>a, IdleShape DEF Usage!WriterInvariant, Usage!DeliveryInvariant,
       Usage!UsageTyped, Usage!Settle, Usage!Settles
  <2> QED BY <2>1, <2>2, <2>3, <2>4, <2>5, <2>6, <2>7, <2>8 DEF Usage!UsageInvariant
<1>5. CASE Usage!Enable(w)
  <2>p. UNCHANGED period
    BY <1>5 DEF Usage!Enable
  <2>b. /\ UNCHANGED <<desired, closed, request, generation, usageFile, failed, usagePending, identity, check>>
        /\ w.stage = "enable"
        /\ IF Usage!RequestIsCurrent(w) THEN consent' = TRUE ELSE UNCHANGED consent
    BY <1>5, <1>0 DEF Usage!Enable, Usage!Started
  <2>n. writers' = writers \ {w}
    BY <1>5 DEF Usage!Enable, Usage!Started, Usage!Leaves
  <2>s. writers' \subseteq Usage!Writers /\ \A u \in writers : u # w => u \in writers'
    BY <1>0, <2>n
  <2>o. \A u \in writers : u # w => u.request # w.request
    BY <1>a
  <2>e. Usage!Enabling => Usage!Enabling' \/ w.request = request
    <3> SUFFICES ASSUME NEW u \in writers, u.stage = "enable", u.request = request
                 PROVE  Usage!Enabling' \/ w.request = request
      BY DEF Usage!Enabling
    <3>1. u # w => Usage!Enabling'
      BY <2>s, <2>b DEF Usage!Enabling
    <3> QED BY <3>1, <2>b
  <2>1. (delivery \in Usage!Delivery)'
    BY <1>5, <1>0, <1>a, IdleShape DEF Usage!Enable, Usage!Started
  <2>2. Usage!UsageTyped'
    BY <1>5, <1>0, <1>a DEF Usage!UsageTyped, Usage!NoIdentity, Usage!Enable, Usage!Started
  <2>3. Usage!UsageFlags'
    BY <1>5, <1>0, <1>a DEF Usage!UsageFlags, Usage!Flags, Usage!Enable, Usage!Started
  <2>4. (usageFile \in Usage!Files(period))'
    BY <1>5, <1>0, <1>a, FileTypes DEF Usage!UsageTyped, Usage!NoIdentity, Usage!Enable,
       Usage!Started
  <2>5. (writers \subseteq Usage!Writers)' /\ \A v \in writers' : Usage!WriterInvariant(v)'
    <3>1. ASSUME NEW v \in writers, v # w PROVE Usage!WriterInvariant(v)'
      <4>1. Usage!WriterInvariant(v) /\ v.request # w.request
        BY <3>1, <1>w, <2>o
      <4>2. \A x \in writers' : x.request = v.request => x = v
        BY <4>1, <2>n DEF Usage!WriterInvariant
      <4>3. v.request = request => UNCHANGED <<usageFile, usagePending, consent, identity>>
        BY <2>b, <4>1
      <4>4. UNCHANGED <<request, desired>>
        BY <2>b
      <4> QED BY <4>1, <4>2, <4>3, <4>4 DEF Usage!WriterInvariant
    <3> QED BY <3>1, <2>s, <2>n
  <2>6. Usage!ChoiceInvariant'
    <3>0. Usage!WriterInvariant(w) /\ Usage!ChoiceInvariant
      BY <1>0, <1>a
    <3>u. Usage!UsageFlags
      BY <1>0
    <3>1. ~usagePending' /\ ~failed' /\ ~closed' => usageFile'.consent = desired' /\ (consent' = desired' \/ Usage!Enabling')
      <4>1. CASE Usage!RequestIsCurrent(w)
        BY <3>0, <3>u, <4>1, <2>b, <2>e DEF Usage!WriterInvariant, Usage!ChoiceInvariant,
           Usage!UsageFlags, Usage!Flags
      <4>2. CASE ~Usage!RequestIsCurrent(w) /\ w.request # request
        BY <3>0, <3>u, <4>2, <2>b, <2>e DEF Usage!ChoiceInvariant
      <4>3. CASE ~Usage!RequestIsCurrent(w) /\ w.request = request
        BY <3>0, <3>u, <4>3, <2>b DEF Usage!WriterInvariant
      <4> QED BY <4>1, <4>2, <4>3
    <3>2. usagePending' \/ ~failed' => check' = desired'
      BY <3>0, <3>u, <2>b DEF Usage!WriterInvariant, Usage!ChoiceInvariant,
         Usage!UsageFlags, Usage!Flags
    <3>3. consent' => desired' /\ ~usagePending' /\ identity' \in {Usage!NoIdentity, period'}
      <4>1. CASE w.request = request
        BY <3>0, <3>u, <4>1, <2>b, <2>p DEF Usage!WriterInvariant, Usage!UsageFlags,
           Usage!Flags
      <4>2. CASE w.request # request
        BY <3>0, <3>u, <4>2, <2>b, <2>p DEF Usage!ChoiceInvariant
      <4> QED BY <4>1, <4>2
    <3> QED BY <3>1, <3>2, <3>3 DEF Usage!ChoiceInvariant
  <2>7. Usage!QueueInvariant'
    BY <1>5, <1>0, <1>a DEF Usage!WriterInvariant, Usage!QueueInvariant, Usage!Enable,
       Usage!Started
  <2>8. Usage!DeliveryInvariant'
    BY <1>5, <1>0, <1>a, IdleShape DEF Usage!WriterInvariant, Usage!DeliveryInvariant,
       Usage!UsageTyped, Usage!Enable, Usage!Started
  <2> QED BY <2>1, <2>2, <2>3, <2>4, <2>5, <2>6, <2>7, <2>8 DEF Usage!UsageInvariant
<1> QED BY <1>1, <1>2, <1>3, <1>4, <1>5

\* The delivery thread.
LEMMA UsageDeliveryKeeps ==
  ASSUME Usage!UsageInvariant, Usage!Delivers \/ Usage!SaveFails
  PROVE  Usage!UsageInvariant'
<1>0. /\ delivery \in Usage!Delivery /\ Usage!UsageTyped /\ Usage!UsageFlags /\ usageFile \in Usage!Files(period)
      /\ writers \subseteq Usage!Writers /\ \A v \in writers : Usage!WriterInvariant(v)
      /\ Usage!ChoiceInvariant /\ Usage!QueueInvariant /\ Usage!DeliveryInvariant
  BY DEF Usage!UsageInvariant
<1>w. \A v \in writers : Usage!WriterInvariant(v)
  BY <1>0
<1>v. writers \subseteq Usage!Writers
  BY <1>0
<1>t. Usage!UsageTyped
  BY <1>0
<1> USE DEF Usage!Stage, Usage!Choice, Usage!Others, Usage!Ends, Usage!IsCurrent
<1>1. ASSUME NEW q \in usageQueue, Usage!Take(q) PROVE Usage!UsageInvariant'
  <2>a. \/ delivery' = delivery
        \/ /\ delivery' \in Usage!Delivery /\ delivery'.stage = "prepare"
           /\ delivery'.event = q.event /\ delivery'.generation = q.generation
    <3>1. q.event \in Events /\ q.generation \in Nat
      BY <1>0 DEF Usage!QueueInvariant, Usage!UsageTyped
    <3>2. CASE delivery' = [Usage!Idle EXCEPT !.stage = "prepare", !.event = q.event, !.generation = q.generation]
      BY <3>1, <3>2 DEF Usage!Idle, Usage!Delivery, Usage!DeliveryStages, Usage!NoIdentity
    <3> QED BY <3>2, <1>1 DEF Usage!Take
  <2>1. (delivery \in Usage!Delivery)'
    BY <1>1, <1>0, IdleShape, <2>a
  <2>2. Usage!UsageTyped'
    BY <1>1, <1>0 DEF Usage!DeliveryInvariant, Usage!UsageTyped, Usage!NoIdentity,
       Usage!Take
  <2>3. Usage!UsageFlags'
    BY <1>1, <1>0 DEF Usage!UsageFlags, Usage!Flags, Usage!Take
  <2>4. (usageFile \in Usage!Files(period))'
    BY <1>1, <1>0, FileTypes DEF Usage!DeliveryInvariant, Usage!UsageTyped,
       Usage!NoIdentity, Usage!Take
  <2>5. (writers \subseteq Usage!Writers)' /\ \A v \in writers' : Usage!WriterInvariant(v)'
    BY <1>1, <1>0 DEF Usage!ChoiceInvariant, Usage!WriterInvariant, Usage!UsageTyped,
       Usage!Take
  <2>6. Usage!ChoiceInvariant'
    <3>1. /\ UNCHANGED <<desired, consent, closed, usagePending, check, request, writers, period>>
          /\ (failed' = TRUE \/ UNCHANGED failed)
          /\ (UNCHANGED identity \/ (consent /\ identity' = period))
          /\ (UNCHANGED usageFile \/ (consent /\ usageFile'.consent = TRUE))
      BY <1>1, <1>0, FileShapes DEF Usage!ChoiceInvariant, Usage!Take
    <3> QED BY <3>1, <1>0 DEF Usage!ChoiceInvariant, Usage!Enabling, Usage!UsageFlags,
           Usage!Flags
  <2>7. Usage!QueueInvariant'
    BY <1>1, <1>0 DEF Usage!DeliveryInvariant, Usage!QueueInvariant, Usage!Take
  <2>8. Usage!DeliveryInvariant'
    BY <1>1, <1>0, IdleShape, <2>a DEF Usage!QueueInvariant, Usage!ChoiceInvariant,
       SameEvent, Usage!DeliveryInvariant, Usage!UsageTyped, Usage!Take
  <2> QED BY <2>1, <2>2, <2>3, <2>4, <2>5, <2>6, <2>7, <2>8 DEF Usage!UsageInvariant
<1>2. CASE Usage!Prepare
  <2>a. \/ delivery' = Usage!Idle
        \/ /\ delivery' \in Usage!Delivery /\ delivery'.stage = "deliver"
           /\ SameEvent(delivery, delivery')
           /\ delivery'.identity = identity'
    <3>1. (IF identity = Usage!NoIdentity THEN period ELSE identity) \in Nat
      BY <1>0 DEF Usage!UsageTyped
    <3>2. CASE delivery' = [delivery EXCEPT !.stage = "deliver", !.identity = identity'] /\ identity' \in Nat
      BY <3>2, <1>0 DEF Usage!Delivery, Usage!DeliveryStages, SameEvent
    <3> QED BY <3>1, <3>2, <1>2 DEF Usage!Prepare
  <2>1. (delivery \in Usage!Delivery)'
    BY <1>2, <1>0, IdleShape, <2>a
  <2>2. Usage!UsageTyped'
    BY <1>2, <1>0 DEF Usage!DeliveryInvariant, Usage!UsageTyped, Usage!NoIdentity,
       Usage!Prepare, Usage!MayWrite
  <2>3. Usage!UsageFlags'
    BY <1>2, <1>0 DEF Usage!UsageFlags, Usage!Flags, Usage!Prepare, Usage!MayWrite
  <2>4. (usageFile \in Usage!Files(period))'
    BY <1>2, <1>0, FileTypes DEF Usage!DeliveryInvariant, Usage!UsageTyped,
       Usage!NoIdentity, Usage!Prepare, Usage!MayWrite
  <2>5. (writers \subseteq Usage!Writers)' /\ \A v \in writers' : Usage!WriterInvariant(v)'
    BY <1>2, <1>0 DEF Usage!ChoiceInvariant, Usage!WriterInvariant, Usage!UsageTyped,
       Usage!Prepare, Usage!MayWrite
  <2>6. Usage!ChoiceInvariant'
    <3>1. /\ UNCHANGED <<desired, consent, closed, usagePending, check, request, writers, period>>
          /\ (failed' = TRUE \/ UNCHANGED failed)
          /\ (UNCHANGED identity \/ (consent /\ identity' = period))
          /\ (UNCHANGED usageFile \/ (consent /\ usageFile'.consent = TRUE))
      BY <1>2, <1>0, FileShapes DEF Usage!ChoiceInvariant, Usage!Prepare, Usage!MayWrite
    <3> QED BY <3>1, <1>0 DEF Usage!ChoiceInvariant, Usage!Enabling, Usage!UsageFlags,
           Usage!Flags
  <2>7. Usage!QueueInvariant'
    BY <1>2, <1>0 DEF Usage!DeliveryInvariant, Usage!QueueInvariant, Usage!Prepare,
       Usage!MayWrite
  <2>8. Usage!DeliveryInvariant'
    BY <1>2, <1>0, IdleShape, <2>a DEF Usage!QueueInvariant, Usage!ChoiceInvariant,
       SameEvent, Usage!DeliveryInvariant, Usage!UsageTyped, Usage!Prepare, Usage!MayWrite
  <2> QED BY <2>1, <2>2, <2>3, <2>4, <2>5, <2>6, <2>7, <2>8 DEF Usage!UsageInvariant
<1>3. CASE Usage!HandOver
  <2>a. \/ delivery' = Usage!Idle
        \/ /\ delivery' \in Usage!Delivery /\ delivery'.stage = "flight"
           /\ SameEvent(delivery, delivery')
           /\ delivery'.identity = delivery.identity
    <3>1. CASE delivery' = [delivery EXCEPT !.stage = "flight"]
      BY <3>1, <1>0 DEF Usage!Delivery, Usage!DeliveryStages, SameEvent
    <3> QED BY <3>1, <1>3 DEF Usage!HandOver
  <2>1. (delivery \in Usage!Delivery)'
    BY <1>3, <1>0, IdleShape, <2>a
  <2>2. Usage!UsageTyped'
    BY <1>3, <1>0 DEF Usage!DeliveryInvariant, Usage!UsageTyped, Usage!NoIdentity,
       Usage!HandOver, Usage!StillCurrent
  <2>3. Usage!UsageFlags'
    BY <1>3, <1>0 DEF Usage!UsageFlags, Usage!Flags, Usage!HandOver, Usage!StillCurrent
  <2>4. (usageFile \in Usage!Files(period))'
    BY <1>3, <1>0, FileTypes DEF Usage!DeliveryInvariant, Usage!UsageTyped,
       Usage!NoIdentity, Usage!HandOver, Usage!StillCurrent
  <2>5. (writers \subseteq Usage!Writers)' /\ \A v \in writers' : Usage!WriterInvariant(v)'
    BY <1>3, <1>0 DEF Usage!ChoiceInvariant, Usage!WriterInvariant, Usage!UsageTyped,
       Usage!HandOver, Usage!StillCurrent
  <2>6. Usage!ChoiceInvariant'
    <3>1. /\ UNCHANGED <<desired, consent, closed, usagePending, check, request, writers, period>>
          /\ (failed' = TRUE \/ UNCHANGED failed)
          /\ (UNCHANGED identity \/ (consent /\ identity' = period))
          /\ (UNCHANGED usageFile \/ (consent /\ usageFile'.consent = TRUE))
      BY <1>3, <1>0, FileShapes DEF Usage!ChoiceInvariant, Usage!HandOver,
         Usage!StillCurrent
    <3> QED BY <3>1, <1>0 DEF Usage!ChoiceInvariant, Usage!Enabling, Usage!UsageFlags,
           Usage!Flags
  <2>7. Usage!QueueInvariant'
    BY <1>3, <1>0 DEF Usage!DeliveryInvariant, Usage!QueueInvariant, Usage!HandOver,
       Usage!StillCurrent
  <2>8. Usage!DeliveryInvariant'
    BY <1>3, <1>0, IdleShape, <2>a DEF Usage!QueueInvariant, Usage!ChoiceInvariant,
       SameEvent, Usage!DeliveryInvariant, Usage!UsageTyped, Usage!HandOver, Usage!StillCurrent
  <2> QED BY <2>1, <2>2, <2>3, <2>4, <2>5, <2>6, <2>7, <2>8 DEF Usage!UsageInvariant
<1>4. CASE Usage!Answered
  <2>a. \/ delivery' = Usage!Idle
        \/ /\ delivery' \in Usage!Delivery /\ delivery'.stage \in {"mark", "deliver"}
           /\ SameEvent(delivery, delivery')
           /\ delivery'.identity = delivery.identity
    <3>1. CASE delivery' = [delivery EXCEPT !.stage = "mark"]
      BY <3>1, <1>0 DEF Usage!Delivery, Usage!DeliveryStages, SameEvent
    <3>2. CASE delivery' = [delivery EXCEPT !.stage = "deliver", !.tries = @ + 1]
      <4>1. delivery.tries + 1 \in Nat
        BY <1>0 DEF Usage!Delivery
      <4> QED BY <4>1, <3>2, <1>0 DEF Usage!Delivery, Usage!DeliveryStages, SameEvent
    <3> QED BY <3>1, <3>2, <1>4 DEF Usage!Answered
  <2>1. (delivery \in Usage!Delivery)'
    BY <1>4, <1>0, IdleShape, <2>a
  <2>2. Usage!UsageTyped'
    BY <1>4, <1>0 DEF Usage!DeliveryInvariant, Usage!UsageTyped, Usage!NoIdentity,
       Usage!Answered
  <2>3. Usage!UsageFlags'
    BY <1>4, <1>0 DEF Usage!UsageFlags, Usage!Flags, Usage!Answered
  <2>4. (usageFile \in Usage!Files(period))'
    BY <1>4, <1>0, FileTypes DEF Usage!DeliveryInvariant, Usage!UsageTyped,
       Usage!NoIdentity, Usage!Answered
  <2>5. (writers \subseteq Usage!Writers)' /\ \A v \in writers' : Usage!WriterInvariant(v)'
    BY <1>4, <1>0 DEF Usage!ChoiceInvariant, Usage!WriterInvariant, Usage!UsageTyped,
       Usage!Answered
  <2>6. Usage!ChoiceInvariant'
    <3>1. /\ UNCHANGED <<desired, consent, closed, usagePending, check, request, writers, period>>
          /\ (failed' = TRUE \/ UNCHANGED failed)
          /\ (UNCHANGED identity \/ (consent /\ identity' = period))
          /\ (UNCHANGED usageFile \/ (consent /\ usageFile'.consent = TRUE))
      BY <1>4, <1>0, FileShapes DEF Usage!ChoiceInvariant, Usage!Answered
    <3> QED BY <3>1, <1>0 DEF Usage!ChoiceInvariant, Usage!Enabling, Usage!UsageFlags,
           Usage!Flags
  <2>7. Usage!QueueInvariant'
    BY <1>4, <1>0 DEF Usage!DeliveryInvariant, Usage!QueueInvariant, Usage!Answered
  <2>8. Usage!DeliveryInvariant'
    BY <1>4, <1>0, IdleShape, <2>a DEF Usage!QueueInvariant, Usage!ChoiceInvariant,
       SameEvent, Usage!DeliveryInvariant, Usage!UsageTyped, Usage!Answered
  <2> QED BY <2>1, <2>2, <2>3, <2>4, <2>5, <2>6, <2>7, <2>8 DEF Usage!UsageInvariant
<1>5. CASE Usage!Mark
  <2>a. delivery' = Usage!Idle
    BY <1>5 DEF Usage!Mark
  <2>1. (delivery \in Usage!Delivery)'
    BY <1>5, <1>0, IdleShape, <2>a
  <2>2. Usage!UsageTyped'
    BY <1>5, <1>0 DEF Usage!DeliveryInvariant, Usage!UsageTyped, Usage!NoIdentity,
       Usage!Mark, Usage!MayWrite
  <2>3. Usage!UsageFlags'
    BY <1>5, <1>0 DEF Usage!UsageFlags, Usage!Flags, Usage!Mark, Usage!MayWrite
  <2>4. (usageFile \in Usage!Files(period))'
    BY <1>5, <1>0, FileTypes DEF Usage!DeliveryInvariant, Usage!UsageTyped,
       Usage!NoIdentity, Usage!Mark, Usage!MayWrite
  <2>5. (writers \subseteq Usage!Writers)' /\ \A v \in writers' : Usage!WriterInvariant(v)'
    BY <1>5, <1>0 DEF Usage!ChoiceInvariant, Usage!WriterInvariant, Usage!UsageTyped,
       Usage!Mark, Usage!MayWrite
  <2>6. Usage!ChoiceInvariant'
    <3>1. /\ UNCHANGED <<desired, consent, closed, usagePending, check, request, writers, period>>
          /\ (failed' = TRUE \/ UNCHANGED failed)
          /\ (UNCHANGED identity \/ (consent /\ identity' = period))
          /\ (UNCHANGED usageFile \/ (consent /\ usageFile'.consent = TRUE))
      BY <1>5, <1>0, FileShapes DEF Usage!ChoiceInvariant, Usage!Mark, Usage!MayWrite
    <3> QED BY <3>1, <1>0 DEF Usage!ChoiceInvariant, Usage!Enabling, Usage!UsageFlags,
           Usage!Flags
  <2>7. Usage!QueueInvariant'
    BY <1>5, <1>0 DEF Usage!DeliveryInvariant, Usage!QueueInvariant, Usage!Mark,
       Usage!MayWrite
  <2>8. Usage!DeliveryInvariant'
    BY <1>5, <1>0, IdleShape, <2>a DEF Usage!QueueInvariant, Usage!ChoiceInvariant,
       SameEvent, Usage!DeliveryInvariant, Usage!UsageTyped, Usage!Mark, Usage!MayWrite
  <2> QED BY <2>1, <2>2, <2>3, <2>4, <2>5, <2>6, <2>7, <2>8 DEF Usage!UsageInvariant
<1>6. CASE Usage!SaveFails
  <2>a. delivery' = Usage!Idle
    BY <1>6 DEF Usage!SaveFails
  <2>1. (delivery \in Usage!Delivery)'
    BY <1>6, <1>0, IdleShape, <2>a
  <2>2. Usage!UsageTyped'
    BY <1>6, <1>0 DEF Usage!DeliveryInvariant, Usage!UsageTyped, Usage!NoIdentity,
       Usage!SaveFails, Usage!Fault
  <2>3. Usage!UsageFlags'
    BY <1>6, <1>0 DEF Usage!UsageFlags, Usage!Flags, Usage!SaveFails, Usage!Fault
  <2>4. (usageFile \in Usage!Files(period))'
    BY <1>6, <1>0, FileTypes DEF Usage!DeliveryInvariant, Usage!UsageTyped,
       Usage!NoIdentity, Usage!SaveFails, Usage!Fault
  <2>5. (writers \subseteq Usage!Writers)' /\ \A v \in writers' : Usage!WriterInvariant(v)'
    BY <1>6, <1>0 DEF Usage!ChoiceInvariant, Usage!WriterInvariant, Usage!UsageTyped,
       Usage!SaveFails, Usage!Fault
  <2>6. Usage!ChoiceInvariant'
    <3>1. /\ UNCHANGED <<desired, consent, closed, usagePending, check, request, writers, period>>
          /\ (failed' = TRUE \/ UNCHANGED failed)
          /\ (UNCHANGED identity \/ (consent /\ identity' = period))
          /\ (UNCHANGED usageFile \/ (consent /\ usageFile'.consent = TRUE))
      BY <1>6, <1>0, FileShapes DEF Usage!ChoiceInvariant, Usage!SaveFails, Usage!Fault
    <3> QED BY <3>1, <1>0 DEF Usage!ChoiceInvariant, Usage!Enabling, Usage!UsageFlags,
           Usage!Flags
  <2>7. Usage!QueueInvariant'
    BY <1>6, <1>0 DEF Usage!DeliveryInvariant, Usage!QueueInvariant, Usage!SaveFails,
       Usage!Fault
  <2>8. Usage!DeliveryInvariant'
    BY <1>6, <1>0, IdleShape, <2>a DEF Usage!QueueInvariant, Usage!ChoiceInvariant,
       SameEvent, Usage!DeliveryInvariant, Usage!UsageTyped, Usage!SaveFails, Usage!Fault
  <2> QED BY <2>1, <2>2, <2>3, <2>4, <2>5, <2>6, <2>7, <2>8 DEF Usage!UsageInvariant
<1> QED BY <1>1, <1>2, <1>3, <1>4, <1>5, <1>6 DEF Usage!Delivers

LEMMA UsageNextKeeps ==
  ASSUME Usage!UsageInvariant, Usage!Next
  PROVE  Usage!UsageInvariant'
<1>0. /\ delivery \in Usage!Delivery /\ Usage!UsageTyped /\ Usage!UsageFlags /\ usageFile \in Usage!Files(period)
      /\ writers \subseteq Usage!Writers /\ \A v \in writers : Usage!WriterInvariant(v)
      /\ Usage!ChoiceInvariant /\ Usage!QueueInvariant /\ Usage!DeliveryInvariant
  BY DEF Usage!UsageInvariant
<1>w. \A v \in writers : Usage!WriterInvariant(v)
  BY <1>0
<1>v. writers \subseteq Usage!Writers
  BY <1>0
<1>t. Usage!UsageTyped
  BY <1>0
<1>1. CASE Usage!Toggle
  <2>1. (delivery \in Usage!Delivery)'
    BY <1>1, <1>0, IdleShape DEF Usage!Toggle, Usage!NeedsNoWrite, Usage!Registers,
       Usage!Period
  <2>2. Usage!UsageTyped'
    BY <1>1, <1>0 DEF Usage!UsageTyped, Usage!NoIdentity, Usage!Toggle, Usage!NeedsNoWrite,
       Usage!Registers, Usage!Period
  <2>3. Usage!UsageFlags'
    BY <1>1, <1>0 DEF Usage!UsageFlags, Usage!Flags, Usage!Toggle, Usage!NeedsNoWrite,
       Usage!Registers, Usage!Period
  <2>4. (usageFile \in Usage!Files(period))'
    BY <1>1, <1>0, FileTypes DEF Usage!UsageTyped, Usage!NoIdentity, Usage!Toggle,
       Usage!NeedsNoWrite, Usage!Registers, Usage!Period
  <2>5. (writers \subseteq Usage!Writers)' /\ \A v \in writers' : Usage!WriterInvariant(v)'
    <3>1. CASE UNCHANGED writers /\ UNCHANGED <<request, desired, usagePending, consent, usageFile, identity>>
      BY <3>1, <1>0 DEF Usage!WriterInvariant
    <3>2. CASE writers' = writers \cup {[request |-> request', enabled |-> check', stage |-> "start"]}
               /\ request' = request + 1 /\ desired' = check' /\ usagePending' = TRUE /\ consent' = FALSE
               /\ check' \in Usage!Flags
      <4> DEFINE m == [request |-> request', enabled |-> check', stage |-> "start"]
      <4>0. m \in Usage!Writers /\ m.request = request + 1 /\ m.enabled = desired' /\ m.stage = "start"
        BY <3>2, <1>t DEF Usage!UsageTyped, Usage!Writers
      <4>w. writers' = writers \cup {m}
        BY <3>2
      <4> HIDE DEF m
      <4>p. PICK n \in Usage!Writers : n = m
        BY <4>0
      <4>1. n.request = request + 1 /\ n.enabled = desired' /\ n.stage = "start" /\ n \in Usage!Writers
        BY <4>0, <4>p
      <4>2. writers' = writers \cup {n}
        BY <4>w, <4>p
      <4>3. \A v \in writers : v.request \in 1..request /\ v.request # n.request /\ v.request # request'
        BY <4>1, <3>2, <1>0 DEF Usage!WriterInvariant, Usage!UsageTyped
      <4>6. \A v \in writers : v # n
        BY <4>3
      <4>4. ASSUME NEW v \in writers PROVE Usage!WriterInvariant(v)'
        <5>1. Usage!WriterInvariant(v) /\ v.request # n.request /\ v.request # request'
          BY <4>3, <1>0
        <5>2. v.request \in 1..request'
          BY <3>2, <1>0 DEF Usage!WriterInvariant, Usage!UsageTyped
        <5>3. \A x \in writers' : x.request = v.request => x = v
          BY <5>1, <4>2 DEF Usage!WriterInvariant
        <5>4. v.stage = "enable" => v.enabled
          BY <5>1 DEF Usage!WriterInvariant
        <5> QED BY <5>1, <5>2, <5>3, <5>4 DEF Usage!WriterInvariant, Usage!Writers
      <4>5. Usage!WriterInvariant(n)'
        <5>1. \A x \in writers' : x.request = n.request => x = n
          BY <4>2, <4>3
        <5>2. n.request \in 1..request' /\ n.request = request'
          BY <4>1, <3>2, <1>t DEF Usage!UsageTyped
        <5>3. n.enabled \in Usage!Flags /\ n.enabled = desired' /\ n.stage = "start" /\ usagePending' /\ ~consent'
          BY <4>1, <3>2
        <5> QED BY <5>1, <5>2, <5>3 DEF Usage!WriterInvariant
      <4> QED BY <4>1, <4>2, <4>4, <4>5, <1>0
    <3> QED BY <3>1, <3>2, <1>1, <1>0 DEF Usage!Toggle, Usage!NeedsNoWrite, Usage!Registers,
           Usage!UsageFlags, Usage!Flags
  <2>6. Usage!ChoiceInvariant'
    BY <1>1, <1>0, FileShapes DEF Usage!ChoiceInvariant, Usage!Enabling, Usage!Flags,
       Usage!Toggle, Usage!NeedsNoWrite, Usage!Registers, Usage!Period
  <2>7. Usage!QueueInvariant'
    BY <1>1, <1>0 DEF Usage!QueueInvariant, Usage!Toggle, Usage!NeedsNoWrite,
       Usage!Registers, Usage!Period
  <2>8. Usage!DeliveryInvariant'
    BY <1>1, <1>0, IdleShape DEF Usage!DeliveryInvariant, Usage!UsageTyped, Usage!Toggle,
       Usage!NeedsNoWrite, Usage!Registers, Usage!Period
  <2> QED BY <2>1, <2>2, <2>3, <2>4, <2>5, <2>6, <2>7, <2>8 DEF Usage!UsageInvariant
<1>2. CASE Usage!ToggleFails
  <2>1. (delivery \in Usage!Delivery)'
    BY <1>2, <1>0, IdleShape DEF Usage!ToggleFails, Usage!Fault, Usage!Period
  <2>2. Usage!UsageTyped'
    BY <1>2, <1>0 DEF Usage!UsageTyped, Usage!NoIdentity, Usage!ToggleFails, Usage!Fault,
       Usage!Period
  <2>3. Usage!UsageFlags'
    BY <1>2, <1>0 DEF Usage!UsageFlags, Usage!Flags, Usage!ToggleFails, Usage!Fault,
       Usage!Period
  <2>4. (usageFile \in Usage!Files(period))'
    BY <1>2, <1>0, FileTypes DEF Usage!UsageTyped, Usage!NoIdentity, Usage!ToggleFails,
       Usage!Fault, Usage!Period
  <2>5. (writers \subseteq Usage!Writers)' /\ \A v \in writers' : Usage!WriterInvariant(v)'
    BY <1>2, <1>0 DEF Usage!WriterInvariant, Usage!UsageTyped, Usage!ToggleFails,
       Usage!Fault, Usage!Period
  <2>6. Usage!ChoiceInvariant'
    BY <1>2, <1>0, FileShapes DEF Usage!ChoiceInvariant, Usage!Enabling, Usage!Flags,
       Usage!ToggleFails, Usage!Fault, Usage!Period
  <2>7. Usage!QueueInvariant'
    BY <1>2, <1>0 DEF Usage!QueueInvariant, Usage!ToggleFails, Usage!Fault, Usage!Period
  <2>8. Usage!DeliveryInvariant'
    BY <1>2, <1>0, IdleShape DEF Usage!DeliveryInvariant, Usage!UsageTyped,
       Usage!ToggleFails, Usage!Fault, Usage!Period
  <2> QED BY <2>1, <2>2, <2>3, <2>4, <2>5, <2>6, <2>7, <2>8 DEF Usage!UsageInvariant
<1>3. ASSUME NEW e \in Events, Usage!Record(e) PROVE Usage!UsageInvariant'
  <2>1. (delivery \in Usage!Delivery)'
    BY <1>3, <1>0, IdleShape DEF Usage!Record
  <2>2. Usage!UsageTyped'
    BY <1>3, <1>0 DEF Usage!UsageTyped, Usage!NoIdentity, Usage!Record
  <2>3. Usage!UsageFlags'
    BY <1>3, <1>0 DEF Usage!UsageFlags, Usage!Flags, Usage!Record
  <2>4. (usageFile \in Usage!Files(period))'
    BY <1>3, <1>0, FileTypes DEF Usage!UsageTyped, Usage!NoIdentity, Usage!Record
  <2>5. (writers \subseteq Usage!Writers)' /\ \A v \in writers' : Usage!WriterInvariant(v)'
    BY <1>3, <1>0 DEF Usage!WriterInvariant, Usage!UsageTyped, Usage!Record
  <2>6. Usage!ChoiceInvariant'
    BY <1>3, <1>0, FileShapes DEF Usage!ChoiceInvariant, Usage!Enabling, Usage!Flags,
       Usage!Record
  <2>7. Usage!QueueInvariant'
    BY <1>3, <1>0 DEF Usage!QueueInvariant, Usage!Record
  <2>8. Usage!DeliveryInvariant'
    BY <1>3, <1>0, IdleShape DEF Usage!DeliveryInvariant, Usage!UsageTyped, Usage!Record
  <2> QED BY <2>1, <2>2, <2>3, <2>4, <2>5, <2>6, <2>7, <2>8 DEF Usage!UsageInvariant
<1>4. CASE Usage!close
  <2>1. (delivery \in Usage!Delivery)'
    BY <1>4, <1>0, IdleShape DEF Usage!close
  <2>2. Usage!UsageTyped'
    BY <1>4, <1>0 DEF Usage!UsageTyped, Usage!NoIdentity, Usage!close
  <2>3. Usage!UsageFlags'
    BY <1>4, <1>0 DEF Usage!UsageFlags, Usage!Flags, Usage!close
  <2>4. (usageFile \in Usage!Files(period))'
    BY <1>4, <1>0, FileTypes DEF Usage!UsageTyped, Usage!NoIdentity, Usage!close
  <2>5. (writers \subseteq Usage!Writers)' /\ \A v \in writers' : Usage!WriterInvariant(v)'
    BY <1>4, <1>0 DEF Usage!WriterInvariant, Usage!UsageTyped, Usage!close
  <2>6. Usage!ChoiceInvariant'
    BY <1>4, <1>0, FileShapes DEF Usage!ChoiceInvariant, Usage!Enabling, Usage!Flags,
       Usage!close
  <2>7. Usage!QueueInvariant'
    BY <1>4, <1>0 DEF Usage!QueueInvariant, Usage!close
  <2>8. Usage!DeliveryInvariant'
    BY <1>4, <1>0, IdleShape DEF Usage!DeliveryInvariant, Usage!UsageTyped, Usage!close
  <2> QED BY <2>1, <2>2, <2>3, <2>4, <2>5, <2>6, <2>7, <2>8 DEF Usage!UsageInvariant
<1>5. CASE Usage!Restart
  <2>a. usageFile.consent \in Usage!Flags /\ usageFile.identity \in 0..period /\ usageFile.seen \in SUBSET Events
        /\ period' \in Nat \ {0} /\ usageFile.identity \in 0..period'
    BY <1>5, <1>0, FileTypes DEF Usage!Restart, Usage!UsageTyped, Usage!NoIdentity
  <2>1. (delivery \in Usage!Delivery)'
    BY <1>5, <1>0, IdleShape DEF Usage!Restart
  <2>2. Usage!UsageTyped'
    BY <1>5, <1>0, <2>a DEF Usage!UsageTyped, Usage!NoIdentity, Usage!Restart
  <2>3. Usage!UsageFlags'
    BY <1>5, <1>0, <2>a DEF Usage!UsageFlags, Usage!Flags, Usage!Restart
  <2>4. (usageFile \in Usage!Files(period))'
    BY <1>5, <2>a, <1>0, FileTypes DEF Usage!UsageTyped, Usage!NoIdentity, Usage!Restart
  <2>5. (writers \subseteq Usage!Writers)' /\ \A v \in writers' : Usage!WriterInvariant(v)'
    BY <1>5, <1>0 DEF Usage!WriterInvariant, Usage!UsageTyped, Usage!Restart
  <2>6. Usage!ChoiceInvariant'
    BY <1>5, <1>0, FileShapes, <2>a DEF Usage!NoIdentity, Usage!ChoiceInvariant,
       Usage!Enabling, Usage!Flags, Usage!Restart
  <2>7. Usage!QueueInvariant'
    BY <1>5, <1>0, <2>a DEF Usage!Started, Usage!QueueInvariant, Usage!Restart
  <2>8. Usage!DeliveryInvariant'
    BY <1>5, <1>0, IdleShape DEF Usage!DeliveryInvariant, Usage!UsageTyped, Usage!Restart
  <2> QED BY <2>1, <2>2, <2>3, <2>4, <2>5, <2>6, <2>7, <2>8 DEF Usage!UsageInvariant
<1>6. CASE Usage!Writer \/ \E w \in writers : Usage!PublishFails(w)
  BY <1>6, UsageWriterKeeps DEF Usage!Writer
<1>7. CASE Usage!Delivers \/ Usage!SaveFails
  BY <1>7, UsageDeliveryKeeps
<1> QED BY <1>1, <1>2, <1>3, <1>4, <1>5, <1>6, <1>7 DEF Usage!Next

-----------------------------------------------------------------------------
(* WowLifecycle. *)

LEMMA LifecycleInit == Lifecycle!Init => Lifecycle!LifecycleInvariant
<1> SUFFICES ASSUME Lifecycle!Init PROVE Lifecycle!LifecycleInvariant
  OBVIOUS
<1>1. PICK p \in Procs : stage = [q \in Procs |-> IF q = p /\ sync THEN "watch" ELSE "none"]
  BY DEF Lifecycle!Init
<1>2. sync \in {TRUE, FALSE} /\ excused \in {TRUE, FALSE} /\ lifecyclePending = "none"
  BY DEF Lifecycle!Init
<1>3. session \in [current : Procs \cup {Lifecycle!NoOne}, retired : SUBSET Procs, ended : {TRUE, FALSE}]
  BY DEF Lifecycle!Init, Lifecycle!NoSession
<1>4. stage \in [Procs -> {"none", "watch", "probe", "launch", "run", "quit"}]
  BY <1>1
<1>5. Lifecycle!NobodyLeftBehind
  BY <1>1 DEF Lifecycle!NobodyLeftBehind, Lifecycle!Helpers, Lifecycle!At
<1> QED BY <1>2, <1>3, <1>4, <1>5 DEF Lifecycle!LifecycleInvariant

\* The session's record stays one when a process goes.
LEMMA SessionShape ==
  ASSUME Lifecycle!LifecycleInvariant, NEW p \in Procs
  PROVE  /\ Lifecycle!NoSession \in [current : Procs \cup {Lifecycle!NoOne}, retired : SUBSET Procs, ended : {TRUE, FALSE}]
         /\ Lifecycle!SessionWithout(p) \in [current : Procs \cup {Lifecycle!NoOne}, retired : SUBSET Procs, ended : {TRUE, FALSE}]
<1>1. session.ended \in {TRUE, FALSE} /\ session.retired \subseteq Procs /\ session.current \in Procs \cup {Lifecycle!NoOne}
  BY DEF Lifecycle!LifecycleInvariant
<1>2. (session.ended \/ p \in session.retired) \in {TRUE, FALSE}
  OBVIOUS
<1> QED BY <1>1, <1>2 DEF Lifecycle!NoSession, Lifecycle!SessionWithout

\* A process that leaves, or moves on among the helpers, leaves the others where they are.
LEMMA HelperLeaves ==
  ASSUME Lifecycle!LifecycleInvariant, NEW p \in Procs, Lifecycle!Leaves(p),
         UNCHANGED <<sync, lifecyclePending>>, excused' \in {TRUE, FALSE}, excused => excused',
         \/ ~sync \/ excused' \/ lifecyclePending # "none"
         \/ stage[p] \in {"none", "quit"}
         \/ \E q \in Procs : q # p /\ stage[q] = "run"
  PROVE  Lifecycle!LifecycleInvariant'
<1>1. stage' \in [Procs -> {"none", "watch", "probe", "launch", "run", "quit"}]
  BY DEF Lifecycle!LifecycleInvariant, Lifecycle!Leaves
<1>2. (session \in [current : Procs \cup {Lifecycle!NoOne}, retired : SUBSET Procs, ended : {TRUE, FALSE}])'
  BY SessionShape DEF Lifecycle!Leaves
<1>3. \A q \in Procs : q # p => stage'[q] = stage[q]
  BY DEF Lifecycle!LifecycleInvariant, Lifecycle!Leaves
<1>4. Lifecycle!NobodyLeftBehind'
  <2> SUFFICES ASSUME sync, ~excused', lifecyclePending = "none" PROVE Lifecycle!Helpers' # {} \/ Lifecycle!Running'
    BY DEF Lifecycle!NobodyLeftBehind
  <2>1. Lifecycle!Helpers # {} \/ Lifecycle!Running
    BY DEF Lifecycle!LifecycleInvariant, Lifecycle!NobodyLeftBehind
  <2>2. PICK q \in Procs : q # p /\ stage[q] \in {"watch", "probe", "launch", "run"}
    BY <2>1 DEF Lifecycle!Helpers, Lifecycle!Running, Lifecycle!At
  <2> QED BY <1>3, <2>2 DEF Lifecycle!Helpers, Lifecycle!Running, Lifecycle!At
<1> QED BY <1>1, <1>2, <1>4 DEF Lifecycle!LifecycleInvariant

\* Who moves to a stage that serves the user leaves nobody behind.
LEMMA ServesOn ==
  ASSUME Lifecycle!LifecycleInvariant, NEW p \in Procs, NEW s \in {"watch", "probe", "launch", "run"},
         stage' = [stage EXCEPT ![p] = s],
         (session \in [current : Procs \cup {Lifecycle!NoOne}, retired : SUBSET Procs, ended : {TRUE, FALSE}])',
         UNCHANGED <<sync, excused>>, lifecyclePending' \in {lifecyclePending, "none"}
  PROVE  Lifecycle!LifecycleInvariant'
<1>1. stage'[p] = s /\ stage' \in [Procs -> {"none", "watch", "probe", "launch", "run", "quit"}]
  BY DEF Lifecycle!LifecycleInvariant
<1>2. Lifecycle!NobodyLeftBehind'
  BY <1>1 DEF Lifecycle!NobodyLeftBehind, Lifecycle!Helpers, Lifecycle!Running, Lifecycle!At
<1> QED BY <1>1, <1>2 DEF Lifecycle!LifecycleInvariant

\* A process that claims the program becomes it, or meets the one that runs.
LEMMA ClaimKeeps ==
  ASSUME Lifecycle!LifecycleInvariant, NEW p \in Procs, NEW h \in {TRUE, FALSE}, Lifecycle!Claim(p, h), UNCHANGED sync,
         stage[p] \in {"none", "launch"}
  PROVE  Lifecycle!LifecycleInvariant'
<1>1. CASE Lifecycle!Instance # {}
  <2>1. Lifecycle!Leaves(p) /\ UNCHANGED lifecyclePending /\ excused' = (excused \/ Lifecycle!At("quit") # {})
    BY <1>1 DEF Lifecycle!Claim, Lifecycle!LeavesBehind
  <2>2. Lifecycle!At("quit") = {} => \E q \in Procs : q # p /\ stage[q] = "run"
    BY <1>1 DEF Lifecycle!Instance, Lifecycle!At
  <2>3. excused \in {TRUE, FALSE}
    BY DEF Lifecycle!LifecycleInvariant
  <2> QED BY <2>1, <2>2, <2>3, HelperLeaves
<1>2. CASE Lifecycle!Instance = {}
  <2>1. stage' = [stage EXCEPT ![p] = "run"] /\ lifecyclePending' = "none" /\ session' = Lifecycle!NoSession /\ UNCHANGED excused
    BY <1>2 DEF Lifecycle!Claim
  <2> QED BY <2>1, SessionShape, ServesOn
<1> QED BY <1>1, <1>2

\* Ending the session's own helpers ends no program.
LEMMA StopHelpersKeeps ==
  ASSUME Lifecycle!LifecycleInvariant, Lifecycle!StopHelpers, Lifecycle!Running
  PROVE  /\ stage' \in [Procs -> {"none", "watch", "probe", "launch", "run", "quit"}]
         /\ (session \in [current : Procs \cup {Lifecycle!NoOne}, retired : SUBSET Procs, ended : {TRUE, FALSE}])'
         /\ Lifecycle!Running'
<1> DEFINE own == {p \in {session.current} \cup session.retired : Lifecycle!Alive(p)}
<1>1. PICK r \in Procs : stage[r] = "run"
  BY DEF Lifecycle!Running, Lifecycle!At
<1>2. own \subseteq Procs \cup {Lifecycle!NoOne} /\ Lifecycle!NoOne \notin own /\ r \notin own
  BY <1>1 DEF Lifecycle!Alive, Lifecycle!LifecycleInvariant
<1>3. own \subseteq Procs
  BY <1>2
<1>4. CASE stage' = [p \in Procs |-> IF p \in own THEN "none" ELSE stage[p]] /\ session' = Lifecycle!NoSession
  <2>1. stage' \in [Procs -> {"none", "watch", "probe", "launch", "run", "quit"}]
    BY <1>4 DEF Lifecycle!LifecycleInvariant
  <2>2. stage'[r] = "run"
    BY <1>4, <1>2, <1>1
  <2> QED BY <1>4, <2>1, <2>2, SessionShape, <1>1 DEF Lifecycle!Running, Lifecycle!At
<1>5. CASE session' = [current |-> Lifecycle!NoOne, retired |-> own, ended |-> FALSE] /\ UNCHANGED stage
  BY <1>3, <1>5, <1>1 DEF Lifecycle!Running, Lifecycle!At, Lifecycle!LifecycleInvariant
<1> QED BY <1>4, <1>5 DEF Lifecycle!StopHelpers

\* While the program runs, a change of the settings leaves nobody behind.
LEMMA RunningServes ==
  ASSUME Lifecycle!Running',
         stage' \in [Procs -> {"none", "watch", "probe", "launch", "run", "quit"}],
         (session \in [current : Procs \cup {Lifecycle!NoOne}, retired : SUBSET Procs, ended : {TRUE, FALSE}])',
         sync' \in {TRUE, FALSE}, excused' \in {TRUE, FALSE}, lifecyclePending' \in {"none", "on", "off"},
         lifecyclePending' = "off" => ~sync'
  PROVE  Lifecycle!LifecycleInvariant'
BY DEF Lifecycle!LifecycleInvariant, Lifecycle!NobodyLeftBehind

\* A helper that is started waits; without one, the helper that was found lives on.
LEMMA HelperStarted ==
  ASSUME Lifecycle!LifecycleInvariant, NEW checked \in {TRUE, FALSE}, NEW launched \in Procs \cup {Lifecycle!NoOne},
         NEW stages \in [Procs -> {"none", "watch", "probe", "launch", "run", "quit"}],
         \A q \in Procs : stages[q] # stage[q] => stage[q] = "run",
         Lifecycle!StartHelper(checked, stages, launched), session' = Lifecycle!Known(launched)
  PROVE  /\ stage' \in [Procs -> {"none", "watch", "probe", "launch", "run", "quit"}]
         /\ (session \in [current : Procs \cup {Lifecycle!NoOne}, retired : SUBSET Procs, ended : {TRUE, FALSE}])'
         /\ Lifecycle!Helpers' # {}
         /\ \A q \in Procs : stages[q] = "run" => stage'[q] = "run"
<1>1. (session \in [current : Procs \cup {Lifecycle!NoOne}, retired : SUBSET Procs, ended : {TRUE, FALSE}])'
  BY DEF Lifecycle!Known, Lifecycle!LifecycleInvariant
<1>2. CASE (Lifecycle!Alive(session.current) \/ (checked /\ Lifecycle!Helpers # {})) /\ stage' = stages
  <2>1. session.current \in Procs \cup {Lifecycle!NoOne}
    BY DEF Lifecycle!LifecycleInvariant
  <2>2. PICK q \in Procs : stage[q] \in {"watch", "probe", "launch"}
    BY <1>2, <2>1 DEF Lifecycle!Alive, Lifecycle!Helpers, Lifecycle!At
  <2>3. stage'[q] \in {"watch", "probe", "launch"}
    BY <1>2, <2>2
  <2> QED BY <1>1, <1>2, <2>3 DEF Lifecycle!Helpers, Lifecycle!At
<1>3. CASE launched # Lifecycle!NoOne /\ stages[launched] = "none" /\ stage' = [stages EXCEPT ![launched] = "watch"]
  <2>1. stage'[launched] = "watch" /\ launched \in Procs
    BY <1>3
  <2> QED BY <1>1, <1>3, <2>1 DEF Lifecycle!Helpers, Lifecycle!At
<1> QED BY <1>2, <1>3 DEF Lifecycle!StartHelper

\* The other variables are not the invariant's.
LEMMA LifecycleSame ==
  ASSUME Lifecycle!LifecycleInvariant, UNCHANGED <<sync, stage, lifecyclePending, session, excused>>
  PROVE  Lifecycle!LifecycleInvariant'
BY DEF Lifecycle!LifecycleInvariant, Lifecycle!NobodyLeftBehind, Lifecycle!Helpers,
   Lifecycle!Running, Lifecycle!At

LEMMA LifecycleNextKeeps ==
  ASSUME Lifecycle!LifecycleInvariant, Lifecycle!Next
  PROVE  Lifecycle!LifecycleInvariant'
<1>0. /\ stage \in [Procs -> {"none", "watch", "probe", "launch", "run", "quit"}]
      /\ session \in [current : Procs \cup {Lifecycle!NoOne}, retired : SUBSET Procs, ended : {TRUE, FALSE}]
      /\ sync \in {TRUE, FALSE} /\ excused \in {TRUE, FALSE}
      /\ lifecyclePending \in {"none", "on", "off"} /\ (lifecyclePending = "off" => ~sync)
  BY DEF Lifecycle!LifecycleInvariant
<1>1. CASE Lifecycle!Game \/ Lifecycle!Tick \/ Lifecycle!Scan \/ Lifecycle!Seen \/ Lifecycle!ScanFailed \/ Lifecycle!Missing
  BY <1>1, LifecycleSame DEF Lifecycle!Game, Lifecycle!Tick, Lifecycle!Scan, Lifecycle!Seen,
     Lifecycle!ScanFailed, Lifecycle!Missing
<1>2. ASSUME NEW p \in Procs, Lifecycle!Watch(p) PROVE Lifecycle!LifecycleInvariant'
  <2>1. CASE stage' = [stage EXCEPT ![p] = "probe"] /\ UNCHANGED session
    BY <2>1, <1>2, <1>0, ServesOn DEF Lifecycle!Watch
  <2>2. CASE ~sync /\ Lifecycle!Leaves(p)
    BY <2>2, <1>2, <1>0, HelperLeaves DEF Lifecycle!Watch
  <2> QED BY <1>2, <2>1, <2>2 DEF Lifecycle!Watch
<1>3. ASSUME NEW p \in Procs, Lifecycle!Probe(p) PROVE Lifecycle!LifecycleInvariant'
  <2>1. CASE Lifecycle!Instance # {} /\ Lifecycle!Leaves(p) /\ Lifecycle!LeavesBehind
    <3>1. stage[p] = "probe" /\ UNCHANGED <<sync, lifecyclePending>> /\ excused' = (excused \/ Lifecycle!At("quit") # {})
      BY <1>3, <2>1 DEF Lifecycle!Probe, Lifecycle!LeavesBehind
    <3>2. Lifecycle!At("quit") = {} => \E q \in Procs : q # p /\ stage[q] = "run"
      BY <2>1, <3>1 DEF Lifecycle!Instance, Lifecycle!At
    <3> QED BY <2>1, <3>1, <3>2, <1>0, HelperLeaves
  <2>2. CASE stage' = [stage EXCEPT ![p] = "launch"] /\ UNCHANGED <<session, excused>>
    BY <2>2, <1>3, <1>0, ServesOn DEF Lifecycle!Probe
  <2> QED BY <1>3, <2>1, <2>2 DEF Lifecycle!Probe
<1>4. ASSUME NEW p \in Procs, Lifecycle!Launch(p) \/ Lifecycle!Start(p) PROVE Lifecycle!LifecycleInvariant'
  BY <1>4, ClaimKeeps DEF Lifecycle!Launch, Lifecycle!Start
<1>5. ASSUME NEW p \in Procs, Lifecycle!EndWithGame(p) PROVE Lifecycle!LifecycleInvariant'
  <2> DEFINE stages == [stage EXCEPT ![p] = "quit"]
  <2>1. PICK launched \in Procs \cup {Lifecycle!NoOne} :
           /\ Lifecycle!StartHelper(TRUE, stages, launched) /\ session' = Lifecycle!Known(launched)
           /\ excused' = (excused \/ (launched = Lifecycle!NoOne /\ Lifecycle!Helpers # {} /\ Lifecycle!At("watch") = {}))
    BY <1>5 DEF Lifecycle!EndWithGame
  <2>2. stage[p] = "run" /\ UNCHANGED sync /\ lifecyclePending' = "none"
    BY <1>5 DEF Lifecycle!EndWithGame
  <2>3. /\ stages \in [Procs -> {"none", "watch", "probe", "launch", "run", "quit"}]
        /\ \A q \in Procs : stages[q] # stage[q] => stage[q] = "run"
    BY <1>0, <2>2
  <2> HIDE DEF stages
  <2>6. Lifecycle!StartHelper(TRUE, stages, launched) /\ session' = Lifecycle!Known(launched)
    BY <2>1
  <2>4. /\ stage' \in [Procs -> {"none", "watch", "probe", "launch", "run", "quit"}]
        /\ (session \in [current : Procs \cup {Lifecycle!NoOne}, retired : SUBSET Procs, ended : {TRUE, FALSE}])'
        /\ Lifecycle!Helpers' # {}
    BY <2>6, <2>3, HelperStarted
  <2>5. excused' \in {TRUE, FALSE}
    BY <2>1, <1>0
  <2> QED BY <2>2, <2>4, <2>5, <1>0 DEF Lifecycle!LifecycleInvariant,
         Lifecycle!NobodyLeftBehind
<1>6. ASSUME NEW p \in Procs, Lifecycle!EndAfterTurnOff(p) PROVE Lifecycle!LifecycleInvariant'
  <2>1. ~ sync /\ UNCHANGED <<sync, excused>> /\ lifecyclePending' = "none" /\ session' = Lifecycle!NoSession
    BY <1>6, <1>0 DEF Lifecycle!EndAfterTurnOff
  <2>2. stage' \in [Procs -> {"none", "watch", "probe", "launch", "run", "quit"}]
    BY <1>6, <1>0 DEF Lifecycle!EndAfterTurnOff
  <2> QED BY <2>1, <2>2, <1>0, <1>6, SessionShape DEF Lifecycle!LifecycleInvariant,
         Lifecycle!NobodyLeftBehind
<1>7. ASSUME NEW p \in Procs, Lifecycle!Quit(p) PROVE Lifecycle!LifecycleInvariant'
  BY <1>7, <1>0 DEF Lifecycle!Quit, Lifecycle!LifecycleInvariant, Lifecycle!NobodyLeftBehind
<1>8. ASSUME NEW p \in Procs, Lifecycle!End(p) PROVE Lifecycle!LifecycleInvariant'
  BY <1>8, <1>0, HelperLeaves DEF Lifecycle!End
<1>9. ASSUME NEW p \in Procs, Lifecycle!Crash(p) PROVE Lifecycle!LifecycleInvariant'
  <2>1. /\ excused' = TRUE /\ UNCHANGED sync /\ lifecyclePending' \in {"none", lifecyclePending}
        /\ stage' = [stage EXCEPT ![p] = "none"] /\ session' = Lifecycle!SessionWithout(p)
    BY <1>9 DEF Lifecycle!Crash, Lifecycle!Leaves
  <2>2. (session \in [current : Procs \cup {Lifecycle!NoOne}, retired : SUBSET Procs, ended : {TRUE, FALSE}])'
    BY <2>1, SessionShape
  <2> QED BY <2>1, <2>2, <1>0 DEF Lifecycle!LifecycleInvariant, Lifecycle!NobodyLeftBehind
<1>10. ASSUME NEW on \in BOOLEAN, Lifecycle!Save(on) PROVE Lifecycle!LifecycleInvariant'
  <2>1. Lifecycle!Running' /\ UNCHANGED <<stage, session, excused>>
    BY <1>10 DEF Lifecycle!Save, Lifecycle!Running, Lifecycle!At
  <2>2. sync' = on /\ lifecyclePending' \in {"none", "on", "off"} /\ (lifecyclePending' = "off" => ~ on)
    BY <1>10 DEF Lifecycle!Save
  <2>3. sync' \in {TRUE, FALSE}
    BY <2>2
  <2> QED BY <2>1, <2>2, <2>3, <1>0, RunningServes
<1>11. CASE Lifecycle!TurnOff
  <2>1. Lifecycle!StopHelpers /\ Lifecycle!Running /\ lifecyclePending' = "none" /\ UNCHANGED <<sync, excused>>
    BY <1>11 DEF Lifecycle!TurnOff
  <2> QED BY <2>1, <1>0, StopHelpersKeeps, RunningServes
<1>12. CASE Lifecycle!TurnOn
  <2>1. Lifecycle!Running /\ lifecyclePending' = "none" /\ UNCHANGED excused
    BY <1>12 DEF Lifecycle!TurnOn
  <2>2. CASE Lifecycle!Unstopped /\ Lifecycle!StopHelpers /\ sync' = FALSE
    BY <2>1, <2>2, <1>0, StopHelpersKeeps, RunningServes
  <2>3. CASE \E launched \in Procs \cup {Lifecycle!NoOne} :
                Lifecycle!StartHelper(FALSE, stage, launched) /\ session' = Lifecycle!Known(launched) /\ UNCHANGED sync
    <3>1. PICK launched \in Procs \cup {Lifecycle!NoOne} :
                Lifecycle!StartHelper(FALSE, stage, launched) /\ session' = Lifecycle!Known(launched) /\ UNCHANGED sync
      BY <2>3
    <3>2. PICK r \in Procs : stage[r] = "run"
      BY <2>1 DEF Lifecycle!Running, Lifecycle!At
    <3>3. /\ stage' \in [Procs -> {"none", "watch", "probe", "launch", "run", "quit"}]
          /\ (session \in [current : Procs \cup {Lifecycle!NoOne}, retired : SUBSET Procs, ended : {TRUE, FALSE}])'
          /\ stage'[r] = "run"
      BY <3>1, <3>2, <1>0, HelperStarted, ZenonT(120)
    <3>4. Lifecycle!Running'
      BY <3>3 DEF Lifecycle!Running, Lifecycle!At
    <3> QED BY <3>1, <3>3, <3>4, <2>1, <1>0, RunningServes
  <2> QED BY <1>12, <2>2, <2>3 DEF Lifecycle!TurnOn
<1> QED BY <1>1, <1>2, <1>3, <1>4, <1>5, <1>6, <1>7, <1>8, <1>9, <1>10, <1>11, <1>12
        DEF Lifecycle!Next, Lifecycle!HelperSteps, Lifecycle!TimerSteps

-----------------------------------------------------------------------------
(* SettingsEdits. *)

LEMMA EditsInit == Edits!Init => Edits!EditsInvariant
<1> SUFFICES ASSUME Edits!Init PROVE Edits!EditsInvariant
  OBVIOUS
<1> USE DEF Edits!Init, Edits!values, Edits!NoProbe
<1>1. Edits!TypeOK
  BY DEF Edits!TypeOK
<1>2. Edits!FlagsTyped
  BY DEF Edits!FlagsTyped
<1>3. Edits!ProbedInvariant
  BY DEF Edits!ProbedInvariant
<1> QED BY <1>1, <1>2, <1>3 DEF Edits!EditsInvariant

\* A save that is not held back saves a folder that was found good.
LEMMA SavableIsProbed ==
  ASSUME Edits!EditsInvariant, NEW requireReady \in BOOLEAN, Edits!Obstacle(requireReady) = "none"
  PROVE  path \in clean \cup {Edits!Empty}
BY DEF Edits!EditsInvariant, Edits!ProbedInvariant, Edits!Obstacle, Edits!Checked

\* What a save leaves: the values shown, or the last good folder in place of the one shown.
LEMMA EmitSaves ==
  ASSUME Edits!EditsInvariant, NEW requireReady \in BOOLEAN, Edits!Emit(requireReady, started, waiting)
  PROVE  /\ \/ UNCHANGED editsApplied
            \/ editsApplied' = Edits!values /\ path \in clean \cup {Edits!Empty}
            \/ editsApplied' = Edits!Pinned
         /\ baseline' \in {baseline, Edits!values, Edits!Pinned}
         /\ probe' \in {probe, [on |-> TRUE, path |-> path, current |-> TRUE]}
         /\ started' \in BOOLEAN /\ waiting' \in BOOLEAN /\ debounce' \in BOOLEAN
<1>1. started \in BOOLEAN /\ waiting \in BOOLEAN /\ debounce \in BOOLEAN
  BY DEF Edits!EditsInvariant, Edits!FlagsTyped
<1>2. CASE busy = "update"
  BY <1>1, <1>2 DEF Edits!Emit
<1>3. CASE busy # "update" /\ Edits!Obstacle(requireReady) = "none"
  BY <1>1, <1>3, SavableIsProbed DEF Edits!Emit, Edits!Sends
<1>4. CASE busy # "update" /\ Edits!Obstacle(requireReady) = "bad"
  BY <1>1, <1>4 DEF Edits!Emit, Edits!Blocked
<1>5. CASE busy # "update" /\ Edits!Obstacle(requireReady) \notin {"none", "bad"}
  <2>1. Edits!StartProbe(started) /\ waiting' = TRUE
        /\ IF ~requireReady /\ Edits!MayProceed THEN Edits!Sends(Edits!Pinned) ELSE Edits!Blocked
    BY <1>5 DEF Edits!Emit
  <2>2. probe' \in {probe, [on |-> TRUE, path |-> path, current |-> TRUE]}
        /\ started' \in BOOLEAN /\ debounce' \in BOOLEAN
    BY <2>1, <1>1 DEF Edits!StartProbe
  <2>3. \/ UNCHANGED <<editsApplied, baseline>>
        \/ editsApplied' = Edits!Pinned /\ baseline' = Edits!Pinned
    BY <2>1 DEF Edits!Sends, Edits!Blocked
  <2> QED BY <2>1, <2>2, <2>3
<1> QED BY <1>2, <1>3, <1>4, <1>5

\* What such a save and a probe may change keeps the invariant.
LEMMA SavesKeep ==
  ASSUME Edits!EditsInvariant,
         \/ UNCHANGED editsApplied
         \/ editsApplied' = Edits!values /\ path \in clean \cup {Edits!Empty}
         \/ editsApplied' = Edits!Pinned,
         baseline' \in {baseline, Edits!values, Edits!Pinned},
         probe' \in {probe, Edits!NoProbe, [on |-> TRUE, path |-> path, current |-> TRUE]},
         started' \in BOOLEAN, waiting' \in BOOLEAN, debounce' \in BOOLEAN,
         autosave' \in BOOLEAN, busy' \in {"no", "update", "cache", "test"},
         UNCHANGED <<path, other, ready, required, warning, readyPath, clean>>
  PROVE  Edits!EditsInvariant'
<1>1. /\ path \in Folders \cup {Edits!Empty} /\ other \in {0, 1}
      /\ probe \in [on : BOOLEAN, path : Folders \cup {Edits!Empty}, current : BOOLEAN]
      /\ editsApplied.path \in Folders \cup {Edits!Empty} /\ baseline.path \in Folders \cup {Edits!Empty}
  BY DEF Edits!EditsInvariant, Edits!TypeOK
<1>2. Edits!ProbedInvariant /\ Edits!FlagsTyped
  BY DEF Edits!EditsInvariant
<1>3. Edits!Pinned.path = readyPath /\ Edits!values.path = path
  BY DEF Edits!Pinned, Edits!values
<1>4. readyPath \in clean /\ clean \subseteq Folders \cup {Edits!Empty}
  BY <1>2 DEF Edits!ProbedInvariant
<1>5. probe' \in [on : BOOLEAN, path : Folders \cup {Edits!Empty}, current : BOOLEAN]
  <2>1. Edits!NoProbe \in [on : BOOLEAN, path : Folders \cup {Edits!Empty}, current : BOOLEAN]
    BY DEF Edits!NoProbe
  <2>2. [on |-> TRUE, path |-> path, current |-> TRUE] \in [on : BOOLEAN, path : Folders \cup {Edits!Empty}, current : BOOLEAN]
    BY <1>1
  <2> QED BY <1>1, <2>1, <2>2
<1>6. baseline'.path \in Folders \cup {Edits!Empty}
  BY <1>1, <1>3, <1>4
<1>7. editsApplied'.path \in clean \cup {Edits!Empty}
  BY <1>2, <1>3, <1>4 DEF Edits!ProbedInvariant
<1>8. Edits!ProbedInvariant'
  BY <1>2, <1>7 DEF Edits!ProbedInvariant
<1>9. Edits!TypeOK'
  BY <1>1, <1>4, <1>5, <1>6, <1>7 DEF Edits!TypeOK
<1>10. Edits!FlagsTyped'
  BY <1>2 DEF Edits!FlagsTyped
<1> QED BY <1>8, <1>9, <1>10 DEF Edits!EditsInvariant

LEMMA EditsNextKeeps ==
  ASSUME Edits!EditsInvariant, Edits!Next
  PROVE  Edits!EditsInvariant'
<1>0. /\ autosave \in BOOLEAN /\ debounce \in BOOLEAN /\ started \in BOOLEAN
      /\ ready \in BOOLEAN /\ required \in BOOLEAN /\ waiting \in BOOLEAN
      /\ busy \in {"no", "update", "cache", "test"}
  BY DEF Edits!EditsInvariant, Edits!FlagsTyped, Edits!TypeOK
<1>1. CASE Edits!EditPath
  <2>1. /\ path' \in Folders \cup {Edits!Empty} /\ required' = TRUE /\ probe' = [probe EXCEPT !.current = FALSE]
        /\ warning' \in {warning, [path |-> Edits!Empty, bad |-> FALSE]}
        /\ UNCHANGED <<other, readyPath, baseline, editsApplied, busy, clean>>
    BY <1>1 DEF Edits!EditPath, Edits!Revalidate
  <2>2. /\ started' \in BOOLEAN /\ debounce' \in BOOLEAN /\ ready' \in BOOLEAN /\ waiting' \in BOOLEAN
        /\ autosave' \in BOOLEAN
    BY <1>1, <1>0 DEF Edits!EditPath, Edits!Revalidate
  <2>3. Edits!TypeOK'
    BY <2>1 DEF Edits!EditsInvariant, Edits!TypeOK
  <2>4. Edits!ProbedInvariant'
    BY <2>1 DEF Edits!EditsInvariant, Edits!ProbedInvariant
  <2> QED BY <2>1, <2>2, <2>3, <2>4 DEF Edits!EditsInvariant, Edits!FlagsTyped
<1>2. CASE Edits!EditOther
  <2>1. other' \in {0, 1} /\ autosave' = TRUE
        /\ UNCHANGED <<path, debounce, started, ready, required, waiting, warning, readyPath,
                       probe, baseline, editsApplied, busy, clean>>
    BY <1>2 DEF Edits!EditOther, Edits!EditsInvariant, Edits!TypeOK
  <2> QED BY <2>1 DEF Edits!EditsInvariant, Edits!TypeOK, Edits!FlagsTyped,
         Edits!ProbedInvariant
<1>3. CASE Edits!Autosave
  <2>1. Edits!Emit(FALSE, started, waiting) /\ autosave' = FALSE
        /\ UNCHANGED <<path, other, ready, required, warning, readyPath, busy, clean>>
    BY <1>3 DEF Edits!Autosave
  <2> QED BY <2>1, <1>0, EmitSaves, SavesKeep
<1>4. CASE Edits!Debounce \/ Edits!StaleResult
  <2>1. /\ probe' \in {probe, Edits!NoProbe, [on |-> TRUE, path |-> path, current |-> TRUE]}
        /\ started' \in BOOLEAN /\ debounce' \in BOOLEAN
        /\ UNCHANGED <<path, other, autosave, ready, required, waiting, warning, readyPath,
                       baseline, editsApplied, busy, clean>>
    BY <1>4, <1>0 DEF Edits!Debounce, Edits!StaleResult, Edits!StartProbe
  <2> QED BY <2>1, <1>0, SavesKeep
<1>5. CASE Edits!Result
  <2>1. PICK bad \in BOOLEAN :
           /\ Edits!ResultWith(bad) /\ started' \in BOOLEAN
           /\ IF Edits!Enabled /\ Edits!Waited
              THEN /\ waiting' = FALSE /\ autosave' = FALSE
                   /\ IF bad THEN Edits!Blocked ELSE Edits!Sends(Edits!values)
              ELSE UNCHANGED <<waiting, autosave, baseline, editsApplied, reports, succeeded>>
    BY <1>5 DEF Edits!Result
  <2>2. /\ probe' = Edits!NoProbe /\ UNCHANGED <<path, other, debounce, required, busy>>
    BY <1>5 DEF Edits!Result
  <2>3. /\ warning' = [path |-> path, bad |-> bad] /\ ready' = TRUE
        /\ readyPath' = (IF bad THEN readyPath ELSE path)
        /\ clean' = (IF bad THEN clean ELSE clean \cup {path})
    BY <2>1 DEF Edits!ResultWith
  <2>4. /\ waiting' \in BOOLEAN /\ autosave' \in BOOLEAN
        /\ \/ UNCHANGED <<editsApplied, baseline>>
           \/ editsApplied' = Edits!values /\ baseline' = Edits!values /\ ~bad
    BY <2>1, <1>0 DEF Edits!Blocked, Edits!Sends
  <2>5. /\ path \in Folders \cup {Edits!Empty} /\ other \in {0, 1}
        /\ editsApplied.path \in Folders \cup {Edits!Empty} /\ baseline.path \in Folders \cup {Edits!Empty}
    BY DEF Edits!EditsInvariant, Edits!TypeOK
  <2>6. Edits!values.path = path
    BY DEF Edits!values
  <2>7. Edits!ProbedInvariant
    BY DEF Edits!EditsInvariant
  <2>8. Edits!ProbedInvariant'
    <3>1. CASE bad
      BY <2>7, <2>2, <2>3, <2>4, <3>1 DEF Edits!ProbedInvariant
    <3>2. CASE ~bad
      <4>1. clean' = clean \cup {path} /\ readyPath' = path /\ warning'.path = path
        BY <2>3, <3>2
      <4>2. editsApplied'.path \in clean' \cup {Edits!Empty}
        BY <2>4, <2>6, <2>7, <4>1 DEF Edits!ProbedInvariant
      <4> QED BY <2>5, <2>7, <2>2, <4>1, <4>2 DEF Edits!ProbedInvariant
    <3> QED BY <3>1, <3>2
  <2>9. Edits!TypeOK'
    <3>1. (probe \in [on : BOOLEAN, path : Folders \cup {Edits!Empty}, current : BOOLEAN])'
      BY <2>2 DEF Edits!NoProbe
    <3>2. editsApplied'.path \in Folders \cup {Edits!Empty} /\ baseline'.path \in Folders \cup {Edits!Empty}
      BY <2>4, <2>5, <2>6
    <3> QED BY <3>1, <3>2, <2>2, <2>5, <1>0 DEF Edits!TypeOK
  <2> QED BY <2>8, <2>9, <2>1, <2>2, <2>3, <2>4, <1>0 DEF Edits!EditsInvariant,
         Edits!FlagsTyped
<1>6. CASE Edits!Reported \/ Edits!Release \/ Edits!_test_credentials
  <2>1. /\ UNCHANGED <<path, other, debounce, started, ready, required, warning, readyPath, probe,
                       baseline, editsApplied, clean>>
        /\ waiting' \in BOOLEAN /\ autosave' \in BOOLEAN /\ busy' \in {"no", "update", "cache", "test"}
    BY <1>6, <1>0 DEF Edits!Reported, Edits!Release, Edits!_test_credentials
  <2> QED BY <2>1, <1>0, SavesKeep
<1>7. ASSUME NEW requireReady \in BOOLEAN, Edits!Flush(requireReady), busy' \in {"no", "update", "cache", "test"},
             UNCHANGED <<path, other, ready, required, warning, readyPath, clean>>
      PROVE  Edits!EditsInvariant'
  <2>1. CASE Edits!Emit(requireReady, started, waiting)
    BY <1>7, <2>1, EmitSaves, SavesKeep DEF Edits!Flush
  <2>2. CASE UNCHANGED <<baseline, editsApplied, debounce, probe, started, waiting>>
    BY <1>7, <2>2, <1>0, SavesKeep DEF Edits!Flush
  <2> QED BY <1>7, <2>1, <2>2 DEF Edits!Flush
<1>8. CASE Edits!Hold
  <2>1. Edits!Flush(FALSE) /\ busy' \in {busy, "update", "cache"}
        /\ UNCHANGED <<path, other, ready, required, warning, readyPath, clean>>
    BY <1>8 DEF Edits!Hold
  <2> QED BY <2>1, <1>0, <1>7
<1>9. CASE Edits!TestEnds
  <2>1. /\ UNCHANGED <<path, other, ready, required, warning, readyPath, clean, waiting, baseline>>
        /\ busy' = "no"
    BY <1>9 DEF Edits!TestEnds
  <2>2. /\ autosave' \in BOOLEAN
        /\ UNCHANGED editsApplied \/ (editsApplied' = Edits!values /\ Edits!Obstacle(FALSE) = "none")
        /\ UNCHANGED <<debounce, started, probe>> \/ Edits!StartProbe(started)
    BY <1>9, <1>0 DEF Edits!TestEnds
  <2>3. UNCHANGED editsApplied \/ (editsApplied' = Edits!values /\ path \in clean \cup {Edits!Empty})
    BY <2>2, SavableIsProbed
  <2>4. /\ probe' \in {probe, [on |-> TRUE, path |-> path, current |-> TRUE]}
        /\ started' \in BOOLEAN /\ debounce' \in BOOLEAN
    BY <2>2, <1>0 DEF Edits!StartProbe
  <2> QED BY <2>1, <2>2, <2>3, <2>4, <1>0, SavesKeep
<1>10. CASE Edits!prepare_quit
  BY <1>10, <1>7, <1>0 DEF Edits!prepare_quit
<1> QED BY <1>1, <1>2, <1>3, <1>4, <1>5, <1>6, <1>8, <1>9, <1>10 DEF Edits!Next

-----------------------------------------------------------------------------
(* SettingsApply. *)

\* No configuration is the file that is missing, the snapshot not taken or the change not
\* submitted: their fields differ.
LEMMA Sentinels ==
  /\ Settings!Absent \notin Settings!Configs /\ Settings!NoSnapshot \notin Settings!Contents /\ Settings!NoItem \notin Settings!Items
  /\ Settings!NoSnapshot # Settings!Absent
<1>1. \A c \in Settings!Configs : DOMAIN c = {"creds", "draft", "path", "sync"}
  BY DEF Settings!Configs
<1>2. DOMAIN Settings!Absent = {"absent"} /\ DOMAIN Settings!NoSnapshot = {"absent"}
  BY DEF Settings!Absent, Settings!NoSnapshot
<1>3. \A i \in Settings!Items : DOMAIN i = {"no", "values", "apply"}
  BY DEF Settings!Items
<1>4. DOMAIN Settings!NoItem = {"no"}
  BY DEF Settings!NoItem
<1>5. {"creds", "draft", "path", "sync"} # {"absent"} /\ {"no", "values", "apply"} # {"no"}
  OBVIOUS
<1>6. Settings!NoSnapshot.absent = FALSE /\ Settings!Absent.absent = TRUE
  BY DEF Settings!Absent, Settings!NoSnapshot
<1>7. Settings!Absent \notin Settings!Configs /\ Settings!NoSnapshot \notin Settings!Configs
  BY <1>1, <1>2, <1>5
<1>8. Settings!NoItem \notin Settings!Items
  BY <1>3, <1>4, <1>5
<1>9. Settings!NoSnapshot # Settings!Absent
  BY <1>6
<1> QED BY <1>7, <1>8, <1>9 DEF Settings!Contents

LEMMA FirstShape == \A s \in {TRUE, FALSE} : Settings!Legacy(s) \in Settings!Configs
BY DEF Settings!Legacy, Settings!Configs, Settings!NoDraft

LEMMA SavedShape == \A contents \in Settings!Contents : Settings!Saved(contents) \in Settings!Configs
<1>1. Settings!First \in Settings!Configs
  BY FirstShape DEF Settings!First
<1> QED BY <1>1 DEF Settings!Saved, Settings!Contents

\* An overriding environment names values of the settings.
LEMMA OverrideShape ==
  ASSUME NEW e \in Settings!Overrides
  PROVE  /\ "creds" \in DOMAIN e => e.creds \in {1, 2}
         /\ "path" \in DOMAIN e => e.path \in {1, 2}
         /\ "sync" \in DOMAIN e => e.sync \in {TRUE, FALSE}
<1>1. CASE e = <<>>
  BY <1>1
<1>2. CASE e = [creds |-> 2]
  BY <1>2
<1>3. CASE e = [path |-> 2]
  BY <1>3
<1>4. CASE e = [sync |-> FALSE]
  BY <1>4
<1> QED BY <1>1, <1>2, <1>3, <1>4 DEF Settings!Overrides

LEMMA EffectiveShape ==
  ASSUME NEW e \in Settings!Overrides, NEW c \in Settings!Configs
  PROVE  Settings!Effective(e, c) \in Settings!Configs
<1>1. (IF "creds" \in DOMAIN e THEN e.creds ELSE c.creds) \in {1, 2}
  BY OverrideShape DEF Settings!Configs
<1>2. (IF "path" \in DOMAIN e THEN e.path ELSE c.path) \in {1, 2, Settings!Found}
  BY OverrideShape DEF Settings!Configs
<1>3. (IF "sync" \in DOMAIN e THEN e.sync ELSE c.sync) \in {TRUE, FALSE}
  BY OverrideShape DEF Settings!Configs
<1>4. c.draft \in {Settings!NoDraft, 1, 2}
  BY DEF Settings!Configs
<1> QED BY <1>1, <1>2, <1>3, <1>4 DEF Settings!Effective, Settings!Configs

LEMMA ConfigRecord ==
  \A cc \in {1, 2}, dd \in {Settings!NoDraft, 1, 2}, pp \in {1, 2, Settings!Found}, ss \in {TRUE, FALSE} :
     [creds |-> cc, draft |-> dd, path |-> pp, sync |-> ss] \in Settings!Configs
BY DEF Settings!Configs

LEMMA ValueShape ==
  ASSUME NEW v \in Settings!Values
  PROVE  v.creds \in {1, 2} /\ v.path \in {1, 2} /\ v.sync \in {TRUE, FALSE}
BY DEF Settings!Values

\* What a change makes of the configuration, and what is saved of it, are configurations;
\* and the file that is saved loads the configuration the change makes.
LEMMA ConfigShape ==
  ASSUME env \in Settings!Overrides, NEW v \in Settings!Values, NEW apply \in {TRUE, FALSE}, NEW old \in Settings!Configs
  PROVE  Settings!ToConfig(v, apply, old) \in Settings!Configs
<1> DEFINE c == [creds |-> IF apply THEN v.creds ELSE old.creds,
                 draft |-> IF ~apply /\ v.creds # old.creds THEN v.creds ELSE Settings!NoDraft,
                 path |-> v.path, sync |-> v.sync]
<1>1. (IF apply THEN v.creds ELSE old.creds) \in {1, 2}
  BY ValueShape DEF Settings!Configs
<1>2. (IF ~apply /\ v.creds # old.creds THEN v.creds ELSE Settings!NoDraft) \in {Settings!NoDraft, 1, 2}
  BY ValueShape
<1>3. v.path \in {1, 2, Settings!Found} /\ v.sync \in {TRUE, FALSE}
  BY ValueShape
<1>4. c \in Settings!Configs
  BY <1>1, <1>2, <1>3 DEF Settings!Configs
<1>5. Settings!Effective(env, c) \in Settings!Configs
  BY <1>4, EffectiveShape
<1> QED BY <1>5 DEF Settings!ToConfig

LEMMA PersistedShape ==
  ASSUME env \in Settings!Overrides, NEW v \in Settings!Values, NEW apply \in {TRUE, FALSE}, NEW old \in Settings!Configs,
         NEW saved \in Settings!Configs
  PROVE  Settings!Persisted(v, apply, old, saved) \in Settings!Configs
<1> DEFINE u == IF apply THEN Settings!Overridden("creds") ELSE v.creds # old.creds
           a == IF apply THEN v.creds ELSE old.creds
<1>1. a \in {1, 2} /\ saved.creds \in {1, 2} /\ v.creds \in {1, 2}
  BY ValueShape DEF Settings!Configs
<1>2. v.path \in {1, 2, Settings!Found} /\ saved.path \in {1, 2, Settings!Found}
  BY ValueShape DEF Settings!Configs
<1>3. v.sync \in {TRUE, FALSE} /\ saved.sync \in {TRUE, FALSE}
  BY ValueShape DEF Settings!Configs
<1>4. (IF Settings!Overridden("creds") THEN saved.creds ELSE a) \in {1, 2}
  BY <1>1
<1>5. (IF u THEN v.creds ELSE Settings!NoDraft) \in {Settings!NoDraft, 1, 2}
  BY <1>1
<1>6. (IF Settings!Overridden("path") THEN saved.path ELSE v.path) \in {1, 2, Settings!Found}
  BY <1>2
<1>7. (IF Settings!Overridden("sync") THEN saved.sync ELSE v.sync) \in {TRUE, FALSE}
  BY <1>3
<1>8. Settings!Persisted(v, apply, old, saved) =
        [creds |-> IF Settings!Overridden("creds") THEN saved.creds ELSE a,
         draft |-> IF u THEN v.creds ELSE Settings!NoDraft,
         path |-> IF Settings!Overridden("path") THEN saved.path ELSE v.path,
         sync |-> IF Settings!Overridden("sync") THEN saved.sync ELSE v.sync]
  BY DEF Settings!Persisted
<1> DEFINE cc == IF Settings!Overridden("creds") THEN saved.creds ELSE a
           dd == IF u THEN v.creds ELSE Settings!NoDraft
           pp == IF Settings!Overridden("path") THEN saved.path ELSE v.path
           ss == IF Settings!Overridden("sync") THEN saved.sync ELSE v.sync
<1>9. Settings!Persisted(v, apply, old, saved) = [creds |-> cc, draft |-> dd, path |-> pp, sync |-> ss]
  BY <1>8
<1>10. cc \in {1, 2} /\ dd \in {Settings!NoDraft, 1, 2} /\ pp \in {1, 2, Settings!Found} /\ ss \in {TRUE, FALSE}
  BY <1>4, <1>5, <1>6, <1>7
<1> HIDE DEF u, a, cc, dd, pp, ss
<1>11. [creds |-> cc, draft |-> dd, path |-> pp, sync |-> ss] \in Settings!Configs
  BY <1>10, ConfigRecord
<1> QED BY <1>9, <1>11

LEMMA WrittenIsFollowed ==
  ASSUME env \in Settings!Overrides, NEW v \in Settings!Values, NEW apply \in {TRUE, FALSE}, NEW old \in Settings!Configs,
         NEW saved \in Settings!Configs
  PROVE  Settings!AgreesWith(Settings!Persisted(v, apply, old, saved), env, Settings!ToConfig(v, apply, old), Settings!NoFolder)
<1> DEFINE w == Settings!Persisted(v, apply, old, saved)
           n == Settings!ToConfig(v, apply, old)
           a == IF apply THEN v.creds ELSE old.creds
<1>1. w \in Settings!Configs /\ w # Settings!Absent
  BY PersistedShape, Sentinels
<1>2. Settings!Saved(w) = w
  BY <1>1 DEF Settings!Saved
<1>3. /\ n.creds = (IF Settings!Overridden("creds") THEN env.creds ELSE a)
      /\ n.path = (IF Settings!Overridden("path") THEN env.path ELSE v.path)
      /\ n.sync = (IF Settings!Overridden("sync") THEN env.sync ELSE v.sync)
      /\ n.draft = (IF ~apply /\ v.creds # old.creds THEN v.creds ELSE Settings!NoDraft)
  BY DEF Settings!ToConfig, Settings!Effective, Settings!Overridden
<1>4. /\ w.creds = (IF Settings!Overridden("creds") THEN saved.creds ELSE a)
      /\ w.path = (IF Settings!Overridden("path") THEN saved.path ELSE v.path)
      /\ w.sync = (IF Settings!Overridden("sync") THEN saved.sync ELSE v.sync)
      /\ w.draft = (IF IF apply THEN Settings!Overridden("creds") ELSE v.creds # old.creds
                    THEN v.creds ELSE Settings!NoDraft)
  BY DEF Settings!Persisted
<1> HIDE DEF w, n
<1>5. /\ Settings!Effective(env, w).creds = n.creds /\ Settings!Effective(env, w).path = n.path
      /\ Settings!Effective(env, w).sync = n.sync
  BY <1>3, <1>4 DEF Settings!Effective, Settings!Overridden
<1>6. "creds" \in DOMAIN env \/ Settings!Effective(env, w).draft = n.draft
  BY <1>3, <1>4 DEF Settings!Effective, Settings!Overridden
<1>7. Settings!AgreesWith(w, env, n, Settings!NoFolder)
  BY <1>2, <1>5, <1>6 DEF Settings!AgreesWith
<1> QED BY <1>7 DEF w, n

\* A file loads what it loads, wherever the folder was.
LEMMA LoadAgrees == \A c, e, m : Settings!AgreesWith(c, e, Settings!Effective(e, Settings!Saved(c)), m)
BY DEF Settings!AgreesWith

\* Agreement is about the file, the environment, the configuration and the folder.
LEMMA FollowedIsAgreed ==
  ASSUME NEW c, NEW e, NEW n \in Settings!Configs, NEW m, Settings!AgreesWith(c, e, n, Settings!NoFolder)
  PROVE  Settings!AgreesWith(c, e, n, m)
<1>1. n.path \in {1, 2, Settings!Found} /\ n.path # Settings!NoFolder
  BY DEF Settings!Configs, Settings!Found, Settings!NoFolder
<1> QED BY <1>1 DEF Settings!AgreesWith

LEMMA AgreedCredentials ==
  ASSUME NEW c, NEW e, NEW n, NEW m, Settings!AgreesWith(c, e, n, m)
  PROVE  Settings!Effective(e, Settings!Saved(c)).creds = n.creds
BY DEF Settings!AgreesWith

LEMMA NoWorkShape ==
  /\ Settings!NoWork \in [stage : Settings!Stages, item : Settings!Items \cup {Settings!NoItem}, old : Settings!Configs,
                 snap : Settings!Contents \cup {Settings!NoSnapshot}, saved : Settings!Configs]
  /\ Settings!NoWork.stage = "none" /\ Settings!NoWork.item = Settings!NoItem /\ Settings!NoWork.snap = Settings!NoSnapshot
<1>1. Settings!First \in Settings!Configs
  BY FirstShape DEF Settings!First
<1> QED BY <1>1 DEF Settings!NoWork, Settings!Stages

LEMMA StartsShape ==
  ASSUME NEW i \in Settings!Items, NEW c \in Settings!Configs
  PROVE  /\ Settings!Starts(i, c) \in [stage : Settings!Stages, item : Settings!Items \cup {Settings!NoItem}, old : Settings!Configs,
                              snap : Settings!Contents \cup {Settings!NoSnapshot}, saved : Settings!Configs]
         /\ Settings!Starts(i, c).stage = "capture" /\ Settings!Starts(i, c).item = i
         /\ Settings!Starts(i, c).old = c /\ Settings!Starts(i, c).snap = Settings!NoSnapshot
<1>1. Settings!First \in Settings!Configs
  BY FirstShape DEF Settings!First
<1> QED BY <1>1 DEF Settings!Starts, Settings!NoWork, Settings!Stages

\* What the GUI thread leaves when it has dealt with an outcome: the pipeline at rest or
\* the change that waits with a worker of its own.
LEMMA PumpedTyped ==
  ASSUME NEW waits \in Settings!Items \cup {Settings!NoItem}, NEW rollback \in Settings!Contents \cup {Settings!NoSnapshot},
         NEW b \in {TRUE, FALSE}, cfg' \in Settings!Configs, posted' = {}, submits' \in Nat,
         applier' = [pending |-> Settings!NoItem, busy |-> b, rollback |-> rollback],
         \/ worker' = Settings!NoWork /\ ~b
         \/ worker' = Settings!Starts(waits, cfg') /\ b /\ waits \in Settings!Items
  PROVE  /\ (applier \in [pending : Settings!Items \cup {Settings!NoItem}, busy : {TRUE, FALSE},
                          rollback : Settings!Contents \cup {Settings!NoSnapshot}])'
         /\ (worker \in [stage : Settings!Stages, item : Settings!Items \cup {Settings!NoItem}, old : Settings!Configs,
                         snap : Settings!Contents \cup {Settings!NoSnapshot}, saved : Settings!Configs])'
         /\ worker'.stage = (IF b THEN "capture" ELSE "none") /\ worker'.snap = Settings!NoSnapshot
         /\ worker'.item \in {waits, Settings!NoItem} /\ applier'.busy = b /\ applier'.rollback = rollback
         /\ Settings!PipelineInvariant'
<1>1. (applier \in [pending : Settings!Items \cup {Settings!NoItem}, busy : {TRUE, FALSE},
                    rollback : Settings!Contents \cup {Settings!NoSnapshot}])'
  OBVIOUS
<1>2. CASE worker' = Settings!NoWork /\ ~b
  <2>1. Settings!PipelineInvariant'
    BY <1>2, NoWorkShape DEF Settings!PipelineInvariant
  <2> QED BY <1>1, <1>2, <2>1, NoWorkShape
<1>3. CASE worker' = Settings!Starts(waits, cfg') /\ b /\ waits \in Settings!Items
  <2>1. /\ (worker \in [stage : Settings!Stages, item : Settings!Items \cup {Settings!NoItem}, old : Settings!Configs,
                         snap : Settings!Contents \cup {Settings!NoSnapshot}, saved : Settings!Configs])'
        /\ worker'.stage = "capture" /\ worker'.item = waits /\ worker'.old = cfg'
        /\ worker'.snap = Settings!NoSnapshot
    BY <1>3, StartsShape
  <2>2. Settings!PipelineInvariant'
    BY <1>3, <2>1 DEF Settings!PipelineInvariant
  <2> QED BY <1>1, <1>3, <2>1, <2>2
<1> QED BY <1>2, <1>3

LEMMA PumpedFile ==
  ASSUME NEW rollback, NEW b \in {TRUE, FALSE},
         worker'.stage = (IF b THEN "capture" ELSE "none"), posted' = {},
         applier'.busy = b, applier'.rollback = rollback,
         Settings!AgreesWith(IF rollback = Settings!NoSnapshot THEN file' ELSE rollback, env', cfg', verify'.path),
         b \/ unrestored' \/ Settings!AgreesWith(file', env', cfg', verify'.path)
  PROVE  Settings!FileInvariant'
<1>1. Settings!Agrees(Settings!Baseline(file))'
  BY DEF Settings!Agrees, Settings!Baseline
<1>2. b \/ (unrestored \/ Settings!Agrees(file))'
  BY DEF Settings!Agrees
<1> QED BY <1>1, <1>2 DEF Settings!FileInvariant

LEMMA PumpedTested ==
  ASSUME NEW waits, NEW rollback, worker'.snap = Settings!NoSnapshot, worker'.item \in {waits, Settings!NoItem},
         applier'.pending = Settings!NoItem, applier'.rollback = rollback, posted' = {},
         Settings!TestedItem(waits)', Settings!TestedContents(rollback)', Settings!UntestedNeverActive',
         (Settings!Overridden("creds") => env.creds \in tested)'
  PROVE  Settings!TestedInvariant'
<1>1. Settings!TestedItem(Settings!NoItem)' /\ Settings!TestedContents(Settings!NoSnapshot)'
  BY DEF Settings!TestedItem, Settings!TestedContents
<1>2. Settings!TestedItem(worker.item)' /\ Settings!TestedContents(worker.snap)'
  BY <1>1 DEF Settings!TestedItem, Settings!TestedContents
<1>3. Settings!TestedContents(applier.rollback)' /\ Settings!TestedItem(applier.pending)'
  BY <1>1 DEF Settings!TestedItem, Settings!TestedContents
<1> QED BY <1>2, <1>3 DEF Settings!TestedInvariant

\* The effect of _pump.
LEMMA PumpEffect ==
  ASSUME unrestored \in {TRUE, FALSE}, NEW waits \in Settings!Items \cup {Settings!NoItem}, NEW rollback, NEW current,
         Settings!Pump(waits, rollback, current)
  PROVE  \E b \in {TRUE, FALSE} :
            /\ applier' = [pending |-> Settings!NoItem, busy |-> b, rollback |-> rollback]
            /\ \/ worker' = Settings!NoWork /\ ~b
               \/ worker' = Settings!Starts(waits, current) /\ b /\ waits \in Settings!Items
            /\ unrestored' \in {TRUE, FALSE} /\ (unrestored => unrestored')
            /\ waits # Settings!NoItem /\ ~b /\ rollback # Settings!NoSnapshot => unrestored'
<1>1. CASE /\ waits = Settings!NoItem
           /\ applier' = [pending |-> Settings!NoItem, busy |-> FALSE, rollback |-> rollback]
           /\ worker' = Settings!NoWork /\ UNCHANGED unrestored
  BY <1>1
<1>2. CASE /\ waits # Settings!NoItem
           /\ applier' = [pending |-> Settings!NoItem, busy |-> TRUE, rollback |-> rollback]
           /\ worker' = Settings!Starts(waits, current) /\ UNCHANGED unrestored
  BY <1>2
<1>3. CASE /\ waits # Settings!NoItem
           /\ applier' = [pending |-> Settings!NoItem, busy |-> FALSE, rollback |-> rollback]
           /\ worker' = Settings!NoWork /\ unrestored' = (unrestored \/ rollback # Settings!NoSnapshot)
  BY <1>3
<1> QED BY <1>1, <1>2, <1>3 DEF Settings!Pump

LEMMA SettingsInit == Settings!Init => Settings!SettingsInvariant
<1> SUFFICES ASSUME Settings!Init PROVE Settings!SettingsInvariant
  OBVIOUS
<1>1. PICK contents \in {Settings!Absent, Settings!Legacy(TRUE), Settings!Legacy(FALSE)} : file = contents /\ cfg = Settings!Load(contents)
  BY DEF Settings!Init
<1>2. env \in Settings!Overrides /\ file \in Settings!Contents /\ cfg = Settings!Effective(env, Settings!Saved(file))
  BY <1>1, FirstShape DEF Settings!Init, Settings!Contents, Settings!Load
<1>3. cfg \in Settings!Configs
  BY <1>2, SavedShape, EffectiveShape
<1>4. /\ writes = 0 /\ submits = 0 /\ worker = Settings!NoWork /\ posted = {} /\ unrestored = FALSE
      /\ applier = [pending |-> Settings!NoItem, busy |-> FALSE, rollback |-> Settings!NoSnapshot]
  BY DEF Settings!Init
<1>5. verify = [stage |-> "probing", absent |-> file = Settings!Absent, writes |-> 0, path |-> cfg.path]
  BY DEF Settings!Init
<1>6. Settings!SettingsTyped
  <2>1. cfg.path \in {1, 2, Settings!Found}
    BY <1>3 DEF Settings!Configs
  <2>2. (file = Settings!Absent) \in {TRUE, FALSE}
    OBVIOUS
  <2>3. /\ verify \in [stage : {"probing", "repaired", "quiet", "warned", "announced"},
                       absent : {TRUE, FALSE}, writes : Nat, path : {1, 2, Settings!Found}]
        /\ verify.writes = 0
    BY <1>5, <2>1, <2>2
  <2> QED BY <1>2, <1>3, <1>4, <2>3, NoWorkShape DEF Settings!SettingsTyped
<1>7. Settings!PipelineInvariant
  BY <1>4, NoWorkShape DEF Settings!PipelineInvariant
<1>8. Settings!FileInvariant
  <2>1. Settings!Agrees(file)
    BY <1>2, LoadAgrees DEF Settings!Agrees
  <2> QED BY <2>1, <1>4, NoWorkShape DEF Settings!FileInvariant, Settings!Baseline
<1>9. Settings!TestedInvariant
  <2>1. tested = {cfg.creds, Settings!Saved(file).creds}
    BY DEF Settings!Init
  <2>2. Settings!Load(file) = cfg
    BY <1>2 DEF Settings!Load
  <2>3. Settings!Overridden("creds") => env.creds = cfg.creds
    BY <1>2 DEF Settings!Overridden, Settings!Effective
  <2>4. Settings!UntestedNeverActive
    BY <2>1, <2>2 DEF Settings!UntestedNeverActive
  <2> QED BY <1>4, <2>1, <2>3, <2>4, NoWorkShape DEF Settings!TestedInvariant,
         Settings!TestedContents, Settings!TestedItem
<1>10. Settings!TimerInvariant
  <2>1. cfg.sync \in {TRUE, FALSE}
    BY <1>3 DEF Settings!Configs
  <2>2. timer = IF cfg.sync THEN [own |-> 1, running |-> {1}, created |-> 1]
                ELSE [own |-> 0, running |-> {}, created |-> 0]
    BY DEF Settings!Init
  <2> QED BY <2>1, <2>2 DEF Settings!TimerInvariant, Settings!NoExitTimerWithoutSync
<1> QED BY <1>6, <1>7, <1>8, <1>9, <1>10 DEF Settings!SettingsInvariant

\* The parts of the invariant that are about other variables stay.
LEMMA TimerStays ==
  ASSUME Settings!TimerInvariant, timer' = timer, cfg'.sync = cfg.sync
  PROVE  Settings!TimerInvariant'
BY DEF Settings!TimerInvariant, Settings!NoExitTimerWithoutSync

LEMMA ActiveStays ==
  ASSUME Settings!UntestedNeverActive, UNCHANGED <<env, file, cfg>>, tested \subseteq tested'
  PROVE  Settings!UntestedNeverActive'
<1>1. cfg.creds \in tested' /\ Settings!Load(file).creds \in tested'
  BY DEF Settings!UntestedNeverActive
<1>2. Settings!Load(file)' = Settings!Load(file)
  BY DEF Settings!Load, Settings!Saved
<1> QED BY <1>1, <1>2 DEF Settings!UntestedNeverActive

LEMMA ContentsStay ==
  ASSUME UNCHANGED env, tested \subseteq tested', NEW c, Settings!TestedContents(c)
  PROVE  c # Settings!NoSnapshot => Settings!Effective(env', Settings!Saved(c)).creds \in tested'
BY DEF Settings!TestedContents, Settings!Load

LEMMA SubmitKeeps ==
  ASSUME Settings!SettingsInvariant, NEW v \in Settings!Values, NEW apply \in {TRUE, FALSE}, Settings!Submit(v, apply)
  PROVE  Settings!SettingsInvariant'
<1>0. PICK n : n = submits + 1
  OBVIOUS
<1>i. PICK item : item = [no |-> n, values |-> v, apply |-> apply]
  OBVIOUS
<1>1. /\ submits' = n /\ UNCHANGED <<env, file, writes, cfg, posted, timer, verify>>
      /\ tested' = (IF apply THEN tested \cup {v.creds} ELSE tested)
      /\ IF applier.busy
         THEN /\ applier' = [applier EXCEPT !.pending = item]
              /\ UNCHANGED <<worker, faults, unrestored>>
         ELSE Settings!Pump(item, applier.rollback, cfg)
  BY <1>0, <1>i DEF Settings!Submit
<1>2. submits \in Nat /\ n \in Nat
  BY <1>0 DEF Settings!SettingsInvariant, Settings!PipelineInvariant
<1>3. item \in Settings!Items /\ item.apply = apply /\ item.values = v
  BY <1>2, <1>i DEF Settings!Items
<1>4. Settings!SettingsTyped /\ Settings!PipelineInvariant /\ Settings!FileInvariant /\ Settings!TestedInvariant /\ Settings!TimerInvariant
  BY DEF Settings!SettingsInvariant
<1>5. item \in Settings!Items \cup {Settings!NoItem} /\ submits' \in Nat
  BY <1>1, <1>2, <1>3
<1>6. tested \subseteq tested' /\ (apply => v.creds \in tested')
  BY <1>1
<1>7. Settings!TimerInvariant'
  BY <1>1, <1>4, TimerStays
<1>8. Settings!UntestedNeverActive' /\ (Settings!Overridden("creds") => env.creds \in tested)'
  BY <1>1, <1>4, <1>6, ActiveStays DEF Settings!TestedInvariant, Settings!Overridden
<1>9. Settings!TestedItem(item)'
  BY <1>3, <1>6 DEF Settings!TestedItem
<1>10. CASE applier.busy
  <2>1. /\ applier' = [applier EXCEPT !.pending = item]
        /\ UNCHANGED <<worker, posted, env, file, writes, cfg, verify, unrestored>>
    BY <1>1, <1>10
  <2>2. applier \in [pending : Settings!Items \cup {Settings!NoItem}, busy : {TRUE, FALSE}, rollback : Settings!Contents \cup {Settings!NoSnapshot}]
    BY <1>4 DEF Settings!SettingsTyped
  <2>3. /\ applier' \in [pending : Settings!Items \cup {Settings!NoItem}, busy : {TRUE, FALSE}, rollback : Settings!Contents \cup {Settings!NoSnapshot}]
        /\ applier'.busy = TRUE /\ applier'.rollback = applier.rollback /\ applier'.pending = item
    BY <2>1, <2>2, <1>5, <1>10
  <2>4. Settings!SettingsTyped'
    BY <1>4, <2>1, <2>3 DEF Settings!SettingsTyped
  <2>5. Settings!PipelineInvariant'
    BY <1>4, <1>5, <1>10, <2>1, <2>3 DEF Settings!PipelineInvariant
  <2>6. Settings!FileInvariant'
    BY <1>4, <2>1, <2>3, <1>10 DEF Settings!FileInvariant, Settings!Baseline,
       Settings!Agrees, Settings!Follows, Settings!NewConfig, Settings!ToConfig
  <2>7. Settings!TestedInvariant'
    <3>1. \A c : Settings!TestedContents(c) => Settings!TestedContents(c)'
      BY <2>1, <1>6 DEF Settings!TestedContents, Settings!Load
    <3>2. \A i : Settings!TestedItem(i) => Settings!TestedItem(i)'
      BY <1>6 DEF Settings!TestedItem
    <3>3. Settings!TestedContents(applier.rollback)' /\ Settings!TestedContents(worker.snap)' /\ Settings!TestedItem(worker.item)'
      BY <2>1, <2>3, <3>1, <3>2, <1>4 DEF Settings!TestedInvariant
    <3>4. Settings!TestedItem(applier.pending)'
      BY <1>9, <2>3 DEF Settings!TestedItem
    <3>5. (\A o \in posted : Settings!TestedContents(o.snap) /\ Settings!TestedItem(o.item))'
      BY <2>1, <3>1, <3>2, <1>4 DEF Settings!TestedInvariant
    <3> QED BY <1>8, <3>3, <3>4, <3>5 DEF Settings!TestedInvariant
  <2> QED BY <1>7, <2>4, <2>5, <2>6, <2>7 DEF Settings!SettingsInvariant
<1>11. CASE ~applier.busy
  <2>1. Settings!Pump(item, applier.rollback, cfg)
    BY <1>1, <1>11
  <2>2. /\ unrestored \in {TRUE, FALSE} /\ cfg \in Settings!Configs
        /\ applier.rollback \in Settings!Contents \cup {Settings!NoSnapshot}
    BY <1>4 DEF Settings!SettingsTyped
  <2>3. PICK b \in {TRUE, FALSE} :
           /\ applier' = [pending |-> Settings!NoItem, busy |-> b, rollback |-> applier.rollback]
           /\ \/ worker' = Settings!NoWork /\ ~b
              \/ worker' = Settings!Starts(item, cfg) /\ b /\ item \in Settings!Items
           /\ unrestored' \in {TRUE, FALSE} /\ (unrestored => unrestored')
    BY <2>1, <2>2, <1>5, PumpEffect
  <2>4. posted = {} /\ posted' = {} /\ cfg' = cfg
    BY <1>1, <1>4, <1>11 DEF Settings!PipelineInvariant
  <2>5. /\ (applier \in [pending : Settings!Items \cup {Settings!NoItem}, busy : {TRUE, FALSE},
                         rollback : Settings!Contents \cup {Settings!NoSnapshot}])'
        /\ (worker \in [stage : Settings!Stages, item : Settings!Items \cup {Settings!NoItem}, old : Settings!Configs,
                        snap : Settings!Contents \cup {Settings!NoSnapshot}, saved : Settings!Configs])'
        /\ worker'.stage = (IF b THEN "capture" ELSE "none") /\ worker'.snap = Settings!NoSnapshot
        /\ worker'.item \in {item, Settings!NoItem} /\ applier'.busy = b
        /\ applier'.rollback = applier.rollback
        /\ Settings!PipelineInvariant'
    BY <2>2, <2>3, <2>4, <1>5, PumpedTyped
  <2>6. Settings!SettingsTyped'
    BY <1>1, <1>4, <2>3, <2>4, <2>5 DEF Settings!SettingsTyped
  <2>7. Settings!FileInvariant'
    <3>1. (unrestored \/ Settings!Agrees(file)) /\ Settings!Agrees(Settings!Baseline(file))
      BY <1>4, <1>11 DEF Settings!FileInvariant
    <3>2. /\ Settings!AgreesWith(IF applier.rollback = Settings!NoSnapshot THEN file' ELSE applier.rollback, env', cfg', verify'.path)
          /\ unrestored' \/ Settings!AgreesWith(file', env', cfg', verify'.path)
      BY <1>1, <2>3, <3>1 DEF Settings!Agrees, Settings!Baseline
    <3> QED BY <2>4, <2>5, <3>2, PumpedFile
  <2>8. Settings!TestedInvariant'
    <3>1. Settings!TestedContents(applier.rollback)
      BY <1>4 DEF Settings!TestedInvariant
    <3>2. applier.rollback # Settings!NoSnapshot => Settings!Effective(env', Settings!Saved(applier.rollback)).creds \in tested'
      BY <3>1, <1>1, <1>6 DEF Settings!TestedContents, Settings!Load
    <3>3. applier'.pending = Settings!NoItem
      BY <2>3
    <3>4. PICK r : r = applier.rollback
      OBVIOUS
    <3>5. Settings!TestedContents(r)'
      BY <3>2, <3>4 DEF Settings!TestedContents, Settings!Load
    <3> QED BY <1>8, <1>9, <2>4, <2>5, <3>3, <3>4, <3>5, PumpedTested
  <2> QED BY <1>7, <2>5, <2>6, <2>7, <2>8 DEF Settings!SettingsInvariant
<1> QED BY <1>10, <1>11

\* A step of the worker alone: it moves on, with what it captured or read.
LEMMA WorkerMoves ==
  ASSUME Settings!SettingsInvariant, worker.stage # "none",
         UNCHANGED <<env, file, writes, cfg, applier, submits, posted, timer, verify, tested,
                     unrestored>>,
         worker' \in [stage : {"prepare", "write", "restore"}, item : {worker.item}, old : {worker.old},
                      snap : Settings!Contents, saved : Settings!Configs],
         Settings!Agrees(worker'.snap), Settings!TestedContents(worker'.snap)
  PROVE  Settings!SettingsInvariant'
<1>1. Settings!SettingsTyped /\ Settings!PipelineInvariant /\ Settings!FileInvariant /\ Settings!TestedInvariant /\ Settings!TimerInvariant
  BY DEF Settings!SettingsInvariant
<1>2. /\ worker'.stage \in {"prepare", "write", "restore"} /\ worker'.item = worker.item
      /\ worker'.old = worker.old /\ worker'.snap \in Settings!Contents /\ worker'.saved \in Settings!Configs
  OBVIOUS
<1>3. Settings!SettingsTyped'
  <2>1. worker.item \in Settings!Items \cup {Settings!NoItem} /\ worker.old \in Settings!Configs
    BY <1>1 DEF Settings!SettingsTyped
  <2>2. (worker \in [stage : Settings!Stages, item : Settings!Items \cup {Settings!NoItem}, old : Settings!Configs,
                     snap : Settings!Contents \cup {Settings!NoSnapshot}, saved : Settings!Configs])'
    BY <2>1 DEF Settings!Stages
  <2> QED BY <1>1, <2>2 DEF Settings!SettingsTyped
<1>4. Settings!PipelineInvariant'
  BY <1>1, <1>2 DEF Settings!PipelineInvariant
<1>5. Settings!FileInvariant'
  <2>1. applier.busy /\ posted = {}
    BY <1>1 DEF Settings!PipelineInvariant
  <2>2. worker'.snap # Settings!NoSnapshot
    BY <1>2, Sentinels
  <2>3. Settings!Agrees(worker.snap)'
    BY DEF Settings!Agrees
  <2> QED BY <1>2, <2>1, <2>2, <2>3 DEF Settings!FileInvariant
<1>6. Settings!TestedInvariant'
  <2>1. Settings!UntestedNeverActive'
    BY <1>1, ActiveStays DEF Settings!TestedInvariant
  <2>2. Settings!TestedContents(applier.rollback)' /\ Settings!TestedItem(applier.pending)'
    BY <1>1 DEF Settings!TestedInvariant, Settings!TestedContents, Settings!TestedItem,
       Settings!Load
  <2>3. Settings!TestedContents(worker.snap)'
    BY DEF Settings!TestedContents, Settings!Load
  <2>4. Settings!TestedItem(worker.item)'
    BY <1>1, <1>2 DEF Settings!TestedInvariant, Settings!TestedItem
  <2>5. posted' = {} /\ (Settings!Overridden("creds") => env.creds \in tested)'
    BY <1>1 DEF Settings!TestedInvariant, Settings!PipelineInvariant, Settings!Overridden
  <2> QED BY <2>1, <2>2, <2>3, <2>4, <2>5 DEF Settings!TestedInvariant
<1>7. Settings!TimerInvariant'
  BY <1>1, TimerStays
<1> QED BY <1>3, <1>4, <1>5, <1>6, <1>7 DEF Settings!SettingsInvariant

\* The worker ends, and its outcome waits for the GUI thread.
LEMMA PostKeeps ==
  ASSUME Settings!SettingsInvariant, worker.stage # "none",
         UNCHANGED <<env, cfg, applier, submits, timer, verify, tested>>,
         file' \in Settings!Contents, writes' \in Nat, unrestored' \in {TRUE, FALSE},
         NEW ok \in {TRUE, FALSE}, NEW snap \in Settings!Contents \cup {Settings!NoSnapshot}, Settings!Post(Settings!Outcome(ok, snap)),
         Settings!UntestedNeverActive', Settings!TestedContents(snap),
         snap # Settings!NoSnapshot => Settings!Agrees(snap),
         ok => snap # Settings!NoSnapshot /\ writes' > 0
               /\ Settings!AgreesWith(file', env, Settings!ToConfig(worker.item.values, worker.item.apply, cfg), Settings!NoFolder),
         ~ok => unrestored' \/ Settings!AgreesWith(file', env, cfg, verify.path),
         snap = Settings!NoSnapshot => applier.rollback = Settings!NoSnapshot /\ Settings!AgreesWith(file', env, cfg, verify.path)
  PROVE  Settings!SettingsInvariant'
<1>1. Settings!SettingsTyped /\ Settings!PipelineInvariant /\ Settings!FileInvariant /\ Settings!TestedInvariant /\ Settings!TimerInvariant
  BY DEF Settings!SettingsInvariant
<1>2. PICK o : o = Settings!Outcome(ok, snap)
  OBVIOUS
<1>3. worker.item \in Settings!Items /\ worker.old = cfg /\ cfg \in Settings!Configs /\ applier.busy
  BY <1>1 DEF Settings!PipelineInvariant, Settings!SettingsTyped
<1>4. /\ o \in [item : Settings!Items, old : Settings!Configs, ok : {TRUE, FALSE}, snap : Settings!Contents \cup {Settings!NoSnapshot}]
      /\ o.item = worker.item /\ o.old = cfg /\ o.ok = ok /\ o.snap = snap
  BY <1>2, <1>3 DEF Settings!Outcome
<1>5. posted' = {o} /\ worker' = Settings!NoWork
  BY <1>2 DEF Settings!Post
<1>6. Settings!SettingsTyped'
  <2>1. (posted \subseteq [item : Settings!Items, old : Settings!Configs, ok : {TRUE, FALSE},
                           snap : Settings!Contents \cup {Settings!NoSnapshot}])'
    BY <1>4, <1>5
  <2> QED BY <1>1, <1>5, <2>1, NoWorkShape DEF Settings!SettingsTyped
<1>7. Settings!PipelineInvariant'
  BY <1>1, <1>3, <1>4, <1>5, NoWorkShape DEF Settings!PipelineInvariant
<1>8. Settings!FileInvariant'
  <2>1. applier'.busy /\ worker'.stage = "none"
    BY <1>3, <1>5, NoWorkShape
  <2>2. snap # Settings!NoSnapshot => Settings!Agrees(snap)'
    BY DEF Settings!Agrees
  <2>3. ok => snap # Settings!NoSnapshot /\ writes' > 0 /\ Settings!Follows(file, o)'
    BY <1>4 DEF Settings!Follows, Settings!NewConfig, Settings!ToConfig
  <2>4. ~ok => (unrestored \/ Settings!Agrees(file))'
    BY DEF Settings!Agrees
  <2>5. snap = Settings!NoSnapshot => applier'.rollback = Settings!NoSnapshot /\ Settings!Agrees(file)'
    BY DEF Settings!Agrees
  <2>6. ASSUME NEW p \in posted'
        PROVE  /\ p.snap # Settings!NoSnapshot => Settings!Agrees(p.snap)'
               /\ p.ok => p.snap # Settings!NoSnapshot /\ writes' > 0 /\ Settings!Follows(file, p)'
               /\ ~p.ok => (unrestored \/ Settings!Agrees(file))'
               /\ p.snap = Settings!NoSnapshot => applier'.rollback = Settings!NoSnapshot /\ Settings!Agrees(file)'
    <3>1. p = o
      BY <1>5
    <3> QED BY <3>1, <1>4, <2>2, <2>3, <2>4, <2>5 DEF Settings!Agrees
  <2> QED BY <2>1, <2>6 DEF Settings!FileInvariant
<1>9. Settings!TestedInvariant'
  <2>1. Settings!TestedContents(applier.rollback)' /\ Settings!TestedItem(applier.pending)'
    BY <1>1 DEF Settings!TestedInvariant, Settings!TestedContents, Settings!TestedItem,
       Settings!Load
  <2>2. Settings!TestedContents(worker.snap)' /\ Settings!TestedItem(worker.item)'
    BY <1>5, NoWorkShape DEF Settings!TestedContents, Settings!TestedItem
  <2>3. Settings!TestedItem(o.item)'
    BY <1>1, <1>4 DEF Settings!TestedInvariant, Settings!TestedItem
  <2>4. Settings!TestedContents(o.snap)'
    BY <1>4 DEF Settings!TestedContents, Settings!Load
  <2>5. (Settings!Overridden("creds") => env.creds \in tested)'
    BY <1>1 DEF Settings!TestedInvariant, Settings!Overridden
  <2>6. ASSUME NEW p \in posted' PROVE Settings!TestedContents(p.snap)' /\ Settings!TestedItem(p.item)'
    <3>1. p = o
      BY <1>5
    <3> QED BY <3>1, <2>3, <2>4 DEF Settings!TestedContents, Settings!TestedItem
  <2> QED BY <2>1, <2>2, <2>5, <2>6 DEF Settings!TestedInvariant
<1>10. Settings!TimerInvariant'
  BY <1>1, TimerStays
<1> QED BY <1>6, <1>7, <1>8, <1>9, <1>10 DEF Settings!SettingsInvariant

\* What the worker knows while it is at work.
LEMMA AtWork ==
  ASSUME Settings!SettingsInvariant, worker.stage # "none"
  PROVE  /\ env \in Settings!Overrides /\ file \in Settings!Contents /\ writes \in Nat /\ unrestored \in {TRUE, FALSE}
         /\ cfg \in Settings!Configs /\ worker.old = cfg /\ worker.item \in Settings!Items
         /\ worker.saved \in Settings!Configs /\ worker.snap \in Settings!Contents \cup {Settings!NoSnapshot}
         /\ worker \in [stage : Settings!Stages, item : Settings!Items \cup {Settings!NoItem}, old : Settings!Configs,
                        snap : Settings!Contents \cup {Settings!NoSnapshot}, saved : Settings!Configs]
         /\ Settings!UntestedNeverActive /\ Settings!TestedContents(worker.snap) /\ Settings!TestedItem(worker.item)
         /\ Settings!Overridden("creds") => env.creds \in tested
         /\ worker.stage \in {"prepare", "write", "restore"} =>
               worker.snap \in Settings!Contents /\ Settings!Agrees(worker.snap)
<1>1. Settings!SettingsTyped /\ Settings!PipelineInvariant /\ Settings!FileInvariant /\ Settings!TestedInvariant
  BY DEF Settings!SettingsInvariant
<1>2. /\ env \in Settings!Overrides /\ file \in Settings!Contents /\ writes \in Nat /\ unrestored \in {TRUE, FALSE}
      /\ cfg \in Settings!Configs
      /\ worker \in [stage : Settings!Stages, item : Settings!Items \cup {Settings!NoItem}, old : Settings!Configs,
                     snap : Settings!Contents \cup {Settings!NoSnapshot}, saved : Settings!Configs]
  BY <1>1 DEF Settings!SettingsTyped
<1>3. worker.saved \in Settings!Configs /\ worker.snap \in Settings!Contents \cup {Settings!NoSnapshot}
  BY <1>2
<1>4. worker.old = cfg /\ worker.item \in Settings!Items
  BY <1>1 DEF Settings!PipelineInvariant
<1>5. worker.stage \in {"prepare", "write", "restore"} => worker.snap # Settings!NoSnapshot /\ Settings!Agrees(worker.snap)
  BY <1>1 DEF Settings!FileInvariant
<1> QED BY <1>1, <1>2, <1>3, <1>4, <1>5 DEF Settings!TestedInvariant

LEMMA CaptureKeeps ==
  ASSUME Settings!SettingsInvariant, Settings!Capture
  PROVE  Settings!SettingsInvariant'
<1>1. /\ worker.stage = "capture"
      /\ UNCHANGED <<env, file, writes, cfg, applier, submits, timer, verify, tested, unrestored>>
  BY DEF Settings!Capture
<1>2. Settings!Agrees(Settings!Baseline(file)) /\ Settings!TestedContents(applier.rollback)
      /\ applier.rollback \in Settings!Contents \cup {Settings!NoSnapshot}
  BY <1>1 DEF Settings!SettingsInvariant, Settings!FileInvariant, Settings!TestedInvariant,
     Settings!SettingsTyped
<1>3. Settings!TestedContents(file)
  BY <1>1, AtWork DEF Settings!UntestedNeverActive, Settings!TestedContents
<1>4. CASE worker' = [worker EXCEPT !.stage = "prepare", !.snap = Settings!Snapshot] /\ UNCHANGED posted
  <2>1. Settings!Snapshot = Settings!Baseline(file)
    BY DEF Settings!Snapshot, Settings!Baseline
  <2>2. Settings!Snapshot \in Settings!Contents /\ Settings!TestedContents(Settings!Snapshot) /\ Settings!Agrees(Settings!Snapshot)
    BY <1>1, <1>2, <1>3, <2>1, AtWork DEF Settings!Baseline
  <2>3. PICK c : c = Settings!Snapshot
    OBVIOUS
  <2>4. worker' = [worker EXCEPT !.stage = "prepare", !.snap = c] /\ c \in Settings!Contents
    BY <1>4, <2>2, <2>3
  <2>5. /\ worker' \in [stage : {"prepare", "write", "restore"}, item : {worker.item},
                        old : {worker.old}, snap : Settings!Contents, saved : Settings!Configs]
        /\ worker'.snap = c
    BY <2>4, <1>1, AtWork
  <2> QED BY <1>1, <1>4, <2>2, <2>3, <2>5, WorkerMoves
<1>5. CASE applier.rollback = Settings!NoSnapshot /\ Settings!Post(Settings!Outcome(FALSE, Settings!NoSnapshot))
  <2>1. Settings!AgreesWith(file, env, cfg, verify.path)
    BY <1>2, <1>5 DEF Settings!Agrees, Settings!Baseline
  <2>2. Settings!UntestedNeverActive' /\ Settings!TestedContents(Settings!NoSnapshot)
    BY <1>1, AtWork, ActiveStays DEF Settings!TestedContents
  <2> QED BY <1>1, <1>5, <2>1, <2>2, AtWork, PostKeeps
<1> QED BY <1>4, <1>5 DEF Settings!Capture

LEMMA PrepareKeeps ==
  ASSUME Settings!SettingsInvariant, Settings!Prepare
  PROVE  Settings!SettingsInvariant'
<1>1. /\ worker.stage = "prepare"
      /\ UNCHANGED <<env, file, writes, cfg, applier, submits, posted, timer, verify, tested, unrestored>>
      /\ \/ worker' = [worker EXCEPT !.stage = "write", !.saved = Settings!Saved(file)]
         \/ worker' = [worker EXCEPT !.stage = "restore"]
  BY DEF Settings!Prepare
<1>2. PICK c \in Settings!Configs : c = Settings!Saved(file)
  BY <1>1, AtWork, SavedShape
<1>3. \/ worker' = [worker EXCEPT !.stage = "write", !.saved = c]
      \/ worker' = [worker EXCEPT !.stage = "restore"]
  BY <1>1, <1>2
<1>4. worker.snap \in Settings!Contents
  BY <1>1, AtWork
<1>5. worker \in [stage : Settings!Stages, item : Settings!Items \cup {Settings!NoItem}, old : Settings!Configs,
                  snap : Settings!Contents \cup {Settings!NoSnapshot}, saved : Settings!Configs]
  BY <1>1, AtWork
<1>6. /\ worker' \in [stage : {"prepare", "write", "restore"}, item : {worker.item},
                      old : {worker.old}, snap : Settings!Contents, saved : Settings!Configs]
      /\ worker'.snap = worker.snap
  BY <1>3, <1>4, <1>5
<1> QED BY <1>1, <1>6, AtWork, WorkerMoves

LEMMA WriteKeeps ==
  ASSUME Settings!SettingsInvariant, Settings!Write
  PROVE  Settings!SettingsInvariant'
<1>1. worker.stage = "write" /\ UNCHANGED <<env, cfg, applier, submits, timer, verify, tested, unrestored>>
  BY DEF Settings!Write
<1>2. CASE worker' = [worker EXCEPT !.stage = "restore"] /\ UNCHANGED <<file, writes, posted>>
  <2>1. worker.snap \in Settings!Contents
    BY <1>1, AtWork
  <2>2. worker \in [stage : Settings!Stages, item : Settings!Items \cup {Settings!NoItem}, old : Settings!Configs,
                    snap : Settings!Contents \cup {Settings!NoSnapshot}, saved : Settings!Configs]
    BY <1>1, AtWork
  <2>3. /\ worker' \in [stage : {"prepare", "write", "restore"}, item : {worker.item},
                        old : {worker.old}, snap : Settings!Contents, saved : Settings!Configs]
        /\ worker'.snap = worker.snap
    BY <1>2, <2>1, <2>2
  <2> QED BY <1>1, <1>2, <2>3, AtWork, WorkerMoves
<1>3. CASE /\ Settings!WriteFile(Settings!Persisted(worker.item.values, worker.item.apply, worker.old, worker.saved))
           /\ Settings!Post(Settings!Outcome(TRUE, worker.snap))
  <2>1. PICK v \in Settings!Values, a \in {TRUE, FALSE} : v = worker.item.values /\ a = worker.item.apply
    BY <1>1, AtWork DEF Settings!Items
  <2>2. PICK w : w = Settings!Persisted(v, a, cfg, worker.saved)
    OBVIOUS
  <2>3. w \in Settings!Configs /\ Settings!AgreesWith(w, env, Settings!ToConfig(v, a, cfg), Settings!NoFolder)
    BY <1>1, <2>2, AtWork, PersistedShape, WrittenIsFollowed
  <2>4. w \in Settings!Contents /\ w # Settings!Absent
    BY <2>3, Sentinels DEF Settings!Contents
  <2>5. file' = w /\ writes' = writes + 1 /\ writes' \in Nat /\ writes' > 0
    BY <1>1, <1>3, <2>1, <2>2, <2>4, AtWork DEF Settings!WriteFile
  <2>6. Settings!Effective(env, Settings!Saved(w)).creds = Settings!ToConfig(v, a, cfg).creds
    BY <2>3, AgreedCredentials
  <2>7. Settings!ToConfig(v, a, cfg).creds =
          (IF Settings!Overridden("creds") THEN env.creds ELSE IF a THEN v.creds ELSE cfg.creds)
    BY DEF Settings!ToConfig, Settings!Effective, Settings!Overridden
  <2>8. Settings!ToConfig(v, a, cfg).creds \in tested
    <3>1. a => v.creds \in tested
      BY <1>1, <2>1, AtWork, Sentinels DEF Settings!TestedItem
    <3>2. cfg.creds \in tested
      BY <1>1, AtWork DEF Settings!UntestedNeverActive
    <3> QED BY <1>1, <2>7, <3>1, <3>2, AtWork
  <2>9. Settings!UntestedNeverActive'
    BY <1>1, <2>5, <2>6, <2>8, AtWork DEF Settings!UntestedNeverActive, Settings!Load
  <2>10. worker.snap # Settings!NoSnapshot /\ worker.snap \in Settings!Contents /\ Settings!Agrees(worker.snap)
    BY <1>1, AtWork, Sentinels
  <2>11. Settings!TestedContents(worker.snap) /\ unrestored \in {TRUE, FALSE} /\ unrestored' = unrestored
    BY <1>1, AtWork
  <2>12. Settings!AgreesWith(file', env, Settings!ToConfig(worker.item.values, worker.item.apply, cfg), Settings!NoFolder)
    BY <2>1, <2>3, <2>5
  <2>13. file' \in Settings!Contents /\ Settings!Post(Settings!Outcome(TRUE, worker.snap)) /\ worker.stage # "none"
    BY <1>1, <1>3, <2>4, <2>5
  <2> QED BY <1>1, <2>5, <2>9, <2>10, <2>11, <2>12, <2>13, PostKeeps
<1> QED BY <1>2, <1>3 DEF Settings!Write

LEMMA RestoreKeeps ==
  ASSUME Settings!SettingsInvariant, Settings!Restore
  PROVE  Settings!SettingsInvariant'
<1>1. /\ worker.stage = "restore" /\ UNCHANGED <<env, cfg, applier, submits, timer, verify, tested>>
      /\ Settings!Post(Settings!Outcome(FALSE, worker.snap))
  BY DEF Settings!Restore
<1>2. /\ worker.snap \in Settings!Contents /\ Settings!Agrees(worker.snap) /\ Settings!TestedContents(worker.snap)
      /\ file \in Settings!Contents /\ writes \in Nat /\ Settings!UntestedNeverActive
  BY <1>1, AtWork
<1>3. worker.snap # Settings!NoSnapshot
  BY <1>2, Sentinels
<1>4. /\ \/ file' = worker.snap
         \/ file' = file /\ (unrestored' \/ file = worker.snap)
      /\ writes' \in Nat /\ unrestored' \in {TRUE, FALSE}
  <2>1. CASE Settings!WriteFile(worker.snap) /\ unrestored' = FALSE
    <3>1. file' = worker.snap /\ writes' \in {writes, writes + 1}
      BY <2>1 DEF Settings!WriteFile
    <3>2. writes' \in Nat
      BY <1>2, <3>1
    <3> QED BY <2>1, <3>1, <3>2
  <2>2. CASE unrestored' = (unrestored \/ file # worker.snap) /\ UNCHANGED <<file, writes>>
    BY <1>2, <2>2
  <2> QED BY <2>1, <2>2 DEF Settings!Restore
<1>5. file' \in Settings!Contents /\ (unrestored' \/ Settings!AgreesWith(file', env, cfg, verify.path))
  BY <1>2, <1>4 DEF Settings!Agrees
<1>6. Settings!UntestedNeverActive'
  <2>1. Settings!Load(worker.snap).creds \in tested /\ Settings!Load(file).creds \in tested /\ cfg.creds \in tested
    BY <1>2, <1>3 DEF Settings!TestedContents, Settings!UntestedNeverActive
  <2>2. Settings!Effective(env, Settings!Saved(file')).creds \in tested
    BY <1>4, <2>1 DEF Settings!Load
  <2> QED BY <1>1, <2>1, <2>2 DEF Settings!UntestedNeverActive, Settings!Load
<1> QED BY <1>1, <1>2, <1>3, <1>4, <1>5, <1>6, PostKeeps

\* A folder that is saved in place of the one that moved.
LEMMA RepairAgrees ==
  ASSUME NEW c \in Settings!Contents, NEW e, NEW n, NEW m, Settings!AgreesWith(c, e, n, m), Settings!Saved(c).path = m,
         "path" \notin DOMAIN e
  PROVE  /\ Settings!AgreesWith([Settings!Saved(c) EXCEPT !.path = Settings!Found], e, n, m)
         /\ [Settings!Saved(c) EXCEPT !.path = Settings!Found] \in Settings!Configs
         /\ Settings!Effective(e, Settings!Saved([Settings!Saved(c) EXCEPT !.path = Settings!Found])).creds = Settings!Effective(e, Settings!Saved(c)).creds
<1>1. PICK d \in Settings!Configs : d = Settings!Saved(c)
  BY SavedShape
<1>2. PICK r : r = [d EXCEPT !.path = Settings!Found]
  OBVIOUS
<1>3. r \in Settings!Configs /\ r.creds = d.creds /\ r.sync = d.sync /\ r.draft = d.draft /\ r.path = Settings!Found
  BY <1>2 DEF Settings!Configs
<1>4. Settings!Saved(r) = r
  BY <1>3, Sentinels DEF Settings!Saved
<1>5. /\ Settings!Effective(e, d).creds = n.creds /\ Settings!Effective(e, d).sync = n.sync
      /\ Settings!Effective(e, d).path = n.path \/ (Settings!Effective(e, d).path = Settings!Found /\ n.path = m)
      /\ "creds" \in DOMAIN e \/ Settings!Effective(e, d).draft = n.draft
  BY <1>1 DEF Settings!AgreesWith
<1>6. Settings!Effective(e, d).path = d.path /\ d.path = m
  BY <1>1 DEF Settings!Effective
<1>7. n.path = m
  BY <1>5, <1>6
<1>8. /\ Settings!Effective(e, r).creds = Settings!Effective(e, d).creds /\ Settings!Effective(e, r).sync = Settings!Effective(e, d).sync
      /\ Settings!Effective(e, r).draft = Settings!Effective(e, d).draft /\ Settings!Effective(e, r).path = Settings!Found
  BY <1>3 DEF Settings!Effective
<1>9. Settings!AgreesWith(r, e, n, m)
  BY <1>4, <1>5, <1>7, <1>8 DEF Settings!AgreesWith
<1> QED BY <1>1, <1>2, <1>3, <1>4, <1>8, <1>9

LEMMA RepairKeeps ==
  ASSUME Settings!SettingsInvariant, Settings!Repair
  PROVE  Settings!SettingsInvariant'
<1>1. Settings!SettingsTyped /\ Settings!PipelineInvariant /\ Settings!FileInvariant /\ Settings!TestedInvariant /\ Settings!TimerInvariant
  BY DEF Settings!SettingsInvariant
<1>2. /\ verify.stage = "probing"
      /\ UNCHANGED <<env, cfg, applier, submits, worker, posted, timer, tested, unrestored>>
      /\ \/ /\ Settings!StillOwned /\ Settings!WriteFile([Settings!Saved(file) EXCEPT !.path = Settings!Found])
            /\ verify' = [verify EXCEPT !.stage = "repaired", !.writes = writes']
         \/ verify' = [verify EXCEPT !.stage = "quiet"] /\ UNCHANGED <<file, writes>>
         \/ verify' = [verify EXCEPT !.stage = "warned"] /\ UNCHANGED <<file, writes>>
  BY DEF Settings!Repair
<1>3. verify \in [stage : {"probing", "repaired", "quiet", "warned", "announced"},
                  absent : {TRUE, FALSE}, writes : Nat, path : {1, 2, Settings!Found}]
  BY <1>1 DEF Settings!SettingsTyped
<1>4. file \in Settings!Contents /\ writes \in Nat
  BY <1>1 DEF Settings!SettingsTyped
<1>5. ASSUME file' = file \/ (Settings!StillOwned /\ file' = [Settings!Saved(file) EXCEPT !.path = Settings!Found] /\ writes = 0),
             file' \in Settings!Contents, writes' \in Nat, writes' >= writes,
             verify' \in [stage : {"repaired", "quiet", "warned", "announced"},
                          absent : {TRUE, FALSE}, writes : Nat, path : {1, 2, Settings!Found}],
             verify'.path = verify.path
      PROVE  Settings!SettingsInvariant'
  <2>1. Settings!SettingsTyped'
    BY <1>1, <1>2, <1>5 DEF Settings!SettingsTyped
  <2>2. Settings!PipelineInvariant'
    BY <1>1, <1>2 DEF Settings!PipelineInvariant
  <2>3. Settings!Agrees(file) => Settings!Agrees(file)'
    <3>1. ASSUME Settings!StillOwned, file' = [Settings!Saved(file) EXCEPT !.path = Settings!Found], Settings!Agrees(file)
          PROVE  Settings!Agrees(file)'
      <4>1. Settings!Saved(file).path = verify.path /\ "path" \notin DOMAIN env
        BY <3>1 DEF Settings!StillOwned, Settings!Overridden
      <4>2. Settings!AgreesWith(file', env, cfg, verify.path)
        BY <1>4, <3>1, <4>1, RepairAgrees DEF Settings!Agrees
      <4> QED BY <1>2, <1>5, <4>2 DEF Settings!Agrees
    <3> QED BY <1>2, <1>5, <3>1 DEF Settings!Agrees
  <2>4. \A c : Settings!Agrees(c) => Settings!Agrees(c)'
    BY <1>2, <1>5 DEF Settings!Agrees
  <2>5. Settings!Agrees(Settings!Baseline(file)) => Settings!Agrees(Settings!Baseline(file))'
    BY <1>2, <2>3, <2>4 DEF Settings!Baseline, Settings!Agrees
  <2>6. \A o \in posted : o.ok => file' = file
    BY <1>1, <1>4, <1>5 DEF Settings!FileInvariant
  <2>7. Settings!FileInvariant'
    <3>1. (~applier.busy => (unrestored \/ Settings!Agrees(file)) /\ Settings!Agrees(Settings!Baseline(file)))'
      BY <1>1, <1>2, <2>3, <2>5 DEF Settings!FileInvariant
    <3>2. (worker.stage = "capture" => Settings!Agrees(Settings!Baseline(file)))'
      BY <1>1, <1>2, <2>5 DEF Settings!FileInvariant
    <3>3. (worker.stage \in {"prepare", "write", "restore"} => worker.snap # Settings!NoSnapshot /\ Settings!Agrees(worker.snap))'
      BY <1>1, <1>2, <2>4 DEF Settings!FileInvariant, Settings!Agrees
    <3>4. ASSUME NEW o \in posted
          PROVE  /\ o.snap # Settings!NoSnapshot => Settings!Agrees(o.snap)'
                 /\ o.ok => o.snap # Settings!NoSnapshot /\ writes' > 0 /\ Settings!Follows(file, o)'
                 /\ ~o.ok => (unrestored \/ Settings!Agrees(file))'
                 /\ o.snap = Settings!NoSnapshot => applier'.rollback = Settings!NoSnapshot /\ Settings!Agrees(file)'
      <4>1. o.snap # Settings!NoSnapshot => Settings!Agrees(o.snap)'
        BY <1>1, <2>4 DEF Settings!FileInvariant
      <4>2. o.ok => o.snap # Settings!NoSnapshot /\ writes' > 0 /\ Settings!Follows(file, o)'
        <5>1. o.ok => o.snap # Settings!NoSnapshot /\ writes > 0 /\ Settings!Follows(file, o) /\ file' = file
          BY <1>1, <2>6 DEF Settings!FileInvariant
        <5>2. o.ok => writes' > 0
          BY <5>1, <1>4, <1>5
        <5>3. file' = file /\ Settings!Follows(file, o) => Settings!Follows(file, o)'
          BY <1>2 DEF Settings!Follows, Settings!NewConfig, Settings!ToConfig
        <5> QED BY <5>1, <5>2, <5>3
      <4>3. ~o.ok => (unrestored \/ Settings!Agrees(file))'
        BY <1>1, <1>2, <2>3 DEF Settings!FileInvariant
      <4>4. o.snap = Settings!NoSnapshot => applier'.rollback = Settings!NoSnapshot /\ Settings!Agrees(file)'
        BY <1>1, <1>2, <2>3 DEF Settings!FileInvariant
      <4> QED BY <4>1, <4>2, <4>3, <4>4
    <3>5. (\A o \in posted :
             /\ o.snap # Settings!NoSnapshot => Settings!Agrees(o.snap)
             /\ o.ok => o.snap # Settings!NoSnapshot /\ writes > 0 /\ Settings!Follows(file, o)
             /\ ~o.ok => unrestored \/ Settings!Agrees(file)
             /\ o.snap = Settings!NoSnapshot => applier.rollback = Settings!NoSnapshot /\ Settings!Agrees(file))'
      BY <1>2, <3>4
    <3> QED BY <3>1, <3>2, <3>3, <3>5 DEF Settings!FileInvariant
  <2>8. Settings!TestedInvariant'
    <3>1. Settings!UntestedNeverActive
      BY <1>1 DEF Settings!TestedInvariant
    <3>2. Settings!Effective(env, Settings!Saved(file')).creds = Settings!Effective(env, Settings!Saved(file)).creds
      <4>1. ASSUME Settings!StillOwned, file' = [Settings!Saved(file) EXCEPT !.path = Settings!Found]
            PROVE  Settings!Effective(env, Settings!Saved(file')).creds = Settings!Effective(env, Settings!Saved(file)).creds
        <5>1. PICK d \in Settings!Configs : d = Settings!Saved(file)
          BY <1>4, SavedShape
        <5>2. file' = [d EXCEPT !.path = Settings!Found]
          BY <4>1, <5>1
        <5>3. file' \in Settings!Configs /\ file'.creds = d.creds
          BY <5>2 DEF Settings!Configs
        <5>4. Settings!Saved(file') = file'
          BY <5>3, Sentinels DEF Settings!Saved
        <5> QED BY <5>1, <5>3, <5>4 DEF Settings!Effective
      <4> QED BY <1>5, <4>1
    <3>3. Settings!UntestedNeverActive'
      BY <1>2, <3>1, <3>2 DEF Settings!UntestedNeverActive, Settings!Load
    <3>4. (Settings!Overridden("creds") => env.creds \in tested)'
      BY <1>1, <1>2 DEF Settings!TestedInvariant, Settings!Overridden
    <3>5. \A c : Settings!TestedContents(c) => Settings!TestedContents(c)'
      BY <1>2 DEF Settings!TestedContents, Settings!Load
    <3>6. \A i : Settings!TestedItem(i) => Settings!TestedItem(i)'
      BY <1>2 DEF Settings!TestedItem
    <3>7. /\ Settings!TestedContents(applier.rollback)' /\ Settings!TestedContents(worker.snap)'
          /\ Settings!TestedItem(applier.pending)' /\ Settings!TestedItem(worker.item)'
      BY <1>1, <1>2, <3>5, <3>6 DEF Settings!TestedInvariant
    <3>8. (\A o \in posted : Settings!TestedContents(o.snap) /\ Settings!TestedItem(o.item))'
      BY <1>1, <1>2, <3>5, <3>6 DEF Settings!TestedInvariant
    <3> QED BY <3>3, <3>4, <3>7, <3>8 DEF Settings!TestedInvariant
  <2>9. Settings!TimerInvariant'
    BY <1>1, <1>2, TimerStays
  <2> QED BY <2>1, <2>2, <2>7, <2>8, <2>9 DEF Settings!SettingsInvariant
<1>6. CASE /\ Settings!StillOwned /\ Settings!WriteFile([Settings!Saved(file) EXCEPT !.path = Settings!Found])
           /\ verify' = [verify EXCEPT !.stage = "repaired", !.writes = writes']
  <2>1. PICK d \in Settings!Configs : d = Settings!Saved(file)
    BY <1>4, SavedShape
  <2>2. file' = [d EXCEPT !.path = Settings!Found]
    BY <1>6, <2>1 DEF Settings!WriteFile
  <2>3. file' \in Settings!Configs
    BY <2>2 DEF Settings!Configs
  <2>4. writes' = writes + 1 /\ file' \in Settings!Contents
    BY <1>6, <2>3, Sentinels DEF Settings!WriteFile, Settings!Contents
  <2>5. writes = 0
    BY <1>1, <1>2, <1>6 DEF Settings!SettingsTyped, Settings!StillOwned
  <2>6. writes' \in Nat /\ writes' >= writes
    BY <1>4, <2>4
  <2>7. /\ verify' \in [stage : {"repaired", "quiet", "warned", "announced"},
                        absent : {TRUE, FALSE}, writes : Nat, path : {1, 2, Settings!Found}]
        /\ verify'.path = verify.path
    BY <1>3, <1>6, <2>6
  <2> QED BY <1>5, <1>6, <2>1, <2>2, <2>4, <2>5, <2>6, <2>7
<1>7. CASE /\ \/ verify' = [verify EXCEPT !.stage = "quiet"]
              \/ verify' = [verify EXCEPT !.stage = "warned"]
           /\ UNCHANGED <<file, writes>>
  <2>1. /\ verify' \in [stage : {"repaired", "quiet", "warned", "announced"},
                        absent : {TRUE, FALSE}, writes : Nat, path : {1, 2, Settings!Found}]
        /\ verify'.path = verify.path
    <3>1. CASE verify' = [verify EXCEPT !.stage = "quiet"]
      BY <1>3, <3>1
    <3>2. CASE verify' = [verify EXCEPT !.stage = "warned"]
      BY <1>3, <3>2
    <3> QED BY <1>7, <3>1, <3>2
  <2>2. file' = file /\ file' \in Settings!Contents /\ writes' \in Nat /\ writes' >= writes
    BY <1>4, <1>7
  <2> QED BY <1>5, <2>1, <2>2
<1> QED BY <1>2, <1>6, <1>7

LEMMA AnnounceKeeps ==
  ASSUME Settings!SettingsInvariant, Settings!Announce
  PROVE  Settings!SettingsInvariant'
<1>1. Settings!SettingsTyped /\ Settings!PipelineInvariant /\ Settings!FileInvariant /\ Settings!TestedInvariant /\ Settings!TimerInvariant
  BY DEF Settings!SettingsInvariant
<1>2. UNCHANGED <<env, file, writes, cfg, applier, submits, worker, posted, timer, tested, unrestored>>
  BY DEF Settings!Announce
<1>3. /\ verify' \in [stage : {"quiet", "announced"}, absent : {TRUE, FALSE}, writes : Nat, path : {1, 2, Settings!Found}]
      /\ verify'.path = verify.path
  <2>1. PICK s \in {"quiet", "announced"} : verify' = [verify EXCEPT !.stage = s]
    BY DEF Settings!Announce
  <2>2. verify \in [stage : {"probing", "repaired", "quiet", "warned", "announced"},
                    absent : {TRUE, FALSE}, writes : Nat, path : {1, 2, Settings!Found}]
    BY <1>1 DEF Settings!SettingsTyped
  <2> QED BY <2>1, <2>2
<1>4. Settings!SettingsTyped'
  BY <1>1, <1>2, <1>3 DEF Settings!SettingsTyped
<1>5. Settings!PipelineInvariant'
  BY <1>1, <1>2 DEF Settings!PipelineInvariant
<1>6. Settings!FileInvariant'
  BY <1>1, <1>2, <1>3 DEF Settings!FileInvariant, Settings!Agrees, Settings!Baseline,
     Settings!Follows, Settings!NewConfig, Settings!ToConfig
<1>7. Settings!TestedInvariant'
  BY <1>1, <1>2 DEF Settings!TestedInvariant, Settings!TestedContents, Settings!TestedItem,
     Settings!UntestedNeverActive, Settings!Load, Settings!Overridden
<1>8. Settings!TimerInvariant'
  BY <1>1, <1>2, TimerStays
<1> QED BY <1>4, <1>5, <1>6, <1>7, <1>8 DEF Settings!SettingsInvariant

\* An outcome that has reached the GUI thread, and the baseline it leaves.
LEMMA OutcomeFacts ==
  ASSUME Settings!SettingsInvariant, NEW o \in posted
  PROVE  /\ o \in [item : Settings!Items, old : Settings!Configs, ok : {TRUE, FALSE}, snap : Settings!Contents \cup {Settings!NoSnapshot}]
         /\ o.old = cfg /\ applier.busy /\ worker.stage = "none" /\ worker.item \in Settings!Items \cup {Settings!NoItem}
         /\ Settings!KeptBaseline(o) \in Settings!Contents \cup {Settings!NoSnapshot}
         /\ Settings!TestedContents(Settings!KeptBaseline(o)) /\ Settings!TestedItem(applier.pending)
         /\ Settings!Agrees(IF Settings!KeptBaseline(o) = Settings!NoSnapshot THEN file ELSE Settings!KeptBaseline(o))
         /\ ~o.ok => unrestored \/ Settings!Agrees(file)
         /\ o.ok => /\ Settings!KeptBaseline(o) = o.snap /\ o.snap \in Settings!Contents /\ Settings!KeptBaseline(o) # Settings!NoSnapshot
                    /\ Settings!AgreesWith(file, env, Settings!NewConfig(o), Settings!NoFolder) /\ Settings!NewConfig(o) \in Settings!Configs
<1>1. Settings!SettingsTyped /\ Settings!PipelineInvariant /\ Settings!FileInvariant /\ Settings!TestedInvariant
  BY DEF Settings!SettingsInvariant
<1>2. o \in [item : Settings!Items, old : Settings!Configs, ok : {TRUE, FALSE}, snap : Settings!Contents \cup {Settings!NoSnapshot}]
  BY <1>1 DEF Settings!SettingsTyped
<1>3. applier.rollback \in Settings!Contents \cup {Settings!NoSnapshot} /\ worker.item \in Settings!Items \cup {Settings!NoItem}
  BY <1>1 DEF Settings!SettingsTyped
<1>4. o.old = cfg /\ applier.busy /\ worker.stage = "none"
  BY <1>1 DEF Settings!PipelineInvariant
<1>5. /\ o.snap # Settings!NoSnapshot => Settings!Agrees(o.snap)
      /\ o.ok => o.snap # Settings!NoSnapshot /\ Settings!Follows(file, o)
      /\ ~o.ok => unrestored \/ Settings!Agrees(file)
      /\ o.snap = Settings!NoSnapshot => applier.rollback = Settings!NoSnapshot /\ Settings!Agrees(file)
  BY <1>1 DEF Settings!FileInvariant
<1>6. Settings!TestedContents(applier.rollback) /\ Settings!TestedContents(o.snap) /\ Settings!TestedItem(applier.pending)
  BY <1>1 DEF Settings!TestedInvariant
<1>7. Settings!NewConfig(o) \in Settings!Configs
  <2>1. o.item.values \in Settings!Values /\ o.item.apply \in {TRUE, FALSE} /\ o.old \in Settings!Configs /\ env \in Settings!Overrides
    BY <1>1, <1>2 DEF Settings!Items, Settings!SettingsTyped
  <2> QED BY <2>1, ConfigShape DEF Settings!NewConfig
<1>8. CASE o.snap = Settings!NoSnapshot
  <2>1. Settings!KeptBaseline(o) = Settings!NoSnapshot
    BY <1>5, <1>8 DEF Settings!KeptBaseline
  <2> QED BY <1>2, <1>3, <1>4, <1>5, <1>6, <1>8, <2>1
<1>9. CASE o.snap # Settings!NoSnapshot
  <2>1. Settings!KeptBaseline(o) = o.snap /\ o.snap \in Settings!Contents
    BY <1>2, <1>9 DEF Settings!KeptBaseline
  <2> QED BY <1>2, <1>3, <1>4, <1>5, <1>6, <1>7, <1>9, <2>1 DEF Settings!Follows
<1> QED BY <1>8, <1>9

LEMMA NotCommittedKeeps ==
  ASSUME Settings!SettingsInvariant, Settings!NotCommitted
  PROVE  Settings!SettingsInvariant'
<1>1. PICK o \in posted :
         /\ Settings!Superseded(o) \/ ~o.ok
         /\ posted' = {} /\ Settings!Pump(applier.pending, Settings!KeptBaseline(o), cfg)
         /\ UNCHANGED <<env, file, writes, cfg, submits, timer, verify, tested>>
  BY DEF Settings!NotCommitted
<1>2. Settings!SettingsTyped /\ Settings!PipelineInvariant /\ Settings!TestedInvariant /\ Settings!TimerInvariant
  BY DEF Settings!SettingsInvariant
<1>3. PICK waits \in Settings!Items \cup {Settings!NoItem} : waits = applier.pending
  BY <1>2 DEF Settings!SettingsTyped
<1>4. PICK r \in Settings!Contents \cup {Settings!NoSnapshot} : r = Settings!KeptBaseline(o)
  BY OutcomeFacts
<1>5. unrestored \in {TRUE, FALSE} /\ cfg \in Settings!Configs /\ submits \in Nat
  BY <1>2 DEF Settings!SettingsTyped, Settings!PipelineInvariant
<1>p. Settings!Pump(waits, r, cfg)
  BY <1>1, <1>3, <1>4
<1>6. PICK b \in {TRUE, FALSE} :
         /\ applier' = [pending |-> Settings!NoItem, busy |-> b, rollback |-> r]
         /\ \/ worker' = Settings!NoWork /\ ~b
            \/ worker' = Settings!Starts(waits, cfg) /\ b /\ waits \in Settings!Items
         /\ unrestored' \in {TRUE, FALSE} /\ (unrestored => unrestored')
         /\ waits # Settings!NoItem /\ ~b /\ r # Settings!NoSnapshot => unrestored'
  BY <1>p, <1>5, PumpEffect
<1>7. /\ (applier \in [pending : Settings!Items \cup {Settings!NoItem}, busy : {TRUE, FALSE},
                       rollback : Settings!Contents \cup {Settings!NoSnapshot}])'
      /\ (worker \in [stage : Settings!Stages, item : Settings!Items \cup {Settings!NoItem}, old : Settings!Configs,
                      snap : Settings!Contents \cup {Settings!NoSnapshot}, saved : Settings!Configs])'
      /\ worker'.stage = (IF b THEN "capture" ELSE "none") /\ worker'.snap = Settings!NoSnapshot
      /\ worker'.item \in {waits, Settings!NoItem} /\ applier'.busy = b /\ applier'.rollback = r
      /\ Settings!PipelineInvariant'
  BY <1>1, <1>5, <1>6, PumpedTyped
<1>8. Settings!SettingsTyped'
  BY <1>1, <1>2, <1>6, <1>7 DEF Settings!SettingsTyped
<1>9. Settings!FileInvariant'
  <2>1. Settings!AgreesWith(IF r = Settings!NoSnapshot THEN file' ELSE r, env', cfg', verify'.path)
    BY <1>1, <1>4, OutcomeFacts DEF Settings!Agrees
  <2>2. b \/ unrestored' \/ Settings!AgreesWith(file', env', cfg', verify'.path)
    <3>1. CASE ~o.ok
      BY <1>1, <1>6, <3>1, OutcomeFacts DEF Settings!Agrees
    <3>2. CASE o.ok
      BY <1>1, <1>3, <1>4, <1>6, <3>2, OutcomeFacts DEF Settings!Superseded
    <3> QED BY <3>1, <3>2
  <2> QED BY <1>1, <1>7, <2>1, <2>2, PumpedFile
<1>10. Settings!TestedInvariant'
  <2>1. Settings!UntestedNeverActive' /\ (Settings!Overridden("creds") => env.creds \in tested)'
    BY <1>1, <1>2, ActiveStays DEF Settings!TestedInvariant, Settings!Overridden
  <2>2. Settings!TestedItem(waits)' /\ Settings!TestedContents(r)'
    <3>1. Settings!TestedItem(waits) /\ Settings!TestedContents(r)
      BY <1>3, <1>4, OutcomeFacts
    <3> QED BY <1>1, <3>1 DEF Settings!TestedItem, Settings!TestedContents, Settings!Load
  <2>3. applier'.pending = Settings!NoItem
    BY <1>6
  <2> QED BY <1>1, <1>7, <2>1, <2>2, <2>3, PumpedTested
<1>11. Settings!TimerInvariant'
  BY <1>1, <1>2, TimerStays
<1> QED BY <1>7, <1>8, <1>9, <1>10, <1>11 DEF Settings!SettingsInvariant

\* When the runtime follows, or what failed is put back, the change that waits is taken.
LEMMA CommittedKeeps ==
  ASSUME Settings!SettingsInvariant, NEW o \in posted, o.ok,
         NEW rollback \in Settings!Contents \cup {Settings!NoSnapshot}, NEW current \in Settings!Configs,
         UNCHANGED <<env, submits, verify, tested>>, posted' = {}, cfg' = current,
         file' \in Settings!Contents, writes' \in Nat, unrestored' \in {TRUE, FALSE},
         Settings!PumpAfter(current, rollback),
         Settings!AgreesWith(IF rollback = Settings!NoSnapshot THEN file' ELSE rollback, env, current, verify.path),
         unrestored' \/ Settings!AgreesWith(file', env, current, verify.path),
         Settings!TestedContents(rollback), Settings!UntestedNeverActive', Settings!TimerInvariant'
  PROVE  Settings!SettingsInvariant'
<1>1. Settings!SettingsTyped /\ Settings!PipelineInvariant /\ Settings!TestedInvariant
  BY DEF Settings!SettingsInvariant
<1>2. PICK waits \in Settings!Items \cup {Settings!NoItem} : waits = applier.pending
  BY <1>1 DEF Settings!SettingsTyped
<1>3. PICK b \in {TRUE, FALSE} : b = (waits # Settings!NoItem)
  OBVIOUS
<1>4. /\ applier' = [pending |-> Settings!NoItem, busy |-> b, rollback |-> rollback]
      /\ \/ worker' = Settings!NoWork /\ ~b
         \/ worker' = Settings!Starts(waits, current) /\ b /\ waits \in Settings!Items
  BY <1>2, <1>3 DEF Settings!PumpAfter
<1>5. submits' \in Nat
  BY <1>1 DEF Settings!PipelineInvariant
<1>6. /\ (applier \in [pending : Settings!Items \cup {Settings!NoItem}, busy : {TRUE, FALSE},
                       rollback : Settings!Contents \cup {Settings!NoSnapshot}])'
      /\ (worker \in [stage : Settings!Stages, item : Settings!Items \cup {Settings!NoItem}, old : Settings!Configs,
                      snap : Settings!Contents \cup {Settings!NoSnapshot}, saved : Settings!Configs])'
      /\ worker'.stage = (IF b THEN "capture" ELSE "none") /\ worker'.snap = Settings!NoSnapshot
      /\ worker'.item \in {waits, Settings!NoItem} /\ applier'.busy = b /\ applier'.rollback = rollback
      /\ Settings!PipelineInvariant'
  BY <1>4, <1>5, PumpedTyped
<1>7. Settings!SettingsTyped'
  BY <1>1, <1>6 DEF Settings!SettingsTyped
<1>8. Settings!FileInvariant'
  BY <1>6, PumpedFile
<1>9. Settings!TestedInvariant'
  <2>1. (Settings!Overridden("creds") => env.creds \in tested)'
    BY <1>1 DEF Settings!TestedInvariant, Settings!Overridden
  <2>2. Settings!TestedItem(waits)' /\ Settings!TestedContents(rollback)'
    <3>1. Settings!TestedItem(waits)
      BY <1>1, <1>2 DEF Settings!TestedInvariant
    <3> QED BY <3>1 DEF Settings!TestedItem, Settings!TestedContents, Settings!Load
  <2>3. applier'.pending = Settings!NoItem
    BY <1>4
  <2> QED BY <1>6, <2>1, <2>2, <2>3, PumpedTested
<1> QED BY <1>6, <1>7, <1>8, <1>9 DEF Settings!SettingsInvariant

\* A commit that succeeds stops the timer it turns off, or starts the one it turns on.
LEMMA CommitTimer ==
  ASSUME Settings!SettingsInvariant, NEW new \in {TRUE, FALSE}, cfg'.sync = new,
         new # cfg.sync => ~Settings!SyncRaises(new, timer.own, timer, TRUE),
         timer' = (IF new # cfg.sync THEN Settings!SyncRuntime(new, timer.own, timer) ELSE timer)
  PROVE  Settings!TimerInvariant'
<1>1. /\ timer \in [own : Nat, running : SUBSET Nat, created : Nat]
      /\ timer.own <= timer.created /\ timer.running \subseteq 1..timer.created
      /\ cfg.sync <=> timer.own # 0
      /\ ~cfg.sync => timer.running = {}
      /\ timer.own \in timer.running => timer.running = {timer.own}
  BY DEF Settings!SettingsInvariant, Settings!TimerInvariant,
     Settings!NoExitTimerWithoutSync
<1>2. cfg.sync \in {TRUE, FALSE}
  BY DEF Settings!SettingsInvariant, Settings!SettingsTyped, Settings!Configs
<1>3. CASE new = cfg.sync
  <2>1. timer' = timer
    BY <1>3
  <2> QED BY <1>1, <1>3, <2>1 DEF Settings!TimerInvariant, Settings!NoExitTimerWithoutSync
<1>4. CASE new # cfg.sync /\ new
  <2>1. timer.own = 0 /\ timer.running = {} /\ timer.created \in Nat
    BY <1>1, <1>2, <1>4
  <2>2. timer' = [own |-> timer.created + 1, running |-> {timer.created + 1}, created |-> timer.created + 1]
    BY <1>4, <2>1 DEF Settings!SyncRuntime
  <2>3. PICK n \in Nat : n = timer.created + 1
    BY <2>1
  <2>4. timer' = [own |-> n, running |-> {n}, created |-> n] /\ n # 0
    BY <2>1, <2>2, <2>3
  <2>5. {n} \subseteq 1..n /\ {n} \in SUBSET Nat /\ n <= n
    BY <2>4
  <2>6. /\ timer' \in [own : Nat, running : SUBSET Nat, created : Nat]
        /\ timer'.own = n /\ timer'.running = {n} /\ timer'.created = n
    BY <2>4, <2>5
  <2> QED BY <1>4, <2>4, <2>5, <2>6 DEF Settings!TimerInvariant,
         Settings!NoExitTimerWithoutSync
<1>5. CASE new # cfg.sync /\ ~new
  <2>1. timer.own # 0 /\ timer.own \in timer.running /\ timer.running = {timer.own}
    BY <1>1, <1>2, <1>5 DEF Settings!SyncRaises
  <2>2. timer' = [own |-> 0, running |-> timer.running \ {timer.own}, created |-> timer.created]
    BY <1>5 DEF Settings!SyncRuntime
  <2>3. /\ timer' \in [own : Nat, running : SUBSET Nat, created : Nat]
        /\ timer'.own = 0 /\ timer'.running = {} /\ timer'.created = timer.created
    <3>1. PICK r \in SUBSET Nat : r = timer.running \ {timer.own} /\ r = {}
      BY <2>1
    <3>2. timer' = [own |-> 0, running |-> r, created |-> timer.created]
      BY <1>1, <2>2, <3>1
    <3> QED BY <1>1, <3>1, <3>2
  <2> QED BY <1>1, <1>5, <2>3 DEF Settings!TimerInvariant, Settings!NoExitTimerWithoutSync
<1> QED BY <1>3, <1>4, <1>5

LEMMA CommitKeeps ==
  ASSUME Settings!SettingsInvariant, Settings!Commit
  PROVE  Settings!SettingsInvariant'
<1>1. PICK o \in posted :
         /\ o.ok
         /\ ~Settings!Raises(o, TRUE) /\ timer' = Settings!Switched(o, TRUE)
         /\ cfg' = Settings!NewConfig(o) /\ posted' = {} /\ unrestored' = FALSE
         /\ Settings!PumpAfter(Settings!NewConfig(o), Settings!NoSnapshot)
         /\ UNCHANGED <<env, file, writes, submits, verify, tested>>
  BY DEF Settings!Commit
<1>2. PICK new \in Settings!Configs : new = Settings!NewConfig(o)
  BY <1>1, OutcomeFacts
<1>3. o.old = cfg /\ Settings!AgreesWith(file, env, new, Settings!NoFolder)
  BY <1>1, <1>2, OutcomeFacts
<1>4. new.sync \in {TRUE, FALSE}
  BY DEF Settings!Configs
<1>5. Settings!TimerInvariant'
  <2>1. /\ new.sync # cfg.sync => ~Settings!SyncRaises(new.sync, timer.own, timer, TRUE)
        /\ timer' = (IF new.sync # cfg.sync THEN Settings!SyncRuntime(new.sync, timer.own, timer) ELSE timer)
    BY <1>1, <1>2, <1>3 DEF Settings!Raises, Settings!Switched, Settings!Changes
  <2> QED BY <1>1, <1>2, <1>4, <2>1, CommitTimer
<1>6. Settings!AgreesWith(file, env, new, verify.path)
  BY <1>3, FollowedIsAgreed
<1>7. file \in Settings!Contents /\ writes \in Nat /\ Settings!UntestedNeverActive
  BY DEF Settings!SettingsInvariant, Settings!SettingsTyped, Settings!TestedInvariant
<1>8. Settings!UntestedNeverActive'
  <2>1. Settings!Load(file).creds = new.creds
    BY <1>6, AgreedCredentials DEF Settings!Load
  <2> QED BY <1>1, <1>2, <1>7, <2>1 DEF Settings!UntestedNeverActive, Settings!Load
<1>9. Settings!TestedContents(Settings!NoSnapshot)
  BY DEF Settings!TestedContents
<1>10. /\ file' \in Settings!Contents /\ writes' \in Nat /\ unrestored' \in {TRUE, FALSE}
       /\ Settings!AgreesWith(file', env, new, verify.path) /\ Settings!PumpAfter(new, Settings!NoSnapshot) /\ cfg' = new
       /\ UNCHANGED <<env, submits, verify, tested>> /\ posted' = {}
  BY <1>1, <1>2, <1>6, <1>7
<1> QED BY <1>1, <1>5, <1>8, <1>9, <1>10, CommittedKeeps

\* What a failed change leaves of the timers when the sync is put back, as far as that works.
LEMMA UndoneTimer ==
  ASSUME Settings!SettingsInvariant, NEW new \in {TRUE, FALSE}, NEW thrown \in {TRUE, FALSE}, NEW back \in {TRUE, FALSE},
         NEW first, NEW undone, UNCHANGED cfg,
         new # cfg.sync /\ ~new => (thrown <=> timer.own \notin timer.running),
         first = (IF new # cfg.sync /\ ~thrown THEN Settings!SyncRuntime(new, timer.own, timer) ELSE timer),
         undone = (IF new # cfg.sync /\ ~Settings!SyncRaises(cfg.sync, first.own, first, back)
                   THEN Settings!SyncRuntime(cfg.sync, first.own, first) ELSE first),
         timer' = [undone EXCEPT !.own = timer.own]
  PROVE  Settings!TimerInvariant'
<1>1. /\ timer \in [own : Nat, running : SUBSET Nat, created : Nat]
      /\ timer.own <= timer.created /\ timer.running \subseteq 1..timer.created
      /\ cfg.sync <=> timer.own # 0
      /\ ~cfg.sync => timer.running = {}
      /\ timer.own \in timer.running => timer.running = {timer.own}
  BY DEF Settings!SettingsInvariant, Settings!TimerInvariant,
     Settings!NoExitTimerWithoutSync
<1>2. cfg.sync \in {TRUE, FALSE}
  BY DEF Settings!SettingsInvariant, Settings!SettingsTyped, Settings!Configs
<1>3. ASSUME undone = timer PROVE Settings!TimerInvariant'
  <2>1. timer' = timer
    BY <1>1, <1>3
  <2> QED BY <1>1, <2>1 DEF Settings!TimerInvariant, Settings!NoExitTimerWithoutSync
<1>4. CASE new = cfg.sync
  BY <1>3, <1>4
<1>5. CASE new # cfg.sync /\ new
  <2>1. timer.own = 0 /\ timer.running = {} /\ cfg.sync = FALSE /\ timer.created \in Nat
    BY <1>1, <1>2, <1>5
  <2>2. CASE thrown
    <3>1. first = timer
      BY <2>2
    <3>2. undone = [own |-> 0, running |-> timer.running \ {0}, created |-> timer.created]
      BY <1>5, <2>1, <3>1 DEF Settings!SyncRaises, Settings!SyncRuntime
    <3>3. undone = timer
      BY <1>1, <2>1, <3>2
    <3> QED BY <1>3, <3>3
  <2>3. CASE ~thrown
    <3>1. first = [own |-> timer.created + 1, running |-> {timer.created + 1}, created |-> timer.created + 1]
      BY <1>5, <2>1, <2>3 DEF Settings!SyncRuntime
    <3>2. undone = [own |-> 0, running |-> first.running \ {first.own}, created |-> first.created]
      BY <1>5, <2>1, <3>1 DEF Settings!SyncRaises, Settings!SyncRuntime
    <3>3. undone = [own |-> 0, running |-> {}, created |-> timer.created + 1]
      <4>1. PICK n : n = timer.created + 1
        OBVIOUS
      <4>2. first = [own |-> n, running |-> {n}, created |-> n] /\ first.own = n
        BY <3>1, <4>1
      <4>3. undone = [own |-> 0, running |-> {n} \ {n}, created |-> n]
        <5>1. first \in [own : Nat, running : SUBSET Nat, created : Nat] /\ first.running = {n} /\ first.created = n
          BY <2>1, <4>1, <4>2
        <5> QED BY <3>2, <4>2, <5>1
      <4>4. {n} \ {n} = {}
        OBVIOUS
      <4> QED BY <4>1, <4>3, <4>4
    <3>4. PICK n \in Nat : n = timer.created + 1
      BY <2>1
    <3>5. timer' = [own |-> 0, running |-> {}, created |-> n]
      BY <2>1, <3>3, <3>4
    <3>6. /\ timer' \in [own : Nat, running : SUBSET Nat, created : Nat]
          /\ timer'.own = 0 /\ timer'.running = {} /\ timer'.created = n
      BY <3>5
    <3> QED BY <2>1, <3>6, SMTT(60) DEF Settings!TimerInvariant, Settings!NoExitTimerWithoutSync
  <2> QED BY <2>2, <2>3
<1>6. CASE new # cfg.sync /\ ~new
  <2>1. timer.own # 0 /\ cfg.sync = TRUE /\ timer.created \in Nat /\ timer.own \in Nat
    BY <1>1, <1>2, <1>6
  <2>2. CASE thrown
    <3>1. first = timer
      BY <2>2
    <3>2. undone = timer \/ undone = [timer EXCEPT !.own = timer.own]
      BY <1>6, <2>1, <3>1 DEF Settings!SyncRaises, Settings!SyncRuntime
    <3>3. undone = timer
      BY <1>1, <3>2
    <3> QED BY <1>3, <3>3
  <2>3. CASE ~thrown
    <3>1. timer.running = {timer.own}
      BY <1>1, <1>6, <2>3
    <3>2. first = [own |-> 0, running |-> timer.running \ {timer.own}, created |-> timer.created]
      BY <1>6, <2>3 DEF Settings!SyncRuntime
    <3>3. /\ first \in [own : Nat, running : SUBSET Nat, created : Nat]
          /\ first.own = 0 /\ first.running = {} /\ first.created = timer.created
      <4>1. PICK r \in SUBSET Nat : r = timer.running \ {timer.own} /\ r = {}
        BY <3>1
      <4>2. first = [own |-> 0, running |-> r, created |-> timer.created]
        BY <1>1, <3>2, <4>1
      <4> QED BY <1>1, <4>1, <4>2
    <3>4. \/ undone = first
          \/ undone = [own |-> first.created + 1, running |-> first.running \cup {first.created + 1},
                       created |-> first.created + 1]
      BY <1>6, <2>1, <3>3 DEF Settings!SyncRuntime
    <3>5. CASE undone = first
      <4>1. /\ timer' \in [own : Nat, running : SUBSET Nat, created : Nat]
            /\ timer'.own = timer.own /\ timer'.running = {} /\ timer'.created = timer.created
        BY <2>1, <3>3, <3>5
      <4> QED BY <1>1, <2>1, <4>1 DEF Settings!TimerInvariant,
             Settings!NoExitTimerWithoutSync
    <3>6. CASE undone = [own |-> timer.created + 1, running |-> {timer.created + 1},
                         created |-> timer.created + 1]
      <4>1. timer' = [own |-> timer.own, running |-> {timer.created + 1}, created |-> timer.created + 1]
        BY <3>6
      <4>2. timer.own # timer.created + 1 /\ timer.own <= timer.created + 1
        BY <1>1, <2>1
      <4> QED BY <1>1, <2>1, <4>1, <4>2, SMTT(60) DEF Settings!TimerInvariant,
             Settings!NoExitTimerWithoutSync
    <3> QED BY <3>3, <3>4, <3>5, <3>6
  <2> QED BY <2>2, <2>3
<1> QED BY <1>4, <1>5, <1>6

LEMMA CommitFailsKeeps ==
  ASSUME Settings!SettingsInvariant, Settings!CommitFails
  PROVE  Settings!SettingsInvariant'
<1>1. PICK o \in posted, helper \in BOOLEAN, back \in BOOLEAN, restored \in BOOLEAN :
         /\ o.ok /\ timer' = Settings!PutBack(o, helper, back) /\ posted' = {}
         /\ IF restored THEN Settings!WriteFile(o.snap) ELSE UNCHANGED <<file, writes>>
         /\ unrestored' = (~restored /\ (unrestored \/ file # o.snap))
         /\ Settings!PumpAfter(cfg, Settings!KeptBaseline(o))
         /\ UNCHANGED <<env, cfg, submits, verify, tested>>
  BY DEF Settings!CommitFails
<1>2. PICK new \in Settings!Configs : new = Settings!NewConfig(o)
  BY <1>1, OutcomeFacts
<1>3. /\ o.old = cfg /\ Settings!KeptBaseline(o) = o.snap /\ o.snap \in Settings!Contents /\ o.snap # Settings!NoSnapshot
      /\ Settings!TestedContents(o.snap) /\ Settings!Agrees(o.snap)
  BY <1>1, OutcomeFacts
<1>4. new.sync \in {TRUE, FALSE} /\ cfg.sync \in {TRUE, FALSE} /\ cfg \in Settings!Configs
  BY DEF Settings!Configs, Settings!SettingsInvariant, Settings!SettingsTyped
<1>5. Settings!TimerInvariant'
  <2>1. PICK changed \in {TRUE, FALSE} : changed = (new.sync # cfg.sync)
    OBVIOUS
  <2>2. PICK thrown \in {TRUE, FALSE} : thrown = (changed /\ Settings!SyncRaises(new.sync, timer.own, timer, helper))
    OBVIOUS
  <2>3. PICK first : first = (IF changed /\ ~thrown THEN Settings!SyncRuntime(new.sync, timer.own, timer) ELSE timer)
    OBVIOUS
  <2>4. PICK undone : undone = (IF changed /\ ~Settings!SyncRaises(cfg.sync, first.own, first, back)
                                THEN Settings!SyncRuntime(cfg.sync, first.own, first) ELSE first)
    OBVIOUS
  <2>5. timer' = [undone EXCEPT !.own = timer.own]
    <3>1. Settings!Switched(o, helper) = first
      BY <1>2, <1>3, <2>1, <2>2, <2>3 DEF Settings!Switched, Settings!Raises,
         Settings!Changes
    <3> QED BY <1>1, <1>2, <1>3, <2>1, <2>4, <3>1 DEF Settings!PutBack, Settings!Changes
  <2>6. new.sync # cfg.sync /\ ~new.sync => (thrown <=> timer.own \notin timer.running)
    <3>1. cfg.sync <=> timer.own # 0
      BY DEF Settings!SettingsInvariant, Settings!TimerInvariant
    <3> QED BY <1>4, <2>1, <2>2, <3>1 DEF Settings!SyncRaises
  <2>7. back \in {TRUE, FALSE} /\ UNCHANGED cfg
    BY <1>1
  <2> QED BY <1>4, <2>1, <2>3, <2>4, <2>5, <2>6, <2>7, UndoneTimer, ZenonT(120)
<1>6. /\ file \in Settings!Contents /\ writes \in Nat /\ Settings!UntestedNeverActive /\ unrestored \in {TRUE, FALSE}
  BY DEF Settings!SettingsInvariant, Settings!SettingsTyped, Settings!TestedInvariant
<1>7. /\ file' = o.snap \/ (file' = file /\ (unrestored' \/ file = o.snap))
      /\ writes' \in Nat /\ unrestored' \in {TRUE, FALSE}
  <2>1. CASE restored
    <3>1. file' = o.snap /\ writes' \in {writes, writes + 1}
      BY <1>1, <2>1 DEF Settings!WriteFile
    <3>2. writes' \in Nat
      BY <1>6, <3>1
    <3>3. unrestored' = FALSE
      BY <1>1, <2>1
    <3> QED BY <3>1, <3>2, <3>3
  <2>2. CASE ~restored
    BY <1>1, <1>6, <2>2
  <2> QED BY <2>1, <2>2
<1>8. file' \in Settings!Contents /\ (unrestored' \/ Settings!AgreesWith(file', env, cfg, verify.path))
  BY <1>3, <1>6, <1>7 DEF Settings!Agrees
<1>9. Settings!UntestedNeverActive'
  <2>1. Settings!Load(o.snap).creds \in tested /\ Settings!Load(file).creds \in tested /\ cfg.creds \in tested
    BY <1>3, <1>6 DEF Settings!TestedContents, Settings!UntestedNeverActive
  <2>2. Settings!Effective(env, Settings!Saved(file')).creds \in tested
    BY <1>7, <2>1 DEF Settings!Load
  <2> QED BY <1>1, <2>1, <2>2 DEF Settings!UntestedNeverActive, Settings!Load
<1>10. PICK r \in Settings!Contents \cup {Settings!NoSnapshot} : r = o.snap
  BY <1>3
<1>11. Settings!AgreesWith(IF r = Settings!NoSnapshot THEN file' ELSE r, env, cfg, verify.path)
  BY <1>3, <1>10 DEF Settings!Agrees
<1>12. Settings!PumpAfter(cfg, r) /\ Settings!TestedContents(r)
  BY <1>1, <1>3, <1>10
<1>13. UNCHANGED <<env, submits, verify, tested>> /\ posted' = {} /\ cfg' = cfg /\ o.ok
  BY <1>1
<1> QED BY <1>4, <1>5, <1>7, <1>8, <1>9, <1>11, <1>12, <1>13, CommittedKeeps

LEMMA SettingsNextKeeps ==
  ASSUME Settings!SettingsInvariant, Settings!Next
  PROVE  Settings!SettingsInvariant'
<1>1. ASSUME NEW v \in Settings!Values, NEW apply \in BOOLEAN, Settings!Submit(v, apply) PROVE Settings!SettingsInvariant'
  <2>1. apply \in {TRUE, FALSE}
    OBVIOUS
  <2> QED BY <1>1, <2>1, SubmitKeeps
<1>2. CASE Settings!Work
  BY <1>2, CaptureKeeps, PrepareKeeps, WriteKeeps, RestoreKeeps DEF Settings!Work
<1>3. CASE Settings!Gui
  BY <1>3, NotCommittedKeeps, CommitKeeps, CommitFailsKeeps DEF Settings!Gui
<1>4. CASE Settings!Repair \/ Settings!Announce
  BY <1>4, RepairKeeps, AnnounceKeeps
<1> QED BY <1>1, <1>2, <1>3, <1>4 DEF Settings!Next

\* What the invariant says of the program.
LEMMA SettingsSound ==
  ASSUME Settings!SettingsInvariant
  PROVE  Settings!FileFollowsRuntime /\ Settings!UntestedNeverActive /\ Settings!NoExitTimerWithoutSync
<1>1. Settings!UntestedNeverActive /\ Settings!NoExitTimerWithoutSync
  BY DEF Settings!SettingsInvariant, Settings!TestedInvariant, Settings!TimerInvariant
<1>2. Settings!FileFollowsRuntime
  BY DEF Settings!SettingsInvariant, Settings!FileInvariant, Settings!FileFollowsRuntime,
     Settings!Idle, Settings!Baseline
<1> QED BY <1>1, <1>2

-----------------------------------------------------------------------------
(* The sum. *)

\* A step of the sum is a step of the part that runs, or none.
LEMMA StepOfPart ==
  ASSUME [Next]_vars
  PROVE  /\ part' = part
         /\ part = "publication" => [Pub!Next]_PublicationVars
         /\ part = "retired" => [Retired!Next]_RetiredVars
         /\ part = "settings" => [Settings!Next]_SettingsVars
         /\ part = "edits" => [Edits!Next]_EditsVars
         /\ part = "lifecycle" => [Lifecycle!Next]_LifecycleVars
         /\ part = "update" => [Update!Next]_UpdateVars
         /\ part = "usage" => [Usage!Next]_UsageVars
BY DEF vars, Next, PublicationNext, RetiredNext, SettingsNext, EditsNext, LifecycleNext,
       UpdateNext, UsageNext

\* The inductive invariant of each part holds whenever that part runs.
LEMMA PublicationHolds == Spec => [](part = "publication" => Pub!PublicationInvariant)
<1> DEFINE I == part = "publication" => Pub!PublicationInvariant
<1>1. Init => I
  BY PublicationInit DEF Init
<1>2. I /\ [Next]_vars => I'
  <2>1. ASSUME Pub!PublicationInvariant, UNCHANGED PublicationVars
        PROVE  Pub!PublicationInvariant'
    <3> USE <2>1 DEF PublicationVars, Pub!PublicationInvariant
    <3>1. Pub!TypeOK'
      <4>1. (queue \in Seq(Pub!Publication))'
        BY DEF Pub!TypeOK
      <4>2. (/\ holding \in [Pub!Actors -> Pub!Publication \cup {Pub!NoPublication}]
             /\ files \in [Pub!Actors -> SUBSET Pub!Shots]
             /\ shot \in [Workers -> Pub!Shots \cup {NoKey}])'
        BY DEF Pub!TypeOK
      <4>3. (armed \in BOOLEAN /\ active \in BOOLEAN /\ stopped \in BOOLEAN /\ raised \in BOOLEAN)'
        BY DEF Pub!TypeOK
      <4> QED BY <4>1, <4>2, <4>3 DEF Pub!TypeOK
    <3>2. Pub!PublisherInvariant'
      BY DEF Pub!PublisherInvariant, Pub!OnePublisher, Pub!Publishing
    <3>3. Pub!ClaimInvariant'
      BY DEF Pub!ClaimInvariant
    <3>4. Pub!WithinFrontier' /\ Pub!OpenGroup' /\ Pub!HandedInOrder'
      BY DEF Pub!WithinFrontier, Pub!OpenGroup, Pub!HandedInOrder
    <3>5. Pub!QueueInOrder'
      BY DEF Pub!QueueInOrder, Pub!InTurn
    <3>6. Pub!EmittingInOrder'
      BY DEF Pub!EmittingInOrder, Pub!Emitting, Pub!InTurn
    <3>7. Pub!AwaitInvariant'
      BY DEF Pub!AwaitInvariant, Pub!Awaited, Pub!Emitting
    <3>8. Pub!QueueTimely' /\ Pub!HoldingTimely'
      BY DEF Pub!QueueTimely, Pub!HoldingTimely, Pub!Timely,
             Pub!Emitting
    <3>9. Pub!DeletedAfterOwnHandoff' /\ Pub!FilesHandedOver' /\ Pub!AppliedInTime'
      BY DEF Pub!DeletedAfterOwnHandoff, Pub!FilesHandedOver,
             Pub!HandedOver, Pub!AppliedInTime
    <3> QED BY <3>1, <3>2, <3>3, <3>4, <3>5, <3>6, <3>7, <3>8, <3>9
  <2> QED BY <2>1, StepOfPart, PublicationNextKeeps
<1> QED BY <1>1, <1>2, PTL DEF Spec

LEMMA RetiredHolds == Spec => [](part = "retired" => Retired!StopInvariant)
<1> DEFINE I == part = "retired" => Retired!StopInvariant
<1>1. Init => I
  BY RetiredInit DEF Init
<1>2. I /\ [Next]_vars => I'
  <2>1. Retired!StopInvariant /\ UNCHANGED RetiredVars => Retired!StopInvariant'
    BY DEF Retired!StopInvariant, RetiredVars
  <2> QED BY <2>1, StepOfPart, RetiredNextKeeps
<1> QED BY <1>1, <1>2, PTL DEF Spec

LEMMA UpdateHolds == Spec => [](part = "update" => Update!UpdateInvariant)
<1> DEFINE I == part = "update" => Update!UpdateInvariant
<1>1. Init => I
  BY UpdateInit DEF Init
<1>2. I /\ [Next]_vars => I'
  <2>1. ASSUME Update!UpdateInvariant, UNCHANGED UpdateVars PROVE Update!UpdateInvariant'
    <3> USE <2>1 DEF UpdateVars, Update!UpdateInvariant
    <3>1. (updating \in BOOLEAN /\ handoff \in BOOLEAN /\ completions \subseteq Update!Completion)'
      OBVIOUS
    <3>2. Update!UpdateTyped' /\ Update!GateInvariant'
      BY DEF Update!UpdateTyped, Update!GateInvariant
    <3>3. ASSUME NEW a \in Update!Attempts PROVE Update!AttemptInvariant(a)'
      BY DEF Update!AttemptInvariant, Update!AtWork, Update!Current
    <3> QED BY <3>1, <3>2, <3>3 DEF Update!CompletionInvariant, Update!Current
  <2> QED BY <2>1, StepOfPart, UpdateNextKeeps
<1> QED BY <1>1, <1>2, PTL DEF Spec

LEMMA UsageHolds == Spec => [](part = "usage" => Usage!UsageInvariant)
<1> DEFINE I == part = "usage" => Usage!UsageInvariant
<1>1. Init => I
  BY UsageInit DEF Init
<1>2. I /\ [Next]_vars => I'
  <2>1. ASSUME Usage!UsageInvariant, UNCHANGED UsageVars PROVE Usage!UsageInvariant'
    <3> USE <2>1 DEF UsageVars, Usage!UsageInvariant
    <3>1. (Usage!UsageTyped /\ Usage!UsageFlags /\ usageFile \in Usage!Files(period)
           /\ delivery \in Usage!Delivery)'
      BY DEF Usage!UsageTyped, Usage!UsageFlags
    <3>2. (writers \subseteq Usage!Writers)' /\ \A w \in writers' : Usage!WriterInvariant(w)'
      BY DEF Usage!WriterInvariant
    <3>3. Usage!ChoiceInvariant'
      BY DEF Usage!ChoiceInvariant, Usage!Enabling
    <3>4. Usage!QueueInvariant' /\ Usage!DeliveryInvariant'
      BY DEF Usage!QueueInvariant, Usage!DeliveryInvariant
    <3> QED BY <3>1, <3>2, <3>3, <3>4
  <2> QED BY <2>1, StepOfPart, UsageNextKeeps
<1> QED BY <1>1, <1>2, PTL DEF Spec

LEMMA LifecycleHolds == Spec => [](part = "lifecycle" => Lifecycle!LifecycleInvariant)
<1> DEFINE I == part = "lifecycle" => Lifecycle!LifecycleInvariant
<1>1. Init => I
  BY LifecycleInit DEF Init
<1>2. I /\ [Next]_vars => I'
  <2>1. Lifecycle!LifecycleInvariant /\ UNCHANGED LifecycleVars => Lifecycle!LifecycleInvariant'
    BY LifecycleSame DEF LifecycleVars
  <2> QED BY <2>1, StepOfPart, LifecycleNextKeeps
<1> QED BY <1>1, <1>2, PTL DEF Spec

LEMMA EditsHolds == Spec => [](part = "edits" => Edits!EditsInvariant)
<1> DEFINE I == part = "edits" => Edits!EditsInvariant
<1>1. Init => I
  BY EditsInit DEF Init
<1>2. I /\ [Next]_vars => I'
  <2>1. Edits!EditsInvariant /\ UNCHANGED EditsVars => Edits!EditsInvariant'
    BY DEF EditsVars, Edits!EditsInvariant, Edits!TypeOK, Edits!FlagsTyped, Edits!ProbedInvariant
  <2> QED BY <2>1, StepOfPart, EditsNextKeeps
<1> QED BY <1>1, <1>2, PTL DEF Spec

LEMMA SettingsHolds == Spec => [](part = "settings" => Settings!SettingsInvariant)
<1> DEFINE I == part = "settings" => Settings!SettingsInvariant
<1>1. Init => I
  BY SettingsInit DEF Init
<1>2. I /\ [Next]_vars => I'
  <2>1. ASSUME Settings!SettingsInvariant, UNCHANGED SettingsVars PROVE Settings!SettingsInvariant'
    <3> USE <2>1 DEF SettingsVars, Settings!SettingsInvariant
    <3>1. Settings!SettingsTyped' /\ Settings!PipelineInvariant'
      <4>1. Settings!SettingsTyped'
        BY ZenonT(120) DEF Settings!SettingsTyped
      <4>2. Settings!PipelineInvariant'
        BY DEF Settings!PipelineInvariant
      <4> QED BY <4>1, <4>2
    <3>2. Settings!FileInvariant'
      BY DEF Settings!FileInvariant, Settings!Agrees, Settings!Baseline, Settings!Follows,
             Settings!NewConfig, Settings!ToConfig
    <3>3. Settings!TestedInvariant'
      BY DEF Settings!TestedInvariant, Settings!UntestedNeverActive, Settings!TestedContents,
             Settings!TestedItem, Settings!Load, Settings!Overridden
    <3>4. Settings!TimerInvariant'
      BY TimerStays
    <3> QED BY <3>1, <3>2, <3>3, <3>4
  <2> QED BY <2>1, StepOfPart, SettingsNextKeeps
<1> QED BY <1>1, <1>2, PTL DEF Spec

\* However many workers decode, publish and delete, and wherever the shutdown meets
\* them: one publisher at a time, nothing accepted is refused or forgotten, what a
\* publisher deleted is in the apply queue, and applied once the gate is closed.
THEOREM PublicationsAreSafe == Spec => []PublicationIsSafe
<1>1. (part = "publication" => Pub!PublicationInvariant) => PublicationIsSafe
  BY PublicationSafe DEF PublicationIsSafe
<1> QED BY <1>1, PublicationHolds, PTL

\* However many retired watchers and threads that stop them there are: no watcher is
\* stopped by two threads, or again after a stop that succeeded.
THEOREM RetiredStopsOnce == Spec => []StoppedOnce
<1>1. (part = "retired" => Retired!StopInvariant) => StoppedOnce
  BY DEF StoppedOnce, Retired!StoppedOnce, Retired!StopInvariant
<1> QED BY <1>1, RetiredHolds, PTL

\* However settings are submitted, superseded, rolled back and repaired, and whatever of
\* it fails: an idle pipeline leaves a file that loads what the runtime follows, credentials
\* in use were tested, the dialog saves probed folders only, and no exit timer outlives
\* the sync.
THEOREM SettingsFollow == Spec => []SettingsAreSound
<1> DEFINE I == /\ part = "settings" => Settings!SettingsInvariant
                /\ part = "edits" => Edits!EditsInvariant
<1>1. I => SettingsAreSound
  BY SettingsSound DEF SettingsAreSound, Edits!EditsInvariant, Edits!ProbedInvariant, Edits!OnlyProbedFolders
<1>2. Spec => []I
  BY SettingsHolds, EditsHolds, PTL
<1> QED BY <1>1, <1>2, PTL

\* However many programs and helpers start, end and crash around the game: while the sync
\* is on, one of them serves the user, or the case is one the code cannot tell.
THEOREM SomebodyServes == Spec => []NobodyLeftBehind
<1>1. (part = "lifecycle" => Lifecycle!LifecycleInvariant) => NobodyLeftBehind
  BY DEF NobodyLeftBehind, Lifecycle!LifecycleInvariant
<1> QED BY <1>1, LifecycleHolds, PTL

\* However many checks, downloads and installers overlap the requests to quit: a
\* cancelled attempt starts no installer, none is interrupted, and one that runs is
\* watched.
THEOREM UpdatesAreSafe == Spec => []UpdateIsSafe
<1>1. (part = "update" => Update!UpdateInvariant) => UpdateIsSafe
  <2> SUFFICES ASSUME Update!UpdateInvariant
               PROVE  Update!TypeOK /\ Update!CancelHolds /\ Update!NotInterrupted
                      /\ Update!InstallerWatched
    BY DEF UpdateIsSafe
  <2> USE DEF Update!UpdateInvariant
  <2>1. Update!TypeOK
    <3>1. updating \in BOOLEAN /\ handoff \in BOOLEAN
      OBVIOUS
    <3> QED BY <3>1 DEF Update!TypeOK, Update!UpdateTyped, Update!GateInvariant
  <2>2. Update!CancelHolds
    BY DEF Update!CancelHolds, Update!AttemptInvariant
  <2>3. Update!NotInterrupted
    BY DEF Update!NotInterrupted, Update!AttemptInvariant, Update!AtWork
  <2>4. Update!InstallerWatched
    BY DEF Update!InstallerWatched, Update!AttemptInvariant
  <2> QED BY <2>1, <2>2, <2>3, <2>4
<1> QED BY <1>1, UpdateHolds, PTL

\* However often the user changes their mind while older saves and the delivery
\* are under way: the file holds the choice that was settled last.
THEOREM UsageFileHoldsTheChoice == Spec => []FileHoldsTheChoice
<1>1. (part = "usage" => Usage!UsageInvariant) => FileHoldsTheChoice
  <2> SUFFICES ASSUME Usage!UsageInvariant PROVE Usage!FileHoldsTheChoice /\ Usage!TypeOK
    BY DEF FileHoldsTheChoice
  <2>1. Usage!FileHoldsTheChoice
    BY DEF Usage!UsageInvariant, Usage!UsageFlags, Usage!ChoiceInvariant, Usage!Enabling,
           Usage!FileHoldsTheChoice
  <2>2. Usage!TypeOK
    BY DEF Usage!UsageInvariant, Usage!QueueInvariant, Usage!ChoiceInvariant, Usage!TypeOK
  <2> QED BY <2>1, <2>2
<1> QED BY <1>1, UsageHolds, PTL

\* No stop of a watcher begins once the budget is used up.
LEMMA StopsBeginInTime ==
  ASSUME Retired!StopInvariant, [Retired!Next]_RetiredVars
  PROVE  Retired!BeginsInTime
<1> SUFFICES ASSUME NEW t \in Retired!Threads, deadline = "past", retiredPc[t] # "stopping"
             PROVE  retiredPc'[t] # "stopping"
  BY DEF Retired!BeginsInTime
<1> USE RetiredAssumption DEF Retired!WatcherAssumption, Retired!StopInvariant, Retired!To, Retired!Ends,
       Retired!shutdown, Retired!thread, Retired!Threads
<1>1. ASSUME NEW w \in Watchers, Retired!Retire(w) PROVE retiredPc'[t] # "stopping"
  BY <1>1 DEF Retired!Retire
<1>2. ASSUME NEW u \in Retired!Threads, Retired!StopOne(u) PROVE retiredPc'[t] # "stopping"
  <2>1. CASE Retired!StopBegin(u)
    BY <2>1 DEF Retired!StopBegin
  <2>2. CASE Retired!Acquire(u)
    BY <2>2 DEF Retired!Acquire
  <2>3. CASE Retired!TimesOut(u)
    BY <2>3 DEF Retired!TimesOut
  <2>4. CASE Retired!Check(u)
    BY <2>4 DEF Retired!Check, Retired!OutOfBudget
  <2>5. CASE Retired!Stop(u)
    BY <2>5 DEF Retired!Stop
  <2> QED BY <1>2, <2>1, <2>2, <2>3, <2>4, <2>5 DEF Retired!StopOne
<1>3. CASE Retired!StopAll
  BY <1>3 DEF Retired!StopAll
<1>4. CASE Retired!List
  BY <1>4 DEF Retired!List
<1>5. CASE Retired!NextOne
  BY <1>5 DEF Retired!NextOne
<1>6. CASE Retired!Passes \/ Retired!StopAllReturns \/ UNCHANGED RetiredVars
  BY <1>6 DEF Retired!Passes, Retired!StopAllReturns, RetiredVars
<1> QED BY <1>1, <1>2, <1>3, <1>4, <1>5, <1>6 DEF Retired!Next

\* Nothing is handed to the transport without the consent of the moment.
LEMMA ReportsHaveConsent ==
  ASSUME Usage!UsageInvariant, [Usage!Next]_UsageVars
  PROVE  Usage!ReportsWithConsent
<1>1. delivery \in Usage!Delivery /\ Usage!DeliveryInvariant
  BY DEF Usage!UsageInvariant
<1>2. Usage!Idle.stage = "idle"
  BY DEF Usage!Idle
<1>3. CASE UNCHANGED delivery
  BY <1>3 DEF Usage!ReportsWithConsent
<1>4. CASE delivery' = Usage!Idle
  BY <1>2, <1>4 DEF Usage!ReportsWithConsent
<1>5. ASSUME NEW q \in usageQueue, Usage!Take(q) PROVE delivery' = delivery \/ delivery'.stage = "prepare"
  BY <1>5 DEF Usage!Take, Usage!Idle
<1>6. CASE Usage!Prepare
  <2>1. \/ delivery' = Usage!Idle
        \/ delivery' = [delivery EXCEPT !.stage = "deliver", !.identity = identity']
    BY <1>6 DEF Usage!Prepare, Usage!Ends
  <2> QED BY <1>1, <1>4, <2>1 DEF Usage!ReportsWithConsent, Usage!Delivery
<1>7. CASE Usage!HandOver
  <2>1. CASE delivery' = [delivery EXCEPT !.stage = "flight"] /\ delivery.stage = "deliver"
             /\ delivery.generation = generation
    <3>1. consent /\ delivery.identity = period
      BY <1>1, <2>1 DEF Usage!DeliveryInvariant
    <3> QED BY <3>1 DEF Usage!ReportsWithConsent
  <2> QED BY <1>7, <1>4, <2>1 DEF Usage!HandOver, Usage!Ends, Usage!StillCurrent, Usage!IsCurrent, Usage!Stage
<1>8. CASE Usage!Answered
  <2>1. \/ delivery' = Usage!Idle
        \/ delivery' = [delivery EXCEPT !.stage = "mark"]
        \/ delivery' = [delivery EXCEPT !.stage = "deliver", !.tries = @ + 1]
    BY <1>8 DEF Usage!Answered, Usage!Ends
  <2> QED BY <1>1, <1>4, <2>1 DEF Usage!ReportsWithConsent, Usage!Delivery
<1>9. CASE Usage!Mark
  BY <1>9, <1>4 DEF Usage!Mark, Usage!Ends
<1>10. CASE Usage!SaveFails \/ Usage!Restart
  BY <1>10, <1>4 DEF Usage!SaveFails, Usage!Restart
<1>11. CASE Usage!Toggle \/ Usage!ToggleFails \/ Usage!close \/ UNCHANGED UsageVars
  BY <1>11, <1>3 DEF Usage!Toggle, Usage!ToggleFails, Usage!close, UsageVars
<1>12. ASSUME NEW e \in Events, Usage!Record(e) PROVE UNCHANGED delivery
  BY <1>12 DEF Usage!Record
<1>13. ASSUME NEW w \in writers, Usage!TakeLock(w) \/ Usage!Publish(w) \/ Usage!Settle(w) \/ Usage!Enable(w)
                                 \/ Usage!PublishFails(w)
       PROVE UNCHANGED delivery
  BY <1>13 DEF Usage!TakeLock, Usage!Publish, Usage!Settle, Usage!Enable, Usage!PublishFails,
               Usage!Client, Usage!Rest
<1>14. CASE \E q \in usageQueue : Usage!Take(q)
  BY <1>14, <1>5 DEF Usage!ReportsWithConsent
<1> QED BY <1>3, <1>6, <1>7, <1>8, <1>9, <1>10, <1>11, <1>12, <1>13, <1>14
        DEF Usage!Next, Usage!Writer, Usage!Delivers

\* No timeout is reported after a newer snapshot, no stop begins past the shutdown's
\* budget, and nothing is sent after the user opted out.
THEOREM NothingComesTooLate == Spec => NothingTooLate
<1> DEFINE I == /\ part = "publication" => Pub!PublicationInvariant
                /\ part = "retired" => Retired!StopInvariant
                /\ part = "usage" => Usage!UsageInvariant
           A == /\ part = "publication" => Pub!TimeoutInOrder
                /\ part = "retired" => Retired!BeginsInTime
                /\ part = "usage" => Usage!ReportsWithConsent
<1>1. I /\ [Next]_vars => A
  BY StepOfPart, TimeoutsInOrder, StopsBeginInTime, ReportsHaveConsent
<1>2. Spec => []I
  BY PublicationHolds, RetiredHolds, UsageHolds, PTL
<1>3. Spec => [][A]_vars
  BY <1>1, <1>2, PTL DEF Spec
<1> QED BY <1>3 DEF NothingTooLate
=============================================================================
