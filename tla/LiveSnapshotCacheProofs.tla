------------------------ MODULE LiveSnapshotCacheProofs ------------------------
(***************************************************************************)
(* Proof that what LiveSnapshotCache leaves in the file is sound, for      *)
(* every value of its constants: CacheInvariant is inductive and implies   *)
(* CacheIsSound.                                                           *)
(***************************************************************************)
EXTENDS LiveSnapshotCache, TLAPS

-----------------------------------------------------------------------------
(* Operations and their effect. *)

LEMMA OperationTypes ==
    /\ NoOperation \in Operation
    /\ \A n \in 0..MaxStamp : Clear(n) \in Operation /\ OperationsOf(n) \subseteq Operation
<1>1. NoOperation \in Operation
    BY BoundAssumption DEF NoOperation, Operation, Names
<1>2. ASSUME NEW n \in 0..MaxStamp
      PROVE  Clear(n) \in Operation /\ OperationsOf(n) \subseteq Operation
    BY <1>1, <1>2 DEF Clear, NoOperation, OperationsOf, Operation, Checks, Names
<1> QED BY <1>1, <1>2

LEMMA ClearFields ==
    ASSUME NEW n
    PROVE  Clear(n).kind = "clear" /\ Clear(n).stamp = n
    BY DEF Clear, NoOperation

LEMMA NewOperations ==
    ASSUME NEW n, NEW op \in OperationsOf(n)
    PROVE  op.kind \in {"save", "clear"} \cup Checks /\ op.stamp = n
    BY ClearFields DEF OperationsOf, Checks

LEMMA NoOperationFields ==
    /\ NoOperation.kind = "none" /\ NoOperation.stamp = 0 /\ NoFile = NoOperation
    BY DEF NoOperation, NoFile

LEMMA EffectType ==
    ASSUME NEW op \in Operation, NEW file \in Operation
    PROVE  Effect(op, file) \in Operation
    BY OperationTypes, NoOperationFields DEF Effect

\* A save is what it saves, a clear empties the file and a check keeps it or empties it.
LEMMA EffectOfSave ==
    ASSUME NEW op, NEW file, op.kind = "save"
    PROVE  Effect(op, file) = op
    BY DEF Effect
LEMMA EffectOfClear ==
    ASSUME NEW op, NEW file, op.kind = "clear"
    PROVE  Effect(op, file) = NoFile
    BY DEF Effect
LEMMA EffectOfNone ==
    ASSUME NEW op, NEW file, op.kind = "none"
    PROVE  Effect(op, file) = file
    BY DEF Effect
LEMMA EffectOfCheck ==
    ASSUME NEW op, NEW file, op.kind \in Checks
    PROVE  /\ Effect(op, file) \in {NoFile, file}
           /\ Effect(op, NoFile) = NoFile
           /\ Effect(op, Effect(op, file)) = Effect(op, file)
    BY DEF Effect, Checks

\* A check looks at the producer only.
LEMMA EffectOfCheckAgrees ==
    ASSUME NEW op, op.kind \in Checks, NEW f, NEW g, SameContent(f, g)
    PROVE  \/ Effect(op, f) = f /\ Effect(op, g) = g
           \/ Effect(op, f) = NoFile /\ Effect(op, g) = NoFile
    BY DEF Effect, SameContent, Checks

LEMMA EffectOfSameCheck ==
    ASSUME NEW p, NEW q, NEW file, p.kind \in Checks, p.kind = q.kind, p.producer = q.producer
    PROVE  Effect(p, file) = Effect(q, file)
    BY DEF Effect, Checks

LEMMA SameContentFacts ==
    /\ \A f : f.kind = "save" => SameContent(f, f)
    /\ \A f, g : SameContent(f, g) => SameContent(g, f) /\ f.kind = "save" /\ g.kind = "save"
    /\ \A f, g, h : SameContent(f, g) /\ SameContent(g, h) => SameContent(f, h)
    BY DEF SameContent

-----------------------------------------------------------------------------
(* What actions do to what is pending and under way. *)

\* The pending operation is taken by whoever gets the write lock.
IoTaken ==
    /\ WriteLockFree /\ pending.kind # "none" /\ pending' = NoOperation
    /\ \E owner \in {"timer", "closer"} : io' = Io(owner, pending, generation)
    /\ UNCHANGED <<disk, kept, latest, lastSaved, generation, gui, settings, restored, stamp,
                   historyVars, barrier>>

\* An operation ends; one that failed goes back unless something overtook it.
IoEnds ==
    /\ io.phase \in {"done", "failed"} /\ io' = NoIo
    /\ \/ pending' = pending /\ (Due => pending.kind # "none")
       \/ pending' = io.op /\ pending.kind = "none" /\ Due
    /\ UNCHANGED <<disk, kept, latest, generation, settings, restored, stamp, historyVars>>

\* Actions that leave alone what the file depends on.
Quiet ==
    /\ UNCHANGED <<disk, kept, writerVars, restored, historyVars, barrier>>
    /\ settings' = settings \/ (settings' = "wiping" /\ io.phase = "none")
    /\ \/ UNCHANGED io
       \/ io.phase = "failed" /\ io' = [io EXCEPT !.phase = "io"]

LEMMA RequeueFacts ==
    ASSUME Requeue(io.op, io.generation), io.phase = "failed"
    PROVE  \/ pending' = pending /\ (Due => pending.kind # "none")
           \/ pending' = io.op /\ pending.kind = "none" /\ Due
    BY DEF Requeue, Due, Current

LEMMA EndFlushEnds == EndFlush => IoEnds /\ io.owner = "timer"
<1> SUFFICES ASSUME EndFlush PROVE IoEnds /\ io.owner = "timer"
    OBVIOUS
<1>1. CASE io.phase = "done"
    BY <1>1 DEF EndFlush, IoEnds, Due, historyVars
<1>2. CASE io.phase = "failed"
    BY <1>2, RequeueFacts DEF EndFlush, IoEnds, historyVars
<1> QED BY <1>1, <1>2 DEF EndFlush

LEMMA EndClearEnds == EndClear => IoEnds /\ io.owner = "gui"
<1> SUFFICES ASSUME EndClear PROVE IoEnds /\ io.owner = "gui"
    OBVIOUS
<1>1. CASE io.phase = "done"
    BY <1>1 DEF EndClear, IoEnds, Due, historyVars
<1>2. CASE io.phase = "failed"
    BY <1>2, RequeueFacts DEF EndClear, IoEnds, historyVars
<1> QED BY <1>1, <1>2 DEF EndClear

LEMMA CloserEndsCases == CloserEnds => io.owner = "closer" /\ (IoEnds \/ Quiet)
<1> SUFFICES ASSUME CloserEnds PROVE io.owner = "closer" /\ (IoEnds \/ Quiet)
    OBVIOUS
<1>1. CASE io.phase = "done"
    BY <1>1 DEF CloserEnds, IoEnds, Due, historyVars
<1>2. CASE io.phase = "failed" /\ io' = [io EXCEPT !.phase = "io"]
             /\ UNCHANGED <<pending, lastSaved>>
    BY <1>2 DEF CloserEnds, Quiet, writerVars, historyVars
<1>3. CASE io.phase = "failed" /\ Requeue(io.op, io.generation) /\ io' = NoIo
    BY <1>3, RequeueFacts DEF CloserEnds, IoEnds, historyVars
<1> QED BY <1>1, <1>2, <1>3 DEF CloserEnds

LEMMA BeginFlushCases == BeginFlush => IoTaken \/ Quiet
<1> SUFFICES ASSUME BeginFlush PROVE IoTaken \/ Quiet
    OBVIOUS
<1>1. CASE Closing \/ pending.kind = "none"
    BY <1>1 DEF BeginFlush, Quiet, writerVars, historyVars
<1>2. CASE ~(Closing \/ pending.kind = "none")
    BY <1>2 DEF BeginFlush, IoTaken, historyVars
<1> QED BY <1>1, <1>2

LEMMA CloserBeginsCases == CloserBegins => IoTaken \/ Quiet
    BY DEF CloserBegins, IoTaken, Quiet, writerVars, historyVars

LEMMA QuietActions ==
    ASSUME BeginSubmit \/ FireTimer \/ EndInvalidate \/ RequestClose \/ Close
    PROVE  Quiet
    BY DEF BeginSubmit, FireTimer, EndInvalidate, RequestClose, Close, StartCloser,
           CloseWithoutWorker, JoinCloser, Quiet, InFlightDone, WriteLockFree, writerVars,
           closeVars, historyVars
-----------------------------------------------------------------------------
(* The types. *)

FileType == disk \in Operation /\ intended \in Operation
QueueType == pending \in Operation /\ latest \in Operation /\ lastSaved \in Operation
IoType == io \in [phase : {"none", "io", "done", "failed"},
                  owner : {"none", "timer", "gui", "closer"},
                  op : Operation, generation : 0..MaxGeneration]
GuiType == gui \in [call : {"none", "submit", "clear", "close", "join"}, op : Operation,
                    generation : 0..MaxGeneration]
CountType == /\ generation \in 0..MaxGeneration /\ waiting \in 0..2 /\ tries \in 0..2
             /\ restored \in 0..MaxStamp /\ stamp \in 0..MaxStamp /\ barrier \in 0..MaxStamp
             /\ kept \in 0..MaxStamp /\ left \in 0..MaxEvents
PlaceType == /\ timer \in {"off", "armed", "fired"}
             /\ settings \in {"idle", "waiting", "wiping"}
             /\ closer \in {"none", "waiting", "trying", "dead"}
             /\ closeReturned \in {"none", "true", "false"}
FlagType == /\ closeRequested \in BOOLEAN /\ closed \in BOOLEAN /\ closeResult \in BOOLEAN
            /\ superseded \in BOOLEAN /\ wiped \in BOOLEAN /\ stranded \in BOOLEAN

LEMMA TypeParts ==
    TypeOK <=> /\ FileType /\ QueueType /\ IoType /\ GuiType /\ CountType
               /\ PlaceType /\ FlagType
    BY DEF TypeOK, FileType, QueueType, IoType, GuiType, CountType, PlaceType, FlagType

LEMMA ScheduleTypes ==
    ASSUME Schedule \/ UNCHANGED <<timerVars, left>> \/ (CancelTimer /\ UNCHANGED left),
           timer \in {"off", "armed", "fired"}, stranded \in BOOLEAN, left \in 0..MaxEvents
    PROVE  /\ timer' \in {"off", "armed", "fired"} /\ stranded' \in BOOLEAN
           /\ left' \in 0..MaxEvents
<1>1. timer' \in {"off", "armed", "fired"}
    BY DEF Schedule, timerVars, CancelTimer
<1>2. stranded' \in BOOLEAN
    BY DEF Schedule, timerVars, CancelTimer
<1>3. left' \in 0..MaxEvents
    BY BoundAssumption DEF Schedule, timerVars, OneEvent
<1> QED BY <1>1, <1>2, <1>3

LEMMA IoRecords ==
    ASSUME NEW op \in Operation, NEW owner \in {"timer", "gui", "closer"},
           NEW g \in 0..MaxGeneration
    PROVE  Io(owner, op, g) \in [phase : {"none", "io", "done", "failed"},
                                 owner : {"none", "timer", "gui", "closer"},
                                 op : Operation, generation : 0..MaxGeneration]
    BY DEF Io

LEMMA CoalescedType ==
    ASSUME NEW op \in Operation
    PROVE  Coalesced(op) \in Operation
<1>1. op.stamp \in 0..MaxStamp
    BY DEF Operation
<1> QED BY <1>1, OperationTypes DEF Coalesced

LEMMA RequeueTypes ==
    ASSUME TypeOK, Requeue(io.op, io.generation)
    PROVE  /\ pending' \in Operation /\ timer' \in {"off", "armed", "fired"}
           /\ stranded' \in BOOLEAN /\ left' \in 0..MaxEvents
<1>1. FileType /\ QueueType /\ IoType /\ GuiType /\ CountType /\ PlaceType /\ FlagType
    BY TypeParts
<1>2. Schedule \/ UNCHANGED <<timerVars, left>>
    BY DEF Requeue
<1>3. pending' \in Operation
    BY <1>1 DEF Requeue, QueueType, IoType
<1> QED BY <1>1, <1>2, <1>3, ScheduleTypes DEF PlaceType, FlagType, CountType

LEMMA RecordTypes ==
    ASSUME TypeOK, Record(io.op, io.generation)
    PROVE  lastSaved' \in Operation
    BY OperationTypes, TypeParts DEF Record, QueueType, IoType

\* The operation that is under way has ended.
LEMMA EndTypes ==
    ASSUME TypeOK,
           \/ Record(io.op, io.generation) /\ UNCHANGED <<pending, timerVars, left>>
           \/ Requeue(io.op, io.generation) /\ UNCHANGED lastSaved,
           io' = NoIo, UNCHANGED <<latest>>
    PROVE  /\ QueueType' /\ IoType' /\ timer' \in {"off", "armed", "fired"}
           /\ stranded' \in BOOLEAN /\ left' \in 0..MaxEvents
<1>1. FileType /\ QueueType /\ IoType /\ GuiType /\ CountType /\ PlaceType /\ FlagType
    BY TypeParts
<1>2. IoType'
    BY OperationTypes, BoundAssumption DEF IoType, NoIo
<1>3. CASE Record(io.op, io.generation) /\ UNCHANGED <<pending, timerVars, left>>
  <2>1. QueueType'
    BY <1>1, <1>3, RecordTypes DEF QueueType
  <2> QED BY <1>1, <1>2, <1>3, <2>1, ScheduleTypes DEF PlaceType, FlagType, CountType
<1>4. CASE Requeue(io.op, io.generation) /\ UNCHANGED lastSaved
  <2>1. QueueType'
    BY <1>1, <1>4, RequeueTypes DEF QueueType
  <2> QED BY <1>2, <1>4, <2>1, RequeueTypes
<1> QED BY <1>3, <1>4

LEMMA InitTypes == Init => TypeOK
<1> SUFFICES ASSUME Init PROVE TypeOK
    OBVIOUS
<1>1. 1 \in 0..MaxStamp
    BY BoundAssumption
<1>2. disk \in Operation
    BY <1>1, OperationTypes, NoOperationFields DEF Init
<1>3. FileType /\ QueueType
    BY <1>2, OperationTypes DEF Init, FileType, QueueType
<1>4. IoType
    BY OperationTypes, BoundAssumption DEF Init, IoType, NoIo
<1>5. GuiType
    BY OperationTypes, BoundAssumption DEF Init, GuiType, NoCall
<1>6. CountType
    BY <1>1, <1>2, BoundAssumption DEF Init, CountType, Operation
<1>7. PlaceType
    BY DEF Init, PlaceType
<1>8. FlagType
    BY DEF Init, FlagType
<1> QED BY <1>3, <1>4, <1>5, <1>6, <1>7, <1>8, TypeParts

LEMMA NextTypes ==
    ASSUME TypeOK, [Next]_vars
    PROVE  TypeOK'
<1>0. FileType /\ QueueType /\ IoType /\ GuiType /\ CountType /\ PlaceType /\ FlagType
    BY TypeParts
<1> SUFFICES /\ FileType' /\ QueueType' /\ IoType' /\ GuiType' /\ CountType'
             /\ PlaceType' /\ FlagType'
    BY DEF TypeOK, FileType, QueueType, IoType, GuiType, CountType, PlaceType, FlagType
<1> USE <1>0
<1>1. CASE BeginSubmit
  <2>1. stamp' \in 0..MaxStamp
    BY <1>1, BoundAssumption DEF BeginSubmit, CountType
  <2>2. GuiType'
    <3>1. PICK op \in OperationsOf(stamp') :
             gui' = [call |-> "submit", op |-> op, generation |-> generation]
      BY <1>1 DEF BeginSubmit
    <3>2. op \in Operation
      BY <2>1, OperationTypes
    <3>3. generation \in 0..MaxGeneration
      BY DEF CountType
    <3>4. [call |-> "submit", op |-> op, generation |-> generation]
            \in [call : {"none", "submit", "clear", "close", "join"}, op : Operation,
                 generation : 0..MaxGeneration]
      BY <3>2, <3>3
    <3> QED BY <3>1, <3>4 DEF GuiType
  <2>3. CountType'
    BY <1>1, <2>1 DEF BeginSubmit, CountType, writerVars, closeVars
  <2>4. FileType' /\ QueueType' /\ IoType' /\ PlaceType'
    BY <1>1 DEF BeginSubmit, FileType, QueueType, IoType, PlaceType, writerVars, historyVars,
       timerVars, closeVars
  <2>5. FlagType'
    BY <1>1 DEF BeginSubmit, FlagType, historyVars, timerVars, closeVars
  <2> QED BY <2>2, <2>3, <2>4, <2>5
<1>2. CASE CommitSubmit
  <2>1. gui.op \in Operation /\ Coalesced(gui.op) \in Operation
    BY CoalescedType DEF GuiType
  <2>2. pending' \in Operation /\ latest' \in Operation /\ intended' \in Operation
    BY <1>2, <2>1, EffectType DEF CommitSubmit, QueueType, FileType, historyVars
  <2>3. Schedule \/ UNCHANGED <<timerVars, left>>
    BY <1>2 DEF CommitSubmit
  <2>4. /\ timer' \in {"off", "armed", "fired"} /\ stranded' \in BOOLEAN
        /\ left' \in 0..MaxEvents
    BY <2>3, ScheduleTypes DEF PlaceType, FlagType, CountType
  <2>5. GuiType'
    BY <1>2, OperationTypes, BoundAssumption DEF CommitSubmit, NoCall, GuiType
  <2>6. superseded' \in BOOLEAN /\ wiped' \in BOOLEAN
    BY <1>2 DEF CommitSubmit, FlagType, historyVars
  <2>7. FileType' /\ QueueType'
    BY <1>2, <2>2 DEF CommitSubmit, FileType, QueueType
  <2>8. IoType' /\ CountType' /\ PlaceType'
    BY <1>2, <2>4 DEF CommitSubmit, IoType, CountType, PlaceType, closeVars
  <2>9. FlagType'
    BY <1>2, <2>4, <2>6 DEF CommitSubmit, FlagType, closeVars
  <2> QED BY <2>5, <2>7, <2>8, <2>9
<1>3. CASE BeginClear \/ Invalidate
  <2>1. NextGeneration
          /\ UNCHANGED <<disk, kept, waiting, closeVars, restored, stamp, wiped, barrier, left>>
    BY <1>3 DEF BeginClear, Invalidate
  <2>2. generation' \in 0..MaxGeneration
    BY <2>1, BoundAssumption DEF NextGeneration, CountType
  <2>3. Clear(stamp) \in Operation
    BY OperationTypes DEF CountType
  <2>4. latest' \in Operation
    BY <1>3, <2>3, OperationTypes DEF BeginClear, Invalidate
  <2>5. FileType' /\ QueueType'
    BY <2>1, <2>4, OperationTypes, NoOperationFields DEF NextGeneration, DropPending, FileType,
        QueueType
  <2>6. IoType'
    BY <1>3, <2>2, <2>3, IoRecords DEF BeginClear, Invalidate, IoType
  <2>7. GuiType'
    BY <1>3, OperationTypes, BoundAssumption DEF BeginClear, Invalidate, GuiType, NoCall
  <2>8. CountType'
    BY <2>1, <2>2 DEF CountType, closeVars
  <2>9. PlaceType'
    BY <1>3, <2>1 DEF BeginClear, Invalidate, NextGeneration, CancelTimer, PlaceType, closeVars
  <2>10. FlagType'
    BY <2>1 DEF NextGeneration, CancelTimer, FlagType, closeVars
  <2> QED BY <2>5, <2>6, <2>7, <2>8, <2>9, <2>10
<1>4. CASE EndClear \/ EndFlush
  <2>1. /\ QueueType' /\ IoType' /\ timer' \in {"off", "armed", "fired"}
        /\ stranded' \in BOOLEAN /\ left' \in 0..MaxEvents
    BY <1>4, EndTypes DEF EndClear, EndFlush
  <2>2. io.op.stamp \in 0..MaxStamp
    BY DEF IoType, Operation
  <2>3. barrier' \in 0..MaxStamp
    BY <1>4, <2>2 DEF EndClear, EndFlush, CountType
  <2>4. GuiType'
    BY <1>4, OperationTypes, BoundAssumption DEF EndClear, EndFlush, GuiType, NoCall
  <2>5. FileType'
    BY <1>4 DEF EndClear, EndFlush, FileType, historyVars
  <2>6. CountType' /\ PlaceType'
    BY <1>4, <2>1, <2>3 DEF EndClear, EndFlush, CountType, PlaceType, closeVars
  <2>7. FlagType'
    BY <1>4, <2>1 DEF EndClear, EndFlush, FlagType, closeVars, historyVars
  <2> QED BY <2>1, <2>4, <2>5, <2>6, <2>7
<1>5. CASE FireTimer
  <2>1. FileType' /\ QueueType' /\ IoType' /\ GuiType' /\ CountType' /\ PlaceType'
    BY <1>5 DEF FireTimer, FileType, QueueType, IoType, GuiType, CountType, PlaceType,
       writerVars, historyVars, closeVars
  <2>2. FlagType'
    BY <1>5 DEF FireTimer, FlagType, closeVars, historyVars
  <2> QED BY <2>1, <2>2
<1>6. CASE BeginFlush
  <2>1. IoType'
    <3>1. io' = io \/ io' = Io("timer", pending, generation)
      BY <1>6 DEF BeginFlush
    <3>2. Io("timer", pending, generation) \in [phase : {"none", "io", "done", "failed"},
                                           owner : {"none", "timer", "gui", "closer"},
                                           op : Operation, generation : 0..MaxGeneration]
      BY IoRecords DEF QueueType, CountType
    <3> QED BY <3>1, <3>2 DEF IoType
  <2>2. FileType' /\ QueueType' /\ GuiType' /\ CountType' /\ PlaceType'
    BY <1>6, OperationTypes DEF BeginFlush, FileType, QueueType, GuiType, CountType, PlaceType,
       historyVars, closeVars, CancelTimer
  <2>3. FlagType'
    BY <1>6 DEF BeginFlush, FlagType, closeVars, historyVars, CancelTimer
  <2> QED BY <2>1, <2>2, <2>3
<1>7. CASE PerformIo
  <2>1. disk' \in Operation
    BY <1>7, EffectType, OperationTypes
    DEF PerformIo, Performed, Unchecked, Outdated, FileType, IoType, NoFile
  <2>2. IoType'
    BY <1>7 DEF PerformIo, IoType
  <2>3. left' \in 0..MaxEvents /\ kept' \in 0..MaxStamp
    <3>1. disk.stamp \in 0..MaxStamp
      BY DEF FileType, Operation
    <3> QED BY <1>7, <3>1, BoundAssumption
            DEF PerformIo, Performed, Unchecked, Outdated, OneEvent, CountType
  <2>4. FileType' /\ QueueType' /\ GuiType' /\ CountType' /\ PlaceType'
    BY <1>7, <2>1, <2>3 DEF PerformIo, FileType, QueueType, GuiType, CountType, PlaceType,
       writerVars, timerVars, historyVars, closeVars
  <2>5. FlagType'
    BY <1>7 DEF PerformIo, FlagType, closeVars, historyVars, timerVars
  <2> QED BY <2>2, <2>4, <2>5
<1>8. CASE EndInvalidate \/ Wipe
  <2>1. FileType' /\ QueueType' /\ IoType' /\ GuiType' /\ CountType' /\ PlaceType'
    BY <1>8, OperationTypes, NoOperationFields DEF EndInvalidate, Wipe, FileType, QueueType,
        IoType,
       GuiType, CountType, PlaceType, writerVars, historyVars, closeVars, timerVars
  <2>2. FlagType'
    BY <1>8 DEF EndInvalidate, Wipe, FlagType, closeVars, historyVars, timerVars
  <2> QED BY <2>1, <2>2
<1>9. CASE RequestClose
  <2>1. GuiType'
    BY <1>9, OperationTypes, BoundAssumption DEF RequestClose, GuiType, NoCall
  <2>2. left' \in 0..MaxEvents
    BY <1>9, BoundAssumption DEF RequestClose, OneEvent, CountType
  <2>3. FileType' /\ QueueType' /\ IoType' /\ CountType' /\ PlaceType'
    BY <1>9, <2>2 DEF RequestClose, FileType, QueueType, IoType, CountType, PlaceType,
       writerVars, timerVars, historyVars
  <2>4. FlagType'
    BY <1>9 DEF RequestClose, FlagType, historyVars, timerVars
  <2> QED BY <2>1, <2>3, <2>4
<1>10. CASE StartCloser
  <2>1. GuiType'
    BY <1>10, OperationTypes, BoundAssumption DEF StartCloser, Return, GuiType, NoCall
  <2>2. closer' \in {"none", "waiting", "trying", "dead"}
          /\ closeReturned' \in {"none", "true", "false"}
    BY <1>10 DEF StartCloser, Return, PlaceType
  <2>3. closed' \in BOOLEAN /\ closeResult' \in BOOLEAN
    BY <1>10 DEF StartCloser, FlagType
  <2>4. FileType' /\ QueueType' /\ IoType'
    BY <1>10 DEF StartCloser, FileType, QueueType, IoType, writerVars, historyVars
  <2>5. CountType'
    BY <1>10 DEF StartCloser, CountType, writerVars
  <2>6. PlaceType'
    BY <1>10, <2>2 DEF StartCloser, PlaceType, timerVars, CancelTimer
  <2>7. FlagType'
    BY <1>10, <2>3 DEF StartCloser, FlagType, timerVars, CancelTimer, historyVars
  <2> QED BY <2>1, <2>4, <2>5, <2>6, <2>7
<1>11. CASE CloseWithoutWorker \/ JoinCloser
  <2>1. GuiType'
    BY <1>11, OperationTypes, BoundAssumption DEF CloseWithoutWorker, JoinCloser, Return,
        GuiType, NoCall
  <2>2. closeReturned' \in {"none", "true", "false"}
    BY <1>11 DEF CloseWithoutWorker, JoinCloser, Return, PlaceType
  <2>3. closed' \in BOOLEAN
    BY <1>11 DEF CloseWithoutWorker, JoinCloser, FlagType
  <2>4. FileType' /\ QueueType' /\ IoType' /\ CountType'
    BY <1>11 DEF CloseWithoutWorker, JoinCloser, FileType, QueueType, IoType, CountType,
        writerVars, historyVars
  <2>5. PlaceType'
    BY <1>11, <2>2 DEF CloseWithoutWorker, JoinCloser, PlaceType, timerVars, CancelTimer
  <2>6. FlagType'
    BY <1>11, <2>3 DEF CloseWithoutWorker, JoinCloser, FlagType, timerVars, CancelTimer,
        historyVars
  <2> QED BY <2>1, <2>4, <2>5, <2>6
<1>12. CASE CloserBegins
  <2>1. IoType'
    <3>1. io' = io \/ io' = Io("closer", pending, generation)
      BY <1>12 DEF CloserBegins
    <3>2. Io("closer", pending, generation) \in [phase : {"none", "io", "done", "failed"},
                                           owner : {"none", "timer", "gui", "closer"},
                                           op : Operation, generation : 0..MaxGeneration]
      BY IoRecords DEF QueueType, CountType
    <3> QED BY <3>1, <3>2 DEF IoType
  <2>2. QueueType'
    BY <1>12, OperationTypes DEF CloserBegins, QueueType
  <2>3. FileType' /\ GuiType' /\ CountType' /\ PlaceType'
    BY <1>12 DEF CloserBegins, FileType, GuiType, CountType, PlaceType, historyVars, timerVars
  <2>4. FlagType'
    BY <1>12 DEF CloserBegins, FlagType, historyVars, timerVars
  <2> QED BY <2>1, <2>2, <2>3, <2>4
<1>13. CASE CloserEnds
  <2>1. FileType' /\ GuiType'
    BY <1>13 DEF CloserEnds, FileType, GuiType, historyVars
  <2>2. CASE io.phase = "failed" /\ MayRetry /\ tries' = tries + 1
               /\ io' = [io EXCEPT !.phase = "io"]
             /\ UNCHANGED <<pending, timerVars, lastSaved, closer, closeResult, left>>
    <3>1. IoType' /\ QueueType'
      BY <1>13, <2>2 DEF CloserEnds, IoType, QueueType
    <3>2. CountType'
      BY <1>13, <2>2 DEF CloserEnds, CountType, MayRetry
    <3>3. PlaceType' /\ FlagType'
      BY <1>13, <2>2 DEF CloserEnds, PlaceType, FlagType, timerVars, historyVars
    <3> QED BY <2>1, <3>1, <3>2, <3>3
  <2>3. CASE /\ \/ Record(io.op, io.generation) /\ UNCHANGED <<pending, timerVars, left>>
                \/ Requeue(io.op, io.generation) /\ UNCHANGED lastSaved
             /\ io' = NoIo /\ closer' = "dead" /\ closeResult' \in BOOLEAN /\ tries' = tries
    <3>1. /\ QueueType' /\ IoType' /\ timer' \in {"off", "armed", "fired"}
          /\ stranded' \in BOOLEAN /\ left' \in 0..MaxEvents
      BY <1>13, <2>3, EndTypes DEF CloserEnds
    <3>2. CountType' /\ PlaceType'
      BY <1>13, <2>3, <3>1 DEF CloserEnds, CountType, PlaceType
    <3>3. FlagType'
      BY <1>13, <2>3, <3>1 DEF CloserEnds, FlagType, historyVars
    <3> QED BY <2>1, <3>1, <3>2, <3>3
  <2> QED BY <1>13, <2>2, <2>3 DEF CloserEnds, ResultAfterFailure
<1>14. CASE Restart
  <2>1. disk' \in Operation
    BY <1>14, OperationTypes, NoOperationFields DEF Restart, FileType
  <2>2. left' \in 0..MaxEvents
    BY <1>14, BoundAssumption DEF Restart, OneEvent, CountType
  <2>3. restored' \in 0..MaxStamp
    <3>1. disk'.stamp \in 0..MaxStamp /\ 0 \in 0..MaxStamp
      BY <2>1, BoundAssumption DEF Operation
    <3> QED BY <1>14, <3>1 DEF Restart
  <2>4. FileType' /\ QueueType'
    BY <1>14, <2>1, OperationTypes DEF Restart, FileType, QueueType
  <2>5. IoType' /\ GuiType'
    BY <1>14, OperationTypes, BoundAssumption DEF Restart, IoType, GuiType, NoIo, NoCall
  <2>6. CountType'
    BY <1>14, <2>2, <2>3, BoundAssumption DEF Restart, CountType
  <2>7. PlaceType' /\ FlagType'
    BY <1>14 DEF Restart, PlaceType, FlagType
  <2> QED BY <2>4, <2>5, <2>6, <2>7
<1>15. CASE ExpireRestored
  <2>1. FileType'
    BY <1>15, OperationTypes, NoOperationFields DEF ExpireRestored, FileType
  <2>2. QueueType' /\ IoType' /\ GuiType' /\ PlaceType'
    BY <1>15 DEF ExpireRestored, QueueType, IoType, GuiType, PlaceType, writerVars, timerVars,
        closeVars
  <2>3. CountType'
    <3>1. disk.stamp \in 0..MaxStamp
      BY DEF FileType, Operation
    <3> QED BY <1>15, <3>1, BoundAssumption
            DEF ExpireRestored, OneEvent, CountType, writerVars, closeVars
  <2>4. FlagType'
    BY <1>15 DEF ExpireRestored, FlagType, timerVars, closeVars
  <2> QED BY <2>1, <2>2, <2>3, <2>4
<1>16. CASE UNCHANGED vars
  BY <1>16 DEF vars, FileType, QueueType, IoType, GuiType, CountType, PlaceType, FlagType,
     writerVars, timerVars, closeVars, historyVars
<1> QED BY <1>1, <1>2, <1>3, <1>4, <1>5, <1>6, <1>7, <1>8, <1>9, <1>10, <1>11, <1>12, <1>13,
           <1>14, <1>15, <1>16 DEF Next, Flush, ClearCacheDir, Close, CloseWorker
-----------------------------------------------------------------------------
(* The invariant holds at first and after a restart. *)

\* A session begins: nothing is pending, under way or promised.
FreshSession ==
    /\ pending = NoOperation /\ latest = NoOperation /\ io = NoIo /\ gui = NoCall
    /\ settings = "idle" /\ closer = "none" /\ closed = FALSE
    /\ closeResult = FALSE /\ closeReturned = "none" /\ superseded = FALSE
    /\ disk = NoFile \/ (disk.kind = "save" /\ 0 < disk.stamp /\ barrier < disk.stamp)
    /\ disk.stamp <= stamp
    /\ intended = disk /\ restored \in {disk.stamp, 0}
    /\ barrier <= stamp /\ stamp > 0

LEMMA FreshInvariant ==
    ASSUME FreshSession, TypeOK
    PROVE  CacheInvariant
<1> USE NoOperationFields DEF FreshSession
<1>1. io.phase = "none" /\ io.owner = "none" /\ io.op = NoOperation
    BY DEF NoIo
<1>2. gui.call = "none" /\ gui.op = NoOperation
    BY DEF NoCall
<1>3. ~Current /\ ~Due
    BY <1>1 DEF Current, Due
<1>4. CallInvariant
    BY <1>1, <1>2 DEF CallInvariant
<1>5. restored \in Nat /\ barrier \in Nat /\ stamp \in Nat
    BY DEF TypeOK
<1>6. StampInvariant
    BY <1>1, <1>2, <1>5 DEF StampInvariant
<1>7. CloseInvariant
    BY <1>2 DEF CloseInvariant, CloserAlive
<1>8. ChainInvariant
    BY <1>1, <1>3 DEF ChainInvariant, Checks
<1>9. PersistInvariant
    BY DEF PersistInvariant
<1>10. IntendedInvariant
    BY <1>1 DEF IntendedInvariant, Checks
<1>11. FileInvariant
    BY DEF FileInvariant, Fits, SameContent, Checks
<1> QED BY <1>4, <1>6, <1>7, <1>8, <1>9, <1>10, <1>11 DEF CacheInvariant

LEMMA InitInvariant == Init => CacheInvariant
<1> SUFFICES ASSUME Init PROVE CacheInvariant
    OBVIOUS
<1>1. TypeOK
    BY InitTypes
<1>2. disk = NoFile \/ (disk.kind = "save" /\ disk.stamp = 1)
    BY NewOperations DEF Init
<1>3. FreshSession
    BY <1>2, NoOperationFields DEF Init, FreshSession
<1> QED BY <1>1, <1>3, FreshInvariant

-----------------------------------------------------------------------------
(* Each conjunct is preserved. *)

LEMMA CallStep ==
    ASSUME CacheInvariant, Next
    PROVE  CallInvariant'
<1> USE NoOperationFields
<1>0. CallInvariant /\ CloseInvariant /\ TypeOK
    BY DEF CacheInvariant
<1>a. NoIo.phase = "none" /\ NoIo.owner = "none" /\ NoIo.op = NoOperation
    BY DEF NoIo
<1>b. NoCall.call = "none" /\ NoCall.op = NoOperation
    BY DEF NoCall
<1>1. CASE BeginSubmit
  <2>1. PICK op \in OperationsOf(stamp') :
           gui' = [call |-> "submit", op |-> op, generation |-> generation]
    BY <1>1 DEF BeginSubmit
  <2>2. gui'.call = "submit" /\ gui'.op.kind # "none" /\ gui'.op.stamp = stamp'
    BY <2>1, NewOperations DEF Checks
  <2>3. gui.call = "none"
    BY <1>1, <1>b DEF BeginSubmit
  <2> QED BY <1>0, <1>1, <2>2, <2>3 DEF BeginSubmit, CallInvariant, writerVars, closeVars
<1>2. CASE CommitSubmit
  <2>1. gui.call = "submit" /\ gui' = NoCall
        /\ UNCHANGED <<io, settings, generation, closer, closed, closeRequested>>
    BY <1>2 DEF CommitSubmit, closeVars
  <2>2. closer = "trying" => Closing
    BY <1>0 DEF CloseInvariant, CloserAlive, Closing
  <2>3. closer = "trying" => pending' = pending
    BY <1>2, <2>2 DEF CommitSubmit
  <2> QED BY <1>0, <1>b, <2>1, <2>3 DEF CallInvariant
<1>3. CASE BeginClear
  <2>1. io.phase = "none" /\ gui = NoCall /\ io' = Io("gui", Clear(stamp), generation')
        /\ gui' = [NoCall EXCEPT !.call = "clear"] /\ pending' = NoOperation
        /\ UNCHANGED <<settings, closer, stamp>>
    BY <1>3 DEF BeginClear, NextGeneration, DropPending, WriteLockFree, closeVars
  <2>2. /\ io'.phase = "io" /\ io'.owner = "gui" /\ io'.op.kind = "clear"
        /\ io'.generation = generation'
    BY <2>1, ClearFields DEF Io
  <2>3. gui'.call = "clear" /\ gui'.op = NoOperation
    BY <2>1, <1>b DEF NoCall
  <2>4. closer # "trying"
    BY <1>0, <1>a, <2>1 DEF CallInvariant
  <2> QED BY <2>1, <2>2, <2>3, <2>4 DEF CallInvariant
<1>4. CASE EndClear
  <2>1. io.owner = "gui" /\ io' = NoIo /\ gui' = NoCall
        /\ UNCHANGED <<settings, generation, closer, stamp>>
    BY <1>4 DEF EndClear, closeVars
  <2>2. closer # "trying"
    BY <1>0, <2>1 DEF CallInvariant
  <2> QED BY <1>a, <1>b, <2>1, <2>2 DEF CallInvariant
<1>5. CASE EndFlush
  <2>1. io.owner = "timer" /\ io' = NoIo
        /\ UNCHANGED <<settings, generation, closer, stamp, gui>>
    BY <1>5 DEF EndFlush, closeVars
  <2>2. closer # "trying" /\ gui.call # "clear"
    BY <1>0, <2>1 DEF CallInvariant
  <2> QED BY <1>0, <1>a, <1>b, <2>1, <2>2 DEF CallInvariant
<1>6. CASE BeginFlush
  <2>1. io.phase = "none" /\ UNCHANGED <<settings, generation, closer, stamp, gui>>
    BY <1>6 DEF BeginFlush, closeVars, WriteLockFree
  <2>2. io = NoIo /\ closer # "trying" /\ gui.call # "clear"
    BY <1>0, <1>a, <2>1 DEF CallInvariant
  <2>3. \/ io' = io /\ pending' = pending
        \/ /\ pending.kind # "none" /\ pending' = NoOperation
           /\ io'.phase = "io" /\ io'.owner = "timer" /\ io'.op = pending
           /\ io'.generation = generation
    BY <1>6 DEF BeginFlush, Io
  <2> QED BY <1>0, <1>a, <2>1, <2>2, <2>3 DEF CallInvariant
<1>7. CASE PerformIo
  <2>1. UNCHANGED <<settings, generation, closer, stamp, gui, pending>> /\ io.phase = "io"
    BY <1>7 DEF PerformIo, writerVars, closeVars
  <2>2. io'.phase \in {"done", "failed"} /\ io'.owner = io.owner /\ io'.op = io.op
        /\ io'.generation = io.generation
    BY <1>0, <1>7 DEF PerformIo, TypeOK
  <2> QED BY <1>0, <2>1, <2>2 DEF CallInvariant
<1>8. CASE Invalidate
  <2>1. pending' = NoOperation /\ settings' = "waiting" /\ UNCHANGED <<io, gui, closer, stamp>>
    BY <1>8 DEF Invalidate, NextGeneration, DropPending, closeVars
  <2> QED BY <1>0, <2>1 DEF CallInvariant
<1>9. CASE EndInvalidate \/ Wipe
  <2>1. UNCHANGED <<io, gui, closer, stamp, pending, generation>>
        /\ (settings # "waiting" \/ io.phase = "none")
    BY <1>9 DEF EndInvalidate, Wipe, InFlightDone, WriteLockFree, closeVars, writerVars
  <2> QED BY <1>0, <2>1 DEF CallInvariant
<1>10. CASE RequestClose \/ StartCloser \/ CloseWithoutWorker \/ JoinCloser
  <2>1. UNCHANGED <<io, stamp, pending, generation, settings>>
    BY <1>10 DEF RequestClose, StartCloser, CloseWithoutWorker, JoinCloser, writerVars
  <2>2. closer' = "trying" <=> closer = "trying"
    BY <1>10 DEF RequestClose, StartCloser, CloseWithoutWorker, JoinCloser, CloserAlive
  <2>3. gui.call \in {"none", "close", "join"}
    BY <1>10, <1>b DEF RequestClose, StartCloser, CloseWithoutWorker, JoinCloser
  <2>4. gui'.call \in {"none", "close", "join"} /\ gui'.op = NoOperation
    <3>1. gui.op = NoOperation
      BY <1>0, <2>3 DEF CallInvariant
    <3>2. [gui EXCEPT !.call = "join"].call = "join" /\ [gui EXCEPT !.call = "join"].op = gui.op
      BY <1>0 DEF TypeOK
    <3>3. [NoCall EXCEPT !.call = "close"].call = "close"
            /\ [NoCall EXCEPT !.call = "close"].op = NoOperation
      BY DEF NoCall
    <3>4. \/ gui' = NoCall
          \/ gui' = [gui EXCEPT !.call = "join"]
          \/ gui' = [NoCall EXCEPT !.call = "close"]
      BY <1>10 DEF RequestClose, StartCloser, CloseWithoutWorker, JoinCloser, Return
    <3> QED BY <1>b, <3>1, <3>2, <3>3, <3>4
  <2> QED BY <1>0, <2>1, <2>2, <2>3, <2>4 DEF CallInvariant
<1>11. CASE CloserBegins
  <2>1. UNCHANGED <<settings, generation, stamp, gui>> /\ closer = "waiting"
    BY <1>11 DEF CloserBegins
  <2>2. \/ io' = io /\ pending' = pending /\ closer' = "dead"
        \/ /\ io.phase = "none"
           /\ pending.kind # "none" /\ pending' = NoOperation
           /\ io'.phase = "io" /\ io'.owner = "closer" /\ io'.op = pending
           /\ io'.generation = generation /\ closer' = "trying"
    BY <1>11 DEF CloserBegins, Io, WriteLockFree
  <2> QED BY <1>0, <1>a, <2>1, <2>2 DEF CallInvariant
<1>12. CASE CloserEnds
  <2>1. io.owner = "closer" /\ UNCHANGED <<settings, generation, stamp, gui>>
    BY <1>12 DEF CloserEnds
  <2>2. \/ io' = NoIo /\ closer' = "dead"
        \/ /\ io.phase = "failed" /\ io' = [io EXCEPT !.phase = "io"] /\ closer' = closer
           /\ pending' = pending
    BY <1>12 DEF CloserEnds
  <2>3. CASE io' = NoIo /\ closer' = "dead"
    BY <1>0, <1>a, <2>1, <2>3 DEF CallInvariant
  <2>4. CASE /\ io.phase = "failed" /\ io' = [io EXCEPT !.phase = "io"] /\ closer' = closer
             /\ pending' = pending
    <3>1. io'.phase = "io" /\ io'.owner = io.owner /\ io'.op = io.op
          /\ io'.generation = io.generation
      BY <1>0, <2>4 DEF TypeOK
    <3> QED BY <1>0, <2>1, <2>4, <3>1 DEF CallInvariant
  <2> QED BY <2>2, <2>3, <2>4
<1>13. CASE Restart
  BY <1>13, <1>a, <1>b DEF Restart, CallInvariant
<1>14. CASE ExpireRestored \/ FireTimer
  BY <1>0, <1>14 DEF ExpireRestored, FireTimer, CallInvariant, writerVars, closeVars
<1> QED BY <1>1, <1>2, <1>3, <1>4, <1>5, <1>6, <1>7, <1>8, <1>9, <1>10, <1>11, <1>12, <1>13,
           <1>14 DEF Next, Flush, ClearCacheDir, Close, CloseWorker

LEMMA CloseStep ==
    ASSUME CacheInvariant, Next
    PROVE  CloseInvariant'
<1> USE NoOperationFields
<1>0. CallInvariant /\ CloseInvariant /\ TypeOK
    BY DEF CacheInvariant
<1>a. NoIo.phase = "none" /\ NoIo.owner = "none" /\ NoIo.op = NoOperation
    BY DEF NoIo
<1>b. NoCall.call = "none" /\ NoCall.op = NoOperation
    BY DEF NoCall
<1>1. CASE BeginSubmit
  <2>1. gui'.call = "submit" /\ UNCHANGED <<closeVars, io, pending>>
    BY <1>1 DEF BeginSubmit, writerVars
  <2> QED BY <1>0, <2>1 DEF CloseInvariant, CloserAlive, closeVars
<1>2. CASE CommitSubmit
  <2>1. gui' = NoCall /\ UNCHANGED <<io, closeVars>>
    BY <1>2 DEF CommitSubmit
  <2>2. closed => pending' = pending
    BY <1>2 DEF CommitSubmit, Closing
  <2> QED BY <1>0, <1>b, <2>1, <2>2 DEF CloseInvariant, CloserAlive, closeVars
<1>3. CASE BeginClear
  <2>1. ~closed /\ gui'.call = "clear" /\ UNCHANGED closeVars
    BY <1>3 DEF BeginClear, Closing, NoCall
  <2> QED BY <1>0, <2>1 DEF CloseInvariant, CloserAlive, closeVars
<1>4. CASE EndClear \/ EndFlush
  <2>1. io # NoIo /\ UNCHANGED closeVars /\ (gui' = NoCall \/ gui' = gui)
    BY <1>4, <1>a DEF EndClear, EndFlush
  <2> QED BY <1>0, <1>b, <2>1 DEF CloseInvariant, CloserAlive, closeVars
<1>5. CASE BeginFlush
  <2>1. UNCHANGED <<closeVars, gui>> /\ (closed => UNCHANGED <<io, pending>>)
    BY <1>5 DEF BeginFlush, Closing
  <2> QED BY <1>0, <2>1 DEF CloseInvariant, CloserAlive, closeVars
<1>6. CASE PerformIo
  <2>1. io # NoIo /\ UNCHANGED <<closeVars, gui>>
    BY <1>6, <1>a DEF PerformIo
  <2> QED BY <1>0, <2>1 DEF CloseInvariant, CloserAlive, closeVars
<1>7. CASE Invalidate
  <2>1. pending' = NoOperation /\ UNCHANGED <<closeVars, gui, io>>
    BY <1>7 DEF Invalidate, NextGeneration, DropPending
  <2> QED BY <1>0, <2>1 DEF CloseInvariant, CloserAlive, closeVars
<1>8. CASE EndInvalidate \/ Wipe \/ FireTimer \/ ExpireRestored
  <2>1. UNCHANGED <<closeVars, gui, io, pending>>
    BY <1>8 DEF EndInvalidate, Wipe, FireTimer, ExpireRestored, writerVars
  <2> QED BY <1>0, <2>1 DEF CloseInvariant, CloserAlive, closeVars
<1>9. CASE RequestClose
  BY <1>0, <1>9 DEF RequestClose, CloseInvariant, CloserAlive, writerVars
<1>10. CASE StartCloser
  <2>1. closeRequested /\ UNCHANGED <<closeRequested, io, pending>>
    BY <1>0, <1>10 DEF StartCloser, CloseInvariant, writerVars
  <2>2. CASE closer = "dead" /\ closeResult /\ gui' = NoCall /\ closeReturned' = "true"
             /\ UNCHANGED <<closed, closer, closeResult>>
    BY <1>0, <1>b, <2>1, <2>2 DEF CloseInvariant, CloserAlive
  <2>3. CASE /\ CloserAlive /\ UNCHANGED <<closed, closer, closeResult, closeReturned>>
    BY <1>0, <2>1, <2>3 DEF CloseInvariant, CloserAlive
  <2>4. CASE /\ closed' = TRUE /\ closer' = "waiting" /\ closeResult' = FALSE
             /\ UNCHANGED closeReturned
    BY <1>0, <2>1, <2>4 DEF CloseInvariant, CloserAlive
  <2> QED BY <1>10, <2>2, <2>3, <2>4 DEF StartCloser, Return
<1>11. CASE CloseWithoutWorker
  <2>1. closeRequested /\ UNCHANGED <<closeRequested, io, pending, closer, closeResult>>
        /\ ~CloserAlive /\ ~closeResult /\ gui' = NoCall
    BY <1>0, <1>11 DEF CloseWithoutWorker, CloseInvariant, writerVars, Return
  <2>2. closed' = closed \/ closed' = TRUE
    BY <1>11 DEF CloseWithoutWorker
  <2>3. closeReturned' = "true" => closed' /\ pending.kind = "none" /\ io = NoIo
    BY <1>0, <1>11 DEF CloseWithoutWorker, Return, WriteLockFree, CallInvariant
  <2> QED BY <1>0, <1>b, <2>1, <2>2, <2>3 DEF CloseInvariant, CloserAlive
<1>12. CASE JoinCloser
  <2>1. UNCHANGED <<closeRequested, io, pending, closer, closeResult, closed>> /\ gui' = NoCall
    BY <1>12 DEF JoinCloser, writerVars, Return
  <2>2. closeReturned' = "true" => closeResult
    BY <1>12 DEF JoinCloser, Return
  <2> QED BY <1>0, <1>b, <2>1, <2>2 DEF CloseInvariant, CloserAlive
<1>13. CASE CloserBegins
  <2>1. closer = "waiting" /\ closed /\ ~closeResult
          /\ UNCHANGED <<gui, closeRequested, closed, closeReturned>>
    BY <1>0, <1>13 DEF CloserBegins, CloseInvariant, CloserAlive
  <2>2. CASE pending.kind # "none" /\ closer' = "trying" /\ UNCHANGED closeResult
    BY <1>0, <2>1, <2>2 DEF CloseInvariant, CloserAlive
  <2>3. CASE WriteLockFree /\ pending.kind = "none" /\ closer' = "dead" /\ closeResult' = TRUE
               /\ UNCHANGED <<io, pending>>
    BY <1>0, <2>1, <2>3 DEF CloseInvariant, CloserAlive, CallInvariant, WriteLockFree
  <2>4. CASE closer' = "dead" /\ UNCHANGED <<io, pending, closeResult>>
    BY <1>0, <2>1, <2>4 DEF CloseInvariant, CloserAlive
  <2> QED BY <1>13, <2>2, <2>3, <2>4 DEF CloserBegins
<1>14. CASE CloserEnds
  <2>1. UNCHANGED <<gui, closeRequested, closed, closeReturned>> /\ io # NoIo
    BY <1>14, <1>a DEF CloserEnds
  <2>2. closer = "trying" /\ closed /\ ~closeResult /\ closeReturned # "true"
          /\ pending.kind = "none"
    BY <1>0, <1>14, <2>1 DEF CloserEnds, CloseInvariant, CallInvariant, CloserAlive
  <2>3. CASE io' = NoIo /\ closer' = "dead" /\ closeResult' = TRUE /\ UNCHANGED pending
    BY <1>0, <2>1, <2>2, <2>3 DEF CloseInvariant, CloserAlive
  <2>4. CASE UNCHANGED <<closer, closeResult>>
    BY <1>0, <2>1, <2>2, <2>4 DEF CloseInvariant, CloserAlive
  <2>5. CASE closer' = "dead" /\ closeResult' = FALSE
    BY <1>0, <2>1, <2>2, <2>5 DEF CloseInvariant, CloserAlive
  <2> QED BY <1>14, <2>3, <2>4, <2>5 DEF CloserEnds, ResultAfterFailure
<1>15. CASE Restart
  BY <1>15, <1>b DEF Restart, CloseInvariant, CloserAlive
<1> QED BY <1>1, <1>2, <1>3, <1>4, <1>5, <1>6, <1>7, <1>8, <1>9, <1>10, <1>11, <1>12, <1>13,
           <1>14, <1>15 DEF Next, Flush, ClearCacheDir, Close, CloseWorker
\* What a committed submission makes of the queue.
LEMMA CommitCases ==
    ASSUME CommitSubmit, CacheInvariant
    PROVE  /\ gui.op.kind # "none" /\ gui.op.stamp = stamp /\ gui.op \in Operation
           /\ UNCHANGED <<disk, kept, generation, io, settings, restored, stamp, barrier>>
           /\ \/ UNCHANGED <<pending, latest, intended, superseded, wiped>>
              \/ /\ Coalesced(gui.op).kind = "none" \/ Duplicate(Coalesced(gui.op))
                 /\ intended' = Effect(gui.op, intended)
                 /\ UNCHANGED <<pending, latest, superseded, wiped>>
              \/ /\ Coalesced(gui.op).kind # "none"
                 /\ pending' = Coalesced(gui.op) /\ latest' = Coalesced(gui.op)
                 /\ intended' = Effect(gui.op, intended)
                 /\ superseded' = (\/ SupersedesCheck(Coalesced(gui.op))
                                   \/ superseded /\ Coalesced(gui.op).kind \in Checks)
                 /\ wiped' = (wiped /\ Coalesced(gui.op).kind # "save")
<1>1. gui.op.kind # "none" /\ gui.op.stamp = stamp /\ gui.op \in Operation
    BY DEF CommitSubmit, CacheInvariant, CallInvariant, TypeOK
<1> QED BY <1>1 DEF CommitSubmit, historyVars

\* Coalescing leaves an operation as it is, makes it a clear or drops it; a check
\* that is left follows no operation or a producer check.
LEMMA CoalescedCases ==
    ASSUME NEW op
    PROVE  \/ Coalesced(op) = NoOperation /\ VoidCheck(op) /\ op.kind \in Checks
           \/ Coalesced(op) = Clear(op.stamp) /\ op.kind \in Checks
           \/ Coalesced(op) = op /\ ~VoidCheck(op) /\ ~RefutedCheck(op)
    BY DEF Coalesced, VoidCheck, RefutedCheck

LEMMA CheckFollows ==
    ASSUME NEW op, op.kind \in Checks, ~VoidCheck(op), ~RefutedCheck(op), latest \in Operation
    PROVE  latest.kind = "none" \/ (latest.kind = "producer" /\ op.kind = "producer")
<1>1. latest.kind \in {"none", "save", "clear", "context", "producer"}
    BY DEF Operation, Checks
<1>2. latest.kind # "clear"
    BY DEF VoidCheck
<1>3. CASE op.kind = "context"
    BY <1>1, <1>2, <1>3 DEF VoidCheck, RefutedCheck, Checks
<1>4. CASE op.kind = "producer"
    BY <1>1, <1>2, <1>4 DEF VoidCheck, RefutedCheck, Checks
<1> QED BY <1>3, <1>4 DEF Checks

LEMMA StampStep ==
    ASSUME CacheInvariant, Next
    PROVE  StampInvariant'
<1> USE NoOperationFields
<1>0. CallInvariant /\ StampInvariant /\ TypeOK
    BY DEF CacheInvariant
<1>a. NoIo.phase = "none" /\ NoIo.owner = "none" /\ NoIo.op = NoOperation
    BY DEF NoIo
<1>b. NoCall.call = "none" /\ NoCall.op = NoOperation
    BY DEF NoCall
<1>c. stamp \in Nat /\ barrier \in Nat /\ restored \in Nat
    BY <1>0 DEF TypeOK
<1>d. \A op \in Operation : op.stamp \in Nat
    BY BoundAssumption DEF Operation
<1>e. pending \in Operation /\ latest \in Operation /\ disk \in Operation
        /\ intended \in Operation
      /\ io.op \in Operation
    BY <1>0 DEF TypeOK
<1>f. /\ pending.stamp \in Nat /\ latest.stamp \in Nat /\ disk.stamp \in Nat
      /\ intended.stamp \in Nat /\ io.op.stamp \in Nat
    BY <1>d, <1>e
<1>1. CASE BeginSubmit
  <2>1. stamp' = stamp + 1
          /\ UNCHANGED <<disk, kept, pending, latest, io, intended, barrier, restored>>
    BY <1>1 DEF BeginSubmit, writerVars, historyVars
  <2> QED BY <1>0, <1>c, <1>f, <2>1 DEF StampInvariant
<1>2. CASE CommitSubmit
  <2>1. /\ gui.op.stamp = stamp
        /\ UNCHANGED <<disk, kept, io, restored, stamp, barrier>>
    BY <1>2, CommitCases
  <2>2. gui.call = "submit" /\ gui'.call = "none"
    BY <1>2, <1>b DEF CommitSubmit
  <2>3. barrier < stamp /\ restored < stamp
    BY <1>0, <2>2 DEF StampInvariant
  <2>4. \/ pending' = pending /\ latest' = latest
        \/ pending' = latest' /\ pending'.stamp = stamp
    BY <1>2, <2>1, CommitCases, CoalescedCases, ClearFields
  <2>5. gui.op \in Operation /\ (intended' = intended \/ intended' = Effect(gui.op, intended))
    BY <1>2, CommitCases
  <2>6. intended' \in {NoFile, intended} \/ (intended' = gui.op /\ gui.op.kind = "save")
    BY <2>5 DEF Effect
  <2>7. intended'.stamp <= stamp
          /\ (intended' = NoFile \/ (intended'.kind = "save" /\ 0 < intended'.stamp))
    BY <1>0, <1>c, <2>1, <2>6 DEF StampInvariant
  <2>8. \A op \in {pending', io.op, disk} : op.kind = "save" => barrier < op.stamp
    BY <1>0, <2>3, <2>4 DEF StampInvariant
  <2>9. \A op \in {pending', latest', io.op} : op.kind = "save" => restored < op.stamp
    BY <1>0, <2>3, <2>4 DEF StampInvariant
  <2>10. \A op \in {pending', latest', io.op, disk, intended'} : op.stamp <= stamp
    BY <1>0, <1>c, <2>4, <2>7 DEF StampInvariant
  <2> QED BY <1>0, <2>1, <2>2, <2>7, <2>8, <2>9, <2>10 DEF StampInvariant
<1>3. CASE BeginClear
  <2>1. pending' = NoOperation /\ latest' = Clear(stamp) /\ intended' = NoFile
        /\ UNCHANGED <<disk, kept, stamp, barrier, restored>>
    BY <1>3 DEF BeginClear, NextGeneration, DropPending
  <2>2. io'.phase = "io" /\ io'.op = Clear(stamp) /\ gui'.call = "clear"
    BY <1>3 DEF BeginClear, Io, NoCall
  <2> QED BY <1>0, <1>c, <2>1, <2>2, ClearFields DEF StampInvariant
<1>4. CASE EndClear
  <2>1. IoEnds /\ io.owner = "gui"
    BY <1>4, EndClearEnds
  <2>2. gui' = NoCall /\ (barrier' = barrier \/ (io.phase = "done" /\ barrier' = io.op.stamp))
    BY <1>4 DEF EndClear
  <2>3. (pending' = pending \/ pending' = io.op) /\ io' = NoIo
          /\ UNCHANGED <<disk, kept, latest, intended, stamp, restored>>
    BY <2>1 DEF IoEnds, historyVars
  <2>4. pending.kind = "none" /\ io.op.kind = "clear" /\ io.op.stamp <= stamp
    BY <1>0, <2>1 DEF CallInvariant, StampInvariant
  <2>5. barrier' <= stamp
    BY <1>0, <2>2, <2>4 DEF StampInvariant
  <2>6. disk.kind = "save" => barrier' < disk.stamp
    BY <1>0, <2>1, <2>2 DEF StampInvariant
  <2>7. pending'.kind # "save" /\ pending'.stamp <= stamp
    BY <1>0, <2>3, <2>4 DEF StampInvariant
  <2>8. io'.op.kind = "none" /\ io'.op.stamp = 0 /\ io'.owner = "none" /\ gui'.call = "none"
    BY <1>a, <1>b, <2>2, <2>3
  <2>9. \A op \in {pending', io'.op, disk'} : op.kind = "save" => barrier' < op.stamp
    BY <2>3, <2>6, <2>7, <2>8
  <2>10. \A op \in {pending', latest', io'.op} : op.kind = "save" => restored' < op.stamp
    BY <1>0, <2>3, <2>7, <2>8 DEF StampInvariant
  <2>11. \A op \in {pending', latest', io'.op, disk', intended'} : op.stamp <= stamp'
    BY <1>0, <1>c, <2>3, <2>7, <2>8 DEF StampInvariant
  <2> QED BY <1>0, <2>3, <2>5, <2>8, <2>9, <2>10, <2>11 DEF StampInvariant
<1>5. CASE EndFlush
  <2>1. IoEnds /\ UNCHANGED <<gui, barrier>>
    BY <1>5, EndFlushEnds DEF EndFlush
  <2>3. (pending' = pending \/ pending' = io.op) /\ io' = NoIo
          /\ UNCHANGED <<disk, kept, latest, intended, stamp, restored>>
    BY <2>1 DEF IoEnds, historyVars
  <2> QED BY <1>0, <1>a, <1>c, <2>1, <2>3 DEF StampInvariant
<1>6. CASE IoTaken
  <2>1. /\ pending' = NoOperation /\ io'.op = pending /\ io'.phase = "io"
        /\ UNCHANGED <<disk, kept, latest, intended, stamp, restored, gui, barrier>>
    BY <1>6 DEF IoTaken, Io, historyVars
  <2> QED BY <1>0, <1>c, <2>1 DEF StampInvariant
<1>7. CASE PerformIo
  <2>1. UNCHANGED <<pending, latest, intended, stamp, restored, gui, barrier>>
          /\ io.phase = "io"
    BY <1>7 DEF PerformIo, writerVars, historyVars
  <2>2. io'.op = io.op /\ io'.owner = io.owner
        /\ \/ io'.phase = "done" /\ disk' = Effect(io.op, disk)
           \/ io.op.kind \in Checks /\ disk' \in {disk, NoFile}
           \/ io'.phase = "failed" /\ disk' = disk
    BY <1>0, <1>7 DEF PerformIo, Performed, Unchecked, Outdated, TypeOK
  <2>3. disk' \in {disk, NoFile} \/ (disk' = io.op /\ io.op.kind = "save")
    BY <2>2 DEF Effect
  <2>4. io.owner = "gui" /\ io'.phase = "done" => disk' = NoFile
    BY <1>0, <2>2, EffectOfClear DEF CallInvariant, Checks
  <2>5. \A op \in {pending, io.op, disk'} : op.kind = "save" => barrier < op.stamp
    BY <1>0, <2>3 DEF StampInvariant
  <2>6. disk'.stamp <= stamp /\ (disk' = NoFile \/ (disk'.kind = "save" /\ 0 < disk'.stamp))
    BY <1>0, <1>c, <1>f, <2>3 DEF StampInvariant
  <2> QED BY <1>0, <2>1, <2>2, <2>4, <2>5, <2>6 DEF StampInvariant
<1>8. CASE Invalidate
  <2>1. pending' = NoOperation /\ latest' = NoOperation /\ intended' = NoFile
        /\ UNCHANGED <<disk, kept, stamp, barrier, restored, io, gui>>
    BY <1>8 DEF Invalidate, NextGeneration, DropPending
  <2> QED BY <1>0, <1>c, <2>1 DEF StampInvariant
<1>9. CASE Wipe
  <2>1. disk' = NoFile
          /\ UNCHANGED <<pending, latest, intended, stamp, restored, gui, barrier, io>>
    BY <1>9 DEF Wipe, writerVars
  <2> QED BY <1>0, <1>c, <2>1 DEF StampInvariant
<1>10. CASE Quiet /\ ~BeginSubmit
  <2>1. UNCHANGED <<disk, kept, pending, latest, intended, restored, barrier>> /\ io'.op = io.op
        /\ io'.owner = io.owner /\ (io'.phase = "done" => io.phase = "done")
    BY <1>0, <1>10 DEF Quiet, writerVars, historyVars, TypeOK
  <2>2. stamp' = stamp \/ Restart
    BY <1>10 DEF Next, BeginSubmit, CommitSubmit, BeginClear, EndClear, FireTimer, Flush,
        BeginFlush,
       EndFlush, PerformIo, Invalidate, ClearCacheDir, EndInvalidate, Wipe, RequestClose, Close,
       StartCloser, CloseWithoutWorker, JoinCloser, CloseWorker, CloserBegins, CloserEnds,
           ExpireRestored
  <2>3. stamp' = stamp
    BY <2>2 DEF Restart
  <2>4. gui'.call = "submit" => gui.call = "submit"
    <3>1. CASE gui' = NoCall \/ gui' = gui
      BY <1>b, <3>1
    <3>2. CASE gui' = [gui EXCEPT !.call = "join"] \/ gui' = [NoCall EXCEPT !.call = "close"]
               \/ gui' = [NoCall EXCEPT !.call = "clear"]
      BY <1>0, <3>2 DEF TypeOK, NoCall
    <3>3. \/ gui' = NoCall \/ gui' = gui \/ gui' = [gui EXCEPT !.call = "join"]
          \/ gui' = [NoCall EXCEPT !.call = "close"] \/ gui' = [NoCall EXCEPT !.call = "clear"]
      BY <1>10 DEF Next, CommitSubmit, BeginClear, EndClear, FireTimer, Flush, BeginFlush,
         EndFlush, PerformIo, Invalidate, ClearCacheDir, EndInvalidate, Wipe, RequestClose,
             Close,
         StartCloser, CloseWithoutWorker, JoinCloser, Return, CloseWorker, CloserBegins,
             CloserEnds,
         Restart, ExpireRestored
    <3> QED BY <3>1, <3>2, <3>3
  <2> QED BY <1>0, <2>1, <2>3, <2>4 DEF StampInvariant
<1>11. CASE CloserEnds /\ IoEnds
  <2>1. UNCHANGED <<gui, barrier>>
    BY <1>11 DEF CloserEnds
  <2>3. (pending' = pending \/ pending' = io.op) /\ io' = NoIo
          /\ UNCHANGED <<disk, kept, latest, intended, stamp, restored>>
    BY <1>11 DEF IoEnds, historyVars
  <2> QED BY <1>0, <1>a, <1>c, <2>1, <2>3 DEF StampInvariant
<1>12. CASE Restart
  <2>1. pending' = NoOperation /\ latest' = NoOperation /\ io' = NoIo /\ gui' = NoCall
        /\ disk' \in {disk, NoFile} /\ intended' = disk' /\ restored' \in {disk'.stamp, 0}
        /\ UNCHANGED <<stamp, barrier>>
    BY <1>12 DEF Restart
  <2> QED BY <1>0, <1>a, <1>b, <1>c, <2>1 DEF StampInvariant
<1>13. CASE ExpireRestored
  <2>1. /\ restored' = 0 /\ disk' \in {disk, NoFile} /\ intended' \in {intended, NoFile}
        /\ UNCHANGED <<pending, latest, io, gui, stamp, barrier>>
    BY <1>13 DEF ExpireRestored, writerVars
  <2> QED BY <1>0, <1>c, <1>f, <2>1 DEF StampInvariant
<1> QED BY <1>1, <1>2, <1>3, <1>4, <1>5, <1>6, <1>7, <1>8, <1>9, <1>10, <1>11, <1>12, <1>13,
           QuietActions, BeginFlushCases, CloserBeginsCases, CloserEndsCases
        DEF Next, Flush, ClearCacheDir, CloseWorker
LEMMA NextCases ==
    ASSUME Next
    PROVE  \/ CommitSubmit \/ BeginClear \/ IoTaken \/ IoEnds \/ PerformIo \/ Invalidate
           \/ Wipe \/ Quiet \/ Restart \/ ExpireRestored
    BY QuietActions, BeginFlushCases, CloserBeginsCases, CloserEndsCases, EndFlushEnds,
        EndClearEnds
    DEF Next, Flush, ClearCacheDir, CloseWorker

\* Whether the operation under way is current or due changes with it only.
LEMMA QuietDue ==
    ASSUME TypeOK, Quiet
    PROVE  /\ Current' = Current /\ Due' = Due /\ io'.op = io.op
           /\ io'.phase = "none" <=> io.phase = "none"
           /\ io'.generation = io.generation
    BY DEF TypeOK, Quiet, Current, Due, writerVars

LEMMA TakenDue ==
    ASSUME IoTaken
    PROVE  /\ Current' /\ Due' /\ io'.op = pending /\ io'.phase # "none"
           /\ io'.generation = generation' /\ ~Current /\ ~Due
    BY DEF IoTaken, Io, Current, Due, WriteLockFree

LEMMA EndedDue ==
    ASSUME IoEnds
    PROVE  ~Current' /\ ~Due' /\ io'.phase = "none" /\ io'.op = NoOperation
    BY DEF IoEnds, NoIo, Current, Due

\* An operation takes effect, is counted as done all the same, or fails.
LEMMA PerformDue ==
    ASSUME TypeOK, PerformIo
    PROVE  /\ Current' = Current /\ io'.op = io.op /\ io'.generation = io.generation
           /\ io.phase # "none" /\ io'.phase # "none" /\ Due = Current
           /\ \/ ~Due' /\ disk' = Effect(io.op, disk) /\ UNCHANGED kept
              \/ /\ ~Due' /\ io.op.kind \in Checks
                 /\ \/ UNCHANGED disk /\ kept' = disk.stamp
                    \/ UNCHANGED <<disk, kept>> /\ Effect(io.op, disk) = disk
                    \/ disk' = NoFile
              \/ Due' = Current /\ UNCHANGED <<disk, kept>>
           /\ UNCHANGED <<pending, latest, lastSaved, generation, settings, restored, stamp,
                          intended, superseded, wiped, barrier, gui>>
<1>1. UNCHANGED <<pending, latest, lastSaved, generation, settings, restored, stamp,
                  intended, superseded, wiped, barrier, gui>>
    BY DEF PerformIo, writerVars, historyVars
<1>2. io.phase = "io" /\ io'.op = io.op /\ io'.generation = io.generation
      /\ \/ io'.phase = "done" /\ (Performed \/ Unchecked \/ Outdated)
         \/ io'.phase = "failed" /\ UNCHANGED <<disk, kept>>
    BY DEF PerformIo, TypeOK
<1>3. Current' = Current /\ Due = Current
    BY <1>1, <1>2 DEF Current, Due
<1>4. CASE io'.phase = "done"
  <2>1. ~Due'
    BY <1>4 DEF Due
  <2> QED BY <1>1, <1>2, <1>3, <1>4, <2>1 DEF Performed, Unchecked, Outdated
<1>5. CASE io'.phase = "failed"
  <2>1. Due' = Current
    BY <1>3, <1>5 DEF Due
  <2> QED BY <1>1, <1>2, <1>3, <1>5, <2>1
<1> QED BY <1>2, <1>4, <1>5

LEMMA ChainStep ==
    ASSUME CacheInvariant, Next
    PROVE  ChainInvariant'
<1> USE NoOperationFields
<1>0. CallInvariant /\ ChainInvariant /\ TypeOK
    BY DEF CacheInvariant
<1>1. CASE CommitSubmit
  <2>1. UNCHANGED <<io, generation>> /\ gui.op.kind # "none"
    BY <1>1, CommitCases
  <2>2. Current' = Current
    BY <2>1 DEF Current
  <2>3. CASE UNCHANGED <<pending, latest, superseded>>
    BY <1>0, <2>1, <2>2, <2>3 DEF ChainInvariant
  <2>4. CASE /\ Coalesced(gui.op).kind # "none"
             /\ pending' = Coalesced(gui.op) /\ latest' = Coalesced(gui.op)
             /\ superseded' = (\/ SupersedesCheck(Coalesced(gui.op))
                               \/ superseded /\ Coalesced(gui.op).kind \in Checks)
    <3>1. latest'.kind # "none" /\ pending' = latest'
      BY <2>4
    <3>2. ASSUME latest'.kind \in Checks
          PROVE  /\ latest' = gui.op
                 /\ latest.kind = "none"
                      \/ (latest.kind = "producer" /\ gui.op.kind = "producer")
      <4>1. Coalesced(gui.op) = gui.op /\ ~VoidCheck(gui.op) /\ ~RefutedCheck(gui.op)
        BY <2>4, <3>2, CoalescedCases, ClearFields DEF Checks
      <4>2. gui.op.kind \in Checks /\ latest \in Operation
        BY <1>0, <2>4, <3>2, <4>1 DEF TypeOK
      <4> QED BY <2>4, <4>1, <4>2, CheckFollows
    <3>3. superseded' => latest'.kind = "producer"
      <4>1. CASE SupersedesCheck(Coalesced(gui.op))
        BY <2>4, <4>1 DEF SupersedesCheck
      <4>2. CASE superseded /\ Coalesced(gui.op).kind \in Checks
        BY <1>0, <2>4, <3>2, <4>2 DEF ChainInvariant
      <4> QED BY <2>4, <4>1, <4>2
    <3>4. latest'.kind \in Checks /\ ~superseded' => ~Current'
      <4> SUFFICES ASSUME latest'.kind \in Checks, ~superseded' PROVE ~Current
        BY <2>2
      <4>1. CASE latest.kind = "none"
        BY <1>0, <4>1 DEF ChainInvariant
      <4>2. CASE latest.kind = "producer" /\ gui.op.kind = "producer"
        <5>1. pending.kind # "producer" /\ ~(io.phase # "none" /\ io.op.kind = "producer")
          BY <2>4, <3>2, <4>2 DEF SupersedesCheck
        <5>2. pending.kind = "none"
          BY <1>0, <4>2, <5>1 DEF ChainInvariant
        <5> QED BY <1>0, <4>2, <5>1, <5>2 DEF ChainInvariant, Current
      <4> QED BY <3>2, <4>1, <4>2
    <3> QED BY <3>1, <3>3, <3>4 DEF ChainInvariant
  <2> QED BY <1>1, <2>3, <2>4, CommitCases
<1>2. CASE BeginClear
  <2>1. pending' = NoOperation /\ latest' = Clear(stamp)
          /\ io' = Io("gui", Clear(stamp), generation')
        /\ superseded' = FALSE
    BY <1>2 DEF BeginClear, NextGeneration, DropPending
  <2>2. io'.op = latest' /\ io'.generation = generation' /\ latest'.kind = "clear"
    BY <2>1, ClearFields DEF Io
  <2> QED BY <2>1, <2>2 DEF ChainInvariant, Checks
<1>3. CASE IoTaken
  <2>1. pending' = NoOperation /\ pending.kind # "none" /\ UNCHANGED <<latest, superseded>>
    BY <1>3 DEF IoTaken, historyVars
  <2> QED BY <1>0, <1>3, <2>1, TakenDue DEF ChainInvariant
<1>4. CASE IoEnds
  <2>1. UNCHANGED <<latest, superseded>>
    BY <1>4 DEF IoEnds, historyVars
  <2>2. pending' = pending \/ (pending' = io.op /\ pending.kind = "none" /\ Current)
    BY <1>4 DEF IoEnds, Due
  <2> QED BY <1>0, <1>4, <2>1, <2>2, EndedDue DEF ChainInvariant
<1>5. CASE PerformIo
  BY <1>0, <1>5, PerformDue DEF ChainInvariant
<1>6. CASE Invalidate
  <2>1. pending' = NoOperation /\ latest' = NoOperation /\ superseded' = FALSE
        /\ generation' = generation + 1 /\ io' = io /\ settings = "idle"
    BY <1>6 DEF Invalidate, NextGeneration, DropPending
  <2>2. generation \in Nat
    BY <1>0 DEF TypeOK
  <2>3. ~Current'
    BY <1>0, <2>1, <2>2 DEF CallInvariant, Current
  <2> QED BY <2>1, <2>3 DEF ChainInvariant, Checks
<1>7. CASE Wipe
  <2>1. UNCHANGED <<pending, latest, generation, io, superseded>>
    BY <1>7 DEF Wipe, writerVars
  <2> QED BY <1>0, <2>1 DEF ChainInvariant, Current
<1>8. CASE Quiet
  <2>1. UNCHANGED <<pending, latest, generation, superseded>>
    BY <1>8 DEF Quiet, writerVars, historyVars
  <2> QED BY <1>0, <1>8, <2>1, QuietDue DEF ChainInvariant
<1>9. CASE Restart
  <2>1. pending' = NoOperation /\ latest' = NoOperation /\ superseded' = FALSE
          /\ io'.phase = "none"
    BY <1>9 DEF Restart, NoIo
  <2> QED BY <2>1 DEF ChainInvariant, Current, Checks
<1>10. CASE ExpireRestored
  <2>1. UNCHANGED <<pending, latest, generation, io, superseded>>
    BY <1>10 DEF ExpireRestored, writerVars
  <2> QED BY <1>0, <2>1 DEF ChainInvariant, Current
<1> QED BY <1>1, <1>2, <1>3, <1>4, <1>5, <1>6, <1>7, <1>8, <1>9, <1>10, NextCases

LEMMA PersistStep ==
    ASSUME CacheInvariant, Next
    PROVE  PersistInvariant'
<1> USE NoOperationFields
<1>0. CallInvariant /\ ChainInvariant /\ StampInvariant /\ PersistInvariant /\ TypeOK
    BY DEF CacheInvariant
<1>1. CASE CommitSubmit
  <2>1. UNCHANGED <<io, generation, disk>>
    BY <1>1, CommitCases
  <2>2. Due' = Due
    BY <2>1 DEF Due, Current
  <2>3. UNCHANGED <<pending, latest, wiped>> \/ pending'.kind # "none"
    BY <1>1, CommitCases
  <2> QED BY <1>0, <2>1, <2>2, <2>3 DEF PersistInvariant
<1>2. CASE BeginClear \/ Invalidate \/ Restart
  <2>1. latest'.kind # "save"
    BY <1>2, ClearFields DEF BeginClear, Invalidate, Restart
  <2> QED BY <2>1 DEF PersistInvariant
<1>3. CASE IoTaken
  BY <1>3, TakenDue DEF PersistInvariant
<1>4. CASE IoEnds
  <2>1. UNCHANGED <<latest, disk, wiped>>
    BY <1>4 DEF IoEnds, historyVars
  <2>2. CASE pending' = pending /\ (Due => pending.kind # "none")
    BY <1>0, <2>1, <2>2 DEF PersistInvariant
  <2>3. CASE pending' = io.op /\ Due
    BY <1>0, <2>3 DEF CallInvariant, PersistInvariant, Due, Current
  <2> QED BY <1>4, <2>2, <2>3 DEF IoEnds
<1>5. CASE PerformIo
  <2>1. SUFFICES ASSUME latest.kind = "save", pending.kind = "none", ~Due'
                 PROVE  wiped \/ disk' = latest
    BY <1>0, <1>5, PerformDue DEF PersistInvariant
  <2>2. Current /\ io.op = latest
    BY <1>0, <1>5, <2>1, PerformDue DEF ChainInvariant, Current
  <2> QED BY <1>0, <1>5, <2>1, <2>2, PerformDue, EffectOfSave DEF Checks
<1>6. CASE Wipe
  BY <1>6 DEF Wipe, PersistInvariant
<1>7. CASE Quiet
  <2>1. UNCHANGED <<pending, latest, disk, wiped>>
    BY <1>7 DEF Quiet, writerVars, historyVars
  <2> QED BY <1>0, <1>7, <2>1, QuietDue DEF PersistInvariant
<1>8. CASE ExpireRestored
  <2>1. UNCHANGED <<pending, latest, generation, io, wiped>>
    BY <1>8 DEF ExpireRestored, writerVars
  <2>2. disk' = disk \/ disk.stamp = restored
    BY <1>8 DEF ExpireRestored, IsRestored
  <2>3. latest.kind = "save" => latest.stamp # restored
    <3>1. restored \in Nat /\ latest.stamp \in 0..MaxStamp
      BY <1>0 DEF TypeOK, Operation
    <3> QED BY <1>0, <3>1 DEF StampInvariant
  <2>4. Due' = Due
    BY <2>1 DEF Due, Current
  <2> QED BY <1>0, <2>1, <2>2, <2>3, <2>4 DEF PersistInvariant
<1> QED BY <1>1, <1>2, <1>3, <1>4, <1>5, <1>6, <1>7, <1>8, NextCases
\* A submission that is coalesced away changes nothing that should be in the file,
\* unless a clear was accepted last.
LEMMA DroppedChangesNothing ==
    ASSUME CacheInvariant, CommitSubmit,
           Coalesced(gui.op).kind = "none" \/ Duplicate(Coalesced(gui.op))
    PROVE  \/ Effect(gui.op, intended) = intended
           \/ latest.kind = "clear" /\ Effect(gui.op, intended) \in {intended, NoFile}
           \/ /\ gui.op.kind = "save" /\ Effect(gui.op, intended) = gui.op
              /\ SameContent(latest, gui.op)
<1> USE NoOperationFields
<1>0. ChainInvariant /\ IntendedInvariant /\ TypeOK
    BY DEF CacheInvariant
<1>1. gui.op.kind # "none"
    BY CommitCases
<1>2. CASE VoidCheck(gui.op) /\ gui.op.kind \in Checks
  <2>1. CASE "clear" \in {pending.kind, latest.kind}
    <3>1. latest.kind = "clear"
      BY <1>0, <2>1 DEF ChainInvariant
    <3> QED BY <1>2, <3>1, EffectOfCheck
  <2>2. CASE latest.kind = "save" /\ gui.op.kind = "producer"
               /\ ~Conflict(latest.producer, gui.op.producer)
    <3>1. intended.producer = latest.producer
      BY <1>0, <2>2 DEF IntendedInvariant, SameContent
    <3> QED BY <2>2, <3>1 DEF Effect
  <2>3. CASE latest.kind = "save" /\ latest.producer = gui.op.producer
    <3>1. intended.producer = gui.op.producer
      BY <1>0, <2>3 DEF IntendedInvariant, SameContent
    <3> QED BY <1>2, <3>1 DEF Effect, Conflict, Checks
  <2>4. CASE latest.kind = gui.op.kind /\ latest.producer = gui.op.producer
    <3>1. Effect(latest, intended) = intended
      BY <1>0, <1>2, <2>4 DEF IntendedInvariant
    <3>2. Effect(gui.op, intended) = Effect(latest, intended)
      BY <1>2, <2>4, EffectOfSameCheck
    <3> QED BY <3>1, <3>2
  <2> QED BY <1>2, <2>1, <2>2, <2>3, <2>4 DEF VoidCheck
<1>3. CASE Coalesced(gui.op) = Clear(gui.op.stamp)
  <2>1. Coalesced(gui.op).kind = "clear"
    BY <1>3, ClearFields
  <2> QED BY <2>1 DEF Duplicate, SameContent
<1>4. CASE Coalesced(gui.op) = gui.op
  <2>1. SameContent(latest, gui.op)
    BY <1>1, <1>4 DEF Duplicate
  <2> QED BY <2>1, EffectOfSave DEF SameContent
<1> QED BY <1>2, <1>3, <1>4, CoalescedCases

LEMMA IntendedStep ==
    ASSUME CacheInvariant, Next
    PROVE  IntendedInvariant'
<1> USE NoOperationFields
<1>0. CallInvariant /\ ChainInvariant /\ StampInvariant /\ IntendedInvariant /\ TypeOK
    BY DEF CacheInvariant
<1>a. restored \in Nat /\ latest.stamp \in Nat /\ intended.stamp \in Nat /\ disk.stamp \in Nat
    <2>1. \A op \in Operation : op.stamp \in Nat
      BY BoundAssumption DEF Operation
    <2> QED BY <1>0, <2>1 DEF TypeOK
<1>1. CASE CommitSubmit
  <2>1. UNCHANGED <<io, generation, disk, restored>> /\ gui.op.stamp = stamp
          /\ gui.op.kind # "none"
    BY <1>1, CommitCases
  <2>2. restored < gui.op.stamp
    <3>1. gui.call = "submit"
      BY <1>1 DEF CommitSubmit
    <3> QED BY <1>0, <2>1, <3>1 DEF StampInvariant
  <2>3. CASE UNCHANGED <<pending, latest, intended>>
    BY <1>0, <2>1, <2>3 DEF IntendedInvariant
  <2>4. CASE /\ Coalesced(gui.op).kind = "none" \/ Duplicate(Coalesced(gui.op))
             /\ intended' = Effect(gui.op, intended)
             /\ UNCHANGED <<pending, latest>>
    <3>1. CASE intended' = intended
      BY <1>0, <2>1, <2>4, <3>1 DEF IntendedInvariant
    <3>2. CASE latest.kind = "clear" /\ intended' = NoFile
      BY <2>4, <3>2 DEF IntendedInvariant, Checks
    <3>3. CASE gui.op.kind = "save" /\ intended' = gui.op /\ SameContent(latest, gui.op)
      <4>1. SameContent(intended', latest) /\ latest.kind = "save"
        BY <3>3, SameContentFacts
      <4>2. intended'.stamp # restored
        BY <1>a, <2>2, <3>3
      <4> QED BY <2>1, <2>2, <2>4, <3>3, <4>1, <4>2 DEF IntendedInvariant, Checks
    <3> QED BY <1>1, <2>4, <3>1, <3>2, <3>3, DroppedChangesNothing
  <2>5. CASE /\ pending' = Coalesced(gui.op) /\ latest' = Coalesced(gui.op)
             /\ intended' = Effect(gui.op, intended)
             /\ Coalesced(gui.op).kind # "none"
    <3>1. CASE Coalesced(gui.op) = Clear(gui.op.stamp) /\ gui.op.kind \in Checks
      <4>1. latest'.kind = "clear" /\ pending'.kind = "clear"
        BY <2>5, <3>1, ClearFields
      <4>2. intended' \in {NoFile, intended}
        BY <2>5, <3>1, EffectOfCheck
      <4> QED BY <1>0, <2>1, <4>1, <4>2 DEF IntendedInvariant, Checks
    <3>2. CASE Coalesced(gui.op) = gui.op /\ gui.op.kind = "save"
      <4>1. latest' = gui.op /\ intended' = gui.op
        BY <2>5, <3>2, EffectOfSave
      <4>2. intended'.stamp # restored
        BY <1>a, <2>2, <4>1
      <4> QED BY <2>1, <2>2, <3>2, <4>1, <4>2, SameContentFacts DEF IntendedInvariant, Checks
    <3>3. CASE Coalesced(gui.op) = gui.op /\ gui.op.kind = "clear"
      <4>1. latest'.kind = "clear" /\ intended' = NoFile
        BY <2>5, <3>3, EffectOfClear
      <4> QED BY <4>1 DEF IntendedInvariant, Checks
    <3>4. CASE Coalesced(gui.op) = gui.op /\ gui.op.kind \in Checks
      <4>1. latest' = gui.op /\ pending' = gui.op /\ intended' \in {NoFile, intended}
        BY <2>5, <3>4, EffectOfCheck
      <4>2. Effect(latest', intended') = intended'
        BY <2>5, <3>4, <4>1, EffectOfCheck
      <4> QED BY <1>0, <2>1, <3>4, <4>1, <4>2 DEF IntendedInvariant, Checks
    <3>5. gui.op.kind \in {"save", "clear"} \cup Checks
      BY <2>1, CommitCases, <1>1 DEF Operation
    <3> QED BY <2>5, <3>1, <3>2, <3>3, <3>4, <3>5, CoalescedCases
  <2> QED BY <1>1, <2>3, <2>4, <2>5, CommitCases
<1>2. CASE BeginClear \/ Invalidate
  <2>1. intended' = NoFile /\ latest'.kind \in {"none", "clear"}
    BY <1>2, ClearFields DEF BeginClear, Invalidate, NextGeneration
  <2> QED BY <2>1 DEF IntendedInvariant, Checks
<1>3. CASE IoTaken
  <2>1. pending' = NoOperation /\ io'.op = pending
          /\ UNCHANGED <<latest, intended, disk, restored>>
    BY <1>3 DEF IoTaken, Io, historyVars
  <2> QED BY <1>0, <2>1 DEF IntendedInvariant
<1>4. CASE IoEnds
  <2>1. (pending' = pending \/ pending' = io.op)
          /\ UNCHANGED <<latest, intended, disk, restored>>
    BY <1>4 DEF IoEnds, historyVars
  <2> QED BY <1>0, <1>4, <2>1, EndedDue DEF IntendedInvariant
<1>5. CASE PerformIo
  <2>1. UNCHANGED <<pending, latest, intended, restored>> /\ io'.op = io.op
        /\ (io.op.kind # "save" => disk' \in {disk, NoFile})
    <3>1. io.op.kind # "save" => Effect(io.op, disk) \in {disk, NoFile}
      BY DEF Effect
    <3> QED BY <1>0, <1>5, <3>1, PerformDue
  <2> QED BY <1>0, <2>1 DEF IntendedInvariant
<1>6. CASE Wipe
  <2>1. disk' = NoFile /\ UNCHANGED <<pending, latest, intended, restored, io>>
    BY <1>6 DEF Wipe, writerVars
  <2> QED BY <1>0, <2>1 DEF IntendedInvariant
<1>7. CASE Quiet
  <2>1. UNCHANGED <<pending, latest, intended, restored, disk>> /\ io'.op = io.op
    BY <1>0, <1>7, QuietDue DEF Quiet, writerVars, historyVars
  <2> QED BY <1>0, <2>1 DEF IntendedInvariant
<1>8. CASE Restart
  <2>1. latest'.kind = "none" /\ pending'.kind = "none" /\ io'.op.kind = "none"
          /\ disk' = intended'
    BY <1>8 DEF Restart, NoIo
  <2> QED BY <2>1 DEF IntendedInvariant, Checks
<1>9. CASE ExpireRestored
  <2>1. /\ restored # 0 /\ restored' = 0 /\ disk' \in {disk, NoFile}
        /\ intended' = IF intended.stamp = restored THEN NoFile ELSE intended
        /\ UNCHANGED <<pending, latest, io>>
    BY <1>9 DEF ExpireRestored, writerVars, IsRestored
  <2>2. intended' = NoFile \/ intended'.stamp # 0
    BY <1>0, <1>a, <2>1 DEF StampInvariant
  <2>3. intended'.kind # "save" \/ intended'.stamp # 0
    BY <2>2
  <2>4. latest.kind = "save" => intended' = intended /\ restored' < intended'.stamp
    BY <1>0, <1>a, <2>1 DEF IntendedInvariant
  <2>5. latest.kind \in Checks => Effect(latest, intended') = intended'
    BY <1>0, <2>1, EffectOfCheck DEF IntendedInvariant
  <2> QED BY <1>0, <2>1, <2>3, <2>4, <2>5 DEF IntendedInvariant
<1> QED BY <1>1, <1>2, <1>3, <1>4, <1>5, <1>6, <1>7, <1>8, <1>9, NextCases

LEMMA FileStep ==
    ASSUME CacheInvariant, Next
    PROVE  FileInvariant'
<1> USE NoOperationFields
<1>0. /\ CallInvariant /\ ChainInvariant /\ StampInvariant /\ IntendedInvariant /\ FileInvariant
      /\ PersistInvariant /\ TypeOK
    BY DEF CacheInvariant
<1>a. restored \in Nat /\ latest.stamp \in Nat /\ intended.stamp \in Nat /\ disk.stamp \in Nat
    <2>1. \A op \in Operation : op.stamp \in Nat
      BY BoundAssumption DEF Operation
    <2> QED BY <1>0, <2>1 DEF TypeOK
<1>1. CASE CommitSubmit
  <2>1. UNCHANGED <<io, generation, disk, kept, settings>> /\ gui.op.kind # "none"
    BY <1>1, CommitCases
  <2>2. Due' = Due /\ Current' = Current
    BY <2>1 DEF Due, Current
  <2>3. CASE UNCHANGED <<pending, latest, intended, superseded>>
    BY <1>0, <2>1, <2>2, <2>3 DEF FileInvariant, Fits, Done
  <2>4. CASE /\ Coalesced(gui.op).kind = "none" \/ Duplicate(Coalesced(gui.op))
             /\ intended' = Effect(gui.op, intended)
             /\ UNCHANGED <<pending, latest, superseded>>
    <3>1. CASE intended' = intended
      BY <1>0, <2>1, <2>2, <2>4, <3>1 DEF FileInvariant, Fits, Done
    <3>2. CASE latest.kind = "clear"
      BY <1>0, <2>1, <2>2, <2>4, <3>2 DEF FileInvariant, Done, Checks
    <3>3. CASE gui.op.kind = "save" /\ intended' = gui.op /\ SameContent(latest, gui.op)
      <4>1. SameContent(latest, intended') /\ latest.kind = "save"
              /\ SameContent(intended, latest)
        BY <1>0, <3>3, SameContentFacts DEF IntendedInvariant
      <4>2. SameContent(intended, intended')
        BY <4>1, SameContentFacts
      <4>3. Fits(disk) => Fits(disk)'
        BY <2>1, <4>2, SameContentFacts DEF Fits
      <4> QED BY <1>0, <2>1, <2>2, <2>4, <4>1, <4>3 DEF FileInvariant, Done, Checks
    <3> QED BY <1>1, <2>4, <3>1, <3>2, <3>3, DroppedChangesNothing
  <2>5. CASE /\ pending' = Coalesced(gui.op) /\ latest' = Coalesced(gui.op)
             /\ intended' = Effect(gui.op, intended)
             /\ Coalesced(gui.op).kind # "none"
             /\ superseded' = (\/ SupersedesCheck(Coalesced(gui.op))
                               \/ superseded /\ Coalesced(gui.op).kind \in Checks)
    <3>1. ~Done'
      BY <2>5 DEF Done
    <3>2. ASSUME settings = "idle", latest'.kind \in Checks, ~superseded'
          PROVE  Fits(Effect(latest, disk))'
      <4>1. Coalesced(gui.op) = gui.op /\ ~VoidCheck(gui.op) /\ ~RefutedCheck(gui.op)
        BY <2>5, <3>2, CoalescedCases, ClearFields DEF Checks
      <4>2. gui.op.kind \in Checks /\ latest \in Operation /\ latest' = gui.op
        BY <1>0, <2>5, <3>2, <4>1 DEF TypeOK
      <4>3. latest.kind = "none" \/ (latest.kind = "producer" /\ gui.op.kind = "producer")
        BY <4>1, <4>2, CheckFollows
      <4>4. ~superseded /\ ~SupersedesCheck(gui.op)
        BY <2>5, <3>2, <4>1, <4>2
      <4>5. Fits(disk)
        <5>1. CASE latest.kind = "none"
          BY <1>0, <3>2, <5>1 DEF FileInvariant, Done, ChainInvariant, Due
        <5>2. CASE latest.kind = "producer" /\ gui.op.kind = "producer"
          <6>1. pending.kind # "producer" /\ ~(io.phase # "none" /\ io.op.kind = "producer")
            BY <4>4, <5>2 DEF SupersedesCheck
          <6>2. pending.kind = "none"
            BY <1>0, <5>2, <6>1 DEF ChainInvariant
          <6>3. ~Current
            BY <1>0, <5>2, <6>1, <6>2 DEF ChainInvariant, Current
          <6> QED BY <1>0, <3>2, <4>4, <5>2, <6>2, <6>3 DEF FileInvariant, Done, Due, Checks
        <5> QED BY <4>3, <5>1, <5>2
      <4>6. disk = NoFile \/ SameContent(disk, intended) \/ disk.stamp = kept
        BY <4>5 DEF Fits
      <4>7. CASE disk = NoFile
        BY <2>1, <4>2, <4>7, EffectOfCheck DEF Fits
      <4>8. CASE SameContent(disk, intended)
        <5>1. Effect(gui.op, disk) = NoFile
                \/ SameContent(Effect(gui.op, disk), Effect(gui.op, intended))
          BY <4>2, <4>8, EffectOfCheckAgrees
        <5> QED BY <2>1, <2>5, <4>2, <5>1 DEF Fits
      <4>9. CASE disk.stamp = kept
        BY <2>1, <4>2, <4>9, EffectOfCheck DEF Fits
      <4> QED BY <4>6, <4>7, <4>8, <4>9
    <3> QED BY <2>1, <3>1, <3>2 DEF FileInvariant
  <2> QED BY <1>1, <2>3, <2>4, <2>5, CommitCases
<1>2. CASE BeginClear
  <2>1. latest'.kind = "clear" /\ io' = Io("gui", Clear(stamp), generation')
    BY <1>2, ClearFields DEF BeginClear
  <2>2. Due'
    BY <2>1 DEF Due, Current, Io
  <2> QED BY <2>1, <2>2 DEF FileInvariant, Done, Checks
<1>3. CASE IoTaken
  <2>1. UNCHANGED <<latest, intended, disk, kept, settings, superseded>>
    BY <1>3 DEF IoTaken, historyVars
  <2>2. ~Done'
    BY <1>3, TakenDue DEF Done
  <2> QED BY <1>0, <2>1, <2>2 DEF FileInvariant, Fits
<1>4. CASE IoEnds
  <2>1. UNCHANGED <<latest, intended, disk, kept, settings, superseded>>
    BY <1>4 DEF IoEnds, historyVars
  <2>2. Done' => Done
    <3>1. CASE pending' = pending /\ (Due => pending.kind # "none")
      BY <3>1 DEF Done
    <3>2. CASE pending' = io.op /\ Due
      BY <1>0, <3>2 DEF Done, CallInvariant, Due, Current
    <3> QED BY <1>4, <3>1, <3>2 DEF IoEnds
  <2> QED BY <1>0, <2>1, <2>2 DEF FileInvariant, Fits
<1>5. CASE PerformIo
  <2> SUFFICES ASSUME settings = "idle" PROVE FileInvariant'
    BY <1>0, <1>5, PerformDue DEF FileInvariant
  <2>1. UNCHANGED <<pending, latest, intended, settings, superseded>>
    BY <1>0, <1>5, PerformDue
  <2>2. Current
    BY <1>0, <1>5, PerformDue DEF CallInvariant, Current
  <2>3. CASE Due' = Current /\ UNCHANGED <<disk, kept>>
    <3>1. Due' = Due
      BY <1>0, <1>5, <2>2, <2>3, PerformDue
    <3> QED BY <1>0, <2>1, <2>3, <3>1 DEF FileInvariant, Fits, Done
  <2>4. CASE ~Due' /\ disk' = Effect(io.op, disk) /\ UNCHANGED kept
    <3>1. CASE pending.kind # "none"
      <4>1. ~Done'
        BY <2>1, <3>1 DEF Done
      <4>2. latest.kind \in Checks => superseded
        BY <1>0, <2>2, <3>1 DEF ChainInvariant
      <4> QED BY <2>1, <4>1, <4>2 DEF FileInvariant
    <3>2. CASE pending.kind = "none"
      <4>1. io.op = latest
        BY <1>0, <2>2, <3>2 DEF ChainInvariant
      <4>2. latest.kind = "save" => Fits(disk)'
        <5> SUFFICES ASSUME latest.kind = "save" PROVE Fits(disk)'
          OBVIOUS
        <5>1. disk' = latest
          BY <2>4, <4>1, EffectOfSave
        <5> QED BY <1>0, <2>1, <5>1, SameContentFacts DEF IntendedInvariant, Fits
      <4>3. latest.kind = "clear" => disk' = NoFile
        BY <2>4, <4>1, EffectOfClear
      <4>4. latest.kind # "none"
        BY <1>0, <2>2 DEF ChainInvariant
      <4>5. latest.kind \in Checks /\ ~superseded => Fits(disk)' /\ Fits(Effect(latest, disk))'
        <5> SUFFICES ASSUME latest.kind \in Checks, ~superseded
                     PROVE  Fits(disk)' /\ Fits(Effect(latest, disk))'
          OBVIOUS
        <5>1. Fits(Effect(latest, disk))
          BY <1>0 DEF FileInvariant
        <5>2. disk' = Effect(latest, disk) /\ Effect(latest, disk') = disk'
          BY <2>4, <4>1, EffectOfCheck
        <5> QED BY <2>1, <2>4, <5>1, <5>2 DEF Fits
      <4> QED BY <2>1, <4>2, <4>3, <4>4, <4>5 DEF FileInvariant
    <3> QED BY <3>1, <3>2
  <2>5. CASE /\ ~Due' /\ io.op.kind \in Checks
             /\ \/ UNCHANGED disk /\ kept' = disk.stamp
                \/ UNCHANGED <<disk, kept>> /\ Effect(io.op, disk) = disk
                \/ disk' = NoFile
    <3>1. CASE pending.kind # "none"
      <4>1. ~Done'
        BY <2>1, <3>1 DEF Done
      <4>2. latest.kind \in Checks => superseded
        BY <1>0, <2>2, <3>1 DEF ChainInvariant
      <4> QED BY <2>1, <4>1, <4>2 DEF FileInvariant
    <3>2. CASE pending.kind = "none"
      <4>1. io.op = latest
        BY <1>0, <2>2, <3>2 DEF ChainInvariant
      <4>2. ASSUME ~superseded PROVE Fits(disk)'
        <5>1. Fits(Effect(latest, disk))
          BY <1>0, <2>5, <4>1, <4>2 DEF FileInvariant
        <5>2. CASE disk' = NoFile \/ (UNCHANGED disk /\ kept' = disk.stamp)
          BY <5>2 DEF Fits
        <5>3. CASE UNCHANGED <<disk, kept>> /\ Effect(io.op, disk) = disk
          BY <2>1, <4>1, <5>1, <5>3 DEF Fits
        <5> QED BY <2>5, <5>2, <5>3
      <4>3. ~superseded => Fits(Effect(latest, disk))'
        BY <2>1, <2>5, <4>1, <4>2, EffectOfCheck DEF Fits
      <4> QED BY <2>1, <2>5, <4>1, <4>2, <4>3 DEF FileInvariant, Checks
    <3> QED BY <3>1, <3>2
  <2> QED BY <1>0, <1>5, <2>3, <2>4, <2>5, PerformDue
<1>6. CASE Invalidate
  BY <1>6 DEF Invalidate, FileInvariant
<1>7. CASE Wipe
  <2>1. disk' = NoFile /\ UNCHANGED <<latest>>
    BY <1>7 DEF Wipe, writerVars
  <2>2. latest.kind \in Checks => Effect(latest, NoFile) = NoFile
    BY EffectOfCheck
  <2> QED BY <2>1, <2>2 DEF FileInvariant, Fits
<1>8. CASE Quiet
  <2>1. UNCHANGED <<pending, latest, intended, disk, kept, superseded>>
          /\ (settings' = "idle" => settings = "idle")
    BY <1>8 DEF Quiet, writerVars, historyVars
  <2> QED BY <1>0, <1>8, <2>1, QuietDue DEF FileInvariant, Fits, Done
<1>9. CASE Restart
  <2>1. latest'.kind = "none" /\ disk' \in {disk, NoFile} /\ intended' = disk'
    BY <1>9 DEF Restart
  <2>2. Fits(disk)'
    BY <1>0, <2>1, SameContentFacts DEF StampInvariant, Fits
  <2> QED BY <2>1, <2>2 DEF FileInvariant, Checks
<1>10. CASE ExpireRestored
  <2>1. /\ restored # 0
        /\ intended' = IF intended.stamp = restored THEN NoFile ELSE intended
        /\ UNCHANGED <<pending, latest, io, settings, superseded, generation>>
    BY <1>10 DEF ExpireRestored, writerVars, IsRestored
  <2>2. Due' = Due
    BY <2>1 DEF Due, Current
  <2>3. latest.kind \in Checks => Effect(latest, NoFile) = NoFile
    BY EffectOfCheck
  <2>4. CASE disk' = (IF disk.stamp = restored THEN NoFile ELSE disk) /\ UNCHANGED kept
    <3>1. CASE intended.stamp = restored
      <4>1. intended.kind = "save"
        BY <1>0, <1>a, <2>1, <3>1 DEF StampInvariant
      <4>2. disk' = NoFile
        BY <1>0, <2>1, <2>4, <3>1, <4>1 DEF IntendedInvariant
      <4> QED BY <2>1, <2>3, <4>2 DEF FileInvariant, Fits
    <3>2. CASE intended.stamp # restored
      <4>1. intended' = intended /\ disk' \in {disk, NoFile}
        BY <2>1, <2>4, <3>2
      <4> QED BY <1>0, <2>1, <2>2, <2>3, <2>4, <4>1 DEF FileInvariant, Fits, Done
    <3> QED BY <3>1, <3>2
  <2>5. CASE disk.stamp = restored /\ kept' = disk.stamp /\ UNCHANGED disk
    <3>1. Fits(disk)'
      BY <2>5 DEF Fits
    <3>2. latest.kind \in Checks => Fits(Effect(latest, disk))'
      BY <2>1, <2>5, EffectOfCheck DEF Fits
    <3>3. disk # NoFile
      BY <2>1, <2>5
    <3> QED BY <1>0, <2>1, <2>2, <2>5, <3>1, <3>2, <3>3 DEF FileInvariant, Done
  <2> QED BY <1>10, <2>4, <2>5 DEF ExpireRestored, IsRestored
<1> QED BY <1>1, <1>2, <1>3, <1>4, <1>5, <1>6, <1>7, <1>8, <1>9, <1>10, NextCases

-----------------------------------------------------------------------------
(* The invariant implies what is asked of the file. *)

LEMMA NothingStaleFollows ==
    ASSUME CacheInvariant
    PROVE  NothingStale
<1> USE NoOperationFields
<1>0. /\ CallInvariant /\ ChainInvariant /\ IntendedInvariant /\ FileInvariant /\ TypeOK
    BY DEF CacheInvariant
<1> SUFFICES ASSUME settings = "idle", ~superseded, NEW file \in Outcomes
             PROVE  Fits(file)
    BY DEF NothingStale, Fits
<1>1. latest.kind \in {"none", "save", "clear"} \cup Checks
    BY <1>0 DEF TypeOK, Operation
<1>2. latest.kind = "save" => Fits(latest)
    BY <1>0, SameContentFacts DEF IntendedInvariant, Fits
<1>3. CASE pending.kind # "none"
  <2>1. pending = latest /\ latest.kind # "none"
    BY <1>0, <1>3 DEF ChainInvariant
  <2>2. \A f : latest.kind = "save" => Effect(latest, f) = latest
    BY EffectOfSave
  <2>3. \A f : latest.kind = "clear" => Effect(latest, f) = NoFile
    BY EffectOfClear
  <2>4. \E f : file = Effect(latest, f)
    BY <2>1 DEF Outcomes
  <2>5. CASE latest.kind \in {"save", "clear"}
    BY <1>2, <2>2, <2>3, <2>4, <2>5 DEF Fits
  <2>6. CASE latest.kind \in Checks
    <3>1. ~Current
      BY <1>0, <1>3, <2>6 DEF ChainInvariant
    <3>2. io.phase = "none" /\ io.op = NoOperation
      BY <1>0, <3>1 DEF CallInvariant, Current, NoIo
    <3>3. Effect(io.op, disk) = disk
      BY <3>2, EffectOfNone
    <3>4. file = Effect(latest, disk)
      BY <2>1, <3>2, <3>3 DEF Outcomes
    <3> QED BY <1>0, <2>6, <3>4 DEF FileInvariant
  <2> QED BY <1>1, <2>1, <2>5, <2>6
<1>4. CASE pending.kind = "none"
  <2>1. \A f : Effect(pending, f) = f
    BY <1>4, EffectOfNone
  <2>2. CASE io.phase = "none"
    <3>1. io.op = NoOperation
      BY <1>0, <2>2 DEF CallInvariant, NoIo
    <3>2. Effect(io.op, disk) = disk
      BY <3>1, EffectOfNone
    <3>3. file = disk
      BY <2>1, <2>2, <3>2 DEF Outcomes
    <3>4. Done
      BY <1>4, <2>2 DEF Done, Due
    <3> QED BY <1>0, <1>1, <3>3, <3>4 DEF FileInvariant, Fits
  <2>3. CASE io.phase # "none"
    <3>1. io.generation = generation
      BY <1>0, <2>3 DEF CallInvariant
    <3>2. io.op = latest /\ latest.kind # "none"
      BY <1>0, <1>4, <2>3, <3>1 DEF ChainInvariant, Current
    <3>3. file = Effect(latest, disk)
      BY <1>4, <2>1, <3>1, <3>2 DEF Outcomes
    <3>4. CASE latest.kind \in {"save", "clear"}
      BY <1>2, <3>3, <3>4, EffectOfSave, EffectOfClear DEF Fits
    <3>5. CASE latest.kind \in Checks
      BY <1>0, <3>3, <3>5 DEF FileInvariant
    <3> QED BY <1>1, <3>2, <3>4, <3>5
  <2> QED BY <2>2, <2>3
<1> QED BY <1>3, <1>4

LEMMA InvariantImpliesSound ==
    ASSUME CacheInvariant
    PROVE  CacheIsSound
<1> USE NoOperationFields
<1>0. CallInvariant /\ StampInvariant /\ CloseInvariant /\ PersistInvariant /\ TypeOK
    BY DEF CacheInvariant
<1>1. LatestSavePersisted
  <2>1. io = NoIo => ~Due
    BY DEF NoIo, Due, Current
  <2> QED BY <1>0, <2>1, SameContentFacts DEF LatestSavePersisted, PersistInvariant
<1>2. DurableClearHolds
    BY <1>0 DEF StampInvariant, DurableClearHolds
<1>3. CloseIsDurable
    BY <1>0 DEF CloseInvariant, CloseIsDurable
<1> QED BY <1>0, <1>1, <1>2, <1>3, NothingStaleFollows DEF CacheIsSound

LEMMA StutterInvariant ==
    ASSUME CacheInvariant, UNCHANGED vars
    PROVE  CacheInvariant'
<1>0. UNCHANGED <<disk, kept, pending, latest, generation, io, gui, settings, closeRequested, closed,
                  closer, closeResult, closeReturned, restored, stamp, intended, superseded,
                  wiped, barrier>>
    BY DEF vars, writerVars, closeVars, historyVars
<1>1. TypeOK'
    BY NextTypes DEF CacheInvariant
<1>2. CallInvariant' /\ StampInvariant'
    BY <1>0 DEF CacheInvariant, CallInvariant, StampInvariant
<1>3. CloseInvariant'
    BY <1>0 DEF CacheInvariant, CloseInvariant, CloserAlive
<1>4. ChainInvariant' /\ PersistInvariant' /\ IntendedInvariant' /\ FileInvariant'
    BY <1>0 DEF CacheInvariant, ChainInvariant, PersistInvariant, IntendedInvariant,
        FileInvariant,
       Fits, Done, Due, Current
<1> QED BY <1>1, <1>2, <1>3, <1>4 DEF CacheInvariant

\* Whatever is submitted, cleared, coalesced, delayed, retried, wiped or lost in a
\* restart, and whichever file operations fail: the cache file never brings back
\* what was retired, but for the very file that could not be read or removed when
\* its turn came or a check that another replaced; at rest it holds the snapshot
\* accepted last, what clear reported as done stays cleared, and close returns True
\* only when all is written
\* (LiveSnapshotCacheWriter and its use in __main__.py).
THEOREM CacheFileIsSound == Spec => []CacheIsSound
<1>1. Init => CacheInvariant
    BY InitInvariant
<1>2. CacheInvariant /\ [Next]_vars => CacheInvariant'
  <2> SUFFICES ASSUME CacheInvariant, [Next]_vars PROVE CacheInvariant'
      OBVIOUS
  <2>1. CASE Next
    <3>1. TypeOK'
      BY <2>1, NextTypes DEF CacheInvariant
    <3> QED BY <2>1, <3>1, CallStep, StampStep, CloseStep, ChainStep, PersistStep, IntendedStep,
               FileStep DEF CacheInvariant
  <2>2. CASE UNCHANGED vars
    BY <2>2, StutterInvariant
  <2> QED BY <2>1, <2>2
<1>3. CacheInvariant => CacheIsSound
    BY InvariantImpliesSound
<1> QED BY <1>1, <1>2, <1>3, PTL DEF Spec
=============================================================================
