-------------------------- MODULE FragmentAssembler --------------------------
(***************************************************************************)
(* _SnapshotFragmentAssembler (screenshot.py): a snapshot too large for    *)
(* one screenshot is sent in chunks, as a generation of the addon's stream *)
(* (a stream per login of a game client).  Screenshots reach the assembler *)
(* in any order, because several threads decode them, and again when the   *)
(* folder is scanned again; every call holds its lock.                     *)
(*                                                                         *)
(* Screenshots are numbered by their source order. Two clients may write   *)
(* to one folder; each counts its generations up.                          *)
(***************************************************************************)
EXTENDS Integers, FiniteSetsExt, SequencesExt

CONSTANTS MaxShots, Streams, MaxGeneration, ChunkCount,
          MaxFaults   \* bound on defects, repeated arrivals and expiries together

ShotAssumption ==
    MaxShots \in Nat \ {0} /\ ChunkCount \in Nat /\ MaxGeneration \in Nat /\ Streams \subseteq Nat \ {0}

Shots == 1..MaxShots
Chunks == 1..ChunkCount
None == 0
NoGroup == [stream |-> None, generation |-> None]
NoPending == [chunks |-> <<>>, files |-> {}, newest |-> None, stale |-> FALSE]

\* A whole snapshot, or a chunk. A defect is a chunk whose bytes or whose metadata
\* (_signature) differ from those of its generation.
Whole == [kind |-> "whole", stream |-> None, generation |-> None, index |-> None]
Fragments == [kind : {"chunk", "bytes", "metadata"}, stream : Streams,
              generation : 1..MaxGeneration, index : Chunks]

VARIABLES
    shot,                \* what each screenshot shows
    group,               \* _stream_id, _generation
    signature,           \* _signature: that of a chunk, or of one whose metadata differ
    completed, poisoned,
    frontier,            \* _frontier_source_key
    pending,             \* _pending: per chunk the screenshot it is from
    barred,              \* _barred_stream_id, _barred_generation
    arrivals,            \* how often each screenshot was handed in
    retired,             \* screenshots given back to be deleted
    accepted,            \* history: the snapshots accepted, each with its sources
    lost                 \* history: chunks that expired
vars == <<shot, group, signature, completed, poisoned, frontier, pending, barred,
          arrivals, retired, accepted, lost>>

Defects(f) == {s \in Shots : f[s].kind \in {"bytes", "metadata"}}
Group(s) == [stream |-> shot[s].stream, generation |-> shot[s].generation]
Signature(s) == IF shot[s].kind = "metadata" THEN "other" ELSE "usual"

\* Each client's generations grow with time. The first chunk may be called stream 1's
\* chunk 1.
Init ==
    /\ shot \in {f \in [Shots -> Fragments \cup {Whole}] :
          /\ Cardinality(Defects(f)) <= MaxFaults
          /\ \A s, u \in Shots : s < u /\ f[s].stream = f[u].stream
                => f[s].generation <= f[u].generation
          /\ \A s \in Shots : f[s] = Whole \/ (f[s].stream = 1 /\ f[s].index = 1)
                             \/ \E u \in 1..s - 1 : f[u] # Whole}
    /\ group = NoGroup /\ signature = "none" /\ completed = FALSE /\ poisoned = FALSE
    /\ frontier = None /\ pending = NoPending /\ barred = NoGroup
    /\ arrivals = [s \in Shots |-> 0] /\ retired = {} /\ accepted = <<>> /\ lost = {}

Faults == Cardinality(Defects(shot)) + Cardinality({s \in Shots : arrivals[s] = 2})
          + (IF pending.stale \/ lost # {} THEN 1 ELSE 0)

\* A screenshot is decoded that has not been deleted: mostly once.
Arrives(s) ==
    /\ s \notin retired
    /\ arrivals[s] = 0 \/ (arrivals[s] = 1 /\ Faults < MaxFaults)
    /\ arrivals' = [arrivals EXCEPT ![s] = @ + 1]

\* _expire_locked and _retire_pending_locked.
ExpiredForgotten == {}    \* mutant
Expired == IF pending.stale THEN pending.files ELSE {}
Alive == IF pending.stale THEN NoPending ELSE pending
NewerOrNone(s) == pending = NoPending \/ s > frontier    \* mutant
Newer(s) == s > frontier

\* accept_snapshot: a whole frame that is new drops the chunks collected, and bars
\* what else comes of their generation.
AcceptSnapshot(s) ==
    /\ shot[s] = Whole /\ Arrives(s)
    /\ lost' = lost \cup Expired
    /\ IF ~Newer(s)
       THEN /\ pending' = Alive /\ retired' = retired \cup Expired
            /\ UNCHANGED <<group, signature, completed, poisoned, frontier, barred, accepted>>
       ELSE /\ pending' = NoPending /\ retired' = retired \cup pending.files
            /\ barred' = IF group # NoGroup THEN group ELSE barred
            /\ group' = NoGroup /\ signature' = "none"
            /\ completed' = FALSE /\ poisoned' = FALSE
            /\ frontier' = s
            /\ accepted' = Append(accepted, [newest |-> s, sources |-> {s}])
    /\ UNCHANGED shot

\* The early returns of accept_fragment: a generation that was barred, is behind the
\* stream's current one, or of another stream and not newer; or one that is done.
BehindBySource(s) ==    \* mutant
    Group(s).stream = barred.stream \/ ~Newer(s) \/ (Group(s) = group /\ (completed \/ poisoned))
Behind(s) ==
    \/ Group(s).stream = barred.stream /\ Group(s).generation <= barred.generation
    \/ Group(s).stream # group.stream /\ ~Newer(s)
    \/ Group(s).stream = group.stream /\ Group(s).generation < group.generation
    \/ Group(s) = group /\ (completed \/ poisoned)

DropFragment(s) ==
    /\ shot[s] # Whole /\ Arrives(s) /\ Behind(s)
    /\ pending' = Alive /\ retired' = retired \cup Expired \cup {s}
    /\ lost' = lost \cup Expired
    /\ UNCHANGED <<shot, group, signature, completed, poisoned, frontier, barred, accepted>>

\* A chunk whose metadata conflict with its generation: that is given up.
ConflictingMetadata(s) ==
    /\ shot[s] # Whole /\ Arrives(s) /\ ~Behind(s)
    /\ Group(s) = group /\ Signature(s) # signature
    /\ pending' = NoPending /\ retired' = retired \cup pending.files \cup {s}
    /\ poisoned' = TRUE /\ lost' = lost \cup Expired
    /\ UNCHANGED <<shot, group, signature, completed, frontier, barred, accepted>>

\* Another stream, or a later generation, starts anew; otherwise the chunks are
\* added to those collected.
CollectedOfStream(s) == IF Group(s).stream = group.stream THEN Alive ELSE NoPending    \* mutant
Collected(s) == IF Group(s) = group THEN Alive ELSE NoPending
Same(s, t) == shot[s].kind = shot[t].kind

AcceptFragment(s) ==
    LET before == Collected(s)
        index == shot[s].index
        files == before.files \cup {s}
        conflict == index \in DOMAIN before.chunks /\ ~Same(before.chunks[index], s)
        chunks == [i \in DOMAIN before.chunks \cup {index} |->
                      IF i = index THEN s ELSE before.chunks[i]]
        newest == Max({before.newest, s})
        full == DOMAIN chunks = Chunks
        sources == {chunks[i] : i \in DOMAIN chunks}
        valid == \A c \in sources : shot[c].kind = "chunk"
        dropped == (Expired \cup (pending.files \ before.files)) \ {s}
    IN  /\ shot[s] # Whole /\ Arrives(s) /\ ~Behind(s)
        /\ Group(s) = group => Signature(s) = signature
        /\ group' = Group(s)
        /\ signature' = IF Group(s) = group THEN signature ELSE Signature(s)
        /\ frontier' = Max({frontier, s})
        /\ pending' = IF conflict \/ full THEN NoPending
                      ELSE [chunks |-> chunks, files |-> files, newest |-> newest, stale |-> FALSE]
        /\ retired' = retired \cup dropped \cup (IF conflict \/ full THEN files ELSE {})
        /\ completed' = (full /\ ~conflict /\ valid)
        /\ poisoned' = (conflict \/ (full /\ ~valid))
        /\ accepted' = IF full /\ ~conflict /\ valid
                       THEN Append(accepted, [newest |-> newest, sources |-> sources]) ELSE accepted
        /\ lost' = lost \cup Expired
        /\ UNCHANGED <<shot, barred>>

\* _ttl_seconds pass without a chunk; expire, from its timer.
GrowStale ==
    /\ pending # NoPending /\ ~pending.stale
    /\ Faults < MaxFaults
    /\ pending' = [pending EXCEPT !.stale = TRUE]
    /\ UNCHANGED <<shot, group, signature, completed, poisoned, frontier, barred, arrivals,
                   retired, accepted, lost>>

Expire ==
    /\ pending.stale
    /\ pending' = NoPending
    /\ retired' = retired \cup pending.files /\ lost' = lost \cup pending.files
    /\ UNCHANGED <<shot, group, signature, completed, poisoned, frontier, barred, arrivals, accepted>>

Next ==
    \/ \E s \in Shots : AcceptSnapshot(s) \/ DropFragment(s) \/ ConflictingMetadata(s) \/ AcceptFragment(s)
    \/ GrowStale \/ Expire

Spec == Init /\ [][Next]_vars

-----------------------------------------------------------------------------
(* Properties. *)

\* What is assembled is one generation of one stream, every chunk of it, unharmed,
\* whatever order, repetition or defect the screenshots came with.
NeverMixed ==
    \A i \in DOMAIN accepted : LET S == accepted[i].sources IN
        \/ \E s \in S : S = {s} /\ shot[s] = Whole
        \/ /\ {shot[s].index : s \in S} = Chunks
           /\ \A s, u \in S : Group(s) = Group(u) /\ shot[s].kind = "chunk"

\* No snapshot follows one that is as new or newer (the frontier, _barred_generation),
\* unless a chunk expired: what then comes of its generation is collected again, and
\* may be older.
AcceptedInOrder ==
    lost = {} => \A i, j \in DOMAIN accepted : i < j => accepted[i].newest < accepted[j].newest

\* A chunk is collected or its file is given back for deletion, never both, and not
\* kept from either: no chunk is leaked or deleted while it is needed.
FilesAccounted ==
    /\ pending.files \cap retired = {}
    /\ \A s \in Shots : shot[s] # Whole /\ arrivals[s] > 0 => s \in retired \cup pending.files

\* Once all have arrived, the last snapshot that was sent in full, and after
\* everything else, was accepted, however its chunks were ordered.
NewestAccepted ==
    LET S == IF shot[MaxShots] = Whole THEN {MaxShots}
             ELSE {s \in Shots : Group(s) = Group(MaxShots)}
    IN  /\ \A s \in Shots : arrivals[s] > 0
        /\ lost = {}
        /\ \A s \in S, u \in Shots \ S : u < s
        /\ \A s \in S : shot[s].kind \in {"whole", "chunk"}
        /\ shot[MaxShots] # Whole => {shot[s].index : s \in S} = Chunks
        => accepted # <<>> /\ accepted[Len(accepted)].newest \in S

-----------------------------------------------------------------------------
(* Why: an inductive invariant. *)

Groups == [stream : Streams, generation : 1..MaxGeneration]
Arrived(s) == arrivals[s] > 0

TypeOK ==
    /\ shot \in [Shots -> Fragments \cup {Whole}]
    /\ \A s, u \in Shots :
          s < u /\ shot[s].stream = shot[u].stream => shot[s].generation <= shot[u].generation
    /\ group \in Groups \cup {NoGroup} /\ barred \in Groups \cup {NoGroup}
    /\ signature \in {"none", "usual", "other"} /\ completed \in BOOLEAN /\ poisoned \in BOOLEAN
    /\ frontier \in 0..MaxShots /\ arrivals \in [Shots -> Nat]
    /\ retired \subseteq Shots /\ lost \subseteq Shots
    /\ accepted \in Seq([newest : Shots, sources : SUBSET Shots])

\* The chunks collected are of the current generation, which is not settled yet.
PendingInvariant ==
    /\ pending = [chunks |-> pending.chunks, files |-> pending.files,
                  newest |-> pending.newest, stale |-> pending.stale]
    /\ pending.stale \in BOOLEAN /\ pending.files \subseteq Shots
    /\ pending.newest \in 0..frontier /\ pending.newest \in pending.files \cup {None}
    /\ \A i \in DOMAIN pending.chunks :
          i \in Chunks /\ pending.chunks[i] \in pending.files /\ shot[pending.chunks[i]].index = i
    /\ \A f \in pending.files :
          /\ shot[f] # Whole /\ Group(f) = group /\ Arrived(f) /\ f <= pending.newest
          /\ shot[f].index \in DOMAIN pending.chunks
    /\ pending.files # {} => ~completed /\ ~poisoned /\ DOMAIN pending.chunks # Chunks

\* The frontier and the groups known are of screenshots that have arrived, and no
\* generation that was barred is collected again.
SourceInvariant ==
    /\ frontier # None => Arrived(frontier)
    /\ \A g \in {group, barred} :
          g # NoGroup => \E s \in Shots : shot[s] # Whole /\ Arrived(s) /\ Group(s) = g
    /\ group # NoGroup /\ group.stream = barred.stream => group.generation > barred.generation

\* What is collected, and every later generation of the stream, is newer than all
\* that was accepted.
Later(s) == shot[s].stream = group.stream /\ shot[s].generation > group.generation
OrderInvariant ==
    /\ \A i \in DOMAIN accepted : accepted[i].newest <= frontier
    /\ lost = {} /\ group # NoGroup => \A i \in DOMAIN accepted, s \in Shots :
          Later(s) => accepted[i].newest < s
    /\ lost = {} /\ group # NoGroup /\ ~completed /\ ~poisoned =>
          /\ pending.files # {}
          /\ \A i \in DOMAIN accepted : accepted[i].newest < pending.newest

\* Once a chunk of the generation sent last has arrived, that generation stays the
\* current one, and all its chunks are kept until it is accepted.
Ours == {s \in Shots : Group(s) = Group(MaxShots)}
OursSentWell ==
    /\ shot[MaxShots] # Whole
    /\ \A s \in Ours, u \in Shots \ Ours : u < s
    /\ \A s \in Ours : shot[s].kind = "chunk"
LastInvariant ==
    lost = {} =>
        /\ shot[MaxShots] = Whole /\ Arrived(MaxShots) =>
              accepted # <<>> /\ accepted[Len(accepted)].newest = MaxShots
        /\ OursSentWell /\ (\E s \in Ours : Arrived(s)) =>
              /\ group = Group(MaxShots) /\ frontier \in Ours
              /\ signature = "usual" /\ ~poisoned
              /\ IF completed THEN accepted # <<>> /\ accepted[Len(accepted)].newest \in Ours
                 ELSE \A s \in Ours : Arrived(s) => s \in pending.files

FragmentsInvariant ==
    /\ TypeOK /\ PendingInvariant /\ SourceInvariant /\ OrderInvariant /\ LastInvariant
    /\ NeverMixed /\ FilesAccounted /\ AcceptedInOrder
=============================================================================
