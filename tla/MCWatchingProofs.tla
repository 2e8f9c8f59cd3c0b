---------------------------- MODULE MCWatchingProofs ----------------------------
EXTENDS MCWatching, SequenceTheorems, FiniteSetTheorems, WellFoundedInduction, TLAPS

-----------------------------------------------------------------------------
(* FragmentAssembler. *)

LEMMA MaxOfTwo ==
  ASSUME NEW a \in Nat, NEW b \in Nat
  PROVE  Frag!Max({a, b}) \in {a, b} /\ Frag!Max({a, b}) >= a
           /\ Frag!Max({a, b}) >= b
<1>1. \E x \in {a, b} : \A y \in {a, b} : x >= y
  BY SMT
<1> QED BY <1>1 DEF Frag!Max

LEMMA ShotFacts ==
  ASSUME Frag!TypeOK, NEW s \in Frag!Shots
  PROVE  /\ s \in Nat /\ s > 0 /\ s <= MaxShots /\ MaxShots \in Frag!Shots
         /\ shot[s] = Frag!Whole => Frag!Group(s) = Frag!NoGroup
              /\ shot[s].kind = "whole"
         /\ shot[s] # Frag!Whole =>
               /\ Frag!Group(s) \in Frag!Groups
                    /\ Frag!Group(s) # Frag!NoGroup /\ shot[s].kind # "whole"
               /\ shot[s].stream \in Streams /\ shot[s].stream # Frag!None
               /\ shot[s].generation \in Nat /\ shot[s].index \in Frag!Chunks
<1>1. s \in Nat /\ s > 0 /\ s <= MaxShots /\ MaxShots \in Frag!Shots
  BY FragmentsAssumption DEF Frag!Shots, Frag!ShotAssumption
<1>2. shot[s] \in Frag!Fragments \cup {Frag!Whole}
  BY DEF Frag!TypeOK
<1>3. shot[s] = Frag!Whole => Frag!Group(s) = Frag!NoGroup
        /\ shot[s].kind = "whole"
  BY DEF Frag!Group, Frag!NoGroup, Frag!Whole
<1>4. ASSUME shot[s] \in Frag!Fragments
      PROVE  /\ Frag!Group(s) \in Frag!Groups
                  /\ Frag!Group(s) # Frag!NoGroup /\ shot[s].kind # "whole"
             /\ shot[s].stream \in Streams /\ shot[s].stream # Frag!None
             /\ shot[s].generation \in Nat /\ shot[s].index \in Frag!Chunks
  <2>1. /\ shot[s].stream \in Streams /\ shot[s].generation \in 1..MaxGeneration
        /\ shot[s].index \in Frag!Chunks /\ shot[s].kind \in {"chunk", "bytes", "metadata"}
    BY <1>4 DEF Frag!Fragments
  <2>2. shot[s].stream # Frag!None /\ shot[s].generation \in Nat
    BY <2>1, FragmentsAssumption DEF Frag!ShotAssumption, Frag!None
  <2>3. Frag!Group(s) \in Frag!Groups /\ Frag!Group(s) # Frag!NoGroup
    BY <2>1, <2>2 DEF Frag!Group, Frag!Groups, Frag!NoGroup
  <2> QED BY <2>1, <2>2, <2>3
<1> QED BY <1>1, <1>2, <1>3, <1>4

LEMMA GroupFacts ==
  ASSUME Frag!TypeOK
  PROVE  /\ \A g \in {group, barred} : g.stream \in Nat /\ g.generation \in Nat
         /\ \A g \in {group, barred} : g # Frag!NoGroup => g.stream # Frag!None
         /\ \A g \in {group, barred} : g = [stream |-> g.stream, generation |-> g.generation]
<1>1. \A g \in Frag!Groups \cup {Frag!NoGroup} : /\ g.stream \in Nat
                                                                /\ g.generation \in Nat
                                                 /\ g # Frag!NoGroup
                                                      => g.stream # Frag!None
                                                 /\ g = [stream |-> g.stream,
                                                        generation |-> g.generation]
  <2>1. ASSUME NEW g \in Frag!Groups
        PROVE  /\ g.stream \in Nat /\ g.generation \in Nat /\ g.stream # Frag!None
               /\ g = [stream |-> g.stream, generation |-> g.generation]
    <3>1. g.stream \in Streams /\ g.generation \in 1..MaxGeneration
      BY DEF Frag!Groups
    <3>2. g = [stream |-> g.stream, generation |-> g.generation]
      BY DEF Frag!Groups
    <3> QED BY <3>1, <3>2, FragmentsAssumption DEF Frag!ShotAssumption, Frag!None
  <2>2. /\ Frag!NoGroup.stream \in Nat /\ Frag!NoGroup.generation \in Nat
        /\ Frag!NoGroup = [stream |-> Frag!NoGroup.stream,
               generation |-> Frag!NoGroup.generation]
    BY DEF Frag!NoGroup, Frag!None
  <2> QED BY <2>1, <2>2
<1> QED BY <1>1 DEF Frag!TypeOK

LEMMA AppendAccepted ==
  ASSUME Frag!TypeOK,
             NEW r \in [newest : Frag!Shots, sources : SUBSET Frag!Shots],
                 accepted' = Append(accepted, r)
  PROVE  /\ accepted' \in Seq([newest : Frag!Shots, sources : SUBSET Frag!Shots])
              /\ accepted' # <<>>
         /\ accepted'[Len(accepted')] = r
         /\ DOMAIN accepted = 1..Len(accepted) /\ DOMAIN accepted' = 1..(Len(accepted) + 1)
         /\ Len(accepted) \in Nat
         /\ \A i \in DOMAIN accepted : accepted'[i] = accepted[i]
         /\ accepted'[Len(accepted) + 1] = r
  BY DEF Frag!TypeOK

LEMMA AcceptedFacts ==
  ASSUME Frag!TypeOK
  PROVE  /\ DOMAIN accepted = 1..Len(accepted) /\ Len(accepted) \in Nat
         /\ \A i \in DOMAIN accepted : accepted[i].newest \in Frag!Shots
              /\ accepted[i].sources \subseteq Frag!Shots
         /\ accepted # <<>> => Len(accepted) \in DOMAIN accepted
<1>1. accepted \in Seq([newest : Frag!Shots, sources : SUBSET Frag!Shots])
  BY DEF Frag!TypeOK
<1>2. DOMAIN accepted = 1..Len(accepted) /\ Len(accepted) \in Nat
  BY <1>1
<1>3. \A i \in DOMAIN accepted : accepted[i].newest \in Frag!Shots
        /\ accepted[i].sources \subseteq Frag!Shots
  <2> SUFFICES ASSUME NEW i \in DOMAIN accepted
               PROVE  accepted[i].newest \in Frag!Shots
                        /\ accepted[i].sources \subseteq Frag!Shots
    OBVIOUS
  <2>1. accepted[i] \in [newest : Frag!Shots, sources : SUBSET Frag!Shots]
    BY <1>1, <1>2, ElementOfSeq
  <2> QED BY <2>1
<1>4. accepted # <<>> => Len(accepted) # 0
  BY <1>1
<1> QED BY <1>2, <1>3, <1>4

LEMMA FragmentsInit == Frag!Init => Frag!FragmentsInvariant
<1> SUFFICES ASSUME Frag!Init PROVE Frag!FragmentsInvariant
  OBVIOUS
<1>1. /\ group = Frag!NoGroup /\ barred = Frag!NoGroup
           /\ fragmentsPending = Frag!NoPending /\ fragmentsFrontier = Frag!None
      /\ accepted = <<>> /\ retired = {} /\ lost = {} /\ ~completed /\ ~poisoned
      /\ signature = "none" /\ completed \in BOOLEAN /\ poisoned \in BOOLEAN
      /\ arrivals = [s \in Frag!Shots |-> 0]
           /\ shot \in [Frag!Shots -> Frag!Fragments \cup {Frag!Whole}]
      /\ \A s, u \in Frag!Shots :
          s < u /\ shot[s].stream = shot[u].stream => shot[s].generation <= shot[u].generation
  BY DEF Frag!Init
<1>2. DOMAIN fragmentsPending.chunks = {} /\ fragmentsPending.files = {}
        /\ fragmentsPending.newest = Frag!None /\ fragmentsPending.stale = FALSE
  BY <1>1 DEF Frag!NoPending
<1>3. \A s \in Frag!Shots : ~Frag!Arrived(s)
  BY <1>1 DEF Frag!Arrived
<1>4. DOMAIN accepted = {}
  BY <1>1
<1>5. Frag!TypeOK
  <2>1. fragmentsFrontier \in 0..MaxShots
    BY <1>1, FragmentsAssumption DEF Frag!ShotAssumption, Frag!None
  <2> QED BY <1>1, <2>1 DEF Frag!TypeOK
<1>6. Frag!PendingInvariant
  <2>1. fragmentsPending = [chunks |-> fragmentsPending.chunks,
            files |-> fragmentsPending.files,
                  newest |-> fragmentsPending.newest, stale |-> fragmentsPending.stale]
    BY <1>1 DEF Frag!NoPending
  <2>2. fragmentsPending.newest \in 0..fragmentsFrontier
          /\ fragmentsPending.newest \in fragmentsPending.files \cup {Frag!None}
    BY <1>1, <1>2 DEF Frag!None
  <2> QED BY <1>2, <2>1, <2>2 DEF Frag!PendingInvariant
<1>7. Frag!SourceInvariant /\ Frag!OrderInvariant
  BY <1>1, <1>4 DEF Frag!SourceInvariant, Frag!OrderInvariant
<1>8. Frag!LastInvariant
  <2>1. MaxShots \in Frag!Shots
    BY FragmentsAssumption DEF Frag!ShotAssumption, Frag!Shots
  <2> QED BY <1>3, <2>1 DEF Frag!LastInvariant, Frag!Ours
<1>9. Frag!NeverMixed /\ Frag!AcceptedInOrder
  BY <1>4 DEF Frag!NeverMixed, Frag!AcceptedInOrder
<1>10. Frag!FilesAccounted
  BY <1>1, <1>2, <1>3 DEF Frag!FilesAccounted, Frag!Arrived
<1> QED BY <1>5, <1>6, <1>7, <1>8, <1>9, <1>10 DEF Frag!FragmentsInvariant

\* A chunk of the generation sent last is dropped only when that one was accepted.
LEMMA OursBehind ==
  ASSUME Frag!FragmentsInvariant, lost = {}, Frag!OursSentWell,
             NEW t \in Frag!Ours, Frag!Behind(t)
  PROVE  completed /\ \E u \in Frag!Ours : Frag!Arrived(u)
<1> USE DEF Frag!FragmentsInvariant
<1>1. t \in Frag!Shots /\ Frag!Group(t) = Frag!Group(MaxShots)
        /\ MaxShots \in Frag!Shots /\ shot[t] # Frag!Whole
  <2>1. t \in Frag!Shots /\ Frag!Group(t) = Frag!Group(MaxShots)
          /\ MaxShots \in Frag!Shots
    BY FragmentsAssumption DEF Frag!Ours, Frag!ShotAssumption, Frag!Shots
  <2>2. Frag!Group(t) # Frag!NoGroup
    BY <2>1, ShotFacts DEF Frag!OursSentWell
  <2> QED BY <2>1, <2>2, ShotFacts
<1>2. CASE \E u \in Frag!Ours : Frag!Arrived(u)
  <2>1. group = Frag!Group(t) /\ ~poisoned
    BY <1>1, <1>2 DEF Frag!LastInvariant
  <2>2. Frag!Group(t).stream = group.stream
          /\ Frag!Group(t).generation = group.generation /\ group # Frag!NoGroup
    BY <1>1, <2>1, ShotFacts
  <2>3. group.generation \in Nat /\ barred.generation \in Nat
    BY GroupFacts
  <2>5. Frag!SourceInvariant
    OBVIOUS
  <2>6. group # Frag!NoGroup /\ group.stream = barred.stream
          => group.generation > barred.generation
    BY <2>5 DEF Frag!SourceInvariant
  <2>4. ~(Frag!Group(t).stream = barred.stream
          /\ Frag!Group(t).generation <= barred.generation)
    BY <2>2, <2>3, <2>6
  <2> QED BY <1>2, <2>1, <2>2, <2>3, <2>4 DEF Frag!Behind
<1>3. CASE \A u \in Frag!Ours : ~Frag!Arrived(u)
  <2>1. \A b \in Frag!Shots : shot[b] # Frag!Whole /\ Frag!Arrived(b) =>
           /\ Frag!Group(b) # Frag!Group(t)
           /\ Frag!Group(b).stream = Frag!Group(t).stream
                => Frag!Group(b).generation < Frag!Group(t).generation
    <3> SUFFICES ASSUME NEW b \in Frag!Shots, shot[b] # Frag!Whole,
                            Frag!Arrived(b)
                 PROVE  /\ Frag!Group(b) # Frag!Group(t)
                        /\ Frag!Group(b).stream = Frag!Group(t).stream
                             => Frag!Group(b).generation < Frag!Group(t).generation
      OBVIOUS
    <3>1. b \notin Frag!Ours /\ Frag!Group(b) # Frag!Group(t)
      BY <1>1, <1>3 DEF Frag!Ours
    <3>2. b < t
      BY <3>1 DEF Frag!OursSentWell
    <3>3. shot[b].stream = shot[t].stream => shot[b].generation <= shot[t].generation
      BY <1>1, <3>2 DEF Frag!TypeOK
    <3>4. shot[b].generation \in Nat /\ shot[t].generation \in Nat
      BY <1>1, ShotFacts
    <3> QED BY <3>1, <3>3, <3>4 DEF Frag!Group
  <2>2. \A g \in {group, barred} : g # Frag!NoGroup =>
           g # Frag!Group(t)
             /\ (g.stream = Frag!Group(t).stream => g.generation < Frag!Group(t).generation)
    BY <2>1 DEF Frag!SourceInvariant
  <2>3. Frag!Group(t).stream # Frag!None /\ Frag!Group(t).generation \in Nat
    BY <1>1, ShotFacts DEF Frag!Group
  <2>4. group = Frag!NoGroup => group.stream = Frag!None
    BY DEF Frag!NoGroup
  <2>5. barred = Frag!NoGroup => barred.stream = Frag!None
    BY DEF Frag!NoGroup
  <2>6. Frag!Newer(t)
    <3>1. fragmentsFrontier # Frag!None
            => fragmentsFrontier \in Frag!Shots \ Frag!Ours
      BY <1>3, FragmentsAssumption DEF Frag!SourceInvariant, Frag!TypeOK,
         Frag!Shots, Frag!None, Frag!ShotAssumption
    <3>2. fragmentsFrontier # Frag!None => fragmentsFrontier < t
      BY <3>1 DEF Frag!OursSentWell
    <3> QED BY <1>1, <3>2, ShotFacts DEF Frag!Newer, Frag!None
  <2>7. group # Frag!Group(t)
    BY <2>2, <2>3, <2>4 DEF Frag!Group
  <2>8. Frag!Group(t).stream = group.stream
          => group.generation < Frag!Group(t).generation
    BY <2>2, <2>3, <2>4
  <2>9. Frag!Group(t).stream = barred.stream
          => barred.generation < Frag!Group(t).generation
    BY <2>2, <2>3, <2>5
  <2>10. group.generation \in Nat /\ barred.generation \in Nat
    BY GroupFacts
  <2> QED BY <2>3, <2>6, <2>7, <2>8, <2>9, <2>10 DEF Frag!Behind
<1> QED BY <1>2, <1>3

\* Steps that accept nothing: the chunks collected stay, or they expire.
LEMMA FragmentsKeep ==
  ASSUME Frag!FragmentsInvariant, NEW R \in SUBSET Frag!Shots,
         UNCHANGED <<shot, group, signature, completed, poisoned, fragmentsFrontier, barred,
             accepted>>,
         arrivals' \in [Frag!Shots -> Nat],
             \A t \in Frag!Shots : Frag!Arrived(t) => Frag!Arrived(t)',
         \A t \in Frag!Shots : shot[t] # Frag!Whole /\ Frag!Arrived(t)'
           => Frag!Arrived(t) \/ t \in R,
         shot[MaxShots] = Frag!Whole /\ Frag!Arrived(MaxShots)'
           => Frag!Arrived(MaxShots),
         lost = {} /\ Frag!OursSentWell =>
             \A t \in Frag!Ours : Frag!Arrived(t)' => Frag!Arrived(t)
               \/ (completed /\ \E u \in Frag!Ours : Frag!Arrived(u)),
         R \cap fragmentsPending.files = {},
         \/ /\ fragmentsPending' = [chunks |-> fragmentsPending.chunks,
                   files |-> fragmentsPending.files,
                           newest |-> fragmentsPending.newest,
                               stale |-> fragmentsPending'.stale]
            /\ fragmentsPending'.stale \in BOOLEAN /\ retired' = retired \cup R /\ lost' = lost
         \/ /\ fragmentsPending' = Frag!NoPending
                 /\ retired' = retired \cup fragmentsPending.files \cup R
            /\ lost' = lost \cup fragmentsPending.files
  PROVE  Frag!FragmentsInvariant'
<1> USE DEF Frag!FragmentsInvariant
<1>1. /\ \A s : Frag!Group(s)' = Frag!Group(s)
           /\ Frag!Later(s)' = Frag!Later(s)
      /\ Frag!Ours' = Frag!Ours /\ Frag!OursSentWell' = Frag!OursSentWell
  BY DEF Frag!Group, Frag!Later, Frag!Ours, Frag!OursSentWell
<1>2. Frag!TypeOK'
  <2>1. retired' \subseteq Frag!Shots /\ lost' \subseteq Frag!Shots
    BY DEF Frag!TypeOK, Frag!PendingInvariant
  <2> QED BY <2>1 DEF Frag!TypeOK
<1>3. \/ /\ fragmentsPending'.chunks = fragmentsPending.chunks
              /\ fragmentsPending'.files = fragmentsPending.files
         /\ fragmentsPending'.newest = fragmentsPending.newest /\ retired' = retired \cup R
              /\ lost' = lost
      \/ /\ DOMAIN fragmentsPending'.chunks = {} /\ fragmentsPending'.files = {}
              /\ fragmentsPending'.newest = Frag!None
         /\ retired' = retired \cup fragmentsPending.files \cup R
              /\ lost' = lost \cup fragmentsPending.files
  BY DEF Frag!NoPending
<1>4. Frag!PendingInvariant'
  <2>1. /\ fragmentsPending'.stale \in BOOLEAN
        /\ fragmentsPending' = [chunks |-> fragmentsPending'.chunks,
               files |-> fragmentsPending'.files,
                       newest |-> fragmentsPending'.newest, stale |-> fragmentsPending'.stale]
    <3>1. CASE fragmentsPending' = Frag!NoPending
      BY <3>1 DEF Frag!NoPending
    <3>2. CASE /\ fragmentsPending' = [chunks |-> fragmentsPending.chunks,
                      files |-> fragmentsPending.files,
                              newest |-> fragmentsPending.newest,
                                  stale |-> fragmentsPending'.stale]
               /\ fragmentsPending'.stale \in BOOLEAN
      <4>1. fragmentsPending'.chunks = fragmentsPending.chunks
              /\ fragmentsPending'.files = fragmentsPending.files
                   /\ fragmentsPending'.newest = fragmentsPending.newest
        BY <1>3, <3>2
      <4> QED BY <3>2, <4>1
    <3> QED BY <3>1, <3>2
  <2>2. fragmentsPending'.newest \in 0..fragmentsFrontier'
          /\ fragmentsPending'.newest \in fragmentsPending'.files \cup {Frag!None}
    BY <1>3 DEF Frag!PendingInvariant, Frag!None, Frag!TypeOK
  <2>3. \A i \in DOMAIN fragmentsPending'.chunks :
          i \in Frag!Chunks /\ fragmentsPending'.chunks[i] \in fragmentsPending'.files
            /\ shot'[fragmentsPending'.chunks[i]].index = i
    BY <1>3 DEF Frag!PendingInvariant
  <2>4. fragmentsPending'.files \subseteq Frag!Shots /\ \A f \in fragmentsPending'.files :
          /\ shot'[f] # Frag!Whole /\ Frag!Group(f)' = group'
               /\ Frag!Arrived(f)' /\ f <= fragmentsPending'.newest
          /\ shot'[f].index \in DOMAIN fragmentsPending'.chunks
    BY <1>1, <1>3 DEF Frag!PendingInvariant
  <2>5. fragmentsPending'.files # {} => ~completed' /\ ~poisoned'
          /\ DOMAIN fragmentsPending'.chunks # Frag!Chunks
    BY <1>3 DEF Frag!PendingInvariant
  <2> QED BY <2>1, <2>2, <2>3, <2>4, <2>5 DEF Frag!PendingInvariant
<1>5. Frag!SourceInvariant'
  <2>1. fragmentsFrontier' # Frag!None => Frag!Arrived(fragmentsFrontier)'
    BY DEF Frag!SourceInvariant, Frag!Arrived, Frag!TypeOK, Frag!Shots,
       Frag!None
  <2>2. \A g \in {group', barred'} :
          g # Frag!NoGroup => \E s \in Frag!Shots : shot'[s] # Frag!Whole
            /\ Frag!Arrived(s)' /\ Frag!Group(s)' = g
    BY <1>1 DEF Frag!SourceInvariant
  <2>3. group # Frag!NoGroup /\ group.stream = barred.stream
          => group.generation > barred.generation
    BY DEF Frag!SourceInvariant
  <2> QED BY <2>1, <2>2, <2>3 DEF Frag!SourceInvariant
<1>6. Frag!OrderInvariant'
  <2>1. lost' = {} => lost = {}
          /\ (fragmentsPending.files # {} => fragmentsPending'.files = fragmentsPending.files
               /\ fragmentsPending'.newest = fragmentsPending.newest)
    BY <1>3
  <2> QED BY <1>1, <2>1 DEF Frag!OrderInvariant
<1>7. Frag!LastInvariant'
  <2> SUFFICES ASSUME lost' = {} PROVE
        /\ shot[MaxShots] = Frag!Whole /\ Frag!Arrived(MaxShots)' =>
              accepted # <<>> /\ accepted[Len(accepted)].newest = MaxShots
        /\ Frag!OursSentWell /\ (\E s \in Frag!Ours : Frag!Arrived(s)') =>
              /\ group = Frag!Group(MaxShots) /\ fragmentsFrontier \in Frag!Ours
              /\ signature = "usual" /\ ~poisoned
              /\ IF completed THEN accepted # <<>>
                   /\ accepted[Len(accepted)].newest \in Frag!Ours
                 ELSE \A s \in Frag!Ours : Frag!Arrived(s)'
                   => s \in fragmentsPending'.files
    BY <1>1 DEF Frag!LastInvariant
  <2>1. lost = {} /\ (fragmentsPending.files # {} => fragmentsPending'.files = fragmentsPending.files)
    BY <1>3
  <2>2. shot[MaxShots] = Frag!Whole /\ Frag!Arrived(MaxShots)' =>
              accepted # <<>> /\ accepted[Len(accepted)].newest = MaxShots
    BY <2>1 DEF Frag!LastInvariant
  <2>3. ASSUME Frag!OursSentWell, NEW s \in Frag!Ours, Frag!Arrived(s)'
        PROVE  /\ group = Frag!Group(MaxShots) /\ fragmentsFrontier \in Frag!Ours
               /\ signature = "usual" /\ ~poisoned
               /\ IF completed THEN accepted # <<>>
                    /\ accepted[Len(accepted)].newest \in Frag!Ours
                  ELSE \A x \in Frag!Ours : Frag!Arrived(x)'
                    => x \in fragmentsPending'.files
    <3>1. \E u \in Frag!Ours : Frag!Arrived(u)
      BY <2>1, <2>3
    <3>2. ~completed => \A x \in Frag!Ours : Frag!Arrived(x)' => Frag!Arrived(x)
      BY <2>1, <2>3
    <3> QED BY <2>1, <2>3, <3>1, <3>2 DEF Frag!LastInvariant
  <2> QED BY <2>2, <2>3
<1>8. Frag!NeverMixed' /\ Frag!AcceptedInOrder'
  <2>1. lost' = {} => lost = {}
    BY <1>3
  <2> QED BY <1>1, <2>1 DEF Frag!NeverMixed, Frag!AcceptedInOrder
<1>9. Frag!FilesAccounted'
  <2>1. fragmentsPending.files \cap retired = {}
          /\ \A s \in Frag!Shots : shot[s] # Frag!Whole /\ Frag!Arrived(s)
               => s \in retired \cup fragmentsPending.files
    BY DEF Frag!FilesAccounted, Frag!Arrived
  <2>2. fragmentsPending'.files \cap retired' = {}
    BY <1>3, <2>1
  <2>3. \A s \in Frag!Shots : shot[s] # Frag!Whole /\ Frag!Arrived(s)'
          => s \in retired' \cup fragmentsPending'.files
    BY <1>3, <2>1
  <2> QED BY <2>2, <2>3 DEF Frag!FilesAccounted, Frag!Arrived
<1> QED BY <1>2, <1>4, <1>5, <1>6, <1>7, <1>8, <1>9

LEMMA ArrivesFacts ==
  ASSUME Frag!TypeOK, NEW s \in Frag!Shots, Frag!Arrives(s)
  PROVE  /\ arrivals' \in [Frag!Shots -> Nat] /\ Frag!Arrived(s)' /\ s \notin retired
         /\ \A t \in Frag!Shots \ {s} : Frag!Arrived(t)' <=> Frag!Arrived(t)
<1>1. arrivals' = [arrivals EXCEPT ![s] = @ + 1] /\ s \notin retired
        /\ arrivals \in [Frag!Shots -> Nat]
  BY DEF Frag!Arrives, Frag!TypeOK
<1>2. arrivals[s] \in Nat
  BY <1>1
<1> QED BY <1>1, <1>2 DEF Frag!Arrived

LEMMA ExpiredFacts ==
  ASSUME Frag!PendingInvariant
  PROVE  \/ Frag!Alive = fragmentsPending /\ Frag!Expired = {}
              /\ fragmentsPending.stale = FALSE
         \/ Frag!Alive = Frag!NoPending /\ Frag!Expired = fragmentsPending.files
              /\ fragmentsPending.stale = TRUE
  BY DEF Frag!PendingInvariant, Frag!Alive, Frag!Expired

\* Expiry on the way, in the form FragmentsKeep takes.
LEMMA ExpiryKeeps ==
  ASSUME Frag!PendingInvariant, NEW R \in SUBSET Frag!Shots,
             fragmentsPending' = Frag!Alive,
         retired' = retired \cup Frag!Expired \cup R, lost' = lost \cup Frag!Expired
  PROVE  \/ /\ fragmentsPending' = [chunks |-> fragmentsPending.chunks,
                   files |-> fragmentsPending.files,
                           newest |-> fragmentsPending.newest,
                               stale |-> fragmentsPending'.stale]
            /\ fragmentsPending'.stale \in BOOLEAN /\ retired' = retired \cup R /\ lost' = lost
         \/ /\ fragmentsPending' = Frag!NoPending
                 /\ retired' = retired \cup fragmentsPending.files \cup R
            /\ lost' = lost \cup fragmentsPending.files
<1>1. CASE Frag!Alive = fragmentsPending /\ Frag!Expired = {}
             /\ fragmentsPending.stale = FALSE
  <2>1. fragmentsPending' = fragmentsPending /\ fragmentsPending'.stale \in BOOLEAN
          /\ retired' = retired \cup R /\ lost' = lost
    BY <1>1
  <2>2. fragmentsPending = [chunks |-> fragmentsPending.chunks,
            files |-> fragmentsPending.files,
                  newest |-> fragmentsPending.newest, stale |-> fragmentsPending.stale]
    BY DEF Frag!PendingInvariant
  <2> QED BY <2>1, <2>2
<1>2. CASE Frag!Alive = Frag!NoPending /\ Frag!Expired = fragmentsPending.files
  BY <1>2
<1> QED BY <1>1, <1>2, ExpiredFacts

LEMMA FragmentsGrowStale == ASSUME Frag!FragmentsInvariant,
    Frag!GrowStale PROVE Frag!FragmentsInvariant'
<1>1. /\ UNCHANGED <<shot, group, signature, completed, poisoned, fragmentsFrontier, barred,
             accepted, arrivals,
                     retired, lost>>
      /\ fragmentsPending' = [fragmentsPending EXCEPT !.stale = TRUE]
  BY DEF Frag!GrowStale
<1>2. fragmentsPending = [chunks |-> fragmentsPending.chunks, files |-> fragmentsPending.files,
                 newest |-> fragmentsPending.newest, stale |-> fragmentsPending.stale]
  BY DEF Frag!FragmentsInvariant, Frag!PendingInvariant
<1>3. fragmentsPending' = [chunks |-> fragmentsPending.chunks, files |-> fragmentsPending.files,
                  newest |-> fragmentsPending.newest, stale |-> TRUE]
  BY <1>1, <1>2
<1>4. fragmentsPending' = [chunks |-> fragmentsPending.chunks, files |-> fragmentsPending.files,
                  newest |-> fragmentsPending.newest, stale |-> fragmentsPending'.stale]
                    /\ fragmentsPending'.stale \in BOOLEAN
  BY <1>3
<1>5. arrivals' \in [Frag!Shots -> Nat]
        /\ \A t : Frag!Arrived(t)' <=> Frag!Arrived(t)
  BY <1>1 DEF Frag!Arrived, Frag!FragmentsInvariant, Frag!TypeOK
<1>6. {} \cap fragmentsPending.files = {} /\ retired' = retired \cup {}
        /\ {} \in SUBSET Frag!Shots
  BY <1>1
<1> QED BY <1>1, <1>4, <1>5, <1>6, FragmentsKeep

LEMMA FragmentsExpire == ASSUME Frag!FragmentsInvariant,
    Frag!Expire PROVE Frag!FragmentsInvariant'
<1>1. /\ UNCHANGED <<shot, group, signature, completed, poisoned, fragmentsFrontier, barred,
             accepted, arrivals>>
      /\ fragmentsPending' = Frag!NoPending
           /\ retired' = retired \cup fragmentsPending.files
                /\ lost' = lost \cup fragmentsPending.files
  BY DEF Frag!Expire
<1>2. arrivals' \in [Frag!Shots -> Nat]
        /\ \A t : Frag!Arrived(t)' <=> Frag!Arrived(t)
  BY <1>1 DEF Frag!Arrived, Frag!FragmentsInvariant, Frag!TypeOK
<1>3. {} \cap fragmentsPending.files = {}
        /\ retired' = retired \cup fragmentsPending.files \cup {}
             /\ {} \in SUBSET Frag!Shots
  BY <1>1
<1> QED BY <1>1, <1>2, <1>3, FragmentsKeep

\* A whole frame that is not newer than what came before.
LEMMA FragmentsOldSnapshot ==
  ASSUME Frag!FragmentsInvariant, NEW s \in Frag!Shots, Frag!AcceptSnapshot(s),
             ~Frag!Newer(s)
  PROVE  Frag!FragmentsInvariant'
<1>1. /\ UNCHANGED <<shot, group, signature, completed, poisoned, fragmentsFrontier, barred,
             accepted>>
      /\ fragmentsPending' = Frag!Alive /\ retired' = retired \cup Frag!Expired
           /\ lost' = lost \cup Frag!Expired
      /\ shot[s] = Frag!Whole /\ Frag!Arrives(s)
  BY DEF Frag!AcceptSnapshot
<1>2. /\ arrivals' \in [Frag!Shots -> Nat]
           /\ \A t \in Frag!Shots : Frag!Arrived(t) => Frag!Arrived(t)'
      /\ \A t \in Frag!Shots \ {s} : Frag!Arrived(t)' <=> Frag!Arrived(t)
  BY <1>1, ArrivesFacts DEF Frag!FragmentsInvariant
<1>3. \A t \in Frag!Shots : shot[t] # Frag!Whole /\ Frag!Arrived(t)'
        => Frag!Arrived(t) \/ t \in {}
  BY <1>1, <1>2
<1>4. shot[MaxShots] = Frag!Whole /\ Frag!Arrived(MaxShots)'
        => Frag!Arrived(MaxShots)
  <2>1. CASE MaxShots = s
    <3>1. fragmentsFrontier = MaxShots /\ fragmentsFrontier # Frag!None
      BY <2>1, ShotFacts DEF Frag!FragmentsInvariant, Frag!TypeOK,
         Frag!Newer, Frag!None
    <3> QED BY <3>1 DEF Frag!FragmentsInvariant, Frag!SourceInvariant
  <2>2. CASE MaxShots # s
    BY <1>2, <2>2, ShotFacts DEF Frag!FragmentsInvariant
  <2> QED BY <2>1, <2>2
<1>5. lost = {} /\ Frag!OursSentWell =>
             \A t \in Frag!Ours : Frag!Arrived(t)' => Frag!Arrived(t)
               \/ (completed /\ \E u \in Frag!Ours : Frag!Arrived(u))
  <2>1. Frag!OursSentWell => s \notin Frag!Ours
    BY <1>1, ShotFacts DEF Frag!OursSentWell, Frag!FragmentsInvariant
  <2> QED BY <1>2, <2>1 DEF Frag!Ours
<1>6. {} \cap fragmentsPending.files = {} /\ retired' = retired \cup Frag!Expired \cup {}
        /\ {} \in SUBSET Frag!Shots
  BY <1>1
<1>7. \/ /\ fragmentsPending' = [chunks |-> fragmentsPending.chunks,
                files |-> fragmentsPending.files,
                        newest |-> fragmentsPending.newest, stale |-> fragmentsPending'.stale]
         /\ fragmentsPending'.stale \in BOOLEAN /\ retired' = retired \cup {} /\ lost' = lost
      \/ /\ fragmentsPending' = Frag!NoPending
              /\ retired' = retired \cup fragmentsPending.files \cup {}
         /\ lost' = lost \cup fragmentsPending.files
  BY <1>1, <1>6, ExpiryKeeps DEF Frag!FragmentsInvariant
<1> QED BY <1>1, <1>2, <1>3, <1>4, <1>5, <1>6, <1>7, FragmentsKeep

LEMMA FragmentsDrop ==
  ASSUME Frag!FragmentsInvariant, NEW s \in Frag!Shots, Frag!DropFragment(s)
  PROVE  Frag!FragmentsInvariant'
<1>1. /\ UNCHANGED <<shot, group, signature, completed, poisoned, fragmentsFrontier, barred,
             accepted>>
      /\ fragmentsPending' = Frag!Alive
           /\ retired' = retired \cup Frag!Expired \cup {s}
                /\ lost' = lost \cup Frag!Expired
      /\ shot[s] # Frag!Whole /\ Frag!Arrives(s) /\ Frag!Behind(s)
  BY DEF Frag!DropFragment
<1>2. /\ arrivals' \in [Frag!Shots -> Nat]
           /\ \A t \in Frag!Shots : Frag!Arrived(t) => Frag!Arrived(t)'
      /\ \A t \in Frag!Shots \ {s} : Frag!Arrived(t)' <=> Frag!Arrived(t)
  BY <1>1, ArrivesFacts DEF Frag!FragmentsInvariant
<1>3. \A t \in Frag!Shots : shot[t] # Frag!Whole /\ Frag!Arrived(t)'
        => Frag!Arrived(t) \/ t \in {s}
  BY <1>2
<1>4. shot[MaxShots] = Frag!Whole /\ Frag!Arrived(MaxShots)'
        => Frag!Arrived(MaxShots)
  BY <1>1, <1>2, ShotFacts DEF Frag!FragmentsInvariant
<1>5. lost = {} /\ Frag!OursSentWell =>
             \A t \in Frag!Ours : Frag!Arrived(t)' => Frag!Arrived(t)
               \/ (completed /\ \E u \in Frag!Ours : Frag!Arrived(u))
  <2> SUFFICES ASSUME lost = {}, Frag!OursSentWell, NEW t \in Frag!Ours,
                          Frag!Arrived(t)', ~Frag!Arrived(t)
               PROVE  completed /\ \E u \in Frag!Ours : Frag!Arrived(u)
    OBVIOUS
  <2>1. t = s
    BY <1>2 DEF Frag!Ours
  <2> QED BY <1>1, <2>1, OursBehind
<1>6. {s} \cap fragmentsPending.files = {} /\ {s} \in SUBSET Frag!Shots
  <2> SUFFICES ASSUME s \in fragmentsPending.files PROVE FALSE
    OBVIOUS
  <2>1. Frag!Group(s) = group /\ ~completed /\ ~poisoned
    BY DEF Frag!FragmentsInvariant, Frag!PendingInvariant
  <2>2. group # Frag!NoGroup /\ shot[s].stream = group.stream
          /\ shot[s].generation = group.generation
    BY <1>1, <2>1, ShotFacts DEF Frag!Group, Frag!FragmentsInvariant
  <2>3. group.generation \in Nat /\ barred.generation \in Nat
    BY GroupFacts DEF Frag!FragmentsInvariant
  <2>4. group.stream = barred.stream => group.generation > barred.generation
    BY <2>2 DEF Frag!FragmentsInvariant, Frag!SourceInvariant
  <2> QED BY <1>1, <2>1, <2>2, <2>3, <2>4 DEF Frag!Behind, Frag!Group
<1>7. \/ /\ fragmentsPending' = [chunks |-> fragmentsPending.chunks,
                files |-> fragmentsPending.files,
                        newest |-> fragmentsPending.newest, stale |-> fragmentsPending'.stale]
         /\ fragmentsPending'.stale \in BOOLEAN /\ retired' = retired \cup {s} /\ lost' = lost
      \/ /\ fragmentsPending' = Frag!NoPending
              /\ retired' = retired \cup fragmentsPending.files \cup {s}
         /\ lost' = lost \cup fragmentsPending.files
  BY <1>1, <1>6, ExpiryKeeps DEF Frag!FragmentsInvariant
<1> QED BY <1>1, <1>2, <1>3, <1>4, <1>5, <1>6, <1>7, FragmentsKeep

\* When a chunk of the generation sent last has arrived, nothing else is newer.
LEMMA OursIsNewest ==
  ASSUME Frag!FragmentsInvariant, lost = {}, Frag!OursSentWell,
             NEW u \in Frag!Ours, Frag!Arrived(u),
         NEW s \in Frag!Shots, s \notin Frag!Ours
  PROVE  ~Frag!Newer(s) /\ (shot[s] # Frag!Whole => Frag!Behind(s))
<1>1. group = Frag!Group(MaxShots) /\ fragmentsFrontier \in Frag!Ours /\ ~poisoned
  BY DEF Frag!FragmentsInvariant, Frag!LastInvariant
<1>2. s < fragmentsFrontier
  BY <1>1 DEF Frag!OursSentWell
<1>3. MaxShots \in Frag!Shots /\ s \in Nat /\ MaxShots \in Nat /\ s <= MaxShots
  BY ShotFacts DEF Frag!FragmentsInvariant
<1>4. ~Frag!Newer(s)
  BY <1>1, <1>2, <1>3, ShotFacts DEF Frag!Newer, Frag!FragmentsInvariant,
     Frag!Ours
<1>5. ASSUME shot[s] # Frag!Whole PROVE Frag!Behind(s)
  <2>1. s # MaxShots /\ s < MaxShots /\ Frag!Group(s) # Frag!Group(MaxShots)
    BY <1>3 DEF Frag!Ours
  <2>2. shot[s].stream = shot[MaxShots].stream
          => shot[s].generation <= shot[MaxShots].generation
    BY <1>3, <2>1 DEF Frag!FragmentsInvariant, Frag!TypeOK
  <2>3. shot[s].generation \in Nat /\ shot[MaxShots].generation \in Nat
    BY <1>3, <1>5, ShotFacts DEF Frag!FragmentsInvariant, Frag!OursSentWell
  <2>4. Frag!Group(s).stream = group.stream
          => Frag!Group(s).generation < group.generation
    BY <1>1, <2>1, <2>2, <2>3 DEF Frag!Group
  <2> QED BY <1>4, <2>4 DEF Frag!Behind
<1> QED BY <1>4, <1>5

\* A sequence of accepted snapshots that grows by a newer one.
LEMMA AcceptedGrows ==
  ASSUME Frag!FragmentsInvariant,
             NEW r \in [newest : Frag!Shots, sources : SUBSET Frag!Shots],
         accepted' = Append(accepted, r), UNCHANGED shot,
         lost' = {} => lost = {} /\ \A i \in DOMAIN accepted : accepted[i].newest < r.newest,
         \/ \E s \in r.sources : r.sources = {s} /\ shot[s] = Frag!Whole
         \/ /\ {shot[s].index : s \in r.sources} = Frag!Chunks
            /\ \A s, u \in r.sources : Frag!Group(s) = Frag!Group(u)
                 /\ shot[s].kind = "chunk"
  PROVE  Frag!NeverMixed' /\ Frag!AcceptedInOrder'
<1>1. /\ DOMAIN accepted = 1..Len(accepted) /\ DOMAIN accepted' = 1..(Len(accepted) + 1)
      /\ Len(accepted) \in Nat /\ accepted'[Len(accepted) + 1] = r
      /\ \A i \in DOMAIN accepted : accepted'[i] = accepted[i]
  BY AppendAccepted DEF Frag!FragmentsInvariant
<1>2. \A i \in DOMAIN accepted' : i \in DOMAIN accepted \/ i = Len(accepted) + 1
  BY <1>1
<1>3. \A s : Frag!Group(s)' = Frag!Group(s)
  BY DEF Frag!Group
<1>4. Frag!NeverMixed'
  <2> SUFFICES ASSUME NEW i \in DOMAIN accepted'
               PROVE  LET S == accepted'[i].sources IN
                        \/ \E s \in S : S = {s} /\ shot[s] = Frag!Whole
                        \/ /\ {shot[s].index : s \in S} = Frag!Chunks
                           /\ \A s, u \in S : Frag!Group(s) = Frag!Group(u)
                                /\ shot[s].kind = "chunk"
    BY <1>3 DEF Frag!NeverMixed
  <2>1. CASE i = Len(accepted) + 1
    BY <1>1, <2>1
  <2>2. CASE i \in DOMAIN accepted
    BY <1>1, <2>2 DEF Frag!FragmentsInvariant, Frag!NeverMixed
  <2> QED BY <1>2, <2>1, <2>2
<1>5. Frag!AcceptedInOrder'
  <2> SUFFICES ASSUME lost' = {}, NEW i \in DOMAIN accepted', NEW j \in DOMAIN accepted', i < j
               PROVE  accepted'[i].newest < accepted'[j].newest
    BY DEF Frag!AcceptedInOrder
  <2>1. i \in DOMAIN accepted
    BY <1>1
  <2>2. CASE j = Len(accepted) + 1
    BY <1>1, <2>1, <2>2
  <2>3. CASE j \in DOMAIN accepted
    BY <1>1, <2>1, <2>3 DEF Frag!FragmentsInvariant, Frag!AcceptedInOrder
  <2> QED BY <1>2, <2>2, <2>3
<1> QED BY <1>4, <1>5

LEMMA FragmentsNewSnapshot ==
  ASSUME Frag!FragmentsInvariant, NEW s \in Frag!Shots, Frag!AcceptSnapshot(s),
             Frag!Newer(s)
  PROVE  Frag!FragmentsInvariant'
<1> USE DEF Frag!FragmentsInvariant
<1>1. PICK r \in [newest : Frag!Shots,
               sources : SUBSET Frag!Shots] : r = [newest |-> s, sources |-> {s}]
  OBVIOUS
<1>2. /\ shot[s] = Frag!Whole /\ Frag!Arrives(s)
           /\ lost' = lost \cup Frag!Expired
      /\ fragmentsPending' = Frag!NoPending
           /\ retired' = retired \cup fragmentsPending.files
      /\ barred' = IF group # Frag!NoGroup THEN group ELSE barred
      /\ group' = Frag!NoGroup /\ signature' = "none" /\ completed' = FALSE
           /\ poisoned' = FALSE
      /\ fragmentsFrontier' = s /\ accepted' = Append(accepted, r) /\ UNCHANGED shot
  BY <1>1 DEF Frag!AcceptSnapshot
<1>3. /\ arrivals' \in [Frag!Shots -> Nat] /\ Frag!Arrived(s)' /\ s \notin retired
      /\ \A t \in Frag!Shots \ {s} : Frag!Arrived(t)' <=> Frag!Arrived(t)
  BY <1>2, ArrivesFacts
<1>4. /\ DOMAIN fragmentsPending'.chunks = {} /\ fragmentsPending'.files = {}
           /\ fragmentsPending'.newest = Frag!None
      /\ fragmentsPending'.stale = FALSE
      /\ fragmentsPending' = [chunks |-> fragmentsPending'.chunks,
             files |-> fragmentsPending'.files,
                     newest |-> fragmentsPending'.newest, stale |-> fragmentsPending'.stale]
  BY <1>2 DEF Frag!NoPending
<1>5. /\ \A t : Frag!Group(t)' = Frag!Group(t) /\ Frag!Ours' = Frag!Ours
           /\ Frag!OursSentWell' = Frag!OursSentWell
      /\ s \in Nat /\ s > 0 /\ s <= MaxShots
  BY <1>2, ShotFacts DEF Frag!Group, Frag!Ours, Frag!OursSentWell
<1>6. Frag!Expired \subseteq fragmentsPending.files
  BY ExpiredFacts
<1>7. \A i \in DOMAIN accepted : accepted[i].newest < s
  <2>1. \A i \in DOMAIN accepted : accepted[i].newest <= fragmentsFrontier
          /\ accepted[i].newest \in Nat
    BY AcceptedFacts, ShotFacts DEF Frag!OrderInvariant
  <2>2. fragmentsFrontier \in Nat /\ fragmentsFrontier < s
    BY <1>5 DEF Frag!Newer, Frag!TypeOK
  <2> QED BY <1>5, <2>1, <2>2
<1>8. Frag!TypeOK'
  <2>1. accepted' \in Seq([newest : Frag!Shots, sources : SUBSET Frag!Shots])
    BY <1>2, AppendAccepted
  <2>2. retired' \subseteq Frag!Shots /\ lost' \subseteq Frag!Shots
    BY <1>2, <1>6 DEF Frag!TypeOK, Frag!PendingInvariant
  <2>3. fragmentsFrontier' \in 0..MaxShots
    BY <1>2, <1>5
  <2>4. barred' \in Frag!Groups \cup {Frag!NoGroup}
          /\ group' \in Frag!Groups \cup {Frag!NoGroup}
    BY <1>2 DEF Frag!TypeOK
  <2> QED BY <1>2, <1>3, <2>1, <2>2, <2>3, <2>4 DEF Frag!TypeOK
<1>9. Frag!PendingInvariant'
  <2>1. fragmentsPending'.newest \in 0..fragmentsFrontier'
          /\ fragmentsPending'.newest \in fragmentsPending'.files \cup {Frag!None}
    BY <1>2, <1>4, <1>5 DEF Frag!None
  <2> QED BY <1>4, <2>1 DEF Frag!PendingInvariant
<1>10. Frag!SourceInvariant'
  <2>1. \A t \in Frag!Shots : Frag!Arrived(t) => Frag!Arrived(t)'
    BY <1>3
  <2>2. \A g \in {group, barred} : g # Frag!NoGroup
          => \E t \in Frag!Shots : shot[t] # Frag!Whole /\ Frag!Arrived(t)'
            /\ Frag!Group(t) = g
    BY <2>1 DEF Frag!SourceInvariant
  <2>3. barred' \in {group, barred}
    BY <1>2
  <2> QED BY <1>2, <1>3, <1>5, <2>2, <2>3 DEF Frag!SourceInvariant
<1>11. DOMAIN accepted' = 1..(Len(accepted) + 1) /\ DOMAIN accepted = 1..Len(accepted)
         /\ Len(accepted) \in Nat
       /\ accepted'[Len(accepted')] = r /\ accepted' # <<>> /\ accepted'[Len(accepted) + 1] = r
       /\ \A i \in DOMAIN accepted : accepted'[i] = accepted[i]
  BY <1>2, AppendAccepted
<1>12. Frag!OrderInvariant'
  <2>1. \A i \in DOMAIN accepted' : accepted'[i].newest <= s
    <3> SUFFICES ASSUME NEW i \in DOMAIN accepted' PROVE accepted'[i].newest <= s
      OBVIOUS
    <3>1. CASE i = Len(accepted) + 1
      BY <1>1, <1>5, <1>11, <3>1
    <3>2. CASE i \in DOMAIN accepted
      BY <1>7, <1>11, <3>2, <1>5, AcceptedFacts DEF Frag!Shots
    <3> QED BY <1>11, <3>1, <3>2
  <2> QED BY <1>2, <2>1 DEF Frag!OrderInvariant
<1>13. Frag!LastInvariant'
  <2> SUFFICES ASSUME lost' = {} PROVE
        /\ shot[MaxShots] = Frag!Whole /\ Frag!Arrived(MaxShots)' =>
              accepted' # <<>> /\ accepted'[Len(accepted')].newest = MaxShots
        /\ ~(Frag!OursSentWell /\ \E t \in Frag!Ours : Frag!Arrived(t)')
    BY <1>2, <1>5 DEF Frag!LastInvariant
  <2>1. lost = {}
    BY <1>2
  <2>2. ASSUME shot[MaxShots] = Frag!Whole, Frag!Arrived(MaxShots)',
                   s # MaxShots PROVE FALSE
    <3>1. Frag!Arrived(MaxShots) /\ accepted # <<>>
            /\ accepted[Len(accepted)].newest = MaxShots
      BY <1>3, <2>1, <2>2, ShotFacts DEF Frag!LastInvariant
    <3>2. accepted[Len(accepted)].newest < s
      BY <1>7, <3>1, AcceptedFacts
    <3> QED BY <1>5, <3>1, <3>2, FragmentsAssumption DEF Frag!ShotAssumption
  <2>3. ASSUME Frag!OursSentWell, NEW t \in Frag!Ours,
                   Frag!Arrived(t)' PROVE FALSE
    <3>1. s \notin Frag!Ours
      BY <1>2, <2>3, ShotFacts DEF Frag!OursSentWell, Frag!Ours
    <3>2. t \in Frag!Shots \ {s}
      BY <3>1 DEF Frag!Ours
    <3> QED BY <1>3, <2>1, <2>3, <3>1, <3>2, OursIsNewest
  <2> QED BY <1>1, <1>11, <2>2, <2>3
<1>14. Frag!NeverMixed' /\ Frag!AcceptedInOrder'
  <2>1. \E t \in r.sources : r.sources = {t} /\ shot[t] = Frag!Whole
    BY <1>1, <1>2
  <2>2. lost' = {} => lost = {} /\ \A i \in DOMAIN accepted : accepted[i].newest < r.newest
    BY <1>1, <1>2, <1>7
  <2> QED BY <1>2, <2>1, <2>2, AcceptedGrows
<1>15. Frag!FilesAccounted'
  <2>1. \A t \in Frag!Shots : shot[t] # Frag!Whole /\ Frag!Arrived(t)
          => t \in retired \cup fragmentsPending.files
    BY DEF Frag!FilesAccounted, Frag!Arrived
  <2> QED BY <1>2, <1>3, <1>4, <2>1 DEF Frag!FilesAccounted, Frag!Arrived
<1> QED BY <1>8, <1>9, <1>10, <1>12, <1>13, <1>14, <1>15

LEMMA FragmentsConflict ==
  ASSUME Frag!FragmentsInvariant, NEW s \in Frag!Shots,
             Frag!ConflictingMetadata(s)
  PROVE  Frag!FragmentsInvariant'
<1> USE DEF Frag!FragmentsInvariant
<1>1. /\ shot[s] # Frag!Whole /\ Frag!Arrives(s) /\ ~Frag!Behind(s)
           /\ Frag!Group(s) = group /\ Frag!Signature(s) # signature
      /\ fragmentsPending' = Frag!NoPending
           /\ retired' = retired \cup fragmentsPending.files \cup {s}
      /\ poisoned' = TRUE /\ lost' = lost \cup Frag!Expired
      /\ UNCHANGED <<shot, group, signature, completed, fragmentsFrontier, barred, accepted>>
  BY DEF Frag!ConflictingMetadata
<1>2. /\ arrivals' \in [Frag!Shots -> Nat] /\ Frag!Arrived(s)' /\ s \notin retired
      /\ \A t \in Frag!Shots \ {s} : Frag!Arrived(t)' <=> Frag!Arrived(t)
      /\ \A t \in Frag!Shots : Frag!Arrived(t) => Frag!Arrived(t)'
  BY <1>1, ArrivesFacts
<1>3. /\ DOMAIN fragmentsPending'.chunks = {} /\ fragmentsPending'.files = {}
           /\ fragmentsPending'.newest = Frag!None
      /\ fragmentsPending'.stale = FALSE
      /\ fragmentsPending' = [chunks |-> fragmentsPending'.chunks,
             files |-> fragmentsPending'.files,
                     newest |-> fragmentsPending'.newest, stale |-> fragmentsPending'.stale]
  BY <1>1 DEF Frag!NoPending
<1>4. /\ \A t : Frag!Group(t)' = Frag!Group(t)
           /\ Frag!Later(t)' = Frag!Later(t)
      /\ Frag!Ours' = Frag!Ours /\ Frag!OursSentWell' = Frag!OursSentWell
  BY <1>1 DEF Frag!Group, Frag!Ours, Frag!OursSentWell, Frag!Later
<1>5. Frag!Expired \subseteq fragmentsPending.files
  BY ExpiredFacts
<1>6. Frag!TypeOK'
  <2>1. retired' \subseteq Frag!Shots /\ lost' \subseteq Frag!Shots
    BY <1>1, <1>5 DEF Frag!TypeOK, Frag!PendingInvariant
  <2> QED BY <1>1, <1>2, <2>1 DEF Frag!TypeOK
<1>7. Frag!PendingInvariant'
  <2>1. fragmentsPending'.newest \in 0..fragmentsFrontier'
          /\ fragmentsPending'.newest \in fragmentsPending'.files \cup {Frag!None}
    BY <1>1, <1>3 DEF Frag!None, Frag!TypeOK
  <2> QED BY <1>3, <2>1 DEF Frag!PendingInvariant
<1>8. Frag!SourceInvariant'
  <2>1. fragmentsFrontier' # Frag!None => Frag!Arrived(fragmentsFrontier)'
    BY <1>1, <1>2 DEF Frag!SourceInvariant, Frag!TypeOK, Frag!Shots,
       Frag!None
  <2>2. \A g \in {group', barred'} :
          g # Frag!NoGroup => \E t \in Frag!Shots : shot'[t] # Frag!Whole
            /\ Frag!Arrived(t)' /\ Frag!Group(t)' = g
    BY <1>1, <1>2, <1>4 DEF Frag!SourceInvariant
  <2>3. group # Frag!NoGroup /\ group.stream = barred.stream
          => group.generation > barred.generation
    BY DEF Frag!SourceInvariant
  <2> QED BY <1>1, <2>1, <2>2, <2>3 DEF Frag!SourceInvariant
<1>9. Frag!OrderInvariant'
  <2>1. lost' = {} => lost = {}
    BY <1>1
  <2> QED BY <1>1, <1>4, <2>1 DEF Frag!OrderInvariant
<1>10. Frag!LastInvariant'
  <2> SUFFICES ASSUME lost' = {} PROVE
        /\ shot[MaxShots] = Frag!Whole /\ Frag!Arrived(MaxShots)' =>
              accepted # <<>> /\ accepted[Len(accepted)].newest = MaxShots
        /\ ~(Frag!OursSentWell /\ \E t \in Frag!Ours : Frag!Arrived(t)')
    BY <1>1, <1>4 DEF Frag!LastInvariant
  <2>1. lost = {}
    BY <1>1
  <2>2. shot[MaxShots] = Frag!Whole /\ Frag!Arrived(MaxShots)' =>
              accepted # <<>> /\ accepted[Len(accepted)].newest = MaxShots
    <3>1. shot[MaxShots] = Frag!Whole => MaxShots \in Frag!Shots \ {s}
      BY <1>1, ShotFacts
    <3> QED BY <1>2, <2>1, <3>1 DEF Frag!LastInvariant
  <2>3. ASSUME Frag!OursSentWell, NEW t \in Frag!Ours,
                   Frag!Arrived(t)' PROVE FALSE
    <3>1. PICK b \in Frag!Shots : shot[b] # Frag!Whole /\ Frag!Arrived(b)
                 /\ Frag!Group(b) = group
      BY <1>1, ShotFacts DEF Frag!SourceInvariant
    <3>2. CASE s \in Frag!Ours
      <4>1. b \in Frag!Ours
        BY <1>1, <3>1, <3>2 DEF Frag!Ours
      <4>2. signature = "usual"
        BY <2>1, <2>3, <3>1, <4>1 DEF Frag!LastInvariant
      <4>3. Frag!Signature(s) = "usual"
        BY <2>3, <3>2 DEF Frag!OursSentWell, Frag!Signature
      <4> QED BY <1>1, <4>2, <4>3
    <3>3. CASE s \notin Frag!Ours
      <4>1. t \in Frag!Shots \ {s}
        BY <3>3 DEF Frag!Ours
      <4> QED BY <1>1, <1>2, <2>1, <2>3, <3>3, <4>1, OursIsNewest
    <3> QED BY <3>2, <3>3
  <2> QED BY <2>2, <2>3
<1>11. Frag!NeverMixed' /\ Frag!AcceptedInOrder'
  <2>1. lost' = {} => lost = {}
    BY <1>1
  <2> QED BY <1>1, <1>4, <2>1 DEF Frag!NeverMixed, Frag!AcceptedInOrder
<1>12. Frag!FilesAccounted'
  <2>1. \A t \in Frag!Shots : shot[t] # Frag!Whole /\ Frag!Arrived(t)
          => t \in retired \cup fragmentsPending.files
    BY DEF Frag!FilesAccounted, Frag!Arrived
  <2> QED BY <1>1, <1>2, <1>3, <2>1 DEF Frag!FilesAccounted, Frag!Arrived
<1> QED BY <1>6, <1>7, <1>8, <1>9, <1>10, <1>11, <1>12

\* The chunks a new one is added to.
LEMMA CollectedFacts ==
  ASSUME Frag!FragmentsInvariant, NEW s \in Frag!Shots, NEW b,
             b = Frag!Collected(s)
  PROVE  /\ b.files \subseteq fragmentsPending.files /\ b.files \subseteq Frag!Shots
         /\ b.newest \in 0..fragmentsFrontier /\ b.newest \in b.files \cup {Frag!None}
         /\ \A i \in DOMAIN b.chunks :
               i \in Frag!Chunks /\ b.chunks[i] \in b.files /\ shot[b.chunks[i]].index = i
         /\ \A f \in b.files :
               /\ shot[f] # Frag!Whole /\ Frag!Group(f) = Frag!Group(s)
                    /\ Frag!Arrived(f) /\ f <= b.newest
               /\ shot[f].index \in DOMAIN b.chunks
         /\ Frag!Expired = {} /\ Frag!Group(s) = group
              => b.files = fragmentsPending.files /\ b.newest = fragmentsPending.newest
         /\ Frag!Expired \cap b.files = {}
              /\ Frag!Expired \subseteq fragmentsPending.files
<1> USE DEF Frag!FragmentsInvariant
<1>1. \/ Frag!Alive = fragmentsPending /\ Frag!Expired = {}
           /\ fragmentsPending.stale = FALSE
      \/ Frag!Alive = Frag!NoPending /\ Frag!Expired = fragmentsPending.files
           /\ fragmentsPending.stale = TRUE
  BY ExpiredFacts
<1>2. CASE b = Frag!NoPending
  <2>1. b.files = {} /\ b.newest = Frag!None /\ DOMAIN b.chunks = {}
    BY <1>2 DEF Frag!NoPending
  <2>2. Frag!Expired = {} /\ Frag!Group(s) = group => fragmentsPending.files = {}
          /\ fragmentsPending.newest = Frag!None
    <3> SUFFICES ASSUME Frag!Expired = {},
                            Frag!Group(s) = group PROVE fragmentsPending.files = {}
                              /\ fragmentsPending.newest = Frag!None
      OBVIOUS
    <3>1. b = Frag!Alive
      BY DEF Frag!Collected
    <3>2. fragmentsPending.files = {}
      BY <1>1, <2>1, <3>1
    <3> QED BY <3>2 DEF Frag!PendingInvariant
  <2>3. b.newest \in 0..fragmentsFrontier
    BY <2>1 DEF Frag!None, Frag!TypeOK
  <2> QED BY <1>1, <2>1, <2>2, <2>3
<1>3. CASE b = fragmentsPending /\ Frag!Group(s) = group /\ Frag!Expired = {}
  BY <1>3 DEF Frag!PendingInvariant
<1> QED BY <1>1, <1>2, <1>3 DEF Frag!Collected

LEMMA FragmentsAccept ==
  ASSUME Frag!FragmentsInvariant, NEW s \in Frag!Shots, Frag!AcceptFragment(s)
  PROVE  Frag!FragmentsInvariant'
<1> USE DEF Frag!FragmentsInvariant
<1> DEFINE b == Frag!Collected(s)
           i == shot[s].index
           F == b.files \cup {s}
           N == Frag!Max({b.newest, s})
           C == [j \in DOMAIN b.chunks \cup {i} |-> IF j = i THEN s ELSE b.chunks[j]]
           S == {C[j] : j \in DOMAIN C}
           D == (Frag!Expired \cup (fragmentsPending.files \ b.files)) \ {s}
<1>1. b = Frag!Collected(s)
  OBVIOUS
<1>2. i = shot[s].index
  OBVIOUS
<1>3. F = b.files \cup {s}
  OBVIOUS
<1>4. N = Frag!Max({b.newest, s})
  OBVIOUS
<1>5. C = [j \in DOMAIN b.chunks \cup {i} |-> IF j = i THEN s ELSE b.chunks[j]]
  OBVIOUS
<1>6. S = {C[j] : j \in DOMAIN C}
  OBVIOUS
<1>8. D = (Frag!Expired \cup (fragmentsPending.files \ b.files)) \ {s}
  OBVIOUS
<1>39. /\ fragmentsPending' = (IF (i \in DOMAIN b.chunks /\ ~Frag!Same(b.chunks[i], s))
                                  \/ DOMAIN C = Frag!Chunks THEN Frag!NoPending
                               ELSE [chunks |-> C, files |-> F, newest |-> N, stale |-> FALSE])
       /\ retired' = retired \cup D
             \cup (IF (i \in DOMAIN b.chunks /\ ~Frag!Same(b.chunks[i], s))
                      \/ DOMAIN C = Frag!Chunks THEN F ELSE {})
       /\ completed' = (DOMAIN C = Frag!Chunks
                           /\ ~(i \in DOMAIN b.chunks /\ ~Frag!Same(b.chunks[i], s))
                           /\ \A x \in S : shot[x].kind = "chunk")
       /\ poisoned' = ((i \in DOMAIN b.chunks /\ ~Frag!Same(b.chunks[i], s))
                          \/ (DOMAIN C = Frag!Chunks
                               /\ ~\A x \in S : shot[x].kind = "chunk"))
       /\ accepted' = (IF DOMAIN C = Frag!Chunks
                            /\ ~(i \in DOMAIN b.chunks /\ ~Frag!Same(b.chunks[i], s))
                            /\ (\A x \in S : shot[x].kind = "chunk")
                         THEN Append(accepted, [newest |-> N, sources |-> S]) ELSE accepted)
  <2> HIDE DEF Frag!FragmentsInvariant
  <2> QED BY DEF Frag!AcceptFragment
<1> HIDE DEF b, i, F, N, C, S, D
<1> DEFINE Kept ==
              /\ DOMAIN C # Frag!Chunks
              /\ fragmentsPending' = [chunks |-> C, files |-> F, newest |-> N, stale |-> FALSE]
              /\ retired' = retired \cup D /\ completed' = FALSE /\ poisoned' = FALSE
              /\ accepted' = accepted
           Spoilt ==
              /\ fragmentsPending' = Frag!NoPending /\ retired' = retired \cup D \cup F
              /\ completed' = FALSE /\ poisoned' = TRUE /\ accepted' = accepted
              /\ \/ i \in DOMAIN b.chunks /\ ~Frag!Same(b.chunks[i], s)
                 \/ \E x \in S : shot[x].kind # "chunk"
           Done ==
              /\ DOMAIN C = Frag!Chunks /\ \A x \in S : shot[x].kind = "chunk"
              /\ fragmentsPending' = Frag!NoPending /\ retired' = retired \cup D \cup F
              /\ completed' = TRUE /\ poisoned' = FALSE
              /\ accepted' = Append(accepted, [newest |-> N, sources |-> S])
<1>7. /\ shot[s] # Frag!Whole /\ Frag!Arrives(s) /\ ~Frag!Behind(s)
           /\ (Frag!Group(s) = group => Frag!Signature(s) = signature)
      /\ group' = Frag!Group(s)
           /\ signature' = (IF Frag!Group(s) = group THEN signature ELSE Frag!Signature(s))
      /\ fragmentsFrontier' = Frag!Max({fragmentsFrontier, s})
           /\ lost' = lost \cup Frag!Expired /\ UNCHANGED <<shot, barred>>
  BY DEF Frag!AcceptFragment
<1>40. Kept \/ Spoilt \/ Done
  <2>1. \/ /\ DOMAIN C # Frag!Chunks
           /\ fragmentsPending' = [chunks |-> C, files |-> F, newest |-> N, stale |-> FALSE]
           /\ retired' = retired \cup D /\ completed' = FALSE /\ poisoned' = FALSE
           /\ accepted' = accepted
        \/ /\ fragmentsPending' = Frag!NoPending /\ retired' = retired \cup D \cup F
           /\ completed' = FALSE /\ poisoned' = TRUE /\ accepted' = accepted
           /\ \/ i \in DOMAIN b.chunks /\ ~Frag!Same(b.chunks[i], s)
              \/ \E x \in S : shot[x].kind # "chunk"
        \/ /\ DOMAIN C = Frag!Chunks /\ \A x \in S : shot[x].kind = "chunk"
           /\ fragmentsPending' = Frag!NoPending /\ retired' = retired \cup D \cup F
           /\ completed' = TRUE /\ poisoned' = FALSE
           /\ accepted' = Append(accepted, [newest |-> N, sources |-> S])
    <3> HIDE DEF Kept, Spoilt, Done
    <3>2. PICK conflict \in BOOLEAN : conflict <=> i \in DOMAIN b.chunks
                 /\ ~Frag!Same(b.chunks[i], s)
      OBVIOUS
    <3>3. PICK full \in BOOLEAN : full <=> DOMAIN C = Frag!Chunks
      OBVIOUS
    <3>4. PICK valid \in BOOLEAN : valid <=> \A x \in S : shot[x].kind = "chunk"
      OBVIOUS
    <3>5. /\ fragmentsPending' = (IF conflict \/ full THEN Frag!NoPending
                         ELSE [chunks |-> C, files |-> F, newest |-> N, stale |-> FALSE])
          /\ retired' = retired \cup D \cup (IF conflict \/ full THEN F ELSE {})
          /\ (completed' <=> full /\ ~conflict /\ valid) /\ completed' \in BOOLEAN
          /\ (poisoned' <=> conflict \/ (full /\ ~valid)) /\ poisoned' \in BOOLEAN
          /\ accepted' = (IF full /\ ~conflict /\ valid
                          THEN Append(accepted, [newest |-> N, sources |-> S]) ELSE accepted)
      <4>5. /\ fragmentsPending' = (IF conflict \/ full THEN Frag!NoPending
                         ELSE [chunks |-> C, files |-> F, newest |-> N, stale |-> FALSE])
            /\ retired' = retired \cup D \cup (IF conflict \/ full THEN F ELSE {})
        BY <1>39, <3>2, <3>3
      <4>6. (completed' <=> full /\ ~conflict /\ valid) /\ completed' \in BOOLEAN
        BY <3>2, <3>3, <3>4, <1>39
      <4>7. (poisoned' <=> conflict \/ (full /\ ~valid)) /\ poisoned' \in BOOLEAN
        BY <3>2, <3>3, <3>4, <1>39
      <4>8. accepted' = (IF full /\ ~conflict /\ valid
                          THEN Append(accepted, [newest |-> N, sources |-> S]) ELSE accepted)
        BY <3>2, <3>3, <3>4, <1>39
      <4> QED BY <4>5, <4>6, <4>7, <4>8
    <3>6. /\ shot[s] # Frag!Whole /\ Frag!Arrives(s) /\ ~Frag!Behind(s)
               /\ (Frag!Group(s) = group => Frag!Signature(s) = signature)
          /\ group' = Frag!Group(s)
               /\ signature' = (IF Frag!Group(s) = group THEN signature ELSE Frag!Signature(s))
          /\ fragmentsFrontier' = Frag!Max({fragmentsFrontier, s})
               /\ lost' = lost \cup Frag!Expired /\ UNCHANGED <<shot, barred>>
      BY <1>1, <1>2, <1>3, <1>4, <1>5, <1>6, <1>8 DEF Frag!AcceptFragment
    <3>7. CASE ~conflict /\ ~full
      BY <3>3, <3>5, <3>6, <3>7
    <3>8. CASE conflict \/ (full /\ ~valid)
      BY <3>2, <3>4, <3>5, <3>6, <3>8
    <3>9. CASE ~conflict /\ full /\ valid
      BY <3>3, <3>4, <3>5, <3>6, <3>9
    <3> QED BY <3>7, <3>8, <3>9
  <2> QED BY <2>1
<1> HIDE DEF Kept, Spoilt, Done
<1>9. /\ arrivals' \in [Frag!Shots -> Nat] /\ Frag!Arrived(s)' /\ s \notin retired
      /\ \A t \in Frag!Shots \ {s} : Frag!Arrived(t)' <=> Frag!Arrived(t)
      /\ \A t \in Frag!Shots : Frag!Arrived(t) => Frag!Arrived(t)'
  BY <1>7, ArrivesFacts
<1>10. /\ b.files \subseteq fragmentsPending.files /\ b.files \subseteq Frag!Shots
       /\ b.newest \in 0..fragmentsFrontier /\ b.newest \in b.files \cup {Frag!None}
       /\ \A j \in DOMAIN b.chunks :
             j \in Frag!Chunks /\ b.chunks[j] \in b.files /\ shot[b.chunks[j]].index = j
       /\ \A f \in b.files :
             /\ shot[f] # Frag!Whole /\ Frag!Group(f) = Frag!Group(s)
                  /\ Frag!Arrived(f) /\ f <= b.newest
             /\ shot[f].index \in DOMAIN b.chunks
       /\ Frag!Expired = {} /\ Frag!Group(s) = group
            => b.files = fragmentsPending.files /\ b.newest = fragmentsPending.newest
       /\ Frag!Expired \cap b.files = {}
            /\ Frag!Expired \subseteq fragmentsPending.files
  BY <1>1, CollectedFacts
<1>11. /\ s \in Nat /\ s > 0 /\ s <= MaxShots /\ MaxShots \in Frag!Shots
            /\ MaxShots \in Nat
       /\ Frag!Group(s) \in Frag!Groups /\ Frag!Group(s) # Frag!NoGroup
            /\ i \in Frag!Chunks
  BY <1>2, <1>7, ShotFacts
<1>12. /\ b.newest \in Nat /\ fragmentsFrontier \in Nat /\ fragmentsFrontier <= MaxShots
  BY <1>10, FragmentsAssumption DEF Frag!TypeOK, Frag!ShotAssumption
<1>13. /\ N \in {b.newest, s} /\ N >= b.newest /\ N >= s /\ N \in Nat
       /\ fragmentsFrontier' \in {fragmentsFrontier, s}
            /\ fragmentsFrontier' >= fragmentsFrontier /\ fragmentsFrontier' >= s
                 /\ fragmentsFrontier' \in Nat
  BY <1>4, <1>7, <1>11, <1>12, MaxOfTwo
<1>14. N \in F /\ N \in Frag!Shots /\ N <= fragmentsFrontier'
         /\ F \subseteq Frag!Shots /\ s \in F
  BY <1>3, <1>10, <1>11, <1>12, <1>13 DEF Frag!None
<1>15. /\ DOMAIN C = DOMAIN b.chunks \cup {i} /\ DOMAIN C \subseteq Frag!Chunks
       /\ \A j \in DOMAIN C : C[j] \in F /\ shot[C[j]].index = j
  BY <1>2, <1>3, <1>5, <1>10, <1>11
<1>16. \A f \in F : /\ shot[f] # Frag!Whole /\ Frag!Group(f) = Frag!Group(s)
                         /\ Frag!Arrived(f)' /\ f <= N /\ f \in Frag!Shots
                    /\ shot[f].index \in DOMAIN C
  <2> SUFFICES ASSUME NEW f \in F
               PROVE  /\ shot[f] # Frag!Whole /\ Frag!Group(f) = Frag!Group(s)
                           /\ Frag!Arrived(f)' /\ f <= N /\ f \in Frag!Shots
                      /\ shot[f].index \in DOMAIN C
    OBVIOUS
  <2>1. CASE f = s
    BY <1>2, <1>7, <1>9, <1>13, <1>15, <2>1
  <2>2. CASE f \in b.files
    <3>1. /\ shot[f] # Frag!Whole /\ Frag!Group(f) = Frag!Group(s)
               /\ Frag!Arrived(f) /\ f <= b.newest /\ f \in Frag!Shots
          /\ shot[f].index \in DOMAIN b.chunks
      BY <1>10, <2>2
    <3>2. f \in Nat
      BY <3>1, <1>11 DEF Frag!Shots
    <3>3. f <= N
      BY <1>12, <1>13, <3>1, <3>2
    <3>4. Frag!Arrived(f)'
      BY <1>9, <3>1
    <3>5. shot[f].index \in DOMAIN C
      BY <1>15, <3>1
    <3> QED BY <3>1, <3>3, <3>4, <3>5
  <2> QED BY <1>3, <2>1, <2>2
<1>17. S \subseteq F /\ \A j \in DOMAIN C : C[j] \in S
         /\ \A x \in S : \E k \in DOMAIN C : x = C[k]
  BY <1>6, <1>15
<1>18. /\ \A t : Frag!Group(t)' = Frag!Group(t)
       /\ Frag!Ours' = Frag!Ours /\ Frag!OursSentWell' = Frag!OursSentWell
  BY <1>7 DEF Frag!Group, Frag!Ours, Frag!OursSentWell
<1>19. \/ /\ fragmentsPending' = Frag!NoPending /\ fragmentsPending'.files = {}
               /\ fragmentsPending'.newest = Frag!None
                    /\ DOMAIN fragmentsPending'.chunks = {}
          /\ fragmentsPending'.stale = FALSE
       \/ Kept /\ fragmentsPending'.files = F /\ fragmentsPending'.newest = N
            /\ fragmentsPending'.chunks = C /\ fragmentsPending'.stale = FALSE
  BY <1>8, <1>40 DEF Frag!NoPending, Kept, Spoilt, Done
<1>20. Frag!TypeOK'
  <2>1. /\ retired' \subseteq Frag!Shots /\ completed' \in BOOLEAN /\ poisoned' \in BOOLEAN
    BY <1>8, <1>40, <1>10, <1>14 DEF Frag!TypeOK, Frag!PendingInvariant, Kept,
       Spoilt, Done
  <2>2. accepted' \in Seq([newest : Frag!Shots, sources : SUBSET Frag!Shots])
    <3>1. CASE accepted' = accepted
      BY <3>1 DEF Frag!TypeOK
    <3>2. CASE accepted' = Append(accepted, [newest |-> N, sources |-> S])
      <4>1. [newest |-> N, sources |-> S] \in [newest : Frag!Shots,
                sources : SUBSET Frag!Shots]
        BY <1>14, <1>17
      <4> QED BY <3>2, <4>1, AppendAccepted
    <3> QED BY <1>8, <1>40, <3>1, <3>2 DEF Kept, Spoilt, Done
  <2>3. lost' \subseteq Frag!Shots
    BY <1>7, <1>10 DEF Frag!TypeOK, Frag!PendingInvariant
  <2>4. signature' \in {"none", "usual", "other"}
    BY <1>7 DEF Frag!TypeOK, Frag!Signature
  <2>5. fragmentsFrontier' \in 0..MaxShots
    BY <1>11, <1>12, <1>13
  <2>6. /\ shot' \in [Frag!Shots -> Frag!Fragments \cup {Frag!Whole}]
        /\ \A x, u \in Frag!Shots :
              x < u /\ shot'[x].stream = shot'[u].stream
                => shot'[x].generation <= shot'[u].generation
    BY <1>7 DEF Frag!TypeOK
  <2>7. group' \in Frag!Groups \cup {Frag!NoGroup}
          /\ barred' \in Frag!Groups \cup {Frag!NoGroup}
    BY <1>7, <1>11 DEF Frag!TypeOK
  <2> QED BY <1>9, <2>1, <2>2, <2>3, <2>4, <2>5, <2>6, <2>7 DEF Frag!TypeOK
<1>21. Frag!PendingInvariant'
  <2>1. CASE /\ fragmentsPending' = Frag!NoPending /\ fragmentsPending'.files = {}
                  /\ fragmentsPending'.newest = Frag!None
             /\ DOMAIN fragmentsPending'.chunks = {} /\ fragmentsPending'.stale = FALSE
    <3>1. fragmentsPending' = [chunks |-> fragmentsPending'.chunks,
              files |-> fragmentsPending'.files,
                      newest |-> fragmentsPending'.newest, stale |-> fragmentsPending'.stale]
      BY <2>1 DEF Frag!NoPending
    <3>2. fragmentsPending'.newest \in 0..fragmentsFrontier'
      BY <1>13, <2>1 DEF Frag!None
    <3> QED BY <2>1, <3>1, <3>2 DEF Frag!PendingInvariant
  <2>2. CASE Kept /\ fragmentsPending'.files = F /\ fragmentsPending'.newest = N
               /\ fragmentsPending'.chunks = C /\ fragmentsPending'.stale = FALSE
    <3>1. fragmentsPending' = [chunks |-> fragmentsPending'.chunks,
              files |-> fragmentsPending'.files,
                      newest |-> fragmentsPending'.newest, stale |-> fragmentsPending'.stale]
      BY <2>2 DEF Kept
    <3>2. fragmentsPending'.newest \in 0..fragmentsFrontier'
            /\ fragmentsPending'.newest \in fragmentsPending'.files \cup {Frag!None}
      BY <1>13, <1>14, <2>2
    <3>3. \A j \in DOMAIN fragmentsPending'.chunks :
            j \in Frag!Chunks /\ fragmentsPending'.chunks[j] \in fragmentsPending'.files
              /\ shot'[fragmentsPending'.chunks[j]].index = j
      BY <1>7, <1>15, <2>2
    <3>4. \A f \in fragmentsPending'.files :
            /\ shot'[f] # Frag!Whole /\ Frag!Group(f)' = group'
                 /\ Frag!Arrived(f)' /\ f <= fragmentsPending'.newest
            /\ shot'[f].index \in DOMAIN fragmentsPending'.chunks
      BY <1>7, <1>16, <1>18, <2>2
    <3>5. ~completed' /\ ~poisoned' /\ DOMAIN fragmentsPending'.chunks # Frag!Chunks
      BY <2>2 DEF Kept
    <3> QED BY <1>14, <2>2, <3>1, <3>2, <3>3, <3>4, <3>5 DEF Frag!PendingInvariant
  <2> QED BY <1>19, <2>1, <2>2
<1>22. Frag!SourceInvariant'
  <2>1. fragmentsFrontier' # Frag!None => Frag!Arrived(fragmentsFrontier)'
    BY <1>9, <1>12, <1>13 DEF Frag!SourceInvariant, Frag!Shots, Frag!None
  <2>2. barred # Frag!NoGroup => \E t \in Frag!Shots : shot'[t] # Frag!Whole
          /\ Frag!Arrived(t)' /\ Frag!Group(t)' = barred
    BY <1>7, <1>9, <1>18 DEF Frag!SourceInvariant
  <2>3. \E t \in Frag!Shots : shot'[t] # Frag!Whole /\ Frag!Arrived(t)'
          /\ Frag!Group(t)' = group'
    BY <1>7, <1>9, <1>18
  <2>4. group'.stream = barred.stream => group'.generation > barred.generation
    <3>1. barred.generation \in Nat /\ Frag!Group(s).generation \in Nat
      BY <1>7, GroupFacts, ShotFacts DEF Frag!Group
    <3> QED BY <1>7, <3>1 DEF Frag!Behind
  <2> QED BY <1>7, <2>1, <2>2, <2>3, <2>4 DEF Frag!SourceInvariant
\* What is collected now is newer than all that was accepted.
<1>23. lost' = {} => lost = {} /\ Frag!Expired = {}
         /\ \A k \in DOMAIN accepted : accepted[k].newest < N
  <2> SUFFICES ASSUME lost' = {}, NEW k \in DOMAIN accepted PROVE accepted[k].newest < N
    BY <1>7
  <2>1. lost = {} /\ Frag!Expired = {}
    BY <1>7
  <2>2. accepted[k].newest \in Nat /\ accepted[k].newest <= fragmentsFrontier
    BY AcceptedFacts, ShotFacts DEF Frag!OrderInvariant
  <2>3. CASE Frag!Newer(s)
    BY <1>11, <1>12, <1>13, <2>2, <2>3 DEF Frag!Newer
  <2>4. CASE ~Frag!Newer(s)
    <3>1. Frag!Group(s).stream = group.stream
            /\ ~(Frag!Group(s).generation < group.generation)
          /\ ~(Frag!Group(s) = group /\ (completed \/ poisoned))
      BY <1>7, <2>4 DEF Frag!Behind
    <3>2. group # Frag!NoGroup /\ group.generation \in Nat
            /\ Frag!Group(s).generation \in Nat
      <4>1. Frag!Group(s).stream # Frag!None
        BY <1>7, ShotFacts DEF Frag!Group
      <4>2. Frag!Group(s).generation \in Nat
        BY <1>7, ShotFacts DEF Frag!Group
      <4> QED BY <3>1, <4>1, <4>2, GroupFacts DEF Frag!NoGroup
    <3>3. CASE Frag!Group(s) = group
      BY <1>10, <1>12, <1>13, <2>1, <2>2, <3>1, <3>2, <3>3 DEF Frag!OrderInvariant
    <3>4. CASE Frag!Group(s) # group
      <4>1. Frag!Group(s).generation > group.generation
        <5>1. group = [stream |-> group.stream, generation |-> group.generation]
          BY GroupFacts
        <5> QED BY <3>1, <3>2, <3>4, <5>1 DEF Frag!Group
      <4>2. Frag!Later(s)
        BY <3>1, <4>1 DEF Frag!Later, Frag!Group
      <4>3. accepted[k].newest < s
        BY <2>1, <3>2, <4>2 DEF Frag!OrderInvariant
      <4> QED BY <1>11, <1>13, <2>2, <4>3
    <3> QED BY <3>3, <3>4
  <2> QED BY <2>3, <2>4
\* Later generations of the stream are newer still.
<1>24. lost' = {} => \A t \in Frag!Shots : Frag!Later(t)' => N < t
         /\ \A k \in DOMAIN accepted : accepted[k].newest < t
  <2> SUFFICES ASSUME lost' = {}, NEW t \in Frag!Shots, Frag!Later(t)'
               PROVE  N < t /\ \A k \in DOMAIN accepted : accepted[k].newest < t
    OBVIOUS
  <2>1. shot[t].stream = shot[N].stream /\ shot[t].generation > shot[N].generation
    BY <1>7, <1>14, <1>16 DEF Frag!Later, Frag!Group
  <2>2. shot[t].generation \in Nat /\ shot[N].generation \in Nat
    <3>1. shot[N] # Frag!Whole /\ shot[N].stream # Frag!None
      BY <1>14, <1>16, ShotFacts
    <3>2. shot[t] # Frag!Whole
      BY <2>1, <3>1 DEF Frag!Whole
    <3> QED BY <1>14, <3>1, <3>2, ShotFacts
  <2>3. ~(t < N) /\ t # N
    BY <1>14, <2>1, <2>2 DEF Frag!TypeOK
  <2>4. N < t
    BY <1>13, <2>3, ShotFacts
  <2>5. \A k \in DOMAIN accepted : accepted[k].newest \in Nat
    BY AcceptedFacts, ShotFacts
  <2> QED BY <1>13, <1>23, <2>4, <2>5, ShotFacts
<1>25. /\ accepted' = accepted \/ Done
       /\ Done => /\ accepted' # <<>> /\ accepted'[Len(accepted')].newest = N
                     /\ DOMAIN accepted = 1..Len(accepted)
                          /\ DOMAIN accepted' = 1..(Len(accepted) + 1)
                     /\ Len(accepted) \in Nat /\ accepted'[Len(accepted) + 1].newest = N
                     /\ \A k \in DOMAIN accepted : accepted'[k] = accepted[k]
  <2>1. [newest |-> N, sources |-> S] \in [newest : Frag!Shots,
            sources : SUBSET Frag!Shots]
    BY <1>14, <1>17
  <2>2. accepted' = accepted \/ Done
    BY <1>8, <1>40 DEF Kept, Spoilt
  <2>3. ASSUME Done
        PROVE  /\ accepted' # <<>> /\ accepted'[Len(accepted')].newest = N
               /\ DOMAIN accepted = 1..Len(accepted)
                    /\ DOMAIN accepted' = 1..(Len(accepted) + 1)
               /\ Len(accepted) \in Nat /\ accepted'[Len(accepted) + 1].newest = N
               /\ \A k \in DOMAIN accepted : accepted'[k] = accepted[k]
    <3>1. PICK r \in [newest : Frag!Shots,
                   sources : SUBSET Frag!Shots] : r = [newest |-> N, sources |-> S]
      BY <2>1
    <3>2. accepted' = Append(accepted, r) /\ r.newest = N
      BY <2>3, <3>1 DEF Done
    <3> QED BY <3>2, AppendAccepted
  <2> QED BY <2>2, <2>3
<1>26. \A k \in DOMAIN accepted' : \/ k \in DOMAIN accepted /\ accepted'[k] = accepted[k]
                                   \/ Done /\ accepted'[k].newest = N
  <2> SUFFICES ASSUME NEW k \in DOMAIN accepted'
               PROVE  (k \in DOMAIN accepted /\ accepted'[k] = accepted[k])
                        \/ (Done /\ accepted'[k].newest = N)
    OBVIOUS
  <2>1. CASE accepted' = accepted
    BY <2>1
  <2>2. CASE Done
    <3>1. k \in 1..(Len(accepted) + 1) /\ Len(accepted) \in Nat
      BY <1>25, <2>2
    <3>2. k \in 1..Len(accepted) \/ k = Len(accepted) + 1
      BY <3>1
    <3> QED BY <1>25, <2>2, <3>2
  <2> QED BY <1>25, <2>1, <2>2
<1>27. Frag!OrderInvariant'
  <2>1. \A k \in DOMAIN accepted' : accepted'[k].newest <= fragmentsFrontier'
    <3> SUFFICES ASSUME NEW k \in DOMAIN accepted' PROVE accepted'[k].newest <= fragmentsFrontier'
      OBVIOUS
    <3>1. CASE accepted'[k].newest = N
      BY <1>14, <3>1
    <3>2. CASE k \in DOMAIN accepted /\ accepted'[k] = accepted[k]
      <4>1. accepted[k].newest \in Nat /\ accepted[k].newest <= fragmentsFrontier
        BY <3>2, AcceptedFacts, ShotFacts DEF Frag!OrderInvariant
      <4> QED BY <1>12, <1>13, <3>2, <4>1
    <3> QED BY <1>26, <3>1, <3>2
  <2>2. lost' = {} => \A k \in DOMAIN accepted', t \in Frag!Shots : Frag!Later(t)'
          => accepted'[k].newest < t
    BY <1>24, <1>26
  <2>3. lost' = {} /\ ~completed' /\ ~poisoned' =>
          /\ fragmentsPending'.files # {}
          /\ \A k \in DOMAIN accepted' : accepted'[k].newest < fragmentsPending'.newest
    <3> SUFFICES ASSUME lost' = {}, ~completed', ~poisoned'
                 PROVE  /\ fragmentsPending'.files # {}
                        /\ \A k \in DOMAIN accepted' : accepted'[k].newest < fragmentsPending'.newest
      OBVIOUS
    <3>1. Kept
      BY <1>8, <1>40 DEF Spoilt, Done
    <3>2. fragmentsPending'.files = F /\ fragmentsPending'.newest = N /\ accepted' = accepted
      BY <3>1 DEF Kept
    <3> QED BY <1>14, <1>23, <3>2
  <2> QED BY <2>1, <2>2, <2>3 DEF Frag!OrderInvariant
<1>28. Frag!LastInvariant'
  <2> SUFFICES ASSUME lost' = {} PROVE
        /\ shot[MaxShots] = Frag!Whole /\ Frag!Arrived(MaxShots)' =>
              accepted' # <<>> /\ accepted'[Len(accepted')].newest = MaxShots
        /\ Frag!OursSentWell /\ (\E t \in Frag!Ours : Frag!Arrived(t)') =>
              /\ group' = Frag!Group(MaxShots) /\ fragmentsFrontier' \in Frag!Ours
              /\ signature' = "usual" /\ ~poisoned'
              /\ IF completed' THEN accepted' # <<>>
                   /\ accepted'[Len(accepted')].newest \in Frag!Ours
                 ELSE \A t \in Frag!Ours : Frag!Arrived(t)'
                   => t \in fragmentsPending'.files
    BY <1>7, <1>18 DEF Frag!LastInvariant
  <2>1. lost = {} /\ Frag!Expired = {}
    BY <1>23
  <2>2. ASSUME shot[MaxShots] = Frag!Whole, Frag!Arrived(MaxShots)'
        PROVE  accepted' # <<>> /\ accepted'[Len(accepted')].newest = MaxShots
    <3>1. accepted # <<>> /\ accepted[Len(accepted)].newest = MaxShots
      <4>1. Frag!Arrived(MaxShots)
        BY <1>7, <1>9, <1>11, <2>2
      <4> QED BY <2>1, <2>2, <4>1 DEF Frag!LastInvariant
    <3>2. Len(accepted) \in DOMAIN accepted
      BY <3>1, AcceptedFacts
    <3>3. ~(MaxShots < N)
      BY <1>11, <1>14, ShotFacts
    <3>4. ~Done
      BY <1>23, <3>1, <3>2, <3>3
    <3> QED BY <1>25, <3>1, <3>4
  <2>3. ASSUME Frag!OursSentWell, NEW t \in Frag!Ours, Frag!Arrived(t)'
        PROVE  /\ group' = Frag!Group(MaxShots) /\ fragmentsFrontier' \in Frag!Ours
               /\ signature' = "usual" /\ ~poisoned'
               /\ IF completed' THEN accepted' # <<>>
                    /\ accepted'[Len(accepted')].newest \in Frag!Ours
                  ELSE \A u \in Frag!Ours : Frag!Arrived(u)'
                    => u \in fragmentsPending'.files
    <3>1. s \in Frag!Ours
      <4> SUFFICES ASSUME s \notin Frag!Ours PROVE FALSE
        OBVIOUS
      <4>1. Frag!Arrived(t)
        BY <1>9, <2>3 DEF Frag!Ours
      <4> QED BY <1>7, <2>1, <2>3, <4>1, OursIsNewest
    <3>2. Frag!Group(s) = Frag!Group(MaxShots) /\ shot[s].kind = "chunk"
      BY <2>3, <3>1 DEF Frag!Ours, Frag!OursSentWell
    <3>3. F \subseteq Frag!Ours /\ \A f \in F : shot[f].kind = "chunk"
      BY <1>14, <1>16, <2>3, <3>2 DEF Frag!Ours, Frag!OursSentWell
    <3>4. fragmentsFrontier' \in Frag!Ours
      <4>1. CASE fragmentsFrontier = Frag!None
        BY <1>11, <1>13, <3>1, <4>1 DEF Frag!None
      <4>2. CASE fragmentsFrontier # Frag!None
        <5>1. fragmentsFrontier \in Frag!Shots
          BY <1>12, <4>2 DEF Frag!Shots, Frag!None
        <5>2. fragmentsFrontier \notin Frag!Ours => fragmentsFrontier < s
          BY <2>3, <3>1, <5>1 DEF Frag!OursSentWell
        <5> QED BY <1>11, <1>12, <1>13, <3>1, <5>2
      <4> QED BY <4>1, <4>2
    <3>5. \A u \in Frag!Ours : Frag!Arrived(u) => group = Frag!Group(MaxShots)
            /\ signature = "usual" /\ ~completed /\ u \in fragmentsPending.files
      <4> SUFFICES ASSUME NEW u \in Frag!Ours, Frag!Arrived(u)
                   PROVE  group = Frag!Group(MaxShots) /\ signature = "usual"
                            /\ ~completed /\ u \in fragmentsPending.files
        OBVIOUS
      <4>1. /\ group = Frag!Group(MaxShots) /\ signature = "usual"
            /\ ~completed => \A x \in Frag!Ours : Frag!Arrived(x)
                 => x \in fragmentsPending.files
        BY <2>1, <2>3 DEF Frag!LastInvariant
      <4>2. ~completed
        BY <1>7, <3>2, <4>1 DEF Frag!Behind
      <4> QED BY <4>1, <4>2
    <3>6. signature' = "usual"
      <4>1. CASE Frag!Group(s) = group
        <5>1. PICK x \in Frag!Shots : Frag!Arrived(x) /\ Frag!Group(x) = group
          BY <1>11, <4>1 DEF Frag!SourceInvariant
        <5>2. x \in Frag!Ours
          BY <3>2, <4>1, <5>1 DEF Frag!Ours
        <5> QED BY <1>7, <3>5, <4>1, <5>1, <5>2
      <4>2. CASE Frag!Group(s) # group
        BY <1>7, <3>2, <4>2 DEF Frag!Signature
      <4> QED BY <4>1, <4>2
    <3>7. ~Spoilt
      <4>1. i \in DOMAIN b.chunks => b.chunks[i] \in F
        BY <1>3, <1>10
      <4>2. i \in DOMAIN b.chunks => Frag!Same(b.chunks[i], s)
        BY <3>2, <3>3, <4>1 DEF Frag!Same
      <4>3. \A x \in S : shot[x].kind = "chunk"
        BY <1>17, <3>3
      <4> QED BY <4>2, <4>3 DEF Spoilt
    <3>8. CASE Done
      <4>1. completed' /\ ~poisoned'
        BY <3>8 DEF Done
      <4>2. accepted' # <<>> /\ accepted'[Len(accepted')].newest \in Frag!Ours
        BY <1>14, <1>25, <3>3, <3>8
      <4> QED BY <1>7, <3>2, <3>4, <3>6, <4>1, <4>2
    <3>9. CASE Kept
      <4>1. ~completed' /\ ~poisoned' /\ fragmentsPending'.files = F
        BY <3>9 DEF Kept
      <4>2. \A u \in Frag!Ours : Frag!Arrived(u)' => u \in F
        <5> SUFFICES ASSUME NEW u \in Frag!Ours, Frag!Arrived(u)', u # s PROVE u \in F
          BY <1>14
        <5>1. Frag!Arrived(u)
          BY <1>9 DEF Frag!Ours
        <5>2. u \in fragmentsPending.files /\ Frag!Group(s) = group
          BY <3>2, <3>5, <5>1
        <5> QED BY <1>3, <1>10, <2>1, <5>2
      <4> QED BY <1>7, <3>2, <3>4, <3>6, <4>1, <4>2
    <3> QED BY <1>8, <1>40, <3>7, <3>8, <3>9
  <2> QED BY <2>2, <2>3
<1>29. Frag!NeverMixed' /\ Frag!AcceptedInOrder'
  <2>1. CASE accepted' = accepted
    <3>1. lost' = {} => lost = {}
      BY <1>7
    <3> QED BY <1>7, <1>18, <2>1, <3>1 DEF Frag!NeverMixed, Frag!AcceptedInOrder
  <2>2. CASE Done
    <3>1. PICK r \in [newest : Frag!Shots,
                   sources : SUBSET Frag!Shots] : r = [newest |-> N, sources |-> S]
      BY <1>14, <1>17
    <3>2. accepted' = Append(accepted, r) /\ r.newest = N /\ r.sources = S
      BY <2>2, <3>1 DEF Done
    <3>3. {shot[x].index : x \in S} = Frag!Chunks
      <4>1. DOMAIN C = Frag!Chunks
        BY <2>2 DEF Done
      <4>2. \A j \in Frag!Chunks : j \in {shot[x].index : x \in S}
        BY <1>15, <1>17, <4>1
      <4>3. \A x \in S : shot[x].index \in Frag!Chunks
        BY <1>15, <1>16, <1>17, <4>1
      <4> QED BY <4>2, <4>3
    <3>4. \A x, u \in S : Frag!Group(x) = Frag!Group(u) /\ shot[x].kind = "chunk"
      <4>1. \A x \in S : shot[x].kind = "chunk"
        BY <2>2 DEF Done
      <4> QED BY <1>16, <1>17, <4>1
    <3>5. lost' = {} => lost = {} /\ \A k \in DOMAIN accepted : accepted[k].newest < r.newest
      BY <1>23, <3>2
    <3> QED BY <1>7, <3>2, <3>3, <3>4, <3>5, AcceptedGrows
  <2> QED BY <1>25, <2>1, <2>2
<1>30. Frag!FilesAccounted'
  <2>1. fragmentsPending.files \cap retired = {}
          /\ \A t \in Frag!Shots : shot[t] # Frag!Whole /\ Frag!Arrived(t)
               => t \in retired \cup fragmentsPending.files
    BY DEF Frag!FilesAccounted, Frag!Arrived
  <2>2. \/ fragmentsPending'.files = {} /\ retired' = retired \cup D \cup F
        \/ fragmentsPending'.files = F /\ retired' = retired \cup D
    BY <1>8, <1>40 DEF Kept, Spoilt, Done, Frag!NoPending
  <2>3. F \cap D = {} /\ F \cap retired = {}
    BY <1>3, <1>8, <1>40, <1>9, <1>10, <2>1
  <2>4. fragmentsPending'.files \cap retired' = {}
    BY <2>2, <2>3
  <2>5. fragmentsPending.files \subseteq F \cup D
    BY <1>3, <1>8, <1>40
  <2>6. \A t \in Frag!Shots : shot[t] # Frag!Whole /\ Frag!Arrived(t)'
          => t \in retired' \cup fragmentsPending'.files
    <3> SUFFICES ASSUME NEW t \in Frag!Shots, shot[t] # Frag!Whole,
                            Frag!Arrived(t)' PROVE t \in retired' \cup fragmentsPending'.files
      OBVIOUS
    <3>1. t \in retired \cup fragmentsPending.files \cup {s}
      BY <1>9, <2>1
    <3> QED BY <1>14, <2>2, <2>5, <3>1
  <2> QED BY <1>7, <2>4, <2>6 DEF Frag!FilesAccounted, Frag!Arrived
<1> QED BY <1>20, <1>21, <1>22, <1>27, <1>28, <1>29, <1>30

LEMMA FragmentsNextKeeps == ASSUME Frag!FragmentsInvariant,
    Frag!Next PROVE Frag!FragmentsInvariant'
  BY FragmentsOldSnapshot, FragmentsNewSnapshot, FragmentsDrop, FragmentsConflict,
     FragmentsAccept, FragmentsGrowStale, FragmentsExpire DEF Frag!Next

LEMMA FragmentsSame == ASSUME Frag!FragmentsInvariant,
    UNCHANGED Frag!vars PROVE Frag!FragmentsInvariant'
<1>1. UNCHANGED <<shot, group, signature, completed, poisoned, fragmentsFrontier, barred,
          accepted, fragmentsPending,
                  arrivals, retired, lost>>
  BY DEF Frag!vars
<1>2. /\ arrivals' \in [Frag!Shots -> Nat]
           /\ \A t : Frag!Arrived(t)' <=> Frag!Arrived(t)
  BY <1>1 DEF Frag!Arrived, Frag!FragmentsInvariant, Frag!TypeOK
<1>3. /\ fragmentsPending' = [chunks |-> fragmentsPending.chunks,
             files |-> fragmentsPending.files,
                     newest |-> fragmentsPending.newest, stale |-> fragmentsPending'.stale]
      /\ fragmentsPending'.stale \in BOOLEAN
  BY <1>1 DEF Frag!FragmentsInvariant, Frag!PendingInvariant
<1>4. {} \cap fragmentsPending.files = {} /\ retired' = retired \cup {}
        /\ {} \in SUBSET Frag!Shots
  BY <1>1
<1> QED BY <1>1, <1>2, <1>3, <1>4, FragmentsKeep

\* Once all have arrived, the chunks of the last generation sent are complete.
LEMMA FragmentsSafe ==
  Frag!FragmentsInvariant => Frag!NeverMixed /\ Frag!FilesAccounted
    /\ Frag!AcceptedInOrder /\ Frag!NewestAccepted
<1> SUFFICES ASSUME Frag!FragmentsInvariant PROVE Frag!NewestAccepted
  BY DEF Frag!FragmentsInvariant
<1> USE DEF Frag!FragmentsInvariant
<1>1. MaxShots \in Frag!Shots /\ MaxShots \in Nat
  BY ShotFacts, FragmentsAssumption DEF Frag!ShotAssumption, Frag!Shots
<1>2. CASE shot[MaxShots] = Frag!Whole
  BY <1>1, <1>2 DEF Frag!NewestAccepted, Frag!LastInvariant, Frag!Arrived
<1>3. CASE shot[MaxShots] # Frag!Whole
  <2> SUFFICES ASSUME \A s \in Frag!Shots : arrivals[s] > 0, lost = {},
                      \A s \in Frag!Ours, u \in Frag!Shots \ Frag!Ours : u < s,
                      \A s \in Frag!Ours : shot[s].kind \in {"whole", "chunk"},
                      \A j \in Frag!Chunks : \E s \in Frag!Ours : j = shot[s].index
               PROVE  accepted # <<>> /\ accepted[Len(accepted)].newest \in Frag!Ours
    BY <1>3 DEF Frag!NewestAccepted, Frag!Ours
  <2>1. \A s \in Frag!Ours : s \in Frag!Shots /\ shot[s] # Frag!Whole
          /\ shot[s].kind # "whole"
    <3> SUFFICES ASSUME NEW s \in Frag!Ours PROVE s \in Frag!Shots
                          /\ shot[s] # Frag!Whole /\ shot[s].kind # "whole"
      OBVIOUS
    <3>1. s \in Frag!Shots /\ Frag!Group(s) = Frag!Group(MaxShots)
      BY DEF Frag!Ours
    <3>2. Frag!Group(s) # Frag!NoGroup
      BY <1>1, <1>3, <3>1, ShotFacts
    <3> QED BY <3>1, <3>2, ShotFacts
  <2>2. Frag!OursSentWell
    BY <1>3, <2>1 DEF Frag!OursSentWell
  <2>3. MaxShots \in Frag!Ours /\ \A s \in Frag!Ours : Frag!Arrived(s)
    BY <1>1, <2>1 DEF Frag!Ours, Frag!Arrived
  <2>4. CASE completed
    BY <2>2, <2>3, <2>4 DEF Frag!LastInvariant
  <2>5. CASE ~completed
    <3>1. \A s \in Frag!Ours : s \in fragmentsPending.files
      BY <2>2, <2>3, <2>5 DEF Frag!LastInvariant
    <3>2. \A s \in Frag!Ours : shot[s].index \in DOMAIN fragmentsPending.chunks
      BY <3>1 DEF Frag!PendingInvariant
    <3>3. DOMAIN fragmentsPending.chunks = Frag!Chunks
      <4>1. \A j \in Frag!Chunks : j \in DOMAIN fragmentsPending.chunks
        BY <3>2
      <4>2. DOMAIN fragmentsPending.chunks \subseteq Frag!Chunks
        BY DEF Frag!PendingInvariant
      <4> QED BY <4>1, <4>2
    <3> QED BY <2>3, <3>1, <3>3 DEF Frag!PendingInvariant
  <2> QED BY <2>4, <2>5
<1> QED BY <1>2, <1>3

-----------------------------------------------------------------------------
(* WatcherHandoff. *)

LEMMA HandoffInit == Handoff!Init => Handoff!HandoffInvariant
<1> SUFFICES ASSUME Handoff!Init PROVE Handoff!HandoffInvariant
  OBVIOUS
<1> USE HandoffAssumption DEF Handoff!WatcherAssumption, Handoff!Init, Handoff!Watchers,
       Handoff!None, Handoff!InChargeNext, Handoff!Owner, Handoff!Base, Handoff!InProgress
<1>1. Handoff!TypeOK
  BY DEF Handoff!TypeOK
<1>2. Handoff!GateInvariant
  BY DEF Handoff!GateInvariant
<1>3. Handoff!SchedulerInvariant
  BY DEF Handoff!SchedulerInvariant
<1>4. Handoff!OlderInvariant /\ Handoff!ShownInvariant /\ Handoff!CallbackInvariant
  BY DEF Handoff!OlderInvariant, Handoff!ShownInvariant, Handoff!CallbackInvariant
<1> QED BY <1>1, <1>2, <1>3, <1>4 DEF Handoff!HandoffInvariant

\* What the threads of the watchers do leaves the GUI thread where it is.
LEMMA HandoffEmit ==
  ASSUME Handoff!HandoffInvariant, NEW w \in Handoff!Watchers, Handoff!Emit(w)
  PROVE  Handoff!HandoffInvariant'
<1>1. /\ w \in 1..made /\ emitting' = emitting \cup {w}
      /\ emitted' = [emitted EXCEPT ![w] = @ + 1]
      /\ UNCHANGED <<made, folder, generation, gate, pendingGate, scheduler, buffered, stopped,
                     inbox, scheduled, posted, pc, current, shown, unhooked, uncommitted>>
  BY DEF Handoff!Emit, Handoff!Started, Handoff!gates, Handoff!queues, Handoff!history,
     Handoff!Watchers, Handoff!HandoffInvariant, Handoff!TypeOK
<1>2. Handoff!TypeOK'
  BY <1>1 DEF Handoff!HandoffInvariant, Handoff!TypeOK, Handoff!Watchers
<1>3. Handoff!GateInvariant' /\ Handoff!SchedulerInvariant'
  BY <1>1 DEF Handoff!HandoffInvariant, Handoff!GateInvariant, Handoff!SchedulerInvariant,
     Handoff!Base, Handoff!InProgress, Handoff!InChargeNext
<1>4. Handoff!OlderInvariant' /\ Handoff!ShownInvariant' /\ Handoff!CallbackInvariant'
  BY <1>1 DEF Handoff!HandoffInvariant, Handoff!OlderInvariant, Handoff!ShownInvariant,
     Handoff!CallbackInvariant, Handoff!Owner, Handoff!InChargeNext
<1> QED BY <1>2, <1>3, <1>4 DEF Handoff!HandoffInvariant

LEMMA HandoffHandOver ==
  ASSUME Handoff!HandoffInvariant, NEW w \in Handoff!Watchers, Handoff!HandOver(w)
  PROVE  Handoff!HandoffInvariant'
<1>1. /\ w \in 1..made /\ emitting' \subseteq emitting
      /\ UNCHANGED <<made, folder, generation, gate, pendingGate, scheduler, stopped, emitted,
                     pc, current, shown, unhooked, uncommitted>>
  BY DEF Handoff!HandOver, Handoff!gates, Handoff!history, Handoff!HandoffInvariant,
     Handoff!TypeOK
<1>2. CASE UNCHANGED <<inbox, scheduled, posted, buffered>>
  <2>1. Handoff!TypeOK'
    BY <1>1, <1>2 DEF Handoff!HandoffInvariant, Handoff!TypeOK, Handoff!Watchers
  <2>2. Handoff!GateInvariant' /\ Handoff!SchedulerInvariant'
    BY <1>1, <1>2 DEF Handoff!HandoffInvariant, Handoff!GateInvariant,
       Handoff!SchedulerInvariant, Handoff!Base, Handoff!InProgress, Handoff!InChargeNext
  <2>3. Handoff!OlderInvariant' /\ Handoff!ShownInvariant' /\ Handoff!CallbackInvariant'
    BY <1>1, <1>2 DEF Handoff!HandoffInvariant, Handoff!OlderInvariant,
       Handoff!ShownInvariant, Handoff!CallbackInvariant, Handoff!Owner, Handoff!InChargeNext
  <2> QED BY <2>1, <2>2, <2>3 DEF Handoff!HandoffInvariant
<1>3. CASE /\ inbox' = inbox \cup {w} /\ scheduled' = scheduled \cup {w}
           /\ buffered' = IF w \notin scheduled /\ scheduler[w] = "prepared"
                          THEN buffered \cup {w} ELSE buffered
           /\ posted' = IF w \notin scheduled /\ scheduler[w] = "committed"
                        THEN posted \cup {w} ELSE posted
  <2>1. Handoff!TypeOK'
    BY <1>1, <1>3 DEF Handoff!HandoffInvariant, Handoff!TypeOK, Handoff!Watchers
  <2>2. Handoff!GateInvariant'
    BY <1>1 DEF Handoff!HandoffInvariant, Handoff!GateInvariant, Handoff!Base,
       Handoff!InProgress
  <2>3. Handoff!SchedulerInvariant'
    BY <1>1, <1>3 DEF Handoff!HandoffInvariant, Handoff!SchedulerInvariant,
       Handoff!InChargeNext
  <2>4. Handoff!OlderInvariant' /\ Handoff!ShownInvariant'
    BY <1>1 DEF Handoff!HandoffInvariant, Handoff!OlderInvariant, Handoff!ShownInvariant,
       Handoff!Owner, Handoff!InChargeNext
  <2>5. Handoff!CallbackInvariant'
    <3>1. pc # "ended" => current \notin stopped
            /\ (current \in scheduled' => current \in posted')
      <4>1. current # w \/ scheduler[w] = "committed"
        BY <1>1 DEF Handoff!HandoffInvariant, Handoff!SchedulerInvariant, Handoff!None
      <4> QED BY <1>3, <4>1 DEF Handoff!HandoffInvariant, Handoff!CallbackInvariant
    <3>2. pc \in {"starting", "committing"} /\ made \in scheduled' => made \in buffered'
      BY <1>3 DEF Handoff!HandoffInvariant, Handoff!CallbackInvariant,
         Handoff!SchedulerInvariant
    <3>3. pc \in {"hook", "retire"} /\ made \in scheduled' => made \in posted'
      BY <1>3 DEF Handoff!HandoffInvariant, Handoff!CallbackInvariant,
         Handoff!SchedulerInvariant, Handoff!InChargeNext
    <3> QED BY <1>1, <3>1, <3>2, <3>3 DEF Handoff!CallbackInvariant, Handoff!InChargeNext
  <2> QED BY <2>1, <2>2, <2>3, <2>4, <2>5 DEF Handoff!HandoffInvariant
<1> QED BY <1>2, <1>3 DEF Handoff!HandOver, Handoff!queues

\* A callback shows what its watcher handed over only if that one is in charge.
LEMMA HandoffFlush ==
  ASSUME Handoff!HandoffInvariant, NEW w \in Handoff!Watchers, Handoff!Flush(w)
  PROVE  Handoff!HandoffInvariant'
<1>1. /\ w \in posted /\ pc \in {"idle", "ended"}
      /\ posted' = posted \ {w} /\ scheduled' = scheduled \ {w} /\ inbox' = inbox \ {w}
      /\ shown' \in {shown, folder[w]} /\ (~Handoff!IsCurrent(w) => shown' = shown)
      /\ UNCHANGED <<made, folder, generation, gate, pendingGate, scheduler, buffered, stopped,
                     emitting, emitted, pc, current, unhooked, uncommitted>>
  BY DEF Handoff!Flush, Handoff!gates, Handoff!threads, Handoff!history
<1>2. Handoff!TypeOK'
  BY <1>1 DEF Handoff!HandoffInvariant, Handoff!TypeOK
<1>3. Handoff!GateInvariant' /\ Handoff!SchedulerInvariant' /\ Handoff!OlderInvariant'
  BY <1>1 DEF Handoff!HandoffInvariant, Handoff!GateInvariant, Handoff!SchedulerInvariant,
     Handoff!OlderInvariant, Handoff!Owner, Handoff!Base, Handoff!InProgress,
     Handoff!InChargeNext
<1>4. Handoff!CallbackInvariant'
  BY <1>1 DEF Handoff!HandoffInvariant, Handoff!CallbackInvariant, Handoff!InChargeNext
<1>5. ~uncommitted /\ Handoff!IsCurrent(w) => current = w /\ current # Handoff!None
  <2> SUFFICES ASSUME ~uncommitted, Handoff!IsCurrent(w), current # w PROVE FALSE
    BY DEF Handoff!None, Handoff!Watchers
  <2>1. /\ generation[w] = gate /\ gate \in {Handoff!Base, Handoff!Base + 1}
             /\ (pc = "ended" => gate = Handoff!Base + 1)
        /\ (pc = "idle" => gate = Handoff!Base)
    BY <1>1 DEF Handoff!IsCurrent, Handoff!HandoffInvariant, Handoff!GateInvariant,
       Handoff!None
  <2>2. scheduler[w] = "committed" /\ Handoff!Owner = current
    BY <1>1 DEF Handoff!HandoffInvariant, Handoff!SchedulerInvariant, Handoff!Owner,
       Handoff!InChargeNext
  <2>3. current # Handoff!None /\ generation[w] < generation[current]
    BY <2>2 DEF Handoff!HandoffInvariant, Handoff!OlderInvariant
  <2>4. generation[w] \in Nat /\ generation[current] \in Nat
    BY <2>3, HandoffAssumption DEF Handoff!WatcherAssumption, Handoff!HandoffInvariant,
       Handoff!TypeOK, Handoff!Watchers, Handoff!None
  <2> QED BY <1>1, <2>1, <2>3, <2>4 DEF Handoff!Base
<1>6. Handoff!ShownInvariant'
  BY <1>1, <1>5 DEF Handoff!HandoffInvariant, Handoff!ShownInvariant
<1> QED BY <1>2, <1>3, <1>4, <1>6 DEF Handoff!HandoffInvariant

LEMMA HandoffReplace ==
  ASSUME Handoff!HandoffInvariant, NEW f \in Folders, Handoff!Replace(f)
  PROVE  Handoff!HandoffInvariant'
<1>1. PICK n : n = made + 1
  OBVIOUS
<1>2. /\ n \in Handoff!Watchers /\ n \notin 1..made /\ n \in 1..n /\ 1..made \subseteq 1..n
      /\ current # n /\ made \in 0..n
  BY <1>1, HandoffAssumption DEF Handoff!Replace, Handoff!WatcherAssumption,
     Handoff!Watchers, Handoff!HandoffInvariant, Handoff!TypeOK
<1>3. /\ pc = "idle" /\ pc' = "starting" /\ made' = n
      /\ folder' = [folder EXCEPT ![n] = f] /\ generation' = [generation EXCEPT ![n] = gate + 1]
      /\ pendingGate' = gate + 1
      /\ UNCHANGED <<gate, scheduler, buffered, stopped, emitting, emitted, inbox, scheduled,
                     posted, current, shown, unhooked, uncommitted>>
  BY <1>1 DEF Handoff!Replace, Handoff!threads, Handoff!queues, Handoff!history
<1>4. /\ generation'[n] = gate + 1 /\ folder'[n] = f
      /\ \A w \in Handoff!Watchers \ {n} : generation'[w] = generation[w]
           /\ folder'[w] = folder[w]
      /\ current # Handoff!None => current \in Handoff!Watchers \ {n}
  BY <1>2, <1>3, HandoffAssumption DEF Handoff!HandoffInvariant, Handoff!TypeOK,
     Handoff!None, Handoff!Watchers, Handoff!WatcherAssumption
<1>5. Handoff!TypeOK'
  <2>1. made' \in 0..MaxWatchers /\ current' \in 0..made' /\ gate' \in Nat
          /\ pendingGate' \in Nat
    BY <1>2, <1>3, HandoffAssumption DEF Handoff!HandoffInvariant, Handoff!TypeOK,
       Handoff!Watchers, Handoff!WatcherAssumption
  <2>2. folder' \in [Handoff!Watchers -> Folders \cup {Handoff!None}]
          /\ generation' \in [Handoff!Watchers -> Nat]
    <3>1. gate + 1 \in Nat /\ folder \in [Handoff!Watchers -> Folders \cup {Handoff!None}]
            /\ generation \in [Handoff!Watchers -> Nat]
      BY DEF Handoff!HandoffInvariant, Handoff!TypeOK
    <3> QED BY <1>3, <3>1
  <2> QED BY <1>2, <1>3, <2>1, <2>2 DEF Handoff!HandoffInvariant, Handoff!TypeOK
<1>6. Handoff!Base' = Handoff!Base
  BY <1>3, <1>4 DEF Handoff!Base
<1>7. Handoff!GateInvariant'
  BY <1>2, <1>3, <1>4, <1>6, HandoffAssumption DEF Handoff!HandoffInvariant,
     Handoff!GateInvariant, Handoff!InProgress, Handoff!TypeOK, Handoff!Watchers,
     Handoff!WatcherAssumption
<1>8. Handoff!SchedulerInvariant'
  <2>1. scheduler[n] = "prepared" /\ \A w \in Handoff!Watchers : w > n => w > made
    BY <1>1, <1>2, HandoffAssumption DEF Handoff!HandoffInvariant,
       Handoff!SchedulerInvariant, Handoff!TypeOK, Handoff!Watchers, Handoff!WatcherAssumption
  <2> QED BY <1>3, <2>1 DEF Handoff!HandoffInvariant, Handoff!SchedulerInvariant,
         Handoff!InChargeNext
<1>9. Handoff!OlderInvariant'
  <2>1. Handoff!Owner = current /\ Handoff!Owner' = current /\ scheduler[n] = "prepared"
    BY <1>1, <1>2, <1>3 DEF Handoff!Owner, Handoff!InChargeNext, Handoff!HandoffInvariant,
       Handoff!SchedulerInvariant, Handoff!TypeOK
  <2> QED BY <1>3, <1>4, <2>1 DEF Handoff!HandoffInvariant, Handoff!OlderInvariant
<1>10. Handoff!ShownInvariant'
  BY <1>3, <1>4 DEF Handoff!HandoffInvariant, Handoff!ShownInvariant
<1>11. Handoff!CallbackInvariant'
  BY <1>2, <1>3 DEF Handoff!HandoffInvariant, Handoff!CallbackInvariant,
     Handoff!InChargeNext, Handoff!TypeOK
<1> QED BY <1>5, <1>7, <1>8, <1>9, <1>10, <1>11 DEF Handoff!HandoffInvariant

\* A watcher that failed is taken back, and the gate with it.
LEMMA HandoffGiveUp ==
  ASSUME Handoff!HandoffInvariant, NEW s \in {"cancelled", "committed"},
         pc \in {"starting", "committing"}, Handoff!GiveUp(made, s),
         s = "committed" => uncommitted' = TRUE, uncommitted' \in {TRUE, uncommitted},
         UNCHANGED <<made, folder, generation, emitting, emitted, inbox, scheduled, posted,
                     current, shown, unhooked>>
  PROVE  Handoff!HandoffInvariant'
<1>1. /\ gate' = generation[made] - 1 /\ pendingGate' = Handoff!None /\ pc' = "idle"
      /\ stopped' = stopped \cup {made} /\ buffered' \subseteq buffered
      /\ scheduler' = [scheduler EXCEPT ![made] = s]
  BY DEF Handoff!GiveUp
<1>2. /\ made \in Handoff!Watchers /\ made \in 1..made /\ made # current
           /\ generation[made] = Handoff!Base + 1
      /\ scheduler[made] = "prepared" /\ Handoff!Base \in Nat /\ Handoff!Owner = current
  <2>1. made \in 0..MaxWatchers /\ current \in 0..made /\ current < made
          /\ generation[made] = Handoff!Base + 1
    BY DEF Handoff!HandoffInvariant, Handoff!TypeOK, Handoff!GateInvariant,
       Handoff!InProgress
  <2>2. made \in Handoff!Watchers /\ made \in 1..made /\ made # current
    BY <2>1, HandoffAssumption DEF Handoff!Watchers, Handoff!WatcherAssumption
  <2>3. Handoff!Base \in Nat
    BY <2>1, HandoffAssumption DEF Handoff!Base, Handoff!None, Handoff!HandoffInvariant,
       Handoff!TypeOK, Handoff!Watchers, Handoff!WatcherAssumption
  <2>4. scheduler[made] = "prepared" /\ Handoff!Owner = current
    BY DEF Handoff!HandoffInvariant, Handoff!SchedulerInvariant, Handoff!Owner,
       Handoff!InChargeNext
  <2> QED BY <2>1, <2>2, <2>3, <2>4
<1>3. /\ gate' = Handoff!Base /\ Handoff!Base' = Handoff!Base /\ scheduler'[made] = s
      /\ \A w \in Handoff!Watchers \ {made} : scheduler'[w] = scheduler[w]
  BY <1>1, <1>2 DEF Handoff!HandoffInvariant, Handoff!TypeOK, Handoff!Base
<1>4. Handoff!TypeOK'
  BY <1>1, <1>2, <1>3 DEF Handoff!HandoffInvariant, Handoff!TypeOK, Handoff!None
<1>5. Handoff!GateInvariant'
  BY <1>1, <1>3 DEF Handoff!GateInvariant, Handoff!InProgress
<1>6. Handoff!SchedulerInvariant'
  <2>1. made \notin posted /\ (current # Handoff!None => current \in Handoff!Watchers \ {made})
    BY <1>2, HandoffAssumption DEF Handoff!HandoffInvariant, Handoff!SchedulerInvariant,
       Handoff!TypeOK, Handoff!Watchers, Handoff!None, Handoff!WatcherAssumption
  <2>2. \A w \in posted : w \in Handoff!Watchers
    BY HandoffAssumption DEF Handoff!HandoffInvariant, Handoff!TypeOK, Handoff!Watchers,
       Handoff!WatcherAssumption
  <2>3. \A w \in Handoff!Watchers : w > made => scheduler'[w] = "prepared"
    BY <1>2, <1>3 DEF Handoff!HandoffInvariant, Handoff!SchedulerInvariant, Handoff!Watchers
  <2>4. pc' \notin {"starting", "committing", "hook", "retire"}
    BY <1>1
  <2> QED BY <1>3, <2>1, <2>2, <2>3, <2>4 DEF Handoff!HandoffInvariant,
         Handoff!SchedulerInvariant, Handoff!InChargeNext
<1>7. Handoff!OlderInvariant'
  <2>1. Handoff!Owner' = current
    BY <1>1 DEF Handoff!Owner, Handoff!InChargeNext
  <2> QED BY <1>2, <1>3, <2>1 DEF Handoff!HandoffInvariant, Handoff!OlderInvariant
<1>8. Handoff!ShownInvariant'
  BY <1>1 DEF Handoff!HandoffInvariant, Handoff!ShownInvariant
<1>9. Handoff!CallbackInvariant'
  BY <1>1, <1>2 DEF Handoff!HandoffInvariant, Handoff!CallbackInvariant,
     Handoff!InChargeNext
<1> QED BY <1>4, <1>5, <1>6, <1>7, <1>8, <1>9 DEF Handoff!HandoffInvariant

LEMMA HandoffStarts == ASSUME Handoff!HandoffInvariant,
    Handoff!Starts PROVE Handoff!HandoffInvariant'
<1>1. /\ pc = "starting" /\ pc' = "committing" /\ gate' = generation[made]
           /\ pendingGate' = Handoff!None
      /\ UNCHANGED <<made, folder, generation, scheduler, buffered, stopped, emitting, emitted,
                     inbox, scheduled, posted, current, shown, unhooked, uncommitted>>
  BY DEF Handoff!Starts, Handoff!threads, Handoff!queues, Handoff!history
<1>2. made \in Handoff!Watchers /\ generation[made] = Handoff!Base + 1 /\ current < made
        /\ made \notin stopped
  BY <1>1, HandoffAssumption DEF Handoff!HandoffInvariant, Handoff!GateInvariant,
     Handoff!InProgress, Handoff!TypeOK, Handoff!Watchers, Handoff!WatcherAssumption
<1>3. Handoff!TypeOK'
  BY <1>1, <1>2 DEF Handoff!HandoffInvariant, Handoff!TypeOK, Handoff!None
<1>4. Handoff!GateInvariant'
  BY <1>1, <1>2 DEF Handoff!GateInvariant, Handoff!InProgress, Handoff!Base
<1>5. Handoff!SchedulerInvariant' /\ Handoff!OlderInvariant'
  BY <1>1 DEF Handoff!HandoffInvariant, Handoff!SchedulerInvariant, Handoff!OlderInvariant,
     Handoff!Owner, Handoff!InChargeNext
<1>6. Handoff!ShownInvariant' /\ Handoff!CallbackInvariant'
  BY <1>1 DEF Handoff!HandoffInvariant, Handoff!ShownInvariant, Handoff!CallbackInvariant,
     Handoff!InChargeNext
<1> QED BY <1>3, <1>4, <1>5, <1>6 DEF Handoff!HandoffInvariant

LEMMA HandoffCommit == ASSUME Handoff!HandoffInvariant,
    Handoff!Commit PROVE Handoff!HandoffInvariant'
<1>1. /\ pc = "committing" /\ pc' = "hook"
      /\ scheduler' = [scheduler EXCEPT ![made] = "committed"]
      /\ posted' = posted \cup (buffered \cap {made}) /\ buffered' = buffered \ {made}
      /\ UNCHANGED <<made, folder, generation, gate, pendingGate, stopped, emitting, emitted,
             inbox,
                     scheduled, current, shown, unhooked, uncommitted>>
  BY DEF Handoff!Commit, Handoff!Kept, Handoff!gates, Handoff!threads, Handoff!history
<1>2. /\ made \in Handoff!Watchers /\ made \in 1..made /\ generation[made] = Handoff!Base + 1
           /\ current < made
      /\ made \notin stopped /\ Handoff!Base \in Nat /\ made # Handoff!None
  BY <1>1, HandoffAssumption DEF Handoff!HandoffInvariant, Handoff!GateInvariant,
     Handoff!InProgress, Handoff!TypeOK, Handoff!Watchers, Handoff!WatcherAssumption,
     Handoff!Base, Handoff!None
<1>3. scheduler'[made] = "committed"
        /\ \A w \in Handoff!Watchers \ {made} : scheduler'[w] = scheduler[w]
  BY <1>1, <1>2 DEF Handoff!HandoffInvariant, Handoff!TypeOK
<1>4. Handoff!TypeOK'
  BY <1>1, <1>2 DEF Handoff!HandoffInvariant, Handoff!TypeOK
<1>5. Handoff!GateInvariant'
  BY <1>1 DEF Handoff!HandoffInvariant, Handoff!GateInvariant, Handoff!InProgress,
     Handoff!Base
<1>6. Handoff!SchedulerInvariant'
  <2>1. \A w \in posted' : w \in Handoff!Watchers /\ (w # made => w \in posted)
    BY <1>1, HandoffAssumption DEF Handoff!HandoffInvariant, Handoff!TypeOK,
       Handoff!Watchers, Handoff!WatcherAssumption
  <2>2. current # Handoff!None => current \in Handoff!Watchers \ {made}
    BY <1>2, HandoffAssumption DEF Handoff!HandoffInvariant, Handoff!TypeOK,
       Handoff!Watchers, Handoff!None, Handoff!WatcherAssumption
  <2>3. \A w \in Handoff!Watchers : w > made => scheduler'[w] = "prepared"
    BY <1>2, <1>3 DEF Handoff!HandoffInvariant, Handoff!SchedulerInvariant, Handoff!Watchers
  <2>4. \A w \in posted' : scheduler'[w] = "committed"
    BY <1>3, <2>1 DEF Handoff!HandoffInvariant, Handoff!SchedulerInvariant
  <2> QED BY <1>1, <1>3, <2>2, <2>3, <2>4 DEF Handoff!HandoffInvariant,
         Handoff!SchedulerInvariant, Handoff!InChargeNext
<1>7. Handoff!OlderInvariant'
  <2>1. Handoff!Owner = current /\ Handoff!Owner' = made
    BY <1>1 DEF Handoff!Owner, Handoff!InChargeNext
  <2> SUFFICES ASSUME ~uncommitted, NEW w \in Handoff!Watchers, scheduler'[w] = "committed",
                          w # made
               PROVE  generation[w] < generation[made]
    BY <1>1, <1>2, <2>1 DEF Handoff!OlderInvariant
  <2>2. generation[w] \in Nat /\ scheduler[w] = "committed"
    BY <1>3 DEF Handoff!HandoffInvariant, Handoff!TypeOK
  <2>3. CASE w = current
    BY <1>2, <2>2, <2>3 DEF Handoff!Base, Handoff!None, Handoff!Watchers
  <2>4. CASE w # current
    <3>1. current # Handoff!None /\ generation[w] < generation[current]
      BY <2>1, <2>2, <2>4 DEF Handoff!HandoffInvariant, Handoff!OlderInvariant
    <3> QED BY <1>2, <2>2, <3>1 DEF Handoff!Base
  <2> QED BY <2>3, <2>4
<1>8. Handoff!ShownInvariant'
  BY <1>1 DEF Handoff!HandoffInvariant, Handoff!ShownInvariant
<1>9. Handoff!CallbackInvariant'
  <2>1. made \in scheduled => made \in posted'
    BY <1>1 DEF Handoff!HandoffInvariant, Handoff!CallbackInvariant
  <2> QED BY <1>1, <2>1 DEF Handoff!HandoffInvariant, Handoff!CallbackInvariant,
         Handoff!InChargeNext
<1> QED BY <1>4, <1>5, <1>6, <1>7, <1>8, <1>9 DEF Handoff!HandoffInvariant

LEMMA HandoffHook == ASSUME Handoff!HandoffInvariant,
    Handoff!Hook PROVE Handoff!HandoffInvariant'
<1>1. /\ pc = "hook" /\ pc' = "retire"
      /\ ~unhooked' => shown' = Handoff!None \/ shown' = folder[made]
      /\ shown' \in {shown, Handoff!None}
      /\ UNCHANGED <<made, folder, generation, gate, pendingGate, scheduler, buffered, stopped,
                     emitting, emitted, inbox, scheduled, posted, current, uncommitted>>
  BY DEF Handoff!Hook, Handoff!Withdrawn, Handoff!gates, Handoff!threads, Handoff!queues
<1>2. Handoff!TypeOK'
  BY <1>1 DEF Handoff!HandoffInvariant, Handoff!TypeOK
<1>3. Handoff!GateInvariant' /\ Handoff!SchedulerInvariant' /\ Handoff!OlderInvariant'
  BY <1>1 DEF Handoff!HandoffInvariant, Handoff!GateInvariant, Handoff!SchedulerInvariant,
     Handoff!OlderInvariant, Handoff!Owner, Handoff!Base, Handoff!InProgress,
     Handoff!InChargeNext
<1>4. made # Handoff!None
  BY <1>1 DEF Handoff!HandoffInvariant, Handoff!GateInvariant, Handoff!InProgress,
     Handoff!TypeOK, Handoff!None
<1>5. Handoff!ShownInvariant'
  BY <1>1, <1>4 DEF Handoff!ShownInvariant
<1>6. Handoff!CallbackInvariant'
  BY <1>1 DEF Handoff!HandoffInvariant, Handoff!CallbackInvariant, Handoff!InChargeNext
<1> QED BY <1>2, <1>3, <1>5, <1>6 DEF Handoff!HandoffInvariant

LEMMA HandoffRetire == ASSUME Handoff!HandoffInvariant,
    Handoff!Retire PROVE Handoff!HandoffInvariant'
<1>1. /\ pc = "retire" /\ pc' = "idle" /\ current' = made
      /\ stopped' = stopped \cup ({current} \ {Handoff!None})
      /\ UNCHANGED <<made, folder, generation, gate, pendingGate, scheduler, buffered, emitting,
                     emitted, inbox, scheduled, posted, shown, unhooked, uncommitted>>
  BY DEF Handoff!Retire, Handoff!gates, Handoff!queues, Handoff!history
<1>2. /\ made \in Handoff!Watchers /\ made # Handoff!None
           /\ generation[made] = Handoff!Base + 1 /\ current < made
      /\ made \notin stopped /\ Handoff!Owner = made /\ scheduler[made] = "committed"
  BY <1>1, HandoffAssumption DEF Handoff!HandoffInvariant, Handoff!GateInvariant,
     Handoff!SchedulerInvariant, Handoff!InProgress, Handoff!TypeOK, Handoff!Watchers,
     Handoff!WatcherAssumption, Handoff!None, Handoff!Owner, Handoff!InChargeNext
<1>3. Handoff!TypeOK'
  BY <1>1, <1>2 DEF Handoff!HandoffInvariant, Handoff!TypeOK, Handoff!None, Handoff!Watchers
<1>4. Handoff!GateInvariant'
  BY <1>1, <1>2 DEF Handoff!HandoffInvariant, Handoff!GateInvariant, Handoff!InProgress,
     Handoff!Base
<1>5. Handoff!SchedulerInvariant'
  BY <1>1, <1>2 DEF Handoff!HandoffInvariant, Handoff!SchedulerInvariant,
     Handoff!InChargeNext
<1>6. Handoff!OlderInvariant'
  BY <1>1, <1>2 DEF Handoff!HandoffInvariant, Handoff!OlderInvariant, Handoff!Owner,
     Handoff!InChargeNext
<1>7. Handoff!ShownInvariant'
  BY <1>1, <1>2 DEF Handoff!HandoffInvariant, Handoff!ShownInvariant
<1>8. Handoff!CallbackInvariant'
  BY <1>1, <1>2 DEF Handoff!HandoffInvariant, Handoff!CallbackInvariant,
     Handoff!InChargeNext, Handoff!TypeOK
<1> QED BY <1>3, <1>4, <1>5, <1>6, <1>7, <1>8 DEF Handoff!HandoffInvariant

LEMMA HandoffQuiesce == ASSUME Handoff!HandoffInvariant,
    Handoff!Quiesce PROVE Handoff!HandoffInvariant'
<1>1. /\ pc = "idle" /\ pc' = "ended" /\ stopped' = stopped \cup ({current} \ {Handoff!None})
      /\ inbox' = inbox \ {current} /\ scheduled' = scheduled \ {current}
      /\ shown' = IF current \in inbox THEN folder[current] ELSE shown
      /\ gate' = gate + 1 /\ pendingGate' = Handoff!None
      /\ UNCHANGED <<made, folder, generation, scheduler, buffered, emitting, emitted, posted,
                     current, unhooked, uncommitted>>
  BY DEF Handoff!Quiesce, Handoff!history
<1>2. Handoff!TypeOK'
  BY <1>1 DEF Handoff!HandoffInvariant, Handoff!TypeOK, Handoff!None
<1>3. Handoff!GateInvariant'
  BY <1>1 DEF Handoff!HandoffInvariant, Handoff!GateInvariant, Handoff!InProgress,
     Handoff!Base
<1>4. Handoff!SchedulerInvariant' /\ Handoff!OlderInvariant'
  BY <1>1 DEF Handoff!HandoffInvariant, Handoff!SchedulerInvariant, Handoff!OlderInvariant,
     Handoff!Owner, Handoff!InChargeNext
<1>5. Handoff!ShownInvariant'
  <2>1. current \in inbox => current # Handoff!None
    BY DEF Handoff!HandoffInvariant, Handoff!TypeOK, Handoff!None
  <2> QED BY <1>1, <2>1 DEF Handoff!HandoffInvariant, Handoff!ShownInvariant
<1>6. Handoff!CallbackInvariant'
  BY <1>1 DEF Handoff!CallbackInvariant, Handoff!InChargeNext
<1> QED BY <1>2, <1>3, <1>4, <1>5, <1>6 DEF Handoff!HandoffInvariant

LEMMA HandoffNextKeeps == ASSUME Handoff!HandoffInvariant,
    Handoff!Next PROVE Handoff!HandoffInvariant'
<1>1. CASE Handoff!StartFails
  <2>1. /\ pc = "starting" /\ Handoff!GiveUp(made, "cancelled")
        /\ UNCHANGED <<made, folder, generation, emitting, emitted, inbox, scheduled, posted,
                       current, shown, unhooked, uncommitted>>
    BY <1>1 DEF Handoff!StartFails, Handoff!queues
  <2> QED BY <2>1, HandoffGiveUp
<1>2. CASE Handoff!CommitFails
  <2>1. /\ pc = "committing" /\ Handoff!GiveUp(made, "committed") /\ uncommitted' = TRUE
        /\ UNCHANGED <<made, folder, generation, emitting, emitted, inbox, scheduled, posted,
                       current, shown, unhooked>>
    BY <1>2 DEF Handoff!CommitFails, Handoff!queues
  <2> QED BY <2>1, HandoffGiveUp
<1>3. CASE \E w \in Handoff!Watchers : Handoff!Emit(w) \/ Handoff!HandOver(w)
             \/ Handoff!Flush(w)
  BY <1>3, HandoffEmit, HandoffHandOver, HandoffFlush
<1>4. CASE \E f \in Folders : Handoff!Replace(f)
  BY <1>4, HandoffReplace
<1> QED BY <1>1, <1>2, <1>3, <1>4, HandoffStarts, HandoffCommit, HandoffHook, HandoffRetire,
       HandoffQuiesce DEF Handoff!Next

LEMMA HandoffSame == ASSUME Handoff!HandoffInvariant,
    UNCHANGED Handoff!vars PROVE Handoff!HandoffInvariant'
<1>1. UNCHANGED <<made, folder, generation, gate, pendingGate, scheduler, buffered, stopped,
                  emitting, emitted, inbox, scheduled, posted, pc, current, shown, unhooked,
                  uncommitted>>
  BY DEF Handoff!vars, Handoff!gates, Handoff!threads, Handoff!queues, Handoff!history
<1>2. Handoff!TypeOK' /\ Handoff!GateInvariant' /\ Handoff!SchedulerInvariant'
  BY <1>1 DEF Handoff!HandoffInvariant, Handoff!TypeOK, Handoff!GateInvariant,
     Handoff!SchedulerInvariant, Handoff!Base, Handoff!InProgress, Handoff!InChargeNext
<1>3. Handoff!OlderInvariant' /\ Handoff!ShownInvariant' /\ Handoff!CallbackInvariant'
  BY <1>1 DEF Handoff!HandoffInvariant, Handoff!OlderInvariant, Handoff!ShownInvariant,
     Handoff!CallbackInvariant, Handoff!Owner, Handoff!InChargeNext
<1> QED BY <1>2, <1>3 DEF Handoff!HandoffInvariant

LEMMA HandoffSafe ==
  Handoff!HandoffInvariant => Handoff!ShownIsOfCurrentFolder /\ Handoff!CurrentFeeds
    /\ Handoff!NothingStranded
<1> SUFFICES ASSUME Handoff!HandoffInvariant PROVE Handoff!ShownIsOfCurrentFolder
                      /\ Handoff!CurrentFeeds /\ Handoff!NothingStranded
  OBVIOUS
<1>1. Handoff!ShownIsOfCurrentFolder
  BY DEF Handoff!HandoffInvariant, Handoff!ShownInvariant, Handoff!ShownIsOfCurrentFolder
<1>2. Handoff!CurrentFeeds
  BY DEF Handoff!HandoffInvariant, Handoff!GateInvariant, Handoff!CallbackInvariant,
     Handoff!Base, Handoff!CurrentFeeds
<1>3. Handoff!NothingStranded
  BY DEF Handoff!HandoffInvariant, Handoff!TypeOK, Handoff!CallbackInvariant,
     Handoff!NothingStranded
<1> QED BY <1>1, <1>2, <1>3

-----------------------------------------------------------------------------
(* The greatest element of a finite set of numbers, which CHOOSE picks. *)

LEMMA GreatestOfFinite ==
  ASSUME NEW S, IsFiniteSet(S), S # {}, S \subseteq Int
  PROVE  \E k \in S : \A j \in S : j <= k
<1> DEFINE Above(k) == {j \in S : j > k}
           T == {Above(k) : k \in S}
<1>1. IsWellFoundedOn(StrictSubsetOrdering(S), SUBSET S)
  BY FS_StrictSubsetOrderingWellFounded, FS_FiniteSubsetsOfFinite
<1>2. T \subseteq SUBSET S /\ T # {}
  <2>1. PICK x : x \in S
    OBVIOUS
  <2>2. Above(x) \in T
    BY <2>1
  <2>3. \A k \in S : Above(k) \subseteq S
    OBVIOUS
  <2> QED BY <2>2, <2>3
<1>3. PICK X \in T : \A Y \in T : ~ (<<Y, X>> \in StrictSubsetOrdering(S))
  BY <1>1, <1>2, WFMin
<1>4. PICK k \in S : X = Above(k)
  BY <1>3
<1>5. ASSUME NEW j \in S, j > k PROVE FALSE
  <2>1. Above(j) \subseteq Above(k) /\ j \in Above(k) /\ j \notin Above(j)
    <3>1. \A i \in S : i \in Int
      OBVIOUS
    <3>2. \A i \in S : i > j => i > k
      BY <3>1, <1>5
    <3>3. Above(j) \subseteq Above(k)
      BY <3>2
    <3>4. j \in Above(k)
      BY <1>5
    <3>5. j \notin Above(j)
      BY <3>1
    <3> QED BY <3>3, <3>4, <3>5
  <2>2. <<Above(j), Above(k)>> \in (SUBSET S) \X (SUBSET S)
    OBVIOUS
  <2>3. <<Above(j), Above(k)>> \in StrictSubsetOrdering(S)
    BY <2>1, <2>2 DEF StrictSubsetOrdering
  <2> QED BY <2>3, <1>3, <1>4
<1> QED BY <1>5

-----------------------------------------------------------------------------
(* ScreenshotClaims: whose files are removed. *)

\* What a thread, or a queued removal, may remove from a path: nothing without
\* the addon's marker is there under the number it holds.
Removable(p, g) == Claims!Marked(g) \/ file[p] # g

FilesOK ==
  /\ written \in Nat
  /\ DOMAIN file = Claims!Paths
  /\ \A p \in Claims!Paths : file[p] \in 0..written
  /\ \A g \in Claims!Generations : name[g] \in Claims!Paths

JobFields == {"stage", "path", "mode", "attempt", "final", "decoded", "seen", "got", "settled",
              "retry", "again", "tries"}
RetryFields == {"stage", "mode", "path", "decoded", "tries"}

JobFits(j) ==
  /\ DOMAIN j = IF j.mode = "retry" THEN RetryFields ELSE JobFields
  /\ j.mode \in {"live", "backlog", "sweep", "retry"}
  /\ j.mode = "retry" => j.stage \in {"delete", "unlink"}
  /\ j.path \in Claims!Paths /\ j.decoded \in 1..written
  /\ j.mode # "retry" /\ j.stage = "decoded" =>
        /\ j.got \in 0..written \cup {Claims!NoDecoder}
        /\ j.got \in Claims!Generations => j.got = j.decoded \/ file[j.path] # j.decoded
  /\ j.stage \in {"delete", "unlink"} => Removable(j.path, j.decoded)
JobOK(t) == job[t] = Claims!Idle \/ JobFits(job[t])

PendingOK(p) ==
  pending[p] # Claims!None =>
    pending[p].generation \in 1..written /\ Removable(p, pending[p].generation)

JobsOK == DOMAIN job = Claims!Threads /\ \A t \in Claims!Threads : JobOK(t)
PendingsOK == DOMAIN pending = Claims!Paths /\ \A p \in Claims!Paths : PendingOK(p)
\* Whatever makes a thread look at a file names a path.
WakeupsOK ==
  /\ events \subseteq Claims!Paths /\ genTimers \subseteq Claims!Paths
  /\ DOMAIN incTimers = Claims!Paths
  /\ \A e \in scan.todo : e.path \in Claims!Paths /\ e.generation \in 0..written

UserInvariant ==
  /\ FilesOK /\ JobsOK /\ PendingsOK /\ WakeupsOK
  /\ Claims!IndexIsTrue /\ Claims!OnlyOwnedRemoved

\* What a step does to the files: a path keeps its generation, loses it or gets a new one.
FileStep ==
  /\ written' \in Nat /\ written' >= written /\ kind' = kind /\ name' = name
  /\ DOMAIN file' = Claims!Paths
  /\ \A p \in Claims!Paths :
        file'[p] = file[p] \/ file'[p] = Claims!Missing \/ file'[p] \in (written + 1)..written'

LEMMA SameDisk ==
  ASSUME FilesOK, UNCHANGED Claims!disk
  PROVE  FileStep /\ FilesOK'
BY DEF FilesOK, FileStep, Claims!disk

LEMMA FilesStay ==
  ASSUME FilesOK, FileStep
  PROVE  FilesOK'
BY DEF FilesOK, FileStep, Claims!Missing

LEMMA RemovableStays ==
  ASSUME FilesOK, FileStep, NEW p \in Claims!Paths, NEW g \in 1..written, Removable(p, g)
  PROVE  Removable(p, g)'
<1>1. file'[p] = file[p] \/ file'[p] # g
  BY DEF FilesOK, FileStep, Claims!Missing
<1> QED BY <1>1 DEF Removable, FileStep, Claims!Marked

LEMMA FitStays ==
  ASSUME FilesOK, FileStep, NEW CONSTANT j, JobFits(j)
  PROVE  JobFits(j)'
<1>1. j.path \in Claims!Paths /\ j.decoded \in 1..written
  BY DEF JobFits
<1>2. j.decoded \in 1..written'
  BY <1>1 DEF FilesOK, FileStep
<1>3. j.stage \in {"delete", "unlink"} => Removable(j.path, j.decoded)'
  BY <1>1, RemovableStays DEF JobFits
<1>4. file'[j.path] = file[j.path] \/ file'[j.path] # j.decoded
  BY <1>1 DEF FilesOK, FileStep, Claims!Missing
<1>5. j.mode # "retry" /\ j.stage = "decoded" =>
          /\ j.got \in 0..written' \cup {Claims!NoDecoder}
          /\ j.got \in Claims!Generations => j.got = j.decoded \/ file'[j.path] # j.decoded
  BY <1>4 DEF JobFits, FilesOK, FileStep
<1> QED BY <1>1, <1>2, <1>3, <1>5 DEF JobFits

LEMMA JobStays ==
  ASSUME FilesOK, FileStep, NEW t \in Claims!Threads, JobOK(t), job'[t] = job[t]
  PROVE  JobOK(t)'
<1>1. PICK j : j = job[t]
  OBVIOUS
<1>2. JobFits(j) => JobFits(j)'
  BY FitStays
<1> QED BY <1>1, <1>2 DEF JobOK, Claims!Idle

LEMMA PendingStays ==
  ASSUME FilesOK, FileStep, NEW p \in Claims!Paths, PendingOK(p), pending'[p] = pending[p]
  PROVE  PendingOK(p)'
<1>1. SUFFICES ASSUME pending[p] # Claims!None PROVE PendingOK(p)'
  BY DEF PendingOK, Claims!None
<1>2. pending[p].generation \in 1..written /\ Removable(p, pending[p].generation)
  BY <1>1 DEF PendingOK
<1>3. pending[p].generation \in 1..written' /\ Removable(p, pending[p].generation)'
  BY <1>2, RemovableStays DEF FilesOK, FileStep
<1> QED BY <1>3 DEF PendingOK

-----------------------------------------------------------------------------
(* How a step changes the thread that makes it. *)

OneJob(t) ==
  /\ DOMAIN job' = Claims!Threads
  /\ \A u \in Claims!Threads \ {t} : job'[u] = job[u]

LEMMA JobChange ==
  ASSUME FilesOK, FileStep, JobsOK, NEW t \in Claims!Threads, OneJob(t), JobOK(t)'
  PROVE  JobsOK'
<1>1. \A u \in Claims!Threads : JobOK(u)'
  BY JobStays DEF JobsOK, OneJob
<1> QED BY <1>1 DEF JobsOK, OneJob

LEMMA SameJobs ==
  ASSUME FilesOK, FileStep, JobsOK, job' = job
  PROVE  JobsOK'
<1>1. \A u \in Claims!Threads : JobOK(u)'
  BY JobStays DEF JobsOK
<1> QED BY <1>1 DEF JobsOK

LEMMA SamePendings ==
  ASSUME FilesOK, FileStep, PendingsOK, pending' = pending
  PROVE  PendingsOK'
<1>1. \A p \in Claims!Paths : PendingOK(p)'
  BY PendingStays DEF PendingsOK
<1> QED BY <1>1 DEF PendingsOK

LEMMA PendingChange ==
  ASSUME FilesOK, FileStep, PendingsOK, NEW p \in Claims!Paths, NEW v,
         pending' = [pending EXCEPT ![p] = v], PendingOK(p)'
  PROVE  PendingsOK'
<1>1. DOMAIN pending' = Claims!Paths /\ \A q \in Claims!Paths \ {p} : pending'[q] = pending[q]
  BY DEF PendingsOK
<1>2. \A q \in Claims!Paths : PendingOK(q)'
  BY <1>1, PendingStays DEF PendingsOK
<1> QED BY <1>1, <1>2 DEF PendingsOK

LEMMA StepFacts ==
  ASSUME NEW t \in Claims!Threads, DOMAIN job = Claims!Threads, NEW fields, Claims!Step(t, fields)
  PROVE  /\ OneJob(t)
         /\ DOMAIN job'[t] = DOMAIN job[t]
         /\ \A f \in DOMAIN job[t] :
               job'[t][f] = IF f \in DOMAIN fields THEN fields[f] ELSE job[t][f]
<1>1. job' = [job EXCEPT ![t] = Claims!With(job[t], fields)]
  BY DEF Claims!Step
<1> QED BY <1>1 DEF Claims!With, OneJob

LEMMA TakeFacts ==
  ASSUME UserInvariant, UNCHANGED Claims!disk, NEW t \in Claims!Threads, NEW p \in Claims!Paths,
         NEW mode \in {"live", "backlog", "sweep"}, NEW attempt, NEW final,
         Claims!Take(t, p, mode, attempt, final)
  PROVE  OneJob(t) /\ JobOK(t)'
<1>1. DOMAIN job = Claims!Threads
  BY DEF UserInvariant, JobsOK
<1>2. CASE ~Claims!Claimable(p)
  <2>1. job' = [job EXCEPT ![t] = Claims!Idle]
    BY <1>2 DEF Claims!Take
  <2>2. OneJob(t) /\ job'[t] = Claims!Idle
    BY <1>1, <2>1 DEF OneJob
  <2> QED BY <2>2 DEF JobOK, Claims!Idle
<1>3. CASE Claims!Claimable(p)
  <2>1. job' = [job EXCEPT ![t] = Claims!Job(p, mode, attempt, final)]
    BY <1>3 DEF Claims!Take
  <2>2. OneJob(t) /\ job'[t] = Claims!Job(p, mode, attempt, final)
    BY <1>1, <2>1 DEF OneJob
  <2>3. file'[p] \in 1..written' /\ file'[p] = file[p]
    BY <1>3 DEF Claims!Claimable, Claims!Missing, UserInvariant, FilesOK, Claims!disk
  <2> DEFINE j == [stage |-> "claimed", path |-> p, mode |-> mode, attempt |-> attempt,
                   final |-> final, decoded |-> file[p], seen |-> {file[p]}, got |-> Claims!Missing,
                   settled |-> FALSE, retry |-> FALSE, again |-> FALSE, tries |-> 0]
  <2>4. job'[t] = j
    BY <2>2 DEF Claims!Job
  <2>5. /\ DOMAIN j = JobFields /\ j.stage = "claimed" /\ j.mode = mode /\ j.path = p
        /\ j.decoded = file[p]
    BY DEF JobFields
  <2>6. /\ DOMAIN job'[t] = JobFields /\ job'[t].stage = "claimed" /\ job'[t].mode = mode
        /\ job'[t].path = p /\ job'[t].decoded = file[p]
    <3> HIDE DEF j
    <3> QED BY <2>4, <2>5
  <2>7. JobFits(job[t])'
    BY <2>3, <2>6 DEF JobFits
  <2> QED BY <2>2, <2>7 DEF JobOK
<1> QED BY <1>2, <1>3

\* A thread that goes on, to decode or to let its claim go, holds nothing new.
LEMMA GoesOn ==
  ASSUME UserInvariant, FileStep, NEW t \in Claims!Threads, job[t] # Claims!Idle,
         job[t].mode # "retry", NEW fields, Claims!Step(t, fields),
         DOMAIN fields \cap {"path", "mode"} = {}, "stage" \in DOMAIN fields,
         fields["stage"] \in {"decoding", "release", "retake"},
         "decoded" \in DOMAIN fields => fields["decoded"] \in 1..written
  PROVE  OneJob(t) /\ JobOK(t)'
<1>1. /\ JobFits(job[t]) /\ DOMAIN job = Claims!Threads /\ DOMAIN job[t] = JobFields
  BY DEF UserInvariant, JobsOK, JobOK, JobFits
<1>2. /\ OneJob(t) /\ DOMAIN job'[t] = JobFields
      /\ \A f \in JobFields : job'[t][f] = IF f \in DOMAIN fields THEN fields[f] ELSE job[t][f]
  BY <1>1, StepFacts
<1>3. {"path", "mode", "stage", "decoded"} \subseteq JobFields
  BY DEF JobFields
<1>4. /\ job'[t].path = job[t].path /\ job'[t].mode = job[t].mode
      /\ job'[t].stage \in {"decoding", "release", "retake"}
      /\ job'[t].decoded \in 1..written
  <2>1. job'[t].path = job[t].path /\ job'[t].mode = job[t].mode
    BY <1>2, <1>3
  <2>2. job'[t].stage \in {"decoding", "release", "retake"}
    BY <1>2, <1>3
  <2>3. job'[t].decoded \in 1..written
    BY <1>1, <1>2, <1>3 DEF JobFits
  <2> QED BY <2>1, <2>2, <2>3
<1>5. job'[t].decoded \in 1..written'
  BY <1>4 DEF UserInvariant, FilesOK, FileStep
<1>6. JobFits(job[t])'
  BY <1>1, <1>2, <1>4, <1>5 DEF JobFits
<1> QED BY <1>2, <1>6 DEF JobOK

LEMMA Conclude ==
  ASSUME UserInvariant, FileStep, JobsOK', PendingsOK', WakeupsOK', UNCHANGED <<manual, saved, removed>>
  PROVE  UserInvariant'
<1>1. FilesOK'
  BY FilesStay DEF UserInvariant
<1>2. Claims!IndexIsTrue' /\ Claims!OnlyOwnedRemoved'
  BY DEF UserInvariant, FileStep, Claims!IndexIsTrue, Claims!OnlyOwnedRemoved, Claims!Manual, Claims!Marked
<1> QED BY <1>1, <1>2 DEF UserInvariant

LEMMA SameScanPaths ==
  ASSUME UserInvariant, FileStep, events' \subseteq Claims!Paths, genTimers' \subseteq Claims!Paths,
         DOMAIN incTimers' = Claims!Paths, scan'.todo \subseteq scan.todo
  PROVE  WakeupsOK'
<1>1. \A g \in 0..written : g \in 0..written'
  BY DEF UserInvariant, FilesOK, FileStep
<1> QED BY <1>1 DEF UserInvariant, WakeupsOK

LEMMA SameWakeups ==
  ASSUME UserInvariant, FileStep, UNCHANGED <<events, genTimers, incTimers>>, scan'.todo \subseteq scan.todo
  PROVE  WakeupsOK'
BY SameScanPaths DEF UserInvariant, WakeupsOK

\* The actions that change no file but move one thread on.
LEMMA ThreadMoves ==
  ASSUME UserInvariant, UNCHANGED <<Claims!disk, events, genTimers, incTimers, pending, manual, saved, removed>>,
         scan'.todo \subseteq scan.todo, NEW t \in Claims!Threads, OneJob(t), JobOK(t)'
  PROVE  UserInvariant'
<1>1. FileStep
  BY SameDisk DEF UserInvariant
<1>2. JobsOK'
  BY <1>1, JobChange DEF UserInvariant
<1>3. PendingsOK'
  BY <1>1, SamePendings DEF UserInvariant
<1>4. WakeupsOK'
  BY <1>1, SameWakeups
<1> QED BY <1>1, <1>2, <1>3, <1>4, Conclude

LEMMA LookLiveKeeps ==
  ASSUME UserInvariant, NEW t \in Claims!Threads, Claims!LookLive(t)
  PROVE  UserInvariant'
<1>1. /\ job[t].stage = "claimed" /\ job[t].mode \in {"live", "sweep"}
      /\ UNCHANGED <<Claims!disk, events, genTimers, incTimers, scan, pending, manual, saved, removed>>
  BY DEF Claims!LookLive, Claims!wakeups, Claims!index, Claims!indexMemory, Claims!cleanup, Claims!history
<1>2. job[t] # Claims!Idle /\ job[t].mode # "retry"
  BY <1>1 DEF Claims!Idle
<1>3. FileStep
  BY <1>1, SameDisk DEF UserInvariant
<1>4. CASE Claims!Step(t, [stage |-> "release", again |-> TRUE])
  <2>1. OneJob(t) /\ JobOK(t)'
    <3> DEFINE fields == [stage |-> "release", again |-> TRUE]
    <3>1. /\ DOMAIN fields \cap {"path", "mode"} = {} /\ "stage" \in DOMAIN fields
          /\ fields["stage"] = "release" /\ "decoded" \notin DOMAIN fields
          /\ Claims!Step(t, fields)
      BY <1>4
    <3> HIDE DEF fields
    <3> QED BY <3>1, <1>2, <1>3, GoesOn
  <2> QED BY <2>1, <1>1, ThreadMoves
<1>5. CASE Claims!Leave(t)
  <2>1. OneJob(t) /\ JobOK(t)'
    <3> DEFINE fields == [stage |-> "release"]
    <3>1. /\ DOMAIN fields \cap {"path", "mode"} = {} /\ "stage" \in DOMAIN fields
          /\ fields["stage"] = "release" /\ "decoded" \notin DOMAIN fields
          /\ Claims!Step(t, fields)
      BY <1>5 DEF Claims!Leave
    <3> HIDE DEF fields
    <3> QED BY <3>1, <1>2, <1>3, GoesOn
  <2> QED BY <2>1, <1>1, ThreadMoves
<1>6. CASE /\ Claims!Now(t) # Claims!Missing
           /\ Claims!Step(t, [stage |-> "decoding", decoded |-> Claims!Now(t),
                               seen |-> job[t].seen \cup {Claims!Now(t)}])
  <2>1. Claims!Now(t) \in 1..written
    BY <1>2, <1>6 DEF UserInvariant, JobsOK, JobOK, JobFits, FilesOK, Claims!Now, Claims!Path,
       Claims!Missing
  <2>2. OneJob(t) /\ JobOK(t)'
    <3> DEFINE fields == [stage |-> "decoding", decoded |-> Claims!Now(t),
                          seen |-> job[t].seen \cup {Claims!Now(t)}]
    <3>1. /\ DOMAIN fields \cap {"path", "mode"} = {} /\ "stage" \in DOMAIN fields
          /\ fields["stage"] = "decoding" /\ fields["decoded"] \in 1..written
          /\ Claims!Step(t, fields)
      BY <1>6, <2>1
    <3> HIDE DEF fields
    <3> QED BY <3>1, <1>2, <1>3, GoesOn
  <2> QED BY <2>2, <1>1, ThreadMoves
<1> QED BY <1>4, <1>5, <1>6 DEF Claims!LookLive

\* What GoesOn says of the steps that only let the claim go or go on to decode.
LEMMA LeaveFacts ==
  ASSUME UserInvariant, FileStep, NEW t \in Claims!Threads, job[t] # Claims!Idle,
         job[t].mode # "retry", Claims!Leave(t)
  PROVE  OneJob(t) /\ JobOK(t)'
<1> DEFINE fields == [stage |-> "release"]
<1>1. /\ DOMAIN fields \cap {"path", "mode"} = {} /\ "stage" \in DOMAIN fields
      /\ fields["stage"] = "release" /\ "decoded" \notin DOMAIN fields
      /\ Claims!Step(t, fields)
  BY DEF Claims!Leave
<1> HIDE DEF fields
<1> QED BY <1>1, GoesOn

LEMMA LookBacklogKeeps ==
  ASSUME UserInvariant, NEW t \in Claims!Threads, Claims!LookBacklog(t)
  PROVE  UserInvariant'
<1>1. /\ job[t].stage = "claimed" /\ job[t].mode = "backlog"
      /\ UNCHANGED <<Claims!disk, events, genTimers, incTimers, pending, manual, saved, removed>>
      /\ scan'.todo = scan.todo
      /\ Claims!Leave(t) \/ Claims!Step(t, [stage |-> "decoding"])
  BY DEF Claims!LookBacklog, Claims!wakeups, Claims!index, Claims!indexMemory, Claims!cleanup, Claims!history
<1>2. job[t] # Claims!Idle /\ job[t].mode # "retry"
  BY <1>1 DEF Claims!Idle
<1>3. FileStep
  BY <1>1, SameDisk DEF UserInvariant
<1>4. OneJob(t) /\ JobOK(t)'
  <2>1. CASE Claims!Step(t, [stage |-> "decoding"])
    <3> DEFINE fields == [stage |-> "decoding"]
    <3>1. /\ DOMAIN fields \cap {"path", "mode"} = {} /\ "stage" \in DOMAIN fields
          /\ fields["stage"] = "decoding" /\ "decoded" \notin DOMAIN fields
          /\ Claims!Step(t, fields)
      BY <2>1
    <3> HIDE DEF fields
    <3> QED BY <3>1, <1>2, <1>3, GoesOn
  <2> QED BY <2>1, <1>1, <1>2, <1>3, LeaveFacts
<1> QED BY <1>1, <1>4, ThreadMoves

LEMMA DecodeKeeps ==
  ASSUME UserInvariant, NEW t \in Claims!Threads, Claims!Decode(t)
  PROVE  UserInvariant'
<1>1. /\ job[t].stage = "decoding"
      /\ UNCHANGED <<Claims!disk, events, genTimers, incTimers, scan, pending, manual, saved, removed>>
      /\ \/ Claims!Leave(t)
         \/ \E got \in {Claims!Now(t), Claims!Missing, Claims!NoDecoder} :
               Claims!Step(t, [stage |-> "decoded", got |-> got])
  BY DEF Claims!Decode, Claims!wakeups, Claims!index, Claims!indexMemory, Claims!cleanup, Claims!history
<1>2. job[t] # Claims!Idle
  BY <1>1 DEF Claims!Idle
<1>3. FileStep
  BY <1>1, SameDisk DEF UserInvariant
<1>4. JobFits(job[t]) /\ DOMAIN job = Claims!Threads /\ job[t].mode # "retry"
  BY <1>1, <1>2 DEF UserInvariant, JobsOK, JobOK, JobFits
<1>5. OneJob(t) /\ JobOK(t)'
  <2>1. SUFFICES ASSUME NEW got \in {Claims!Now(t), Claims!Missing, Claims!NoDecoder},
                        Claims!Step(t, [stage |-> "decoded", got |-> got])
                 PROVE  OneJob(t) /\ JobOK(t)'
    BY <1>1, <1>2, <1>3, <1>4, LeaveFacts
  <2> DEFINE fields == [stage |-> "decoded", got |-> got]
  <2>2. /\ DOMAIN fields = {"stage", "got"} /\ fields["stage"] = "decoded" /\ fields["got"] = got
        /\ Claims!Step(t, fields)
    BY <2>1
  <2> HIDE DEF fields
  <2>3. /\ OneJob(t) /\ DOMAIN job'[t] = DOMAIN job[t]
        /\ \A f \in DOMAIN job[t] :
               job'[t][f] = IF f \in DOMAIN fields THEN fields[f] ELSE job[t][f]
    BY <1>4, <2>2, StepFacts
  <2>4. DOMAIN job[t] = JobFields
    BY <1>4 DEF JobFits
  <2>5. /\ job'[t].stage = "decoded" /\ job'[t].got = got /\ job'[t].mode = job[t].mode
        /\ job'[t].path = job[t].path /\ job'[t].decoded = job[t].decoded
    BY <2>2, <2>3, <2>4 DEF JobFields
  <2>6. /\ got \in 0..written \cup {Claims!NoDecoder}
        /\ got \in Claims!Generations => got = file[job[t].path]
    <3>1. file[job[t].path] \in 0..written /\ 0 \in 0..written
      BY <1>4 DEF UserInvariant, FilesOK, JobFits
    <3>2. {Claims!Missing, Claims!NoDecoder} \cap Claims!Generations = {}
      BY DEF Claims!Missing, Claims!NoDecoder, Claims!Generations
    <3> QED BY <2>1, <3>1, <3>2 DEF Claims!Now, Claims!Path, Claims!Missing
  <2>7. file' = file /\ written' = written
    BY <1>1 DEF Claims!disk
  <2>8. JobFits(job[t])'
    BY <1>4, <2>3, <2>4, <2>5, <2>6, <2>7 DEF JobFits
  <2> QED BY <2>3, <2>8 DEF JobOK
<1> QED BY <1>1, <1>5, ThreadMoves

LEMMA FinalizeChangedKeeps ==
  ASSUME UserInvariant, NEW t \in Claims!Threads, Claims!FinalizeChanged(t)
  PROVE  UserInvariant'
<1>1. /\ job[t].stage = "decoded"
      /\ UNCHANGED <<Claims!disk, events, genTimers, incTimers, scan, pending, manual, saved, removed>>
  BY DEF Claims!FinalizeChanged, Claims!wakeups, Claims!index, Claims!indexMemory, Claims!cleanup, Claims!history
<1>2. job[t] # Claims!Idle /\ job[t].mode # "retry"
  BY <1>1 DEF Claims!Idle, UserInvariant, JobsOK, JobOK, JobFits
<1>3. FileStep
  BY <1>1, SameDisk DEF UserInvariant
<1>4. OneJob(t) /\ JobOK(t)'
  <2> DEFINE fields == [stage |-> "release", settled |-> TRUE, retry |-> TRUE]
  <2>1. /\ DOMAIN fields \cap {"path", "mode"} = {} /\ "stage" \in DOMAIN fields
        /\ fields["stage"] = "release" /\ "decoded" \notin DOMAIN fields
        /\ Claims!Step(t, fields)
    BY DEF Claims!FinalizeChanged
  <2> HIDE DEF fields
  <2> QED BY <2>1, <1>2, <1>3, GoesOn
<1> QED BY <1>1, <1>4, ThreadMoves

\* What is known of a result that is about to be acted on.
LEMMA DecodedFacts ==
  ASSUME UserInvariant, NEW t \in Claims!Threads, job[t].stage = "decoded", ~Claims!Changed(t)
  PROVE  /\ job[t] # Claims!Idle /\ job[t].mode \in {"live", "backlog", "sweep"}
         /\ JobFits(job[t]) /\ DOMAIN job[t] = JobFields
         /\ Claims!ShowsMarker(t) => Removable(job[t].path, job[t].decoded)
         /\ Claims!Shows(t, "manual") /\ Claims!Now(t) # Claims!Missing => Claims!Manual(job[t].decoded)
<1>1. /\ job[t] # Claims!Idle /\ JobFits(job[t]) /\ job[t].mode \in {"live", "backlog", "sweep"}
      /\ DOMAIN job[t] = JobFields
  BY DEF UserInvariant, JobsOK, JobOK, JobFits, Claims!Idle
<1>2. job[t].got \in Claims!Generations => job[t].got = job[t].decoded \/ file[job[t].path] # job[t].decoded
  BY <1>1 DEF JobFits
<1>3. Claims!ShowsMarker(t) => Removable(job[t].path, job[t].decoded)
  BY <1>2 DEF Claims!ShowsMarker, Removable
<1>4. ASSUME Claims!Shows(t, "manual"), Claims!Now(t) # Claims!Missing
      PROVE  Claims!Manual(job[t].decoded)
  <2>1. file[job[t].path] = job[t].decoded
    BY <1>4 DEF Claims!Changed, Claims!Now, Claims!Path
  <2> QED BY <2>1, <1>2, <1>4 DEF Claims!Shows, Claims!Manual
<1> QED BY <1>1, <1>3, <1>4

LEMMA ClassifyKeepsIndex ==
  ASSUME UserInvariant, NEW t \in Claims!Threads, job[t].stage = "decoded", UNCHANGED <<kind, removed>>,
         Claims!Classify(t)
  PROVE  Claims!IndexIsTrue' /\ Claims!OnlyOwnedRemoved'
<1>1. ~Claims!Changed(t)
  BY DEF Claims!Classify
<1>2. Claims!Shows(t, "manual") /\ Claims!Now(t) # Claims!Missing => Claims!Manual(job[t].decoded)
  BY <1>1, DecodedFacts
<1>3. manual' \subseteq manual \cup
         (IF Claims!Shows(t, "manual") /\ Claims!Now(t) # Claims!Missing THEN {job[t].decoded} ELSE {})
  BY DEF Claims!Classify
<1>4. saved'.manual \in {manual', saved.manual}
  BY DEF Claims!Classify
<1>5. \A g \in manual' : Claims!Manual(g)
  BY <1>2, <1>3 DEF UserInvariant, Claims!IndexIsTrue
<1>6. \A g \in manual' \cup saved'.manual : Claims!Manual(g)
  BY <1>4, <1>5 DEF UserInvariant, Claims!IndexIsTrue
<1>7. \A g : Claims!Manual(g) = (kind'[g] = "manual")
  BY DEF Claims!Manual
<1>8. Claims!OnlyOwnedRemoved'
  BY DEF UserInvariant, Claims!OnlyOwnedRemoved, Claims!Manual, Claims!Marked
<1>9. Claims!IndexIsTrue'
  BY <1>6, <1>7 DEF Claims!IndexIsTrue, Claims!Manual
<1> QED BY <1>8, <1>9

\* An answer is acted on: the claim is let go, or the file is to be deleted.
LEMMA ActsOn ==
  ASSUME UserInvariant, FileStep, UNCHANGED file, NEW t \in Claims!Threads, job[t].stage = "decoded",
         ~Claims!Changed(t),
         NEW fields, Claims!Step(t, fields), DOMAIN fields \subseteq {"stage", "settled", "again"},
         "stage" \in DOMAIN fields,
         \/ fields["stage"] = "release"
         \/ fields["stage"] = "delete" /\ Claims!ShowsMarker(t)
  PROVE  OneJob(t) /\ JobOK(t)'
<1>1. /\ job[t] # Claims!Idle /\ job[t].mode \in {"live", "backlog", "sweep"} /\ JobFits(job[t])
      /\ DOMAIN job[t] = JobFields
      /\ Claims!ShowsMarker(t) => Removable(job[t].path, job[t].decoded)
  BY DecodedFacts
<1>2. DOMAIN job = Claims!Threads
  BY DEF UserInvariant, JobsOK
<1>3. /\ OneJob(t) /\ DOMAIN job'[t] = DOMAIN job[t]
      /\ \A f \in DOMAIN job[t] :
            job'[t][f] = IF f \in DOMAIN fields THEN fields[f] ELSE job[t][f]
  BY <1>2, StepFacts
<1>4. /\ job'[t].mode = job[t].mode /\ job'[t].path = job[t].path /\ job'[t].decoded = job[t].decoded
      /\ job'[t].stage = fields["stage"]
  BY <1>1, <1>3 DEF JobFields
<1>5. job[t].path \in Claims!Paths /\ job[t].decoded \in 1..written
  BY <1>1 DEF JobFits
<1>8. job'[t].decoded \in 1..written'
  BY <1>4, <1>5 DEF UserInvariant, FilesOK, FileStep
<1>9. kind' = kind
  BY DEF FileStep
<1>10. JobFits(job[t])'
  <2>1. job'[t].stage \in {"release", "delete"} /\ DOMAIN job'[t] = JobFields
    BY <1>1, <1>3, <1>4
  <2>2. job'[t].stage = "delete" =>
          kind'[job'[t].decoded] \in {"owned", "corrupt"} \/ file'[job'[t].path] # job'[t].decoded
    BY <1>4, <1>1, <1>9 DEF Removable, Claims!Marked
  <2> QED BY <1>1, <1>4, <1>5, <1>8, <2>1, <2>2 DEF JobFits, Removable, Claims!Marked
<1> QED BY <1>3, <1>10 DEF JobOK

\* What is left to say of a step that classifies a result.
LEMMA Classified ==
  ASSUME UserInvariant, UNCHANGED <<Claims!disk, pending, removed, events, genTimers>>,
         NEW t \in Claims!Threads, job[t].stage = "decoded", Claims!Classify(t),
         OneJob(t), JobOK(t)', DOMAIN incTimers' = Claims!Paths, scan'.todo \subseteq scan.todo
  PROVE  UserInvariant'
<1>1. FileStep /\ FilesOK'
  BY SameDisk DEF UserInvariant
<1>2. JobsOK'
  BY <1>1, JobChange DEF UserInvariant
<1>3. PendingsOK'
  BY <1>1, SamePendings DEF UserInvariant
<1>4. WakeupsOK'
  BY <1>1, SameScanPaths DEF UserInvariant, WakeupsOK
<1>5. Claims!IndexIsTrue' /\ Claims!OnlyOwnedRemoved'
  BY ClassifyKeepsIndex DEF Claims!disk
<1> QED BY <1>1, <1>2, <1>3, <1>4, <1>5 DEF UserInvariant

LEMMA FinalizeLiveKeeps ==
  ASSUME UserInvariant, NEW t \in Claims!Threads, Claims!FinalizeLive(t)
  PROVE  UserInvariant'
<1>1. /\ UNCHANGED <<Claims!disk, pending, removed, events, genTimers, scan>>
      /\ job[t].stage = "decoded" /\ Claims!Classify(t) /\ ~Claims!Changed(t)
      /\ \/ Claims!ShowsMarker(t) /\ Claims!Settled(t, "delete")
         \/ Claims!Settled(t, "release")
  BY DEF Claims!FinalizeLive, Claims!Classify, Claims!cleanup
<1>2. DOMAIN incTimers' = Claims!Paths
  BY DEF Claims!FinalizeLive, UserInvariant, WakeupsOK
<1>3. FileStep /\ UNCHANGED file
  BY <1>1, SameDisk DEF UserInvariant, Claims!disk
<1>4. OneJob(t) /\ JobOK(t)'
  <2>1. PICK stage \in {"release", "delete"} :
          Claims!Settled(t, stage) /\ (stage = "delete" => Claims!ShowsMarker(t))
    BY <1>1
  <2> DEFINE fields == [stage |-> stage, settled |-> TRUE]
  <2>2. /\ Claims!Step(t, fields) /\ DOMAIN fields = {"stage", "settled"} /\ fields["stage"] = stage
    BY <2>1 DEF Claims!Settled
  <2> HIDE DEF fields
  <2>3. DOMAIN fields \subseteq {"stage", "settled", "again"} /\ "stage" \in DOMAIN fields
    BY <2>2
  <2> QED BY <1>1, <1>3, <2>1, <2>2, <2>3, ActsOn
<1> QED BY <1>1, <1>2, <1>4, Classified

LEMMA FinalizeBacklogKeeps ==
  ASSUME UserInvariant, NEW t \in Claims!Threads, Claims!FinalizeBacklog(t)
  PROVE  UserInvariant'
<1> DEFINE owned == Claims!ShowsMarker(t) /\ ~scan.blocked
           again == (Claims!ShowsMarker(t) \/ Claims!Shows(t, "suspect")) /\ scan.blocked
           stage == IF owned THEN "delete" ELSE "release"
           fields == [stage |-> stage, settled |-> TRUE, again |-> again]
<1>1. /\ UNCHANGED <<Claims!disk, pending, removed, events, genTimers>>
      /\ job[t].stage = "decoded" /\ Claims!Classify(t) /\ ~Claims!Changed(t) /\ Claims!Step(t, fields)
  BY DEF Claims!FinalizeBacklog, Claims!Classify, Claims!cleanup
<1>2. DOMAIN incTimers' = Claims!Paths
  BY DEF Claims!FinalizeBacklog, UserInvariant, WakeupsOK
<1>3. FileStep /\ UNCHANGED file
  BY <1>1, SameDisk DEF UserInvariant, Claims!disk
<1>4. OneJob(t) /\ JobOK(t)'
  <2>1. /\ DOMAIN fields \subseteq {"stage", "settled", "again"} /\ "stage" \in DOMAIN fields
        /\ fields["stage"] = stage
    OBVIOUS
  <2>2. fields["stage"] = "release" \/ (fields["stage"] = "delete" /\ Claims!ShowsMarker(t))
    BY <2>1
  <2> HIDE DEF fields
  <2> QED BY <1>1, <1>3, <2>1, <2>2, ActsOn
<1>5. scan'.todo \subseteq scan.todo
  BY DEF Claims!FinalizeBacklog
<1> QED BY <1>1, <1>2, <1>4, <1>5, Classified

LEMMA FinalizeSweepKeeps ==
  ASSUME UserInvariant, NEW t \in Claims!Threads, Claims!FinalizeSweep(t)
  PROVE  UserInvariant'
<1> DEFINE young == job[t].decoded \notin old
           stage == IF Claims!ShowsMarker(t) /\ ~young THEN "delete" ELSE "release"
           fields == [stage |-> stage, settled |-> TRUE, again |-> young]
<1>1. /\ UNCHANGED <<Claims!disk, pending, removed, events, genTimers, incTimers, scan>>
      /\ job[t].stage = "decoded" /\ Claims!Classify(t) /\ ~Claims!Changed(t) /\ Claims!Step(t, fields)
  BY DEF Claims!FinalizeSweep, Claims!Classify, Claims!cleanup, Claims!wakeups, Claims!history
<1>2. DOMAIN incTimers' = Claims!Paths
  BY <1>1 DEF UserInvariant, WakeupsOK
<1>3. FileStep /\ UNCHANGED file
  BY <1>1, SameDisk DEF UserInvariant, Claims!disk
<1>4. OneJob(t) /\ JobOK(t)'
  <2>1. /\ DOMAIN fields \subseteq {"stage", "settled", "again"} /\ "stage" \in DOMAIN fields
        /\ fields["stage"] = stage
    OBVIOUS
  <2>2. fields["stage"] = "release" \/ (fields["stage"] = "delete" /\ Claims!ShowsMarker(t))
    BY <2>1
  <2> HIDE DEF fields
  <2> QED BY <1>1, <1>3, <2>1, <2>2, ActsOn
<1> QED BY <1>1, <1>2, <1>4, Classified

\* A removal is taken up or refused, and ends.
LEMMA DeletedFacts ==
  ASSUME UserInvariant, FileStep, NEW t \in Claims!Threads, job[t] # Claims!Idle, Claims!Deleted(t)
  PROVE  OneJob(t) /\ JobOK(t)'
<1>1. CASE job[t].mode = "retry"
  <2>1. job' = [job EXCEPT ![t] = Claims!Idle]
    BY <1>1 DEF Claims!Deleted
  <2>2. OneJob(t) /\ job'[t] = Claims!Idle
    BY <2>1 DEF OneJob, UserInvariant, JobsOK
  <2> QED BY <2>2 DEF JobOK, Claims!Idle
<1>2. CASE job[t].mode # "retry"
  BY <1>2, LeaveFacts DEF Claims!Deleted
<1> QED BY <1>1, <1>2

LEMMA DeleteBeginKeeps ==
  ASSUME UserInvariant, NEW t \in Claims!Threads, Claims!DeleteBegin(t)
  PROVE  UserInvariant'
<1>1. /\ job[t].stage = "delete"
      /\ UNCHANGED <<Claims!disk, events, genTimers, incTimers, scan, manual, saved, removed>>
      /\ \/ Claims!Step(t, [stage |-> "unlink"])
              /\ pending' \in {pending, [pending EXCEPT ![Claims!Path(t)] = Claims!None]}
         \/ Claims!Deleted(t) /\ pending' = pending
  BY DEF Claims!DeleteBegin, Claims!wakeups, Claims!index, Claims!indexMemory, Claims!history
<1>2. job[t] # Claims!Idle
  BY <1>1 DEF Claims!Idle
<1>3. FileStep /\ UNCHANGED <<file, written, kind>>
  BY <1>1, SameDisk DEF UserInvariant, Claims!disk
<1>4. JobFits(job[t]) /\ DOMAIN job = Claims!Threads /\ job[t].path \in Claims!Paths
  BY <1>2 DEF UserInvariant, JobsOK, JobOK, JobFits
<1>5. OneJob(t) /\ JobOK(t)'
  <2>1. CASE Claims!Step(t, [stage |-> "unlink"])
    <3> DEFINE fields == [stage |-> "unlink"]
    <3>1. Claims!Step(t, fields) /\ DOMAIN fields = {"stage"} /\ fields["stage"] = "unlink"
      BY <2>1
    <3> HIDE DEF fields
    <3>2. /\ OneJob(t) /\ DOMAIN job'[t] = DOMAIN job[t]
          /\ \A f \in DOMAIN job[t] :
                job'[t][f] = IF f \in DOMAIN fields THEN fields[f] ELSE job[t][f]
      BY <1>4, <3>1, StepFacts
    <3>3. {"stage", "mode", "path", "decoded"} \subseteq DOMAIN job[t]
      BY <1>4 DEF JobFits, JobFields, RetryFields
    <3>4. /\ job'[t].stage = "unlink" /\ job'[t].mode = job[t].mode
          /\ job'[t].path = job[t].path /\ job'[t].decoded = job[t].decoded
      BY <3>1, <3>2, <3>3
    <3>5. Removable(job[t].path, job[t].decoded)
      BY <1>1, <1>4 DEF JobFits
    <3>6. JobFits(job[t])'
      BY <1>3, <1>4, <3>2, <3>4, <3>5 DEF JobFits, Removable, Claims!Marked
    <3> QED BY <3>2, <3>6 DEF JobOK
  <2> QED BY <2>1, <1>1, <1>2, <1>3, DeletedFacts
<1>6. JobsOK'
  BY <1>3, <1>5, JobChange DEF UserInvariant
<1>7. PendingsOK'
  <2>1. CASE pending' = pending
    BY <2>1, <1>3, SamePendings DEF UserInvariant
  <2>2. CASE pending' = [pending EXCEPT ![Claims!Path(t)] = Claims!None]
    <3>1. PICK p \in Claims!Paths : p = Claims!Path(t)
      BY <1>4 DEF Claims!Path
    <3>2. pending' = [pending EXCEPT ![p] = Claims!None]
      BY <2>2, <3>1
    <3>3. pending'[p] = Claims!None
      BY <3>2 DEF UserInvariant, PendingsOK
    <3>4. PendingOK(p)'
      BY <3>3 DEF PendingOK, Claims!None
    <3> QED BY <3>2, <3>4, <1>3, PendingChange DEF UserInvariant
  <2> QED BY <1>1, <2>1, <2>2
<1>8. WakeupsOK'
  BY <1>1, <1>3, SameWakeups
<1> QED BY <1>1, <1>3, <1>6, <1>7, <1>8, Conclude

\* A removal removes what it was allowed to remove, or puts it off.
LEMMA UnlinkKeeps ==
  ASSUME UserInvariant, NEW t \in Claims!Threads, Claims!Unlink(t)
  PROVE  UserInvariant'
<1> DEFINE p == job[t].path
           g == job[t].decoded
<1>1. /\ job[t].stage = "unlink" /\ Claims!Deleted(t)
      /\ UNCHANGED <<written, kind, name, events, genTimers, incTimers, scan, manual, saved>>
  BY DEF Claims!Unlink, Claims!wakeups, Claims!index, Claims!indexMemory
<1>2. \/ file' = [file EXCEPT ![p] = Claims!Missing] /\ removed' = removed \cup {g}
           /\ file[p] = g /\ g # Claims!Missing
      \/ UNCHANGED <<file, removed>>
  BY DEF Claims!Unlink, Claims!Matches, Claims!Path
<1>3. \E v : \/ /\ v = pending[p] \/ v = Claims!None \/ v.generation = g
                /\ pending' = [pending EXCEPT ![p] = v]
             \/ pending' = pending
  <2>1. \/ pending' = pending
        \/ pending' = [pending EXCEPT ![p] = IF pending[p].generation = g THEN Claims!None ELSE pending[p]]
        \/ \E n : pending' = [pending EXCEPT ![p] = [generation |-> g, tries |-> n]]
    BY DEF Claims!Unlink, Claims!Path
  <2>2. \A n : [generation |-> g, tries |-> n].generation = g
    OBVIOUS
  <2> QED BY <2>1, <2>2
<1>4. job[t] # Claims!Idle
  BY <1>1 DEF Claims!Idle
<1>5. JobFits(job[t]) /\ p \in Claims!Paths /\ g \in 1..written /\ Removable(p, g)
  BY <1>1, <1>4 DEF UserInvariant, JobsOK, JobOK, JobFits
<1>6. FileStep
  BY <1>1, <1>2 DEF UserInvariant, FilesOK, FileStep
<1>7. JobsOK'
  <2>1. OneJob(t) /\ JobOK(t)'
    BY <1>1, <1>4, <1>6, DeletedFacts
  <2> QED BY <2>1, <1>6, JobChange DEF UserInvariant
<1>8. PendingsOK'
  <2>1. CASE pending' = pending
    BY <2>1, <1>6, SamePendings DEF UserInvariant
  <2>2. ASSUME NEW v, v = pending[p] \/ v = Claims!None \/ v.generation = g,
               pending' = [pending EXCEPT ![p] = v]
        PROVE  PendingsOK'
    <3>1. PICK q \in Claims!Paths : q = p
      BY <1>5
    <3>2. PICK h \in 1..written : h = g
      BY <1>5
    <3>3. pending'[q] = v /\ DOMAIN pending = Claims!Paths
      BY <2>2, <3>1 DEF UserInvariant, PendingsOK
    <3>4. PendingOK(q)'
      <4>1. CASE v = pending[p]
        BY <4>1, <3>1, <3>3, <1>6, PendingStays DEF UserInvariant, PendingsOK
      <4>2. CASE v = Claims!None
        BY <4>2, <3>3 DEF PendingOK, Claims!None, Claims!Missing
      <4>3. CASE v.generation = g
        <5>1. Removable(q, h)'
          BY <1>5, <1>6, <3>1, <3>2, RemovableStays DEF UserInvariant
        <5>2. h \in 1..written'
          BY <1>1
        <5>3. pending'[q].generation = h
          BY <4>3, <3>2, <3>3
        <5> QED BY <5>1, <5>2, <5>3 DEF PendingOK
      <4> QED BY <2>2, <4>1, <4>2, <4>3
    <3>5. pending' = [pending EXCEPT ![q] = v]
      BY <2>2, <3>1
    <3> QED BY <3>4, <3>5, <1>6, PendingChange DEF UserInvariant
  <2> QED BY <1>3, <2>1, <2>2
<1>9. WakeupsOK'
  BY <1>1, <1>6, SameWakeups
<1>10. Claims!OnlyOwnedRemoved'
  <2>1. CASE UNCHANGED <<file, removed>>
    BY <1>1, <2>1 DEF UserInvariant, Claims!OnlyOwnedRemoved, Claims!Manual, Claims!Marked
  <2>2. CASE removed' = removed \cup {g} /\ file[p] = g
    <3>1. Claims!Marked(g)
      BY <2>2, <1>5 DEF Removable
    <3>2. \A h \in removed' : Claims!Marked(h)
      BY <2>2, <3>1 DEF UserInvariant, Claims!OnlyOwnedRemoved
    <3> QED BY <3>2, <1>1 DEF Claims!OnlyOwnedRemoved, Claims!Manual, Claims!Marked
  <2> QED BY <1>2, <2>1, <2>2
<1>11. FilesOK' /\ Claims!IndexIsTrue'
  <2>1. FilesOK'
    BY <1>6, FilesStay DEF UserInvariant
  <2> QED BY <2>1, <1>1 DEF UserInvariant, Claims!IndexIsTrue, Claims!Manual
<1> QED BY <1>7, <1>8, <1>9, <1>10, <1>11 DEF UserInvariant

LEMMA ReleaseKeeps ==
  ASSUME UserInvariant, NEW t \in Claims!Threads, Claims!Release(t)
  PROVE  UserInvariant'
<1>1. /\ job[t].stage = "release"
      /\ UNCHANGED <<Claims!disk, events, incTimers, scan, pending, manual, saved, removed>>
      /\ genTimers' \in {genTimers, genTimers \cup {job[t].path}}
      /\ \/ Claims!Step(t, [stage |-> "retake"])
         \/ job' = [job EXCEPT ![t] = Claims!Idle]
  BY DEF Claims!Release, Claims!index, Claims!indexMemory, Claims!cleanup, Claims!history, Claims!Path
<1>2. job[t] # Claims!Idle
  BY <1>1 DEF Claims!Idle
<1>3. FileStep
  BY <1>1, SameDisk DEF UserInvariant
<1>4. JobFits(job[t]) /\ DOMAIN job = Claims!Threads /\ job[t].mode # "retry" /\ job[t].path \in Claims!Paths
  BY <1>1, <1>2 DEF UserInvariant, JobsOK, JobOK, JobFits
<1>5. OneJob(t) /\ JobOK(t)'
  <2>1. CASE Claims!Step(t, [stage |-> "retake"])
    <3> DEFINE fields == [stage |-> "retake"]
    <3>1. /\ DOMAIN fields \cap {"path", "mode"} = {} /\ "stage" \in DOMAIN fields
          /\ fields["stage"] = "retake" /\ "decoded" \notin DOMAIN fields
          /\ Claims!Step(t, fields)
      BY <2>1
    <3> HIDE DEF fields
    <3> QED BY <3>1, <1>2, <1>3, <1>4, GoesOn
  <2>2. CASE job' = [job EXCEPT ![t] = Claims!Idle]
    <3>1. OneJob(t) /\ job'[t] = Claims!Idle
      BY <2>2, <1>4 DEF OneJob
    <3> QED BY <3>1 DEF JobOK, Claims!Idle
  <2> QED BY <1>1, <2>1, <2>2
<1>6. JobsOK'
  BY <1>3, <1>5, JobChange DEF UserInvariant
<1>7. PendingsOK'
  BY <1>1, <1>3, SamePendings DEF UserInvariant
<1>8. WakeupsOK'
  BY <1>1, <1>3, <1>4, SameScanPaths DEF UserInvariant, WakeupsOK
<1> QED BY <1>1, <1>3, <1>6, <1>7, <1>8, Conclude

LEMMA RetakeKeeps ==
  ASSUME UserInvariant, NEW t \in Claims!Threads, Claims!Retake(t)
  PROVE  UserInvariant'
<1>1. /\ job[t].stage = "retake"
      /\ UNCHANGED <<Claims!disk, events, genTimers, incTimers, scan, pending, manual, saved, removed>>
      /\ \E attempt \in {1, 2} : Claims!Take(t, job[t].path, "live", attempt, job[t].final)
  BY DEF Claims!Retake, Claims!wakeups, Claims!index, Claims!indexMemory, Claims!cleanup, Claims!history, Claims!Path
<1>2. job[t] # Claims!Idle
  BY <1>1 DEF Claims!Idle
<1>3. job[t].path \in Claims!Paths
  BY <1>2 DEF UserInvariant, JobsOK, JobOK, JobFits
<1>4. OneJob(t) /\ JobOK(t)'
  BY <1>1, <1>3, TakeFacts
<1> QED BY <1>1, <1>4, ThreadMoves

\* The wake-ups: an event, or one of the two timers, makes its thread look at a path.
LEMMA WakeupKeeps ==
  ASSUME UserInvariant, Claims!Event \/ Claims!GenerationRetry \/ Claims!IncompleteRetry
  PROVE  UserInvariant'
<1>1. /\ UNCHANGED <<Claims!disk, scan, pending, manual, saved, removed>>
      /\ events' \subseteq events /\ genTimers' \subseteq genTimers
      /\ DOMAIN incTimers' = Claims!Paths
  <2>1. DOMAIN incTimers = Claims!Paths
    BY DEF UserInvariant, WakeupsOK
  <2> QED BY <2>1 DEF Claims!Event, Claims!GenerationRetry, Claims!IncompleteRetry,
               Claims!index, Claims!indexMemory, Claims!cleanup, Claims!history
<1>2. FileStep /\ UNCHANGED <<file, written, kind>>
  BY <1>1, SameDisk DEF UserInvariant, Claims!disk
<1>3. JobsOK'
  <2>1. CASE Claims!Event
    <3>1. PICK p \in events : Claims!Take("observer", p, "live", 1, FALSE)
      BY <2>1 DEF Claims!Event
    <3>2. p \in Claims!Paths /\ "observer" \in Claims!Threads
      BY DEF UserInvariant, WakeupsOK, Claims!Threads
    <3>3. OneJob("observer") /\ JobOK("observer")'
      BY <1>1, <3>1, <3>2, TakeFacts
    <3> QED BY <3>2, <3>3, <1>2, JobChange DEF UserInvariant
  <2>2. CASE Claims!GenerationRetry
    <3>1. PICK p \in genTimers : Claims!Take("timer", p, "live", 1, FALSE)
      BY <2>2 DEF Claims!GenerationRetry
    <3>2. p \in Claims!Paths /\ "timer" \in Claims!Threads
      BY DEF UserInvariant, WakeupsOK, Claims!Threads
    <3>3. OneJob("timer") /\ JobOK("timer")'
      BY <1>1, <3>1, <3>2, TakeFacts
    <3> QED BY <3>2, <3>3, <1>2, JobChange DEF UserInvariant
  <2>3. CASE Claims!IncompleteRetry
    <3>1. PICK p \in Claims!Paths :
             /\ incTimers[p] # Claims!Missing
             /\ \/ UNCHANGED job
                \/ /\ file[p] = incTimers[p]
                   /\ job' = [job EXCEPT !["timer"] = Claims!Job(p, "live", 1, TRUE)]
      BY <2>3 DEF Claims!IncompleteRetry
    <3>2. CASE UNCHANGED job
      BY <3>2, <1>2, SameJobs DEF UserInvariant
    <3>3. CASE /\ file[p] = incTimers[p]
               /\ job' = [job EXCEPT !["timer"] = Claims!Job(p, "live", 1, TRUE)]
      <4> DEFINE j == [stage |-> "claimed", path |-> p, mode |-> "live", attempt |-> 1,
                   final |-> TRUE, decoded |-> file[p], seen |-> {file[p]}, got |-> Claims!Missing,
                   settled |-> FALSE, retry |-> FALSE, again |-> FALSE, tries |-> 0]
      <4>1. "timer" \in Claims!Threads /\ DOMAIN job = Claims!Threads
        BY DEF Claims!Threads, UserInvariant, JobsOK
      <4>2. OneJob("timer") /\ job'["timer"] = j
        BY <3>3, <4>1 DEF OneJob, Claims!Job
      <4>3. /\ DOMAIN j = JobFields /\ j.stage = "claimed" /\ j.mode = "live" /\ j.path = p
            /\ j.decoded = file[p]
        BY DEF JobFields
      <4>4. file[p] \in 1..written
        BY <3>1, <3>3 DEF UserInvariant, FilesOK, Claims!Missing
      <4>5. JobFits(job["timer"])'
        <5> HIDE DEF j
        <5> QED BY <4>2, <4>3, <4>4, <1>2 DEF JobFits
      <4>6. JobOK("timer")'
        BY <4>2, <4>5 DEF JobOK
      <4> QED BY <4>1, <4>2, <4>6, <1>2, JobChange DEF UserInvariant
    <3> QED BY <3>1, <3>2, <3>3
  <2> QED BY <2>1, <2>2, <2>3
<1>4. PendingsOK'
  BY <1>1, <1>2, SamePendings DEF UserInvariant
<1>5. WakeupsOK'
  BY <1>1, <1>2, SameScanPaths DEF UserInvariant, WakeupsOK
<1> QED BY <1>1, <1>2, <1>3, <1>4, <1>5, Conclude

\* The backlog scan: the index forgets what is gone, and is saved at the end.
LEMMA ScanBeginKeeps ==
  ASSUME UserInvariant, Claims!ScanBegin
  PROVE  UserInvariant'
<1>1. /\ UNCHANGED <<Claims!disk, job, events, genTimers, incTimers, pending, saved, removed>>
      /\ manual' \subseteq manual
      /\ scan'.todo = {[path |-> p, generation |-> file[p]] :
                          p \in {q \in Claims!Paths : file[q] # Claims!Missing}}
  BY DEF Claims!ScanBegin, Claims!wakeups, Claims!cleanup, Claims!history
<1>2. FileStep /\ FilesOK' /\ UNCHANGED kind
  BY <1>1, SameDisk DEF UserInvariant, Claims!disk
<1>3. JobsOK' /\ PendingsOK'
  BY <1>1, <1>2, SameJobs, SamePendings DEF UserInvariant
<1>4. WakeupsOK'
  <2>1. \A e \in scan'.todo : e.path \in Claims!Paths /\ e.generation = file[e.path]
    BY <1>1
  <2>2. \A e \in scan'.todo : e.path \in Claims!Paths /\ e.generation \in 0..written'
    BY <2>1, <1>1 DEF UserInvariant, FilesOK, Claims!disk
  <2> QED BY <1>1, <2>2 DEF UserInvariant, WakeupsOK
<1>5. Claims!IndexIsTrue' /\ Claims!OnlyOwnedRemoved'
  BY <1>1, <1>2 DEF UserInvariant, Claims!IndexIsTrue, Claims!OnlyOwnedRemoved, Claims!Manual, Claims!Marked
<1> QED BY <1>2, <1>3, <1>4, <1>5 DEF UserInvariant

LEMMA UpToIsFinite ==
  ASSUME NEW n \in Nat
  PROVE  IsFiniteSet(0..n) /\ 0..n \subseteq Int
<1>1. 0 \in Int /\ n \in Int
  OBVIOUS
<1>2. IsFiniteSet(0..n)
  BY <1>1, FS_Interval
<1>3. 0..n \subseteq Int
  OBVIOUS
<1> QED BY <1>2, <1>3

LEMMA NewestListed ==
  ASSUME UserInvariant, scan.todo # {}
  PROVE  /\ Claims!NewestOf(scan.todo) \in scan.todo
         /\ \A e \in scan.todo : e.generation <= Claims!NewestOf(scan.todo).generation
<1> DEFINE G == {e.generation : e \in scan.todo}
<1>1. G \subseteq 0..written /\ G # {} /\ written \in Nat
  BY DEF UserInvariant, WakeupsOK, FilesOK
<1>2. IsFiniteSet(G) /\ G \subseteq Int
  <2> HIDE DEF G
  <2>1. IsFiniteSet(0..written) /\ 0..written \subseteq Int
    BY <1>1, UpToIsFinite
  <2> QED BY <1>1, <2>1, FS_Subset
<1>3. \E k \in G : \A j \in G : j <= k
  <2> HIDE DEF G
  <2> QED BY <1>1, <1>2, GreatestOfFinite
<1>4. \E e \in scan.todo : \A f \in scan.todo : f.generation <= e.generation
  BY <1>3
<1> QED BY <1>4 DEF Claims!NewestOf

LEMMA ScanNextKeeps ==
  ASSUME UserInvariant, Claims!ScanNext
  PROVE  UserInvariant'
<1> DEFINE listed == Claims!NewestOf(scan.todo)
<1>1. /\ UNCHANGED <<Claims!disk, events, genTimers, incTimers, pending, manual, saved, removed>>
      /\ scan.todo # {}
      /\ scan' = [scan EXCEPT !.todo = @ \ {listed}, !.recent = listed.generation \notin scan.old]
      /\ UNCHANGED job \/ Claims!Take("backlog", listed.path, "backlog", 1, FALSE)
  BY Zenon DEF Claims!ScanNext, Claims!wakeups, Claims!index, Claims!indexMemory, Claims!cleanup, Claims!history
<1>2. FileStep
  BY <1>1, SameDisk DEF UserInvariant
<1>3. listed \in scan.todo
  BY <1>1, NewestListed
<1>4. scan'.todo \subseteq scan.todo
  BY <1>1
<1>5. CASE UNCHANGED job
  BY <1>1, <1>2, <1>4, <1>5, SameJobs, SamePendings, SameWakeups, Conclude DEF UserInvariant
<1>6. CASE Claims!Take("backlog", listed.path, "backlog", 1, FALSE)
  <2>1. listed.path \in Claims!Paths /\ "backlog" \in Claims!Threads
    BY <1>3 DEF UserInvariant, WakeupsOK, Claims!Threads
  <2>2. OneJob("backlog") /\ JobOK("backlog")'
    BY <1>1, <1>6, <2>1, TakeFacts
  <2> QED BY <1>1, <1>4, <2>1, <2>2, ThreadMoves
<1> QED BY <1>1, <1>5, <1>6

LEMMA ScanEndKeeps ==
  ASSUME UserInvariant, Claims!ScanEnd
  PROVE  UserInvariant'
<1>1. /\ UNCHANGED <<Claims!disk, job, events, genTimers, incTimers, pending, manual, removed>>
      /\ scan' = Claims!NoScan
      /\ saved' = [manual |-> manual, deferred |-> deferred, cursor |-> cursor]
  BY DEF Claims!ScanEnd, Claims!wakeups, Claims!indexMemory, Claims!cleanup
<1>2. FileStep /\ FilesOK' /\ UNCHANGED kind
  BY <1>1, SameDisk DEF UserInvariant, Claims!disk
<1>3. JobsOK' /\ PendingsOK'
  BY <1>1, <1>2, SameJobs, SamePendings DEF UserInvariant
<1>4. scan'.todo = {}
  BY <1>1 DEF Claims!NoScan
<1>5. WakeupsOK'
  BY <1>1, <1>2, <1>4, SameWakeups
<1>6. saved'.manual = manual
  BY <1>1
<1>7. Claims!IndexIsTrue' /\ Claims!OnlyOwnedRemoved'
  BY <1>1, <1>2, <1>6 DEF UserInvariant, Claims!IndexIsTrue, Claims!OnlyOwnedRemoved, Claims!Manual, Claims!Marked
<1> QED BY <1>2, <1>3, <1>5, <1>7 DEF UserInvariant

\* A screenshot is written: what anybody holds of that path is an older one.
LEMMA WriteKeeps ==
  ASSUME UserInvariant, Claims!WriteScreenshot
  PROVE  UserInvariant'
<1> DEFINE g == written + 1
<1>1. /\ g \in Claims!Generations /\ written' = g /\ file' = [file EXCEPT ![name[g]] = g]
      /\ events' \subseteq events \cup {name[g]}
      /\ UNCHANGED <<kind, name, job, genTimers, incTimers, scan, pending, manual, saved, removed>>
  BY DEF Claims!WriteScreenshot, Claims!index, Claims!indexMemory, Claims!cleanup, Claims!history
<1>2. written \in Nat /\ name[g] \in Claims!Paths /\ DOMAIN file = Claims!Paths
  BY <1>1 DEF UserInvariant, FilesOK
<1>3. FileStep
  BY <1>1, <1>2 DEF FileStep
<1>4. JobsOK' /\ PendingsOK'
  BY <1>1, <1>3, SameJobs, SamePendings DEF UserInvariant
<1>5. WakeupsOK'
  <2>1. events' \subseteq Claims!Paths
    BY <1>1, <1>2 DEF UserInvariant, WakeupsOK
  <2> QED BY <1>1, <1>3, <2>1, SameScanPaths DEF UserInvariant, WakeupsOK
<1> QED BY <1>1, <1>3, <1>4, <1>5, Conclude

\* The supervisor tries a removal again, or sweeps a file.
LEMMA RetryRemovalKeeps ==
  ASSUME UserInvariant, NEW p \in Claims!Paths, Claims!RetryRemoval(p)
  PROVE  UserInvariant'
<1> DEFINE j == [stage |-> "delete", mode |-> "retry", path |-> p,
                 decoded |-> pending[p].generation, tries |-> pending[p].tries]
<1>1. /\ UNCHANGED <<Claims!disk, events, genTimers, incTimers, scan, pending, manual, saved, removed>>
      /\ job' = [job EXCEPT !["supervisor"] = j]
  BY DEF Claims!RetryRemoval, Claims!wakeups, Claims!index, Claims!indexMemory, Claims!cleanup, Claims!history
<1>2. "supervisor" \in Claims!Threads /\ DOMAIN job = Claims!Threads
  BY DEF Claims!Threads, UserInvariant, JobsOK
<1>3. OneJob("supervisor") /\ job'["supervisor"] = j
  BY <1>1, <1>2 DEF OneJob
<1>4. PendingOK(p) /\ pending[p] # Claims!None
  BY DEF UserInvariant, PendingsOK, Claims!RetryRemoval
<1>5. pending[p].generation \in 1..written /\ Removable(p, pending[p].generation)
  BY <1>4 DEF PendingOK
<1>6. /\ DOMAIN j = RetryFields /\ j.stage = "delete" /\ j.mode = "retry" /\ j.path = p
      /\ j.decoded = pending[p].generation
  BY DEF RetryFields
<1>7. JobFits(job["supervisor"])'
  <2> HIDE DEF j
  <2>1. UNCHANGED <<file, written, kind>>
    BY <1>1 DEF Claims!disk
  <2> QED BY <1>3, <1>5, <1>6, <2>1 DEF JobFits, Removable, Claims!Marked
<1>8. JobOK("supervisor")'
  BY <1>7 DEF JobOK
<1> QED BY <1>1, <1>2, <1>3, <1>8, ThreadMoves

LEMMA SweepKeeps ==
  ASSUME UserInvariant, NEW p \in Claims!Paths, Claims!Sweep(p)
  PROVE  UserInvariant'
<1>1. /\ UNCHANGED <<Claims!disk, events, genTimers, incTimers, scan, pending, manual, saved, removed>>
      /\ Claims!Take("supervisor", p, "sweep", 1, FALSE)
  BY DEF Claims!Sweep, Claims!wakeups, Claims!index, Claims!indexMemory, Claims!cleanup, Claims!history
<1>2. "supervisor" \in Claims!Threads
  BY DEF Claims!Threads
<1>3. OneJob("supervisor") /\ JobOK("supervisor")'
  BY <1>1, <1>2, TakeFacts
<1> QED BY <1>1, <1>2, <1>3, ThreadMoves

\* The steps that concern none of it.
LEMMA IdleStepKeeps ==
  ASSUME UserInvariant, UNCHANGED <<written, kind, name, file, job, pending, manual, saved, removed,
                                    genTimers, incTimers, scan>>,
         events' \subseteq events
  PROVE  UserInvariant'
<1>1. FileStep
  BY DEF FileStep, UserInvariant, FilesOK
<1>2. JobsOK' /\ PendingsOK'
  BY <1>1, SameJobs, SamePendings DEF UserInvariant
<1>3. WakeupsOK'
  BY <1>1, SameScanPaths DEF UserInvariant, WakeupsOK
<1> QED BY <1>1, <1>2, <1>3, Conclude

\* A restart forgets everything but the files and the index.
LEMMA RestartKeeps ==
  ASSUME UserInvariant, Claims!Restart
  PROVE  UserInvariant'
<1>1. /\ UNCHANGED <<written, kind, name, file, saved, removed>> /\ manual' = saved.manual
      /\ events' = {} /\ genTimers' = {} /\ incTimers' = [p \in Claims!Paths |-> Claims!Missing]
      /\ job' = [t \in Claims!Threads |-> Claims!Idle] /\ scan' = Claims!NoScan
      /\ pending' = [p \in Claims!Paths |-> Claims!None]
  BY DEF Claims!Restart, Claims!history
<1>2. FileStep /\ FilesOK'
  BY <1>1 DEF FileStep, UserInvariant, FilesOK
<1>3. JobsOK'
  BY <1>1 DEF JobsOK, JobOK, Claims!Idle
<1>4. PendingsOK'
  BY <1>1 DEF PendingsOK, PendingOK, Claims!None, Claims!Missing
<1>5. WakeupsOK'
  BY <1>1 DEF WakeupsOK, Claims!NoScan
<1>6. Claims!IndexIsTrue' /\ Claims!OnlyOwnedRemoved'
  BY <1>1 DEF UserInvariant, Claims!IndexIsTrue, Claims!OnlyOwnedRemoved, Claims!Manual, Claims!Marked
<1> QED BY <1>2, <1>3, <1>4, <1>5, <1>6 DEF UserInvariant

LEMMA ClaimsNextKeepsUser ==
  ASSUME UserInvariant, [Claims!Next]_ClaimsVars
  PROVE  UserInvariant'
<1>1. ASSUME NEW t \in Claims!Threads, Claims!ThreadStep(t) PROVE UserInvariant'
  BY <1>1, LookLiveKeeps, LookBacklogKeeps, DecodeKeeps, FinalizeChangedKeeps, FinalizeLiveKeeps,
     FinalizeBacklogKeeps, FinalizeSweepKeeps, DeleteBeginKeeps, UnlinkKeeps, ReleaseKeeps,
     RetakeKeeps DEF Claims!ThreadStep
<1>2. CASE Claims!Event \/ Claims!GenerationRetry \/ Claims!IncompleteRetry
  BY <1>2, WakeupKeeps
<1>3. CASE Claims!ScanBegin \/ Claims!ScanNext \/ Claims!ScanEnd \/ Claims!WriteScreenshot \/ Claims!Restart
  BY <1>3, ScanBeginKeeps, ScanNextKeeps, ScanEndKeeps, WriteKeeps, RestartKeeps
<1>4. ASSUME NEW p \in Claims!Paths, Claims!ForgetFailure(p) \/ Claims!RetryRemoval(p) \/ Claims!Sweep(p)
      PROVE  UserInvariant'
  <2>1. CASE Claims!ForgetFailure(p)
    BY <2>1, IdleStepKeeps DEF Claims!ForgetFailure, Claims!disk, Claims!wakeups, Claims!index,
       Claims!indexMemory, Claims!history
  <2> QED BY <1>4, <2>1, RetryRemovalKeeps, SweepKeeps
<1>5. CASE Claims!ObserverDies \/ Claims!EnsureRunning
  BY <1>5, IdleStepKeeps DEF Claims!ObserverDies, Claims!EnsureRunning, Claims!disk, Claims!index,
     Claims!indexMemory, Claims!cleanup, Claims!history
<1>6. CASE Claims!Age \/ \E g \in Claims!Generations : Claims!RecentExpires(g)
  BY <1>6, IdleStepKeeps DEF Claims!Age, Claims!RecentExpires, Claims!wakeups, Claims!index,
     Claims!indexMemory, Claims!cleanup, Claims!history
<1>7. CASE UNCHANGED ClaimsVars
  BY <1>7, IdleStepKeeps DEF ClaimsVars
<1> QED BY <1>1, <1>2, <1>3, <1>4, <1>5, <1>6, <1>7 DEF Claims!Next

LEMMA ClaimsInitUser ==
  ASSUME Claims!Init
  PROVE  UserInvariant
<1>1. FilesOK
  <2>1. written \in Nat
    BY DEF Claims!Init
  <2>2. DOMAIN file = Claims!Paths
    BY DEF Claims!Init
  <2>3. \A g \in Claims!Generations : name[g] \in Claims!Paths
    BY DEF Claims!Init
  <2>4. ASSUME NEW p \in Claims!Paths PROVE file[p] \in 0..written
    <3> DEFINE S == {Claims!Missing} \cup {g \in 1..written : name[g] = p}
    <3>1. file[p] = Claims!Max(S)
      BY DEF Claims!Init
    <3>2. S \subseteq 0..written /\ S # {}
      BY <2>1 DEF Claims!Missing
    <3> HIDE DEF S
    <3>3. IsFiniteSet(0..written) /\ 0..written \subseteq Int
      BY <2>1, UpToIsFinite
    <3>4. IsFiniteSet(S) /\ S \subseteq Int
      BY <3>2, <3>3, FS_Subset
    <3>5. PICK k \in S : \A j \in S : j <= k
      BY <3>2, <3>4, GreatestOfFinite
    <3>6. \A j \in S : k >= j
      BY <3>4, <3>5
    <3>7. Claims!Max(S) \in S
      BY <3>6 DEF Claims!Max
    <3> QED BY <3>1, <3>2, <3>7
  <2> QED BY <2>1, <2>2, <2>3, <2>4 DEF FilesOK
<1>2. JobsOK
  BY DEF Claims!Init, JobsOK, JobOK, Claims!Idle
<1>3. PendingsOK
  BY DEF Claims!Init, PendingsOK, PendingOK, Claims!None, Claims!Missing
<1>4. WakeupsOK
  BY DEF Claims!Init, WakeupsOK, Claims!NoScan
<1>5. Claims!IndexIsTrue /\ Claims!OnlyOwnedRemoved
  BY DEF Claims!Init, Claims!IndexIsTrue, Claims!OnlyOwnedRemoved, Claims!Manual, Claims!Marked
<1> QED BY <1>1, <1>2, <1>3, <1>4, <1>5 DEF UserInvariant

-----------------------------------------------------------------------------
(* ScreenshotClaims: no screenshot is lost. The invariant.                  *)

\* Nothing more is written to the path, and this generation is the last it had.
Final(p) == over \/ name[written] # p
LastOf(p, g) == Final(p) /\ \A h \in 1..written : name[h] = p => h <= g
\* Something as new was applied, or it is too old to be; or something as new was reported.
Due(g) == g <= frontier \/ g \in old
Refused(g) == \E h \in reported : h >= g
Passed(g) == Due(g) \/ Refused(g)
\* There is nothing to apply.
Closed(g) == kind[g] = "owned" => Due(g)

\* The generations of a path follow each other; what is on disk is the newest there was;
\* generations grow old in their order.
ChronicleOK ==
  /\ \A g \in Claims!Generations : name[g] = g \/ (g > 1 /\ name[g] = name[g - 1])
  /\ written \in 0..MaxGenerations /\ over \in BOOLEAN /\ observing \in BOOLEAN /\ frontier \in Nat
  /\ \A p \in Claims!Paths : file[p] # Claims!Missing =>
        name[file[p]] = p /\ \A h \in 1..written : name[h] = p => h <= file[p]
  /\ old \subseteq 1..written /\ (\A g \in old : 1..g \subseteq old) /\ (written \in old => over)

-----------------------------------------------------------------------------
Working(j) == j.stage \in {"claimed", "decoding", "decoded"}
\* A thread that has claimed its path, and one that is concerned with it.
Concerned(j) == j # Claims!Idle /\ j.mode # "retry"
\* It still has its path, which a second attempt has to claim again.
Holds(j) == Concerned(j) /\ j.stage # "retake"

\* How far a claim is, and what its thread knows by then.
ClaimFits(j) ==
  /\ j.stage \in {"claimed", "decoding", "decoded", "delete", "unlink", "release", "retake"}
  /\ {j.settled, j.retry, j.again} \subseteq BOOLEAN
  /\ Working(j) => ~j.settled /\ ~j.retry /\ ~j.again
  /\ j.stage \in {"delete", "unlink"} => j.settled /\ ~j.retry /\ ~j.again
  /\ j.retry => j.settled
  /\ \A s \in j.seen : s \in 1..written /\ name[s] = j.path

ClaimOK(t) ==
  /\ job[t] # Claims!Idle => name[job[t].decoded] = job[t].path
  /\ Concerned(job[t]) => ClaimFits(job[t])
  /\ job[t].mode = "backlog" => t = "backlog"
  /\ Holds(job[t]) => job[t].path \in active

\* A path is active while exactly one thread holds it.
ActiveOK ==
  /\ \A t \in Claims!Threads : ClaimOK(t)
  /\ \A p \in active : \E t \in Claims!Threads : Holds(job[t]) /\ job[t].path = p
  /\ \A t, u \in Claims!Threads :
        Holds(job[t]) /\ Holds(job[u]) /\ job[t].path = job[u].path => t = u

\* The queue, the recent keys and the index name generations that exist.
MarksOK ==
  /\ \A p \in Claims!Paths : pending[p] # Claims!None => name[pending[p].generation] = p
  /\ recent \subseteq 1..written /\ manual \subseteq 1..written /\ saved.manual \subseteq 1..written

-----------------------------------------------------------------------------
ScanFields == {"on", "recent", "old", "blocked", "applied", "incomplete", "window", "selected", "todo"}
Entry(e) == e.generation \in 1..written /\ e = [path |-> name[e.generation], generation |-> e.generation]
LastEntry(e) == LastOf(e.path, e.generation)
\* A scan works newest first: only its newest entry may have been replaced since, and once it
\* has applied a snapshot or reported a failure, all it has left is older.
ScanOK ==
  /\ scan = Claims!NoScan \/ (DOMAIN scan = ScanFields /\ scan.on = TRUE)
  /\ job["backlog"] # Claims!Idle => scan.on
  /\ scan.on => scan.old \subseteq old
  /\ scan.on => \A e \in scan.todo : e.generation \in scan.old => LastEntry(e)
  /\ scan.on /\ scan.applied => \A e \in scan.todo : LastEntry(e) /\ Passed(e.generation)
  /\ \A e \in scan.todo : Entry(e)
  /\ \A e, f \in scan.todo : e.generation < f.generation => LastEntry(e)

\* What its thread has taken on is newer than what it has left.
BacklogFits(j) ==
  j.mode = "backlog" =>
    /\ \A e \in scan.todo : LastEntry(e) /\ e.generation < j.decoded
    /\ Working(j) => /\ scan.recent \/ j.decoded \in scan.old
                     /\ scan.applied => Passed(j.decoded)

\* Whatever is queued or about to be removed has been applied, reported, overtaken
\* or grown old.
RemovalFits(j) ==
  /\ j.stage \in {"delete", "unlink"} => Passed(j.decoded)
  /\ j.mode = "sweep" => j.decoded \in old /\ LastOf(j.path, j.decoded) /\ ~j.again
RemovalsFit == \A t \in Claims!Threads : RemovalFits(job[t])
QueueFits == \A p \in Claims!Paths : pending[p] # Claims!None => Passed(pending[p].generation)
\* The frontier is what was announced, or something reported or old in its place.
FrontierFits ==
  /\ published \cup reported \subseteq Nat
  /\ frontier = 0 \/ frontier \in old \/ \E h \in published \cup reported : h >= frontier
LossOK ==
  /\ ScanOK /\ BacklogFits(job["backlog"]) /\ RemovalsFit
  /\ QueueFits /\ FrontierFits /\ Claims!NothingFreshLost

-----------------------------------------------------------------------------
OnDisk(g) == file[name[g]] = g
Settling(j, g) == Holds(j) /\ j.settled /\ ~j.again /\ j.decoded = g
\* A generation taken for known is one that nothing will replace unnoticed.
Guarded(g) ==
  OnDisk(g) => g \in recent \/ Final(name[g]) \/ \E t \in Claims!Threads : Settling(job[t], g)

\* Nothing is deferred, so no scan is narrowed or blocked; what is recent needs nothing done.
IndexOK ==
  /\ deferred = {} /\ saved.deferred = {}
  /\ scan.on => ~scan.window /\ ~scan.blocked
  /\ \A p \in Claims!Paths : incTimers[p] = Claims!Missing
  /\ \A g \in recent : OnDisk(g) => Closed(g)

\* What the index, the queue and a retried removal name is guarded.
GuardOK ==
  /\ \A g \in manual : Guarded(g)
  /\ \A p \in Claims!Paths : pending[p] # Claims!None => Guarded(pending[p].generation)
  /\ \A t \in Claims!Threads : job[t].mode = "retry" => Guarded(job[t].decoded)

\* What a holder concludes of its file: it is not recent while held, it vanishes only once
\* nothing more is written there, it was read, and a thread that is about to let go of it has settled what is there.
HoldFits(j) ==
  /\ Holds(j) => file[j.path] \notin recent
  /\ Working(j) /\ file[j.path] = Claims!Missing => Final(j.path)
  /\ j.stage = "claimed" /\ j.decoded \in manual => LastOf(j.path, j.decoded)
  /\ j.mode # "retry" /\ j.stage = "decoded" => j.got \in Claims!Generations
  /\ Holds(j) /\ j.stage = "release" /\ ~j.settled =>
        Final(j.path) /\ (file[j.path] = Claims!Missing \/ Claims!Manual(file[j.path]))
  /\ Holds(j) /\ j.settled /\ file[j.path] = j.decoded => Closed(j.decoded)

\* Something leads to the path: an event, a timer, a scan or a thread.
Charged(p) ==
  \/ ~observing \/ p \in events \/ p \in genTimers \/ rescan
  \/ \E e \in scan.todo : e.path = p
  \/ \E t \in Claims!Threads : Concerned(job[t]) /\ job[t].path = p
HoldsFit == \A t \in Claims!Threads : HoldFits(job[t])
\* Something leads to every file that is still to be applied.
ChargesFit == \A p \in Claims!Paths : file[p] # Claims!Missing /\ ~Closed(file[p]) => Charged(p)
AllCharged == IndexOK /\ GuardOK /\ HoldsFit /\ ChargesFit
ChargeOK == unread = {} => AllCharged

\* What is known whether every screenshot could be read or not.
Sound == UserInvariant /\ ChronicleOK /\ ActiveOK /\ MarksOK /\ LossOK

-----------------------------------------------------------------------------
(* The files in the order of their generations. *)

LEMMA BoundIsNumber == MaxGenerations \in Nat
BY ClaimsAssumption DEF Claims!BoundsAssumption

LEMMA LeastOfGenerations ==
  ASSUME NEW S, S \subseteq Claims!Generations, S # {}
  PROVE  \E k \in S : \A j \in S : k <= j
<1> DEFINE T == {MaxGenerations - k : k \in S}
<1>1. MaxGenerations \in Nat
  BY BoundIsNumber
<1>2. T \subseteq 0..MaxGenerations /\ T # {}
  <2>1. \A k \in S : MaxGenerations - k \in 0..MaxGenerations
    BY <1>1 DEF Claims!Generations
  <2>2. PICK k : k \in S
    OBVIOUS
  <2>3. MaxGenerations - k \in T
    BY <2>2
  <2> QED BY <2>1, <2>3
<1>3. IsFiniteSet(T) /\ T \subseteq Int
  <2> HIDE DEF T
  <2>1. IsFiniteSet(0..MaxGenerations) /\ 0..MaxGenerations \subseteq Int
    BY <1>1, UpToIsFinite
  <2> QED BY <1>2, <2>1, FS_Subset
<1>4. \E k \in T : \A j \in T : j <= k
  <2> HIDE DEF T
  <2> QED BY <1>2, <1>3, GreatestOfFinite
<1>5. PICK k \in S : \A j \in T : j <= MaxGenerations - k
  BY <1>4
<1>6. ASSUME NEW j \in S PROVE k <= j
  <2>1. MaxGenerations - j <= MaxGenerations - k
    BY <1>5
  <2>2. k \in Int /\ j \in Int
    BY DEF Claims!Generations
  <2> QED BY <1>1, <2>1, <2>2
<1> QED BY <1>6

Named ==
  \A g \in Claims!Generations : name[g] \in Claims!Paths /\ (name[g] = g \/ (g > 1 /\ name[g] = name[g - 1]))

\* A path is named for the first generation written to it.
LEMMA NamedForFirst ==
  ASSUME Named, NEW g \in Claims!Generations
  PROVE  name[g] <= g
<1> DEFINE S == {h \in Claims!Generations : name[h] > h}
<1>1. SUFFICES ASSUME S # {} PROVE FALSE
  <2>1. g \notin S => name[g] <= g
    BY DEF Named, Claims!Generations, Claims!Paths
  <2> QED BY <2>1
<1>2. PICK k \in S : \A j \in S : k <= j
  BY <1>1, LeastOfGenerations
<1>3. k \in Claims!Generations /\ name[k] > k /\ name[k] # k
  BY DEF Claims!Generations, Named, Claims!Paths
<1>4. k > 1 /\ name[k] = name[k - 1]
  BY <1>3 DEF Named
<1>5. k - 1 \in Claims!Generations /\ name[k - 1] > k - 1
  BY <1>3, <1>4, BoundIsNumber DEF Claims!Generations, Named, Claims!Paths
<1>6. k <= k - 1
  BY <1>2, <1>5
<1> QED BY <1>3, <1>6 DEF Claims!Generations

\* What a chronicle says of the names: they are named, and every screenshot made is a generation.
LEMMA ChronicleNames ==
  ASSUME FilesOK, ChronicleOK
  PROVE  Named /\ 1..written \subseteq Claims!Generations
<1>1. Named
  BY DEF FilesOK, ChronicleOK, Named
<1>2. 1..written \subseteq Claims!Generations
  BY BoundIsNumber DEF ChronicleOK, Claims!Generations
<1> QED BY <1>1, <1>2

\* What every step but a restart does: paths that are finished stay so, and what was too
\* old or behind the frontier remains it.
Onward ==
  /\ FileStep /\ old \subseteq old' /\ reported \subseteq reported'
  /\ frontier' \in Nat /\ frontier' >= frontier
  /\ \A p \in Claims!Paths : Final(p) /\ (\E g \in 1..written : name[g] = p) =>
        Final(p)' /\ \A h \in 1..written' : name[h] = p => h \in 1..written

LEMMA LastStays ==
  ASSUME FilesOK, Onward, NEW p \in Claims!Paths, NEW g \in 1..written, name[g] = p, LastOf(p, g)
  PROVE  LastOf(p, g)'
<1>1. Final(p)
  BY DEF LastOf
<1>2. Final(p)' /\ \A h \in 1..written' : name[h] = p => h \in 1..written
  BY <1>1 DEF Onward
<1>3. name' = name
  BY DEF Onward, FileStep
<1> QED BY <1>2, <1>3 DEF LastOf

LEMMA FinalStays ==
  ASSUME FilesOK, Onward, NEW p \in Claims!Paths, NEW g \in 1..written, name[g] = p, Final(p)
  PROVE  Final(p)'
BY DEF Onward

LEMMA DueStays ==
  ASSUME ChronicleOK, Onward, NEW g \in Nat, Due(g)
  PROVE  Due(g)'
BY DEF Onward, Due, ChronicleOK

LEMMA PassedStays ==
  ASSUME ChronicleOK, Onward, NEW g \in Nat, Passed(g)
  PROVE  Passed(g)'
<1>1. Due(g) => Due(g)'
  BY DueStays
<1> QED BY <1>1 DEF Passed, Refused, Onward

LEMMA ClosedStays ==
  ASSUME ChronicleOK, Onward, NEW g \in Nat, Closed(g)
  PROVE  Closed(g)'
<1>1. Due(g) => Due(g)'
  BY DueStays
<1> QED BY <1>1 DEF Closed, Onward, FileStep

\* What left the disk does not come back, and a path that is finished has its last or none.
LEMMA OnDiskBefore ==
  ASSUME FilesOK, ChronicleOK, FileStep, NEW g \in 1..written, OnDisk(g)'
  PROVE  OnDisk(g)
<1>1. name[g] \in Claims!Paths /\ name' = name
  BY ChronicleNames DEF FilesOK, FileStep
<1>2. file'[name[g]] = g
  BY <1>1 DEF OnDisk
<1>3. file'[name[g]] = file[name[g]] \/ file'[name[g]] = Claims!Missing \/ file'[name[g]] \in (written + 1)..written'
  BY <1>1 DEF FileStep
<1> QED BY <1>2, <1>3 DEF OnDisk, Claims!Missing, FilesOK

LEMMA FilesAreOnDisk ==
  ASSUME FilesOK, ChronicleOK, NEW p \in Claims!Paths, file[p] # Claims!Missing
  PROVE  OnDisk(file[p]) /\ file[p] \in 1..written /\ name[file[p]] = p
BY DEF FilesOK, ChronicleOK, OnDisk, Claims!Missing

LEMMA LastOnDisk ==
  ASSUME FilesOK, ChronicleOK, NEW p \in Claims!Paths, NEW g \in 1..written, name[g] = p,
         \A h \in 1..written : name[h] = p => h <= g
  PROVE  file[p] \in {Claims!Missing, g}
<1>1. file[p] # Claims!Missing => file[p] \in 1..written /\ name[file[p]] = p /\ g <= file[p]
  BY DEF FilesOK, ChronicleOK, Claims!Missing
<1> QED BY <1>1

\* A file on a path that something newer does not share, or that is too old, is its last.
LEMMA OvertakenIsLast ==
  ASSUME FilesOK, ChronicleOK, NEW p \in Claims!Paths, file[p] # Claims!Missing,
         NEW g \in 1..written, file[p] < g, name[g] # p
  PROVE  LastOf(p, file[p])
<1>1. file[p] \in 1..written /\ name[file[p]] = p /\ \A h \in 1..written : name[h] = p => h <= file[p]
  BY DEF FilesOK, ChronicleOK, Claims!Missing
<1>2. name[written] # p
  <2>1. written \in 1..written
    BY DEF FilesOK
  <2> QED BY <1>1, <2>1
<1> QED BY <1>1, <1>2 DEF LastOf, Final

LEMMA OldIsLast ==
  ASSUME FilesOK, ChronicleOK, NEW p \in Claims!Paths, file[p] \in old
  PROVE  LastOf(p, file[p])
<1>1. file[p] \in 1..written /\ file[p] # Claims!Missing
  <2>1. old \subseteq 1..written
    BY DEF ChronicleOK
  <2> QED BY <2>1 DEF Claims!Missing, FilesOK
<1>2. name[file[p]] = p /\ \A h \in 1..written : name[h] = p => h <= file[p]
  BY <1>1 DEF ChronicleOK
<1>3. Final(p)
  <2>1. CASE file[p] = written
    BY <2>1 DEF ChronicleOK, Final
  <2>2. CASE name[written] = p
    <3>1. written \in 1..written
      BY <1>1 DEF FilesOK
    <3>2. file[p] = written
      BY <1>1, <1>2, <2>2, <3>1
    <3> QED BY <2>1, <3>2
  <2> QED BY <2>2 DEF Final
<1> QED BY <1>2, <1>3 DEF LastOf

LEMMA GreaterOfTwo ==
  ASSUME NEW a \in Nat, NEW b \in Nat
  PROVE  Claims!Max({a, b}) \in {a, b} /\ Claims!Max({a, b}) >= a /\ Claims!Max({a, b}) >= b
<1>1. \E x \in {a, b} : \A y \in {a, b} : x >= y
  BY SMT
<1> QED BY <1>1 DEF Claims!Max

LEMMA SameDiskOnward ==
  ASSUME FilesOK, ChronicleOK, UNCHANGED <<Claims!disk, observing>>, frontier' \in Nat, frontier' >= frontier,
         reported \subseteq reported'
  PROVE  Onward /\ ChronicleOK'
<1>1. UNCHANGED <<written, kind, name, file, over, old, observing>>
  BY DEF Claims!disk
<1>2. FileStep
  BY SameDisk
<1>3. ChronicleOK'
  BY <1>1 DEF ChronicleOK
<1>4. \A p : Final(p) = Final(p)'
  BY <1>1 DEF Final
<1> QED BY <1>1, <1>2, <1>3, <1>4 DEF Onward

\* What a step does to the frontier.
LEMMA AcceptFacts ==
  ASSUME ChronicleOK, NEW g \in Nat, NEW publish \in BOOLEAN, Claims!Accept(g, publish)
  PROVE  /\ frontier' \in {frontier, g} /\ frontier' >= frontier /\ frontier' >= g /\ frontier' \in Nat
         /\ published' = IF g > frontier /\ publish THEN published \cup {g} ELSE published
<1>1. frontier \in Nat
  BY DEF ChronicleOK
<1>2. frontier' = Claims!Max({frontier, g})
  BY DEF Claims!Accept
<1> QED BY <1>1, <1>2, GreaterOfTwo DEF Claims!Accept

LEMMA FinalizeFrontier ==
  ASSUME UserInvariant, ChronicleOK, NEW t \in Claims!Threads,
         Claims!FinalizeLive(t) \/ Claims!FinalizeBacklog(t)
  PROVE  frontier' \in Nat /\ frontier' >= frontier /\ reported \subseteq reported'
<1>1. job[t].stage = "decoded" /\ job[t].decoded \in Nat /\ frontier \in Nat
  <2>0. job[t].stage = "decoded"
    BY DEF Claims!FinalizeLive, Claims!FinalizeBacklog, Claims!Classify
  <2>1. job[t].stage = "decoded" /\ job[t] # Claims!Idle
    BY <2>0 DEF Claims!Idle
  <2>2. job[t].decoded \in 1..written
    BY <2>1 DEF UserInvariant, JobsOK, JobOK, JobFits
  <2> QED BY <2>1, <2>2 DEF UserInvariant, FilesOK, ChronicleOK
<1> DEFINE fresh == scan.recent /\ job[t].decoded \notin scan.old
<1>2. \/ UNCHANGED frontier
      \/ frontier' = Claims!Max({frontier, job[t].decoded})
  BY DEF Claims!FinalizeLive, Claims!FinalizeBacklog, Claims!Accept
<1>3. reported \subseteq reported'
  BY DEF Claims!FinalizeLive, Claims!FinalizeBacklog, Claims!Report
<1> QED BY <1>1, <1>2, <1>3, GreaterOfTwo

LEMMA WriteIsOnward ==
  ASSUME UserInvariant, ChronicleOK, Claims!WriteScreenshot
  PROVE  Onward /\ ChronicleOK'
<1> DEFINE g == written + 1
<1>1. /\ g \in Claims!Generations /\ (name[g] = g \/ ~over)
      /\ written' = g /\ over' = FALSE /\ file' = [file EXCEPT ![name[g]] = g]
      /\ UNCHANGED <<kind, name, old, observing, frontier, reported>>
  BY DEF Claims!WriteScreenshot, Claims!history
<1>2. FilesOK /\ Named /\ 1..written \subseteq Claims!Generations
  BY ChronicleNames DEF UserInvariant
<1>3. written \in Nat /\ name[g] \in Claims!Paths /\ DOMAIN file = Claims!Paths
  BY <1>1, <1>2 DEF FilesOK
<1>4. FileStep
  BY <1>1, <1>3 DEF FileStep
<1>5. ASSUME NEW p \in Claims!Paths, NEW h \in 1..written, name[h] = p, Final(p) PROVE name[g] # p
  <2>1. CASE name[g] = g
    <3>1. name[h] <= h
      BY <1>2, NamedForFirst
    <3>2. h < g /\ h \in Int
      BY <1>3
    <3>3. name[h] \in Claims!Paths
      BY <1>2 DEF Named
    <3> QED BY <2>1, <3>1, <3>2, <3>3, <1>3, <1>5, BoundIsNumber DEF Claims!Paths, Claims!Generations
  <2>2. CASE name[g] # g
    <3>1. ~over /\ name[g] = name[g - 1]
      BY <1>1, <1>2, <2>2 DEF Named
    <3>2. name[g] = name[written]
      BY <1>3, <3>1
    <3> QED BY <3>1, <3>2, <1>5 DEF Final
  <2> QED BY <2>1, <2>2
<1>6. ASSUME NEW p \in Claims!Paths, NEW h \in 1..written, name[h] = p, Final(p)
      PROVE  Final(p)' /\ \A i \in 1..written' : name[i] = p => i \in 1..written
  <2>1. name[g] # p
    BY <1>5, <1>6
  <2>2. Final(p)'
    BY <1>1, <2>1 DEF Final
  <2>3. \A i \in 1..written' : i = g \/ i \in 1..written
    BY <1>1, <1>3
  <2> QED BY <2>1, <2>2, <2>3
<1>7. Onward
  BY <1>1, <1>4, <1>6 DEF Onward, ChronicleOK
<1>8. \A p \in Claims!Paths : file'[p] # Claims!Missing =>
        name'[file'[p]] = p /\ \A h \in 1..written' : name'[h] = p => h <= file'[p]
  <2>1. TAKE p \in Claims!Paths
  <2>2. CASE p = name[g]
    <3>1. file'[p] = g /\ name' = name
      BY <1>1, <1>3, <2>2
    <3>2. \A h \in 1..written' : h <= g
      BY <1>1, <1>3
    <3> QED BY <3>1, <3>2, <2>2
  <2>3. CASE p # name[g]
    <3>1. file'[p] = file[p] /\ name' = name
      BY <1>1, <1>3, <2>3
    <3>2. \A h \in 1..written' : h = g \/ h \in 1..written
      BY <1>1, <1>3
    <3>3. file[p] # Claims!Missing => name[file[p]] = p /\ \A h \in 1..written : name[h] = p => h <= file[p]
      BY DEF ChronicleOK
    <3> QED BY <3>1, <3>2, <3>3, <2>3
  <2> QED BY <2>2, <2>3
<1>9. written' \in 0..MaxGenerations /\ old' \subseteq 1..written' /\ written' \notin old'
  <2>1. old \subseteq 1..written
    BY DEF ChronicleOK
  <2>2. written' \in 0..MaxGenerations
    BY <1>1, <1>3, BoundIsNumber DEF Claims!Generations
  <2> QED BY <1>1, <1>3, <2>1, <2>2
<1>10. ChronicleOK'
  BY <1>1, <1>8, <1>9 DEF ChronicleOK
<1> QED BY <1>7, <1>10

LEMMA AgeIsOnward ==
  ASSUME UserInvariant, ChronicleOK, Claims!Age
  PROVE  Onward /\ ChronicleOK'
<1>1. PICK g \in 1..written \ old :
          /\ \A h \in 1..g - 1 : h \in old
          /\ old' = old \cup {g} /\ over' = (over \/ g = written)
  BY DEF Claims!Age
<1>2. UNCHANGED <<written, kind, name, file, observing, frontier, reported>>
  BY DEF Claims!Age, Claims!wakeups, Claims!history
<1>3. FileStep
  BY <1>2 DEF FileStep, UserInvariant, FilesOK
<1>4. \A p : Final(p) => Final(p)'
  BY <1>1, <1>2 DEF Final
<1>5. Onward
  BY <1>1, <1>2, <1>3, <1>4 DEF Onward, ChronicleOK
<1>6. old' \subseteq 1..written /\ (written \in old' => over') /\ over' \in BOOLEAN
  BY <1>1 DEF ChronicleOK
<1>7. \A h \in old' : 1..h \subseteq old'
  <2>1. 1..g \subseteq old'
    <3>1. g \in Nat
      BY DEF UserInvariant, FilesOK
    <3> QED BY <3>1, <1>1
  <2>2. \A h \in old : 1..h \subseteq old
    BY DEF ChronicleOK
  <2> QED BY <2>1, <2>2, <1>1
<1>8. ChronicleOK'
  BY <1>2, <1>6, <1>7 DEF ChronicleOK
<1> QED BY <1>5, <1>8

LEMMA ExpiryIsOnward ==
  ASSUME UserInvariant, ChronicleOK, NEW g, Claims!RecentExpires(g)
  PROVE  Onward /\ ChronicleOK'
<1>1. /\ over' = (over \/ name[g] = name[written])
      /\ UNCHANGED <<written, kind, name, file, old, observing, frontier, reported>>
  BY DEF Claims!RecentExpires, Claims!wakeups, Claims!history
<1>2. FileStep
  BY <1>1 DEF FileStep, UserInvariant, FilesOK
<1>3. \A p : Final(p) => Final(p)'
  BY <1>1 DEF Final
<1>4. Onward
  BY <1>1, <1>2, <1>3 DEF Onward, ChronicleOK
<1>5. ChronicleOK'
  BY <1>1 DEF ChronicleOK
<1> QED BY <1>4, <1>5

LEMMA UnlinkIsOnward ==
  ASSUME UserInvariant, ChronicleOK, NEW t \in Claims!Threads, Claims!Unlink(t)
  PROVE  Onward /\ ChronicleOK'
<1>1. UNCHANGED <<written, kind, name, over, old, observing, frontier, reported>>
  BY DEF Claims!Unlink, Claims!wakeups
<1>2. \/ UNCHANGED file
      \/ \E p : file' = [file EXCEPT ![p] = Claims!Missing]
  BY DEF Claims!Unlink
<1>3. FileStep /\ \A p \in Claims!Paths : file'[p] \in {file[p], Claims!Missing}
  BY <1>1, <1>2 DEF FileStep, UserInvariant, FilesOK
<1>4. \A p : Final(p) = Final(p)'
  BY <1>1 DEF Final
<1>5. Onward
  BY <1>1, <1>3, <1>4 DEF Onward, ChronicleOK
<1>6. \A p \in Claims!Paths : file'[p] # Claims!Missing =>
        name[file'[p]] = p /\ \A h \in 1..written : name[h] = p => h <= file'[p]
  BY <1>3 DEF ChronicleOK
<1>7. ChronicleOK'
  BY <1>1, <1>6 DEF ChronicleOK
<1> QED BY <1>5, <1>7

LEMMA ThreadStepIsOnward ==
  ASSUME UserInvariant, ChronicleOK, NEW t \in Claims!Threads, Claims!ThreadStep(t)
  PROVE  Onward /\ ChronicleOK'
<1>1. CASE Claims!Unlink(t)
  BY <1>1, UnlinkIsOnward
<1>2. CASE Claims!FinalizeLive(t) \/ Claims!FinalizeBacklog(t)
  <2>1. UNCHANGED <<Claims!disk, observing>>
    BY <1>2 DEF Claims!FinalizeLive, Claims!FinalizeBacklog
  <2> QED BY <1>2, <2>1, FinalizeFrontier, SameDiskOnward DEF UserInvariant
<1>3. CASE \/ Claims!LookLive(t) \/ Claims!LookBacklog(t) \/ Claims!Decode(t) \/ Claims!FinalizeChanged(t)
           \/ Claims!FinalizeSweep(t) \/ Claims!DeleteBegin(t) \/ Claims!Release(t) \/ Claims!Retake(t)
  <2>1. UNCHANGED <<Claims!disk, observing, frontier, reported>>
    BY <1>3 DEF Claims!LookLive, Claims!LookBacklog, Claims!Decode, Claims!FinalizeChanged,
       Claims!FinalizeSweep, Claims!DeleteBegin, Claims!Release, Claims!Retake, Claims!wakeups,
       Claims!history
  <2> QED BY <2>1, SameDiskOnward DEF UserInvariant, ChronicleOK
<1> QED BY <1>1, <1>2, <1>3 DEF Claims!ThreadStep

LEMMA StepIsOnward ==
  ASSUME UserInvariant, ChronicleOK, [Claims!Next]_ClaimsVars, ~Claims!Restart
  PROVE  Onward /\ ChronicleOK'
<1>1. CASE \E t \in Claims!Threads : Claims!ThreadStep(t)
  BY <1>1, ThreadStepIsOnward
<1>2. CASE Claims!WriteScreenshot \/ Claims!Age \/ \E g \in Claims!Generations : Claims!RecentExpires(g)
  BY <1>2, WriteIsOnward, AgeIsOnward, ExpiryIsOnward
<1>3. CASE \/ Claims!Event \/ Claims!GenerationRetry \/ Claims!IncompleteRetry
           \/ Claims!ScanBegin \/ Claims!ScanNext \/ Claims!ScanEnd
           \/ \E p \in Claims!Paths : Claims!ForgetFailure(p) \/ Claims!RetryRemoval(p) \/ Claims!Sweep(p)
           \/ UNCHANGED ClaimsVars
  <2>1. UNCHANGED <<Claims!disk, observing, frontier, reported>>
    BY <1>3 DEF Claims!Event, Claims!GenerationRetry, Claims!IncompleteRetry, Claims!ScanBegin,
       Claims!ScanNext, Claims!ScanEnd, Claims!ForgetFailure, Claims!RetryRemoval, Claims!Sweep,
       Claims!wakeups, ClaimsVars, Claims!disk, Claims!history
  <2> QED BY <2>1, SameDiskOnward DEF UserInvariant, ChronicleOK
<1>4. CASE Claims!ObserverDies \/ Claims!EnsureRunning
  <2>1. /\ UNCHANGED <<written, kind, name, file, over, old, frontier, reported>> /\ observing' \in BOOLEAN
    BY <1>4 DEF Claims!ObserverDies, Claims!EnsureRunning, Claims!disk, Claims!history
  <2>2. FileStep
    BY <2>1 DEF FileStep, UserInvariant, FilesOK
  <2>3. \A p : Final(p) = Final(p)'
    BY <2>1 DEF Final
  <2> QED BY <2>1, <2>2, <2>3 DEF Onward, ChronicleOK
<1> QED BY <1>1, <1>2, <1>3, <1>4 DEF Claims!Next

LEMMA RestartKeepsChronicle ==
  ASSUME ChronicleOK, Claims!Restart
  PROVE  ChronicleOK'
<1>1. /\ UNCHANGED <<written, kind, name, file, old>> /\ over' = TRUE /\ observing' = TRUE /\ frontier' = 0
  BY DEF Claims!Restart
<1> QED BY <1>1 DEF ChronicleOK

LEMMA ClaimsInitChronicle ==
  ASSUME Claims!Init
  PROVE  ChronicleOK
<1>1. FilesOK
  BY ClaimsInitUser DEF UserInvariant
<1>2. /\ \A g \in Claims!Generations : name[g] = g \/ (g > 1 /\ name[g] = name[g - 1])
      /\ written \in 0..MaxGenerations /\ observing = TRUE /\ frontier = 0
  BY DEF Claims!Init
<1>3. over \in BOOLEAN /\ (written \in old => over)
  <2>1. over \in {(written \in old \cup saved.manual \cup saved.deferred), TRUE}
    BY DEF Claims!Init
  <2>2. over = TRUE \/ over = (written \in old \cup saved.manual \cup saved.deferred)
    BY <2>1
  <2> DEFINE known == written \in old \cup saved.manual \cup saved.deferred
  <2>3. known \in BOOLEAN /\ (written \in old => known)
    OBVIOUS
  <2> HIDE DEF known
  <2>4. over = TRUE \/ over = known
    BY <2>2 DEF known
  <2> QED BY <2>3, <2>4
<1>4. old \subseteq 1..written /\ \A g \in old : 1..g \subseteq old
  <2>1. PICK n \in 0..written : old = 1..n
    BY DEF Claims!Init
  <2> QED BY <2>1, <1>1 DEF FilesOK
<1>5. ASSUME NEW p \in Claims!Paths, file[p] # Claims!Missing
      PROVE  name[file[p]] = p /\ \A h \in 1..written : name[h] = p => h <= file[p]
  <2> DEFINE S == {Claims!Missing} \cup {g \in 1..written : name[g] = p}
  <2>1. file[p] = Claims!Max(S)
    BY DEF Claims!Init
  <2>2. S \subseteq 0..written /\ S # {} /\ IsFiniteSet(0..written) /\ 0..written \subseteq Int
    BY <1>1, UpToIsFinite DEF FilesOK, Claims!Missing
  <2>3. IsFiniteSet(S) /\ S \subseteq Int
    <3> HIDE DEF S
    <3> QED BY <2>2, FS_Subset
  <2>4. PICK k \in S : \A j \in S : j <= k
    <3> HIDE DEF S
    <3> QED BY <2>2, <2>3, GreatestOfFinite
  <2>5. file[p] \in S /\ \A j \in S : j <= file[p]
    <3> HIDE DEF S
    <3>1. \A j \in S : k >= j
      BY <2>3, <2>4
    <3>2. Claims!Max(S) \in S /\ \A j \in S : Claims!Max(S) >= j
      BY <3>1 DEF Claims!Max
    <3> QED BY <2>1, <2>3, <3>2
  <2> QED BY <2>5, <1>5
<1> QED BY <1>2, <1>3, <1>4, <1>5 DEF ChronicleOK

-----------------------------------------------------------------------------
(* What the steps do to the thread that takes them.                         *)

\* The thread keeps all it knows but these fields.
KeepsBut(t, F) ==
  /\ OneJob(t) /\ DOMAIN job'[t] = JobFields
  /\ \A f \in JobFields \ F : job'[t][f] = job[t][f]

LEMMA StepKeeps ==
  ASSUME UserInvariant, NEW t \in Claims!Threads, Concerned(job[t]), NEW fields, Claims!Step(t, fields),
         DOMAIN fields \subseteq JobFields
  PROVE  KeepsBut(t, DOMAIN fields) /\ \A f \in DOMAIN fields : job'[t][f] = fields[f]
<1>1. DOMAIN job = Claims!Threads /\ DOMAIN job[t] = JobFields
  BY DEF UserInvariant, JobsOK, JobOK, JobFits, Concerned
<1>2. /\ OneJob(t)
      /\ DOMAIN job'[t] = DOMAIN job[t]
      /\ \A f \in DOMAIN job[t] :
            job'[t][f] = IF f \in DOMAIN fields THEN fields[f] ELSE job[t][f]
  BY <1>1, StepFacts
<1> QED BY <1>1, <1>2 DEF KeepsBut

LEMMA KeptFields ==
  ASSUME NEW t, NEW F, KeepsBut(t, F), F \cap {"path", "mode", "attempt", "final", "tries"} = {}
  PROVE  /\ OneJob(t) /\ job'[t].path = job[t].path /\ job'[t].mode = job[t].mode
         /\ job'[t].attempt = job[t].attempt /\ job'[t].final = job[t].final
         /\ "seen" \notin F => job'[t].seen = job[t].seen
         /\ "decoded" \notin F => job'[t].decoded = job[t].decoded
         /\ "got" \notin F => job'[t].got = job[t].got
         /\ "settled" \notin F => job'[t].settled = job[t].settled
         /\ "retry" \notin F => job'[t].retry = job[t].retry
         /\ "again" \notin F => job'[t].again = job[t].again
         /\ DOMAIN job'[t] = JobFields
BY DEF KeepsBut, JobFields

\* The thread changes these fields only, and goes on with its path.
On(t, F) == KeepsBut(t, F) /\ F \cap {"path", "mode", "attempt", "final", "tries"} = {}

LEMMA StageAgain ==
  ASSUME UserInvariant, NEW t \in Claims!Threads, Concerned(job[t]), NEW s,
         Claims!Step(t, [stage |-> s])
  PROVE  On(t, {"stage"}) /\ job'[t].stage = s
<1> DEFINE fields == [stage |-> s]
<1>1. DOMAIN fields = {"stage"} /\ fields["stage"] = s /\ Claims!Step(t, fields)
  OBVIOUS
<1>2. DOMAIN fields \subseteq JobFields
  BY <1>1 DEF JobFields
<1> HIDE DEF fields
<1>3. KeepsBut(t, DOMAIN fields) /\ \A f \in DOMAIN fields : job'[t][f] = fields[f]
  BY <1>1, <1>2, StepKeeps
<1> QED BY <1>1, <1>3 DEF On

LEMMA ConcernedByStage ==
  ASSUME UserInvariant, NEW t \in Claims!Threads,
         job[t].stage \in {"claimed", "decoding", "decoded", "release", "retake"}
  PROVE  /\ Concerned(job[t]) /\ JobFits(job[t]) /\ job[t].mode \in {"live", "backlog", "sweep"}
         /\ job[t].path \in Claims!Paths /\ job[t].decoded \in 1..written
<1>1. job[t] # Claims!Idle
  BY DEF Claims!Idle
<1>2. JobFits(job[t])
  BY <1>1 DEF UserInvariant, JobsOK, JobOK
<1>3. job[t].mode # "retry"
  BY <1>2 DEF JobFits
<1> QED BY <1>1, <1>2, <1>3 DEF JobFits, Concerned

LEMMA LookLiveFacts ==
  ASSUME UserInvariant, NEW t \in Claims!Threads, Claims!LookLive(t)
  PROVE  /\ job[t].stage = "claimed" /\ Concerned(job[t]) /\ job[t].mode \in {"live", "sweep"}
         /\ \/ /\ job[t].mode = "sweep" /\ job[t].decoded \notin old
               /\ On(t, {"stage", "again"}) /\ job'[t].stage = "release" /\ job'[t].again = TRUE
            \/ /\ On(t, {"stage"}) /\ job'[t].stage = "release"
               /\ \/ file[job[t].path] = Claims!Missing \/ file[job[t].path] \in manual
                  \/ job[t].decoded \in manual
            \/ /\ On(t, {"stage", "decoded", "seen"}) /\ job'[t].stage = "decoding"
               /\ job'[t].decoded = file[job[t].path] /\ job'[t].seen = job[t].seen \cup {file[job[t].path]}
               /\ file[job[t].path] # Claims!Missing /\ file[job[t].path] \notin manual
<1>1. job[t].stage = "claimed" /\ job[t].mode \in {"live", "sweep"}
  BY DEF Claims!LookLive
<1>2. Concerned(job[t])
  BY <1>1, ConcernedByStage
<1>3. CASE /\ job[t].mode = "sweep" /\ job[t].decoded \notin old
           /\ Claims!Step(t, [stage |-> "release", again |-> TRUE])
  <2> DEFINE fields == [stage |-> "release", again |-> TRUE]
  <2>1. /\ DOMAIN fields = {"stage", "again"} /\ fields["stage"] = "release" /\ fields["again"] = TRUE
        /\ Claims!Step(t, fields)
    BY <1>3
  <2>2. DOMAIN fields \subseteq JobFields
    BY <2>1 DEF JobFields
  <2> HIDE DEF fields
  <2>3. KeepsBut(t, DOMAIN fields) /\ \A f \in DOMAIN fields : job'[t][f] = fields[f]
    BY <1>2, <2>1, <2>2, StepKeeps
  <2>4. On(t, {"stage", "again"}) /\ job'[t].stage = "release" /\ job'[t].again = TRUE
    BY <2>1, <2>3 DEF On
  <2> QED BY <1>1, <1>2, <1>3, <2>4
<1>4. CASE /\ \/ file[job[t].path] = Claims!Missing \/ file[job[t].path] \in manual
              \/ job[t].decoded \in manual
           /\ Claims!Leave(t)
  BY <1>1, <1>2, <1>4, StageAgain DEF Claims!Leave
<1>5. CASE /\ file[job[t].path] # Claims!Missing /\ file[job[t].path] \notin manual
           /\ Claims!Step(t, [stage |-> "decoding", decoded |-> Claims!Now(t),
                               seen |-> job[t].seen \cup {Claims!Now(t)}])
  <2> DEFINE fields == [stage |-> "decoding", decoded |-> Claims!Now(t),
                        seen |-> job[t].seen \cup {Claims!Now(t)}]
  <2>1. /\ DOMAIN fields = {"stage", "decoded", "seen"} /\ fields["stage"] = "decoding"
        /\ fields["decoded"] = file[job[t].path] /\ fields["seen"] = job[t].seen \cup {file[job[t].path]}
        /\ Claims!Step(t, fields)
    BY <1>5 DEF Claims!Now, Claims!Path
  <2>2. DOMAIN fields \subseteq JobFields
    BY <2>1 DEF JobFields
  <2> HIDE DEF fields
  <2>3. KeepsBut(t, DOMAIN fields) /\ \A f \in DOMAIN fields : job'[t][f] = fields[f]
    BY <1>2, <2>1, <2>2, StepKeeps
  <2>4. /\ On(t, {"stage", "decoded", "seen"}) /\ job'[t].stage = "decoding"
        /\ job'[t].decoded = file[job[t].path] /\ job'[t].seen = job[t].seen \cup {file[job[t].path]}
    BY <2>1, <2>3 DEF On
  <2> QED BY <1>1, <1>2, <1>5, <2>4
<1> QED BY <1>3, <1>4, <1>5 DEF Claims!LookLive, Claims!Now, Claims!Path

LEMMA LookBacklogFacts ==
  ASSUME UserInvariant, NEW t \in Claims!Threads, Claims!LookBacklog(t)
  PROVE  /\ job[t].stage = "claimed" /\ Concerned(job[t]) /\ job[t].mode = "backlog"
         /\ On(t, {"stage"}) /\ job'[t].stage \in {"release", "decoding"}
         /\ job'[t].stage = "release" =>
               \/ job[t].decoded \in manual
               \/ scan.window /\ job[t].decoded \notin scan.selected
         /\ scan' = [scan EXCEPT !.blocked = @ \/ (/\ job[t].decoded \notin manual /\ scan.window
                                                   /\ job[t].decoded \notin scan.selected)]
<1>1. job[t].stage = "claimed" /\ job[t].mode = "backlog"
  BY DEF Claims!LookBacklog
<1>2. Concerned(job[t])
  BY <1>1, ConcernedByStage
<1>3. \/ /\ \/ job[t].decoded \in manual
            \/ scan.window /\ job[t].decoded \notin scan.selected
         /\ Claims!Step(t, [stage |-> "release"])
      \/ Claims!Step(t, [stage |-> "decoding"])
  BY DEF Claims!LookBacklog, Claims!Leave
<1>4. /\ On(t, {"stage"}) /\ job'[t].stage \in {"release", "decoding"}
      /\ job'[t].stage = "release" =>
            job[t].decoded \in manual \/ (scan.window /\ job[t].decoded \notin scan.selected)
  BY <1>2, <1>3, StageAgain
<1>5. scan' = [scan EXCEPT !.blocked = @ \/ (/\ job[t].decoded \notin manual /\ scan.window
                                             /\ job[t].decoded \notin scan.selected)]
  BY DEF Claims!LookBacklog
<1> QED BY <1>1, <1>2, <1>4, <1>5

LEMMA DecodeFacts ==
  ASSUME UserInvariant, NEW t \in Claims!Threads, Claims!Decode(t)
  PROVE  /\ job[t].stage = "decoding" /\ Concerned(job[t])
         /\ \/ /\ On(t, {"stage"}) /\ job'[t].stage = "release" /\ file[job[t].path] = Claims!Missing
               /\ unread' = unread
            \/ /\ On(t, {"stage", "got"}) /\ job'[t].stage = "decoded"
               /\ \/ job'[t].got = file[job[t].path] /\ file[job[t].path] # Claims!Missing
                     /\ unread' = unread
                  \/ unread \subseteq unread' /\ unread' # {}
<1>1. job[t].stage = "decoding"
  BY DEF Claims!Decode
<1>2. Concerned(job[t])
  BY <1>1, ConcernedByStage
<1>3. CASE Claims!Leave(t) /\ file[job[t].path] = Claims!Missing /\ unread' = unread
  BY <1>1, <1>2, <1>3, StageAgain DEF Claims!Leave
<1>4. ASSUME NEW got, Claims!Step(t, [stage |-> "decoded", got |-> got])
      PROVE  On(t, {"stage", "got"}) /\ job'[t].stage = "decoded" /\ job'[t].got = got
  <2> DEFINE fields == [stage |-> "decoded", got |-> got]
  <2>1. /\ DOMAIN fields = {"stage", "got"} /\ fields["stage"] = "decoded" /\ fields["got"] = got
        /\ Claims!Step(t, fields)
    BY <1>4
  <2>2. DOMAIN fields \subseteq JobFields
    BY <2>1 DEF JobFields
  <2> HIDE DEF fields
  <2>3. KeepsBut(t, DOMAIN fields) /\ \A f \in DOMAIN fields : job'[t][f] = fields[f]
    BY <1>2, <2>1, <2>2, StepKeeps
  <2> QED BY <2>1, <2>3 DEF On
<1>5. \/ Claims!Leave(t) /\ file[job[t].path] = Claims!Missing /\ unread' = unread
      \/ /\ Claims!Step(t, [stage |-> "decoded", got |-> file[job[t].path]]) /\ unread' = unread
         /\ file[job[t].path] # Claims!Missing
      \/ /\ \E got : Claims!Step(t, [stage |-> "decoded", got |-> got])
         /\ unread \subseteq unread' /\ unread' # {}
  BY DEF Claims!Decode, Claims!Now, Claims!Path
<1>6. CASE /\ Claims!Step(t, [stage |-> "decoded", got |-> file[job[t].path]]) /\ unread' = unread
           /\ file[job[t].path] # Claims!Missing
  <2>1. On(t, {"stage", "got"}) /\ job'[t].stage = "decoded" /\ job'[t].got = file[job[t].path]
    BY <1>4, <1>6
  <2> QED BY <1>1, <1>2, <1>6, <2>1
<1>7. CASE /\ \E got : Claims!Step(t, [stage |-> "decoded", got |-> got])
           /\ unread \subseteq unread' /\ unread' # {}
  <2>1. On(t, {"stage", "got"}) /\ job'[t].stage = "decoded"
    BY <1>4, <1>7
  <2> QED BY <1>1, <1>2, <1>7, <2>1
<1> QED BY <1>3, <1>5, <1>6, <1>7

LEMMA FinalizeChangedFacts ==
  ASSUME UserInvariant, NEW t \in Claims!Threads, Claims!FinalizeChanged(t)
  PROVE  /\ job[t].stage = "decoded" /\ Concerned(job[t]) /\ file[job[t].path] \notin {Claims!Missing, job[t].decoded}
         /\ On(t, {"stage", "settled", "retry"}) /\ job'[t].stage = "release"
         /\ job'[t].settled = TRUE /\ job'[t].retry = TRUE
<1> DEFINE fields == [stage |-> "release", settled |-> TRUE, retry |-> TRUE]
<1>1. /\ job[t].stage = "decoded" /\ file[job[t].path] \notin {Claims!Missing, job[t].decoded}
      /\ Claims!Step(t, fields)
  BY DEF Claims!FinalizeChanged, Claims!Changed, Claims!Now, Claims!Path
<1>2. Concerned(job[t])
  BY <1>1, ConcernedByStage
<1>3. /\ DOMAIN fields = {"stage", "settled", "retry"} /\ fields["stage"] = "release"
      /\ fields["settled"] = TRUE /\ fields["retry"] = TRUE
  OBVIOUS
<1>4. DOMAIN fields \subseteq JobFields
  BY <1>3 DEF JobFields
<1> HIDE DEF fields
<1>5. KeepsBut(t, DOMAIN fields) /\ \A f \in DOMAIN fields : job'[t][f] = fields[f]
  BY <1>1, <1>2, <1>4, StepKeeps
<1>6. On(t, {"stage", "settled", "retry"})
  BY <1>3, <1>5 DEF On
<1> QED BY <1>1, <1>2, <1>3, <1>5, <1>6

\* What is known of the answer, and what the index learns.
Answered(t) ==
  /\ job[t].stage = "decoded" /\ Concerned(job[t]) /\ file[job[t].path] \in {Claims!Missing, job[t].decoded}
  /\ manual' \subseteq manual \cup {job[t].decoded}
  /\ job[t].decoded \in manual' \ manual => Claims!Shows(t, "manual") /\ file[job[t].path] = job[t].decoded
  /\ manual \subseteq manual'
  /\ deferred' \subseteq deferred \cup {job[t].decoded}
  /\ job[t].decoded \in deferred' => job[t].decoded \in deferred \/ ~Claims!Complete(t)
  /\ saved' = saved \/ (saved'.manual = manual' /\ saved'.deferred = deferred')
  /\ rescan => rescan'

LEMMA ClassifyFacts ==
  ASSUME UserInvariant, NEW t \in Claims!Threads, Claims!Classify(t)
  PROVE  Answered(t)
<1>1. job[t].stage = "decoded" /\ ~Claims!Changed(t)
  BY DEF Claims!Classify
<1>2. Concerned(job[t]) /\ job[t].decoded \in 1..written
  BY <1>1, ConcernedByStage
<1>3. file[job[t].path] \in {Claims!Missing, job[t].decoded}
  BY <1>1 DEF Claims!Changed, Claims!Now, Claims!Path
<1>4. manual' = IF Claims!Shows(t, "manual") /\ file[job[t].path] # Claims!Missing
                THEN manual \cup {job[t].decoded} ELSE manual
  BY DEF Claims!Classify, Claims!Now, Claims!Path
<1>5. /\ deferred' \subseteq deferred \cup {job[t].decoded}
      /\ job[t].decoded \in deferred' => job[t].decoded \in deferred \/ ~Claims!Complete(t)
  BY DEF Claims!Classify
<1>6. saved' = saved \/ (saved'.manual = manual' /\ saved'.deferred = deferred')
  <2>1. saved' = saved \/ saved' = [manual |-> manual', deferred |-> deferred', cursor |-> cursor]
    BY DEF Claims!Classify
  <2> QED BY <2>1
<1>7. rescan => rescan'
  BY DEF Claims!Classify
<1> QED BY <1>1, <1>2, <1>3, <1>4, <1>5, <1>6, <1>7 DEF Answered

LEMMA FinalizeLiveFacts ==
  ASSUME UserInvariant, NEW t \in Claims!Threads, Claims!FinalizeLive(t)
  PROVE  /\ Answered(t) /\ job[t].mode = "live"
         /\ On(t, {"stage", "settled"}) /\ job'[t].settled = TRUE
         /\ job'[t].stage = IF Claims!ShowsMarker(t) THEN "delete" ELSE "release"
         /\ IF Claims!Shows(t, "owned") THEN Claims!Accept(job[t].decoded, TRUE)
            ELSE UNCHANGED <<frontier, published>>
         /\ Claims!Report(job[t].decoded, Claims!Shows(t, "corrupt"))
<1>1. Answered(t) /\ job[t].mode = "live"
  BY ClassifyFacts DEF Claims!FinalizeLive
<1>2. PICK stage : /\ stage = IF Claims!ShowsMarker(t) THEN "delete" ELSE "release"
                   /\ Claims!Settled(t, stage)
                   /\ IF Claims!Shows(t, "owned") THEN Claims!Accept(job[t].decoded, TRUE)
                      ELSE UNCHANGED <<frontier, published>>
                   /\ Claims!Report(job[t].decoded, Claims!Shows(t, "corrupt"))
  BY DEF Claims!FinalizeLive
<1> DEFINE fields == [stage |-> stage, settled |-> TRUE]
<1>3. /\ DOMAIN fields = {"stage", "settled"} /\ fields["stage"] = stage /\ fields["settled"] = TRUE
      /\ Claims!Step(t, fields)
  BY <1>2 DEF Claims!Settled
<1>4. DOMAIN fields \subseteq JobFields
  BY <1>3 DEF JobFields
<1> HIDE DEF fields
<1>5. KeepsBut(t, DOMAIN fields) /\ \A f \in DOMAIN fields : job'[t][f] = fields[f]
  BY <1>1, <1>3, <1>4, StepKeeps DEF Answered
<1>6. On(t, {"stage", "settled"}) /\ job'[t].stage = stage /\ job'[t].settled = TRUE
  BY <1>3, <1>5 DEF On
<1> QED BY <1>1, <1>2, <1>6

LEMMA FinalizeBacklogFacts ==
  ASSUME UserInvariant, NEW t \in Claims!Threads, Claims!FinalizeBacklog(t)
  PROVE  /\ Answered(t) /\ job[t].mode = "backlog"
         /\ On(t, {"stage", "settled", "again"}) /\ job'[t].settled = TRUE
         /\ job'[t].stage = IF Claims!ShowsMarker(t) /\ ~scan.blocked THEN "delete" ELSE "release"
         /\ job'[t].again = ((Claims!ShowsMarker(t) \/ Claims!Shows(t, "suspect")) /\ scan.blocked)
<1>1. Answered(t) /\ job[t].mode = "backlog"
  BY ClassifyFacts DEF Claims!FinalizeBacklog
<1>2. PICK stage : stage = IF Claims!ShowsMarker(t) /\ ~scan.blocked THEN "delete" ELSE "release"
  OBVIOUS
<1>3. PICK again : again = ((Claims!ShowsMarker(t) \/ Claims!Shows(t, "suspect")) /\ scan.blocked)
  OBVIOUS
<1> DEFINE fields == [stage |-> stage, settled |-> TRUE, again |-> again]
<1>4. Claims!Step(t, fields)
  BY <1>2, <1>3 DEF Claims!FinalizeBacklog
<1>5. /\ DOMAIN fields = {"stage", "settled", "again"} /\ fields["stage"] = stage
      /\ fields["settled"] = TRUE /\ fields["again"] = again
  OBVIOUS
<1>6. DOMAIN fields \subseteq JobFields
  BY <1>5 DEF JobFields
<1> HIDE DEF fields
<1>7. KeepsBut(t, DOMAIN fields) /\ \A f \in DOMAIN fields : job'[t][f] = fields[f]
  BY <1>1, <1>4, <1>6, StepKeeps DEF Answered
<1>8. /\ On(t, {"stage", "settled", "again"}) /\ job'[t].stage = stage /\ job'[t].settled = TRUE
      /\ job'[t].again = again
  BY <1>5, <1>7 DEF On
<1> QED BY <1>1, <1>2, <1>3, <1>8

LEMMA FinalizeSweepFacts ==
  ASSUME UserInvariant, NEW t \in Claims!Threads, Claims!FinalizeSweep(t)
  PROVE  /\ Answered(t) /\ job[t].mode = "sweep"
         /\ On(t, {"stage", "settled", "again"}) /\ job'[t].settled = TRUE
         /\ job'[t].stage = IF Claims!ShowsMarker(t) /\ job[t].decoded \in old THEN "delete" ELSE "release"
         /\ job'[t].again = (job[t].decoded \notin old)
<1>1. Answered(t) /\ job[t].mode = "sweep"
  BY ClassifyFacts DEF Claims!FinalizeSweep
<1>2. PICK stage : stage = IF Claims!ShowsMarker(t) /\ job[t].decoded \in old THEN "delete" ELSE "release"
  OBVIOUS
<1>3. PICK again : again = (job[t].decoded \notin old)
  OBVIOUS
<1> DEFINE fields == [stage |-> stage, settled |-> TRUE, again |-> again]
<1>4. Claims!Step(t, fields)
  BY <1>2, <1>3 DEF Claims!FinalizeSweep
<1>5. /\ DOMAIN fields = {"stage", "settled", "again"} /\ fields["stage"] = stage
      /\ fields["settled"] = TRUE /\ fields["again"] = again
  OBVIOUS
<1>6. DOMAIN fields \subseteq JobFields
  BY <1>5 DEF JobFields
<1> HIDE DEF fields
<1>7. KeepsBut(t, DOMAIN fields) /\ \A f \in DOMAIN fields : job'[t][f] = fields[f]
  BY <1>1, <1>4, <1>6, StepKeeps DEF Answered
<1>8. /\ On(t, {"stage", "settled", "again"}) /\ job'[t].stage = stage /\ job'[t].settled = TRUE
      /\ job'[t].again = again
  BY <1>5, <1>7 DEF On
<1> QED BY <1>1, <1>2, <1>3, <1>8

\* A removal that goes on, and one that ends.
Ends(t) ==
  \/ job[t].mode = "retry" /\ OneJob(t) /\ job'[t] = Claims!Idle
  \/ Concerned(job[t]) /\ On(t, {"stage"}) /\ job'[t].stage = "release"

LEMMA DeletedEnds ==
  ASSUME UserInvariant, NEW t \in Claims!Threads, job[t] # Claims!Idle, Claims!Deleted(t)
  PROVE  Ends(t)
<1>1. CASE job[t].mode = "retry"
  <2>1. job' = [job EXCEPT ![t] = Claims!Idle] /\ DOMAIN job = Claims!Threads
    BY <1>1 DEF Claims!Deleted, UserInvariant, JobsOK
  <2> QED BY <1>1, <2>1 DEF OneJob, Ends
<1>2. CASE job[t].mode # "retry"
  <2>1. Concerned(job[t]) /\ Claims!Step(t, [stage |-> "release"])
    BY <1>2 DEF Claims!Deleted, Claims!Leave, Concerned
  <2> QED BY <2>1, StageAgain DEF Ends
<1> QED BY <1>1, <1>2

LEMMA DeleteBeginFacts ==
  ASSUME UserInvariant, NEW t \in Claims!Threads, Claims!DeleteBegin(t)
  PROVE  /\ job[t].stage = "delete" /\ job[t] # Claims!Idle /\ JobFits(job[t])
         /\ \A p \in Claims!Paths : pending'[p] = pending[p] \/ pending'[p] = Claims!None
         /\ DOMAIN pending' = Claims!Paths
         /\ \/ Ends(t)
            \/ /\ OneJob(t) /\ job'[t] # Claims!Idle /\ job'[t].stage = "unlink" /\ job'[t].mode = job[t].mode
               /\ job'[t].path = job[t].path /\ job'[t].decoded = job[t].decoded
               /\ Concerned(job[t]) => On(t, {"stage"})
<1>1. /\ job[t].stage = "delete"
      /\ pending' \in {pending, [pending EXCEPT ![Claims!Path(t)] = Claims!None]}
      /\ Claims!Step(t, [stage |-> "unlink"]) \/ Claims!Deleted(t)
  BY DEF Claims!DeleteBegin
<1>2. job[t] # Claims!Idle
  BY <1>1 DEF Claims!Idle
<1>3. JobFits(job[t]) /\ DOMAIN job = Claims!Threads
  BY <1>2 DEF UserInvariant, JobsOK, JobOK
<1>4. DOMAIN pending' = Claims!Paths /\ \A p \in Claims!Paths : pending'[p] = pending[p] \/ pending'[p] = Claims!None
  BY <1>1 DEF UserInvariant, PendingsOK
<1>5. CASE Claims!Step(t, [stage |-> "unlink"])
  <2> DEFINE fields == [stage |-> "unlink"]
  <2>1. DOMAIN fields = {"stage"} /\ fields["stage"] = "unlink" /\ Claims!Step(t, fields)
    BY <1>5
  <2> HIDE DEF fields
  <2>2. /\ OneJob(t) /\ DOMAIN job'[t] = DOMAIN job[t]
        /\ \A f \in DOMAIN job[t] :
              job'[t][f] = IF f \in DOMAIN fields THEN fields[f] ELSE job[t][f]
    BY <1>3, <2>1, StepFacts
  <2>3. {"stage", "mode", "path", "decoded"} \subseteq DOMAIN job[t]
    BY <1>3 DEF JobFits, JobFields, RetryFields
  <2>4. /\ job'[t].stage = "unlink" /\ job'[t].mode = job[t].mode
        /\ job'[t].path = job[t].path /\ job'[t].decoded = job[t].decoded
    BY <2>1, <2>2, <2>3
  <2>5. job'[t] # Claims!Idle
    BY <2>4 DEF Claims!Idle
  <2>6. Concerned(job[t]) => On(t, {"stage"})
    BY <1>5, StageAgain
  <2> QED BY <1>1, <1>2, <1>3, <1>4, <2>2, <2>4, <2>5, <2>6
<1>6. CASE Claims!Deleted(t)
  <2>1. Ends(t)
    BY <1>2, <1>6, DeletedEnds
  <2> QED BY <1>1, <1>2, <1>3, <1>4, <2>1
<1> QED BY <1>1, <1>5, <1>6

LEMMA UnlinkFacts ==
  ASSUME UserInvariant, NEW t \in Claims!Threads, Claims!Unlink(t)
  PROVE  /\ job[t].stage = "unlink" /\ job[t] # Claims!Idle /\ JobFits(job[t]) /\ Ends(t)
         /\ \/ UNCHANGED <<file, removed>>
            \/ /\ file[job[t].path] = job[t].decoded
               /\ file' = [file EXCEPT ![job[t].path] = Claims!Missing]
               /\ removed' = removed \cup {job[t].decoded}
         /\ DOMAIN pending' = Claims!Paths
         /\ \A p \in Claims!Paths :
               \/ pending'[p] = pending[p] \/ pending'[p] = Claims!None
               \/ p = job[t].path /\ pending'[p].generation = job[t].decoded
<1>1. job[t].stage = "unlink" /\ Claims!Deleted(t)
  BY DEF Claims!Unlink
<1>2. job[t] # Claims!Idle
  BY <1>1 DEF Claims!Idle
<1>3. JobFits(job[t])
  BY <1>2 DEF UserInvariant, JobsOK, JobOK
<1>4. Ends(t)
  BY <1>1, <1>2, DeletedEnds
<1>5. \/ UNCHANGED <<file, removed>>
      \/ /\ file[job[t].path] = job[t].decoded
         /\ file' = [file EXCEPT ![job[t].path] = Claims!Missing]
         /\ removed' = removed \cup {job[t].decoded}
  BY DEF Claims!Unlink, Claims!Matches, Claims!Path
<1>6. \/ pending' = pending
      \/ pending' = [pending EXCEPT ![job[t].path] =
                        IF pending[job[t].path].generation = job[t].decoded THEN Claims!None
                        ELSE pending[job[t].path]]
      \/ \E n : pending' = [pending EXCEPT ![job[t].path] = [generation |-> job[t].decoded, tries |-> n]]
  BY DEF Claims!Unlink, Claims!Path
<1>7. DOMAIN pending = Claims!Paths /\ job[t].path \in Claims!Paths
  BY <1>3 DEF UserInvariant, PendingsOK, JobFits
<1>8. DOMAIN pending' = Claims!Paths
  BY <1>6, <1>7
<1>9. ASSUME NEW p \in Claims!Paths
      PROVE  \/ pending'[p] = pending[p] \/ pending'[p] = Claims!None
             \/ p = job[t].path /\ pending'[p].generation = job[t].decoded
  <2>1. CASE \E n : pending' = [pending EXCEPT ![job[t].path] = [generation |-> job[t].decoded, tries |-> n]]
    <3>1. PICK n : pending' = [pending EXCEPT ![job[t].path] = [generation |-> job[t].decoded, tries |-> n]]
      BY <2>1
    <3>2. PICK r : r = [generation |-> job[t].decoded, tries |-> n]
      OBVIOUS
    <3>3. r.generation = job[t].decoded
      BY <3>2
    <3>4. pending'[p] = IF p = job[t].path THEN r ELSE pending[p]
      BY <3>1, <3>2, <1>7
    <3> QED BY <3>3, <3>4
  <2> QED BY <1>6, <1>7, <2>1
<1> QED BY <1>1, <1>2, <1>3, <1>4, <1>5, <1>8, <1>9

LEMMA ReleaseFacts ==
  ASSUME UserInvariant, NEW t \in Claims!Threads, Claims!Release(t)
  PROVE  /\ job[t].stage = "release" /\ Concerned(job[t]) /\ active' = active \ {job[t].path}
         /\ recent' = (recent \cup Claims!Worked(t)) \ Claims!Forgotten(t)
         /\ \/ On(t, {"stage"}) /\ job'[t].stage = "retake"
            \/ OneJob(t) /\ job'[t] = Claims!Idle
         /\ Claims!NewWork(t) =>
              \/ On(t, {"stage"}) /\ job'[t].stage = "retake"
              \/ job[t].path \in genTimers'
              \/ rescan'
<1>1. job[t].stage = "release"
  BY DEF Claims!Release
<1>2. Concerned(job[t]) /\ DOMAIN job = Claims!Threads
  BY <1>1, ConcernedByStage DEF UserInvariant, JobsOK
<1>3. active' = active \ {job[t].path} /\ recent' = (recent \cup Claims!Worked(t)) \ Claims!Forgotten(t)
  BY DEF Claims!Release, Claims!Path
<1>4. CASE Claims!Step(t, [stage |-> "retake"])
  <2>1. On(t, {"stage"}) /\ job'[t].stage = "retake"
    BY <1>2, <1>4, StageAgain
  <2> QED BY <1>1, <1>2, <1>3, <2>1
<1>5. CASE job' = [job EXCEPT ![t] = Claims!Idle]
  <2>1. OneJob(t) /\ job'[t] = Claims!Idle
    BY <1>2, <1>5 DEF OneJob
  <2>2. Claims!NewWork(t) => job[t].path \in genTimers' \/ rescan' \/ Claims!Step(t, [stage |-> "retake"])
    BY DEF Claims!Release, Claims!Path
  <2>3. CASE Claims!Step(t, [stage |-> "retake"])
    <3>1. On(t, {"stage"}) /\ job'[t].stage = "retake"
      BY <1>2, <2>3, StageAgain
    <3> QED BY <1>1, <1>2, <1>3, <3>1
  <2> QED BY <1>1, <1>2, <1>3, <2>1, <2>2, <2>3
<1> QED BY <1>4, <1>5 DEF Claims!Release

\* A path is taken on, or left to the thread that has it.
Fresh(j, p, mode) ==
  /\ DOMAIN j = JobFields /\ j.stage = "claimed" /\ j.mode = mode /\ j.path = p
  /\ j.decoded = file[p] /\ j.seen = {file[p]} /\ j.settled = FALSE /\ j.retry = FALSE /\ j.again = FALSE

TakesOn(t, p, mode) ==
  /\ OneJob(t)
  /\ \/ /\ Claims!Claimable(p) /\ active' = active \cup {p} /\ Fresh(job'[t], p, mode)
     \/ /\ ~Claims!Claimable(p) /\ active' = active /\ job'[t] = Claims!Idle

LEMMA JobIsFresh ==
  ASSUME NEW p, NEW mode, NEW attempt, NEW final
  PROVE  Fresh(Claims!Job(p, mode, attempt, final), p, mode)
<1> DEFINE j == [stage |-> "claimed", path |-> p, mode |-> mode, attempt |-> attempt,
                 final |-> final, decoded |-> file[p], seen |-> {file[p]}, got |-> Claims!Missing,
                 settled |-> FALSE, retry |-> FALSE, again |-> FALSE, tries |-> 0]
<1>1. /\ DOMAIN j = JobFields /\ j.stage = "claimed" /\ j.mode = mode /\ j.path = p
      /\ j.decoded = file[p] /\ j.seen = {file[p]} /\ j.settled = FALSE /\ j.retry = FALSE /\ j.again = FALSE
  BY DEF JobFields
<1>2. Claims!Job(p, mode, attempt, final) = j
  BY DEF Claims!Job
<1> HIDE DEF j
<1> QED BY <1>1, <1>2 DEF Fresh

LEMMA TakeTakesOn ==
  ASSUME UserInvariant, NEW t \in Claims!Threads, NEW p, NEW mode, NEW attempt, NEW final,
         Claims!Take(t, p, mode, attempt, final)
  PROVE  TakesOn(t, p, mode)
<1>1. DOMAIN job = Claims!Threads
  BY DEF UserInvariant, JobsOK
<1>2. CASE Claims!Claimable(p)
  <2>1. PICK j : j = Claims!Job(p, mode, attempt, final)
    OBVIOUS
  <2>2. job' = [job EXCEPT ![t] = j] /\ active' = active \cup {p}
    BY <1>2, <2>1 DEF Claims!Take
  <2>3. OneJob(t) /\ job'[t] = j
    BY <1>1, <2>2 DEF OneJob
  <2>4. Fresh(j, p, mode)
    BY <2>1, JobIsFresh
  <2> QED BY <1>2, <2>2, <2>3, <2>4 DEF TakesOn
<1>3. CASE ~Claims!Claimable(p)
  <2>1. job' = [job EXCEPT ![t] = Claims!Idle] /\ active' = active
    BY <1>3 DEF Claims!Take
  <2>2. OneJob(t) /\ job'[t] = Claims!Idle
    BY <1>1, <2>1 DEF OneJob
  <2> QED BY <1>3, <2>1, <2>2 DEF TakesOn
<1> QED BY <1>2, <1>3

-----------------------------------------------------------------------------
(* Each path is in the hands of one thread. *)

LEMMA ClaimStays ==
  ASSUME FilesOK, FileStep, NEW u \in Claims!Threads, ClaimOK(u), job'[u] = job[u],
         Holds(job[u]) => job[u].path \in active'
  PROVE  ClaimOK(u)'
<1>1. PICK j : j = job[u]
  OBVIOUS
<1>2. name' = name /\ \A s \in 1..written : s \in 1..written'
  BY DEF FilesOK, FileStep
<1>3. ClaimFits(j) => ClaimFits(j)'
  BY <1>2 DEF ClaimFits
<1>4. Concerned(j) = Concerned(j)' /\ Holds(j) = Holds(j)'
  BY DEF Concerned, Holds, Claims!Idle
<1>5. /\ j # Claims!Idle => name[j.decoded] = j.path
      /\ Concerned(j) => ClaimFits(j)
      /\ j.mode = "backlog" => u = "backlog"
      /\ Holds(j) => j.path \in active'
  BY <1>1 DEF ClaimOK
<1>6. job'[u] = j
  BY <1>1
<1> QED BY <1>2, <1>3, <1>4, <1>5, <1>6 DEF ClaimOK, Concerned, Holds, Claims!Idle

LEMMA ActiveChange ==
  ASSUME FilesOK, FileStep, ActiveOK, NEW t \in Claims!Threads, OneJob(t), ClaimOK(t)',
         NEW CONSTANT gone, NEW CONSTANT come,
         gone = IF Holds(job[t]) THEN {job[t].path} ELSE {},
         come = IF Holds(job'[t]) THEN {job'[t].path} ELSE {},
         active' = (active \ gone) \cup come, come \cap (active \ gone) = {}
  PROVE  ActiveOK'
<1>1. \A u \in Claims!Threads \ {t} : job'[u] = job[u]
  BY DEF OneJob
<1>2. \A u \in Claims!Threads \ {t} : Holds(job[u]) => job[u].path \in active \ gone
  <2>1. TAKE u \in Claims!Threads \ {t}
  <2>2. HAVE Holds(job[u])
  <2>3. job[u].path \in active
    BY <2>2 DEF ActiveOK, ClaimOK
  <2>4. Holds(job[t]) => job[t].path # job[u].path
    BY <2>2 DEF ActiveOK
  <2> QED BY <2>3, <2>4
<1>3. ASSUME NEW u \in Claims!Threads PROVE ClaimOK(u)'
  <2>1. CASE u = t
    BY <2>1
  <2>2. CASE u # t
    BY <2>2, <1>1, <1>2, ClaimStays DEF ActiveOK
  <2> QED BY <2>1, <2>2
<1>4. ASSUME NEW p \in active' PROVE \E u \in Claims!Threads : Holds(job'[u]) /\ job'[u].path = p
  <2>1. CASE p \in come
    BY <2>1
  <2>2. CASE p \in active \ gone
    <3>1. PICK u \in Claims!Threads : Holds(job[u]) /\ job[u].path = p
      BY <2>2 DEF ActiveOK
    <3>2. u # t
      BY <2>2, <3>1
    <3> QED BY <3>1, <3>2, <1>1
  <2> QED BY <2>1, <2>2
<1>5. ASSUME NEW u \in Claims!Threads, NEW v \in Claims!Threads, Holds(job'[u]), Holds(job'[v]),
             job'[u].path = job'[v].path
      PROVE  u = v
  <2>1. CASE u # t /\ v # t
    <3>1. job'[u] = job[u] /\ job'[v] = job[v]
      BY <2>1, <1>1
    <3>2. Holds(job[u]) /\ Holds(job[v]) /\ job[u].path = job[v].path
      BY <1>5, <3>1
    <3> QED BY <3>2 DEF ActiveOK
  <2>2. ASSUME NEW w \in Claims!Threads \ {t}, Holds(job'[w]), Holds(job'[t]) PROVE job'[w].path # job'[t].path
    <3>1. job'[w] = job[w]
      BY <1>1
    <3>2. Holds(job[w])
      BY <2>2, <3>1
    <3>3. job[w].path \in active \ gone
      BY <1>2, <3>2
    <3>4. job'[t].path \in come
      BY <2>2
    <3> QED BY <3>1, <3>3, <3>4
  <2> QED BY <1>5, <2>1, <2>2
<1>6. \A p \in active' : \E u \in Claims!Threads : Holds(job[u])' /\ job'[u].path = p
  BY <1>4 DEF Holds, Concerned, Claims!Idle
<1>7. \A u, v \in Claims!Threads : Holds(job[u])' /\ Holds(job[v])' /\ job'[u].path = job'[v].path => u = v
  BY <1>5 DEF Holds, Concerned, Claims!Idle
<1> QED BY <1>3, <1>6, <1>7 DEF ActiveOK

LEMMA ActiveSame ==
  ASSUME FilesOK, FileStep, ActiveOK, UNCHANGED <<job, active>>
  PROVE  ActiveOK'
<1>1. \A u \in Claims!Threads : ClaimOK(u)'
  BY ClaimStays DEF ActiveOK, ClaimOK
<1> QED BY <1>1 DEF ActiveOK, Holds, Concerned, Claims!Idle

\* A thread that neither had nor has a path.
LEMMA ActiveAside ==
  ASSUME FilesOK, FileStep, ActiveOK, NEW t \in Claims!Threads, OneJob(t), active' = active,
         ~Holds(job[t]), ~Holds(job'[t]), ClaimOK(t)'
  PROVE  ActiveOK'
<1>1. \E gone, come : gone = {} /\ come = {}
  OBVIOUS
<1> QED BY <1>1, ActiveChange

LEMMA ActiveGoesOn ==
  ASSUME FilesOK, FileStep, ActiveOK, NEW t \in Claims!Threads, OneJob(t), active' = active,
         Holds(job[t]), Holds(job'[t]), job'[t].path = job[t].path, ClaimOK(t)'
  PROVE  ActiveOK'
<1>1. job[t].path \in active
  BY DEF ActiveOK, ClaimOK
<1>2. PICK gone : gone = {job[t].path}
  OBVIOUS
<1>3. active' = (active \ gone) \cup gone /\ gone \cap (active \ gone) = {}
  BY <1>1, <1>2
<1>4. gone = IF Holds(job[t]) THEN {job[t].path} ELSE {}
  BY <1>2
<1>5. gone = IF Holds(job'[t]) THEN {job'[t].path} ELSE {}
  BY <1>2
<1> QED BY <1>3, <1>4, <1>5, ActiveChange

LEMMA ActiveClaims ==
  ASSUME UserInvariant, ChronicleOK, FileStep, ActiveOK, NEW t \in Claims!Threads, ~Holds(job[t]), OneJob(t),
         NEW p \in Claims!Paths, NEW mode \in {"live", "backlog", "sweep"}, mode = "backlog" => t = "backlog",
         p \notin active, file[p] # Claims!Missing, active' = active \cup {p}, Fresh(job'[t], p, mode)
  PROVE  ActiveOK' /\ Holds(job'[t])
<1>1. job'[t] # Claims!Idle /\ job'[t].mode # "retry" /\ job'[t].stage # "retake"
  BY DEF Fresh, Claims!Idle
<1>2. Holds(job'[t])
  BY <1>1 DEF Holds, Concerned
<1>3. /\ file[p] \in 1..written' /\ name'[file[p]] = p
  BY FilesAreOnDisk DEF UserInvariant, FilesOK, FileStep
<1>4. ClaimFits(job[t])'
  BY <1>3 DEF ClaimFits, Fresh, Working
<1>5. ClaimOK(t)'
  BY <1>3, <1>4 DEF ClaimOK, Fresh
<1>6. PICK gone : gone = {}
  OBVIOUS
<1>7. PICK come : come = {p}
  OBVIOUS
<1>8. /\ gone = IF Holds(job[t]) THEN {job[t].path} ELSE {}
      /\ come = IF Holds(job'[t]) THEN {job'[t].path} ELSE {}
  BY <1>2, <1>6, <1>7 DEF Fresh
<1>9. active' = (active \ gone) \cup come /\ come \cap (active \ gone) = {}
  BY <1>6, <1>7
<1> QED BY <1>2, <1>5, <1>8, <1>9, ActiveChange DEF UserInvariant

LEMMA ActiveTakes ==
  ASSUME UserInvariant, ChronicleOK, FileStep, ActiveOK, NEW t \in Claims!Threads, ~Holds(job[t]),
         NEW p \in Claims!Paths, NEW mode \in {"live", "backlog", "sweep"}, mode = "backlog" => t = "backlog",
         TakesOn(t, p, mode)
  PROVE  ActiveOK'
<1>1. OneJob(t)
  BY DEF TakesOn
<1>2. CASE Claims!Claimable(p)
  <2>1. active' = active \cup {p} /\ Fresh(job'[t], p, mode) /\ p \notin active /\ file[p] # Claims!Missing
    BY <1>2 DEF TakesOn, Claims!Claimable
  <2> QED BY <1>1, <2>1, ActiveClaims
<1>3. CASE ~Claims!Claimable(p)
  <2>1. active' = active /\ job'[t] = Claims!Idle
    BY <1>3 DEF TakesOn
  <2>2. ~Holds(job'[t]) /\ ClaimOK(t)'
    BY <2>1 DEF Holds, Concerned, ClaimOK, Claims!Idle
  <2> QED BY <1>1, <2>1, <2>2, ActiveAside DEF UserInvariant
<1> QED BY <1>2, <1>3

\* A thread that goes on with the path it holds.
LEMMA HoldsOn ==
  ASSUME UserInvariant, FileStep, ActiveOK, active' = active, NEW t \in Claims!Threads, NEW F, On(t, F),
         Concerned(job[t]), job[t].stage # "retake", job'[t].stage # "retake",
         name[job'[t].decoded] = job[t].path, ClaimFits(job[t])'
  PROVE  ActiveOK'
<1>1. /\ OneJob(t) /\ job'[t].path = job[t].path /\ job'[t].mode = job[t].mode
  BY KeptFields DEF On
<1>2. job'[t] # Claims!Idle
  <2>1. job[t].mode \in {"live", "backlog", "sweep", "retry"}
    BY DEF Concerned, UserInvariant, JobsOK, JobOK, JobFits
  <2> QED BY <1>1, <2>1 DEF Claims!Idle
<1>3. Holds(job[t]) /\ Holds(job'[t])
  BY <1>1, <1>2 DEF Holds, Concerned
<1>4. job[t].path \in active /\ (job[t].mode = "backlog" => t = "backlog")
  BY <1>3 DEF ActiveOK, ClaimOK
<1>5. name' = name
  BY DEF FileStep
<1>6. ClaimOK(t)'
  BY <1>1, <1>4, <1>5 DEF ClaimOK
<1> QED BY <1>1, <1>3, <1>6, ActiveGoesOn DEF UserInvariant

LEMMA ConcernedFits ==
  ASSUME UserInvariant, ActiveOK, NEW t \in Claims!Threads, Concerned(job[t])
  PROVE  /\ ClaimFits(job[t]) /\ name[job[t].decoded] = job[t].path
         /\ job[t].path \in Claims!Paths /\ job[t].decoded \in 1..written
         /\ job[t].stage # "retake" => Holds(job[t]) /\ job[t].path \in active
BY DEF UserInvariant, JobsOK, JobOK, JobFits, ActiveOK, ClaimOK, Concerned, Holds

LEMMA LookLiveKeepsActive ==
  ASSUME UserInvariant, ChronicleOK, ActiveOK, NEW t \in Claims!Threads, Claims!LookLive(t)
  PROVE  ActiveOK'
<1>1. UNCHANGED <<Claims!disk, active>>
  BY DEF Claims!LookLive, Claims!claims
<1>2. FileStep /\ written' = written /\ name' = name
  BY <1>1, SameDisk DEF UserInvariant, Claims!disk
<1>3. job[t].stage = "claimed" /\ Concerned(job[t])
  BY LookLiveFacts
<1>4. /\ ClaimFits(job[t]) /\ name[job[t].decoded] = job[t].path /\ job[t].path \in Claims!Paths
      /\ ~job[t].settled /\ ~job[t].retry /\ ~job[t].again
  BY <1>3, ConcernedFits DEF ClaimFits, Working
<1>5. CASE On(t, {"stage", "again"}) /\ job'[t].stage = "release" /\ job'[t].again = TRUE
  <2>1. /\ job'[t].settled = job[t].settled /\ job'[t].retry = job[t].retry /\ job'[t].seen = job[t].seen
        /\ job'[t].path = job[t].path /\ job'[t].decoded = job[t].decoded
    BY <1>5, KeptFields DEF On
  <2>2. ClaimFits(job[t])'
    BY <1>2, <1>4, <1>5, <2>1 DEF ClaimFits, Working
  <2> QED BY <1>1, <1>2, <1>3, <1>4, <1>5, <2>1, <2>2, HoldsOn
<1>6. CASE On(t, {"stage"}) /\ job'[t].stage = "release"
  <2>1. /\ job'[t].settled = job[t].settled /\ job'[t].retry = job[t].retry /\ job'[t].seen = job[t].seen
        /\ job'[t].path = job[t].path /\ job'[t].decoded = job[t].decoded /\ job'[t].again = job[t].again
    BY <1>6, KeptFields DEF On
  <2>2. ClaimFits(job[t])'
    BY <1>2, <1>4, <1>6, <2>1 DEF ClaimFits, Working
  <2> QED BY <1>1, <1>2, <1>3, <1>4, <1>6, <2>1, <2>2, HoldsOn
<1>7. CASE /\ On(t, {"stage", "decoded", "seen"}) /\ job'[t].stage = "decoding"
           /\ job'[t].decoded = file[job[t].path] /\ job'[t].seen = job[t].seen \cup {file[job[t].path]}
           /\ file[job[t].path] # Claims!Missing
  <2>1. /\ job'[t].settled = job[t].settled /\ job'[t].retry = job[t].retry
        /\ job'[t].path = job[t].path /\ job'[t].again = job[t].again
    BY <1>7, KeptFields DEF On
  <2>2. file[job[t].path] \in 1..written /\ name[file[job[t].path]] = job[t].path
    BY <1>4, <1>7, FilesAreOnDisk DEF UserInvariant
  <2>3. ClaimFits(job[t])'
    BY <1>2, <1>4, <1>7, <2>1, <2>2 DEF ClaimFits, Working
  <2> QED BY <1>1, <1>2, <1>3, <1>7, <2>2, <2>3, HoldsOn
<1> QED BY <1>5, <1>6, <1>7, LookLiveFacts

\* The steps that change how far the thread is, and whether its work is settled.
LEMMA SettlesKeepsActive ==
  ASSUME UserInvariant, ActiveOK, FileStep, active' = active,
         NEW t \in Claims!Threads, Concerned(job[t]), job[t].stage # "retake",
         NEW F \in SUBSET {"stage", "got", "settled", "retry", "again"}, On(t, F),
         {job'[t].settled, job'[t].retry, job'[t].again} \subseteq BOOLEAN,
         \/ Working(job'[t]) /\ ~job'[t].settled /\ ~job'[t].retry /\ ~job'[t].again
         \/ job'[t].stage \in {"delete", "unlink"} /\ job'[t].settled /\ ~job'[t].retry /\ ~job'[t].again
         \/ job'[t].stage = "release" /\ (job'[t].retry => job'[t].settled)
  PROVE  ActiveOK'
<1>1. /\ job'[t].path = job[t].path /\ job'[t].seen = job[t].seen /\ job'[t].decoded = job[t].decoded
  BY KeptFields DEF On
<1>2. /\ ClaimFits(job[t]) /\ name[job[t].decoded] = job[t].path
  BY ConcernedFits
<1>3. name' = name /\ \A s \in 1..written : s \in 1..written'
  BY DEF UserInvariant, FilesOK, FileStep
<1>4. \A s \in job'[t].seen : s \in 1..written' /\ name'[s] = job'[t].path
  BY <1>1, <1>2, <1>3 DEF ClaimFits
<1>5. ClaimFits(job[t])'
  BY <1>4 DEF ClaimFits, Working
<1>6. job'[t].stage # "retake"
  BY DEF Working
<1> QED BY <1>1, <1>2, <1>5, <1>6, HoldsOn

LEMMA DecidesKeepsActive ==
  ASSUME UserInvariant, ActiveOK, NEW t \in Claims!Threads,
         Claims!LookBacklog(t) \/ Claims!Decode(t) \/ Claims!FinalizeChanged(t)
  PROVE  ActiveOK'
<1>1. UNCHANGED <<Claims!disk, active>>
  BY DEF Claims!LookBacklog, Claims!Decode, Claims!FinalizeChanged, Claims!claims
<1>2. FileStep
  BY <1>1, SameDisk DEF UserInvariant
<1>3. Working(job[t]) /\ Concerned(job[t]) /\ job[t].stage # "retake"
  BY LookBacklogFacts, DecodeFacts, FinalizeChangedFacts DEF Working
<1>4. ~job[t].settled /\ ~job[t].retry /\ ~job[t].again /\ {job[t].settled, job[t].retry, job[t].again} \subseteq BOOLEAN
  BY <1>3, ConcernedFits DEF ClaimFits
<1>5. CASE Claims!LookBacklog(t) \/ Claims!Decode(t)
  <2>1. PICK F \in {{"stage"}, {"stage", "got"}} :
           On(t, F) /\ job'[t].stage \in {"release", "decoding", "decoded"}
    BY <1>5, LookBacklogFacts, DecodeFacts
  <2>2. job'[t].settled = job[t].settled /\ job'[t].retry = job[t].retry /\ job'[t].again = job[t].again
    BY <2>1, KeptFields DEF On
  <2>3. F \in SUBSET {"stage", "got", "settled", "retry", "again"}
    BY <2>1
  <2>4. \/ Working(job'[t]) /\ ~job'[t].settled /\ ~job'[t].retry /\ ~job'[t].again
        \/ job'[t].stage = "release" /\ (job'[t].retry => job'[t].settled)
    BY <1>4, <2>1, <2>2 DEF Working
  <2>5. {job'[t].settled, job'[t].retry, job'[t].again} \subseteq BOOLEAN
    BY <1>4, <2>2
  <2> QED BY <1>1, <1>2, <1>3, <2>1, <2>3, <2>4, <2>5, SettlesKeepsActive
<1>6. CASE Claims!FinalizeChanged(t)
  <2>1. /\ On(t, {"stage", "settled", "retry"}) /\ job'[t].stage = "release"
        /\ job'[t].settled = TRUE /\ job'[t].retry = TRUE
    BY <1>6, FinalizeChangedFacts
  <2>2. job'[t].again = job[t].again
    BY <2>1, KeptFields DEF On
  <2>3. {"stage", "settled", "retry"} \in SUBSET {"stage", "got", "settled", "retry", "again"}
    OBVIOUS
  <2>4. {job'[t].settled, job'[t].retry, job'[t].again} \subseteq BOOLEAN
    BY <1>4, <2>1, <2>2
  <2> QED BY <1>1, <1>2, <1>3, <2>1, <2>3, <2>4, SettlesKeepsActive
<1> QED BY <1>5, <1>6

LEMMA FinalizesKeepsActive ==
  ASSUME UserInvariant, ActiveOK, NEW t \in Claims!Threads,
         Claims!FinalizeLive(t) \/ Claims!FinalizeBacklog(t) \/ Claims!FinalizeSweep(t)
  PROVE  ActiveOK'
<1>1. UNCHANGED <<Claims!disk, active>>
  BY DEF Claims!FinalizeLive, Claims!FinalizeBacklog, Claims!FinalizeSweep, Claims!claims
<1>2. FileStep
  BY <1>1, SameDisk DEF UserInvariant
<1>3. job[t].stage = "decoded" /\ Concerned(job[t])
  BY FinalizeLiveFacts, FinalizeBacklogFacts, FinalizeSweepFacts DEF Answered
<1>4. ~job[t].settled /\ ~job[t].retry /\ ~job[t].again /\ {job[t].settled, job[t].retry, job[t].again} \subseteq BOOLEAN
  BY <1>3, ConcernedFits DEF ClaimFits, Working
<1>5. PICK F \in {{"stage", "settled"}, {"stage", "settled", "again"}} :
         /\ On(t, F) /\ job'[t].settled = TRUE /\ job'[t].stage \in {"release", "delete"}
         /\ job'[t].again \in BOOLEAN
         /\ job'[t].stage = "delete" => ~job'[t].again
  <2>1. CASE Claims!FinalizeLive(t)
    <3>1. On(t, {"stage", "settled"}) /\ job'[t].settled = TRUE /\ job'[t].stage \in {"release", "delete"}
      BY <2>1, FinalizeLiveFacts
    <3>2. job'[t].again = job[t].again
      BY <3>1, KeptFields DEF On
    <3> QED BY <1>4, <3>1, <3>2
  <2>2. CASE Claims!FinalizeBacklog(t)
    <3>1. /\ On(t, {"stage", "settled", "again"}) /\ job'[t].settled = TRUE
          /\ job'[t].stage = IF Claims!ShowsMarker(t) /\ ~scan.blocked THEN "delete" ELSE "release"
          /\ job'[t].again = ((Claims!ShowsMarker(t) \/ Claims!Shows(t, "suspect")) /\ scan.blocked)
      BY <2>2, FinalizeBacklogFacts
    <3>2. job'[t].again \in BOOLEAN
      BY <3>1
    <3>3. job'[t].stage \in {"release", "delete"}
      BY <3>1
    <3>4. job'[t].stage = "delete" => ~job'[t].again
      BY <3>1
    <3> QED BY <3>1, <3>2, <3>3, <3>4
  <2>3. CASE Claims!FinalizeSweep(t)
    <3>1. /\ On(t, {"stage", "settled", "again"}) /\ job'[t].settled = TRUE
          /\ job'[t].stage = IF Claims!ShowsMarker(t) /\ job[t].decoded \in old THEN "delete" ELSE "release"
          /\ job'[t].again = (job[t].decoded \notin old)
      BY <2>3, FinalizeSweepFacts
    <3>2. job'[t].again \in BOOLEAN
      BY <3>1
    <3>3. job'[t].stage \in {"release", "delete"}
      BY <3>1
    <3>4. job'[t].stage = "delete" => ~job'[t].again
      BY <3>1
    <3> QED BY <3>1, <3>2, <3>3, <3>4
  <2> QED BY <2>1, <2>2, <2>3
<1>6. job'[t].retry = job[t].retry
  BY <1>5, KeptFields DEF On
<1>7. {job'[t].settled, job'[t].retry, job'[t].again} \subseteq BOOLEAN
  BY <1>4, <1>5, <1>6
<1>8. F \in SUBSET {"stage", "got", "settled", "retry", "again"} /\ job[t].stage # "retake"
  BY <1>3, <1>5
<1>9. \/ job'[t].stage \in {"delete", "unlink"} /\ job'[t].settled /\ ~job'[t].retry /\ ~job'[t].again
      \/ job'[t].stage = "release" /\ (job'[t].retry => job'[t].settled)
  BY <1>4, <1>5, <1>6
<1> QED BY <1>1, <1>2, <1>3, <1>5, <1>7, <1>8, <1>9, SettlesKeepsActive

\* A removal that goes on or ends.
LEMMA EndsKeepsActive ==
  ASSUME UserInvariant, ActiveOK, FileStep, active' = active, NEW t \in Claims!Threads,
         job[t] # Claims!Idle, JobFits(job[t]), job[t].stage \in {"delete", "unlink"}, Ends(t)
  PROVE  ActiveOK'
<1>1. CASE job[t].mode = "retry" /\ OneJob(t) /\ job'[t] = Claims!Idle
  <2>1. ~Holds(job[t]) /\ ~Holds(job'[t]) /\ ClaimOK(t)'
    BY <1>1 DEF Holds, Concerned, ClaimOK, Claims!Idle
  <2> QED BY <1>1, <2>1, ActiveAside DEF UserInvariant
<1>2. CASE Concerned(job[t]) /\ On(t, {"stage"}) /\ job'[t].stage = "release"
  <2>1. job[t].settled /\ {job[t].settled, job[t].retry, job[t].again} \subseteq BOOLEAN /\ ~job[t].retry
    BY <1>2, ConcernedFits DEF ClaimFits
  <2>2. job'[t].settled = job[t].settled /\ job'[t].retry = job[t].retry /\ job'[t].again = job[t].again
    BY <1>2, KeptFields DEF On
  <2>3. {job'[t].settled, job'[t].retry, job'[t].again} \subseteq BOOLEAN
    BY <2>1, <2>2
  <2>4. {"stage"} \in SUBSET {"stage", "got", "settled", "retry", "again"} /\ job[t].stage # "retake"
    OBVIOUS
  <2> QED BY <1>2, <2>1, <2>2, <2>3, <2>4, SettlesKeepsActive
<1> QED BY <1>1, <1>2 DEF Ends

LEMMA DeletesKeepsActive ==
  ASSUME UserInvariant, ChronicleOK, ActiveOK, NEW t \in Claims!Threads,
         Claims!DeleteBegin(t) \/ Claims!Unlink(t)
  PROVE  ActiveOK'
<1>1. active' = active
  BY DEF Claims!DeleteBegin, Claims!Unlink, Claims!claims
<1>2. FileStep
  <2>1. CASE Claims!DeleteBegin(t)
    <3>1. UNCHANGED Claims!disk
      BY <2>1 DEF Claims!DeleteBegin
    <3> QED BY <3>1, SameDisk DEF UserInvariant
  <2>2. CASE Claims!Unlink(t)
    BY <2>2, UnlinkIsOnward DEF Onward
  <2> QED BY <2>1, <2>2
<1>3. /\ job[t] # Claims!Idle /\ JobFits(job[t]) /\ job[t].stage \in {"delete", "unlink"}
  BY DeleteBeginFacts, UnlinkFacts
<1>4. CASE Ends(t)
  BY <1>1, <1>2, <1>3, <1>4, EndsKeepsActive
<1>5. CASE /\ OneJob(t) /\ job'[t] # Claims!Idle /\ job'[t].stage = "unlink" /\ job'[t].mode = job[t].mode
           /\ job'[t].path = job[t].path /\ job'[t].decoded = job[t].decoded
           /\ Concerned(job[t]) => On(t, {"stage"})
  <2>1. CASE job[t].mode = "retry"
    <3>1. name' = name /\ name[job[t].decoded] = job[t].path
      BY <1>2, <1>3 DEF FileStep, ActiveOK, ClaimOK
    <3>2. ~Holds(job[t]) /\ ~Holds(job'[t]) /\ ClaimOK(t)'
      BY <1>5, <2>1, <3>1 DEF Holds, Concerned, ClaimOK
    <3> QED BY <1>1, <1>2, <1>5, <3>2, ActiveAside DEF UserInvariant
  <2>2. CASE job[t].mode # "retry"
    <3>0. Concerned(job[t]) /\ On(t, {"stage"})
      BY <1>3, <1>5, <2>2 DEF Concerned
    <3>1. job[t].settled /\ {job[t].settled, job[t].retry, job[t].again} \subseteq BOOLEAN /\ ~job[t].retry /\ ~job[t].again
      BY <1>3, <3>0, ConcernedFits DEF ClaimFits
    <3>2. job'[t].settled = job[t].settled /\ job'[t].retry = job[t].retry /\ job'[t].again = job[t].again
      BY <3>0, KeptFields DEF On
    <3>3. {job'[t].settled, job'[t].retry, job'[t].again} \subseteq BOOLEAN
      BY <3>1, <3>2
    <3>4. {"stage"} \in SUBSET {"stage", "got", "settled", "retry", "again"} /\ job[t].stage # "retake"
      BY <1>3
    <3>5. job'[t].stage \in {"delete", "unlink"} /\ job'[t].settled /\ ~job'[t].retry /\ ~job'[t].again
      BY <1>5, <3>1, <3>2
    <3> QED BY <1>1, <1>2, <3>0, <3>3, <3>4, <3>5, SettlesKeepsActive
  <2> QED BY <2>1, <2>2
<1> QED BY <1>4, <1>5, DeleteBeginFacts, UnlinkFacts

LEMMA ReleaseKeepsActive ==
  ASSUME UserInvariant, ActiveOK, NEW t \in Claims!Threads, Claims!Release(t)
  PROVE  ActiveOK'
<1>1. UNCHANGED Claims!disk
  BY DEF Claims!Release
<1>2. FileStep /\ name' = name /\ written' = written
  BY <1>1, SameDisk DEF UserInvariant, Claims!disk
<1>3. /\ job[t].stage = "release" /\ Concerned(job[t]) /\ active' = active \ {job[t].path}
  BY ReleaseFacts
<1>4. Holds(job[t]) /\ ClaimFits(job[t]) /\ name[job[t].decoded] = job[t].path /\ (job[t].mode = "backlog" => t = "backlog")
  BY <1>3, ConcernedFits DEF Holds, ActiveOK, ClaimOK
<1>5. OneJob(t) /\ ~Holds(job'[t]) /\ ClaimOK(t)'
  <2>1. CASE On(t, {"stage"}) /\ job'[t].stage = "retake"
    <3>1. /\ OneJob(t) /\ job'[t].path = job[t].path /\ job'[t].mode = job[t].mode /\ job'[t].seen = job[t].seen
          /\ job'[t].decoded = job[t].decoded /\ job'[t].settled = job[t].settled
          /\ job'[t].retry = job[t].retry /\ job'[t].again = job[t].again
      BY <2>1, KeptFields DEF On
    <3>2. ClaimFits(job[t])'
      BY <1>2, <1>3, <1>4, <2>1, <3>1 DEF ClaimFits, Working
    <3>3. ~Holds(job'[t])
      BY <2>1 DEF Holds
    <3>4. ~Holds(job[t])'
      BY <2>1 DEF Holds
    <3>5. ClaimOK(t)'
      BY <1>2, <1>4, <3>1, <3>2, <3>4 DEF ClaimOK
    <3> QED BY <3>1, <3>3, <3>5
  <2>2. CASE OneJob(t) /\ job'[t] = Claims!Idle
    BY <2>2 DEF Holds, Concerned, ClaimOK, Claims!Idle
  <2> QED BY <2>1, <2>2, ReleaseFacts
<1>6. PICK gone : gone = {job[t].path}
  OBVIOUS
<1>7. PICK come : come = {}
  OBVIOUS
<1>8. /\ gone = IF Holds(job[t]) THEN {job[t].path} ELSE {}
      /\ come = IF Holds(job'[t]) THEN {job'[t].path} ELSE {}
  BY <1>4, <1>5, <1>6, <1>7
<1>9. active' = (active \ gone) \cup come /\ come \cap (active \ gone) = {}
  BY <1>3, <1>6, <1>7
<1> QED BY <1>2, <1>5, <1>8, <1>9, ActiveChange DEF UserInvariant

LEMMA IdleHoldsNothing ==
  ASSUME NEW t, job[t] = Claims!Idle
  PROVE  ~Holds(job[t])
BY DEF Holds, Concerned

\* A thread takes a path on: woken by an event or a timer, by the scan, by the
\* supervisor, or for the second time.
Picks(t, p, mode) ==
  /\ ~Holds(job[t]) /\ (mode = "backlog" => t = "backlog") /\ UNCHANGED Claims!disk
  /\ TakesOn(t, p, mode) /\ mode \in {"live", "backlog", "sweep"} /\ p \in Claims!Paths

LEMMA PicksKeepsActive ==
  ASSUME UserInvariant, ChronicleOK, ActiveOK, NEW t \in Claims!Threads, NEW p, NEW mode, Picks(t, p, mode)
  PROVE  ActiveOK'
<1>1. FileStep /\ UNCHANGED file
  BY SameDisk DEF UserInvariant, Picks, Claims!disk
<1> QED BY <1>1, ActiveTakes DEF Picks

LEMMA EventPicks ==
  ASSUME UserInvariant, Claims!Event
  PROVE  \E p \in events : events' = events \ {p} /\ Picks("observer", p, "live")
<1>1. PICK p \in events : events' = events \ {p} /\ Claims!Take("observer", p, "live", 1, FALSE)
  BY DEF Claims!Event
<1>2. p \in Claims!Paths /\ "observer" \in Claims!Threads
  BY DEF UserInvariant, WakeupsOK, Claims!Threads
<1>3. TakesOn("observer", p, "live")
  BY <1>1, <1>2, TakeTakesOn
<1>4. UNCHANGED Claims!disk /\ ~Holds(job["observer"])
  BY IdleHoldsNothing DEF Claims!Event
<1> QED BY <1>1, <1>2, <1>3, <1>4 DEF Picks

LEMMA GenerationRetryPicks ==
  ASSUME UserInvariant, Claims!GenerationRetry
  PROVE  \E p \in genTimers : genTimers' = genTimers \ {p} /\ Picks("timer", p, "live")
<1>1. PICK p \in genTimers : genTimers' = genTimers \ {p} /\ Claims!Take("timer", p, "live", 1, FALSE)
  BY DEF Claims!GenerationRetry
<1>2. p \in Claims!Paths /\ "timer" \in Claims!Threads
  BY DEF UserInvariant, WakeupsOK, Claims!Threads
<1>3. TakesOn("timer", p, "live")
  BY <1>1, <1>2, TakeTakesOn
<1>4. UNCHANGED Claims!disk /\ ~Holds(job["timer"])
  BY IdleHoldsNothing DEF Claims!GenerationRetry
<1> QED BY <1>1, <1>2, <1>3, <1>4 DEF Picks

LEMMA RetakePicks ==
  ASSUME UserInvariant, NEW t \in Claims!Threads, Claims!Retake(t)
  PROVE  /\ job[t].stage = "retake" /\ Concerned(job[t]) /\ Picks(t, job[t].path, "live")
<1>1. /\ job[t].stage = "retake" /\ UNCHANGED Claims!disk
      /\ \E attempt, final : Claims!Take(t, job[t].path, "live", attempt, final)
  BY DEF Claims!Retake, Claims!Path
<1>2. Concerned(job[t]) /\ job[t].path \in Claims!Paths
  BY <1>1, ConcernedByStage
<1>3. TakesOn(t, job[t].path, "live")
  BY <1>1, TakeTakesOn
<1>4. ~Holds(job[t])
  BY <1>1 DEF Holds
<1> QED BY <1>1, <1>2, <1>3, <1>4 DEF Picks

LEMMA SweepPicks ==
  ASSUME UserInvariant, NEW p \in Claims!Paths, Claims!Sweep(p)
  PROVE  Picks("supervisor", p, "sweep")
<1>1. "supervisor" \in Claims!Threads
  BY DEF Claims!Threads
<1>2. TakesOn("supervisor", p, "sweep")
  BY <1>1, TakeTakesOn DEF Claims!Sweep
<1>3. UNCHANGED Claims!disk /\ ~Holds(job["supervisor"])
  BY IdleHoldsNothing DEF Claims!Sweep
<1> QED BY <1>2, <1>3 DEF Picks

LEMMA ScanNextPicks ==
  ASSUME UserInvariant, Claims!ScanNext
  PROVE  /\ scan.on /\ job["backlog"] = Claims!Idle
         /\ \E e \in scan.todo :
              /\ \A f \in scan.todo : f.generation <= e.generation
              /\ scan' = [scan EXCEPT !.todo = @ \ {e}, !.recent = e.generation \notin scan.old]
              /\ \/ file[e.path] \in manual /\ UNCHANGED <<job, active>>
                 \/ Picks("backlog", e.path, "backlog")
<1> DEFINE listed == Claims!NewestOf(scan.todo)
<1>1. /\ UNCHANGED Claims!disk /\ scan.todo # {} /\ scan.on /\ job["backlog"] = Claims!Idle
      /\ scan' = [scan EXCEPT !.todo = @ \ {listed}, !.recent = listed.generation \notin scan.old]
      /\ \/ file[listed.path] \in manual /\ UNCHANGED <<job, active>>
         \/ Claims!Take("backlog", listed.path, "backlog", 1, FALSE)
  BY Zenon DEF Claims!ScanNext
<1>2. listed \in scan.todo /\ \A f \in scan.todo : f.generation <= listed.generation
  BY <1>1, NewestListed
<1> HIDE DEF listed
<1>3. CASE Claims!Take("backlog", listed.path, "backlog", 1, FALSE)
  <2>1. listed.path \in Claims!Paths /\ "backlog" \in Claims!Threads
    BY <1>2 DEF UserInvariant, WakeupsOK, Claims!Threads
  <2>2. TakesOn("backlog", listed.path, "backlog")
    BY <1>3, <2>1, TakeTakesOn
  <2>3. ~Holds(job["backlog"])
    BY <1>1, IdleHoldsNothing
  <2>4. Picks("backlog", listed.path, "backlog")
    BY <1>1, <2>1, <2>2, <2>3 DEF Picks
  <2> QED BY <1>1, <1>2, <2>4
<1> QED BY <1>1, <1>2, <1>3

LEMMA IncompleteRetryFacts ==
  ASSUME UserInvariant, Claims!IncompleteRetry
  PROVE  /\ job["timer"] = Claims!Idle
         /\ \E p \in Claims!Paths :
              /\ incTimers[p] # Claims!Missing /\ incTimers' = [incTimers EXCEPT ![p] = Claims!Missing]
              /\ \/ file[p] # incTimers[p] /\ UNCHANGED <<job, active, recent>>
                 \/ /\ file[p] = incTimers[p] /\ recent' = recent \ {file[p]}
                    /\ \/ UNCHANGED <<job, active>>
                       \/ /\ p \notin active /\ active' = active \cup {p} /\ OneJob("timer")
                          /\ Fresh(job'["timer"], p, "live")
<1>1. PICK p \in Claims!Paths :
        /\ incTimers[p] # Claims!Missing /\ incTimers' = [incTimers EXCEPT ![p] = Claims!Missing]
        /\ IF file[p] # incTimers[p] THEN UNCHANGED <<job, Claims!claims>>
           ELSE /\ recent' = recent \ {file[p]}
                /\ IF p \in active THEN UNCHANGED <<job, active>>
                   ELSE /\ active' = active \cup {p}
                        /\ job' = [job EXCEPT !["timer"] = Claims!Job(p, "live", 1, TRUE)]
  BY DEF Claims!IncompleteRetry
<1>2. job["timer"] = Claims!Idle
  BY DEF Claims!IncompleteRetry
<1>3. CASE file[p] # incTimers[p]
  BY <1>1, <1>2, <1>3 DEF Claims!claims
<1>4. CASE file[p] = incTimers[p] /\ p \in active
  BY <1>1, <1>2, <1>4
<1>5. CASE file[p] = incTimers[p] /\ p \notin active
  <2>1. PICK j : j = Claims!Job(p, "live", 1, TRUE)
    OBVIOUS
  <2>2. Fresh(j, p, "live")
    BY <2>1, JobIsFresh
  <2>3. job' = [job EXCEPT !["timer"] = j] /\ active' = active \cup {p} /\ recent' = recent \ {file[p]}
    BY <1>1, <1>5, <2>1
  <2>4. DOMAIN job = Claims!Threads /\ "timer" \in Claims!Threads
    BY DEF UserInvariant, JobsOK, Claims!Threads
  <2>5. OneJob("timer") /\ job'["timer"] = j
    BY <2>3, <2>4 DEF OneJob
  <2> QED BY <1>1, <1>2, <1>5, <2>2, <2>3, <2>5
<1> QED BY <1>3, <1>4, <1>5

LEMMA IncompleteRetryKeepsActive ==
  ASSUME UserInvariant, ChronicleOK, ActiveOK, Claims!IncompleteRetry
  PROVE  ActiveOK'
<1>1. UNCHANGED Claims!disk
  BY DEF Claims!IncompleteRetry
<1>2. FileStep
  BY <1>1, SameDisk DEF UserInvariant
<1>3. PICK p \in Claims!Paths :
        /\ incTimers[p] # Claims!Missing
        /\ \/ UNCHANGED <<job, active>>
           \/ /\ file[p] = incTimers[p] /\ p \notin active /\ active' = active \cup {p} /\ OneJob("timer")
              /\ Fresh(job'["timer"], p, "live")
  BY IncompleteRetryFacts
<1>4. CASE UNCHANGED <<job, active>>
  BY <1>2, <1>4, ActiveSame DEF UserInvariant
<1>5. CASE /\ file[p] = incTimers[p] /\ p \notin active /\ active' = active \cup {p} /\ OneJob("timer")
           /\ Fresh(job'["timer"], p, "live")
  <2>1. "timer" \in Claims!Threads /\ ~Holds(job["timer"])
    BY IncompleteRetryFacts, IdleHoldsNothing DEF Claims!Threads
  <2> QED BY <1>2, <1>3, <1>5, <2>1, ActiveClaims
<1> QED BY <1>3, <1>4, <1>5

LEMMA RetryRemovalFacts ==
  ASSUME UserInvariant, NEW p \in Claims!Paths, Claims!RetryRemoval(p)
  PROVE  /\ job["supervisor"] = Claims!Idle /\ pending[p] # Claims!None
         /\ OneJob("supervisor") /\ job'["supervisor"] # Claims!Idle
         /\ job'["supervisor"].mode = "retry" /\ job'["supervisor"].path = p
         /\ job'["supervisor"].stage = "delete"
         /\ job'["supervisor"].decoded = pending[p].generation
<1> DEFINE j == [stage |-> "delete", mode |-> "retry", path |-> p,
                 decoded |-> pending[p].generation, tries |-> pending[p].tries]
<1>1. job["supervisor"] = Claims!Idle /\ pending[p] # Claims!None /\ job' = [job EXCEPT !["supervisor"] = j]
  BY DEF Claims!RetryRemoval
<1>2. "supervisor" \in Claims!Threads /\ DOMAIN job = Claims!Threads
  BY DEF Claims!Threads, UserInvariant, JobsOK
<1>3. OneJob("supervisor") /\ job'["supervisor"] = j
  BY <1>1, <1>2 DEF OneJob
<1>4. /\ j.stage = "delete" /\ j.mode = "retry" /\ j.path = p /\ j.decoded = pending[p].generation
  OBVIOUS
<1> HIDE DEF j
<1>5. j # Claims!Idle
  BY <1>4 DEF Claims!Idle
<1> QED BY <1>1, <1>3, <1>4, <1>5

LEMMA RetryRemovalKeepsActive ==
  ASSUME UserInvariant, ActiveOK, MarksOK, NEW p \in Claims!Paths, Claims!RetryRemoval(p)
  PROVE  ActiveOK'
<1>1. UNCHANGED <<Claims!disk, active>>
  BY DEF Claims!RetryRemoval, Claims!claims
<1>2. FileStep /\ name' = name
  BY <1>1, SameDisk DEF UserInvariant, Claims!disk
<1>3. name[pending[p].generation] = p
  BY RetryRemovalFacts DEF MarksOK
<1>4. "supervisor" \in Claims!Threads /\ OneJob("supervisor")
  BY RetryRemovalFacts DEF Claims!Threads
<1>5. ~Holds(job["supervisor"]) /\ ~Holds(job'["supervisor"])
  BY RetryRemovalFacts DEF Holds, Concerned
<1>6. ClaimOK("supervisor")'
  BY <1>2, <1>3, RetryRemovalFacts DEF ClaimOK, Holds, Concerned
<1> QED BY <1>1, <1>2, <1>4, <1>5, <1>6, ActiveAside DEF UserInvariant

LEMMA RestartKeepsActive ==
  ASSUME Claims!Restart
  PROVE  ActiveOK'
<1>1. active' = {} /\ job' = [t \in Claims!Threads |-> Claims!Idle]
  BY DEF Claims!Restart
<1>2. \A t \in Claims!Threads : job'[t] = Claims!Idle
  BY <1>1
<1>3. \A t \in Claims!Threads : ClaimOK(t)' /\ ~Holds(job[t])'
  BY <1>2 DEF ClaimOK, Holds, Concerned, Claims!Idle
<1> QED BY <1>1, <1>3 DEF ActiveOK

LEMMA NextIsFileStep ==
  ASSUME UserInvariant, ChronicleOK, [Claims!Next]_ClaimsVars
  PROVE  FileStep /\ ChronicleOK'
<1>1. CASE Claims!Restart
  <2>1. UNCHANGED <<written, kind, name, file>>
    BY <1>1 DEF Claims!Restart
  <2>2. FileStep
    BY <2>1 DEF FileStep, UserInvariant, FilesOK
  <2> QED BY <1>1, <2>2, RestartKeepsChronicle
<1>2. CASE ~Claims!Restart
  BY <1>2, StepIsOnward DEF Onward
<1> QED BY <1>1, <1>2

LEMMA NextKeepsActive ==
  ASSUME UserInvariant, ChronicleOK, ActiveOK, MarksOK, [Claims!Next]_ClaimsVars
  PROVE  ActiveOK'
<1>1. ASSUME NEW t \in Claims!Threads, Claims!ThreadStep(t) PROVE ActiveOK'
  BY <1>1, LookLiveKeepsActive, DecidesKeepsActive, FinalizesKeepsActive, DeletesKeepsActive,
     ReleaseKeepsActive, RetakePicks, PicksKeepsActive DEF Claims!ThreadStep
<1>2. CASE Claims!Event \/ Claims!GenerationRetry
  <2>1. "observer" \in Claims!Threads /\ "timer" \in Claims!Threads
    BY DEF Claims!Threads
  <2>2. CASE Claims!Event
    BY <2>1, <2>2, EventPicks, PicksKeepsActive
  <2>3. CASE Claims!GenerationRetry
    BY <2>1, <2>3, GenerationRetryPicks, PicksKeepsActive
  <2> QED BY <1>2, <2>2, <2>3
<1>3. CASE Claims!IncompleteRetry
  BY <1>3, IncompleteRetryKeepsActive
<1>4. CASE Claims!ScanNext
  <2>1. "backlog" \in Claims!Threads
    BY DEF Claims!Threads
  <2>2. UNCHANGED Claims!disk
    BY <1>4 DEF Claims!ScanNext
  <2>3. CASE UNCHANGED <<job, active>>
    <3>1. FileStep
      BY <2>2, SameDisk DEF UserInvariant
    <3> QED BY <2>3, <3>1, ActiveSame DEF UserInvariant
  <2>4. ASSUME NEW p, Picks("backlog", p, "backlog") PROVE ActiveOK'
    BY <2>1, <2>4, PicksKeepsActive
  <2> QED BY <1>4, <2>3, <2>4, ScanNextPicks
<1>5. ASSUME NEW p \in Claims!Paths, Claims!RetryRemoval(p) \/ Claims!Sweep(p) PROVE ActiveOK'
  <2>1. CASE Claims!Sweep(p)
    <3>1. "supervisor" \in Claims!Threads
      BY DEF Claims!Threads
    <3> QED BY <2>1, <3>1, SweepPicks, PicksKeepsActive
  <2> QED BY <1>5, <2>1, RetryRemovalKeepsActive
<1>6. CASE Claims!Restart
  BY <1>6, RestartKeepsActive
<1>7. CASE \/ Claims!ScanBegin \/ Claims!ScanEnd \/ Claims!WriteScreenshot \/ Claims!Age
           \/ Claims!ObserverDies \/ Claims!EnsureRunning
           \/ \E p \in Claims!Paths : Claims!ForgetFailure(p)
           \/ \E g \in Claims!Generations : Claims!RecentExpires(g)
  <2>1. UNCHANGED <<job, active>>
    BY <1>7 DEF Claims!ScanBegin, Claims!ScanEnd, Claims!WriteScreenshot, Claims!Age, Claims!ObserverDies,
       Claims!EnsureRunning, Claims!ForgetFailure, Claims!RecentExpires, ClaimsVars, Claims!claims
  <2>2. FileStep
    BY NextIsFileStep
  <2> QED BY <2>1, <2>2, ActiveSame DEF UserInvariant
<1>8. CASE UNCHANGED ClaimsVars
  <2>1. UNCHANGED <<job, active, Claims!disk>>
    BY <1>8 DEF ClaimsVars, Claims!disk
  <2>2. FileStep
    BY <2>1, SameDisk DEF UserInvariant
  <2> QED BY <2>1, <2>2, ActiveSame DEF UserInvariant
<1> QED BY <1>1, <1>2, <1>3, <1>4, <1>5, <1>6, <1>7, <1>8 DEF Claims!Next

-----------------------------------------------------------------------------
(* What the index, the claims and the queue hold are names of generations. *)

LEMMA AnsweredMarks ==
  ASSUME UserInvariant, NEW t \in Claims!Threads, Answered(t), manual \subseteq 1..written, saved.manual \subseteq 1..written
  PROVE  manual' \subseteq 1..written /\ saved'.manual \subseteq 1..written
<1>1. job[t].decoded \in 1..written
  BY ConcernedByStage DEF Answered
<1>2. manual' \subseteq 1..written
  BY <1>1 DEF Answered
<1>3. saved' = saved \/ saved'.manual = manual'
  BY DEF Answered
<1> QED BY <1>2, <1>3

LEMMA WorkedIsNamed ==
  ASSUME UserInvariant, ActiveOK, NEW t \in Claims!Threads, Concerned(job[t])
  PROVE  Claims!Worked(t) \subseteq 1..written
<1>1. /\ \A s \in job[t].seen : s \in 1..written
      /\ job[t].decoded \in 1..written /\ job[t].path \in Claims!Paths
  BY ConcernedFits DEF ClaimFits
<1>2. file[job[t].path] # Claims!Missing => file[job[t].path] \in 1..written
  BY <1>1 DEF UserInvariant, FilesOK, Claims!Missing
<1> QED BY <1>1, <1>2 DEF Claims!Worked, Claims!Now, Claims!Path

LEMMA RecentIsNamed ==
  ASSUME UserInvariant, ActiveOK, recent \subseteq 1..written, [Claims!Next]_ClaimsVars
  PROVE  recent' \subseteq 1..written
<1>1. ASSUME NEW t \in Claims!Threads, Claims!Release(t) PROVE recent' \subseteq 1..written
  <2>1. recent' \subseteq recent \cup Claims!Worked(t) /\ Concerned(job[t])
    BY <1>1, ReleaseFacts
  <2> QED BY <2>1, WorkedIsNamed
<1>2. ASSUME NEW t \in Claims!Threads, Claims!ThreadStep(t), ~Claims!Release(t) PROVE recent' = recent
  BY <1>2 DEF Claims!ThreadStep, Claims!LookLive, Claims!LookBacklog, Claims!Decode, Claims!FinalizeChanged,
     Claims!FinalizeLive, Claims!FinalizeBacklog, Claims!FinalizeSweep, Claims!DeleteBegin, Claims!Unlink,
     Claims!Retake, Claims!claims
<1>3. CASE \/ Claims!Event \/ Claims!GenerationRetry \/ Claims!IncompleteRetry \/ Claims!ScanBegin
           \/ Claims!ScanNext \/ Claims!ScanEnd \/ Claims!WriteScreenshot
           \/ \E p \in Claims!Paths : Claims!ForgetFailure(p) \/ Claims!RetryRemoval(p) \/ Claims!Sweep(p)
           \/ Claims!ObserverDies \/ Claims!EnsureRunning \/ Claims!Age
           \/ \E g \in Claims!Generations : Claims!RecentExpires(g)
           \/ Claims!Restart \/ UNCHANGED ClaimsVars
  <2>1. recent' \subseteq recent
    BY <1>3 DEF Claims!Event, Claims!GenerationRetry, Claims!IncompleteRetry, Claims!ScanBegin,
       Claims!ScanNext, Claims!ScanEnd, Claims!WriteScreenshot, Claims!ForgetFailure, Claims!RetryRemoval,
       Claims!Sweep, Claims!ObserverDies, Claims!EnsureRunning, Claims!Age, Claims!RecentExpires,
       Claims!Restart, Claims!claims, ClaimsVars
  <2> QED BY <2>1
<1> QED BY <1>1, <1>2, <1>3 DEF Claims!Next

LEMMA IndexIsNamed ==
  ASSUME UserInvariant, MarksOK, [Claims!Next]_ClaimsVars
  PROVE  manual' \subseteq 1..written /\ saved'.manual \subseteq 1..written
<1>0. manual \subseteq 1..written /\ saved.manual \subseteq 1..written
  BY DEF MarksOK
<1>1. ASSUME NEW t \in Claims!Threads, Claims!FinalizeLive(t) \/ Claims!FinalizeBacklog(t) \/ Claims!FinalizeSweep(t)
      PROVE  manual' \subseteq 1..written /\ saved'.manual \subseteq 1..written
  <2>1. Answered(t)
    BY <1>1, FinalizeLiveFacts, FinalizeBacklogFacts, FinalizeSweepFacts
  <2> QED BY <1>0, <2>1, AnsweredMarks
<1>2. ASSUME NEW t \in Claims!Threads,
             \/ Claims!LookLive(t) \/ Claims!LookBacklog(t) \/ Claims!Decode(t) \/ Claims!FinalizeChanged(t)
             \/ Claims!DeleteBegin(t) \/ Claims!Unlink(t) \/ Claims!Release(t) \/ Claims!Retake(t)
      PROVE  UNCHANGED <<manual, saved>>
  BY <1>2 DEF Claims!LookLive, Claims!LookBacklog, Claims!Decode, Claims!FinalizeChanged,
     Claims!DeleteBegin, Claims!Unlink, Claims!Release, Claims!Retake, Claims!index, Claims!indexMemory
<1>3. CASE Claims!ScanBegin
  BY <1>0, <1>3 DEF Claims!ScanBegin
<1>4. CASE Claims!ScanEnd
  <2>1. manual' = manual /\ saved' = [manual |-> manual, deferred |-> deferred, cursor |-> cursor]
    BY <1>4 DEF Claims!ScanEnd, Claims!indexMemory
  <2>2. saved'.manual = manual
    BY <2>1
  <2> QED BY <1>0, <2>1, <2>2
<1>5. CASE Claims!Restart
  BY <1>0, <1>5 DEF Claims!Restart
<1>6. CASE \/ Claims!Event \/ Claims!GenerationRetry \/ Claims!IncompleteRetry
           \/ Claims!ScanNext \/ Claims!WriteScreenshot
           \/ \E p \in Claims!Paths : Claims!ForgetFailure(p) \/ Claims!RetryRemoval(p) \/ Claims!Sweep(p)
           \/ Claims!ObserverDies \/ Claims!EnsureRunning \/ Claims!Age
           \/ \E g \in Claims!Generations : Claims!RecentExpires(g)
           \/ UNCHANGED ClaimsVars
  <2>1. UNCHANGED <<manual, saved>>
    BY <1>6 DEF Claims!Event, Claims!GenerationRetry, Claims!IncompleteRetry,
       Claims!ScanNext, Claims!WriteScreenshot, Claims!ForgetFailure, Claims!RetryRemoval,
       Claims!Sweep, Claims!ObserverDies, Claims!EnsureRunning, Claims!Age, Claims!RecentExpires,
       Claims!index, Claims!indexMemory, ClaimsVars
  <2> QED BY <1>0, <2>1
<1> QED BY <1>0, <1>1, <1>2, <1>3, <1>4, <1>5, <1>6 DEF Claims!Next, Claims!ThreadStep

\* A removal is queued for what a thread was about to remove, and dropped.
LEMMA PendingChanges ==
  ASSUME UserInvariant, [Claims!Next]_ClaimsVars, NEW p \in Claims!Paths
  PROVE  \/ pending'[p] = pending[p] \/ pending'[p] = Claims!None
         \/ \E t \in Claims!Threads :
               /\ Claims!Unlink(t) /\ p = job[t].path /\ pending'[p].generation = job[t].decoded
               /\ job[t] # Claims!Idle /\ job[t].stage = "unlink"
<1>1. ASSUME NEW t \in Claims!Threads, Claims!Unlink(t)
      PROVE  \/ pending'[p] = pending[p] \/ pending'[p] = Claims!None
             \/ /\ p = job[t].path /\ pending'[p].generation = job[t].decoded
                /\ job[t] # Claims!Idle /\ job[t].stage = "unlink"
  BY <1>1, UnlinkFacts
<1>2. ASSUME NEW t \in Claims!Threads, Claims!DeleteBegin(t)
      PROVE  pending'[p] = pending[p] \/ pending'[p] = Claims!None
  BY <1>2, DeleteBeginFacts
<1>3. ASSUME NEW t \in Claims!Threads,
             \/ Claims!LookLive(t) \/ Claims!LookBacklog(t) \/ Claims!Decode(t) \/ Claims!FinalizeChanged(t)
             \/ Claims!FinalizeLive(t) \/ Claims!FinalizeBacklog(t) \/ Claims!FinalizeSweep(t)
             \/ Claims!Release(t) \/ Claims!Retake(t)
      PROVE  pending' = pending
  BY <1>3 DEF Claims!LookLive, Claims!LookBacklog, Claims!Decode, Claims!FinalizeChanged,
     Claims!FinalizeLive, Claims!FinalizeBacklog, Claims!FinalizeSweep, Claims!Release, Claims!Retake, Claims!cleanup
<1>4. CASE Claims!Restart
  BY <1>4 DEF Claims!Restart
<1>5. CASE \/ Claims!Event \/ Claims!GenerationRetry \/ Claims!IncompleteRetry \/ Claims!ScanBegin
           \/ Claims!ScanNext \/ Claims!ScanEnd \/ Claims!WriteScreenshot
           \/ \E q \in Claims!Paths : Claims!ForgetFailure(q) \/ Claims!RetryRemoval(q) \/ Claims!Sweep(q)
           \/ Claims!ObserverDies \/ Claims!EnsureRunning \/ Claims!Age
           \/ \E g \in Claims!Generations : Claims!RecentExpires(g)
           \/ UNCHANGED ClaimsVars
  <2>1. pending' = pending
    BY <1>5 DEF Claims!Event, Claims!GenerationRetry, Claims!IncompleteRetry, Claims!ScanBegin,
       Claims!ScanNext, Claims!ScanEnd, Claims!WriteScreenshot, Claims!ForgetFailure, Claims!RetryRemoval,
       Claims!Sweep, Claims!ObserverDies, Claims!EnsureRunning, Claims!Age, Claims!RecentExpires,
       Claims!cleanup, ClaimsVars
  <2> QED BY <2>1
<1> QED BY <1>1, <1>2, <1>3, <1>4, <1>5 DEF Claims!Next, Claims!ThreadStep

LEMMA NextKeepsMarks ==
  ASSUME UserInvariant, ChronicleOK, ActiveOK, MarksOK, [Claims!Next]_ClaimsVars
  PROVE  MarksOK'
<1>1. FileStep
  BY NextIsFileStep
<1>2. name' = name /\ 1..written \subseteq 1..written'
  BY <1>1 DEF FileStep, UserInvariant, FilesOK
<1>3. recent' \subseteq 1..written' /\ manual' \subseteq 1..written' /\ saved'.manual \subseteq 1..written'
  BY <1>2, RecentIsNamed, IndexIsNamed DEF MarksOK
<1>4. ASSUME NEW p \in Claims!Paths, pending'[p] # Claims!None PROVE name[pending'[p].generation] = p
  <2>1. CASE pending'[p] = pending[p]
    BY <1>4, <2>1 DEF MarksOK
  <2>2. CASE \E t \in Claims!Threads :
               p = job[t].path /\ pending'[p].generation = job[t].decoded /\ job[t] # Claims!Idle
    BY <2>2 DEF ActiveOK, ClaimOK
  <2> QED BY <1>4, <2>1, <2>2, PendingChanges
<1>5. \A p \in Claims!Paths : pending'[p] # Claims!None' => name'[pending'[p].generation] = p
  BY <1>2, <1>4 DEF Claims!None, Claims!Missing
<1> QED BY <1>3, <1>5 DEF MarksOK

-----------------------------------------------------------------------------
(* Which steps change what. *)

LEMMA RemovedChanges ==
  ASSUME UserInvariant, [Claims!Next]_ClaimsVars
  PROVE  \/ removed' = removed
         \/ \E t \in Claims!Threads :
               /\ removed' = removed \cup {job[t].decoded} /\ job[t].stage = "unlink"
               /\ job[t] # Claims!Idle
<1>1. ASSUME NEW t \in Claims!Threads, Claims!Unlink(t)
      PROVE  \/ removed' = removed
             \/ /\ removed' = removed \cup {job[t].decoded} /\ job[t].stage = "unlink"
                /\ job[t] # Claims!Idle
  BY <1>1, UnlinkFacts
<1>2. ASSUME NEW t \in Claims!Threads, Claims!ThreadStep(t) PROVE Claims!Unlink(t) \/ removed' = removed
  BY <1>2 DEF Claims!ThreadStep, Claims!LookLive, Claims!LookBacklog, Claims!Decode, Claims!FinalizeChanged,
     Claims!FinalizeLive, Claims!FinalizeBacklog, Claims!FinalizeSweep, Claims!DeleteBegin, Claims!Release,
     Claims!Retake, Claims!history
<1>3. CASE \/ Claims!Event \/ Claims!GenerationRetry \/ Claims!IncompleteRetry \/ Claims!ScanBegin
           \/ Claims!ScanNext \/ Claims!ScanEnd \/ Claims!WriteScreenshot
           \/ \E p \in Claims!Paths : Claims!ForgetFailure(p) \/ Claims!RetryRemoval(p) \/ Claims!Sweep(p)
           \/ Claims!ObserverDies \/ Claims!EnsureRunning \/ Claims!Age
           \/ \E g \in Claims!Generations : Claims!RecentExpires(g)
           \/ Claims!Restart \/ UNCHANGED ClaimsVars
  BY <1>3 DEF Claims!Event, Claims!GenerationRetry, Claims!IncompleteRetry, Claims!ScanBegin,
       Claims!ScanNext, Claims!ScanEnd, Claims!WriteScreenshot, Claims!ForgetFailure, Claims!RetryRemoval,
       Claims!Sweep, Claims!ObserverDies, Claims!EnsureRunning, Claims!Age, Claims!RecentExpires,
       Claims!Restart, Claims!history, ClaimsVars
<1> QED BY <1>1, <1>2, <1>3 DEF Claims!Next

LEMMA FrontierChanges ==
  ASSUME [Claims!Next]_ClaimsVars
  PROVE  \/ UNCHANGED <<frontier, published, reported>>
         \/ \E t \in Claims!Threads : Claims!FinalizeLive(t) \/ Claims!FinalizeBacklog(t)
         \/ Claims!Restart /\ frontier' = 0 /\ UNCHANGED <<published, reported>>
<1>1. ASSUME NEW t \in Claims!Threads, Claims!ThreadStep(t)
      PROVE  Claims!FinalizeLive(t) \/ Claims!FinalizeBacklog(t) \/ UNCHANGED <<frontier, published, reported>>
  BY <1>1 DEF Claims!ThreadStep, Claims!LookLive, Claims!LookBacklog, Claims!Decode, Claims!FinalizeChanged,
     Claims!FinalizeSweep, Claims!DeleteBegin, Claims!Unlink, Claims!Release, Claims!Retake, Claims!history
<1>2. CASE Claims!Restart
  BY <1>2 DEF Claims!Restart, Claims!history
<1>3. CASE \/ Claims!Event \/ Claims!GenerationRetry \/ Claims!IncompleteRetry \/ Claims!ScanBegin
           \/ Claims!ScanNext \/ Claims!ScanEnd \/ Claims!WriteScreenshot
           \/ \E p \in Claims!Paths : Claims!ForgetFailure(p) \/ Claims!RetryRemoval(p) \/ Claims!Sweep(p)
           \/ Claims!ObserverDies \/ Claims!EnsureRunning \/ Claims!Age
           \/ \E g \in Claims!Generations : Claims!RecentExpires(g)
           \/ UNCHANGED ClaimsVars
  BY <1>3 DEF Claims!Event, Claims!GenerationRetry, Claims!IncompleteRetry, Claims!ScanBegin,
       Claims!ScanNext, Claims!ScanEnd, Claims!WriteScreenshot, Claims!ForgetFailure, Claims!RetryRemoval,
       Claims!Sweep, Claims!ObserverDies, Claims!EnsureRunning, Claims!Age, Claims!RecentExpires,
       Claims!history, ClaimsVars
<1> QED BY <1>1, <1>2, <1>3 DEF Claims!Next

LEMMA ScanChanges ==
  ASSUME [Claims!Next]_ClaimsVars
  PROVE  \/ UNCHANGED scan
         \/ \E t \in Claims!Threads : Claims!LookBacklog(t) \/ Claims!FinalizeBacklog(t)
         \/ Claims!ScanBegin \/ Claims!ScanNext
         \/ (Claims!ScanEnd \/ Claims!Restart) /\ scan' = Claims!NoScan
<1>1. ASSUME NEW t \in Claims!Threads, Claims!ThreadStep(t)
      PROVE  Claims!LookBacklog(t) \/ Claims!FinalizeBacklog(t) \/ UNCHANGED scan
  BY <1>1 DEF Claims!ThreadStep, Claims!LookLive, Claims!Decode, Claims!FinalizeChanged, Claims!FinalizeLive,
     Claims!FinalizeSweep, Claims!DeleteBegin, Claims!Unlink, Claims!Release, Claims!Retake
<1>2. CASE Claims!Restart \/ Claims!ScanEnd
  BY <1>2 DEF Claims!Restart, Claims!ScanEnd
<1>3. CASE \/ Claims!Event \/ Claims!GenerationRetry \/ Claims!IncompleteRetry \/ Claims!WriteScreenshot
           \/ \E p \in Claims!Paths : Claims!ForgetFailure(p) \/ Claims!RetryRemoval(p) \/ Claims!Sweep(p)
           \/ Claims!ObserverDies \/ Claims!EnsureRunning \/ Claims!Age
           \/ \E g \in Claims!Generations : Claims!RecentExpires(g)
           \/ UNCHANGED ClaimsVars
  BY <1>3 DEF Claims!Event, Claims!GenerationRetry, Claims!IncompleteRetry, Claims!WriteScreenshot,
       Claims!ForgetFailure, Claims!RetryRemoval,
       Claims!Sweep, Claims!ObserverDies, Claims!EnsureRunning, Claims!Age, Claims!RecentExpires, ClaimsVars
<1> QED BY <1>1, <1>2, <1>3 DEF Claims!Next

LEMMA ThreadStepIsItsOwn ==
  ASSUME UserInvariant, NEW t \in Claims!Threads, Claims!ThreadStep(t)
  PROVE  OneJob(t)
<1>1. CASE \/ Claims!LookLive(t) \/ Claims!LookBacklog(t) \/ Claims!Decode(t) \/ Claims!FinalizeChanged(t)
           \/ Claims!FinalizeLive(t) \/ Claims!FinalizeBacklog(t) \/ Claims!FinalizeSweep(t)
  BY <1>1, LookLiveFacts, LookBacklogFacts, DecodeFacts, FinalizeChangedFacts, FinalizeLiveFacts,
     FinalizeBacklogFacts, FinalizeSweepFacts DEF On, KeepsBut
<1>2. CASE Claims!DeleteBegin(t) \/ Claims!Unlink(t) \/ Claims!Release(t)
  BY <1>2, DeleteBeginFacts, UnlinkFacts, ReleaseFacts DEF Ends, On, KeepsBut
<1>3. CASE Claims!Retake(t)
  BY <1>3, RetakePicks DEF Picks, TakesOn
<1> QED BY <1>1, <1>2, <1>3 DEF Claims!ThreadStep

\* What a thread does, it does by itself, or it takes on a path, or a removal.
Wakes(u) ==
  \/ (Claims!Event /\ u = "observer") \/ (Claims!GenerationRetry /\ u = "timer")
  \/ (Claims!IncompleteRetry /\ u = "timer") \/ (Claims!ScanNext /\ u = "backlog")
  \/ (u = "supervisor" /\ \E p \in Claims!Paths : Claims!RetryRemoval(p) \/ Claims!Sweep(p))
JobMoves(u) ==
  \/ job'[u] = job[u] \/ Claims!ThreadStep(u)
  \/ job[u] = Claims!Idle /\ job'[u] # Claims!Idle /\ Wakes(u)
  \/ Claims!Restart /\ job'[u] = Claims!Idle

LEMMA JobChanges ==
  ASSUME UserInvariant, [Claims!Next]_ClaimsVars, NEW u \in Claims!Threads
  PROVE  JobMoves(u)
<1>1. ASSUME NEW t \in Claims!Threads, Claims!ThreadStep(t)
      PROVE  job'[u] = job[u] \/ Claims!ThreadStep(u)
  <2>1. t # u => job'[u] = job[u]
    BY <1>1, ThreadStepIsItsOwn DEF OneJob
  <2> QED BY <1>1, <2>1
<1>2. ASSUME NEW t \in Claims!Threads, OneJob(t), job[t] = Claims!Idle
      PROVE  job'[u] = job[u] \/ (u = t /\ job[u] = Claims!Idle /\ job'[u] # Claims!Idle)
  BY <1>2 DEF OneJob
<1>3. {"observer", "timer", "backlog", "supervisor"} \subseteq Claims!Threads
  BY DEF Claims!Threads
<1>4. CASE Claims!Event
  <2>1. job["observer"] = Claims!Idle
    BY <1>4 DEF Claims!Event
  <2>2. OneJob("observer")
    BY <1>4, EventPicks DEF Picks, TakesOn
  <2> QED BY <1>2, <1>3, <1>4, <2>1, <2>2 DEF JobMoves, Wakes
<1>5. CASE Claims!GenerationRetry
  <2>1. job["timer"] = Claims!Idle
    BY <1>5 DEF Claims!GenerationRetry
  <2>2. OneJob("timer")
    BY <1>5, GenerationRetryPicks DEF Picks, TakesOn
  <2> QED BY <1>2, <1>3, <1>5, <2>1, <2>2 DEF JobMoves, Wakes
<1>6. CASE Claims!IncompleteRetry
  <2>1. job["timer"] = Claims!Idle /\ (UNCHANGED job \/ OneJob("timer"))
    BY <1>6, IncompleteRetryFacts
  <2> QED BY <1>2, <1>3, <1>6, <2>1 DEF JobMoves, Wakes
<1>7. CASE Claims!ScanNext
  <2>1. job["backlog"] = Claims!Idle /\ (UNCHANGED job \/ OneJob("backlog"))
    BY <1>7, ScanNextPicks DEF Picks, TakesOn
  <2> QED BY <1>2, <1>3, <1>7, <2>1 DEF JobMoves, Wakes
<1>8. ASSUME NEW p \in Claims!Paths, Claims!RetryRemoval(p)
      PROVE  job'[u] = job[u] \/ (u = "supervisor" /\ job[u] = Claims!Idle /\ job'[u] # Claims!Idle)
  <2>1. job["supervisor"] = Claims!Idle /\ OneJob("supervisor")
    BY <1>8, RetryRemovalFacts
  <2> QED BY <1>2, <1>3, <2>1
<1>9. ASSUME NEW p \in Claims!Paths, Claims!Sweep(p)
      PROVE  job'[u] = job[u] \/ (u = "supervisor" /\ job[u] = Claims!Idle /\ job'[u] # Claims!Idle)
  <2>1. job["supervisor"] = Claims!Idle
    BY <1>9 DEF Claims!Sweep
  <2>2. OneJob("supervisor")
    BY <1>9, SweepPicks DEF Picks, TakesOn
  <2> QED BY <1>2, <1>3, <2>1, <2>2
<1>10. CASE Claims!Restart
  BY <1>10 DEF Claims!Restart, JobMoves
<1>11. CASE \/ Claims!ScanBegin \/ Claims!ScanEnd \/ Claims!WriteScreenshot
           \/ Claims!ObserverDies \/ Claims!EnsureRunning \/ Claims!Age
           \/ \E g \in Claims!Generations : Claims!RecentExpires(g)
  <2>1. job' = job
    BY <1>11 DEF Claims!ScanBegin, Claims!ScanEnd, Claims!WriteScreenshot,
       Claims!ObserverDies, Claims!EnsureRunning, Claims!Age, Claims!RecentExpires
  <2> QED BY <2>1 DEF JobMoves
<1>12. CASE \E p \in Claims!Paths : Claims!ForgetFailure(p) \/ Claims!RetryRemoval(p) \/ Claims!Sweep(p)
  <2>0. ASSUME NEW p \in Claims!Paths, Claims!ForgetFailure(p) PROVE job' = job
    BY <2>0 DEF Claims!ForgetFailure
  <2>1. job'[u] = job[u] \/ (/\ u = "supervisor" /\ job[u] = Claims!Idle /\ job'[u] # Claims!Idle
                                 /\ \E p \in Claims!Paths : Claims!RetryRemoval(p) \/ Claims!Sweep(p))
    BY <1>8, <1>9, <1>12, <2>0
  <2> QED BY <2>1 DEF JobMoves, Wakes
<1>13. CASE \E t \in Claims!Threads : Claims!ThreadStep(t)
  <2>1. job'[u] = job[u] \/ Claims!ThreadStep(u)
    BY <1>1, <1>13
  <2> QED BY <2>1 DEF JobMoves
<1>14. CASE UNCHANGED ClaimsVars
  <2>1. job' = job
    BY <1>14 DEF ClaimsVars
  <2> QED BY <2>1 DEF JobMoves
<1>15. CASE Claims!Next
  BY <1>4, <1>5, <1>6, <1>7, <1>10, <1>11, <1>12, <1>13, <1>15 DEF Claims!Next
<1> QED BY <1>14, <1>15

-----------------------------------------------------------------------------
(* Nothing fresh is lost. *)

LEMMA RemovalStays ==
  ASSUME UserInvariant, ChronicleOK, ActiveOK, Onward, NEW u \in Claims!Threads, RemovalFits(job[u]),
         job'[u] = job[u]
  PROVE  RemovalFits(job[u])'
<1>1. PICK j : j = job[u]
  OBVIOUS
<1>2. FilesOK /\ (j # Claims!Idle => j.decoded \in 1..written /\ j.path \in Claims!Paths /\ name[j.decoded] = j.path)
  BY <1>1 DEF UserInvariant, JobsOK, JobOK, JobFits, ActiveOK, ClaimOK
<1>3. j.stage \in {"delete", "unlink"} \/ j.mode = "sweep" => j # Claims!Idle
  BY DEF Claims!Idle
<1>4. j.stage \in {"delete", "unlink"} => Passed(j.decoded)'
  <2>1. HAVE j.stage \in {"delete", "unlink"}
  <2>2. Passed(j.decoded) /\ j.decoded \in Nat
    BY <1>1, <1>2, <1>3, <2>1 DEF RemovalFits, FilesOK
  <2> QED BY <2>2, PassedStays
<1>5. j.mode = "sweep" => j.decoded \in old' /\ LastOf(j.path, j.decoded)' /\ ~j.again
  <2>1. HAVE j.mode = "sweep"
  <2>2. j.decoded \in old /\ LastOf(j.path, j.decoded) /\ ~j.again
    BY <1>1, <2>1 DEF RemovalFits
  <2>3. LastOf(j.path, j.decoded)'
    BY <1>2, <1>3, <2>1, <2>2, LastStays
  <2> QED BY <2>2, <2>3 DEF Onward
<1>6. job'[u] = j
  BY <1>1
<1> QED BY <1>4, <1>5, <1>6 DEF RemovalFits

\* A thread that is not sweeping, and has nothing to remove.
LEMMA NoRemoval ==
  ASSUME NEW u, job'[u].stage \notin {"delete", "unlink"}, job'[u].mode # "sweep"
  PROVE  RemovalFits(job[u])'
BY DEF RemovalFits

\* A thread goes on with what it is about; what it comes to remove was applied, or is too
\* old to be.
LEMMA RemovalGoesOn ==
  ASSUME UserInvariant, ActiveOK, Onward, NEW u \in Claims!Threads, Concerned(job[u]), RemovalFits(job[u]),
         NEW CONSTANT p, NEW CONSTANT d, p = job[u].path, d = job[u].decoded,
         job'[u].mode = job[u].mode, job'[u].path = p, job'[u].decoded = d,
         job'[u].mode = "sweep" => ~job'[u].again,
         job'[u].stage \in {"delete", "unlink"} => Passed(d)'
  PROVE  RemovalFits(job[u])'
<1>1. job'[u].mode = "sweep" => d \in old' /\ LastOf(p, d)'
  <2>1. HAVE job'[u].mode = "sweep"
  <2>2. d \in old /\ LastOf(p, d)
    BY <2>1 DEF RemovalFits
  <2>3. p \in Claims!Paths /\ d \in 1..written /\ name[d] = p
    BY ConcernedFits
  <2>4. LastOf(p, d)'
    BY <2>2, <2>3, LastStays DEF UserInvariant
  <2> QED BY <2>2, <2>4 DEF Onward
<1> QED BY <1>1 DEF RemovalFits

\* Behind what it applied or reported, and among the old, a scan finds nothing new.
LEMMA BacklogIsPassed ==
  ASSUME ActiveOK, LossOK, NEW t \in Claims!Threads, job[t].mode = "backlog", Working(job[t]),
         \/ ~scan.recent \/ job[t].decoded \in scan.old \/ scan.applied
  PROVE  Passed(job[t].decoded)
<1>1. t = "backlog" /\ job["backlog"] # Claims!Idle
  BY DEF ActiveOK, ClaimOK, Working, Claims!Idle
<1>2. scan.old \subseteq old
  BY <1>1 DEF LossOK, ScanOK
<1>3. scan.recent \/ job[t].decoded \in scan.old
  BY <1>1 DEF LossOK, BacklogFits
<1>4. scan.applied => Passed(job[t].decoded)
  BY <1>1 DEF LossOK, BacklogFits
<1>5. job[t].decoded \in old => Passed(job[t].decoded)
  BY DEF Due, Passed
<1> QED BY <1>2, <1>3, <1>4, <1>5

\* What the steps of a thread leave of the removal it is about.
LEMMA StepKeepsRemoval ==
  ASSUME UserInvariant, ChronicleOK, ActiveOK, LossOK, Onward, NEW t \in Claims!Threads,
         \/ Claims!LookLive(t) \/ Claims!LookBacklog(t) \/ Claims!Decode(t) \/ Claims!FinalizeChanged(t)
         \/ Claims!FinalizeLive(t) \/ Claims!FinalizeBacklog(t) \/ Claims!FinalizeSweep(t)
  PROVE  RemovalFits(job[t])'
<1>1. Concerned(job[t]) /\ Working(job[t])
  BY LookLiveFacts, LookBacklogFacts, DecodeFacts, FinalizeChangedFacts, FinalizeLiveFacts, FinalizeBacklogFacts,
     FinalizeSweepFacts DEF Answered, Working
<1>2. /\ ClaimFits(job[t]) /\ name[job[t].decoded] = job[t].path /\ job[t].path \in Claims!Paths
      /\ job[t].decoded \in 1..written /\ ~job[t].again
  BY <1>1, ConcernedFits DEF ClaimFits
<1>3. RemovalFits(job[t])
  BY DEF LossOK, RemovalsFit
<1>4. PICK p : p = job[t].path
  OBVIOUS
<1>5. PICK d : d = job[t].decoded
  OBVIOUS
<1>6. CASE Claims!LookLive(t)
  <2>1. CASE job[t].mode = "sweep" /\ job[t].decoded \notin old
    BY <1>3, <2>1 DEF RemovalFits
  <2>2. CASE On(t, {"stage"}) /\ job'[t].stage = "release"
    <3>1. job'[t].mode = job[t].mode /\ job'[t].path = p /\ job'[t].decoded = d /\ job'[t].again = job[t].again
      BY <1>4, <1>5, <2>2, KeptFields DEF On
    <3> QED BY <1>1, <1>2, <1>3, <1>4, <1>5, <2>2, <3>1, RemovalGoesOn
  <2>3. CASE /\ On(t, {"stage", "decoded", "seen"}) /\ job'[t].stage = "decoding"
             /\ job'[t].decoded = file[job[t].path] /\ file[job[t].path] # Claims!Missing
    <3>1. job'[t].mode = job[t].mode /\ job'[t].path = p /\ job'[t].again = job[t].again
      BY <1>4, <2>3, KeptFields DEF On
    <3>2. CASE job[t].mode = "sweep"
      <4>1. LastOf(p, d)
        BY <1>3, <1>4, <1>5, <3>2 DEF RemovalFits
      <4>2. file[p] \in {Claims!Missing, d}
        BY <1>2, <1>4, <1>5, <4>1, LastOnDisk DEF LastOf, UserInvariant
      <4>3. job'[t].decoded = d
        BY <1>4, <2>3, <4>2
      <4> QED BY <1>1, <1>2, <1>3, <1>4, <1>5, <2>3, <3>1, <4>3, RemovalGoesOn
    <3>3. CASE job[t].mode # "sweep"
      BY <2>3, <3>1, <3>3, NoRemoval
    <3> QED BY <3>2, <3>3
  <2> QED BY <1>6, <2>1, <2>2, <2>3, LookLiveFacts
<1>7. CASE Claims!LookBacklog(t) \/ Claims!Decode(t)
  <2>1. PICK F \in {{"stage"}, {"stage", "got"}} :
           On(t, F) /\ job'[t].stage \in {"release", "decoding", "decoded"}
    BY <1>7, LookBacklogFacts, DecodeFacts
  <2>2. job'[t].mode = job[t].mode /\ job'[t].path = p /\ job'[t].decoded = d /\ job'[t].again = job[t].again
    BY <1>4, <1>5, <2>1, KeptFields DEF On
  <2> QED BY <1>1, <1>2, <1>3, <1>4, <1>5, <2>1, <2>2, RemovalGoesOn
<1>8. CASE Claims!FinalizeChanged(t)
  <2>1. On(t, {"stage", "settled", "retry"}) /\ job'[t].stage = "release"
    BY <1>8, FinalizeChangedFacts
  <2>2. job'[t].mode = job[t].mode /\ job'[t].path = p /\ job'[t].decoded = d /\ job'[t].again = job[t].again
    BY <1>4, <1>5, <2>1, KeptFields DEF On
  <2> QED BY <1>1, <1>2, <1>3, <1>4, <1>5, <2>1, <2>2, RemovalGoesOn
<1>9. CASE Claims!FinalizeLive(t)
  <2>1. /\ On(t, {"stage", "settled"}) /\ job[t].mode = "live"
        /\ job'[t].stage = IF Claims!ShowsMarker(t) THEN "delete" ELSE "release"
        /\ Claims!Shows(t, "owned") => Claims!Accept(d, TRUE)
        /\ Claims!Report(d, Claims!Shows(t, "corrupt"))
    BY <1>5, <1>9, FinalizeLiveFacts
  <2>2. job'[t].mode = job[t].mode /\ job'[t].path = p /\ job'[t].decoded = d
    BY <1>4, <1>5, <2>1, KeptFields DEF On
  <2>3. d \in Nat
    BY <1>2, <1>5 DEF UserInvariant, FilesOK
  <2>4. ASSUME job'[t].stage \in {"delete", "unlink"} PROVE Passed(d)'
    <3>1. Claims!Shows(t, "owned") \/ Claims!Shows(t, "corrupt")
      BY <2>1, <2>4 DEF Claims!ShowsMarker, Claims!Marked, Claims!Shows
    <3>2. CASE Claims!Shows(t, "owned")
      BY <2>1, <2>3, <3>2, AcceptFacts DEF Due, Passed
    <3>3. CASE Claims!Shows(t, "corrupt")
      BY <2>1, <2>3, <3>3 DEF Claims!Report, Refused, Passed
    <3> QED BY <3>1, <3>2, <3>3
  <2> QED BY <1>1, <1>3, <1>4, <1>5, <2>1, <2>2, <2>4, RemovalGoesOn
<1>10. CASE Claims!FinalizeBacklog(t)
  <2>1. /\ On(t, {"stage", "settled", "again"}) /\ job[t].mode = "backlog"
        /\ job'[t].stage = IF Claims!ShowsMarker(t) /\ ~scan.blocked THEN "delete" ELSE "release"
    BY <1>10, FinalizeBacklogFacts
  <2>2. job'[t].mode = job[t].mode /\ job'[t].path = p /\ job'[t].decoded = d
    BY <1>4, <1>5, <2>1, KeptFields DEF On
  <2>3. d \in Nat
    BY <1>2, <1>5 DEF UserInvariant, FilesOK
  <2>4. ASSUME job'[t].stage \in {"delete", "unlink"} PROVE Passed(d)'
    <3>1. ~scan.blocked /\ (Claims!Shows(t, "owned") \/ Claims!Shows(t, "corrupt"))
      BY <2>1, <2>4 DEF Claims!ShowsMarker, Claims!Marked, Claims!Shows
    <3>2. CASE Claims!Shows(t, "owned")
      <4>1. PICK publish : publish = ((scan.recent /\ job[t].decoded \notin scan.old) /\ ~scan.applied)
        OBVIOUS
      <4>2. publish \in BOOLEAN
        BY <4>1
      <4>3. Claims!Accept(d, publish)
        BY <1>5, <1>10, <3>1, <3>2, <4>1 DEF Claims!FinalizeBacklog
      <4> QED BY <2>3, <4>2, <4>3, AcceptFacts DEF Due, Passed
    <3>3. CASE Claims!Shows(t, "corrupt") /\ scan.recent /\ ~scan.applied
      <4>1. Claims!Report(d, TRUE)
        BY <1>5, <1>10, <3>1, <3>3 DEF Claims!FinalizeBacklog
      <4> QED BY <2>3, <4>1 DEF Claims!Report, Refused, Passed
    <3>4. CASE ~scan.recent \/ scan.applied
      <4>1. Passed(d)
        BY <1>1, <1>5, <2>1, <3>4, BacklogIsPassed
      <4> QED BY <2>3, <4>1, PassedStays
    <3> QED BY <3>1, <3>2, <3>3, <3>4
  <2> QED BY <1>1, <1>3, <1>4, <1>5, <2>1, <2>2, <2>4, RemovalGoesOn
<1>11. CASE Claims!FinalizeSweep(t)
  <2>1. /\ On(t, {"stage", "settled", "again"}) /\ job[t].mode = "sweep" /\ job'[t].stage # "unlink"
        /\ job'[t].again = (job[t].decoded \notin old)
    BY <1>11, FinalizeSweepFacts
  <2>2. job'[t].mode = job[t].mode /\ job'[t].path = p /\ job'[t].decoded = d
    BY <1>4, <1>5, <2>1, KeptFields DEF On
  <2>3. d \in old
    BY <1>3, <1>5, <2>1 DEF RemovalFits
  <2>4. ~job'[t].again
    BY <1>5, <2>1, <2>3
  <2>5. Passed(d)'
    BY <2>3 DEF Passed, Due, Onward
  <2> QED BY <1>1, <1>3, <1>4, <1>5, <2>2, <2>4, <2>5, RemovalGoesOn
<1> QED BY <1>6, <1>7, <1>8, <1>9, <1>10, <1>11

LEMMA EndKeepsRemoval ==
  ASSUME UserInvariant, ChronicleOK, ActiveOK, LossOK, Onward, NEW t \in Claims!Threads,
         Claims!DeleteBegin(t) \/ Claims!Unlink(t) \/ Claims!Release(t) \/ Claims!Retake(t)
  PROVE  RemovalFits(job[t])'
<1>1. RemovalFits(job[t])
  BY DEF LossOK, RemovalsFit
<1>2. PICK p : p = job[t].path
  OBVIOUS
<1>3. PICK d : d = job[t].decoded
  OBVIOUS
<1>4. CASE job'[t] = Claims!Idle
  BY <1>4, NoRemoval DEF Claims!Idle
<1>5. CASE Concerned(job[t]) /\ On(t, {"stage"}) /\ job'[t].stage \notin {"delete", "unlink"}
  <2>1. job'[t].mode = job[t].mode /\ job'[t].path = p /\ job'[t].decoded = d /\ job'[t].again = job[t].again
    BY <1>2, <1>3, <1>5, KeptFields DEF On
  <2>2. job'[t].mode = "sweep" => ~job'[t].again
    BY <1>1, <2>1 DEF RemovalFits
  <2> QED BY <1>1, <1>2, <1>3, <1>5, <2>1, <2>2, RemovalGoesOn
<1>6. CASE /\ job[t].stage = "delete" /\ job[t] # Claims!Idle /\ job'[t].stage = "unlink" /\ job'[t].mode = job[t].mode
           /\ job'[t].decoded = job[t].decoded
           /\ Concerned(job[t]) => On(t, {"stage"})
  <2>1. Passed(d) /\ d \in Nat
    BY <1>1, <1>3, <1>6 DEF RemovalFits, UserInvariant, JobsOK, JobOK, JobFits, FilesOK
  <2>2. Passed(d)'
    BY <2>1, PassedStays
  <2>3. CASE job[t].mode = "retry"
    BY <1>3, <1>6, <2>2, <2>3 DEF RemovalFits
  <2>4. CASE job[t].mode # "retry"
    <3>1. Concerned(job[t]) /\ On(t, {"stage"})
      BY <1>6, <2>4 DEF Concerned
    <3>2. job'[t].mode = job[t].mode /\ job'[t].path = p /\ job'[t].decoded = d /\ job'[t].again = job[t].again
      BY <1>2, <1>3, <3>1, KeptFields DEF On
    <3>3. job'[t].mode = "sweep" => ~job'[t].again
      BY <1>1, <3>2 DEF RemovalFits
    <3> QED BY <1>1, <1>2, <1>3, <2>2, <3>1, <3>2, <3>3, RemovalGoesOn
  <2> QED BY <2>3, <2>4
<1>7. CASE Claims!Retake(t)
  <2>1. job'[t] = Claims!Idle \/ (job'[t].stage = "claimed" /\ job'[t].mode = "live")
    BY <1>7, RetakePicks DEF Picks, TakesOn, Fresh
  <2> QED BY <2>1, <1>4, NoRemoval
<1>8. CASE Claims!DeleteBegin(t) \/ Claims!Unlink(t)
  BY <1>4, <1>5, <1>6, <1>8, DeleteBeginFacts, UnlinkFacts DEF Ends
<1>9. CASE Claims!Release(t)
  BY <1>4, <1>5, <1>9, ReleaseFacts
<1> QED BY <1>7, <1>8, <1>9

LEMMA WakeKeepsRemoval ==
  ASSUME UserInvariant, ChronicleOK, ActiveOK, LossOK, Onward, NEW u \in Claims!Threads, Wakes(u), job'[u] # Claims!Idle,
         job[u] = Claims!Idle
  PROVE  RemovalFits(job[u])'
<1>1. CASE \/ (Claims!Event /\ u = "observer") \/ (Claims!GenerationRetry /\ u = "timer")
           \/ (Claims!IncompleteRetry /\ u = "timer") \/ (Claims!ScanNext /\ u = "backlog")
  <2>1. job'[u].stage = "claimed" /\ job'[u].mode \in {"live", "backlog"}
    BY <1>1, EventPicks, GenerationRetryPicks, IncompleteRetryFacts, ScanNextPicks DEF Picks, TakesOn, Fresh
  <2> QED BY <2>1, NoRemoval
<1>2. ASSUME NEW p \in Claims!Paths, Claims!RetryRemoval(p), u = "supervisor" PROVE RemovalFits(job[u])'
  <2>1. pending[p] # Claims!None /\ job'[u].mode = "retry" /\ job'[u].decoded = pending[p].generation
    BY <1>2, RetryRemovalFacts
  <2>2. PICK d : d = pending[p].generation
    OBVIOUS
  <2>3. Passed(d) /\ d \in Nat
    BY <2>1, <2>2 DEF LossOK, QueueFits, UserInvariant, PendingsOK, PendingOK, FilesOK
  <2>4. Passed(d)'
    BY <2>3, PassedStays
  <2> QED BY <2>1, <2>2, <2>4 DEF RemovalFits
<1>3. ASSUME NEW p \in Claims!Paths, Claims!Sweep(p), u = "supervisor" PROVE RemovalFits(job[u])'
  <2>1. Fresh(job'[u], p, "sweep") /\ file[p] \in old
    BY <1>3, SweepPicks DEF Picks, TakesOn, Claims!Sweep
  <2>2. PICK d : d = file[p]
    OBVIOUS
  <2>3. LastOf(p, d)
    BY <2>1, <2>2, OldIsLast DEF UserInvariant
  <2>4. d \in 1..written /\ name[d] = p /\ d \in old'
    <3>1. d \in 1..written /\ d # Claims!Missing
      BY <2>1, <2>2 DEF ChronicleOK, UserInvariant, FilesOK, Claims!Missing
    <3> QED BY <3>1, <2>1, <2>2, FilesAreOnDisk DEF UserInvariant, Onward
  <2>5. LastOf(p, d)'
    BY <2>3, <2>4, LastStays DEF UserInvariant
  <2>6. job'[u].stage = "claimed" /\ job'[u].path = p /\ job'[u].decoded = d /\ ~job'[u].again
    BY <2>1, <2>2 DEF Fresh
  <2> QED BY <2>4, <2>5, <2>6 DEF RemovalFits
<1> QED BY <1>1, <1>2, <1>3 DEF Wakes

LEMMA NextKeepsRemovals ==
  ASSUME UserInvariant, ChronicleOK, ActiveOK, LossOK, Onward, [Claims!Next]_ClaimsVars
  PROVE  RemovalsFit'
<1>1. ASSUME NEW u \in Claims!Threads PROVE RemovalFits(job[u])'
  <2>1. CASE job'[u] = job[u]
    BY <2>1, RemovalStays DEF LossOK, RemovalsFit
  <2>2. CASE Claims!ThreadStep(u)
    BY <2>2, StepKeepsRemoval, EndKeepsRemoval DEF Claims!ThreadStep
  <2>3. CASE job[u] = Claims!Idle /\ job'[u] # Claims!Idle /\ Wakes(u)
    BY <2>3, WakeKeepsRemoval
  <2>4. CASE job'[u] = Claims!Idle
    BY <2>4, NoRemoval DEF Claims!Idle
  <2> QED BY <2>1, <2>2, <2>3, <2>4, JobChanges DEF JobMoves
<1> QED BY <1>1 DEF RemovalsFit

LEMMA NextKeepsQueue ==
  ASSUME UserInvariant, ChronicleOK, LossOK, Onward, [Claims!Next]_ClaimsVars
  PROVE  QueueFits'
<1>1. ASSUME NEW p \in Claims!Paths, pending'[p] # Claims!None PROVE \E g : g = pending'[p].generation /\ Passed(g)'
  <2>1. PICK g : g = pending'[p].generation
    OBVIOUS
  <2>2. Passed(g) /\ g \in Nat
    <3>1. CASE pending'[p] = pending[p]
      BY <1>1, <2>1, <3>1 DEF LossOK, QueueFits, UserInvariant, PendingsOK, PendingOK, FilesOK
    <3>2. ASSUME NEW t \in Claims!Threads, pending'[p].generation = job[t].decoded, job[t] # Claims!Idle,
                 job[t].stage = "unlink"
          PROVE  Passed(g) /\ g \in Nat
      <4>1. Passed(job[t].decoded) /\ job[t].decoded \in Nat
        BY <3>2 DEF LossOK, RemovalsFit, RemovalFits, UserInvariant, JobsOK, JobOK, JobFits, FilesOK
      <4> QED BY <2>1, <3>2, <4>1
    <3> QED BY <1>1, <3>1, <3>2, PendingChanges
  <2> QED BY <2>1, <2>2, PassedStays
<1>2. ASSUME NEW p \in Claims!Paths, pending'[p] # Claims!None' PROVE Passed(pending[p].generation)'
  <2>1. pending'[p] # Claims!None
    BY <1>2 DEF Claims!None, Claims!Missing
  <2>2. PICK g : g = pending'[p].generation /\ Passed(g)'
    BY <1>1, <2>1
  <2> QED BY <2>2 DEF Passed, Due, Refused
<1> QED BY <1>2 DEF QueueFits

\* What a publication does to the newest that was accepted.
LEMMA AcceptKeepsFrontier ==
  ASSUME UserInvariant, ChronicleOK, FrontierFits, NEW g \in Nat, NEW publish \in BOOLEAN, Claims!Accept(g, publish),
         old' = old, reported \subseteq reported', reported' \subseteq Nat, publish \/ Passed(g)
  PROVE  FrontierFits' /\ published \subseteq published'
<1>1. /\ frontier' \in {frontier, g} /\ frontier' >= frontier /\ frontier' >= g /\ frontier \in Nat
      /\ published' = IF g > frontier /\ publish THEN published \cup {g} ELSE published
  BY AcceptFacts DEF ChronicleOK
<1>2. published' \cup reported' \subseteq Nat /\ published \subseteq published'
  BY <1>1 DEF FrontierFits
<1>3. CASE frontier' = frontier
  BY <1>2, <1>3 DEF FrontierFits
<1>4. CASE frontier' # frontier
  <2>1. frontier' = g /\ g > frontier
    BY <1>1, <1>4
  <2>2. CASE publish
    <3>1. g \in published'
      BY <1>1, <2>1, <2>2
    <3>2. \E h \in published' \cup reported' : h >= frontier'
      BY <2>1, <3>1
    <3> QED BY <1>2, <3>2 DEF FrontierFits
  <2>3. CASE g \in old
    BY <1>2, <2>1, <2>3 DEF FrontierFits
  <2>4. CASE Refused(g)
    <3>1. \E h \in published' \cup reported' : h >= frontier'
      BY <2>1, <2>4 DEF Refused
    <3> QED BY <1>2, <3>1 DEF FrontierFits
  <2> QED BY <1>1, <2>1, <2>2, <2>3, <2>4 DEF Passed, Due
<1> QED BY <1>2, <1>3, <1>4

LEMMA FinalizeKeepsFrontier ==
  ASSUME UserInvariant, ChronicleOK, ActiveOK, LossOK, NEW t \in Claims!Threads,
         Claims!FinalizeLive(t) \/ Claims!FinalizeBacklog(t)
  PROVE  FrontierFits' /\ published \subseteq published'
<1>1. Concerned(job[t]) /\ job[t].stage = "decoded"
  BY FinalizeLiveFacts, FinalizeBacklogFacts DEF Answered
<1>2. job[t].decoded \in Nat /\ old' = old
  <2>1. job[t].decoded \in Nat
    BY <1>1, ConcernedFits DEF UserInvariant, FilesOK
  <2>2. UNCHANGED Claims!disk
    BY DEF Claims!FinalizeLive, Claims!FinalizeBacklog
  <2> QED BY <2>1, <2>2 DEF Claims!disk
<1>3. reported' \in {reported, reported \cup {job[t].decoded}} /\ reported \subseteq Nat
  BY DEF Claims!FinalizeLive, Claims!FinalizeBacklog, Claims!Report, LossOK, FrontierFits
<1>4. reported \subseteq reported' /\ reported' \subseteq Nat
  BY <1>2, <1>3
<1>5. CASE UNCHANGED <<frontier, published>>
  BY <1>2, <1>4, <1>5 DEF LossOK, FrontierFits
<1>6. CASE Claims!FinalizeLive(t) /\ Claims!Accept(job[t].decoded, TRUE)
  BY <1>2, <1>4, <1>6, AcceptKeepsFrontier DEF LossOK
<1>7. CASE Claims!FinalizeBacklog(t) /\ Claims!Shows(t, "owned") /\ ~scan.blocked
  <2>1. PICK publish : publish = ((scan.recent /\ job[t].decoded \notin scan.old) /\ ~scan.applied)
    OBVIOUS
  <2>2. publish \in BOOLEAN
    BY <2>1
  <2>3. Claims!Accept(job[t].decoded, publish)
    BY <1>7, <2>1 DEF Claims!FinalizeBacklog
  <2>4. job[t].mode = "backlog" /\ Working(job[t])
    BY <1>1, <1>7, FinalizeBacklogFacts DEF Working
  <2>5. publish \/ Passed(job[t].decoded)
    BY <2>1, <2>4, BacklogIsPassed
  <2> QED BY <1>2, <1>4, <2>2, <2>3, <2>5, AcceptKeepsFrontier DEF LossOK
<1>8. Claims!FinalizeLive(t) => UNCHANGED <<frontier, published>> \/ Claims!Accept(job[t].decoded, TRUE)
  BY FinalizeLiveFacts
<1>9. Claims!FinalizeBacklog(t) => UNCHANGED <<frontier, published>> \/ (Claims!Shows(t, "owned") /\ ~scan.blocked)
  BY DEF Claims!FinalizeBacklog
<1> QED BY <1>5, <1>6, <1>7, <1>8, <1>9

LEMMA NextKeepsFrontier ==
  ASSUME UserInvariant, ChronicleOK, ActiveOK, LossOK, old \subseteq old', [Claims!Next]_ClaimsVars
  PROVE  FrontierFits' /\ published \subseteq published'
<1>1. CASE UNCHANGED <<frontier, published, reported>>
  BY <1>1 DEF LossOK, FrontierFits
<1>2. CASE \E t \in Claims!Threads : Claims!FinalizeLive(t) \/ Claims!FinalizeBacklog(t)
  BY <1>2, FinalizeKeepsFrontier
<1>3. CASE frontier' = 0 /\ UNCHANGED <<published, reported>>
  BY <1>3 DEF LossOK, FrontierFits
<1> QED BY <1>1, <1>2, <1>3, FrontierChanges

LEMMA RemovedWasPassed ==
  ASSUME UserInvariant, ChronicleOK, LossOK, NEW g \in 1..written, Passed(g)
  PROVE  g \in old \/ \E h \in published \cup reported : h >= g
<1>1. g \in Nat /\ g >= 1 /\ frontier \in Nat
  BY DEF UserInvariant, FilesOK, ChronicleOK
<1>2. CASE g <= frontier
  <2>1. frontier \in old => g \in old
    <3>1. frontier \in old => g \in 1..frontier
      BY <1>1, <1>2
    <3> QED BY <3>1 DEF ChronicleOK
  <2>2. ASSUME NEW h \in published \cup reported, h >= frontier PROVE h >= g
    <3>1. h \in Nat
      BY DEF LossOK, FrontierFits
    <3> QED BY <1>1, <1>2, <2>2, <3>1
  <2> QED BY <1>1, <1>2, <2>1, <2>2 DEF LossOK, FrontierFits
<1>3. CASE g \in old \/ Refused(g)
  BY <1>3 DEF Refused
<1> QED BY <1>2, <1>3 DEF Passed, Due

LEMMA NextLosesNothingFresh ==
  ASSUME UserInvariant, ChronicleOK, LossOK, old \subseteq old', published \subseteq published',
         reported \subseteq reported', [Claims!Next]_ClaimsVars
  PROVE  Claims!NothingFreshLost'
<1>1. ASSUME NEW g \in removed' PROVE g \in old \/ \E h \in published \cup reported : h >= g
  <2>1. CASE g \in removed
    BY <2>1 DEF LossOK, Claims!NothingFreshLost
  <2>2. ASSUME NEW t \in Claims!Threads, g = job[t].decoded, job[t].stage = "unlink", job[t] # Claims!Idle
        PROVE  g \in old \/ \E h \in published \cup reported : h >= g
    <3>1. job[t].decoded \in 1..written /\ Passed(job[t].decoded)
      BY <2>2 DEF LossOK, RemovalsFit, RemovalFits, UserInvariant, JobsOK, JobOK, JobFits
    <3> QED BY <2>2, <3>1, RemovedWasPassed
  <2> QED BY <2>1, <2>2, RemovedChanges
<1>2. \A g \in removed' : g \in old' \/ \E h \in published' \cup reported' : h >= g
  BY <1>1
<1> QED BY <1>2 DEF Claims!NothingFreshLost

\* What the scan has still to look at stays the newest of its path.
LEMMA EntriesStay ==
  ASSUME UserInvariant, ScanOK, Onward, NEW e \in scan.todo
  PROVE  Entry(e)' /\ (LastEntry(e) => LastEntry(e)')
<1>1. e.generation \in 1..written /\ e = [path |-> name[e.generation], generation |-> e.generation] /\ e.path = name[e.generation]
  <2>1. e.generation \in 1..written /\ e = [path |-> name[e.generation], generation |-> e.generation]
    BY DEF ScanOK, Entry
  <2> QED BY <2>1
<1>2. name' = name /\ e.generation \in 1..written'
  BY <1>1 DEF Onward, FileStep, UserInvariant, FilesOK
<1>3. Entry(e)'
  BY <1>1, <1>2 DEF Entry
<1>4. e.path \in Claims!Paths
  BY DEF UserInvariant, WakeupsOK
<1>5. LastOf(e.path, e.generation) => LastOf(e.path, e.generation)'
  BY <1>1, <1>4, LastStays DEF UserInvariant
<1> QED BY <1>3, <1>5 DEF LastEntry

\* What a scan that has applied or reported something has left was passed, and remains so.
LEMMA EntriesArePassed ==
  ASSUME UserInvariant, ChronicleOK, ScanOK, Onward, scan.on, scan.applied
  PROVE  \A e \in scan.todo : LastEntry(e) /\ Passed(e.generation) /\ Passed(e.generation)'
<1>1. SUFFICES ASSUME NEW e \in scan.todo
               PROVE  LastEntry(e) /\ Passed(e.generation) /\ Passed(e.generation)'
  OBVIOUS
<1>2. PICK g : g = e.generation
  OBVIOUS
<1>3. LastEntry(e) /\ Passed(g) /\ g \in Nat
  BY <1>2 DEF ScanOK, Entry, UserInvariant, FilesOK
<1>4. Passed(g)'
  BY <1>3, PassedStays
<1> QED BY <1>2, <1>3, <1>4 DEF Passed, Due, Refused

\* The scan goes on: it may have less to look at, and know more of what it was.
LEMMA ScanGoesOn ==
  ASSUME UserInvariant, ScanOK, Onward, scan.on, DOMAIN scan' = ScanFields, scan'.on = TRUE, scan'.old = scan.old,
         scan'.todo \subseteq scan.todo,
         scan'.applied => \A e \in scan'.todo : LastEntry(e) /\ Passed(e.generation)'
  PROVE  ScanOK'
<1>1. \A e \in scan'.todo : e \in scan.todo /\ Entry(e)' /\ (LastEntry(e) => LastEntry(e)')
  BY EntriesStay
<1>2. \A e \in scan'.todo : e.generation \in scan'.old => LastEntry(e)'
  BY <1>1 DEF ScanOK
<1>3. \A e, f \in scan'.todo : e.generation < f.generation => LastEntry(e)'
  BY <1>1 DEF ScanOK
<1>4. scan'.old \subseteq old'
  BY DEF ScanOK, Onward
<1>5. scan'.applied => \A e \in scan'.todo : LastEntry(e)' /\ Passed(e.generation)'
  BY <1>1
<1>6. DOMAIN scan' = ScanFields' /\ scan'.on = TRUE
  BY DEF ScanFields
<1> QED BY <1>1, <1>2, <1>3, <1>4, <1>5, <1>6 DEF ScanOK

LEMMA ScanStays ==
  ASSUME UserInvariant, ChronicleOK, ScanOK, Onward, scan' = scan, job'["backlog"] # Claims!Idle => scan.on
  PROVE  ScanOK'
<1>1. CASE scan.on
  <2>1. scan # Claims!NoScan
    BY <1>1 DEF Claims!NoScan
  <2>2. DOMAIN scan' = ScanFields /\ scan'.on = TRUE /\ scan'.old = scan.old /\ scan'.todo = scan.todo
    BY <2>1 DEF ScanOK
  <2>3. scan'.applied => \A e \in scan'.todo : LastEntry(e) /\ Passed(e.generation)'
    BY <1>1, EntriesArePassed
  <2> QED BY <1>1, <2>2, <2>3, ScanGoesOn
<1>2. CASE ~scan.on
  <2>1. scan' = Claims!NoScan /\ job'["backlog"] = Claims!Idle
    BY <1>2 DEF ScanOK
  <2>2. scan'.todo = {} /\ ~scan'.on
    BY <2>1 DEF Claims!NoScan
  <2>3. scan' = Claims!NoScan' /\ job'["backlog"] = Claims!Idle'
    BY <2>1 DEF Claims!NoScan, Claims!Idle
  <2> QED BY <2>2, <2>3 DEF ScanOK
<1> QED BY <1>1, <1>2

LEMMA NoScanIsOK ==
  ASSUME scan' = Claims!NoScan, job'["backlog"] = Claims!Idle
  PROVE  ScanOK' /\ BacklogFits(job["backlog"])'
<1>1. scan'.todo = {} /\ ~scan'.on
  BY DEF Claims!NoScan
<1>2. scan' = Claims!NoScan' /\ job'["backlog"] = Claims!Idle'
  BY DEF Claims!NoScan, Claims!Idle
<1>3. ScanOK'
  BY <1>1, <1>2 DEF ScanOK
<1>4. job'["backlog"].mode # "backlog"
  BY DEF Claims!Idle
<1> QED BY <1>3, <1>4 DEF BacklogFits

\* The scan's thread goes on with its file.
LEMMA BacklogGoesOn ==
  ASSUME UserInvariant, ChronicleOK, ScanOK, Onward, BacklogFits(job["backlog"]), scan'.todo \subseteq scan.todo,
         NEW CONSTANT d, job'["backlog"].mode = "backlog" =>
           /\ job["backlog"].mode = "backlog" /\ job["backlog"].decoded = d /\ job'["backlog"].decoded = d
           /\ d \in Nat
           /\ Working(job'["backlog"]) =>
                 /\ Working(job["backlog"])
                 /\ scan'.recent = scan.recent /\ scan'.old = scan.old /\ scan'.applied = scan.applied
  PROVE  BacklogFits(job["backlog"])'
<1>1. SUFFICES ASSUME job'["backlog"].mode = "backlog" PROVE BacklogFits(job["backlog"])'
  BY DEF BacklogFits
<1>2. \A e \in scan'.todo : LastEntry(e)' /\ e.generation < d
  BY <1>1, EntriesStay DEF BacklogFits
<1>3. Working(job'["backlog"]) =>
        /\ scan'.recent \/ d \in scan'.old
        /\ scan'.applied => Passed(d)'
  BY <1>1, PassedStays DEF BacklogFits
<1>4. job'["backlog"].decoded = d
  BY <1>1
<1>5. Working(job'["backlog"]) = Working(job["backlog"])'
  BY DEF Working
<1> QED BY <1>2, <1>3, <1>4, <1>5 DEF BacklogFits

LEMMA ScansAreOn ==
  ASSUME ScanOK, job["backlog"] # Claims!Idle
  PROVE  scan.on /\ DOMAIN scan = ScanFields /\ scan.on = TRUE
<1>1. scan.on
  BY DEF ScanOK
<1>2. scan # Claims!NoScan
  BY <1>1 DEF Claims!NoScan
<1> QED BY <1>1, <1>2 DEF ScanOK

LEMMA LookBacklogScan ==
  ASSUME UserInvariant, ChronicleOK, ActiveOK, LossOK, Onward, NEW t \in Claims!Threads, Claims!LookBacklog(t)
  PROVE  ScanOK' /\ BacklogFits(job["backlog"])'
<1>1. /\ job[t].stage = "claimed" /\ Concerned(job[t]) /\ job[t].mode = "backlog"
      /\ On(t, {"stage"})
  BY LookBacklogFacts
<1>2. t = "backlog" /\ job["backlog"] # Claims!Idle
  BY <1>1 DEF ActiveOK, ClaimOK, Concerned
<1>3. scan.on /\ DOMAIN scan = ScanFields /\ scan.on = TRUE /\ ScanOK /\ BacklogFits(job["backlog"])
  BY <1>2, ScansAreOn DEF LossOK
<1>4. PICK blocked : scan' = [scan EXCEPT !.blocked = blocked]
  BY LookBacklogFacts
<1>5. /\ DOMAIN scan' = ScanFields /\ scan'.on = TRUE /\ scan'.old = scan.old /\ scan'.todo = scan.todo
      /\ scan'.applied = scan.applied /\ scan'.recent = scan.recent
  BY <1>3, <1>4 DEF ScanFields
<1>6. scan'.applied => \A e \in scan'.todo : LastEntry(e) /\ Passed(e.generation)'
  BY <1>3, <1>5, EntriesArePassed
<1>7. ScanOK'
  BY <1>3, <1>5, <1>6, ScanGoesOn
<1>8. PICK d : d = job["backlog"].decoded
  OBVIOUS
<1>9. job'["backlog"].decoded = d /\ Working(job["backlog"]) /\ d \in Nat
  <2>1. job'["backlog"].decoded = d
    BY <1>1, <1>2, <1>8, KeptFields DEF On
  <2>2. d \in Nat
    BY <1>1, <1>2, <1>8, ConcernedFits DEF UserInvariant, FilesOK
  <2> QED BY <1>1, <1>2, <2>1, <2>2 DEF Working
<1>10. BacklogFits(job["backlog"])'
  BY <1>1, <1>2, <1>3, <1>5, <1>8, <1>9, BacklogGoesOn
<1> QED BY <1>7, <1>10

LEMMA FinalizeBacklogScan ==
  ASSUME UserInvariant, ChronicleOK, ActiveOK, LossOK, Onward, NEW t \in Claims!Threads, Claims!FinalizeBacklog(t)
  PROVE  ScanOK' /\ BacklogFits(job["backlog"])'
<1> DEFINE owned == Claims!Shows(t, "owned") /\ ~scan.blocked
           fresh == scan.recent /\ job[t].decoded \notin scan.old
           failing == Claims!Shows(t, "corrupt") /\ ~scan.blocked /\ scan.recent /\ ~scan.applied
<1>1. /\ job[t].stage = "decoded" /\ Concerned(job[t]) /\ job[t].mode = "backlog"
      /\ On(t, {"stage", "settled", "again"}) /\ job'[t].stage \in {"delete", "release"}
  BY FinalizeBacklogFacts DEF Answered
<1>2. t = "backlog" /\ job["backlog"] # Claims!Idle
  BY <1>1 DEF ActiveOK, ClaimOK, Concerned
<1>3. scan.on /\ DOMAIN scan = ScanFields /\ scan.on = TRUE /\ ScanOK /\ BacklogFits(job["backlog"])
  BY <1>2, ScansAreOn DEF LossOK
<1>4. PICK applied, blocked, incomplete, todo :
         /\ scan' = [scan EXCEPT !.applied = applied, !.blocked = blocked, !.incomplete = incomplete, !.todo = todo]
         /\ todo \subseteq scan.todo
         /\ applied => scan.applied \/ (owned /\ fresh /\ job[t].decoded > frontier) \/ failing
  <2>1. PICK todo : todo = IF \/ job[t].got = Claims!NoDecoder
                              \/ ~Claims!Complete(t) /\ scan.incomplete + 1 >= RetryWindow
                           THEN {} ELSE scan.todo
    OBVIOUS
  <2>2. PICK applied : applied = (scan.applied \/ (owned /\ fresh /\ job[t].decoded > frontier) \/ failing)
    OBVIOUS
  <2>3. PICK blocked, incomplete : scan' = [scan EXCEPT !.applied = applied, !.blocked = blocked,
                                              !.incomplete = incomplete, !.todo = todo]
    BY <2>1, <2>2 DEF Claims!FinalizeBacklog
  <2>4. todo \subseteq scan.todo
    BY <2>1
  <2>5. applied => scan.applied \/ (owned /\ fresh /\ job[t].decoded > frontier) \/ failing
    BY <2>2
  <2> HIDE DEF owned, fresh, failing
  <2> QED BY <2>3, <2>4, <2>5
<1>5. /\ DOMAIN scan' = ScanFields /\ scan'.on = TRUE /\ scan'.old = scan.old /\ scan'.todo \subseteq scan.todo
      /\ scan'.applied = applied
  BY <1>3, <1>4 DEF ScanFields
<1>6. \A e \in scan.todo : e.generation \in Nat
  BY <1>3 DEF ScanOK, Entry, UserInvariant, FilesOK
<1>7. scan'.applied => \A e \in scan'.todo : LastEntry(e) /\ Passed(e.generation)'
  <2>1. CASE scan.applied
    BY <1>3, <1>5, <2>1, EntriesArePassed
  <2>2. \A e \in scan.todo : LastEntry(e) /\ e.generation < job[t].decoded
    BY <1>1, <1>2, <1>3 DEF BacklogFits
  <2>3. job[t].decoded \in Nat
    BY <1>1, ConcernedFits DEF UserInvariant, FilesOK
  <2>4. CASE owned
    <3>1. PICK publish : publish = ((scan.recent /\ job[t].decoded \notin scan.old) /\ ~scan.applied)
      OBVIOUS
    <3>2. publish \in BOOLEAN
      BY <3>1
    <3>3. Claims!Accept(job[t].decoded, publish)
      BY <2>4, <3>1 DEF Claims!FinalizeBacklog
    <3>4. frontier' >= job[t].decoded /\ frontier' \in Nat
      BY <2>3, <3>2, <3>3, AcceptFacts
    <3>5. \A e \in scan.todo : e.generation <= frontier'
      BY <1>6, <2>2, <2>3, <3>4
    <3> QED BY <1>5, <2>2, <3>5 DEF Passed, Due
  <2>5. CASE failing
    <3>1. job[t].decoded \in reported'
      BY <2>5 DEF Claims!FinalizeBacklog, Claims!Report
    <3>2. \A e \in scan.todo : job[t].decoded >= e.generation
      BY <1>6, <2>2, <2>3
    <3> QED BY <1>5, <2>2, <3>1, <3>2 DEF Passed, Refused
  <2> QED BY <1>4, <1>5, <2>1, <2>4, <2>5
<1>8. ScanOK'
  BY <1>3, <1>5, <1>7, ScanGoesOn
<1>9. PICK d : d = job["backlog"].decoded
  OBVIOUS
<1>10. job'["backlog"].decoded = d /\ ~Working(job'["backlog"]) /\ d \in Nat
  <2>1. job'["backlog"].decoded = d
    BY <1>1, <1>2, <1>9, KeptFields DEF On
  <2>2. d \in Nat
    BY <1>1, <1>2, <1>9, ConcernedFits DEF UserInvariant, FilesOK
  <2> QED BY <1>1, <1>2, <2>1, <2>2 DEF Working
<1>11. BacklogFits(job["backlog"])'
  BY <1>1, <1>2, <1>3, <1>5, <1>9, <1>10, BacklogGoesOn
<1> QED BY <1>8, <1>11

LEMMA ScanBeginScan ==
  ASSUME UserInvariant, ChronicleOK, Onward, Claims!ScanBegin
  PROVE  ScanOK' /\ BacklogFits(job["backlog"])'
<1>1. PICK window, selected :
        /\ scan' = [on |-> TRUE, recent |-> TRUE, old |-> old, blocked |-> FALSE, applied |-> FALSE,
                    incomplete |-> 0, window |-> window, selected |-> selected,
                    todo |-> {[path |-> p, generation |-> file[p]] :
                                p \in {q \in Claims!Paths : file[q] # Claims!Missing}}]
  BY DEF Claims!ScanBegin
<1>2. UNCHANGED <<job, Claims!disk>> /\ job["backlog"] = Claims!Idle
  BY DEF Claims!ScanBegin
<1>3. UNCHANGED <<written, name, old, file, over>>
  BY <1>2 DEF Claims!disk
<1>4. /\ DOMAIN scan' = ScanFields /\ scan'.on = TRUE /\ scan'.old = old /\ scan'.applied = FALSE
      /\ scan'.todo = {[path |-> p, generation |-> file[p]] :
                          p \in {q \in Claims!Paths : file[q] # Claims!Missing}}
  BY <1>1 DEF ScanFields
<1>5. ASSUME NEW e \in scan'.todo
      PROVE  /\ e.generation \in 1..written /\ e.path = name[e.generation] /\ e.path \in Claims!Paths
             /\ e.generation = file[e.path] /\ file[e.path] # Claims!Missing
             /\ e = [path |-> name[e.generation], generation |-> e.generation]
  <2>1. PICK p \in Claims!Paths : file[p] # Claims!Missing /\ e = [path |-> p, generation |-> file[p]]
    BY <1>4
  <2>2. file[p] \in 1..written /\ name[file[p]] = p
    BY <2>1, FilesAreOnDisk DEF UserInvariant
  <2> QED BY <2>1, <2>2
<1>6. ASSUME NEW e \in scan'.todo, NEW f \in scan'.todo, e.generation < f.generation PROVE LastEntry(e)
  <2>1. /\ f.generation \in 1..written /\ file[e.path] < f.generation /\ e.path \in Claims!Paths
        /\ file[e.path] # Claims!Missing /\ file[e.path] = e.generation
    BY <1>5, <1>6
  <2>2. name[f.generation] # e.path
    <3>1. name[f.generation] = f.path /\ f.generation = file[f.path]
      BY <1>5
    <3>2. e.generation \in Int /\ f.generation \in Int
      BY <1>5
    <3> QED BY <1>6, <2>1, <3>1, <3>2
  <2> QED BY <2>1, <2>2, OvertakenIsLast DEF LastEntry, UserInvariant
<1>7. ASSUME NEW e \in scan'.todo, e.generation \in old PROVE LastEntry(e)
  BY <1>5, <1>7, OldIsLast DEF LastEntry, UserInvariant
<1>8. \A e \in scan'.todo : LastEntry(e) => LastEntry(e)'
  BY <1>3 DEF LastEntry, LastOf, Final
<1>9. \A e \in scan'.todo : Entry(e)'
  BY <1>3, <1>5 DEF Entry
<1>10. DOMAIN scan' = ScanFields'
  BY <1>4 DEF ScanFields
<1>11. ScanOK'
  BY <1>3, <1>4, <1>6, <1>7, <1>8, <1>9, <1>10 DEF ScanOK
<1>12. BacklogFits(job["backlog"])'
  BY <1>2 DEF BacklogFits, Claims!Idle
<1> QED BY <1>11, <1>12

LEMMA ScanNextScan ==
  ASSUME UserInvariant, ChronicleOK, LossOK, Onward, Claims!ScanNext
  PROVE  ScanOK' /\ BacklogFits(job["backlog"])'
<1>1. UNCHANGED <<Claims!disk, frontier>> /\ scan.on
  BY DEF Claims!ScanNext
<1>2. PICK e \in scan.todo :
        /\ \A f \in scan.todo : f.generation <= e.generation
        /\ scan' = [scan EXCEPT !.todo = @ \ {e}, !.recent = e.generation \notin scan.old]
        /\ \/ file[e.path] \in manual /\ UNCHANGED <<job, active>>
           \/ Picks("backlog", e.path, "backlog")
  BY ScanNextPicks
<1>3. ScanOK /\ scan # Claims!NoScan /\ DOMAIN scan = ScanFields /\ scan.on = TRUE
  BY <1>1 DEF LossOK, ScanOK, Claims!NoScan
<1>5. /\ DOMAIN scan' = ScanFields /\ scan'.on = TRUE /\ scan'.old = scan.old /\ scan'.todo = scan.todo \ {e}
      /\ scan'.applied = scan.applied /\ scan'.recent = (e.generation \notin scan.old)
  BY <1>2, <1>3 DEF ScanFields
<1>6. \A f \in scan.todo : f.generation \in Nat /\ Entry(f)
  BY <1>3 DEF ScanOK, Entry, UserInvariant, FilesOK
<1>7. ScanOK'
  <2>1. scan'.applied => \A f \in scan'.todo : LastEntry(f) /\ Passed(f.generation)'
    BY <1>1, <1>3, <1>5, EntriesArePassed
  <2> QED BY <1>1, <1>3, <1>5, <2>1, ScanGoesOn
<1>8. \A f \in scan'.todo : f.generation < e.generation /\ LastEntry(f) /\ LastEntry(f)'
  <2>1. TAKE f \in scan'.todo
  <2>2. f \in scan.todo /\ f # e /\ f.generation <= e.generation
    BY <1>2, <1>5
  <2>3. f.generation # e.generation
    BY <1>6, <2>2 DEF Entry
  <2>4. f.generation < e.generation
    BY <1>6, <2>2, <2>3
  <2>5. LastEntry(f)
    BY <1>3, <2>2, <2>4 DEF ScanOK
  <2> QED BY <1>3, <2>2, <2>4, <2>5, EntriesStay
<1>9. CASE UNCHANGED job
  <2>1. job'["backlog"] = Claims!Idle
    BY <1>9, ScanNextPicks
  <2> QED BY <1>7, <2>1 DEF BacklogFits, Claims!Idle
<1>10. CASE Picks("backlog", e.path, "backlog")
  <2>1. CASE job'["backlog"] = Claims!Idle
    BY <1>7, <2>1 DEF BacklogFits, Claims!Idle
  <2>2. CASE Fresh(job'["backlog"], e.path, "backlog") /\ Claims!Claimable(e.path)
    <3>1. PICK d : d = file[e.path]
      OBVIOUS
    <3>2. job'["backlog"].decoded = d
      BY <2>2, <3>1 DEF Fresh
    <3>3. e.path \in Claims!Paths /\ e.path = name[e.generation] /\ e.generation \in 1..written
      BY <1>6, <1>10 DEF Picks, Entry
    <3>4. d # Claims!Missing
      BY <2>2, <3>1 DEF Claims!Claimable
    <3>5. d \in 1..written /\ e.generation <= d
      BY <3>1, <3>3, <3>4, FilesAreOnDisk DEF ChronicleOK, UserInvariant
    <3>6. LastEntry(e) => d = e.generation
      <4>1. HAVE LastEntry(e)
      <4>2. \A h \in 1..written : name[h] = e.path => h <= e.generation
        BY <4>1 DEF LastEntry, LastOf
      <4> QED BY <3>1, <3>3, <3>4, <4>2, LastOnDisk DEF UserInvariant
    <3>7. \A f \in scan'.todo : LastEntry(f)' /\ f.generation < d
      BY <1>5, <1>6, <1>8, <3>5 DEF UserInvariant, FilesOK
    <3>8. scan'.recent \/ d \in scan'.old
      <4>1. CASE e.generation \in scan.old
        <5>1. LastEntry(e)
          BY <1>1, <1>3, <4>1 DEF ScanOK
        <5> QED BY <4>1, <5>1, <3>6, <1>5
      <4> QED BY <4>1, <1>5
    <3>9. scan'.applied => Passed(d)'
      <4>1. HAVE scan'.applied
      <4>2. LastEntry(e) /\ Passed(e.generation)
        BY <1>1, <1>3, <1>5, <4>1, EntriesArePassed
      <4>3. Passed(d) /\ d \in Nat
        BY <3>5, <3>6, <4>2 DEF UserInvariant, FilesOK
      <4> QED BY <4>3, PassedStays
    <3> QED BY <1>7, <3>2, <3>7, <3>8, <3>9 DEF BacklogFits
  <2> QED BY <1>10, <2>1, <2>2 DEF Picks, TakesOn
<1> QED BY <1>2, <1>7, <1>9, <1>10

\* A thread of the scan stays one until it has concluded.
LEMMA BacklogStaysBacklog ==
  ASSUME UserInvariant, ActiveOK, NEW t \in Claims!Threads, Claims!ThreadStep(t), job'[t].mode = "backlog"
  PROVE  /\ job[t].mode = "backlog" /\ job'[t].decoded = job[t].decoded /\ job[t].decoded \in Nat
         /\ Working(job'[t]) => Working(job[t])
<1>1. ASSUME Concerned(job[t]) PROVE job[t].decoded \in Nat
  BY <1>1, ConcernedFits DEF UserInvariant, FilesOK
<1>2. ASSUME NEW F \in {{"stage"}, {"stage", "got"}, {"stage", "settled", "retry"}, {"stage", "settled"},
                        {"stage", "settled", "again"}, {"stage", "again"}}, On(t, F)
      PROVE  job'[t].mode = job[t].mode /\ job'[t].decoded = job[t].decoded
  BY <1>2, KeptFields DEF On
<1>3. CASE \/ Claims!LookBacklog(t) \/ Claims!Decode(t) \/ Claims!FinalizeChanged(t)
           \/ Claims!FinalizeLive(t) \/ Claims!FinalizeBacklog(t) \/ Claims!FinalizeSweep(t)
  <2>1. Concerned(job[t]) /\ Working(job[t])
    BY <1>3, LookBacklogFacts, DecodeFacts, FinalizeChangedFacts, FinalizeLiveFacts,
       FinalizeBacklogFacts, FinalizeSweepFacts DEF Answered, Working
  <2>2. \E F \in {{"stage"}, {"stage", "got"}, {"stage", "settled", "retry"}, {"stage", "settled"},
                  {"stage", "settled", "again"}} : On(t, F)
    BY <1>3, LookBacklogFacts, DecodeFacts, FinalizeChangedFacts, FinalizeLiveFacts,
       FinalizeBacklogFacts, FinalizeSweepFacts
  <2> QED BY <1>1, <1>2, <2>1, <2>2
<1>4. CASE Claims!LookLive(t)
  <2>1. job[t].mode \in {"live", "sweep"}
    BY <1>4, LookLiveFacts
  <2>2. job'[t].mode = job[t].mode
    BY <1>4, LookLiveFacts, KeptFields DEF On
  <2> QED BY <2>1, <2>2
<1>5. CASE Claims!DeleteBegin(t) \/ Claims!Unlink(t) \/ Claims!Release(t)
  <2>1. CASE job'[t] = Claims!Idle
    BY <2>1 DEF Claims!Idle
  <2>2. CASE Concerned(job[t]) /\ On(t, {"stage"}) /\ job'[t].stage \in {"release", "retake"}
    BY <1>1, <1>2, <2>2 DEF Working
  <2>3. CASE /\ job[t].stage = "delete" /\ job[t] # Claims!Idle /\ job'[t].stage = "unlink"
             /\ job'[t].mode = job[t].mode /\ job'[t].decoded = job[t].decoded
    <3>1. Concerned(job[t])
      BY <2>3 DEF Concerned
    <3> QED BY <1>1, <2>3, <3>1 DEF Working
  <2> QED BY <1>5, <2>1, <2>2, <2>3, DeleteBeginFacts, UnlinkFacts, ReleaseFacts DEF Ends
<1>6. CASE Claims!Retake(t)
  <2>1. TakesOn(t, job[t].path, "live")
    BY <1>6, RetakePicks DEF Picks
  <2>2. job'[t] = Claims!Idle \/ job'[t].mode = "live"
    BY <2>1 DEF TakesOn, Fresh
  <2> QED BY <2>2 DEF Claims!Idle
<1> QED BY <1>3, <1>4, <1>5, <1>6 DEF Claims!ThreadStep

LEMMA StepsAreTaken ==
  ASSUME NEW t, Claims!ThreadStep(t)
  PROVE  job[t] # Claims!Idle
<1>1. job[t].stage # "idle"
  BY DEF Claims!ThreadStep, Claims!LookLive, Claims!LookBacklog, Claims!Decode, Claims!FinalizeChanged,
     Claims!FinalizeLive, Claims!FinalizeBacklog, Claims!FinalizeSweep, Claims!DeleteBegin, Claims!Unlink,
     Claims!Release, Claims!Retake, Claims!Classify
<1> QED BY <1>1 DEF Claims!Idle

LEMMA SameScan ==
  ASSUME UserInvariant, ChronicleOK, ActiveOK, LossOK, Onward, scan' = scan,
         job'["backlog"] = job["backlog"] \/ Claims!ThreadStep("backlog")
  PROVE  ScanOK' /\ BacklogFits(job["backlog"])'
<1>1. "backlog" \in Claims!Threads
  BY DEF Claims!Threads
<1>2. job'["backlog"] # Claims!Idle => scan.on
  BY StepsAreTaken DEF LossOK, ScanOK
<1>3. ScanOK'
  BY <1>2, ScanStays DEF LossOK
<1>4. PICK d : d = job["backlog"].decoded
  OBVIOUS
<1>5. job'["backlog"].mode = "backlog" =>
        /\ job["backlog"].mode = "backlog" /\ job["backlog"].decoded = d /\ job'["backlog"].decoded = d
        /\ d \in Nat
        /\ Working(job'["backlog"]) => Working(job["backlog"])
  <2>1. CASE job'["backlog"] = job["backlog"]
    <3>1. job["backlog"].mode = "backlog" => d \in Nat
      BY <1>1, <1>4 DEF UserInvariant, JobsOK, JobOK, JobFits, FilesOK, Claims!Idle
    <3> QED BY <1>4, <2>1, <3>1 DEF Working
  <2>2. CASE Claims!ThreadStep("backlog")
    BY <1>1, <1>4, <2>2, BacklogStaysBacklog
  <2> QED BY <2>1, <2>2
<1>6. BacklogFits(job["backlog"])'
  BY <1>5, BacklogGoesOn DEF LossOK
<1> QED BY <1>3, <1>6

LEMMA NextKeepsScan ==
  ASSUME UserInvariant, ChronicleOK, ActiveOK, LossOK, Onward, [Claims!Next]_ClaimsVars
  PROVE  ScanOK' /\ BacklogFits(job["backlog"])'
<1>1. "backlog" \in Claims!Threads
  BY DEF Claims!Threads
<1>2. ASSUME NEW t \in Claims!Threads, Claims!LookBacklog(t) \/ Claims!FinalizeBacklog(t)
      PROVE  ScanOK' /\ BacklogFits(job["backlog"])'
  BY <1>2, LookBacklogScan, FinalizeBacklogScan
<1>3. CASE Claims!ScanBegin \/ Claims!ScanNext
  BY <1>3, ScanBeginScan, ScanNextScan
<1>4. CASE Claims!ScanEnd \/ Claims!Restart
  <2>1. scan' = Claims!NoScan
    BY <1>4 DEF Claims!ScanEnd, Claims!Restart
  <2>2. job'["backlog"] = Claims!Idle
    BY <1>1, <1>4 DEF Claims!ScanEnd, Claims!Restart
  <2> QED BY <2>1, <2>2, NoScanIsOK
<1>5. CASE UNCHANGED scan
  <2>1. CASE job'["backlog"] = job["backlog"] \/ Claims!ThreadStep("backlog")
    BY <1>5, <2>1, SameScan
  <2>2. CASE Wakes("backlog")
    BY <1>3, <2>2 DEF Wakes
  <2>3. CASE Claims!Restart
    BY <1>4, <2>3
  <2> QED BY <1>1, <2>1, <2>2, <2>3, JobChanges DEF JobMoves
<1> QED BY <1>2, <1>3, <1>4, <1>5, ScanChanges

LEMMA RestartLosesNothing ==
  ASSUME LossOK, Claims!Restart
  PROVE  LossOK'
<1>1. /\ job' = [t \in Claims!Threads |-> Claims!Idle] /\ scan' = Claims!NoScan
      /\ pending' = [p \in Claims!Paths |-> Claims!None] /\ frontier' = 0
      /\ UNCHANGED <<old, published, reported, removed>>
  BY DEF Claims!Restart, Claims!history
<1>2. \A t \in Claims!Threads : job'[t] = Claims!Idle
  BY <1>1
<1>3. ScanOK' /\ BacklogFits(job["backlog"])'
  <2>1. job'["backlog"] = Claims!Idle
    BY <1>2 DEF Claims!Threads
  <2> QED BY <1>1, <2>1, NoScanIsOK
<1>4. RemovalsFit'
  BY <1>2, NoRemoval DEF RemovalsFit, Claims!Idle
<1>5. QueueFits'
  BY <1>1 DEF QueueFits, Claims!None, Claims!Missing
<1>6. FrontierFits'
  BY <1>1 DEF LossOK, FrontierFits
<1>7. Claims!NothingFreshLost'
  BY <1>1 DEF LossOK, Claims!NothingFreshLost
<1> QED BY <1>3, <1>4, <1>5, <1>6, <1>7 DEF LossOK

LEMMA NextKeepsLoss ==
  ASSUME UserInvariant, ChronicleOK, ActiveOK, LossOK, [Claims!Next]_ClaimsVars
  PROVE  LossOK'
<1>1. CASE Claims!Restart
  BY <1>1, RestartLosesNothing
<1>2. CASE ~Claims!Restart
  <2>1. Onward
    BY <1>2, StepIsOnward
  <2>2. old \subseteq old' /\ reported \subseteq reported'
    BY <2>1 DEF Onward
  <2>3. ScanOK' /\ BacklogFits(job["backlog"])' /\ RemovalsFit' /\ QueueFits'
    BY <2>1, NextKeepsScan, NextKeepsRemovals, NextKeepsQueue
  <2>4. FrontierFits' /\ published \subseteq published'
    BY <2>2, NextKeepsFrontier
  <2>5. Claims!NothingFreshLost'
    BY <2>2, <2>4, NextLosesNothingFresh
  <2> QED BY <2>3, <2>4, <2>5 DEF LossOK
<1> QED BY <1>1, <1>2

LEMMA ClaimsInitClaims ==
  ASSUME Claims!Init
  PROVE  ActiveOK /\ MarksOK /\ LossOK
<1>1. /\ job = [t \in Claims!Threads |-> Claims!Idle] /\ active = {} /\ recent = {}
      /\ pending = [p \in Claims!Paths |-> Claims!None] /\ scan = Claims!NoScan
      /\ frontier = 0 /\ published = {} /\ reported = {} /\ removed = {} /\ manual = saved.manual
  BY DEF Claims!Init
<1>2. \A t \in Claims!Threads : job[t] = Claims!Idle
  BY <1>1
<1>3. ActiveOK
  <2>1. \A t \in Claims!Threads : ClaimOK(t) /\ ~Holds(job[t])
    BY <1>2 DEF ClaimOK, Holds, Concerned, Claims!Idle
  <2> QED BY <1>1, <2>1 DEF ActiveOK
<1>4. saved.manual \subseteq 1..written
  <2>1. saved \in [manual : SUBSET {g \in 1..written : kind[g] = "manual"},
                   deferred : SUBSET (1..written), cursor : {Claims!Missing}]
    BY DEF Claims!Init
  <2>2. saved.manual \in SUBSET {g \in 1..written : kind[g] = "manual"}
    BY <2>1
  <2> QED BY <2>2
<1>5. MarksOK
  BY <1>1, <1>4 DEF MarksOK
<1>6. ScanOK /\ BacklogFits(job["backlog"])
  <2>1. job["backlog"] = Claims!Idle
    BY <1>2 DEF Claims!Threads
  <2>2. scan.todo = {} /\ ~scan.on
    BY <1>1 DEF Claims!NoScan
  <2> QED BY <1>1, <2>1, <2>2 DEF ScanOK, BacklogFits, Claims!Idle
<1>7. RemovalsFit
  BY <1>2 DEF RemovalsFit, RemovalFits, Claims!Idle
<1>8. QueueFits /\ FrontierFits /\ Claims!NothingFreshLost
  BY <1>1 DEF QueueFits, FrontierFits, Claims!NothingFreshLost
<1> QED BY <1>3, <1>5, <1>6, <1>7, <1>8 DEF LossOK

-----------------------------------------------------------------------------
(* Nothing is forgotten: as long as every screenshot could be read.         *)

LEMMA UnreadGrows ==
  ASSUME [Claims!Next]_ClaimsVars
  PROVE  unread \subseteq unread'
<1>1. ASSUME NEW t \in Claims!Threads, Claims!ThreadStep(t) PROVE unread \subseteq unread'
  BY <1>1 DEF Claims!ThreadStep, Claims!LookLive, Claims!LookBacklog, Claims!Decode, Claims!FinalizeChanged,
     Claims!FinalizeLive, Claims!FinalizeBacklog, Claims!FinalizeSweep, Claims!DeleteBegin, Claims!Unlink,
     Claims!Release, Claims!Retake, Claims!history
<1>2. CASE Claims!ScanEnd
  BY <1>2 DEF Claims!ScanEnd
<1>3. CASE \/ Claims!Event \/ Claims!GenerationRetry \/ Claims!IncompleteRetry \/ Claims!ScanBegin
           \/ Claims!ScanNext \/ Claims!WriteScreenshot
           \/ \E p \in Claims!Paths : Claims!ForgetFailure(p) \/ Claims!RetryRemoval(p) \/ Claims!Sweep(p)
           \/ Claims!ObserverDies \/ Claims!EnsureRunning \/ Claims!Age
           \/ \E g \in Claims!Generations : Claims!RecentExpires(g)
           \/ Claims!Restart \/ UNCHANGED ClaimsVars
  <2>1. unread' = unread
    BY <1>3 DEF Claims!Event, Claims!GenerationRetry, Claims!IncompleteRetry, Claims!ScanBegin,
       Claims!ScanNext, Claims!WriteScreenshot, Claims!ForgetFailure, Claims!RetryRemoval,
       Claims!Sweep, Claims!ObserverDies, Claims!EnsureRunning, Claims!Age, Claims!RecentExpires,
       Claims!Restart, Claims!history, ClaimsVars
  <2> QED BY <2>1
<1> QED BY <1>1, <1>2, <1>3 DEF Claims!Next

LEMMA RecentChanges ==
  ASSUME [Claims!Next]_ClaimsVars
  PROVE  \/ UNCHANGED recent
         \/ \E t \in Claims!Threads : Claims!Release(t)
         \/ Claims!IncompleteRetry \/ \E g \in Claims!Generations : Claims!RecentExpires(g)
         \/ Claims!Restart /\ recent' = {}
<1>1. ASSUME NEW t \in Claims!Threads, Claims!ThreadStep(t) PROVE Claims!Release(t) \/ recent' = recent
  BY <1>1 DEF Claims!ThreadStep, Claims!LookLive, Claims!LookBacklog, Claims!Decode, Claims!FinalizeChanged,
     Claims!FinalizeLive, Claims!FinalizeBacklog, Claims!FinalizeSweep, Claims!DeleteBegin, Claims!Unlink,
     Claims!Retake, Claims!claims
<1>2. CASE Claims!Restart
  BY <1>2 DEF Claims!Restart
<1>3. CASE \/ Claims!Event \/ Claims!GenerationRetry \/ Claims!ScanBegin
           \/ Claims!ScanNext \/ Claims!ScanEnd \/ Claims!WriteScreenshot
           \/ \E p \in Claims!Paths : Claims!ForgetFailure(p) \/ Claims!RetryRemoval(p) \/ Claims!Sweep(p)
           \/ Claims!ObserverDies \/ Claims!EnsureRunning \/ Claims!Age
           \/ UNCHANGED ClaimsVars
  BY <1>3 DEF Claims!Event, Claims!GenerationRetry, Claims!ScanBegin,
       Claims!ScanNext, Claims!ScanEnd, Claims!WriteScreenshot, Claims!ForgetFailure, Claims!RetryRemoval,
       Claims!Sweep, Claims!ObserverDies, Claims!EnsureRunning, Claims!Age, Claims!claims, ClaimsVars
<1> QED BY <1>1, <1>2, <1>3 DEF Claims!Next

Finalizes(t) == Claims!FinalizeLive(t) \/ Claims!FinalizeBacklog(t) \/ Claims!FinalizeSweep(t)

LEMMA IndexChanges ==
  ASSUME [Claims!Next]_ClaimsVars
  PROVE  \/ UNCHANGED <<manual, deferred, saved>>
         \/ \E t \in Claims!Threads : Finalizes(t)
         \/ Claims!ScanBegin
         \/ (Claims!ScanEnd /\ UNCHANGED <<manual, deferred>> /\ saved'.deferred = deferred)
         \/ Claims!Restart /\ manual' = saved.manual /\ deferred' = saved.deferred /\ saved' = saved
<1>1. ASSUME NEW t \in Claims!Threads, Claims!ThreadStep(t) PROVE Finalizes(t) \/ UNCHANGED <<manual, deferred, saved>>
  BY <1>1 DEF Claims!ThreadStep, Claims!LookLive, Claims!LookBacklog, Claims!Decode, Claims!FinalizeChanged,
     Finalizes, Claims!DeleteBegin, Claims!Unlink, Claims!Release, Claims!Retake, Claims!index, Claims!indexMemory
<1>2. CASE Claims!Restart
  BY <1>2 DEF Claims!Restart
<1>3. CASE Claims!ScanEnd
  <2>1. UNCHANGED <<manual, deferred>> /\ saved' = [manual |-> manual, deferred |-> deferred, cursor |-> cursor]
    BY <1>3 DEF Claims!ScanEnd, Claims!indexMemory
  <2>2. saved'.deferred = deferred
    BY <2>1
  <2> QED BY <1>3, <2>1, <2>2
<1>4. CASE \/ Claims!Event \/ Claims!GenerationRetry \/ Claims!IncompleteRetry
           \/ Claims!ScanNext \/ Claims!WriteScreenshot
           \/ \E p \in Claims!Paths : Claims!ForgetFailure(p) \/ Claims!RetryRemoval(p) \/ Claims!Sweep(p)
           \/ Claims!ObserverDies \/ Claims!EnsureRunning \/ Claims!Age
           \/ \E g \in Claims!Generations : Claims!RecentExpires(g)
           \/ UNCHANGED ClaimsVars
  BY <1>4 DEF Claims!Event, Claims!GenerationRetry, Claims!IncompleteRetry,
       Claims!ScanNext, Claims!WriteScreenshot, Claims!ForgetFailure, Claims!RetryRemoval,
       Claims!Sweep, Claims!ObserverDies, Claims!EnsureRunning, Claims!Age, Claims!RecentExpires,
       Claims!index, Claims!indexMemory, ClaimsVars
<1> QED BY <1>1, <1>2, <1>3, <1>4 DEF Claims!Next

LEMMA FinalizesFacts ==
  ASSUME UserInvariant, NEW t \in Claims!Threads, Finalizes(t)
  PROVE  Answered(t)
BY FinalizeLiveFacts, FinalizeBacklogFacts, FinalizeSweepFacts DEF Finalizes

\* A path is in the hands of one thread: who settles a generation of it is that one.
LEMMA SettledByHolder ==
  ASSUME ActiveOK, NEW t \in Claims!Threads, NEW v \in Claims!Threads, NEW g, Holds(job[t]),
         Settling(job[v], g), name[g] = job[t].path
  PROVE  v = t
<1>1. Holds(job[v]) /\ job[v].decoded = g /\ job[v] # Claims!Idle
  BY DEF Settling, Holds, Concerned
<1>2. job[v].path = name[g]
  BY <1>1 DEF ActiveOK, ClaimOK
<1> QED BY <1>1, <1>2 DEF ActiveOK

\* A generation on disk that is guarded by nobody's work is the last of its path.
LEMMA GuardedIsFinal ==
  ASSUME FilesOK, ChronicleOK, NEW p \in Claims!Paths, file[p] # Claims!Missing, Guarded(file[p]), file[p] \notin recent,
         \A v \in Claims!Threads : ~Settling(job[v], file[p])
  PROVE  Final(p) /\ LastOf(p, file[p])
<1>1. OnDisk(file[p]) /\ name[file[p]] = p
  BY FilesAreOnDisk
<1>2. Final(p)
  BY <1>1 DEF Guarded
<1> QED BY <1>2 DEF LastOf, ChronicleOK

\* The generation a thread works on is not settled, and so guarded by nobody's work.
LEMMA WorkedIsUnsettled ==
  ASSUME UserInvariant, ChronicleOK, ActiveOK, NEW t \in Claims!Threads, Concerned(job[t]), Working(job[t]),
         file[job[t].path] # Claims!Missing
  PROVE  \A v \in Claims!Threads : ~Settling(job[v], file[job[t].path])
<1>1. Holds(job[t]) /\ ~job[t].settled /\ job[t].path \in Claims!Paths
  BY ConcernedFits DEF ClaimFits, Working
<1>2. name[file[job[t].path]] = job[t].path
  BY <1>1, FilesAreOnDisk DEF UserInvariant
<1>3. ASSUME NEW v \in Claims!Threads, Settling(job[v], file[job[t].path]) PROVE FALSE
  <2>1. v = t
    BY <1>1, <1>2, <1>3, SettledByHolder
  <2> QED BY <1>1, <1>3, <2>1 DEF Settling
<1> QED BY <1>3

\* As long as every screenshot could be read, every answer is complete.
LEMMA ReadIsComplete ==
  ASSUME AllCharged, NEW t \in Claims!Threads, Answered(t)
  PROVE  job[t].got \in Claims!Generations /\ Claims!Complete(t) /\ job[t].got # Claims!NoDecoder
<1>1. job[t].got \in Claims!Generations
  BY DEF Answered, Concerned, AllCharged, HoldsFit, HoldFits
<1> QED BY <1>1, BoundIsNumber DEF Claims!Complete, Claims!Generations, Claims!Missing, Claims!NoDecoder

\* So nothing is deferred.
LEMMA NothingDeferred ==
  ASSUME UserInvariant, AllCharged, [Claims!Next]_ClaimsVars
  PROVE  deferred' = {} /\ saved'.deferred = {}
<1>1. deferred = {} /\ saved.deferred = {}
  BY DEF AllCharged, IndexOK
<1>2. ASSUME NEW t \in Claims!Threads, Finalizes(t)
      PROVE  deferred' = {} /\ saved'.deferred = {}
  <2>1. Answered(t) /\ Claims!Complete(t)
    BY <1>2, FinalizesFacts, ReadIsComplete
  <2> QED BY <1>1, <2>1 DEF Answered
<1>3. Claims!ScanBegin => deferred' \subseteq deferred /\ saved' = saved
  BY DEF Claims!ScanBegin
<1> QED BY <1>1, <1>2, <1>3, IndexChanges

\* No scan looks at a window of the files only, or holds anything back.
LEMMA NoWindow ==
  ASSUME UserInvariant, ActiveOK, LossOK, AllCharged, [Claims!Next]_ClaimsVars
  PROVE  scan'.on => ~scan'.window /\ ~scan'.blocked
<1>1. scan.on => ~scan.window /\ ~scan.blocked
  BY DEF AllCharged, IndexOK
<1>2. ASSUME NEW t \in Claims!Threads, Claims!LookBacklog(t) \/ Claims!FinalizeBacklog(t)
      PROVE  ~scan'.window /\ ~scan'.blocked
  <2>1. Concerned(job[t]) /\ job[t].mode = "backlog"
    BY <1>2, LookBacklogFacts, FinalizeBacklogFacts DEF Answered
  <2>2. scan.on /\ DOMAIN scan = ScanFields
    BY <2>1, ScansAreOn DEF ActiveOK, ClaimOK, Concerned, LossOK
  <2>3. CASE Claims!LookBacklog(t)
    <3>1. PICK blocked : /\ scan' = [scan EXCEPT !.blocked = blocked]
                         /\ blocked = (scan.blocked \/ (/\ job[t].decoded \notin manual /\ scan.window
                                                        /\ job[t].decoded \notin scan.selected))
      BY <2>3, LookBacklogFacts
    <3> QED BY <1>1, <2>2, <3>1 DEF ScanFields
  <2>4. CASE Claims!FinalizeBacklog(t)
    <3>1. Claims!Complete(t)
      BY <2>4, FinalizeBacklogFacts, ReadIsComplete
    <3>2. PICK blocked : blocked = (scan.blocked \/ ~Claims!Complete(t))
      OBVIOUS
    <3>3. PICK applied, incomplete, todo :
             scan' = [scan EXCEPT !.applied = applied, !.blocked = blocked, !.incomplete = incomplete, !.todo = todo]
      BY <2>4, <3>2 DEF Claims!FinalizeBacklog
    <3> QED BY <1>1, <2>2, <3>1, <3>2, <3>3 DEF ScanFields
  <2> QED BY <1>2, <2>3, <2>4
<1>3. CASE Claims!ScanBegin
  <2>1. deferred \cap Claims!Present = {}
    BY DEF AllCharged, IndexOK
  <2>2. PICK selected, todo :
          scan' = [on |-> TRUE, recent |-> TRUE, old |-> old, blocked |-> FALSE, applied |-> FALSE,
                    incomplete |-> 0, window |-> (deferred \cap Claims!Present) # {}, selected |-> selected,
                    todo |-> todo]
    BY <1>3 DEF Claims!ScanBegin
  <2> QED BY <2>1, <2>2
<1>4. CASE Claims!ScanNext
  <2>1. PICK todo, recentOne : scan' = [scan EXCEPT !.todo = todo, !.recent = recentOne]
    BY <1>4, ScanNextPicks
  <2>2. scan.on
    BY <1>4, ScanNextPicks
  <2>3. scan # Claims!NoScan
    BY <2>2 DEF Claims!NoScan
  <2>4. DOMAIN scan = ScanFields
    BY <2>3 DEF LossOK, ScanOK
  <2> QED BY <1>1, <2>1, <2>2, <2>4 DEF ScanFields
<1>5. CASE scan' = Claims!NoScan
  BY <1>5 DEF Claims!NoScan
<1>6. CASE UNCHANGED scan
  BY <1>1, <1>6
<1> QED BY <1>2, <1>3, <1>4, <1>5, <1>6, ScanChanges

LEMMA IncTimersChange ==
  ASSUME UserInvariant, [Claims!Next]_ClaimsVars, NEW p \in Claims!Paths
  PROVE  \/ incTimers'[p] = incTimers[p] \/ incTimers'[p] = Claims!Missing
         \/ \E t \in Claims!Threads :
               /\ Answered(t) /\ ~Claims!Complete(t) /\ p = job[t].path /\ incTimers'[p] = job[t].decoded
<1>0. DOMAIN incTimers = Claims!Paths
  BY DEF UserInvariant, WakeupsOK
<1>1. ASSUME NEW t \in Claims!Threads, Claims!FinalizeLive(t) \/ Claims!FinalizeBacklog(t)
      PROVE  \/ incTimers'[p] = incTimers[p]
             \/ Answered(t) /\ ~Claims!Complete(t) /\ p = job[t].path /\ incTimers'[p] = job[t].decoded
  <2>1. \/ incTimers' = incTimers
        \/ ~Claims!Complete(t) /\ incTimers' = [incTimers EXCEPT ![job[t].path] = job[t].decoded]
    <3>1. CASE Claims!FinalizeLive(t)
      BY <3>1 DEF Claims!FinalizeLive, Claims!Path
    <3>2. CASE Claims!FinalizeBacklog(t)
      BY <3>2 DEF Claims!FinalizeBacklog, Claims!Path
    <3> QED BY <1>1, <3>1, <3>2
  <2>2. Answered(t)
    BY <1>1, FinalizesFacts DEF Finalizes
  <2> QED BY <1>0, <2>1, <2>2
<1>2. ASSUME NEW t \in Claims!Threads, Claims!ThreadStep(t)
      PROVE  Claims!FinalizeLive(t) \/ Claims!FinalizeBacklog(t) \/ incTimers' = incTimers
  BY <1>2 DEF Claims!ThreadStep, Claims!LookLive, Claims!LookBacklog, Claims!Decode, Claims!FinalizeChanged,
     Claims!FinalizeSweep, Claims!DeleteBegin, Claims!Unlink, Claims!Release, Claims!Retake, Claims!wakeups
<1>3. CASE Claims!IncompleteRetry
  <2>1. PICK q : incTimers' = [incTimers EXCEPT ![q] = Claims!Missing]
    BY <1>3, IncompleteRetryFacts
  <2> QED BY <1>0, <2>1
<1>4. CASE Claims!Restart
  BY <1>4 DEF Claims!Restart
<1>5. CASE \/ Claims!Event \/ Claims!GenerationRetry \/ Claims!ScanBegin
           \/ Claims!ScanNext \/ Claims!ScanEnd \/ Claims!WriteScreenshot
           \/ \E q \in Claims!Paths : Claims!ForgetFailure(q) \/ Claims!RetryRemoval(q) \/ Claims!Sweep(q)
           \/ Claims!ObserverDies \/ Claims!EnsureRunning \/ Claims!Age
           \/ \E g \in Claims!Generations : Claims!RecentExpires(g)
           \/ UNCHANGED ClaimsVars
  <2>1. incTimers' = incTimers
    BY <1>5 DEF Claims!Event, Claims!GenerationRetry, Claims!ScanBegin,
       Claims!ScanNext, Claims!ScanEnd, Claims!WriteScreenshot, Claims!ForgetFailure, Claims!RetryRemoval,
       Claims!Sweep, Claims!ObserverDies, Claims!EnsureRunning, Claims!Age, Claims!RecentExpires,
       Claims!wakeups, ClaimsVars
  <2> QED BY <2>1
<1> QED BY <1>1, <1>2, <1>3, <1>4, <1>5 DEF Claims!Next

\* Nothing is to be tried once more.
LEMMA NoTimers ==
  ASSUME UserInvariant, AllCharged, [Claims!Next]_ClaimsVars, NEW p \in Claims!Paths
  PROVE  incTimers'[p] = Claims!Missing
BY IncTimersChange, ReadIsComplete DEF AllCharged, IndexOK

\* A thread that releases a path: what it has worked on there is closed, if it still is there.
LEMMA WorkedIsClosed ==
  ASSUME UserInvariant, ChronicleOK, ActiveOK, AllCharged, NEW t \in Claims!Threads, Claims!Release(t),
         NEW g \in Claims!Worked(t), OnDisk(g)
  PROVE  Closed(g)
<1>1. job[t].stage = "release" /\ Concerned(job[t])
  BY ReleaseFacts
<1>2. HoldFits(job[t])
  BY DEF AllCharged, HoldsFit
<1>3. /\ ClaimFits(job[t]) /\ name[job[t].decoded] = job[t].path /\ job[t].path \in Claims!Paths
      /\ Holds(job[t])
  BY <1>1, ConcernedFits
<1>4. CASE job[t].settled
  <2>1. g = job[t].decoded
    BY <1>4 DEF Claims!Worked
  <2>2. file[job[t].path] = g
    BY <1>3, <2>1 DEF OnDisk
  <2> QED BY <1>2, <1>3, <1>4, <2>1, <2>2 DEF HoldFits
<1>5. CASE ~job[t].settled
  <2>1. g \in job[t].seen \/ (g = file[job[t].path] /\ g # Claims!Missing)
    BY <1>5 DEF Claims!Worked, Claims!Now, Claims!Path
  <2>2. g \in 1..written /\ name[g] = job[t].path
    BY <1>3, <2>1, FilesAreOnDisk DEF ClaimFits, UserInvariant
  <2>3. file[job[t].path] = g /\ g # Claims!Missing
    BY <2>2 DEF OnDisk, Claims!Missing, UserInvariant, FilesOK
  <2>4. Claims!Manual(g)
    BY <1>1, <1>2, <1>3, <1>5, <2>3 DEF HoldFits
  <2> QED BY <2>4 DEF Closed, Claims!Manual
<1> QED BY <1>4, <1>5

LEMMA RecentIsClosed ==
  ASSUME UserInvariant, ChronicleOK, ActiveOK, MarksOK, AllCharged, Onward, [Claims!Next]_ClaimsVars,
         NEW g \in recent', OnDisk(g)'
  PROVE  Closed(g)'
<1>1. g \in 1..written /\ g \in Nat
  BY RecentIsNamed DEF MarksOK, UserInvariant, FilesOK
<1>2. OnDisk(g)
  BY <1>1, OnDiskBefore DEF Onward, UserInvariant
<1>3. Closed(g)
  <2>1. CASE g \in recent
    BY <1>2, <2>1 DEF AllCharged, IndexOK
  <2>2. CASE g \notin recent
    <3>1. PICK t \in Claims!Threads : Claims!Release(t)
      <4>1. Claims!IncompleteRetry => recent' \subseteq recent
        BY IncompleteRetryFacts
      <4>2. \A h : Claims!RecentExpires(h) => recent' \subseteq recent
        BY DEF Claims!RecentExpires
      <4> QED BY <2>2, <4>1, <4>2, RecentChanges
    <3>2. g \in Claims!Worked(t)
      BY <2>2, <3>1, ReleaseFacts
    <3> QED BY <1>2, <3>1, <3>2, WorkedIsClosed
  <2> QED BY <2>1, <2>2
<1> QED BY <1>1, <1>3, ClosedStays

LEMMA NextKeepsIndex ==
  ASSUME UserInvariant, ChronicleOK, ActiveOK, MarksOK, LossOK, AllCharged, Onward, [Claims!Next]_ClaimsVars
  PROVE  IndexOK'
<1>1. deferred' = {} /\ saved'.deferred = {} /\ (scan'.on => ~scan'.window /\ ~scan'.blocked)
  BY NothingDeferred, NoWindow
<1>2. \A p \in Claims!Paths : incTimers'[p] = Claims!Missing'
  BY NoTimers DEF Claims!Missing
<1>3. \A g \in recent' : OnDisk(g)' => Closed(g)'
  BY RecentIsClosed
<1> QED BY <1>1, <1>2, <1>3 DEF IndexOK

LEMMA RestartKeepsIndex ==
  ASSUME UserInvariant, AllCharged, Claims!Restart
  PROVE  IndexOK'
<1>1. deferred' = {} /\ saved'.deferred = {}
  BY NothingDeferred DEF Claims!Next
<1>2. recent' = {} /\ scan' = Claims!NoScan /\ incTimers' = [p \in Claims!Paths |-> Claims!Missing]
  BY DEF Claims!Restart
<1>3. ~scan'.on
  BY <1>2 DEF Claims!NoScan
<1>4. \A p \in Claims!Paths : incTimers'[p] = Claims!Missing'
  BY <1>2 DEF Claims!Missing
<1> QED BY <1>1, <1>2, <1>3, <1>4 DEF IndexOK

LEMMA NoExpiredRetry ==
  ASSUME AllCharged
  PROVE  ~Claims!IncompleteRetry
BY DEF AllCharged, IndexOK, Claims!IncompleteRetry

\* What a thread holds is not counted as worked on: not until it lets go of it.
LEMMA RecentGuardStays ==
  ASSUME UserInvariant, ChronicleOK, ActiveOK, MarksOK, AllCharged, [Claims!Next]_ClaimsVars, ~Claims!Restart,
         NEW g \in recent, OnDisk(g), g \notin recent'
  PROVE  Final(name[g])'
<1>2. ASSUME NEW t \in Claims!Threads, Claims!Release(t) PROVE FALSE
  <2>1. g \in Claims!Forgotten(t) /\ job[t].stage = "release" /\ Concerned(job[t])
    BY <1>2, ReleaseFacts
  <2>2. g = job[t].decoded \/ g = file[job[t].path]
    BY <2>1 DEF Claims!Forgotten, Claims!Now, Claims!Path
  <2>3. /\ name[job[t].decoded] = job[t].path /\ job[t].path \in Claims!Paths /\ Holds(job[t])
    BY <2>1, ConcernedFits
  <2>4. file[job[t].path] = g
    BY <2>2, <2>3 DEF OnDisk
  <2>5. file[job[t].path] \notin recent
    BY <2>3 DEF AllCharged, HoldsFit, HoldFits
  <2> QED BY <2>4, <2>5
<1>3. PICK h : Claims!RecentExpires(h)
  BY <1>2, NoExpiredRetry, RecentChanges
<1>4. recent' = recent \ {h} /\ over' = (over \/ name[h] = name[written]) /\ UNCHANGED <<name, written>>
  BY <1>3 DEF Claims!RecentExpires
<1>5. h = g
  BY <1>4
<1> QED BY <1>4, <1>5 DEF Final

LEMMA SettlingStays ==
  ASSUME UserInvariant, ActiveOK, LossOK, [Claims!Next]_ClaimsVars, ~Claims!Restart,
         NEW v \in Claims!Threads, NEW g, Settling(job[v], g)
  PROVE  g \in recent' \/ Final(name[g]) \/ Settling(job'[v], g)
<1>1. /\ Concerned(job[v]) /\ job[v].stage # "retake" /\ job[v].settled /\ ~job[v].again /\ job[v].decoded = g
      /\ job[v] # Claims!Idle
  BY DEF Settling, Holds, Concerned
<1>2. ClaimFits(job[v]) /\ job[v].path = name[g]
  BY <1>1, ConcernedFits
<1>3. ~Working(job[v])
  BY <1>1, <1>2 DEF ClaimFits
<1>4. CASE job'[v] = job[v]
  BY <1>4
<1>5. ASSUME On(v, {"stage"}), job'[v].stage # "retake"
      PROVE  Settling(job'[v], g)
  <2>1. /\ job'[v].settled = job[v].settled /\ job'[v].again = job[v].again /\ job'[v].decoded = job[v].decoded
        /\ job'[v].mode = job[v].mode /\ DOMAIN job'[v] = JobFields
    BY <1>5, KeptFields DEF On
  <2>2. job'[v] # Claims!Idle
    <3>1. DOMAIN Claims!Idle = {"stage", "mode"}
      BY DEF Claims!Idle
    <3> QED BY <2>1, <3>1 DEF JobFields
  <2> QED BY <1>1, <1>5, <2>1, <2>2 DEF Settling, Holds, Concerned
<1>6. CASE Claims!DeleteBegin(v) \/ Claims!Unlink(v)
  <2>1. On(v, {"stage"}) /\ job'[v].stage \in {"release", "unlink"}
    BY <1>1, <1>6, DeleteBeginFacts, UnlinkFacts DEF Ends, Concerned
  <2> QED BY <1>5, <2>1
<1>7. CASE Claims!Release(v)
  <2>1. recent' = (recent \cup Claims!Worked(v)) \ Claims!Forgotten(v)
    BY <1>7, ReleaseFacts
  <2>2. Claims!Worked(v) = {g}
    BY <1>1 DEF Claims!Worked
  <2>3. CASE job[v].mode = "sweep"
    BY <1>1, <1>2, <2>3 DEF LossOK, RemovalsFit, RemovalFits, LastOf
  <2>4. CASE job[v].mode # "sweep"
    <3>1. Claims!Forgotten(v) = {}
      BY <1>1, <2>4 DEF Claims!Forgotten
    <3> QED BY <2>1, <2>2, <3>1
  <2> QED BY <2>3, <2>4
<1>8. CASE \/ Claims!LookLive(v) \/ Claims!LookBacklog(v) \/ Claims!Decode(v) \/ Claims!FinalizeChanged(v)
           \/ Finalizes(v)
  <2>1. Working(job[v])
    BY <1>8, LookLiveFacts, LookBacklogFacts, DecodeFacts, FinalizeChangedFacts, FinalizesFacts DEF Answered, Working
  <2> QED BY <1>3, <2>1
<1>9. CASE Claims!Retake(v)
  BY <1>1, <1>9, RetakePicks
<1>10. CASE Claims!ThreadStep(v)
  BY <1>6, <1>7, <1>8, <1>9, <1>10 DEF Claims!ThreadStep, Finalizes
<1> QED BY <1>1, <1>4, <1>10, JobChanges DEF JobMoves

\* What is guarded stays so.
LEMMA GuardStays ==
  ASSUME UserInvariant, ChronicleOK, ActiveOK, MarksOK, LossOK, AllCharged, Onward, [Claims!Next]_ClaimsVars,
         ~Claims!Restart, NEW g \in 1..written, Guarded(g)
  PROVE  Guarded(g)'
<1>1. SUFFICES ASSUME OnDisk(g)' PROVE Guarded(g)'
  BY DEF Guarded
<1>2. OnDisk(g)
  BY <1>1, OnDiskBefore DEF Onward, UserInvariant
<1>3. name[g] \in Claims!Paths
  BY ChronicleNames DEF UserInvariant, FilesOK
<1>4. name' = name
  BY DEF Onward, FileStep
<1>5. CASE Final(name[g])
  <2>1. Final(name[g])'
    BY <1>3, <1>4, <1>5, FinalStays DEF UserInvariant
  <2> QED BY <2>1 DEF Guarded
<1>6. CASE g \in recent
  <2>1. g \in recent' \/ Final(name[g])'
    BY <1>2, <1>6, RecentGuardStays
  <2> QED BY <2>1 DEF Guarded
<1>7. ASSUME NEW v \in Claims!Threads, Settling(job[v], g) PROVE Guarded(g)'
  <2>1. g \in recent' \/ Final(name[g]) \/ Settling(job'[v], g)
    BY <1>7, SettlingStays
  <2>2. Settling(job'[v], g) = Settling(job[v], g)'
    BY DEF Settling, Holds, Concerned, Claims!Idle
  <2> QED BY <1>5, <2>1, <2>2 DEF Guarded
<1> QED BY <1>2, <1>5, <1>6, <1>7 DEF Guarded

\* A generation that is taken for the user's is settled by the thread that read it.
LEMMA NewManualIsGuarded ==
  ASSUME UserInvariant, ActiveOK, LossOK, NEW t \in Claims!Threads, Finalizes(t),
         NEW g \in manual' \ manual
  PROVE  Guarded(g)' /\ Holds(job[t]) /\ g = job[t].decoded /\ job[t].stage = "decoded"
<1>1. Answered(t)
  BY FinalizesFacts
<1>2. g = job[t].decoded /\ Claims!Shows(t, "manual") /\ Concerned(job[t]) /\ job[t].stage = "decoded"
  BY <1>1 DEF Answered
<1>3. ClaimFits(job[t]) /\ Holds(job[t])
  BY <1>2, ConcernedFits
<1>4. ~job[t].again
  BY <1>2, <1>3 DEF ClaimFits, Working
<1>5. ~Claims!ShowsMarker(t) /\ ~Claims!Shows(t, "suspect")
  BY <1>2 DEF Claims!Shows, Claims!ShowsMarker, Claims!Marked
<1>6. /\ job'[t].settled /\ ~job'[t].again /\ job'[t].stage = "release" /\ job'[t].decoded = job[t].decoded
      /\ job'[t].mode = job[t].mode /\ DOMAIN job'[t] = JobFields
  <2>1. CASE Claims!FinalizeLive(t)
    <3>1. On(t, {"stage", "settled"}) /\ job'[t].settled = TRUE /\ job'[t].stage = "release"
      BY <1>5, <2>1, FinalizeLiveFacts
    <3> QED BY <1>4, <3>1, KeptFields DEF On
  <2>2. CASE Claims!FinalizeBacklog(t)
    <3>1. On(t, {"stage", "settled", "again"}) /\ job'[t].settled = TRUE /\ job'[t].stage = "release" /\ ~job'[t].again
      BY <1>5, <2>2, FinalizeBacklogFacts
    <3> QED BY <3>1, KeptFields DEF On
  <2>3. CASE Claims!FinalizeSweep(t)
    <3>1. /\ On(t, {"stage", "settled", "again"}) /\ job'[t].settled = TRUE /\ job'[t].stage = "release"
          /\ job[t].mode = "sweep" /\ job'[t].again = (job[t].decoded \notin old)
      BY <1>5, <2>3, FinalizeSweepFacts
    <3>2. ~job'[t].again
      BY <3>1 DEF LossOK, RemovalsFit, RemovalFits
    <3> QED BY <3>1, <3>2, KeptFields DEF On
  <2> QED BY <2>1, <2>2, <2>3 DEF Finalizes
<1>7. job'[t] # Claims!Idle
  <2>1. DOMAIN Claims!Idle = {"stage", "mode"}
    BY DEF Claims!Idle
  <2> QED BY <1>6, <2>1 DEF JobFields
<1>8. Settling(job'[t], g)
  BY <1>2, <1>6, <1>7 DEF Settling, Holds, Concerned
<1>9. Settling(job'[t], g) = Settling(job[t], g)'
  BY DEF Settling, Holds, Concerned, Claims!Idle
<1> QED BY <1>2, <1>3, <1>8, <1>9 DEF Guarded

LEMMA ManualGuardsStay ==
  ASSUME UserInvariant, ChronicleOK, ActiveOK, MarksOK, LossOK, AllCharged, Onward, [Claims!Next]_ClaimsVars,
         ~Claims!Restart, NEW g \in manual'
  PROVE  Guarded(g)'
<1>1. CASE g \in manual
  <2>1. g \in 1..written /\ Guarded(g)
    BY <1>1 DEF MarksOK, AllCharged, GuardOK
  <2> QED BY <2>1, GuardStays
<1>2. CASE g \notin manual
  <2>1. PICK t \in Claims!Threads : Finalizes(t)
    <3>1. Claims!ScanBegin => manual' \subseteq manual
      BY DEF Claims!ScanBegin
    <3> QED BY <1>2, <3>1, IndexChanges
  <2> QED BY <1>2, <2>1, NewManualIsGuarded
<1> QED BY <1>1, <1>2

LEMMA RemovalIsGuarded ==
  ASSUME UserInvariant, ActiveOK, AllCharged, NEW t \in Claims!Threads, job[t] # Claims!Idle,
         job[t].stage = "unlink"
  PROVE  Guarded(job[t].decoded) /\ job[t].decoded \in 1..written
<1>1. job[t].decoded \in 1..written
  BY DEF UserInvariant, JobsOK, JobOK, JobFits
<1>2. CASE job[t].mode = "retry"
  BY <1>1, <1>2 DEF AllCharged, GuardOK
<1>3. CASE job[t].mode # "retry"
  <2>1. Concerned(job[t])
    BY <1>3 DEF Concerned
  <2>2. ClaimFits(job[t]) /\ Holds(job[t])
    BY <2>1, ConcernedFits
  <2>3. Settling(job[t], job[t].decoded)
    BY <2>2 DEF ClaimFits, Settling
  <2> QED BY <1>1, <2>3 DEF Guarded
<1> QED BY <1>2, <1>3

LEMMA QueueGuardsStay ==
  ASSUME UserInvariant, ChronicleOK, ActiveOK, MarksOK, LossOK, AllCharged, Onward, [Claims!Next]_ClaimsVars,
         ~Claims!Restart, NEW p \in Claims!Paths, pending'[p] # Claims!None, NEW CONSTANT g, g = pending'[p].generation
  PROVE  Guarded(g)'
<1>1. g \in 1..written /\ Guarded(g)
  <2>1. CASE pending'[p] = pending[p]
    BY <2>1 DEF AllCharged, GuardOK, UserInvariant, PendingsOK, PendingOK
  <2>2. ASSUME NEW t \in Claims!Threads, pending'[p].generation = job[t].decoded, job[t] # Claims!Idle,
               job[t].stage = "unlink"
        PROVE  g \in 1..written /\ Guarded(g)
    BY <2>2, RemovalIsGuarded
  <2> QED BY <2>1, <2>2, PendingChanges
<1> QED BY <1>1, GuardStays

\* A thread that retries a removal goes on with that of the same generation.
LEMMA RetriesStay ==
  ASSUME UserInvariant, ActiveOK, NEW t \in Claims!Threads, Claims!ThreadStep(t), job'[t].mode = "retry"
  PROVE  job[t].mode = "retry" /\ job'[t].decoded = job[t].decoded /\ job[t] # Claims!Idle
<1>1. ASSUME Concerned(job[t]), NEW F, On(t, F) PROVE FALSE
  BY <1>1, KeptFields DEF On, Concerned
<1>2. job'[t] # Claims!Idle
  BY DEF Claims!Idle
<1>3. CASE \/ Claims!LookLive(t) \/ Claims!LookBacklog(t) \/ Claims!Decode(t) \/ Claims!FinalizeChanged(t)
           \/ Claims!FinalizeLive(t) \/ Claims!FinalizeBacklog(t) \/ Claims!FinalizeSweep(t)
  <2>1. Concerned(job[t]) /\ \E F : On(t, F)
    BY <1>3, LookLiveFacts, LookBacklogFacts, DecodeFacts, FinalizeChangedFacts, FinalizeLiveFacts, FinalizeBacklogFacts,
       FinalizeSweepFacts DEF Answered
  <2> QED BY <1>1, <2>1
<1>4. CASE Claims!Unlink(t) \/ Claims!Release(t)
  BY <1>1, <1>2, <1>4, UnlinkFacts, ReleaseFacts DEF Ends
<1>5. CASE Claims!DeleteBegin(t)
  BY <1>1, <1>2, <1>5, DeleteBeginFacts DEF Ends
<1>6. CASE Claims!Retake(t)
  <2>1. TakesOn(t, job[t].path, "live")
    BY <1>6, RetakePicks DEF Picks
  <2> QED BY <1>2, <2>1 DEF TakesOn, Fresh
<1> QED BY <1>3, <1>4, <1>5, <1>6 DEF Claims!ThreadStep

LEMMA RetryGuardsStay ==
  ASSUME UserInvariant, ChronicleOK, ActiveOK, MarksOK, LossOK, AllCharged, Onward, [Claims!Next]_ClaimsVars,
         ~Claims!Restart, NEW u \in Claims!Threads, job'[u].mode = "retry", NEW CONSTANT g, g = job'[u].decoded
  PROVE  Guarded(g)'
<1>0. job'[u] # Claims!Idle
  BY DEF Claims!Idle
<1>1. g \in 1..written /\ Guarded(g)
  <2>1. CASE job'[u] = job[u] \/ Claims!ThreadStep(u)
    <3>1. job[u].mode = "retry" /\ job[u].decoded = g /\ job[u] # Claims!Idle
      BY <1>0, <2>1, RetriesStay
    <3> QED BY <3>1 DEF AllCharged, GuardOK, UserInvariant, JobsOK, JobOK, JobFits
  <2>2. CASE Wakes(u)
    <3>1. CASE \/ (Claims!Event /\ u = "observer") \/ (Claims!GenerationRetry /\ u = "timer")
               \/ (Claims!IncompleteRetry /\ u = "timer") \/ (Claims!ScanNext /\ u = "backlog")
      <4>1. job'[u].mode # "retry" \/ job'[u] = job[u]
        BY <1>0, <3>1, EventPicks, GenerationRetryPicks, IncompleteRetryFacts, ScanNextPicks DEF Picks, TakesOn, Fresh
      <4> QED BY <2>1, <4>1
    <3>2. ASSUME NEW p \in Claims!Paths, Claims!RetryRemoval(p), u = "supervisor" PROVE g \in 1..written /\ Guarded(g)
      <4>1. pending[p] # Claims!None /\ g = pending[p].generation
        BY <3>2, RetryRemovalFacts
      <4> QED BY <4>1 DEF AllCharged, GuardOK, UserInvariant, PendingsOK, PendingOK
    <3>3. ASSUME NEW p \in Claims!Paths, Claims!Sweep(p), u = "supervisor" PROVE FALSE
      BY <1>0, <3>3, SweepPicks DEF Picks, TakesOn, Fresh
    <3> QED BY <2>2, <3>1, <3>2, <3>3 DEF Wakes
  <2> QED BY <1>0, <2>1, <2>2, JobChanges DEF JobMoves
<1> QED BY <1>1, GuardStays

LEMMA NextKeepsGuards ==
  ASSUME UserInvariant, ChronicleOK, ActiveOK, MarksOK, LossOK, AllCharged, Onward, [Claims!Next]_ClaimsVars,
         ~Claims!Restart
  PROVE  GuardOK'
<1>1. \A g \in manual' : Guarded(g)'
  BY ManualGuardsStay
<1>2. ASSUME NEW p \in Claims!Paths, pending'[p] # Claims!None' PROVE Guarded(pending[p].generation)'
  <2>1. PICK g : g = pending'[p].generation
    OBVIOUS
  <2>2. pending'[p] # Claims!None
    BY <1>2 DEF Claims!None, Claims!Missing
  <2>3. Guarded(g)'
    BY <2>1, <2>2, QueueGuardsStay
  <2> QED BY <2>1, <2>3 DEF Guarded, OnDisk, Settling
<1>3. ASSUME NEW u \in Claims!Threads, job'[u].mode = "retry" PROVE Guarded(job[u].decoded)'
  <2>1. PICK g : g = job'[u].decoded
    OBVIOUS
  <2>2. Guarded(g)'
    BY <1>3, <2>1, RetryGuardsStay
  <2> QED BY <2>1, <2>2 DEF Guarded, OnDisk, Settling
<1> QED BY <1>1, <1>2, <1>3 DEF GuardOK

LEMMA RestartKeepsGuards ==
  ASSUME Claims!Restart
  PROVE  GuardOK'
<1>1. over' = TRUE
  BY DEF Claims!Restart
<1>2. \A p : Final(p)'
  BY <1>1 DEF Final
<1>3. \A g : Guarded(g)'
  BY <1>2 DEF Guarded
<1> QED BY <1>3 DEF GuardOK

\* What a thread holds is not counted as worked on by another.
LEMMA HeldIsNotRecent ==
  ASSUME UserInvariant, ChronicleOK, ActiveOK, MarksOK, AllCharged, FileStep, ChronicleOK', [Claims!Next]_ClaimsVars,
         NEW u \in Claims!Threads, Holds(job[u]), Holds(job'[u]), NEW CONSTANT p, p = job[u].path
  PROVE  file'[p] \notin recent'
<1>1. SUFFICES ASSUME file'[p] \in recent' PROVE FALSE
  OBVIOUS
<1>2. PICK g : g = file'[p]
  OBVIOUS
<1>3. p \in Claims!Paths /\ file[p] \notin recent
  BY ConcernedFits DEF Holds, AllCharged, HoldsFit, HoldFits
<1>4. g \in 1..written /\ g # Claims!Missing
  BY <1>1, <1>2, RecentIsNamed DEF MarksOK, UserInvariant, FilesOK, Claims!Missing
<1>5. name[g] = p
  BY <1>2, <1>3, <1>4 DEF ChronicleOK, FileStep, Claims!Missing
<1>6. file[p] = g
  BY <1>2, <1>3, <1>4 DEF FileStep, UserInvariant, FilesOK
<1>7. PICK t \in Claims!Threads : Claims!Release(t)
  <2>1. ~(recent' \subseteq recent)
    BY <1>1, <1>2, <1>3, <1>6
  <2>2. Claims!IncompleteRetry => recent' \subseteq recent
    BY IncompleteRetryFacts
  <2>3. \A h : Claims!RecentExpires(h) => recent' \subseteq recent
    BY DEF Claims!RecentExpires
  <2> QED BY <2>1, <2>2, <2>3, RecentChanges
<1>8. /\ job[t].stage = "release" /\ Concerned(job[t]) /\ g \in Claims!Worked(t)
      /\ job'[t].stage = "retake" \/ job'[t] = Claims!Idle
  BY <1>1, <1>2, <1>3, <1>6, <1>7, ReleaseFacts
<1>9. Holds(job[t]) /\ ClaimFits(job[t]) /\ name[job[t].decoded] = job[t].path /\ job[t].path \in Claims!Paths
  BY <1>8, ConcernedFits
<1>10. job[t].path = p
  <2>1. g = job[t].decoded \/ g \in job[t].seen \/ g = file[job[t].path]
    BY <1>8 DEF Claims!Worked, Claims!Now, Claims!Path
  <2>2. name[g] = job[t].path
    BY <1>4, <1>9, <2>1, FilesAreOnDisk DEF ClaimFits, UserInvariant
  <2> QED BY <1>5, <2>2
<1>11. t = u
  BY <1>9, <1>10 DEF ActiveOK
<1> QED BY <1>8, <1>11 DEF Holds, Concerned

LEMMA FilesVanish ==
  ASSUME UserInvariant, [Claims!Next]_ClaimsVars, NEW p \in Claims!Paths, file[p] # Claims!Missing, file'[p] = Claims!Missing
  PROVE  \E t \in Claims!Threads : Claims!Unlink(t) /\ file[p] = job[t].decoded /\ job[t].path = p
<1>0. DOMAIN file = Claims!Paths
  BY DEF UserInvariant, FilesOK
<1>1. ASSUME NEW t \in Claims!Threads, Claims!Unlink(t) PROVE file[p] = job[t].decoded /\ job[t].path = p
  <2>1. CASE UNCHANGED <<file, removed>>
    BY <2>1
  <2>2. CASE /\ file[job[t].path] = job[t].decoded
             /\ file' = [file EXCEPT ![job[t].path] = Claims!Missing]
    BY <1>0, <2>2
  <2> QED BY <1>1, <2>1, <2>2, UnlinkFacts
<1>2. ASSUME NEW t \in Claims!Threads, Claims!ThreadStep(t) PROVE Claims!Unlink(t) \/ file' = file
  BY <1>2 DEF Claims!ThreadStep, Claims!LookLive, Claims!LookBacklog, Claims!Decode, Claims!FinalizeChanged,
     Claims!FinalizeLive, Claims!FinalizeBacklog, Claims!FinalizeSweep, Claims!DeleteBegin, Claims!Release,
     Claims!Retake, Claims!disk
<1>3. CASE Claims!WriteScreenshot
  <2>1. file' = [file EXCEPT ![name[written + 1]] = written + 1]
    BY <1>3 DEF Claims!WriteScreenshot
  <2>2. written + 1 # Claims!Missing
    BY DEF UserInvariant, FilesOK, Claims!Missing
  <2> QED BY <1>0, <2>1, <2>2
<1>4. CASE \/ Claims!Event \/ Claims!GenerationRetry \/ Claims!IncompleteRetry \/ Claims!ScanBegin
           \/ Claims!ScanNext \/ Claims!ScanEnd
           \/ \E q \in Claims!Paths : Claims!ForgetFailure(q) \/ Claims!RetryRemoval(q) \/ Claims!Sweep(q)
           \/ Claims!ObserverDies \/ Claims!EnsureRunning \/ Claims!Age
           \/ \E g \in Claims!Generations : Claims!RecentExpires(g)
           \/ Claims!Restart \/ UNCHANGED ClaimsVars
  <2>1. file' = file
    BY <1>4 DEF Claims!Event, Claims!GenerationRetry, Claims!IncompleteRetry, Claims!ScanBegin,
       Claims!ScanNext, Claims!ScanEnd, Claims!ForgetFailure, Claims!RetryRemoval,
       Claims!Sweep, Claims!ObserverDies, Claims!EnsureRunning, Claims!Age, Claims!RecentExpires,
       Claims!Restart, Claims!disk, ClaimsVars
  <2> QED BY <2>1
<1> QED BY <1>1, <1>2, <1>3, <1>4 DEF Claims!Next

\* A file that is removed while a thread works on its path was the last one there.
LEMMA VanishedIsFinal ==
  ASSUME UserInvariant, ChronicleOK, ActiveOK, AllCharged, Onward, [Claims!Next]_ClaimsVars,
         NEW u \in Claims!Threads, Concerned(job[u]), Working(job[u]),
         NEW CONSTANT p, p = job[u].path, file'[p] = Claims!Missing
  PROVE  Final(p)'
<1>1. p \in Claims!Paths /\ job[u].decoded \in 1..written /\ name[job[u].decoded] = p /\ Holds(job[u])
  BY ConcernedFits DEF Working
<1>2. Final(p)
  <2>1. CASE file[p] = Claims!Missing
    BY <2>1 DEF AllCharged, HoldsFit, HoldFits
  <2>2. CASE file[p] # Claims!Missing
    <3>1. PICK t \in Claims!Threads : Claims!Unlink(t) /\ file[p] = job[t].decoded /\ job[t].path = p
      BY <1>1, <2>2, FilesVanish
    <3>2. job[t].stage = "unlink" /\ job[t] # Claims!Idle
      BY <3>1, UnlinkFacts
    <3>3. Guarded(file[p])
      BY <3>1, <3>2, RemovalIsGuarded
    <3>4. file[p] \notin recent
      BY <1>1 DEF AllCharged, HoldsFit, HoldFits
    <3>5. \A v \in Claims!Threads : ~Settling(job[v], file[p])
      BY <2>2, WorkedIsUnsettled
    <3> QED BY <1>1, <2>2, <3>3, <3>4, <3>5, GuardedIsFinal DEF UserInvariant
  <2> QED BY <2>1, <2>2
<1> QED BY <1>1, <1>2, FinalStays DEF UserInvariant

\* The parts of HoldFits, for the thread as it is after a step.
LEMMA HoldsAnew ==
  ASSUME NEW u, NEW CONSTANT p, NEW CONSTANT d, p = job'[u].path, d = job'[u].decoded,
         Holds(job'[u]) => file'[p] \notin recent',
         Working(job'[u]) /\ file'[p] = Claims!Missing => Final(p)',
         job'[u].stage = "claimed" /\ d \in manual' => LastOf(p, d)',
         job'[u].mode # "retry" /\ job'[u].stage = "decoded" => job'[u].got \in Claims!Generations,
         Holds(job'[u]) /\ job'[u].stage = "release" /\ ~job'[u].settled =>
            Final(p)' /\ (file'[p] = Claims!Missing \/ kind'[file'[p]] = "manual"),
         Holds(job'[u]) /\ job'[u].settled /\ file'[p] = d => Closed(d)'
  PROVE  HoldFits(job[u])'
<1>1. /\ Holds(job'[u]) = Holds(job[u])' /\ Working(job'[u]) = Working(job[u])'
      /\ Claims!Missing' = Claims!Missing
  BY DEF Holds, Concerned, Working, Claims!Idle, Claims!Missing
<1>2. Holds(job[u])' => file'[p] \notin recent'
  BY <1>1
<1>3. Working(job[u])' /\ file'[p] = Claims!Missing' => Final(p)'
  BY <1>1
<1>4. job'[u].stage = "claimed" /\ d \in manual' => LastOf(p, d)'
  OBVIOUS
<1>5. job'[u].mode # "retry" /\ job'[u].stage = "decoded" => job'[u].got \in Claims!Generations'
  BY DEF Claims!Generations
<1>6. Holds(job[u])' /\ job'[u].stage = "release" /\ ~job'[u].settled =>
         Final(p)' /\ (file'[p] = Claims!Missing' \/ kind'[file'[p]] = "manual")
  BY <1>1
<1>7. Holds(job[u])' /\ job'[u].settled /\ file'[p] = d => Closed(d)'
  BY <1>1
<1> QED BY <1>2, <1>3, <1>4, <1>5, <1>6, <1>7 DEF HoldFits, Claims!Manual

\* What a thread has claimed, and the index knows, is the last of its path.
LEMMA ClaimedIsLast ==
  ASSUME UserInvariant, ActiveOK, LossOK, AllCharged, Onward, [Claims!Next]_ClaimsVars, ~Claims!Restart,
         NEW u \in Claims!Threads, job[u].stage = "claimed", NEW CONSTANT p, NEW CONSTANT d,
         p = job[u].path, d = job[u].decoded, d \in manual'
  PROVE  LastOf(p, d)'
<1>1. Concerned(job[u])
  BY ConcernedByStage
<1>2. p \in Claims!Paths /\ d \in 1..written /\ name[d] = p /\ Holds(job[u])
  BY <1>1, ConcernedFits
<1>3. LastOf(p, d)
  <2>1. CASE d \in manual
    BY <2>1 DEF AllCharged, HoldsFit, HoldFits
  <2>2. CASE d \notin manual
    <3>1. PICK t \in Claims!Threads : Finalizes(t)
      <4>1. Claims!ScanBegin => manual' \subseteq manual
        BY DEF Claims!ScanBegin
      <4> QED BY <2>2, <4>1, IndexChanges
    <3>2. Holds(job[t]) /\ d = job[t].decoded /\ job[t].stage = "decoded"
      BY <2>2, <3>1, NewManualIsGuarded
    <3>3. name[d] = job[t].path
      BY <3>2, ConcernedFits DEF Holds
    <3>4. t = u
      BY <1>2, <3>2, <3>3 DEF ActiveOK
    <3> QED BY <3>2, <3>4
  <2> QED BY <2>1, <2>2
<1> QED BY <1>2, <1>3, LastStays DEF UserInvariant

\* A path that is finished gets nothing new.
LEMMA FinalFileStays ==
  ASSUME UserInvariant, ChronicleOK, Onward, ChronicleOK', NEW p \in Claims!Paths, NEW g \in 1..written, name[g] = p, Final(p)
  PROVE  Final(p)' /\ (file'[p] = file[p] \/ file'[p] = Claims!Missing)
<1>1. Final(p)' /\ \A h \in 1..written' : name[h] = p => h \in 1..written
  BY DEF Onward
<1>2. ASSUME file'[p] \in (written + 1)..written' PROVE FALSE
  <2>1. PICK h : h = file'[p]
    OBVIOUS
  <2>2. h \in 1..written' /\ h # Claims!Missing /\ h \notin 1..written
    BY <1>2, <2>1 DEF UserInvariant, FilesOK, Onward, FileStep, Claims!Missing
  <2>3. name'[file'[p]] = p
    BY <2>1, <2>2 DEF ChronicleOK, Claims!Missing
  <2>4. name[h] = p
    BY <2>1, <2>3 DEF Onward, FileStep
  <2> QED BY <1>1, <2>2, <2>4
<1> QED BY <1>1, <1>2 DEF Onward, FileStep

LEMMA HoldStays ==
  ASSUME UserInvariant, ChronicleOK, ActiveOK, MarksOK, LossOK, AllCharged, Onward, ChronicleOK', [Claims!Next]_ClaimsVars,
         ~Claims!Restart, NEW u \in Claims!Threads, job'[u] = job[u]
  PROVE  HoldFits(job[u])'
<1>1. PICK j : j = job[u]
  OBVIOUS
<1>2. PICK p : p = j.path
  OBVIOUS
<1>3. PICK d : d = j.decoded
  OBVIOUS
<1>4. job'[u] = j /\ job[u] = j /\ p = job'[u].path /\ d = job'[u].decoded /\ p = job[u].path /\ d = job[u].decoded
  BY <1>1, <1>2, <1>3
<1>5. HoldFits(j) /\ FileStep
  BY <1>1 DEF AllCharged, HoldsFit, Onward
<1>6. Concerned(j) => p \in Claims!Paths /\ d \in 1..written /\ name[d] = p /\ d \in Nat
  BY <1>4, ConcernedFits DEF UserInvariant, FilesOK
<1>7. Working(j) => Concerned(j)
  BY <1>4, ConcernedByStage DEF Working
<1>8. Holds(j) => file'[p] \notin recent'
  BY <1>4, <1>5, HeldIsNotRecent
<1>9. Working(j) /\ file'[p] = Claims!Missing => Final(p)'
  BY <1>4, <1>7, VanishedIsFinal
<1>10. j.stage = "claimed" /\ d \in manual' => LastOf(p, d)'
  BY <1>4, ClaimedIsLast
<1>11. j.mode # "retry" /\ j.stage = "decoded" => j.got \in Claims!Generations
  BY <1>5 DEF HoldFits
<1>12. Holds(j) /\ j.stage = "release" /\ ~j.settled =>
         Final(p)' /\ (file'[p] = Claims!Missing \/ kind'[file'[p]] = "manual")
  <2>1. HAVE Holds(j) /\ j.stage = "release" /\ ~j.settled
  <2>2. Final(p) /\ (file[p] = Claims!Missing \/ Claims!Manual(file[p]))
    BY <1>2, <1>5, <2>1 DEF HoldFits
  <2>3. Final(p)' /\ (file'[p] = file[p] \/ file'[p] = Claims!Missing)
    BY <1>6, <2>1, <2>2, FinalFileStays DEF Holds
  <2> QED BY <1>5, <2>2, <2>3 DEF Claims!Manual, FileStep
<1>13. Holds(j) /\ j.settled /\ file'[p] = d => Closed(d)'
  <2>1. HAVE Holds(j) /\ j.settled /\ file'[p] = d
  <2>2. p \in Claims!Paths /\ d \in 1..written /\ d \in Nat
    BY <1>6, <2>1 DEF Holds
  <2>3. file[p] = d
    BY <1>5, <2>1, <2>2 DEF FileStep, UserInvariant, FilesOK, Claims!Missing
  <2>4. Closed(d)
    BY <1>2, <1>3, <1>5, <2>1, <2>3 DEF HoldFits
  <2> QED BY <2>2, <2>4, ClosedStays
<1> QED BY <1>4, <1>8, <1>9, <1>10, <1>11, <1>12, <1>13, HoldsAnew

LEMMA HolderGoesOn ==
  ASSUME UserInvariant, NEW t, NEW F, Concerned(job[t]), On(t, F)
  PROVE  /\ Concerned(job'[t]) /\ job'[t].path = job[t].path /\ job'[t].mode = job[t].mode
         /\ "decoded" \notin F => job'[t].decoded = job[t].decoded
         /\ "settled" \notin F => job'[t].settled = job[t].settled
         /\ job'[t].stage # "retake" => Holds(job'[t])
<1>1. /\ job'[t].path = job[t].path /\ job'[t].mode = job[t].mode /\ DOMAIN job'[t] = JobFields
      /\ "decoded" \notin F => job'[t].decoded = job[t].decoded
      /\ "settled" \notin F => job'[t].settled = job[t].settled
  BY KeptFields DEF On
<1>2. job'[t] # Claims!Idle
  <2>1. DOMAIN Claims!Idle = {"stage", "mode"}
    BY DEF Claims!Idle
  <2> QED BY <1>1, <2>1 DEF JobFields
<1> QED BY <1>1, <1>2 DEF Concerned, Holds

\* A thread that goes on looking at its file.
LEMMA WorksOn ==
  ASSUME UserInvariant, ChronicleOK, ActiveOK, MarksOK, LossOK, AllCharged, Onward, ChronicleOK', [Claims!Next]_ClaimsVars,
         NEW t \in Claims!Threads, NEW F, Concerned(job[t]), Working(job[t]), On(t, F), F \cap {"settled"} = {},
         "decoded" \notin F \/ file'[job[t].path] # Claims!Missing,
         job'[t].stage \in {"decoding", "decoded"},
         job'[t].stage = "decoded" => job'[t].got \in Claims!Generations
  PROVE  HoldFits(job[t])'
<1>1. PICK p : p = job[t].path
  OBVIOUS
<1>2. PICK d : d = job'[t].decoded
  OBVIOUS
<1>3. Holds(job[t]) /\ ~job[t].settled
  BY ConcernedFits DEF ClaimFits, Working
<1>4. /\ Holds(job'[t]) /\ job'[t].path = p /\ job'[t].settled = job[t].settled
      /\ "decoded" \notin F => d = job[t].decoded
  BY <1>1, <1>2, HolderGoesOn
<1>5. file'[p] \notin recent'
  BY <1>1, <1>3, <1>4, HeldIsNotRecent DEF Onward
<1>6. file'[p] = Claims!Missing => Final(p)'
  BY <1>1, <1>4, VanishedIsFinal
<1>7. p = job'[t].path /\ d = job'[t].decoded /\ ~job'[t].settled /\ job'[t].stage # "claimed" /\ job'[t].stage # "release"
  BY <1>2, <1>3, <1>4
<1> QED BY <1>5, <1>6, <1>7, HoldsAnew

\* A thread that leaves its file undecided: it is the user's, or it is gone for good.
LEMMA LeavesAlone ==
  ASSUME UserInvariant, ChronicleOK, ActiveOK, MarksOK, LossOK, AllCharged, Onward, ChronicleOK', [Claims!Next]_ClaimsVars,
         NEW t \in Claims!Threads, Concerned(job[t]), Working(job[t]), On(t, {"stage"}), job'[t].stage = "release",
         Final(job[t].path), file[job[t].path] = Claims!Missing \/ Claims!Manual(file[job[t].path])
  PROVE  HoldFits(job[t])'
<1>1. PICK p : p = job[t].path
  OBVIOUS
<1>2. PICK d : d = job[t].decoded
  OBVIOUS
<1>3. /\ Holds(job[t]) /\ ~job[t].settled /\ p \in Claims!Paths /\ d \in 1..written /\ name[d] = p
  BY <1>1, <1>2, ConcernedFits DEF ClaimFits, Working
<1>4. /\ Holds(job'[t]) /\ p = job'[t].path /\ ~job'[t].settled /\ d = job'[t].decoded
  BY <1>1, <1>2, <1>3, HolderGoesOn
<1>5. file'[p] \notin recent'
  BY <1>1, <1>3, <1>4, HeldIsNotRecent DEF Onward
<1>6. Final(p)' /\ (file'[p] = file[p] \/ file'[p] = Claims!Missing)
  BY <1>1, <1>3, FinalFileStays
<1>7. file'[p] = Claims!Missing \/ kind'[file'[p]] = "manual"
  BY <1>1, <1>6 DEF Claims!Manual, Onward, FileStep
<1> QED BY <1>4, <1>5, <1>6, <1>7, HoldsAnew DEF Working

\* A thread that has come to a conclusion on its file.
LEMMA SettlesOn ==
  ASSUME UserInvariant, ChronicleOK, ActiveOK, MarksOK, LossOK, AllCharged, Onward, ChronicleOK', [Claims!Next]_ClaimsVars,
         NEW t \in Claims!Threads, NEW F, Holds(job[t]), On(t, F), "decoded" \notin F,
         job'[t].stage \in {"delete", "unlink", "release"}, job'[t].settled,
         NEW CONSTANT p, NEW CONSTANT d, p = job[t].path, d = job[t].decoded, file'[p] = d => Closed(d)'
  PROVE  HoldFits(job[t])'
<1>1. /\ Holds(job'[t]) /\ p = job'[t].path /\ d = job'[t].decoded
  BY HolderGoesOn DEF Holds
<1>2. file'[p] \notin recent'
  BY <1>1, HeldIsNotRecent DEF Onward
<1> QED BY <1>1, <1>2, HoldsAnew DEF Working

\* A thread that has just claimed a file: it has not been worked on, and what the index
\* knows of the path is its last.
LEMMA FreshHolds ==
  ASSUME UserInvariant, ChronicleOK, ActiveOK, MarksOK, AllCharged, Onward, NEW t \in Claims!Threads, NEW p \in Claims!Paths,
         NEW mode, Fresh(job'[t], p, mode), Claims!Claimable(p), UNCHANGED <<file, recent, manual>>
  PROVE  HoldFits(job[t])'
<1>1. PICK d : d = file[p]
  OBVIOUS
<1>2. d # Claims!Missing /\ p \notin active /\ d \notin recent
  BY <1>1 DEF Claims!Claimable
<1>3. d \in 1..written /\ name[d] = p /\ OnDisk(d)
  BY <1>1, <1>2, FilesAreOnDisk DEF UserInvariant
<1>4. d \in manual => LastOf(p, d)'
  <2>1. HAVE d \in manual
  <2>2. Guarded(d)
    BY <2>1 DEF AllCharged, GuardOK
  <2>3. ASSUME NEW v \in Claims!Threads, Settling(job[v], d) PROVE FALSE
    <3>1. Holds(job[v]) /\ job[v].decoded = d
      BY <2>3 DEF Settling
    <3>2. name[d] = job[v].path /\ job[v].path \in active
      BY <3>1, ConcernedFits DEF Holds
    <3> QED BY <1>2, <1>3, <3>2
  <2>4. LastOf(p, d)
    BY <1>1, <1>2, <2>2, <2>3, GuardedIsFinal DEF UserInvariant
  <2> QED BY <1>3, <2>4, LastStays DEF UserInvariant
<1>5. job'[t].path = p /\ job'[t].decoded = d /\ job'[t].stage = "claimed" /\ ~job'[t].settled /\ file'[p] = d
  BY <1>1 DEF Fresh
<1> QED BY <1>2, <1>4, <1>5, HoldsAnew

\* A thread that holds nothing.
LEMMA HoldsNothing ==
  ASSUME NEW t, ~Holds(job'[t]), job'[t].stage \notin {"claimed", "decoding", "decoded"}
  PROVE  HoldFits(job[t])'
<1>1. Holds(job'[t]) = Holds(job[t])' /\ Working(job'[t]) = Working(job[t])'
  BY DEF Holds, Concerned, Working, Claims!Idle
<1>2. ~Working(job'[t])
  BY DEF Working
<1> QED BY <1>1, <1>2 DEF HoldFits

\* What the index knows of a path in work is final there.
LEMMA KnownIsFinal ==
  ASSUME UserInvariant, ChronicleOK, ActiveOK, MarksOK, AllCharged, NEW t \in Claims!Threads, Concerned(job[t]),
         job[t].stage = "claimed",
         \/ file[job[t].path] = Claims!Missing \/ file[job[t].path] \in manual
         \/ job[t].decoded \in manual
  PROVE  Final(job[t].path) /\ (file[job[t].path] = Claims!Missing \/ Claims!Manual(file[job[t].path]))
<1>1. PICK p : p = job[t].path
  OBVIOUS
<1>2. PICK d : d = job[t].decoded
  OBVIOUS
<1>3. Holds(job[t]) /\ p \in Claims!Paths /\ d \in 1..written /\ name[d] = p /\ Working(job[t])
  BY <1>1, <1>2, ConcernedFits DEF Working
<1>4. HoldFits(job[t]) /\ \A g \in manual : Claims!Manual(g) /\ Guarded(g)
  BY DEF AllCharged, HoldsFit, GuardOK, UserInvariant, Claims!IndexIsTrue
<1>5. CASE file[p] = Claims!Missing
  BY <1>1, <1>3, <1>4, <1>5 DEF HoldFits
<1>6. CASE file[p] \in manual /\ file[p] # Claims!Missing
  <2>1. file[p] \notin recent
    BY <1>1, <1>3, <1>4 DEF HoldFits
  <2>2. \A v \in Claims!Threads : ~Settling(job[v], file[p])
    BY <1>1, <1>3, <1>6, WorkedIsUnsettled
  <2>3. Final(p)
    BY <1>3, <1>4, <1>6, <2>1, <2>2, GuardedIsFinal DEF UserInvariant
  <2> QED BY <1>1, <1>4, <1>6, <2>3
<1>7. CASE d \in manual
  <2>1. LastOf(p, d)
    BY <1>1, <1>2, <1>4, <1>7 DEF HoldFits
  <2>2. file[p] \in {Claims!Missing, d}
    BY <1>3, <2>1, LastOnDisk DEF LastOf, UserInvariant
  <2> QED BY <1>1, <1>4, <1>7, <2>1, <2>2 DEF LastOf
<1> QED BY <1>1, <1>2, <1>5, <1>6, <1>7

LEMMA LookLiveHolds ==
  ASSUME UserInvariant, ChronicleOK, ActiveOK, MarksOK, LossOK, AllCharged, Onward, ChronicleOK', [Claims!Next]_ClaimsVars,
         NEW t \in Claims!Threads, Claims!LookLive(t)
  PROVE  HoldFits(job[t])'
<1>1. job[t].stage = "claimed" /\ Concerned(job[t]) /\ Working(job[t])
  BY LookLiveFacts DEF Working
<1>2. file' = file
  BY DEF Claims!LookLive, Claims!disk
<1>3. CASE job[t].mode = "sweep" /\ job[t].decoded \notin old
  BY <1>3 DEF LossOK, RemovalsFit, RemovalFits
<1>4. CASE /\ On(t, {"stage"}) /\ job'[t].stage = "release"
           /\ \/ file[job[t].path] = Claims!Missing \/ file[job[t].path] \in manual
              \/ job[t].decoded \in manual
  <2>1. Final(job[t].path) /\ (file[job[t].path] = Claims!Missing \/ Claims!Manual(file[job[t].path]))
    BY <1>1, <1>4, KnownIsFinal
  <2> QED BY <1>1, <1>4, <2>1, LeavesAlone
<1>5. CASE /\ On(t, {"stage", "decoded", "seen"}) /\ job'[t].stage = "decoding"
           /\ file[job[t].path] # Claims!Missing
  <2>1. file'[job[t].path] # Claims!Missing
    BY <1>2, <1>5
  <2> QED BY <1>1, <1>5, <2>1, WorksOn
<1> QED BY <1>3, <1>4, <1>5, LookLiveFacts

LEMMA LookBacklogHolds ==
  ASSUME UserInvariant, ChronicleOK, ActiveOK, MarksOK, LossOK, AllCharged, Onward, ChronicleOK', [Claims!Next]_ClaimsVars,
         NEW t \in Claims!Threads, Claims!LookBacklog(t)
  PROVE  HoldFits(job[t])'
<1>1. /\ job[t].stage = "claimed" /\ Concerned(job[t]) /\ job[t].mode = "backlog" /\ On(t, {"stage"}) /\ Working(job[t])
      /\ job'[t].stage \in {"release", "decoding"}
      /\ job'[t].stage = "release" => job[t].decoded \in manual \/ scan.window
  BY LookBacklogFacts DEF Working
<1>2. ~scan.window
  <2>1. scan.on
    BY <1>1, ScansAreOn DEF ActiveOK, ClaimOK, Concerned, LossOK
  <2> QED BY <2>1 DEF AllCharged, IndexOK
<1>3. CASE job'[t].stage = "release"
  <2>1. Final(job[t].path) /\ (file[job[t].path] = Claims!Missing \/ Claims!Manual(file[job[t].path]))
    BY <1>1, <1>2, <1>3, KnownIsFinal
  <2> QED BY <1>1, <1>3, <2>1, LeavesAlone
<1>4. CASE job'[t].stage = "decoding"
  BY <1>1, <1>4, WorksOn
<1> QED BY <1>1, <1>3, <1>4

LEMMA DecodeHolds ==
  ASSUME UserInvariant, ChronicleOK, ActiveOK, MarksOK, LossOK, AllCharged, Onward, ChronicleOK', [Claims!Next]_ClaimsVars,
         NEW t \in Claims!Threads, Claims!Decode(t), unread = {}, unread' = {}
  PROVE  HoldFits(job[t])'
<1>1. job[t].stage = "decoding" /\ Concerned(job[t]) /\ Working(job[t])
  BY DecodeFacts DEF Working
<1>3. Holds(job[t]) /\ job[t].path \in Claims!Paths /\ job[t].decoded \in 1..written
  BY <1>1, ConcernedFits
<1>4. CASE On(t, {"stage"}) /\ job'[t].stage = "release" /\ file[job[t].path] = Claims!Missing
  <2>1. Final(job[t].path)
    BY <1>1, <1>4 DEF AllCharged, HoldsFit, HoldFits
  <2> QED BY <1>1, <1>4, <2>1, LeavesAlone
<1>5. CASE /\ On(t, {"stage", "got"}) /\ job'[t].stage = "decoded"
           /\ job'[t].got = file[job[t].path] /\ file[job[t].path] # Claims!Missing
  <2>1. file[job[t].path] \in Claims!Generations
    BY <1>3, <1>5, FilesAreOnDisk, ChronicleNames DEF UserInvariant
  <2> QED BY <1>1, <1>5, <2>1, WorksOn
<1> QED BY <1>4, <1>5, DecodeFacts

LEMMA FinalizeChangedHolds ==
  ASSUME UserInvariant, ChronicleOK, ActiveOK, MarksOK, LossOK, AllCharged, Onward, ChronicleOK', [Claims!Next]_ClaimsVars,
         NEW t \in Claims!Threads, Claims!FinalizeChanged(t)
  PROVE  HoldFits(job[t])'
<1>1. PICK p : p = job[t].path
  OBVIOUS
<1>2. PICK d : d = job[t].decoded
  OBVIOUS
<1>3. /\ job[t].stage = "decoded" /\ Concerned(job[t]) /\ file[p] # d
      /\ On(t, {"stage", "settled", "retry"}) /\ job'[t].stage = "release" /\ job'[t].settled = TRUE
  BY <1>1, <1>2, FinalizeChangedFacts
<1>4. file' = file
  BY DEF Claims!FinalizeChanged, Claims!disk
<1>5. Holds(job[t])
  BY <1>3, ConcernedFits
<1> QED BY <1>1, <1>2, <1>3, <1>4, <1>5, SettlesOn

\* What a thread concludes of a file that it has read closes it.
LEMMA ConclusionCloses ==
  ASSUME UserInvariant, ChronicleOK, ActiveOK, LossOK, AllCharged, Onward, NEW t \in Claims!Threads, Finalizes(t),
         NEW CONSTANT d, d = job[t].decoded, file[job[t].path] = d
  PROVE  Closed(d)'
<1>1. Answered(t) /\ job[t].stage = "decoded" /\ Concerned(job[t]) /\ Working(job[t])
  BY FinalizesFacts DEF Answered, Working
<1>2. /\ d \in 1..written /\ d \in Nat /\ JobFits(job[t])
  BY <1>1, ConcernedFits, ConcernedByStage DEF UserInvariant, FilesOK
<1>3. job[t].got \in Claims!Generations
  BY <1>1, ReadIsComplete
<1>4. job[t].got = d
  BY <1>1, <1>2, <1>3 DEF JobFits, Concerned
<1>5. kind' = kind
  BY DEF Onward, FileStep
<1>6. CASE kind[d] # "owned"
  BY <1>5, <1>6 DEF Closed
<1>7. CASE kind[d] = "owned"
  <2>1. Claims!Shows(t, "owned")
    BY <1>3, <1>4, <1>7 DEF Claims!Shows
  <2>2. CASE Claims!FinalizeLive(t)
    <3>1. Claims!Accept(d, TRUE)
      BY <2>1, <2>2, FinalizeLiveFacts
    <3>2. frontier' >= d
      BY <1>2, <3>1, AcceptFacts
    <3> QED BY <3>2 DEF Closed, Due
  <2>3. CASE Claims!FinalizeBacklog(t)
    <3>1. job[t].mode = "backlog" /\ t = "backlog"
      BY <1>1, <2>3, FinalizeBacklogFacts DEF ActiveOK, ClaimOK
    <3>2. ~scan.blocked
      BY <1>1, <3>1, ScansAreOn DEF LossOK, Concerned, AllCharged, IndexOK
    <3>3. PICK publish : publish = ((scan.recent /\ job[t].decoded \notin scan.old) /\ ~scan.applied)
      OBVIOUS
    <3>4. publish \in BOOLEAN
      BY <3>3
    <3>5. Claims!Accept(job[t].decoded, publish)
      BY <2>1, <2>3, <3>2, <3>3 DEF Claims!FinalizeBacklog
    <3>6. frontier' >= d
      BY <1>2, <3>4, <3>5, AcceptFacts
    <3> QED BY <3>6 DEF Closed, Due
  <2>4. CASE Claims!FinalizeSweep(t)
    <3>1. d \in old
      BY <2>4, FinalizeSweepFacts DEF LossOK, RemovalsFit, RemovalFits
    <3> QED BY <3>1 DEF Closed, Due, Onward
  <2> QED BY <2>2, <2>3, <2>4 DEF Finalizes
<1> QED BY <1>6, <1>7

LEMMA FinalizesHolds ==
  ASSUME UserInvariant, ChronicleOK, ActiveOK, MarksOK, LossOK, AllCharged, Onward, ChronicleOK', [Claims!Next]_ClaimsVars,
         NEW t \in Claims!Threads, Finalizes(t)
  PROVE  HoldFits(job[t])'
<1>1. PICK p : p = job[t].path
  OBVIOUS
<1>2. PICK d : d = job[t].decoded
  OBVIOUS
<1>3. file' = file
  BY DEF Finalizes, Claims!FinalizeLive, Claims!FinalizeBacklog, Claims!FinalizeSweep, Claims!disk
<1>4. job[t].stage = "decoded" /\ Concerned(job[t])
  BY FinalizesFacts DEF Answered
<1>5. Holds(job[t])
  BY <1>4, ConcernedFits
<1>6. PICK F \in {{"stage", "settled"}, {"stage", "settled", "again"}} :
         On(t, F) /\ job'[t].settled = TRUE /\ job'[t].stage \in {"delete", "release"}
  BY FinalizeLiveFacts, FinalizeBacklogFacts, FinalizeSweepFacts DEF Finalizes
<1>7. "decoded" \notin F
  BY <1>6
<1>8. file'[p] = d => Closed(d)'
  BY <1>1, <1>2, <1>3, ConclusionCloses
<1> QED BY <1>1, <1>2, <1>5, <1>6, <1>7, <1>8, SettlesOn

LEMMA DeletesHold ==
  ASSUME UserInvariant, ChronicleOK, ActiveOK, MarksOK, LossOK, AllCharged, Onward, ChronicleOK', [Claims!Next]_ClaimsVars,
         NEW t \in Claims!Threads, Claims!DeleteBegin(t) \/ Claims!Unlink(t)
  PROVE  HoldFits(job[t])'
<1>1. PICK p : p = job[t].path
  OBVIOUS
<1>2. PICK d : d = job[t].decoded
  OBVIOUS
<1>3. job[t].stage \in {"delete", "unlink"} /\ job[t] # Claims!Idle
  BY DeleteBeginFacts, UnlinkFacts
<1>4. CASE job[t].mode = "retry"
  <2>1. job'[t] = Claims!Idle \/ (job'[t].mode = "retry" /\ job'[t].stage = "unlink")
    BY <1>4, DeleteBeginFacts, UnlinkFacts DEF Ends, Concerned
  <2>2. ~Holds(job'[t]) /\ job'[t].stage \notin {"claimed", "decoding", "decoded"}
    BY <2>1 DEF Holds, Concerned, Claims!Idle
  <2> QED BY <2>2, HoldsNothing
<1>5. CASE job[t].mode # "retry"
  <2>1. Concerned(job[t])
    BY <1>3, <1>5 DEF Concerned
  <2>2. /\ Holds(job[t]) /\ job[t].settled /\ p \in Claims!Paths /\ d \in 1..written /\ d \in Nat
    BY <1>1, <1>2, <1>3, <2>1, ConcernedFits DEF ClaimFits, UserInvariant, FilesOK
  <2>3. On(t, {"stage"}) /\ job'[t].stage \in {"release", "unlink"}
    BY <1>5, <2>1, DeleteBeginFacts, UnlinkFacts DEF Ends
  <2>4. job'[t].settled
    BY <2>1, <2>2, <2>3, HolderGoesOn
  <2>5. file'[p] = d => Closed(d)'
    <3>1. HAVE file'[p] = d
    <3>2. file[p] = d
      BY <2>2, <3>1 DEF Onward, FileStep, UserInvariant, FilesOK, Claims!Missing
    <3>3. Closed(d)
      BY <1>1, <1>2, <2>2, <3>2 DEF AllCharged, HoldsFit, HoldFits
    <3> QED BY <2>2, <3>3, ClosedStays
  <2> QED BY <1>1, <1>2, <2>2, <2>3, <2>4, <2>5, SettlesOn
<1> QED BY <1>4, <1>5

LEMMA ReleaseHolds ==
  ASSUME UserInvariant, NEW t \in Claims!Threads, Claims!Release(t)
  PROVE  HoldFits(job[t])'
<1>1. job'[t].stage = "retake" \/ job'[t] = Claims!Idle
  BY ReleaseFacts
<1>2. ~Holds(job'[t]) /\ job'[t].stage \notin {"claimed", "decoding", "decoded"}
  BY <1>1 DEF Holds, Concerned, Claims!Idle
<1> QED BY <1>2, HoldsNothing

LEMMA PicksHold ==
  ASSUME UserInvariant, ChronicleOK, ActiveOK, MarksOK, AllCharged, Onward, NEW t \in Claims!Threads, NEW p, NEW mode,
         Picks(t, p, mode), UNCHANGED <<file, recent, manual>>
  PROVE  HoldFits(job[t])'
<1>1. p \in Claims!Paths
  BY DEF Picks
<1>2. CASE job'[t] = Claims!Idle
  <2>1. ~Holds(job'[t]) /\ job'[t].stage \notin {"claimed", "decoding", "decoded"}
    BY <1>2 DEF Holds, Concerned, Claims!Idle
  <2> QED BY <2>1, HoldsNothing
<1>3. CASE Claims!Claimable(p) /\ Fresh(job'[t], p, mode)
  BY <1>1, <1>3, FreshHolds
<1> QED BY <1>2, <1>3 DEF Picks, TakesOn

LEMMA WakesHold ==
  ASSUME UserInvariant, ChronicleOK, ActiveOK, MarksOK, LossOK, AllCharged, Onward, ChronicleOK', [Claims!Next]_ClaimsVars,
         NEW u \in Claims!Threads, Wakes(u), job'[u] # job[u]
  PROVE  HoldFits(job[u])'
<1>1. CASE Claims!Event /\ u = "observer"
  <2>1. UNCHANGED <<file, recent, manual>>
    BY <1>1 DEF Claims!Event, Claims!disk, Claims!index, Claims!indexMemory
  <2> QED BY <1>1, <2>1, EventPicks, PicksHold
<1>2. CASE Claims!GenerationRetry /\ u = "timer"
  <2>1. UNCHANGED <<file, recent, manual>>
    BY <1>2 DEF Claims!GenerationRetry, Claims!disk, Claims!index, Claims!indexMemory
  <2> QED BY <1>2, <2>1, GenerationRetryPicks, PicksHold
<1>3. CASE Claims!IncompleteRetry /\ u = "timer"
  BY <1>3, NoExpiredRetry
<1>4. CASE Claims!ScanNext /\ u = "backlog"
  <2>1. UNCHANGED <<file, recent, manual>>
    BY <1>4 DEF Claims!ScanNext, Claims!disk, Claims!index, Claims!indexMemory
  <2>2. \E p : Picks("backlog", p, "backlog")
    BY <1>4, ScanNextPicks
  <2> QED BY <1>4, <2>1, <2>2, PicksHold
<1>5. ASSUME NEW p \in Claims!Paths, Claims!RetryRemoval(p), u = "supervisor" PROVE HoldFits(job[u])'
  <2>1. job'[u].mode = "retry" /\ job'[u].stage = "delete"
    BY <1>5, RetryRemovalFacts
  <2>2. ~Holds(job'[u]) /\ job'[u].stage \notin {"claimed", "decoding", "decoded"}
    BY <2>1 DEF Holds, Concerned
  <2> QED BY <2>2, HoldsNothing
<1>6. ASSUME NEW p \in Claims!Paths, Claims!Sweep(p), u = "supervisor" PROVE HoldFits(job[u])'
  <2>1. UNCHANGED <<file, recent, manual>>
    BY <1>6 DEF Claims!Sweep, Claims!disk, Claims!index, Claims!indexMemory
  <2> QED BY <1>6, <2>1, SweepPicks, PicksHold
<1> QED BY <1>1, <1>2, <1>3, <1>4, <1>5, <1>6 DEF Wakes

LEMMA RetakeHolds ==
  ASSUME UserInvariant, ChronicleOK, ActiveOK, MarksOK, AllCharged, Onward, NEW t \in Claims!Threads, Claims!Retake(t)
  PROVE  HoldFits(job[t])'
<1>1. UNCHANGED <<file, recent, manual>>
  BY DEF Claims!Retake, Claims!disk, Claims!index, Claims!indexMemory
<1>2. Picks(t, job[t].path, "live")
  BY RetakePicks
<1> QED BY <1>1, <1>2, PicksHold

LEMMA NextKeepsHolds ==
  ASSUME UserInvariant, ChronicleOK, ActiveOK, MarksOK, LossOK, AllCharged, Onward, ChronicleOK', [Claims!Next]_ClaimsVars,
         ~Claims!Restart, unread = {}, unread' = {}
  PROVE  HoldsFit'
<1>1. ASSUME NEW u \in Claims!Threads PROVE HoldFits(job[u])'
  <2>1. CASE job'[u] = job[u]
    BY <2>1, HoldStays
  <2>2. CASE Claims!ThreadStep(u)
    BY <2>2, LookLiveHolds, LookBacklogHolds, DecodeHolds, FinalizeChangedHolds, FinalizesHolds, DeletesHold,
       ReleaseHolds, RetakeHolds DEF Claims!ThreadStep, Finalizes
  <2>3. CASE Wakes(u)
    BY <2>1, <2>3, WakesHold
  <2> QED BY <2>1, <2>2, <2>3, JobChanges DEF JobMoves
<1> QED BY <1>1 DEF HoldsFit

\* What will lead to a file that is still to be applied, after a step.
ChargedNext(p) ==
  \/ ~observing' \/ p \in events' \/ p \in genTimers' \/ rescan'
  \/ \E e \in scan'.todo : e.path = p
  \/ \E t \in Claims!Threads : Concerned(job'[t]) /\ job'[t].path = p
Open(p) == p \in Claims!Paths /\ file[p] # Claims!Missing /\ ~Closed(file[p])

LEMMA ChargedAnew ==
  ASSUME NEW CONSTANT p, ChargedNext(p)
  PROVE  Charged(p)'
BY DEF ChargedNext, Charged, Concerned, Claims!Idle

\* A thread that comes for such a file takes it on, or another one has it.
LEMMA PicksCharge ==
  ASSUME UserInvariant, ChronicleOK, ActiveOK, AllCharged, NEW t \in Claims!Threads, NEW p, NEW mode,
         Picks(t, p, mode), Open(p)
  PROVE  ChargedNext(p)
<1>1. p \in Claims!Paths /\ file[p] # Claims!Missing /\ ~Closed(file[p])
  BY DEF Open
<1>2. file[p] \notin recent
  <2>1. OnDisk(file[p])
    BY <1>1, FilesAreOnDisk DEF UserInvariant
  <2> QED BY <1>1, <2>1 DEF AllCharged, IndexOK
<1>3. CASE Claims!Claimable(p)
  <2>1. Fresh(job'[t], p, mode) /\ mode \in {"live", "backlog", "sweep"}
    BY <1>3 DEF Picks, TakesOn
  <2>2. Concerned(job'[t]) /\ job'[t].path = p
    BY <2>1 DEF Fresh, Concerned, Claims!Idle
  <2> QED BY <2>2 DEF ChargedNext
<1>4. CASE ~Claims!Claimable(p)
  <2>1. p \in active
    BY <1>1, <1>2, <1>4 DEF Claims!Claimable
  <2>2. PICK v \in Claims!Threads : Holds(job[v]) /\ job[v].path = p
    BY <2>1 DEF ActiveOK
  <2>3. job'[v] = job[v]
    BY <2>2 DEF Picks, TakesOn, OneJob
  <2> QED BY <2>2, <2>3 DEF ChargedNext, Holds
<1> QED BY <1>3, <1>4

\* The end of a claim leaves no such file behind.
LEMMA ReleaseCharges ==
  ASSUME UserInvariant, ChronicleOK, ActiveOK, AllCharged, NEW t \in Claims!Threads, Claims!Release(t),
         NEW p, p = job[t].path, Open(p)
  PROVE  ChargedNext(p)
<1>1. /\ job[t].stage = "release" /\ Concerned(job[t])
      /\ \/ On(t, {"stage"}) /\ job'[t].stage = "retake"
         \/ OneJob(t) /\ job'[t] = Claims!Idle
      /\ Claims!NewWork(t) =>
            \/ On(t, {"stage"}) /\ job'[t].stage = "retake"
            \/ p \in genTimers'
            \/ rescan'
  BY ReleaseFacts
<1>2. CASE On(t, {"stage"})
  BY <1>1, <1>2, HolderGoesOn DEF ChargedNext
<1>3. CASE Claims!NewWork(t)
  BY <1>1, <1>2, <1>3 DEF ChargedNext
<1>4. CASE ~Claims!NewWork(t)
  <2>1. Holds(job[t])
    BY <1>1 DEF Holds
  <2>2. file[p] # Claims!Missing /\ ~Closed(file[p])
    BY DEF Open
  <2>3. CASE job[t].settled
    <3>1. file[p] = job[t].decoded
      BY <1>4, <2>2, <2>3 DEF Claims!NewWork, Claims!Changed, Claims!Now, Claims!Path
    <3> QED BY <2>1, <2>2, <2>3, <3>1 DEF AllCharged, HoldsFit, HoldFits
  <2>4. CASE ~job[t].settled
    <3>1. Claims!Manual(file[p])
      BY <1>1, <2>1, <2>2, <2>4 DEF AllCharged, HoldsFit, HoldFits
    <3> QED BY <2>2, <3>1 DEF Closed, Claims!Manual
  <2> QED BY <2>3, <2>4
<1> QED BY <1>3, <1>4

\* A thread that works on it goes on, or sees to it that another one does.
LEMMA ThreadCharges ==
  ASSUME UserInvariant, ChronicleOK, ActiveOK, AllCharged, NEW t \in Claims!Threads, Claims!ThreadStep(t),
         Concerned(job[t]), NEW p, p = job[t].path, Open(p)
  PROVE  ChargedNext(p)
<1>1. ASSUME NEW F, On(t, F) PROVE ChargedNext(p)
  BY <1>1, HolderGoesOn DEF ChargedNext
<1>2. CASE Claims!LookLive(t)
  BY <1>1, <1>2, LookLiveFacts
<1>3. CASE Claims!LookBacklog(t)
  BY <1>1, <1>3, LookBacklogFacts
<1>4. CASE Claims!Decode(t)
  BY <1>1, <1>4, DecodeFacts
<1>5. CASE Claims!FinalizeChanged(t)
  BY <1>1, <1>5, FinalizeChangedFacts
<1>6. CASE Finalizes(t)
  BY <1>1, <1>6, FinalizeLiveFacts, FinalizeBacklogFacts, FinalizeSweepFacts DEF Finalizes
<1>7. CASE Claims!DeleteBegin(t)
  <2>1. On(t, {"stage"})
    BY <1>7, DeleteBeginFacts DEF Ends, Concerned
  <2> QED BY <1>1, <2>1
<1>8. CASE Claims!Unlink(t)
  <2>1. On(t, {"stage"})
    BY <1>8, UnlinkFacts DEF Ends, Concerned
  <2> QED BY <1>1, <2>1
<1>9. CASE Claims!Release(t)
  BY <1>9, ReleaseCharges
<1>10. CASE Claims!Retake(t)
  <2>1. Picks(t, job[t].path, "live")
    BY <1>10, RetakePicks
  <2> QED BY <2>1, PicksCharge
<1> QED BY <1>2, <1>3, <1>4, <1>5, <1>6, <1>7, <1>8, <1>9, <1>10 DEF Claims!ThreadStep, Finalizes

\* A thread at work takes no wakeup away.
LEMMA ThreadsKeepWakeups ==
  ASSUME UserInvariant, NEW t \in Claims!Threads, Claims!ThreadStep(t)
  PROVE  observing' = observing /\ events' = events /\ genTimers \subseteq genTimers' /\ (rescan => rescan')
<1>1. CASE Finalizes(t)
  <2>1. UNCHANGED <<observing, events, genTimers>>
    BY <1>1 DEF Finalizes, Claims!FinalizeLive, Claims!FinalizeBacklog, Claims!FinalizeSweep, Claims!wakeups
  <2>2. rescan => rescan'
    BY <1>1, FinalizesFacts DEF Answered
  <2> QED BY <2>1, <2>2
<1>2. CASE Claims!Release(t)
  <2>1. UNCHANGED <<observing, events>> /\ genTimers \subseteq genTimers'
    BY <1>2 DEF Claims!Release
  <2>2. rescan => rescan'
    BY <1>2 DEF Claims!Release
  <2> QED BY <2>1, <2>2
<1>3. CASE \/ Claims!LookLive(t) \/ Claims!LookBacklog(t) \/ Claims!Decode(t) \/ Claims!FinalizeChanged(t)
           \/ Claims!DeleteBegin(t) \/ Claims!Unlink(t) \/ Claims!Retake(t)
  <2>1. UNCHANGED <<observing, events, genTimers, rescan>>
    BY <1>3 DEF Claims!LookLive, Claims!LookBacklog, Claims!Decode, Claims!FinalizeChanged,
       Claims!DeleteBegin, Claims!Unlink, Claims!Retake, Claims!wakeups
  <2> QED BY <2>1
<1> QED BY <1>1, <1>2, <1>3 DEF Claims!ThreadStep, Finalizes

\* The wakeups after any other step than those that use them.
LEMMA OthersKeepWakeups ==
  ASSUME \/ Claims!IncompleteRetry \/ Claims!ScanNext \/ Claims!ScanEnd
         \/ \E q \in Claims!Paths : Claims!ForgetFailure(q) \/ Claims!RetryRemoval(q) \/ Claims!Sweep(q)
         \/ Claims!Age \/ \E g \in Claims!Generations : Claims!RecentExpires(g)
         \/ UNCHANGED ClaimsVars
  PROVE  UNCHANGED <<observing, events, genTimers, rescan>>
BY DEF Claims!IncompleteRetry, Claims!ScanNext, Claims!ScanEnd, Claims!ForgetFailure, Claims!RetryRemoval,
   Claims!Sweep, Claims!Age, Claims!RecentExpires, Claims!wakeups, ClaimsVars

\* A file's event, timer or scan is used only by what takes the file on.
LEMMA WakeupsCharge ==
  ASSUME UserInvariant, ChronicleOK, ActiveOK, AllCharged, [Claims!Next]_ClaimsVars, ~Claims!Restart, NEW p, Open(p),
         ~observing \/ p \in events \/ p \in genTimers \/ rescan
  PROVE  ChargedNext(p)
<1>1. ASSUME observing' = observing, events' = events, genTimers \subseteq genTimers', rescan => rescan'
      PROVE  ChargedNext(p)
  BY <1>1 DEF ChargedNext
<1>2. ASSUME NEW t \in Claims!Threads, Claims!ThreadStep(t) PROVE ChargedNext(p)
  BY <1>1, <1>2, ThreadsKeepWakeups
<1>3. CASE Claims!Event
  <2>1. PICK q \in events : events' = events \ {q} /\ Picks("observer", q, "live")
    BY <1>3, EventPicks
  <2>2. UNCHANGED <<observing, genTimers, rescan>>
    BY <1>3 DEF Claims!Event
  <2>3. CASE p = q
    <3>1. "observer" \in Claims!Threads
      BY DEF Claims!Threads
    <3> QED BY <2>1, <2>3, <3>1, PicksCharge
  <2>4. CASE p # q
    BY <2>1, <2>2, <2>4 DEF ChargedNext
  <2> QED BY <2>3, <2>4
<1>4. CASE Claims!GenerationRetry
  <2>1. PICK q \in genTimers : genTimers' = genTimers \ {q} /\ Picks("timer", q, "live")
    BY <1>4, GenerationRetryPicks
  <2>2. UNCHANGED <<observing, events, rescan>>
    BY <1>4 DEF Claims!GenerationRetry
  <2>3. CASE p = q
    <3>1. "timer" \in Claims!Threads
      BY DEF Claims!Threads
    <3> QED BY <2>1, <2>3, <3>1, PicksCharge
  <2>4. CASE p # q
    BY <2>1, <2>2, <2>4 DEF ChargedNext
  <2> QED BY <2>3, <2>4
<1>5. CASE Claims!ScanBegin
  <2>1. PICK window, selected :
          scan' = [on |-> TRUE, recent |-> TRUE, old |-> old, blocked |-> FALSE, applied |-> FALSE,
                    incomplete |-> 0, window |-> window, selected |-> selected,
                    todo |-> {[path |-> q, generation |-> file[q]] :
                                q \in {r \in Claims!Paths : file[r] # Claims!Missing}}]
    BY <1>5 DEF Claims!ScanBegin
  <2>2. [path |-> p, generation |-> file[p]] \in scan'.todo
    BY <2>1 DEF Open
  <2> QED BY <2>2 DEF ChargedNext
<1>6. CASE Claims!WriteScreenshot
  <2>1. UNCHANGED <<observing, genTimers, rescan>> /\ events \subseteq events'
    BY <1>6 DEF Claims!WriteScreenshot
  <2> QED BY <2>1 DEF ChargedNext
<1>7. CASE Claims!ObserverDies
  BY <1>7 DEF Claims!ObserverDies, ChargedNext
<1>8. CASE Claims!EnsureRunning
  BY <1>8 DEF Claims!EnsureRunning, ChargedNext
<1>9. CASE \/ Claims!IncompleteRetry \/ Claims!ScanNext \/ Claims!ScanEnd
           \/ \E q \in Claims!Paths : Claims!ForgetFailure(q) \/ Claims!RetryRemoval(q) \/ Claims!Sweep(q)
           \/ Claims!Age \/ \E g \in Claims!Generations : Claims!RecentExpires(g)
           \/ UNCHANGED ClaimsVars
  BY <1>1, <1>9, OthersKeepWakeups
<1> QED BY <1>2, <1>3, <1>4, <1>5, <1>6, <1>7, <1>8, <1>9 DEF Claims!Next

\* A scan takes a file it has listed on, unless it ends early: then something newer
\* could not be read.
LEMMA EntriesCharge ==
  ASSUME UserInvariant, ChronicleOK, ActiveOK, LossOK, AllCharged, Onward, [Claims!Next]_ClaimsVars, ~Claims!Restart,
         unread' = {}, NEW p, Open(p), NEW e \in scan.todo, e.path = p
  PROVE  ChargedNext(p)
<1>1. p \in Claims!Paths /\ file[p] # Claims!Missing /\ ~Closed(file[p]) /\ file[p] \in 1..written /\ name[file[p]] = p
  BY FilesAreOnDisk DEF Open, UserInvariant
<1>2. ASSUME e \in scan'.todo PROVE ChargedNext(p)
  BY <1>2 DEF ChargedNext
<1>3. scan # Claims!NoScan
  BY DEF Claims!NoScan
<1>4. DOMAIN scan = ScanFields /\ scan.on
  BY <1>3 DEF LossOK, ScanOK
<1>5. ASSUME NEW t \in Claims!Threads, Claims!LookBacklog(t) PROVE ChargedNext(p)
  <2>1. PICK blocked : scan' = [scan EXCEPT !.blocked = blocked]
    BY <1>5, LookBacklogFacts
  <2>2. scan'.todo = scan.todo
    BY <1>4, <2>1 DEF ScanFields
  <2> QED BY <1>2, <2>2
<1>6. ASSUME NEW t \in Claims!Threads, Claims!FinalizeBacklog(t) PROVE ChargedNext(p)
  <2>1. Claims!Complete(t) /\ job[t].got # Claims!NoDecoder
    BY <1>6, FinalizeBacklogFacts, ReadIsComplete
  <2>2. PICK todo : todo = IF \/ job[t].got = Claims!NoDecoder
                              \/ ~Claims!Complete(t) /\ scan.incomplete + 1 >= RetryWindow
                           THEN {} ELSE scan.todo
    OBVIOUS
  <2>3. PICK applied, blocked, incomplete : scan' = [scan EXCEPT !.applied = applied, !.blocked = blocked,
                                              !.incomplete = incomplete, !.todo = todo]
    BY <1>6, <2>2 DEF Claims!FinalizeBacklog
  <2>4. scan'.todo = scan.todo
    BY <1>4, <2>1, <2>2, <2>3 DEF ScanFields
  <2> QED BY <1>2, <2>4
<1>7. CASE Claims!ScanBegin
  <2>1. ~scan.on
    BY <1>7 DEF Claims!ScanBegin
  <2> QED BY <1>4, <2>1
<1>8. CASE Claims!ScanNext
  <2>1. PICK f \in scan.todo :
          /\ scan' = [scan EXCEPT !.todo = @ \ {f}, !.recent = f.generation \notin scan.old]
          /\ \/ file[f.path] \in manual /\ UNCHANGED <<job, active>>
             \/ Picks("backlog", f.path, "backlog")
    BY <1>8, ScanNextPicks
  <2>2. scan'.todo = scan.todo \ {f}
    BY <1>4, <2>1 DEF ScanFields
  <2>3. CASE f # e
    BY <1>2, <2>2, <2>3
  <2>4. CASE f = e
    <3>1. file[p] \notin manual
      BY <1>1 DEF Closed, UserInvariant, Claims!IndexIsTrue, Claims!Manual
    <3>2. "backlog" \in Claims!Threads
      BY DEF Claims!Threads
    <3> QED BY <2>1, <2>4, <3>1, <3>2, PicksCharge
  <2> QED BY <2>3, <2>4
<1>9. CASE Claims!ScanEnd
  <2>1. scan.todo # {}
    OBVIOUS
  <2>2. unread' = unread \cup {file[f.path] : f \in scan.todo}
    BY <1>9, <2>1 DEF Claims!ScanEnd
  <2>3. file[p] \in unread'
    BY <2>2
  <2> QED BY <2>3
<1>10. CASE UNCHANGED scan
  BY <1>2, <1>10
<1> QED BY <1>5, <1>6, <1>7, <1>8, <1>9, <1>10, ScanChanges

\* The threads that have it.
LEMMA WorkersCharge ==
  ASSUME UserInvariant, ChronicleOK, ActiveOK, AllCharged, [Claims!Next]_ClaimsVars, ~Claims!Restart,
         NEW p, Open(p), NEW t \in Claims!Threads, Concerned(job[t]), job[t].path = p
  PROVE  ChargedNext(p)
<1>1. CASE job'[t] = job[t]
  BY <1>1 DEF ChargedNext
<1>2. CASE Claims!ThreadStep(t)
  BY <1>2, ThreadCharges
<1> QED BY <1>1, <1>2, JobChanges DEF JobMoves, Concerned

LEMMA OnlyWritingWrites ==
  ASSUME [Claims!Next]_ClaimsVars, written' # written
  PROVE  Claims!WriteScreenshot
<1>1. ASSUME NEW t \in Claims!Threads, Claims!ThreadStep(t) PROVE written' = written
  BY <1>1 DEF Claims!ThreadStep, Claims!LookLive, Claims!LookBacklog, Claims!Decode, Claims!FinalizeChanged,
     Claims!FinalizeLive, Claims!FinalizeBacklog, Claims!FinalizeSweep, Claims!DeleteBegin, Claims!Unlink,
     Claims!Release, Claims!Retake, Claims!disk
<1>2. CASE \/ Claims!Event \/ Claims!GenerationRetry \/ Claims!IncompleteRetry \/ Claims!ScanBegin
           \/ Claims!ScanNext \/ Claims!ScanEnd \/ Claims!Restart
           \/ \E q \in Claims!Paths : Claims!ForgetFailure(q) \/ Claims!RetryRemoval(q) \/ Claims!Sweep(q)
           \/ Claims!ObserverDies \/ Claims!EnsureRunning \/ Claims!Age
           \/ \E g \in Claims!Generations : Claims!RecentExpires(g)
           \/ UNCHANGED ClaimsVars
  <2>1. written' = written
    BY <1>2 DEF Claims!Event, Claims!GenerationRetry, Claims!IncompleteRetry, Claims!ScanBegin,
       Claims!ScanNext, Claims!ScanEnd, Claims!Restart, Claims!ForgetFailure, Claims!RetryRemoval,
       Claims!Sweep, Claims!ObserverDies, Claims!EnsureRunning, Claims!Age, Claims!RecentExpires,
       Claims!disk, ClaimsVars
  <2> QED BY <2>1
<1> QED BY <1>1, <1>2 DEF Claims!Next

\* A file that is new is noticed.
LEMMA NewFilesAreNoticed ==
  ASSUME UserInvariant, ChronicleOK, Onward, [Claims!Next]_ClaimsVars, ~Claims!Restart, NEW p \in Claims!Paths,
         file'[p] # Claims!Missing, file'[p] # file[p]
  PROVE  ChargedNext(p)
<1>1. written' # written
  BY DEF Onward, FileStep, UserInvariant, FilesOK
<1>2. Claims!WriteScreenshot
  BY <1>1, OnlyWritingWrites
<1>3. file' = [file EXCEPT ![name[written + 1]] = written + 1]
  BY <1>2 DEF Claims!WriteScreenshot
<1>4. name[written + 1] = p
  BY <1>3 DEF UserInvariant, FilesOK
<1>5. CASE observing
  BY <1>2, <1>4, <1>5 DEF Claims!WriteScreenshot, ChargedNext
<1>6. CASE ~observing
  BY <1>2, <1>6 DEF Claims!WriteScreenshot, ChargedNext
<1> QED BY <1>5, <1>6

LEMMA NextKeepsCharges ==
  ASSUME UserInvariant, ChronicleOK, ActiveOK, LossOK, AllCharged, Onward, ChronicleOK', [Claims!Next]_ClaimsVars,
         ~Claims!Restart, unread' = {}
  PROVE  ChargesFit'
<1>1. SUFFICES ASSUME NEW CONSTANT p \in Claims!Paths, file'[p] # Claims!Missing, ~Closed(file[p])' PROVE Charged(p)'
  BY DEF ChargesFit, Claims!Paths, Claims!Generations, Claims!Missing
<1>2. CASE file'[p] # file[p]
  BY <1>1, <1>2, NewFilesAreNoticed, ChargedAnew
<1>3. CASE file'[p] = file[p]
  <2>1. PICK g : g = file[p]
    OBVIOUS
  <2>2. g \in 1..written /\ g \in Nat
    BY <1>1, <1>3, <2>1, FilesAreOnDisk DEF UserInvariant, FilesOK
  <2>3. ~Closed(g)'
    <3>1. kind'[file'[p]] = "owned" /\ ~(file'[p] <= frontier') /\ file'[p] \notin old'
      BY <1>1 DEF Closed, Due
    <3> QED BY <1>3, <2>1, <3>1 DEF Closed, Due
  <2>4. ~Closed(g)
    BY <2>2, <2>3, ClosedStays
  <2>5. Open(p)
    BY <1>1, <1>3, <2>1, <2>4 DEF Open
  <2>6. Charged(p)
    BY <2>5 DEF Open, AllCharged, ChargesFit
  <2>7. ChargedNext(p)
    BY <2>5, <2>6, WakeupsCharge, EntriesCharge, WorkersCharge DEF Charged
  <2> QED BY <2>7, ChargedAnew
<1> QED BY <1>2, <1>3

LEMMA RestartKeepsCharge ==
  ASSUME UserInvariant, AllCharged, Claims!Restart
  PROVE  AllCharged'
<1>1. job' = [t \in Claims!Threads |-> Claims!Idle] /\ scan' = Claims!NoScan /\ rescan' = TRUE
  BY DEF Claims!Restart
<1>3. HoldsFit'
  <2>1. ASSUME NEW t \in Claims!Threads PROVE HoldFits(job[t])'
    <3>1. job'[t] = Claims!Idle
      BY <1>1
    <3>2. ~Holds(job'[t]) /\ job'[t].stage \notin {"claimed", "decoding", "decoded"}
      BY <3>1 DEF Holds, Concerned, Claims!Idle
    <3> QED BY <3>2, HoldsNothing
  <2> QED BY <2>1 DEF HoldsFit
<1>4. ChargesFit'
  BY <1>1 DEF ChargesFit, Charged
<1>5. IndexOK' /\ GuardOK'
  BY RestartKeepsIndex, RestartKeepsGuards
<1> QED BY <1>3, <1>4, <1>5 DEF AllCharged

LEMMA NextKeepsCharge ==
  ASSUME Sound, ChargeOK, ChronicleOK', [Claims!Next]_ClaimsVars
  PROVE  ChargeOK'
<1>1. UserInvariant /\ ChronicleOK /\ ActiveOK /\ MarksOK /\ LossOK
  BY DEF Sound
<1>2. SUFFICES ASSUME unread' = {} PROVE AllCharged'
  BY DEF ChargeOK
<1>3. unread = {}
  BY <1>2, UnreadGrows
<1>4. AllCharged
  BY <1>3 DEF ChargeOK
<1>5. CASE Claims!Restart
  BY <1>1, <1>4, <1>5, RestartKeepsCharge
<1>6. CASE ~Claims!Restart
  <2>1. Onward
    BY <1>1, <1>6, StepIsOnward
  <2>2. IndexOK'
    BY <1>1, <1>4, <2>1, NextKeepsIndex
  <2>3. GuardOK'
    BY <1>1, <1>4, <1>6, <2>1, NextKeepsGuards
  <2>5. HoldsFit'
    BY <1>1, <1>2, <1>3, <1>4, <1>6, <2>1, NextKeepsHolds
  <2>6. ChargesFit'
    BY <1>1, <1>2, <1>4, <1>6, <2>1, NextKeepsCharges
  <2> QED BY <2>2, <2>3, <2>5, <2>6 DEF AllCharged
<1> QED BY <1>5, <1>6

LEMMA ClaimsInitCharge ==
  ASSUME Claims!Init
  PROVE  ChargeOK
<1>1. SUFFICES ASSUME unread = {} PROVE AllCharged
  BY DEF ChargeOK
<1>2. /\ job = [t \in Claims!Threads |-> Claims!Idle] /\ recent = {} /\ rescan = TRUE
      /\ pending = [p \in Claims!Paths |-> Claims!None] /\ scan = Claims!NoScan
      /\ incTimers = [p \in Claims!Paths |-> Claims!Missing]
      /\ manual = saved.manual /\ deferred = saved.deferred /\ unread = saved.deferred
  BY DEF Claims!Init
<1>3. \A t \in Claims!Threads : job[t] = Claims!Idle
  BY <1>2
<1>4. IndexOK
  BY <1>1, <1>2 DEF IndexOK, Claims!NoScan
<1>5. GuardOK
  <2>1. ASSUME NEW g \in manual PROVE Guarded(g)
    <3>1. UserInvariant /\ ChronicleOK /\ MarksOK
      BY ClaimsInitUser, ClaimsInitChronicle, ClaimsInitClaims
    <3>2. g \in 1..written /\ written \in 1..written /\ written \in Nat /\ name[g] \in Claims!Paths
      <4>1. g \in 1..written /\ written \in Nat
        BY <3>1 DEF MarksOK, UserInvariant, FilesOK
      <4>2. 1..written \subseteq Claims!Generations
        BY <3>1, ChronicleNames DEF UserInvariant
      <4> QED BY <3>1, <4>1, <4>2 DEF UserInvariant, FilesOK
    <3>3. SUFFICES ASSUME OnDisk(g), name[written] = name[g] PROVE over
      BY DEF Guarded, Final
    <3>4. file[name[g]] # Claims!Missing
      BY <3>2, <3>3 DEF OnDisk, Claims!Missing
    <3>5. written <= g
      BY <3>1, <3>2, <3>3, <3>4 DEF ChronicleOK, OnDisk
    <3>6. written = g
      BY <3>2, <3>5
    <3>7. over \in {(written \in old \cup saved.manual \cup saved.deferred), TRUE}
      BY DEF Claims!Init
    <3>8. written \in old \cup saved.manual \cup saved.deferred
      BY <1>2, <3>6
    <3>9. over = TRUE \/ over = (written \in old \cup saved.manual \cup saved.deferred)
      BY <3>7
    <3> QED BY <3>8, <3>9
  <2>2. \A t \in Claims!Threads : job[t].mode # "retry"
    BY <1>3 DEF Claims!Idle
  <2> QED BY <1>2, <2>1, <2>2 DEF GuardOK
<1>7. HoldsFit
  <2>1. ASSUME NEW t \in Claims!Threads PROVE HoldFits(job[t])
    BY <1>3 DEF HoldFits, Holds, Concerned, Working, Claims!Idle
  <2> QED BY <2>1 DEF HoldsFit
<1>8. ChargesFit
  BY <1>2 DEF ChargesFit, Charged
<1> QED BY <1>4, <1>5, <1>7, <1>8 DEF AllCharged

\* When nothing is left to do, nothing leads to a file: so none is still to be applied.
LEMMA NothingLeft ==
  ASSUME Sound, ChargeOK
  PROVE  Claims!NothingForgotten
<1>1. SUFFICES ASSUME Claims!Quiet, unread = {}, NEW g \in Claims!Present \ old
               PROVE  ~Claims!Open(g)
  BY DEF Claims!NothingForgotten
<1>2. PICK p \in Claims!Paths : g = file[p] /\ file[p] # Claims!Missing
  BY <1>1 DEF Claims!Present
<1>3. ~Charged(p)
  <2>1. observing = TRUE /\ events = {} /\ genTimers = {} /\ ~rescan /\ ~scan.on
    BY <1>1 DEF Claims!Quiet
  <2>2. \A t \in Claims!Threads : ~Concerned(job[t])
    BY <1>1 DEF Claims!Quiet, Concerned
  <2>3. scan = Claims!NoScan
    BY <2>1 DEF Sound, LossOK, ScanOK
  <2>4. scan.todo = {}
    BY <2>3 DEF Claims!NoScan
  <2> QED BY <2>1, <2>2, <2>4 DEF Charged
<1>4. Closed(file[p])
  BY <1>1, <1>2, <1>3 DEF ChargeOK, AllCharged, ChargesFit
<1>5. g \in Nat /\ frontier \in Nat
  BY <1>2 DEF Sound, ChronicleOK, UserInvariant, FilesOK
<1> QED BY <1>1, <1>2, <1>4, <1>5 DEF Closed, Due, Claims!Open

LEMMA NextKeepsSound ==
  ASSUME Sound, [Claims!Next]_ClaimsVars
  PROVE  Sound' /\ ChronicleOK'
<1>1. UserInvariant /\ ChronicleOK /\ ActiveOK /\ MarksOK /\ LossOK
  BY DEF Sound
<1>2. UserInvariant' /\ ChronicleOK' /\ ActiveOK' /\ MarksOK' /\ LossOK'
  BY <1>1, ClaimsNextKeepsUser, NextIsFileStep, NextKeepsActive, NextKeepsMarks, NextKeepsLoss
<1> QED BY <1>2 DEF Sound

-----------------------------------------------------------------------------
(* The sum. *)

LEMMA StepOfPart ==
  ASSUME [Next]_vars
  PROVE  /\ part' = part
         /\ part = "claims" => [Claims!Next]_ClaimsVars
         /\ part = "fragments" => [Frag!Next]_FragmentsVars
         /\ part = "handoff" => [Handoff!Next]_HandoffVars
  BY DEF vars, Next, ClaimsNext, FragmentsNext, HandoffNext

\* The inductive invariant of each part holds whenever that part runs.
LEMMA FragmentsHolds == Spec => [](part = "fragments" => Frag!FragmentsInvariant)
<1> DEFINE I == part = "fragments" => Frag!FragmentsInvariant
<1>1. Init => I
  BY FragmentsInit DEF Init
<1>2. I /\ [Next]_vars => I'
  <2>1. Frag!FragmentsInvariant /\ UNCHANGED FragmentsVars => Frag!FragmentsInvariant'
    BY FragmentsSame DEF FragmentsVars, Frag!vars
  <2> QED BY <2>1, StepOfPart, FragmentsNextKeeps
<1> QED BY <1>1, <1>2, PTL DEF Spec

LEMMA HandoffHolds == Spec => [](part = "handoff" => Handoff!HandoffInvariant)
<1> DEFINE I == part = "handoff" => Handoff!HandoffInvariant
<1>1. Init => I
  BY HandoffInit DEF Init
<1>2. I /\ [Next]_vars => I'
  <2>1. Handoff!HandoffInvariant /\ UNCHANGED HandoffVars => Handoff!HandoffInvariant'
    BY HandoffSame DEF HandoffVars, Handoff!vars, Handoff!gates, Handoff!threads,
        Handoff!queues, Handoff!history
  <2> QED BY <2>1, StepOfPart, HandoffNextKeeps
<1> QED BY <1>1, <1>2, PTL DEF Spec

\* However many screenshots, streams and generations there are, and in whatever order their
\* chunks arrive, repeated, late, broken or expired: an accepted snapshot is made of the chunks
\* of one generation, and every file that arrived is given back or waits with its group.
THEOREM OneGenerationPerSnapshot == Spec => []GroupsArePure
<1>1. (part = "fragments" => Frag!FragmentsInvariant) => GroupsArePure
  BY FragmentsSafe DEF GroupsArePure
<1> QED BY <1>1, FragmentsHolds, PTL

\* Snapshots are accepted in the order of their screenshots unless an assembly expired, and
\* once everything has arrived the newest complete one was accepted.
THEOREM AcceptedFollowsSources == Spec => []GroupsKeepOrder
<1>1. (part = "fragments" => Frag!FragmentsInvariant) => GroupsKeepOrder
  BY FragmentsSafe DEF GroupsKeepOrder
<1> QED BY <1>1, FragmentsHolds, PTL

\* However many watchers replace each other, and wherever a start, a commit or a hook fails
\* while threads and callbacks of older watchers are under way: what is shown comes from the
\* folder in force, the watcher in charge feeds the program, and no snapshot is stranded.
THEOREM ReplacementsAreClean == Spec => []HandoffIsClean
<1>1. (part = "handoff" => Handoff!HandoffInvariant) => HandoffIsClean
  BY HandoffSafe DEF HandoffIsClean
<1> QED BY <1>1, HandoffHolds, PTL

\* However many screenshots are taken, written over, decoded, deferred, queued for a removal,
\* retried or met again after a restart, by whichever thread: none without the addon's marker is
\* removed, and the index holds only the user's.
THEOREM UserFilesSurvive == Spec => []UserFilesAreSafe
<1> DEFINE I == part = "claims" => UserInvariant
<1>1. Init => I
  BY ClaimsInitUser DEF Init
<1>2. I /\ [Next]_vars => I'
  BY StepOfPart, ClaimsNextKeepsUser
<1>3. I => UserFilesAreSafe
  BY DEF UserInvariant, UserFilesAreSafe
<1> QED BY <1>1, <1>2, <1>3, PTL DEF Spec

\* However many screenshots are taken, written over, claimed, decoded, given up for another
\* thread, forgotten, swept or met again after a restart: what is removed was applied or reported
\* as corrupt, or a newer one was, or was too old to be; and as long as every screenshot could be
\* read, none with a recent snapshot is left unapplied when nothing is left to do.
THEOREM NoScreenshotIsLost == Spec => []ScreenshotsAreNotLost
<1> DEFINE I == part = "claims" => Sound /\ ChargeOK
<1>1. Init => I
  <2>1. Claims!Init => Sound /\ ChargeOK
    BY ClaimsInitUser, ClaimsInitChronicle, ClaimsInitClaims, ClaimsInitCharge DEF Sound
  <2> QED BY <2>1 DEF Init
<1>2. I /\ [Next]_vars => I'
  <2>1. Sound /\ ChargeOK /\ [Claims!Next]_ClaimsVars => Sound' /\ ChargeOK'
    BY NextKeepsSound, NextKeepsCharge
  <2> QED BY <2>1, StepOfPart
<1>3. I => ScreenshotsAreNotLost
  BY NothingLeft DEF Sound, LossOK, ScreenshotsAreNotLost
<1> QED BY <1>1, <1>2, <1>3, PTL DEF Spec
================================================================================
