--------------------------- MODULE MCShownProofs ---------------------------
(***************************************************************************)
(* What is read from the RaiderIO addon and what of the overlay is in      *)
(* sight (MCStores).                                                       *)
(***************************************************************************)
EXTENDS MCStores, Sequences, TLAPS

-----------------------------------------------------------------------------
(* RioPreload. *)

LEMMA PreloadConstants ==
    /\ None \notin Regions /\ None \notin Preloading!Keys /\ None \notin Preloading!Requests
    /\ MaxReaders \in Nat /\ MaxPreloads \in Nat
BY AddonAssumption DEF Preloading!PreloadAssumption

LEMMA PreloadInit == Preloading!Init => Preloading!PreloadInvariant
<1> SUFFICES ASSUME Preloading!Init PROVE Preloading!PreloadInvariant
  OBVIOUS
<1> USE DEF Preloading!Init
<1>1. Preloading!TypeOK
  <2>1. loads \in [Preloading!Keys -> Nat]
    BY PreloadConstants
  <2>2. source \in Preloading!Readers /\ reader \in 0..source /\ serial \in Nat
    BY PreloadConstants DEF Preloading!Readers
  <2> QED BY <2>1, <2>2 DEF Preloading!TypeOK
<1>2. Preloading!NewestCounts
  BY PreloadConstants DEF Preloading!NewestCounts
<1>3. Preloading!RowsFollow /\ Preloading!ActiveIsAnswered
  BY DEF Preloading!RowsFollow, Preloading!ActiveIsAnswered
<1> QED BY <1>1, <1>2, <1>3 DEF Preloading!PreloadInvariant

\* What a preload leaves: the request is answered by another one, or it is the newest.
PreloadDone(k) ==
    \/ /\ Preloading!Asked(k)
       /\ UNCHANGED <<key, serial, active, completed, fresh, loading, callbacks, posted, loads,
                      refused>>
    \/ Preloading!Ask(k)

LEMMA PreloadCases ==
  ASSUME NEW r, NEW g \in Regions, Preloading!Preload(r, g)
  PROVE  PreloadDone(<<r, g>>)
BY PreloadConstants DEF Preloading!Preload, PreloadDone, Preloading!requestVars,
       Preloading!threadVars

\* A new request is the newest.
LEMMA AskKeeps ==
  ASSUME Preloading!PreloadInvariant, NEW r \in Preloading!Readers, NEW g \in Regions,
         Preloading!Ask(<<r, g>>), source' \in Preloading!Readers, r <= source',
         reader' = source' => reader' = r, reader' \in 0..source', region' = g
  PROVE  Preloading!PreloadInvariant'
<1> DEFINE k == <<r, g>>
           request == <<r, g, serial + 1>>
<1> USE DEF Preloading!PreloadInvariant
<1>1. /\ key' = k /\ serial' = serial + 1 /\ serial' \in Nat
      /\ UNCHANGED <<posted, loads>>
      /\ k \in Preloading!Keys /\ request \in Preloading!Requests /\ k # None /\ request # None
  BY PreloadConstants DEF Preloading!Ask, Preloading!TypeOK, Preloading!Keys,
         Preloading!Requests
<1>2. \/ /\ active' = request /\ callbacks' = callbacks \cup {request}
         /\ loading' = loading \cup {k} /\ refused' = FALSE
      \/ /\ active' = None /\ refused' = TRUE /\ UNCHANGED <<callbacks, loading>>
  BY DEF Preloading!Ask
<1>3. Preloading!TypeOK'
  BY <1>1, <1>2 DEF Preloading!TypeOK
<1>4. \A q \in callbacks \cup posted : q[3] <= serial /\ q[3] \in Nat
  BY DEF Preloading!NewestCounts, Preloading!TypeOK, Preloading!Requests
<1>5. request \notin posted /\ request[3] = serial + 1 /\ serial \in Nat
  BY <1>4 DEF Preloading!TypeOK
<1>6. Preloading!KeyOf(request) = k
  BY DEF Preloading!KeyOf
<1>7. Preloading!NewestCounts'
  <2>1. (region = None => key = None)' /\ (key # None => key[1] <= source)'
    BY <1>1, PreloadConstants
  <2>2. (reader = source /\ region # None => key = <<reader, region>>)'
    BY <1>1
  <2>3. (active # None => Preloading!KeyOf(active) = key)'
    BY <1>1, <1>2, <1>6
  <2>4. (\A q \in callbacks \cup posted : q[3] <= serial)'
    BY <1>1, <1>2, <1>4, <1>5
  <2>5. (active \in posted => Preloading!KeyOf(active) \notin loading)'
    <3>1. active' \notin posted'
      BY <1>1, <1>2, <1>5, PreloadConstants DEF Preloading!TypeOK
    <3> QED BY <3>1
  <2> QED BY <2>1, <2>2, <2>3, <2>4, <2>5 DEF Preloading!NewestCounts
<1>8. Preloading!RowsFollow'
  BY <1>1, <1>2 DEF Preloading!RowsFollow
<1>9. Preloading!ActiveIsAnswered'
  BY <1>1, <1>2, <1>6 DEF Preloading!ActiveIsAnswered
<1> QED BY <1>3, <1>7, <1>8, <1>9

LEMMA SnapshotKeeps ==
  ASSUME Preloading!PreloadInvariant, NEW g \in Regions, Preloading!Snapshot(g)
  PROVE  Preloading!PreloadInvariant'
<1> USE DEF Preloading!PreloadInvariant
<1>1. /\ region' = g /\ UNCHANGED <<reader, source>> /\ g # None
      /\ shown' = Preloading!Looked(source, g) \/ (g = region /\ UNCHANGED shown)
  BY PreloadConstants DEF Preloading!Snapshot
<1>2. source \in Preloading!Readers /\ reader \in 0..source /\ source \in Nat
  BY PreloadConstants DEF Preloading!TypeOK, Preloading!Readers
<1>3. CASE source # reader
  <2>1. UNCHANGED <<key, serial, active, completed, fresh, loading, callbacks, posted, loads,
                    refused>>
    BY <1>3 DEF Preloading!Snapshot, Preloading!requestVars, Preloading!threadVars
  <2>2. Preloading!TypeOK'
    BY <1>1, <2>1 DEF Preloading!TypeOK
  <2>3. Preloading!NewestCounts'
    BY <1>1, <1>3, <2>1 DEF Preloading!NewestCounts
  <2>4. Preloading!RowsFollow' /\ Preloading!ActiveIsAnswered'
    BY <1>1, <1>3, <2>1 DEF Preloading!RowsFollow, Preloading!ActiveIsAnswered
  <2> QED BY <2>2, <2>3, <2>4
<1>4. CASE source = reader
  <2>1. PreloadDone(<<reader, g>>)
    BY <1>4, PreloadCases DEF Preloading!Snapshot
  <2>2. CASE Preloading!Ask(<<reader, g>>)
    BY <1>1, <1>2, <1>4, <2>2, AskKeeps
  <2>3. CASE /\ Preloading!Asked(<<reader, g>>)
             /\ UNCHANGED <<key, serial, active, completed, fresh, loading, callbacks, posted,
                            loads, refused>>
    <3>1. key = <<reader, g>> /\ key # None
      <4>1. <<reader, g>> \in Preloading!Keys
        BY <1>2, <1>4 DEF Preloading!Keys
      <4> QED BY <2>3, <4>1, PreloadConstants DEF Preloading!Asked
    <3>2. region = g
      BY <1>4, <3>1 DEF Preloading!NewestCounts
    <3>3. Preloading!TypeOK'
      BY <1>1, <2>3 DEF Preloading!TypeOK
    <3>4. Preloading!NewestCounts' /\ Preloading!ActiveIsAnswered'
      BY <1>1, <2>3, <3>1, <3>2 DEF Preloading!NewestCounts, Preloading!ActiveIsAnswered
    <3>5. Preloading!RowsFollow'
      BY <1>1, <1>4, <2>3, <3>2 DEF Preloading!RowsFollow, Preloading!Looked
    <3> QED BY <3>3, <3>4, <3>5
  <2> QED BY <2>1, <2>2, <2>3 DEF PreloadDone
<1> QED BY <1>3, <1>4

LEMMA ReplaceKeeps ==
  ASSUME Preloading!PreloadInvariant, Preloading!Replace
  PROVE  Preloading!PreloadInvariant'
<1> USE DEF Preloading!PreloadInvariant
<1>1. /\ source' = source + 1 /\ source' \in Preloading!Readers /\ source \in Nat
      /\ reader' \in {reader, source + 1} /\ reader \in 0..source /\ reader' \in 0..source'
      /\ UNCHANGED <<region, shown>> /\ Preloading!Preload(reader', region)
      /\ reader' \in Preloading!Readers
  BY PreloadConstants DEF Preloading!Replace, Preloading!TypeOK, Preloading!Readers
<1>2. reader' = source' => reader' = source + 1
  BY <1>1
<1>3. ASSUME UNCHANGED <<key, serial, active, completed, fresh, loading, callbacks, posted,
                         loads, refused>>,
             reader' # source' \/ region = None
      PROVE  Preloading!PreloadInvariant'
  <2>1. Preloading!TypeOK'
    BY <1>1, <1>3 DEF Preloading!TypeOK
  <2>2. key # None => key[1] <= source'
    <3>1. key # None => key[1] <= source /\ key[1] \in Nat
      BY PreloadConstants DEF Preloading!NewestCounts, Preloading!TypeOK, Preloading!Keys,
             Preloading!Readers
    <3> QED BY <1>1, <3>1
  <2>3. Preloading!NewestCounts'
    BY <1>1, <1>3, <2>2 DEF Preloading!NewestCounts
  <2>4. Preloading!RowsFollow' /\ Preloading!ActiveIsAnswered'
    BY <1>1, <1>3 DEF Preloading!RowsFollow, Preloading!ActiveIsAnswered
  <2> QED BY <2>1, <2>3, <2>4
<1>4. CASE region = None
  BY <1>1, <1>3, <1>4 DEF Preloading!Preload, Preloading!requestVars, Preloading!threadVars
<1>5. CASE region # None
  <2>1. region \in Regions
    BY <1>5 DEF Preloading!TypeOK
  <2>2. PreloadDone(<<reader', region>>)
    BY <1>1, <2>1, PreloadCases
  <2>3. CASE Preloading!Ask(<<reader', region>>)
    BY <1>1, <2>1, <2>3, AskKeeps
  <2>4. CASE /\ Preloading!Asked(<<reader', region>>)
             /\ UNCHANGED <<key, serial, active, completed, fresh, loading, callbacks, posted,
                            loads, refused>>
    <3>1. key = <<reader', region>> /\ key # None
      <4>1. <<reader', region>> \in Preloading!Keys
        BY <1>1, <2>1 DEF Preloading!Keys
      <4> QED BY <2>4, <4>1, PreloadConstants DEF Preloading!Asked
    <3>2. reader' <= source
      BY <3>1 DEF Preloading!NewestCounts
    <3>3. reader' # source'
      BY <1>1, <3>2
    <3> QED BY <1>3, <2>4, <3>3
  <2> QED BY <2>2, <2>3, <2>4 DEF PreloadDone
<1> QED BY <1>4, <1>5

LEMMA EndLoadKeeps ==
  ASSUME Preloading!PreloadInvariant, NEW k \in Preloading!Keys, Preloading!EndLoad(k)
  PROVE  Preloading!PreloadInvariant'
<1> USE DEF Preloading!PreloadInvariant
<1> DEFINE mine == {q \in callbacks : Preloading!KeyOf(q) = k}
<1>1. /\ k \in loading /\ loading' = loading \ {k}
      /\ loads' = [loads EXCEPT ![k] = @ + 1]
      /\ callbacks' = callbacks \ mine /\ posted' = posted \cup mine
      /\ UNCHANGED <<reader, source, region, key, serial, active, completed, fresh, shown,
                     refused>>
  BY DEF Preloading!EndLoad, Preloading!requestVars
<1>2. \A q \in mine : q \in callbacks /\ Preloading!KeyOf(q) = k
  OBVIOUS
<1>3. \A q \in callbacks : Preloading!KeyOf(q) = k => q \in mine
  OBVIOUS
<1> HIDE DEF mine
<1>4. Preloading!TypeOK'
  <2>1. loads' \in [Preloading!Keys -> Nat]
    BY <1>1 DEF Preloading!TypeOK
  <2>2. callbacks' \subseteq Preloading!Requests /\ posted' \subseteq Preloading!Requests
          /\ loading' \subseteq Preloading!Keys
    BY <1>1, <1>2 DEF Preloading!TypeOK
  <2> QED BY <1>1, <2>1, <2>2 DEF Preloading!TypeOK
<1>5. Preloading!NewestCounts'
  <2>1. (\A q \in callbacks \cup posted : q[3] <= serial)'
    BY <1>1, <1>2 DEF Preloading!NewestCounts
  <2>2. (active \in posted => Preloading!KeyOf(active) \notin loading)'
    BY <1>1, <1>2 DEF Preloading!NewestCounts
  <2> QED BY <1>1, <2>1, <2>2 DEF Preloading!NewestCounts
<1>6. Preloading!RowsFollow'
  <2>1. SUFFICES ASSUME reader = source, region # None, active = None, ~refused
                 PROVE  /\ <<reader, region>> \notin loading'
                        /\ shown = <<reader, region, loads'[<<reader, region>>]>>
    BY <1>1 DEF Preloading!RowsFollow
  <2>2. /\ <<reader, region>> \notin loading
        /\ shown = <<reader, region, loads[<<reader, region>>]>>
    BY <2>1 DEF Preloading!RowsFollow
  <2>3. <<reader, region>> # k
    BY <1>1, <2>2
  <2>4. loads'[<<reader, region>>] = loads[<<reader, region>>]
    <3>1. <<reader, region>> \in Preloading!Keys
      BY <2>1, PreloadConstants DEF Preloading!TypeOK, Preloading!Keys, Preloading!Readers
    <3> QED BY <1>1, <2>3, <3>1 DEF Preloading!TypeOK
  <2> QED BY <1>1, <2>2, <2>4
<1>7. Preloading!ActiveIsAnswered'
  BY <1>1, <1>2, <1>3 DEF Preloading!ActiveIsAnswered
<1> QED BY <1>4, <1>5, <1>6, <1>7

LEMMA ReceiveKeeps ==
  ASSUME Preloading!PreloadInvariant, NEW request \in posted, Preloading!Receive(request)
  PROVE  Preloading!PreloadInvariant'
<1> USE DEF Preloading!PreloadInvariant
<1>1. /\ posted' = posted \ {request}
      /\ UNCHANGED <<reader, source, region, key, serial, loading, callbacks, loads, refused>>
  BY DEF Preloading!Receive
<1>2. \/ request # active /\ UNCHANGED <<active, shown>>
      \/ /\ request = active /\ active' = None
         /\ shown' = IF Preloading!KeyOf(request) = <<reader, region>>
                     THEN Preloading!Looked(reader, region) ELSE shown
  BY DEF Preloading!Receive
<1>3. Preloading!TypeOK'
  BY <1>1, <1>2 DEF Preloading!TypeOK
<1>4. Preloading!NewestCounts'
  BY <1>1, <1>2, PreloadConstants DEF Preloading!NewestCounts, Preloading!TypeOK
<1>5. Preloading!RowsFollow'
  <2>1. CASE request # active
    BY <1>1, <1>2, <2>1 DEF Preloading!RowsFollow
  <2>2. CASE request = active
    <3>1. active # None
      BY <2>2, PreloadConstants DEF Preloading!TypeOK
    <3>2. SUFFICES ASSUME reader = source, region # None
                   PROVE  /\ <<reader, region>> \notin loading
                          /\ shown' = <<reader, region, loads[<<reader, region>>]>>
      BY <1>1 DEF Preloading!RowsFollow
    <3>3. Preloading!KeyOf(request) = <<reader, region>>
      BY <2>2, <3>1, <3>2 DEF Preloading!NewestCounts
    <3>4. <<reader, region>> \notin loading
      BY <2>2, <3>3 DEF Preloading!NewestCounts
    <3> QED BY <1>2, <2>2, <3>2, <3>3, <3>4 DEF Preloading!Looked
  <2> QED BY <2>1, <2>2
<1>6. Preloading!ActiveIsAnswered'
  BY <1>1, <1>2 DEF Preloading!ActiveIsAnswered
<1> QED BY <1>3, <1>4, <1>5, <1>6

LEMMA PreloadNextKeeps ==
  ASSUME Preloading!PreloadInvariant, Preloading!Next PROVE Preloading!PreloadInvariant'
<1>1. CASE Preloading!PassTime
  <2>1. UNCHANGED <<reader, source, region, key, serial, active, loading, callbacks, posted,
                    loads, shown, refused>>
    BY <1>1 DEF Preloading!PassTime, Preloading!threadVars
  <2> QED BY <2>1 DEF Preloading!PreloadInvariant, Preloading!TypeOK, Preloading!NewestCounts,
                    Preloading!RowsFollow, Preloading!ActiveIsAnswered
<1> QED BY <1>1, SnapshotKeeps, ReplaceKeeps, EndLoadKeeps, ReceiveKeeps DEF Preloading!Next

LEMMA PreloadSafe ==
  ASSUME Preloading!PreloadInvariant
  PROVE  Preloading!ActiveIsAnswered /\ Preloading!RowsShowTheLoad
<1>1. Preloading!ActiveIsAnswered /\ Preloading!RowsFollow
  BY DEF Preloading!PreloadInvariant
<1>2. loading = {} /\ posted = {} => active = None
  BY <1>1 DEF Preloading!ActiveIsAnswered
<1> QED BY <1>1, <1>2 DEF Preloading!RowsShowTheLoad, Preloading!RowsFollow

LEMMA PreloadSame ==
  ASSUME Preloading!PreloadInvariant, UNCHANGED PreloadVars PROVE Preloading!PreloadInvariant'
BY DEF PreloadVars, Preloading!PreloadInvariant, Preloading!TypeOK, Preloading!NewestCounts,
       Preloading!RowsFollow, Preloading!ActiveIsAnswered

-----------------------------------------------------------------------------
(* RaiderIOLocal. *)

LEMMA ProfileConstants ==
    /\ None \notin Profiles!Entries
    /\ 1 \in Profiles!Versions /\ 0 \notin Profiles!Versions
    /\ Profiles!Versions \subseteq Nat /\ Profiles!Seen \subseteq Nat /\ 0 \in Profiles!Seen
    /\ Profiles!Seen = Profiles!Versions \cup {0}
    /\ \A v \in Profiles!Seen : v # 0 => v \in Profiles!Versions
<1>1. None \notin Profiles!Entries
  BY AddonAssumption DEF Profiles!EntryAssumption
<1>2. Len(AddonIdentities) \in Nat /\ Len(AddonIdentities) # 0
  BY AddonAssumption DEF Profiles!GenerationAssumption
<1> QED BY <1>1, <1>2 DEF Profiles!Versions, Profiles!Seen, Profiles!Missing

\* Where the files of a half stand in a fingerprint.
Place(h) == IF h = "mplus" THEN 1 ELSE 3

LEMMA ReadingOrderHolds ==
    /\ Len(Profiles!ReadingOrder) = 4 /\ DOMAIN Profiles!ReadingOrder = 1..4
    /\ \A h \in Profiles!Halves :
         /\ Place(h) \in {1, 3}
         /\ Profiles!ReadingOrder[Place(h)] = <<h, "characters">>
         /\ Profiles!ReadingOrder[Place(h) + 1] = <<h, "lookup">>
    /\ \A n \in 1..4 : \E h \in Profiles!Halves : n = Place(h) \/ n = Place(h) + 1
    /\ \A n \in {1, 3} : \E h \in Profiles!Halves : n = Place(h)
BY DEF Profiles!ReadingOrder, Profiles!Halves, Place

LEMMA FilesHold ==
    /\ \A h \in Profiles!Halves, kind \in Profiles!Kinds : <<h, kind>> \in Profiles!Files
    /\ \A f \in Profiles!Files : \E h \in Profiles!Halves :
         f = <<h, "characters">> \/ f = <<h, "lookup">>
    /\ Profiles!Kinds = {"characters", "lookup"}
BY DEF Profiles!Files, Profiles!Kinds

LEMMA PlacesAreFiles == \A n \in 1..4 : Profiles!ReadingOrder[n] \in Profiles!Files
<1> TAKE n \in 1..4
<1> PICK h \in Profiles!Halves : n = Place(h) \/ n = Place(h) + 1
  BY ReadingOrderHolds
<1>1. Profiles!ReadingOrder[n] \in {<<h, "characters">>, <<h, "lookup">>}
  BY ReadingOrderHolds
<1> QED BY <1>1, FilesHold

LEMMA PrintOfHolds ==
  ASSUME NEW seen \in Seq(Profiles!Seen), Len(seen) = 4
  PROVE  /\ Profiles!PrintOf(seen) \in [Profiles!Files -> Profiles!Seen]
         /\ \A h \in Profiles!Halves :
              /\ Profiles!PrintOf(seen)[<<h, "characters">>] = seen[Place(h)]
              /\ Profiles!PrintOf(seen)[<<h, "lookup">>] = seen[Place(h) + 1]
<1>1. \A n \in 1..4 : seen[n] \in Profiles!Seen
  OBVIOUS
<1>2. ASSUME NEW f \in Profiles!Files
      PROVE  \E n \in 1..4 : Profiles!ReadingOrder[n] = f
  BY FilesHold, ReadingOrderHolds
<1> DEFINE at(f) == CHOOSE n \in DOMAIN Profiles!ReadingOrder : Profiles!ReadingOrder[n] = f
<1>3. \A f \in Profiles!Files : at(f) \in 1..4 /\ Profiles!ReadingOrder[at(f)] = f
  BY <1>2, ReadingOrderHolds
<1>4. Profiles!PrintOf(seen) = [f \in Profiles!Files |-> seen[at(f)]]
  BY DEF Profiles!PrintOf
<1>5. \A m, n \in 1..4 : Profiles!ReadingOrder[m] = Profiles!ReadingOrder[n] => m = n
  BY DEF Profiles!ReadingOrder
<1>6. \A h \in Profiles!Halves :
        at(<<h, "characters">>) = Place(h) /\ at(<<h, "lookup">>) = Place(h) + 1
  <2> TAKE h \in Profiles!Halves
  <2>1. <<h, "characters">> \in Profiles!Files /\ <<h, "lookup">> \in Profiles!Files
    BY FilesHold
  <2>2. Place(h) \in 1..4 /\ Place(h) + 1 \in 1..4
    BY ReadingOrderHolds
  <2> HIDE DEF at
  <2> QED BY <1>3, <1>5, <2>1, <2>2, ReadingOrderHolds
<1> HIDE DEF at
<1>7. \A f \in Profiles!Files : seen[at(f)] \in Profiles!Seen
  BY <1>1, <1>3
<1> QED BY <1>4, <1>6, <1>7, FilesHold

LEMMA LoaderTypes ==
  ASSUME loader \in Profiles!Loaders
  PROVE  /\ loader.pc \in {"idle", "print", "read", "write", "reprint"}
         /\ loader.pc = "print" => loader \in [pc : {"print"}, print : Seq(Profiles!Seen)]
         /\ loader.pc \in {"read", "write"} => loader \in Profiles!Reading
         /\ loader.pc = "reprint" => loader \in Profiles!Reprinting
BY DEF Profiles!Loaders, Profiles!Reading, Profiles!Reprinting

\* A fingerprint that is complete begins a load.
LEMMA AttemptHolds ==
  ASSUME NEW seen \in Seq(Profiles!Seen), Len(seen) = 4, Profiles!PrintHolds(seen),
         NEW n \in {1, 2}, NEW gen \in Nat, UNCHANGED <<disk, together>>,
         loader' = Profiles!Attempt(n, Profiles!PrintOf(seen), gen),
         disk \in [Profiles!Files -> Profiles!Versions]
  PROVE  /\ loader' \in Profiles!Loaders /\ loader'.pc = "read"
         /\ Profiles!LoadHolds'
<1> DEFINE first == Profiles!PrintOf(seen)
           found == [h \in Profiles!Halves |-> None]
<1>1. loader' = [pc |-> "read", half |-> "mplus", n |-> n, first |-> first, gen |-> gen,
                 found |-> found, characters |-> 0]
  BY DEF Profiles!Attempt, Profiles!Missing
<1>2. /\ first \in [Profiles!Files -> Profiles!Seen]
      /\ \A h \in Profiles!Halves : /\ first[<<h, "characters">>] = seen[Place(h)]
                                    /\ first[<<h, "lookup">>] = seen[Place(h) + 1]
  BY PrintOfHolds
<1>3. found \in [Profiles!Halves -> Profiles!Bundles \cup {None}]
  OBVIOUS
<1> HIDE DEF first
<1>4. \A h \in Profiles!Halves :
        /\ first[<<h, "characters">>] <= disk[<<h, "characters">>]
        /\ first[<<h, "lookup">>] <= disk[<<h, "lookup">>]
        /\ Profiles!Met(h, first[<<h, "characters">>], first[<<h, "lookup">>],
                        disk[<<h, "characters">>])
  <2> TAKE h \in Profiles!Halves
  <2>1. /\ Place(h) \in {1, 3} /\ Profiles!ReadingOrder[Place(h)] = <<h, "characters">>
        /\ Profiles!ReadingOrder[Place(h) + 1] = <<h, "lookup">>
    BY ReadingOrderHolds
  <2>2. Place(h) \in DOMAIN seen /\ Place(h) + 1 \in DOMAIN seen
    BY <2>1
  <2>3. /\ seen[Place(h)] <= disk[<<h, "characters">>]
        /\ seen[Place(h) + 1] <= disk[<<h, "lookup">>]
    BY <2>1, <2>2 DEF Profiles!PrintHolds
  <2>4. Profiles!Met(<<h, "characters">>[1], seen[Place(h)], seen[Place(h) + 1],
                     disk[<<h, "characters">>])
    BY <2>1, <2>2 DEF Profiles!PrintHolds
  <2> QED BY <1>2, <2>3, <2>4
<1>5. \A f \in Profiles!Files : first[f] <= disk[f]
  BY <1>4, FilesHold
<1>6. loader' \in Profiles!Loaders /\ loader'.pc = "read"
  <2>1. "mplus" \in Profiles!Halves
    BY DEF Profiles!Halves
  <2> HIDE DEF found
  <2>2. loader' \in Profiles!Reading
    BY <1>1, <1>2, <1>3, <2>1, ProfileConstants DEF Profiles!Reading
  <2> QED BY <1>1, <2>2 DEF Profiles!Loaders
<1>7. /\ loader'.pc = "read" /\ loader'.first = first /\ loader'.characters = 0
      /\ loader'.found = found
  BY <1>1
<1>8. Profiles!FirstHolds'
  <2>1. \A h \in Profiles!Halves :
          Profiles!Met(h, first[<<h, "characters">>], first[<<h, "lookup">>],
                       disk[<<h, "characters">>])'
    BY <1>4 DEF Profiles!Met
  <2> QED BY <1>5, <1>7, <2>1 DEF Profiles!FirstHolds, Profiles!Met
<1>9. Profiles!FoundHolds' /\ Profiles!CharactersHold'
  BY <1>7 DEF Profiles!FoundHolds, Profiles!CharactersHold, Profiles!Missing
<1> QED BY <1>6, <1>7, <1>8, <1>9 DEF Profiles!LoadHolds

\* A half that is done was found whole, or read since the fingerprint, or is missing.
LEMMA DoneHolds ==
  ASSUME loader \in Profiles!Reading, Profiles!LoadHolds, UNCHANGED <<disk, together>>,
         NEW data \in Profiles!Bundles \cup {None}, loader' = Profiles!Done(data),
         data # None =>
           \/ Profiles!Whole(loader.half, data, Profiles!HalfOf(loader.first, loader.half))
           \/ /\ Profiles!SameIdentity(data.characters, data.lookup)
              /\ Profiles!ReadSince(loader.half, data)
  PROVE  loader' \in Profiles!Loaders /\ Profiles!LoadHolds'
         /\ (loader'.pc \in {"print", "reprint"} => Len(loader'.print) <= 4)
<1> DEFINE found == [loader.found EXCEPT ![loader.half] = data]
<1>1. /\ loader.pc \in {"read", "write"} /\ loader.half \in Profiles!Halves
      /\ loader.n \in {1, 2} /\ loader.gen \in Nat
      /\ loader.first \in [Profiles!Files -> Profiles!Seen]
      /\ loader.found \in [Profiles!Halves -> Profiles!Bundles \cup {None}]
  BY DEF Profiles!Reading
<1>2. Profiles!FirstHolds /\ Profiles!FoundHolds
  BY <1>1 DEF Profiles!LoadHolds
<1>3. /\ found \in [Profiles!Halves -> Profiles!Bundles \cup {None}]
      /\ found[loader.half] = data
      /\ \A h \in Profiles!Halves : h # loader.half => found[h] = loader.found[h]
  BY <1>1
<1>4. \/ /\ loader.half = "mplus"
         /\ loader' = [loader EXCEPT !.pc = "read", !.half = "raid", !.found["mplus"] = data,
                                     !.characters = 0]
      \/ /\ loader.half = "raid"
         /\ loader' = [pc |-> "reprint", n |-> loader.n, first |-> loader.first,
                       gen |-> loader.gen, found |-> [loader.found EXCEPT !["raid"] = data],
                       print |-> <<>>]
  BY <1>1 DEF Profiles!Done, Profiles!Halves, Profiles!Missing
<1>5. \/ loader' = [pc |-> "read", half |-> "raid", n |-> loader.n, first |-> loader.first,
                    gen |-> loader.gen, found |-> found, characters |-> 0]
      \/ loader' = [pc |-> "reprint", n |-> loader.n, first |-> loader.first,
                    gen |-> loader.gen, found |-> found, print |-> <<>>]
  BY <1>4 DEF Profiles!Reading
<1> HIDE DEF found
<1> PICK fd, ff : fd = found /\ ff = loader.first
  OBVIOUS
<1>6. loader' \in Profiles!Loaders
  <2>1. "raid" \in Profiles!Halves
    BY DEF Profiles!Halves
  <2>2. CASE loader' = [pc |-> "read", half |-> "raid", n |-> loader.n, first |-> loader.first,
                        gen |-> loader.gen, found |-> found, characters |-> 0]
    BY <1>1, <1>3, <2>1, <2>2, ProfileConstants DEF Profiles!Loaders, Profiles!Reading
  <2>3. CASE loader' = [pc |-> "reprint", n |-> loader.n, first |-> loader.first,
                        gen |-> loader.gen, found |-> found, print |-> <<>>]
    BY <1>1, <1>3, <2>3, ProfileConstants DEF Profiles!Loaders, Profiles!Reprinting
  <2> QED BY <1>5, <2>2, <2>3
<1>7. /\ loader'.first = ff /\ loader'.found = fd
      /\ \/ loader'.pc = "read" /\ loader'.characters = 0
         \/ loader'.pc = "reprint" /\ loader'.print = <<>>
  <2>1. CASE loader' = [pc |-> "read", half |-> "raid", n |-> loader.n, first |-> loader.first,
                        gen |-> loader.gen, found |-> found, characters |-> 0]
    BY <2>1
  <2>2. CASE loader' = [pc |-> "reprint", n |-> loader.n, first |-> loader.first,
                        gen |-> loader.gen, found |-> found, print |-> <<>>]
    BY <2>2
  <2> QED BY <1>5, <2>1, <2>2
<1>8. Profiles!FirstHolds'
  BY <1>2, <1>7 DEF Profiles!FirstHolds, Profiles!Met
<1>9. Profiles!FoundHolds'
  <2>1. ASSUME NEW h \in Profiles!Halves, fd[h] # None
        PROVE  \/ Profiles!Whole(h, fd[h], Profiles!HalfOf(ff, h))
               \/ /\ Profiles!SameIdentity(fd[h].characters, fd[h].lookup)
                  /\ \A kind \in Profiles!Kinds :
                       ff[<<h, kind>>] <= fd[h][kind] /\ fd[h][kind] <= disk[<<h, kind>>]
    <3>1. CASE h = loader.half
      BY <1>3, <2>1, <3>1 DEF Profiles!ReadSince
    <3>2. CASE h # loader.half
      BY <1>2, <1>3, <2>1, <3>2 DEF Profiles!FoundHolds, Profiles!ReadSince
    <3> QED BY <3>1, <3>2
  <2>2. \A h \in Profiles!Halves : Profiles!Whole(h, fd[h], Profiles!HalfOf(ff, h))
          => Profiles!Whole(h, fd[h], Profiles!HalfOf(ff, h))'
    BY DEF Profiles!Whole
  <2> QED BY <1>7, <2>1, <2>2 DEF Profiles!FoundHolds, Profiles!ReadSince
<1>10. loader'.pc = "reprint" => Profiles!PrintHolds(loader.print)' /\ Profiles!ReprintHolds'
  BY <1>7 DEF Profiles!PrintHolds, Profiles!ReprintHolds
<1>11. loader'.pc = "read" => Profiles!CharactersHold'
  BY <1>7 DEF Profiles!CharactersHold, Profiles!Missing
<1>12. Profiles!LoadHolds'
  BY <1>7, <1>8, <1>9, <1>10, <1>11 DEF Profiles!LoadHolds
<1> QED BY <1>6, <1>7, <1>12

\* Steps of the load that touch nothing else.
LEMMA LoaderOnly ==
  ASSUME Profiles!ProfileInvariant,
         UNCHANGED <<disk, entry, payloads, generation, decodedCleared, together, failing>>,
         loader' \in Profiles!Loaders, Profiles!LoadHolds',
         loader'.pc \in {"print", "reprint"} => Len(loader'.print) <= 4
  PROVE  Profiles!ProfileInvariant'
<1>1. Profiles!TypeOK'
  BY ReadingOrderHolds DEF Profiles!ProfileInvariant, Profiles!TypeOK
<1>2. Profiles!DiskIsTogether'
  BY DEF Profiles!ProfileInvariant, Profiles!DiskIsTogether
<1>3. Profiles!BundlesAreWhole'
  BY DEF Profiles!ProfileInvariant, Profiles!BundlesAreWhole, Profiles!Whole
<1>4. Profiles!FailuresAreCounted' /\ Profiles!ClearedStaysCleared'
  BY DEF Profiles!ProfileInvariant, Profiles!FailuresAreCounted, Profiles!ClearedStaysCleared
<1> QED BY <1>1, <1>2, <1>3, <1>4 DEF Profiles!ProfileInvariant

LEMMA QuietMeans ==
  ASSUME Profiles!Quiet
  PROVE  UNCHANGED <<disk, entry, payloads, generation, decodedCleared, together, failing>>
BY DEF Profiles!Quiet, Profiles!decodedVars, Profiles!historyVars

LEMMA BeginKeeps ==
  ASSUME Profiles!ProfileInvariant, Profiles!Begin \/ Profiles!Audit
  PROVE  Profiles!ProfileInvariant'
<1>1. Profiles!Quiet /\ loader' \in {[pc |-> "print", print |-> <<>>], [pc |-> "idle"]}
  BY DEF Profiles!Begin, Profiles!Audit
<1>2. loader' \in Profiles!Loaders
  <2>1. CASE loader' = [pc |-> "print", print |-> <<>>]
    <3>1. <<>> \in Seq(Profiles!Seen)
      OBVIOUS
    <3> QED BY <2>1, <3>1 DEF Profiles!Loaders
  <2>2. CASE loader' = [pc |-> "idle"]
    BY <2>2 DEF Profiles!Loaders
  <2> QED BY <1>1, <2>1, <2>2
<1>3. loader'.pc = "idle" \/ (loader'.pc = "print" /\ loader'.print = <<>>)
  BY <1>1
<1>4. Profiles!LoadHolds'
  BY <1>3 DEF Profiles!LoadHolds, Profiles!PrintHolds
<1> QED BY <1>1, <1>2, <1>3, <1>4, QuietMeans, LoaderOnly

\* What a fingerprint gains of a file.
LEMMA GrownHolds ==
  ASSUME NEW seen \in Seq(Profiles!Seen), NEW m, m = Len(seen) + 1, m \in 1..4,
         NEW x \in Profiles!Seen
  PROVE  /\ Append(seen, x) \in Seq(Profiles!Seen) /\ Len(Append(seen, x)) = m
         /\ DOMAIN Append(seen, x) = 1..m /\ Append(seen, x)[m] = x
         /\ \A n \in 1..m : n # m => n \in DOMAIN seen /\ Append(seen, x)[n] = seen[n]
OBVIOUS

LEMMA PrintGrows ==
  ASSUME disk \in [Profiles!Files -> Profiles!Versions], Profiles!DiskIsTogether,
         NEW seen \in Seq(Profiles!Seen), NEW m, m = Len(seen) + 1, m \in 1..4,
         Profiles!PrintHolds(seen), NEW x, x \in {disk[Profiles!ReadingOrder[m]], 0}
  PROVE  x \in Profiles!Seen /\ Profiles!PrintHolds(Append(seen, x))
<1> DEFINE next == Append(seen, x)
<1>1. Profiles!ReadingOrder[m] \in Profiles!Files
  BY PlacesAreFiles
<1>2. x \in Profiles!Seen /\ x <= disk[Profiles!ReadingOrder[m]]
  <2> DEFINE d == disk[Profiles!ReadingOrder[m]]
  <2>1. d \in Profiles!Versions
    BY <1>1
  <2> HIDE DEF d
  <2>2. d \in Nat /\ d \in Profiles!Seen
    BY <2>1, ProfileConstants
  <2>3. x = d \/ x = 0
    BY DEF d
  <2> QED BY <2>2, <2>3, ProfileConstants DEF d
<1>3. /\ DOMAIN next = 1..m /\ next[m] = x
      /\ \A n \in 1..m : n # m => n \in DOMAIN seen /\ next[n] = seen[n]
  BY <1>2, GrownHolds
<1> HIDE DEF next
<1>4. ASSUME NEW n \in DOMAIN next PROVE next[n] <= disk[Profiles!ReadingOrder[n]]
  BY <1>2, <1>3 DEF Profiles!PrintHolds
<1>5. ASSUME NEW n \in {1, 3}, n + 1 \in DOMAIN next
      PROVE  Profiles!Met(Profiles!ReadingOrder[n][1], next[n], next[n + 1],
                          disk[Profiles!ReadingOrder[n]])
  <2>1. CASE n + 1 # m
    <3>1. n \in 1..m /\ n # m /\ n + 1 \in 1..m
      BY <1>3, <1>5, <2>1
    <3> QED BY <1>3, <2>1, <3>1 DEF Profiles!PrintHolds
  <2>2. CASE n + 1 = m
    <3> PICK h \in Profiles!Halves : n = Place(h)
      BY ReadingOrderHolds
    <3>1. /\ Profiles!ReadingOrder[n] = <<h, "characters">>
          /\ Profiles!ReadingOrder[m] = <<h, "lookup">>
      BY <2>2, ReadingOrderHolds
    <3>2. n \in 1..m /\ n # m
      BY <2>2
    <3>3. next[n] = seen[n] /\ seen[n] <= disk[<<h, "characters">>] /\ seen[n] \in Profiles!Seen
      BY <1>3, <3>1, <3>2 DEF Profiles!PrintHolds
    <3>4. <<disk[<<h, "characters">>], disk[<<h, "lookup">>]>> \in together[h]
      BY DEF Profiles!DiskIsTogether
    <3>5. disk[<<h, "characters">>] \in Nat /\ seen[n] \in Nat
      BY <3>3, FilesHold, ProfileConstants
    <3>6. seen[n] = disk[<<h, "characters">>] \/ disk[<<h, "characters">>] > seen[n]
      BY <3>3, <3>5
    <3>7. x # 0 => x = disk[<<h, "lookup">>]
      BY <3>1
    <3>8. Profiles!Met(h, seen[n], x, disk[<<h, "characters">>])
      BY <3>4, <3>6, <3>7 DEF Profiles!Met, Profiles!Missing
    <3> QED BY <1>3, <2>2, <3>1, <3>3, <3>8
  <2> QED BY <2>1, <2>2
<1> QED BY <1>2, <1>4, <1>5 DEF Profiles!PrintHolds, next

\* What the second fingerprint shows of a file at its place.
ShownAt(n, now, first, found) ==
    LET h == Profiles!ReadingOrder[n][1]
        kind == Profiles!ReadingOrder[n][2]
    IN now # 0 =>
         /\ first[<<h, kind>>] <= now
         /\ \/ found[h] = None
            \/ Profiles!Whole(h, found[h], Profiles!HalfOf(first, h))
            \/ found[h][kind] <= now
         /\ kind = "characters" =>
              Profiles!Met(h, first[<<h, "characters">>], first[<<h, "lookup">>], now)

LEMMA ReprintMeans ==
    Profiles!ReprintHolds <=>
        \A n \in DOMAIN loader.print : ShownAt(n, loader.print[n], loader.first, loader.found)
BY DEF Profiles!ReprintHolds, ShownAt, Profiles!Missing

LEMMA ShownNow ==
  ASSUME Profiles!FirstHolds, Profiles!FoundHolds, NEW n \in 1..4,
         NEW now, now \in {disk[Profiles!ReadingOrder[n]], 0}
  PROVE  ShownAt(n, now, loader.first, loader.found)
<1> PICK h \in Profiles!Halves : n = Place(h) \/ n = Place(h) + 1
  BY ReadingOrderHolds
<1> PICK kind \in Profiles!Kinds : Profiles!ReadingOrder[n] = <<h, kind>>
  BY ReadingOrderHolds, FilesHold
<1>1. Profiles!ReadingOrder[n][1] = h /\ Profiles!ReadingOrder[n][2] = kind
  OBVIOUS
<1> SUFFICES ASSUME now # 0
             PROVE  /\ loader.first[<<h, kind>>] <= now
                    /\ \/ loader.found[h] = None
                       \/ Profiles!Whole(h, loader.found[h], Profiles!HalfOf(loader.first, h))
                       \/ loader.found[h][kind] <= now
                    /\ kind = "characters" =>
                         Profiles!Met(h, loader.first[<<h, "characters">>],
                                      loader.first[<<h, "lookup">>], now)
  BY <1>1 DEF ShownAt
<1>2. now = disk[<<h, kind>>] /\ <<h, kind>> \in Profiles!Files
  BY FilesHold
<1>3. loader.first[<<h, kind>>] <= now
  BY <1>2 DEF Profiles!FirstHolds
<1>4. \/ loader.found[h] = None
      \/ Profiles!Whole(h, loader.found[h], Profiles!HalfOf(loader.first, h))
      \/ loader.found[h][kind] <= now
  BY <1>2 DEF Profiles!FoundHolds, Profiles!ReadSince
<1>5. kind = "characters" => Profiles!Met(h, loader.first[<<h, "characters">>],
                                         loader.first[<<h, "lookup">>], now)
  BY <1>2 DEF Profiles!FirstHolds
<1> QED BY <1>3, <1>4, <1>5

\* The fingerprint grows by what is on disk, or by nothing that could be read.
LEMMA FingerprintKeeps ==
  ASSUME Profiles!ProfileInvariant, Profiles!Fingerprint
  PROVE  Profiles!ProfileInvariant'
<1>1. /\ Profiles!Quiet /\ loader.pc \in {"print", "reprint"} /\ Len(loader.print) # 4
      /\ \/ loader' = [loader EXCEPT !.print =
                         Append(@, disk[Profiles!ReadingOrder[Len(loader.print) + 1]])]
         \/ loader' = [loader EXCEPT !.print = Append(@, 0)]
  BY ReadingOrderHolds DEF Profiles!Fingerprint, Profiles!Printed, Profiles!Missing
<1>2. /\ loader \in Profiles!Loaders /\ Len(loader.print) <= 4
      /\ disk \in [Profiles!Files -> Profiles!Versions]
      /\ Profiles!DiskIsTogether /\ Profiles!LoadHolds
  BY <1>1, ReadingOrderHolds DEF Profiles!ProfileInvariant, Profiles!TypeOK
<1>3. UNCHANGED <<disk, entry, payloads, generation, decodedCleared, together, failing>>
  BY <1>1, QuietMeans
<1> PICK seen : seen = loader.print
  OBVIOUS
<1>4. seen \in Seq(Profiles!Seen)
  BY <1>1, <1>2, LoaderTypes DEF Profiles!Reprinting
<1>0. PICK m : m = Len(seen) + 1
  OBVIOUS
<1>5. m \in 1..4
  <2>1. Len(loader.print) # 4 /\ Len(loader.print) <= 4
    BY <1>1, <1>2
  <2>2. Len(seen) \in Nat /\ Len(seen) # 4 /\ Len(seen) <= 4
    BY <1>4, <2>1
  <2>3. \A l \in Nat : l # 4 /\ l <= 4 => l + 1 \in 1..4
    OBVIOUS
  <2> QED BY <1>0, <2>2, <2>3, Zenon
<1>6. PICK x \in {disk[Profiles!ReadingOrder[m]], 0} :
        loader' = [loader EXCEPT !.print = Append(seen, x)]
  BY <1>0, <1>1
<1> PICK next : next = Append(seen, x)
  OBVIOUS
<1>7. x \in Profiles!Seen /\ Profiles!PrintHolds(next)
  <2>1. Profiles!PrintHolds(seen)
    BY <1>1, <1>2 DEF Profiles!LoadHolds
  <2> QED BY <1>0, <1>2, <1>4, <1>5, <2>1, PrintGrows
<1>8. /\ next \in Seq(Profiles!Seen) /\ Len(next) <= 4 /\ DOMAIN next = 1..m
      /\ next[m] = x /\ \A n \in 1..m : n # m => next[n] = seen[n] /\ n \in DOMAIN seen
  BY <1>0, <1>4, <1>5, <1>7, GrownHolds
<1>9. Profiles!PrintHolds(next)'
  BY <1>3, <1>7 DEF Profiles!PrintHolds, Profiles!Met
<1>10. CASE loader.pc = "print"
  <2>1. loader \in [pc : {"print"}, print : Seq(Profiles!Seen)]
    BY <1>2, <1>10, LoaderTypes
  <2>2. loader' \in [pc : {"print"}, print : Seq(Profiles!Seen)] /\ loader'.print = next
    BY <1>6, <1>8, <2>1
  <2>3. loader' \in Profiles!Loaders /\ loader'.pc = "print"
    BY <2>2 DEF Profiles!Loaders
  <2>4. Profiles!LoadHolds'
    BY <1>9, <2>2, <2>3 DEF Profiles!LoadHolds
  <2> QED BY <1>3, <1>8, <2>2, <2>3, <2>4, LoaderOnly
<1>11. CASE loader.pc = "reprint"
  <2>1. loader \in Profiles!Reprinting
    BY <1>2, <1>11, LoaderTypes
  <2>2. /\ loader' \in Profiles!Reprinting /\ loader'.print = next
        /\ loader'.first = loader.first /\ loader'.found = loader.found
    BY <1>6, <1>8, <2>1 DEF Profiles!Reprinting
  <2>3. loader' \in Profiles!Loaders /\ loader'.pc = "reprint"
    BY <2>2 DEF Profiles!Loaders, Profiles!Reprinting
  <2>4. Profiles!FirstHolds /\ Profiles!FoundHolds /\ Profiles!ReprintHolds
    BY <1>2, <1>11 DEF Profiles!LoadHolds
  <2>5. Profiles!FirstHolds'
    BY <1>3, <2>2, <2>4 DEF Profiles!FirstHolds, Profiles!Met
  <2>6. Profiles!FoundHolds'
    BY <1>3, <2>2, <2>4 DEF Profiles!FoundHolds, Profiles!ReadSince, Profiles!Whole
  <2> PICK first, found : first = loader.first /\ found = loader.found
    OBVIOUS
  <2>7. \A n \in 1..m : ShownAt(n, next[n], first, found)
    <3>1. \A n \in DOMAIN seen : ShownAt(n, seen[n], first, found)
      BY <2>4, ReprintMeans
    <3>2. ShownAt(m, x, first, found)
      BY <1>5, <2>4, ShownNow
    <3> QED BY <1>8, <3>1, <3>2
  <2>8. \A n \in 1..m : ShownAt(n, next[n], first, found)'
    BY <1>3, <2>7 DEF ShownAt, Profiles!Met, Profiles!Whole
  <2>9. Profiles!ReprintHolds'
    BY <1>8, <2>2, <2>8 DEF Profiles!ReprintHolds, ShownAt, Profiles!Missing
  <2>10. Profiles!LoadHolds'
    BY <1>9, <2>2, <2>3, <2>5, <2>6, <2>9 DEF Profiles!LoadHolds
  <2> QED BY <1>3, <1>8, <2>2, <2>3, <2>10, LoaderOnly
<1> QED BY <1>1, <1>10, <1>11

LEMMA BeginLoadKeeps ==
  ASSUME Profiles!ProfileInvariant, Profiles!BeginLoad \/ Profiles!Again
  PROVE  Profiles!ProfileInvariant'
<1>1. /\ Profiles!Quiet /\ Len(loader.print) = 4
      /\ \/ /\ loader.pc = "print"
            /\ loader' = Profiles!Attempt(1, Profiles!PrintOf(loader.print), generation)
         \/ /\ loader.pc = "reprint"
            /\ loader' = Profiles!Attempt(2, Profiles!PrintOf(loader.print), loader.gen)
  BY ReadingOrderHolds DEF Profiles!BeginLoad, Profiles!Again, Profiles!Printed,
         Profiles!Latest
<1>2. /\ loader \in Profiles!Loaders /\ disk \in [Profiles!Files -> Profiles!Versions]
      /\ generation \in Nat /\ Profiles!LoadHolds
  BY DEF Profiles!ProfileInvariant, Profiles!TypeOK
<1>3. UNCHANGED <<disk, entry, payloads, generation, decodedCleared, together, failing>>
  BY <1>1, QuietMeans
<1>4. /\ loader.print \in Seq(Profiles!Seen) /\ Profiles!PrintHolds(loader.print)
      /\ loader.pc = "reprint" => loader.gen \in Nat
  BY <1>1, <1>2, LoaderTypes DEF Profiles!Reprinting, Profiles!LoadHolds
<1>5. loader' \in Profiles!Loaders /\ loader'.pc = "read" /\ Profiles!LoadHolds'
  BY <1>1, <1>2, <1>3, <1>4, AttemptHolds
<1> QED BY <1>3, <1>5, LoaderOnly

LEMMA ReadCharactersKeeps ==
  ASSUME Profiles!ProfileInvariant, Profiles!ReadCharacters
  PROVE  Profiles!ProfileInvariant'
<1>1. /\ Profiles!Quiet /\ loader.pc = "read" /\ loader.characters = 0
      /\ \/ Profiles!Reusable(loader.half) /\ loader' = Profiles!Done(entry.db[loader.half])
         \/ loader' = [loader EXCEPT !.characters = disk[<<loader.half, "characters">>]]
         \/ loader' = Profiles!Done(None)
  BY DEF Profiles!ReadCharacters, Profiles!Missing
<1>2. /\ loader \in Profiles!Reading /\ disk \in [Profiles!Files -> Profiles!Versions]
      /\ Profiles!LoadHolds /\ Profiles!BundlesAreWhole
      /\ entry \in Profiles!Entries \cup {None}
  BY <1>1, LoaderTypes DEF Profiles!ProfileInvariant, Profiles!TypeOK
<1>3. UNCHANGED <<disk, entry, payloads, generation, decodedCleared, together, failing>>
  BY <1>1, QuietMeans
<1> PICK half : half = loader.half
  OBVIOUS
<1>4. half \in Profiles!Halves
  BY <1>2 DEF Profiles!Reading
<1>5. CASE Profiles!Reusable(half) /\ loader' = Profiles!Done(entry.db[half])
  <2>1. entry # None /\ entry.db[half] # None
        /\ entry.state[half].print = Profiles!HalfOf(loader.first, half)
    BY <1>5 DEF Profiles!Reusable
  <2>2. entry.db[half] \in Profiles!Bundles
    BY <1>2, <1>4, <2>1 DEF Profiles!Entries
  <2>3. Profiles!Whole(half, entry.db[half], Profiles!HalfOf(loader.first, half))
    BY <1>2, <1>4, <2>1 DEF Profiles!BundlesAreWhole
  <2>4. loader' \in Profiles!Loaders /\ Profiles!LoadHolds'
        /\ (loader'.pc \in {"print", "reprint"} => Len(loader'.print) <= 4)
    BY <1>2, <1>3, <1>5, <2>2, <2>3, DoneHolds
  <2> QED BY <1>3, <2>4, LoaderOnly
<1>6. CASE loader' = Profiles!Done(None)
  <2>1. loader' \in Profiles!Loaders /\ Profiles!LoadHolds'
        /\ (loader'.pc \in {"print", "reprint"} => Len(loader'.print) <= 4)
    BY <1>2, <1>3, <1>6, DoneHolds
  <2> QED BY <1>3, <2>1, LoaderOnly
<1>7. CASE loader' = [loader EXCEPT !.characters = disk[<<half, "characters">>]]
  <2> PICK d : d = disk[<<half, "characters">>]
    OBVIOUS
  <2>1. <<half, "characters">> \in Profiles!Files
    BY <1>4, FilesHold
  <2>2. d \in Profiles!Versions /\ d \in Nat /\ d \in Profiles!Seen
    BY <1>2, <2>1, ProfileConstants
  <2>3. /\ loader' \in Profiles!Reading /\ loader'.pc = "read" /\ loader'.characters = d
        /\ loader'.first = loader.first /\ loader'.found = loader.found
        /\ loader'.half = half
    BY <1>1, <1>2, <1>7, <2>2 DEF Profiles!Reading
  <2>4. Profiles!FirstHolds /\ Profiles!FoundHolds
    BY <1>1, <1>2 DEF Profiles!LoadHolds
  <2>5. Profiles!FirstHolds'
    BY <1>3, <2>3, <2>4 DEF Profiles!FirstHolds, Profiles!Met
  <2>6. Profiles!FoundHolds'
    BY <1>3, <2>3, <2>4 DEF Profiles!FoundHolds, Profiles!ReadSince, Profiles!Whole
  <2>7. Profiles!CharactersHold'
    BY <1>3, <2>1, <2>2, <2>3, <2>4 DEF Profiles!CharactersHold, Profiles!FirstHolds
  <2>8. Profiles!LoadHolds' /\ loader' \in Profiles!Loaders
    BY <2>3, <2>5, <2>6, <2>7 DEF Profiles!LoadHolds, Profiles!Loaders
  <2> QED BY <1>3, <2>3, <2>8, LoaderOnly
<1> QED BY <1>1, <1>5, <1>6, <1>7

LEMMA ReadLookupKeeps ==
  ASSUME Profiles!ProfileInvariant, Profiles!ReadLookup
  PROVE  Profiles!ProfileInvariant'
<1> PICK half, v, c : half = loader.half /\ v = disk[<<half, "lookup">>] /\ c = loader.characters
  OBVIOUS
<1> PICK b : b = [characters |-> c, lookup |-> v]
  OBVIOUS
<1>1. /\ Profiles!Quiet /\ loader.pc = "read" /\ c # 0
      /\ \/ loader' = Profiles!Done(None)
         \/ Profiles!SameIdentity(c, v) /\ loader' = Profiles!Done(b)
         \/ /\ Profiles!SameIdentity(c, v)
            /\ loader' = [loader EXCEPT !.pc = "write", !.found[half] = b]
  BY DEF Profiles!ReadLookup, Profiles!Missing
<1>2. /\ loader \in Profiles!Reading /\ disk \in [Profiles!Files -> Profiles!Versions]
      /\ Profiles!LoadHolds
  BY <1>1, LoaderTypes DEF Profiles!ProfileInvariant, Profiles!TypeOK
<1>3. UNCHANGED <<disk, entry, payloads, generation, decodedCleared, together, failing>>
  BY <1>1, QuietMeans
<1>4. /\ half \in Profiles!Halves /\ c \in Profiles!Versions
      /\ loader.first \in [Profiles!Files -> Profiles!Seen]
      /\ loader.found \in [Profiles!Halves -> Profiles!Bundles \cup {None}]
  BY <1>1, <1>2, ProfileConstants DEF Profiles!Reading
<1>5. <<half, "lookup">> \in Profiles!Files /\ <<half, "characters">> \in Profiles!Files
  BY <1>4, FilesHold
<1>6. v \in Profiles!Versions
  BY <1>2, <1>5
<1>7. b \in Profiles!Bundles /\ b.characters = c /\ b.lookup = v
  BY <1>4, <1>6 DEF Profiles!Bundles
<1>8. Profiles!FirstHolds /\ Profiles!FoundHolds /\ Profiles!CharactersHold
  BY <1>1, <1>2 DEF Profiles!LoadHolds
<1>9. Profiles!ReadSince(half, b)
  <2>1. /\ loader.first[<<half, "characters">>] <= b["characters"]
        /\ b["characters"] <= disk[<<half, "characters">>]
    BY <1>1, <1>7, <1>8 DEF Profiles!CharactersHold, Profiles!Missing
  <2>2. /\ loader.first[<<half, "lookup">>] <= b["lookup"]
        /\ b["lookup"] <= disk[<<half, "lookup">>]
    <3>1. loader.first[<<half, "lookup">>] <= v
      BY <1>5, <1>8 DEF Profiles!FirstHolds
    <3>2. v <= v
      BY <1>6, ProfileConstants
    <3> QED BY <1>7, <3>1, <3>2
  <2> QED BY <2>1, <2>2, FilesHold DEF Profiles!ReadSince
<1>10. CASE loader' = Profiles!Done(None)
  <2>1. loader' \in Profiles!Loaders /\ Profiles!LoadHolds'
        /\ (loader'.pc \in {"print", "reprint"} => Len(loader'.print) <= 4)
    BY <1>2, <1>3, <1>10, DoneHolds
  <2> QED BY <1>3, <2>1, LoaderOnly
<1>11. CASE Profiles!SameIdentity(c, v) /\ loader' = Profiles!Done(b)
  <2>1. loader' \in Profiles!Loaders /\ Profiles!LoadHolds'
        /\ (loader'.pc \in {"print", "reprint"} => Len(loader'.print) <= 4)
    BY <1>2, <1>3, <1>7, <1>9, <1>11, DoneHolds
  <2> QED BY <1>3, <2>1, LoaderOnly
<1>12. CASE /\ Profiles!SameIdentity(c, v)
            /\ loader' = [loader EXCEPT !.pc = "write", !.found[half] = b]
  <2> PICK found : found = [loader.found EXCEPT ![half] = b]
    OBVIOUS
  <2>1. /\ found \in [Profiles!Halves -> Profiles!Bundles \cup {None}] /\ found[half] = b
        /\ \A h \in Profiles!Halves : h # half => found[h] = loader.found[h]
    BY <1>4, <1>7
  <2>2. /\ loader' \in Profiles!Reading /\ loader'.pc = "write" /\ loader'.characters = c
        /\ loader'.first = loader.first /\ loader'.found = found /\ loader'.half = half
    BY <1>2, <1>12, <2>1 DEF Profiles!Reading
  <2>3. Profiles!FirstHolds'
    BY <1>3, <1>8, <2>2 DEF Profiles!FirstHolds, Profiles!Met
  <2>4. Profiles!FoundHolds'
    <3> PICK first : first = loader.first
      OBVIOUS
    <3>1. ASSUME NEW h \in Profiles!Halves, found[h] # None
          PROVE  \/ Profiles!Whole(h, found[h], Profiles!HalfOf(first, h))
                 \/ /\ Profiles!SameIdentity(found[h].characters, found[h].lookup)
                    /\ \A kind \in Profiles!Kinds :
                         first[<<h, kind>>] <= found[h][kind] /\ found[h][kind] <= disk[<<h, kind>>]
      <4>1. CASE h = half
        BY <1>7, <1>9, <1>12, <2>1, <4>1 DEF Profiles!ReadSince
      <4>2. CASE h # half
        BY <1>8, <2>1, <3>1, <4>2 DEF Profiles!FoundHolds, Profiles!ReadSince
      <4> QED BY <4>1, <4>2
    <3>2. \A h \in Profiles!Halves : Profiles!Whole(h, found[h], Profiles!HalfOf(first, h))
            => Profiles!Whole(h, found[h], Profiles!HalfOf(first, h))'
      BY <1>3 DEF Profiles!Whole
    <3> QED BY <1>3, <2>2, <3>1, <3>2 DEF Profiles!FoundHolds, Profiles!ReadSince
  <2>5. Profiles!CharactersHold'
    BY <1>3, <1>8, <2>2 DEF Profiles!CharactersHold
  <2>6. Profiles!LoadHolds' /\ loader' \in Profiles!Loaders
    BY <1>7, <2>1, <2>2, <2>3, <2>4, <2>5 DEF Profiles!LoadHolds, Profiles!Loaders,
           Profiles!Bundles
  <2> QED BY <1>3, <2>2, <2>6, LoaderOnly
<1> QED BY <1>1, <1>10, <1>11, <1>12

LEMMA WritePayloadKeeps ==
  ASSUME Profiles!ProfileInvariant, Profiles!WritePayload
  PROVE  Profiles!ProfileInvariant'
<1> USE DEF Profiles!ProfileInvariant
<1> PICK half, b : half = loader.half /\ b = loader.found[half]
  OBVIOUS
<1>1. /\ loader.pc = "write" /\ loader' = Profiles!Done(b)
      /\ \/ /\ loader.gen = generation
            /\ payloads' = [payloads EXCEPT ![half] = [version |-> b.lookup, gen |-> loader.gen]]
         \/ payloads' = payloads
      /\ UNCHANGED <<disk, entry, generation, decodedCleared, together, failing>>
  BY DEF Profiles!WritePayload, Profiles!historyVars, Profiles!MayWrite
<1>2. /\ loader \in Profiles!Reading /\ Profiles!LoadHolds /\ generation \in Nat
      /\ payloads \in [Profiles!Halves -> [version : Profiles!Versions, gen : Nat] \cup {None}]
      /\ decodedCleared \in 0..generation
  BY <1>1, LoaderTypes DEF Profiles!TypeOK
<1>3. half \in Profiles!Halves /\ b \in Profiles!Bundles
  BY <1>1, <1>2 DEF Profiles!Reading, Profiles!LoadHolds
<1>4. b # None => \/ Profiles!Whole(half, b, Profiles!HalfOf(loader.first, half))
                  \/ /\ Profiles!SameIdentity(b.characters, b.lookup)
                     /\ Profiles!ReadSince(half, b)
  BY <1>1, <1>2, <1>3 DEF Profiles!LoadHolds, Profiles!FoundHolds
<1>5. loader' \in Profiles!Loaders /\ Profiles!LoadHolds'
      /\ (loader'.pc \in {"print", "reprint"} => Len(loader'.print) <= 4)
  BY <1>1, <1>2, <1>3, <1>4, DoneHolds
<1>6. \/ payloads' = payloads
      \/ \E p \in [version : Profiles!Versions, gen : Nat] :
           p.gen = generation /\ payloads' = [payloads EXCEPT ![half] = p]
  <2>1. [version |-> b.lookup, gen |-> generation] \in [version : Profiles!Versions, gen : Nat]
    BY <1>2, <1>3 DEF Profiles!Bundles
  <2> QED BY <1>1, <2>1
<1>7. /\ payloads' \in [Profiles!Halves -> [version : Profiles!Versions, gen : Nat] \cup {None}]
      /\ \A h \in Profiles!Halves :
           payloads'[h] = payloads[h] \/ payloads'[h].gen = generation
  BY <1>2, <1>3, <1>6
<1>8. Profiles!TypeOK'
  BY <1>1, <1>5, <1>7, ReadingOrderHolds DEF Profiles!TypeOK
<1>9. Profiles!DiskIsTogether' /\ Profiles!FailuresAreCounted' /\ Profiles!BundlesAreWhole'
  BY <1>1 DEF Profiles!DiskIsTogether, Profiles!FailuresAreCounted, Profiles!BundlesAreWhole,
         Profiles!Whole
<1>10. Profiles!ClearedStaysCleared'
  BY <1>1, <1>2, <1>7 DEF Profiles!ClearedStaysCleared
<1> QED BY <1>5, <1>8, <1>9, <1>10

\* What the second fingerprint accepts is whole.
LEMMA LoadedIsWhole ==
  ASSUME Profiles!ProfileInvariant, loader.pc = "reprint", Len(loader.print) = 4,
         NEW h \in Profiles!Halves, Profiles!Loaded(h) # None
  PROVE  /\ Profiles!Loaded(h) \in Profiles!Bundles
         /\ Profiles!Whole(h, Profiles!Loaded(h), Profiles!HalfOf(Profiles!Latest, h))
<1> PICK seen, first, b : seen = loader.print /\ first = loader.first /\ b = loader.found[h]
  OBVIOUS
<1>1. /\ loader \in Profiles!Reprinting /\ Profiles!LoadHolds
      /\ disk \in [Profiles!Files -> Profiles!Versions]
  BY LoaderTypes DEF Profiles!ProfileInvariant, Profiles!TypeOK
<1>2. /\ seen \in Seq(Profiles!Seen) /\ Len(seen) = 4 /\ b \in Profiles!Bundles \cup {None}
      /\ first \in [Profiles!Files -> Profiles!Seen]
  BY <1>1 DEF Profiles!Reprinting
<1> PICK last : last = Profiles!PrintOf(seen)
  OBVIOUS
<1>3. /\ last[<<h, "characters">>] = seen[Place(h)]
      /\ last[<<h, "lookup">>] = seen[Place(h) + 1]
  BY <1>2, PrintOfHolds
<1>4. /\ Profiles!HalfOf(first, h) = Profiles!HalfOf(last, h)
      /\ Profiles!Loaded(h) = b /\ b # None /\ Profiles!Latest = last
  BY DEF Profiles!Loaded, Profiles!Stable, Profiles!Latest
<1>5. /\ first[<<h, "characters">>] = last[<<h, "characters">>]
      /\ first[<<h, "lookup">>] = last[<<h, "lookup">>]
  <2>1. \A kind \in Profiles!Kinds :
          Profiles!HalfOf(first, h)[kind] = first[<<h, kind>>]
            /\ Profiles!HalfOf(last, h)[kind] = last[<<h, kind>>]
    BY DEF Profiles!HalfOf
  <2> QED BY <1>4, <2>1, FilesHold
<1>6. CASE Profiles!Whole(h, b, Profiles!HalfOf(first, h))
  BY <1>2, <1>4, <1>6
<1>7. CASE ~Profiles!Whole(h, b, Profiles!HalfOf(first, h))
  <2>1. Profiles!SameIdentity(b.characters, b.lookup) /\ Profiles!ReadSince(h, b)
        /\ Profiles!ReprintHolds
    BY <1>1, <1>4, <1>7 DEF Profiles!LoadHolds, Profiles!FoundHolds
  <2>2. SUFFICES ASSUME Profiles!Told(Profiles!HalfOf(last, h))
                 PROVE  <<b.characters, b.lookup>> \in together[h]
    BY <1>2, <1>4, <2>1 DEF Profiles!Whole
  <2>3. seen[Place(h)] # 0 /\ seen[Place(h) + 1] # 0
    BY <1>3, <2>2, FilesHold DEF Profiles!Told, Profiles!HalfOf, Profiles!Missing
  <2>4. /\ Place(h) \in 1..4 /\ Place(h) + 1 \in 1..4
        /\ Profiles!ReadingOrder[Place(h)] = <<h, "characters">>
        /\ Profiles!ReadingOrder[Place(h) + 1] = <<h, "lookup">>
    BY ReadingOrderHolds
  <2>5. \A n \in 1..4 : ShownAt(n, seen[n], first, loader.found)
    BY <1>2, <2>1, ReprintMeans
  <2>6. /\ b["characters"] <= seen[Place(h)]
        /\ Profiles!Met(h, first[<<h, "characters">>], first[<<h, "lookup">>], seen[Place(h)])
    BY <1>4, <1>7, <2>3, <2>4, <2>5 DEF ShownAt
  <2>7. b["lookup"] <= seen[Place(h) + 1]
    BY <1>4, <1>7, <2>3, <2>4, <2>5 DEF ShownAt
  <2>8. /\ first[<<h, "characters">>] <= b["characters"]
        /\ first[<<h, "lookup">>] <= b["lookup"]
    BY <2>1, FilesHold DEF Profiles!ReadSince
  <2>9. /\ b.characters \in Nat /\ b.lookup \in Nat
        /\ seen[Place(h)] \in Nat /\ seen[Place(h) + 1] \in Nat
    <3>1. b.characters \in Profiles!Versions /\ b.lookup \in Profiles!Versions
      BY <1>2, <1>4 DEF Profiles!Bundles
    <3>2. \A n \in 1..4 : seen[n] \in Profiles!Seen
      BY <1>2
    <3> QED BY <2>4, <3>1, <3>2, ProfileConstants
  <2>10. b.characters = seen[Place(h)] /\ b.lookup = seen[Place(h) + 1]
    BY <1>3, <1>5, <2>6, <2>7, <2>8, <2>9
  <2> QED BY <1>3, <1>5, <2>3, <2>6, <2>9, <2>10 DEF Profiles!Met, Profiles!Missing
<1> QED BY <1>6, <1>7

LEMMA PublishKeeps ==
  ASSUME Profiles!ProfileInvariant, Profiles!Publish
  PROVE  Profiles!ProfileInvariant'
<1> USE DEF Profiles!ProfileInvariant
<1>1. /\ loader.pc = "reprint" /\ Len(loader.print) = 4 /\ loader' = [pc |-> "idle"]
      /\ entry' = [db |-> [h \in Profiles!Halves |-> Profiles!DataAfter(h)],
                   state |-> [h \in Profiles!Halves |-> Profiles!StateAfter(h)],
                   observed |-> Profiles!Latest]
      /\ failing' = [h \in Profiles!Halves |->
                       IF Profiles!Loaded(h) # None THEN "none"
                       ELSE IF failing[h] = "none" /\ Profiles!Before(h).known THEN "runs"
                       ELSE failing[h]]
      /\ UNCHANGED <<disk, payloads, generation, decodedCleared, together>>
  BY ReadingOrderHolds DEF Profiles!Publish, Profiles!Printed, Profiles!decodedVars
<1>2. /\ loader \in Profiles!Reprinting /\ entry \in Profiles!Entries \cup {None}
      /\ failing \in [Profiles!Halves -> {"none", "runs", "over"}]
  BY <1>1, LoaderTypes DEF Profiles!TypeOK
<1>3. Profiles!Latest \in [Profiles!Files -> Profiles!Seen]
  BY <1>1, <1>2, PrintOfHolds DEF Profiles!Reprinting, Profiles!Latest
<1> PICK last : last = Profiles!Latest
  OBVIOUS
<1> DEFINE halfPrint(h) == Profiles!HalfOf(last, h)
<1>4. \A h \in Profiles!Halves : halfPrint(h) \in [Profiles!Kinds -> Profiles!Seen]
  BY <1>3 DEF Profiles!HalfOf, Profiles!Files
<1> HIDE DEF halfPrint
<1>5. ASSUME NEW h \in Profiles!Halves
      PROVE  /\ Profiles!Before(h) \in Profiles!States
             /\ failing[h] = Profiles!Before(h).fallback
             /\ entry # None => Profiles!Before(h) = entry.state[h]
  <2>1. CASE entry = None
    <3>1. Profiles!Before(h) = [known |-> FALSE, print |-> halfPrint(h), available |-> FALSE,
                                fallback |-> "none"]
      BY <2>1 DEF Profiles!Before, halfPrint
    <3>2. failing[h] = "none"
      BY <2>1 DEF Profiles!FailuresAreCounted
    <3> QED BY <1>4, <2>1, <3>1, <3>2 DEF Profiles!States
  <2>2. CASE entry # None
    <3>1. Profiles!Before(h) = entry.state[h]
      BY <2>2 DEF Profiles!Before
    <3>2. entry.state[h] \in Profiles!States
      BY <1>2, <2>2 DEF Profiles!Entries
    <3>3. failing[h] = entry.state[h].fallback
      BY <2>2 DEF Profiles!FailuresAreCounted
    <3> QED BY <3>1, <3>2, <3>3
  <2> QED BY <2>1, <2>2
<1> DEFINE data(h) == Profiles!DataAfter(h)
           state(h) == Profiles!StateAfter(h)
           fails(h) == IF Profiles!Loaded(h) # None THEN "none"
                       ELSE IF failing[h] = "none" /\ Profiles!Before(h).known THEN "runs"
                       ELSE failing[h]
<1>6. ASSUME NEW h \in Profiles!Halves
      PROVE  /\ state(h) \in Profiles!States /\ data(h) \in Profiles!Bundles \cup {None}
             /\ data(h) # None => Profiles!Whole(h, data(h), state(h).print)
             /\ fails(h) = state(h).fallback
  <2>1. CASE Profiles!Loaded(h) # None
    <3>1. state(h) = [known |-> TRUE, print |-> halfPrint(h), available |-> TRUE,
                      fallback |-> "none"]
      BY <2>1 DEF Profiles!StateAfter, halfPrint
    <3>2. data(h) = Profiles!Loaded(h) /\ fails(h) = "none"
      BY <2>1 DEF Profiles!DataAfter
    <3>3. data(h) \in Profiles!Bundles /\ Profiles!Whole(h, data(h), halfPrint(h))
      BY <1>1, <2>1, <3>2, LoadedIsWhole DEF halfPrint
    <3>4. state(h) \in Profiles!States /\ state(h).print = halfPrint(h)
          /\ state(h).fallback = "none"
      BY <1>4, <3>1 DEF Profiles!States
    <3> QED BY <3>2, <3>3, <3>4
  <2>2. CASE Profiles!Loaded(h) = None
    <3> PICK old : old = Profiles!Before(h)
      OBVIOUS
    <3> DEFINE fallback == IF old.known /\ old.fallback = "none" THEN "runs" ELSE old.fallback
    <3>1. state(h) = [old EXCEPT !.available = FALSE, !.fallback = fallback]
      BY <2>2 DEF Profiles!StateAfter, Profiles!Fallback
    <3>2. old \in Profiles!States /\ failing[h] = old.fallback
      BY <1>5
    <3>3. fallback \in {"none", "runs", "over"}
      BY <3>2 DEF Profiles!States
    <3>4. fails(h) = fallback
      BY <2>2, <3>2
    <3> HIDE DEF fallback
    <3>5. state(h) \in Profiles!States /\ state(h).print = old.print
          /\ state(h).fallback = fallback
      BY <3>1, <3>2, <3>3 DEF Profiles!States
    <3>6. data(h) = None \/ (entry # None /\ data(h) = entry.db[h])
      BY <2>2 DEF Profiles!DataAfter
    <3>7. CASE data(h) = None
      BY <3>4, <3>5, <3>7
    <3>8. CASE entry # None /\ data(h) = entry.db[h]
      <4>1. data(h) \in Profiles!Bundles \cup {None}
        BY <1>2, <3>8 DEF Profiles!Entries
      <4>2. old = entry.state[h]
        BY <1>5, <3>8
      <4>3. data(h) # None => Profiles!Whole(h, data(h), old.print)
        BY <3>8, <4>2 DEF Profiles!BundlesAreWhole
      <4> QED BY <3>4, <3>5, <4>1, <4>3
    <3> QED BY <3>6, <3>7, <3>8
  <2> QED BY <2>1, <2>2
<1> HIDE DEF data, state, fails
<1> PICK dbs : dbs = [h \in Profiles!Halves |-> data(h)]
  OBVIOUS
<1> PICK states : states = [h \in Profiles!Halves |-> state(h)]
  OBVIOUS
<1>7. /\ entry' = [db |-> dbs, state |-> states, observed |-> last]
      /\ failing' = [h \in Profiles!Halves |-> fails(h)]
  BY <1>1 DEF data, state, fails
<1>8. /\ dbs \in [Profiles!Halves -> Profiles!Bundles \cup {None}]
      /\ states \in [Profiles!Halves -> Profiles!States]
      /\ \A h \in Profiles!Halves : dbs[h] # None => Profiles!Whole(h, dbs[h], states[h].print)
      /\ failing' \in [Profiles!Halves -> {"none", "runs", "over"}]
      /\ \A h \in Profiles!Halves : failing'[h] = states[h].fallback
  <2>1. \A h \in Profiles!Halves : state(h).fallback \in {"none", "runs", "over"}
    BY <1>6 DEF Profiles!States
  <2> QED BY <1>6, <1>7, <2>1
<1>9. entry' \in Profiles!Entries /\ entry' # None /\ entry'.db = dbs /\ entry'.state = states
  BY <1>3, <1>7, <1>8, ProfileConstants DEF Profiles!Entries
<1>10. loader' \in Profiles!Loaders /\ loader'.pc = "idle"
  BY <1>1 DEF Profiles!Loaders
<1>11. Profiles!TypeOK'
  BY <1>1, <1>8, <1>9, <1>10 DEF Profiles!TypeOK
<1>12. Profiles!LoadHolds'
  BY <1>10 DEF Profiles!LoadHolds
<1>13. Profiles!BundlesAreWhole'
  BY <1>1, <1>8, <1>9 DEF Profiles!BundlesAreWhole, Profiles!Whole
<1>14. Profiles!FailuresAreCounted'
  BY <1>8, <1>9 DEF Profiles!FailuresAreCounted
<1>15. Profiles!DiskIsTogether' /\ Profiles!ClearedStaysCleared'
  BY <1>1 DEF Profiles!DiskIsTogether, Profiles!ClearedStaysCleared
<1> QED BY <1>11, <1>12, <1>13, <1>14, <1>15

LEMMA ProfileInit == Profiles!Init => Profiles!ProfileInvariant
<1> SUFFICES ASSUME Profiles!Init PROVE Profiles!ProfileInvariant
  OBVIOUS
<1> PICK print : print = [kind \in Profiles!Kinds |-> 1]
  OBVIOUS
<1> PICK state : state = [known |-> TRUE, print |-> print, available |-> TRUE,
                          fallback |-> "none"]
  OBVIOUS
<1>1. /\ disk = [f \in Profiles!Files |-> 1]
      /\ loader = [pc |-> "idle"] /\ generation = 0 /\ decodedCleared = 0
      /\ together = [h \in Profiles!Halves |-> {<<1, 1>>}]
      /\ failing = [h \in Profiles!Halves |-> "none"]
  BY DEF Profiles!Init
<1>2. \/ entry = None /\ payloads = [h \in Profiles!Halves |-> None]
      \/ /\ entry = [db |-> [h \in Profiles!Halves |-> print],
                     state |-> [h \in Profiles!Halves |-> state],
                     observed |-> [f \in Profiles!Files |-> 1]]
         /\ payloads = [h \in Profiles!Halves |-> [version |-> 1, gen |-> 0]]
  BY DEF Profiles!Init, Profiles!Undisturbed
<1>3. 1 \in Profiles!Versions /\ 1 \in Profiles!Seen
  BY ProfileConstants
<1>4. print \in Profiles!Bundles /\ print \in [Profiles!Kinds -> Profiles!Seen]
      /\ print.characters = 1 /\ print.lookup = 1
  <2>1. print = [characters |-> 1, lookup |-> 1]
    BY DEF Profiles!Kinds
  <2> QED BY <1>3, <2>1 DEF Profiles!Bundles
<1>5. state \in Profiles!States /\ state.fallback = "none"
  BY <1>4 DEF Profiles!States
<1>6. entry # None =>
        /\ entry \in Profiles!Entries
        /\ \A h \in Profiles!Halves : entry.db[h] = print /\ entry.state[h] = state
  <2> PICK dbs : dbs = [h \in Profiles!Halves |-> print]
    OBVIOUS
  <2> PICK states : states = [h \in Profiles!Halves |-> state]
    OBVIOUS
  <2> PICK observed : observed = [f \in Profiles!Files |-> 1]
    OBVIOUS
  <2>1. /\ dbs \in [Profiles!Halves -> Profiles!Bundles \cup {None}]
        /\ states \in [Profiles!Halves -> Profiles!States]
        /\ observed \in [Profiles!Files -> Profiles!Seen]
        /\ \A h \in Profiles!Halves : dbs[h] = print /\ states[h] = state
    BY <1>3, <1>4, <1>5
  <2>2. entry # None => entry = [db |-> dbs, state |-> states, observed |-> observed]
    BY <1>2
  <2>3. entry # None => entry.db = dbs /\ entry.state = states
    BY <2>2
  <2>4. entry # None => entry \in Profiles!Entries
    <3>1. [db |-> dbs, state |-> states, observed |-> observed] \in Profiles!Entries
      BY <2>1 DEF Profiles!Entries
    <3> QED BY <2>2, <3>1
  <2> QED BY <2>1, <2>3, <2>4
<1>7. Profiles!TypeOK
  <2>1. disk \in [Profiles!Files -> Profiles!Versions]
    BY <1>1, <1>3
  <2>2. loader \in Profiles!Loaders /\ loader.pc = "idle"
    BY <1>1 DEF Profiles!Loaders
  <2>3. payloads \in [Profiles!Halves -> [version : Profiles!Versions, gen : Nat] \cup {None}]
    <3>1. [version |-> 1, gen |-> 0] \in [version : Profiles!Versions, gen : Nat]
      BY <1>3
    <3> QED BY <1>2, <3>1
  <2>4. together \in [Profiles!Halves -> SUBSET (Profiles!Versions \X Profiles!Versions)]
    BY <1>1, <1>3
  <2>5. failing \in [Profiles!Halves -> {"none", "runs", "over"}]
    BY <1>1
  <2> QED BY <1>1, <1>6, <2>1, <2>2, <2>3, <2>4, <2>5 DEF Profiles!TypeOK
<1>8. Profiles!DiskIsTogether
  BY <1>1, FilesHold DEF Profiles!DiskIsTogether
<1>9. Profiles!LoadHolds
  <2>1. loader.pc = "idle"
    BY <1>1
  <2> QED BY <2>1 DEF Profiles!LoadHolds
<1>10. Profiles!BundlesAreWhole
  BY <1>1, <1>4, <1>6 DEF Profiles!BundlesAreWhole, Profiles!Whole, Profiles!SameIdentity
<1>11. Profiles!FailuresAreCounted
  BY <1>1, <1>5, <1>6 DEF Profiles!FailuresAreCounted
<1>12. Profiles!ClearedStaysCleared
  BY <1>1, <1>2 DEF Profiles!ClearedStaysCleared
<1> QED BY <1>7, <1>8, <1>9, <1>10, <1>11, <1>12 DEF Profiles!ProfileInvariant

\* What holds of a load goes on to hold while files are replaced by newer ones.
LEMMA ReplaceProfileKeeps ==
  ASSUME Profiles!ProfileInvariant, NEW f \in Profiles!Files, Profiles!Replace(f)
  PROVE  Profiles!ProfileInvariant'
<1> USE DEF Profiles!ProfileInvariant
<1>1. PICK g \in Profiles!Halves : f = <<g, "characters">> \/ f = <<g, "lookup">>
  BY FilesHold
<1>2. /\ disk[f] + 1 \in Profiles!Versions
      /\ disk' = [disk EXCEPT ![f] = disk[f] + 1]
      /\ together' = [together EXCEPT ![g] = together[g] \cup
                        {<<disk'[<<g, "characters">>], disk'[<<g, "lookup">>]>>}]
      /\ UNCHANGED <<entry, loader, payloads, generation, decodedCleared, failing>>
  <2>1. f[1] = g
    BY <1>1
  <2>2. /\ disk[f] + 1 \in Profiles!Versions
        /\ disk' = [disk EXCEPT ![f] = disk[f] + 1]
        /\ together' = [together EXCEPT ![f[1]] = together[f[1]] \cup
                          {<<disk'[<<f[1], "characters">>], disk'[<<f[1], "lookup">>]>>}]
        /\ UNCHANGED <<entry, loader, payloads, generation, decodedCleared, failing>>
    BY DEF Profiles!Replace, Profiles!decodedVars
  <2> QED BY <2>1, <2>2, Zenon
<1>3. /\ disk \in [Profiles!Files -> Profiles!Versions] /\ Profiles!Versions \subseteq Nat
      /\ together \in [Profiles!Halves -> SUBSET (Profiles!Versions \X Profiles!Versions)]
  BY ProfileConstants DEF Profiles!TypeOK
<1>4. /\ disk' \in [Profiles!Files -> Profiles!Versions]
      /\ \A e \in Profiles!Files : disk[e] <= disk'[e] /\ disk[e] \in Nat /\ disk'[e] \in Nat
      /\ \A e \in Profiles!Files : e # f => disk'[e] = disk[e]
  <2>1. disk' \in [Profiles!Files -> Profiles!Versions]
    BY <1>2, <1>3
  <2>2. ASSUME NEW e \in Profiles!Files
        PROVE  disk[e] <= disk'[e] /\ disk[e] \in Nat /\ disk'[e] \in Nat
               /\ (e # f => disk'[e] = disk[e])
    <3>1. disk[e] \in Nat /\ disk'[e] \in Nat
      BY <1>3, <2>1
    <3>2. disk'[e] = IF e = f THEN disk[f] + 1 ELSE disk[e]
      BY <1>2, <1>3
    <3> QED BY <3>1, <3>2
  <2> QED BY <2>1, <2>2
<1>5. /\ together' \in [Profiles!Halves -> SUBSET (Profiles!Versions \X Profiles!Versions)]
      /\ \A h \in Profiles!Halves : together[h] \subseteq together'[h]
      /\ <<disk'[<<g, "characters">>], disk'[<<g, "lookup">>]>> \in together'[g]
  <2> PICK pair : pair = <<disk'[<<g, "characters">>], disk'[<<g, "lookup">>]>>
    OBVIOUS
  <2>1. pair \in Profiles!Versions \X Profiles!Versions
    BY <1>4, FilesHold
  <2>2. together' = [together EXCEPT ![g] = together[g] \cup {pair}]
    BY <1>2
  <2> QED BY <1>3, <2>1, <2>2
<1>6. Profiles!DiskIsTogether'
  <2> SUFFICES ASSUME NEW h \in Profiles!Halves
               PROVE  <<disk'[<<h, "characters">>], disk'[<<h, "lookup">>]>> \in together'[h]
    BY DEF Profiles!DiskIsTogether
  <2>1. CASE h = g
    BY <1>5, <2>1
  <2>2. CASE h # g
    <3>1. /\ disk'[<<h, "characters">>] = disk[<<h, "characters">>]
          /\ disk'[<<h, "lookup">>] = disk[<<h, "lookup">>]
      BY <1>1, <1>4, <2>2, FilesHold
    <3>2. <<disk[<<h, "characters">>], disk[<<h, "lookup">>]>> \in together[h]
      BY DEF Profiles!DiskIsTogether
    <3> QED BY <1>5, <3>1, <3>2
  <2> QED BY <2>1, <2>2
<1>7. ASSUME NEW h \in Profiles!Halves, NEW c \in Nat, NEW l, NEW a \in Nat, NEW b \in Nat,
             a <= b, Profiles!Met(h, c, l, a)
      PROVE  Profiles!Met(h, c, l, b)'
  <2>1. c # 0 /\ l # 0 => <<c, l>> \in together[h] \/ a > c
    BY <1>7 DEF Profiles!Met, Profiles!Missing
  <2>2. a > c => b > c
    BY <1>7
  <2> QED BY <1>5, <2>1, <2>2 DEF Profiles!Met, Profiles!Missing
<1>8. ASSUME NEW h \in Profiles!Halves, NEW b, NEW print, Profiles!Whole(h, b, print)
      PROVE  Profiles!Whole(h, b, print)'
  BY <1>5, <1>8 DEF Profiles!Whole
<1>9. Profiles!TypeOK'
  BY <1>2, <1>4, <1>5 DEF Profiles!TypeOK
<1>10. loader.pc \in {"print", "reprint"} => Profiles!PrintHolds(loader.print)'
  <2> SUFFICES ASSUME loader.pc \in {"print", "reprint"}
               PROVE  Profiles!PrintHolds(loader.print)'
    OBVIOUS
  <2> PICK seen : seen = loader.print
    OBVIOUS
  <2>1. /\ seen \in Seq(Profiles!Seen) /\ Len(seen) <= 4 /\ Profiles!PrintHolds(seen)
    BY LoaderTypes, ReadingOrderHolds
       DEF Profiles!TypeOK, Profiles!LoadHolds, Profiles!Reprinting
  <2>2. \A n \in DOMAIN seen : n \in 1..4 /\ seen[n] \in Nat
    <3> TAKE n \in DOMAIN seen
    <3>1. n \in 1..Len(seen) /\ seen[n] \in Profiles!Seen
      BY <2>1
    <3>2. n \in 1..4
      <4>1. Len(seen) \in Nat
        BY <2>1
      <4> QED BY <2>1, <3>1, <4>1
    <3> QED BY <3>1, <3>2, ProfileConstants
  <2>3. ASSUME NEW n \in DOMAIN seen PROVE seen[n] <= disk'[Profiles!ReadingOrder[n]]
    <3> PICK e \in Profiles!Files : e = Profiles!ReadingOrder[n]
      BY <2>2, PlacesAreFiles
    <3>1. seen[n] <= disk[e] /\ seen[n] \in Nat
      BY <2>1, <2>2 DEF Profiles!PrintHolds
    <3>2. disk[e] <= disk'[e] /\ disk[e] \in Nat /\ disk'[e] \in Nat
      BY <1>4
    <3> QED BY <3>1, <3>2
  <2>4. ASSUME NEW n \in {1, 3}, n + 1 \in DOMAIN seen
        PROVE  Profiles!Met(Profiles!ReadingOrder[n][1], seen[n], seen[n + 1],
                            disk[Profiles!ReadingOrder[n]])'
    <3> PICK h \in Profiles!Halves : n = Place(h)
      BY ReadingOrderHolds
    <3>1. Profiles!ReadingOrder[n] = <<h, "characters">>
      BY ReadingOrderHolds
    <3>2. n \in DOMAIN seen
      <4>1. n + 1 <= Len(seen) /\ Len(seen) \in Nat
        BY <2>1, <2>4
      <4> QED BY <2>1, <4>1
    <3> PICK a, b : a = disk[<<h, "characters">>] /\ b = disk'[<<h, "characters">>]
      OBVIOUS
    <3>3. a \in Nat /\ b \in Nat /\ a <= b /\ seen[n] \in Nat
      BY <1>4, <2>2, <3>2, FilesHold
    <3>4. Profiles!Met(h, seen[n], seen[n + 1], a)
      BY <2>1, <2>4, <3>1 DEF Profiles!PrintHolds
    <3>5. Profiles!Met(h, seen[n], seen[n + 1], b)'
      BY <1>7, <3>3, <3>4
    <3> QED BY <3>1, <3>5 DEF Profiles!Met
  <2>5. Profiles!PrintHolds(seen)'
    BY <2>3, <2>4 DEF Profiles!PrintHolds
  <2> QED BY <1>2, <2>5 DEF Profiles!PrintHolds, Profiles!Met
<1>11. loader.pc \in {"read", "write", "reprint"} => Profiles!FirstHolds' /\ Profiles!FoundHolds'
  <2> SUFFICES ASSUME loader.pc \in {"read", "write", "reprint"}
               PROVE  Profiles!FirstHolds' /\ Profiles!FoundHolds'
    OBVIOUS
  <2> PICK first, found : first = loader.first /\ found = loader.found
    OBVIOUS
  <2>1. /\ Profiles!FirstHolds /\ Profiles!FoundHolds
        /\ first \in [Profiles!Files -> Profiles!Seen]
        /\ found \in [Profiles!Halves -> Profiles!Bundles \cup {None}]
    BY LoaderTypes DEF Profiles!TypeOK, Profiles!LoadHolds, Profiles!Reading,
           Profiles!Reprinting
  <2>2. \A e \in Profiles!Files : first[e] \in Nat
    BY <2>1, ProfileConstants
  <2>3. \A e \in Profiles!Files : first[e] <= disk'[e]
    <3> TAKE e \in Profiles!Files
    <3>1. first[e] <= disk[e]
      BY <2>1 DEF Profiles!FirstHolds
    <3> QED BY <1>4, <2>2, <3>1
  <2>4. ASSUME NEW h \in Profiles!Halves
        PROVE  Profiles!Met(h, first[<<h, "characters">>], first[<<h, "lookup">>],
                            disk[<<h, "characters">>])'
    <3> PICK a, b : a = disk[<<h, "characters">>] /\ b = disk'[<<h, "characters">>]
      OBVIOUS
    <3> PICK c, l : c = first[<<h, "characters">>] /\ l = first[<<h, "lookup">>]
      OBVIOUS
    <3>1. a \in Nat /\ b \in Nat /\ a <= b /\ c \in Nat
      BY <1>4, <2>2, FilesHold
    <3>2. Profiles!Met(h, c, l, a)
      BY <2>1 DEF Profiles!FirstHolds
    <3>3. Profiles!Met(h, c, l, b)'
      BY <1>7, <3>1, <3>2
    <3> QED BY <3>3 DEF Profiles!Met
  <2>5. Profiles!FirstHolds'
    BY <1>2, <2>3, <2>4 DEF Profiles!FirstHolds, Profiles!Met
  <2>6. ASSUME NEW h \in Profiles!Halves, found[h] # None
        PROVE  \/ Profiles!Whole(h, found[h], Profiles!HalfOf(first, h))'
               \/ /\ Profiles!SameIdentity(found[h].characters, found[h].lookup)
                  /\ \A kind \in Profiles!Kinds :
                       /\ first[<<h, kind>>] <= found[h][kind]
                       /\ found[h][kind] <= disk'[<<h, kind>>]
    <3>1. CASE Profiles!Whole(h, found[h], Profiles!HalfOf(first, h))
      BY <1>8, <3>1
    <3>2. CASE ~Profiles!Whole(h, found[h], Profiles!HalfOf(first, h))
      <4>1. Profiles!SameIdentity(found[h].characters, found[h].lookup)
            /\ Profiles!ReadSince(h, found[h])
        BY <2>1, <2>6, <3>2 DEF Profiles!FoundHolds
      <4>2. \A kind \in Profiles!Kinds : found[h][kind] \in Nat
        <5>1. found[h] \in Profiles!Bundles
          BY <2>1, <2>6
        <5>2. found[h].characters \in Nat /\ found[h].lookup \in Nat
          BY <5>1, ProfileConstants DEF Profiles!Bundles
        <5> QED BY <5>2, FilesHold
      <4>3. ASSUME NEW kind \in Profiles!Kinds
            PROVE  first[<<h, kind>>] <= found[h][kind] /\ found[h][kind] <= disk'[<<h, kind>>]
        <5> PICK e \in Profiles!Files : e = <<h, kind>>
          BY FilesHold
        <5>1. first[e] <= found[h][kind] /\ found[h][kind] <= disk[e]
          BY <4>1 DEF Profiles!ReadSince
        <5> QED BY <1>4, <4>2, <5>1
      <4> QED BY <4>1, <4>3
    <3> QED BY <3>1, <3>2
  <2>7. Profiles!FoundHolds'
    BY <1>2, <2>6 DEF Profiles!FoundHolds, Profiles!ReadSince
  <2> QED BY <2>5, <2>7
<1>12. loader.pc \in {"read", "write"} => Profiles!CharactersHold'
  <2> SUFFICES ASSUME loader.pc \in {"read", "write"}, loader.characters # 0
               PROVE  /\ loader.first[<<loader.half, "characters">>] <= loader.characters
                      /\ loader.characters <= disk'[<<loader.half, "characters">>]
    BY <1>2 DEF Profiles!CharactersHold, Profiles!Missing
  <2>1. loader.half \in Profiles!Halves /\ loader.characters \in Nat
    BY LoaderTypes, ProfileConstants DEF Profiles!TypeOK, Profiles!Reading
  <2>2. /\ loader.first[<<loader.half, "characters">>] <= loader.characters
        /\ loader.characters <= disk[<<loader.half, "characters">>]
    BY DEF Profiles!LoadHolds, Profiles!CharactersHold, Profiles!Missing
  <2> PICK e \in Profiles!Files : e = <<loader.half, "characters">>
    BY <2>1, FilesHold
  <2> QED BY <1>4, <2>1, <2>2
<1>13. loader.pc = "reprint" => Profiles!ReprintHolds'
  <2> SUFFICES ASSUME loader.pc = "reprint" PROVE Profiles!ReprintHolds'
    OBVIOUS
  <2> PICK seen, first, found :
        seen = loader.print /\ first = loader.first /\ found = loader.found
    OBVIOUS
  <2>1. /\ Profiles!ReprintHolds /\ seen \in Seq(Profiles!Seen) /\ Len(seen) <= 4
        /\ first \in [Profiles!Files -> Profiles!Seen]
    BY LoaderTypes, ReadingOrderHolds
       DEF Profiles!TypeOK, Profiles!LoadHolds, Profiles!Reprinting
  <2>2. \A n \in DOMAIN seen : ShownAt(n, seen[n], first, found)
    BY <2>1, ReprintMeans
  <2>3. ASSUME NEW n \in DOMAIN seen PROVE ShownAt(n, seen[n], first, found)'
    <3>1. n \in 1..4 /\ seen[n] \in Nat
      <4>1. Len(seen) \in Nat /\ n \in 1..Len(seen) /\ seen[n] \in Profiles!Seen
        BY <2>1
      <4> QED BY <2>1, <4>1, ProfileConstants
    <3> PICK h \in Profiles!Halves : n = Place(h) \/ n = Place(h) + 1
      BY <3>1, ReadingOrderHolds
    <3> PICK kind \in Profiles!Kinds : Profiles!ReadingOrder[n] = <<h, kind>>
      BY ReadingOrderHolds, FilesHold
    <3>2. seen[n] # 0 =>
            /\ first[<<h, kind>>] <= seen[n]
            /\ \/ found[h] = None
               \/ Profiles!Whole(h, found[h], Profiles!HalfOf(first, h))
               \/ found[h][kind] <= seen[n]
            /\ kind = "characters" =>
                 Profiles!Met(h, first[<<h, "characters">>], first[<<h, "lookup">>], seen[n])
      BY <2>2 DEF ShownAt
    <3>3. first[<<h, "characters">>] \in Nat
      BY <2>1, FilesHold, ProfileConstants
    <3>4. Profiles!Met(h, first[<<h, "characters">>], first[<<h, "lookup">>], seen[n])
            => Profiles!Met(h, first[<<h, "characters">>], first[<<h, "lookup">>], seen[n])'
      <4> PICK a : a = seen[n]
        OBVIOUS
      <4>1. a <= a /\ a \in Nat
        BY <3>1
      <4> QED BY <1>7, <3>3, <4>1
    <3>5. Profiles!Whole(h, found[h], Profiles!HalfOf(first, h))
            => Profiles!Whole(h, found[h], Profiles!HalfOf(first, h))'
      BY <1>8
    <3> QED BY <3>2, <3>4, <3>5 DEF ShownAt
  <2> QED BY <1>2, <2>3 DEF Profiles!ReprintHolds, ShownAt, Profiles!Missing
<1>14. Profiles!LoadHolds'
  <2>1. loader.pc = "write" => loader.found[loader.half] \in Profiles!Bundles
    BY DEF Profiles!LoadHolds
  <2> QED BY <1>2, <1>10, <1>11, <1>12, <1>13, <2>1 DEF Profiles!LoadHolds, Profiles!Bundles
<1>15. Profiles!BundlesAreWhole'
  <2> SUFFICES ASSUME entry # None, NEW h \in Profiles!Halves, entry.db[h] # None
               PROVE  Profiles!Whole(h, entry.db[h], entry.state[h].print)'
    BY <1>2 DEF Profiles!BundlesAreWhole
  <2> PICK b, print : b = entry.db[h] /\ print = entry.state[h].print
    OBVIOUS
  <2>1. Profiles!Whole(h, b, print)'
    BY <1>8 DEF Profiles!BundlesAreWhole
  <2> QED BY <1>2, <2>1 DEF Profiles!Whole
<1>16. Profiles!FailuresAreCounted' /\ Profiles!ClearedStaysCleared'
  BY <1>2 DEF Profiles!FailuresAreCounted, Profiles!ClearedStaysCleared
<1> QED BY <1>6, <1>9, <1>14, <1>15, <1>16

\* A clear is counted, and leaves what it could not remove.
LEMMA ClearKeeps ==
  ASSUME Profiles!ProfileInvariant, Profiles!Clear
  PROVE  Profiles!ProfileInvariant'
<1> USE DEF Profiles!ProfileInvariant
<1>1. /\ generation' = generation + 1
      /\ \/ payloads' = [h \in Profiles!Halves |-> None] /\ decodedCleared' = generation'
         \/ /\ \E kept \in SUBSET Profiles!Halves :
                 payloads' = [h \in Profiles!Halves |-> IF h \in kept THEN payloads[h] ELSE None]
            /\ decodedCleared' = decodedCleared
      /\ UNCHANGED <<disk, entry, loader, together, failing>>
  BY DEF Profiles!Clear, Profiles!historyVars
<1>2. /\ payloads \in [Profiles!Halves -> [version : Profiles!Versions, gen : Nat] \cup {None}]
      /\ generation \in Nat /\ decodedCleared \in 0..generation
  BY DEF Profiles!TypeOK
<1>3. /\ payloads' \in [Profiles!Halves -> [version : Profiles!Versions, gen : Nat] \cup {None}]
      /\ \A h \in Profiles!Halves :
           payloads'[h] = None
             \/ (payloads'[h] = payloads[h] /\ decodedCleared' = decodedCleared)
  <2>1. CASE payloads' = [h \in Profiles!Halves |-> None]
    BY <2>1
  <2>2. ASSUME NEW kept \in SUBSET Profiles!Halves,
               payloads' = [h \in Profiles!Halves |-> IF h \in kept THEN payloads[h] ELSE None],
               decodedCleared' = decodedCleared
        PROVE  /\ payloads' \in [Profiles!Halves -> [version : Profiles!Versions, gen : Nat]
                                                     \cup {None}]
               /\ \A h \in Profiles!Halves :
                    payloads'[h] = None \/ (payloads'[h] = payloads[h]
                                              /\ decodedCleared' = decodedCleared)
    BY <1>2, <2>2
  <2> QED BY <1>1, <2>1, <2>2
<1>4. generation' \in Nat /\ decodedCleared' \in 0..generation'
  BY <1>1, <1>2
<1>5. Profiles!TypeOK'
  BY <1>1, <1>3, <1>4 DEF Profiles!TypeOK
<1>6. Profiles!DiskIsTogether' /\ Profiles!FailuresAreCounted' /\ Profiles!BundlesAreWhole'
  BY <1>1 DEF Profiles!DiskIsTogether, Profiles!FailuresAreCounted, Profiles!BundlesAreWhole,
         Profiles!Whole
<1>7. Profiles!LoadHolds'
  BY <1>1 DEF Profiles!LoadHolds, Profiles!PrintHolds, Profiles!FirstHolds, Profiles!FoundHolds,
         Profiles!CharactersHold, Profiles!ReprintHolds, Profiles!Met, Profiles!Whole,
         Profiles!ReadSince
<1>8. Profiles!ClearedStaysCleared'
  BY <1>3 DEF Profiles!ClearedStaysCleared
<1> QED BY <1>5, <1>6, <1>7, <1>8

LEMMA EndGraceKeeps ==
  ASSUME Profiles!ProfileInvariant, NEW g \in Profiles!Halves, Profiles!EndGrace(g)
  PROVE  Profiles!ProfileInvariant'
<1> USE DEF Profiles!ProfileInvariant
<1> DEFINE ended(w) == IF w = "runs" THEN "over" ELSE w
<1>1. /\ entry # None
      /\ entry' = [entry EXCEPT !.state[g].fallback = ended(entry.state[g].fallback)]
      /\ failing' = [failing EXCEPT ![g] = ended(failing[g])]
      /\ UNCHANGED <<disk, loader, payloads, generation, decodedCleared, together>>
  BY DEF Profiles!EndGrace, Profiles!decodedVars
<1>2. entry \in Profiles!Entries /\ failing \in [Profiles!Halves -> {"none", "runs", "over"}]
  BY <1>1 DEF Profiles!TypeOK
<1> PICK states : states = entry.state
  OBVIOUS
<1> PICK after : after = [states EXCEPT ![g].fallback = ended(states[g].fallback)]
  OBVIOUS
<1>3. states \in [Profiles!Halves -> Profiles!States]
  BY <1>2 DEF Profiles!Entries
<1>4. /\ after \in [Profiles!Halves -> Profiles!States]
      /\ \A h \in Profiles!Halves :
           /\ after[h].print = states[h].print
           /\ after[h].fallback = IF h = g THEN ended(states[h].fallback) ELSE states[h].fallback
  <2> PICK s : s = [states[g] EXCEPT !.fallback = ended(states[g].fallback)]
    OBVIOUS
  <2>1. states[g] \in Profiles!States /\ ended(states[g].fallback) \in {"none", "runs", "over"}
    BY <1>3 DEF Profiles!States
  <2>2. s \in Profiles!States /\ s.print = states[g].print
        /\ s.fallback = ended(states[g].fallback)
    BY <2>1 DEF Profiles!States
  <2>3. after = [states EXCEPT ![g] = s]
    OBVIOUS
  <2> HIDE DEF ended
  <2> QED BY <1>3, <2>2, <2>3
<1>5. entry' \in Profiles!Entries /\ entry'.state = after /\ entry'.db = entry.db
  <2>1. entry' = [entry EXCEPT !.state = after]
    BY <1>1, Zenon
  <2> QED BY <1>2, <1>4, <2>1 DEF Profiles!Entries
<1>6. entry' # None
  BY <1>5, ProfileConstants
<1>7. \A h \in Profiles!Halves : failing[h] = states[h].fallback
  BY <1>1 DEF Profiles!FailuresAreCounted
<1>8. /\ failing' \in [Profiles!Halves -> {"none", "runs", "over"}]
      /\ \A h \in Profiles!Halves : failing'[h] = after[h].fallback
  BY <1>1, <1>2, <1>4, <1>7
<1>9. Profiles!TypeOK'
  BY <1>1, <1>5, <1>8 DEF Profiles!TypeOK
<1>10. Profiles!FailuresAreCounted'
  BY <1>5, <1>6, <1>8 DEF Profiles!FailuresAreCounted
<1>11. Profiles!BundlesAreWhole'
  BY <1>1, <1>4, <1>5, <1>6 DEF Profiles!BundlesAreWhole, Profiles!Whole
<1>12. Profiles!DiskIsTogether' /\ Profiles!ClearedStaysCleared'
  BY <1>1 DEF Profiles!DiskIsTogether, Profiles!ClearedStaysCleared
<1>13. Profiles!LoadHolds'
  BY <1>1 DEF Profiles!LoadHolds, Profiles!PrintHolds, Profiles!FirstHolds, Profiles!FoundHolds,
         Profiles!CharactersHold, Profiles!ReprintHolds, Profiles!Met, Profiles!Whole,
         Profiles!ReadSince
<1> QED BY <1>9, <1>10, <1>11, <1>12, <1>13

LEMMA ProfileNextKeeps ==
  ASSUME Profiles!ProfileInvariant, Profiles!Next PROVE Profiles!ProfileInvariant'
BY BeginKeeps, FingerprintKeeps, BeginLoadKeeps, ReadCharactersKeeps, ReadLookupKeeps,
   WritePayloadKeeps, PublishKeeps, ReplaceProfileKeeps, ClearKeeps, EndGraceKeeps
DEF Profiles!Next

LEMMA ProfileSame ==
  ASSUME Profiles!ProfileInvariant, UNCHANGED ProfileVars PROVE Profiles!ProfileInvariant'
<1>1. UNCHANGED <<disk, entry, loader, payloads, generation, together, failing, decodedCleared>>
  BY DEF ProfileVars
<1>2. Profiles!TypeOK'
  BY <1>1 DEF Profiles!ProfileInvariant, Profiles!TypeOK
<1>3. Profiles!LoadHolds'
  BY <1>1 DEF Profiles!ProfileInvariant, Profiles!LoadHolds, Profiles!PrintHolds,
         Profiles!FirstHolds, Profiles!FoundHolds, Profiles!CharactersHold,
         Profiles!ReprintHolds, Profiles!Met, Profiles!Whole, Profiles!ReadSince
<1>4. Profiles!DiskIsTogether' /\ Profiles!FailuresAreCounted' /\ Profiles!BundlesAreWhole'
      /\ Profiles!ClearedStaysCleared'
  BY <1>1 DEF Profiles!ProfileInvariant, Profiles!DiskIsTogether, Profiles!FailuresAreCounted,
         Profiles!BundlesAreWhole, Profiles!Whole, Profiles!ClearedStaysCleared
<1> QED BY <1>2, <1>3, <1>4 DEF Profiles!ProfileInvariant

LEMMA ProfilesSafe ==
  ASSUME Profiles!ProfileInvariant
  PROVE  Profiles!BundlesAreWhole /\ Profiles!GraceIsBounded /\ Profiles!ClearedStaysCleared
BY DEF Profiles!ProfileInvariant, Profiles!FailuresAreCounted, Profiles!GraceIsBounded,
       Profiles!Visible, Profiles!GraceOver

-----------------------------------------------------------------------------
(* OverlayWindow. *)

\* What holds of the window and the badge as long as the program runs.
Fit(w) ==
    /\ w \in Window!UI
    /\ w.badge => (w.says <=> ~Window!Hidden(w))
    /\ w.says => ~Window!Hidden(w)
    /\ w.game => w.badge \/ ~Window!Hidden(w)
    /\ Window!Dragging(w) => w.badge
    /\ ~Window!Dragging(w) =>
         w.timer # "off" /\ (w.badge \/ ~Window!Hidden(w) => w.timer = "fast")
\* Up to the timer.
Near(w) ==
    /\ w \in Window!UI
    /\ w.badge => (w.says <=> ~Window!Hidden(w))
    /\ w.says => ~Window!Hidden(w)
    /\ w.game => w.badge \/ ~Window!Hidden(w)
    /\ Window!Dragging(w) => w.badge

LEMMA PollFits ==
  ASSUME NEW w, Near(w) PROVE Fit(Window!Poll(w))
BY DEF Near, Fit, Window!Poll, Window!Hidden, Window!Dragging, Window!UI

LEMMA PollSame ==
  ASSUME NEW w \in Window!UI
  PROVE  /\ Window!Poll(w).open = w.open /\ Window!Poll(w).collapsed = w.collapsed
         /\ Window!Poll(w).badge = w.badge /\ Window!Poll(w).game = w.game
         /\ Window!Poll(w).loss = w.loss
         /\ Window!Hidden(Window!Poll(w)) <=> Window!Hidden(w)
BY DEF Window!Poll, Window!Hidden, Window!UI

LEMMA FitIsNear ==
  ASSUME NEW w, Fit(w) PROVE Near(w)
BY DEF Fit, Near

LEMMA DroppedNear ==
  ASSUME NEW w, Near(w) PROVE Near(Window!Dropped(w))
BY DEF Near, Window!Dropped, Window!Hidden, Window!Dragging, Window!UI

LEMMA ResumedFits ==
  ASSUME NEW w, Near(w) PROVE Fit(Window!Resumed(w))
<1>1. Near([w EXCEPT !.grace = TRUE])
  BY DEF Near, Window!Hidden, Window!Dragging, Window!UI
<1> QED BY <1>1, PollFits DEF Window!Resumed

\* The badge goes while the game is not in front, or the window is in sight.
LEMMA HideBadgeNear ==
  ASSUME NEW w \in Window!UI, w.game => ~Window!Hidden(w), w.says => ~Window!Hidden(w),
         Window!Dragging(w) => w.badge
  PROVE  Near(Window!HideBadge(w))
BY DEF Near, Window!HideBadge, Window!Hidden, Window!Dragging, Window!UI, Window!Resumed,
       Window!Dropped, Window!Poll

LEMMA HideBadgeLeaves ==
  ASSUME NEW w \in Window!UI, Window!Dragging(w) => w.badge
  PROVE  /\ Window!HideBadge(w) \in Window!UI
         /\ ~Window!HideBadge(w).badge /\ ~Window!Dragging(Window!HideBadge(w))
         /\ Window!HideBadge(w).open = w.open /\ Window!HideBadge(w).collapsed = w.collapsed
         /\ Window!HideBadge(w).game = w.game /\ Window!HideBadge(w).says = w.says
BY DEF Window!HideBadge, Window!Dragging, Window!UI, Window!Resumed, Window!Dropped, Window!Poll

LEMMA LeaveBadgeNear ==
  ASSUME NEW w \in Window!UI, ~w.game, Window!Dragging(w) => w.badge
  PROVE  /\ Near(Window!LeaveBadge(w))
         /\ ~Window!LeaveBadge(w).badge /\ ~Window!LeaveBadge(w).game
         /\ ~Window!LeaveBadge(w).says /\ ~Window!Dragging(Window!LeaveBadge(w))
         /\ Window!LeaveBadge(w).open = w.open
         /\ Window!LeaveBadge(w).collapsed = w.collapsed
<1> DEFINE v == [w EXCEPT !.linger = FALSE]
<1>1. v \in Window!UI /\ ~v.game /\ (Window!Dragging(v) => v.badge) /\ v.open = w.open
      /\ v.collapsed = w.collapsed
  BY DEF Window!UI, Window!Dragging
<1> DEFINE u == Window!HideBadge(v)
<1>2. Window!LeaveBadge(w) = [u EXCEPT !.says = FALSE]
  BY DEF Window!LeaveBadge
<1> HIDE DEF v
<1>3. u \in Window!UI /\ ~u.badge /\ ~u.game /\ u.open = w.open /\ u.collapsed = w.collapsed
      /\ ~Window!Dragging(u)
  BY <1>1, HideBadgeLeaves
<1> HIDE DEF u
<1> QED BY <1>2, <1>3 DEF Near, Window!Hidden, Window!Dragging, Window!UI

LEMMA LeaveWindowNear ==
  ASSUME NEW w, Near(w), ~w.badge, ~w.game, ~w.says, NEW here \in BOOLEAN
  PROVE  Near(Window!LeaveWindow(w, here))
BY DEF Near, Window!LeaveWindow, Window!Hidden, Window!Dragging, Window!UI

LEMMA LauncherOnlyFits ==
  ASSUME NEW w, Near(w) PROVE Fit(Window!LauncherOnly(w))
<1> DEFINE v == [w EXCEPT !.collapsed = TRUE, !.open = FALSE, !.says = FALSE]
<1>1. CASE Window!Dragging(v) \/ v.game
  <2>1. Near([v EXCEPT !.badge = TRUE])
    BY <1>1 DEF Near, Window!Hidden, Window!Dragging, Window!UI
  <2> QED BY <1>1, <2>1, PollFits DEF Window!LauncherOnly
<1>2. CASE ~(Window!Dragging(v) \/ v.game)
  <2>1. v \in Window!UI /\ (v.game => ~Window!Hidden(v)) /\ (v.says => ~Window!Hidden(v))
        /\ ~Window!Dragging(v)
    BY <1>2 DEF Near, Window!UI
  <2>2. Near(Window!HideBadge(v))
    BY <2>1, HideBadgeNear
  <2> QED BY <1>2, <2>2, PollFits DEF Window!LauncherOnly
<1> QED BY <1>1, <1>2

\* show, from the launcher or by the foreground.
LEMMA OpenedFits ==
  ASSUME NEW w, Near(w), ~w.collapsed, w.game
  PROVE  Fit(Window!Poll([Window!Ensure(Window!ShowWindow(w)) EXCEPT !.says = TRUE]))
<1>1. Near([Window!Ensure(Window!ShowWindow(w)) EXCEPT !.says = TRUE])
  BY DEF Near, Window!Hidden, Window!Dragging, Window!UI, Window!Ensure, Window!ShowWindow
<1> QED BY <1>1, PollFits

LEMMA ReopenedFits ==
  ASSUME NEW w, Near(w), NEW fromBadge \in BOOLEAN
  PROVE  /\ Fit(Window!Reopened(w, fromBadge))
         /\ Window!Reopened(w, fromBadge).game /\ ~Window!Hidden(Window!Reopened(w, fromBadge))
<1> DEFINE hot == fromBadge /\ Window!Hidden(w) /\ w.badge /\ w.game /\ ~w.linger
           m == w.manual \/ ~w.game
           since == IF hot THEN "runs" ELSE "none"
           v == [w EXCEPT !.game = TRUE, !.manual = m, !.grace = hot, !.loss = since,
                          !.linger = FALSE, !.collapsed = FALSE]
<1>1. w \in Window!UI /\ hot \in BOOLEAN /\ m \in BOOLEAN /\ since \in {"runs", "none"}
  BY DEF Near, Window!UI, Window!Hidden
<1>2. Window!Reopened(w, fromBadge)
        = Window!Poll([Window!Ensure(Window!ShowWindow(v)) EXCEPT !.says = TRUE])
  BY DEF Window!Reopened
<1> HIDE DEF hot, m, since
<1>3. v \in Window!UI /\ ~v.collapsed /\ v.game /\ v.open = w.open /\ v.badge = w.badge
      /\ v.says = w.says /\ v.drag = w.drag
  BY <1>1 DEF Window!UI
<1> HIDE DEF v
<1> DEFINE shownWindow == IF v.open THEN v
                          ELSE [Window!Ensure([v EXCEPT !.open = TRUE, !.collapsed = FALSE])
                                  EXCEPT !.says = TRUE]
<1>4. Window!ShowWindow(v) = shownWindow
  BY DEF Window!ShowWindow
<1>5. shownWindow \in Window!UI /\ shownWindow.open /\ ~shownWindow.collapsed
      /\ shownWindow.game
  <2>1. CASE v.open
    BY <1>3, <2>1
  <2>2. CASE ~v.open
    <3> DEFINE o == [v EXCEPT !.open = TRUE, !.collapsed = FALSE]
    <3>1. o \in Window!UI /\ o.open /\ ~o.collapsed /\ o.game
      BY <1>3 DEF Window!UI
    <3>2. shownWindow = [Window!Ensure(o) EXCEPT !.says = TRUE]
      BY <2>2
    <3> HIDE DEF o, shownWindow
    <3>3. Window!Ensure(o) = [o EXCEPT !.badge = TRUE]
      BY <3>1 DEF Window!Ensure
    <3> QED BY <3>1, <3>2, <3>3 DEF Window!UI
  <2> QED BY <2>1, <2>2
<1> HIDE DEF shownWindow
<1> DEFINE r == [[shownWindow EXCEPT !.badge = TRUE] EXCEPT !.says = TRUE]
<1>6. Window!Ensure(shownWindow) = [shownWindow EXCEPT !.badge = TRUE]
  BY <1>5 DEF Window!Ensure
<1>7. Near(r) /\ r \in Window!UI /\ r.game /\ ~Window!Hidden(r)
  BY <1>5 DEF Near, Window!UI, Window!Hidden, Window!Dragging
<1>8. Window!Reopened(w, fromBadge) = Window!Poll(r)
  BY <1>2, <1>4, <1>6
<1> HIDE DEF r
<1> QED BY <1>7, <1>8, PollFits, PollSame

LEMMA RestoredNear ==
  ASSUME NEW w, Near(w)
  PROVE  /\ Window!Hidden(w) => Near(Window!Restored(w, TRUE))
         /\ Fit(Window!Restored(w, FALSE))
<1>1. Fit(Window!Restored(w, FALSE))
  BY ReopenedFits DEF Window!Restored
<1>2. Near(Window!Reopened(w, TRUE))
  BY ReopenedFits, FitIsNear
<1>3. ASSUME Window!Hidden(w) PROVE Near(Window!Restored(w, TRUE))
  <2> DEFINE v == [w EXCEPT !.game = FALSE, !.collapsed = TRUE]
             p == TRUE /\ ~(Window!Hidden(w) /\ w.badge /\ w.game /\ ~w.linger)
                    /\ Window!StateOf(front) = "other"
  <2>1. v \in Window!UI /\ ~v.game /\ (Window!Dragging(v) => v.badge)
    BY <1>3 DEF Near, Window!UI, Window!Dragging
  <2>2. Window!Restored(w, TRUE) = IF p THEN Window!LeaveBadge(v) ELSE Window!Reopened(w, TRUE)
    BY DEF Window!Restored
  <2> HIDE DEF v, p
  <2>3. Near(Window!LeaveBadge(v))
    BY <2>1, LeaveBadgeNear
  <2> QED BY <1>2, <2>2, <2>3
<1> QED BY <1>1, <1>3

LEMMA ToggledNear ==
  ASSUME NEW w, Near(w) PROVE Near(Window!Toggled(w))
BY RestoredNear, LauncherOnlyFits, FitIsNear DEF Window!Toggled

LEMMA FinishedFits ==
  ASSUME NEW w, Near(w) PROVE Fit(Window!Finished(w))
BY DroppedNear, ToggledNear, ResumedFits DEF Window!Finished

LEMMA MaybeShowFits ==
  ASSUME NEW w, Fit(w) PROVE Fit(Window!MaybeShow(w))
<1>1. Near(w)
  BY FitIsNear
<1>2. CASE w.game
  <2>1. ASSUME Window!Hidden(w) PROVE Near([w EXCEPT !.badge = TRUE])
    BY <1>1, <2>1 DEF Near, Window!Hidden, Window!Dragging, Window!UI
  <2>2. Window!MaybeShow(w) = Window!Poll(IF Window!Hidden(w) /\ ~Window!Dragging(w)
                                          THEN [w EXCEPT !.badge = TRUE] ELSE w)
    BY <1>2 DEF Window!MaybeShow
  <2>3. CASE Window!Hidden(w) /\ ~Window!Dragging(w)
    BY <2>1, <2>2, <2>3, PollFits
  <2>4. CASE ~(Window!Hidden(w) /\ ~Window!Dragging(w))
    BY <1>1, <2>2, <2>4, PollFits
  <2> QED BY <2>3, <2>4
<1>3. CASE ~w.game
  <2>1. Near(Window!LeaveBadge(w)) /\ ~Window!LeaveBadge(w).badge
        /\ ~Window!LeaveBadge(w).game /\ ~Window!LeaveBadge(w).says
    BY <1>1, <1>3, LeaveBadgeNear DEF Near
  <2>2. Window!Active(front) \in BOOLEAN
    BY DEF Window!Active
  <2>3. Fit(Window!Poll(Window!LeaveWindow(Window!LeaveBadge(w), Window!Active(front))))
    BY <2>1, <2>2, LeaveWindowNear, PollFits
  <2> QED BY <1>1, <1>3, <2>3, PollFits DEF Window!MaybeShow
<1> QED BY <1>2, <1>3

\* A look at what is in front.
LEMMA CalmFits ==
  ASSUME Fit(ui), NEW state
  PROVE  /\ Fit(Window!Calm(state))
         /\ \A field \in {"open", "collapsed", "badge", "says", "game", "drag", "timer",
                          "switcher"} : Window!Calm(state)[field] = ui[field]
BY DEF Fit, Window!Calm, Window!Hidden, Window!Dragging, Window!UI

LEMMA GoneFits ==
  ASSUME NEW w \in Window!UI, ~w.game, Window!Dragging(w) => w.badge, NEW here \in BOOLEAN
  PROVE  Fit(Window!Poll(Window!LeaveWindow(Window!LeaveBadge(w), here)))
BY LeaveBadgeNear, LeaveWindowNear, PollFits

LEMMA LookFits ==
  ASSUME Fit(ui), NEW state, NEW seen \in Window!Fronts, NEW works \in BOOLEAN,
         Window!Look(state, seen, works)
  PROVE  Fit(ui')
<1>1. Near(ui) /\ ui \in Window!UI
  BY FitIsNear DEF Near
<1>2. Window!Active(seen) \in BOOLEAN
  BY DEF Window!Active
<1>3. CASE Window!KeepReopened(state, seen)
  <2> DEFINE a == ui.switcher \/ seen = "switcher"
             b == state = "game"
  <2>1. ui' = Window!Poll([ui EXCEPT !.switcher = a, !.game = b]) /\ ~Window!Hidden(ui)
    BY <1>3 DEF Window!KeepReopened, Window!Latched
  <2>2. a \in BOOLEAN /\ b \in BOOLEAN
    BY <1>1 DEF Window!UI
  <2> HIDE DEF a, b
  <2>3. Near([ui EXCEPT !.switcher = a, !.game = b])
    BY <1>1, <2>1, <2>2 DEF Near, Window!UI, Window!Hidden, Window!Dragging
  <2> QED BY <2>1, <2>3, PollFits
<1>4. CASE Window!HideForSwitcher(seen)
  <2> DEFINE v == [ui EXCEPT !.switcher = TRUE, !.loss = "none", !.game = FALSE]
  <2>1. ui' = Window!Poll(Window!LeaveWindow(Window!LeaveBadge(v), Window!Active(seen)))
    BY <1>4 DEF Window!HideForSwitcher
  <2>2. v \in Window!UI /\ (v.says => ~Window!Hidden(v)) /\ ~v.game
        /\ (Window!Dragging(v) => v.badge)
    BY <1>1 DEF Near, Window!UI, Window!Hidden, Window!Dragging
  <2> HIDE DEF v
  <2> QED BY <1>2, <2>1, <2>2, GoneFits
<1>5. CASE Window!KeepUnknown(state, seen)
  BY <1>1, <1>5, PollFits DEF Window!KeepUnknown
<1>6. CASE Window!HoldOpen(state, seen, works)
  <2>1. Near([ui EXCEPT !.loss = "runs"])
    BY <1>1 DEF Near, Window!UI, Window!Hidden, Window!Dragging
  <2> QED BY <1>1, <1>6, <2>1, PollFits DEF Window!HoldOpen
<1> DEFINE w == Window!Calm(state)
<1>7. Fit(w) /\ w \in Window!UI /\ Near(w)
  BY CalmFits, FitIsNear DEF Fit
<1>8. CASE Window!HoldBadge(state, seen, works)
  <2>1. ui' = [w EXCEPT !.linger = TRUE]
    BY <1>8 DEF Window!HoldBadge
  <2> HIDE DEF w
  <2> QED BY <1>7, <2>1 DEF Fit, Window!UI, Window!Hidden, Window!Dragging
<1>9. CASE Window!Leave(state, seen, works)
  <2>1. \/ ui' = Window!Poll(Window!LeaveWindow(Window!LeaveBadge([w EXCEPT !.game = FALSE]),
                                                Window!Active(seen)))
        \/ ~w.game /\ ui' = Window!Poll(Window!LeaveBadge(w))
        \/ ~w.game /\ ~(Window!Hidden(w) /\ w.badge)
             /\ ui' = Window!Poll(Window!LeaveBadge([w EXCEPT !.open = FALSE]))
        \/ ui' = w
    BY <1>9 DEF Window!Leave
  <2> HIDE DEF w
  <2>2. CASE ui' = Window!Poll(Window!LeaveWindow(Window!LeaveBadge([w EXCEPT !.game = FALSE]),
                                                  Window!Active(seen)))
    <3> DEFINE v == [w EXCEPT !.game = FALSE]
    <3>1. v \in Window!UI /\ (v.says => ~Window!Hidden(v)) /\ ~v.game
          /\ (Window!Dragging(v) => v.badge)
      BY <1>7 DEF Near, Window!UI, Window!Hidden, Window!Dragging
    <3> HIDE DEF v
    <3>2. Fit(Window!Poll(Window!LeaveWindow(Window!LeaveBadge(v), Window!Active(seen))))
      BY <1>2, <3>1, GoneFits
    <3> QED BY <2>2, <3>2 DEF v
  <2>3. CASE ~w.game /\ ui' = Window!Poll(Window!LeaveBadge(w))
    <3>1. Near(Window!LeaveBadge(w))
      BY <1>7, <2>3, LeaveBadgeNear DEF Near
    <3> QED BY <2>3, <3>1, PollFits
  <2>4. CASE ~w.game /\ ~(Window!Hidden(w) /\ w.badge)
               /\ ui' = Window!Poll(Window!LeaveBadge([w EXCEPT !.open = FALSE]))
    <3> DEFINE v == [w EXCEPT !.open = FALSE]
    <3>1. v \in Window!UI /\ ~v.game /\ ~v.open /\ v.says = w.says /\ v.badge = w.badge
          /\ v.drag = w.drag /\ v.collapsed = w.collapsed
      BY <1>7, <2>4 DEF Window!UI
    <3> HIDE DEF v
    <3>2. Near(Window!LeaveBadge(v))
      BY <1>7, <3>1, LeaveBadgeNear DEF Near, Window!Dragging
    <3> QED BY <2>4, <3>2, PollFits DEF v
  <2> QED BY <1>7, <2>1, <2>2, <2>3, <2>4
<1>10. CASE Window!Return(state, seen, works)
  <2> DEFINE v == [w EXCEPT !.game = TRUE, !.linger = FALSE]
  <2>1. \/ ui' = w
        \/ Window!Hidden(v) /\ Window!Dragging(v) /\ ui' = Window!Poll(v)
        \/ Window!Hidden(v) /\ ui' = Window!Poll([v EXCEPT !.badge = TRUE])
        \/ /\ ~Window!Hidden(v)
           /\ ui' = Window!Poll([Window!Ensure(Window!ShowWindow(v)) EXCEPT !.says = TRUE])
    BY <1>10 DEF Window!Return
  <2> HIDE DEF w
  <2>2. v \in Window!UI /\ v.game /\ v.open = w.open /\ v.collapsed = w.collapsed
        /\ v.badge = w.badge /\ v.says = w.says /\ v.drag = w.drag
    BY <1>7 DEF Window!UI
  <2> HIDE DEF v
  <2>3. CASE Window!Hidden(v) /\ Window!Dragging(v) /\ ui' = Window!Poll(v)
    <3>1. Near(v)
      BY <1>7, <2>2, <2>3 DEF Near, Window!Hidden, Window!Dragging
    <3> QED BY <2>3, <3>1, PollFits
  <2>4. CASE Window!Hidden(v) /\ ui' = Window!Poll([v EXCEPT !.badge = TRUE])
    <3>1. Near([v EXCEPT !.badge = TRUE])
      BY <1>7, <2>2, <2>4 DEF Near, Window!Hidden, Window!Dragging, Window!UI
    <3> QED BY <2>4, <3>1, PollFits
  <2>5. CASE /\ ~Window!Hidden(v)
             /\ ui' = Window!Poll([Window!Ensure(Window!ShowWindow(v)) EXCEPT !.says = TRUE])
    <3>1. Near(v) /\ ~v.collapsed
      BY <1>7, <2>2, <2>5 DEF Near, Window!Hidden, Window!Dragging
    <3> QED BY <2>2, <2>5, <3>1, OpenedFits
  <2> QED BY <1>7, <2>1, <2>3, <2>4, <2>5
<1>11. CASE Window!AwaitSettled(state, seen, works)
  BY <1>7, <1>11, PollFits DEF Window!AwaitSettled
<1> QED BY <1>3, <1>4, <1>5, <1>6, <1>8, <1>9, <1>10, <1>11 DEF Window!Look

\* What holds of them after the end.
Over(w) ==
    /\ w \in Window!UI /\ ~w.open /\ ~w.badge /\ w.timer = "off" /\ ~Window!Dragging(w)

LEMMA WindowReads ==
  ASSUME Window!WindowInvariant
  PROVE  Window!TypeOK /\ (closed => Over(ui)) /\ (~closed => Fit(ui))
<1>1. ui \in Window!UI /\ closed \in BOOLEAN /\ Window!Agree
      /\ (~closed /\ ui.says => ~Window!Hidden(ui)) /\ Window!TypeOK
  BY DEF Window!WindowInvariant, Window!TypeOK
<1>2. closed => Over(ui)
  BY <1>1 DEF Over, Window!Agree
<1>3. ~closed => Fit(ui)
  BY <1>1 DEF Fit, Window!Agree, Window!InSight
<1> QED BY <1>1, <1>2, <1>3

LEMMA WindowHolds ==
  ASSUME Window!TypeOK', closed' => Over(ui'), ~closed' => Fit(ui')
  PROVE  Window!WindowInvariant'
<1>1. ui' \in Window!UI /\ closed' \in BOOLEAN
  BY DEF Window!TypeOK
<1>2. Window!Agree'
  <2>1. CASE closed'
    BY <1>1, <2>1 DEF Over, Window!Agree, Window!Hidden, Window!Dragging
  <2>2. CASE ~closed'
    BY <1>1, <2>2 DEF Fit, Window!Agree, Window!InSight, Window!Hidden, Window!Dragging
  <2> QED BY <2>1, <2>2
<1>3. (~closed /\ ui.says => ~Window!Hidden(ui))'
  BY DEF Fit, Window!Hidden
<1> QED BY <1>2, <1>3 DEF Window!WindowInvariant

LEMMA WindowInit == Window!Init => Window!WindowInvariant
<1> SUFFICES ASSUME Window!Init PROVE Window!WindowInvariant
  OBVIOUS
<1> DEFINE g == front = "game"
<1>1. g \in BOOLEAN
  OBVIOUS
<1>2. /\ front \in Window!Fronts \ {"overlay"} /\ button = FALSE
      /\ ui = [open |-> FALSE, collapsed |-> TRUE, badge |-> g, says |-> FALSE, game |-> g,
               linger |-> FALSE, timer |-> "fast", drag |-> "none", settling |-> FALSE,
               manual |-> FALSE, loss |-> "none", grace |-> FALSE, switcher |-> FALSE]
      /\ hook = [thread |-> "installing", stop |-> FALSE, waiting |-> TRUE, owned |-> FALSE]
      /\ refresh = FALSE /\ closed = FALSE
  BY DEF Window!Init
<1> HIDE DEF g
<1>3. Fit(ui)
  BY <1>1, <1>2 DEF Fit, Window!UI, Window!Hidden, Window!Dragging
<1>4. Window!TypeOK
  BY <1>2, <1>3 DEF Window!TypeOK, Window!Threads, Fit
<1> QED BY <1>2, <1>3, <1>4 DEF Window!WindowInvariant, Window!Agree, Window!InSight, Fit

\* A step that keeps the window open for more.
LEMMA WindowGoesOn ==
  ASSUME Window!WindowInvariant, ~closed => Fit(ui'), closed => ui' = ui,
         front' \in Window!Fronts, button' \in BOOLEAN, refresh' \in BOOLEAN,
         UNCHANGED <<hook, closed>>
  PROVE  Window!WindowInvariant'
<1>1. Window!TypeOK /\ (closed => Over(ui)) /\ (~closed => Fit(ui))
  BY WindowReads
<1>2. (closed => Over(ui))' /\ (~closed => Fit(ui))'
  BY <1>1
<1>3. ui' \in Window!UI
  BY <1>1 DEF Window!TypeOK, Fit
<1>4. Window!TypeOK'
  BY <1>1, <1>3 DEF Window!TypeOK, Window!UI, Window!Fronts, Window!Threads
<1> QED BY <1>2, <1>4, WindowHolds

LEMMA FrontStays ==
  ASSUME Window!KeepFront, front \in Window!Fronts PROVE front' \in Window!Fronts
BY DEF Window!KeepFront, Window!Fronts

LEMMA SyncKeeps ==
  ASSUME Window!WindowInvariant, Window!Sync, UNCHANGED <<button, hook, refresh, closed>>
  PROVE  Window!WindowInvariant'
<1>1. Window!TypeOK /\ (closed => Over(ui)) /\ (~closed => Fit(ui))
  BY WindowReads
<1>2. CASE closed \/ Window!Dragging(ui)
  BY <1>1, <1>2, WindowGoesOn DEF Window!Sync, Window!TypeOK
<1>3. CASE ~(closed \/ Window!Dragging(ui))
  <2>1. PICK seen \in Window!Fronts, works \in BOOLEAN :
          /\ Window!Look(Window!StateOf(front), seen, works \/ Window!Active(seen))
          /\ front' = seen
    BY <1>3 DEF Window!Sync
  <2> DEFINE busy == works \/ Window!Active(seen)
  <2>2. busy \in BOOLEAN
    BY DEF Window!Active
  <2>3. Window!Look(Window!StateOf(front), seen, busy)
    BY <2>1
  <2> HIDE DEF busy
  <2>4. Fit(ui')
    BY <1>1, <1>3, <2>2, <2>3, LookFits
  <2> QED BY <1>1, <1>3, <2>1, <2>4, WindowGoesOn DEF Window!TypeOK
<1> QED BY <1>2, <1>3

LEMMA ShowsKeeps ==
  ASSUME Window!WindowInvariant, NEW w, Window!Shows(w), ~closed => Fit(w), Window!KeepFront,
         refresh' \in BOOLEAN, UNCHANGED <<button, hook, closed>>
  PROVE  Window!WindowInvariant'
<1>1. Window!TypeOK /\ (closed => Over(ui)) /\ (~closed => Fit(ui))
  BY WindowReads
<1>2. ui' = IF closed THEN ui ELSE w
  BY DEF Window!Shows
<1> QED BY <1>1, <1>2, FrontStays, WindowGoesOn DEF Window!TypeOK

LEMMA StillKeeps ==
  ASSUME Window!WindowInvariant, ui' = ui, front' \in Window!Fronts, button' \in BOOLEAN,
         refresh' \in BOOLEAN, UNCHANGED <<hook, closed>>
  PROVE  Window!WindowInvariant'
BY WindowReads, WindowGoesOn

LEMMA SnapshotsKeep ==
  ASSUME Window!WindowInvariant, Window!ChangeRows \/ Window!LoseRows \/ Window!Flush
  PROVE  Window!WindowInvariant'
<1>1. Window!TypeOK /\ (~closed => Fit(ui))
  BY WindowReads
<1>2. /\ ui' = ui \/ Window!Shows(Window!MaybeShow(ui)) \/ Window!Shows(Window!LauncherOnly(ui))
      /\ Window!KeepFront /\ refresh' \in BOOLEAN /\ UNCHANGED <<button, hook, closed>>
      /\ front' \in Window!Fronts /\ button' \in BOOLEAN
  <2>1. front \in Window!Fronts /\ refresh \in BOOLEAN /\ button \in BOOLEAN
    BY <1>1 DEF Window!TypeOK
  <2> QED BY <2>1, FrontStays DEF Window!ChangeRows, Window!LoseRows, Window!Flush
<1>3. CASE ui' = ui
  BY <1>2, <1>3, StillKeeps
<1>4. CASE Window!Shows(Window!MaybeShow(ui))
  BY <1>1, <1>2, <1>4, MaybeShowFits, ShowsKeeps
<1>5. CASE Window!Shows(Window!LauncherOnly(ui))
  BY <1>1, <1>2, <1>5, FitIsNear, LauncherOnlyFits, ShowsKeeps
<1> QED BY <1>2, <1>3, <1>4, <1>5

LEMMA RestoreKeeps ==
  ASSUME Window!WindowInvariant, Window!RestoreFromTray \/ Window!Collapse
  PROVE  Window!WindowInvariant'
<1>1. Window!TypeOK /\ (~closed => Fit(ui) /\ Near(ui))
  BY WindowReads, FitIsNear
<1>2. /\ ui' = Window!Restored(ui, FALSE) \/ ui' = Window!LauncherOnly(ui)
      /\ front' \in Window!Fronts /\ ~closed /\ UNCHANGED <<button, hook, refresh, closed>>
  <2>1. front \in Window!Fronts /\ "overlay" \in Window!Fronts
    BY <1>1 DEF Window!TypeOK, Window!Fronts
  <2> QED BY <2>1, FrontStays DEF Window!RestoreFromTray, Window!Collapse
<1>3. Fit(ui')
  BY <1>1, <1>2, RestoredNear, LauncherOnlyFits
<1> QED BY <1>1, <1>2, <1>3, WindowGoesOn DEF Window!TypeOK

LEMMA DragKeeps ==
  ASSUME Window!WindowInvariant,
         Window!Press \/ Window!Release \/ Window!DragOn \/ Window!FindReleased
  PROVE  Window!WindowInvariant'
<1>1. Window!TypeOK /\ (closed => Over(ui)) /\ (~closed => Fit(ui) /\ Near(ui))
      /\ ui \in Window!UI /\ front \in Window!Fronts
  BY WindowReads, FitIsNear DEF Window!TypeOK
<1>2. /\ front' \in Window!Fronts /\ button' \in BOOLEAN
      /\ UNCHANGED <<hook, refresh, closed>> /\ refresh' \in BOOLEAN
    BY <1>1, FrontStays DEF Window!Press, Window!Release, Window!DragOn, Window!FindReleased,
           Window!TypeOK
<1>3. \/ ui' = ui
      \/ /\ Window!Dragging(ui) \/ ui.badge
         /\ \/ ui' = [ui EXCEPT !.drag = "pressed", !.settling = FALSE, !.timer = "off"]
               /\ ui.badge
            \/ ui' = [ui EXCEPT !.settling = FALSE]
            \/ ui' = [ui EXCEPT !.settling = FALSE, !.drag = "moved"]
            \/ ui' = [ui EXCEPT !.settling = TRUE]
            \/ ui' = [ui EXCEPT !.drag = "moved", !.settling = TRUE]
            \/ ui' = Window!Finished(ui)
         /\ ui' = Window!Finished(ui) \/ ui.badge \/ Window!Dragging(ui)
  BY DEF Window!Press, Window!Release, Window!DragOn, Window!FindReleased
<1>4. CASE ui' = ui
  BY <1>2, <1>4, StillKeeps
<1>5. CASE ui' # ui
  <2>1. ~closed /\ ui.badge
    BY <1>1, <1>3, <1>5 DEF Over, Near
  <2>2. CASE ui' = Window!Finished(ui)
    <3>1. Fit(ui')
      BY <1>1, <2>1, <2>2, FinishedFits
    <3> QED BY <1>2, <2>1, <3>1, WindowGoesOn
  <2>3. CASE ui' # Window!Finished(ui)
    <3>1. \/ ui' = [ui EXCEPT !.drag = "pressed", !.settling = FALSE, !.timer = "off"]
          \/ /\ Window!Dragging(ui)
             /\ \/ ui' = [ui EXCEPT !.settling = FALSE]
                \/ ui' = [ui EXCEPT !.settling = FALSE, !.drag = "moved"]
                \/ ui' = [ui EXCEPT !.settling = TRUE]
                \/ ui' = [ui EXCEPT !.drag = "moved", !.settling = TRUE]
      BY <1>5, <2>3 DEF Window!Press, Window!Release, Window!DragOn, Window!FindReleased
    <3>2. Fit(ui)
      BY <1>1, <2>1
    <3>3. /\ ui' \in Window!UI
          /\ ui'.open = ui.open /\ ui'.collapsed = ui.collapsed /\ ui'.badge = ui.badge
          /\ ui'.says = ui.says /\ ui'.game = ui.game /\ ui'.drag # "none"
      <4>1. ui.drag # "none" \/ ui'.drag = "pressed"
        BY <1>1, <3>1 DEF Window!Dragging, Window!UI
      <4> QED BY <1>1, <3>1, <4>1 DEF Window!UI
    <3>4. Fit(ui')
      BY <2>1, <3>2, <3>3 DEF Fit, Window!Hidden, Window!Dragging
    <3> QED BY <1>2, <2>1, <3>4, WindowGoesOn
  <2> QED BY <2>2, <2>3
<1> QED BY <1>4, <1>5

LEMMA PassTimeKeeps ==
  ASSUME Window!WindowInvariant, NEW deadline, Window!PassTime(deadline)
  PROVE  Window!WindowInvariant'
<1>1. Window!TypeOK /\ (closed => Over(ui)) /\ (~closed => Fit(ui)) /\ ui \in Window!UI
  BY WindowReads DEF Window!TypeOK
<1>2. /\ \/ ui' = [ui EXCEPT !.manual = FALSE]
         \/ ui' = [ui EXCEPT !.loss = "over"]
         \/ ui' = [ui EXCEPT !.grace = FALSE]
         \/ ui' = [ui EXCEPT !.switcher = FALSE]
      /\ UNCHANGED <<front, button, hook, refresh, closed>>
  BY DEF Window!PassTime
<1>3. /\ ui' \in Window!UI
      /\ ui'.open = ui.open /\ ui'.collapsed = ui.collapsed /\ ui'.badge = ui.badge
      /\ ui'.says = ui.says /\ ui'.game = ui.game /\ ui'.timer = ui.timer
      /\ ui'.drag = ui.drag
  BY <1>1, <1>2 DEF Window!UI
<1>4. (closed => Over(ui)) /\ (~closed => Fit(ui)) => (closed => Over(ui')) /\ (~closed => Fit(ui'))
  BY <1>3 DEF Over, Fit, Window!Hidden, Window!Dragging
<1>5. Window!TypeOK'
  BY <1>1, <1>2, <1>3 DEF Window!TypeOK, Window!UI, Window!Fronts, Window!Threads
<1>6. (closed => Over(ui))' /\ (~closed => Fit(ui))'
  BY <1>1, <1>2, <1>4
<1> QED BY <1>5, <1>6, WindowHolds

LEMMA HookKeeps ==
  ASSUME Window!WindowInvariant,
         \/ Window!Install \/ Window!EnterLoop \/ Window!StartReturns \/ Window!EndLoop
  PROVE  Window!WindowInvariant'
<1>1. Window!TypeOK
  BY WindowReads
<1>2. UNCHANGED <<front, button, ui, refresh, closed>>
  BY DEF Window!Install, Window!EnterLoop, Window!StartReturns, Window!EndLoop, Window!HookOnly
<1>3. hook' \in [thread : Window!Threads, stop : BOOLEAN, waiting : BOOLEAN, owned : BOOLEAN]
  <2>1. hook \in [thread : Window!Threads, stop : BOOLEAN, waiting : BOOLEAN, owned : BOOLEAN]
    BY <1>1 DEF Window!TypeOK
  <2>2. CASE Window!Install \/ Window!EnterLoop \/ Window!EndLoop
    <3>1. \E t \in Window!Threads : hook' = [hook EXCEPT !.thread = t]
      BY <2>2 DEF Window!Install, Window!EnterLoop, Window!EndLoop, Window!Threads,
             Window!Entered
    <3> QED BY <2>1, <3>1
  <2>3. CASE Window!StartReturns
    <3> DEFINE o == hook.thread # "failed"
    <3>1. o \in BOOLEAN
      OBVIOUS
    <3>2. \/ hook' = [hook EXCEPT !.waiting = FALSE, !.stop = TRUE]
          \/ hook' = [hook EXCEPT !.waiting = FALSE, !.owned = o]
      BY <2>3 DEF Window!StartReturns
    <3> HIDE DEF o
    <3> QED BY <2>1, <3>1, <3>2
  <2> QED BY <2>2, <2>3
<1>4. Window!TypeOK'
  BY <1>1, <1>2, <1>3 DEF Window!TypeOK
<1> QED BY <1>2, <1>4 DEF Window!WindowInvariant, Window!Agree, Window!InSight, Window!Hidden,
                        Window!Dragging

LEMMA ShutdownKeeps ==
  ASSUME Window!WindowInvariant, Window!Shutdown PROVE Window!WindowInvariant'
<1>1. Window!TypeOK
  BY WindowReads
<1> DEFINE s == hook.stop \/ hook.owned
<1>2. /\ closed' = TRUE
      /\ ui' = [Window!Dropped(ui) EXCEPT !.timer = "off", !.open = FALSE, !.badge = FALSE]
      /\ hook' = [hook EXCEPT !.stop = s, !.owned = FALSE]
      /\ Window!KeepFront /\ UNCHANGED <<button, refresh>>
  BY DEF Window!Shutdown
<1>3. s \in BOOLEAN
  BY <1>1 DEF Window!TypeOK
<1> HIDE DEF s
<1>4. Over(ui')
  <2> DEFINE u == [ui EXCEPT !.drag = "none", !.settling = FALSE]
  <2>1. ui \in Window!UI
    BY <1>1 DEF Window!TypeOK
  <2>2. u \in Window!UI /\ u.drag = "none"
    BY <2>1 DEF Window!UI
  <2>3. ui' = [u EXCEPT !.timer = "off", !.open = FALSE, !.badge = FALSE]
    BY <1>2 DEF Window!Dropped
  <2> HIDE DEF u
  <2> QED BY <2>2, <2>3 DEF Over, Window!UI, Window!Dragging
<1>5. front' \in Window!Fronts
  BY <1>1, <1>2, FrontStays DEF Window!TypeOK
<1>6. ui' \in Window!UI
  BY <1>4 DEF Over
<1> DEFINE Hooks == [thread : Window!Threads, stop : BOOLEAN, waiting : BOOLEAN, owned : BOOLEAN]
<1>7. hook' \in Hooks
  BY <1>1, <1>2, <1>3 DEF Window!TypeOK
<1>8. Window!TypeOK'
  <2>1. UNCHANGED <<button, refresh>> /\ closed' = TRUE
    BY <1>2
  <2> QED BY <1>1, <1>5, <1>6, <1>7, <2>1 DEF Window!TypeOK, Window!UI, Window!Fronts,
                                           Window!Threads
<1> QED BY <1>2, <1>4, <1>8, WindowHolds

LEMMA WindowNextKeeps ==
  ASSUME Window!WindowInvariant, Window!Next PROVE Window!WindowInvariant'
<1>1. CASE Window!TimerTick \/ Window!HookTick
  BY <1>1, SyncKeeps DEF Window!TimerTick, Window!HookTick
<1>2. CASE Window!MoveFront
  <2>1. Window!TypeOK
    BY WindowReads
  <2> QED BY <1>2, <2>1, StillKeeps DEF Window!MoveFront, Window!TypeOK
<1> QED BY <1>1, <1>2, RestoreKeeps, DragKeeps, SnapshotsKeep, PassTimeKeeps, HookKeeps,
           ShutdownKeeps DEF Window!Next, Window!HookRuns, Window!Quit

LEMMA WindowSame ==
  ASSUME Window!WindowInvariant, UNCHANGED WindowVars PROVE Window!WindowInvariant'
BY DEF WindowVars, Window!WindowInvariant, Window!TypeOK, Window!Agree, Window!InSight,
       Window!Hidden, Window!Dragging

\* Whether the surfaces follow, in parts: the first three are about what a step brings or
\* takes, the last two about what a look leaves.
Brings ==
    /\ ~ui.badge /\ ui'.badge => ui'.game
    /\ ~ui.game /\ ui'.game =>
         Window!UserOpens \/ (front = "game" /\ (~ui.switcher \/ Window!Latched))
    /\ Window!Undecided /\ ~Window!Hidden(ui) /\ Window!Hidden(ui)' => Window!UserCloses
Leaves ==
    /\ Window!OtherInFront /\ ~Window!Latched /\ ~ui.grace
         /\ (Window!Hidden(ui) \/ ui.loss = "over")
         => ~Window!InSight' \/ ui'.loss = "runs"
    /\ Window!GameInFront /\ ~ui.switcher => Window!InSight'

LEMMA FollowsInParts ==
  ASSUME Brings, Window!Looks => Leaves PROVE Window!Follows
BY DEF Brings, Leaves, Window!Follows

\* What hides the window, and what rows do to it.
LEMMA LauncherOnlyHides ==
  ASSUME NEW w, Near(w)
  PROVE  /\ Window!Hidden(Window!LauncherOnly(w)) /\ Window!LauncherOnly(w).game = w.game
         /\ Window!LauncherOnly(w).badge => w.badge \/ w.game
<1> DEFINE v == [w EXCEPT !.collapsed = TRUE, !.open = FALSE, !.says = FALSE]
<1>1. v \in Window!UI /\ v.collapsed /\ v.game = w.game /\ v.badge = w.badge /\ v.drag = w.drag
  BY DEF Near, Window!UI
<1>2. Window!Dragging(v) => v.badge
  BY <1>1 DEF Near, Window!Dragging
<1>3. CASE Window!Dragging(v) \/ v.game
  <2> DEFINE u == [v EXCEPT !.badge = TRUE]
  <2>1. Window!LauncherOnly(w) = Window!Poll(u)
    BY <1>3 DEF Window!LauncherOnly
  <2> HIDE DEF v
  <2>2. u \in Window!UI /\ u.collapsed /\ u.game = v.game /\ u.badge
    BY <1>1 DEF Window!UI
  <2>3. w.badge \/ w.game
    BY <1>1, <1>2, <1>3
  <2> HIDE DEF u
  <2> QED BY <1>1, <2>1, <2>2, <2>3, PollSame DEF Window!Hidden
<1>4. CASE ~(Window!Dragging(v) \/ v.game)
  <2>1. Window!LauncherOnly(w) = Window!Poll(Window!HideBadge(v))
    BY <1>4 DEF Window!LauncherOnly
  <2> HIDE DEF v
  <2> QED BY <1>1, <1>2, <2>1, HideBadgeLeaves, PollSame DEF Window!Hidden
<1> QED BY <1>3, <1>4

LEMMA LeaveWindowHides ==
  ASSUME NEW w \in Window!UI, NEW here \in BOOLEAN
  PROVE  /\ Window!LeaveWindow(w, here) \in Window!UI
         /\ Window!Hidden(w) \/ ~here => Window!Hidden(Window!LeaveWindow(w, here))
         /\ Window!LeaveWindow(w, here).badge = w.badge
         /\ Window!LeaveWindow(w, here).game = w.game
<1> DEFINE o == [w EXCEPT !.open = FALSE]
<1>1. o \in Window!UI /\ ~o.open /\ o.badge = w.badge /\ o.game = w.game
  BY DEF Window!UI
<1>2. Window!LeaveWindow(w, here) = IF here THEN w ELSE o
  BY DEF Window!LeaveWindow
<1> HIDE DEF o
<1> QED BY <1>1, <1>2 DEF Window!Hidden

LEMMA GoneLeaves ==
  ASSUME NEW w \in Window!UI, ~w.game, Window!Dragging(w) => w.badge, NEW here \in BOOLEAN,
         NEW u, u = Window!Poll(Window!LeaveWindow(Window!LeaveBadge(w), here))
  PROVE  ~u.badge /\ ~u.game /\ (Window!Hidden(w) \/ ~here => Window!Hidden(u))
<1> DEFINE v == Window!LeaveBadge(w)
<1>1. v \in Window!UI /\ ~v.badge /\ ~v.game /\ v.open = w.open /\ v.collapsed = w.collapsed
  BY LeaveBadgeNear DEF Near
<1>2. Window!Hidden(v) <=> Window!Hidden(w)
  BY <1>1 DEF Window!Hidden
<1> HIDE DEF v
<1> DEFINE o == Window!LeaveWindow(v, here)
<1>3. o \in Window!UI /\ ~o.badge /\ ~o.game /\ (Window!Hidden(w) \/ ~here => Window!Hidden(o))
  BY <1>1, <1>2, LeaveWindowHides
<1>4. u = Window!Poll(o)
  BY DEF v
<1> HIDE DEF o
<1> QED BY <1>3, <1>4, PollSame

LEMMA MaybeShowBrings ==
  ASSUME NEW w, Fit(w), NEW u, u = Window!MaybeShow(w)
  PROVE  /\ Window!Hidden(w) => Window!Hidden(u)
         /\ u.game <=> w.game
         /\ ~w.badge /\ u.badge => u.game
         /\ front = "unknown" /\ ~Window!Hidden(w) => ~Window!Hidden(u)
<1>1. Near(w) /\ w \in Window!UI /\ Window!Active(front) \in BOOLEAN
  BY FitIsNear DEF Near, Window!Active
<1>2. CASE w.game
  <2> DEFINE b == [w EXCEPT !.badge = TRUE]
  <2>1. u = Window!Poll(w) \/ u = Window!Poll(b)
    BY <1>2 DEF Window!MaybeShow
  <2>2. b \in Window!UI /\ b.open = w.open /\ b.collapsed = w.collapsed /\ b.game = w.game
    BY <1>1 DEF Window!UI
  <2> HIDE DEF b
  <2>3. Window!Hidden(b) <=> Window!Hidden(w)
    BY <2>2 DEF Window!Hidden
  <2>4. (Window!Hidden(u) <=> Window!Hidden(w)) /\ u.game = w.game
    BY <1>1, <2>1, <2>2, <2>3, PollSame
  <2> QED BY <1>2, <2>4
<1>3. CASE ~w.game
  <2>1. \/ u = Window!Poll(w)
        \/ u = w
        \/ /\ ~(~Window!Hidden(w) /\ Window!StateOf(front) = "unknown")
           /\ u = Window!Poll(Window!LeaveWindow(Window!LeaveBadge(w), Window!Active(front)))
    BY <1>3 DEF Window!MaybeShow
  <2>2. CASE u = Window!Poll(w) \/ u = w
    BY <1>1, <1>3, <2>2, PollSame
  <2>3. CASE /\ ~(~Window!Hidden(w) /\ Window!StateOf(front) = "unknown")
             /\ u = Window!Poll(Window!LeaveWindow(Window!LeaveBadge(w), Window!Active(front)))
    <3> DEFINE here == Window!Active(front)
    <3>0. Window!Dragging(w) => w.badge
      BY <1>1 DEF Near
    <3>2. here \in BOOLEAN /\ u = Window!Poll(Window!LeaveWindow(Window!LeaveBadge(w), here))
      BY <1>1, <2>3
    <3> HIDE DEF here
    <3>1. ~u.badge /\ ~u.game /\ (Window!Hidden(w) => Window!Hidden(u))
      BY <1>1, <1>3, <3>0, <3>2, GoneLeaves
    <3> QED BY <1>3, <2>3, <3>1 DEF Window!StateOf
  <2> QED BY <2>1, <2>2, <2>3
<1> QED BY <1>2, <1>3

\* What a look brings and leaves.
LEMMA LookFollows ==
  ASSUME Fit(ui), ~Window!Dragging(ui), NEW seen \in Window!Fronts, front' = seen,
         NEW works \in BOOLEAN, Window!Look(Window!StateOf(front), seen, works)
  PROVE  Brings /\ Leaves
<1> DEFINE state == Window!StateOf(front)
           w == Window!Calm(state)
           here == Window!Active(seen)
<1>1. /\ Near(ui) /\ ui \in Window!UI /\ here \in BOOLEAN
      /\ state = "game" <=> front = "game"
      /\ Window!Undecided => state = "unknown" /\ seen = "unknown"
      /\ Window!OtherInFront => state = "other" /\ seen = "other" /\ ~here
      /\ Window!GameInFront => state = "game" /\ seen = "game"
  BY FitIsNear DEF Near, Window!Active, Window!StateOf, Window!Undecided,
         Window!OtherInFront, Window!GameInFront
<1>2. /\ Fit(w) /\ w \in Window!UI /\ w.open = ui.open /\ w.collapsed = ui.collapsed
      /\ w.badge = ui.badge /\ w.game = ui.game /\ w.drag = ui.drag
  BY CalmFits DEF Fit
<1>3. Window!Hidden(w) <=> Window!Hidden(ui)
  BY <1>2 DEF Window!Hidden
<1>4. Window!Dragging(ui) => ui.badge
  BY <1>1 DEF Near
<1> HIDE DEF here
<1>6. CASE Window!KeepReopened(state, seen)
  <2> DEFINE a == ui.switcher \/ seen = "switcher"
             b == state = "game"
             u == [ui EXCEPT !.switcher = a, !.game = b]
  <2>1. ui' = Window!Poll(u) /\ ~Window!Hidden(ui) /\ Window!Latched
    BY <1>6 DEF Window!KeepReopened, Window!Latched
  <2>2. a \in BOOLEAN /\ b \in BOOLEAN /\ (b => front = "game")
    BY <1>1 DEF Window!UI
  <2> HIDE DEF a, b
  <2>3. u \in Window!UI /\ u.open = ui.open /\ u.collapsed = ui.collapsed
        /\ u.badge = ui.badge /\ u.game = b
    BY <1>1, <2>2 DEF Window!UI
  <2> HIDE DEF u
  <2>4. ui'.badge = ui.badge /\ ui'.game = b /\ ~Window!Hidden(ui')
    BY <2>1, <2>3, PollSame DEF Window!Hidden
  <2>5. ~Window!Hidden(ui)'
    BY <2>4 DEF Window!Hidden
  <2> QED BY <2>1, <2>2, <2>4, <2>5 DEF Brings, Leaves, Window!InSight
<1>7. CASE Window!HideForSwitcher(seen)
  <2> DEFINE u == [ui EXCEPT !.switcher = TRUE, !.loss = "none", !.game = FALSE]
  <2>1. ui' = Window!Poll(Window!LeaveWindow(Window!LeaveBadge(u), here)) /\ seen = "switcher"
    BY <1>7 DEF Window!HideForSwitcher, here
  <2>2. u \in Window!UI /\ ~u.game /\ u.open = ui.open /\ u.collapsed = ui.collapsed
        /\ u.badge = ui.badge /\ u.drag = ui.drag
    BY <1>1 DEF Window!UI
  <2> HIDE DEF u
  <2>3. (Window!Dragging(u) => u.badge) /\ (Window!Hidden(u) <=> Window!Hidden(ui))
    BY <1>4, <2>2 DEF Window!Dragging, Window!Hidden
  <2>4. ~ui'.badge /\ ~ui'.game
    BY <1>1, <2>1, <2>2, <2>3, GoneLeaves
  <2> QED BY <1>1, <2>1, <2>4 DEF Brings, Leaves
<1>8. CASE Window!KeepUnknown(state, seen)
  <2>1. ui' = Window!Poll(ui) /\ state = "unknown"
    BY <1>8 DEF Window!KeepUnknown
  <2>2. ui'.badge = ui.badge /\ ui'.game = ui.game /\ (Window!Hidden(ui') <=> Window!Hidden(ui))
    BY <1>1, <2>1, PollSame
  <2>3. Window!Hidden(ui)' <=> Window!Hidden(ui)
    BY <2>2 DEF Window!Hidden
  <2> QED BY <1>1, <2>1, <2>2, <2>3 DEF Brings, Leaves
<1>9. CASE Window!HoldOpen(state, seen, works)
  <2> DEFINE u == [ui EXCEPT !.loss = "runs"]
  <2>1. /\ ui' = Window!Poll(u) \/ (ui' = Window!Poll(ui) /\ ui.loss = "runs")
        /\ ~Window!Hidden(ui) /\ state # "game" /\ state # "unknown"
    BY <1>9 DEF Window!HoldOpen, Window!Lost, Window!Told
  <2>2. u \in Window!UI /\ u.open = ui.open /\ u.collapsed = ui.collapsed /\ u.loss = "runs"
        /\ u.badge = ui.badge /\ u.game = ui.game
    BY <1>1 DEF Window!UI
  <2> HIDE DEF u
  <2>3. ui'.badge = ui.badge /\ ui'.game = ui.game /\ ~Window!Hidden(ui') /\ ui'.loss = "runs"
    BY <1>1, <2>1, <2>2, PollSame DEF Window!Hidden
  <2>4. ~Window!Hidden(ui)'
    BY <2>3 DEF Window!Hidden
  <2> QED BY <1>1, <2>1, <2>3, <2>4 DEF Brings, Leaves
<1>10. CASE Window!HoldBadge(state, seen, works)
  <2>1. /\ ui' = [w EXCEPT !.linger = TRUE] /\ state # "game" /\ state # "unknown"
        /\ Window!Hidden(ui) /\ ui.grace
    BY <1>10 DEF Window!HoldBadge, Window!HeldBadge, Window!Decided, Window!Told
  <2> HIDE DEF w
  <2>2. ui'.badge = ui.badge /\ ui'.game = ui.game /\ ui'.open = ui.open
        /\ ui'.collapsed = ui.collapsed
    BY <1>2, <2>1 DEF Window!UI
  <2>3. Window!Hidden(ui)' <=> Window!Hidden(ui)
    BY <2>2 DEF Window!Hidden
  <2> QED BY <1>1, <2>1, <2>2, <2>3 DEF Brings, Leaves
<1>11. CASE Window!Leave(state, seen, works)
  <2>0. state # "game" /\ state # "unknown"
    BY <1>11 DEF Window!Leave, Window!Decided, Window!Told
  <2>1. \/ ui' = Window!Poll(Window!LeaveWindow(Window!LeaveBadge([w EXCEPT !.game = FALSE]),
                                                here))
        \/ /\ ~w.game /\ Window!Hidden(w) /\ ui' = Window!Poll(Window!LeaveBadge(w))
        \/ /\ ~w.game
           /\ ui' = Window!Poll(Window!LeaveBadge([w EXCEPT !.open = FALSE]))
        \/ /\ ui' = w /\ ~(Window!Hidden(w) /\ w.badge) /\ (w.open => here)
    BY <1>11 DEF Window!Leave, here
  <2> HIDE DEF w
  <2>2. SUFFICES /\ Window!Hidden(ui) => Window!Hidden(ui')
                 /\ ui'.badge => ui.badge
                 /\ ui'.game => ui.game
                 /\ ~here => ~ui'.badge /\ Window!Hidden(ui')
    <3>1. Window!Hidden(ui)' <=> Window!Hidden(ui')
      BY DEF Window!Hidden
    <3>2. Window!InSight' <=> ui'.badge \/ ~Window!Hidden(ui)'
      BY DEF Window!InSight
    <3> QED BY <1>1, <2>0, <2>2, <3>1, <3>2 DEF Brings, Leaves
  <2>3. CASE ui' = Window!Poll(Window!LeaveWindow(
                       Window!LeaveBadge([w EXCEPT !.game = FALSE]), here))
    <3> DEFINE u == [w EXCEPT !.game = FALSE]
    <3>1. u \in Window!UI /\ ~u.game /\ u.open = w.open /\ u.collapsed = w.collapsed
          /\ u.badge = w.badge /\ u.drag = w.drag
      BY <1>2 DEF Window!UI
    <3>2. ui' = Window!Poll(Window!LeaveWindow(Window!LeaveBadge(u), here))
      BY <2>3
    <3> HIDE DEF u
    <3>3. (Window!Dragging(u) => u.badge) /\ (Window!Hidden(u) <=> Window!Hidden(ui))
      BY <1>2, <1>4, <3>1 DEF Window!Dragging, Window!Hidden
    <3>4. ~ui'.badge /\ ~ui'.game /\ (Window!Hidden(u) \/ ~here => Window!Hidden(ui'))
      BY <1>1, <3>1, <3>2, <3>3, GoneLeaves
    <3> QED BY <3>3, <3>4
  <2>4. CASE ~w.game /\ Window!Hidden(w) /\ ui' = Window!Poll(Window!LeaveBadge(w))
    <3> DEFINE v == Window!LeaveBadge(w)
    <3>1. v \in Window!UI /\ ~v.badge /\ ~v.game /\ v.open = w.open /\ v.collapsed = w.collapsed
      BY <1>2, <1>4, <2>4, LeaveBadgeNear DEF Near, Window!Dragging
    <3>2. ui' = Window!Poll(v)
      BY <2>4
    <3> HIDE DEF v
    <3>3. Window!Hidden(v)
      BY <2>4, <3>1 DEF Window!Hidden
    <3> QED BY <3>1, <3>2, <3>3, PollSame
  <2>5. CASE ~w.game /\ ui' = Window!Poll(Window!LeaveBadge([w EXCEPT !.open = FALSE]))
    <3> DEFINE o == [w EXCEPT !.open = FALSE]
               v == Window!LeaveBadge(o)
    <3>1. o \in Window!UI /\ ~o.game /\ ~o.open /\ o.badge = w.badge /\ o.drag = w.drag
      BY <1>2, <2>5 DEF Window!UI
    <3>2. ui' = Window!Poll(v)
      BY <2>5
    <3> HIDE DEF o
    <3>3. v \in Window!UI /\ ~v.badge /\ ~v.game /\ ~v.open
      BY <1>2, <1>4, <3>1, LeaveBadgeNear DEF Near, Window!Dragging
    <3> HIDE DEF v
    <3>4. Window!Hidden(v)
      BY <3>3 DEF Window!Hidden
    <3> QED BY <3>2, <3>3, <3>4, PollSame
  <2>6. CASE ui' = w /\ ~(Window!Hidden(w) /\ w.badge) /\ (w.open => here)
    <3>1. ui'.badge = ui.badge /\ ui'.game = ui.game /\ (Window!Hidden(ui') <=> Window!Hidden(ui))
      BY <1>2, <1>3, <2>6
    <3>2. ~here => Window!Hidden(w) /\ ~w.badge
      BY <2>6 DEF Window!Hidden
    <3> QED BY <2>6, <3>1, <3>2
  <2> QED BY <2>1, <2>3, <2>4, <2>5, <2>6
<1>12. CASE Window!Return(state, seen, works)
  <2> DEFINE v == [w EXCEPT !.game = TRUE, !.linger = FALSE]
             b == [v EXCEPT !.badge = TRUE]
  <2>1. /\ state = "game" /\ ~ui.switcher
        /\ \/ w.game /\ ui' = w
           \/ Window!Hidden(v) /\ Window!Dragging(v)
           \/ Window!Hidden(v) /\ ui' = Window!Poll(b)
           \/ /\ ~Window!Hidden(v)
              /\ ui' = Window!Poll([Window!Ensure(Window!ShowWindow(v)) EXCEPT !.says = TRUE])
    BY <1>12 DEF Window!Return, Window!Settled
  <2> HIDE DEF w
  <2>2. v \in Window!UI /\ v.game /\ v.open = w.open /\ v.collapsed = w.collapsed
        /\ v.badge = w.badge /\ v.drag = w.drag
    BY <1>2 DEF Window!UI
  <2> HIDE DEF v
  <2>3. ~Window!Dragging(v) /\ (Window!Hidden(v) <=> Window!Hidden(ui))
    BY <1>2, <2>2 DEF Window!Dragging, Window!Hidden
  <2>4. b \in Window!UI /\ b.badge /\ b.game /\ b.open = v.open /\ b.collapsed = v.collapsed
    BY <2>2 DEF Window!UI
  <2> HIDE DEF b
  <2>5. front = "game" /\ ~Window!Undecided /\ ~Window!OtherInFront
    BY <1>1, <2>1 DEF Window!Undecided, Window!OtherInFront
  <2>6. SUFFICES /\ Window!Hidden(ui) => Window!Hidden(ui')
                 /\ ui'.badge => ui'.game \/ ui.badge
                 /\ ui'.badge \/ ~Window!Hidden(ui')
    <3>1. Window!Hidden(ui)' <=> Window!Hidden(ui')
      BY DEF Window!Hidden
    <3>2. Window!InSight' <=> ui'.badge \/ ~Window!Hidden(ui)'
      BY DEF Window!InSight
    <3> QED BY <2>1, <2>5, <2>6, <3>1, <3>2 DEF Brings, Leaves
  <2>7. CASE w.game /\ ui' = w
    BY <1>2, <1>3, <2>7 DEF Fit
  <2>8. CASE Window!Hidden(v) /\ ui' = Window!Poll(b)
    <3>1. Window!Hidden(b)
      BY <2>4, <2>8 DEF Window!Hidden
    <3> QED BY <2>4, <2>8, <3>1, PollSame
  <2>9. CASE /\ ~Window!Hidden(v)
             /\ ui' = Window!Poll([Window!Ensure(Window!ShowWindow(v)) EXCEPT !.says = TRUE])
    <3>1. Window!ShowWindow(v) = v
      BY <2>9 DEF Window!ShowWindow, Window!Hidden
    <3>2. Window!Ensure(v) = b
      BY <2>2 DEF Window!Ensure, b
    <3> DEFINE r == [b EXCEPT !.says = TRUE]
    <3>3. r \in Window!UI /\ r.badge /\ r.game /\ r.open = b.open /\ r.collapsed = b.collapsed
      BY <2>4 DEF Window!UI
    <3>4. ui' = Window!Poll(r)
      BY <2>9, <3>1, <3>2
    <3> HIDE DEF r
    <3>5. ~Window!Hidden(r)
      BY <2>4, <2>9, <3>3 DEF Window!Hidden
    <3> QED BY <2>3, <2>9, <3>3, <3>4, <3>5, PollSame
  <2> QED BY <2>1, <2>3, <2>7, <2>8, <2>9
<1>13. CASE Window!AwaitSettled(state, seen, works)
  <2>1. (ui' = w \/ ui' = Window!Poll(w)) /\ state = "game" /\ ui.switcher
    BY <1>13 DEF Window!AwaitSettled
  <2> HIDE DEF w
  <2>2. ui'.badge = ui.badge /\ ui'.game = ui.game /\ (Window!Hidden(ui') <=> Window!Hidden(ui))
    BY <1>2, <1>3, <2>1, PollSame
  <2>3. Window!Hidden(ui)' <=> Window!Hidden(ui)
    BY <2>2 DEF Window!Hidden
  <2> QED BY <1>1, <2>1, <2>2, <2>3 DEF Brings, Leaves
<1> QED BY <1>6, <1>7, <1>8, <1>9, <1>10, <1>11, <1>12, <1>13 DEF Window!Look

LEMMA SyncFollows ==
  ASSUME Window!WindowInvariant, Window!Sync
  PROVE  /\ Brings
         /\ ~closed /\ ~Window!Dragging(ui) => Leaves
<1>1. ~closed => Fit(ui)
  BY WindowReads
<1>2. CASE closed \/ Window!Dragging(ui)
  <2>1. ui' = ui
    BY <1>2 DEF Window!Sync
  <2> QED BY <1>2, <2>1 DEF Brings, Window!Hidden
<1>3. CASE ~(closed \/ Window!Dragging(ui))
  <2>1. PICK seen \in Window!Fronts, works \in BOOLEAN :
          /\ Window!Look(Window!StateOf(front), seen, works \/ Window!Active(seen))
          /\ front' = seen
    BY <1>3 DEF Window!Sync
  <2> DEFINE busy == works \/ Window!Active(seen)
  <2>2. busy \in BOOLEAN
    BY DEF Window!Active
  <2>3. Window!Look(Window!StateOf(front), seen, busy)
    BY <2>1
  <2> HIDE DEF busy
  <2> QED BY <1>1, <1>3, <2>1, <2>2, <2>3, LookFollows
<1> QED BY <1>2, <1>3

LEMMA LooksFollow ==
  ASSUME Window!WindowInvariant, Window!Looks PROVE Leaves
BY SyncFollows DEF Window!Looks, Window!TimerTick, Window!HookTick

LEMMA ShowsBrings ==
  ASSUME Window!WindowInvariant,
         ui' = ui \/ Window!Shows(Window!MaybeShow(ui)) \/ Window!LoseRows \/ Window!Collapse
  PROVE  Brings
<1>1. (~closed => Fit(ui) /\ Near(ui)) /\ (Window!Hidden(ui)' <=> Window!Hidden(ui'))
  BY WindowReads, FitIsNear DEF Window!Hidden
<1>2. CASE ui' = ui
  BY <1>2 DEF Brings, Window!Hidden
<1>3. CASE ui' # ui /\ Window!Shows(Window!MaybeShow(ui))
  <2>1. ~closed /\ ui' = Window!MaybeShow(ui)
    BY <1>3 DEF Window!Shows
  <2>2. /\ Window!Hidden(ui) => Window!Hidden(ui')
        /\ ui'.game <=> ui.game
        /\ ~ui.badge /\ ui'.badge => ui'.game
        /\ front = "unknown" /\ ~Window!Hidden(ui) => ~Window!Hidden(ui')
    BY <1>1, <2>1, MaybeShowBrings
  <2> QED BY <1>1, <2>2 DEF Brings, Window!Undecided
<1>4. CASE ui' # ui /\ (Window!LoseRows \/ Window!Collapse)
  <2>1. ~closed /\ ui' = Window!LauncherOnly(ui)
    BY <1>4 DEF Window!LoseRows, Window!Collapse, Window!Shows
  <2>2. Window!Hidden(ui') /\ ui'.game = ui.game /\ (ui'.badge => ui.badge \/ ui.game)
    BY <1>1, <2>1, LauncherOnlyHides
  <2> QED BY <1>1, <1>4, <2>2 DEF Brings, Window!UserCloses
<1> QED BY <1>2, <1>3, <1>4

LEMMA UserBrings ==
  ASSUME Window!WindowInvariant, Window!RestoreFromTray \/ Window!Release \/ Window!FindReleased
  PROVE  Brings
<1>1. (~closed => Fit(ui) /\ Near(ui)) /\ (closed => Over(ui))
      /\ (Window!Hidden(ui)' <=> Window!Hidden(ui'))
  BY WindowReads, FitIsNear DEF Window!Hidden
<1>2. Window!UserOpens
  BY DEF Window!UserOpens
<1>3. CASE Window!RestoreFromTray
  <2>1. ~closed /\ ui' = Window!Reopened(ui, FALSE)
    BY <1>3 DEF Window!RestoreFromTray, Window!Restored
  <2>2. ui'.game /\ ~Window!Hidden(ui')
    BY <1>1, <2>1, ReopenedFits
  <2> QED BY <1>1, <1>2, <2>2 DEF Brings
<1>4. CASE Window!Release \/ Window!FindReleased
  <2>1. Window!UserCloses
    BY <1>4 DEF Window!UserCloses
  <2>2. ui' = ui \/ Window!Dragging(ui)
    BY <1>4 DEF Window!Release, Window!FindReleased
  <2>3. ui.badge \/ ui' = ui
    BY <1>1, <2>2 DEF Near, Over, Window!TypeOK
  <2> QED BY <1>2, <2>1, <2>3 DEF Brings
<1> QED BY <1>3, <1>4

\* Steps that move neither surface.
LEMMA StillBrings ==
  ASSUME ui'.open = ui.open, ui'.collapsed = ui.collapsed, ui'.badge = ui.badge,
         ui'.game = ui.game
  PROVE  Brings
BY DEF Brings, Window!Hidden

LEMMA WindowNextBrings ==
  ASSUME Window!WindowInvariant, Window!Next PROVE Brings
<1>1. Window!TypeOK /\ ui \in Window!UI
  BY WindowReads DEF Window!TypeOK
<1>2. CASE Window!TimerTick \/ Window!HookTick
  BY <1>2, SyncFollows DEF Window!TimerTick, Window!HookTick
<1>3. CASE Window!ChangeRows \/ Window!Flush \/ Window!LoseRows \/ Window!Collapse
  BY <1>3, ShowsBrings DEF Window!ChangeRows, Window!Flush
<1>4. CASE Window!Press \/ Window!DragOn
  <2>1. \/ ui' = [ui EXCEPT !.drag = "pressed", !.settling = FALSE, !.timer = "off"]
        \/ ui' = [ui EXCEPT !.settling = FALSE]
        \/ ui' = [ui EXCEPT !.settling = FALSE, !.drag = "moved"]
    BY <1>4 DEF Window!Press, Window!DragOn
  <2>2. /\ ui'.open = ui.open /\ ui'.collapsed = ui.collapsed
        /\ ui'.badge = ui.badge /\ ui'.game = ui.game
    BY <1>1, <2>1 DEF Window!UI
  <2> QED BY <2>2, StillBrings
<1>5. ASSUME NEW deadline, Window!PassTime(deadline) PROVE Brings
  <2>1. \/ ui' = [ui EXCEPT !.manual = FALSE]
        \/ ui' = [ui EXCEPT !.loss = "over"]
        \/ ui' = [ui EXCEPT !.grace = FALSE]
        \/ ui' = [ui EXCEPT !.switcher = FALSE]
    BY <1>5 DEF Window!PassTime
  <2>2. /\ ui'.open = ui.open /\ ui'.collapsed = ui.collapsed
        /\ ui'.badge = ui.badge /\ ui'.game = ui.game
    BY <1>1, <2>1 DEF Window!UI
  <2> QED BY <2>2, StillBrings
<1>6. CASE Window!MoveFront \/ Window!HookRuns \/ Window!StartReturns \/ Window!EndLoop
  <2>1. ui' = ui
    BY <1>6 DEF Window!MoveFront, Window!HookRuns, Window!StartReturns, Window!EndLoop,
           Window!Install, Window!EnterLoop, Window!Quit, Window!HookOnly
  <2> QED BY <2>1, ShowsBrings
<1>7. CASE Window!Shutdown
  <2> DEFINE u == [ui EXCEPT !.drag = "none", !.settling = FALSE]
  <2>1. ui' = [u EXCEPT !.timer = "off", !.open = FALSE, !.badge = FALSE]
    BY <1>7 DEF Window!Shutdown, Window!Dropped
  <2>2. u \in Window!UI /\ u.game = ui.game
    BY <1>1 DEF Window!UI
  <2> HIDE DEF u
  <2>3. ~ui'.open /\ ~ui'.badge /\ ui'.game = ui.game
    BY <2>1, <2>2 DEF Window!UI
  <2>4. Window!Hidden(ui)' /\ Window!UserCloses
    BY <1>7, <2>3 DEF Window!Hidden, Window!UserCloses
  <2> QED BY <2>3, <2>4 DEF Brings
<1> QED BY <1>2, <1>3, <1>4, <1>5, <1>6, <1>7, UserBrings DEF Window!Next

-----------------------------------------------------------------------------
(* The sum. *)

LEMMA StepOfShownPart ==
  ASSUME [Next]_vars
  PROVE  /\ part' = part
         /\ part = "preload" => [Preloading!Next]_PreloadVars
         /\ part = "profiles" => [Profiles!Next]_ProfileVars
         /\ part = "window" => [Window!Next]_WindowVars
  BY DEF vars, AddonVars, Next, CoalescingNext, AuthNext, CacheFileNext, ShortcutNext,
         AddonNext, WindowNext

\* The inductive invariant of each part holds whenever that part runs.
LEMMA PreloadPartHolds == Spec => [](part = "preload" => Preloading!PreloadInvariant)
<1> DEFINE I == part = "preload" => Preloading!PreloadInvariant
<1>1. Init => I
  BY PreloadInit DEF Init
<1>2. I /\ [Next]_vars => I'
  BY StepOfShownPart, PreloadNextKeeps, PreloadSame
<1> QED BY <1>1, <1>2, PTL DEF Spec

LEMMA ProfilePartHolds == Spec => [](part = "profiles" => Profiles!ProfileInvariant)
<1> DEFINE I == part = "profiles" => Profiles!ProfileInvariant
<1>1. Init => I
  BY ProfileInit DEF Init
<1>2. I /\ [Next]_vars => I'
  BY StepOfShownPart, ProfileNextKeeps, ProfileSame
<1> QED BY <1>1, <1>2, PTL DEF Spec

LEMMA WindowPartHolds == Spec => [](part = "window" => Window!WindowInvariant)
<1> DEFINE I == part = "window" => Window!WindowInvariant
<1>1. Init => I
  BY WindowInit DEF Init
<1>2. I /\ [Next]_vars => I'
  BY StepOfShownPart, WindowNextKeeps, WindowSame
<1> QED BY <1>1, <1>2, PTL DEF Spec

\* However many regions, folders, versions of the addon's files and requests there are, and
\* however updates, loads and clears of the user overtake each other: a profile comes from
\* files that belong together, for one grace after loads begin to fail, no file outlives its
\* clear; the answer that the state machine waits for comes, and the rows then show what the
\* last load brought.
THEOREM ProfilesAreSound == Spec => []LocalProfilesAreSound
<1>1. (part = "profiles" => Profiles!ProfileInvariant)
        /\ (part = "preload" => Preloading!PreloadInvariant)
        => LocalProfilesAreSound
  BY ProfilesSafe, PreloadSafe DEF LocalProfilesAreSound
<1> QED BY <1>1, ProfilePartHolds, PreloadPartHolds, PTL

\* However often the user, the snapshots, the task switcher and the clock take turns, the
\* window, its badge, the badge's tooltip and the timer agree.
THEOREM ShownSurfacesAgree == Spec => []SurfacesAgree
<1>1. (part = "window" => Window!WindowInvariant) => SurfacesAgree
  BY DEF SurfacesAgree, Window!WindowInvariant
<1> QED BY <1>1, WindowPartHolds, PTL

\* No step shows the badge away from the game, takes the game for being back without it in
\* front or the user asking, or hides the window while nobody knows what is in front unless the user closes it;
\* and each look at the windows leaves the surfaces in sight over the game and out of sight
\* over another program.
THEOREM ShownSurfacesFollow == Spec => SurfacesFollow
<1> DEFINE I == part = "window" => Window!WindowInvariant
           F == part = "window" => Window!Follows
<1>1. I /\ [Next]_vars => [F]_vars
  <2>1. SUFFICES ASSUME I, Next, part = "window" PROVE Window!Follows
    OBVIOUS
  <2>2. Window!WindowInvariant
    BY <2>1
  <2>3. Window!Next
    BY <2>1 DEF Next, CoalescingNext, AuthNext, CacheFileNext, ShortcutNext, AddonNext,
           WindowNext
  <2>4. Brings
    BY <2>2, <2>3, WindowNextBrings
  <2>5. Window!Looks => Leaves
    BY <2>2, LooksFollow
  <2> QED BY <2>4, <2>5, FollowsInParts
<1>2. Spec => []I
  BY WindowPartHolds, PTL
<1> QED BY <1>1, <1>2, PTL DEF Spec, SurfacesFollow
=============================================================================
