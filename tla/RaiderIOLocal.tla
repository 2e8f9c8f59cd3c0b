---------------------------- MODULE RaiderIOLocal ----------------------------
(***************************************************************************)
(* RaiderIOLocalReader for one region (raiderio_local.py): the databases   *)
(* that the RaiderIO addon keeps beside the game are read while its        *)
(* updater may replace them, file by file.  Each half, Mythic+ and raids,  *)
(* is an index of characters and a packed lookup, which is decoded once    *)
(* and kept in a cache file of its own.                                    *)
(*                                                                         *)
(* A load takes the fingerprint of all files, reads them and takes the     *)
(* fingerprint again.  What fails is served from the last load for a       *)
(* while.  Loads of a region exclude each other; lookups read what the     *)
(* last one left; the user may clear the decoded files at any time.        *)
(*                                                                         *)
(* A version of a file stands for its content, its size and its time; the  *)
(* addon only replaces a version by a newer one.  What the records hold,   *)
(* and db_dungeons.lua, which has one acceptable content, are left out.    *)
(***************************************************************************)
EXTENDS Naturals, Sequences

CONSTANTS Generation,     \* the identity and metadata a version states, by version
          NoEntry, NoData,
          MaxLoads,       \* bound: loads
          MaxTroubles     \* bound: files replaced, files and halves that cannot be read,
                          \* and clears

GenerationAssumption == Generation \in Seq(Nat) /\ Generation # <<>>
Versions == 1..Len(Generation)

VARIABLES
    disk,       \* the version of each file
    entry,      \* _cache: what lookups see
    loader,     \* the loading thread
    payloads,   \* the decoded lookups on disk: version, and generation of the load
    generation, \* _LOOKUP_PAYLOAD_CACHE_GENERATIONS
    left,       \* what remains of the bounds
    together,   \* history: pairs of versions that were on disk together
    failing,    \* history: whether loads have failed since one succeeded, and for how long
    cleared     \* history: the generation of the last clear that left no file

decodedVars == <<payloads, generation, cleared>>
historyVars == <<together, failing>>
profileVars == <<disk, entry, loader, decodedVars, left, historyVars>>

Halves == {"mplus", "raid"}
Kinds == {"characters", "lookup"}
Files == Halves \X Kinds
\* _region_db_paths.
ReadingOrder == << <<"mplus", "characters">>, <<"mplus", "lookup">>,
                   <<"raid", "characters">>, <<"raid", "lookup">> >>
Missing == 0
Seen == Versions \cup {Missing}

\* What a lookup reads, and _RegionCacheEntry with the states of its halves.
Bundles == [characters : Versions, lookup : Versions]
States == [known : BOOLEAN, print : [Kinds -> Seen], available : BOOLEAN,
           fallback : {"none", "runs", "over"}]
Entries == [db : [Halves -> Bundles \cup {NoData}], state : [Halves -> States],
            observed : [Files -> Seen]]
EntryAssumption == NoEntry \notin Entries

\* Before the first load, or after one that nothing disturbed.
Undisturbed ==
    LET print == [kind \in Kinds |-> 1]
    IN [db |-> [h \in Halves |-> print],
        state |-> [h \in Halves |-> [known |-> TRUE, print |-> print, available |-> TRUE,
                                     fallback |-> "none"]],
        observed |-> [f \in Files |-> 1]]
Init ==
    /\ disk = [f \in Files |-> 1]
    /\ \/ entry = NoEntry /\ payloads = [h \in Halves |-> NoData]
       \/ entry = Undisturbed /\ payloads = [h \in Halves |-> [version |-> 1, gen |-> 0]]
    /\ loader = [pc |-> "idle"] /\ generation = 0 /\ cleared = 0
    /\ left = [loads |-> MaxLoads, troubles |-> MaxTroubles]
    /\ together = [h \in Halves |-> {<<1, 1>>}]
    /\ failing = [h \in Halves |-> "none"]

-----------------------------------------------------------------------------
(* The cache entry.                                                         *)

\* _visible_region_db: what a lookup sees of a half.
GraceOver(h) == entry.state[h].fallback = "over"
Visible(h) == entry # NoEntry /\ entry.db[h] # NoData /\ ~GraceOver(h)

\* _cache_entry_retry_due: a half that failed is tried again after a while, and at
\* once when its grace is over.
MayRetry == \E h \in Halves : ~entry.state[h].available
MustRetry ==
    \E h \in Halves : ~entry.state[h].available /\ entry.db[h] # NoData /\ GraceOver(h)

\* The fingerprint of one half.
HalfOf(print, h) == [kind \in Kinds |-> print[<<h, kind>>]]

-----------------------------------------------------------------------------
(* The load.                                                                *)

Quiet == UNCHANGED <<disk, entry, decodedVars, historyVars>>
Trouble == left.troubles > 0 /\ left' = [left EXCEPT !.troubles = @ - 1]

\* _region_db_serialized: a size or a time has changed, a half is to be tried again,
\* or CONTENT_AUDIT_INTERVAL_SECONDS have passed.
Begin ==
    /\ loader.pc = "idle" /\ left.loads > 0
    /\ loader' = [pc |-> "print", print |-> <<>>]
    /\ left' = [left EXCEPT !.loads = @ - 1]
    /\ Quiet

\* _region_db_fingerprint reads one file after the other; one may be unreadable.
Printed == Len(loader.print) = Len(ReadingOrder)
PrintOf(seen) == [f \in Files |-> seen[CHOOSE n \in DOMAIN ReadingOrder : ReadingOrder[n] = f]]
Fingerprint ==
    /\ loader.pc \in {"print", "reprint"} /\ ~Printed
    /\ \/ /\ loader' = [loader EXCEPT !.print =
                          Append(@, disk[ReadingOrder[Len(loader.print) + 1]])]
          /\ UNCHANGED left
       \/ loader' = [loader EXCEPT !.print = Append(@, Missing)] /\ Trouble
    /\ Quiet

\* Nothing has changed and nothing is to be tried again.
Audited == entry # NoEntry /\ entry.observed = PrintOf(loader.print)
Audit ==
    /\ loader.pc = "print" /\ Printed /\ Audited /\ ~MustRetry
    /\ loader' = [pc |-> "idle"]
    /\ UNCHANGED left /\ Quiet

\* _load_stable_region_db takes the generation once, for both attempts.
Attempt(n, print, gen) ==
    [pc |-> "read", half |-> "mplus", n |-> n, first |-> print, gen |-> gen,
     found |-> [h \in Halves |-> NoData], characters |-> Missing]
BeginLoad ==
    /\ loader.pc = "print" /\ Printed /\ (Audited => MayRetry)
    /\ loader' = Attempt(1, PrintOf(loader.print), generation)
    /\ UNCHANGED left /\ Quiet

\* A half is done: the next one, or the fingerprint once more.
Done(data) ==
    IF loader.half = "mplus"
    THEN [loader EXCEPT !.pc = "read", !.half = "raid", !.found["mplus"] = data,
                        !.characters = Missing]
    ELSE [pc |-> "reprint", n |-> loader.n, first |-> loader.first, gen |-> loader.gen,
          found |-> [loader.found EXCEPT !["raid"] = data], print |-> <<>>]

\* A half that was loaded from files of the same fingerprint is taken over.
Reusable(h) ==
    /\ entry # NoEntry /\ entry.db[h] # NoData /\ entry.state[h].available
    /\ entry.state[h].print = HalfOf(loader.first, h)

\* The header of the lookup, and the index.  Any load of a half may fail: a file is
\* missing, cannot be read or makes no sense.
ReadCharacters ==
    /\ loader.pc = "read" /\ loader.characters = Missing
    /\ \/ /\ Reusable(loader.half) /\ loader' = Done(entry.db[loader.half])
          /\ UNCHANGED left
       \/ /\ ~Reusable(loader.half)
          /\ \/ /\ loader' = [loader EXCEPT !.characters = disk[<<loader.half, "characters">>]]
                /\ UNCHANGED left
             \/ loader' = Done(NoData) /\ Trouble
    /\ Quiet

\* _validate_provider_identity_pair.
SameIdentity(v, w) == Generation[v] = Generation[w]

\* The lookup has to state what the index states.  _parse_lookup_payload takes what
\* an earlier load has decoded from the same lookup, unless a clear came between.
ReadLookup ==
    /\ loader.pc = "read" /\ loader.characters # Missing
    /\ LET v == disk[<<loader.half, "lookup">>]
           found == [characters |-> loader.characters, lookup |-> v]
           decoded == /\ loader.gen = generation /\ payloads[loader.half] # NoData
                      /\ payloads[loader.half].version = v
       IN loader' = IF ~SameIdentity(loader.characters, v) THEN Done(NoData)
                    ELSE IF decoded THEN Done(found)
                    ELSE [loader EXCEPT !.pc = "write", !.found[loader.half] = found]
    /\ UNCHANGED left /\ Quiet

\* _write_lookup_payload_cache may fail.
MayWriteAnyway == loader.gen \in Nat    \* mutant
MayWrite == loader.gen = generation
WritePayload ==
    /\ loader.pc = "write" /\ loader' = Done(loader.found[loader.half])
    /\ \/ /\ MayWrite
          /\ payloads' = [payloads EXCEPT ![loader.half] =
                            [version |-> loader.found[loader.half].lookup, gen |-> loader.gen]]
       \/ UNCHANGED payloads
    /\ UNCHANGED <<disk, entry, generation, cleared, left, historyVars>>

\* The files changed while they were read: once more, and then only the halves
\* that did not change count.
Latest == PrintOf(loader.print)
Again ==
    /\ loader.pc = "reprint" /\ Printed /\ Latest # loader.first /\ loader.n = 1
    /\ loader' = Attempt(2, Latest, loader.gen)
    /\ UNCHANGED left /\ Quiet

Stable(h) == HalfOf(loader.first, h) = HalfOf(Latest, h)
Loaded(h) == IF Stable(h) THEN loader.found[h] ELSE NoData

\* _merge_region_half: the first failure starts the grace, and what was loaded
\* before is kept as long as it runs.
Before(h) ==
    IF entry = NoEntry
    THEN [known |-> FALSE, print |-> HalfOf(Latest, h), available |-> FALSE, fallback |-> "none"]
    ELSE entry.state[h]
Fallback(state) == IF state.known /\ state.fallback = "none" THEN "runs" ELSE state.fallback
StateAfter(h) ==
    IF Loaded(h) # NoData
    THEN [known |-> TRUE, print |-> HalfOf(Latest, h), available |-> TRUE, fallback |-> "none"]
    ELSE [Before(h) EXCEPT !.available = FALSE, !.fallback = Fallback(Before(h))]
DataAfter(h) ==
    IF Loaded(h) = NoData /\ entry # NoEntry /\ StateAfter(h).fallback # "over"
    THEN entry.db[h] ELSE Loaded(h)

Publish ==
    /\ loader.pc = "reprint" /\ Printed /\ (Latest = loader.first \/ loader.n = 2)
    /\ entry' = [db |-> [h \in Halves |-> DataAfter(h)],
                 state |-> [h \in Halves |-> StateAfter(h)], observed |-> Latest]
    /\ loader' = [pc |-> "idle"]
    /\ failing' = [h \in Halves |->
                     IF Loaded(h) # NoData THEN "none"
                     ELSE IF failing[h] = "none" /\ Before(h).known THEN "runs"
                     ELSE failing[h]]
    /\ UNCHANGED <<disk, decodedVars, left, together>>

-----------------------------------------------------------------------------
(* The addon's updater, the user and time.                                  *)

Replace(f) ==
    /\ Trouble /\ disk[f] + 1 \in Versions
    /\ disk' = [disk EXCEPT ![f] = @ + 1]
    /\ together' = [together EXCEPT ![f[1]] =
                      @ \cup {<<disk'[<<f[1], "characters">>], disk'[<<f[1], "lookup">>]>>}]
    /\ UNCHANGED <<entry, loader, decodedVars, failing>>

\* clear_lookup_payload_cache; removing the directory may fail, in part.
Clear ==
    /\ Trouble
    /\ generation' = generation + 1
    /\ \/ payloads' = [h \in Halves |-> NoData] /\ cleared' = generation'
       \/ /\ \E kept \in SUBSET Halves :
               payloads' = [h \in Halves |-> IF h \in kept THEN payloads[h] ELSE NoData]
          /\ UNCHANGED cleared
    /\ UNCHANGED <<disk, entry, loader, historyVars>>

\* POSITIVE_CACHE_FAILURE_GRACE_SECONDS have passed.
EndGrace(h) ==
    /\ entry # NoEntry
    /\ entry.state[h].fallback = "runs" \/ failing[h] = "runs"
    /\ entry' = [entry EXCEPT !.state[h].fallback = IF @ = "runs" THEN "over" ELSE @]
    /\ failing' = [failing EXCEPT ![h] = IF @ = "runs" THEN "over" ELSE @]
    /\ UNCHANGED <<disk, loader, decodedVars, left, together>>

Next ==
    \/ Begin \/ Fingerprint \/ Audit \/ BeginLoad
    \/ ReadCharacters \/ ReadLookup \/ WritePayload \/ Again \/ Publish
    \/ \E f \in Files : Replace(f)
    \/ Clear
    \/ \E h \in Halves : EndGrace(h)

Spec == Init /\ [][Next]_profileVars

-----------------------------------------------------------------------------
(* Properties.                                                              *)

\* A profile is looked up in an index and a lookup that state the same identity and
\* that the addon had on disk together, if both could be fingerprinted: of a file that
\* cannot be read before and after a load nobody knows what it was in between.
Told(print) == \A kind \in Kinds : print[kind] # Missing
Whole(h, b, print) ==
    /\ SameIdentity(b.characters, b.lookup)
    /\ Told(print) => <<b.characters, b.lookup>> \in together[h]
BundlesAreWhole ==
    entry # NoEntry =>
        \A h \in Halves : entry.db[h] # NoData => Whole(h, entry.db[h], entry.state[h].print)

\* What was loaded before serves for one grace after the first failure, however
\* often loads fail after it.
GraceIsBounded == \A h \in Halves : Visible(h) => failing[h] # "over"

\* A clear is final: no file written for a load that began before it remains.
ClearedStaysCleared == \A h \in Halves : payloads[h] # NoData => payloads[h].gen >= cleared

-----------------------------------------------------------------------------
(* The inductive invariant.                                                 *)

Reading == [pc : {"read", "write"}, half : Halves, n : {1, 2}, first : [Files -> Seen],
            gen : Nat, found : [Halves -> Bundles \cup {NoData}], characters : Seen]
Reprinting == [pc : {"reprint"}, n : {1, 2}, first : [Files -> Seen], gen : Nat,
               found : [Halves -> Bundles \cup {NoData}], print : Seq(Seen)]
Loaders == [pc : {"idle"}] \cup [pc : {"print"}, print : Seq(Seen)] \cup Reading \cup Reprinting

TypeOK ==
    /\ disk \in [Files -> Versions]
    /\ entry \in Entries \cup {NoEntry}
    /\ loader \in Loaders
    /\ loader.pc \in {"print", "reprint"} => Len(loader.print) <= Len(ReadingOrder)
    /\ payloads \in [Halves -> [version : Versions, gen : Nat] \cup {NoData}]
    /\ generation \in Nat /\ cleared \in 0..generation
    /\ together \in [Halves -> SUBSET (Versions \X Versions)]
    /\ failing \in [Halves -> {"none", "runs", "over"}]

\* Versions only grow: two that were seen one after the other were there together,
\* or the first has been replaced since.
DiskIsTogether ==
    \A h \in Halves : <<disk[<<h, "characters">>], disk[<<h, "lookup">>]>> \in together[h]
Met(h, c, l, now) == c # Missing /\ l # Missing => <<c, l>> \in together[h] \/ now > c

\* A fingerprint, taken as far as it is.
PrintHolds(print) ==
    /\ \A n \in DOMAIN print : print[n] <= disk[ReadingOrder[n]]
    /\ \A n \in {1, 3} : n + 1 \in DOMAIN print =>
         Met(ReadingOrder[n][1], print[n], print[n + 1], disk[ReadingOrder[n]])
FirstHolds ==
    /\ \A f \in Files : loader.first[f] <= disk[f]
    /\ \A h \in Halves :
         Met(h, loader.first[<<h, "characters">>], loader.first[<<h, "lookup">>],
             disk[<<h, "characters">>])

\* A half that was found is whole, or was read after the fingerprint.
ReadSince(h, b) ==
    \A kind \in Kinds : loader.first[<<h, kind>>] <= b[kind] /\ b[kind] <= disk[<<h, kind>>]
FoundHolds ==
    \A h \in Halves : loader.found[h] # NoData =>
        LET b == loader.found[h]
        IN \/ Whole(h, b, HalfOf(loader.first, h))
           \/ SameIdentity(b.characters, b.lookup) /\ ReadSince(h, b)
CharactersHold ==
    loader.characters # Missing =>
        /\ loader.first[<<loader.half, "characters">>] <= loader.characters
        /\ loader.characters <= disk[<<loader.half, "characters">>]

\* The second fingerprint shows what has been replaced since the first.
ReprintHolds ==
    \A n \in DOMAIN loader.print :
        LET h == ReadingOrder[n][1]
            kind == ReadingOrder[n][2]
            now == loader.print[n]
        IN now # Missing =>
             /\ loader.first[<<h, kind>>] <= now
             /\ \/ loader.found[h] = NoData
                \/ Whole(h, loader.found[h], HalfOf(loader.first, h))
                \/ loader.found[h][kind] <= now
             /\ kind = "characters" =>
                  Met(h, loader.first[<<h, "characters">>], loader.first[<<h, "lookup">>], now)

LoadHolds ==
    /\ loader.pc \in {"print", "reprint"} => PrintHolds(loader.print)
    /\ loader.pc \in {"read", "write", "reprint"} => FirstHolds /\ FoundHolds
    /\ loader.pc \in {"read", "write"} => CharactersHold
    /\ loader.pc = "write" => loader.found[loader.half] \in Bundles
    /\ loader.pc = "reprint" => ReprintHolds

FailuresAreCounted ==
    \A h \in Halves : failing[h] = IF entry = NoEntry THEN "none" ELSE entry.state[h].fallback

ProfileInvariant ==
    /\ TypeOK /\ DiskIsTogether /\ LoadHolds
    /\ BundlesAreWhole /\ FailuresAreCounted /\ ClearedStaysCleared
=============================================================================
