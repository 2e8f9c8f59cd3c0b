------------------------------ MODULE RioRecord ------------------------------
(***************************************************************************)
(* One character's record in a packed RaiderIO lookup (raiderio_local.py:  *)
(* _RegionDB.lookup_profile).  The addon states the order of the fields,   *)
(* the size of a record and the raids; a load accepts a statement whose    *)
(* fields fit the record, and an index whose characters fit the lookup.    *)
(* Reading a record then takes one piece after the other off its bits.     *)
(*                                                                         *)
(* A value that is read is any of a few that tell the cases apart.  Of the *)
(* Mythic+ fields the widths are kept; how their values are named is not.  *)
(***************************************************************************)
EXTENDS Naturals, SequencesExt

CONSTANTS
    Halves,      \* what the addon's files may state: plan, index and length of the lookup
    Encounters,  \* RAIDERIO_RAID_ENCOUNTER_IDS: how many bosses of a raid are known
    RawDifficulties, RawKills     \* what the bits of a row may hold

RecordAssumption == RawDifficulties \subseteq 0..3 /\ RawKills \subseteq 0..31

VARIABLES
    plan,        \* _ProviderMeta and the raids of the half
    index,       \* _CharacterLayout
    lookup,      \* the length of the decoded lookup
    record,      \* "new", "refused", "absent", "open", "raised" or "decoded"
    pieces,      \* what is still to be read
    offset,      \* bit_offset
    rows,        \* rows_by_difficulty, by difficulty and raid
    rowsRead     \* history: every row in the order of the record

recordVars == <<plan, index, lookup, record, pieces, offset, rows, rowsRead>>

Mplus == plan.half = "mplus"
Raids == IF Mplus THEN <<>> ELSE plan.current \o plan.previous
Total(widths) == FoldLeft(LAMBDA sum, width : sum + width, 0, widths)
Times(n, widths) == FlattenSeq([i \in 1..n |-> widths])
BitsOf(size) == size * 8

-----------------------------------------------------------------------------
(* What a load accepts.                                                     *)

MplusFields == 1..16
\* _encoding_field_width.
MplusWidth(field) ==
    CASE field \in {1, 5, 12} -> 13
      [] field \in {2, 4, 6, 8, 15, 16} -> 7
      [] field \in {3, 13} -> 15
      [] field = 7 -> 12
      [] field = 9 -> 8 * plan.milestones
      [] field \in {10, 14} -> 8 * plan.dungeons
      [] field = 11 -> 4

\* _raid_encoding_field_width.
RowWidth(raid) == 2 + raid.bosses * 5
RaidWidth(field) ==
    LET rowWidths(raids) == [i \in DOMAIN raids |-> RowWidth(raids[i])]
    IN CASE field = 1 -> 2 * Total(rowWidths(plan.current))
         [] field = 2 -> Total(rowWidths(plan.previous))
         [] field = 3 -> Len(plan.previous) * 12
         [] field = 4 -> Len(plan.current) * 12

FieldWidth(field) == IF Mplus THEN MplusWidth(field) ELSE RaidWidth(field)
Budget == Total([i \in DOMAIN plan.order |-> FieldWidth(plan.order[i])])

\* _validate_raid_encoding_plan: no raid twice; an unknown identity is 0.
Distinct(raids) ==
    \A i, j \in DOMAIN raids : raids[i].id = raids[j].id /\ raids[i].id > 0 => i = j

\* _parse_provider_raids: a raid states its bosses.
RaidsAreStated == \A i \in DOMAIN Raids : Raids[i].bosses > 0

\* _validate_encoding_plan and its like for raids; no milestones stand for a statement
\* that does not name any.
PlanIsValid ==
    /\ IF Mplus
       THEN /\ plan.dungeons > 0 /\ ToSet(plan.order) \subseteq MplusFields
            /\ {1, 10} \subseteq ToSet(plan.order)
            /\ 9 \in ToSet(plan.order) => plan.milestones > 0
       ELSE /\ ToSet(plan.order) \subseteq 1..4 /\ RaidsAreStated
            /\ Distinct(plan.current) /\ Distinct(plan.previous)
    /\ Budget <= BitsOf(plan.size)

\* _parse_character_layout: a realm states where its first record is; the names
\* follow each other.
RealmEnd(block) == block.base + Len(block.names) * plan.size
RequiredSize == FoldLeft(LAMBDA size, block : IF RealmEnd(block) > size THEN RealmEnd(block) ELSE size,
                         0, index)
\* _lookup_payload_covers_character_layout.
Covered == plan.size > 0 /\ lookup >= RequiredSize

\* A realm that is stated again replaces the first; a name that is, does not.
BlocksOf(realm) == {i \in DOMAIN index : index[i].realm = realm}
BlockOf(realm) == index[CHOOSE i \in BlocksOf(realm) : \A j \in BlocksOf(realm) : j <= i]
NameAt(block, name) ==
    CHOOSE i \in DOMAIN block.names :
        block.names[i] = name /\ \A j \in DOMAIN block.names : block.names[j] = name => i <= j

\* _record_for: where a record starts; none is cut off.
Known(realm, name) == BlocksOf(realm) # {} /\ name \in ToSet(BlockOf(realm).names)
StartOf(realm, name) ==
    LET block == BlockOf(realm) IN block.base + (NameAt(block, name) - 1) * plan.size
Whole(start) == start + plan.size <= lookup

-----------------------------------------------------------------------------
(* What is read.                                                            *)

\* _apply_mplus_field, _read_dungeon_rows: a level and the upgrades of each dungeon.
MplusReads(field) ==
    CASE field \in {1, 5, 12} -> <<13>>
      [] field \in {2, 4, 6, 8, 15, 16} -> <<7>>
      [] field \in {3, 13} -> <<13, 2>>
      [] field = 7 -> <<10, 2>>
      [] field = 9 -> Times(plan.milestones, <<8>>)
      [] field \in {10, 14} -> Times(plan.dungeons, <<6, 2>>)
      [] field = 11 -> <<4>>

\* Both difficulties of a current raid, and the one of a previous raid, are read in
\* full; of the characters' other progress, the summary is passed over.
SkipsHalf(raids) == Times(Len(raids), <<2, 4>>)    \* mutant
Skips(raids) == Times(2 * Len(raids), <<2, 4>>)
Row(i) == [raid |-> i, reads |-> <<2>> \o Times(Raids[i].bosses, <<5>>)]
Skipped(reads) == [raid |-> 0, reads |-> reads]
RaidPieces(field) ==
    CASE field = 1 -> FlattenSeq([i \in DOMAIN plan.current |-> <<Row(i), Row(i)>>])
      [] field = 2 -> [i \in DOMAIN plan.previous |-> Row(Len(plan.current) + i)]
      [] field = 3 -> <<Skipped(Skips(plan.previous))>>
      [] field = 4 -> <<Skipped(Skips(plan.current))>>
PiecesOf(field) == IF Mplus THEN <<Skipped(MplusReads(field))>> ELSE RaidPieces(field)

\* _read_full_raid_progress, _decode_bits5.
DecodeBits5(raw) == IF raw <= 25 THEN raw ELSE (raw - 21) * 5
Difficulties == 1..3
Killed(kills) == Len(SelectSeq(kills, LAMBDA k : k > 0))
Readable(row) == row.difficulty \in Difficulties /\ Killed(row.kills) > 0

\* display_raids: the current raids, and those of the previous group that the
\* companion knows boss by boss.
Mapped(i) == Raids[i].id \in DOMAIN Encounters /\ Encounters[Raids[i].id] = Raids[i].bosses
Displayed ==
    SelectSeq([i \in DOMAIN Raids |-> i],
              LAMBDA i : \/ i <= Len(plan.current)
                         \/ Mapped(i) /\ \A j \in DOMAIN plan.current : plan.current[j].id # Raids[i].id)

\* Of two rows of one difficulty the one with more bosses counts, or the first.
NoRow == <<>>
Better(kills, old) == Killed(kills) > Killed(old)
Kept(row) ==
    IF Readable(row) /\ row.raid \in ToSet(Displayed) /\ Better(row.kills, rows[row.difficulty][row.raid])
    THEN [rows EXCEPT ![row.difficulty][row.raid] = row.kills]
    ELSE rows

\* The bosses of all raids in one list, and beside it who they are.
KillsOrNothing(kills, i) == kills    \* mutant
KillsOrNone(kills, i) == IF kills = NoRow THEN [n \in 1..Raids[i].bosses |-> 0] ELSE kills
BossKills(difficulty) ==
    FlattenSeq([n \in DOMAIN Displayed |-> KillsOrNone(rows[difficulty][Displayed[n]], Displayed[n])])
Unknown == <<0, 0>>
BossIds ==
    FlattenSeq([n \in DOMAIN Displayed |->
        LET i == Displayed[n]
        IN [b \in 1..Raids[i].bosses |-> IF Mapped(i) THEN <<Raids[i].id, b>> ELSE Unknown]])

-----------------------------------------------------------------------------
Init ==
    /\ \E h \in Halves : plan = h[1] /\ index = h[2] /\ lookup = h[3]
    /\ record = "new" /\ pieces = <<>> /\ offset = 0
    /\ rows = [d \in Difficulties |-> [i \in 1..Len(Raids) |-> NoRow]]
    /\ rowsRead = <<>>

\* _load_mplus_region, _load_raid_region.
Refuse ==
    /\ record = "new" /\ ~(PlanIsValid /\ Covered)
    /\ record' = "refused"
    /\ UNCHANGED <<plan, index, lookup, pieces, offset, rows, rowsRead>>

\* lookup_profile finds the record and starts to read it.
Open(realm, name) ==
    /\ record = "new" /\ PlanIsValid /\ Covered
    /\ IF Known(realm, name) /\ Whole(StartOf(realm, name))
       THEN /\ record' = "open"
            /\ pieces' = FlattenSeq([i \in DOMAIN plan.order |-> PiecesOf(plan.order[i])])
       ELSE record' = "absent" /\ UNCHANGED pieces
    /\ UNCHANGED <<plan, index, lookup, offset, rows, rowsRead>>

\* _read_bits raises at the end of the record, and the half has no profile.
Piece == Head(pieces)
Fits == offset + Total(Piece.reads) <= BitsOf(plan.size)
Read ==
    /\ record = "open" /\ pieces # <<>> /\ Fits
    /\ pieces' = Tail(pieces) /\ offset' = offset + Total(Piece.reads)
    /\ IF Piece.raid = 0 THEN UNCHANGED <<rows, rowsRead>>
       ELSE \E raw \in RawDifficulties, kills \in [1..Raids[Piece.raid].bosses -> RawKills] :
              LET row == [raid |-> Piece.raid, difficulty |-> raw + 1,
                          kills |-> [b \in DOMAIN kills |-> DecodeBits5(kills[b])]]
              IN rows' = Kept(row) /\ rowsRead' = Append(rowsRead, row)
    /\ UNCHANGED <<plan, index, lookup, record>>
Raise ==
    /\ record = "open" /\ pieces # <<>> /\ ~Fits
    /\ record' = "raised"
    /\ UNCHANGED <<plan, index, lookup, pieces, offset, rows, rowsRead>>
Finish ==
    /\ record = "open" /\ pieces = <<>>
    /\ record' = "decoded"
    /\ UNCHANGED <<plan, index, lookup, pieces, offset, rows, rowsRead>>

Realms == UNION {{h[2][i].realm : i \in DOMAIN h[2]} : h \in Halves}
Names == UNION {UNION {ToSet(h[2][i].names) : i \in DOMAIN h[2]} : h \in Halves}
Next ==
    \/ Refuse \/ Read \/ Raise \/ Finish
    \/ \E realm \in Realms, name \in Names : Open(realm, name)

Spec == Init /\ [][Next]_recordVars

-----------------------------------------------------------------------------
(* Properties.                                                              *)

\* What a load accepts can be read: every character of the index has a whole
\* record, no read passes the end of it, and the last one ends where the
\* widths that were checked end.
AcceptedIsRead ==
    /\ record = "new" /\ PlanIsValid /\ Covered =>
         \A realm \in Realms, name \in Names : Known(realm, name) => Whole(StartOf(realm, name))
    /\ record # "raised"
    /\ record = "decoded" => offset = Budget

\* Every boss stands beside its own identity, with the kills of the row of its
\* raid that shows most bosses of the difficulty, or with none.
Sought(difficulty, i) ==
    {n \in DOMAIN rowsRead : rowsRead[n].raid = i /\ rowsRead[n].difficulty = difficulty}
BossesInPlace ==
    record = "decoded" /\ ~Mplus =>
        \A d \in Difficulties :
            /\ Len(BossKills(d)) = Len(BossIds)
            /\ \A p \in DOMAIN BossIds, i \in ToSet(Displayed) : \A b \in 1..Raids[i].bosses :
                 BossIds[p] = <<Raids[i].id, b>> =>
                    LET shown == BossKills(d)[p]
                        best == {n \in Sought(d, i) : \A m \in Sought(d, i) :
                                     Killed(rowsRead[m].kills) <= Killed(rowsRead[n].kills)}
                    IN \/ \E n \in best : shown = rowsRead[n].kills[b]
                       \/ shown = 0 /\ Sought(d, i) = {}
=============================================================================
