------------------------ MODULE CharacterCacheProofs ------------------------
(***************************************************************************)
(* CharacterCache keeps its types and implements EvidenceLedger, for every *)
(* set of characters, scopes and workers and every bound.                  *)
(***************************************************************************)
EXTENDS CharacterCache, FiniteSetTheorems, WellFoundedInduction, TLAPS

-----------------------------------------------------------------------------
(* The inductive invariant. *)

Piece(kind, id, s, t) == [kind |-> kind, id |-> id, scope |-> s, time |-> t]

\* An entry is a record, complete for what its key is about, with clocks the
\* publication clock has reached.
RowKeys == [kind : {"rank", "detail"}, id : Identities, prefs : SUBSET Scopes]
KeyOK(k) == k \in RowKeys \/ \E c \in Characters : k = AbsentKey(c)
RecordOK(entry, e) ==
    entry \in [at : 1..MaxAnswers, clock : [DOMAIN entry.seen -> 0..e], seen : [DOMAIN entry.seen -> Seen]]
ScopesOK(k, entry) ==
    /\ k.kind = "rank" => DOMAIN entry.seen = k.prefs
    /\ k.kind = "detail" => DOMAIN entry.seen \subseteq k.prefs \cap RaidScopes
    /\ k.kind = Absent => DOMAIN entry.seen = {Absent} /\ entry.seen[Absent].state = "public"
StoreOK(d, e) ==
    /\ IsFiniteSet(DOMAIN d)
    /\ \A k \in DOMAIN d : KeyOK(k) /\ RecordOK(d[k], e) /\ ScopesOK(k, d[k])

\* What is public in the store was answered and is not withdrawn.
StoreClean ==
    \A k \in DOMAIN data : \A s \in DOMAIN data[k].seen :
        data[k].seen[s].state = "public" =>
            Piece(k.kind, k.id, s, data[k].seen[s].time) \in answered \ withdrawn

\* The histories hold clocks that have been and no more proofs than they may.
HistoryOK(p, f, e) ==
    /\ p \in [Subjects -> 0..e] /\ f \in 0..e
    /\ IsFiniteSet({x \in Subjects : p[x] # 0})
    /\ Cardinality({x \in Subjects : p[x] # 0}) <= MaxProofs
HistoriesOK ==
    /\ DOMAIN proofs = History /\ DOMAIN floor = History
    /\ \A h \in History : HistoryOK(proofs[h], floor[h], epoch)

\* A history bars what was asked for at clock e.
Barred(h, x, e) == e < floor[h] \/ proofs[h][x] > e
ItemBarred(i, e) ==
    IF i.kind = Absent THEN Barred("present", i.id, e)
    ELSE \/ Barred(Absent, i.id[1], e)
         \/ i.kind = "rank" /\ Barred("summary", <<i.id, i.scope>>, e)
         \/ i.kind = "detail" /\ Barred("detail", <<i.id, i.scope>>, e)

\* What a task is about to hand on was answered; if it is withdrawn by now, a
\* history bars it.
AskedOK(t) == t.q \in Questions /\ t.epoch \in 0..epoch
AnsweredOK(t) ==
    /\ t.q \in Questions /\ t.epoch \in 0..epoch /\ t.time \in 1..time
    /\ t.answer \in Answers(t.q, t.time)
    /\ Items(t.q, t.answer) \subseteq answered
    /\ \A i \in Items(t.q, t.answer) : i \in withdrawn => ItemBarred(i, t.epoch)
ResultOK(q, result, clock) ==
    \/ result.found = Absent /\ clock[Absent] \in 0..epoch
    \/ /\ result.found = "rows" /\ DOMAIN result.seen \subseteq Selected(q.kind, q.prefs)
       /\ \A s \in DOMAIN result.seen : clock[s] \in 0..epoch
EmittedOK(t) ==
    /\ t.q \in Questions /\ ResultOK(t.q, t.result, t.clock)
    /\ Items(t.q, t.result) \subseteq answered
    /\ \A i \in Items(t.q, t.result) : i \in withdrawn => ItemBarred(i, t.clock[i.scope])
TaskOK(t) ==
    \/ t = Idle
    \/ t.stage = "asked" /\ AskedOK(t)
    \/ t.stage = "answered" /\ AnsweredOK(t)
    \/ t.stage = "emitted" /\ EmittedOK(t)
TasksOK == task = [w \in Workers |-> task[w]] /\ \A w \in Workers : TaskOK(task[w])

\* The absence KnownAbsent speaks of.
AbsencesOK ==
    /\ lastAbsent = [c \in Characters |-> lastAbsent[c]]
    /\ \A c \in Characters :
          /\ AbsentKey(c) \in DOMAIN data => data[AbsentKey(c)].seen[Absent].time = lastAbsent[c]
          /\ proofs[Absent][c] # 0 =>
                /\ Piece(Absent, c, Absent, lastAbsent[c]) \in answered
                /\ Piece(Absent, c, Absent, lastAbsent[c]) \in withdrawn =>
                      Barred("present", c, proofs[Absent][c])

\* Every put stores an answer of its own.
Answered == {w \in Workers : task[w].stage = "answered"}
CountsOK ==
    /\ epoch \in Nat /\ puts \in Nat /\ time \in 0..MaxAnswers
    /\ IsFiniteSet(Answered) /\ puts + Cardinality(Answered) <= time

EvidenceOK ==
    /\ answered \subseteq Evidence /\ withdrawn \subseteq answered
    /\ \A i \in answered : i.time <= time

Inv ==
    /\ CountsOK /\ EvidenceOK
    /\ StoreOK(data, epoch) /\ Cardinality(DOMAIN data) <= MaxEntries /\ StoreClean
    /\ HistoriesOK /\ TasksOK /\ AbsencesOK
    /\ delivered \subseteq answered \ withdrawn

-----------------------------------------------------------------------------
(* Greatest and smallest elements of finite sets, which CHOOSE picks. *)

LEMMA GreatestExists ==
  ASSUME NEW S, IsFiniteSet(S), S # {}, NEW f \in [S -> Int]
  PROVE  \E k \in S : \A j \in S : f[j] <= f[k]
<1> DEFINE Above(k) == {j \in S : f[j] > f[k]}
           T == {Above(k) : k \in S}
<1>1. IsWellFoundedOn(StrictSubsetOrdering(S), SUBSET S)
  BY FS_StrictSubsetOrderingWellFounded, FS_FiniteSubsetsOfFinite
<1>2. T \subseteq SUBSET S /\ T # {}
  <2>1. PICK x : x \in S
    OBVIOUS
  <2>2. Above(x) \in T
    BY <2>1
  <2>3. \A k \in S : Above(k) \subseteq S
    OBVIOUS
  <2> QED BY <2>2, <2>3
<1>3. PICK X \in T : \A Y \in T : ~ (<<Y, X>> \in StrictSubsetOrdering(S))
  BY <1>1, <1>2, WFMin
<1>4. PICK k \in S : X = Above(k)
  BY <1>3
<1>5. ASSUME NEW j \in S, f[j] > f[k] PROVE FALSE
  <2>1. Above(j) \subseteq Above(k) /\ j \in Above(k) /\ j \notin Above(j)
    <3>1. \A i \in S : f[i] \in Int
      OBVIOUS
    <3>2. \A i \in S : f[i] > f[j] => f[i] > f[k]
      BY <3>1, <1>5
    <3> QED BY <3>1, <3>2, <1>5
  <2>2. <<Above(j), Above(k)>> \in (SUBSET S) \X (SUBSET S)
    OBVIOUS
  <2>3. <<Above(j), Above(k)>> \in StrictSubsetOrdering(S)
    BY <2>1, <2>2 DEF StrictSubsetOrdering
  <2> QED BY <2>3, <1>3, <1>4
<1>6. \A j \in S : f[j] \in Int
  OBVIOUS
<1> QED BY <1>5, <1>6

LEMMA SmallestExists ==
  ASSUME NEW S, IsFiniteSet(S), S # {}, NEW f \in [S -> Int]
  PROVE  \E k \in S : \A j \in S : f[k] <= f[j]
<1> DEFINE g == [j \in S |-> 0 - f[j]]
<1>1. g \in [S -> Int]
  OBVIOUS
<1>2. PICK k \in S : \A j \in S : g[j] <= g[k]
  <2> HIDE DEF g
  <2> QED BY <1>1, GreatestExists
<1>3. \A j \in S : f[j] \in Int /\ g[j] = 0 - f[j]
  OBVIOUS
<1>4. \A j \in S : f[k] <= f[j]
  <2> HIDE DEF g
  <2> QED BY <1>2, <1>3
<1> QED BY <1>4

\* What CHOOSE picks as the maximum of a finite set of integers is it.
LEMMA MaxIsGreatest ==
  ASSUME NEW S, IsFiniteSet(S), S # {}, S \subseteq Int
  PROVE  Max(S) \in S /\ \A j \in S : j <= Max(S)
<1> DEFINE f == [j \in S |-> j]
<1>1. f \in [S -> Int]
  OBVIOUS
<1>2. PICK k \in S : \A j \in S : f[j] <= f[k]
  <2> HIDE DEF f
  <2> QED BY <1>1, GreatestExists
<1>3. \A j \in S : k >= j
  BY <1>2
<1>4. Max(S) \in S /\ \A j \in S : Max(S) >= j
  BY <1>3 DEF Max
<1> QED BY <1>4

\* The n smallest elements of a finite set, by a measure f.
LEMMA SmallestSubsetExists ==
  ASSUME NEW S, IsFiniteSet(S), NEW f \in [S -> Int], NEW n \in Nat, n <= Cardinality(S)
  PROVE  \E out \in SUBSET S : /\ Cardinality(out) = n
                               /\ \A s \in out, r \in S \ out : f[s] <= f[r]
<1> DEFINE Low(out) == out \in SUBSET S /\ \A s \in out, r \in S \ out : f[s] <= f[r]
           T == {D \in SUBSET S : Low(S \ D) /\ Cardinality(S \ D) <= n}
<1>1. IsWellFoundedOn(StrictSubsetOrdering(S), SUBSET S)
  BY FS_StrictSubsetOrderingWellFounded, FS_FiniteSubsetsOfFinite
<1>2. S \in T
  <2>1. S \ S = {} /\ Cardinality({}) = 0
    BY FS_EmptySet
  <2> QED BY <2>1
<1>3. PICK D \in T : \A Y \in T : ~ (<<Y, D>> \in StrictSubsetOrdering(S))
  BY <1>1, <1>2, WFMin
<1> DEFINE out == S \ D
<1>4. out \in SUBSET S /\ Low(out) /\ Cardinality(out) <= n /\ IsFiniteSet(out) /\ IsFiniteSet(D)
  BY <1>3, FS_Subset
<1>5. Cardinality(out) \in Nat
  BY <1>4, FS_CardinalityType
<1>6. ASSUME Cardinality(out) < n PROVE FALSE
  <2>1. D # {}
    <3>1. SUFFICES ASSUME D = {} PROVE FALSE
      OBVIOUS
    <3>2. out = S
      BY <3>1
    <3> QED BY <3>2, <1>6, <1>5
  <2> DEFINE g == [x \in D |-> f[x]]
  <2>2. g \in [D -> Int] /\ D \subseteq S
    BY <1>3
  <2>3. PICK m \in D : \A j \in D : g[m] <= g[j]
    <3> HIDE DEF g
    <3> QED BY <2>1, <2>2, <1>4, SmallestExists
  <2>4. \A j \in D : f[m] <= f[j]
    BY <2>3
  <2> DEFINE E == D \ {m}
  <2>5. S \ E = out \cup {m} /\ m \notin out /\ E \in SUBSET S
    BY <2>2
  <2>6. Cardinality(S \ E) = Cardinality(out) + 1
    <3> HIDE DEF out, E
    <3> QED BY <2>5, <1>4, FS_AddElement
  <2>7. Low(S \ E)
    <3> SUFFICES ASSUME NEW s \in S \ E, NEW r \in S \ (S \ E) PROVE f[s] <= f[r]
      OBVIOUS
    <3>1. r \in D /\ r \in S \ out
      OBVIOUS
    <3>2. CASE s = m
      BY <3>1, <3>2, <2>4
    <3>3. CASE s \in out
      BY <3>1, <3>3, <1>4
    <3> QED BY <3>2, <3>3, <2>5
  <2>8. E \in T
    BY <2>5, <2>6, <2>7, <1>5, <1>6
  <2>9. <<E, D>> \in StrictSubsetOrdering(S)
    <3>1. E \subseteq D /\ E # D /\ <<E, D>> \in (SUBSET S) \X (SUBSET S)
      BY <2>2
    <3> QED BY <3>1 DEF StrictSubsetOrdering
  <2> QED BY <2>8, <2>9, <1>3
<1>7. Cardinality(out) = n
  BY <1>4, <1>5, <1>6
<1> HIDE DEF out
<1> QED BY <1>4, <1>7

-----------------------------------------------------------------------------
(* The histories of proofs. *)

LEMMA MaxWithZero ==
  ASSUME NEW n \in Int
  PROVE  Max({0, n}) = IF n <= 0 THEN 0 ELSE n
<1>1. IsFiniteSet({0, n})
  <2>1. {0, n} = {0} \cup {n} /\ IsFiniteSet({0}) /\ IsFiniteSet({n})
    BY FS_Singleton
  <2> QED BY <2>1, FS_Union
<1>2. {0, n} # {} /\ {0, n} \subseteq Int
  OBVIOUS
<1>3. Max({0, n}) \in {0, n} /\ \A j \in {0, n} : j <= Max({0, n})
  BY <1>1, <1>2, MaxIsGreatest
<1> DEFINE M == Max({0, n})
<1>4. M \in {0, n} /\ 0 <= M /\ n <= M
  BY <1>3
<1> HIDE DEF M
<1>5. M = IF n <= 0 THEN 0 ELSE n
  BY <1>4
<1> QED BY <1>5 DEF M

\* Proofs recorded at the next clock are held, or the floor is raised to them.
LEMMA ProvedEffect ==
  ASSUME NEW h, NEW subjects, IsFiniteSet(subjects), subjects \subseteq Subjects,
         epoch \in Nat, HistoryOK(proofs[h], floor[h], epoch)
  PROVE  LET P == Proved(h, subjects)
         IN  /\ HistoryOK(P.proofs, P.floor, epoch + 1)
             /\ floor[h] <= P.floor
             /\ \A x \in subjects : P.proofs[x] = epoch + 1 \/ epoch + 1 <= P.floor
             /\ \A x \in Subjects \ subjects :
                    P.proofs[x] = proofs[h][x] \/ (P.proofs[x] = 0 /\ proofs[h][x] <= P.floor)
<1> DEFINE all == [s \in Subjects |-> IF s \in subjects THEN epoch + 1 ELSE proofs[h][s]]
           held == {s \in Subjects : all[s] # 0}
           overflow == Max({0, Cardinality(held) - MaxProofs})
           Fits(out) == /\ Cardinality(out) = overflow
                        /\ \A s \in out, r \in held \ out : all[s] <= all[r]
           out == CHOOSE out \in SUBSET held : Fits(out)
           top == Max({floor[h]} \cup {all[s] : s \in out})
           P == Proved(h, subjects)
<1>1. P = [proofs |-> [s \in Subjects |-> IF s \in out THEN 0 ELSE all[s]], floor |-> top]
  BY DEF Proved
<1>2. all \in [Subjects -> 0..(epoch + 1)] /\ floor[h] \in 0..epoch /\ MaxProofs \in Nat
  BY BoundAssumption DEF HistoryOK
<1>3. IsFiniteSet(held) /\ Cardinality(held) \in Nat
  <2>1. held \subseteq subjects \cup {x \in Subjects : proofs[h][x] # 0}
    OBVIOUS
  <2>2. IsFiniteSet(subjects \cup {x \in Subjects : proofs[h][x] # 0})
    BY FS_Union DEF HistoryOK
  <2>3. IsFiniteSet(held)
    BY <2>1, <2>2, FS_Subset
  <2> QED BY <2>3, FS_CardinalityType
<1>4. overflow \in Nat /\ overflow <= Cardinality(held) /\ Cardinality(held) - overflow <= MaxProofs
  <2> DEFINE n == Cardinality(held) - MaxProofs
  <2>1. n \in Int
    BY <1>2, <1>3
  <2>2. overflow = IF n <= 0 THEN 0 ELSE n
    <3>1. Max({0, n}) = IF n <= 0 THEN 0 ELSE n
      BY <2>1, MaxWithZero
    <3> QED BY <3>1
  <2> HIDE DEF overflow, held
  <2> QED BY <1>2, <1>3, <2>2
<1>5. out \in SUBSET held /\ Fits(out)
  <2> DEFINE f == [s \in held |-> all[s]]
  <2>1. f \in [held -> Int]
    BY <1>2
  <2>2. PICK o \in SUBSET held : /\ Cardinality(o) = overflow
                                 /\ \A s \in o, r \in held \ o : f[s] <= f[r]
    <3> HIDE DEF f, held, overflow
    <3> QED BY <1>3, <1>4, <2>1, SmallestSubsetExists
  <2>3. \A s \in o, r \in held \ o : all[s] <= all[r]
    <3> HIDE DEF all
    <3> QED BY <2>2
  <2>4. \E x \in SUBSET held : Fits(x)
    <3> HIDE DEF all, held, overflow
    <3> QED BY <2>2, <2>3
  <2> HIDE DEF all, held, overflow, Fits
  <2> QED BY <2>4
<1>6. IsFiniteSet(out) /\ Cardinality(out) = overflow
  <2> HIDE DEF held, overflow, out
  <2> QED BY <1>3, <1>5, FS_Subset
<1>7. top \in 0..(epoch + 1) /\ floor[h] <= top /\ \A s \in out : all[s] <= top
  <2> DEFINE M == {floor[h]} \cup {all[s] : s \in out}
  <2>3. M # {} /\ M \subseteq 0..(epoch + 1)
    <3>1. out \subseteq Subjects
      BY <1>5
    <3> HIDE DEF all, out
    <3> QED BY <1>2, <3>1
  <2>2. IsFiniteSet(M) /\ M \subseteq Int
    <3> HIDE DEF M
    <3>1. IsFiniteSet(0..(epoch + 1))
      BY FS_Interval
    <3>2. IsFiniteSet(M)
      BY <2>3, <3>1, FS_Subset
    <3> QED BY <2>3, <3>2
  <2>4. Max(M) \in M /\ \A j \in M : j <= Max(M)
    <3> HIDE DEF M
    <3> QED BY <2>2, <2>3, MaxIsGreatest
  <2>5. Max(M) \in 0..(epoch + 1)
    <3> HIDE DEF M
    <3> QED BY <2>3, <2>4
  <2> HIDE DEF all, out
  <2> QED BY <2>4, <2>5
<1>8. /\ P.floor = top /\ DOMAIN P.proofs = Subjects
      /\ \A x \in Subjects : P.proofs[x] = IF x \in out THEN 0 ELSE all[x]
  <2> HIDE DEF P, top, all, out
  <2> QED BY <1>1
<1>9. {x \in Subjects : P.proofs[x] # 0} = held \ out
  <2>1. \A x \in Subjects : P.proofs[x] # 0 <=> x \notin out /\ all[x] # 0
    <3> HIDE DEF P, all, out
    <3> QED BY <1>8
  <2> HIDE DEF P, all, out
  <2> QED BY <2>1
<1>10. Cardinality(held \ out) <= MaxProofs /\ IsFiniteSet(held \ out)
  <2>1. Cardinality(held \ out) = Cardinality(held) - Cardinality(held \cap out)
    <3> HIDE DEF held, out
    <3> QED BY <1>3, FS_Difference
  <2>2. held \cap out = out
    <3> HIDE DEF held, out
    <3> QED BY <1>5
  <2>3. IsFiniteSet(held \ out)
    <3> HIDE DEF held, out
    <3> QED BY <1>3, FS_Difference
  <2> HIDE DEF held, out, overflow
  <2> QED BY <2>1, <2>2, <2>3, <1>4, <1>6
<1>11. P.proofs \in [Subjects -> 0..(epoch + 1)]
  <2>1. P.proofs = [s \in Subjects |-> IF s \in out THEN 0 ELSE all[s]]
    <3> HIDE DEF P, top, all, out
    <3> QED BY <1>1
  <2>2. \A x \in Subjects : (IF x \in out THEN 0 ELSE all[x]) \in 0..(epoch + 1)
    <3> HIDE DEF all, out
    <3> QED BY <1>2
  <2> HIDE DEF P, all, out
  <2> QED BY <2>1, <2>2
<1>12. HistoryOK(P.proofs, P.floor, epoch + 1)
  <2> HIDE DEF P, all, out, top, held
  <2> QED BY <1>7, <1>8, <1>9, <1>10, <1>11 DEF HistoryOK
<1>13. \A x \in subjects : P.proofs[x] = epoch + 1 \/ epoch + 1 <= P.floor
  <2> SUFFICES ASSUME NEW x \in subjects
               PROVE  P.proofs[x] = epoch + 1 \/ epoch + 1 <= P.floor
    OBVIOUS
  <2>1. x \in Subjects /\ all[x] = epoch + 1
    OBVIOUS
  <2> HIDE DEF P, all, out, top
  <2> QED BY <2>1, <1>7, <1>8
<1>14. \A x \in Subjects \ subjects :
          P.proofs[x] = proofs[h][x] \/ (P.proofs[x] = 0 /\ proofs[h][x] <= P.floor)
  <2> SUFFICES ASSUME NEW x \in Subjects \ subjects
               PROVE  P.proofs[x] = proofs[h][x] \/ (P.proofs[x] = 0 /\ proofs[h][x] <= P.floor)
    OBVIOUS
  <2>1. x \in Subjects /\ all[x] = proofs[h][x]
    OBVIOUS
  <2> HIDE DEF P, all, out, top
  <2>2. P.proofs[x] = IF x \in out THEN 0 ELSE all[x]
    BY <2>1, <1>8
  <2>3. x \in out => all[x] <= P.floor
    BY <1>7, <1>8
  <2>4. CASE x \in out
    <3>1. P.proofs[x] = 0
      BY <2>2, <2>4
    <3>2. proofs[h][x] <= P.floor
      BY <2>1, <2>3, <2>4
    <3> QED BY <3>1, <3>2
  <2>5. CASE x \notin out
    BY <2>1, <2>2, <2>5
  <2> QED BY <2>4, <2>5
<1>15. floor[h] <= P.floor
  <2> HIDE DEF P, top
  <2> QED BY <1>7, <1>8
<1> HIDE DEF P
<1>16. /\ HistoryOK(P.proofs, P.floor, epoch + 1)
       /\ floor[h] <= P.floor
       /\ \A x \in subjects : P.proofs[x] = epoch + 1 \/ epoch + 1 <= P.floor
       /\ \A x \in Subjects \ subjects :
              P.proofs[x] = proofs[h][x] \/ (P.proofs[x] = 0 /\ proofs[h][x] <= P.floor)
  BY <1>12, <1>13, <1>14, <1>15
<1> QED BY <1>16 DEF P

\* The histories of known learn of its subjects: what was barred stays barred,
\* and what was asked for by now of one of the subjects is barred.
LEMMA SetProofsEffect ==
  ASSUME NEW known, DOMAIN known \subseteq History, CountsOK, HistoriesOK,
         \A h \in DOMAIN known : known[h] \subseteq Subjects /\ IsFiniteSet(known[h]),
         SetProofs(known), epoch' = epoch + 1
  PROVE  /\ HistoriesOK'
         /\ \A h \in History, x \in Subjects, e \in Nat : Barred(h, x, e) => Barred(h, x, e)'
         /\ \A h \in DOMAIN known : \A x \in known[h], e \in 0..epoch : Barred(h, x, e)'
         /\ \A h \in History \ DOMAIN known : proofs'[h] = proofs[h] /\ floor'[h] = floor[h]
         /\ \A h \in History, x \in Subjects :
                x \notin (IF h \in DOMAIN known THEN known[h] ELSE {}) =>
                    proofs'[h][x] = proofs[h][x] \/ proofs'[h][x] = 0
<1>1. epoch \in Nat /\ epoch' \in Nat
  BY DEF CountsOK
<1>2. /\ DOMAIN proofs' = History /\ DOMAIN floor' = History
      /\ \A h \in History \ DOMAIN known : proofs'[h] = proofs[h] /\ floor'[h] = floor[h]
      /\ \A h \in DOMAIN known : /\ proofs'[h] = Proved(h, known[h]).proofs
                                 /\ floor'[h] = Proved(h, known[h]).floor
  BY DEF SetProofs
<1>3. \A h \in History : HistoryOK(proofs[h], floor[h], epoch)
  BY DEF HistoriesOK
<1>4. ASSUME NEW h \in DOMAIN known
      PROVE  /\ HistoryOK(proofs'[h], floor'[h], epoch')
             /\ floor[h] <= floor'[h]
             /\ \A x \in known[h] : proofs'[h][x] = epoch + 1 \/ epoch + 1 <= floor'[h]
             /\ \A x \in Subjects \ known[h] :
                    proofs'[h][x] = proofs[h][x] \/ (proofs'[h][x] = 0 /\ proofs[h][x] <= floor'[h])
  <2>1. known[h] \subseteq Subjects /\ IsFiniteSet(known[h]) /\ HistoryOK(proofs[h], floor[h], epoch)
    BY <1>3
  <2>2. LET P == Proved(h, known[h])
        IN  /\ HistoryOK(P.proofs, P.floor, epoch + 1)
            /\ floor[h] <= P.floor
            /\ \A x \in known[h] : P.proofs[x] = epoch + 1 \/ epoch + 1 <= P.floor
            /\ \A x \in Subjects \ known[h] :
                   P.proofs[x] = proofs[h][x] \/ (P.proofs[x] = 0 /\ proofs[h][x] <= P.floor)
    BY <1>1, <2>1, ProvedEffect
  <2>3. proofs'[h] = Proved(h, known[h]).proofs /\ floor'[h] = Proved(h, known[h]).floor
    BY <1>2
  <2> QED BY <2>2, <2>3
<1>5. ASSUME NEW h \in History \ DOMAIN known
      PROVE  HistoryOK(proofs'[h], floor'[h], epoch')
  <2>1. proofs'[h] = proofs[h] /\ floor'[h] = floor[h] /\ HistoryOK(proofs[h], floor[h], epoch)
    BY <1>2, <1>3
  <2>2. proofs[h] \in [Subjects -> 0..epoch'] /\ floor[h] \in 0..epoch'
    <3>1. proofs[h] \in [Subjects -> 0..epoch] /\ floor[h] \in 0..epoch
      BY <2>1 DEF HistoryOK
    <3> QED BY <3>1, <1>1
  <2> QED BY <2>1, <2>2 DEF HistoryOK
<1>6. HistoriesOK'
  <2>1. \A h \in History : HistoryOK(proofs'[h], floor'[h], epoch')
    BY <1>4, <1>5
  <2>2. \A h \in History : HistoryOK(proofs[h], floor[h], epoch)'
    BY <2>1 DEF HistoryOK
  <2> QED BY <1>2, <2>2 DEF HistoriesOK
<1>7. ASSUME NEW h \in History
      PROVE  /\ floor[h] \in 0..epoch /\ proofs[h] \in [Subjects -> 0..epoch]
             /\ floor'[h] \in 0..epoch' /\ proofs'[h] \in [Subjects -> 0..epoch']
  BY <1>3, <1>4, <1>5 DEF HistoryOK
<1>8. ASSUME NEW h \in History, NEW x \in Subjects, NEW e \in Nat, Barred(h, x, e)
      PROVE  Barred(h, x, e)'
  <2>1. e < floor[h] \/ proofs[h][x] > e
    BY <1>8 DEF Barred
  <2>2. floor[h] \in Int /\ floor'[h] \in Int /\ proofs[h][x] \in 0..epoch /\ proofs'[h][x] \in Int
    BY <1>7
  <2>3. e < floor'[h] \/ proofs'[h][x] > e
    <3>1. CASE h \notin DOMAIN known
      BY <3>1, <1>2, <2>1
    <3>2. CASE h \in DOMAIN known
      <4>1. floor[h] <= floor'[h]
        BY <3>2, <1>4
      <4>2. CASE x \in known[h]
        <5>1. proofs'[h][x] = epoch + 1 \/ epoch + 1 <= floor'[h]
          BY <3>2, <4>2, <1>4
        <5> QED BY <5>1, <4>1, <2>1, <2>2, <1>1
      <4>3. CASE x \notin known[h]
        <5>1. proofs'[h][x] = proofs[h][x] \/ proofs[h][x] <= floor'[h]
          BY <3>2, <4>3, <1>4
        <5> QED BY <5>1, <4>1, <2>1, <2>2
      <4> QED BY <4>2, <4>3
    <3> QED BY <3>1, <3>2
  <2> QED BY <2>3 DEF Barred
<1>9. ASSUME NEW h \in DOMAIN known, NEW x \in known[h], NEW e \in 0..epoch
      PROVE  Barred(h, x, e)'
  <2>1. proofs'[h][x] = epoch + 1 \/ epoch + 1 <= floor'[h]
    BY <1>4
  <2>2. floor'[h] \in Int /\ proofs'[h][x] \in Int
    BY <1>7
  <2>3. e < floor'[h] \/ proofs'[h][x] > e
    BY <2>1, <2>2, <1>1
  <2> QED BY <2>3 DEF Barred
<1>10. ASSUME NEW h \in History, NEW x \in Subjects,
              x \notin (IF h \in DOMAIN known THEN known[h] ELSE {})
       PROVE  proofs'[h][x] = proofs[h][x] \/ proofs'[h][x] = 0
  <2>1. CASE h \notin DOMAIN known
    BY <2>1, <1>2
  <2>2. CASE h \in DOMAIN known
    <3>1. x \in Subjects \ known[h]
      BY <2>2, <1>10
    <3> QED BY <2>2, <3>1, <1>4
  <2> QED BY <2>1, <2>2
<1> QED BY <1>2, <1>6, <1>8, <1>9, <1>10

-----------------------------------------------------------------------------
(* The store: what its operations leave of an entry. *)

LEMMA StoreOutlives ==
  ASSUME NEW d, NEW e \in Nat, NEW f \in Nat, e <= f, StoreOK(d, e)
  PROVE  StoreOK(d, f)
<1> SUFFICES ASSUME NEW k \in DOMAIN d PROVE RecordOK(d[k], f)
  BY DEF StoreOK
<1>1. RecordOK(d[k], e)
  BY DEF StoreOK
<1>2. [DOMAIN d[k].seen -> 0..e] \subseteq [DOMAIN d[k].seen -> 0..f]
  <2>1. 0..e \subseteq 0..f
    OBVIOUS
  <2> QED BY <2>1
<1> QED BY <1>1, <1>2 DEF RecordOK

LEMMA RestrictStore ==
  ASSUME NEW d, NEW e, StoreOK(d, e), NEW S \in SUBSET DOMAIN d
  PROVE  /\ StoreOK(Restrict(d, S), e)
         /\ DOMAIN Restrict(d, S) = S
         /\ \A k \in S : Restrict(d, S)[k] = d[k]
<1> DEFINE r == Restrict(d, S)
<1>1. DOMAIN r = S /\ \A k \in S : r[k] = d[k]
  BY DEF Restrict
<1>2. IsFiniteSet(S)
  BY FS_Subset DEF StoreOK
<1>3. StoreOK(r, e)
  <2> HIDE DEF r
  <2> QED BY <1>1, <1>2 DEF StoreOK
<1> QED BY <1>1, <1>3

LEMMA WithStore ==
  ASSUME NEW d, NEW e, StoreOK(d, e), NEW k, NEW entry,
         KeyOK(k), RecordOK(entry, e), ScopesOK(k, entry)
  PROVE  /\ StoreOK(With(d, k, entry), e)
         /\ DOMAIN With(d, k, entry) = DOMAIN d \cup {k}
         /\ With(d, k, entry)[k] = entry
         /\ \A j \in DOMAIN d \ {k} : With(d, k, entry)[j] = d[j]
<1> DEFINE r == With(d, k, entry)
<1>1. DOMAIN r = DOMAIN d \cup {k} /\ r[k] = entry /\ \A j \in DOMAIN d \ {k} : r[j] = d[j]
  BY DEF With
<1>2. IsFiniteSet(DOMAIN d \cup {k})
  BY FS_AddElement DEF StoreOK
<1>3. StoreOK(r, e)
  <2> SUFFICES ASSUME NEW j \in DOMAIN r
               PROVE  KeyOK(j) /\ RecordOK(r[j], e) /\ ScopesOK(j, r[j])
    BY <1>1, <1>2 DEF StoreOK
  <2> HIDE DEF r
  <2>1. CASE j = k
    BY <2>1, <1>1
  <2>2. CASE j # k
    <3>1. j \in DOMAIN d /\ r[j] = d[j]
      BY <2>2, <1>1
    <3> QED BY <3>1 DEF StoreOK
  <2> QED BY <2>1, <2>2
<1> QED BY <1>1, <1>3

LEMMA CappedStore ==
  ASSUME NEW d, NEW e, StoreOK(d, e), NEW r \in Capped(d)
  PROVE  /\ StoreOK(r, e)
         /\ Cardinality(DOMAIN r) <= MaxEntries
         /\ DOMAIN r \subseteq DOMAIN d
         /\ \A k \in DOMAIN r : r[k] = d[k]
<1> DEFINE overflow == Max({0, Cardinality(DOMAIN d) - MaxEntries})
<1>1. PICK out \in SUBSET DOMAIN d : Cardinality(out) = overflow /\ r = Restrict(d, DOMAIN d \ out)
  BY DEF Capped
<1>2. /\ StoreOK(r, e) /\ DOMAIN r = DOMAIN d \ out
      /\ \A k \in DOMAIN r : r[k] = d[k]
  BY <1>1, RestrictStore
<1>3. IsFiniteSet(DOMAIN d) /\ Cardinality(DOMAIN d) \in Nat /\ MaxEntries \in Nat
  BY FS_CardinalityType, BoundAssumption DEF StoreOK
<1>4. Cardinality(DOMAIN d \ out) = Cardinality(DOMAIN d) - overflow
  <2>1. DOMAIN d \cap out = out
    BY <1>1
  <2>2. Cardinality(DOMAIN d \ out) = Cardinality(DOMAIN d) - Cardinality(DOMAIN d \cap out)
    BY <1>3, FS_Difference
  <2> HIDE DEF overflow
  <2> QED BY <1>1, <2>1, <2>2
<1>5. Cardinality(DOMAIN d) - overflow <= MaxEntries
  <2> DEFINE n == Cardinality(DOMAIN d) - MaxEntries
  <2>1. n \in Int
    BY <1>3
  <2>2. Max({0, n}) = IF n <= 0 THEN 0 ELSE n
    <3> HIDE DEF n
    <3> QED BY <2>1, MaxWithZero
  <2>3. overflow = IF n <= 0 THEN 0 ELSE n
    BY <2>2
  <2> HIDE DEF overflow
  <2> QED BY <1>3, <2>3
<1> QED BY <1>2, <1>4, <1>5

\* Older ranks lose their private scopes, and nothing else changes.
\* A store in which what older rank entries of an identity said of scopes is hidden.
RanksHidden(d, r, id, scopes, c) ==
    /\ DOMAIN r = DOMAIN d
    /\ \A k \in DOMAIN d : k.kind # "rank" => r[k] = d[k]
    /\ \A k \in DOMAIN d :
           /\ r[k].clock = d[k].clock /\ DOMAIN r[k].seen = DOMAIN d[k].seen
           /\ \A s \in DOMAIN d[k].seen : r[k].seen[s].state = "public" =>
                 /\ r[k].seen[s] = d[k].seen[s]
                 /\ k.kind = "rank" /\ k.id = id /\ s \in scopes =>
                       \E x \in DOMAIN d[k].clock : ~ (d[k].clock[x] <= c)

LEMMA RetractRanksStore ==
  ASSUME NEW d, NEW e, StoreOK(d, e), NEW id, NEW scopes, NEW c \in Nat, NEW t \in Times
  PROVE  /\ StoreOK(RetractRanks(d, id, scopes, c, t), e)
         /\ RanksHidden(d, RetractRanks(d, id, scopes, c, t), id, scopes, c)
<1> DEFINE r == RetractRanks(d, id, scopes, c, t)
           Old(k) == k.kind = "rank" /\ k.id = id /\ \A s \in DOMAIN d[k].clock : d[k].clock[s] <= c
           hidden(k) == [s \in DOMAIN d[k].seen |->
               IF s \in scopes THEN [state |-> "private", time |-> t] ELSE d[k].seen[s]]
<1>1. /\ DOMAIN r = DOMAIN d
      /\ \A k \in DOMAIN d : r[k] = IF Old(k) THEN [d[k] EXCEPT !.seen = hidden(k)] ELSE d[k]
  BY DEF RetractRanks
<1>2. \A k \in DOMAIN d : KeyOK(k) /\ RecordOK(d[k], e) /\ ScopesOK(k, d[k])
  BY DEF StoreOK
<1>3. ASSUME NEW k \in DOMAIN d
      PROVE  /\ DOMAIN hidden(k) = DOMAIN d[k].seen
             /\ hidden(k) \in [DOMAIN d[k].seen -> Seen]
             /\ \A s \in DOMAIN d[k].seen :
                   /\ s \in scopes => hidden(k)[s].state = "private"
                   /\ s \notin scopes => hidden(k)[s] = d[k].seen[s]
  <2>1. d[k].seen \in [DOMAIN d[k].seen -> Seen]
    BY <1>2 DEF RecordOK
  <2>2. [state |-> "private", time |-> t] \in Seen
    BY DEF Seen, Times
  <2> QED BY <2>1, <2>2
<1>4. ASSUME NEW k \in DOMAIN d
      PROVE  /\ KeyOK(k) /\ RecordOK(r[k], e) /\ ScopesOK(k, r[k])
             /\ k.kind # "rank" => r[k] = d[k]
             /\ r[k].clock = d[k].clock /\ DOMAIN r[k].seen = DOMAIN d[k].seen
             /\ \A s \in DOMAIN d[k].seen : r[k].seen[s].state = "public" =>
                   /\ r[k].seen[s] = d[k].seen[s]
                   /\ k.kind = "rank" /\ k.id = id /\ s \in scopes =>
                         \E x \in DOMAIN d[k].clock : ~ (d[k].clock[x] <= c)
  <2>1. CASE ~Old(k)
    <3>1. r[k] = d[k]
      BY <2>1, <1>1
    <3> HIDE DEF r
    <3> QED BY <3>1, <2>1, <1>2
  <2>2. CASE Old(k)
    <3>1. r[k] = [d[k] EXCEPT !.seen = hidden(k)]
      BY <2>2, <1>1
    <3>2. d[k] \in [at : 1..MaxAnswers, clock : [DOMAIN d[k].seen -> 0..e], seen : [DOMAIN d[k].seen -> Seen]]
      BY <1>2 DEF RecordOK
    <3>3. /\ r[k].seen = hidden(k) /\ r[k].clock = d[k].clock
          /\ r[k] \in [at : 1..MaxAnswers, clock : [DOMAIN d[k].seen -> 0..e], seen : [DOMAIN d[k].seen -> Seen]]
      <4>1. hidden(k) \in [DOMAIN d[k].seen -> Seen]
        BY <1>3
      <4> HIDE DEF r, hidden
      <4> QED BY <3>1, <3>2, <4>1
    <3>4. DOMAIN r[k].seen = DOMAIN d[k].seen
      <4>1. DOMAIN hidden(k) = DOMAIN d[k].seen
        BY <1>3
      <4> HIDE DEF r, hidden
      <4> QED BY <3>3, <4>1
    <3>5. k.kind = "rank"
      BY <2>2
    <3>6. KeyOK(k) /\ RecordOK(r[k], e) /\ ScopesOK(k, r[k])
      <4>1. RecordOK(r[k], e)
        <5> HIDE DEF r, hidden
        <5> QED BY <3>3, <3>4 DEF RecordOK
      <4>2. ScopesOK(k, r[k])
        <5> HIDE DEF r, hidden
        <5> QED BY <3>4, <3>5, <1>2 DEF ScopesOK, Absent
      <4> QED BY <4>1, <4>2, <1>2
    <3>7. ASSUME NEW s \in DOMAIN d[k].seen, r[k].seen[s].state = "public"
          PROVE  r[k].seen[s] = d[k].seen[s] /\ s \notin scopes
      <4>1. /\ s \in scopes => hidden(k)[s].state = "private"
            /\ s \notin scopes => hidden(k)[s] = d[k].seen[s]
        BY <1>3
      <4> HIDE DEF r, hidden
      <4> QED BY <3>3, <3>7, <4>1
    <3> HIDE DEF r, hidden
    <3> QED BY <3>3, <3>4, <3>5, <3>6, <3>7
  <2> QED BY <2>1, <2>2
<1>5. StoreOK(r, e)
  <2> HIDE DEF r
  <2> QED BY <1>1, <1>4 DEF StoreOK
<1> HIDE DEF r, Old, hidden
<1>6. RanksHidden(d, r, id, scopes, c)
  BY <1>1, <1>4 DEF RanksHidden
<1> QED BY <1>5, <1>6 DEF r

\* Older details of the scopes become private at the next clock, and so does an
\* entry of its own for each of them.
\* A store in which what older detail entries of an identity said of scopes is
\* hidden, with entries of its own for what hides it.
DetailsHidden(d, r, id, scopes, c) ==
    /\ \A k \in DOMAIN r : k.kind # "detail" => k \in DOMAIN d /\ r[k] = d[k]
    /\ \A k \in DOMAIN d : k.kind # "detail" => k \in DOMAIN r
    /\ \A k \in DOMAIN r : \A s \in DOMAIN r[k].seen : r[k].seen[s].state = "public" =>
          /\ k \in DOMAIN d /\ s \in DOMAIN d[k].seen
          /\ r[k].seen[s] = d[k].seen[s]
          /\ k.kind = "detail" /\ k.id = id /\ s \in scopes => ~ (d[k].clock[s] <= c)

LEMMA RetractDetailsStore ==
  ASSUME NEW d, StoreOK(d, epoch + 1), epoch \in Nat, puts + 1 \in 1..MaxAnswers,
         NEW id \in Identities, NEW scopes \in SUBSET RaidScopes, NEW c \in Nat, NEW t \in Times
  PROVE  /\ StoreOK(RetractDetails(d, id, scopes, c, t), epoch + 1)
         /\ DetailsHidden(d, RetractDetails(d, id, scopes, c, t), id, scopes, c)
<1> DEFINE r == RetractDetails(d, id, scopes, c, t)
           gone == [state |-> "private", time |-> t]
           hidden(k) == {s \in scopes \cap DOMAIN d[k].seen : d[k].clock[s] <= c}
           seen(k) == [s \in DOMAIN d[k].seen |-> IF s \in hidden(k) THEN gone ELSE d[k].seen[s]]
           clock(k) == [s \in DOMAIN d[k].clock |-> IF s \in hidden(k) THEN epoch + 1 ELSE d[k].clock[s]]
           Mine(k) == k.kind = "detail" /\ k.id = id
           owned == {Key("detail", id, {s}) : s \in scopes}
           own == [k \in owned |-> [at |-> puts + 1,
                                    clock |-> [s \in k.prefs |-> epoch + 1],
                                    seen |-> [s \in k.prefs |-> gone]]]
           left == [k \in DOMAIN d |->
                      IF Mine(k) THEN [d[k] EXCEPT !.seen = seen(k), !.clock = clock(k)] ELSE d[k]]
<1>1. r = [k \in DOMAIN d \cup owned |-> IF k \in owned THEN own[k] ELSE left[k]]
  <2>1. DOMAIN own = owned
    OBVIOUS
  <2> QED BY <2>1 DEF RetractDetails
<1>2. /\ DOMAIN r = DOMAIN d \cup owned
      /\ \A k \in owned : r[k] = own[k]
      /\ \A k \in DOMAIN d \ owned : r[k] = left[k]
  <2> HIDE DEF r, own, left, owned
  <2> QED BY <1>1
<1>3. \A k \in DOMAIN d : KeyOK(k) /\ RecordOK(d[k], epoch + 1) /\ ScopesOK(k, d[k])
  BY DEF StoreOK
<1>4. gone \in Seen /\ gone.state = "private"
  BY DEF Seen, Times
<1>5. ASSUME NEW k \in owned
      PROVE  /\ KeyOK(k) /\ RecordOK(r[k], epoch + 1) /\ ScopesOK(k, r[k]) /\ k.kind = "detail"
             /\ \A s \in DOMAIN r[k].seen : r[k].seen[s].state = "private"
  <2>1. PICK x \in scopes : k = Key("detail", id, {x})
    OBVIOUS
  <2>2. k.kind = "detail" /\ k.id = id /\ k.prefs = {x} /\ x \in Scopes /\ x \in RaidScopes
    BY <2>1, ScopeAssumption DEF Key
  <2>3. k \in RowKeys
    <3>1. Key("detail", id, {x}) \in [kind : {"rank", "detail"}, id : Identities, prefs : SUBSET Scopes]
      BY <2>2 DEF Key
    <3> QED BY <3>1, <2>1 DEF RowKeys
  <2>4. r[k] = [at |-> puts + 1, clock |-> [s \in {x} |-> epoch + 1], seen |-> [s \in {x} |-> gone]]
    <3>1. own[k] = [at |-> puts + 1, clock |-> [s \in k.prefs |-> epoch + 1],
                    seen |-> [s \in k.prefs |-> gone]]
      OBVIOUS
    <3>2. r[k] = own[k]
      BY <1>2
    <3> HIDE DEF r, own
    <3> QED BY <3>1, <3>2, <2>2
  <2> HIDE DEF r, gone
  <2>5. DOMAIN r[k].seen = {x} /\ r[k].seen[x] = gone
    BY <2>4
  <2>6. RecordOK(r[k], epoch + 1)
    <3>1. [s \in {x} |-> epoch + 1] \in [{x} -> 0..(epoch + 1)] /\ [s \in {x} |-> gone] \in [{x} -> Seen]
      BY <1>4
    <3>2. r[k] \in [at : 1..MaxAnswers, clock : [{x} -> 0..(epoch + 1)], seen : [{x} -> Seen]]
      BY <2>4, <3>1
    <3> QED BY <3>2, <2>5 DEF RecordOK
  <2>7. ScopesOK(k, r[k])
    BY <2>2, <2>5 DEF ScopesOK, Absent
  <2> QED BY <2>2, <2>3, <2>5, <2>6, <2>7, <1>4 DEF KeyOK
<1>6. ASSUME NEW k \in DOMAIN d \ owned
      PROVE  /\ KeyOK(k) /\ RecordOK(r[k], epoch + 1) /\ ScopesOK(k, r[k])
             /\ k.kind # "detail" => r[k] = d[k]
             /\ \A s \in DOMAIN r[k].seen : r[k].seen[s].state = "public" =>
                   /\ s \in DOMAIN d[k].seen /\ r[k].seen[s] = d[k].seen[s]
                   /\ Mine(k) /\ s \in scopes => ~ (d[k].clock[s] <= c)
  <2>0. r[k] = IF Mine(k) THEN [d[k] EXCEPT !.seen = seen(k), !.clock = clock(k)] ELSE d[k]
    <3>1. r[k] = left[k]
      BY <1>2
    <3>2. left[k] = IF Mine(k) THEN [d[k] EXCEPT !.seen = seen(k), !.clock = clock(k)] ELSE d[k]
      OBVIOUS
    <3> HIDE DEF r, left, seen, clock
    <3> QED BY <3>1, <3>2
  <2>1. CASE ~Mine(k)
    <3>1. r[k] = d[k]
      BY <2>0, <2>1
    <3> HIDE DEF r
    <3> QED BY <3>1, <2>1, <1>3
  <2>2. CASE Mine(k)
    <3> DEFINE D == DOMAIN d[k].seen
    <3>1. d[k] \in [at : 1..MaxAnswers, clock : [D -> 0..(epoch + 1)], seen : [D -> Seen]]
      BY <1>3 DEF RecordOK
    <3>2. seen(k) \in [D -> Seen] /\ clock(k) \in [D -> 0..(epoch + 1)]
      <4>1. d[k].seen \in [D -> Seen] /\ d[k].clock \in [D -> 0..(epoch + 1)] /\ DOMAIN d[k].clock = D
        BY <3>1
      <4>2. epoch + 1 \in 0..(epoch + 1)
        OBVIOUS
      <4>3. \A s \in D : (IF s \in hidden(k) THEN gone ELSE d[k].seen[s]) \in Seen
        <5> HIDE DEF gone, hidden
        <5> QED BY <1>4, <4>1
      <4>4. \A s \in D : (IF s \in hidden(k) THEN epoch + 1 ELSE d[k].clock[s]) \in 0..(epoch + 1)
        <5> HIDE DEF hidden
        <5> QED BY <4>1, <4>2
      <4> HIDE DEF gone, hidden
      <4> QED BY <4>1, <4>3, <4>4
    <3>3. r[k] = [d[k] EXCEPT !.seen = seen(k), !.clock = clock(k)]
      BY <2>0, <2>2
    <3>4. r[k] = [at |-> d[k].at, clock |-> clock(k), seen |-> seen(k)] /\ d[k].at \in 1..MaxAnswers
      <4> HIDE DEF r, clock, seen, D
      <4> QED BY <3>1, <3>3
    <3>5. r[k].seen = seen(k) /\ DOMAIN r[k].seen = D
      <4>1. r[k].seen = seen(k)
        <5> HIDE DEF r, clock, seen, D
        <5> QED BY <3>4
      <4>2. DOMAIN seen(k) = D
        OBVIOUS
      <4> HIDE DEF r, seen, D
      <4> QED BY <4>1, <4>2
    <3>6. RecordOK(r[k], epoch + 1)
      <4>1. r[k] \in [at : 1..MaxAnswers, clock : [D -> 0..(epoch + 1)], seen : [D -> Seen]]
        <5> HIDE DEF r, clock, seen, D
        <5> QED BY <3>4, <3>2
      <4> HIDE DEF r, clock, seen, D
      <4> QED BY <4>1, <3>5 DEF RecordOK
    <3>7. ScopesOK(k, r[k])
      <4>1. k.kind = "detail" /\ ScopesOK(k, d[k])
        BY <2>2, <1>3
      <4> HIDE DEF r, seen
      <4> QED BY <4>1, <3>5 DEF ScopesOK, Absent
    <3>8. ASSUME NEW s \in DOMAIN r[k].seen, r[k].seen[s].state = "public"
          PROVE  s \in D /\ r[k].seen[s] = d[k].seen[s] /\ (s \in scopes => ~ (d[k].clock[s] <= c))
      <4>1. s \in D /\ r[k].seen[s] = seen(k)[s]
        <5> HIDE DEF r, seen, D
        <5> QED BY <3>5
      <4>2. seen(k)[s] = IF s \in hidden(k) THEN gone ELSE d[k].seen[s]
        BY <4>1
      <4>3. s \notin hidden(k)
        <5> HIDE DEF r, seen, D, hidden
        <5> QED BY <4>1, <4>2, <3>8, <1>4
      <4>4. r[k].seen[s] = d[k].seen[s]
        <5> HIDE DEF r, seen, D, hidden
        <5> QED BY <4>1, <4>2, <4>3
      <4>5. s \in scopes => ~ (d[k].clock[s] <= c)
        BY <4>1, <4>3
      <4> HIDE DEF r, seen, hidden, D
      <4> QED BY <4>1, <4>4, <4>5
    <3>9. KeyOK(k) /\ k.kind = "detail"
      BY <1>3, <2>2
    <3>10. \A s \in DOMAIN r[k].seen : r[k].seen[s].state = "public" =>
              s \in D /\ r[k].seen[s] = d[k].seen[s] /\ (s \in scopes => ~ (d[k].clock[s] <= c))
      BY <3>8
    <3> HIDE DEF r
    <3> QED BY <3>6, <3>7, <3>9, <3>10
  <2> QED BY <2>1, <2>2
<1>7. IsFiniteSet(DOMAIN r)
  <2>1. owned = {k \in owned : TRUE} /\ IsFiniteSet(owned)
    <3> DEFINE F == [s \in scopes |-> Key("detail", id, {s})]
    <3>1. IsFiniteSet(scopes)
      BY FS_Subset, ScopeAssumption
    <3>2. F \in Surjection(scopes, owned)
      BY DEF Surjection
    <3>3. IsFiniteSet(owned)
      <4> HIDE DEF F, owned
      <4> QED BY <3>1, <3>2, FS_Surjection
    <3> QED BY <3>3
  <2>2. IsFiniteSet(DOMAIN d \cup owned)
    <3> HIDE DEF owned
    <3> QED BY <2>1, FS_Union DEF StoreOK
  <2> HIDE DEF r, owned
  <2> QED BY <1>2, <2>2
<1>8. StoreOK(r, epoch + 1)
  <2> HIDE DEF r, owned, Mine
  <2> QED BY <1>2, <1>5, <1>6, <1>7 DEF StoreOK
<1>9. \A k \in DOMAIN r : k.kind # "detail" => k \in DOMAIN d /\ r[k] = d[k]
  <2> HIDE DEF r, owned, Mine
  <2> QED BY <1>2, <1>5, <1>6
<1>10. \A k \in DOMAIN d : k.kind # "detail" => k \in DOMAIN r
  <2> HIDE DEF r, owned, Mine
  <2> QED BY <1>2
<1>11. ASSUME NEW k \in DOMAIN r, NEW s \in DOMAIN r[k].seen, r[k].seen[s].state = "public"
       PROVE  /\ k \in DOMAIN d /\ s \in DOMAIN d[k].seen
              /\ r[k].seen[s] = d[k].seen[s]
              /\ k.kind = "detail" /\ k.id = id /\ s \in scopes => ~ (d[k].clock[s] <= c)
  <2> HIDE DEF r, owned
  <2>1. k \notin owned
    BY <1>5, <1>11
  <2>2. k \in DOMAIN d \ owned
    BY <2>1, <1>2
  <2> QED BY <2>2, <1>6, <1>11
<1> HIDE DEF r
<1>12. DetailsHidden(d, r, id, scopes, c)
  BY <1>9, <1>10, <1>11 DEF DetailsHidden
<1> QED BY <1>8, <1>12 DEF r

-----------------------------------------------------------------------------
(* Reading. *)

LEMMA QuestionFacts ==
  ASSUME NEW q \in Questions
  PROVE  /\ q.kind \in {"rank", "detail"} /\ q.id \in Identities /\ q.id[1] \in Characters
         /\ q.prefs \in SUBSET Scopes /\ q.prefs \in Preferences
         /\ Selected(q.kind, q.prefs) \subseteq q.prefs
         /\ Selected(q.kind, q.prefs) # {}
<1>1. /\ q.kind \in {"rank", "detail"} /\ q.id \in Identities /\ q.prefs \in Preferences
      /\ Selected(q.kind, q.prefs) # {}
  BY DEF Questions
<1>2. q.id[1] \in Characters
  BY <1>1 DEF Identities
<1>3. q.prefs \in SUBSET Scopes
  BY <1>1, ScopeAssumption
<1>4. Selected(q.kind, q.prefs) \subseteq q.prefs
  BY DEF Selected
<1> QED BY <1>1, <1>2, <1>3, <1>4

LEMMA NewestExists ==
  ASSUME NEW e \in Nat, StoreOK(data, e), NEW keys \in SUBSET DOMAIN data, keys # {}
  PROVE  Newest(keys) \in keys
<1> DEFINE f == [k \in keys |-> data[k].at]
<1>1. f \in [keys -> Int]
  <2>1. ASSUME NEW k \in keys PROVE data[k].at \in Int
    <3>1. data[k] \in [at : 1..MaxAnswers, clock : [DOMAIN data[k].seen -> 0..e],
                       seen : [DOMAIN data[k].seen -> Seen]]
      BY DEF StoreOK, RecordOK
    <3>2. data[k].at \in 1..MaxAnswers
      BY <3>1
    <3> QED BY <3>2
  <2> QED BY <2>1
<1>2. IsFiniteSet(keys)
  BY FS_Subset DEF StoreOK
<1>3. PICK k \in keys : \A j \in keys : f[j] <= f[k]
  <2> HIDE DEF f
  <2> QED BY <1>1, <1>2, GreatestExists
<1>4. \A j \in keys : data[j].at <= data[k].at
  BY <1>3
<1> QED BY <1>4 DEF Newest

LEMMA WinnerExists ==
  ASSUME NEW e \in Nat, StoreOK(data, e), NEW id, NEW s, DetailKeys(id, s) # {}
  PROVE  Winner(id, s) \in DetailKeys(id, s)
<1> DEFINE keys == DetailKeys(id, s)
           f == [k \in keys |-> data[k].clock[s]]
<1>1. ASSUME NEW k \in keys PROVE data[k].clock[s] \in Int /\ data[k].at \in Int
  <2>1. data[k] \in [at : 1..MaxAnswers, clock : [DOMAIN data[k].seen -> 0..e],
                     seen : [DOMAIN data[k].seen -> Seen]]
    BY DEF StoreOK, RecordOK, DetailKeys
  <2>2. s \in DOMAIN data[k].seen
    BY DEF DetailKeys
  <2>3. data[k].at \in 1..MaxAnswers /\ data[k].clock[s] \in 0..e
    BY <2>1, <2>2
  <2> QED BY <2>3
<1>2. IsFiniteSet(keys) /\ keys # {}
  <2>1. keys \subseteq DOMAIN data
    BY DEF DetailKeys
  <2> HIDE DEF keys
  <2>2. IsFiniteSet(keys)
    BY <2>1, FS_Subset DEF StoreOK
  <2> QED BY <2>2 DEF keys
<1>3. PICK k \in keys : \A j \in keys : f[j] <= f[k]
  <2>1. f \in [keys -> Int]
    BY <1>1
  <2> HIDE DEF f, keys
  <2> QED BY <2>1, <1>2, GreatestExists
<1> DEFINE best == {j \in keys : data[j].clock[s] = data[k].clock[s]}
           g == [j \in best |-> data[j].at]
<1>4. IsFiniteSet(best) /\ best # {}
  <2>1. IsFiniteSet(best)
    <3>1. best \subseteq keys
      OBVIOUS
    <3> HIDE DEF keys, best
    <3> QED BY <1>2, <3>1, FS_Subset
  <2>2. k \in best
    BY <1>3
  <2> QED BY <2>1, <2>2
<1>5. PICK w \in best : \A j \in best : g[j] <= g[w]
  <2>1. g \in [best -> Int]
    BY <1>1
  <2> HIDE DEF g, best
  <2> QED BY <2>1, <1>4, GreatestExists
<1>6. w \in keys /\ data[w].clock[s] = data[k].clock[s]
  BY <1>5
<1>7. ASSUME NEW j \in keys PROVE Wins(w, j, s)
  <2>1. data[j].clock[s] <= data[k].clock[s]
    BY <1>3
  <2>2. data[j].clock[s] \in Int /\ data[k].clock[s] \in Int
    BY <1>1, <1>3
  <2>3. CASE data[j].clock[s] < data[k].clock[s]
    BY <2>3, <1>6 DEF Wins
  <2>4. CASE data[j].clock[s] = data[k].clock[s]
    <3>1. j \in best
      BY <2>4
    <3>2. data[j].at <= data[w].at
      BY <3>1, <1>5
    <3> QED BY <3>2, <2>4, <1>6 DEF Wins
  <2> QED BY <2>1, <2>2, <2>3, <2>4
<1> HIDE DEF best, g
<1>8. \E x \in DetailKeys(id, s) : \A j \in DetailKeys(id, s) : Wins(x, j, s)
  BY <1>6, <1>7
<1> QED BY <1>8 DEF Winner

\* The clock and what was seen of an entry.
LEMMA EntryFacts ==
  ASSUME NEW e \in Nat, StoreOK(data, e), NEW k \in DOMAIN data
  PROVE  /\ KeyOK(k) /\ ScopesOK(k, data[k])
         /\ \A s \in DOMAIN data[k].seen : data[k].clock[s] \in 0..e /\ data[k].seen[s] \in Seen
         /\ DOMAIN data[k].clock = DOMAIN data[k].seen
<1>1. KeyOK(k) /\ ScopesOK(k, data[k]) /\ RecordOK(data[k], e)
  BY DEF StoreOK
<1>2. data[k].clock \in [DOMAIN data[k].seen -> 0..e] /\ data[k].seen \in [DOMAIN data[k].seen -> Seen]
  BY <1>1 DEF RecordOK
<1> QED BY <1>1, <1>2

\* What a reader is given is evidence that stands, with a clock that has been.
LEMMA ReadIsClean ==
  ASSUME CountsOK, StoreOK(data, epoch), StoreClean, NEW q \in Questions
  PROVE  /\ Items(q, Read(q)) \subseteq answered \ withdrawn
         /\ Read(q) = Nothing \/ ResultOK(q, Read(q), ReadClock(q))
<1> DEFINE c == q.id[1]
           absent == AbsentKey(c)
           selected == Selected(q.kind, q.prefs)
           ranks == RankKeys(q.id, q.prefs)
<1>0. /\ q.kind \in {"rank", "detail"} /\ q.id \in Identities /\ c \in Characters
      /\ selected \subseteq q.prefs
  BY QuestionFacts
<1>1. epoch \in Nat
  BY DEF CountsOK
<1>2. Items(q, Nothing) = {}
  BY DEF Items, Nothing, Absent
<1>3. CASE absent \in DOMAIN data /\ q.kind = "rank"
  <2> DEFINE t == data[absent].seen[Absent].time
  <2>1. Read(q) = IsAbsent(t)
    BY <1>3 DEF Read
  <2>2. absent.kind = Absent /\ absent.id = c
    BY DEF AbsentKey, Key
  <2>3. DOMAIN data[absent].seen = {Absent} /\ data[absent].seen[Absent].state = "public"
    BY <1>1, <1>3, <2>2, EntryFacts DEF ScopesOK
  <2>4. Piece(Absent, c, Absent, t) \in answered \ withdrawn
    BY <1>3, <2>2, <2>3 DEF StoreClean
  <2>5. Items(q, IsAbsent(t)) = {Piece(Absent, c, Absent, t)}
    BY DEF Items, IsAbsent, Piece
  <2>6. ReadClock(q) = data[absent].clock
    BY <1>3 DEF ReadClock
  <2>7. data[absent].clock[Absent] \in 0..epoch
    BY <1>1, <1>3, <2>3, EntryFacts
  <2>8. ResultOK(q, IsAbsent(t), data[absent].clock)
    BY <2>7 DEF ResultOK, IsAbsent
  <2> QED BY <2>1, <2>4, <2>5, <2>6, <2>8
<1>4. CASE absent \in DOMAIN data /\ q.kind # "rank"
  BY <1>2, <1>4 DEF Read
<1>5. CASE absent \notin DOMAIN data /\ q.kind = "rank"
  <2>1. CASE ranks = {}
    BY <1>2, <1>5, <2>1 DEF Read
  <2>2. CASE ranks # {}
    <3> DEFINE k == Newest(ranks)
               seen == [s \in selected |-> data[k].seen[s]]
    <3>1. k \in ranks
      <4>1. ranks \in SUBSET DOMAIN data
        BY DEF RankKeys
      <4> QED BY <1>1, <2>2, <4>1, NewestExists
    <3>2. k \in DOMAIN data /\ k.kind = "rank" /\ k.id = q.id /\ q.prefs \subseteq k.prefs
      BY <3>1 DEF RankKeys
    <3>3. DOMAIN data[k].seen = k.prefs
      BY <1>1, <3>2, EntryFacts DEF ScopesOK
    <3>4. Read(q) = Rows(seen)
      BY <1>5, <2>2 DEF Read
    <3>5. ASSUME NEW i \in Items(q, Rows(seen)) PROVE i \in answered \ withdrawn
      <4>1. PICK s \in selected : /\ seen[s].state = "public"
                                  /\ i = Piece(q.kind, q.id, s, seen[s].time)
        BY <3>5 DEF Items, Rows, Piece, Absent
      <4>2. seen[s] = data[k].seen[s] /\ s \in DOMAIN data[k].seen
        BY <3>2, <3>3, <1>0
      <4> HIDE DEF seen
      <4>3. Piece(k.kind, k.id, s, data[k].seen[s].time) \in answered \ withdrawn
        BY <4>1, <4>2, <3>2 DEF StoreClean
      <4> QED BY <4>1, <4>2, <4>3, <3>2, <1>5
    <3>6. ReadClock(q) = [s \in selected |-> epoch]
      BY <1>5 DEF ReadClock
    <3>7. ResultOK(q, Rows(seen), [s \in selected |-> epoch])
      <4>1. Rows(seen).found = "rows" /\ Rows(seen).seen = seen /\ DOMAIN seen = selected
        BY DEF Rows
      <4>2. \A s \in selected : [x \in selected |-> epoch][s] \in 0..epoch
        BY <1>1
      <4> HIDE DEF seen
      <4> QED BY <4>1, <4>2 DEF ResultOK
    <3> QED BY <3>4, <3>5, <3>6, <3>7
  <2> QED BY <2>1, <2>2
<1>6. CASE absent \notin DOMAIN data /\ q.kind # "rank"
  <2>1. CASE \E s \in selected : DetailKeys(q.id, s) = {}
    BY <1>2, <1>6, <2>1 DEF Read
  <2>2. CASE ~ \E s \in selected : DetailKeys(q.id, s) = {}
    <3> DEFINE seen == [s \in selected |-> data[Winner(q.id, s)].seen[s]]
               clock == [s \in selected |-> data[Winner(q.id, s)].clock[s]]
    <3>1. ASSUME NEW s \in selected
          PROVE  /\ Winner(q.id, s) \in DOMAIN data /\ Winner(q.id, s).kind = "detail"
                 /\ Winner(q.id, s).id = q.id /\ s \in DOMAIN data[Winner(q.id, s)].seen
      <4>1. Winner(q.id, s) \in DetailKeys(q.id, s)
        BY <1>1, <2>2, WinnerExists
      <4> QED BY <4>1 DEF DetailKeys
    <3>2. Read(q) = Rows(seen)
      BY <1>6, <2>2 DEF Read
    <3>3. ASSUME NEW i \in Items(q, Rows(seen)) PROVE i \in answered \ withdrawn
      <4>1. PICK s \in selected : /\ seen[s].state = "public"
                                  /\ i = Piece(q.kind, q.id, s, seen[s].time)
        BY <3>3 DEF Items, Rows, Piece, Absent
      <4> DEFINE k == Winner(q.id, s)
      <4>2. seen[s] = data[k].seen[s]
        OBVIOUS
      <4>3. k \in DOMAIN data /\ k.kind = "detail" /\ k.id = q.id /\ s \in DOMAIN data[k].seen
        BY <3>1
      <4> HIDE DEF seen, k
      <4>4. Piece(k.kind, k.id, s, data[k].seen[s].time) \in answered \ withdrawn
        BY <4>1, <4>2, <4>3 DEF StoreClean
      <4> QED BY <4>1, <4>2, <4>3, <4>4, <1>0, <1>6
    <3>4. ReadClock(q) = clock
      BY <1>6 DEF ReadClock
    <3>5. ResultOK(q, Rows(seen), clock)
      <4>1. Rows(seen).found = "rows" /\ Rows(seen).seen = seen /\ DOMAIN seen = selected
        BY DEF Rows
      <4>2. ASSUME NEW s \in selected PROVE clock[s] \in 0..epoch
        <5>1. data[Winner(q.id, s)].clock[s] \in 0..epoch
          BY <1>1, <3>1, EntryFacts
        <5> QED BY <5>1
      <4> HIDE DEF seen, clock
      <4> QED BY <4>1, <4>2 DEF ResultOK
    <3> QED BY <3>2, <3>3, <3>4, <3>5
  <2> QED BY <2>1, <2>2
<1> QED BY <1>3, <1>4, <1>5, <1>6

LEMMA VisibleIsClean ==
  ASSUME CountsOK, StoreOK(data, epoch), StoreClean, delivered \subseteq answered \ withdrawn
  PROVE  Visible \subseteq answered \ withdrawn
<1> SUFFICES ASSUME NEW i \in Visible PROVE i \in answered \ withdrawn
  OBVIOUS
<1>1. CASE i \in delivered
  BY <1>1
<1>2. CASE i \notin delivered
  <2>1. PICK r \in Readings : i \in Items(r[1], r[2])
    BY <1>2 DEF Visible
  <2>2. PICK q \in Questions : r = <<q, Read(q)>>
    BY DEF Readings
  <2>3. r[1] = q /\ r[2] = Read(q)
    BY <2>2
  <2>4. Items(q, Read(q)) \subseteq answered \ withdrawn
    BY ReadIsClean
  <2> QED BY <2>1, <2>3, <2>4
<1> QED BY <1>1, <1>2

-----------------------------------------------------------------------------
(* What is in flight. *)

LEMMA EvidenceFacts ==
  ASSUME NEW i \in Evidence
  PROVE  \/ /\ i.kind = Absent /\ i.id \in Characters /\ i.scope = Absent
         \/ /\ i.kind \in {"rank", "detail"} /\ i.kind # Absent /\ i.id[1] \in Characters
            /\ i.id \in Identities /\ i.scope \in Scopes /\ <<i.id, i.scope>> \in Subjects
<1>1. CASE i \in AbsentEvidence
  BY <1>1 DEF AbsentEvidence
<1>2. CASE i \in PublicEvidence
  <2>1. i.kind \in {"rank", "detail"} /\ i.id \in Identities /\ i.scope \in Scopes
    BY <1>2 DEF PublicEvidence
  <2>2. i.kind # Absent /\ i.id[1] \in Characters /\ <<i.id, i.scope>> \in Subjects
    BY <2>1 DEF Absent, Identities, Subjects
  <2> QED BY <2>1, <2>2
<1> QED BY <1>1, <1>2 DEF Evidence

\* The histories still bar what they barred, and all that was withdrawn by now.
BarsOn ==
    /\ \A h \in History, x \in Subjects, e \in Nat : Barred(h, x, e) => Barred(h, x, e)'
    /\ \A i \in withdrawn' \ withdrawn : i \in answered => \A e \in 0..epoch : ItemBarred(i, e)'

LEMMA ItemStaysBarred ==
  ASSUME BarsOn, NEW i \in Evidence, NEW e \in Nat, ItemBarred(i, e)
  PROVE  ItemBarred(i, e)'
<1>1. \A h \in History, x \in Subjects : Barred(h, x, e) => Barred(h, x, e)'
  BY DEF BarsOn
<1>2. {"present", "summary", "detail", Absent} \subseteq History
  BY DEF History
<1>3. CASE i.kind = Absent
  <2>1. i.id \in Subjects /\ Barred("present", i.id, e)
    BY <1>3, EvidenceFacts DEF ItemBarred, Subjects
  <2>2. Barred("present", i.id, e)'
    BY <2>1, <1>1, <1>2
  <2> QED BY <2>2, <1>3 DEF ItemBarred
<1>4. CASE i.kind # Absent
  <2>1. i.id[1] \in Subjects /\ <<i.id, i.scope>> \in Subjects
    BY <1>4, EvidenceFacts DEF Subjects
  <2>2. \/ Barred(Absent, i.id[1], e)
        \/ i.kind = "rank" /\ Barred("summary", <<i.id, i.scope>>, e)
        \/ i.kind = "detail" /\ Barred("detail", <<i.id, i.scope>>, e)
    BY <1>4 DEF ItemBarred
  <2>3. \/ Barred(Absent, i.id[1], e)'
        \/ i.kind = "rank" /\ Barred("summary", <<i.id, i.scope>>, e)'
        \/ i.kind = "detail" /\ Barred("detail", <<i.id, i.scope>>, e)'
    BY <2>1, <2>2, <1>1, <1>2
  <2> QED BY <2>3, <1>4 DEF ItemBarred
<1> QED BY <1>3, <1>4

\* Whatever was to come of evidence given is barred if it is withdrawn.
StillBarred ==
    \A i \in answered, e \in 0..epoch :
        (i \in withdrawn => ItemBarred(i, e)) /\ i \in withdrawn' => ItemBarred(i, e)'

LEMMA StaysBarred ==
  ASSUME BarsOn, EvidenceOK, epoch \in Nat
  PROVE  StillBarred
<1> SUFFICES ASSUME NEW i \in answered, NEW e \in 0..epoch,
                    i \in withdrawn => ItemBarred(i, e), i \in withdrawn'
             PROVE  ItemBarred(i, e)'
  BY DEF StillBarred
<1>1. CASE i \in withdrawn
  <2>1. i \in Evidence /\ e \in Nat
    BY DEF EvidenceOK
  <2> QED BY <1>1, <2>1, ItemStaysBarred
<1>2. CASE i \notin withdrawn
  <2>1. i \in withdrawn' \ withdrawn
    BY <1>2
  <2> QED BY <2>1 DEF BarsOn
<1> QED BY <1>1, <1>2

\* The clock of an item of a result.
LEMMA ItemClock ==
  ASSUME NEW q, NEW result, NEW clock, ResultOK(q, result, clock), NEW i \in Items(q, result)
  PROVE  clock[i.scope] \in 0..epoch
<1>1. CASE result.found = Absent
  <2>1. i.scope = Absent
    BY <1>1 DEF Items
  <2> QED BY <2>1, <1>1 DEF ResultOK, Absent
<1>2. CASE result.found # Absent
  <2>1. result.found = "rows" /\ \A s \in DOMAIN result.seen : clock[s] \in 0..epoch
    BY <1>2 DEF ResultOK
  <2>2. i.scope \in DOMAIN result.seen
    BY <1>2, <2>1 DEF Items
  <2> QED BY <2>1, <2>2
<1> QED BY <1>1, <1>2

LEMMA ResultStays ==
  ASSUME NEW q, NEW result, NEW clock, ResultOK(q, result, clock),
         epoch \in Nat, epoch' \in Nat, epoch <= epoch'
  PROVE  ResultOK(q, result, clock)'
<1>1. 0..epoch \subseteq 0..epoch'
  OBVIOUS
<1> QED BY <1>1 DEF ResultOK

LEMMA TaskStays ==
  ASSUME StillBarred, epoch \in Nat, epoch' \in Nat, epoch <= epoch',
         time \in Nat, time' \in Nat, time <= time', answered \subseteq answered',
         NEW w \in Workers, TaskOK(task[w]), task'[w] = task[w]
  PROVE  TaskOK(task[w])'
<1> DEFINE t == task[w]
<1>0. 0..epoch \subseteq 0..epoch' /\ 1..time \subseteq 1..time'
  OBVIOUS
<1>1. CASE t = Idle
  BY <1>1 DEF TaskOK, Idle
<1>2. CASE t.stage = "asked" /\ AskedOK(t)
  BY <1>0, <1>2 DEF TaskOK, AskedOK
<1>3. CASE t.stage = "answered" /\ AnsweredOK(t)
  <2>1. /\ t.q \in Questions /\ t.epoch \in 0..epoch /\ t.time \in 1..time
        /\ t.answer \in Answers(t.q, t.time)
        /\ Items(t.q, t.answer) \subseteq answered
        /\ \A i \in Items(t.q, t.answer) : i \in withdrawn => ItemBarred(i, t.epoch)
    BY <1>3 DEF AnsweredOK
  <2>2. ASSUME NEW i \in Items(t.q, t.answer), i \in withdrawn' PROVE ItemBarred(i, t.epoch)'
    <3>1. i \in answered
      BY <2>1
    <3>2. \A e \in 0..epoch : (i \in withdrawn => ItemBarred(i, e)) => ItemBarred(i, e)'
      BY <3>1, <2>2 DEF StillBarred
    <3>3. ItemBarred(i, t.epoch)'
      BY <3>2, <2>1, task'[w] = task[w] DEF ItemBarred, Barred
    <3> QED BY <3>3
  <2>3. AnsweredOK(t)'
    BY <2>1, <2>2, <1>0 DEF AnsweredOK, ItemBarred, Barred
  <2> QED BY <2>3, <1>3 DEF TaskOK
<1>4. CASE t.stage = "emitted" /\ EmittedOK(t)
  <2>1. /\ t.q \in Questions /\ ResultOK(t.q, t.result, t.clock)
        /\ Items(t.q, t.result) \subseteq answered
        /\ \A i \in Items(t.q, t.result) : i \in withdrawn => ItemBarred(i, t.clock[i.scope])
    BY <1>4 DEF EmittedOK
  <2>2. ASSUME NEW i \in Items(t.q, t.result), i \in withdrawn' PROVE ItemBarred(i, t.clock[i.scope])'
    <3>1. i \in answered /\ t.clock[i.scope] \in 0..epoch
      BY <2>1, ItemClock
    <3>2. \A e \in 0..epoch : (i \in withdrawn => ItemBarred(i, e)) => ItemBarred(i, e)'
      BY <3>1, <2>2 DEF StillBarred
    <3>3. ItemBarred(i, t.clock[i.scope])'
      BY <3>1, <3>2, <2>1, task'[w] = task[w] DEF ItemBarred, Barred
    <3> QED BY <3>3
  <2>3. ResultOK(t.q, t.result, t.clock)'
    <3>1. \A q, result, clock : ResultOK(q, result, clock) => ResultOK(q, result, clock)'
      BY ResultStays
    <3> QED BY <3>1, <2>1, task'[w] = task[w] DEF ResultOK
  <2>4. EmittedOK(t)'
    BY <2>1, <2>2, <2>3 DEF EmittedOK, ItemBarred, Barred, ResultOK
  <2> QED BY <2>4, <1>4 DEF TaskOK
<1> QED BY <1>1, <1>2, <1>3, <1>4 DEF TaskOK

\* If the worker that moved is fine, all are.
LEMMA TasksStay ==
  ASSUME StillBarred, TasksOK, epoch \in Nat, epoch' \in Nat, epoch <= epoch',
         time \in Nat, time' \in Nat, time <= time', answered \subseteq answered',
         NEW w \in Workers, NEW x, task' = [task EXCEPT ![w] = x], TaskOK(task[w])'
  PROVE  TasksOK'
<1>1. task = [v \in Workers |-> task[v]] /\ \A v \in Workers : TaskOK(task[v])
  BY DEF TasksOK
<1>2. task' = [v \in Workers |-> task'[v]]
  BY <1>1
<1>3. ASSUME NEW v \in Workers PROVE TaskOK(task[v])'
  <2>1. CASE v = w
    BY <2>1
  <2>2. CASE v # w
    <3>1. task'[v] = task[v]
      BY <2>2, <1>1
    <3> QED BY <3>1, <1>1, TaskStays
  <2> QED BY <2>1, <2>2
<1> QED BY <1>2, <1>3 DEF TasksOK

LEMMA TasksWait ==
  ASSUME StillBarred, TasksOK, epoch \in Nat, epoch' \in Nat, epoch <= epoch',
         time \in Nat, time' = time, answered' = answered, task' = task
  PROVE  TasksOK'
<1>1. task = [v \in Workers |-> task[v]] /\ \A v \in Workers : TaskOK(task[v])
  BY DEF TasksOK
<1>2. time <= time' /\ time' \in Nat /\ answered \subseteq answered'
  OBVIOUS
<1>3. ASSUME NEW v \in Workers PROVE TaskOK(task[v])'
  <2>1. task'[v] = task[v]
    OBVIOUS
  <2> QED BY <2>1, <1>1, <1>2, TaskStays
<1> QED BY <1>1, <1>3 DEF TasksOK

-----------------------------------------------------------------------------
(* Steps that leave the store alone. *)

LEMMA AnsweredAfter ==
  ASSUME TasksOK, NEW w \in Workers, NEW x, task' = [task EXCEPT ![w] = x]
  PROVE  Answered' = IF x.stage = "answered" THEN Answered \cup {w} ELSE Answered \ {w}
<1>1. task'[w] = x /\ \A v \in Workers \ {w} : task'[v] = task[v]
  BY DEF TasksOK
<1> QED BY <1>1 DEF Answered

\* A worker that is done with its answer may have put it.
LEMMA CountsStay ==
  ASSUME CountsOK, TasksOK, NEW w \in Workers, NEW x, task' = [task EXCEPT ![w] = x],
         x.stage # "answered", epoch' \in Nat, time' = time,
         puts' = puts \/ (puts' = puts + 1 /\ task[w].stage = "answered")
  PROVE  CountsOK'
<1>1. Answered' = Answered \ {w}
  BY AnsweredAfter
<1>2. /\ puts \in Nat /\ time \in 0..MaxAnswers
      /\ IsFiniteSet(Answered) /\ puts + Cardinality(Answered) <= time
  BY DEF CountsOK
<1>3. /\ IsFiniteSet(Answered \ {w}) /\ Cardinality(Answered) \in Nat
      /\ Cardinality(Answered \ {w}) = IF w \in Answered THEN Cardinality(Answered) - 1
                                       ELSE Cardinality(Answered)
  BY <1>2, FS_RemoveElement, FS_CardinalityType
<1>4. task[w].stage = "answered" => w \in Answered
  BY DEF Answered
<1>5. puts' \in Nat /\ puts' + Cardinality(Answered \ {w}) <= time
  BY <1>2, <1>3, <1>4
<1>6. IsFiniteSet(Answered)' /\ (puts + Cardinality(Answered) <= time)'
  BY <1>1, <1>3, <1>5
<1> QED BY <1>2, <1>5, <1>6 DEF CountsOK

\* Only the worker's task, what was delivered and the count of answers change.
Quiet == UNCHANGED <<storeVars, puts, answered, lastAbsent, withdrawn>>

LEMMA QuietKeeps ==
  ASSUME Inv, Quiet, time' = time, NEW w \in Workers, NEW x, task' = [task EXCEPT ![w] = x],
         x.stage # "answered", TaskOK(task[w])', delivered' \subseteq answered \ withdrawn
  PROVE  Inv'
<1>1. /\ data' = data /\ epoch' = epoch /\ proofs' = proofs /\ floor' = floor
      /\ puts' = puts /\ answered' = answered /\ lastAbsent' = lastAbsent /\ withdrawn' = withdrawn
  BY DEF Quiet, storeVars
<1>2. /\ CountsOK /\ EvidenceOK /\ StoreOK(data, epoch) /\ Cardinality(DOMAIN data) <= MaxEntries
      /\ StoreClean /\ HistoriesOK /\ TasksOK /\ AbsencesOK
  BY DEF Inv
<1>3. epoch \in Nat /\ time \in Nat
  BY <1>2 DEF CountsOK
<1>4. CountsOK'
  BY <1>1, <1>2, <1>3, CountsStay
<1>5. StillBarred
  BY <1>1 DEF StillBarred, ItemBarred, Barred
<1>6. TasksOK'
  <2>1. /\ epoch' \in Nat /\ epoch <= epoch' /\ time' \in Nat /\ time <= time'
        /\ answered \subseteq answered'
    BY <1>1, <1>3
  <2> QED BY <2>1, <1>2, <1>3, <1>5, TasksStay
<1>7. EvidenceOK'
  BY <1>1, <1>2 DEF EvidenceOK
<1>8. StoreOK(data, epoch)' /\ (Cardinality(DOMAIN data) <= MaxEntries)'
  BY <1>1, <1>2
<1>9. StoreClean'
  BY <1>1, <1>2 DEF StoreClean
<1>10. HistoriesOK'
  BY <1>1, <1>2 DEF HistoriesOK
<1>11. AbsencesOK'
  BY <1>1, <1>2 DEF AbsencesOK, Barred
<1>12. (delivered \subseteq answered \ withdrawn)'
  BY <1>1
<1> QED BY <1>4, <1>6, <1>7, <1>8, <1>9, <1>10, <1>11, <1>12 DEF Inv

LEMMA AskKeeps ==
  ASSUME Inv, NEW w \in Workers, NEW q \in Questions, Ask(w, q)
  PROVE  Inv'
<1> DEFINE x == [stage |-> "asked", q |-> q, generation |-> generation, epoch |-> epoch]
<1>1. /\ task' = [task EXCEPT ![w] = x] /\ delivered' = {} /\ Quiet /\ time' = time
  BY DEF Ask, Quiet
<1>2. task'[w] = x /\ epoch' = epoch /\ epoch \in Nat
  BY <1>1 DEF Inv, TasksOK, Quiet, storeVars, CountsOK
<1>3. x.stage = "asked" /\ x.q = q /\ x.epoch = epoch
  OBVIOUS
<1> HIDE DEF x
<1>4. TaskOK(task[w])'
  <2>1. epoch \in 0..epoch
    BY <1>2
  <2>2. AskedOK(task[w])'
    BY <2>1, <1>2, <1>3 DEF AskedOK
  <2> QED BY <2>2, <1>2, <1>3 DEF TaskOK
<1> QED BY <1>1, <1>3, <1>4, QuietKeeps

\* A worker that becomes idle.
LEMMA IdleKeeps ==
  ASSUME Inv, Quiet, time' = time, NEW w \in Workers, task' = [task EXCEPT ![w] = Idle],
         delivered' \subseteq answered \ withdrawn
  PROVE  Inv'
<1>1. task'[w] = Idle
  BY DEF Inv, TasksOK
<1>2. TaskOK(task[w])'
  BY <1>1 DEF TaskOK
<1>3. Idle.stage # "answered"
  BY DEF Idle
<1> QED BY <1>2, <1>3, QuietKeeps

LEMMA AnswerKeeps ==
  ASSUME Inv, NEW w \in Workers, Answer(w)
  PROVE  Inv'
<1> DEFINE t == task[w]
<1>1. PICK a \in Answers(t.q, time + 1) :
         /\ answered' = answered \cup Items(t.q, a)
         /\ task' = [task EXCEPT ![w] = [stage |-> "answered", q |-> t.q, time |-> time + 1,
                         generation |-> t.generation, epoch |-> t.epoch, answer |-> a]]
  BY DEF Answer
<1> DEFINE x == [stage |-> "answered", q |-> t.q, time |-> time + 1,
                 generation |-> t.generation, epoch |-> t.epoch, answer |-> a]
<1>2. /\ t.stage = "asked" /\ time < MaxAnswers /\ time' = time + 1 /\ delivered' = {}
      /\ UNCHANGED <<storeVars, puts, events, lastAbsent, withdrawn>>
  BY DEF Answer
<1>3. /\ data' = data /\ epoch' = epoch /\ proofs' = proofs /\ floor' = floor
      /\ puts' = puts /\ lastAbsent' = lastAbsent /\ withdrawn' = withdrawn
  BY <1>2 DEF storeVars
<1>4. /\ CountsOK /\ EvidenceOK /\ StoreOK(data, epoch) /\ Cardinality(DOMAIN data) <= MaxEntries
      /\ StoreClean /\ HistoriesOK /\ TasksOK /\ AbsencesOK
  BY DEF Inv
<1>5. /\ epoch \in Nat /\ time \in Nat /\ time \in 0..MaxAnswers /\ puts \in Nat
      /\ MaxAnswers \in Nat /\ IsFiniteSet(Answered)
      /\ puts + Cardinality(Answered) <= time /\ Cardinality(Answered) \in Nat
  BY <1>4, BoundAssumption, FS_CardinalityType DEF CountsOK
<1>6. x.stage = "answered" /\ x.q = t.q /\ x.time = time + 1 /\ x.epoch = t.epoch /\ x.answer = a
  OBVIOUS
<1>7. task' = [task EXCEPT ![w] = x] /\ task'[w] = x
  BY <1>1, <1>4 DEF TasksOK
<1> HIDE DEF x
<1>8. t.q \in Questions /\ t.epoch \in 0..epoch
  <2>1. TaskOK(t) /\ t.stage = "asked"
    BY <1>2, <1>4 DEF TasksOK
  <2>2. AskedOK(t)
    BY <2>1 DEF TaskOK, Idle
  <2> QED BY <2>2 DEF AskedOK
<1>9. CountsOK'
  <2>1. Answered' = Answered \cup {w} /\ w \notin Answered
    <3>1. Answered' = Answered \cup {w}
      BY <1>4, <1>6, <1>7, AnsweredAfter
    <3> QED BY <3>1, <1>2 DEF Answered
  <2>2. IsFiniteSet(Answered \cup {w}) /\ Cardinality(Answered \cup {w}) = Cardinality(Answered) + 1
    BY <2>1, <1>5, FS_AddElement
  <2>3. IsFiniteSet(Answered)' /\ (puts + Cardinality(Answered) <= time)'
    BY <2>1, <2>2, <1>2, <1>3, <1>5
  <2>4. time' \in 0..MaxAnswers
    BY <1>2, <1>5
  <2> QED BY <2>3, <2>4, <1>3, <1>5 DEF CountsOK
<1>10. ASSUME NEW i \in Items(t.q, a) PROVE i \in Evidence /\ i.time = time + 1
  <2>1. time + 1 \in Times
    BY <1>2, <1>5 DEF Times
  <2>2. /\ t.q.kind \in {"rank", "detail"} /\ t.q.id \in Identities /\ t.q.id[1] \in Characters
        /\ Selected(t.q.kind, t.q.prefs) \subseteq Scopes
    BY <1>8, QuestionFacts
  <2>3. CASE a = IsAbsent(time + 1)
    <3>1. i = Piece(Absent, t.q.id[1], Absent, time + 1)
      BY <2>3, <1>10 DEF Items, IsAbsent, Piece
    <3>2. i \in AbsentEvidence
      BY <3>1, <2>1, <2>2 DEF AbsentEvidence, Piece
    <3>3. i.time = time + 1
      BY <3>1 DEF Piece
    <3> QED BY <3>2, <3>3 DEF Evidence
  <2>4. CASE a # IsAbsent(time + 1)
    <3>1. PICK seen \in [Selected(t.q.kind, t.q.prefs) -> [state : {"public", "private"}, time : {time + 1}]] :
             a = Rows(seen)
      BY <2>4 DEF Answers
    <3>2. PICK s \in DOMAIN seen : i = Piece(t.q.kind, t.q.id, s, seen[s].time)
      BY <3>1, <1>10 DEF Items, Rows, Piece, Absent
    <3>3. s \in Scopes /\ seen[s].time = time + 1
      BY <2>2, <3>1
    <3>4. i \in PublicEvidence
      BY <3>2, <3>3, <2>1, <2>2 DEF PublicEvidence, Piece
    <3>5. i.time = time + 1
      BY <3>2, <3>3 DEF Piece
    <3> QED BY <3>4, <3>5 DEF Evidence
  <2> QED BY <2>3, <2>4
<1>11. EvidenceOK'
  <2>1. answered \subseteq Evidence /\ withdrawn \subseteq answered /\ \A i \in answered : i.time <= time
    BY <1>4 DEF EvidenceOK
  <2>2. ASSUME NEW i \in answered' PROVE i \in Evidence /\ i.time <= time'
    <3>1. CASE i \in answered
      <4>1. i.time \in Int
        <5>1. i \in Evidence
          BY <3>1, <2>1
        <5> QED BY <5>1 DEF Evidence, PublicEvidence, AbsentEvidence, Times
      <4> QED BY <3>1, <4>1, <2>1, <1>2, <1>5
    <3>2. CASE i \notin answered
      BY <3>2, <1>1, <1>2, <1>5, <1>10
    <3> QED BY <3>1, <3>2
  <2> QED BY <2>1, <2>2, <1>1, <1>3 DEF EvidenceOK
<1>12. StillBarred
  BY <1>3 DEF StillBarred, ItemBarred, Barred
<1>13. TaskOK(task[w])'
  <2>1. ASSUME NEW i \in Items(t.q, a) PROVE i \notin withdrawn
    BY <2>1, <1>4, <1>5, <1>10 DEF EvidenceOK
  <2>2. time + 1 \in 1..(time + 1)
    BY <1>5
  <2>3. AnsweredOK(task[w])'
    BY <2>1, <2>2, <1>1, <1>2, <1>3, <1>6, <1>7, <1>8 DEF AnsweredOK
  <2> QED BY <2>3, <1>6, <1>7 DEF TaskOK
<1>14. TasksOK'
  <2>1. time' \in Nat /\ time <= time' /\ epoch' \in Nat /\ epoch <= epoch' /\ answered \subseteq answered'
    BY <1>1, <1>2, <1>3, <1>5
  <2> QED BY <2>1, <1>4, <1>5, <1>7, <1>12, <1>13, TasksStay
<1>15. StoreOK(data, epoch)' /\ (Cardinality(DOMAIN data) <= MaxEntries)' /\ HistoriesOK'
  BY <1>3, <1>4 DEF HistoriesOK
<1>16. StoreClean'
  BY <1>1, <1>3, <1>4 DEF StoreClean
<1>17. AbsencesOK'
  BY <1>1, <1>3, <1>4 DEF AbsencesOK, Barred
<1>18. (delivered \subseteq answered \ withdrawn)'
  BY <1>2
<1> QED BY <1>9, <1>11, <1>14, <1>15, <1>16, <1>17, <1>18 DEF Inv

\* An item of a result that the cache lets pass is not barred.
LEMMA CountsUnbarred ==
  ASSUME NEW q \in Questions, NEW s \in Selected(q.kind, q.prefs), NEW e, MayCount(q, s, e), NEW t
  PROVE  ~ ItemBarred(Piece(q.kind, q.id, s, t), e)
<1> DEFINE i == Piece(q.kind, q.id, s, t)
<1>1. i.kind = q.kind /\ i.id = q.id /\ i.scope = s
  BY DEF Piece
<1>2. q.kind \in {"rank", "detail"} /\ q.kind # Absent /\ s \in q.prefs
  BY QuestionFacts DEF Absent
<1>3. ~ Barred(Absent, q.id[1], e)
  BY DEF MayCount, AbsentSince, Barred
<1>4. q.kind = "rank" => ~ Barred("summary", <<q.id, s>>, e)
  BY <1>2 DEF MayCount, SummarySince, Barred
<1>5. q.kind = "detail" => ~ Barred("detail", <<q.id, s>>, e)
  BY DEF MayCount, DetailSince, Barred
<1> HIDE DEF i
<1>6. ~ ItemBarred(i, e)
  BY <1>1, <1>2, <1>3, <1>4, <1>5 DEF ItemBarred
<1> QED BY <1>6 DEF i

LEMMA SettledIsClean ==
  ASSUME CountsOK, StoreOK(data, epoch), StoreClean,
         NEW q \in Questions, NEW result, NEW clock, ResultOK(q, result, clock),
         Items(q, result) \subseteq answered,
         \A i \in Items(q, result) : i \in withdrawn => ItemBarred(i, clock[i.scope])
  PROVE  LET s == Settled(q, result, clock)
         IN  ResultOK(q, s.result, s.clock) /\ Items(q, s.result) \subseteq answered \ withdrawn
<1> DEFINE settled == Settled(q, result, clock)

<1>1. CASE Read(q) # Nothing
  <2>1. settled = [result |-> Read(q), clock |-> ReadClock(q)]
    BY <1>1 DEF Settled
  <2>2. settled.result = Read(q) /\ settled.clock = ReadClock(q)
    BY <2>1
  <2> QED BY <2>2, <1>1, ReadIsClean
<1>2. CASE Read(q) = Nothing /\ result.found = Absent
  <2> DEFINE c == q.id[1]
             r == IF SourceResponseCurrent(q, clock[Absent], TRUE) THEN result ELSE Unavailable
  <2>1. settled = [result |-> r, clock |-> clock]
    BY <1>2 DEF Settled
  <2>2. settled.result = r /\ settled.clock = clock
    BY <2>1
  <2>3. CASE SourceResponseCurrent(q, clock[Absent], TRUE)
    <3>1. r = result
      BY <2>3
    <3>2. ~ Barred("present", c, clock[Absent])
      BY <2>3 DEF SourceResponseCurrent, PresentSince, Barred
    <3>3. ASSUME NEW i \in Items(q, result) PROVE i \in answered \ withdrawn
      <4>1. i = [kind |-> Absent, id |-> c, scope |-> Absent, time |-> result.time]
        BY <1>2, <3>3 DEF Items
      <4>2. ~ ItemBarred(i, clock[i.scope])
        BY <4>1, <3>2 DEF ItemBarred
      <4> QED BY <4>2
    <3> HIDE DEF r
    <3> QED BY <2>2, <3>1, <3>3
  <2>4. CASE ~ SourceResponseCurrent(q, clock[Absent], TRUE)
    <3>1. r = Unavailable
      BY <2>4
    <3>2. Unavailable.found = "rows" /\ DOMAIN Unavailable.seen = {}
      BY DEF Unavailable, Rows
    <3>3. Items(q, Unavailable) = {}
      BY <3>2 DEF Items, Absent
    <3>4. ResultOK(q, Unavailable, clock)
      BY <3>2 DEF ResultOK
    <3> HIDE DEF r
    <3> QED BY <2>2, <3>1, <3>3, <3>4
  <2> QED BY <2>3, <2>4
<1>3. CASE Read(q) = Nothing /\ result.found # Absent
  <2> DEFINE kept == {s \in DOMAIN result.seen : MayCount(q, s, clock[s])}
             seen == Restrict(result.seen, kept)
  <2>1. /\ result.found = "rows" /\ DOMAIN result.seen \subseteq Selected(q.kind, q.prefs)
        /\ \A s \in DOMAIN result.seen : clock[s] \in 0..epoch
    BY <1>3 DEF ResultOK
  <2>2. settled = [result |-> Rows(seen), clock |-> clock]
    BY <1>3 DEF Settled
  <2>3. settled.result = Rows(seen) /\ settled.clock = clock
    BY <2>2
  <2>4. DOMAIN seen = kept /\ \A s \in kept : seen[s] = result.seen[s]
    BY DEF Restrict
  <2>5. ResultOK(q, Rows(seen), clock)
    <3>1. Rows(seen).found = "rows" /\ Rows(seen).seen = seen /\ DOMAIN seen \subseteq DOMAIN result.seen
      BY <2>4 DEF Rows
    <3> HIDE DEF seen
    <3> QED BY <2>1, <3>1 DEF ResultOK
  <2>6. ASSUME NEW i \in Items(q, Rows(seen)) PROVE i \in answered \ withdrawn
    <3> HIDE DEF seen
    <3>1. PICK s \in DOMAIN seen : /\ seen[s].state = "public"
                                   /\ i = Piece(q.kind, q.id, s, seen[s].time)
      BY <2>6 DEF Items, Rows, Piece, Absent
    <3>2. s \in DOMAIN result.seen /\ MayCount(q, s, clock[s]) /\ seen[s] = result.seen[s]
      BY <3>1, <2>4
    <3>3. i \in Items(q, result)
      BY <3>1, <3>2, <2>1 DEF Items, Piece, Absent
    <3>4. ~ ItemBarred(i, clock[s]) /\ i.scope = s
      <4>1. ~ ItemBarred(Piece(q.kind, q.id, s, seen[s].time), clock[s])
        BY <3>2, <2>1, CountsUnbarred
      <4>2. i.scope = s
        BY <3>1 DEF Piece
      <4> QED BY <4>1, <4>2, <3>1
    <3> QED BY <3>3, <3>4
  <2> HIDE DEF seen
  <2> QED BY <2>3, <2>5, <2>6
<1>4. Read(q) = Nothing \/ Read(q) # Nothing
  OBVIOUS
<1> HIDE DEF settled
<1> QED BY <1>1, <1>2, <1>3, <1>4

\* The answer of a task that has one.
LEMMA AnswerFacts ==
  ASSUME Inv, NEW w \in Workers, task[w].stage = "answered"
  PROVE  /\ AnsweredOK(task[w]) /\ task[w].q \in Questions
         /\ \/ task[w].answer = IsAbsent(task[w].time)
            \/ /\ task[w].answer.found = "rows" /\ task[w].answer = Rows(task[w].answer.seen)
               /\ task[w].answer.seen \in
                     [Selected(task[w].q.kind, task[w].q.prefs) -> [state : {"public", "private"}, time : {task[w].time}]]
<1> DEFINE t == task[w]
<1>1. TaskOK(t)
  BY DEF Inv, TasksOK
<1>2. AnsweredOK(t)
  BY <1>1 DEF TaskOK, Idle
<1>3. t.q \in Questions /\ t.answer \in Answers(t.q, t.time)
  BY <1>2 DEF AnsweredOK
<1>4. CASE t.answer = IsAbsent(t.time)
  BY <1>2, <1>3, <1>4
<1>5. CASE t.answer # IsAbsent(t.time)
  <2>1. PICK seen \in [Selected(t.q.kind, t.q.prefs) -> [state : {"public", "private"}, time : {t.time}]] :
           t.answer = Rows(seen)
    BY <1>3, <1>5 DEF Answers
  <2>2. t.answer.found = "rows" /\ t.answer.seen = seen
    BY <2>1 DEF Rows
  <2> QED BY <1>2, <1>3, <2>1, <2>2
<1> QED BY <1>4, <1>5

LEMMA PutRefusedKeeps ==
  ASSUME Inv, NEW w \in Workers, PutRefused(w)
  PROVE  Inv'
<1> DEFINE t == task[w]
           clock == ClockOf(Scopes \cup {Absent}, t.epoch)
           settled == Settled(t.q, t.answer, clock)
           x == [stage |-> "emitted", q |-> t.q, result |-> settled.result, clock |-> settled.clock]
<1>1. /\ t.stage = "answered" /\ delivered' = {} /\ Quiet /\ time' = time
      /\ task' = [task EXCEPT ![w] = x]
  BY DEF PutRefused, Responded, Quiet
<1>2. /\ AnsweredOK(t) /\ t.q \in Questions
      /\ \/ t.answer = IsAbsent(t.time)
         \/ /\ t.answer.found = "rows"
            /\ t.answer.seen \in
                  [Selected(t.q.kind, t.q.prefs) -> [state : {"public", "private"}, time : {t.time}]]
  BY <1>1, AnswerFacts
<1>3. /\ CountsOK /\ StoreOK(data, epoch) /\ StoreClean /\ TasksOK /\ epoch \in Nat
  BY DEF Inv, CountsOK
<1>4. \A s \in Scopes \cup {Absent} : clock[s] = t.epoch
  BY DEF ClockOf
<1>5. t.epoch \in 0..epoch
  BY <1>2 DEF AnsweredOK
<1>6. DOMAIN t.answer.seen \subseteq Scopes \/ t.answer = IsAbsent(t.time)
  <2>1. Selected(t.q.kind, t.q.prefs) \subseteq Scopes
    BY <1>2, QuestionFacts
  <2> QED BY <2>1, <1>2
<1>7. ResultOK(t.q, t.answer, clock)
  <2> HIDE DEF clock
  <2>1. CASE t.answer = IsAbsent(t.time)
    BY <2>1, <1>4, <1>5 DEF ResultOK, IsAbsent
  <2>2. CASE t.answer # IsAbsent(t.time)
    <3>1. /\ t.answer.found = "rows" /\ DOMAIN t.answer.seen = Selected(t.q.kind, t.q.prefs)
      BY <2>2, <1>2
    <3> QED BY <2>2, <3>1, <1>4, <1>5, <1>6 DEF ResultOK
  <2> QED BY <2>1, <2>2
<1>8. /\ Items(t.q, t.answer) \subseteq answered
      /\ \A i \in Items(t.q, t.answer) : i \in withdrawn => ItemBarred(i, clock[i.scope])
  <2>1. /\ Items(t.q, t.answer) \subseteq answered
        /\ \A i \in Items(t.q, t.answer) : i \in withdrawn => ItemBarred(i, t.epoch)
    BY <1>2 DEF AnsweredOK
  <2>2. ASSUME NEW i \in Items(t.q, t.answer) PROVE i.scope \in Scopes \cup {Absent}
    <3>1. i \in Evidence
      BY <2>1 DEF Inv, EvidenceOK
    <3> QED BY <3>1, EvidenceFacts
  <2> HIDE DEF clock
  <2> QED BY <2>1, <2>2, <1>4
<1>9. ResultOK(t.q, settled.result, settled.clock) /\ Items(t.q, settled.result) \subseteq answered \ withdrawn
  <2> HIDE DEF clock
  <2> QED BY <1>2, <1>3, <1>7, <1>8, SettledIsClean
<1>10. x.stage = "emitted" /\ x.q = t.q /\ x.result = settled.result /\ x.clock = settled.clock
  OBVIOUS
<1>11. TaskOK(task[w])'
  <2> HIDE DEF settled, x
  <2>1. task'[w] = x /\ epoch' = epoch /\ answered' = answered /\ withdrawn' = withdrawn
    BY <1>1, <1>3 DEF TasksOK, Quiet, storeVars
  <2>2. EmittedOK(task[w])'
    BY <2>1, <1>2, <1>9, <1>10 DEF EmittedOK, ResultOK
  <2> QED BY <2>1, <2>2, <1>10 DEF TaskOK
<1> HIDE DEF x
<1> QED BY <1>1, <1>10, <1>11, QuietKeeps

LEMMA DeliverKeeps ==
  ASSUME Inv, NEW w \in Workers, Deliver(w)
  PROVE  Inv'
<1> DEFINE t == task[w]
           c == t.q.id[1]
           settled == Settled(t.q, t.result, t.clock)
<1>1. /\ t.stage = "emitted" /\ task' = [task EXCEPT ![w] = Idle] /\ Quiet /\ time' = time
      /\ delivered' = Items(t.q, IF KnownAbsent(c) THEN IsAbsent(lastAbsent[c]) ELSE settled.result)
  BY DEF Deliver, Quiet
<1>2. EmittedOK(t) /\ t.q \in Questions /\ c \in Characters
  <2>1. TaskOK(t)
    BY DEF Inv, TasksOK
  <2>2. EmittedOK(t) /\ t.q \in Questions
    <3>1. t.stage = "emitted" /\ t # Idle
      BY <1>1 DEF Idle
    <3> HIDE DEF t
    <3>2. EmittedOK(t)
      BY <3>1, <2>1 DEF TaskOK
    <3> QED BY <3>2 DEF EmittedOK
  <2> QED BY <2>2, QuestionFacts
<1>3. /\ CountsOK /\ StoreOK(data, epoch) /\ StoreClean /\ HistoriesOK /\ AbsencesOK /\ epoch \in Nat
  BY DEF Inv, CountsOK
<1>4. delivered' \subseteq answered \ withdrawn
  <2>1. CASE KnownAbsent(c)
    <3> DEFINE p == Piece(Absent, c, Absent, lastAbsent[c])
               k == AbsentKey(c)
               e == IF proofs[Absent][c] # 0 THEN proofs[Absent][c]
                    ELSE IF k \in DOMAIN data THEN data[k].clock[Absent] ELSE -1
               bars == {floor[Absent], floor["present"], proofs["present"][c]}
    <3>1. delivered' = {p}
      <4>1. delivered' = Items(t.q, IsAbsent(lastAbsent[c]))
        BY <1>1, <2>1
      <4> QED BY <4>1 DEF Items, IsAbsent, Piece
    <3>2. /\ floor[Absent] \in 0..epoch /\ floor["present"] \in 0..epoch
          /\ proofs["present"][c] \in 0..epoch /\ proofs[Absent][c] \in 0..epoch
      <4>1. c \in Subjects /\ {Absent, "present"} \subseteq History
        BY <1>2 DEF Subjects, History
      <4> QED BY <4>1, <1>3 DEF HistoriesOK, HistoryOK
    <3>3. e >= Max(bars)
      BY <2>1 DEF KnownAbsent
    <3>4. Max(bars) \in bars /\ \A j \in bars : j <= Max(bars)
      <4>1. bars \subseteq 0..epoch /\ bars # {}
        BY <3>2
      <4>2. IsFiniteSet(0..epoch)
        BY <1>3, FS_Interval
      <4> HIDE DEF bars
      <4>3. IsFiniteSet(bars)
        BY <4>1, <4>2, FS_Subset
      <4>4. bars \subseteq Int
        BY <4>1, <1>3
      <4> QED BY <4>1, <4>3, <4>4, MaxIsGreatest
    <3>5. Max(bars) \in Int /\ floor["present"] <= Max(bars) /\ proofs["present"][c] <= Max(bars) /\ 0 <= Max(bars)
      <4>1. floor["present"] <= Max(bars) /\ proofs["present"][c] <= Max(bars) /\ Max(bars) \in bars
        BY <3>4
      <4>2. Max(bars) \in 0..epoch
        <5>1. bars \subseteq 0..epoch
          BY <3>2
        <5> HIDE DEF bars
        <5> QED BY <4>1, <5>1
      <4> HIDE DEF bars
      <4> QED BY <4>1, <4>2
    <3>6. CASE k \in DOMAIN data
      <4>1. k.kind = Absent /\ k.id = c
        BY DEF AbsentKey, Key
      <4>2. DOMAIN data[k].seen = {Absent} /\ data[k].seen[Absent].state = "public"
        BY <1>3, <3>6, <4>1, EntryFacts DEF ScopesOK
      <4>3. data[k].seen[Absent].time = lastAbsent[c]
        BY <1>2, <1>3, <3>6 DEF AbsencesOK
      <4>4. p \in answered \ withdrawn
        BY <1>3, <3>6, <4>1, <4>2, <4>3 DEF StoreClean
      <4> QED BY <3>1, <4>4
    <3>7. CASE k \notin DOMAIN data
      <4>1. proofs[Absent][c] # 0 /\ e = proofs[Absent][c]
        <5>1. proofs[Absent][c] = 0 => e = -1
          BY <3>7
        <5>2. proofs[Absent][c] # 0 => e = proofs[Absent][c]
          OBVIOUS
        <5> HIDE DEF bars, k, e
        <5>3. PICK m : m = Max(bars)
          OBVIOUS
        <5>4. e >= m /\ m \in Int /\ 0 <= m
          BY <3>3, <3>5, <5>3
        <5> QED BY <5>1, <5>2, <5>4
      <4>2. ~ Barred("present", c, proofs[Absent][c])
        <5>1. e \in Int
          BY <4>1, <3>2
        <5>2. PICK m : m = Max(bars)
          OBVIOUS
        <5>3. PICK n : n = e
          OBVIOUS
        <5> HIDE DEF bars, e
        <5>4. n >= m /\ floor["present"] <= m /\ proofs["present"][c] <= m /\ m \in Int /\ n \in Int
          BY <3>3, <3>5, <5>1, <5>2, <5>3
        <5>5. floor["present"] \in Int /\ proofs["present"][c] \in Int
          BY <3>2
        <5>6. ~ (n < floor["present"]) /\ ~ (proofs["present"][c] > n)
          BY <5>4, <5>5
        <5> QED BY <5>3, <5>6, <4>1 DEF Barred
      <4>3. p \in answered \ withdrawn
        BY <4>1, <4>2, <1>2, <1>3 DEF AbsencesOK
      <4> QED BY <3>1, <4>3
    <3> QED BY <3>6, <3>7
  <2>2. CASE ~KnownAbsent(c)
    <3>1. delivered' = Items(t.q, settled.result)
      BY <1>1, <2>2
    <3>2. /\ ResultOK(t.q, t.result, t.clock) /\ Items(t.q, t.result) \subseteq answered
          /\ \A i \in Items(t.q, t.result) : i \in withdrawn => ItemBarred(i, t.clock[i.scope])
      BY <1>2 DEF EmittedOK
    <3>3. Items(t.q, settled.result) \subseteq answered \ withdrawn
      BY <1>2, <1>3, <3>2, SettledIsClean
    <3> QED BY <3>1, <3>3
  <2> QED BY <2>1, <2>2
<1> QED BY <1>1, <1>4, IdleKeeps

-----------------------------------------------------------------------------
(* Time and the file. *)

LEMMA HistoriesOutlive ==
  ASSUME HistoriesOK, epoch \in Nat, epoch' = epoch + 1, proofs' = proofs, floor' = floor
  PROVE  HistoriesOK'
<1> SUFFICES ASSUME NEW h \in History PROVE HistoryOK(proofs[h], floor[h], epoch)'
  BY DEF HistoriesOK
<1>1. HistoryOK(proofs[h], floor[h], epoch)
  BY DEF HistoriesOK
<1>2. [Subjects -> 0..epoch] \subseteq [Subjects -> 0..epoch'] /\ 0..epoch \subseteq 0..epoch'
  <2>1. 0..epoch \subseteq 0..epoch'
    OBVIOUS
  <2> QED BY <2>1
<1> QED BY <1>1, <1>2 DEF HistoryOK

LEMMA FlushKeeps ==
  ASSUME Inv, Flush
  PROVE  Inv'
<1>1. PICK k \in DOMAIN data : data' = Restrict(data, DOMAIN data \ {k})
  BY DEF Flush, Without
<1>2. /\ epoch' = epoch + 1 /\ delivered' = {} /\ proofs' = proofs /\ floor' = floor
      /\ task' = task /\ puts' = puts /\ time' = time
      /\ answered' = answered /\ lastAbsent' = lastAbsent /\ withdrawn' = withdrawn
  BY DEF Flush
<1>3. /\ CountsOK /\ EvidenceOK /\ StoreOK(data, epoch) /\ Cardinality(DOMAIN data) <= MaxEntries
      /\ StoreClean /\ HistoriesOK /\ TasksOK /\ AbsencesOK /\ epoch \in Nat /\ time \in Nat
  BY DEF Inv, CountsOK
<1>4. epoch' \in Nat /\ epoch <= epoch'
  BY <1>2, <1>3
<1>5. StoreOK(data, epoch')
  BY <1>3, <1>4, StoreOutlives
<1>6. /\ StoreOK(data', epoch') /\ DOMAIN data' = DOMAIN data \ {k}
      /\ \A j \in DOMAIN data' : data'[j] = data[j]
  BY <1>1, <1>5, RestrictStore
<1>7. Cardinality(DOMAIN data') <= MaxEntries
  <2>1. IsFiniteSet(DOMAIN data) /\ DOMAIN data' \subseteq DOMAIN data
    BY <1>3, <1>6 DEF StoreOK
  <2>2. /\ Cardinality(DOMAIN data') <= Cardinality(DOMAIN data)
        /\ Cardinality(DOMAIN data) \in Nat /\ Cardinality(DOMAIN data') \in Nat
    BY <2>1, FS_Subset, FS_CardinalityType
  <2> QED BY <2>2, <1>3, BoundAssumption
<1>8. StoreClean'
  BY <1>2, <1>3, <1>6 DEF StoreClean
<1>9. CountsOK'
  BY <1>2, <1>3, <1>4 DEF CountsOK, Answered
<1>10. EvidenceOK'
  BY <1>2, <1>3 DEF EvidenceOK
<1>11. HistoriesOK'
  BY <1>2, <1>3, HistoriesOutlive
<1>12. TasksOK'
  <2>1. StillBarred
    BY <1>2 DEF StillBarred, ItemBarred, Barred
  <2> QED BY <2>1, <1>2, <1>3, <1>4, TasksWait
<1>13. AbsencesOK'
  BY <1>2, <1>3, <1>6 DEF AbsencesOK, Barred
<1>14. StoreOK(data, epoch)' /\ (delivered \subseteq answered \ withdrawn)'
  BY <1>2, <1>6
<1> QED BY <1>7, <1>8, <1>9, <1>10, <1>11, <1>12, <1>13, <1>14 DEF Inv

LEMMA EmptyHistories ==
  ASSUME NEW e \in Nat, NEW h \in History
  PROVE  HistoryOK(NoProofs[h], NoFloor[h], e) /\ \A x \in Subjects : NoProofs[h][x] = 0
<1>1. NoProofs[h] = [s \in Subjects |-> 0] /\ NoFloor[h] = 0
  BY DEF NoProofs, NoFloor
<1>2. {x \in Subjects : NoProofs[h][x] # 0} = {} /\ \A x \in Subjects : NoProofs[h][x] = 0
  BY <1>1
<1>3. 0 \in 0..e /\ NoProofs[h] \in [Subjects -> 0..e]
  BY <1>1
<1>4. IsFiniteSet({}) /\ Cardinality({}) = 0 /\ 0 <= MaxProofs
  BY FS_EmptySet, BoundAssumption
<1> QED BY <1>1, <1>2, <1>3, <1>4 DEF HistoryOK

LEMMA EmptyStore ==
  ASSUME NEW e
  PROVE  StoreOK(NoEntries, e) /\ DOMAIN NoEntries = {} /\ Cardinality(DOMAIN NoEntries) <= MaxEntries
<1>1. DOMAIN NoEntries = {}
  BY DEF NoEntries
<1>2. IsFiniteSet({}) /\ Cardinality({}) = 0 /\ 0 <= MaxEntries
  BY FS_EmptySet, BoundAssumption
<1> QED BY <1>1, <1>2 DEF StoreOK

LEMMA ClearKeeps ==
  ASSUME Inv, Clear
  PROVE  Inv'
<1>1. /\ data' = NoEntries /\ epoch' = epoch + 1 /\ proofs' = NoProofs /\ floor' = NoFloor
      /\ delivered' = {} /\ withdrawn' = {} /\ task' = task /\ puts' = puts /\ time' = time
      /\ answered' = answered /\ lastAbsent' = lastAbsent
  BY DEF Clear
<1>2. /\ CountsOK /\ EvidenceOK /\ TasksOK /\ AbsencesOK /\ epoch \in Nat /\ time \in Nat
  BY DEF Inv, CountsOK
<1>3. epoch' \in Nat /\ epoch <= epoch'
  BY <1>1, <1>2
<1>4. StoreOK(data, epoch)' /\ (Cardinality(DOMAIN data) <= MaxEntries)' /\ DOMAIN data' = {}
  BY <1>1, EmptyStore
<1>5. StoreClean'
  BY <1>4 DEF StoreClean
<1>6. HistoriesOK' /\ \A h \in History, x \in Subjects : proofs'[h][x] = 0
  <2>1. \A h \in History : /\ HistoryOK(NoProofs[h], NoFloor[h], epoch')
                           /\ \A x \in Subjects : NoProofs[h][x] = 0
    BY <1>3, EmptyHistories
  <2>2. DOMAIN NoProofs = History /\ DOMAIN NoFloor = History
    BY DEF NoProofs, NoFloor
  <2>3. \A h \in History : HistoryOK(proofs[h], floor[h], epoch)'
    BY <2>1, <1>1 DEF HistoryOK
  <2> QED BY <2>1, <2>2, <2>3, <1>1 DEF HistoriesOK
<1>7. CountsOK'
  BY <1>1, <1>2, <1>3 DEF CountsOK, Answered
<1>8. EvidenceOK'
  BY <1>1, <1>2 DEF EvidenceOK
<1>9. TasksOK'
  <2>1. StillBarred
    BY <1>1 DEF StillBarred
  <2> QED BY <2>1, <1>1, <1>2, <1>3, TasksWait
<1>10. AbsencesOK'
  <2>1. \A c \in Characters : proofs'[Absent][c] = 0
    BY <1>6 DEF Subjects, History
  <2> QED BY <2>1, <1>1, <1>2, <1>4 DEF AbsencesOK
<1>11. (delivered \subseteq answered \ withdrawn)'
  BY <1>1
<1> QED BY <1>4, <1>5, <1>6, <1>7, <1>8, <1>9, <1>10, <1>11 DEF Inv

LEMMA RestartKeeps ==
  ASSUME Inv, Restart
  PROVE  Inv'
<1> DEFINE zero(k) == [s \in DOMAIN data[k].clock |-> 0]
<1>0. /\ data' = [k \in DOMAIN data |-> [data[k] EXCEPT !.clock = zero(k)]]
      /\ lastAbsent' = [c \in Characters |->
            IF AbsentKey(c) \in DOMAIN data' THEN data[AbsentKey(c)].seen[Absent].time ELSE 0]
  BY DEF Restart
<1>1. /\ data' = [k \in DOMAIN data |-> [data[k] EXCEPT !.clock = zero(k)]]
      /\ epoch' = 0 /\ proofs' = NoProofs /\ floor' = NoFloor
      /\ task' = [w \in Workers |-> Idle] /\ delivered' = {}
      /\ withdrawn' = withdrawn /\ puts' = puts /\ time' = time /\ answered' = answered
  BY <1>0 DEF Restart
<1>2. /\ CountsOK /\ EvidenceOK /\ StoreOK(data, epoch) /\ Cardinality(DOMAIN data) <= MaxEntries
      /\ StoreClean /\ epoch \in Nat
  BY DEF Inv, CountsOK
<1>3. DOMAIN data' = DOMAIN data
  BY <1>1
<1>4. ASSUME NEW k \in DOMAIN data
      PROVE  /\ KeyOK(k) /\ RecordOK(data'[k], 0) /\ ScopesOK(k, data'[k])
             /\ data'[k].seen = data[k].seen
  <2>1. KeyOK(k) /\ RecordOK(data[k], epoch) /\ ScopesOK(k, data[k])
    BY <1>2 DEF StoreOK
  <2>2. data'[k] = [data[k] EXCEPT !.clock = zero(k)]
    BY <1>1
  <2> DEFINE D == DOMAIN data[k].seen
  <2>3. data[k] \in [at : 1..MaxAnswers, clock : [D -> 0..epoch], seen : [D -> Seen]]
    BY <2>1 DEF RecordOK
  <2>4. zero(k) \in [D -> 0..0]
    <3>1. DOMAIN data[k].clock = D
      BY <2>3
    <3> HIDE DEF D
    <3> QED BY <3>1
  <2>5. data'[k] \in [at : 1..MaxAnswers, clock : [D -> 0..0], seen : [D -> Seen]] /\ data'[k].seen = data[k].seen
    <3> HIDE DEF zero, D
    <3> QED BY <2>2, <2>3, <2>4
  <2>6. RecordOK(data'[k], 0)
    BY <2>5 DEF RecordOK
  <2> QED BY <2>1, <2>5, <2>6 DEF ScopesOK
<1>5. StoreOK(data, epoch)' /\ (Cardinality(DOMAIN data) <= MaxEntries)'
  <2>1. StoreOK(data', 0)
    BY <1>2, <1>3, <1>4 DEF StoreOK
  <2> QED BY <2>1, <1>1, <1>2, <1>3
<1>6. StoreClean'
  <2> SUFFICES ASSUME NEW k \in DOMAIN data', NEW s \in DOMAIN data'[k].seen,
                      data'[k].seen[s].state = "public"
               PROVE  Piece(k.kind, k.id, s, data'[k].seen[s].time) \in answered' \ withdrawn'
    BY DEF StoreClean
  <2>1. k \in DOMAIN data /\ data'[k].seen = data[k].seen
    BY <1>3, <1>4
  <2>2. Piece(k.kind, k.id, s, data[k].seen[s].time) \in answered \ withdrawn
    BY <2>1, <1>2 DEF StoreClean
  <2>3. answered' = answered /\ withdrawn' = withdrawn
    BY <1>1
  <2> QED BY <2>1, <2>2, <2>3
<1>7. HistoriesOK' /\ \A h \in History, x \in Subjects : proofs'[h][x] = 0
  <2>1. \A h \in History : /\ HistoryOK(NoProofs[h], NoFloor[h], 0)
                           /\ \A x \in Subjects : NoProofs[h][x] = 0
    BY EmptyHistories
  <2>2. DOMAIN NoProofs = History /\ DOMAIN NoFloor = History
    BY DEF NoProofs, NoFloor
  <2>3. \A h \in History : HistoryOK(proofs[h], floor[h], epoch)'
    BY <2>1, <1>1 DEF HistoryOK
  <2> QED BY <2>1, <2>2, <2>3, <1>1 DEF HistoriesOK
<1>8. CountsOK'
  <2>1. Answered' = {}
    BY <1>1 DEF Answered, Idle
  <2>2. IsFiniteSet({}) /\ Cardinality({}) = 0
    BY FS_EmptySet
  <2>3. puts \in Nat /\ time \in 0..MaxAnswers /\ puts <= time
    <3>1. Cardinality(Answered) \in Nat
      BY <1>2, FS_CardinalityType DEF CountsOK
    <3> QED BY <3>1, <1>2, BoundAssumption DEF CountsOK
  <2>4. (puts + Cardinality(Answered) <= time)'
    BY <1>1, <2>1, <2>2, <2>3
  <2> QED BY <2>1, <2>2, <2>3, <2>4, <1>1 DEF CountsOK
<1>9. EvidenceOK'
  BY <1>1, <1>2 DEF EvidenceOK
<1>10. TasksOK'
  BY <1>1 DEF TasksOK, TaskOK
<1>11. AbsencesOK'
  <2>1. \A c \in Characters : proofs'[Absent][c] = 0
    BY <1>7 DEF Subjects, History
  <2>2. lastAbsent' = [c \in Characters |-> lastAbsent'[c]]
    BY <1>0
  <2>3. \A c \in Characters :
           AbsentKey(c) \in DOMAIN data' => data'[AbsentKey(c)].seen[Absent].time = lastAbsent'[c]
    <3> SUFFICES ASSUME NEW c \in Characters, AbsentKey(c) \in DOMAIN data'
                 PROVE  data'[AbsentKey(c)].seen[Absent].time = lastAbsent'[c]
      OBVIOUS
    <3>1. data'[AbsentKey(c)].seen = data[AbsentKey(c)].seen
      BY <1>3, <1>4
    <3>2. lastAbsent'[c] = data[AbsentKey(c)].seen[Absent].time
      BY <1>0
    <3> QED BY <3>1, <3>2
  <2> QED BY <2>1, <2>2, <2>3 DEF AbsencesOK
<1>12. (delivered \subseteq answered \ withdrawn)'
  BY <1>1
<1> QED BY <1>5, <1>6, <1>7, <1>8, <1>9, <1>10, <1>11, <1>12 DEF Inv

-----------------------------------------------------------------------------
(* Puts. *)

LEMMA PutRoom ==
  ASSUME Inv, NEW w \in Workers, task[w].stage = "answered"
  PROVE  puts + 1 \in 1..MaxAnswers /\ puts \in Nat
<1>1. /\ puts \in Nat /\ time \in 0..MaxAnswers
      /\ IsFiniteSet(Answered) /\ puts + Cardinality(Answered) <= time
  BY DEF Inv, CountsOK
<1>2. w \in Answered
  BY DEF Answered
<1>3. Cardinality(Answered) \in Nat /\ Cardinality(Answered) # 0
  BY <1>1, <1>2, FS_CardinalityType, FS_EmptySet
<1> QED BY <1>1, <1>3, BoundAssumption

\* What an answer says has the answer's time, and stands unless it is barred.
LEMMA AnswerStands ==
  ASSUME Inv, NEW w \in Workers, task[w].stage = "answered",
         NEW i \in Items(task[w].q, task[w].answer)
  PROVE  /\ i \in answered /\ i.time = task[w].time
         /\ i \in withdrawn => ItemBarred(i, task[w].epoch)
<1> DEFINE t == task[w]
<1>1. /\ AnsweredOK(t)
      /\ \/ t.answer = IsAbsent(t.time)
         \/ /\ t.answer.found = "rows"
            /\ t.answer.seen \in
                  [Selected(t.q.kind, t.q.prefs) -> [state : {"public", "private"}, time : {t.time}]]
  BY AnswerFacts
<1>2. i \in answered /\ (i \in withdrawn => ItemBarred(i, t.epoch))
  BY <1>1 DEF AnsweredOK
<1>3. CASE t.answer = IsAbsent(t.time)
  <2>1. i = Piece(Absent, t.q.id[1], Absent, t.time)
    BY <1>3 DEF Items, IsAbsent, Piece
  <2>2. i.time = t.time
    BY <2>1 DEF Piece
  <2> QED BY <1>2, <2>2
<1>4. CASE t.answer # IsAbsent(t.time)
  <2>1. PICK s \in DOMAIN t.answer.seen : i = Piece(t.q.kind, t.q.id, s, t.answer.seen[s].time)
    BY <1>1, <1>4 DEF Items, Piece, Absent
  <2>2. i.time = t.answer.seen[s].time
    BY <2>1 DEF Piece
  <2>3. t.answer.seen[s].time = t.time
    BY <2>1, <1>1, <1>4
  <2> QED BY <1>2, <2>2, <2>3
<1> QED BY <1>3, <1>4

\* An absence known by proof stays true, or later evidence bars it.
LEMMA AbsenceStays ==
  ASSUME AbsencesOK, HistoriesOK, StillBarred, answered \subseteq answered', epoch \in Nat,
         NEW c \in Characters, lastAbsent'[c] = lastAbsent[c],
         proofs'[Absent][c] = proofs[Absent][c] \/ proofs'[Absent][c] = 0
  PROVE  proofs'[Absent][c] # 0 =>
             /\ Piece(Absent, c, Absent, lastAbsent'[c]) \in answered'
             /\ Piece(Absent, c, Absent, lastAbsent'[c]) \in withdrawn' =>
                   proofs'[Absent][c] < floor'["present"] \/ proofs'["present"][c] > proofs'[Absent][c]
<1> SUFFICES ASSUME proofs'[Absent][c] # 0
             PROVE  /\ Piece(Absent, c, Absent, lastAbsent'[c]) \in answered'
                    /\ Piece(Absent, c, Absent, lastAbsent'[c]) \in withdrawn' =>
                          proofs'[Absent][c] < floor'["present"] \/ proofs'["present"][c] > proofs'[Absent][c]
  OBVIOUS
<1>0. PICK p, e : p = Piece(Absent, c, Absent, lastAbsent[c]) /\ e = proofs[Absent][c]
  OBVIOUS
<1>1. proofs'[Absent][c] = e /\ e # 0 /\ p = Piece(Absent, c, Absent, lastAbsent'[c])
  BY <1>0
<1>2. p \in answered /\ (p \in withdrawn => Barred("present", c, e))
  BY <1>0, <1>1 DEF AbsencesOK
<1>3. e \in 0..epoch
  <2>1. c \in Subjects /\ Absent \in History
    BY DEF Subjects, History
  <2> QED BY <1>0, <2>1 DEF HistoriesOK, HistoryOK
<1>4. p.kind = Absent /\ p.id = c
  BY <1>0 DEF Piece
<1>5. p \in withdrawn => ItemBarred(p, e)
  BY <1>2, <1>4 DEF ItemBarred
<1>6. p \in withdrawn' => ItemBarred(p, e)'
  BY <1>2, <1>3, <1>5 DEF StillBarred
<1>7. p \in withdrawn' => e < floor'["present"] \/ proofs'["present"][c] > e
  BY <1>4, <1>6 DEF ItemBarred, Barred
<1> QED BY <1>1, <1>2, <1>7

\* What the three puts have in common.
LEMMA PutKeeps ==
  ASSUME Inv, NEW w \in Workers, task[w].stage = "answered",
         NEW x, task' = [task EXCEPT ![w] = x], x.stage = "emitted", TaskOK(task[w])',
         Stored, time' = time, answered' = answered,
         HistoriesOK', BarsOn, withdrawn' \subseteq answered,
         StoreOK(data', epoch + 1), Cardinality(DOMAIN data') <= MaxEntries, StoreClean', AbsencesOK'
  PROVE  Inv'
<1>1. epoch' = epoch + 1 /\ puts' = puts + 1 /\ delivered' = {}
  BY DEF Stored
<1>2. CountsOK /\ EvidenceOK /\ TasksOK /\ epoch \in Nat /\ time \in Nat
  BY DEF Inv, CountsOK
<1>3. epoch' \in Nat /\ epoch <= epoch' /\ time' \in Nat /\ time <= time' /\ answered \subseteq answered'
  BY <1>1, <1>2
<1>4. CountsOK'
  BY <1>1, <1>2, <1>3, CountsStay
<1>5. TasksOK'
  BY <1>2, <1>3, StaysBarred, TasksStay
<1>6. EvidenceOK'
  BY <1>2 DEF EvidenceOK
<1>7. StoreOK(data, epoch)' /\ (Cardinality(DOMAIN data) <= MaxEntries)'
  BY <1>1
<1>8. (delivered \subseteq answered \ withdrawn)'
  BY <1>1
<1> QED BY <1>4, <1>5, <1>6, <1>7, <1>8 DEF Inv

LEMMA PutAbsentKeeps ==
  ASSUME Inv, NEW w \in Workers, PutAbsent(w)
  PROVE  Inv'
<1>0. PICK t : t = task[w]
  OBVIOUS
<1> DEFINE c == t.q.id[1]
           k == AbsentKey(c)
           swept == {j \in DOMAIN data : OfCharacter(j, c)}
           seen == [x \in {Absent} |-> [state |-> "public", time |-> t.time]]
           entry == Entry(seen)
           known == [h \in {Absent} |-> {c}]
           clock == ClockOf({Absent}, epoch + 1)
           x == [stage |-> "emitted", q |-> t.q, result |-> t.answer, clock |-> clock]
           p == Piece(Absent, c, Absent, t.time)
<1>1. /\ t.stage = "answered" /\ t.answer.found = Absent /\ Eligible(t) # {}
      /\ data' \in Capped(With(Without(data, swept), k, entry))
      /\ SetProofs(known) /\ Stored
      /\ task' = [task EXCEPT ![w] = x]
      /\ lastAbsent' = [lastAbsent EXCEPT ![c] = t.time]
      /\ withdrawn' = withdrawn \cup {i \in answered : i.kind # Absent /\ i.id[1] = c /\ i.time < t.time}
  BY <1>0 DEF PutAbsent, Responded
<1>2. epoch' = epoch + 1 /\ puts' = puts + 1 /\ delivered' = {} /\ time' = time /\ answered' = answered
  BY <1>1 DEF Stored
<1>3. /\ CountsOK /\ EvidenceOK /\ StoreOK(data, epoch) /\ StoreClean /\ HistoriesOK /\ TasksOK
      /\ AbsencesOK /\ epoch \in Nat
  BY DEF Inv, CountsOK
<1>4. /\ AnsweredOK(t) /\ t.q \in Questions /\ t.answer = IsAbsent(t.time)
  BY <1>0, <1>1, AnswerFacts DEF Absent
<1>5. c \in Characters /\ t.time \in Times /\ t.epoch \in 0..epoch
  <2>1. t.time \in 1..time
    BY <1>4 DEF AnsweredOK
  <2>2. t.time \in Times
    BY <2>1, <1>3, BoundAssumption DEF Times, CountsOK
  <2> QED BY <2>2, <1>4, QuestionFacts DEF AnsweredOK
<1>6. Items(t.q, t.answer) = {p} /\ p.kind = Absent /\ p.id = c
  BY <1>4 DEF Items, IsAbsent, Piece
<1>7. p \in answered \ withdrawn'
  <2>1. SourceResponseCurrent(t.q, t.epoch, TRUE)
    BY <1>1 DEF Eligible
  <2>2. ~ Barred("present", c, t.epoch)
    BY <2>1 DEF SourceResponseCurrent, PresentSince, Barred
  <2>3. ~ ItemBarred(p, t.epoch)
    BY <2>2, <1>6 DEF ItemBarred
  <2>4. p \in answered /\ p \notin withdrawn
    BY <1>0, <1>1, <1>6, <2>3, AnswerStands
  <2> HIDE DEF p
  <2> QED BY <2>4, <1>1, <1>6
<1>8. /\ HistoriesOK'
      /\ \A h \in History, y \in Subjects, e \in Nat : Barred(h, y, e) => Barred(h, y, e)'
      /\ \A e \in 0..epoch : Barred(Absent, c, e)'
      /\ \A d \in Characters : d # c => proofs'[Absent][d] = proofs[Absent][d] \/ proofs'[Absent][d] = 0
  <2>1. DOMAIN known = {Absent} /\ known[Absent] = {c} /\ {Absent} \subseteq History
    BY DEF History
  <2>2. {c} \subseteq Subjects /\ IsFiniteSet({c}) /\ Characters \subseteq Subjects
    BY <1>5, FS_Singleton DEF Subjects
  <2>3. SetProofs(known)
    BY <1>1
  <2> HIDE DEF known
  <2>4. /\ HistoriesOK'
        /\ \A h \in History, y \in Subjects, e \in Nat : Barred(h, y, e) => Barred(h, y, e)'
        /\ \A h \in DOMAIN known : \A y \in known[h], e \in 0..epoch : Barred(h, y, e)'
        /\ \A h \in History, y \in Subjects :
               y \notin (IF h \in DOMAIN known THEN known[h] ELSE {}) =>
                   proofs'[h][y] = proofs[h][y] \/ proofs'[h][y] = 0
    <3>1. DOMAIN known \subseteq History
      BY <2>1
    <3>2. \A h \in DOMAIN known : known[h] \subseteq Subjects /\ IsFiniteSet(known[h])
      BY <2>1, <2>2
    <3>3. CountsOK /\ HistoriesOK /\ epoch' = epoch + 1
      BY <1>2, <1>3
    <3> QED BY <2>3, <3>1, <3>2, <3>3, SetProofsEffect
  <2>5. \A e \in 0..epoch : Barred(Absent, c, e)'
    BY <2>1, <2>4
  <2>6. ASSUME NEW d \in Characters, d # c
        PROVE  proofs'[Absent][d] = proofs[Absent][d] \/ proofs'[Absent][d] = 0
    BY <2>1, <2>2, <2>4, <2>6
  <2> QED BY <2>4, <2>5, <2>6
<1>9. BarsOn
  <2>1. ASSUME NEW i \in withdrawn' \ withdrawn, NEW e \in 0..epoch PROVE ItemBarred(i, e)'
    <3>1. i.kind # Absent /\ i.id[1] = c
      BY <1>1
    <3> QED BY <3>1, <1>8 DEF ItemBarred
  <2> QED BY <2>1, <1>8 DEF BarsOn
<1>10. withdrawn' \subseteq answered
  BY <1>1, <1>3 DEF EvidenceOK
<1>11. TaskOK(task[w])'
  <2>1. x.stage = "emitted" /\ x.q = t.q /\ x.result = t.answer /\ x.clock = clock
    OBVIOUS
  <2>2. clock[Absent] = epoch + 1 /\ epoch + 1 \in 0..(epoch + 1)
    BY <1>3 DEF ClockOf
  <2> HIDE DEF x, clock, p
  <2>3. task'[w] = x
    BY <1>1, <1>3 DEF TasksOK
  <2>4. EmittedOK(task[w])'
    BY <2>1, <2>2, <2>3, <1>1, <1>2, <1>4, <1>6, <1>7 DEF EmittedOK, ResultOK
  <2> QED BY <2>1, <2>3, <2>4 DEF TaskOK
<1>13. KeyOK(k) /\ RecordOK(entry, epoch + 1) /\ ScopesOK(k, entry) /\ k.kind = Absent /\ k.id = c
  <2>1. k.kind = Absent /\ k.id = c
    BY DEF AbsentKey, Key
  <2>2. KeyOK(k)
    BY <1>5 DEF KeyOK
  <2>3. seen \in [{Absent} -> Seen] /\ DOMAIN seen = {Absent} /\ seen[Absent].state = "public"
    BY <1>5 DEF Seen
  <2>4. puts + 1 \in 1..MaxAnswers
    BY <1>0, <1>1, PutRoom
  <2>5. entry.at = puts + 1 /\ entry.seen = seen /\ entry.clock = [s \in {Absent} |-> epoch + 1]
    <3> HIDE DEF seen
    <3> QED BY <2>3 DEF Entry
  <2>6. entry \in [at : 1..MaxAnswers, clock : [{Absent} -> 0..(epoch + 1)], seen : [{Absent} -> Seen]]
    <3>1. [s \in {Absent} |-> epoch + 1] \in [{Absent} -> 0..(epoch + 1)]
      BY <1>3
    <3> HIDE DEF seen
    <3> QED BY <2>3, <2>4, <3>1 DEF Entry
  <2>7. RecordOK(entry, epoch + 1)
    <3> HIDE DEF seen, entry
    <3> QED BY <2>3, <2>5, <2>6 DEF RecordOK
  <2>8. ScopesOK(k, entry)
    <3> HIDE DEF seen, entry, k
    <3> QED BY <2>1, <2>3, <2>5 DEF ScopesOK, Absent
  <2> QED BY <2>1, <2>2, <2>7, <2>8
<1>14. /\ StoreOK(data', epoch + 1) /\ Cardinality(DOMAIN data') <= MaxEntries
       /\ k \in DOMAIN data' => data'[k] = entry
       /\ \A j \in DOMAIN data' : j # k => j \in DOMAIN data /\ ~ OfCharacter(j, c) /\ data'[j] = data[j]
  <2> DEFINE d0 == Without(data, swept)
             d1 == With(d0, k, entry)
  <2>1. epoch + 1 \in Nat /\ epoch <= epoch + 1
    BY <1>3
  <2>2. StoreOK(data, epoch + 1)
    BY <1>3, <2>1, StoreOutlives
  <2>3. /\ StoreOK(d0, epoch + 1) /\ DOMAIN d0 = DOMAIN data \ swept
        /\ \A j \in DOMAIN d0 : d0[j] = data[j]
    <3> HIDE DEF swept
    <3> QED BY <2>2, RestrictStore DEF Without
  <2> HIDE DEF d0
  <2>4. /\ StoreOK(d1, epoch + 1) /\ DOMAIN d1 = DOMAIN d0 \cup {k} /\ d1[k] = entry
        /\ \A j \in DOMAIN d0 \ {k} : d1[j] = d0[j]
    <3> HIDE DEF entry, k
    <3>1. StoreOK(d0, epoch + 1) /\ KeyOK(k) /\ RecordOK(entry, epoch + 1) /\ ScopesOK(k, entry)
      BY <1>13, <2>3
    <3>2. StoreOK(With(d0, k, entry), epoch + 1)
      BY <3>1, WithStore
    <3>3. DOMAIN d1 = DOMAIN d0 \cup {k} /\ \A j \in DOMAIN d0 \cup {k} : d1[j] = IF j = k THEN entry ELSE d0[j]
      BY DEF With
    <3> QED BY <3>2, <3>3
  <2>5. data' \in Capped(d1)
    BY <1>1 DEF d0
  <2> HIDE DEF d1, entry, k
  <2>6. /\ StoreOK(data', epoch + 1) /\ Cardinality(DOMAIN data') <= MaxEntries
        /\ DOMAIN data' \subseteq DOMAIN d1 /\ \A j \in DOMAIN data' : data'[j] = d1[j]
    BY <2>4, <2>5, CappedStore
  <2> QED BY <2>3, <2>4, <2>6
<1>15. StoreClean'
  <2> SUFFICES ASSUME NEW j \in DOMAIN data', NEW s \in DOMAIN data'[j].seen,
                      data'[j].seen[s].state = "public"
               PROVE  Piece(j.kind, j.id, s, data'[j].seen[s].time) \in answered' \ withdrawn'
    BY DEF StoreClean
  <2>1. CASE j = k
    <3>1. entry.seen = seen
      BY DEF Entry
    <3>2. s = Absent /\ data'[j].seen[s].time = t.time
      BY <2>1, <1>14, <3>1
    <3> QED BY <2>1, <3>2, <1>2, <1>7, <1>13
  <2>2. CASE j # k
    <3> DEFINE i == Piece(j.kind, j.id, s, data[j].seen[s].time)
    <3>1. j \in DOMAIN data /\ ~ OfCharacter(j, c) /\ data'[j] = data[j]
      BY <2>2, <1>14
    <3>2. i \in answered \ withdrawn
      BY <3>1, <1>3 DEF StoreClean
    <3>3. i.kind = j.kind /\ i.id = j.id
      BY DEF Piece
    <3> HIDE DEF i
    <3>4. i \notin withdrawn'
      BY <3>1, <3>2, <3>3, <1>1 DEF OfCharacter
    <3> QED BY <3>1, <3>2, <3>4, <1>2 DEF i
  <2> QED BY <2>1, <2>2
<1>16. AbsencesOK'
  <2>1. lastAbsent' = [d \in Characters |-> lastAbsent'[d]] /\ lastAbsent'[c] = t.time
        /\ \A d \in Characters : d # c => lastAbsent'[d] = lastAbsent[d]
    BY <1>1, <1>3, <1>5 DEF AbsencesOK
  <2>2. ASSUME NEW d \in Characters, AbsentKey(d) \in DOMAIN data'
        PROVE  data'[AbsentKey(d)].seen[Absent].time = lastAbsent'[d]
    <3>1. CASE d = c
      <4>1. entry.seen = seen /\ seen[Absent].time = t.time
        BY DEF Entry
      <4>2. data'[k] = entry
        BY <2>2, <3>1, <1>14
      <4> HIDE DEF entry, seen, k
      <4> QED BY <3>1, <4>1, <4>2, <2>1 DEF k
    <3>2. CASE d # c
      <4>1. AbsentKey(d) # k
        BY <3>2 DEF AbsentKey, Key
      <4>2. AbsentKey(d) \in DOMAIN data /\ data'[AbsentKey(d)] = data[AbsentKey(d)]
        BY <4>1, <2>2, <1>14
      <4>3. data[AbsentKey(d)].seen[Absent].time = lastAbsent[d]
        BY <4>2, <1>3 DEF AbsencesOK
      <4> QED BY <3>2, <4>2, <4>3, <2>1
    <3> QED BY <3>1, <3>2
  <2>3. ASSUME NEW d \in Characters, proofs'[Absent][d] # 0
        PROVE  /\ Piece(Absent, d, Absent, lastAbsent'[d]) \in answered'
               /\ Piece(Absent, d, Absent, lastAbsent'[d]) \in withdrawn' =>
                     proofs'[Absent][d] < floor'["present"] \/ proofs'["present"][d] > proofs'[Absent][d]
    <3>1. CASE d = c
      BY <3>1, <2>1, <1>2, <1>7
    <3>2. CASE d # c
      <4>1. StillBarred /\ answered \subseteq answered'
        BY <1>2, <1>3, <1>9, StaysBarred
      <4> QED BY <2>1, <2>3, <3>2, <4>1, <1>3, <1>8, AbsenceStays
    <3> QED BY <3>1, <3>2
  <2> QED BY <2>1, <2>2, <2>3 DEF AbsencesOK, Barred
<1>17. x.stage = "emitted"
  OBVIOUS
<1> HIDE DEF x, entry, seen, known, clock, p, k, swept
<1> QED BY <1>1, <1>2, <1>8, <1>9, <1>10, <1>11, <1>14, <1>15, <1>16, <1>17, <1>0, PutKeeps

\* What is known of an answer that found rows.
LEMMA FoundFacts ==
  ASSUME Inv, NEW w \in Workers, task[w].stage = "answered", task[w].answer.found = "rows"
  PROVE  LET t == task[w]
         IN  /\ t.q \in Questions /\ t.q.id \in Identities /\ t.q.id[1] \in Characters
             /\ t.q.prefs \in SUBSET Scopes /\ Selected(t.q.kind, t.q.prefs) \subseteq t.q.prefs
             /\ t.epoch \in 0..epoch /\ t.epoch \in Nat /\ t.time \in Times
             /\ t.answer = Rows(t.answer.seen)
             /\ DOMAIN t.answer.seen = Selected(t.q.kind, t.q.prefs)
             /\ \A s \in DOMAIN t.answer.seen :
                    t.answer.seen[s] \in Seen /\ t.answer.seen[s].time = t.time
<1>0. PICK t : t = task[w]
  OBVIOUS
<1>1. /\ AnsweredOK(t) /\ t.q \in Questions
      /\ \/ t.answer = IsAbsent(t.time)
         \/ /\ t.answer = Rows(t.answer.seen)
            /\ t.answer.seen \in
                  [Selected(t.q.kind, t.q.prefs) -> [state : {"public", "private"}, time : {t.time}]]
  BY <1>0, AnswerFacts
<1>2. t.answer # IsAbsent(t.time)
  BY <1>0 DEF IsAbsent, Absent
<1>3. t.time \in Times
  <2>1. t.time \in 1..time /\ time \in 0..MaxAnswers
    BY <1>1 DEF AnsweredOK, Inv, CountsOK
  <2> QED BY <2>1, BoundAssumption DEF Times
<1>4. t.epoch \in 0..epoch /\ t.epoch \in Nat
  BY <1>1 DEF AnsweredOK, Inv, CountsOK
<1>5. ASSUME NEW s \in DOMAIN t.answer.seen
      PROVE  t.answer.seen[s] \in Seen /\ t.answer.seen[s].time = t.time
  <2>1. t.answer.seen[s] \in [state : {"public", "private"}, time : {t.time}]
    BY <1>1, <1>2
  <2> QED BY <2>1, <1>3 DEF Seen
<1>6. DOMAIN t.answer.seen = Selected(t.q.kind, t.q.prefs)
  BY <1>1, <1>2
<1> QED BY <1>0, <1>1, <1>2, <1>3, <1>4, <1>5, <1>6, QuestionFacts

LEMMA PairsFacts ==
  ASSUME NEW id \in Identities, NEW S \in SUBSET Scopes
  PROVE  Pairs(id, S) \subseteq Subjects /\ IsFiniteSet(Pairs(id, S)) /\ \A s \in S : <<id, s>> \in Pairs(id, S)
<1>1. IsFiniteSet(S)
  BY ScopeAssumption, FS_Subset
<1>2. IsFiniteSet(Pairs(id, S))
  <2>1. IsFiniteSet({id} \X S)
    BY <1>1, FS_Singleton, FS_Product
  <2>2. Pairs(id, S) = {id} \X S
    BY DEF Pairs
  <2> QED BY <2>1, <2>2
<1> QED BY <1>2 DEF Pairs, Subjects

\* The entry that a put writes.
LEMMA NewEntry ==
  ASSUME Inv, NEW w \in Workers, task[w].stage = "answered",
         NEW seen, seen = [s \in DOMAIN seen |-> seen[s]], \A s \in DOMAIN seen : seen[s] \in Seen
  PROVE  /\ RecordOK(Entry(seen), epoch + 1)
         /\ Entry(seen).seen = seen
<1> DEFINE entry == Entry(seen)
<1>1. puts + 1 \in 1..MaxAnswers /\ epoch \in Nat
  BY PutRoom DEF Inv, CountsOK
<1>2. seen \in [DOMAIN seen -> Seen]
  OBVIOUS
<1>3. [s \in DOMAIN seen |-> epoch + 1] \in [DOMAIN seen -> 0..(epoch + 1)]
  BY <1>1
<1>4. entry \in [at : 1..MaxAnswers, clock : [DOMAIN seen -> 0..(epoch + 1)], seen : [DOMAIN seen -> Seen]]
  BY <1>1, <1>2, <1>3 DEF Entry
<1>5. entry.seen = seen
  BY DEF Entry
<1> HIDE DEF entry
<1>6. RecordOK(entry, epoch + 1)
  BY <1>4, <1>5 DEF RecordOK
<1> QED BY <1>5, <1>6 DEF entry

\* A put of rows proves that the character is there.
LEMMA FoundProofs ==
  ASSUME CountsOK, HistoriesOK, epoch' = epoch + 1,
         NEW id \in Identities, NEW ranks \in SUBSET Scopes, NEW details \in SUBSET Scopes, NEW known,
         \/ known = [summary |-> Pairs(id, ranks), present |-> {id[1]}, detail |-> Pairs(id, details)]
         \/ known = [detail |-> Pairs(id, details), present |-> {id[1]}] /\ ranks = {},
         SetProofs(known)
  PROVE  /\ HistoriesOK'
         /\ \A h \in History, y \in Subjects, e \in Nat : Barred(h, y, e) => Barred(h, y, e)'
         /\ \A e \in 0..epoch :
                /\ Barred("present", id[1], e)'
                /\ \A s \in ranks : Barred("summary", <<id, s>>, e)'
                /\ \A s \in details : Barred("detail", <<id, s>>, e)'
         /\ \A d \in Characters : proofs'[Absent][d] = proofs[Absent][d]
<1> DEFINE c == id[1]
<1>1. /\ \/ DOMAIN known = {"summary", "present", "detail"} /\ known["summary"] = Pairs(id, ranks)
         \/ DOMAIN known = {"detail", "present"} /\ ranks = {}
      /\ known["present"] = {c} /\ known["detail"] = Pairs(id, details)
  <2>1. CASE known = [summary |-> Pairs(id, ranks), present |-> {id[1]}, detail |-> Pairs(id, details)]
    BY <2>1
  <2>2. CASE known = [detail |-> Pairs(id, details), present |-> {id[1]}] /\ ranks = {}
    BY <2>2
  <2> QED BY <2>1, <2>2
<1>2. c \in Characters /\ {c} \subseteq Subjects /\ IsFiniteSet({c})
  BY FS_Singleton DEF Identities, Subjects
<1>3. /\ Pairs(id, ranks) \subseteq Subjects /\ IsFiniteSet(Pairs(id, ranks))
      /\ \A s \in ranks : <<id, s>> \in Pairs(id, ranks)
      /\ Pairs(id, details) \subseteq Subjects /\ IsFiniteSet(Pairs(id, details))
      /\ \A s \in details : <<id, s>> \in Pairs(id, details)
  BY PairsFacts
<1> HIDE DEF c
<1>4. DOMAIN known \subseteq History
  BY <1>1 DEF History
<1>5. \A h \in DOMAIN known : known[h] \subseteq Subjects /\ IsFiniteSet(known[h])
  BY <1>1, <1>2, <1>3
<1>6. /\ HistoriesOK'
      /\ \A h \in History, y \in Subjects, e \in Nat : Barred(h, y, e) => Barred(h, y, e)'
      /\ \A h \in DOMAIN known : \A y \in known[h], e \in 0..epoch : Barred(h, y, e)'
      /\ \A h \in History \ DOMAIN known : proofs'[h] = proofs[h] /\ floor'[h] = floor[h]
  BY <1>4, <1>5, SetProofsEffect
<1>7. ASSUME NEW e \in 0..epoch PROVE Barred("present", c, e)'
  <2>1. "present" \in DOMAIN known /\ c \in known["present"]
    BY <1>1
  <2> QED BY <2>1, <1>6
<1>8. ASSUME NEW e \in 0..epoch, NEW s \in ranks PROVE Barred("summary", <<id, s>>, e)'
  <2>1. "summary" \in DOMAIN known /\ <<id, s>> \in known["summary"]
    BY <1>1, <1>3
  <2> QED BY <2>1, <1>6
<1>9. ASSUME NEW e \in 0..epoch, NEW s \in details PROVE Barred("detail", <<id, s>>, e)'
  <2>1. "detail" \in DOMAIN known /\ <<id, s>> \in known["detail"]
    BY <1>1, <1>3
  <2> QED BY <2>1, <1>6
<1>10. \A d \in Characters : proofs'[Absent][d] = proofs[Absent][d]
  <2>1. Absent \in History \ DOMAIN known
    BY <1>1 DEF Absent, History
  <2> QED BY <2>1, <1>6
<1> QED BY <1>6, <1>7, <1>8, <1>9, <1>10 DEF c

\* A put of rows leaves other absences as they are.
LEMMA FoundAbsences ==
  ASSUME AbsencesOK, HistoriesOK, StillBarred, answered \subseteq answered', epoch \in Nat,
         lastAbsent' = lastAbsent,
         \A j \in DOMAIN data' : j.kind = Absent => j \in DOMAIN data /\ data'[j] = data[j],
         \A d \in Characters : proofs'[Absent][d] = proofs[Absent][d]
  PROVE  AbsencesOK'
<1>1. lastAbsent' = [d \in Characters |-> lastAbsent'[d]]
  BY DEF AbsencesOK
<1>2. ASSUME NEW d \in Characters, AbsentKey(d) \in DOMAIN data'
      PROVE  data'[AbsentKey(d)].seen[Absent].time = lastAbsent'[d]
  <2>1. AbsentKey(d).kind = Absent
    BY DEF AbsentKey, Key
  <2>2. AbsentKey(d) \in DOMAIN data /\ data'[AbsentKey(d)] = data[AbsentKey(d)]
    BY <1>2, <2>1
  <2> QED BY <2>2 DEF AbsencesOK
<1>3. ASSUME NEW d \in Characters, proofs'[Absent][d] # 0
      PROVE  /\ Piece(Absent, d, Absent, lastAbsent'[d]) \in answered'
             /\ Piece(Absent, d, Absent, lastAbsent'[d]) \in withdrawn' =>
                   proofs'[Absent][d] < floor'["present"] \/ proofs'["present"][d] > proofs'[Absent][d]
  BY <1>3, AbsenceStays
<1> QED BY <1>1, <1>2, <1>3 DEF AbsencesOK, Barred

\* What a put of rows emits was answered and counts.
LEMMA FoundTask ==
  ASSUME TasksOK, epoch \in Nat, epoch' = epoch + 1, NEW w \in Workers, NEW q \in Questions,
         NEW seen, DOMAIN seen \subseteq Selected(q.kind, q.prefs), NEW x,
         x = [stage |-> "emitted", q |-> q, result |-> Rows(seen), clock |-> ClockOf(DOMAIN seen, epoch + 1)],
         task' = [task EXCEPT ![w] = x],
         Items(q, Rows(seen)) \subseteq answered' \ withdrawn'
  PROVE  TaskOK(task[w])'
<1>1. x.stage = "emitted" /\ x.q = q /\ x.result = Rows(seen) /\ x.clock = ClockOf(DOMAIN seen, epoch + 1)
  OBVIOUS
<1>2. task'[w] = x
  BY DEF TasksOK
<1>3. Rows(seen).found = "rows" /\ Rows(seen).seen = seen
  BY DEF Rows
<1>4. \A s \in DOMAIN seen : ClockOf(DOMAIN seen, epoch + 1)[s] \in 0..(epoch + 1)
  BY DEF ClockOf
<1>5. EmittedOK(task[w])'
  BY <1>1, <1>2, <1>3, <1>4 DEF EmittedOK, ResultOK
<1> QED BY <1>1, <1>2, <1>5 DEF TaskOK

LEMMA PutRanksKeeps ==
  ASSUME Inv, NEW w \in Workers, PutRanks(w)
  PROVE  Inv'
<1>0. PICK t, e, id, c : t = task[w] /\ e = t.epoch /\ id = t.q.id /\ c = id[1]
  OBVIOUS
<1> DEFINE seen == t.answer.seen
           private == Private(seen)
           raids == private \cap RaidScopes
           k == Key("rank", id, t.q.prefs)
           clock == ClockOf(t.q.prefs, epoch + 1)
           x == [stage |-> "emitted", q |-> t.q, result |-> t.answer, clock |-> clock]
           d0 == Without(data, {AbsentKey(c)})
           d1 == With(d0, k, Entry(seen))
<1>1. /\ t.stage = "answered" /\ t.q.kind = "rank" /\ t.answer.found = "rows" /\ Eligible(t) # {}
      /\ task' = [task EXCEPT ![w] = x]
      /\ Stored /\ lastAbsent' = lastAbsent
  BY <1>0 DEF PutRanks, Responded
<1>2. PICK stored \in Capped(d1) :
         LET ranks == RetractRanks(stored, id, private, e, t.time)
             counts == PrivacyCounts(ranks, id, raids, e)
         IN  /\ data' \in IF raids = {} THEN {ranks} ELSE Capped(RetractDetails(ranks, id, counts, e, t.time))
             /\ SetProofs([summary |-> Pairs(id, t.q.prefs), present |-> {c}, detail |-> Pairs(id, counts)])
             /\ withdrawn' = withdrawn
                   \cup Older(Absent, c, {Absent}, t.time) \cup Older("rank", id, private, t.time)
                   \cup Older("detail", id, counts \cup Unopposed(id, raids, e), t.time)
  BY <1>0 DEF PutRanks
<1>3. PICK ranks, counts :
         /\ ranks = RetractRanks(stored, id, private, e, t.time)
         /\ counts = PrivacyCounts(ranks, id, raids, e)
  OBVIOUS
<1>4. /\ data' \in IF raids = {} THEN {ranks} ELSE Capped(RetractDetails(ranks, id, counts, e, t.time))
      /\ SetProofs([summary |-> Pairs(id, t.q.prefs), present |-> {c}, detail |-> Pairs(id, counts)])
      /\ withdrawn' = withdrawn
            \cup Older(Absent, c, {Absent}, t.time) \cup Older("rank", id, private, t.time)
            \cup Older("detail", id, counts \cup Unopposed(id, raids, e), t.time)
  BY <1>2, <1>3
<1>5. epoch' = epoch + 1 /\ puts' = puts + 1 /\ delivered' = {} /\ time' = time /\ answered' = answered
  BY <1>1 DEF Stored
<1>6. /\ CountsOK /\ EvidenceOK /\ StoreOK(data, epoch) /\ StoreClean /\ HistoriesOK /\ TasksOK
      /\ AbsencesOK /\ epoch \in Nat /\ Cardinality(DOMAIN data) <= MaxEntries
  BY DEF Inv, CountsOK
<1>7. /\ t.q \in Questions /\ id \in Identities /\ c \in Characters /\ t.q.prefs \in SUBSET Scopes
      /\ e \in 0..epoch /\ e \in Nat /\ t.time \in Times /\ t.answer = Rows(seen)
      /\ DOMAIN seen = t.q.prefs /\ Selected(t.q.kind, t.q.prefs) = t.q.prefs
      /\ \A s \in DOMAIN seen : seen[s] \in Seen /\ seen[s].time = t.time
  <2>1. Selected(t.q.kind, t.q.prefs) = t.q.prefs
    BY <1>1 DEF Selected
  <2> QED BY <2>1, <1>0, <1>1, FoundFacts
<1>8. private \subseteq t.q.prefs /\ raids \subseteq private /\ raids \subseteq RaidScopes /\ raids \subseteq Scopes
      /\ counts \subseteq raids
  BY <1>3, <1>7 DEF Private, PrivacyCounts
<1>9. \A s \in t.q.prefs : MayCount(t.q, s, e)
  <2>1. PICK s \in DOMAIN seen : MayCount(t.q, s, e)
    BY <1>0, <1>1 DEF Eligible, Absent
  <2> QED BY <2>1, <1>1 DEF MayCount
<1> USE <1>0
<1> HIDE DEF private, raids
\* The store.
<1>10. /\ StoreOK(stored, epoch + 1) /\ Cardinality(DOMAIN stored) <= MaxEntries
       /\ k \in DOMAIN stored => stored[k].seen = seen
       /\ \A j \in DOMAIN stored : j # k => j \in DOMAIN data /\ j # AbsentKey(c) /\ stored[j] = data[j]
  <2>1. epoch + 1 \in Nat /\ StoreOK(data, epoch + 1)
    BY <1>6, StoreOutlives
  <2>2. /\ StoreOK(d0, epoch + 1) /\ DOMAIN d0 = DOMAIN data \ {AbsentKey(c)}
        /\ \A j \in DOMAIN d0 : d0[j] = data[j]
    BY <2>1, RestrictStore DEF Without
  <2>3. seen = [s \in DOMAIN seen |-> seen[s]]
    <3>1. AnsweredOK(t) /\ (t.answer = IsAbsent(t.time) \/ seen \in [Selected(t.q.kind, t.q.prefs) -> [state : {"public", "private"}, time : {t.time}]])
      BY <1>1, AnswerFacts
    <3>2. t.answer # IsAbsent(t.time)
      BY <1>1 DEF IsAbsent, Absent
    <3> QED BY <3>1, <3>2
  <2>4. RecordOK(Entry(seen), epoch + 1) /\ Entry(seen).seen = seen
    <3> HIDE DEF seen
    <3> QED BY <2>3, <1>1, <1>7, NewEntry
  <2>5. KeyOK(k) /\ k.kind = "rank" /\ k.prefs = t.q.prefs
    BY <1>7 DEF Key, KeyOK, RowKeys
  <2>6. ScopesOK(k, Entry(seen))
    <3> HIDE DEF k, seen
    <3> QED BY <2>4, <2>5, <1>7 DEF ScopesOK, Absent
  <2> HIDE DEF d0, k, seen
  <2>7. StoreOK(d1, epoch + 1)
    BY <2>2, <2>4, <2>5, <2>6, WithStore
  <2>8. DOMAIN d1 = DOMAIN d0 \cup {k} /\ \A j \in DOMAIN d0 \cup {k} : d1[j] = IF j = k THEN Entry(seen) ELSE d0[j]
    BY DEF With
  <2> HIDE DEF d1
  <2>9. /\ StoreOK(stored, epoch + 1) /\ Cardinality(DOMAIN stored) <= MaxEntries
        /\ DOMAIN stored \subseteq DOMAIN d1 /\ \A j \in DOMAIN stored : stored[j] = d1[j]
    BY <2>7, <1>2, CappedStore
  <2> QED BY <2>2, <2>4, <2>8, <2>9
<1> HIDE DEF k, d0, d1
<1>11. /\ StoreOK(ranks, epoch + 1) /\ DOMAIN ranks = DOMAIN stored
       /\ \A j \in DOMAIN stored : j.kind # "rank" => ranks[j] = stored[j]
       /\ \A j \in DOMAIN stored :
              /\ ranks[j].clock = stored[j].clock /\ DOMAIN ranks[j].seen = DOMAIN stored[j].seen
              /\ \A s \in DOMAIN stored[j].seen : ranks[j].seen[s].state = "public" =>
                    /\ ranks[j].seen[s] = stored[j].seen[s]
                    /\ j.kind = "rank" /\ j.id = id /\ s \in private =>
                          \E y \in DOMAIN stored[j].clock : ~ (stored[j].clock[y] <= e)
  <2>1. StoreOK(stored, epoch + 1) /\ e \in Nat /\ t.time \in Times
    BY <1>7, <1>10
  <2>2. StoreOK(ranks, epoch + 1) /\ RanksHidden(stored, ranks, id, private, e)
    BY <2>1, <1>3, RetractRanksStore
  <2> QED BY <2>2 DEF RanksHidden
<1>12. /\ StoreOK(data', epoch + 1) /\ Cardinality(DOMAIN data') <= MaxEntries
       /\ \A j \in DOMAIN data' : j.kind # "detail" => j \in DOMAIN ranks /\ data'[j] = ranks[j]
       /\ \A j \in DOMAIN data' : \A s \in DOMAIN data'[j].seen : data'[j].seen[s].state = "public" =>
             /\ j \in DOMAIN ranks /\ s \in DOMAIN ranks[j].seen
             /\ data'[j].seen[s] = ranks[j].seen[s]
             /\ j.kind = "detail" /\ j.id = id /\ s \in counts => ~ (ranks[j].clock[s] <= e)
  <2>1. CASE raids = {}
    <3>1. data' = ranks /\ counts = {}
      BY <2>1, <1>4, <1>8
    <3> QED BY <3>1, <1>10, <1>11
  <2>2. CASE raids # {}
    <3>1. PICK r : r = RetractDetails(ranks, id, counts, e, t.time)
      OBVIOUS
    <3>2. puts + 1 \in 1..MaxAnswers
      BY <1>1, PutRoom
    <3>3. counts \in SUBSET RaidScopes
      BY <1>8
    <3>4. /\ StoreOK(r, epoch + 1)
          /\ \A j \in DOMAIN r : j.kind # "detail" => j \in DOMAIN ranks /\ r[j] = ranks[j]
          /\ \A j \in DOMAIN r : \A s \in DOMAIN r[j].seen : r[j].seen[s].state = "public" =>
                /\ j \in DOMAIN ranks /\ s \in DOMAIN ranks[j].seen
                /\ r[j].seen[s] = ranks[j].seen[s]
                /\ j.kind = "detail" /\ j.id = id /\ s \in counts => ~ (ranks[j].clock[s] <= e)
      <4>1. StoreOK(ranks, epoch + 1) /\ e \in Nat /\ t.time \in Times /\ id \in Identities /\ epoch \in Nat
        BY <1>6, <1>7, <1>11
      <4>2. StoreOK(r, epoch + 1) /\ DetailsHidden(ranks, r, id, counts, e)
        BY <3>1, <3>2, <3>3, <4>1, RetractDetailsStore
      <4> QED BY <4>2 DEF DetailsHidden
    <3>5. data' \in Capped(r)
      BY <2>2, <3>1, <1>4
    <3>6. /\ StoreOK(data', epoch + 1) /\ Cardinality(DOMAIN data') <= MaxEntries
          /\ DOMAIN data' \subseteq DOMAIN r /\ \A j \in DOMAIN data' : data'[j] = r[j]
      BY <3>4, <3>5, CappedStore
    <3> QED BY <3>4, <3>6
  <2> QED BY <2>1, <2>2
\* The histories, and what they bar.
<1>13. /\ HistoriesOK'
       /\ \A h \in History, y \in Subjects, f \in Nat : Barred(h, y, f) => Barred(h, y, f)'
       /\ \A f \in 0..epoch :
              /\ Barred("present", c, f)'
              /\ \A s \in t.q.prefs : Barred("summary", <<id, s>>, f)'
              /\ \A s \in counts : Barred("detail", <<id, s>>, f)'
       /\ \A d \in Characters : proofs'[Absent][d] = proofs[Absent][d]
  <2>1. PICK known : known = [summary |-> Pairs(id, t.q.prefs), present |-> {id[1]}, detail |-> Pairs(id, counts)]
    OBVIOUS
  <2>2. SetProofs(known) /\ counts \in SUBSET Scopes
    BY <2>1, <1>4, <1>8
  <2> QED BY <2>1, <2>2, <1>5, <1>6, <1>7, FoundProofs
\* Privacy nobody opposes counts.
<1>14. Unopposed(id, raids, e) \subseteq counts
  <2> SUFFICES ASSUME NEW s \in raids, ~ DetailSince(id, s, e)
               PROVE  s \in counts
    BY DEF Unopposed
  <2>1. e >= floor["detail"] /\ proofs["detail"][<<id, s>>] <= e
    <3>1. <<id, s>> \in Subjects /\ "detail" \in History
      BY <1>7, <1>8 DEF Subjects, History
    <3>2. floor["detail"] \in 0..epoch /\ proofs["detail"][<<id, s>>] \in 0..epoch
      BY <3>1, <1>6 DEF HistoriesOK, HistoryOK
    <3>3. ~ (e < floor["detail"]) /\ ~ (proofs["detail"][<<id, s>>] > e)
      BY DEF DetailSince
    <3> QED BY <3>2, <3>3, <1>7
  <2>2. ~ DetailEntrySince(ranks, id, s, e, {"public"})
    <3> SUFFICES ASSUME NEW j \in DOMAIN ranks, j.kind = "detail", j.id = id, s \in DOMAIN ranks[j].seen,
                        ranks[j].clock[s] > e, ranks[j].seen[s].state = "public"
                 PROVE  FALSE
      BY DEF DetailEntrySince
    <3>1. j # k
      BY DEF k, Key
    <3>2. j \in DOMAIN data /\ ranks[j] = data[j]
      BY <3>1, <1>10, <1>11
    <3>3. DetailEntrySince(data, id, s, e, {"public", "private"})
      BY <3>2 DEF DetailEntrySince
    <3> QED BY <3>3 DEF DetailSince
  <2> QED BY <2>1, <2>2, <1>3 DEF PrivacyCounts
<1>15. /\ withdrawn \subseteq withdrawn'
       /\ \A i \in withdrawn' \ withdrawn :
              /\ i \in answered /\ i.time < t.time
              /\ \/ i.kind = Absent /\ i.id = c
                 \/ i.kind = "rank" /\ i.id = id /\ i.scope \in private
                 \/ i.kind = "detail" /\ i.id = id /\ i.scope \in counts
  BY <1>4, <1>14 DEF Older
<1>16. BarsOn
  <2>1. ASSUME NEW i \in withdrawn' \ withdrawn, NEW f \in 0..epoch PROVE ItemBarred(i, f)'
    <3>1. CASE i.kind = Absent /\ i.id = c
      BY <3>1, <1>13 DEF ItemBarred
    <3>2. CASE i.kind = "rank" /\ i.id = id /\ i.scope \in private
      <4>1. i.kind # Absent /\ Barred("summary", <<i.id, i.scope>>, f)'
        BY <3>2, <1>8, <1>13 DEF Absent
      <4> QED BY <3>2, <4>1 DEF ItemBarred
    <3>3. CASE i.kind = "detail" /\ i.id = id /\ i.scope \in counts
      <4>1. i.kind # Absent /\ Barred("detail", <<i.id, i.scope>>, f)'
        BY <3>3, <1>13 DEF Absent
      <4> QED BY <3>3, <4>1 DEF ItemBarred
    <3> QED BY <2>1, <3>1, <3>2, <3>3, <1>15
  <2> QED BY <2>1, <1>13 DEF BarsOn
<1>17. withdrawn' \subseteq answered
  BY <1>15, <1>6 DEF EvidenceOK
\* The answer stands.
<1>18. Items(t.q, t.answer) \subseteq answered \ withdrawn'
  <2> SUFFICES ASSUME NEW i \in Items(t.q, t.answer)
               PROVE  i \in answered /\ i \notin withdrawn'
    OBVIOUS
  <2>1. i \in answered /\ i.time = t.time /\ (i \in withdrawn => ItemBarred(i, e))
    BY <1>1, AnswerStands
  <2>2. PICK s \in DOMAIN seen : i = Piece(t.q.kind, t.q.id, s, seen[s].time)
    BY <1>1 DEF Items, Piece, Absent
  <2>3. s \in Selected(t.q.kind, t.q.prefs) /\ MayCount(t.q, s, e)
    BY <1>7, <1>9
  <2>4. ~ ItemBarred(i, e)
    <3> HIDE DEF seen
    <3> QED BY <2>2, <2>3, <1>7, CountsUnbarred
  <2>5. ~ (i.time < t.time)
    BY <2>1, <1>7 DEF Times
  <2> QED BY <2>1, <2>4, <2>5, <1>15
<1>19. StoreClean'
  <2> SUFFICES ASSUME NEW j \in DOMAIN data', NEW s \in DOMAIN data'[j].seen,
                      data'[j].seen[s].state = "public"
               PROVE  Piece(j.kind, j.id, s, data'[j].seen[s].time) \in answered' \ withdrawn'
    BY DEF StoreClean
  <2>1. /\ j \in DOMAIN ranks /\ s \in DOMAIN ranks[j].seen
        /\ data'[j].seen[s] = ranks[j].seen[s]
        /\ j.kind = "detail" /\ j.id = id /\ s \in counts => ~ (ranks[j].clock[s] <= e)
    BY <1>12
  <2>2. /\ j \in DOMAIN stored /\ s \in DOMAIN stored[j].seen
        /\ ranks[j].seen[s] = stored[j].seen[s] /\ ranks[j].clock = stored[j].clock
        /\ j.kind = "rank" /\ j.id = id /\ s \in private =>
              \E y \in DOMAIN stored[j].clock : ~ (stored[j].clock[y] <= e)
    BY <2>1, <1>11
  <2>3. CASE j = k
    <3>1. k.kind = t.q.kind /\ k.id = t.q.id
      BY <1>1 DEF k, Key
    <3>2. s \in DOMAIN seen /\ seen[s].state = "public" /\ data'[j].seen[s] = seen[s]
      BY <2>1, <2>2, <2>3, <1>10
    <3>3. Piece(t.q.kind, t.q.id, s, seen[s].time) \in Items(t.q, t.answer)
      BY <3>2, <1>1 DEF Items, Piece, Absent
    <3> QED BY <2>3, <3>1, <3>2, <3>3, <1>5, <1>18
  <2>4. CASE j # k
    <3>1. PICK i : i = Piece(j.kind, j.id, s, data[j].seen[s].time)
      OBVIOUS
    <3>2. j \in DOMAIN data /\ j # AbsentKey(c) /\ stored[j] = data[j]
      BY <2>2, <2>4, <1>10
    <3>3. i \in answered \ withdrawn
      BY <2>1, <2>2, <3>1, <3>2, <1>6 DEF StoreClean
    <3>4. i.kind = j.kind /\ i.id = j.id /\ i.scope = s
      BY <3>1 DEF Piece
    <3>5. /\ KeyOK(j) /\ ScopesOK(j, data[j]) /\ DOMAIN data[j].clock = DOMAIN data[j].seen
          /\ \A y \in DOMAIN data[j].seen : data[j].clock[y] \in 0..epoch
      BY <3>2, <1>6, EntryFacts
    <3>6. ~ (i.kind = Absent /\ i.id = c)
      <4>1. CASE j \in RowKeys
        BY <3>4, <4>1 DEF RowKeys, Absent
      <4>2. CASE \E a \in Characters : j = AbsentKey(a)
        BY <3>2, <3>4, <4>2 DEF AbsentKey, Key
      <4> QED BY <3>5, <4>1, <4>2 DEF KeyOK
    <3>7. ~ (i.kind = "rank" /\ i.id = id /\ i.scope \in private)
      <4> SUFFICES ASSUME j.kind = "rank", j.id = id, s \in private PROVE FALSE
        BY <3>4
      <4>1. PICK y \in DOMAIN data[j].clock : ~ (data[j].clock[y] <= e)
        BY <2>2, <3>2
      <4>2. data[j].clock[y] > e
        BY <4>1, <3>5, <1>7
      <4>3. NewerEntry(j, e)
        BY <4>1, <4>2, <3>2 DEF NewerEntry
      <4>4. s \in j.prefs \cap t.q.prefs
        BY <2>2, <3>2, <3>5, <1>8 DEF ScopesOK
      <4>5. SummarySince(id, t.q.prefs, e)
        BY <4>3, <4>4, <3>2 DEF SummarySince
      <4>6. PICK z \in t.q.prefs : MayCount(t.q, z, e)
        BY <4>4, <1>9
      <4> QED BY <4>5, <4>6, <1>1 DEF MayCount
    <3>8. ~ (i.kind = "detail" /\ i.id = id /\ i.scope \in counts)
      <4> SUFFICES ASSUME j.kind = "detail", j.id = id, s \in counts PROVE FALSE
        BY <3>4
      <4>1. ~ (ranks[j].clock[s] <= e)
        BY <2>1
      <4>2. ranks[j].clock[s] \in 0..epoch
        BY <2>2, <3>2, <3>5
      <4>3. ranks[j].clock[s] > e
        BY <4>1, <4>2, <1>7
      <4>4. DetailEntrySince(ranks, id, s, e, {"public"})
        BY <4>3, <2>1 DEF DetailEntrySince
      <4> QED BY <4>4, <1>3 DEF PrivacyCounts
    <3>9. i \notin withdrawn'
      BY <3>3, <3>6, <3>7, <3>8, <1>15
    <3>10. data'[j].seen[s].time = data[j].seen[s].time
      BY <2>1, <2>2, <3>2
    <3> QED BY <3>1, <3>3, <3>9, <3>10, <1>5
  <2> QED BY <2>3, <2>4
<1>20. AbsencesOK'
  <2>1. StillBarred /\ answered \subseteq answered'
    BY <1>5, <1>6, <1>16, StaysBarred
  <2>2. ASSUME NEW j \in DOMAIN data', j.kind = Absent
        PROVE  j \in DOMAIN data /\ data'[j] = data[j]
    <3>1. j.kind # "detail" /\ j.kind # "rank"
      BY <2>2 DEF Absent
    <3>2. j # k
      BY <3>1 DEF k, Key
    <3> QED BY <3>1, <3>2, <1>10, <1>11, <1>12
  <2> QED BY <2>1, <2>2, <1>1, <1>6, <1>13, FoundAbsences
<1>21. TaskOK(task[w])'
  <2>1. t.answer = Rows(seen) /\ clock = ClockOf(DOMAIN seen, epoch + 1)
        /\ DOMAIN seen \subseteq Selected(t.q.kind, t.q.prefs)
    BY <1>7
  <2>2. x = [stage |-> "emitted", q |-> t.q, result |-> Rows(seen), clock |-> ClockOf(DOMAIN seen, epoch + 1)]
    BY <2>1
  <2>3. Items(t.q, Rows(seen)) \subseteq answered' \ withdrawn'
    BY <2>1, <1>5, <1>18
  <2>4. task' = [task EXCEPT ![w] = x]
    BY <1>1
  <2> HIDE DEF seen, x
  <2> QED BY <2>1, <2>2, <2>3, <2>4, <1>5, <1>6, <1>7, FoundTask
<1>22. x.stage = "emitted" /\ task' = [task EXCEPT ![w] = x]
  BY <1>1
<1> HIDE DEF x
<1> QED BY <1>1, <1>5, <1>12, <1>13, <1>16, <1>17, <1>19, <1>20, <1>21, <1>22, PutKeeps

LEMMA PutDetailsKeeps ==
  ASSUME Inv, NEW w \in Workers, PutDetails(w)
  PROVE  Inv'
<1>0. PICK t, e, id, c : t = task[w] /\ e = t.epoch /\ id = t.q.id /\ c = id[1]
  OBVIOUS
<1> DEFINE all == t.answer.seen
           k == Key("detail", id, t.q.prefs)
           d0 == Without(data, {AbsentKey(c)})
<1>1. PICK seen, stored, counts, x :
         /\ seen = Restrict(all, Eligible(t))
         /\ stored = With(d0, k, Entry(seen))
         /\ counts = PrivacyCounts(stored, id, Private(seen), e)
         /\ x = [stage |-> "emitted", q |-> t.q, result |-> Rows(seen), clock |-> ClockOf(DOMAIN seen, epoch + 1)]
  OBVIOUS
<1>2. /\ t.stage = "answered" /\ t.q.kind = "detail" /\ t.answer.found = "rows" /\ Eligible(t) # {}
      /\ data' \in Capped(RetractDetails(stored, id, counts, e, t.time))
      /\ SetProofs([detail |-> Pairs(id, DOMAIN seen), present |-> {c}])
      /\ task' = [task EXCEPT ![w] = x]
      /\ withdrawn' = withdrawn
            \cup Older(Absent, c, {Absent}, t.time) \cup Older("detail", id, Private(seen), t.time)
      /\ lastAbsent' = lastAbsent /\ Stored
  BY <1>0, <1>1 DEF PutDetails, Responded
<1>3. epoch' = epoch + 1 /\ puts' = puts + 1 /\ delivered' = {} /\ time' = time /\ answered' = answered
  BY <1>2 DEF Stored
<1>4. /\ CountsOK /\ EvidenceOK /\ StoreOK(data, epoch) /\ StoreClean /\ HistoriesOK /\ TasksOK
      /\ AbsencesOK /\ epoch \in Nat
  BY DEF Inv, CountsOK
<1>5. /\ t.q \in Questions /\ id \in Identities /\ c \in Characters /\ t.q.prefs \in SUBSET Scopes
      /\ Selected(t.q.kind, t.q.prefs) \subseteq t.q.prefs
      /\ e \in 0..epoch /\ e \in Nat /\ t.time \in Times
      /\ DOMAIN all = Selected(t.q.kind, t.q.prefs)
      /\ \A s \in DOMAIN all : all[s] \in Seen /\ all[s].time = t.time
  BY <1>0, <1>2, FoundFacts
<1>6. /\ DOMAIN seen \subseteq Selected(t.q.kind, t.q.prefs) /\ DOMAIN seen \subseteq t.q.prefs \cap RaidScopes
      /\ seen = [s \in DOMAIN seen |-> seen[s]]
      /\ \A s \in DOMAIN seen : /\ seen[s] = all[s] /\ seen[s] \in Seen /\ seen[s].time = t.time
                                /\ MayCount(t.q, s, e)
  <2>1. Eligible(t) = {s \in DOMAIN all : MayCount(t.q, s, e)}
    BY <1>0, <1>2 DEF Eligible, Absent
  <2>2. Selected(t.q.kind, t.q.prefs) = t.q.prefs \cap RaidScopes
    BY <1>2 DEF Selected
  <2>3. seen = [s \in Eligible(t) |-> all[s]]
    BY <1>1, <2>1 DEF Restrict
  <2>4. DOMAIN seen = Eligible(t) /\ \A s \in Eligible(t) : seen[s] = all[s]
    BY <2>3
  <2>5. DOMAIN seen \subseteq Selected(t.q.kind, t.q.prefs)
    BY <2>1, <2>4, <1>5
  <2> HIDE DEF all
  <2>6. seen = [s \in DOMAIN seen |-> seen[s]]
    BY <2>3
  <2> QED BY <2>1, <2>2, <2>4, <2>5, <2>6, <1>5
<1>7. /\ Private(seen) \subseteq DOMAIN seen /\ counts \subseteq Private(seen)
      /\ counts \subseteq RaidScopes /\ DOMAIN seen \subseteq Scopes
  BY <1>1, <1>5, <1>6 DEF Private, PrivacyCounts
<1> USE <1>0
\* The store.
<1>8. /\ StoreOK(stored, epoch + 1) /\ k \in DOMAIN stored /\ stored[k].seen = seen
      /\ \A j \in DOMAIN stored : j # k => j \in DOMAIN data /\ j # AbsentKey(c) /\ stored[j] = data[j]
  <2>1. epoch + 1 \in Nat /\ StoreOK(data, epoch + 1)
    BY <1>4, StoreOutlives
  <2>2. /\ StoreOK(d0, epoch + 1) /\ DOMAIN d0 = DOMAIN data \ {AbsentKey(c)}
        /\ \A j \in DOMAIN d0 : d0[j] = data[j]
    BY <2>1, RestrictStore DEF Without
  <2>3. RecordOK(Entry(seen), epoch + 1) /\ Entry(seen).seen = seen
    BY <1>2, <1>6, NewEntry
  <2>4. KeyOK(k) /\ k.kind = "detail" /\ k.prefs = t.q.prefs
    BY <1>5 DEF Key, KeyOK, RowKeys
  <2>5. ScopesOK(k, Entry(seen))
    <3> HIDE DEF k
    <3> QED BY <2>3, <2>4, <1>6 DEF ScopesOK, Absent
  <2> HIDE DEF d0, k
  <2>6. StoreOK(With(d0, k, Entry(seen)), epoch + 1)
    BY <2>2, <2>3, <2>4, <2>5, WithStore
  <2>7. DOMAIN stored = DOMAIN d0 \cup {k} /\ \A j \in DOMAIN d0 \cup {k} : stored[j] = IF j = k THEN Entry(seen) ELSE d0[j]
    BY <1>1 DEF With
  <2> QED BY <2>2, <2>3, <2>6, <2>7, <1>1
<1> HIDE DEF k, d0, all
<1>9. /\ StoreOK(data', epoch + 1) /\ Cardinality(DOMAIN data') <= MaxEntries
      /\ \A j \in DOMAIN data' : j.kind # "detail" => j \in DOMAIN stored /\ data'[j] = stored[j]
      /\ \A j \in DOMAIN data' : \A s \in DOMAIN data'[j].seen : data'[j].seen[s].state = "public" =>
            /\ j \in DOMAIN stored /\ s \in DOMAIN stored[j].seen
            /\ data'[j].seen[s] = stored[j].seen[s]
            /\ j.kind = "detail" /\ j.id = id /\ s \in counts => ~ (stored[j].clock[s] <= e)
  <2>1. PICK r : r = RetractDetails(stored, id, counts, e, t.time)
    OBVIOUS
  <2>2. puts + 1 \in 1..MaxAnswers
    BY <1>2, PutRoom
  <2>3. counts \in SUBSET RaidScopes /\ e \in Nat /\ t.time \in Times /\ id \in Identities /\ epoch \in Nat
    BY <1>4, <1>5, <1>7
  <2>4. StoreOK(r, epoch + 1) /\ DetailsHidden(stored, r, id, counts, e)
    BY <2>1, <2>2, <2>3, <1>8, RetractDetailsStore
  <2>5. data' \in Capped(r)
    BY <2>1, <1>2
  <2>6. /\ StoreOK(data', epoch + 1) /\ Cardinality(DOMAIN data') <= MaxEntries
        /\ DOMAIN data' \subseteq DOMAIN r /\ \A j \in DOMAIN data' : data'[j] = r[j]
    BY <2>4, <2>5, CappedStore
  <2> QED BY <2>4, <2>6 DEF DetailsHidden
\* The histories, and what they bar.
<1>10. /\ HistoriesOK'
       /\ \A h \in History, y \in Subjects, f \in Nat : Barred(h, y, f) => Barred(h, y, f)'
       /\ \A f \in 0..epoch :
              /\ Barred("present", c, f)'
              /\ \A s \in DOMAIN seen : Barred("detail", <<id, s>>, f)'
       /\ \A d \in Characters : proofs'[Absent][d] = proofs[Absent][d]
  <2>1. PICK known, none : known = [detail |-> Pairs(id, DOMAIN seen), present |-> {id[1]}] /\ none = {}
    OBVIOUS
  <2>2. SetProofs(known) /\ DOMAIN seen \in SUBSET Scopes /\ none \in SUBSET Scopes
    BY <2>1, <1>2, <1>7
  <2> QED BY <2>1, <2>2, <1>3, <1>4, <1>5, FoundProofs
\* Its privacy counts.
<1>11. Private(seen) \subseteq counts
  <2> SUFFICES ASSUME NEW s \in Private(seen) PROVE s \in counts
    OBVIOUS
  <2>1. s \in DOMAIN seen /\ s \in Scopes /\ seen[s].state = "private"
    BY <1>7 DEF Private
  <2>2. ~ DetailSince(id, s, e)
    BY <2>1, <1>2, <1>6 DEF MayCount
  <2>3. e >= floor["detail"] /\ proofs["detail"][<<id, s>>] <= e
    <3>1. <<id, s>> \in Subjects /\ "detail" \in History
      BY <2>1, <1>5 DEF Subjects, History
    <3>2. floor["detail"] \in 0..epoch /\ proofs["detail"][<<id, s>>] \in 0..epoch
      BY <3>1, <1>4 DEF HistoriesOK, HistoryOK
    <3>3. ~ (e < floor["detail"]) /\ ~ (proofs["detail"][<<id, s>>] > e)
      BY <2>2 DEF DetailSince
    <3> QED BY <3>2, <3>3, <1>5
  <2>4. ~ DetailEntrySince(stored, id, s, e, {"public"})
    <3> SUFFICES ASSUME NEW j \in DOMAIN stored, j.kind = "detail", j.id = id, s \in DOMAIN stored[j].seen,
                        stored[j].clock[s] > e, stored[j].seen[s].state = "public"
                 PROVE  FALSE
      BY DEF DetailEntrySince
    <3>1. j # k
      BY <2>1, <1>8
    <3>2. j \in DOMAIN data /\ stored[j] = data[j]
      BY <3>1, <1>8
    <3>3. DetailEntrySince(data, id, s, e, {"public", "private"})
      BY <3>2 DEF DetailEntrySince
    <3> QED BY <3>3, <2>2 DEF DetailSince
  <2> QED BY <2>3, <2>4, <1>1 DEF PrivacyCounts
<1>12. /\ withdrawn \subseteq withdrawn'
       /\ \A i \in withdrawn' \ withdrawn :
              /\ i \in answered /\ i.time < t.time
              /\ \/ i.kind = Absent /\ i.id = c
                 \/ i.kind = "detail" /\ i.id = id /\ i.scope \in Private(seen)
  BY <1>2 DEF Older
<1>13. BarsOn
  <2>1. ASSUME NEW i \in withdrawn' \ withdrawn, NEW f \in 0..epoch PROVE ItemBarred(i, f)'
    <3>1. CASE i.kind = Absent /\ i.id = c
      BY <3>1, <1>10 DEF ItemBarred
    <3>2. CASE i.kind = "detail" /\ i.id = id /\ i.scope \in Private(seen)
      <4>1. i.kind # Absent /\ Barred("detail", <<i.id, i.scope>>, f)'
        BY <3>2, <1>7, <1>10 DEF Absent
      <4> QED BY <3>2, <4>1 DEF ItemBarred
    <3> QED BY <2>1, <3>1, <3>2, <1>12
  <2> QED BY <2>1, <1>10 DEF BarsOn
<1>14. withdrawn' \subseteq answered
  BY <1>12, <1>4 DEF EvidenceOK
\* What was taken of the answer stands.
<1>15. Items(t.q, Rows(seen)) \subseteq answered \ withdrawn'
  <2> SUFFICES ASSUME NEW i \in Items(t.q, Rows(seen))
               PROVE  i \in answered /\ i \notin withdrawn'
    OBVIOUS
  <2>1. PICK s \in DOMAIN seen : i = Piece(t.q.kind, t.q.id, s, seen[s].time) /\ seen[s].state = "public"
    BY DEF Items, Rows, Piece, Absent
  <2>2. s \in DOMAIN all /\ seen[s] = all[s] /\ MayCount(t.q, s, e) /\ s \in Selected(t.q.kind, t.q.prefs)
    BY <1>5, <1>6
  <2>3. i \in Items(t.q, t.answer)
    BY <2>1, <2>2, <1>2 DEF Items, Piece, Absent, all
  <2>4. i \in answered /\ i.time = t.time /\ (i \in withdrawn => ItemBarred(i, e))
    BY <2>3, <1>2, AnswerStands
  <2>5. ~ ItemBarred(i, e)
    BY <2>1, <2>2, <1>5, CountsUnbarred
  <2>6. ~ (i.time < t.time)
    BY <2>4, <1>5 DEF Times
  <2> QED BY <2>4, <2>5, <2>6, <1>12
<1>16. StoreClean'
  <2> SUFFICES ASSUME NEW j \in DOMAIN data', NEW s \in DOMAIN data'[j].seen,
                      data'[j].seen[s].state = "public"
               PROVE  Piece(j.kind, j.id, s, data'[j].seen[s].time) \in answered' \ withdrawn'
    BY DEF StoreClean
  <2>1. /\ j \in DOMAIN stored /\ s \in DOMAIN stored[j].seen
        /\ data'[j].seen[s] = stored[j].seen[s]
        /\ j.kind = "detail" /\ j.id = id /\ s \in counts => ~ (stored[j].clock[s] <= e)
    BY <1>9
  <2>2. CASE j = k
    <3>1. k.kind = t.q.kind /\ k.id = t.q.id
      BY <1>2 DEF k, Key
    <3>2. s \in DOMAIN seen /\ seen[s].state = "public" /\ data'[j].seen[s] = seen[s]
      BY <2>1, <2>2, <1>8
    <3>3. Piece(t.q.kind, t.q.id, s, seen[s].time) \in Items(t.q, Rows(seen))
      BY <3>2 DEF Items, Rows, Piece, Absent
    <3> QED BY <2>2, <3>1, <3>2, <3>3, <1>3, <1>15
  <2>3. CASE j # k
    <3>1. PICK i : i = Piece(j.kind, j.id, s, data[j].seen[s].time)
      OBVIOUS
    <3>2. j \in DOMAIN data /\ j # AbsentKey(c) /\ stored[j] = data[j]
      BY <2>1, <2>3, <1>8
    <3>3. i \in answered \ withdrawn
      BY <2>1, <3>1, <3>2, <1>4 DEF StoreClean
    <3>4. i.kind = j.kind /\ i.id = j.id /\ i.scope = s
      BY <3>1 DEF Piece
    <3>5. KeyOK(j) /\ \A y \in DOMAIN data[j].seen : data[j].clock[y] \in 0..epoch /\ data[j].seen[y] \in Seen
      BY <3>2, <1>4, EntryFacts
    <3>6. ~ (i.kind = Absent /\ i.id = c)
      <4>1. CASE j \in RowKeys
        BY <3>4, <4>1 DEF RowKeys, Absent
      <4>2. CASE \E a \in Characters : j = AbsentKey(a)
        BY <3>2, <3>4, <4>2 DEF AbsentKey, Key
      <4> QED BY <3>5, <4>1, <4>2 DEF KeyOK
    <3>7. ~ (i.kind = "detail" /\ i.id = id /\ i.scope \in Private(seen))
      <4> SUFFICES ASSUME j.kind = "detail", j.id = id, s \in Private(seen) PROVE FALSE
        BY <3>4
      <4>1. ~ (data[j].clock[s] <= e)
        BY <2>1, <3>2, <1>11
      <4>2. data[j].clock[s] > e /\ data[j].seen[s].state \in {"public", "private"}
        BY <2>1, <3>2, <3>5, <4>1, <1>5 DEF Seen
      <4>3. DetailEntrySince(data, id, s, e, {"public", "private"})
        BY <4>2, <2>1, <3>2 DEF DetailEntrySince
      <4>4. ~ DetailSince(id, s, e)
        BY <1>2, <1>6, <1>7 DEF MayCount
      <4> QED BY <4>3, <4>4 DEF DetailSince
    <3>8. i \notin withdrawn'
      BY <3>3, <3>6, <3>7, <1>12
    <3>9. data'[j].seen[s].time = data[j].seen[s].time
      BY <2>1, <3>2
    <3> QED BY <3>1, <3>3, <3>8, <3>9, <1>3
  <2> QED BY <2>2, <2>3
<1>17. AbsencesOK'
  <2>1. StillBarred /\ answered \subseteq answered'
    BY <1>3, <1>4, <1>13, StaysBarred
  <2>2. ASSUME NEW j \in DOMAIN data', j.kind = Absent
        PROVE  j \in DOMAIN data /\ data'[j] = data[j]
    <3>1. j.kind # "detail"
      BY <2>2 DEF Absent
    <3>2. j # k
      BY <3>1 DEF k, Key
    <3> QED BY <3>1, <3>2, <1>8, <1>9
  <2> QED BY <2>1, <2>2, <1>2, <1>4, <1>10, FoundAbsences
<1>18. TaskOK(task[w])'
  <2>1. Items(t.q, Rows(seen)) \subseteq answered' \ withdrawn'
    BY <1>3, <1>15
  <2>2. PICK q : q = t.q
    OBVIOUS
  <2>3. /\ q \in Questions /\ DOMAIN seen \subseteq Selected(q.kind, q.prefs)
        /\ x = [stage |-> "emitted", q |-> q, result |-> Rows(seen), clock |-> ClockOf(DOMAIN seen, epoch + 1)]
        /\ task' = [task EXCEPT ![w] = x] /\ Items(q, Rows(seen)) \subseteq answered' \ withdrawn'
    BY <2>1, <2>2, <1>1, <1>2, <1>5, <1>6
  <2> HIDE <1>0
  <2> QED BY <2>3, <1>3, <1>4, FoundTask
<1>19. x.stage = "emitted"
  BY <1>1
<1> QED BY <1>2, <1>3, <1>9, <1>10, <1>13, <1>14, <1>16, <1>17, <1>18, <1>19, PutKeeps

-----------------------------------------------------------------------------
(* The theorems. *)

LEMMA InitInv == Init => Inv
<1> SUFFICES ASSUME Init PROVE Inv
  OBVIOUS
<1>1. /\ data = NoEntries /\ epoch = 0 /\ proofs = NoProofs /\ floor = NoFloor
      /\ task = [w \in Workers |-> Idle] /\ puts = 0 /\ time = 0 /\ delivered = {}
      /\ answered = {} /\ withdrawn = {} /\ lastAbsent = [c \in Characters |-> 0]
  BY DEF Init
<1>2. CountsOK
  <2>1. Answered = {}
    BY <1>1 DEF Answered, Idle
  <2>2. IsFiniteSet({}) /\ Cardinality({}) = 0
    BY FS_EmptySet
  <2> QED BY <2>1, <2>2, <1>1, BoundAssumption DEF CountsOK
<1>3. EvidenceOK
  BY <1>1 DEF EvidenceOK
<1>4. StoreOK(data, epoch) /\ Cardinality(DOMAIN data) <= MaxEntries /\ DOMAIN data = {}
  BY <1>1, EmptyStore
<1>5. StoreClean
  BY <1>4 DEF StoreClean
<1>6. HistoriesOK /\ \A h \in History, y \in Subjects : proofs[h][y] = 0
  <2>1. \A h \in History : HistoryOK(NoProofs[h], NoFloor[h], 0) /\ \A y \in Subjects : NoProofs[h][y] = 0
    BY EmptyHistories
  <2>2. DOMAIN NoProofs = History /\ DOMAIN NoFloor = History
    BY DEF NoProofs, NoFloor
  <2> QED BY <2>1, <2>2, <1>1 DEF HistoriesOK
<1>7. TasksOK
  BY <1>1 DEF TasksOK, TaskOK
<1>8. AbsencesOK
  <2>1. \A c \in Characters : proofs[Absent][c] = 0
    BY <1>6 DEF Subjects, History
  <2> QED BY <2>1, <1>1, <1>4 DEF AbsencesOK
<1>9. delivered \subseteq answered \ withdrawn
  BY <1>1
<1> QED BY <1>2, <1>3, <1>4, <1>5, <1>6, <1>7, <1>8, <1>9 DEF Inv

LEMMA DropKeeps ==
  ASSUME Inv, NEW w \in Workers, CacheHit(w) \/ Retire(w)
  PROVE  Inv'
<1>1. /\ Quiet /\ time' = time /\ task' = [task EXCEPT ![w] = Idle] /\ delivered' = {}
  BY DEF CacheHit, Retire, Quiet, storeVars
<1> QED BY <1>1, IdleKeeps

LEMMA StutterKeeps ==
  ASSUME Inv, UNCHANGED vars
  PROVE  Inv'
<1>1. /\ data' = data /\ epoch' = epoch /\ proofs' = proofs /\ floor' = floor /\ task' = task
      /\ puts' = puts /\ time' = time /\ delivered' = delivered
      /\ answered' = answered /\ lastAbsent' = lastAbsent /\ withdrawn' = withdrawn
  BY DEF vars, storeVars
<1>2. /\ CountsOK /\ EvidenceOK /\ StoreOK(data, epoch) /\ Cardinality(DOMAIN data) <= MaxEntries
      /\ StoreClean /\ HistoriesOK /\ TasksOK /\ AbsencesOK /\ delivered \subseteq answered \ withdrawn
      /\ epoch \in Nat /\ time \in Nat
  BY DEF Inv, CountsOK
<1>3. CountsOK'
  BY <1>1, <1>2 DEF CountsOK, Answered
<1>4. EvidenceOK'
  BY <1>1, <1>2 DEF EvidenceOK
<1>5. (StoreOK(data, epoch) /\ Cardinality(DOMAIN data) <= MaxEntries)'
  BY <1>1, <1>2
<1>6. StoreClean'
  BY <1>1, <1>2 DEF StoreClean
<1>7. HistoriesOK'
  BY <1>1, <1>2 DEF HistoriesOK
<1>8. TasksOK'
  <2>1. StillBarred
    BY <1>1 DEF StillBarred, ItemBarred, Barred
  <2> QED BY <2>1, <1>1, <1>2, TasksWait
<1>9. AbsencesOK'
  BY <1>1, <1>2 DEF AbsencesOK, Barred
<1>10. (delivered \subseteq answered \ withdrawn)'
  BY <1>1, <1>2
<1> QED BY <1>3, <1>4, <1>5, <1>6, <1>7, <1>8, <1>9, <1>10 DEF Inv

LEMMA NextKeeps == Inv /\ [Next]_vars => Inv'
<1> SUFFICES ASSUME Inv, [Next]_vars PROVE Inv'
  OBVIOUS
<1>1. ASSUME NEW w \in Workers, NEW q \in Questions, Ask(w, q) PROVE Inv'
  BY <1>1, AskKeeps
<1>2. ASSUME NEW w \in Workers, CacheHit(w) \/ Retire(w) PROVE Inv'
  BY <1>2, DropKeeps
<1>3. ASSUME NEW w \in Workers, Answer(w) PROVE Inv'
  BY <1>3, AnswerKeeps
<1>4. ASSUME NEW w \in Workers, PutRefused(w) PROVE Inv'
  BY <1>4, PutRefusedKeeps
<1>5. ASSUME NEW w \in Workers, PutAbsent(w) PROVE Inv'
  BY <1>5, PutAbsentKeeps
<1>6. ASSUME NEW w \in Workers, PutRanks(w) PROVE Inv'
  BY <1>6, PutRanksKeeps
<1>7. ASSUME NEW w \in Workers, PutDetails(w) PROVE Inv'
  BY <1>7, PutDetailsKeeps
<1>8. ASSUME NEW w \in Workers, Deliver(w) PROVE Inv'
  BY <1>8, DeliverKeeps
<1>9. CASE Flush
  BY <1>9, FlushKeeps
<1>10. CASE Clear
  BY <1>10, ClearKeeps
<1>11. CASE Restart
  BY <1>11, RestartKeeps
<1>12. CASE UNCHANGED vars
  BY <1>12, StutterKeeps
<1> QED BY <1>1, <1>2, <1>3, <1>4, <1>5, <1>6, <1>7, <1>8, <1>9, <1>10, <1>11, <1>12 DEF Next

LEMMA EntryTypes ==
  ASSUME CountsOK, StoreOK(data, epoch), NEW k \in DOMAIN data
  PROVE  EntryOK(k, data[k]) /\ \A s \in DOMAIN data[k].clock : data[k].clock[s] <= epoch
<1>1. epoch \in Nat
  BY DEF CountsOK
<1>2. /\ KeyOK(k) /\ ScopesOK(k, data[k])
      /\ \A s \in DOMAIN data[k].seen : data[k].clock[s] \in 0..epoch /\ data[k].seen[s] \in Seen
      /\ DOMAIN data[k].clock = DOMAIN data[k].seen
  BY <1>1, EntryFacts
<1>3. data[k].at \in 1..MaxAnswers
  BY DEF StoreOK, RecordOK
<1>4. DOMAIN data[k].seen \subseteq (IF k.kind = Absent THEN {Absent} ELSE Selected(k.kind, k.prefs))
  <2>1. CASE k.kind = Absent
    BY <2>1, <1>2 DEF ScopesOK
  <2>2. CASE k.kind # Absent
    <3>1. k \in RowKeys
      BY <2>2, <1>2 DEF KeyOK, AbsentKey, Key
    <3>2. k.kind \in {"rank", "detail"}
      BY <3>1 DEF RowKeys
    <3> QED BY <2>2, <3>2, <1>2 DEF ScopesOK, Selected
  <2> QED BY <2>1, <2>2
<1>5. \A s \in DOMAIN data[k].seen : data[k].clock[s] \in Nat /\ data[k].clock[s] <= epoch
  BY <1>1, <1>2
<1> QED BY <1>2, <1>3, <1>4, <1>5 DEF EntryOK

LEMMA InvTypes == Inv => TypeOK
<1> SUFFICES ASSUME Inv PROVE TypeOK
  OBVIOUS
<1>1. /\ CountsOK /\ EvidenceOK /\ StoreOK(data, epoch) /\ Cardinality(DOMAIN data) <= MaxEntries
      /\ HistoriesOK
  BY DEF Inv
<1>2. \A k \in DOMAIN data : EntryOK(k, data[k]) /\ \A s \in DOMAIN data[k].clock : data[k].clock[s] <= epoch
  BY <1>1, EntryTypes
<1>3. ASSUME NEW h \in History
      PROVE  /\ floor[h] \in 0..epoch
             /\ \A y \in Subjects : proofs[h][y] \in 0..epoch
             /\ Cardinality({y \in Subjects : proofs[h][y] # 0}) <= MaxProofs
  BY <1>1 DEF HistoriesOK, HistoryOK
<1> QED BY <1>1, <1>2, <1>3 DEF TypeOK, EvidenceOK

\* The cache never holds more entries or proofs than it may, every entry is
\* complete for what its key is about, and no clock of an entry, of a proof or of
\* a floor is ahead of the publication clock that orders them (_save_epoch,
\* _prune_and_cap_locked, _record_epochs).
THEOREM TypesHold == Spec => []TypeOK
<1> QED BY InitInv, NextKeeps, InvTypes, PTL DEF Spec

\* Nothing visible is withdrawn or was never answered.
Clean == Visible \subseteq answered \ withdrawn

LEMMA InvClean == Inv => Clean /\ EvidenceOK
BY VisibleIsClean DEF Inv, Clean

LEMMA LedgerStart == Init => Ledger!Init
<1> SUFFICES ASSUME Init PROVE Ledger!Init
  OBVIOUS
<1>1. answered = {} /\ withdrawn = {}
  BY DEF Init
<1>2. Visible \subseteq {}
  BY <1>1, InitInv, InvClean DEF Clean
<1>3. Visible = {}
  BY <1>2
<1> QED BY <1>1, <1>3 DEF Ledger!Init

LEMMA LedgerStep == [Next]_vars /\ EvidenceOK' /\ Clean' => [Ledger!Next]_(Ledger!ledgerVars)
<1> SUFFICES ASSUME [Next]_vars, EvidenceOK', Clean' PROVE Ledger!Next
  OBVIOUS
<1>1. answered' \subseteq Evidence /\ Visible' \subseteq answered' \ withdrawn'
  BY DEF EvidenceOK, Clean
<1>2. CASE Clear
  <2>1. answered' = answered /\ withdrawn' = {}
    BY <1>2 DEF Clear
  <2>2. Ledger!Forget
    BY <1>1, <2>1 DEF Ledger!Forget
  <2> QED BY <2>2 DEF Ledger!Next
<1>3. CASE ~ Clear
  <2>1. answered \subseteq answered' /\ withdrawn \subseteq withdrawn'
    <3>1. ASSUME NEW w \in Workers, NEW q \in Questions, Ask(w, q)
          PROVE  answered \subseteq answered' /\ withdrawn \subseteq withdrawn'
      BY <3>1 DEF Ask
    <3>2. ASSUME NEW w \in Workers, CacheHit(w) \/ Retire(w) \/ PutRefused(w) \/ Deliver(w)
          PROVE  answered \subseteq answered' /\ withdrawn \subseteq withdrawn'
      BY <3>2 DEF CacheHit, Retire, PutRefused, Deliver
    <3>3. ASSUME NEW w \in Workers, Answer(w)
          PROVE  answered \subseteq answered' /\ withdrawn \subseteq withdrawn'
      BY <3>3 DEF Answer
    <3>4. ASSUME NEW w \in Workers, PutAbsent(w)
          PROVE  answered \subseteq answered' /\ withdrawn \subseteq withdrawn'
      BY <3>4 DEF PutAbsent, Stored
    <3>5. ASSUME NEW w \in Workers, PutRanks(w)
          PROVE  answered \subseteq answered' /\ withdrawn \subseteq withdrawn'
      BY <3>5 DEF PutRanks, Stored
    <3>6. ASSUME NEW w \in Workers, PutDetails(w)
          PROVE  answered \subseteq answered' /\ withdrawn \subseteq withdrawn'
      BY <3>6 DEF PutDetails, Stored
    <3>7. CASE Flush \/ Restart
      BY <3>7 DEF Flush, Restart
    <3>8. CASE UNCHANGED vars
      BY <3>8 DEF vars
    <3> QED BY <1>3, <3>1, <3>2, <3>3, <3>4, <3>5, <3>6, <3>7, <3>8 DEF Next
  <2>2. Ledger!Learn
    BY <1>1, <2>1 DEF Ledger!Learn
  <2> QED BY <2>2 DEF Ledger!Next
<1> QED BY <1>2, <1>3

\* CharacterCache implements EvidenceLedger.  Whatever is asked, answered in any
\* order, retired, evicted, pruned, cleared or loaded again: a read, or what is
\* handed to the overlay, shows only what was answered for that scope of that
\* character and no accepted later answer withdrew
\* (_source_response_current_locked, retract_private_rank_summaries,
\* record_publication_proofs).
THEOREM CacheImplementsLedger == Spec => ImplementsLedger
<1>1. Spec => [](Clean /\ EvidenceOK)
  BY InitInv, NextKeeps, InvClean, PTL DEF Spec
<1>2. Init => Ledger!Init
  BY LedgerStart
<1>3. [Next]_vars /\ EvidenceOK' /\ Clean' => [Ledger!Next]_(Ledger!ledgerVars)
  BY LedgerStep
<1> QED BY <1>1, <1>2, <1>3, PTL DEF Spec, ImplementsLedger, Ledger!Spec
=============================================================================
