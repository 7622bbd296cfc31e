------------------------ MODULE ConfigHistoryProofs ------------------------
(***************************************************************************)
(* The version history of a config, for any keys, readers, requests, floors *)
(* and number of versions: it implements the version log, and what it       *)
(* stores is exactly what it retains.                                       *)
(***************************************************************************)
EXTENDS ConfigHistory, FiniteSetTheorems, WellFoundedInduction, TLAPS

-----------------------------------------------------------------------------
(* The inductive invariant.                                                *)

\* The newest version is never pruned, so its number is the last that was given out.
HeadIsLatest ==
    /\ versions = {} => head = 0
    /\ versions # {} => head \in versions
    /\ \A v \in versions : v <= head

\* A row is numbered when it is written, and no version writes two rows of a key.
RowsAreNumbered ==
    \A k \in Keys :
        /\ born[k] <= head
        /\ \A n \in rows[k] : n <= born[k] /\ 1 <= vv[k][n] /\ vv[k][n] <= n

\* What was pruned left nothing behind.
PrunedIsWiped == \A v \in Versions \ versions : entries[v] = NoKeys

\* A prune under way was told to keep what the instance floor asks for.
PruneKeepsFloor == prune # 0 => prune >= Larger(Floor, 1)

\* A reveal between its two statements: its version is as it was read, or pruned for good.
RevealsHold ==
    \A r \in Readers : reader[r].pc = "entries" =>
        /\ reader[r].ver \in Versions /\ reader[r].ver <= head
        /\ reader[r].ver \in versions => entries[reader[r].ver] = reader[r].want

HistoryInv ==
    /\ TypeOK /\ HeadIsLatest /\ RowsAreNumbered /\ PrunedIsWiped /\ PruneKeepsFloor /\ RevealsHold
    /\ ValuesAreThoseRetained /\ FloorIsRetained /\ SlotsAreDistinct
    /\ PendingSourceRetained /\ TombstonesAreTheRemovals /\ RevealIsWholeOrPruned

-----------------------------------------------------------------------------
(* Lemmas on the operators.                                                *)

\* A set of numbers up to n has a largest one.
LEMMA Largest ==
    ASSUME NEW n \in Nat, NEW S, S \subseteq 0 .. n, S # {}
    PROVE  \E m \in S : \A x \in S : x <= m
<1> DEFINE T == {n - x : x \in S}
           R == {ss \in Nat \X Nat : ss[1] < ss[2]}
<1>1. \A x \in S : x \in Nat /\ n - x \in Nat
  OBVIOUS
<1>2. T \subseteq Nat /\ T # {}
  BY <1>1
<1>3. IsWellFoundedOn(R, Nat)
  BY NatLessThanWellFounded DEF OpToRel
<1>4. PICK t \in T : \A y \in T : ~ (<<y, t>> \in R)
  <2> HIDE DEF T, R
  <2> QED
    BY <1>2, <1>3, WFMin
<1>5. \A y \in T : ~ (y < t)
  BY <1>2, <1>4
<1>6. PICK m \in S : t = n - m
  BY <1>4
<1>7. \A x \in S : x <= m
  BY <1>1, <1>5, <1>6
<1> QED
  BY <1>7

\* Latest is the history's head.
LEMMA LatestIsHead == TypeOK /\ HeadIsLatest => Latest = head
<1> SUFFICES ASSUME TypeOK, HeadIsLatest PROVE Latest = head
  OBVIOUS
<1>1. versions \subseteq Nat
  BY DEF TypeOK, Versions
<1>2. CASE versions = {}
  BY <1>2 DEF Latest, HeadIsLatest
<1>3. CASE versions # {}
  <2>1. head \in versions /\ \A w \in versions : w <= head
    BY <1>3 DEF HeadIsLatest
  <2>2. ASSUME NEW v \in versions, \A w \in versions : w <= v PROVE v = head
    <3>1. v \in Nat /\ head \in Nat /\ v <= head /\ head <= v
      BY <1>1, <2>1, <2>2
    <3> QED
      BY <3>1
  <2> QED
    BY <1>3, <2>1, <2>2 DEF Latest
<1> QED
  BY <1>2, <1>3

\* The next value version is above those of all rows of the key, and at most one above one
\* of them.
LEMMA NextValueVersionIsFresh ==
    ASSUME TypeOK, NEW k \in Keys
    PROVE  /\ NextValueVersion(k) \in Nat \ {0}
           /\ \A n \in rows[k] : vv[k][n] < NextValueVersion(k)
           /\ rows[k] # {} => \E n \in rows[k] : NextValueVersion(k) = vv[k][n] + 1
           /\ rows[k] = {} => NextValueVersion(k) = 1
<1>1. CASE rows[k] = {}
  BY <1>1 DEF NextValueVersion
<1>2. CASE rows[k] # {}
  <2> DEFINE S == {vv[k][n] : n \in rows[k]}
  <2>1. S \subseteq 0 .. MaxVersion /\ S # {}
    BY <1>2 DEF TypeOK
  <2>2. \E m \in S : \A x \in S : x <= m
    BY <2>1, Largest, HistoryAssumption
  <2>3. \E m \in S : \A n \in rows[k] : vv[k][n] <= m
    BY <2>2
  <2> DEFINE top == CHOOSE m \in S : \A n \in rows[k] : vv[k][n] <= m
  <2>4. top \in S /\ \A n \in rows[k] : vv[k][n] <= top
    BY <2>3
  <2>5. NextValueVersion(k) = 1 + top
    BY <1>2 DEF NextValueVersion
  <2>6. PICK n \in rows[k] : top = vv[k][n]
    BY <2>4
  <2> HIDE DEF top, S
  <2>7. top \in Nat /\ \A i \in rows[k] : vv[k][i] \in Nat
    BY <2>6, HistoryAssumption DEF TypeOK
  <2> QED
    BY <1>2, <2>4, <2>5, <2>6, <2>7
<1> QED
  BY <1>1, <1>2

\* Larger is the maximum.
LEMMA LargerIsMax ==
    ASSUME NEW a \in Nat, NEW b \in Nat
    PROVE  Larger(a, b) \in Nat /\ Larger(a, b) >= a /\ Larger(a, b) >= b
BY DEF Larger

\* A prune keeps the newest versions the instance floor counts, the pinned ones, and
\* nothing it did not have.
LEMMA SurvivorsKeep ==
    ASSUME HistoryInv, prune # 0
    PROVE  /\ Survivors \subseteq versions
           /\ \A v \in versions : v <= head /\ head - v < Larger(Floor, 1) => v \in Survivors
           /\ versions # {} => head \in Survivors
           /\ \A p \in Promotions : promo[p] # 0 /\ promo[p] \in versions => promo[p] \in Survivors
<1> USE DEF HistoryInv
<1>1. Survivors \subseteq versions
  BY DEF Survivors
<1>2. /\ Larger(Floor, 1) \in Nat /\ Larger(Floor, 1) >= 1 /\ prune \in Nat
      /\ prune >= Larger(Floor, 1) /\ head \in Nat
  BY LargerIsMax, HistoryAssumption DEF TypeOK, PruneKeepsFloor
<1>3. ASSUME NEW v \in versions, v <= head, head - v < Larger(Floor, 1) PROVE v \in Survivors
  <2>1. v \in Nat /\ v + 1 \in Int /\ head \in Int
    BY <1>2 DEF TypeOK, Versions
  <2>2. {w \in versions : w > v} \in SUBSET ((v + 1) .. head)
    <3>1. \A w \in versions : w \in Nat /\ w <= head
      BY DEF HeadIsLatest, TypeOK, Versions
    <3>2. ASSUME NEW w \in versions, w > v PROVE w \in (v + 1) .. head
      <4>1. w \in Nat /\ w <= head
        BY <3>1
      <4> QED
        BY <2>1, <3>2, <4>1
    <3> QED
      BY <3>2
  <2>3. IsFiniteSet((v + 1) .. head) /\ Cardinality((v + 1) .. head) = head - v
    <3>1. IsFiniteSet((v + 1) .. head)
          /\ Cardinality((v + 1) .. head) = IF v + 1 > head THEN 0 ELSE head - (v + 1) + 1
      BY <2>1, FS_Interval
    <3> QED
      BY <3>1, <2>1, <1>2, <1>3
  <2>4. /\ Cardinality({w \in versions : w > v}) <= head - v
        /\ Cardinality({w \in versions : w > v}) \in Nat
    BY <2>2, <2>3, FS_Subset, FS_CardinalityType
  <2>5. Cardinality({w \in versions : w > v}) < prune
    BY <2>4, <1>2, <1>3, <2>1
  <2> QED
    BY <2>5 DEF Survivors
<1>4. versions # {} => head \in Survivors
  BY <1>2, <1>3 DEF HeadIsLatest
<1>5. \A p \in Promotions : promo[p] # 0 /\ promo[p] \in versions => promo[p] \in Survivors
  BY DEF Survivors, Pinned
<1> QED
  BY <1>1, <1>3, <1>4, <1>5

-----------------------------------------------------------------------------
(* Steps.                                                                  *)

\* The history before its first version.
LEMMA InitInv == Init => HistoryInv
<1> SUFFICES ASSUME Init PROVE HistoryInv
  OBVIOUS
<1>1. 0 \in 0 .. MaxVersion /\ NoKeys \in Manifests /\ \A k \in Keys : NoKeys[k] = 0
  BY HistoryAssumption DEF NoKeys, Manifests
<1>2. Idle \in ReaderState
  BY <1>1 DEF Idle, ReaderState
<1>3. TypeOK
  BY <1>1, <1>2 DEF Init, TypeOK
<1>4. HeadIsLatest /\ RowsAreNumbered /\ PrunedIsWiped /\ PruneKeepsFloor
  BY <1>1 DEF Init, HeadIsLatest, RowsAreNumbered, PrunedIsWiped, PruneKeepsFloor
<1>5. RevealsHold /\ RevealIsWholeOrPruned
  BY DEF Init, RevealsHold, RevealIsWholeOrPruned, Idle
<1>6. ValuesAreThoseRetained /\ SlotsAreDistinct /\ PendingSourceRetained /\ TombstonesAreTheRemovals
  BY DEF Init, ValuesAreThoseRetained, Referenced, SlotsAreDistinct, PendingSourceRetained, TombstonesAreTheRemovals
<1>7. FloorIsRetained
  BY DEF Init, FloorIsRetained, Versions
<1> QED
  BY <1>3, <1>4, <1>5, <1>6, <1>7 DEF HistoryInv

\* Whatever a commit writes: it takes the next number, and disturbs nothing that was there.
LEMMA CommitKeeps ==
    ASSUME HistoryInv, NEW m \in Manifests, head < MaxVersion,
           Commit(m, {k \in Keys : Current[k] # 0 /\ m[k] = 0}),
           UNCHANGED <<live, aged, override, editing, promo, grounded, prune, young, reader>>
    PROVE  /\ versions' = versions \cup {head + 1} /\ head + 1 \in Versions \ versions
           /\ entries' = [entries EXCEPT ![head + 1] = m] /\ head' = head + 1
           /\ entries' \in [Versions -> Manifests] /\ tombs' \in [Versions -> SUBSET Keys]
           /\ HeadIsLatest' /\ PrunedIsWiped' /\ PruneKeepsFloor' /\ RevealsHold'
           /\ FloorIsRetained' /\ PendingSourceRetained' /\ TombstonesAreTheRemovals'
           /\ RevealIsWholeOrPruned'
<1> DEFINE n == head + 1
           t == {k \in Keys : Current[k] # 0 /\ m[k] = 0}
<1> USE DEF HistoryInv
<1>1. Latest = head /\ head \in Nat /\ MaxVersion \in Nat
  BY LatestIsHead, HistoryAssumption DEF TypeOK
<1>2. /\ versions' = versions \cup {n} /\ head' = n /\ n \in Versions
      /\ entries' = [entries EXCEPT ![n] = m] /\ tombs' = [tombs EXCEPT ![n] = t]
  BY <1>1 DEF Commit, Versions
<1>3. \A v \in versions : v \in Nat /\ 1 <= v /\ v <= head
  BY DEF TypeOK, Versions, HeadIsLatest
<1>4. n \notin versions /\ n \in Nat
  BY <1>1, <1>3
<1>5. entries' \in [Versions -> Manifests] /\ tombs' \in [Versions -> SUBSET Keys]
  BY <1>2 DEF TypeOK
<1>6. /\ entries'[n] = m /\ tombs'[n] = t
      /\ \A v \in Versions : v # n => entries'[v] = entries[v] /\ tombs'[v] = tombs[v]
  BY <1>2 DEF TypeOK
<1>7. HeadIsLatest'
  BY <1>1, <1>2, <1>3 DEF HeadIsLatest
<1>8. PrunedIsWiped'
  BY <1>2, <1>6 DEF PrunedIsWiped
<1>9. PruneKeepsFloor'
  BY DEF PruneKeepsFloor
<1>10. RevealsHold'
  BY <1>1, <1>2, <1>6, <1>4 DEF RevealsHold, Versions
<1>11. FloorIsRetained'
  <2> SUFFICES ASSUME NEW v \in Versions, v <= n, n - v < Larger(Floor, 1) PROVE v \in versions \cup {n}
    BY <1>2 DEF FloorIsRetained
  <2>1. v \in Nat /\ Larger(Floor, 1) \in Nat
    BY LargerIsMax, HistoryAssumption DEF Versions
  <2>2. CASE v # n
    <3>1. v <= head /\ head - v < Larger(Floor, 1)
      BY <1>1, <2>1, <2>2
    <3> QED
      BY <3>1 DEF FloorIsRetained
  <2> QED
    BY <2>2
<1>12. PendingSourceRetained'
  BY <1>2 DEF PendingSourceRetained
<1>13. TombstonesAreTheRemovals'
  <2> SUFFICES ASSUME NEW v \in versions', v - 1 \in versions'
               PROVE  tombs'[v] = {k \in Keys : entries'[v - 1][k] # 0 /\ entries'[v][k] = 0}
    BY DEF TombstonesAreTheRemovals
  <2>1. CASE v = n
    <3>1. v - 1 = head /\ head # n
      BY <1>1, <2>1
    <3>2. head \in versions
      BY <1>2, <3>1
    <3>3. head \in Versions /\ head # 0
      BY <3>2, <1>3 DEF TypeOK
    <3>4. Current = entries[head]
      BY <1>1, <3>3 DEF Current
    <3>5. entries'[v - 1] = entries[head] /\ entries'[v] = m /\ tombs'[v] = t
      BY <1>6, <2>1, <3>1, <3>3
    <3> QED
      BY <3>4, <3>5
  <2>2. CASE v # n
    <3>1. v \in versions /\ v \in Versions
      BY <1>2, <2>2 DEF TypeOK
    <3>2. v - 1 # n
      BY <1>1, <1>3, <3>1
    <3>3. v - 1 \in versions /\ v - 1 \in Versions
      BY <1>2, <3>2 DEF TypeOK
    <3> QED
      BY <1>6, <2>2, <3>1, <3>2, <3>3 DEF TombstonesAreTheRemovals
  <2> QED
    BY <2>1, <2>2
<1>14. RevealIsWholeOrPruned'
  BY DEF RevealIsWholeOrPruned
<1> QED
  BY <1>2, <1>4, <1>5, <1>7, <1>8, <1>9, <1>10, <1>11, <1>12, <1>13, <1>14

\* SaveConfigVersion keeps the invariant.
LEMMA SaveKeeps ==
    ASSUME HistoryInv, NEW sets \in SUBSET Keys, NEW dels \in SUBSET Keys, sets \cap dels = {},
           SaveConfigVersion(sets, dels)
    PROVE  HistoryInv' /\ Log!Append
<1> DEFINE m == [k \in Keys |-> IF k \in sets THEN born[k] + 1 ELSE IF k \in dels THEN 0 ELSE Current[k]]
           n == head + 1
<1> USE DEF HistoryInv
<1>1. /\ Latest = head /\ head \in Nat /\ MaxVersion \in Nat /\ head < MaxVersion
      /\ \A v \in versions : v \in Versions /\ v \in Nat
  BY LatestIsHead, HistoryAssumption DEF TypeOK, Versions, SaveConfigVersion
<1>2. \A k \in Keys : born[k] \in Nat /\ born[k] <= head /\ born[k] + 1 \in Versions /\ born[k] + 1 \in 0 .. MaxVersion
  BY <1>1 DEF RowsAreNumbered, TypeOK, Manifests, Versions
<1>3. Current \in Manifests /\ (head # 0 => head \in versions /\ Current = entries[head])
  <2>1. NoKeys \in Manifests
    BY <1>1 DEF NoKeys, Manifests
  <2>2. head # 0 => head \in versions
    BY DEF HeadIsLatest
  <2> QED
    BY <1>1, <2>1, <2>2 DEF Current, TypeOK
<1>4. m \in Manifests
  BY <1>1, <1>2, <1>3 DEF Manifests
<1>5. {k \in dels : Current[k] # 0} = {k \in Keys : Current[k] # 0 /\ m[k] = 0}
  BY <1>2
<1>6. /\ Commit(m, {k \in Keys : Current[k] # 0 /\ m[k] = 0})
      /\ UNCHANGED <<live, aged, override, editing, promo, grounded, prune, young, reader>>
  BY <1>5 DEF SaveConfigVersion
<1>7. /\ versions' = versions \cup {n} /\ n \in Versions \ versions
      /\ entries' = [entries EXCEPT ![n] = m] /\ head' = n
      /\ entries' \in [Versions -> Manifests] /\ tombs' \in [Versions -> SUBSET Keys]
      /\ HeadIsLatest' /\ PrunedIsWiped' /\ PruneKeepsFloor' /\ RevealsHold'
      /\ FloorIsRetained' /\ PendingSourceRetained' /\ TombstonesAreTheRemovals'
      /\ RevealIsWholeOrPruned'
  <2> HIDE DEF m, HistoryInv
  <2> QED
    BY <1>1, <1>4, <1>6, CommitKeeps
<1>8. /\ born' = [k \in Keys |-> IF k \in sets THEN born[k] + 1 ELSE born[k]]
      /\ rows' = [k \in Keys |-> IF k \in sets THEN rows[k] \cup {born[k] + 1} ELSE rows[k]]
      /\ vv' = [k \in Keys |-> IF k \in sets THEN [vv[k] EXCEPT ![born[k] + 1] = NextValueVersion(k)]
                               ELSE vv[k]]
  BY DEF SaveConfigVersion
<1>9. ASSUME NEW k \in Keys
      PROVE  /\ NextValueVersion(k) \in 1 .. (born[k] + 1)
             /\ \A i \in rows[k] : vv[k][i] < NextValueVersion(k)
             /\ \A i \in rows[k] : i \in Nat /\ i <= born[k] /\ i # born[k] + 1 /\ i \in Versions
                                    /\ vv[k][i] \in Nat /\ 1 <= vv[k][i] /\ vv[k][i] <= i
  <2>1. \A i \in rows[k] : i \in Nat /\ i <= born[k] /\ vv[k][i] \in Nat /\ i \in Versions
                           /\ 1 <= vv[k][i] /\ vv[k][i] <= i
    <3>1. rows[k] \subseteq Versions /\ vv[k] \in [Versions -> 0 .. MaxVersion]
      BY DEF TypeOK
    <3>2. Versions \subseteq Nat /\ 0 .. MaxVersion \subseteq Nat
      BY HistoryAssumption DEF Versions
    <3>3. \A i \in rows[k] : i \in Nat /\ i \in Versions /\ vv[k][i] \in Nat
      <4> HIDE DEF HistoryInv
      <4> QED
        BY <3>1, <3>2
    <3> QED
      BY <3>3 DEF RowsAreNumbered
  <2>2. /\ NextValueVersion(k) \in Nat \ {0}
        /\ \A i \in rows[k] : vv[k][i] < NextValueVersion(k)
        /\ rows[k] # {} => \E i \in rows[k] : NextValueVersion(k) = vv[k][i] + 1
        /\ rows[k] = {} => NextValueVersion(k) = 1
    BY NextValueVersionIsFresh
  <2>3. NextValueVersion(k) <= born[k] + 1
    BY <1>2, <2>1, <2>2
  <2>4. \A i \in rows[k] : i # born[k] + 1
    BY <1>2, <2>1
  <2> QED
    BY <1>2, <2>1, <2>2, <2>3, <2>4
<1>10. /\ born' \in Manifests /\ rows' \in [Keys -> SUBSET Versions]
       /\ vv' \in [Keys -> [Versions -> 0 .. MaxVersion]]
  <2>1. born' \in Manifests
    BY <1>2, <1>8 DEF TypeOK, Manifests
  <2>2. rows' \in [Keys -> SUBSET Versions]
    BY <1>2, <1>8 DEF TypeOK
  <2>3. \A k \in Keys : NextValueVersion(k) \in 0 .. MaxVersion
    BY <1>1, <1>2, <1>9
  <2>4. vv' \in [Keys -> [Versions -> 0 .. MaxVersion]]
    BY <1>2, <1>8, <2>3 DEF TypeOK
  <2> QED
    BY <2>1, <2>2, <2>4
<1>11. TypeOK'
  <2>1. versions' \subseteq Versions /\ head' \in 0 .. MaxVersion
    BY <1>1, <1>7 DEF TypeOK
  <2> QED
    BY <1>6, <1>7, <1>10, <2>1 DEF TypeOK
<1>12. RowsAreNumbered'
  <2> SUFFICES ASSUME NEW k \in Keys
               PROVE  /\ born'[k] <= head'
                      /\ \A i \in rows'[k] : i <= born'[k] /\ 1 <= vv'[k][i] /\ vv'[k][i] <= i
    BY DEF RowsAreNumbered
  <2>1. CASE k \in sets
    <3>1. /\ born'[k] = born[k] + 1 /\ rows'[k] = rows[k] \cup {born[k] + 1}
          /\ vv'[k] = [vv[k] EXCEPT ![born[k] + 1] = NextValueVersion(k)]
      BY <1>8, <2>1
    <3>2. vv'[k][born[k] + 1] = NextValueVersion(k) /\ \A i \in rows[k] : vv'[k][i] = vv[k][i]
      BY <1>2, <1>9, <3>1 DEF TypeOK
    <3>3. born'[k] <= head'
      BY <1>2, <1>7, <3>1, <1>1
    <3>4. \A i \in rows[k] : i <= born[k] + 1
      BY <1>2, <1>9
    <3>5. 1 <= NextValueVersion(k) /\ NextValueVersion(k) <= born[k] + 1 /\ born[k] + 1 <= born[k] + 1
      BY <1>2, <1>9
    <3> QED
      BY <1>9, <3>1, <3>2, <3>3, <3>4, <3>5
  <2>2. CASE k \notin sets
    <3>1. born'[k] = born[k] /\ rows'[k] = rows[k] /\ vv'[k] = vv[k]
      BY <1>8, <2>2
    <3>2. born[k] <= head + 1
      BY <1>1, <1>2
    <3> QED
      BY <1>7, <1>9, <3>1, <3>2
  <2> QED
    BY <2>1, <2>2
<1>13. ValuesAreThoseRetained'
  <2> SUFFICES ASSUME NEW k \in Keys PROVE rows'[k] = {entries'[v][k] : v \in versions'} \ {0}
    BY DEF ValuesAreThoseRetained, Referenced
  <2>1. rows[k] = {entries[v][k] : v \in versions} \ {0}
    BY DEF ValuesAreThoseRetained, Referenced
  <2>2. /\ \A v \in versions : entries'[v] = entries[v]
        /\ entries'[n] = m
    BY <1>1, <1>7 DEF TypeOK
  <2>3. {entries'[v][k] : v \in versions'} = {entries[v][k] : v \in versions} \cup {m[k]}
    BY <1>7, <2>2
  <2>4. CASE k \in sets
    BY <1>2, <1>8, <2>1, <2>3, <2>4
  <2>5. CASE k \notin sets
    <3>1. m[k] = 0 \/ m[k] \in rows[k]
      <4>1. head = 0 => Current[k] = 0
        BY <1>1 DEF Current, NoKeys
      <4> QED
        BY <1>3, <2>1, <2>5, <4>1
    <3> QED
      BY <1>8, <2>1, <2>3, <2>5, <3>1
  <2> QED
    BY <2>4, <2>5
<1>14. SlotsAreDistinct'
  <2> SUFFICES ASSUME NEW k \in Keys, NEW i \in rows'[k], NEW j \in rows'[k], vv'[k][i] = vv'[k][j]
               PROVE  i = j
    BY DEF SlotsAreDistinct
  <2>1. CASE k \in sets
    <3>1. /\ rows'[k] = rows[k] \cup {born[k] + 1}
          /\ vv'[k] = [vv[k] EXCEPT ![born[k] + 1] = NextValueVersion(k)]
      BY <1>8, <2>1
    <3>2. vv'[k][born[k] + 1] = NextValueVersion(k) /\ \A x \in rows[k] : vv'[k][x] = vv[k][x]
      BY <1>2, <1>9, <3>1 DEF TypeOK
    <3>3. \A x \in rows[k] : vv[k][x] # NextValueVersion(k)
      BY <1>9
    <3> QED
      BY <3>1, <3>2, <3>3 DEF SlotsAreDistinct
  <2>2. CASE k \notin sets
    BY <1>8, <2>2 DEF SlotsAreDistinct
  <2> QED
    BY <2>1, <2>2
<1>15. Log!Append
  BY <1>1, <1>7 DEF Log!Append, TypeOK
<1> QED
  BY <1>7, <1>11, <1>12, <1>13, <1>14, <1>15

\* Rollback keeps the invariant: it reuses rows that are there.
LEMMA RollbackKeeps ==
    ASSUME HistoryInv, NEW v \in Versions, Rollback(v)
    PROVE  HistoryInv' /\ Log!Append
<1> DEFINE m == entries[v]
           n == head + 1
<1> USE DEF HistoryInv
<1>1. /\ Latest = head /\ head \in Nat /\ MaxVersion \in Nat /\ head < MaxVersion /\ v \in versions
      /\ \A w \in versions : w \in Versions /\ w \in Nat
  BY LatestIsHead, HistoryAssumption DEF TypeOK, Versions, Rollback
<1>2. m \in Manifests
  BY DEF TypeOK
<1>3. /\ Commit(m, {k \in Keys : Current[k] # 0 /\ m[k] = 0})
      /\ UNCHANGED <<live, aged, override, editing, promo, grounded, prune, young, reader>>
      /\ UNCHANGED <<rows, vv, born>>
  BY DEF Rollback
<1>4. /\ versions' = versions \cup {n} /\ n \in Versions \ versions
      /\ entries' = [entries EXCEPT ![n] = m] /\ head' = n
      /\ entries' \in [Versions -> Manifests] /\ tombs' \in [Versions -> SUBSET Keys]
      /\ HeadIsLatest' /\ PrunedIsWiped' /\ PruneKeepsFloor' /\ RevealsHold'
      /\ FloorIsRetained' /\ PendingSourceRetained' /\ TombstonesAreTheRemovals'
      /\ RevealIsWholeOrPruned'
  <2> HIDE DEF m, HistoryInv
  <2> QED
    BY <1>1, <1>2, <1>3, CommitKeeps
<1>5. TypeOK'
  <2>1. versions' \subseteq Versions /\ head' \in 0 .. MaxVersion
    BY <1>1, <1>4 DEF TypeOK
  <2> QED
    BY <1>3, <1>4, <2>1 DEF TypeOK
<1>6. RowsAreNumbered'
  <2>1. \A k \in Keys : born[k] \in Nat /\ born[k] <= head + 1
    BY <1>1 DEF RowsAreNumbered, TypeOK, Manifests
  <2> QED
    BY <1>3, <1>4, <2>1 DEF RowsAreNumbered
<1>7. ValuesAreThoseRetained'
  <2> SUFFICES ASSUME NEW k \in Keys PROVE rows'[k] = {entries'[w][k] : w \in versions'} \ {0}
    BY DEF ValuesAreThoseRetained, Referenced
  <2>1. rows[k] = {entries[w][k] : w \in versions} \ {0}
    BY DEF ValuesAreThoseRetained, Referenced
  <2>2. /\ \A w \in versions : entries'[w] = entries[w]
        /\ entries'[n] = m
    BY <1>1, <1>4 DEF TypeOK
  <2>3. {entries'[w][k] : w \in versions'} = {entries[w][k] : w \in versions} \cup {m[k]}
    BY <1>4, <2>2
  <2> QED
    BY <1>1, <1>3, <2>1, <2>3
<1>8. SlotsAreDistinct'
  BY <1>3 DEF SlotsAreDistinct
<1>9. Log!Append
  BY <1>1, <1>4 DEF Log!Append, TypeOK
<1> QED
  BY <1>4, <1>5, <1>6, <1>7, <1>8, <1>9

\* CommitPrune keeps the invariant: what no rule retains goes whole, and only that.
LEMMA PruneKeeps ==
    ASSUME HistoryInv, CommitPrune
    PROVE  HistoryInv' /\ (Log!Forget \/ UNCHANGED Log!logVars)
<1> USE DEF HistoryInv
<1> DEFINE kept == IF Survivors = versions THEN rows
                   ELSE [k \in Keys |-> rows[k] \cap Referenced(k, Survivors)]
           whole == \A v \in Survivors, k \in Keys : entries[v][k] # 0 => entries[v][k] \in kept[k]
<1>1. /\ prune # 0 /\ prune' = 0 /\ young' = FALSE
      /\ UNCHANGED <<live, vv, born, head, aged, override, editing, promo, grounded, reader>>
  BY DEF CommitPrune
<1>2. CASE live /\ ~editing /\ versions # {} /\ whole
  <2>1. /\ versions' = Survivors /\ rows' = kept
        /\ entries' = [v \in Versions |-> IF v \in Survivors THEN entries[v] ELSE NoKeys]
        /\ tombs' = [v \in Versions |-> IF v \in Survivors THEN tombs[v] ELSE {}]
    BY <1>2 DEF CommitPrune
  <2>2. /\ Survivors \subseteq versions
        /\ \A v \in versions : v <= head /\ head - v < Larger(Floor, 1) => v \in Survivors
        /\ head \in Survivors
        /\ \A p \in Promotions : promo[p] # 0 /\ promo[p] \in versions => promo[p] \in Survivors
    BY <1>1, <1>2, SurvivorsKeep
  <2>3. /\ \A v \in Survivors : v \in Versions /\ entries'[v] = entries[v] /\ tombs'[v] = tombs[v]
        /\ \A v \in Versions \ Survivors : entries'[v] = NoKeys
    BY <2>1, <2>2 DEF TypeOK
  <2>4. NoKeys \in Manifests
    BY HistoryAssumption DEF NoKeys, Manifests
  <2>5. \A k \in Keys : kept[k] = Referenced(k, Survivors)
    <3>1. \A k \in Keys : Referenced(k, Survivors) \subseteq Referenced(k, versions)
      BY <2>2 DEF Referenced
    <3> QED
      BY <3>1 DEF ValuesAreThoseRetained
  <2>6. \A k \in Keys : kept[k] \subseteq rows[k]
    OBVIOUS
  <2>7. kept \in [Keys -> SUBSET Versions]
    BY DEF TypeOK
  <2>8. TypeOK'
    <3>1. entries' \in [Versions -> Manifests] /\ tombs' \in [Versions -> SUBSET Keys]
      BY <2>1, <2>4 DEF TypeOK
    <3>2. versions' \subseteq Versions /\ rows' \in [Keys -> SUBSET Versions]
      BY <2>1, <2>2, <2>7 DEF TypeOK
    <3> QED
      BY <1>1, <3>1, <3>2 DEF TypeOK
  <2>9. HeadIsLatest' /\ FloorIsRetained' /\ PendingSourceRetained'
    BY <1>1, <2>1, <2>2 DEF HeadIsLatest, FloorIsRetained, PendingSourceRetained
  <2>10. RowsAreNumbered' /\ SlotsAreDistinct'
    <3> HIDE DEF kept
    <3> QED
      BY <1>1, <2>1, <2>6 DEF RowsAreNumbered, SlotsAreDistinct
  <2>11. PrunedIsWiped' /\ PruneKeepsFloor' /\ RevealIsWholeOrPruned'
    BY <1>1, <2>1, <2>3 DEF PrunedIsWiped, PruneKeepsFloor, RevealIsWholeOrPruned
  <2>12. RevealsHold'
    BY <1>1, <2>1, <2>2, <2>3 DEF RevealsHold
  <2>13. ValuesAreThoseRetained'
    <3> SUFFICES ASSUME NEW k \in Keys PROVE rows'[k] = {entries'[v][k] : v \in versions'} \ {0}
      BY DEF ValuesAreThoseRetained, Referenced
    <3>1. rows'[k] = {entries[v][k] : v \in Survivors} \ {0}
      BY <2>1, <2>5 DEF Referenced
    <3> QED
      BY <2>1, <2>3, <3>1, ZenonT(40)
  <2>14. TombstonesAreTheRemovals'
    <3> HIDE DEF kept
    <3> QED
      BY <2>1, <2>2, <2>3 DEF TombstonesAreTheRemovals
  <2>15. Log!Forget
    BY <1>1, <2>1, <2>2, <2>3 DEF Log!Forget
  <2> QED
    BY <2>8, <2>9, <2>10, <2>11, <2>12, <2>13, <2>14, <2>15
<1>3. CASE ~(live /\ ~editing /\ versions # {} /\ whole)
  <2>1. UNCHANGED <<versions, entries, tombs, rows>>
    BY <1>3 DEF CommitPrune
  <2>2. TypeOK'
    BY <1>1, <2>1 DEF TypeOK
  <2>3. /\ HeadIsLatest' /\ RowsAreNumbered' /\ PrunedIsWiped' /\ PruneKeepsFloor' /\ RevealsHold'
        /\ ValuesAreThoseRetained' /\ FloorIsRetained' /\ SlotsAreDistinct'
        /\ PendingSourceRetained' /\ TombstonesAreTheRemovals' /\ RevealIsWholeOrPruned'
    BY <1>1, <2>1 DEF HeadIsLatest, RowsAreNumbered, PrunedIsWiped, PruneKeepsFloor, RevealsHold,
         ValuesAreThoseRetained, Referenced, FloorIsRetained, SlotsAreDistinct, PendingSourceRetained,
         TombstonesAreTheRemovals, RevealIsWholeOrPruned
  <2> QED
    BY <1>1, <2>1, <2>2, <2>3 DEF Log!logVars
<1> QED
  BY <1>2, <1>3

\* A reveal changes nothing but its own state, and sees a version as it is or was.
LEMMA ReaderKeeps ==
    ASSUME HistoryInv, NEW r \in Readers, ReaderStep(r)
    PROVE  HistoryInv' /\ UNCHANGED Log!logVars
<1> USE DEF HistoryInv
<1>1. UNCHANGED <<live, versions, entries, tombs, rows, vv, born, head, aged, override, editing,
                  promo, grounded, prune, young>>
  BY DEF ReaderStep, RevealLatest, RevealVersion, ReadVersion, ReadEntries, EndReveal
<1>2. /\ HeadIsLatest' /\ RowsAreNumbered' /\ PrunedIsWiped' /\ PruneKeepsFloor'
      /\ ValuesAreThoseRetained' /\ FloorIsRetained' /\ SlotsAreDistinct'
      /\ PendingSourceRetained' /\ TombstonesAreTheRemovals'
  BY <1>1 DEF HeadIsLatest, RowsAreNumbered, PrunedIsWiped, PruneKeepsFloor,
         ValuesAreThoseRetained, Referenced, FloorIsRetained, SlotsAreDistinct, PendingSourceRetained,
         TombstonesAreTheRemovals
<1>3. /\ NoKeys \in Manifests /\ Idle \in ReaderState /\ Idle.pc = "idle"
      /\ Latest \in 0 .. MaxVersion /\ \A v \in Versions : v \in 0 .. MaxVersion
  <2>1. NoKeys \in Manifests
    BY HistoryAssumption DEF NoKeys, Manifests
  <2> QED
    BY <2>1, LatestIsHead, HistoryAssumption DEF Idle, ReaderState, TypeOK, Versions
<1>4. reader[r] \in ReaderState
  BY DEF TypeOK
<1>5. ASSUME NEW s \in ReaderState, reader' = [reader EXCEPT ![r] = s],
             s.pc = "entries" => /\ s.ver \in Versions /\ s.ver <= head
                                 /\ s.ver \in versions => entries[s.ver] = s.want,
             s.pc = "done" => s.got = s.want \/ s.got = NoKeys
      PROVE  TypeOK' /\ RevealsHold' /\ RevealIsWholeOrPruned'
  <2>1. reader' \in [Readers -> ReaderState]
    BY <1>5 DEF TypeOK
  <2>2. reader'[r] = s /\ \A q \in Readers : q # r => reader'[q] = reader[q]
    BY <1>5 DEF TypeOK
  <2>3. TypeOK'
    BY <1>1, <2>1 DEF TypeOK
  <2> HIDE DEF ReaderState
  <2>4. RevealsHold' /\ RevealIsWholeOrPruned'
    BY <1>1, <1>5, <2>2 DEF RevealsHold, RevealIsWholeOrPruned
  <2> QED
    BY <2>3, <2>4
<1>6. TypeOK' /\ RevealsHold' /\ RevealIsWholeOrPruned'
  <2>1. ASSUME NEW v \in 0 .. MaxVersion,
               reader' = [reader EXCEPT ![r] = [pc |-> "version", ver |-> v, want |-> NoKeys, got |-> NoKeys]]
        PROVE  TypeOK' /\ RevealsHold' /\ RevealIsWholeOrPruned'
    <3>1. [pc |-> "version", ver |-> v, want |-> NoKeys, got |-> NoKeys] \in ReaderState
      BY <1>3 DEF ReaderState
    <3> QED
      BY <1>5, <2>1, <3>1
  <2>2. ASSUME reader' = [reader EXCEPT ![r] = Idle]
        PROVE  TypeOK' /\ RevealsHold' /\ RevealIsWholeOrPruned'
    BY <1>3, <1>5, <2>2
  <2>3. CASE RevealLatest(r)
    BY <1>3, <2>1, <2>3 DEF RevealLatest
  <2>4. CASE \E v \in Versions : RevealVersion(r, v)
    BY <1>3, <2>1, <2>4 DEF RevealVersion
  <2>5. CASE EndReveal(r)
    BY <2>2, <2>5 DEF EndReveal
  <2>6. CASE ReadVersion(r)
    <3>1. CASE reader[r].ver \in versions
      <4> DEFINE s == [pc |-> "entries", ver |-> reader[r].ver, want |-> entries[reader[r].ver], got |-> NoKeys]
      <4>1. reader' = [reader EXCEPT ![r] = s]
        BY <2>6, <3>1 DEF ReadVersion
      <4>2. reader[r].ver \in Versions /\ reader[r].ver <= head /\ entries[reader[r].ver] \in Manifests
        BY <3>1 DEF TypeOK, HeadIsLatest
      <4>3. s \in ReaderState
        BY <1>3, <1>4, <4>2 DEF ReaderState
      <4> QED
        BY <1>5, <4>1, <4>2, <4>3
    <3>2. CASE reader[r].ver \notin versions
      BY <2>2, <2>6, <3>2 DEF ReadVersion
    <3> QED
      BY <3>1, <3>2
  <2>7. CASE ReadEntries(r)
    <3> DEFINE g == [k \in Keys |-> IF entries[reader[r].ver][k] \in rows[k] THEN entries[reader[r].ver][k] ELSE 0]
               s == [reader[r] EXCEPT !.pc = "done", !.got = g]
    <3>1. reader' = [reader EXCEPT ![r] = s] /\ reader[r].pc = "entries"
      BY <1>4, <2>7 DEF ReadEntries, TypeOK
    <3>2. /\ reader[r].ver \in Versions
          /\ reader[r].ver \in versions => entries[reader[r].ver] = reader[r].want
      BY <3>1 DEF RevealsHold
    <3>3. entries[reader[r].ver] \in Manifests
      BY <3>2 DEF TypeOK
    <3>4. g \in Manifests
      BY <3>3, HistoryAssumption DEF Manifests
    <3>5. s \in ReaderState /\ s.pc = "done" /\ s.got = g /\ s.want = reader[r].want
      BY <1>4, <3>4 DEF ReaderState
    <3>6. CASE reader[r].ver \in versions
      <4>1. \A k \in Keys : entries[reader[r].ver][k] # 0 => entries[reader[r].ver][k] \in rows[k]
        BY <3>6 DEF ValuesAreThoseRetained, Referenced
      <4>2. g = entries[reader[r].ver]
        BY <3>3, <4>1 DEF Manifests
      <4> HIDE DEF g, s
      <4> QED
        BY <1>5, <3>1, <3>2, <3>5, <3>6, <4>2
    <3>7. CASE reader[r].ver \notin versions
      <4>1. entries[reader[r].ver] = NoKeys
        BY <3>2, <3>7 DEF PrunedIsWiped
      <4>2. g = NoKeys
        BY <4>1 DEF NoKeys
      <4> HIDE DEF g, s
      <4> QED
        BY <1>5, <3>1, <3>5, <4>2
    <3> QED
      BY <3>6, <3>7
  <2> QED
    BY <2>3, <2>4, <2>5, <2>6, <2>7 DEF ReaderStep
<1> QED
  BY <1>1, <1>2, <1>6 DEF Log!logVars

\* The rest of the system: requests, floors, soft deletion and age.
LEMMA OthersKeep ==
    ASSUME HistoryInv,
           \/ \E n \in Keeps, d \in BOOLEAN : BeginPrune(n, d)
           \/ \E p \in Promotions : PromotionStep(p)
           \/ \E b \in BOOLEAN : SetLive(b) \/ SetEditing(b)
           \/ \E n \in Keeps : SetVersionRetention(n)
           \/ Age \/ UNCHANGED vars
    PROVE  HistoryInv' /\ UNCHANGED Log!logVars
<1> USE DEF HistoryInv
<1>1. UNCHANGED <<versions, entries, tombs, rows, vv, born, head, reader>>
  BY DEF BeginPrune, PromotionStep, ClosePromotion, FilePromotion, SetLive, SetEditing,
         SetVersionRetention, Age, vars
<1>2. /\ HeadIsLatest' /\ RowsAreNumbered' /\ PrunedIsWiped' /\ RevealsHold'
      /\ ValuesAreThoseRetained' /\ FloorIsRetained' /\ SlotsAreDistinct'
      /\ TombstonesAreTheRemovals' /\ RevealIsWholeOrPruned'
  BY <1>1 DEF HeadIsLatest, RowsAreNumbered, PrunedIsWiped, RevealsHold,
         ValuesAreThoseRetained, Referenced, FloorIsRetained, SlotsAreDistinct,
         TombstonesAreTheRemovals, RevealIsWholeOrPruned
<1>3. ASSUME NEW n \in Keeps, NEW d \in BOOLEAN, BeginPrune(n, d)
      PROVE  TypeOK' /\ PruneKeepsFloor' /\ PendingSourceRetained'
  <2>1. /\ EffectiveFloor(n) \in Nat /\ EffectiveFloor(n) >= Larger(Floor, 1)
    BY HistoryAssumption DEF EffectiveFloor, Larger, TypeOK
  <2> QED
    BY <1>3, <2>1 DEF BeginPrune, TypeOK, PruneKeepsFloor, PendingSourceRetained
<1>4. ASSUME NEW p \in Promotions, NEW v \in Versions, FilePromotion(p, v)
      PROVE  TypeOK' /\ PruneKeepsFloor' /\ PendingSourceRetained'
  <2>1. v \in 0 .. MaxVersion
    BY DEF Versions
  <2> QED
    BY <1>4, <2>1 DEF FilePromotion, TypeOK, PruneKeepsFloor, PendingSourceRetained
<1>5. ASSUME NEW p \in Promotions, ClosePromotion(p)
      PROVE  TypeOK' /\ PruneKeepsFloor' /\ PendingSourceRetained'
  <2>1. 0 \in 0 .. MaxVersion
    BY HistoryAssumption
  <2> QED
    BY <1>5, <2>1 DEF ClosePromotion, TypeOK, PruneKeepsFloor, PendingSourceRetained
<1>6. ASSUME NEW b \in BOOLEAN, SetLive(b) \/ SetEditing(b)
      PROVE  TypeOK' /\ PruneKeepsFloor' /\ PendingSourceRetained'
  BY <1>6 DEF SetLive, SetEditing, TypeOK, PruneKeepsFloor, PendingSourceRetained
<1>7. ASSUME NEW n \in Keeps, SetVersionRetention(n)
      PROVE  TypeOK' /\ PruneKeepsFloor' /\ PendingSourceRetained'
  BY <1>7, HistoryAssumption DEF SetVersionRetention, TypeOK, PruneKeepsFloor, PendingSourceRetained
<1>8. ASSUME Age PROVE TypeOK' /\ PruneKeepsFloor' /\ PendingSourceRetained'
  <2>1. aged + 1 \in 0 .. MaxVersion
    BY <1>8, HistoryAssumption DEF Age, TypeOK
  <2> QED
    BY <1>8, <2>1 DEF Age, TypeOK, PruneKeepsFloor, PendingSourceRetained
<1>9. ASSUME UNCHANGED vars PROVE TypeOK' /\ PruneKeepsFloor' /\ PendingSourceRetained'
  BY <1>9 DEF vars, TypeOK, PruneKeepsFloor, PendingSourceRetained
<1>10. TypeOK' /\ PruneKeepsFloor' /\ PendingSourceRetained'
  BY <1>3, <1>4, <1>5, <1>6, <1>7, <1>8, <1>9 DEF PromotionStep
<1> QED
  BY <1>1, <1>2, <1>10 DEF Log!logVars

\* HistoryInv is inductive, and every step is a step of the version log or leaves it alone.
LEMMA StepInv == HistoryInv /\ [Next]_vars => HistoryInv' /\ [Log!LogNext]_(Log!logVars)
<1> SUFFICES ASSUME HistoryInv, [Next]_vars PROVE HistoryInv' /\ [Log!LogNext]_(Log!logVars)
  OBVIOUS
<1> USE DEF Log!LogNext
<1>1. CASE SaveStep
  BY <1>1, SaveKeeps DEF SaveStep
<1>2. CASE \E v \in Versions : Rollback(v)
  BY <1>2, RollbackKeeps
<1>3. CASE CommitPrune
  BY <1>3, PruneKeeps
<1>4. CASE \E r \in Readers : ReaderStep(r)
  BY <1>4, ReaderKeeps
<1>5. CASE \/ \E n \in Keeps, d \in BOOLEAN : BeginPrune(n, d)
           \/ \E p \in Promotions : PromotionStep(p)
           \/ \E b \in BOOLEAN : SetLive(b) \/ SetEditing(b)
           \/ \E n \in Keeps : SetVersionRetention(n)
           \/ Age \/ UNCHANGED vars
  BY <1>5, OthersKeep
<1> QED
  BY <1>1, <1>2, <1>3, <1>4, <1>5 DEF Next, PruneStep

\* HistoryInv is an invariant.
LEMMA Invariant == Spec => []HistoryInv
<1>1. HistoryInv /\ [Next]_vars => HistoryInv'
  BY StepInv
<1> QED
  BY <1>1, InitInv, PTL DEF Spec

\* Saves, rollbacks and prunes leave exactly the retained history, for every floor and
\* whatever prunes, reveals and requests do meanwhile (SaveConfigVersion, PruneVersions).
THEOREM RetentionHolds == Spec => []RetentionIsExact
<1>1. HistoryInv => RetentionIsExact
  BY DEF HistoryInv, RetentionIsExact
<1> QED
  BY <1>1, Invariant, PTL

\* A pending promotion can still read the version it was filed for (PruneVersions pins it).
THEOREM SourcesAreKept == Spec => []PendingSourceRetained
<1>1. HistoryInv => PendingSourceRetained
  BY DEF HistoryInv
<1> QED
  BY <1>1, Invariant, PTL

\* The tombstones of every retained version are the keys that went away with it
\* (SaveConfigVersion, Rollback).
THEOREM TombstonesHold == Spec => []TombstonesAreTheRemovals
<1>1. HistoryInv => TombstonesAreTheRemovals
  BY DEF HistoryInv
<1> QED
  BY <1>1, Invariant, PTL

\* A reveal never returns a part of a version, though it reads it in two statements with a
\* prune possibly between them (GetVersion).
THEOREM RevealsAreWhole == Spec => []RevealIsWholeOrPruned
<1>1. HistoryInv => RevealIsWholeOrPruned
  BY DEF HistoryInv
<1> QED
  BY <1>1, Invariant, PTL

\* The history implements the version log: numbers are given out once, and old versions are
\* forgotten whole or not altered.
THEOREM HistoryIsALog == Spec => ImplementsVersionLog
<1>1. Init => Log!LogInit
  BY HistoryAssumption DEF Init, Log!LogInit, Versions, NoKeys, Manifests
<1>2. HistoryInv /\ [Next]_vars => [Log!LogNext]_(Log!logVars)
  BY StepInv
<1> QED
  BY <1>1, <1>2, Invariant, PTL DEF Spec, ImplementsVersionLog, Log!LogSpec
=============================================================================
