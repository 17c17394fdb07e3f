------------------------- MODULE ToolBuildScan_proof -------------------------
(***************************************************************************)
(* That the workers of a tool-build scan leave exactly one shard for every   *)
(* repository, that folding the shards gives the index one thread would have  *)
(* built, that the report made of it is exact, and that a system scan takes   *)
(* each repository once: for any number of workers and repositories, any      *)
(* manifests and trees and whatever is edited meanwhile.                      *)
(*                                                                         *)
(* A table is a list of scanned files and an index of their windows.  A shard *)
(* is the table of one repository (ShardSound) while it grows by a file        *)
(* (TableGrows), and the folded table is the shards' joined (TablesJoin) in    *)
(* the order of the repositories (ShardsInRepoOrder).  What a cluster says of  *)
(* its files is ClusterSound, and of the text read back for it ReadBack.      *)
(* What the entries of all manifests leave is TakenInv.                      *)
(***************************************************************************)
EXTENDS ToolBuildScan, FiniteSetTheorems, FunctionTheorems, SequenceTheorems,
        WellFoundedInduction, TLAPS

\* The least element of a set of numbers: the proofs by induction argue with the
\* least exception.
LEMMA Least ==
  ASSUME NEW S \in SUBSET Nat, S # {}
  PROVE  \E m \in S : \A k \in S : m <= k
<1> DEFINE R == OpToRel(<, Nat)
<1>1. IsWellFoundedOn(R, Nat)
  BY NatLessThanWellFounded
<1>2. PICK m \in S : \A k \in S : <<k, m>> \notin R
  <2> HIDE DEF R
  <2> QED BY <1>1, WFMin
<1>3. \A k \in S : ~(k < m)
  BY <1>2 DEF OpToRel
<1>4. QED
  BY <1>3

LEMMA SameEnd ==
  ASSUME NEW m \in Nat, NEW n \in Nat, 1 .. m = 1 .. n
  PROVE  m = n
<1>1. CASE m < n
  <2>1. n \in 1 .. n /\ n \notin 1 .. m
    BY <1>1
  <2>2. QED
    BY <2>1
<1>2. CASE n < m
  <2>1. m \in 1 .. m /\ m \notin 1 .. n
    BY <1>2
  <2>2. QED
    BY <2>1
<1>3. QED
  BY <1>1, <1>2

-----------------------------------------------------------------------------
(* Lists of occurrences.                                                   *)

\* The order of the occurrences of a key.
ByPosition(a, b) ==
  \/ a.file_idx < b.file_idx
  \/ a.file_idx = b.file_idx /\ a.norm_start < b.norm_start

LEMMA ListsIs ==
  ASSUME NEW occs, NEW S
  PROVE  Lists(occs, S) <=> /\ occs \in Seq(S)
                            /\ \A o \in S : \E i \in DOMAIN occs : occs[i] = o
                            /\ \A i, j \in DOMAIN occs : i < j => ByPosition(occs[i], occs[j])
BY DEF Lists, ByPosition

LEMMA NothingListed == Lists(<<>>, {})
<1>1. <<>> \in Seq({}) /\ DOMAIN <<>> = {}
  BY EmptySeq, LenProperties
<1>2. QED
  BY <1>1, ListsIs

\* An occurrence behind all others is appended.
LEMMA ListsAppend ==
  ASSUME NEW occs, NEW S, Lists(occs, S), NEW x, \A o \in S : ByPosition(o, x)
  PROVE  Lists(Append(occs, x), S \cup {x})
<1> DEFINE T == S \cup {x}
           longer == Append(occs, x)
<1>1. /\ occs \in Seq(S) /\ \A o \in S : \E i \in DOMAIN occs : occs[i] = o
      /\ \A i, j \in DOMAIN occs : i < j => ByPosition(occs[i], occs[j])
  BY ListsIs
<1>2. Len(occs) \in Nat /\ DOMAIN occs = 1 .. Len(occs) /\ \A i \in DOMAIN occs : occs[i] \in S
  BY <1>1, LenProperties, ElementOfSeq
<1>3. occs \in Seq(T) /\ x \in T
  BY <1>1
<1>4. /\ longer \in Seq(T) /\ Len(longer) = Len(occs) + 1
      /\ \A i \in 1 .. Len(occs) : longer[i] = occs[i]
      /\ longer[Len(occs) + 1] = x
  <2> HIDE DEF T
  <2> QED BY <1>3, AppendProperties
<1>5. DOMAIN longer = 1 .. Len(occs) + 1
  BY <1>4, LenProperties
<1> HIDE DEF longer
<1>6. ASSUME NEW o \in T PROVE \E i \in DOMAIN longer : longer[i] = o
  <2>1. CASE o = x
    BY <2>1, <1>2, <1>4, <1>5
  <2>2. CASE o \in S
    <3>1. PICK i \in DOMAIN occs : occs[i] = o
      BY <2>2, <1>1
    <3>2. i \in DOMAIN longer /\ longer[i] = o
      BY <3>1, <1>2, <1>4, <1>5
    <3>3. QED
      BY <3>2
  <2>3. QED
    BY <2>1, <2>2
<1>7. ASSUME NEW i \in DOMAIN longer, NEW j \in DOMAIN longer, i < j
      PROVE  ByPosition(longer[i], longer[j])
  <2>1. i \in DOMAIN occs /\ longer[i] = occs[i]
    BY <1>2, <1>4, <1>5, <1>7
  <2>2. CASE j = Len(occs) + 1
    BY <2>1, <2>2, <1>2, <1>4
  <2>3. CASE j # Len(occs) + 1
    <3>1. j \in DOMAIN occs /\ longer[j] = occs[j]
      BY <2>3, <1>2, <1>4, <1>5
    <3>2. QED
      BY <2>1, <3>1, <1>1, <1>7
  <2>4. QED
    BY <2>2, <2>3
<1>8. QED
  BY <1>4, <1>6, <1>7, ListsIs DEF longer

\* Two lists, the first for earlier files, one behind the other.
LEMMA ListsConcat ==
  ASSUME NEW a, NEW S, Lists(a, S), NEW b, NEW T, Lists(b, T),
         \A o \in S, x \in T : ByPosition(o, x)
  PROVE  Lists(a \o b, S \cup T)
<1> DEFINE U == S \cup T
           both == a \o b
<1>1. /\ a \in Seq(S) /\ \A o \in S : \E i \in DOMAIN a : a[i] = o
      /\ \A i, j \in DOMAIN a : i < j => ByPosition(a[i], a[j])
      /\ b \in Seq(T) /\ \A o \in T : \E i \in DOMAIN b : b[i] = o
      /\ \A i, j \in DOMAIN b : i < j => ByPosition(b[i], b[j])
  BY ListsIs
<1>2. /\ Len(a) \in Nat /\ DOMAIN a = 1 .. Len(a) /\ \A i \in DOMAIN a : a[i] \in S
      /\ Len(b) \in Nat /\ DOMAIN b = 1 .. Len(b) /\ \A i \in DOMAIN b : b[i] \in T
  BY <1>1, LenProperties, ElementOfSeq
<1>3. a \in Seq(U) /\ b \in Seq(U)
  BY <1>1
<1>4. /\ both \in Seq(U) /\ Len(both) = Len(a) + Len(b)
      /\ \A i \in 1 .. Len(a) + Len(b) : both[i] = IF i <= Len(a) THEN a[i] ELSE b[i - Len(a)]
  <2> HIDE DEF U
  <2> QED BY <1>3, ConcatProperties
<1>5. DOMAIN both = 1 .. Len(a) + Len(b)
  BY <1>4, LenProperties
<1> HIDE DEF both
<1>6. \A i \in DOMAIN a : i \in DOMAIN both /\ both[i] = a[i]
  BY <1>2, <1>4, <1>5
<1>7. \A i \in DOMAIN b : i + Len(a) \in DOMAIN both /\ both[i + Len(a)] = b[i]
  BY <1>2, <1>4, <1>5
<1>8. \A o \in U : \E i \in DOMAIN both : both[i] = o
  BY <1>1, <1>6, <1>7
<1>9. ASSUME NEW i \in DOMAIN both, NEW j \in DOMAIN both, i < j
      PROVE  ByPosition(both[i], both[j])
  <2>1. CASE j <= Len(a)
    <3>1. i \in DOMAIN a /\ j \in DOMAIN a
      BY <2>1, <1>2, <1>5, <1>9
    <3>2. QED
      BY <3>1, <1>1, <1>6, <1>9
  <2>2. CASE i <= Len(a) /\ j > Len(a)
    <3>1. i \in DOMAIN a /\ j - Len(a) \in DOMAIN b /\ both[j] = b[j - Len(a)]
      BY <2>2, <1>2, <1>4, <1>5
    <3>2. QED
      BY <3>1, <1>2, <1>6
  <2>3. CASE i > Len(a)
    <3>1. /\ i - Len(a) \in DOMAIN b /\ both[i] = b[i - Len(a)]
          /\ j - Len(a) \in DOMAIN b /\ both[j] = b[j - Len(a)]
          /\ i - Len(a) < j - Len(a)
      BY <2>3, <1>2, <1>4, <1>5, <1>9
    <3>2. QED
      BY <3>1, <1>1
  <2>4. QED
    BY <2>1, <2>2, <2>3, <1>2, <1>5
<1>10. QED
  BY <1>4, <1>8, <1>9, ListsIs DEF both

\* An occurrence in the table of the shard and in the common one.
Rebased(o, offset) == [o EXCEPT !.file_idx = @ + offset]

OccFields == {"repo_idx", "file_idx", "norm_start", "start_line", "end_line", "token_count"}

AllNumbered(S) ==
  \A o \in S : o = [f \in OccFields |-> o[f]] /\ o.file_idx \in Nat

LEMMA ListsRebased ==
  ASSUME NEW occs, NEW S, Lists(occs, S), AllNumbered(S), NEW offset \in Nat
  PROVE  Lists(rebase_file_indexes(occs, offset), {Rebased(o, offset) : o \in S})
<1> DEFINE T == {Rebased(o, offset) : o \in S}
           moved == rebase_file_indexes(occs, offset)
<1>1. /\ occs \in Seq(S) /\ \A o \in S : \E i \in DOMAIN occs : occs[i] = o
      /\ \A i, j \in DOMAIN occs : i < j => ByPosition(occs[i], occs[j])
  BY ListsIs
<1>2. Len(occs) \in Nat /\ DOMAIN occs = 1 .. Len(occs) /\ \A i \in DOMAIN occs : occs[i] \in S
  BY <1>1, LenProperties, ElementOfSeq
<1>3. moved = [n \in 1 .. Len(occs) |-> Rebased(occs[n], offset)]
  BY DEF rebase_file_indexes, Rebased
<1> HIDE DEF moved
<1>4. DOMAIN moved = DOMAIN occs /\ \A i \in DOMAIN occs : moved[i] = Rebased(occs[i], offset)
  BY <1>2, <1>3
<1>5. moved \in Seq(T)
  <2>1. \A i \in 1 .. Len(occs) : moved[i] \in T
    BY <1>2, <1>4
  <2>2. moved \in [1 .. Len(occs) -> T]
    <3> HIDE DEF T
    <3> QED BY <2>1, <1>3
  <2>3. QED
    BY <2>2, <1>2
<1>6. \A o \in T : \E i \in DOMAIN moved : moved[i] = o
  BY <1>1, <1>4
<1>7. ASSUME NEW o \in S
      PROVE  Rebased(o, offset).file_idx = o.file_idx + offset /\ o.file_idx \in Nat
             /\ Rebased(o, offset).norm_start = o.norm_start
  BY DEF Rebased, AllNumbered, OccFields
<1>8. ASSUME NEW i \in DOMAIN moved, NEW j \in DOMAIN moved, i < j
      PROVE  ByPosition(moved[i], moved[j])
  <2>1. ByPosition(occs[i], occs[j]) /\ occs[i] \in S /\ occs[j] \in S
    BY <1>1, <1>2, <1>4, <1>8
  <2>2. moved[i] = Rebased(occs[i], offset) /\ moved[j] = Rebased(occs[j], offset)
    BY <1>4
  <2>3. QED
    BY <2>1, <2>2, <1>7 DEF ByPosition
<1>9. QED
  BY <1>5, <1>6, <1>8, ListsIs DEF moved

-----------------------------------------------------------------------------
(* Indexes of windows, which are given by file and position.               *)

Place(p) == p = <<p[1], p[2]>> /\ p[1] \in Nat /\ p[2] \in Nat

Precedes(p, q) == p[1] < q[1] \/ (p[1] = q[1] /\ p[2] < q[2])

\* Every window is recorded with the file and the position it stands at.
Positioned(windows) ==
  \A p \in DOMAIN windows : /\ Place(p)
                            /\ windows[p].occ.file_idx = p[1]
                            /\ windows[p].occ.norm_start = p[2]

LEMMA PlacesOrder ==
  ASSUME NEW windows, Positioned(windows), NEW p \in DOMAIN windows, NEW q \in DOMAIN windows,
         Precedes(p, q)
  PROVE  ByPosition(windows[p].occ, windows[q].occ)
BY DEF Positioned, Precedes, ByPosition

\* What an index has under a key, one that it does not know included.
LEMMA OccsListed ==
  ASSUME NEW index, NEW windows, Indexes(index, windows), NEW k
  PROVE  Lists(OccsOf(index, k), OccsUnder(windows, k))
<1>1. CASE k \in DOMAIN index
  BY <1>1 DEF OccsOf, Indexes
<1>2. CASE k \notin DOMAIN index
  <2>1. OccsUnder(windows, k) = {}
    BY <1>2 DEF OccsUnder, Indexes
  <2>2. QED
    BY <1>2, <2>1, NothingListed DEF OccsOf
<1>3. QED
  BY <1>1, <1>2

LEMMA NothingIndexed ==
  ASSUME NEW windows, DOMAIN windows = {}
  PROVE  Indexes(EmptyIndex, windows)
BY DEF Indexes, EmptyIndex

\* A window behind all that are indexed is pushed.
LEMMA PushIndexes ==
  ASSUME NEW index, NEW windows, Indexes(index, windows),
         NEW more, Positioned(more), NEW p, DOMAIN more = DOMAIN windows \cup {p},
         \A q \in DOMAIN windows : more[q] = windows[q] /\ Precedes(q, p)
  PROVE  Indexes(push(index, more[p].key, more[p].occ), more)
<1> DEFINE key == more[p].key
           occ == more[p].occ
           next == push(index, key, occ)
<1>1. p \in DOMAIN more /\ DOMAIN windows \subseteq DOMAIN more
  OBVIOUS
<1>2. DOMAIN next = {more[q].key : q \in DOMAIN more}
  <2>1. DOMAIN next = DOMAIN index \cup {key}
    BY DEF push
  <2>2. DOMAIN index = {windows[q].key : q \in DOMAIN windows}
    BY DEF Indexes
  <2>3. QED
    BY <2>1, <2>2
<1>3. ASSUME NEW k \in DOMAIN next PROVE Lists(next[k], OccsUnder(more, k))
  <2>1. CASE k = key
    <3>1. next[k] = Append(OccsOf(index, k), occ)
      BY <2>1 DEF push
    <3>2. OccsUnder(more, k) = OccsUnder(windows, k) \cup {occ}
      BY <2>1, <1>1 DEF OccsUnder
    <3>3. \A o \in OccsUnder(windows, k) : ByPosition(o, occ)
      BY <1>1, PlacesOrder DEF OccsUnder
    <3>4. Lists(OccsOf(index, k), OccsUnder(windows, k))
      BY OccsListed
    <3> HIDE DEF occ
    <3>5. QED
      BY <3>1, <3>2, <3>3, <3>4, ListsAppend
  <2>2. CASE k # key
    <3>1. k \in DOMAIN index /\ next[k] = index[k]
      BY <2>2 DEF push
    <3>2. OccsUnder(more, k) = OccsUnder(windows, k)
      BY <2>2, <1>1 DEF OccsUnder
    <3>3. QED
      BY <3>1, <3>2 DEF Indexes
  <2>3. QED
    BY <2>1, <2>2
<1>4. QED
  BY <1>2, <1>3 DEF Indexes

LEMMA AddsUp == \A i, m \in Nat, j \in Nat \ {0} : i <= m => i < j + m
OBVIOUS

\* The place of a window in the common table.
Behind(p, offset) == <<p[1] + offset, p[2]>>

Numbered(windows) ==
  \A p \in DOMAIN windows : /\ windows[p].occ = [f \in OccFields |-> windows[p].occ[f]]
                            /\ windows[p].occ.file_idx \in Nat

\* Some windows, and others in a table that begins behind theirs.
WithTable(all, windows, others, offset) ==
  /\ DOMAIN all = DOMAIN windows \cup {Behind(p, offset) : p \in DOMAIN others}
  /\ \A p \in DOMAIN windows : all[p] = windows[p] /\ p[1] <= offset
  /\ \A p \in DOMAIN others :
        /\ p[1] # 0
        /\ all[Behind(p, offset)].key = others[p].key
        /\ all[Behind(p, offset)].occ = Rebased(others[p].occ, offset)

\* An index over the files of one table and one over those of a second, whose
\* files come behind the first's.
LEMMA ExtendIndexes ==
  ASSUME NEW index, NEW windows, Indexes(index, windows), Positioned(windows),
         NEW other, NEW others, Indexes(other, others), Positioned(others),
         Numbered(others), NEW offset \in Nat, NEW all, WithTable(all, windows, others, offset)
  PROVE  Indexes(extend_from(index, other, offset), all)
<1>0. /\ DOMAIN all = DOMAIN windows \cup {Behind(p, offset) : p \in DOMAIN others}
      /\ \A p \in DOMAIN windows : all[p] = windows[p] /\ p[1] <= offset
      /\ \A p \in DOMAIN others :
            /\ p[1] # 0
            /\ all[Behind(p, offset)].key = others[p].key
            /\ all[Behind(p, offset)].occ = Rebased(others[p].occ, offset)
  BY DEF WithTable
<1> USE <1>0
<1> DEFINE next == extend_from(index, other, offset)
<1>1. DOMAIN next = {all[p].key : p \in DOMAIN all}
  <2>1. DOMAIN next = DOMAIN index \cup DOMAIN other
    BY DEF extend_from
  <2>2. /\ DOMAIN index = {windows[p].key : p \in DOMAIN windows}
        /\ DOMAIN other = {others[p].key : p \in DOMAIN others}
    BY DEF Indexes
  <2>3. ASSUME NEW p \in DOMAIN all
        PROVE  \/ \E q \in DOMAIN windows : all[p].key = windows[q].key
               \/ \E q \in DOMAIN others : all[p].key = others[q].key
    <3>1. CASE p \in DOMAIN windows
      BY <3>1
    <3>2. CASE p \notin DOMAIN windows
      <4>1. PICK q \in DOMAIN others : p = Behind(q, offset)
        BY <3>2
      <4>2. QED
        BY <4>1
    <3>3. QED
      BY <3>1, <3>2
  <2>4. ASSUME NEW q \in DOMAIN windows PROVE \E p \in DOMAIN all : all[p].key = windows[q].key
    <3>1. q \in DOMAIN all /\ all[q] = windows[q]
      OBVIOUS
    <3>2. QED
      BY <3>1
  <2>5. ASSUME NEW q \in DOMAIN others PROVE \E p \in DOMAIN all : all[p].key = others[q].key
    <3>1. Behind(q, offset) \in {Behind(p, offset) : p \in DOMAIN others}
      OBVIOUS
    <3>2. QED
      BY <3>1
  <2> HIDE DEF next
  <2>6. QED
    BY <2>1, <2>2, <2>3, <2>4, <2>5
<1>2. ASSUME NEW k \in DOMAIN next PROVE Lists(next[k], OccsUnder(all, k))
  <2> DEFINE first == OccsUnder(windows, k)
             second == OccsUnder(others, k)
             moved == {Rebased(o, offset) : o \in second}
  <2>1. next[k] = OccsOf(index, k) \o rebase_file_indexes(OccsOf(other, k), offset)
    BY DEF extend_from
  <2>2. OccsUnder(all, k) = first \cup moved
    <3>1. ASSUME NEW o \in OccsUnder(all, k) PROVE o \in first \cup moved
      <4>1. PICK p \in DOMAIN all : all[p].key = k /\ o = all[p].occ
        BY <3>1 DEF OccsUnder
      <4>2. CASE p \in DOMAIN windows
        BY <4>1, <4>2 DEF OccsUnder
      <4>3. CASE p \in {Behind(q, offset) : q \in DOMAIN others}
        <5>1. PICK q \in DOMAIN others : p = Behind(q, offset)
          BY <4>3
        <5>2. others[q].key = k /\ o = Rebased(others[q].occ, offset)
          BY <4>1, <5>1
        <5>3. others[q].occ \in second
          BY <5>2 DEF OccsUnder
        <5>4. QED
          BY <5>2, <5>3
      <4>4. QED
        BY <4>1, <4>2, <4>3
    <3>2. ASSUME NEW o \in first PROVE o \in OccsUnder(all, k)
      BY <3>2 DEF OccsUnder
    <3>3. ASSUME NEW o \in moved PROVE o \in OccsUnder(all, k)
      <4>1. PICK q \in DOMAIN others : others[q].key = k /\ o = Rebased(others[q].occ, offset)
        BY <3>3 DEF OccsUnder
      <4>2. Behind(q, offset) \in DOMAIN all
        OBVIOUS
      <4>3. QED
        BY <4>1, <4>2 DEF OccsUnder
    <3>4. QED
      BY <3>1, <3>2, <3>3
  <2>3. Lists(OccsOf(index, k), first) /\ Lists(OccsOf(other, k), second)
    BY OccsListed
  <2>4. AllNumbered(second)
    BY DEF Numbered, AllNumbered, OccsUnder
  <2>5. Lists(rebase_file_indexes(OccsOf(other, k), offset), moved)
    <3> HIDE DEF second
    <3> QED BY <2>3, <2>4, ListsRebased
  <2>6. ASSUME NEW o \in first, NEW x \in moved PROVE ByPosition(o, x)
    <3>1. PICK p \in DOMAIN windows : o = windows[p].occ
      BY DEF OccsUnder
    <3>2. PICK y \in second : x = Rebased(y, offset)
      OBVIOUS
    <3>3. PICK q \in DOMAIN others : y = others[q].occ
      BY <3>2 DEF OccsUnder
    <3>4. o.file_idx \in Nat /\ o.file_idx <= offset
      BY <3>1 DEF Positioned, Place
    <3>5. y.file_idx \in Nat \ {0}
      BY <3>3 DEF Positioned, Place
    <3>6. x.file_idx = y.file_idx + offset
      BY <3>2, <2>4 DEF Rebased, AllNumbered, OccFields
    <3>7. o.file_idx < x.file_idx
      BY <3>4, <3>5, <3>6, AddsUp
    <3>8. QED
      BY <3>7 DEF ByPosition
  <2> HIDE DEF first, moved
  <2>7. QED
    BY <2>1, <2>2, <2>3, <2>5, <2>6, ListsConcat
<1>3. QED
  BY <1>1, <1>2 DEF Indexes

\* Indexes looks at the windows only.
LEMMA SameWindows ==
  ASSUME NEW index, NEW windows, Indexes(index, windows), NEW others,
         DOMAIN others = DOMAIN windows, \A p \in DOMAIN windows : others[p] = windows[p]
  PROVE  Indexes(index, others)
<1>1. {others[p].key : p \in DOMAIN others} = {windows[p].key : p \in DOMAIN windows}
  OBVIOUS
<1>2. \A k : OccsUnder(others, k) = OccsUnder(windows, k)
  BY DEF OccsUnder
<1>3. QED
  BY <1>1, <1>2 DEF Indexes

-----------------------------------------------------------------------------
(* One file: its lines and its windows.                                    *)

LineOf(contents, i) ==
  [line_number |-> i, joined |-> contents[i].tokens, is_import |-> contents[i].import]

\* The lines of a file that have tokens, as normalized_lines collects them.
Collects(lines, contents, last) ==
  lines = [i \in 0 .. last |-> IF i = 0 THEN <<>>
                               ELSE IF contents[i].tokens = <<>> THEN lines[i - 1]
                               ELSE Append(lines[i - 1], LineOf(contents, i))]

LEMMA CollectionExists ==
  ASSUME NEW contents
  PROVE  \A last \in Nat : \E lines : Collects(lines, contents, last)
<1> DEFINE Bad == {m \in Nat : ~ \E lines : Collects(lines, contents, m)}
<1> SUFFICES ASSUME Bad # {} PROVE FALSE
  OBVIOUS
<1>1. PICK m \in Bad : \A k \in Bad : m <= k
  BY Least
<1>2. m \in Nat /\ ~ \E lines : Collects(lines, contents, m)
  OBVIOUS
<1>3. m # 0
  <2>1. Collects([i \in 0 .. 0 |-> <<>>], contents, 0)
    BY DEF Collects
  <2>2. QED
    BY <1>2, <2>1
<1>4. m - 1 \in Nat /\ m - 1 \notin Bad
  BY <1>1, <1>2, <1>3
<1>5. PICK shorter : Collects(shorter, contents, m - 1)
  BY <1>4
<1> DEFINE step(i, before) == IF contents[i].tokens = <<>> THEN before
                              ELSE Append(before, LineOf(contents, i))
           lines == [i \in 0 .. m |-> IF i < m THEN shorter[i] ELSE step(m, shorter[m - 1])]
<1>6. ASSUME NEW i \in 0 .. m
      PROVE  lines[i] = IF i = 0 THEN <<>> ELSE step(i, lines[i - 1])
  <2>1. CASE i < m
    <3>1. i \in 0 .. m - 1 /\ (i # 0 => i - 1 \in 0 .. m /\ i - 1 < m)
      BY <2>1, <1>2
    <3>2. shorter[i] = IF i = 0 THEN <<>> ELSE step(i, shorter[i - 1])
      BY <3>1, <1>5 DEF Collects
    <3>3. QED
      BY <2>1, <3>1, <3>2
  <2>2. CASE i = m
    <3>1. m - 1 \in 0 .. m /\ m - 1 < m
      BY <1>2, <1>3
    <3> HIDE DEF step
    <3>2. QED
      BY <2>2, <3>1, <1>3
  <2>3. QED
    BY <2>1, <2>2, <1>2
<1>7. Collects(lines, contents, m)
  <2>1. lines = [i \in 0 .. m |-> lines[i]]
    OBVIOUS
  <2> HIDE DEF lines
  <2>2. QED
    BY <2>1, <1>6 DEF Collects
<1>8. QED
  BY <1>2, <1>7

\* A text has so many lines.
LEMMA LinesCounted ==
  ASSUME NEW contents \in Texts
  PROVE  Len(normalized_lines(contents)) \in Nat
<1> DEFINE last == Len(contents)
           lines == CHOOSE lines : Collects(lines, contents, last)
           S == {LineOf(contents, i) : i \in 1 .. last}
<1>1. last \in Nat
  BY TextsAssumption
<1>2. Collects(lines, contents, last)
  BY <1>1, CollectionExists
<1>3. normalized_lines(contents) = lines[last]
  BY DEF normalized_lines, Collects, LineOf
<1> HIDE DEF lines, last
<1> DEFINE Bad == {i \in 0 .. last : lines[i] \notin Seq(S)}
<1>4. Bad = {}
  <2> SUFFICES ASSUME Bad # {} PROVE FALSE
    OBVIOUS
  <2>1. Bad \in SUBSET Nat
    BY <1>1
  <2>2. PICK m \in Bad : \A k \in Bad : m <= k
    <3> HIDE DEF Bad
    <3> QED BY <2>1, Least
  <2>3. m \in 0 .. last /\ lines[m] \notin Seq(S)
    OBVIOUS
  <2>4. m # 0
    <3>1. lines[0] = <<>>
      BY <1>1, <1>2 DEF Collects
    <3>2. <<>> \in Seq(S)
      OBVIOUS
    <3>3. QED
      BY <2>3, <3>1, <3>2
  <2>5. m - 1 \in 0 .. last /\ m - 1 \notin Bad /\ m \in 1 .. last
    BY <2>2, <2>3, <2>4, <1>1
  <2>6. lines[m - 1] \in Seq(S) /\ LineOf(contents, m) \in S
    BY <2>5
  <2>7. Append(lines[m - 1], LineOf(contents, m)) \in Seq(S)
    <3> HIDE DEF S
    <3> QED BY <2>6, AppendProperties
  <2>8. lines[m] = IF contents[m].tokens = <<>> THEN lines[m - 1]
                   ELSE Append(lines[m - 1], LineOf(contents, m))
    BY <2>3, <2>4, <1>2 DEF Collects
  <2>9. QED
    BY <2>3, <2>6, <2>7, <2>8
<1>5. last \in 0 .. last
  BY <1>1
<1>6. lines[last] \in Seq(S)
  BY <1>4, <1>5
<1>7. QED
  BY <1>3, <1>6, LenProperties

\* One position of the window: pushed if it passes.
Slide(before, s, normalized, repo_idx, file_idx, lang, size, opts) ==
  IF ~WindowPasses(WindowAt(normalized, s, size), lang, opts) THEN before
  ELSE push(before, window_key(WindowAt(normalized, s, size)),
            ScanOccurrence(normalized, s, repo_idx, file_idx, size))

Slides(scanned, index, normalized, repo_idx, file_idx, lang, size, opts, last) ==
  scanned = [s \in 0 .. last |->
                IF s = 0 THEN index
                ELSE Slide(scanned[s - 1], s, normalized, repo_idx, file_idx, lang, size, opts)]

LEMMA SlidesExist ==
  ASSUME NEW index, NEW normalized, NEW repo_idx, NEW file_idx, NEW lang, NEW size, NEW opts
  PROVE  \A last \in Nat : \E scanned :
            Slides(scanned, index, normalized, repo_idx, file_idx, lang, size, opts, last)
<1> DEFINE Slid(scanned, m) ==
              Slides(scanned, index, normalized, repo_idx, file_idx, lang, size, opts, m)
           step(s, before) == Slide(before, s, normalized, repo_idx, file_idx, lang, size, opts)
           Bad == {m \in Nat : ~ \E scanned : Slid(scanned, m)}
<1> SUFFICES ASSUME Bad # {} PROVE FALSE
  OBVIOUS
<1>0. \A scanned, m : Slid(scanned, m) <=>
          scanned = [s \in 0 .. m |-> IF s = 0 THEN index ELSE step(s, scanned[s - 1])]
  BY DEF Slides
<1> HIDE DEF Slid, step
<1>1. PICK m \in Bad : \A k \in Bad : m <= k
  BY Least
<1>2. m \in Nat /\ ~ \E scanned : Slid(scanned, m)
  OBVIOUS
<1>3. m # 0
  <2> DEFINE none == [s \in 0 .. 0 |-> index]
  <2>1. \A s \in 0 .. 0 : s = 0
    OBVIOUS
  <2>2. none = [s \in 0 .. 0 |-> IF s = 0 THEN index ELSE step(s, none[s - 1])]
    BY <2>1
  <2> HIDE DEF none
  <2>3. Slid(none, 0)
    BY <1>0, <2>2
  <2>4. QED
    BY <1>2, <2>3
<1>4. m - 1 \in Nat /\ m - 1 \notin Bad
  BY <1>1, <1>2, <1>3
<1>5. PICK shorter : Slid(shorter, m - 1)
  BY <1>4
<1> DEFINE longer == [s \in 0 .. m |-> IF s < m THEN shorter[s] ELSE step(m, shorter[m - 1])]
<1>6. ASSUME NEW s \in 0 .. m
      PROVE  longer[s] = IF s = 0 THEN index ELSE step(s, longer[s - 1])
  <2>1. CASE s < m
    <3>1. s \in 0 .. m - 1 /\ (s # 0 => s - 1 \in 0 .. m /\ s - 1 < m)
      BY <2>1, <1>2
    <3>2. shorter[s] = IF s = 0 THEN index ELSE step(s, shorter[s - 1])
      BY <3>1, <1>5, <1>0
    <3>3. QED
      BY <2>1, <3>1, <3>2
  <2>2. CASE s = m
    <3>1. m - 1 \in 0 .. m /\ m - 1 < m
      BY <1>2, <1>3
    <3>2. QED
      BY <2>2, <3>1, <1>3
  <2>3. QED
    BY <2>1, <2>2, <1>2
<1>7. Slid(longer, m)
  <2>1. longer = [s \in 0 .. m |-> longer[s]]
    OBVIOUS
  <2> HIDE DEF longer
  <2>2. QED
    BY <2>1, <1>6, <1>0
<1>8. QED
  BY <1>2, <1>7

\* The positions in a text whose windows are recorded.
PassingStarts(text, size, lang, opts) ==
  {s \in 1 .. Len(text) - size + 1 : WindowPasses(WindowAt(text, s, size), lang, opts)}

\* Some windows, and those of one more file behind them.
WithFile(all, windows, file_idx, text, repo_idx, lang, size, opts) ==
  /\ DOMAIN all = DOMAIN windows \cup
                     {<<file_idx, s>> : s \in PassingStarts(text, size, lang, opts)}
  /\ \A p \in DOMAIN windows : all[p] = windows[p] /\ p[1] < file_idx
  /\ \A s \in PassingStarts(text, size, lang, opts) :
        /\ all[<<file_idx, s>>].key = window_key(WindowAt(text, s, size))
        /\ all[<<file_idx, s>>].occ = ScanOccurrence(text, s, repo_idx, file_idx, size)

\* Scanning one more file records its windows behind those of the files before.
LEMMA ScanIndexes ==
  ASSUME NEW index, NEW windows, Indexes(index, windows),
         NEW normalized, Len(normalized) \in Nat, NEW repo_idx, NEW file_idx \in Nat,
         NEW lang, NEW size \in Nat, NEW opts, NEW all, Positioned(all),
         WithFile(all, windows, file_idx, normalized, repo_idx, lang, size, opts)
  PROVE  Indexes(scan_windows(index, normalized, repo_idx, file_idx, lang, size, opts), all)
<1> DEFINE starts == PassingStarts(normalized, size, lang, opts)
<1>0. /\ starts = {s \in 1 .. Len(normalized) - size + 1 :
                      WindowPasses(WindowAt(normalized, s, size), lang, opts)}
      /\ DOMAIN all = DOMAIN windows \cup {<<file_idx, s>> : s \in starts}
      /\ \A p \in DOMAIN windows : all[p] = windows[p] /\ p[1] < file_idx
      /\ \A s \in starts :
            /\ all[<<file_idx, s>>].key = window_key(WindowAt(normalized, s, size))
            /\ all[<<file_idx, s>>].occ =
                  ScanOccurrence(normalized, s, repo_idx, file_idx, size)
  BY DEF PassingStarts, WithFile
<1> HIDE DEF starts
<1> USE <1>0
<1>1. CASE Len(normalized) < size
  <2>1. starts = {}
    BY <1>1
  <2>2. Indexes(index, all)
    BY <2>1, SameWindows
  <2>3. QED
    BY <1>1, <2>2 DEF scan_windows
<1>2. CASE ~(Len(normalized) < size)
  <2> DEFINE last == Len(normalized) - size + 1
             scanned == CHOOSE scanned : Slides(scanned, index, normalized, repo_idx, file_idx,
                                                lang, size, opts, last)
             passes(s) == WindowPasses(WindowAt(normalized, s, size), lang, opts)
             upto(s) == DOMAIN windows \cup {<<file_idx, t>> : t \in {u \in starts : u <= s}}
             part(s) == [p \in upto(s) |-> all[p]]
  <2>1. last \in Nat /\ starts = {s \in 1 .. last : passes(s)}
    BY <1>2
  <2>2. Slides(scanned, index, normalized, repo_idx, file_idx, lang, size, opts, last)
    BY <2>1, SlidesExist
  <2>3. scan_windows(index, normalized, repo_idx, file_idx, lang, size, opts) = scanned[last]
    BY <1>2 DEF scan_windows, Slides, Slide
  <2> HIDE DEF scanned, last, passes
  <2>4. scanned[0] = index
    BY <2>1, <2>2 DEF Slides
  <2>5. ASSUME NEW s \in 1 .. last
        PROVE  scanned[s] = Slide(scanned[s - 1], s, normalized, repo_idx, file_idx,
                                  lang, size, opts)
    <3>1. s \in 0 .. last /\ s # 0
      BY <2>1
    <3>2. QED
      BY <3>1, <2>2 DEF Slides
  <2>6. \A s : upto(s) \subseteq DOMAIN all
    OBVIOUS
  <2>7. \A s : Positioned(part(s))
    BY <2>6 DEF Positioned
  <2> DEFINE Bad == {s \in 0 .. last : ~Indexes(scanned[s], part(s))}
  <2>8. Bad = {}
    <3> SUFFICES ASSUME Bad # {} PROVE FALSE
      OBVIOUS
    <3>1. Bad \in SUBSET Nat
      BY <2>1
    <3>2. PICK m \in Bad : \A k \in Bad : m <= k
      <4> HIDE DEF Bad
      <4> QED BY <3>1, Least
    <3>3. m \in 0 .. last /\ ~Indexes(scanned[m], part(m))
      OBVIOUS
    <3>4. m # 0
      <4>1. upto(0) = DOMAIN windows
        <5>1. \A u \in starts : ~(u <= 0)
          BY <2>1
        <5>2. QED
          BY <5>1
      <4>2. DOMAIN part(0) = DOMAIN windows /\ \A p \in DOMAIN windows : part(0)[p] = windows[p]
        BY <4>1
      <4>3. Indexes(index, part(0))
        <5> HIDE DEF part
        <5> QED BY <4>2, SameWindows
      <4>4. QED
        BY <2>4, <3>3, <4>3
    <3>5. m \in 1 .. last /\ m - 1 \in 0 .. last /\ m - 1 \notin Bad
      <4>1. m \in 1 .. last /\ m - 1 \in 0 .. last /\ ~(m <= m - 1)
        BY <3>3, <3>4, <2>1
      <4> HIDE DEF Bad
      <4>2. QED
        BY <3>2, <4>1
    <3>6. Indexes(scanned[m - 1], part(m - 1))
      BY <3>5
    <3>7. \A t \in starts : t <= m <=> (t <= m - 1 \/ t = m)
      BY <2>1, <3>5
    <3>8. CASE passes(m)
      <4> DEFINE p == <<file_idx, m>>
      <4>1. m \in starts
        BY <2>1, <3>5, <3>8
      <4>2. upto(m) = upto(m - 1) \cup {p}
        BY <3>7, <4>1
      <4>3. /\ all[p].key = window_key(WindowAt(normalized, m, size))
            /\ all[p].occ = ScanOccurrence(normalized, m, repo_idx, file_idx, size)
        BY <4>1
      <4>4. scanned[m] = push(scanned[m - 1], all[p].key, all[p].occ)
        BY <2>5, <3>5, <3>8, <4>3 DEF Slide, passes
      <4>5. \A q \in upto(m - 1) : Precedes(q, p)
        <5> SUFFICES ASSUME NEW q \in upto(m - 1) PROVE Precedes(q, p)
          OBVIOUS
        <5>1. CASE q \in DOMAIN windows
          BY <5>1 DEF Precedes
        <5>2. CASE q \notin DOMAIN windows
          <6>1. PICK t \in starts : q = <<file_idx, t>> /\ t <= m - 1
            BY <5>2
          <6>2. t < m
            BY <6>1, <2>1, <3>5
          <6>3. QED
            BY <6>1, <6>2 DEF Precedes
        <5>3. QED
          BY <5>1, <5>2
      <4>6. /\ DOMAIN part(m) = DOMAIN part(m - 1) \cup {p}
            /\ \A q \in DOMAIN part(m - 1) : part(m)[q] = part(m - 1)[q] /\ Precedes(q, p)
            /\ part(m)[p] = all[p]
        <5>1. p \in upto(m) /\ upto(m - 1) \subseteq upto(m)
          BY <4>2
        <5> HIDE DEF upto, p
        <5>2. QED
          BY <4>2, <4>5, <5>1
      <4>7. Positioned(part(m))
        BY <2>7
      <4>8. Indexes(push(scanned[m - 1], part(m)[p].key, part(m)[p].occ), part(m))
        <5> HIDE DEF part, p
        <5> QED BY <3>6, <4>6, <4>7, PushIndexes
      <4>9. QED
        BY <3>3, <4>4, <4>6, <4>8
    <3>9. CASE ~passes(m)
      <4>1. upto(m) = upto(m - 1)
        BY <2>1, <3>7, <3>9
      <4>2. scanned[m] = scanned[m - 1]
        BY <2>5, <3>5, <3>9 DEF Slide, passes
      <4>3. QED
        BY <3>3, <3>6, <4>1, <4>2
    <3>10. QED
      BY <3>8, <3>9
  <2>9. Indexes(scanned[last], part(last))
    <3>1. last \in 0 .. last
      BY <2>1
    <3>2. QED
      BY <3>1, <2>8
  <2>10. DOMAIN all = DOMAIN part(last) /\ \A p \in DOMAIN part(last) : all[p] = part(last)[p]
    <3>1. upto(last) = DOMAIN all
      BY <2>1
    <3>2. QED
      BY <3>1
  <2>11. QED
    <3> HIDE DEF part
    <3> QED BY <2>3, <2>9, <2>10, SameWindows
<1>3. QED
  BY <1>1, <1>2

-----------------------------------------------------------------------------
(* File tables and the windows of their files.  The definitions take what    *)
(* they read of the state as parameters.                                    *)

SizeOf(opts) == Max({opts.base.window_lines, 2})

TextOf(sn, e) == normalized_lines(sn[e.id])

StartsOf(sn, opts, e) == PassingStarts(TextOf(sn, e), SizeOf(opts), e.lang, opts)

WindowOf(sn, opts, e, n, s) ==
  [key |-> window_key(WindowAt(TextOf(sn, e), s, SizeOf(opts))),
   occ |-> ScanOccurrence(TextOf(sn, e), s, e.id[1], n, SizeOf(opts))]

PlacesIn(files, sn, opts) ==
  UNION {{<<n, s>> : s \in StartsOf(sn, opts, files[n])} : n \in DOMAIN files}

WindowsIn(files, sn, opts) ==
  [p \in PlacesIn(files, sn, opts) |-> WindowOf(sn, opts, files[p[1]], p[1], p[2])]

LEMMA WindowsOfIs ==
  ASSUME NEW files
  PROVE  WindowsOf(files) = WindowsIn(files, seen, options)
BY DEF WindowsOf, WindowsIn, PlacesIn, WindowOf, StartsOf, PassingStarts,
       TextOf, SizeOf, WindowLines

\* A table lists the scanned ones among some files, in their order, and its
\* index lists their windows.
SoundTable(files, index, ids, entries, sn, opts) ==
  /\ files \in Seq(entries)
  /\ {files[n].id : n \in DOMAIN files} = {f \in ids : sn[f] # NotRead}
  /\ \A m, n \in DOMAIN files : m < n => Precedes(files[m].id, files[n].id)
  /\ Indexes(index, WindowsIn(files, sn, opts))

LEMMA PlaceIn ==
  ASSUME NEW files, NEW sn, NEW opts, NEW p
  PROVE  p \in PlacesIn(files, sn, opts) <=>
            \E n \in DOMAIN files : \E s \in StartsOf(sn, opts, files[n]) : p = <<n, s>>
BY DEF PlacesIn

LEMMA OccurrenceIs ==
  ASSUME NEW text, NEW s, NEW r, NEW n, NEW size
  PROVE  LET occ == ScanOccurrence(text, s, r, n, size)
         IN  occ.file_idx = n /\ occ.norm_start = s /\ occ = [f \in OccFields |-> occ[f]]
BY DEF ScanOccurrence, OccFields

LEMMA WindowIs ==
  ASSUME NEW sn, NEW opts, NEW e, NEW n, NEW s
  PROVE  LET window == WindowOf(sn, opts, e, n, s)
             text == normalized_lines(sn[e.id])
         IN  /\ window.key = window_key(WindowAt(text, s, SizeOf(opts)))
             /\ window.occ = ScanOccurrence(text, s, e.id[1], n, SizeOf(opts))
BY DEF WindowOf, TextOf

LEMMA WindowsPlaced ==
  ASSUME NEW S, NEW files \in Seq(S), NEW sn, NEW opts
  PROVE  LET windows == WindowsIn(files, sn, opts)
         IN  /\ DOMAIN windows = PlacesIn(files, sn, opts)
             /\ Positioned(windows)
             /\ Numbered(windows)
             /\ \A p \in DOMAIN windows : p[1] \in 1 .. Len(files)
<1> DEFINE windows == WindowsIn(files, sn, opts)
<1>1. DOMAIN files = 1 .. Len(files) /\ Len(files) \in Nat
  BY LenProperties
<1>2. DOMAIN windows = PlacesIn(files, sn, opts)
  BY DEF WindowsIn
<1>3. ASSUME NEW p \in DOMAIN windows
      PROVE  /\ p = <<p[1], p[2]>> /\ p[1] \in 1 .. Len(files) /\ p[2] \in Nat
             /\ windows[p].occ = ScanOccurrence(TextOf(sn, files[p[1]]), p[2], files[p[1]].id[1],
                                                p[1], SizeOf(opts))
  <2>1. PICK n \in DOMAIN files : \E s \in StartsOf(sn, opts, files[n]) : p = <<n, s>>
    BY <1>2, PlaceIn
  <2>2. PICK s \in StartsOf(sn, opts, files[n]) : p = <<n, s>>
    BY <2>1
  <2>3. s \in Nat
    BY DEF StartsOf, PassingStarts
  <2>4. windows[p] = WindowOf(sn, opts, files[p[1]], p[1], p[2])
    BY <1>2 DEF WindowsIn
  <2>5. QED
    BY <1>1, <2>2, <2>3, <2>4 DEF WindowOf
<1> HIDE DEF windows
<1>4. ASSUME NEW p \in DOMAIN windows
      PROVE  /\ Place(p) /\ windows[p].occ.file_idx = p[1] /\ windows[p].occ.norm_start = p[2]
             /\ windows[p].occ = [f \in OccFields |-> windows[p].occ[f]]
             /\ p[1] \in Nat
  <2>1. p[1] \in Nat
    BY <1>1, <1>3
  <2>2. QED
    BY <2>1, <1>3, OccurrenceIs DEF Place
<1>5. Positioned(windows) /\ Numbered(windows)
  BY <1>4 DEF Positioned, Numbered
<1>6. QED
  BY <1>2, <1>3, <1>5 DEF windows

\* Before anything is scanned.
LEMMA EmptyTable ==
  ASSUME NEW ids, NEW entries, NEW sn, NEW opts, \A f \in ids : sn[f] = NotRead
  PROVE  SoundTable(<<>>, EmptyIndex, ids, entries, sn, opts)
<1>1. <<>> \in Seq(entries) /\ DOMAIN <<>> = {}
  BY EmptySeq, LenProperties
<1>2. DOMAIN WindowsIn(<<>>, sn, opts) = {}
  BY <1>1, PlaceIn DEF WindowsIn
<1>3. Indexes(EmptyIndex, WindowsIn(<<>>, sn, opts))
  BY <1>2, NothingIndexed
<1>4. QED
  BY <1>1, <1>3 DEF SoundTable

\* The windows of a table depend on its files alone.
AgreeOn(files, sn, sn2) == \A n \in DOMAIN files : sn2[files[n].id] = sn[files[n].id]

LEMMA SameText ==
  ASSUME NEW files, NEW sn, NEW sn2, NEW opts, AgreeOn(files, sn, sn2)
  PROVE  WindowsIn(files, sn2, opts) = WindowsIn(files, sn, opts)
<1>1. \A n \in DOMAIN files : TextOf(sn2, files[n]) = TextOf(sn, files[n])
  BY DEF AgreeOn, TextOf
<1>2. \A n \in DOMAIN files : StartsOf(sn2, opts, files[n]) = StartsOf(sn, opts, files[n])
  BY <1>1 DEF StartsOf
<1>3. PlacesIn(files, sn2, opts) = PlacesIn(files, sn, opts)
  BY <1>2 DEF PlacesIn
<1>4. \A p \in PlacesIn(files, sn, opts) :
         WindowOf(sn2, opts, files[p[1]], p[1], p[2]) = WindowOf(sn, opts, files[p[1]], p[1], p[2])
  <2>1. \A p \in PlacesIn(files, sn, opts) : p[1] \in DOMAIN files
    BY PlaceIn
  <2>2. QED
    BY <1>1, <2>1 DEF WindowOf
<1>5. QED
  BY <1>1, <1>3, <1>4 DEF WindowsIn

LEMMA TableStays ==
  ASSUME NEW files, NEW index, NEW ids, NEW entries, NEW sn, NEW sn2, NEW opts,
         SoundTable(files, index, ids, entries, sn, opts),
         \A f \in ids : sn2[f] = sn[f]
  PROVE  SoundTable(files, index, ids, entries, sn2, opts)
<1>1. \A n \in DOMAIN files : files[n].id \in ids
  BY DEF SoundTable
<1>2. WindowsIn(files, sn2, opts) = WindowsIn(files, sn, opts)
  BY <1>1, SameText DEF AgreeOn
<1>3. {f \in ids : sn2[f] # NotRead} = {f \in ids : sn[f] # NotRead}
  OBVIOUS
<1>4. QED
  BY <1>2, <1>3 DEF SoundTable

\* One more file is scanned, behind those of the table.
LEMMA TableGrows ==
  ASSUME NEW files, NEW index, NEW ids, NEW entries, NEW sn, NEW sn2, NEW opts,
         SoundTable(files, index, ids, entries, sn, opts), SizeOf(opts) \in Nat,
         NEW entry \in entries, entry.id \in ids, sn2[entry.id] \in Texts,
         \A f \in ids \ {entry.id} : sn2[f] = sn[f],
         \A n \in DOMAIN files : Precedes(files[n].id, entry.id) /\ files[n].id # entry.id
  PROVE  SoundTable(Append(files, entry),
                    scan_windows(index, normalized_lines(sn2[entry.id]), entry.id[1],
                                 Len(files) + 1, entry.lang, SizeOf(opts), opts),
                    ids, entries, sn2, opts)
<1> DEFINE longer == Append(files, entry)
           last == Len(files) + 1
           text == normalized_lines(sn2[entry.id])
           starts == StartsOf(sn2, opts, entry)
           windows == WindowsIn(files, sn2, opts)
           all == WindowsIn(longer, sn2, opts)
<1>1. files \in Seq(entries)
  BY DEF SoundTable
<1>2. /\ longer \in Seq(entries) /\ Len(longer) = last /\ longer[last] = entry
      /\ \A i \in 1 .. Len(files) : longer[i] = files[i]
  BY <1>1, AppendProperties
<1>3. Len(files) \in Nat /\ DOMAIN files = 1 .. Len(files) /\ DOMAIN longer = 1 .. last
  BY <1>1, <1>2, LenProperties
<1>4. DOMAIN longer = DOMAIN files \cup {last} /\ last \notin DOMAIN files /\ last \in Nat
  BY <1>3
<1> HIDE DEF longer, last
<1>5. {longer[n].id : n \in DOMAIN longer} = {f \in ids : sn2[f] # NotRead}
  <2>1. {longer[n].id : n \in DOMAIN longer} = {files[n].id : n \in DOMAIN files} \cup {entry.id}
    <3>1. \A n \in DOMAIN files : longer[n].id = files[n].id /\ n \in DOMAIN longer
      BY <1>2, <1>3, <1>4
    <3>2. longer[last].id = entry.id /\ last \in DOMAIN longer
      BY <1>2, <1>4
    <3>3. QED
      BY <3>1, <3>2, <1>4
  <2>2. sn2[entry.id] # NotRead
    BY TextsAssumption
  <2>3. {f \in ids : sn2[f] # NotRead} = {f \in ids : sn[f] # NotRead} \cup {entry.id}
    <3>1. \A n \in DOMAIN files : files[n].id # entry.id
      OBVIOUS
    <3>2. entry.id \notin {f \in ids : sn[f] # NotRead}
      BY <3>1 DEF SoundTable
    <3>3. QED
      BY <2>2, <3>2
  <2>4. QED
    BY <2>1, <2>3 DEF SoundTable
<1>6. ASSUME NEW m \in DOMAIN longer, NEW n \in DOMAIN longer, m < n
      PROVE  Precedes(longer[m].id, longer[n].id)
  <2>1. m \in DOMAIN files /\ longer[m] = files[m]
    BY <1>2, <1>3, <1>6 DEF last
  <2>2. CASE n = last
    BY <2>1, <2>2, <1>2
  <2>3. CASE n # last
    <3>1. n \in DOMAIN files /\ longer[n] = files[n]
      BY <2>3, <1>2, <1>3, <1>4
    <3>2. QED
      BY <2>1, <3>1, <1>6 DEF SoundTable
  <2>4. QED
    BY <2>2, <2>3
<1>7. Indexes(index, windows)
  <2>1. AgreeOn(files, sn, sn2)
    BY DEF SoundTable, AgreeOn
  <2>2. WindowsIn(files, sn2, opts) = WindowsIn(files, sn, opts)
    BY <2>1, SameText
  <2>3. QED
    BY <2>2 DEF SoundTable
<1>8. Positioned(all) /\ DOMAIN all = PlacesIn(longer, sn2, opts)
  BY <1>2, WindowsPlaced
<1>9. DOMAIN windows = PlacesIn(files, sn2, opts) /\ \A p \in DOMAIN windows : p[1] \in 1 .. Len(files)
  BY <1>1, WindowsPlaced
<1>10. DOMAIN all = DOMAIN windows \cup {<<last, s>> : s \in starts}
  <2>1. ASSUME NEW p
        PROVE  p \in PlacesIn(longer, sn2, opts) <=>
                  p \in PlacesIn(files, sn2, opts) \/ p \in {<<last, s>> : s \in starts}
    <3>1. p \in PlacesIn(files, sn2, opts) <=>
             \E n \in DOMAIN files : \E s \in StartsOf(sn2, opts, longer[n]) : p = <<n, s>>
      BY PlaceIn, <1>2, <1>3
    <3>2. p \in PlacesIn(longer, sn2, opts) <=>
             \E n \in DOMAIN longer : \E s \in StartsOf(sn2, opts, longer[n]) : p = <<n, s>>
      BY PlaceIn
    <3>3. QED
      BY <3>1, <3>2, <1>2, <1>4
  <2>2. QED
    BY <2>1, <1>8, <1>9
<1>11. \A p \in DOMAIN windows : all[p] = windows[p] /\ p[1] < last
  <2> SUFFICES ASSUME NEW p \in DOMAIN windows PROVE all[p] = windows[p] /\ p[1] < last
    OBVIOUS
  <2>1. p[1] \in 1 .. Len(files) /\ longer[p[1]] = files[p[1]]
    BY <1>2, <1>9
  <2>2. p \in PlacesIn(longer, sn2, opts) /\ p \in PlacesIn(files, sn2, opts)
    BY <1>8, <1>9, <1>10
  <2>3. QED
    BY <1>3, <2>1, <2>2 DEF WindowsIn, last
<1> HIDE DEF windows, all
<1>12. \A s \in starts :
          /\ all[<<last, s>>].key = window_key(WindowAt(text, s, SizeOf(opts)))
          /\ all[<<last, s>>].occ = ScanOccurrence(text, s, entry.id[1], last, SizeOf(opts))
  <2>1. ASSUME NEW s \in starts
        PROVE  all[<<last, s>>] = WindowOf(sn2, opts, entry, last, s)
    <3>1. <<last, s>> \in PlacesIn(longer, sn2, opts)
      BY <1>8, <1>10
    <3>2. QED
      BY <3>1, <1>2 DEF WindowsIn, all
  <2> HIDE DEF starts
  <2>2. QED
    BY <2>1, WindowIs
<1>13. WithFile(all, windows, last, text, entry.id[1], entry.lang, SizeOf(opts), opts)
  BY <1>10, <1>11, <1>12 DEF WithFile, StartsOf, TextOf
<1>14. Len(text) \in Nat
  BY LinesCounted
<1>15. Indexes(scan_windows(index, text, entry.id[1], last, entry.lang, SizeOf(opts), opts), all)
  <2> HIDE DEF text
  <2> QED BY <1>4, <1>7, <1>8, <1>13, <1>14, ScanIndexes
<1>16. QED
  BY <1>2, <1>5, <1>6, <1>15 DEF SoundTable, longer, last, all

\* Two tables, all files of the first before those of the second.
LEMMA TablesJoin ==
  ASSUME NEW files, NEW index, NEW ids, NEW entries, NEW sn, NEW opts,
         SoundTable(files, index, ids, entries, sn, opts),
         NEW files2, NEW index2, NEW ids2,
         SoundTable(files2, index2, ids2, entries, sn, opts),
         \A f \in ids, g \in ids2 : Precedes(f, g)
  PROVE  SoundTable(files \o files2, extend_from(index, index2, Len(files)), ids \cup ids2,
                    entries, sn, opts)
<1> DEFINE both == files \o files2
           offset == Len(files)
           windows == WindowsIn(files, sn, opts)
           others == WindowsIn(files2, sn, opts)
           all == WindowsIn(both, sn, opts)
<1>1. files \in Seq(entries) /\ files2 \in Seq(entries)
  BY DEF SoundTable
<1>2. /\ both \in Seq(entries) /\ Len(both) = offset + Len(files2)
      /\ \A i \in 1 .. offset + Len(files2) :
            both[i] = IF i <= offset THEN files[i] ELSE files2[i - offset]
  BY <1>1, ConcatProperties
<1>3. /\ offset \in Nat /\ DOMAIN files = 1 .. offset
      /\ Len(files2) \in Nat /\ DOMAIN files2 = 1 .. Len(files2)
      /\ DOMAIN both = 1 .. offset + Len(files2)
  BY <1>1, <1>2, LenProperties
<1> HIDE DEF both, offset
<1>4. \A i \in DOMAIN files : i \in DOMAIN both /\ both[i] = files[i]
  BY <1>2, <1>3
<1>5. \A i \in DOMAIN files2 : i + offset \in DOMAIN both /\ both[i + offset] = files2[i]
  BY <1>2, <1>3
<1>6. \A i \in DOMAIN both : i \notin DOMAIN files =>
          i - offset \in DOMAIN files2 /\ (i - offset) + offset = i /\ both[i] = files2[i - offset]
  BY <1>2, <1>3
<1>7. {both[n].id : n \in DOMAIN both} = {f \in ids \cup ids2 : sn[f] # NotRead}
  <2>1. {both[n].id : n \in DOMAIN both} =
           {files[n].id : n \in DOMAIN files} \cup {files2[n].id : n \in DOMAIN files2}
    <3>1. ASSUME NEW n \in DOMAIN both
          PROVE  \/ \E m \in DOMAIN files : both[n].id = files[m].id
                 \/ \E m \in DOMAIN files2 : both[n].id = files2[m].id
      BY <1>4, <1>6
    <3>2. ASSUME NEW m \in DOMAIN files PROVE \E n \in DOMAIN both : both[n].id = files[m].id
      BY <1>4
    <3>3. ASSUME NEW m \in DOMAIN files2 PROVE \E n \in DOMAIN both : both[n].id = files2[m].id
      BY <1>5
    <3>4. QED
      BY <3>1, <3>2, <3>3
  <2>2. QED
    BY <2>1 DEF SoundTable
<1>8. ASSUME NEW m \in DOMAIN both, NEW n \in DOMAIN both, m < n
      PROVE  Precedes(both[m].id, both[n].id)
  <2>1. CASE n \in DOMAIN files
    <3>1. m \in DOMAIN files
      BY <2>1, <1>3, <1>8
    <3>2. QED
      BY <2>1, <3>1, <1>4, <1>8 DEF SoundTable
  <2>2. CASE m \in DOMAIN files /\ n \notin DOMAIN files
    <3>1. both[m].id \in ids
      BY <2>2, <1>4 DEF SoundTable
    <3>2. both[n].id \in ids2
      BY <2>2, <1>6 DEF SoundTable
    <3>3. QED
      BY <3>1, <3>2
  <2>3. CASE m \notin DOMAIN files /\ n \notin DOMAIN files
    <3>1. m - offset < n - offset
      BY <1>3, <1>8
    <3>2. QED
      BY <2>3, <3>1, <1>6 DEF SoundTable
  <2>4. QED
    BY <2>1, <2>2, <2>3
<1>9. /\ DOMAIN windows = PlacesIn(files, sn, opts) /\ Positioned(windows)
      /\ \A p \in DOMAIN windows : p[1] \in 1 .. Len(files)
  BY <1>1, WindowsPlaced
<1>10. /\ DOMAIN others = PlacesIn(files2, sn, opts) /\ Positioned(others)
       /\ \A p \in DOMAIN others : p[1] \in 1 .. Len(files2)
       /\ Numbered(others)
  BY <1>1, WindowsPlaced
<1>11. DOMAIN all = PlacesIn(both, sn, opts)
  BY DEF WindowsIn
<1>12. Indexes(index, windows) /\ Indexes(index2, others)
  BY DEF SoundTable
<1> HIDE DEF windows, others, all
<1>13. \A p \in DOMAIN windows : p \in DOMAIN all /\ all[p] = windows[p] /\ p[1] <= offset
  <2> SUFFICES ASSUME NEW p \in DOMAIN windows
               PROVE  p \in DOMAIN all /\ all[p] = windows[p] /\ p[1] <= offset
    OBVIOUS
  <2>1. PICK n \in DOMAIN files : \E s \in StartsOf(sn, opts, files[n]) : p = <<n, s>>
    BY <1>9, PlaceIn
  <2>2. p[1] = n /\ n \in DOMAIN both /\ both[n] = files[n]
    BY <2>1, <1>4
  <2>3. p \in PlacesIn(both, sn, opts)
    BY <2>1, <2>2, PlaceIn
  <2>4. p \in PlacesIn(files, sn, opts)
    BY <1>9
  <2>5. all[p] = windows[p]
    BY <2>2, <2>3, <2>4 DEF WindowsIn, all, windows
  <2>6. p[1] <= offset
    BY <2>2, <1>3
  <2>7. QED
    BY <2>3, <2>5, <2>6, <1>11
<1>14. ASSUME NEW p \in DOMAIN others
       PROVE  /\ p[1] # 0 /\ Behind(p, offset) \in DOMAIN all
              /\ all[Behind(p, offset)].key = others[p].key
              /\ all[Behind(p, offset)].occ = Rebased(others[p].occ, offset)
  <2> DEFINE q == Behind(p, offset)
  <2>1. PICK n \in DOMAIN files2 : \E s \in StartsOf(sn, opts, files2[n]) : p = <<n, s>>
    BY <1>10, PlaceIn
  <2>2. PICK s \in StartsOf(sn, opts, files2[n]) : p = <<n, s>>
    BY <2>1
  <2>3. q = <<n + offset, s>> /\ n + offset \in DOMAIN both /\ both[n + offset] = files2[n]
    BY <2>2, <1>5 DEF Behind
  <2> HIDE DEF q
  <2>4. q \in PlacesIn(both, sn, opts)
    BY <2>2, <2>3, PlaceIn
  <2>5. all[q] = WindowOf(sn, opts, files2[n], n + offset, s)
    BY <2>3, <2>4 DEF WindowsIn, all
  <2>6. p \in PlacesIn(files2, sn, opts)
    BY <1>10
  <2>7. others[p] = WindowOf(sn, opts, files2[n], n, s)
    BY <2>2, <2>6 DEF WindowsIn, others
  <2>8. ScanOccurrence(TextOf(sn, files2[n]), s, files2[n].id[1], n + offset, SizeOf(opts)) =
           Rebased(ScanOccurrence(TextOf(sn, files2[n]), s, files2[n].id[1], n, SizeOf(opts)),
                   offset)
    BY DEF ScanOccurrence, Rebased
  <2>9. all[q].key = others[p].key /\ all[q].occ = Rebased(others[p].occ, offset)
    BY <2>5, <2>7, <2>8 DEF WindowOf
  <2>10. p[1] # 0
    BY <2>2, <1>3
  <2>11. QED
    BY <2>4, <2>9, <2>10, <1>11 DEF q
<1>15. DOMAIN all = DOMAIN windows \cup {Behind(p, offset) : p \in DOMAIN others}
  <2>1. ASSUME NEW p \in DOMAIN all
        PROVE  p \in DOMAIN windows \/ \E q \in DOMAIN others : p = Behind(q, offset)
    <3>1. PICK n \in DOMAIN both : \E s \in StartsOf(sn, opts, both[n]) : p = <<n, s>>
      BY <1>11, PlaceIn
    <3>2. PICK s \in StartsOf(sn, opts, both[n]) : p = <<n, s>>
      BY <3>1
    <3>3. CASE n \in DOMAIN files
      <4>1. p \in PlacesIn(files, sn, opts)
        BY <3>2, <3>3, <1>4, PlaceIn
      <4>2. QED
        BY <4>1, <1>9
    <3>4. CASE n \notin DOMAIN files
      <4> DEFINE q == <<n - offset, s>>
      <4>1. n - offset \in DOMAIN files2 /\ (n - offset) + offset = n /\ both[n] = files2[n - offset]
        BY <3>4, <1>6
      <4>2. q \in PlacesIn(files2, sn, opts)
        BY <3>2, <4>1, PlaceIn
      <4>3. p = Behind(q, offset)
        BY <3>2, <4>1 DEF Behind
      <4>4. QED
        BY <4>2, <4>3, <1>10
    <3>5. QED
      BY <3>3, <3>4
  <2>2. QED
    BY <2>1, <1>13, <1>14
<1>16. Indexes(extend_from(index, index2, offset), all)
  <2>1. WithTable(all, windows, others, offset)
    BY <1>13, <1>14, <1>15 DEF WithTable
  <2>2. QED
    BY <1>3, <1>9, <1>10, <1>12, <2>1, ExtendIndexes
<1>17. QED
  BY <1>2, <1>7, <1>8, <1>16 DEF SoundTable, both, all, offset

-----------------------------------------------------------------------------
(* The fold of the shards.                                                 *)

AddShard(all, s) == [files |-> all.files \o s.files,
                     index |-> extend_from(all.index, s.index, Len(all.files))]

NothingAdded == [files |-> <<>>, index |-> EmptyIndex]

Adds(added, ordered, last) ==
  added = [n \in 0 .. last |-> IF n = 0 THEN NothingAdded
                               ELSE AddShard(added[n - 1], ordered[n])]

LEMMA AddsExist ==
  ASSUME NEW ordered
  PROVE  \A last \in Nat : \E added : Adds(added, ordered, last)
<1> DEFINE Bad == {m \in Nat : ~ \E added : Adds(added, ordered, m)}
<1> SUFFICES ASSUME Bad # {} PROVE FALSE
  OBVIOUS
<1>1. PICK m \in Bad : \A k \in Bad : m <= k
  BY Least
<1>2. m \in Nat /\ ~ \E added : Adds(added, ordered, m)
  OBVIOUS
<1>3. m # 0
  <2> DEFINE none == [n \in 0 .. 0 |-> NothingAdded]
  <2>1. \A n \in 0 .. 0 : n = 0
    OBVIOUS
  <2>2. none = [n \in 0 .. 0 |-> IF n = 0 THEN NothingAdded ELSE AddShard(none[n - 1], ordered[n])]
    BY <2>1
  <2> HIDE DEF none
  <2>3. Adds(none, ordered, 0)
    BY <2>2 DEF Adds
  <2>4. QED
    BY <1>2, <2>3
<1>4. m - 1 \in Nat /\ m - 1 \notin Bad
  BY <1>1, <1>2, <1>3
<1>5. PICK shorter : Adds(shorter, ordered, m - 1)
  BY <1>4
<1> DEFINE longer == [n \in 0 .. m |-> IF n < m THEN shorter[n]
                                       ELSE AddShard(shorter[m - 1], ordered[m])]
<1>6. ASSUME NEW n \in 0 .. m
      PROVE  longer[n] = IF n = 0 THEN NothingAdded ELSE AddShard(longer[n - 1], ordered[n])
  <2>1. CASE n < m
    <3>1. n \in 0 .. m - 1 /\ (n # 0 => n - 1 \in 0 .. m /\ n - 1 < m)
      BY <2>1, <1>2
    <3>2. shorter[n] = IF n = 0 THEN NothingAdded ELSE AddShard(shorter[n - 1], ordered[n])
      BY <3>1, <1>5 DEF Adds
    <3>3. QED
      BY <2>1, <3>1, <3>2
  <2>2. CASE n = m
    <3>1. m - 1 \in 0 .. m /\ m - 1 < m
      BY <1>2, <1>3
    <3>2. QED
      BY <2>2, <3>1, <1>3
  <2>3. QED
    BY <2>1, <2>2, <1>2
<1>7. Adds(longer, ordered, m)
  <2>1. longer = [n \in 0 .. m |-> longer[n]]
    OBVIOUS
  <2> HIDE DEF longer
  <2>2. QED
    BY <2>1, <1>6 DEF Adds
<1>8. QED
  BY <1>2, <1>7

\* The files of one repository, and of the first so many.
IdsOf(ids, r) == {f \in ids : f[1] = r}
IdsUpTo(ids, n) == {f \in ids : f[1] <= n}

\* Folding the shards of the repositories in their order gives the table of all.
LEMMA FoldIsSound ==
  ASSUME NEW ordered, NEW total \in Nat, Len(ordered) = total, NEW ids, NEW entries,
         NEW sn, NEW opts, \A f \in ids : f[1] \in 1 .. total,
         \A r \in 1 .. total :
            SoundTable(ordered[r].files, ordered[r].index, IdsOf(ids, r), entries, sn, opts)
  PROVE  SoundTable(FoldShards(ordered).files, FoldShards(ordered).index, ids, entries, sn, opts)
<1> DEFINE added == CHOOSE added : Adds(added, ordered, total)
           Sound(n) == SoundTable(added[n].files, added[n].index, IdsUpTo(ids, n),
                                  entries, sn, opts)
           Bad == {n \in 0 .. total : ~Sound(n)}
<1>1. Adds(added, ordered, total)
  BY AddsExist
<1>2. FoldShards(ordered) = added[total]
  BY DEF FoldShards, Adds, AddShard, NothingAdded
<1> HIDE DEF added
<1>3. Bad = {}
  <2> SUFFICES ASSUME Bad # {} PROVE FALSE
    OBVIOUS
  <2>1. Bad \in SUBSET Nat
    OBVIOUS
  <2>2. PICK m \in Bad : \A k \in Bad : m <= k
    <3> HIDE DEF Bad
    <3> QED BY <2>1, Least
  <2>3. m \in 0 .. total /\ ~Sound(m)
    OBVIOUS
  <2>4. m # 0
    <3>1. added[0] = NothingAdded
      BY <1>1 DEF Adds
    <3>2. IdsUpTo(ids, 0) = {}
      BY DEF IdsUpTo
    <3>3. SoundTable(<<>>, EmptyIndex, {}, entries, sn, opts)
      BY EmptyTable
    <3>4. added[0].files = <<>> /\ added[0].index = EmptyIndex
      BY <3>1 DEF NothingAdded
    <3>5. Sound(0)
      BY <3>2, <3>3, <3>4
    <3>6. QED
      BY <2>3, <3>5
  <2>5. m \in 1 .. total /\ m - 1 \in 0 .. total /\ ~(m <= m - 1)
    BY <2>3, <2>4
  <2>6. Sound(m - 1)
    <3>1. m - 1 \notin Bad
      <4> HIDE DEF Bad
      <4> QED BY <2>2, <2>5
    <3>2. QED
      BY <2>5, <3>1
  <2>7. added[m] = AddShard(added[m - 1], ordered[m])
    BY <2>3, <2>4, <1>1 DEF Adds
  <2>8. SoundTable(ordered[m].files, ordered[m].index, IdsOf(ids, m), entries, sn, opts)
    BY <2>5
  <2>9. IdsUpTo(ids, m) = IdsUpTo(ids, m - 1) \cup IdsOf(ids, m)
    <3>1. \A f \in ids : f[1] <= m <=> (f[1] <= m - 1 \/ f[1] = m)
      BY <2>5
    <3>2. QED
      BY <3>1 DEF IdsUpTo, IdsOf
  <2>10. \A f \in IdsUpTo(ids, m - 1), g \in IdsOf(ids, m) : Precedes(f, g)
    <3>1. \A f \in ids : f[1] <= m - 1 => f[1] < m
      BY <2>5
    <3>2. QED
      BY <3>1 DEF IdsUpTo, IdsOf, Precedes
  <2>11. SoundTable(added[m - 1].files \o ordered[m].files,
                    extend_from(added[m - 1].index, ordered[m].index, Len(added[m - 1].files)),
                    IdsUpTo(ids, m - 1) \cup IdsOf(ids, m), entries, sn, opts)
    BY <2>6, <2>8, <2>10, TablesJoin
  <2>12. QED
    BY <2>3, <2>7, <2>9, <2>11 DEF AddShard
<1>4. Sound(total)
  BY <1>3
<1>5. IdsUpTo(ids, total) = ids
  BY DEF IdsUpTo
<1>6. QED
  BY <1>2, <1>4, <1>5

-----------------------------------------------------------------------------
(* The claims.                                                             *)

ShardFields == {"repo_idx", "files", "index", "skipped", "failed"}

\* What the worker steps need to know of the shape of the state.
ShapeOK ==
    /\ command \in Commands
    /\ roots = roots_of(command)
    /\ next_repo \in Nat \ {0}
    /\ DOMAIN pc = Workers
    /\ DOMAIN shard = Workers
    /\ \A w \in Workers : DOMAIN shard[w] = ShardFields
    /\ \E S : shards \in Seq(S)

RepoOf(w) == shard[w].repo_idx

\* A claimed repository is below the counter and in one place: with the worker
\* that holds it, or in the shared vector.
Claimed ==
    /\ \A w \in Workers : Holding(w) => RepoOf(w) \in Repos /\ RepoOf(w) < next_repo
    /\ \A i \in DOMAIN shards : shards[i].repo_idx \in Repos /\ shards[i].repo_idx < next_repo

InOnePlace ==
    /\ \A v, w \in Workers : Holding(v) /\ Holding(w) /\ RepoOf(v) = RepoOf(w) => v = w
    /\ \A i, j \in DOMAIN shards : shards[i].repo_idx = shards[j].repo_idx => i = j
    /\ \A w \in Workers, i \in DOMAIN shards : Holding(w) => RepoOf(w) # shards[i].repo_idx

NoneLost ==
    \A r \in Repos : r < next_repo =>
        \/ \E w \in Workers : Holding(w) /\ RepoOf(w) = r
        \/ \E i \in DOMAIN shards : shards[i].repo_idx = r

Exhausted ==
    /\ \A w \in Workers : pc[w] = "exit" => next_repo > RepoTotal
    /\ phase # "scan" => Joined

ClaimInv == ShapeOK /\ Claimed /\ InOnePlace /\ NoneLost /\ Exhausted

-----------------------------------------------------------------------------
(* Lemmas.                                                                 *)

\* The roots are a sequence: there is a number of them.
LEMMA RootsShape == ShapeOK => RepoTotal \in Nat /\ Repos = 1 .. RepoTotal
  BY RootsAssumption DEF ShapeOK, RepoTotal, Repos

\* There is always a worker.
LEMMA SomeWorker == ShapeOK => 1 \in Workers
  BY RootsShape, ThreadsAssumption DEF Workers, WorkerCount

\* While the inputs stay, so do the repositories and the workers.
LEMMA InputsStay ==
    ASSUME UNCHANGED inputs
    PROVE  command' = command /\ roots' = roots
           /\ RepoTotal' = RepoTotal /\ Repos' = Repos /\ Workers' = Workers
  BY DEF inputs, RepoTotal, Repos, Workers, WorkerCount

\* Appending keeps a sequence one, whatever it holds.
LEMMA AppendShape ==
    ASSUME NEW S, NEW s \in Seq(S), NEW x
    PROVE  /\ Append(s, x) \in Seq(S \cup {x})
           /\ DOMAIN Append(s, x) = DOMAIN s \cup {Len(s) + 1}
           /\ \A i \in DOMAIN s : Append(s, x)[i] = s[i]
           /\ Append(s, x)[Len(s) + 1] = x
           /\ Len(s) + 1 \notin DOMAIN s
  <1>1. s \in Seq(S \cup {x})  OBVIOUS
  <1> QED  BY <1>1

\* A step in which one worker keeps the repository it holds changes nothing of
\* the invariant.
LEMMA KeepsRepo ==
    ASSUME ClaimInv, NEW w \in Workers, Holding(w),
           NEW at \in {"discover", "stat", "read", "push"},
           pc' = [pc EXCEPT ![w] = at],
           DOMAIN shard' = Workers,
           \A v \in Workers : DOMAIN shard'[v] = ShardFields
                              /\ shard'[v].repo_idx = shard[v].repo_idx,
           UNCHANGED <<inputs, next_repo, shards, phase>>
    PROVE  ClaimInv'
  <1> USE DEF ClaimInv
  <1> Repos' = Repos /\ RepoTotal' = RepoTotal /\ Workers' = Workers  BY InputsStay
  <1>1. \A v \in Workers : Holding(v)' <=> Holding(v)  BY DEF Holding, ShapeOK
  <1>2. \A v \in Workers : RepoOf(v)' = RepoOf(v)  BY DEF RepoOf
  <1>3. ShapeOK'  BY InputsStay DEF ShapeOK
  <1>4. Claimed'  BY <1>1, <1>2 DEF Claimed
  <1>5. InOnePlace'  BY <1>1, <1>2 DEF InOnePlace
  <1>6. NoneLost'  BY <1>1, <1>2 DEF NoneLost
  <1>7. Exhausted'  BY DEF Exhausted, Joined, Holding, ShapeOK
  <1> QED  BY <1>3, <1>4, <1>5, <1>6, <1>7

-----------------------------------------------------------------------------
(* Initially, and step by step.                                            *)

LEMMA InitClaimInv == Init => ClaimInv
  <1> SUFFICES ASSUME Init PROVE ClaimInv  OBVIOUS
  <1> USE DEF Init
  <1>1. \A w \in Workers : ~Holding(w)  BY DEF Holding
  <1>2. DOMAIN shards = {} /\ shards \in Seq({})  OBVIOUS
  <1>3. ShapeOK  BY <1>2 DEF ShapeOK, NewShard, ShardFields
  <1>4. Claimed /\ InOnePlace  BY <1>1, <1>2 DEF Claimed, InOnePlace
  <1>5. NoneLost  BY <1>3, RootsShape DEF NoneLost
  <1>6. Exhausted
    <2>1. CASE roots = <<>>
      <3>1. RepoTotal = 0  BY <2>1 DEF RepoTotal
      <3> QED  BY <2>1, <3>1 DEF Exhausted, Joined
    <2>2. CASE roots # <<>>  BY <2>2 DEF Exhausted
    <2> QED  BY <2>1, <2>2
  <1> QED  BY <1>3, <1>4, <1>5, <1>6 DEF ClaimInv

LEMMA ClaimStep ==
    ASSUME ClaimInv, NEW w \in Workers, Claim(w)
    PROVE  ClaimInv'
  <1> USE DEF ClaimInv
  <1> next_repo \in Nat \ {0}  BY DEF ShapeOK
  <1> RepoTotal \in Nat /\ Repos = 1 .. RepoTotal  BY RootsShape
  <1> Repos' = Repos /\ RepoTotal' = RepoTotal /\ Workers' = Workers
    BY InputsStay DEF Claim
  <1>1. CASE next_repo > RepoTotal
    <2>1. /\ pc' = [pc EXCEPT ![w] = "exit"] /\ shard' = shard /\ shards' = shards
          /\ next_repo' = next_repo + 1 /\ phase' = phase
      BY <1>1 DEF Claim, coordinator
    <2>2. \A v \in Workers : (Holding(v)' <=> Holding(v)) /\ RepoOf(v)' = RepoOf(v)
      BY <2>1 DEF Claim, Holding, RepoOf, ShapeOK
    <2>3. ShapeOK'  BY <2>1, InputsStay DEF ShapeOK, Claim
    <2>4. Claimed'  BY <2>1, <2>2 DEF Claimed
    <2>5. InOnePlace'  BY <2>1, <2>2 DEF InOnePlace
    <2>6. NoneLost'  BY <1>1, <2>1, <2>2 DEF NoneLost
    <2>7. Exhausted'
      BY <1>1, <2>1 DEF Exhausted, Joined, ShapeOK, Claim
    <2> QED  BY <2>3, <2>4, <2>5, <2>6, <2>7
  <1>2. CASE ~(next_repo > RepoTotal)
    <2>1. /\ pc[w] = "claim" /\ pc' = [pc EXCEPT ![w] = "discover"]
          /\ shard' = [shard EXCEPT ![w] = NewShard(next_repo)]
          /\ shards' = shards /\ next_repo' = next_repo + 1 /\ phase' = phase
      BY <1>2 DEF Claim, coordinator
    <2>2. ~Holding(w) /\ Holding(w)' /\ RepoOf(w)' = next_repo
      BY <2>1 DEF Holding, RepoOf, NewShard, ShapeOK
    <2>3. \A v \in Workers \ {w} : (Holding(v)' <=> Holding(v)) /\ RepoOf(v)' = RepoOf(v)
      BY <2>1 DEF Holding, RepoOf, ShapeOK
    <2>4. next_repo \in Repos  BY <1>2
    <2>5. ShapeOK'  BY <2>1, InputsStay DEF ShapeOK, NewShard, ShardFields, Claim
    <2>6. Claimed'  BY <2>1, <2>2, <2>3, <2>4 DEF Claimed
    <2>7. InOnePlace'
      <3>1. \A v \in Workers \ {w} : Holding(v) => RepoOf(v) # next_repo
        BY <2>4 DEF Claimed
      <3>2. \A i \in DOMAIN shards : shards[i].repo_idx # next_repo
        BY <2>4 DEF Claimed
      <3> QED  BY <2>1, <2>2, <2>3, <3>1, <3>2 DEF InOnePlace
    <2>8. NoneLost'
      <3> SUFFICES ASSUME NEW r \in Repos, r < next_repo + 1
                   PROVE  \/ \E v \in Workers : Holding(v)' /\ RepoOf(v)' = r
                          \/ \E i \in DOMAIN shards : shards[i].repo_idx = r
        BY <2>1 DEF NoneLost
      <3>1. CASE r = next_repo  BY <2>2, <3>1
      <3>2. CASE r < next_repo  BY <2>2, <2>3, <3>2 DEF NoneLost
      <3> QED  BY <3>1, <3>2
    <2>9. Exhausted'
      BY <1>2, <2>1 DEF Exhausted, Joined, ShapeOK
    <2> QED  BY <2>5, <2>6, <2>7, <2>8, <2>9
  <1> QED  BY <1>1, <1>2

LEMMA DiscoverStep ==
    ASSUME ClaimInv, NEW w \in Workers, Discover(w)
    PROVE  ClaimInv'
  <1>1. Holding(w)  BY DEF Discover, Holding
  <1>2. UNCHANGED <<inputs, next_repo, shards, phase>>  BY DEF Discover, coordinator
  <1>3. /\ \E at \in {"push", "stat"} : pc' = [pc EXCEPT ![w] = at]
        /\ DOMAIN shard' = Workers
        /\ \A v \in Workers : DOMAIN shard'[v] = ShardFields
                              /\ shard'[v].repo_idx = shard[v].repo_idx
    BY DEF Discover, ClaimInv, ShapeOK, ShardFields
  <1> QED  BY <1>1, <1>2, <1>3, KeepsRepo

LEMMA StatStep ==
    ASSUME ClaimInv, NEW w \in Workers, Stat(w)
    PROVE  ClaimInv'
  <1>1. Holding(w)  BY DEF Stat, Holding
  <1>2. UNCHANGED <<inputs, next_repo, shards, phase>>  BY DEF Stat, coordinator
  <1>3. /\ \E at \in {"push", "stat", "read"} : pc' = [pc EXCEPT ![w] = at]
        /\ DOMAIN shard' = Workers
        /\ \A v \in Workers : DOMAIN shard'[v] = ShardFields
                              /\ shard'[v].repo_idx = shard[v].repo_idx
    BY DEF Stat, SkipFile, ClaimInv, ShapeOK, ShardFields
  <1> QED  BY <1>1, <1>2, <1>3, KeepsRepo

LEMMA ReadStep ==
    ASSUME ClaimInv, NEW w \in Workers, Read(w)
    PROVE  ClaimInv'
  <1>1. Holding(w)  BY DEF Read, Holding
  <1>2. UNCHANGED <<inputs, next_repo, shards, phase>>  BY DEF Read, coordinator
  <1>3. pc' = [pc EXCEPT ![w] = "stat"]  BY DEF Read, SkipFile
  <1>4. /\ DOMAIN shard' = Workers
        /\ \A v \in Workers : DOMAIN shard'[v] = ShardFields
                              /\ shard'[v].repo_idx = shard[v].repo_idx
    <2>1. CASE disk[OnDiskAs(CurrentFile(w))] \in {Gone, Binary}
      BY <2>1 DEF Read, SkipFile, ClaimInv, ShapeOK, ShardFields
    <2>2. CASE disk[OnDiskAs(CurrentFile(w))] \notin {Gone, Binary}
      <3>1. PICK files, index :
                shard' = [shard EXCEPT ![w].files = files, ![w].index = index]
        BY <2>2 DEF Read
      <3> QED  BY <3>1 DEF ClaimInv, ShapeOK, ShardFields
    <2> QED  BY <2>1, <2>2
  <1> QED  BY <1>1, <1>2, <1>3, <1>4, KeepsRepo

LEMMA PushStep ==
    ASSUME ClaimInv, NEW w \in Workers, Push(w)
    PROVE  ClaimInv'
  <1> USE DEF ClaimInv
  <1> Repos' = Repos /\ RepoTotal' = RepoTotal /\ Workers' = Workers
    BY InputsStay DEF Push
  <1> DEFINE n == Len(shards) + 1
  <1>1. Holding(w) /\ pc[w] # "exit"  BY DEF Push, Holding
  <1>2. /\ pc' = [pc EXCEPT ![w] = "claim"] /\ shard' = shard
        /\ next_repo' = next_repo /\ phase' = phase
    BY DEF Push, coordinator
  <1>3. /\ \E S : shards' \in Seq(S)
        /\ DOMAIN shards' = DOMAIN shards \cup {n} /\ n \notin DOMAIN shards
        /\ \A i \in DOMAIN shards : shards'[i] = shards[i]
        /\ shards'[n] = shard[w]
    <2>1. PICK S : shards \in Seq(S)  BY DEF ShapeOK
    <2>2. shards' = Append(shards, shard[w])  BY DEF Push
    <2>3. shards' \in Seq(S \cup {shard[w]})  BY <2>1, <2>2, AppendShape
    <2>4. /\ DOMAIN shards' = DOMAIN shards \cup {n} /\ n \notin DOMAIN shards
          /\ \A i \in DOMAIN shards : shards'[i] = shards[i]
          /\ shards'[n] = shard[w]
      BY <2>1, <2>2, AppendShape
    <2> QED  BY <2>3, <2>4
  <1> HIDE DEF n
  <1>4. ~Holding(w)' /\ \A v \in Workers : RepoOf(v)' = RepoOf(v)
    BY <1>2 DEF Holding, RepoOf, ShapeOK
  <1>5. \A v \in Workers \ {w} : Holding(v)' <=> Holding(v)
    BY <1>2 DEF Holding, ShapeOK
  <1>6. shards'[n].repo_idx = RepoOf(w)  BY <1>3 DEF RepoOf
  <1>7. ShapeOK'  BY <1>2, <1>3, InputsStay DEF ShapeOK, Push
  <1>8. Claimed'
    BY <1>1, <1>2, <1>3, <1>4, <1>5, <1>6 DEF Claimed
  <1>9. InOnePlace'
    BY <1>1, <1>3, <1>4, <1>5, <1>6 DEF InOnePlace
  <1>10. NoneLost'
    <2> SUFFICES ASSUME NEW r \in Repos, r < next_repo
                 PROVE  \/ \E v \in Workers : Holding(v)' /\ RepoOf(v)' = r
                        \/ \E i \in DOMAIN shards' : shards'[i].repo_idx = r
      BY <1>2 DEF NoneLost
    <2>1. CASE \E i \in DOMAIN shards : shards[i].repo_idx = r  BY <2>1, <1>3
    <2>2. CASE \E v \in Workers : Holding(v) /\ RepoOf(v) = r
      BY <2>2, <1>3, <1>4, <1>5, <1>6
    <2> QED  BY <2>1, <2>2 DEF NoneLost
  <1>11. Exhausted'
    BY <1>1, <1>2 DEF Exhausted, Joined, ShapeOK
  <1> QED  BY <1>7, <1>8, <1>9, <1>10, <1>11

\* The coordinator's steps and edits leave the workers alone.
LEMMA OtherStep ==
    ASSUME ClaimInv, UNCHANGED <<inputs, workers>>,
           phase # "scan" \/ Joined \/ phase' = phase
    PROVE  ClaimInv'
  <1> UNCHANGED <<next_repo, pc, shard, shards>>  BY DEF workers
  <1> Repos' = Repos /\ RepoTotal' = RepoTotal /\ Workers' = Workers  BY InputsStay
  <1>1. ShapeOK'  BY InputsStay DEF ClaimInv, ShapeOK
  <1>2. \A v \in Workers : (Holding(v)' <=> Holding(v)) /\ RepoOf(v)' = RepoOf(v)
    BY DEF Holding, RepoOf
  <1>3. Claimed' /\ InOnePlace' /\ NoneLost'
    BY <1>2 DEF ClaimInv, Claimed, InOnePlace, NoneLost
  <1>4. Exhausted'  BY DEF ClaimInv, Exhausted, Joined
  <1> QED  BY <1>1, <1>3, <1>4 DEF ClaimInv

LEMMA NextClaimInv == ClaimInv /\ [Next]_vars => ClaimInv'
  <1> SUFFICES ASSUME ClaimInv, [Next]_vars PROVE ClaimInv'  OBVIOUS
  <1>1. ASSUME NEW w \in Workers, WorkerStep(w) PROVE ClaimInv'
    BY <1>1, ClaimStep, DiscoverStep, StatStep, ReadStep, PushStep DEF WorkerStep
  <1>2. CASE CoordinatorStep
    <2>1. UNCHANGED <<inputs, workers>> /\ (phase # "scan" \/ Joined)
      BY <1>2 DEF CoordinatorStep, Fail, Fold, ReconstructFile, Finalize
    <2> QED  BY <2>1, OtherStep
  <1>3. CASE \E f \in FileIds, c \in Revisions \cup {Gone} : Edit(f, c)
    <2>1. UNCHANGED <<inputs, workers>> /\ phase' = phase  BY <1>3 DEF Edit, coordinator
    <2> QED  BY <2>1, OtherStep
  <1>4. CASE Finished \/ UNCHANGED vars
    <2>1. UNCHANGED <<inputs, workers>> /\ phase' = phase  BY <1>4 DEF Finished, vars
    <2> QED  BY <2>1, OtherStep
  <1> QED  BY <1>1, <1>2, <1>3, <1>4 DEF Next

\* The invariant gives the property once the workers have stopped.
LEMMA ClaimInvSuffices == ClaimInv => OneShardPerRepo
  <1> SUFFICES ASSUME ClaimInv, phase # "scan", NEW r \in Repos
               PROVE  \E i \in DOMAIN shards :
                          /\ shards[i].repo_idx = r
                          /\ \A j \in DOMAIN shards : shards[j].repo_idx = r => j = i
    BY DEF OneShardPerRepo
  <1> USE DEF ClaimInv
  <1>1. \A w \in Workers : pc[w] = "exit"  BY DEF Exhausted, Joined
  <1>2. next_repo > RepoTotal  BY <1>1, SomeWorker DEF Exhausted
  <1>3. r < next_repo  BY <1>2, RootsShape DEF ShapeOK
  <1>4. PICK i \in DOMAIN shards : shards[i].repo_idx = r
    BY <1>1, <1>3 DEF NoneLost, Holding
  <1> QED  BY <1>4 DEF InOnePlace

-----------------------------------------------------------------------------
\* At every moment a claimed repository is in exactly one place, with one worker
\* or in the shared vector (scan_roots: fetch_add, and push under the lock).
THEOREM ClaimedOnce == Spec => []ClaimInv
  BY InitClaimInv, NextClaimInv, PTL DEF Spec

\* For any number of workers and repositories: the coordinator folds exactly one
\* shard of every repository.
THEOREM EveryRepositoryFolded == Spec => []OneShardPerRepo
  BY ClaimedOnce, ClaimInvSuffices, PTL

-----------------------------------------------------------------------------
(* The order of the shards.                                                *)

LEMMA ShardsInRepoOrder ==
  ASSUME ClaimInv, Joined
  PROVE  /\ RepoTotal \in Nat /\ Len(InRepoOrder) = RepoTotal
         /\ \A r \in 1 .. RepoTotal : \E i \in DOMAIN shards :
               InRepoOrder[r] = shards[i] /\ shards[i].repo_idx = r
<1> DEFINE repo(i) == shards[i].repo_idx
           upto(i) == {j \in DOMAIN shards : repo(j) < repo(i) \/ (repo(j) = repo(i) /\ j <= i)}
<1>1. RepoTotal \in Nat /\ Repos = 1 .. RepoTotal
  BY RootsShape DEF ClaimInv
<1>2. Len(shards) \in Nat /\ DOMAIN shards = 1 .. Len(shards)
  BY LenProperties DEF ClaimInv, ShapeOK
<1>3. \A i \in DOMAIN shards : repo(i) \in Repos
  BY DEF ClaimInv, Claimed
<1>4. \A i, j \in DOMAIN shards : repo(i) = repo(j) => i = j
  BY DEF ClaimInv, InOnePlace
<1>5. \A r \in Repos : \E i \in DOMAIN shards : repo(i) = r
  <2>1. next_repo > RepoTotal
    BY SomeWorker DEF ClaimInv, Exhausted, Joined
  <2>2. \A r \in Repos : r < next_repo
    BY <1>1, <2>1 DEF ClaimInv, ShapeOK
  <2>3. \A w \in Workers : ~Holding(w)
    BY DEF Joined, Holding
  <2>4. QED
    BY <2>2, <2>3 DEF ClaimInv, NoneLost
<1> HIDE DEF repo
<1>6. ASSUME NEW i \in DOMAIN shards PROVE Cardinality(upto(i)) = repo(i)
  <2> DEFINE R == 1 .. repo(i)
             at == [r \in R |-> CHOOSE j \in DOMAIN shards : repo(j) = r]
  <2>1. repo(i) \in Nat /\ R \subseteq Repos
    BY <1>1, <1>3
  <2>2. \A r \in R : at[r] \in DOMAIN shards /\ repo(at[r]) = r
    BY <2>1, <1>5
  <2>3. upto(i) = {j \in DOMAIN shards : repo(j) \in R}
    <3>1. \A j \in DOMAIN shards : repo(j) \in R <=> (repo(j) < repo(i) \/ repo(j) = repo(i))
      BY <2>1, <1>1, <1>3
    <3>2. i <= i
      BY <1>2
    <3>3. QED
      BY <3>1, <3>2, <1>4
  <2> HIDE DEF upto, at, R
  <2>4. at \in [R -> upto(i)]
    <3>1. \A r \in R : at[r] \in upto(i)
      BY <2>2, <2>3
    <3>2. at = [r \in R |-> at[r]]
      BY DEF at
    <3>3. QED
      BY <3>1, <3>2
  <2>5. \A r, s \in R : at[r] = at[s] => r = s
    BY <2>2
  <2>6. \A j \in upto(i) : \E r \in R : at[r] = j
    BY <2>2, <2>3, <1>4
  <2>7. at \in Bijection(R, upto(i))
    BY <2>4, <2>5, <2>6, Fun_IsBij
  <2>8. ExistsBijection(R, upto(i))
    BY <2>7, Fun_ExistsBij
  <2>9. IsFiniteSet(R) /\ Cardinality(R) = repo(i)
    <3>1. IsFiniteSet(1 .. repo(i)) /\ Cardinality(1 .. repo(i)) = IF 1 > repo(i) THEN 0 ELSE repo(i) - 1 + 1
      BY <2>1, FS_Interval
    <3>2. QED
      BY <2>1, <3>1 DEF R
  <2>10. QED
    BY <2>8, <2>9, FS_Bijection
<1>7. Len(shards) = RepoTotal
  <2> DEFINE D == DOMAIN shards
             to == [i \in D |-> repo(i)]
  <2>1. to \in [D -> Repos] /\ (\A i, j \in D : to[i] = to[j] => i = j)
        /\ (\A r \in Repos : \E i \in D : to[i] = r)
    BY <1>3, <1>4, <1>5
  <2> HIDE DEF to, D
  <2>2. ExistsBijection(D, Repos)
    BY <2>1, Fun_IsBij, Fun_ExistsBij
  <2>3. IsFiniteSet(D) /\ Cardinality(D) = Len(shards)
    <3>1. IsFiniteSet(1 .. Len(shards)) /\ Cardinality(1 .. Len(shards)) = IF 1 > Len(shards) THEN 0 ELSE Len(shards) - 1 + 1
      BY <1>2, FS_Interval
    <3>2. QED
      BY <1>2, <3>1 DEF D
  <2>4. Cardinality(Repos) = RepoTotal
    <3>1. Cardinality(1 .. RepoTotal) = IF 1 > RepoTotal THEN 0 ELSE RepoTotal - 1 + 1
      BY <1>1, FS_Interval
    <3>2. QED
      BY <1>1, <3>1
  <2>5. QED
    BY <2>2, <2>3, <2>4, FS_Bijection
<1> DEFINE pick(n) == CHOOSE i \in DOMAIN shards : Cardinality(upto(i)) = n
           ordered == [n \in DOMAIN shards |-> shards[pick(n)]]
<1>8. InRepoOrder = ordered
  BY DEF InRepoOrder, repo
<1>9. ASSUME NEW n \in DOMAIN shards
      PROVE  pick(n) \in DOMAIN shards /\ repo(pick(n)) = n
  <2>1. n \in Repos
    BY <1>1, <1>2, <1>7
  <2>2. PICK i \in DOMAIN shards : repo(i) = n
    BY <2>1, <1>5
  <2>3. Cardinality(upto(i)) = n
    BY <2>2, <1>6
  <2> HIDE DEF upto
  <2>4. pick(n) \in DOMAIN shards /\ Cardinality(upto(pick(n))) = n
    BY <2>3
  <2>5. QED
    BY <2>4, <1>6
<1> HIDE DEF pick
<1>10. Len(ordered) = RepoTotal
  <2> DEFINE S == {shards[i] : i \in DOMAIN shards}
  <2>1. ordered \in [1 .. RepoTotal -> S]
    BY <1>2, <1>7, <1>9
  <2>2. ordered \in Seq(S)
    BY <1>1, <2>1
  <2>3. Len(ordered) \in Nat /\ DOMAIN ordered = 1 .. Len(ordered) /\ DOMAIN ordered = 1 .. RepoTotal
    BY <1>2, <1>7, <2>2, LenProperties
  <2> HIDE DEF ordered
  <2>4. QED
    BY <2>3, <1>1, SameEnd
<1>11. QED
  BY <1>1, <1>2, <1>7, <1>8, <1>9, <1>10 DEF repo

-----------------------------------------------------------------------------
(* The invariant of the scan: the shards and what the workers hold.        *)

Entries == {FileEntry(f) : f \in FileIds}

ScanShape ==
  /\ options = options_of(command)
  /\ DOMAIN seen = FileIds
  /\ DOMAIN todo = Workers
  /\ DOMAIN disk = UNION {{<<t, n>> : n \in DOMAIN Repositories[t].files} :
                             t \in DOMAIN Repositories}
  /\ \A p \in DOMAIN disk : disk[p] \in Texts \cup {Gone, Binary}

\* A shard lists the files of its repository that were scanned.
ShardSound(s) ==
  SoundTable(s.files, s.index, IdsOf(FileIds, s.repo_idx), Entries, seen, options)

\* What a worker has still to scan comes behind what it has scanned.
Ahead(w) ==
  /\ todo[w] \subseteq DOMAIN Tree(RepoOf(w)).files
  /\ \A n \in DOMAIN shard[w].files, t \in todo[w] : shard[w].files[n].id[2] < t

WorkerSound(w) ==
  Holding(w) =>
     /\ ShardSound(shard[w])
     /\ pc[w] = "discover" => shard[w].files = <<>>
     /\ pc[w] \in {"stat", "read"} => Ahead(w)
     /\ pc[w] = "read" => todo[w] # {}

WorkersSound == \A w \in Workers : WorkerSound(w)

ShardsSound == \A i \in DOMAIN shards : ShardSound(shards[i])

UnclaimedUnseen == \A f \in FileIds : f[1] >= next_repo => seen[f] = NotRead

FoldSound ==
  phase \in {"reconstruct", "done"} =>
     SoundTable(folded.files, folded.index, FileIds, Entries, seen, options)

ScanInv == ScanShape /\ WorkersSound /\ ShardsSound /\ UnclaimedUnseen /\ FoldSound

\* The files of the repositories.
LEMMA FilesAre ==
  ASSUME ShapeOK
  PROVE  /\ \A r \in Repos : /\ roots[r].checkout \in DOMAIN Repositories
                             /\ DOMAIN Tree(r).files \subseteq Nat
                             /\ DOMAIN Tree(r).files =
                                   DOMAIN Repositories[roots[r].checkout].files
         /\ \A f \in FileIds : /\ f = <<f[1], f[2]>> /\ f[1] \in Repos
                               /\ f[2] \in DOMAIN Tree(f[1]).files
         /\ \A r \in Repos : \A n \in DOMAIN Tree(r).files : <<r, n>> \in FileIds
<1>1. command \in Commands /\ roots = roots_of(command)
  BY DEF ShapeOK
<1>2. \A r \in Repos : roots[r].checkout \in DOMAIN Repositories
  BY <1>1, RootsAssumption DEF Repos
<1>3. \A r \in Repos : DOMAIN Tree(r).files \subseteq Nat
  BY <1>2, TreesAssumption DEF Tree
<1>4. QED
  BY <1>2, <1>3 DEF FileIds, Tree

LEMMA SizeIs ==
  ASSUME ShapeOK, ScanShape
  PROVE  SizeOf(options) = WindowLines /\ SizeOf(options) \in Nat /\ SizeOf(options) >= 1
<1>1. options.base.window_lines \in Nat
  BY RootsAssumption DEF ShapeOK, ScanShape
<1> DEFINE S == {options.base.window_lines, 2}
<1>2. \E x \in S : x \in Nat /\ \A y \in S : x >= y
  <2>1. CASE options.base.window_lines >= 2
    BY <1>1, <2>1
  <2>2. CASE ~(options.base.window_lines >= 2)
    BY <1>1, <2>2
  <2>3. QED
    BY <2>1, <2>2
<1>3. Max(S) \in S /\ \A y \in S : Max(S) >= y
  <2> HIDE DEF S
  <2> QED BY <1>2 DEF Max
<1>4. QED
  BY <1>1, <1>3 DEF SizeOf, WindowLines

\* The least of some numbers.
LEMMA MinOf ==
  ASSUME NEW S \in SUBSET Nat, S # {}
  PROVE  Min(S) \in S /\ \A n \in S : Min(S) <= n
BY Least DEF Min

LEMMA FilesStay ==
  ASSUME UNCHANGED inputs
  PROVE  /\ FileIds' = FileIds /\ Entries' = Entries /\ options' = options
         /\ Workers' = Workers /\ Repos' = Repos
         /\ \A r : Tree(r)' = Tree(r)
<1>1. command' = command /\ options' = options /\ roots' = roots
  BY DEF inputs
<1>2. FileIds' = FileIds
  BY <1>1 DEF FileIds, Repos, Tree
<1>3. Entries' = Entries
  BY <1>1, <1>2 DEF Entries, FileEntry, FileOf, Tree
<1>4. QED
  BY <1>1, <1>2, <1>3, InputsStay DEF Tree

LEMMA InitScanInv == Init => ScanInv
<1> SUFFICES ASSUME Init PROVE ScanInv
  OBVIOUS
<1> USE DEF Init
<1>1. \A w \in Workers : ~Holding(w)
  BY DEF Holding
<1>2. WorkersSound
  BY <1>1 DEF WorkersSound, WorkerSound
<1>3. ShardsSound
  <2>1. DOMAIN <<>> = {}
    OBVIOUS
  <2>2. QED
    BY <2>1 DEF ShardsSound
<1>4. UnclaimedUnseen
  BY DEF UnclaimedUnseen
<1>5. FoldSound
  BY DEF FoldSound
<1>6. ScanShape
  <2>1. disk \in InitialDisks
    OBVIOUS
  <2>2. \A p \in DOMAIN disk : disk[p] \in Texts \cup {Gone, Binary}
    BY <2>1 DEF Texts
  <2>3. QED
    BY <2>1, <2>2, DisksAssumption DEF ScanShape
<1>7. QED
  BY <1>2, <1>3, <1>4, <1>5, <1>6 DEF ScanInv

\* What the others scan is nothing to a worker, nor to a shard that was pushed.
LEMMA WorkerStays ==
  ASSUME UNCHANGED inputs, NEW v, WorkerSound(v), UNCHANGED <<pc[v], shard[v], todo[v]>>,
         Holding(v) => \A f \in IdsOf(FileIds, RepoOf(v)) : seen'[f] = seen[f]
  PROVE  WorkerSound(v)'
<1> SUFFICES ASSUME Holding(v)' PROVE WorkerSound(v)'
  BY DEF WorkerSound
<1>1. /\ FileIds' = FileIds /\ Entries' = Entries /\ options' = options
      /\ \A r : Tree(r)' = Tree(r)
  BY FilesStay
<1>2. Holding(v)
  BY DEF Holding
<1>3. ShardSound(shard[v])'
  <2>1. SoundTable(shard[v].files, shard[v].index, IdsOf(FileIds, shard[v].repo_idx),
                   Entries, seen', options)
    BY <1>2, TableStays DEF WorkerSound, ShardSound, RepoOf
  <2>2. QED
    BY <2>1, <1>1 DEF ShardSound
<1>4. Ahead(v)' <=> Ahead(v)
  BY <1>1 DEF Ahead, RepoOf
<1>5. QED
  BY <1>2, <1>3, <1>4 DEF WorkerSound

LEMMA ShardStays ==
  ASSUME UNCHANGED inputs, NEW s, ShardSound(s),
         \A f \in IdsOf(FileIds, s.repo_idx) : seen'[f] = seen[f]
  PROVE  SoundTable(s.files, s.index, IdsOf(FileIds', s.repo_idx), Entries', seen', options')
<1>1. FileIds' = FileIds /\ Entries' = Entries /\ options' = options
  BY FilesStay
<1>2. SoundTable(s.files, s.index, IdsOf(FileIds, s.repo_idx), Entries, seen', options)
  BY TableStays DEF ShardSound
<1>3. QED
  BY <1>1, <1>2

\* A step in which a worker changes its place and what it has to scan.
LEMMA WorkerMoves ==
  ASSUME ClaimInv, ScanInv, NEW w \in Workers, Holding(w),
         UNCHANGED <<inputs, disk, next_repo, shards, phase, folded, seen>>,
         DOMAIN todo' = Workers,
         \A v \in Workers \ {w} : UNCHANGED <<pc[v], shard[v], todo[v]>>,
         shard'[w].files = shard[w].files, shard'[w].index = shard[w].index,
         shard'[w].repo_idx = shard[w].repo_idx,
         pc'[w] \in {"stat", "read", "push"},
         pc'[w] \in {"stat", "read"} =>
            /\ todo'[w] \subseteq DOMAIN Tree(RepoOf(w)).files
            /\ \A n \in DOMAIN shard[w].files, t \in todo'[w] : shard[w].files[n].id[2] < t,
         pc'[w] = "read" => todo'[w] # {}
  PROVE  ScanInv'
<1>1. /\ FileIds' = FileIds /\ Entries' = Entries /\ options' = options
      /\ Workers' = Workers /\ \A r : Tree(r)' = Tree(r)
  BY FilesStay
<1>2. ScanShape'
  BY <1>1 DEF ScanInv, ScanShape, inputs
<1>3. WorkersSound'
  <2>1. ASSUME NEW v \in Workers \ {w} PROVE WorkerSound(v)'
    <3>1. WorkerSound(v)
      BY DEF ScanInv, WorkersSound
    <3>2. UNCHANGED <<pc[v], shard[v], todo[v]>> /\ seen' = seen
      OBVIOUS
    <3>3. QED
      BY <3>1, <3>2, WorkerStays
  <2>2. WorkerSound(w)'
    <3>1. ShardSound(shard[w])
      BY DEF ScanInv, WorkersSound, WorkerSound
    <3>2. ShardSound(shard[w])'
      BY <3>1, <1>1 DEF ShardSound
    <3>3. pc'[w] \in {"stat", "read"} => Ahead(w)'
      BY <1>1 DEF Ahead, RepoOf
    <3>4. QED
      BY <3>2, <3>3 DEF WorkerSound
  <2>3. QED
    BY <2>1, <2>2, <1>1 DEF WorkersSound
<1>4. ShardsSound'
  BY <1>1 DEF ScanInv, ShardsSound, ShardSound
<1>5. UnclaimedUnseen'
  BY <1>1 DEF ScanInv, UnclaimedUnseen
<1>6. FoldSound'
  BY <1>1 DEF ScanInv, FoldSound
<1>7. QED
  BY <1>2, <1>3, <1>4, <1>5, <1>6 DEF ScanInv

-----------------------------------------------------------------------------
(* The steps of the scan.                                                  *)

LEMMA ClaimScans ==
  ASSUME ClaimInv, ScanInv, NEW w \in Workers, Claim(w)
  PROVE  ScanInv'
<1>1. UNCHANGED <<inputs, disk, todo, shards, phase, folded, seen>> /\ pc[w] = "claim"
  BY DEF Claim, coordinator
<1>2. /\ FileIds' = FileIds /\ Entries' = Entries /\ options' = options
      /\ Workers' = Workers /\ \A r : Tree(r)' = Tree(r)
  BY <1>1, FilesStay
<1>3. next_repo \in Nat /\ next_repo' = next_repo + 1
  BY DEF Claim, ClaimInv, ShapeOK
<1>4. ScanShape'
  BY <1>1, <1>2 DEF ScanInv, ScanShape, inputs
<1>5. WorkersSound'
  <2>1. ASSUME NEW v \in Workers \ {w} PROVE WorkerSound(v)'
    <3>1. WorkerSound(v)
      BY DEF ScanInv, WorkersSound
    <3>2. UNCHANGED <<pc[v], shard[v], todo[v]>>
      BY <1>1 DEF Claim, ClaimInv, ShapeOK
    <3>3. QED
      BY <1>1, <3>1, <3>2, WorkerStays
  <2>2. WorkerSound(w)'
    <3>1. CASE next_repo > RepoTotal
      <4>1. pc'[w] = "exit"
        BY <3>1 DEF Claim, ClaimInv, ShapeOK
      <4>2. QED
        BY <4>1 DEF WorkerSound, Holding
    <3>2. CASE ~(next_repo > RepoTotal)
      <4>1. pc'[w] = "discover" /\ shard'[w] = NewShard(next_repo)
        BY <3>2 DEF Claim, ClaimInv, ShapeOK
      <4>2. /\ shard'[w].files = <<>> /\ shard'[w].index = EmptyIndex
            /\ shard'[w].repo_idx = next_repo
        BY <4>1 DEF NewShard
      <4>3. \A f \in IdsOf(FileIds, next_repo) : seen[f] = NotRead
        BY <1>3 DEF IdsOf, ScanInv, UnclaimedUnseen
      <4>4. SoundTable(<<>>, EmptyIndex, IdsOf(FileIds, next_repo), Entries, seen, options)
        BY <4>3, EmptyTable
      <4>5. ShardSound(shard[w])'
        BY <1>1, <1>2, <4>2, <4>4 DEF ShardSound
      <4>6. QED
        BY <4>1, <4>2, <4>5 DEF WorkerSound
    <3>3. QED
      BY <3>1, <3>2
  <2>3. QED
    BY <2>1, <2>2, <1>2 DEF WorkersSound
<1>6. ShardsSound'
  BY <1>1, <1>2 DEF ScanInv, ShardsSound, ShardSound
<1>7. UnclaimedUnseen'
  <2>1. \A f \in FileIds : f[1] \in Nat
    <3>1. \A f \in FileIds : f[1] \in Repos
      BY FilesAre DEF ClaimInv
    <3>2. QED
      BY <3>1, RootsShape DEF ClaimInv
  <2>2. QED
    BY <1>1, <1>2, <1>3, <2>1 DEF ScanInv, UnclaimedUnseen
<1>8. FoldSound'
  BY <1>1, <1>2 DEF ScanInv, FoldSound
<1>9. QED
  BY <1>4, <1>5, <1>6, <1>7, <1>8 DEF ScanInv

\* What is discovered are files of the tree.
LEMMA DiscoveredOnDisk ==
  ASSUME NEW repo, NEW opts, NEW listable, NEW on_disk
  PROVE  /\ collect_source_files_v1(repo, on_disk) \subseteq on_disk
         /\ collect_repo_files(repo, opts, listable, on_disk).files \subseteq on_disk
<1>1. collect_source_files_v1(repo, on_disk) \subseteq on_disk
  BY DEF collect_source_files_v1
<1>2. collect_repo_files(repo, opts, listable, on_disk).files \subseteq on_disk
  BY DEF collect_repo_files
<1>3. QED
  BY <1>1, <1>2

LEMMA DiscoverScans ==
  ASSUME ClaimInv, ScanInv, NEW w \in Workers, Discover(w)
  PROVE  ScanInv'
<1> DEFINE r == shard[w].repo_idx
           listable == roots[r].checkout \notin unlistable
           found == collect_repo_files(Tree(r), options, listable, OnDisk(r))
           listed == IF options.compat_v1 THEN collect_source_files_v1(Tree(r), OnDisk(r))
                     ELSE found.files
<1>1. Holding(w) /\ UNCHANGED <<inputs, disk, next_repo, shards, phase, folded, seen>>
  BY DEF Discover, Holding, coordinator
<1>2. shard[w].files = <<>>
  BY <1>1 DEF ScanInv, WorkersSound, WorkerSound, Discover
<1>3. /\ DOMAIN pc = Workers /\ DOMAIN shard = Workers /\ DOMAIN todo = Workers
      /\ DOMAIN shard[w] = ShardFields
  BY DEF ScanInv, ScanShape, ClaimInv, ShapeOK
<1>4. /\ DOMAIN todo' = Workers
      /\ \A v \in Workers \ {w} : UNCHANGED <<pc[v], shard[v], todo[v]>>
      /\ shard'[w].files = shard[w].files /\ shard'[w].index = shard[w].index
      /\ shard'[w].repo_idx = shard[w].repo_idx
  BY <1>3 DEF Discover, ShardFields
<1>5. pc'[w] = "push" \/ (pc'[w] = "stat" /\ todo'[w] = listed)
  BY <1>3 DEF Discover
<1>6. listed \subseteq DOMAIN Tree(r).files
  <2>1. listed \subseteq OnDisk(r)
    BY DiscoveredOnDisk
  <2>2. OnDisk(r) \subseteq DOMAIN Tree(r).files
    BY DEF OnDisk
  <2>3. QED
    BY <2>1, <2>2
<1>7. DOMAIN shard[w].files = {}
  BY <1>2
<1> HIDE DEF listed
<1>8. pc'[w] \in {"stat", "read"} =>
         /\ todo'[w] \subseteq DOMAIN Tree(RepoOf(w)).files
         /\ \A n \in DOMAIN shard[w].files, t \in todo'[w] : shard[w].files[n].id[2] < t
  BY <1>5, <1>6, <1>7 DEF RepoOf
<1>9. QED
  BY <1>1, <1>4, <1>5, <1>8, WorkerMoves

\* A file is skipped.
LEMMA SkipScans ==
  ASSUME ClaimInv, ScanInv, NEW w \in Workers, pc[w] \in {"stat", "read"}, SkipFile(w),
         UNCHANGED <<inputs, disk, next_repo, shards, phase, folded, seen>>
  PROVE  ScanInv'
<1>1. Holding(w)
  BY DEF Holding
<1>2. /\ DOMAIN pc = Workers /\ DOMAIN shard = Workers /\ DOMAIN todo = Workers
      /\ DOMAIN shard[w] = ShardFields
  BY DEF ScanInv, ScanShape, ClaimInv, ShapeOK
<1>3. /\ DOMAIN todo' = Workers
      /\ \A v \in Workers \ {w} : UNCHANGED <<pc[v], shard[v], todo[v]>>
      /\ shard'[w].files = shard[w].files /\ shard'[w].index = shard[w].index
      /\ shard'[w].repo_idx = shard[w].repo_idx
      /\ pc'[w] = "stat"
  BY <1>2 DEF SkipFile, ShardFields
<1>4. todo'[w] \subseteq todo[w]
  BY <1>2 DEF SkipFile
<1>5. Ahead(w)
  BY <1>1 DEF ScanInv, WorkersSound, WorkerSound
<1>6. /\ todo'[w] \subseteq DOMAIN Tree(RepoOf(w)).files
      /\ \A n \in DOMAIN shard[w].files, t \in todo'[w] : shard[w].files[n].id[2] < t
  BY <1>4, <1>5 DEF Ahead
<1>7. QED
  BY <1>1, <1>3, <1>6, WorkerMoves

LEMMA StatScans ==
  ASSUME ClaimInv, ScanInv, NEW w \in Workers, Stat(w)
  PROVE  ScanInv'
<1>1. /\ UNCHANGED <<inputs, disk, next_repo, shards, phase, folded, seen>>
      /\ pc[w] = "stat" /\ todo[w] # {}
  BY DEF Stat, coordinator
<1>2. Holding(w)
  BY <1>1 DEF Holding
<1>3. CASE SkipFile(w)
  BY <1>1, <1>3, SkipScans
<1>4. CASE ~SkipFile(w)
  <2>1. /\ DOMAIN pc = Workers /\ DOMAIN shard = Workers /\ DOMAIN todo = Workers
        /\ DOMAIN shard[w] = ShardFields
    BY DEF ScanInv, ScanShape, ClaimInv, ShapeOK
  <2>2. /\ \/ shard' = [shard EXCEPT ![w].failed = TRUE] /\ pc' = [pc EXCEPT ![w] = "push"]
           \/ shard' = shard /\ pc' = [pc EXCEPT ![w] = "read"]
        /\ todo' = todo
    BY <1>4 DEF Stat
  <2>3. /\ \A v \in Workers \ {w} : UNCHANGED <<pc[v], shard[v], todo[v]>>
        /\ shard'[w].files = shard[w].files /\ shard'[w].index = shard[w].index
        /\ shard'[w].repo_idx = shard[w].repo_idx
        /\ pc'[w] \in {"stat", "read", "push"}
    BY <2>1, <2>2 DEF ShardFields
  <2>4. Ahead(w)
    BY <1>1, <1>2 DEF ScanInv, WorkersSound, WorkerSound
  <2>5. /\ todo'[w] \subseteq DOMAIN Tree(RepoOf(w)).files
        /\ \A n \in DOMAIN shard[w].files, t \in todo'[w] : shard[w].files[n].id[2] < t
    BY <2>2, <2>4 DEF Ahead
  <2>6. QED
    BY <1>1, <1>2, <2>1, <2>2, <2>3, <2>5, WorkerMoves
<1>5. QED
  BY <1>3, <1>4

\* A file is read: the table of the shard grows by it.
LEMMA ReadScans ==
  ASSUME ClaimInv, ScanInv, NEW w \in Workers, Read(w)
  PROVE  ScanInv'
<1> DEFINE f == CurrentFile(w)
           contents == disk[OnDiskAs(f)]
           entry == FileEntry(f)
           r == RepoOf(w)
           files == shard[w].files
           index == shard[w].index
           ids == IdsOf(FileIds, r)
<1>1. /\ UNCHANGED <<inputs, disk, next_repo, shards, phase, folded>>
      /\ pc[w] = "read" /\ Holding(w)
  BY DEF Read, Holding, coordinator
<1>2. CASE contents \in {Gone, Binary}
  <2>1. SkipFile(w) /\ seen' = seen
    BY <1>2 DEF Read
  <2>2. QED
    BY <1>1, <2>1, SkipScans
<1>3. CASE contents \notin {Gone, Binary}
  <2>1. /\ shard' = [shard EXCEPT ![w].files = Append(@, entry),
                                  ![w].index = scan_windows(@, normalized_lines(contents), f[1],
                                                  Len(shard[w].files) + 1, entry.lang,
                                                  WindowLines, options)]
        /\ seen' = [seen EXCEPT ![f] = contents]
        /\ todo' = [todo EXCEPT ![w] = @ \ {Min(@)}]
        /\ pc' = [pc EXCEPT ![w] = "stat"]
    BY <1>3 DEF Read
  <2>2. /\ FileIds' = FileIds /\ Entries' = Entries /\ options' = options
        /\ Workers' = Workers /\ \A q : Tree(q)' = Tree(q)
    BY <1>1, FilesStay
  <2>3. WorkerSound(w)
    BY DEF ScanInv, WorkersSound
  <2>4. Ahead(w) /\ todo[w] # {} /\ ShardSound(shard[w])
    BY <1>1, <2>3 DEF WorkerSound
  <2>5. r \in Repos /\ r < next_repo
    BY <1>1 DEF ClaimInv, Claimed
  <2>6. DOMAIN Tree(r).files \subseteq Nat /\ \A n \in DOMAIN Tree(r).files : <<r, n>> \in FileIds
    BY <2>5, FilesAre DEF ClaimInv
  <2>7. todo[w] \in SUBSET Nat
    BY <2>4, <2>6 DEF Ahead
  <2>8. Min(todo[w]) \in todo[w] /\ \A t \in todo[w] : Min(todo[w]) <= t
    BY <2>4, <2>7, MinOf
  <2>9. f = <<r, Min(todo[w])>> /\ f[1] = r /\ f[2] = Min(todo[w])
    BY DEF CurrentFile, RepoOf
  <2>10. f \in FileIds /\ f \in ids
    <3>1. Min(todo[w]) \in DOMAIN Tree(r).files
      BY <2>4, <2>8 DEF Ahead
    <3>2. QED
      BY <3>1, <2>6, <2>9 DEF IdsOf
  <2>11. contents \in Texts
    <3>1. Tree(r).files = Repositories[roots[r].checkout].files
          /\ roots[r].checkout \in DOMAIN Repositories /\ f[2] \in DOMAIN Tree(r).files
      BY <2>4, <2>5, <2>8, <2>9, FilesAre DEF Ahead, Tree, ClaimInv
    <3>2. OnDiskAs(f) = <<roots[r].checkout, f[2]>>
      BY <2>9 DEF OnDiskAs
    <3>3. OnDiskAs(f) \in DOMAIN disk
      BY <3>1, <3>2 DEF ScanInv, ScanShape
    <3>4. QED
      BY <1>3, <3>3 DEF ScanInv, ScanShape
  <2>12. DOMAIN seen = FileIds /\ seen'[f] = contents
         /\ \A g \in FileIds : g # f => seen'[g] = seen[g]
    <3>1. DOMAIN seen = FileIds
      BY DEF ScanInv, ScanShape
    <3> HIDE DEF f, contents
    <3>2. QED
      BY <3>1, <2>1, <2>10
  <2>13. entry \in Entries /\ entry.id = f
    BY <2>10 DEF Entries, FileEntry
  <2>14. SizeOf(options) = WindowLines /\ SizeOf(options) \in Nat
    BY SizeIs DEF ClaimInv, ScanInv
  <2>15. SoundTable(files, index, ids, Entries, seen, options)
    BY <2>4 DEF ShardSound, RepoOf
  <2>16. \A n \in DOMAIN files : files[n].id[1] = r /\ files[n].id[2] < f[2]
    <3>1. \A n \in DOMAIN files : files[n].id \in ids
      BY <2>15 DEF SoundTable
    <3>2. QED
      BY <3>1, <2>4, <2>8, <2>9 DEF IdsOf, Ahead
  <2>17. \A n \in DOMAIN files : files[n].id[2] \in Nat
    <3>1. \A n \in DOMAIN files : files[n].id \in FileIds
      BY <2>15 DEF SoundTable, IdsOf
    <3>2. \A g \in FileIds : g[1] \in Repos /\ g[2] \in DOMAIN Tree(g[1]).files
      BY FilesAre DEF ClaimInv
    <3>3. \A q \in Repos : DOMAIN Tree(q).files \subseteq Nat
      BY FilesAre DEF ClaimInv
    <3>4. QED
      BY <3>1, <3>2, <3>3
  <2>18. \A n \in DOMAIN files : Precedes(files[n].id, f) /\ files[n].id # f
    <3>1. f[2] \in Nat
      BY <2>7, <2>8, <2>9
    <3> HIDE DEF f, files, r
    <3>2. QED
      BY <3>1, <2>9, <2>16, <2>17 DEF Precedes
  <2> DEFINE read == scan_windows(index, normalized_lines(contents), r, Len(files) + 1,
                                  entry.lang, WindowLines, options)
  <2>19. SoundTable(Append(files, entry), read, ids, Entries, seen', options)
    <3>1. \A g \in ids \ {entry.id} : seen'[g] = seen[g]
      BY <2>12, <2>13 DEF IdsOf
    <3>2. entry.id \in ids /\ seen'[entry.id] \in Texts
      BY <2>10, <2>11, <2>12, <2>13
    <3>3. \A n \in DOMAIN files : Precedes(files[n].id, entry.id) /\ files[n].id # entry.id
      BY <2>13, <2>18
    <3>4. seen'[entry.id] = contents /\ entry.id[1] = r
      BY <2>9, <2>12, <2>13
    <3> HIDE DEF f, contents, entry, r, files, index, ids
    <3>5. QED
      BY <2>13, <2>14, <2>15, <3>1, <3>2, <3>3, <3>4, TableGrows
  <2>20. /\ DOMAIN pc = Workers /\ DOMAIN shard = Workers /\ DOMAIN todo = Workers
         /\ DOMAIN shard[w] = ShardFields
    BY DEF ScanInv, ScanShape, ClaimInv, ShapeOK
  <2>21. /\ shard'[w].files = Append(files, entry) /\ shard'[w].index = read
         /\ shard'[w].repo_idx = r
         /\ pc'[w] = "stat" /\ todo'[w] = todo[w] \ {Min(todo[w])}
         /\ \A v \in Workers \ {w} : UNCHANGED <<pc[v], shard[v], todo[v]>>
         /\ DOMAIN todo' = Workers
    <3>1. f[1] = r
      BY <2>9
    <3> HIDE DEF f, contents, entry
    <3>2. QED
      BY <3>1, <2>1, <2>20 DEF ShardFields, RepoOf
  <2> HIDE DEF f, contents, entry, read
  <2>22. ScanShape'
    BY <1>1, <2>2, <2>12, <2>1, <2>21 DEF ScanInv, ScanShape, inputs
  <2>23. WorkersSound'
    <3>1. ASSUME NEW v \in Workers \ {w} PROVE WorkerSound(v)'
      <4>1. WorkerSound(v)
        BY DEF ScanInv, WorkersSound
      <4>2. Holding(v) => RepoOf(v) # r
        BY <1>1 DEF ClaimInv, InOnePlace
      <4>3. Holding(v) => \A g \in IdsOf(FileIds, RepoOf(v)) : seen'[g] = seen[g]
        BY <4>2, <2>9, <2>12 DEF IdsOf
      <4>4. QED
        BY <1>1, <2>21, <4>1, <4>3, WorkerStays
    <3>2. WorkerSound(w)'
      <4>1. ShardSound(shard[w])'
        BY <2>2, <2>19, <2>21 DEF ShardSound
      <4>2. Ahead(w)'
        <5>1. todo'[w] \subseteq (DOMAIN Tree(RepoOf(w)).files)'
          BY <2>2, <2>4, <2>21 DEF Ahead, RepoOf
        <5>2. ASSUME NEW n \in DOMAIN Append(files, entry), NEW t \in todo'[w]
              PROVE  Append(files, entry)[n].id[2] < t
          <6>1. t \in todo[w] /\ f[2] < t
            BY <2>7, <2>8, <2>9, <2>21
          <6>2. files \in Seq(Entries)
            BY <2>15 DEF SoundTable
          <6> HIDE DEF files
          <6>3. /\ DOMAIN Append(files, entry) = DOMAIN files \cup {Len(files) + 1}
                /\ \A i \in DOMAIN files : Append(files, entry)[i] = files[i]
                /\ Append(files, entry)[Len(files) + 1] = entry
            BY <6>2, AppendShape
          <6>4. CASE n \in DOMAIN files
            BY <6>1, <6>3, <6>4, <2>4 DEF Ahead, files
          <6>5. CASE n = Len(files) + 1
            BY <6>1, <6>3, <6>5, <2>13
          <6>6. QED
            BY <6>3, <6>4, <6>5
        <5>3. QED
          BY <5>1, <5>2, <2>2, <2>21 DEF Ahead, RepoOf
      <4>3. QED
        BY <4>1, <4>2, <2>21 DEF WorkerSound
    <3>3. QED
      BY <3>1, <3>2, <2>2 DEF WorkersSound
  <2>24. ShardsSound'
    <3>1. ASSUME NEW i \in DOMAIN shards PROVE ShardSound(shards[i])'
      <4>1. ShardSound(shards[i])
        BY DEF ScanInv, ShardsSound
      <4>2. shards[i].repo_idx # r
        BY <1>1 DEF ClaimInv, InOnePlace
      <4>3. \A g \in IdsOf(FileIds, shards[i].repo_idx) : seen'[g] = seen[g]
        BY <4>2, <2>9, <2>12 DEF IdsOf
      <4>4. SoundTable(shards[i].files, shards[i].index, IdsOf(FileIds', shards[i].repo_idx),
                       Entries', seen', options')
        BY <1>1, <4>1, <4>3, ShardStays
      <4>5. QED
        BY <4>4, <1>1 DEF ShardSound
    <3>2. QED
      BY <3>1, <1>1 DEF ShardsSound
  <2>25. UnclaimedUnseen'
    <3>1. next_repo \in Nat /\ r \in Nat
      BY <2>5, RootsShape DEF ClaimInv, ShapeOK
    <3>2. ASSUME NEW g \in FileIds, g[1] >= next_repo PROVE seen'[g] = NotRead
      <4>1. g # f
        BY <3>1, <3>2, <2>5, <2>9
      <4>2. QED
        BY <4>1, <3>2, <2>12 DEF ScanInv, UnclaimedUnseen
    <3>3. QED
      BY <3>2, <1>1, <2>2 DEF UnclaimedUnseen
  <2>26. FoldSound'
    <3>1. ~Joined
      BY <1>1 DEF Joined
    <3>2. phase' = "scan"
      BY <1>1, <3>1 DEF ClaimInv, Exhausted
    <3>3. QED
      BY <3>2 DEF FoldSound
  <2>27. QED
    BY <2>22, <2>23, <2>24, <2>25, <2>26 DEF ScanInv
<1>4. QED
  BY <1>2, <1>3

LEMMA PushScans ==
  ASSUME ClaimInv, ScanInv, NEW w \in Workers, Push(w)
  PROVE  ScanInv'
<1>1. UNCHANGED <<inputs, disk, next_repo, shard, phase, folded, seen>> /\ Holding(w)
  BY DEF Push, Holding, coordinator
<1>2. /\ FileIds' = FileIds /\ Entries' = Entries /\ options' = options
      /\ Workers' = Workers /\ \A r : Tree(r)' = Tree(r)
  BY <1>1, FilesStay
<1>3. DOMAIN pc = Workers /\ DOMAIN todo = Workers
  BY DEF ScanInv, ScanShape, ClaimInv, ShapeOK
<1>4. /\ pc'[w] = "claim" /\ DOMAIN todo' = Workers
      /\ \A v \in Workers \ {w} : UNCHANGED <<pc[v], shard[v], todo[v]>>
  BY <1>1, <1>3 DEF Push
<1>5. ScanShape'
  BY <1>1, <1>2, <1>4 DEF ScanInv, ScanShape, inputs
<1>6. WorkersSound'
  <2>1. ASSUME NEW v \in Workers \ {w} PROVE WorkerSound(v)'
    <3>1. WorkerSound(v)
      BY DEF ScanInv, WorkersSound
    <3>2. QED
      BY <1>1, <1>4, <3>1, WorkerStays
  <2>2. WorkerSound(w)'
    BY <1>4 DEF WorkerSound, Holding
  <2>3. QED
    BY <2>1, <2>2, <1>2 DEF WorkersSound
<1>7. ShardsSound'
  <2>1. ShardSound(shard[w])
    BY <1>1 DEF ScanInv, WorkersSound, WorkerSound
  <2>2. PICK S : shards \in Seq(S)
    BY DEF ClaimInv, ShapeOK
  <2>3. \A i \in DOMAIN shards' : shards'[i] = shard[w] \/ (i \in DOMAIN shards /\ shards'[i] = shards[i])
    <3>1. shards' = Append(shards, shard[w])
      BY DEF Push
    <3>2. QED
      BY <2>2, <3>1, AppendShape
  <2>4. \A i \in DOMAIN shards' : ShardSound(shards'[i])
    BY <2>1, <2>3 DEF ScanInv, ShardsSound
  <2>5. QED
    BY <2>4, <1>1, <1>2 DEF ShardsSound, ShardSound
<1>8. UnclaimedUnseen'
  BY <1>1, <1>2 DEF ScanInv, UnclaimedUnseen
<1>9. FoldSound'
  BY <1>1, <1>2 DEF ScanInv, FoldSound
<1>10. QED
  BY <1>5, <1>6, <1>7, <1>8, <1>9 DEF ScanInv

\* What the coordinator folds out of sound shards is sound.
LEMMA FoldScans ==
  ASSUME ClaimInv, ScanInv, Fold
  PROVE  /\ folded'.files = FoldShards(InRepoOrder).files
         /\ folded'.index = FoldShards(InRepoOrder).index
         /\ SoundTable(folded'.files, folded'.index, FileIds, Entries, seen, options)
<1> DEFINE ordered == InRepoOrder
<1>1. Joined
  BY DEF Fold
<1>2. /\ RepoTotal \in Nat /\ Len(ordered) = RepoTotal
      /\ \A r \in 1 .. RepoTotal : \E i \in DOMAIN shards :
            ordered[r] = shards[i] /\ shards[i].repo_idx = r
  BY <1>1, ShardsInRepoOrder
<1>3. \A f \in FileIds : f[1] \in 1 .. RepoTotal
  BY FilesAre, RootsShape DEF ClaimInv
<1>4. \A i \in DOMAIN shards :
         SoundTable(shards[i].files, shards[i].index, IdsOf(FileIds, shards[i].repo_idx),
                    Entries, seen, options)
  BY DEF ScanInv, ShardsSound, ShardSound
<1>5. folded'.files = FoldShards(ordered).files /\ folded'.index = FoldShards(ordered).index
  BY DEF Fold
<1> HIDE DEF ordered
<1>6. \A r \in 1 .. RepoTotal :
         SoundTable(ordered[r].files, ordered[r].index, IdsOf(FileIds, r), Entries, seen, options)
  BY <1>2, <1>4
<1>7. SoundTable(FoldShards(ordered).files, FoldShards(ordered).index, FileIds, Entries,
                 seen, options)
  BY <1>2, <1>3, <1>6, FoldIsSound
<1>8. QED
  BY <1>5, <1>7 DEF ordered

\* The steps of the coordinator, an edit and a stutter leave the shards alone.
LEMMA OtherScans ==
  ASSUME ScanInv, UNCHANGED <<inputs, workers, seen>>,
         DOMAIN disk' = DOMAIN disk,
         \A p \in DOMAIN disk : disk'[p] \in Texts \cup {Gone, Binary},
         phase' \in {"reconstruct", "done"} =>
            SoundTable(folded'.files, folded'.index, FileIds, Entries, seen, options)
  PROVE  ScanInv'
<1>1. /\ FileIds' = FileIds /\ Entries' = Entries /\ options' = options
      /\ Workers' = Workers /\ \A r : Tree(r)' = Tree(r)
  BY FilesStay
<1>2. UNCHANGED <<next_repo, pc, shard, todo, shards, seen>>
  BY DEF workers
<1>3. ScanShape'
  BY <1>1, <1>2 DEF ScanInv, ScanShape, inputs
<1>4. WorkersSound'
  <2>1. ASSUME NEW v \in Workers PROVE WorkerSound(v)'
    <3>1. WorkerSound(v)
      BY DEF ScanInv, WorkersSound
    <3>2. QED
      BY <1>2, <3>1, WorkerStays
  <2>2. QED
    BY <2>1, <1>1 DEF WorkersSound
<1>5. ShardsSound'
  BY <1>1, <1>2 DEF ScanInv, ShardsSound, ShardSound
<1>6. UnclaimedUnseen'
  BY <1>1, <1>2 DEF ScanInv, UnclaimedUnseen
<1>7. FoldSound'
  BY <1>1, <1>2 DEF FoldSound
<1>8. QED
  BY <1>3, <1>4, <1>5, <1>6, <1>7 DEF ScanInv

LEMMA NextScanInv == ClaimInv /\ ScanInv /\ [Next]_vars => ScanInv'
<1> SUFFICES ASSUME ClaimInv, ScanInv, [Next]_vars PROVE ScanInv'
  OBVIOUS
<1>1. ASSUME NEW w \in Workers, WorkerStep(w) PROVE ScanInv'
  BY <1>1, ClaimScans, DiscoverScans, StatScans, ReadScans, PushScans DEF WorkerStep
<1>2. \A p \in DOMAIN disk : disk[p] \in Texts \cup {Gone, Binary}
  BY DEF ScanInv, ScanShape
<1>3. phase \in {"reconstruct", "done"} =>
         SoundTable(folded.files, folded.index, FileIds, Entries, seen, options)
  BY DEF ScanInv, FoldSound
<1>4. CASE Fold
  <2>1. UNCHANGED <<inputs, workers, seen, disk>>
    BY <1>4 DEF Fold
  <2>2. SoundTable(folded'.files, folded'.index, FileIds, Entries, seen, options)
    BY <1>4, FoldScans
  <2>3. QED
    BY <2>1, <2>2, <1>2, OtherScans
<1>5. CASE Fail \/ ReconstructFile \/ Finalize
  <2>1. /\ UNCHANGED <<inputs, workers, seen, disk, folded>>
        /\ phase' = "failed" \/ phase \in {"reconstruct", "done"}
    BY <1>5 DEF Fail, ReconstructFile, Finalize
  <2>2. QED
    BY <2>1, <1>2, <1>3, OtherScans
<1>6. ASSUME NEW f \in FileIds, NEW c \in Revisions \cup {Gone}, Edit(f, c)
      PROVE  ScanInv'
  <2>1. UNCHANGED <<inputs, workers, seen, phase, folded>>
    BY <1>6 DEF Edit, coordinator
  <2>2. disk' = [disk EXCEPT ![OnDiskAs(f)] = c]
    BY <1>6 DEF Edit
  <2>3. c \in Texts \cup {Gone, Binary}
    BY DEF Texts
  <2>4. DOMAIN disk' = DOMAIN disk /\ \A p \in DOMAIN disk : disk'[p] \in Texts \cup {Gone, Binary}
    BY <1>2, <2>2, <2>3
  <2>5. QED
    BY <2>1, <2>4, <1>3, OtherScans
<1>7. CASE Finished \/ UNCHANGED vars
  <2>1. UNCHANGED <<inputs, workers, seen, disk, phase, folded>>
    BY <1>7 DEF Finished, vars
  <2>2. QED
    BY <2>1, <1>2, <1>3, OtherScans
<1>8. QED
  BY <1>1, <1>4, <1>5, <1>6, <1>7 DEF Next, CoordinatorStep

\* A sound table is the one the property asks for.
LEMMA ScanInvSuffices == ScanInv => MatchesSequential
<1> SUFFICES ASSUME ScanInv, phase \in {"reconstruct", "done"} PROVE MatchesSequential
  BY DEF MatchesSequential
<1>1. SoundTable(folded.files, folded.index, FileIds, Entries, seen, options)
  BY DEF ScanInv, FoldSound
<1>2. WindowsOf(folded.files) = WindowsIn(folded.files, seen, options)
  BY WindowsOfIs
<1>3. QED
  BY <1>1, <1>2 DEF SoundTable, MatchesSequential, Precedes

-----------------------------------------------------------------------------
\* At every moment the table of a shard lists the files of its repository that were
\* scanned, by path, and its index the windows of what they were scanned with
\* (scan_files_with_progress and scan_windows), whatever the other workers do and
\* whatever is edited meanwhile.
THEOREM ShardsAreTables == Spec => []ScanInv
  BY InitClaimInv, NextClaimInv, InitScanInv, NextScanInv, PTL DEF Spec

\* For any number of workers and repositories, any trees, contents and edits: the
\* folded index is the one a single thread would have built (the comment above the
\* fold in scan_roots).
THEOREM ScannedAsSequential == Spec => []MatchesSequential
  BY ShardsAreTables, ScanInvSuffices, PTL

-----------------------------------------------------------------------------
(* Spans of a file.                                                        *)

LEMMA SubSeqIs ==
  ASSUME NEW s, NEW m \in Int, NEW n \in Int
  PROVE  /\ Len(SubSeq(s, m, n)) = IF m <= n THEN n - m + 1 ELSE 0
         /\ DOMAIN SubSeq(s, m, n) = 1 .. Len(SubSeq(s, m, n))
         /\ \A i \in 1 .. n - m + 1 : SubSeq(s, m, n)[i] = s[m + i - 1]
<1> DEFINE S == {s[i] : i \in m .. n}
<1>1. \A i \in m .. n : s[i] \in S
  OBVIOUS
<1> HIDE DEF S
<1>2. SubSeq(s, m, n) \in Seq(S)
  BY <1>1, SubSeqProperties
<1>3. QED
  BY <1>1, <1>2, SubSeqProperties, LenProperties

\* The text of some lines from a place on.
Segment(text, s, len) == window_key(WindowAt(text, s, len))

LEMMA SegmentIs ==
  ASSUME NEW text, NEW s \in Int, NEW len \in Nat
  PROVE  Segment(text, s, len) = [k \in 1 .. len |-> text[s + k - 1].joined]
<1> DEFINE w == WindowAt(text, s, len)
<1>1. /\ Len(w) = len /\ \A k \in 1 .. len : w[k] = text[s + k - 1]
  <2>1. w = SubSeq(text, s, s + len - 1)
    BY DEF WindowAt
  <2> HIDE DEF w
  <2>2. Len(w) = IF s <= s + len - 1 THEN s + len - 1 - s + 1 ELSE 0
    BY <2>1, SubSeqIs
  <2>3. \A k \in 1 .. s + len - 1 - s + 1 : w[k] = text[s + k - 1]
    BY <2>1, SubSeqIs
  <2>4. s + len - 1 - s + 1 = len /\ (s <= s + len - 1 <=> len # 0)
    OBVIOUS
  <2>5. QED
    BY <2>2, <2>3, <2>4
<1>2. Segment(text, s, len) = [k \in 1 .. Len(w) |-> w[k].joined]
  BY DEF Segment, window_key
<1> HIDE DEF w
<1>3. QED
  BY <1>1, <1>2

\* What one more line adds.
LineAdded(before, after, contents, i) ==
  IF contents[i].tokens = <<>> THEN after = before
  ELSE /\ Len(after) = Len(before) + 1
       /\ after[Len(after)] = LineOf(contents, i)
       /\ \A k \in 1 .. Len(before) : after[k] = before[k]

LEMMA LinesAdded ==
  ASSUME NEW contents, NEW last \in Nat, NEW lines, Collects(lines, contents, last)
  PROVE  /\ lines[0] = <<>>
         /\ \A i \in 0 .. last : Len(lines[i]) \in Nat
         /\ \A i \in 1 .. last : LineAdded(lines[i - 1], lines[i], contents, i)
<1> DEFINE S == {LineOf(contents, i) : i \in 1 .. last}
           Bad == {i \in 0 .. last : lines[i] \notin Seq(S)}
<1>1. /\ lines[0] = <<>>
      /\ \A i \in 1 .. last : lines[i] = IF contents[i].tokens = <<>> THEN lines[i - 1]
                                        ELSE Append(lines[i - 1], LineOf(contents, i))
  <2>1. 0 \in 0 .. last /\ \A i \in 1 .. last : i \in 0 .. last /\ i # 0
    OBVIOUS
  <2>2. QED
    BY <2>1 DEF Collects
<1>2. Bad = {}
  <2> SUFFICES ASSUME Bad # {} PROVE FALSE
    OBVIOUS
  <2>1. Bad \in SUBSET Nat
    OBVIOUS
  <2>2. PICK m \in Bad : \A k \in Bad : m <= k
    <3> HIDE DEF Bad
    <3> QED BY <2>1, Least
  <2>3. m \in 0 .. last /\ lines[m] \notin Seq(S)
    OBVIOUS
  <2>4. m # 0
    <3>1. <<>> \in Seq(S)
      OBVIOUS
    <3>2. QED
      BY <2>3, <1>1, <3>1
  <2>5. m - 1 \in 0 .. last /\ m - 1 \notin Bad /\ m \in 1 .. last
    BY <2>2, <2>3, <2>4
  <2>6. lines[m - 1] \in Seq(S) /\ LineOf(contents, m) \in S
    BY <2>5
  <2>7. Append(lines[m - 1], LineOf(contents, m)) \in Seq(S)
    <3> HIDE DEF S
    <3> QED BY <2>6, AppendProperties
  <2>8. QED
    BY <2>3, <2>5, <2>6, <2>7, <1>1
<1>3. \A i \in 0 .. last : lines[i] \in Seq(S)
  BY <1>2
<1> HIDE DEF Bad
<1>4. \A i \in 0 .. last : Len(lines[i]) \in Nat
  BY <1>3, LenProperties
<1>5. ASSUME NEW i \in 1 .. last PROVE LineAdded(lines[i - 1], lines[i], contents, i)
  <2>1. CASE contents[i].tokens = <<>>
    BY <2>1, <1>1 DEF LineAdded
  <2>2. CASE contents[i].tokens # <<>>
    <3>1. i - 1 \in 0 .. last
      OBVIOUS
    <3>2. lines[i - 1] \in Seq(S) /\ LineOf(contents, i) \in S
      BY <3>1, <1>3
    <3>3. lines[i] = Append(lines[i - 1], LineOf(contents, i))
      BY <2>2, <1>1
    <3> HIDE DEF S
    <3>4. /\ Len(lines[i]) = Len(lines[i - 1]) + 1
          /\ \A k \in 1 .. Len(lines[i - 1]) : lines[i][k] = lines[i - 1][k]
          /\ lines[i][Len(lines[i - 1]) + 1] = LineOf(contents, i)
      BY <3>2, <3>3, AppendProperties
    <3>5. QED
      BY <2>2, <3>4 DEF LineAdded
  <2>3. QED
    BY <2>1, <2>2
<1>6. QED
  BY <1>1, <1>4, <1>5

\* Later lines leave the earlier ones where they are.
Keeps(shorter, longer) == /\ Len(shorter) <= Len(longer)
                          /\ \A k \in 1 .. Len(shorter) : longer[k] = shorter[k]

LEMMA LinesKept ==
  ASSUME NEW contents, NEW last \in Nat, NEW lines, Collects(lines, contents, last),
         NEW i \in 0 .. last, NEW last2 \in i .. last
  PROVE  Keeps(lines[i], lines[last2])
<1> DEFINE Kept(j) == Keeps(lines[i], lines[j])
           Bad == {j \in i .. last : ~Kept(j)}
<1> HIDE DEF Kept
<1> SUFFICES ASSUME Bad # {} PROVE Kept(last2)
  BY DEF Kept
<1> SUFFICES FALSE
  OBVIOUS
<1>1. Bad \in SUBSET Nat
  OBVIOUS
<1>2. PICK m \in Bad : \A k \in Bad : m <= k
  <2> HIDE DEF Bad
  <2> QED BY <1>1, Least
<1>3. m \in i .. last /\ ~Kept(m)
  OBVIOUS
<1>4. \A j \in 0 .. last : Len(lines[j]) \in Nat
  BY LinesAdded
<1>5. m # i
  BY <1>3, <1>4 DEF Kept, Keeps
<1>6. m - 1 \in i .. last /\ m - 1 \in 0 .. last /\ m - 1 \notin Bad /\ m \in 1 .. last
  BY <1>2, <1>3, <1>5
<1>7. Kept(m - 1)
  BY <1>6
<1> HIDE DEF Bad
<1>8. LineAdded(lines[m - 1], lines[m], contents, m)
  BY <1>6, LinesAdded
<1>9. Kept(m)
  <2>1. Len(lines[m - 1]) <= Len(lines[m])
    BY <1>4, <1>6, <1>8 DEF LineAdded
  <2>2. \A k \in 1 .. Len(lines[m - 1]) : lines[m][k] = lines[m - 1][k]
    BY <1>8 DEF LineAdded
  <2>3. \A k \in 1 .. Len(lines[i]) : k \in 1 .. Len(lines[m - 1])
    BY <1>4, <1>6, <1>7 DEF Kept, Keeps
  <2>4. Len(lines[i]) <= Len(lines[m])
    BY <1>4, <1>6, <1>7, <2>1 DEF Kept, Keeps
  <2>5. QED
    BY <1>7, <2>2, <2>3, <2>4 DEF Kept, Keeps
<1>10. QED
  BY <1>3, <1>9

\* Where a line of the text stands in the file.
NumberedBy(lines, last, k, n) == n = lines[last][k].line_number

StandsAt(lines, last, k, n) ==
  n \in 1 .. last /\ Len(lines[n]) = k /\ Len(lines[n - 1]) = k - 1

LEMMA LineStands ==
  ASSUME NEW contents, NEW last \in Nat, NEW lines, Collects(lines, contents, last),
         NEW k \in 1 .. Len(lines[last]), NEW n, NumberedBy(lines, last, k, n)
  PROVE  StandsAt(lines, last, k, n)
<1> DEFINE Far == {i \in 0 .. last : Len(lines[i]) >= k}
<1>1. \A j \in 0 .. last : Len(lines[j]) \in Nat
  BY LinesAdded
<1>2. Far \in SUBSET Nat /\ Far # {}
  <2>1. last \in Far
    BY <1>1
  <2>2. QED
    BY <2>1
<1>3. PICK a \in Far : \A i \in Far : a <= i
  <2> HIDE DEF Far
  <2> QED BY <1>2, Least
<1>4. a \in 0 .. last /\ Len(lines[a]) >= k
  OBVIOUS
<1>5. a # 0
  <2>1. Len(lines[0]) = 0
    <3>1. lines[0] = <<>>
      BY LinesAdded
    <3>2. QED
      BY <3>1
  <2>2. QED
    BY <1>4, <2>1
<1>6. a \in 1 .. last /\ a - 1 \in 0 .. last /\ Len(lines[a - 1]) < k
  BY <1>1, <1>3, <1>4, <1>5
<1> HIDE DEF Far
<1>7. LineAdded(lines[a - 1], lines[a], contents, a)
  BY <1>6, LinesAdded
<1>8. /\ Len(lines[a]) = k /\ Len(lines[a - 1]) = k - 1
      /\ lines[a][k] = LineOf(contents, a)
  BY <1>1, <1>4, <1>6, <1>7 DEF LineAdded
<1>9. lines[last][k] = lines[a][k]
  <2>1. last \in a .. last /\ k \in 1 .. Len(lines[a])
    BY <1>4, <1>8
  <2>2. Keeps(lines[a], lines[last])
    BY <1>4, <2>1, LinesKept
  <2>3. QED
    BY <2>1, <2>2 DEF Keeps
<1>10. n = a
  BY <1>8, <1>9 DEF LineOf, NumberedBy
<1>11. QED
  BY <1>6, <1>8, <1>10 DEF StandsAt

\* A piece of a file has the lines that the file has there.
TextFrom(found, text, before) ==
  /\ Len(found) = Len(text) - before
  /\ \A k \in 1 .. Len(found) : found[k].joined = text[before + k].joined

LEMMA PieceOfLines ==
  ASSUME NEW contents, NEW last \in Nat, NEW lines, Collects(lines, contents, last),
         NEW a \in 1 .. last, NEW b \in a .. last,
         NEW piece, NEW length \in Nat, length = b - a + 1, Collects(piece, SubSeq(contents, a, b), length)
  PROVE  TextFrom(piece[length], lines[b], Len(lines[a - 1]))
<1> DEFINE cut == SubSeq(contents, a, b)
           base == Len(lines[a - 1])
           Same(i) == TextFrom(piece[i], lines[a - 1 + i], base)
           Bad == {i \in 0 .. length : ~Same(i)}
<1>1. \A i \in 1 .. length : cut[i] = contents[a + i - 1]
  BY SubSeqIs
<1>2. /\ \A i \in 0 .. last : Len(lines[i]) \in Nat
      /\ \A i \in 1 .. last : LineAdded(lines[i - 1], lines[i], contents, i)
  BY LinesAdded
<1>3. /\ piece[0] = <<>>
      /\ \A i \in 0 .. length : Len(piece[i]) \in Nat
      /\ \A i \in 1 .. length : LineAdded(piece[i - 1], piece[i], cut, i)
  BY LinesAdded
<1> HIDE DEF cut
<1>4. Bad = {}
  <2> HIDE DEF Same
  <2> SUFFICES ASSUME Bad # {} PROVE FALSE
    OBVIOUS
  <2>1. Bad \in SUBSET Nat
    OBVIOUS
  <2>2. PICK m \in Bad : \A k \in Bad : m <= k
    <3> HIDE DEF Bad
    <3> QED BY <2>1, Least
  <2>3. m \in 0 .. length /\ ~Same(m)
    OBVIOUS
  <2>4. m # 0
    <3>1. Same(0)
      <4>1. Len(piece[0]) = 0
        BY <1>3
      <4>2. a - 1 + 0 = a - 1 /\ a - 1 \in 0 .. last
        OBVIOUS
      <4>3. QED
        BY <4>1, <4>2, <1>2 DEF Same, TextFrom
    <3>2. QED
      BY <2>3, <3>1
  <2>5. m - 1 \in 0 .. length /\ m - 1 \notin Bad /\ m \in 1 .. length
    BY <2>2, <2>3, <2>4
  <2>6. Same(m - 1)
    BY <2>5
  <2> HIDE DEF Bad
  <2> DEFINE i == a - 1 + m
  <2>7. i \in 1 .. last /\ a - 1 + (m - 1) = i - 1 /\ a + m - 1 = i /\ i - 1 \in 0 .. last
        /\ a - 1 \in 0 .. last
    BY <2>5
  <2> HIDE DEF i
  <2>8. LineAdded(lines[i - 1], lines[i], contents, i) /\ LineAdded(piece[m - 1], piece[m], cut, m)
        /\ cut[m] = contents[i]
    BY <2>5, <2>7, <1>1, <1>2, <1>3
  <2>9. /\ Len(piece[m - 1]) = Len(lines[i - 1]) - base
        /\ \A k \in 1 .. Len(piece[m - 1]) :
              piece[m - 1][k].joined = lines[i - 1][base + k].joined
    BY <2>6, <2>7 DEF Same, TextFrom
  <2>10. /\ Len(piece[m - 1]) \in Nat /\ Len(piece[m]) \in Nat /\ base \in Nat
         /\ Len(lines[i - 1]) \in Nat /\ Len(lines[i]) \in Nat
    BY <2>5, <2>7, <1>2, <1>3
  <2>11. CASE contents[i].tokens = <<>>
    <3>1. piece[m] = piece[m - 1] /\ lines[i] = lines[i - 1]
      BY <2>8, <2>11 DEF LineAdded
    <3>2. QED
      BY <2>3, <2>9, <3>1 DEF i, Same, TextFrom
  <2>12. CASE contents[i].tokens # <<>>
    <3>1. /\ Len(piece[m]) = Len(piece[m - 1]) + 1
          /\ piece[m][Len(piece[m])] = LineOf(cut, m)
          /\ \A k \in 1 .. Len(piece[m - 1]) : piece[m][k] = piece[m - 1][k]
      BY <2>8, <2>12 DEF LineAdded
    <3>2. /\ Len(lines[i]) = Len(lines[i - 1]) + 1
          /\ lines[i][Len(lines[i])] = LineOf(contents, i)
          /\ \A k \in 1 .. Len(lines[i - 1]) : lines[i][k] = lines[i - 1][k]
      BY <2>8, <2>12 DEF LineAdded
    <3> HIDE DEF base
    <3>3. Len(piece[m]) = Len(lines[i]) - base
      BY <2>9, <2>10, <3>1, <3>2
    <3>4. ASSUME NEW k \in 1 .. Len(piece[m]) PROVE piece[m][k].joined = lines[i][base + k].joined
      <4>1. CASE k = Len(piece[m])
        <5>1. base + k = Len(lines[i])
          BY <4>1, <3>3, <2>10
        <5>2. piece[m][k] = LineOf(cut, m) /\ lines[i][base + k] = LineOf(contents, i)
          BY <4>1, <5>1, <3>1, <3>2
        <5>3. LineOf(cut, m).joined = LineOf(contents, i).joined
          BY <2>8 DEF LineOf
        <5>4. QED
          BY <5>2, <5>3
      <4>2. CASE k # Len(piece[m])
        <5>1. k \in 1 .. Len(piece[m - 1]) /\ base + k \in 1 .. Len(lines[i - 1])
          <6>1. k \in Nat /\ k >= 1 /\ k <= Len(piece[m - 1])
            BY <4>2, <3>1, <2>10
          <6>2. QED
            BY <6>1, <2>9, <2>10
        <5>2. QED
          BY <5>1, <3>1, <3>2, <2>9
      <4>3. QED
        BY <4>1, <4>2
    <3>5. QED
      BY <2>3, <3>3, <3>4 DEF i, Same, TextFrom
  <2>13. QED
    BY <2>11, <2>12
<1>5. length \in 0 .. length /\ a - 1 + length = b
  OBVIOUS
<1>6. Same(length)
  BY <1>4, <1>5
<1>7. QED
  BY <1>5, <1>6

LEMMA LinesInOrder ==
  ASSUME NEW contents, NEW last \in Nat, NEW lines, Collects(lines, contents, last),
         NEW s \in 1 .. Len(lines[last]), NEW e \in s .. Len(lines[last]),
         NEW a, NumberedBy(lines, last, s, a), NEW b, NumberedBy(lines, last, e, b)
  PROVE  StandsAt(lines, last, s, a) /\ StandsAt(lines, last, e, b) /\ b >= a
<1> Len(lines[last]) \in Nat
  <2>1. last \in 0 .. last
    OBVIOUS
  <2>2. QED
    BY <2>1, LinesAdded
<1>1. StandsAt(lines, last, s, a)
  BY LineStands
<1>2. e \in 1 .. Len(lines[last]) /\ s <= e /\ s \in Nat /\ e \in Nat
  OBVIOUS
<1>3. StandsAt(lines, last, e, b)
  BY <1>2, LineStands
<1>4. ~(b < a)
  <2> SUFFICES ASSUME b < a PROVE FALSE
    OBVIOUS
  <2>1. b \in 0 .. last /\ a - 1 \in b .. last
    BY <1>1, <1>3 DEF StandsAt
  <2>2. Keeps(lines[b], lines[a - 1])
    BY <2>1, LinesKept
  <2>3. QED
    BY <2>2, <1>1, <1>2, <1>3 DEF StandsAt, Keeps
<1>5. a \in Int /\ b \in Int
  BY <1>1, <1>3 DEF StandsAt
<1>6. QED
  BY <1>1, <1>3, <1>4, <1>5

\* The lines from one of a file to another.
Spans(found, text, s, e) ==
  /\ Len(found) = e - s + 1
  /\ \A k \in 1 .. e - s + 1 : found[k].joined = text[s + k - 1].joined

FromTo(lines, last, s, e, a, b, contents, cut, length) ==
  /\ s \in 1 .. Len(lines[last]) /\ e \in s .. Len(lines[last])
  /\ StandsAt(lines, last, s, a) /\ StandsAt(lines, last, e, b) /\ b >= a
  /\ length \in Nat /\ length = b - a + 1 /\ cut = SubSeq(contents, a, b)

LEMMA LinesBetween ==
  ASSUME NEW contents, NEW last \in Nat, NEW lines, Collects(lines, contents, last),
         NEW s, NEW e, NEW a, NEW b, NEW piece, NEW length, NEW cut,
         FromTo(lines, last, s, e, a, b, contents, cut, length), Collects(piece, cut, length)
  PROVE  Spans(piece[length], lines[last], s, e)
<1>0. /\ s \in 1 .. Len(lines[last]) /\ e \in s .. Len(lines[last])
      /\ StandsAt(lines, last, s, a) /\ StandsAt(lines, last, e, b) /\ b >= a
      /\ length \in Nat /\ length = b - a + 1 /\ cut = SubSeq(contents, a, b)
  BY DEF FromTo
<1> Len(lines[last]) \in Nat
  <2>1. last \in 0 .. last
    OBVIOUS
  <2>2. QED
    BY <2>1, LinesAdded
<1>1. s \in Nat /\ e \in Nat /\ s >= 1
  BY <1>0
<1>2. /\ a \in 1 .. last /\ Len(lines[a]) = s /\ Len(lines[a - 1]) = s - 1
      /\ b \in a .. last /\ Len(lines[b]) = e
  BY <1>0 DEF StandsAt
<1>3. TextFrom(piece[length], lines[b], Len(lines[a - 1]))
  <2>1. Collects(piece, SubSeq(contents, a, b), length)
    BY <1>0
  <2>2. a \in 1 .. last /\ b \in a .. last
    BY <1>2
  <2>3. QED
    BY <1>0, <2>1, <2>2, PieceOfLines
<1>4. Len(piece[length]) = e - s + 1
  BY <1>1, <1>2, <1>3 DEF TextFrom
<1>5. b \in 0 .. last /\ last \in b .. last
  BY <1>2
<1>6. Keeps(lines[b], lines[last])
  BY <1>5, LinesKept
<1>7. ASSUME NEW k \in 1 .. e - s + 1
      PROVE  piece[length][k].joined = lines[last][s + k - 1].joined
  <2>1. piece[length][k].joined = lines[b][s - 1 + k].joined
    BY <1>2, <1>3, <1>4 DEF TextFrom
  <2>2. s - 1 + k = s + k - 1 /\ s + k - 1 \in 1 .. Len(lines[b])
    BY <1>1, <1>2
  <2>3. lines[last][s + k - 1] = lines[b][s + k - 1]
    BY <2>2, <1>6 DEF Keeps
  <2>4. QED
    BY <2>1, <2>2, <2>3
<1>8. QED
  BY <1>4, <1>7 DEF Spans

LEMMA NormalizedLinesAre ==
  ASSUME NEW contents, Len(contents) \in Nat
  PROVE  \E lines : /\ Collects(lines, contents, Len(contents))
                    /\ normalized_lines(contents) = lines[Len(contents)]
<1> DEFINE lines == CHOOSE lines : Collects(lines, contents, Len(contents))
<1>1. Collects(lines, contents, Len(contents))
  BY CollectionExists
<1>2. normalized_lines(contents) = lines[Len(contents)]
  BY DEF normalized_lines, Collects, LineOf
<1>3. QED
  BY <1>1, <1>2

\* Between two of its lines a file has the text of the lines from the one to the other.
LEMMA SpanIs ==
  ASSUME NEW contents, Len(contents) \in Nat, NEW s \in Nat, NEW len \in Nat, s >= 1, len >= 1,
         NEW text, text = normalized_lines(contents), s + len - 1 <= Len(text)
  PROVE  TextAt(contents, text[s].line_number, text[s + len - 1].line_number)
            = Segment(text, s, len)
<1>1. PICK lines : /\ Collects(lines, contents, Len(contents))
                   /\ normalized_lines(contents) = lines[Len(contents)]
  BY NormalizedLinesAre
<1>2. text = lines[Len(contents)]
  BY <1>1
<1>3. PICK e : e = s + len - 1
  OBVIOUS
<1>4. PICK a : NumberedBy(lines, Len(contents), s, a)
  BY DEF NumberedBy
<1>5. PICK b : NumberedBy(lines, Len(contents), e, b)
  BY DEF NumberedBy
<1>6. a = text[s].line_number /\ b = text[s + len - 1].line_number
  BY <1>2, <1>3, <1>4, <1>5 DEF NumberedBy
<1>7. e \in Nat /\ s <= e /\ e - s + 1 = len /\ e <= Len(text)
  BY <1>3
<1>8. s \in 1 .. Len(text) /\ e \in s .. Len(text)
  <2>1. Len(contents) \in 0 .. Len(contents)
    OBVIOUS
  <2>2. Len(text) \in Nat
    BY <1>1, <1>2, <2>1, LinesAdded
  <2>3. QED
    BY <1>7, <2>2
<1>9. /\ StandsAt(lines, Len(contents), s, a) /\ StandsAt(lines, Len(contents), e, b)
      /\ b >= a
  BY <1>1, <1>2, <1>4, <1>5, <1>8, LinesInOrder
<1>10. PICK length : length = b - a + 1
  OBVIOUS
<1>11. a \in Int /\ b \in Int /\ a <= b /\ length \in Nat
  BY <1>9, <1>10 DEF StandsAt
<1> DEFINE cut == SubSeq(contents, a, b)
           found == normalized_lines(cut)
<1>12. Len(cut) = length
  BY <1>10, <1>11, SubSeqIs
<1>13. PICK piece : Collects(piece, cut, length) /\ found = piece[length]
  <2> HIDE DEF cut
  <2> QED BY <1>11, <1>12, NormalizedLinesAre
<1>14. Spans(piece[length], lines[Len(contents)], s, e)
  <2>1. FromTo(lines, Len(contents), s, e, a, b, contents, cut, length)
    BY <1>2, <1>8, <1>9, <1>10, <1>11 DEF FromTo
  <2>2. Collects(piece, cut, length)
    BY <1>13
  <2> HIDE DEF cut
  <2>3. QED
    BY <1>1, <2>1, <2>2, LinesBetween
<1> HIDE DEF cut
<1>15. TextAt(contents, a, b) = window_key(found)
  BY DEF TextAt, cut
<1>16. window_key(found) = [k \in 1 .. len |-> text[s + k - 1].joined]
  <2> HIDE DEF found
  <2>1. Len(found) = len /\ \A k \in 1 .. len : found[k].joined = text[s + k - 1].joined
    BY <1>2, <1>7, <1>13, <1>14 DEF Spans
  <2>2. QED
    BY <2>1 DEF window_key
<1>17. Segment(text, s, len) = [k \in 1 .. len |-> text[s + k - 1].joined]
  BY SegmentIs
<1>18. QED
  BY <1>6, <1>15, <1>16, <1>17

-----------------------------------------------------------------------------
(* Occurrences in the order of the merge.                                  *)

\* The occurrences of a list have places and are in the order they are sorted by.
Sorted(occs) ==
  /\ Len(occs) \in Nat /\ DOMAIN occs = 1 .. Len(occs)
  /\ occs = [n \in DOMAIN occs |-> occs[n]]
  /\ \A i, j \in DOMAIN occs : OccBefore(occs[i], occs[j]) <=> i < j

LEMMA SortedStays ==
  ASSUME NEW occs, Sorted(occs)
  PROVE  InOccOrder(occs) = occs
<1> DEFINE D == DOMAIN occs
           upto(i) == {j \in D : OccBefore(occs[j], occs[i])
                                 \/ (~OccBefore(occs[i], occs[j]) /\ j <= i)}
           pick(n) == CHOOSE i \in D : Cardinality(upto(i)) = n
<1>1. InOccOrder(occs) = [n \in D |-> occs[pick(n)]]
  BY DEF InOccOrder
<1>2. Len(occs) \in Nat /\ D = 1 .. Len(occs) /\ occs = [n \in D |-> occs[n]]
  BY DEF Sorted
<1>3. \A i, j \in D : OccBefore(occs[i], occs[j]) <=> i < j
  BY DEF Sorted
<1> HIDE DEF D
<1>4. ASSUME NEW i \in D PROVE Cardinality(upto(i)) = i
  <2>1. i \in 1 .. Len(occs) /\ \A j \in D : j \in Nat /\ j >= 1
    BY <1>2
  <2>2. \A j \in D : (j < i \/ (~(i < j) /\ j <= i)) <=> j <= i
    BY <2>1
  <2>3. upto(i) = {j \in D : j <= i}
    BY <1>3, <2>2
  <2>4. {j \in D : j <= i} = 1 .. i
    BY <1>2, <2>1
  <2>5. Cardinality(1 .. i) = IF 1 > i THEN 0 ELSE i - 1 + 1
    BY <2>1, FS_Interval
  <2>6. upto(i) = 1 .. i
    BY <2>3, <2>4
  <2>7. ~(1 > i) /\ i - 1 + 1 = i
    BY <2>1
  <2> HIDE DEF upto
  <2>8. QED
    BY <2>5, <2>6, <2>7
<1> HIDE DEF upto
<1>5. \A n \in D : pick(n) = n
  BY <1>4
<1> HIDE DEF pick
<1>6. QED
  BY <1>1, <1>2, <1>5

-----------------------------------------------------------------------------
(* What a cluster says of the files: the lines of their texts.             *)

\* An occurrence over so many lines of the text of its file.
Covers(o, len, files, sn) ==
  LET e == files[o.file_idx]
      text == TextOf(sn, e)
  IN  /\ DOMAIN o = OccFields
      /\ o.file_idx \in DOMAIN files /\ o.repo_idx = e.id[1]
      /\ o.norm_start \in Nat /\ o.norm_start >= 1
      /\ o.norm_start + len - 1 <= Len(text)
      /\ o.start_line = text[o.norm_start].line_number
      /\ o.end_line = text[o.norm_start + len - 1].line_number

Says(o, len, files, sn) == Segment(TextOf(sn, files[o.file_idx]), o.norm_start, len)

\* The windows of a key say the key.
SoundOccs(occs, key, size, files, sn) ==
  /\ Sorted(occs) /\ Len(occs) >= 1
  /\ \A i \in DOMAIN occs : Covers(occs[i], size, files, sn) /\ Says(occs[i], size, files, sn) = key

LEMMA IndexSound ==
  ASSUME NEW files, NEW index, NEW ids, NEW entries, NEW sn, NEW opts,
         SoundTable(files, index, ids, entries, sn, opts),
         SizeOf(opts) \in Nat, SizeOf(opts) >= 1,
         \A f \in ids : f[1] \in Nat,
         \A f \in ids : sn[f] # NotRead => Len(TextOf(sn, [id |-> f])) \in Nat,
         NEW k \in DOMAIN index
  PROVE  SoundOccs(index[k], k, SizeOf(opts), files, sn)
<1> DEFINE windows == WindowsIn(files, sn, opts)
           occs == index[k]
           size == SizeOf(opts)
           under == OccsUnder(windows, k)
<1>1. /\ files \in Seq(entries)
      /\ \A n \in DOMAIN files : files[n].id \in ids /\ sn[files[n].id] # NotRead
      /\ \A m, n \in DOMAIN files : m < n => Precedes(files[m].id, files[n].id)
      /\ Indexes(index, windows)
  BY DEF SoundTable
<1>2. Lists(occs, under) /\ \E p \in DOMAIN windows : windows[p].key = k
  BY <1>1 DEF Indexes
<1>3. /\ occs \in Seq(under) /\ \A o \in under : \E i \in DOMAIN occs : occs[i] = o
      /\ \A i, j \in DOMAIN occs : i < j => ByPosition(occs[i], occs[j])
  BY <1>2, ListsIs
<1>4. \A o \in under : \E p \in DOMAIN windows : o = windows[p].occ /\ windows[p].key = k
  BY DEF OccsUnder
<1>5. DOMAIN windows = PlacesIn(files, sn, opts)
  BY <1>1, WindowsPlaced
<1>6. \A n \in DOMAIN files : n \in Nat /\ files[n].id[1] \in Nat
  BY <1>1, LenProperties
<1>7. ASSUME NEW o \in under
      PROVE  /\ Covers(o, size, files, sn) /\ Says(o, size, files, sn) = k
             /\ o.repo_idx \in Nat /\ o.file_idx \in Nat
  <2>1. PICK p \in DOMAIN windows : o = windows[p].occ /\ windows[p].key = k
    BY <1>4
  <2>2. PICK n \in DOMAIN files : \E s \in StartsOf(sn, opts, files[n]) : p = <<n, s>>
    BY <1>5, PlaceIn
  <2> PICK s \in StartsOf(sn, opts, files[n]) : p = <<n, s>>
    BY <2>2
  <2> DEFINE e == files[n]
             text == normalized_lines(sn[e.id])
  <2>3. windows[p] = WindowOf(sn, opts, e, n, s)
    BY <2>2, <1>5 DEF WindowsIn
  <2>4. /\ k = window_key(WindowAt(text, s, size))
        /\ o = ScanOccurrence(text, s, e.id[1], n, size)
    BY <2>1, <2>3, WindowIs
  <2>5. s \in 1 .. Len(text) - size + 1
    BY <2>2 DEF StartsOf, PassingStarts, TextOf
  <2>6. Len(text) \in Nat
    BY <1>1 DEF TextOf
  <2>7. s \in Nat /\ s >= 1 /\ s + size - 1 <= Len(text)
    BY <2>5, <2>6
  <2>8. /\ o.file_idx = n /\ o.norm_start = s /\ o.repo_idx = e.id[1]
        /\ o.start_line = text[s].line_number
        /\ o.end_line = text[s + size - 1].line_number /\ DOMAIN o = OccFields
    BY <2>4 DEF ScanOccurrence, OccFields
  <2>9. TextOf(sn, files[o.file_idx]) = text
    BY <2>8 DEF TextOf
  <2> HIDE DEF text
  <2>10. Says(o, size, files, sn) = k
    BY <2>4, <2>8, <2>9 DEF Says, Segment
  <2>11. Covers(o, size, files, sn)
    BY <2>7, <2>8, <2>9 DEF Covers
  <2>12. QED
    BY <2>8, <2>10, <2>11, <1>6
<1> HIDE DEF windows, occs, under, size
<1>8. /\ Len(occs) \in Nat /\ DOMAIN occs = 1 .. Len(occs)
      /\ \A i \in DOMAIN occs : occs[i] \in under
      /\ occs = [n \in DOMAIN occs |-> occs[n]]
  BY <1>3, LenProperties
<1>9. Len(occs) >= 1
  <2>1. under # {}
    BY <1>2 DEF OccsUnder, under
  <2>2. DOMAIN occs # {}
    BY <2>1, <1>3
  <2>3. QED
    BY <2>2, <1>8
<1>10. ASSUME NEW i \in DOMAIN occs, NEW j \in DOMAIN occs
       PROVE  OccBefore(occs[i], occs[j]) <=> i < j
  <2> DEFINE a == occs[i]
             b == occs[j]
  <2>1. /\ a.repo_idx \in Nat /\ a.file_idx \in Nat /\ a.norm_start \in Nat
        /\ b.repo_idx \in Nat /\ b.file_idx \in Nat /\ b.norm_start \in Nat
    BY <1>7, <1>8 DEF Covers
  <2>2. /\ a.file_idx \in DOMAIN files /\ a.repo_idx = files[a.file_idx].id[1]
        /\ b.file_idx \in DOMAIN files /\ b.repo_idx = files[b.file_idx].id[1]
    BY <1>7, <1>8 DEF Covers
  <2>3. i \in Nat /\ j \in Nat
    BY <1>8
  <2>4. (i < j => ByPosition(a, b)) /\ (j < i => ByPosition(b, a))
    BY <1>3
  <2>5. /\ a.file_idx < b.file_idx => a.repo_idx <= b.repo_idx
        /\ b.file_idx < a.file_idx => b.repo_idx <= a.repo_idx
    BY <2>2, <1>1, <1>6 DEF Precedes
  <2>6. a.file_idx = b.file_idx => a.repo_idx = b.repo_idx
    BY <2>2
  <2>7. i = j => a = b
    OBVIOUS
  <2>8. ByPosition(a, b) => OccBefore(a, b) /\ ~OccBefore(b, a)
    <3> HIDE DEF a, b
    <3>1. CASE a.file_idx < b.file_idx
      BY <3>1, <2>1, <2>5 DEF OccBefore
    <3>2. CASE a.file_idx = b.file_idx /\ a.norm_start < b.norm_start
      BY <3>2, <2>1, <2>6 DEF OccBefore
    <3>3. QED
      BY <3>1, <3>2 DEF ByPosition
  <2>9. ByPosition(b, a) => ~OccBefore(a, b)
    <3> HIDE DEF a, b
    <3>1. CASE b.file_idx < a.file_idx
      BY <3>1, <2>1, <2>5 DEF OccBefore
    <3>2. CASE b.file_idx = a.file_idx /\ b.norm_start < a.norm_start
      BY <3>2, <2>1, <2>6 DEF OccBefore
    <3>3. QED
      BY <3>1, <3>2 DEF ByPosition
  <2>10. a = b => ~OccBefore(a, b)
    BY <2>1 DEF OccBefore
  <2> HIDE DEF a, b
  <2>11. QED
    BY <2>3, <2>4, <2>7, <2>8, <2>9, <2>10 DEF a, b
<1>11. QED
  BY <1>7, <1>8, <1>9, <1>10 DEF SoundOccs, Sorted, occs, size

-----------------------------------------------------------------------------
(* The surviving windows and the chains of them.                           *)

\* The values of a function on finitely many arguments.
LEMMA ImageFinite ==
  ASSUME NEW S, IsFiniteSet(S), NEW f, f = [x \in S |-> f[x]]
  PROVE  IsFiniteSet({f[x] : x \in S})
<1> DEFINE T == {f[x] : x \in S}
<1>1. f \in [S -> T]
  OBVIOUS
<1>2. \A t \in T : \E x \in S : f[x] = t
  OBVIOUS
<1> HIDE DEF T
<1>3. f \in Surjection(S, T)
  BY <1>1, <1>2 DEF Surjection
<1>4. QED
  BY <1>3, FS_Surjection DEF T

LEMMA IndexFinite ==
  ASSUME NEW files, NEW index, NEW ids, NEW entries, NEW sn, NEW opts,
         SoundTable(files, index, ids, entries, sn, opts), SizeOf(opts) \in Nat,
         \A f \in ids : sn[f] # NotRead => Len(TextOf(sn, [id |-> f])) \in Nat
  PROVE  IsFiniteSet(DOMAIN index)
<1> DEFINE windows == WindowsIn(files, sn, opts)
           starts(n) == StartsOf(sn, opts, files[n])
           places == [n \in DOMAIN files |-> {<<n, s>> : s \in starts(n)}]
<1>1. /\ files \in Seq(entries) /\ Indexes(index, windows)
      /\ \A n \in DOMAIN files : files[n].id \in ids /\ sn[files[n].id] # NotRead
  BY DEF SoundTable
<1>2. IsFiniteSet(DOMAIN files)
  <2>1. Len(files) \in Nat /\ DOMAIN files = 1 .. Len(files)
    BY <1>1, LenProperties
  <2>2. IsFiniteSet(1 .. Len(files))
    BY <2>1, FS_Interval
  <2>3. QED
    BY <2>1, <2>2
<1>3. ASSUME NEW n \in DOMAIN files PROVE IsFiniteSet(places[n])
  <2> DEFINE last == Len(TextOf(sn, files[n])) - SizeOf(opts) + 1
             at == [s \in starts(n) |-> <<n, s>>]
  <2>1. last \in Int
    <3>1. Len(TextOf(sn, files[n])) \in Nat
      BY <1>1 DEF TextOf
    <3>2. QED
      BY <3>1
  <2>2. starts(n) \subseteq 1 .. last
    BY DEF StartsOf, PassingStarts
  <2>3. IsFiniteSet(starts(n))
    <3>1. IsFiniteSet(1 .. last)
      <4> HIDE DEF last
      <4> QED BY <2>1, FS_Interval
    <3> HIDE DEF last, starts
    <3>2. QED
      BY <2>2, <3>1, FS_Subset
  <2> HIDE DEF starts
  <2>4. IsFiniteSet({at[s] : s \in starts(n)})
    BY <2>3, ImageFinite
  <2>5. {at[s] : s \in starts(n)} = places[n]
    OBVIOUS
  <2>6. QED
    BY <2>4, <2>5
<1>4. IsFiniteSet({places[n] : n \in DOMAIN files})
  <2> HIDE DEF starts
  <2>1. places = [n \in DOMAIN files |-> places[n]]
    OBVIOUS
  <2> HIDE DEF places
  <2>2. QED
    BY <1>2, <2>1, ImageFinite
<1>5. PlacesIn(files, sn, opts) = UNION {places[n] : n \in DOMAIN files}
  BY DEF PlacesIn
<1>6. IsFiniteSet(PlacesIn(files, sn, opts))
  <2> HIDE DEF places
  <2> QED BY <1>3, <1>4, <1>5, FS_UNION
<1>7. DOMAIN windows = PlacesIn(files, sn, opts)
  BY <1>1, WindowsPlaced
<1> HIDE DEF windows
<1> DEFINE keys == [p \in DOMAIN windows |-> windows[p].key]
<1>8. IsFiniteSet({keys[p] : p \in DOMAIN windows})
  BY <1>6, <1>7, ImageFinite
<1>9. DOMAIN index = {keys[p] : p \in DOMAIN windows}
  BY <1>1 DEF Indexes
<1>10. QED
  BY <1>8, <1>9

\* Finitely many clusters of one window each.
WindowClusters(V, files, sn, size) ==
  /\ IsFiniteSet(V)
  /\ \A p \in V : /\ SoundOccs(p.occs, p.key, size, files, sn)
                  /\ p.norm_len = size /\ p.member_keys = <<>>

LEMMA SurvivorsSound ==
  ASSUME NEW files, NEW sn, NEW index, NEW size, NEW opts,
         NEW V, V = Survivors(index, size, opts), IsFiniteSet(DOMAIN index),
         \A k \in DOMAIN index : SoundOccs(index[k], k, size, files, sn)
  PROVE  WindowClusters(V, files, sn, size) /\ {SortOccs(p) : p \in V} = V
<1> DEFINE cluster == [k \in DOMAIN index |-> [key |-> k, occs |-> index[k], norm_len |-> size,
                                               member_keys |-> <<>>]]
<1>1. \A p \in V : \E k \in DOMAIN index : p = cluster[k]
  BY DEF Survivors
<1>2. \A p \in V : /\ SoundOccs(p.occs, p.key, size, files, sn)
                   /\ p.norm_len = size /\ p.member_keys = <<>>
  BY <1>1
<1>3. IsFiniteSet(V)
  <2>1. IsFiniteSet({cluster[k] : k \in DOMAIN index})
    BY ImageFinite
  <2>2. V \subseteq {cluster[k] : k \in DOMAIN index}
    BY <1>1
  <2> HIDE DEF cluster
  <2>3. QED
    BY <2>1, <2>2, FS_Subset
<1>4. \A p \in V : SortOccs(p) = p
  <2> SUFFICES ASSUME NEW p \in V PROVE SortOccs(p) = p
    OBVIOUS
  <2>1. PICK k \in DOMAIN index : p = cluster[k]
    BY <1>1
  <2>2. InOccOrder(p.occs) = p.occs
    BY <1>2, SortedStays DEF SoundOccs
  <2>3. QED
    BY <2>1, <2>2 DEF SortOccs
<1>5. QED
  BY <1>2, <1>3, <1>4 DEF WindowClusters

\* Two clusters whose positions agree but for a shift.
Shifted(p, q, j, k) ==
  /\ Len(q.occs) = Len(p.occs)
  /\ \A i \in 1 .. Len(p.occs) : /\ q.occs[i].repo_idx = p.occs[i].repo_idx
                                 /\ q.occs[i].file_idx = p.occs[i].file_idx
                                 /\ q.occs[i].norm_start + j = p.occs[i].norm_start + k

LEMMA ShiftIs ==
  ASSUME NEW p, NEW q, Len(p.occs) \in Nat, Len(q.occs) \in Nat, NEW j, NEW k,
         positions(q, j) = positions(p, k)
  PROVE  Shifted(p, q, j, k)
<1>1. DOMAIN positions(q, j) = 1 .. Len(q.occs) /\ DOMAIN positions(p, k) = 1 .. Len(p.occs)
  BY DEF positions
<1>2. Len(q.occs) = Len(p.occs)
  BY <1>1, SameEnd
<1>3. \A i \in 1 .. Len(p.occs) : positions(q, j)[i] = positions(p, k)[i]
  OBVIOUS
<1>4. QED
  BY <1>2, <1>3 DEF positions, Shifted

\* A chain ends before it has more clusters than there are.
ChainEnds(V, p, n) ==
  /\ \A k \in 1 .. n - 1 : ShiftedBy(V, p, k) # {}
  /\ ShiftedBy(V, p, n) = {}

LEMMA ChainHasEnd ==
  ASSUME NEW V, NEW files, NEW sn, NEW size, WindowClusters(V, files, sn, size), NEW p \in V
  PROVE  \E n \in 1 .. Cardinality(V) : ChainEnds(V, p, n)
<1> DEFINE C == Cardinality(V)
           Ends == {n \in 1 .. C : ShiftedBy(V, p, n) = {}}
<1>1. C \in Nat /\ IsFiniteSet(V)
  BY FS_CardinalityType DEF WindowClusters
<1>2. Ends # {}
  <2> SUFFICES ASSUME Ends = {} PROVE FALSE
    OBVIOUS
  <2> DEFINE next == [k \in 0 .. C |-> CHOOSE q \in ShiftedBy(V, p, k) : TRUE]
  <2>1. \A k \in 0 .. C : ShiftedBy(V, p, k) # {}
    <3>1. p \in ShiftedBy(V, p, 0)
      BY DEF ShiftedBy
    <3>2. \A k \in 0 .. C : k = 0 \/ k \in 1 .. C
      BY <1>1
    <3>3. QED
      BY <3>1, <3>2
  <2>2. \A k \in 0 .. C : next[k] \in ShiftedBy(V, p, k)
    BY <2>1
  <2>3. \A k \in 0 .. C : next[k] \in V /\ positions(next[k], 0) = positions(p, k)
    BY <2>2 DEF ShiftedBy
  <2>4. next \in [0 .. C -> V]
    BY <2>3
  <2> HIDE DEF next
  <2>5. IsFiniteSet(0 .. C) /\ C < Cardinality(0 .. C)
    <3> HIDE DEF C
    <3>1. IsFiniteSet(0 .. C) /\ Cardinality(0 .. C) = IF 0 > C THEN 0 ELSE C - 0 + 1
      BY <1>1, FS_Interval
    <3>2. QED
      BY <1>1, <3>1
  <2>6. PICK x \in 0 .. C, y \in 0 .. C : x # y /\ next[x] = next[y]
    BY <1>1, <2>4, <2>5, FS_PigeonHole
  <2>7. positions(next[x], 0) = positions(p, x) /\ positions(next[x], 0) = positions(p, y)
    BY <2>3, <2>6
  <2>8. positions(p, x) = positions(p, y)
    BY <2>7
  <2>9. Len(p.occs) \in Nat /\ 1 \in 1 .. Len(p.occs) /\ 1 \in DOMAIN p.occs
    <3>1. SoundOccs(p.occs, p.key, size, files, sn)
      BY DEF WindowClusters
    <3>2. Len(p.occs) \in Nat /\ Len(p.occs) >= 1 /\ DOMAIN p.occs = 1 .. Len(p.occs)
      BY <3>1 DEF SoundOccs, Sorted
    <3>3. QED
      BY <3>2
  <2>10. p.occs[1].norm_start \in Nat
    BY <2>9 DEF WindowClusters, SoundOccs, Covers
  <2>11. p.occs[1].norm_start + x = p.occs[1].norm_start + y
    <3>1. Shifted(p, p, y, x)
      BY <2>8, <2>9, ShiftIs
    <3>2. QED
      BY <2>9, <3>1 DEF Shifted
  <2>12. QED
    BY <2>6, <2>10, <2>11
<1>3. Ends \in SUBSET Nat
  OBVIOUS
<1>4. PICK n \in Ends : \A m \in Ends : n <= m
  <2> HIDE DEF Ends
  <2> QED BY <1>2, <1>3, Least
<1>5. \A k \in 1 .. n - 1 : k \in 1 .. C /\ ~(n <= k)
  <2>1. n \in 1 .. C
    OBVIOUS
  <2> HIDE DEF Ends, C
  <2>2. QED
    BY <2>1, <1>1
<1>6. ChainEnds(V, p, n)
  BY <1>4, <1>5 DEF ChainEnds
<1>7. QED
  BY <1>6

-----------------------------------------------------------------------------
(* The merged clusters.                                                    *)

\* A cluster has an occurrence, and at each of them one text, the first window of
\* which is its key.
ClusterSound(p, files, sn, size) ==
  /\ p.norm_len \in Nat /\ p.norm_len >= size
  /\ Len(p.occs) \in Nat /\ Len(p.occs) >= 1
  /\ \A i \in 1 .. Len(p.occs) :
        /\ Covers(p.occs[i], p.norm_len, files, sn)
        /\ Says(p.occs[i], size, files, sn) = p.key
        /\ Says(p.occs[i], p.norm_len, files, sn) = Says(p.occs[1], p.norm_len, files, sn)

\* The clusters of a chain, one for every line it is shifted by.
IsChain(chain, p, n, V) ==
  \A k \in 0 .. n - 1 : chain[k] \in V /\ positions(chain[k], 0) = positions(p, k)

\* The cluster over the whole span.
Joins(r, p, tail, n, size) ==
  /\ r.key = p.key /\ r.norm_len = size + n - 1
  /\ r.occs = [i \in 1 .. Len(p.occs) |-> [p.occs[i] EXCEPT !.end_line = tail.occs[i].end_line]]

LEMMA LinkIs ==
  ASSUME NEW V, NEW files, NEW sn, NEW size, WindowClusters(V, files, sn, size), NEW p \in V,
         NEW q \in V, NEW k \in Nat, positions(q, 0) = positions(p, k), NEW i \in 1 .. Len(p.occs)
  PROVE  /\ Covers(q.occs[i], size, files, sn) /\ Says(q.occs[i], size, files, sn) = q.key
         /\ Covers(p.occs[i], size, files, sn) /\ Says(p.occs[i], size, files, sn) = p.key
         /\ q.occs[i].file_idx = p.occs[i].file_idx
         /\ q.occs[i].norm_start = p.occs[i].norm_start + k
<1>1. SoundOccs(p.occs, p.key, size, files, sn) /\ SoundOccs(q.occs, q.key, size, files, sn)
  BY DEF WindowClusters
<1>2. /\ Len(p.occs) \in Nat /\ DOMAIN p.occs = 1 .. Len(p.occs)
      /\ Len(q.occs) \in Nat /\ DOMAIN q.occs = 1 .. Len(q.occs)
  BY <1>1 DEF SoundOccs, Sorted
<1>3. Shifted(p, q, 0, k)
  BY <1>2, ShiftIs
<1>4. i \in DOMAIN p.occs /\ i \in DOMAIN q.occs
  BY <1>2, <1>3 DEF Shifted
<1>5. /\ Covers(q.occs[i], size, files, sn) /\ Says(q.occs[i], size, files, sn) = q.key
      /\ Covers(p.occs[i], size, files, sn) /\ Says(p.occs[i], size, files, sn) = p.key
  BY <1>1, <1>4 DEF SoundOccs
<1>6. q.occs[i].norm_start \in Nat
  BY <1>5 DEF Covers
<1>7. /\ q.occs[i].file_idx = p.occs[i].file_idx
      /\ q.occs[i].norm_start + 0 = p.occs[i].norm_start + k
  BY <1>3 DEF Shifted
<1>8. QED
  BY <1>5, <1>6, <1>7

\* A line of the whole span is a line of one of the windows.
LEMMA LineOfLink ==
  ASSUME NEW size \in Nat, size >= 1, NEW n \in Nat, n >= 1, NEW j \in 1 .. size + n - 1
  PROVE  \E k \in 0 .. n - 1 : j - k \in 1 .. size
<1>1. CASE j <= n
  <2>1. j - 1 \in 0 .. n - 1 /\ j - (j - 1) = 1 /\ 1 \in 1 .. size
    BY <1>1
  <2>2. QED
    BY <2>1
<1>2. CASE ~(j <= n)
  <2>1. n - 1 \in 0 .. n - 1 /\ j - (n - 1) \in 1 .. size
    BY <1>2
  <2>2. QED
    BY <2>1
<1>3. QED
  BY <1>1, <1>2

\* At each occurrence the span has the lines that the windows' keys give it.
LEMMA ChainSays ==
  ASSUME NEW V, NEW files, NEW sn, NEW size \in Nat, size >= 1,
         WindowClusters(V, files, sn, size), NEW p \in V,
         NEW n \in Nat, n >= 1, NEW chain, IsChain(chain, p, n, V),
         NEW i \in 1 .. Len(p.occs), NEW h \in 1 .. Len(p.occs)
  PROVE  Says(p.occs[i], size + n - 1, files, sn) = Says(p.occs[h], size + n - 1, files, sn)
<1> DEFINE len == size + n - 1
           text(x) == TextOf(sn, files[p.occs[x].file_idx])
           start(x) == p.occs[x].norm_start
<1>1. len \in Nat
  OBVIOUS
<1>2. ASSUME NEW x \in 1 .. Len(p.occs)
      PROVE  /\ start(x) \in Nat
             /\ Says(p.occs[x], len, files, sn) = [j \in 1 .. len |-> text(x)[start(x) + j - 1].joined]
  <2>1. SoundOccs(p.occs, p.key, size, files, sn)
    BY DEF WindowClusters
  <2>2. Covers(p.occs[x], size, files, sn)
    BY <2>1 DEF SoundOccs, Sorted
  <2>3. start(x) \in Nat
    BY <2>2 DEF Covers
  <2>4. Says(p.occs[x], len, files, sn) = Segment(text(x), start(x), len)
    BY DEF Says
  <2> HIDE DEF start, text, len
  <2>5. start(x) \in Int
    BY <2>3
  <2>6. Segment(text(x), start(x), len) = [j \in 1 .. len |-> text(x)[start(x) + j - 1].joined]
    BY <1>1, <2>5, SegmentIs
  <2>7. QED
    BY <2>3, <2>4, <2>6
<1>3. ASSUME NEW x \in 1 .. Len(p.occs), NEW k \in 0 .. n - 1, NEW m \in 1 .. size
      PROVE  text(x)[start(x) + (k + m) - 1].joined = chain[k].key[m]
  <2> DEFINE q == chain[k]
  <2>1. q \in V /\ positions(q, 0) = positions(p, k) /\ k \in Nat
    BY DEF IsChain
  <2> HIDE DEF q
  <2>2. /\ Says(q.occs[x], size, files, sn) = q.key
        /\ q.occs[x].file_idx = p.occs[x].file_idx
        /\ q.occs[x].norm_start = p.occs[x].norm_start + k
    BY <2>1, LinkIs
  <2>3. q.key = Segment(text(x), start(x) + k, size)
    BY <2>2 DEF Says
  <2>4. start(x) \in Nat
    BY <1>2
  <2> HIDE DEF start, text
  <2>5. PICK from : from = start(x) + k
    OBVIOUS
  <2>6. from \in Int /\ from + m - 1 = start(x) + (k + m) - 1
    BY <2>1, <2>4, <2>5
  <2>7. q.key = Segment(text(x), from, size)
    BY <2>3, <2>5
  <2>8. q.key = [j \in 1 .. size |-> text(x)[from + j - 1].joined]
    <3>1. Segment(text(x), from, size) = [j \in 1 .. size |-> text(x)[from + j - 1].joined]
      BY <2>6, SegmentIs
    <3>2. QED
      BY <2>7, <3>1
  <2>9. q.key[m] = text(x)[from + m - 1].joined
    BY <2>8
  <2>10. QED
    BY <2>6, <2>9 DEF q
<1>4. ASSUME NEW j \in 1 .. len
      PROVE  text(i)[start(i) + j - 1].joined = text(h)[start(h) + j - 1].joined
  <2>1. PICK k \in 0 .. n - 1 : j - k \in 1 .. size
    BY LineOfLink
  <2>2. PICK m \in 1 .. size : m = j - k
    BY <2>1
  <2>3. k + m = j
    BY <2>2
  <2> HIDE DEF text, start, len
  <2>4. QED
    BY <2>3, <1>3
<1> HIDE DEF text, start, len
<1>5. Says(p.occs[i], len, files, sn) = Says(p.occs[h], len, files, sn)
  BY <1>2, <1>4
<1>6. QED
  BY <1>5 DEF len

LEMMA JoinedSound ==
  ASSUME NEW V, NEW files, NEW sn, NEW size \in Nat, size >= 1,
         WindowClusters(V, files, sn, size), NEW p \in V,
         NEW n \in Nat, n >= 1, NEW chain, IsChain(chain, p, n, V),
         NEW r, Joins(r, p, chain[n - 1], n, size)
  PROVE  ClusterSound(r, files, sn, size) /\ positions(r, 0) = positions(p, 0)
<1> DEFINE tail == chain[n - 1]
           len == size + n - 1
           N == 1 .. Len(p.occs)
<1>1. tail \in V /\ positions(tail, 0) = positions(p, n - 1) /\ n - 1 \in Nat
  BY DEF IsChain
<1>2. /\ r.key = p.key /\ r.norm_len = len
      /\ r.occs = [i \in N |-> [p.occs[i] EXCEPT !.end_line = tail.occs[i].end_line]]
  BY DEF Joins
<1>3. Len(p.occs) \in Nat /\ Len(p.occs) >= 1 /\ DOMAIN p.occs = N
  <2>1. SoundOccs(p.occs, p.key, size, files, sn)
    BY DEF WindowClusters
  <2>2. QED
    BY <2>1 DEF SoundOccs, Sorted
<1>4. len \in Nat /\ len >= size
  OBVIOUS
<1> HIDE DEF tail
<1>5. Len(r.occs) = Len(p.occs)
  <2> DEFINE S == {r.occs[i] : i \in N}
  <2>1. r.occs \in [N -> S] /\ DOMAIN r.occs = N
    BY <1>2
  <2>2. r.occs \in Seq(S)
    BY <1>3, <2>1
  <2> HIDE DEF S
  <2>3. Len(r.occs) \in Nat /\ DOMAIN r.occs = 1 .. Len(r.occs)
    BY <2>2, LenProperties
  <2>4. QED
    BY <2>1, <2>3, <1>3, SameEnd
<1>6. ASSUME NEW i \in N
      PROVE  /\ Covers(p.occs[i], size, files, sn) /\ Says(p.occs[i], size, files, sn) = p.key
             /\ Covers(tail.occs[i], size, files, sn)
             /\ tail.occs[i].file_idx = p.occs[i].file_idx
             /\ tail.occs[i].norm_start = p.occs[i].norm_start + (n - 1)
  BY <1>1, LinkIs
<1>7. ASSUME NEW i \in N
      PROVE  /\ DOMAIN r.occs[i] = OccFields
             /\ r.occs[i].repo_idx = p.occs[i].repo_idx /\ r.occs[i].file_idx = p.occs[i].file_idx
             /\ r.occs[i].norm_start = p.occs[i].norm_start
             /\ r.occs[i].start_line = p.occs[i].start_line
             /\ r.occs[i].end_line = tail.occs[i].end_line
  <2>1. r.occs[i] = [p.occs[i] EXCEPT !.end_line = tail.occs[i].end_line]
    BY <1>2
  <2>2. DOMAIN p.occs[i] = OccFields
    BY <1>6 DEF Covers
  <2>3. QED
    BY <2>1, <2>2 DEF OccFields
<1>8. ASSUME NEW i \in N, NEW l PROVE Says(r.occs[i], l, files, sn) = Says(p.occs[i], l, files, sn)
  BY <1>7 DEF Says
<1>9. ASSUME NEW i \in N PROVE Covers(r.occs[i], len, files, sn)
  <2> DEFINE o == p.occs[i]
             last == tail.occs[i]
             text == TextOf(sn, files[o.file_idx])
  <2>1. /\ o.file_idx \in DOMAIN files /\ o.repo_idx = files[o.file_idx].id[1]
        /\ o.norm_start \in Nat /\ o.norm_start >= 1
        /\ o.start_line = text[o.norm_start].line_number
    BY <1>6 DEF Covers
  <2>2. /\ last.norm_start + size - 1 <= Len(text)
        /\ last.end_line = text[last.norm_start + size - 1].line_number
    BY <1>6 DEF Covers
  <2>3. last.norm_start + size - 1 = o.norm_start + len - 1
    BY <2>1, <1>6
  <2>4. r.occs[i].end_line = text[o.norm_start + len - 1].line_number
    BY <2>2, <2>3, <1>7
  <2>5. o.norm_start + len - 1 <= Len(text)
    BY <2>2, <2>3
  <2> HIDE DEF text, last, len
  <2>6. QED
    BY <2>1, <2>4, <2>5, <1>7 DEF Covers, text
<1>10. ASSUME NEW i \in N
       PROVE  Says(r.occs[i], len, files, sn) = Says(r.occs[1], len, files, sn)
  <2>1. 1 \in N
    BY <1>3
  <2>2. Says(p.occs[i], len, files, sn) = Says(p.occs[1], len, files, sn)
    BY <2>1, ChainSays
  <2> HIDE DEF len, N
  <2>3. QED
    BY <2>1, <2>2, <1>8
<1>11. ClusterSound(r, files, sn, size)
  <2> HIDE DEF len
  <2>1. r.norm_len \in Nat /\ r.norm_len >= size /\ Len(r.occs) \in Nat /\ Len(r.occs) >= 1
    BY <1>2, <1>3, <1>4, <1>5
  <2>2. ASSUME NEW i \in N
        PROVE  /\ Covers(r.occs[i], r.norm_len, files, sn)
               /\ Says(r.occs[i], size, files, sn) = r.key
               /\ Says(r.occs[i], r.norm_len, files, sn) = Says(r.occs[1], r.norm_len, files, sn)
    <3>1. r.norm_len = len /\ r.key = p.key
      BY <1>2
    <3>2. Says(r.occs[i], size, files, sn) = r.key
      BY <3>1, <1>6, <1>8
    <3>3. Covers(r.occs[i], r.norm_len, files, sn)
      BY <3>1, <1>9
    <3>4. Says(r.occs[i], r.norm_len, files, sn) = Says(r.occs[1], r.norm_len, files, sn)
      <4> HIDE DEF N
      <4> QED BY <3>1, <1>10
    <3>5. QED
      BY <3>2, <3>3, <3>4
  <2>3. QED
    BY <2>1, <2>2, <1>5 DEF ClusterSound
<1>12. positions(r, 0) = positions(p, 0)
  BY <1>5, <1>7 DEF positions
<1>13. QED
  BY <1>11, <1>12

LEMMA WindowClusterSound ==
  ASSUME NEW V, NEW files, NEW sn, NEW size \in Nat, WindowClusters(V, files, sn, size),
         NEW p \in V
  PROVE  ClusterSound(p, files, sn, size)
<1>1. SoundOccs(p.occs, p.key, size, files, sn) /\ p.norm_len = size
  BY DEF WindowClusters
<1>2. Len(p.occs) \in Nat /\ Len(p.occs) >= 1 /\ DOMAIN p.occs = 1 .. Len(p.occs)
  BY <1>1 DEF SoundOccs, Sorted
<1>3. \A i \in 1 .. Len(p.occs) :
         Covers(p.occs[i], size, files, sn) /\ Says(p.occs[i], size, files, sn) = p.key
  BY <1>1, <1>2 DEF SoundOccs
<1>4. 1 \in 1 .. Len(p.occs)
  BY <1>2
<1>5. QED
  BY <1>1, <1>2, <1>3, <1>4 DEF ClusterSound

\* A merged cluster stands for a cluster that none precedes by a line.
StandsFor(r, V, files, sn, size) ==
  /\ ClusterSound(r, files, sn, size)
  /\ \E p \in V : ShiftedBy(V, p, -1) = {} /\ positions(r, 0) = positions(p, 0)

LinkOf(V, p, k) == CHOOSE q \in ShiftedBy(V, p, k) : TRUE

ChainLength(V, p) ==
  CHOOSE n \in 1 .. Cardinality(V) : /\ \A k \in 1 .. n - 1 : ShiftedBy(V, p, k) # {}
                                     /\ ShiftedBy(V, p, n) = {}

Chained(V, p, size) ==
  LET n == ChainLength(V, p)
      tail == LinkOf(V, p, n - 1)
  IN  [key |-> p.key,
       occs |-> [i \in 1 .. Len(p.occs) |-> [p.occs[i] EXCEPT !.end_line = tail.occs[i].end_line]],
       norm_len |-> size + n - 1,
       member_keys |-> [k \in 1 .. n |-> LinkOf(V, p, k - 1).key]]

LEMMA MergedIs ==
  ASSUME NEW V, NEW size, NEW r \in merge_overlapping(V, size)
  PROVE  \E p \in V :
            /\ ShiftedBy(V, p, -1) = {}
            /\ \/ ChainLength(V, p) = 1 /\ r = p
               \/ Joins(r, p, LinkOf(V, p, ChainLength(V, p) - 1), ChainLength(V, p), size)
<1>1. merge_overlapping(V, size) =
         {IF ChainLength(V, p) = 1 THEN p ELSE Chained(V, p, size) :
             p \in {h \in V : ShiftedBy(V, h, -1) = {}}}
  BY DEF merge_overlapping, ChainLength, LinkOf, Chained
<1>2. PICK p \in V : /\ ShiftedBy(V, p, -1) = {}
                     /\ r = IF ChainLength(V, p) = 1 THEN p ELSE Chained(V, p, size)
  BY <1>1
<1>3. Joins(Chained(V, p, size), p, LinkOf(V, p, ChainLength(V, p) - 1), ChainLength(V, p), size)
  BY DEF Chained, Joins
<1>4. QED
  BY <1>2, <1>3

LEMMA MergedSound ==
  ASSUME NEW V, NEW files, NEW sn, NEW size \in Nat, size >= 1,
         WindowClusters(V, files, sn, size), NEW r \in merge_overlapping(V, size)
  PROVE  StandsFor(r, V, files, sn, size)
<1>1. PICK p \in V :
         /\ ShiftedBy(V, p, -1) = {}
         /\ \/ ChainLength(V, p) = 1 /\ r = p
            \/ Joins(r, p, LinkOf(V, p, ChainLength(V, p) - 1), ChainLength(V, p), size)
  BY MergedIs
<1>2. CASE r = p
  BY <1>1, <1>2, WindowClusterSound DEF StandsFor
<1>3. CASE r # p
  <2> DEFINE n == ChainLength(V, p)
             chain == [k \in 0 .. n - 1 |-> LinkOf(V, p, k)]
  <2>1. n \in 1 .. Cardinality(V) /\ ChainEnds(V, p, n)
    <3>1. \E m \in 1 .. Cardinality(V) : ChainEnds(V, p, m)
      BY ChainHasEnd
    <3>2. QED
      BY <3>1 DEF ChainLength, ChainEnds
  <2>2. Cardinality(V) \in Nat
    BY FS_CardinalityType DEF WindowClusters
  <2> HIDE DEF n
  <2>3. n \in Nat /\ n >= 1 /\ n - 1 \in 0 .. n - 1
    BY <2>1, <2>2
  <2>4. IsChain(chain, p, n, V)
    <3>1. p \in ShiftedBy(V, p, 0)
      BY DEF ShiftedBy
    <3>2. ASSUME NEW k \in 0 .. n - 1 PROVE ShiftedBy(V, p, k) # {}
      <4>1. k = 0 \/ k \in 1 .. n - 1
        OBVIOUS
      <4>2. QED
        BY <4>1, <3>1, <2>1 DEF ChainEnds
    <3>3. \A k \in 0 .. n - 1 : chain[k] \in ShiftedBy(V, p, k)
      BY <3>2 DEF LinkOf
    <3> HIDE DEF chain
    <3>4. QED
      BY <3>3 DEF IsChain, ShiftedBy
  <2>5. Joins(r, p, chain[n - 1], n, size)
    BY <1>1, <1>3, <2>3 DEF n
  <2> HIDE DEF chain
  <2>6. ClusterSound(r, files, sn, size) /\ positions(r, 0) = positions(p, 0)
    BY <2>3, <2>4, <2>5, JoinedSound
  <2>7. QED
    BY <1>1, <2>6 DEF StandsFor
<1>4. QED
  BY <1>2, <1>3

\* No merged cluster is another one shifted by a line.
LEMMA MergedApart ==
  ASSUME NEW V, NEW files, NEW sn, NEW size \in Nat, WindowClusters(V, files, sn, size),
         NEW P, \A r \in P : StandsFor(r, V, files, sn, size), NEW a \in P
  PROVE  ShiftedBy(P, a, 1) = {}
<1> SUFFICES ASSUME NEW b \in P, positions(b, 0) = positions(a, 1) PROVE FALSE
  BY DEF ShiftedBy
<1>1. PICK q \in V : ShiftedBy(V, q, -1) = {} /\ positions(b, 0) = positions(q, 0)
  BY DEF StandsFor
<1>2. PICK p \in V : positions(a, 0) = positions(p, 0)
  BY DEF StandsFor
<1>3. /\ Len(a.occs) \in Nat /\ Len(b.occs) \in Nat
      /\ \A i \in 1 .. Len(a.occs) : a.occs[i].norm_start \in Nat
      /\ \A i \in 1 .. Len(b.occs) : b.occs[i].norm_start \in Nat
  BY DEF StandsFor, ClusterSound, Covers
<1>4. \A s \in V : Len(s.occs) \in Nat /\ \A i \in 1 .. Len(s.occs) : s.occs[i].norm_start \in Nat
  BY WindowClusterSound DEF ClusterSound, Covers
<1>5. Shifted(a, b, 0, 1) /\ Shifted(q, b, 0, 0) /\ Shifted(p, a, 0, 0)
  BY <1>1, <1>2, <1>3, <1>4, ShiftIs
<1>6. Len(p.occs) = Len(q.occs)
  BY <1>5 DEF Shifted
<1>7. ASSUME NEW i \in 1 .. Len(q.occs)
      PROVE  /\ p.occs[i].repo_idx = q.occs[i].repo_idx /\ p.occs[i].file_idx = q.occs[i].file_idx
             /\ p.occs[i].norm_start + 0 = q.occs[i].norm_start + (-1)
  <2>1. i \in 1 .. Len(a.occs) /\ i \in 1 .. Len(b.occs) /\ i \in 1 .. Len(p.occs)
    BY <1>5 DEF Shifted
  <2>2. /\ a.occs[i].norm_start \in Nat /\ b.occs[i].norm_start \in Nat
        /\ p.occs[i].norm_start \in Nat /\ q.occs[i].norm_start \in Nat
    BY <2>1, <1>3, <1>4
  <2>3. /\ b.occs[i].norm_start + 0 = a.occs[i].norm_start + 1
        /\ b.occs[i].norm_start + 0 = q.occs[i].norm_start + 0
        /\ a.occs[i].norm_start + 0 = p.occs[i].norm_start + 0
    BY <2>1, <1>5 DEF Shifted
  <2>4. p.occs[i].repo_idx = q.occs[i].repo_idx /\ p.occs[i].file_idx = q.occs[i].file_idx
    BY <2>1, <1>5 DEF Shifted
  <2>5. p.occs[i].norm_start + 0 = q.occs[i].norm_start + (-1)
    <3> DEFINE x == a.occs[i].norm_start
               y == b.occs[i].norm_start
               z == p.occs[i].norm_start
               u == q.occs[i].norm_start
    <3>1. x \in Nat /\ y \in Nat /\ z \in Nat /\ u \in Nat
      BY <2>2
    <3>2. y + 0 = x + 1 /\ y + 0 = u + 0 /\ x + 0 = z + 0
      BY <2>3
    <3> HIDE DEF x, y, z, u
    <3>3. z + 0 = u + (-1)
      BY <3>1, <3>2
    <3>4. QED
      BY <3>3 DEF z, u
  <2>6. QED
    BY <2>4, <2>5
<1>8. positions(p, 0) = positions(q, -1)
  BY <1>6, <1>7 DEF positions
<1>9. p \in ShiftedBy(V, q, -1)
  BY <1>8 DEF ShiftedBy
<1>10. QED
  BY <1>1, <1>9

\* What the clusters of a sound index are.
LEMMA ProtoClustersSound ==
  ASSUME NEW files, NEW sn, NEW index, NEW size \in Nat, size >= 1, NEW opts,
         IsFiniteSet(DOMAIN index),
         \A k \in DOMAIN index : SoundOccs(index[k], k, size, files, sn)
  PROVE  LET P == ProtoClusters(index, size, opts)
         IN  /\ \A p \in P : ClusterSound(p, files, sn, size)
             /\ opts.merge_overlaps => \A p \in P : ShiftedBy(P, p, 1) = {}
<1> DEFINE V == Survivors(index, size, opts)
           P == ProtoClusters(index, size, opts)
           all == {SortOccs(p) : p \in V}
<1>1. WindowClusters(V, files, sn, size) /\ all = V
  BY SurvivorsSound
<1>2. P = IF opts.merge_overlaps THEN merge_overlapping(all, size) ELSE V
  BY DEF ProtoClusters
<1> HIDE DEF V, P, all
<1>3. CASE opts.merge_overlaps
  <2>1. P = merge_overlapping(V, size)
    BY <1>1, <1>2, <1>3
  <2>2. \A r \in P : StandsFor(r, V, files, sn, size)
    BY <1>1, <2>1, MergedSound
  <2>3. \A p \in P : ShiftedBy(P, p, 1) = {}
    BY <1>1, <2>2, MergedApart
  <2>4. QED
    BY <2>2, <2>3 DEF StandsFor, P
<1>4. CASE ~opts.merge_overlaps
  <2>1. \A p \in P : ClusterSound(p, files, sn, size)
    BY <1>1, <1>2, <1>4, WindowClusterSound
  <2>2. QED
    BY <1>4, <2>1 DEF P
<1>5. QED
  BY <1>3, <1>4 DEF P

-----------------------------------------------------------------------------
(* The invariant of the report: what is read back and what is made of it.   *)

SeenIsText ==
  /\ edits \in Nat
  /\ \A f \in FileIds : seen[f] \in Texts \cup {NotRead}
  /\ edits = 0 => \A f \in FileIds : seen[f] \in {NotRead, disk[OnDiskAs(f)]}

\* The text read back for a cluster: what some contents say where its first
\* occurrence is, and while nothing is edited those that were scanned.
ReadBack(p, text, files, sn, size, quiet) ==
  \E c \in Texts :
     LET lines == normalized_lines(c)
         start == p.occs[1].norm_start
     IN  /\ text = WindowAt(lines, start, p.norm_len)
         /\ start + p.norm_len - 1 <= Len(lines)
         /\ Segment(lines, start, size) = p.key
         /\ quiet => c = sn[files[HeadFile(p)].id]

Folded ==
  /\ phase = "scan" => DOMAIN recon = {}
  /\ phase \in {"reconstruct", "done"} =>
       /\ folded.protos = ProtoClusters(folded.index, WindowLines, options)
       /\ DOMAIN recon \subseteq folded.protos
       /\ \A p \in DOMAIN recon :
             \/ recon[p] = Vanished
             \/ ReadBack(p, recon[p], folded.files, seen, WindowLines, edits = 0)

Reported ==
  phase = "done" =>
    \A c \in report.clusters : \E p \in DOMAIN recon :
       recon[p] # Vanished /\ c = build_cluster(p, recon[p], folded.files, options, WindowLines)

ReportInv == SeenIsText /\ Folded /\ Reported

\* What stands on the disk.
LEMMA OnDiskText ==
  ASSUME ClaimInv, ScanInv, NEW f \in FileIds
  PROVE  disk[OnDiskAs(f)] \in Texts \cup {Gone, Binary} /\ OnDiskAs(f) \in DOMAIN disk
<1>1. f[1] \in Repos /\ f[2] \in DOMAIN Tree(f[1]).files
  BY FilesAre DEF ClaimInv
<1>2. /\ roots[f[1]].checkout \in DOMAIN Repositories
      /\ DOMAIN Tree(f[1]).files = DOMAIN Repositories[roots[f[1]].checkout].files
  BY <1>1, FilesAre DEF ClaimInv
<1>3. OnDiskAs(f) \in DOMAIN disk
  BY <1>1, <1>2 DEF ScanInv, ScanShape, OnDiskAs
<1>4. QED
  BY <1>3 DEF ScanInv, ScanShape

\* The clusters that were folded.
LEMMA FoldedClusters ==
  ASSUME ClaimInv, ScanInv, SeenIsText,
         NEW files, NEW index, SoundTable(files, index, FileIds, Entries, seen, options),
         NEW P, P = ProtoClusters(index, WindowLines, options)
  PROVE  /\ \A p \in P : ClusterSound(p, files, seen, WindowLines)
         /\ options.merge_overlaps => \A p \in P : ShiftedBy(P, p, 1) = {}
<1>1. SizeOf(options) = WindowLines /\ WindowLines \in Nat /\ WindowLines >= 1
  BY SizeIs DEF ClaimInv, ScanInv
<1>2. \A f \in FileIds : f[1] \in Nat
  BY FilesAre, RootsShape DEF ClaimInv
<1>3. \A f \in FileIds : seen[f] # NotRead => Len(TextOf(seen, [id |-> f])) \in Nat
  BY LinesCounted DEF SeenIsText, TextOf
<1>4. \A k \in DOMAIN index : SoundOccs(index[k], k, SizeOf(options), files, seen)
  BY <1>1, <1>2, <1>3, IndexSound
<1>5. IsFiniteSet(DOMAIN index)
  BY <1>1, <1>3, IndexFinite
<1>6. \A k \in DOMAIN index : SoundOccs(index[k], k, WindowLines, files, seen)
  BY <1>1, <1>4
<1>7. QED
  BY <1>1, <1>5, <1>6, ProtoClustersSound

\* The file of the first occurrence of a cluster.
LEMMA OccurrenceFile ==
  ASSUME ClaimInv, ScanInv, SeenIsText,
         NEW files, NEW index, SoundTable(files, index, FileIds, Entries, seen, options),
         NEW p, NEW size, ClusterSound(p, files, seen, size), NEW i \in 1 .. Len(p.occs)
  PROVE  LET e == files[p.occs[i].file_idx]
         IN  /\ p.occs[i].file_idx \in DOMAIN files
             /\ e.id \in FileIds /\ e = FileEntry(e.id) /\ seen[e.id] \in Texts
<1> DEFINE n == p.occs[i].file_idx
<1>1. Covers(p.occs[i], p.norm_len, files, seen)
  BY DEF ClusterSound
<1>2. n \in DOMAIN files
  BY <1>1 DEF Covers
<1>3. files[n].id \in FileIds /\ seen[files[n].id] # NotRead /\ files[n] \in Entries
  <2>1. {files[m].id : m \in DOMAIN files} = {f \in FileIds : seen[f] # NotRead}
        /\ files \in Seq(Entries)
    BY DEF SoundTable
  <2> HIDE DEF n
  <2>2. QED
    BY <1>2, <2>1
<1>4. PICK f \in FileIds : files[n] = FileEntry(f)
  BY <1>3 DEF Entries
<1>5. files[n].id = f
  BY <1>4 DEF FileEntry
<1>6. QED
  BY <1>2, <1>3, <1>4, <1>5 DEF SeenIsText

-----------------------------------------------------------------------------
(* Its steps.                                                              *)

LEMMA InitReportInv == Init => ReportInv
<1> SUFFICES ASSUME Init PROVE ReportInv
  OBVIOUS
<1>1. SeenIsText
  BY DEF Init, SeenIsText
<1>2. DOMAIN recon = {} /\ phase \in {"scan", "failed"}
  BY DEF Init
<1>3. QED
  BY <1>1, <1>2 DEF ReportInv, Folded, Reported

LEMMA CurrentFileKnown ==
  ASSUME ClaimInv, ScanInv, NEW w \in Workers, Read(w)
  PROVE  CurrentFile(w) \in FileIds
<1>1. pc[w] = "read" /\ Holding(w)
  BY DEF Read, Holding
<1>2. WorkerSound(w)
  BY DEF ScanInv, WorkersSound
<1>3. todo[w] \subseteq DOMAIN Tree(RepoOf(w)).files /\ todo[w] # {}
  BY <1>1, <1>2 DEF WorkerSound, Ahead
<1>4. RepoOf(w) \in Repos
  BY <1>1 DEF ClaimInv, Claimed
<1>5. /\ DOMAIN Tree(RepoOf(w)).files \subseteq Nat
      /\ \A n \in DOMAIN Tree(RepoOf(w)).files : <<RepoOf(w), n>> \in FileIds
  BY <1>4, FilesAre DEF ClaimInv
<1>6. Min(todo[w]) \in todo[w]
  <2>1. todo[w] \in SUBSET Nat
    BY <1>3, <1>5
  <2>2. QED
    BY <1>3, <2>1, MinOf
<1>7. QED
  BY <1>3, <1>5, <1>6 DEF CurrentFile, RepoOf

LEMMA WorkerReports ==
  ASSUME ClaimInv, ScanInv, ReportInv, NEW w \in Workers, WorkerStep(w)
  PROVE  ReportInv'
<1>1. UNCHANGED <<inputs, disk, edits, phase, folded, recon, report>>
  BY DEF WorkerStep, Claim, Discover, Stat, Read, Push, coordinator
<1>2. FileIds' = FileIds /\ options' = options /\ roots' = roots
  BY <1>1, FilesStay DEF inputs
<1>3. pc[w] # "exit"
  BY DEF WorkerStep, Claim, Discover, Stat, Read, Push
<1>4. phase = "scan"
  BY <1>3 DEF ClaimInv, Exhausted, Joined
<1>5. \A f \in FileIds : OnDiskAs(f)' = OnDiskAs(f)
  BY <1>2 DEF OnDiskAs
<1>6. SeenIsText'
  <2>1. CASE seen' = seen
    BY <1>1, <1>2, <1>5, <2>1 DEF ReportInv, SeenIsText
  <2>2. CASE seen' # seen
    <3> DEFINE f == CurrentFile(w)
               contents == disk[OnDiskAs(f)]
    <3>1. Read(w)
      BY <2>2 DEF WorkerStep, Claim, Discover, Stat, Push
    <3>2. seen' = [seen EXCEPT ![f] = contents] /\ contents \notin {Gone, Binary}
      BY <2>2, <3>1 DEF Read
    <3>3. DOMAIN seen = FileIds
      BY DEF ScanInv, ScanShape
    <3>4. f \in FileIds
      BY <3>1, CurrentFileKnown
    <3>5. contents \in Texts
      BY <3>2, <3>4, OnDiskText
    <3> HIDE DEF f
    <3>6. \A g \in FileIds : seen'[g] = IF g = f THEN contents ELSE seen[g]
      BY <3>2, <3>3
    <3>7. QED
      BY <1>1, <1>2, <1>5, <3>5, <3>6 DEF ReportInv, SeenIsText
  <2>3. QED
    BY <2>1, <2>2
<1>7. QED
  BY <1>1, <1>4, <1>6 DEF ReportInv, Folded, Reported

\* The steps after which the trees and what was scanned of them are as before.
LEMMA SeenStays ==
  ASSUME ReportInv, UNCHANGED <<inputs, disk, edits, seen>>
  PROVE  SeenIsText'
<1>1. FileIds' = FileIds /\ roots' = roots
  BY FilesStay DEF inputs
<1>2. QED
  BY <1>1 DEF ReportInv, SeenIsText, OnDiskAs

LEMMA FoldReports ==
  ASSUME ClaimInv, ScanInv, ReportInv, Fold
  PROVE  ReportInv'
<1>1. /\ UNCHANGED <<inputs, disk, edits, recon, seen>>
      /\ phase = "scan" /\ phase' = "reconstruct"
  BY DEF Fold
<1>2. WindowLines' = WindowLines /\ options' = options
  BY <1>1 DEF inputs, WindowLines
<1>3. folded'.protos = ProtoClusters(folded'.index, WindowLines, options)
  BY DEF Fold
<1>4. DOMAIN recon' = {}
  BY <1>1 DEF ReportInv, Folded
<1>5. SeenIsText'
  BY <1>1, SeenStays
<1>6. QED
  BY <1>1, <1>2, <1>3, <1>4, <1>5 DEF ReportInv, Folded, Reported

LEMMA ReconstructReports ==
  ASSUME ClaimInv, ScanInv, ReportInv, ReconstructFile
  PROVE  ReportInv'
<1> DEFINE left == folded.protos \ DOMAIN recon
           next == Min({HeadFile(p) : p \in left})
           contents == disk[OnDiskAs(folded.files[next].id)]
           here == {p \in left : HeadFile(p) = next}
           files == folded.files
<1>1. /\ UNCHANGED <<inputs, disk, edits, phase, folded, seen>> /\ phase = "reconstruct"
      /\ recon' = [p \in DOMAIN recon \cup here |->
                      IF p \in here THEN Reconstructed(p, contents) ELSE recon[p]]
  BY DEF ReconstructFile
<1>2. WindowLines' = WindowLines /\ options' = options
  BY <1>1 DEF inputs, WindowLines
<1>3. /\ folded.protos = ProtoClusters(folded.index, WindowLines, options)
      /\ DOMAIN recon \subseteq folded.protos
      /\ \A p \in DOMAIN recon :
            recon[p] = Vanished \/ ReadBack(p, recon[p], files, seen, WindowLines, edits = 0)
  BY <1>1 DEF ReportInv, Folded
<1>4. SoundTable(files, folded.index, FileIds, Entries, seen, options)
  BY <1>1 DEF ScanInv, FoldSound
<1>5. \A p \in folded.protos : ClusterSound(p, files, seen, WindowLines)
  BY <1>3, <1>4, FoldedClusters DEF ReportInv
<1>6. ASSUME NEW p \in here
      PROVE  \/ Reconstructed(p, contents) = Vanished
             \/ ReadBack(p, Reconstructed(p, contents), files, seen, WindowLines, edits = 0)
  <2> DEFINE f == files[next].id
             lines == normalized_lines(contents)
             start == p.occs[1].norm_start
             len == p.norm_len
  <2> SUFFICES ASSUME Reconstructed(p, contents) # Vanished
               PROVE  ReadBack(p, Reconstructed(p, contents), files, seen, WindowLines, edits = 0)
    OBVIOUS
  <2>1. ClusterSound(p, files, seen, WindowLines) /\ HeadFile(p) = next
    BY <1>5
  <2>2. 1 \in 1 .. Len(p.occs) /\ p.occs[1].file_idx = next
    <3>1. Len(p.occs) \in Nat /\ Len(p.occs) >= 1
      BY <2>1 DEF ClusterSound
    <3>2. p.occs[1].file_idx = next
      BY <2>1 DEF HeadFile
    <3> HIDE DEF next
    <3>3. QED
      BY <3>1, <3>2
  <2>3. f \in FileIds /\ seen[f] \in Texts
    <3> HIDE DEF next
    <3> QED BY <1>4, <2>1, <2>2, OccurrenceFile DEF ReportInv
  <2> HIDE DEF next, here, left
  <2>4. /\ contents \notin {Gone, Binary}
        /\ start + len - 1 <= Len(lines)
        /\ window_key(SubSeq(lines, start, start + WindowLines - 1)) = p.key
        /\ Reconstructed(p, contents) = SubSeq(lines, start, start + len - 1)
    BY DEF Reconstructed
  <2>5. contents \in Texts
    BY <2>3, <2>4, OnDiskText
  <2>6. edits = 0 => contents = seen[f]
    BY <2>3, TextsAssumption DEF ReportInv, SeenIsText
  <2>7. /\ Segment(lines, start, WindowLines) = p.key
        /\ Reconstructed(p, contents) = WindowAt(lines, start, len)
    BY <2>4 DEF Segment, WindowAt
  <2> HIDE DEF f, contents
  <2>8. QED
    BY <2>1, <2>4, <2>5, <2>6, <2>7 DEF ReadBack, f
<1>7. /\ DOMAIN recon' \subseteq folded.protos
      /\ \A p \in DOMAIN recon' :
            recon'[p] = Vanished \/ ReadBack(p, recon'[p], files, seen, WindowLines, edits = 0)
  <2> HIDE DEF next, contents
  <2>1. here \subseteq folded.protos
    OBVIOUS
  <2> HIDE DEF here, left
  <2>2. DOMAIN recon' = DOMAIN recon \cup here
    BY <1>1
  <2>3. \A p \in DOMAIN recon' : recon'[p] = IF p \in here THEN Reconstructed(p, contents)
                                           ELSE recon[p]
    BY <1>1, <2>2
  <2>4. QED
    BY <1>3, <1>6, <2>1, <2>2, <2>3
<1>8. Folded'
  BY <1>1, <1>2, <1>3, <1>7 DEF Folded
<1>9. SeenIsText'
  BY <1>1, SeenStays
<1>10. QED
  BY <1>1, <1>8, <1>9 DEF ReportInv, Reported

LEMMA FinalizeReports ==
  ASSUME ClaimInv, ScanInv, ReportInv, Finalize
  PROVE  ReportInv'
<1> DEFINE kept == {p \in folded.protos : recon[p] # Vanished}
           clusters == {build_cluster(p, recon[p], folded.files, options, WindowLines) : p \in kept}
<1>1. /\ UNCHANGED <<inputs, disk, edits, folded, recon, seen>>
      /\ phase = "reconstruct" /\ phase' = "done" /\ folded.protos = DOMAIN recon
      /\ report'.clusters \in Truncations(clusters, options)
  BY DEF Finalize
<1>2. WindowLines' = WindowLines /\ options' = options
  BY <1>1 DEF inputs, WindowLines
<1>3. report'.clusters \subseteq clusters
  BY <1>1 DEF Truncations, kSubset
<1>4. Reported'
  <2> SUFFICES ASSUME NEW c \in report'.clusters
               PROVE  \E p \in DOMAIN recon : /\ recon[p] # Vanished
                         /\ c = build_cluster(p, recon[p], folded.files, options, WindowLines)
    BY <1>1, <1>2 DEF Reported
  <2>1. QED
    BY <1>1, <1>3
<1>5. Folded'
  BY <1>1, <1>2 DEF ReportInv, Folded
<1>6. SeenIsText'
  BY <1>1, SeenStays
<1>7. QED
  BY <1>4, <1>5, <1>6 DEF ReportInv

LEMMA EditReports ==
  ASSUME ReportInv, NEW f, NEW c, Edit(f, c)
  PROVE  ReportInv'
<1>1. UNCHANGED <<inputs, phase, folded, recon, report, seen>> /\ edits' = edits + 1
  BY DEF Edit, coordinator
<1>2. FileIds' = FileIds /\ WindowLines' = WindowLines /\ options' = options
  BY <1>1, FilesStay DEF inputs, WindowLines
<1>3. edits' \in Nat /\ ~(edits' = 0)
  BY <1>1 DEF ReportInv, SeenIsText
<1>4. SeenIsText'
  BY <1>1, <1>2, <1>3 DEF ReportInv, SeenIsText
<1>5. ASSUME NEW p, NEW text, ReadBack(p, text, folded.files, seen, WindowLines, edits = 0)
      PROVE  ReadBack(p, text, folded.files, seen, WindowLines, edits' = 0)
  BY <1>3, <1>5 DEF ReadBack
<1>6. Folded'
  BY <1>1, <1>2, <1>5 DEF ReportInv, Folded
<1>7. QED
  BY <1>1, <1>2, <1>4, <1>6 DEF ReportInv, Reported

LEMMA NextReportInv == ClaimInv /\ ScanInv /\ ReportInv /\ [Next]_vars => ReportInv'
<1> SUFFICES ASSUME ClaimInv, ScanInv, ReportInv, [Next]_vars PROVE ReportInv'
  OBVIOUS
<1>1. ASSUME NEW w \in Workers, WorkerStep(w) PROVE ReportInv'
  BY <1>1, WorkerReports
<1>2. CASE Fail
  <2>1. UNCHANGED <<inputs, disk, edits, seen>> /\ phase' = "failed"
    BY <1>2 DEF Fail
  <2>2. QED
    BY <2>1, SeenStays DEF ReportInv, Folded, Reported
<1>3. CASE UNCHANGED vars
  <2>1. UNCHANGED <<inputs, disk, edits, seen, phase, folded, recon, report>>
    BY <1>3 DEF vars
  <2>2. WindowLines' = WindowLines /\ options' = options
    BY <2>1 DEF inputs, WindowLines
  <2>3. QED
    BY <2>1, <2>2, SeenStays DEF ReportInv, Folded, Reported
<1>4. ASSUME NEW f \in FileIds, NEW c \in Revisions \cup {Gone}, Edit(f, c)
      PROVE  ReportInv'
  BY <1>4, EditReports
<1>5. QED
  BY <1>1, <1>2, <1>3, <1>4, FoldReports, ReconstructReports, FinalizeReports
     DEF Next, CoordinatorStep, Finished

-----------------------------------------------------------------------------
(* The rows of the report.                                                 *)

LEMMA KeptAreThere ==
  ASSUME NEW occs, Len(occs) \in Nat, NEW opts
  PROVE  KeptOccurrences(occs, opts) \subseteq 1 .. Len(occs)
<1>1. CASE opts.compat_v1
  <2> DEFINE S == {Len(occs), KEPT_V1}
  <2>1. S \in SUBSET Nat /\ S # {}
    BY KeptAssumption
  <2>2. Min(S) \in S /\ \A n \in S : Min(S) <= n
    <3> HIDE DEF S
    <3> QED BY <2>1, MinOf
  <2>3. Min(S) \in Nat /\ Min(S) <= Len(occs)
    BY <2>1, <2>2
  <2>4. KeptOccurrences(occs, opts) = 1 .. Min(S)
    BY <1>1 DEF KeptOccurrences
  <2> HIDE DEF S
  <2>5. QED
    BY <2>3, <2>4
<1>2. CASE ~opts.compat_v1
  BY <1>2 DEF KeptOccurrences
<1>3. QED
  BY <1>1, <1>2

\* The first lines of a text.
LEMMA SegmentHead ==
  ASSUME NEW text, NEW s \in Int, NEW len \in Nat, NEW size \in Nat, size <= len
  PROVE  SubSeq(Segment(text, s, len), 1, size) = Segment(text, s, size)
<1> DEFINE whole == Segment(text, s, len)
           S == {whole[k] : k \in 1 .. len}
<1>1. whole = [k \in 1 .. len |-> text[s + k - 1].joined]
  BY SegmentIs
<1>2. Segment(text, s, size) = [k \in 1 .. size |-> text[s + k - 1].joined]
  BY SegmentIs
<1> HIDE DEF whole
<1>3. \A k \in 1 .. size : k \in 1 .. len /\ 1 + k - 1 = k
  OBVIOUS
<1>4. \A k \in 1 .. size : whole[k] = text[s + k - 1].joined
  BY <1>1, <1>3
<1>5. SubSeq(whole, 1, size) \in Seq(S)
  <2>1. \A k \in 1 .. size : whole[k] \in S
    BY <1>3
  <2> HIDE DEF S
  <2>2. QED
    BY <2>1, SubSeqProperties
<1> DEFINE first == SubSeq(whole, 1, size)
<1>6. /\ Len(first) = IF 1 <= size THEN size - 1 + 1 ELSE 0
      /\ \A k \in 1 .. size - 1 + 1 : first[k] = whole[1 + k - 1]
  BY SubSeqIs
<1> HIDE DEF first, S
<1>7. Len(first) = size /\ \A k \in 1 .. size : first[k] = whole[k]
  <2>1. size - 1 + 1 = size /\ (1 <= size \/ size = 0)
    OBVIOUS
  <2>2. QED
    BY <1>3, <1>6, <2>1
<1>8. first = [k \in 1 .. size |-> first[k]]
  BY <1>5, <1>7, LenProperties DEF first
<1>9. first = Segment(text, s, size)
  BY <1>2, <1>4, <1>7, <1>8
<1>10. QED
  BY <1>9 DEF first, whole

\* A row says of an occurrence of its cluster where it is and what was read there.
RowOf(c, o, p, i, f) ==
  /\ ClusterSound(p, folded.files, seen, WindowLines) /\ i \in 1 .. Len(p.occs)
  /\ f \in FileIds /\ seen[f] \in Texts
  /\ roots[f[1]].id = o.repo_id /\ FileOf(f).rel = o.path
  /\ TextAt(seen[f], o.start_line, o.end_line) = Says(p.occs[i], p.norm_len, folded.files, seen)
  /\ \E x \in Texts :
        LET lines == normalized_lines(x)
            start == p.occs[1].norm_start
        IN  /\ c.fingerprint = Segment(lines, start, p.norm_len)
            /\ Segment(lines, start, WindowLines) = p.key
            /\ edits = 0 => x = seen[folded.files[HeadFile(p)].id]

LEMMA RowsAre ==
  ASSUME ClaimInv, ScanInv, ReportInv, phase = "done", NEW c \in report.clusters,
         NEW o \in c.occurrences
  PROVE  \E p \in folded.protos, f \in FileIds : \E i \in 1 .. Len(p.occs) : RowOf(c, o, p, i, f)
<1> DEFINE files == folded.files
<1>1. /\ folded.protos = ProtoClusters(folded.index, WindowLines, options)
      /\ DOMAIN recon \subseteq folded.protos
      /\ \A p \in DOMAIN recon :
            recon[p] = Vanished \/ ReadBack(p, recon[p], files, seen, WindowLines, edits = 0)
  BY DEF ReportInv, Folded
<1>2. SoundTable(files, folded.index, FileIds, Entries, seen, options)
  BY DEF ScanInv, FoldSound
<1>3. PICK p \in DOMAIN recon :
         recon[p] # Vanished /\ c = build_cluster(p, recon[p], files, options, WindowLines)
  BY DEF ReportInv, Reported
<1>4. p \in folded.protos /\ ReadBack(p, recon[p], files, seen, WindowLines, edits = 0)
  BY <1>1, <1>3
<1>5. ClusterSound(p, files, seen, WindowLines)
  BY <1>1, <1>2, <1>4, FoldedClusters DEF ReportInv
<1>6. c.fingerprint = window_key(recon[p])
  BY <1>3 DEF build_cluster
<1>7. PICK i \in KeptOccurrences(p.occs, options) :
         o = [repo_id |-> files[p.occs[i].file_idx].repo_id,
              path |-> files[p.occs[i].file_idx].rel,
              start_line |-> p.occs[i].start_line, end_line |-> p.occs[i].end_line]
  BY <1>3 DEF build_cluster
<1>8. i \in 1 .. Len(p.occs)
  BY <1>5, KeptAreThere DEF ClusterSound
<1> DEFINE f == files[p.occs[i].file_idx].id
           text == normalized_lines(seen[f])
           s == p.occs[i].norm_start
           len == p.norm_len
<1>9. /\ f \in FileIds /\ seen[f] \in Texts
      /\ files[p.occs[i].file_idx] = FileEntry(f)
  BY <1>2, <1>5, <1>8, OccurrenceFile DEF ReportInv
<1>10. o.repo_id = roots[f[1]].id /\ o.path = FileOf(f).rel
  <2> HIDE DEF f
  <2>1. QED
    BY <1>7, <1>9 DEF FileEntry
<1>11. TextAt(seen[f], o.start_line, o.end_line) = Says(p.occs[i], len, files, seen)
  <2>1. Covers(p.occs[i], len, files, seen) /\ len \in Nat /\ len >= WindowLines
    BY <1>5, <1>8 DEF ClusterSound
  <2>2. TextOf(seen, files[p.occs[i].file_idx]) = text
    BY DEF TextOf
  <2> HIDE DEF text, f
  <2>3. /\ s \in Nat /\ s >= 1 /\ s + len - 1 <= Len(text)
        /\ o.start_line = text[s].line_number /\ o.end_line = text[s + len - 1].line_number
    BY <2>1, <2>2, <1>7 DEF Covers
  <2>4. Says(p.occs[i], len, files, seen) = Segment(text, s, len)
    BY <2>2 DEF Says
  <2>5. len >= 1
    BY <2>1, SizeIs DEF ClaimInv, ScanInv
  <2>6. Len(seen[f]) \in Nat
    BY <1>9, TextsAssumption
  <2>7. text = normalized_lines(seen[f])
    BY DEF text
  <2> HIDE DEF s, len
  <2>8. TextAt(seen[f], text[s].line_number, text[s + len - 1].line_number) = Segment(text, s, len)
    BY <2>1, <2>3, <2>5, <2>6, <2>7, SpanIs
  <2>9. QED
    BY <2>3, <2>4, <2>8
<1>12. \E x \in Texts :
          LET lines == normalized_lines(x)
              start == p.occs[1].norm_start
          IN  /\ c.fingerprint = Segment(lines, start, p.norm_len)
              /\ Segment(lines, start, WindowLines) = p.key
              /\ edits = 0 => x = seen[files[HeadFile(p)].id]
  BY <1>4, <1>6 DEF ReadBack, Segment
<1>13. RowOf(c, o, p, i, f)
  BY <1>5, <1>8, <1>9, <1>10, <1>11, <1>12 DEF RowOf
<1>14. QED
  BY <1>4, <1>8, <1>9, <1>13

LEMMA HeadsReported == ClaimInv /\ ScanInv /\ ReportInv => ReportedHeadsWereScanned
<1> SUFFICES ASSUME ClaimInv, ScanInv, ReportInv, phase = "done",
                    NEW c \in report.clusters, NEW o \in c.occurrences
             PROVE  \E f \in FileIds :
                      /\ roots[f[1]].id = o.repo_id /\ FileOf(f).rel = o.path
                      /\ seen[f] # NotRead
                      /\ SubSeq(TextAt(seen[f], o.start_line, o.end_line), 1, WindowLines)
                            = SubSeq(c.fingerprint, 1, WindowLines)
  BY DEF ReportedHeadsWereScanned
<1>1. PICK p \in folded.protos, f \in FileIds : \E i \in 1 .. Len(p.occs) : RowOf(c, o, p, i, f)
  BY RowsAre
<1>2. PICK i \in 1 .. Len(p.occs) : RowOf(c, o, p, i, f)
  BY <1>1
<1> DEFINE occ == p.occs[i]
           text == TextOf(seen, folded.files[occ.file_idx])
<1>3. /\ ClusterSound(p, folded.files, seen, WindowLines)
      /\ seen[f] \in Texts /\ roots[f[1]].id = o.repo_id /\ FileOf(f).rel = o.path
      /\ TextAt(seen[f], o.start_line, o.end_line) = Says(occ, p.norm_len, folded.files, seen)
  BY <1>2 DEF RowOf
<1>4. PICK x \in Texts :
         /\ c.fingerprint = Segment(normalized_lines(x), p.occs[1].norm_start, p.norm_len)
         /\ Segment(normalized_lines(x), p.occs[1].norm_start, WindowLines) = p.key
  BY <1>2 DEF RowOf
<1>5. /\ p.norm_len \in Nat /\ WindowLines \in Nat /\ WindowLines <= p.norm_len
      /\ p.occs[1].norm_start \in Nat /\ occ.norm_start \in Nat
      /\ Says(occ, WindowLines, folded.files, seen) = p.key
  <2>1. Len(p.occs) \in Nat /\ Len(p.occs) >= 1
    BY <1>3 DEF ClusterSound
  <2>2. 1 \in 1 .. Len(p.occs)
    BY <2>1
  <2>3. /\ Covers(occ, p.norm_len, folded.files, seen) /\ Covers(p.occs[1], p.norm_len, folded.files, seen)
        /\ Says(occ, WindowLines, folded.files, seen) = p.key
    BY <1>3, <2>2 DEF ClusterSound
  <2>4. WindowLines \in Nat /\ p.norm_len \in Nat /\ p.norm_len >= WindowLines
    BY <1>3, SizeIs DEF ClusterSound, ClaimInv, ScanInv
  <2>5. QED
    BY <2>3, <2>4 DEF Covers
<1>6. SubSeq(c.fingerprint, 1, WindowLines) = p.key
  <2> DEFINE lines == normalized_lines(x)
             start == p.occs[1].norm_start
  <2>1. start \in Int
    BY <1>5
  <2> HIDE DEF lines, start
  <2>2. SubSeq(Segment(lines, start, p.norm_len), 1, WindowLines) = Segment(lines, start, WindowLines)
    BY <1>5, <2>1, SegmentHead
  <2>3. QED
    BY <1>4, <2>2 DEF lines, start
<1>7. /\ Says(occ, p.norm_len, folded.files, seen) = Segment(text, occ.norm_start, p.norm_len)
      /\ Says(occ, WindowLines, folded.files, seen) = Segment(text, occ.norm_start, WindowLines)
  BY DEF Says
<1> HIDE DEF text
<1>8. SubSeq(Says(occ, p.norm_len, folded.files, seen), 1, WindowLines) = p.key
  <2> DEFINE start == occ.norm_start
  <2>1. start \in Int
    BY <1>5
  <2> HIDE DEF start
  <2>2. SubSeq(Segment(text, start, p.norm_len), 1, WindowLines) = Segment(text, start, WindowLines)
    BY <1>5, <2>1, SegmentHead
  <2>3. QED
    BY <1>5, <1>7, <2>2 DEF start
<1>9. QED
  BY <1>3, <1>6, <1>8, TextsAssumption

LEMMA QuietExact == ClaimInv /\ ScanInv /\ ReportInv => QuietClustersAreExact
<1> SUFFICES ASSUME ClaimInv, ScanInv, ReportInv, phase = "done", edits = 0
             PROVE  QuietClustersAreExact
  BY DEF QuietClustersAreExact
<1>1. ASSUME NEW c \in report.clusters, NEW o \in c.occurrences
      PROVE  \E f \in FileIds :
                /\ roots[f[1]].id = o.repo_id /\ FileOf(f).rel = o.path
                /\ TextAt(disk[OnDiskAs(f)], o.start_line, o.end_line) = c.fingerprint
  <2>1. PICK p \in folded.protos, f \in FileIds : \E i \in 1 .. Len(p.occs) : RowOf(c, o, p, i, f)
    BY RowsAre
  <2>2. PICK i \in 1 .. Len(p.occs) : RowOf(c, o, p, i, f)
    BY <2>1
  <2> DEFINE head == folded.files[HeadFile(p)]
  <2>3. /\ ClusterSound(p, folded.files, seen, WindowLines)
        /\ seen[f] \in Texts /\ roots[f[1]].id = o.repo_id /\ FileOf(f).rel = o.path
        /\ TextAt(seen[f], o.start_line, o.end_line)
              = Says(p.occs[i], p.norm_len, folded.files, seen)
    BY <2>2 DEF RowOf
  <2>4. c.fingerprint = Segment(normalized_lines(seen[head.id]), p.occs[1].norm_start, p.norm_len)
    BY <2>2 DEF RowOf
  <2>5. c.fingerprint = Says(p.occs[1], p.norm_len, folded.files, seen)
    BY <2>4 DEF Says, TextOf, HeadFile
  <2>6. Says(p.occs[i], p.norm_len, folded.files, seen)
           = Says(p.occs[1], p.norm_len, folded.files, seen)
    BY <2>3 DEF ClusterSound
  <2>7. seen[f] = disk[OnDiskAs(f)]
    BY <2>3, TextsAssumption DEF ReportInv, SeenIsText
  <2>8. QED
    BY <2>3, <2>5, <2>6, <2>7
<1>2. options.merge_overlaps =>
         \A p \in folded.protos : ShiftedBy(folded.protos, p, 1) = {}
  <2>1. folded.protos = ProtoClusters(folded.index, WindowLines, options)
    BY DEF ReportInv, Folded
  <2>2. SoundTable(folded.files, folded.index, FileIds, Entries, seen, options)
    BY DEF ScanInv, FoldSound
  <2>3. QED
    BY <2>1, <2>2, FoldedClusters DEF ReportInv
<1>3. QED
  BY <1>1, <1>2 DEF QuietClustersAreExact

-----------------------------------------------------------------------------
\* At every moment of a scan a cluster's text is what some contents of its head
\* file say where the cluster was found, its first window still the indexed one,
\* and while nothing is edited these contents are the scanned ones
\* (reconstruct_windows_parallel).
THEOREM TextsAreReadBack == Spec => []ReportInv
<1>1. Init => ClaimInv /\ ScanInv /\ ReportInv
  BY InitClaimInv, InitScanInv, InitReportInv
<1>2. (ClaimInv /\ ScanInv /\ ReportInv) /\ [Next]_vars => (ClaimInv /\ ScanInv /\ ReportInv)'
  BY NextClaimInv, NextScanInv, NextReportInv
<1>3. QED
  BY <1>1, <1>2, PTL DEF Spec

\* Whatever is edited while the scan runs: at every occurrence a report lists, the
\* first window of the reported text is what the scan found there (the comment at the
\* head of scan.rs).
THEOREM HeadsWereScanned == Spec => []ReportedHeadsWereScanned
  BY ClaimedOnce, ShardsAreTables, TextsAreReadBack, HeadsReported, PTL

\* While nothing is edited, the text of a reported cluster stands at every occurrence
\* it lists, from the first line it names to the last, and no cluster is another one
\* shifted by a line (merge_overlapping).
THEOREM ClustersAreExact == Spec => []QuietClustersAreExact
  BY ClaimedOnce, ShardsAreTables, TextsAreReadBack, QuietExact, PTL

-----------------------------------------------------------------------------
(* What a system scan takes of the entries of its manifests.               *)

Takes(taken, listed, last) ==
  taken = [n \in 0 .. last |-> IF n = 0 THEN NothingTaken
                               ELSE TakeEntry(taken[n - 1], listed[n].dir, listed[n].entry)]

LEMMA TakesExist ==
  ASSUME NEW listed
  PROVE  \A last \in Nat : \E taken : Takes(taken, listed, last)
<1> DEFINE Bad == {m \in Nat : ~ \E taken : Takes(taken, listed, m)}
           Next1(t, n) == TakeEntry(t, listed[n].dir, listed[n].entry)
<1> SUFFICES ASSUME Bad # {} PROVE FALSE
  OBVIOUS
<1>1. PICK m \in Bad : \A k \in Bad : m <= k
  BY Least
<1>2. m \in Nat /\ ~ \E taken : Takes(taken, listed, m)
  OBVIOUS
<1>0. \A taken, last : Takes(taken, listed, last) <=>
         taken = [n \in 0 .. last |-> IF n = 0 THEN NothingTaken ELSE Next1(taken[n - 1], n)]
  BY DEF Takes
<1> HIDE DEF Next1
<1>3. m # 0
  <2> DEFINE none == [n \in 0 .. 0 |-> NothingTaken]
  <2>1. \A n \in 0 .. 0 : n = 0
    OBVIOUS
  <2>2. none = [n \in 0 .. 0 |-> IF n = 0 THEN NothingTaken ELSE Next1(none[n - 1], n)]
    BY <2>1
  <2> HIDE DEF none
  <2>3. Takes(none, listed, 0)
    BY <2>2, <1>0
  <2>4. QED
    BY <1>2, <2>3
<1>4. m - 1 \in Nat /\ m - 1 \notin Bad
  BY <1>1, <1>2, <1>3
<1>5. PICK shorter : Takes(shorter, listed, m - 1)
  BY <1>4
<1> DEFINE longer == [n \in 0 .. m |-> IF n < m THEN shorter[n] ELSE Next1(shorter[m - 1], m)]
<1>6. ASSUME NEW n \in 0 .. m
      PROVE  longer[n] = IF n = 0 THEN NothingTaken ELSE Next1(longer[n - 1], n)
  <2>1. CASE n < m
    <3>1. n \in 0 .. m - 1 /\ (n # 0 => n - 1 \in 0 .. m /\ n - 1 < m)
      BY <2>1, <1>2
    <3>2. shorter[n] = IF n = 0 THEN NothingTaken ELSE Next1(shorter[n - 1], n)
      BY <3>1, <1>5, <1>0
    <3>3. QED
      BY <2>1, <3>1, <3>2
  <2>2. CASE n = m
    <3>1. m - 1 \in 0 .. m /\ m - 1 < m
      BY <1>2, <1>3
    <3>2. QED
      BY <2>2, <3>1, <1>3
  <2>3. QED
    BY <2>1, <2>2, <1>2
<1>7. Takes(longer, listed, m)
  <2>1. longer = [n \in 0 .. m |-> longer[n]]
    OBVIOUS
  <2> HIDE DEF longer
  <2>2. longer = [n \in 0 .. m |-> IF n = 0 THEN NothingTaken ELSE Next1(longer[n - 1], n)]
    BY <2>1, <1>6
  <2>3. QED
    BY <2>2, <1>0
<1>8. QED
  BY <1>2, <1>7

\* An entry's directory, name and ids.
RootAt(listed, i) == resolve_repo_root(listed[i].dir, listed[i].entry)
NameAt(listed, i) == logical_id(listed[i].entry)
PlainAt(listed, i) == plain_id(listed[i].entry, RootAt(listed, i))
QualifiedAt(listed, i) == qualified_id(listed[i].dir, listed[i].entry, RootAt(listed, i))

(* S holds the entries taken so far.                                       *)

IsTaken(t) ==
  /\ t = [claimed |-> t.claimed, seen_roots |-> t.seen_roots, roots |-> t.roots]
  /\ IsFiniteSet(DOMAIN t.roots)

\* A claim is a listed checkout's, and it is in.
ClaimsListed(t, listed, S) ==
  \A claim \in t.claimed : \E i \in S :
     /\ claim = <<NameAt(listed, i), RootAt(listed, i)>>
     /\ NameAt(listed, i) # <<>> /\ RootAt(listed, i) # <<>>
     /\ RootAt(listed, i) \in t.seen_roots

\* A checkout is in under a name it claims, or without one.
RootsClaim(t, listed, S) ==
  \A r \in t.seen_roots : \E i \in S :
     /\ RootAt(listed, i) = r /\ r # <<>>
     /\ NameAt(listed, i) = <<>> \/ <<NameAt(listed, i), r>> \in t.claimed

\* A listed checkout is in, or claimed by another that may be the same repository.
EntriesTaken(t, listed, S) ==
  \A i \in S : RootAt(listed, i) # <<>> =>
     \/ RootAt(listed, i) \in t.seen_roots
     \/ AlreadyClaimed(t.claimed, NameAt(listed, i), RootAt(listed, i))

\* An id is a listed checkout's, and it is in.
IdsListed(t, listed, S) ==
  \A id \in DOMAIN t.roots : \E i \in S :
     /\ RootAt(listed, i) = t.roots[id] /\ RootAt(listed, i) # <<>>
     /\ t.roots[id] \in t.seen_roots
     /\ id = PlainAt(listed, i) \/ id = QualifiedAt(listed, i)

\* A checkout that is in has an id, or its qualified id went to another.
HasId(t, r) == \E id \in DOMAIN t.roots : t.roots[id] = r
LostItsId(t, listed, S, r) ==
  \E i, k \in S :
     /\ RootAt(listed, i) = r
     /\ QualifiedAt(listed, i) \in DOMAIN t.roots
     /\ QualifiedAt(listed, k) = QualifiedAt(listed, i)
     /\ RootAt(listed, k) = t.roots[QualifiedAt(listed, i)]
RootsKept(t, listed, S) == \A r \in t.seen_roots : HasId(t, r) \/ LostItsId(t, listed, S, r)

\* Two checkouts that are in are listed under different names, or without one, or
\* are provably of different repositories.
ApartAt(listed, i, j) ==
  \/ NameAt(listed, i) # NameAt(listed, j)
  \/ NameAt(listed, i) = <<>>
  \/ distinct_repositories(RootAt(listed, i), RootAt(listed, j))
RootsApart(t, listed, S) ==
  \A a, b \in t.seen_roots : a # b =>
     \E i, j \in S : RootAt(listed, i) = a /\ RootAt(listed, j) = b /\ ApartAt(listed, i, j)

TakenInv(t, listed, S) ==
  /\ IsTaken(t)
  /\ ClaimsListed(t, listed, S)
  /\ RootsClaim(t, listed, S)
  /\ EntriesTaken(t, listed, S)
  /\ IdsListed(t, listed, S)
  /\ RootsKept(t, listed, S)
  /\ RootsApart(t, listed, S)

LEMMA NothingTakenInv == ASSUME NEW listed PROVE TakenInv(NothingTaken, listed, {})
<1>1. /\ NothingTaken.claimed = {} /\ NothingTaken.seen_roots = {}
      /\ DOMAIN NothingTaken.roots = {}
      /\ NothingTaken = [claimed |-> NothingTaken.claimed, seen_roots |-> NothingTaken.seen_roots,
                         roots |-> NothingTaken.roots]
  BY DEF NothingTaken
<1>2. IsFiniteSet({})
  BY FS_EmptySet
<1> HIDE DEF NothingTaken
<1>3. QED
  BY <1>1, <1>2 DEF TakenInv, IsTaken, ClaimsListed, RootsClaim, EntriesTaken, IdsListed,
     RootsKept, RootsApart

\* An id alone is not one in a family's name.
LEMMA PlainIsNotQualified ==
  ASSUME NEW listed, NEW i, NEW j
  PROVE  PlainAt(listed, i) # QualifiedAt(listed, j)
<1>1. Len(PlainAt(listed, i)) = 1
  BY DEF PlainAt, plain_id
<1>2. Len(QualifiedAt(listed, j)) = 2
  BY DEF QualifiedAt, qualified_id
<1>3. QED
  BY <1>1, <1>2

\* What an entry leaves, by what becomes of it.
Passed(t, u, root, logical) ==
  /\ u = t
  /\ root = <<>> \/ AlreadyClaimed(t.claimed, logical, root)
ClaimedSet(t, root, logical) ==
  IF logical = <<>> THEN t.claimed ELSE t.claimed \cup {<<logical, root>>}
Known(t, u, root, logical) ==
  /\ root # <<>> /\ ~AlreadyClaimed(t.claimed, logical, root) /\ root \in t.seen_roots
  /\ u = [claimed |-> ClaimedSet(t, root, logical), seen_roots |-> t.seen_roots, roots |-> t.roots]
Entered(t, u, root, logical, plain, qualified) ==
  /\ root # <<>> /\ ~AlreadyClaimed(t.claimed, logical, root) /\ root \notin t.seen_roots
  /\ u.claimed = ClaimedSet(t, root, logical)
  /\ u.seen_roots = t.seen_roots \cup {root}
  /\ u = [claimed |-> u.claimed, seen_roots |-> u.seen_roots, roots |-> u.roots]
  /\ \E id \in {plain, qualified} :
        /\ id = plain => plain \notin DOMAIN t.roots
        /\ u.roots = [i \in DOMAIN t.roots \cup {id} |-> IF i = id THEN root ELSE t.roots[i]]

LEMMA EntryIs ==
  ASSUME NEW t, NEW listed, NEW n, IsTaken(t),
         NEW u, u = TakeEntry(t, listed[n].dir, listed[n].entry),
         PlainAt(listed, n) # QualifiedAt(listed, n)
  PROVE  \/ Passed(t, u, RootAt(listed, n), NameAt(listed, n))
         \/ Known(t, u, RootAt(listed, n), NameAt(listed, n))
         \/ Entered(t, u, RootAt(listed, n), NameAt(listed, n), PlainAt(listed, n),
                    QualifiedAt(listed, n))
<1> DEFINE root == RootAt(listed, n)
           logical == NameAt(listed, n)
           plain == PlainAt(listed, n)
           qualified == QualifiedAt(listed, n)
           id == IF plain \in DOMAIN t.roots THEN qualified ELSE plain
           claimed == ClaimedSet(t, root, logical)
<1>1. u = IF root = <<>> \/ AlreadyClaimed(t.claimed, logical, root) THEN t
          ELSE IF root \in t.seen_roots
          THEN [t EXCEPT !.claimed = claimed]
          ELSE [claimed |-> claimed, seen_roots |-> t.seen_roots \cup {root},
                roots |-> [i \in DOMAIN t.roots \cup {id} |->
                              IF i = id THEN root ELSE t.roots[i]]]
  BY DEF TakeEntry, RootAt, NameAt, PlainAt, QualifiedAt, ClaimedSet
<1>2. t = [claimed |-> t.claimed, seen_roots |-> t.seen_roots, roots |-> t.roots]
  BY DEF IsTaken
<1>3. plain # qualified
  OBVIOUS
<1> HIDE DEF root, logical, plain, qualified
<1>4. CASE root = <<>> \/ AlreadyClaimed(t.claimed, logical, root)
  BY <1>1, <1>4 DEF Passed, root, logical
<1>5. CASE /\ ~(root = <<>> \/ AlreadyClaimed(t.claimed, logical, root))
           /\ root \in t.seen_roots
  <2>1. [t EXCEPT !.claimed = claimed]
           = [claimed |-> claimed, seen_roots |-> t.seen_roots, roots |-> t.roots]
    <3> HIDE DEF claimed
    <3> QED BY <1>2
  <2>2. Known(t, u, root, logical)
    BY <1>1, <1>5, <2>1 DEF Known
  <2>3. QED
    BY <2>2 DEF root, logical
<1>6. CASE /\ ~(root = <<>> \/ AlreadyClaimed(t.claimed, logical, root))
           /\ root \notin t.seen_roots
  <2> DEFINE after == [i \in DOMAIN t.roots \cup {id} |-> IF i = id THEN root ELSE t.roots[i]]
             seen_now == t.seen_roots \cup {root}
  <2>1. id \in {plain, qualified} /\ (id = plain => plain \notin DOMAIN t.roots)
    BY <1>3
  <2>2. u = [claimed |-> claimed, seen_roots |-> seen_now, roots |-> after]
    BY <1>1, <1>6
  <2>3. u.claimed = claimed /\ u.seen_roots = seen_now /\ u.roots = after
    <3> HIDE DEF claimed, after, seen_now
    <3> QED BY <2>2
  <2>4. u = [claimed |-> u.claimed, seen_roots |-> u.seen_roots, roots |-> u.roots]
    BY <2>2, <2>3
  <2> HIDE DEF id
  <2>5. Entered(t, u, root, logical, plain, qualified)
    BY <1>6, <2>1, <2>3, <2>4 DEF Entered
  <2>6. QED
    BY <2>5 DEF root, logical, plain, qualified
<1>7. QED
  BY <1>4, <1>5, <1>6

LEMMA PassedKeeps ==
  ASSUME NEW t, NEW u, NEW listed, NEW S, NEW k, TakenInv(t, listed, S),
         Passed(t, u, RootAt(listed, k), NameAt(listed, k))
  PROVE  TakenInv(u, listed, S \cup {k})
<1> DEFINE T == S \cup {k}
<1>1. u = t /\ (RootAt(listed, k) = <<>>
                \/ AlreadyClaimed(t.claimed, NameAt(listed, k), RootAt(listed, k)))
  BY DEF Passed
<1>2. IsTaken(t) /\ ClaimsListed(t, listed, T) /\ RootsClaim(t, listed, T)
  BY DEF TakenInv, ClaimsListed, RootsClaim
<1>3. EntriesTaken(t, listed, T)
  BY <1>1 DEF TakenInv, EntriesTaken
<1>4. IdsListed(t, listed, T)
  BY DEF TakenInv, IdsListed
<1>5. RootsKept(t, listed, T)
  BY DEF TakenInv, RootsKept, LostItsId
<1>6. RootsApart(t, listed, T)
  BY DEF TakenInv, RootsApart
<1>7. QED
  BY <1>1, <1>2, <1>3, <1>4, <1>5, <1>6 DEF TakenInv

\* A further claim leaves the entries taken, and is listed if its root is in.
LEMMA ClaimAdds ==
  ASSUME NEW t, NEW u, NEW listed, NEW S, NEW k, TakenInv(t, listed, S),
         RootAt(listed, k) # <<>>,
         u.claimed = ClaimedSet(t, RootAt(listed, k), NameAt(listed, k)),
         u.seen_roots = t.seen_roots \cup {RootAt(listed, k)}
  PROVE  /\ ClaimsListed(u, listed, S \cup {k})
         /\ RootsClaim(u, listed, S \cup {k})
         /\ EntriesTaken(u, listed, S \cup {k})
<1> DEFINE root == RootAt(listed, k)
           name == NameAt(listed, k)
           T == S \cup {k}
<1>1. /\ t.claimed \subseteq u.claimed
      /\ \A claim \in u.claimed : claim \in t.claimed \/ (name # <<>> /\ claim = <<name, root>>)
      /\ name = <<>> \/ <<name, root>> \in u.claimed
  BY DEF ClaimedSet
<1>2. t.seen_roots \subseteq u.seen_roots /\ root \in u.seen_roots
      /\ \A r \in u.seen_roots : r \in t.seen_roots \/ r = root
  OBVIOUS
<1>3. ClaimsListed(u, listed, T)
  BY <1>1, <1>2 DEF TakenInv, ClaimsListed
<1>4. RootsClaim(u, listed, T)
  BY <1>1, <1>2 DEF TakenInv, RootsClaim
<1>5. \A logical, r : AlreadyClaimed(t.claimed, logical, r) => AlreadyClaimed(u.claimed, logical, r)
  BY <1>1 DEF AlreadyClaimed
<1>6. EntriesTaken(u, listed, T)
  BY <1>2, <1>5 DEF TakenInv, EntriesTaken
<1>7. QED
  BY <1>3, <1>4, <1>6

LEMMA KnownKeeps ==
  ASSUME NEW t, NEW u, NEW listed, NEW S, NEW k, TakenInv(t, listed, S),
         Known(t, u, RootAt(listed, k), NameAt(listed, k))
  PROVE  TakenInv(u, listed, S \cup {k})
<1> DEFINE T == S \cup {k}
           root == RootAt(listed, k)
           claimed == ClaimedSet(t, root, NameAt(listed, k))
<1>1. /\ root # <<>> /\ root \in t.seen_roots
      /\ u = [claimed |-> claimed, seen_roots |-> t.seen_roots, roots |-> t.roots]
  BY DEF Known
<1>2. u.claimed = claimed /\ u.seen_roots = t.seen_roots /\ u.roots = t.roots
  <2> HIDE DEF claimed
  <2> QED BY <1>1
<1>3. t.seen_roots = t.seen_roots \cup {root}
  BY <1>1
<1>4. ClaimsListed(u, listed, T) /\ RootsClaim(u, listed, T) /\ EntriesTaken(u, listed, T)
  BY <1>1, <1>2, <1>3, ClaimAdds
<1>5. IsTaken(u)
  BY <1>1, <1>2 DEF TakenInv, IsTaken
<1>6. IdsListed(u, listed, T)
  BY <1>2 DEF TakenInv, IdsListed
<1>7. RootsKept(u, listed, T)
  BY <1>2 DEF TakenInv, RootsKept, HasId, LostItsId
<1>8. RootsApart(u, listed, T)
  BY <1>2 DEF TakenInv, RootsApart
<1>9. QED
  BY <1>4, <1>5, <1>6, <1>7, <1>8 DEF TakenInv

LEMMA EnteredKeeps ==
  ASSUME NEW t, NEW u, NEW listed, NEW S, NEW k, TakenInv(t, listed, S),
         Entered(t, u, RootAt(listed, k), NameAt(listed, k), PlainAt(listed, k),
                 QualifiedAt(listed, k))
  PROVE  TakenInv(u, listed, S \cup {k})
<1> DEFINE T == S \cup {k}
           root == RootAt(listed, k)
           name == NameAt(listed, k)
<1>1. /\ root # <<>> /\ ~AlreadyClaimed(t.claimed, name, root) /\ root \notin t.seen_roots
      /\ u.claimed = ClaimedSet(t, root, name)
      /\ u.seen_roots = t.seen_roots \cup {root}
      /\ u = [claimed |-> u.claimed, seen_roots |-> u.seen_roots, roots |-> u.roots]
  BY DEF Entered
<1>2. PICK id \in {PlainAt(listed, k), QualifiedAt(listed, k)} :
         /\ id = PlainAt(listed, k) => id \notin DOMAIN t.roots
         /\ u.roots = [i \in DOMAIN t.roots \cup {id} |-> IF i = id THEN root ELSE t.roots[i]]
  BY DEF Entered
<1>3. /\ DOMAIN u.roots = DOMAIN t.roots \cup {id}
      /\ u.roots[id] = root
      /\ \A i \in DOMAIN t.roots : i # id => u.roots[i] = t.roots[i]
  BY <1>2
<1>4. id \in DOMAIN t.roots => id = QualifiedAt(listed, k)
  BY <1>2
<1>5. \A i : PlainAt(listed, i) # QualifiedAt(listed, k) /\ PlainAt(listed, k) # QualifiedAt(listed, i)
  BY PlainIsNotQualified
<1>6. ClaimsListed(u, listed, T) /\ RootsClaim(u, listed, T) /\ EntriesTaken(u, listed, T)
  BY <1>1, ClaimAdds
<1>7. IsTaken(u)
  <2>1. IsFiniteSet(DOMAIN t.roots \cup {id})
    BY FS_AddElement DEF TakenInv, IsTaken
  <2>2. QED
    BY <1>1, <1>3, <2>1 DEF IsTaken
<1>8. IdsListed(u, listed, T)
  <2> SUFFICES ASSUME NEW i \in DOMAIN u.roots
               PROVE  \E j \in T :
                  /\ RootAt(listed, j) = u.roots[i] /\ RootAt(listed, j) # <<>>
                  /\ u.roots[i] \in u.seen_roots
                  /\ i = PlainAt(listed, j) \/ i = QualifiedAt(listed, j)
    BY DEF IdsListed
  <2>1. CASE i = id
    BY <2>1, <1>1, <1>2, <1>3
  <2>2. CASE i # id
    <3>1. i \in DOMAIN t.roots /\ u.roots[i] = t.roots[i]
      BY <2>2, <1>3
    <3>2. QED
      BY <3>1, <1>1 DEF TakenInv, IdsListed
  <2>3. QED
    BY <2>1, <2>2
<1>9. RootsKept(u, listed, T)
  <2> SUFFICES ASSUME NEW r \in u.seen_roots
               PROVE  HasId(u, r) \/ LostItsId(u, listed, T, r)
    BY DEF RootsKept
  <2>1. CASE r = root
    BY <2>1, <1>3 DEF HasId
  <2>2. CASE r # root /\ HasId(t, r)
    <3>1. PICK i \in DOMAIN t.roots : t.roots[i] = r
      BY <2>2 DEF HasId
    <3>2. CASE i # id
      BY <3>1, <3>2, <1>3 DEF HasId
    <3>3. CASE i = id
      <4>1. PICK j \in S : /\ RootAt(listed, j) = r
                           /\ i = PlainAt(listed, j) \/ i = QualifiedAt(listed, j)
        BY <3>1 DEF TakenInv, IdsListed
      <4>2. i = QualifiedAt(listed, k) /\ i = QualifiedAt(listed, j)
        BY <3>3, <4>1, <1>4, <1>5
      <4>3. QED
        BY <3>3, <4>1, <4>2, <1>3 DEF LostItsId
    <3>4. QED
      BY <3>2, <3>3
  <2>3. CASE r # root /\ LostItsId(t, listed, S, r)
    <3>1. PICK i \in S, j \in S : /\ RootAt(listed, i) = r
                                  /\ QualifiedAt(listed, i) \in DOMAIN t.roots
                                  /\ QualifiedAt(listed, j) = QualifiedAt(listed, i)
                                  /\ RootAt(listed, j) = t.roots[QualifiedAt(listed, i)]
      BY <2>3 DEF LostItsId
    <3>2. CASE QualifiedAt(listed, i) # id
      BY <3>1, <3>2, <1>3 DEF LostItsId
    <3>3. CASE QualifiedAt(listed, i) = id
      <4>1. QualifiedAt(listed, k) = QualifiedAt(listed, i)
        BY <3>3, <1>2, <1>5
      <4>2. QED
        BY <3>1, <3>3, <4>1, <1>3 DEF LostItsId
    <3>4. QED
      BY <3>2, <3>3
  <2>4. r # root => HasId(t, r) \/ LostItsId(t, listed, S, r)
    BY <1>1 DEF TakenInv, RootsKept
  <2>5. QED
    BY <2>1, <2>2, <2>3, <2>4
<1>10. RootsApart(u, listed, T)
  <2>1. ASSUME NEW a \in t.seen_roots
        PROVE  \E i \in S : RootAt(listed, i) = a /\ ApartAt(listed, i, k) /\ ApartAt(listed, k, i)
    <3>1. PICK i \in S : /\ RootAt(listed, i) = a
                         /\ NameAt(listed, i) = <<>> \/ <<NameAt(listed, i), a>> \in t.claimed
      BY DEF TakenInv, RootsClaim
    <3>2. CASE NameAt(listed, i) # name \/ NameAt(listed, i) = <<>>
      BY <3>1, <3>2 DEF ApartAt
    <3>3. CASE NameAt(listed, i) = name /\ name # <<>>
      <4>1. <<name, a>> \in t.claimed
        BY <3>1, <3>3
      <4>2. distinct_repositories(a, root)
        BY <1>1, <3>3, <4>1 DEF AlreadyClaimed
      <4>3. distinct_repositories(root, a)
        BY <4>2 DEF distinct_repositories
      <4>4. QED
        BY <3>1, <4>2, <4>3 DEF ApartAt
    <3>4. QED
      BY <3>2, <3>3
  <2> SUFFICES ASSUME NEW a \in u.seen_roots, NEW b \in u.seen_roots, a # b
               PROVE  \E i, j \in T : /\ RootAt(listed, i) = a /\ RootAt(listed, j) = b
                                      /\ ApartAt(listed, i, j)
    BY DEF RootsApart
  <2>2. CASE a \in t.seen_roots /\ b \in t.seen_roots
    BY <2>2 DEF TakenInv, RootsApart
  <2>3. CASE a \in t.seen_roots /\ b = root
    BY <2>1, <2>3
  <2>4. CASE a = root /\ b \in t.seen_roots
    BY <2>1, <2>4
  <2>5. QED
    BY <2>2, <2>3, <2>4, <1>1
<1>11. QED
  BY <1>6, <1>7, <1>8, <1>9, <1>10 DEF TakenInv

\* What all entries leave.
LEMMA TakenAll ==
  ASSUME NEW listed, Len(listed) \in Nat
  PROVE  TakenInv(TakeEntries(listed), listed, 1 .. Len(listed))
<1> DEFINE total == Len(listed)
           taken == CHOOSE taken : Takes(taken, listed, total)
           Bad == {n \in 0 .. total : ~TakenInv(taken[n], listed, 1 .. n)}
<1>1. Takes(taken, listed, total)
  BY TakesExist
<1>2. TakeEntries(listed) = taken[total]
  BY DEF TakeEntries, Takes
<1> HIDE DEF taken
<1>3. Bad = {}
  <2> SUFFICES ASSUME Bad # {} PROVE FALSE
    OBVIOUS
  <2>1. Bad \in SUBSET Nat
    OBVIOUS
  <2>2. PICK m \in Bad : \A n \in Bad : m <= n
    <3> HIDE DEF Bad
    <3> QED BY <2>1, Least
  <2>3. m \in 0 .. total /\ ~TakenInv(taken[m], listed, 1 .. m)
    OBVIOUS
  <2>4. m # 0
    <3>1. taken[0] = NothingTaken
      BY <1>1 DEF Takes
    <3>2. 1 .. 0 = {}
      OBVIOUS
    <3>3. QED
      BY <2>3, <3>1, <3>2, NothingTakenInv
  <2>5. m \in 1 .. total /\ m - 1 \in 0 .. total /\ ~(m <= m - 1)
    BY <2>3, <2>4
  <2>6. TakenInv(taken[m - 1], listed, 1 .. m - 1)
    <3>1. m - 1 \notin Bad
      <4> HIDE DEF Bad
      <4> QED BY <2>2, <2>5
    <3>2. QED
      BY <2>5, <3>1
  <2>7. taken[m] = TakeEntry(taken[m - 1], listed[m].dir, listed[m].entry)
    BY <2>3, <2>4, <1>1 DEF Takes
  <2>8. (1 .. m - 1) \cup {m} = 1 .. m
    BY <2>5
  <2> DEFINE before == taken[m - 1]
             after == taken[m]
  <2>9. \/ Passed(before, after, RootAt(listed, m), NameAt(listed, m))
        \/ Known(before, after, RootAt(listed, m), NameAt(listed, m))
        \/ Entered(before, after, RootAt(listed, m), NameAt(listed, m), PlainAt(listed, m),
                   QualifiedAt(listed, m))
    <3>1. IsTaken(before) /\ PlainAt(listed, m) # QualifiedAt(listed, m)
      BY <2>6, PlainIsNotQualified DEF TakenInv
    <3>2. QED
      BY <2>7, <3>1, EntryIs
  <2> HIDE DEF before, after
  <2>10. TakenInv(before, listed, 1 .. m - 1)
    BY <2>6 DEF before
  <2>11. TakenInv(after, listed, (1 .. m - 1) \cup {m})
    BY <2>9, <2>10, PassedKeeps, KnownKeeps, EnteredKeeps
  <2>12. QED
    BY <2>3, <2>8, <2>11 DEF after
<1>4. QED
  BY <1>2, <1>3

\* An id is spelled in the alphabet.
Letters == {Alphabet[m] : m \in DOMAIN Alphabet}
Spelled(id) == \/ \E x \in Letters : id = <<x>>
               \/ \E x, y \in Letters : id = <<x, y>>

LEMMA RankIs ==
  ASSUME NEW x \in Letters
  PROVE  rank(x) \in Nat /\ Alphabet[rank(x)] = x
<1>1. DOMAIN Alphabet = 1 .. Len(Alphabet) /\ Len(Alphabet) \in Nat
  BY AlphabetAssumption
<1>2. \E i \in DOMAIN Alphabet : Alphabet[i] = x
  BY DEF Letters
<1>3. rank(x) \in DOMAIN Alphabet /\ Alphabet[rank(x)] = x
  BY <1>2 DEF rank
<1>4. QED
  BY <1>1, <1>3

\* The order compares two numbers of an id.
FirstRank(id) == rank(id[1])
SecondRank(id) == IF Len(id) = 2 THEN rank(id[2]) + 1 ELSE 0

LEMMA SpelledIs ==
  ASSUME NEW id, Spelled(id)
  PROVE  /\ id[1] \in Letters /\ FirstRank(id) \in Nat /\ SecondRank(id) \in Nat
         /\ \/ Len(id) = 1 /\ id = <<id[1]>> /\ SecondRank(id) = 0
            \/ /\ Len(id) = 2 /\ id[2] \in Letters /\ id = <<id[1], id[2]>>
               /\ SecondRank(id) = rank(id[2]) + 1 /\ rank(id[2]) \in Nat
<1>1. CASE \E x \in Letters : id = <<x>>
  <2>1. PICK x \in Letters : id = <<x>>
    BY <1>1
  <2>2. Len(id) = 1 /\ id[1] = x
    BY <2>1
  <2>3. QED
    BY <2>1, <2>2, RankIs DEF FirstRank, SecondRank
<1>2. CASE \E x, y \in Letters : id = <<x, y>>
  <2>1. PICK x \in Letters, y \in Letters : id = <<x, y>>
    BY <1>2
  <2>2. Len(id) = 2 /\ id[1] = x /\ id[2] = y
    BY <2>1
  <2>3. rank(x) \in Nat /\ rank(y) \in Nat
    BY RankIs
  <2>4. QED
    BY <2>1, <2>2, <2>3 DEF FirstRank, SecondRank
<1>3. QED
  BY <1>1, <1>2 DEF Spelled

LEMMA IdBeforeIs ==
  ASSUME NEW a, NEW b, Spelled(a), Spelled(b)
  PROVE  /\ IdBefore(a, b) <=>
               \/ FirstRank(a) < FirstRank(b)
               \/ FirstRank(a) = FirstRank(b) /\ SecondRank(a) < SecondRank(b)
         /\ FirstRank(a) = FirstRank(b) /\ SecondRank(a) = SecondRank(b) => a = b
<1>1. \A x, y \in Letters : rank(x) = rank(y) => x = y
  BY RankIs
<1>2. a[1] = b[1] <=> FirstRank(a) = FirstRank(b)
  BY <1>1, SpelledIs DEF FirstRank
<1>3. CASE Len(a) = 1 /\ Len(b) = 1
  BY <1>2, <1>3, SpelledIs DEF IdBefore, FirstRank
<1>4. CASE Len(a) = 1 /\ Len(b) = 2
  <2>1. SecondRank(a) = 0 /\ SecondRank(b) > 0
    BY <1>4, SpelledIs
  <2>2. QED
    BY <1>2, <1>4, <2>1 DEF IdBefore, FirstRank
<1>5. CASE Len(a) = 2 /\ Len(b) = 1
  <2>1. ~(SecondRank(a) < SecondRank(b)) /\ SecondRank(a) # SecondRank(b)
    BY <1>5, SpelledIs
  <2>2. IdBefore(a, b) <=> rank(a[1]) < rank(b[1])
    BY <1>5 DEF IdBefore
  <2>3. QED
    BY <2>1, <2>2 DEF FirstRank
<1>6. CASE Len(a) = 2 /\ Len(b) = 2
  <2>1. /\ SecondRank(a) < SecondRank(b) <=> rank(a[2]) < rank(b[2])
        /\ SecondRank(a) = SecondRank(b) <=> rank(a[2]) = rank(b[2])
    BY <1>6, SpelledIs
  <2>2. IdBefore(a, b) <=> \/ rank(a[1]) < rank(b[1])
                           \/ a[1] = b[1] /\ rank(a[2]) < rank(b[2])
    BY <1>6 DEF IdBefore
  <2>3. a[1] = b[1] /\ a[2] = b[2] => a = b
    BY <1>6, SpelledIs
  <2>4. rank(a[2]) = rank(b[2]) => a[2] = b[2]
    BY <1>1, <1>6, SpelledIs
  <2>5. QED
    BY <1>2, <2>1, <2>2, <2>3, <2>4 DEF FirstRank
<1>7. QED
  BY <1>3, <1>4, <1>5, <1>6, SpelledIs

LEMMA IdsAreOrdered ==
  ASSUME NEW a, NEW b, Spelled(a), Spelled(b)
  PROVE  /\ ~IdBefore(a, a)
         /\ a # b => IdBefore(a, b) \/ IdBefore(b, a)
         /\ \A c : Spelled(c) /\ IdBefore(c, a) /\ IdBefore(a, b) => IdBefore(c, b)
<1>1. \A id : Spelled(id) => FirstRank(id) \in Nat /\ SecondRank(id) \in Nat
  BY SpelledIs
<1>2. QED
  BY <1>1, IdBeforeIs

\* The sorted list holds every id once.
LEMMA EachIdOnce ==
  ASSUME NEW ids, IsFiniteSet(ids), \A id \in ids : Spelled(id)
  PROVE  /\ DOMAIN InIdOrder(ids) = 1 .. Cardinality(ids)
         /\ \A n \in DOMAIN InIdOrder(ids) : InIdOrder(ids)[n] \in ids
         /\ \A id \in ids : \E n \in DOMAIN InIdOrder(ids) : InIdOrder(ids)[n] = id
<1> DEFINE below(id) == {other \in ids : IdBefore(other, id)}
           place == [id \in ids |-> Cardinality(below(id)) + 1]
           total == Cardinality(ids)
<1>1. total \in Nat
  BY FS_CardinalityType
<1>2. ASSUME NEW id \in ids
      PROVE  /\ Cardinality(below(id)) \in Nat
             /\ IsFiniteSet(below(id))
             /\ place[id] = Cardinality(below(id)) + 1
             /\ place[id] \in 1 .. total
  <2>1. below(id) \in SUBSET ids /\ id \notin below(id)
    BY IdsAreOrdered
  <2>2. IsFiniteSet(below(id)) /\ Cardinality(below(id)) <= total /\ Cardinality(below(id)) # total
    BY <2>1, FS_Subset
  <2>3. Cardinality(below(id)) \in Nat
    BY <2>2, FS_CardinalityType
  <2> HIDE DEF below, total
  <2>4. QED
    BY <1>1, <2>2, <2>3
<1>3. ASSUME NEW a \in ids, NEW b \in ids, IdBefore(a, b)
      PROVE  place[a] # place[b]
  <2>1. /\ below(a) \in SUBSET below(b) /\ a \in below(b) /\ a \notin below(a)
    BY <1>3, IdsAreOrdered
  <2>2. Cardinality(below(a)) # Cardinality(below(b))
    <3> HIDE DEF below
    <3> QED BY <1>2, <2>1, FS_Subset
  <2>3. /\ Cardinality(below(a)) \in Nat /\ Cardinality(below(b)) \in Nat
        /\ place[a] = Cardinality(below(a)) + 1 /\ place[b] = Cardinality(below(b)) + 1
    BY <1>2
  <2> HIDE DEF place, below
  <2>4. QED
    BY <2>2, <2>3
<1>4. \A a, b \in ids : a # b => place[a] # place[b]
  BY <1>3, IdsAreOrdered
<1>5. place \in Surjection(ids, 1 .. total)
  <2>1. place \in Injection(ids, 1 .. total)
    <3>1. place \in [ids -> 1 .. total]
      BY <1>2
    <3> HIDE DEF place
    <3>2. QED
      BY <1>4, <3>1 DEF Injection, IsInjective
  <2>2. IsFiniteSet(1 .. total) /\ Cardinality(1 .. total) = total
    BY <1>1, FS_Interval
  <2> HIDE DEF place
  <2>3. QED
    BY <2>1, <2>2, FS_Injection
<1>6. \A n \in 1 .. total : \E id \in ids : place[id] = n
  <2> HIDE DEF place
  <2> QED BY <1>5 DEF Surjection
<1>7. ASSUME NEW id \in ids, NEW n \in 1 .. total
      PROVE  place[id] = n <=> Cardinality(below(id)) = n - 1
  <2>1. Cardinality(below(id)) \in Nat /\ place[id] = Cardinality(below(id)) + 1
    BY <1>2
  <2> HIDE DEF place, below
  <2>2. QED
    BY <1>1, <2>1
<1>8. InIdOrder(ids) = [n \in 1 .. total |-> CHOOSE id \in ids : Cardinality(below(id)) = n - 1]
  BY DEF InIdOrder
<1> HIDE DEF place, below, total
<1>9. ASSUME NEW n \in 1 .. total
      PROVE  InIdOrder(ids)[n] \in ids /\ place[InIdOrder(ids)[n]] = n
  <2>1. \E id \in ids : Cardinality(below(id)) = n - 1
    BY <1>6, <1>7
  <2>2. InIdOrder(ids)[n] \in ids /\ Cardinality(below(InIdOrder(ids)[n])) = n - 1
    BY <1>8, <2>1
  <2>3. QED
    BY <1>7, <2>2
<1>10. DOMAIN InIdOrder(ids) = 1 .. total
  BY <1>8
<1>11. \A id \in ids : InIdOrder(ids)[place[id]] = id
  BY <1>2, <1>4, <1>9
<1>12. QED
  BY <1>2, <1>9, <1>10, <1>11 DEF total

\* What a system scan takes of its entries.
LEMMA SystemTakes ==
  ASSUME NEW c \in Commands
  PROVE  LET listed == ListedEntries(c)
             taken == TakeEntries(listed)
             found == discover_system_repo_roots(c)
         IN  /\ TakenInv(taken, listed, DOMAIN listed)
             /\ \A n \in DOMAIN found : \E id \in DOMAIN taken.roots :
                   found[n].checkout = taken.roots[id]
             /\ \A id \in DOMAIN taken.roots : \E n \in DOMAIN found :
                   found[n].checkout = taken.roots[id]
<1> DEFINE listed == ListedEntries(c)
           taken == TakeEntries(listed)
           found == discover_system_repo_roots(c)
           ids == InIdOrder(DOMAIN taken.roots)
<1>1. /\ Len(listed) \in Nat
      /\ DOMAIN listed = 1 .. Len(listed)
      /\ \A i \in DOMAIN listed : RootAt(listed, i) # <<>> =>
            \A n \in {1, 2} : \E m \in DOMAIN Alphabet : Alphabet[m] = QualifiedAt(listed, i)[n]
  BY EntriesAssumption DEF RootAt, QualifiedAt
<1>2. found = [n \in DOMAIN ids |-> [id |-> ids[n], checkout |-> taken.roots[ids[n]]]]
  BY DEF discover_system_repo_roots
<1> HIDE DEF listed, found
<1>3. TakenInv(taken, listed, DOMAIN listed)
  BY <1>1, TakenAll
<1>4. \A id \in DOMAIN taken.roots : Spelled(id)
  <2> SUFFICES ASSUME NEW id \in DOMAIN taken.roots PROVE Spelled(id)
    OBVIOUS
  <2>1. PICK i \in DOMAIN listed : /\ RootAt(listed, i) # <<>>
                                   /\ id = PlainAt(listed, i) \/ id = QualifiedAt(listed, i)
    BY <1>3 DEF TakenInv, IdsListed
  <2> DEFINE family == family_label_for(listed[i].dir)
             name == name_of(listed[i].entry, RootAt(listed, i))
  <2>2. QualifiedAt(listed, i) = <<family, name>> /\ PlainAt(listed, i) = <<name>>
    BY DEF QualifiedAt, PlainAt, qualified_id, plain_id
  <2> HIDE DEF family, name
  <2>3. family \in Letters /\ name \in Letters
    BY <1>1, <2>1, <2>2 DEF Letters
  <2>4. QED
    BY <2>1, <2>2, <2>3 DEF Spelled
<1>5. IsFiniteSet(DOMAIN taken.roots)
  BY <1>3 DEF TakenInv, IsTaken
<1> HIDE DEF taken
<1>6. /\ \A n \in DOMAIN ids : ids[n] \in DOMAIN taken.roots
      /\ \A id \in DOMAIN taken.roots : \E n \in DOMAIN ids : ids[n] = id
  BY <1>4, <1>5, EachIdOnce
<1> HIDE DEF ids
<1>7. DOMAIN found = DOMAIN ids /\ \A n \in DOMAIN ids : found[n].checkout = taken.roots[ids[n]]
  BY <1>2
<1>8. QED
  BY <1>3, <1>6, <1>7 DEF taken, found, listed

\* The entries of a checkout, by number.
LEMMA ListingsAre ==
  ASSUME NEW c
  PROVE  LET listed == ListedEntries(c)
         IN  /\ \A i \in DOMAIN listed : RootAt(listed, i) # <<>> =>
                   /\ RootAt(listed, i) \in ListedCheckouts(c)
                   /\ NameAt(listed, i) \in NamesOf(c, RootAt(listed, i))
                   /\ QualifiedAt(listed, i) \in QualifiedIdsOf(c, RootAt(listed, i))
             /\ \A d \in ListedCheckouts(c) : \E i \in DOMAIN listed :
                   RootAt(listed, i) = d /\ d # <<>>
<1> DEFINE listed == ListedEntries(c)
<1>1. Range(listed) = {listed[i] : i \in DOMAIN listed}
  BY DEF Range
<1>2. \A l : l \in Range(listed) <=> \E i \in DOMAIN listed : listed[i] = l
  BY <1>1
<1> DEFINE rootOf(l) == resolve_repo_root(l.dir, l.entry)
<1>3. ListedCheckouts(c) = {rootOf(l) : l \in Range(listed)} \ {<<>>}
  BY DEF ListedCheckouts
<1>4. \A d : Listing(c, d) = {l \in Range(listed) : rootOf(l) = d}
  BY DEF Listing
<1>5. \A i : RootAt(listed, i) = rootOf(listed[i])
  BY DEF RootAt
<1> HIDE DEF listed, rootOf
<1>6. \A i \in DOMAIN listed : RootAt(listed, i) # <<>> => RootAt(listed, i) \in ListedCheckouts(c)
  BY <1>2, <1>3, <1>5
<1>7. \A d \in ListedCheckouts(c) : \E i \in DOMAIN listed : RootAt(listed, i) = d /\ d # <<>>
  BY <1>2, <1>3, <1>5
<1>8. \A i \in DOMAIN listed : listed[i] \in Listing(c, RootAt(listed, i))
  BY <1>2, <1>4, <1>5
<1>9. \A i \in DOMAIN listed : /\ NameAt(listed, i) \in NamesOf(c, RootAt(listed, i))
                               /\ QualifiedAt(listed, i) \in QualifiedIdsOf(c, RootAt(listed, i))
  BY <1>8 DEF NamesOf, QualifiedIdsOf, NameAt, QualifiedAt
<1>10. QED
  BY <1>6, <1>7, <1>9 DEF listed

LEMMA RootsAreCheckouts ==
  ASSUME NEW dir, NEW entry, resolve_repo_root(dir, entry) # <<>>
  PROVE  resolve_repo_root(dir, entry) \in DOMAIN Repositories
<1> DEFINE tried == <<entry.path, Append(dir, entry.name), Append(Front(dir), entry.name)>>
           there == {i \in 1 .. 3 : tried[i] \in DOMAIN Canonical}
<1>1. resolve_repo_root(dir, entry) = IF there = {} THEN <<>> ELSE Canonical[tried[Min(there)]]
  BY DEF resolve_repo_root
<1>2. there \in SUBSET Nat
  OBVIOUS
<1>3. there # {} => Min(there) \in there
  <2> HIDE DEF there
  <2> QED BY <1>2, MinOf
<1>4. \A i \in there : tried[i] \in DOMAIN Canonical
  OBVIOUS
<1> HIDE DEF tried, there
<1>5. QED
  BY <1>1, <1>3, <1>4, CanonicalAssumption

\* Which repositories a command scans is settled before the first is claimed.
LEMMA SystemRoots == ShapeOK => EachRepositoryOnce
<1> SUFFICES ASSUME ShapeOK, command.kind = "scan_system", roots # <<>>
             PROVE  EachRepositoryOnce
  BY DEF EachRepositoryOnce
<1> DEFINE c == command
           listed == ListedEntries(c)
           taken == TakeEntries(listed)
           scanned == {roots[r].checkout : r \in Repos}
           NamesMeet(a, d) == (NamesOf(c, a) \cap NamesOf(c, d)) \ {<<>>} # {}
           IdsMeet(a, d) == QualifiedIdsOf(c, a) \cap QualifiedIdsOf(c, d) # {}
<1>1. c \in Commands /\ roots = discover_system_repo_roots(c)
  BY DEF ShapeOK, roots_of
<1>2. DOMAIN roots = Repos
  BY RootsAssumption DEF ShapeOK, Repos
<1>3. /\ TakenInv(taken, listed, DOMAIN listed)
      /\ \A s \in scanned : \E id \in DOMAIN taken.roots : s = taken.roots[id]
      /\ \A id \in DOMAIN taken.roots : taken.roots[id] \in scanned
  BY <1>1, <1>2, SystemTakes
<1>4. /\ \A i \in DOMAIN listed : RootAt(listed, i) # <<>> =>
            /\ RootAt(listed, i) \in ListedCheckouts(c)
            /\ NameAt(listed, i) \in NamesOf(c, RootAt(listed, i))
            /\ QualifiedAt(listed, i) \in QualifiedIdsOf(c, RootAt(listed, i))
      /\ \A d \in ListedCheckouts(c) : \E i \in DOMAIN listed :
            RootAt(listed, i) = d /\ d # <<>>
  BY ListingsAre
<1>5. \A i : RootAt(listed, i) # <<>> => RootAt(listed, i) \in DOMAIN Repositories
  BY RootsAreCheckouts DEF RootAt
<1>6. scanned \subseteq taken.seen_roots
  BY <1>3 DEF TakenInv, IdsListed
<1> HIDE DEF c, listed, taken, scanned
<1>7. ASSUME NEW a \in scanned, NEW b \in scanned, a # b, Clones(a, b)
      PROVE  \E x \in NamesOf(c, a), y \in NamesOf(c, b) : x # y \/ x = <<>>
  <2>1. PICK i \in DOMAIN listed, j \in DOMAIN listed :
           RootAt(listed, i) = a /\ RootAt(listed, j) = b /\ ApartAt(listed, i, j)
    BY <1>3, <1>6, <1>7 DEF TakenInv, RootsApart
  <2>2. a # <<>> /\ b # <<>>
    BY <1>3, <1>6 DEF TakenInv, RootsClaim
  <2>3. a \in DOMAIN Repositories /\ b \in DOMAIN Repositories
    BY <2>1, <2>2, <1>5
  <2>4. ~distinct_repositories(a, b)
    BY <2>3, <1>7, GitTellsClones DEF distinct_repositories
  <2>5. NameAt(listed, i) \in NamesOf(c, a) /\ NameAt(listed, j) \in NamesOf(c, b)
    BY <2>1, <2>2, <1>4
  <2>6. QED
    BY <2>1, <2>4, <2>5 DEF ApartAt
\* What is in is scanned, or lost its id to another.
<1>8. ASSUME NEW d \in taken.seen_roots
      PROVE  /\ d \in ListedCheckouts(c)
             /\ \/ d \in scanned
                \/ \E s \in scanned : d # s /\ IdsMeet(d, s)
  <2>1. PICK n \in DOMAIN listed : RootAt(listed, n) = d /\ d # <<>>
    BY <1>3 DEF TakenInv, RootsClaim
  <2>2. HasId(taken, d) \/ LostItsId(taken, listed, DOMAIN listed, d)
    BY <1>3 DEF TakenInv, RootsKept
  <2>3. CASE HasId(taken, d)
    BY <2>1, <2>3, <1>3, <1>4 DEF HasId
  <2>4. CASE LostItsId(taken, listed, DOMAIN listed, d) /\ d \notin scanned
    <3>1. PICK i \in DOMAIN listed, k \in DOMAIN listed :
             /\ RootAt(listed, i) = d
             /\ QualifiedAt(listed, i) \in DOMAIN taken.roots
             /\ QualifiedAt(listed, k) = QualifiedAt(listed, i)
             /\ RootAt(listed, k) = taken.roots[QualifiedAt(listed, i)]
      BY <2>4 DEF LostItsId
    <3>2. RootAt(listed, k) \in scanned /\ RootAt(listed, k) # <<>>
      BY <3>1, <1>3 DEF TakenInv, IdsListed
    <3>3. IdsMeet(d, RootAt(listed, k))
      BY <3>1, <3>2, <2>1, <1>4
    <3>4. QED
      BY <2>1, <2>4, <3>2, <3>3, <1>4
  <2>5. QED
    BY <2>1, <2>2, <2>3, <2>4, <1>4
<1>9. ASSUME NEW a \in ListedCheckouts(c)
      PROVE  \/ \E s \in scanned : Clones(a, s)
             \/ \E d \in ListedCheckouts(c) : NamesMeet(a, d) /\ ~GitAnswers(d)
             \/ \E d \in ListedCheckouts(c), s \in scanned :
                   Clones(a, d) /\ d # s /\ IdsMeet(d, s)
  <2>1. PICK i \in DOMAIN listed : RootAt(listed, i) = a /\ a # <<>>
    BY <1>4
  <2>2. ASSUME NEW d \in taken.seen_roots, Clones(a, d)
        PROVE  \/ \E s \in scanned : Clones(a, s)
               \/ \E e \in ListedCheckouts(c), s \in scanned :
                     Clones(a, e) /\ e # s /\ IdsMeet(e, s)
    <3> HIDE DEF IdsMeet
    <3> QED BY <1>8, <2>2
  <2>3. CASE a \in taken.seen_roots
    <3>1. Clones(a, a)
      BY DEF Clones
    <3> HIDE DEF IdsMeet, NamesMeet
    <3>2. QED
      BY <2>2, <2>3, <3>1
  <2>4. CASE AlreadyClaimed(taken.claimed, NameAt(listed, i), a)
    <3>1. PICK claim \in taken.claimed : /\ claim[1] = NameAt(listed, i)
                                         /\ ~distinct_repositories(claim[2], a)
      BY <2>4 DEF AlreadyClaimed
    <3>2. NameAt(listed, i) # <<>>
      BY <2>4 DEF AlreadyClaimed
    <3>3. PICK j \in DOMAIN listed : /\ claim = <<NameAt(listed, j), RootAt(listed, j)>>
                                     /\ RootAt(listed, j) # <<>>
                                     /\ RootAt(listed, j) \in taken.seen_roots
      BY <1>3 DEF TakenInv, ClaimsListed
    <3> DEFINE d == RootAt(listed, j)
    <3>4. claim[2] = d /\ NameAt(listed, j) = NameAt(listed, i)
      BY <3>1, <3>3
    <3>5. NamesMeet(a, d) /\ NamesMeet(a, a) /\ d \in ListedCheckouts(c)
      BY <1>4, <2>1, <3>2, <3>3, <3>4
    <3>6. d \in DOMAIN Repositories /\ a \in DOMAIN Repositories
      BY <1>5, <2>1, <3>3
    <3>7. CASE ~GitAnswers(d) \/ ~GitAnswers(a)
      <4> HIDE DEF d, NamesMeet
      <4> QED BY <3>5, <3>7
    <3>8. CASE GitAnswers(d) /\ GitAnswers(a)
      <4>1. Repositories[d].root_commits \cap Repositories[a].root_commits # {}
        BY <3>1, <3>4, <3>8 DEF distinct_repositories
      <4>2. Clones(d, a)
        <5> HIDE DEF d
        <5> QED BY <3>6, <3>8, <4>1, GitTellsClones
      <4>3. Clones(a, d)
        BY <4>2 DEF Clones
      <4>4. d \in taken.seen_roots
        BY <3>3
      <4> HIDE DEF d, NamesMeet, IdsMeet
      <4>5. QED
        BY <2>2, <4>3, <4>4
    <3>9. QED
      BY <3>7, <3>8
  <2>5. QED
    BY <2>1, <2>3, <2>4, <1>3 DEF TakenInv, EntriesTaken
<1>10. QED
  BY <1>7, <1>9 DEF EachRepositoryOnce, c, scanned

-----------------------------------------------------------------------------
\* A system scan takes two clones of one repository only under different names or
\* without one, and leaves a listed repository out only where git does not answer or
\* an id went to another (discover_system_repo_roots).
THEOREM RepositoriesOnce == Spec => []EachRepositoryOnce
<1>1. ClaimInv => EachRepositoryOnce
  BY SystemRoots DEF ClaimInv
<1>2. QED
  BY <1>1, ClaimedOnce, PTL
=============================================================================
