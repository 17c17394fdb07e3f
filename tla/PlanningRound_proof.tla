-------------------------- MODULE PlanningRound_proof --------------------------
(***************************************************************************)
(* Proofs about a planning round, for every checkout, every set of edits   *)
(* and every spelling of the changed paths.                                 *)
(***************************************************************************)
EXTENDS PlanningRound, FiniteSetTheorems, SequenceTheorems, WellFoundedInduction, TLAPS

-----------------------------------------------------------------------------
(* The reading list *)

OracleFields ==
  {"pc", "began", "changes", "load", "todo", "index", "governance", "pack"}

\* A pack is the one build_pack makes of what the oracle read, and the rows it
\* was made from are the stored ones.
PackInv ==
  /\ DOMAIN oracle = OracleFields
  /\ oracle.pc = "done" =>
       /\ oracle.pack = build_pack(oracle.changes, oracle.load.packages, oracle.index,
                                   oracle.governance,
                                   impact_of(oracle.load.packages, oracle.changes))
       /\ store.rows = attach_governance_rows(oracle.index, oracle.governance)

LEMMA PackInit == Init => PackInv
BY DEF Init, PackInv, OracleFields

LEMMA OracleAfterFields ==
  ASSUME NEW o, DOMAIN o = OracleFields, o.pc # "done", NEW load
  PROVE  /\ DOMAIN OracleAfter(o, load) = OracleFields
         /\ OracleAfter(o, load).pc # "done"
BY DEF OracleAfter, OracleFields

LEMMA PackNext == PackInv /\ [Next]_vars => PackInv'
<1> SUFFICES ASSUME PackInv, [Next]_vars
             PROVE  PackInv'
  OBVIOUS
<1>1. ASSUME UNCHANGED <<oracle, store>>
      PROVE  PackInv'
  BY <1>1 DEF PackInv
<1>2. CASE StartQuery
  <2>1. PICK spelling \in Spellings :
          oracle' = OracleAfter(
              [oracle EXCEPT !.began = Len(edits),
                             !.changes = normalize_changed_paths(spelled(Changed, spelling))],
              StartLoad(disk))
    BY <1>2 DEF StartQuery
  <2>2. oracle.pc = "idle"
    BY <1>2 DEF StartQuery
  <2> DEFINE o == [oracle EXCEPT !.began = Len(edits),
                       !.changes = normalize_changed_paths(spelled(Changed, spelling))]
  <2>3. DOMAIN o = OracleFields /\ o.pc # "done"
    BY <2>2 DEF PackInv, OracleFields
  <2>4. oracle' = OracleAfter(o, StartLoad(disk))
    BY <2>1
  <2> HIDE DEF o
  <2>5. DOMAIN oracle' = OracleFields /\ oracle'.pc # "done"
    BY <2>3, <2>4, OracleAfterFields
  <2>6. QED
    BY <2>5 DEF PackInv
<1>3. CASE OracleReadsMember
  <2>1. DOMAIN oracle' = OracleFields /\ oracle'.pc # "done"
    BY <1>3, OracleAfterFields DEF OracleReadsMember, PackInv
  <2>2. QED
    BY <2>1 DEF PackInv
<1>4. CASE IndexPackage
  BY <1>4 DEF IndexPackage, PackInv, OracleFields
<1>5. CASE LoadGovernance
  BY <1>5 DEF LoadGovernance, PackInv, OracleFields
<1>6. CASE PersistAndPack
  <2> DEFINE pack == build_pack(oracle.changes, oracle.load.packages, oracle.index,
                                oracle.governance,
                                impact_of(oracle.load.packages, oracle.changes))
  <2>1. oracle' = [oracle EXCEPT !.pc = "done", !.pack = pack]
    BY <1>6 DEF PersistAndPack
  <2>2. store'.rows = attach_governance_rows(oracle.index, oracle.governance)
    BY <1>6 DEF PersistAndPack
  <2> HIDE DEF pack
  <2>3. /\ DOMAIN oracle' = OracleFields
        /\ oracle'.pack = pack
        /\ oracle'.changes = oracle.changes /\ oracle'.load = oracle.load
        /\ oracle'.index = oracle.index /\ oracle'.governance = oracle.governance
    BY <2>1 DEF PackInv, OracleFields
  <2>4. QED
    BY <2>2, <2>3 DEF PackInv, pack
<1>7. CASE PersistFails
  BY <1>7 DEF PersistFails, PackInv, OracleFields
<1>8. QED
  BY <1>1, <1>2, <1>3, <1>4, <1>5, <1>6, <1>7
     DEF Next, vars, Edit, StartPlan, PlannerReadsMember, Classify, FinishPlan

\* The files of a context are the paths of its inclusions.
LEMMA ContextFiles ==
  ASSUME NEW inclusions, NEW rows, NEW governance
  PROVE  DOMAIN context(inclusions, rows, governance) = {i.path : i \in inclusions}
BY DEF context

LEMMA WholeList ==
  ASSUME NEW paths, NEW packages, NEW index, NEW governance, NEW impacted,
         NEW pack, pack = build_pack(paths, packages, index, governance, impacted),
         NEW rows, rows = attach_governance_rows(index, governance)
  PROVE  LET must == DOMAIN pack.must_read_files
             should == DOMAIN pack.should_read_files
         IN  /\ must \cap should = {}
             /\ pack.excluded_files \cap (must \cup should) = {}
             /\ paths \subseteq must
             /\ {s.file : s \in pack.affected_symbols} \subseteq must \cup should
             /\ governance.loaded \subseteq must \cup should
             /\ \A p \in must : p \in DOMAIN rows =>
                    pack.must_read_files[p].editable = rows[p].editable
<1> DEFINE inclusions == must_read(paths, packages, index, impacted)
           must == {i.path : i \in inclusions}
           further == should_read(packages, index, governance, impacted, must)
           should == {i.path : i \in further}
<1>1. /\ pack.must_read_files = context(inclusions, rows, governance)
      /\ pack.should_read_files = context(further, rows, governance)
      /\ pack.excluded_files = lexical_exclusions(must \cup should, governance)
      /\ pack.affected_symbols = {s \in index.symbols : s.crate \in impacted.affected}
  BY ContextFiles DEF build_pack
<1>2. DOMAIN pack.must_read_files = must /\ DOMAIN pack.should_read_files = should
  BY <1>1, ContextFiles
<1>3. must \cap should = {}
  BY DEF should_read
<1>4. pack.excluded_files \cap (must \cup should) = {}
  BY <1>1 DEF lexical_exclusions
<1>5. paths \subseteq must
  <2> SUFFICES ASSUME NEW p \in paths PROVE p \in must
    OBVIOUS
  <2>1. because(p, 0, "input_changed_path") \in inclusions
    BY DEF must_read
  <2>2. QED
    BY <2>1 DEF because
<1>6. ASSUME NEW s \in index.symbols, s.crate \in impacted.affected
      PROVE  s.file \in must \cup should
  <2>1. CASE s.crate \in impacted.changed
    <3>1. because(s.file, 30, "changed_crate_public_symbol_file") \in inclusions
      BY <2>1 DEF must_read
    <3>2. QED
      BY <3>1 DEF because
  <2>2. CASE s.crate \notin impacted.changed
    <3> DEFINE i == because(s.file, 120, "affected_crate_public_symbol_file")
    <3>1. i.path = s.file
      BY DEF because
    <3>2. i.path \in must \/ i \in further
      BY <1>6, <2>2 DEF should_read
    <3>3. QED
      BY <3>1, <3>2
  <2>3. QED
    BY <2>1, <2>2
<1>7. ASSUME NEW p \in governance.loaded
      PROVE  p \in must \cup should
  <2> DEFINE i == because(p, 200, "governance_metadata")
  <2>1. i.path = p
    BY DEF because
  <2>2. i.path \in must \/ i \in further
    BY DEF should_read
  <2>3. QED
    BY <2>1, <2>2
<1>8. ASSUME NEW p \in must, p \in DOMAIN rows
      PROVE  pack.must_read_files[p].editable = rows[p].editable
  BY <1>1, <1>8 DEF context
<1> HIDE DEF must, should, inclusions, further
<1>9. {s.file : s \in pack.affected_symbols} \subseteq must \cup should
  BY <1>1, <1>6
<1>10. QED
  BY <1>2, <1>3, <1>4, <1>5, <1>7, <1>8, <1>9

\* ReadingListIsWhole: whatever is edited while the oracle reads, its pack
\* lists a file once, leaves out no changed path and no file of an affected
\* crate that offers symbols, and agrees with the stored rows.
THEOREM ReadingListHolds == Spec => []ReadingListIsWhole
<1>1. PackInv => ReadingListIsWhole
  <2> SUFFICES ASSUME PackInv, oracle.pc = "done"
               PROVE  ReadingListIsWhole
    BY DEF ReadingListIsWhole
  <2> QED
    BY WholeList DEF PackInv, ReadingListIsWhole
<1>2. QED
  BY <1>1, PackInit, PackNext, PTL DEF Spec

-----------------------------------------------------------------------------
(* Paths *)

\* Positions are naturals, so a set of them has a least element.
LEMMA Least ==
  ASSUME NEW S \in SUBSET Nat, S # {}
  PROVE  \E m \in S : \A k \in S : m <= k
<1> DEFINE R == OpToRel(<, Nat)
<1>1. IsWellFoundedOn(R, Nat)
  BY NatLessThanWellFounded
<1>2. PICK m \in S : \A k \in S : <<k, m>> \notin R
  <2> HIDE DEF R
  <2> QED BY <1>1, WFMin
<1>3. \A k \in S : ~(k < m)
  BY <1>2 DEF OpToRel
<1>4. QED
  BY <1>3

\* The segments of a path that is kept, as clean builds it.
Keeps(kept, path, last) ==
  kept = [n \in 0 .. last |->
             IF n = 0 THEN <<>>
             ELSE IF path[n] = "." THEN kept[n - 1]
             ELSE Append(kept[n - 1], path[n])]

LEMMA KeptExists ==
  ASSUME NEW path
  PROVE  \A last \in Nat : \E kept : Keeps(kept, path, last)
<1> DEFINE Bad == {m \in Nat : ~ \E kept : Keeps(kept, path, m)}
<1> SUFFICES ASSUME Bad # {} PROVE FALSE
  OBVIOUS
<1>1. PICK m \in Bad : \A k \in Bad : m <= k
  BY Least
<1>2. m \in Nat /\ ~ \E kept : Keeps(kept, path, m)
  OBVIOUS
<1>3. m # 0
  <2>1. Keeps([n \in 0 .. 0 |-> <<>>], path, 0)
    BY DEF Keeps
  <2>2. QED
    BY <1>2, <2>1
<1>4. m - 1 \in Nat /\ m - 1 \notin Bad
  BY <1>1, <1>2, <1>3
<1>5. PICK shorter : Keeps(shorter, path, m - 1)
  BY <1>4
<1> DEFINE kept == [n \in 0 .. m |-> IF n < m THEN shorter[n]
                                     ELSE IF path[m] = "." THEN shorter[m - 1]
                                     ELSE Append(shorter[m - 1], path[m])]
<1>6. ASSUME NEW n \in 0 .. m
      PROVE  kept[n] = IF n = 0 THEN <<>>
                       ELSE IF path[n] = "." THEN kept[n - 1]
                       ELSE Append(kept[n - 1], path[n])
  <2>1. CASE n < m
    <3>1. n \in 0 .. m - 1 /\ (n # 0 => n - 1 \in 0 .. m /\ n - 1 < m)
      BY <2>1, <1>2
    <3>2. shorter[n] = IF n = 0 THEN <<>>
                       ELSE IF path[n] = "." THEN shorter[n - 1]
                       ELSE Append(shorter[n - 1], path[n])
      BY <3>1, <1>5 DEF Keeps
    <3>3. QED
      BY <2>1, <3>1, <3>2
  <2>2. CASE n = m
    <3>1. m - 1 \in 0 .. m /\ m - 1 < m
      BY <1>2, <1>3
    <3>2. QED
      BY <2>2, <3>1, <1>3
  <2>3. QED
    BY <2>1, <2>2, <1>2
<1>7. Keeps(kept, path, m)
  <2>1. kept = [n \in 0 .. m |-> kept[n]]
    OBVIOUS
  <2> HIDE DEF kept
  <2>2. QED
    BY <2>1, <1>6 DEF Keeps
<1>8. QED
  BY <1>2, <1>7

LEMMA CleanKeeps ==
  ASSUME NEW path, Len(path) \in Nat
  PROVE  \E kept : Keeps(kept, path, Len(path)) /\ clean(path) = kept[Len(path)]
<1> DEFINE kept == CHOOSE kept : Keeps(kept, path, Len(path))
<1>1. Keeps(kept, path, Len(path))
  BY KeptExists
<1>2. clean(path) = kept[Len(path)]
  BY DEF clean, Keeps
<1>3. QED
  BY <1>1, <1>2

Segments == STRING \ {"."}

\* What is left of a path is a path without "." segments.
LEMMA CleanIsPlain ==
  ASSUME NEW path \in Seq(STRING)
  PROVE  clean(path) \in Seq(Segments)
<1>1. Len(path) \in Nat
  OBVIOUS
<1>2. PICK kept : Keeps(kept, path, Len(path)) /\ clean(path) = kept[Len(path)]
  BY <1>1, CleanKeeps
<1> DEFINE Bad == {n \in 0 .. Len(path) : kept[n] \notin Seq(Segments)}
<1>3. Bad = {}
  <2> SUFFICES ASSUME Bad # {} PROVE FALSE
    OBVIOUS
  <2>0. Bad \in SUBSET Nat
    BY <1>1
  <2>1. PICK m \in Bad : \A k \in Bad : m <= k
    <3> HIDE DEF Bad
    <3> QED BY <2>0, Least
  <2>2. kept[m] = IF m = 0 THEN <<>>
                  ELSE IF path[m] = "." THEN kept[m - 1]
                  ELSE Append(kept[m - 1], path[m])
    BY <1>2 DEF Keeps
  <2>3. m # 0
    BY <2>2, EmptySeq
  <2>4. m - 1 \in 0 .. Len(path) /\ m - 1 \notin Bad /\ path[m] \in STRING
    BY <2>1, <2>3, <1>1
  <2>5. kept[m - 1] \in Seq(Segments)
    BY <2>4
  <2>6. CASE path[m] = "."
    BY <2>2, <2>3, <2>5, <2>6
  <2>7. CASE path[m] # "."
    <3>1. path[m] \in Segments
      BY <2>4, <2>7 DEF Segments
    <3>2. kept[m] = Append(kept[m - 1], path[m])
      BY <2>2, <2>3, <2>7
    <3>3. Append(kept[m - 1], path[m]) \in Seq(Segments)
      BY <2>5, <3>1, AppendProperties
    <3>4. QED
      BY <3>2, <3>3
  <2>8. QED
    BY <2>6, <2>7
<1>4. Len(path) \in 0 .. Len(path)
  BY <1>1
<1>5. QED
  BY <1>2, <1>3, <1>4

\* A path with at most its first segment a "." is cleaned of that one alone.
LEMMA CleanOfNormal ==
  ASSUME NEW first \in STRING, NEW rest \in Seq(Segments)
  PROVE  clean(<<first>> \o rest) = IF first = "." THEN rest ELSE <<first>> \o rest
<1> DEFINE path == <<first>> \o rest
<1>0. rest \in Seq(STRING) /\ <<first>> \in Seq(STRING)
  BY DEF Segments
<1>1. /\ path \in Seq(STRING) /\ Len(path) = 1 + Len(rest) /\ Len(rest) \in Nat
      /\ path[1] = first
      /\ \A i \in 1 .. Len(rest) : path[i + 1] = rest[i]
  <2>1. Len(<<first>>) = 1 /\ <<first>>[1] = first /\ Len(rest) \in Nat
    BY <1>0
  <2>2. /\ path \in Seq(STRING) /\ Len(path) = Len(<<first>>) + Len(rest)
        /\ \A i \in 1 .. Len(<<first>>) + Len(rest) :
              path[i] = IF i <= Len(<<first>>) THEN <<first>>[i] ELSE rest[i - Len(<<first>>)]
    BY <1>0, ConcatProperties
  <2> HIDE DEF path
  <2>3. \A i \in 1 .. Len(rest) : i + 1 \in 1 .. 1 + Len(rest) /\ ~(i + 1 <= 1) /\ (i + 1) - 1 = i
    BY <2>1
  <2>4. Len(path) = 1 + Len(rest) /\ path[1] = first
    <3>1. 1 \in 1 .. Len(<<first>>) + Len(rest) /\ 1 <= Len(<<first>>)
      BY <2>1
    <3>2. path[1] = <<first>>[1]
      BY <2>2, <3>1
    <3>3. Len(path) = 1 + Len(rest)
      BY <2>1, <2>2
    <3>4. QED
      BY <2>1, <3>2, <3>3
  <2>5. \A i \in 1 .. Len(rest) : path[i + 1] = rest[i]
    <3> TAKE i \in 1 .. Len(rest)
    <3>1. path[i + 1] = rest[(i + 1) - 1]
      BY <2>1, <2>2, <2>3
    <3>2. QED
      BY <3>1, <2>3
  <2>6. QED
    BY <2>1, <2>2, <2>4, <2>5
<1> HIDE DEF path
<1>2. PICK kept : Keeps(kept, path, Len(path)) /\ clean(path) = kept[Len(path)]
  BY <1>1, CleanKeeps
<1> DEFINE part(n) == IF first = "." THEN SubSeq(rest, 1, n)
                      ELSE <<first>> \o SubSeq(rest, 1, n)
           Bad == {n \in 0 .. Len(rest) : kept[n + 1] # part(n)}
<1>3. Bad = {}
  <2> SUFFICES ASSUME Bad # {} PROVE FALSE
    OBVIOUS
  <2>0. Bad \in SUBSET Nat
    BY <1>1
  <2>1. PICK m \in Bad : \A k \in Bad : m <= k
    <3> HIDE DEF Bad
    <3> QED BY <2>0, Least
  <2>2. m \in Nat /\ m + 1 \in 0 .. Len(path)
    BY <1>1, <2>1
  <2>3. kept[m + 1] = IF path[m + 1] = "." THEN kept[m]
                      ELSE Append(kept[m], path[m + 1])
    <3>1. kept[m + 1] = IF m + 1 = 0 THEN <<>>
                        ELSE IF path[m + 1] = "." THEN kept[(m + 1) - 1]
                        ELSE Append(kept[(m + 1) - 1], path[m + 1])
      <4> DEFINE i == m + 1
      <4>1. i \in 0 .. Len(path)
        BY <2>2
      <4> HIDE DEF i
      <4>2. kept[i] = IF i = 0 THEN <<>>
                      ELSE IF path[i] = "." THEN kept[i - 1]
                      ELSE Append(kept[i - 1], path[i])
        BY <4>1, <1>2 DEF Keeps
      <4>3. QED
        BY <4>2 DEF i
    <3>2. (m + 1) - 1 = m /\ m + 1 # 0
      BY <2>2
    <3>3. QED
      BY <3>1, <3>2
  <2>4. CASE m = 0
    <3>1. kept[0] = <<>>
      BY <1>1, <1>2 DEF Keeps
    <3>2. SubSeq(rest, 1, 0) = <<>>
      OBVIOUS
    <3>3. kept[1] = IF first = "." THEN <<>> ELSE <<first>>
      BY <2>3, <2>4, <3>1, <1>1
    <3>4. part(0) = IF first = "." THEN <<>> ELSE <<first>>
      BY <1>0, <3>2, ConcatEmptySeq
    <3>5. QED
      BY <2>4, <3>3, <3>4
  <2>5. CASE m # 0
    <3>1. m - 1 \in 0 .. Len(rest) /\ m - 1 \notin Bad /\ m \in 1 .. Len(rest)
      <4>1. m \in 0 .. Len(rest)
        BY <2>1
      <4>2. m - 1 \in 0 .. Len(rest) /\ m \in 1 .. Len(rest) /\ ~(m <= m - 1)
        BY <4>1, <2>5, <1>1
      <4> HIDE DEF Bad
      <4>3. QED
        BY <4>2, <2>1
    <3>2. kept[m] = part(m - 1)
      BY <3>1, <2>2
    <3>3. path[m + 1] = rest[m] /\ rest[m] \in Segments
      BY <3>1, <1>1
    <3>4. kept[m + 1] = Append(part(m - 1), rest[m])
      BY <2>3, <3>2, <3>3 DEF Segments
    <3>5. SubSeq(rest, 1, m) = Append(SubSeq(rest, 1, m - 1), rest[m])
      BY <3>1
    <3>6. <<first>> \o Append(SubSeq(rest, 1, m - 1), rest[m])
            = Append(<<first>> \o SubSeq(rest, 1, m - 1), rest[m])
      <4>1. SubSeq(rest, 1, m - 1) \in Seq(STRING) /\ rest[m] \in STRING
        BY <1>0, <3>1, <3>3 DEF Segments
      <4>2. QED
        BY <4>1, <1>0
    <3>7. QED
      BY <3>4, <3>5, <3>6
  <2>6. QED
    BY <2>4, <2>5
<1>4. Len(rest) \in 0 .. Len(rest)
  BY <1>1
<1>5. clean(path) = part(Len(rest))
  BY <1>1, <1>2, <1>3, <1>4
<1>6. SubSeq(rest, 1, Len(rest)) = rest
  OBVIOUS
<1>7. QED
  BY <1>5, <1>6 DEF path

\* A path without "." is its own.
LEMMA CleanOfPlain ==
  ASSUME NEW path \in Seq(Segments)
  PROVE  clean(path) = path
<1>1. CASE path = <<>>
  <2>1. PICK kept : Keeps(kept, path, 0) /\ clean(path) = kept[0]
    BY <1>1, CleanKeeps
  <2>2. QED
    BY <1>1, <2>1 DEF Keeps
<1>2. CASE path # <<>>
  <2>1. /\ Head(path) \in STRING /\ Head(path) # "." /\ Tail(path) \in Seq(Segments)
        /\ path = <<Head(path)>> \o Tail(path)
    BY <1>2 DEF Segments
  <2>2. QED
    BY <2>1, CleanOfNormal
<1>3. QED
  BY <1>1, <1>2

LEMMA PathsArePlain == Paths \subseteq Seq(Segments)
<1>1. \A i \in 1 .. Len(PathOrder) : PathOrder[i] \in Seq(Segments)
  BY PathsAreNames, ElementOfSeq DEF Segments
<1>2. DOMAIN PathOrder = 1 .. Len(PathOrder)
  BY PathsAreNames, LenProperties
<1>3. QED
  BY <1>1, <1>2 DEF Paths, ToSet

-----------------------------------------------------------------------------
(* The walk along the dependencies *)

\* The levels of the walk, as transitive_reverse_dependencies_of builds them.
Walks(seen, packages, name, last) ==
  seen = [n \in 0 .. last |->
             IF n = 0 THEN direct_reverse_dependencies_of(packages, name)
             ELSE seen[n - 1]
                      \cup UNION {direct_reverse_dependencies_of(packages, k) : k \in seen[n - 1]}]

LEMMA WalkExists ==
  ASSUME NEW packages, NEW name
  PROVE  \A last \in Nat : \E seen : Walks(seen, packages, name, last)
<1> DEFINE first == direct_reverse_dependencies_of(packages, name)
           next(level) == level
               \cup UNION {direct_reverse_dependencies_of(packages, k) : k \in level}
           Bad == {m \in Nat : ~ \E seen : Walks(seen, packages, name, m)}
<1> SUFFICES ASSUME Bad # {} PROVE FALSE
  OBVIOUS
<1>1. PICK m \in Bad : \A k \in Bad : m <= k
  BY Least
<1>2. m \in Nat /\ ~ \E seen : Walks(seen, packages, name, m)
  OBVIOUS
<1>3. m # 0
  <2>1. Walks([n \in 0 .. 0 |-> first], packages, name, 0)
    BY DEF Walks
  <2>2. QED
    BY <1>2, <2>1
<1>4. m - 1 \in Nat /\ m - 1 \notin Bad
  BY <1>1, <1>2, <1>3
<1>5. PICK shorter : Walks(shorter, packages, name, m - 1)
  BY <1>4
<1> HIDE DEF first
<1> DEFINE seen == [n \in 0 .. m |-> IF n < m THEN shorter[n] ELSE next(shorter[m - 1])]
<1>6. ASSUME NEW n \in 0 .. m
      PROVE  seen[n] = IF n = 0 THEN first ELSE next(seen[n - 1])
  <2>1. CASE n < m
    <3>1. n \in 0 .. m - 1 /\ (n # 0 => n - 1 \in 0 .. m /\ n - 1 < m)
      BY <2>1, <1>2
    <3>2. shorter[n] = IF n = 0 THEN first ELSE next(shorter[n - 1])
      BY <3>1, <1>5 DEF Walks, first
    <3>3. QED
      BY <2>1, <3>1, <3>2
  <2>2. CASE n = m
    <3>1. m - 1 \in 0 .. m /\ m - 1 < m /\ m \in 0 .. m /\ ~(m < m)
      BY <1>2, <1>3
    <3>2. seen[m] = next(shorter[m - 1]) /\ seen[m - 1] = shorter[m - 1]
      BY <3>1
    <3>3. QED
      BY <2>2, <3>2, <1>3
  <2>3. QED
    BY <2>1, <2>2, <1>2
<1>7. Walks(seen, packages, name, m)
  <2>1. seen = [n \in 0 .. m |-> seen[n]]
    OBVIOUS
  <2> HIDE DEF seen
  <2>2. QED
    BY <2>1, <1>6 DEF Walks, first
<1>8. QED
  BY <1>2, <1>7

\* The walk ends with the packages it began with, and more.
LEMMA DirectAreReached ==
  ASSUME NEW packages, NEW name, IsFiniteSet(DOMAIN packages)
  PROVE  direct_reverse_dependencies_of(packages, name)
           \subseteq transitive_reverse_dependencies_of(packages, name)
<1> DEFINE first == direct_reverse_dependencies_of(packages, name)
           last == Cardinality(DOMAIN packages)
           seen == CHOOSE seen : Walks(seen, packages, name, last)
<1>1. last \in Nat
  BY FS_CardinalityType
<1>2. Walks(seen, packages, name, last)
  BY <1>1, WalkExists
<1>3. transitive_reverse_dependencies_of(packages, name) = seen[last]
  BY DEF transitive_reverse_dependencies_of, Walks
<1> HIDE DEF seen, last, first
<1> DEFINE Bad == {n \in 0 .. last : ~(first \subseteq seen[n])}
<1>4. Bad = {}
  <2> SUFFICES ASSUME Bad # {} PROVE FALSE
    OBVIOUS
  <2>0. Bad \in SUBSET Nat
    BY <1>1
  <2>1. PICK m \in Bad : \A k \in Bad : m <= k
    <3> HIDE DEF Bad
    <3> QED BY <2>0, Least
  <2>2. m # 0
    <3>1. seen[0] = first
      BY <1>1, <1>2 DEF Walks, first
    <3>2. QED
      BY <3>1
  <2>3. m \in 0 .. last /\ m - 1 \in 0 .. last /\ ~(m <= m - 1)
    BY <2>2, <1>1
  <2>4. m - 1 \notin Bad
    <3> HIDE DEF Bad
    <3> QED BY <2>1, <2>3
  <2>5. seen[m - 1] \subseteq seen[m]
    BY <1>2, <2>2, <2>3 DEF Walks
  <2>6. QED
    BY <2>3, <2>4, <2>5
<1>5. last \in 0 .. last
  BY <1>1
<1>6. QED
  BY <1>3, <1>4, <1>5 DEF first

\* The walk is complete: what depends on a package it reached is reached.  (Each
\* level that is not closed adds a package, and there are only so many.)
LEMMA WalkIsClosed ==
  ASSUME NEW packages, NEW name, IsFiniteSet(DOMAIN packages)
  PROVE  /\ transitive_reverse_dependencies_of(packages, name) \subseteq DOMAIN packages
         /\ \A k \in transitive_reverse_dependencies_of(packages, name) :
               direct_reverse_dependencies_of(packages, k)
                   \subseteq transitive_reverse_dependencies_of(packages, name)
<1> DEFINE last == Cardinality(DOMAIN packages)
           direct(k) == direct_reverse_dependencies_of(packages, k)
           seen == CHOOSE seen : Walks(seen, packages, name, last)
           Closed(S) == \A k \in S : direct(k) \subseteq S
           Good(n) == /\ seen[n] \subseteq DOMAIN packages
                      /\ Closed(seen[n]) \/ Cardinality(seen[n]) >= n
           Bad == {n \in 0 .. last : ~Good(n)}
<1>1. last \in Nat
  BY FS_CardinalityType
<1>2. Walks(seen, packages, name, last)
  BY <1>1, WalkExists
<1>3. transitive_reverse_dependencies_of(packages, name) = seen[last]
  BY DEF transitive_reverse_dependencies_of, Walks
<1>4. \A k : direct(k) \subseteq DOMAIN packages
  BY DEF direct_reverse_dependencies_of
<1> HIDE DEF seen, last
<1>5. /\ seen[0] = direct(name)
      /\ \A n \in 0 .. last : n # 0 =>
            seen[n] = seen[n - 1] \cup UNION {direct(k) : k \in seen[n - 1]}
  <2>1. 0 \in 0 .. last
    BY <1>1
  <2>2. QED
    BY <1>2, <2>1 DEF Walks
<1> HIDE DEF direct
<1>6. Bad = {}
  <2> SUFFICES ASSUME Bad # {} PROVE FALSE
    OBVIOUS
  <2>1. PICK m \in Bad : \A k \in Bad : m <= k
    <3>1. Bad \in SUBSET Nat
      BY <1>1
    <3> HIDE DEF Bad
    <3>2. QED BY <3>1, Least
  <2>2. m # 0
    <3>1. IsFiniteSet(seen[0]) /\ seen[0] \subseteq DOMAIN packages
      BY <1>4, <1>5, FS_Subset
    <3>2. Cardinality(seen[0]) >= 0
      BY <3>1, FS_CardinalityType
    <3>3. QED
      BY <3>1, <3>2
  <2>3. m \in 0 .. last /\ m - 1 \in 0 .. last /\ ~(m <= m - 1) /\ ~Good(m)
    BY <2>2, <1>1
  <2>4. Good(m - 1)
    <3>1. m - 1 \notin Bad
      <4> HIDE DEF Bad
      <4> QED BY <2>1, <2>3
    <3> HIDE DEF Good
    <3>2. QED
      BY <2>3, <3>1
  <2> DEFINE before == seen[m - 1]
             next == UNION {direct(k) : k \in before}
  <2>5. seen[m] = before \cup next
    BY <1>5, <2>2, <2>3
  <2>6. next \subseteq DOMAIN packages /\ before \subseteq DOMAIN packages
    BY <1>4, <2>4
  <2>7. CASE next \subseteq before
    <3>1. seen[m] = before /\ Closed(before)
      BY <2>5, <2>7
    <3> HIDE DEF Closed
    <3>2. QED
      BY <2>3, <2>6, <3>1
  <2>8. CASE ~(next \subseteq before)
    <3>1. PICK x \in next : x \notin before
      BY <2>8
    <3>2. ~Closed(before)
      BY <3>1
    <3> HIDE DEF next, before, Closed
    <3>3. Cardinality(before) >= m - 1
      BY <2>4, <3>2 DEF before
    <3>4. /\ IsFiniteSet(before) /\ IsFiniteSet(seen[m])
          /\ before \cup {x} \subseteq seen[m] /\ seen[m] \subseteq DOMAIN packages
      BY <2>5, <2>6, <3>1, FS_Subset
    <3>5. Cardinality(before \cup {x}) = Cardinality(before) + 1
      BY <3>1, <3>4, FS_AddElement
    <3>6. Cardinality(before \cup {x}) <= Cardinality(seen[m])
      BY <3>4, FS_Subset
    <3>7. Cardinality(before) \in Nat /\ Cardinality(seen[m]) \in Nat
      BY <3>4, FS_CardinalityType
    <3>8. Cardinality(seen[m]) >= m
      BY <2>3, <3>3, <3>5, <3>6, <3>7
    <3>9. QED
      BY <2>3, <3>4, <3>8
  <2>9. QED
    BY <2>7, <2>8
<1>7. Good(last)
  <2> HIDE DEF Good
  <2>1. last \in 0 .. last
    BY <1>1
  <2>2. QED
    BY <1>6, <2>1
<1>8. Closed(seen[last])
  <2> SUFFICES ASSUME ~Closed(seen[last]) PROVE FALSE
    OBVIOUS
  <2> HIDE DEF Closed
  <2>1. seen[last] \subseteq DOMAIN packages /\ Cardinality(seen[last]) >= last
    BY <1>7
  <2>2. /\ Cardinality(seen[last]) \in Nat /\ Cardinality(seen[last]) <= last
        /\ last = Cardinality(seen[last]) => DOMAIN packages = seen[last]
    BY <2>1, FS_Subset, FS_CardinalityType DEF last
  <2>3. seen[last] = DOMAIN packages
    BY <1>1, <2>1, <2>2
  <2>4. Closed(DOMAIN packages)
    BY <1>4 DEF Closed
  <2>5. QED
    BY <2>3, <2>4
<1>9. QED
  BY <1>3, <1>7, <1>8 DEF direct

\* What uses a user of a package uses the package.
LEMMA WalkNests ==
  ASSUME NEW packages, IsFiniteSet(DOMAIN packages), NEW name,
         NEW user \in direct_reverse_dependencies_of(packages, name)
  PROVE  with_reverse(packages, user) \subseteq with_reverse(packages, name)
<1> DEFINE last == Cardinality(DOMAIN packages)
           direct(k) == direct_reverse_dependencies_of(packages, k)
           whole == transitive_reverse_dependencies_of(packages, name)
           seen == CHOOSE seen : Walks(seen, packages, user, last)
           Bad == {n \in 0 .. last : ~(seen[n] \subseteq whole)}
<1>1. last \in Nat
  BY FS_CardinalityType
<1>2. Walks(seen, packages, user, last)
  BY <1>1, WalkExists
<1>3. transitive_reverse_dependencies_of(packages, user) = seen[last]
  BY DEF transitive_reverse_dependencies_of, Walks
<1>4. user \in whole /\ \A k \in whole : direct(k) \subseteq whole
  BY DirectAreReached, WalkIsClosed
<1> HIDE DEF seen, last
<1>5. /\ seen[0] = direct(user)
      /\ \A n \in 0 .. last : n # 0 =>
            seen[n] = seen[n - 1] \cup UNION {direct(k) : k \in seen[n - 1]}
  <2>1. 0 \in 0 .. last
    BY <1>1
  <2>2. QED
    BY <1>2, <2>1 DEF Walks
<1> HIDE DEF direct, whole
<1>6. Bad = {}
  <2> SUFFICES ASSUME Bad # {} PROVE FALSE
    OBVIOUS
  <2>1. PICK m \in Bad : \A k \in Bad : m <= k
    <3>1. Bad \in SUBSET Nat
      BY <1>1
    <3> HIDE DEF Bad
    <3>2. QED BY <3>1, Least
  <2>2. m # 0
    BY <1>4, <1>5
  <2>3. m \in 0 .. last /\ m - 1 \in 0 .. last /\ ~(m <= m - 1)
    BY <2>2, <1>1
  <2>4. m - 1 \notin Bad
    <3> HIDE DEF Bad
    <3> QED BY <2>1, <2>3
  <2>5. QED
    BY <1>4, <1>5, <2>2, <2>3, <2>4
<1>7. last \in 0 .. last
  BY <1>1
<1>8. QED
  BY <1>3, <1>4, <1>6, <1>7 DEF with_reverse, whole

-----------------------------------------------------------------------------
(* Reading the manifests *)

LoadFields == {"todo", "packages", "ok"}

\* What holds of a load whatever is edited while it reads.
LoadShape(load) ==
  /\ DOMAIN load = LoadFields
  /\ IsFiniteSet(DOMAIN load.packages)
  /\ load.ok /\ load.todo = <<>> => DOMAIN load.packages # {}

LEMMA FailedShape == LoadShape(Failed) /\ ~Failed.ok
<1>1. DOMAIN <<>> = {}
  BY EmptySeq, LenProperties
<1>2. QED
  BY <1>1, FS_EmptySet DEF LoadShape, LoadFields, Failed

LEMMA StartShape ==
  ASSUME NEW d
  PROVE  LoadShape(StartLoad(d))
<1>1. DOMAIN <<>> = {}
  BY EmptySeq, LenProperties
<1> DEFINE members == parse_workspace_members(d[<<"Cargo.toml">>])
           load == [todo |-> members, packages |-> <<>>, ok |-> TRUE]
<1>2. members # <<>> => LoadShape(load)
  <2> HIDE DEF members
  <2> QED BY <1>1, FS_EmptySet DEF LoadShape, LoadFields
<1>3. StartLoad(d) = Failed \/ (members # <<>> /\ StartLoad(d) = load)
  BY DEF StartLoad
<1>4. QED
  BY <1>2, <1>3, FailedShape

\* The packages after one more manifest.
WithPackage(packages, manifest, dir) ==
  [k \in DOMAIN packages \cup {manifest.package} |->
      IF k = manifest.package THEN parse_package_manifest(manifest, dir) ELSE packages[k]]

\* The load once its next manifest is read.
ReadsOn(d, load, next) ==
  LET dir == Head(load.todo)
      rest == Tail(load.todo)
      packages == WithPackage(load.packages, d[manifest_of(dir)], dir)
  IN  /\ exists(d, manifest_of(dir))
      /\ d[manifest_of(dir)].package # NoPackage
      /\ DOMAIN next = LoadFields
      /\ next.ok = load.ok
      /\ next.todo = rest
      /\ next.packages = IF rest = <<>> THEN retain_members(packages) ELSE packages

LEMMA ReadMemberCases ==
  ASSUME NEW d, NEW load, DOMAIN load = LoadFields
  PROVE  ReadMember(d, load) = Failed \/ ReadsOn(d, load, ReadMember(d, load))
<1> DEFINE dir == Head(load.todo)
           rest == Tail(load.todo)
           packages == WithPackage(load.packages, d[manifest_of(dir)], dir)
           after == IF rest = <<>> THEN retain_members(packages) ELSE packages
<1>1. \/ ReadMember(d, load) = Failed
      \/ /\ exists(d, manifest_of(dir))
         /\ d[manifest_of(dir)].package # NoPackage
         /\ ReadMember(d, load) = [load EXCEPT !.todo = rest, !.packages = after]
  BY DEF ReadMember, WithPackage
<1> HIDE DEF dir, rest, packages, after
<1> DEFINE next == [load EXCEPT !.todo = rest, !.packages = after]
<1>2. DOMAIN next = LoadFields /\ next.ok = load.ok /\ next.todo = rest /\ next.packages = after
  BY DEF LoadFields
<1>3. QED
  BY <1>1, <1>2 DEF ReadsOn, dir, rest, packages, after

LEMMA RetainedNames ==
  ASSUME NEW packages
  PROVE  DOMAIN retain_members(packages) = DOMAIN packages
BY DEF retain_members

LEMMA ReadShape ==
  ASSUME NEW d, NEW load, LoadShape(load)
  PROVE  LoadShape(ReadMember(d, load))
<1> DEFINE dir == Head(load.todo)
           packages == WithPackage(load.packages, d[manifest_of(dir)], dir)
<1>1. IsFiniteSet(DOMAIN packages) /\ DOMAIN packages # {}
  <2>1. DOMAIN packages = DOMAIN load.packages \cup {d[manifest_of(dir)].package}
    BY DEF WithPackage
  <2>2. QED
    BY <2>1, FS_AddElement DEF LoadShape
<1>2. \/ ReadMember(d, load) = Failed
      \/ /\ DOMAIN ReadMember(d, load) = LoadFields
         /\ \/ ReadMember(d, load).packages = packages
            \/ ReadMember(d, load).packages = retain_members(packages)
  BY ReadMemberCases DEF LoadShape, ReadsOn
<1>3. QED
  BY <1>1, <1>2, FailedShape, RetainedNames DEF LoadShape

-----------------------------------------------------------------------------
(* What a load reads while the manifests stand *)

DiskIsCheckout(d) == DOMAIN d = Paths /\ \A p \in Paths : PlainMembers(p, d[p])

MembersOf(d) == parse_workspace_members(d[<<"Cargo.toml">>])
ManifestAt(d, i) == d[manifest_of(MembersOf(d)[i])]

\* The packages of the first members, the last of a name counting.
Collects(d, packages, count) ==
  /\ packages = [k \in DOMAIN packages |-> packages[k]]
  /\ DOMAIN packages = {ManifestAt(d, i).package : i \in 1 .. count}
  /\ \A i \in 1 .. count :
        (\A j \in i + 1 .. count : ManifestAt(d, j).package # ManifestAt(d, i).package) =>
            packages[ManifestAt(d, i).package]
                = parse_package_manifest(ManifestAt(d, i), MembersOf(d)[i])

\* The load has read the first members of the checkout d.
Reads(d, load, count) ==
  /\ DOMAIN load = LoadFields
  /\ load.ok
  /\ <<"Cargo.toml">> \in Paths
  /\ MembersOf(d) \in Seq(Seq(Segments))
  /\ MembersOf(d) # <<>>
  /\ count \in 0 .. Len(MembersOf(d))
  /\ load.todo = SubSeq(MembersOf(d), count + 1, Len(MembersOf(d)))
  /\ \A i \in 1 .. count : manifest_of(MembersOf(d)[i]) \in Manifests(d)
  /\ \E packages :
        /\ Collects(d, packages, count)
        /\ load.packages = IF count = Len(MembersOf(d)) THEN retain_members(packages)
                           ELSE packages

LEMMA ManifestIsPlain ==
  ASSUME NEW dir \in Seq(Segments), NEW d
  PROVE  /\ manifest_of(dir) \in Seq(Segments)
         /\ clean(manifest_of(dir)) = manifest_of(dir)
         /\ Last(manifest_of(dir)) = "Cargo.toml"
         /\ exists(d, manifest_of(dir)) <=>
                manifest_of(dir) \in Paths /\ d[manifest_of(dir)] # Gone
<1>1. "Cargo.toml" \in Segments
  BY NamesAreStrings DEF Segments
<1>2. <<"Cargo.toml">> \in Seq(Segments) /\ Len(<<"Cargo.toml">>) = 1
      /\ <<"Cargo.toml">>[1] = "Cargo.toml"
  BY <1>1
<1>3. manifest_of(dir) \in Seq(Segments)
  BY <1>2, ConcatProperties DEF manifest_of
<1>4. manifest_of(dir)[Len(dir) + 1] = "Cargo.toml" /\ Len(manifest_of(dir)) = Len(dir) + 1
  <2>1. Len(dir) \in Nat
    BY LenProperties
  <2>2. /\ Len(manifest_of(dir)) = Len(dir) + Len(<<"Cargo.toml">>)
        /\ \A i \in 1 .. Len(dir) + Len(<<"Cargo.toml">>) :
              manifest_of(dir)[i] = IF i <= Len(dir) THEN dir[i]
                                    ELSE <<"Cargo.toml">>[i - Len(dir)]
    BY <1>2, ConcatProperties DEF manifest_of
  <2>3. Len(dir) + 1 \in 1 .. Len(dir) + Len(<<"Cargo.toml">>) /\ ~(Len(dir) + 1 <= Len(dir))
        /\ (Len(dir) + 1) - Len(dir) = 1
    BY <1>2, <2>1
  <2>4. QED
    BY <1>2, <2>1, <2>2, <2>3
<1>5. clean(manifest_of(dir)) = manifest_of(dir)
  BY <1>3, CleanOfPlain
<1>6. QED
  BY <1>3, <1>4, <1>5 DEF Last, exists

LEMMA RootManifest == manifest_of(<<>>) = <<"Cargo.toml">> /\ <<>> \in Seq(Segments)
<1>1. <<"Cargo.toml">> \in Seq(STRING)
  BY NamesAreStrings
<1>2. QED
  BY <1>1, ConcatEmptySeq, EmptySeq DEF manifest_of

LEMMA StartReads ==
  ASSUME NEW d, DiskIsCheckout(d), StartLoad(d).ok
  PROVE  Reads(d, StartLoad(d), 0) /\ StartLoad(d).todo # <<>>
<1> DEFINE members == MembersOf(d)
           load == [todo |-> members, packages |-> <<>>, ok |-> TRUE]
<1>1. exists(d, <<"Cargo.toml">>) /\ members # <<>> /\ StartLoad(d) = load
  BY FailedShape DEF StartLoad, MembersOf
<1>2. /\ <<"Cargo.toml">> \in Paths /\ d[<<"Cargo.toml">>] # Gone
      /\ Last(<<"Cargo.toml">>) = "Cargo.toml"
  BY <1>1, RootManifest, ManifestIsPlain
<1>3. members \in Seq(Seq(Segments))
  BY <1>2 DEF DiskIsCheckout, PlainMembers, MembersOf, Segments
<1> HIDE DEF members
<1>4. /\ DOMAIN load = LoadFields /\ load.ok /\ load.todo = members /\ load.packages = <<>>
  BY DEF LoadFields
<1>5. Len(members) \in Nat /\ 0 \in 0 .. Len(members) /\ 0 # Len(members)
  BY <1>1, <1>3, EmptySeq, LenProperties
<1>6. SubSeq(members, 0 + 1, Len(members)) = members
  BY <1>3, SubSeqFull
<1>7. Collects(d, <<>>, 0)
  <2>1. DOMAIN <<>> = {}
    BY EmptySeq, LenProperties
  <2>2. <<>> = [k \in DOMAIN <<>> |-> <<>>[k]]
    BY <2>1
  <2>3. 1 .. 0 = {}
    OBVIOUS
  <2>4. QED
    BY <2>1, <2>2, <2>3 DEF Collects
<1>8. QED
  BY <1>1, <1>2, <1>3, <1>4, <1>5, <1>6, <1>7 DEF Reads, members

LEMMA StepReads ==
  ASSUME NEW d, DiskIsCheckout(d), NEW load, NEW count, Reads(d, load, count),
         load.todo # <<>>, ReadMember(d, load).ok
  PROVE  Reads(d, ReadMember(d, load), count + 1)
<1> DEFINE members == MembersOf(d)
           dir == Head(load.todo)
           rest == Tail(load.todo)
           next == ReadMember(d, load)
<1>1. /\ DOMAIN load = LoadFields /\ load.ok
      /\ members \in Seq(Seq(Segments)) /\ Len(members) \in Nat
      /\ count \in 0 .. Len(members)
      /\ load.todo = SubSeq(members, count + 1, Len(members))
  BY LenProperties DEF Reads
<1>2. count < Len(members) /\ count + 1 \in 1 .. Len(members) /\ Len(members) \in count + 1 .. Len(members)
  BY <1>1, SubSeqEmpty
<1>3. dir = members[count + 1] /\ rest = SubSeq(members, (count + 1) + 1, Len(members))
  BY <1>1, <1>2, HeadTailOfSubSeq
<1>4. rest = <<>> <=> count + 1 = Len(members)
  <2>1. CASE count + 1 = Len(members)
    BY <2>1, <1>1, <1>2, <1>3, SubSeqEmpty
  <2>2. CASE count + 1 # Len(members)
    <3>1. /\ count + 2 \in 1 .. Len(members) /\ Len(members) \in count + 2 .. Len(members)
          /\ (count + 1) + 1 = count + 2
      BY <1>1, <1>2, <2>2
    <3>2. \A i \in count + 2 .. Len(members) : members[i] \in Seq(Segments)
      BY <1>1, <3>1, LenProperties
    <3>3. Len(SubSeq(members, count + 2, Len(members))) = Len(members) - (count + 2) + 1
      <4>1. count + 2 \in Int /\ Len(members) \in Int /\ count + 2 <= Len(members)
        BY <1>1, <3>1
      <4> DEFINE S == Seq(Segments)
      <4>2. \A i \in count + 2 .. Len(members) : members[i] \in S
        BY <3>2
      <4> HIDE DEF members, S
      <4>3. QED
        BY <4>1, <4>2, SubSeqProperties
    <3>4. Len(rest) # 0
      <4>1. rest = SubSeq(members, count + 2, Len(members))
        BY <3>1, <1>3
      <4>2. count \in Int /\ Len(members) \in Int /\ count + 2 <= Len(members)
        BY <1>1, <3>1
      <4> HIDE DEF members, rest
      <4>3. QED
        BY <3>3, <4>1, <4>2
    <3>5. QED
      BY <2>2, <3>4, EmptySeq
  <2>3. QED
    BY <2>1, <2>2
<1>5. dir \in Seq(Segments)
  BY <1>1, <1>2, <1>3, LenProperties
<1> DEFINE manifest == d[manifest_of(dir)]
<1>6. PICK packages : /\ Collects(d, packages, count)
                      /\ load.packages = IF count = Len(members) THEN retain_members(packages)
                                         ELSE packages
  BY DEF Reads
<1>7. load.packages = packages
  BY <1>2, <1>6, <1>1
<1> DEFINE more == WithPackage(packages, manifest, dir)
<1>8. /\ exists(d, manifest_of(dir)) /\ manifest.package # NoPackage
      /\ DOMAIN next = LoadFields /\ next.ok /\ next.todo = rest
      /\ next.packages = IF rest = <<>> THEN retain_members(more) ELSE more
  <2>1. ReadMember(d, load) # Failed
    BY FailedShape
  <2>2. more = WithPackage(load.packages, d[manifest_of(Head(load.todo))], Head(load.todo))
    BY <1>7
  <2> DEFINE read == WithPackage(load.packages, d[manifest_of(Head(load.todo))], Head(load.todo))
  <2>3. /\ exists(d, manifest_of(dir))
        /\ d[manifest_of(dir)].package # NoPackage
        /\ DOMAIN ReadMember(d, load) = LoadFields
        /\ ReadMember(d, load).ok = load.ok
        /\ ReadMember(d, load).todo = rest
        /\ ReadMember(d, load).packages = IF rest = <<>> THEN retain_members(read) ELSE read
    <3>1. ReadsOn(d, load, ReadMember(d, load))
      BY <1>1, <2>1, ReadMemberCases
    <3>2. QED
      BY <3>1 DEF ReadsOn
  <2> HIDE DEF more, read
  <2>4. QED
    BY <1>1, <2>2, <2>3 DEF read
<1>9. manifest_of(dir) \in Manifests(d)
  BY <1>5, <1>8, ManifestIsPlain DEF Manifests
<1>10. manifest = ManifestAt(d, count + 1) /\ dir = MembersOf(d)[count + 1]
  BY <1>3 DEF ManifestAt
<1>11. Collects(d, more, count + 1)
  <2> HIDE DEF members, dir, rest, next, manifest
  <2>1. 1 .. count + 1 = (1 .. count) \cup {count + 1}
    <3>1. count \in Nat
      BY <1>1
    <3>2. QED
      BY <3>1
  <2>2. DOMAIN more = DOMAIN packages \cup {manifest.package}
    BY DEF WithPackage
  <2>3. DOMAIN more = {ManifestAt(d, i).package : i \in 1 .. count + 1}
    <3>1. DOMAIN packages = {ManifestAt(d, i).package : i \in 1 .. count}
      BY <1>6 DEF Collects
    <3>2. manifest.package = ManifestAt(d, count + 1).package
      BY <1>10
    <3> HIDE DEF more
    <3>3. QED
      BY <2>1, <2>2, <3>1, <3>2
  <2>4. more = [k \in DOMAIN more |-> more[k]]
    BY DEF WithPackage
  <2>5. ASSUME NEW i \in 1 .. count + 1,
               \A j \in i + 1 .. count + 1 : ManifestAt(d, j).package # ManifestAt(d, i).package
        PROVE  more[ManifestAt(d, i).package]
                 = parse_package_manifest(ManifestAt(d, i), MembersOf(d)[i])
    <3>1. CASE i = count + 1
      BY <3>1, <1>10 DEF WithPackage
    <3>2. CASE i # count + 1
      <4>1. i \in 1 .. count /\ count + 1 \in i + 1 .. count + 1
            /\ \A j \in i + 1 .. count : j \in i + 1 .. count + 1
        BY <1>1, <3>2
      <4>2. ManifestAt(d, i).package # manifest.package
        BY <2>5, <4>1, <1>10
      <4>3. packages[ManifestAt(d, i).package]
              = parse_package_manifest(ManifestAt(d, i), MembersOf(d)[i])
        BY <2>5, <4>1, <1>6 DEF Collects
      <4>4. ManifestAt(d, i).package \in DOMAIN packages
        BY <4>1, <1>6 DEF Collects
      <4>5. QED
        BY <4>2, <4>3, <4>4 DEF WithPackage
    <3>3. QED
      BY <3>1, <3>2
  <2> HIDE DEF more
  <2>6. QED
    BY <2>3, <2>4, <2>5 DEF Collects
<1>12. \A i \in 1 .. count + 1 : manifest_of(members[i]) \in Manifests(d)
  <2>1. ASSUME NEW i \in 1 .. count + 1
        PROVE  manifest_of(members[i]) \in Manifests(d)
    <3>1. i \in 1 .. count \/ i = count + 1
      BY <1>1
    <3> HIDE DEF dir
    <3>2. QED
      BY <3>1, <1>3, <1>9 DEF Reads
  <2>2. QED
    BY <2>1
<1> HIDE DEF dir, rest, next, more
<1>13. count + 1 \in 0 .. Len(members)
  BY <1>1, <1>2
<1>14. QED
  BY <1>1, <1>3, <1>4, <1>8, <1>11, <1>12, <1>13 DEF Reads, next

\* Two checkouts with the same manifests read alike.
SameManifests(d, e) ==
  \A p \in Paths : Last(p) = "Cargo.toml" => e[p] = d[p]

LEMMA SameReads ==
  ASSUME NEW d, NEW e, SameManifests(d, e), NEW load, NEW count, Reads(d, load, count)
  PROVE  Reads(e, load, count)
<1>1. MembersOf(e) = MembersOf(d)
  <2>1. Last(<<"Cargo.toml">>) = "Cargo.toml"
    BY RootManifest, ManifestIsPlain
  <2>2. e[<<"Cargo.toml">>] = d[<<"Cargo.toml">>]
    BY <2>1 DEF SameManifests, Reads
  <2>3. QED
    BY <2>2 DEF MembersOf
<1>2. Manifests(e) = Manifests(d)
  BY DEF SameManifests, Manifests
<1>3. \A i \in 1 .. count : ManifestAt(e, i) = ManifestAt(d, i)
  <2> TAKE i \in 1 .. count
  <2>1. manifest_of(MembersOf(d)[i]) \in Manifests(d)
    BY DEF Reads
  <2>2. QED
    BY <2>1, <1>1 DEF ManifestAt, Manifests, SameManifests
<1>4. ASSUME NEW packages, Collects(d, packages, count)
      PROVE  Collects(e, packages, count)
  <2>0. count \in Nat
    BY LenProperties DEF Reads
  <2>1. {ManifestAt(e, i).package : i \in 1 .. count} = {ManifestAt(d, i).package : i \in 1 .. count}
    BY <1>3
  <2>2. \A i \in 1 .. count : \A j \in i + 1 .. count : j \in 1 .. count
    BY <2>0
  <2>3. ASSUME NEW i \in 1 .. count,
               \A j \in i + 1 .. count : ManifestAt(e, j).package # ManifestAt(e, i).package
        PROVE  packages[ManifestAt(e, i).package]
                 = parse_package_manifest(ManifestAt(e, i), MembersOf(e)[i])
    <3>1. \A j \in i + 1 .. count : ManifestAt(d, j).package # ManifestAt(d, i).package
      BY <2>2, <2>3, <1>3
    <3>2. QED
      BY <3>1, <1>1, <1>3, <1>4 DEF Collects
  <2>4. QED
    BY <2>1, <2>3, <1>4 DEF Collects
<1>5. QED
  BY <1>1, <1>2, <1>4 DEF Reads

\* Every package a load collected comes from the last member of its name.
LEMMA LastOfName ==
  ASSUME NEW d, NEW count \in Nat, NEW i \in 1 .. count
  PROVE  \E m \in 1 .. count :
            /\ ManifestAt(d, m).package = ManifestAt(d, i).package
            /\ \A j \in m + 1 .. count : ManifestAt(d, j).package # ManifestAt(d, m).package
<1> DEFINE S == {n \in Nat : /\ n < count
                             /\ ManifestAt(d, count - n).package = ManifestAt(d, i).package}
<1>1. count - i \in S
  <2>1. count - i \in Nat /\ count - i < count /\ count - (count - i) = i
    OBVIOUS
  <2>2. QED
    BY <2>1
<1>2. PICK n \in S : \A k \in S : n <= k
  BY <1>1, Least
<1>3. n \in Nat /\ count - n \in 1 .. count
  BY <1>2
<1> DEFINE m == count - n
<1>4. ASSUME NEW j \in m + 1 .. count
      PROVE  ManifestAt(d, j).package # ManifestAt(d, i).package
  <2>1. count - j \in Nat /\ count - j < n /\ count - j < count /\ count - (count - j) = j
    BY <1>3
  <2>2. count - j \notin S
    <3> HIDE DEF S
    <3>1. ~(n <= count - j)
      BY <2>1, <1>3
    <3>2. QED
      BY <3>1, <1>2
  <2>3. QED
    BY <2>1, <2>2
<1>5. QED
  BY <1>2, <1>3, <1>4

LEMMA CollectsOnce ==
  ASSUME NEW d, NEW count \in Nat, NEW packages, NEW others,
         Collects(d, packages, count), Collects(d, others, count)
  PROVE  packages = others
<1>1. DOMAIN packages = DOMAIN others
  BY DEF Collects
<1>2. ASSUME NEW k \in DOMAIN packages
      PROVE  packages[k] = others[k]
  <2>1. PICK i \in 1 .. count : k = ManifestAt(d, i).package
    BY DEF Collects
  <2>2. PICK m \in 1 .. count :
            /\ ManifestAt(d, m).package = ManifestAt(d, i).package
            /\ \A j \in m + 1 .. count : ManifestAt(d, j).package # ManifestAt(d, m).package
    BY LastOfName
  <2>3. /\ packages[ManifestAt(d, m).package]
             = parse_package_manifest(ManifestAt(d, m), MembersOf(d)[m])
        /\ others[ManifestAt(d, m).package]
             = parse_package_manifest(ManifestAt(d, m), MembersOf(d)[m])
    BY <2>2 DEF Collects
  <2>4. QED
    BY <2>1, <2>2, <2>3
<1>3. /\ packages = [k \in DOMAIN packages |-> packages[k]]
      /\ others = [k \in DOMAIN others |-> others[k]]
  BY DEF Collects
<1>4. QED
  BY <1>1, <1>2, <1>3

\* A load with nothing left to read has the packages of every member.
LEMMA LoadEnds ==
  ASSUME NEW d, NEW l, NEW count, Reads(d, l, count), l.todo = <<>>
  PROVE  /\ Len(MembersOf(d)) \in Nat
         /\ \E packages : /\ Collects(d, packages, Len(MembersOf(d)))
                          /\ l.packages = retain_members(packages)
<1> DEFINE members == MembersOf(d)
<1>1. /\ members \in Seq(Seq(Segments)) /\ Len(members) \in Nat
      /\ count \in 0 .. Len(members)
      /\ SubSeq(members, count + 1, Len(members)) = <<>>
  BY LenProperties DEF Reads
<1>2. count = Len(members)
  <2> SUFFICES ASSUME count # Len(members) PROVE FALSE
    OBVIOUS
  <2>1. /\ count + 1 \in 1 .. Len(members) /\ count + 1 \in Int /\ Len(members) \in Int
        /\ count + 1 <= Len(members)
    BY <1>1
  <2>2. \A i \in count + 1 .. Len(members) : members[i] \in Seq(Segments)
    BY <1>1, LenProperties
  <2>3. Len(SubSeq(members, count + 1, Len(members))) = Len(members) - (count + 1) + 1
    <3> HIDE DEF members
    <3> QED BY <2>1, <2>2, SubSeqProperties
  <2>4. QED
    <3>1. Len(SubSeq(members, count + 1, Len(members))) = 0
      BY <1>1, EmptySeq
    <3>2. Len(members) - (count + 1) + 1 # 0
      <4> HIDE DEF members
      <4> QED BY <2>1
    <3> HIDE DEF members
    <3>3. QED
      BY <2>3, <3>1, <3>2
<1>3. PICK packages : /\ Collects(d, packages, count)
                      /\ l.packages = IF count = Len(members) THEN retain_members(packages)
                                      ELSE packages
  BY DEF Reads
<1>4. QED
  BY <1>1, <1>2, <1>3

\* Loads of one checkout that came to their end have read the same packages.
LEMMA LoadsAgree ==
  ASSUME NEW d, NEW load, NEW n, Reads(d, load, n), load.todo = <<>>,
         NEW other, NEW m, Reads(d, other, m), other.todo = <<>>
  PROVE  load.packages = other.packages
<1> DEFINE members == MembersOf(d)
<1>1. PICK packages : /\ Collects(d, packages, Len(members))
                      /\ load.packages = retain_members(packages)
  BY LoadEnds
<1>2. PICK others : /\ Collects(d, others, Len(members))
                    /\ other.packages = retain_members(others)
  BY LoadEnds
<1>3. packages = others
  BY LoadEnds, <1>1, <1>2, CollectsOnce
<1>4. QED
  BY <1>1, <1>2, <1>3

\* The root of every package has no "." segment, and a manifest.
LEMMA RootsHaveManifests ==
  ASSUME NEW d, NEW load, NEW count, Reads(d, load, count), NEW k \in DOMAIN load.packages
  PROVE  /\ load.packages[k].relative_root \in Seq(Segments)
         /\ manifest_of(load.packages[k].relative_root) \in Manifests(d)
<1>1. PICK packages : /\ Collects(d, packages, count)
                      /\ load.packages = IF count = Len(MembersOf(d)) THEN retain_members(packages)
                                         ELSE packages
  BY DEF Reads
<1>2. k \in DOMAIN packages /\ load.packages[k].relative_root = packages[k].relative_root
  <2>1. CASE load.packages = packages
    BY <2>1
  <2>2. CASE load.packages = retain_members(packages)
    <3>1. k \in DOMAIN packages
      BY <2>2, RetainedNames
    <3> DEFINE names == DOMAIN packages
               kept == [packages[k] EXCEPT !.dependencies = @ \cap names,
                                           !.dev_dependencies = @ \cap names,
                                           !.build_dependencies = @ \cap names]
    <3>2. load.packages[k] = kept
      BY <2>2, <3>1 DEF retain_members
    <3>3. "relative_root" \in DOMAIN packages[k]
      <4>1. PICK i \in 1 .. count : k = ManifestAt(d, i).package
        BY <3>1, <1>1 DEF Collects
      <4>2. PICK m \in 1 .. count :
                /\ ManifestAt(d, m).package = ManifestAt(d, i).package
                /\ \A j \in m + 1 .. count : ManifestAt(d, j).package # ManifestAt(d, m).package
        <5>1. count \in Nat
          BY LenProperties DEF Reads
        <5>2. QED
          BY <5>1, LastOfName
      <4>3. packages[k] = parse_package_manifest(ManifestAt(d, m), MembersOf(d)[m])
        BY <4>1, <4>2, <1>1 DEF Collects
      <4>4. QED
        BY <4>3 DEF parse_package_manifest
    <3>4. kept.relative_root = packages[k].relative_root
      BY <3>3
    <3>5. QED
      BY <3>1, <3>2, <3>4
  <2>3. QED
    BY <1>1, <2>1, <2>2
<1>3. PICK i \in 1 .. count : k = ManifestAt(d, i).package
  BY <1>1, <1>2 DEF Collects
<1>4. count \in Nat /\ count <= Len(MembersOf(d)) /\ Len(MembersOf(d)) \in Nat
  BY LenProperties DEF Reads
<1>5. PICK m \in 1 .. count :
          /\ ManifestAt(d, m).package = ManifestAt(d, i).package
          /\ \A j \in m + 1 .. count : ManifestAt(d, j).package # ManifestAt(d, m).package
  <2>1. count \in Nat /\ i \in 1 .. count
    BY <1>3, <1>4
  <2>2. QED
    BY <2>1, LastOfName
<1>6. packages[k] = parse_package_manifest(ManifestAt(d, m), MembersOf(d)[m])
  BY <1>1, <1>3, <1>5 DEF Collects
<1>7. packages[k].relative_root = MembersOf(d)[m]
  BY <1>6 DEF parse_package_manifest
<1>8. MembersOf(d)[m] \in Seq(Segments) /\ manifest_of(MembersOf(d)[m]) \in Manifests(d)
  <2>1. m \in 1 .. Len(MembersOf(d)) /\ MembersOf(d) \in Seq(Seq(Segments))
    BY <1>4 DEF Reads
  <2>2. MembersOf(d)[m] \in Seq(Segments)
    BY <2>1, ElementOfSeq
  <2>3. QED
    BY <2>2 DEF Reads
<1>9. QED
  BY <1>2, <1>7, <1>8

\* What a finished load holds of a package is what its manifest says now.
LEMMA LoadedFrom ==
  ASSUME NEW d, NEW load, NEW count, Reads(d, load, count), load.todo = <<>>,
         NEW k \in DOMAIN load.packages
  PROVE  LET manifest == d[manifest_of(load.packages[k].relative_root)]
         IN  /\ manifest.package = k
             /\ all_declared_dependencies(load.packages[k])
                  = DOMAIN load.packages
                      \cap (dependency_names(manifest.dependencies)
                              \cup dependency_names(manifest.dev_dependencies)
                              \cup dependency_names(manifest.build_dependencies))
<1>1. PICK last \in Nat : last = Len(MembersOf(d))
  BY LoadEnds
<1>2. PICK packages : Collects(d, packages, last) /\ load.packages = retain_members(packages)
  BY <1>1, LoadEnds
<1>3. k \in DOMAIN packages /\ DOMAIN load.packages = DOMAIN packages
  BY <1>2, RetainedNames
<1>4. PICK i \in 1 .. last : k = ManifestAt(d, i).package
  BY <1>2, <1>3 DEF Collects
<1>5. PICK m \in 1 .. last :
          /\ ManifestAt(d, m).package = ManifestAt(d, i).package
          /\ \A j \in m + 1 .. last : ManifestAt(d, j).package # ManifestAt(d, m).package
  BY ZenonT(60), LastOfName
<1> DEFINE manifest == ManifestAt(d, m)
           dir == MembersOf(d)[m]
           names == DOMAIN packages
           package == packages[k]
           kept == [package EXCEPT !.dependencies = @ \cap names,
                                   !.dev_dependencies = @ \cap names,
                                   !.build_dependencies = @ \cap names]
<1>6. package = parse_package_manifest(manifest, dir)
  BY <1>2, <1>4, <1>5 DEF Collects
<1>7. load.packages[k] = kept
  BY <1>2, <1>3 DEF retain_members
<1>8. manifest = d[manifest_of(dir)]
  BY DEF ManifestAt
<1>9. manifest.package = k
  BY <1>4, <1>5
<1> HIDE DEF manifest, dir, names
<1>10. package = [relative_root |-> dir, is_proc_macro |-> manifest.proc_macro,
                  dependencies |-> dependency_names(manifest.dependencies),
                  dev_dependencies |-> dependency_names(manifest.dev_dependencies),
                  build_dependencies |-> dependency_names(manifest.build_dependencies)]
  BY <1>6 DEF parse_package_manifest
<1> HIDE DEF package
<1>11. /\ kept.relative_root = dir
       /\ kept.dependencies = dependency_names(manifest.dependencies) \cap names
       /\ kept.dev_dependencies = dependency_names(manifest.dev_dependencies) \cap names
       /\ kept.build_dependencies = dependency_names(manifest.build_dependencies) \cap names
  BY <1>10
<1> HIDE DEF kept
<1>12. QED
  BY <1>3, <1>7, <1>8, <1>9, <1>11 DEF all_declared_dependencies, names

\* A path under a root is the root followed by what the package sees of it.
LEMMA InsideOf ==
  ASSUME NEW package, package.relative_root \in Seq(STRING),
         NEW path \in Seq(STRING), IsStrictPrefix(package.relative_root, path)
  PROVE  LET inside == path_inside_package(package, path)
         IN  /\ inside \in Seq(STRING) /\ inside # <<>>
             /\ path = package.relative_root \o inside
             /\ Last(inside) = Last(path)
             /\ is_test_path(inside) => is_test_path(path)
<1> DEFINE root == package.relative_root
           inside == path_inside_package(package, path)
<1>1. /\ Len(root) \in Nat /\ Len(path) \in Nat /\ Len(root) <= Len(path)
      /\ root = SubSeq(path, 1, Len(root)) /\ root # path
  <2>1. SubSeq(root, 1, Len(root)) = root
    BY SubSeqFull
  <2>2. QED
    BY <2>1, LenProperties DEF IsStrictPrefix, IsPrefix
<1>2. Len(root) < Len(path)
  <2>1. SubSeq(path, 1, Len(path)) = path
    BY SubSeqFull
  <2>2. Len(root) # Len(path)
    BY <1>1, <2>1
  <2>3. QED
    BY <1>1, <2>2
<1>3. inside = SubSeq(path, Len(root) + 1, Len(path))
  BY <1>1 DEF path_inside_package
<1> HIDE DEF root
<1>4. /\ Len(root) + 1 \in 1 .. Len(path) + 1 /\ Len(path) \in Len(root) .. Len(path)
      /\ Len(root) \in Int /\ Len(path) \in Int
  BY <1>1, <1>2
<1>5. path = root \o inside
  <2>1. SubSeq(path, 1, Len(path)) = path
    BY SubSeqFull
  <2>2. SubSeq(path, 1, Len(root)) \o SubSeq(path, Len(root) + 1, Len(path)) = SubSeq(path, 1, Len(path))
    <3>1. 1 \in 1 .. Len(path) + 1 /\ Len(root) \in 1 - 1 .. Len(path) /\ Len(path) \in Len(root) .. Len(path)
      BY <1>1, <1>2
    <3>2. QED
      BY <3>1, ConcatAdjacentSubSeq
  <2>3. QED
    BY <1>1, <1>3, <2>1, <2>2
<1>6. inside \in Seq(STRING) /\ Len(inside) = Len(path) - Len(root)
  BY <1>1, <1>2, <1>3
<1>7. \A i \in 1 .. Len(inside) : inside[i] = path[Len(root) + i]
  BY <1>1, <1>2, <1>3, <1>6
<1> HIDE DEF inside
<1>8. inside # <<>> /\ Last(inside) = Last(path)
  <2>1. Len(inside) \in 1 .. Len(inside) /\ Len(root) + Len(inside) = Len(path)
    BY <1>1, <1>2, <1>6
  <2>2. QED
    BY <1>7, <2>1, EmptySeq DEF Last
<1>9. is_test_path(inside) => is_test_path(path)
  <2>1. ASSUME NEW i \in 1 .. Len(inside) - 1, inside[i] = "tests"
        PROVE  is_test_path(path)
    <3>1. Len(root) + i \in 1 .. Len(path) - 1 /\ i \in 1 .. Len(inside)
      BY <1>1, <1>2, <1>6
    <3>2. path[Len(root) + i] = "tests"
      BY <3>1, <1>7, <2>1
    <3>3. QED
      BY <3>1, <3>2 DEF is_test_path
  <2>2. path # <<>>
    BY <1>1, <1>2, EmptySeq
  <2>3. QED
    BY <1>8, <2>1, <2>2 DEF is_test_path
<1>10. QED
  BY <1>5, <1>6, <1>8, <1>9 DEF root, inside

\* A manifest lies in its directory.
LEMMA ManifestBelow ==
  ASSUME NEW dir \in Seq(Segments)
  PROVE  IsStrictPrefix(dir, manifest_of(dir)) /\ Len(manifest_of(dir)) = Len(dir) + 1
<1>1. /\ <<"Cargo.toml">> \in Seq(STRING) /\ Len(<<"Cargo.toml">>) = 1
      /\ dir \in Seq(STRING) /\ Len(dir) \in Nat
  BY NamesAreStrings, LenProperties DEF Segments
<1>2. Len(manifest_of(dir)) = Len(dir) + 1
  BY <1>1, ConcatProperties DEF manifest_of
<1>3. SubSeq(manifest_of(dir), 1, Len(dir)) = SubSeq(dir, 1, Len(dir))
  <2>1. CASE Len(dir) = 0
    BY <2>1, SubSeqEmpty
  <2>2. CASE Len(dir) # 0
    <3>1. 1 \in 1 .. Len(dir) /\ Len(dir) \in 1 .. Len(dir)
      BY <1>1, <2>2
    <3>2. QED
      BY <1>1, <3>1, SubSeqOfConcat1 DEF manifest_of
  <2>3. QED
    BY <2>1, <2>2
<1>4. QED
  BY <1>1, <1>2, <1>3 DEF IsStrictPrefix, IsPrefix

\* Of two names only one comes before the other.
LEMMA NamesAreOrdered ==
  ASSUME NEW j, NEW k, NamedBefore(j, k), NamedBefore(k, j)
  PROVE  FALSE
<1>1. PICK m, n \in DOMAIN NameOrder : m < n /\ NameOrder[m] = j /\ NameOrder[n] = k
  BY DEF NamedBefore
<1>2. PICK p, q \in DOMAIN NameOrder : p < q /\ NameOrder[p] = k /\ NameOrder[q] = j
  BY DEF NamedBefore
<1>3. \A x, y \in DOMAIN NameOrder : NameOrder[x] = NameOrder[y] => x = y
  BY NamesAreListedOnce DEF IsInjective
<1>4. m = q /\ n = p
  BY <1>1, <1>2, <1>3
<1>5. DOMAIN NameOrder \subseteq Int
  BY NamesAreListedOnce
<1>6. QED
  BY <1>1, <1>2, <1>4, <1>5

\* The longer of two roots by segments is the longer by letters, but for the root of
\* the disk and a directory of one letter.
LEMMA LongerRoot ==
  ASSUME NEW above \in Seq(Segments), NEW below \in Seq(Segments), Len(above) < Len(below)
  PROVE  \/ root_length(above) < root_length(below)
         \/ /\ root_length(above) = root_length(below)
            /\ root_length(below) = 1
            /\ above = <<>>
            /\ below # <<>>
<1>1. Len(above) \in Nat /\ Len(below) \in Nat /\ below # <<>>
  BY LenProperties
<1>2. root_length(above) \in {1, Len(above) + 1}
  BY DEF root_length
<1>3. CASE Len(below) = 1 /\ below[1] \in OneLetterNames
  <2>1. Len(above) = 0
    BY <1>1, <1>3
  <2>2. above = <<>>
    BY <2>1, EmptySeq
  <2>3. root_length(above) = 1 /\ root_length(below) = 1
    BY <1>3, <2>2 DEF root_length
  <2>4. QED
    BY <1>1, <2>2, <2>3
<1>4. CASE ~(Len(below) = 1 /\ below[1] \in OneLetterNames)
  <2>1. root_length(below) = Len(below) + 1
    BY <1>1, <1>4 DEF root_length
  <2>2. QED
    BY <1>1, <1>2, <2>1
<1>5. QED
  BY <1>3, <1>4

\* The owner the planner finds is the package whose manifest is the nearest above,
\* unless a root package named after it ties with it.
LEMMA NearestOwns ==
  ASSUME NEW d, NEW load, NEW count, Reads(d, load, count), load.todo = <<>>,
         NEW k \in DOMAIN load.packages, NEW path \in Paths,
         IsStrictPrefix(load.packages[k].relative_root, path),
         \A n \in Len(load.packages[k].relative_root) + 1 .. Len(path) - 1 :
             manifest_of(SubSeq(path, 1, n)) \notin Manifests(d),
         \A j \in DOMAIN load.packages :
             /\ load.packages[j].relative_root = <<>>
             /\ load.packages[k].relative_root # <<>>
             /\ root_length(load.packages[k].relative_root) = 1
             => NamedBefore(j, k)
  PROVE  package_for_path(load.packages, path) = k
<1> DEFINE root(j) == load.packages[j].relative_root
           owners == {j \in DOMAIN load.packages : contains_relative_path(load.packages[j], path)}
           length(j) == root_length(root(j))
           Longest(j) == \A other \in owners \ {j} :
                            \/ length(other) < length(j)
                            \/ length(other) = length(j) /\ NamedBefore(other, j)
<1>1. \A j \in DOMAIN load.packages :
          /\ root(j) \in Seq(Segments) /\ Len(root(j)) \in Nat
          /\ manifest_of(root(j)) \in Manifests(d)
          /\ d[manifest_of(root(j))].package = j
  <2> TAKE j \in DOMAIN load.packages
  <2>1. root(j) \in Seq(Segments) /\ manifest_of(root(j)) \in Manifests(d)
    BY RootsHaveManifests
  <2>2. d[manifest_of(root(j))].package = j
    BY LoadedFrom
  <2>3. QED
    BY <2>1, <2>2, LenProperties
<1>2. path \in Seq(Segments) /\ Len(path) \in Nat
  BY PathsArePlain, LenProperties
<1>3. \A j \in owners : /\ Len(root(j)) <= Len(path)
                        /\ root(j) = SubSeq(path, 1, Len(root(j)))
  <2> TAKE j \in owners
  <2>1. j \in DOMAIN load.packages /\ IsPrefix(root(j), path)
    BY DEF contains_relative_path
  <2>2. SubSeq(root(j), 1, Len(root(j))) = root(j)
    BY <1>1, <2>1, SubSeqFull
  <2>3. QED
    BY <2>1, <2>2 DEF IsPrefix
<1>4. k \in owners /\ root(k) # path
  BY DEF contains_relative_path, IsStrictPrefix
<1>5. owners \subseteq DOMAIN load.packages
  OBVIOUS
<1>10. \A j \in DOMAIN load.packages : root(j) = <<>> /\ root(k) # <<>> /\ length(k) = 1
           => NamedBefore(j, k)
  OBVIOUS
<1>11. \A j \in DOMAIN load.packages : length(j) = root_length(root(j))
  OBVIOUS
<1>12. \A j \in owners : Longest(j) <=> \A other \in owners \ {j} :
           \/ length(other) < length(j)
           \/ length(other) = length(j) /\ NamedBefore(other, j)
  OBVIOUS
<1> HIDE DEF root, owners, length, Longest
\* No other root lies between this one and the path.
<1>6. ASSUME NEW j \in owners, Len(root(j)) > Len(root(k))
      PROVE  FALSE
  <2> DEFINE n == Len(root(j))
  <2>1. n \in Nat /\ Len(root(k)) \in Nat /\ n > Len(root(k)) /\ n <= Len(path)
        /\ root(j) = SubSeq(path, 1, n) /\ manifest_of(root(j)) \in Manifests(d)
    BY <1>1, <1>3, <1>4, <1>5, <1>6
  <2>2. CASE n = Len(path)
    <3>1. root(j) = path
      BY <1>2, <2>1, <2>2, SubSeqFull
    <3>2. manifest_of(path) \in Paths
      BY <2>1, <3>1 DEF Manifests
    <3>3. IsStrictPrefix(path, manifest_of(path))
      BY <1>2, ManifestBelow
    <3>4. QED
      BY <3>2, <3>3, FilesAreNoDirectories
  <2>3. CASE n # Len(path)
    <3>1. n \in Len(root(k)) + 1 .. Len(path) - 1
      BY <1>2, <2>1, <2>3
    <3>2. QED
      BY <2>1, <3>1 DEF root
  <2>4. QED
    BY <2>2, <2>3
<1>7. ASSUME NEW j \in owners, j # k
      PROVE  \/ length(j) < length(k)
             \/ length(j) = length(k) /\ NamedBefore(j, k)
  <2>1. Len(root(j)) \in Nat /\ Len(root(k)) \in Nat /\ ~(Len(root(j)) > Len(root(k)))
    BY <1>1, <1>4, <1>5, <1>6
  <2>2. Len(root(j)) # Len(root(k))
    <3>1. SUFFICES ASSUME Len(root(j)) = Len(root(k)) PROVE FALSE
      OBVIOUS
    <3>2. root(j) = root(k)
      BY <1>3, <1>4, <3>1
    <3>3. QED
      BY <1>1, <1>4, <1>5, <1>7, <3>2
  <2>3. Len(root(j)) < Len(root(k))
    BY <2>1, <2>2
  <2>4. \/ length(j) < length(k)
        \/ length(j) = length(k) /\ length(k) = 1 /\ root(j) = <<>> /\ root(k) # <<>>
    BY <1>1, <1>4, <1>5, <1>11, <2>3, LongerRoot
  <2>5. QED
    BY <1>5, <1>10, <2>4
<1>8. Longest(k)
  BY <1>4, <1>7, <1>12
<1>9. ASSUME NEW j \in owners, Longest(j), j # k
      PROVE  FALSE
  <2>1. length(k) < length(j) \/ (length(k) = length(j) /\ NamedBefore(k, j))
    BY <1>4, <1>9, <1>12
  <2>2. length(j) < length(k) \/ (length(j) = length(k) /\ NamedBefore(j, k))
    BY <1>7, <1>9
  <2>3. length(j) \in Int /\ length(k) \in Int
    BY <1>1, <1>4, <1>5, <1>11 DEF root_length
  <2>4. NamedBefore(k, j) /\ NamedBefore(j, k)
    BY <2>1, <2>2, <2>3
  <2>5. QED
    BY <2>4, NamesAreOrdered
<1>13. package_for_path(load.packages, path) = CHOOSE j \in owners : Longest(j)
  BY <1>4 DEF package_for_path, owners, root, length, Longest
<1>14. QED
  BY <1>4, <1>8, <1>9, <1>13

-----------------------------------------------------------------------------
(* The owner of a path, given with "./" or without *)

\* A path as normalize_slashes leaves it: only its first segment may be ".".
IsNormal(path) ==
  \/ path = <<>>
  \/ \E first \in STRING, rest \in Seq(Segments) : path = <<first>> \o rest

LEMMA NormalizedIsNormal ==
  ASSUME NEW path \in Seq(STRING)
  PROVE  IsNormal(normalize_slashes(path))
<1>1. CASE path = <<>>
  BY <1>1 DEF normalize_slashes, IsNormal
<1>2. CASE path # <<>>
  <2>1. Head(path) \in STRING /\ Tail(path) \in Seq(STRING)
    BY <1>2, HeadTailProperties
  <2>2. normalize_slashes(path) = <<Head(path)>> \o clean(Tail(path))
    BY <1>2 DEF normalize_slashes
  <2>3. QED
    BY <2>1, <2>2, CleanIsPlain DEF IsNormal
<1>3. QED
  BY <1>1, <1>2

\* What holds of a normal path and of what the operating system finds there:
\* they are the same, or the path begins with "." and no package whose root has
\* segments of its own contains it.
LEMMA DottedOrPlain ==
  ASSUME NEW path, IsNormal(path)
  PROVE  \/ clean(path) = path
         \/ /\ path # <<>> /\ path[1] = "."
            /\ \/ clean(path) = <<>> /\ Last(path) = "."
               \/ clean(path) # <<>> /\ Last(path) = Last(clean(path))
            /\ \A root \in Seq(Segments) : root # <<>> => ~IsPrefix(root, path)
<1>1. CASE path = <<>>
  BY <1>1, CleanOfPlain, EmptySeq
<1>2. CASE path # <<>>
  <2>1. PICK first \in STRING, rest \in Seq(Segments) : path = <<first>> \o rest
    BY <1>2 DEF IsNormal
  <2>2. CASE first # "."
    BY <2>1, <2>2, CleanOfNormal
  <2>3. CASE first = "."
    <3>1. clean(path) = rest
      BY <2>1, <2>3, CleanOfNormal
    <3>2. rest \in Seq(STRING) /\ <<first>> \in Seq(STRING)
      BY DEF Segments
    <3>3. /\ Len(<<first>>) = 1 /\ <<first>>[1] = first /\ Len(rest) \in Nat
          /\ Len(path) = Len(<<first>>) + Len(rest)
          /\ \A i \in 1 .. Len(<<first>>) + Len(rest) :
                path[i] = IF i <= Len(<<first>>) THEN <<first>>[i] ELSE rest[i - Len(<<first>>)]
      BY <2>1, <3>2, ConcatProperties
    <3>4. path[1] = "."
      <4>1. 1 \in 1 .. Len(<<first>>) + Len(rest) /\ 1 <= Len(<<first>>)
        BY <3>3
      <4>2. QED
        BY <4>1, <3>3, <2>3
    <3>5. CASE rest = <<>>
      <4>1. Len(path) = 1
        BY <3>3, <3>5, EmptySeq
      <4>2. Last(path) = "."
        BY <4>1, <3>4 DEF Last
      <4>3. QED
        BY <4>2, <3>1, <3>4, <3>5, <1>2 DEF IsPrefix, Segments
    <3>6. CASE rest # <<>>
      <4>1. Len(path) \in 1 .. Len(<<first>>) + Len(rest) /\ ~(Len(path) <= Len(<<first>>))
            /\ Len(path) - Len(<<first>>) = Len(rest)
        BY <3>3, <3>6, EmptySeq
      <4>2. path[Len(path)] = rest[Len(rest)]
        BY <3>3, <4>1
      <4>3. Last(path) = Last(rest)
        BY <4>2 DEF Last
      <4>4. QED
        BY <4>3, <3>1, <3>4, <3>6, <1>2 DEF IsPrefix, Segments
    <3>7. QED
      BY <3>5, <3>6
  <2>4. QED
    BY <2>2, <2>3
<1>3. QED
  BY <1>1, <1>2

-----------------------------------------------------------------------------
(* What a path marks *)

Widened(marks) == marks.closed \/ "CargoLockChange" \in marks.reasons

\* What the marks of the paths seen so far say, unless they were widened to the
\* whole workspace: a marked package is the owner of a path or a user of one,
\* and every path has an owner or is documentation.
MarksOf(packages, seen, marks) ==
  /\ Widened(marks) => DOMAIN packages \subseteq marks.packages
  /\ ~Widened(marks) =>
        /\ \A k \in marks.packages : \E p \in seen :
              /\ package_for_path(packages, p) # NoPackage
              /\ k \in with_reverse(packages, package_for_path(packages, p))
        /\ \A p \in seen : is_markdown(p) \/ package_for_path(packages, p) # NoPackage

LEMMA ClassifyMarks ==
  ASSUME NEW packages, IsFiniteSet(DOMAIN packages), NEW d, NEW path
  PROVE  LET change == classify(packages, d, path)
             owner == package_for_path(packages, path)
         IN  \/ /\ change.closed \/ change.reason = "CargoLockChange"
                /\ change.packages = DOMAIN packages
             \/ /\ ~change.closed /\ change.reason # "CargoLockChange"
                /\ change.packages \subseteq with_reverse(packages, owner)
                /\ owner # NoPackage
             \/ /\ ~change.closed /\ change.reason # "CargoLockChange"
                /\ change.packages = {}
                /\ is_markdown(path)
<1> DEFINE owner == package_for_path(packages, path)
           inside == path_inside_package(packages[owner], path)
           change == classify_inside(packages, d, owner, inside)
<1>1. /\ ~change.closed /\ change.reason # "CargoLockChange"
      /\ change.packages \subseteq with_reverse(packages, owner)
  <2> HIDE DEF owner, inside
  <2> DEFINE wide(reason) == impact(with_reverse(packages, owner), reason, FALSE)
  <2>1. {owner} \subseteq with_reverse(packages, owner)
    BY DEF with_reverse
  <2>2. with_direct(packages, owner) \subseteq with_reverse(packages, owner)
    BY DirectAreReached DEF with_reverse, with_direct
  <2>3. \/ \E reason \in {"ManifestChange", "BuildScriptChange", "NativeDependencyChange",
                          "ProcMacroChange", "PublicApiChange"} :
              change = impact(with_reverse(packages, owner), reason, FALSE)
        \/ change = impact({owner}, "TestOnlyChange", FALSE)
        \/ change = impact(with_direct(packages, owner), "PrivateImplementationChange", FALSE)
        \/ change = impact({owner}, "PrivateImplementationChange", FALSE)
    BY DEF classify_inside
  <2> HIDE DEF change
  <2>4. QED
    BY <2>1, <2>2, <2>3 DEF impact
<1> HIDE DEF owner, change
<1>2. \/ classify(packages, d, path) = impact(DOMAIN packages, "CargoLockChange", FALSE)
      \/ classify(packages, d, path) = impact(DOMAIN packages, "SecuritySensitiveChange", TRUE)
      \/ /\ classify(packages, d, path) = impact({}, "DocumentationOnly", FALSE)
         /\ is_markdown(path)
      \/ classify(packages, d, path) = impact(DOMAIN packages, "UnknownPathFailClosed", TRUE)
      \/ classify(packages, d, path) = change /\ owner # NoPackage
  BY DEF classify, owner, change
<1>3. QED
  BY <1>1, <1>2 DEF impact, owner

LEMMA MarksGrow ==
  ASSUME NEW packages, IsFiniteSet(DOMAIN packages), NEW d, NEW path, NEW seen, NEW marks,
         MarksOf(packages, seen, marks)
  PROVE  MarksOf(packages, seen \cup {path}, add(marks, classify(packages, d, path)))
<1> DEFINE change == classify(packages, d, path)
           more == add(marks, change)
<1> SUFFICES MarksOf(packages, seen \cup {path}, more)
  OBVIOUS
<1>1. /\ more.packages = marks.packages \cup change.packages
      /\ more.reasons = marks.reasons \cup {change.reason}
      /\ more.closed <=> (marks.closed \/ change.closed)
  BY DEF add
<1> HIDE DEF change, more
<1>0. Widened(more) <=> Widened(marks) \/ change.closed \/ change.reason = "CargoLockChange"
  BY <1>1 DEF Widened
<1>2. CASE change.packages = DOMAIN packages /\ (change.closed \/ change.reason = "CargoLockChange")
  <2>1. Widened(more) /\ DOMAIN packages \subseteq more.packages
    BY <1>0, <1>1, <1>2
  <2>2. QED
    BY <2>1 DEF MarksOf
<1>3. CASE Widened(marks)
  <2>1. Widened(more) /\ DOMAIN packages \subseteq more.packages
    BY <1>0, <1>1, <1>3 DEF MarksOf
  <2>2. QED
    BY <2>1 DEF MarksOf
<1>4. CASE /\ ~Widened(marks)
           /\ ~change.closed /\ change.reason # "CargoLockChange"
           /\ \/ /\ change.packages \subseteq with_reverse(packages, package_for_path(packages, path))
                 /\ package_for_path(packages, path) # NoPackage
              \/ change.packages = {} /\ is_markdown(path)
  <2>1. ~Widened(more)
    BY <1>0, <1>4
  <2>2. ASSUME NEW k \in more.packages
        PROVE  \E p \in seen \cup {path} :
                  /\ package_for_path(packages, p) # NoPackage
                  /\ k \in with_reverse(packages, package_for_path(packages, p))
    <3>1. CASE k \in marks.packages
      BY <1>4, <3>1 DEF MarksOf
    <3>2. CASE k \in change.packages
      BY <1>4, <3>2
    <3>3. QED
      BY <1>1, <2>2, <3>1, <3>2
  <2>3. \A p \in seen \cup {path} :
            is_markdown(p) \/ package_for_path(packages, p) # NoPackage
    BY <1>4 DEF MarksOf
  <2>4. QED
    BY <2>1, <2>2, <2>3 DEF MarksOf
<1>5. QED
  BY <1>2, <1>3, <1>4, ClassifyMarks DEF change

-----------------------------------------------------------------------------
(* The checkout and its two readers *)

CheckoutInv ==
  /\ DiskIsCheckout(disk)
  /\ edits \in Seq(Revisions)

\* What a process that reads the checkout has loaded, if nobody touched a
\* manifest since it began, is what the checkout holds.
ReaderInv(reader) ==
  /\ reader.began \in 0 .. Len(edits)
  /\ reader.pc \notin {"idle", "failed"} =>
        /\ reader.load.ok
        /\ LoadShape(reader.load)
        /\ reader.pc = "load" <=> reader.load.todo # <<>>
        /\ ManifestsStood(reader.began) => \E n \in Nat : Reads(disk, reader.load, n)

PlannerFields == {"pc", "began", "changes", "options", "load", "todo", "marks", "plan"}

PlannerInv ==
  /\ DOMAIN planner = PlannerFields
  /\ ReaderInv(planner)
  /\ \A p \in planner.changes : IsNormal(p)
  /\ planner.pc \in {"classify", "done"} =>
        /\ planner.todo \subseteq planner.changes
        /\ MarksOf(planner.load.packages, planner.changes \ planner.todo, planner.marks)
  /\ planner.pc = "done" =>
        planner.todo = {} /\ planner.plan = plan_of(planner.marks, planner.options)

RoundInv == CheckoutInv /\ PlannerInv /\ PackInv /\ ReaderInv(oracle)

LEMMA RoundInit == Init => RoundInv
<1> SUFFICES ASSUME Init PROVE RoundInv
  OBVIOUS
<1>1. CheckoutInv
  BY DisksAreCheckouts, EmptySeq DEF Init, CheckoutInv, DiskIsCheckout
<1>2. edits = <<>> /\ Len(<<>>) = 0
  BY EmptySeq DEF Init
<1>3. PlannerInv
  BY <1>2 DEF Init, PlannerInv, PlannerFields, ReaderInv
<1>4. ReaderInv(oracle)
  BY <1>2 DEF Init, ReaderInv
<1>5. QED
  BY <1>1, <1>3, <1>4, PackInit DEF RoundInv

LEMMA CheckoutNext == CheckoutInv /\ [Next]_vars => CheckoutInv'
<1> SUFFICES ASSUME CheckoutInv, [Next]_vars PROVE CheckoutInv'
  OBVIOUS
<1>1. ASSUME UNCHANGED <<disk, edits>> PROVE CheckoutInv'
  BY <1>1 DEF CheckoutInv, DiskIsCheckout
<1>2. CASE Edit
  <2>1. PICK r \in Revisions : disk' = [disk EXCEPT ![r.path] = r.to] /\ edits' = Append(edits, r)
    BY <1>2 DEF Edit
  <2>2. DOMAIN disk' = Paths
    BY <2>1 DEF CheckoutInv, DiskIsCheckout
  <2>3. ASSUME NEW p \in Paths PROVE PlainMembers(p, disk'[p])
    <3>1. CASE p = r.path
      BY <2>1, <3>1, RevisionsAreOfFiles DEF CheckoutInv, DiskIsCheckout
    <3>2. CASE p # r.path
      BY <2>1, <3>2 DEF CheckoutInv, DiskIsCheckout
    <3>3. QED
      BY <3>1, <3>2
  <2>4. edits' \in Seq(Revisions)
    BY <2>1, AppendProperties DEF CheckoutInv
  <2>5. QED
    BY <2>2, <2>3, <2>4 DEF CheckoutInv, DiskIsCheckout
<1>3. QED
  BY <1>1, <1>2
     DEF Next, vars, StartPlan, PlannerReadsMember, Classify, FinishPlan, StartQuery,
         OracleReadsMember, IndexPackage, LoadGovernance, PersistAndPack, PersistFails

\* An edit of another file leaves what was read of the manifests true.
LEMMA EditKeepsReader ==
  ASSUME CheckoutInv, Edit, NEW reader, ReaderInv(reader),
         NEW next, next = reader
  PROVE  /\ next.began \in 0 .. Len(edits')
         /\ next.pc \notin {"idle", "failed"} =>
               /\ next.load.ok
               /\ LoadShape(next.load)
               /\ next.pc = "load" <=> next.load.todo # <<>>
               /\ (\A i \in next.began + 1 .. Len(edits') : Last(edits'[i].path) # "Cargo.toml")
                      => \E n \in Nat : Reads(disk', next.load, n)
<1>1. PICK r \in Revisions : disk' = [disk EXCEPT ![r.path] = r.to] /\ edits' = Append(edits, r)
  BY DEF Edit
<1>2. /\ Len(edits) \in Nat /\ Len(edits') = Len(edits) + 1
      /\ edits'[Len(edits) + 1] = r
      /\ \A i \in 1 .. Len(edits) : edits'[i] = edits[i]
  BY <1>1, AppendProperties, LenProperties DEF CheckoutInv
<1>3. reader.began \in 0 .. Len(edits)
  BY DEF ReaderInv
<1>4. ASSUME \A i \in reader.began + 1 .. Len(edits') : Last(edits'[i].path) # "Cargo.toml"
      PROVE  ManifestsStood(reader.began) /\ SameManifests(disk, disk')
  <2>1. Last(r.path) # "Cargo.toml"
    <3>1. Len(edits) + 1 \in reader.began + 1 .. Len(edits')
      BY <1>2, <1>3
    <3>2. QED
      BY <1>2, <1>4, <3>1
  <2>2. SameManifests(disk, disk')
    BY <1>1, <2>1 DEF SameManifests, CheckoutInv, DiskIsCheckout
  <2>3. ASSUME NEW i \in reader.began + 1 .. Len(edits)
        PROVE  Last(edits[i].path) # "Cargo.toml"
    <3>1. i \in reader.began + 1 .. Len(edits') /\ i \in 1 .. Len(edits)
      BY <1>2, <1>3
    <3>2. QED
      BY <1>2, <1>4, <3>1
  <2>4. QED
    BY <2>2, <2>3 DEF ManifestsStood
<1>5. QED
  BY <1>2, <1>3, <1>4, SameReads DEF ReaderInv

\* The reader goes on as its load tells it.
AfterLoad(reader, load) ==
  /\ reader.load = load
  /\ ~load.ok => reader.pc = "failed"
  /\ load.ok => /\ reader.pc \notin {"idle", "failed"}
                /\ reader.pc = "load" <=> load.todo # <<>>

LEMMA StartedReader ==
  ASSUME CheckoutInv, NEW reader, reader.began = Len(edits), AfterLoad(reader, StartLoad(disk))
  PROVE  ReaderInv(reader)
<1>1. Len(edits) \in 0 .. Len(edits)
  BY LenProperties DEF CheckoutInv
<1>2. StartLoad(disk).ok => Reads(disk, StartLoad(disk), 0)
  BY StartReads DEF CheckoutInv
<1>3. QED
  BY <1>1, <1>2, StartShape DEF ReaderInv, AfterLoad

LEMMA SteppedReader ==
  ASSUME CheckoutInv, NEW reader, ReaderInv(reader), reader.pc = "load",
         NEW next, next.began = reader.began, AfterLoad(next, ReadMember(disk, reader.load))
  PROVE  ReaderInv(next)
<1> DEFINE load == ReadMember(disk, reader.load)
<1>1. /\ reader.began \in 0 .. Len(edits)
      /\ LoadShape(reader.load) /\ reader.load.todo # <<>>
      /\ ManifestsStood(reader.began) => \E n \in Nat : Reads(disk, reader.load, n)
  BY DEF ReaderInv
<1>2. LoadShape(load)
  BY <1>1, ReadShape
<1>3. ASSUME load.ok, ManifestsStood(reader.began)
      PROVE  \E n \in Nat : Reads(disk, load, n)
  <2>1. PICK n \in Nat : Reads(disk, reader.load, n)
    BY <1>1, <1>3
  <2>2. Reads(disk, load, n + 1)
    BY <1>1, <1>3, <2>1, StepReads DEF CheckoutInv
  <2>3. QED
    BY <2>2
<1> HIDE DEF load
<1>4. AfterLoad(next, load)
  BY DEF load
<1>5. QED
  BY <1>1, <1>2, <1>3, <1>4 DEF ReaderInv, AfterLoad

\* A reader that goes on does so with the checkout as it is.
LEMMA PlannerReads ==
  ASSUME UNCHANGED <<disk, edits>>, ReaderInv(planner')
  PROVE  ReaderInv(planner)'
BY DEF ReaderInv, ManifestsStood

LEMMA OracleReads ==
  ASSUME UNCHANGED <<disk, edits>>, ReaderInv(oracle')
  PROVE  ReaderInv(oracle)'
BY DEF ReaderInv, ManifestsStood

\* The planner after it began or read a manifest.
GoesOn(p, load, next) ==
  /\ DOMAIN next = PlannerFields
  /\ next.began = p.began /\ next.changes = p.changes
  /\ AfterLoad(next, load)
  /\ next.pc # "done"
  /\ next.pc = "classify" =>
        /\ next.todo = next.changes
        /\ MarksOf(next.load.packages, next.changes \ next.todo, next.marks)

LEMMA PlannerAfterCases ==
  ASSUME NEW p, DOMAIN p = PlannerFields, NEW load, NEW next, next = PlannerAfter(p, load)
  PROVE  GoesOn(p, load, next)
<1>1. CASE ~load.ok
  BY <1>1 DEF PlannerAfter, PlannerFields, AfterLoad, GoesOn
<1>2. CASE load.ok /\ load.todo # <<>>
  BY <1>2 DEF PlannerAfter, PlannerFields, AfterLoad, GoesOn
<1>3. CASE load.ok /\ load.todo = <<>>
  <2> DEFINE marks == IF p.changes = {} THEN marks_of_nothing(load.packages) ELSE no_marks
  <2>1. next = [p EXCEPT !.pc = "classify", !.load = load, !.todo = p.changes, !.marks = marks]
    BY <1>3 DEF PlannerAfter
  <2> HIDE DEF marks
  <2>2. /\ DOMAIN next = PlannerFields /\ next.pc = "classify" /\ next.load = load
        /\ next.todo = p.changes /\ next.marks = marks
        /\ next.began = p.began /\ next.changes = p.changes
    BY <2>1 DEF PlannerFields
  <2>3. p.changes \ p.changes = {}
    OBVIOUS
  <2>4. MarksOf(load.packages, {}, marks)
    BY DEF MarksOf, Widened, marks, marks_of_nothing, no_marks
  <2>5. QED
    BY <1>3, <2>2, <2>3, <2>4 DEF AfterLoad, GoesOn
<1>4. QED
  BY <1>1, <1>2, <1>3

LEMMA OracleAfterCases ==
  ASSUME NEW o, DOMAIN o = OracleFields, NEW load, NEW next, next = OracleAfter(o, load)
  PROVE  next.began = o.began /\ AfterLoad(next, load)
BY DEF OracleAfter, OracleFields, AfterLoad

\* The changed paths are normal, however they are spelled.
LEMMA ChangesAreNormal ==
  ASSUME NEW spelling, NEW p \in {normalize_slashes(q) : q \in spelled(Changed, spelling)}
  PROVE  IsNormal(p)
<1>1. PICK q \in spelled(Changed, spelling) : p = normalize_slashes(q)
  OBVIOUS
<1>2. Paths \subseteq Seq(STRING)
  BY PathsArePlain DEF Segments
<1>3. q \in Seq(STRING)
  <2>1. <<".">> \in Seq(STRING)
    BY NamesAreStrings
  <2>2. \A r \in Paths : <<".">> \o r \in Seq(STRING)
    BY <1>2, <2>1, ConcatProperties
  <2>3. QED
    BY <1>2, <2>2 DEF spelled, Changed
<1>4. QED
  BY <1>1, <1>3, NormalizedIsNormal

LEMMA PlannerNext == CheckoutInv /\ PlannerInv /\ [Next]_vars => PlannerInv'
<1> SUFFICES ASSUME CheckoutInv, PlannerInv, [Next]_vars PROVE PlannerInv'
  OBVIOUS
<1>1. ASSUME UNCHANGED <<disk, edits, planner>> PROVE PlannerInv'
  <2>1. ReaderInv(planner)'
    BY <1>1, PlannerReads DEF PlannerInv
  <2>2. QED
    BY <1>1, <2>1 DEF PlannerInv
<1>2. CASE Edit
  <2>1. planner' = planner
    BY <1>2 DEF Edit
  <2>2. ReaderInv(planner)'
    BY <1>2, <2>1, EditKeepsReader DEF PlannerInv, ReaderInv, ManifestsStood
  <2>3. QED
    BY <2>1, <2>2 DEF PlannerInv
<1>3. CASE StartPlan
  <2>1. PICK spelling \in Spellings, options \in Options :
          planner' = PlannerAfter(
              [planner EXCEPT !.began = Len(edits), !.options = options,
                              !.changes = {normalize_slashes(p) :
                                               p \in spelled(Changed, spelling)}],
              StartLoad(disk))
    BY <1>3 DEF StartPlan
  <2> DEFINE changes == {normalize_slashes(p) : p \in spelled(Changed, spelling)}
             started == [planner EXCEPT !.began = Len(edits), !.options = options,
                                        !.changes = changes]
  <2>2. planner' = PlannerAfter(started, StartLoad(disk))
    BY <2>1
  <2>3. \A p \in changes : IsNormal(p)
    BY ChangesAreNormal
  <2> HIDE DEF changes
  <2>4. DOMAIN started = PlannerFields /\ started.began = Len(edits) /\ started.changes = changes
    BY DEF PlannerInv, PlannerFields
  <2> HIDE DEF started
  <2>5. GoesOn(started, StartLoad(disk), planner')
    BY <2>2, <2>4, PlannerAfterCases
  <2>6. UNCHANGED <<disk, edits>>
    BY <1>3 DEF StartPlan
  <2>7. ReaderInv(planner)'
    BY <2>4, <2>5, <2>6, StartedReader, PlannerReads DEF GoesOn
  <2>8. QED
    BY <2>3, <2>4, <2>5, <2>7 DEF PlannerInv, GoesOn
<1>4. CASE PlannerReadsMember
  <2>1. /\ planner.pc = "load"
        /\ planner' = PlannerAfter(planner, ReadMember(disk, planner.load))
        /\ UNCHANGED <<disk, edits>>
    BY <1>4 DEF PlannerReadsMember
  <2>2. GoesOn(planner, ReadMember(disk, planner.load), planner')
    BY <2>1, PlannerAfterCases DEF PlannerInv
  <2>3. ReaderInv(planner)'
    BY <2>1, <2>2, SteppedReader, PlannerReads DEF PlannerInv, GoesOn
  <2>4. QED
    BY <2>2, <2>3 DEF PlannerInv, GoesOn
<1>5. CASE Classify
  <2>1. planner.pc = "classify" /\ UNCHANGED <<disk, edits>>
    BY <1>5 DEF Classify
  <2>2. PICK path \in planner.todo :
          planner' = [planner EXCEPT
              !.todo = @ \ {path},
              !.marks = add(@, classify(planner.load.packages, disk, path))]
    BY <1>5 DEF Classify
  <2> DEFINE marks == add(planner.marks, classify(planner.load.packages, disk, path))
  <2>3. planner' = [planner EXCEPT !.todo = planner.todo \ {path}, !.marks = marks]
    BY <2>2
  <2> DEFINE after == marks
  <2> HIDE DEF marks
  <2>4. /\ DOMAIN planner' = PlannerFields
        /\ planner'.pc = "classify" /\ planner'.began = planner.began
        /\ planner'.load = planner.load /\ planner'.changes = planner.changes
        /\ planner'.todo = planner.todo \ {path} /\ planner'.marks = marks
    BY <2>1, <2>3 DEF PlannerInv, PlannerFields
  <2>5. ReaderInv(planner')
    BY <2>1, <2>4 DEF PlannerInv, ReaderInv
  <2>6. MarksOf(planner.load.packages, (planner.changes \ planner.todo) \cup {path}, marks)
    <3>1. IsFiniteSet(DOMAIN planner.load.packages)
      BY <2>1 DEF PlannerInv, ReaderInv, LoadShape
    <3>2. QED
      BY <2>1, <3>1, MarksGrow DEF PlannerInv, marks
  <2>7. MarksOf(planner.load.packages, planner.changes \ (planner.todo \ {path}), marks)
    <3>1. path \in planner.changes
      BY <2>1 DEF PlannerInv
    <3>2. planner.changes \ (planner.todo \ {path}) = (planner.changes \ planner.todo) \cup {path}
      BY <3>1
    <3>3. QED
      BY <2>6, <3>2
  <2>8. ReaderInv(planner)'
    BY <2>1, <2>5, PlannerReads
  <2>9. QED
    BY <2>1, <2>4, <2>7, <2>8 DEF PlannerInv
<1>6. CASE FinishPlan
  <2>1. /\ planner.pc = "classify" /\ planner.todo = {} /\ UNCHANGED <<disk, edits>>
        /\ planner' = [planner EXCEPT !.pc = "done",
                                      !.plan = plan_of(planner.marks, planner.options)]
    BY <1>6 DEF FinishPlan
  <2> DEFINE plan == plan_of(planner.marks, planner.options)
  <2> HIDE DEF plan
  <2>2. planner' = [planner EXCEPT !.pc = "done", !.plan = plan]
    BY <2>1 DEF plan
  <2>3. /\ DOMAIN planner' = PlannerFields
        /\ planner'.pc = "done" /\ planner'.began = planner.began
        /\ planner'.load = planner.load /\ planner'.changes = planner.changes
        /\ planner'.todo = {} /\ planner'.marks = planner.marks
        /\ planner'.options = planner.options /\ planner'.plan = plan
    BY <2>1, <2>2 DEF PlannerInv, PlannerFields
  <2>4. ReaderInv(planner')
    BY <2>1, <2>3 DEF PlannerInv, ReaderInv
  <2>5. ReaderInv(planner)'
    BY <2>1, <2>4, PlannerReads
  <2>6. QED
    BY <2>1, <2>3, <2>5 DEF PlannerInv, plan
<1>7. QED
  BY <1>1, <1>2, <1>3, <1>4, <1>5, <1>6
     DEF Next, vars, StartQuery, OracleReadsMember, IndexPackage, LoadGovernance,
         PersistAndPack, PersistFails

LEMMA OracleReaderNext ==
  CheckoutInv /\ PackInv /\ ReaderInv(oracle) /\ [Next]_vars => ReaderInv(oracle)'
<1> SUFFICES ASSUME CheckoutInv, PackInv, ReaderInv(oracle), [Next]_vars
             PROVE  ReaderInv(oracle)'
  OBVIOUS
<1>1. ASSUME UNCHANGED <<disk, edits, oracle>> PROVE ReaderInv(oracle)'
  BY <1>1, OracleReads
<1>2. CASE Edit
  <2>1. oracle' = oracle
    BY <1>2 DEF Edit
  <2>2. QED
    BY <1>2, <2>1, EditKeepsReader DEF ReaderInv, ManifestsStood
<1>3. CASE StartQuery
  <2>1. PICK spelling \in Spellings :
          oracle' = OracleAfter(
              [oracle EXCEPT !.began = Len(edits),
                             !.changes = normalize_changed_paths(spelled(Changed, spelling))],
              StartLoad(disk))
    BY <1>3 DEF StartQuery
  <2> DEFINE changes == normalize_changed_paths(spelled(Changed, spelling))
             started == [oracle EXCEPT !.began = Len(edits), !.changes = changes]
  <2>2. oracle' = OracleAfter(started, StartLoad(disk)) /\ UNCHANGED <<disk, edits>>
    BY <1>3, <2>1 DEF StartQuery
  <2> HIDE DEF changes
  <2>3. DOMAIN started = OracleFields /\ started.began = Len(edits)
    BY DEF PackInv, OracleFields
  <2> HIDE DEF started
  <2>4. oracle'.began = Len(edits) /\ AfterLoad(oracle', StartLoad(disk))
    BY <2>2, <2>3, OracleAfterCases
  <2>5. QED
    BY <2>2, <2>4, StartedReader, OracleReads
<1>4. CASE OracleReadsMember
  <2>1. /\ oracle.pc = "load"
        /\ oracle' = OracleAfter(oracle, ReadMember(disk, oracle.load))
        /\ UNCHANGED <<disk, edits>>
    BY <1>4 DEF OracleReadsMember
  <2>2. oracle'.began = oracle.began /\ AfterLoad(oracle', ReadMember(disk, oracle.load))
    BY <2>1, OracleAfterCases DEF PackInv
  <2>3. QED
    BY <2>1, <2>2, SteppedReader, OracleReads
<1>5. CASE IndexPackage \/ LoadGovernance \/ PersistAndPack \/ PersistFails
  <2>1. /\ oracle.pc \in {"index", "persist"} /\ UNCHANGED <<disk, edits>>
        /\ oracle'.began = oracle.began /\ oracle'.load = oracle.load
        /\ oracle'.pc # "load"
    <3>1. CASE IndexPackage
      BY <3>1 DEF IndexPackage, PackInv, OracleFields
    <3>2. CASE LoadGovernance
      BY <3>2 DEF LoadGovernance, PackInv, OracleFields
    <3>3. CASE PersistAndPack
      <4> DEFINE pack == build_pack(oracle.changes, oracle.load.packages, oracle.index,
                                    oracle.governance,
                                    impact_of(oracle.load.packages, oracle.changes))
      <4>1. /\ oracle.pc = "persist" /\ UNCHANGED <<disk, edits>>
            /\ oracle' = [oracle EXCEPT !.pc = "done", !.pack = pack]
        BY <3>3 DEF PersistAndPack
      <4> HIDE DEF pack
      <4>2. QED
        BY <4>1 DEF PackInv, OracleFields
    <3>4. CASE PersistFails
      BY <3>4 DEF PersistFails, PackInv, OracleFields
    <3>5. QED
      BY <1>5, <3>1, <3>2, <3>3, <3>4
  <2>2. ReaderInv(oracle')
    BY <2>1 DEF ReaderInv
  <2>3. QED
    BY <2>1, <2>2, OracleReads
<1>6. QED
  BY <1>1, <1>2, <1>3, <1>4, <1>5
     DEF Next, vars, StartPlan, PlannerReadsMember, Classify, FinishPlan

LEMMA RoundNext == RoundInv /\ [Next]_vars => RoundInv'
BY CheckoutNext, PlannerNext, PackNext, OracleReaderNext DEF RoundInv

LEMMA RoundHolds == Spec => []RoundInv
BY RoundInit, RoundNext, PTL DEF Spec

-----------------------------------------------------------------------------
(* The pack covers the plan *)

\* The manifest of an affected crate is on the reading list.
LEMMA ManifestListed ==
  ASSUME NEW paths, NEW packages, NEW index, NEW governance, NEW impacted,
         NEW pack, pack = build_pack(paths, packages, index, governance, impacted),
         NEW k \in impacted.affected
  PROVE  manifest_of(packages[k].relative_root)
            \in DOMAIN pack.must_read_files \cup DOMAIN pack.should_read_files
<1> DEFINE inclusions == must_read(paths, packages, index, impacted)
           must == {i.path : i \in inclusions}
           further == should_read(packages, index, governance, impacted, must)
           should == {i.path : i \in further}
           file == manifest_of(packages[k].relative_root)
<1>1. DOMAIN pack.must_read_files = must /\ DOMAIN pack.should_read_files = should
  BY ContextFiles DEF build_pack
<1>2. CASE k \in impacted.changed
  <2>1. because(file, 20, "changed_crate_manifest") \in inclusions
    BY <1>2 DEF must_read
  <2>2. because(file, 20, "changed_crate_manifest").path = file
    BY DEF because
  <2> HIDE DEF inclusions
  <2>3. QED
    BY <1>1, <2>1, <2>2
<1>3. CASE k \notin impacted.changed
  <2> DEFINE i == because(file, 110, "affected_crate_manifest")
  <2>1. i.path = file
    BY DEF because
  <2>2. i.path \in must \/ i \in further
    BY <1>3 DEF should_read
  <2> HIDE DEF i, must, further
  <2>3. QED
    BY <1>1, <2>1, <2>2
<1>4. QED
  BY <1>2, <1>3

\* A normal path that has an owner is where it says, unless the root of the
\* checkout is a package.
LEMMA OwnedIsPlain ==
  ASSUME NEW d, NEW load, NEW count, Reads(d, load, count),
         <<"Cargo.toml">> \notin Manifests(d),
         NEW path, IsNormal(path), package_for_path(load.packages, path) # NoPackage
  PROVE  clean(path) = path
<1>1. PICK k \in DOMAIN load.packages : IsPrefix(load.packages[k].relative_root, path)
  BY DEF package_for_path, contains_relative_path
<1> DEFINE root == load.packages[k].relative_root
<1>2. root \in Seq(Segments) /\ manifest_of(root) \in Manifests(d)
  BY RootsHaveManifests
<1>3. root # <<>>
  <2> HIDE DEF root
  <2> QED BY <1>2, RootManifest
<1>4. QED
  BY <1>1, <1>2, <1>3, DottedOrPlain

\* PackCoversPlan: an oracle and a planner asked about the same changes, while no
\* manifest is touched, agree: every planned crate is affected in the pack, and
\* its manifest listed, unless the plan takes in the whole workspace.
THEOREM PackCovers == Spec => []PackCoversPlan
<1>1. RoundInv => PackCoversPlan
  <2> SUFFICES ASSUME RoundInv,
                      planner.pc = "done", oracle.pc = "done",
                      {clean(p) : p \in planner.changes} = oracle.changes,
                      ManifestsStood(planner.began), ManifestsStood(oracle.began),
                      GivenAsOwned(planner.changes)
               PROVE  PackCoversPlan
    BY DEF PackCoversPlan
  <2> DEFINE packages == planner.load.packages
             owner(p) == package_for_path(packages, p)
             plan == planner.plan
             pack == oracle.pack
             widened == plan.fail_closed \/ "CargoLockChange" \in plan.reasons
             listed == DOMAIN pack.must_read_files \cup DOMAIN pack.should_read_files
  <2>1. PICK n \in Nat : Reads(disk, planner.load, n)
    BY DEF RoundInv, PlannerInv, ReaderInv
  <2>2. packages = oracle.load.packages
    <3>1. PICK m \in Nat : Reads(disk, oracle.load, m)
      BY DEF RoundInv, ReaderInv
    <3>2. planner.load.todo = <<>> /\ oracle.load.todo = <<>>
      BY DEF RoundInv, PlannerInv, ReaderInv
    <3>3. QED
      BY <2>1, <3>1, <3>2, LoadsAgree
  <2>3. /\ MarksOf(packages, planner.changes, planner.marks)
        /\ plan = plan_of(planner.marks, planner.options)
        /\ DOMAIN packages # {}
        /\ \A p \in planner.changes : IsNormal(p)
    <3>1. planner.changes \ planner.todo = planner.changes
      BY DEF RoundInv, PlannerInv
    <3>2. QED
      BY <3>1 DEF RoundInv, PlannerInv, ReaderInv, LoadShape
  <2>4. plan.packages = planner.marks.packages /\ (Widened(planner.marks) => widened)
    <3>1. CASE planner.marks.packages = {} /\ "DocumentationOnly" \in planner.marks.reasons
      <4>1. plan = docs_only_plan(planner.options)
        BY <2>3, <3>1 DEF plan_of
      <4>2. plan.packages = {}
        BY <4>1 DEF docs_only_plan
      <4>3. ~Widened(planner.marks)
        BY <2>3, <3>1 DEF MarksOf
      <4>4. QED
        BY <3>1, <4>2, <4>3
    <3>2. CASE ~(planner.marks.packages = {} /\ "DocumentationOnly" \in planner.marks.reasons)
      <4>1. /\ plan.packages = planner.marks.packages
            /\ plan.reasons = planner.marks.reasons
            /\ plan.fail_closed = planner.marks.closed
        BY <2>3, <3>2 DEF plan_of
      <4>2. QED
        BY <4>1 DEF Widened
    <3>3. QED
      BY <3>1, <3>2
  \* A changed path with an owner reads the same to the oracle.
  <2>5. ASSUME NEW p \in planner.changes, owner(p) # NoPackage
        PROVE  clean(p) = p
    <3>1. CASE \A q \in planner.changes : q = clean(q)
      BY <3>1
    <3>2. CASE <<"Cargo.toml">> \notin Manifests(disk)
      BY <3>2, <2>1, <2>3, <2>5, OwnedIsPlain
    <3>3. QED
      BY <3>1, <3>2 DEF GivenAsOwned
  <2>6. /\ pack = build_pack(oracle.changes, packages, oracle.index, oracle.governance,
                             impact_of(packages, oracle.changes))
    BY <2>2 DEF RoundInv, PackInv
  <2>7. /\ pack.affected_crates = impact_of(packages, oracle.changes).affected
        /\ pack.unmapped = {p \in oracle.changes : owner(p) = NoPackage}
    BY <2>6 DEF build_pack
  <2> HIDE DEF packages, plan, pack
  <2>8. ASSUME ~widened, NEW k \in plan.packages
        PROVE  k \in pack.affected_crates
    <3>1. PICK p \in planner.changes : owner(p) # NoPackage /\ k \in with_reverse(packages, owner(p))
      BY <2>3, <2>4, <2>8 DEF MarksOf
    <3>2. p \in oracle.changes
      BY <2>5, <3>1
    <3>3. QED
      BY <2>7, <3>1, <3>2 DEF impact_of, with_reverse
  <2>9. ASSUME ~widened, NEW p \in pack.unmapped
        PROVE  is_markdown(p)
    <3>1. p \in oracle.changes /\ owner(p) = NoPackage
      BY <2>7, <2>9
    <3>2. PICK q \in planner.changes : p = clean(q)
      BY <3>1
    <3>3. owner(q) = NoPackage
      BY <2>5, <3>1, <3>2
    <3>4. is_markdown(q)
      BY <2>3, <2>4, <2>9, <3>3 DEF MarksOf
    <3>5. CASE clean(q) = q
      BY <3>2, <3>4, <3>5
    <3>6. CASE clean(q) # q
      <4>1. /\ q # <<>> /\ q[1] = "."
            /\ \/ clean(q) = <<>> /\ Last(q) = "."
               \/ clean(q) # <<>> /\ Last(q) = Last(clean(q))
        BY <2>3, <3>6, DottedOrPlain
      <4>2. Last(q) \in MarkdownNames
        BY <3>4, <4>1 DEF is_markdown
      <4>3. QED
        BY <3>2, <4>1, <4>2, MarkdownHasAName DEF is_markdown
    <3>7. QED
      BY <3>5, <3>6
  <2>10. ASSUME ~widened, NEW k \in plan.packages
         PROVE  manifest_of(oracle.load.packages[k].relative_root) \in listed
    <3> DEFINE impacted == impact_of(packages, oracle.changes)
    <3>1. k \in impacted.affected
      BY <2>7, <2>8, <2>10
    <3> HIDE DEF impacted
    <3>2. manifest_of(packages[k].relative_root) \in listed
      BY <2>6, <3>1, ManifestListed DEF impacted
    <3>3. QED
      BY <2>2, <3>2
  <2>11. QED
    BY <2>8, <2>9, <2>10 DEF PackCoversPlan, plan, pack
<1>2. QED
  BY <1>1, RoundHolds, PTL

-----------------------------------------------------------------------------
(* The plan reaches the users *)

\* The changed path reaches everything that uses its package whichever of its
\* versions the planner looks at.
ReachesAll(packages, path) ==
  LET k == package_for_path(packages, path)
      inside == path_inside_package(packages[k], path)
  IN  /\ k \in DOMAIN packages /\ k # NoPackage
      /\ ~is_markdown(path)
      /\ clean(path) = path
      /\ \/ inside = <<"Cargo.toml">>
         \/ /\ path = packages[k].relative_root \o inside
            /\ is_rust(inside) /\ ~is_test_path(inside)
            /\ \/ VersionsOf(path) \cap {Gone, {}} = {}
               \/ inside = <<"src", "lib.rs">>

LEMMA ReachMarks ==
  ASSUME NEW packages, IsFiniteSet(DOMAIN packages), NEW path \in Paths,
         disk[path] \in VersionsOf(path), ReachesAll(packages, path)
  PROVE  with_reverse(packages, package_for_path(packages, path))
            \subseteq classify(packages, disk, path).packages
<1> DEFINE k == package_for_path(packages, path)
           inside == path_inside_package(packages[k], path)
           all == with_reverse(packages, k)
           change == classify_inside(packages, disk, k, inside)
<1>1. all \subseteq DOMAIN packages
  BY WalkIsClosed DEF with_reverse, ReachesAll
<1>2. \/ inside = <<"Cargo.toml">>
      \/ ~is_test_path(inside) /\ detect(disk, packages[k], inside)
  <2> SUFFICES ASSUME inside # <<"Cargo.toml">>
               PROVE  ~is_test_path(inside) /\ detect(disk, packages[k], inside)
    OBVIOUS
  <2>1. /\ path = packages[k].relative_root \o inside
        /\ is_rust(inside) /\ ~is_test_path(inside) /\ clean(path) = path
        /\ VersionsOf(path) \cap {Gone, {}} = {} \/ inside = <<"src", "lib.rs">>
    BY DEF ReachesAll
  <2>2. CASE inside = <<"src", "lib.rs">>
    BY <2>1, <2>2 DEF detect, is_public_surface_path
  <2>3. CASE VersionsOf(path) \cap {Gone, {}} = {}
    <3>1. disk[path] # Gone /\ disk[path] # {}
      BY <2>3
    <3>2. public_symbols(disk, path) # {}
      BY <2>1, <3>1 DEF public_symbols, exists
    <3> HIDE DEF inside, k
    <3>3. detect(disk, packages[k], inside)
      BY <2>1, <3>2 DEF detect
    <3>4. QED
      BY <2>1, <3>3
  <2>4. QED
    BY <2>1, <2>2, <2>3
<1>3. k # NoPackage /\ ~is_markdown(path)
  BY DEF ReachesAll
<1> HIDE DEF inside, k, all
<1>4. change.packages = all
  BY <1>2 DEF classify_inside, impact, all
<1>5. \/ classify(packages, disk, path).packages = DOMAIN packages
      \/ classify(packages, disk, path) = change
  <2> HIDE DEF change
  <2> QED BY <1>3 DEF classify, impact, change, inside, k
<1> HIDE DEF change
<1>6. QED
  BY <1>1, <1>4, <1>5 DEF all, k

\* What the planner was asked about, and how far the paths it looked at reach.
ReachInv ==
  /\ \A p \in Paths : disk[p] \in VersionsOf(p)
  /\ planner.pc # "idle" =>
        /\ \A c \in planner.changes : clean(c) \in Paths
        /\ ManifestsStood(planner.began) =>
              \A p \in Paths : Last(p) = "Cargo.toml" /\ disk[p] # base[p] =>
                  \E c \in planner.changes : clean(c) = p
  /\ planner.pc \in {"classify", "done"} =>
        \A c \in planner.changes \ planner.todo :
            ReachesAll(planner.load.packages, c) =>
                with_reverse(planner.load.packages, package_for_path(planner.load.packages, c))
                    \subseteq planner.marks.packages

LEMMA ReachInit == Init => ReachInv
BY DEF Init, ReachInv, VersionsOf

\* The changed paths name the files that differ, however they are spelled.
LEMMA ChangesAreFiles ==
  ASSUME NEW spelling
  PROVE  LET changes == {normalize_slashes(q) : q \in spelled(Changed, spelling)}
         IN  /\ \A c \in changes : clean(c) \in Paths
             /\ \A p \in Paths : disk[p] # base[p] => \E c \in changes : clean(c) = p
<1>1. ASSUME NEW p \in Paths
      PROVE  /\ clean(normalize_slashes(p)) = p
             /\ clean(normalize_slashes(<<".">> \o p)) = p
  <2>1. p \in Seq(Segments) /\ p \in Seq(STRING)
    BY PathsArePlain DEF Segments
  <2>2. normalize_slashes(p) = p
    <3>1. CASE p = <<>>
      BY <3>1 DEF normalize_slashes
    <3>2. CASE p # <<>>
      <4>1. Tail(p) \in Seq(Segments) /\ p = <<Head(p)>> \o Tail(p)
        BY <2>1, <3>2
      <4>2. clean(Tail(p)) = Tail(p)
        BY <4>1, CleanOfPlain
      <4>3. QED
        BY <3>2, <4>1, <4>2 DEF normalize_slashes
    <3>3. QED
      BY <3>1, <3>2
  <2> DEFINE dotted == <<".">> \o p
  <2>3. dotted # <<>> /\ Head(dotted) = "." /\ Tail(dotted) = p
    BY <2>1, NamesAreStrings
  <2>4. normalize_slashes(dotted) = <<".">> \o clean(p)
    <3> HIDE DEF dotted
    <3> QED BY <2>3 DEF normalize_slashes
  <2>5. clean(<<".">> \o p) = p
    BY <2>1, NamesAreStrings, CleanOfNormal
  <2>6. clean(p) = p
    BY <2>1, CleanOfPlain
  <2>7. QED
    BY <2>2, <2>4, <2>5, <2>6
<1>2. QED
  BY <1>1 DEF spelled, Changed

\* An edit of another file than a manifest leaves the manifests as they are, and
\* no edit takes a version back.
LEMMA EditReach ==
  ASSUME CheckoutInv, ReaderInv(planner), Edit
  PROVE  /\ UNCHANGED <<base, planner>>
         /\ \A p : VersionsOf(p) \subseteq VersionsOf(p)'
         /\ \A p \in Paths : disk'[p] = disk[p] \/ disk'[p] \in VersionsOf(p)'
         /\ ManifestsStood(planner.began)' =>
               /\ ManifestsStood(planner.began)
               /\ \A p \in Paths : Last(p) = "Cargo.toml" => disk'[p] = disk[p]
<1>1. PICK r \in Revisions : disk' = [disk EXCEPT ![r.path] = r.to] /\ edits' = Append(edits, r)
  BY DEF Edit
<1>2. UNCHANGED <<base, planner>>
  BY DEF Edit
<1>3. /\ Len(edits) \in Nat /\ Len(edits') = Len(edits) + 1
      /\ edits'[Len(edits) + 1] = r
      /\ \A i \in 1 .. Len(edits) : edits'[i] = edits[i]
  BY <1>1, AppendProperties, LenProperties DEF CheckoutInv
<1>4. \A p \in Paths : disk'[p] = IF p = r.path THEN r.to ELSE disk[p]
  BY <1>1 DEF CheckoutInv, DiskIsCheckout
<1>5. ASSUME NEW p PROVE VersionsOf(p) \subseteq VersionsOf(p)'
  <2>1. ASSUME NEW i \in 1 .. Len(edits), edits[i].path = p
        PROVE  edits[i].to \in VersionsOf(p)'
    <3>1. i \in 1 .. Len(edits') /\ edits'[i] = edits[i]
      BY <1>3
    <3>2. QED
      BY <2>1, <3>1 DEF VersionsOf
  <2>2. base[p] \in VersionsOf(p)'
    BY <1>2 DEF VersionsOf
  <2>3. QED
    BY <2>1, <2>2 DEF VersionsOf
<1>6. ASSUME NEW p \in Paths, disk'[p] # disk[p] PROVE disk'[p] \in VersionsOf(p)'
  <2>1. Len(edits) + 1 \in 1 .. Len(edits')
    BY <1>3
  <2>2. p = r.path /\ disk'[p] = r.to
    BY <1>4, <1>6
  <2>3. QED
    BY <1>3, <2>1, <2>2 DEF VersionsOf
<1>7. ASSUME ManifestsStood(planner.began)'
      PROVE  /\ ManifestsStood(planner.began)
             /\ \A p \in Paths : Last(p) = "Cargo.toml" => disk'[p] = disk[p]
  <2>1. planner.began \in 0 .. Len(edits)
    BY DEF ReaderInv
  <2>2. \A i \in planner.began + 1 .. Len(edits') : Last(edits'[i].path) # "Cargo.toml"
    BY <1>2, <1>7 DEF ManifestsStood
  <2>3. Len(edits) + 1 \in planner.began + 1 .. Len(edits')
    BY <1>3, <2>1
  <2>4. Last(r.path) # "Cargo.toml"
    BY <1>3, <2>2, <2>3
  <2>5. ASSUME NEW i \in planner.began + 1 .. Len(edits)
        PROVE  Last(edits[i].path) # "Cargo.toml"
    <3>1. i \in planner.began + 1 .. Len(edits') /\ i \in 1 .. Len(edits)
      BY <1>3, <2>1
    <3>2. QED
      BY <1>3, <2>2, <3>1
  <2>6. QED
    BY <1>4, <2>4, <2>5 DEF ManifestsStood
<1>8. QED
  BY <1>2, <1>5, <1>6, <1>7

LEMMA ReachNext == RoundInv /\ ReachInv /\ [Next]_vars => ReachInv'
<1> SUFFICES ASSUME RoundInv, ReachInv, [Next]_vars PROVE ReachInv'
  OBVIOUS
<1>1. ASSUME UNCHANGED <<base, disk, edits>>
      PROVE  /\ \A p \in Paths : disk'[p] \in VersionsOf(p)'
             /\ \A packages, c : ReachesAll(packages, c)' => ReachesAll(packages, c)
  <2>1. \A p : VersionsOf(p)' = VersionsOf(p)
    BY <1>1 DEF VersionsOf
  <2>2. ASSUME NEW packages, NEW c, ReachesAll(packages, c)' PROVE ReachesAll(packages, c)
    BY <2>1, <2>2 DEF ReachesAll
  <2>3. QED
    BY <1>1, <2>1, <2>2 DEF ReachInv
<1>2. ASSUME UNCHANGED <<base, disk, edits, planner>> PROVE ReachInv'
  BY <1>1, <1>2 DEF ReachInv, ManifestsStood
<1>3. CASE Edit
  <2>1. /\ UNCHANGED <<base, planner>>
        /\ \A p : VersionsOf(p) \subseteq VersionsOf(p)'
        /\ \A p \in Paths : disk'[p] = disk[p] \/ disk'[p] \in VersionsOf(p)'
        /\ ManifestsStood(planner.began)' =>
              /\ ManifestsStood(planner.began)
              /\ \A p \in Paths : Last(p) = "Cargo.toml" => disk'[p] = disk[p]
    BY <1>3, EditReach DEF RoundInv, PlannerInv
  <2>2. \A p \in Paths : disk'[p] \in VersionsOf(p)'
    BY <2>1 DEF ReachInv
  <2>3. ASSUME NEW packages, NEW c, ReachesAll(packages, c)' PROVE ReachesAll(packages, c)
    BY <2>1, <2>3 DEF ReachesAll
  <2>4. QED
    BY <2>1, <2>2, <2>3 DEF ReachInv
<1>4. CASE StartPlan
  <2>1. PICK spelling \in Spellings, options \in Options :
          planner' = PlannerAfter(
              [planner EXCEPT !.began = Len(edits), !.options = options,
                              !.changes = {normalize_slashes(p) :
                                               p \in spelled(Changed, spelling)}],
              StartLoad(disk))
    BY <1>4 DEF StartPlan
  <2> DEFINE changes == {normalize_slashes(p) : p \in spelled(Changed, spelling)}
             started == [planner EXCEPT !.began = Len(edits), !.options = options,
                                        !.changes = changes]
  <2>2. /\ \A c \in changes : clean(c) \in Paths
        /\ \A p \in Paths : disk[p] # base[p] => \E c \in changes : clean(c) = p
    BY ChangesAreFiles
  <2>3. planner' = PlannerAfter(started, StartLoad(disk))
    BY <2>1
  <2> HIDE DEF changes
  <2>4. DOMAIN started = PlannerFields /\ started.changes = changes
    BY DEF RoundInv, PlannerInv, PlannerFields
  <2> HIDE DEF started
  <2>5. GoesOn(started, StartLoad(disk), planner')
    BY <2>3, <2>4, PlannerAfterCases
  <2>6. UNCHANGED <<base, disk, edits>>
    BY <1>4 DEF StartPlan
  <2>7. QED
    BY <1>1, <2>2, <2>4, <2>5, <2>6 DEF ReachInv, GoesOn
<1>5. CASE PlannerReadsMember
  <2>1. /\ planner.pc = "load"
        /\ planner' = PlannerAfter(planner, ReadMember(disk, planner.load))
        /\ UNCHANGED <<base, disk, edits>>
    BY <1>5 DEF PlannerReadsMember
  <2>2. GoesOn(planner, ReadMember(disk, planner.load), planner')
    BY <2>1, PlannerAfterCases DEF RoundInv, PlannerInv
  <2>3. QED
    BY <1>1, <2>1, <2>2 DEF ReachInv, ManifestsStood, GoesOn
<1>6. CASE Classify
  <2>1. planner.pc = "classify" /\ UNCHANGED <<base, disk, edits>>
    BY <1>6 DEF Classify
  <2>2. PICK path \in planner.todo :
          planner' = [planner EXCEPT
              !.todo = @ \ {path},
              !.marks = add(@, classify(planner.load.packages, disk, path))]
    BY <1>6 DEF Classify
  <2> DEFINE packages == planner.load.packages
             change == classify(packages, disk, path)
             marks == add(planner.marks, change)
  <2>3. planner' = [planner EXCEPT !.todo = planner.todo \ {path}, !.marks = marks]
    BY <2>2
  <2>4. marks.packages = planner.marks.packages \cup change.packages
    BY DEF add
  <2> HIDE DEF marks, change
  <2>5. /\ planner'.pc = "classify" /\ planner'.began = planner.began
        /\ planner'.load = planner.load /\ planner'.changes = planner.changes
        /\ planner'.todo = planner.todo \ {path} /\ planner'.marks = marks
    BY <2>1, <2>3 DEF RoundInv, PlannerInv, PlannerFields
  <2>6. ASSUME ReachesAll(packages, path)
        PROVE  with_reverse(packages, package_for_path(packages, path)) \subseteq change.packages
    <3>1. path \in planner.changes
      BY <2>1 DEF RoundInv, PlannerInv
    <3>2. path \in Paths
      BY <2>1, <2>6, <3>1 DEF ReachInv, ReachesAll
    <3>3. disk[path] \in VersionsOf(path)
      BY <3>2 DEF ReachInv
    <3>4. IsFiniteSet(DOMAIN packages)
      BY <2>1 DEF RoundInv, PlannerInv, ReaderInv, LoadShape
    <3>5. QED
      BY <2>6, <3>2, <3>3, <3>4, ReachMarks DEF change
  <2>7. ASSUME NEW c \in planner'.changes \ planner'.todo, ReachesAll(packages, c)
        PROVE  with_reverse(packages, package_for_path(packages, c)) \subseteq marks.packages
    <3>1. CASE c = path
      BY <2>4, <2>6, <2>7, <3>1
    <3>2. CASE c # path
      <4>1. c \in planner.changes \ planner.todo
        BY <2>5, <2>7, <3>2
      <4>2. QED
        BY <2>1, <2>4, <2>7, <4>1 DEF ReachInv
    <3>3. QED
      BY <3>1, <3>2
  <2>8. QED
    BY <1>1, <2>1, <2>5, <2>7 DEF ReachInv, ManifestsStood
<1>7. CASE FinishPlan
  <2>1. /\ planner.pc = "classify" /\ UNCHANGED <<base, disk, edits>>
        /\ planner' = [planner EXCEPT !.pc = "done",
                                      !.plan = plan_of(planner.marks, planner.options)]
    BY <1>7 DEF FinishPlan
  <2> DEFINE plan == plan_of(planner.marks, planner.options)
  <2> HIDE DEF plan
  <2>2. planner' = [planner EXCEPT !.pc = "done", !.plan = plan]
    BY <2>1 DEF plan
  <2>3. /\ planner'.pc = "done" /\ planner'.began = planner.began
        /\ planner'.load = planner.load /\ planner'.changes = planner.changes
        /\ planner'.todo = planner.todo /\ planner'.marks = planner.marks
    BY <2>1, <2>2 DEF RoundInv, PlannerInv, PlannerFields
  <2>4. QED
    BY <1>1, <2>1, <2>3 DEF ReachInv, ManifestsStood
<1>8. QED
  BY <1>2, <1>3, <1>4, <1>5, <1>6, <1>7
     DEF Next, vars, StartQuery, OracleReadsMember, IndexPackage, LoadGovernance,
         PersistAndPack, PersistFails

LEMMA ReachHolds == Spec => []ReachInv
BY RoundHolds, ReachInit, ReachNext, PTL DEF Spec

\* What a changed file does to the plan, if it is one that reaches all the users.
LEMMA ReachedByPath ==
  ASSUME RoundInv, ReachInv, planner.pc = "done",
         ManifestsStood(planner.began), GivenAsOwned(planner.changes),
         HeldAsOwned(planner.changes),
         NEW k \in DOMAIN planner.load.packages, NEW path \in planner.changes,
         Holds(k, clean(path)), ~is_markdown(path),
         \/ clean(path) = manifest_of(RootOf(k))
         \/ AlwaysPublic(k, path)
  PROVE  with_reverse(planner.load.packages, k) \subseteq planner.plan.packages
<1> DEFINE packages == planner.load.packages
           marks == planner.marks
           inside == path_inside_package(packages[k], path)
<1>1. PICK n \in Nat : Reads(disk, planner.load, n)
  BY DEF RoundInv, PlannerInv, ReaderInv
<1>2. /\ planner.load.todo = <<>> /\ IsFiniteSet(DOMAIN packages)
      /\ planner.todo = {} /\ MarksOf(packages, planner.changes, marks)
      /\ IsNormal(path) /\ clean(path) \in Paths
  <2>1. planner.changes \ planner.todo = planner.changes
    BY DEF RoundInv, PlannerInv
  <2>2. QED
    BY <2>1 DEF RoundInv, PlannerInv, ReaderInv, LoadShape, ReachInv
<1>3. planner.plan.packages = marks.packages
  <2>1. planner.plan = plan_of(marks, planner.options)
    BY DEF RoundInv, PlannerInv
  <2> HIDE DEF marks
  <2>2. CASE marks.packages = {} /\ "DocumentationOnly" \in marks.reasons
    <3>1. planner.plan = docs_only_plan(planner.options)
      BY <2>1, <2>2 DEF plan_of
    <3>2. QED
      BY <2>2, <3>1 DEF docs_only_plan
  <2>3. CASE ~(marks.packages = {} /\ "DocumentationOnly" \in marks.reasons)
    BY <2>1, <2>3 DEF plan_of
  <2>4. QED
    BY <2>2, <2>3
<1>4. with_reverse(packages, k) \subseteq DOMAIN packages
  BY <1>2, WalkIsClosed DEF with_reverse
<1>5. CASE Widened(marks)
  BY <1>2, <1>3, <1>4, <1>5 DEF MarksOf
<1>6. CASE ~Widened(marks)
  <2>1. package_for_path(packages, path) # NoPackage
    BY <1>2, <1>6 DEF MarksOf
  <2>2. clean(path) = path
    <3>1. CASE \A q \in planner.changes : q = clean(q)
      BY <3>1
    <3>2. CASE <<"Cargo.toml">> \notin Manifests(disk)
      BY <3>2, <1>1, <1>2, <2>1, OwnedIsPlain
    <3>3. QED
      BY <3>1, <3>2 DEF GivenAsOwned
  <2>3. package_for_path(packages, path) = k
    <3>1. ~TiesWithRoot(k)
      BY DEF HeldAsOwned
    <3>2. \A j \in DOMAIN packages :
              /\ packages[j].relative_root = <<>>
              /\ packages[k].relative_root # <<>>
              /\ root_length(packages[k].relative_root) = 1
              => NamedBefore(j, k)
      BY <3>1 DEF TiesWithRoot, RootOf
    <3>3. QED
      BY <1>1, <1>2, <2>2, <3>2, NearestOwns DEF Holds, RootOf
  <2>4. packages[k].relative_root \in Seq(Segments)
    BY <1>1, RootsHaveManifests
  <2>5. /\ packages[k].relative_root \in Seq(STRING)
        /\ path \in Seq(STRING)
        /\ IsStrictPrefix(packages[k].relative_root, path)
    BY <1>2, <2>2, <2>4, PathsArePlain DEF Segments, Holds, RootOf
  <2>6. /\ inside \in Seq(STRING) /\ inside # <<>>
        /\ path = packages[k].relative_root \o inside
        /\ Last(inside) = Last(path)
        /\ is_test_path(inside) => is_test_path(path)
    BY <2>5, InsideOf
  <2> HIDE DEF inside
  <2>7. ReachesAll(packages, path)
    <3>1. CASE path = manifest_of(RootOf(k))
      <4>1. <<"Cargo.toml">> \in Seq(STRING)
        BY NamesAreStrings
      <4>2. inside = <<"Cargo.toml">>
        <5> DEFINE name == <<"Cargo.toml">>
        <5>1. name \in Seq(STRING) /\ packages[k].relative_root \o inside = packages[k].relative_root \o name
          BY <2>6, <3>1, <4>1 DEF manifest_of, RootOf
        <5> HIDE DEF name
        <5>2. inside = name
          BY <2>5, <2>6, <5>1, ConcatSimplifications
        <5>3. QED
          BY <5>2 DEF name
      <4>3. QED
        BY <2>1, <2>2, <2>3, <4>2 DEF ReachesAll, inside
    <3>2. CASE AlwaysPublic(k, path)
      <4>1. is_rust(inside) /\ ~is_test_path(inside)
        BY <2>6, <3>2 DEF AlwaysPublic, is_rust
      <4>2. VersionsOf(path) \cap {Gone, {}} = {} \/ inside = <<"src", "lib.rs">>
        <5>1. CASE VersionsOf(path) \cap {Gone, {}} = {}
          BY <5>1
        <5>2. CASE path = packages[k].relative_root \o <<"src", "lib.rs">>
          <6>1. <<"src", "lib.rs">> \in Seq(STRING)
            BY NamesAreStrings
          <6>2. QED
            <7> DEFINE lib == <<"src", "lib.rs">>
            <7>1. lib \in Seq(STRING) /\ packages[k].relative_root \o inside = packages[k].relative_root \o lib
              BY <2>6, <5>2, <6>1
            <7> HIDE DEF lib
            <7>2. inside = lib
              BY <2>5, <2>6, <7>1, ConcatSimplifications
            <7>3. QED
              BY <7>2 DEF lib
        <5>3. QED
          BY <2>2, <3>2, <5>1, <5>2 DEF AlwaysPublic, RootOf
      <4>3. QED
        BY <2>1, <2>2, <2>3, <2>6, <4>1, <4>2 DEF ReachesAll, inside
    <3>3. QED
      BY <2>2, <3>1, <3>2
  <2>8. with_reverse(packages, package_for_path(packages, path)) \subseteq marks.packages
    BY <1>2, <2>7 DEF ReachInv
  <2>9. QED
    BY <1>3, <2>3, <2>8
<1>7. QED
  BY <1>5, <1>6

\* PlanReachesUsers: in every workspace, a plan for a changed source that always
\* offers public symbols has the users of its package along every chain of
\* dependencies, each declared at the base commit or now, unless a changed file lies
\* in a member that ties with the root package (HeldAsOwned).  A user that declares one
\* now is on the planner's walk; the manifest of one that did is a changed path,
\* and plans what the walk would.
THEOREM PlanReaches == Spec => []PlanReachesUsers
<1>1. RoundInv /\ ReachInv => PlanReachesUsers
  <2> SUFFICES ASSUME RoundInv, ReachInv, planner.pc = "done",
                      ManifestsStood(planner.began), GivenAsOwned(planner.changes),
                      HeldAsOwned(planner.changes),
                      NEW path \in planner.changes, NEW k \in DOMAIN planner.load.packages,
                      Holds(k, clean(path)), AlwaysPublic(k, path),
                      NEW user \in UsersOf(k)
               PROVE  user \in planner.plan.packages
    BY DEF PlanReachesUsers, UsersPlanned
  <2> DEFINE packages == planner.load.packages
             names == DOMAIN packages
             planned == planner.plan.packages
             S == {j \in names : with_reverse(packages, j) \subseteq planned}
  <2>1. PICK n \in Nat : Reads(disk, planner.load, n)
    BY DEF RoundInv, PlannerInv, ReaderInv
  <2>2. planner.load.todo = <<>> /\ IsFiniteSet(names)
    BY DEF RoundInv, PlannerInv, ReaderInv, LoadShape
  <2>3. k \in S
    BY ReachedByPath DEF AlwaysPublic
  <2>4. ASSUME NEW u \in names, NEW x \in Uses(u) \cap S
        PROVE  u \in S
    <3> DEFINE file == manifest_of(RootOf(u))
               declared(m) == m.dependencies \cup m.dev_dependencies \cup m.build_dependencies
               texts == {disk[file]} \cup (IF is_markdown(file) THEN {} ELSE {base[file]})
    <3>1. RootOf(u) \in Seq(Segments) /\ file \in Manifests(disk)
      BY <2>1, RootsHaveManifests DEF RootOf
    <3>2. PICK m \in texts \ {Gone} : \E y \in declared(m) : y.package = x /\ y.key = x
      BY <2>4 DEF Uses
    <3>3. CASE m = disk[file]
      <4>1. /\ x \in names
            /\ all_declared_dependencies(packages[u])
                 = names \cap (dependency_names(m.dependencies)
                                 \cup dependency_names(m.dev_dependencies)
                                 \cup dependency_names(m.build_dependencies))
        <5>1. m = disk[manifest_of(packages[u].relative_root)] /\ x \in names
          BY <3>3 DEF RootOf
        <5>2. QED
          BY <2>1, <2>2, <5>1, LoadedFrom
      <4>2. x # NoPackage
        <5>1. manifest_of(RootOf(x)) \in Manifests(disk)
          BY <2>1, <4>1, RootsHaveManifests DEF RootOf
        <5>2. disk[manifest_of(RootOf(x))].package = x
          BY <2>1, <2>2, <4>1, LoadedFrom DEF RootOf
        <5>3. QED
          BY <5>1, <5>2 DEF Manifests
      <4>3. x \in all_declared_dependencies(packages[u])
        BY <3>2, <4>1, <4>2 DEF dependency_names
      <4>4. u \in direct_reverse_dependencies_of(packages, x)
        BY <4>3 DEF direct_reverse_dependencies_of
      <4>5. with_reverse(packages, u) \subseteq with_reverse(packages, x)
        BY <2>2, <4>4, WalkNests
      <4>6. QED
        BY <4>5
    <3>4. CASE m # disk[file]
      <4>1. base[file] # disk[file] /\ ~is_markdown(file)
        BY <3>2, <3>4
      <4>2. /\ file \in Paths /\ file \in Seq(Segments) /\ Last(file) = "Cargo.toml"
            /\ file # <<>>
            /\ IsStrictPrefix(RootOf(u), file)
            /\ Len(file) = Len(RootOf(u)) + 1 /\ Len(RootOf(u)) \in Nat
        <5>1. file \in Paths /\ file \in Seq(Segments) /\ Last(file) = "Cargo.toml"
          BY <3>1, ManifestIsPlain DEF Manifests
        <5>2. IsStrictPrefix(RootOf(u), file) /\ Len(file) = Len(RootOf(u)) + 1
          BY <3>1, ManifestBelow
        <5>3. Len(RootOf(u)) \in Nat
          BY <3>1, LenProperties
        <5>4. file # <<>>
          BY <5>2, <5>3, EmptySeq
        <5>5. QED
          BY <5>1, <5>2, <5>3, <5>4
      <4>3. PICK c \in planner.changes : clean(c) = file
        BY <4>1, <4>2 DEF ReachInv
      <4>4. Holds(u, clean(c))
        <5>1. Len(RootOf(u)) + 1 .. Len(file) - 1 = {}
          BY <4>2
        <5>2. QED
          BY <4>2, <4>3, <5>1 DEF Holds
      <4>5. ~is_markdown(c)
        <5>1. CASE clean(c) = c
          BY <4>1, <4>3, <5>1
        <5>2. CASE clean(c) # c
          <6>1. c # <<>> /\ c[1] = "." /\ Last(c) = Last(file)
            BY <4>2, <4>3, <5>2, DottedOrPlain DEF RoundInv, PlannerInv
          <6>2. QED
            BY <4>1, <4>2, <6>1 DEF is_markdown
        <5>3. QED
          BY <5>1, <5>2
      <4>6. QED
        BY <4>3, <4>4, <4>5, ReachedByPath
    <3>5. QED
      BY <3>3, <3>4
  <2>5. user \in S
    <3> DEFINE closed(T) == \A u \in names : Uses(u) \cap T # {} => u \in T
    <3>1. closed(S)
      <4> HIDE DEF S
      <4> QED BY <2>4
    <3>2. S \in SUBSET names
      OBVIOUS
    <3>3. \A T \in SUBSET names : k \in T /\ closed(T) => user \in T
      BY DEF UsersOf
    <3> HIDE DEF S, closed
    <3>4. QED
      BY <2>3, <3>1, <3>2, <3>3
  <2>6. QED
    BY <2>5 DEF with_reverse
<1>2. QED
  BY <1>1, RoundHolds, ReachHolds, PTL

=============================================================================
