------------------------ MODULE CodeGraphStore_proof ------------------------
(***************************************************************************)
(* For any number of commands on the code-graph database, any reports and     *)
(* any database found on disk: a persisted report stands, with its members unless *)
(* the table was rebuilt twice; a snapshot is read in the order it was written; an *)
(* operator's verdict stays and survives the merging of its cluster.           *)
(***************************************************************************)
EXTENDS CodeGraphStore, TLAPS

RowFields == {"id", "repo", "commit", "score", "members", "stamp"}

\* The steps at which the table may still be keyed by cluster alone.
BeforeRebuild == Resting \cup {"schema", "check_key", "rebuild"}

\* A command past the rebuild finds the composite key, and finds it for good; one about
\* to rebuild finds the old table or one that has been rebuilt.
ShapeInv ==
    /\ DOMAIN pc = Procs
    /\ shape \in {"absent", "v3", "v4", "v5"}
    /\ \A p \in Procs :
          /\ pc[p] \notin BeforeRebuild => shape \in {"v4", "v5"}
          /\ pc[p] \in {"check_key", "rebuild"} => shape # "absent"
          /\ pc[p] = "rebuild" => shape = "v3" \/ rebuilds >= 1
    /\ rebuilds \in Nat
    /\ \A r \in rows : DOMAIN r = RowFields

OwnReport ==
    \A repo \in DOMAIN latest : latest[repo] # NoReport => latest[repo].repo = repo

\* The old table holds no report of these scans.
NoneInOldTable == shape \in {"absent", "v3"} => \A repo \in DOMAIN latest : latest[repo] = NoReport

ReportInv == ShapeInv /\ OwnReport /\ NoneInOldTable /\ LatestReportIntact

-----------------------------------------------------------------------------
(* A persisted report stands.                                                *)

LEMMA RowsOfFields ==
    ASSUME NEW rep, NEW r \in RowsOf(rep)
    PROVE  DOMAIN r = RowFields /\ r.repo = rep.repo /\ r.commit = rep.commit
  BY DEF RowsOf, RowFields

LEMMA ShapeInvInit == Init => ShapeInv
  BY StoreAssumption DEF Init, ShapeInv, RowFields, BeforeRebuild, Resting

LEMMA ShapeInvStep == ShapeInv /\ [Next]_vars => ShapeInv'
  <1> SUFFICES ASSUME ShapeInv, [Next]_vars  PROVE ShapeInv'
    OBVIOUS
  <1> USE DEF ShapeInv, BeforeRebuild, Resting
  <1>1. CASE UNCHANGED vars  BY <1>1 DEF vars, db
  <1>2. ASSUME NEW p \in Procs, Start(p)  PROVE ShapeInv'
    BY <1>2 DEF Start, Goto, db
  <1>3. ASSUME NEW p \in Procs, Kill(p)  PROVE ShapeInv'
    BY <1>3 DEF Kill, Goto, db
  <1>4. ASSUME NEW p \in Procs, Open(p)  PROVE ShapeInv'
    <2>1. CASE ApplySchema(p)  BY <2>1 DEF ApplySchema, Goto
    <2>2. CASE CheckKey(p)  BY <2>2 DEF CheckKey, Goto, db
    <2>3. CASE Rebuild(p)
      <3>1. \A r \in rows' : DOMAIN r = RowFields  BY <2>3 DEF Rebuild, WithoutMembers
      <3>2. /\ shape' = "v4" /\ rebuilds' = rebuilds + 1
            /\ pc' = [pc EXCEPT ![p] = "check_coverage"]
        BY <2>3 DEF Rebuild, Goto
      <3> QED  BY <3>1, <3>2
    <2>4. CASE CheckCoverage(p)
      <3>1. shape \in {"v4", "v5"} /\ UNCHANGED <<shape, rows, rebuilds>>
        BY <2>4 DEF CheckCoverage, db
      <3>2. \A q \in Procs : pc'[q] = "rebuild" => pc[q] = "rebuild"
        BY <2>4 DEF CheckCoverage, Goto, FirstStep
      <3>3. DOMAIN pc' = Procs  BY <2>4 DEF CheckCoverage, Goto
      <3> QED  BY <3>1, <3>2, <3>3
    <2>5. CASE AddCoverage(p)
      <3>1. shape' = "v5" /\ UNCHANGED <<rows, rebuilds>> /\ DOMAIN pc' = Procs
        BY <2>5 DEF AddCoverage, Goto
      <3>2. \A q \in Procs : pc'[q] = "rebuild" => pc[q] = "rebuild"
        BY <2>5 DEF AddCoverage, Goto, FirstStep
      <3>3. shape \in {"v4", "v5"}  BY <2>5 DEF AddCoverage
      <3> QED  BY <3>1, <3>2, <3>3
    <2> QED  BY <1>4, <2>1, <2>2, <2>3, <2>4, <2>5 DEF Open
  <1>5. ASSUME NEW p \in Procs, PersistGraph(p) \/ LoadTable(p) \/ Scan(p)  PROVE ShapeInv'
    BY <1>5 DEF PersistGraph, LoadTable, Scan, Goto, db
  <1>6. ASSUME NEW p \in Procs, PersistReport(p)  PROVE ShapeInv'
    <2>1. \A r \in rows' : DOMAIN r = RowFields
      BY <1>6, RowsOfFields DEF PersistReport, persist_tool_build_report
    <2> QED  BY <1>6, <2>1 DEF PersistReport, Goto
  <1>7. ASSUME NEW p \in Procs, Propagate(p)  PROVE ShapeInv'
    BY <1>7 DEF Propagate, FinishPropagation, SkipCluster, LookUpMember, Inherit, Goto, db
  <1>8. ASSUME NEW p \in Procs, Ignore(p) \/ List(p)  PROVE ShapeInv'
    BY <1>8 DEF Ignore, List, Goto, db
  <1> QED
    BY <1>1, <1>2, <1>3, <1>4, <1>5, <1>6, <1>7, <1>8 DEF Next

\* A rebuild empties the members of a report and takes nothing else of it, and a
\* second one finds nothing to empty.
LEMMA RebuildEmptiesMembers ==
    ASSUME \A r \in rows : DOMAIN r = RowFields, rows' = WithoutMembers(rows), NEW rep
    PROVE  StoredOf(rep)' = WithoutMembers(StoredOf(rep))
  <1> DEFINE bare(r) == [r EXCEPT !.members = <<>>]
  <1>1. \A r \in rows : bare(r).repo = r.repo /\ bare(r).commit = r.commit
    BY DEF RowFields
  <1>2. rows' = {bare(r) : r \in rows}  BY DEF WithoutMembers
  <1> HIDE DEF bare
  <1>3. {q \in rows' : q.repo = rep.repo /\ q.commit = rep.commit}
        = {bare(r) : r \in {r \in rows : r.repo = rep.repo /\ r.commit = rep.commit}}
    BY <1>1, <1>2
  <1> QED  BY <1>3 DEF StoredOf, WithoutMembers, bare

LEMMA BareStaysBare ==
    ASSUME NEW set, \A r \in set : DOMAIN r = RowFields
    PROVE  WithoutMembers(WithoutMembers(set)) = WithoutMembers(set)
  <1> DEFINE bare(r) == [r EXCEPT !.members = <<>>]
  <1>1. \A r \in set : bare(bare(r)) = bare(r)  BY DEF RowFields
  <1>2. \A s : WithoutMembers(s) = {bare(r) : r \in s}  BY DEF WithoutMembers
  <1> HIDE DEF bare
  <1> QED  BY <1>1, <1>2

\* A persist leaves its own rows under its commit, and every row of another
\* repository where it was, because the key of the table names the repository.
LEMMA PersistLeavesOthers ==
    ASSUME NEW rep, shape # "v3"
    PROVE  /\ {r \in persist_tool_build_report(rep) :
                  r.repo = rep.repo /\ r.commit = rep.commit} = RowsOf(rep)
           /\ \A repo, commit : repo # rep.repo =>
                 {r \in persist_tool_build_report(rep) : r.repo = repo /\ r.commit = commit}
                 = {r \in rows : r.repo = repo /\ r.commit = commit}
  <1> DEFINE after == persist_tool_build_report(rep)
  <1>1. \A r \in RowsOf(rep) : r.repo = rep.repo /\ r.commit = rep.commit
    BY RowsOfFields
  <1>2. \A r \in after : r \in RowsOf(rep)
                        \/ (r \in rows /\ ~(r.repo = rep.repo /\ r.commit = rep.commit))
    BY DEF persist_tool_build_report
  <1>3. RowsOf(rep) \subseteq after
    BY DEF persist_tool_build_report
  <1>4. \A r \in rows : r.repo # rep.repo => r \in after
    BY <1>1 DEF persist_tool_build_report, RowKey
  <1> HIDE DEF after
  <1>5. {r \in after : r.repo = rep.repo /\ r.commit = rep.commit} = RowsOf(rep)
    BY <1>1, <1>2, <1>3
  <1>6. ASSUME NEW repo, NEW commit, repo # rep.repo
        PROVE  {r \in after : r.repo = repo /\ r.commit = commit}
               = {r \in rows : r.repo = repo /\ r.commit = commit}
    BY <1>1, <1>2, <1>4, <1>6
  <1> QED  BY <1>5, <1>6 DEF after

LEMMA ReportInvStep == ReportInv /\ [Next]_vars => ReportInv'
  <1> SUFFICES ASSUME ReportInv, [Next]_vars  PROVE ReportInv'
    OBVIOUS
  <1>1. ShapeInv'  BY ShapeInvStep DEF ReportInv
  <1>2. ASSUME UNCHANGED <<rows, latest, rebuilds>>, NoneInOldTable'  PROVE ReportInv'
    <2>1. \A rep : StoredOf(rep)' = StoredOf(rep)  BY <1>2 DEF StoredOf
    <2>2. LatestReportIntact'  BY <1>2, <2>1 DEF ReportInv, LatestReportIntact
    <2> QED  BY <1>1, <1>2, <2>2 DEF ReportInv, OwnReport
  <1>3. ASSUME NEW p \in Procs, Rebuild(p)  PROVE ReportInv'
    <2>1. /\ UNCHANGED latest /\ rows' = WithoutMembers(rows) /\ pc[p] = "rebuild"
          /\ shape' = "v4" /\ rebuilds' = rebuilds + 1
      BY <1>3 DEF Rebuild
    <2>2. \A r \in rows : DOMAIN r = RowFields  BY DEF ReportInv, ShapeInv
    <2>3. \A rep : StoredOf(rep)' = WithoutMembers(StoredOf(rep))
      BY <2>1, <2>2, RebuildEmptiesMembers
    <2>4. ASSUME NEW repo \in DOMAIN latest, latest[repo] # NoReport
          PROVE  /\ rebuilds' > 1
                 /\ StoredOf(latest[repo])' = WithoutMembers(RowsOf(latest[repo]))
      <3>1. rebuilds \in Nat /\ rebuilds >= 1
        BY <2>1, <2>4 DEF ReportInv, ShapeInv, NoneInOldTable
      <3>2. \/ StoredOf(latest[repo]) = RowsOf(latest[repo])
            \/ StoredOf(latest[repo]) = WithoutMembers(RowsOf(latest[repo]))
        BY <2>4 DEF ReportInv, LatestReportIntact
      <3>3. WithoutMembers(WithoutMembers(RowsOf(latest[repo])))
            = WithoutMembers(RowsOf(latest[repo]))
        BY RowsOfFields, BareStaysBare
      <3> QED  BY <2>1, <2>3, <3>1, <3>2, <3>3
    <2>5. LatestReportIntact'  BY <2>1, <2>4 DEF LatestReportIntact
    <2> QED  BY <1>1, <2>1, <2>5 DEF ReportInv, OwnReport, NoneInOldTable
  <1>4. ASSUME NEW p \in Procs, PersistReport(p)  PROVE ReportInv'
    <2> DEFINE rep == report[p]
    <2>1. /\ UNCHANGED <<shape, rebuilds>>
          /\ shape \in {"v4", "v5"}
      BY <1>4 DEF PersistReport, ReportInv, ShapeInv, BeforeRebuild, Resting
    <2>2. CASE UNCHANGED <<rows, latest>>
      BY <1>2, <2>1, <2>2 DEF ReportInv, NoneInOldTable
    <2>3. CASE rows' = persist_tool_build_report(rep)
               /\ latest' = [latest EXCEPT ![rep.repo] = rep]
      <3>1. OwnReport' /\ NoneInOldTable'
        BY <2>1, <2>3 DEF ReportInv, OwnReport, NoneInOldTable
      <3>2. ASSUME NEW repo \in DOMAIN latest, latest'[repo] # NoReport
            PROVE  \/ StoredOf(latest[repo])' = RowsOf(latest[repo])'
                   \/ /\ rebuilds > 1
                      /\ StoredOf(latest[repo])' = WithoutMembers(RowsOf(latest[repo])')
        <4>0. StoredOf(latest[repo])' = {r \in rows' : /\ r.repo = latest'[repo].repo
                                                     /\ r.commit = latest'[repo].commit}
          BY DEF StoredOf
        <4>1. CASE repo = rep.repo
          <5>1. latest'[repo] = rep  BY <2>3, <3>2, <4>1
          <5>2. {r \in rows' : r.repo = rep.repo /\ r.commit = rep.commit} = RowsOf(rep)
            BY <2>1, <2>3, PersistLeavesOthers
          <5>3. RowsOf(latest[repo])' = RowsOf(rep)  BY <5>1 DEF RowsOf
          <5> QED  BY <4>0, <5>1, <5>2, <5>3
        <4>2. CASE repo # rep.repo
          <5>1. latest'[repo] = latest[repo] /\ latest[repo].repo = repo
            BY <2>3, <3>2, <4>2 DEF ReportInv, OwnReport
          <5>2. {r \in rows' : r.repo = repo /\ r.commit = latest[repo].commit}
                = {r \in rows : r.repo = repo /\ r.commit = latest[repo].commit}
            BY <2>1, <2>3, <4>2, PersistLeavesOthers
          <5>3. StoredOf(latest[repo]) = {r \in rows : /\ r.repo = latest[repo].repo
                                                     /\ r.commit = latest[repo].commit}
            BY DEF StoredOf
          <5>4. StoredOf(latest[repo])' = StoredOf(latest[repo])  BY <4>0, <5>1, <5>2, <5>3
          <5>5. RowsOf(latest[repo])' = RowsOf(latest[repo])  BY <5>1 DEF RowsOf
          <5> QED  BY <3>2, <5>1, <5>4, <5>5 DEF ReportInv, LatestReportIntact
        <4> QED  BY <4>1, <4>2
      <3>3. LatestReportIntact'
        <4>1. DOMAIN latest' = DOMAIN latest /\ rebuilds' = rebuilds  BY <2>1, <2>3
        <4> QED  BY <3>2, <4>1 DEF LatestReportIntact, WithoutMembers
      <3> QED  BY <1>1, <3>1, <3>3 DEF ReportInv
    <2> QED  BY <1>4, <2>2, <2>3 DEF PersistReport
  <1>5. ASSUME NEW p \in Procs,
               \/ Start(p) \/ Kill(p) \/ ApplySchema(p) \/ CheckKey(p) \/ CheckCoverage(p)
               \/ AddCoverage(p) \/ PersistGraph(p) \/ LoadTable(p) \/ Scan(p)
               \/ Propagate(p) \/ Ignore(p) \/ List(p)
        PROVE  ReportInv'
    <2>1. UNCHANGED <<rows, latest, rebuilds>>
      BY <1>5 DEF Start, Kill, ApplySchema, CheckKey, CheckCoverage, AddCoverage, PersistGraph,
                  LoadTable, Scan, Propagate, FinishPropagation, SkipCluster, LookUpMember,
                  Inherit, Ignore, List, db
    <2>2. shape' \in {"absent", "v3"} => shape \in {"absent", "v3"}
      BY <1>5 DEF Start, Kill, ApplySchema, CheckKey, CheckCoverage, AddCoverage, PersistGraph,
                  LoadTable, Scan, Propagate, FinishPropagation, SkipCluster, LookUpMember,
                  Inherit, Ignore, List, db
    <2>3. NoneInOldTable'  BY <2>1, <2>2 DEF ReportInv, NoneInOldTable
    <2> QED  BY <1>2, <2>1, <2>3
  <1>6. CASE UNCHANGED vars
    <2>1. UNCHANGED <<rows, latest, rebuilds, shape>>  BY <1>6 DEF vars, db
    <2>2. NoneInOldTable'  BY <2>1 DEF ReportInv, NoneInOldTable
    <2> QED  BY <1>2, <2>1, <2>2
  <1> QED  BY <1>3, <1>4, <1>5, <1>6 DEF Next, Open

\* However commands open, migrate and scan at once, the last report persisted for a
\* repository stays in the table, unmixed, and with its members unless the table was
\* rebuilt more than once (persist_tool_build_report, migrate_tool_build_clusters).
THEOREM ReportsStand == Spec => []LatestReportIntact
  <1>1. Init => ReportInv
    BY ShapeInvInit DEF Init, ReportInv, OwnReport, NoneInOldTable, LatestReportIntact
  <1>2. ReportInv /\ [Next]_vars => ReportInv'  BY ReportInvStep
  <1>3. ReportInv => LatestReportIntact  BY DEF ReportInv
  <1> QED  BY <1>1, <1>2, <1>3, PTL DEF Spec

-----------------------------------------------------------------------------
(* A snapshot is read in the order it was written.                           *)

\* Every table is of the last persist, and what has been loaded is of an earlier
\* one or of the same.
LoadInv ==
    /\ DOMAIN pc = Procs /\ DOMAIN loaded = Procs
    /\ persists \in Nat
    /\ graph = [t \in Tables |-> persists]
    /\ \A p \in Procs :
          /\ loaded[p] \in Seq(Nat)
          /\ \A i \in DOMAIN loaded[p] : loaded[p][i] <= persists
          /\ pc[p] = "load" => Len(loaded[p]) < Len(GraphTables)
          /\ pc[p] \in {"schema", "check_key", "rebuild", "check_coverage", "add_coverage"} =>
                loaded[p] = <<>>
    /\ TablesNeverGoBack

\* The steps that leave a process where it is or take it past its loading.
LEMMA LoadInvKept ==
    ASSUME LoadInv, NEW p \in Procs, NEW step,
           pc' = [pc EXCEPT ![p] = step],
           step = "load" => loaded[p] = <<>>,
           step \in {"schema", "check_key", "rebuild", "check_coverage", "add_coverage"} =>
               loaded[p] = <<>>,
           UNCHANGED <<loaded, persists, graph>>
    PROVE  LoadInv'
  <1>1. Len(GraphTables) = 6  BY DEF GraphTables
  <1>2. \A q \in Procs : q # p => pc'[q] = pc[q]  BY DEF LoadInv
  <1>3. pc'[p] = step  BY DEF LoadInv
  <1>4. TablesNeverGoBack'  BY DEF LoadInv, TablesNeverGoBack
  <1>5. \A q \in Procs :
          /\ pc'[q] = "load" => Len(loaded[q]) < Len(GraphTables)
          /\ pc'[q] \in {"schema", "check_key", "rebuild", "check_coverage", "add_coverage"} =>
                loaded[q] = <<>>
    BY <1>1, <1>2, <1>3 DEF LoadInv
  <1> QED  BY <1>4, <1>5 DEF LoadInv, Tables

LEMMA LoadInvStep == LoadInv /\ [Next]_vars => LoadInv'
  <1> SUFFICES ASSUME LoadInv, [Next]_vars  PROVE LoadInv'
    OBVIOUS
  <1>0. Len(GraphTables) = 6 /\ \A i \in 1 .. 6 : GraphTables[i] \in Tables
    BY DEF GraphTables, Tables
  <1>1. CASE UNCHANGED vars
    BY <1>1 DEF vars, db, locals, LoadInv, TablesNeverGoBack, Tables
  <1>2. ASSUME NEW p \in Procs, Start(p)  PROVE LoadInv'
    <2>1. /\ loaded' = [loaded EXCEPT ![p] = <<>>] /\ pc' = [pc EXCEPT ![p] = "schema"]
          /\ persists' = persists /\ graph' = graph
      BY <1>2 DEF Start, Goto, db
    <2>2. \A q \in Procs : loaded'[q] = IF q = p THEN <<>> ELSE loaded[q]
      BY <2>1 DEF LoadInv
    <2>3. \A q \in Procs : pc'[q] = IF q = p THEN "schema" ELSE pc[q]
      BY <2>1 DEF LoadInv
    <2>4. TablesNeverGoBack'  BY <2>2 DEF LoadInv, TablesNeverGoBack
    <2>5. \A q \in Procs : /\ loaded'[q] \in Seq(Nat)
                           /\ \A i \in DOMAIN loaded'[q] : loaded'[q][i] <= persists
      <3>1. <<>> \in Seq(Nat) /\ DOMAIN <<>> = {}  OBVIOUS
      <3>2. \A q \in Procs : /\ loaded[q] \in Seq(Nat)
                             /\ \A i \in DOMAIN loaded[q] : loaded[q][i] <= persists
        BY DEF LoadInv
      <3>3. ASSUME NEW q \in Procs
            PROVE  /\ loaded'[q] \in Seq(Nat)
                   /\ \A i \in DOMAIN loaded'[q] : loaded'[q][i] <= persists
        <4>1. CASE q = p  BY <2>2, <3>1, <4>1
        <4>2. CASE q # p  BY <2>2, <3>2, <4>2
        <4> QED  BY <4>1, <4>2
      <3> QED  BY <3>3
    <2> QED  BY <2>1, <2>2, <2>3, <2>4, <2>5 DEF LoadInv, Tables
  <1>3. ASSUME NEW p \in Procs, Open(p)  PROVE LoadInv'
    <2>1. UNCHANGED <<loaded, persists, graph>> /\ loaded[p] = <<>>
      BY <1>3 DEF Open, ApplySchema, CheckKey, Rebuild, CheckCoverage, AddCoverage, db, locals,
                  LoadInv
    <2>2. \E step : pc' = [pc EXCEPT ![p] = step]
      BY <1>3 DEF Open, ApplySchema, CheckKey, Rebuild, CheckCoverage, AddCoverage, Goto
    <2> QED  BY <2>1, <2>2, LoadInvKept
  <1>4. ASSUME NEW p \in Procs, LoadTable(p)  PROVE LoadInv'
    <2> DEFINE n == Len(loaded[p]) + 1
    <2>1. loaded[p] \in Seq(Nat) /\ Len(loaded[p]) < 6 /\ persists \in Nat
      BY <1>0, <1>4 DEF LoadTable, LoadInv
    <2>2. n \in 1 .. 6  BY <2>1
    <2>3. graph[GraphTables[n]] = persists  BY <1>0, <2>2 DEF LoadInv
    <2>4. loaded' = [loaded EXCEPT ![p] = Append(loaded[p], persists)]
          /\ persists' = persists /\ graph' = graph
      BY <1>4, <2>3 DEF LoadTable, db
    <2>5. pc' = [pc EXCEPT ![p] = IF n = 6 THEN "done" ELSE "load"]
      BY <1>0, <1>4 DEF LoadTable, Goto
    <2>6. \A q \in Procs : /\ q # p => loaded'[q] = loaded[q] /\ pc'[q] = pc[q]
                           /\ q = p => loaded'[q] = Append(loaded[p], persists)
                                       /\ pc'[q] = IF n = 6 THEN "done" ELSE "load"
      BY <2>4, <2>5 DEF LoadInv
    <2>7. LET l == Append(loaded[p], persists)
          IN  /\ l \in Seq(Nat) /\ Len(l) = n /\ DOMAIN l = 1 .. n /\ l[n] = persists
              /\ \A i \in 1 .. n : i # n => i \in DOMAIN loaded[p] /\ l[i] = loaded[p][i]
      BY <2>1
    <2>8. \A i \in 1 .. n : Append(loaded[p], persists)[i] <= persists
      BY <2>1, <2>7 DEF LoadInv
    <2>9. \A i, j \in 1 .. n : i < j =>
              Append(loaded[p], persists)[i] <= Append(loaded[p], persists)[j]
      BY <2>1, <2>7, <2>8 DEF LoadInv, TablesNeverGoBack
    <2>10. TablesNeverGoBack'
      BY <2>6, <2>7, <2>9 DEF LoadInv, TablesNeverGoBack
    <2>11. \A q \in Procs :
              /\ loaded'[q] \in Seq(Nat)
              /\ \A i \in DOMAIN loaded'[q] : loaded'[q][i] <= persists
              /\ pc'[q] = "load" => Len(loaded'[q]) < Len(GraphTables)
              /\ pc'[q] \in {"schema", "check_key", "rebuild", "check_coverage", "add_coverage"}
                 => loaded'[q] = <<>>
      <3> SUFFICES ASSUME NEW q \in Procs
                   PROVE  /\ loaded'[q] \in Seq(Nat)
                          /\ \A i \in DOMAIN loaded'[q] : loaded'[q][i] <= persists
                          /\ pc'[q] = "load" => Len(loaded'[q]) < Len(GraphTables)
                          /\ pc'[q] \in {"schema", "check_key", "rebuild", "check_coverage",
                                        "add_coverage"} => loaded'[q] = <<>>
        OBVIOUS
      <3>1. CASE q # p  BY <2>6, <3>1 DEF LoadInv
      <3>2. CASE q = p
        <4>1. loaded'[q] = Append(loaded[p], persists) /\ pc'[q] = IF n = 6 THEN "done" ELSE "load"
          BY <2>6, <3>2
        <4>2. loaded'[q] \in Seq(Nat) /\ Len(loaded'[q]) = n /\ DOMAIN loaded'[q] = 1 .. n
          BY <2>7, <4>1
        <4>3. \A i \in DOMAIN loaded'[q] : loaded'[q][i] <= persists
          BY <2>8, <4>1, <4>2
        <4>4. pc'[q] = "load" => n < 6  BY <2>2, <4>1
        <4> HIDE DEF n
        <4> QED  BY <1>0, <4>1, <4>2, <4>3, <4>4
      <3> QED  BY <3>1, <3>2
    <2> QED  BY <2>4, <2>5, <2>10, <2>11 DEF LoadInv, Tables
  <1>5. ASSUME NEW p \in Procs, PersistGraph(p)  PROVE LoadInv'
    <2>1. /\ persists' = persists + 1 /\ graph' = [t \in Tables |-> persists']
          /\ loaded' = loaded /\ pc' = [pc EXCEPT ![p] = "done"]
      BY <1>5 DEF PersistGraph, Goto, locals
    <2>2. TablesNeverGoBack'  BY <2>1 DEF LoadInv, TablesNeverGoBack
    <2>3. \A q \in Procs : \A i \in DOMAIN loaded[q] : loaded[q][i] <= persists'
      <3> SUFFICES ASSUME NEW q \in Procs, NEW i \in DOMAIN loaded[q]
                   PROVE  loaded[q][i] <= persists'
        OBVIOUS
      <3>1. loaded[q][i] \in Nat /\ loaded[q][i] <= persists /\ persists \in Nat
        BY DEF LoadInv
      <3> QED  BY <2>1, <3>1
    <2>4. persists' \in Nat  BY <2>1 DEF LoadInv
    <2> QED  BY <2>1, <2>2, <2>3, <2>4 DEF LoadInv, Tables
  <1>6. ASSUME NEW p \in Procs,
               Kill(p) \/ Scan(p) \/ PersistReport(p) \/ Propagate(p) \/ Ignore(p) \/ List(p)
        PROVE  LoadInv'
    <2>1. UNCHANGED <<loaded, persists, graph>>
      BY <1>6 DEF Kill, Scan, PersistReport, Propagate, FinishPropagation, SkipCluster,
                  LookUpMember, Inherit, Ignore, List, db, locals
    <2>2. \/ UNCHANGED pc
          \/ \E step \in {"dead", "persist_report", "propagate", "inherit", "done", "failed"} :
                 pc' = [pc EXCEPT ![p] = step]
      BY <1>6 DEF Kill, Scan, PersistReport, Propagate, FinishPropagation, SkipCluster,
                  LookUpMember, Inherit, Ignore, List, Goto
    <2>3. CASE UNCHANGED pc
      BY <2>1, <2>3 DEF LoadInv, TablesNeverGoBack, Tables
    <2> QED  BY <2>1, <2>2, <2>3, LoadInvKept
  <1> QED  BY <1>1, <1>2, <1>3, <1>4, <1>5, <1>6 DEF Next

\* A snapshot loaded while others persist is never older in a table read later than
\* in one read earlier (load_snapshot, persist).
THEOREM SnapshotsInOrder == Spec => []TablesNeverGoBack
  <1>1. Init => LoadInv
    BY DEF Init, LoadInv, TablesNeverGoBack, Tables
  <1>2. LoadInv /\ [Next]_vars => LoadInv'  BY LoadInvStep
  <1>3. LoadInv => TablesNeverGoBack  BY DEF LoadInv
  <1> QED  BY <1>1, <1>2, <1>3, PTL DEF Spec

-----------------------------------------------------------------------------
(* An operator's verdict stays.                                             *)

\* No scan that inherits a verdict replaces the one an operator gave on the cluster
\* itself (propagate_ignores_to_merged, ignore_tool_build_cluster).
THEOREM VerdictStays == Spec => OperatorVerdictWins
  <1> DEFINE Stays == \A id \in DOMAIN ignores :
                          ignores[id].reason = <<"operator">> =>
                              id \in DOMAIN ignores' /\ ignores'[id].reason = <<"operator">>
  <1>1. [Next]_vars => [Stays]_vars
    <2> SUFFICES ASSUME Next  PROVE Stays
      BY DEF Stays
    <2>1. CASE UNCHANGED ignores  BY <2>1
    <2>2. ASSUME NEW p \in Procs, Inherit(p)  PROVE Stays
      BY <2>2 DEF Inherit, WithInherited
    <2>3. ASSUME NEW p \in Procs, Ignore(p)  PROVE Stays
      BY <2>3 DEF Ignore, ignore_tool_build_cluster
    <2>4. ASSUME NEW p \in Procs,
                 \/ Start(p) \/ Kill(p) \/ Open(p) \/ PersistGraph(p) \/ LoadTable(p)
                 \/ Scan(p) \/ PersistReport(p) \/ FinishPropagation(p) \/ SkipCluster(p)
                 \/ LookUpMember(p) \/ List(p)
          PROVE  UNCHANGED ignores
      BY <2>4 DEF Start, Kill, Open, ApplySchema, CheckKey, Rebuild, CheckCoverage, AddCoverage,
                  PersistGraph, LoadTable, Scan, PersistReport, FinishPropagation, SkipCluster,
                  LookUpMember, List, db
    <2> QED  BY <2>1, <2>2, <2>3, <2>4 DEF Next, Propagate
  <1> QED  BY <1>1, PTL DEF Spec, OperatorVerdictWins

-----------------------------------------------------------------------------
(* A verdict survives overlap merging.                                      *)

Clusters(p) == report[p].clusters

\* A member of the cluster other than its lead had been ignored.
HeardOf(p, c) == \E k \in DOMAIN c.members : c.members[k] # c.id /\ c.members[k] \in heard[p]
Settled(p, i) == HeardOf(p, Clusters(p)[i]) => Clusters(p)[i].id \in DOMAIN ignores

BeforePersist == {"schema", "check_key", "rebuild", "check_coverage", "add_coverage", "scan",
                  "persist_report"}

\* The clusters a system scan has passed are settled, and no member it has passed in
\* the cluster it is at had been ignored.
MergeInvAt(p) ==
    pc[p] # "idle" /\ cmd[p].op = "scan_system" =>
        /\ pc[p] \notin {"persist_graph", "load", "list", "ignore"}
        /\ pc[p] \in BeforePersist => cursor[p] = <<1, 1>> /\ cmd[p] \in Commands
        /\ pc[p] \in {"persist_report", "propagate", "inherit"} =>
              \E repo \in DOMAIN Reports : Clusters(p) \in Reports[repo]
        /\ pc[p] \in {"propagate", "inherit"} =>
              /\ cursor[p] \in (Nat \ {0}) \X (Nat \ {0})
              /\ \A i \in DOMAIN Clusters(p) : i < cursor[p][1] => Settled(p, i)
        /\ pc[p] = "propagate" /\ cursor[p][1] \in DOMAIN Clusters(p) =>
              \A k \in DOMAIN Cluster(p).members :
                  k < cursor[p][2] =>
                      Cluster(p).members[k] = Cluster(p).id
                      \/ Cluster(p).members[k] \notin heard[p]
        /\ pc[p] = "done" => \A i \in DOMAIN Clusters(p) : Settled(p, i)

MergeInv ==
    /\ DOMAIN pc = Procs /\ DOMAIN cmd = Procs /\ DOMAIN report = Procs
    /\ DOMAIN cursor = Procs /\ DOMAIN heard = Procs
    /\ \A p \in Procs : heard[p] \subseteq DOMAIN ignores
    /\ \A p \in Procs : MergeInvAt(p)

\* What a step of another process, or of this one elsewhere, leaves of a propagation:
\* verdicts are only added.
LEMMA MergeInvAtKept ==
    ASSUME NEW p \in Procs, MergeInvAt(p),
           pc'[p] = pc[p], cmd'[p] = cmd[p], report'[p] = report[p], cursor'[p] = cursor[p],
           heard'[p] = heard[p], DOMAIN ignores \subseteq DOMAIN ignores'
    PROVE  MergeInvAt(p)'
  <1>1. Clusters(p)' = Clusters(p) /\ Cluster(p)' = Cluster(p)  BY DEF Clusters, Cluster
  <1>2. \A c : HeardOf(p, c)' = HeardOf(p, c)  BY DEF HeardOf
  <1>3. \A i : Settled(p, i) => Settled(p, i)'  BY <1>1, <1>2 DEF Settled
  <1> QED  BY <1>1, <1>3 DEF MergeInvAt

\* A step of p, and of no other process.
StepOf(p) ==
    /\ DOMAIN pc' = DOMAIN pc /\ DOMAIN cmd' = DOMAIN cmd /\ DOMAIN report' = DOMAIN report
    /\ DOMAIN cursor' = DOMAIN cursor /\ DOMAIN heard' = DOMAIN heard
    /\ \A q \in Procs \ {p} :
          /\ pc'[q] = pc[q] /\ cmd'[q] = cmd[q] /\ report'[q] = report[q]
          /\ cursor'[q] = cursor[q] /\ heard'[q] = heard[q]

\* Each process but the one that steps keeps its part.
LEMMA MergeInvFrom ==
    ASSUME MergeInv, NEW p \in Procs, StepOf(p), MergeInvAt(p)',
           heard'[p] \subseteq DOMAIN ignores', DOMAIN ignores \subseteq DOMAIN ignores'
    PROVE  MergeInv'
  <1>1. \A q \in Procs : MergeInvAt(q)'  BY MergeInvAtKept DEF MergeInv, StepOf
  <1>2. \A q \in Procs : heard'[q] \subseteq DOMAIN ignores'  BY DEF MergeInv, StepOf
  <1> QED  BY <1>1, <1>2 DEF MergeInv, StepOf

\* The clusters of a report are a list, and so are the members of each.
LEMMA ReportLists ==
    ASSUME NEW repo \in DOMAIN Reports, NEW clusters \in Reports[repo]
    PROVE  /\ Len(clusters) \in Nat /\ DOMAIN clusters = 1 .. Len(clusters)
           /\ \A i \in DOMAIN clusters :
                 /\ Len(clusters[i].members) \in Nat
                 /\ DOMAIN clusters[i].members = 1 .. Len(clusters[i].members)
  <1>1. clusters \in Seq({clusters[i] : i \in DOMAIN clusters})  BY StoreAssumption
  <1>2. \A i \in DOMAIN clusters :
            clusters[i].members
                \in Seq({clusters[i].members[k] : k \in DOMAIN clusters[i].members})
    BY StoreAssumption
  <1>3. ASSUME NEW S, NEW s \in Seq(S)  PROVE Len(s) \in Nat /\ DOMAIN s = 1 .. Len(s)
    OBVIOUS
  <1> QED  BY <1>1, <1>2, <1>3

\* Starting, opening the store, loading, scanning and what other commands do.
LEMMA MergeInvElsewhere ==
    ASSUME MergeInv, NEW p \in Procs,
           \/ Start(p) \/ Kill(p) \/ Open(p) \/ PersistGraph(p) \/ LoadTable(p) \/ Scan(p)
           \/ PersistReport(p) \/ Ignore(p) \/ List(p)
    PROVE  MergeInv'
  <1> USE DEF MergeInv
  <1>1. CASE Start(p)
    <2>1. PICK line \in Commands : cmd' = [cmd EXCEPT ![p] = line]  BY <1>1 DEF Start
    <2>2. /\ pc' = [pc EXCEPT ![p] = "schema"] /\ cursor' = [cursor EXCEPT ![p] = <<1, 1>>]
          /\ report' = [report EXCEPT ![p] = NoReport] /\ heard' = [heard EXCEPT ![p] = {}]
          /\ ignores' = ignores
      BY <1>1 DEF Start, Goto, db
    <2>3. pc'[p] = "schema" /\ cursor'[p] = <<1, 1>> /\ cmd'[p] \in Commands /\ heard'[p] = {}
      BY <2>1, <2>2
    <2>4. MergeInvAt(p)'  BY <2>3 DEF MergeInvAt
    <2>9. StepOf(p)  BY <2>1, <2>2, <2>3, <2>4 DEF StepOf
    <2> QED  BY <2>1, <2>2, <2>3, <2>4, <2>9, MergeInvFrom
  <1>2. CASE Kill(p)
    <2>1. pc' = [pc EXCEPT ![p] = "dead"] /\ UNCHANGED <<cmd, report, cursor, heard, ignores>>
      BY <1>2 DEF Kill, Goto, db, locals
    <2>2. MergeInvAt(p)'  BY <2>1 DEF MergeInvAt, BeforePersist
    <2>9. StepOf(p)  BY <2>1, <2>2 DEF StepOf
    <2> QED  BY <2>1, <2>2, <2>9, MergeInvFrom
  <1>3. CASE Open(p)
    <2>1. UNCHANGED <<cmd, report, cursor, heard, ignores>>
      BY <1>3 DEF Open, ApplySchema, CheckKey, Rebuild, CheckCoverage, AddCoverage, db, locals
    <2>2. PICK step : /\ pc' = [pc EXCEPT ![p] = step]
                      /\ step \in {"check_key", "rebuild", "check_coverage", "add_coverage",
                                   "failed"} \/ step = FirstStep(cmd[p].op)
      BY <1>3 DEF Open, ApplySchema, CheckKey, Rebuild, CheckCoverage, AddCoverage, Goto
    <2>3. pc[p] \in BeforePersist
      BY <1>3 DEF Open, ApplySchema, CheckKey, Rebuild, CheckCoverage, AddCoverage,
                  BeforePersist
    <2>4. FirstStep("scan_system") = "scan"  BY DEF FirstStep
    <2>5. pc[p] # "idle"  BY <2>3 DEF BeforePersist
    <2>6. cmd[p].op = "scan_system" => step \in (BeforePersist \ {"persist_report"})
                                                \cup {"failed"}
      BY <2>2, <2>4 DEF BeforePersist
    <2>7. pc'[p] = step  BY <2>2
    <2>8. MergeInvAt(p)'  BY <2>1, <2>3, <2>5, <2>6, <2>7 DEF MergeInvAt, BeforePersist
    <2>9. StepOf(p)  BY <2>1, <2>2, <2>8 DEF StepOf
    <2> QED  BY <2>1, <2>2, <2>8, <2>9, MergeInvFrom
  <1>4. CASE PersistGraph(p) \/ LoadTable(p) \/ Ignore(p) \/ List(p)
    <2>1. UNCHANGED <<cmd, report, cursor, heard>> /\ DOMAIN ignores \subseteq DOMAIN ignores'
      BY <1>4 DEF PersistGraph, LoadTable, Ignore, ignore_tool_build_cluster, List, db, locals
    <2>2. PICK step \in {"done", "load", "failed"} : pc' = [pc EXCEPT ![p] = step]
      BY <1>4 DEF PersistGraph, LoadTable, Ignore, List, Goto
    <2>3. pc[p] \in {"persist_graph", "load", "ignore", "list"}
      BY <1>4 DEF PersistGraph, LoadTable, Ignore, List
    <2>4. cmd[p].op # "scan_system"  BY <2>3 DEF MergeInvAt
    <2>5. MergeInvAt(p)'  BY <2>1, <2>4 DEF MergeInvAt
    <2>9. StepOf(p)  BY <2>1, <2>2, <2>5 DEF StepOf
    <2> QED  BY <2>1, <2>2, <2>5, <2>9, MergeInvFrom
  <1>5. CASE Scan(p)
    <2>1. pc[p] = "scan" /\ pc' = [pc EXCEPT ![p] = "persist_report"]
          /\ UNCHANGED <<cmd, cursor, heard, ignores>>
      BY <1>5 DEF Scan, Goto, db
    <2>2. PICK clusters \in Reports[cmd[p].repo] :
              \E rep : report' = [report EXCEPT ![p] = rep] /\ rep.clusters = clusters
      BY <1>5 DEF Scan
    <2>3. pc'[p] = "persist_report" /\ Clusters(p)' = clusters  BY <2>1, <2>2 DEF Clusters
    <2>4. MergeInvAt(p)'
      <3>1. CASE cmd[p].op # "scan_system"  BY <2>1, <3>1 DEF MergeInvAt
      <3>2. CASE cmd[p].op = "scan_system"
        <4>1. cmd[p] \in Commands /\ cursor[p] = <<1, 1>>
          BY <2>1, <3>2 DEF MergeInvAt, BeforePersist
        <4>2. cmd[p].repo \in DOMAIN Reports  BY <4>1, StoreAssumption
        <4> QED  BY <2>1, <2>2, <2>3, <4>1, <4>2 DEF MergeInvAt
      <3> QED  BY <3>1, <3>2
    <2>9. StepOf(p)  BY <2>1, <2>2, <2>4 DEF StepOf
    <2> QED  BY <2>1, <2>2, <2>4, <2>9, MergeInvFrom
  <1>6. CASE PersistReport(p)
    <2>1. pc[p] = "persist_report" /\ UNCHANGED <<cmd, report, cursor, ignores>>
      BY <1>6 DEF PersistReport
    <2>2. PICK step, ids :
            /\ pc'[p] = step /\ heard'[p] = ids
            /\ ids \subseteq DOMAIN ignores /\ StepOf(p)
            /\ cmd[p].op = "scan_system" => step \in {"failed", "propagate"}
      <3>1. CASE pc' = [pc EXCEPT ![p] = "failed"] /\ heard' = heard
        BY <2>1, <3>1 DEF StepOf
      <3>2. CASE /\ heard' = [heard EXCEPT ![p] = DOMAIN ignores]
                 /\ pc' = [pc EXCEPT ![p] = IF cmd[p].op = "scan_system" THEN "propagate"
                                            ELSE "done"]
        BY <2>1, <3>2 DEF StepOf
      <3> QED  BY <1>6, <3>1, <3>2 DEF PersistReport, Goto
    <2>3. pc'[p] = step /\ heard'[p] = ids  BY <2>2
    <2>4. MergeInvAt(p)'
      <3>1. CASE cmd[p].op # "scan_system"  BY <2>1, <3>1 DEF MergeInvAt
      <3>2. CASE cmd[p].op = "scan_system" /\ step = "failed"
        BY <2>3, <3>2 DEF MergeInvAt, BeforePersist
      <3>3. CASE cmd[p].op = "scan_system" /\ step = "propagate"
        <4>1. cursor'[p] = <<1, 1>>  BY <2>1, <3>3 DEF MergeInvAt, BeforePersist
        <4>2. PICK repo \in DOMAIN Reports : Clusters(p) \in Reports[repo]
          BY <2>1, <3>3 DEF MergeInvAt
        <4>3. Clusters(p)' = Clusters(p)  BY <2>1 DEF Clusters
        <4>4. \A i \in DOMAIN Clusters(p) : i \in Nat /\ ~(i < 1)
              /\ \A k \in DOMAIN Clusters(p)[i].members : k \in Nat /\ ~(k < 1)
          BY <4>2, ReportLists
        <4>5. Cluster(p)' = Clusters(p)[1]  BY <2>1, <4>1 DEF Cluster, Clusters
        <4> QED  BY <2>3, <3>3, <4>1, <4>2, <4>3, <4>4, <4>5 DEF MergeInvAt, BeforePersist
      <3> QED  BY <2>2, <3>1, <3>2, <3>3
    <2> QED  BY <2>1, <2>2, <2>3, <2>4, MergeInvFrom
  <1> QED  BY <1>1, <1>2, <1>3, <1>4, <1>5, <1>6

\* The steps of a propagation: a cluster is left when no member of it had been ignored,
\* or with a verdict of its own.
LEMMA MergeInvPropagate ==
    ASSUME MergeInv, NEW p \in Procs, Propagate(p)
    PROVE  MergeInv'
  <1>1. UNCHANGED <<cmd, report, heard>> /\ DOMAIN ignores \subseteq DOMAIN ignores'
    BY DEF Propagate, FinishPropagation, SkipCluster, LookUpMember, Inherit, WithInherited,
           db, locals
  <1>2. StepOf(p)
    <2>1. CASE FinishPropagation(p)
      BY <2>1 DEF FinishPropagation, Goto, locals, StepOf, MergeInv
    <2>2. CASE SkipCluster(p)  BY <2>2 DEF SkipCluster, NextCluster, StepOf, MergeInv
    <2>3. CASE LookUpMember(p)
      BY <2>3 DEF LookUpMember, Goto, StepOf, MergeInv
    <2>4. CASE Inherit(p)  BY <2>4 DEF Inherit, NextCluster, Goto, StepOf, MergeInv
    <2> QED  BY <2>1, <2>2, <2>3, <2>4 DEF Propagate
  <1>3. SUFFICES ASSUME cmd[p].op = "scan_system"  PROVE MergeInvAt(p)'
    <2>1. heard'[p] \subseteq DOMAIN ignores'  BY <1>1 DEF MergeInv
    <2>2. cmd[p].op # "scan_system" => MergeInvAt(p)'  BY <1>1 DEF MergeInvAt
    <2> QED  BY <1>1, <1>2, <2>1, <2>2, MergeInvFrom
  <1>4. pc[p] \in {"propagate", "inherit"}
    BY DEF Propagate, FinishPropagation, SkipCluster, LookUpMember, Inherit
  <1>5. PICK repo \in DOMAIN Reports : Clusters(p) \in Reports[repo]
    BY <1>3, <1>4 DEF MergeInv, MergeInvAt
  <1>6. /\ Len(Clusters(p)) \in Nat /\ DOMAIN Clusters(p) = 1 .. Len(Clusters(p))
        /\ \A j \in DOMAIN Clusters(p) :
              /\ Len(Clusters(p)[j].members) \in Nat
              /\ DOMAIN Clusters(p)[j].members = 1 .. Len(Clusters(p)[j].members)
    BY <1>5, ReportLists
  <1>7. PICK i \in Nat \ {0}, k \in Nat \ {0} :
          /\ cursor[p] = <<i, k>>
          /\ \A j \in DOMAIN Clusters(p) : j < i => Settled(p, j)
    BY <1>3, <1>4 DEF MergeInv, MergeInvAt
  <1>8. /\ Clusters(p)' = Clusters(p) /\ Cluster(p) = Clusters(p)[i]
        /\ Cluster(p)' = Clusters(p)[cursor'[p][1]]
    BY <1>1, <1>7 DEF Clusters, Cluster
  <1>9. \A c : HeardOf(p, c)' = HeardOf(p, c)  BY <1>1 DEF HeardOf
  <1>10. \A j : Settled(p, j) => Settled(p, j)'  BY <1>1, <1>8, <1>9 DEF Settled
  <1>11. pc[p] = "propagate" /\ i \in DOMAIN Clusters(p) =>
            \A m \in DOMAIN Cluster(p).members :
                m < k => Cluster(p).members[m] = Cluster(p).id
                         \/ Cluster(p).members[m] \notin heard[p]
    BY <1>3, <1>4, <1>7 DEF MergeInv, MergeInvAt
  <1>12. cmd'[p].op = "scan_system" /\ heard'[p] = heard[p]  BY <1>1, <1>3
  <1>13. CASE FinishPropagation(p)
    <2>1. i > Len(Clusters(p)) /\ pc'[p] = "done"
      BY <1>7, <1>13 DEF FinishPropagation, Goto, Clusters, MergeInv
    <2>2. \A j \in DOMAIN Clusters(p) : Settled(p, j)'  BY <1>6, <1>7, <1>10, <2>1
    <2> QED  BY <1>8, <2>1, <2>2 DEF MergeInvAt, BeforePersist
  <1>14. ASSUME cursor'[p] = <<i + 1, 1>>, pc'[p] = "propagate", Settled(p, i)'
         PROVE  MergeInvAt(p)'
    <2>1. cursor'[p] \in (Nat \ {0}) \X (Nat \ {0}) /\ cursor'[p][1] = i + 1 /\ cursor'[p][2] = 1
      BY <1>7, <1>14
    <2>2. \A j \in DOMAIN Clusters(p) : j < i + 1 => Settled(p, j)'
      BY <1>6, <1>7, <1>10, <1>14
    <2>3. \A j \in DOMAIN Clusters(p) : \A m \in DOMAIN Clusters(p)[j].members : ~(m < 1)
      BY <1>6
    <2> QED  BY <1>5, <1>8, <1>14, <2>1, <2>2, <2>3 DEF MergeInvAt, BeforePersist
  <1>15. CASE SkipCluster(p)
    <2>1. /\ i <= Len(Clusters(p)) /\ k > Len(Clusters(p)[i].members) /\ pc[p] = "propagate"
          /\ cursor'[p] = <<i + 1, 1>> /\ pc' = pc
      BY <1>7, <1>15 DEF SkipCluster, NextCluster, Cluster, Clusters, MergeInv
    <2>2. i \in DOMAIN Clusters(p)  BY <1>6, <1>7, <2>1
    <2>3. ~HeardOf(p, Clusters(p)[i])
      BY <1>6, <1>7, <1>8, <1>11, <2>1, <2>2 DEF HeardOf
    <2>4. Settled(p, i)'  BY <1>8, <1>9, <2>3 DEF Settled
    <2> QED  BY <1>14, <2>1, <2>2, <2>4
  <1>16. CASE LookUpMember(p)
    <2> DEFINE member == Clusters(p)[i].members[k]
    <2>1. /\ i <= Len(Clusters(p)) /\ k <= Len(Clusters(p)[i].members) /\ pc[p] = "propagate"
          /\ ignores' = ignores
      BY <1>7, <1>16 DEF LookUpMember, Cluster, Clusters, db
    <2>2. i \in DOMAIN Clusters(p) /\ k \in DOMAIN Clusters(p)[i].members
      BY <1>6, <1>7, <2>1
    <2>3. CASE cursor' = cursor /\ pc'[p] = "inherit"
      BY <1>5, <1>7, <1>8, <1>10, <2>3 DEF MergeInvAt, BeforePersist
    <2>4. CASE /\ cursor' = [cursor EXCEPT ![p][2] = @ + 1] /\ pc' = pc
               /\ ~(member # Cluster(p).id /\ member \in DOMAIN ignores)
      <3>1. cursor'[p] = <<i, k + 1>>  BY <1>7, <2>4 DEF MergeInv
      <3>2. cursor'[p] \in (Nat \ {0}) \X (Nat \ {0}) /\ cursor'[p][1] = i
            /\ cursor'[p][2] = k + 1
        BY <1>7, <3>1
      <3>3. member = Cluster(p).id \/ member \notin heard[p]  BY <2>4 DEF MergeInv
      <3>4. \A m \in DOMAIN Clusters(p)[i].members :
              m < k + 1 => \/ Clusters(p)[i].members[m] = Clusters(p)[i].id
                           \/ Clusters(p)[i].members[m] \notin heard[p]
        <4>1. \A m \in DOMAIN Clusters(p)[i].members : m < k + 1 => m < k \/ m = k
          BY <1>6, <1>7, <2>2
        <4> QED  BY <1>8, <1>11, <2>1, <2>2, <3>3, <4>1
      <3>5. pc'[p] = "propagate"  BY <2>1, <2>4
      <3> HIDE DEF member
      <3> QED
        BY <1>5, <1>7, <1>8, <1>10, <1>12, <3>2, <3>4, <3>5 DEF MergeInvAt, BeforePersist
    <2> QED
      BY <1>7, <1>8, <1>16, <2>3, <2>4 DEF LookUpMember, Goto, MergeInv
  <1>17. CASE Inherit(p)
    <2>1. /\ ignores' = WithInherited(Cluster(p).id, found[p][1], found[p][2])
          /\ cursor'[p] = <<i + 1, 1>> /\ pc'[p] = "propagate"
      BY <1>7, <1>17 DEF Inherit, NextCluster, Goto, MergeInv
    <2>2. Cluster(p).id \in DOMAIN ignores'  BY <2>1 DEF WithInherited
    <2>3. Settled(p, i)'  BY <1>8, <2>2 DEF Settled
    <2> QED  BY <1>14, <2>1, <2>3
  <1> QED  BY <1>13, <1>15, <1>16, <1>17 DEF Propagate

LEMMA MergeInvStep == MergeInv /\ [Next]_vars => MergeInv'
  <1> SUFFICES ASSUME MergeInv, [Next]_vars  PROVE MergeInv'
    OBVIOUS
  <1>1. CASE UNCHANGED vars
    <2>1. UNCHANGED <<pc, cmd, report, cursor, heard, ignores>>
      BY <1>1 DEF vars, db, locals
    <2>2. \A p \in Procs : MergeInvAt(p)'  BY <2>1, MergeInvAtKept DEF MergeInv
    <2> QED  BY <2>1, <2>2 DEF MergeInv
  <1> QED  BY <1>1, MergeInvElsewhere, MergeInvPropagate DEF Next

\* Once a system scan has finished, no listing shows a merged cluster of its report
\* one of whose members an operator had ignored (propagate_ignores_to_merged).
THEOREM VerdictSurvives == Spec => []VerdictsSurviveMerging
  <1>1. Init => MergeInv
    BY DEF Init, MergeInv, MergeInvAt, BeforePersist
  <1>2. MergeInv /\ [Next]_vars => MergeInv'  BY MergeInvStep
  <1>3. MergeInv => VerdictsSurviveMerging
    <2> SUFFICES ASSUME MergeInv, NEW p \in Procs, pc[p] = "done",
                        cmd[p].op = "scan_system", NEW i \in DOMAIN Clusters(p),
                        HeardOf(p, Clusters(p)[i]),
                        NEW lead \in tool_build_clusters(report[p].repo, Cardinality(rows),
                                                         FALSE)
                 PROVE  lead.id # Clusters(p)[i].id
      BY DEF VerdictsSurviveMerging, Clusters, HeardOf
    <2>1. Clusters(p)[i].id \in DOMAIN ignores  BY DEF MergeInv, MergeInvAt, Settled
    <2>2. lead.id \notin DOMAIN ignores  BY DEF tool_build_clusters, Leads
    <2> QED  BY <2>1, <2>2
  <1> QED  BY <1>1, <1>2, <1>3, PTL DEF Spec
=============================================================================
