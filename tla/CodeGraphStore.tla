---------------------------- MODULE CodeGraphStore ----------------------------
(***************************************************************************)
(* The code-graph database (storage.rs, storage/) and the jeryu-codegraph     *)
(* commands that share it.  Every command is a process of its own with its    *)
(* own connections: it opens the store, which applies the schema and          *)
(* migrates, and then runs its body.  A statement outside a transaction is     *)
(* one step, a transaction is one step, and between two steps any other        *)
(* command may run, or the process may be killed.                            *)
(*                                                                         *)
(* A graph table holds the number of the snapshot its rows came from; what is  *)
(* in a snapshot is CodeGraph's.  A cluster row is its identity, score and      *)
(* merged members, whose fate category and coverage share; the reports come    *)
(* from ToolBuildScan.                                                       *)
(***************************************************************************)
EXTENDS Integers, Sequences, FiniteSets

CONSTANTS
    Procs,          \* processes that run commands, one after the other
    Commands,       \* the command lines that may be run
    Reports,        \* repo_id -> the cluster lists a scan of it may report
    Commits,        \* the commit labels a scan may be given
    InitialDbs,     \* [shape, rows]: databases found on disk
    MaxStarts,      \* commands run
    NoCommand, NoReport

\* A report is a list of clusters and names a cluster once; the members of a
\* cluster are a list.
ASSUME StoreAssumption ==
    /\ MaxStarts \in Nat
    /\ \A repo \in DOMAIN Reports : \A clusters \in Reports[repo] :
          /\ clusters \in Seq({clusters[i] : i \in DOMAIN clusters})
          /\ \A i \in DOMAIN clusters :
                clusters[i].members
                    \in Seq({clusters[i].members[k] : k \in DOMAIN clusters[i].members})
          /\ \A i, j \in DOMAIN clusters : clusters[i].id = clusters[j].id => i = j
    /\ \A stored \in InitialDbs :
          /\ stored.shape \in {"absent", "v3", "v4", "v5"}
          /\ \A r \in stored.rows :
                DOMAIN r = {"id", "repo", "commit", "score", "members", "stamp"}
    /\ \A command \in Commands : command.repo \in DOMAIN Reports

VARIABLES
    shape,          \* of the clusters table: absent, v3, v4 or v5
    rows,           \* codegraph_tool_build_clusters
    ignores,        \* codegraph_tool_build_ignores: id -> its verdict
    graph,          \* table -> the snapshot its rows came from, 0 for none
    starts,
    scans,          \* scans made, the clock that stamps the reports
    pc, cmd,        \* process -> the step it is at, its command line
    loaded,         \* process -> the tables it has loaded
    report,         \* process -> the report it has scanned
    cursor,         \* process -> <<cluster, member>> of the propagation
    found,          \* process -> the member it found ignored, with its verdict
    heard,          \* history: process -> the ids ignored when it persisted
    latest,         \* history: repo_id -> the last report persisted for it
    persists,       \* history: snapshots persisted
    rebuilds        \* history: rebuilds of the clusters table

db == <<shape, rows, ignores, graph>>
locals == <<loaded, report, cursor, found, heard>>
vars == <<db, starts, scans, pc, cmd, locals, latest, persists, rebuilds>>

Resting == {"idle", "done", "failed", "dead"}
GraphTables == <<"symbols", "crate_deps", "symbol_refs", "files", "governance", "index_runs">>
Tables == {GraphTables[i] : i \in DOMAIN GraphTables}

Goto(p, step) == pc' = [pc EXCEPT ![p] = step]

----------------------------------------------------------------------------
\* The command line: open the store, then the body of the command.

FirstStep(op) ==
    CASE op \in {"index", "query"} -> "persist_graph"
      [] op = "validate" -> "load"
      [] op \in {"scan", "scan_family", "scan_system"} -> "scan"
      [] op = "clusters" -> "list"
      [] op = "ignore" -> "ignore"
      [] OTHER -> "done"                                \* impact

Start(p) ==
    /\ pc[p] \in Resting
    /\ starts < MaxStarts
    /\ \E command \in Commands : cmd' = [cmd EXCEPT ![p] = command]
    /\ starts' = starts + 1
    /\ loaded' = [loaded EXCEPT ![p] = <<>>]
    /\ report' = [report EXCEPT ![p] = NoReport]
    /\ cursor' = [cursor EXCEPT ![p] = <<1, 1>>]
    /\ found' = [found EXCEPT ![p] = <<>>]
    /\ heard' = [heard EXCEPT ![p] = {}]
    /\ Goto(p, "schema")
    /\ UNCHANGED <<db, scans, latest, persists, rebuilds>>

Kill(p) ==
    /\ pc[p] \notin Resting
    /\ Goto(p, "dead")
    /\ UNCHANGED <<db, starts, scans, cmd, locals, latest, persists, rebuilds>>

\* CREATE TABLE IF NOT EXISTS: an old table keeps the shape it has.
ApplySchema(p) ==
    /\ pc[p] = "schema"
    /\ shape' = IF shape = "absent" THEN "v5" ELSE shape
    /\ Goto(p, "check_key")
    /\ UNCHANGED <<rows, ignores, graph, starts, scans, cmd, locals, latest, persists, rebuilds>>

\* migrate_tool_build_clusters reads the shape ...
CheckKey(p) ==
    /\ pc[p] = "check_key"
    /\ Goto(p, IF shape = "v3" THEN "rebuild" ELSE "check_coverage")
    /\ UNCHANGED <<db, starts, scans, cmd, locals, latest, persists, rebuilds>>

\* ... and in a later transaction copies the columns of v3, whatever the table
\* has become meanwhile: members, category and coverage fall to their defaults.
WithoutMembers(set) == {[r EXCEPT !.members = <<>>] : r \in set}

Rebuild(p) ==
    /\ pc[p] = "rebuild"
    /\ shape' = "v4"
    /\ rows' = WithoutMembers(rows)
    /\ rebuilds' = rebuilds + 1
    /\ Goto(p, "check_coverage")
    /\ UNCHANGED <<ignores, graph, starts, scans, cmd, locals, latest, persists>>

CheckCoverage(p) ==
    /\ pc[p] = "check_coverage"
    /\ Goto(p, IF shape = "v5" THEN FirstStep(cmd[p].op) ELSE "add_coverage")
    /\ UNCHANGED <<db, starts, scans, cmd, locals, latest, persists, rebuilds>>

\* A column another opener has added meanwhile is a duplicate: open fails.
AddCoverage(p) ==
    /\ pc[p] = "add_coverage"
    /\ IF shape = "v5"
       THEN Goto(p, "failed") /\ UNCHANGED shape
       ELSE Goto(p, FirstStep(cmd[p].op)) /\ shape' = "v5"
    /\ UNCHANGED <<rows, ignores, graph, starts, scans, cmd, locals, latest, persists, rebuilds>>

----------------------------------------------------------------------------
\* The snapshot: written in one transaction, read back table by table.

\* Mutant: the tables added last are not rewritten.
PersistFirstTables(p) ==
    /\ pc[p] = "persist_graph"
    /\ persists' = persists + 1
    /\ graph' = [t \in Tables |-> IF t \in {"governance", "index_runs"} THEN graph[t]
                                 ELSE persists + 1]
    /\ Goto(p, "done")
    /\ UNCHANGED <<shape, rows, ignores, starts, scans, cmd, locals, latest, rebuilds>>

PersistGraph(p) ==
    /\ pc[p] = "persist_graph"
    /\ persists' = persists + 1
    /\ graph' = [t \in Tables |-> persists + 1]
    /\ Goto(p, "done")
    /\ UNCHANGED <<shape, rows, ignores, starts, scans, cmd, locals, latest, rebuilds>>

LoadTable(p) ==
    LET next == Len(loaded[p]) + 1
    IN
    /\ pc[p] = "load"
    /\ loaded' = [loaded EXCEPT ![p] = Append(@, graph[GraphTables[next]])]
    /\ Goto(p, IF next = Len(GraphTables) THEN "done" ELSE "load")
    /\ UNCHANGED <<db, starts, scans, cmd, report, cursor, found, heard, latest,
                   persists, rebuilds>>

----------------------------------------------------------------------------
\* The clusters of a scan.

\* Mutant: the key of the old table.
OldKey(r) == <<r.id>>

\* The primary key of the table.
RowKey(r) == IF shape = "v3" THEN <<r.id>> ELSE <<r.repo, r.id>>

Scan(p) ==
    /\ pc[p] = "scan"
    /\ scans' = scans + 1
    /\ \E clusters \in Reports[cmd[p].repo], commit \in Commits :
          report' = [report EXCEPT ![p] = [repo |-> cmd[p].repo, commit |-> commit,
                                           clusters |-> clusters, stamp |-> scans + 1]]
    /\ Goto(p, "persist_report")
    /\ UNCHANGED <<db, starts, cmd, loaded, cursor, found, heard, latest, persists, rebuilds>>

RowsOf(rep) ==
    {[id |-> rep.clusters[i].id, repo |-> rep.repo, commit |-> rep.commit,
      score |-> rep.clusters[i].score, members |-> rep.clusters[i].members,
      stamp |-> rep.stamp] : i \in DOMAIN rep.clusters}

\* DELETE the rows of the repository and commit, INSERT OR REPLACE the new ones.
persist_tool_build_report(rep) ==
    LET fresh == RowsOf(rep)
        kept  == {r \in rows : ~(r.repo = rep.repo /\ r.commit = rep.commit)}
    IN  {r \in kept : \A n \in fresh : RowKey(n) # RowKey(r)} \cup fresh

\* The rows cannot be inserted while another opener's rebuild has the coverage
\* column off the table: the transaction rolls back.
PersistReport(p) ==
    LET rep == report[p]
    IN
    /\ pc[p] = "persist_report"
    /\ IF RowsOf(rep) # {} /\ shape # "v5"
       THEN /\ Goto(p, "failed")
            /\ UNCHANGED <<rows, latest, heard>>
       ELSE /\ rows' = persist_tool_build_report(rep)
            /\ latest' = [latest EXCEPT ![rep.repo] = rep]
            /\ heard' = [heard EXCEPT ![p] = DOMAIN ignores]
            /\ Goto(p, IF cmd[p].op = "scan_system" THEN "propagate" ELSE "done")
    /\ UNCHANGED <<shape, ignores, graph, starts, scans, cmd, loaded, report, cursor, found,
                   persists, rebuilds>>

----------------------------------------------------------------------------
\* propagate_ignores_to_merged: for each merged cluster, the first member an
\* operator has ignored passes its verdict on.

Cluster(p) == report[p].clusters[cursor[p][1]]
NextCluster(p) == cursor' = [cursor EXCEPT ![p] = <<@[1] + 1, 1>>]

FinishPropagation(p) ==
    /\ pc[p] = "propagate"
    /\ cursor[p][1] > Len(report[p].clusters)
    /\ Goto(p, "done")
    /\ UNCHANGED <<db, starts, scans, cmd, locals, latest, persists, rebuilds>>

\* Past the last member, or none: on to the next cluster.
SkipCluster(p) ==
    /\ pc[p] = "propagate"
    /\ cursor[p][1] <= Len(report[p].clusters)
    /\ cursor[p][2] > Len(Cluster(p).members)
    /\ NextCluster(p)
    /\ UNCHANGED <<db, starts, scans, pc, cmd, loaded, report, found, heard, latest,
                   persists, rebuilds>>

\* Mutant: a member that is not ignored ends the search.
LookUpFirstMember(p) ==
    LET member == Cluster(p).members[cursor[p][2]]
    IN
    /\ pc[p] = "propagate"
    /\ cursor[p][1] <= Len(report[p].clusters)
    /\ cursor[p][2] <= Len(Cluster(p).members)
    /\ IF member # Cluster(p).id /\ member \in DOMAIN ignores
       THEN /\ found' = [found EXCEPT ![p] = <<member, ignores[member].by>>]
            /\ Goto(p, "inherit")
            /\ UNCHANGED cursor
       ELSE /\ NextCluster(p)
            /\ UNCHANGED <<found, pc>>
    /\ UNCHANGED <<db, starts, scans, cmd, loaded, report, heard, latest, persists, rebuilds>>

LookUpMember(p) ==
    LET member == Cluster(p).members[cursor[p][2]]
    IN
    /\ pc[p] = "propagate"
    /\ cursor[p][1] <= Len(report[p].clusters)
    /\ cursor[p][2] <= Len(Cluster(p).members)
    /\ IF member # Cluster(p).id /\ member \in DOMAIN ignores
       THEN /\ found' = [found EXCEPT ![p] = <<member, ignores[member].by>>]
            /\ Goto(p, "inherit")
            /\ UNCHANGED cursor
       ELSE /\ cursor' = [cursor EXCEPT ![p][2] = @ + 1]
            /\ UNCHANGED <<found, pc>>
    /\ UNCHANGED <<db, starts, scans, cmd, loaded, report, heard, latest, persists, rebuilds>>

\* Mutant: INSERT OR REPLACE.
WithReplaced(id, from, by) ==
    [i \in DOMAIN ignores \cup {id} |->
        IF i = id THEN [reason |-> <<"inherited", from>>, by |-> by] ELSE ignores[i]]

\* INSERT OR IGNORE: a verdict that is there already stays.
WithInherited(id, from, by) ==
    IF id \in DOMAIN ignores THEN ignores
    ELSE [i \in DOMAIN ignores \cup {id} |->
             IF i = id THEN [reason |-> <<"inherited", from>>, by |-> by] ELSE ignores[i]]

Inherit(p) ==
    /\ pc[p] = "inherit"
    /\ ignores' = WithInherited(Cluster(p).id, found[p][1], found[p][2])
    /\ NextCluster(p)
    /\ Goto(p, "propagate")
    /\ UNCHANGED <<shape, rows, graph, starts, scans, cmd, loaded, report, found,
                   heard, latest, persists, rebuilds>>

----------------------------------------------------------------------------
\* The operator: list the leads, ignore one.

\* INSERT OR REPLACE.
ignore_tool_build_cluster(id, by) ==
    [i \in DOMAIN ignores \cup {id} |->
        IF i = id THEN [reason |-> <<"operator">>, by |-> by] ELSE ignores[i]]

Ignore(p) ==
    /\ pc[p] = "ignore"
    /\ ignores' = ignore_tool_build_cluster(cmd[p].id, p)
    /\ Goto(p, "done")
    /\ UNCHANGED <<shape, rows, graph, starts, scans, cmd, locals, latest, persists, rebuilds>>

Leads(repo, include_ignored) ==
    {r \in rows : r.repo = repo /\ (include_ignored \/ r.id \notin DOMAIN ignores)}

\* ORDER BY score DESC, then id, LIMIT; ids stand in the order of their numbers.
Before(r, s) == r.score > s.score \/ (r.score = s.score /\ r.id < s.id)
tool_build_clusters(repo, limit, include_ignored) ==
    LET leads == Leads(repo, include_ignored)
        room  == IF limit = 0 THEN 1 ELSE limit
    IN  {r \in leads : Cardinality({s \in leads : Before(s, r)}) < room}

\* The listing reads the coverage column.
List(p) ==
    /\ pc[p] = "list"
    /\ Goto(p, IF shape = "v5" THEN "done" ELSE "failed")
    /\ UNCHANGED <<db, starts, scans, cmd, locals, latest, persists, rebuilds>>

----------------------------------------------------------------------------
Init ==
    /\ \E stored \in InitialDbs : shape = stored.shape /\ rows = stored.rows
    /\ ignores = <<>>
    /\ graph = [t \in Tables |-> 0]
    /\ starts = 0 /\ scans = 0 /\ persists = 0 /\ rebuilds = 0
    /\ pc = [p \in Procs |-> "idle"]
    /\ cmd = [p \in Procs |-> NoCommand]
    /\ loaded = [p \in Procs |-> <<>>]
    /\ report = [p \in Procs |-> NoReport]
    /\ cursor = [p \in Procs |-> <<1, 1>>]
    /\ found = [p \in Procs |-> <<>>]
    /\ heard = [p \in Procs |-> {}]
    /\ latest = [repo \in DOMAIN Reports |-> NoReport]

Open(p) == ApplySchema(p) \/ CheckKey(p) \/ Rebuild(p) \/ CheckCoverage(p) \/ AddCoverage(p)
Propagate(p) == FinishPropagation(p) \/ SkipCluster(p) \/ LookUpMember(p) \/ Inherit(p)

Next ==
    \E p \in Procs :
        \/ Start(p) \/ Kill(p) \/ Open(p)
        \/ PersistGraph(p) \/ LoadTable(p)
        \/ Scan(p) \/ PersistReport(p) \/ Propagate(p)
        \/ Ignore(p) \/ List(p)

Spec == Init /\ [][Next]_vars

----------------------------------------------------------------------------
\* What the clusters table holds under the commit of a report.
StoredOf(rep) == {r \in rows : r.repo = rep.repo /\ r.commit = rep.commit}

\* The last report persisted for a repository stands under its commit, and alone:
\* no scan of another repository takes a row of it, and no row of an earlier report
\* is left among them (persist_tool_build_report).  It stands whole unless the table
\* has been rebuilt more than once; a rebuild by a command that is only just opening
\* the store may then have emptied its members, "one-time" though the rebuild is meant
\* to be (helpers.rs:6), and has taken nothing else.
LatestReportIntact ==
    \A repo \in DOMAIN latest :
        latest[repo] # NoReport =>
            \/ StoredOf(latest[repo]) = RowsOf(latest[repo])
            \/ /\ rebuilds > 1
               /\ StoredOf(latest[repo]) = WithoutMembers(RowsOf(latest[repo]))

\* load_snapshot reads its tables one by one while others persist: none it reads is
\* older than one it has read before, so a snapshot whose first and last tables
\* come from one persist is that snapshot.
TablesNeverGoBack ==
    \A p \in Procs : \A i, j \in DOMAIN loaded[p] :
        i < j => loaded[p][i] <= loaded[p][j]

\* "an operator's earlier 'not a lead' verdict survives overlap merging": once a
\* system scan has finished, no listing shows a merged cluster of its report one
\* of whose members was ignored when the report was persisted.
VerdictsSurviveMerging ==
    \A p \in Procs :
        pc[p] = "done" /\ cmd[p].op = "scan_system" =>
            \A c \in {report[p].clusters[i] : i \in DOMAIN report[p].clusters} :
                (\E k \in DOMAIN c.members : c.members[k] # c.id /\ c.members[k] \in heard[p])
                => \A lead \in tool_build_clusters(report[p].repo, Cardinality(rows), FALSE) :
                       lead.id # c.id

\* A verdict an operator gave on a cluster itself is never taken back nor replaced
\* by an inherited one, however the propagation of a scan interleaves with it.
OperatorVerdictWins ==
    [][\A id \in DOMAIN ignores :
          ignores[id].reason = <<"operator">> =>
              id \in DOMAIN ignores' /\ ignores'[id].reason = <<"operator">>]_vars
=============================================================================
