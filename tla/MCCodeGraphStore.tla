--------------------------- MODULE MCCodeGraphStore ---------------------------
(***************************************************************************)
(* Windows 1 and 2 may be merged into cluster 3, scanned for one repository   *)
(* and for the system, which share cluster ids.                              *)
(***************************************************************************)
EXTENDS CodeGraphStore, TLC

lead(id, score, members) == [id |-> id, score |-> score, members |-> members]

MCReports ==
    "repo" :> {<<lead(1, 2, <<>>)>>, <<>>}
    @@ "system" :> {<<lead(3, 2, <<1, 2>>), lead(1, 1, <<>>)>>, <<lead(1, 2, <<>>)>>}

line(op, repo, id) == [op |-> op, repo |-> repo, id |-> id]

MCCommands ==
    {line("query", "repo", 0), line("validate", "repo", 0), line("scan", "repo", 0),
     line("scan_system", "system", 0), line("clusters", "system", 0),
     line("ignore", "system", 2), line("ignore", "system", 3)}

MCCommits == {"head", "next"}

old_row == [id |-> 1, repo |-> "system", commit |-> "head", score |-> 1, members |-> <<>>,
            stamp |-> 0]

MCInitialDbs ==
    {[shape |-> "absent", rows |-> {}], [shape |-> "v3", rows |-> {old_row}],
     [shape |-> "v4", rows |-> {old_row}]}

Sym == Permutations(Procs)
=============================================================================
