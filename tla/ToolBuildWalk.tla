---------------------------- MODULE ToolBuildWalk ----------------------------
(***************************************************************************)
(* File discovery and path classification of the tool-build scanner        *)
(* (tool_build/walk.rs), and the two option sets a scan runs under          *)
(* (tool_build/mod.rs).                                                     *)
(*                                                                         *)
(* A repository is a record                                                *)
(*   [id, git, zones, files]                                               *)
(* where git says that the root has a .git on which `git ls-files`         *)
(* succeeds, zones is the set of skip globs of agent/generated-zones.toml   *)
(* (empty when the file is missing or does not parse), and files is the     *)
(* tree, in the order of the paths.  A file is a record                     *)
(*   [rel, lang, marks, listed, junk_v1, junk_v2, bytes]                   *)
(* rel is the path as a sequence of segments, marks the name patterns the   *)
(* classifier recognises in it, listed that git names it, and junk_v1 and   *)
(* junk_v2 that it lies below a directory the walker of that version skips. *)
(***************************************************************************)
EXTENDS Integers, Sequences, SequencesExt, FiniteSetsExt

\* The name patterns classify_path looks for.
HardSkips == {"lockfile", "minified", "generated_tree", "fixture"}
Marks == HardSkips \cup {"scaffold", "test"}

\* The labels of the extension table, in alphabetical order.
Languages == <<"go", "java", "javascript", "javascript_react", "json", "kotlin", "python",
               "ruby", "rust", "shell", "toml", "typescript", "typescript_react", "yaml">>

ConfigLanguages == {"toml", "yaml", "json"}

\* A language the extension table does not know is not a source file.
NoLanguage == "none"

-----------------------------------------------------------------------------
(* Options. base carries the frozen v1 knobs.                              *)

v1_compat(base) ==
    [base |-> base, merge_overlaps |-> FALSE, min_anchor_tokens |-> 0,
     min_distinct_tokens |-> 0, max_import_fraction_x100 |-> 100,
     test_fraction_threshold_x100 |-> 101, scaffold_fraction_threshold_x100 |-> 101,
     honor_generated_zones |-> FALSE, use_git_ls_files |-> FALSE,
     max_files_per_top_dir |-> 0, compat_v1 |-> TRUE]

\* system_default fixes the floors at 3 anchors, 12 distinct tokens and 4000
\* files per directory; an instance scales the three numbers.
system_options(base, anchors, distinct, top_dir) ==
    [base |-> [base EXCEPT !.min_repo_count = 2], merge_overlaps |-> TRUE,
     min_anchor_tokens |-> anchors, min_distinct_tokens |-> distinct,
     max_import_fraction_x100 |-> 50, test_fraction_threshold_x100 |-> 60,
     scaffold_fraction_threshold_x100 |-> 60, honor_generated_zones |-> TRUE,
     use_git_ls_files |-> TRUE, max_files_per_top_dir |-> top_dir,
     compat_v1 |-> FALSE]

-----------------------------------------------------------------------------
(* Zone globs: "**" stands for any number of segments and "*" for one; a     *)
(* wildcard inside a segment is left out.                                   *)

match_segment(pattern, segment) == pattern \in {"*", segment}

glob_match(pattern, path) ==
    LET n == Len(pattern)
        k == Len(path)
        m[i \in 1 .. n + 1, j \in 1 .. k + 1] ==
            IF i > n THEN j > k
            ELSE IF pattern[i] = "**"
                 THEN \E skip \in j .. k + 1 : m[i + 1, skip]
                 ELSE /\ j <= k
                      /\ match_segment(pattern[i], path[j])
                      /\ m[i + 1, j + 1]
    IN  m[1, 1]

classify_path(file, zones) ==
    IF file.marks \cap HardSkips # {} THEN "skip"
    ELSE IF \E zone \in zones : glob_match(zone, file.rel) THEN "skip"
    ELSE IF "scaffold" \in file.marks THEN "scaffold"
    ELSE IF "test" \in file.marks THEN "test"
    ELSE IF file.lang \in ConfigLanguages THEN "config"
    ELSE "source"

top_segment(file) == file.rel[1]

-----------------------------------------------------------------------------
(* Discovery. Both give the indexes of the files of a repository to read;    *)
(* they are sorted by path, which is the order of the indexes, and are a set  *)
(* here. on_disk is the set of indexes that exist now, and listable says that *)
(* its directories can be listed.                                           *)

\* The v1 walker; a directory that cannot be listed is an error, which its
\* caller is told of instead.
collect_source_files_v1(repo, on_disk) ==
    {i \in on_disk : ~repo.files[i].junk_v1 /\ repo.files[i].lang # NoLanguage}

\* The v2 discovery: what git lists when it can (the listing may name deleted
\* files), otherwise what the tolerant walker finds; a top-level directory
\* with more files than the cap is dropped whole, and its files counted.
collect_repo_files(repo, options, listable, on_disk) ==
    LET zones == IF options.honor_generated_zones THEN repo.zones ELSE {}
        by_git == options.use_git_ls_files /\ repo.git
        named(i) == IF by_git
                    THEN repo.files[i].listed
                    ELSE ~repo.files[i].junk_v2 /\ listable
        out == {i \in on_disk : /\ named(i)
                                /\ repo.files[i].lang # NoLanguage
                                /\ classify_path(repo.files[i], zones) # "skip"}
        per_top(top) == Cardinality({i \in out : top_segment(repo.files[i]) = top})
        oversized == {i \in out :
                         /\ options.max_files_per_top_dir > 0
                         /\ per_top(top_segment(repo.files[i])) > options.max_files_per_top_dir}
    IN  [files |-> out \ oversized, dropped |-> Cardinality(oversized)]

\* The class a discovered file scans under: v1 calls every file source.
ScanClass(repo, i, options) ==
    IF options.compat_v1 THEN "source"
    ELSE classify_path(repo.files[i],
                       IF options.honor_generated_zones THEN repo.zones ELSE {})
=============================================================================
