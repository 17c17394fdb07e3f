--------------------------- MODULE CodeGraphOracle ---------------------------
(***************************************************************************)
(* The code-graph oracle: the index of a workspace and the impact of changed *)
(* paths (graph.rs), the governance files (oracle/governance.rs), and the     *)
(* impact pack an agent reads before it changes code (oracle.rs).            *)
(*                                                                         *)
(* A governance rule is [path, form, len, value]: its directory or file, how *)
(* it is written ("glob" for dir/**, "dir" for dir/, "exact" otherwise), the *)
(* length of the pattern as written, and what it says.                       *)
(***************************************************************************)
EXTENDS Workspace, FiniteSetsExt

CONSTANTS
    Broken,         \* a governance file that does not parse
    NoRule,         \* no rule matches the path
    LexicalMatches, \* the paths that contain a token of the intent or question
    MaxExcluded     \* lexical_exclusions stops after this many files

ASSUME AtLeastOneExcluded == MaxExcluded \in Nat \ {0}

AgentsFile == <<"AGENTS.md">>
OwnerMap == <<"agent", "owner-map.json">>
TestMap == <<"agent", "test-map.json">>
GeneratedZones == <<"agent", "generated-zones.toml">>
ProofLanes == <<"agent", "proof-lanes.toml">>

GOVERNANCE_FILES == {AgentsFile, OwnerMap, TestMap, GeneratedZones, ProofLanes}

\* The position of a path in the order of the strings.
place(path) == CHOOSE i \in DOMAIN PathOrder : PathOrder[i] = path

\* Changed paths lose every leading "./"; one inside stays where it is.
trim_dots(path) ==
    LET dots == {n \in 0 .. Len(path) : \A i \in 1 .. n : path[i] = "."}
    IN  SubSeq(path, 1 + Max(dots), Len(path))
normalize_changed_paths(paths) == {trim_dots(p) : p \in paths} \ {<<>>}

-----------------------------------------------------------------------------
(* The index: a row for every manifest and source file with the crate it      *)
(* belongs to, the public symbols, and the dependency edges.                 *)

EmptyIndex == [files |-> <<>>, symbols |-> {}, crate_deps |-> {}]

collect_rust_sources(disk, dir) ==
    {p \in Paths : is_rust(p) /\ exists(disk, p) /\ IsStrictPrefix(dir \o <<"src">>, p)}

\* A file that already has a row keeps it.
index_package(index, packages, k, disk) ==
    LET package == packages[k]
        sources == collect_rust_sources(disk, package.relative_root)
        rows == [p \in {manifest_of(package.relative_root)} \cup sources |-> k]
    IN  [files |-> index.files @@ rows,
         symbols |-> index.symbols \cup
             UNION {{[crate |-> k, file |-> p, symbol |-> s] : s \in disk[p]} :
                       p \in sources},
         crate_deps |-> index.crate_deps \cup
             {<<k, dep>> : dep \in all_declared_dependencies(package)}]

\* Mutant: only the crates that depend on a changed crate directly are affected.
DirectImpact(packages, paths) ==
    LET changed == {package_for_path(packages, p) : p \in paths} \ {NoPackage}
    IN  [changed |-> changed,
         affected |-> changed
             \cup UNION {direct_reverse_dependencies_of(packages, k) : k \in changed}]

impact_of(packages, paths) ==
    LET changed == {package_for_path(packages, p) : p \in paths} \ {NoPackage}
    IN  [changed |-> changed,
         affected |-> changed
             \cup UNION {transitive_reverse_dependencies_of(packages, k) : k \in changed}]

-----------------------------------------------------------------------------
(* Governance.                                                             *)

rule_matches(rule, path) ==
    IF rule.form \in {"glob", "dir"} THEN IsStrictPrefix(rule.path, path)
    ELSE IsPrefix(rule.path, path)

\* The longest pattern as written decides, its stars counted.  (Patterns of one
\* length that match one path are left out.)
rule_for(rules, path) ==
    LET matching == {r \in rules : rule_matches(r, path)}
    IN  IF matching = {} THEN NoRule
        ELSE CHOOSE r \in matching : \A other \in matching : other.len <= r.len

owner_for_path(governance, path) ==
    LET rule == rule_for(governance.owners, path)
    IN  IF rule = NoRule THEN NoRule ELSE rule.value

test_for_path(governance, path) == rule_for(governance.tests, path)

lanes_for_path(governance, path) ==
    LET rule == test_for_path(governance, path)
    IN  IF rule = NoRule THEN {} ELSE {rule.value.lane}

\* A generated zone's value says whether it may be edited by hand.
editable(governance, path) ==
    LET zone == rule_for(governance.zones, path)
    IN  zone = NoRule \/ zone.value

\* Missing files leave their part empty; one that does not parse fails the load.
load_governance(disk) ==
    LET loaded == {p \in GOVERNANCE_FILES : exists(disk, p)}
        part(path, none) == IF path \in loaded THEN disk[path] ELSE none
    IN  [ok |-> \A p \in loaded : disk[p] # Broken,
         owners |-> part(OwnerMap, {}),
         tests |-> part(TestMap, {}),
         zones |-> part(GeneratedZones, {}),
         proof_lanes |-> part(ProofLanes, <<>>),
         loaded |-> loaded,
         repo_files |-> {p \in Paths : exists(disk, p)}]

\* The rows that are persisted: every indexed file with the governance of its
\* path, and the governance files themselves.
attach_governance_rows(index, governance) ==
    [p \in DOMAIN index.files \cup governance.loaded |->
        [crate_name |-> IF p \in DOMAIN index.files THEN index.files[p] ELSE NoPackage,
         owner |-> owner_for_path(governance, p),
         proof_lanes |-> lanes_for_path(governance, p),
         editable |-> editable(governance, p)]]

-----------------------------------------------------------------------------
(* The pack.                                                               *)

\* A reason to read a file, and how much it matters: the lower the more.
because(path, rank, reason) == [path |-> path, rank |-> rank, reason |-> reason]

\* The entry of a path: its strongest rank, all its reasons, and the row's
\* governance where the file has a row.
context(inclusions, rows, governance) ==
    [p \in {i.path : i \in inclusions} |->
        LET own == {i \in inclusions : i.path = p}
        IN  [rank |-> Min({i.rank : i \in own}),
             reasons |-> {i.reason : i \in own},
             owner |-> IF p \in DOMAIN rows THEN rows[p].owner
                       ELSE owner_for_path(governance, p),
             proof_lanes |-> (IF p \in DOMAIN rows THEN rows[p].proof_lanes ELSE {})
                                 \cup lanes_for_path(governance, p),
             editable |-> IF p \in DOMAIN rows THEN rows[p].editable
                          ELSE editable(governance, p)]]

must_read(paths, packages, index, impact) ==
    {because(p, 0, "input_changed_path") : p \in paths}
        \cup {because(manifest_of(packages[k].relative_root), 20, "changed_crate_manifest") :
                 k \in impact.changed}
        \cup {because(s.file, 30, "changed_crate_public_symbol_file") :
                 s \in {s \in index.symbols : s.crate \in impact.changed}}

\* Mutant: the files a crate lists twice are read twice.
ReadTwice(packages, index, governance, impact, must) ==
    {because(s.file, 120, "affected_crate_public_symbol_file") :
        s \in {s \in index.symbols : s.crate \in impact.affected \ impact.changed}}
        \cup {because(manifest_of(packages[k].relative_root), 110, "affected_crate_manifest") :
                 k \in impact.affected \ impact.changed}
        \cup {because(p, 200, "governance_metadata") : p \in governance.loaded}

\* Files that must be read are not listed again.
should_read(packages, index, governance, impact, must) ==
    {i \in {because(s.file, 120, "affected_crate_public_symbol_file") :
               s \in {s \in index.symbols : s.crate \in impact.affected \ impact.changed}}
           \cup {because(manifest_of(packages[k].relative_root), 110,
                         "affected_crate_manifest") :
                    k \in impact.affected \ impact.changed}
           \cup {because(p, 200, "governance_metadata") : p \in governance.loaded} :
        i.path \notin must}

\* The first changed path of a lane settles the commands the lane requires.
selected_proof_lanes(paths, governance) ==
    LET ruled == {p \in paths : test_for_path(governance, p) # NoRule}
        lane(p) == test_for_path(governance, p).value.lane
        first(l) == CHOOSE p \in ruled : lane(p) = l /\ \A q \in ruled :
                        lane(q) = l => place(p) <= place(q)
        known(l) == l \in DOMAIN governance.proof_lanes
    IN  [l \in {lane(p) : p \in ruled} |->
            [required_commands |->
                IF known(l) /\ governance.proof_lanes[l].required # {}
                THEN governance.proof_lanes[l].required
                ELSE {test_for_path(governance, first(l)).value.command},
             blocks_merge |-> known(l) /\ governance.proof_lanes[l].blocks_merge]]

\* The test command of every changed path, those of the selected lanes, and
\* `cargo test` for every changed crate.
suggested_commands(paths, governance, lanes, impact) ==
    {test_for_path(governance, p).value.command :
        p \in {p \in paths : test_for_path(governance, p) # NoRule}}
        \cup UNION {lanes[l].required_commands : l \in DOMAIN lanes}
        \cup {<<"cargo test", k>> : k \in impact.changed}

\* The first files of the repository that only a word of the question matches.
lexical_exclusions(included, governance) ==
    LET found == (governance.repo_files \cap LexicalMatches) \ included
    IN  {p \in found : Cardinality({q \in found : place(q) < place(p)}) < MaxExcluded}

build_pack(paths, packages, index, governance, impact) ==
    LET rows == attach_governance_rows(index, governance)
        must == context(must_read(paths, packages, index, impact), rows, governance)
        should == context(should_read(packages, index, governance, impact, DOMAIN must),
                          rows, governance)
        lanes == selected_proof_lanes(paths, governance)
    IN  [changed_crates |-> impact.changed,
         affected_crates |-> impact.affected,
         affected_symbols |-> {s \in index.symbols : s.crate \in impact.affected},
         must_read_files |-> must,
         should_read_files |-> should,
         proof_lanes |-> lanes,
         suggested_commands |-> suggested_commands(paths, governance, lanes, impact),
         excluded_files |-> lexical_exclusions(DOMAIN must \cup DOMAIN should, governance),
         unmapped |-> {p \in paths : package_for_path(packages, p) = NoPackage}]

=============================================================================
