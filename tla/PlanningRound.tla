---------------------------- MODULE PlanningRound ----------------------------
(***************************************************************************)
(* One checkout, and what is asked of it while it is edited: a CI job plans   *)
(* the affected packages (jeryu-rustjet-cli plan), and an agent queries the   *)
(* code-graph oracle (jeryu-codegraph query), both for the paths that differ  *)
(* from the base commit when they start.  Each is a process of its own that   *)
(* reads the checkout file by file, so an edit may fall between two reads.    *)
(*                                                                         *)
(* Each runs once; both keep nothing between runs but the oracle's store.    *)
(* The source files of a package are indexed in one step, and so are the      *)
(* governance files read.                                                   *)
(***************************************************************************)
EXTENDS AffectedPlan, CodeGraphOracle

CONSTANTS
    InitialDisks,   \* the checkouts a round may begin with
    Revisions,      \* the edits: [path, to]
    Spellings,      \* how the changed paths are given: "plain" or "dotted"
    Options,        \* the planner options: [trust_tier, release_lane]
    MaxEdits        \* bound: edits made in a round

\* A manifest names its members without "." segments: the roots of the packages
\* go through normalize_relative.
PlainMembers(path, content) ==
    Last(path) = "Cargo.toml" /\ content # Gone =>
        parse_workspace_members(content) \in Seq(Seq(STRING \ {"."}))

ASSUME DisksAreCheckouts ==
    \A d \in InitialDisks : DOMAIN d = Paths /\ \A p \in Paths : PlainMembers(p, d[p])
ASSUME RevisionsAreOfFiles ==
    \A r \in Revisions : r.path \in Paths /\ PlainMembers(r.path, r.to)
\* A path that is a file in one checkout is a directory in none.
ASSUME FilesAreNoDirectories == \A p, q \in Paths : ~IsStrictPrefix(p, q)
ASSUME EditsAreBounded == MaxEdits \in Nat
ASSUME OptionsAreKnown == Options \subseteq [trust_tier : TrustTiers, release_lane : BOOLEAN]

VARIABLES
    base,       \* the checkout at the base commit
    disk,       \* the checkout
    edits,      \* the edits made, in order: [path, to]
    planner,    \* [pc, began, changes, options, load, todo, marks, plan]
    oracle,     \* [pc, began, changes, load, todo, index, governance, pack]
    store       \* the rows and edges the oracle persisted last

vars == <<base, disk, edits, planner, oracle, store>>

NoPlan == "no plan"
NoPack == "no pack"
NotLoaded == "not loaded"
NotStored == "not stored"

Changed == {p \in Paths : disk[p] # base[p]}
spelled(paths, spelling) ==
    IF spelling = "plain" THEN paths ELSE {<<".">> \o p : p \in paths}

-----------------------------------------------------------------------------
Init ==
    /\ base \in InitialDisks
    /\ disk = base
    /\ edits = <<>>
    /\ planner = [pc |-> "idle", began |-> 0, changes |-> {},
                  options |-> CHOOSE o \in Options : TRUE, load |-> Failed, todo |-> {},
                  marks |-> no_marks, plan |-> NoPlan]
    /\ oracle = [pc |-> "idle", began |-> 0, changes |-> {}, load |-> Failed, todo |-> {},
                 index |-> EmptyIndex, governance |-> NotLoaded, pack |-> NoPack]
    /\ store = NotStored

\* Someone writes, or deletes, a file of the checkout.
Edit ==
    \E r \in Revisions :
        /\ Len(edits) < MaxEdits
        /\ disk[r.path] # r.to
        /\ disk' = [disk EXCEPT ![r.path] = r.to]
        /\ edits' = Append(edits, r)
        /\ UNCHANGED <<base, planner, oracle, store>>

-----------------------------------------------------------------------------
(* The planner.                                                            *)

\* The state after reading manifests: the paths are classified next.
PlannerAfter(p, load) ==
    IF ~load.ok THEN [p EXCEPT !.pc = "failed", !.load = load]
    ELSE IF load.todo # <<>> THEN [p EXCEPT !.pc = "load", !.load = load]
    ELSE [p EXCEPT !.pc = "classify", !.load = load, !.todo = p.changes,
                   !.marks = IF p.changes = {} THEN marks_of_nothing(load.packages)
                             ELSE no_marks]

StartPlan ==
    \E spelling \in Spellings, options \in Options :
        /\ planner.pc = "idle"
        /\ planner' = PlannerAfter(
               [planner EXCEPT !.began = Len(edits), !.options = options,
                               !.changes = {normalize_slashes(p) :
                                                p \in spelled(Changed, spelling)}],
               StartLoad(disk))
        /\ UNCHANGED <<base, disk, edits, oracle, store>>

PlannerReadsMember ==
    /\ planner.pc = "load"
    /\ planner' = PlannerAfter(planner, ReadMember(disk, planner.load))
    /\ UNCHANGED <<base, disk, edits, oracle, store>>

\* The next changed path; its source is read now.  (Paths are taken in any order.)
Classify ==
    /\ planner.pc = "classify"
    /\ \E path \in planner.todo :
          planner' = [planner EXCEPT
              !.todo = @ \ {path},
              !.marks = add(@, classify(planner.load.packages, disk, path))]
    /\ UNCHANGED <<base, disk, edits, oracle, store>>

FinishPlan ==
    /\ planner.pc = "classify"
    /\ planner.todo = {}
    /\ planner' = [planner EXCEPT !.pc = "done",
                                  !.plan = plan_of(planner.marks, planner.options)]
    /\ UNCHANGED <<base, disk, edits, oracle, store>>

-----------------------------------------------------------------------------
(* The oracle.                                                             *)

OracleAfter(o, load) ==
    IF ~load.ok THEN [o EXCEPT !.pc = "failed", !.load = load]
    ELSE IF load.todo # <<>> THEN [o EXCEPT !.pc = "load", !.load = load]
    ELSE [o EXCEPT !.pc = "index", !.load = load, !.todo = DOMAIN load.packages]

StartQuery ==
    \E spelling \in Spellings :
        /\ oracle.pc = "idle"
        /\ oracle' = OracleAfter(
               [oracle EXCEPT !.began = Len(edits),
                              !.changes = normalize_changed_paths(spelled(Changed, spelling))],
               StartLoad(disk))
        /\ UNCHANGED <<base, disk, edits, planner, store>>

OracleReadsMember ==
    /\ oracle.pc = "load"
    /\ oracle' = OracleAfter(oracle, ReadMember(disk, oracle.load))
    /\ UNCHANGED <<base, disk, edits, planner, store>>

IndexPackage ==
    /\ oracle.pc = "index"
    /\ \E k \in oracle.todo :
          oracle' = [oracle EXCEPT
              !.todo = @ \ {k},
              !.index = index_package(@, oracle.load.packages, k, disk)]
    /\ UNCHANGED <<base, disk, edits, planner, store>>

LoadGovernance ==
    /\ oracle.pc = "index"
    /\ oracle.todo = {}
    /\ LET governance == load_governance(disk)
       IN  oracle' = [oracle EXCEPT !.pc = IF governance.ok THEN "persist" ELSE "failed",
                                    !.governance = governance]
    /\ UNCHANGED <<base, disk, edits, planner, store>>

\* The rows are stored before the pack is built from the same snapshot.
PersistAndPack ==
    /\ oracle.pc = "persist"
    /\ store' = [rows |-> attach_governance_rows(oracle.index, oracle.governance),
                 crate_deps |-> oracle.index.crate_deps]
    /\ oracle' = [oracle EXCEPT
           !.pc = "done",
           !.pack = build_pack(oracle.changes, oracle.load.packages, oracle.index,
                               oracle.governance,
                               impact_of(oracle.load.packages, oracle.changes))]
    /\ UNCHANGED <<base, disk, edits, planner>>

\* Without a stored index there is no pack.
PersistFails ==
    /\ oracle.pc = "persist"
    /\ oracle' = [oracle EXCEPT !.pc = "failed"]
    /\ UNCHANGED <<base, disk, edits, planner, store>>

Next ==
    \/ Edit
    \/ StartPlan \/ PlannerReadsMember \/ Classify \/ FinishPlan
    \/ StartQuery \/ OracleReadsMember \/ IndexPackage \/ LoadGovernance
    \/ PersistAndPack \/ PersistFails

Spec == Init /\ [][Next]_vars

-----------------------------------------------------------------------------
(* What the packages are to Cargo, read off the checkout as a whole.  Only      *)
(* dependencies under the package's own name count: the others are not read.  *)

Manifests(d) == {p \in Paths : Last(p) = "Cargo.toml" /\ d[p] # Gone
                                   /\ d[p].package # NoPackage}

RootOf(k) == planner.load.packages[k].relative_root

\* The package's manifest is the nearest above the path.
Holds(k, path) ==
    /\ IsStrictPrefix(RootOf(k), path)
    /\ \A n \in Len(RootOf(k)) + 1 .. Len(path) - 1 :
          manifest_of(SubSeq(path, 1, n)) \notin Manifests(disk)

\* What the package depends on, at the base commit or now.  Under docs/ a manifest
\* is documentation to the planner, which plans nothing for a change of it: such a
\* package counts as it is now.
Uses(k) ==
    LET file == manifest_of(RootOf(k))
        texts == {disk[file]} \cup (IF is_markdown(file) THEN {} ELSE {base[file]})
        declared(m) == m.dependencies \cup m.dev_dependencies \cup m.build_dependencies
    IN  {x.package : x \in {x \in UNION {declared(m) : m \in texts \ {Gone}} :
                               x.key = x.package}}

\* A package, what uses it, what uses those, and so on.
UsersOf(k) ==
    LET names == DOMAIN planner.load.packages
        closed(S) == \A user \in names : Uses(user) \cap S # {} => user \in S
    IN  {user \in names : \A S \in SUBSET names : k \in S /\ closed(S) => user \in S}

\* Since the n-th edit nobody touched a manifest.
ManifestsStood(n) == \A i \in n + 1 .. Len(edits) : Last(edits[i].path) # "Cargo.toml"

\* A workspace whose root is a package owns every path, "./" or not, and a path
\* given as "./x" is then taken for a file of the root package.
GivenAsOwned(paths) ==
    \/ \A p \in paths : p = clean(p)
    \/ <<"Cargo.toml">> \notin Manifests(disk)

\* A member in a directory of one letter, whose root is no longer than the "." of a
\* root package named after it: the planner takes its files for the root package's.
TiesWithRoot(k) ==
    /\ RootOf(k) # <<>> /\ root_length(RootOf(k)) = 1
    /\ \E j \in DOMAIN planner.load.packages : RootOf(j) = <<>> /\ ~NamedBefore(j, k)

\* None of the paths is a file of such a member.
HeldAsOwned(paths) ==
    \A k \in DOMAIN planner.load.packages :
        TiesWithRoot(k) => \A p \in paths : ~Holds(k, clean(p))

\* What a file held at the base commit and after each edit of it.
VersionsOf(file) ==
    {base[file]} \cup {edits[i].to : i \in {i \in 1 .. Len(edits) : edits[i].path = file}}

\* The path is a source others may use in each of its versions since the base
\* commit: it offers symbols, or it is the root of the crate.
AlwaysPublic(k, path) ==
    /\ is_rust(path)
    /\ ~is_test_path(path)
    /\ ~is_markdown(path)
    /\ \/ VersionsOf(clean(path)) \cap {Gone, {}} = {}
       \/ clean(path) = RootOf(k) \o <<"src", "lib.rs">>

-----------------------------------------------------------------------------
(* Properties.                                                             *)

\* The plan has the users of every changed source that always offers public symbols.
UsersPlanned ==
    \A path \in planner.changes, k \in DOMAIN planner.load.packages :
        Holds(k, clean(path)) /\ AlwaysPublic(k, path) =>
            UsersOf(k) \subseteq planner.plan.packages

\* AffectedPlanner::plan: if a changed source of a package offers public symbols
\* before and after, the plan has every package that uses that one, through any
\* chain of dependencies, each of them declared at the base commit or now: one
\* the same change removes does not hide a user.  (A file whose last public symbol
\* is removed plans its direct users only; and a change in a member whose directory of
\* one letter ties with the root package may plan neither the member nor its users.)
PlanReachesUsers ==
    /\ planner.pc = "done"
    /\ ManifestsStood(planner.began)
    /\ GivenAsOwned(planner.changes)
    /\ HeldAsOwned(planner.changes)
    => UsersPlanned

\* CodeGraphService::query and AffectedPlanner::plan agree on one change set.
\* The crates of a plan that was not widened to the whole workspace are affected
\* in the pack, which lists their manifests; and a path the pack calls unmapped
\* has widened the plan, unless it is documentation.
PackCoversPlan ==
    /\ planner.pc = "done"
    /\ oracle.pc = "done"
    /\ {clean(p) : p \in planner.changes} = oracle.changes
    /\ ManifestsStood(planner.began)
    /\ ManifestsStood(oracle.began)
    /\ GivenAsOwned(planner.changes)
    =>
    LET plan == planner.plan
        pack == oracle.pack
        widened == plan.fail_closed \/ "CargoLockChange" \in plan.reasons
        listed == DOMAIN pack.must_read_files \cup DOMAIN pack.should_read_files
    IN  \/ widened
        \/ /\ plan.packages \subseteq pack.affected_crates
           /\ \A k \in plan.packages :
                 manifest_of(oracle.load.packages[k].relative_root) \in listed
           /\ \A p \in pack.unmapped : is_markdown(p)

\* build_pack: whatever is edited while the index is built, a pack lists a file
\* once, lists every changed path and every file of an affected crate that
\* offers symbols, and excludes none of them; and it calls a file editable that the
\* stored rows do.
ReadingListIsWhole ==
    oracle.pc = "done" =>
        LET pack == oracle.pack
            must == DOMAIN pack.must_read_files
            should == DOMAIN pack.should_read_files
        IN  /\ must \cap should = {}
            /\ pack.excluded_files \cap (must \cup should) = {}
            /\ oracle.changes \subseteq must
            /\ {s.file : s \in pack.affected_symbols} \subseteq must \cup should
            /\ oracle.governance.loaded \subseteq must \cup should
            /\ \A p \in must : p \in DOMAIN store.rows =>
                   pack.must_read_files[p].editable = store.rows[p].editable

=============================================================================
