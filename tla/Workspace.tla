------------------------------ MODULE Workspace ------------------------------
(***************************************************************************)
(* The Cargo workspace as jeryu-rustjet sees it: the manifests it reads      *)
(* (manifest.rs), the dependency graph it builds from them (graph.rs) and    *)
(* the public symbols it finds in a source file (public_api.rs).             *)
(*                                                                         *)
(* A path is a sequence of segments.  A disk maps every path of PathOrder to *)
(* what the file holds, or to Gone.  A manifest holds                        *)
(*   [members, package, proc_macro, dependencies, dev_dependencies,          *)
(*    build_dependencies]                                                   *)
(* and a Rust source the set of its public symbols.  A declared dependency   *)
(* is [key, package]: the package it stands for, and the key of the line     *)
(* that declares it, which is all the line reader sees.  The two differ for  *)
(* a renamed dependency and for one in dotted form; a table of its own or a  *)
(* target section has no such line, and its key is NoPackage.                *)
(***************************************************************************)
EXTENDS Integers, Sequences, SequencesExt, FiniteSets, TLC

CONSTANTS
    PathOrder,      \* every path of the instance, in the order of the strings
    RustNames,      \* the file names that end in .rs
    SurfaceNames,   \* the segments that begin with api, public or protocol
    OneLetterNames, \* the segments of one letter
    NameOrder,      \* every package name, in the order of the strings
    NoMembers,      \* a manifest without a members array
    NoPackage,      \* a manifest without a package; a path without an owner
    Gone            \* the file does not exist

\* No segment of a path is ".": git lists none.
ASSUME PathsAreNames == PathOrder \in Seq(Seq(STRING \ {"."}))
\* (True of any string; the provers have no such rule.)
ASSUME NamesAreStrings == {"Cargo.toml", ".", "src", "lib.rs"} \subseteq STRING
ASSUME PathsAreListedOnce == IsInjective(PathOrder)
ASSUME NamesAreListedOnce == NameOrder \in Seq(STRING) /\ IsInjective(NameOrder)

Paths == ToSet(PathOrder)

\* What the operating system finds at a path: "." is no directory of its own.
clean(path) ==
    LET kept[n \in 0 .. Len(path)] ==
            IF n = 0 THEN <<>>
            ELSE IF path[n] = "." THEN kept[n - 1]
            ELSE Append(kept[n - 1], path[n])
    IN  kept[Len(path)]
exists(disk, path) == clean(path) \in Paths /\ disk[clean(path)] # Gone

-----------------------------------------------------------------------------
(* Paths as rustjet normalises them: components() drops every "." but a       *)
(* leading one.                                                             *)

normalize_slashes(path) ==
    IF path = <<>> THEN <<>>
    ELSE <<Head(path)>> \o clean(Tail(path))

manifest_of(dir) == dir \o <<"Cargo.toml">>
is_rust(path) == path # <<>> /\ Last(path) \in RustNames

-----------------------------------------------------------------------------
(* Manifests.                                                              *)

\* A manifest with [package] and no members array is a one-member workspace.
parse_workspace_members(manifest) ==
    IF manifest.members # NoMembers THEN manifest.members
    ELSE IF manifest.package # NoPackage THEN << <<>> >>
    ELSE <<>>

dependency_names(section) == {d.key : d \in section} \ {NoPackage}

parse_package_manifest(manifest, dir) ==
    [relative_root |-> dir,
     is_proc_macro |-> manifest.proc_macro,
     dependencies |-> dependency_names(manifest.dependencies),
     dev_dependencies |-> dependency_names(manifest.dev_dependencies),
     build_dependencies |-> dependency_names(manifest.build_dependencies)]

\* Only dependencies on packages of the workspace are kept.
retain_members(packages) ==
    LET names == DOMAIN packages
    IN  [k \in names |->
            [packages[k] EXCEPT !.dependencies = @ \cap names,
                                !.dev_dependencies = @ \cap names,
                                !.build_dependencies = @ \cap names]]

\* A load in progress: the member directories still to read, and the packages
\* read so far.  A load that meets an error stays Failed.
Failed == [todo |-> <<>>, packages |-> <<>>, ok |-> FALSE]

\* The root manifest is missing, names no member, or names them.
StartLoad(disk) ==
    IF ~exists(disk, <<"Cargo.toml">>) THEN Failed
    ELSE LET members == parse_workspace_members(disk[<<"Cargo.toml">>])
         IN  IF members = <<>> THEN Failed
             ELSE [todo |-> members, packages |-> <<>>, ok |-> TRUE]

\* The next member's manifest.  A second package of the same name replaces the
\* first; after the last member the dependencies are cut to the workspace.
ReadMember(disk, load) ==
    LET dir == Head(load.todo)
        rest == Tail(load.todo)
    IN  IF \/ ~exists(disk, manifest_of(dir))
           \/ disk[manifest_of(dir)].package = NoPackage
        THEN Failed
        ELSE LET manifest == disk[manifest_of(dir)]
                 packages == [k \in DOMAIN load.packages \cup {manifest.package} |->
                                 IF k = manifest.package THEN parse_package_manifest(manifest, dir)
                                 ELSE load.packages[k]]
             IN  [load EXCEPT !.todo = rest,
                              !.packages = IF rest = <<>> THEN retain_members(packages)
                                           ELSE packages]

-----------------------------------------------------------------------------
(* The owner of a path.                                                    *)

\* "starts with the root and a slash", or the root itself.
contains_relative_path(package, path) == IsPrefix(package.relative_root, path)

\* How the roots that contain a path compare in length: as strings, each longer than
\* those above it, but "." for the root is as long as a directory of one letter.
root_length(dir) ==
    IF dir = <<>> \/ (Len(dir) = 1 /\ dir[1] \in OneLetterNames) THEN 1 ELSE Len(dir) + 1

\* The packages are kept in the order of their names.
NamedBefore(j, k) ==
    \E m, n \in DOMAIN NameOrder : m < n /\ NameOrder[m] = j /\ NameOrder[n] = k

\* The longest root wins, of two as long the package named last.
package_for_path(packages, path) ==
    LET owners == {k \in DOMAIN packages : contains_relative_path(packages[k], path)}
        length(k) == root_length(packages[k].relative_root)
    IN  IF owners = {} THEN NoPackage
        ELSE CHOOSE k \in owners : \A other \in owners \ {k} :
                \/ length(other) < length(k)
                \/ length(other) = length(k) /\ NamedBefore(other, k)

path_inside_package(package, path) ==
    IF path = package.relative_root THEN path
    ELSE SubSeq(path, Len(package.relative_root) + 1, Len(path))

-----------------------------------------------------------------------------
(* The graph.                                                              *)

all_declared_dependencies(package) ==
    package.dependencies \cup package.dev_dependencies \cup package.build_dependencies

direct_reverse_dependencies_of(packages, name) ==
    {k \in DOMAIN packages : name \in all_declared_dependencies(packages[k])}

\* Mutant: the walk stops after one level.
OneLevel(packages, name) == direct_reverse_dependencies_of(packages, name)

\* The breadth-first walk by levels: a package seen is not followed again, and
\* one that depends on itself through a dev-dependency is among the results.
transitive_reverse_dependencies_of(packages, name) ==
    LET next(seen) == UNION {direct_reverse_dependencies_of(packages, k) : k \in seen}
        seen[n \in 0 .. Cardinality(DOMAIN packages)] ==
            IF n = 0 THEN direct_reverse_dependencies_of(packages, name)
            ELSE seen[n - 1] \cup next(seen[n - 1])
    IN  seen[Cardinality(DOMAIN packages)]

-----------------------------------------------------------------------------
(* Public symbols.                                                         *)

is_public_surface_path(inside) ==
    \/ inside \in {<<"src", "lib.rs">>, <<"src", "main.rs">>}
    \/ Len(inside) > 1 /\ inside[1] = "src" /\ inside[2] \in SurfaceNames

\* A file that cannot be read has no symbols.
public_symbols(disk, path) == IF exists(disk, path) THEN disk[clean(path)] ELSE {}

detect(disk, package, inside) ==
    /\ is_rust(inside)
    /\ \/ is_public_surface_path(inside)
       \/ public_symbols(disk, package.relative_root \o inside) # {}

=============================================================================
