--------------------------- MODULE ToolBuildRoots ---------------------------
(***************************************************************************)
(* What a tool-build command scans: one repository, those a family manifest  *)
(* lists (manifest_repo_roots, bin/jeryu-codegraph.rs), or those of every    *)
(* split family below some parents (discover_system_repo_roots,             *)
(* tool_build/mod.rs), where several checkouts may be one repository.        *)
(*                                                                         *)
(* A path is a sequence of segments, <<>> if an entry gives none; a name is   *)
(* a string, "" if there is none.  A slug or a remote URL is the sequence of  *)
(* its segments, without ".git" and with the host cut off.  A manifest is     *)
(*   [dir, text, entries]        text: "good", "malformed" or "unreadable"   *)
(* and a command                                                           *)
(*   [kind, base, merge_overlaps, root, manifests, parents]                 *)
(* kind is scan, scan_family or scan_system; base carries the v1 knobs given  *)
(* on the command line and merge_overlaps its flag; manifests holds every manifest   *)
(* file that is on disk, or the one a family scan was given, sorted by path.  *)
(***************************************************************************)
EXTENDS ToolBuildWalk

CONSTANTS
    Repositories,   \* checkout -> its tree, and the repository it is a clone of
    Canonical,      \* directory -> the checkout it is or links to
    SplitNames,     \* the segments that end in "-split"
    Lowercase,      \* name -> the name in lower case
    Alphabet,       \* the segments of repository ids, in order
    SystemDefault   \* system_options, its numbers scaled to the instance

ASSUME CanonicalAssumption == \A p \in DOMAIN Canonical : Canonical[p] \in DOMAIN Repositories
ASSUME AlphabetAssumption == Alphabet \in Seq(STRING)

Clones(a, b) == Repositories[a].clone_of = Repositories[b].clone_of

\* root_commits is empty when git does not answer for a checkout.
GitAnswers(checkout) == Repositories[checkout].root_commits # {}

\* "Every clone, fork and re-owned copy of a repository shares its initial
\* commit(s)" (distinct_repositories), and nothing else does.
ASSUME GitTellsClones ==
    \A a, b \in DOMAIN Repositories : GitAnswers(a) /\ GitAnswers(b) =>
        (Clones(a, b) <=> Repositories[a].root_commits \cap Repositories[b].root_commits # {})

-----------------------------------------------------------------------------
(* One entry of a manifest.                                                *)

\* The directory of an entry: its path if that is one, else a sibling of the
\* manifest or of the manifest's directory. <<>> if there is none.
resolve_repo_root(dir, entry) ==
    LET tried == <<entry.path, Append(dir, entry.name), Append(Front(dir), entry.name)>>
        there == {i \in 1 .. 3 : tried[i] \in DOMAIN Canonical}
    IN  IF there = {} THEN <<>> ELSE Canonical[tried[Min(there)]]

\* The name of a repository with its owner stripped, as a sequence of at most one.
logical_id(entry) ==
    IF entry.slug # <<>> THEN <<Lowercase[Last(entry.slug)]>>
    ELSE IF entry.github # <<>> THEN <<Lowercase[Last(entry.github)]>>
    ELSE IF entry.name # "" THEN <<Lowercase[entry.name]>> ELSE <<>>

\* A bug of the proof: a checkout git cannot answer for counts as different.
DistinctUnlessShared(left, right) ==
    Repositories[left].root_commits \cap Repositories[right].root_commits = {}

\* Two checkouts are different when git answers for both and they share no root
\* commit.
distinct_repositories(left, right) ==
    /\ GitAnswers(left)
    /\ GitAnswers(right)
    /\ Repositories[left].root_commits \cap Repositories[right].root_commits = {}

\* The nearest directory above the manifest whose name ends in "-split".
family_label_for(dir) ==
    LET split == SelectSeq(dir, LAMBDA segment : segment \in SplitNames)
    IN  IF split = <<>> THEN "family" ELSE Last(split)

\* An id is an entry's name, else its directory's, alone or after the family's.
name_of(entry, root) == IF entry.name # "" THEN entry.name ELSE Last(root)
plain_id(entry, root) == <<name_of(entry, root)>>
qualified_id(dir, entry, root) == <<family_label_for(dir), name_of(entry, root)>>

NothingTaken == [claimed |-> {}, seen_roots |-> {}, roots |-> [id \in {} |-> <<>>]]

\* An earlier checkout of the name is not provably another repository.
AlreadyClaimed(claimed, logical, root) ==
    /\ logical # <<>>
    /\ \E claim \in claimed : claim[1] = logical /\ ~distinct_repositories(claim[2], root)

\* An entry is passed over when there is no such directory or it is claimed
\* already; it joins the claims of its name even if the directory is already in.
\* An id already taken is qualified with the family.
TakeEntry(taken, dir, entry) ==
    LET root == resolve_repo_root(dir, entry)
        logical == logical_id(entry)
        id == IF plain_id(entry, root) \in DOMAIN taken.roots
              THEN qualified_id(dir, entry, root) ELSE plain_id(entry, root)
        claimed == IF logical = <<>> THEN taken.claimed
                   ELSE taken.claimed \cup {<<logical, root>>}
    IN  IF root = <<>> \/ AlreadyClaimed(taken.claimed, logical, root) THEN taken
        ELSE IF root \in taken.seen_roots
        THEN [taken EXCEPT !.claimed = claimed]
        ELSE [claimed |-> claimed, seen_roots |-> taken.seen_roots \cup {root},
              roots |-> [i \in DOMAIN taken.roots \cup {id} |->
                            IF i = id THEN root ELSE taken.roots[i]]]

\* What the entries of all manifests leave, one after the other.
TakeEntries(listed) ==
    LET taken[n \in 0 .. Len(listed)] ==
            IF n = 0 THEN NothingTaken
            ELSE TakeEntry(taken[n - 1], listed[n].dir, listed[n].entry)
    IN  taken[Len(listed)]

-----------------------------------------------------------------------------
(* Whole commands.  A root is [id, checkout].                              *)

\* Manifests directly in a split directory below a parent, or one level deeper.
family_manifests(manifests, parents) ==
    LET family(dir) == dir # <<>> /\ Last(dir) \in SplitNames /\ Front(dir) \in parents
    IN  SelectSeq(manifests, LAMBDA m : family(m.dir) \/ (m.dir # <<>> /\ family(Front(m.dir))))

\* The entries a system scan goes through, with the directory of their manifest;
\* a manifest that does not parse is passed over.
ListedEntries(command) ==
    LET good == SelectSeq(family_manifests(command.manifests, command.parents),
                          LAMBDA m : m.text = "good")
        with_dir(m) == [i \in DOMAIN m.entries |-> [dir |-> m.dir, entry |-> m.entries[i]]]
    IN  FoldLeft(LAMBDA all, m : all \o with_dir(m), <<>>, good)

rank(segment) == CHOOSE i \in DOMAIN Alphabet : Alphabet[i] = segment

IdBefore(a, b) ==
    \/ rank(a[1]) < rank(b[1])
    \/ a[1] = b[1] /\ Len(a) < Len(b)
    \/ a[1] = b[1] /\ Len(a) = 2 /\ Len(b) = 2 /\ rank(a[2]) < rank(b[2])

InIdOrder(ids) ==
    [n \in 1 .. Cardinality(ids) |->
        CHOOSE id \in ids : Cardinality({other \in ids : IdBefore(other, id)}) = n - 1]

\* Every family's repositories, each once, sorted by id.
discover_system_repo_roots(command) ==
    LET roots == TakeEntries(ListedEntries(command)).roots
        ids == InIdOrder(DOMAIN roots)
    IN  [i \in DOMAIN ids |-> [id |-> ids[i], checkout |-> roots[ids[i]]]]

\* The directories one manifest lists, as often as it lists them.
manifest_repo_roots(manifest) ==
    LET there == SelectSeq(manifest.entries, LAMBDA e : e.path \in DOMAIN Canonical)
        id(e) == IF e.name # "" THEN <<e.name>> ELSE <<Last(e.path)>>
    IN  [i \in DOMAIN there |-> [id |-> id(there[i]), checkout |-> Canonical[there[i].path]]]

\* What a command scans. It fails, with nothing to scan, on a manifest it cannot
\* read, on a family manifest that does not parse, an entry without a path
\* included, and when no listed directory exists.
roots_of(command) ==
    LET unreadable(m) == m.text = "unreadable"
        malformed(m) == m.text = "malformed" \/ \E i \in DOMAIN m.entries : m.entries[i].path = <<>>
        given == IF command.kind = "scan_system"
                 THEN family_manifests(command.manifests, command.parents)
                 ELSE command.manifests
    IN  IF command.kind = "scan"
        THEN <<[id |-> <<command.root.id>>, checkout |-> command.root.checkout]>>
        ELSE IF \E i \in DOMAIN given : unreadable(given[i]) THEN <<>>
        ELSE IF command.kind = "scan_system" THEN discover_system_repo_roots(command)
        ELSE IF malformed(given[1]) THEN <<>>
        ELSE manifest_repo_roots(given[1])

\* The options a command runs under.
options_of(command) ==
    IF command.kind = "scan_system"
    THEN [SystemDefault EXCEPT !.base = command.base,
                               !.merge_overlaps = command.merge_overlaps]
    ELSE v1_compat(command.base)

-----------------------------------------------------------------------------
(* What a system scan promises of its roots: terms for the properties.      *)

Listing(command, checkout) ==
    {l \in Range(ListedEntries(command)) : resolve_repo_root(l.dir, l.entry) = checkout}

ListedCheckouts(command) ==
    {resolve_repo_root(l.dir, l.entry) : l \in Range(ListedEntries(command))} \ {<<>>}

NamesOf(command, checkout) == {logical_id(l.entry) : l \in Listing(command, checkout)}

\* The ids a checkout may get in its family's name.
QualifiedIdsOf(command, checkout) ==
    {qualified_id(l.dir, l.entry, checkout) : l \in Listing(command, checkout)}
=============================================================================
