---------------------------- MODULE ToolBuildScan ----------------------------
(***************************************************************************)
(* scan_roots (tool_build/scan.rs): workers claim repositories from a        *)
(* shared counter and turn each into a shard; when all have stopped, the      *)
(* coordinator folds the shards in repository order into one index, merges    *)
(* the surviving windows, reads their text back from disk and ranks them.     *)
(* The trees stay readable by others meanwhile: a file may change or vanish   *)
(* between any two steps, at most MaxEdits times.                            *)
(*                                                                         *)
(* The progress counters and callbacks are left out: nothing in the scan      *)
(* reads them back.                                                         *)
(***************************************************************************)
EXTENDS ToolBuildClusters, ToolBuildRoots

CONSTANTS
    Commands,       \* the commands that may be given
    Unlistable,     \* the sets of checkouts that may not be listable
    InitialDisks,   \* contents of the files at the start
    Revisions,      \* contents an edit may leave
    Gone, Binary,   \* a file that does not exist, one that is not UTF-8
    NotRead,        \* a file that was not scanned
    Threads,        \* options.threads, or the parallelism of the machine
    MaxEdits

ASSUME RootsAssumption ==
    \A c \in Commands : /\ Len(roots_of(c)) \in Nat
                        /\ DOMAIN roots_of(c) = 1 .. Len(roots_of(c))
                        /\ \A r \in DOMAIN roots_of(c) :
                              roots_of(c)[r].checkout \in DOMAIN Repositories
                        /\ options_of(c).base.window_lines \in Nat

\* The Alphabet spells every id an entry may get.
ASSUME EntriesAssumption ==
    \A c \in Commands :
        LET listed == ListedEntries(c)
            root(i) == resolve_repo_root(listed[i].dir, listed[i].entry)
        IN  /\ Len(listed) \in Nat
            /\ DOMAIN listed = 1 .. Len(listed)
            /\ \A i \in DOMAIN listed : root(i) # <<>> =>
                  LET id == qualified_id(listed[i].dir, listed[i].entry, root(i))
                  IN  \A n \in {1, 2} : \E m \in DOMAIN Alphabet : Alphabet[m] = id[n]

\* Every file of every tree stands on every disk; its contents are lines.
Texts == (Revisions \cup UNION {{d[f] : f \in DOMAIN d} : d \in InitialDisks}) \ {Gone, Binary}

ASSUME TreesAssumption ==
    \A t \in DOMAIN Repositories : /\ Len(Repositories[t].files) \in Nat
                                   /\ DOMAIN Repositories[t].files =
                                         1 .. Len(Repositories[t].files)
ASSUME DisksAssumption ==
    \A d \in InitialDisks :
        DOMAIN d = UNION {{<<t, n>> : n \in DOMAIN Repositories[t].files} :
                             t \in DOMAIN Repositories}
ASSUME TextsAssumption ==
    /\ NotRead \notin Texts
    /\ \A c \in Texts : Len(c) \in Nat /\ DOMAIN c = 1 .. Len(c)
ASSUME ThreadsAssumption == Threads \in Nat \ {0} /\ MaxEdits \in Nat

VARIABLES
    command,
    options,        \* the options it runs under
    roots,          \* the repositories to scan, in order
    unlistable,     \* checkouts whose directories cannot be listed
    disk,           \* <<checkout, n>> -> contents of its n-th file, Gone or Binary
    edits,
    next_repo,      \* the shared counter
    pc,             \* worker -> the step it is at
    shard,          \* worker -> the shard it is filling
    todo,           \* worker -> the files of its repository still to scan
    shards,         \* pushed by the workers
    phase,          \* of the coordinator: scan, reconstruct, done, failed
    folded,         \* the folded index: its file table and its clusters
    recon,          \* cluster -> the text read back for it
    report,
    seen            \* history: <<repository, n>> -> the contents scanned

workers == <<next_repo, pc, shard, todo, shards>>
inputs == <<command, options, roots, unlistable>>
vars == <<inputs, disk, edits, workers, phase, folded, recon, report, seen>>

Repos == 1 .. Len(roots)
RepoTotal == Len(roots)
Tree(r) == Repositories[roots[r].checkout]

FileIds == UNION {{<<r, n>> : n \in DOMAIN Tree(r).files} : r \in Repos}
FileOf(f) == Tree(f[1]).files[f[2]]
OnDiskAs(f) == <<roots[f[1]].checkout, f[2]>>

\* No more workers than repositories, and at least one.
WorkerCount == IF RepoTotal = 0 THEN 1
               ELSE IF Threads < RepoTotal THEN Threads ELSE RepoTotal
Workers == 1 .. WorkerCount

OnDisk(r) == {n \in DOMAIN Tree(r).files : disk[OnDiskAs(<<r, n>>)] # Gone}

WindowLines == Max({options.base.window_lines, 2})

NewShard(r) == [repo_idx |-> r, files |-> <<>>, index |-> EmptyIndex,
                skipped |-> 0, failed |-> FALSE]

FileEntry(f) == [repo_id |-> roots[f[1]].id, rel |-> FileOf(f).rel, lang |-> FileOf(f).lang,
                 class |-> ScanClass(Tree(f[1]), f[2], options), id |-> f]

NoReport == [clusters |-> {}, families |-> {}, scanned |-> 0, skipped |-> 0]

\* A command that finds nothing to scan fails at once.
Init ==
    /\ command \in Commands
    /\ options = options_of(command)
    /\ roots = roots_of(command)
    /\ unlistable \in Unlistable
    /\ disk \in InitialDisks
    /\ edits = 0
    /\ next_repo = 1
    /\ pc = [w \in Workers |-> IF roots = <<>> THEN "exit" ELSE "claim"]
    /\ shard = [w \in Workers |-> NewShard(0)]
    /\ todo = [w \in Workers |-> {}]
    /\ shards = <<>>
    /\ phase = IF roots = <<>> THEN "failed" ELSE "scan"
    /\ folded = [files |-> <<>>, index |-> EmptyIndex, protos |-> {}]
    /\ recon = [p \in {} |-> <<>>]
    /\ report = NoReport
    /\ seen = [f \in FileIds |-> NotRead]

-----------------------------------------------------------------------------
(* The workers.                                                            *)

coordinator == <<phase, folded, recon, report>>

\* A bug of the claim: the last repository is left to nobody.
ClaimAllButLast(w) ==
    /\ pc[w] = "claim"
    /\ next_repo' = next_repo + 1
    /\ IF next_repo >= RepoTotal
       THEN /\ pc' = [pc EXCEPT ![w] = "exit"]
            /\ UNCHANGED shard
       ELSE /\ pc' = [pc EXCEPT ![w] = "discover"]
            /\ shard' = [shard EXCEPT ![w] = NewShard(next_repo)]
    /\ UNCHANGED <<inputs, disk, edits, todo, shards, coordinator, seen>>

\* The next repository off the shared counter, or the end of the worker.
Claim(w) ==
    /\ pc[w] = "claim"
    /\ next_repo' = next_repo + 1
    /\ IF next_repo > RepoTotal
       THEN /\ pc' = [pc EXCEPT ![w] = "exit"]
            /\ UNCHANGED shard
       ELSE /\ pc' = [pc EXCEPT ![w] = "discover"]
            /\ shard' = [shard EXCEPT ![w] = NewShard(next_repo)]
    /\ UNCHANGED <<inputs, disk, edits, todo, shards, coordinator, seen>>

\* Listing the tree. A v1 scan stops at a directory it cannot list.
Discover(w) ==
    LET r == shard[w].repo_idx
        listable == roots[r].checkout \notin unlistable
        found == collect_repo_files(Tree(r), options, listable, OnDisk(r))
    IN  /\ pc[w] = "discover"
        /\ IF options.compat_v1 /\ ~listable
           THEN /\ shard' = [shard EXCEPT ![w].failed = TRUE]
                /\ pc' = [pc EXCEPT ![w] = "push"]
                /\ UNCHANGED todo
           ELSE /\ todo' = [todo EXCEPT ![w] =
                        IF options.compat_v1 THEN collect_source_files_v1(Tree(r), OnDisk(r))
                        ELSE found.files]
                /\ shard' = [shard EXCEPT ![w].skipped =
                        IF options.compat_v1 THEN 0 ELSE found.dropped]
                /\ pc' = [pc EXCEPT ![w] = "stat"]
        /\ UNCHANGED <<inputs, disk, edits, next_repo, shards, coordinator, seen>>

CurrentFile(w) == <<shard[w].repo_idx, Min(todo[w])>>

SkipFile(w) ==
    /\ shard' = [shard EXCEPT ![w].skipped = @ + 1]
    /\ todo' = [todo EXCEPT ![w] = @ \ {Min(@)}]
    /\ pc' = [pc EXCEPT ![w] = "stat"]

\* The metadata of the next file: a v1 scan stops when it has vanished.
Stat(w) ==
    LET f == CurrentFile(w)
        contents == disk[OnDiskAs(f)]
    IN  /\ pc[w] = "stat"
        /\ todo[w] # {}
        /\ \/ /\ contents = Gone /\ options.compat_v1
              /\ shard' = [shard EXCEPT ![w].failed = TRUE]
              /\ pc' = [pc EXCEPT ![w] = "push"]
              /\ UNCHANGED todo
           \/ /\ \/ contents = Gone /\ ~options.compat_v1
                 \/ contents # Gone /\ FileOf(f).bytes > options.base.max_file_bytes
              /\ SkipFile(w)
           \/ /\ contents # Gone
              /\ FileOf(f).bytes <= options.base.max_file_bytes
              /\ pc' = [pc EXCEPT ![w] = "read"]
              /\ UNCHANGED <<shard, todo>>
        /\ UNCHANGED <<inputs, disk, edits, next_repo, shards, coordinator, seen>>

\* Its contents: skipped if unreadable by now, else its windows are recorded.
Read(w) ==
    LET f == CurrentFile(w)
        contents == disk[OnDiskAs(f)]
        entry == FileEntry(f)
        read_into(index) == scan_windows(index, normalized_lines(contents), f[1],
                                         Len(shard[w].files) + 1, entry.lang, WindowLines, options)
    IN  /\ pc[w] = "read"
        /\ IF contents \in {Gone, Binary}
           THEN SkipFile(w) /\ UNCHANGED seen
           ELSE /\ shard' = [shard EXCEPT ![w].files = Append(@, entry),
                                          ![w].index = read_into(@)]
                /\ seen' = [seen EXCEPT ![f] = contents]
                /\ todo' = [todo EXCEPT ![w] = @ \ {Min(@)}]
                /\ pc' = [pc EXCEPT ![w] = "stat"]
        /\ UNCHANGED <<inputs, disk, edits, next_repo, shards, coordinator>>

\* Under the lock; then back to the counter.
Push(w) ==
    /\ pc[w] = "push" \/ (pc[w] = "stat" /\ todo[w] = {})
    /\ shards' = Append(shards, shard[w])
    /\ pc' = [pc EXCEPT ![w] = "claim"]
    /\ todo' = [todo EXCEPT ![w] = {}]
    /\ UNCHANGED <<inputs, disk, edits, next_repo, shard, coordinator, seen>>

-----------------------------------------------------------------------------
(* The coordinator.                                                        *)

Joined == \A w \in Workers : pc[w] = "exit"

\* A bug of the join: the shards stay in the order they were pushed in.
InPushOrder == shards

InRepoOrder ==
    LET sorts_to(i) == Cardinality({j \in DOMAIN shards :
                           \/ shards[j].repo_idx < shards[i].repo_idx
                           \/ shards[j].repo_idx = shards[i].repo_idx /\ j <= i})
    IN  [n \in DOMAIN shards |-> shards[CHOOSE i \in DOMAIN shards : sorts_to(i) = n]]

\* Shards in repository order, file indexes rebased onto the common table.
FoldShards(ordered) ==
    LET add(all, s) == [files |-> all.files \o s.files,
                        index |-> extend_from(all.index, s.index, Len(all.files))]
        added[n \in 0 .. Len(ordered)] ==
            IF n = 0 THEN [files |-> <<>>, index |-> EmptyIndex]
            ELSE add(added[n - 1], ordered[n])
    IN  added[Len(ordered)]

\* The first error in repository order ends a scan.
Fail ==
    /\ phase = "scan" /\ Joined
    /\ \E i \in DOMAIN shards : shards[i].failed
    /\ phase' = "failed"
    /\ UNCHANGED <<inputs, disk, edits, workers, folded, recon, report, seen>>

Fold ==
    LET all == FoldShards(InRepoOrder)
    IN  /\ phase = "scan" /\ Joined
        /\ \A i \in DOMAIN shards : ~shards[i].failed
        /\ folded' = [files |-> all.files, index |-> all.index,
                      protos |-> ProtoClusters(all.index, WindowLines, options)]
        /\ phase' = "reconstruct"
        /\ UNCHANGED <<inputs, disk, edits, workers, recon, report, seen>>

HeadFile(p) == p.occs[1].file_idx
Vanished == <<>>

\* A bug of the verification: the text at the position is taken as it is.
ReconstructedUnverified(p, contents) ==
    LET normalized == normalized_lines(contents)
        start == p.occs[1].norm_start
    IN  IF /\ contents \notin {Gone, Binary}
           /\ start + p.norm_len - 1 <= Len(normalized)
        THEN SubSeq(normalized, start, start + p.norm_len - 1)
        ELSE Vanished

\* What the head file says now where the cluster was: nothing unless it is
\* long enough and its first window is still the one that was indexed.
Reconstructed(p, contents) ==
    LET normalized == normalized_lines(contents)
        start == p.occs[1].norm_start
        now(n) == SubSeq(normalized, start, start + n - 1)
    IN  IF /\ contents \notin {Gone, Binary}
           /\ start + p.norm_len - 1 <= Len(normalized)
           /\ window_key(now(WindowLines)) = p.key
        THEN now(p.norm_len)
        ELSE Vanished

\* Every head file is read once, in the order of the file table.
ReconstructFile ==
    LET left == folded.protos \ DOMAIN recon
        next == Min({HeadFile(p) : p \in left})
        contents == disk[OnDiskAs(folded.files[next].id)]
        here == {p \in left : HeadFile(p) = next}
    IN  /\ phase = "reconstruct" /\ left # {}
        /\ recon' = [p \in DOMAIN recon \cup here |->
                        IF p \in here THEN Reconstructed(p, contents) ELSE recon[p]]
        /\ UNCHANGED <<inputs, disk, edits, workers, phase, folded, report, seen>>

ScannedTotal == FoldLeft(LAMBDA n, s : n + Len(s.files), 0, shards)
SkippedTotal == FoldLeft(LAMBDA n, s : n + s.skipped, 0, shards)

Finalize ==
    LET kept == {p \in folded.protos : recon[p] # Vanished}
        clusters == {build_cluster(p, recon[p], folded.files, options, WindowLines) : p \in kept}
    IN  /\ phase = "reconstruct" /\ folded.protos = DOMAIN recon
        /\ \E top \in Truncations(clusters, options) :
              report' = [clusters |-> top,
                         families |-> IF options.compat_v1 THEN {}
                                      ELSE group_pattern_families(SetToSeq(top)),
                         scanned |-> ScannedTotal,
                         skipped |-> SkippedTotal]
        /\ phase' = "done"
        /\ UNCHANGED <<inputs, disk, edits, workers, folded, recon, seen>>

-----------------------------------------------------------------------------
(* Someone else writes to the trees.                                       *)

Edit(f, contents) ==
    /\ edits < MaxEdits
    /\ phase \in {"scan", "reconstruct"}
    /\ disk[OnDiskAs(f)] # contents
    /\ disk' = [disk EXCEPT ![OnDiskAs(f)] = contents]
    /\ edits' = edits + 1
    /\ UNCHANGED <<inputs, workers, coordinator, seen>>

WorkerStep(w) == Claim(w) \/ Discover(w) \/ Stat(w) \/ Read(w) \/ Push(w)
CoordinatorStep == Fail \/ Fold \/ ReconstructFile \/ Finalize

\* The report is returned.
Finished == phase \in {"done", "failed"} /\ UNCHANGED vars

Next ==
    \/ \E w \in Workers : WorkerStep(w)
    \/ CoordinatorStep
    \/ \E f \in FileIds, c \in Revisions \cup {Gone} : Edit(f, c)
    \/ Finished

Spec == Init /\ [][Next]_vars

-----------------------------------------------------------------------------
(* Properties.                                                             *)

Holding(w) == pc[w] \in {"discover", "stat", "read", "push"}

\* When the workers have stopped and the coordinator goes on, every repository
\* has exactly one shard: the counter hands out each one once and no claimed
\* repository is lost on the way to the shared vector.
OneShardPerRepo ==
    phase # "scan" =>
        \A r \in Repos : \E i \in DOMAIN shards :
            /\ shards[i].repo_idx = r
            /\ \A j \in DOMAIN shards : shards[j].repo_idx = r => j = i

\* What is there to record from the files of a table, by file and position: the
\* windows of what each was scanned with that pass.
WindowsOf(files) ==
    LET text(n) == normalized_lines(seen[files[n].id])
        passes(n, s) == WindowPasses(WindowAt(text(n), s, WindowLines), files[n].lang, options)
        starts(n) == {s \in 1 .. Len(text(n)) - WindowLines + 1 : passes(n, s)}
    IN  [p \in UNION {{<<n, s>> : s \in starts(n)} : n \in DOMAIN files} |->
            [key |-> window_key(WindowAt(text(p[1]), p[2], WindowLines)),
             occ |-> ScanOccurrence(text(p[1]), p[2], files[p[1]].id[1], p[1], WindowLines)]]

\* A list of the occurrences in a set, each of them, by file and position.
Lists(occs, all) ==
    LET before(a, b) == \/ a.file_idx < b.file_idx
                        \/ a.file_idx = b.file_idx /\ a.norm_start < b.norm_start
    IN  /\ occs \in Seq(all)
        /\ \A o \in all : \E i \in DOMAIN occs : occs[i] = o
        /\ \A i, j \in DOMAIN occs : i < j => before(occs[i], occs[j])

OccsUnder(windows, key) ==
    {windows[p].occ : p \in {q \in DOMAIN windows : windows[q].key = key}}

\* An index has the keys of the windows and lists the occurrences of each.
Indexes(index, windows) ==
    /\ DOMAIN index = {windows[p].key : p \in DOMAIN windows}
    /\ \A k \in DOMAIN index : Lists(index[k], OccsUnder(windows, k))

\* However the workers interleave, the folded index is the one a thread alone
\* would have built (the comment above the fold in scan_roots): the files that
\* were scanned, in the order of repositories and paths, and of every window the
\* occurrences, in that order and pointing at those files.
MatchesSequential ==
    LET files == folded.files
        before(f, g) == f[1] < g[1] \/ (f[1] = g[1] /\ f[2] < g[2])
    IN  phase \in {"reconstruct", "done"} =>
            /\ {files[n].id : n \in DOMAIN files} = {f \in FileIds : seen[f] # NotRead}
            /\ \A m, n \in DOMAIN files : m < n => before(files[m].id, files[n].id)
            /\ Indexes(folded.index, WindowsOf(files))

\* The text between two lines of a file, as a fingerprint identifies it.
TextAt(contents, start_line, end_line) ==
    window_key(normalized_lines(SubSeq(contents, start_line, end_line)))

\* While nothing is edited, a reported cluster is a real duplicate: at every
\* occurrence it lists stands the very text its fingerprint was taken of,
\* although a merged span was put together from the line numbers of two windows
\* and the shards were scanned apart; and no cluster is another one shifted by
\* a line, so a long block is one row.
QuietClustersAreExact ==
    (phase = "done" /\ edits = 0) =>
        /\ \A c \in report.clusters : \A o \in c.occurrences :
              \E f \in FileIds :
                 /\ roots[f[1]].id = o.repo_id /\ FileOf(f).rel = o.path
                 /\ TextAt(disk[OnDiskAs(f)], o.start_line, o.end_line) = c.fingerprint
        /\ options.merge_overlaps =>
              \A p \in folded.protos : ShiftedBy(folded.protos, p, 1) = {}

\* Files may change while the scan runs, and then a cluster's text is read from
\* a tree that is not the indexed one.  What is verified against the index key
\* (the comment at the head of scan.rs) is its first window: that much of every
\* reported text is what the scan found at each listed occurrence.  The rest of
\* a merged text is not verified.
ReportedHeadsWereScanned ==
    phase = "done" =>
        \A c \in report.clusters : \A o \in c.occurrences : \E f \in FileIds :
            /\ roots[f[1]].id = o.repo_id /\ FileOf(f).rel = o.path
            /\ seen[f] # NotRead
            /\ LET found == TextAt(seen[f], o.start_line, o.end_line)
               IN  SubSeq(found, 1, WindowLines) = SubSeq(c.fingerprint, 1, WindowLines)
\* A system scan must not report a repository as a copy of itself, and must not
\* lose one either (the comment on discover_system_repo_roots).  Two clones of one
\* repository are scanned only when they are listed under different names, or
\* without one; and of a listed repository no clone is scanned only when git does
\* not answer for it or for one of its name, or when the qualified id of a clone
\* went to a later one of its name and family.  The roots are looked at before the
\* first is claimed; they stay.
EachRepositoryOnce ==
    (command.kind = "scan_system" /\ roots # <<>> /\ next_repo = 1) =>
        LET scanned == {roots[r].checkout : r \in Repos}
            listed == ListedCheckouts(command)
            NamesMeet(c, d) == (NamesOf(command, c) \cap NamesOf(command, d)) \ {<<>>} # {}
            IdsMeet(c, d) == QualifiedIdsOf(command, c) \cap QualifiedIdsOf(command, d) # {}
        IN  /\ \A a, b \in scanned : a # b /\ Clones(a, b) =>
                  \E x \in NamesOf(command, a), y \in NamesOf(command, b) : x # y \/ x = <<>>
            /\ \A c \in listed :
                  \/ \E s \in scanned : Clones(c, s)
                  \/ \E d \in listed : NamesMeet(c, d) /\ ~GitAnswers(d)
                  \/ \E d \in listed, s \in scanned : Clones(c, d) /\ d # s /\ IdsMeet(d, s)
=============================================================================
