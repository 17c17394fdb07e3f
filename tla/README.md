# Verification of jeryu-intelligence

TLA+ specifications of the concurrent and stateful core of this workspace, the
TLC configurations that check them on small instances, and TLAPS proofs of their
main invariants for every value of their constants.

    tlc -workers 2 -config MCKillBell.cfg MCKillBell     # check one instance
    tlapm KillBell_proof.tla                             # check one module's proofs

`PROJECT.json` lists the runs, the theorems, the mutants that show that each
property can fail, the source lines each definition stands for, and the hazards
the properties are about.

## The system

Five crates; what each keeps, does and owes.

| Part | State | Operations | Hard behaviour | What makes it correct |
|---|---|---|---|---|
| `autonomy/verdict_store` | `Vec<Row>` behind a mutex | save, load_latest, list_active, supersede | ids are a millisecond and a head, so they collide; saves arrive in any order | one live row per pull request; rows are never rewritten |
| `autonomy/quorum`, `judge`, `conditions`, `sha_bind`, `evidence` | none (pure) | judge | receipts of rebuilt packs, one agent speaking twice, order of arrival | blocks veto; an AllowMerge is backed by the current pack's receipts |
| `autonomy/ledger` | `Vec` behind a mutex | append, list | retried and duplicated appends | grows only; one signed entry per id |
| `autonomy/auto_rejudge`, `rejudge` | none of its own; shares store and ledger | rejudge, check | concurrent runs; a seam fails between save and append; head and policy move | complete audit trail; the new verdict replaces the old |
| `autonomy/kill_bell` | history `Vec` behind a mutex, shares the ledger | pause, resume, current, downgrade_if_paused | an await between append and push; several operators | the ledger leads; the latest order is in force; every pause ends |
| `autonomy/freeze`, `full_auto` | none (pure) | check, apply, resolve | overlapping windows; tier ceilings | R5 never merges unattended |
| `autonomy/escalation`, `replay`, `types/lease`, `policy_yaml` | none | dispatch_all, replay, permits, load | one sink fails | no sink aborts the others |
| `mcp/core`, `mcp/http` | sessions map, one lock per session | initialize, calls, delete | calls in flight while a session is renamed or deleted; tools that wait | a call has its session to itself; every request is answered |
| `mcp/backend` | bug store, agent bridge, behind mutexes | bug tools, propose_patch, request_merge | clients that hang up, retries, partial failure | what a caller was told is so |
| `codegraph/storage` | SQLite file shared by processes | persist, load_snapshot, ignores, migrations | two writers, reads in several statements, crash between two calls, two processes migrating at once | the last report stands; a verdict on a cluster survives |
| `codegraph/tool_build` | shards behind a mutex | scan, scan-family, scan-system | several checkouts of one repository; worker threads take repositories in any order; files change meanwhile | no repository is its own copy; the index is the sequential one; what is reported was there |
| `codegraph` index, oracle, governance | the stored index | query | the checkout is edited while it is read | the pack covers the plan and leaves nothing out |
| `rustjet` manifests, graph, classifier | none | plan | closure over cycles; an edit between two reads | nothing affected is left out |
| `codegraph` slice, export gate; `rustjet` sharding, reports | none | permit, shards | — | permits are default-deny |

The judge is called by two loops: a dispatch loop (outside the repository; its
publish path is in `tests/evidence_gate_e2e.rs`) and `AutoRejudgeService`. Both
take a pack and receipts from the `EvidenceSource` seam, hand them to `judge()`,
save the verdict and append a signed entry to the ledger. The kill bell writes
to the same ledger and is read before a verdict is published; around `judge()`
the publish path adds the freeze calendar's hard stop, the full-auto profile's
derived bundle and `resolve()`, and after it the escalation to webhooks. The
path's order is that of `tests/full_auto_e2e.rs`. The verdict store
is polled by a daemon that starts a re-judge for a live verdict that has drifted.

The other crates meet the judge only through the agents that call them. The MCP
server hands the tool calls of many connections to one bug store and one agent
bridge. The `jeryu-codegraph` commands share one SQLite file: each is a process
that opens the store (and migrates it), and then indexes, scans, lists or ignores.
A tool-build scan fills its report with worker threads before the store sees it.
The planner of `jeryu-rustjet` and the code-graph oracle read the same checkout for
the same change, with the same manifest reader, each in a process of its own.

## The modules

| Module | Models | |
|---|---|---|
| `Verdicts` | `VibeGateVerdict`, `mint_verdict_id`, the judge's stamp | data shared by the others |
| `VerdictStore` | `verdict_store/mod.rs` | state machine, one action per operation |
| `VerdictRegister` | what `VerdictStore` (the trait) promises | abstract: one current verdict per pull request |
| `QuorumRules` | `evaluate_quorum` | operators |
| `Judge` | `judge()`, `verify_sha_binding`, condition registry, CI gate, pack minting | operators |
| `ReviewRound` | one round of packs and receipts under `judge()` | state machine |
| `LaunchLedger` | `MemoryLedger::append` | state machine, instantiated by the writers |
| `AutoRejudge` | `AutoRejudgeService`, `rejudge::check`, the publish path | composes VerdictStore, Judge and LaunchLedger |
| `KillBell` | `KillBell` | state machine over a LaunchLedger instance |
| `LatestOrder` | what `current()` promises | abstract: one order in force |
| `RiskTiers` | `freeze.rs`, `full_auto.rs` | operators over tiers, calendars, profiles |
| `PublishGate` | the publish path: freeze, profile, judge, bell, `dispatch_all` | composes Judge, RiskTiers and KillBell |
| `ToolBuildWalk` | `tool_build/walk.rs`, the scan options | operators: discovery and path classes |
| `ToolBuildWindows` | `normalize.rs`, `anchors.rs`, `merge.rs`, the window index | operators |
| `ToolBuildClusters` | cluster rows, `enrich.rs`, `families.rs` | operators |
| `ToolBuildRoots` | `discover_system_repo_roots`, `manifest_repo_roots` | operators: what a command scans |
| `ToolBuildScan` | the scan commands, `scan_roots` | state machine over the four, one action per step of a worker or the coordinator |
| `CodeGraphStore` | `storage.rs`, `storage/`, the commands of `bin/jeryu-codegraph.rs` | state machine, one action per statement or transaction |
| `McpSessions` | `mcp/core`, `mcp/http`, `mcp/backend` | state machine, one action per stretch between two waits |
| `Workspace` | `rustjet` `manifest.rs`, `graph.rs`, `public_api.rs`, `pathset.rs` | operators over a checkout |
| `AffectedPlan` | `rustjet` `classifier/`, `sccache.rs` | operators |
| `CodeGraphOracle` | `codegraph` `graph.rs`, `oracle.rs`, `oracle/governance.rs` | operators |
| `PlanningRound` | `jeryu-rustjet-cli plan` and `jeryu-codegraph query` on one checkout | state machine, composes Workspace, AffectedPlan and CodeGraphOracle |
| `*_proof` | theorems of the module named | |
| `MC*` | instances for TLC | |

How state and actions correspond to the code:

- **VerdictStore.** `rows` is the `Vec<Row>`. The mutex makes every operation one
  step, so `Save` and `SupersedeRow` are whole calls. A `(repo, pull_request)`
  pair is one value of `PRs`. Ids keep what `mint_verdict_id` keeps of a
  verdict: the millisecond and the head, and so two verdicts may share one.
  `LoadLatest` keeps the tie-breaking of `max_by`.
- **QuorumRules, Judge.** The functions' steps in their order: author filter,
  identity filter, veto, roles and count, human; SHA-bind filter, hard stops,
  quorum. A filtered list is the set of positions it keeps. A pack-local
  condition is the name it triggers; what it reads in the pack is left out. The
  three conditions on receipts and the CI lanes are modelled by what they do.
- **ReviewRound.** `judge()` may be called at any moment, so the round has no
  judge action: `Decision` is what it would answer in each state. Packs are
  rebuilt for another commit, another policy or other CI; a receipt names the
  pack its reviewer was given, which may be gone by then.
- **AutoRejudge.** Each worker is a task in `rejudge()` (or in the publish path)
  and makes one await per step: `BuildPack`, `ReviewAndJudge` (`judge()` follows
  `run_reviews` without an await), `SaveVerdict`, `AppendEntry`, each with the
  failure the code handles. `reported`, `minted` and `outage` (the run's review pass
  has failed) are history variables.
- **KillBell.** `Call` is `pause()`/`resume()` up to its await, `AppendEvent` and
  `AppendFails` the ledger's answer, `PushRow` the push. Calls of different
  operators interleave; the ledger may refuse an entry, or record it and lose
  the answer.
- **PublishGate.** One dispatch loop: `JudgePack` is `FreezeWindows::check`,
  `apply()`, `judge()` and `resolve()` in one step (none of them awaits),
  `AskBell` is `downgrade_if_paused`, `Publish` hands the decision on, `Deliver`
  is one turn of `dispatch_all`'s loop (one await). Between any two of them the
  bell makes a step, or the owner loads a profile that validates. `OnEvents` is
  what `permits()` lets through, so empty where the configuration is disabled.
- **ToolBuildWalk, ToolBuildWindows, ToolBuildClusters.** A line is its tokens, a
  path its segments and the name patterns the classifier finds in it; a window's
  fingerprint is its text, so BLAKE3 is taken to be injective on one scan. The
  filters, the merge of overlapping windows, the scores, the row's category,
  representative occurrences and coverage, and the pattern families follow the
  code step by step. Scores do not saturate (no repository reaches 2^64);
  insights, labels and names are wording and are left out.
- **ToolBuildRoots.** `TakeEntry` is one turn of the loop over manifest entries, and
  `discover_system_repo_roots` its fold over the manifests in path order. What git
  answers about a checkout is its set of root commits; `clone_of`, which repository
  it really is a clone of, is known to the properties only.
- **ToolBuildScan.** `Init` holds the command and what it resolved to. A worker claims a repository from `next_repo` (`Claim`), lists
  its files (`Discover`), stats and reads them one by one (`Stat`, `Read`,
  `SkipFile`) and pushes its shard (`Push`). The coordinator folds the shards
  once all have stopped (`Fold`, `Fail`), reads the survivors' head files back
  (`ReconstructFile`) and ranks (`Finalize`). `Edit` is another program writing
  or removing a scanned file. `seen` is a history variable.
- **CodeGraphStore.** `Start` begins a command and each further step is one SQL
  statement, or one transaction, of it: `ApplySchema`, `CheckKey`, `Rebuild`,
  `CheckCoverage`, `AddCoverage` open the store, `PersistGraph` and `LoadTable`
  are `persist` and `load_snapshot`, `PersistReport`, `NextCluster`,
  `LookUpMember`, `Inherit` a scan's, `Ignore` and `List` the operator's. `Kill`
  ends a process between any two of them. A graph table holds the number of the
  persist its rows came from. Two openers of an old database may rebuild it
  twice, or one of them fail on a column that is already there; both are in the
  model; the rebuild copies the columns of v3 whatever the table is by then, and
  `members` stands for the columns it drops (category and coverage share its fate).
  `latest`, `heard` and `rebuilds` are history variables.
- **McpSessions.** A handler runs without a break from one wait to the next, so
  such a stretch is a step: `Arrive`, `LookUp`, `Insert` and `Delete` on the map
  (whose lock is never held over a wait), `Handle` once the session's lock is
  had, then the tool: `Read`, `LockBugs`/`WriteBug`, `UpsertPr`/`ApplyScopedPatch`,
  `RequestMerge`, or `StartWaiting`/`StopWaiting` for a deployed backend's
  `session.wait_for`. `Cancel` and `LoseAnswer` are hyper dropping the handler of
  a client that hung up. `initialize` over HTTP inserts a session whatever it
  answered, as the code does. The stdio pipe has one session for good and
  handles the requests of a batch in turn. `ToolBackend::call` is synchronous and is
  called in the async handler itself (`core/tools_call.rs:53-54`), so a handler keeps
  its worker thread from `Handle` to the end of its tool, a wait included: at most
  `WorkerThreads` handlers are between the two (`Running`, `HasWorker`), and the
  others take no step meanwhile. A request comes in without one (`Arrive`); the pipe's
  loop is a task of the same runtime. A handler whose session is free may be
  overtaken by a later one, which tokio's queues would not allow; that only adds
  behaviours. `told` is a history variable.
- **Workspace, AffectedPlan, CodeGraphOracle.** A manifest is what the line reader
  makes of it: its members, its package, and the key and package of each
  dependency line. A Rust source is its set of public symbols. `package_for_path`
  compares the roots by the length of their strings, as the code does: the root
  package's is ".", as long as a directory of one letter (`OneLetterNames`), and of
  two as long the package named last (`NameOrder`) is taken; of any other two roots
  that hold one path the longer by segments is the longer string (`root_length`). The classifier's
  early returns are its disjuncts in order; `plan_of` derives reasons, lanes,
  runner, sccache mode and commands from the marks. The oracle's `index_package`,
  `impact_of`, the longest matching governance rule and the entries of
  `build_pack` follow their functions; `because` keeps why an entry is listed.
- **PlanningRound.** `StartPlan` and `PlannerReadsMember` are
  `WorkspaceManifest::load`, one manifest per step, `Classify` one changed path of
  `plan()`, `FinishPlan` the rest. `StartQuery`, `OracleReadsMember`,
  `IndexPackage` (the sources of one package) and `LoadGovernance` are the
  oracle's reads, `PersistAndPack` its store and answer, `PersistFails` a store
  that refuses. `Edit` writes a file between any two of them.

## Runs, bounds, and what they show

| Run | Shows | Bounds |
|---|---|---|
| `verdict_store` | store invariants and the refinement of `VerdictRegister` | 2 pull requests on 1 head, 3 milliseconds: enough for a collision across pull requests, a late save of an older verdict and a replaced row that is withdrawn again |
| `review_round` | block, backing and monotonicity properties of verdicts | 2 packs, 3 receipts by 2 reviewers and the author, tiers that need 1 and 2 approvals and one without an entry, with and without the identity filter; two receipts of one agent plus a third voice is what the identity filter can get wrong |
| `review_order` | a finding, below | as above, 1 pack |
| `auto_rejudge` | the audit trail under interleaving runs | 2 workers, 3 runs, 2 pull requests, 2 heads, 2 milliseconds, 1 push or policy change, faults in every seam |
| `rejudge_collision` | a finding, below | as above |
| `rejudge_outage` | a finding, below | as above, 1 worker, `run_reviews` may fail |
| `kill_bell` | ordering and liveness of pauses | 2 operators, 3 calls, TTLs of 1 and 2 ticks, 3 ticks of time: two overlapping orders and one to displace them |
| `publish_gate` | floors, freezes and the bell on the publish path | 2 operators, 2 calls, 2 ticks, 4 profiles (full-auto to R3 and to R4, one disabled, one that must be refused; no windows, two windows that meet, two that overlap), tiers R1, R3, R5, 3 sets of receipts, 2 webhooks: every combination of tier, ceiling, window and receipts, and a pause or resume in every gap of the loop |
| `tool_build_scan` | the report of concurrent workers over changing trees | 7 commands (one repository; two family manifests, one that must fail; four systems: one with a clone, a copy without history and two repositories of one name, one with three of one name, one with a clone listed under two names, one unreadable), 2 workers, up to 3 repositories (one listed by git and with a generated zone, one possibly unlistable), 3 contents, 2 edits: a worker takes two repositories, windows merge within and across repositories, and a head file changes or vanishes after it was scanned |
| `code_graph_store` | reports, snapshots and ignore verdicts over one file | 2 processes, 3 commands out of query, validate, scans, listing and ignore, on a fresh file, one of the old shape and one without the coverage column: two openers racing in a migration while a third command has written, and an ignore in every gap of a propagation, a table rebuilt twice with a scan in between |
| `mcp_sessions` | isolation, answers and liveness of concurrent calls | 2 HTTP connections and the pipe, 2 sessions, 4 requests, 2 worker threads: two calls on one session, one on another, and the delete or rename between them; a tool that waits leaves one thread to the three others, two leave none |
| `planning_round` | the plan and the pack of one change | 3 checkouts (a virtual workspace with a chain of three crates, a renamed and a self dependency; a root package with a crate nested in another, which lies in a one-letter directory and wins the tie with the root; and one that loses it), 12 edits of which 2 happen, each spelling of paths: the base change and one in the gap of a run, or two |

Deadlock is checked in `verdict_store` and in `tool_build_scan`, where it says that a
scan can always be finished: no worker and no coordinator waits for good. The other
systems stop when their bounds are used up, which is not a deadlock of the code,
so their configurations turn the check off.

What the planning properties leave out, and why, is named in the module: a path
that lost its last public symbol (`AlwaysPublic`: the detector sees the new text
only), manifests edited while a run reads them (`ManifestsStood`), `./`
spellings where the root is a package that owns every path (`GivenAsOwned`), files
of a member whose one-letter directory ties with a root package (`HeldAsOwned`,
below), and
what lies under `docs/`, where a source or a manifest is documentation to the planner
and its change plans nothing. `UsersOf` is the least set of loaded packages that holds
a package and whatever uses one it holds; what a package uses (`Uses`) is read off its
manifest as it was at the base commit and as it is now, independently of the loaded
graph and of the code's breadth-first search, and counts the dependencies under
their own name, which is all the line reader can see. A path belongs to the
package whose manifest is the nearest above it now (`Holds`): one that lies under a
nested package the workspace does not list, or that such a package took over in the
same change, is not covered for the package it came from.
`EachRepositoryOnce` excepts clones listed under different names or without one,
which the code cannot recognise; a checkout listed under two names may share one of
them with a clone that is scanned too, and the run has the case. `ReportedHeadsWereScanned` says of a merged cluster's text that its first window was
scanned: the code verifies no more of it, and a file edited in between shows in the
rest.

**Fairness.** `kill_bell` assumes weak fairness of `Tick` alone: the bell reads the
wall clock, which advances whatever anybody does. No operator is assumed to call, to
return or to resume, which is the situation the code's invariant is about.
`mcp_sessions` assumes weak fairness of each caller's `Step` and `StopWaiting`. A
`Step` is enabled only while the handler has a thread or one is left, so the first
asks of tokio no more than that a handler which stays ready beside a thread that
stays idle is run: a thread with nothing to do takes over queued tasks. The one exception is a
handler that the release of a lock has woken, which may stay with the
thread that woke it until that thread's own tool returns; that delays it, and no
longer than the tool runs. The second says that a tool which waits gives up in the
end: a `session.wait_for` is bounded by its timeout, which the normalizer caps at a
minute, and the deployed backend is assumed to keep to it. Nothing is assumed
of clients. Weak fairness is enough because requests are finite in number; in the
code it is tokio's first-come queues that keep a stream of later requests from
overtaking one that waits.

### Where code and comments disagree

- `review_order`: an agent that hands in two receipts neither of which is a Block
  is counted by the one that arrived first, so the order decides between
  AllowMerge and RequireHuman. `quorum.rs:61-63` says the order does not matter;
  `OrderFreeWhenConsistent` shows when that is true: when every agent speaks with
  one voice, or blocks.
- `rejudge_collision`: `save()` ignores a verdict whose id it knows, before it
  supersedes anything. Ids name a millisecond and a head, so a re-judge of a pull
  request can lose its verdict to another pull request on the same head, and its
  prior verdict stays live, against `auto_rejudge/mod.rs:7-8`.
- `rejudge_outage`: in a tier that needs no approval the no receipts of a failed
  review pass are judged AllowMerge, against `auto_rejudge/mod.rs:83-85` ("never a
  silent AllowMerge"). In the trace a pull request of tier R1 is judged, a head of
  tier R0 is pushed, and the re-judge's `run_reviews` fails; `FailureNeverAllows`
  speaks of such runs only.

Five more have no run of their own. A passing run reaches each of them, and its
property says what holds all the same.

Where freeze windows overlap, `check()` looks at the first one in the file only
(`freeze.rs:63`), though each window's ceiling is documented as what is "still allowed
to auto-merge during this window" (`freeze.rs:29`). `FreezeHolds` and its theorem
therefore speak of calendars whose windows do not overlap.

Of three repositories of one name the second and third, if listed by one
family, get the same qualified id, and the third replaces the second
(`tool_build/mod.rs:572`), though entries that share a name "are kept apart when
git can prove it" (`mod.rs:445-446`). `EachRepositoryOnce` names this exception.

The shape of the clusters table is read in one statement and the table rebuilt in a
later transaction that does not look again (`storage/helpers.rs:18-20`). Two commands
that both saw the old shape rebuild it twice, and if the first has stored a report in
between, the second empties its members, category and coverage (`helpers.rs:43-50`),
though the rebuild is called "One-time" (`helpers.rs:6`). `LatestReportIntact` says
what stands: the whole report until the table is rebuilt again, and every other column
after that.

"Lock only this session: concurrent requests on other sessions run in parallel"
(`mcp/http/post.rs:117`) holds of the locks and not of the threads: a tool that waits
keeps its worker thread (`core/tools_call.rs:53-54`), and as many of them as the
runtime has workers stop the requests of every other session until one gives up.
`RequestsAreAnswered` says that this is a delay and no deadlock.

`package_for_path` compares string lengths (`rustjet/src/manifest.rs:100-105`), where
the root package's "." ties with a member directory of one letter. If the root
package's name is the later one, a change in that member is planned as the root
package's, and neither the member nor its users are planned, against the test
`public_api_change_includes_transitive_dependents`
(`rustjet/tests/affected_classifier.rs:6`). `PlanReachesUsers` and its theorem leave out
changes of such a member (`HeldAsOwned`).

## Proofs

Every theorem is checked by `tlapm`, for all values of the constants that meet
the named assumptions of the modules (that times are naturals, that the absent
values differ from the present ones, that bounds are naturals).

- **AutoRejudge_proof, the store.** Type correctness, unique ids and one live row are
  inductive together: `save` stamps every live row of a pull request before it
  adds one, and adds none for a known id. `RowsAreForever` follows step by step.
  The refinement maps the current verdict to `load_latest`; it needs the
  invariant, since the maximum over live rows is the only live row.
- **ReviewRound_proof.** The verdict is a function of the receipt list, so the
  properties rest on lemmas about the filters: an admissible Block survives
  them (its agent's first Block is never outranked), the Pass receipts they keep
  are admissible and of distinct agents, and a receipt appended to the list never
  takes a place from an earlier one unless it blocks. That the order of arrival is
  no matter rests on embeddings: each of two lists of the same receipts has a place
  of its own in the other for every receipt (`Embeds`), so what stops or blocks the
  one does so to the other, and a Pass that counts in the one has a Pass that counts
  in the other, of the same agent and role (`PassHasPlace`); which of an agent's
  receipts counts may differ, its role and decision may not.
- **AutoRejudge_proof, the service.** The inductive invariant adds to the properties what a
  worker's place implies: a worker about to append has saved under its id
  (`SavedBeforeAppend`), and rows and entries only hold minted verdicts
  (`OnlyMinted`). `ServiceUsesStore` shows that every step of the service is a
  step of the store, so the store's theorems carry over.
- **KillBell_proof.** The invariant says that a call writes at most one row
  (`OneCallOneRow`), that the event of a call yet to append is fresh
  (`FreshEvents`), and that a call about to push has its event in the ledger
  (`RecordedFirst`). The refinement shows that appending a row either changes
  nothing in force or puts a later order there.
- **PublishGate_proof.** The verdict is tied to the profile it was judged under
  (`Judged`), not to the one now installed; the floors then follow from lemmas
  about `judge()` and `apply()`, and the freeze from the fact that without
  overlaps the window that covers a moment is the active one. For the bell, rows
  that arrive and time that passes can silence a pause the loop has seen but
  never make one ring (`SeenStaySilent`), and one that rings when the loop asks
  is heard (`RingingIsHeard`).

- **ToolBuildScan_proof.** A claimed repository is in exactly one place: with the
  worker that claimed it or in the shared vector (`ClaimInv`). When all workers
  have stopped the counter has passed the last repository, so the vector holds
  one shard of each. What a shard holds is `ScanInv`: a table (`SoundTable`) that
  lists those files of its repository that were scanned, by path, with an index
  that has of every window of theirs the occurrences, by file and position. A file
  that is read is behind all that were (`Ahead`), so the table grows at its end
  (`TableGrows`); the others' files are of other repositories, so a worker's steps
  leave their tables as they are (`WorkerStays`, `ShardStays`). The order the
  coordinator folds in is a permutation that puts repository r at place r
  (`ShardsInRepoOrder`), and rebasing and appending joins two tables into one
  (`TablesJoin`), so the folded table is the one of all files (`FoldIsSound`). The
  recursive functions in the line normaliser, the sliding window and the fold are
  opened by a lemma each that the function exists (`CollectionExists`,
  `SlidesExist`, `AddsExist`). Of the report, `ReportInv` says that the text read
  back for a cluster is what some contents of its head file say at its place
  (`ReadBack`), the scanned ones while nothing is edited. What the cluster says of
  its files is `ClusterSound`, which the folded table implies (`FoldedClusters`):
  an index lists the occurrences of a key in the order the merge sorts by
  (`IndexSound`, `SortedStays`); a chain of clusters shifted line by line ends
  before it has more members than there are clusters (`ChainHasEnd`, by the
  pigeonhole principle); and every line of a merged span is a line of one of its
  windows, so all occurrences have one text (`ChainSays`, `JoinedSound`). That the
  line numbers a row names cut exactly that text out of the file is `SpanIs`. Which
  repositories are scanned is settled by the entries of the manifests: `TakenInv`
  says of those taken so far that every claim is a listed checkout's, every checkout
  has claimed the name it is in under, two of them are in under different names or
  provably apart, and one without an id lost it to a later one (`LostItsId`);
  sorting the ids then loses none (`EachIdOnce`). The
  assumptions: the roots, entries, trees and contents are sequences, the room for
  occurrences is a number, the alphabet spells every id, every file of every tree
  stands on every disk that a scan starts with, as a file that may be gone, and
  checkouts that git answers for share an initial commit exactly if they are clones
  (`GitTellsClones`, the reasoning of the comment at `mod.rs:591-592`): a repository
  that merged the histories of two others is not covered.
- **CodeGraphStore_proof.** `ShapeInv` ties the steps of an opener to the table's
  shape, so that a rebuild keeps every row's lead (`RebuildKeepsLeads`) and a scan
  of another repository takes none (`PersistLeavesOthers`). No command gets past its
  opening while the table is of the old shape, so every report is stored after the first
  rebuild and keeps its members until the next. `LoadInv` says that
  what a load has read is no newer than the tables it has yet to read. `MergeInv`
  follows the cursor of a propagation: a cluster it has passed is settled, and no
  member it has passed in the cluster it is at had been ignored; other commands keep
  it, since they only add verdicts (`MergeInvAtKept`).
- **McpSessions_proof.** `IInv` adds to the types that a session has one holder
  (`Alone`) and that a call keeps the name of its session while it holds the lock
  (`Named`). It holds since only a holder of the lock writes the session
  (`HandleKeeps`) and the map steps write sessions nobody can hold yet
  (`InsertKeeps`). That answers stand needs `AnswersInv` besides: the numbers of
  two callers' requests never meet (`NumbersOK`), the mutex of the bugs has one
  holder, whose record is there or is the next one (`LocksOK`), and a request that
  is yet to act has left no trace under its number (`TracesOK`). Steps that write
  no record keep it by `QuietKeeps`; the two that do (`WriteBugKeeps`,
  `ApplyScopedPatchKeeps`) write under the caller's own number alone, so that the
  traces of every answered call are counted as before (`WrittenKeeps`). The
  assumption is that a line of the pipe holds at least one request: an empty one
  is skipped (`io.rs:21`), and an empty batch reaches no session.
- **PlanningRound_proof.** `ReaderInv` says of the planner and of the oracle that
  what they have loaded, if nobody touched a manifest since they began, is what the
  first members of the checkout say (`Reads`): an edit of another file leaves it true
  (`EditKeepsReader`), one more manifest extends it (`StepReads`), and two loads of
  one checkout that came to their end hold the same packages (`LoadsAgree`, through
  the last member of each name). `MarksOf` says of a plan under way that it was
  widened, or every mark is the owner of a path seen or a user of one and every
  path has an owner or is documentation. `PackCovers` puts the two together: the
  owner is the oracle's too, since a path that has an owner under a virtual root
  does not begin with "." (`OwnedIsPlain`). The reading list needs `PackInv` alone:
  whatever was indexed, a pack is what `build_pack` makes of it.
  `PlanReaches` needs the other direction, what a path must mark. `ReachInv` says that
  a changed path seen, if it reaches all users in each of its versions (`ReachesAll`),
  has marked them; edits add versions and so only narrow the claim (`EditReach`); and
  that every manifest that differs from the base commit is among the changes. The
  planned packages whose users are all planned are then closed under `Uses`: a user
  that declares the dependency now is on the walk, which is complete, since each of
  its levels that is not closed adds a package (`WalkIsClosed`, `WalkNests`); the
  manifest of one that declared it at the base commit is a changed path, and its
  change plans the same (`ReachedByPath`). The owner of both is the package above
  (`NearestOwns`, `InsideOf`): a root further down is the longer string, but for the
  one-letter tie that `HeldAsOwned` leaves out (`LongerRoot`). Facts about the recursive functions in `clean` and in
  the walk along dependencies are proved by least counterexample (`Least`). The
  assumptions: paths are strings without "." segments, as git lists them, and a
  path that is a file in one checkout is a directory in none (`FilesAreNoDirectories`);
  members are written without "." segments (`normalize_relative` leaves none), the
  order of the names lists each once (`NamesAreListedOnce`), and
  "." is no name of a markdown file.

Only model-checked, beside the three findings: the liveness properties `PausesEnd`
and `RequestsAreAnswered`. Every invariant and every safety property a run checks is a
theorem.

## Not modelled

- Lexical work: YAML, JSON, TOML and Rust parsing, the tokenizer and the symbol
  extractor (a line is its tokens, a source its symbols, a manifest its lines);
  signatures and digests (an entry or pack is signed or not).
- Wording and layout: messages, payloads, insights, labels, the JSON schemas of
  tools that no modelled backend serves, terminal bytes, reports and benchmarks.
- What each pack-local condition reads in the pack; the forge and the reviewers
  behind the `EvidenceSource` seam, whose answers are chosen from small sets; the
  inside of `AgentBridge`, another repository's crate.
- Pure functions without state or order: `LeaseContract::permits`, replay, slice
  permits and the export gate, sharding, features and nextest plans. There is
  nothing in them that interleaves, and they are called by nothing modelled.
- Reads that fail inside a run, other than of a missing file or manifest: the oracle's
  index stops with the I/O error (`graph.rs:274-287`) before it stores or answers
  anything, and its properties speak of finished packs.
- Read-only lookups over a stored index (the compatibility queries, symbol search,
  definitions, references).
- The planner runs under the command line's default options (an internal branch,
  no release lane) in the run; the operators cover the others.

## Plan

Done, in this order: the verdict life cycle, the judge, the ledger and the kill
bell; the publish path around them; the tool-build scan and what it scans; the code-graph store; the
MCP sessions and backends; the planner and the oracle on one checkout.

Worth adding next: operators against reference definitions for sharding, slice
permits and leases.
