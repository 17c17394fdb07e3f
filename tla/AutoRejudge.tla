----------------------------- MODULE AutoRejudge -----------------------------
(***************************************************************************)
(* The life of verdicts: pull requests are judged for the first time by    *)
(* the dispatch loop and again by AutoRejudgeService, each run a task that *)
(* builds a pack, collects reviews, judges, saves and appends to the       *)
(* ledger, one await at a time, while commits are pushed, the target's     *)
(* policy moves and the clock runs.  Nothing in the service keeps two runs *)
(* for one pull request, or for one head, apart.                           *)
(***************************************************************************)
EXTENDS VerdictStore, Judge

CONSTANTS
  Workers,      \* tasks that may be under way at once
  Author,       \* author_agent of every pull request, known to the dispatch loop
  BodyOf,       \* what a build finds at a head: [risk, conditions, ci]
  Reviews,      \* the lists of receipts a review pass may return, as written
  Policy0,      \* the target's policy sha when loop and service were started
  Bundle,       \* the policy bundle they were started with
  SeamFaults,   \* which seam calls may fail
  NoEntry,      \* supersedes of an entry that names no prior verdict
  MaxRuns,      \* bound: runs started
  MaxChanges    \* bound: pushes and policy changes

ASSUME SeamAssumption ==
  /\ SeamFaults \subseteq {"build_pack", "run_reviews", "append"}
  /\ MaxRuns \in Nat /\ MaxChanges \in Nat
  /\ NoEntry \notin VerdictId
  /\ Policy0 \in Policies

VARIABLES
  entries,      \* the launch ledger
  clock,        \* milliseconds, within Times
  head,         \* the head of each pull request on the forge
  policy,       \* the policy sha of the target branch
  changes,      \* pushes and policy changes so far
  pc,           \* where each worker stands
  job,          \* what it was started for: [kind, pr, prior]
  pack,         \* the pack it holds
  verdict,      \* the verdict it holds
  outage,       \* history: whether its review pass has failed
  runs,         \* runs started so far
  reported,     \* history: ids of the verdicts whose run returned an append error
  minted        \* history: the verdicts judge() has returned

gateVars == <<pc, job, pack, verdict, outage, runs, reported, minted>>
worldVars == <<clock, head, policy, changes>>
vars == <<rows, entries, gateVars, worldVars>>

LedgerKinds == {"VerdictIssued", "HumanEscalationRequested"}

\* The entries written here: the ledger id is the verdict's id with a prefix,
\* the payload is the verdict and, after a re-judge, the id it supersedes.
Entry ==
  [id : VerdictId, kind : LedgerKinds, body : Verdict,
   supersedes : VerdictId \union {NoEntry}, algo : {"ed25519"}]

Ledger == INSTANCE LaunchLedger

RecordedIds == Ledger!EntryIds

Packs == {Pack(built, h, p, BodyOf[h]) : built \in Times, h \in Heads, p \in Policies}

Jobs == [kind : {"gate"}, pr : PRs, prior : {NoVerdict}]
          \union [kind : {"rejudge"}, pr : PRs, prior : Verdict]

ASSUME WorkAssumption == None \notin Jobs \union Packs

Init ==
  /\ StoreInit
  /\ Ledger!LedgerInit
  /\ clock \in Times /\ \A t \in Times : clock <= t
  /\ head \in [PRs -> Heads]
  /\ policy = Policy0
  /\ pc = [w \in Workers |-> "idle"]
  /\ job = [w \in Workers |-> None]
  /\ pack = [w \in Workers |-> None]
  /\ verdict = [w \in Workers |-> NoVerdict]
  /\ outage = [w \in Workers |-> FALSE]
  /\ runs = 0
  /\ reported = {}
  /\ minted = {}
  /\ changes = 0

-----------------------------------------------------------------------------
(* When a verdict must be judged again *)

\* rejudge::check, without the target-branch trigger, which never fires.
MustRejudge(v) ==
  \/ head[v.pr] # v.head
  \/ policy # v.policy
  \/ clock > v.expires

LiveVerdicts == {rows[i].body : i \in {j \in DOMAIN rows : Live(j)}}

-----------------------------------------------------------------------------
(* A run *)

Start(w, newJob) ==
  /\ pc[w] = "idle" /\ runs < MaxRuns
  /\ runs' = runs + 1
  /\ job' = [job EXCEPT ![w] = newJob]
  /\ pc' = [pc EXCEPT ![w] = "build"]
  /\ UNCHANGED <<rows, entries, pack, verdict, outage, reported, minted, worldVars>>

\* The dispatch loop takes up a pull request.
StartGate(w, pr) ==
  Start(w, [kind |-> "gate", pr |-> pr, prior |-> NoVerdict])

\* rejudge(repo, pr, prior): called for a live verdict that has drifted.
StartRejudge(w, prior) ==
  /\ MustRejudge(prior)
  /\ Start(w, [kind |-> "rejudge", pr |-> prior.pr, prior |-> prior])

\* The end of a run, with an error or without: the worker forgets everything.
Finish(w) ==
  /\ pc' = [pc EXCEPT ![w] = "idle"]
  /\ job' = [job EXCEPT ![w] = None]
  /\ pack' = [pack EXCEPT ![w] = None]
  /\ verdict' = [verdict EXCEPT ![w] = NoVerdict]
  /\ outage' = [outage EXCEPT ![w] = FALSE]
  /\ UNCHANGED runs

\* build_pack: the pack of the head and policy of this moment.
BuildPack(w) ==
  /\ pc[w] = "build"
  /\ pack' = [pack EXCEPT ![w] =
                Pack(clock, head[job[w].pr], policy, BodyOf[head[job[w].pr]])]
  /\ pc' = [pc EXCEPT ![w] = "review"]
  /\ UNCHANGED <<rows, entries, job, verdict, outage, runs, reported, minted, worldVars>>

\* build_pack fails: the error bubbles up.
BuildPackFails(w) ==
  /\ pc[w] = "build" /\ "build_pack" \in SeamFaults
  /\ Finish(w)
  /\ UNCHANGED <<rows, entries, reported, minted, worldVars>>

\* The dispatch loop hands the author to judge(); the service hands in None.
AuthorOf(w) == IF job[w].kind = "gate" THEN Author ELSE NoAuthor

DecisionFor(w, receipts) == JudgeDecision(pack[w], receipts, Bundle, AuthorOf(w), {})

\* judge(), on the pack the worker holds, at the clock's time.
Mint(w, receipts) ==
  /\ verdict' = [verdict EXCEPT ![w] =
                   MintVerdict(job[w].pr, pack[w].head, pack[w].policy,
                               DecisionFor(w, receipts), clock)]
  /\ minted' = minted \union {verdict'[w]}
  /\ pc' = [pc EXCEPT ![w] = "save"]
  /\ UNCHANGED <<rows, entries, job, pack, runs, reported, worldVars>>

\* run_reviews answers, and judge() follows without a pause.
ReviewAndJudge(w) ==
  /\ pc[w] = "review"
  /\ \E written \in Reviews :
       Mint(w, [i \in DOMAIN written |-> Receipt(pack[w], written[i])])
  /\ UNCHANGED outage

\* run_reviews fails: rejudge() judges with no receipts.  What the dispatch loop
\* does then is not in the repository; it gets its receipts here.
ReviewFails(w) ==
  /\ pc[w] = "review" /\ "run_reviews" \in SeamFaults
  /\ job[w].kind = "rejudge"
  /\ Mint(w, <<>>)
  /\ outage' = [outage EXCEPT ![w] = TRUE]

\* A bug of the run: the verdict is recorded and never saved.
SaveForgotten(w) ==
  /\ pc[w] = "save"
  /\ pc' = [pc EXCEPT ![w] = "append"]
  /\ UNCHANGED <<rows, entries, job, pack, verdict, outage, runs, reported, minted, worldVars>>

\* save() never fails in memory.
SaveVerdict(w) ==
  /\ pc[w] = "save"
  /\ Save(verdict[w])
  /\ pc' = [pc EXCEPT ![w] = "append"]
  /\ UNCHANGED <<entries, job, pack, verdict, outage, runs, reported, minted, worldVars>>

\* A bug of build_auto_rejudge_entry: the payload is the verdict it replaces.
EntryOfPrior(w) ==
  [id         |-> verdict[w].id,
   kind       |-> "VerdictIssued",
   body       |-> IF job[w].kind = "gate" THEN verdict[w] ELSE job[w].prior,
   supersedes |-> IF job[w].kind = "gate" THEN NoEntry ELSE job[w].prior.id,
   algo       |-> "ed25519"]

\* verdict_issued_entry and build_auto_rejudge_entry, signed: a request for a
\* human is an event of its own kind, unless a re-judge asks.
EntryOf(w) ==
  [id         |-> verdict[w].id,
   kind       |-> IF job[w].kind = "gate" /\ verdict[w].decision = "RequireHuman"
                    THEN "HumanEscalationRequested"
                    ELSE "VerdictIssued",
   body       |-> verdict[w],
   supersedes |-> IF job[w].kind = "gate" THEN NoEntry ELSE job[w].prior.id,
   algo       |-> "ed25519"]

AppendEntry(w) ==
  /\ pc[w] = "append"
  /\ Ledger!AppendEntry(EntryOf(w))
  /\ Finish(w)
  /\ UNCHANGED <<rows, reported, minted, worldVars>>

\* A bug of the run: the error of append is dropped.
AppendFailsSilently(w) ==
  /\ pc[w] = "append" /\ "append" \in SeamFaults
  /\ Finish(w)
  /\ UNCHANGED <<rows, entries, reported, minted, worldVars>>

\* append fails: the error bubbles up, the saved row stays.
AppendFails(w) ==
  /\ pc[w] = "append" /\ "append" \in SeamFaults
  /\ reported' = reported \union {verdict[w].id}
  /\ Finish(w)
  /\ UNCHANGED <<rows, entries, minted, worldVars>>

Step(w) ==
  \/ BuildPack(w) \/ BuildPackFails(w)
  \/ ReviewAndJudge(w) \/ ReviewFails(w)
  \/ SaveVerdict(w)
  \/ AppendEntry(w) \/ AppendFails(w)

-----------------------------------------------------------------------------
(* The world *)

Push(pr, newHead) ==
  /\ newHead # head[pr] /\ changes < MaxChanges
  /\ changes' = changes + 1
  /\ head' = [head EXCEPT ![pr] = newHead]
  /\ UNCHANGED <<rows, entries, gateVars, clock, policy>>

ChangePolicy(newPolicy) ==
  /\ newPolicy # policy /\ changes < MaxChanges
  /\ changes' = changes + 1
  /\ policy' = newPolicy
  /\ UNCHANGED <<rows, entries, gateVars, clock, head>>

Tick ==
  /\ clock + 1 \in Times
  /\ clock' = clock + 1
  /\ UNCHANGED <<rows, entries, gateVars, head, policy, changes>>

Next ==
  \/ \E w \in Workers : Step(w)
  \/ \E w \in Workers, pr \in PRs : StartGate(w, pr)
  \/ \E w \in Workers, prior \in LiveVerdicts : StartRejudge(w, prior)
  \/ \E pr \in PRs, newHead \in Heads : Push(pr, newHead)
  \/ \E newPolicy \in Policies : ChangePolicy(newPolicy)
  \/ Tick

Spec == Init /\ [][Next]_vars

-----------------------------------------------------------------------------
(* Properties *)

TypeOK ==
  /\ RowsTypeOK
  /\ Ledger!LedgerTypeOK
  /\ clock \in Times
  /\ head \in [PRs -> Heads]
  /\ policy \in Policies
  /\ runs \in 0..MaxRuns
  /\ changes \in 0..MaxChanges
  /\ reported \subseteq VerdictId
  /\ minted \subseteq Verdict
  /\ pc \in [Workers -> {"idle", "build", "review", "save", "append"}]
  /\ job \in [Workers -> Jobs \union {None}]
  /\ pack \in [Workers -> Packs \union {None}]
  /\ verdict \in [Workers -> Verdict \union {NoVerdict}]
  /\ outage \in [Workers -> BOOLEAN]
  /\ \A w \in Workers :
       /\ pc[w] # "idle" => job[w] # None
       /\ pc[w] \in {"review", "save", "append"} => pack[w] # None
       /\ pc[w] \in {"save", "append"} => verdict[w] # NoVerdict

\* A worker that has saved a verdict of this id and not yet recorded it.
Recording(id) == \E w \in Workers : pc[w] = "append" /\ verdict[w].id = id

\* Every verdict id in the store is in the signed ledger, or a run is about to
\* put it there, or a run has told its caller that it could not: however runs
\* interleave and wherever they fail, nothing can be read from the store that
\* silently leaves no audit trail.
AuditComplete ==
  \A id \in SavedIds : id \in RecordedIds \/ Recording(id) \/ id \in reported

\* The ledger never runs ahead of the store: no id is recorded as issued under
\* which nothing was saved.
LedgerFollowsStore == RecordedIds \subseteq SavedIds

\* Where judge() has minted an id only once, the ledger records under it the
\* very verdict the store holds.
EntriesMatchRows ==
  \A i \in DOMAIN rows, k \in DOMAIN entries :
    /\ entries[k].id = rows[i].body.id
    /\ \A u, v \in minted : u.id = entries[k].id /\ v.id = u.id => u = v
    => entries[k].body = rows[i].body

\* auto_rejudge/mod.rs:7-8, for a re-judge at a later millisecond than the
\* verdict it was started for: the new verdict supersedes the prior one, as soon
\* as save() has returned.
RejudgeSupersedes ==
  \A w \in Workers :
    /\ pc[w] = "append" /\ job[w].kind = "rejudge"
    /\ verdict[w].created > job[w].prior.created
    => job[w].prior \notin LiveVerdicts

\* The store's rows and the ledger's entries are there for good, under every
\* interleaving of runs.
LedgerAppendOnly == Ledger!AppendOnly

\* auto_rejudge/mod.rs:83-85, of a re-judge whose review pass has failed: what
\* judge() makes of no receipts, and the run saves and records, is never an
\* AllowMerge.
FailureNeverAllows ==
  \A w \in Workers :
    /\ job[w] # None /\ job[w].kind = "rejudge"
    /\ outage[w] /\ pc[w] \in {"save", "append"}
    => verdict[w].decision # "AllowMerge"
=============================================================================
