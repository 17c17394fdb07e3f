---------------------------- MODULE PublishGate ----------------------------
(***************************************************************************)
(* The publish path of a verdict: the freeze calendar's hard stop, judge() *)
(* on the bundle the full-auto profile derives, the profile's resolve(),   *)
(* the kill bell's downgrade and the escalation of a RequireHuman to every *)
(* webhook.  The dispatch loop that calls these is outside the repository; *)
(* their order is the one of its integration tests.  Operators use the     *)
(* bell, the owner reloads the profile and time passes between any two     *)
(* steps of the loop.                                                      *)
(***************************************************************************)
EXTENDS Judge, RiskTiers

CONSTANTS
  Operators, Ttls, MaxTime, MaxCalls, LedgerFaults, NoOrder,   \* KillBell's
  Profiles,      \* what the owner may install: a full-auto descriptor over a
                 \* policy bundle with its freeze calendar
  Author,        \* the author's agent id
  Bodies,        \* what a build finds: [risk, conditions, ci]
  Reviews,       \* the lists of receipts a review pass may return
  NoVerdict,     \* nothing judged yet
  Webhooks,      \* EscalationConfig's webhooks, a sequence
  OnEvents       \* the event names that are escalated

\* A PolicyBundle, as far as the judge reads it.
PolicyShape(bundle) ==
  /\ DOMAIN bundle = {"hard_stops", "lanes", "rules", "quorum"}
  /\ DOMAIN bundle.quorum \subseteq Tiers
  /\ \A tier \in DOMAIN bundle.quorum :
       bundle.quorum[tier] \in
         [approvals_needed : Nat, roles : SUBSET STRING, human_required : BOOLEAN]

ASSUME PublishAssumption ==
  /\ NoAuthor # Author
  /\ \A body \in Bodies : body.risk \in Tiers
  /\ \A p \in Profiles :
       /\ PolicyShape(p.bundle)
       /\ p.descriptor.ceiling \in Tiers /\ p.descriptor.enabled \in BOOLEAN
       /\ p.calendar.windows \in Seq(FreezeWindow)
  /\ Webhooks \in Seq(STRING)

VARIABLES
  clock, history, entries, calls, stage, order,   \* KillBell's
  profile,      \* the profile in force: [descriptor, bundle, calendar]
  step,         \* where the loop stands
  verdict,      \* what it has judged: [pack, receipts, under, at, judged, decision]
  seen,         \* history: rows of the bell when it was asked
  told          \* the results of the fan-out, one per webhook tried

bellVars == <<clock, history, entries, calls, stage, order>>
loopVars == <<step, verdict, seen, told>>
vars == <<bellVars, profile, loopVars>>

Bell == INSTANCE KillBell

ASSUME BellParameters ==
  /\ Ttls \subseteq Nat /\ MaxTime \in Nat /\ MaxCalls \in Nat
  /\ NoOrder \notin Bell!Transition

\* DispatchResult: delivered, or one of the three errors of a sink, which are
\* handled alike.
Outcomes == {"ok", "error"}

Init ==
  /\ Bell!Init
  /\ profile \in {p \in Profiles : Admits(p.descriptor, p.bundle)}
  /\ step = "idle"
  /\ verdict = NoVerdict
  /\ seen = 0
  /\ told = <<>>

-----------------------------------------------------------------------------
(* The dispatch loop *)

\* Freeze check, judge() and resolve(), on a pack built just before.
JudgePack(body, written) ==
  /\ step = "idle"
  /\ LET pack == Pack(clock, "head", "policy", body)
         receipts == [i \in DOMAIN written |-> Receipt(pack, written[i])]
         judged == JudgeDecision(pack, receipts, Apply(profile.descriptor, profile.bundle), Author,
                                 FreezeStops(profile.calendar, body.risk, clock))
     IN verdict' = [pack |-> pack, receipts |-> receipts, under |-> profile, at |-> clock,
                    judged |-> judged,
                    decision |-> Resolve(profile.descriptor, body.risk, judged)]
  /\ step' = "judged"
  /\ UNCHANGED <<bellVars, profile, seen, told>>

\* downgrade_if_paused()
AskBell ==
  /\ step = "judged"
  /\ verdict' = [verdict EXCEPT !.decision = Bell!DowngradeIfPaused(@, clock)]
  /\ seen' = Len(history)
  /\ step' = "asked"
  /\ UNCHANGED <<bellVars, profile, told>>

Escalated == verdict.decision = "RequireHuman" /\ "require_human" \in OnEvents

\* The verdict is published, and a RequireHuman goes to dispatch_all(), which
\* returns at once where the configuration does not permit the event or has no
\* webhook.
Publish ==
  /\ step = "asked"
  /\ step' = IF Escalated /\ Webhooks # <<>> THEN "telling" ELSE "published"
  /\ UNCHANGED <<bellVars, profile, verdict, seen, told>>

\* A bug of dispatch_all(): the first error returns.
DeliverOrAbort(outcome) ==
  /\ step = "telling"
  /\ told' = Append(told, outcome)
  /\ step' = IF Len(told') = Len(Webhooks) \/ outcome # "ok" THEN "published" ELSE "telling"
  /\ UNCHANGED <<bellVars, profile, verdict, seen>>

\* One delivery of dispatch_all(): whatever the sink answers is recorded and the
\* next webhook is tried.
Deliver(outcome) ==
  /\ step = "telling"
  /\ told' = Append(told, outcome)
  /\ step' = IF Len(told') = Len(Webhooks) THEN "published" ELSE "telling"
  /\ UNCHANGED <<bellVars, profile, verdict, seen>>

\* The loop turns to the next pull request.
NextPullRequest ==
  /\ step = "published"
  /\ step' = "idle"
  /\ verdict' = NoVerdict
  /\ seen' = 0
  /\ told' = <<>>
  /\ UNCHANGED <<bellVars, profile>>

-----------------------------------------------------------------------------
(* Owner and operators *)

\* The owner installs another profile; one that does not validate is refused.
LoadProfile(p) ==
  /\ Admits(p.descriptor, p.bundle)
  /\ profile' = p
  /\ UNCHANGED <<bellVars, loopVars>>

BellStep ==
  /\ Bell!Next
  /\ UNCHANGED <<profile, loopVars>>

Next ==
  \/ \E body \in Bodies, written \in Reviews : JudgePack(body, written)
  \/ AskBell
  \/ Publish
  \/ \E outcome \in Outcomes : Deliver(outcome)
  \/ NextPullRequest
  \/ \E p \in Profiles : LoadProfile(p)
  \/ BellStep

Spec == Init /\ [][Next]_vars

-----------------------------------------------------------------------------
(* Properties *)

Merging == step # "idle" /\ verdict.decision = "AllowMerge"

TypeOK ==
  /\ profile \in Profiles
  /\ step \in {"idle", "judged", "asked", "telling", "published"}
  /\ step = "idle" => verdict = NoVerdict
  /\ seen \in Nat /\ seen <= Len(history)
  /\ told \in Seq(Outcomes) /\ Len(told) <= Len(Webhooks)
  /\ told # <<>> => step \in {"telling", "published"}

\* Full-auto never touches the floors (full_auto.rs:249-250, 269-279): what
\* merges is of a tier its profile makes eligible and never R5, no veto and no
\* hard stop of the bundle as authored speaks against it, and it has every
\* approval the authored bundle asks of the reviewers, though apply() rewrote
\* that bundle and the owner may have installed another since.
FloorsHold ==
  Merging =>
    LET tier == verdict.pack.risk
        bundle == verdict.under.bundle
        bound == Bound(verdict.pack, verdict.receipts)
    IN /\ tier # "R5" /\ Eligible(verdict.under.descriptor, tier)
       /\ ~HardStopped(verdict.pack, bound, bundle, {})
       /\ CountedWith(bound, bundle.rules, Author, "Block") = {}
       /\ tier \in DOMAIN bundle.quorum
       /\ QuorumMet(bundle.quorum[tier], bound, bundle.rules, Author)

\* The R5 floor does not hang on resolve() alone (full_auto.rs:240-247): under
\* whatever profile validate() let in, judge() itself allows no R5 change on the
\* derived bundle.
JudgeHoldsR5 ==
  step # "idle" /\ verdict.pack.risk = "R5" => verdict.judged # "AllowMerge"

\* Two windows of a calendar share a moment.
Overlapping(calendar) ==
  \E i, j \in DOMAIN calendar.windows :
    /\ i # j
    /\ calendar.windows[i].start < calendar.windows[j].end
    /\ calendar.windows[j].start < calendar.windows[i].end

\* No change merges that was judged within [start, end) of a window whose ceiling
\* is below its tier (freeze.rs:3-5, 12), whichever window of the calendar that
\* is, as long as no two windows overlap; where they do, only the first counts.
FreezeHolds ==
  Merging /\ verdict.under.calendar.enabled /\ ~Overlapping(verdict.under.calendar) =>
    \A i \in DOMAIN verdict.under.calendar.windows :
      LET window == verdict.under.calendar.windows[i]
      IN window.start <= verdict.at /\ verdict.at < window.end =>
           Rank[verdict.pack.risk] <= Rank[window.max]

\* The row in force is a pause that has not run out.
Ringing(i) ==
  /\ Bell!IsLatest(i)
  /\ history[i].kind = "Paused" /\ clock < history[i].expires

\* The check before the publish (kill_bell/mod.rs:204-206) leaves one gap and no
\* other: beside an AllowMerge that is past the bell the only pause in force can
\* be one that arrived after the bell was asked, though time has passed and rows
\* of other calls, earlier and later ones, have arrived since.
OnlyLatePausesAreMissed ==
  Merging /\ step # "judged" => \A i \in DOMAIN history : Ringing(i) => i > seen

\* Failures in one webhook do not abort the others (escalation/dispatch.rs:59-60):
\* when a verdict is published a RequireHuman, the bell's included, has been
\* tried on every webhook once and any other decision on none.
EveryWebhookTried ==
  step = "published" => Len(told) = IF Escalated THEN Len(Webhooks) ELSE 0
=============================================================================
