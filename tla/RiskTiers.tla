----------------------------- MODULE RiskTiers -----------------------------
(***************************************************************************)
(* The closed set of risk tiers and the two rules that compare them: the   *)
(* freeze calendar and the full-auto profile.                              *)
(*                                                                         *)
(* calendar   = [enabled : BOOLEAN, windows : sequence of FreezeWindows]   *)
(* descriptor = [enabled : BOOLEAN, ceiling : a tier]                      *)
(* bundle     = Judge's, of which only the field quorum matters here       *)
(***************************************************************************)
EXTENDS Naturals, Sequences

Rank == [R0 |-> 0, R1 |-> 1, R2 |-> 2, R3 |-> 3, R4 |-> 4, R5 |-> 5]

Tiers == DOMAIN Rank

-----------------------------------------------------------------------------
(* Freeze windows *)

FreezeWindow == [start : Nat, end : Nat, max : Tiers]

\* A bug of active_at(): the start of a window is excluded.
CoversAfterStart(window, now) == window.start < now /\ now < window.end

\* A window holds from its start until, and not at, its end.
Covers(window, now) == window.start <= now /\ now < window.end

\* active_at(): the first window that covers this moment, of an enabled
\* calendar.
ActiveAt(calendar, now, i) ==
  /\ calendar.enabled
  /\ i \in DOMAIN calendar.windows
  /\ Covers(calendar.windows[i], now)
  /\ \A j \in 1..(i - 1) : ~Covers(calendar.windows[j], now)

\* check(): the external hard stop for a change riskier than the active
\* window's ceiling.
FreezeStops(calendar, tier, now) ==
  {"freeze_window_active" : i \in {k \in DOMAIN calendar.windows :
                                     /\ ActiveAt(calendar, now, k)
                                     /\ Rank[tier] > Rank[calendar.windows[k].max]}}

-----------------------------------------------------------------------------
(* The full-auto profile *)

\* A bug of validate(): any R5 entry will do.
AdmitsAnyFloor(descriptor, bundle) ==
  descriptor.ceiling # "R5" /\ "R5" \in DOMAIN bundle.quorum

\* validate(): a ceiling below R5, over a bundle that has an R5 entry that asks
\* for a human.
Admits(descriptor, bundle) ==
  /\ descriptor.ceiling # "R5"
  /\ "R5" \in DOMAIN bundle.quorum /\ bundle.quorum["R5"].human_required

\* tier_auto_merge_eligible()
Eligible(descriptor, tier) ==
  IF descriptor.enabled
    THEN tier # "R5" /\ Rank[tier] <= Rank[descriptor.ceiling]
    ELSE tier \in {"R0", "R1", "R2"}

\* A bug of apply(): the reviewers are waived with the human.
ApplyWaiving(descriptor, bundle) ==
  IF ~descriptor.enabled
    THEN bundle
    ELSE [bundle EXCEPT !.quorum =
            [tier \in DOMAIN bundle.quorum |->
               IF Eligible(descriptor, tier)
                 THEN [bundle.quorum[tier] EXCEPT !.human_required = FALSE,
                                                  !.approvals_needed = 0]
                 ELSE bundle.quorum[tier]]]

\* apply(): the bundle to judge with. An enabled profile asks no human where a
\* tier is eligible and leaves everything else as authored.
Apply(descriptor, bundle) ==
  IF ~descriptor.enabled
    THEN bundle
    ELSE [bundle EXCEPT !.quorum =
            [tier \in DOMAIN bundle.quorum |->
               IF Eligible(descriptor, tier)
                 THEN [bundle.quorum[tier] EXCEPT !.human_required = FALSE]
                 ELSE bundle.quorum[tier]]]

\* A bug of resolve(): whatever the judge says goes.
ResolveNothing(descriptor, tier, decision) == decision

\* resolve(): an AllowMerge of a tier that is not eligible goes to a human.
Resolve(descriptor, tier, decision) ==
  IF decision = "AllowMerge" /\ ~Eligible(descriptor, tier)
    THEN "RequireHuman"
    ELSE decision
=============================================================================
