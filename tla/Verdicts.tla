------------------------------ MODULE Verdicts ------------------------------
(***************************************************************************)
(* The gate verdict that every stateful part of jeryu-autonomy passes      *)
(* around: what a VibeGateVerdict carries as far as the store, the ledger, *)
(* the re-judge check and the auto-rejudge service can tell two verdicts   *)
(* apart, and how the judge stamps one.                                    *)
(*                                                                         *)
(* A (repo, pull_request) pair is one model value of PRs; SHAs are model   *)
(* values; time is counted in milliseconds, the resolution of the id.      *)
(***************************************************************************)
EXTENDS Naturals

CONSTANTS
  PRs,       \* (repo, pull_request) pairs
  Heads,     \* head SHAs (told apart by their last 13 alphanumerics)
  Policies,  \* policy SHAs of the target branch
  Times,     \* the milliseconds at which a verdict may be minted
  Ttl        \* verdict_ttl_minutes of the policy bundle, in the unit of Times

ASSUME TimeAssumption == Times \subseteq Nat /\ Ttl \in Nat

GateDecisions == {"AllowMerge", "RequireHuman", "Reject"}

\* mint_verdict_id: the issue millisecond and the tail of the head SHA, and
\* nothing else: neither the pull request nor the decision is part of the id.
MintVerdictId(now, head) == <<now, head>>

VerdictId == {MintVerdictId(now, head) : now \in Times, head \in Heads}

\* The verdict judge() stamps at `now` for a pack of this head and policy.
MintVerdict(pr, head, policy, decision, now) ==
  [id |-> MintVerdictId(now, head), pr |-> pr, head |-> head, policy |-> policy,
   decision |-> decision, created |-> now, expires |-> now + Ttl]

Verdict ==
  {v \in [id : VerdictId, pr : PRs, head : Heads, policy : Policies,
          decision : GateDecisions, created : Times, expires : {t + Ttl : t \in Times}] :
     v = MintVerdict(v.pr, v.head, v.policy, v.decision, v.created)}
=============================================================================
