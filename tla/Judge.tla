-------------------------------- MODULE Judge --------------------------------
(***************************************************************************)
(* judge(): the pure fusion of an evidence pack, the receipts bound to it, *)
(* the policy bundle and the externally computed hard stops into one gate  *)
(* decision.                                                               *)
(*                                                                         *)
(* pack   = [id, head, policy, risk,                                       *)
(*           conditions : names of the pack-local conditions it triggers,  *)
(*           ci : sequence of [lane, conclusion]]                          *)
(* receipt adds the fields pack, head and policy it is bound to, and       *)
(*           injection (it has a prompt-injection-class finding), to       *)
(*           QuorumRules' fields                                           *)
(* bundle = [hard_stops, lanes : sets of names, rules, quorum]             *)
(***************************************************************************)
EXTENDS QuorumRules, Sequences, Functions

\* A bug of verify_sha_binding: the pack id is not compared.
BoundToHead(pack, receipt) ==
  receipt.head = pack.head /\ receipt.policy = pack.policy

\* verify_sha_binding: pack id, head and policy must all be the pack's.
BoundTo(pack, receipt) ==
  /\ receipt.pack = pack.id
  /\ receipt.head = pack.head
  /\ receipt.policy = pack.policy

Bound(pack, receipts) ==
  Restrict(receipts, {i \in DOMAIN receipts : BoundTo(pack, receipts[i])})

\* build_evidence_pack: what the build found, under an id minted from the build
\* time and the head.
MintPackId(built, head) == <<built, head>>

Pack(built, head, policy, body) ==
  [id |-> MintPackId(built, head), head |-> head, policy |-> policy,
   risk |-> body.risk, conditions |-> body.conditions, ci |-> body.ci]

\* What a reviewer writes (agent, role, decision, not_author, injection), with
\* the binding fields of the pack it was given.
Receipt(pack, form) ==
  [pack |-> pack.id, head |-> pack.head, policy |-> pack.policy,
   agent |-> form.agent, role |-> form.role, decision |-> form.decision,
   not_author |-> form.not_author, injection |-> form.injection]

-----------------------------------------------------------------------------
(* The named-condition registry *)

\* Conditions the registry decides from the pack alone.
PackConditions ==
  {"evidence_missing", "evidence_signature_invalid", "secret_scan_failed",
   "secret_scan_missing", "sast_failed", "dependency_scan_failed",
   "lockfile_only_change", "coverage_threshold_lowered",
   "snapshot_mass_replacement", "changes_security_scanner_config",
   "changes_release_or_deploy_policy", "changes_agent_prompts_or_judge_policy",
   "touches_secret_handling", "removes_or_weakens_tests",
   "introduces_new_external_code_source", "lockfile_diff_without_manifest_diff"}

\* Conditions the registry knows by name but never finds true by itself: the
\* orchestrator, or the judge for the two CI ones, supplies them.
SuppliedConditions ==
  {"missing_required_ci_check", "failed_required_ci_check", "sha_drift",
   "policy_sha_drift", "missing_required_review_role", "missing_evidence_pack",
   "codeowners_not_satisfied", "freeze_window_active", "budget_exceeded",
   "training_use_required_but_disallowed", "judge_signature_invalid",
   "destructive_database_change", "dependency_count_delta_gte_5",
   "all_files_have_targeted_tests", "release_artifact_unsigned",
   "release_sbom_missing", "release_provenance_missing",
   "rollback_drill_failed"}

\* Conditions the registry decides from the bound receipts, the author's
\* included.
ReviewCondition(name, bound) ==
  \/ name = "reviewer_blocked"
       /\ \E i \in DOMAIN bound : bound[i].decision = "Block"
  \/ name = "reviewer_abstained_required"
       /\ \E i \in DOMAIN bound : bound[i].decision = "Abstain"
  \/ name = "prompt_injection_suspected"
       /\ \E i \in DOMAIN bound : bound[i].injection

Registered ==
  PackConditions \union SuppliedConditions \union
  {"reviewer_blocked", "reviewer_abstained_required", "prompt_injection_suspected"}

\* ConditionRegistry::evaluate: a requested name that the registry does not
\* know is a hit (unknown_condition:<name>).
RegistryHits(requested, pack, bound) ==
  {name \in requested :
     \/ name \notin Registered
     \/ name \in PackConditions /\ name \in pack.conditions
     \/ ReviewCondition(name, bound)}

\* ci_hard_stops: a required lane that is not reported, or whose first report
\* is anything but a success.
LaneGreen(pack, lane) ==
  \E i \in DOMAIN pack.ci :
    /\ pack.ci[i].lane = lane
    /\ \A j \in 1..(i - 1) : pack.ci[j].lane # lane
    /\ pack.ci[i].conclusion = "Success"

CiHits(pack, lanes) == {lane \in lanes : ~LaneGreen(pack, lane)}

HardStopped(pack, bound, bundle, external) ==
  \/ RegistryHits(bundle.hard_stops, pack, bound) # {}
  \/ CiHits(pack, bundle.lanes) # {}
  \/ external # {}

-----------------------------------------------------------------------------
(* The fusion *)

GateOf(quorumDecision) ==
  CASE quorumDecision = "Met" -> "AllowMerge"
    [] quorumDecision \in {"HumanRequired", "Insufficient"} -> "RequireHuman"
    [] quorumDecision = "Vetoed" -> "Reject"

\* Drop the receipts bound to another pack, let any hard stop reject, and only
\* then ask the quorum.
JudgeDecision(pack, receipts, bundle, author, external) ==
  LET bound == Bound(pack, receipts)
  IN IF HardStopped(pack, bound, bundle, external)
       THEN "Reject"
       ELSE GateOf(EvaluateQuorum(pack.risk, bound, bundle.rules, bundle.quorum, author))
=============================================================================
