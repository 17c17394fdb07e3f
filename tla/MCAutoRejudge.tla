---------------------------- MODULE MCAutoRejudge ----------------------------
(***************************************************************************)
(* Two workers, two pull requests that may stand on one head, a head whose *)
(* tier needs one approval and a head whose tier needs none.               *)
(***************************************************************************)
EXTENDS AutoRejudge, TLC

CONSTANTS h1, h2, a1

MCTimes == 1..2

MCBodyOf ==
  (h1 :> [risk |-> "R1", conditions |-> {}, ci |-> <<>>]) @@
  (h2 :> [risk |-> "R0", conditions |-> {}, ci |-> <<>>])

Entry1(needed, roles) ==
  [approvals_needed |-> needed, roles |-> roles, human_required |-> FALSE]

MCBundle ==
  [hard_stops |-> {"reviewer_blocked", "secret_scan_failed"},
   lanes |-> {},
   rules |-> [no_self_approval |-> TRUE, require_distinct_agent_identities |-> TRUE],
   quorum |-> [R0 |-> Entry1(0, {}), R1 |-> Entry1(1, {"test_integrity"})]]

Form(decision) ==
  [agent |-> a1, role |-> "test_integrity", decision |-> decision,
   not_author |-> TRUE, injection |-> FALSE]

MCReviews == {<<Form("Pass")>>}

Symmetric == Permutations(Workers) \union Permutations(PRs)
=============================================================================
