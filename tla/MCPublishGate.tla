--------------------------- MODULE MCPublishGate ---------------------------
(***************************************************************************)
(* Four profiles: full-auto to R4 without a calendar; full-auto to R3 over *)
(* two windows, one after the other; a disabled profile over two windows   *)
(* that overlap; and one whose bundle asks no human for R5, which must be  *)
(* refused.  A tier below every ceiling, one above some, and R5; one       *)
(* review too few, enough, and a veto.                                     *)
(***************************************************************************)
EXTENDS PublishGate, TLC

CONSTANTS o1, o2, a1, a2

Entry(needed, roles, human) ==
  [approvals_needed |-> needed, roles |-> roles, human_required |-> human]

PolicyBundle(human) ==
  [hard_stops |-> {"secret_scan_failed"}, lanes |-> {"ci"},
   rules |-> [no_self_approval |-> TRUE, require_distinct_agent_identities |-> TRUE],
   quorum |-> [R1 |-> Entry(1, {"security"}, FALSE),
               R3 |-> Entry(2, {"security"}, TRUE),
               R5 |-> Entry(2, {"security"}, human)]]

Profile(enabled, ceiling, human, windows) ==
  [descriptor |-> [enabled |-> enabled, ceiling |-> ceiling],
   bundle |-> PolicyBundle(human),
   calendar |-> [enabled |-> windows # <<>>, windows |-> windows]]

Window(start, end, max) == [start |-> start, end |-> end, max |-> max]

MCProfiles ==
  {Profile(TRUE, "R4", TRUE, <<>>),
   Profile(TRUE, "R3", TRUE, <<Window(0, 1, "R4"), Window(1, 2, "R1")>>),
   Profile(FALSE, "R4", TRUE, <<Window(0, 2, "R1"), Window(1, 3, "R0")>>),
   Profile(FALSE, "R4", FALSE, <<>>)}

Body(risk, conditions, conclusion) ==
  [risk |-> risk, conditions |-> conditions, ci |-> <<[lane |-> "ci", conclusion |-> conclusion]>>]

MCBodies ==
  {Body(risk, {}, "Success") : risk \in {"R1", "R3", "R5"}}
  \union {Body("R1", {"secret_scan_failed"}, "Success")}

Form(agent, role, decision) ==
  [agent |-> agent, role |-> role, decision |-> decision, not_author |-> TRUE, injection |-> FALSE]

MCReviews ==
  {<<Form(a1, "security", "Pass")>>,
   <<Form(a1, "security", "Pass"), Form(a2, "test_integrity", "Pass")>>,
   <<Form(a1, "security", "Pass"), Form(a2, "test_integrity", "Block")>>}

MCWebhooks == <<"slack", "generic_json">>

Symmetric == Permutations({o1, o2})
=============================================================================
