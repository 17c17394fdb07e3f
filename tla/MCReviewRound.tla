---------------------------- MODULE MCReviewRound ----------------------------
(***************************************************************************)
(* Two reviewers and the author, two roles, a tier that needs one          *)
(* approval, one that needs two, and one without an entry.  The author may *)
(* deny being the author.  Two bundles: one with the default rules, a      *)
(* required lane and no reviewer_blocked hard stop, so that a Block must   *)
(* get its force from the quorum; and one without the identity filter,     *)
(* where anybody's abstention is a hard stop.                              *)
(***************************************************************************)
EXTENDS ReviewRound, TLC

CONSTANTS a1, a2

Entry(needed, roles, human) ==
  [approvals_needed |-> needed, roles |-> roles, human_required |-> human]

MCQuorum ==
  [R1 |-> Entry(1, {"test_integrity"}, FALSE),
   R2 |-> Entry(2, {"test_integrity", "security"}, FALSE)]

MCRules == [no_self_approval |-> TRUE, require_distinct_agent_identities |-> TRUE]

MCBundles ==
  {[hard_stops |-> {"secret_scan_failed", "prompt_injection_suspected"},
    lanes |-> {"ci"}, rules |-> MCRules, quorum |-> MCQuorum],
   [hard_stops |-> {"reviewer_abstained_required"},
    lanes |-> {},
    rules |-> [MCRules EXCEPT !.require_distinct_agent_identities = FALSE],
    quorum |-> MCQuorum]}

Ci(conclusion) == <<[lane |-> "ci", conclusion |-> conclusion]>>

MCPackBodies ==
  {[risk |-> "R1", conditions |-> {}, ci |-> Ci("Success")],
   [risk |-> "R2", conditions |-> {}, ci |-> Ci("Success")],
   [risk |-> "R4", conditions |-> {}, ci |-> Ci("Failure")]}

Form(agent, role, decision, honest, injection) ==
  [agent |-> agent, role |-> role, decision |-> decision,
   not_author |-> honest, injection |-> injection]

MCReceiptForms ==
  {Form(a, "test_integrity", d, TRUE, FALSE) : a \in {a1, a2}, d \in {"Pass", "Block", "Abstain"}}
  \union {Form(a, "security", "Pass", TRUE, FALSE) : a \in {a1, a2}}
  \union {Form(a, "security", "Concern", TRUE, TRUE) : a \in {a1, a2}}
  \union {Form(Author, "security", "Pass", denies, FALSE) : denies \in BOOLEAN}
  \union {Form(Author, "test_integrity", "Block", TRUE, FALSE)}

MCStops == {"freeze_window_active"}

Symmetric == Permutations({a1, a2})
=============================================================================
