----------------------------- MODULE QuorumRules -----------------------------
(***************************************************************************)
(* evaluate_quorum: which reviewer receipts count, and what they add up to *)
(* under the quorum entry of a risk tier.                                  *)
(*                                                                         *)
(* A receipt list is a function from positions (naturals, in the order of  *)
(* arrival) to records with (at least) the fields agent, role, decision    *)
(* and not_author: a sequence, or a sequence some of whose elements were   *)
(* dropped.  The code filters the list in place; here a filtered list is   *)
(* the set of the positions it keeps.                                      *)
(*                                                                         *)
(* rules  = [no_self_approval, require_distinct_agent_identities : BOOLEAN]*)
(* entry  = [approvals_needed : Nat, roles : SUBSET roles,                 *)
(*           human_required : BOOLEAN]                                     *)
(* quorum = a function from the tiers the policy has an entry for to their *)
(*          entries.                                                       *)
(***************************************************************************)
EXTENDS Naturals, FiniteSets

CONSTANT NoAuthor   \* author_agent: None

ReviewDecisions == {"Pass", "Concern", "Block", "Abstain"}

\* The author filter: with a named author both the name and the self-declared
\* flag are checked, without one only the flag.
MayCount(receipt, rules, author) ==
  rules.no_self_approval =>
    /\ receipt.not_author
    /\ author # NoAuthor => receipt.agent # author

Countable(receipts, rules, author) ==
  {i \in DOMAIN receipts : MayCount(receipts[i], rules, author)}

\* A Block outranks every other receipt of the same agent.
Outranked(receipts, countable, i) ==
  /\ receipts[i].decision # "Block"
  /\ \E j \in countable : /\ receipts[j].agent = receipts[i].agent
                          /\ receipts[j].decision = "Block"

\* A bug of the identity filter: first come, first counted, block or not.
DistinctFirstCome(receipts, countable) ==
  {i \in countable : \A j \in countable :
                        receipts[j].agent = receipts[i].agent => i <= j}

\* A bug of the identity filter: an agent's last word counts.
DistinctLastWord(receipts, countable) ==
  {i \in countable : \A j \in countable :
                        receipts[j].agent = receipts[i].agent => j <= i}

\* The identity filter keeps, of the receipts of one agent that are not
\* outranked, the one that arrived first.
Distinct(receipts, countable) ==
  LET eligible == {i \in countable : ~Outranked(receipts, countable, i)}
  IN {i \in eligible : \A j \in eligible :
                         receipts[j].agent = receipts[i].agent => i <= j}

Counted(receipts, rules, author) ==
  LET countable == Countable(receipts, rules, author)
  IN IF rules.require_distinct_agent_identities
       THEN Distinct(receipts, countable)
       ELSE countable

CountedWith(receipts, rules, author, decision) ==
  {i \in Counted(receipts, rules, author) : receipts[i].decision = decision}

PassingRoles(receipts, rules, author) ==
  {receipts[i].role : i \in CountedWith(receipts, rules, author, "Pass")}

QuorumMet(entry, receipts, rules, author) ==
  /\ entry.roles \subseteq PassingRoles(receipts, rules, author)
  /\ Cardinality(CountedWith(receipts, rules, author, "Pass")) >= entry.approvals_needed

\* A tier without an entry fails closed before any receipt is looked at; then a
\* block vetoes, then the roles and the count decide, and a human is asked for
\* only when the reviewers agree.
EvaluateQuorum(risk, receipts, rules, quorum, author) ==
  IF risk \notin DOMAIN quorum THEN "HumanRequired"
  ELSE IF CountedWith(receipts, rules, author, "Block") # {} THEN "Vetoed"
  ELSE IF ~QuorumMet(quorum[risk], receipts, rules, author) THEN "Insufficient"
  ELSE IF quorum[risk].human_required THEN "HumanRequired"
  ELSE "Met"
=============================================================================
