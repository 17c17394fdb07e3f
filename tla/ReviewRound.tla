----------------------------- MODULE ReviewRound -----------------------------
(***************************************************************************)
(* One review round of a pull request, as judge() sees it: packs are       *)
(* rebuilt when a commit is pushed, the policy moves or CI reports again,  *)
(* while reviewer agents hand in receipts for whichever pack they were     *)
(* given.  judge() may be called at any moment, so the round has no judge  *)
(* action: Decision is what judge() would answer in each state.            *)
(***************************************************************************)
EXTENDS Judge

CONSTANTS
  Author,       \* the author's agent id, as handed to judge()
  ReceiptForms, \* what a reviewer writes: [agent, role, decision, not_author, injection]
  PackBodies,   \* what a build finds: [risk, conditions, ci]
  Bundles,      \* policy bundles the round may be judged under
  Stops,        \* names the orchestrator may inject as external hard stops
  Heads,        \* commits
  Policies,     \* policy shas
  MaxPacks,     \* bound: packs built in one round
  MaxReceipts   \* bound: receipts handed in

ASSUME RoundAssumption ==
  /\ MaxPacks \in Nat \ {0} /\ MaxReceipts \in Nat
  /\ Author # NoAuthor
  /\ \A b \in Bundles : \A risk \in DOMAIN b.quorum : b.quorum[risk].approvals_needed \in Nat

VARIABLES
  packs,      \* the packs built so far, the current one last
  receipts,   \* the receipts handed in so far, in order of arrival
  bundle,     \* the policy bundle of the round
  external    \* the external hard stops in force

vars == <<packs, receipts, bundle, external>>

Current == packs[Len(packs)]

\* A round builds its packs at different milliseconds, here their position.
Packs == {Pack(built, head, policy, body) :
            built \in 1..MaxPacks, head \in Heads, policy \in Policies, body \in PackBodies}

Receipts == {Receipt(pack, form) : pack \in Packs, form \in ReceiptForms}

DecisionOn(list) == JudgeDecision(Current, list, bundle, Author, external)

Decision == DecisionOn(receipts)

-----------------------------------------------------------------------------
(* Steps *)

Init ==
  /\ \E head \in Heads, policy \in Policies, body \in PackBodies :
       packs = <<Pack(1, head, policy, body)>>
  /\ receipts = <<>>
  /\ bundle \in Bundles
  /\ external = {}

\* A bug of the receipt: it does not say which pack it is about.
SubmitUnbound(k, form) ==
  /\ Len(receipts) < MaxReceipts
  /\ receipts' = Append(receipts, form)
  /\ UNCHANGED <<packs, bundle, external>>

\* A receipt arrives, possibly for a pack that has been rebuilt meanwhile.
Submit(k, form) ==
  /\ Len(receipts) < MaxReceipts
  /\ receipts' = Append(receipts, Receipt(packs[k], form))
  /\ UNCHANGED <<packs, bundle, external>>

\* The pack is built again: other commit, other policy, or only other CI.
Build(head, policy, body) ==
  /\ Len(packs) < MaxPacks
  /\ packs' = Append(packs, Pack(Len(packs) + 1, head, policy, body))
  /\ UNCHANGED <<receipts, bundle, external>>

\* The orchestrator computes the external stops anew (a freeze window opens or
\* closes, a budget runs out).
InjectStops(stops) ==
  /\ external' = stops
  /\ UNCHANGED <<packs, receipts, bundle>>

Next ==
  \/ \E k \in DOMAIN packs, form \in ReceiptForms : Submit(k, form)
  \/ \E head \in Heads, policy \in Policies, body \in PackBodies : Build(head, policy, body)
  \/ \E stops \in SUBSET Stops : InjectStops(stops)

Spec == Init /\ [][Next]_vars

-----------------------------------------------------------------------------
(* Properties *)

TypeOK ==
  /\ packs \in Seq(Packs) /\ Len(packs) \in 1..MaxPacks
  /\ receipts \in Seq(Receipts) /\ Len(receipts) <= MaxReceipts
  /\ bundle \in Bundles
  /\ external \subseteq Stops

ForCurrent(r) == r.pack = Current.id

\* Receipts of the current pack that no rule keeps from counting.
Admissible(r) ==
  /\ ForCurrent(r)
  /\ bundle.rules.no_self_approval => r.agent # Author /\ r.not_author

\* Whatever else was said, and by the same agent too, in whatever order: one
\* admissible Block for the current pack keeps the pull request from merging,
\* and rejects it in every tier that has a quorum entry (quorum.rs: any Block
\* short-circuits to Vetoed).
BlockVetoes ==
  (\E i \in DOMAIN receipts : Admissible(receipts[i]) /\ receipts[i].decision = "Block")
    => /\ Decision # "AllowMerge"
       /\ Current.risk \in DOMAIN bundle.quorum => Decision = "Reject"

\* An AllowMerge stands on enough Pass receipts that were written for exactly
\* the current pack (a push or a rebuild keeps none of the earlier ones), cover
\* every required role, come from agents other than the author and, where the
\* policy asks for it, from as many distinct agents.
BackedBy(S) ==
  LET entry == bundle.quorum[Current.risk]
  IN /\ \A i \in S : Admissible(receipts[i]) /\ receipts[i].decision = "Pass"
     /\ bundle.rules.require_distinct_agent_identities =>
          \A i, j \in S : receipts[i].agent = receipts[j].agent => i = j
     /\ Cardinality(S) >= entry.approvals_needed
     /\ entry.roles \subseteq {receipts[i].role : i \in S}

AllowMergeIsBacked ==
  Decision = "AllowMerge" =>
    /\ Current.risk \in DOMAIN bundle.quorum
    /\ ~bundle.quorum[Current.risk].human_required
    /\ external = {}
    /\ \E S \in SUBSET DOMAIN receipts : BackedBy(S)

\* While pack, policy and external stops stay, no further receipt turns a
\* rejection into anything else.
RejectIsFinal ==
  [][UNCHANGED <<packs, bundle, external>> /\ Decision = "Reject"
       => Decision' = "Reject"]_vars

\* While pack, policy and external stops stay, a further receipt can take an
\* AllowMerge back only as a rejection: an agent that has approved cannot turn
\* it into a request for a human by speaking again.
AllowMergeLostOnlyToVeto ==
  [][UNCHANGED <<packs, bundle, external>> /\ Decision = "AllowMerge"
       => Decision' \in {"AllowMerge", "Reject"}]_vars

\* The order in which the same receipts arrive.
Reordered(order) == [i \in DOMAIN receipts |-> receipts[order[i]]]

Orders == {order \in [DOMAIN receipts -> DOMAIN receipts] :
             \A i, j \in DOMAIN receipts : order[i] = order[j] => i = j}

\* Every agent's admissible receipts agree, or one of them is a Block.
Consistent ==
  \A i, j \in DOMAIN receipts :
    Admissible(receipts[i]) /\ Admissible(receipts[j]) /\ receipts[i].agent = receipts[j].agent
      => \/ /\ receipts[i].role = receipts[j].role
            /\ receipts[i].decision = receipts[j].decision
         \/ \E k \in DOMAIN receipts : /\ Admissible(receipts[k])
                                       /\ receipts[k].agent = receipts[i].agent
                                       /\ receipts[k].decision = "Block"

\* The verdict does not depend on the order of arrival as long as every agent
\* speaks with one voice or blocks.
OrderFreeWhenConsistent ==
  Consistent => \A order \in Orders : DecisionOn(Reordered(order)) = Decision

\* quorum.rs:61-63 as it stands: the verdict does not depend on the order the
\* receipts arrived in.
OrderFree ==
  \A order \in Orders : DecisionOn(Reordered(order)) = Decision
=============================================================================
