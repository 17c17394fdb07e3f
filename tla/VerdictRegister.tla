--------------------------- MODULE VerdictRegister ---------------------------
(***************************************************************************)
(* What the verdict store promises its users, without its rows: for every  *)
(* pull request one current verdict or none, replaced by each newly        *)
(* published verdict, and a set of ids that can never be published again.  *)
(***************************************************************************)
EXTENDS Verdicts

CONSTANT NoVerdict

VARIABLES
  current,   \* the verdict in force for each pull request
  known      \* the ids ever published

vars == <<current, known>>

TypeOK ==
  /\ current \in [PRs -> Verdict \union {NoVerdict}]
  /\ known \subseteq VerdictId

Init ==
  /\ current = [pr \in PRs |-> NoVerdict]
  /\ known = {}

\* A verdict with a new id takes the place of the pull request's current one.
Publish(v) ==
  /\ v.id \notin known
  /\ known' = known \union {v.id}
  /\ current' = [current EXCEPT ![v.pr] = v]

\* The current verdict of one pull request is withdrawn; its id stays spent.
Withdraw(pr) ==
  /\ current[pr] # NoVerdict
  /\ current' = [current EXCEPT ![pr] = NoVerdict]
  /\ UNCHANGED known

Next ==
  \/ \E pr \in PRs, head \in Heads, policy \in Policies, decision \in GateDecisions, now \in Times :
       Publish(MintVerdict(pr, head, policy, decision, now))
  \/ \E pr \in PRs : Withdraw(pr)

Spec == Init /\ [][Next]_vars
=============================================================================
