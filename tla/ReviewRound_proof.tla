-------------------------- MODULE ReviewRound_proof --------------------------
(***************************************************************************)
(* Proofs about the review round, for every set of agents, receipts,       *)
(* packs and policy bundles: a block vetoes, an AllowMerge is backed, and  *)
(* what a further receipt may and may not change.                          *)
(***************************************************************************)
EXTENDS ReviewRound, FiniteSetTheorems, WellFoundedInduction, TLAPS

-----------------------------------------------------------------------------
(* Receipt lists *)

\* Positions are naturals, so a set of them has a least element.
LEMMA Least ==
  ASSUME NEW S \in SUBSET Nat, S # {}
  PROVE  \E m \in S : \A k \in S : m <= k
<1> DEFINE R == OpToRel(<, Nat)
<1>1. IsWellFoundedOn(R, Nat)
  BY NatLessThanWellFounded
<1>2. PICK m \in S : \A k \in S : <<k, m>> \notin R
  <2> HIDE DEF R
  <2> QED BY <1>1, WFMin
<1>3. \A k \in S : ~(k < m)
  BY <1>2 DEF OpToRel
<1>4. QED
  BY <1>3

\* The quorum sees a Block exactly if some receipt that may count is one: the
\* identity filter hides no agent's Block.
LEMMA BlockCounts ==
  ASSUME NEW list, DOMAIN list \subseteq Nat, NEW rules, NEW author
  PROVE  CountedWith(list, rules, author, "Block") # {}
           <=> \E i \in DOMAIN list : MayCount(list[i], rules, author) /\ list[i].decision = "Block"
<1>1. ASSUME NEW i \in DOMAIN list, MayCount(list[i], rules, author), list[i].decision = "Block"
      PROVE  CountedWith(list, rules, author, "Block") # {}
  <2> DEFINE countable == Countable(list, rules, author)
             blocks == {k \in countable : list[k].agent = list[i].agent /\ list[k].decision = "Block"}
  <2>1. i \in blocks /\ blocks \subseteq DOMAIN list
    BY <1>1 DEF Countable
  <2>2. PICK m \in blocks : \A k \in blocks : m <= k
    BY <2>1, Least
  <2>3. m \in Distinct(list, countable)
    <3>1. ~Outranked(list, countable, m)
      BY DEF Outranked
    <3>2. ASSUME NEW j \in countable, ~Outranked(list, countable, j),
                 list[j].agent = list[m].agent
          PROVE  m <= j
      <4>1. list[j].decision = "Block"
        BY <3>2 DEF Outranked
      <4>2. j \in blocks
        BY <3>2, <4>1
      <4>3. QED
        BY <2>2, <4>2
    <3>3. QED
      BY <3>1, <3>2 DEF Distinct
  <2>4. m \in Counted(list, rules, author) /\ list[m].decision = "Block"
    BY <2>3 DEF Counted
  <2>5. QED
    BY <2>4 DEF CountedWith
<1>2. ASSUME CountedWith(list, rules, author, "Block") # {}
      PROVE  \E i \in DOMAIN list : MayCount(list[i], rules, author) /\ list[i].decision = "Block"
  BY <1>2 DEF CountedWith, Counted, Distinct, Countable
<1>3. QED
  BY <1>1, <1>2

\* A list grows when receipts are handed in behind the ones it has.
Grows(list, longer) ==
  /\ DOMAIN longer \subseteq Nat /\ IsFiniteSet(DOMAIN longer)
  /\ DOMAIN list \subseteq DOMAIN longer
  /\ \A i \in DOMAIN list : longer[i] = list[i]
  /\ \A i \in DOMAIN list, j \in DOMAIN longer : j \in DOMAIN list \/ i < j

\* While nobody blocks, what counts keeps counting when receipts are handed in.
LEMMA CountedKept ==
  ASSUME NEW list, NEW longer, Grows(list, longer), NEW rules, NEW author, NEW decision,
         CountedWith(longer, rules, author, "Block") = {}
  PROVE  CountedWith(list, rules, author, decision)
           \subseteq CountedWith(longer, rules, author, decision)
<1> DEFINE countable == Countable(longer, rules, author)
<1>1. \A i \in countable : longer[i].decision # "Block"
  BY BlockCounts DEF Grows, Countable
<1>2. \A i \in countable : ~Outranked(longer, countable, i)
  BY <1>1 DEF Outranked
<1>3. Countable(list, rules, author) \subseteq countable
  BY DEF Countable, Grows
<1>4. \A i \in Countable(list, rules, author) : ~Outranked(list, Countable(list, rules, author), i)
  BY <1>1, <1>3 DEF Outranked, Grows, Countable
<1>5. Distinct(list, Countable(list, rules, author)) \subseteq Distinct(longer, countable)
  <2> SUFFICES ASSUME NEW i \in Distinct(list, Countable(list, rules, author)),
                      NEW j \in countable, longer[j].agent = longer[i].agent
               PROVE  i <= j
    BY <1>2, <1>3 DEF Distinct
  <2>1. i \in DOMAIN list /\ j \in DOMAIN longer /\ i \in Nat /\ j \in Nat
    BY DEF Distinct, Countable, Grows
  <2>2. CASE j \in DOMAIN list
    <3>1. j \in Countable(list, rules, author) /\ list[j].agent = list[i].agent
      BY <2>1, <2>2 DEF Countable, Grows
    <3>2. QED
      BY <3>1, <1>4 DEF Distinct
  <2>3. CASE j \notin DOMAIN list
    BY <2>1, <2>3 DEF Grows
  <2>4. QED
    BY <2>2, <2>3
<1>6. Counted(list, rules, author) \subseteq Counted(longer, rules, author)
  BY <1>3, <1>5 DEF Counted
<1>7. \A i \in Counted(list, rules, author) : longer[i] = list[i]
  BY DEF Counted, Distinct, Countable, Grows
<1>8. QED
  BY <1>6, <1>7 DEF CountedWith

\* No two counted receipts are of one agent when identities must be distinct,
\* and all of them are in the list and may count.
LEMMA CountedFacts ==
  ASSUME NEW list, DOMAIN list \subseteq Nat, NEW rules, NEW author
  PROVE  /\ \A i \in Counted(list, rules, author) :
              i \in DOMAIN list /\ MayCount(list[i], rules, author)
         /\ rules.require_distinct_agent_identities =>
              \A i, j \in Counted(list, rules, author) : list[i].agent = list[j].agent => i = j
<1>1. \A i \in Counted(list, rules, author) :
        i \in DOMAIN list /\ MayCount(list[i], rules, author)
  BY DEF Counted, Distinct, Countable
<1>2. ASSUME rules.require_distinct_agent_identities,
             NEW i \in Counted(list, rules, author), NEW j \in Counted(list, rules, author),
             list[i].agent = list[j].agent
      PROVE  i = j
  <2>1. i \in Distinct(list, Countable(list, rules, author))
        /\ j \in Distinct(list, Countable(list, rules, author))
    BY <1>2 DEF Counted
  <2>2. i <= j /\ j <= i
    BY <2>1, <1>2 DEF Distinct
  <2>3. i \in Nat /\ j \in Nat
    BY <1>1
  <2>4. QED
    BY <2>2, <2>3
<1>3. QED
  BY <1>1, <1>2

-----------------------------------------------------------------------------
(* The judge *)

\* When judge() allows a merge.
LEMMA WhenAllowed ==
  ASSUME NEW pack, NEW receiptList, NEW policies, NEW author, NEW stops,
         JudgeDecision(pack, receiptList, policies, author, stops) = "AllowMerge"
  PROVE  LET bound == Bound(pack, receiptList)
         IN /\ ~HardStopped(pack, bound, policies, stops)
            /\ pack.risk \in DOMAIN policies.quorum
            /\ CountedWith(bound, policies.rules, author, "Block") = {}
            /\ QuorumMet(policies.quorum[pack.risk], bound, policies.rules, author)
            /\ ~policies.quorum[pack.risk].human_required
<1> DEFINE bound == Bound(pack, receiptList)
           answer == EvaluateQuorum(pack.risk, bound, policies.rules, policies.quorum, author)
<1>1. ~HardStopped(pack, bound, policies, stops) /\ GateOf(answer) = "AllowMerge"
  BY DEF JudgeDecision
<1>2. answer \in {"HumanRequired", "Vetoed", "Insufficient", "Met"}
  BY DEF EvaluateQuorum
<1>3. answer = "Met"
  <2> HIDE DEF answer
  <2> QED BY <1>1, <1>2 DEF GateOf
<1>4. QED
  BY <1>1, <1>3 DEF EvaluateQuorum

\* When judge() rejects.
LEMMA WhenRejected ==
  ASSUME NEW pack, NEW receiptList, NEW policies, NEW author, NEW stops
  PROVE  LET bound == Bound(pack, receiptList)
         IN JudgeDecision(pack, receiptList, policies, author, stops) = "Reject"
              <=> \/ HardStopped(pack, bound, policies, stops)
                  \/ /\ pack.risk \in DOMAIN policies.quorum
                     /\ CountedWith(bound, policies.rules, author, "Block") # {}
<1> DEFINE bound == Bound(pack, receiptList)
           answer == EvaluateQuorum(pack.risk, bound, policies.rules, policies.quorum, author)
<1>1. answer = "Vetoed" <=> /\ pack.risk \in DOMAIN policies.quorum
                           /\ CountedWith(bound, policies.rules, author, "Block") # {}
  BY DEF EvaluateQuorum
<1>2. answer \in {"HumanRequired", "Vetoed", "Insufficient", "Met"}
  BY DEF EvaluateQuorum
<1>3. GateOf(answer) = "Reject" <=> answer = "Vetoed"
  <2> HIDE DEF answer
  <2> QED BY <1>2 DEF GateOf
<1>4. QED
  BY <1>1, <1>3 DEF JudgeDecision

\* Without a hard stop judge() answers what the quorum evaluates to.
LEMMA WhenNotStopped ==
  ASSUME NEW pack, NEW receiptList, NEW policies, NEW author, NEW stops
  PROVE  LET bound == Bound(pack, receiptList)
         IN ~HardStopped(pack, bound, policies, stops)
              => JudgeDecision(pack, receiptList, policies, author, stops)
                   = GateOf(EvaluateQuorum(pack.risk, bound, policies.rules, policies.quorum, author))
BY DEF JudgeDecision

\* Of a list that grows, the bound part grows.
LEMMA BoundGrows ==
  ASSUME NEW pack, NEW list, NEW longer, Grows(list, longer)
  PROVE  Grows(Bound(pack, list), Bound(pack, longer))
<1> DEFINE short == Bound(pack, list)
           long == Bound(pack, longer)
<1>1. /\ DOMAIN short = {i \in DOMAIN list : BoundTo(pack, list[i])}
      /\ \A i \in DOMAIN short : short[i] = list[i]
  BY DEF Bound, Restrict
<1>2. /\ DOMAIN long = {i \in DOMAIN longer : BoundTo(pack, longer[i])}
      /\ \A i \in DOMAIN long : long[i] = longer[i]
  BY DEF Bound, Restrict
<1>3. IsFiniteSet(DOMAIN long)
  BY <1>2, FS_Subset DEF Grows
<1> HIDE DEF short, long
<1>4. DOMAIN short \subseteq DOMAIN long
  BY <1>1, <1>2 DEF Grows
<1>5. \A i \in DOMAIN short : long[i] = short[i]
  BY <1>1, <1>2, <1>4 DEF Grows
<1>6. \A i \in DOMAIN short, j \in DOMAIN long : j \in DOMAIN short \/ i < j
  BY <1>1, <1>2 DEF Grows
<1>7. Grows(short, long)
  BY <1>2, <1>3, <1>4, <1>5, <1>6 DEF Grows
<1>8. QED
  BY <1>7 DEF short, long

\* Receipts only add hard stops.
LEMMA StopsKept ==
  ASSUME NEW pack, NEW list, NEW longer, Grows(list, longer), NEW policies, NEW stops,
         HardStopped(pack, list, policies, stops)
  PROVE  HardStopped(pack, longer, policies, stops)
<1>1. \A name : ReviewCondition(name, list) => ReviewCondition(name, longer)
  BY DEF ReviewCondition, Grows
<1>2. RegistryHits(policies.hard_stops, pack, list)
        \subseteq RegistryHits(policies.hard_stops, pack, longer)
  BY <1>1 DEF RegistryHits
<1>3. QED
  BY <1>2 DEF HardStopped

\* judge() never takes a rejection back because of a further receipt.
LEMMA RejectKept ==
  ASSUME NEW list, NEW longer, Grows(list, longer),
         NEW pack, NEW policies, NEW author, NEW stops,
         JudgeDecision(pack, list, policies, author, stops) = "Reject"
  PROVE  JudgeDecision(pack, longer, policies, author, stops) = "Reject"
<1> DEFINE short == Bound(pack, list)
           long == Bound(pack, longer)
<1>1. Grows(short, long)
  BY BoundGrows
<1>2. CASE HardStopped(pack, short, policies, stops)
  <2>1. HardStopped(pack, long, policies, stops)
    <3> HIDE DEF short, long
    <3> QED BY <1>1, <1>2, StopsKept
  <2>2. QED
    BY <2>1, WhenRejected
<1>3. CASE /\ pack.risk \in DOMAIN policies.quorum
           /\ CountedWith(short, policies.rules, author, "Block") # {}
  <2>1. CountedWith(long, policies.rules, author, "Block") # {}
    <3> HIDE DEF short, long
    <3>1. DOMAIN short \subseteq Nat /\ DOMAIN long \subseteq Nat
      BY <1>1 DEF Grows
    <3>2. PICK i \in DOMAIN short : /\ MayCount(short[i], policies.rules, author)
                                    /\ short[i].decision = "Block"
      BY <1>3, <3>1, BlockCounts
    <3>3. i \in DOMAIN long /\ long[i] = short[i]
      BY <1>1 DEF Grows
    <3>4. QED
      BY <3>1, <3>2, <3>3, BlockCounts
  <2>2. QED
    BY <1>3, <2>1, WhenRejected
<1>4. QED
  BY <1>2, <1>3, WhenRejected

\* judge() takes an AllowMerge back because of a further receipt only to reject.
LEMMA AllowKept ==
  ASSUME NEW list, NEW longer, Grows(list, longer),
         NEW pack, NEW policies, NEW author, NEW stops,
         pack.risk \in DOMAIN policies.quorum
           => policies.quorum[pack.risk].approvals_needed \in Nat,
         JudgeDecision(pack, list, policies, author, stops) = "AllowMerge"
  PROVE  JudgeDecision(pack, longer, policies, author, stops) \in {"AllowMerge", "Reject"}
<1> DEFINE short == Bound(pack, list)
           long == Bound(pack, longer)
           entry == policies.quorum[pack.risk]
           Passes(l) == CountedWith(l, policies.rules, author, "Pass")
<1>1. Grows(short, long)
  BY BoundGrows
<1>2. /\ pack.risk \in DOMAIN policies.quorum
      /\ QuorumMet(entry, short, policies.rules, author)
      /\ ~entry.human_required
  BY WhenAllowed
<1>3. SUFFICES ASSUME ~HardStopped(pack, long, policies, stops),
                      CountedWith(long, policies.rules, author, "Block") = {}
               PROVE  JudgeDecision(pack, longer, policies, author, stops) = "AllowMerge"
  BY <1>2, WhenRejected
<1> HIDE DEF short, long
<1>4. Passes(short) \subseteq Passes(long)
  BY <1>1, <1>3, CountedKept
<1>5. \A i \in Passes(short) : long[i] = short[i]
  BY <1>1 DEF Grows, CountedWith, Counted, Distinct, Countable
<1>6. PassingRoles(short, policies.rules, author) \subseteq PassingRoles(long, policies.rules, author)
  BY <1>4, <1>5 DEF PassingRoles
<1>7. Cardinality(Passes(short)) <= Cardinality(Passes(long))
      /\ Cardinality(Passes(short)) \in Nat /\ Cardinality(Passes(long)) \in Nat
  <2>1. Passes(long) \subseteq DOMAIN long
    BY DEF CountedWith, Counted, Distinct, Countable
  <2>2. IsFiniteSet(Passes(long))
    BY <1>1, <2>1, FS_Subset DEF Grows
  <2> HIDE DEF Passes
  <2>3. QED
    BY <1>4, <2>2, FS_Subset, FS_CardinalityType
<1>8. QuorumMet(entry, long, policies.rules, author)
  <2> DEFINE a == Cardinality(Passes(short))
             b == Cardinality(Passes(long))
  <2>1. a >= entry.approvals_needed
    BY <1>2 DEF QuorumMet
  <2>2. b >= entry.approvals_needed
    <3> HIDE DEF entry, Passes
    <3> QED BY <1>2, <1>7, <2>1 DEF entry
  <2>3. QED
    BY <1>2, <1>6, <2>2 DEF QuorumMet
<1>9. EvaluateQuorum(pack.risk, long, policies.rules, policies.quorum, author) = "Met"
  BY <1>2, <1>3, <1>8 DEF EvaluateQuorum
<1>10. QED
  BY <1>3, <1>9, WhenNotStopped DEF GateOf, long

-----------------------------------------------------------------------------
(* The round *)

\* Every receipt was written for a pack that was built, and carries all three
\* of its binding fields.
ReceiptsAreAsked ==
  /\ \A k \in DOMAIN packs : packs[k].id = MintPackId(k, packs[k].head)
  /\ \A i \in DOMAIN receipts : \E k \in DOMAIN packs :
       /\ receipts[i].pack = packs[k].id
       /\ receipts[i].head = packs[k].head
       /\ receipts[i].policy = packs[k].policy

RoundInv == TypeOK /\ ReceiptsAreAsked

\* The fields of a built pack.
LEMMA PackFields ==
  ASSUME NEW built, NEW head, NEW policy, NEW body
  PROVE  /\ Pack(built, head, policy, body).id = MintPackId(built, head)
         /\ Pack(built, head, policy, body).head = head
         /\ Pack(built, head, policy, body).policy = policy
BY DEF Pack

\* The binding fields of a receipt.
LEMMA ReceiptFields ==
  ASSUME NEW pack, NEW form
  PROVE  /\ Receipt(pack, form).pack = pack.id
         /\ Receipt(pack, form).head = pack.head
         /\ Receipt(pack, form).policy = pack.policy
BY DEF Receipt

LEMMA RoundInitial == Init => RoundInv
<1> SUFFICES ASSUME Init PROVE RoundInv
  OBVIOUS
<1>1. PICK head \in Heads, policy \in Policies, body \in PackBodies :
        packs = <<Pack(1, head, policy, body)>>
  BY DEF Init
<1>2. Pack(1, head, policy, body) \in Packs
  BY RoundAssumption DEF Packs
<1> DEFINE p == Pack(1, head, policy, body)
<1>3. packs \in Seq(Packs) /\ Len(packs) = 1 /\ DOMAIN packs = {1} /\ packs[1] = p
  <2> HIDE DEF p
  <2> QED BY <1>1, <1>2 DEF p
<1>4. TypeOK
  BY <1>3, RoundAssumption DEF Init, TypeOK
<1>5. p.id = MintPackId(1, p.head)
  BY PackFields
<1>6. ReceiptsAreAsked
  BY <1>3, <1>5 DEF Init, ReceiptsAreAsked
<1>7. QED
  BY <1>4, <1>6 DEF RoundInv

LEMMA SubmitPreserves ==
  ASSUME RoundInv, NEW k \in DOMAIN packs, NEW form \in ReceiptForms, Submit(k, form)
  PROVE  RoundInv'
<1> DEFINE r == Receipt(packs[k], form)
<1>1. /\ receipts' = Append(receipts, r) /\ Len(receipts) < MaxReceipts
      /\ UNCHANGED <<packs, bundle, external>>
  BY DEF Submit
<1>2. packs[k] \in Packs
  BY DEF RoundInv, TypeOK
<1>3. r \in Receipts
  BY <1>2 DEF Receipts
<1>4. r.pack = packs[k].id /\ r.head = packs[k].head /\ r.policy = packs[k].policy
  BY ReceiptFields
<1> HIDE DEF r
<1>5. /\ receipts \in Seq(Receipts)
      /\ receipts' \in Seq(Receipts) /\ Len(receipts') = Len(receipts) + 1
      /\ \A i \in 1..Len(receipts) : receipts'[i] = receipts[i]
      /\ receipts'[Len(receipts) + 1] = r
  BY <1>1, <1>3 DEF RoundInv, TypeOK
<1>6. TypeOK'
  BY <1>1, <1>5, RoundAssumption DEF RoundInv, TypeOK
<1>7. ReceiptsAreAsked'
  <2> SUFFICES ASSUME NEW i \in DOMAIN receipts'
               PROVE  \E n \in DOMAIN packs : /\ receipts'[i].pack = packs[n].id
                                              /\ receipts'[i].head = packs[n].head
                                              /\ receipts'[i].policy = packs[n].policy
    BY <1>1 DEF RoundInv, ReceiptsAreAsked
  <2>1. CASE i = Len(receipts) + 1
    BY <2>1, <1>4, <1>5
  <2>2. CASE i \in 1..Len(receipts)
    BY <2>2, <1>5 DEF RoundInv, ReceiptsAreAsked
  <2>3. QED
    BY <1>5, <2>1, <2>2
<1>8. QED
  BY <1>6, <1>7 DEF RoundInv

LEMMA BuildPreserves ==
  ASSUME RoundInv, NEW head \in Heads, NEW policy \in Policies, NEW body \in PackBodies,
         Build(head, policy, body)
  PROVE  RoundInv'
<1> DEFINE n == Len(packs) + 1
           p == Pack(n, head, policy, body)
<1>1. /\ packs' = Append(packs, p) /\ Len(packs) < MaxPacks
      /\ UNCHANGED <<receipts, bundle, external>>
  BY DEF Build
<1>2. n \in 1..MaxPacks
  BY <1>1, RoundAssumption DEF RoundInv, TypeOK
<1>3. p \in Packs
  BY <1>2 DEF Packs
<1>4. p.id = MintPackId(n, p.head)
  BY PackFields
<1> HIDE DEF p
<1>5. /\ packs \in Seq(Packs)
      /\ packs' \in Seq(Packs) /\ Len(packs') = n
      /\ \A k \in 1..Len(packs) : packs'[k] = packs[k]
      /\ packs'[n] = p
  BY <1>1, <1>3 DEF RoundInv, TypeOK
<1>6. TypeOK'
  BY <1>1, <1>2, <1>5 DEF RoundInv, TypeOK
<1>7. DOMAIN packs \subseteq DOMAIN packs' /\ DOMAIN packs' = 1..n /\ DOMAIN packs = 1..Len(packs)
  BY <1>5
<1>8. \A k \in DOMAIN packs' : packs'[k].id = MintPackId(k, packs'[k].head)
  BY <1>4, <1>5, <1>7 DEF RoundInv, ReceiptsAreAsked
<1>9. ReceiptsAreAsked'
  BY <1>1, <1>5, <1>7, <1>8 DEF RoundInv, ReceiptsAreAsked
<1>10. QED
  BY <1>6, <1>9 DEF RoundInv

LEMMA RoundInductive == RoundInv /\ [Next]_vars => RoundInv'
<1> SUFFICES ASSUME RoundInv, [Next]_vars PROVE RoundInv'
  OBVIOUS
<1>1. ASSUME NEW k \in DOMAIN packs, NEW form \in ReceiptForms, Submit(k, form)
      PROVE  RoundInv'
  BY <1>1, SubmitPreserves
<1>2. ASSUME NEW head \in Heads, NEW policy \in Policies, NEW body \in PackBodies,
             Build(head, policy, body)
      PROVE  RoundInv'
  BY <1>2, BuildPreserves
<1>3. ASSUME NEW stops \in SUBSET Stops, InjectStops(stops)
      PROVE  RoundInv'
  BY <1>3 DEF InjectStops, RoundInv, TypeOK, ReceiptsAreAsked
<1>4. CASE UNCHANGED vars
  BY <1>4 DEF vars, RoundInv, TypeOK, ReceiptsAreAsked
<1>5. QED
  BY <1>1, <1>2, <1>3, <1>4 DEF Next

LEMMA RoundInvariance == Spec => []RoundInv
BY RoundInitial, RoundInductive, PTL DEF Spec

\* Every state of a round is well typed.
THEOREM RoundTypeCorrect == Spec => []TypeOK
BY RoundInvariance, PTL DEF RoundInv

\* A receipt with the current pack's id has its head and policy too: it was
\* written for that very pack.
LEMMA ForCurrentIsBound ==
  ASSUME RoundInv, NEW i \in DOMAIN receipts, ForCurrent(receipts[i])
  PROVE  BoundTo(Current, receipts[i])
<1>1. PICK k \in DOMAIN packs : /\ receipts[i].pack = packs[k].id
                                /\ receipts[i].head = packs[k].head
                                /\ receipts[i].policy = packs[k].policy
  BY DEF RoundInv, ReceiptsAreAsked
<1>2. Len(packs) \in DOMAIN packs
  BY DEF RoundInv, TypeOK
<1>3. packs[k].id = MintPackId(k, packs[k].head)
      /\ Current.id = MintPackId(Len(packs), Current.head)
  BY <1>2 DEF RoundInv, ReceiptsAreAsked, Current
<1>4. k = Len(packs)
  <2>1. MintPackId(k, packs[k].head) = MintPackId(Len(packs), Current.head)
    BY <1>1, <1>3 DEF ForCurrent
  <2>2. QED
    BY <2>1 DEF MintPackId
<1>5. QED
  BY <1>1, <1>4 DEF BoundTo, Current

\* What the list handed to the quorum is made of.
LEMMA BoundList ==
  LET bound == Bound(Current, receipts)
  IN /\ DOMAIN bound = {i \in DOMAIN receipts : BoundTo(Current, receipts[i])}
     /\ \A i \in DOMAIN bound : bound[i] = receipts[i]
     /\ RoundInv => DOMAIN bound \subseteq Nat
BY DEF Bound, Restrict, RoundInv, TypeOK

LEMMA BlockVetoesNow == RoundInv => BlockVetoes
<1> SUFFICES ASSUME RoundInv, NEW i \in DOMAIN receipts,
                    Admissible(receipts[i]), receipts[i].decision = "Block"
             PROVE  /\ Decision # "AllowMerge"
                    /\ Current.risk \in DOMAIN bundle.quorum => Decision = "Reject"
  BY DEF BlockVetoes
<1> DEFINE bound == Bound(Current, receipts)
<1>1. i \in DOMAIN bound /\ bound[i] = receipts[i] /\ DOMAIN bound \subseteq Nat
  BY BoundList, ForCurrentIsBound DEF Admissible
<1>2. MayCount(bound[i], bundle.rules, Author)
  BY <1>1 DEF MayCount, Admissible
<1>3. CountedWith(bound, bundle.rules, Author, "Block") # {}
  <2> HIDE DEF bound
  <2> QED BY <1>1, <1>2, BlockCounts
<1>4. Decision # "AllowMerge"
  BY <1>3, WhenAllowed DEF Decision, DecisionOn
<1>5. Current.risk \in DOMAIN bundle.quorum => Decision = "Reject"
  BY <1>3, WhenRejected DEF Decision, DecisionOn
<1>6. QED
  BY <1>4, <1>5

\* In every round, whatever its agents, receipts, packs and policies, an
\* admissible Block for the current pack vetoes.
THEOREM BlocksVeto == Spec => []BlockVetoes
BY RoundInvariance, BlockVetoesNow, PTL

LEMMA AllowMergeIsBackedNow == RoundInv => AllowMergeIsBacked
<1> SUFFICES ASSUME RoundInv, Decision = "AllowMerge"
             PROVE  /\ Current.risk \in DOMAIN bundle.quorum
                    /\ ~bundle.quorum[Current.risk].human_required
                    /\ external = {}
                    /\ \E S \in SUBSET DOMAIN receipts : BackedBy(S)
  BY DEF AllowMergeIsBacked
<1> DEFINE bound == Bound(Current, receipts)
           S == CountedWith(bound, bundle.rules, Author, "Pass")
<1>1. /\ ~HardStopped(Current, bound, bundle, external)
      /\ Current.risk \in DOMAIN bundle.quorum
      /\ QuorumMet(bundle.quorum[Current.risk], bound, bundle.rules, Author)
      /\ ~bundle.quorum[Current.risk].human_required
  BY WhenAllowed DEF Decision, DecisionOn
<1>2. /\ DOMAIN bound = {i \in DOMAIN receipts : BoundTo(Current, receipts[i])}
      /\ \A i \in DOMAIN bound : bound[i] = receipts[i]
      /\ DOMAIN bound \subseteq Nat
  BY BoundList
<1> HIDE DEF bound
<1>3. /\ \A i \in S : i \in DOMAIN bound /\ MayCount(bound[i], bundle.rules, Author)
      /\ bundle.rules.require_distinct_agent_identities =>
           \A i, j \in S : bound[i].agent = bound[j].agent => i = j
  BY <1>2, CountedFacts DEF CountedWith
<1>4. \A i \in S : bound[i] = receipts[i] /\ i \in DOMAIN receipts /\ bound[i].decision = "Pass"
  BY <1>2, <1>3 DEF CountedWith
<1>5. \A i \in S : Admissible(receipts[i])
  <2> SUFFICES ASSUME NEW i \in S PROVE Admissible(receipts[i])
    OBVIOUS
  <2>1. ForCurrent(receipts[i])
    BY <1>2, <1>3 DEF BoundTo, ForCurrent
  <2>2. bundle.rules.no_self_approval => receipts[i].agent # Author /\ receipts[i].not_author
    BY <1>3, <1>4, RoundAssumption DEF MayCount
  <2>3. QED
    BY <2>1, <2>2 DEF Admissible
<1>6. bundle.rules.require_distinct_agent_identities =>
        \A i, j \in S : receipts[i].agent = receipts[j].agent => i = j
  BY <1>3, <1>4
<1>7. /\ Cardinality(S) >= bundle.quorum[Current.risk].approvals_needed
      /\ bundle.quorum[Current.risk].roles \subseteq {receipts[i].role : i \in S}
  BY <1>1, <1>4 DEF QuorumMet, PassingRoles
<1>8. S \in SUBSET DOMAIN receipts /\ BackedBy(S)
  <2> HIDE DEF S
  <2> QED BY <1>4, <1>5, <1>6, <1>7 DEF BackedBy, S
<1>9. external = {}
  BY <1>1 DEF HardStopped
<1>10. QED
  BY <1>1, <1>8, <1>9

\* In every round an AllowMerge is backed by enough admissible approvals of the
\* current pack.
THEOREM AllowMergesAreBacked == Spec => []AllowMergeIsBacked
BY RoundInvariance, AllowMergeIsBackedNow, PTL

\* A step that leaves packs, bundle and external stops alone at most hands in
\* one receipt.
LEMMA StepGrows ==
  ASSUME RoundInv, [Next]_vars, UNCHANGED <<packs, bundle, external>>
  PROVE  Grows(receipts, receipts')
<1>1. ASSUME NEW k \in DOMAIN packs, NEW form \in ReceiptForms, Submit(k, form)
      PROVE  Grows(receipts, receipts')
  <2> DEFINE r == Receipt(packs[k], form)
  <2>1. receipts' = Append(receipts, r) /\ receipts \in Seq(Receipts)
    BY <1>1 DEF Submit, RoundInv, TypeOK
  <2> HIDE DEF r
  <2>2. /\ Len(receipts) \in Nat /\ DOMAIN receipts = 1..Len(receipts)
        /\ DOMAIN receipts' = 1..(Len(receipts) + 1)
        /\ \A i \in 1..Len(receipts) : receipts'[i] = receipts[i]
    BY <2>1
  <2>3. IsFiniteSet(DOMAIN receipts')
    BY <2>2, FS_Interval
  <2>4. QED
    BY <2>2, <2>3 DEF Grows
<1>2. ASSUME receipts' = receipts
      PROVE  Grows(receipts, receipts')
  <2>1. Len(receipts) \in Nat /\ DOMAIN receipts = 1..Len(receipts)
    BY DEF RoundInv, TypeOK
  <2>2. IsFiniteSet(DOMAIN receipts)
    BY <2>1, FS_Interval
  <2>3. QED
    BY <1>2, <2>1, <2>2 DEF Grows
<1>3. ASSUME NEW head \in Heads, NEW policy \in Policies, NEW body \in PackBodies,
             Build(head, policy, body)
      PROVE  Grows(receipts, receipts')
  BY <1>2, <1>3 DEF Build
<1>4. ASSUME NEW stops \in SUBSET Stops, InjectStops(stops)
      PROVE  Grows(receipts, receipts')
  BY <1>2, <1>4 DEF InjectStops
<1>5. CASE UNCHANGED vars
  BY <1>2, <1>5 DEF vars
<1>6. QED
  BY <1>1, <1>3, <1>4, <1>5 DEF Next

LEMMA RejectStep ==
  ASSUME RoundInv, [Next]_vars
  PROVE  UNCHANGED <<packs, bundle, external>> /\ Decision = "Reject" => Decision' = "Reject"
<1> SUFFICES ASSUME UNCHANGED <<packs, bundle, external>>, Decision = "Reject"
             PROVE  Decision' = "Reject"
  OBVIOUS
<1>1. Grows(receipts, receipts')
  BY StepGrows
<1>2. JudgeDecision(Current, receipts', bundle, Author, external) = "Reject"
  BY <1>1, RejectKept DEF Decision, DecisionOn
<1>3. QED
  BY <1>2 DEF Decision, DecisionOn, Current

\* In every round a rejection outlives every further receipt for its pack.
THEOREM RejectionsAreFinal == Spec => RejectIsFinal
<1>1. RoundInv /\ [Next]_vars
        => [UNCHANGED <<packs, bundle, external>> /\ Decision = "Reject"
              => Decision' = "Reject"]_vars
  BY RejectStep
<1>2. QED
  BY <1>1, RoundInvariance, PTL DEF Spec, RejectIsFinal

LEMMA AllowStep ==
  ASSUME RoundInv, [Next]_vars
  PROVE  UNCHANGED <<packs, bundle, external>> /\ Decision = "AllowMerge"
           => Decision' \in {"AllowMerge", "Reject"}
<1> SUFFICES ASSUME UNCHANGED <<packs, bundle, external>>, Decision = "AllowMerge"
             PROVE  Decision' \in {"AllowMerge", "Reject"}
  OBVIOUS
<1>1. Grows(receipts, receipts')
  BY StepGrows
<1>2. Current.risk \in DOMAIN bundle.quorum
        => bundle.quorum[Current.risk].approvals_needed \in Nat
  BY RoundAssumption DEF RoundInv, TypeOK
<1>3. JudgeDecision(Current, receipts', bundle, Author, external) \in {"AllowMerge", "Reject"}
  BY <1>1, <1>2, AllowKept DEF Decision, DecisionOn
<1>4. QED
  BY <1>3 DEF Decision, DecisionOn, Current

\* In every round an AllowMerge is lost to a further receipt only by a veto.
THEOREM AllowMergesYieldToVetoesOnly == Spec => AllowMergeLostOnlyToVeto
<1>1. RoundInv /\ [Next]_vars
        => [UNCHANGED <<packs, bundle, external>> /\ Decision = "AllowMerge"
              => Decision' \in {"AllowMerge", "Reject"}]_vars
  BY AllowStep
<1>2. QED
  BY <1>1, RoundInvariance, PTL DEF Spec, AllowMergeLostOnlyToVeto

-----------------------------------------------------------------------------
(* The order of arrival *)

\* Every receipt of a list stands in another one, at a position of its own.
Embeds(from, to, place) ==
  /\ DOMAIN from \subseteq Nat /\ IsFiniteSet(DOMAIN from)
  /\ DOMAIN to \subseteq Nat /\ IsFiniteSet(DOMAIN to)
  /\ place \in [DOMAIN from -> DOMAIN to]
  /\ \A i, j \in DOMAIN from : place[i] = place[j] => i = j
  /\ \A i \in DOMAIN from : from[i] = to[place[i]]

\* Nobody who may count blocks, and each agent speaks with one voice.
Agreed(list, rules, author) ==
  /\ \A i \in Countable(list, rules, author) : list[i].decision # "Block"
  /\ \A i, j \in Countable(list, rules, author) :
       list[i].agent = list[j].agent
         => list[i].role = list[j].role /\ list[i].decision = list[j].decision

LEMMA CountableEmbeds ==
  ASSUME NEW from, NEW to, NEW place, Embeds(from, to, place), NEW rules, NEW author
  PROVE  \A i \in Countable(from, rules, author) :
           i \in DOMAIN from /\ place[i] \in Countable(to, rules, author)
BY DEF Embeds, Countable

\* Each Pass that counts in the one list has a Pass that counts in the other, of
\* the same agent and role, and no two of them have the same.
LEMMA PassHasPlace ==
  ASSUME NEW from, NEW to, NEW place, Embeds(from, to, place), NEW rules, NEW author,
         Agreed(to, rules, author)
  PROVE  \E f \in [CountedWith(from, rules, author, "Pass")
                     -> CountedWith(to, rules, author, "Pass")] :
           /\ \A i, j \in CountedWith(from, rules, author, "Pass") : f[i] = f[j] => i = j
           /\ \A i \in CountedWith(from, rules, author, "Pass") : to[f[i]].role = from[i].role
<1> DEFINE passes == CountedWith(from, rules, author, "Pass")
           targets == CountedWith(to, rules, author, "Pass")
<1>1. \A i \in passes : /\ i \in Countable(from, rules, author) /\ i \in Counted(from, rules, author)
                        /\ from[i].decision = "Pass"
  BY DEF CountedWith, Counted, Distinct
<1>2. \A i \in passes : /\ i \in DOMAIN from /\ place[i] \in Countable(to, rules, author)
                        /\ from[i] = to[place[i]]
  BY <1>1, CountableEmbeds DEF Embeds
<1>3. CASE ~rules.require_distinct_agent_identities
  <2>1. \A i \in passes : place[i] \in targets
    BY <1>1, <1>2, <1>3 DEF CountedWith, Counted
  <2> DEFINE f == [i \in passes |-> place[i]]
  <2>2. f \in [passes -> targets]
    BY <2>1
  <2>3. \A i, j \in passes : f[i] = f[j] => i = j
    BY <1>2 DEF Embeds
  <2>4. \A i \in passes : to[f[i]].role = from[i].role
    BY <1>2
  <2>5. QED
    BY <2>2, <2>3, <2>4
<1>4. CASE rules.require_distinct_agent_identities
  <2>1. ASSUME NEW i \in passes
        PROVE  \E m \in targets : to[m].agent = from[i].agent /\ to[m].role = from[i].role
    <3> DEFINE own == {k \in Countable(to, rules, author) : to[k].agent = from[i].agent}
    <3>1. place[i] \in own /\ own \subseteq Nat
      BY <1>2 DEF Countable, Embeds
    <3>2. PICK m \in own : \A k \in own : m <= k
      BY <3>1, Least
    <3>3. to[m].role = from[i].role /\ to[m].decision = "Pass"
      BY <1>1, <1>2, <3>1 DEF Agreed
    <3>4. m \in Distinct(to, Countable(to, rules, author))
      BY <3>2, <3>3 DEF Distinct, Outranked, Agreed
    <3>5. m \in targets
      BY <1>4, <3>3, <3>4 DEF CountedWith, Counted
    <3>6. QED
      BY <3>3, <3>5
  <2> DEFINE f == [i \in passes |-> CHOOSE m \in targets :
                                      /\ to[m].agent = from[i].agent
                                      /\ to[m].role = from[i].role]
  <2>2. \A i \in passes : /\ f[i] \in targets
                          /\ to[f[i]].agent = from[i].agent /\ to[f[i]].role = from[i].role
    BY <2>1
  <2>3. f \in [passes -> targets]
    BY <2>2
  <2> HIDE DEF f
  <2>4. ASSUME NEW i \in passes, NEW j \in passes, f[i] = f[j]
        PROVE  i = j
    <3>1. from[i].agent = from[j].agent
      BY <2>2, <2>4
    <3>2. QED
      BY <1>1, <1>4, <3>1, CountedFacts DEF Embeds
  <2>5. QED
    BY <2>2, <2>3, <2>4
<1>5. QED
  BY <1>3, <1>4

\* The quorum a list meets is met by every list that holds its receipts.
LEMMA QuorumEmbeds ==
  ASSUME NEW from, NEW to, NEW place, Embeds(from, to, place), NEW rules, NEW author,
         Agreed(to, rules, author),
         NEW entry, entry.approvals_needed \in Nat, QuorumMet(entry, from, rules, author)
  PROVE  QuorumMet(entry, to, rules, author)
<1> DEFINE passes == CountedWith(from, rules, author, "Pass")
           targets == CountedWith(to, rules, author, "Pass")
<1>1. PICK f \in [passes -> targets] :
        /\ \A i, j \in passes : f[i] = f[j] => i = j
        /\ \A i \in passes : to[f[i]].role = from[i].role
  BY PassHasPlace
<1>2. IsFiniteSet(targets)
  <2>1. targets \subseteq DOMAIN to
    BY DEF CountedWith, Counted, Distinct, Countable
  <2>2. QED
    BY <2>1, FS_Subset DEF Embeds
<1>3. PassingRoles(from, rules, author) \subseteq PassingRoles(to, rules, author)
  BY <1>1 DEF PassingRoles
<1>4. /\ Cardinality(passes) <= Cardinality(targets)
      /\ Cardinality(passes) \in Nat /\ Cardinality(targets) \in Nat
  <2> HIDE DEF passes, targets
  <2>1. f \in Injection(passes, targets)
    BY <1>1 DEF Injection, IsInjective
  <2>2. QED
    BY <1>2, <2>1, FS_Injection, FS_CardinalityType
<1>5. Cardinality(targets) >= entry.approvals_needed
  <2> DEFINE a == Cardinality(passes)
             b == Cardinality(targets)
             n == entry.approvals_needed
  <2>1. a >= n /\ a <= b /\ a \in Nat /\ b \in Nat /\ n \in Nat
    BY <1>4 DEF QuorumMet
  <2> HIDE DEF a, b, n
  <2>2. b >= n
    BY <2>1
  <2>3. QED
    BY <2>2 DEF b, n
<1>6. QED
  BY <1>3, <1>5 DEF QuorumMet

\* A stop that receipts make is made by every list that holds them.
LEMMA StopsEmbed ==
  ASSUME NEW from, NEW to, NEW place, Embeds(from, to, place), NEW pack, NEW policies,
         NEW stops, HardStopped(pack, from, policies, stops)
  PROVE  HardStopped(pack, to, policies, stops)
<1>1. \A name : ReviewCondition(name, from) => ReviewCondition(name, to)
  BY DEF ReviewCondition, Embeds
<1>2. RegistryHits(policies.hard_stops, pack, from)
        \subseteq RegistryHits(policies.hard_stops, pack, to)
  BY <1>1 DEF RegistryHits
<1>3. QED
  BY <1>2 DEF HardStopped

LEMMA BlocksEmbed ==
  ASSUME NEW from, NEW to, NEW place, Embeds(from, to, place), NEW rules, NEW author,
         CountedWith(from, rules, author, "Block") # {}
  PROVE  CountedWith(to, rules, author, "Block") # {}
<1>1. PICK i \in DOMAIN from : MayCount(from[i], rules, author) /\ from[i].decision = "Block"
  BY BlockCounts DEF Embeds
<1>2. place[i] \in DOMAIN to /\ to[place[i]] = from[i]
  BY DEF Embeds
<1>3. QED
  BY <1>1, <1>2, BlockCounts DEF Embeds

LEMMA AgreedEmbeds ==
  ASSUME NEW from, NEW to, NEW place, Embeds(from, to, place), NEW rules, NEW author,
         Agreed(to, rules, author)
  PROVE  Agreed(from, rules, author)
<1>1. \A i \in Countable(from, rules, author) :
        place[i] \in Countable(to, rules, author) /\ from[i] = to[place[i]]
  BY CountableEmbeds DEF Embeds
<1>2. QED
  BY <1>1 DEF Agreed

\* judge() answers the same on two lists of the same receipts, if one of the agents
\* blocks or none speaks with two voices.
LEMMA SameDecision ==
  ASSUME NEW one, NEW other, NEW pack, NEW policies, NEW author, NEW stops,
         NEW there, Embeds(Bound(pack, one), Bound(pack, other), there),
         NEW back, Embeds(Bound(pack, other), Bound(pack, one), back),
         pack.risk \in DOMAIN policies.quorum
           => policies.quorum[pack.risk].approvals_needed \in Nat,
         CountedWith(Bound(pack, one), policies.rules, author, "Block") = {}
           => Agreed(Bound(pack, one), policies.rules, author)
  PROVE  JudgeDecision(pack, one, policies, author, stops)
           = JudgeDecision(pack, other, policies, author, stops)
<1> DEFINE a == Bound(pack, one)
           b == Bound(pack, other)
           Evaluated(list) ==
             EvaluateQuorum(pack.risk, list, policies.rules, policies.quorum, author)
<1> HIDE DEF a, b
<1>1. Embeds(a, b, there) /\ Embeds(b, a, back)
  BY DEF a, b
<1>2. HardStopped(pack, a, policies, stops) <=> HardStopped(pack, b, policies, stops)
  BY <1>1, StopsEmbed
<1>3. CountedWith(a, policies.rules, author, "Block") = {}
        <=> CountedWith(b, policies.rules, author, "Block") = {}
  BY <1>1, BlocksEmbed
<1>4. Evaluated(a) = Evaluated(b)
  <2>1. CASE pack.risk \notin DOMAIN policies.quorum
    BY <2>1 DEF EvaluateQuorum
  <2>2. CASE CountedWith(a, policies.rules, author, "Block") # {}
    BY <1>3, <2>2 DEF EvaluateQuorum
  <2>3. CASE pack.risk \in DOMAIN policies.quorum
             /\ CountedWith(a, policies.rules, author, "Block") = {}
    <3> DEFINE entry == policies.quorum[pack.risk]
    <3>1. Agreed(a, policies.rules, author) /\ Agreed(b, policies.rules, author)
      BY <1>1, <2>3, AgreedEmbeds DEF a
    <3>2. QuorumMet(entry, a, policies.rules, author)
            <=> QuorumMet(entry, b, policies.rules, author)
      <4> HIDE DEF entry
      <4>1. entry.approvals_needed \in Nat
        BY <2>3 DEF entry
      <4>2. QED
        BY <1>1, <3>1, <4>1, QuorumEmbeds
    <3>3. QED
      BY <1>3, <2>3, <3>2 DEF EvaluateQuorum
  <2>4. QED
    BY <2>1, <2>2, <2>3
<1>5. /\ JudgeDecision(pack, one, policies, author, stops)
           = IF HardStopped(pack, a, policies, stops) THEN "Reject" ELSE GateOf(Evaluated(a))
      /\ JudgeDecision(pack, other, policies, author, stops)
           = IF HardStopped(pack, b, policies, stops) THEN "Reject" ELSE GateOf(Evaluated(b))
  BY DEF JudgeDecision, a, b
<1> HIDE DEF Evaluated
<1>6. QED
  BY <1>2, <1>4, <1>5

\* A part of one list lies in the other as the whole does.
LEMMA BoundEmbeds ==
  ASSUME NEW pack, NEW from, NEW to, NEW place, Embeds(from, to, place)
  PROVE  \E part : Embeds(Bound(pack, from), Bound(pack, to), part)
<1> DEFINE a == Bound(pack, from)
           b == Bound(pack, to)
           part == [i \in DOMAIN a |-> place[i]]
<1>1. /\ DOMAIN a = {i \in DOMAIN from : BoundTo(pack, from[i])}
      /\ \A i \in DOMAIN a : a[i] = from[i]
  BY DEF Bound, Restrict
<1>2. /\ DOMAIN b = {i \in DOMAIN to : BoundTo(pack, to[i])}
      /\ \A i \in DOMAIN b : b[i] = to[i]
  BY DEF Bound, Restrict
<1>3. IsFiniteSet(DOMAIN a) /\ IsFiniteSet(DOMAIN b)
  BY <1>1, <1>2, FS_Subset DEF Embeds
<1> HIDE DEF a, b
<1>4. \A i \in DOMAIN a : place[i] \in DOMAIN b /\ a[i] = b[place[i]]
  BY <1>1, <1>2 DEF Embeds
<1>5. Embeds(a, b, part)
  BY <1>1, <1>2, <1>3, <1>4 DEF Embeds
<1>6. QED
  BY <1>5 DEF a, b

\* A list and its reordering lie in one another.
LEMMA ReorderedEmbeds ==
  ASSUME RoundInv, NEW order \in Orders
  PROVE  /\ Embeds(Reordered(order), receipts, order)
         /\ \E back : Embeds(receipts, Reordered(order), back)
<1> DEFINE D == DOMAIN receipts
<1>1. D = 1..Len(receipts) /\ Len(receipts) \in Nat
  BY DEF RoundInv, TypeOK
<1>2. D \subseteq Nat /\ IsFiniteSet(D)
  BY <1>1, FS_Interval
<1>3. order \in [D -> D] /\ \A i, j \in D : order[i] = order[j] => i = j
  BY DEF Orders
<1>4. /\ DOMAIN Reordered(order) = D
      /\ \A i \in D : Reordered(order)[i] = receipts[order[i]]
  BY DEF Reordered
<1> HIDE DEF D
<1>5. \A i \in D : \E j \in D : order[j] = i
  <2>1. order \in Injection(D, D)
    BY <1>3 DEF Injection, IsInjective
  <2>2. order \in Surjection(D, D)
    BY <1>2, <2>1, FS_Injection
  <2>3. QED
    BY <2>2 DEF Surjection
<1> DEFINE back == [i \in D |-> CHOOSE j \in D : order[j] = i]
<1>6. \A i \in D : back[i] \in D /\ order[back[i]] = i
  BY <1>5
<1>7. back \in [D -> D]
  BY <1>6
<1> HIDE DEF back
<1>8. \A i, j \in D : back[i] = back[j] => i = j
  BY <1>6
<1>9. DOMAIN receipts = D
  BY DEF D
<1>10. Embeds(Reordered(order), receipts, order)
  BY <1>2, <1>3, <1>4, <1>9 DEF Embeds
<1>11. Embeds(receipts, Reordered(order), back)
  BY <1>2, <1>4, <1>6, <1>7, <1>8, <1>9 DEF Embeds
<1>12. QED
  BY <1>10, <1>11

LEMMA OrderFreeNow == RoundInv => OrderFreeWhenConsistent
<1> SUFFICES ASSUME RoundInv, Consistent, NEW order \in Orders
             PROVE  DecisionOn(Reordered(order)) = Decision
  BY DEF OrderFreeWhenConsistent
<1> DEFINE bound == Bound(Current, receipts)
<1>1. PICK there : Embeds(Bound(Current, receipts), Bound(Current, Reordered(order)), there)
  BY ReorderedEmbeds, BoundEmbeds
<1>2. PICK back : Embeds(Bound(Current, Reordered(order)), Bound(Current, receipts), back)
  BY ReorderedEmbeds, BoundEmbeds
<1>3. Current.risk \in DOMAIN bundle.quorum
        => bundle.quorum[Current.risk].approvals_needed \in Nat
  BY RoundAssumption DEF RoundInv, TypeOK
<1>4. /\ DOMAIN bound = {i \in DOMAIN receipts : BoundTo(Current, receipts[i])}
      /\ \A i \in DOMAIN bound : bound[i] = receipts[i]
      /\ DOMAIN bound \subseteq Nat
  BY BoundList
<1> HIDE DEF bound
<1>5. ASSUME CountedWith(bound, bundle.rules, Author, "Block") = {}
      PROVE  Agreed(bound, bundle.rules, Author)
  <2>1. \A i \in Countable(bound, bundle.rules, Author) :
          /\ i \in DOMAIN receipts /\ bound[i] = receipts[i] /\ Admissible(receipts[i])
          /\ bound[i].decision # "Block"
    <3> SUFFICES ASSUME NEW i \in Countable(bound, bundle.rules, Author)
                 PROVE  /\ i \in DOMAIN receipts /\ bound[i] = receipts[i]
                        /\ Admissible(receipts[i]) /\ bound[i].decision # "Block"
      OBVIOUS
    <3>1. i \in DOMAIN bound /\ MayCount(bound[i], bundle.rules, Author)
      BY DEF Countable
    <3>2. bound[i].decision # "Block"
      BY <1>4, <1>5, <3>1, BlockCounts
    <3>3. Admissible(receipts[i])
      BY <1>4, <3>1, RoundAssumption DEF Admissible, ForCurrent, MayCount, BoundTo
    <3>4. QED
      BY <1>4, <3>1, <3>2, <3>3
  <2>2. \A k \in DOMAIN receipts : Admissible(receipts[k]) => receipts[k].decision # "Block"
    <3> SUFFICES ASSUME NEW k \in DOMAIN receipts, Admissible(receipts[k])
                 PROVE  receipts[k].decision # "Block"
      OBVIOUS
    <3>1. k \in DOMAIN bound /\ bound[k] = receipts[k]
      BY <1>4, ForCurrentIsBound DEF Admissible
    <3>2. MayCount(bound[k], bundle.rules, Author)
      BY <3>1 DEF MayCount, Admissible
    <3>3. QED
      BY <1>4, <1>5, <3>1, <3>2, BlockCounts
  <2>3. QED
    BY <2>1, <2>2 DEF Agreed, Consistent
<1>6. QED
  BY <1>1, <1>2, <1>3, <1>5, SameDecision DEF Decision, DecisionOn, bound

\* In every round whose agents each speak with one voice, or block, judge() answers
\* the same in whatever order their receipts arrived.
THEOREM OrderOfArrivalIsNoMatter == Spec => []OrderFreeWhenConsistent
BY RoundInvariance, OrderFreeNow, PTL
=============================================================================
