-------------------------- MODULE PublishGate_proof --------------------------
(***************************************************************************)
(* Proofs about the publish path, for all profiles, calendars, packs and   *)
(* receipts and any number of operators: what merges respects the floors   *)
(* and the freeze calendar, and the bell misses late pauses only.          *)
(***************************************************************************)
EXTENDS PublishGate, TLAPS

\* What the loop holds of the bell: a clock, and rows and orders of its type.
BellShape ==
  /\ clock \in 0..MaxTime
  /\ history \in Seq(Bell!Transition)
  /\ calls \in Nat
  /\ stage \in [Operators -> {"idle", "append", "push"}]
  /\ order \in [Operators -> Bell!Transition \union {NoOrder}]
  /\ \A o \in Operators : stage[o] # "idle" => order[o] # NoOrder

ProfileShape == profile \in Profiles /\ Admits(profile.descriptor, profile.bundle)

\* A verdict is judge()'s on the bundle its profile derives and with the stops
\* of its calendar, resolved, and then downgraded or not.
Judged ==
  LET under == verdict.under
  IN /\ DOMAIN verdict = {"pack", "receipts", "under", "at", "judged", "decision"}
     /\ under \in Profiles /\ Admits(under.descriptor, under.bundle)
     /\ verdict.at \in Nat /\ verdict.pack.risk \in Tiers
     /\ verdict.judged =
          JudgeDecision(verdict.pack, verdict.receipts, Apply(under.descriptor, under.bundle),
                        Author, FreezeStops(under.calendar, verdict.pack.risk, verdict.at))
     /\ verdict.decision \in
          {Resolve(under.descriptor, verdict.pack.risk, verdict.judged), "RequireHuman"}

VerdictShape == step # "idle" => Judged

\* Where the fan-out stands.
Telling ==
  /\ step \in {"idle", "judged", "asked", "telling", "published"}
  /\ step = "idle" => verdict = NoVerdict
  /\ told \in Seq(Outcomes)
  /\ step \in {"idle", "judged", "asked"} => told = <<>>
  /\ step = "telling" => Escalated /\ Len(told) < Len(Webhooks)
  /\ EveryWebhookTried

\* The bell was asked about a prefix of its history.
Asked == seen \in Nat /\ seen <= Len(history)

\* The inductive invariant.
GateInv ==
  BellShape /\ ProfileShape /\ VerdictShape /\ Telling /\ Asked /\ OnlyLatePausesAreMissed

-----------------------------------------------------------------------------
(* The judge, the profile and the calendar *)

\* When judge() allows a merge.
LEMMA WhenAllowed ==
  ASSUME NEW pack, NEW list, NEW bundle, NEW stops,
         JudgeDecision(pack, list, bundle, Author, stops) = "AllowMerge"
  PROVE  LET bound == Bound(pack, list)
         IN /\ ~HardStopped(pack, bound, bundle, stops)
            /\ pack.risk \in DOMAIN bundle.quorum
            /\ CountedWith(bound, bundle.rules, Author, "Block") = {}
            /\ QuorumMet(bundle.quorum[pack.risk], bound, bundle.rules, Author)
            /\ ~bundle.quorum[pack.risk].human_required
<1> DEFINE bound == Bound(pack, list)
           answer == EvaluateQuorum(pack.risk, bound, bundle.rules, bundle.quorum, Author)
<1>1. ~HardStopped(pack, bound, bundle, stops) /\ GateOf(answer) = "AllowMerge"
  BY DEF JudgeDecision
<1>2. answer \in {"HumanRequired", "Vetoed", "Insufficient", "Met"}
  BY DEF EvaluateQuorum
<1>3. answer = "Met"
  <2> HIDE DEF answer
  <2> QED BY <1>1, <1>2 DEF GateOf
<1>4. QED
  BY <1>1, <1>3 DEF EvaluateQuorum

\* apply() relaxes who is asked, never what must hold: lanes, hard stops, rules
\* and the approvals of every tier are the authored ones, and R5 keeps its human.
LEMMA ApplyKeepsFloors ==
  ASSUME NEW d, NEW bundle, PolicyShape(bundle), NEW pack, NEW bound, NEW stops
  PROVE  LET derived == Apply(d, bundle)
         IN /\ HardStopped(pack, bound, derived, stops) <=> HardStopped(pack, bound, bundle, stops)
            /\ CountedWith(bound, derived.rules, Author, "Block")
                 = CountedWith(bound, bundle.rules, Author, "Block")
            /\ DOMAIN derived.quorum = DOMAIN bundle.quorum
            /\ \A tier \in DOMAIN bundle.quorum :
                 /\ QuorumMet(derived.quorum[tier], bound, derived.rules, Author)
                      <=> QuorumMet(bundle.quorum[tier], bound, bundle.rules, Author)
                 /\ ~Eligible(d, tier) =>
                      derived.quorum[tier].human_required = bundle.quorum[tier].human_required
<1> DEFINE derived == Apply(d, bundle)
           relaxed == [tier \in DOMAIN bundle.quorum |->
                         IF Eligible(d, tier)
                           THEN [bundle.quorum[tier] EXCEPT !.human_required = FALSE]
                           ELSE bundle.quorum[tier]]
<1>1. CASE ~d.enabled
  BY <1>1 DEF Apply
<1>2. CASE d.enabled
  <2>1. derived = [bundle EXCEPT !.quorum = relaxed]
    BY <1>2 DEF Apply
  <2>2. /\ derived.hard_stops = bundle.hard_stops /\ derived.lanes = bundle.lanes
        /\ derived.rules = bundle.rules /\ derived.quorum = relaxed
    BY <2>1 DEF PolicyShape
  <2>3. DOMAIN relaxed = DOMAIN bundle.quorum
    OBVIOUS
  <2>4. ASSUME NEW tier \in DOMAIN bundle.quorum
        PROVE  /\ relaxed[tier].roles = bundle.quorum[tier].roles
               /\ relaxed[tier].approvals_needed = bundle.quorum[tier].approvals_needed
               /\ ~Eligible(d, tier) =>
                    relaxed[tier].human_required = bundle.quorum[tier].human_required
    BY DEF PolicyShape
  <2> HIDE DEF derived, relaxed
  <2>5. HardStopped(pack, bound, derived, stops) <=> HardStopped(pack, bound, bundle, stops)
    BY <2>2 DEF HardStopped
  <2>6. QED
    BY <2>2, <2>3, <2>4, <2>5 DEF derived, QuorumMet
<1>3. QED
  BY <1>1, <1>2

\* Without an overlap the window that covers a moment is the active one.
LEMMA OneActive ==
  ASSUME NEW calendar, calendar.enabled, ~Overlapping(calendar), NEW at \in Nat,
         calendar.windows \in Seq(FreezeWindow),
         NEW i \in DOMAIN calendar.windows, Covers(calendar.windows[i], at)
  PROVE  ActiveAt(calendar, at, i)
<1>1. \A k \in DOMAIN calendar.windows :
        calendar.windows[k] \in FreezeWindow
  OBVIOUS
<1>2. i \in Nat /\ DOMAIN calendar.windows = 1..Len(calendar.windows)
  OBVIOUS
<1>3. ASSUME NEW j \in 1..(i - 1), Covers(calendar.windows[j], at)
      PROVE  FALSE
  <2>1. j \in DOMAIN calendar.windows /\ j # i
    BY <1>2
  <2>2. /\ calendar.windows[i].start < calendar.windows[j].end
        /\ calendar.windows[j].start < calendar.windows[i].end
    BY <1>1, <1>3, <2>1 DEF Covers, FreezeWindow
  <2>3. QED
    BY <2>1, <2>2 DEF Overlapping
<1>4. QED
  BY <1>3 DEF ActiveAt

\* What a verdict that merges says of the change, of the profile it was judged
\* under and of the time.
LEMMA WhenMerging ==
  ASSUME Judged, verdict.decision = "AllowMerge"
  PROVE  /\ verdict.judged = "AllowMerge"
         /\ Eligible(verdict.under.descriptor, verdict.pack.risk)
BY DEF Judged, Resolve

LEMMA NeverR5 ==
  ASSUME Judged, verdict.pack.risk = "R5"
  PROVE  verdict.judged # "AllowMerge"
<1> SUFFICES ASSUME verdict.judged = "AllowMerge" PROVE FALSE
  OBVIOUS
<1> DEFINE d == verdict.under.descriptor
           bundle == verdict.under.bundle
<1>1. PolicyShape(bundle) /\ d.ceiling \in Tiers /\ Admits(d, bundle)
  BY PublishAssumption DEF Judged
<1>2. ~Eligible(d, "R5")
  BY DEF Eligible
<1>3. Apply(d, bundle).quorum["R5"].human_required
  BY <1>1, <1>2, ApplyKeepsFloors DEF Admits
<1>4. ~Apply(d, bundle).quorum["R5"].human_required
  BY WhenAllowed DEF Judged
<1>5. QED
  BY <1>3, <1>4

LEMMA FloorsFromJudge == VerdictShape => FloorsHold
<1> SUFFICES ASSUME VerdictShape, Merging PROVE FloorsHold
  BY DEF FloorsHold
<1> DEFINE tier == verdict.pack.risk
           d == verdict.under.descriptor
           bundle == verdict.under.bundle
           stops == FreezeStops(verdict.under.calendar, tier, verdict.at)
           bound == Bound(verdict.pack, verdict.receipts)
           derived == Apply(d, bundle)
<1>1. Judged /\ verdict.decision = "AllowMerge"
  BY DEF VerdictShape, Merging
<1>2. /\ JudgeDecision(verdict.pack, verdict.receipts, derived, Author, stops) = "AllowMerge"
      /\ Eligible(d, tier)
  BY <1>1, WhenMerging DEF Judged
<1>3. PolicyShape(bundle)
  BY <1>1, PublishAssumption DEF Judged
<1>4. /\ ~HardStopped(verdict.pack, bound, derived, stops)
      /\ tier \in DOMAIN derived.quorum
      /\ CountedWith(bound, derived.rules, Author, "Block") = {}
      /\ QuorumMet(derived.quorum[tier], bound, derived.rules, Author)
  <2> HIDE DEF stops, derived
  <2> QED BY <1>2, WhenAllowed
<1> HIDE DEF tier, d, bundle, stops, bound, derived
<1>5. /\ ~HardStopped(verdict.pack, bound, bundle, stops)
      /\ tier \in DOMAIN bundle.quorum
      /\ CountedWith(bound, bundle.rules, Author, "Block") = {}
      /\ QuorumMet(bundle.quorum[tier], bound, bundle.rules, Author)
  BY <1>3, <1>4, ApplyKeepsFloors DEF derived
<1>6. ~HardStopped(verdict.pack, bound, bundle, {})
  BY <1>5 DEF HardStopped
<1>7. tier # "R5"
  BY <1>2 DEF Eligible
<1>8. QED
  BY <1>2, <1>5, <1>6, <1>7 DEF FloorsHold, tier, d, bundle, bound

LEMMA R5FromJudge == VerdictShape => JudgeHoldsR5
BY NeverR5 DEF VerdictShape, JudgeHoldsR5

LEMMA FreezeFromJudge == VerdictShape => FreezeHolds
<1> SUFFICES ASSUME VerdictShape, Merging,
                    verdict.under.calendar.enabled, ~Overlapping(verdict.under.calendar),
                    NEW i \in DOMAIN verdict.under.calendar.windows,
                    Covers(verdict.under.calendar.windows[i], verdict.at)
             PROVE  Rank[verdict.pack.risk] <= Rank[verdict.under.calendar.windows[i].max]
  BY DEF FreezeHolds, Covers
<1> DEFINE calendar == verdict.under.calendar
           tier == verdict.pack.risk
           stops == FreezeStops(calendar, tier, verdict.at)
           derived == Apply(verdict.under.descriptor, verdict.under.bundle)
<1>1. Judged /\ verdict.decision = "AllowMerge"
  BY DEF VerdictShape, Merging
<1>2. /\ calendar.windows \in Seq(FreezeWindow)
      /\ tier \in Tiers /\ verdict.at \in Nat
  BY <1>1, PublishAssumption DEF Judged
<1>3. ActiveAt(calendar, verdict.at, i)
  BY <1>2, OneActive
<1>4. JudgeDecision(verdict.pack, verdict.receipts, derived, Author, stops) = "AllowMerge"
  BY <1>1, WhenMerging DEF Judged
<1>5. ~HardStopped(verdict.pack, Bound(verdict.pack, verdict.receipts), derived, stops)
  <2> HIDE DEF stops, derived
  <2> QED BY <1>4, WhenAllowed
<1>6. stops = {}
  <2> HIDE DEF stops, derived
  <2> QED BY <1>5 DEF HardStopped
<1>7. ~(Rank[tier] > Rank[calendar.windows[i].max])
  BY <1>3, <1>6 DEF FreezeStops
<1>8. calendar.windows[i] \in FreezeWindow
  BY <1>2
<1>9. calendar.windows[i].max \in Tiers
  BY <1>8 DEF FreezeWindow
<1>10. Rank[tier] \in Nat /\ Rank[calendar.windows[i].max] \in Nat
  BY <1>2, <1>9 DEF Tiers, Rank
<1>11. QED
  BY <1>7, <1>10

-----------------------------------------------------------------------------
(* The bell *)

LEMMA Rows ==
  ASSUME BellShape
  PROVE  /\ Len(history) \in Nat /\ DOMAIN history = 1..Len(history)
         /\ \A i \in DOMAIN history : /\ history[i] \in Bell!Transition
                                      /\ history[i].at \in Nat /\ history[i].expires \in Nat
<1>1. history \in Seq(Bell!Transition)
  BY DEF BellShape
<1>2. \A i \in DOMAIN history : history[i] \in Bell!Transition
  BY <1>1
<1>3. \A row \in Bell!Transition : row.at \in Nat /\ row.expires \in Nat
  BY BellParameters DEF Bell!Transition
<1>4. QED
  BY <1>1, <1>2, <1>3

\* A step of the bell lets time pass, or lets a row arrive, or neither.
Moves ==
  \/ /\ clock' \in 0..MaxTime /\ clock <= clock'
     /\ UNCHANGED history
  \/ /\ \E row \in Bell!Transition : history' = Append(history, row)
     /\ UNCHANGED clock

LEMMA BellMoves ==
  ASSUME BellShape, Bell!Next
  PROVE  BellShape' /\ Moves
<1>1. clock \in Nat /\ clock <= MaxTime
  BY BellParameters DEF BellShape
<1>2. CASE Bell!Tick
  BY <1>1, <1>2, BellParameters DEF Bell!Tick, BellShape, Moves
<1>3. ASSUME NEW o \in Operators, NEW kind \in {"Armed", "Paused"},
             NEW expires \in 0..MaxTime, Bell!Call(o, kind, expires)
      PROVE  BellShape' /\ Moves
  <2> DEFINE row == [kind |-> kind, at |-> clock, expires |-> expires, call |-> calls + 1]
  <2>1. row \in Bell!Transition /\ row # NoOrder
    BY <1>3, BellParameters DEF Bell!Call, Bell!Transition, BellShape
  <2>2. /\ order' = [order EXCEPT ![o] = row] /\ stage' = [stage EXCEPT ![o] = "append"]
        /\ calls' = calls + 1 /\ UNCHANGED <<clock, history>>
    BY <1>3 DEF Bell!Call
  <2> HIDE DEF row
  <2>3. QED
    BY <1>1, <2>1, <2>2 DEF BellShape, Moves
<1>4. ASSUME NEW o \in Operators, Bell!PushRow(o)
      PROVE  BellShape' /\ Moves
  <2>1. order[o] \in Bell!Transition
    BY <1>4 DEF Bell!PushRow, BellShape
  <2>2. history' = Append(history, order[o]) /\ history' \in Seq(Bell!Transition)
    BY <1>4, <2>1 DEF Bell!PushRow, BellShape
  <2>3. QED
    BY <1>4, <2>1, <2>2 DEF Bell!PushRow, Bell!Return, BellShape, Moves
<1>5. ASSUME NEW o \in Operators, Bell!AppendEvent(o) \/ Bell!AppendFails(o)
      PROVE  BellShape' /\ Moves
  BY <1>1, <1>5 DEF Bell!AppendEvent, Bell!AppendFails, Bell!Return, BellShape, Moves
<1>6. ASSUME NEW o \in Operators, NEW ttl \in Ttls, Bell!Pause(o, ttl)
      PROVE  BellShape' /\ Moves
  <2>1. clock + ttl \in 0..MaxTime
    BY <1>1, <1>6, BellParameters DEF Bell!Pause
  <2>2. QED
    BY <1>3, <1>6, <2>1 DEF Bell!Pause
<1>7. ASSUME NEW o \in Operators, Bell!Resume(o)
      PROVE  BellShape' /\ Moves
  <2>1. clock \in 0..MaxTime
    BY DEF BellShape
  <2>2. QED
    BY <1>3, <1>7, <2>1 DEF Bell!Resume
<1>8. QED
  BY <1>2, <1>4, <1>5, <1>6, <1>7 DEF Bell!Next, Bell!OperatorStep

\* A pause that rings at a row the loop has seen rang before the step: time and
\* rows that arrive silence a row and never make it ring.
LEMMA SeenStaySilent ==
  ASSUME BellShape, BellShape', Moves, NEW i \in DOMAIN history, Ringing(i)'
  PROVE  Ringing(i)
<1>1. clock \in Nat /\ clock' \in Nat
  BY BellParameters DEF BellShape
<1>2. \A j \in DOMAIN history : history[j].at \in Nat /\ history[j].expires \in Nat
  BY Rows
<1>3. CASE clock <= clock' /\ UNCHANGED history
  BY <1>1, <1>2, <1>3 DEF Ringing, Bell!IsLatest
<1>4. ASSUME NEW row \in Bell!Transition, history' = Append(history, row), UNCHANGED clock
      PROVE  Ringing(i)
  <2>1. /\ DOMAIN history \subseteq DOMAIN history'
        /\ \A j \in DOMAIN history : history'[j] = history[j]
    BY <1>4, Rows DEF BellShape
  <2>2. QED
    BY <1>4, <2>1 DEF Ringing, Bell!IsLatest
<1>5. QED
  BY <1>3, <1>4 DEF Moves

\* What rings is what downgrade_if_paused() reads.
LEMMA RingingIsHeard ==
  ASSUME BellShape, NEW i \in DOMAIN history, Ringing(i)
  PROVE  Bell!IsPaused(clock)
<1>1. \A j \in DOMAIN history : Bell!IsLatest(j) => j = i
  BY Rows DEF Ringing, Bell!IsLatest
<1>2. (CHOOSE j \in DOMAIN history : Bell!IsLatest(j)) = i
  BY <1>1 DEF Ringing
<1>3. history # <<>> /\ history[i] # NoOrder
  BY Rows, BellParameters
<1>4. Bell!InForce = history[i]
  BY <1>2, <1>3 DEF Bell!InForce
<1>5. QED
  BY <1>3, <1>4 DEF Bell!IsPaused, Ringing

-----------------------------------------------------------------------------
(* One lemma per action *)

LEMMA GateInitial == Init => GateInv
<1> SUFFICES ASSUME Init PROVE GateInv
  OBVIOUS
<1>1. BellShape
  BY BellParameters DEF Init, Bell!Init, BellShape
<1>2. QED
  BY <1>1 DEF Init, Bell!Init, GateInv, ProfileShape, VerdictShape, Telling, EveryWebhookTried,
              Asked, OnlyLatePausesAreMissed, Merging

LEMMA JudgePackPreserves ==
  ASSUME GateInv, NEW body \in Bodies, NEW written \in Reviews, JudgePack(body, written)
  PROVE  GateInv'
<1> DEFINE pack == Pack(clock, "head", "policy", body)
           receipts == [i \in DOMAIN written |-> Receipt(pack, written[i])]
           judged == JudgeDecision(pack, receipts, Apply(profile.descriptor, profile.bundle),
                                   Author, FreezeStops(profile.calendar, body.risk, clock))
<1>1. /\ verdict' = [pack |-> pack, receipts |-> receipts, under |-> profile, at |-> clock,
                     judged |-> judged,
                     decision |-> Resolve(profile.descriptor, body.risk, judged)]
      /\ step = "idle" /\ step' = "judged"
      /\ UNCHANGED <<bellVars, profile, seen, told>>
  BY DEF JudgePack
<1>2. pack.risk = body.risk /\ body.risk \in Tiers
  BY PublishAssumption DEF Pack
<1>3. clock \in Nat
  BY BellParameters DEF GateInv, BellShape
<1>4. Judged'
  <2> HIDE DEF pack, receipts
  <2>1. /\ verdict'.pack = pack /\ verdict'.receipts = receipts /\ verdict'.under = profile
        /\ verdict'.at = clock /\ verdict'.judged = judged
        /\ DOMAIN verdict' = {"pack", "receipts", "under", "at", "judged", "decision"}
        /\ verdict'.decision = Resolve(profile.descriptor, body.risk, judged)
    BY <1>1
  <2>2. QED
    BY <1>2, <1>3, <2>1 DEF Judged, GateInv, ProfileShape
<1> HIDE DEF pack, receipts, judged
<1>5. BellShape'
  BY <1>1 DEF GateInv, BellShape, bellVars
<1>6. Telling'
  BY <1>1 DEF GateInv, Telling, EveryWebhookTried
<1>7. ProfileShape' /\ Asked' /\ OnlyLatePausesAreMissed'
  BY <1>1 DEF GateInv, ProfileShape, Asked, OnlyLatePausesAreMissed, bellVars
<1>8. QED
  BY <1>4, <1>5, <1>6, <1>7 DEF GateInv, VerdictShape

\* Past the bell, an AllowMerge has no pause beside it that rings.
LEMMA AskBellPreserves ==
  ASSUME GateInv, AskBell
  PROVE  GateInv'
<1> DEFINE answer == Bell!DowngradeIfPaused(verdict.decision, clock)
<1>1. /\ verdict' = [verdict EXCEPT !.decision = answer]
      /\ seen' = Len(history)
      /\ step = "judged" /\ step' = "asked"
      /\ UNCHANGED <<bellVars, profile, told>>
  BY DEF AskBell
<1>2. Judged
  BY <1>1 DEF GateInv, VerdictShape
<1>3. /\ DOMAIN verdict' = DOMAIN verdict
      /\ verdict'.decision = answer
      /\ verdict'.pack = verdict.pack /\ verdict'.receipts = verdict.receipts
      /\ verdict'.under = verdict.under /\ verdict'.at = verdict.at
      /\ verdict'.judged = verdict.judged
  BY <1>1, <1>2 DEF Judged
<1>4. answer \in {verdict.decision, "RequireHuman"}
  BY DEF Bell!DowngradeIfPaused
<1>5. Judged'
  <2> HIDE DEF answer
  <2> QED BY <1>2, <1>3, <1>4 DEF Judged
<1>6. BellShape' /\ UNCHANGED history
  BY <1>1 DEF GateInv, BellShape, bellVars
<1>7. Asked'
  BY <1>1, <1>6, Rows DEF GateInv, Asked
<1>8. OnlyLatePausesAreMissed'
  <2> SUFFICES ASSUME Merging', NEW i \in DOMAIN history, Ringing(i)'
               PROVE  FALSE
    BY <1>6 DEF OnlyLatePausesAreMissed
  <2>1. Ringing(i)
    BY <1>1 DEF Ringing, Bell!IsLatest, bellVars
  <2>2. answer = "RequireHuman"
    BY <2>1, RingingIsHeard DEF Bell!DowngradeIfPaused, GateInv
  <2> HIDE DEF answer
  <2>3. QED
    BY <1>3, <2>2 DEF Merging
<1>9. Telling'
  BY <1>1 DEF GateInv, Telling, EveryWebhookTried
<1>10. ProfileShape'
  BY <1>1 DEF GateInv, ProfileShape
<1>11. QED
  BY <1>1, <1>5, <1>6, <1>7, <1>8, <1>9, <1>10 DEF GateInv, VerdictShape

\* The fan-out, the next pull request and another profile leave bell and verdict
\* alone, or forget the verdict.
LEMMA LoopPreserves ==
  ASSUME GateInv, UNCHANGED bellVars, ProfileShape', Telling',
         \/ UNCHANGED <<verdict, seen>> /\ (step' = "judged" <=> step = "judged")
                                       /\ (step' = "idle" <=> step = "idle")
         \/ step' = "idle" /\ seen' = 0
  PROVE  GateInv'
<1>1. BellShape'
  BY DEF GateInv, BellShape, bellVars
<1>2. Asked'
  BY Rows DEF GateInv, Asked, bellVars
<1>3. VerdictShape'
  BY DEF GateInv, VerdictShape, Judged
<1>4. OnlyLatePausesAreMissed'
  BY DEF GateInv, OnlyLatePausesAreMissed, Merging, Ringing, Bell!IsLatest, bellVars
<1>5. QED
  BY <1>1, <1>2, <1>3, <1>4 DEF GateInv

LEMMA PublishPreserves ==
  ASSUME GateInv, Publish
  PROVE  GateInv'
<1>1. Len(Webhooks) \in Nat /\ (Webhooks # <<>> <=> Len(Webhooks) > 0)
  BY PublishAssumption
<1>2. told = <<>>
  BY DEF GateInv, Telling, Publish
<1>3. Telling'
  BY <1>1, <1>2 DEF GateInv, Telling, EveryWebhookTried, Escalated, Publish
<1>4. QED
  BY <1>3, LoopPreserves DEF Publish, GateInv, ProfileShape

LEMMA DeliverPreserves ==
  ASSUME GateInv, NEW outcome \in Outcomes, Deliver(outcome)
  PROVE  GateInv'
<1>1. Len(Webhooks) \in Nat
  BY PublishAssumption
<1>2. /\ told' = Append(told, outcome) /\ told \in Seq(Outcomes)
      /\ Len(told) < Len(Webhooks) /\ Escalated
      /\ step' = IF Len(told') = Len(Webhooks) THEN "published" ELSE "telling"
      /\ UNCHANGED <<bellVars, profile, verdict, seen>>
  BY DEF GateInv, Telling, Deliver
<1>3. told' \in Seq(Outcomes) /\ Len(told') = Len(told) + 1 /\ Len(told) \in Nat
  BY <1>2
<1>4. Telling'
  BY <1>1, <1>2, <1>3 DEF Telling, EveryWebhookTried, Escalated
<1>5. QED
  BY <1>2, <1>4, LoopPreserves DEF GateInv, ProfileShape, Deliver

LEMMA GateInductive == GateInv /\ [Next]_vars => GateInv'
<1> SUFFICES ASSUME GateInv, [Next]_vars PROVE GateInv'
  OBVIOUS
<1>1. CASE NextPullRequest
  <2>1. Telling' /\ ProfileShape'
    BY <1>1 DEF NextPullRequest, GateInv, Telling, EveryWebhookTried, ProfileShape
  <2>2. QED
    BY <1>1, <2>1, LoopPreserves DEF NextPullRequest
<1>2. ASSUME NEW p \in Profiles, LoadProfile(p)
      PROVE  GateInv'
  <2>1. ProfileShape'
    BY <1>2 DEF LoadProfile, ProfileShape
  <2>2. Telling'
    BY <1>2 DEF LoadProfile, loopVars, GateInv, Telling, EveryWebhookTried, Escalated
  <2>3. QED
    BY <1>2, <2>1, <2>2, LoopPreserves DEF LoadProfile, loopVars
<1>3. CASE BellStep
  <2>1. BellShape' /\ Moves
    BY <1>3, BellMoves DEF BellStep, GateInv
  <2>2. UNCHANGED <<profile, loopVars>>
    BY <1>3 DEF BellStep
  <2>3. Len(history) <= Len(history') /\ Len(history) \in Nat /\ Len(history') \in Nat
    BY <2>1, Rows DEF Moves, GateInv, BellShape
  <2>4. Asked'
    BY <2>2, <2>3 DEF GateInv, Asked, loopVars
  <2>5. ASSUME Merging, step # "judged", NEW i \in DOMAIN history', Ringing(i)', i <= seen
        PROVE  FALSE
    <3>1. i \in DOMAIN history
      <4>1. DOMAIN history' = 1..Len(history')
        BY <2>1 DEF BellShape
      <4>2. QED
        BY <2>3, <2>5, <4>1, Rows DEF GateInv, Asked
    <3>2. Ringing(i)
      BY <2>1, <2>5, <3>1, SeenStaySilent DEF GateInv
    <3>3. i > seen
      BY <2>5, <3>1, <3>2 DEF GateInv, OnlyLatePausesAreMissed
    <3>4. QED
      BY <2>5, <3>1, <3>3, Rows DEF GateInv, Asked
  <2>6. \A i \in DOMAIN history' : i \in Nat
    BY <2>1 DEF BellShape
  <2>7. OnlyLatePausesAreMissed'
    BY <2>2, <2>5, <2>6 DEF GateInv, OnlyLatePausesAreMissed, Merging, Asked, loopVars
  <2>8. QED
    BY <2>1, <2>2, <2>4, <2>7
       DEF GateInv, ProfileShape, VerdictShape, Judged, Telling, EveryWebhookTried, Escalated, loopVars
<1>4. CASE UNCHANGED vars
  BY <1>4, LoopPreserves
     DEF vars, loopVars, GateInv, ProfileShape, Telling, EveryWebhookTried, Escalated
<1>5. QED
  BY <1>1, <1>2, <1>3, <1>4, JudgePackPreserves, AskBellPreserves, PublishPreserves,
     DeliverPreserves
     DEF Next

LEMMA GateInvariance == Spec => []GateInv
BY GateInitial, GateInductive, PTL DEF Spec

-----------------------------------------------------------------------------
(* Theorems *)

\* The loop's place, its verdict and what it told stay well-typed.
THEOREM GateTypeCorrect == Spec => []TypeOK
<1>1. GateInv => TypeOK
  <2>1. Len(Webhooks) \in Nat
    BY PublishAssumption
  <2>2. QED
    BY <2>1 DEF GateInv, ProfileShape, Telling, EveryWebhookTried, Asked, TypeOK
<1>2. QED
  BY <1>1, GateInvariance, PTL

\* Full-auto never touches the floors, whatever profiles are installed when.
THEOREM FloorsAlwaysHold == Spec => []FloorsHold
<1>1. GateInv => FloorsHold
  BY FloorsFromJudge DEF GateInv
<1>2. QED
  BY <1>1, GateInvariance, PTL

\* judge() alone allows no R5 change under a profile that validates.
THEOREM R5NeedsHuman == Spec => []JudgeHoldsR5
<1>1. GateInv => JudgeHoldsR5
  BY R5FromJudge DEF GateInv
<1>2. QED
  BY <1>1, GateInvariance, PTL

\* A calendar without overlaps is kept, window by window.
THEOREM FreezeAlwaysHolds == Spec => []FreezeHolds
<1>1. GateInv => FreezeHolds
  BY FreezeFromJudge DEF GateInv
<1>2. QED
  BY <1>1, GateInvariance, PTL

\* The race between the bell and the publish has one side only.
THEOREM MissedPausesAreLate == Spec => []OnlyLatePausesAreMissed
<1>1. GateInv => OnlyLatePausesAreMissed
  BY DEF GateInv
<1>2. QED
  BY <1>1, GateInvariance, PTL

\* A RequireHuman reaches every webhook before the loop goes on.
THEOREM EveryWebhookIsTried == Spec => []EveryWebhookTried
<1>1. GateInv => EveryWebhookTried
  BY DEF GateInv, Telling
<1>2. QED
  BY <1>1, GateInvariance, PTL
=============================================================================
