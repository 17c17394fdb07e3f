-------------------------- MODULE AutoRejudge_proof --------------------------
(***************************************************************************)
(* Proofs about the life of verdicts, for any number of workers, pull      *)
(* requests, heads, policies and times.  First the store alone: its        *)
(* invariants, the permanence of its rows, and that it implements the      *)
(* register of current verdicts.  Then the service: the audit trail under  *)
(* every interleaving and failure, and that the runs use the store and the *)
(* ledger only through the operations proved about before.                 *)
(***************************************************************************)
EXTENDS AutoRejudge, TLAPS

\* The inductive invariant: each conjunct is kept by every operation, the last
\* two only together with the typing of the rows.
StoreInv == RowsTypeOK /\ UniqueIds /\ OneLiveRow

-----------------------------------------------------------------------------
(* The store alone: what the operations do to the Vec *)

\* What judge() mints is a verdict.
LEMMA MintedIsVerdict ==
  ASSUME NEW pr \in PRs, NEW h \in Heads, NEW p \in Policies,
         NEW decision \in GateDecisions, NEW now \in Times
  PROVE  MintVerdict(pr, h, p, decision, now) \in Verdict
BY DEF Verdict, MintVerdict, VerdictId

\* Every verdict is minted from its own fields.
LEMMA VerdictIsMinted ==
  ASSUME NEW v \in Verdict
  PROVE  /\ v.pr \in PRs /\ v.head \in Heads /\ v.policy \in Policies
         /\ v.decision \in GateDecisions /\ v.created \in Times
         /\ v = MintVerdict(v.pr, v.head, v.policy, v.decision, v.created)
BY DEF Verdict

\* The fields of a verdict have the types their names promise.
LEMMA VerdictFields ==
  ASSUME NEW v \in Verdict
  PROVE  /\ v.id \in VerdictId
         /\ v.pr \in PRs
         /\ v.created \in Times
         /\ v # NoVerdict
BY NoneAssumption DEF Verdict

\* The store on its own is called with any verdict and any id.
LEMMA StoreCases ==
  StoreNext <=> \/ \E v \in Verdict : Save(v)
                \/ \E id \in VerdictId, now \in Times : SupersedeRow(id, now)
<1>1. ASSUME NEW v \in Verdict, Save(v)
      PROVE  StoreNext
  <2>1. Save(MintVerdict(v.pr, v.head, v.policy, v.decision, v.created))
    BY <1>1, VerdictIsMinted
  <2>2. QED
    BY <2>1, VerdictIsMinted DEF StoreNext
<1>2. QED
  BY <1>1, MintedIsVerdict DEF StoreNext

\* Saving a verdict with a new id adds one live row at the end, keeps every
\* verdict in its place, and supersedes exactly the live rows of its pull
\* request.
LEMMA SaveFresh ==
  ASSUME RowsTypeOK, NEW v \in Verdict, v.id \notin SavedIds, Save(v)
  PROVE  /\ RowsTypeOK'
         /\ Len(rows') = Len(rows) + 1
         /\ rows'[Len(rows) + 1] = [body |-> v, superseded_at |-> None]
         /\ \A i \in 1..Len(rows) :
              /\ rows'[i].body = rows[i].body
              /\ Live(i) /\ rows[i].body.pr = v.pr
                   => rows'[i].superseded_at = v.created
              /\ ~(Live(i) /\ rows[i].body.pr = v.pr) => rows'[i] = rows[i]
<1> DEFINE stamped == [i \in DOMAIN rows |->
                         IF i \in LiveRows(v.pr)
                           THEN [rows[i] EXCEPT !.superseded_at = v.created]
                           ELSE rows[i]]
           new == [body |-> v, superseded_at |-> None]
<1>1. rows' = Append(stamped, new)
  BY DEF Save
<1>2. rows \in Seq(Row) /\ DOMAIN rows = 1..Len(rows) /\ Len(rows) \in Nat
  BY DEF RowsTypeOK
<1>3. v.created \in Times
  BY VerdictFields
<1>4. new \in Row
  BY DEF Row
<1>5. \A i \in DOMAIN rows : rows[i] \in Row
  BY <1>2
<1>6. \A i \in DOMAIN rows : stamped[i] \in Row
  BY <1>3, <1>5 DEF Row
<1>7. stamped \in Seq(Row) /\ Len(stamped) = Len(rows)
  BY <1>2, <1>6
<1>8. RowsTypeOK'
  BY <1>1, <1>4, <1>7 DEF RowsTypeOK
<1>9. /\ Len(rows') = Len(rows) + 1
      /\ rows'[Len(rows) + 1] = new
      /\ \A i \in 1..Len(rows) : rows'[i] = stamped[i]
  <2> HIDE DEF stamped, new
  <2> QED BY <1>1, <1>4, <1>7
<1>10. \A i \in 1..Len(rows) :
         /\ rows'[i].body = rows[i].body
         /\ Live(i) /\ rows[i].body.pr = v.pr
              => rows'[i].superseded_at = v.created
         /\ ~(Live(i) /\ rows[i].body.pr = v.pr) => rows'[i] = rows[i]
  BY <1>2, <1>5, <1>9 DEF LiveRows, Row
<1>11. QED
  BY <1>8, <1>9, <1>10

\* supersede() keeps the Vec's length and verdicts, and touches no row but the
\* live one of the given id.
LEMMA SupersedeKeeps ==
  ASSUME RowsTypeOK, NEW id, NEW now \in Times, SupersedeRow(id, now)
  PROVE  /\ RowsTypeOK'
         /\ Len(rows') = Len(rows)
         /\ \A i \in 1..Len(rows) :
              /\ rows'[i].body = rows[i].body
              /\ rows[i].body.id = id /\ Live(i) => rows'[i].superseded_at = now
              /\ ~(rows[i].body.id = id /\ Live(i)) => rows'[i] = rows[i]
<1>1. rows \in Seq(Row) /\ DOMAIN rows = 1..Len(rows) /\ Len(rows) \in Nat
  BY DEF RowsTypeOK
<1>2. \A i \in DOMAIN rows : rows[i] \in Row
  BY <1>1
<1>3. /\ \A i \in DOMAIN rows : rows'[i] \in Row
      /\ DOMAIN rows' = DOMAIN rows
      /\ rows' = [i \in 1..Len(rows) |-> rows'[i]]
  BY <1>1, <1>2 DEF SupersedeRow, Row
<1>4. rows' \in Seq(Row) /\ Len(rows') = Len(rows)
  BY <1>1, <1>3
<1>5. QED
  BY <1>1, <1>2, <1>4 DEF SupersedeRow, Row, RowsTypeOK

-----------------------------------------------------------------------------
(* The invariants *)

\* save() keeps ids unique and a pull request's live row alone: the fresh id
\* owns only the new row, and the rows it could share a pull request with have
\* just been superseded.
LEMMA SavePreserves ==
  ASSUME StoreInv, NEW v \in Verdict, Save(v)
  PROVE  StoreInv'
<1>1. CASE v.id \in SavedIds
  <2>1. rows' = rows
    BY <1>1 DEF Save
  <2>2. QED
    BY <2>1 DEF StoreInv, RowsTypeOK, UniqueIds, OneLiveRow, Live
<1>2. CASE v.id \notin SavedIds
  <2> DEFINE n == Len(rows)
  <2>1. /\ RowsTypeOK'
        /\ Len(rows') = n + 1
        /\ rows'[n + 1] = [body |-> v, superseded_at |-> None]
        /\ \A i \in 1..n :
             /\ rows'[i].body = rows[i].body
             /\ Live(i) /\ rows[i].body.pr = v.pr
                  => rows'[i].superseded_at = v.created
             /\ ~(Live(i) /\ rows[i].body.pr = v.pr) => rows'[i] = rows[i]
    BY <1>2, SaveFresh DEF StoreInv
  <2>2. DOMAIN rows = 1..n /\ DOMAIN rows' = 1..(n + 1) /\ n \in Nat
    BY <2>1 DEF StoreInv, RowsTypeOK
  <2>3. rows'[n + 1].body = v /\ \A i \in 1..n : rows[i].body.id # v.id
    BY <1>2, <2>1, <2>2 DEF SavedIds
  <2>4. v.created # None
    BY VerdictFields, NoneAssumption, TimeAssumption
  <2>5. UniqueIds'
    <3> SUFFICES ASSUME NEW i \in 1..(n + 1), NEW j \in 1..(n + 1),
                        rows'[i].body.id = rows'[j].body.id
                 PROVE  i = j
      BY <2>2 DEF UniqueIds
    <3>1. CASE i \in 1..n /\ j \in 1..n
      BY <3>1, <2>1, <2>2 DEF StoreInv, UniqueIds
    <3>2. CASE i = n + 1 \/ j = n + 1
      BY <3>2, <2>1, <2>2, <2>3
    <3>3. QED
      BY <3>1, <3>2, <2>2
  <2>6. \A i \in 1..n : rows'[i].superseded_at = None
          => Live(i) /\ rows[i].body.pr # v.pr /\ rows'[i].body = rows[i].body
    BY <2>1, <2>4 DEF Live
  <2>7. OneLiveRow'
    <3> SUFFICES ASSUME NEW i \in 1..(n + 1), NEW j \in 1..(n + 1),
                        rows'[i].superseded_at = None,
                        rows'[j].superseded_at = None,
                        rows'[i].body.pr = rows'[j].body.pr
                 PROVE  i = j
      BY <2>2 DEF OneLiveRow, Live
    <3>1. CASE i \in 1..n /\ j \in 1..n
      BY <3>1, <2>2, <2>6 DEF StoreInv, OneLiveRow
    <3>2. CASE i = n + 1 \/ j = n + 1
      BY <3>2, <2>2, <2>3, <2>6
    <3>3. QED
      BY <3>1, <3>2, <2>2
  <2>8. QED
    BY <2>1, <2>5, <2>7 DEF StoreInv
<1>3. QED
  BY <1>1, <1>2

\* supersede() makes no row live and moves no id.
LEMMA SupersedePreserves ==
  ASSUME StoreInv, NEW id, NEW now \in Times, SupersedeRow(id, now)
  PROVE  StoreInv'
<1> DEFINE n == Len(rows)
<1>1. /\ RowsTypeOK'
      /\ Len(rows') = n
      /\ \A i \in 1..n :
           /\ rows'[i].body = rows[i].body
           /\ rows[i].body.id = id /\ Live(i) => rows'[i].superseded_at = now
           /\ ~(rows[i].body.id = id /\ Live(i)) => rows'[i] = rows[i]
  BY SupersedeKeeps DEF StoreInv
<1>2. DOMAIN rows = 1..n /\ DOMAIN rows' = 1..n
  BY <1>1 DEF StoreInv, RowsTypeOK
<1>3. now # None
  BY NoneAssumption, TimeAssumption
<1>4. \A i \in 1..n : rows'[i].superseded_at = None => Live(i)
  BY <1>1, <1>3 DEF Live
<1>5. UniqueIds'
  BY <1>1, <1>2 DEF StoreInv, UniqueIds
<1>6. OneLiveRow'
  BY <1>1, <1>2, <1>4 DEF StoreInv, OneLiveRow, Live
<1>7. QED
  BY <1>1, <1>5, <1>6 DEF StoreInv

LEMMA StoreInductive == StoreInv /\ [StoreNext]_rows => StoreInv'
<1> SUFFICES ASSUME StoreInv, [StoreNext]_rows
             PROVE  StoreInv'
  OBVIOUS
<1>1. CASE \E v \in Verdict : Save(v)
  BY <1>1, SavePreserves
<1>2. CASE \E id \in VerdictId, now \in Times : SupersedeRow(id, now)
  BY <1>2, SupersedePreserves
<1>3. CASE UNCHANGED rows
  BY <1>3 DEF StoreInv, RowsTypeOK, UniqueIds, OneLiveRow, Live
<1>4. QED
  BY <1>1, <1>2, <1>3, StoreCases

LEMMA StoreInitial == StoreInit => StoreInv
BY DEF StoreInit, StoreInv, RowsTypeOK, UniqueIds, OneLiveRow

LEMMA StoreInvariance == StoreSpec => []StoreInv
BY StoreInitial, StoreInductive, PTL DEF StoreSpec

\* The rows are always a sequence of well-typed rows.
THEOREM StoreTypeCorrect == StoreSpec => []RowsTypeOK
<1>1. StoreInv => RowsTypeOK
  BY DEF StoreInv
<1>2. QED
  BY <1>1, StoreInvariance, PTL

\* No verdict id ever owns two rows.
THEOREM StoreUniqueIds == StoreSpec => []UniqueIds
<1>1. StoreInv => UniqueIds
  BY DEF StoreInv
<1>2. QED
  BY <1>1, StoreInvariance, PTL

\* No pull request ever has two live rows.
THEOREM StoreOneLiveRow == StoreSpec => []OneLiveRow
<1>1. StoreInv => OneLiveRow
  BY DEF StoreInv
<1>2. QED
  BY <1>1, StoreInvariance, PTL

\* Once superseded, a row keeps its stamp and no row changes its verdict: the
\* store never forgets or revives a verdict.
THEOREM StoreRowsAreForever == StoreSpec => RowsAreForever
<1> DEFINE Forever ==
      \A i \in DOMAIN rows :
        /\ i \in DOMAIN rows'
        /\ rows'[i].body = rows[i].body
        /\ ~Live(i) => rows'[i] = rows[i]
<1>1. StoreInv /\ [StoreNext]_rows => [Forever]_rows
  <2> SUFFICES ASSUME StoreInv, StoreNext
               PROVE  Forever \/ UNCHANGED rows
    OBVIOUS
  <2>1. RowsTypeOK /\ DOMAIN rows = 1..Len(rows) /\ Len(rows) \in Nat
    BY DEF StoreInv, RowsTypeOK
  <2>2. CASE \E v \in Verdict : Save(v)
    <3>1. PICK v \in Verdict : Save(v)
      BY <2>2
    <3>2. CASE v.id \in SavedIds
      BY <3>1, <3>2 DEF Save
    <3>3. CASE v.id \notin SavedIds
      <4>1. /\ RowsTypeOK'
            /\ Len(rows') = Len(rows) + 1
            /\ \A i \in 1..Len(rows) :
                 /\ rows'[i].body = rows[i].body
                 /\ ~(Live(i) /\ rows[i].body.pr = v.pr) => rows'[i] = rows[i]
        BY <2>1, <3>1, <3>3, SaveFresh
      <4>2. QED
        BY <2>1, <4>1 DEF RowsTypeOK
    <3>4. QED
      BY <3>2, <3>3
  <2>3. CASE \E id \in VerdictId, now \in Times : SupersedeRow(id, now)
    <3>1. PICK id \in VerdictId, now \in Times : SupersedeRow(id, now)
      BY <2>3
    <3>2. /\ RowsTypeOK'
          /\ Len(rows') = Len(rows)
          /\ \A i \in 1..Len(rows) :
               /\ rows'[i].body = rows[i].body
               /\ ~(rows[i].body.id = id /\ Live(i)) => rows'[i] = rows[i]
      BY <2>1, <3>1, SupersedeKeeps
    <3>3. QED
      BY <2>1, <3>2 DEF RowsTypeOK
  <2>4. QED
    BY <2>2, <2>3, StoreCases
<1>2. QED
  BY <1>1, StoreInvariance, PTL DEF StoreSpec, RowsAreForever

-----------------------------------------------------------------------------
(* The rows implement the register *)

\* With at most one live row, max_by has nothing to choose: load_latest is that
\* row's verdict.
LatestIsLive ==
  \A pr \in PRs :
    /\ \A i \in LiveRows(pr) : LoadLatest(pr) = rows[i].body
    /\ LiveRows(pr) = {} => LoadLatest(pr) = NoVerdict

LEMMA LatestLemma == StoreInv => LatestIsLive
<1> SUFFICES ASSUME StoreInv, NEW pr \in PRs
             PROVE  /\ \A i \in LiveRows(pr) : LoadLatest(pr) = rows[i].body
                    /\ LiveRows(pr) = {} => LoadLatest(pr) = NoVerdict
  BY DEF LatestIsLive
<1>1. ASSUME NEW i \in LiveRows(pr)
      PROVE  LoadLatest(pr) = rows[i].body
  <2> DEFINE Latest(k) ==
        \A j \in LiveRows(pr) :
          \/ rows[j].body.created < rows[k].body.created
          \/ rows[j].body.created = rows[k].body.created /\ j <= k
  <2>1. \A j \in LiveRows(pr) : j = i
    BY DEF LiveRows, StoreInv, OneLiveRow
  <2>2. i \in Nat
    BY DEF LiveRows, StoreInv, RowsTypeOK
  <2>3. Latest(i)
    BY <2>1, <2>2
  <2>4. (CHOOSE k \in LiveRows(pr) : Latest(k)) = i
    BY <2>1, <2>3
  <2>5. QED
    BY <2>4 DEF LoadLatest
<1>2. LiveRows(pr) = {} => LoadLatest(pr) = NoVerdict
  BY DEF LoadLatest
<1>3. QED
  BY <1>1, <1>2

\* save() of a fresh id is the register's Publish.
LEMMA SavePublishes ==
  ASSUME StoreInv, LatestIsLive, LatestIsLive',
         NEW v \in Verdict, v.id \notin SavedIds, Save(v)
  PROVE  Register!Publish(v)
<1> DEFINE n == Len(rows)
<1>1. /\ RowsTypeOK'
      /\ Len(rows') = n + 1
      /\ rows'[n + 1] = [body |-> v, superseded_at |-> None]
      /\ \A i \in 1..n :
           /\ rows'[i].body = rows[i].body
           /\ Live(i) /\ rows[i].body.pr = v.pr
                => rows'[i].superseded_at = v.created
           /\ ~(Live(i) /\ rows[i].body.pr = v.pr) => rows'[i] = rows[i]
  BY SaveFresh DEF StoreInv
<1>2. DOMAIN rows = 1..n /\ DOMAIN rows' = 1..(n + 1) /\ n \in Nat
  BY <1>1 DEF StoreInv, RowsTypeOK
<1>3. v.created # None /\ v.pr \in PRs
  BY VerdictFields, NoneAssumption, TimeAssumption
<1>4. SavedIds' = SavedIds \union {v.id}
  BY <1>1, <1>2 DEF SavedIds
<1>5. LoadLatest(v.pr)' = v
  <2>1. n + 1 \in LiveRows(v.pr)'
    BY <1>1, <1>2 DEF LiveRows, Live
  <2>2. QED
    BY <2>1, <1>1, <1>3 DEF LatestIsLive
<1>6. ASSUME NEW pr \in PRs, pr # v.pr
      PROVE  LoadLatest(pr)' = LoadLatest(pr)
  <2>1. LiveRows(pr)' = LiveRows(pr)
    BY <1>1, <1>2, <1>3, <1>6 DEF LiveRows, Live
  <2>2. \A i \in LiveRows(pr) : rows'[i].body = rows[i].body
    BY <1>1, <1>2 DEF LiveRows
  <2>3. QED
    BY <2>1, <2>2 DEF LatestIsLive
<1>7. [pr \in PRs |-> LoadLatest(pr)]'
        = [[pr \in PRs |-> LoadLatest(pr)] EXCEPT ![v.pr] = v]
  BY <1>3, <1>5, <1>6
<1>8. QED
  BY <1>4, <1>7 DEF Register!Publish

\* supersede() of a live row is the register's Withdraw; any other supersede
\* changes nothing.
LEMMA SupersedeWithdraws ==
  ASSUME StoreInv, LatestIsLive, LatestIsLive',
         NEW id \in VerdictId, NEW now \in Times, SupersedeRow(id, now)
  PROVE  (\E pr \in PRs : Register!Withdraw(pr)) \/ UNCHANGED Register!vars
<1> DEFINE n == Len(rows)
<1>1. /\ RowsTypeOK'
      /\ Len(rows') = n
      /\ \A i \in 1..n :
           /\ rows'[i].body = rows[i].body
           /\ rows[i].body.id = id /\ Live(i) => rows'[i].superseded_at = now
           /\ ~(rows[i].body.id = id /\ Live(i)) => rows'[i] = rows[i]
  BY SupersedeKeeps DEF StoreInv
<1>2. DOMAIN rows = 1..n /\ DOMAIN rows' = 1..n
  BY <1>1 DEF StoreInv, RowsTypeOK
<1>3. now # None
  BY NoneAssumption, TimeAssumption
<1>4. SavedIds' = SavedIds
  BY <1>1, <1>2 DEF SavedIds
<1>5. ASSUME NEW pr \in PRs,
             \A i \in 1..n : Live(i) /\ rows[i].body.id = id
                              => rows[i].body.pr # pr
      PROVE  LoadLatest(pr)' = LoadLatest(pr)
  <2>1. LiveRows(pr)' = LiveRows(pr)
    BY <1>1, <1>2, <1>3, <1>5 DEF LiveRows, Live
  <2>2. \A i \in LiveRows(pr) : rows'[i].body = rows[i].body
    BY <1>1, <1>2 DEF LiveRows
  <2>3. QED
    BY <2>1, <2>2 DEF LatestIsLive
<1>6. CASE \E i \in 1..n : Live(i) /\ rows[i].body.id = id
  <2>1. PICK k \in 1..n : Live(k) /\ rows[k].body.id = id
    BY <1>6
  <2>2. rows[k].body \in Verdict
    <3>1. rows[k] \in Row
      BY <1>2 DEF StoreInv, RowsTypeOK
    <3>2. QED
      BY <3>1 DEF Row
  <2> PICK p \in PRs : p = rows[k].body.pr
    BY <2>2, VerdictFields
  <2>3. p \in PRs /\ p = rows[k].body.pr /\ rows[k].body # NoVerdict
    BY <2>2, VerdictFields
  <2>4. k \in LiveRows(p)
    BY <1>2, <2>1, <2>3 DEF LiveRows
  <2>5. LoadLatest(p) # NoVerdict
    BY <2>3, <2>4 DEF LatestIsLive
  <2>6. LiveRows(p)' = {}
    <3>1. \A i \in 1..n : Live(i) /\ rows[i].body.pr = p => i = k
      BY <1>2, <2>1, <2>3 DEF StoreInv, OneLiveRow
    <3>2. \A i \in 1..n : rows'[i].superseded_at = None => Live(i) /\ i # k
      BY <1>1, <1>3, <2>1 DEF Live
    <3>3. QED
      BY <1>1, <1>2, <3>1, <3>2 DEF LiveRows, Live
  <2>7. LoadLatest(p)' = NoVerdict
    BY <2>3, <2>6 DEF LatestIsLive
  <2>8. \A i \in 1..n : Live(i) /\ rows[i].body.id = id => i = k
    BY <1>2, <2>1 DEF StoreInv, UniqueIds
  <2>9. \A pr \in PRs : pr # p => LoadLatest(pr)' = LoadLatest(pr)
    BY <1>5, <2>3, <2>8
  <2>10. [pr \in PRs |-> LoadLatest(pr)]'
           = [[pr \in PRs |-> LoadLatest(pr)] EXCEPT ![p] = NoVerdict]
    BY <2>3, <2>7, <2>9
  <2>11. Register!Withdraw(p)
    BY <1>4, <2>3, <2>5, <2>10 DEF Register!Withdraw
  <2>12. QED
    BY <2>3, <2>11
<1>7. CASE ~\E i \in 1..n : Live(i) /\ rows[i].body.id = id
  <2>1. \A pr \in PRs : LoadLatest(pr)' = LoadLatest(pr)
    BY <1>5, <1>7
  <2>2. [pr \in PRs |-> LoadLatest(pr)]' = [pr \in PRs |-> LoadLatest(pr)]
    BY <2>1
  <2>3. QED
    BY <1>4, <2>2 DEF Register!vars
<1>8. QED
  BY <1>6, <1>7

\* The Vec of rows implements the register of current verdicts: load_latest
\* always answers the verdict published last and not withdrawn, and no id is
\* published twice.
THEOREM StoreImplementsRegister == StoreSpec => ImplementsRegister
<1>0. /\ Register!GateDecisions = GateDecisions
      /\ \A pr, h, p, decision, now :
           Register!MintVerdict(pr, h, p, decision, now)
             = MintVerdict(pr, h, p, decision, now)
  BY DEF GateDecisions, Register!GateDecisions, MintVerdict, Register!MintVerdict,
         MintVerdictId, Register!MintVerdictId
<1>1. StoreInit => Register!Init
  BY DEF StoreInit, Register!Init, LoadLatest, LiveRows, SavedIds
<1>2. StoreInv /\ StoreInv' /\ LatestIsLive /\ LatestIsLive' /\ [StoreNext]_rows
        => [Register!Next]_(Register!vars)
  <2> SUFFICES ASSUME StoreInv, LatestIsLive, LatestIsLive', [StoreNext]_rows
               PROVE  Register!Next \/ UNCHANGED Register!vars
    OBVIOUS
  <2>1. CASE \E v \in Verdict : Save(v)
    <3>1. PICK v \in Verdict : Save(v)
      BY <2>1
    <3>2. CASE v.id \in SavedIds
      <4>1. rows' = rows
        BY <3>1, <3>2 DEF Save
      <4>2. QED
        BY <4>1 DEF Register!vars, LoadLatest, LiveRows, Live, SavedIds
    <3>3. CASE v.id \notin SavedIds
      <4>1. Register!Publish(v)
        BY <3>1, <3>3, SavePublishes
      <4>2. Register!Publish(MintVerdict(v.pr, v.head, v.policy, v.decision, v.created))
        BY <4>1, VerdictIsMinted
      <4>3. QED
        BY <1>0, <4>2, VerdictIsMinted DEF Register!Next
    <3>4. QED
      BY <3>2, <3>3
  <2>2. CASE \E id \in VerdictId, now \in Times : SupersedeRow(id, now)
    BY <2>2, SupersedeWithdraws DEF Register!Next
  <2>3. CASE UNCHANGED rows
    BY <2>3 DEF Register!vars, LoadLatest, LiveRows, Live, SavedIds
  <2>4. QED
    BY <2>1, <2>2, <2>3, StoreCases
<1>3. QED
  BY <1>1, <1>2, StoreInvariance, LatestLemma, PTL
     DEF StoreSpec, ImplementsRegister, Register!Spec

-----------------------------------------------------------------------------
(* The service *)

\* A worker that is about to append has saved its verdict, or found the id
\* taken.
SavedBeforeAppend == \A w \in Workers : pc[w] = "append" => verdict[w].id \in SavedIds

\* Nothing is saved or recorded that judge() has not returned, and an entry
\* carries the id of its verdict.
OnlyMinted ==
  /\ \A w \in Workers : pc[w] \in {"save", "append"} => verdict[w] \in minted
  /\ \A i \in DOMAIN rows : rows[i].body \in minted
  /\ \A k \in DOMAIN entries : entries[k].body \in minted /\ entries[k].id = entries[k].body.id

\* The inductive invariant. The first conjunct types the workers' data, the
\* next two are what a worker in the middle of a run remembers of its earlier
\* steps, the last two are the audit trail itself.
RunInv ==
  TypeOK /\ SavedBeforeAppend /\ OnlyMinted /\ AuditComplete /\ LedgerFollowsStore

-----------------------------------------------------------------------------
(* Operators *)

\* Whatever the pack, the receipts and the bundle, judge() gives one of the
\* three gate decisions.
LEMMA DecisionType ==
  ASSUME NEW pk, NEW receipts, NEW bundle, NEW author, NEW external
  PROVE  JudgeDecision(pk, receipts, bundle, author, external) \in GateDecisions
<1>1. \A r, b, u, q, a : EvaluateQuorum(r, b, u, q, a)
                           \in {"HumanRequired", "Vetoed", "Insufficient", "Met"}
  BY DEF EvaluateQuorum
<1>2. \A d \in {"HumanRequired", "Vetoed", "Insufficient", "Met"} : GateOf(d) \in GateDecisions
  BY DEF GateOf, GateDecisions
<1>3. QED
  BY <1>1, <1>2 DEF JudgeDecision, GateDecisions

LEMMA PackFields ==
  ASSUME NEW p \in Packs
  PROVE  p.head \in Heads /\ p.policy \in Policies
BY DEF Packs, Pack

LEMMA JobFields ==
  ASSUME NEW j \in Jobs
  PROVE  /\ j.pr \in PRs
         /\ j.kind = "gate" \/ (j.kind = "rejudge" /\ j.prior \in Verdict)
BY DEF Jobs

\* A live verdict is a verdict.
LEMMA LiveAreVerdicts == RowsTypeOK => LiveVerdicts \subseteq Verdict
<1> SUFFICES ASSUME RowsTypeOK, NEW i \in DOMAIN rows
             PROVE  rows[i].body \in Verdict
  BY DEF LiveVerdicts
<1>1. rows[i] \in Row
  BY DEF RowsTypeOK
<1>2. QED
  BY <1>1 DEF Row

\* save() forgets no id, and afterwards the id is known.
LEMMA SaveKeepsIds ==
  ASSUME RowsTypeOK, NEW v \in Verdict, Save(v)
  PROVE  /\ RowsTypeOK'
         /\ SavedIds' = SavedIds \union {v.id}
         /\ \A i \in DOMAIN rows' :
              rows'[i].body = v \/ \E j \in DOMAIN rows : rows'[i].body = rows[j].body
<1>1. CASE v.id \in SavedIds
  <2>1. rows' = rows
    BY <1>1 DEF Save
  <2>2. QED
    BY <1>1, <2>1 DEF RowsTypeOK, SavedIds
<1>2. CASE v.id \notin SavedIds
  <2>1. /\ RowsTypeOK'
        /\ Len(rows') = Len(rows) + 1
        /\ rows'[Len(rows) + 1] = [body |-> v, superseded_at |-> None]
        /\ \A i \in 1..Len(rows) : rows'[i].body = rows[i].body
    BY <1>2, SaveFresh
  <2>2. /\ DOMAIN rows = 1..Len(rows) /\ DOMAIN rows' = 1..(Len(rows) + 1)
        /\ Len(rows) \in Nat
    BY <2>1 DEF RowsTypeOK
  <2>3. rows'[Len(rows) + 1].body = v
    BY <2>1
  <2>4. SavedIds' = SavedIds \union {v.id}
    BY <2>1, <2>2, <2>3 DEF SavedIds
  <2>5. QED
    BY <2>1, <2>2, <2>3, <2>4
<1>3. QED
  BY <1>1, <1>2

\* append() of a signed entry makes its id known and puts in no other entry.
LEMMA AppendRecords ==
  ASSUME Ledger!LedgerTypeOK, NEW e \in Entry, Ledger!AppendEntry(e)
  PROVE  /\ Ledger!LedgerTypeOK'
         /\ RecordedIds' = RecordedIds \union {e.id}
         /\ \A k \in DOMAIN entries' :
              entries'[k] = e \/ \E j \in DOMAIN entries : entries'[k] = entries[j]
<1>1. e.algo = "ed25519"
  BY DEF Entry
<1>2. CASE e.id \in RecordedIds
  <2>1. entries' = entries
    BY <1>1, <1>2 DEF Ledger!AppendEntry, Ledger!Refused, RecordedIds
  <2>2. QED
    BY <1>2, <2>1 DEF Ledger!LedgerTypeOK, RecordedIds, Ledger!EntryIds
<1>3. CASE e.id \notin RecordedIds
  <2>1. entries' = Append(entries, e)
    BY <1>1, <1>3 DEF Ledger!AppendEntry, Ledger!Refused, RecordedIds
  <2>2. entries \in Seq(Entry) /\ DOMAIN entries = 1..Len(entries) /\ Len(entries) \in Nat
    BY DEF Ledger!LedgerTypeOK
  <2>3. /\ entries' \in Seq(Entry) /\ DOMAIN entries' = 1..(Len(entries) + 1)
        /\ entries'[Len(entries) + 1] = e
        /\ \A i \in 1..Len(entries) : entries'[i] = entries[i]
    BY <2>1, <2>2
  <2>4. RecordedIds' = RecordedIds \union {e.id}
    BY <2>2, <2>3 DEF RecordedIds, Ledger!EntryIds
  <2>5. QED
    BY <2>2, <2>3, <2>4 DEF Ledger!LedgerTypeOK
<1>4. QED
  BY <1>2, <1>3

-----------------------------------------------------------------------------
(* One lemma per action *)

LEMMA RunInitial == Init => RunInv
<1> SUFFICES ASSUME Init PROVE RunInv
  OBVIOUS
<1>1. rows = <<>> /\ entries = <<>>
  BY DEF Init, StoreInit, Ledger!LedgerInit
<1>2. TypeOK
  BY <1>1, SeamAssumption DEF Init, TypeOK, RowsTypeOK, Ledger!LedgerTypeOK
<1>3. QED
  BY <1>1, <1>2
     DEF RunInv, Init, SavedBeforeAppend, OnlyMinted, AuditComplete, LedgerFollowsStore,
         SavedIds, RecordedIds, Ledger!EntryIds

\* What a step that leaves store, ledger and reports alone need not worry
\* about.
LEMMA AuditUntouched ==
  ASSUME RunInv, TypeOK', UNCHANGED <<rows, entries, reported>>, minted \subseteq minted',
         \A w \in Workers : /\ pc'[w] = "append" <=> pc[w] = "append"
                            /\ pc[w] = "append" => verdict'[w] = verdict[w]
                            /\ pc'[w] \in {"save", "append"} => verdict'[w] \in minted'
  PROVE  RunInv'
<1>1. SavedIds' = SavedIds /\ RecordedIds' = RecordedIds
  BY DEF SavedIds, RecordedIds, Ledger!EntryIds
<1>2. SavedBeforeAppend' /\ OnlyMinted' /\ LedgerFollowsStore'
  BY <1>1 DEF RunInv, SavedBeforeAppend, OnlyMinted, LedgerFollowsStore
<1>3. AuditComplete'
  BY <1>1 DEF RunInv, AuditComplete, Recording
<1>4. QED
  BY <1>2, <1>3 DEF RunInv

LEMMA StartPreserves ==
  ASSUME RunInv, NEW w \in Workers, NEW newJob \in Jobs, Start(w, newJob)
  PROVE  RunInv'
<1>1. newJob # None
  BY WorkAssumption
<1>2. TypeOK'
  BY <1>1, SeamAssumption
     DEF Start, worldVars, RunInv, TypeOK, RowsTypeOK, Ledger!LedgerTypeOK
<1>3. QED
  BY <1>2, AuditUntouched DEF Start, RunInv, TypeOK, OnlyMinted

LEMMA BuildPackPreserves ==
  ASSUME RunInv, NEW w \in Workers, BuildPack(w)
  PROVE  RunInv'
<1> DEFINE h == head[job[w].pr]
           built == Pack(clock, h, policy, BodyOf[h])
<1>1. job[w] \in Jobs
  BY DEF BuildPack, RunInv, TypeOK
<1>2. h \in Heads
  BY <1>1, JobFields DEF RunInv, TypeOK
<1>3. built \in Packs /\ built # None
  BY <1>2, WorkAssumption DEF Packs, RunInv, TypeOK
<1>4. /\ pack' = [pack EXCEPT ![w] = built]
      /\ pc' = [pc EXCEPT ![w] = "review"]
      /\ pc[w] = "build"
      /\ UNCHANGED <<rows, entries, job, verdict, outage, runs, reported, minted, worldVars>>
  BY DEF BuildPack
<1> HIDE DEF built
<1>5. TypeOK'
  BY <1>3, <1>4 DEF worldVars, RunInv, TypeOK, RowsTypeOK, Ledger!LedgerTypeOK
<1>6. QED
  BY <1>4, <1>5, AuditUntouched DEF RunInv, TypeOK, OnlyMinted

\* The end of a run that did not get as far as the ledger.
LEMMA BuildPackFailsPreserves ==
  ASSUME RunInv, NEW w \in Workers, BuildPackFails(w)
  PROVE  RunInv'
<1>1. TypeOK'
  BY DEF BuildPackFails, Finish, worldVars, RunInv, TypeOK, RowsTypeOK, Ledger!LedgerTypeOK
<1>2. QED
  BY <1>1, AuditUntouched DEF BuildPackFails, Finish, RunInv, TypeOK, OnlyMinted

LEMMA MintPreserves ==
  ASSUME RunInv, NEW w \in Workers, pc[w] = "review", NEW receipts, Mint(w, receipts),
         outage' \in [Workers -> BOOLEAN]
  PROVE  RunInv'
<1> DEFINE v == MintVerdict(job[w].pr, pack[w].head, pack[w].policy,
                            DecisionFor(w, receipts), clock)
<1>1. job[w].pr \in PRs
  BY JobFields DEF RunInv, TypeOK
<1>2. pack[w].head \in Heads /\ pack[w].policy \in Policies
  BY PackFields DEF RunInv, TypeOK
<1>3. DecisionFor(w, receipts) \in GateDecisions
  BY DecisionType DEF DecisionFor
<1>4. v \in Verdict /\ v # NoVerdict
  BY <1>1, <1>2, <1>3, MintedIsVerdict, NoneAssumption DEF RunInv, TypeOK
<1>5. /\ verdict' = [verdict EXCEPT ![w] = v]
      /\ minted' = minted \union {verdict'[w]}
      /\ pc' = [pc EXCEPT ![w] = "save"]
      /\ UNCHANGED <<rows, entries, job, pack, runs, reported, worldVars>>
  BY DEF Mint
<1> HIDE DEF v
<1>6. verdict'[w] = v /\ minted' = minted \union {v}
  BY <1>5 DEF RunInv, TypeOK
<1>7. TypeOK'
  BY <1>4, <1>5, <1>6 DEF worldVars, RunInv, TypeOK, RowsTypeOK, Ledger!LedgerTypeOK
<1>8. \A u \in Workers : /\ pc'[u] = "append" <=> pc[u] = "append"
                         /\ pc[u] = "append" => verdict'[u] = verdict[u]
                         /\ pc'[u] \in {"save", "append"} => verdict'[u] \in minted'
  BY <1>5, <1>6 DEF RunInv, TypeOK, OnlyMinted
<1>9. QED
  BY <1>5, <1>6, <1>7, <1>8, AuditUntouched

\* Saving makes the worker's verdict readable, and the worker is now the one
\* that owes its entry.
LEMMA SaveVerdictPreserves ==
  ASSUME RunInv, NEW w \in Workers, SaveVerdict(w)
  PROVE  RunInv'
<1>1. /\ pc[w] = "save" /\ pc' = [pc EXCEPT ![w] = "append"]
      /\ Save(verdict[w])
      /\ UNCHANGED <<entries, job, pack, verdict, outage, runs, reported, minted, worldVars>>
  BY DEF SaveVerdict
<1>2. verdict[w] \in Verdict /\ verdict[w] \in minted
  BY <1>1 DEF RunInv, TypeOK, OnlyMinted
<1>3. /\ RowsTypeOK'
      /\ SavedIds' = SavedIds \union {verdict[w].id}
      /\ \A i \in DOMAIN rows' : \/ rows'[i].body = verdict[w]
                                 \/ \E j \in DOMAIN rows : rows'[i].body = rows[j].body
  BY <1>1, <1>2, SaveKeepsIds DEF RunInv, TypeOK
<1>4. TypeOK'
  BY <1>1, <1>2, <1>3 DEF worldVars, RunInv, TypeOK, Ledger!LedgerTypeOK
<1>5. RecordedIds' = RecordedIds
  BY <1>1 DEF RecordedIds, Ledger!EntryIds
<1>6. pc'[w] = "append" /\ \A u \in Workers : u # w => pc'[u] = pc[u]
  BY <1>1 DEF RunInv, TypeOK
<1>7. SavedBeforeAppend'
  BY <1>1, <1>3, <1>6 DEF RunInv, SavedBeforeAppend
<1>8. OnlyMinted'
  BY <1>1, <1>2, <1>3, <1>6 DEF RunInv, OnlyMinted
<1>9. AuditComplete'
  BY <1>1, <1>3, <1>5, <1>6 DEF RunInv, AuditComplete, Recording
<1>10. LedgerFollowsStore'
  BY <1>3, <1>5 DEF RunInv, LedgerFollowsStore
<1>11. QED
  BY <1>4, <1>7, <1>8, <1>9, <1>10 DEF RunInv

\* The entry a worker signs is an entry of the ledger.
LEMMA EntryOfIsEntry ==
  ASSUME RunInv, NEW w \in Workers, pc[w] = "append"
  PROVE  /\ EntryOf(w) \in Entry
         /\ EntryOf(w).id = verdict[w].id /\ EntryOf(w).body = verdict[w]
<1>1. verdict[w] \in Verdict /\ verdict[w].id \in VerdictId
  BY VerdictFields DEF RunInv, TypeOK
<1>2. job[w] \in Jobs
  BY DEF RunInv, TypeOK
<1>3. job[w].kind # "gate" => job[w].prior.id \in VerdictId
  BY <1>2, JobFields, VerdictFields
<1>4. QED
  BY <1>1, <1>3 DEF EntryOf, Entry, LedgerKinds

LEMMA AppendEntryPreserves ==
  ASSUME RunInv, NEW w \in Workers, AppendEntry(w)
  PROVE  RunInv'
<1> DEFINE e == EntryOf(w)
<1>1. pc[w] = "append" /\ Ledger!AppendEntry(e) /\ Finish(w)
      /\ UNCHANGED <<rows, reported, minted, worldVars>>
  BY DEF AppendEntry
<1>2. e \in Entry /\ e.id = verdict[w].id /\ e.body = verdict[w]
  BY <1>1, EntryOfIsEntry
<1>3. verdict[w] \in minted /\ verdict[w].id \in SavedIds
  BY <1>1 DEF RunInv, OnlyMinted, SavedBeforeAppend
<1> HIDE DEF e
<1>4. /\ Ledger!LedgerTypeOK'
      /\ RecordedIds' = RecordedIds \union {e.id}
      /\ \A k \in DOMAIN entries' :
           entries'[k] = e \/ \E j \in DOMAIN entries : entries'[k] = entries[j]
  BY <1>1, <1>2, AppendRecords DEF RunInv, TypeOK
<1>5. SavedIds' = SavedIds
  BY <1>1 DEF SavedIds
<1>6. TypeOK'
  BY <1>1, <1>4 DEF Finish, worldVars, RunInv, TypeOK, RowsTypeOK
<1>7. pc'[w] = "idle" /\ \A u \in Workers : u # w => pc'[u] = pc[u] /\ verdict'[u] = verdict[u]
  BY <1>1 DEF Finish, RunInv, TypeOK
<1>8. SavedBeforeAppend'
  BY <1>5, <1>7 DEF RunInv, SavedBeforeAppend
<1>9. OnlyMinted'
  BY <1>1, <1>2, <1>3, <1>4, <1>7 DEF RunInv, OnlyMinted
<1>10. AuditComplete'
  BY <1>1, <1>2, <1>4, <1>5, <1>7 DEF RunInv, AuditComplete, Recording
<1>11. LedgerFollowsStore'
  BY <1>2, <1>3, <1>4, <1>5 DEF RunInv, LedgerFollowsStore
<1>12. QED
  BY <1>6, <1>8, <1>9, <1>10, <1>11 DEF RunInv

LEMMA AppendFailsPreserves ==
  ASSUME RunInv, NEW w \in Workers, AppendFails(w)
  PROVE  RunInv'
<1>1. pc[w] = "append" /\ reported' = reported \union {verdict[w].id} /\ Finish(w)
      /\ UNCHANGED <<rows, entries, minted, worldVars>>
  BY DEF AppendFails
<1>2. verdict[w].id \in VerdictId
  BY <1>1, VerdictFields DEF RunInv, TypeOK
<1>3. SavedIds' = SavedIds /\ RecordedIds' = RecordedIds
  BY <1>1 DEF SavedIds, RecordedIds, Ledger!EntryIds
<1>4. TypeOK'
  BY <1>1, <1>2 DEF Finish, worldVars, RunInv, TypeOK, RowsTypeOK, Ledger!LedgerTypeOK
<1>5. pc'[w] = "idle" /\ \A u \in Workers : u # w => pc'[u] = pc[u] /\ verdict'[u] = verdict[u]
  BY <1>1 DEF Finish, RunInv, TypeOK
<1>6. SavedBeforeAppend' /\ OnlyMinted' /\ LedgerFollowsStore'
  BY <1>1, <1>3, <1>5 DEF RunInv, SavedBeforeAppend, OnlyMinted, LedgerFollowsStore
<1>7. AuditComplete'
  BY <1>1, <1>3, <1>5 DEF RunInv, AuditComplete, Recording
<1>8. QED
  BY <1>4, <1>6, <1>7 DEF RunInv

\* The world outside moves nothing a worker holds.
LEMMA WorldPreserves ==
  ASSUME RunInv,
         \/ \E pr \in PRs, newHead \in Heads : Push(pr, newHead)
         \/ \E newPolicy \in Policies : ChangePolicy(newPolicy)
         \/ Tick
         \/ UNCHANGED vars
  PROVE  RunInv'
<1>1. UNCHANGED <<rows, entries, gateVars>>
  BY DEF Push, ChangePolicy, Tick, vars
<1>2. clock' \in Times /\ head' \in [PRs -> Heads] /\ policy' \in Policies
      /\ changes' \in 0..MaxChanges
  BY SeamAssumption DEF Push, ChangePolicy, Tick, vars, worldVars, RunInv, TypeOK
<1>3. TypeOK'
  BY <1>1, <1>2 DEF gateVars, RunInv, TypeOK, RowsTypeOK, Ledger!LedgerTypeOK
<1>4. QED
  BY <1>1, <1>3, AuditUntouched DEF gateVars, RunInv, OnlyMinted

LEMMA RunInductive == RunInv /\ [Next]_vars => RunInv'
<1> SUFFICES ASSUME RunInv, [Next]_vars PROVE RunInv'
  OBVIOUS
<1>1. ASSUME NEW w \in Workers, Step(w)
      PROVE  RunInv'
  <2>1. CASE ReviewAndJudge(w) \/ ReviewFails(w)
    <3>1. outage' \in [Workers -> BOOLEAN]
      BY <2>1 DEF ReviewAndJudge, ReviewFails, RunInv, TypeOK
    <3>2. QED
      BY <2>1, <3>1, MintPreserves DEF ReviewAndJudge, ReviewFails
  <2>2. QED
    BY <1>1, <2>1, BuildPackPreserves, BuildPackFailsPreserves, SaveVerdictPreserves,
       AppendEntryPreserves, AppendFailsPreserves DEF Step
<1>2. ASSUME NEW w \in Workers, NEW pr \in PRs, StartGate(w, pr)
      PROVE  RunInv'
  BY <1>2, StartPreserves DEF StartGate, Jobs
<1>3. ASSUME NEW w \in Workers, NEW prior \in LiveVerdicts, StartRejudge(w, prior)
      PROVE  RunInv'
  <2>1. prior \in Verdict /\ prior.pr \in PRs
    BY LiveAreVerdicts, VerdictFields DEF RunInv, TypeOK
  <2>2. QED
    BY <1>3, <2>1, StartPreserves DEF StartRejudge, Jobs
<1>4. QED
  BY <1>1, <1>2, <1>3, WorldPreserves DEF Next

LEMMA RunInvariance == Spec => []RunInv
BY RunInitial, RunInductive, PTL DEF Spec

-----------------------------------------------------------------------------
(* Theorems *)

\* The store, the ledger and what every worker holds stay well-typed.
THEOREM RunTypeCorrect == Spec => []TypeOK
<1>1. RunInv => TypeOK
  BY DEF RunInv
<1>2. QED
  BY <1>1, RunInvariance, PTL

\* No saved verdict escapes the ledger silently: wherever runs interleave or
\* fail, its id is recorded, about to be, or reported as not recorded.
THEOREM AuditIsComplete == Spec => []AuditComplete
<1>1. RunInv => AuditComplete
  BY DEF RunInv
<1>2. QED
  BY <1>1, RunInvariance, PTL

\* No verdict is recorded as issued before the store has its id.
THEOREM LedgerIsBehindStore == Spec => []LedgerFollowsStore
<1>1. RunInv => LedgerFollowsStore
  BY DEF RunInv
<1>2. QED
  BY <1>1, RunInvariance, PTL

\* Under an id that judge() minted once, ledger and store hold one verdict.
THEOREM EntriesAgreeWithRows == Spec => []EntriesMatchRows
<1>1. RunInv => EntriesMatchRows
  <2> SUFFICES ASSUME RunInv, NEW i \in DOMAIN rows, NEW k \in DOMAIN entries,
                      entries[k].id = rows[i].body.id,
                      \A u, v \in minted : u.id = entries[k].id /\ v.id = u.id => u = v
               PROVE  entries[k].body = rows[i].body
    BY DEF EntriesMatchRows
  <2>1. rows[i].body \in minted /\ entries[k].body \in minted
        /\ entries[k].body.id = entries[k].id
    BY DEF RunInv, OnlyMinted
  <2>2. QED
    BY <2>1
<1>2. QED
  BY <1>1, RunInvariance, PTL

\* Runs, pushes and policy changes reach the rows only through save(): whatever
\* is proved of the store alone holds of it under the service.
THEOREM ServiceUsesStore == Spec => StoreSpec
<1>1. Init => StoreInit
  BY DEF Init
<1>2. RunInv /\ [Next]_vars => [StoreNext]_rows
  <2> SUFFICES ASSUME RunInv, [Next]_vars PROVE StoreNext \/ UNCHANGED rows
    OBVIOUS
  <2>1. CASE \E w \in Workers : SaveVerdict(w)
    <3>1. PICK w \in Workers : SaveVerdict(w)
      BY <2>1
    <3>2. Save(verdict[w]) /\ verdict[w] \in Verdict
      BY <3>1 DEF SaveVerdict, RunInv, TypeOK
    <3>3. QED
      BY <3>2, StoreCases
  <2>2. CASE \E w \in Workers : Step(w) /\ ~SaveVerdict(w)
    BY <2>2 DEF Step, BuildPack, BuildPackFails, ReviewAndJudge, ReviewFails, Mint,
                AppendEntry, AppendFails
  <2>3. CASE ~\E w \in Workers : Step(w)
    BY <2>3 DEF Next, vars, StartGate, StartRejudge, Start, Push, ChangePolicy, Tick
  <2>4. QED
    BY <2>1, <2>2, <2>3
<1>3. QED
  BY <1>1, <1>2, RunInvariance, PTL DEF Spec, StoreSpec

\* However many runs save verdicts at once, a pull request has at most one live
\* verdict.
THEOREM ServiceOneLiveRow == Spec => []OneLiveRow
BY ServiceUsesStore, StoreOneLiveRow, PTL

\* No run, and no failure of one, changes or removes a ledger entry.
THEOREM LedgerIsAppendOnly == Spec => LedgerAppendOnly
<1>1. RunInv /\ [Next]_vars => [Ledger!Kept]_entries
  <2> SUFFICES ASSUME RunInv, [Next]_vars PROVE Ledger!Kept \/ UNCHANGED entries
    OBVIOUS
  <2>1. CASE \E w \in Workers : AppendEntry(w)
    <3>1. PICK w \in Workers : AppendEntry(w)
      BY <2>1
    <3>2. EntryOf(w) \in Entry
      BY <3>1, EntryOfIsEntry DEF AppendEntry
    <3>3. entries' = Append(entries, EntryOf(w)) \/ UNCHANGED entries
      BY <3>1 DEF AppendEntry, Ledger!AppendEntry
    <3>4. entries \in Seq(Entry)
      BY DEF RunInv, TypeOK, Ledger!LedgerTypeOK
    <3>5. QED
      BY <3>2, <3>3, <3>4 DEF Ledger!Kept
  <2>2. CASE \E w \in Workers : Step(w) /\ ~AppendEntry(w)
    BY <2>2 DEF Step, BuildPack, BuildPackFails, ReviewAndJudge, ReviewFails, Mint,
                SaveVerdict, AppendFails
  <2>3. CASE ~\E w \in Workers : Step(w)
    BY <2>3 DEF Next, vars, StartGate, StartRejudge, Start, Push, ChangePolicy, Tick
  <2>4. QED
    BY <2>1, <2>2, <2>3
<1>2. QED
  BY <1>1, RunInvariance, PTL DEF Spec, LedgerAppendOnly, Ledger!AppendOnly
=============================================================================
