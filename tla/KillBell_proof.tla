--------------------------- MODULE KillBell_proof ---------------------------
(***************************************************************************)
(* Proofs about the Kill Bell, for any number of operators and calls and   *)
(* any TTLs: its audit trail, and that its history, whatever the order in  *)
(* which calls reach it, is one order in force, the latest given.          *)
(***************************************************************************)
EXTENDS KillBell, TLAPS

\* The event of a row is in the ledger.
Recorded(row) ==
  \E k \in DOMAIN entries :
    /\ entries[k].id = row.call /\ entries[k].body = row
    /\ entries[k].kind = "KillBellEngaged" <=> row.kind = "Paused"

Busy(o) == stage[o] # "idle"

\* A call is under way at one operator or has left one row, and its number has
\* been given out.
OneCallOneRow ==
  /\ \A o \in Operators : Busy(o) => order[o].call <= calls
  /\ \A o, p \in Operators : Busy(o) /\ Busy(p) /\ order[o].call = order[p].call => o = p
  /\ \A i \in DOMAIN history : history[i].call <= calls
  /\ \A i \in DOMAIN history, o \in Operators : Busy(o) => history[i].call # order[o].call
  /\ \A i, j \in DOMAIN history : history[i].call = history[j].call => i = j

\* The ledger knows no event of a call that has not got there; its idempotence
\* therefore never swallows an event of the bell.
FreshEvents ==
  /\ \A k \in DOMAIN entries : entries[k].id <= calls
  /\ \A o \in Operators : stage[o] = "append" => order[o].call \notin Ledger!EntryIds

RecordedFirst ==
  /\ \A o \in Operators : stage[o] = "push" => Recorded(order[o])
  /\ \A i \in DOMAIN history : Recorded(history[i])

\* max_by finds something: kept as an invariant, because every row that arrives
\* is the latest itself or leaves the latest as it was.
LatestExists == history # <<>> => \E i \in DOMAIN history : IsLatest(i)

\* The inductive invariant.
BellInv == TypeOK /\ OneCallOneRow /\ FreshEvents /\ RecordedFirst /\ LatestExists

-----------------------------------------------------------------------------
(* The row in force *)

LEMMA HistoryFacts ==
  ASSUME TypeOK
  PROVE  /\ Len(history) \in Nat /\ DOMAIN history = 1..Len(history)
         /\ \A i \in DOMAIN history : history[i] \in Transition /\ history[i].at \in Nat
         /\ Len(history) = 0 => history = <<>>
<1>1. history \in Seq(Transition)
  BY DEF TypeOK
<1>2. \A i \in DOMAIN history : history[i] \in Transition
  BY <1>1
<1>3. \A row \in Transition : row.at \in Nat
  BY DEF Transition
<1>4. QED
  BY <1>1, <1>2, <1>3

\* There is no second latest row: the row in force is the latest.
LatestIsInForce ==
  \A i \in DOMAIN history :
    IsLatest(i) => InForce = history[i] /\ InForce # NoOrder

LEMMA LatestInForce == TypeOK => LatestIsInForce
<1> SUFFICES ASSUME TypeOK, NEW i \in DOMAIN history, IsLatest(i)
             PROVE  InForce = history[i] /\ InForce # NoOrder
  BY DEF LatestIsInForce
<1>1. \A j \in DOMAIN history : IsLatest(j) => j = i
  BY HistoryFacts DEF IsLatest
<1>2. (CHOOSE j \in DOMAIN history : IsLatest(j)) = i
  BY <1>1
<1>3. history # <<>>
  BY HistoryFacts
<1>4. history[i] # NoOrder
  BY HistoryFacts, OrderAssumption
<1>5. QED
  BY <1>2, <1>3, <1>4 DEF InForce

\* A row that arrives is in force unless it was given before the row that is.
LEMMA RowArrives ==
  ASSUME TypeOK, LatestExists, LatestIsInForce, LatestIsInForce',
         NEW row \in Transition, history' = Append(history, row)
  PROVE  /\ LatestExists'
         /\ InForce' = IF InForce # NoOrder /\ row.at < InForce.at THEN InForce ELSE row
<1>0. PICK n \in Nat : n = Len(history)
  BY HistoryFacts
<1>1. /\ DOMAIN history = 1..n /\ DOMAIN history' = 1..(n + 1)
      /\ history'[n + 1] = row
      /\ \A i \in 1..n : history'[i] = history[i]
  BY <1>0, HistoryFacts DEF TypeOK
<1>2. /\ \A i \in 1..n : history[i].at \in Nat
      /\ row.at \in Nat
  BY <1>1, HistoryFacts DEF Transition
<1>3. history' # <<>>
  BY <1>1
<1>4. CASE history = <<>>
  <2>1. n = 0 /\ InForce = NoOrder
    BY <1>0, <1>4 DEF InForce
  <2>2. IsLatest(n + 1)'
    BY <1>1, <1>2, <2>1 DEF IsLatest
  <2>3. InForce' = row
    BY <1>1, <2>2 DEF LatestIsInForce
  <2>4. QED
    BY <1>1, <2>1, <2>2, <2>3 DEF LatestExists
<1>5. CASE history # <<>>
  <2>1. PICK k \in DOMAIN history : IsLatest(k)
    BY <1>5 DEF LatestExists
  <2>2. InForce = history[k] /\ InForce # NoOrder
    BY <2>1 DEF LatestIsInForce
  <2>3. k \in 1..n /\ k \in 1..(n + 1)
    BY <1>1
  <2>4. CASE row.at < history[k].at
    <3>1. IsLatest(k)'
      BY <1>1, <1>2, <2>1, <2>3, <2>4 DEF IsLatest
    <3>2. InForce' = InForce
      BY <1>1, <2>2, <2>3, <3>1 DEF LatestIsInForce
    <3>3. QED
      BY <1>1, <2>2, <2>3, <2>4, <3>1, <3>2 DEF LatestExists
  <2>5. CASE ~(row.at < history[k].at)
    <3>1. IsLatest(n + 1)'
      BY <1>1, <1>2, <2>1, <2>3, <2>5 DEF IsLatest
    <3>2. InForce' = row
      BY <1>1, <3>1 DEF LatestIsInForce
    <3>3. QED
      BY <1>1, <2>2, <2>5, <3>1, <3>2 DEF LatestExists
  <2>6. QED
    BY <2>4, <2>5
<1>6. QED
  BY <1>4, <1>5

-----------------------------------------------------------------------------
(* The ledger *)

\* An append keeps every event that was recorded, and records a fresh one.
LEMMA AppendKeeps ==
  ASSUME TypeOK, NEW e \in KillBellEntry, Ledger!AppendEntry(e)
  PROVE  /\ Ledger!LedgerTypeOK'
         /\ \A row : Recorded(row) => Recorded(row)'
         /\ \A k \in DOMAIN entries' :
              entries'[k] = e \/ \E j \in DOMAIN entries : entries'[k] = entries[j]
         /\ e.id \notin Ledger!EntryIds => \E k \in DOMAIN entries' : entries'[k] = e
<1>1. entries \in Seq(KillBellEntry) /\ DOMAIN entries = 1..Len(entries) /\ Len(entries) \in Nat
  BY DEF TypeOK, Ledger!LedgerTypeOK
<1>2. CASE UNCHANGED entries
  <2>1. e.id \in Ledger!EntryIds \/ entries' = Append(entries, e)
    BY DEF Ledger!AppendEntry, Ledger!Refused, KillBellEntry
  <2>2. Len(Append(entries, e)) = Len(entries) + 1
    BY <1>1
  <2>3. e.id \in Ledger!EntryIds
    <3>1. Append(entries, e) # entries
      <4> DEFINE longer == Append(entries, e)
      <4>1. Len(longer) = Len(entries) + 1
        BY <2>2
      <4> HIDE DEF longer
      <4>2. longer # entries
        BY <1>1, <4>1
      <4>3. QED
        BY <4>2 DEF longer
    <3>2. QED
      BY <1>2, <2>1, <3>1
  <2>4. QED
    BY <1>1, <1>2, <2>3 DEF Recorded, Ledger!LedgerTypeOK
<1>3. CASE entries' = Append(entries, e)
  <2>1. /\ entries' \in Seq(KillBellEntry) /\ DOMAIN entries' = 1..(Len(entries) + 1)
        /\ entries'[Len(entries) + 1] = e
        /\ \A k \in 1..Len(entries) : entries'[k] = entries[k]
    BY <1>1, <1>3
  <2>2. \A row : Recorded(row) => Recorded(row)'
    BY <1>1, <2>1 DEF Recorded
  <2>3. QED
    BY <1>1, <2>1, <2>2 DEF Ledger!LedgerTypeOK
<1>4. QED
  BY <1>2, <1>3 DEF Ledger!AppendEntry

\* What an operator signs.
LEMMA EntryOfFacts ==
  ASSUME TypeOK, NEW o \in Operators, Busy(o)
  PROVE  /\ order[o] \in Transition
         /\ EntryOf(o) \in KillBellEntry
         /\ EntryOf(o).id = order[o].call /\ EntryOf(o).body = order[o]
         /\ EntryOf(o).kind = "KillBellEngaged" <=> order[o].kind = "Paused"
<1>1. order[o] \in Transition
  BY DEF TypeOK, Busy
<1>2. order[o].call \in 1..MaxCalls
  BY <1>1 DEF Transition
<1>3. QED
  BY <1>1, <1>2 DEF EntryOf, KillBellEntry

-----------------------------------------------------------------------------
(* One lemma per action *)

LEMMA BellInitial == Init => BellInv
<1> SUFFICES ASSUME Init PROVE BellInv
  OBVIOUS
<1>1. history = <<>> /\ entries = <<>>
  BY DEF Init, Ledger!LedgerInit
<1>2. TypeOK
  BY <1>1, BellAssumption DEF Init, TypeOK, Ledger!LedgerTypeOK
<1>3. QED
  BY <1>1, <1>2
     DEF Init, BellInv, OneCallOneRow, FreshEvents, RecordedFirst, LatestExists, Busy

\* A new call takes a new number.
LEMMA CallPreserves ==
  ASSUME BellInv, NEW o \in Operators, NEW kind \in {"Armed", "Paused"},
         NEW expires \in 0..MaxTime, Call(o, kind, expires)
  PROVE  BellInv'
<1> DEFINE row == [kind |-> kind, at |-> clock, expires |-> expires, call |-> calls + 1]
<1>1. /\ stage[o] = "idle" /\ calls < MaxCalls /\ calls' = calls + 1
      /\ order' = [order EXCEPT ![o] = row]
      /\ stage' = [stage EXCEPT ![o] = "append"]
      /\ UNCHANGED <<clock, history, entries>>
  BY DEF Call
<1>2. calls \in Nat /\ calls' \in 0..MaxCalls /\ row.call = calls + 1
  BY <1>1, BellAssumption DEF BellInv, TypeOK
<1>3. row \in Transition /\ row # NoOrder
  BY <1>1, <1>2, OrderAssumption DEF BellInv, TypeOK, Transition
<1> HIDE DEF row
<1>4. TypeOK'
  BY <1>1, <1>2, <1>3 DEF BellInv, TypeOK, Ledger!LedgerTypeOK
<1>5. /\ order'[o] = row /\ stage'[o] = "append"
      /\ \A p \in Operators : p # o => order'[p] = order[p] /\ stage'[p] = stage[p]
  BY <1>1 DEF BellInv, TypeOK
<1>6. \A p \in Operators : Busy(p) => order[p].call \in Nat
  BY EntryOfFacts DEF BellInv, Transition
<1>7. \A i \in DOMAIN history : history[i].call \in Nat
  BY HistoryFacts DEF BellInv, Transition
<1>8. OneCallOneRow'
  BY <1>1, <1>2, <1>5, <1>6, <1>7 DEF BellInv, OneCallOneRow, Busy
<1>9. \A k \in DOMAIN entries : entries[k].id \in Nat
  <2>1. \A k \in DOMAIN entries : entries[k] \in KillBellEntry
    BY DEF BellInv, TypeOK, Ledger!LedgerTypeOK
  <2>2. QED
    BY <2>1 DEF KillBellEntry
<1>10. FreshEvents'
  BY <1>1, <1>2, <1>5, <1>9 DEF BellInv, FreshEvents, Ledger!EntryIds
<1>11. RecordedFirst'
  BY <1>1, <1>5 DEF BellInv, RecordedFirst, Recorded
<1>12. LatestExists'
  BY <1>1 DEF BellInv, LatestExists, IsLatest
<1>13. QED
  BY <1>4, <1>8, <1>10, <1>11, <1>12 DEF BellInv

LEMMA AppendEventPreserves ==
  ASSUME BellInv, NEW o \in Operators, AppendEvent(o)
  PROVE  BellInv'
<1> DEFINE e == EntryOf(o)
<1>1. /\ stage[o] = "append" /\ Ledger!AppendEntry(e)
      /\ stage' = [stage EXCEPT ![o] = "push"]
      /\ UNCHANGED <<clock, history, calls, order>>
  BY DEF AppendEvent
<1>2. /\ e \in KillBellEntry /\ e.id = order[o].call /\ e.body = order[o]
      /\ e.kind = "KillBellEngaged" <=> order[o].kind = "Paused"
  BY <1>1, EntryOfFacts DEF BellInv, Busy
<1> HIDE DEF e
<1>3. /\ Ledger!LedgerTypeOK'
      /\ \A row : Recorded(row) => Recorded(row)'
      /\ \A k \in DOMAIN entries' :
           entries'[k] = e \/ \E j \in DOMAIN entries : entries'[k] = entries[j]
      /\ e.id \notin Ledger!EntryIds => \E k \in DOMAIN entries' : entries'[k] = e
  BY <1>1, <1>2, AppendKeeps DEF BellInv
<1>4. stage'[o] = "push" /\ \A p \in Operators : p # o => stage'[p] = stage[p]
  BY <1>1 DEF BellInv, TypeOK
<1>5. TypeOK'
  BY <1>1, <1>3 DEF BellInv, TypeOK
<1>6. OneCallOneRow'
  BY <1>1, <1>4 DEF BellInv, OneCallOneRow, Busy
<1>7. FreshEvents'
  BY <1>1, <1>2, <1>3, <1>4 DEF BellInv, FreshEvents, OneCallOneRow, Busy, Ledger!EntryIds
<1>8. Recorded(order[o])'
  <2>1. e.id \notin Ledger!EntryIds
    BY <1>1, <1>2 DEF BellInv, FreshEvents
  <2>2. QED
    BY <1>1, <1>2, <1>3, <2>1 DEF Recorded
<1>9. RecordedFirst'
  BY <1>1, <1>3, <1>4, <1>8 DEF BellInv, RecordedFirst
<1>10. LatestExists'
  BY <1>1 DEF BellInv, LatestExists, IsLatest
<1>11. QED
  BY <1>5, <1>6, <1>7, <1>9, <1>10 DEF BellInv

\* A call that ends without a row leaves at most its event.
LEMMA AppendFailsPreserves ==
  ASSUME BellInv, NEW o \in Operators, AppendFails(o)
  PROVE  BellInv'
<1> DEFINE e == EntryOf(o)
<1>1. /\ stage[o] = "append" /\ (UNCHANGED entries \/ Ledger!AppendEntry(e))
      /\ stage' = [stage EXCEPT ![o] = "idle"]
      /\ order' = [order EXCEPT ![o] = NoOrder]
      /\ UNCHANGED <<clock, history, calls>>
  BY DEF AppendFails, Return
<1>2. e \in KillBellEntry /\ e.id = order[o].call
  BY <1>1, EntryOfFacts DEF BellInv, Busy
<1> HIDE DEF e
<1>3. /\ Ledger!LedgerTypeOK'
      /\ \A row : Recorded(row) => Recorded(row)'
      /\ \A k \in DOMAIN entries' :
           entries'[k] = e \/ \E j \in DOMAIN entries : entries'[k] = entries[j]
  <2>1. CASE UNCHANGED entries
    BY <2>1 DEF BellInv, TypeOK, Ledger!LedgerTypeOK, Recorded
  <2>2. CASE Ledger!AppendEntry(e)
    BY <1>2, <2>2, AppendKeeps DEF BellInv
  <2>3. QED
    BY <1>1, <2>1, <2>2
<1>4. /\ stage'[o] = "idle"
      /\ \A p \in Operators : p # o => stage'[p] = stage[p] /\ order'[p] = order[p]
  BY <1>1 DEF BellInv, TypeOK
<1>5. TypeOK'
  BY <1>1, <1>3 DEF BellInv, TypeOK
<1>6. OneCallOneRow'
  BY <1>1, <1>4 DEF BellInv, OneCallOneRow, Busy
<1>7. FreshEvents'
  BY <1>1, <1>2, <1>3, <1>4 DEF BellInv, FreshEvents, OneCallOneRow, Busy, Ledger!EntryIds
<1>8. RecordedFirst'
  BY <1>1, <1>3, <1>4 DEF BellInv, RecordedFirst
<1>9. LatestExists'
  BY <1>1 DEF BellInv, LatestExists, IsLatest
<1>10. QED
  BY <1>5, <1>6, <1>7, <1>8, <1>9 DEF BellInv

\* A row is pushed by the operator whose call it is, and by nobody again.
LEMMA PushRowPreserves ==
  ASSUME BellInv, NEW o \in Operators, PushRow(o)
  PROVE  BellInv'
<1>1. /\ stage[o] = "push" /\ history' = Append(history, order[o])
      /\ stage' = [stage EXCEPT ![o] = "idle"]
      /\ order' = [order EXCEPT ![o] = NoOrder]
      /\ UNCHANGED <<clock, entries, calls>>
  BY DEF PushRow, Return
<1>2. order[o] \in Transition
  BY <1>1, EntryOfFacts DEF BellInv, Busy
<1>3. /\ stage'[o] = "idle"
      /\ \A p \in Operators : p # o => stage'[p] = stage[p] /\ order'[p] = order[p]
  BY <1>1 DEF BellInv, TypeOK
<1>4. history' \in Seq(Transition)
  BY <1>1, <1>2 DEF BellInv, TypeOK
<1>5. TypeOK'
  BY <1>1, <1>4 DEF BellInv, TypeOK, Ledger!LedgerTypeOK
<1>6. \A i \in DOMAIN history' :
        \/ i = Len(history) + 1 /\ history'[i] = order[o]
        \/ i \in DOMAIN history /\ history'[i] = history[i]
  BY <1>1, <1>2, HistoryFacts DEF BellInv, TypeOK
<1>7. Len(history) \in Nat
  BY HistoryFacts DEF BellInv
<1>8. OneCallOneRow'
  <2>1. \A i \in DOMAIN history' : history'[i].call <= calls'
    BY <1>1, <1>6 DEF BellInv, OneCallOneRow, Busy
  <2>2. \A i \in DOMAIN history', p \in Operators :
          stage'[p] # "idle" => history'[i].call # order'[p].call
    BY <1>1, <1>3, <1>6 DEF BellInv, OneCallOneRow, Busy
  <2>3. \A i, j \in DOMAIN history' : history'[i].call = history'[j].call => i = j
    BY <1>1, <1>6, <1>7 DEF BellInv, OneCallOneRow, Busy
  <2>4. QED
    BY <1>1, <1>3, <2>1, <2>2, <2>3 DEF BellInv, OneCallOneRow, Busy
<1>9. FreshEvents'
  BY <1>1, <1>3 DEF BellInv, FreshEvents, Ledger!EntryIds
<1>10. RecordedFirst'
  BY <1>1, <1>3, <1>6 DEF BellInv, RecordedFirst, Recorded
<1>11. LatestExists'
  <2>1. LatestIsInForce /\ LatestIsInForce'
    BY <1>5, LatestInForce, PTL DEF BellInv
  <2>2. QED
    BY <1>1, <1>2, <2>1, RowArrives DEF BellInv
<1>12. QED
  BY <1>5, <1>8, <1>9, <1>10, <1>11 DEF BellInv

LEMMA TickPreserves == BellInv /\ (Tick \/ UNCHANGED vars) => BellInv'
<1> SUFFICES ASSUME BellInv, Tick \/ UNCHANGED vars PROVE BellInv'
  OBVIOUS
<1>1. clock' \in 0..MaxTime /\ UNCHANGED <<history, entries, calls, stage, order>>
  BY BellAssumption DEF Tick, vars, BellInv, TypeOK
<1>2. QED
  BY <1>1 DEF BellInv, TypeOK, Ledger!LedgerTypeOK, OneCallOneRow, Busy, FreshEvents,
              Ledger!EntryIds, RecordedFirst, Recorded, LatestExists, IsLatest

LEMMA BellInductive == BellInv /\ [Next]_vars => BellInv'
<1> SUFFICES ASSUME BellInv, [Next]_vars PROVE BellInv'
  OBVIOUS
<1>1. ASSUME NEW o \in Operators, NEW ttl \in Ttls, Pause(o, ttl)
      PROVE  BellInv'
  <2>1. clock + ttl \in 0..MaxTime
    BY <1>1, BellAssumption DEF Pause, BellInv, TypeOK
  <2>2. QED
    BY <1>1, <2>1, CallPreserves DEF Pause
<1>2. ASSUME NEW o \in Operators, Resume(o)
      PROVE  BellInv'
  <2>1. clock \in 0..MaxTime
    BY DEF BellInv, TypeOK
  <2>2. QED
    BY <1>2, <2>1, CallPreserves DEF Resume
<1>3. QED
  BY <1>1, <1>2, AppendEventPreserves, AppendFailsPreserves, PushRowPreserves, TickPreserves
     DEF Next, OperatorStep

LEMMA BellInvariance == Spec => []BellInv
BY BellInitial, BellInductive, PTL DEF Spec

-----------------------------------------------------------------------------
(* Theorems *)

\* Clock, history, ledger and calls stay well-typed.
THEOREM BellTypeCorrect == Spec => []TypeOK
<1>1. BellInv => TypeOK
  BY DEF BellInv
<1>2. QED
  BY <1>1, BellInvariance, PTL

\* No state of the bell is ever read that the signed ledger does not tell, and
\* no two rows rest on one event.
THEOREM AuditLeads == Spec => []AuditLeadsState
<1>1. BellInv => AuditLeadsState
  BY DEF BellInv, AuditLeadsState, RecordedFirst, Recorded, OneCallOneRow
<1>2. QED
  BY <1>1, BellInvariance, PTL

\* A step moves the row in force as one arrival would, or not at all.
ArrivesOrStutters ==
  \/ InForce' = InForce
  \/ \E row \in Transition : /\ history' = Append(history, row)
                             /\ InForce' = row
                             /\ InForce = NoOrder \/ ~(row.at < InForce.at)

LEMMA StepArrives ==
  BellInv /\ BellInv' /\ LatestIsInForce /\ LatestIsInForce' /\ [Next]_vars => ArrivesOrStutters
<1> SUFFICES ASSUME BellInv, BellInv', LatestIsInForce, LatestIsInForce', [Next]_vars
             PROVE  ArrivesOrStutters
  OBVIOUS
<1>1. ASSUME NEW o \in Operators, PushRow(o)
      PROVE  ArrivesOrStutters
  <2>1. history' = Append(history, order[o]) /\ order[o] \in Transition
    BY <1>1, EntryOfFacts DEF PushRow, BellInv, Busy
  <2>2. InForce' = IF InForce # NoOrder /\ order[o].at < InForce.at THEN InForce ELSE order[o]
    BY <2>1, RowArrives DEF BellInv
  <2>3. QED
    BY <2>1, <2>2 DEF ArrivesOrStutters
<1>2. CASE UNCHANGED history
  BY <1>2 DEF ArrivesOrStutters, InForce, IsLatest
<1>3. QED
  BY <1>1, <1>2
     DEF Next, OperatorStep, Pause, Resume, Call, AppendEvent, AppendFails, Tick, vars

\* However late an older order arrives, it does not displace a newer one: the
\* history is one order in force.
THEOREM BellImplementsLatestOrder == Spec => ImplementsLatestOrder
<1>1. Init => Latest!Init
  BY DEF Init, InForce, Latest!Init
<1>2. BellInv /\ BellInv' /\ LatestIsInForce /\ LatestIsInForce' /\ [Next]_vars
        => [Latest!Next]_InForce
  <2>1. ArrivesOrStutters => [Latest!Next]_InForce
    BY DEF ArrivesOrStutters, Latest!Next, Latest!Arrive
  <2>2. QED
    BY <2>1, StepArrives
<1>3. BellInv => LatestIsInForce
  BY LatestInForce DEF BellInv
<1>4. QED
  BY <1>1, <1>2, <1>3, BellInvariance, PTL DEF Spec, ImplementsLatestOrder, Latest!Spec

\* A pause ends by its TTL or by an order at least as new, and in no other way.
THEOREM PausesHold == Spec => PauseHolds
<1> DEFINE Holds == IsPaused(clock) /\ ~IsPaused(clock)' =>
                      \/ clock' >= InForce.expires
                      \/ Len(history') > Len(history) /\ history'[Len(history')].at >= InForce.at
<1>1. BellInv /\ BellInv' /\ LatestIsInForce /\ LatestIsInForce' /\ [Next]_vars => Holds
  <2> SUFFICES ASSUME BellInv, BellInv', LatestIsInForce, LatestIsInForce', [Next]_vars,
                      IsPaused(clock), ~IsPaused(clock)'
               PROVE  \/ clock' >= InForce.expires
                      \/ Len(history') > Len(history) /\ history'[Len(history')].at >= InForce.at
    OBVIOUS
  <2>1. InForce # NoOrder /\ InForce \in Transition
    <3>1. history # <<>>
      BY DEF IsPaused, InForce
    <3>2. PICK i \in DOMAIN history : IsLatest(i)
      BY <3>1 DEF BellInv, LatestExists
    <3>3. QED
      BY <3>2, HistoryFacts DEF LatestIsInForce, BellInv
  <2>2. CASE InForce' = InForce
    BY <2>1, <2>2 DEF IsPaused, BellInv, TypeOK, Transition
  <2>3. ASSUME NEW row \in Transition, history' = Append(history, row), ~(row.at < InForce.at)
        PROVE  Len(history') > Len(history) /\ history'[Len(history')].at >= InForce.at
    <3>1. Len(history') = Len(history) + 1 /\ history'[Len(history')] = row /\ Len(history) \in Nat
      BY <2>3 DEF BellInv, TypeOK
    <3>2. row.at \in Nat /\ InForce.at \in Nat
      BY <2>1 DEF Transition
    <3>3. QED
      BY <2>3, <3>1, <3>2
  <2>4. QED
    BY <2>1, <2>2, <2>3, StepArrives DEF ArrivesOrStutters
<1>2. BellInv => LatestIsInForce
  BY LatestInForce DEF BellInv
<1>3. QED
  BY <1>1, <1>2, BellInvariance, PTL DEF Spec, PauseHolds
=============================================================================
