------------------------------ MODULE KillBell ------------------------------
(***************************************************************************)
(* KillBell: the global pause of the control plane.  Operators call        *)
(* pause() and resume() concurrently; each call reads its `now`, awaits    *)
(* the ledger append and then pushes a row to the shared history.  Rows    *)
(* may thus arrive in another order than the calls were made, and a call   *)
(* may fail in between.  current() and downgrade_if_paused() only read.    *)
(***************************************************************************)
EXTENDS Naturals, Sequences

CONSTANTS
  Operators,   \* callers of pause() and resume()
  Ttls,        \* ttl_seconds an operator may give, in ticks of the clock
  MaxTime,     \* bound: last tick of the clock
  MaxCalls,    \* bound: calls made
  LedgerFaults,\* how append may fail: "refused" before, "answer_lost" after recording
  NoOrder      \* what an operator holds between calls, and no row in force

ASSUME BellAssumption ==
  /\ Ttls \subseteq Nat /\ MaxTime \in Nat /\ MaxCalls \in Nat
  /\ LedgerFaults \subseteq {"refused", "answer_lost"}

VARIABLES
  clock,       \* the shared clock
  history,     \* Vec<Transition>, in order of arrival
  entries,     \* the launch ledger
  calls,       \* calls made so far
  stage,       \* where each operator's call stands
  order        \* the transition it is to push

vars == <<clock, history, entries, calls, stage, order>>

\* A Transition: an Armed row is over at once, a Paused row at its expiry. The
\* call that wrote it is named for the properties only.
Transition ==
  [kind : {"Armed", "Paused"}, at : 0..MaxTime, expires : 0..MaxTime, call : 1..MaxCalls]

\* An event is named by a fresh UUID, here the call's number; its payload is
\* the order.
KillBellEntry ==
  [id : 1..MaxCalls, kind : {"KillBellEngaged", "KillBellResumed"},
   body : Transition, algo : {"ed25519"}]

ASSUME OrderAssumption == NoOrder \notin Transition

Ledger == INSTANCE LaunchLedger WITH Entry <- KillBellEntry

-----------------------------------------------------------------------------
(* Reading the bell *)

\* A bug of current(): the row pushed last wins.
LastPushed(i) == i \in DOMAIN history /\ \A j \in DOMAIN history : j <= i

\* max_by(at): the row whose call read the latest time, the last of equals.
IsLatest(i) ==
  /\ i \in DOMAIN history
  /\ \A j \in DOMAIN history :
       \/ history[j].at < history[i].at
       \/ history[j].at = history[i].at /\ j <= i

InForce == IF history = <<>> THEN NoOrder ELSE history[CHOOSE i \in DOMAIN history : IsLatest(i)]

\* A bug of current(): a pause outlives its TTL.
PausedForGood(now) == InForce # NoOrder /\ InForce.kind = "Paused"

\* A bug of current(): a pause ends one tick early.
PausedUntilJustBefore(now) ==
  InForce # NoOrder /\ InForce.kind = "Paused" /\ now + 1 < InForce.expires

\* current(): paused by the row in force until, and not at, its expiry.
IsPaused(now) ==
  /\ InForce # NoOrder
  /\ InForce.kind = "Paused"
  /\ now < InForce.expires

\* downgrade_if_paused(): the hot-path check of the dispatch loop.
DowngradeIfPaused(decision, now) ==
  IF IsPaused(now) THEN "RequireHuman" ELSE decision

-----------------------------------------------------------------------------
(* Steps *)

Init ==
  /\ clock = 0
  /\ history = <<>>
  /\ Ledger!LedgerInit
  /\ calls = 0
  /\ stage = [o \in Operators |-> "idle"]
  /\ order = [o \in Operators |-> NoOrder]

\* A call reads the time, fixes its row and signs its entry.
Call(o, kind, expires) ==
  /\ stage[o] = "idle" /\ calls < MaxCalls
  /\ calls' = calls + 1
  /\ order' = [order EXCEPT ![o] =
                 [kind |-> kind, at |-> clock, expires |-> expires, call |-> calls + 1]]
  /\ stage' = [stage EXCEPT ![o] = "append"]
  /\ UNCHANGED <<clock, history, entries>>

\* pause(), with a TTL that ends within the modelled time.
Pause(o, ttl) ==
  /\ clock + ttl <= MaxTime
  /\ Call(o, "Paused", clock + ttl)

\* resume()
Resume(o) == Call(o, "Armed", clock)

EntryOf(o) ==
  [id |-> order[o].call,
   kind |-> IF order[o].kind = "Paused" THEN "KillBellEngaged" ELSE "KillBellResumed",
   body |-> order[o], algo |-> "ed25519"]

\* The end of a call, with an error or without.
Return(o) ==
  /\ stage' = [stage EXCEPT ![o] = "idle"]
  /\ order' = [order EXCEPT ![o] = NoOrder]

\* A bug of pause(): the row is written without waiting for the ledger.
AppendNothing(o) ==
  /\ stage[o] = "append"
  /\ stage' = [stage EXCEPT ![o] = "push"]
  /\ UNCHANGED <<clock, history, entries, calls, order>>

\* The ledger append succeeds.
AppendEvent(o) ==
  /\ stage[o] = "append"
  /\ Ledger!AppendEntry(EntryOf(o))
  /\ stage' = [stage EXCEPT ![o] = "push"]
  /\ UNCHANGED <<clock, history, calls, order>>

\* The append is an error to the caller: nothing is pushed, whether or not the
\* event reached the ledger.
AppendFails(o) ==
  /\ stage[o] = "append"
  /\ \/ "refused" \in LedgerFaults /\ UNCHANGED entries
     \/ "answer_lost" \in LedgerFaults /\ Ledger!AppendEntry(EntryOf(o))
  /\ Return(o)
  /\ UNCHANGED <<clock, history, calls>>

\* The row arrives in the history.
PushRow(o) ==
  /\ stage[o] = "push"
  /\ history' = Append(history, order[o])
  /\ Return(o)
  /\ UNCHANGED <<clock, entries, calls>>

Tick ==
  /\ clock < MaxTime
  /\ clock' = clock + 1
  /\ UNCHANGED <<history, entries, calls, stage, order>>

OperatorStep(o) ==
  \/ \E ttl \in Ttls : Pause(o, ttl)
  \/ Resume(o)
  \/ AppendEvent(o) \/ AppendFails(o)
  \/ PushRow(o)

Next == Tick \/ \E o \in Operators : OperatorStep(o)

Spec == Init /\ [][Next]_vars

\* Time passes; no operator need ever call again, or come back.
FairSpec == Spec /\ WF_vars(Tick)

-----------------------------------------------------------------------------
(* Properties *)

TypeOK ==
  /\ clock \in 0..MaxTime
  /\ history \in Seq(Transition)
  /\ Ledger!LedgerTypeOK
  /\ calls \in 0..MaxCalls
  /\ stage \in [Operators -> {"idle", "append", "push"}]
  /\ order \in [Operators -> Transition \union {NoOrder}]
  /\ \A o \in Operators : stage[o] # "idle" => order[o] # NoOrder

\* The audit trail leads the state change (kill_bell/mod.rs:124-126): each row
\* of the history, and so whatever current() answers, has in the ledger a
\* signed event of its own that tells exactly this row.
AuditLeadsState ==
  \A i \in DOMAIN history :
    /\ \E k \in DOMAIN entries :
         /\ entries[k].id = history[i].call /\ entries[k].body = history[i]
         /\ entries[k].kind = "KillBellEngaged" <=> history[i].kind = "Paused"
    /\ \A j \in DOMAIN history : history[j].call = history[i].call => i = j

\* Only time, or an order given no earlier than it, ends the pause in force: a
\* resume() that was called before the pause and arrives late does not.
PauseHolds ==
  [][IsPaused(clock) /\ ~IsPaused(clock)' =>
       \/ clock' >= InForce.expires
       \/ Len(history') > Len(history) /\ history'[Len(history')].at >= InForce.at]_vars

\* The history implements one order in force, the latest given.
Latest == INSTANCE LatestOrder WITH Order <- Transition, inForce <- InForce

ImplementsLatestOrder == Latest!Spec

\* The pause of call c is in force and keeps a verdict from merging.
HeldBy(c) ==
  /\ InForce # NoOrder /\ InForce.call = c
  /\ DowngradeIfPaused("AllowMerge", clock) # "AllowMerge"

\* A forgotten pause never bricks the control plane (kill_bell/mod.rs:4-7): no
\* pause holds verdicts back forever, though nobody resumes.
PausesEnd == \A c \in 1..MaxCalls : HeldBy(c) ~> ~HeldBy(c)
=============================================================================
