-------------------------- MODULE McpSessions_proof --------------------------
(***************************************************************************)
(* Proofs about McpSessions, for any number of callers, sessions and requests: *)
(* a call acts alone in its session, under the session's name, a deleted       *)
(* session drains, and what a caller was told stands.  The first two rest on   *)
(* IInv: two handlers never hold the same session, and sessions in use were    *)
(* minted.  The last rests on AnswersInv, further down.                        *)
(***************************************************************************)
EXTENDS McpSessions, FiniteSetTheorems, SequenceTheorems, TLAPS

\* Two handlers do not hold one session.
Alone ==
    \A c, d \in Callers :
        /\ calls[c].at \in Holding /\ calls[d].at \in Holding
        /\ calls[c].sid = calls[d].sid
        => c = d

\* A call that has reached the backend goes by its session's name.
Named ==
    \A c \in Callers : calls[c].at \in Holding \ {"handled"} =>
        /\ state[calls[c].sid].initialized
        /\ state[calls[c].sid].actor = calls[c].actor

IInv == TypeOK /\ Alone /\ Named

-----------------------------------------------------------------------------

LEMMA InitInv == Init => IInv
<1> SUFFICES ASSUME Init PROVE IInv
    OBVIOUS
<1>1. \A c \in Callers : calls[c] = Idle
    BY DEF Init
<1>2. TypeOK
    BY <1>1 DEF Init, TypeOK, Idle, Holding
<1>3. Alone /\ Named
    BY <1>1 DEF Alone, Named, Idle, Holding
<1> QED
    BY <1>2, <1>3 DEF IInv

\* A step that changes at most the request of one caller, and no session, keeps
\* the invariant when that caller had its session already, or lets go of it.
LEMMA OneCallerKeeps ==
    ASSUME IInv, NEW c \in Callers,
           minted' = minted, sessions' \subseteq 1 .. minted, state' = state,
           DOMAIN calls' = Callers,
           \A q \in Callers : q # c => calls'[q] = calls[q],
           DOMAIN calls'[c] = DOMAIN Idle,
           \/ calls'[c].at \in {"idle", "map"}
           \/ /\ calls'[c].at = "session" /\ calls'[c].sid \in 0 .. minted
           \/ /\ calls[c].at \in Holding /\ calls'[c].at = "handled"
              /\ calls'[c].sid = calls[c].sid
           \/ /\ calls[c].at \in Holding \ {"handled"}
              /\ calls'[c].at \in Holding
              /\ calls'[c].sid = calls[c].sid /\ calls'[c].actor = calls[c].actor
    PROVE  IInv'
<1> USE DEF IInv
<1>1. TypeOK'
    BY DEF TypeOK, Idle, Holding
<1>2. Alone'
  <2> SUFFICES ASSUME NEW p \in Callers, NEW q \in Callers,
                      calls'[p].at \in Holding, calls'[q].at \in Holding,
                      calls'[p].sid = calls'[q].sid
               PROVE  p = q
      BY DEF Alone, Holding
  <2>1. \A r \in {p, q} : calls[r].at \in Holding /\ calls'[r].sid = calls[r].sid
      BY DEF Holding
  <2> QED
      BY <2>1 DEF Alone
<1>3. Named'
  <2> SUFFICES ASSUME NEW q \in Callers, calls'[q].at \in Holding \ {"handled"}
               PROVE  /\ state[calls'[q].sid].initialized
                      /\ state[calls'[q].sid].actor = calls'[q].actor
      BY DEF Named, Holding
  <2>1. /\ calls[q].at \in Holding \ {"handled"}
        /\ calls'[q].sid = calls[q].sid /\ calls'[q].actor = calls[q].actor
      BY DEF Holding
  <2> QED
      BY <2>1 DEF Named
<1> QED
    BY <1>1, <1>2, <1>3

\* A new session is nobody's yet.
LEMMA InsertKeeps ==
    ASSUME IInv, NEW c \in Callers, Insert(c)
    PROVE  IInv'
<1> DEFINE sid == minted + 1
<1>1. /\ minted' = sid /\ sessions' = sessions \cup {sid}
      /\ state' = [state EXCEPT ![sid] = calls[c].fresh]
      /\ calls' = [calls EXCEPT ![c] = Idle]
      /\ minted \in Nat /\ sessions \subseteq 1 .. minted
    BY DEF Insert, IInv, TypeOK
<1>2. TypeOK'
  <2>1. minted' \in Nat /\ sessions' \subseteq 1 .. minted' /\ DOMAIN state' = Sessions
      BY <1>1 DEF IInv, TypeOK
  <2>2. ASSUME NEW q \in Callers
        PROVE  /\ DOMAIN calls'[q] = DOMAIN Idle
               /\ calls'[q].at \in {"idle", "map", "session"} \cup Holding
               /\ calls'[q].at \in {"session"} \cup Holding => calls'[q].sid \in 0 .. minted
      BY <1>1 DEF IInv, TypeOK, Idle, Holding
  <2>3. 0 .. minted \subseteq 0 .. minted' /\ DOMAIN calls' = Callers
      BY <1>1 DEF IInv, TypeOK
  <2> QED
      BY <2>1, <2>2, <2>3 DEF TypeOK, Idle
<1>3. \A q \in Callers : calls'[q].at \in Holding =>
          q # c /\ calls'[q] = calls[q] /\ calls[q].sid # sid
    BY <1>1 DEF IInv, TypeOK, Idle, Holding
<1>4. Alone'
    BY <1>3 DEF IInv, Alone, Holding
<1>5. \A s : s # sid => state'[s] = state[s]
    <2> SUFFICES ASSUME NEW s, s # sid PROVE state'[s] = state[s]
        OBVIOUS
    <2>1. CASE s \in DOMAIN state
        BY <1>1, <2>1
    <2>2. CASE s \notin DOMAIN state
        BY <1>1, <2>2
    <2> QED
        BY <2>1, <2>2
<1>6. Named'
    BY <1>3, <1>5 DEF IInv, Named, Holding
<1> QED
    BY <1>2, <1>4, <1>6 DEF IInv

\* The session's lock was free: the handler is its only holder, and no other
\* call goes by the name that may change.
LEMMA HandleKeeps ==
    ASSUME IInv, NEW c \in Callers, Handle(c)
    PROVE  IInv'
<1> DEFINE sid == calls[c].sid
<1>1. /\ calls[c].at = "session" /\ sid \in 0 .. minted
      /\ minted' = minted /\ sessions' = sessions
      /\ state' = [state EXCEPT ![sid] = AfterRequest(state[sid], Request(c))]
      /\ \A q \in Callers : calls[q].at \in Holding => calls[q].sid # sid
    BY DEF Handle, IInv, TypeOK, SessionFree, Holders
<1>2. /\ DOMAIN calls' = Callers
      /\ \A q \in Callers : q # c => calls'[q] = calls[q]
      /\ DOMAIN calls'[c] = DOMAIN Idle /\ calls'[c].sid = sid
    BY <1>1 DEF Handle, IInv, TypeOK, Idle
<1>3. \/ calls'[c].at = "handled"
      \/ /\ calls'[c].at = "backend" /\ calls'[c].actor = state[sid].actor
         /\ ReachesBackend(state[sid], Request(c))
    BY <1>1 DEF Handle, IInv, TypeOK, Idle
<1>4. TypeOK'
  <2>1. DOMAIN state' = Sessions /\ minted' \in Nat /\ sessions' \subseteq 1 .. minted'
      BY <1>1 DEF IInv, TypeOK
  <2>2. ASSUME NEW q \in Callers
        PROVE  /\ DOMAIN calls'[q] = DOMAIN Idle
               /\ calls'[q].at \in {"idle", "map", "session"} \cup Holding
               /\ calls'[q].at \in {"session"} \cup Holding => calls'[q].sid \in 0 .. minted'
      BY <1>1, <1>2, <1>3 DEF IInv, TypeOK, Holding
  <2> QED
      BY <1>2, <2>1, <2>2 DEF TypeOK, Idle
<1>5. Alone'
  <2> SUFFICES ASSUME NEW p \in Callers, NEW q \in Callers,
                      calls'[p].at \in Holding, calls'[q].at \in Holding,
                      calls'[p].sid = calls'[q].sid, p # q
               PROVE  FALSE
      BY DEF Alone, Holding
  <2> QED
      BY <1>1, <1>2 DEF IInv, Alone
<1>6. Named'
  <2> SUFFICES ASSUME NEW q \in Callers, calls'[q].at \in Holding \ {"handled"}
               PROVE  /\ state'[calls'[q].sid].initialized
                      /\ state'[calls'[q].sid].actor = calls'[q].actor
      BY DEF Named, Holding
  <2>1. CASE q # c
    <3>1. calls'[q] = calls[q] /\ calls[q].at \in Holding \ {"handled"} /\ calls[q].sid # sid
        BY <1>1, <1>2, <2>1 DEF Holding
    <3>2. state'[calls[q].sid] = state[calls[q].sid]
        BY <1>1, <3>1
    <3> QED
        BY <3>1, <3>2 DEF IInv, Named
  <2>2. CASE q = c
    <3>1. calls'[c].actor = state[sid].actor /\ ReachesBackend(state[sid], Request(c))
        BY <1>3, <2>2 DEF Holding
    <3>2. AfterRequest(state[sid], Request(c)) = state[sid] /\ state[sid].initialized
        BY <3>1 DEF ReachesBackend, AfterRequest, Initializes, IsNotification, IsHandled
    <3>3. state'[sid] = state[sid]
        BY <1>1, <3>2
    <3> QED
        BY <1>2, <2>2, <3>1, <3>2, <3>3
  <2> QED
      BY <2>1, <2>2
<1> QED
    BY <1>4, <1>5, <1>6 DEF IInv

\* What a step of one caller must do for OneCallerKeeps to apply to it.
OnlyThis(c) ==
    /\ minted' = minted /\ sessions' \subseteq sessions /\ state' = state
    /\ DOMAIN calls' = Callers
    /\ \A q \in Callers : q # c => calls'[q] = calls[q]
    /\ DOMAIN calls'[c] = DOMAIN Idle

LetsGo(c) == calls'[c].at \in {"idle", "map"}

TakesShare(c) == calls'[c].at = "session" /\ calls'[c].sid \in 0 .. minted

IsDone(c) ==
    calls[c].at \in Holding /\ calls'[c].at = "handled" /\ calls'[c].sid = calls[c].sid

GoesOn(c) ==
    /\ calls[c].at \in Holding \ {"handled"} /\ calls'[c].at \in Holding
    /\ calls'[c].sid = calls[c].sid /\ calls'[c].actor = calls[c].actor

LEMMA OnlyThisKeeps ==
    ASSUME IInv, NEW c \in Callers, OnlyThis(c),
           LetsGo(c) \/ TakesShare(c) \/ IsDone(c) \/ GoesOn(c)
    PROVE  IInv'
<1>1. sessions' \subseteq 1 .. minted
    BY DEF OnlyThis, IInv, TypeOK
<1> QED
    BY <1>1, OneCallerKeeps DEF OnlyThis, LetsGo, TakesShare, IsDone, GoesOn

LEMMA NextKeeps == IInv /\ [Next]_vars => IInv'
<1> SUFFICES ASSUME IInv, [Next]_vars PROVE IInv'
    OBVIOUS
<1>t. /\ DOMAIN calls = Callers /\ minted \in Nat /\ sessions \subseteq 1 .. minted
      /\ \A q \in Callers : DOMAIN calls[q] = DOMAIN Idle
    BY DEF IInv, TypeOK
<1>1. ASSUME NEW c \in HttpCallers, NEW r \in HttpRequests,
             NEW sid \in (1 .. minted) \cup {NoSession}, Arrive(c, r, sid)
      PROVE  IInv'
  <2>1. CASE calls' = calls
      <3>1. minted' = minted /\ sessions' = sessions /\ state' = state
          BY <1>1 DEF Arrive
      <3> QED
          BY <2>1, <3>1 DEF IInv, TypeOK, Alone, Named, Holding
  <2>2. CASE calls' # calls
      <3> DEFINE call == [Idle EXCEPT !.at = "map", !.sid = sid, !.todo = <<r>>,
                                      !.n = requests + 1,
                                      !.fresh = AfterRequest(FreshSession, r)]
      <3>1. c \in Callers /\ calls' = [calls EXCEPT ![c] = call]
          BY <1>1, <2>2 DEF Arrive, Callers
      <3>2. DOMAIN call = DOMAIN Idle /\ call.at = "map"
          BY DEF Idle
      <3>3. calls'[c] = call /\ DOMAIN calls' = Callers
            /\ \A q \in Callers : q # c => calls'[q] = calls[q]
          BY <1>t, <3>1
      <3>4. OnlyThis(c)
          BY <1>1, <3>2, <3>3 DEF Arrive, OnlyThis
      <3>5. LetsGo(c)
          BY <3>2, <3>3 DEF LetsGo
      <3> QED
          BY <3>1, <3>4, <3>5, OnlyThisKeeps
  <2> QED
      BY <2>1, <2>2
<1>2. ASSUME NEW c \in Pipes, NEW line \in PipeLines, ReadLine(c, line)
      PROVE  IInv'
  <2>1. c \in Callers /\ OnlyThis(c) /\ TakesShare(c)
      BY <1>2, <1>t DEF ReadLine, Callers, OnlyThis, TakesShare, Idle, PipeSession
  <2> QED
      BY <2>1, OnlyThisKeeps
<1>3. ASSUME NEW c \in Callers, Step(c) \/ StopWaiting(c) \/ Cancel(c) \/ LoseAnswer(c)
      PROVE  IInv'
  <2>1. CASE Insert(c)
      BY <2>1, InsertKeeps
  <2>2. CASE Handle(c)
      BY <2>2, HandleKeeps
  <2>3. CASE LookUp(c)
      <3>1. OnlyThis(c) /\ (LetsGo(c) \/ TakesShare(c))
          BY <1>t, <2>3 DEF LookUp, OnlyThis, LetsGo, TakesShare, Idle
      <3> QED
          BY <3>1, OnlyThisKeeps
  <2>4. CASE Delete(c)
      <3>1. OnlyThis(c) /\ (LetsGo(c))
          BY <1>t, <2>4 DEF Delete, OnlyThis, LetsGo, Idle
      <3> QED
          BY <3>1, OnlyThisKeeps
  <2>5. CASE Read(c)
      <3>1. OnlyThis(c) /\ (IsDone(c))
          BY <1>t, <2>5 DEF Read, Handled, Holding, OnlyThis, IsDone, Idle
      <3> QED
          BY <3>1, OnlyThisKeeps
  <2>6. CASE LockBugs(c)
      <3>1. OnlyThis(c) /\ (IsDone(c) \/ GoesOn(c))
          BY <1>t, <2>6 DEF LockBugs, Handled, Holding, OnlyThis, GoesOn, IsDone, Idle
      <3> QED
          BY <3>1, OnlyThisKeeps
  <2>7. CASE WriteBug(c)
      <3>1. OnlyThis(c) /\ (IsDone(c))
          BY <1>t, <2>7 DEF WriteBug, Handled, Holding, OnlyThis, IsDone, Idle
      <3> QED
          BY <3>1, OnlyThisKeeps
  <2>8. CASE UpsertPr(c)
      <3>1. OnlyThis(c) /\ (IsDone(c) \/ GoesOn(c))
          BY <1>t, <2>8 DEF UpsertPr, Handled, Waits, Holding, OnlyThis, GoesOn, IsDone, Idle
      <3> QED
          BY <3>1, OnlyThisKeeps
  <2>9. CASE ApplyScopedPatch(c)
      <3>1. OnlyThis(c) /\ (IsDone(c))
          BY <1>t, <2>9 DEF ApplyScopedPatch, Handled, Holding, OnlyThis, IsDone, Idle
      <3> QED
          BY <3>1, OnlyThisKeeps
  <2>10. CASE RequestMerge(c)
      <3>1. OnlyThis(c) /\ (IsDone(c))
          BY <1>t, <2>10 DEF RequestMerge, Handled, Holding, OnlyThis, IsDone, Idle
      <3> QED
          BY <3>1, OnlyThisKeeps
  <2>11. CASE StartWaiting(c)
      <3>1. OnlyThis(c) /\ (GoesOn(c))
          BY <1>t, <2>11 DEF StartWaiting, Waits, Holding, OnlyThis, GoesOn, Idle
      <3> QED
          BY <3>1, OnlyThisKeeps
  <2>12. CASE NextOfBatch(c)
      <3>1. OnlyThis(c) /\ (TakesShare(c))
          BY <1>t, <2>12 DEF NextOfBatch, Holding, OnlyThis, TakesShare, Idle, IInv, TypeOK
      <3> QED
          BY <3>1, OnlyThisKeeps
  <2>13. CASE Answer(c)
      <3>1. OnlyThis(c) /\ (LetsGo(c))
          BY <1>t, <2>13 DEF Answer, OnlyThis, LetsGo, Idle
      <3> QED
          BY <3>1, OnlyThisKeeps
  <2>14. CASE StopWaiting(c)
      <3>1. OnlyThis(c) /\ (IsDone(c))
          BY <1>t, <2>14 DEF StopWaiting, Handled, Holding, OnlyThis, IsDone, Idle
      <3> QED
          BY <3>1, OnlyThisKeeps
  <2>15. CASE Cancel(c)
      <3>1. OnlyThis(c) /\ (LetsGo(c))
          BY <1>t, <2>15 DEF Cancel, OnlyThis, LetsGo, Idle
      <3> QED
          BY <3>1, OnlyThisKeeps
  <2>16. CASE LoseAnswer(c)
      <3>1. OnlyThis(c) /\ (LetsGo(c))
          BY <1>t, <2>16 DEF LoseAnswer, OnlyThis, LetsGo, Idle
      <3> QED
          BY <3>1, OnlyThisKeeps
  <2> QED
      BY <1>3, <2>1, <2>2, <2>3, <2>4, <2>5, <2>6, <2>7, <2>8, <2>9, <2>10, <2>11, <2>12, <2>13, <2>14, <2>15, <2>16 DEF Step
<1>4. CASE UNCHANGED vars
    BY <1>4 DEF vars, IInv, TypeOK, Alone, Named, Holding
<1> QED
    BY <1>1, <1>2, <1>3, <1>4 DEF Next

THEOREM InvariantHolds == Spec => []IInv
<1> QED
    BY InitInv, NextKeeps, PTL DEF Spec

-----------------------------------------------------------------------------

LEMMA InvIsolates == IInv => InTheirSession
<1> SUFFICES ASSUME IInv, NEW c \in Callers, calls[c].at \in Holding \ {"handled"}
             PROVE  /\ Holders(calls[c].sid) = {c}
                    /\ state[calls[c].sid].initialized
                    /\ state[calls[c].sid].actor = calls[c].actor
    BY DEF InTheirSession
<1>1. Holders(calls[c].sid) = {c}
    BY DEF IInv, Alone, Holders
<1> QED
    BY <1>1 DEF IInv, Named

\* Every call that reaches the backend has its session to itself, and acts
\* under the session's name, however many callers share it.
THEOREM CallsAreIsolated == Spec => []InTheirSession
<1> QED
    BY InvariantHolds, InvIsolates, PTL

\* A step of a caller leaves a deleted session deleted, and no new handler in it.
LEMMA StepDrains ==
    ASSUME IInv, [Next]_vars, NEW sid \in (1 .. minted) \ sessions
    PROVE  sid \notin sessions' /\ Users(sid)' \subseteq Users(sid)
<1>t. /\ DOMAIN calls = Callers /\ minted \in Nat /\ sessions \subseteq 1 .. minted
      /\ \A q \in Callers : DOMAIN calls[q] = DOMAIN Idle
    BY DEF IInv, TypeOK
<1>s. SUFFICES ASSUME NEW q \in Callers,
                      calls'[q].sid = sid, calls'[q].at \in Holding \cup {"session"}
               PROVE  calls[q].sid = sid /\ calls[q].at \in Holding \cup {"session"}
  <2>1. sessions' \subseteq sessions \/ sessions' = sessions \cup {minted + 1}
    <3>1. ASSUME NEW c \in Callers, Step(c) \/ StopWaiting(c) \/ Cancel(c) \/ LoseAnswer(c)
          PROVE  sessions' \subseteq sessions \/ sessions' = sessions \cup {minted + 1}
        BY <3>1 DEF Step, Insert, LookUp, Delete, Handle, Read, LockBugs, WriteBug, UpsertPr,
              ApplyScopedPatch, RequestMerge, StartWaiting, StopWaiting, NextOfBatch, Answer,
              Cancel, LoseAnswer
    <3> QED
        BY <3>1 DEF Next, vars, Arrive, ReadLine
  <2>2. sid \notin sessions'
      BY <1>t, <2>1
  <2> QED
      BY <2>2 DEF Users
<1>1. ASSUME NEW c \in HttpCallers, NEW r \in HttpRequests,
             NEW to \in (1 .. minted) \cup {NoSession}, Arrive(c, r, to)
      PROVE  calls[q].sid = sid /\ calls[q].at \in Holding \cup {"session"}
  <2>1. calls'[c] = calls[c] \/ calls'[c].at = "map"
    <3> DEFINE call == [Idle EXCEPT !.at = "map", !.sid = to, !.todo = <<r>>,
                                    !.n = requests + 1,
                                    !.fresh = AfterRequest(FreshSession, r)]
    <3>1. c \in Callers /\ (calls' = calls \/ calls' = [calls EXCEPT ![c] = call])
        BY <1>1 DEF Arrive, Callers
    <3>2. call.at = "map"
        BY DEF Idle
    <3> QED
        BY <1>t, <3>1, <3>2
  <2>2. q # c => calls'[q] = calls[q]
      BY <1>1, <1>t DEF Arrive
  <2> QED
      BY <2>1, <2>2, <1>s DEF Holding
<1>2. ASSUME NEW c \in Pipes, NEW line \in PipeLines, ReadLine(c, line)
      PROVE  calls[q].sid = sid /\ calls[q].at \in Holding \cup {"session"}
  <2>1. calls'[c].sid = 0 /\ (q # c => calls'[q] = calls[q])
      BY <1>2, <1>t DEF ReadLine, Idle, Callers, PipeSession
  <2> QED
      BY <2>1, <1>s
<1>3. ASSUME NEW c \in Callers, Step(c) \/ StopWaiting(c) \/ Cancel(c) \/ LoseAnswer(c)
      PROVE  calls[q].sid = sid /\ calls[q].at \in Holding \cup {"session"}
  <2>1. q # c => calls'[q] = calls[q]
      BY <1>3, <1>t DEF Step, Insert, LookUp, Delete, Handle, Read,
            LockBugs, WriteBug, UpsertPr, ApplyScopedPatch, RequestMerge, StartWaiting,
            StopWaiting, NextOfBatch, Answer, Cancel, LoseAnswer, Handled, Waits
  <2>2. CASE LookUp(c) /\ q = c
      BY <2>2, <1>s, <1>t DEF LookUp, Idle, Holding
  <2>3. CASE (Insert(c) \/ Delete(c) \/ Answer(c) \/ Cancel(c) \/ LoseAnswer(c)) /\ q = c
      BY <2>3, <1>s, <1>t DEF Insert, Delete, Answer, Cancel, LoseAnswer, Idle, Holding
  <2>4. CASE (Handle(c) \/ NextOfBatch(c) \/ StartWaiting(c) \/ StopWaiting(c)) /\ q = c
      BY <2>4, <1>s, <1>t DEF Handle, NextOfBatch, StartWaiting, StopWaiting, Handled, Waits,
            Idle, Holding
  <2>5. CASE (Read(c) \/ LockBugs(c) \/ WriteBug(c)) /\ q = c
      BY <2>5, <1>s, <1>t DEF Read, LockBugs, WriteBug, Handled, Idle, Holding
  <2>6. CASE (UpsertPr(c) \/ ApplyScopedPatch(c) \/ RequestMerge(c)) /\ q = c
      BY <2>6, <1>s, <1>t DEF UpsertPr, ApplyScopedPatch, RequestMerge, Handled, Waits,
            Idle, Holding
  <2> QED
      BY <1>3, <1>s, <2>1, <2>2, <2>3, <2>4, <2>5, <2>6 DEF Step
<1>4. CASE UNCHANGED vars
    BY <1>4, <1>s DEF vars
<1> QED
    BY <1>1, <1>2, <1>3, <1>4 DEF Next

\* A deleted session drains: it never comes back, and only the handlers that had
\* found it before are still in it.
THEOREM SessionsDrain == Spec => DeletedSessionsDrain
<1>1. IInv /\ [Next]_vars =>
        [\A sid \in (1 .. minted) \ sessions :
            sid \notin sessions' /\ Users(sid)' \subseteq Users(sid)]_vars
    BY StepDrains
<1> QED
    BY <1>1, InvariantHolds, PTL DEF Spec, DeletedSessionsDrain

-----------------------------------------------------------------------------
(* What callers are told stands.  Every request has a number of its own; one    *)
(* that is yet to act has left no trace under it, and a trace is never removed. *)

Bug == [id : Nat, report : Nat, attempts : Seq(Nat), update : Nat]

\* The numbers of a caller's requests, and of those that have yet to act.
Mine(c) ==
    IF calls[c].at = "idle" THEN {}
    ELSE calls[c].n .. calls[c].n + Len(calls[c].todo) - 1

Unsettled(c) == IF calls[c].at = "handled" THEN Mine(c) \ {calls[c].n} ELSE Mine(c)

\* Outcomes, told or about to be.
Settled == told \cup UNION {calls[c].out : c \in Callers}

NoRecord(n) ==
    /\ \A id \in DOMAIN bugs : \A k \in DOMAIN bugs[id].attempts : bugs[id].attempts[k] # n
    /\ \A i \in DOMAIN receipts : receipts[i].n # n

NoTrace(n) ==
    /\ NoRecord(n)
    /\ \A t \in Settled : t.n # n

Stands(t) ==
    /\ t.tool = "bug_submit" => t.bug \in DOMAIN bugs /\ bugs[t.bug].report = t.n
    /\ t.tool = "bug_record_attempt" =>
          Cardinality(Attempts(t.n)) = (IF t.ok THEN 1 ELSE 0)
    /\ t.tool = "propose_patch" =>
          Cardinality(Receipts(t.n)) = (IF t.ok THEN 1 ELSE 0)

RecordsOK ==
    /\ bugs \in Seq(Bug) /\ \E S : receipts \in Seq(S)
    /\ \A id \in DOMAIN bugs : bugs[id].id = id
    /\ \A i \in DOMAIN receipts : receipts[i].paths \subseteq AllowedPaths

CallOK(c) ==
    /\ calls[c].n \in Nat
    /\ \E S : calls[c].todo \in Seq(S)
    /\ calls[c].at # "idle" => calls[c].todo # <<>>

NumbersOK ==
    /\ requests \in Nat
    /\ \A c \in Callers : CallOK(c)
    /\ \A c \in Callers : Mine(c) \subseteq 1 .. requests
    /\ \A c, d \in Callers : c # d => Mine(c) \cap Mine(d) = {}

\* A call inside a mutex, or waiting, is of a tool that gets there.
InsideOK(c) ==
    /\ calls[c].at = "bugs" =>
          /\ Call(c).tool \in {"bug_submit", "bug_update", "bug_record_attempt"}
          /\ IF Call(c).tool = "bug_submit" THEN calls[c].bug = Len(bugs) + 1
             ELSE calls[c].bug \in DOMAIN bugs
    /\ calls[c].at = "bridge" => Call(c).tool = "propose_patch"
    /\ calls[c].at = "waiting" => Call(c).tool = "session_wait_for"

LocksOK ==
    /\ \A c \in Callers : InsideOK(c)
    /\ \A c, d \in Callers : calls[c].at = "bugs" /\ calls[d].at = "bugs" => c = d

TracesOK ==
    /\ \A n \in Nat : n > requests => NoTrace(n)
    /\ \A c \in Callers : \A n \in Unsettled(c) : NoTrace(n)
    /\ \A t \in Settled : Stands(t)

AnswersInv == IInv /\ RecordsOK /\ NumbersOK /\ LocksOK /\ TracesOK

-----------------------------------------------------------------------------
(* Counting traces.                                                        *)

LEMMA AttemptIs ==
    ASSUME NEW n, NEW p
    PROVE  p \in Attempts(n) <=>
           \E id \in DOMAIN bugs : \E k \in DOMAIN bugs[id].attempts :
               p = <<id, k>> /\ bugs[id].attempts[k] = n
    BY DEF Attempts

\* Without a trace there is nothing to count.
LEMMA NoTraceCounts ==
    ASSUME NEW n, NoTrace(n)
    PROVE  Cardinality(Attempts(n)) = 0 /\ Cardinality(Receipts(n)) = 0
<1>1. Attempts(n) = {}
    BY AttemptIs DEF NoTrace, NoRecord
<1>2. Receipts(n) = {}
    BY DEF NoTrace, NoRecord, Receipts
<1> QED
    BY <1>1, <1>2, FS_EmptySet

\* While the records stay, so does what is counted in them.
LEMMA RecordsStay ==
    ASSUME bugs' = bugs, receipts' = receipts
    PROVE  RecordsOK => RecordsOK' /\ \A t : Stands(t)' <=> Stands(t)
    BY DEF RecordsOK, Stands, Attempts, Receipts

-----------------------------------------------------------------------------
(* Steps that leave the records alone.                                     *)

\* The traces of a caller's request are not those of another's.
LEMMA TracesApart ==
    ASSUME AnswersInv, NEW c \in Callers, NEW d \in Callers, c # d,
           NEW m \in Unsettled(c)
    PROVE  m \in 1 .. requests /\ m \notin Mine(d) /\ m \notin Unsettled(d)
<1>1. m \in Mine(c)
    BY DEF Unsettled
<1> QED
    BY <1>1 DEF AnswersInv, NumbersOK, Unsettled

\* A step of one caller that writes no record: its new requests are numbered
\* from where the count was, and outcomes it adds are of what is settled now.
LEMMA QuietKeeps ==
    ASSUME AnswersInv, IInv', NEW c \in Callers, NEW added,
           bugs' = bugs, receipts' = receipts,
           requests' \in Nat, requests' >= requests,
           \A q \in Callers : q # c => calls'[q] = calls[q],
           CallOK(c)', InsideOK(c)',
           calls'[c].at = "bugs" => BugsFree,
           Mine(c)' \subseteq Mine(c) \cup (requests + 1 .. requests'),
           Unsettled(c)' \subseteq Unsettled(c) \cup (requests + 1 .. requests'),
           Settled' \subseteq Settled \cup added,
           \A t \in added : Stands(t) /\ t.n \in Unsettled(c) /\ t.n \notin Unsettled(c)'
    PROVE  AnswersInv'
<1> USE DEF AnswersInv
<1>1. RecordsOK' /\ \A t : Stands(t)' <=> Stands(t)
    BY RecordsStay
<1>2. \A q \in Callers : q # c =>
          /\ Mine(q)' = Mine(q) /\ Unsettled(q)' = Unsettled(q)
          /\ CallOK(q)' <=> CallOK(q)
          /\ InsideOK(q)' <=> InsideOK(q)
    BY DEF Mine, Unsettled, CallOK, InsideOK, Call, Request
<1>3. requests \in Nat /\ \A q \in Callers : Mine(q) \subseteq 1 .. requests
    BY DEF NumbersOK
<1>4. NumbersOK'
  <2>1. \A q \in Callers : CallOK(q)'
      BY <1>2 DEF NumbersOK
  <2>2. \A q \in Callers : Mine(q)' \subseteq 1 .. requests'
      BY <1>2, <1>3
  <2>3. \A q \in Callers : q # c => Mine(q)' \cap Mine(c)' = {}
      BY <1>2, <1>3 DEF NumbersOK
  <2>4. \A p, q \in Callers : p # q => Mine(p)' \cap Mine(q)' = {}
      BY <1>2, <2>3 DEF NumbersOK
  <2> QED
      BY <2>1, <2>2, <2>4 DEF NumbersOK
<1>5. LocksOK'
  <2>1. \A q \in Callers : InsideOK(q)'
      BY <1>2 DEF LocksOK
  <2>2. \A p, q \in Callers : calls'[p].at = "bugs" /\ calls'[q].at = "bugs" => p = q
      BY DEF LocksOK, BugsFree
  <2> QED
      BY <2>1, <2>2 DEF LocksOK
<1>6. ASSUME NEW m, NoTrace(m), \A t \in added : t.n # m
      PROVE  NoTrace(m)'
    BY <1>6 DEF NoTrace, NoRecord
<1>7. \A t \in added : t.n \in 1 .. requests
    BY <1>3 DEF Unsettled
<1>8. TracesOK'
  <2>1. ASSUME NEW m \in Nat, m > requests'
        PROVE  NoTrace(m)'
    <3>1. m > requests /\ NoTrace(m)
        BY <1>3, <2>1 DEF TracesOK
    <3> QED
        BY <1>3, <1>6, <1>7, <3>1
  <2>2. ASSUME NEW q \in Callers, NEW m \in Unsettled(q)'
        PROVE  NoTrace(m)'
    <3>1. CASE q # c
      <4>1. m \in Unsettled(q) /\ NoTrace(m)
          BY <1>2, <2>2, <3>1 DEF TracesOK
      <4>2. m \notin Unsettled(c)
          BY <3>1, <4>1, TracesApart
      <4> QED
          BY <1>6, <4>1, <4>2
    <3>2. CASE q = c /\ m \in Unsettled(c)
        BY <1>6, <2>2, <3>2 DEF TracesOK
    <3>3. CASE q = c /\ m \in requests + 1 .. requests'
      <4>1. m \in Nat /\ m > requests /\ NoTrace(m)
          BY <1>3, <3>3 DEF TracesOK
      <4> QED
          BY <1>3, <1>6, <1>7, <4>1
    <3> QED
        BY <2>2, <3>1, <3>2, <3>3
  <2>3. \A t \in Settled' : Stands(t)'
      BY <1>1 DEF TracesOK
  <2> QED
      BY <2>1, <2>2, <2>3 DEF TracesOK
<1> QED
    BY <1>1, <1>4, <1>5, <1>8

\* The same for a step that adds no outcome.
LEMMA SilentKeeps ==
    ASSUME AnswersInv, IInv', NEW c \in Callers,
           bugs' = bugs, receipts' = receipts,
           requests' \in Nat, requests' >= requests,
           \A q \in Callers : q # c => calls'[q] = calls[q],
           CallOK(c)', InsideOK(c)',
           calls'[c].at = "bugs" => BugsFree,
           Mine(c)' \subseteq Mine(c) \cup (requests + 1 .. requests'),
           Unsettled(c)' \subseteq Unsettled(c) \cup (requests + 1 .. requests'),
           Settled' \subseteq Settled
    PROVE  AnswersInv'
<1> DEFINE none == {}
<1>1. Settled' \subseteq Settled \cup none
    OBVIOUS
<1>2. \A t \in none : Stands(t) /\ t.n \in Unsettled(c) /\ t.n \notin Unsettled(c)'
    OBVIOUS
<1> HIDE DEF none
<1> QED
    BY <1>1, <1>2, QuietKeeps

\* The outcomes after a step that adds some.
LEMMA SettledBy ==
    ASSUME NEW c \in Callers, NEW added,
           \A q \in Callers : q # c => calls'[q] = calls[q],
           told' \subseteq told \cup calls[c].out,
           calls'[c].out \subseteq calls[c].out \cup added
    PROVE  Settled' \subseteq Settled \cup added
    BY DEF Settled

\* A handler that ends.
LEMMA EndKeeps ==
    ASSUME AnswersInv, IInv', NEW c \in Callers,
           bugs' = bugs, receipts' = receipts, requests' = requests,
           \A q \in Callers : q # c => calls'[q] = calls[q],
           calls'[c] = Idle, told' \subseteq told \cup calls[c].out
    PROVE  AnswersInv'
<1>1. /\ CallOK(c)' /\ InsideOK(c)' /\ calls'[c].at # "bugs"
      /\ Mine(c)' = {} /\ Unsettled(c)' = {} /\ calls'[c].out = {}
    BY DEF CallOK, InsideOK, Mine, Unsettled, Idle
<1>2. Settled' \subseteq Settled
    BY <1>1, SettledBy
<1>3. requests' \in Nat /\ requests' >= requests
    BY DEF AnswersInv, NumbersOK
<1> QED
    BY <1>1, <1>2, <1>3, SilentKeeps

\* A handler that goes on with its request.
LEMMA MoveKeeps ==
    ASSUME AnswersInv, IInv', NEW c \in Callers,
           bugs' = bugs, receipts' = receipts, requests' = requests, told' = told,
           \A q \in Callers : q # c => calls'[q] = calls[q],
           calls[c].at \notin {"idle", "handled"}, calls'[c].at \notin {"idle", "handled"},
           calls'[c].n = calls[c].n, calls'[c].todo = calls[c].todo,
           calls'[c].out = calls[c].out,
           InsideOK(c)', calls'[c].at = "bugs" => BugsFree
    PROVE  AnswersInv'
<1>1. /\ CallOK(c)' /\ Mine(c)' = Mine(c) /\ Unsettled(c)' = Unsettled(c)
    BY DEF AnswersInv, NumbersOK, CallOK, Mine, Unsettled
<1>2. Settled' \subseteq Settled
    BY SettledBy
<1>3. requests' \in Nat /\ requests' >= requests
    BY DEF AnswersInv, NumbersOK
<1> QED
    BY <1>1, <1>2, <1>3, SilentKeeps

\* The number of a request that is being handled is one of its caller's.
LEMMA CurrentNumber ==
    ASSUME NumbersOK, NEW c \in Callers, calls[c].at \notin {"idle", "handled"}
    PROVE  calls[c].n \in Unsettled(c) /\ Len(calls[c].todo) \in Nat \ {0}
<1>1. PICK S : calls[c].todo \in Seq(S)
    BY DEF NumbersOK, CallOK
<1>2. calls[c].todo # <<>> /\ calls[c].n \in Nat
    BY DEF NumbersOK, CallOK
<1>3. Len(calls[c].todo) \in Nat \ {0}
    BY <1>1, <1>2
<1> QED
    BY <1>2, <1>3 DEF Mine, Unsettled

\* A handler that is done with its request, having written nothing.
LEMMA DoneKeeps ==
    ASSUME AnswersInv, IInv', NEW c \in Callers, NEW added,
           bugs' = bugs, receipts' = receipts, requests' = requests, told' = told,
           \A q \in Callers : q # c => calls'[q] = calls[q],
           calls[c].at \notin {"idle", "handled"}, calls'[c].at = "handled",
           calls'[c].n = calls[c].n, calls'[c].todo = calls[c].todo,
           calls'[c].out = calls[c].out \cup added,
           \A t \in added : Stands(t) /\ t.n = calls[c].n
    PROVE  AnswersInv'
<1>1. /\ CallOK(c)' /\ InsideOK(c)' /\ Mine(c)' = Mine(c)
      /\ Unsettled(c)' = Unsettled(c) \ {calls[c].n}
    BY DEF AnswersInv, NumbersOK, CallOK, InsideOK, Mine, Unsettled
<1>2. Settled' \subseteq Settled \cup added
    BY SettledBy
<1>3. requests' \in Nat /\ requests' >= requests
    BY DEF AnswersInv, NumbersOK
<1>4. \A t \in added : Stands(t) /\ t.n \in Unsettled(c) /\ t.n \notin Unsettled(c)'
    BY <1>1, CurrentNumber DEF AnswersInv
<1> QED
    BY <1>1, <1>2, <1>3, <1>4, QuietKeeps

\* New requests are numbered on.
LEMMA ArriveKeeps ==
    ASSUME AnswersInv, IInv', NEW c \in HttpCallers, NEW r, NEW sid, Arrive(c, r, sid)
    PROVE  AnswersInv'
<1> DEFINE call == [Idle EXCEPT !.at = "map", !.sid = sid, !.todo = <<r>>,
                                !.n = requests + 1,
                                !.fresh = AfterRequest(FreshSession, r)]
<1>1. /\ c \in Callers /\ requests \in Nat /\ DOMAIN calls = Callers
      /\ requests' = requests + 1 /\ bugs' = bugs /\ receipts' = receipts /\ told' = told
      /\ calls' = calls \/ calls' = [calls EXCEPT ![c] = call]
      /\ calls[c].at = "idle"
    BY DEF Arrive, Callers, AnswersInv, NumbersOK, IInv, TypeOK
<1>2. /\ call.at = "map" /\ call.n = requests + 1 /\ call.todo = <<r>> /\ call.out = {}
      /\ <<r>> \in Seq({r}) /\ Len(<<r>>) = 1 /\ <<r>> # <<>>
    BY DEF Idle
<1> HIDE DEF call
<1>3. requests' \in Nat /\ requests' >= requests
    BY <1>1
<1>4. CASE calls' = calls
  <2>1. /\ CallOK(c)' /\ InsideOK(c)' /\ Mine(c)' = Mine(c) /\ Unsettled(c)' = Unsettled(c)
        /\ calls'[c].at # "bugs"
      BY <1>1, <1>4 DEF AnswersInv, NumbersOK, CallOK, InsideOK, Mine, Unsettled
  <2>2. Settled' \subseteq Settled
      BY <1>1, <1>4 DEF Settled
  <2> QED
      BY <1>1, <1>3, <1>4, <2>1, <2>2, SilentKeeps
<1>5. CASE calls' = [calls EXCEPT ![c] = call]
  <2>1. calls'[c] = call /\ \A q \in Callers : q # c => calls'[q] = calls[q]
      BY <1>1, <1>5
  <2>2. CallOK(c)' /\ InsideOK(c)' /\ calls'[c].at # "bugs"
    <3>1. calls'[c].at = "map" /\ calls'[c].todo \in Seq({r}) /\ Len(calls'[c].todo) = 1
        BY <1>2, <2>1
    <3>2. calls'[c].n \in Nat
        BY <1>1, <1>2, <2>1
    <3>3. calls'[c].todo # <<>>
        BY <1>2, <2>1
    <3> QED
        BY <3>1, <3>2, <3>3 DEF CallOK, InsideOK
  <2>3. Mine(c)' = requests + 1 .. requests' /\ Unsettled(c)' = Mine(c)'
    <3>1. calls'[c].at = "map" /\ calls'[c].n = requests + 1
        BY <1>2, <2>1
    <3>2. Len(calls'[c].todo) = 1
        BY <1>2, <2>1
    <3>3. requests + 1 + 1 - 1 = requests'
        BY <1>1
    <3> QED
        BY <3>1, <3>2, <3>3 DEF Mine, Unsettled
  <2>4. Settled' \subseteq Settled
      BY <1>1, <1>2, <2>1, SettledBy
  <2> QED
      BY <1>1, <1>3, <2>1, <2>2, <2>3, <2>4, SilentKeeps
<1> QED
    BY <1>1, <1>4, <1>5

LEMMA ReadLineKeeps ==
    ASSUME AnswersInv, IInv', NEW c \in Pipes, NEW line \in PipeLines, ReadLine(c, line)
    PROVE  AnswersInv'
<1> DEFINE call == [Idle EXCEPT !.at = "session", !.sid = PipeSession, !.todo = line,
                                !.n = requests + 1]
<1>0. line \in Seq(Range(line)) /\ line # <<>>
    BY McpAssumption
<1>1. /\ c \in Callers /\ requests \in Nat /\ DOMAIN calls = Callers
      /\ requests' = requests + Len(line) /\ bugs' = bugs /\ receipts' = receipts
      /\ told' = told /\ calls' = [calls EXCEPT ![c] = call]
    BY DEF ReadLine, Callers, AnswersInv, NumbersOK, IInv, TypeOK
<1>2. /\ call.at = "session" /\ call.n = requests + 1 /\ call.todo = line /\ call.out = {}
    BY DEF Idle
<1> HIDE DEF call
<1>3. Len(line) \in Nat /\ requests' \in Nat /\ requests' >= requests
    BY <1>0, <1>1
<1>4. calls'[c] = call /\ \A q \in Callers : q # c => calls'[q] = calls[q]
    BY <1>1
<1>5. CallOK(c)' /\ InsideOK(c)' /\ calls'[c].at # "bugs"
    BY <1>0, <1>1, <1>2, <1>4 DEF CallOK, InsideOK
<1>6. Mine(c)' = requests + 1 .. requests' /\ Unsettled(c)' = Mine(c)'
    BY <1>1, <1>2, <1>3, <1>4 DEF Mine, Unsettled
<1>7. Settled' \subseteq Settled
    BY <1>1, <1>2, <1>4, SettledBy
<1> QED
    BY <1>1, <1>3, <1>4, <1>5, <1>6, <1>7, SilentKeeps

LEMMA NextOfBatchKeeps ==
    ASSUME AnswersInv, IInv', NEW c \in Callers, NextOfBatch(c)
    PROVE  AnswersInv'
<1>1. /\ calls[c].at = "handled" /\ Len(calls[c].todo) > 1
      /\ bugs' = bugs /\ receipts' = receipts /\ requests' = requests /\ told' = told
      /\ \A q \in Callers : q # c => calls'[q] = calls[q]
      /\ calls'[c].at = "session" /\ calls'[c].todo = Tail(calls[c].todo)
      /\ calls'[c].n = calls[c].n + 1 /\ calls'[c].out = calls[c].out
    BY DEF NextOfBatch, AnswersInv, IInv, TypeOK, Idle
<1>2. PICK S : calls[c].todo \in Seq(S)
    BY DEF AnswersInv, NumbersOK, CallOK
<1>3. /\ Tail(calls[c].todo) \in Seq(S) /\ Tail(calls[c].todo) # <<>>
      /\ Len(Tail(calls[c].todo)) = Len(calls[c].todo) - 1 /\ Len(calls[c].todo) \in Nat
  <2>1. calls[c].todo # <<>> /\ Len(calls[c].todo) \in Nat
      BY <1>1, <1>2
  <2>2. /\ Tail(calls[c].todo) \in Seq(S)
        /\ Len(Tail(calls[c].todo)) = Len(calls[c].todo) - 1
      BY <1>2, <2>1, HeadTailProperties
  <2>3. Len(Tail(calls[c].todo)) # 0
    <3> DEFINE len == Len(calls[c].todo)
               rest == Len(Tail(calls[c].todo))
    <3>1. len \in Nat /\ len > 1 /\ rest = len - 1
        BY <1>1, <2>1, <2>2
    <3> HIDE DEF len, rest
    <3>2. rest # 0
        BY <3>1
    <3> QED
        BY <3>2 DEF rest
  <2>4. Tail(calls[c].todo) # <<>>
      BY <2>3, EmptySeq
  <2> QED
      BY <2>1, <2>2, <2>4
<1>4. calls[c].n \in Nat /\ requests' \in Nat /\ requests' >= requests
    BY <1>1 DEF AnswersInv, NumbersOK, CallOK
<1>5. CallOK(c)' /\ InsideOK(c)' /\ calls'[c].at # "bugs"
    BY <1>1, <1>3, <1>4 DEF CallOK, InsideOK
<1>6. Mine(c)' \subseteq Mine(c) /\ Unsettled(c)' = Unsettled(c)
  <2> DEFINE len == Len(calls[c].todo)
  <2>1. Mine(c)' = calls[c].n + 1 .. calls[c].n + len - 1
    <3>1. Mine(c)' = (calls[c].n + 1) .. (calls[c].n + 1 + Len(Tail(calls[c].todo)) - 1)
        BY <1>1 DEF Mine
    <3>2. Len(Tail(calls[c].todo)) = len - 1 /\ len \in Nat
        BY <1>3
    <3> HIDE DEF len
    <3>3. calls[c].n + 1 + (len - 1) - 1 = calls[c].n + len - 1
        BY <1>4, <3>2
    <3> QED
        BY <3>1, <3>2, <3>3
  <2>2. Mine(c) = calls[c].n .. calls[c].n + Len(calls[c].todo) - 1
      BY <1>1 DEF Mine
  <2>3. Mine(c)' = Mine(c) \ {calls[c].n}
      BY <1>3, <1>4, <2>1, <2>2
  <2> QED
      BY <1>1, <2>3 DEF Unsettled
<1>7. Settled' \subseteq Settled
    BY <1>1, SettledBy
<1> QED
    BY <1>1, <1>4, <1>5, <1>6, <1>7, SilentKeeps

-----------------------------------------------------------------------------
(* The steps of one caller that write no record.                           *)

\* What the type of calls says of a step's assignment to them.
LEMMA Domains ==
    IInv => DOMAIN calls = Callers /\ \A c \in Callers : DOMAIN calls[c] = DOMAIN Idle
    BY DEF IInv, TypeOK

LEMMA EndingsKeep ==
    ASSUME AnswersInv, IInv', NEW c \in Callers,
           Insert(c) \/ Delete(c) \/ Answer(c) \/ Cancel(c) \/ LoseAnswer(c)
    PROVE  AnswersInv'
<1>1. DOMAIN calls = Callers
    BY Domains DEF AnswersInv
<1>2. /\ bugs' = bugs /\ receipts' = receipts /\ requests' = requests
      /\ told' \subseteq told \cup calls[c].out
      /\ calls' = [calls EXCEPT ![c] = Idle]
    BY DEF Insert, Delete, Answer, Cancel, LoseAnswer
<1>3. calls'[c] = Idle /\ \A q \in Callers : q # c => calls'[q] = calls[q]
    BY <1>1, <1>2
<1> QED
    BY <1>2, <1>3, EndKeeps

\* A step that only changes where the handler is, and what it holds.
MovesTo(c, at) ==
    /\ bugs' = bugs /\ receipts' = receipts /\ requests' = requests /\ told' = told
    /\ \A q \in Callers : q # c => calls'[q] = calls[q]
    /\ calls[c].at \notin {"idle", "handled"} /\ calls'[c].at = at
    /\ calls'[c].n = calls[c].n /\ calls'[c].todo = calls[c].todo
    /\ calls'[c].out = calls[c].out

LEMMA MovesToKeeps ==
    ASSUME AnswersInv, IInv', NEW c \in Callers,
           NEW at \in {"session", "backend"}, MovesTo(c, at)
    PROVE  AnswersInv'
<1>1. InsideOK(c)'
    BY DEF MovesTo, InsideOK
<1> QED
    BY <1>1, MoveKeeps DEF MovesTo

LEMMA LookUpKeeps ==
    ASSUME AnswersInv, IInv', NEW c \in Callers, LookUp(c)
    PROVE  AnswersInv'
<1>1. DOMAIN calls = Callers /\ DOMAIN calls[c] = DOMAIN Idle
    BY Domains DEF AnswersInv
<1>2. /\ bugs' = bugs /\ receipts' = receipts /\ requests' = requests /\ told' = told
      /\ calls[c].at = "map"
    BY DEF LookUp
<1>3. CASE calls' = [calls EXCEPT ![c] = Idle]
  <2>1. calls'[c] = Idle /\ \A q \in Callers : q # c => calls'[q] = calls[q]
      BY <1>1, <1>3
  <2> QED
      BY <1>2, <2>1, EndKeeps
<1>4. CASE calls' = [calls EXCEPT ![c].at = "session"]
  <2>1. MovesTo(c, "session")
      BY <1>1, <1>2, <1>4 DEF MovesTo, Idle
  <2> QED
      BY <2>1, MovesToKeeps
<1> QED
    BY <1>3, <1>4 DEF LookUp

LEMMA HandleAnswers ==
    ASSUME AnswersInv, IInv', NEW c \in Callers, Handle(c)
    PROVE  AnswersInv'
<1>1. DOMAIN calls = Callers /\ DOMAIN calls[c] = DOMAIN Idle
    BY Domains DEF AnswersInv
<1>2. /\ bugs' = bugs /\ receipts' = receipts /\ requests' = requests /\ told' = told
      /\ calls[c].at = "session"
    BY DEF Handle
<1>3. CASE calls' = [calls EXCEPT ![c].at = "handled"]
  <2>1. /\ calls'[c].at = "handled" /\ calls'[c].n = calls[c].n
        /\ calls'[c].todo = calls[c].todo /\ calls'[c].out = calls[c].out \cup {}
        /\ \A q \in Callers : q # c => calls'[q] = calls[q]
      BY <1>1, <1>3 DEF Idle
  <2> DEFINE none == {}
  <2>2. calls'[c].out = calls[c].out \cup none
        /\ \A t \in none : Stands(t) /\ t.n = calls[c].n
      BY <2>1
  <2> HIDE DEF none
  <2> QED
      BY <1>2, <2>1, <2>2, DoneKeeps
<1>4. CASE calls' = [calls EXCEPT ![c].at = "backend",
                                  ![c].actor = state[calls[c].sid].actor]
  <2>1. MovesTo(c, "backend")
      BY <1>1, <1>2, <1>4 DEF MovesTo, Idle
  <2> QED
      BY <2>1, MovesToKeeps
<1> QED
    BY <1>3, <1>4 DEF Handle

\* What a handler adds to the outcomes when the backend is done.
Outcome(c, ok) ==
    [n |-> calls[c].n, tool |-> Call(c).tool, bug |-> calls[c].bug, ok |-> ok]

LEMMA HandledIs ==
    ASSUME IInv, NEW c \in Callers, NEW ok, Handled(c, ok)
    PROVE  /\ calls'[c].at = "handled" /\ calls'[c].n = calls[c].n
           /\ calls'[c].todo = calls[c].todo
           /\ calls'[c].out = calls[c].out \cup {Outcome(c, ok)}
           /\ \A q \in Callers : q # c => calls'[q] = calls[q]
    BY Domains DEF Handled, Outcome, Idle

\* A call that writes nothing and is done.
LEMMA WithoutRecordKeeps ==
    ASSUME AnswersInv, IInv', NEW c \in Callers, NEW ok, Handled(c, ok),
           bugs' = bugs, receipts' = receipts, requests' = requests, told' = told,
           calls[c].at \notin {"idle", "handled"},
           \/ Call(c).tool \notin {"bug_submit", "bug_record_attempt", "propose_patch"}
           \/ Call(c).tool # "bug_submit" /\ ok = FALSE
    PROVE  AnswersInv'
<1> DEFINE outcome == Outcome(c, ok)
           added == {outcome}
<1>1. /\ outcome.n = calls[c].n /\ outcome.tool = Call(c).tool /\ outcome.ok = ok
    BY DEF Outcome
<1>2. /\ calls'[c].at = "handled" /\ calls'[c].n = calls[c].n
      /\ calls'[c].todo = calls[c].todo /\ calls'[c].out = calls[c].out \cup added
      /\ \A q \in Callers : q # c => calls'[q] = calls[q]
    BY HandledIs DEF AnswersInv
<1>3. NoTrace(calls[c].n)
    BY CurrentNumber DEF AnswersInv, TracesOK
<1>4. Cardinality(Attempts(calls[c].n)) = 0 /\ Cardinality(Receipts(calls[c].n)) = 0
    BY <1>3, NoTraceCounts
<1> HIDE DEF outcome
<1>5. Stands(outcome)
    BY <1>1, <1>4 DEF Stands
<1>6. \A t \in added : Stands(t) /\ t.n = calls[c].n
    BY <1>1, <1>5
<1> HIDE DEF added
<1> QED
    BY <1>2, <1>6, DoneKeeps

LEMMA ReadingsKeep ==
    ASSUME AnswersInv, IInv', NEW c \in Callers,
           Read(c) \/ RequestMerge(c) \/ StopWaiting(c)
    PROVE  AnswersInv'
<1>1. /\ bugs' = bugs /\ receipts' = receipts /\ requests' = requests /\ told' = told
      /\ calls[c].at \notin {"idle", "handled"}
    BY DEF Read, RequestMerge, StopWaiting
<1>2. Call(c).tool \in {"get_system_snapshot", "bug_show", "request_merge", "session_wait_for"}
    BY DEF Read, RequestMerge, StopWaiting, AnswersInv, LocksOK, InsideOK
<1>3. PICK ok : Handled(c, ok)
    BY DEF Read, RequestMerge, StopWaiting
<1> QED
    BY <1>1, <1>2, <1>3, WithoutRecordKeeps

LEMMA StartWaitingKeeps ==
    ASSUME AnswersInv, IInv', NEW c \in Callers, StartWaiting(c)
    PROVE  AnswersInv'
<1>1. DOMAIN calls = Callers /\ DOMAIN calls[c] = DOMAIN Idle
    BY Domains DEF AnswersInv
<1>2. MovesTo(c, "waiting") /\ Call(c).tool = "session_wait_for"
    BY <1>1 DEF StartWaiting, Waits, MovesTo, Idle
<1>3. InsideOK(c)'
    BY <1>2 DEF MovesTo, InsideOK, Call, Request
<1> QED
    BY <1>2, <1>3, MoveKeeps DEF MovesTo

LEMMA LockBugsKeeps ==
    ASSUME AnswersInv, IInv', NEW c \in Callers, LockBugs(c)
    PROVE  AnswersInv'
<1>1. DOMAIN calls = Callers /\ DOMAIN calls[c] = DOMAIN Idle
    BY Domains DEF AnswersInv
<1>2. /\ bugs' = bugs /\ receipts' = receipts /\ requests' = requests /\ told' = told
      /\ calls[c].at = "backend" /\ BugsFree
      /\ Call(c).tool \in {"bug_submit", "bug_update", "bug_record_attempt"}
    BY DEF LockBugs
<1>3. ASSUME NEW id, calls' = [calls EXCEPT ![c].at = "bugs", ![c].bug = id],
             IF Call(c).tool = "bug_submit" THEN id = Len(bugs) + 1 ELSE id \in DOMAIN bugs
      PROVE  AnswersInv'
  <2>1. MovesTo(c, "bugs") /\ calls'[c].bug = id
      BY <1>1, <1>2, <1>3 DEF MovesTo, Idle
  <2>2. Call(c)' = Call(c)
      BY <2>1 DEF MovesTo, Call, Request
  <2>3. InsideOK(c)'
      BY <1>2, <1>3, <2>1, <2>2 DEF MovesTo, InsideOK
  <2> QED
      BY <1>2, <2>1, <2>3, MoveKeeps DEF MovesTo
<1>4. CASE Call(c).tool # "bug_submit" /\ Handled(c, FALSE)
    BY <1>2, <1>4, WithoutRecordKeeps
<1> QED
    BY <1>3, <1>4 DEF LockBugs

LEMMA UpsertPrKeeps ==
    ASSUME AnswersInv, IInv', NEW c \in Callers, UpsertPr(c)
    PROVE  AnswersInv'
<1>1. DOMAIN calls = Callers /\ DOMAIN calls[c] = DOMAIN Idle
    BY Domains DEF AnswersInv
<1>2. /\ bugs' = bugs /\ receipts' = receipts /\ requests' = requests /\ told' = told
      /\ calls[c].at = "backend" /\ Call(c).tool = "propose_patch"
    BY DEF UpsertPr
<1>3. CASE Handled(c, FALSE)
    BY <1>2, <1>3, WithoutRecordKeeps
<1>4. CASE Waits(c, "bridge")
  <2>1. MovesTo(c, "bridge")
      BY <1>1, <1>2, <1>4 DEF MovesTo, Waits, Idle
  <2>2. InsideOK(c)'
      BY <1>2, <2>1 DEF MovesTo, InsideOK, Call, Request
  <2> QED
      BY <2>1, <2>2, MoveKeeps DEF MovesTo
<1> QED
    BY <1>3, <1>4 DEF UpsertPr

-----------------------------------------------------------------------------
(* The two steps that write a record.                                      *)

\* A handler that is done, having written under its own number alone.
LEMMA WrittenKeeps ==
    ASSUME AnswersInv, IInv', NEW c \in Callers, NEW ok, Handled(c, ok),
           NEW outcome, outcome = Outcome(c, ok), Stands(outcome)',
           requests' = requests, told' = told,
           calls[c].at \notin {"idle", "handled"},
           RecordsOK',
           \A m : m # calls[c].n /\ NoRecord(m) => NoRecord(m)',
           \A t : t.n # calls[c].n /\ Stands(t) => Stands(t)',
           \A q \in Callers : q # c => InsideOK(q)'
    PROVE  AnswersInv'
<1> USE DEF AnswersInv
<1>1. /\ calls'[c].at = "handled" /\ calls'[c].n = calls[c].n
      /\ calls'[c].todo = calls[c].todo
      /\ calls'[c].out = calls[c].out \cup {outcome}
      /\ \A q \in Callers : q # c => calls'[q] = calls[q]
    BY HandledIs
<1>2. outcome.n = calls[c].n
    BY DEF Outcome
<1>3. calls[c].n \in Unsettled(c) /\ NoTrace(calls[c].n)
    BY CurrentNumber DEF TracesOK
<1>4. \A q \in Callers : q # c =>
          Mine(q)' = Mine(q) /\ Unsettled(q)' = Unsettled(q) /\ (CallOK(q)' <=> CallOK(q))
    BY <1>1 DEF Mine, Unsettled, CallOK
<1>5. Mine(c)' = Mine(c) /\ Unsettled(c)' = Unsettled(c) \ {calls[c].n} /\ CallOK(c)'
    BY <1>1 DEF NumbersOK, Mine, Unsettled, CallOK
<1>6. NumbersOK'
  <2>1. \A q \in Callers : Mine(q)' = Mine(q) /\ CallOK(q)'
      BY <1>4, <1>5 DEF NumbersOK
  <2> QED
      BY <2>1 DEF NumbersOK
<1>7. LocksOK'
  <2>1. InsideOK(c)'
      BY <1>1 DEF InsideOK
  <2>2. \A p, q \in Callers : calls'[p].at = "bugs" /\ calls'[q].at = "bugs" => p = q
      BY <1>1 DEF LocksOK
  <2> QED
      BY <2>1, <2>2 DEF LocksOK
<1>8. Settled' \subseteq Settled \cup {outcome}
    BY <1>1, SettledBy
<1>9. ASSUME NEW m, m # calls[c].n, NoTrace(m)
      PROVE  NoTrace(m)'
    BY <1>2, <1>8, <1>9 DEF NoTrace
<1>10. TracesOK'
  <2>1. ASSUME NEW m \in Nat, m > requests'
        PROVE  NoTrace(m)'
    <3>1. calls[c].n \in 1 .. requests /\ requests \in Nat
        BY <1>3 DEF NumbersOK, Unsettled
    <3>2. m # calls[c].n /\ NoTrace(m)
        BY <2>1, <3>1 DEF TracesOK
    <3> QED
        BY <1>9, <3>2
  <2>2. ASSUME NEW q \in Callers, NEW m \in Unsettled(q)'
        PROVE  NoTrace(m)'
    <3>1. CASE q # c
      <4>1. m \in Unsettled(q) /\ NoTrace(m)
          BY <1>4, <2>2, <3>1 DEF TracesOK
      <4>2. m # calls[c].n
          BY <1>3, <3>1, <4>1, TracesApart
      <4> QED
          BY <1>9, <4>1, <4>2
    <3>2. CASE q = c
        BY <1>5, <1>9, <2>2, <3>2 DEF TracesOK
    <3> QED
        BY <3>1, <3>2
  <2>3. ASSUME NEW t \in Settled'
        PROVE  Stands(t)'
    <3>1. CASE t \in Settled
        BY <1>3, <3>1 DEF TracesOK, NoTrace
    <3>2. CASE t = outcome
        BY <3>2
    <3> QED
        BY <1>8, <2>3, <3>1, <3>2
  <2> QED
      BY <2>1, <2>2, <2>3 DEF TracesOK
<1> QED
    BY <1>6, <1>7, <1>10

LEMMA Appended ==
    ASSUME NEW S, NEW q \in Seq(S), NEW e
    PROVE  /\ Append(q, e) \in Seq(S \cup {e})
           /\ Len(q) \in Nat /\ DOMAIN q = 1 .. Len(q)
           /\ DOMAIN Append(q, e) = 1 .. Len(q) + 1
           /\ \A i \in 1 .. Len(q) : Append(q, e)[i] = q[i]
           /\ Append(q, e)[Len(q) + 1] = e
<1> DEFINE T == S \cup {e}
<1>1. Len(q) \in Nat /\ q \in [1 .. Len(q) -> S] /\ DOMAIN q = 1 .. Len(q)
    BY LenProperties
<1>2. q \in [1 .. Len(q) -> T]
    BY <1>1
<1>3. q \in Seq(T)
    BY <1>1, <1>2, SeqDef
<1>4. e \in T
    OBVIOUS
<1> HIDE DEF T
<1>5. /\ Append(q, e) \in Seq(T) /\ Len(Append(q, e)) = Len(q) + 1
      /\ \A i \in 1 .. Len(q) : Append(q, e)[i] = q[i]
      /\ Append(q, e)[Len(q) + 1] = e
    BY <1>3, <1>4, AppendProperties
<1>6. DOMAIN Append(q, e) = 1 .. Len(q) + 1
    BY <1>5, LenProperties
<1> QED
    BY <1>1, <1>5, <1>6 DEF T

LEMMA ApplyScopedPatchKeeps ==
    ASSUME AnswersInv, IInv', NEW c \in Callers, ApplyScopedPatch(c)
    PROVE  AnswersInv'
<1>0. PICK n : n = calls[c].n
    OBVIOUS
<1> DEFINE inScope == Call(c).paths \subseteq AllowedPaths
           record == [n |-> n, agent |-> calls[c].actor,
                      branch |-> Call(c).branch, paths |-> Call(c).paths]
           len == Len(receipts)
<1> USE DEF AnswersInv
<1>1. /\ bugs' = bugs /\ requests' = requests /\ told' = told /\ calls[c].at = "bridge"
      /\ Handled(c, inScope)
      /\ receipts' = IF inScope THEN Append(receipts, record) ELSE receipts
    BY <1>0 DEF ApplyScopedPatch
<1>2. Call(c).tool = "propose_patch"
    BY <1>1 DEF LocksOK, InsideOK
<1>3. CASE ~inScope
  <2>1. Handled(c, FALSE) /\ receipts' = receipts
      BY <1>1, <1>3
  <2> QED
      BY <1>1, <1>2, <2>1, WithoutRecordKeeps
<1>4. CASE inScope
  <2>1. PICK S : receipts \in Seq(S)
      BY DEF RecordsOK
  <2>2. Handled(c, TRUE) /\ receipts' = Append(receipts, record)
      BY <1>1, <1>4
  <2>3. record.n = n /\ record.paths \subseteq AllowedPaths
      BY <1>4
  <2>4. NoRecord(n)
      BY <1>0, <1>1, CurrentNumber DEF TracesOK, NoTrace
  <2> HIDE DEF record
  <2>5. /\ receipts' \in Seq(S \cup {record})
        /\ len \in Nat /\ DOMAIN receipts = 1 .. len /\ DOMAIN receipts' = 1 .. len + 1
        /\ \A i \in 1 .. len : receipts'[i] = receipts[i]
        /\ receipts'[len + 1] = record
      BY <2>1, <2>2, Appended
  <2> HIDE DEF len
  <2>6. \A i \in DOMAIN receipts' : i \in DOMAIN receipts \/ i = len + 1
      BY <2>5
  <2>7. RecordsOK'
    <3>1. \A i \in DOMAIN receipts' : receipts'[i].paths \subseteq AllowedPaths
        BY <2>3, <2>5, <2>6 DEF RecordsOK
    <3> QED
        BY <1>1, <2>5, <3>1 DEF RecordsOK
  <2>8. \A m : m # n /\ NoRecord(m) => NoRecord(m)'
      BY <1>1, <2>3, <2>5, <2>6 DEF NoRecord
  <2>9. \A m : m # n => Receipts(m)' = Receipts(m)
      BY <2>3, <2>5, <2>6 DEF Receipts
  <2>10. \A m : Attempts(m)' = Attempts(m)
      BY <1>1 DEF Attempts
  <2>11. Receipts(n)' = {len + 1}
    <3>1. \A i \in DOMAIN receipts' : receipts'[i].n = n <=> i = len + 1
        BY <2>3, <2>4, <2>5, <2>6 DEF NoRecord
    <3>2. len + 1 \in DOMAIN receipts'
        BY <2>5
    <3> QED
        BY <3>1, <3>2 DEF Receipts
  <2>12. \A t : t.n # n /\ Stands(t) => Stands(t)'
      BY <1>1, <2>9, <2>10 DEF Stands
  <2>13. PICK outcome : outcome = Outcome(c, TRUE)
      OBVIOUS
  <2>14. outcome.n = n /\ outcome.tool = "propose_patch" /\ outcome.ok = TRUE
      BY <1>0, <1>2, <2>13 DEF Outcome
  <2>15. Stands(outcome)'
    <3>1. Cardinality(Receipts(n)') = 1
        BY <2>11, FS_Singleton
    <3> QED
        BY <2>14, <3>1 DEF Stands
  <2>16. \A q \in Callers : q # c => InsideOK(q)'
    <3>1. \A q \in Callers : q # c => calls'[q] = calls[q]
        BY <2>2, HandledIs
    <3> QED
        BY <1>1, <3>1 DEF LocksOK, InsideOK, Call, Request
  <2> QED
      BY <1>0, <1>1, <2>2, <2>7, <2>8, <2>12, <2>13, <2>15, <2>16, WrittenKeeps
<1> QED
    BY <1>3, <1>4

\* What writing a bug leaves as it was, the traces under number n aside.
KeepsOthers(n) ==
    /\ bugs' \in Seq(Bug)
    /\ DOMAIN bugs \subseteq DOMAIN bugs'
    /\ \A id \in DOMAIN bugs' : bugs'[id].id = id
    /\ \A id \in DOMAIN bugs : bugs'[id].report = bugs[id].report
    /\ \A m : m # n => Attempts(m)' = Attempts(m)

LEMMA FiledKeeps ==
    ASSUME RecordsOK, NEW b \in Bug, b.id = Len(bugs) + 1, b.attempts = <<>>,
           bugs' = Append(bugs, b), NEW n
    PROVE  KeepsOthers(n) /\ Len(bugs) + 1 \in DOMAIN bugs' /\ bugs'[Len(bugs) + 1] = b
<1> DEFINE len == Len(bugs)
<1>1. /\ bugs' \in Seq(Bug \cup {b})
      /\ len \in Nat /\ DOMAIN bugs = 1 .. len /\ DOMAIN bugs' = 1 .. len + 1
      /\ \A i \in 1 .. len : bugs'[i] = bugs[i]
      /\ bugs'[len + 1] = b
    BY Appended DEF RecordsOK
<1>2. Bug \cup {b} = Bug /\ b.id = len + 1
    OBVIOUS
<1> HIDE DEF len
<1>3. bugs' \in Seq(Bug)
    BY <1>1, <1>2
<1>4. \A i \in DOMAIN bugs' : (i \in DOMAIN bugs /\ bugs'[i] = bugs[i]) \/ i = len + 1
    BY <1>1
<1>5. DOMAIN bugs \subseteq DOMAIN bugs' /\ len + 1 \in DOMAIN bugs'
    BY <1>1
<1>6. \A id \in DOMAIN bugs' : bugs'[id].id = id
    BY <1>1, <1>2, <1>4 DEF RecordsOK
<1>7. \A id \in DOMAIN bugs : bugs'[id] = bugs[id]
    BY <1>1
<1>8. ASSUME NEW m
      PROVE  Attempts(m)' = Attempts(m)
  <2>1. DOMAIN bugs'[len + 1].attempts = {}
      BY <1>1
  <2>2. \A p : p \in Attempts(m)' <=>
            \E id \in DOMAIN bugs' : \E k \in DOMAIN bugs'[id].attempts :
                p = <<id, k>> /\ bugs'[id].attempts[k] = m
      BY DEF Attempts
  <2>3. \A p : p \in Attempts(m)' <=>
            \E id \in DOMAIN bugs : \E k \in DOMAIN bugs[id].attempts :
                p = <<id, k>> /\ bugs[id].attempts[k] = m
      BY <1>4, <1>5, <1>7, <2>1, <2>2
  <2>4. \A p : p \in Attempts(m)' <=> p \in Attempts(m)
      BY <2>3, AttemptIs
  <2>5. Attempts(m)' \subseteq Attempts(m) /\ Attempts(m) \subseteq Attempts(m)'
      BY <2>4
  <2> QED
      BY <2>5
<1> QED
    BY <1>1, <1>3, <1>5, <1>6, <1>7, <1>8 DEF KeepsOthers, len

\* A bug replaced by one of the same id and report.
LEMMA ReplacedIs ==
    ASSUME RecordsOK, NEW id \in DOMAIN bugs, NEW b \in Bug,
           b.id = bugs[id].id, b.report = bugs[id].report,
           bugs' = [bugs EXCEPT ![id] = b]
    PROVE  /\ bugs' \in Seq(Bug) /\ DOMAIN bugs' = DOMAIN bugs
           /\ bugs'[id] = b
           /\ \A other \in DOMAIN bugs : other # id => bugs'[other] = bugs[other]
           /\ \A other \in DOMAIN bugs : bugs'[other].id = other
           /\ \A other \in DOMAIN bugs : bugs'[other].report = bugs[other].report
<1>1. bugs \in Seq(Bug) /\ id \in 1 .. Len(bugs)
    BY LenProperties DEF RecordsOK
<1>2. bugs' \in Seq(Bug)
    BY <1>1, ExceptSeq
<1>3. /\ DOMAIN bugs' = DOMAIN bugs /\ bugs'[id] = b
      /\ \A other \in DOMAIN bugs : other # id => bugs'[other] = bugs[other]
    OBVIOUS
<1> QED
    BY <1>2, <1>3 DEF RecordsOK

LEMMA UpdatedKeeps ==
    ASSUME RecordsOK, NEW id \in DOMAIN bugs, NEW b \in Bug,
           b.id = bugs[id].id, b.report = bugs[id].report, b.attempts = bugs[id].attempts,
           bugs' = [bugs EXCEPT ![id] = b], NEW n
    PROVE  KeepsOthers(n)
<1>1. \A other \in DOMAIN bugs : bugs'[other].attempts = bugs[other].attempts
    BY ReplacedIs
<1>2. \A m : Attempts(m)' = Attempts(m)
    BY <1>1, ReplacedIs DEF Attempts
<1> QED
    BY <1>2, ReplacedIs DEF KeepsOthers

LEMMA TriedKeeps ==
    ASSUME RecordsOK, NEW id \in DOMAIN bugs, NEW b \in Bug, NEW n,
           b.id = bugs[id].id, b.report = bugs[id].report,
           b.attempts = Append(bugs[id].attempts, n),
           bugs' = [bugs EXCEPT ![id] = b], NoRecord(n)
    PROVE  KeepsOthers(n) /\ \E p : Attempts(n)' = {p}
<1> DEFINE old == bugs[id].attempts
           last == Len(old) + 1
<1>1. old \in Seq(Nat)
  <2>1. bugs \in [1 .. Len(bugs) -> Bug] /\ id \in 1 .. Len(bugs)
      BY LenProperties DEF RecordsOK
  <2>2. bugs[id] \in Bug
      BY <2>1
  <2> QED
      BY <2>2 DEF Bug
<1>2. /\ last \in Nat /\ DOMAIN b.attempts = DOMAIN old \cup {last}
      /\ \A k \in DOMAIN old : b.attempts[k] = old[k] /\ k # last
      /\ b.attempts[last] = n
  <2> DEFINE len == Len(old)
  <2>1. /\ len \in Nat /\ DOMAIN old = 1 .. len /\ DOMAIN b.attempts = 1 .. len + 1
        /\ \A i \in 1 .. len : b.attempts[i] = old[i]
        /\ b.attempts[len + 1] = n
      BY <1>1, Appended
  <2>2. last = len + 1
      OBVIOUS
  <2> HIDE DEF len, last, old
  <2> QED
      BY <2>1, <2>2
<1> HIDE DEF last
<1>3. /\ DOMAIN bugs' = DOMAIN bugs /\ bugs'[id] = b
      /\ \A other \in DOMAIN bugs : other # id => bugs'[other] = bugs[other]
    BY ReplacedIs
<1>4. \A m, p : p \in Attempts(m)' <=>
          \E i \in DOMAIN bugs' : \E k \in DOMAIN bugs'[i].attempts :
              p = <<i, k>> /\ bugs'[i].attempts[k] = m
    BY DEF Attempts
<1>5. \A m, p : p \in Attempts(m)' <=>
          p \in Attempts(m) \/ (p = <<id, last>> /\ m = n)
    BY <1>2, <1>3, <1>4, AttemptIs
<1>6. Attempts(n) = {}
    BY AttemptIs DEF NoRecord
<1>7. ASSUME NEW m, m # n
      PROVE  Attempts(m)' = Attempts(m)
  <2>1. Attempts(m)' \subseteq Attempts(m) /\ Attempts(m) \subseteq Attempts(m)'
      BY <1>5, <1>7
  <2> QED
      BY <2>1
<1>8. Attempts(n)' = {<<id, last>>}
    BY <1>5, <1>6
<1> QED
    BY <1>7, <1>8, ReplacedIs DEF KeepsOthers

LEMMA WriteBugKeeps ==
    ASSUME AnswersInv, IInv', NEW c \in Callers, WriteBug(c)
    PROVE  AnswersInv'
<1>0. PICK n, id : n = calls[c].n /\ id = calls[c].bug
    OBVIOUS
<1> USE DEF AnswersInv
<1>1. /\ receipts' = receipts /\ requests' = requests /\ told' = told
      /\ calls[c].at = "bugs" /\ Handled(c, TRUE)
    BY DEF WriteBug
<1>2. /\ Call(c).tool \in {"bug_submit", "bug_update", "bug_record_attempt"}
      /\ IF Call(c).tool = "bug_submit" THEN id = Len(bugs) + 1 ELSE id \in DOMAIN bugs
    BY <1>0, <1>1 DEF LocksOK, InsideOK
<1>3. NoRecord(n) /\ n \in Nat
    BY <1>0, <1>1, CurrentNumber DEF TracesOK, NoTrace, NumbersOK, CallOK
<1>4. PICK outcome : outcome = Outcome(c, TRUE)
    OBVIOUS
<1>5. outcome.n = n /\ outcome.tool = Call(c).tool /\ outcome.ok = TRUE /\ outcome.bug = id
    BY <1>0, <1>4 DEF Outcome
\* What the three tools come to.
<1>6. /\ KeepsOthers(n)
      /\ Call(c).tool = "bug_submit" => id \in DOMAIN bugs' /\ bugs'[id].report = n
      /\ IF Call(c).tool = "bug_record_attempt" THEN \E p : Attempts(n)' = {p}
         ELSE TRUE
  <2>0. RecordsOK
      OBVIOUS
  <2>1. CASE Call(c).tool = "bug_submit"
    <3> DEFINE b == [id |-> id, report |-> n, attempts |-> <<>>, update |-> 0]
    <3>1. bugs' = Append(bugs, b)
        BY <1>0, <2>1 DEF WriteBug
    <3>2. id = Len(bugs) + 1 /\ id \in Nat
        BY <1>2, <2>0, <2>1, LenProperties DEF RecordsOK
    <3>3. b \in Bug /\ b.id = Len(bugs) + 1 /\ b.attempts = <<>> /\ b.report = n
        BY <1>3, <3>2 DEF Bug
    <3> HIDE DEF b
    <3>4. KeepsOthers(n) /\ id \in DOMAIN bugs' /\ bugs'[id] = b
        BY <2>0, <3>1, <3>2, <3>3, FiledKeeps
    <3> QED
        BY <2>1, <3>3, <3>4
  <2>2. CASE Call(c).tool # "bug_submit"
    <3>1. id \in DOMAIN bugs
        BY <1>2, <2>2
    <3>2. bugs[id] \in Bug
      <4>1. bugs \in [1 .. Len(bugs) -> Bug] /\ id \in 1 .. Len(bugs)
          BY <2>0, <3>1, LenProperties DEF RecordsOK
      <4> QED
          BY <4>1
    <3>3. CASE Call(c).tool = "bug_update"
      <4> DEFINE b == [bugs[id] EXCEPT !.update = n]
      <4>1. bugs' = [bugs EXCEPT ![id] = b]
          BY <1>0, <3>3 DEF WriteBug
      <4>2. /\ b \in Bug /\ b.id = bugs[id].id /\ b.report = bugs[id].report
            /\ b.attempts = bugs[id].attempts
          BY <1>3, <3>2 DEF Bug
      <4> HIDE DEF b
      <4> QED
          BY <2>0, <2>2, <3>1, <3>3, <4>1, <4>2, UpdatedKeeps
    <3>4. CASE Call(c).tool = "bug_record_attempt"
      <4> DEFINE b == [bugs[id] EXCEPT !.attempts = Append(@, n)]
      <4>1. bugs' = [bugs EXCEPT ![id] = b]
          BY <1>0, <3>4 DEF WriteBug
      <4>2. Append(bugs[id].attempts, n) \in Seq(Nat)
          BY <1>3, <3>2 DEF Bug
      <4>3. /\ b \in Bug /\ b.id = bugs[id].id /\ b.report = bugs[id].report
            /\ b.attempts = Append(bugs[id].attempts, n)
          BY <3>2, <4>2 DEF Bug
      <4> HIDE DEF b
      <4> QED
          BY <1>3, <2>0, <2>2, <3>1, <3>4, <4>1, <4>3, TriedKeeps
    <3> QED
        BY <1>2, <2>2, <3>3, <3>4
  <2> QED
      BY <2>1, <2>2
<1>7. RecordsOK'
    BY <1>1, <1>6 DEF RecordsOK, KeepsOthers
<1>8. \A m : Receipts(m)' = Receipts(m)
    BY <1>1 DEF Receipts
<1>9. \A m : m # n /\ NoRecord(m) => NoRecord(m)'
  <2> SUFFICES ASSUME NEW m, m # n, NoRecord(m)
               PROVE  NoRecord(m)'
      OBVIOUS
  <2>1. Attempts(m)' = {}
    <3>1. Attempts(m) = {}
        BY AttemptIs DEF NoRecord
    <3> QED
        BY <1>6, <3>1 DEF KeepsOthers
  <2>2. \A i \in DOMAIN bugs' : \A k \in DOMAIN bugs'[i].attempts : bugs'[i].attempts[k] # m
    <3>1. \A i \in DOMAIN bugs' : \A k \in DOMAIN bugs'[i].attempts :
              bugs'[i].attempts[k] = m => <<i, k>> \in Attempts(m)'
        BY DEF Attempts
    <3> QED
        BY <2>1, <3>1
  <2> QED
      BY <1>1, <2>2 DEF NoRecord
<1>10. \A t : t.n # n /\ Stands(t) => Stands(t)'
    BY <1>6, <1>8 DEF Stands, KeepsOthers
<1>11. Stands(outcome)'
  <2>1. \A p : Cardinality({p}) = 1
      BY FS_Singleton
  <2> QED
      BY <1>2, <1>5, <1>6, <2>1 DEF Stands
<1>12. \A q \in Callers : q # c => InsideOK(q)'
  <2>1. \A q \in Callers : q # c => calls'[q] = calls[q] /\ calls[q].at # "bugs"
      BY <1>1, HandledIs DEF LocksOK
  <2> QED
      BY <2>1 DEF LocksOK, InsideOK, Call, Request
<1> QED
    BY <1>0, <1>1, <1>4, <1>7, <1>9, <1>10, <1>11, <1>12, WrittenKeeps

-----------------------------------------------------------------------------

LEMMA InitAnswers == Init => AnswersInv
<1> SUFFICES ASSUME Init PROVE AnswersInv
    OBVIOUS
<1>1. \A c \in Callers : calls[c] = Idle
    BY DEF Init
<1>2. bugs = <<>> /\ receipts = <<>> /\ requests = 0 /\ told = {}
    BY DEF Init
<1>3. RecordsOK
    BY <1>2, EmptySeq DEF RecordsOK
<1>4. \A c \in Callers : CallOK(c) /\ Mine(c) = {} /\ Unsettled(c) = {} /\ InsideOK(c)
  <2> SUFFICES ASSUME NEW c \in Callers
               PROVE  CallOK(c) /\ Mine(c) = {} /\ Unsettled(c) = {} /\ InsideOK(c)
      OBVIOUS
  <2>1. calls[c].at = "idle" /\ calls[c].n = 0 /\ calls[c].todo = <<>>
      BY <1>1 DEF Idle
  <2>2. <<>> \in Seq({})
      BY EmptySeq
  <2> QED
      BY <2>1, <2>2 DEF CallOK, Mine, Unsettled, InsideOK
<1>5. NumbersOK
    BY <1>2, <1>4 DEF NumbersOK
<1>6. LocksOK
    BY <1>1, <1>4 DEF LocksOK, Idle
<1>7. Settled = {}
    BY <1>1, <1>2 DEF Settled, Idle
<1>8. \A n : NoTrace(n)
    BY <1>2, <1>7 DEF NoTrace, NoRecord
<1>9. TracesOK
    BY <1>4, <1>7, <1>8 DEF TracesOK
<1> QED
    BY <1>3, <1>5, <1>6, <1>9, InitInv DEF AnswersInv

LEMMA NextAnswers == AnswersInv /\ [Next]_vars => AnswersInv'
<1> SUFFICES ASSUME AnswersInv, [Next]_vars PROVE AnswersInv'
    OBVIOUS
<1>1. IInv'
    BY NextKeeps DEF AnswersInv
<1>2. ASSUME NEW c \in HttpCallers, NEW r \in HttpRequests,
             NEW sid \in (1 .. minted) \cup {NoSession}, Arrive(c, r, sid)
      PROVE  AnswersInv'
    BY <1>1, <1>2, ArriveKeeps
<1>3. ASSUME NEW c \in Pipes, NEW line \in PipeLines, ReadLine(c, line)
      PROVE  AnswersInv'
    BY <1>1, <1>3, ReadLineKeeps
<1>4. ASSUME NEW c \in Callers, Step(c) \/ StopWaiting(c) \/ Cancel(c) \/ LoseAnswer(c)
      PROVE  AnswersInv'
  <2>1. CASE Insert(c) \/ Delete(c) \/ Answer(c) \/ Cancel(c) \/ LoseAnswer(c)
      BY <1>1, <2>1, EndingsKeep
  <2>2. CASE Read(c) \/ RequestMerge(c) \/ StopWaiting(c)
      BY <1>1, <2>2, ReadingsKeep
  <2>3. CASE LookUp(c)
      BY <1>1, <2>3, LookUpKeeps
  <2>4. CASE Handle(c)
      BY <1>1, <2>4, HandleAnswers
  <2>5. CASE LockBugs(c)
      BY <1>1, <2>5, LockBugsKeeps
  <2>6. CASE WriteBug(c)
      BY <1>1, <2>6, WriteBugKeeps
  <2>7. CASE UpsertPr(c)
      BY <1>1, <2>7, UpsertPrKeeps
  <2>8. CASE ApplyScopedPatch(c)
      BY <1>1, <2>8, ApplyScopedPatchKeeps
  <2>9. CASE StartWaiting(c)
      BY <1>1, <2>9, StartWaitingKeeps
  <2>10. CASE NextOfBatch(c)
      BY <1>1, <2>10, NextOfBatchKeeps
  <2> QED
      BY <1>4, <2>1, <2>2, <2>3, <2>4, <2>5, <2>6, <2>7, <2>8, <2>9, <2>10 DEF Step
<1>5. CASE UNCHANGED vars
  <2>1. RecordsOK' /\ \A t : Stands(t)' <=> Stands(t)
      BY <1>5, RecordsStay DEF vars, AnswersInv
  <2>2. NumbersOK'
      BY <1>5 DEF vars, AnswersInv, NumbersOK, CallOK, Mine
  <2>3. LocksOK'
      BY <1>5 DEF vars, AnswersInv, LocksOK, InsideOK, Call, Request
  <2>4. /\ Settled' = Settled
        /\ \A c : Unsettled(c)' = Unsettled(c)
        /\ \A n : NoRecord(n)' <=> NoRecord(n)
      BY <1>5 DEF vars, Settled, Unsettled, Mine, NoRecord
  <2>5. \A n : NoTrace(n)' <=> NoTrace(n)
      BY <2>4 DEF NoTrace
  <2>6. TracesOK'
      BY <1>5, <2>1, <2>4, <2>5 DEF vars, AnswersInv, TracesOK
  <2> QED
      BY <1>1, <2>1, <2>2, <2>3, <2>6 DEF AnswersInv
<1> QED
    BY <1>2, <1>3, <1>4, <1>5 DEF Next

LEMMA InvStands == AnswersInv => AnsweredCallsStand
<1> SUFFICES ASSUME AnswersInv PROVE AnsweredCallsStand
    OBVIOUS
<1>1. \A t \in told : Stands(t)
    BY DEF AnswersInv, TracesOK, Settled
<1> QED
    BY <1>1 DEF AnswersInv, RecordsOK, Stands, AnsweredCallsStand

\* Whatever a caller was told stands, however the calls of all connections
\* interleave: a filed bug keeps its id and report, a recorded attempt and the
\* receipt of an accepted patch are there once, and a refused call left nothing.
THEOREM AnswersStand == Spec => []AnsweredCallsStand
<1>1. Spec => []AnswersInv
    BY InitAnswers, NextAnswers, PTL DEF Spec
<1> QED
    BY <1>1, InvStands, PTL

=============================================================================
