------------------------------ MODULE McpSessions ------------------------------
(***************************************************************************)
(* The MCP server (core/, http/, backend/): requests of several HTTP callers,  *)
(* and lines of one stdio pipe, over one shared backend.                      *)
(*                                                                         *)
(* A handler is a task.  It gives way to the others where it waits for the map *)
(* of sessions or for its session, and while it waits there it holds no thread. *)
(* From the moment it has its session to its answer it is one call without an   *)
(* await: ToolBackend::call is synchronous, so a tool that waits, or a handler   *)
(* at the mutex of the bugs or of the bridge, keeps its worker thread, and       *)
(* there are only so many.  Between two such points nothing of a handler is      *)
(* visible, so that stretch is one step.  The map lock is never held across a    *)
(* wait, so each map operation is one step.  A session's lock, and both backend  *)
(* mutexes, are held by the handlers whose "at" says so.                       *)
(*                                                                         *)
(* A request is its HTTP headers' fitness, its JSON-RPC shape and, for a call,  *)
(* its tool and arguments; texts are left out.  A bug holds the numbers of the  *)
(* calls that filed it, tried it and last updated it.                         *)
(***************************************************************************)
EXTENDS Integers, Sequences, FiniteSets, Functions

CONSTANTS
    HttpCallers,    \* connections, each with one request in flight at most
    Pipes,          \* the stdio connection, if the server has one
    MaxSessions,    \* initialize requests over HTTP
    NoSession,      \* a request without Mcp-Session-Id
    HttpRequests,   \* requests HTTP callers may send, their session aside
    PipeLines,      \* request lists (a line: one request or a batch)
    MaxRequests,    \* requests handled
    WorkerThreads,  \* threads of the runtime that polls the handlers
    DefaultActor,   \* "mcp-client"
    NoParams, BadParams,
    AllowedPaths    \* allowed_paths of the bridge

ASSUME McpAssumption ==
    /\ MaxRequests \in Nat /\ MaxSessions \in Nat /\ WorkerThreads \in Nat \ {0}
    /\ HttpCallers \cap Pipes = {}
    /\ \A line \in PipeLines : line # <<>> /\ line \in Seq(Range(line))

Callers == HttpCallers \cup Pipes
\* A UUID is its place in the order of minting.
SessionIds == 1 .. MaxSessions
\* The one session of the stdio loop.
PipeSession == 0
Sessions == SessionIds \cup {PipeSession}

VARIABLES
    sessions,       \* McpHttpState::sessions: ids in the map
    state,          \* McpSessionState of every session ever made
    minted,         \* how many ids were given out
    bugs,           \* MemoryBackend::bugs
    pulls,          \* the bridge's pull requests: branch -> paths
    receipts,       \* the bridge's receipts, append-only
    calls,          \* per caller: the request in flight
    told,           \* history: outcomes of calls whose answer was sent
    requests        \* history: requests numbered so far

vars == <<sessions, state, minted, bugs, pulls, receipts, calls, told, requests>>

-----------------------------------------------------------------------------
(* One request against one session: the dispatcher. *)

FreshSession == [initialized |-> FALSE, actor |-> DefaultActor]

\* Arguments each tool insists on; a call without one is -32602.
Required == [
    bug_submit |-> {"report"},
    bug_show |-> {"bug_id"},
    bug_update |-> {"bug_id"},
    bug_record_attempt |-> {"bug_id", "attempt"},
    propose_patch |-> {"repo", "branch_name", "base_ref", "commit_message", "modifications"},
    request_merge |-> {"repo", "pr_number", "source_branch", "target_branch"},
    get_system_snapshot |-> {},
    session_wait_for |-> {"session_id", "pattern"}]

NormalizeArgs(call) ==
    /\ call.tool \in DOMAIN Required
    /\ Required[call.tool] \subseteq call.given

IsNotification(r) ==
    r.method \in {"notifications/initialized", "notifications/cancelled"} /\ ~r.id

\* jsonrpc is 2.0, and there is an id: the request reaches its method's handler.
IsHandled(r) == r.version = "2.0" /\ r.id

Initializes(r) ==
    IsHandled(r) /\ r.method = "initialize" /\ r.params \notin {NoParams, BadParams}

\* The session after the request.  Either message marks it initialized,
\* and names the client when it says who that is.
AfterRequest(s, r) ==
    IF \/ Initializes(r)
       \/ r.version = "2.0" /\ IsNotification(r) /\ r.method = "notifications/initialized"
    THEN [initialized |-> TRUE,
          actor |-> IF r.params \notin {NoParams, BadParams} THEN r.params.actor
                    ELSE s.actor]
    ELSE s

\* The request is a call its session may make: it goes to the backend.
ReachesBackend(s, r) ==
    /\ IsHandled(r) /\ r.method = "tools/call"
    /\ s.initialized
    /\ r.params \notin {NoParams, BadParams}
    /\ NormalizeArgs(r.params)

-----------------------------------------------------------------------------
(* Requests in flight. *)

Idle == [at |-> "idle", sid |-> NoSession, todo |-> <<>>, n |-> 0,
         actor |-> DefaultActor, bug |-> 0, out |-> {}, fresh |-> FreshSession]

Request(c) == Head(calls[c].todo)
Call(c) == Request(c).params

\* Points at which a handler holds its session's lock.
Holding == {"backend", "bugs", "bridge", "waiting", "handled"}

Holders(sid) == {c \in Callers : calls[c].at \in Holding /\ calls[c].sid = sid}
\* Mutants of SessionFree and BugsFree: readers share a session; the bugs are not
\* locked.
SharedSession(sid) == TRUE
UnlockedBugs == TRUE

SessionFree(sid) == Holders(sid) = {}

BugsFree == \A c \in Callers : calls[c].at # "bugs"

BridgeFree == \A c \in Callers : calls[c].at # "bridge"

\* Handlers on a worker thread; the stdio loop has no lock to wait for.
Running == {c \in Callers : calls[c].at \in Holding \/ (c \in Pipes /\ calls[c].at = "session")}

HasWorker(c) == c \in Running \/ Cardinality(Running) < WorkerThreads

\* The backend is done with the call; ok: ToolResponse::success.
Handled(c, ok) ==
    calls' = [calls EXCEPT ![c].at = "handled",
                           ![c].out = @ \cup {[n |-> calls[c].n, tool |-> Call(c).tool,
                                               bug |-> calls[c].bug, ok |-> ok]}]

Waits(c, at) == calls' = [calls EXCEPT ![c].at = at]

-----------------------------------------------------------------------------
(* HTTP. *)

\* Handlers about to mint.
Minting == {c \in HttpCallers : calls[c].at = "map" /\ Request(c).method = "initialize"}

\* A POST or DELETE comes in; its handler goes as far as the map when a thread
\* polls it.  The headers are read before anything else: a request whose headers do
\* not fit, or which lacks its session id, is answered with nothing done.
\* An initialize is handled against a session of its own before the map is locked.
Arrive(c, r, sid) ==
    /\ calls[c].at = "idle" /\ requests < MaxRequests
    /\ r.method = "initialize" => minted + Cardinality(Minting) < MaxSessions
    /\ requests' = requests + 1
    /\ IF \/ ~r.fit
          \/ (r.method = "initialize") # (sid = NoSession)
       THEN UNCHANGED calls
       ELSE calls' = [calls EXCEPT ![c] =
                [Idle EXCEPT !.at = "map", !.sid = sid, !.todo = <<r>>,
                             !.n = requests + 1,
                             !.fresh = AfterRequest(FreshSession, r)]]
    /\ UNCHANGED <<sessions, state, minted, bugs, pulls, receipts, told>>

\* The session enters the map whatever the initialize was answered.
Insert(c) ==
    LET sid == minted + 1 IN
    /\ calls[c].at = "map" /\ Request(c).method = "initialize"
    /\ minted' = sid
    /\ sessions' = sessions \cup {sid}
    /\ state' = [state EXCEPT ![sid] = calls[c].fresh]
    /\ calls' = [calls EXCEPT ![c] = Idle]
    /\ UNCHANGED <<bugs, pulls, receipts, told, requests>>

\* Mutant of LookUp: any session that was ever minted is found.
LookUpMinted(c) ==
    /\ calls[c].at = "map" /\ Request(c).method \notin {"initialize", "DELETE"}
    /\ calls' = [calls EXCEPT ![c].at = "session"]
    /\ UNCHANGED <<sessions, state, minted, bugs, pulls, receipts, told, requests>>

\* The handler takes its share of the session and lets go of the map.
LookUp(c) ==
    /\ calls[c].at = "map" /\ Request(c).method \notin {"initialize", "DELETE"}
    /\ calls' = IF calls[c].sid \in sessions
                THEN [calls EXCEPT ![c].at = "session"]
                ELSE [calls EXCEPT ![c] = Idle]
    /\ UNCHANGED <<sessions, state, minted, bugs, pulls, receipts, told, requests>>

\* DELETE forgets the session; handlers that already share it keep their share.
Delete(c) ==
    /\ calls[c].at = "map" /\ Request(c).method = "DELETE"
    /\ sessions' = sessions \ {calls[c].sid}
    /\ calls' = [calls EXCEPT ![c] = Idle]
    /\ UNCHANGED <<state, minted, bugs, pulls, receipts, told, requests>>

\* The client hangs up while its handler waits: the handler is dropped.
Cancel(c) ==
    /\ c \in HttpCallers /\ calls[c].at \in {"map", "session"} /\ HasWorker(c)
    /\ calls' = [calls EXCEPT ![c] = Idle]
    /\ UNCHANGED <<sessions, state, minted, bugs, pulls, receipts, told, requests>>

-----------------------------------------------------------------------------
(* stdio: one line after the other, each on the pipe's session. *)

ReadLine(c, line) ==
    /\ calls[c].at = "idle" /\ requests + Len(line) <= MaxRequests /\ HasWorker(c)
    /\ requests' = requests + Len(line)
    /\ calls' = [calls EXCEPT ![c] =
            [Idle EXCEPT !.at = "session", !.sid = PipeSession, !.todo = line,
                         !.n = requests + 1]]
    /\ UNCHANGED <<sessions, state, minted, bugs, pulls, receipts, told>>

-----------------------------------------------------------------------------
(* Handling, under the session's lock. *)

\* The session is locked and handle_request runs up to its answer or its call.
Handle(c) ==
    LET sid == calls[c].sid IN
    /\ calls[c].at = "session" /\ SessionFree(sid)
    /\ state' = [state EXCEPT ![sid] = AfterRequest(@, Request(c))]
    /\ calls' = IF ReachesBackend(state[sid], Request(c))
                THEN [calls EXCEPT ![c].at = "backend", ![c].actor = state[sid].actor]
                ELSE [calls EXCEPT ![c].at = "handled"]
    /\ UNCHANGED <<sessions, minted, bugs, pulls, receipts, told, requests>>

\* Tools that only read, and answer.
Read(c) ==
    /\ calls[c].at = "backend"
    /\ Call(c).tool \in {"get_system_snapshot", "bug_show"}
    /\ Call(c).tool = "bug_show" => BugsFree
    /\ Handled(c, Call(c).tool = "bug_show" => Call(c).bug \in DOMAIN bugs)
    /\ UNCHANGED <<sessions, state, minted, bugs, pulls, receipts, told, requests>>

\* The mutex is taken and the record found: a new one gets the next number.
LockBugs(c) ==
    /\ calls[c].at = "backend" /\ BugsFree
    /\ Call(c).tool \in {"bug_submit", "bug_update", "bug_record_attempt"}
    /\ IF Call(c).tool = "bug_submit"
       THEN calls' = [calls EXCEPT ![c].at = "bugs", ![c].bug = Len(bugs) + 1]
       ELSE IF Call(c).bug \in DOMAIN bugs
       THEN calls' = [calls EXCEPT ![c].at = "bugs", ![c].bug = Call(c).bug]
       ELSE Handled(c, FALSE)
    /\ UNCHANGED <<sessions, state, minted, bugs, pulls, receipts, told, requests>>

WriteBug(c) ==
    LET id == calls[c].bug
        n == calls[c].n
    IN
    /\ calls[c].at = "bugs"
    /\ bugs' = CASE Call(c).tool = "bug_submit" ->
                        Append(bugs, [id |-> id, report |-> n, attempts |-> <<>>, update |-> 0])
                 [] Call(c).tool = "bug_update" -> [bugs EXCEPT ![id].update = n]
                 [] OTHER -> [bugs EXCEPT ![id].attempts = Append(@, n)]
    /\ Handled(c, TRUE)
    /\ UNCHANGED <<sessions, state, minted, pulls, receipts, told, requests>>

\* propose_patch without a path is refused; with one it locks the bridge and
\* puts the pull request there, in place of the branch's earlier one.
UpsertPr(c) ==
    /\ calls[c].at = "backend" /\ Call(c).tool = "propose_patch"
    /\ IF Call(c).paths = {}
       THEN Handled(c, FALSE) /\ UNCHANGED pulls
       ELSE /\ BridgeFree
            /\ pulls' = [pulls EXCEPT ![Call(c).branch] = Call(c).paths]
            /\ Waits(c, "bridge")
    /\ UNCHANGED <<sessions, state, minted, bugs, receipts, told, requests>>

\* Mutant: the bridge's mutex, which is not reentrant, is locked once more.
ApplyScopedPatchRelocking(c) ==
    LET inScope == Call(c).paths \subseteq AllowedPaths IN
    /\ calls[c].at = "bridge" /\ BridgeFree
    /\ receipts' = IF inScope
                   THEN Append(receipts, [n |-> calls[c].n, agent |-> calls[c].actor,
                                          branch |-> Call(c).branch, paths |-> Call(c).paths])
                   ELSE receipts
    /\ Handled(c, inScope)
    /\ UNCHANGED <<sessions, state, minted, bugs, pulls, told, requests>>

\* apply_scoped_patch: a receipt for a patch inside the scope, else nothing.
ApplyScopedPatch(c) ==
    LET inScope == Call(c).paths \subseteq AllowedPaths IN
    /\ calls[c].at = "bridge"
    /\ receipts' = IF inScope
                   THEN Append(receipts, [n |-> calls[c].n, agent |-> calls[c].actor,
                                          branch |-> Call(c).branch, paths |-> Call(c).paths])
                   ELSE receipts
    /\ Handled(c, inScope)
    /\ UNCHANGED <<sessions, state, minted, bugs, pulls, told, requests>>

\* request_merge only evaluates; an unknown pull request is an error.
RequestMerge(c) ==
    /\ calls[c].at = "backend" /\ Call(c).tool = "request_merge" /\ BridgeFree
    /\ Handled(c, pulls[Call(c).branch] # {})
    /\ UNCHANGED <<sessions, state, minted, bugs, pulls, receipts, told, requests>>

\* A tool that waits for something outside, and its return.
StartWaiting(c) ==
    /\ calls[c].at = "backend" /\ Call(c).tool = "session_wait_for"
    /\ Waits(c, "waiting")
    /\ UNCHANGED <<sessions, state, minted, bugs, pulls, receipts, told, requests>>

StopWaiting(c) ==
    /\ calls[c].at = "waiting"
    /\ \E ok \in BOOLEAN : Handled(c, ok)
    /\ UNCHANGED <<sessions, state, minted, bugs, pulls, receipts, told, requests>>

\* The next request of a batch, on the same session.
NextOfBatch(c) ==
    /\ calls[c].at = "handled" /\ Len(calls[c].todo) > 1
    /\ calls' = [calls EXCEPT ![c].at = "session", ![c].todo = Tail(@),
                              ![c].n = @ + 1, ![c].bug = 0]
    /\ UNCHANGED <<sessions, state, minted, bugs, pulls, receipts, told, requests>>

\* The session is unlocked and the answer sent.
Answer(c) ==
    /\ calls[c].at = "handled" /\ Len(calls[c].todo) = 1
    /\ told' = told \cup calls[c].out
    /\ calls' = [calls EXCEPT ![c] = Idle]
    /\ UNCHANGED <<sessions, state, minted, bugs, pulls, receipts, requests>>

\* The client is gone when its answer is ready.
LoseAnswer(c) ==
    /\ c \in HttpCallers /\ calls[c].at = "handled"
    /\ calls' = [calls EXCEPT ![c] = Idle]
    /\ UNCHANGED <<sessions, state, minted, bugs, pulls, receipts, told, requests>>

-----------------------------------------------------------------------------

Branches == {r.params.branch : r \in {q \in HttpRequests :
                q.params \notin {NoParams, BadParams} /\ "branch" \in DOMAIN q.params}}

Init ==
    /\ sessions = {} /\ minted = 0
    /\ state = [sid \in Sessions |-> FreshSession]
    /\ bugs = <<>> /\ receipts = <<>>
    /\ pulls = [b \in Branches |-> {}]
    /\ calls = [c \in Callers |-> Idle]
    /\ told = {} /\ requests = 0

\* What the server does on its own once a request is in flight.
Step(c) ==
    /\ HasWorker(c)
    /\ \/ Insert(c) \/ LookUp(c) \/ Delete(c) \/ Handle(c)
       \/ Read(c) \/ LockBugs(c) \/ WriteBug(c)
       \/ UpsertPr(c) \/ ApplyScopedPatch(c) \/ RequestMerge(c)
       \/ StartWaiting(c) \/ NextOfBatch(c) \/ Answer(c)

Next ==
    \/ \E c \in HttpCallers, r \in HttpRequests, sid \in (1 .. minted) \cup {NoSession} :
          Arrive(c, r, sid)
    \/ \E c \in Pipes, line \in PipeLines : ReadLine(c, line)
    \/ \E c \in Callers : Step(c) \/ StopWaiting(c) \/ Cancel(c) \/ LoseAnswer(c)

\* A handler that stays ready gets a thread, and a tool that waits gives up in the
\* end, its timeout being capped; nothing is asked of the clients.
Fairness == \A c \in Callers : WF_vars(Step(c)) /\ WF_vars(StopWaiting(c))

Spec == Init /\ [][Next]_vars /\ Fairness

-----------------------------------------------------------------------------
(* Properties. *)

TypeOK ==
    /\ minted \in Nat /\ sessions \subseteq 1 .. minted
    /\ DOMAIN state = Sessions /\ DOMAIN calls = Callers
    /\ \A c \in Callers :
          /\ DOMAIN calls[c] = DOMAIN Idle
          /\ calls[c].at \in {"idle", "map", "session"} \cup Holding
          /\ calls[c].at \in {"session"} \cup Holding => calls[c].sid \in 0 .. minted

\* A call at the backend acts alone in a session that is initialized, and in
\* the name that session has: no other request of the session, on whatever
\* connection, renames or resets it before the call is done (post.rs:117-122).
InTheirSession ==
    \A c \in Callers : calls[c].at \in Holding \ {"handled"} =>
        LET s == state[calls[c].sid] IN
        /\ Holders(calls[c].sid) = {c}
        /\ s.initialized
        /\ s.actor = calls[c].actor

Attempts(n) == UNION {{<<id, k>> : k \in {k \in DOMAIN bugs[id].attempts :
                                             bugs[id].attempts[k] = n}} : id \in DOMAIN bugs}

Receipts(n) == {i \in DOMAIN receipts : receipts[i].n = n}

\* What a caller was told is so, whichever calls ran beside his: the bug he
\* filed has the id he was given and nobody else's report, his attempt is
\* there once, his accepted patch has one receipt, for paths in scope, and a
\* refused patch has none (memory.rs, bridge.rs).
AnsweredCallsStand ==
    /\ \A id \in DOMAIN bugs : bugs[id].id = id
    /\ \A i \in DOMAIN receipts : receipts[i].paths \subseteq AllowedPaths
    /\ \A t \in told :
          /\ t.tool = "bug_submit" => t.bug \in DOMAIN bugs /\ bugs[t.bug].report = t.n
          /\ t.tool = "bug_record_attempt" =>
                Cardinality(Attempts(t.n)) = (IF t.ok THEN 1 ELSE 0)
          /\ t.tool = "propose_patch" =>
                Cardinality(Receipts(t.n)) = (IF t.ok THEN 1 ELSE 0)

\* Handlers that share a session.
Users(sid) == {c \in Callers : calls[c].sid = sid /\ calls[c].at \in Holding \cup {"session"}}

\* Once a session is deleted, no request gets hold of it any more, and it does not
\* come back: what still runs in it had found it before (http/mod.rs:86-110).
DeletedSessionsDrain ==
    [][\A sid \in (1 .. minted) \ sessions :
          sid \notin sessions' /\ Users(sid)' \subseteq Users(sid)]_vars

\* Every request gets its answer, though handlers wait for the map, for a session
\* another request holds, for a mutex of the backend and for a thread, and tools hold
\* session and thread as long as they wait: none of these waits closes a circle
\* (post.rs:119-129, memory.rs, bridge.rs).
RequestsAreAnswered == \A c \in Callers : calls[c].at # "idle" ~> calls[c].at = "idle"

=============================================================================
