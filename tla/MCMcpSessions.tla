----------------------------- MODULE MCMcpSessions -----------------------------
(* A few connections; clients that initialize well and badly, rename
   themselves, file and try bugs, patch inside and outside the scope, wait. *)
EXTENDS McpSessions

CONSTANTS c1, c2, pipe, alice, bob

MsgOf(method, params) ==
    [fit |-> TRUE, version |-> "2.0", id |-> TRUE, method |-> method, params |-> params]

CallOf(tool, bug, paths) ==
    MsgOf("tools/call",
        [tool |-> tool, given |-> Required[tool], bug |-> bug,
         branch |-> "agent/fix", paths |-> paths])

MCHttpRequests == {
    MsgOf("initialize", [actor |-> alice]),
    MsgOf("initialize", BadParams),
    [MsgOf("notifications/initialized", [actor |-> bob]) EXCEPT !.id = FALSE],
    MsgOf("DELETE", NoParams),
    CallOf("bug_submit", 0, {}),
    CallOf("bug_record_attempt", 1, {}),
    CallOf("propose_patch", 0, {"crates/a"}),
    CallOf("propose_patch", 0, {"crates/a", "etc"}),
    [CallOf("bug_submit", 0, {}) EXCEPT !.fit = FALSE],
    CallOf("session_wait_for", 0, {})}

MCPipeLines ==
    {<<[CallOf("bug_submit", 0, {}) EXCEPT !.params.given = {}]>>} \cup
    {<<MsgOf("initialize", [actor |-> alice]), call>> :
        call \in {CallOf("bug_update", 1, {}), CallOf("bug_show", 1, {}),
                 CallOf("request_merge", 0, {})}}
=============================================================================
