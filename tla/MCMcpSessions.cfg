CONSTANTS
    c1 = c1
    c2 = c2
    pipe = pipe
    alice = alice
    bob = bob
    HttpCallers = {c1, c2}
    Pipes = {pipe}
    MaxSessions = 2
    NoSession = NoSession
    HttpRequests <- MCHttpRequests
    PipeLines <- MCPipeLines
    MaxRequests = 4
    WorkerThreads = 2
    DefaultActor = DefaultActor
    NoParams = NoParams
    BadParams = BadParams
    AllowedPaths = {"crates/a"}
SPECIFICATION Spec
INVARIANTS
    InTheirSession
    AnsweredCallsStand
PROPERTIES
    DeletedSessionsDrain
    RequestsAreAnswered
CHECK_DEADLOCK FALSE
