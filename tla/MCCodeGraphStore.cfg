CONSTANTS
    Procs = {p1, p2}
    Commands <- MCCommands
    Reports <- MCReports
    Commits <- MCCommits
    InitialDbs <- MCInitialDbs
    MaxStarts = 3
    NoCommand = NoCommand
    NoReport = NoReport
SPECIFICATION Spec
SYMMETRY Sym
INVARIANTS
    LatestReportIntact
    TablesNeverGoBack
    VerdictsSurviveMerging
PROPERTY
    OperatorVerdictWins
CHECK_DEADLOCK FALSE
