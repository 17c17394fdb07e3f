CONSTANTS
    Gone = Gone
    Binary = Binary
    NotRead = NotRead
    Threads = 2
    MaxEdits = 2
    KEPT_TOTAL = 3
    KEPT_V1 = 2
    GENERIC_ANCHORS <- MCGeneric
    Commands <- MCCommands
    Repositories <- MCRepositories
    Canonical <- MCCanonical
    SplitNames <- MCSplitNames
    Lowercase <- MCLowercase
    Alphabet <- MCAlphabet
    SystemDefault <- MCSystemDefault
    Unlistable <- MCUnlistable
    InitialDisks <- MCInitialDisks
    Revisions <- MCRevisions
SPECIFICATION Spec
INVARIANTS
    OneShardPerRepo
    MatchesSequential
    QuietClustersAreExact
    ReportedHeadsWereScanned
    EachRepositoryOnce
