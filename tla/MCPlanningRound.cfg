\* The checkout may be left alone with both answers given.
CHECK_DEADLOCK FALSE
CONSTANTS
    Gone = Gone
    NoMembers = NoMembers
    NoPackage = NoPackage
    Broken = Broken
    NoRule = NoRule
    MaxEdits = 2
    MaxExcluded = 1
    RustNames <- MCRustNames
    SurfaceNames = {"api"}
    OneLetterNames = {"c"}
    NameOrder <- MCNameOrder
    MarkdownNames = {"plan.md", "AGENTS.md"}
    TestNames = {"retry_test.rs"}
    LexicalMatches <- MCLexicalMatches
    PathOrder <- MCPathOrder
    InitialDisks <- MCInitialDisks
    Revisions <- MCRevisions
    Spellings = {"plain", "dotted"}
    Options <- MCOptions
SPECIFICATION Spec
INVARIANTS
    PlanReachesUsers
    PackCoversPlan
    ReadingListIsWhole
