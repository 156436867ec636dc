\* Three tasks and one worker of another process over two projects.
SPECIFICATION Spec
CONSTANTS
    N = 3
    MaxConcurrency = 2
    MaxBytes = 2
    TaskGraphs <- Graphs
    Other = other
    Worker <- AllWorkers
    Project = {1, 2}
    ProjectOf <- OneEach
    c1 = c1
    c2 = c2
    Sources <- AllSame
    Leftover <- Old
    Content = {c1, c2}
    f = f
    g = g
    Path = {f, g}
    ChangeSets = {{f}, {g}}
    Removals <- Old
    FilesOf <- Files
    Janitor = janitor
    NoHolder = noHolder
    NoEntry = noEntry
    NoContent = noContent
    NoReport = noReport
    Node = {n1, n2, n3}
    Digest = {d1, d2}
    Absent = absent
    MaxOutside = 2
INVARIANTS
    TypeOK
    WithinBudget
    DependenciesFirst
    GivesUpOnlyOutOfOrder
    RefusesExactlyBadGraphs
    ListedBlobsSurvive
    ReportsMatchKeys
    ExactlyTheDependents
PROPERTIES
    NoLostEntry
    RunEnds
CHECK_DEADLOCK FALSE
