SPECIFICATION FairSpec
CONSTANTS
    Named = {a, b}
    CrossChecks = {x, y}
    Root = root
    ToolCalls = {t1, t2}
    Target = 2
    MaxParallel = 1
    MaxToolCalls = 1
    MaxPlanRepairs = 1
    MaxEmptyRetries = 1
    MaxSemanticRepairs = 2
INVARIANTS
    CrewOfTheEffort
    NoPartialCrew
    ReportIsTrue
PROPERTIES
    RunEnds
