CONSTANTS
    a = a
    b = b
    File = {a, b}
    Content <- MCContent
    LineId = {1, 2, 3, 4}
    Branch = {main, snap1, snap2, fixes1, fixes2}
    RecoveryBranch = {snap1, snap2}
    FixesBranch = {fixes1, fixes2}
    Main = main
    Source <- MCSource
    Absent = Absent
    NoRef = NoRef
    NoCap = NoCap
    MaxFindings = 8
    Bundles <- MCBundles
    AnyFile = FALSE
    Analyzers <- MCAnalyzers
    LLMAnalyzer = {"llm"}
    Analysis <- MCAnalysis
    BadPatch = {3}
    Mine <- MCMine
    MaxCrawls = 2
    MaxSaves = 1
    DiskCanFill = TRUE
SPECIFICATION CrawlSpec
INVARIANTS
    OnlyCompilingCommitted
    CommitIsThisCycles
CHECK_DEADLOCK FALSE
