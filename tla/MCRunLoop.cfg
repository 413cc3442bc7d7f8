CONSTANTS
    a = a
    File = {a}
    Content <- MCContent
    LineId = {1, 2}
    Branch = {main, snap1, snap2, fixes1, fixes2}
    RecoveryBranch = {snap1, snap2}
    FixesBranch = {fixes1, fixes2}
    Main = main
    Source <- MCSource
    Absent = Absent
    NoRef = NoRef
    NoCap = NoCap
    MaxFindings = 8
    Reports <- MCReports
    ArgChoices <- MCArgs
    MaxRetries = 1
    MaxCycles = 2
    MaxCommits = 1
    DiskCanFill = TRUE
SPECIFICATION Spec
INVARIANTS
    
    
    OnlyVerifiedFixesCommitted
    ChangeIsAccountedFor
PROPERTIES
    ImplementsWorkflowLog
    
CHECK_DEADLOCK FALSE
