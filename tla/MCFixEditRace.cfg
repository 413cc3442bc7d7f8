CONSTANTS
    a = a
    b = b
    File = {a, b}
    Content <- MCContent
    LineId = {1, 2, 3, 4, 5, 6, 7, 8}
    Branch = {main, snap1, snap2}
    RecoveryBranch = {snap1, snap2}
    Main = main
    Source <- MCSource
    Absent = Absent
    NoRef = NoRef
    NoCap = NoCap
    MaxFindings = 8
    Reports <- DeterministicReports
    FlagChoices <- ApplyOnly
    Edited <- MCEdited
    MaxPasses = 1
    MaxSaves = 1
    DiskCanFill = FALSE
SPECIFICATION Spec
PROPERTIES
    OnlyImportsDeleted
CHECK_DEADLOCK FALSE
