CONSTANTS
    File = {src, note}
    Source = {src}
    Content = {before, after, mine}
    Before = before
    After = after
    Mine = mine
    Branch = {main, fixes}
    Main = main
    FixesBranch = {fixes}
    Absent = Absent
    NoRef = NoRef
    CliValues = {"None", "working-tree", "branch", "branch-pr", "bogus"}
    ConfigValues = {"None", "branch", "bogus"}
    MaxSaves = 2
SPECIFICATION Spec
INVARIANTS
    FixNotLost
    OperatorWorkKept
    OutcomeIsHonest
PROPERTIES
    OtherBranchesUntouched
CHECK_DEADLOCK FALSE
