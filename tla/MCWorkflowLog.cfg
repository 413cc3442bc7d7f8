CONSTANTS
    MaxLines = 5
    MaxAttempt = 2
SPECIFICATION Spec
INVARIANTS
    HistoryIsLegal
    LogIsHistory
    AttemptsNeverReused
PROPERTIES
    TerminalIsFinal
CHECK_DEADLOCK FALSE
