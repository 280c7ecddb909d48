\* A caller that may call the facade after Stop.
CONSTANTS
    MaxStarts <- MCMaxStarts
    MaxMailbox = 2
    CtlMayFail = FALSE
    MayRestart = FALSE
    MayCallAfterStop = TRUE
    StaleRemove = FALSE
SPECIFICATION Spec
CHECK_DEADLOCK FALSE
INVARIANT NeverAborts
