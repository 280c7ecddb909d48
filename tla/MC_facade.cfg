\* Any order of facade calls by a caller that never restarts a referenced
\* actor but may call again after Stop and may remove a descriptor it
\* already closed, and every Start failure: Stop returns unless the stop
\* eventfd was disarmed, and no RunLoop thread outlives its facade.  The caller stops
\* calling once its Starts are used up or a call aborted.
CONSTANTS
    MaxStarts <- MCMaxStarts
    MaxMailbox = 3
    CtlMayFail = TRUE
    MayRestart = FALSE
    MayCallAfterStop = TRUE
    StaleRemove = TRUE
SPECIFICATION Spec
CHECK_DEADLOCK FALSE
INVARIANT NoOrphanLoop
PROPERTY StopReturns
