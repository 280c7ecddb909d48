\* One registration, fairness of the observer, its timers and curl: the
\* gating of exports while a client exists, and recovery of the health.
SPECIFICATION Spec
CONSTANTS
    HasHeartbeatUrl = TRUE
    UpPushCodes <- MCUpPushCodes
    DownPushCodes <- MCDownPushCodes
    UpPingCodes <- MCUpPingCodes
    DownPingCodes <- MCDownPingCodes
    MaxFlaps = 5
    MaxMailbox = 4
    MaxRegisters = 1
    MayDestroy = FALSE
INVARIANT GatedExportsRecover
PROPERTY HealthRecovers
