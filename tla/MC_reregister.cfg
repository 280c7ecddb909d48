\* Two registrations: the second replaces the client and its observer.
SPECIFICATION Spec
CONSTANTS
    HasHeartbeatUrl = TRUE
    UpPushCodes <- MCUpPushCodes
    DownPushCodes <- MCDownPushCodes
    UpPingCodes <- MCUpPingCodes
    DownPingCodes <- MCDownPingCodes
    MaxFlaps = 3
    MaxMailbox = 3
    MaxRegisters = 2
    MayDestroy = FALSE
PROPERTY HealthRecovers
