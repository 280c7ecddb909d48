\* Up to three registrations (each destroys the previous client), the
\* destruction of the exporter with a retry Ping possibly pending, a backend
\* that changes three times, every push and ping outcome; the observer
\* mailbox holds up to four messages.
SPECIFICATION Spec
CONSTANTS
    HasHeartbeatUrl = TRUE
    UpPushCodes <- MCUpPushCodes
    DownPushCodes <- MCDownPushCodes
    UpPingCodes <- MCUpPingCodes
    DownPingCodes <- MCDownPingCodes
    MaxFlaps = 3
    MaxMailbox = 4
    MaxRegisters = 3
    MayDestroy = TRUE
\* A destroyed exporter with a backend that stopped changing is finished.
CHECK_DEADLOCK FALSE

INVARIANT SingleRetryTimer
PROPERTY NoWriteAfterDestroy
PROPERTY ClientTeardownCompletes
