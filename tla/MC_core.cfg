\* Level-triggered registrations (the mask of std_monitor_actor_test.cpp),
\* every Start failure the code handles, a caller that only removes its
\* open pipes.
CONSTANTS
    Nums <- MCNums
    Masks = {"LT"}
    MaxPipes = 1
    MaxMailbox <- MCMaxMailbox
    CtlMayFail = TRUE
    StaleRemove = FALSE
    MaxOpens = 0
SPECIFICATION Spec
INVARIANT TypeOK
INVARIANT StopChannelArmed
PROPERTY StopCompletes
PROPERTY ReadableDataDispatched
PROPERTY ImplementsLifecycle
