\* Registrations with EPOLLET, the mask std_monitor_test.cpp passes to AddFd.
CONSTANTS
    Nums <- MCNums
    Masks = {"ET"}
    MaxPipes = 1
    MaxMailbox <- MCMaxMailbox
    CtlMayFail = FALSE
    StaleRemove = FALSE
    MaxOpens = 0
SPECIFICATION Spec
PROPERTY ReadableDataDispatched
