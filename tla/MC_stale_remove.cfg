\* The caller calls RemoveFd on numbers it opened and already closed (spec P3).
CONSTANTS
    Nums <- MCNums
    Masks = {"LT"}
    MaxPipes = 1
    MaxMailbox <- MCMaxMailbox
    CtlMayFail = FALSE
    StaleRemove = TRUE
    MaxOpens = 0
SPECIFICATION Spec
PROPERTY StopCompletes
