\* Pipe identities tracked across two opens, so that a descriptor number
\* closed and reused by a second pipe is told apart from the first; Start
\* never fails.
CONSTANTS
    Nums <- MCNums
    Masks = {"LT"}
    MaxPipes = 1
    MaxMailbox <- MCMaxMailbox
    CtlMayFail = FALSE
    StaleRemove = FALSE
    MaxOpens = 2
SPECIFICATION Spec
PROPERTY CallbackForOwnPipe
