SPECIFICATION CleanRestartSpec
CONSTANTS
    SeqMod = 8
    SendWindow = 3
    RxAckWindow = 2
    MaxRetries = 4
    Program <- WriteFirst
    LossKinds <- AllKinds
    MaxLoss = 3
    MaxSpurious = 1
    MaxBoots = 1
CHECK_DEADLOCK FALSE
INVARIANTS SessionsInOrder
PROPERTY Terminates CompletesAgain
