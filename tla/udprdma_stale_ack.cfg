SPECIFICATION Spec
CONSTANTS
    SeqMod = 8
    SendWindow = 3
    RxAckWindow = 2
    MaxRetries = 4
    Program <- MixedProgram
    LossKinds <- AllKinds
    MaxLoss = 1
    MaxSpurious = 0
    MaxBoots = 0
CHECK_DEADLOCK FALSE
INVARIANT
    SentMeansReceived
