SPECIFICATION Spec
CONSTANTS
    SeqMod = 8
    SendWindow = 3
    RxAckWindow = 2
    MaxRetries = 3
    Program <- WrapProgram
    LossKinds <- AllKinds
    MaxLoss = 3
    MaxSpurious = 2
    MaxBoots = 0
CHECK_DEADLOCK FALSE
INVARIANTS TypeOK InOrderOnce ReplyIntact WindowKept
PROPERTY ImplementsReliable
