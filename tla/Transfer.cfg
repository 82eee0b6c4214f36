SPECIFICATION FairSpec
CONSTANTS
    Modulus = 4
    PayloadSize = 6
    BlockSize = 2
    Window = 2
    MaxRetransmissions = 1
    DallyLimit = 2
    MaxCopies = 2
    MaxLag = 1
    OmitTerminatingEmptyBlock = FALSE
    RetransmitOnDuplicateAck = FALSE
    AcceptOutOfSequenceData = FALSE
INVARIANTS
    TypeOK
    SinkIsPrefix
    WindowInv
    HonestSuccess
    DalliesOnWholeFile
PROPERTIES
    ResendOnlyOnTimeout
    ImplementsFileDelivery
    Termination
