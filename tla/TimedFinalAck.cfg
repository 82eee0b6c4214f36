SPECIFICATION TimedSpec
CONSTANTS
    Modulus = 8
    PayloadSize = 3
    BlockSize = 2
    Window = 1
    MaxRetransmissions = 8
    DallyLimit = 4
    MaxCopies = 3
    MaxLag = 8
    OmitTerminatingEmptyBlock = FALSE
    RetransmitOnDuplicateAck = FALSE
    AcceptOutOfSequenceData = FALSE
    RetransmissionTimeout = 8
    DallyTimeout = 3
    Delay = 1
    Jitter = 0
    MaxDataLosses = 0
    MaxAckLosses = 1
INVARIANTS
    FinalAckIsRepaired
