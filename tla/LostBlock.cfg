SPECIFICATION SpecGap
CONSTANTS
    Modulus = 8
    PayloadSize = 3
    BlockSize = 2
    Window = 2
    MaxRetransmissions = 8
    DallyLimit = 4
    MaxCopies = 3
    MaxLag = 8
    OmitTerminatingEmptyBlock = FALSE
    RetransmitOnDuplicateAck = FALSE
    AcceptOutOfSequenceData = FALSE
    RetransmissionTimeout = 8
    DallyTimeout = 3
    Delay = 2
    Jitter = 1
    MaxDataLosses = 1
    MaxAckLosses = 0
INVARIANTS
    LostBlockIsResent
