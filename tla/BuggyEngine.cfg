SPECIFICATION FairSpec
CONSTANTS
    Modulus = 8
    PayloadSize = 6
    BlockSize = 2
    Window = 2
    MaxRetransmissions = 1
    DallyLimit = 2
    MaxCopies = 1
    MaxLag = 8
    OmitTerminatingEmptyBlock = TRUE
    RetransmitOnDuplicateAck = TRUE
    AcceptOutOfSequenceData = TRUE
INVARIANTS
    QuirkOnlySkipsBlocks
PROPERTIES
    MissingFinalBlockIsFatal
    Termination
