SPECIFICATION Spec
CONSTANTS
    MinimumBlockSize = 2
    DefaultBlockSize = 3
    MaximumBlockSize = 5
    MaximumTimeout = 2
    MaximumWindow = 3
    BlockSizes = 8
    Windows = 4
    Operations = {"write"}
    RequestedOptions <- MCWriteBlockSizes
    PayloadSizes = {4, 6, 7}
    Supported = {"blksize", "timeout", "tsize", "windowsize"}
    Garbled = {}
    ForeignOacks = {}
    MaxRetransmissions = 1
INVARIANTS
    NegotiatedUploadIsWhole
