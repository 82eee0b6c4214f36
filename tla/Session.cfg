SPECIFICATION Spec
CONSTANTS
    MinimumBlockSize = 2
    DefaultBlockSize = 3
    MaximumBlockSize = 5
    MaximumTimeout = 2
    MaximumWindow = 3
    BlockSizes = 8
    Windows = 4
    Operations = {"read", "write"}
    RequestedOptions <- MCOptions
    PayloadSizes = {0, 4, 6, 7}
    Supported = {"blksize", "timeout", "tsize", "windowsize"}
    Garbled = {"blksize", "tsize"}
    ForeignOacks <- MCForeignOacks
    MaxRetransmissions = 1
INVARIANTS
    TypeOK
    ReadParametersAgree
    DownloadIsWhole
    UploadIsHonest
    OnlyRequestedOptions
