SPECIFICATION Spec
CONSTANTS
    TicksPerSecond = 2
    Modulus = 4
    WrapLow = 2
    Header = 4
    Clients = {11, 12}
    Handlers = {1, 2}
    WellKnown = 1
    ClientPackets <- MCClientPackets
    ServerPackets <- MCServerPackets
    StrayReplyPackets <- MCStrayReplyPackets
    Configs <- MCConfigs
    MaxDatagrams = 4
INVARIANTS
    ProxyTypeOK
    TraceTellsWhatWasSent
    RelayedToOwnPeer
    BlackoutIsTotal
    ThrottledRate
    RetransmissionsAreThePeers
    FreshTidIsTrue
PROPERTIES
    StopDrains
    ImplementsRelay
