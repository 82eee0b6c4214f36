SPECIFICATION Spec
CONSTANTS
    Handlers = {1, 2}
    NoRequest = NoRequest
    Capabilities <- MCCapabilities
    Configs <- MCTwoRecords
INVARIANTS
    EveryDivergenceIsTraced
