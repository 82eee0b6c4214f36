SPECIFICATION StuckSpec
CONSTANTS
    Handlers = {1, 2}
    NoRequest = NoRequest
    Capabilities <- MCCapabilities
    Configs <- MCStuckConfigs
PROPERTIES
    FinishedPointsReachTheStore
