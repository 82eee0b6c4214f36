SPECIFICATION Spec
CONSTANTS
    Handlers = {1, 2}
    NoRequest = NoRequest
    Capabilities <- MCCapabilities
    Configs <- MCConfigs
INVARIANTS
    SuiteTypeOK
    ComparedFilesAreFinal
    VerdictIsDeserved
    CrashKeepsResults
    ReportIsHonest
PROPERTIES
    SuiteEnds
