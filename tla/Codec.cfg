SPECIFICATION MCSpec
CHECK_DEADLOCK FALSE
CONSTANTS
    Bits = 3
    PayloadBytes = {0, 1}
    Letters = {"a"}
    MaxDatagram = 9
    MaxText = 6
    MaxName = 3
    ExactLimit = 200
    PlainLimit = 100
    SignificantDigits = 2
    MaxNumber = 1100
INVARIANTS
    ParsedPacketsRoundTrip
    FlippedOpcodeIsHarmless
    NetasciiFaithful
    RecordsAreWhole
    
