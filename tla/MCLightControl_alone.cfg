SPECIFICATION Spec
CONSTANTS
    r1 = r1
    r2 = r2
    bulb = bulb
    spot = spot
    strip = strip
    rgb1 = rgb1
    rgb2 = rgb2
    turn = turn
    stub = stub
    Request <- TwoRequests
    Light <- AllLights
    Unknown = Unknown
    Hidden <- Bulb
    Type <- MCType
    Body <- AllBodies
    ToHS <- MCToHS
    ShiftHS <- MCShiftHS
    AsFound <- MCAsFound
    Garbage = Garbage
    OneAtATime = TRUE
    MaxRequests = 2
    MaxGlitches = 0
CHECK_DEADLOCK FALSE
INVARIANTS
    LightTypeOK
    UpdatesPropagate
PROPERTIES
    OffReplyIsTrue
    KeepsPromise
