SPECIFICATION Spec
CONSTANTS
    r1 = r1
    r2 = r2
    bulb = bulb
    spot = spot
    strip = strip
    rgb1 = rgb1
    rgb2 = rgb2
    turn = turn
    stub = stub
    Request <- OneRequest
    Light <- Bulb
    Unknown = Unknown
    Hidden <- NoLight
    Type <- MCType
    Body <- FewBodies
    ToHS <- MCToHS
    ShiftHS <- MCShiftHS
    AsFound <- MCAsFound
    Garbage = Garbage
    OneAtATime = FALSE
    MaxRequests = 2
    MaxGlitches = 0
CHECK_DEADLOCK FALSE
PROPERTIES
    OffReplyIsTrue
