SPECIFICATION Spec
CONSTANTS
    r1 = r1
    r2 = r2
    bulb = bulb
    spot = spot
    rpi = rpi
    None = None
    Garbage = Garbage
    Request <- MCRequest
    Light <- MCLight
    Hidden <- MCHidden
    Features <- MCFeatures
    Value <- MCValue
    Op <- MCOp
    AsFound <- MCAsFound
    MaxRequests = 2
    MaxChanges = 1
SYMMETRY Symmetry
CHECK_DEADLOCK FALSE
INVARIANTS
    ShownWasThere
    SteadyIsShown
    LightsMatchGroups
    CountWasTrue
