SPECIFICATION FairSpec
CONSTANTS
    bulb = bulb
    spot = spot
    Device <- MCDevice
    devs <- MCdevs
    fts <- MCfts
    Features <- MCFeatures
CHECK_DEADLOCK FALSE
INVARIANTS
    NoneLeftBehind
    LastIsFetched
PROPERTIES
    Serves
