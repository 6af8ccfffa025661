SPECIFICATION Spec
CONSTANTS
    Low <- MCLow
    High = 220
    Steps <- MCSteps
INVARIANTS
    TypeOK
PROPERTIES
    StepsGoTheirWay
    StepsShow
    WriteBackIsClose
