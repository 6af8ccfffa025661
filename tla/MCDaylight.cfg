SPECIFICATION Spec
CONSTANTS
    Day = 24
    Minute = 2
INVARIANTS
    NeverAtNight
    RightNearGreenwich
