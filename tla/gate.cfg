SPECIFICATION FairSpec
CONSTANTS
    Cooldown = 1
    MaxCooldown = 3
    FreeformGap = 2
    ForcedSilence = 2
    Burst = 2
    Streak = 2
    Window = 3
    WindowCap = 2
    QuipGap = 1
    MaxExtras = 2
INVARIANTS
    GateOK
    GatedWithinWindow
PROPERTIES
    RejectionsAreSpaced
    NeverLockedOut
CHECK_DEADLOCK FALSE
