SPECIFICATION Spec
CONSTANTS
    Ids = {stretch, water}
    MaxArmed = 2
    Gap = 1
    Interval = 2
    MaxAhead = 2
    MaxLate = 1
    MaxBack = 1
SYMMETRY Perms
INVARIANT
    TypeOK
PROPERTIES
    KeepsPromise
    FiresOncePerInterval
