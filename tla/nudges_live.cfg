SPECIFICATION FairSpec
CONSTANTS
    Ids = {stretch}
    MaxArmed = 1
    Gap = 2
    Interval = 3
    MaxAhead = 3
    MaxLate = 2
    MaxBack = 2
PROPERTIES
    DueFires
    FireIsResolved
