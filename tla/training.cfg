SPECIFICATION FairSpec
CONSTANT
    Jobs = {a, b, c}
INVARIANTS
    JobsOK
    CompleteIsRegistered
PROPERTIES
    KeepsPromise
    Unblocks
