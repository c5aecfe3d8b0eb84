SPECIFICATION FairSpec
CONSTANTS
    MaxTurns <- Two
    MaxAsked <- Two
    MaxPending <- Two
INVARIANTS
    HistoryOK
    ClearedStaysGone
PROPERTIES
    RepliesAreLive
    LoopComesBack
