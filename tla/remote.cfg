SPECIFICATION FairSpec
CONSTANTS
    Voices = {bender, glados}
    Nobody = Nobody
    MaxRuns = 2
INVARIANT
    TypeOK
PROPERTIES
    CheckpointsSurvive
    RunEnds
CHECK_DEADLOCK FALSE
