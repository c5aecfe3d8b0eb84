SPECIFICATION TurnsFairSpec
CONSTANTS
    MaxItems <- OneItem
    Voice = voice
    Speakers = {voice, aside}
    NoWorker = NoWorker
INVARIANTS
    VoiceOK
    MicClosedDuringReply
    SpeakingIsOwed
PROPERTIES
    TrailingCloses
    SpeakingEndsUnlessLost
