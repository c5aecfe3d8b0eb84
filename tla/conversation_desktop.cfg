SPECIFICATION Spec
CONSTANTS
    MaxTurns <- Two
    MaxAsked <- Two
    MaxPending <- Two
PROPERTIES
    ReplyIsWithheld
