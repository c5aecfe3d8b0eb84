SPECIFICATION FairIdleSpec
CONSTANTS
    Rules = {"word", "fact"}
    Tools = {"word_of_the_day", "random_fact"}
    ToolOf <- MCToolOf
    Catalog <- MCCatalog
    Evergreen = {"word_of_the_day"}
    RuleCooldown <- MCRuleCooldown
    CoolOff <- MCCoolOff
    GlobalCooldown = 2
    MaxPerHour = 2
    Hour = 3
    M3Cooldown = 2
    M3PerHour = 1
    PickLimit = 1
    CircuitCoolOff = 2
    Horizon = 4
    CallTime = 1
    MaxFires = 2
INVARIANT
    CapsOK
PROPERTIES
    DrawsAreSpaced
    RollsComeBack
