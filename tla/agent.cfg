SPECIFICATION FairSpec
CONSTANTS
    Actions <- MCActions
    Names <- MCNames
    Marked <- MCMarked
    Sinks <- MCSinks
    Gated <- MCGated
    Confirmed <- MCConfirmed
    Cacheable <- MCCacheable
    MaxSteps = 2
    TokenBudget = 2
    StepTokens = 2
    MaxBatch = 2
    Thinking = TRUE
    Models = {m1, agent}
    AgentModel = agent
    NoModel = NoModel
INVARIANTS
    NoWayOut
    ContentNeverPersisted
    CostBounded
    SwapIsUndone
PROPERTIES
    DenialEndsTheLoop
    EveryStepCounts
    RunEnds
