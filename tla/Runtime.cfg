CONSTANTS
    p1 = p1
    p2 = p2
    Health = health
    Ping = ping
    Processors <- TwoProcessors
    Mtus <- TwoMtus
    Path <- ThreeResolvers
    Parallel = 2
    Starters = {2}
    Floor = 2
    Pressure = 2
    Slots = 2
    Grouping = TRUE
    HighPool = 0
    MaxRestarts = 1
    MaxDisables = 1
    DisablesAfter = FALSE
SPECIFICATION PartsSpec
CHECK_DEADLOCK FALSE
INVARIANTS RestartsClean PoolSound
PROPERTIES CooldownRespected FreshToken RestartHappens PersistentFailureEscalates
