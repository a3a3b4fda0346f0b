SPECIFICATION PartsSpec
CONSTANTS
    t1 = t1  t2 = t2  plain = plain  dnssec = dnssec
    Txns = {t1, t2}
    Paths = {"udp", "tcp"}
    Tcp = {"tcp"}
    Configured = {"udp"}
    MaxInflight = 2
    MaxPathWindow = 2
    MaxPending = 2
    MaxHelloPaths = 2
    SuspendAfter = 1
    PruneAfter = 1
    Want = 1
    MaxClass = 3
    Checks = {2}
    Full = 3
    MinBase = 1
    GuardBase = 1
    EarnTrial = 1
    MaxAsked = 2
    MaxBackoffs = 1
    Querents = {1, 2, 3}
    Upstreams = 2
    Timeout = 1
    EndTime = 1
    Keys = {plain, dnssec}
    Question <- OneQuestion
    Waiters = {1, 2}
    DnsIds = {1, 2}
    MaxWaiting = 2
    PerQuestion = 2
    ShardRecords = 1
    PendingTimeout = 1
    Lifetime = 1
    MaxGroups = 2
    MaxTime = 1
    MaxCrashes = 1
SYMMETRY Alike
INVARIANTS InHand NoFalseError GracefulClose FlightSound AnswersWatched SizesFound LookupsSound ResolveSound EvidenceSound DispatchSound RoutesSound LocalSound
CHECK_DEADLOCK FALSE
