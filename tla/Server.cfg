SPECIFICATION PartsSpec
CONSTANTS
    s1 = s1  s2 = s2
    Signatures = {s1, s2}
    Codecs = {"xor", "gcm"}
    Inits <- Collide
    MaxLegacyId = 1
    MaxId = 4
    Cap = 2
    ReuseTTL = 1
    IdleTimeout = 1
    Retention = 0
    MaxTime = 3
    Notices = TRUE
    MaxSerial = 3
    Keys = {"k"}
    Sids = {1}
    StreamIds = {0, 1}
    MaxSessions = 1
    MaxStreams = 2
    MaxTotalStreams = 1
    MaxCtrlQueue = 1
    MaxCreated = 2
    MaxJobs = 2
    MaxLooked = 1
    Questions = {"p"}
    Total = 2
    MaxGuards = 2
    MaxBytes = 1
    GuardTTL = 1
    KeptTicks = 1
    Counts = 4
    MaxSeals = 3
    MaxTick = 1
    Conns = {1, 2, 3}
    IPs = {1, 2}
    TotalMax = 2
    EncryptedMax = 1
    ListenerMax = 2
    PerIP = 1
    MaxInFlight = 1
    MaxQueries = 1
INVARIANTS TableExact OnePerFreshInit NoMistakenIdentity SlotsHeld TableSound AnswersSound StreamsSound ConnsSound QuerySound
CHECK_DEADLOCK FALSE
