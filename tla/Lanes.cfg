CONSTANTS
    t1 = t1  t2 = t2  t3 = t3
    laneA = laneA  laneB = laneB  s1 = s1
    f1 = f1  f2 = f2  h1 = h1  h2 = h2
    NoTask = NoTask
    Tasks = {t1, t2, t3}
    Lanes = {laneA, laneB}
    Sessions = {s1}
    LaneOf <- MCLaneOf
    SessionOf <- MCSessionOf
    NumWorkers = 2
    QueueLimit = 1
    SessionCap = 2
    MaxGen = 2
SPECIFICATION PartsSpec
INVARIANTS LanesSound Accounted
PROPERTIES ImplementsPromise TasksSettle StrandedOnlyByOverload
CHECK_DEADLOCK FALSE
