CONSTANTS
    Client = Client
    Server = Server
    Scenes <- Failing
SPECIFICATION TimedSpec
CHECK_DEADLOCK FALSE
INVARIANTS NothingCutShort
PROPERTIES NoSurvivor
