CONSTANTS
    Client = Client
    Server = Server
    Scenes <- TwoFromClient
SPECIFICATION Spec
CHECK_DEADLOCK FALSE
INVARIANTS DrainsBeforeShutting
