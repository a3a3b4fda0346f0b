CONSTANTS
    Client = Client
    Server = Server
    Scenes <- Ending
SPECIFICATION FairSpec
CHECK_DEADLOCK FALSE
PROPERTIES CleanClose
