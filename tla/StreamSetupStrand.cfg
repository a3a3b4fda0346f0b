SPECIFICATION FairSpec
CONSTANTS
    f1 = f1  f2 = f2  h1 = h1  h2 = h2
    Packets = {f1, f2}
    Handlers = {h1, h2}
    MaxStreams = 1
    MaxDials = 1
    Scenes <- FullQueue
PROPERTY NotStranded
CHECK_DEADLOCK FALSE
