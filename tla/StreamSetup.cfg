SPECIFICATION Spec
CONSTANTS
    f1 = f1  f2 = f2  h1 = h1  h2 = h2
    Packets = {f1, f2}
    Handlers = {h1, h2}
    MaxStreams = 2
    MaxDials = 2
    Scenes <- AllClosings
INVARIANTS SetupSound SessionLeavesNothing
CHECK_DEADLOCK FALSE
SYMMETRY IngressSymmetry
