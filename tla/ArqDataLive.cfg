CONSTANT Scenes <- Losing
SPECIFICATION FairSpec
CHECK_DEADLOCK FALSE
INVARIANTS Carried
PROPERTIES AllArrive InOrderOnce
