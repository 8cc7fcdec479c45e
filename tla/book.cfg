CONSTANTS
 Prices = {"p", "q"}
 Quantities = {0, 1}
 None = None
 Streams = {"depth", "depth5"}
 MaxUpdates = 2
 MaxQueue = 2
 MaxFaults = 2
SPECIFICATION FairSpec
INVARIANTS BookInv ValidBookIsTrue
PROPERTIES BookMovesForward BookHeals
CHECK_DEADLOCK FALSE
