CONSTANTS
 Strategies = {s1, s2}
 Symbols = {btc}
 s1 = s1
 s2 = s2
 btc = btc
 Watches <- MCWatches
 c1 = c1
 c2 = c2
 Callers = {c1, c2}
 Broken = {s2}
 Levels <- MCLevels
 Initial <- MCInitial
 Batch = 1
 MaxChanges = 2
 MaxUnread = 1
 MaxFaults = 1
SPECIFICATION FairSpec
INVARIANTS RegistryInv TrailTellsHistory
PROPERTIES NoStaleIntent RevivedOnlyWhenOvertaken ChangesArrive
CHECK_DEADLOCK FALSE
