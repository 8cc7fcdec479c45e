CONSTANTS
 Strategies = {s1, s2}
 Symbols = {btc}
 s1 = s1
 s2 = s2
 btc = btc
 Watches <- MCWatches
 c1 = c1
 c2 = c2
 Callers = {c1, c2}
 Broken = {s2}
 Levels <- MCLevels
 Initial <- MCInitial
 Batch = 1
 MaxChanges = 2
 MaxUnread = 0
 MaxFaults = 0
SPECIFICATION Spec
PROPERTY ArchivedIsFinal
CHECK_DEADLOCK FALSE
