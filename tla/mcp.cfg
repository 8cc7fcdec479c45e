CONSTANTS
 Ids = {s1, s2}
 Calls = {c1, c2}
 Tools <- MCTools
 ScopeOf <- MCScopeOf
 Blocked <- MCBlocked
 Scopes <- MCScopes
 MaxSessions = 1
 MaxFaults = 1
 None = None
 SessionIds = {t1, t2}
 Requests = {r1, r2, r3}
 Shots = {shot}
 Steps <- MCSteps
 OwnSession = t1
 Ttl = 3
 MaxTicks = 4
 MaxSessionFaults = 1
 NoSession = NoSession
SPECIFICATION FairSpec
INVARIANTS GatewayInv OnlyPermittedReachTools SessionInv
PROPERTIES GatewayReturns ShotsAreOneShot
CHECK_DEADLOCK FALSE
