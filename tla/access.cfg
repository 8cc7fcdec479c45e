CONSTANTS
 Clients = {c1, c2}
 Allowed = {c1, c2}
 Codes = {k1, k2}
 Tokens = {t1, t2}
 TokenRequests = {q1, q2}
 CookieAge = 1
 CodeTtl = 1
 TokenTtl = 1
 MaxTime = 3
 MaxOAuthFaults = 1
 None = None
 ApiRequests = {r1, r2, r3, r4}
 Limit = 2
 Minute = 2
 Ttl = 4
 MaxDelay = 2
 End = 5
 MaxLimitFaults = 1
 Operators = {o1, o2}
 MaxModeFaults = 2
 MaxIntents = 1
 Savers = {p1, p2}
 EncryptionKeys = {e1, e2}
 Invalid = Invalid
 MaxRestarts = 1
 MaxDeletions = 1
 MaxStoreFaults = 2
SPECIFICATION Spec
INVARIANTS OAuthInv LimitInv ModeInv CredentialInv
CHECK_DEADLOCK FALSE
