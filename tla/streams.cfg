CONSTANTS
 Amounts = {2, 5}
 Changes = {"trade", "deposit"}
 Faults = {"revoke", "foreign", "network", "close", "normal_close", "keepalive", "stop", "crash", "db", "redis"}
 MaxChanges = 2
 MaxWire = 2
 MaxFaults = 3
 Overflow = 1
 None = None
 Life = 4
 Refresh = 2
 MaxExponent = 2
 MaxDrops = 2
 MaxRaised = 3
SPECIFICATION FairSpec
INVARIANTS AccountInv PrivateInv
PROPERTY StreamsReturn
CHECK_DEADLOCK FALSE
