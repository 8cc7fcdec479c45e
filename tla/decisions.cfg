SPECIFICATION Spec
CONSTANTS
    Ema9 = ema_9
    Ema21 = ema_21
    Values = {0, 1}
    MarketPrices = {1, 3}
    Versions <- MCVersions
    MaxEvals = 3
    MaxWriteFaults = 2
    MaxAsked = 1
    Markets = {"spot", "futures"}
    Prices = {4, 10}
    Amounts = {10, 40}
    Sizes = {5, 6}
    Cent = 4
    MaxUsd = 50
    MaxWrites = 3
    MaxExpired = 1
    None = None
    Absent = Absent
    Held = {h1, h2}
    Orders <- MCOrders
    DefaultLimits <- MCDefaultLimits
    Policies <- MCPolicies
    DeniedSymbols = {}
    MaxLoss = 2
    MaxJobs = 2
    MaxReports = 2
    MaxPolicies = 1
    MaxDays = 1
    MaxReadFaults = 1
    Unset = Unset
    LiveSymbols = {"BTCUSDT", "btcusdt"}
    Upper <- MCUpper
    LiveAccounts = {acct1, acct2}
    LiveQuotes = {3, 5}
    LiveSizes = {1, 2}
    LiveAmounts = {0, 6}
    LiveCap = 5
    Nothing = Nothing
INVARIANTS RulesInv RecordsInv PricingInv RiskInv LiveInv
CHECK_DEADLOCK FALSE
