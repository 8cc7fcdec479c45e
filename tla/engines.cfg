CONSTANTS
 BarPrices = {1, 2, 4}
 BarVolumes = {1}
 EmaPeriod = 3
 RsiPeriod = 2
 AtrPeriod = 2
 BandPeriod = 2
 History = 3
 Scale = 48
 MaxBars = 5
 LevelPrices = {1, 2, 3}
 LevelSizes = {0, 1, 6}
 TradePrices = {2, 4}
 Depth = 3
 Multiplier = 2
 MinNotional = 20
 MaxAge = 2
 MaxUpdateTime = 3
 MaxUpdates = 4
 TradeSizes = {1, 2}
 Window = 3
 Bucket = 2
 Lookback = 2
 Skew = 1
 LiquidationCap = 2
 LiquidationWindow = 1
 TapeWindow = 1
 MaxTime = 5
 MaxTrades = 4
 MaxLiquidations = 3
 Symbols = {s1, s2}
 MaxEvents = 3
 MaxVersions = 2
 MaxClock = 3
 KeyTtl = 2
 MaxSnapshotFaults = 1
 Nil = Nil
SPECIFICATION Spec
SYMMETRY SymbolSymmetry
INVARIANTS IndicatorInv WallInv FlowInv SnapshotInv
CHECK_DEADLOCK FALSE
