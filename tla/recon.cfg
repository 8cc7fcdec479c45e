CONSTANTS
  OrigQty = 2
  TradeGaps = {0, 1}
  MaxFailures = 1
SPECIFICATION FairSpec
INVARIANT OrderInv
PROPERTIES FilledGrows OrdersSettle
CHECK_DEADLOCK FALSE
