CONSTANTS
  OrigQty = 2
  TradeGaps = {1}
  MaxFailures = 0
SPECIFICATION FairSpec
PROPERTY ExecutedIsRecorded
CHECK_DEADLOCK FALSE
