CONSTANTS
  w1 = w1
  w2 = w2
  i1 = i1
  i2 = i2
  btc = btc
  Malformed = Malformed
  None = None
  Workers = {w1, w2}
  Intents = {i1}
  Symbols = {btc}
  SymbolOf <- OneSymbol
  OperatorControls <- KillSwitchOnly
  BatchSize = 2
  MaxEntries = 2
  MaxFaults = 1
SPECIFICATION OrderedSpec
INVARIANTS ConsumerInv FilledOncePerLock TablesAgree
PROPERTIES JobLifecycleSpec OneLateSubmit NoReentry EveryEntryAcked
