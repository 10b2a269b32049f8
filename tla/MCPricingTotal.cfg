\* A total alone, at the dearest price of all, against the hold.
SPECIFICATION PricingSpec
CONSTANTS
  Unit = 2
  MaxInt = 14
  MaxCount = 3
  Prices = {0, 1, 3}
  Limits = {1, 3}
  DefaultReserve = 2
  Tokens = {0, 1, 2}
INVARIANTS EveryUsageSettles
CHECK_DEADLOCK FALSE
