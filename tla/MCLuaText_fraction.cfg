SPECIFICATION TextSpec
CONSTANTS
  MAXCCALLS = 5
  LUA_MAXCAPTURES = 3
  MaxErrors = 7
  IntBits = 8
  MAXDIG = 3
  INT_MAX = 7
  Calls <- NoCalls
  Numerals <- Fraction
INVARIANTS EveryNumeralConverts
CHECK_DEADLOCK FALSE
