SPECIFICATION FairSpec
CONSTANTS
  c1 = c1
  c2 = c2
  d1 = d1
  d2 = d2
  s1 = s1
  s2 = s2
  Calls = {c1, c2}
  Documents = {d1, d2}
  Servers = {s1, s2}
  None = none
  Cases <- MCCases
  MaxCrashes = 2
CHECK_DEADLOCK FALSE
INVARIANTS
  TypeOK
  ConvertedWhole
  AloneIsSafe
PROPERTIES
  EveryConversionReturns
