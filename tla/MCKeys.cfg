SPECIFICATION KeysSpec
CONSTANTS
  KeyCall = {k1, k2}
  Browser = {b1}
INVARIANTS
  ReturnedIsStored
CHECK_DEADLOCK FALSE
