SPECIFICATION ScanSpec
CONSTANTS
  Byte = {0, 1, 2}
  MaxLength = 8
  Inputs <- ShortBuffers
INVARIANTS FindsStartCodes UnitsAreWhole
CHECK_DEADLOCK FALSE
