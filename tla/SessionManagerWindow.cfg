SPECIFICATION ManagerSpec
CONSTANTS
  Reader = {r1, r2}
  Stopper = {p1, p2}
  Session = {s1, s2}
  Instance = {i1, i2}
  None = None
  Faults = {}
  OwnerMayStop = TRUE
  Quality = {low, high}
INVARIANT OneLiveSession
