SPECIFICATION ManagerSpec
CONSTANTS
  Reader = {r1}
  Stopper = {p1, p2}
  Session = {s1, s2}
  Instance = {i1, i2}
  None = None
  Faults = {}
  OwnerMayStop = TRUE
  Quality = {low, high}
SYMMETRY Symmetry
INVARIANT TableFollowsSettings
