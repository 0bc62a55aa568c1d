SPECIFICATION FairSpec
CONSTANTS
  Reader = {r1, r2}
  Stopper = {p1, p2, p3}
  Session = {s1}
  Instance = {i1, i2}
  None = None
  Faults = {"create", "start", "status", "register", "stop"}
  OwnerMayStop = TRUE
INVARIANTS TypeOK InstanceHasOneOwner IdleSessionIsWatched HandleNamesCountdown NoStrayCountdown
PROPERTIES FedUntilTold LostOnlyByRaising ImplementsSharedLink IdleSessionEnds RequestIsAnswered
