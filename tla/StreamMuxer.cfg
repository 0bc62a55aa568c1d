SPECIFICATION Spec
CONSTANTS
  Timestamp <- Timestamps
  Sentinel = 14
  Discontinuity = 3
  MaxStamp = 12
  Track = {"video", "audio"}
  Horizon = 10
INVARIANTS TypeOK PresentIsReached
PROPERTIES TracksAdvance NoLeap
