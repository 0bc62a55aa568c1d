SPECIFICATION FairSpec
CONSTANTS
  Viewer = {v1, v2}
  Snapshots = {TRUE, FALSE}
  Idle = 1
  FirstFrame = 2
  MaxAge = 1
  MaxSources = 2
  MaxPictures = 1
  MayStop = TRUE
INVARIANTS NoOrphan StoppedIsToldAtOnce
PROPERTIES PicturesMoveOn ViewerIsAnswered UnwatchedDecodersEnd
CHECK_DEADLOCK FALSE
