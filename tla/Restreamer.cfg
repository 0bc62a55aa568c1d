SPECIFICATION FairSpec

CONSTANTS
  Caller = {c1, c2}
  Name = {"main", "sub"}
  Src = {"old", "new"}
  Tables <- Shrinking
  Earlier <- Before
  RestartDelay = 1
  Attempts = 1
  MaxProcesses = 3
  MaxApplies = 2
  Refusals = TRUE
  MayStop = TRUE

INVARIANTS OneGo2rtc FileIsServed
PROPERTIES Converges StopEndsIt

CHECK_DEADLOCK FALSE
