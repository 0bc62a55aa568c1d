SPECIFICATION FairSpec
CONSTANTS
  Reader = {r1, r2}
  Capacity = 2
  MaxFrames = 5
  MaxSounds = 1
  MaxJoins = 2
INVARIANTS DecoderHasParameters LateAudioIsCured
PROPERTIES NoTornGroup ClosedReaderLeaves
CHECK_DEADLOCK FALSE
