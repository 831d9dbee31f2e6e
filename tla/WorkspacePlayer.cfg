SPECIFICATION Spec
CONSTANTS
  t1 = t1
  t2 = t2
  None = None
  Track = {t1, t2}
  Length <- Lengths
  MaxOffset = 1
  Block = 2
  BufferSize = 3
  MaxGestures = 5
INVARIANTS
  QueueIsCurrent
  OneSelection
PROPERTIES
  ResumesInPlace
  PlaybackEnds
CHECK_DEADLOCK FALSE
