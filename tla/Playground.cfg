SPECIFICATION Spec
CONSTANTS
  TrackId = {t1, t2}
  None = None
  View = {"waveform"}
  Block = 2
  MaxLag = 1
  FileFrames = 2
  MaxTake = 1
  MaxFrames = 3
  MaxGestures = 5
  MaxTasks = 2
  HalfWindow = 1
SYMMETRY Symmetry
INVARIANTS
  InBounds
  ViewsShowAudio
CHECK_DEADLOCK FALSE
