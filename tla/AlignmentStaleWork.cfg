SPECIFICATION Spec
CONSTANTS
  x = x  y = y  x1 = x1  x2 = x2  y1 = y1  audio1 = audio1  audio2 = audio2
  Recording = {x, y}
  Content = {x1, x2, y1}
  Profile = {p1}
  Run = {r1, r2}
  None = None
  Audio = {audio1, audio2}
  BatchSize = 1
  UploadWorkers = 1
  ContinueOnError = {TRUE, FALSE}
  MinimumRuns = 1
  Batch <- MCBatch
  AudioOf <- MCAudioOf
  Documents <- MCDocuments
SYMMETRY MCSymmetry
INVARIANT
  StaleWorkIsReclaimed
CHECK_DEADLOCK FALSE
