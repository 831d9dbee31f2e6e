SPECIFICATION Spec
CONSTANTS
  Recording = {rec1}
  NoRecording = NoRecording
  Operation = {o1, o2, o3}
  NoOperation = NoOperation
  Client = {c1, c2}
  MayHappen = {"unavailable", "crash", "storage"}
SYMMETRY Symmetry
INVARIANTS
  AcknowledgedSaveSurvives
PROPERTIES
  KeepsContract
  RecordsAreRetained
