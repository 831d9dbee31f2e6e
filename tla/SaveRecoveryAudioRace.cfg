SPECIFICATION Spec
CONSTANTS
  Recording = {rec1}
  NoRecording = NoRecording
  Operation = {o1, o2}
  NoOperation = NoOperation
  Client = {c1, c2}
  MayHappen = {}
SYMMETRY Symmetry
INVARIANTS
  StoredHasAudio
