SPECIFICATION Spec
CONSTANTS
  Recording = {rec1, rec2}
  NoRecording = NoRecording
  Operation = {o1, o2, o3, o4}
  NoOperation = NoOperation
  Client = {c1}
  MayHappen = {"unavailable", "refuse", "crash", "archive", "remote"}
SYMMETRY Symmetry
INVARIANTS
  RefusalIsGenuine
  ChainStopsAtConflict
  NoDependencyCycle
  StoredHasAudio
