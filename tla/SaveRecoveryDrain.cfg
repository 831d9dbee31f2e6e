SPECIFICATION FairSpec
CONSTANTS
  Recording = {rec1, rec2}
  NoRecording = NoRecording
  Operation = {o1, o2, o3}
  NoOperation = NoOperation
  Client = {c1}
  MayHappen = {"unavailable", "remote", "crash"}
PROPERTIES
  PendingDrains
