SPECIFICATION Spec
SYMMETRY Symmetry
CONSTANTS
  a1 = a1
  l1 = l1
  l2 = l2
  n1 = n1
  n2 = n2
  Id = {a1}
  Library = {l1,l2}
  Name = {n1,n2}
  Revision = {r1,r2,r3}
  NoRevision = NoRevision
  Elsewhere <- Annotated
  MaxBatch = 2
  MaxUndo = 2
INVARIANTS
  CheckpointIsBase
  HistoryIsAcceptable
  CachesAreFresh
PROPERTIES
  KeepsContract
  UnsavedStateStaysInReach
  ImplementsTimeline
CONSTRAINT TwoRevisionsFirst
