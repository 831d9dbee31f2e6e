SPECIFICATION Spec
CONSTANTS
  None = None
  Alignment <- MCAlignment
  Editor = {e1, e2}
  State = {"accepted", "proposed"}
  MaxRevisions = 2
  Skew = 1
SYMMETRY MCSymmetry
INVARIANTS
  HistoryReplays
  SiblingsAreDisjoint
  NoBlindEdit
CHECK_DEADLOCK FALSE
