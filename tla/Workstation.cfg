SPECIFICATION Spec
CONSTANTS
  Recordings = {r1, r2}
  Imported = {r2}
  None = None
  MaxRevisions = 3
  MaxSelected = 1
  MaxEditors = 2
  Editors = {1, 2}
  MaxPosted = 2
  MaxIncidents = 1
INVARIANTS
  OneTrackPerRecording
PROPERTIES
  NoEditDropped
  CloseEnds
  TunnelEnds
CHECK_DEADLOCK FALSE
