SPECIFICATION Spec
CONSTANTS
  MaxImage = 2
  MaxTime = 2
  MaxFaults = 2
  Retain = 2
  Output = {1, 5}
  Configured = {p1}
  Given = {None}
  None = None
INVARIANTS BackupsComplete SuccessIsRestorable SpoiledByRestoreOnly
CHECK_DEADLOCK FALSE
