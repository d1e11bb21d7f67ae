SPECIFICATION Spec
CONSTANTS
  Collectors = {k1, k2}
  MaxInvitation = 2
  MaxCredential = 4
  None = None
SYMMETRY Symmetry
CONSTRAINT SomeUnmixed
INVARIANTS HandoffRecoverable PeersAgree
CHECK_DEADLOCK FALSE
