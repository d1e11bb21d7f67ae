SPECIFICATION Spec
CONSTANTS
  Request = {r1, r2}
  MaxUser = 2
  MaxToken = 2
  MaxAction = 1
  MaxPassword = 3
  MaxReset = 1
  AccountRole = {"operator", "admin"}
  Version = {{"rerun_check", "silence_route"}, {}}
  TokenRequired = TRUE
  None = None
INVARIANTS TypeOK AdminRemains SessionsFollowPassword TokenUsedOnce ClaimedOnceAndApproved ExecutingIsHeld
SYMMETRY RequestSymmetry
CHECK_DEADLOCK FALSE
