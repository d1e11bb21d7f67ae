SPECIFICATION Spec
CONSTANTS
  Version = {v1, v2, bad}
  Good = {v1, v2}
  UnitFile = {u1, u2}
  Crashes = TRUE
  MaxFault = 3
  MaxCommand = 3
  None = None
INVARIANTS InstallRestores UpdateKeepsServing RunsWhatIsInstalled VersionKept
CHECK_DEADLOCK FALSE
