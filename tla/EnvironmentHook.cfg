SPECIFICATION FixSpec
CONSTANTS
  Fixers = {gui}
  PortNumbers = {3389}
  Absent = Absent
  MaxFailures = 1
INVARIANT
  HookDisabled
CHECK_DEADLOCK FALSE
