SPECIFICATION Spec
CONSTANTS
  Commands = {c1, c2, c3}
  NoFile = NoFile
  Unreadable = Unreadable
  MaxChanges = 3
  MaxDeaths = 1
  Launches = {l1, l2, l3}
  Regions = {r1, r2}
  Foreign = {f1}
  Screen = Screen
  NoRect = NoRect
  MaxHide = 2
  MaxShown = 1
  MaxDrift = 1
  Fixers = {gui, console}
  PortNumbers = {3389, 65535, Absent}
  Absent = Absent
  MaxFailures = 2
INVARIANTS
  AckedIsDurable
  MemoryIsSaved
  TasksAccounted
  HostsInSta
  CursorBalanced
  FreeWhenReleased
  ReportedIsEffective
  DownIsReported
PROPERTIES
  StaysDown
CHECK_DEADLOCK FALSE
