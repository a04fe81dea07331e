SPECIFICATION Spec
CONSTANTS
  Hosts = {host}
  Interval = 2
  Timeout = 1
  Pause = 1
  Window = 6
  MaxOpen = 3
  MaxFaults = 3
INVARIANTS
  TypeOK
  CalmHostIsActive
  SilentHostExpires
  SecondRowNeedsTimeout
PROPERTIES
  WorkersComeBack
