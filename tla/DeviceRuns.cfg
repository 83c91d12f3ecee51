SPECIFICATION FairSpec
CONSTANTS
  Runs = {r1, r2}
  Servers = {s1, s2, s3}
  Ops = {"start", "stop", "restart", "attach", "detach", "touch"}
  KillAt = {"detach", "stop", "spawn", "list", "query", "attach", "ready", "fail"}
  InterruptAt = {"prepare", "spawn", "list", "query", "attach", "note", "ready"}
  Faults = {}
CHECK_DEADLOCK FALSE
INVARIANTS
  TypeOK
  CleanExit
  FileNamesServer
  OwnDevice
  ResultFaithful
PROPERTIES
  RunEnds
  ManagedDeviceSpec
