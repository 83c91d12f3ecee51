SPECIFICATION Spec
CONSTANTS
  Runs = {r1, r2}
  Servers = {s1, s2}
  Ops = {"start", "stop", "touch"}
  KillAt = {"write", "attach"}
  InterruptAt = {"record", "test", "detach"}
  Faults = {"start twice", "state write", "background helper", "stop fails", "artifact write", "harness killed"}
SYMMETRY Symmetry
CHECK_DEADLOCK FALSE
INVARIANTS
  ExitCodeTrue
PROPERTIES
  StopsOwn
