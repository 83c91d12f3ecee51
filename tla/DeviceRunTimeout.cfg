SPECIFICATION Spec
CONSTANTS
  Runs = {r1}
  Servers = {s1, s2}
  Ops = {"restart"}
  KillAt = {"write"}
  InterruptAt = {}
  Faults = {}
CHECK_DEADLOCK FALSE
INVARIANTS
  CleanExit
