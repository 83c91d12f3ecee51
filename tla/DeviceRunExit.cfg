SPECIFICATION Spec
CONSTANTS
  Runs = {r1}
  Servers = {s1}
  Ops = {}
  KillAt = {}
  InterruptAt = {}
  Faults = {"artifact write"}
CHECK_DEADLOCK FALSE
INVARIANTS
  CallerCodeKept
