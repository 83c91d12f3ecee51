SPECIFICATION Spec
CONSTANTS
  Half = 4
  Timeouts = {0, 2, 4}
  MaxGap = 3
  MaxNow = 20
  MaxSignals = 3
INVARIANTS
  TypeOK
  TimerExact
  TimerKept
  TouchKept
