SPECIFICATION Spec
CONSTANTS
  MaxGen = 2
  Foreign = {}
  Requirements = {{}}
  WaitsForReader = TRUE
INVARIANTS
  BaselineClean
