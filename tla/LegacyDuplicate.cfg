SPECIFICATION Spec
CONSTANTS
  IntrEps = {1}
  BulkEps = {}
  Requests <- InterruptRequests
  Burst = 2
  MaxSeq = 3
  MaxConn = 1
  MaxPackets = 2
INVARIANTS
  AnsweredOnce
