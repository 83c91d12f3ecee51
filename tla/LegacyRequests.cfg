SPECIFICATION Spec
CONSTANTS
  IntrEps = {1}
  BulkEps = {2}
  Requests <- AllRequests
  Burst = 2
  MaxSeq = 3
  MaxConn = 2
  MaxPackets = 2
INVARIANTS
  TypeOK
  InOrderDelivery
PROPERTIES
  UrbServiceSpec
