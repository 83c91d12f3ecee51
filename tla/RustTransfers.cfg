SPECIFICATION Spec
CONSTANTS
  IntrEps = {}
  BulkEps = {3}
  Mps = 2
  Lens = {0, 1, 2}
  TxMax = 4
  Requests <- TransferRequests
  Stalls <- TransferStalls
  Closable = {}
  MaxSeq = 2
  MaxConn = 1
  MaxPackets = 3
INVARIANTS
  TypeOK
  InOrderDelivery
  RepliesFit
  ShortPacketFraming
  OutAllOrNothing
  ControlReplyFresh
