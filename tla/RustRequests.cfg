SPECIFICATION FairSpec
CONSTANTS
  IntrEps = {1, 2}
  BulkEps = {3}
  Mps = 1
  Lens = {1}
  TxMax = 2
  Requests <- InterruptRequests
  Stalls <- InterruptStalls
  Closable = {1}
  MaxSeq = 2
  MaxConn = 2
  MaxPackets = 1
INVARIANTS
  SessionOwnership
  AnswerComesFirst
PROPERTIES
  UrbServiceSpec
  TransferEnds
  ParkedAnswered
