\* A client that stops reading while its task holds the read lock blocks every writer.
CONSTANTS
  Conn <- MCConn
  Id <- MCId
  c1 = c1  c2 = c2  a = a  b = b  NoId = NoId
  Stalled = {c1}
  TransportFails = FALSE
  LogCap = 2
  SnapCap = 1
  Capacity = 2
  MaxMsgs = 3
  MaxSessions = 3
CHECK_DEADLOCK FALSE
SPECIFICATION FairSpec
PROPERTY MessageCompletes
