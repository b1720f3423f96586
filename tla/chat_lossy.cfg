\* Failing sends and broadcast lag: the log, the clients' views, the lifecycle, and progress of Message intents.
CONSTANTS
  Conn <- MCConn
  Id <- MCId
  c1 = c1  c2 = c2  a = a  b = b  NoId = NoId
  Stalled = {}
  TransportFails = TRUE
  LogCap = 2
  SnapCap = 1
  Capacity = 2
  MaxMsgs = 3
  MaxSessions = 3
CHECK_DEADLOCK FALSE
SPECIFICATION FairSpec
INVARIANT TypeOK
INVARIANT LogIsSuffix
PROPERTY ViewNeverRegresses
PROPERTY ImplementsLifecycle
PROPERTY MessageCompletes
