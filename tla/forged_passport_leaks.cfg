\* Reliable transport; a client may present a passport minted for another identity.
CONSTANTS
  Conn <- MCConn
  Id <- MCId
  Kind <- MCKind
  Sword <- SwordV
  Potion <- PotionV
  Spawn <- MCSpawn
  Dest <- MCDest
  Passports <- HonestPassports
  Peer = PeerZone
  c1 = c1  c2 = c2  a = a  b = b
  SwordV = SwordV  PotionV = PotionV  PeerZone = PeerZone  OtherZone = OtherZone
  NoPeer = NoPeer  Garbage = Garbage  NoPassport = NoPassport  NoId = NoId
  AllowWeapons = FALSE
  ForgedPassports = TRUE
  TransportFails = FALSE
  Capacity = 1
  MaxTick = 0
  MaxSessions = 3
SYMMETRY Symmetry
CHECK_DEADLOCK FALSE
SPECIFICATION Spec
INVARIANT NoLeakedPlayers
