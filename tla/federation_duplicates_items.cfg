\* One honest player moving between two zones with the passports they mint.
CONSTANTS
  Client = a
  Conn = {c1}
  ZoneA = ZA  ZoneB = ZB
  Kind <- MCKind
  Sword = SwordV  Potion = PotionV
  a = a  c1 = c1  SwordV = SwordV  PotionV = PotionV  ZA = ZA  ZB = ZB
  SpawnA <- MCSpawnA
  SpawnB <- MCSpawnB
  AllowWeaponsA = TRUE
  AllowWeaponsB = TRUE
  PassportSpace <- MCPassportSpace
  Garbage = Garbage  NoPassport = NoPassport  NoId = NoId  NoPeer = NoPeer
  MaxSessions = 2
CHECK_DEADLOCK FALSE
SPECIFICATION Spec
INVARIANT NoItemDuplication
