----------------------------- MODULE MCGameZone -----------------------------
(* Model-checking instance of GameZone: two connection slots, two         *)
(* identities, a Potion and a Sword, one configured peer.                  *)
EXTENDS GameZone

CONSTANTS c1, c2, a, b, SwordV, PotionV, PeerZone, OtherZone

MCConn == {c1, c2}
MCId == {a, b}
MCKind == {SwordV, PotionV}
\* World::new spawns a Potion and then a Sword (world.rs 98-99); the items
\* spawned after them are neither weapons nor potions and are left out.
MCSpawn == <<PotionV, SwordV>>
MCDest == {PeerZone, OtherZone}

\* Passports an origin zone mints: max_health 100 (Player::new), health
\* outside 1..100 to exercise the clamp (spec 8: 0 -> 1, 500 -> 100).
HonestPassports ==
  [identity : MCId, health : {0, 500}, max_health : {100},
   inventory : {<<PotionV>>}]

\* Passports of one health value, where health plays no part in what a
\* run checks.
ReliablePassports ==
  [identity : MCId, health : {500}, max_health : {100},
   inventory : {<<PotionV>>}]

Symmetry == Permutations(MCConn) \cup Permutations(MCId)
=============================================================================
