--------------------------- MODULE MCGameFederation -------------------------
EXTENDS GameFederation, TLC

CONSTANTS a, c1, SwordV, PotionV, ZA, ZB

MCKind == {SwordV, PotionV}

\* Zone A spawns the Sword, zone B the Potion.
MCSpawnA == <<SwordV>>
MCSpawnB == <<PotionV>>

\* Every passport the two zones can mint for the player: health and
\* max_health stay at 100 (Player::new, capped potions), and an inventory
\* holds at most the items of both worlds and one duplicate more.
MCPassportSpace ==
  [identity : {a}, health : {100}, max_health : {100},
   inventory : BoundedSeq(MCKind, 3)]
=============================================================================
