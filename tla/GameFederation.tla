---------------------------- MODULE GameFederation ---------------------------
(***************************************************************************)
(* Two game zones configured as each other's --peer, and one player moving *)
(* between them with the passports they mint (src/examples/game).  Each    *)
(* zone is an instance of GameZone with its own World and connection      *)
(* tasks; the zones never talk to each other, and a passport travels only  *)
(* in the client's hands: the Transfer message puts it in the client's     *)
(* wallet, and an Auth at the other zone presents one from the wallet.     *)
(* The client is honest: it presents only passports minted for it, no     *)
(* passport, or bytes that do not decode.  Sends succeed and the tick task *)
(* is idle, so that every step is a move of the player.                    *)
(***************************************************************************)
EXTENDS Integers, Sequences, SequencesExt, FiniteSets

CONSTANTS
  Client,          \* the identity of the travelling player
  Conn,            \* connection slots of each zone's accept loop
  ZoneA, ZoneB,    \* the zone names, each the other's --peer
  Kind, Sword, Potion,
  SpawnA, SpawnB,  \* World::new spawn of each zone
  AllowWeaponsA, AllowWeaponsB,
  PassportSpace,   \* the GamePassports that decode (GamePassport::from_bytes)
  Garbage, NoPassport, NoId, NoPeer,
  MaxSessions      \* connections each zone accepts

VARIABLES
  pcA, identA, rxA, transferredAsA, playersA, itemsA, tickA, sessionsA, createdA, destroyedA,
  pcB, identB, rxB, transferredAsB, playersB, itemsB, tickB, sessionsB, createdB, destroyedB,
  wallet           \* passports the client has received in Transfer messages

varsA == <<pcA, identA, rxA, transferredAsA, playersA, itemsA, tickA, sessionsA, createdA, destroyedA>>
varsB == <<pcB, identB, rxB, transferredAsB, playersB, itemsB, tickB, sessionsB, createdB, destroyedB>>
vars == <<varsA, varsB, wallet>>

A == INSTANCE GameZone WITH
       pc <- pcA, ident <- identA, rx <- rxA, transferredAs <- transferredAsA,
       players <- playersA, items <- itemsA, tick <- tickA, sessions <- sessionsA,
       created <- createdA, destroyed <- destroyedA,
       Id <- {Client}, Spawn <- SpawnA, AllowWeapons <- AllowWeaponsA,
       Peer <- ZoneB, Dest <- {ZoneB}, Passports <- PassportSpace,
       ForgedPassports <- FALSE, TransportFails <- FALSE,
       Capacity <- 1, MaxTick <- 0

B == INSTANCE GameZone WITH
       pc <- pcB, ident <- identB, rx <- rxB, transferredAs <- transferredAsB,
       players <- playersB, items <- itemsB, tick <- tickB, sessions <- sessionsB,
       created <- createdB, destroyed <- destroyedB,
       Id <- {Client}, Spawn <- SpawnB, AllowWeapons <- AllowWeaponsB,
       Peer <- ZoneA, Dest <- {ZoneA}, Passports <- PassportSpace,
       ForgedPassports <- FALSE, TransportFails <- FALSE,
       Capacity <- 1, MaxTick <- 0

-----------------------------------------------------------------------------
Init == A!Init /\ B!Init /\ wallet = {}

\* What the client may put in the passport field of an Auth.
Presentable == wallet \cup {NoPassport, Garbage}

\* A step of a zone that involves no passport: the accept loop, an Auth
\* that fails, Welcome, an intent, disconnect and remove_player.
LocalA(c) ==
  \/ A!Accept(c) \/ A!AuthAborted(c) \/ A!Welcome(c) \/ A!Disconnect(c)
  \/ A!RemovePlayer(c) \/ A!PickUp(c) \/ A!UseItem(c) \/ A!Drop(c)
LocalB(c) ==
  \/ B!Accept(c) \/ B!AuthAborted(c) \/ B!Welcome(c) \/ B!Disconnect(c)
  \/ B!RemovePlayer(c) \/ B!PickUp(c) \/ B!UseItem(c) \/ B!Drop(c)

\* The client authenticates at a zone with a passport from its wallet.
ArriveA(c) == \E pp \in Presentable : A!AuthWith(c, Client, pp)
ArriveB(c) == \E pp \in Presentable : B!AuthWith(c, Client, pp)

\* Transfer to the peer: the zone sends the passport minted from the
\* session's player (Player::to_passport), and the client keeps it.
DepartA(c) ==
  /\ A!Transfer(c)
  /\ wallet' = wallet \cup {A!ToPassport(playersA[identA[c]])}
DepartB(c) ==
  /\ B!Transfer(c)
  /\ wallet' = wallet \cup {B!ToPassport(playersB[identB[c]])}

Next ==
  \E c \in Conn :
    \/ (LocalA(c) \/ ArriveA(c)) /\ UNCHANGED <<varsB, wallet>>
    \/ DepartA(c) /\ UNCHANGED varsB
    \/ (LocalB(c) \/ ArriveB(c)) /\ UNCHANGED <<varsA, wallet>>
    \/ DepartB(c) /\ UNCHANGED varsA

Spec == Init /\ [][Next]_vars

-----------------------------------------------------------------------------
(* Properties.                                                             *)

\* Items of kind k a zone holds with authority: in its world, and in the
\* inventories of players whose session has not handed them off by a
\* Transfer (a Ghost session's player leaves at close, spec 4.4).
Owned(zpc, zplayers, zitems, zident, ztransferred, k) ==
  LET ghosts == {zident[d] : d \in {e \in Conn : zpc[e] \in {"welcome", "live", "cleanup"}
                                                 /\ ztransferred[e] # {}}}
  IN Len(SelectSeq(zitems, LAMBDA it : it.kind = k))
     + SumFunction([i \in DOMAIN zplayers \ ghosts |->
                      A!CountIn(zplayers[i].inventory, k)])

\* No item exists twice in the federation: the items of each kind the two
\* zones hold with authority never exceed those the two worlds spawned.
\* A passport is created once at the origin, which then applies no intent
\* of the session, and consumed once at the destination (spec 3, Passport;
\* spec 4.4, Ghost).
NoItemDuplication ==
  \A k \in Kind :
    Owned(pcA, playersA, itemsA, identA, transferredAsA, k)
      + Owned(pcB, playersB, itemsB, identB, transferredAsB, k)
    <= A!CountIn(SpawnA, k) + A!CountIn(SpawnB, k)
=============================================================================
