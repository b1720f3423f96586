------------------------------ MODULE GameZone ------------------------------
(***************************************************************************)
(* One zone of the federated game example (src/examples/game): the shared  *)
(* World behind its RwLock, the tick task, and one handle_connection task  *)
(* per accepted WebSocket.  Each task is a program counter whose values    *)
(* are the await points of handle_connection:                              *)
(*   "auth"    waiting for the Auth message                 (server.rs 101)*)
(*   "welcome" player added, Welcome not yet sent           (server.rs 162)*)
(*   "live"    the select! main loop                        (server.rs 176)*)
(*   "cleanup" loop left by break, remove_player pending    (server.rs 208)*)
(*   "done"    task returned (Ok, or Err through a `?`)                    *)
(* Every critical section runs under the world lock and is one action.     *)
(* Player positions are abstracted away: PickUp assumes the distance test  *)
(* passed (a failing test leaves the state unchanged) and Move, which only *)
(* changes coordinates, is not an action.                                  *)
(***************************************************************************)
EXTENDS Integers, Sequences, SequencesExt, FiniteSets, TLC

CONSTANTS
  Conn,           \* connection slots of the accept loop
  Id,             \* identities clients authenticate as
  Kind,           \* ItemKind values in play
  Sword, Potion,  \* the weapon (ItemKind::is_weapon) and the healing item
  Spawn,          \* kinds spawned by World::new, in order
  AllowWeapons,   \* World.allow_weapons (false in "cave" zones)
  Peer,           \* the --peer destination, or NoPeer
  NoPeer,
  Dest,           \* destinations a client may name in a Transfer intent
  Passports,      \* decodable GamePassports a client may present
  Garbage,        \* passport bytes that GamePassport::from_bytes rejects
  NoPassport,     \* Auth without a passport
  NoId,
  ForgedPassports,\* may a client present a passport of another identity?
  TransportFails, \* may a sink.send fail (client gone, broken pipe)?
  Capacity,       \* broadcast::channel capacity of the tick snapshots
  MaxTick,        \* bound on World.tick
  MaxSessions     \* bound on connections accepted, the initial ones included

ASSUME Sword \in Kind /\ Potion \in Kind
ASSUME Spawn \in Seq(Kind)
ASSUME AllowWeapons \in BOOLEAN /\ ForgedPassports \in BOOLEAN /\ TransportFails \in BOOLEAN
ASSUME Capacity \in Nat \ {0} /\ MaxTick \in Nat /\ MaxSessions \in Nat

VARIABLES
  pc,        \* [Conn -> phase of handle_connection]
  ident,     \* [Conn -> identity of the session, from its Auth]
  rx,        \* [Conn -> next tick the broadcast receiver will yield]
  transferredAs, \* [Conn -> identities of the passports sent in Transfers on it]
  players,   \* World.players: identity -> player record
  items,     \* World.items: sequence of [id, kind]
  tick,      \* World.tick
  sessions,  \* connections accepted so far (bounded by MaxSessions)
  created,   \* history: items that entered the zone, per kind
  destroyed  \* history: items that left it, per kind

vars == <<pc, ident, rx, transferredAs, players, items, tick, sessions, created, destroyed>>

Phase == {"auth", "welcome", "live", "cleanup", "done"}
MaxHealth == 100
Player == [identity : Id, health : Nat, max_health : Nat, inventory : Seq(Kind)]
\* protocol::WorldItem, without its coordinates.
WorldItem == [id : Nat, kind : Kind]

-----------------------------------------------------------------------------
(* Helpers translated from world.rs and protocol.rs.                       *)

\* ItemKind::is_weapon
IsWeapon(k) == k = Sword

\* Number of items of kind k in a sequence of kinds.
CountIn(s, k) == Len(SelectSeq(s, LAMBDA x : x = k))

Clamp(v, lo, hi) == IF v < lo THEN lo ELSE IF v > hi THEN hi ELSE v

\* World::apply_import_policy: keep the items the zone admits, clamp health.
ApplyImportPolicy(pp) ==
  [accepted_items |-> SelectSeq(pp.inventory,
                                LAMBDA k : AllowWeapons \/ ~IsWeapon(k)),
   rejected_items |-> SelectSeq(pp.inventory,
                                LAMBDA k : ~AllowWeapons /\ IsWeapon(k)),
   health         |-> Clamp(pp.health, 1, 100)]

\* Player::new
NewPlayer(id) ==
  [identity |-> id, health |-> MaxHealth, max_health |-> MaxHealth,
   inventory |-> <<>>]

\* Player::from_passport: the player keeps the passport's identity and
\* max_health, and takes health and items from the import result.
FromPassport(pp, import) ==
  [identity |-> pp.identity, health |-> import.health, max_health |-> pp.max_health,
   inventory |-> import.accepted_items]

\* Player::to_passport
ToPassport(p) ==
  [identity |-> p.identity, health |-> p.health, max_health |-> p.max_health,
   inventory |-> p.inventory]

\* World::add_player: HashMap::insert keyed by the player's own identity.
AddPlayer(ps, p) == (p.identity :> p) @@ ps

\* World::remove_player
RemovePlayerFrom(ps, id) == [i \in DOMAIN ps \ {id} |-> ps[i]]

\* Items spawned by World::new, with ids from next_item_id = 1.
SpawnedItems == [i \in 1..Len(Spawn) |-> [id |-> i, kind |-> Spawn[i]]]

\* World::tick
WorldTick(t) == t + 1

\* GamePassport::from_bytes accepts exactly the well-formed passports.
Decodes(pp) == pp \in Passports

\* A sink.send that fails returns Err through `?`: the task ends at once and
\* skips the remove_player after the main loop.
SendFails(c) ==
  /\ TransportFails
  /\ pc' = [pc EXCEPT ![c] = "done"]

-----------------------------------------------------------------------------
Init ==
  /\ pc = [c \in Conn |-> "auth"]
  /\ ident = [c \in Conn |-> NoId]
  /\ rx = [c \in Conn |-> 0]
  /\ transferredAs = [c \in Conn |-> {}]
  /\ players = <<>>
  /\ items = SpawnedItems
  /\ tick = 0
  /\ sessions = Cardinality(Conn)
  /\ created = [k \in Kind |-> CountIn(Spawn, k)]
  /\ destroyed = [k \in Kind |-> 0]

\* The accept loop hands a new connection to a finished slot (server.rs 73-85).
Accept(c) ==
  /\ pc[c] = "done"
  /\ sessions < MaxSessions
  /\ sessions' = sessions + 1
  /\ pc' = [pc EXCEPT ![c] = "auth"]
  /\ ident' = [ident EXCEPT ![c] = NoId]
  /\ transferredAs' = [transferredAs EXCEPT ![c] = {}]
  /\ UNCHANGED <<rx, players, items, tick, created, destroyed>>

\* Passports the client of identity id may present with its Auth.
Offered(id) ==
  {NoPassport, Garbage} \cup
  {pp \in Passports : ForgedPassports \/ pp.identity = id}

\* The Auth branch of the wait-for-auth loop (server.rs 113-158): under the
\* write lock build the player, from the passport pp if it decodes, send the
\* ImportReport for a decoded passport, add the player, leave the loop.
AuthWith(c, id, pp) ==
  /\ pc[c] = "auth"
  /\ LET decoded == Decodes(pp)
         import  == ApplyImportPolicy(pp)
         player  == IF decoded THEN FromPassport(pp, import) ELSE NewPlayer(id)
         lost    == IF player.identity \in DOMAIN players
                      THEN players[player.identity].inventory ELSE <<>>
     IN \/ /\ decoded
           /\ SendFails(c)
           /\ UNCHANGED <<ident, players, created, destroyed>>
        \/ /\ pc' = [pc EXCEPT ![c] = "welcome"]
           /\ ident' = [ident EXCEPT ![c] = id]
           /\ players' = AddPlayer(players, player)
           /\ created' = [k \in Kind |-> created[k] + CountIn(player.inventory, k)]
           /\ destroyed' = [k \in Kind |-> destroyed[k] + CountIn(lost, k)]
  /\ UNCHANGED <<rx, transferredAs, items, tick, sessions>>

\* The wait-for-auth loop (server.rs 100-112) receives an Auth of some
\* identity, with a passport its client may present.
Auth(c) == \E id \in Id : \E pp \in Offered(id) : AuthWith(c, id, pp)

\* The stream ends, errs, or carries an unparsable frame before any Auth:
\* the task returns Err having registered nothing (server.rs 102-107).
AuthAborted(c) ==
  /\ pc[c] = "auth"
  /\ pc' = [pc EXCEPT ![c] = "done"]
  /\ UNCHANGED <<ident, rx, transferredAs, players, items, tick, sessions, created, destroyed>>

\* Mutant of Welcome: the receiver cursor starts one snapshot late.
WelcomeSkip(c) ==
  /\ pc[c] = "welcome"
  /\ \/ /\ pc' = [pc EXCEPT ![c] = "live"]
        /\ rx' = [rx EXCEPT ![c] = tick + 2]
     \/ /\ SendFails(c)
        /\ UNCHANGED rx
  /\ UNCHANGED <<ident, transferredAs, players, items, tick, sessions, created, destroyed>>

\* Send Welcome, then subscribe to the tick broadcast (server.rs 162-173).
Welcome(c) ==
  /\ pc[c] = "welcome"
  /\ \/ /\ pc' = [pc EXCEPT ![c] = "live"]
        /\ rx' = [rx EXCEPT ![c] = tick + 1]
     \/ /\ SendFails(c)
        /\ UNCHANGED rx
  /\ UNCHANGED <<ident, transferredAs, players, items, tick, sessions, created, destroyed>>

\* The tick task (server.rs 56-65): under the write lock World::tick, then
\* broadcast the snapshot of that tick.
TickLoop ==
  /\ tick < MaxTick
  /\ tick' = WorldTick(tick)
  /\ UNCHANGED <<pc, ident, rx, transferredAs, players, items, sessions, created, destroyed>>

\* The broadcast branch of select! (server.rs 198-203).  A receiver more
\* than Capacity behind gets Err(Lagged), ignored by `if let Ok`, and then
\* resumes at the oldest retained snapshot; otherwise the snapshot is sent.
RecvSnapshot(c) ==
  /\ pc[c] = "live"
  /\ rx[c] <= tick
  /\ \/ /\ rx[c] <= tick - Capacity
        /\ rx' = [rx EXCEPT ![c] = tick - Capacity + 1]
        /\ UNCHANGED pc
     \/ /\ rx[c] > tick - Capacity
        /\ rx' = [rx EXCEPT ![c] = rx[c] + 1]
        /\ UNCHANGED pc
     \/ /\ rx[c] > tick - Capacity
        /\ SendFails(c)
        /\ UNCHANGED rx
  /\ UNCHANGED <<ident, transferredAs, players, items, tick, sessions, created, destroyed>>

\* The client stream yields None or an error: break (server.rs 180-183).
Disconnect(c) ==
  /\ pc[c] = "live"
  /\ pc' = [pc EXCEPT ![c] = "cleanup"]
  /\ UNCHANGED <<ident, rx, transferredAs, players, items, tick, sessions, created, destroyed>>

\* After the loop: remove the session's player (server.rs 208-214).
RemovePlayer(c) ==
  /\ pc[c] = "cleanup"
  /\ pc' = [pc EXCEPT ![c] = "done"]
  /\ players' = RemovePlayerFrom(players, ident[c])
  /\ destroyed' = [k \in Kind |-> destroyed[k] +
                     IF ident[c] \in DOMAIN players
                       THEN CountIn(players[ident[c]].inventory, k) ELSE 0]
  /\ UNCHANGED <<ident, rx, transferredAs, items, tick, sessions, created>>
-----------------------------------------------------------------------------
(* handle_intent (server.rs 217-312), each arm under the world lock.       *)

\* The session's player, if World.players has one for its identity.
HasPlayer(c) == ident[c] \in DOMAIN players

\* Mutant of PickUp: the item is copied into the inventory and stays in
\* the world.
PickUpCopy(c) ==
  /\ pc[c] = "live"
  /\ HasPlayer(c)
  /\ \E idx \in DOMAIN items :
       /\ players' = [players EXCEPT ![ident[c]].inventory =
                                       Append(@, items[idx].kind)]
       /\ created' = created
  /\ UNCHANGED <<pc, ident, rx, transferredAs, items, tick, sessions, destroyed>>

\* PickUp: World.items.iter().position finds the first item of that id; it
\* moves from the world into the inventory (server.rs 235-255).
PickUp(c) ==
  /\ pc[c] = "live"
  /\ HasPlayer(c)
  /\ \E itemId \in {items[i].id : i \in DOMAIN items} :
       LET idx == CHOOSE i \in DOMAIN items :
                    /\ items[i].id = itemId
                    /\ \A j \in 1..(i - 1) : items[j].id # itemId
           p   == players[ident[c]]
       IN /\ items' = RemoveAt(items, idx)
          /\ players' = [players EXCEPT ![ident[c]].inventory =
                                          Append(p.inventory, items[idx].kind)]
  /\ UNCHANGED <<pc, ident, rx, transferredAs, tick, sessions, created, destroyed>>

\* UseItem: a Potion in the slot heals 25, capped at max_health, and is
\* consumed (server.rs 257-267).
UseItem(c) ==
  /\ pc[c] = "live"
  /\ HasPlayer(c)
  /\ \E slot \in DOMAIN players[ident[c]].inventory :
       LET p == players[ident[c]]
       IN /\ p.inventory[slot] = Potion
          /\ players' = [players EXCEPT ![ident[c]] =
                           [p EXCEPT !.health = IF p.health + 25 < p.max_health
                                                  THEN p.health + 25
                                                  ELSE p.max_health,
                                     !.inventory = RemoveAt(p.inventory, slot)]]
  /\ destroyed' = [destroyed EXCEPT ![Potion] = @ + 1]
  /\ UNCHANGED <<pc, ident, rx, transferredAs, items, tick, sessions, created>>

\* Drop: the item leaves the inventory and is pushed into the world with
\* id = World.tick (server.rs 269-285).
Drop(c) ==
  /\ pc[c] = "live"
  /\ HasPlayer(c)
  /\ \E slot \in DOMAIN players[ident[c]].inventory :
       LET p == players[ident[c]]
       IN /\ players' = [players EXCEPT ![ident[c]].inventory =
                                          RemoveAt(p.inventory, slot)]
          /\ items' = Append(items, [id |-> tick, kind |-> p.inventory[slot]])
  /\ UNCHANGED <<pc, ident, rx, transferredAs, tick, sessions, created, destroyed>>

\* Transfer (server.rs 287-308).  An unknown destination gets an Error
\* message, which changes no state unless its send fails; the peer gets a
\* Transfer with a passport minted from the player, if the session has one.
\* The session stays in the main loop either way.
Transfer(c) ==
  /\ pc[c] = "live"
  /\ \E dest \in Dest :
       \/ /\ dest # Peer
          /\ SendFails(c)
          /\ UNCHANGED transferredAs
       \/ /\ dest = Peer
          /\ HasPlayer(c)
          /\ \/ /\ transferredAs' = [transferredAs EXCEPT ![c] =
                                       @ \cup {ToPassport(players[ident[c]]).identity}]
                /\ UNCHANGED pc
             \/ /\ SendFails(c)
                /\ UNCHANGED transferredAs
  /\ UNCHANGED <<ident, rx, players, items, tick, sessions, created, destroyed>>

\* handle_intent (server.rs 217-234): one arm per GameIntent.  Move changes
\* only coordinates, which the model drops, so it is a stuttering step.
HandleIntent(c) == PickUp(c) \/ UseItem(c) \/ Drop(c) \/ Transfer(c)

-----------------------------------------------------------------------------
Next ==
  \/ TickLoop
  \/ \E c \in Conn :
       \/ Accept(c) \/ Auth(c) \/ AuthAborted(c) \/ Welcome(c)
       \/ RecvSnapshot(c) \/ Disconnect(c) \/ RemovePlayer(c)
       \/ HandleIntent(c)

Spec == Init /\ [][Next]_vars
-----------------------------------------------------------------------------
(* Properties.                                                             *)

TypeOK ==
  /\ pc \in [Conn -> Phase]
  /\ ident \in [Conn -> Id \cup {NoId}]
  /\ rx \in [Conn -> 0..(MaxTick + 1)]
  /\ transferredAs \in [Conn -> SUBSET Id]
  /\ DOMAIN players \subseteq Id
  /\ \A i \in DOMAIN players : players[i] \in Player
  /\ items \in Seq(WorldItem)
  /\ tick \in 0..MaxTick
  /\ sessions \in 0..MaxSessions
  /\ created \in [Kind -> Nat] /\ destroyed \in [Kind -> Nat]

\* Sessions that have added a player and not yet run remove_player.
Registered(c) == pc[c] \in {"welcome", "live", "cleanup"}

\* Every player in World.players belongs to a session still registered
\* under that identity: handle_connection reclaims the player of every
\* session it ends (spec 4.4: resources are released no later than on
\* transport close).
NoLeakedPlayers ==
  \A i \in DOMAIN players : \E c \in Conn : Registered(c) /\ ident[c] = i

\* Every session past Auth and not yet torn down finds its own player, so
\* its intents act on it: one session's end never takes the player of
\* another (spec 4.4, re-authentication of the same identity; spec 7).
SessionHasPlayer ==
  \A c \in Conn : pc[c] \in {"welcome", "live"} => HasPlayer(c)

\* Every player's health stays within 1..max_health, through imports that
\* clamp passport health and potions capped at max_health.
HealthWithinMax ==
  \A i \in DOMAIN players :
    1 <= players[i].health /\ players[i].health <= players[i].max_health

\* Items of each kind in the world and in inventories, plus those that
\* left the zone (potions used, inventories of removed or replaced players),
\* equal those spawned or imported: PickUp, Drop and UseItem move items
\* without copying or losing them.
HeldCount(k) == SumFunction([i \in DOMAIN players |-> CountIn(players[i].inventory, k)])
WorldCount(k) == Len(SelectSeq(items, LAMBDA it : it.kind = k))

ItemConservation ==
  \A k \in Kind : WorldCount(k) + HeldCount(k) + destroyed[k] = created[k]

\* World item ids are unique, so PickUp{item_id} names one item: ids of
\* spawned items come from next_item_id.
UniqueItemIds ==
  \A i, j \in DOMAIN items : i # j => items[i].id # items[j].id

\* After a session has sent its Transfer the origin treats it as read-only:
\* no further Intent of that session changes the world (spec 4.4, Ghost;
\* spec 8).
IntentOf(c) == PickUp(c) \/ UseItem(c) \/ Drop(c)

GhostReadOnly ==
  [][\A c \in Conn :
       transferredAs[c] # {} /\ IntentOf(c) => UNCHANGED <<players, items>>]_vars
\* A zone that does not allow weapons has no player holding one: the
\* import policy strips them from passports (spec 8, "weapons not allowed";
\* world.rs: "Cave" zones don't allow weapons).
WeaponFreeZone ==
  ~AllowWeapons =>
    \A i \in DOMAIN players : CountIn(players[i].inventory, Sword) = 0
=============================================================================
