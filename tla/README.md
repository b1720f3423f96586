# TLA+ models of interconnect

This directory holds TLA+ models of the interconnect federation protocol
(`src/crates/interconnect-core`) and of the servers that run it: the example
applications under `src/examples`. They are checked with TLC. The core crate
only defines types. Everything that has behaviour (sessions, handoffs, shared
state, import policies) lives in the example servers, so most of the models
are about those servers.

## 1. Inventory

### Components

| Component | Source | State | Operations | Status |
|---|---|---|---|---|
| Identity | `interconnect-core/src/identity.rs` | immutable `{scheme, payload}` | `new`, `local`, `url`, `Display` (format), `FromStr` (parse), `is_local` | `IdentityCodec` |
| Manifest | `interconnect-core/src/lib.rs` | data | construction only | not modelled (no behaviour) |
| ConnectionState | `interconnect-core/src/lib.rs` | enum `Connecting/Syncing/Live/Ghost` | none: no code ever drives it | `SessionLifecycle` states the spec 4.4 machine over these phases; `ChatServer` is checked to refine it |
| Envelope (`ClientMessage`, `ServerMessage`) | `interconnect-core/src/message.rs` | data | serde only; the examples use their own `WireMessage` | not modelled |
| Transfer / Passport | `interconnect-core/src/transfer.rs` | data | `Passport::new`, `Passport::signed` | not modelled as such; the game passport is in `GameZone` |
| Game zone | `examples/game/src/{server,world,protocol}.rs` | `World` (players by identity, items, tick, allow_weapons) behind an `RwLock`, a tick broadcast channel, and one task per connection | accept, Auth (+ import policy), Welcome, tick, snapshot forward, PickUp, UseItem, Drop, Move, Transfer, disconnect and cleanup | `GameZone` (Move and coordinates abstracted away) |
| Game federation | the same, two zones | two worlds and a client carrying a passport | Transfer at the origin, Auth with the passport at the destination | `GameFederation` |
| Chat | `examples/chat/src/server.rs` | users by identity, capped message log, broadcast channel, one task per connection | Auth (passport name), manifest, register, join broadcast, snapshot, message intent, transfer intent, leave | `ChatServer` |
| Forum | `examples/forum/src/server.rs` | threads, replies, profiles, id counters behind an `RwLock`; HTTP handlers | create thread, reply, list and get with pagination, profile, import policy | `ForumServer`, `Pagination` |
| Microblog | `examples/microblog/src/server.rs` | posts, follow set, id counter; HTTP handlers | post, follow, unfollow, timeline, manifest; remote feed is a stub | `MicroblogServer` |
| Bootstrap | `examples/*/src/main.rs` | none | CLI parsing, logging | not modelled |

### How the parts interact

A client opens a WebSocket to a zone and sends `Auth{identity, name,
passport?}`. The connection task decodes the passport. If it decodes, the task
runs the zone's import policy and reports the accepted and rejected items.
The task then adds a player to the shared world and sends `Welcome`, then
subscribes to the tick broadcast. In the main loop the task `select!`s between
client intents and tick snapshots. Every intent takes the world lock.
`Transfer{destination}` checks the destination against the configured peer
and sends the client a passport minted from its player. The client is
expected to reconnect to the peer with it. When the client stream ends, the
task removes the player. Zones never talk to each other; the passport travels
through the client. Chat works the same way over a users map and a message
log. The forum and microblog are plain HTTP handlers over one locked state.

### What is hard

* **Interleavings of connection tasks.** Each await is a point where other
  tasks run: the lock acquisitions, the sends, and the gap between leaving
  the loop and `remove_player`. The shared maps are keyed by identity, not by
  session, so two sessions of one identity interfere.
* **Partial failure.** Every send ends in `?`. A failed send returns from the
  task before its cleanup.
* **Untrusted passports.** The destination adopts the identity, health,
  max_health and items a passport claims. Only some of them are checked.
* **Handoff.** The spec's Ghost phase (the session is read-only after a
  Transfer) is not implemented.
* **Bounded channels.** Tick snapshots go through a broadcast of capacity
  16. Slow receivers lag and skip snapshots.
* **Numeric edges.** Item ids come from the tick, and pagination does u32
  arithmetic.

### What makes each component correct

* Identity: `parse(format(x)) = x` for valid identities; distinct error kinds.
* Game zone: every player belongs to a live session and every live session
  has its player (no leak, no eviction); after a Transfer the session no
  longer changes the world; health stays in `1..max_health`; items are
  conserved by intents;
  item ids are unique; a weapon-free zone holds no weapons.
* Federation: an item is not duplicated by a transfer.
* Chat: the users list matches the live sessions; the log never exceeds
  100 messages; a client's view never goes back to an older snapshot;
  every message intent is eventually applied. A message posted between a
  joiner's snapshot and its `subscribe()` may be missed: spec 5 allows
  that gap.
* Forum: `reply_count` equals the number of replies; ids are unique; pages
  partition the list.

## 2. Plan

1. `GameZone` (done): the richest lifecycle, with passports, import policy,
   shared world, tick broadcast and the error paths.
2. `IdentityCodec` (done): the parse/format algorithm against its round-trip
   law.
3. `ChatServer` (done): users registry, log cap, join/leave, the
   snapshot-then-subscribe gap, leak on send failure, the read lock held
   across sends (liveness).
4. `SessionLifecycle` (done for chat): the abstract Connecting/Syncing/Live
   machine of spec 4.4, refined by `ChatServer`. No mapping from `GameZone`
   is kept: the game never retires a session, so every intent would be a
   stutter of the abstract machine and the check would say nothing. Its
   missing Ghost phase is stated instead as `GhostReadOnly`.
5. `ForumServer` and `Pagination` (done): handler invariants, and the u32
   page arithmetic checked against a reference slice.
6. `MicroblogServer` (done): post ids and timeline polling.
7. `GameFederation` (done): two `GameZone` instances (`INSTANCE ... WITH`)
   and a client moving between them. `NoItemDuplication` is violated: there
   is no Ghost phase, and passports can be replayed.
8. Liveness for the game zone: the same lock-across-send pattern at
   `game/src/server.rs:134` and `:304`.

## 3. Modules

### `GameZone.tla` (+ `MCGameZone.tla`)

State:

* `pc[c]`: the await point of the task on connection slot `c`.
  * `auth`: the wait-for-auth loop, `server.rs:101`.
  * `welcome`: the player has been added and `Welcome` is unsent, `:162`.
  * `live`: the `select!` loop, `:176`.
  * `cleanup`: after `break`, before `remove_player`, `:208`.
  * `done`: the task has returned, with `Ok` or with `Err` through `?`.
* `ident[c]`: the Auth identity of the session.
* `rx[c]`: the broadcast receiver's cursor.
* `transferredAs[c]`: the identities of the passports sent in Transfers.
* `players`, `items`, `tick`: the `World`.
* `sessions`: the number of connections accepted, bounded.
* `created` and `destroyed`: history counters for item conservation.

Each critical section under the world lock is one action. The actions are
`Accept`, `Auth`, `AuthAborted`, `Welcome`, `TickLoop`, `RecvSnapshot`
(with the `Lagged` branch), `Disconnect`, `RemovePlayer`, `PickUp`,
`UseItem`, `Drop` and `Transfer`. `HandleIntent` is the `match` of
`handle_intent` over the last four. Every send has a failing branch
(`SendFails`) that ends the task with no cleanup, exactly as `?` does. The
helpers `ApplyImportPolicy`, `FromPassport`, `ToPassport`, `AddPlayer`,
`RemovePlayerFrom` and `WorldTick` translate `world.rs`.

Abstractions:

* Coordinates are dropped. `PickUp` takes any item, as if the distance test
  passed; when it fails, nothing changes. `Move` only changes coordinates,
  so in `HandleIntent` it is a stuttering step.
* Torch and Gem behave like any non-weapon, non-potion item and are left out
  of `Spawn`.
* Names, the report and snapshot contents are not modelled.
* A non-Auth message in the auth loop, and an `Error` whose send succeeds,
  change no state. They are stuttering steps.

### `IdentityCodec.tla` (+ `MCIdentityCodec.tla`)

`Format` is `Display` and `Parse` is `FromStr` (`split_once(':')`, then the
empty-scheme check). The serde conversions (`Into<String>`,
`TryFrom<String>`) call exactly these two functions, so they need no
property of their own. A text is a sequence over
`{a, b, :}`. Every text of up
to 5 characters is an initial state (364 states), so each invariant is
checked for all of them.

### `GameFederation.tla` (+ `MCGameFederation.tla`)

Two zones run as each other's `--peer` (`game/src/main.rs`). Each zone is
an instance of `GameZone` (`A`, `B`), and each instance has its own copy of
the variables. A step of one zone leaves the other zone's variables
unchanged. The zones share nothing: the passport travels through the
client.

* `DepartA`/`DepartB` is a zone's `Transfer` step. It also puts the
  passport minted by `Player::to_passport` into the client's `wallet`.
* `ArriveA`/`ArriveB` is `AuthWith` at the other zone with a passport from
  the wallet, no passport, or bytes that do not decode.

The client is honest: it never forges a passport. Sends succeed and the
tick task is idle, so every step is a move of the player.
`NoItemDuplication` counts, across both zones, the items in the worlds and
in the inventories of players whose session has not transferred (a Ghost's
player leaves at close). That count must never exceed what the two worlds
spawned. The state space is large (the wallet and the reordered item lists
grow with every session), so the run checks only the violation. TLC finds
it at depth 7.

### `ChatServer.tla` (+ `MCChatServer.tla`)

`pc[c]` is the await point of the task on slot `c` of `handle_connection`
(`chat/src/server.rs:80-200`): `auth`, `manifest` (read guard held while the
Manifest is sent, `:116-122`), `register` (write lock, `:125-133`),
`snapshot` and `snapSend` (read guard held while the snapshot is sent,
`:136-141`), `subscribe` (`:143-144`), `live` (the `select!` loop),
`posting` and `transferSend` (inside `handle_intent`), `cleanup`
(`:189-200`) and `done`. `readers` is the set of tasks holding the read
guard. A write step needs `readers = {}`. Because tokio's `RwLock` is
fair, a queued writer (`WriterQueued`) also blocks new readers.
`users`, `log`, `bc` (values sent on the broadcast channel) and `rx` (each
receiver's cursor, resumed at `Oldest` after `Lagged`) are the shared
state. A message is its sequence number. `posted` counts the messages
handled, and `snap` and `last` are the snapshots a client has been sent.
The caps are scaled: `LogCap` stands for 100, `SnapCap` for 50 and
`Capacity` for the channel's 100. `Stalled` is the set of clients that stop
reading, whose sends never complete. With `TransportFails`, every send may
fail, which ends the task through `?` before its cleanup.

### `SessionLifecycle.tla`

The spec 4.4 session machine over `ConnectionState`: `Connecting` to
`Syncing` (authenticated), to `Live` (initial snapshot delivered), then
`Ghost` or closed. Intents are applied only while `Live`. `ChatServer`
maps `auth`/`manifest`/`register` to Connecting, the snapshot steps to
Syncing, the loop to Live and the rest to Closed, with `applied` the
messages handled. `ImplementsLifecycle` is `Lifecycle!Spec`. It checks the
order of the phases and that messages are applied only while Live. Ghost
is optional in `SessionLifecycle` (a Live session may close directly), so
the spec's rule that a Transfer leads to Ghost is not part of this check;
`GameZone!GhostReadOnly` states it for the game.

### `Pagination.tla` (+ `MCPagination.tla`)

The page arithmetic of `list_threads` and `get_thread`
(`forum/src/server.rs:131-143`, `:165-175`) as operators over u32 of
width `W`. An overflowing request has two outcomes: a debug build panics
and a release build wraps. The result is compared with `Reference`, the
page in unbounded arithmetic. Every request (handler, list length,
`page`, `per_page`) is an initial state.

### `ForumServer.tla` (+ `MCForumServer.tla`)

Every write handler holds the write lock for its whole body without an
await, so each is one action: `CreateThread`, `ReplyToThread` and
`ImportUser`. Import keeps a history of refused identities, because the
code stores nothing. `users` maps an identity to its `post_count`.
`GetProfile` is `get_profile`: the stored count, or a 404. `PostCountMatches` relates it to the threads
and replies stored. `ListThreads` is a client paging through the list
with `Pagination`'s `Paged`. Titles, bodies and names are dropped.

### `MicroblogServer.tla` (+ `MCMicroblogServer.tla`)

The actions are `CreatePost`, `FollowUser`, `UnfollowUser` and
`PollTimeline`. `PollTimeline` is a follower fetching the newest
`TimelineCap` posts (20 in the code) and recording what it has seen.

## 4. Runs

| Run | Expect | Checks | Shows |
|---|---|---|---|
| `zone_reliable` | pass | `TypeOK` | With reliable sends and honest passports, every action of the zone (reconnects, same-identity re-auths, ticks and broadcast lag, every intent) keeps the task, world and counter state well formed; in particular a receiver cursor never runs past the next snapshot to be broadcast. |
| `zone_adversarial` | pass | `ItemConservation` | Under failing sends and forged passports, intents move items between the world and inventories without copying or losing them. |
| `identity_codec` | pass | `RoundTrip`, `ErrorKinds` | The round-trip law holds, payloads containing `:` included. MissingColon and EmptyScheme are reported exactly for their inputs. |
| `leak_on_send_error` | violation | `NoLeakedPlayers` | A failed send skips `remove_player` (finding). |
| `forged_passport_leaks` | violation | `NoLeakedPlayers` | Over a reliable transport, a session authenticating as one identity with another identity's passport adds a player under the passport's identity, which its cleanup never removes (finding, 2 steps). |
| `federation_duplicates_items` | violation | `NoItemDuplication` | An honest player moving between two zones ends with an item in two places. The origin still applies intents after a Transfer (finding). |
| `chat_lossy` | pass | `TypeOK`, `LogIsSuffix`, `ViewNeverRegresses`, `ImplementsLifecycle`, `MessageCompletes` | Under failing sends and broadcast lag: the log is the newest `LogCap` messages; no client is shown an older snapshot after a newer one; the chat tasks go through the spec 4.4 phases in order and apply messages only while Live (Ghost is not checked). Under `FairSpec`, with every client reading, every Message intent is eventually applied, even while other sessions fail. |
| `chat_stalled_reader` | violation | `MessageCompletes` | A client that stops reading while its task sends under the read guard blocks every writer (finding). |
| `pagination_wraps` | violation | `ResponseIsNamedPage` | With u32 at 8 bits, a page past the end makes `(page - 1) * per_page` wrap, and a release build returns an earlier page instead of an empty one (finding). |
| `reauth_orphans_session` | violation | `SessionHasPlayer` | Two connections authenticate as one identity. The second Auth replaces the player, and the first connection's cleanup then removes the second's player, which is still in its main loop (finding, 6 steps). |
| `forum_consistent` | pass | `PostCountMatches` | Through any sequence of forum calls, each profile's `post_count` equals that identity's threads plus replies, and each thread's `reply_count` equals its replies. |
| `forum_import_not_enforced` | violation | `RestrictedNeverPosts` | An identity the import policy refused posts at once (finding). |

Each passing property has a mutant in `PROJECT.json`: a plausible bug in the
modelled code that TLC shows the property catches.

### Counterexamples stated but not kept as runs

The project keeps at most twelve runs, so the runs above are the ones that
show the most. The properties below are stated in their modules, and TLC
finds each of them violated when a cfg checks it with the constants given.
They are not findings of the project until a run checks them.

* `ChatServer!SessionHasUser`: the chat version of `reauth_orphans_session`.
  The first of two sessions of one identity to leave removes the other's
  entry from `users`.
* `GameZone!UniqueItemIds`: `Drop` uses the tick as the item id.
* `GameZone!HealthWithinMax` with a passport claiming `max_health` below
  100, e.g. 50 with health 500: health is clamped to `1..100`
  (`world.rs:40`) but `max_health` is adopted unchecked, so health ends at
  100 > 50. `HonestPassports` and `ReliablePassports` mint `max_health`
  100 only and cannot show this.
* `GameZone!WeaponFreeZone`: a weapon-free zone spawns a Sword.
* `GameZone!GhostReadOnly`: intents after a Transfer still change the
  world. This is the root cause `federation_duplicates_items` shows.
* `IdentityCodec!RoundTripNew`: `Identity::new` does not enforce the
  scheme invariant.
* `ChatServer!NoLeakedUsers` with `TransportFails = TRUE`: a failed send
  skips `users.remove`.
* `ForumServer!PagesDisjoint`: newest-first offset paging repeats a thread
  created between two page requests.
* `ForumServer!ParentIsEarlierReply`: `parent_id` is stored unchecked.
* `MicroblogServer!NoPostMissed`: a follower polling the 20-post timeline
  misses posts that scroll out between polls.

### Bounds and why they are enough

* Federation: one identity, one connection slot and two sessions per zone.
  Zone A spawns a Sword and zone B a Potion, and both allow weapons. This
  is the least that lets an item travel and come back.

* 2 connection slots and 2 identities. This is the least that lets two
  sessions share an identity or forge each other's passports.
* 3 sessions in total. That allows one reconnect.
* A Potion and a Sword. That covers the potion path, the weapon filter, and
  a mix of world and imported items.
* Passports with health 0 and 500. These are the spec's clamp cases.
  `zone_reliable` checks nothing about health, so it uses health 500 only
  (`ReliablePassports`). That keeps the run to about a minute.
* Broadcast capacity 1 with `MaxTick` 2. This reaches the `Lagged` branch.
  The adversarial run uses `MaxTick` 1 to stay within five minutes; its
  properties do not depend on the tick.

* Chat: 2 slots, 2 identities, 3 sessions and 3 messages. `LogCap` is 2,
  `SnapCap` 1 and `Capacity` 2. These keep the same order as 100/50/100, so
  the log drops a message, the snapshot is narrower than the log, and a
  receiver can lag.
* Pagination: `W` = 8, so every `page` value of u32 is enumerated, with
  `per_page` at 0, 1, 2, 3, 100, 101 and 255. The overflow cases (page 0,
  and products of 256 and more) are reachable exactly as at 32 bits.
* Forum: 2 authors, 3 posts, and a pager with `per_page` 1 over 2 pages.
  Passports of reputation -150, -5 and 50 and post_count 0 and 11 cover the
  clamp and both sides of `can_post`.
* Microblog: 6 posts with a timeline of 2, so posts scroll out of the
  window between polls.

Symmetry is used over connection slots and identities, which the spec
treats uniformly, and only in game and forum runs whose properties are
invariants. No chat run uses it: `chat_lossy` checks liveness, and
`chat_stalled_reader` singles out one client as `Stalled`, which breaks the
symmetry between slots.

`CHECK_DEADLOCK FALSE` is set in the game, chat, forum and microblog runs. Once the session and tick
bounds are used up, the real server sits idle in `accept()` and
`interval.tick()`. The bounded model has no step left to represent that,
so the end of a behaviour there is quiescence, not a deadlock.

### Fairness

`ChatServer!FairSpec` assumes weak fairness of every server step that needs
only the lock and the task's own turn: `Register`, `SnapLock`, `Subscribe`,
`HandleMessage` and `Unregister`. Tokio schedules every ready task
eventually, which justifies this. A send completes only if the client
reads, so `ManifestSent`, `SnapSent`, `TransferSent` and `RecvBroadcast`
are fair only for clients outside `Stalled`. Client actions (connect,
post, disconnect) get no fairness. `chat_lossy` uses `Stalled = {}`;
`chat_stalled_reader` makes one client stall.

## 5. Not modelled

* Manifest, the generic envelope and the core Passport/Transfer
  constructors: data with no behaviour.
* JSON framing and WebSocket/HTTP transport. A frame is either an intent of
  the model or a parse failure (a stutter, or `AuthAborted`).
* Logging and CLI parsing.
* Player and item coordinates (see above).
* Chat display names, message texts and timestamps, and the Transfer
  passport contents (the Transfer intent's lock holding and sends are
  modelled).
* Forum `get_manifest` and `get_thread`, and microblog `get_manifest` and
  `get_profile`: read-only handlers. They are stuttering steps.
  `get_thread`'s paging is checked in `Pagination`. Forum `get_profile`
  is the `GetProfile` operator.
* The game zone's lock held across a send (`server.rs:134`: the write lock
  across the ImportReport, and the read lock across the Transfer). In
  `GameZone` every send is one atomic step. The same pattern is modelled
  and checked in the chat server (`chat_stalled_reader`). A game version
  needs a blocked-send phase in every critical section, and the zone runs
  already take up to a minute. It would also need a thirteenth run.
* The microblog has no run of its own. Its one property,
  `NoPostMissed`, is violated (see "Counterexamples stated but not kept as
  runs"), and its handlers admit no other property beyond restating an
  assignment.
* Microblog `fetch_remote_feed`: a stub that returns an empty feed.
