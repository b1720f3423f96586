----------------------------- MODULE ChatServer -----------------------------
(***************************************************************************)
(* The chat example (src/examples/chat/src/server.rs): one ServerState     *)
(* behind a tokio RwLock, a broadcast channel of serialized WireMessages,  *)
(* and one handle_connection task per WebSocket.  pc[c] is the await point *)
(* of the task on connection slot c:                                       *)
(*   "auth"         waiting for Auth                            (93-112)   *)
(*   "manifest"     read lock held, Manifest being sent         (115-123)  *)
(*   "register"     waiting for the write lock to register      (126-129)  *)
(*   "snapshot"     waiting for the read lock of the snapshot   (136-137)  *)
(*   "snapSend"     read lock held, initial Snapshot being sent (138-141)  *)
(*   "subscribe"    lock released, receiver not yet created    (141-144)   *)
(*   "live"         the select! main loop                       (147-187)  *)
(*   "posting"      Message intent read, waiting for the write lock (216)  *)
(*   "transferSend" read lock held, Error or Transfer being sent (225-246) *)
(*   "cleanup"      loop left, waiting for the write lock      (190-193)   *)
(*   "done"         task returned                                          *)
(* The runtime is tokio's multi-threaded one (#[tokio::main]), so another  *)
(* task may run between any two statements that release the lock.          *)
(* A message is the number of messages posted before it, plus one; names,  *)
(* texts and timestamps are left out.                                      *)
(***************************************************************************)
EXTENDS Integers, Sequences, FiniteSets

CONSTANTS
  Conn,            \* connection slots of the accept loop
  Id,              \* identities clients authenticate as
  NoId,
  Stalled,         \* clients that may stop reading their socket for good
  TransportFails,  \* may a sink.send fail?
  LogCap,          \* add_message keeps this many messages (100)
  SnapCap,         \* snapshot() shows this many (50)
  Capacity,        \* broadcast::channel capacity (100)
  MaxMsgs,         \* bound on messages posted
  MaxSessions      \* bound on connections accepted, the initial ones included

ASSUME Stalled \subseteq Conn /\ TransportFails \in BOOLEAN
ASSUME LogCap \in Nat \ {0} /\ SnapCap \in Nat \ {0} /\ Capacity \in Nat \ {0}
ASSUME MaxMsgs \in Nat /\ MaxSessions \in Nat

VARIABLES
  pc,        \* [Conn -> await point of handle_connection]
  ident,     \* [Conn -> identity of the session]
  readers,   \* tasks holding the read lock (a writer never holds it across an await)
  users,     \* DOMAIN of ServerState.users
  log,       \* ServerState.messages
  posted,    \* messages posted so far (history)
  bc,        \* every value sent on the broadcast channel, in order
  rx,        \* [Conn -> index in bc of the next value its receiver yields]
  snap,      \* [Conn -> messages of the snapshot read under the read lock]
  last,      \* [Conn -> newest message of the latest snapshot the client got]
  sessions   \* connections accepted so far

vars == <<pc, ident, readers, users, log, posted, bc, rx, snap, last, sessions>>

Phase == {"auth", "manifest", "register", "snapshot", "snapSend", "subscribe",
          "live", "posting", "transferSend", "cleanup", "done"}

\* A broadcast value: a Snapshot of messages, or a System join/leave text.
Broadcast == [kind : {"snap"}, msgs : Seq(Nat)] \cup [kind : {"sys"}, msgs : {<<>>}]
SysMsg == [kind |-> "sys", msgs |-> <<>>]

-----------------------------------------------------------------------------
(* ServerState and the tokio primitives.                                   *)

\* ServerState::snapshot: the newest SnapCap messages, oldest first.
Snapshot(l) == SubSeq(l, IF Len(l) > SnapCap THEN Len(l) - SnapCap + 1 ELSE 1, Len(l))

\* Mutant of AddMessageTo: the cap is tested with >= instead of >.
AddMessageToEager(l, m) ==
  LET l2 == Append(l, m) IN IF Len(l2) >= LogCap THEN Tail(l2) ELSE l2

\* Mutant of AddMessageTo: the cap is tested before the push.
AddMessageToLate(l, m) ==
  IF Len(l) > LogCap THEN Tail(Append(l, m)) ELSE Append(l, m)

\* ServerState::add_message: push, then drop the oldest past LogCap.
AddMessageTo(l, m) ==
  LET l2 == Append(l, m) IN IF Len(l2) > LogCap THEN Tail(l2) ELSE l2

\* Newest message of a snapshot, 0 for an empty one.
Newest(s) == IF s = <<>> THEN 0 ELSE s[Len(s)]

\* Index of the oldest value the channel still holds.
Oldest == IF Len(bc) > Capacity THEN Len(bc) - Capacity + 1 ELSE 1

\* Mutant of SubscribePos: a receiver that replays what the channel holds.
SubscribePosOldest == Oldest

\* broadcast::Sender::subscribe: the receiver yields only later values.
SubscribePos == Len(bc) + 1

\* Mutant of WriterQueued: a reader-preferring lock, where readers overtake
\* a queued writer.
WriterQueuedNever == FALSE

\* A task queued on the write lock; tokio's RwLock is fair, so a reader
\* that arrives after it waits behind it.
WriterQueued == \E d \in Conn : pc[d] \in {"register", "posting", "cleanup"}

\* A sink.send that fails returns Err through `?`: the task ends and drops
\* any lock guard it holds, skipping the unregister after the loop.
SendFails(c) ==
  /\ TransportFails
  /\ pc' = [pc EXCEPT ![c] = "done"]
  /\ readers' = readers \ {c}

-----------------------------------------------------------------------------
Init ==
  /\ pc = [c \in Conn |-> "auth"]
  /\ ident = [c \in Conn |-> NoId]
  /\ readers = {}
  /\ users = {}
  /\ log = <<>>
  /\ posted = 0
  /\ bc = <<>>
  /\ rx = [c \in Conn |-> 0]
  /\ snap = [c \in Conn |-> <<>>]
  /\ last = [c \in Conn |-> 0]
  /\ sessions = Cardinality(Conn)

\* The accept loop spawns a task for a new connection on a finished slot.
Accept(c) ==
  /\ pc[c] = "done"
  /\ sessions < MaxSessions
  /\ sessions' = sessions + 1
  /\ pc' = [pc EXCEPT ![c] = "auth"]
  /\ ident' = [ident EXCEPT ![c] = NoId]
  /\ rx' = [rx EXCEPT ![c] = 0]
  /\ snap' = [snap EXCEPT ![c] = <<>>]
  /\ last' = [last EXCEPT ![c] = 0]
  /\ UNCHANGED <<readers, users, log, posted, bc>>

\* Auth arrives (the passport only chooses the display name); the task
\* then takes the read lock for the Manifest.
Auth(c) ==
  /\ pc[c] = "auth"
  /\ ~WriterQueued
  /\ \E id \in Id : ident' = [ident EXCEPT ![c] = id]
  /\ pc' = [pc EXCEPT ![c] = "manifest"]
  /\ readers' = readers \cup {c}
  /\ UNCHANGED <<users, log, posted, bc, rx, snap, last, sessions>>

\* The stream closes, or a frame is not JSON (`?` on from_str), before Auth.
AuthAborted(c) ==
  /\ pc[c] = "auth"
  /\ pc' = [pc EXCEPT ![c] = "done"]
  /\ UNCHANGED <<ident, readers, users, log, posted, bc, rx, snap, last, sessions>>

\* The Manifest send completes and the read guard is dropped.
ManifestSent(c) ==
  /\ pc[c] = "manifest"
  /\ \/ /\ pc' = [pc EXCEPT ![c] = "register"]
        /\ readers' = readers \ {c}
     \/ SendFails(c)
  /\ UNCHANGED <<ident, users, log, posted, bc, rx, snap, last, sessions>>

\* users.insert under the write lock, then the join System broadcast.
Register(c) ==
  /\ pc[c] = "register"
  /\ readers = {}
  /\ users' = users \cup {ident[c]}
  /\ bc' = Append(bc, SysMsg)
  /\ pc' = [pc EXCEPT ![c] = "snapshot"]
  /\ UNCHANGED <<ident, readers, log, posted, rx, snap, last, sessions>>

\* The read lock is taken and the initial snapshot assembled.
SnapLock(c) ==
  /\ pc[c] = "snapshot"
  /\ ~WriterQueued
  /\ snap' = [snap EXCEPT ![c] = Snapshot(log)]
  /\ readers' = readers \cup {c}
  /\ pc' = [pc EXCEPT ![c] = "snapSend"]
  /\ UNCHANGED <<ident, users, log, posted, bc, rx, last, sessions>>

\* The initial Snapshot is flushed and the read guard dropped.
SnapSent(c) ==
  /\ pc[c] = "snapSend"
  /\ \/ /\ pc' = [pc EXCEPT ![c] = "subscribe"]
        /\ readers' = readers \ {c}
        /\ last' = [last EXCEPT ![c] = Newest(snap[c])]
     \/ /\ SendFails(c)
        /\ UNCHANGED last
  /\ UNCHANGED <<ident, users, log, posted, bc, rx, snap, sessions>>

\* broadcast_tx.subscribe(), then the main loop.
Subscribe(c) ==
  /\ pc[c] = "subscribe"
  /\ rx' = [rx EXCEPT ![c] = SubscribePos]
  /\ pc' = [pc EXCEPT ![c] = "live"]
  /\ UNCHANGED <<ident, readers, users, log, posted, bc, snap, last, sessions>>

\* Messages read from clients and not yet added under the write lock.
PendingPosts == Cardinality({d \in Conn : pc[d] = "posting"})

\* A Message intent arrives in the main loop; handle_intent awaits the
\* write lock.
Post(c) ==
  /\ pc[c] = "live"
  /\ posted + PendingPosts < MaxMsgs
  /\ pc' = [pc EXCEPT ![c] = "posting"]
  /\ UNCHANGED <<ident, readers, users, log, posted, bc, rx, snap, last, sessions>>

\* ChatIntent::Message: add_message and broadcast the new snapshot, both
\* under the write lock.
HandleMessage(c) ==
  /\ pc[c] = "posting"
  /\ readers = {}
  /\ posted' = posted + 1
  /\ log' = AddMessageTo(log, posted + 1)
  /\ bc' = Append(bc, [kind |-> "snap", msgs |-> Snapshot(log')])
  /\ pc' = [pc EXCEPT ![c] = "live"]
  /\ UNCHANGED <<ident, readers, users, rx, snap, last, sessions>>

\* ChatIntent::Transfer arrives: the read lock is taken and the destination
\* compared with the peer; either way a reply is sent under the lock.
TransferIntent(c) ==
  /\ pc[c] = "live"
  /\ ~WriterQueued
  /\ readers' = readers \cup {c}
  /\ pc' = [pc EXCEPT ![c] = "transferSend"]
  /\ UNCHANGED <<ident, users, log, posted, bc, rx, snap, last, sessions>>

\* The Error or Transfer reply is flushed and the read guard dropped; the
\* session stays in the main loop.
TransferSent(c) ==
  /\ pc[c] = "transferSend"
  /\ \/ /\ pc' = [pc EXCEPT ![c] = "live"]
        /\ readers' = readers \ {c}
     \/ SendFails(c)
  /\ UNCHANGED <<ident, users, log, posted, bc, rx, snap, last, sessions>>

\* broadcast_rx.recv(): Lagged is ignored and the receiver resumes at the
\* oldest value held; a value is forwarded to the client.
RecvBroadcast(c) ==
  /\ pc[c] = "live"
  /\ rx[c] <= Len(bc)
  /\ \/ /\ rx[c] < Oldest
        /\ rx' = [rx EXCEPT ![c] = Oldest]
        /\ UNCHANGED <<pc, readers, last>>
     \/ /\ rx[c] >= Oldest
        /\ rx' = [rx EXCEPT ![c] = @ + 1]
        /\ last' = [last EXCEPT ![c] =
                      IF bc[rx[c]].kind = "snap" THEN Newest(bc[rx[c]].msgs) ELSE @]
        /\ UNCHANGED <<pc, readers>>
     \/ /\ rx[c] >= Oldest
        /\ SendFails(c)
        /\ UNCHANGED <<rx, last>>
  /\ UNCHANGED <<ident, users, log, posted, bc, snap, sessions>>

\* The stream ends or errors: break out of the main loop.
Disconnect(c) ==
  /\ pc[c] = "live"
  /\ pc' = [pc EXCEPT ![c] = "cleanup"]
  /\ UNCHANGED <<ident, readers, users, log, posted, bc, rx, snap, last, sessions>>

\* Mutant of Unregister: the cleanup runs in the stream's None arm and the
\* loop goes on instead of breaking.
UnregisterContinue(c) ==
  /\ pc[c] = "cleanup"
  /\ readers = {}
  /\ users' = users \ {ident[c]}
  /\ bc' = Append(bc, SysMsg)
  /\ pc' = [pc EXCEPT ![c] = "live"]
  /\ UNCHANGED <<ident, readers, log, posted, rx, snap, last, sessions>>

\* users.remove under the write lock, then the leave System broadcast.
Unregister(c) ==
  /\ pc[c] = "cleanup"
  /\ readers = {}
  /\ users' = users \ {ident[c]}
  /\ bc' = Append(bc, SysMsg)
  /\ pc' = [pc EXCEPT ![c] = "done"]
  /\ UNCHANGED <<ident, readers, log, posted, rx, snap, last, sessions>>

Next ==
  \E c \in Conn :
    \/ Accept(c) \/ Auth(c) \/ AuthAborted(c) \/ ManifestSent(c)
    \/ Register(c) \/ SnapLock(c) \/ SnapSent(c) \/ Subscribe(c)
    \/ Post(c) \/ HandleMessage(c) \/ TransferIntent(c) \/ TransferSent(c)
    \/ RecvBroadcast(c) \/ Disconnect(c) \/ Unregister(c)

Spec == Init /\ [][Next]_vars

\* tokio runs every ready task eventually: the steps a task takes by itself
\* are weakly fair.  A send completes only if the client reads, so sends to
\* a stalled client get no fairness.  Client actions (Auth, Post, Transfer,
\* Disconnect) get none.
Fairness ==
  \A c \in Conn :
    /\ WF_vars(Register(c)) /\ WF_vars(SnapLock(c)) /\ WF_vars(Subscribe(c))
    /\ WF_vars(HandleMessage(c)) /\ WF_vars(Unregister(c))
    /\ c \notin Stalled =>
         /\ WF_vars(ManifestSent(c)) /\ WF_vars(SnapSent(c))
         /\ WF_vars(TransferSent(c)) /\ WF_vars(RecvBroadcast(c))

FairSpec == Spec /\ Fairness

-----------------------------------------------------------------------------
(* Properties.                                                             *)

TypeOK ==
  /\ pc \in [Conn -> Phase]
  /\ ident \in [Conn -> Id \cup {NoId}]
  /\ readers \subseteq Conn
  /\ users \subseteq Id
  /\ log \in Seq(1..MaxMsgs) /\ Len(log) <= LogCap
  /\ posted \in 0..MaxMsgs
  /\ bc \in Seq(Broadcast)
  /\ rx \in [Conn -> Nat]
  /\ snap \in [Conn -> Seq(1..MaxMsgs)]
  /\ last \in [Conn -> 0..MaxMsgs]
  /\ sessions \in 0..MaxSessions

\* Sessions between users.insert and users.remove.
Registered(c) == pc[c] \in {"snapshot", "snapSend", "subscribe", "live", "posting",
                            "transferSend", "cleanup"}

\* Every identity in the users list belongs to a registered session: the
\* unregister after the main loop (server.rs 190-193) runs for every
\* session that registered.
NoLeakedUsers == \A id \in users : \E c \in Conn : Registered(c) /\ ident[c] = id

\* Every registered session is in the users list: another session's
\* unregister (users.remove keyed by identity) never removes it.
SessionHasUser == \A c \in Conn : Registered(c) => ident[c] \in users

\* The log is exactly the newest LogCap messages posted, oldest first:
\* add_message (server.rs 42-56) neither loses a recent message nor keeps
\* one past the cap.
LogIsSuffix ==
  LET n == IF posted < LogCap THEN posted ELSE LogCap
  IN log = [i \in 1..n |-> posted - n + i]

\* The snapshots a client receives never go back in time (spec 5: "a gap
\* is legal, a decrease is not"): the initial snapshot read under the read
\* lock and the broadcasts forwarded after subscribe() are ordered.
ViewNeverRegresses ==
  [][\A c \in Conn : pc[c] # "done" /\ pc'[c] # "done" => last'[c] >= last[c]]_vars

\* The lifecycle phase a task's await point stands for: Syncing from the
\* accepted Auth until the first Snapshot is flushed, Live in the main loop,
\* Closed once the loop is left.
LifecyclePhase(p) ==
  CASE p = "auth" -> "Connecting"
    [] p \in {"manifest", "register", "snapshot", "snapSend"} -> "Syncing"
    [] p \in {"subscribe", "live", "posting", "transferSend"} -> "Live"
    [] p \in {"cleanup", "done"} -> "Closed"

Lifecycle == INSTANCE SessionLifecycle
               WITH Session <- Conn, MaxApplied <- MaxMsgs,
                    phase <- [c \in Conn |-> LifecyclePhase(pc[c])],
                    applied <- posted

\* The chat tasks refine the phase order of spec 4.4: a task moves
\* Connecting, Syncing, Live, Closed in order, and a message is added to
\* the log only on behalf of a session that has flushed its first snapshot.
\* Ghost is optional in SessionLifecycle, so the rule that RequestTransfer
\* leads to Ghost is not part of what this checks.
ImplementsLifecycle == Lifecycle!Spec

\* A Message intent that has been read is eventually applied: no task
\* holds the lock for ever (spec 5: "no cross-connection blocking
\* beyond this single lock").
MessageCompletes == \A c \in Conn : pc[c] = "posting" ~> pc[c] # "posting"
=============================================================================
