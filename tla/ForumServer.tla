----------------------------- MODULE ForumServer ----------------------------
(***************************************************************************)
(* The forum example (src/examples/forum/src/server.rs): axum handlers     *)
(* over one ServerState behind a tokio RwLock.  Every handler that writes  *)
(* holds the write lock for its whole body and never awaits inside it, so  *)
(* each is one atomic action.  The read-only handlers (get_manifest,       *)
(* get_thread, get_profile) change nothing; list_threads is modelled by a  *)
(* client that pages through the thread list one request at a time, and   *)
(* import_user by a history of the verdicts it returned.                   *)
(* Titles, bodies, names and timestamps are left out.                      *)
(***************************************************************************)
EXTENDS Integers, Sequences, SequencesExt, FiniteSets, TLC

CONSTANTS
  Author,         \* identities posts are made as (Identity::local(author_name))
  Passports,      \* ForumPassports presented to /import
  ParentInputs,   \* parent_id values a ReplyRequest may carry (None: absent)
  None,
  Panic,
  W,              \* width of u32
  PagerPerPage,   \* per_page of the paging client
  MaxPage,        \* pages the paging client asks for
  MaxPosts        \* bound on threads plus replies

ASSUME PagerPerPage \in 1..100 /\ MaxPage \in Nat /\ MaxPosts \in Nat

VARIABLES
  threads,        \* ServerState.threads: [id, author, reply_count, replies]
  users,          \* ServerState.users: identity -> post_count
  next_thread_id,
  next_reply_id,
  pager,          \* the paging client: next page to ask for, thread ids seen
  restricted      \* history: identities /import answered can_post = false

vars == <<threads, users, next_thread_id, next_reply_id, pager, restricted>>

P == INSTANCE Pagination WITH handler <- "list", len <- 0, rawPage <- None,
       rawPer <- None, MaxLen <- 0, PageInputs <- {}, PerPageInputs <- {}

-----------------------------------------------------------------------------
(* ServerState.                                                            *)

\* ServerState::apply_import_policy
ApplyImportPolicy(pp) ==
  LET reputation == IF pp.reputation < -100 THEN -100
                    ELSE IF pp.reputation > 100 THEN 100 ELSE pp.reputation
  IN [reputation |-> reputation,
      can_post   |-> reputation >= 0 \/ pp.post_count > 10]

\* Mutant of GetOrCreateUser: users.insert replaces an existing profile with
\* a fresh one instead of entry().or_insert_with.
GetOrCreateUserInsert(us, a) == (a :> 0) @@ us

\* ServerState::get_or_create_user: entry().or_insert_with a fresh profile.
GetOrCreateUser(us, a) == IF a \in DOMAIN us THEN us ELSE (a :> 0) @@ us

\* get_or_create_user(..).post_count += 1
CountPost(us, a) == LET u == GetOrCreateUser(us, a) IN [u EXCEPT ![a] = @ + 1]

\* get_profile: the post_count of the stored profile, as a set holding it,
\* or the empty set for a 404.  The path is taken as a parsed identity.
GetProfile(us, a) == IF a \in DOMAIN us THEN {us[a]} ELSE {}

NumReplies == FoldSeq(LAMBDA t, acc : acc + Len(t.replies), 0, threads)

-----------------------------------------------------------------------------
Init ==
  /\ threads = <<>>
  /\ users = <<>>
  /\ next_thread_id = 1
  /\ next_reply_id = 1
  /\ pager = [page |-> 1, seen |-> <<>>]
  /\ restricted = {}

\* create_thread: count the post, push the thread with the next id.
CreateThread(a) ==
  /\ Len(threads) + NumReplies < MaxPosts
  /\ users' = CountPost(users, a)
  /\ threads' = Append(threads, [id |-> next_thread_id, author |-> a,
                                 reply_count |-> 0, replies |-> <<>>])
  /\ next_thread_id' = next_thread_id + 1
  /\ UNCHANGED <<next_reply_id, pager, restricted>>

\* reply_to_thread on an existing thread (a missing one is a 404 that
\* changes nothing): take the next reply id, push the reply, bump
\* reply_count, count the post.
ReplyToThread(a, i, parent) ==
  /\ Len(threads) + NumReplies < MaxPosts
  /\ next_reply_id' = next_reply_id + 1
  /\ threads' = [threads EXCEPT
                   ![i].reply_count = @ + 1,
                   ![i].replies = Append(@, [id |-> next_reply_id, author |-> a,
                                             parent |-> parent])]
  /\ users' = CountPost(users, a)
  /\ UNCHANGED <<next_thread_id, pager, restricted>>

\* import_user: the verdict of the import policy is returned, not stored.
ImportUser(pp) ==
  /\ restricted' = IF ApplyImportPolicy(pp).can_post THEN restricted
                   ELSE restricted \cup {pp.identity}
  /\ UNCHANGED <<threads, users, next_thread_id, next_reply_id, pager>>

\* list_threads?page=p&per_page=n under the read lock: newest first.
ListThreads ==
  /\ pager.page <= MaxPage
  /\ LET ids == [i \in 1..Len(threads) |-> threads[i].id]
     IN pager' = [page |-> pager.page + 1,
                  seen |-> pager.seen \o P!Paged(Reverse(ids), pager.page, PagerPerPage)]
  /\ UNCHANGED <<threads, users, next_thread_id, next_reply_id, restricted>>

Next ==
  \/ \E a \in Author : CreateThread(a)
  \/ \E a \in Author, i \in DOMAIN threads, parent \in ParentInputs :
       ReplyToThread(a, i, parent)
  \/ \E pp \in Passports : ImportUser(pp)
  \/ ListThreads

Spec == Init /\ [][Next]_vars

-----------------------------------------------------------------------------
(* Properties.                                                             *)

\* Posts of author a: its threads, and its replies in every thread.
PostsBy(a) ==
  Len(SelectSeq(threads, LAMBDA t : t.author = a))
  + FoldSeq(LAMBDA t, acc : acc + Len(SelectSeq(t.replies, LAMBDA r : r.author = a)),
            0, threads)

\* get_profile finds a profile exactly for the identities that have posted,
\* and its post_count is the number of threads and replies they made:
\* create_thread and reply_to_thread both count the post, and
\* get_or_create_user never resets a profile.  A thread keeps as many
\* replies as its reply_count says.
PostCountMatches ==
  /\ \A a \in Author :
       GetProfile(users, a) = IF PostsBy(a) = 0 THEN {} ELSE {PostsBy(a)}
  /\ \A i \in DOMAIN threads : threads[i].reply_count = Len(threads[i].replies)

\* A client paging through /threads never gets a thread twice.
PagesDisjoint ==
  \A i, j \in DOMAIN pager.seen : i < j => pager.seen[i] # pager.seen[j]

\* A reply's parent_id names an earlier reply of the same thread
\* (protocol.rs: "Reply to another reply").
ParentIsEarlierReply ==
  \A i \in DOMAIN threads : \A k \in DOMAIN threads[i].replies :
    LET r == threads[i].replies[k]
    IN r.parent = None \/ \E m \in 1..(k - 1) : threads[i].replies[m].id = r.parent

\* An identity the import policy refused (can_post = false, "must wait for
\* approval") makes no post afterwards.
RestrictedNeverPosts ==
  [][\A a \in restricted :
       (IF a \in DOMAIN users' THEN users'[a] ELSE 0)
         = (IF a \in DOMAIN users THEN users[a] ELSE 0)]_vars
=============================================================================
