--------------------------- MODULE MicroblogServer --------------------------
(***************************************************************************)
(* The microblog example (src/examples/microblog/src/server.rs): axum      *)
(* handlers over one ServerState behind a tokio RwLock.  The writing       *)
(* handlers hold the write lock for their whole body with no await inside, *)
(* so each is one atomic action.  A post is its id; texts, timestamps and  *)
(* the server's own identity are left out.  A follower on another server   *)
(* polls GET /timeline, as the "visit, don't replicate" model intends.     *)
(***************************************************************************)
EXTENDS Integers, Sequences, SequencesExt

CONSTANTS
  Target,        \* identities a Follow or Unfollow may name
  TimelineCap,   \* get_timeline returns this many posts (20)
  MaxPosts       \* bound on posts

ASSUME TimelineCap \in Nat \ {0} /\ MaxPosts \in Nat

VARIABLES
  posts,       \* ServerState.posts, as ids
  following,   \* ServerState.following
  next_id,     \* ServerState.next_id
  seen         \* ids the polling follower has been shown

vars == <<posts, following, next_id, seen>>

\* get_timeline: posts.iter().rev().take(20)
Timeline(ps) ==
  LET r == Reverse(ps) IN SubSeq(r, 1, IF Len(r) < TimelineCap THEN Len(r) ELSE TimelineCap)

Init ==
  /\ posts = <<>>
  /\ following = {}
  /\ next_id = 1
  /\ seen = {}

\* create_post: the post takes next_id, next_id advances, the post is pushed.
CreatePost ==
  /\ Len(posts) < MaxPosts
  /\ posts' = Append(posts, next_id)
  /\ next_id' = next_id + 1
  /\ UNCHANGED <<following, seen>>

\* follow_user: following.insert(target)
FollowUser(t) ==
  /\ following' = following \cup {t}
  /\ UNCHANGED <<posts, next_id, seen>>

\* unfollow_user: following.remove(&target)
UnfollowUser(t) ==
  /\ following' = following \ {t}
  /\ UNCHANGED <<posts, next_id, seen>>

\* The follower fetches GET /timeline under the read lock.
PollTimeline ==
  /\ seen' = seen \cup ToSet(Timeline(posts))
  /\ UNCHANGED <<posts, following, next_id>>

Next ==
  \/ CreatePost
  \/ \E t \in Target : FollowUser(t) \/ UnfollowUser(t)
  \/ PollTimeline

Spec == Init /\ [][Next]_vars

-----------------------------------------------------------------------------
\* A follower that polls the timeline is shown every post: a post leaves
\* the window of get_timeline only after the follower has seen it.
NoPostMissed == \A i \in DOMAIN posts : posts[i] \in seen \/ Contains(Timeline(posts), posts[i])
=============================================================================
