----------------------------- MODULE Relations ------------------------------
(***************************************************************************)
(* Friend requests, follows and blocks (services/friend_service.py,        *)
(* follow_service.py, block_service.py and their routes), with the cache   *)
(* of a user's relations that feed_service.py fills and these services     *)
(* invalidate.  None of the three tables has a unique constraint on its    *)
(* pair, so whether a row is there is only checked before it is inserted.  *)
(***************************************************************************)
EXTENDS UnitOfWork

RelationTables == {"friends", "followers", "blocks", "relations_cache",
                   "notifications", "pushed"}

FriendRequestStatus == {"pending", "accepted", "declined"}

FriendRequest == [id : Int, born : Nat, from : Users, to : Users,
                  status : FriendRequestStatus]
Follower      == [id : Int, born : Nat, from : Users, to : Users]
Block         == [id : Int, born : Nat, from : Users, to : Users]

-----------------------------------------------------------------------------
(* Queries.                                                                 *)

Between(t, u, w) ==
    {r \in store[t] : <<r.from, r.to>> \in {<<u, w>>, <<w, u>>}}

FromTo(t, u, w) == {r \in store[t] : r.from = u /\ r.to = w}

\* scalar_one_or_none: with two rows the query raises and the request ends,
\* which refuses what a block refuses.
are_blocked(u, w) == Between("blocks", u, w) # {}

are_friends(u, w) ==
    /\ ~are_blocked(u, w)
    /\ Cardinality({r \in Between("friends", u, w) : r.status = "accepted"}) = 1

-----------------------------------------------------------------------------
(* What the services do after their commit.                                 *)

\* Mutant: only the one who asked is invalidated.
InvalidateOwn(u, w) == << {Delete("relations_cache", u)} >>

invalidate(u, w) ==
    << {Delete("relations_cache", u)}, {Delete("relations_cache", w)} >>

\* The event is dispatched, and pushed to the user, in the transaction that
\* the end of the request commits.
push(u, kind) == Insert("pushed", [id |-> Self, to |-> u, kind |-> kind])
notify(u, kind, actor) ==
    Insert("notifications", [id |-> Self, to |-> u, kind |-> kind, actor |-> actor,
                             is_read |-> FALSE])
create_notification(u, kind, actor) == << {push(u, kind)}, {notify(u, kind, actor)} >>

-----------------------------------------------------------------------------
(* Friend requests.                                                         *)

\* Mutant: a request from the other side is not looked for.
SendUnlessSent(p, u, w) ==
    /\ u # w
    /\ ~are_blocked(u, w)
    /\ FromTo("friends", u, w) = {}
    /\ Begin(p, << {Insert("friends", [id |-> Self, from |-> u, to |-> w,
                                       status |-> "pending"])} >>)

send_friend_request(p, u, w) ==
    /\ u # w
    /\ ~are_blocked(u, w)
    /\ \/ /\ Between("friends", u, w) = {}
          /\ Begin(p, << {Insert("friends", [id |-> Self, from |-> u, to |-> w,
                                             status |-> "pending"])} >>
                      \o create_notification(w, "friend_request", u))
       \/ \E r \in FromTo("friends", u, w) :
             /\ Between("friends", u, w) = {r}
             /\ r.status = "declined"
             /\ Begin(p, << {Update("friends", r.id, [status |-> "pending"])} >>)

respond_to_friend_request(p, u, r, answer) ==
    /\ r.to = u
    /\ r.status = "pending"
    /\ ~are_blocked(r.from, r.to)
    /\ Begin(p, << {Update("friends", r.id, [status |-> answer])},
                   {Later("refresh", [id |-> Self, request |-> r.id])} >>)

\* The handler reads the request back, and goes on by the status it finds.
Responded(p) ==
    /\ tx[p] # <<>>
    /\ \E w \in Head(tx[p]) :
          /\ w.op = "refresh"
          /\ \E r \in store["friends"] :
                /\ r.id = w.row.request
                /\ Resolve(p, (IF r.status = "accepted" THEN invalidate(r.from, r.to)
                               ELSE <<>>)
                              \o By(w.row.id, create_notification(r.from, r.status, r.to)))

-----------------------------------------------------------------------------
(* Follows.                                                                 *)

follow_user(p, u, w) ==
    /\ u # w
    /\ ~are_blocked(u, w)
    /\ FromTo("followers", u, w) = {}
    /\ Begin(p, << {Insert("followers", [id |-> Self, from |-> u, to |-> w])} >>
                \o invalidate(u, w) \o create_notification(w, "follow", u))

unfollow_user(p, u, w) ==
    Begin(p, << DeleteAll("followers", FromTo("followers", u, w)) >>
             \o invalidate(u, w))

-----------------------------------------------------------------------------
(* Blocks.                                                                  *)

\* Mutant: the follow of the one who blocks is kept.
BlockKeepsFollow(p, u, w) ==
    /\ u # w
    /\ FromTo("blocks", u, w) = {}
    /\ Begin(p, << {Insert("blocks", [id |-> Self, from |-> u, to |-> w])}
                   \cup DeleteAll("friends", Between("friends", u, w))
                   \cup DeleteAll("followers", FromTo("followers", w, u)) >>
                \o invalidate(u, w))

block_user(p, u, w) ==
    /\ u # w
    /\ FromTo("blocks", u, w) = {}
    /\ Begin(p, << {Insert("blocks", [id |-> Self, from |-> u, to |-> w])}
                   \cup DeleteAll("friends", Between("friends", u, w))
                   \cup DeleteAll("followers", Between("followers", u, w)) >>
                \o invalidate(u, w))

unblock_user(p, u, w) ==
    Begin(p, << DeleteAll("blocks", FromTo("blocks", u, w)) >>
             \o invalidate(u, w))

-----------------------------------------------------------------------------
(* The cache of relations.                                                  *)

\* What the three selects return.
RelationsOf(u) ==
    [friends   |-> {w \in Users \ {u} : \E r \in Between("friends", u, w) :
                                            r.status = "accepted"},
     following |-> {w \in Users : FromTo("followers", u, w) # {}},
     blocked   |-> {w \in Users : FromTo("blocks", u, w) # {}}]

Cached(u) == {c \in store["relations_cache"] : c.id = u}

\* The reader of a feed fills the cache when it finds nothing there.
load_relationships(u) ==
    IF Cached(u) = {}
    THEN << Put("relations_cache", [id |-> u, relations |-> RelationsOf(u)]) >>
    ELSE <<>>

\* CACHE_TTL_SECONDS have passed.
ExpireRelations ==
    \E u \in Users :
        /\ Cached(u) # {}
        /\ store' = [store EXCEPT !["relations_cache"] = @ \ Cached(u)]
        /\ UNCHANGED <<tx, served>>

-----------------------------------------------------------------------------
(* Routes: the authenticated user of a request is any user.                 *)

create_friend_request(p) == \E u, w \in Users : send_friend_request(p, u, w)

respond_friend_request(p) ==
    \E u \in Users : \E r \in store["friends"] :
        \E answer \in {"accepted", "declined"} :
            respond_to_friend_request(p, u, r, answer)

follow(p) == \E u, w \in Users : follow_user(p, u, w)
unfollow(p) ==
    \E u, w \in Users : FromTo("followers", u, w) # {} /\ unfollow_user(p, u, w)
block(p) == \E u, w \in Users : block_user(p, u, w)
unblock(p) ==
    \E u, w \in Users : FromTo("blocks", u, w) # {} /\ unblock_user(p, u, w)

RelationRoutes(p) ==
    \/ create_friend_request(p)
    \/ respond_friend_request(p)
    \/ follow(p)
    \/ unfollow(p)
    \/ block(p)
    \/ unblock(p)

-----------------------------------------------------------------------------
(* Properties.                                                              *)

\* A block severs: no friend request and no follow lies between two users
\* one of whom blocks the other, except one whose insert and the block were
\* in flight together (friend_service.py:34 and follow_service.py:32 check,
\* block_service.py:81 deletes, and nothing locks).
BlockSevers ==
    \A b \in store["blocks"] :
        \A t \in {"friends", "followers"} :
            \A r \in Between(t, b.from, b.to) : Overlapped(r, b)

\* Two rows for one pair, which make every later scalar_one_or_none raise,
\* come from two requests in flight together and from nothing else.
PairsDoubledOnlyTogether ==
    /\ \A r, s \in store["friends"] :
          r # s /\ s \in Between("friends", r.from, r.to) => Overlapped(r, s)
    /\ \A t \in {"followers", "blocks"} : \A r, s \in store[t] :
          r # s /\ s \in FromTo(t, r.from, r.to) => Overlapped(r, s)

\* A friendship, once accepted, was answered again: the second of two
\* answers that both read the request as pending, or a repeated request.
Overwritten(u) ==
    \E r \in store["friends"] :
        /\ r.status = "accepted" /\ u \in {r.from, r.to}
        /\ \E s \in store'["friends"] : s.id = r.id /\ s.status # "accepted"

\* A request that has answered for u is about to read the answer back as one
\* that invalidates.
AcceptedByNow(u) ==
    \E r \in store["friends"] :
        /\ r.status = "accepted" /\ u \in {r.from, r.to}
        /\ \E p \in Workers : \E i \in DOMAIN tx[p] : \E w \in tx[p][i] :
              w.op = "refresh" /\ w.row.request = r.id

\* Every commit that changes what the cache of a user's relations would hold
\* leaves the deletion of that key behind it, in the same request: no service
\* forgets one of the two users.  A feed that read before the commit may still
\* fill the cache after the deletion (feed_service.py:69): what it stores then
\* stays until the TTL, and is not what this property is about.
ChangesInvalidate ==
    [][\A u \in Users :
          RelationsOf(u)' # RelationsOf(u) =>
              \/ Overwritten(u)
              \/ Pending(Delete("relations_cache", u))'
              \/ AcceptedByNow(u)']_requestVars
=============================================================================
