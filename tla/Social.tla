------------------------------- MODULE Social -------------------------------
(***************************************************************************)
(* Close friends, polls, stories, reels, lists of users and uploads in     *)
(* chunks (services/social_feature_service.py, user_list_service.py,       *)
(* media_service.py, encrypted_media_service.py and their routes).  The    *)
(* files of an upload are rows too: a chunk is named by its upload and its *)
(* index, and its writer is the request that opened it last.               *)
(***************************************************************************)
EXTENDS Feed

CONSTANTS Chunks      \* the indexes a client cuts an upload into

SocialTables == {"close_friends", "polls", "stories", "short_videos",
                 "verification_requests", "user_lists", "list_members", "uploads",
                 "chunks", "media", "encrypted_media", "answers"}

Poll == [id : Int, born : Nat, owner : Users, votes : SUBSET (Users \X {"yes", "no"}),
         expired : BOOLEAN]
CloseFriend == [id : Int, born : Nat, owner : Users, friend : Users]
UserListMember == [id : Int, born : Nat, list : Int, user : Users]

-----------------------------------------------------------------------------
(* Close friends.                                                           *)

Close(u, w) == {c \in store["close_friends"] : c.owner = u /\ c.friend = w}

add_close_friend(p, u, w) ==
    /\ u # w
    /\ are_friends(u, w)
    /\ Close(u, w) = {}
    /\ Begin(p, << {InsertUnique("close_friends", [id |-> Self, owner |-> u, friend |-> w],
                                 {"owner", "friend"})} >>)

remove_close_friend(p, u, w) == Begin(p, << DeleteAll("close_friends", Close(u, w)) >>)

-----------------------------------------------------------------------------
(* Polls and what is only created.                                          *)

create_poll(p, u) ==
    Begin(p, << {Insert("polls", [id |-> Self, owner |-> u, votes |-> {},
                                  expired |-> FALSE])} >>)

\* Mutant: the votes of the others are dropped.
VoteAlone(p, u, poll, option) ==
    /\ ~poll.expired
    /\ Begin(p, << Edit("polls", poll, [votes |-> {<<u, option>>}])
                   \cup Answer("vote", <<poll.id, u>>) >>)

\* The whole map of the votes is read, changed and written back.
vote_poll(p, u, poll, option) ==
    /\ ~poll.expired
    /\ Begin(p, << Edit("polls", poll,
                        [votes |-> {v \in poll.votes : v[1] # u} \cup {<<u, option>>}])
                   \cup Answer("vote", <<poll.id, u>>) >>)

PollsExpire ==
    \E poll \in store["polls"] :
        /\ ~poll.expired
        /\ store' = [store EXCEPT !["polls"] =
                        (@ \ {poll}) \cup {[poll EXCEPT !.expired = TRUE]}]
        /\ UNCHANGED <<tx, served>>

create_story(p, u, audience) ==
    Begin(p, << {Insert("stories", [id |-> Self, owner |-> u, audience |-> audience])} >>)

\* A reel, or a request to be verified.
create_owned(p, t, u) == Begin(p, << {Insert(t, [id |-> Self, owner |-> u])} >>)

-----------------------------------------------------------------------------
(* Lists of users.                                                          *)

ListMembers(l, w) == {m \in store["list_members"] : m.list = l.id /\ m.user = w}

create_list(p, u) == Begin(p, << {Insert("user_lists", [id |-> Self, owner |-> u])} >>)
delete_list(p, l) == Begin(p, << {Delete("user_lists", l.id)} >>)

add_to_list(p, l, w) ==
    /\ ListMembers(l, w) = {}
    /\ Begin(p, << {Insert("list_members", [id |-> Self, list |-> l.id, user |-> w])} >>)

remove_from_list(p, l, w) == Begin(p, << DeleteAll("list_members", ListMembers(l, w)) >>)

\* Without the feed controls of the reader, who owns the list.
get_list_posts(u, l) ==
    {post \in _visible_post_filter(u, _load_relationships(u)) :
        \E m \in store["list_members"] : m.list = l.id /\ m.user = post.user}

-----------------------------------------------------------------------------
(* Uploads in chunks.                                                       *)

ChunkFiles(i) == {c \in store["chunks"] : c.directory = i}

\* What is read of the files: torn, unless the request that emptied it last
\* has written all of its own and told the client.
ReadChunks(i) ==
    LET whole(c) == \E a \in store["answers"] : a.kind = "chunk" /\ a.id = c.writer
    IN  {Overlay([whole |-> whole(c)], c) : c \in ChunkFiles(i)}

initiate_upload(p) == Begin(p, << {Insert("uploads", [id |-> Self])} >>)

\* Opening the file, in a directory that must still be there, empties what an
\* earlier request wrote to it, finished or not; a file that is gone by the
\* time all of it is written takes the bytes with it, and the client is told ok.
upload_chunk(p, i, c) ==
    \E u \in store["uploads"] :
        /\ u.id = i
        /\ Begin(p, << Put("chunks", [id |-> <<i, c>>, directory |-> i, chunk |-> c,
                                      writer |-> Self]),
                       Answer("chunk", <<i, c>>) >>)

\* Mutant: the first index is skipped.
AssembleFromOne(i) ==
    {Insert("media", [id |-> Self, upload |-> i,
                      parts |-> {c \in ReadChunks(i) : c.chunk > 0}])}
    \cup {Delete("uploads", i)}

\* Whatever chunks are there make the file, none of them counted, and the
\* directory goes.
assemble_chunks(i) ==
    {Insert("media", [id |-> Self, upload |-> i, parts |-> ReadChunks(i)])}
    \cup {Delete("uploads", i)}

\* Encrypted media is flushed, the file deleted, and only then committed.
complete_upload(p, i, encrypt) ==
    /\ \E u \in store["uploads"] : u.id = i
    /\ Begin(p, << assemble_chunks(i) >>
                \o (IF encrypt THEN << {Delete("media", Self)},
                                       {Insert("encrypted_media", [id |-> Self])} >>
                    ELSE <<>>))

-----------------------------------------------------------------------------
(* Routes.                                                                  *)

add_close(p) == \E u, w \in Users : add_close_friend(p, u, w)
remove_close(p) == \E u, w \in Users : Close(u, w) # {} /\ remove_close_friend(p, u, w)
create_poll_route(p) == \E u \in Users : create_poll(p, u)
vote(p) ==
    \E u \in Users, poll \in store["polls"], option \in {"yes", "no"} :
        vote_poll(p, u, poll, option)
create_story_route(p) ==
    \E u \in Users, audience \in {"public", "friends", "close_friends"} :
        create_story(p, u, audience)
create_reel_or_request(p) ==
    \E u \in Users, t \in {"short_videos", "verification_requests"} : create_owned(p, t, u)

create_list_route(p) == \E u \in Users : create_list(p, u)
delete_list_route(p) == \E l \in store["user_lists"] : delete_list(p, l)
add_list_member(p) == \E l \in store["user_lists"], w \in Users : add_to_list(p, l, w)
remove_list_member(p) == \E l \in store["user_lists"], w \in Users : remove_from_list(p, l, w)

PollRoutes(p) ==
    \/ create_poll_route(p)
    \/ vote(p)

SocialRoutes(p) ==
    \/ add_close(p)
    \/ remove_close(p)
    \/ create_story_route(p)
    \/ create_reel_or_request(p)
    \/ create_list_route(p)
    \/ delete_list_route(p)
    \/ add_list_member(p)
    \/ remove_list_member(p)

Uploads == {u.id : u \in store["uploads"]}

UploadRoutes(p) ==
    \/ initiate_upload(p)
    \/ \E i \in Uploads, c \in Chunks : upload_chunk(p, i, c)
    \/ \E i \in Uploads, encrypt \in BOOLEAN : complete_upload(p, i, encrypt)

-----------------------------------------------------------------------------
(* Properties.                                                              *)

\* A vote the poll has confirmed counts, unless another vote on the same poll
\* was in flight with it and wrote the map it had read before
\* (social_feature_service.py:109, 116).
VotesLostOnlyTogether ==
    \A a \in store["answers"] : \A poll \in store["polls"] :
        a.kind = "vote" /\ a.about[1] = poll.id =>
            \/ \E v \in poll.votes : v[1] = a.about[2]
            \/ \E b \in store["answers"] :
                  /\ b # a /\ b.kind = "vote" /\ b.about[1] = poll.id
                  /\ Overlapped(a, b)

\* A chunk that was confirmed before its upload was completed is whole in the
\* file, unless another request had opened the same chunk again and
\* not finished it (media_routes.py:44, media_service.py:28).
FilesHoldTheirChunks ==
    \A f \in store["media"] : \A a \in store["answers"] :
        a.kind = "chunk" /\ a.about[1] = f.upload /\ a.born < f.id =>
            \E part \in f.parts : /\ part.chunk = a.about[2]
                                  /\ part.whole \/ part.writer # a.id

\* What the feeds, a search by hashtag and a list of users show a user, the
\* user may also open: the filter of the feed queries agrees with
\* can_view_post, but for three gaps of the code: a user's own posts, the
\* author who blocks the reader, and the relations a cache entry has kept
\* (feed_service.py:80, privacy.py:30, 42).
FeedShowsWhatCanBeOpened ==
    \A u \in Users :
        LET tagged == UNION {get_posts_by_hashtag(u, tag) : tag \in UNION Contents}
            listed == UNION {get_list_posts(u, l) :
                                l \in {x \in store["user_lists"] : x.owner = u}}
        IN  \A post \in get_feed(u) \cup get_recommendations(u) \cup tagged \cup listed :
               \/ post.user = u
               \/ can_view_post(Str(u), u, post)
               \/ FromTo("blocks", post.user, u) # {}
               \/ _load_relationships(u) # RelationsOf(u)
=============================================================================
