-------------------------------- MODULE Feed --------------------------------
(***************************************************************************)
(* Posts, what their readers do with them, the hash chain of feed events   *)
(* and the feeds (services/post_service.py, post_like_service.py,          *)
(* post_repost_service.py, post_comment_service.py, feed_service.py,       *)
(* feed_event_chain_service.py, user_feed_control_service.py,              *)
(* utils/privacy.py and routes/post_routes.py).  A feed is the set of the  *)
(* posts it may show: its order and the length of its pages are left out.  *)
(***************************************************************************)
EXTENDS Moderation

FeedTables == {"posts", "likes", "reposts", "comments", "events", "feed_controls"}

PostVisibility == {"public", "friends", "followers", "custom"}
Post == [id : Int, born : Nat, user : Users, content : Contents,
         visibility : PostVisibility]

-----------------------------------------------------------------------------
(* The chain of feed events.  An event is hashed with the hash of the last  *)
(* one, so <<id, at>> stands for its hash; at orders the timestamps, and    *)
(* events whose reads of the chain overlap may come in either order.        *)

Hash(e) == <<e.id, e.at>>
Latest == {e \in store["events"] : \A f \in store["events"] : f.at <= e.at}

\* Mutant: an event that is not linked to the last one.
LogUnlinked(i) == {Insert("events", [id |-> i, at |-> Cardinality(store["events"]) + 1,
                                     previous |-> <<>>])}

\* The events request i may append to the chain it reads now.
log_event(i) ==
    {Insert("events", e) :
        e \in IF Latest = {} THEN {[id |-> i, at |-> 1, previous |-> <<>>]}
              ELSE {[id |-> i, at |-> last.at + 1, previous |-> Hash(last)] :
                        last \in Latest}}

LogLater == Later("log_event", [id |-> Self])

\* The handler reads the end of the chain.
LogEvent(p) ==
    /\ tx[p] # <<>>
    /\ \E w \in Head(tx[p]) :
          /\ w.op = "log_event"
          /\ \E event \in log_event(w.row.id) :
                Resolve(p, << (Head(tx[p]) \ {w}) \cup {event} >>)

verify_chain ==
    \A e \in store["events"] :
        LET before == {f \in store["events"] \ {e} : f.at <= e.at}
        IN  IF before = {} THEN e.previous = <<>>
            ELSE \E f \in before : /\ f.at < e.at /\ e.previous = Hash(f)
                                   /\ \A g \in before : g.at < f.at \/ g = f

-----------------------------------------------------------------------------
(* Posts.                                                                   *)

create_post(p, u, content, visibility) ==
    /\ validate_content_with_ai(content)
    /\ \E event \in log_event(Self) :
          Begin(p, << analyze_content(content)
                      \cup {Insert("posts", [id |-> Self, user |-> u, content |-> content,
                                             visibility |-> visibility]), event} >>)

update_post(p, post, content, visibility) ==
    \E event \in log_event(Self) :
        Begin(p, << Edit("posts", post, [content |-> content, visibility |-> visibility])
                    \cup {event} >>)

delete_post(p, post) ==
    \E event \in log_event(Self) : Begin(p, << {Delete("posts", post.id), event} >>)

-----------------------------------------------------------------------------
(* Likes, reposts and comments: u acts on post.                             *)

\* The owner hears of it in the transaction the event commits.
Announced(post, u, kind) ==
    IF post.user = u THEN << {LogLater} >>
    ELSE << {push(post.user, kind)}, {notify(post.user, kind, u), LogLater} >>

Marks(t, u, i) == {l \in store[t] : l.user = u /\ l.post = i}
get_user_like_state(i, u) == Marks("likes", u, i) # {}

Mark(t, u, post) ==
    InsertUnique(t, [id |-> Self, post |-> post.id, user |-> u], {"post", "user"})

toggle_like(u, post) ==
    IF get_user_like_state(post.id, u)
    THEN << DeleteAll("likes", Marks("likes", u, post.id)), {LogLater} >>
    ELSE << {Mark("likes", u, post)} >> \o Announced(post, u, "post_like")

toggle_repost(u, post) ==
    IF Marks("reposts", u, post.id) # {}
    THEN << DeleteAll("reposts", Marks("reposts", u, post.id)), {LogLater} >>
    ELSE << {Mark("reposts", u, post)} >> \o Announced(post, u, "post_repost")

create_comment(p, u, post, content) ==
    Begin(p, << {Insert("comments", [id |-> Self, post |-> post.id, user |-> u,
                                     content |-> content])} >>
             \o Announced(post, u, "post_comment"))

-----------------------------------------------------------------------------
(* Who may open a post.                                                     *)

\* viewer is u as the route passes it: a string, which the comparison with
\* the author's id does not match, and which the queries convert.
can_view_post(viewer, u, post) ==
    /\ FromTo("blocks", post.user, u) = {}
    /\ \/ post.user = viewer
       \/ post.visibility = "public"
       \/ /\ post.visibility = "friends"
          /\ \E r \in Between("friends", u, post.user) : r.status = "accepted"
       \/ post.visibility = "followers" /\ FromTo("followers", u, post.user) # {}

-----------------------------------------------------------------------------
(* Feeds.                                                                   *)

NewControls(u) == [id |-> u, muted_words |-> {}, sensitive_content_hidden |-> TRUE]
Controls(u) == {c \in store["feed_controls"] : c.id = u}

\* The row is made by the first to ask for it.
get_controls(u) ==
    IF Controls(u) = {} THEN << {InsertUnique("feed_controls", NewControls(u), {"id"})} >>
    ELSE <<>>

ControlsOf(u) == IF Controls(u) = {} THEN NewControls(u)
                 ELSE CHOOSE c \in Controls(u) : TRUE

update_controls(p, u, muted, hidden) ==
    Begin(p, get_controls(u)
             \o << Edit("feed_controls", ControlsOf(u),
                        [muted_words |-> muted, sensitive_content_hidden |-> hidden]) >>)

\* The relations as a feed has them: the cached ones while there are any.
_load_relationships(u) ==
    IF Cached(u) = {} THEN RelationsOf(u) ELSE (CHOOSE c \in Cached(u) : TRUE).relations

\* Mutant: friends are shown posts of every visibility.
VisibleToFriends(u, relations) ==
    {post \in store["posts"] :
        /\ post.user \notin relations.blocked
        /\ \/ post.user \in relations.friends \cup {u}
           \/ post.visibility = "public"}

_visible_post_filter(u, relations) ==
    {post \in store["posts"] :
        /\ post.user \notin relations.blocked
        /\ \/ post.user = u
           \/ post.user \in relations.friends /\ post.visibility \in {"friends", "public"}
           \/ post.user \in relations.following /\ post.visibility \in {"followers", "public"}
           \/ post.visibility = "public"}

_apply_feed_controls_filter(posts, u) ==
    {post \in posts :
        /\ post.content \cap ControlsOf(u).muted_words = {}
        /\ ControlsOf(u).sensitive_content_hidden => "nsfw" \notin post.content}

\* The feed, ranked, by trend, or what a search finds in it.
get_feed(u) ==
    _apply_feed_controls_filter(_visible_post_filter(u, _load_relationships(u)), u)

\* Recommended or to explore.
get_recommendations(u) ==
    _apply_feed_controls_filter(
        {post \in store["posts"] :
            /\ post.visibility = "public" /\ post.user # u
            /\ post.user \notin _load_relationships(u).blocked}, u)

\* A hashtag is in a text as a finding of its analysis is.
get_posts_by_hashtag(u, tag) == {post \in get_feed(u) : tag \in post.content}

-----------------------------------------------------------------------------
(* Routes.  Liking, reposting and commenting ask for no visibility.         *)

create_post_route(p) ==
    \E u \in Users, content \in Contents, visibility \in PostVisibility :
        create_post(p, u, content, visibility)

update_post_route(p) ==
    \E post \in store["posts"], content \in Contents, visibility \in PostVisibility :
        update_post(p, post, content, visibility)

delete_post_route(p) == \E post \in store["posts"] : delete_post(p, post)

like_post(p) ==
    \E u \in Users, post \in store["posts"] : Begin(p, toggle_like(u, post))

repost_post(p) ==
    \E u \in Users, post \in store["posts"] : Begin(p, toggle_repost(u, post))

\* One toggle, and a second one if the first has left a mark.
Untoggle(t, post, u) == Later("untoggle", [id |-> Self, table |-> t, post |-> post.id,
                                           user |-> u])

unlike_post(p) ==
    \E u \in Users, post \in store["posts"] :
        Begin(p, toggle_like(u, post) \o << {Untoggle("likes", post, u)} >>)

unrepost_post(p) ==
    \E u \in Users, post \in store["posts"] :
        Begin(p, toggle_repost(u, post) \o << {Untoggle("reposts", post, u)} >>)

ToggleAgain(p) ==
    /\ tx[p] # <<>>
    /\ \E w \in Head(tx[p]) :
          /\ w.op = "untoggle"
          /\ LET marks == Marks(w.row.table, w.row.user, w.row.post)
             IN  Resolve(p, IF marks = {} THEN <<>>
                            ELSE << DeleteAll(w.row.table, marks),
                                    {Later("log_event", [id |-> w.row.id])} >>)

create_comment_route(p) ==
    \E u \in Users, post \in store["posts"], content \in Contents :
        create_comment(p, u, post, content)

read_feed(p) ==
    \E u \in Users :
        \/ Begin(p, load_relationships(u) \o get_controls(u))
        \/ Begin(p, load_relationships(u))

update_user_feed_settings(p) ==
    \E u \in Users, muted \in Contents, hidden \in BOOLEAN :
        update_controls(p, u, muted, hidden)

PostRoutes(p) ==
    \/ create_post_route(p)
    \/ update_post_route(p)
    \/ delete_post_route(p)
    \/ create_comment_route(p)
    \/ update_user_feed_settings(p)

MarkRoutes(p) ==
    \/ like_post(p)
    \/ unlike_post(p)
    \/ repost_post(p)
    \/ unrepost_post(p)

FeedSteps(p) == LogEvent(p) \/ ToggleAgain(p)

-----------------------------------------------------------------------------
(* Properties.                                                              *)

\* The chain of events verifies unless two events hang on the same one, and
\* then the requests that appended them overlapped: nothing locks the end of
\* the chain between its read and the commit
\* (feed_event_chain_service.py:22, 54).
ChainForksOnlyTogether ==
    \/ verify_chain
    \/ \E e, f \in store["events"] :
          e # f /\ e.previous = f.previous /\ Overlapped(e, f)
=============================================================================
