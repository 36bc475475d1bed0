------------------------------ MODULE Backend -------------------------------
(***************************************************************************)
(* The request handlers of the backend over one database.  A behaviour is  *)
(* about one scene: the families of routes its clients use, over the rows  *)
(* that earlier requests left, and a bound on their requests.              *)
(***************************************************************************)
EXTENDS Messages, Groups, Sessions, Social, Accounts, Catalog

CONSTANTS Scenes      \* records: families of routes, bound on the requests

ASSUME TablesAssumption ==
    RelationTables \cup ModerationTables \cup ChatTables \cup FeedTables \cup GroupTables
    \cup SessionTables \cup SocialTables \cup CatalogTables \subseteq Tables

VARIABLE scene        \* what this behaviour is about

vars == <<requestVars, scene>>

-----------------------------------------------------------------------------
(* The tables that other models read hold rows of the models' columns, and  *)
(* a batch holds writes of the known tables.                                *)

RowTypes == [users |-> User, friends |-> FriendRequest, followers |-> Follower,
             blocks |-> Block, messages |-> Message, posts |-> Post,
             groups |-> Group, group_members |-> GroupMember,
             group_messages |-> GroupMessage, sessions |-> UserSession,
             csrf_tokens |-> CSRFToken, mfa_setups |-> MFASetup, polls |-> Poll,
             close_friends |-> CloseFriend, list_members |-> UserListMember,
             live_streams |-> LiveStream, audit_reviews |-> AuditReview,
             reports |-> Report]

TypeOK ==
    /\ served \in 0..scene.requests
    /\ \A t \in DOMAIN RowTypes : \A r \in store[t] : r \in RowTypes[t]
    /\ \A p \in Workers : \A i \in DOMAIN tx[p] : \A w \in tx[p][i] :
          /\ w.op \in Writes \cup {"refresh", "log_event", "untoggle"}
          /\ w.on \in Tables \cup {"handler"}
          /\ "id" \in DOMAIN w.row

-----------------------------------------------------------------------------
(* What earlier requests left: the accounts and, where a scene needs some   *)
(* to begin with, rows of u.  No id of theirs is one of a request to come.  *)

Accounts(suspended) ==
    {[id |-> u, born |-> 0, is_suspended |-> u \in suspended,
      suspended_until |-> IF u \in suspended THEN "later" ELSE None,
      is_muted |-> FALSE, muted_until |-> None, is_shadow_banned |-> FALSE,
      phone |-> {}] : u \in Users}

APost(u, i, v) == [id |-> i, born |-> 0, user |-> u, content |-> {}, visibility |-> v]

AGroup(u, type) ==
    [id |-> 0, born |-> 0, type |-> type, created_by |-> u, announcement_only |-> FALSE,
     verification |-> None]

Rows(u, w) ==
    [users     |-> IF "accounts" \in scene.routes THEN {}
                   ELSE Accounts(IF "decisions" \in scene.routes THEN {w} ELSE {}),
     reports   |-> {[id |-> 0, born |-> 0, reporter |-> u, type |-> "users",
                     target |-> w, status |-> "open"],
                    [id |-> -1, born |-> 0, reporter |-> u, type |-> "users",
                     target |-> w, status |-> "open"]},
     messages  |-> {Overlay([id |-> 0, born |-> 0], NewMessage(u, w))},
     galleries |-> {[id |-> 0, born |-> 0, members |-> {u, w}, creator |-> u,
                     media_count |-> 0]},
     posts     |-> {APost(u, 0, "public")}
                   \cup (IF "relations" \in scene.routes
                         THEN {APost(u, -1, "friends"), APost(u, -2, "followers"),
                               APost(u, -3, "custom")}
                         ELSE {}),
     user_lists   |-> {[id |-> 0, born |-> 0, owner |-> w]},
     list_members |-> {[id |-> 0, born |-> 0, list |-> 0, user |-> u]},
     feed_controls |-> {Overlay(NewControls(x), [born |-> 0]) : x \in Users},
     sessions  |-> {[id |-> 0, born |-> 0, user |-> u, device |-> d, refresh_token |-> 0,
                     status |-> "active", expired |-> FALSE] : d \in {CHOOSE d \in Devices : TRUE}},
     groups    |-> {AGroup(u, "anonymous")},
     group_members |-> {[id |-> <<u, 0>>, born |-> 0, since |-> 0, group |-> 0, user |-> u,
                         role |-> "admin", status |-> "active", alias |-> TRUE,
                         invited_by |-> None]},
     friends   |-> {[id |-> 0, born |-> 0, from |-> u, to |-> w, status |-> "accepted"]},
     polls     |-> {[id |-> 0, born |-> 0, owner |-> u, votes |-> {}, expired |-> FALSE]},
     uploads   |-> {[id |-> 0, born |-> 0]}]

\* The tables each family begins with, beside the accounts.
Seeded == [relations  |-> {"posts", "feed_controls", "user_lists", "list_members"},
           moderation |-> {"posts"},
           decisions  |-> {"reports"},
           messages   |-> {"messages"},
           blocks     |-> {},
           extras     |-> {"messages", "galleries"},
           posts      |-> {},
           marks      |-> {"posts"},
           members    |-> {},
           groups     |-> {"groups", "group_members"},
           sessions   |-> {"sessions"},
           tokens     |-> {},
           polls      |-> {"polls"},
           social     |-> {"friends"},
           uploads    |-> {"uploads"},
           accounts   |-> {},
           catalog    |-> {}]

ASSUME ScenesAssumption ==
    \A s \in Scenes : s.routes \subseteq DOMAIN Seeded /\ s.requests \in Nat
ASSUME DevicesAssumption == Devices # {}

\* A text may have no findings.
ASSUME ContentsAssumption == {} \in Contents

Init ==
    /\ scene \in Scenes
    /\ served = 0
    /\ \E u, w \in Users :
          /\ u # w
          /\ store = [t \in Tables |->
                IF t = "users" \/ \E f \in scene.routes : t \in Seeded[f]
                THEN Rows(u, w)[t] ELSE {}]
    /\ tx = [p \in Workers |-> <<>>]

Request(p) ==
    /\ served < scene.requests
    /\ \/ "relations" \in scene.routes /\ (RelationRoutes(p) \/ read_feed(p))
       \/ "moderation" \in scene.routes /\ ModerationRoutes(p)
       \/ "decisions" \in scene.routes /\ resolve_report_route(p)
       \/ "messages" \in scene.routes /\ ChatRoutes(p)
       \/ "blocks" \in scene.routes /\ block(p)
       \/ "extras" \in scene.routes /\ ChatExtraRoutes(p)
       \/ "posts" \in scene.routes /\ PostRoutes(p)
       \/ "marks" \in scene.routes /\ MarkRoutes(p)
       \/ "members" \in scene.routes /\ MemberRoutes(p)
       \/ "groups" \in scene.routes /\ (GroupRoutes(p) \/ MemberRoutes(p))
       \/ "sessions" \in scene.routes /\ SessionRoutes(p)
       \/ "tokens" \in scene.routes /\ TokenRoutes(p)
       \/ "polls" \in scene.routes /\ PollRoutes(p)
       \/ "social" \in scene.routes /\ SocialRoutes(p)
       \/ "uploads" \in scene.routes /\ UploadRoutes(p)
       \/ "accounts" \in scene.routes /\ AccountRoutes(p)
       \/ "catalog" \in scene.routes /\ CatalogRoutes(p)

Next ==
    /\ \/ \E p \in Workers : Request(p) \/ Responded(p) \/ FeedSteps(p) \/ Commit(p) \/ Abandon(p)
       \/ ExpireRelations
       \/ TermsEnd
       \/ TokensExpire
       \/ PollsExpire
    /\ UNCHANGED scene

Spec == Init /\ [][Next]_vars
=============================================================================
