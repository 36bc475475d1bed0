--------------------------- MODULE Backend_proofs ---------------------------
(***************************************************************************)
(* Proofs about Backend, for any number of workers, users and requests and *)
(* any families of routes at once: the types of the tables and what every  *)
(* handler may leave open.  The properties of the tables are proved from   *)
(* these in BackendSafety_proofs.                                          *)
(***************************************************************************)
EXTENDS Backend, UnitOfWork_proofs

-----------------------------------------------------------------------------
(* What a handler may write.                                                *)

\* Tables whose rows have another key than a number.
Keyed == {"users", "group_members", "relations_cache", "feed_controls", "chunks"}

\* A row inserted, or a change of a row, is one of the model's columns.
Typed(w) ==
    w.on \in DOMAIN RowTypes =>
        /\ w.op = "insert" =>
              \A n \in Nat : Overlay(w.row, [born |-> n]) \in RowTypes[w.on]
        /\ w.op \in {"update", "patch"} =>
              \A r \in RowTypes[w.on] :
                  r.id = w.row.id => Overlay(w.row, r) \in RowTypes[w.on]

\* Accounts, reports, decisions and notifications are not deleted; a decision
\* stays what it is, and of a notification only whether it was read changes.
Lasting == {"users", "reports", "moderation_actions", "notifications"}

Lasts(w) ==
    /\ w.on \in Lasting => w.op # "delete"
    /\ w.on = "moderation_actions" => w.op = "insert"
    /\ w.on = "notifications" =>
          \/ w.op = "insert" /\ DOMAIN w.row \cap DOMAIN Parent = {}
          \/ w.op = "patch" /\ DOMAIN w.row = {"id", "is_read"}

\* A write of a request that began as number n or before.
Sound(w, n) ==
    /\ w.op \in Writes \cup {"refresh", "log_event", "untoggle"}
    /\ "id" \in DOMAIN w.row
    /\ w.op \notin Writes => w.on = "handler" /\ w.row.id \in Int /\ w.row.id <= n
    /\ w.op = "untoggle" => w.row.table \in {"likes", "reposts"}
    /\ w.op = "insert" /\ w.on \notin Keyed => w.row.id \in Int /\ w.row.id <= n
    /\ w.op \in {"insert", "update", "patch"} => "born" \notin DOMAIN w.row
    /\ Typed(w) /\ Lasts(w)

Ok(batch, T, n) == \A w \in batch : w.on \in T /\ Sound(w, n)

AllOk(batches, T, n) ==
    /\ \E S : batches \in Seq(S)
    /\ \A i \in DOMAIN batches : Ok(batches[i], T, n)

\* A route of this family begins a request that writes to these tables.
Opens(p, T) ==
    \E batches : Begin(p, batches) /\ AllOk(batches, T, Self)

LEMMA OkUnion ==
    ASSUME NEW A, NEW B, NEW T, NEW n, Ok(A, T, n), Ok(B, T, n)
    PROVE  Ok(A \cup B, T, n)
BY DEF Ok

LEMMA OkNone ==
    ASSUME NEW T, NEW n
    PROVE  Ok({}, T, n) /\ AllOk(<<>>, T, n)
<1>1. <<>> \in Seq({})
  OBVIOUS
<1> QED BY <1>1 DEF Ok, AllOk

LEMMA OkOne ==
    ASSUME NEW w, NEW T, NEW n, w.on \in T, Sound(w, n)
    PROVE  Ok({w}, T, n)
BY DEF Ok

LEMMA AllOne ==
    ASSUME NEW A, NEW T, NEW n, Ok(A, T, n)
    PROVE  AllOk(<<A>>, T, n)
<1>1. <<A>> \in Seq({A})
  OBVIOUS
<1>2. \A i \in DOMAIN <<A>> : <<A>>[i] = A
  OBVIOUS
<1> QED BY <1>1, <1>2 DEF AllOk

LEMMA AllTwo ==
    ASSUME NEW A, NEW B, NEW T, NEW n, Ok(A, T, n), Ok(B, T, n)
    PROVE  AllOk(<<A, B>>, T, n)
<1>1. <<A, B>> \in Seq({A, B})
  OBVIOUS
<1>2. \A i \in DOMAIN <<A, B>> : <<A, B>>[i] \in {A, B}
  OBVIOUS
<1> QED BY <1>1, <1>2 DEF AllOk

LEMMA AllConcat ==
    ASSUME NEW a, NEW b, NEW T, NEW n, AllOk(a, T, n), AllOk(b, T, n)
    PROVE  AllOk(a \o b, T, n)
<1>1. PICK S : a \in Seq(S)
  BY DEF AllOk
<1>2. PICK R : b \in Seq(R)
  BY DEF AllOk
<1>3. a \o b \in Seq(S \cup R)
  <2>1. a \in Seq(S \cup R) /\ b \in Seq(S \cup R)
    BY <1>1, <1>2
  <2> QED BY <2>1
<1>4. ASSUME NEW i \in DOMAIN (a \o b)
      PROVE  Ok((a \o b)[i], T, n)
  <2>1. CASE i \in DOMAIN a
    BY <1>1, <1>2, <2>1 DEF AllOk
  <2>2. CASE i \notin DOMAIN a
    <3>1. i - Len(a) \in DOMAIN b /\ (a \o b)[i] = b[i - Len(a)]
      BY <1>1, <1>2, <2>2
    <3> QED BY <3>1 DEF AllOk
  <2> QED BY <2>1, <2>2
<1> QED BY <1>3, <1>4 DEF AllOk

\* The same writes, of wider tables or a later request.
LEMMA AllWider ==
    ASSUME NEW a, NEW T, NEW U, NEW n \in Int, NEW m \in Int, T \subseteq U, n <= m,
           AllOk(a, T, n)
    PROVE  AllOk(a, U, m)
BY DEF AllOk, Ok, Sound

-----------------------------------------------------------------------------
(* Writes that are sound, by their form.                                    *)

LEMMA DeletesOk ==
    ASSUME NEW t, NEW rows, NEW T, NEW n, t \in T,
           t \notin {"users", "reports", "moderation_actions", "notifications"}
    PROVE  Ok(DeleteAll(t, rows), T, n)
BY DEF Ok, DeleteAll, Delete, Sound, Lasts, Lasting, Typed, Writes

LEMMA DeleteOk ==
    ASSUME NEW t, NEW i, NEW T, NEW n, t \in T,
           t \notin {"users", "reports", "moderation_actions", "notifications"}
    PROVE  Ok({Delete(t, i)}, T, n)
BY DEF Ok, Delete, Sound, Lasts, Lasting, Typed, Writes

\* Rows of the tables that no type is kept of.
LEMMA InsertOk ==
    ASSUME NEW t, NEW row, NEW cols, NEW T, NEW n, t \in T, t \notin DOMAIN RowTypes,
           t # "notifications", "id" \in DOMAIN row, "born" \notin DOMAIN row,
           t \in Keyed \/ (row.id \in Int /\ row.id <= n)
    PROVE  Ok({Insert(t, row)}, T, n) /\ Ok({InsertUnique(t, row, cols)}, T, n)
BY DEF Ok, Insert, InsertUnique, Sound, Lasts, Lasting, Typed, Writes

LEMMA EditOk ==
    ASSUME NEW t, NEW row, NEW cols, NEW T, NEW n, t \in T, t \notin DOMAIN RowTypes,
           t \notin {"users", "reports", "moderation_actions", "notifications"},
           "id" \notin DOMAIN cols, "born" \notin DOMAIN cols
    PROVE  Ok(Edit(t, row, cols), T, n)
<1> SUFFICES ASSUME NEW w \in Edit(t, row, cols) PROVE w.on \in T /\ Sound(w, n)
  BY DEF Ok
<1> QED BY EditWrites DEF Sound, Lasts, Lasting, Typed, Writes

LEMMA LaterOk ==
    ASSUME NEW T, NEW n, NEW name \in {"refresh", "log_event"}, NEW row, "handler" \in T,
           "id" \in DOMAIN row, row.id \in Int, row.id <= n
    PROVE  Ok({Later(name, row)}, T, n)
<1>1. "handler" \notin DOMAIN RowTypes
  BY DEF RowTypes
<1> QED BY <1>1 DEF Ok, Later, Sound, Lasts, Lasting, Typed, Writes

-----------------------------------------------------------------------------
(* Writes on the tables whose rows have a type.                             *)

\* The types by the name of the table.
LEMMA TypesByTable ==
    /\ DOMAIN RowTypes = {"users", "friends", "followers", "blocks", "messages", "posts",
                          "groups", "group_members", "group_messages", "sessions",
                          "csrf_tokens", "mfa_setups", "polls", "close_friends",
                          "list_members", "live_streams", "audit_reviews", "reports"}
    /\ RowTypes["users"] = User
    /\ RowTypes["friends"] = FriendRequest
    /\ RowTypes["followers"] = Follower
    /\ RowTypes["blocks"] = Block
    /\ RowTypes["messages"] = Message
    /\ RowTypes["posts"] = Post
    /\ RowTypes["groups"] = Group
    /\ RowTypes["group_members"] = GroupMember
    /\ RowTypes["group_messages"] = GroupMessage
    /\ RowTypes["sessions"] = UserSession
    /\ RowTypes["csrf_tokens"] = CSRFToken
    /\ RowTypes["mfa_setups"] = MFASetup
    /\ RowTypes["polls"] = Poll
    /\ RowTypes["close_friends"] = CloseFriend
    /\ RowTypes["list_members"] = UserListMember
    /\ RowTypes["live_streams"] = LiveStream
    /\ RowTypes["audit_reviews"] = AuditReview
    /\ RowTypes["reports"] = Report
BY DEF RowTypes

LEMMA TypedInsertOk ==
    ASSUME NEW t, NEW row, NEW cols, NEW T, NEW n, t \in T, t # "notifications",
           "id" \in DOMAIN row, "born" \notin DOMAIN row,
           t \in Keyed \/ (row.id \in Int /\ row.id <= n),
           \A k \in Nat : Overlay(row, [born |-> k]) \in RowTypes[t]
    PROVE  Ok({Insert(t, row)}, T, n) /\ Ok({InsertUnique(t, row, cols)}, T, n)
BY DEF Ok, Insert, InsertUnique, Sound, Lasts, Lasting, Typed, Writes

LEMMA TypedUpdateOk ==
    ASSUME NEW t, NEW i, NEW cols, NEW T, NEW n, t \in T, t \notin {"moderation_actions", "notifications"},
           "id" \notin DOMAIN cols, "born" \notin DOMAIN cols,
           \A r \in RowTypes[t] :
               r.id = i => Overlay(Overlay([id |-> i], cols), r) \in RowTypes[t]
    PROVE  Ok({Update(t, i, cols)}, T, n)
<1> DEFINE w == Update(t, i, cols)
<1>1. /\ w.op = "update" /\ w.on = t /\ w.row = Overlay([id |-> i], cols)
      /\ w.row.id = i /\ "id" \in DOMAIN w.row /\ "born" \notin DOMAIN w.row
  <2>1. w.row = Overlay([id |-> i], cols)
    BY DEF Update
  <2> QED BY <2>1, UpdateWrites
<1> HIDE DEF w
<1>2. w.on \in T /\ Sound(w, n)
  BY <1>1 DEF Sound, Lasts, Lasting, Typed, Writes
<1> QED BY <1>2 DEF Ok, w

LEMMA TypedEditOk ==
    ASSUME NEW t, NEW row, NEW cols, NEW T, NEW n, t \in T, t \notin {"moderation_actions", "notifications"},
           "id" \notin DOMAIN cols, "born" \notin DOMAIN cols,
           \A w \in Edit(t, row, cols) : \A r \in RowTypes[t] :
               r.id = w.row.id => Overlay(w.row, r) \in RowTypes[t]
    PROVE  Ok(Edit(t, row, cols), T, n)
<1> SUFFICES ASSUME NEW w \in Edit(t, row, cols) PROVE w.on \in T /\ Sound(w, n)
  BY DEF Ok
<1> QED BY EditWrites DEF Sound, Lasts, Lasting, Typed, Writes

\* A friend request and the answer to it.
LEMMA FriendOk ==
    ASSUME NEW T, NEW n \in Int, "friends" \in T, NEW cols, NEW i \in Int, i <= n,
           NEW u \in Users, NEW w \in Users
    PROVE  LET row == [id |-> i, from |-> u, to |-> w, status |-> "pending"]
           IN  Ok({Insert("friends", row)}, T, n) /\ Ok({InsertUnique("friends", row, cols)}, T, n)
<1> DEFINE row == [id |-> i, from |-> u, to |-> w, status |-> "pending"]
<1>1. \A k \in Nat : Overlay(row, [born |-> k]) \in FriendRequest
  BY DEF Overlay, FriendRequest, FriendRequestStatus
<1> QED BY <1>1, TypedInsertOk, TypesByTable

LEMMA FriendAnswerOk ==
    ASSUME NEW T, NEW n, "friends" \in T, NEW i, NEW s \in FriendRequestStatus
    PROVE  Ok({Update("friends", i, [status |-> s])}, T, n)
<1>1. \A r \in FriendRequest :
          r.id = i => Overlay(Overlay([id |-> i], [status |-> s]), r) \in FriendRequest
  BY DEF Overlay, FriendRequest
<1> QED BY <1>1, TypedUpdateOk, TypesByTable

\* A follow.
LEMMA FollowerOk ==
    ASSUME NEW T, NEW n \in Int, "followers" \in T, NEW cols, NEW i \in Int, i <= n,
           NEW u \in Users, NEW w \in Users
    PROVE  LET row == [id |-> i, from |-> u, to |-> w]
           IN  Ok({Insert("followers", row)}, T, n) /\ Ok({InsertUnique("followers", row, cols)}, T, n)
<1> DEFINE row == [id |-> i, from |-> u, to |-> w]
<1>1. \A k \in Nat : Overlay(row, [born |-> k]) \in Follower
  BY DEF Overlay, Follower
<1> QED BY <1>1, TypedInsertOk, TypesByTable

\* A block.
LEMMA BlockOk ==
    ASSUME NEW T, NEW n \in Int, "blocks" \in T, NEW cols, NEW i \in Int, i <= n,
           NEW u \in Users, NEW w \in Users
    PROVE  LET row == [id |-> i, from |-> u, to |-> w]
           IN  Ok({Insert("blocks", row)}, T, n) /\ Ok({InsertUnique("blocks", row, cols)}, T, n)
<1> DEFINE row == [id |-> i, from |-> u, to |-> w]
<1>1. \A k \in Nat : Overlay(row, [born |-> k]) \in Block
  BY DEF Overlay, Block
<1> QED BY <1>1, TypedInsertOk, TypesByTable

\* A message, sent or made up.
LEMMA MessageOk ==
    ASSUME NEW T, NEW n \in Int, "messages" \in T, NEW cols, NEW i \in Int, i <= n,
           NEW u \in Users \cup {None}, NEW w \in Users \cup {None}
    PROVE  LET row == [id |-> i, sender |-> u, receiver |-> w, reactions |-> {},
                   is_pinned |-> FALSE, is_seen |-> FALSE, edited |-> FALSE]
           IN  Ok({Insert("messages", row)}, T, n) /\ Ok({InsertUnique("messages", row, cols)}, T, n)
<1> DEFINE row == [id |-> i, sender |-> u, receiver |-> w, reactions |-> {},
                   is_pinned |-> FALSE, is_seen |-> FALSE, edited |-> FALSE]
<1>1. \A k \in Nat : Overlay(row, [born |-> k]) \in Message
  BY DEF Overlay, Message
<1> QED BY <1>1, TypedInsertOk, TypesByTable

\* The columns of a message a client may change.
LEMMA MessageEditOk ==
    ASSUME NEW T, NEW n, "messages" \in T, NEW row, NEW cols,
           DOMAIN cols \subseteq {"reactions", "is_pinned", "is_seen", "edited"},
           "reactions" \in DOMAIN cols => cols["reactions"] \in SUBSET Users,
           "is_pinned" \in DOMAIN cols => cols["is_pinned"] \in BOOLEAN,
           "is_seen" \in DOMAIN cols => cols["is_seen"] \in BOOLEAN,
           "edited" \in DOMAIN cols => cols["edited"] \in BOOLEAN
    PROVE  Ok(Edit("messages", row, cols), T, n)
<1>1. ASSUME NEW w \in Edit("messages", row, cols), NEW r \in Message, r.id = w.row.id
      PROVE  Overlay(w.row, r) \in Message
  <2>1. /\ w.row.id = row.id /\ "id" \in DOMAIN w.row
        /\ DOMAIN w.row \subseteq {"id"} \cup DOMAIN cols
        /\ \A c \in DOMAIN w.row \ {"id"} : w.row[c] = cols[c]
    BY EditWrites
  <2> QED BY <1>1, <2>1 DEF Overlay, Message
<1> QED BY <1>1, TypedEditOk, TypesByTable

\* A post.
LEMMA PostOk ==
    ASSUME NEW T, NEW n \in Int, "posts" \in T, NEW cols, NEW i \in Int, i <= n,
           NEW u \in Users, NEW content \in Contents, NEW v \in PostVisibility
    PROVE  LET row == [id |-> i, user |-> u, content |-> content, visibility |-> v]
           IN  Ok({Insert("posts", row)}, T, n) /\ Ok({InsertUnique("posts", row, cols)}, T, n)
<1> DEFINE row == [id |-> i, user |-> u, content |-> content, visibility |-> v]
<1>1. \A k \in Nat : Overlay(row, [born |-> k]) \in Post
  BY DEF Overlay, Post
<1> QED BY <1>1, TypedInsertOk, TypesByTable

\* What changes of a post.
LEMMA PostEditOk ==
    ASSUME NEW T, NEW n, "posts" \in T, NEW row, NEW cols,
           DOMAIN cols \subseteq {"content", "visibility"},
           "content" \in DOMAIN cols => cols["content"] \in Contents,
           "visibility" \in DOMAIN cols => cols["visibility"] \in PostVisibility
    PROVE  Ok(Edit("posts", row, cols), T, n)
<1>1. ASSUME NEW w \in Edit("posts", row, cols), NEW r \in Post, r.id = w.row.id
      PROVE  Overlay(w.row, r) \in Post
  <2>1. /\ w.row.id = row.id /\ "id" \in DOMAIN w.row
        /\ DOMAIN w.row \subseteq {"id"} \cup DOMAIN cols
        /\ \A c \in DOMAIN w.row \ {"id"} : w.row[c] = cols[c]
    BY EditWrites
  <2> QED BY <1>1, <2>1 DEF Overlay, Post
<1> QED BY <1>1, TypedEditOk, TypesByTable

\* A group.
LEMMA GroupOk ==
    ASSUME NEW T, NEW n \in Int, "groups" \in T, NEW cols, NEW i \in Int, i <= n,
           NEW u \in Users, NEW type \in GroupType, NEW announcing \in BOOLEAN
    PROVE  LET row == [id |-> i, type |-> type, created_by |-> u,
                   announcement_only |-> announcing, verification |-> None]
           IN  Ok({Insert("groups", row)}, T, n) /\ Ok({InsertUnique("groups", row, cols)}, T, n)
<1> DEFINE row == [id |-> i, type |-> type, created_by |-> u,
                   announcement_only |-> announcing, verification |-> None]
<1>1. \A k \in Nat : Overlay(row, [born |-> k]) \in Group
  BY DEF Overlay, Group
<1> QED BY <1>1, TypedInsertOk, TypesByTable

\* What changes of a group.
LEMMA GroupEditOk ==
    ASSUME NEW T, NEW n, "groups" \in T, NEW row, NEW cols,
           DOMAIN cols \subseteq {"announcement_only", "verification"},
           "announcement_only" \in DOMAIN cols => cols["announcement_only"] \in BOOLEAN,
           "verification" \in DOMAIN cols => cols["verification"] \in {"pending", "approved", "rejected"}
    PROVE  Ok(Edit("groups", row, cols), T, n)
<1>1. ASSUME NEW w \in Edit("groups", row, cols), NEW r \in Group, r.id = w.row.id
      PROVE  Overlay(w.row, r) \in Group
  <2>1. /\ w.row.id = row.id /\ "id" \in DOMAIN w.row
        /\ DOMAIN w.row \subseteq {"id"} \cup DOMAIN cols
        /\ \A c \in DOMAIN w.row \ {"id"} : w.row[c] = cols[c]
    BY EditWrites
  <2> QED BY <1>1, <2>1 DEF Overlay, Group
<1> QED BY <1>1, TypedEditOk, TypesByTable

\* What changes of a membership.
LEMMA MemberEditOk ==
    ASSUME NEW T, NEW n, "group_members" \in T, NEW row, NEW cols,
           DOMAIN cols \subseteq {"status", "alias", "role"},
           "status" \in DOMAIN cols => cols["status"] \in {"active"},
           "alias" \in DOMAIN cols => cols["alias"] \in BOOLEAN,
           "role" \in DOMAIN cols => cols["role"] \in Role
    PROVE  Ok(Edit("group_members", row, cols), T, n)
<1>1. ASSUME NEW w \in Edit("group_members", row, cols), NEW r \in GroupMember, r.id = w.row.id
      PROVE  Overlay(w.row, r) \in GroupMember
  <2>1. /\ w.row.id = row.id /\ "id" \in DOMAIN w.row
        /\ DOMAIN w.row \subseteq {"id"} \cup DOMAIN cols
        /\ \A c \in DOMAIN w.row \ {"id"} : w.row[c] = cols[c]
    BY EditWrites
  <2> QED BY <1>1, <2>1 DEF Overlay, GroupMember
<1> QED BY <1>1, TypedEditOk, TypesByTable

\* A message of a group.
LEMMA GroupMessageOk ==
    ASSUME NEW T, NEW n \in Int, "group_messages" \in T, NEW cols, NEW i \in Int, i <= n,
           NEW g \in Int, NEW u \in Users
    PROVE  LET row == [id |-> i, group |-> g, sender |-> u]
           IN  Ok({Insert("group_messages", row)}, T, n) /\ Ok({InsertUnique("group_messages", row, cols)}, T, n)
<1> DEFINE row == [id |-> i, group |-> g, sender |-> u]
<1>1. \A k \in Nat : Overlay(row, [born |-> k]) \in GroupMessage
  BY DEF Overlay, GroupMessage
<1> QED BY <1>1, TypedInsertOk, TypesByTable

\* A session.
LEMMA SessionOk ==
    ASSUME NEW T, NEW n \in Int, "sessions" \in T, NEW cols, NEW i \in Int, i <= n,
           NEW u \in Users, NEW d \in Devices, NEW token \in Nat
    PROVE  LET row == [id |-> i, user |-> u, device |-> d, refresh_token |-> token,
                   status |-> "active", expired |-> FALSE]
           IN  Ok({Insert("sessions", row)}, T, n) /\ Ok({InsertUnique("sessions", row, cols)}, T, n)
<1> DEFINE row == [id |-> i, user |-> u, device |-> d, refresh_token |-> token,
                   status |-> "active", expired |-> FALSE]
<1>1. \A k \in Nat : Overlay(row, [born |-> k]) \in UserSession
  BY DEF Overlay, UserSession
<1> QED BY <1>1, TypedInsertOk, TypesByTable

\* The rotation of the token of a session.
LEMMA SessionUpdateOk ==
    ASSUME NEW T, NEW n, "sessions" \in T, NEW i, NEW token \in Nat
    PROVE  Ok({Update("sessions", i, [refresh_token |-> token, expired |-> FALSE])}, T, n)
<1>1. \A r \in UserSession :
          r.id = i => Overlay(Overlay([id |-> i], [refresh_token |-> token, expired |-> FALSE]), r)
                          \in UserSession
  BY DEF Overlay, UserSession
<1> QED BY <1>1, TypedUpdateOk, TypesByTable

\* The revocation of a session.
LEMMA SessionEditOk ==
    ASSUME NEW T, NEW n, "sessions" \in T, NEW row, NEW cols,
           DOMAIN cols \subseteq {"status"},
           "status" \in DOMAIN cols => cols["status"] \in {"revoked"}
    PROVE  Ok(Edit("sessions", row, cols), T, n)
<1>1. ASSUME NEW w \in Edit("sessions", row, cols), NEW r \in UserSession, r.id = w.row.id
      PROVE  Overlay(w.row, r) \in UserSession
  <2>1. /\ w.row.id = row.id /\ "id" \in DOMAIN w.row
        /\ DOMAIN w.row \subseteq {"id"} \cup DOMAIN cols
        /\ \A c \in DOMAIN w.row \ {"id"} : w.row[c] = cols[c]
    BY EditWrites
  <2> QED BY <1>1, <2>1 DEF Overlay, UserSession
<1> QED BY <1>1, TypedEditOk, TypesByTable

\* A CSRF token.
LEMMA CSRFTokenOk ==
    ASSUME NEW T, NEW n \in Int, "csrf_tokens" \in T, NEW cols, NEW i \in Int, i <= n,
           NEW u \in Users
    PROVE  LET row == [id |-> i, user |-> u, is_used |-> FALSE, expired |-> FALSE]
           IN  Ok({Insert("csrf_tokens", row)}, T, n) /\ Ok({InsertUnique("csrf_tokens", row, cols)}, T, n)
<1> DEFINE row == [id |-> i, user |-> u, is_used |-> FALSE, expired |-> FALSE]
<1>1. \A k \in Nat : Overlay(row, [born |-> k]) \in CSRFToken
  BY DEF Overlay, CSRFToken
<1> QED BY <1>1, TypedInsertOk, TypesByTable

\* The use of a CSRF token.
LEMMA CSRFTokenEditOk ==
    ASSUME NEW T, NEW n, "csrf_tokens" \in T, NEW row, NEW cols,
           DOMAIN cols \subseteq {"is_used"},
           "is_used" \in DOMAIN cols => cols["is_used"] \in BOOLEAN
    PROVE  Ok(Edit("csrf_tokens", row, cols), T, n)
<1>1. ASSUME NEW w \in Edit("csrf_tokens", row, cols), NEW r \in CSRFToken, r.id = w.row.id
      PROVE  Overlay(w.row, r) \in CSRFToken
  <2>1. /\ w.row.id = row.id /\ "id" \in DOMAIN w.row
        /\ DOMAIN w.row \subseteq {"id"} \cup DOMAIN cols
        /\ \A c \in DOMAIN w.row \ {"id"} : w.row[c] = cols[c]
    BY EditWrites
  <2> QED BY <1>1, <2>1 DEF Overlay, CSRFToken
<1> QED BY <1>1, TypedEditOk, TypesByTable

\* The enrolment of a second factor.
LEMMA MFASetupOk ==
    ASSUME NEW T, NEW n \in Int, "mfa_setups" \in T, NEW cols, NEW i \in Int, i <= n,
           NEW u \in Users
    PROVE  LET row == [id |-> i, user |-> u, is_verified |-> FALSE]
           IN  Ok({Insert("mfa_setups", row)}, T, n) /\ Ok({InsertUnique("mfa_setups", row, cols)}, T, n)
<1> DEFINE row == [id |-> i, user |-> u, is_verified |-> FALSE]
<1>1. \A k \in Nat : Overlay(row, [born |-> k]) \in MFASetup
  BY DEF Overlay, MFASetup
<1> QED BY <1>1, TypedInsertOk, TypesByTable

\* Its verification.
LEMMA MFASetupEditOk ==
    ASSUME NEW T, NEW n, "mfa_setups" \in T, NEW row, NEW cols,
           DOMAIN cols \subseteq {"is_verified"},
           "is_verified" \in DOMAIN cols => cols["is_verified"] \in BOOLEAN
    PROVE  Ok(Edit("mfa_setups", row, cols), T, n)
<1>1. ASSUME NEW w \in Edit("mfa_setups", row, cols), NEW r \in MFASetup, r.id = w.row.id
      PROVE  Overlay(w.row, r) \in MFASetup
  <2>1. /\ w.row.id = row.id /\ "id" \in DOMAIN w.row
        /\ DOMAIN w.row \subseteq {"id"} \cup DOMAIN cols
        /\ \A c \in DOMAIN w.row \ {"id"} : w.row[c] = cols[c]
    BY EditWrites
  <2> QED BY <1>1, <2>1 DEF Overlay, MFASetup
<1> QED BY <1>1, TypedEditOk, TypesByTable

\* A poll.
LEMMA PollOk ==
    ASSUME NEW T, NEW n \in Int, "polls" \in T, NEW cols, NEW i \in Int, i <= n,
           NEW u \in Users
    PROVE  LET row == [id |-> i, owner |-> u, votes |-> {}, expired |-> FALSE]
           IN  Ok({Insert("polls", row)}, T, n) /\ Ok({InsertUnique("polls", row, cols)}, T, n)
<1> DEFINE row == [id |-> i, owner |-> u, votes |-> {}, expired |-> FALSE]
<1>1. \A k \in Nat : Overlay(row, [born |-> k]) \in Poll
  BY DEF Overlay, Poll
<1> QED BY <1>1, TypedInsertOk, TypesByTable

\* The votes of a poll.
LEMMA PollEditOk ==
    ASSUME NEW T, NEW n, "polls" \in T, NEW row, NEW cols,
           DOMAIN cols \subseteq {"votes"},
           "votes" \in DOMAIN cols => cols["votes"] \in SUBSET (Users \X {"yes", "no"})
    PROVE  Ok(Edit("polls", row, cols), T, n)
<1>1. ASSUME NEW w \in Edit("polls", row, cols), NEW r \in Poll, r.id = w.row.id
      PROVE  Overlay(w.row, r) \in Poll
  <2>1. /\ w.row.id = row.id /\ "id" \in DOMAIN w.row
        /\ DOMAIN w.row \subseteq {"id"} \cup DOMAIN cols
        /\ \A c \in DOMAIN w.row \ {"id"} : w.row[c] = cols[c]
    BY EditWrites
  <2> QED BY <1>1, <2>1 DEF Overlay, Poll
<1> QED BY <1>1, TypedEditOk, TypesByTable

\* A close friend.
LEMMA CloseFriendOk ==
    ASSUME NEW T, NEW n \in Int, "close_friends" \in T, NEW cols, NEW i \in Int, i <= n,
           NEW u \in Users, NEW w \in Users
    PROVE  LET row == [id |-> i, owner |-> u, friend |-> w]
           IN  Ok({Insert("close_friends", row)}, T, n) /\ Ok({InsertUnique("close_friends", row, cols)}, T, n)
<1> DEFINE row == [id |-> i, owner |-> u, friend |-> w]
<1>1. \A k \in Nat : Overlay(row, [born |-> k]) \in CloseFriend
  BY DEF Overlay, CloseFriend
<1> QED BY <1>1, TypedInsertOk, TypesByTable

\* A member of a list.
LEMMA UserListMemberOk ==
    ASSUME NEW T, NEW n \in Int, "list_members" \in T, NEW cols, NEW i \in Int, i <= n,
           NEW l \in Int, NEW u \in Users
    PROVE  LET row == [id |-> i, list |-> l, user |-> u]
           IN  Ok({Insert("list_members", row)}, T, n) /\ Ok({InsertUnique("list_members", row, cols)}, T, n)
<1> DEFINE row == [id |-> i, list |-> l, user |-> u]
<1>1. \A k \in Nat : Overlay(row, [born |-> k]) \in UserListMember
  BY DEF Overlay, UserListMember
<1> QED BY <1>1, TypedInsertOk, TypesByTable

\* A live stream.
LEMMA LiveStreamOk ==
    ASSUME NEW T, NEW n \in Int, "live_streams" \in T, NEW cols, NEW i \in Int, i <= n,
           NEW u \in Users
    PROVE  LET row == Overlay([id |-> i], [user |-> u, status |-> "scheduled", started_at |-> 0])
           IN  Ok({Insert("live_streams", row)}, T, n) /\ Ok({InsertUnique("live_streams", row, cols)}, T, n)
<1> DEFINE row == Overlay([id |-> i], [user |-> u, status |-> "scheduled", started_at |-> 0])
<1>1. \A k \in Nat : Overlay(row, [born |-> k]) \in LiveStream
  BY DEF Overlay, LiveStream
<1>2. "id" \in DOMAIN row /\ row.id = i /\ "born" \notin DOMAIN row
  BY DEF Overlay
<1> HIDE DEF row
<1>3. Ok({Insert("live_streams", row)}, T, n)
      /\ Ok({InsertUnique("live_streams", row, cols)}, T, n)
  BY <1>1, <1>2, TypedInsertOk, TypesByTable
<1> QED BY <1>3 DEF row

\* Its status.
LEMMA LiveStreamEditOk ==
    ASSUME NEW T, NEW n, "live_streams" \in T, NEW row, NEW cols,
           DOMAIN cols \subseteq {"status", "started_at"},
           "status" \in DOMAIN cols => cols["status"] \in {"live", "ended"},
           "started_at" \in DOMAIN cols => cols["started_at"] \in Nat
    PROVE  Ok(Edit("live_streams", row, cols), T, n)
<1>1. ASSUME NEW w \in Edit("live_streams", row, cols), NEW r \in LiveStream, r.id = w.row.id
      PROVE  Overlay(w.row, r) \in LiveStream
  <2>1. /\ w.row.id = row.id /\ "id" \in DOMAIN w.row
        /\ DOMAIN w.row \subseteq {"id"} \cup DOMAIN cols
        /\ \A c \in DOMAIN w.row \ {"id"} : w.row[c] = cols[c]
    BY EditWrites
  <2> QED BY <1>1, <2>1 DEF Overlay, LiveStream
<1> QED BY <1>1, TypedEditOk, TypesByTable

\* A review.
LEMMA AuditReviewOk ==
    ASSUME NEW T, NEW n \in Int, "audit_reviews" \in T, NEW cols, NEW i \in Int, i <= n,
           NEW u \in Users
    PROVE  LET row == Overlay([id |-> i], [user |-> u, status |-> "open"])
           IN  Ok({Insert("audit_reviews", row)}, T, n) /\ Ok({InsertUnique("audit_reviews", row, cols)}, T, n)
<1> DEFINE row == Overlay([id |-> i], [user |-> u, status |-> "open"])
<1>1. \A k \in Nat : Overlay(row, [born |-> k]) \in AuditReview
  BY DEF Overlay, AuditReview
<1>2. "id" \in DOMAIN row /\ row.id = i /\ "born" \notin DOMAIN row
  BY DEF Overlay
<1> HIDE DEF row
<1>3. Ok({Insert("audit_reviews", row)}, T, n)
      /\ Ok({InsertUnique("audit_reviews", row, cols)}, T, n)
  BY <1>1, <1>2, TypedInsertOk, TypesByTable
<1> QED BY <1>3 DEF row

\* Its resolution.
LEMMA AuditReviewEditOk ==
    ASSUME NEW T, NEW n, "audit_reviews" \in T, NEW row, NEW cols,
           DOMAIN cols \subseteq {"status"},
           "status" \in DOMAIN cols => cols["status"] \in {"reviewed"}
    PROVE  Ok(Edit("audit_reviews", row, cols), T, n)
<1>1. ASSUME NEW w \in Edit("audit_reviews", row, cols), NEW r \in AuditReview, r.id = w.row.id
      PROVE  Overlay(w.row, r) \in AuditReview
  <2>1. /\ w.row.id = row.id /\ "id" \in DOMAIN w.row
        /\ DOMAIN w.row \subseteq {"id"} \cup DOMAIN cols
        /\ \A c \in DOMAIN w.row \ {"id"} : w.row[c] = cols[c]
    BY EditWrites
  <2> QED BY <1>1, <2>1 DEF Overlay, AuditReview
<1> QED BY <1>1, TypedEditOk, TypesByTable

\* A report.
LEMMA ReportOk ==
    ASSUME NEW T, NEW n \in Int, "reports" \in T, NEW cols, NEW i \in Int, i <= n,
           NEW u \in Users, NEW type \in ReportTypes, NEW target \in Users \cup Int
    PROVE  LET row == [id |-> i, reporter |-> u, type |-> type, target |-> target, status |-> "open"]
           IN  Ok({Insert("reports", row)}, T, n) /\ Ok({InsertUnique("reports", row, cols)}, T, n)
<1> DEFINE row == [id |-> i, reporter |-> u, type |-> type, target |-> target, status |-> "open"]
<1>1. \A k \in Nat : Overlay(row, [born |-> k]) \in Report
  BY DEF Overlay, Report
<1> QED BY <1>1, TypedInsertOk, TypesByTable

\* The status of a report.
LEMMA ReportEditOk ==
    ASSUME NEW T, NEW n, "reports" \in T, NEW row, NEW cols,
           DOMAIN cols \subseteq {"status"},
           "status" \in DOMAIN cols => cols["status"] \in {"resolved", "resolved_ai", "flagged_ai", "escalated"}
    PROVE  Ok(Edit("reports", row, cols), T, n)
<1>1. ASSUME NEW w \in Edit("reports", row, cols), NEW r \in Report, r.id = w.row.id
      PROVE  Overlay(w.row, r) \in Report
  <2>1. /\ w.row.id = row.id /\ "id" \in DOMAIN w.row
        /\ DOMAIN w.row \subseteq {"id"} \cup DOMAIN cols
        /\ \A c \in DOMAIN w.row \ {"id"} : w.row[c] = cols[c]
    BY EditWrites
  <2> QED BY <1>1, <2>1 DEF Overlay, Report
<1> QED BY <1>1, TypedEditOk, TypesByTable

\* What moderation and the profile change of an account.
LEMMA AccountEditOk ==
    ASSUME NEW T, NEW n, "users" \in T, NEW row, NEW cols,
           DOMAIN cols \subseteq {"is_suspended", "suspended_until", "is_muted", "muted_until", "is_shadow_banned", "phone"},
           "is_suspended" \in DOMAIN cols => cols["is_suspended"] \in BOOLEAN,
           "suspended_until" \in DOMAIN cols => cols["suspended_until"] \in {None, "later", "past"},
           "is_muted" \in DOMAIN cols => cols["is_muted"] \in BOOLEAN,
           "muted_until" \in DOMAIN cols => cols["muted_until"] \in {None, "later", "past"},
           "is_shadow_banned" \in DOMAIN cols => cols["is_shadow_banned"] \in BOOLEAN,
           "phone" \in DOMAIN cols => cols["phone"] \in SUBSET (Phones \X Nat)
    PROVE  Ok(Edit("users", row, cols), T, n)
<1>1. ASSUME NEW w \in Edit("users", row, cols), NEW r \in User, r.id = w.row.id
      PROVE  Overlay(w.row, r) \in User
  <2>1. /\ w.row.id = row.id /\ "id" \in DOMAIN w.row
        /\ DOMAIN w.row \subseteq {"id"} \cup DOMAIN cols
        /\ \A c \in DOMAIN w.row \ {"id"} : w.row[c] = cols[c]
    BY EditWrites
  <2> QED BY <1>1, <2>1 DEF Overlay, User
<1> QED BY <1>1, TypedEditOk, TypesByTable

\* A membership, keyed by its pair.
LEMMA MemberOk ==
    ASSUME NEW T, NEW n, "group_members" \in T, served \in Nat, NEW g, g.id \in Int,
           NEW u \in Users, NEW role \in Role, NEW status \in {"active", "invited"},
           NEW inviter \in Users \cup {None}
    PROVE  Ok({NewMember(g, u, role, status, inviter)}, T, n)
<1> DEFINE row == [id |-> <<u, g.id>>, since |-> Self, group |-> g.id, user |-> u,
                   role |-> role, status |-> status, alias |-> g.type = "anonymous",
                   invited_by |-> inviter]
<1>1. \A k \in Nat : Overlay(row, [born |-> k]) \in GroupMember
  <2>1. Self \in Int /\ (g.type = "anonymous") \in BOOLEAN
    BY DEF Self
  <2> QED BY <2>1 DEF Overlay, GroupMember
<1>2. "group_members" \in Keyed
  BY DEF Keyed
<1>3. "id" \in DOMAIN row /\ "born" \notin DOMAIN row
  OBVIOUS
<1>4. NewMember(g, u, role, status, inviter) = InsertUnique("group_members", row, {"id"})
  BY DEF NewMember
<1> HIDE DEF row
<1>5. Ok({InsertUnique("group_members", row, {"id"})}, T, n)
  BY <1>1, <1>2, <1>3, TypedInsertOk, TypesByTable
<1> QED BY <1>4, <1>5

\* A new account, with the keys its insert is under.
LEMMA NewUserOk ==
    ASSUME NEW T, NEW n, "users" \in T, NEW u \in Users, NEW key,
           NEW phone \in SUBSET (Phones \X Nat)
    PROVE  Ok({[Insert("users", NewUser(u, phone)) EXCEPT !.key = key]}, T, n)
<1> DEFINE row == NewUser(u, phone)
           w == [Insert("users", row) EXCEPT !.key = key]
<1>1. \A k \in Nat : Overlay(row, [born |-> k]) \in User
  BY DEF Overlay, User, NewUser
<1>2. "id" \in DOMAIN row /\ "born" \notin DOMAIN row
  BY DEF NewUser
<1> HIDE DEF row
<1>3. w.op = "insert" /\ w.on = "users" /\ w.row = row
  BY DEF Insert
<1> HIDE DEF w
<1>4. Sound(w, n)
  BY <1>1, <1>2, <1>3, TypesByTable DEF Sound, Lasts, Lasting, Typed, Writes, Keyed
<1>5. Ok({w}, T, n)
  BY <1>3, <1>4, OkOne
<1> QED BY <1>5 DEF w, row

-----------------------------------------------------------------------------
(* The invariant of types.                                                  *)

\* A row with a number was committed when that many requests had begun, or more.
Numbered(t) ==
    \A r \in store[t] : /\ {"id", "born"} \subseteq DOMAIN r
                        /\ r.id \in Int /\ r.born \in Nat
                        /\ r.id <= r.born /\ r.born <= served

TypeInv ==
    /\ UnitInv
    /\ scene \in Scenes /\ served <= scene.requests
    /\ \A t \in DOMAIN RowTypes : store[t] \subseteq RowTypes[t]
    /\ \A t \in Tables \ Keyed : Numbered(t)
    /\ \A batch \in Open : Ok(batch, Tables \cup {"handler"}, served)

\* The types of the rows that the handlers read.
LEMMA StoreTypes ==
    ASSUME TypeInv
    PROVE  /\ store["users"] \subseteq User
           /\ store["friends"] \subseteq FriendRequest
           /\ store["followers"] \subseteq Follower
           /\ store["blocks"] \subseteq Block
           /\ store["messages"] \subseteq Message
           /\ store["posts"] \subseteq Post
           /\ store["groups"] \subseteq Group
           /\ store["group_members"] \subseteq GroupMember
           /\ store["group_messages"] \subseteq GroupMessage
           /\ store["sessions"] \subseteq UserSession
           /\ store["csrf_tokens"] \subseteq CSRFToken
           /\ store["mfa_setups"] \subseteq MFASetup
           /\ store["polls"] \subseteq Poll
           /\ store["close_friends"] \subseteq CloseFriend
           /\ store["list_members"] \subseteq UserListMember
           /\ store["live_streams"] \subseteq LiveStream
           /\ store["audit_reviews"] \subseteq AuditReview
           /\ store["reports"] \subseteq Report
           /\ served \in Nat /\ Self \in Nat /\ Self <= Self
<1>1. served \in Nat /\ Self \in Nat /\ Self <= Self
  BY DEF TypeInv, UnitInv, Self
<1>2. \A t \in DOMAIN RowTypes : store[t] \subseteq RowTypes[t]
  BY DEF TypeInv
<1> QED BY <1>1, <1>2, TypesByTable

\* The number of a row that no type is kept of.
LEMMA RowNumbers ==
    ASSUME TypeInv, NEW t \in Tables \ Keyed, NEW r \in store[t]
    PROVE  r.id \in Int /\ r.id <= served
<1>1. Numbered(t) /\ served \in Nat
  BY DEF TypeInv, UnitInv
<1> QED BY <1>1 DEF Numbered

-----------------------------------------------------------------------------
(* What every family of routes opens.                                       *)

LEMMA RefreshedOpens ==
    ASSUME NEW p, NEW batches, NEW T, BeginRefreshed(p, batches), AllOk(batches, T, Self)
    PROVE  Opens(p, T)
BY OkNone DEF BeginRefreshed, Opens

\* The push and the row of a notification, and the keys of a cache.
LEMMA NotificationOk ==
    ASSUME served \in Nat, NEW u, NEW kind, NEW actor, NEW T,
           {"pushed", "notifications"} \subseteq T
    PROVE  /\ Ok({push(u, kind)}, T, Self)
           /\ Ok({notify(u, kind, actor)}, T, Self)
           /\ AllOk(create_notification(u, kind, actor), T, Self)
<1>1. Self \in Int /\ Self <= Self
  BY DEF Self
<1>2. "pushed" \notin DOMAIN RowTypes /\ "notifications" \notin DOMAIN RowTypes
  BY TypesByTable
<1>3. Ok({push(u, kind)}, T, Self)
  BY <1>1, <1>2, InsertOk DEF push
<1>4. Ok({notify(u, kind, actor)}, T, Self)
  <2>1. /\ notify(u, kind, actor).op = "insert"
        /\ notify(u, kind, actor).on = "notifications"
        /\ notify(u, kind, actor).row.id = Self
        /\ {"id"} \subseteq DOMAIN notify(u, kind, actor).row
        /\ "born" \notin DOMAIN notify(u, kind, actor).row
        /\ DOMAIN notify(u, kind, actor).row \cap DOMAIN Parent = {}
    BY DEF notify, Insert, Parent
  <2> QED BY <1>1, <1>2, <2>1 DEF Ok, Sound, Lasts, Lasting, Typed, Writes
<1> QED BY <1>3, <1>4, AllTwo DEF create_notification

LEMMA InvalidateOk ==
    ASSUME NEW u, NEW w, NEW T, "relations_cache" \in T
    PROVE  AllOk(invalidate(u, w), T, Self)
BY DeleteOk, AllTwo DEF invalidate

RelationWrites == {"friends", "followers", "blocks", "relations_cache", "notifications",
                   "pushed", "handler"}

LEMMA RelationsOpen ==
    ASSUME TypeInv, NEW p, RelationRoutes(p)
    PROVE  Opens(p, RelationWrites)
<1> DEFINE T == RelationWrites
<1>0. /\ {"friends", "followers", "blocks", "relations_cache", "handler"} \subseteq T
      /\ {"pushed", "notifications"} \subseteq T
      /\ Self \in Int /\ Self <= Self /\ served \in Nat
  BY StoreTypes DEF RelationWrites
<1> HIDE DEF T
<1>1. CASE create_friend_request(p)
  <2>1. PICK u \in Users, w \in Users : send_friend_request(p, u, w)
    BY <1>1 DEF create_friend_request
  <2>2. AllOk(<<{Insert("friends", [id |-> Self, from |-> u, to |-> w, status |-> "pending"])}>>
              \o create_notification(w, "friend_request", u), T, Self)
    BY <1>0, FriendOk, AllOne, NotificationOk, AllConcat
  <2>3. \A i : AllOk(<< {Update("friends", i, [status |-> "pending"])} >>, T, Self)
    BY <1>0, FriendAnswerOk, AllOne DEF FriendRequestStatus
  <2> QED BY <2>1, <2>2, <2>3 DEF send_friend_request, Opens, T
<1>2. CASE respond_friend_request(p)
  <2>1. PICK u \in Users, r \in store["friends"], answer \in {"accepted", "declined"} :
            respond_to_friend_request(p, u, r, answer)
    BY <1>2 DEF respond_friend_request
  <2>2. AllOk(<< {Update("friends", r.id, [status |-> answer])},
                 {Later("refresh", [id |-> Self, request |-> r.id])} >>, T, Self)
    BY <1>0, FriendAnswerOk, LaterOk, AllTwo DEF FriendRequestStatus
  <2> QED BY <2>1, <2>2 DEF respond_to_friend_request, Opens, T
<1>3. CASE follow(p)
  <2>1. PICK u \in Users, w \in Users : follow_user(p, u, w)
    BY <1>3 DEF follow
  <2>2. AllOk(<<{Insert("followers", [id |-> Self, from |-> u, to |-> w])}>>
              \o invalidate(u, w) \o create_notification(w, "follow", u), T, Self)
    BY <1>0, FollowerOk, AllOne, InvalidateOk, NotificationOk, AllConcat
  <2> QED BY <2>1, <2>2 DEF follow_user, Opens, T
<1>4. CASE unfollow(p)
  <2>1. PICK u \in Users, w \in Users : unfollow_user(p, u, w)
    BY <1>4 DEF unfollow
  <2>2. AllOk(<< DeleteAll("followers", FromTo("followers", u, w)) >> \o invalidate(u, w), T, Self)
    BY <1>0, DeletesOk, AllOne, InvalidateOk, AllConcat
  <2> QED BY <2>1, <2>2 DEF unfollow_user, Opens, T
<1>5. CASE block(p)
  <2>1. PICK u \in Users, w \in Users : block_user(p, u, w)
    BY <1>5 DEF block
  <2>2. AllOk(<< {Insert("blocks", [id |-> Self, from |-> u, to |-> w])}
                 \cup DeleteAll("friends", Between("friends", u, w))
                 \cup DeleteAll("followers", Between("followers", u, w)) >>
              \o invalidate(u, w), T, Self)
    BY <1>0, BlockOk, DeletesOk, OkUnion, AllOne, InvalidateOk, AllConcat
  <2> QED BY <2>1, <2>2 DEF block_user, Opens, T
<1>6. CASE unblock(p)
  <2>1. PICK u \in Users, w \in Users : unblock_user(p, u, w)
    BY <1>6 DEF unblock
  <2>2. AllOk(<< DeleteAll("blocks", FromTo("blocks", u, w)) >> \o invalidate(u, w), T, Self)
    BY <1>0, DeletesOk, AllOne, InvalidateOk, AllConcat
  <2> QED BY <2>1, <2>2 DEF unblock_user, Opens, T
<1> QED BY <1>1, <1>2, <1>3, <1>4, <1>5, <1>6 DEF RelationRoutes, T

\* A read of a feed fills the cache and makes the row of controls.
LEMMA ReadOk ==
    ASSUME TypeInv, NEW u, NEW T, {"relations_cache", "feed_controls"} \subseteq T
    PROVE  /\ AllOk(load_relationships(u), T, Self)
           /\ AllOk(get_controls(u), T, Self)
<1>1. "relations_cache" \notin DOMAIN RowTypes /\ "feed_controls" \notin DOMAIN RowTypes
  BY TypesByTable
<1>2. Ok(Put("relations_cache", [id |-> u, relations |-> RelationsOf(u)]), T, Self)
  <2> DEFINE row == [id |-> u, relations |-> RelationsOf(u)]
  <2>1. "id" \in DOMAIN row /\ "born" \notin DOMAIN row
    OBVIOUS
  <2> HIDE DEF row
  <2>2. Ok({Delete("relations_cache", row.id)}, T, Self) /\ Ok({Insert("relations_cache", row)}, T, Self)
    BY <1>1, <2>1, DeleteOk, InsertOk DEF Keyed
  <2>3. Ok(Put("relations_cache", row), T, Self)
    BY <2>2 DEF Put, Ok
  <2> QED BY <2>3 DEF row
<1>3. Ok({InsertUnique("feed_controls", NewControls(u), {"id"})}, T, Self)
  <2>1. "id" \in DOMAIN NewControls(u) /\ "born" \notin DOMAIN NewControls(u)
    BY DEF NewControls
  <2> QED BY <1>1, <2>1, InsertOk DEF Keyed
<1> QED BY <1>2, <1>3, AllOne, OkNone DEF load_relationships, get_controls

FeedReads == {"relations_cache", "feed_controls"}

LEMMA FeedReadsOpen ==
    ASSUME TypeInv, NEW p, read_feed(p)
    PROVE  Opens(p, FeedReads)
BY ReadOk, AllConcat DEF read_feed, Opens, FeedReads

\* The analysis of a text, and the terms a message lifts.
LEMMA AnalysisOk ==
    ASSUME served \in Nat, NEW findings, NEW T, "ai_results" \in T
    PROVE  Ok(analyze_content(findings), T, Self)
<1> DEFINE row == Overlay([id |-> Self], _calculate_overall_risk(findings))
<1>1. Self \in Int /\ Self <= Self /\ "ai_results" \notin DOMAIN RowTypes
  BY TypesByTable DEF Self
<1>2. "born" \notin DOMAIN _calculate_overall_risk(findings)
  BY DEF _calculate_overall_risk
<1>3. "id" \in DOMAIN row /\ row.id = Self /\ "born" \notin DOMAIN row
  BY <1>2 DEF Overlay
<1> HIDE DEF row
<1>4. Ok({Insert("ai_results", row)}, T, Self)
  BY <1>1, <1>3, InsertOk
<1> QED BY <1>4 DEF analyze_content, row

LEMMA LiftOk ==
    ASSUME NEW u, NEW T, "users" \in T
    PROVE  Ok(_refresh_user_moderation(u), T, Self)
<1> DEFINE a == Account(u)
           lift == IF a.is_suspended /\ a.suspended_until = "past"
                   THEN [is_suspended |-> FALSE, suspended_until |-> None] ELSE <<>>
           unmute == IF a.is_muted /\ a.muted_until = "past"
                     THEN [is_muted |-> FALSE, muted_until |-> None] ELSE <<>>
<1>1. /\ DOMAIN lift \subseteq {"is_suspended", "suspended_until"}
      /\ "is_suspended" \in DOMAIN lift => lift["is_suspended"] = FALSE
      /\ "suspended_until" \in DOMAIN lift => lift["suspended_until"] = None
  OBVIOUS
<1>2. /\ DOMAIN unmute \subseteq {"is_muted", "muted_until"}
      /\ "is_muted" \in DOMAIN unmute => unmute["is_muted"] = FALSE
      /\ "muted_until" \in DOMAIN unmute => unmute["muted_until"] = None
  OBVIOUS
<1>3. _refresh_user_moderation(u) = Edit("users", a, Overlay(lift, unmute))
  BY DEF _refresh_user_moderation
<1> HIDE DEF lift, unmute, a
<1> DEFINE cols == Overlay(lift, unmute)
<1>4. /\ DOMAIN cols \subseteq {"is_suspended", "suspended_until", "is_muted", "muted_until"}
      /\ "is_suspended" \in DOMAIN cols => cols["is_suspended"] = FALSE
      /\ "suspended_until" \in DOMAIN cols => cols["suspended_until"] = None
      /\ "is_muted" \in DOMAIN cols => cols["is_muted"] = FALSE
      /\ "muted_until" \in DOMAIN cols => cols["muted_until"] = None
  BY <1>1, <1>2 DEF Overlay
<1> HIDE DEF cols
<1>5. Ok(Edit("users", a, cols), T, Self)
  BY <1>4, AccountEditOk
<1> QED BY <1>3, <1>5 DEF cols

\* What a decision sets.
LEMMA SanctionOk ==
    ASSUME NEW a, NEW action \in UserActions, NEW term \in {None, "later"}, NEW T, "users" \in T
    PROVE  Ok(Edit("users", a, Sanction(action, term)), T, Self)
<1> DEFINE cols == Sanction(action, term)
<1>1. /\ DOMAIN cols \subseteq {"is_suspended", "suspended_until", "is_muted", "muted_until",
                                "is_shadow_banned"}
      /\ "is_suspended" \in DOMAIN cols => cols["is_suspended"] \in BOOLEAN
      /\ "suspended_until" \in DOMAIN cols => cols["suspended_until"] \in {None, "later", "past"}
      /\ "is_muted" \in DOMAIN cols => cols["is_muted"] \in BOOLEAN
      /\ "muted_until" \in DOMAIN cols => cols["muted_until"] \in {None, "later", "past"}
      /\ "is_shadow_banned" \in DOMAIN cols => cols["is_shadow_banned"] \in BOOLEAN
  BY DEF Sanction, UserActions, Suspending
<1> HIDE DEF cols
<1>2. Ok(Edit("users", a, cols), T, Self)
  BY <1>1, AccountEditOk
<1> QED BY <1>2 DEF cols

\* A report is about a user or a row with a number.
LEMMA TargetsType ==
    ASSUME TypeInv, NEW type \in ReportTypes, NEW t \in store[type]
    PROVE  t.id \in Users \cup Int
<1>1. CASE type = "users"
  BY <1>1, StoreTypes DEF User
<1>2. CASE type # "users"
  <2>1. type \in Tables \ Keyed
    BY <1>2, TablesAssumption DEF ReportTypes, ChatTables, FeedTables, GroupTables, Keyed
  <2> QED BY <2>1, RowNumbers
<1> QED BY <1>1, <1>2
DecisionWrites == {"users", "reports", "moderation_actions", "messages", "posts",
                   "group_messages", "group_posts"}

\* The decisions on reports.
LEMMA DecisionsOpen ==
    ASSUME TypeInv, NEW p, resolve_report_route(p)
    PROVE  Opens(p, DecisionWrites)
<1> DEFINE T == DecisionWrites
<1>0. /\ {"users", "reports", "moderation_actions", "messages", "posts",
          "group_messages", "group_posts"} \subseteq T
      /\ Self \in Int /\ Self <= Self /\ served \in Nat
  BY StoreTypes DEF DecisionWrites
<1> HIDE DEF T
<1>1. CASE \E m \in Moderators, r \in store["reports"] : resolve_report(p, r)
  <2>1. \A r : AllOk(<< Edit("reports", r, [status |-> "resolved"]) >>, T, Self)
    BY <1>0, ReportEditOk, AllOne
  <2> QED BY <1>1, <2>1 DEF resolve_report, Opens, T
<1>2. CASE \E m \in Moderators, r \in store["reports"],
               action \in UserActions \cup {"warning", "content_removal"}, term \in {None, "later"} :
              Decide(p, m, r, action, term)
  <2>1. PICK m \in Moderators, r \in store["reports"],
             action \in UserActions \cup {"warning", "content_removal"},
             term \in {None, "later"} : Decide(p, m, r, action, term)
    BY <1>2
  <2> DEFINE sanction == IF action \in UserActions
                         THEN Edit("users", Account(r.target), Sanction(action, term)) ELSE {}
             removal == IF action = "content_removal" THEN {Delete(r.type, r.target)} ELSE {}
             taken == [id |-> Self, report |-> r.id, moderator |-> m, target |-> r.target,
                       action_type |-> action]
             batch == sanction \cup removal \cup {Insert("moderation_actions", taken)}
                      \cup Edit("reports", r, [status |-> "resolved"])
  <2>2. Ok(sanction, T, Self)
    BY <1>0, SanctionOk, OkNone
  <2>3. Ok(removal, T, Self)
    <3>1. r.type \in T /\ r.type \in ReportTypes
      BY <1>0, StoreTypes DEF Report, ReportTypes
    <3>2. action = "content_removal" => r.type # "users"
      BY <2>1 DEF Decide
    <3> QED BY <3>1, <3>2, DeleteOk, OkNone DEF ReportTypes
  <2>4. Ok({Insert("moderation_actions", taken)}, T, Self)
    BY <1>0, InsertOk, TypesByTable
  <2>5. Ok(Edit("reports", r, [status |-> "resolved"]), T, Self)
    BY <1>0, ReportEditOk
  <2>6. Begin(p, <<batch>>)
    BY <2>1 DEF Decide
  <2> HIDE DEF sanction, removal, taken
  <2>7. AllOk(<<batch>>, T, Self)
    BY <2>2, <2>3, <2>4, <2>5, OkUnion, AllOne
  <2> QED BY <2>6, <2>7 DEF Opens, T
<1> QED BY <1>1, <1>2 DEF resolve_report_route, apply_action, T

ModerationWrites == {"users", "reports", "moderation_actions", "messages", "posts",
                     "group_messages", "group_posts", "votes", "ai_results",
                     "training_data"}

\* The routes of reports, votes and the analysis of texts.
LEMMA ModerationOpen ==
    ASSUME TypeInv, NEW p, ModerationRoutes(p)
    PROVE  Opens(p, ModerationWrites)
<1> DEFINE T == ModerationWrites
<1>0. /\ {"users", "reports", "moderation_actions", "messages", "posts",
          "group_messages", "group_posts", "votes", "ai_results",
          "training_data"} \subseteq T
      /\ Self \in Int /\ Self <= Self /\ served \in Nat
  BY StoreTypes DEF ModerationWrites
<1> HIDE DEF T
<1>1. CASE create_report_route(p)
  <2>1. PICK u \in Users, type \in ReportTypes : \E t \in store[type] :
            create_report(p, u, type, t.id)
    BY <1>1 DEF create_report_route
  <2>2. PICK t \in store[type] : create_report(p, u, type, t.id)
    BY <2>1
  <2>3. t.id \in Users \cup Int
    BY TargetsType
  <2>4. AllOk(<< {Insert("reports", [id |-> Self, reporter |-> u, type |-> type,
                                    target |-> t.id, status |-> "open"])} >>, T, Self)
    BY <1>0, <2>3, ReportOk, AllOne
  <2> QED BY <2>2, <2>4 DEF create_report, Opens, T
<1>2. CASE resolve_report_route(p)
  <2>1. Opens(p, DecisionWrites)
    BY <1>2, DecisionsOpen
  <2>2. DecisionWrites \subseteq T
    BY <1>0 DEF DecisionWrites
  <2> QED BY <1>0, <2>1, <2>2, AllWider DEF Opens, T
<1>3. CASE smart_report_handling(p)
  <2>1. \A r, status : status \in {"resolved_ai", "flagged_ai", "escalated"} =>
            AllOk(<< Edit("reports", r, [status |-> status]) >>, T, Self)
    BY <1>0, ReportEditOk, AllOne
  <2> QED BY <1>3, <2>1 DEF smart_report_handling, Opens, T
<1>4. CASE submit_community_vote(p)
  <2>1. "votes" \notin DOMAIN RowTypes
    BY TypesByTable
  <2>2. \A r, u : AllOk(<< {Insert("votes", [id |-> Self, report |-> r, user |-> u])} >>, T, Self)
    BY <1>0, <2>1, InsertOk, AllOne
  <2> QED BY <1>4, <2>1, <2>2 DEF submit_community_vote, Opens, T
<1>5. CASE analyze_content_route(p)
  <2>1. \A findings : AllOk(<< analyze_content(findings) >>, T, Self)
    BY <1>0, AnalysisOk, AllOne
  <2> QED BY <1>5, <2>1 DEF analyze_content_route, Opens, T
<1>6. CASE submit_training_feedback(p)
  <2> DEFINE row(r, label) == [id |-> Self, ai_result |-> r.id, human_label |-> label,
                               is_used_for_training |-> label = "correct"]
  <2>1. PICK r, label : Begin(p, << {Insert("training_data", row(r, label))} >>)
    BY <1>6 DEF submit_training_feedback
  <2>2. /\ "id" \in DOMAIN row(r, label) /\ "born" \notin DOMAIN row(r, label)
        /\ row(r, label).id = Self /\ "training_data" \notin DOMAIN RowTypes
    BY TypesByTable
  <2> HIDE DEF row
  <2>3. AllOk(<< {Insert("training_data", row(r, label))} >>, T, Self)
    BY <1>0, <2>2, InsertOk, AllOne
  <2> QED BY <2>1, <2>3 DEF Opens, T
<1> QED BY <1>1, <1>2, <1>3, <1>4, <1>5, <1>6 DEF ModerationRoutes, T

\* The batches of a message, and of its neighbours in a conversation.
LEMMA SentOk ==
    ASSUME TypeInv, NEW u \in Users, NEW w \in Users, NEW findings, NEW T,
           {"messages", "delivered", "pushed", "notifications", "ai_results",
            "users"} \subseteq T
    PROVE  /\ AllOk(Sent(u, w, findings), T, Self)
           /\ AllOk(<< Head(Sent(u, w, findings)),
                       {deliver(u, u, "chat"), deliver(u, w, "chat")} >>, T, Self)
           /\ AllOk(Tail(Sent(u, w, findings)), T, Self)
           /\ AllOk(<< {deliver(u, w, "message")}, {deliver(u, u, "chat")} >>, T, Self)
           /\ AllOk(<< {deliver(u, w, "chat")} >>, T, Self)
<1> DEFINE stored == {Insert("messages", NewMessage(u, w)), notify(w, "message", u)}
                     \cup analyze_content(findings) \cup _refresh_user_moderation(u)
<1>1. Self \in Int /\ Self <= Self /\ served \in Nat
  BY StoreTypes
<1>2. Ok({Insert("messages", NewMessage(u, w))}, T, Self)
  BY <1>1, MessageOk DEF NewMessage
<1>3. Ok({notify(w, "message", u)}, T, Self)
  BY <1>1, NotificationOk
<1>4. Ok({Insert("messages", NewMessage(u, w)), notify(w, "message", u)}, T, Self)
  BY <1>2, <1>3 DEF Ok
<1>5. Ok(analyze_content(findings), T, Self) /\ Ok(_refresh_user_moderation(u), T, Self)
  BY <1>1, AnalysisOk, LiftOk
<1>6. Ok(stored, T, Self)
  BY <1>4, <1>5, OkUnion
<1>7. \A user, kind : Ok({deliver(u, user, kind)}, T, Self)
  BY <1>1, InsertOk, TypesByTable DEF deliver
<1>8. Ok({deliver(u, u, "chat"), deliver(u, w, "chat")}, T, Self)
  BY <1>7 DEF Ok
<1>9. Sent(u, w, findings) = << {deliver(u, w, "message")}, stored >>
  BY DEF Sent
<1> HIDE DEF stored
<1>10. Head(Sent(u, w, findings)) = {deliver(u, w, "message")} /\ Tail(Sent(u, w, findings)) = <<stored>>
  BY <1>9
<1> QED BY <1>6, <1>7, <1>8, <1>9, <1>10, AllOne, AllTwo

ChatWrites == {"messages", "delivered", "chat_settings", "pushed", "notifications",
               "ai_results", "users"}

\* Direct messages.
LEMMA ChatOpen ==
    ASSUME TypeInv, NEW p, ChatRoutes(p)
    PROVE  Opens(p, ChatWrites)
<1> DEFINE T == ChatWrites
<1>0. /\ {"messages", "delivered", "chat_settings", "pushed", "notifications",
          "ai_results", "users"} \subseteq T
      /\ Self \in Int /\ Self <= Self /\ served \in Nat
  BY StoreTypes DEF ChatWrites
<1> HIDE DEF T
<1>1. CASE create_message(p)
  <2>1. PICK u \in Users, w \in Users, findings \in Contents :
            send_message(p, u, w, findings) \/ send_media_message(p, u, w, findings)
    BY <1>1 DEF create_message
  <2>2. AllOk(Sent(u, w, findings), T, Self)
    BY <1>0, SentOk
  <2> QED BY <2>1, <2>2, RefreshedOpens DEF send_message, send_media_message, Opens, T
<1>2. CASE gateway_message(p)
  <2>1. PICK u \in Users, w \in Users, findings \in Contents :
            chat_websocket_message(p, u, w, findings)
    BY <1>2 DEF gateway_message
  <2>2. AllOk(<< {deliver(u, w, "message")}, {deliver(u, u, "chat")} >>, T, Self)
    BY <1>0, SentOk
  <2>3. AllOk(<<>>, T, Self) /\ AllOk(<< {deliver(u, w, "chat")} >>, T, Self)
    BY <1>0, SentOk, OkNone
  <2>4. AllOk(<< {deliver(u, w, "message")}, {deliver(u, u, "chat")} >>
              \o (IF is_user_shadow_banned(u) THEN <<>> ELSE << {deliver(u, w, "chat")} >>), T, Self)
    BY <2>2, <2>3, AllConcat
  <2> QED BY <2>1, <2>2, <2>3, <2>4, RefreshedOpens DEF chat_websocket_message, Opens, T
<1>3. CASE create_media_message(p)
  <2>1. PICK u \in Users, w \in Users, findings \in Contents :
            Begin(p, <<Head(Sent(u, w, findings)), {deliver(u, u, "chat"), deliver(u, w, "chat")}>>
                     \o Tail(Sent(u, w, findings)))
    BY <1>3 DEF create_media_message
  <2>2. AllOk(<<Head(Sent(u, w, findings)), {deliver(u, u, "chat"), deliver(u, w, "chat")}>>
              \o Tail(Sent(u, w, findings)), T, Self)
    BY <1>0, SentOk, AllConcat
  <2> QED BY <2>1, <2>2 DEF create_media_message, Opens, T
<1>4. CASE delete_message_endpoint(p)
  <2>1. \A i : AllOk(<< {Delete("messages", i)} >>, T, Self)
    BY <1>0, DeleteOk, AllOne
  <2> QED BY <1>4, <2>1 DEF delete_message_endpoint, delete_message, Opens, T
<1>5. CASE update_message_endpoint(p)
  <2>1. PICK u \in Users, m \in store["messages"] :
            update_message(p, u, m)
    BY <1>5 DEF update_message_endpoint, _get_message_in_conversation
  <2>2. AllOk(<< Edit("messages", m, [edited |-> TRUE]) >>, T, Self)
    BY <1>0, MessageEditOk, AllOne
  <2> QED BY <2>1, <2>2, RefreshedOpens DEF update_message, Change, Opens, T
<1>6. CASE mark_message_seen_endpoint(p)
  <2>1. PICK u \in Users, m \in store["messages"] :
            mark_message_as_seen(p, u, m)
    BY <1>6 DEF mark_message_seen_endpoint, _get_message_in_conversation
  <2>2. AllOk(<< Edit("messages", m, [is_seen |-> TRUE]) >>, T, Self)
    BY <1>0, MessageEditOk, AllOne
  <2> QED BY <2>1, <2>2, RefreshedOpens DEF mark_message_as_seen, Change, Opens, T
<1>7. CASE toggle_pin_message_endpoint(p)
  <2>1. PICK u \in Users, m \in store["messages"] :
            toggle_pin_message(p, m)
    BY <1>7 DEF toggle_pin_message_endpoint, _get_message_in_conversation
  <2>2. AllOk(<< Edit("messages", m, [is_pinned |-> ~m.is_pinned]) >>, T, Self)
    BY <1>0, MessageEditOk, AllOne
  <2> QED BY <2>1, <2>2, RefreshedOpens DEF toggle_pin_message, Change, Opens, T
<1>8. CASE toggle_message_reaction_endpoint(p)
  <2>1. PICK u \in Users, m \in store["messages"] :
            toggle_message_reaction(p, u, m)
    BY <1>8 DEF toggle_message_reaction_endpoint, _get_message_in_conversation
  <2>2. AllOk(<< Edit("messages", m, [reactions |-> IF u \in m.reactions THEN m.reactions \ {u}
                                                   ELSE m.reactions \cup {u}]) >>, T, Self)
    BY <1>0, MessageEditOk, AllOne, StoreTypes DEF Message
  <2> QED BY <2>1, <2>2, RefreshedOpens DEF toggle_message_reaction, Change, Opens, T
<1>9. CASE forward_message_endpoint(p)
  <2>1. PICK u \in Users, w \in Users, findings \in Contents, m \in store["messages"] :
            forward_message(p, u, m, w, findings)
    BY <1>9 DEF forward_message_endpoint, _get_message_in_conversation
  <2>2. AllOk(Sent(u, w, findings), T, Self)
    BY <1>0, SentOk
  <2> QED BY <2>1, <2>2, RefreshedOpens DEF forward_message, send_message, Opens, T
<1>10. CASE patch_chat_settings(p)
  <2>1. PICK u \in Users, w \in Users, muted \in BOOLEAN :
            update_chat_settings(p, u, w, muted)
    BY <1>10 DEF patch_chat_settings
  <2>2. "chat_settings" \notin DOMAIN RowTypes
    BY TypesByTable
  <2>3. AllOk(<< {InsertUnique("chat_settings",
                     [id |-> Self, user |-> u, peer |-> w, is_muted |-> muted],
                     {"user", "peer"})} >>, T, Self)
    BY <1>0, <2>2, InsertOk, AllOne
  <2>4. \A s : AllOk(<< Edit("chat_settings", s, [is_muted |-> muted]) >>, T, Self)
    BY <1>0, <2>2, EditOk, AllOne
  <2> QED BY <2>1, <2>2, <2>3, <2>4, RefreshedOpens DEF update_chat_settings, Opens, T
<1> QED BY <1>1, <1>2, <1>3, <1>4, <1>5, <1>6, <1>7, <1>8, <1>9, <1>10 DEF ChatRoutes, T

\* Two writes of one batch.
LEMMA OkPair ==
    ASSUME NEW a, NEW b, NEW T, NEW n, Ok({a}, T, n), Ok({b}, T, n)
    PROVE  Ok({a, b}, T, n)
BY DEF Ok

\* A made-up message is under a number a client may name.
LEMMA PlaceholderOk ==
    ASSUME TypeInv, NEW i \in MessageIds, NEW user \in Users \cup {None}, NEW T,
           "messages" \in T
    PROVE  Ok(_ensure_message_exists(i, user), T, Self)
<1>1. i \in Int /\ i <= Self /\ Self \in Int
  <2>1. "messages" \in Tables \ Keyed
    BY TablesAssumption DEF ChatTables, Keyed
  <2>2. \A m \in store["messages"] : m.id \in Int /\ m.id <= served
    BY <2>1, RowNumbers
  <2>3. served \in Nat
    BY StoreTypes
  <2>4. i = -1 \/ \E m \in store["messages"] : i = m.id
    BY DEF MessageIds
  <2> QED BY <2>2, <2>3, <2>4 DEF Self
<1>2. Ok({InsertUnique("messages", [NewMessage(user, user) EXCEPT !.id = i], {"id"})}, T, Self)
  <2> DEFINE row == [NewMessage(user, user) EXCEPT !.id = i]
  <2>1. \A k \in Nat : Overlay(row, [born |-> k]) \in Message
    BY <1>1 DEF Overlay, Message, NewMessage
  <2>2. "id" \in DOMAIN row /\ "born" \notin DOMAIN row /\ row.id = i
    BY DEF NewMessage
  <2> HIDE DEF row
  <2>3. Ok({InsertUnique("messages", row, {"id"})}, T, Self)
    BY <1>1, <2>1, <2>2, TypedInsertOk, TypesByTable
  <2> QED BY <2>3 DEF row
<1> QED BY <1>2, OkNone DEF _ensure_message_exists

ChatExtraWrites == {"bookmarks", "scheduled_messages", "translations", "messages",
                    "device_syncs", "backups", "galleries", "gallery_items",
                    "transcriptions"}

\* Chat extras.
LEMMA ChatExtrasOpen ==
    ASSUME TypeInv, NEW p, ChatExtraRoutes(p)
    PROVE  Opens(p, ChatExtraWrites)
<1> DEFINE T == ChatExtraWrites
<1>0. /\ {"bookmarks", "scheduled_messages", "translations", "messages",
          "device_syncs", "backups", "galleries", "gallery_items",
          "transcriptions"} \subseteq T
      /\ Self \in Int /\ Self <= Self /\ served \in Nat
  BY StoreTypes DEF ChatExtraWrites
<1> HIDE DEF T
<1>1. CASE add_bookmark(p)
  <2>1. PICK u \in Users, m \in store["messages"] :
            bookmark_message(p, u, m)
    BY <1>1 DEF add_bookmark
  <2>2. "bookmarks" \notin DOMAIN RowTypes
    BY TypesByTable
  <2>3. AllOk(<< {InsertUnique("bookmarks", [id |-> Self, user |-> u, message |-> m.id], {"user", "message"})} >>, T, Self)
    BY <1>0, <2>2, InsertOk, AllOne
  <2> QED BY <2>1, <2>2, <2>3 DEF bookmark_message, Opens, T
<1>2. CASE remove_bookmark(p)
  <2>1. \A i : AllOk(<< {Delete("bookmarks", i)} >>, T, Self)
    BY <1>0, DeleteOk, AllOne
  <2> QED BY <1>2, <2>1 DEF remove_bookmark, unbookmark_message, Opens, T
<1>3. CASE schedule_new_message(p)
  <2>1. PICK u \in Users, w \in Users :
            schedule_message(p, u, w)
    BY <1>3 DEF schedule_new_message
  <2>2. "scheduled_messages" \notin DOMAIN RowTypes
    BY TypesByTable
  <2>3. AllOk(<< {Insert("scheduled_messages", [id |-> Self, sender |-> u, receiver |-> w, status |-> "scheduled"])} >>, T, Self)
    BY <1>0, <2>2, InsertOk, AllOne
  <2> QED BY <2>1, <2>2, <2>3 DEF schedule_message, Opens, T
<1>4. CASE cancel_scheduled(p)
  <2>1. \A i : AllOk(<< {Delete("scheduled_messages", i)} >>, T, Self)
    BY <1>0, DeleteOk, AllOne
  <2> QED BY <1>4, <2>1 DEF cancel_scheduled, cancel_scheduled_message, Opens, T
<1>5. CASE translate_msg(p)
  <2>1. PICK i \in MessageIds :
            translate_message(p, i, "en")
    BY <1>5 DEF translate_msg
  <2>2. "translations" \notin DOMAIN RowTypes
    BY TypesByTable
  <2>3. Ok({InsertUnique("translations", [id |-> Self, message |-> i, language |-> "en"],
                           {"message", "language"})}, T, Self)
    BY <1>0, <2>2, InsertOk
  <2>4. Ok(_ensure_message_exists(i, None), T, Self)
    BY <1>0, PlaceholderOk
  <2> QED BY <2>1, <2>2, <2>3, <2>4, OkUnion, AllOne DEF translate_message, Opens, T
<1>6. CASE sync_to_device(p)
  <2>1. PICK u \in Users, i \in MessageIds :
            sync_message_to_device(p, u, "phone", i)
    BY <1>6 DEF sync_to_device
  <2>2. "device_syncs" \notin DOMAIN RowTypes
    BY TypesByTable
  <2>3. Ok({Insert("device_syncs", [id |-> Self, user |-> u, device |-> "phone",
                                  message |-> i, status |-> "pending"])}, T, Self)
    BY <1>0, <2>2, InsertOk
  <2>4. Ok(_ensure_message_exists(i, u), T, Self)
    BY <1>0, PlaceholderOk
  <2> QED BY <2>1, <2>2, <2>3, <2>4, OkUnion, AllOne DEF sync_message_to_device, Opens, T
<1>7. CASE mark_synced(p)
  <2>1. "device_syncs" \notin DOMAIN RowTypes
    BY TypesByTable
  <2>2. \A s : AllOk(<< Edit("device_syncs", s, [status |-> "synced"]) >>, T, Self)
    BY <1>0, <2>1, EditOk, AllOne
  <2> QED BY <1>7, <2>1, <2>2 DEF mark_synced, mark_sync_complete, Opens, T
<1>8. CASE initiate_backup(p)
  <2>1. PICK u \in Users :
            create_backup(p, u)
    BY <1>8 DEF initiate_backup
  <2>2. "backups" \notin DOMAIN RowTypes
    BY TypesByTable
  <2>3. AllOk(<< {Insert("backups", [id |-> Self, user |-> u, status |-> "pending"])} >>, T, Self)
    BY <1>0, <2>2, InsertOk, AllOne
  <2> QED BY <2>1, <2>2, <2>3 DEF create_backup, Opens, T
<1>9. CASE create_gallery(p)
  <2>1. PICK u \in Users, w \in Users :
            create_media_gallery(p, u, w)
    BY <1>9 DEF create_gallery
  <2>2. "galleries" \notin DOMAIN RowTypes
    BY TypesByTable
  <2>3. AllOk(<< {Insert("galleries", [id |-> Self, members |-> {u, w}, creator |-> u, media_count |-> 0])} >>, T, Self)
    BY <1>0, <2>2, InsertOk, AllOne
  <2> QED BY <2>1, <2>2, <2>3 DEF create_media_gallery, Opens, T
<1>10. CASE add_media(p)
  <2>1. PICK g \in store["galleries"], m \in store["messages"] :
            add_media_to_gallery(p, g, m)
    BY <1>10 DEF add_media
  <2>2. "galleries" \notin DOMAIN RowTypes /\ "gallery_items" \notin DOMAIN RowTypes
    BY TypesByTable
  <2>3. Ok({Insert("gallery_items", [id |-> Self, gallery |-> g.id, message |-> m.id])}, T, Self)
    BY <1>0, <2>2, InsertOk
  <2>4. Ok(Edit("galleries", g, [media_count |-> g.media_count + 1]), T, Self)
    BY <1>0, <2>2, EditOk
  <2> QED BY <2>1, <2>2, <2>3, <2>4, OkUnion, AllOne DEF add_media_to_gallery, Opens, T
<1>11. CASE upload_voice_message(p)
  <2>1. PICK m \in store["messages"] :
            create_voice_transcription(p, m)
    BY <1>11 DEF upload_voice_message
  <2>2. "transcriptions" \notin DOMAIN RowTypes
    BY TypesByTable
  <2>3. AllOk(<< {Insert("transcriptions", [id |-> Self, message |-> m.id, is_processed |-> FALSE])} >>, T, Self)
    BY <1>0, <2>2, InsertOk, AllOne
  <2> QED BY <2>1, <2>2, <2>3 DEF create_voice_transcription, Opens, T
<1>12. CASE mark_message_encryption(p)
  <2>1. AllOk(<<>>, T, Self)
    BY OkNone
  <2> QED BY <1>12, <2>1 DEF mark_message_encryption, mark_message_encrypted, Opens, T
<1> QED BY <1>1, <1>2, <1>3, <1>4, <1>5, <1>6, <1>7, <1>8, <1>9, <1>10, <1>11, <1>12 DEF ChatExtraRoutes, T

\* The events a request may append, now or later, and who hears of them.
LEMMA EventOk ==
    ASSUME NEW n \in Int, NEW i \in Int, i <= n, NEW event \in log_event(i), NEW T, "events" \in T
    PROVE  Ok({event}, T, n)
<1>1. PICK e : /\ event = Insert("events", e)
               /\ "id" \in DOMAIN e /\ e.id = i /\ "born" \notin DOMAIN e
  BY DEF log_event
<1> QED BY <1>1, InsertOk, TypesByTable

LEMMA AnnouncedOk ==
    ASSUME TypeInv, NEW post, NEW u, NEW kind, NEW T,
           {"pushed", "notifications", "handler"} \subseteq T
    PROVE  /\ Ok({LogLater}, T, Self)
           /\ AllOk(Announced(post, u, kind), T, Self)
<1>1. Self \in Int /\ Self <= Self /\ served \in Nat
  BY StoreTypes
<1>2. Ok({LogLater}, T, Self)
  BY <1>1, LaterOk DEF LogLater
<1>3. /\ Ok({push(post.user, kind)}, T, Self)
      /\ Ok({notify(post.user, kind, u), LogLater}, T, Self)
  BY <1>1, <1>2, NotificationOk, OkPair
<1> QED BY <1>2, <1>3, AllOne, AllTwo DEF Announced

PostWrites == {"posts", "ai_results", "events", "comments", "feed_controls",
               "relations_cache", "pushed", "notifications", "handler"}

\* Posts, comments and feed controls.
LEMMA PostsOpen ==
    ASSUME TypeInv, NEW p, PostRoutes(p)
    PROVE  Opens(p, PostWrites)
<1> DEFINE T == PostWrites
<1>0. /\ {"posts", "ai_results", "events", "comments", "feed_controls",
          "relations_cache", "pushed", "notifications", "handler"} \subseteq T
      /\ Self \in Int /\ Self <= Self /\ served \in Nat
  BY StoreTypes DEF PostWrites
<1> HIDE DEF T
<1>1. CASE create_post_route(p)
  <2>1. PICK u \in Users, content \in Contents, visibility \in PostVisibility :
            create_post(p, u, content, visibility)
    BY <1>1 DEF create_post_route
  <2> DEFINE added == Insert("posts", [id |-> Self, user |-> u, content |-> content,
                                      visibility |-> visibility])
  <2>2. PICK event \in log_event(Self) : Begin(p, << analyze_content(content) \cup {added, event} >>)
    BY <2>1 DEF create_post
  <2>3. Ok({added}, T, Self) /\ Ok({event}, T, Self) /\ Ok(analyze_content(content), T, Self)
    BY <1>0, PostOk, EventOk, AnalysisOk
  <2> HIDE DEF added
  <2>4. AllOk(<< analyze_content(content) \cup {added, event} >>, T, Self)
    BY <2>3, OkPair, OkUnion, AllOne
  <2> QED BY <2>2, <2>4 DEF Opens, T
<1>2. CASE update_post_route(p)
  <2>1. PICK post \in store["posts"], content \in Contents, visibility \in PostVisibility :
            update_post(p, post, content, visibility)
    BY <1>2 DEF update_post_route
  <2> DEFINE changes == Edit("posts", post, [content |-> content, visibility |-> visibility])
  <2>2. PICK event \in log_event(Self) : Begin(p, << changes \cup {event} >>)
    BY <2>1 DEF update_post
  <2>3. Ok(changes, T, Self) /\ Ok({event}, T, Self)
    BY <1>0, PostEditOk, EventOk
  <2> HIDE DEF changes
  <2>4. AllOk(<< changes \cup {event} >>, T, Self)
    BY <2>3, OkUnion, AllOne
  <2> QED BY <2>2, <2>4 DEF Opens, T
<1>3. CASE delete_post_route(p)
  <2>1. PICK post \in store["posts"], event \in log_event(Self) :
            Begin(p, << {Delete("posts", post.id), event} >>)
    BY <1>3 DEF delete_post_route, delete_post
  <2>2. AllOk(<< {Delete("posts", post.id), event} >>, T, Self)
    BY <1>0, DeleteOk, EventOk, OkPair, AllOne
  <2> QED BY <2>1, <2>2 DEF Opens, T
<1>4. CASE create_comment_route(p)
  <2>1. PICK u \in Users, post \in store["posts"], content \in Contents :
            create_comment(p, u, post, content)
    BY <1>4 DEF create_comment_route
  <2>2. "comments" \notin DOMAIN RowTypes
    BY TypesByTable
  <2>3. Ok({Insert("comments", [id |-> Self, post |-> post.id, user |-> u, content |-> content])},
           T, Self)
    BY <1>0, <2>2, InsertOk
  <2>4. AllOk(Announced(post, u, "post_comment"), T, Self)
    BY <1>0, AnnouncedOk
  <2> QED BY <2>1, <2>2, <2>3, <2>4, AllOne, AllConcat DEF create_comment, Opens, T
<1>5. CASE update_user_feed_settings(p)
  <2>1. PICK u \in Users, muted \in Contents, hidden \in BOOLEAN :
            update_controls(p, u, muted, hidden)
    BY <1>5 DEF update_user_feed_settings
  <2>2. "feed_controls" \notin DOMAIN RowTypes
    BY TypesByTable
  <2>3. AllOk(<< Edit("feed_controls", ControlsOf(u),
                    [muted_words |-> muted, sensitive_content_hidden |-> hidden]) >>, T, Self)
    BY <1>0, <2>2, EditOk, AllOne
  <2>4. AllOk(get_controls(u), T, Self)
    BY <1>0, ReadOk
  <2> QED BY <2>1, <2>2, <2>3, <2>4, AllConcat DEF update_controls, Opens, T
<1> QED BY <1>1, <1>2, <1>3, <1>4, <1>5 DEF PostRoutes, T

\* A toggle and the second one of unlike and unrepost.
LEMMA ToggleOk ==
    ASSUME TypeInv, NEW u, NEW post, NEW T,
           {"likes", "reposts", "pushed", "notifications", "handler"} \subseteq T
    PROVE  /\ AllOk(toggle_like(u, post), T, Self)
           /\ AllOk(toggle_repost(u, post), T, Self)
           /\ \A t \in {"likes", "reposts"} : AllOk(<< {Untoggle(t, post, u)} >>, T, Self)
<1>1. /\ Self \in Int /\ Self <= Self /\ served \in Nat
      /\ {"likes", "reposts", "handler"} \cap DOMAIN RowTypes = {}
  BY StoreTypes, TypesByTable
<1>2. \A t \in {"likes", "reposts"} : AllOk(<< {Mark(t, u, post)} >>, T, Self)
  BY <1>1, InsertOk, AllOne DEF Mark
<1>3. \A rows : \A t \in {"likes", "reposts"} : AllOk(<< DeleteAll(t, rows), {LogLater} >>, T, Self)
  BY DeletesOk, AnnouncedOk, AllTwo
<1>4. ASSUME NEW t \in {"likes", "reposts"}
      PROVE  AllOk(<< {Untoggle(t, post, u)} >>, T, Self)
  <2>1. Ok({Untoggle(t, post, u)}, T, Self)
    BY <1>1 DEF Untoggle, Later, Ok, Sound, Lasts, Lasting, Typed, Writes
  <2> QED BY <2>1, AllOne
<1>5. AllOk(toggle_like(u, post), T, Self)
  BY <1>2, <1>3, AnnouncedOk, AllConcat DEF toggle_like
<1>6. AllOk(toggle_repost(u, post), T, Self)
  BY <1>2, <1>3, AnnouncedOk, AllConcat DEF toggle_repost
<1> QED BY <1>4, <1>5, <1>6

MarkWrites == {"likes", "reposts", "pushed", "notifications", "handler"}

\* Likes and reposts.
LEMMA MarksOpen ==
    ASSUME TypeInv, NEW p, MarkRoutes(p)
    PROVE  Opens(p, MarkWrites)
<1> DEFINE T == MarkWrites
<1>0. /\ {"likes", "reposts", "pushed", "notifications", "handler"} \subseteq T
      /\ Self \in Int /\ Self <= Self /\ served \in Nat
  BY StoreTypes DEF MarkWrites
<1> HIDE DEF T
<1>1. CASE like_post(p)
  <2>1. \A u, post : AllOk(toggle_like(u, post), T, Self)
    BY <1>0, ToggleOk
  <2> QED BY <1>1, <2>1 DEF like_post, Opens, T
<1>2. CASE unlike_post(p)
  <2>1. \A u, post : AllOk(toggle_like(u, post) \o << {Untoggle("likes", post, u)} >>, T, Self)
    BY <1>0, ToggleOk, AllConcat
  <2> QED BY <1>2, <2>1 DEF unlike_post, Opens, T
<1>3. CASE repost_post(p)
  <2>1. \A u, post : AllOk(toggle_repost(u, post), T, Self)
    BY <1>0, ToggleOk
  <2> QED BY <1>3, <2>1 DEF repost_post, Opens, T
<1>4. CASE unrepost_post(p)
  <2>1. \A u, post : AllOk(toggle_repost(u, post) \o << {Untoggle("reposts", post, u)} >>, T, Self)
    BY <1>0, ToggleOk, AllConcat
  <2> QED BY <1>4, <2>1 DEF unrepost_post, Opens, T
<1> QED BY <1>1, <1>2, <1>3, <1>4 DEF MarkRoutes, T

MemberWrites == {"groups", "group_members", "pushed", "notifications"}

\* Groups, and who enters and leaves them.
LEMMA MembersOpen ==
    ASSUME TypeInv, NEW p, MemberRoutes(p)
    PROVE  Opens(p, MemberWrites)
<1> DEFINE T == MemberWrites
<1>0. /\ {"groups", "group_members", "pushed", "notifications"} \subseteq T
      /\ Self \in Int /\ Self <= Self /\ served \in Nat
  BY StoreTypes DEF MemberWrites
<1> HIDE DEF T
<1>1. CASE create_new_group(p)
  <2>1. PICK u \in Users, type \in GroupType, announcing \in BOOLEAN :
            create_group(p, u, type, announcing)
    BY <1>1 DEF create_new_group
  <2> DEFINE g == [id |-> Self, type |-> type, created_by |-> u,
                   announcement_only |-> announcing, verification |-> None]
  <2>2. Begin(p, << {Insert("groups", g), NewMember(g, u, "admin", "active", None)} >>)
    BY <2>1 DEF create_group
  <2>3. Ok({Insert("groups", g)}, T, Self)
    BY <1>0, GroupOk
  <2>4. g.id \in Int
    BY <1>0
  <2> HIDE DEF g
  <2>5. Ok({NewMember(g, u, "admin", "active", None)}, T, Self)
    BY <1>0, <2>4, MemberOk DEF Role
  <2>6. AllOk(<< {Insert("groups", g), NewMember(g, u, "admin", "active", None)} >>, T, Self)
    BY <2>3, <2>5, OkPair, AllOne
  <2> QED BY <2>2, <2>6 DEF Opens, T
<1>2. CASE join_existing_group(p)
  <2>1. PICK u \in Users, g \in store["groups"] :
            join_group(p, u, g)
    BY <1>2 DEF join_existing_group
  <2>2. g.id \in Int
    BY StoreTypes DEF Group
  <2>3. AllOk(<< {NewMember(g, u, "member", "active", None)} >>, T, Self)
    BY <1>0, <2>2, MemberOk, AllOne DEF Role
  <2>4. ASSUME NEW m \in Membership(g, u)
        PROVE  AllOk(<< Edit("group_members", m,
                             [status |-> "active",
                              alias  |-> m.alias \/ g.type = "anonymous"]) >>, T, Self)
    BY <1>0, MemberEditOk, AllOne
  <2> QED BY <2>1, <2>2, <2>3, <2>4 DEF join_group, Opens, T
<1>3. CASE leave_existing_group(p)
  <2>1. \A rows : AllOk(<< DeleteAll("group_members", rows) >>, T, Self)
    BY <1>0, DeletesOk, AllOne
  <2> QED BY <1>3, <2>1 DEF leave_existing_group, leave_group, Opens, T
<1>4. CASE invite_group_user(p)
  <2>1. PICK u \in Users, w \in Users, g \in store["groups"] :
            invite_user(p, u, g, w)
    BY <1>4 DEF invite_group_user
  <2>2. g.id \in Int
    BY StoreTypes DEF Group
  <2>3. AllOk(<< {NewMember(g, w, "member", IF g.type = "private" THEN "invited" ELSE "active", u)} >>,
              T, Self)
    BY <1>0, <2>2, MemberOk, AllOne DEF Role
  <2>4. AllOk(create_notification(w, "group_invite", u), T, Self)
    BY <1>0, NotificationOk
  <2> QED BY <2>1, <2>2, <2>3, <2>4, AllConcat DEF invite_user, Opens, T
<1> QED BY <1>1, <1>2, <1>3, <1>4 DEF MemberRoutes, T

GroupWrites == {"groups", "group_members", "group_messages", "group_posts",
                "group_events", "ai_results", "users"}

\* What members and admins do in a group.
LEMMA GroupsOpen ==
    ASSUME TypeInv, NEW p, GroupRoutes(p)
    PROVE  Opens(p, GroupWrites)
<1> DEFINE T == GroupWrites
<1>0. /\ {"groups", "group_members", "group_messages", "group_posts", "group_events",
          "ai_results", "users"} \subseteq T
      /\ Self \in Int /\ Self <= Self /\ served \in Nat
  BY StoreTypes DEF GroupWrites
<1> HIDE DEF T
<1>1. CASE update_member_role(p)
  <2>1. PICK u \in Users, w \in Users, g \in store["groups"], role \in Role :
            assign_group_member_role(p, u, g, w, role)
    BY <1>1 DEF update_member_role
  <2>2. \A m : AllOk(<< Edit("group_members", m, [role |-> role]) >>, T, Self)
    BY <1>0, MemberEditOk, AllOne
  <2> QED BY <2>1, <2>2 DEF assign_group_member_role, Opens, T
<1>2. CASE create_group_message(p)
  <2>1. PICK u \in Users, g \in store["groups"], findings \in Contents :
            send_group_message(p, u, g, findings)
    BY <1>2 DEF create_group_message
  <2>2. g.id \in Int
    BY StoreTypes DEF Group
  <2>3. Ok({Insert("group_messages", [id |-> Self, group |-> g.id, sender |-> u])}, T, Self)
    BY <1>0, <2>2, GroupMessageOk
  <2>4. Ok(analyze_content(findings), T, Self) /\ Ok(_refresh_user_moderation(u), T, Self)
    BY <1>0, AnalysisOk, LiftOk
  <2>5. AllOk(<< {Insert("group_messages", [id |-> Self, group |-> g.id, sender |-> u])}
                 \cup analyze_content(findings) \cup _refresh_user_moderation(u) >>, T, Self)
    BY <2>3, <2>4, OkUnion, AllOne
  <2> QED BY <2>1, <2>2, <2>3, <2>4, <2>5 DEF send_group_message, Opens, T
<1>3. CASE create_group_post_route(p)
  <2>1. PICK u \in Users, g \in store["groups"] :
            create_group_post(p, u, g)
    BY <1>3 DEF create_group_post_route
  <2>2. "group_posts" \notin DOMAIN RowTypes
    BY TypesByTable
  <2>3. AllOk(<< {Insert("group_posts", [id |-> Self, group |-> g.id, user |-> u])} >>, T, Self)
    BY <1>0, <2>2, InsertOk, AllOne
  <2> QED BY <2>1, <2>2, <2>3 DEF create_group_post, Opens, T
<1>4. CASE delete_group_post_route(p)
  <2>1. \A i : AllOk(<< {Delete("group_posts", i)} >>, T, Self)
    BY <1>0, DeleteOk, AllOne
  <2> QED BY <1>4, <2>1 DEF delete_group_post_route, delete_group_post, Opens, T
<1>5. CASE update_group_feature_settings(p)
  <2>1. PICK u \in Users, g \in store["groups"], announcing \in BOOLEAN :
            update_group_settings(p, u, g, announcing)
    BY <1>5 DEF update_group_feature_settings
  <2>2. AllOk(<< Edit("groups", g, [announcement_only |-> announcing]) >>, T, Self)
    BY <1>0, GroupEditOk, AllOne
  <2> QED BY <2>1, <2>2 DEF update_group_settings, Opens, T
<1>6. CASE request_verification(p)
  <2>1. PICK u \in Users, g \in store["groups"] :
            request_group_verification(p, u, g)
    BY <1>6 DEF request_verification
  <2>2. AllOk(<< Edit("groups", g, [verification |-> "pending"]) >>, T, Self)
    BY <1>0, GroupEditOk, AllOne
  <2> QED BY <2>1, <2>2 DEF request_group_verification, Opens, T
<1>7. CASE schedule_group_event(p)
  <2>1. PICK u \in Users, g \in store["groups"] :
            create_group_event(p, u, g)
    BY <1>7 DEF schedule_group_event
  <2>2. "group_events" \notin DOMAIN RowTypes
    BY TypesByTable
  <2>3. AllOk(<< {Insert("group_events", [id |-> Self, group |-> g.id, host |-> u])} >>, T, Self)
    BY <1>0, <2>2, InsertOk, AllOne
  <2> QED BY <2>1, <2>2, <2>3 DEF create_group_event, Opens, T
<1>8. CASE verify_group(p)
  <2>1. PICK g \in store["groups"], answer \in {"approved", "rejected"} :
            decide_group_verification(p, g, answer)
    BY <1>8 DEF verify_group
  <2>2. AllOk(<< Edit("groups", g, [verification |-> answer]) >>, T, Self)
    BY <1>0, GroupEditOk, AllOne
  <2> QED BY <2>1, <2>2 DEF decide_group_verification, Opens, T
<1> QED BY <1>1, <1>2, <1>3, <1>4, <1>5, <1>6, <1>7, <1>8 DEF GroupRoutes, T

\* What a request records beside its own rows, and what its client is told.
LEMMA RecordsOk ==
    ASSUME TypeInv, NEW u, NEW d, NEW type, NEW about, NEW T
    PROVE  /\ "audits" \in T => Ok(log_security_event(u, type), T, Self)
           /\ "logins" \in T => Ok(record_login_attempt(u, d), T, Self)
           /\ "ip_reputation" \in T => Ok(record_successful_login(d), T, Self)
           /\ "answers" \in T => Ok(Answer(type, about), T, Self)
<1>1. /\ Self \in Int /\ Self <= Self
      /\ {"audits", "logins", "ip_reputation", "answers"} \cap DOMAIN RowTypes = {}
  BY StoreTypes, TypesByTable
<1>2. "audits" \in T => Ok(log_security_event(u, type), T, Self)
  BY <1>1, InsertOk DEF log_security_event
<1>3. "logins" \in T => Ok(record_login_attempt(u, d), T, Self)
  BY <1>1, InsertOk DEF record_login_attempt
<1>4. "answers" \in T => Ok(Answer(type, about), T, Self)
  BY <1>1, InsertOk DEF Answer
<1>5. ASSUME "ip_reputation" \in T
      PROVE  Ok(record_successful_login(d), T, Self)
  <2>1. Ok({InsertUnique("ip_reputation",
              [id |-> Self, ip_address |-> d, successful_logins |-> 1], {"ip_address"})}, T, Self)
    BY <1>1, <1>5, InsertOk
  <2>2. \A r : Ok(Edit("ip_reputation", r, [successful_logins |-> r.successful_logins + 1]), T, Self)
    BY <1>1, <1>5, EditOk
  <2>3. Ok(UNION {Edit("ip_reputation", r, [successful_logins |-> r.successful_logins + 1]) :
                     r \in Reputation(d)}, T, Self)
    BY <2>2 DEF Ok
  <2> QED BY <2>1, <2>3 DEF record_successful_login
<1> QED BY <1>2, <1>3, <1>4, <1>5

SessionWrites == {"sessions", "logins", "ip_reputation", "audits", "answers"}

\* Sessions.
LEMMA SessionsOpen ==
    ASSUME TypeInv, NEW p, SessionRoutes(p)
    PROVE  Opens(p, SessionWrites)
<1> DEFINE T == SessionWrites
<1>0. /\ {"sessions", "logins", "ip_reputation", "audits", "answers"} \subseteq T
      /\ Self \in Int /\ Self <= Self /\ served \in Nat
  BY StoreTypes DEF SessionWrites
<1> HIDE DEF T
<1>1. CASE create_session_route(p)
  <2>1. PICK u \in Users, d \in Devices :
            create_session(p, u, d)
    BY <1>1 DEF create_session_route
  <2>2. Ok({Insert("sessions", [id |-> Self, user |-> u, device |-> d, refresh_token |-> Self,
                              status |-> "active", expired |-> FALSE])}, T, Self)
    BY <1>0, SessionOk, StoreTypes
  <2>3. /\ Ok(record_login_attempt(u, d), T, Self) /\ Ok(record_successful_login(d), T, Self)
        /\ Ok(log_security_event(u, "session_created"), T, Self)
    BY <1>0, RecordsOk
  <2>4. AllOk(<< {Insert("sessions", [id |-> Self, user |-> u, device |-> d, refresh_token |-> Self,
                                     status |-> "active", expired |-> FALSE])}
                 \cup record_login_attempt(u, d) \cup record_successful_login(d)
                 \cup log_security_event(u, "session_created") >>, T, Self)
    BY <2>2, <2>3, OkUnion, AllOne
  <2> QED BY <2>1, <2>2, <2>3, <2>4 DEF create_session, Opens, T
<1>2. CASE refresh_session_route(p)
  <2>1. PICK u \in Users, d \in Devices, token \in 0..served :
            refresh_session(p, u, d, token)
    BY <1>2 DEF refresh_session_route
  <2>2. \A i : Ok({Update("sessions", i, [refresh_token |-> Self, expired |-> FALSE])}, T, Self)
    BY <1>0, SessionUpdateOk, StoreTypes
  <2>3. Ok(Answer("refresh", token), T, Self)
    BY <1>0, RecordsOk
  <2>4. \A i : AllOk(<< {Update("sessions", i, [refresh_token |-> Self, expired |-> FALSE])}
                        \cup Answer("refresh", token) >>, T, Self)
    BY <2>2, <2>3, OkUnion, AllOne
  <2>5. AllOk(<<>>, T, Self)
    BY OkNone
  <2> QED BY <2>1, <2>2, <2>3, <2>4, <2>5 DEF refresh_session, Opens, T
<1>3. CASE revoke_session_route(p)
  <2>1. \A s : AllOk(<< Revoke(s) >>, T, Self)
    BY <1>0, SessionEditOk, AllOne DEF Revoke
  <2> QED BY <1>3, <2>1 DEF revoke_session_route, revoke_session, Opens, T
<1>4. CASE revoke_all_sessions_route(p)
  <2>1. \A s : Ok(Revoke(s), T, Self)
    BY <1>0, SessionEditOk DEF Revoke
  <2>2. \A rows : AllOk(<< UNION {Revoke(s) : s \in rows} >>, T, Self)
    BY <2>1, AllOne DEF Ok
  <2> QED BY <1>4, <2>1, <2>2 DEF revoke_all_sessions_route, revoke_all_sessions, Opens, T
<1> QED BY <1>1, <1>2, <1>3, <1>4 DEF SessionRoutes, T

TokenWrites == {"csrf_tokens", "mfa_setups", "audits", "answers"}

\* CSRF tokens and the second factor.
LEMMA TokensOpen ==
    ASSUME TypeInv, NEW p, TokenRoutes(p)
    PROVE  Opens(p, TokenWrites)
<1> DEFINE T == TokenWrites
<1>0. /\ {"csrf_tokens", "mfa_setups", "audits", "answers"} \subseteq T
      /\ Self \in Int /\ Self <= Self /\ served \in Nat
  BY StoreTypes DEF TokenWrites
<1> HIDE DEF T
<1>1. CASE create_csrf_token(p)
  <2>1. PICK u \in Users :
            create_token(p, u)
    BY <1>1 DEF create_csrf_token
  <2>2. AllOk(<< {InsertUnique("csrf_tokens", [id |-> Self, user |-> u, is_used |-> FALSE,
                                            expired |-> FALSE], {"id"})} >>, T, Self)
    BY <1>0, CSRFTokenOk, AllOne
  <2> QED BY <2>1, <2>2 DEF create_token, Opens, T
<1>2. CASE verify_csrf_token(p)
  <2>1. PICK t \in store["csrf_tokens"], consume \in BOOLEAN :
            verify_token(p, t, consume)
    BY <1>2 DEF verify_csrf_token
  <2>2. Ok(Edit("csrf_tokens", t, [is_used |-> TRUE]), T, Self)
    BY <1>0, CSRFTokenEditOk
  <2>3. Ok(Answer("csrf", t.id), T, Self)
    BY <1>0, RecordsOk
  <2>4. AllOk(<<>>, T, Self)
    BY OkNone
  <2>5. AllOk(<< Edit("csrf_tokens", t, [is_used |-> TRUE]) \cup Answer("csrf", t.id) >>, T, Self)
    BY <2>2, <2>3, OkUnion, AllOne
  <2>6. AllOk(IF consume THEN << Edit("csrf_tokens", t, [is_used |-> TRUE])
                                     \cup Answer("csrf", t.id) >>
                 ELSE <<>>, T, Self)
    BY <2>4, <2>5
  <2> QED BY <2>1, <2>2, <2>3, <2>4, <2>5, <2>6 DEF verify_token, Opens, T
<1>3. CASE prepare_mfa_setup(p)
  <2>1. PICK u \in Users :
            create_totp_setup(p, u)
    BY <1>3 DEF prepare_mfa_setup
  <2>2. Ok({Insert("mfa_setups", [id |-> Self, user |-> u, is_verified |-> FALSE])}, T, Self)
    BY <1>0, MFASetupOk
  <2>3. Ok(log_security_event(u, "mfa_setup_requested"), T, Self)
    BY <1>0, RecordsOk
  <2>4. AllOk(<< {Insert("mfa_setups", [id |-> Self, user |-> u, is_verified |-> FALSE])}
                 \cup log_security_event(u, "mfa_setup_requested") >>, T, Self)
    BY <2>2, <2>3, OkUnion, AllOne
  <2> QED BY <2>1, <2>2, <2>3, <2>4 DEF create_totp_setup, Opens, T
<1>4. CASE verify_mfa_setup(p)
  <2>1. PICK s \in store["mfa_setups"], right \in BOOLEAN :
            verify_totp(p, s.user, s, right)
    BY <1>4 DEF verify_mfa_setup
  <2>2. Ok(Edit("mfa_setups", s, [is_verified |-> TRUE]), T, Self)
    BY <1>0, MFASetupEditOk
  <2>3. Ok(log_security_event(s.user, "mfa_verified"), T, Self)
    BY <1>0, RecordsOk
  <2>4. AllOk(<<>>, T, Self)
    BY OkNone
  <2>5. AllOk(<< Edit("mfa_setups", s, [is_verified |-> TRUE])
                 \cup log_security_event(s.user, "mfa_verified") >>, T, Self)
    BY <2>2, <2>3, OkUnion, AllOne
  <2> QED BY <2>1, <2>2, <2>3, <2>4, <2>5 DEF verify_totp, Opens, T
<1>5. CASE audited_requests(p)
  <2>1. \A u, type : AllOk(<< log_security_event(u, type) >>, T, Self)
    BY <1>0, RecordsOk, AllOne
  <2> QED BY <1>5, <2>1 DEF audited_requests, Opens, T
<1> QED BY <1>1, <1>2, <1>3, <1>4, <1>5 DEF TokenRoutes, T

PollWrites == {"polls", "answers"}

\* Polls.
LEMMA PollsOpen ==
    ASSUME TypeInv, NEW p, PollRoutes(p)
    PROVE  Opens(p, PollWrites)
<1> DEFINE T == PollWrites
<1>0. /\ {"polls", "answers"} \subseteq T
      /\ Self \in Int /\ Self <= Self /\ served \in Nat
  BY StoreTypes DEF PollWrites
<1> HIDE DEF T
<1>1. CASE create_poll_route(p)
  <2>1. PICK u \in Users :
            create_poll(p, u)
    BY <1>1 DEF create_poll_route
  <2>2. AllOk(<< {Insert("polls", [id |-> Self, owner |-> u, votes |-> {}, expired |-> FALSE])} >>,
              T, Self)
    BY <1>0, PollOk, AllOne
  <2> QED BY <2>1, <2>2 DEF create_poll, Opens, T
<1>2. CASE vote(p)
  <2>1. PICK u \in Users, poll \in store["polls"], option \in {"yes", "no"} :
            vote_poll(p, u, poll, option)
    BY <1>2 DEF vote
  <2>2. {v \in poll.votes : v[1] # u} \cup {<<u, option>>} \in SUBSET (Users \X {"yes", "no"})
    BY StoreTypes DEF Poll
  <2>3. Ok(Edit("polls", poll,
                [votes |-> {v \in poll.votes : v[1] # u} \cup {<<u, option>>}]), T, Self)
    BY <1>0, <2>2, PollEditOk
  <2>4. Ok(Answer("vote", <<poll.id, u>>), T, Self)
    BY <1>0, RecordsOk
  <2> QED BY <2>1, <2>2, <2>3, <2>4, OkUnion, AllOne DEF vote_poll, Opens, T
<1> QED BY <1>1, <1>2 DEF PollRoutes, T

SocialWrites == {"close_friends", "stories", "short_videos", "verification_requests",
                 "user_lists", "list_members"}

\* Close friends, stories and lists.
LEMMA SocialOpen ==
    ASSUME TypeInv, NEW p, SocialRoutes(p)
    PROVE  Opens(p, SocialWrites)
<1> DEFINE T == SocialWrites
<1>0. /\ {"close_friends", "stories", "short_videos", "verification_requests",
          "user_lists", "list_members"} \subseteq T
      /\ Self \in Int /\ Self <= Self /\ served \in Nat
  BY StoreTypes DEF SocialWrites
<1> HIDE DEF T
<1>1. CASE add_close(p)
  <2>1. PICK u \in Users, w \in Users :
            add_close_friend(p, u, w)
    BY <1>1 DEF add_close
  <2>2. AllOk(<< {InsertUnique("close_friends", [id |-> Self, owner |-> u, friend |-> w], {"owner", "friend"})} >>, T, Self)
    BY <1>0, CloseFriendOk, AllOne
  <2> QED BY <2>1, <2>2 DEF add_close_friend, Opens, T
<1>2. CASE remove_close(p)
  <2>1. \A rows : AllOk(<< DeleteAll("close_friends", rows) >>, T, Self)
    BY <1>0, DeletesOk, AllOne
  <2> QED BY <1>2, <2>1 DEF remove_close, remove_close_friend, Opens, T
<1>3. CASE create_story_route(p)
  <2>1. PICK u \in Users, audience \in {"public", "friends", "close_friends"} :
            create_story(p, u, audience)
    BY <1>3 DEF create_story_route
  <2>2. "stories" \notin DOMAIN RowTypes
    BY TypesByTable
  <2>3. AllOk(<< {Insert("stories", [id |-> Self, owner |-> u, audience |-> audience])} >>, T, Self)
    BY <1>0, <2>2, InsertOk, AllOne
  <2> QED BY <2>1, <2>2, <2>3 DEF create_story, Opens, T
<1>4. CASE create_reel_or_request(p)
  <2>1. {"short_videos", "verification_requests"} \cap DOMAIN RowTypes = {}
    BY TypesByTable
  <2>2. \A u, t : t \in {"short_videos", "verification_requests"} =>
            AllOk(<< {Insert(t, [id |-> Self, owner |-> u])} >>, T, Self)
    BY <1>0, <2>1, InsertOk, AllOne
  <2> QED BY <1>4, <2>1, <2>2 DEF create_reel_or_request, create_owned, Opens, T
<1>5. CASE create_list_route(p)
  <2>1. PICK u \in Users :
            create_list(p, u)
    BY <1>5 DEF create_list_route
  <2>2. "user_lists" \notin DOMAIN RowTypes
    BY TypesByTable
  <2>3. AllOk(<< {Insert("user_lists", [id |-> Self, owner |-> u])} >>, T, Self)
    BY <1>0, <2>2, InsertOk, AllOne
  <2> QED BY <2>1, <2>2, <2>3 DEF create_list, Opens, T
<1>6. CASE delete_list_route(p)
  <2>1. \A i : AllOk(<< {Delete("user_lists", i)} >>, T, Self)
    BY <1>0, DeleteOk, AllOne
  <2> QED BY <1>6, <2>1 DEF delete_list_route, delete_list, Opens, T
<1>7. CASE add_list_member(p)
  <2>1. PICK l \in store["user_lists"], w \in Users :
            add_to_list(p, l, w)
    BY <1>7 DEF add_list_member
  <2>2. "user_lists" \in Tables \ Keyed
    BY TablesAssumption DEF SocialTables, Keyed
  <2>3. l.id \in Int
    BY <2>2, RowNumbers
  <2>4. AllOk(<< {Insert("list_members", [id |-> Self, list |-> l.id, user |-> w])} >>, T, Self)
    BY <1>0, <2>3, UserListMemberOk, AllOne
  <2> QED BY <2>1, <2>2, <2>3, <2>4 DEF add_to_list, Opens, T
<1>8. CASE remove_list_member(p)
  <2>1. \A rows : AllOk(<< DeleteAll("list_members", rows) >>, T, Self)
    BY <1>0, DeletesOk, AllOne
  <2> QED BY <1>8, <2>1 DEF remove_list_member, remove_from_list, Opens, T
<1> QED BY <1>1, <1>2, <1>3, <1>4, <1>5, <1>6, <1>7, <1>8 DEF SocialRoutes, T

UploadWrites == {"uploads", "chunks", "media", "encrypted_media", "answers"}

\* Uploads in chunks.
LEMMA UploadsOpen ==
    ASSUME TypeInv, NEW p, UploadRoutes(p)
    PROVE  Opens(p, UploadWrites)
<1> DEFINE T == UploadWrites
<1>0. /\ {"uploads", "chunks", "media", "encrypted_media", "answers"} \subseteq T
      /\ Self \in Int /\ Self <= Self /\ served \in Nat
  BY StoreTypes DEF UploadWrites
<1> HIDE DEF T
<1>1. CASE initiate_upload(p)
  <2>1. "uploads" \notin DOMAIN RowTypes
    BY TypesByTable
  <2>2. AllOk(<< {Insert("uploads", [id |-> Self])} >>, T, Self)
    BY <1>0, <2>1, InsertOk, AllOne
  <2> QED BY <1>1, <2>1, <2>2 DEF initiate_upload, Opens, T
<1>2. CASE \E i \in Uploads, c \in Chunks : upload_chunk(p, i, c)
  <2>1. PICK i \in Uploads, c \in Chunks : upload_chunk(p, i, c)
    BY <1>2
  <2> DEFINE row == [id |-> <<i, c>>, directory |-> i, chunk |-> c, writer |-> Self]
             done == Answer("chunk", <<i, c>>)
  <2>2. Begin(p, << Put("chunks", row), done >>)
    BY <2>1 DEF upload_chunk
  <2>3. "chunks" \in Keyed /\ "chunks" \notin DOMAIN RowTypes
    BY TypesByTable DEF Keyed
  <2>4. "id" \in DOMAIN row /\ "born" \notin DOMAIN row
    OBVIOUS
  <2>6. Ok(done, T, Self)
    BY <1>0, RecordsOk
  <2> HIDE DEF row, done
  <2>7. Ok(Put("chunks", row), T, Self)
    BY <1>0, <2>3, <2>4, DeleteOk, InsertOk, OkPair DEF Put
  <2>8. AllOk(<< Put("chunks", row), done >>, T, Self)
    BY <2>6, <2>7, AllTwo
  <2> QED BY <2>2, <2>8 DEF Opens, T
<1>3. CASE \E i \in Uploads, encrypt \in BOOLEAN : complete_upload(p, i, encrypt)
  <2>1. PICK i \in Uploads, encrypt \in BOOLEAN : complete_upload(p, i, encrypt)
    BY <1>3
  <2>2. {"media", "encrypted_media"} \cap DOMAIN RowTypes = {}
    BY TypesByTable
  <2>3. AllOk(<< assemble_chunks(i) >>, T, Self)
    BY <1>0, <2>2, InsertOk, DeleteOk, OkUnion, AllOne DEF assemble_chunks
  <2>4. AllOk(<< {Delete("media", Self)}, {Insert("encrypted_media", [id |-> Self])} >>, T, Self)
    BY <1>0, <2>2, InsertOk, DeleteOk, AllTwo
  <2>5. AllOk(<<>>, T, Self)
    BY OkNone
  <2>6. AllOk(<< assemble_chunks(i) >>
                \o (IF encrypt THEN << {Delete("media", Self)},
                                       {Insert("encrypted_media", [id |-> Self])} >>
                    ELSE <<>>), T, Self)
    BY <2>3, <2>4, <2>5, AllConcat
  <2> QED BY <2>1, <2>6 DEF complete_upload, Opens, T
<1> QED BY <1>1, <1>2, <1>3 DEF UploadRoutes, T

\* The number an account is stored with, and what a query leaves of it.
LEMMA PhoneOk ==
    ASSUME NEW T, NEW n, "users" \in T, NEW a, NEW phone \in SUBSET (Phones \X Nat)
    PROVE  Ok(SetPhone(a, phone), T, n)
<1>1. Ok(Edit("users", a, [phone |-> phone]), T, n)
  BY AccountEditOk
<1>2. ASSUME NEW w \in Edit("users", a, [phone |-> phone])
      PROVE  LET v == [w EXCEPT !.key = PhoneKey(phone)] IN v.on \in T /\ Sound(v, n)
  <2>1. w.on \in T /\ Sound(w, n)
    BY <1>1 DEF Ok
  <2>2. w \in [op : {w.op}, on : {w.on}, row : {w.row}, key : {w.key}]
    BY DEF Edit, Update
  <2> DEFINE v == [w EXCEPT !.key = PhoneKey(phone)]
  <2>3. v.op = w.op /\ v.on = w.on /\ v.row = w.row
    BY <2>2
  <2> HIDE DEF v
  <2>4. v.on \in T /\ Sound(v, n)
    BY <2>1, <2>3 DEF Sound, Lasts, Lasting, Typed
  <2> QED BY <2>4 DEF v
<1> QED BY <1>2 DEF Ok, SetPhone

LEMMA DecryptedType ==
    ASSUME NEW phone \in SUBSET (Phones \X Nat)
    PROVE  decrypt_value(phone) \in SUBSET (Phones \X Nat)
BY DEF decrypt_value

LEMMA NumberType ==
    ASSUME served \in Nat, NEW number \in Numbers
    PROVE  decrypt_value(encrypt_value(number)) \in SUBSET (Phones \X Nat)
<1>1. encrypt_value(number) \in SUBSET (Phones \X Nat)
  BY DEF encrypt_value, Numbers, Self
<1> QED BY <1>1, DecryptedType

LEMMA LoadedOk ==
    ASSUME TypeInv, NEW accounts \in SUBSET store["users"], NEW T, "users" \in T
    PROVE  Ok(Loaded(accounts), T, Self)
<1>1. ASSUME NEW a \in accounts PROVE Ok(SetPhone(a, decrypt_value(a.phone)), T, Self)
  <2>1. a.phone \in SUBSET (Phones \X Nat)
    BY StoreTypes DEF User
  <2> QED BY <2>1, DecryptedType, PhoneOk
<1> QED BY <1>1 DEF Loaded, Ok

AccountWrites == {"users"}

\* Registration and profiles.
LEMMA AccountsOpen ==
    ASSUME TypeInv, NEW p, AccountRoutes(p)
    PROVE  Opens(p, AccountWrites)
<1> DEFINE T == AccountWrites
<1>0. /\ {"users"} \subseteq T
      /\ Self \in Int /\ Self <= Self /\ served \in Nat
  BY StoreTypes DEF AccountWrites
<1> HIDE DEF T
<1>1. CASE register_user(p)
  <2>1. PICK u \in Users, number \in Numbers : create_user_if_not_exists(p, u, number)
    BY <1>1 DEF register_user
  <2> DEFINE mine == {a \in store["users"] : a.id = u}
             phone == decrypt_value(encrypt_value(number))
             new == [Insert("users", NewUser(u, phone)) EXCEPT !.key = {{"id"}} \cup PhoneKey(phone)]
  <2>2. Ok(Loaded(mine), T, Self)
    BY <1>0, LoadedOk
  <2>3. Ok({new}, T, Self)
    BY <1>0, NumberType, NewUserOk
  <2>4. Begin(p, << Loaded(mine) >>) \/ Begin(p, << {new} >>)
    BY <2>1 DEF create_user_if_not_exists
  <2> HIDE DEF mine, phone, new
  <2> QED BY <2>2, <2>3, <2>4, AllOne DEF Opens, T
<1>2. CASE update_profile(p)
  <2>1. PICK a \in store["users"], number \in Numbers \ {{}} :
            update_user(p, a, number)
    BY <1>2 DEF update_profile
  <2>2. AllOk(<< SetPhone(a, decrypt_value(encrypt_value(number))) >>, T, Self)
    BY <1>0, NumberType, PhoneOk, AllOne
  <2> QED BY <2>1, <2>2, RefreshedOpens DEF update_user, Opens, T
<1>3. CASE read_users(p)
  <2>1. PICK a \in store["users"], others \in SUBSET store["users"] :
            Begin(p, << Loaded({a} \cup others) >>)
    BY <1>3 DEF read_users
  <2>2. AllOk(<< Loaded({a} \cup others) >>, T, Self)
    BY <1>0, LoadedOk, AllOne
  <2> QED BY <2>1, <2>2 DEF read_users, Opens, T
<1> QED BY <1>1, <1>2, <1>3 DEF AccountRoutes, T

\* A record made, and one made or changed by its key.
LEMMA CreateOpens ==
    ASSUME TypeInv, NEW p, NEW t, NEW row, NEW T, t \in T, t \notin DOMAIN RowTypes,
           t \notin {"users", "reports", "moderation_actions", "notifications"},
           "id" \notin DOMAIN row, "born" \notin DOMAIN row, Create(p, t, row)
    PROVE  Opens(p, T)
<1> DEFINE new == Overlay([id |-> Self], row)
<1>1. "id" \in DOMAIN new /\ "born" \notin DOMAIN new /\ new.id = Self
  BY DEF Overlay
<1>2. Begin(p, << {Insert(t, new)} >>)
  BY DEF Create
<1> HIDE DEF new
<1>3. Self \in Int /\ Self <= Self
  BY StoreTypes
<1>4. Ok({Insert(t, new)}, T, Self)
  BY <1>1, <1>3, InsertOk
<1> QED BY <1>2, <1>4, AllOne DEF Opens

LEMMA UpsertOpens ==
    ASSUME TypeInv, NEW p, NEW t, NEW key, NEW value, NEW T, t \in T, t \notin DOMAIN RowTypes,
           t \notin {"users", "reports", "moderation_actions", "notifications"},
           "id" \notin DOMAIN key, "born" \notin DOMAIN key, Upsert(p, t, key, value)
    PROVE  Opens(p, T)
<1> DEFINE new == Overlay([id |-> Self, value |-> value], key)
           mine == {r \in store[t] : Agree(r, key, DOMAIN key)}
           changes == UNION {Edit(t, r, [value |-> value]) : r \in mine}
<1>1. "id" \in DOMAIN new /\ "born" \notin DOMAIN new /\ new.id = Self
  BY DEF Overlay
<1>2. \/ Begin(p, << {InsertUnique(t, new, DOMAIN key)} >>)
      \/ Begin(p, << changes >>)
  BY DEF Upsert
<1>3. Ok(changes, T, Self)
  <2>1. \A r : Ok(Edit(t, r, [value |-> value]), T, Self)
    BY EditOk
  <2> QED BY <2>1 DEF Ok
<1> HIDE DEF new, changes
<1>4. Self \in Int /\ Self <= Self
  BY StoreTypes
<1>5. Ok({InsertUnique(t, new, DOMAIN key)}, T, Self)
  BY <1>1, <1>4, InsertOk
<1> QED BY <1>2, <1>3, <1>5, AllOne DEF Opens

\* Records without a protocol.
LEMMA EnterpriseOpens ==
    ASSUME TypeInv, NEW p, EnterpriseRoutes(p)
    PROVE  Opens(p, CatalogTables)
<1>1. /\ EnterpriseTables \subseteq CatalogTables /\ "audit_reviews" \in CatalogTables
      /\ \A t \in EnterpriseTables \ {"audit_reviews"} : t \notin DOMAIN RowTypes
      /\ EnterpriseTables \cap {"users", "reports", "moderation_actions", "notifications"} = {}
  BY TypesByTable DEF EnterpriseTables, CatalogTables
<1>2. CASE \E u \in Users : create_enterprise_record(p, u)
  <2>1. PICK u \in Users, t \in EnterpriseTables : Create(p, t, [user |-> u, status |-> "open"])
    BY <1>2 DEF create_enterprise_record
  <2>2. CASE t = "audit_reviews"
    <3>1. Self \in Int /\ Self <= Self
      BY StoreTypes
    <3>2. AllOk(<< {Insert("audit_reviews", Overlay([id |-> Self], [user |-> u, status |-> "open"]))} >>,
                CatalogTables, Self)
      BY <1>1, <3>1, AuditReviewOk, AllOne
    <3> QED BY <2>1, <2>2, <3>2 DEF Create, Opens
  <2>3. CASE t # "audit_reviews"
    BY <1>1, <2>1, <2>3, CreateOpens
  <2> QED BY <2>2, <2>3
<1>3. CASE \E review \in store["audit_reviews"] : resolve_audit_review(p, review)
  <2>1. \A review : AllOk(<< Edit("audit_reviews", review, [status |-> "reviewed"]) >>,
                          CatalogTables, Self)
    BY <1>1, AuditReviewEditOk, AllOne
  <2> QED BY <1>3, <2>1 DEF resolve_audit_review, Opens
<1> QED BY <1>2, <1>3 DEF EnterpriseRoutes

LEMMA GlobalizationOpens ==
    ASSUME TypeInv, NEW p, GlobalizationRoutes(p)
    PROVE  Opens(p, CatalogTables)
<1>1. /\ RegionalTables \cup {"locale_preferences", "localization_strings"} \subseteq CatalogTables
      /\ \A t \in RegionalTables \cup {"locale_preferences", "localization_strings"} :
            /\ t \notin DOMAIN RowTypes
            /\ t \notin {"users", "reports", "moderation_actions", "notifications"}
  BY TypesByTable DEF RegionalTables, CatalogTables
<1>2. CASE \E u \in Users, locale \in {"en", "de"} : upsert_locale_preference(p, u, locale)
  BY <1>1, <1>2, UpsertOpens DEF upsert_locale_preference
<1>3. CASE \E u \in Users, locale \in {"en", "de"} : upsert_localization_string(p, locale, u)
  BY <1>1, <1>3, UpsertOpens DEF upsert_localization_string
<1>4. CASE \E u \in Users : create_regional_record(p, u)
  BY <1>1, <1>4, CreateOpens DEF create_regional_record
<1> QED BY <1>2, <1>3, <1>4 DEF GlobalizationRoutes

LEMMA PlatformOpens ==
    ASSUME TypeInv, NEW p, PlatformRoutes(p)
    PROVE  Opens(p, CatalogTables)
<1> DEFINE plain == PlatformTables \cup {"call_sessions", "subscriptions", "screen_shares",
                                         "monetization_profiles"}
<1>1. /\ plain \subseteq CatalogTables /\ "live_streams" \in CatalogTables
      /\ \A t \in plain : t \notin DOMAIN RowTypes
      /\ plain \cap {"users", "reports", "moderation_actions", "notifications"} = {}
      /\ {"call_sessions", "subscriptions", "screen_shares", "monetization_profiles"} \subseteq plain
      /\ PlatformTables \subseteq plain
  BY TypesByTable DEF PlatformTables, CatalogTables
<1>2. Self \in Nat /\ Self \in Int /\ Self <= Self
  BY StoreTypes
<1> HIDE DEF plain
<1>3. CASE \E u \in Users : create_live_stream(p, u)
  <2>1. PICK u \in Users : create_live_stream(p, u)
    BY <1>3
  <2> DEFINE new == Overlay([id |-> Self],
                            [user |-> u, status |-> "scheduled", started_at |-> 0])
  <2>2. Ok({Insert("live_streams", new)}, CatalogTables, Self)
    BY <1>1, <1>2, LiveStreamOk
  <2>3. Begin(p, << {Insert("live_streams", new)} >>)
    BY <2>1 DEF create_live_stream, Create
  <2> HIDE DEF new
  <2> QED BY <2>2, <2>3, AllOne DEF Opens
<1>4. CASE \E u \in Users : create_call_session(p, u)
  <2>1. PICK u \in Users : Create(p, "call_sessions", [user |-> u, status |-> "active"])
    BY <1>4 DEF create_call_session
  <2> QED BY <1>1, <2>1, CreateOpens
<1>5. CASE \E u \in Users : create_platform_record(p, u)
  <2>1. PICK u \in Users : create_platform_record(p, u)
    BY <1>5
  <2>2. CASE \E t \in PlatformTables : Create(p, t, [user |-> u, status |-> "active"])
    BY <1>1, <2>2, CreateOpens
  <2>3. CASE \E plan \in store["subscription_plans"] :
                Create(p, "subscriptions", [user |-> u, plan |-> plan.id])
    BY <1>1, <2>3, CreateOpens
  <2> QED BY <2>1, <2>2, <2>3 DEF create_platform_record
<1>6. CASE \E u \in Users, share \in {"low", "high"} : upsert_monetization_profile(p, u, share)
  BY <1>1, <1>6, UpsertOpens DEF upsert_monetization_profile
<1>7. CASE \E u \in Users, call \in store["call_sessions"] : start_screen_share(p, u, call)
  BY <1>1, <1>7, CreateOpens DEF start_screen_share
<1>8. CASE \E stream \in store["live_streams"], status \in {"live", "ended"} :
              set_live_stream_status(p, stream, status)
  <2>1. PICK stream \in store["live_streams"], status \in {"live", "ended"} :
            set_live_stream_status(p, stream, status)
    BY <1>8
  <2> DEFINE at == IF status = "live" /\ stream.started_at = 0 THEN Self ELSE stream.started_at
  <2>2. at \in Nat
    BY <1>2, StoreTypes DEF LiveStream
  <2>3. Begin(p, << Edit("live_streams", stream, [status |-> status, started_at |-> at]) >>)
    BY <2>1 DEF set_live_stream_status
  <2> HIDE DEF at
  <2>4. AllOk(<< Edit("live_streams", stream, [status |-> status, started_at |-> at]) >>,
              CatalogTables, Self)
    BY <1>1, <2>2, LiveStreamEditOk, AllOne
  <2> QED BY <2>3, <2>4 DEF Opens
<1>9. CASE \E call \in store["call_sessions"] : end_call_session(p, call)
  <2>1. \A call : AllOk(<< Edit("call_sessions", call, [status |-> "ended"]) >>, CatalogTables, Self)
    BY <1>1, EditOk, AllOne
  <2> QED BY <1>9, <2>1 DEF end_call_session, Opens
<1> QED BY <1>3, <1>4, <1>5, <1>6, <1>7, <1>8, <1>9 DEF PlatformRoutes

LEMMA CatalogOpens ==
    ASSUME TypeInv, NEW p, CatalogRoutes(p)
    PROVE  Opens(p, CatalogTables)
<1> DEFINE plain == {"analytics_events", "published", "preferences", "notifications"}
<1>1. plain \subseteq CatalogTables /\ \A t \in plain : t \notin DOMAIN RowTypes
  BY TypesByTable DEF CatalogTables
<1>2. Self \in Int /\ Self <= Self
  BY StoreTypes
<1> HIDE DEF plain
<1>3. CASE AnalyticsRoutes(p)
  <2>1. \A u : Ok({Insert("analytics_events", [id |-> Self, user |-> u])}, CatalogTables, Self)
    BY <1>1, <1>2, InsertOk DEF plain
  <2>2. Ok(publish(Self), CatalogTables, Self)
    BY <1>1, <1>2, InsertOk DEF publish, plain
  <2> QED BY <1>3, <2>1, <2>2, AllTwo DEF AnalyticsRoutes, track_event, Opens
<1>4. CASE mark_notification_read(p)
  <2>1. ASSUME NEW i PROVE Ok({Patch("notifications", i, [is_read |-> TRUE])}, CatalogTables, Self)
    BY <1>1 DEF Patch, Overlay, Ok, Sound, Lasts, Lasting, Typed, Writes, plain
  <2> QED BY <1>4, <2>1, AllOne DEF mark_notification_read, mark_as_read, Opens
<1>5. CASE update_preferences(p)
  BY <1>1, <1>5, UpsertOpens DEF update_preferences, set_preferences, plain
<1> QED BY <1>3, <1>4, <1>5, EnterpriseOpens, GlobalizationOpens, PlatformOpens DEF CatalogRoutes

-----------------------------------------------------------------------------
(* What the later steps of a handler open: each is about a write of the     *)
(* first batch, which it replaces.                                          *)

\* The writes of a batch on some of the tables.
On(batch, D) == {w \in batch : w.on \in D}

LaterWrites == {"relations_cache", "pushed", "notifications", "events", "likes", "reposts",
                "handler"}

\* The step opens what it replaces, but for writes on these tables: one batch
\* as it was, or several of which none is about any other table.
Resolves(p, batches) ==
    /\ tx[p] # <<>> /\ Resolve(p, batches)
    /\ AllOk(batches, Tables \cup {"handler"}, served)
    /\ \A i \in DOMAIN batches : \A D : D \cap LaterWrites = {} =>
          \/ On(batches[i], D) = {}
          \/ On(batches[i], D) = On(Head(tx[p]), D) /\ DOMAIN batches = {1}

LEMMA HeadOpen ==
    ASSUME TypeInv, NEW p \in Workers, tx[p] # <<>>
    PROVE  Head(tx[p]) \in Open /\ Ok(Head(tx[p]), Tables \cup {"handler"}, served)
<1>1. PICK S : tx[p] \in Seq(S)
  BY DEF TypeInv, UnitInv
<1>2. 1 \in DOMAIN tx[p] /\ Head(tx[p]) = tx[p][1]
  BY <1>1
<1>3. Head(tx[p]) \in Open
  BY <1>2 DEF Open, Batches
<1> QED BY <1>3 DEF TypeInv

\* A handler that has read again opens batches of these tables only.
LEMMA LaterResolves ==
    ASSUME TypeInv, NEW p, NEW batches, tx[p] # <<>>, Resolve(p, batches),
           AllOk(batches, LaterWrites, served)
    PROVE  Resolves(p, batches)
<1>1. LaterWrites \subseteq Tables \cup {"handler"} /\ served \in Int
  BY StoreTypes, TablesAssumption DEF LaterWrites, RelationTables, FeedTables
<1>2. AllOk(batches, Tables \cup {"handler"}, served)
  BY <1>1, AllWider
<1>3. \A i \in DOMAIN batches : \A w \in batches[i] : w.on \in LaterWrites
  BY DEF AllOk, Ok
<1>4. \A i \in DOMAIN batches : \A D : D \cap LaterWrites = {} => On(batches[i], D) = {}
  BY <1>3 DEF On
<1> QED BY <1>2, <1>4 DEF Resolves

LEMMA ByOk ==
    ASSUME served \in Nat, NEW i \in Int, i <= served, NEW u, NEW kind, NEW actor
    PROVE  AllOk(By(i, create_notification(u, kind, actor)), LaterWrites, served)
<1> DEFINE sent == create_notification(u, kind, actor)
           mine == By(i, sent)
<1>1. DOMAIN sent = 1..2 /\ sent[1] = {push(u, kind)} /\ sent[2] = {notify(u, kind, actor)}
  BY DEF create_notification
<1> DEFINE f(w) == [w EXCEPT !.row.id = i]
<1>2. mine = [k \in 1..2 |-> {f(w) : w \in sent[k]}]
  BY <1>1 DEF By
<1>3. ASSUME NEW w \in {push(u, kind), notify(u, kind, actor)}
      PROVE  f(w).on \in LaterWrites /\ Sound(f(w), served)
  <2>1. /\ w.op = "insert" /\ w.on \in {"pushed", "notifications"}
        /\ DOMAIN w.row \cap DOMAIN Parent = {}
        /\ "id" \in DOMAIN w.row /\ "born" \notin DOMAIN w.row
        /\ w \in [op : {w.op}, on : {w.on}, row : {w.row}, key : {w.key}]
    BY DEF push, notify, Insert, Parent
  <2> DEFINE v == f(w)
  <2>2. v.op = w.op /\ v.on = w.on /\ v.row = [w.row EXCEPT !.id = i]
    BY <2>1
  <2>3. "id" \in DOMAIN v.row /\ "born" \notin DOMAIN v.row /\ v.row.id = i
    BY <2>1, <2>2 DEF push, notify, Insert
  <2>6. DOMAIN v.row \cap DOMAIN Parent = {}
    BY <2>1, <2>2
  <2> HIDE DEF v
  <2>4. v.on \in LaterWrites /\ v.on \notin DOMAIN RowTypes
    BY <2>1, <2>2, TypesByTable DEF LaterWrites
  <2>5. Sound(v, served)
    BY <2>1, <2>2, <2>3, <2>4, <2>6 DEF Sound, Lasts, Lasting, Typed, Writes
  <2> QED BY <2>4, <2>5 DEF v
<1> HIDE DEF f, mine, sent
<1>4. \A k \in DOMAIN mine : Ok(mine[k], LaterWrites, served)
  BY <1>1, <1>2, <1>3 DEF Ok
<1>5. mine = [k \in 1..2 |-> mine[k]]
  BY <1>2
<1>6. mine \in Seq({mine[1], mine[2]})
  BY <1>5
<1> QED BY <1>4, <1>6 DEF AllOk, mine, sent

LEMMA RespondedResolves ==
    ASSUME TypeInv, NEW p \in Workers, Responded(p)
    PROVE  \E batches : Resolves(p, batches)
<1>1. PICK w \in Head(tx[p]), r \in store["friends"] :
          /\ w.op = "refresh"
          /\ Resolve(p, (IF r.status = "accepted" THEN invalidate(r.from, r.to) ELSE <<>>)
                        \o By(w.row.id, create_notification(r.from, r.status, r.to)))
  BY DEF Responded
<1>2. tx[p] # <<>>
  BY DEF Responded
<1>3. w.row.id \in Int /\ w.row.id <= served
  BY <1>1, <1>2, HeadOpen DEF Ok, Sound, Writes
<1>4. AllOk(By(w.row.id, create_notification(r.from, r.status, r.to)), LaterWrites, served)
  BY <1>3, StoreTypes, ByOk
<1>5. AllOk(invalidate(r.from, r.to), LaterWrites, served)
  BY DeleteOk, AllTwo DEF invalidate, LaterWrites
<1>6. AllOk(<<>>, LaterWrites, served)
  BY OkNone
<1>7. AllOk((IF r.status = "accepted" THEN invalidate(r.from, r.to) ELSE <<>>)
            \o By(w.row.id, create_notification(r.from, r.status, r.to)), LaterWrites, served)
  BY <1>4, <1>5, <1>6, AllConcat
<1> QED BY <1>1, <1>2, <1>7, LaterResolves

LEMMA LogEventResolves ==
    ASSUME TypeInv, NEW p \in Workers, LogEvent(p)
    PROVE  \E batches : Resolves(p, batches)
<1> DEFINE U == Tables \cup {"handler"}
           head == Head(tx[p])
<1>0. tx[p] # <<>>
  BY DEF LogEvent
<1>1. PICK w \in head : w.op = "log_event" /\ \E event \in log_event(w.row.id) :
          Resolve(p, << (head \ {w}) \cup {event} >>)
  BY DEF LogEvent
<1>2. PICK event \in log_event(w.row.id) : Resolve(p, << (head \ {w}) \cup {event} >>)
  BY <1>1
<1>3. Ok(head, U, served)
  BY <1>0, HeadOpen
<1>4. w.row.id \in Int /\ w.row.id <= served /\ w.on = "handler"
  BY <1>1, <1>3 DEF Ok, Sound, Writes
<1>5. served \in Int /\ "events" \in U
  BY StoreTypes, TablesAssumption DEF FeedTables
<1> DEFINE rest == head \ {w}
           batch == rest \cup {event}
<1>6. Ok(rest, U, served)
  BY <1>3 DEF Ok
<1>7. Ok({event}, U, served)
  BY <1>4, <1>5, EventOk
<1>8. AllOk(<<batch>>, U, served)
  BY <1>6, <1>7, OkUnion, AllOne
<1>9. event.on = "events"
  BY DEF log_event, Insert
<1>10. ASSUME NEW D, D \cap LaterWrites = {} PROVE On(batch, D) = On(head, D)
  <2>1. "handler" \notin D /\ "events" \notin D
    BY <1>10 DEF LaterWrites
  <2> QED BY <2>1, <1>4, <1>9 DEF On
<1>11. Resolve(p, <<batch>>)
  BY <1>2
<1> HIDE DEF head, batch
<1> QED BY <1>0, <1>8, <1>10, <1>11 DEF Resolves, head

LEMMA ToggleAgainResolves ==
    ASSUME TypeInv, NEW p \in Workers, ToggleAgain(p)
    PROVE  \E batches : Resolves(p, batches)
<1>1. PICK w \in Head(tx[p]) : w.op = "untoggle" /\
          LET marks == Marks(w.row.table, w.row.user, w.row.post)
          IN  Resolve(p, IF marks = {} THEN <<>>
                         ELSE << DeleteAll(w.row.table, marks),
                                 {Later("log_event", [id |-> w.row.id])} >>)
  BY DEF ToggleAgain
<1>2. tx[p] # <<>>
  BY DEF ToggleAgain
<1>3. /\ w.row.id \in Int /\ w.row.id <= served /\ w.row.table \in LaterWrites
      /\ w.row.table \in {"likes", "reposts"}
      /\ "handler" \in LaterWrites
  BY <1>1, <1>2, HeadOpen DEF Ok, Sound, Writes, LaterWrites
<1>4. \A rows : Ok(DeleteAll(w.row.table, rows), LaterWrites, served)
  BY <1>3, DeletesOk
<1>5. Ok({Later("log_event", [id |-> w.row.id])}, LaterWrites, served)
  BY <1>3, LaterOk
<1>6. /\ \A rows : AllOk(<< DeleteAll(w.row.table, rows),
                            {Later("log_event", [id |-> w.row.id])} >>, LaterWrites, served)
      /\ AllOk(<<>>, LaterWrites, served)
  BY <1>4, <1>5, AllTwo, OkNone
<1> QED BY <1>1, <1>2, <1>6, LaterResolves

-----------------------------------------------------------------------------
(* What every request opens, family by family.                              *)

LEMMA Requests ==
    ASSUME TypeInv, NEW p, Request(p)
    PROVE  \/ RelationRoutes(p) /\ Opens(p, RelationWrites)
           \/ read_feed(p) /\ Opens(p, FeedReads)
           \/ ModerationRoutes(p) /\ Opens(p, ModerationWrites)
           \/ resolve_report_route(p) /\ Opens(p, DecisionWrites)
           \/ ChatRoutes(p) /\ Opens(p, ChatWrites)
           \/ ChatExtraRoutes(p) /\ Opens(p, ChatExtraWrites)
           \/ PostRoutes(p) /\ Opens(p, PostWrites)
           \/ MarkRoutes(p) /\ Opens(p, MarkWrites)
           \/ MemberRoutes(p) /\ Opens(p, MemberWrites)
           \/ GroupRoutes(p) /\ Opens(p, GroupWrites) /\ "groups" \in scene.routes
           \/ SessionRoutes(p) /\ Opens(p, SessionWrites)
           \/ TokenRoutes(p) /\ Opens(p, TokenWrites)
           \/ PollRoutes(p) /\ Opens(p, PollWrites)
           \/ SocialRoutes(p) /\ Opens(p, SocialWrites)
           \/ UploadRoutes(p) /\ Opens(p, UploadWrites)
           \/ AccountRoutes(p) /\ Opens(p, AccountWrites)
           \/ CatalogRoutes(p) /\ Opens(p, CatalogTables)
<1>1. block(p) => RelationRoutes(p)
  BY DEF RelationRoutes
<1>2. \/ RelationRoutes(p) \/ read_feed(p) \/ ModerationRoutes(p) \/ resolve_report_route(p)
      \/ ChatRoutes(p) \/ ChatExtraRoutes(p) \/ PostRoutes(p) \/ MarkRoutes(p)
      \/ MemberRoutes(p) \/ (GroupRoutes(p) /\ "groups" \in scene.routes)
      \/ SessionRoutes(p) \/ TokenRoutes(p) \/ PollRoutes(p) \/ SocialRoutes(p)
      \/ UploadRoutes(p) \/ AccountRoutes(p) \/ CatalogRoutes(p)
  BY <1>1 DEF Request
<1> QED BY <1>2, RelationsOpen, FeedReadsOpen, ModerationOpen, DecisionsOpen, ChatOpen,
           ChatExtrasOpen, PostsOpen, MarksOpen, MembersOpen, GroupsOpen, SessionsOpen,
           TokensOpen, PollsOpen, SocialOpen, UploadsOpen, AccountsOpen, CatalogOpens

LEMMA WritesInTables ==
    \A T \in {RelationWrites, FeedReads, ModerationWrites, DecisionWrites, ChatWrites,
              ChatExtraWrites, PostWrites, MarkWrites, MemberWrites, GroupWrites,
              SessionWrites, TokenWrites, PollWrites, SocialWrites, UploadWrites,
              AccountWrites, CatalogTables} :
        T \subseteq Tables \cup {"handler"}
<1> DEFINE U == Tables \cup {"handler"}
<1>1. /\ RelationTables \subseteq Tables /\ ModerationTables \subseteq Tables
      /\ ChatTables \subseteq Tables /\ FeedTables \subseteq Tables
      /\ GroupTables \subseteq Tables /\ SessionTables \subseteq Tables
      /\ SocialTables \subseteq Tables /\ CatalogTables \subseteq Tables
  BY TablesAssumption
<1>2. RelationWrites \subseteq U /\ FeedReads \subseteq U
  BY <1>1 DEF RelationWrites, FeedReads, RelationTables, FeedTables
<1>3. ModerationWrites \subseteq U /\ DecisionWrites \subseteq U
  BY <1>1 DEF ModerationWrites, DecisionWrites, ModerationTables, ChatTables, FeedTables, GroupTables
<1>4. ChatWrites \subseteq U /\ ChatExtraWrites \subseteq U
  BY <1>1 DEF ChatWrites, ChatExtraWrites, ModerationTables, ChatTables, RelationTables
<1>5. PostWrites \subseteq U /\ MarkWrites \subseteq U
  BY <1>1 DEF PostWrites, MarkWrites, ModerationTables, FeedTables, RelationTables
<1>6. MemberWrites \subseteq U /\ GroupWrites \subseteq U
  BY <1>1 DEF MemberWrites, GroupWrites, ModerationTables, GroupTables, RelationTables
<1>7. SessionWrites \subseteq U /\ TokenWrites \subseteq U
  BY <1>1 DEF SessionWrites, TokenWrites, SessionTables, SocialTables
<1>8. PollWrites \subseteq U /\ SocialWrites \subseteq U /\ UploadWrites \subseteq U
  BY <1>1 DEF PollWrites, SocialWrites, UploadWrites, SocialTables
<1>9. AccountWrites \subseteq U /\ CatalogTables \subseteq U
  BY <1>1 DEF AccountWrites, ModerationTables
<1> QED BY <1>2, <1>3, <1>4, <1>5, <1>6, <1>7, <1>8, <1>9

-----------------------------------------------------------------------------
(* The steps of the system, as the proofs below take them.                  *)

\* The batches of p are new, and of these tables.
Begins(p, batches, T) ==
    /\ Begin(p, batches) /\ AllOk(batches, T, Self)
    /\ Open' \subseteq Open \cup {batches[i] : i \in DOMAIN batches}

\* A batch is applied to the tables.
Commits(batch) ==
    /\ batch \in Open /\ Open' \subseteq Open
    /\ \A w \in batch : w.op \in Writes
    /\ ~Fails(batch)
    /\ store' = Stored(batch)
    /\ served' = served

Clock == ExpireRelations \/ TermsEnd \/ TokensExpire \/ PollsExpire

\* Nothing of these tables changes, nor what is open for them.
Quiet(D) ==
    /\ \A t \in D : store'[t] = store[t]
    /\ served' \in {served, Self}
    /\ \A b \in Open' : \E a \in Open \cup {{}} : On(b, D) = On(a, D)

LEMMA RequestBegins ==
    ASSUME TypeInv, NEW p \in Workers, NEW batches, NEW T, Begin(p, batches),
           AllOk(batches, T, Self)
    PROVE  Begins(p, batches, T) /\ UnitInv'
BY BeginOpens DEF TypeInv, AllOk, Begins

LEMMA QuietBegins ==
    ASSUME TypeInv, NEW p \in Workers, NEW T, NEW D, Opens(p, T), T \cap D = {}
    PROVE  Quiet(D)
<1>1. PICK batches : Begin(p, batches) /\ AllOk(batches, T, Self)
  BY DEF Opens
<1>2. Open' \subseteq Open \cup {batches[i] : i \in DOMAIN batches}
  BY <1>1, RequestBegins DEF Begins
<1>3. \A i \in DOMAIN batches : On(batches[i], D) = On({}, D)
  BY <1>1 DEF AllOk, Ok, On
<1>4. store' = store /\ served' = Self
  BY <1>1 DEF Begin
<1> QED BY <1>2, <1>3, <1>4 DEF Quiet

\* The clock changes no batch and no other table.
LEMMA ClockSteps ==
    ASSUME TypeInv, Clock
    PROVE  /\ UnitInv' /\ Open' = Open /\ served' = served /\ tx' = tx
           /\ \A t \in Tables \ {"relations_cache", "users", "sessions", "csrf_tokens", "polls"} :
                 store'[t] = store[t]
<1>1. tx' = tx /\ served' = served
  BY DEF Clock, ExpireRelations, TermsEnd, TokensExpire, PollsExpire
<1>2. /\ store' = [t \in Tables |-> store'[t]]
      /\ \A t \in Tables \ {"relations_cache", "users", "sessions", "csrf_tokens", "polls"} :
            store'[t] = store[t]
  <2>1. store = [t \in Tables |-> store[t]]
    BY DEF TypeInv, UnitInv
  <2> QED BY <2>1 DEF Clock, ExpireRelations, TermsEnd, TokensExpire, PollsExpire
<1>3. UnitInv'
  BY <1>1, <1>2 DEF UnitInv, TypeInv
<1>4. Open' = Open
  BY <1>1 DEF Open, Batches
<1> QED BY <1>1, <1>2, <1>3, <1>4

\* A step that is neither a request nor a commit nor the clock opens, of the
\* other tables, nothing new.
LEMMA ResolveQuiet ==
    ASSUME TypeInv, NEW p \in Workers, NEW batches, Resolves(p, batches)
    PROVE  /\ UnitInv' /\ UNCHANGED <<store, served>>
           /\ \A b \in Open' : b \in Open \/ Ok(b, Tables \cup {"handler"}, served)
           /\ \A D : D \cap LaterWrites = {} => Quiet(D)
<1>1. /\ UnitInv'
      /\ Open' \subseteq Open \cup {batches[i] : i \in DOMAIN batches}
  BY ResolveOpens DEF Resolves, AllOk, TypeInv
<1>2. UNCHANGED <<store, served>>
  BY DEF Resolves, Resolve
<1>3. \A b \in Open' : b \in Open \/ Ok(b, Tables \cup {"handler"}, served)
  BY <1>1 DEF Resolves, AllOk
<1>4. ASSUME NEW D, D \cap LaterWrites = {} PROVE Quiet(D)
  <2>1. Head(tx[p]) \in Open /\ On({}, D) = {}
    BY HeadOpen DEF Resolves, On
  <2>2. \A i \in DOMAIN batches : On(batches[i], D) \in {{}, On(Head(tx[p]), D)}
    BY <1>4 DEF Resolves
  <2> QED BY <1>1, <1>2, <2>1, <2>2 DEF Quiet
<1> QED BY <1>1, <1>2, <1>3, <1>4

\* Every step of the system is one of these.
LEMMA Steps ==
    ASSUME TypeInv, [Next]_vars
    PROVE  /\ UNCHANGED scene
           /\ \/ UNCHANGED vars
              \/ \E p \in Workers : Request(p) /\ served < scene.requests
              \/ \E batches : \E p \in Workers : Resolves(p, batches)
              \/ \E batch : Commits(batch) /\ UnitInv'
              \/ \E p \in Workers : Abandon(p)
              \/ Clock
<1>1. CASE UNCHANGED vars
  BY <1>1 DEF vars
<1>2. ASSUME NEW p \in Workers, Commit(p) PROVE Commits(Head(tx[p])) /\ UnitInv'
  BY <1>2, CommitCloses DEF Commits, Commit, TypeInv
<1>3. ASSUME NEW p \in Workers, Responded(p) \/ FeedSteps(p)
      PROVE  \E batches : Resolves(p, batches)
  BY <1>3, RespondedResolves, LogEventResolves, ToggleAgainResolves DEF FeedSteps
<1>4. \A p : Request(p) => served < scene.requests
  BY DEF Request
<1>5. CASE Next
  BY <1>2, <1>3, <1>4, <1>5 DEF Next, Clock
<1> QED BY <1>1, <1>5

-----------------------------------------------------------------------------
(* The types are kept.                                                      *)

LEMMA TypedTables == DOMAIN RowTypes \subseteq Tables
BY TablesAssumption, TypesByTable
   DEF RelationTables, ModerationTables, ChatTables, FeedTables, GroupTables, SessionTables,
       SocialTables, CatalogTables, EnterpriseTables

\* What is open stays sound as requests begin.
LEMMA OpenTypes ==
    ASSUME TypeInv, served' \in Int, served <= served',
           \A b \in Open' : b \in Open \/ Ok(b, Tables \cup {"handler"}, served')
    PROVE  \A b \in Open' : Ok(b, Tables \cup {"handler"}, served')
<1> DEFINE U == Tables \cup {"handler"}
<1>1. ASSUME NEW b \in Open PROVE Ok(b, U, served')
  <2>1. Ok(b, U, served)
    BY <1>1 DEF TypeInv
  <2>2. served \in Int
    BY StoreTypes
  <2> HIDE DEF U
  <2> QED BY <2>1, <2>2 DEF Ok, Sound
<1> QED BY <1>1

LEMMA RequestTypes ==
    ASSUME TypeInv, NEW p \in Workers, Request(p), served < scene.requests, UNCHANGED scene
    PROVE  TypeInv' /\ UNCHANGED store
<1>1. PICK T : Opens(p, T) /\ T \subseteq Tables \cup {"handler"}
  BY Requests, WritesInTables
<1>2. PICK batches : Begin(p, batches) /\ AllOk(batches, T, Self)
  BY <1>1 DEF Opens
<1>3. Begins(p, batches, T) /\ UnitInv'
  BY <1>2, RequestBegins
<1>4. store' = store /\ served' = Self
  BY <1>2 DEF Begin
<1>5. served \in Nat /\ served' = served + 1 /\ scene \in Scenes
  BY <1>4 DEF Self, TypeInv, UnitInv
<1>6. AllOk(batches, Tables \cup {"handler"}, served')
  BY <1>1, <1>2, <1>4, <1>5, AllWider
<1>7. \A b \in Open' : b \in Open \/ Ok(b, Tables \cup {"handler"}, served')
  BY <1>3, <1>6 DEF Begins, AllOk
<1>8. \A b \in Open' : Ok(b, Tables \cup {"handler"}, served')
  BY <1>5, <1>7, OpenTypes
<1>9. \A t \in Tables \ Keyed : Numbered(t)'
  BY <1>4, <1>5 DEF TypeInv, Numbered
<1>10. served' <= scene'.requests
  BY <1>5, ScenesAssumption
<1>11. \A t \in DOMAIN RowTypes : store'[t] \subseteq RowTypes[t]
  BY <1>4 DEF TypeInv
<1> QED BY <1>3, <1>4, <1>5, <1>8, <1>9, <1>10, <1>11 DEF TypeInv

LEMMA CommitTypes ==
    ASSUME TypeInv, NEW batch, Commits(batch), UnitInv', UNCHANGED scene
    PROVE  TypeInv'
<1>1. served \in Nat /\ served' = served /\ store' = Stored(batch)
  BY DEF Commits, TypeInv, UnitInv
<1>2. \A w \in batch : Sound(w, served)
  BY DEF Commits, TypeInv, Ok
<1>3. ASSUME NEW t \in DOMAIN RowTypes, NEW r \in store'[t]
      PROVE  r \in RowTypes[t]
  <2>0. t \in Tables /\ store[t] \subseteq RowTypes[t]
    BY TypedTables DEF TypeInv
  <2>1. CASE \E w \in batch : /\ w.on = t /\ w.op = "insert"
                              /\ r = Overlay(w.row, [born |-> served])
    BY <1>1, <1>2, <2>1 DEF Sound, Lasts, Lasting, Typed
  <2>2. CASE r \in store[t]
    BY <2>0, <2>2
  <2>3. CASE \E s \in store[t], w \in batch :
                 /\ w.on = t /\ w.op \in {"update", "patch"}
                 /\ w.row.id = s.id /\ s.id \notin Gone(t, batch)
                 /\ r = Overlay(w.row, s)
    BY <1>2, <2>0, <2>3 DEF Sound, Lasts, Lasting, Typed
  <2> QED BY <1>1, <2>0, <2>1, <2>2, <2>3, CommittedRows
<1>4. ASSUME NEW t \in Tables \ Keyed, NEW r \in store'[t]
      PROVE  /\ {"id", "born"} \subseteq DOMAIN r
             /\ r.id \in Int /\ r.born \in Nat
             /\ r.id <= r.born /\ r.born <= served
  <2>0. Numbered(t)
    BY DEF TypeInv
  <2>1. CASE \E w \in batch : /\ w.on = t /\ w.op = "insert"
                              /\ r = Overlay(w.row, [born |-> served])
    <3>1. PICK w \in batch : /\ w.on = t /\ w.op = "insert"
                             /\ r = Overlay(w.row, [born |-> served])
      BY <2>1
    <3>2. /\ "id" \in DOMAIN w.row /\ "born" \notin DOMAIN w.row
          /\ w.row.id \in Int /\ w.row.id <= served
      BY <1>2, <3>1 DEF Sound
    <3>3. /\ {"id", "born"} \subseteq DOMAIN r /\ r.id = w.row.id /\ r.born = served
      BY <3>1, <3>2 DEF Overlay
    <3> QED BY <1>1, <3>2, <3>3
  <2>2. CASE r \in store[t]
    BY <2>0, <2>2 DEF Numbered
  <2>3. CASE \E s \in store[t], w \in batch :
                 /\ w.on = t /\ w.op \in {"update", "patch"}
                 /\ w.row.id = s.id /\ s.id \notin Gone(t, batch)
                 /\ r = Overlay(w.row, s)
    <3>1. PICK s \in store[t], w \in batch :
                 /\ w.on = t /\ w.op \in {"update", "patch"}
                 /\ w.row.id = s.id /\ s.id \notin Gone(t, batch)
                 /\ r = Overlay(w.row, s)
      BY <2>3
    <3>2. "id" \in DOMAIN w.row /\ "born" \notin DOMAIN w.row
      BY <1>2, <3>1 DEF Sound
    <3>3. {"id", "born"} \subseteq DOMAIN s
      BY <2>0 DEF Numbered
    <3>4. {"id", "born"} \subseteq DOMAIN r /\ r.id = s.id /\ r.born = s.born
      BY <3>1, <3>2, <3>3 DEF Overlay
    <3> QED BY <2>0, <3>4 DEF Numbered
  <2> QED BY <1>1, <2>1, <2>2, <2>3, CommittedRows
<1>5. \A t \in Tables \ Keyed : Numbered(t)'
  BY <1>1, <1>4 DEF Numbered
<1>6. \A b \in Open' : Ok(b, Tables \cup {"handler"}, served')
  BY <1>1 DEF Commits, TypeInv
<1> QED BY <1>1, <1>3, <1>5, <1>6 DEF TypeInv

LEMMA ClockTypes ==
    ASSUME TypeInv, Clock, UNCHANGED scene
    PROVE  TypeInv'
<1> DEFINE timed == {"relations_cache", "users", "sessions", "csrf_tokens", "polls"}
<1>1. /\ UnitInv' /\ Open' = Open /\ served' = served
      /\ \A t \in Tables \ timed : store'[t] = store[t]
  BY ClockSteps
<1>2. store = [t \in Tables |-> store[t]] /\ timed \subseteq Tables
  BY TablesAssumption DEF TypeInv, UnitInv, RelationTables, ModerationTables, SessionTables,
                          SocialTables
<1>3. /\ store["users"] \subseteq User /\ store["sessions"] \subseteq UserSession
      /\ store["csrf_tokens"] \subseteq CSRFToken /\ store["polls"] \subseteq Poll
  BY StoreTypes
<1>4. store'["users"] \subseteq User
  <2>1. store'["users"] = store["users"] \/ TermsEnd
    BY <1>2 DEF Clock, ExpireRelations, TokensExpire, PollsExpire
  <2>2. ASSUME TermsEnd PROVE store'["users"] \subseteq User
    <3> DEFINE over(t) == IF t = "later" THEN "past" ELSE t
               f(a) == [a EXCEPT !.suspended_until = over(@), !.muted_until = over(@)]
    <3>1. store' = [store EXCEPT !["users"] = {f(a) : a \in @}]
      BY <2>2 DEF TermsEnd
    <3>2. \A a \in User : f(a) \in User
      BY DEF User
    <3> HIDE DEF f
    <3>3. store'["users"] = {f(a) : a \in store["users"]}
      BY <1>2, <3>1
    <3> QED BY <1>3, <3>2, <3>3
  <2> QED BY <1>3, <2>1, <2>2
<1> DEFINE f(r) == [r EXCEPT !.expired = TRUE]
<1>5. ASSUME NEW t \in {"sessions", "csrf_tokens", "polls"}, NEW r \in store'[t]
      PROVE  \E s \in store[t] : r = s \/ r = f(s)
  <2>1. TokensExpire => \E x \in {"sessions", "csrf_tokens"} : \E s \in store[x] :
                           store' = [store EXCEPT ![x] = (@ \ {s}) \cup {f(s)}]
    BY DEF TokensExpire
  <2>2. PollsExpire => \E s \in store["polls"] :
                           store' = [store EXCEPT !["polls"] = (@ \ {s}) \cup {f(s)}]
    BY DEF PollsExpire
  <2>3. TokensExpire \/ PollsExpire \/ store'[t] = store[t]
    BY <1>2 DEF Clock, ExpireRelations, TermsEnd
  <2> HIDE DEF f
  <2> QED BY <1>2, <1>5, <2>1, <2>2, <2>3
<1>6. ASSUME NEW t \in {"sessions", "csrf_tokens", "polls"}
      PROVE  store'[t] \subseteq RowTypes[t] /\ Numbered(t)'
  <2>1. t \in Tables \ Keyed /\ store[t] \subseteq RowTypes[t]
    BY <1>2, <1>3, TypesByTable DEF Keyed
  <2>2. \A s \in RowTypes[t] :
            /\ f(s) \in RowTypes[t] /\ f(s).id = s.id /\ f(s).born = s.born
            /\ DOMAIN f(s) = DOMAIN s
    <3>1. \A s \in UserSession : /\ f(s) \in UserSession /\ f(s).id = s.id /\ f(s).born = s.born
                                 /\ DOMAIN f(s) = DOMAIN s
      BY DEF UserSession
    <3>2. \A s \in CSRFToken : /\ f(s) \in CSRFToken /\ f(s).id = s.id /\ f(s).born = s.born
                               /\ DOMAIN f(s) = DOMAIN s
      BY DEF CSRFToken
    <3>3. \A s \in Poll : /\ f(s) \in Poll /\ f(s).id = s.id /\ f(s).born = s.born
                          /\ DOMAIN f(s) = DOMAIN s
      BY DEF Poll
    <3> HIDE DEF f
    <3> QED BY <3>1, <3>2, <3>3, TypesByTable
  <2>3. Numbered(t)
    BY <2>1 DEF TypeInv
  <2> HIDE DEF f
  <2>4. \A r \in store'[t] : \E s \in store[t] :
            r \in RowTypes[t] /\ r.id = s.id /\ r.born = s.born /\ DOMAIN r = DOMAIN s
    BY <1>5, <2>1, <2>2
  <2>5. store'[t] \subseteq RowTypes[t]
    BY <2>4
  <2>6. Numbered(t)'
    BY <1>1, <2>3, <2>4 DEF Numbered
  <2> QED BY <2>5, <2>6
<1>7. \A t \in DOMAIN RowTypes : store'[t] \subseteq RowTypes[t]
  <2>1. \A t \in DOMAIN RowTypes \ timed : store'[t] \subseteq RowTypes[t]
    BY <1>1, TypedTables DEF TypeInv
  <2>2. "relations_cache" \notin DOMAIN RowTypes /\ RowTypes["users"] = User
    BY TypesByTable
  <2> QED BY <1>4, <1>6, <2>1, <2>2
<1>8. \A t \in Tables \ Keyed : Numbered(t)'
  <2>1. \A t \in (Tables \ Keyed) \ timed : Numbered(t)'
    BY <1>1 DEF TypeInv, Numbered
  <2>2. {"relations_cache", "users"} \subseteq Keyed
    BY DEF Keyed
  <2> QED BY <1>6, <2>1, <2>2
<1>9. \A b \in Open' : Ok(b, Tables \cup {"handler"}, served')
  BY <1>1 DEF TypeInv
<1> QED BY <1>1, <1>7, <1>8, <1>9 DEF TypeInv

\* The accounts and the rows that a behaviour begins with.
LEMMA AccountRows ==
    ASSUME NEW suspended
    PROVE  Accounts(suspended) \subseteq User
<1> SUFFICES ASSUME NEW u \in Users
             PROVE  [id |-> u, born |-> 0, is_suspended |-> u \in suspended,
                     suspended_until |-> IF u \in suspended THEN "later" ELSE None,
                     is_muted |-> FALSE, muted_until |-> None, is_shadow_banned |-> FALSE,
                     phone |-> {}] \in User
  BY DEF Accounts
<1> DEFINE is == u \in suspended
           until == IF u \in suspended THEN "later" ELSE None
<1>1. is \in BOOLEAN /\ until \in {None, "later", "past"}
  OBVIOUS
<1> HIDE DEF is, until
<1>2. [id |-> u, born |-> 0, is_suspended |-> is, suspended_until |-> until,
       is_muted |-> FALSE, muted_until |-> None, is_shadow_banned |-> FALSE,
       phone |-> {}] \in User
  BY <1>1 DEF User
<1> QED BY <1>2 DEF is, until

FirstTables == {"users", "reports", "messages", "galleries", "posts", "user_lists",
                "list_members", "feed_controls", "sessions", "groups", "group_members",
                "friends", "polls", "uploads"}

LEMMA FirstRows ==
    ASSUME NEW u \in Users, NEW w \in Users
    PROVE  /\ \A t \in FirstTables \cap DOMAIN RowTypes : Rows(u, w)[t] \subseteq RowTypes[t]
           /\ \A t \in FirstTables \ Keyed : \A r \in Rows(u, w)[t] :
                 {"id", "born"} \subseteq DOMAIN r /\ r.id \in Int /\ r.id <= 0 /\ r.born = 0
<1> DEFINE R == Rows(u, w)
           First(t) == \A r \in R[t] : {"id", "born"} \subseteq DOMAIN r
                                       /\ r.id \in Int /\ r.id <= 0 /\ r.born = 0
<1>1. R["users"] \subseteq User
  <2>1. R["users"] \in {{}, Accounts({w}), Accounts({})}
    BY DEF Rows
  <2> QED BY <2>1, AccountRows
<1>2. R["reports"] \subseteq Report /\ First("reports")
  <2>1. R["reports"] = {[id |-> 0, born |-> 0, reporter |-> u, type |-> "users",
                         target |-> w, status |-> "open"],
                        [id |-> -1, born |-> 0, reporter |-> u, type |-> "users",
                         target |-> w, status |-> "open"]}
    BY DEF Rows
  <2> QED BY <2>1 DEF Report, ReportTypes
<1>3. R["messages"] \subseteq Message /\ First("messages")
  <2>1. R["messages"] = {Overlay([id |-> 0, born |-> 0], NewMessage(u, w))}
    BY DEF Rows
  <2> DEFINE a == [id |-> 0, born |-> 0]
             b == NewMessage(u, w)
             m == Overlay(a, b)
  <2>2. /\ DOMAIN a = {"id", "born"} /\ a.id = 0 /\ a.born = 0
        /\ DOMAIN b = {"id", "sender", "receiver", "reactions", "is_pinned", "is_seen", "edited"}
        /\ b.sender = u /\ b.receiver = w /\ b.reactions = {} /\ b.is_pinned \in BOOLEAN
        /\ b.is_seen \in BOOLEAN /\ b.edited \in BOOLEAN
    BY DEF NewMessage
  <2> HIDE DEF a, b
  <2>3. /\ DOMAIN m = {"id", "born", "sender", "receiver", "reactions", "is_pinned", "is_seen",
                       "edited"}
        /\ m.id = 0 /\ m.born = 0
        /\ m.sender = u /\ m.receiver = w /\ m.reactions = {} /\ m.is_pinned \in BOOLEAN
        /\ m.is_seen \in BOOLEAN /\ m.edited \in BOOLEAN
    BY <2>2 DEF Overlay
  <2>4. m = [c \in DOMAIN a \cup DOMAIN b |-> IF c \in DOMAIN a THEN a[c] ELSE b[c]]
    BY DEF Overlay
  <2> HIDE DEF m
  <2>5. m \in Message
    BY <2>3, <2>4 DEF Message
  <2>6. R["messages"] = {m}
    BY <2>1 DEF m, a, b
  <2> QED BY <2>3, <2>5, <2>6
<1>4. First("galleries")
  <2>1. R["galleries"] = {[id |-> 0, born |-> 0, members |-> {u, w}, creator |-> u,
                           media_count |-> 0]}
    BY DEF Rows
  <2> QED BY <2>1
<1>5. R["posts"] \subseteq Post /\ First("posts")
  <2>1. R["posts"] \subseteq {APost(u, 0, "public"), APost(u, -1, "friends"),
                              APost(u, -2, "followers"), APost(u, -3, "custom")}
    BY DEF Rows
  <2> QED BY <2>1, ContentsAssumption DEF APost, Post, PostVisibility
<1>6. First("user_lists")
  <2>1. R["user_lists"] = {[id |-> 0, born |-> 0, owner |-> w]}
    BY DEF Rows
  <2> QED BY <2>1
<1>7. R["list_members"] \subseteq UserListMember /\ First("list_members")
  <2>1. R["list_members"] = {[id |-> 0, born |-> 0, list |-> 0, user |-> u]}
    BY DEF Rows
  <2> QED BY <2>1 DEF UserListMember
<1>8. R["sessions"] \subseteq UserSession /\ First("sessions")
  <2>1. PICK d \in Devices :
            R["sessions"] = {[id |-> 0, born |-> 0, user |-> u, device |-> d,
                              refresh_token |-> 0, status |-> "active", expired |-> FALSE]}
    BY DevicesAssumption DEF Rows
  <2> QED BY <2>1 DEF UserSession
<1>9. R["groups"] \subseteq Group /\ First("groups")
  <2>1. R["groups"] = {AGroup(u, "anonymous")}
    BY DEF Rows
  <2> QED BY <2>1 DEF AGroup, Group, GroupType
<1>10. R["group_members"] \subseteq GroupMember
  <2>1. R["group_members"] = {[id |-> <<u, 0>>, born |-> 0, since |-> 0, group |-> 0,
                               user |-> u, role |-> "admin", status |-> "active",
                               alias |-> TRUE, invited_by |-> None]}
    BY DEF Rows
  <2> QED BY <2>1 DEF GroupMember, Role
<1>11. R["friends"] \subseteq FriendRequest /\ First("friends")
  <2>1. R["friends"] = {[id |-> 0, born |-> 0, from |-> u, to |-> w, status |-> "accepted"]}
    BY DEF Rows
  <2> QED BY <2>1 DEF FriendRequest, FriendRequestStatus
<1>12. R["polls"] \subseteq Poll /\ First("polls")
  <2>1. R["polls"] = {[id |-> 0, born |-> 0, owner |-> u, votes |-> {}, expired |-> FALSE]}
    BY DEF Rows
  <2> QED BY <2>1 DEF Poll
<1>13. First("uploads")
  <2>1. R["uploads"] = {[id |-> 0, born |-> 0]}
    BY DEF Rows
  <2> QED BY <2>1
<1> HIDE DEF R
<1>14. \A t \in FirstTables \cap DOMAIN RowTypes : R[t] \subseteq RowTypes[t]
  <2>1. {"galleries", "user_lists", "feed_controls", "uploads"} \cap DOMAIN RowTypes = {}
    BY TypesByTable
  <2> QED BY <2>1, <1>1, <1>2, <1>3, <1>5, <1>7, <1>8, <1>9, <1>10, <1>11, <1>12, TypesByTable
          DEF FirstTables
<1>15. \A t \in FirstTables \ Keyed : First(t)
  BY <1>2, <1>3, <1>4, <1>5, <1>6, <1>7, <1>8, <1>9, <1>11, <1>12, <1>13 DEF FirstTables, Keyed
<1> QED BY <1>14, <1>15 DEF R

LEMMA InitTypes ==
    ASSUME Init
    PROVE  TypeInv
<1>1. PICK u \in Users, w \in Users :
          store = [t \in Tables |-> IF t = "users" \/ \E f \in scene.routes : t \in Seeded[f]
                                    THEN Rows(u, w)[t] ELSE {}]
  BY DEF Init
<1>2. /\ scene \in Scenes /\ served = 0 /\ tx = [p \in Workers |-> <<>>]
      /\ scene.routes \subseteq DOMAIN Seeded /\ scene.requests \in Nat
  BY ScenesAssumption DEF Init
<1>3. \A f \in DOMAIN Seeded : Seeded[f] \subseteq FirstTables
  BY DEF Seeded, FirstTables
<1>4. \A t \in Tables : store[t] = {} \/ (t \in FirstTables /\ store[t] = Rows(u, w)[t])
  <2>1. "users" \in FirstTables
    BY DEF FirstTables
  <2> QED BY <1>1, <1>2, <1>3, <2>1
<1>5. UnitInv
  <2>1. <<>> \in Seq({})
    OBVIOUS
  <2>2. \A p \in Workers : tx[p] \in Seq({})
    BY <1>2, <2>1
  <2>3. tx = [p \in Workers |-> tx[p]] /\ store = [t \in Tables |-> store[t]]
    BY <1>1, <1>2
  <2> QED BY <1>2, <2>2, <2>3 DEF UnitInv
<1>6. Open = {}
  BY <1>2 DEF Open, Batches
<1>7. \A t \in DOMAIN RowTypes : store[t] \subseteq RowTypes[t]
  BY <1>4, FirstRows, TypedTables
<1>8. \A t \in Tables \ Keyed : Numbered(t)
  BY <1>2, <1>4, FirstRows DEF Numbered
<1> QED BY <1>2, <1>5, <1>6, <1>7, <1>8 DEF TypeInv

LEMMA NextTypes ==
    ASSUME TypeInv, [Next]_vars
    PROVE  TypeInv'
<1>0. UNCHANGED scene
  BY Steps
<1>1. CASE UNCHANGED vars
  <2>1. store' = store /\ tx' = tx /\ served' = served /\ scene' = scene
    BY <1>1 DEF vars, requestVars
  <2>2. UnitInv' /\ Open' = Open
    BY <2>1 DEF TypeInv, UnitInv, Open, Batches
  <2> QED BY <2>1, <2>2 DEF TypeInv, Numbered
<1>2. CASE \E p \in Workers : Request(p) /\ served < scene.requests
  BY <1>0, <1>2, RequestTypes
<1>3. CASE \E batches : \E p \in Workers : Resolves(p, batches)
  <2>1. /\ UnitInv' /\ UNCHANGED <<store, served>>
        /\ \A b \in Open' : b \in Open \/ Ok(b, Tables \cup {"handler"}, served)
    BY <1>3, ResolveQuiet
  <2>2. \A b \in Open' : Ok(b, Tables \cup {"handler"}, served')
    BY <2>1 DEF TypeInv
  <2> QED BY <1>0, <2>1, <2>2 DEF TypeInv, Numbered
<1>4. CASE \E batch : Commits(batch) /\ UnitInv'
  BY <1>0, <1>4, CommitTypes
<1>5. CASE \E p \in Workers : Abandon(p)
  <2>1. UnitInv' /\ Open' \subseteq Open /\ UNCHANGED <<store, served>>
    BY <1>5, AbandonCloses DEF TypeInv, Abandon
  <2> QED BY <1>0, <2>1 DEF TypeInv, Numbered
<1>6. CASE Clock
  BY <1>0, <1>6, ClockTypes
<1> QED BY <1>1, <1>2, <1>3, <1>4, <1>5, <1>6, Steps

\* Whatever the requests do, at once and in whichever order they commit, the
\* tables hold rows of the models' columns, numbered by requests that have
\* begun and stamped no earlier than that, and what every handler has yet to
\* commit writes such rows.
THEOREM TypesHold == Spec => []TypeInv
<1>1. Init => TypeInv
  BY InitTypes
<1>2. TypeInv /\ [Next]_vars => TypeInv'
  BY NextTypes
<1> QED BY <1>1, <1>2, PTL DEF Spec

\* The type invariant of the backend.
THEOREM TypesCorrect == Spec => []TypeOK
<1>1. TypeInv => TypeOK
  <2> SUFFICES ASSUME TypeInv PROVE TypeOK
    OBVIOUS
  <2>1. served \in 0..scene.requests
    BY ScenesAssumption DEF TypeInv, UnitInv
  <2>2. \A t \in DOMAIN RowTypes : \A r \in store[t] : r \in RowTypes[t]
    BY DEF TypeInv
  <2>3. ASSUME NEW p \in Workers, NEW i \in DOMAIN tx[p], NEW w \in tx[p][i]
        PROVE  /\ w.op \in Writes \cup {"refresh", "log_event", "untoggle"}
               /\ w.on \in Tables \cup {"handler"}
               /\ "id" \in DOMAIN w.row
    <3>1. tx[p][i] \in Open
      BY DEF Open, Batches
    <3> QED BY <3>1 DEF TypeInv, Ok, Sound
  <2> QED BY <2>1, <2>2, <2>3 DEF TypeOK
<1> QED BY <1>1, TypesHold, PTL
=============================================================================
