------------------------ MODULE BackendSafety_proofs ------------------------
(***************************************************************************)
(* The properties of the tables, for any number of workers, users and      *)
(* requests and any families of routes at once.  Each is kept together     *)
(* with what it says of the batches that are open: what a handler read     *)
(* before it left them, weakened by what may have been committed since.    *)
(***************************************************************************)
EXTENDS Backend_proofs

-----------------------------------------------------------------------------
(* The steps that matter to some of the tables.                             *)

Parts(batches) == {batches[i] : i \in DOMAIN batches}

\* The tables that time changes.
Timed == {"relations_cache", "users", "sessions", "csrf_tokens", "polls"}

\* A step that leaves these tables alone, begins a request, commits a batch
\* or lets time pass.
LEMMA QuietOrBusy ==
    ASSUME TypeInv, [Next]_vars, NEW D, D \subseteq Tables, D \cap LaterWrites = {}
    PROVE  /\ UNCHANGED scene
           /\ \/ Quiet(D)
              \/ \E p \in Workers : Request(p)
              \/ \E batch : Commits(batch)
              \/ Clock /\ D \cap Timed # {}
<1>1. CASE UNCHANGED vars
  <2>1. store' = store /\ tx' = tx /\ served' = served
    BY <1>1 DEF vars, requestVars
  <2>2. Open' = Open
    BY <2>1 DEF Open, Batches
  <2> QED BY <2>1, <2>2, Steps DEF Quiet
<1>2. ASSUME NEW p \in Workers, Abandon(p) PROVE Quiet(D)
  <2>1. Open' \subseteq Open /\ store' = store /\ served' = served
    BY <1>2, AbandonCloses DEF TypeInv, Abandon
  <2> QED BY <2>1 DEF Quiet
<1>3. ASSUME NEW p \in Workers, NEW batches, Resolves(p, batches) PROVE Quiet(D)
  BY <1>3, ResolveQuiet
<1>4. ASSUME Clock, D \cap Timed = {} PROVE Quiet(D)
  <2>1. \A t \in D : store'[t] = store[t]
    BY <1>4, ClockSteps DEF Timed
  <2>2. Open' = Open /\ served' = served
    BY <1>4, ClockSteps
  <2> QED BY <2>1, <2>2 DEF Quiet
<1> QED BY <1>1, <1>2, <1>3, <1>4, Steps

\* The batches of a handler, once its family is known to open what it may.
LEMMA HandlerBegins ==
    ASSUME TypeInv, NEW p \in Workers, NEW batches, NEW T, Begin(p, batches), Opens(p, T)
    PROVE  /\ Begins(p, batches, T)
           /\ Open' \subseteq Open \cup Parts(batches)
           /\ \A b \in Parts(batches) : Ok(b, T, Self)
           /\ store' = store /\ served' = Self
<1>1. PICK other : Begin(p, other) /\ AllOk(other, T, Self)
  BY DEF Opens
<1>2. tx'[p] = other /\ tx'[p] = batches
  <2>1. tx = [q \in Workers |-> tx[q]]
    BY DEF TypeInv, UnitInv
  <2> QED BY <1>1, <2>1 DEF Begin
<1>3. Begins(p, batches, T)
  BY <1>1, <1>2, RequestBegins
<1> QED BY <1>3 DEF Begins, Begin, Parts, AllOk

\* A step that opens this batch, and others that spare the tables.
Adds(a, D) ==
    /\ store' = store /\ served' = Self
    /\ \A b \in Open' : b \in Open \/ b = a \/ On(b, D) = {}

\* Batches that spare the tables.
Spares(batches, D) == \E G : batches \in Seq(G) /\ \A b \in G : On(b, D) = {}

LEMMA SparesNone ==
    ASSUME NEW D
    PROVE  Spares(<<>>, D)
<1> DEFINE G == {b \in {{}} : On(b, D) = {}}
<1>1. <<>> \in Seq(G) /\ \A b \in G : On(b, D) = {}
  OBVIOUS
<1> HIDE DEF G
<1> QED BY <1>1 DEF Spares

LEMMA SparesConcat ==
    ASSUME NEW D, NEW s, NEW t, Spares(s, D), Spares(t, D)
    PROVE  Spares(s \o t, D)
<1>1. PICK G : s \in Seq(G) /\ \A b \in G : On(b, D) = {}
  BY DEF Spares
<1>2. PICK H : t \in Seq(H) /\ \A b \in H : On(b, D) = {}
  BY DEF Spares
<1>3. s \in Seq(G \cup H) /\ t \in Seq(G \cup H)
  BY <1>1, <1>2
<1>4. s \o t \in Seq(G \cup H)
  BY <1>3
<1> QED BY <1>1, <1>2, <1>4 DEF Spares

LEMMA AddsAmong ==
    ASSUME TypeInv, NEW p \in Workers, NEW batches, NEW T, Begin(p, batches), Opens(p, T),
           NEW a, NEW D, \A b \in Parts(batches) : b = a \/ On(b, D) = {}
    PROVE  /\ Adds(a, D)
           /\ a \in Parts(batches) => Ok(a, T, Self)
BY HandlerBegins DEF Adds

LEMMA AddsRefreshed ==
    ASSUME TypeInv, NEW p \in Workers, NEW batches, NEW T, BeginRefreshed(p, batches),
           Opens(p, T), NEW a, NEW D, \A b \in Parts(batches) : b = a \/ On(b, D) = {}
    PROVE  Adds(a, D)
<1>1. Parts(<<>>) = {}
  BY DEF Parts
<1> QED BY <1>1, AddsAmong DEF BeginRefreshed

LEMMA AddsOne ==
    ASSUME TypeInv, NEW p \in Workers, NEW a, NEW T, Begin(p, <<a>>), Opens(p, T), NEW D
    PROVE  Adds(a, D) /\ Ok(a, T, Self)
<1>1. Parts(<<a>>) = {a}
  BY DEF Parts
<1> QED BY <1>1, AddsAmong

LEMMA AddsLead ==
    ASSUME TypeInv, NEW p \in Workers, NEW a, NEW rest, NEW T, NEW D,
           Begin(p, <<a>> \o rest), Opens(p, T), Spares(rest, D)
    PROVE  Adds(a, D) /\ Ok(a, T, Self)
<1>1. PICK G : rest \in Seq(G) /\ \A b \in G : On(b, D) = {}
  BY DEF Spares
<1> DEFINE all == <<a>> \o rest
<1>2. /\ DOMAIN all = 1..(Len(rest) + 1) /\ all[1] = a /\ Len(rest) \in Nat
      /\ \A i \in 2..(Len(rest) + 1) : all[i] \in G
  BY <1>1
<1> HIDE DEF all
<1>3. \A b \in Parts(all) : b = a \/ On(b, D) = {}
  BY <1>1, <1>2 DEF Parts
<1>4. a \in Parts(all)
  BY <1>2 DEF Parts
<1> QED BY <1>3, <1>4, AddsAmong DEF all

LEMMA AddsLeadTwo ==
    ASSUME TypeInv, NEW p \in Workers, NEW a, NEW rest, NEW more, NEW T, NEW D,
           Begin(p, (<<a>> \o rest) \o more), Opens(p, T), Spares(rest, D), Spares(more, D)
    PROVE  Adds(a, D) /\ Ok(a, T, Self)
<1>1. PICK G : rest \in Seq(G) /\ \A b \in G : On(b, D) = {}
  BY DEF Spares
<1>2. PICK H : more \in Seq(H) /\ \A b \in H : On(b, D) = {}
  BY DEF Spares
<1>3. (<<a>> \o rest) \o more = <<a>> \o (rest \o more)
  BY <1>1, <1>2
<1> QED BY <1>3, AddsLead, SparesConcat

\* What a request sends after its commit.
LEMMA SparesTail ==
    ASSUME NEW D, D \cap LaterWrites = {}, NEW u, NEW w, NEW kind, NEW actor
    PROVE  Spares(invalidate(u, w), D) /\ Spares(create_notification(u, kind, actor), D)
<1>1. /\ invalidate(u, w) \in Seq({{Delete("relations_cache", u)}, {Delete("relations_cache", w)}})
      /\ create_notification(u, kind, actor) \in Seq({{push(u, kind)}, {notify(u, kind, actor)}})
  BY DEF invalidate, create_notification
<1>2. {"relations_cache", "pushed", "notifications"} \cap D = {}
  BY DEF LaterWrites
<1>3. \A b \in {{Delete("relations_cache", u)}, {Delete("relations_cache", w)},
                {push(u, kind)}, {notify(u, kind, actor)}} : On(b, D) = {}
  BY <1>2 DEF Delete, push, notify, Insert, On
<1> QED BY <1>1, <1>3 DEF Spares

LEMMA GoneBy ==
    ASSUME NEW t, NEW i, NEW batch, Delete(t, i) \in batch
    PROVE  i \in Gone(t, batch)
<1>1. Delete(t, i).on = t /\ Delete(t, i).op = "delete" /\ Delete(t, i).row.id = i
  BY DEF Delete
<1> QED BY <1>1 DEF Gone

\* The three ways a row r is in a table t after a batch.
Inserted(batch, t, r) ==
    \E w \in batch : /\ w.on = t /\ w.op = "insert"
                     /\ r = Overlay(w.row, [born |-> served])
                     /\ r.id = w.row.id /\ r.born = served
                     /\ DOMAIN r = DOMAIN w.row \cup {"born"}
                     /\ \A c \in DOMAIN w.row : r[c] = w.row[c]

Spared(batch, t, r) ==
    /\ r \in store[t] /\ r.id \notin Gone(t, batch)
    /\ \A w \in batch : ~(w.on = t /\ w.row.id = r.id /\ w.op \in {"update", "patch"})

Changed(batch, t, r) ==
    \E s \in store[t], w \in batch :
        /\ s.id \notin Gone(t, batch)
        /\ w.on = t /\ w.op \in {"update", "patch"}
        /\ r = Overlay(w.row, s)
        /\ w.row.id = s.id /\ r.id = s.id /\ r.born = s.born
        /\ \A c \in DOMAIN s \ DOMAIN w.row : r[c] = s[c]
        /\ \A c \in DOMAIN w.row : r[c] = w.row[c]

LEMMA CommitRows ==
    ASSUME TypeInv, NEW batch, Commits(batch), NEW t \in Tables \ Keyed, NEW r \in store'[t]
    PROVE  Inserted(batch, t, r) \/ Spared(batch, t, r) \/ Changed(batch, t, r)
<1>1. \A w \in batch : Sound(w, served)
  BY DEF Commits, TypeInv, Ok
<1>2. Numbered(t)
  BY DEF TypeInv
<1>3. CASE \E w \in batch : /\ w.on = t /\ w.op = "insert"
                            /\ r = Overlay(w.row, [born |-> served])
  <2>1. PICK w \in batch : /\ w.on = t /\ w.op = "insert"
                           /\ r = Overlay(w.row, [born |-> served])
    BY <1>3
  <2>2. "id" \in DOMAIN w.row /\ "born" \notin DOMAIN w.row
    BY <1>1, <2>1 DEF Sound
  <2>3. /\ DOMAIN r = DOMAIN w.row \cup {"born"} /\ r.born = served
        /\ \A c \in DOMAIN w.row : r[c] = w.row[c]
    BY <2>1, <2>2 DEF Overlay
  <2> QED BY <2>1, <2>2, <2>3 DEF Inserted
<1>5. CASE \E s \in store[t], w \in batch :
              /\ w.on = t /\ w.op \in {"update", "patch"}
              /\ w.row.id = s.id /\ s.id \notin Gone(t, batch)
              /\ r = Overlay(w.row, s)
  <2>1. PICK s \in store[t], w \in batch :
              /\ w.on = t /\ w.op \in {"update", "patch"}
              /\ w.row.id = s.id /\ s.id \notin Gone(t, batch)
              /\ r = Overlay(w.row, s)
    BY <1>5
  <2>2. "id" \in DOMAIN w.row /\ "born" \notin DOMAIN w.row /\ {"id", "born"} \subseteq DOMAIN s
    BY <1>1, <1>2, <2>1 DEF Sound, Numbered
  <2>3. /\ r.id = w.row.id /\ r.born = s.born
        /\ \A c \in DOMAIN s \ DOMAIN w.row : r[c] = s[c]
        /\ \A c \in DOMAIN w.row : r[c] = w.row[c]
    BY <2>1, <2>2 DEF Overlay
  <2> QED BY <2>1, <2>3 DEF Changed
<1>6. store' = Stored(batch) /\ t \in Tables
  BY DEF Commits
<1>7. \/ \E w \in batch : /\ w.on = t /\ w.op = "insert"
                         /\ r = Overlay(w.row, [born |-> served])
      \/ Spared(batch, t, r)
      \/ \E s \in store[t], w \in batch :
            /\ w.on = t /\ w.op \in {"update", "patch"}
            /\ w.row.id = s.id /\ s.id \notin Gone(t, batch)
            /\ r = Overlay(w.row, s)
  BY <1>6, CommittedRows DEF Spared
<1> QED BY <1>3, <1>5, <1>7

\* A table that no scene begins with is empty at first.
LEMMA EmptyAtFirst ==
    ASSUME Init, NEW t \in Tables, t # "users", \A f \in DOMAIN Seeded : t \notin Seeded[f]
    PROVE  store[t] = {}
<1>1. scene.routes \subseteq DOMAIN Seeded
  BY ScenesAssumption DEF Init
<1> QED BY <1>1 DEF Init

\* A table that one begins with has its first rows, or none.
LEMMA FirstOrNone ==
    ASSUME Init
    PROVE  /\ Open = {} /\ served = 0 /\ scene.routes \subseteq DOMAIN Seeded
           /\ \E u, w \in Users : /\ u # w
                                  /\ \A t \in Tables : store[t] \in {{}, Rows(u, w)[t]}
<1>1. Open = {} /\ served = 0 /\ scene.routes \subseteq DOMAIN Seeded
  BY ScenesAssumption DEF Init, Open, Batches
<1>2. PICK u \in Users, w \in Users :
          /\ u # w
          /\ store = [t \in Tables |-> IF t = "users" \/ \E f \in scene.routes : t \in Seeded[f]
                                       THEN Rows(u, w)[t] ELSE {}]
  BY DEF Init
<1> QED BY <1>1, <1>2

-----------------------------------------------------------------------------
(* The batch that a relation request leads with.                            *)

SendBatch(a) == \E u, w \in Users :
    /\ ~are_blocked(u, w) /\ Between("friends", u, w) = {}
    /\ a = {Insert("friends", [id |-> Self, from |-> u, to |-> w, status |-> "pending"])}

StatusBatch(a) == \E r \in store["friends"], status \in {"pending", "accepted", "declined"} :
    a = {Update("friends", r.id, [status |-> status])}

FollowBatch(a) == \E u, w \in Users :
    /\ ~are_blocked(u, w) /\ FromTo("followers", u, w) = {}
    /\ a = {Insert("followers", [id |-> Self, from |-> u, to |-> w])}

BlockBatch(a) == \E u, w \in Users :
    /\ u # w /\ FromTo("blocks", u, w) = {}
    /\ Insert("blocks", [id |-> Self, from |-> u, to |-> w]) \in a
    /\ \A t \in {"friends", "followers"} :
          \A r \in Between(t, u, w) : Delete(t, r.id) \in a
    /\ \A x \in a : \/ x = Insert("blocks", [id |-> Self, from |-> u, to |-> w])
                    \/ x.op = "delete" /\ x.on \in {"friends", "followers"}

SeverBatch(a) == \E rows : \E t \in {"followers", "blocks"} : a = DeleteAll(t, rows)

RelationBatch(a) ==
    SendBatch(a) \/ StatusBatch(a) \/ FollowBatch(a) \/ BlockBatch(a) \/ SeverBatch(a)

LEMMA RelationLeads ==
    ASSUME TypeInv, NEW p \in Workers, RelationRoutes(p), Opens(p, RelationWrites),
           NEW D, D \cap LaterWrites = {}
    PROVE  \E a : RelationBatch(a) /\ Adds(a, D)
<1>1. ASSUME NEW u \in Users, NEW w \in Users, send_friend_request(p, u, w)
      PROVE  \E a : RelationBatch(a) /\ Adds(a, D)
  <2>1. CASE /\ Between("friends", u, w) = {}
             /\ Begin(p, << {Insert("friends", [id |-> Self, from |-> u, to |-> w,
                                                status |-> "pending"])} >>
                         \o create_notification(w, "friend_request", u))
    <3> DEFINE a == {Insert("friends", [id |-> Self, from |-> u, to |-> w,
                                        status |-> "pending"])}
    <3>1. SendBatch(a)
      BY <1>1, <2>1 DEF SendBatch, send_friend_request
    <3>2. Begin(p, <<a>> \o create_notification(w, "friend_request", u))
      BY <2>1
    <3> HIDE DEF a
    <3>3. Adds(a, D)
      BY <3>2, AddsLead, SparesTail
    <3> QED BY <3>1, <3>3 DEF RelationBatch
  <2>2. CASE \E r \in FromTo("friends", u, w) :
                 Begin(p, << {Update("friends", r.id, [status |-> "pending"])} >>)
    <3>1. PICK r \in FromTo("friends", u, w) :
              Begin(p, << {Update("friends", r.id, [status |-> "pending"])} >>)
      BY <2>2
    <3>2. StatusBatch({Update("friends", r.id, [status |-> "pending"])})
      BY DEF StatusBatch, FromTo
    <3> QED BY <3>1, <3>2, AddsOne DEF RelationBatch
  <2> QED BY <1>1, <2>1, <2>2 DEF send_friend_request
<1>2. ASSUME NEW u \in Users, NEW r \in store["friends"], NEW answer \in {"accepted", "declined"},
             respond_to_friend_request(p, u, r, answer)
      PROVE  \E a : RelationBatch(a) /\ Adds(a, D)
  <2> DEFINE a == {Update("friends", r.id, [status |-> answer])}
             b == {Later("refresh", [id |-> Self, request |-> r.id])}
  <2>1. Begin(p, <<a, b>>)
    BY <1>2 DEF respond_to_friend_request
  <2>2. StatusBatch(a)
    BY DEF StatusBatch
  <2>3. On(b, D) = {}
    BY DEF Later, On, LaterWrites
  <2> HIDE DEF a, b
  <2>4. Parts(<<a, b>>) = {a, b}
    BY DEF Parts
  <2> QED BY <2>1, <2>2, <2>3, <2>4, AddsAmong DEF RelationBatch
<1>3. ASSUME NEW u \in Users, NEW w \in Users, follow_user(p, u, w)
      PROVE  \E a : RelationBatch(a) /\ Adds(a, D)
  <2> DEFINE a == {Insert("followers", [id |-> Self, from |-> u, to |-> w])}
  <2>1. Begin(p, (<<a>> \o invalidate(u, w)) \o create_notification(w, "follow", u))
    BY <1>3 DEF follow_user
  <2>2. FollowBatch(a)
    BY <1>3 DEF follow_user, FollowBatch
  <2> HIDE DEF a
  <2>3. Adds(a, D)
    BY <2>1, AddsLeadTwo, SparesTail
  <2> QED BY <2>2, <2>3 DEF RelationBatch
<1>4. ASSUME NEW t \in {"followers", "blocks"}, NEW rows, NEW u \in Users, NEW w \in Users,
             Begin(p, << DeleteAll(t, rows) >> \o invalidate(u, w))
      PROVE  \E a : RelationBatch(a) /\ Adds(a, D)
  <2>1. Adds(DeleteAll(t, rows), D)
    BY <1>4, AddsLead, SparesTail
  <2>2. SeverBatch(DeleteAll(t, rows))
    BY DEF SeverBatch
  <2> QED BY <2>1, <2>2 DEF RelationBatch
<1>5. ASSUME NEW u \in Users, NEW w \in Users, block_user(p, u, w)
      PROVE  \E a : RelationBatch(a) /\ Adds(a, D)
  <2> DEFINE a == ({Insert("blocks", [id |-> Self, from |-> u, to |-> w])}
                   \cup DeleteAll("friends", Between("friends", u, w)))
                  \cup DeleteAll("followers", Between("followers", u, w))
  <2>1. Begin(p, <<a>> \o invalidate(u, w))
    BY <1>5 DEF block_user
  <2>2. u # w /\ FromTo("blocks", u, w) = {}
    BY <1>5 DEF block_user
  <2>3. /\ \A r \in Between("friends", u, w) : Delete("friends", r.id) \in a
        /\ \A r \in Between("followers", u, w) : Delete("followers", r.id) \in a
        /\ Insert("blocks", [id |-> Self, from |-> u, to |-> w]) \in a
    BY DEF DeleteAll
  <2>4. \A x \in a : \/ x = Insert("blocks", [id |-> Self, from |-> u, to |-> w])
                     \/ x.op = "delete" /\ x.on \in {"friends", "followers"}
    BY DEF DeleteAll, Delete
  <2> HIDE DEF a
  <2>5. BlockBatch(a)
    BY <2>2, <2>3, <2>4 DEF BlockBatch
  <2>6. Adds(a, D)
    BY <2>1, AddsLead, SparesTail
  <2> QED BY <2>5, <2>6 DEF RelationBatch
<1> QED BY <1>1, <1>2, <1>3, <1>4, <1>5
        DEF RelationRoutes, create_friend_request, respond_friend_request, follow, unfollow,
            block, unblock, unfollow_user, unblock_user

-----------------------------------------------------------------------------
(* The batch of a moderation request.                                       *)

ReportBatch(a) == \E row :
    /\ a = {Insert("reports", row)}
    /\ {"id", "status"} \subseteq DOMAIN row /\ row.id = Self /\ row.status = "open"

DecisionBatch(a) ==
    \E m, term : \E r \in store["reports"],
                     action \in UserActions \cup {"warning", "content_removal"} :
        /\ r.status = "open"
        /\ action \in UserActions =>
              r.type = "users" /\ \E x \in store["users"] : x.id = r.target
        /\ a = (((IF action \in UserActions
                  THEN Edit("users", Account(r.target), Sanction(action, term)) ELSE {})
                 \cup (IF action = "content_removal"
                       THEN {Delete(r.type, r.target)} ELSE {}))
                \cup {Insert("moderation_actions",
                             [id |-> Self, report |-> r.id, moderator |-> m,
                              target |-> r.target, action_type |-> action])})
               \cup Edit("reports", r, [status |-> "resolved"])

ResolveBatch(a) ==
    \E r \in store["reports"], status \in {"resolved", "resolved_ai", "flagged_ai", "escalated"} :
        a = Edit("reports", r, [status |-> status])

OtherBatch(a) == \A x \in a : x.on \in {"votes", "ai_results", "training_data"}

ModerationBatch(a) ==
    ReportBatch(a) \/ DecisionBatch(a) \/ ResolveBatch(a) \/ OtherBatch(a)

LEMMA DecisionLeads ==
    ASSUME TypeInv, NEW p \in Workers, resolve_report_route(p), NEW T, Opens(p, T), NEW D
    PROVE  \E a : ModerationBatch(a) /\ Begin(p, <<a>>) /\ Adds(a, D) /\ Ok(a, T, Self)
<1>1. ASSUME NEW m, NEW r \in store["reports"], NEW term,
             NEW action \in UserActions \cup {"warning", "content_removal"},
             apply_action(p, m, r, action, term)
      PROVE  \E a : ModerationBatch(a) /\ Begin(p, <<a>>) /\ Adds(a, D) /\ Ok(a, T, Self)
  <2> DEFINE a == (((IF action \in UserActions
                     THEN Edit("users", Account(r.target), Sanction(action, term)) ELSE {})
                    \cup (IF action = "content_removal"
                          THEN {Delete(r.type, r.target)} ELSE {}))
                   \cup {Insert("moderation_actions",
                                [id |-> Self, report |-> r.id, moderator |-> m,
                                 target |-> r.target, action_type |-> action])})
                  \cup Edit("reports", r, [status |-> "resolved"])
  <2>1. Begin(p, <<a>>)
    BY <1>1 DEF apply_action, Decide
  <2>2. DecisionBatch(a)
    BY <1>1 DEF DecisionBatch, apply_action, Decide
  <2> HIDE DEF a
  <2> QED BY <2>1, <2>2, AddsOne DEF ModerationBatch
<1>2. ASSUME NEW r \in store["reports"], resolve_report(p, r)
      PROVE  \E a : ModerationBatch(a) /\ Begin(p, <<a>>) /\ Adds(a, D) /\ Ok(a, T, Self)
  <2>1. ResolveBatch(Edit("reports", r, [status |-> "resolved"]))
    BY DEF ResolveBatch
  <2> QED BY <1>2, <2>1, AddsOne DEF resolve_report, ModerationBatch
<1> QED BY <1>1, <1>2 DEF resolve_report_route

LEMMA ModerationLeads ==
    ASSUME TypeInv, NEW p \in Workers, ModerationRoutes(p), NEW T, Opens(p, T), NEW D
    PROVE  \E a : ModerationBatch(a) /\ Begin(p, <<a>>) /\ Adds(a, D) /\ Ok(a, T, Self)
<1>1. ASSUME NEW a, OtherBatch(a), Begin(p, <<a>>)
      PROVE  \E b : ModerationBatch(b) /\ Begin(p, <<b>>) /\ Adds(b, D) /\ Ok(b, T, Self)
  BY <1>1, AddsOne DEF ModerationBatch
<1>2. CASE create_report_route(p)
  <2>1. PICK row : /\ {"id", "status"} \subseteq DOMAIN row /\ row.id = Self
                   /\ row.status = "open" /\ Begin(p, << {Insert("reports", row)} >>)
    BY <1>2 DEF create_report_route, create_report
  <2>2. ReportBatch({Insert("reports", row)})
    BY <2>1 DEF ReportBatch
  <2> QED BY <2>1, <2>2, AddsOne DEF ModerationBatch
<1>3. CASE smart_report_handling(p)
  <2>1. PICK r \in store["reports"], status \in {"resolved_ai", "flagged_ai", "escalated"} :
            Begin(p, << Edit("reports", r, [status |-> status]) >>)
    BY <1>3 DEF smart_report_handling
  <2>2. ResolveBatch(Edit("reports", r, [status |-> status]))
    BY DEF ResolveBatch
  <2> QED BY <2>1, <2>2, AddsOne DEF ModerationBatch
<1>4. CASE submit_community_vote(p) \/ submit_training_feedback(p)
  <2>0. \E row : \E t \in {"votes", "training_data"} : Begin(p, << {Insert(t, row)} >>)
    BY <1>4 DEF submit_community_vote, submit_training_feedback
  <2>1. PICK row : \E t \in {"votes", "training_data"} : Begin(p, << {Insert(t, row)} >>)
    BY <2>0
  <2>2. PICK t \in {"votes", "training_data"} : Begin(p, << {Insert(t, row)} >>)
    BY <2>1
  <2>3. OtherBatch({Insert(t, row)})
    BY DEF OtherBatch, Insert
  <2> QED BY <1>1, <2>2, <2>3
<1>5. CASE analyze_content_route(p)
  <2>1. PICK findings : Begin(p, << analyze_content(findings) >>)
    BY <1>5 DEF analyze_content_route
  <2>2. OtherBatch(analyze_content(findings))
    BY DEF OtherBatch, analyze_content, Insert
  <2> QED BY <1>1, <2>1, <2>2
<1> QED BY <1>2, <1>3, <1>4, <1>5, DecisionLeads DEF ModerationRoutes

\* What a decision writes: the action, the report as resolved, and, by the
\* action, the account or the deletion of what the report is about.
Taken(m, r, action) ==
    Insert("moderation_actions", [id |-> Self, report |-> r.id, moderator |-> m,
                                  target |-> r.target, action_type |-> action])

ResolvesTo(x, r, status) ==
    /\ x.op = "update" /\ x.on = "reports"
    /\ x.row.id = r.id /\ DOMAIN x.row = {"id", "status"} /\ x.row.status = status

LEMMA StatusEdits ==
    ASSUME NEW r, NEW status
    PROVE  /\ \A x \in Edit("reports", r, [status |-> status]) : ResolvesTo(x, r, status)
           /\ r.status # status => \E x \in Edit("reports", r, [status |-> status]) : TRUE
<1> DEFINE cols == [status |-> status]
<1>1. DOMAIN cols = {"status"} /\ cols["status"] = status /\ cols.status = status
  OBVIOUS
<1> HIDE DEF cols
<1>2. ASSUME NEW x \in Edit("reports", r, cols) PROVE ResolvesTo(x, r, status)
  <2> DEFINE changed == {c \in DOMAIN cols : cols[c] # r[c]}
             set == [c \in changed |-> cols[c]]
  <2>1. changed # {} /\ x = Update("reports", r.id, set)
    BY DEF Edit
  <2>2. DOMAIN set = changed /\ changed = {"status"} /\ set["status"] = status
    BY <1>1, <2>1
  <2> HIDE DEF changed, set
  <2> QED BY <2>1, <2>2, UpdateWrites DEF ResolvesTo
<1>3. r.status # status => \E x \in Edit("reports", r, cols) : TRUE
  BY <1>1, EditChanges
<1> QED BY <1>2, <1>3 DEF cols

LEMMA DecisionBatchWrites ==
    ASSUME TypeInv, NEW a, DecisionBatch(a)
    PROVE  \E m, term : \E r \in store["reports"] :
           \E action \in UserActions \cup {"warning", "content_removal"} :
              /\ r.status = "open" /\ r.type \in ReportTypes
              /\ action \in UserActions =>
                    r.type = "users" /\ \E x \in store["users"] : x.id = r.target
              /\ Taken(m, r, action) \in a
              /\ \E x \in a : ResolvesTo(x, r, "resolved")
              /\ action \in UserActions =>
                    Edit("users", Account(r.target), Sanction(action, term)) \subseteq a
              /\ \A x \in a :
                    \/ x = Taken(m, r, action)
                    \/ ResolvesTo(x, r, "resolved")
                    \/ x = Delete(r.type, r.target) /\ action = "content_removal"
                    \/ /\ action \in UserActions
                       /\ x \in Edit("users", Account(r.target), Sanction(action, term))
<1>1. PICK m, term : \E r \in store["reports"],
                          action \in UserActions \cup {"warning", "content_removal"} :
        /\ r.status = "open"
        /\ action \in UserActions =>
              r.type = "users" /\ \E x \in store["users"] : x.id = r.target
        /\ a = (((IF action \in UserActions
                  THEN Edit("users", Account(r.target), Sanction(action, term)) ELSE {})
                 \cup (IF action = "content_removal"
                       THEN {Delete(r.type, r.target)} ELSE {}))
                \cup {Insert("moderation_actions",
                             [id |-> Self, report |-> r.id, moderator |-> m,
                              target |-> r.target, action_type |-> action])})
               \cup Edit("reports", r, [status |-> "resolved"])
  BY DEF DecisionBatch
<1>2. PICK r \in store["reports"], action \in UserActions \cup {"warning", "content_removal"} :
        /\ r.status = "open"
        /\ action \in UserActions =>
              r.type = "users" /\ \E x \in store["users"] : x.id = r.target
        /\ a = (((IF action \in UserActions
                  THEN Edit("users", Account(r.target), Sanction(action, term)) ELSE {})
                 \cup (IF action = "content_removal"
                       THEN {Delete(r.type, r.target)} ELSE {}))
                \cup {Taken(m, r, action)})
               \cup Edit("reports", r, [status |-> "resolved"])
  BY <1>1 DEF Taken
<1>3. /\ r.type \in ReportTypes
      /\ \A x \in Edit("reports", r, [status |-> "resolved"]) : ResolvesTo(x, r, "resolved")
      /\ \E x \in Edit("reports", r, [status |-> "resolved"]) : TRUE
  BY <1>2, StatusEdits, StoreTypes DEF Report
<1> QED BY <1>2, <1>3

-----------------------------------------------------------------------------
(* Friends, follows and blocks.                                             *)

Pairs == {"friends", "followers", "blocks"}

\* An insert comes of a request that began before any row was born that it
\* would contradict, unless the same commit deletes that row; a pair and the
\* numbers of a row are never changed.
PairOk(batch) ==
    \A w \in batch :
        /\ w.on \in Pairs /\ w.op \in {"update", "patch"} =>
              w.on = "friends" /\ DOMAIN w.row = {"id", "status"}
        /\ w.on \in Pairs /\ w.op = "insert" =>
              /\ {"from", "to"} \subseteq DOMAIN w.row
              /\ \A r \in IF w.on = "friends" THEN Between(w.on, w.row.from, w.row.to)
                          ELSE FromTo(w.on, w.row.from, w.row.to) : w.row.id <= r.born
        /\ w.on \in {"friends", "followers"} /\ w.op = "insert" =>
              \A b \in Between("blocks", w.row.from, w.row.to) : w.row.id <= b.born
        /\ w.on = "blocks" /\ w.op = "insert" =>
              \A t \in {"friends", "followers"} :
                  \A r \in Between(t, w.row.from, w.row.to) :
                      w.row.id <= r.born \/ r.id \in Gone(t, batch)

PairsInv ==
    /\ BlockSevers
    /\ PairsDoubledOnlyTogether
    /\ \A batch \in Open : PairOk(batch)

LEMMA PairTables ==
    ASSUME TypeInv
    PROVE  /\ Pairs \subseteq Tables \ Keyed /\ Pairs \cap LaterWrites = {} /\ Pairs \cap Timed = {}
           /\ served \in Nat
           /\ \A t \in Pairs : \A r \in store[t] :
                 /\ {"id", "born", "from", "to"} \subseteq DOMAIN r
                 /\ r.id \in Int /\ r.born \in Nat /\ r.id <= r.born /\ r.born <= served
<1>1. Pairs \subseteq Tables \ Keyed
  BY TablesAssumption DEF Pairs, RelationTables, Keyed
<1>2. served \in Nat /\ \A t \in Tables \ Keyed : Numbered(t)
  BY DEF TypeInv, UnitInv
<1>3. \A t \in Pairs : \A r \in store[t] : {"from", "to"} \subseteq DOMAIN r
  BY StoreTypes DEF Pairs, FriendRequest, Follower, Block
<1> QED BY <1>1, <1>2, <1>3 DEF Pairs, LaterWrites, Timed, Numbered

\* A batch that is not about pairs.
LEMMA PairsSpared == \A batch : On(batch, Pairs) = {} => PairOk(batch)
BY DEF On, PairOk, Pairs

LEMMA PairsQuiet ==
    ASSUME TypeInv, PairsInv, Quiet(Pairs)
    PROVE  PairsInv'
<1>1. /\ store'["friends"] = store["friends"] /\ store'["followers"] = store["followers"]
      /\ store'["blocks"] = store["blocks"]
  BY DEF Quiet, Pairs
<1>2. /\ \A t \in Pairs : \A u, w : Between(t, u, w)' = Between(t, u, w)
      /\ \A t \in Pairs : \A u, w : FromTo(t, u, w)' = FromTo(t, u, w)
  BY <1>1 DEF Between, FromTo, Pairs
<1>3. BlockSevers'
  BY <1>1, <1>2 DEF PairsInv, BlockSevers, Pairs, Overlapped
<1>4. PairsDoubledOnlyTogether'
  BY <1>1, <1>2 DEF PairsInv, PairsDoubledOnlyTogether, Pairs, Overlapped
<1>5. ASSUME NEW b \in Open' PROVE PairOk(b)'
  <2>1. PICK a \in Open \cup {{}} : On(b, Pairs) = On(a, Pairs)
    BY DEF Quiet
  <2>2. PairOk(a)
    BY <2>1, PairsSpared DEF PairsInv, On
  <2>3. \A w : w.on \in Pairs => (w \in b <=> w \in a)
    BY <2>1 DEF On
  <2>4. \A t \in Pairs : Gone(t, b) = Gone(t, a)
    BY <2>3 DEF Gone
  <2>5. {"friends", "followers", "blocks"} = Pairs
    BY DEF Pairs
  <2> QED BY <1>2, <2>2, <2>3, <2>4, <2>5 DEF PairOk
<1> QED BY <1>3, <1>4, <1>5 DEF PairsInv

\* A request keeps the invariant when its batch respects it.
LEMMA PairsAdd ==
    ASSUME TypeInv, PairsInv, NEW a, Adds(a, Pairs), PairOk(a)
    PROVE  PairsInv'
<1>1. BlockSevers' /\ PairsDoubledOnlyTogether'
  BY DEF Adds, PairsInv, BlockSevers, PairsDoubledOnlyTogether, Overlapped, Between, FromTo
<1>2. ASSUME NEW b, PairOk(b) PROVE PairOk(b)'
  BY <1>2 DEF Adds, PairOk, Between, FromTo
<1> QED BY <1>1, <1>2, PairsSpared DEF PairsInv, Adds

\* The rows of a pair after a commit.
LEMMA PairRows ==
    ASSUME TypeInv, NEW batch, Commits(batch), PairOk(batch), NEW t \in Pairs,
           NEW r \in store'[t]
    PROVE  \/ \E w \in batch : /\ w.on = t /\ w.op = "insert"
                               /\ r.id = w.row.id /\ r.born = served
                               /\ r.from = w.row.from /\ r.to = w.row.to
           \/ \E s \in store[t] : /\ s.id \notin Gone(t, batch)
                                  /\ r.id = s.id /\ r.born = s.born
                                  /\ r.from = s.from /\ r.to = s.to
<1>1. t \in Tables \ Keyed
  BY PairTables
<1>2. CASE Inserted(batch, t, r)
  BY <1>2 DEF PairOk, Inserted
<1>3. CASE Spared(batch, t, r)
  BY <1>3 DEF Spared
<1>4. CASE Changed(batch, t, r)
  <2>1. PICK s \in store[t], w \in batch :
              /\ s.id \notin Gone(t, batch) /\ r.id = s.id /\ r.born = s.born
              /\ w.on = t /\ w.op \in {"update", "patch"}
              /\ \A c \in DOMAIN s \ DOMAIN w.row : r[c] = s[c]
    BY <1>4 DEF Changed
  <2>2. DOMAIN w.row = {"id", "status"} /\ {"from", "to"} \subseteq DOMAIN s
    BY <2>1, PairTables DEF PairOk
  <2> QED BY <2>1, <2>2
<1> QED BY <1>1, <1>2, <1>3, <1>4, CommitRows

LEMMA PairsCommit ==
    ASSUME TypeInv, PairsInv, NEW batch, Commits(batch)
    PROVE  PairsInv'
<1> DEFINE New(t, r) == \E w \in batch : /\ w.on = t /\ w.op = "insert"
                                         /\ r.id = w.row.id /\ r.born = served
                                         /\ r.from = w.row.from /\ r.to = w.row.to
           Old(t, r) == \E s \in store[t] : /\ s.id \notin Gone(t, batch)
                                            /\ r.id = s.id /\ r.born = s.born
                                            /\ r.from = s.from /\ r.to = s.to
<1>1. /\ batch \in Open /\ Open' \subseteq Open /\ PairOk(batch) /\ served' = served
      /\ served \in Nat /\ "friends" \in Pairs /\ "followers" \in Pairs /\ "blocks" \in Pairs
  BY PairTables DEF Commits, PairsInv, Pairs
<1>2. \A t \in Pairs : \A r \in store'[t] : New(t, r) \/ Old(t, r)
  BY <1>1, PairRows
<1>3. \A b \in Open : \A w \in b : w.on \in Pairs /\ w.op = "insert" =>
          w.row.id \in Int /\ w.row.id <= served
  BY PairTables DEF TypeInv, Ok, Sound
<1>4. \A t \in Pairs : \A r \in store[t] : /\ r.id \in Int /\ r.born \in Nat
                                           /\ r.id <= r.born /\ r.born <= served
  BY PairTables
<1>5. \A t \in Pairs : \A r : New(t, r) \/ Old(t, r) =>
          r.id \in Int /\ r.born \in Nat /\ r.id <= r.born /\ r.born <= served
  BY <1>1, <1>3, <1>4
<1>6. \A t \in Pairs : \A r : New(t, r) => r.born = served
  OBVIOUS
<1>7. BlockSevers'
  <2> SUFFICES ASSUME NEW b \in store'["blocks"], NEW t \in {"friends", "followers"},
                      NEW r \in store'[t],
                      <<r.from, r.to>> \in {<<b.from, b.to>>, <<b.to, b.from>>}
               PROVE  Overlapped(r, b)
    BY DEF BlockSevers, Between, Overlapped
  <2>0. t \in Pairs
    BY DEF Pairs
  <2>1. CASE New(t, r) /\ New("blocks", b)
    BY <1>1, <1>5, <1>6, <2>0, <2>1 DEF Overlapped
  <2>2. CASE Old(t, r) /\ New("blocks", b)
    <3>1. PICK w \in batch : /\ w.on = "blocks" /\ w.op = "insert"
                             /\ b.id = w.row.id /\ b.born = served
                             /\ b.from = w.row.from /\ b.to = w.row.to
      BY <2>2
    <3>2. PICK s \in store[t] : /\ s.id \notin Gone(t, batch)
                                /\ r.id = s.id /\ r.born = s.born
                                /\ r.from = s.from /\ r.to = s.to
      BY <2>2
    <3>3. s \in Between(t, w.row.from, w.row.to)
      BY <3>1, <3>2 DEF Between
    <3>4. w.row.id <= s.born
      BY <1>1, <3>1, <3>2, <3>3 DEF PairOk
    <3>5. s.id \in Int /\ s.born \in Nat /\ s.id <= s.born /\ s.born <= served
      BY <1>4, <2>0
    <3> QED BY <1>1, <3>1, <3>2, <3>4, <3>5 DEF Overlapped
  <2>3. CASE New(t, r) /\ Old("blocks", b)
    <3>1. PICK w \in batch : /\ w.on = t /\ w.op = "insert"
                             /\ r.id = w.row.id /\ r.born = served
                             /\ r.from = w.row.from /\ r.to = w.row.to
      BY <2>3
    <3>2. PICK c \in store["blocks"] : /\ b.id = c.id /\ b.born = c.born
                                       /\ b.from = c.from /\ b.to = c.to
      BY <2>3
    <3>3. c \in Between("blocks", w.row.from, w.row.to)
      BY <3>1, <3>2 DEF Between
    <3>4. w.row.id <= c.born
      BY <1>1, <3>1, <3>3 DEF PairOk
    <3>5. c.id \in Int /\ c.born \in Nat /\ c.id <= c.born /\ c.born <= served
      BY <1>1, <1>4
    <3> QED BY <1>1, <3>1, <3>2, <3>4, <3>5 DEF Overlapped
  <2>4. CASE Old(t, r) /\ Old("blocks", b)
    <3>1. PICK s \in store[t] : /\ r.id = s.id /\ r.born = s.born
                                /\ r.from = s.from /\ r.to = s.to
      BY <2>4
    <3>2. PICK c \in store["blocks"] : /\ b.id = c.id /\ b.born = c.born
                                       /\ b.from = c.from /\ b.to = c.to
      BY <2>4
    <3> QED BY <3>1, <3>2 DEF PairsInv, BlockSevers, Between, Overlapped
  <2> QED BY <1>1, <1>2, <2>0, <2>1, <2>2, <2>3, <2>4
<1>8. ASSUME NEW t \in Pairs, NEW r \in store'[t], NEW s \in store'[t], r # s,
             \/ r.from = s.from /\ r.to = s.to
             \/ t = "friends" /\ r.from = s.to /\ r.to = s.from
      PROVE  Overlapped(r, s)
  <2>1. ASSUME NEW x, NEW y, New(t, x), Old(t, y),
               \/ x.from = y.from /\ x.to = y.to
               \/ t = "friends" /\ x.from = y.to /\ x.to = y.from
        PROVE  Overlapped(x, y)
    <3>1. PICK w \in batch : /\ w.on = t /\ w.op = "insert"
                             /\ x.id = w.row.id /\ x.born = served
                             /\ x.from = w.row.from /\ x.to = w.row.to
      BY <2>1
    <3>2. PICK c \in store[t] : /\ y.id = c.id /\ y.born = c.born
                                /\ y.from = c.from /\ y.to = c.to
      BY <2>1
    <3>3. c \in IF t = "friends" THEN Between(t, w.row.from, w.row.to)
                ELSE FromTo(t, w.row.from, w.row.to)
      BY <2>1, <3>1, <3>2 DEF Between, FromTo
    <3>4. w.row.id <= c.born
      BY <1>1, <3>1, <3>3 DEF PairOk
    <3>5. c.id \in Int /\ c.born \in Nat /\ c.id <= c.born /\ c.born <= served
      BY <1>4
    <3> QED BY <1>1, <3>1, <3>2, <3>4, <3>5 DEF Overlapped
  <2>2. CASE New(t, r) /\ New(t, s)
    BY <1>1, <1>5, <1>6, <2>2 DEF Overlapped
  <2>3. CASE New(t, r) /\ Old(t, s)
    BY <1>8, <2>1, <2>3
  <2>4. CASE Old(t, r) /\ New(t, s)
    <3>1. Overlapped(s, r)
      BY <1>8, <2>1, <2>4
    <3> QED BY <3>1 DEF Overlapped
  <2>5. CASE Old(t, r) /\ Old(t, s)
    <3>1. PICK x \in store[t] : /\ r.id = x.id /\ r.born = x.born
                                /\ r.from = x.from /\ r.to = x.to
      BY <2>5
    <3>2. PICK y \in store[t] : /\ s.id = y.id /\ s.born = y.born
                                /\ s.from = y.from /\ s.to = y.to
      BY <2>5
    <3>3. CASE x = y
      BY <1>4, <3>1, <3>2, <3>3 DEF Overlapped
    <3>4. CASE x # y
      <4>1. Overlapped(x, y)
        BY <1>8, <3>1, <3>2, <3>4 DEF PairsInv, PairsDoubledOnlyTogether, Between, FromTo, Pairs
      <4> QED BY <3>1, <3>2, <4>1 DEF Overlapped
    <3> QED BY <3>3, <3>4
  <2> QED BY <1>2, <2>2, <2>3, <2>4, <2>5
<1>9. PairsDoubledOnlyTogether'
  BY <1>8 DEF PairsDoubledOnlyTogether, Between, FromTo, Overlapped, Pairs
<1>10. ASSUME NEW b \in Open' PROVE PairOk(b)'
  <2>1. b \in Open /\ PairOk(b)
    BY <1>1 DEF PairsInv
  <2>2. ASSUME NEW w \in b, w.on \in Pairs, w.op = "insert", NEW t \in Pairs, NEW r \in store'[t],
               New(t, r)
        PROVE  w.row.id <= r.born
    BY <1>3, <1>6, <2>1, <2>2
  <2>3. ASSUME NEW w \in b, NEW t \in Pairs, NEW u, NEW v, NEW r \in Between(t, u, v)',
               w.on \in Pairs, w.op = "insert",
               \A s \in Between(t, u, v) : w.row.id <= s.born \/ s.id \in Gone(t, b)
        PROVE  w.row.id <= r.born \/ r.id \in Gone(t, b)
    <3>1. r \in store'[t] /\ <<r.from, r.to>> \in {<<u, v>>, <<v, u>>}
      BY <2>3 DEF Between
    <3>2. CASE Old(t, r)
      BY <2>3, <3>1, <3>2 DEF Between
    <3> QED BY <1>2, <2>2, <2>3, <3>1, <3>2
  <2>4. ASSUME NEW w \in b, NEW t \in Pairs, NEW u, NEW v, NEW r \in Between(t, u, v)',
               w.on \in Pairs, w.op = "insert",
               \A s \in Between(t, u, v) : w.row.id <= s.born
        PROVE  w.row.id <= r.born
    <3>1. r \in store'[t] /\ <<r.from, r.to>> \in {<<u, v>>, <<v, u>>}
      BY <2>4 DEF Between
    <3>2. CASE Old(t, r)
      BY <2>4, <3>1, <3>2 DEF Between
    <3> QED BY <1>2, <2>2, <2>4, <3>1, <3>2
  <2>5. ASSUME NEW w \in b, NEW t \in Pairs, NEW u, NEW v, NEW r \in FromTo(t, u, v)',
               w.on \in Pairs, w.op = "insert",
               \A s \in FromTo(t, u, v) : w.row.id <= s.born
        PROVE  w.row.id <= r.born
    <3>1. r \in store'[t] /\ r.from = u /\ r.to = v
      BY <2>5 DEF FromTo
    <3>2. CASE Old(t, r)
      BY <2>5, <3>1, <3>2 DEF FromTo
    <3> QED BY <1>2, <2>2, <2>5, <3>1, <3>2
  <2> HIDE DEF New, Old
  <2>6. ASSUME NEW w \in b, w.on \in Pairs, w.op \in {"update", "patch"}
        PROVE  w.on = "friends" /\ DOMAIN w.row = {"id", "status"}
    BY <2>1, <2>6 DEF PairOk
  <2>7. ASSUME NEW w \in b, w.on \in Pairs, w.op = "insert"
        PROVE  /\ {"from", "to"} \subseteq DOMAIN w.row
               /\ \A r \in IF w.on = "friends" THEN Between(w.on, w.row.from, w.row.to)'
                           ELSE FromTo(w.on, w.row.from, w.row.to)' : w.row.id <= r.born
    BY <2>1, <2>4, <2>5, <2>7 DEF PairOk
  <2>8. ASSUME NEW w \in b, w.on \in {"friends", "followers"}, w.op = "insert",
               NEW r \in Between("blocks", w.row.from, w.row.to)'
        PROVE  w.row.id <= r.born
    BY <1>1, <2>1, <2>4, <2>8 DEF PairOk
  <2>9. ASSUME NEW w \in b, w.on = "blocks", w.op = "insert", NEW t \in {"friends", "followers"},
               NEW r \in Between(t, w.row.from, w.row.to)'
        PROVE  w.row.id <= r.born \/ r.id \in Gone(t, b)
    BY <1>1, <2>1, <2>3, <2>9 DEF PairOk
  <2> QED BY <2>6, <2>7, <2>8, <2>9 DEF PairOk
<1> QED BY <1>7, <1>9, <1>10 DEF PairsInv

LEMMA PairsRelations ==
    ASSUME TypeInv, PairsInv, NEW p \in Workers, RelationRoutes(p), Opens(p, RelationWrites)
    PROVE  PairsInv'
<1>1. Pairs \cap LaterWrites = {}
  BY DEF Pairs, LaterWrites
<1>2. PICK a : RelationBatch(a) /\ Adds(a, Pairs)
  BY <1>1, RelationLeads
<1>3. ASSUME SendBatch(a) PROVE PairOk(a)
  BY <1>3 DEF SendBatch, are_blocked, PairOk, Insert, Pairs
<1>4. ASSUME StatusBatch(a) PROVE PairOk(a)
  BY <1>4, UpdateWrites DEF StatusBatch, PairOk
<1>5. ASSUME FollowBatch(a) PROVE PairOk(a)
  BY <1>5 DEF FollowBatch, are_blocked, PairOk, Insert, Pairs
<1>6. ASSUME BlockBatch(a) PROVE PairOk(a)
  <2>1. PICK u \in Users, w \in Users :
            /\ FromTo("blocks", u, w) = {}
            /\ \A t \in {"friends", "followers"} :
                  \A r \in Between(t, u, w) : Delete(t, r.id) \in a
            /\ \A x \in a : \/ x = Insert("blocks", [id |-> Self, from |-> u, to |-> w])
                            \/ x.op = "delete" /\ x.on \in {"friends", "followers"}
    BY <1>6 DEF BlockBatch
  <2>2. \A t \in {"friends", "followers"} : \A r \in Between(t, u, w) : r.id \in Gone(t, a)
    BY <2>1, GoneBy
  <2> QED BY <2>1, <2>2 DEF PairOk, Insert
<1>7. ASSUME SeverBatch(a) PROVE PairOk(a)
  BY <1>7 DEF SeverBatch, PairOk, DeleteAll, Delete
<1> QED BY <1>2, <1>3, <1>4, <1>5, <1>6, <1>7, PairsAdd DEF RelationBatch

LEMMA PairsRequest ==
    ASSUME TypeInv, PairsInv, NEW p \in Workers, Request(p)
    PROVE  PairsInv'
<1> DEFINE others == {FeedReads, ModerationWrites, DecisionWrites, ChatWrites,
              ChatExtraWrites, PostWrites, MarkWrites, MemberWrites, GroupWrites,
              SessionWrites, TokenWrites, PollWrites, SocialWrites, UploadWrites,
              AccountWrites, CatalogTables}
<1>1. \A T \in others : T \cap Pairs = {}
  BY DEF Pairs, FeedReads, ModerationWrites, DecisionWrites, ChatWrites,
         ChatExtraWrites, PostWrites, MarkWrites, MemberWrites, GroupWrites,
         SessionWrites, TokenWrites, PollWrites, SocialWrites, UploadWrites,
         AccountWrites, CatalogTables, EnterpriseTables, RegionalTables,
         PlatformTables
<1>2. \/ RelationRoutes(p) /\ Opens(p, RelationWrites)
      \/ \E T \in others : Opens(p, T)
  BY Requests
<1> HIDE DEF others
<1> QED BY <1>1, <1>2, QuietBegins, PairsQuiet, PairsRelations

LEMMA PairsInit ==
    ASSUME Init
    PROVE  PairsInv
<1>1. Pairs \subseteq Tables
  BY TablesAssumption DEF Pairs, RelationTables
<1>2. store["blocks"] = {} /\ store["followers"] = {}
  BY <1>1, EmptyAtFirst DEF Seeded, Pairs
<1>3. Open = {} /\ \A r, s \in store["friends"] : r = s
  <2>1. \A u, w : \A r, s \in Rows(u, w)["friends"] : r = s
    BY DEF Rows
  <2> QED BY <1>1, <2>1, FirstOrNone DEF Pairs
<1> QED BY <1>2, <1>3 DEF PairsInv, BlockSevers, PairsDoubledOnlyTogether, Between, FromTo

LEMMA PairsNext ==
    ASSUME TypeInv, PairsInv, [Next]_vars
    PROVE  PairsInv'
<1>1. /\ Pairs \subseteq Tables /\ Pairs \cap LaterWrites = {} /\ Pairs \cap Timed = {}
  BY PairTables
<1> QED BY <1>1, QuietOrBusy, PairsQuiet, PairsRequest, PairsCommit

\* Whatever is committed in whichever order, the tables of friends, follows
\* and blocks keep their invariant.
THEOREM PairsHold == Spec => []PairsInv
<1>1. Init => PairsInv
  BY PairsInit
<1>2. TypeInv /\ PairsInv /\ [Next]_vars => PairsInv'
  BY PairsNext
<1> QED BY <1>1, <1>2, TypesHold, PTL DEF Spec

\* A block leaves between the two users no friendship and no follow but one
\* that was in flight with it.
THEOREM BlocksSever == Spec => []BlockSevers
<1>1. PairsInv => BlockSevers
  BY DEF PairsInv
<1> QED BY <1>1, PairsHold, PTL

\* A pair is stored twice only by two requests in flight together.
THEOREM PairsNotDoubled == Spec => []PairsDoubledOnlyTogether
<1>1. PairsInv => PairsDoubledOnlyTogether
  BY DEF PairsInv
<1> QED BY <1>1, PairsHold, PTL

-----------------------------------------------------------------------------
(* Direct messages and blocks.                                              *)

Talk == {"messages", "delivered", "blocks"}

\* A message comes of a request that began before the block it would pass was
\* born, and so does what is told of it over the sockets; who wrote it to whom,
\* and who blocked whom, is never changed.  What is made up for a message that
\* is not there lies between no two users.
SendFits(batch) ==
    \A w \in batch :
        /\ w.on = "messages" /\ w.op \in {"update", "patch"} =>
              {"sender", "receiver"} \cap DOMAIN w.row = {}
        /\ w.on = "messages" /\ w.op = "insert" =>
              /\ {"sender", "receiver"} \subseteq DOMAIN w.row
              /\ \A b \in store["blocks"] :
                    {w.row.sender, w.row.receiver} = {b.from, b.to} => w.row.id <= b.born
        /\ w.on = "delivered" => w.op \notin {"update", "patch"}
        /\ w.on = "delivered" /\ w.op = "insert" =>
              /\ {"from", "to"} \subseteq DOMAIN w.row
              /\ \A b \in store["blocks"] :
                    {w.row.from, w.row.to} = {b.from, b.to} => w.row.id <= b.born
        /\ w.on = "blocks" => w.op \notin {"update", "patch"}
        /\ w.on = "blocks" /\ w.op = "insert" =>
              {"from", "to"} \subseteq DOMAIN w.row /\ w.row.from # w.row.to

MessagesInv ==
    /\ NoMessageThroughBlock
    /\ \A b \in store["blocks"] : b.from # b.to
    /\ \A batch \in Open : SendFits(batch)

LEMMA TalkTables ==
    ASSUME TypeInv
    PROVE  /\ Talk \subseteq Tables \ Keyed /\ Talk \cap LaterWrites = {} /\ Talk \cap Timed = {}
           /\ served \in Nat
           /\ \A t \in Talk : \A r \in store[t] :
                 /\ {"id", "born"} \subseteq DOMAIN r
                 /\ r.id \in Int /\ r.born \in Nat /\ r.id <= r.born /\ r.born <= served
           /\ \A m \in store["messages"] : {"sender", "receiver"} \subseteq DOMAIN m
<1>1. Talk \subseteq Tables \ Keyed
  BY TablesAssumption DEF Talk, RelationTables, ChatTables, Keyed
<1>2. served \in Nat /\ \A t \in Tables \ Keyed : Numbered(t)
  BY DEF TypeInv, UnitInv
<1>3. \A m \in store["messages"] : {"sender", "receiver"} \subseteq DOMAIN m
  BY StoreTypes DEF Message
<1> QED BY <1>1, <1>2, <1>3 DEF Talk, LaterWrites, Timed, Numbered

LEMMA TalkSpared == \A batch : On(batch, Talk) = {} => SendFits(batch)
BY DEF On, SendFits, Talk

LEMMA MessagesQuiet ==
    ASSUME TypeInv, MessagesInv, Quiet(Talk)
    PROVE  MessagesInv'
<1>1. /\ store'["messages"] = store["messages"] /\ store'["blocks"] = store["blocks"]
      /\ store'["delivered"] = store["delivered"]
  BY DEF Quiet, Talk
<1>2. NoMessageThroughBlock' /\ \A b \in store'["blocks"] : b.from # b.to
  BY <1>1 DEF MessagesInv, NoMessageThroughBlock, Conversation, Delivered
<1>3. ASSUME NEW b \in Open' PROVE SendFits(b)'
  <2>1. PICK a \in Open \cup {{}} : On(b, Talk) = On(a, Talk)
    BY DEF Quiet
  <2>2. SendFits(a)
    BY <2>1, TalkSpared DEF MessagesInv, On
  <2>3. \A w : w.on \in Talk => (w \in b <=> w \in a)
    BY <2>1 DEF On
  <2>4. {"messages", "delivered", "blocks"} = Talk
    BY DEF Talk
  <2> QED BY <1>1, <2>2, <2>3, <2>4 DEF SendFits
<1> QED BY <1>2, <1>3 DEF MessagesInv

LEMMA MessagesAdd ==
    ASSUME TypeInv, MessagesInv, NEW a, Adds(a, Talk), SendFits(a)
    PROVE  MessagesInv'
<1>1. NoMessageThroughBlock' /\ \A b \in store'["blocks"] : b.from # b.to
  BY DEF Adds, MessagesInv, NoMessageThroughBlock, Conversation, Delivered
<1>2. ASSUME NEW b, SendFits(b) PROVE SendFits(b)'
  BY <1>2 DEF Adds, SendFits
<1> QED BY <1>1, <1>2, TalkSpared DEF MessagesInv, Adds

\* A request that opens several such batches.
LEMMA MessagesBegin ==
    ASSUME TypeInv, MessagesInv, NEW p \in Workers, NEW batches, NEW T,
           Begin(p, batches) \/ BeginRefreshed(p, batches), Opens(p, T),
           \A b \in Parts(batches) : SendFits(b)
    PROVE  MessagesInv'
<1>1. PICK opened : Begin(p, opened) /\ \A b \in Parts(opened) : SendFits(b)
  <2>1. Parts(<<>>) = {}
    BY DEF Parts
  <2> QED BY <2>1 DEF BeginRefreshed
<1>2. store' = store /\ Open' \subseteq Open \cup Parts(opened)
  BY <1>1, HandlerBegins
<1>3. NoMessageThroughBlock' /\ \A b \in store'["blocks"] : b.from # b.to
  BY <1>2 DEF MessagesInv, NoMessageThroughBlock, Conversation, Delivered
<1>4. \A b \in Open' : SendFits(b)
  BY <1>1, <1>2 DEF MessagesInv
<1>5. \A b : SendFits(b) => SendFits(b)'
  BY <1>2 DEF SendFits
<1> QED BY <1>3, <1>4, <1>5 DEF MessagesInv

LEMMA MessagesCommit ==
    ASSUME TypeInv, MessagesInv, NEW batch, Commits(batch)
    PROVE  MessagesInv'
<1>1. /\ batch \in Open /\ Open' \subseteq Open /\ SendFits(batch) /\ served' = served
      /\ served \in Nat /\ "messages" \in Talk /\ "blocks" \in Talk
      /\ "delivered" \in Talk
      /\ Talk \subseteq Tables \ Keyed
  BY TalkTables DEF Commits, MessagesInv, Talk
<1>2. \A b \in Open : \A w \in b : w.on \in Talk /\ w.op = "insert" =>
          w.row.id \in Int /\ w.row.id <= served
  BY TalkTables DEF TypeInv, Ok, Sound
<1> DEFINE NewM(m) == /\ m.id \in Int /\ m.id <= served
                      /\ \A b \in store["blocks"] :
                            {m.sender, m.receiver} = {b.from, b.to} => m.id <= b.born
           OldM(m) == \E s \in store["messages"] :
                         m.id = s.id /\ m.sender = s.sender /\ m.receiver = s.receiver
           NewB(b) == b.born = served /\ b.from # b.to
           NewD(d) == /\ d.id \in Int /\ d.id <= served
                      /\ \A b \in store["blocks"] :
                            {d.from, d.to} = {b.from, b.to} => d.id <= b.born
<1>3. ASSUME NEW m \in store'["messages"] PROVE NewM(m) \/ OldM(m)
  <2>1. CASE Inserted(batch, "messages", m)
    BY <1>1, <1>2, <2>1 DEF Inserted, SendFits
  <2>2. CASE Spared(batch, "messages", m)
    BY <2>2 DEF Spared
  <2>3. CASE Changed(batch, "messages", m)
    <3>1. PICK s \in store["messages"], w \in batch :
              /\ w.on = "messages" /\ w.op \in {"update", "patch"} /\ m.id = s.id
              /\ \A c \in DOMAIN s \ DOMAIN w.row : m[c] = s[c]
      BY <2>3 DEF Changed
    <3>2. {"sender", "receiver"} \subseteq DOMAIN s \ DOMAIN w.row
      BY <1>1, <3>1, TalkTables DEF SendFits
    <3> QED BY <3>1, <3>2
  <2> QED BY <1>1, <2>1, <2>2, <2>3, CommitRows
<1>4. ASSUME NEW b \in store'["blocks"] PROVE NewB(b) \/ b \in store["blocks"]
  <2>1. CASE Inserted(batch, "blocks", b)
    BY <1>1, <2>1 DEF Inserted, SendFits
  <2>2. CASE Spared(batch, "blocks", b)
    BY <2>2 DEF Spared
  <2>3. CASE Changed(batch, "blocks", b)
    BY <1>1, <2>3 DEF Changed, SendFits
  <2> QED BY <1>1, <2>1, <2>2, <2>3, CommitRows
<1>5. \A m \in store["messages"] : m.id \in Int /\ m.id <= served
  BY <1>1, TalkTables
<1>6. \A m \in store'["messages"] : m.id \in Int /\ m.id <= served
  BY <1>3, <1>5
<1>10. ASSUME NEW d \in store'["delivered"] PROVE NewD(d) \/ d \in store["delivered"]
  <2>1. CASE Inserted(batch, "delivered", d)
    BY <1>1, <1>2, <2>1 DEF Inserted, SendFits
  <2>2. CASE Spared(batch, "delivered", d)
    BY <2>2 DEF Spared
  <2>3. CASE Changed(batch, "delivered", d)
    BY <1>1, <2>3 DEF Changed, SendFits
  <2> QED BY <1>1, <2>1, <2>2, <2>3, CommitRows
<1>11. \A d \in store'["delivered"] : d.id \in Int /\ d.id <= served
  <2>1. \A d \in store["delivered"] : d.id \in Int /\ d.id <= served
    BY <1>1, TalkTables
  <2> QED BY <1>10, <2>1
<1>7. NoMessageThroughBlock'
  <2>1. ASSUME NEW b \in store'["blocks"], NEW m \in store'["messages"],
               {m.sender, m.receiver} = {b.from, b.to}
        PROVE  m.id <= b.born
    <3>1. CASE NewB(b)
      BY <1>6, <3>1
    <3>2. CASE b \in store["blocks"]
      BY <1>3, <2>1, <3>2 DEF MessagesInv, NoMessageThroughBlock, Conversation
    <3> QED BY <1>4, <3>1, <3>2
  <2>2. ASSUME NEW b \in store'["blocks"], NEW d \in store'["delivered"],
               {d.from, d.to} = {b.from, b.to}
        PROVE  d.id <= b.born
    <3>1. CASE NewB(b)
      BY <1>11, <3>1
    <3>2. CASE b \in store["blocks"]
      BY <1>10, <2>2, <3>2 DEF MessagesInv, NoMessageThroughBlock, Delivered
    <3> QED BY <1>4, <3>1, <3>2
  <2> HIDE DEF NewB, NewD, NewM, OldM
  <2> QED BY <2>1, <2>2 DEF NoMessageThroughBlock, Conversation, Delivered
<1>8. \A b \in store'["blocks"] : b.from # b.to
  BY <1>4 DEF MessagesInv
<1>9. ASSUME NEW b \in Open' PROVE SendFits(b)'
  <2>1. b \in Open /\ SendFits(b)
    BY <1>1 DEF MessagesInv
  <2>2. \A w \in b : w.on = "messages" /\ w.op = "insert" =>
            \A c \in store'["blocks"] :
                {w.row.sender, w.row.receiver} = {c.from, c.to} => w.row.id <= c.born
    BY <1>1, <1>2, <1>4, <2>1 DEF SendFits
  <2>3. \A w \in b : w.on = "delivered" /\ w.op = "insert" =>
            \A c \in store'["blocks"] :
                {w.row.from, w.row.to} = {c.from, c.to} => w.row.id <= c.born
    BY <1>1, <1>2, <1>4, <2>1 DEF SendFits
  <2> QED BY <2>1, <2>2, <2>3 DEF SendFits
<1> QED BY <1>7, <1>8, <1>9 DEF MessagesInv

\* What the sockets are told of a message fits where the message does, and what
\* the devices of its author are told is between no two users.
LEMMA DeliveriesFit ==
    ASSUME MessagesInv, NEW u \in Users, NEW w \in Users, NEW findings,
           Sendable(u, w, findings), NEW a, a \subseteq {deliver(u, v, kind) :
                                        v \in {u, w}, kind \in {"message", "chat"}}
    PROVE  SendFits(a)
<1>1. \A b \in store["blocks"] : {u, w} # {b.from, b.to} /\ {u, u} # {b.from, b.to}
  <2>1. Between("blocks", u, w) = {}
    BY DEF Sendable, are_blocked
  <2>2. \A b \in store["blocks"] : b.from # b.to
    BY DEF MessagesInv
  <2> QED BY <2>1, <2>2 DEF Between
<1>2. ASSUME NEW x \in a
      PROVE  /\ x.on = "delivered" /\ x.op = "insert" /\ {"from", "to"} \subseteq DOMAIN x.row
             /\ x.row.from = u /\ x.row.to \in {u, w}
  <2>1. PICK v \in {u, w}, kind \in {"message", "chat"} : x = deliver(u, v, kind)
    OBVIOUS
  <2> QED BY <2>1 DEF deliver, Insert
<1> QED BY <1>1, <1>2 DEF SendFits

\* What a sender leaves: a message, and writes of other tables.
LEMMA SentMessage ==
    ASSUME TypeInv, NEW u \in Users, NEW w \in Users, NEW findings, Sendable(u, w, findings)
    PROVE  \E a : /\ SendFits(a)
                  /\ Sent(u, w, findings) = << {deliver(u, w, "message")}, a >>
<1> DEFINE a == ({Insert("messages", NewMessage(u, w)), notify(w, "message", u)}
                 \cup analyze_content(findings)) \cup _refresh_user_moderation(u)
           m == Insert("messages", NewMessage(u, w))
<1>1. Between("blocks", u, w) = {}
  BY DEF Sendable, are_blocked
<1>2. \A x \in a : x = m \/ x.on \in {"notifications", "ai_results", "users"}
  <2>1. served \in Nat
    BY StoreTypes
  <2>2. \A x \in analyze_content(findings) : x.on = "ai_results"
    BY DEF analyze_content, Insert
  <2>3. \A x \in _refresh_user_moderation(u) : x.on = "users"
    <3>1. Ok(_refresh_user_moderation(u), {"users"}, Self)
      BY LiftOk
    <3> QED BY <3>1 DEF Ok
  <2>4. notify(w, "message", u).on = "notifications"
    BY DEF notify, Insert
  <2> QED BY <2>2, <2>3, <2>4
<1>3. /\ m.on = "messages" /\ m.op = "insert"
      /\ {"sender", "receiver"} \subseteq DOMAIN m.row
      /\ m.row.sender = u /\ m.row.receiver = w
  BY DEF Insert, NewMessage
<1>4. \A b \in store["blocks"] : {u, w} # {b.from, b.to}
  BY <1>1 DEF Between
<1>5. Sent(u, w, findings) = << {deliver(u, w, "message")}, a >>
  BY DEF Sent
<1> HIDE DEF a, m
<1>6. SendFits(a)
  BY <1>2, <1>3, <1>4 DEF SendFits
<1> QED BY <1>5, <1>6

LEMMA MessageEdits ==
    ASSUME NEW m, NEW cols, {"id", "sender", "receiver"} \cap DOMAIN cols = {}
    PROVE  SendFits(Edit("messages", m, cols))
BY EditWrites DEF SendFits

LEMMA MessagesChat ==
    ASSUME TypeInv, MessagesInv, NEW p \in Workers, ChatRoutes(p), Opens(p, ChatWrites)
    PROVE  MessagesInv'
<1>1. ASSUME NEW batches, Begin(p, batches) \/ BeginRefreshed(p, batches),
             \A b \in Parts(batches) : SendFits(b)
      PROVE  MessagesInv'
  BY <1>1, MessagesBegin
<1>2. ASSUME NEW a, SendFits(a), Begin(p, <<a>>) \/ BeginRefreshed(p, <<a>>)
      PROVE  MessagesInv'
  <2>1. Parts(<<a>>) = {a}
    BY DEF Parts
  <2> QED BY <1>1, <1>2, <2>1
<1>3. ASSUME NEW u \in Users, NEW w \in Users, NEW findings, send_message(p, u, w, findings)
                                                  \/ send_media_message(p, u, w, findings)
      PROVE  MessagesInv'
  <2>1. Sendable(u, w, findings)
    BY <1>3 DEF send_message, send_media_message
  <2>2. PICK a : SendFits(a) /\ Sent(u, w, findings) = << {deliver(u, w, "message")}, a >>
    BY <2>1, SentMessage
  <2>3. SendFits({deliver(u, w, "message")})
    BY <2>1, DeliveriesFit
  <2>4. Parts(<< {deliver(u, w, "message")}, a >>) = {{deliver(u, w, "message")}, a}
    BY DEF Parts
  <2> QED BY <1>1, <1>3, <2>2, <2>3, <2>4 DEF send_message, send_media_message
<1>4. ASSUME create_message(p) PROVE MessagesInv'
  BY <1>3, <1>4 DEF create_message
<1>5. ASSUME forward_message_endpoint(p) PROVE MessagesInv'
  BY <1>3, <1>5 DEF forward_message_endpoint, forward_message
<1>6. ASSUME gateway_message(p) PROVE MessagesInv'
  <2>1. PICK u \in Users, w \in Users, findings \in Contents :
            chat_websocket_message(p, u, w, findings)
    BY <1>6 DEF gateway_message
  <2> DEFINE S == {{deliver(u, x, kind)} : x \in {u, w}, kind \in {"message", "chat"}}
             first == << {deliver(u, w, "message")}, {deliver(u, u, "chat")} >>
             rest == IF is_user_shadow_banned(u) THEN <<>> ELSE << {deliver(u, w, "chat")} >>
  <2>2. first \in Seq(S) /\ rest \in Seq(S)
    <3>1. /\ {deliver(u, w, "message")} \in S /\ {deliver(u, u, "chat")} \in S
          /\ {deliver(u, w, "chat")} \in S
      OBVIOUS
    <3> HIDE DEF S
    <3> QED BY <3>1
  <2>3. \A b \in S : SendFits(b)
    BY <2>1, DeliveriesFit DEF chat_websocket_message
  <2>4. BeginRefreshed(p, first \o rest)
    BY <2>1 DEF chat_websocket_message
  <2> HIDE DEF S, first, rest
  <2>5. \A b \in Parts(first \o rest) : b \in S
    <3>1. first \o rest \in Seq(S)
      BY <2>2
    <3> QED BY <3>1 DEF Parts
  <2> QED BY <1>1, <2>3, <2>4, <2>5
<1>7. ASSUME create_media_message(p) PROVE MessagesInv'
  <2>1. PICK u \in Users, w \in Users, findings \in Contents :
            /\ Sendable(u, w, findings)
            /\ Begin(p, << Head(Sent(u, w, findings)),
                           {deliver(u, u, "chat"), deliver(u, w, "chat")} >>
                        \o Tail(Sent(u, w, findings)))
    BY <1>7 DEF create_media_message
  <2>2. PICK a : SendFits(a) /\ Sent(u, w, findings) = << {deliver(u, w, "message")}, a >>
    BY <2>1, SentMessage
  <2> DEFINE x == {deliver(u, w, "message")}
             y == {deliver(u, u, "chat"), deliver(u, w, "chat")}
  <2>3. SendFits(x) /\ SendFits(y)
    BY <2>1, DeliveriesFit
  <2>4. Head(<<x, a>>) = x /\ Tail(<<x, a>>) = <<a>>
    OBVIOUS
  <2>5. Begin(p, <<x, y>> \o <<a>>)
    BY <2>1, <2>2, <2>4
  <2> HIDE DEF x, y
  <2>6. \A b \in Parts(<<x, y>> \o <<a>>) : b \in {x, y, a}
    <3>1. <<x, y>> \o <<a>> \in Seq({x, y, a})
      OBVIOUS
    <3> QED BY <3>1 DEF Parts
  <2> QED BY <1>1, <2>2, <2>3, <2>5, <2>6
<1>8. ASSUME delete_message_endpoint(p) PROVE MessagesInv'
  <2>1. \A i : SendFits({Delete("messages", i)})
    BY DEF SendFits, Delete
  <2> QED BY <1>2, <1>8, <2>1 DEF delete_message_endpoint, delete_message
<1>9. ASSUME NEW m, NEW cols, Change(p, m, cols), {"id", "sender", "receiver"} \cap DOMAIN cols = {}
      PROVE  MessagesInv'
  BY <1>2, <1>9, MessageEdits DEF Change
<1>10. CASE update_message_endpoint(p) \/ mark_message_seen_endpoint(p)
  <2>1. \E m : Change(p, m, [edited |-> TRUE]) \/ Change(p, m, [is_seen |-> TRUE])
    BY <1>10 DEF update_message_endpoint, mark_message_seen_endpoint, update_message,
                 mark_message_as_seen
  <2> QED BY <1>9, <2>1
<1>11. CASE toggle_pin_message_endpoint(p)
  <2>1. PICK m : Change(p, m, [is_pinned |-> ~m.is_pinned])
    BY <1>11 DEF toggle_pin_message_endpoint, toggle_pin_message
  <2> DEFINE cols == [is_pinned |-> ~m.is_pinned]
  <2>2. DOMAIN cols = {"is_pinned"}
    OBVIOUS
  <2> HIDE DEF cols
  <2>3. Change(p, m, cols)
    BY <2>1 DEF cols
  <2> QED BY <1>9, <2>2, <2>3
<1>12. CASE toggle_message_reaction_endpoint(p)
  <2>1. PICK m, r : Change(p, m, [reactions |-> r])
    BY <1>12 DEF toggle_message_reaction_endpoint, toggle_message_reaction
  <2> QED BY <1>9, <2>1
<1>13. CASE patch_chat_settings(p)
  <2>1. \A row : SendFits({InsertUnique("chat_settings", row, {"user", "peer"})})
    BY DEF SendFits, InsertUnique
  <2>2. \A s, muted : SendFits(Edit("chat_settings", s, [is_muted |-> muted]))
    <3> TAKE s, muted
    <3>1. \A x \in Edit("chat_settings", s, [is_muted |-> muted]) : x.on = "chat_settings"
      BY EditWrites
    <3> QED BY <3>1 DEF SendFits
  <2> QED BY <1>2, <1>13, <2>1, <2>2 DEF patch_chat_settings, update_chat_settings
<1> QED BY <1>4, <1>5, <1>6, <1>7, <1>8, <1>10, <1>11, <1>12, <1>13 DEF ChatRoutes

LEMMA MessagesRelations ==
    ASSUME TypeInv, MessagesInv, NEW p \in Workers, RelationRoutes(p), Opens(p, RelationWrites)
    PROVE  MessagesInv'
<1>1. Talk \cap LaterWrites = {}
  BY DEF Talk, LaterWrites
<1>2. PICK a : RelationBatch(a) /\ Adds(a, Talk)
  BY <1>1, RelationLeads
<1>3. SendFits(a)
  <2>1. CASE SendBatch(a) \/ FollowBatch(a)
    BY <2>1 DEF SendBatch, FollowBatch, SendFits, Insert
  <2>2. CASE StatusBatch(a)
    BY <2>2, UpdateWrites DEF StatusBatch, SendFits
  <2>3. CASE BlockBatch(a)
    BY <2>3 DEF BlockBatch, SendFits, Insert
  <2>4. CASE SeverBatch(a)
    BY <2>4 DEF SeverBatch, SendFits, DeleteAll, Delete
  <2> QED BY <1>2, <2>1, <2>2, <2>3, <2>4 DEF RelationBatch
<1> QED BY <1>2, <1>3, MessagesAdd

LEMMA MessagesModeration ==
    ASSUME TypeInv, MessagesInv, NEW a, ModerationBatch(a), Adds(a, Talk)
    PROVE  MessagesInv'
<1>1. ASSUME ReportBatch(a) PROVE SendFits(a)
  BY <1>1 DEF ReportBatch, SendFits, Insert
<1>2. ASSUME ResolveBatch(a) PROVE SendFits(a)
  BY <1>2, EditWrites DEF ResolveBatch, SendFits
<1>3. ASSUME OtherBatch(a) PROVE SendFits(a)
  BY <1>3 DEF OtherBatch, SendFits
<1>4. ASSUME DecisionBatch(a) PROVE SendFits(a)
  <2>1. PICK m, term : \E r \in store["reports"] :
            \E action \in UserActions \cup {"warning", "content_removal"} :
              \A x \in a :
                    \/ x = Taken(m, r, action)
                    \/ ResolvesTo(x, r, "resolved")
                    \/ x = Delete(r.type, r.target)
                    \/ /\ action \in UserActions
                       /\ x \in Edit("users", Account(r.target), Sanction(action, term))
    BY <1>4, DecisionBatchWrites
  <2>2. ASSUME NEW action \in UserActions, NEW u, NEW x \in Edit("users", u, Sanction(action, term))
        PROVE  x.on = "users"
    <3>1. "id" \notin DOMAIN Sanction(action, term)
      BY DEF Sanction, UserActions, Suspending
    <3> QED BY <3>1, <2>2, EditWrites
  <2>3. \A x \in a : x.op = "delete" \/ x.on \in {"moderation_actions", "reports", "users"}
    BY <2>1, <2>2 DEF Taken, Insert, Delete, ResolvesTo
  <2>4. \A x \in a : x.on = "blocks" => x.op = "delete"
    BY <2>3
  <2> QED BY <2>3, <2>4 DEF SendFits
<1>5. SendFits(a)
  BY <1>1, <1>2, <1>3, <1>4 DEF ModerationBatch
<1> QED BY <1>5, MessagesAdd

LEMMA MessagesExtras ==
    ASSUME TypeInv, MessagesInv, NEW p \in Workers, ChatExtraRoutes(p), Opens(p, ChatExtraWrites)
    PROVE  MessagesInv'
<1>1. ASSUME NEW a, SendFits(a), Begin(p, <<a>>) PROVE MessagesInv'
  BY <1>1, AddsOne, MessagesAdd
<1>2. ASSUME NEW a, On(a, Talk) = {}, Begin(p, <<a>>) PROVE MessagesInv'
  BY <1>1, <1>2, TalkSpared
<1>3. ASSUME NEW i, NEW user, NEW w, On({w}, Talk) = {},
             Begin(p, << {w} \cup _ensure_message_exists(i, user) >>)
      PROVE  MessagesInv'
  <2> DEFINE m == InsertUnique("messages", [NewMessage(user, user) EXCEPT !.id = i], {"id"})
  <2>1. /\ m.on = "messages" /\ m.op = "insert" /\ {"sender", "receiver"} \subseteq DOMAIN m.row
        /\ m.row.sender = user /\ m.row.receiver = user
    BY DEF InsertUnique, NewMessage
  <2>2. \A x \in _ensure_message_exists(i, user) : x = m
    BY DEF _ensure_message_exists
  <2> HIDE DEF m
  <2>3. \A b \in store["blocks"] : {m.row.sender, m.row.receiver} # {b.from, b.to}
    BY <2>1 DEF MessagesInv
  <2>4. w.on \notin Talk
    BY <1>3 DEF On
  <2>5. SendFits({w} \cup _ensure_message_exists(i, user))
    BY <2>1, <2>2, <2>3, <2>4 DEF SendFits, Talk
  <2> QED BY <1>1, <1>3, <2>5
<1>4. CASE translate_msg(p)
  <2>1. PICK i \in MessageIds : translate_message(p, i, "en")
    BY <1>4 DEF translate_msg
  <2>2. \A row, cols : On({InsertUnique("translations", row, cols)}, Talk) = {}
    BY DEF On, InsertUnique, Talk
  <2> QED BY <1>3, <2>1, <2>2 DEF translate_message
<1>5. CASE sync_to_device(p)
  <2>1. PICK u \in Users, i \in MessageIds : sync_message_to_device(p, u, "phone", i)
    BY <1>5 DEF sync_to_device
  <2>2. \A row : On({Insert("device_syncs", row)}, Talk) = {}
    BY DEF On, Insert, Talk
  <2> QED BY <1>3, <2>1, <2>2 DEF sync_message_to_device
<1>6. /\ \A t \in {"bookmarks", "scheduled_messages", "backups", "galleries", "transcriptions"} :
             /\ \A row : On({Insert(t, row)}, Talk) = {}
             /\ \A row, cols : On({InsertUnique(t, row, cols)}, Talk) = {}
             /\ \A i : On({Delete(t, i)}, Talk) = {}
      /\ \A s : On(Edit("device_syncs", s, [status |-> "synced"]), Talk) = {}
      /\ \A row, s, n : On({Insert("gallery_items", row)}
                           \cup Edit("galleries", s, [media_count |-> n]), Talk) = {}
  <2>1. \A s : \A x \in Edit("device_syncs", s, [status |-> "synced"]) : x.on = "device_syncs"
    BY EditWrites
  <2>2. \A s, n : \A x \in Edit("galleries", s, [media_count |-> n]) : x.on = "galleries"
    BY EditWrites
  <2> QED BY <2>1, <2>2 DEF On, Insert, InsertUnique, Delete, Talk
<1>7. CASE add_bookmark(p) \/ remove_bookmark(p) \/ schedule_new_message(p) \/ cancel_scheduled(p)
  BY <1>2, <1>6, <1>7 DEF add_bookmark, remove_bookmark, schedule_new_message, cancel_scheduled,
         bookmark_message, unbookmark_message, schedule_message, cancel_scheduled_message
<1>8. CASE mark_synced(p) \/ initiate_backup(p) \/ create_gallery(p) \/ upload_voice_message(p)
  BY <1>2, <1>6, <1>8 DEF mark_synced, initiate_backup, create_gallery, upload_voice_message,
         mark_sync_complete, create_backup, create_media_gallery, create_voice_transcription
<1>9. CASE add_media(p)
  BY <1>2, <1>6, <1>9 DEF add_media, add_media_to_gallery
<1>10. CASE mark_message_encryption(p)
  <2>1. Parts(<<>>) = {} /\ Begin(p, <<>>)
    BY <1>10 DEF Parts, mark_message_encryption, mark_message_encrypted
  <2>2. SendFits({})
    BY DEF SendFits
  <2> QED BY <2>1, <2>2, AddsAmong, MessagesAdd
<1> QED BY <1>4, <1>5, <1>7, <1>8, <1>9, <1>10 DEF ChatExtraRoutes

LEMMA MessagesRequest ==
    ASSUME TypeInv, MessagesInv, NEW p \in Workers, Request(p)
    PROVE  MessagesInv'
<1> DEFINE others == {FeedReads, PostWrites, MarkWrites, MemberWrites, GroupWrites,
              SessionWrites, TokenWrites, PollWrites, SocialWrites, UploadWrites,
              AccountWrites, CatalogTables}
<1>1. \A T \in others : T \cap Talk = {}
  BY DEF Talk, FeedReads, PostWrites, MarkWrites, MemberWrites, GroupWrites,
         SessionWrites, TokenWrites, PollWrites, SocialWrites, UploadWrites,
         AccountWrites, CatalogTables, EnterpriseTables, RegionalTables, PlatformTables
<1>2. \/ RelationRoutes(p) /\ Opens(p, RelationWrites)
      \/ ModerationRoutes(p) /\ Opens(p, ModerationWrites)
      \/ resolve_report_route(p) /\ Opens(p, DecisionWrites)
      \/ ChatRoutes(p) /\ Opens(p, ChatWrites)
      \/ ChatExtraRoutes(p) /\ Opens(p, ChatExtraWrites)
      \/ \E T \in others : Opens(p, T)
  BY Requests
<1> HIDE DEF others
<1>3. CASE \E T \in others : Opens(p, T)
  BY <1>1, <1>3, QuietBegins, MessagesQuiet
<1>4. CASE \/ ModerationRoutes(p) /\ Opens(p, ModerationWrites)
           \/ resolve_report_route(p) /\ Opens(p, DecisionWrites)
  <2>1. \E a : ModerationBatch(a) /\ Adds(a, Talk)
    BY <1>4, ModerationLeads, DecisionLeads
  <2> QED BY <2>1, MessagesModeration
<1> QED BY <1>2, <1>3, <1>4, MessagesRelations, MessagesChat, MessagesExtras

LEMMA MessagesInit ==
    ASSUME Init
    PROVE  MessagesInv
<1>1. Open = {} /\ "blocks" \in Tables
  BY FirstOrNone, TablesAssumption DEF RelationTables
<1>2. store["blocks"] = {}
  BY <1>1, EmptyAtFirst DEF Seeded
<1> QED BY <1>1, <1>2 DEF MessagesInv, NoMessageThroughBlock

LEMMA MessagesNext ==
    ASSUME TypeInv, MessagesInv, [Next]_vars
    PROVE  MessagesInv'
<1>1. Talk \subseteq Tables /\ Talk \cap LaterWrites = {} /\ Talk \cap Timed = {}
  BY TalkTables
<1> QED BY <1>1, QuietOrBusy, MessagesQuiet, MessagesRequest, MessagesCommit

\* Whatever is committed in whichever order, messages and blocks keep their
\* invariant.
THEOREM MessagesHold == Spec => []MessagesInv
<1>1. Init => MessagesInv
  BY MessagesInit
<1>2. TypeInv /\ MessagesInv /\ [Next]_vars => MessagesInv'
  BY MessagesNext
<1> QED BY <1>1, <1>2, TypesHold, PTL DEF Spec

\* No message of a request that began after a block passes that block, by
\* whichever route it is sent: no row of it is stored, and nothing of it is
\* told over the sockets.
THEOREM BlocksStopMessages == Spec => []NoMessageThroughBlock
<1>1. MessagesInv => NoMessageThroughBlock
  BY DEF MessagesInv
<1> QED BY <1>1, MessagesHold, PTL

-----------------------------------------------------------------------------
(* Feeds.                                                                   *)

\* A post that the filter of a feed passes, by relations that are current.
LEMMA VisibleIsOpen ==
    ASSUME NEW u, NEW post \in _visible_post_filter(u, RelationsOf(u)),
           post.user # u, FromTo("blocks", post.user, u) = {}
    PROVE  can_view_post(Str(u), u, post)
<1> DEFINE relations == RelationsOf(u)
<1>1. \/ post.user \in relations.friends /\ post.visibility \in {"friends", "public"}
      \/ post.user \in relations.following /\ post.visibility \in {"followers", "public"}
      \/ post.visibility = "public"
  BY DEF _visible_post_filter
<1>2. CASE post.user \in relations.friends /\ post.visibility = "friends"
  <2>1. \E r \in Between("friends", u, post.user) : r.status = "accepted"
    BY <1>2 DEF RelationsOf
  <2> QED BY <1>2, <2>1 DEF can_view_post
<1>3. CASE post.user \in relations.following /\ post.visibility = "followers"
  <2>1. FromTo("followers", u, post.user) # {}
    BY <1>3 DEF RelationsOf
  <2> QED BY <1>3, <2>1 DEF can_view_post
<1>4. CASE post.visibility = "public"
  BY <1>4 DEF can_view_post
<1> QED BY <1>1, <1>2, <1>3, <1>4

\* Every list of posts is filtered alike.
LEMMA FeedsAgree == FeedShowsWhatCanBeOpened
<1> SUFFICES ASSUME NEW u \in Users,
                    NEW post \in ((get_feed(u) \cup get_recommendations(u))
                        \cup UNION {get_posts_by_hashtag(u, tag) : tag \in UNION Contents})
                        \cup UNION {get_list_posts(u, l) :
                                       l \in {x \in store["user_lists"] : x.owner = u}},
                    post.user # u, FromTo("blocks", post.user, u) = {},
                    _load_relationships(u) = RelationsOf(u)
             PROVE  can_view_post(Str(u), u, post)
  BY DEF FeedShowsWhatCanBeOpened
<1>1. \A x \in get_feed(u) : x \in _visible_post_filter(u, RelationsOf(u))
  BY DEF get_feed, _apply_feed_controls_filter
<1>2. \A x \in get_recommendations(u) : x.visibility = "public"
  BY DEF get_recommendations, _apply_feed_controls_filter
<1>3. \A tag : \A x \in get_posts_by_hashtag(u, tag) : x \in get_feed(u)
  BY DEF get_posts_by_hashtag
<1>4. \A l : \A x \in get_list_posts(u, l) : x \in _visible_post_filter(u, RelationsOf(u))
  BY DEF get_list_posts
<1>5. post \in _visible_post_filter(u, RelationsOf(u)) \/ post.visibility = "public"
  BY <1>1, <1>2, <1>3, <1>4
<1>6. post.visibility = "public" => can_view_post(Str(u), u, post)
  BY DEF can_view_post
<1> QED BY <1>5, <1>6, VisibleIsOpen

\* What a feed, a search or a list shows a user, the user may open, but for
\* the gaps the property names: the queries and the check agree.
THEOREM FeedsShowWhatCanBeOpened == Spec => []FeedShowsWhatCanBeOpened
<1>1. FeedShowsWhatCanBeOpened
  BY FeedsAgree
<1> QED BY <1>1, PTL
-----------------------------------------------------------------------------
(* A row before and after a commit.                                         *)

Changes(t, batch, s) ==
    {w \in batch : w.on = t /\ w.row.id = s.id /\ w.op \in {"update", "patch"}}

\* What becomes of a row that the batch does not delete.
After(t, batch, s) ==
    IF Changes(t, batch, s) = {} THEN s
    ELSE Overlay((CHOOSE w \in Changes(t, batch, s) : TRUE).row, s)

Inserts(batch, t, r) ==
    \E w \in batch : /\ w.on = t /\ w.op = "insert"
                     /\ r = Overlay(w.row, [born |-> served])
                     /\ r.id = w.row.id /\ r.born = served
                     /\ \A c \in DOMAIN w.row : r[c] = w.row[c]

LEMMA CommitAfter ==
    ASSUME TypeInv, NEW batch, Commits(batch), NEW t \in Tables, NEW r \in store'[t]
    PROVE  \/ Inserts(batch, t, r)
           \/ \E s \in store[t] : s.id \notin Gone(t, batch) /\ r = After(t, batch, s)
<1>1. store'[t] \in {store[t], Written(t, batch)}
  BY StoredTables DEF Commits
<1>2. CASE \E w \in batch : w.on = t /\ w.op = "insert" /\ r = Overlay(w.row, [born |-> served])
  <2>1. PICK w \in batch : w.on = t /\ w.op = "insert" /\ r = Overlay(w.row, [born |-> served])
    BY <1>2
  <2>2. Sound(w, served)
    BY DEF Commits, TypeInv, Ok
  <2>3. "id" \in DOMAIN w.row /\ "born" \notin DOMAIN w.row
    BY <2>1, <2>2 DEF Sound
  <2> QED BY <2>1, <2>3 DEF Overlay, Inserts
<1>3. CASE r \in Written(t, batch)
  <2>1. \/ \E w \in batch : w.on = t /\ w.op = "insert" /\ r = Overlay(w.row, [born |-> served])
        \/ \E s \in store[t] : s.id \notin Gone(t, batch) /\ r = After(t, batch, s)
    BY <1>3 DEF Written, After, Changes
  <2> QED BY <1>2, <2>1
<1>4. CASE r \in store[t] /\ r \notin Written(t, batch)
  <2>1. r \in store[t] /\ \A w \in batch : w.on # t /\ w.op # "delete"
    BY <1>4 DEF Commits, Stored
  <2> QED BY <2>1 DEF Gone, After, Changes
<1> QED BY <1>1, <1>3, <1>4

\* A change keeps the number of the row and when it was born.
Altered(t, batch, s, r) ==
    \E w \in batch : /\ w.on = t /\ w.op \in {"update", "patch"} /\ w.row.id = s.id
                     /\ r = Overlay(w.row, s)
                     /\ \A c \in DOMAIN s \ DOMAIN w.row : r[c] = s[c]
                     /\ \A c \in DOMAIN w.row : r[c] = w.row[c]

LEMMA AfterIs ==
    ASSUME TypeInv, NEW batch, Commits(batch), NEW t, NEW s, {"id", "born"} \subseteq DOMAIN s
    PROVE  /\ After(t, batch, s).id = s.id /\ After(t, batch, s).born = s.born
           /\ \/ After(t, batch, s) = s /\ Changes(t, batch, s) = {}
              \/ Altered(t, batch, s, After(t, batch, s))
<1> DEFINE r == After(t, batch, s)
<1>1. CASE Changes(t, batch, s) = {}
  BY <1>1 DEF After
<1>2. CASE Changes(t, batch, s) # {}
  <2>1. PICK w \in Changes(t, batch, s) : r = Overlay(w.row, s)
    BY <1>2 DEF After
  <2>2. w \in batch /\ w.on = t /\ w.row.id = s.id /\ w.op \in {"update", "patch"}
    BY <2>1 DEF Changes
  <2>3. Sound(w, served)
    BY <2>2 DEF Commits, TypeInv, Ok
  <2>4. "id" \in DOMAIN w.row /\ "born" \notin DOMAIN w.row
    BY <2>2, <2>3 DEF Sound
  <2> HIDE DEF r
  <2>5. /\ r.id = w.row.id /\ r.born = s.born
        /\ \A c \in DOMAIN s \ DOMAIN w.row : r[c] = s[c]
        /\ \A c \in DOMAIN w.row : r[c] = w.row[c]
    BY <2>1, <2>4 DEF Overlay
  <2>6. Altered(t, batch, s, r)
    BY <2>1, <2>2, <2>5 DEF Altered
  <2> QED BY <2>2, <2>5, <2>6 DEF r
<1> QED BY <1>1, <1>2

-----------------------------------------------------------------------------
(* The numbers of accounts.                                                 *)

\* A number is stored as plain text.
Plain(phone) == phone = {} \/ \E n : phone = {<<n, 0>>}

\* A batch that sets a number writes no other account, and under the key
\* that makes the database refuse a number that is taken.
NumberOk(batch) ==
    \A w \in batch :
        /\ w.on = "users" /\ w.op = "insert" =>
              /\ "phone" \in DOMAIN w.row /\ Plain(w.row.phone)
              /\ w.key = {{"id"}} \cup PhoneKey(w.row.phone)
              /\ \A v \in batch : v.on = "users" => v = w
        /\ w.on = "users" /\ w.op \in {"update", "patch"} /\ "phone" \in DOMAIN w.row =>
              /\ w.op = "update" /\ Plain(w.row.phone)
              /\ w.key = PhoneKey(w.row.phone)
              /\ \A v \in batch : v.on = "users" => v = w

Distinct(a, b) == a = b \/ (a.id # b.id /\ (a.phone # {} => a.phone # b.phone))

NumbersInv ==
    /\ \A a \in store["users"] : Plain(a.phone)
    /\ \A a, b \in store["users"] : Distinct(a, b)
    /\ \A batch \in Open : NumberOk(batch)

LEMMA NumbersSpared ==
    ASSUME NEW a, NEW b, On(b, {"users"}) = On(a, {"users"}), NumberOk(a)
    PROVE  NumberOk(b)
<1>1. \A w : w.on = "users" => (w \in a <=> w \in b)
  BY DEF On
<1> QED BY <1>1 DEF NumberOk

LEMMA NumbersQuiet ==
    ASSUME NumbersInv, Quiet({"users"})
    PROVE  NumbersInv'
<1>1. store'["users"] = store["users"]
  BY DEF Quiet
<1>2. NumberOk({})
  BY DEF NumberOk
<1>3. ASSUME NEW b \in Open' PROVE NumberOk(b)
  <2>1. PICK a \in Open \cup {{}} : On(b, {"users"}) = On(a, {"users"})
    BY DEF Quiet
  <2> QED BY <1>2, <2>1, NumbersSpared DEF NumbersInv
<1> QED BY <1>1, <1>3 DEF NumbersInv

LEMMA NumbersAdd ==
    ASSUME NumbersInv, NEW a, Adds(a, {"users"}), NumberOk(a)
    PROVE  NumbersInv'
<1>1. \A b : On(b, {"users"}) = {} => NumberOk(b)
  BY DEF On, NumberOk
<1> QED BY <1>1 DEF NumbersInv, Adds

\* An account after a commit: a new one whose number and name were free, one
\* whose number is as it was, or one given a number that was free.
LEMMA NumbersCommit ==
    ASSUME TypeInv, NumbersInv, NEW batch, Commits(batch)
    PROVE  NumbersInv'
<1> DEFINE Free(w) == \A s \in store["users"] : s.id = w.row.id \/ w.row.phone = {}
                                                \/ s.phone # w.row.phone
           Made(r) == \E w \in batch : /\ w.on = "users" /\ w.op = "insert"
                                       /\ r.id = w.row.id /\ r.phone = w.row.phone
                                       /\ r = Overlay(w.row, [born |-> served])
           Set(r, s) == \E w \in batch : /\ w.on = "users" /\ w.op = "update"
                                         /\ "phone" \in DOMAIN w.row
                                         /\ r.id = w.row.id /\ s.id = w.row.id
                                         /\ r.phone = w.row.phone
           Was(r) == \E s \in store["users"] : /\ r = After("users", batch, s) /\ r.id = s.id
                                               /\ r.phone = s.phone \/ Set(r, s)
<1>0. /\ batch \in Open /\ Open' \subseteq Open /\ NumberOk(batch) /\ ~Fails(batch)
      /\ "users" \in Tables
  BY TablesAssumption DEF Commits, NumbersInv, ModerationTables
<1>1. \A s \in store["users"] : {"id", "born", "phone"} \subseteq DOMAIN s
  BY StoreTypes DEF User
<1>2. ASSUME NEW w \in batch, w.on = "users", w.op = "insert" \/ (w.op = "update" /\ "phone" \in DOMAIN w.row)
      PROVE  /\ Plain(w.row.phone) /\ Free(w)
             /\ w.op = "insert" => \A s \in store["users"] : s.id # w.row.id
             /\ \A v \in batch : v.on = "users" => v = w
  <2>1. Plain(w.row.phone) /\ \A v \in batch : v.on = "users" => v = w
    BY <1>0, <1>2 DEF NumberOk
  <2>2. w.row.phone # {} => {"phone"} \in w.key
    BY <1>0, <1>2 DEF NumberOk, PhoneKey
  <2>3. w.op = "insert" => {"id"} \in w.key
    BY <1>0, <1>2 DEF NumberOk
  <2>4. w.op = "insert" => \A cols \in w.key : \A r \in store["users"] : ~Agree(r, w.row, cols)
    BY <1>0, <1>2 DEF Fails
  <2>5. w.op = "update" => \A cols \in w.key : \A r \in store["users"] :
                               r.id = w.row.id \/ ~Agree(r, w.row, cols)
    BY <1>0, <1>2 DEF Fails
  <2>6. \A r : /\ ~Agree(r, w.row, {"phone"}) => r.phone # w.row.phone
               /\ ~Agree(r, w.row, {"id"}) => r.id # w.row.id
    BY DEF Agree
  <2> QED BY <1>2, <2>1, <2>2, <2>3, <2>4, <2>5, <2>6
<1>3. ASSUME NEW r \in store'["users"] PROVE Made(r) \/ Was(r)
  <2>1. CASE Inserts(batch, "users", r)
    <3>1. PICK w \in batch : /\ w.on = "users" /\ w.op = "insert"
                             /\ r = Overlay(w.row, [born |-> served])
                             /\ r.id = w.row.id
                             /\ \A c \in DOMAIN w.row : r[c] = w.row[c]
      BY <2>1 DEF Inserts
    <3>2. "phone" \in DOMAIN w.row
      BY <1>0, <3>1 DEF NumberOk
    <3> QED BY <3>1, <3>2
  <2>2. CASE \E s \in store["users"] : r = After("users", batch, s)
    <3>1. PICK s \in store["users"] : r = After("users", batch, s)
      BY <2>2
    <3>2. r.id = s.id /\ (r = s \/ Altered("users", batch, s, r))
      BY <1>1, <3>1, AfterIs
    <3>3. ASSUME Altered("users", batch, s, r) PROVE r.phone = s.phone \/ Set(r, s)
      <4>1. PICK w \in batch : /\ w.on = "users" /\ w.op \in {"update", "patch"}
                               /\ w.row.id = s.id
                               /\ \A c \in DOMAIN s \ DOMAIN w.row : r[c] = s[c]
                               /\ \A c \in DOMAIN w.row : r[c] = w.row[c]
        BY <3>3 DEF Altered
      <4>2. CASE "phone" \in DOMAIN w.row
        <5>1. w.op = "update" /\ r.phone = w.row.phone
          BY <1>0, <4>1, <4>2 DEF NumberOk
        <5> QED BY <3>2, <4>1, <4>2, <5>1
      <4>3. CASE "phone" \notin DOMAIN w.row
        BY <1>1, <4>1, <4>3
      <4> QED BY <4>2, <4>3
    <3> QED BY <3>1, <3>2, <3>3
  <2> QED BY <1>0, <2>1, <2>2, CommitAfter
<1>4. ASSUME NEW r \in store'["users"] PROVE Plain(r.phone)
  <2>1. CASE Made(r)
    BY <1>2, <2>1
  <2>2. ASSUME NEW s, Set(r, s) PROVE Plain(r.phone)
    BY <1>2, <2>2
  <2>3. CASE Was(r)
    BY <2>2, <2>3 DEF NumbersInv
  <2> QED BY <1>3, <2>1, <2>3
<1>5. ASSUME NEW r, NEW q, Made(r), Made(q) PROVE Distinct(r, q)
  BY <1>2, <1>5 DEF Distinct
<1>6. ASSUME NEW r, NEW q, Made(r), Was(q) PROVE Distinct(r, q) /\ Distinct(q, r)
  <2>1. PICK w \in batch : /\ w.on = "users" /\ w.op = "insert"
                           /\ r.id = w.row.id /\ r.phone = w.row.phone
    BY <1>6
  <2>2. PICK s \in store["users"] : q.id = s.id /\ (q.phone = s.phone \/ Set(q, s))
    BY <1>6
  <2>3. ~Set(q, s)
    BY <1>2, <2>1
  <2>4. s.id # r.id /\ (r.phone # {} => s.phone # r.phone)
    BY <1>2, <2>1
  <2> HIDE DEF Set
  <2> QED BY <2>2, <2>3, <2>4 DEF Distinct
<1>7. ASSUME NEW r, NEW q, Was(r), Was(q) PROVE Distinct(r, q)
  <2>1. PICK s \in store["users"] : /\ r = After("users", batch, s) /\ r.id = s.id
                                    /\ r.phone = s.phone \/ Set(r, s)
    BY <1>7
  <2>2. PICK x \in store["users"] : /\ q = After("users", batch, x) /\ q.id = x.id
                                    /\ q.phone = x.phone \/ Set(q, x)
    BY <1>7
  <2>3. CASE s = x
    BY <2>1, <2>2, <2>3 DEF Distinct
  <2>4. CASE s # x
    <3>1. s.id # x.id /\ (s.phone # {} => s.phone # x.phone)
      BY <2>4 DEF NumbersInv, Distinct
    <3>2. ASSUME NEW a, NEW b \in store["users"], Set(a, b), NEW c \in store["users"], c.id # b.id
          PROVE  a.phone # {} => c.phone # a.phone
      BY <1>2, <3>2
    <3>3. Set(r, s) => ~Set(q, x)
      BY <1>2, <3>1
    <3> HIDE DEF Set
    <3> QED BY <2>1, <2>2, <3>1, <3>2, <3>3 DEF Distinct
  <2> QED BY <2>3, <2>4
<1> HIDE DEF Made, Was, Set, Free
<1>8. \A r, q \in store'["users"] : Distinct(r, q)
  BY <1>3, <1>5, <1>6, <1>7
<1> QED BY <1>0, <1>4, <1>8 DEF NumbersInv

-----------------------------------------------------------------------------
(* What messages write of accounts.                                         *)

\* The accounts, and the decisions on their standing.
Ranked == {"users", "moderation_actions"}

\* The message lifts what has run out of the standing of its author.
LiftBatch(a) ==
    \/ On(a, {"users"}) = {}
    \/ \E u \in Users : On(a, {"users"}) \subseteq _refresh_user_moderation(u)

LEMMA AddsLiftOne ==
    ASSUME TypeInv, NEW p \in Workers, NEW a, NEW T,
           Begin(p, <<a>>) \/ BeginRefreshed(p, <<a>>), Opens(p, T), LiftBatch(a)
    PROVE  \E b : LiftBatch(b) /\ Adds(b, {"users"})
<1>1. Parts(<<a>>) = {a}
  BY DEF Parts
<1> QED BY <1>1, AddsAmong, AddsRefreshed

\* A message that is stored, in the transaction of its notification.
SentBatch(a) == \E u, w \in Users : \E findings :
    /\ Sendable(u, w, findings)
    /\ a = ({Insert("messages", NewMessage(u, w)), notify(w, "message", u)}
            \cup analyze_content(findings)) \cup _refresh_user_moderation(u)

\* A chat request leaves one, or nothing of the accounts.
ChatBatch(a) == SentBatch(a) \/ On(a, Ranked) = {}

LEMMA AddsChat ==
    ASSUME TypeInv, NEW p \in Workers, NEW batches, NEW T,
           Begin(p, batches) \/ BeginRefreshed(p, batches), Opens(p, T),
           NEW a, ChatBatch(a), \A b \in Parts(batches) : b = a \/ On(b, Ranked) = {}
    PROVE  \E b : ChatBatch(b) /\ Adds(b, Ranked)
BY AddsAmong, AddsRefreshed

LEMMA SentMoves ==
    ASSUME NEW u \in Users, NEW w \in Users, NEW findings, Sendable(u, w, findings)
    PROVE  \E a : /\ ChatBatch(a)
                  /\ Sent(u, w, findings) = << {deliver(u, w, "message")}, a >>
                  /\ On({deliver(u, w, "message")}, Ranked) = {}
<1> DEFINE a == ({Insert("messages", NewMessage(u, w)), notify(w, "message", u)}
                 \cup analyze_content(findings)) \cup _refresh_user_moderation(u)
<1>1. Sent(u, w, findings) = << {deliver(u, w, "message")}, a >>
  BY DEF Sent
<1>2. SentBatch(a)
  BY DEF SentBatch
<1>3. On({deliver(u, w, "message")}, Ranked) = {}
  BY DEF On, deliver, Insert, Ranked
<1> HIDE DEF a
<1> QED BY <1>1, <1>2, <1>3 DEF ChatBatch

LEMMA ChatLeads ==
    ASSUME TypeInv, NEW p \in Workers, ChatRoutes(p), Opens(p, ChatWrites)
    PROVE  \E a : ChatBatch(a) /\ Adds(a, Ranked)
<1> DEFINE Goal == \E a : ChatBatch(a) /\ Adds(a, Ranked)
<1>1. ASSUME NEW u \in Users, NEW w \in Users, NEW findings, send_message(p, u, w, findings)
                                                  \/ send_media_message(p, u, w, findings)
      PROVE  Goal
  <2>1. PICK a : /\ ChatBatch(a)
                 /\ Sent(u, w, findings) = << {deliver(u, w, "message")}, a >>
                 /\ On({deliver(u, w, "message")}, Ranked) = {}
    BY <1>1, SentMoves DEF send_message, send_media_message
  <2>2. Parts(<< {deliver(u, w, "message")}, a >>) = {{deliver(u, w, "message")}, a}
    BY DEF Parts
  <2>3. \/ Begin(p, << {deliver(u, w, "message")}, a >>)
        \/ BeginRefreshed(p, << {deliver(u, w, "message")}, a >>)
    BY <1>1, <2>1 DEF send_message, send_media_message
  <2> QED BY <2>1, <2>2, <2>3, AddsChat
<1>2. CASE create_message(p)
  BY <1>1, <1>2 DEF create_message
<1>3. CASE forward_message_endpoint(p)
  BY <1>1, <1>3 DEF forward_message_endpoint, forward_message
<1>4. CASE gateway_message(p)
  <2>1. PICK u \in Users, w \in Users, findings \in Contents :
            chat_websocket_message(p, u, w, findings)
    BY <1>4 DEF gateway_message
  <2> DEFINE S == {{deliver(u, x, kind)} : x \in Users, kind \in {"message", "chat"}}
             first == << {deliver(u, w, "message")}, {deliver(u, u, "chat")} >>
             rest == IF is_user_shadow_banned(u) THEN <<>> ELSE << {deliver(u, w, "chat")} >>
  <2>2. first \in Seq(S) /\ rest \in Seq(S)
    <3>1. /\ {deliver(u, w, "message")} \in S /\ {deliver(u, u, "chat")} \in S
          /\ {deliver(u, w, "chat")} \in S
      OBVIOUS
    <3> HIDE DEF S
    <3> QED BY <3>1
  <2>3. \A b \in S : On(b, Ranked) = {}
    BY DEF deliver, Insert, On, Ranked
  <2>4. BeginRefreshed(p, first \o rest)
    BY <2>1 DEF chat_websocket_message
  <2> HIDE DEF S, first, rest
  <2>5. \A b \in Parts(first \o rest) : b \in S
    <3>1. first \o rest \in Seq(S)
      BY <2>2
    <3> QED BY <3>1 DEF Parts
  <2>6. ChatBatch({})
    BY DEF ChatBatch, On
  <2> QED BY <2>3, <2>4, <2>5, <2>6, AddsChat
<1>5. CASE create_media_message(p)
  <2>1. PICK u \in Users, w \in Users, findings \in Contents :
            /\ Sendable(u, w, findings)
            /\ Begin(p, << Head(Sent(u, w, findings)),
                           {deliver(u, u, "chat"), deliver(u, w, "chat")} >>
                        \o Tail(Sent(u, w, findings)))
    BY <1>5 DEF create_media_message
  <2>2. PICK a : /\ ChatBatch(a)
                 /\ Sent(u, w, findings) = << {deliver(u, w, "message")}, a >>
                 /\ On({deliver(u, w, "message")}, Ranked) = {}
    BY <2>1, SentMoves
  <2> DEFINE x == {deliver(u, w, "message")}
             y == {deliver(u, u, "chat"), deliver(u, w, "chat")}
  <2>3. On(y, Ranked) = {}
    BY DEF deliver, Insert, On, Ranked
  <2>4. Head(<<x, a>>) = x /\ Tail(<<x, a>>) = <<a>>
    OBVIOUS
  <2>5. Begin(p, <<x, y>> \o <<a>>)
    BY <2>1, <2>2, <2>4
  <2> HIDE DEF x, y
  <2>6. \A b \in Parts(<<x, y>> \o <<a>>) : b \in {x, y, a}
    <3>1. <<x, y>> \o <<a>> \in Seq({x, y, a})
      OBVIOUS
    <3> QED BY <3>1 DEF Parts
  <2> QED BY <2>2, <2>3, <2>5, <2>6, AddsChat DEF x
<1>6. ASSUME NEW a, \A v \in a : v.on \in {"messages", "chat_settings"},
             Begin(p, <<a>>) \/ BeginRefreshed(p, <<a>>)
      PROVE  Goal
  <2>1. ChatBatch(a)
    BY <1>6 DEF ChatBatch, On, Ranked
  <2>2. Parts(<<a>>) = {a}
    BY DEF Parts
  <2> QED BY <1>6, <2>1, <2>2, AddsChat
<1>7. CASE delete_message_endpoint(p)
  <2>1. PICK i : Begin(p, << {Delete("messages", i)} >>)
    BY <1>7 DEF delete_message_endpoint, delete_message
  <2>2. \A v \in {Delete("messages", i)} : v.on = "messages"
    BY DEF Delete
  <2> QED BY <1>6, <2>1, <2>2
<1>8. ASSUME NEW m, NEW cols, "id" \notin DOMAIN cols, Change(p, m, cols) PROVE Goal
  <2>1. \A v \in Edit("messages", m, cols) : v.on = "messages"
    BY <1>8, EditWrites
  <2> QED BY <1>6, <1>8, <2>1 DEF Change
<1>9. CASE update_message_endpoint(p) \/ mark_message_seen_endpoint(p)
  <2>1. \E m : Change(p, m, [edited |-> TRUE]) \/ Change(p, m, [is_seen |-> TRUE])
    BY <1>9 DEF update_message_endpoint, mark_message_seen_endpoint, update_message,
                mark_message_as_seen
  <2> QED BY <1>8, <2>1
<1>10. CASE toggle_pin_message_endpoint(p)
  <2>1. PICK m : Change(p, m, [is_pinned |-> ~m.is_pinned])
    BY <1>10 DEF toggle_pin_message_endpoint, toggle_pin_message
  <2> DEFINE cols == [is_pinned |-> ~m.is_pinned]
  <2>2. DOMAIN cols = {"is_pinned"}
    OBVIOUS
  <2> HIDE DEF cols
  <2>3. Change(p, m, cols)
    BY <2>1 DEF cols
  <2> QED BY <1>8, <2>2, <2>3
<1>11. CASE toggle_message_reaction_endpoint(p)
  <2>1. PICK m, r : Change(p, m, [reactions |-> r])
    BY <1>11 DEF toggle_message_reaction_endpoint, toggle_message_reaction
  <2> QED BY <1>8, <2>1
<1>12. CASE patch_chat_settings(p)
  <2>1. \A row : \A v \in {InsertUnique("chat_settings", row, {"user", "peer"})} :
            v.on = "chat_settings"
    BY DEF InsertUnique
  <2>2. \A s, muted : \A v \in Edit("chat_settings", s, [is_muted |-> muted]) :
            v.on = "chat_settings"
    BY EditWrites
  <2>3. \E row, s, muted :
            \/ BeginRefreshed(p, << {InsertUnique("chat_settings", row, {"user", "peer"})} >>)
            \/ BeginRefreshed(p, << Edit("chat_settings", s, [is_muted |-> muted]) >>)
    BY <1>12 DEF patch_chat_settings, update_chat_settings
  <2> QED BY <1>6, <2>1, <2>2, <2>3
<1> QED BY <1>2, <1>3, <1>4, <1>5, <1>7, <1>9, <1>10, <1>11, <1>12 DEF ChatRoutes

LEMMA ChatLifts ==
    ASSUME TypeInv, NEW p \in Workers, ChatRoutes(p), Opens(p, ChatWrites)
    PROVE  \E a : LiftBatch(a) /\ Adds(a, {"users"})
<1>1. PICK a : ChatBatch(a) /\ Adds(a, Ranked)
  BY ChatLeads
<1>2. \A b : On(b, Ranked) = {} => On(b, {"users"}) = {}
  BY DEF On, Ranked
<1>3. LiftBatch(a)
  <2>1. CASE SentBatch(a)
    <3>1. PICK u \in Users, w \in Users : \E findings :
              a = ({Insert("messages", NewMessage(u, w)), notify(w, "message", u)}
                   \cup analyze_content(findings)) \cup _refresh_user_moderation(u)
      BY <2>1 DEF SentBatch
    <3>2. On(a, {"users"}) \subseteq _refresh_user_moderation(u)
      BY <3>1 DEF On, Insert, notify, analyze_content
    <3> QED BY <3>2 DEF LiftBatch
  <2> QED BY <1>1, <1>2, <2>1 DEF ChatBatch, LiftBatch
<1> QED BY <1>1, <1>2, <1>3 DEF Adds

\* The batch of a request of members and admins in a group.
GroupMessageBatch(a) == \E findings : \E u \in Users, g \in store["groups"] :
    a = ({Insert("group_messages", [id |-> Self, group |-> g.id, sender |-> u])}
         \cup analyze_content(findings)) \cup _refresh_user_moderation(u)

GroupEditBatch(a) == \E cols : \E g \in store["groups"] :
    DOMAIN cols \in {{"announcement_only"}, {"verification"}} /\ a = Edit("groups", g, cols)

RoleBatch(a) == \E m \in store["group_members"], role \in Role :
    a = Edit("group_members", m, [role |-> role])

WallBatch(a) == \A x \in a : x.on \in {"group_posts", "group_events"}

GroupBatch(a) ==
    GroupMessageBatch(a) \/ GroupEditBatch(a) \/ RoleBatch(a) \/ WallBatch(a)

LEMMA GroupLeads ==
    ASSUME NEW p, GroupRoutes(p)
    PROVE  \E a : GroupBatch(a) /\ Begin(p, <<a>>)
<1>1. CASE update_member_role(p)
  <2>1. PICK m \in store["group_members"], role \in Role :
            Begin(p, << Edit("group_members", m, [role |-> role]) >>)
    BY <1>1 DEF update_member_role, assign_group_member_role, _get_active_member, Membership
  <2>2. RoleBatch(Edit("group_members", m, [role |-> role]))
    BY DEF RoleBatch
  <2> QED BY <2>1, <2>2 DEF GroupBatch
<1>2. CASE create_group_message(p)
  <2>1. PICK u \in Users, g \in store["groups"], findings \in Contents :
            Begin(p, << ({Insert("group_messages", [id |-> Self, group |-> g.id, sender |-> u])}
                         \cup analyze_content(findings)) \cup _refresh_user_moderation(u) >>)
    BY <1>2 DEF create_group_message, send_group_message
  <2>2. GroupMessageBatch(({Insert("group_messages", [id |-> Self, group |-> g.id, sender |-> u])}
                           \cup analyze_content(findings)) \cup _refresh_user_moderation(u))
    BY DEF GroupMessageBatch
  <2> QED BY <2>1, <2>2 DEF GroupBatch
<1>3. ASSUME NEW g \in store["groups"], NEW cols, Begin(p, << Edit("groups", g, cols) >>),
             DOMAIN cols \in {{"announcement_only"}, {"verification"}}
      PROVE  \E a : GroupBatch(a) /\ Begin(p, <<a>>)
  <2>1. GroupEditBatch(Edit("groups", g, cols))
    BY <1>3 DEF GroupEditBatch
  <2> QED BY <1>3, <2>1 DEF GroupBatch
<1>4. CASE update_group_feature_settings(p)
  <2>1. \E g \in store["groups"], announcing \in BOOLEAN :
            Begin(p, << Edit("groups", g, [announcement_only |-> announcing]) >>)
    BY <1>4 DEF update_group_feature_settings, update_group_settings
  <2>2. \A announcing : DOMAIN [announcement_only |-> announcing] = {"announcement_only"}
    OBVIOUS
  <2> QED BY <1>3, <2>1, <2>2
<1>5. CASE request_verification(p) \/ verify_group(p)
  <2>1. \E answer : \E g \in store["groups"] :
            Begin(p, << Edit("groups", g, [verification |-> answer]) >>)
    BY <1>5 DEF request_verification, request_group_verification, verify_group,
                decide_group_verification
  <2>2. \A answer : DOMAIN [verification |-> answer] = {"verification"}
    OBVIOUS
  <2> QED BY <1>3, <2>1, <2>2
<1>6. CASE create_group_post_route(p) \/ delete_group_post_route(p) \/ schedule_group_event(p)
  <2>1. \E row, i : \/ Begin(p, << {Insert("group_posts", row)} >>)
                    \/ Begin(p, << {Insert("group_events", row)} >>)
                    \/ Begin(p, << {Delete("group_posts", i)} >>)
    BY <1>6 DEF create_group_post_route, create_group_post, delete_group_post_route,
                delete_group_post, schedule_group_event, create_group_event
  <2>2. \A row, i : /\ WallBatch({Insert("group_posts", row)})
                    /\ WallBatch({Insert("group_events", row)})
                    /\ WallBatch({Delete("group_posts", i)})
    BY DEF WallBatch, Insert, Delete
  <2> QED BY <2>1, <2>2 DEF GroupBatch
<1> QED BY <1>1, <1>2, <1>4, <1>5, <1>6 DEF GroupRoutes

LEMMA GroupLifts ==
    ASSUME TypeInv, NEW p \in Workers, GroupRoutes(p), Opens(p, GroupWrites)
    PROVE  \E a : LiftBatch(a) /\ Adds(a, {"users"})
<1>1. PICK a : GroupBatch(a) /\ Begin(p, <<a>>)
  BY GroupLeads
<1>2. LiftBatch(a)
  <2>1. CASE RoleBatch(a)
    <3>1. \A x \in a : x.on = "group_members"
      BY <2>1, EditWrites DEF RoleBatch
    <3> QED BY <3>1 DEF LiftBatch, On
  <2>2. CASE GroupEditBatch(a)
    <3>1. \A x \in a : x.on = "groups"
      BY <2>2, EditWrites DEF GroupEditBatch
    <3> QED BY <3>1 DEF LiftBatch, On
  <2>3. CASE GroupMessageBatch(a)
    BY <2>3 DEF GroupMessageBatch, LiftBatch, On, Insert, analyze_content
  <2>4. CASE WallBatch(a)
    BY <2>4 DEF WallBatch, LiftBatch, On
  <2> QED BY <1>1, <2>1, <2>2, <2>3, <2>4 DEF GroupBatch
<1> QED BY <1>1, <1>2, AddsLiftOne

\* What a lift and a sanction write of the account.
LEMMA LiftWrites ==
    ASSUME NEW u, NEW w \in _refresh_user_moderation(u)
    PROVE  /\ w.op = "update" /\ w.on = "users" /\ w.row.id = Account(u).id
           /\ DOMAIN w.row \subseteq {"id", "is_suspended", "suspended_until", "is_muted",
                                      "muted_until"}
<1> DEFINE a == Account(u)
           lift == IF a.is_suspended /\ a.suspended_until = "past"
                   THEN [is_suspended |-> FALSE, suspended_until |-> None] ELSE <<>>
           unmute == IF a.is_muted /\ a.muted_until = "past"
                     THEN [is_muted |-> FALSE, muted_until |-> None] ELSE <<>>
<1>1. /\ DOMAIN lift \subseteq {"is_suspended", "suspended_until"}
      /\ DOMAIN unmute \subseteq {"is_muted", "muted_until"}
  OBVIOUS
<1>2. w \in Edit("users", a, Overlay(lift, unmute))
  BY DEF _refresh_user_moderation
<1> HIDE DEF lift, unmute, a
<1> DEFINE cols == Overlay(lift, unmute)
<1>3. DOMAIN cols \subseteq {"is_suspended", "suspended_until", "is_muted", "muted_until"}
  BY <1>1 DEF Overlay
<1> HIDE DEF cols
<1>4. w \in Edit("users", a, cols)
  BY <1>2 DEF cols
<1> QED BY <1>3, <1>4, EditWrites DEF a

LEMMA SanctionWrites ==
    ASSUME NEW a, NEW action \in UserActions, NEW term, NEW w \in Edit("users", a, Sanction(action, term))
    PROVE  /\ w.op = "update" /\ w.on = "users" /\ w.row.id = a.id
           /\ DOMAIN w.row \subseteq {"id", "is_suspended", "suspended_until", "is_muted",
                                      "muted_until", "is_shadow_banned"}
<1>1. DOMAIN Sanction(action, term) \subseteq {"is_suspended", "suspended_until", "is_muted",
                                               "muted_until", "is_shadow_banned"}
  BY DEF Sanction, UserActions, Suspending
<1> QED BY <1>1, EditWrites

\* A batch that changes accounts in the way of moderation sets no number.
LEMMA NumbersOther ==
    ASSUME NEW a, \A x \in a : x.on = "users" =>
                      x.op = "delete" \/ (x.op # "insert" /\ "phone" \notin DOMAIN x.row)
    PROVE  NumberOk(a)
BY DEF NumberOk

LEMMA NumbersLift ==
    ASSUME NEW a, LiftBatch(a)
    PROVE  NumberOk(a)
<1>1. \A u : \A x \in _refresh_user_moderation(u) : x.op # "insert" /\ "phone" \notin DOMAIN x.row
  BY LiftWrites
<1>2. \A x \in a : x.on = "users" => x.op # "insert" /\ "phone" \notin DOMAIN x.row
  BY <1>1 DEF LiftBatch, On
<1> QED BY <1>2, NumbersOther

LEMMA NumbersModeration ==
    ASSUME TypeInv, NEW a, ModerationBatch(a)
    PROVE  NumberOk(a)
<1>1. CASE ReportBatch(a)
  BY <1>1, NumbersOther DEF ReportBatch, Insert
<1>2. CASE ResolveBatch(a)
  <2>1. \A x \in a : x.on = "reports"
    BY <1>2, EditWrites DEF ResolveBatch
  <2> QED BY <2>1, NumbersOther
<1>3. CASE OtherBatch(a)
  BY <1>3, NumbersOther DEF OtherBatch
<1>4. CASE DecisionBatch(a)
  <2>1. PICK m, term : \E r \in store["reports"] :
            \E action \in UserActions \cup {"warning", "content_removal"} :
              \A x \in a :
                    \/ x = Taken(m, r, action)
                    \/ ResolvesTo(x, r, "resolved")
                    \/ x = Delete(r.type, r.target)
                    \/ /\ action \in UserActions
                       /\ x \in Edit("users", Account(r.target), Sanction(action, term))
    BY <1>4, DecisionBatchWrites
  <2>2. PICK r, action :
              \A x \in a :
                    \/ x = Taken(m, r, action)
                    \/ ResolvesTo(x, r, "resolved")
                    \/ x = Delete(r.type, r.target)
                    \/ /\ action \in UserActions
                       /\ x \in Edit("users", Account(r.target), Sanction(action, term))
    BY <2>1
  <2>3. action \in UserActions =>
            \A x \in Edit("users", Account(r.target), Sanction(action, term)) :
                x.op # "insert" /\ "phone" \notin DOMAIN x.row
    BY SanctionWrites
  <2>4. Taken(m, r, action).on # "users" /\ Delete(r.type, r.target).op = "delete"
    BY DEF Taken, Insert, Delete
  <2>5. \A x \in a : x.on = "users" =>
            x.op = "delete" \/ (x.op # "insert" /\ "phone" \notin DOMAIN x.row)
    BY <2>2, <2>3, <2>4 DEF ResolvesTo
  <2> QED BY <2>5, NumbersOther
<1> QED BY <1>1, <1>2, <1>3, <1>4 DEF ModerationBatch

\* What registration and profiles write: decrypting leaves plain text alone,
\* so that a query of accounts writes nothing.
LEMMA NumbersLoaded ==
    ASSUME NumbersInv, NEW accounts \in SUBSET store["users"]
    PROVE  Loaded(accounts) = {}
<1>1. ASSUME NEW a \in accounts PROVE Edit("users", a, [phone |-> decrypt_value(a.phone)]) = {}
  <2>1. decrypt_value(a.phone) = a.phone
    <3>1. decrypt_value({}) = {} /\ \A n : decrypt_value({<<n, 0>>}) = {<<n, 0>>}
      BY DEF decrypt_value
    <3> QED BY <3>1 DEF NumbersInv, Plain
  <2> DEFINE cols == [phone |-> decrypt_value(a.phone)]
  <2>2. DOMAIN cols = {"phone"} /\ cols["phone"] = a["phone"]
    BY <2>1
  <2> HIDE DEF cols
  <2>3. {c \in DOMAIN cols : cols[c] # a[c]} = {}
    BY <2>2
  <2>4. Edit("users", a, cols) = {}
    BY <2>3 DEF Edit
  <2> QED BY <2>4 DEF cols
<1> QED BY <1>1 DEF Loaded, SetPhone

LEMMA NumbersPlain ==
    ASSUME NEW number \in Numbers
    PROVE  Plain(decrypt_value(encrypt_value(number)))
BY DEF Numbers, encrypt_value, decrypt_value, Plain

LEMMA NumbersSet ==
    ASSUME NEW a, NEW phone, Plain(phone)
    PROVE  NumberOk(SetPhone(a, phone))
<1> DEFINE cols == [phone |-> phone]
<1>1. DOMAIN cols = {"phone"} /\ cols["phone"] = phone
  OBVIOUS
<1> HIDE DEF cols
<1>2. \E w : Edit("users", a, cols) \subseteq {w}
  BY DEF Edit
<1> DEFINE with(w) == [w EXCEPT !.key = PhoneKey(phone)]
<1>3. \A w \in Edit("users", a, cols) :
          /\ with(w).op = "update" /\ with(w).key = PhoneKey(phone)
          /\ "phone" \in DOMAIN with(w).row => with(w).row.phone = phone
  <2> SUFFICES ASSUME NEW w \in Edit("users", a, cols)
               PROVE  /\ with(w).op = "update" /\ with(w).key = PhoneKey(phone)
                      /\ "phone" \in DOMAIN with(w).row => with(w).row.phone = phone
    OBVIOUS
  <2>1. /\ w.op = "update" /\ w.on = "users"
        /\ \A c \in DOMAIN w.row \ {"id"} : w.row[c] = cols[c]
    BY <1>1, EditWrites
  <2>2. w \in [op : {w.op}, on : {w.on}, row : {w.row}, key : {w.key}]
    BY DEF Edit, Update
  <2>3. with(w).op = w.op /\ with(w).row = w.row /\ with(w).key = PhoneKey(phone)
    BY <2>2
  <2> QED BY <1>1, <2>1, <2>3
<1>4. SetPhone(a, phone) = {with(w) : w \in Edit("users", a, cols)}
  BY DEF SetPhone, cols
<1> HIDE DEF cols, with
<1>5. \A v, x \in SetPhone(a, phone) : v = x
  BY <1>2, <1>4
<1>6. \A v \in SetPhone(a, phone) :
          /\ v.op = "update" /\ v.key = PhoneKey(phone)
          /\ "phone" \in DOMAIN v.row => v.row.phone = phone
  BY <1>3, <1>4
<1>7. \A v \in SetPhone(a, phone) : v.op # "insert" /\
          ("phone" \in DOMAIN v.row => Plain(v.row.phone) /\ v.key = PhoneKey(v.row.phone))
  BY <1>6
<1> QED BY <1>5, <1>6, <1>7 DEF NumberOk

LEMMA NumbersAccounts ==
    ASSUME TypeInv, NumbersInv, NEW p \in Workers, AccountRoutes(p), Opens(p, AccountWrites)
    PROVE  NumbersInv'
<1>1. ASSUME NEW a, NumberOk(a), Begin(p, <<a>>) \/ BeginRefreshed(p, <<a>>)
      PROVE  NumbersInv'
  <2>1. Parts(<<a>>) = {a}
    BY DEF Parts
  <2> QED BY <1>1, <2>1, AddsAmong, AddsRefreshed, NumbersAdd
<1>2. ASSUME NEW accounts \in SUBSET store["users"], Begin(p, <<Loaded(accounts)>>)
      PROVE  NumbersInv'
  <2>1. NumberOk(Loaded(accounts))
    BY NumbersLoaded DEF NumberOk
  <2> QED BY <1>1, <1>2, <2>1
<1>3. CASE register_user(p)
  <2>1. PICK u \in Users, number \in Numbers : create_user_if_not_exists(p, u, number)
    BY <1>3 DEF register_user
  <2> DEFINE mine == {a \in store["users"] : a.id = u}
             phone == decrypt_value(encrypt_value(number))
             key == {{"id"}} \cup PhoneKey(phone)
             new == [Insert("users", NewUser(u, phone)) EXCEPT !.key = key]
  <2>2. Begin(p, << Loaded(mine) >>) \/ Begin(p, << {new} >>)
    BY <2>1 DEF create_user_if_not_exists
  <2>3. mine \in SUBSET store["users"] /\ Plain(phone)
    BY NumbersPlain
  <2> HIDE DEF mine, phone, key
  <2>4. /\ new.op = "insert" /\ new.on = "users" /\ new.row.phone = phone
        /\ new.key = key /\ "phone" \in DOMAIN new.row
    BY DEF Insert, NewUser
  <2> HIDE DEF new
  <2>5. NumberOk({new})
    BY <2>3, <2>4 DEF NumberOk, key
  <2> QED BY <1>1, <1>2, <2>2, <2>3, <2>5
<1>4. CASE update_profile(p)
  BY <1>1, <1>4, NumbersSet, NumbersPlain DEF update_profile, update_user
<1>5. CASE read_users(p)
  <2>1. PICK a \in store["users"], others \in SUBSET store["users"] :
            Begin(p, << Loaded({a} \cup others) >>)
    BY <1>5 DEF read_users
  <2> QED BY <1>2, <2>1
<1> QED BY <1>3, <1>4, <1>5 DEF AccountRoutes

LEMMA NumbersRequest ==
    ASSUME TypeInv, NumbersInv, NEW p \in Workers, Request(p)
    PROVE  NumbersInv'
<1> DEFINE others == {RelationWrites, FeedReads, ChatExtraWrites, PostWrites, MarkWrites,
              MemberWrites, SessionWrites, TokenWrites, PollWrites, SocialWrites, UploadWrites,
              CatalogTables}
<1>1. \A T \in others : T \cap {"users"} = {}
  BY DEF RelationWrites, FeedReads, ChatExtraWrites, PostWrites, MarkWrites, MemberWrites,
         SessionWrites, TokenWrites, PollWrites, SocialWrites, UploadWrites,
         CatalogTables, EnterpriseTables, RegionalTables, PlatformTables
<1>2. \/ ModerationRoutes(p) /\ Opens(p, ModerationWrites)
      \/ resolve_report_route(p) /\ Opens(p, DecisionWrites)
      \/ ChatRoutes(p) /\ Opens(p, ChatWrites)
      \/ GroupRoutes(p) /\ Opens(p, GroupWrites)
      \/ AccountRoutes(p) /\ Opens(p, AccountWrites)
      \/ \E T \in others : Opens(p, T)
  BY Requests
<1> HIDE DEF others
<1>3. CASE \E T \in others : Opens(p, T)
  BY <1>1, <1>3, QuietBegins, NumbersQuiet
<1>4. CASE \/ ModerationRoutes(p) /\ Opens(p, ModerationWrites)
           \/ resolve_report_route(p) /\ Opens(p, DecisionWrites)
  <2>1. \E a : ModerationBatch(a) /\ Adds(a, {"users"})
    BY <1>4, ModerationLeads, DecisionLeads
  <2> QED BY <2>1, NumbersModeration, NumbersAdd
<1>5. CASE \/ ChatRoutes(p) /\ Opens(p, ChatWrites)
           \/ GroupRoutes(p) /\ Opens(p, GroupWrites)
  <2>1. \E a : LiftBatch(a) /\ Adds(a, {"users"})
    BY <1>5, ChatLifts, GroupLifts
  <2> QED BY <2>1, NumbersLift, NumbersAdd
<1> QED BY <1>2, <1>3, <1>4, <1>5, NumbersAccounts

\* The accounts when time passes: their standing alone changes.
LEMMA ClockAccounts ==
    ASSUME TypeInv, Clock
    PROVE  \E f : /\ store'["users"] = {f[a] : a \in store["users"]}
                  /\ \A a \in store["users"] :
                        /\ f[a].id = a.id /\ f[a].born = a.born /\ f[a].phone = a.phone
                        /\ DOMAIN f[a] = DOMAIN a /\ f[a].is_suspended = a.is_suspended
                        /\ a.suspended_until = None => f[a].suspended_until = None
<1>1. CASE TermsEnd
  <2> DEFINE over(t) == IF t = "later" THEN "past" ELSE t
             f == [a \in store["users"] |-> [a EXCEPT !.suspended_until = over(@),
                                                      !.muted_until = over(@)]]
  <2>1. store'["users"] = {f[a] : a \in store["users"]}
    <3>1. store = [t \in Tables |-> store[t]] /\ "users" \in Tables
      BY TablesAssumption DEF TypeInv, UnitInv, ModerationTables
    <3> QED BY <1>1, <3>1 DEF TermsEnd
  <2>2. \A a \in store["users"] : a \in User
    BY StoreTypes
  <2>3. \A a \in store["users"] :
            /\ f[a].id = a.id /\ f[a].born = a.born /\ f[a].phone = a.phone
            /\ DOMAIN f[a] = DOMAIN a /\ f[a].is_suspended = a.is_suspended
            /\ f[a].suspended_until = over(a.suspended_until)
    BY <2>2 DEF User
  <2>4. over(None) = None
    BY DEF None
  <2> HIDE DEF f, over
  <2> QED BY <2>1, <2>3, <2>4
<1>2. CASE ~TermsEnd
  <2> DEFINE f == [a \in store["users"] |-> a]
  <2>0. store = [t \in Tables |-> store[t]] /\ "users" \in Tables
    BY TablesAssumption DEF TypeInv, UnitInv, ModerationTables
  <2>1. store'["users"] = store["users"]
    BY <1>2, <2>0 DEF Clock, ExpireRelations, TokensExpire, PollsExpire
  <2>2. /\ store'["users"] = {f[a] : a \in store["users"]}
        /\ \A a \in store["users"] : f[a] = a
    BY <2>1
  <2> HIDE DEF f
  <2> QED BY <2>2
<1> QED BY <1>1, <1>2

LEMMA NumbersClock ==
    ASSUME TypeInv, NumbersInv, Clock
    PROVE  NumbersInv'
<1>1. PICK f : /\ store'["users"] = {f[a] : a \in store["users"]}
               /\ \A a \in store["users"] :
                     f[a].id = a.id /\ f[a].born = a.born /\ f[a].phone = a.phone
  BY ClockAccounts
<1>2. Open' = Open
  BY ClockSteps
<1> QED BY <1>1, <1>2 DEF NumbersInv, Distinct

LEMMA NumbersInit ==
    ASSUME Init
    PROVE  NumbersInv
<1>1. Open = {} /\ "users" \in Tables
  BY FirstOrNone, TablesAssumption DEF ModerationTables
<1>2. PICK u, w : store["users"] \in {{}, Rows(u, w)["users"]}
  BY <1>1, FirstOrNone
<1>3. \A a, b \in Rows(u, w)["users"] : a.phone = {} /\ (a.id = b.id => a = b)
  <2>1. ASSUME NEW S, NEW a \in Accounts(S), NEW b \in Accounts(S)
        PROVE  a.phone = {} /\ (a.id = b.id => a = b)
    <3> DEFINE is(x) == x \in S
               row(x) == [id |-> x, born |-> 0, is_suspended |-> is(x),
                          suspended_until |-> IF is(x) THEN "later" ELSE None,
                          is_muted |-> FALSE, muted_until |-> None,
                          is_shadow_banned |-> FALSE, phone |-> {}]
    <3>1. Accounts(S) = {row(x) : x \in Users}
      BY DEF Accounts
    <3>2. \A x : row(x).id = x /\ row(x).phone = {}
      <4> HIDE DEF is
      <4> QED OBVIOUS
    <3> HIDE DEF row
    <3> QED BY <2>1, <3>1, <3>2
  <2>2. Rows(u, w)["users"] \in {{}, Accounts({w}), Accounts({})}
    BY DEF Rows
  <2> QED BY <2>1, <2>2
<1>4. \A a, b \in store["users"] : a.phone = {} /\ (a.id = b.id => a = b)
  BY <1>2, <1>3
<1> QED BY <1>1, <1>4 DEF NumbersInv, Plain, Distinct

LEMMA NumbersNext ==
    ASSUME TypeInv, NumbersInv, [Next]_vars
    PROVE  NumbersInv'
<1>1. {"users"} \subseteq Tables /\ {"users"} \cap LaterWrites = {}
  BY TablesAssumption DEF ModerationTables, LaterWrites
<1> QED BY <1>1, QuietOrBusy, NumbersQuiet, NumbersRequest, NumbersCommit, NumbersClock

\* Whatever is committed in whichever order, numbers are stored as plain text
\* under their unique key.
THEOREM NumbersHold == Spec => []NumbersInv
<1>1. Init => NumbersInv
  BY NumbersInit
<1>2. TypeInv /\ NumbersInv /\ [Next]_vars => NumbersInv'
  BY NumbersNext
<1> QED BY <1>1, <1>2, TypesHold, PTL DEF Spec

\* A number belongs to one account, although every request encrypts it anew.
THEOREM NumbersBelongToOne == Spec => []NumbersUnique
<1>1. NumbersInv => NumbersUnique
  BY DEF NumbersInv, NumbersUnique, Plain, Distinct
<1> QED BY <1>1, NumbersHold, PTL

-----------------------------------------------------------------------------
(* What a worker has yet to write to some tables, when it does so at once.  *)

Held(p, D) == UNION {On(tx[p][i], D) : i \in DOMAIN tx[p]}

\* No two batches of the worker are about these tables.
Once(p, D) ==
    \A i, j \in DOMAIN tx[p] : On(tx[p][i], D) # {} /\ On(tx[p][j], D) # {} => i = j

OnceInv(D) == \A p \in Workers : Once(p, D)

\* A step keeps what the worker holds, or closes it.
Spent(p, D) == Held(p, D)' \in {Held(p, D), {}}

\* Nothing of the tables changes, and nothing new is about to.
Rests(D) ==
    /\ \A t \in D : store'[t] = store[t]
    /\ served' \in {served, Self}
    /\ \A p \in Workers : Spent(p, D)

\* A request of p leaves it with these writes, or with none.
Takes(p, a, D) ==
    /\ store' = store /\ served' = Self
    /\ Held(p, D) = {} /\ Held(p, D)' \in {On(a, D), {}}
    /\ \A q \in Workers \ {p} : Held(q, D)' = Held(q, D)

\* A worker commits what it holds, or a batch about other tables.
Gives(p, batch, D) ==
    /\ Commits(batch)
    /\ \/ On(batch, D) = {}
       \/ On(batch, D) = Held(p, D) /\ Held(p, D)' = {}
    /\ \A q \in Workers : Spent(q, D)

LEMMA HeldIs ==
    ASSUME NEW p, NEW D, Once(p, D), NEW i \in DOMAIN tx[p], On(tx[p][i], D) # {}
    PROVE  Held(p, D) = On(tx[p][i], D)
BY DEF Held, Once

LEMMA HeldOpen ==
    ASSUME NEW p \in Workers, NEW D, NEW w \in Held(p, D)
    PROVE  w.on \in D /\ \E b \in Open : w \in b /\ On(b, D) \subseteq Held(p, D)
BY DEF Held, On, Open, Batches

LEMMA HeldMoves ==
    ASSUME NEW p, NEW D, Once(p, D), NEW c \in Int, DOMAIN tx'[p] \subseteq Int,
           \A i \in DOMAIN tx'[p] :
               \/ On(tx'[p][i], D) = {}
               \/ i + c \in DOMAIN tx[p] /\ On(tx'[p][i], D) = On(tx[p][i + c], D)
    PROVE  Once(p, D)' /\ Spent(p, D)
<1>1. Once(p, D)'
  <2> SUFFICES ASSUME NEW i \in DOMAIN tx'[p], NEW j \in DOMAIN tx'[p],
                      On(tx'[p][i], D) # {}, On(tx'[p][j], D) # {}
               PROVE  i = j
    BY DEF Once
  <2>1. i + c = j + c
    BY DEF Once
  <2>2. i \in Int /\ j \in Int
    OBVIOUS
  <2> HIDE DEF Once
  <2> QED BY <2>1, <2>2
<1>2. CASE \A i \in DOMAIN tx'[p] : On(tx'[p][i], D) = {}
  <2>1. Held(p, D)' = {}
    BY <1>2 DEF Held
  <2> QED BY <1>1, <2>1 DEF Spent
<1>3. ASSUME NEW i \in DOMAIN tx'[p], On(tx'[p][i], D) # {}
      PROVE  Spent(p, D)
  <2>1. Held(p, D)' = On(tx'[p][i], D)
    <3>1. \A j \in DOMAIN tx'[p] : On(tx'[p][j], D) # {} => i = j
      BY <1>1, <1>3 DEF Once
    <3> QED BY <1>3, <3>1 DEF Held
  <2>2. i + c \in DOMAIN tx[p] /\ On(tx'[p][i], D) = On(tx[p][i + c], D)
    BY <1>3
  <2>3. Held(p, D) = On(tx[p][i + c], D)
    BY <1>3, <2>2, HeldIs
  <2> QED BY <2>1, <2>2, <2>3 DEF Spent
<1> QED BY <1>1, <1>2, <1>3

\* A worker that does not move holds what it held.
LEMMA HeldStays ==
    ASSUME NEW q, NEW D, tx'[q] = tx[q], Once(q, D)
    PROVE  Once(q, D)' /\ Held(q, D)' = Held(q, D)
BY DEF Once, Held

LEMMA HeldCommit ==
    ASSUME TypeInv, NEW D, OnceInv(D), NEW p \in Workers, Commit(p)
    PROVE  OnceInv(D)' /\ Gives(p, Head(tx[p]), D)
<1>1. /\ 1 \in DOMAIN tx[p] /\ Head(tx[p]) = tx[p][1] /\ tx[p][1] \in Open
      /\ \A i \in DOMAIN tx'[p] : i + 1 \in DOMAIN tx[p] /\ tx'[p][i] = tx[p][i + 1]
      /\ \A q \in Workers \ {p} : tx'[q] = tx[q]
      /\ Open' \subseteq Open /\ tx'[p] = Tail(tx[p])
  BY CommitCloses DEF TypeInv
<1>2. DOMAIN tx'[p] \subseteq Nat \ {0}
  <2>1. PICK S : tx[p] \in Seq(S)
    BY DEF TypeInv, UnitInv
  <2> QED BY <1>1, <2>1
<1>3. Once(p, D)' /\ Spent(p, D)
  <2>1. \A i \in DOMAIN tx'[p] :
            \/ On(tx'[p][i], D) = {}
            \/ i + 1 \in DOMAIN tx[p] /\ On(tx'[p][i], D) = On(tx[p][i + 1], D)
    BY <1>1
  <2>2. 1 \in Int /\ DOMAIN tx'[p] \subseteq Int /\ Once(p, D)
    BY <1>2 DEF OnceInv
  <2> QED BY <2>1, <2>2, HeldMoves
<1>4. \A q \in Workers \ {p} : Once(q, D)' /\ Spent(q, D)
  BY <1>1, HeldStays DEF OnceInv, Spent
<1>5. ASSUME On(tx[p][1], D) # {} PROVE On(tx[p][1], D) = Held(p, D) /\ Held(p, D)' = {}
  <2>1. \A i \in DOMAIN tx'[p] : On(tx'[p][i], D) = {}
    <3> SUFFICES ASSUME NEW i \in DOMAIN tx'[p], On(tx'[p][i], D) # {} PROVE FALSE
      OBVIOUS
    <3>1. i + 1 = 1
      BY <1>1, <1>5 DEF OnceInv, Once
    <3> QED BY <1>2, <3>1
  <2>2. Held(p, D)' = {}
    BY <2>1 DEF Held
  <2> QED BY <1>1, <1>5, <2>2, HeldIs DEF OnceInv
<1>6. Commits(Head(tx[p]))
  BY <1>1 DEF Commits, Commit
<1> QED BY <1>1, <1>3, <1>4, <1>5, <1>6 DEF OnceInv, Gives

LEMMA HeldResolve ==
    ASSUME TypeInv, NEW D, D \cap LaterWrites = {}, OnceInv(D),
           NEW p \in Workers, NEW batches, Resolves(p, batches)
    PROVE  OnceInv(D)' /\ Rests(D)
<1>1. /\ tx'[p] = batches \o Tail(tx[p])
      /\ \A q \in Workers \ {p} : tx'[q] = tx[q]
      /\ tx[p] # <<>> /\ store' = store /\ served' = served
  BY ResolveOpens DEF Resolves, Resolve, AllOk, TypeInv
<1>2. PICK S : tx[p] \in Seq(S)
  BY DEF TypeInv, UnitInv
<1>3. PICK R : batches \in Seq(R)
  BY DEF Resolves, AllOk
<1> DEFINE n == Len(batches)
<1>4. /\ n \in Nat /\ DOMAIN batches = 1..n /\ DOMAIN tx'[p] \subseteq Nat \ {0}
      /\ 1 \in DOMAIN tx[p] /\ Head(tx[p]) = tx[p][1]
      /\ \A i \in DOMAIN tx'[p] :
            \/ i \in DOMAIN batches /\ tx'[p][i] = batches[i]
            \/ i > n /\ i + (1 - n) \in DOMAIN tx[p] /\ tx'[p][i] = tx[p][i + (1 - n)]
  BY <1>1, <1>2, <1>3
<1> HIDE DEF n
<1>5. Once(p, D)' /\ Spent(p, D)
  <2>1. CASE \A i \in DOMAIN batches : On(batches[i], D) = {}
    <3>1. PICK c \in Int : c = 1 - n
      BY <1>4
    <3>2. \A i \in DOMAIN tx'[p] :
              \/ On(tx'[p][i], D) = {}
              \/ i + c \in DOMAIN tx[p] /\ On(tx'[p][i], D) = On(tx[p][i + c], D)
      BY <1>4, <2>1, <3>1
    <3>3. DOMAIN tx'[p] \subseteq Int /\ Once(p, D)
      BY <1>4 DEF OnceInv
    <3> QED BY <3>2, <3>3, HeldMoves
  <2>2. CASE \E i \in DOMAIN batches : On(batches[i], D) # {}
    <3>1. DOMAIN batches = {1} /\ On(batches[1], D) = On(tx[p][1], D)
      BY <1>4, <2>2 DEF Resolves
    <3>2. n = 1
      <4>1. 1..n = {1}
        BY <1>4, <3>1
      <4>2. n \in 1..n \/ n = 0
        BY <1>4
      <4> QED BY <1>4, <4>1, <4>2
    <3>3. \A i \in DOMAIN tx'[p] :
              \/ On(tx'[p][i], D) = {}
              \/ i + 0 \in DOMAIN tx[p] /\ On(tx'[p][i], D) = On(tx[p][i + 0], D)
      BY <1>4, <3>1, <3>2
    <3>4. 0 \in Int /\ DOMAIN tx'[p] \subseteq Int /\ Once(p, D)
      BY <1>4 DEF OnceInv
    <3> QED BY <3>3, <3>4, HeldMoves
  <2> QED BY <2>1, <2>2
<1>6. \A q \in Workers \ {p} : Once(q, D)' /\ Spent(q, D)
  BY <1>1, HeldStays DEF OnceInv, Spent
<1> QED BY <1>1, <1>5, <1>6 DEF OnceInv, Rests

LEMMA HeldAbandon ==
    ASSUME TypeInv, NEW D, OnceInv(D), NEW p \in Workers, Abandon(p)
    PROVE  OnceInv(D)' /\ Rests(D)
<1>1. tx'[p] = <<>> /\ \A q \in Workers \ {p} : tx'[q] = tx[q]
  BY AbandonCloses DEF TypeInv
<1>2. Once(p, D)' /\ Spent(p, D)
  BY <1>1 DEF Once, Held, Spent
<1>3. \A q \in Workers \ {p} : Once(q, D)' /\ Spent(q, D)
  BY <1>1, HeldStays DEF OnceInv, Spent
<1> QED BY <1>2, <1>3 DEF OnceInv, Rests, Abandon

\* A request of one batch.
LEMMA HeldBegin ==
    ASSUME TypeInv, NEW D, OnceInv(D), NEW p \in Workers, NEW a,
           Begin(p, <<a>>) \/ Begin(p, <<>>)
    PROVE  OnceInv(D)' /\ Takes(p, a, D)
<1>1. /\ tx[p] = <<>> /\ tx'[p] \in {<<a>>, <<>>}
      /\ \A q \in Workers \ {p} : tx'[q] = tx[q]
      /\ store' = store /\ served' = Self
  BY DEF Begin, TypeInv, UnitInv
<1>2. Held(p, D) = {}
  BY <1>1 DEF Held
<1>3. Once(p, D)' /\ Held(p, D)' \in {On(a, D), {}}
  BY <1>1 DEF Once, Held
<1>4. \A q \in Workers \ {p} : Once(q, D)' /\ Held(q, D)' = Held(q, D)
  BY <1>1, HeldStays DEF OnceInv
<1> QED BY <1>1, <1>2, <1>3, <1>4 DEF OnceInv, Takes

LEMMA HeldRefreshed ==
    ASSUME TypeInv, NEW D, OnceInv(D), NEW p \in Workers, NEW a, BeginRefreshed(p, <<a>>)
    PROVE  OnceInv(D)' /\ Takes(p, a, D)
BY HeldBegin DEF BeginRefreshed

\* A request about other tables.
LEMMA HeldElsewhere ==
    ASSUME TypeInv, NEW D, OnceInv(D), NEW p \in Workers, NEW T, Opens(p, T), T \cap D = {}
    PROVE  OnceInv(D)' /\ Rests(D)
<1>1. PICK batches : Begin(p, batches) /\ AllOk(batches, T, Self)
  BY DEF Opens
<1>2. /\ tx[p] = <<>> /\ tx'[p] = batches
      /\ \A q \in Workers \ {p} : tx'[q] = tx[q]
      /\ store' = store /\ served' = Self
  BY <1>1 DEF Begin, TypeInv, UnitInv
<1>3. \A i \in DOMAIN batches : On(batches[i], D) = {}
  BY <1>1 DEF AllOk, Ok, On
<1>4. Once(p, D)' /\ Spent(p, D)
  BY <1>2, <1>3 DEF Once, Held, Spent
<1>5. \A q \in Workers \ {p} : Once(q, D)' /\ Spent(q, D)
  BY <1>2, HeldStays DEF OnceInv, Spent
<1> QED BY <1>2, <1>4, <1>5 DEF OnceInv, Rests

\* The steps, by what they do to what the workers hold.
LEMMA HeldSteps ==
    ASSUME TypeInv, [Next]_vars, NEW D, D \subseteq Tables, D \cap LaterWrites = {}, OnceInv(D)
    PROVE  \/ OnceInv(D)' /\ Rests(D)
           \/ \E p \in Workers : Request(p)
           \/ \E batch : \E p \in Workers : OnceInv(D)' /\ Gives(p, batch, D)
           \/ /\ OnceInv(D)' /\ Clock /\ D \cap Timed # {}
              /\ \A p \in Workers : Held(p, D)' = Held(p, D)
<1>1. ASSUME tx' = tx PROVE OnceInv(D)' /\ \A p \in Workers : Held(p, D)' = Held(p, D)
  BY <1>1, HeldStays DEF OnceInv
<1>2. CASE UNCHANGED vars
  BY <1>1, <1>2 DEF vars, requestVars, Rests, Spent
<1>3. CASE Clock
  <2>1. tx' = tx /\ served' = served
    BY <1>3, ClockSteps
  <2>2. D \cap Timed = {} => \A t \in D : store'[t] = store[t]
    BY <1>3, ClockSteps DEF Timed
  <2> QED BY <1>1, <1>3, <2>1, <2>2 DEF Rests, Spent
<1>4. CASE Next
  <2>1. \A p \in Workers : Responded(p) \/ FeedSteps(p) => \E batches : Resolves(p, batches)
    BY RespondedResolves, LogEventResolves, ToggleAgainResolves DEF FeedSteps
  <2> QED BY <1>3, <1>4, <2>1, HeldResolve, HeldCommit, HeldAbandon DEF Next, Clock
<1> QED BY <1>2, <1>4

LEMMA OnceAtFirst ==
    ASSUME Init, NEW D
    PROVE  OnceInv(D) /\ \A p \in Workers : Held(p, D) = {}
BY DEF Init, OnceInv, Once, Held

-----------------------------------------------------------------------------
(* The rows of a table that no request gives the number of another.         *)

NewIn(w, t) == w.on = t /\ w.op = "insert"

Solo(t, D) ==
    /\ \A r, s \in store[t] : r.id = s.id => r = s
    /\ \A p \in Workers : \A w \in Held(p, D) : NewIn(w, t) =>
          /\ \A r \in store[t] : r.id # w.row.id
          /\ \A q \in Workers : \A v \in Held(q, D) :
                NewIn(v, t) /\ v.row.id = w.row.id => q = p /\ v = w

\* A number is that of a request that has begun.
LEMMA NewNumber ==
    ASSUME TypeInv, NEW p \in Workers, NEW D, NEW w \in Held(p, D), NEW t, t \notin Keyed,
           NewIn(w, t)
    PROVE  w.row.id \in Int /\ w.row.id <= served
<1>1. PICK b \in Open : w \in b
  BY HeldOpen
<1> QED BY <1>1 DEF TypeInv, Ok, Sound, NewIn

LEMMA SoloRests ==
    ASSUME NEW D, NEW t \in D, Solo(t, D), Rests(D)
    PROVE  Solo(t, D)'
<1>1. store'[t] = store[t] /\ \A p \in Workers : Held(p, D)' \in {Held(p, D), {}}
  BY DEF Rests, Spent
<1> QED BY <1>1 DEF Solo

LEMMA SoloTakes ==
    ASSUME TypeInv, NEW D, NEW t \in Tables \ Keyed, Solo(t, D),
           NEW p \in Workers, NEW a, Takes(p, a, D),
           \A w, v \in a : NewIn(w, t) => w.row.id = Self /\ (NewIn(v, t) => v = w)
    PROVE  Solo(t, D)'
<1>1. store' = store /\ \A w \in Held(p, D)' : w \in a
  BY DEF Takes, On
<1>2. ASSUME NEW q \in Workers \ {p}, NEW w \in Held(q, D)', NewIn(w, t)
      PROVE  w \in Held(q, D) /\ w.row.id # Self
  <2>1. w \in Held(q, D)
    BY DEF Takes
  <2> QED BY <1>2, <2>1, NewNumber, StoreTypes DEF Self
<1>3. \A r \in store[t] : r.id # Self
  BY RowNumbers, StoreTypes DEF Self
<1>4. ASSUME NEW q \in Workers, NEW w \in Held(q, D)', NewIn(w, t)
      PROVE  /\ \A r \in store[t] : r.id # w.row.id
             /\ \A x \in Workers : \A v \in Held(x, D)' :
                   NewIn(v, t) /\ v.row.id = w.row.id => x = q /\ v = w
  <2>1. CASE q = p
    BY <1>1, <1>2, <1>3, <1>4, <2>1
  <2>2. CASE q # p
    <3>1. w \in Held(q, D) /\ w.row.id # Self
      BY <1>2, <1>4, <2>2
    <3>2. \A r \in store[t] : r.id # w.row.id
      BY <1>4, <3>1 DEF Solo
    <3>3. ASSUME NEW x \in Workers, NEW v \in Held(x, D)', NewIn(v, t), v.row.id = w.row.id
          PROVE  x = q /\ v = w
      <4>1. x # p
        BY <1>1, <3>1, <3>3
      <4>2. v \in Held(x, D)
        BY <1>2, <3>3, <4>1
      <4> QED BY <1>4, <3>1, <3>3, <4>2 DEF Solo
    <3> QED BY <3>2, <3>3
  <2> QED BY <2>1, <2>2
<1>5. \A r, s \in store[t] : r.id = s.id => r = s
  BY DEF Solo
<1> QED BY <1>1, <1>4, <1>5 DEF Solo

\* A row after a commit is new, or one that kept its number.
LEMMA SoloGives ==
    ASSUME TypeInv, NEW D, NEW t \in D, t \in Tables \ Keyed, Solo(t, D),
           NEW p \in Workers, NEW batch, Gives(p, batch, D)
    PROVE  Solo(t, D)'
<1> DEFINE Made(r) == \E w \in Held(p, D) :
                          /\ NewIn(w, t) /\ r = Overlay(w.row, [born |-> served])
                          /\ r.id = w.row.id /\ Held(p, D)' = {}
           Was(r) == \E s \in store[t] : r = After(t, batch, s) /\ r.id = s.id
<1>1. ASSUME NEW r \in store'[t] PROVE Made(r) \/ Was(r)
  <2>1. Commits(batch)
    BY DEF Gives
  <2>2. CASE Inserts(batch, t, r)
    <3>1. PICK w \in batch : /\ w.on = t /\ w.op = "insert"
                             /\ r = Overlay(w.row, [born |-> served]) /\ r.id = w.row.id
      BY <2>2 DEF Inserts
    <3>2. w \in On(batch, D)
      BY <3>1 DEF On
    <3>3. w \in Held(p, D) /\ Held(p, D)' = {}
      BY <3>2 DEF Gives
    <3> QED BY <3>1, <3>3 DEF NewIn
  <2>3. ASSUME NEW s \in store[t], r = After(t, batch, s) PROVE Was(r)
    <3>1. {"id", "born"} \subseteq DOMAIN s
      BY DEF TypeInv, Numbered
    <3> QED BY <2>1, <2>3, <3>1, AfterIs
  <2> QED BY <2>1, <2>2, <2>3, CommitAfter
<1>2. ASSUME NEW r, NEW q, Made(r), Made(q), r.id = q.id PROVE r = q
  BY <1>2 DEF Solo
<1>3. ASSUME NEW r, NEW q, Made(r), Was(q) PROVE r.id # q.id
  BY <1>3 DEF Solo
<1>4. ASSUME NEW r, NEW q, Was(r), Was(q), r.id = q.id PROVE r = q
  BY <1>4 DEF Solo
<1>5. ASSUME NEW q \in Workers, NEW w \in Held(q, D)', NewIn(w, t)
      PROVE  w \in Held(q, D) /\ \A r \in store'[t] : r.id # w.row.id
  <2>1. w \in Held(q, D)
    BY DEF Gives, Spent
  <2>2. ASSUME NEW r, Made(r) PROVE r.id # w.row.id
    BY <1>5, <2>1, <2>2 DEF Solo
  <2>3. ASSUME NEW r, Was(r) PROVE r.id # w.row.id
    BY <1>5, <2>1, <2>3 DEF Solo
  <2> HIDE DEF Made, Was
  <2> QED BY <1>1, <2>1, <2>2, <2>3
<1> HIDE DEF Made, Was
<1>6. \A r, q \in store'[t] : r.id = q.id => r = q
  BY <1>1, <1>2, <1>3, <1>4
<1>7. \A q \in Workers : \A w \in Held(q, D)' : NewIn(w, t) =>
          \A x \in Workers : \A v \in Held(x, D)' :
              NewIn(v, t) /\ v.row.id = w.row.id => x = q /\ v = w
  BY <1>5 DEF Solo
<1> QED BY <1>5, <1>6, <1>7 DEF Solo

\* Time changes a row, not its number.
LEMMA SoloTime ==
    ASSUME NEW D, NEW t, Solo(t, D), \A p \in Workers : Held(p, D)' = Held(p, D),
           NEW r \in store[t], NEW x, x.id = r.id,
           store'[t] = (store[t] \ {r}) \cup {x}
    PROVE  Solo(t, D)'
<1>1. \A s, q \in store[t] : s.id = q.id => s = q
  BY DEF Solo
<1>2. \A s, q \in store'[t] : s.id = q.id => s = q
  BY <1>1
<1>3. \A q \in store'[t] : \E s \in store[t] : s.id = q.id
  OBVIOUS
<1> QED BY <1>2, <1>3 DEF Solo

-----------------------------------------------------------------------------
(* The decisions on a report.                                               *)

Decisions == {"reports", "moderation_actions"}

Changing(w, t) == w.on = t /\ w.op \in {"update", "patch"}

\* A decision about to be committed: its report is in the table, the same
\* commit closes it, and whoever has decided on it already did so after this
\* request had begun.
Deciding(p, w) ==
    /\ w.op = "insert" /\ "report" \in DOMAIN w.row
    /\ w.row.report \in Int /\ w.row.report <= served
    /\ \A q \in Workers : \A v \in Held(q, Decisions) :
          NewIn(v, "reports") => v.row.id # w.row.report
    /\ \E x \in Held(p, Decisions) : Changing(x, "reports") /\ x.row.id = w.row.report
    /\ \A v \in Held(p, Decisions) : v.on = "moderation_actions" => v = w
    /\ \A a \in store["moderation_actions"] : a.report = w.row.report => w.row.id <= a.born

\* A committed one: its report is closed for good.
Decided(a) ==
    /\ a.report \in Int /\ a.report <= served
    /\ \A r \in store["reports"] : r.id = a.report => r.status # "open"
    /\ \A q \in Workers : \A v \in Held(q, Decisions) :
          NewIn(v, "reports") => v.row.id # a.report

DecidedInv ==
    /\ OnceInv(Decisions) /\ Solo("reports", Decisions)
    /\ \A p \in Workers : \A w \in Held(p, Decisions) :
          /\ Changing(w, "reports") => "status" \in DOMAIN w.row /\ w.row.status # "open"
          /\ w.on = "moderation_actions" => Deciding(p, w)
    /\ \A a \in store["moderation_actions"] : Decided(a)
    /\ DecidedOnce

LEMMA DecidedRests ==
    ASSUME DecidedInv, Rests(Decisions), OnceInv(Decisions)', served \in Nat
    PROVE  DecidedInv'
<1>1. /\ store'["reports"] = store["reports"]
      /\ store'["moderation_actions"] = store["moderation_actions"]
      /\ served <= served' /\ served' \in Nat
      /\ \A p \in Workers : Held(p, Decisions)' \in {Held(p, Decisions), {}}
  BY DEF Rests, Spent, Decisions, Self
<1>2. Solo("reports", Decisions)'
  BY SoloRests DEF DecidedInv, Decisions
<1>3. ASSUME NEW p \in Workers, NEW w \in Held(p, Decisions)'
      PROVE  /\ Changing(w, "reports") => "status" \in DOMAIN w.row /\ w.row.status # "open"
             /\ w.on = "moderation_actions" => Deciding(p, w)'
  <2>1. w \in Held(p, Decisions) /\ Held(p, Decisions)' = Held(p, Decisions)
    BY <1>1
  <2>2. ASSUME w.on = "moderation_actions" PROVE Deciding(p, w)'
    <3>1. Deciding(p, w)
      BY <2>1, <2>2 DEF DecidedInv
    <3> QED BY <1>1, <2>1, <3>1 DEF Deciding
  <2> QED BY <2>1, <2>2 DEF DecidedInv
<1>4. ASSUME NEW a \in store'["moderation_actions"] PROVE Decided(a)'
  <2>1. Decided(a)
    BY <1>1, <1>4 DEF DecidedInv
  <2> QED BY <1>1, <2>1 DEF Decided
<1>5. DecidedOnce'
  BY <1>1 DEF DecidedInv, DecidedOnce, Overlapped
<1> QED BY <1>2, <1>3, <1>4, <1>5 DEF DecidedInv

\* What a request of moderation leaves to its commit.
DecidedBatch(a) ==
    /\ \A w, v \in a : NewIn(w, "reports") =>
          w.row.id = Self /\ (NewIn(v, "reports") => v = w)
    /\ \A w \in a : Changing(w, "reports") => "status" \in DOMAIN w.row /\ w.row.status # "open"
    /\ \A w \in a : w.on = "moderation_actions" =>
          /\ w.op = "insert" /\ "report" \in DOMAIN w.row /\ w.row.id = Self
          /\ \A v \in a : ~NewIn(v, "reports") /\ (v.on = "moderation_actions" => v = w)
          /\ \E r \in store["reports"] :
                /\ r.id = w.row.report /\ r.status = "open"
                /\ \E x \in a : Changing(x, "reports") /\ x.row.id = r.id

LEMMA DecidedBatches ==
    ASSUME TypeInv, NEW a, ModerationBatch(a)
    PROVE  DecidedBatch(a)
<1>1. CASE ReportBatch(a)
  BY <1>1 DEF ReportBatch, DecidedBatch, NewIn, Changing, Insert
<1>2. CASE DecisionBatch(a)
  <2>1. PICK m, term : \E r \in store["reports"] :
           \E action \in UserActions \cup {"warning", "content_removal"} :
              /\ r.status = "open" /\ r.type \in ReportTypes
              /\ Taken(m, r, action) \in a
              /\ \E x \in a : ResolvesTo(x, r, "resolved")
              /\ \A x \in a :
                    \/ x = Taken(m, r, action)
                    \/ ResolvesTo(x, r, "resolved")
                    \/ x = Delete(r.type, r.target) /\ action = "content_removal"
                    \/ /\ action \in UserActions
                       /\ x \in Edit("users", Account(r.target), Sanction(action, term))
    BY <1>2, DecisionBatchWrites
  <2>2. PICK r \in store["reports"], action \in UserActions \cup {"warning", "content_removal"} :
              /\ r.status = "open"
              /\ \E x \in a : ResolvesTo(x, r, "resolved")
              /\ \A x \in a :
                    \/ x = Taken(m, r, action)
                    \/ ResolvesTo(x, r, "resolved")
                    \/ x = Delete(r.type, r.target)
                    \/ x \in Edit("users", Account(r.target), Sanction(action, term))
    BY <2>1
  <2>3. \A x \in a : \/ x = Taken(m, r, action)
                     \/ ResolvesTo(x, r, "resolved")
                     \/ x.op = "delete" /\ x.on \in ReportTypes
                     \/ x.op = "update" /\ x.on = "users"
    <3>1. r.type \in ReportTypes
      BY StoreTypes DEF Report
    <3>2. \A x \in Edit("users", Account(r.target), Sanction(action, term)) :
              x.op = "update" /\ x.on = "users"
      BY DEF Edit, Update
    <3>3. Delete(r.type, r.target).op = "delete" /\ Delete(r.type, r.target).on = r.type
      BY DEF Delete
    <3> QED BY <2>2, <3>1, <3>2, <3>3
  <2>4. /\ Taken(m, r, action).op = "insert" /\ Taken(m, r, action).on = "moderation_actions"
        /\ "report" \in DOMAIN Taken(m, r, action).row
        /\ Taken(m, r, action).row.report = r.id /\ Taken(m, r, action).row.id = Self
    BY DEF Taken, Insert
  <2>5. \A x : ResolvesTo(x, r, "resolved") =>
            /\ x.on = "reports" /\ x.op = "update" /\ x.row.id = r.id
            /\ "status" \in DOMAIN x.row /\ x.row.status # "open"
    BY DEF ResolvesTo
  <2>6. "moderation_actions" \notin ReportTypes
    BY DEF ReportTypes
  <2>7. \A w \in a : NewIn(w, "reports") => FALSE
    BY <2>3, <2>4, <2>5 DEF NewIn
  <2>8. \A w \in a : Changing(w, "reports") => ResolvesTo(w, r, "resolved")
    BY <2>3, <2>4 DEF Changing
  <2>9. \A w \in a : w.on = "moderation_actions" => w = Taken(m, r, action)
    BY <2>3, <2>5, <2>6
  <2>10. \E x \in a : Changing(x, "reports") /\ x.row.id = r.id
    BY <2>2, <2>5 DEF Changing
  <2> QED BY <2>2, <2>4, <2>5, <2>7, <2>8, <2>9, <2>10 DEF DecidedBatch
<1>3. CASE ResolveBatch(a)
  <2>1. PICK r \in store["reports"], status \in {"resolved", "resolved_ai", "flagged_ai", "escalated"} :
            a = Edit("reports", r, [status |-> status])
    BY <1>3 DEF ResolveBatch
  <2>2. \A x \in a : ResolvesTo(x, r, status)
    BY <2>1, StatusEdits
  <2> QED BY <2>2 DEF ResolvesTo, DecidedBatch, NewIn, Changing
<1>4. CASE OtherBatch(a)
  BY <1>4 DEF OtherBatch, DecidedBatch, NewIn, Changing
<1> QED BY <1>1, <1>2, <1>3, <1>4 DEF ModerationBatch

LEMMA DecidedTakes ==
    ASSUME TypeInv, DecidedInv, NEW p \in Workers, NEW a, DecidedBatch(a),
           Takes(p, a, Decisions), OnceInv(Decisions)'
    PROVE  DecidedInv'
<1>1. /\ store' = store /\ served' = served + 1 /\ served \in Nat
      /\ \A w \in Held(p, Decisions)' : w \in a /\ Held(p, Decisions)' = On(a, Decisions)
      /\ \A q \in Workers \ {p} : Held(q, Decisions)' = Held(q, Decisions)
      /\ Self = served + 1
  BY StoreTypes DEF Takes, On, Self
<1>2. "reports" \in Tables \ Keyed /\ "reports" \in Decisions
  BY TablesAssumption DEF ModerationTables, Keyed, Decisions
<1>3. Solo("reports", Decisions)'
  BY <1>2, SoloTakes DEF DecidedInv, DecidedBatch
\* A report about to be made is one that nothing else knows of.
<1>4. ASSUME NEW q \in Workers, NEW v \in Held(q, Decisions)', NewIn(v, "reports")
      PROVE  /\ \A r \in store["reports"] : v.row.id # r.id
             /\ (q = p /\ v \in a /\ v.row.id = Self) \/ v \in Held(q, Decisions)
  <2>1. CASE q = p
    <3>1. v \in a /\ v.row.id = Self
      BY <1>1, <1>4, <2>1 DEF DecidedBatch
    <3> QED BY <1>1, <1>2, <2>1, <3>1, RowNumbers
  <2>2. CASE q # p
    BY <1>1, <1>4, <2>2 DEF DecidedInv, Solo
  <2> QED BY <2>1, <2>2
<1>5. ASSUME NEW w \in Held(p, Decisions)', w.on = "moderation_actions"
      PROVE  Deciding(p, w)'
  <2>1. w \in a /\ Held(p, Decisions)' = On(a, Decisions)
    BY <1>1
  <2>2. /\ w.op = "insert" /\ "report" \in DOMAIN w.row
        /\ \A v \in a : ~NewIn(v, "reports") /\ (v.on = "moderation_actions" => v = w)
    BY <1>5, <2>1 DEF DecidedBatch
  <2>3. PICK r \in store["reports"], x \in a :
            /\ r.id = w.row.report /\ r.status = "open"
            /\ Changing(x, "reports") /\ x.row.id = r.id
    BY <1>5, <2>1 DEF DecidedBatch
  <2>4. w.row.report \in Int /\ w.row.report <= served'
    BY <1>1, <1>2, <2>3, RowNumbers
  <2>5. x \in Held(p, Decisions)'
    BY <2>1, <2>3 DEF On, Changing, Decisions
  <2>6. \A q \in Workers : \A v \in Held(q, Decisions)' :
            NewIn(v, "reports") => v.row.id # w.row.report
    BY <1>4, <2>3
  <2>7. \A b \in store["moderation_actions"] : b.report # w.row.report
    BY <2>3 DEF DecidedInv, Decided
  <2>8. \A v \in Held(p, Decisions)' : v.on = "moderation_actions" => v = w
    BY <1>1, <2>2
  <2> QED BY <1>1, <2>2, <2>3, <2>4, <2>5, <2>6, <2>7, <2>8 DEF Deciding
<1>6. ASSUME NEW q \in Workers \ {p}, NEW w \in Held(q, Decisions), w.on = "moderation_actions"
      PROVE  Deciding(q, w)'
  <2>1. Deciding(q, w) /\ Held(q, Decisions)' = Held(q, Decisions)
    BY <1>1, <1>6 DEF DecidedInv
  <2>2. \A x \in Workers : \A v \in Held(x, Decisions)' :
            NewIn(v, "reports") => v.row.id # w.row.report
    BY <1>1, <1>4, <2>1 DEF Deciding
  <2>3. w.row.report \in Int /\ w.row.report <= served'
    BY <1>1, <2>1 DEF Deciding
  <2> QED BY <1>1, <2>1, <2>2, <2>3 DEF Deciding
<1>7. ASSUME NEW q \in Workers, NEW w \in Held(q, Decisions)'
      PROVE  /\ Changing(w, "reports") => "status" \in DOMAIN w.row /\ w.row.status # "open"
             /\ w.on = "moderation_actions" => Deciding(q, w)'
  <2>1. CASE q = p
    BY <1>1, <1>5, <1>7, <2>1 DEF DecidedBatch
  <2>2. CASE q # p
    BY <1>1, <1>6, <1>7, <2>2 DEF DecidedInv
  <2> QED BY <2>1, <2>2
<1>8. ASSUME NEW b \in store'["moderation_actions"] PROVE Decided(b)'
  <2>1. Decided(b)
    BY <1>1, <1>8 DEF DecidedInv
  <2>2. \A x \in Workers : \A v \in Held(x, Decisions)' :
            NewIn(v, "reports") => v.row.id # b.report
    BY <1>1, <1>4, <2>1 DEF Decided
  <2>3. b.report \in Int /\ b.report <= served'
    BY <1>1, <2>1 DEF Decided
  <2> QED BY <1>1, <2>1, <2>2, <2>3 DEF Decided
<1>9. DecidedOnce'
  BY <1>1 DEF DecidedInv, DecidedOnce, Overlapped
<1> QED BY <1>3, <1>7, <1>8, <1>9 DEF DecidedInv

\* A report after a commit: new, or not reopened.
LEMMA ReportsAfter ==
    ASSUME TypeInv, DecidedInv, NEW p \in Workers, NEW batch, Gives(p, batch, Decisions),
           NEW r \in store'["reports"]
    PROVE  \/ \E w \in Held(p, Decisions) : NewIn(w, "reports") /\ r.id = w.row.id
           \/ \E s \in store["reports"] :
                 /\ s.id = r.id
                 /\ \/ /\ r.status = s.status
                       /\ \A w \in batch : ~(Changing(w, "reports") /\ w.row.id = r.id)
                    \/ r.status # "open"
<1>1. "reports" \in Tables \ Keyed /\ Commits(batch)
  BY TablesAssumption DEF ModerationTables, Keyed, Gives
<1>2. \A w \in batch : w.on = "reports" => w \in Held(p, Decisions)
  BY DEF Gives, On, Decisions
<1>3. CASE Inserts(batch, "reports", r)
  BY <1>2, <1>3 DEF Inserts, NewIn
<1>4. CASE \E s \in store["reports"] : r = After("reports", batch, s)
  <2>1. PICK s \in store["reports"] : r = After("reports", batch, s)
    BY <1>4
  <2>2. {"id", "born", "status"} \subseteq DOMAIN s
    BY StoreTypes DEF Report
  <2>3. r.id = s.id /\ \/ r = s /\ Changes("reports", batch, s) = {}
                       \/ Altered("reports", batch, s, r)
    BY <1>1, <2>1, <2>2, AfterIs
  <2>4. CASE r = s /\ Changes("reports", batch, s) = {}
    BY <2>3, <2>4 DEF Changes, Changing
  <2>5. CASE Altered("reports", batch, s, r)
    <3>1. PICK w \in batch : /\ w.on = "reports" /\ w.op \in {"update", "patch"}
                             /\ \A c \in DOMAIN w.row : r[c] = w.row[c]
      BY <2>5 DEF Altered
    <3>2. "status" \in DOMAIN w.row /\ w.row.status # "open"
      BY <1>2, <3>1 DEF DecidedInv, Changing
    <3> QED BY <2>3, <3>1, <3>2
  <2> QED BY <2>3, <2>4, <2>5
<1> QED BY <1>1, <1>3, <1>4, CommitAfter

LEMMA DecidedGives ==
    ASSUME TypeInv, DecidedInv, NEW p \in Workers, NEW batch, Gives(p, batch, Decisions),
           OnceInv(Decisions)'
    PROVE  DecidedInv'
<1>1. /\ {"reports", "moderation_actions"} \subseteq Tables \ Keyed
      /\ served' = served /\ served \in Nat /\ Commits(batch)
      /\ \A q \in Workers : Held(q, Decisions)' \in {Held(q, Decisions), {}}
      /\ \A w \in batch : w.on \in Decisions => w \in Held(p, Decisions) /\ Held(p, Decisions)' = {}
  BY TablesAssumption, StoreTypes
     DEF ModerationTables, Keyed, Gives, Spent, Commits, On
<1>2. Solo("reports", Decisions)'
  BY <1>1, SoloGives DEF DecidedInv, Decisions
\* An action after a commit is new or one that was there.
<1>3. ASSUME NEW a \in store'["moderation_actions"]
      PROVE  \/ a \in store["moderation_actions"]
             \/ \E w \in Held(p, Decisions) :
                   /\ w.on = "moderation_actions" /\ Deciding(p, w) /\ w \in batch
                   /\ a = Overlay(w.row, [born |-> served])
                   /\ a.id = w.row.id /\ a.born = served /\ a.report = w.row.report
  <2>1. CASE Inserts(batch, "moderation_actions", a)
    <3>1. PICK w \in batch : /\ w.on = "moderation_actions"
                             /\ a = Overlay(w.row, [born |-> served])
                             /\ a.id = w.row.id /\ a.born = served
                             /\ \A c \in DOMAIN w.row : a[c] = w.row[c]
      BY <2>1 DEF Inserts
    <3>2. w \in Held(p, Decisions)
      BY <1>1, <3>1 DEF Decisions
    <3>3. Deciding(p, w)
      BY <3>1, <3>2 DEF DecidedInv
    <3>4. a.report = w.row.report
      BY <3>1, <3>3 DEF Deciding
    <3> QED BY <3>1, <3>2, <3>3, <3>4
  <2>2. CASE \E s \in store["moderation_actions"] : a = After("moderation_actions", batch, s)
    <3>1. \A s : Changes("moderation_actions", batch, s) = {}
      BY <1>1 DEF DecidedInv, Deciding, Changes, Decisions
    <3> QED BY <2>2, <3>1 DEF After
  <2> QED BY <1>1, <2>1, <2>2, CommitAfter
<1>4. ASSUME NEW a \in store'["moderation_actions"] PROVE Decided(a)'
  <2>1. CASE a \in store["moderation_actions"]
    <3>1. Decided(a)
      BY <2>1 DEF DecidedInv
    <3>2. \A r \in store'["reports"] : r.id = a.report => r.status # "open"
      BY <3>1, ReportsAfter DEF Decided
    <3> QED BY <1>1, <3>1, <3>2 DEF Decided
  <2>2. CASE \E w \in Held(p, Decisions) :
                 w.on = "moderation_actions" /\ Deciding(p, w) /\ w \in batch /\ a.report = w.row.report
    <3>1. PICK w \in Held(p, Decisions) :
              w.on = "moderation_actions" /\ Deciding(p, w) /\ w \in batch /\ a.report = w.row.report
      BY <2>2
    <3>2. Held(p, Decisions) = On(batch, Decisions)
      BY <3>1 DEF Gives, On, Decisions
    <3>3. PICK x \in Held(p, Decisions) : Changing(x, "reports") /\ x.row.id = a.report
      BY <3>1 DEF Deciding
    <3>4. x \in batch
      BY <3>2 DEF On
    <3>5. \A r \in store'["reports"] : r.id = a.report => r.status # "open"
      BY <3>1, <3>3, <3>4, ReportsAfter DEF Deciding
    <3> QED BY <1>1, <3>1, <3>5 DEF Decided, Deciding
  <2> QED BY <1>3, <2>1, <2>2
<1>5. ASSUME NEW q \in Workers, NEW w \in Held(q, Decisions)', w.on = "moderation_actions"
      PROVE  Deciding(q, w)'
  <2>1. w \in Held(q, Decisions) /\ Held(q, Decisions)' = Held(q, Decisions)
    BY <1>1
  <2>2. Deciding(q, w)
    BY <1>5, <2>1 DEF DecidedInv
  <2>3. w.row.id <= served
    BY <1>1, <1>5, <2>1, <2>2, NewNumber DEF NewIn, Deciding
  <2>4. \A a \in store'["moderation_actions"] : a.report = w.row.report => w.row.id <= a.born
    BY <1>3, <2>2, <2>3 DEF Deciding
  <2> QED BY <1>1, <2>1, <2>2, <2>4 DEF Deciding
<1>6. \A q \in Workers : \A w \in Held(q, Decisions)' :
          Changing(w, "reports") => "status" \in DOMAIN w.row /\ w.row.status # "open"
  BY <1>1 DEF DecidedInv
<1>7. DecidedOnce'
  <2>1. \A a \in store["moderation_actions"] : a.id \in Int /\ a.id <= served
    BY <1>1, RowNumbers
  <2>2. ASSUME NEW a \in store["moderation_actions"], NEW w, Deciding(p, w), a.report = w.row.report
        PROVE  w.row.id <= a.born
    BY <2>2 DEF Deciding
  <2>3. ASSUME NEW w \in Held(p, Decisions), NEW v \in Held(p, Decisions), Deciding(p, w),
               v.on = "moderation_actions"
        PROVE  v = w
    BY <2>3 DEF Deciding
  <2> HIDE DEF Deciding
  <2>4. ASSUME NEW a \in store'["moderation_actions"], NEW b \in store'["moderation_actions"],
               a # b, a.report = b.report
        PROVE  a.id <= b.born /\ b.id <= a.born
    <3>1. CASE a \in store["moderation_actions"] /\ b \in store["moderation_actions"]
      BY <2>4, <3>1 DEF DecidedInv, DecidedOnce, Overlapped
    <3>2. CASE a \in store["moderation_actions"] /\ b \notin store["moderation_actions"]
      BY <1>3, <2>1, <2>2, <2>4, <3>2
    <3>3. CASE a \notin store["moderation_actions"] /\ b \in store["moderation_actions"]
      BY <1>3, <2>1, <2>2, <2>4, <3>3
    <3>4. CASE a \notin store["moderation_actions"] /\ b \notin store["moderation_actions"]
      BY <1>3, <2>3, <2>4, <3>4
    <3> QED BY <3>1, <3>2, <3>3, <3>4
  <2> QED BY <2>4 DEF DecidedOnce, Overlapped
<1> QED BY <1>2, <1>4, <1>5, <1>6, <1>7 DEF DecidedInv

LEMMA DecidedInit ==
    ASSUME Init
    PROVE  DecidedInv
<1>1. OnceInv(Decisions) /\ \A p \in Workers : Held(p, Decisions) = {}
  BY OnceAtFirst
<1>2. "moderation_actions" \in Tables /\ "reports" \in Tables
  BY TablesAssumption DEF ModerationTables
<1>3. store["moderation_actions"] = {}
  <2>1. \A f \in DOMAIN Seeded : "moderation_actions" \notin Seeded[f]
    BY DEF Seeded
  <2> QED BY <1>2, <2>1, EmptyAtFirst
<1>4. \A r, s \in store["reports"] : r.id = s.id => r = s
  <2>1. PICK u, w : store["reports"] \in {{}, Rows(u, w)["reports"]}
    BY <1>2, FirstOrNone
  <2>2. \A r, s \in Rows(u, w)["reports"] : r.id = s.id => r = s
    BY DEF Rows
  <2> QED BY <2>1, <2>2
<1> QED BY <1>1, <1>3, <1>4 DEF DecidedInv, DecidedOnce, Solo

\* A request decides, or is about other tables.
LEMMA DecisionsRequest ==
    ASSUME TypeInv, OnceInv(Decisions), NEW p \in Workers, Request(p)
    PROVE  /\ OnceInv(Decisions)'
           /\ Rests(Decisions) \/ \E a : DecidedBatch(a) /\ Takes(p, a, Decisions)
<1> DEFINE others == {RelationWrites, FeedReads, ChatWrites, ChatExtraWrites, PostWrites,
              MarkWrites, MemberWrites, GroupWrites, SessionWrites, TokenWrites, PollWrites,
              SocialWrites, UploadWrites, AccountWrites, CatalogTables}
<1>1. \A T \in others : T \cap Decisions = {}
  BY DEF Decisions, RelationWrites, FeedReads, ChatWrites, ChatExtraWrites, PostWrites,
         MarkWrites, MemberWrites, GroupWrites, SessionWrites, TokenWrites, PollWrites,
         SocialWrites, UploadWrites, AccountWrites,
         CatalogTables, EnterpriseTables, RegionalTables, PlatformTables
<1>2. \/ ModerationRoutes(p) /\ Opens(p, ModerationWrites)
      \/ resolve_report_route(p) /\ Opens(p, DecisionWrites)
      \/ \E T \in others : Opens(p, T)
  BY Requests
<1> HIDE DEF others
<1>3. CASE \E T \in others : Opens(p, T)
  BY <1>1, <1>3, HeldElsewhere
<1>4. CASE \/ ModerationRoutes(p) /\ Opens(p, ModerationWrites)
           \/ resolve_report_route(p) /\ Opens(p, DecisionWrites)
  <2>1. \E a, T : ModerationBatch(a) /\ Begin(p, <<a>>) /\ Ok(a, T, Self)
    BY <1>4, ModerationLeads, DecisionLeads
  <2>2. PICK a : ModerationBatch(a) /\ Begin(p, <<a>>)
    BY <2>1
  <2>3. DecidedBatch(a)
    BY <2>2, DecidedBatches
  <2>4. OnceInv(Decisions)' /\ Takes(p, a, Decisions)
    BY <2>2, HeldBegin
  <2> QED BY <2>3, <2>4
<1> QED BY <1>2, <1>3, <1>4

LEMMA DecidedRequest ==
    ASSUME TypeInv, DecidedInv, NEW p \in Workers, Request(p)
    PROVE  DecidedInv'
<1>1. /\ OnceInv(Decisions)'
      /\ Rests(Decisions) \/ \E a : DecidedBatch(a) /\ Takes(p, a, Decisions)
  BY DecisionsRequest DEF DecidedInv
<1> QED BY <1>1, DecidedRests, DecidedTakes, StoreTypes

LEMMA DecidedNext ==
    ASSUME TypeInv, DecidedInv, [Next]_vars
    PROVE  DecidedInv'
<1>1. /\ Decisions \subseteq Tables /\ Decisions \cap LaterWrites = {}
      /\ Decisions \cap Timed = {}
  BY TablesAssumption DEF ModerationTables, LaterWrites, Timed, Decisions
<1>2. OnceInv(Decisions)
  BY DEF DecidedInv
<1> QED BY <1>1, <1>2, HeldSteps, DecidedRests, DecidedRequest, DecidedGives, StoreTypes

\* Whichever moderators decide and in whichever order they commit, the
\* actions taken and the reports they close agree.
THEOREM DecisionsHold == Spec => []DecidedInv
<1>1. Init => DecidedInv
  BY DecidedInit
<1>2. TypeInv /\ DecidedInv /\ [Next]_vars => DecidedInv'
  BY DecidedNext
<1> QED BY <1>1, <1>2, TypesHold, PTL DEF Spec

\* A report is decided once, but by two moderators who were both at it.
THEOREM ReportsDecidedOnce == Spec => []DecidedOnce
<1>1. DecidedInv => DecidedOnce
  BY DEF DecidedInv
<1> QED BY <1>1, DecisionsHold, PTL

-----------------------------------------------------------------------------
(* Requests of two batches, and of none about the tables.                   *)

LEMMA HeldSecond ==
    ASSUME TypeInv, NEW D, OnceInv(D), NEW p \in Workers, NEW a, NEW b,
           Begin(p, <<a, b>>), On(a, D) = {}
    PROVE  OnceInv(D)' /\ Takes(p, b, D)
<1>1. /\ tx[p] = <<>> /\ tx'[p] = <<a, b>>
      /\ \A q \in Workers \ {p} : tx'[q] = tx[q]
      /\ store' = store /\ served' = Self
  BY DEF Begin, TypeInv, UnitInv
<1>2. Held(p, D) = {}
  BY <1>1 DEF Held
<1>3. DOMAIN tx'[p] = {1, 2} /\ tx'[p][1] = a /\ tx'[p][2] = b
  BY <1>1
<1>4. Once(p, D)' /\ Held(p, D)' = On(b, D)
  BY <1>3 DEF Once, Held
<1>5. \A q \in Workers \ {p} : Once(q, D)' /\ Held(q, D)' = Held(q, D)
  BY <1>1, HeldStays DEF OnceInv
<1> QED BY <1>1, <1>2, <1>4, <1>5 DEF OnceInv, Takes

LEMMA HeldNone ==
    ASSUME TypeInv, NEW D, OnceInv(D), NEW p \in Workers, NEW batches,
           Begin(p, batches), \A b \in Parts(batches) : On(b, D) = {}
    PROVE  OnceInv(D)' /\ Rests(D)
<1>1. /\ tx[p] = <<>> /\ tx'[p] = batches
      /\ \A q \in Workers \ {p} : tx'[q] = tx[q]
      /\ store' = store /\ served' = Self
  BY DEF Begin, TypeInv, UnitInv
<1>2. \A i \in DOMAIN batches : On(batches[i], D) = {}
  BY DEF Parts
<1>3. Once(p, D)' /\ Spent(p, D)
  BY <1>1, <1>2 DEF Once, Held, Spent
<1>4. \A q \in Workers \ {p} : Once(q, D)' /\ Spent(q, D)
  BY <1>1, HeldStays DEF OnceInv, Spent
<1> QED BY <1>1, <1>3, <1>4 DEF OnceInv, Rests

-----------------------------------------------------------------------------
(* The batches about sessions, tokens and polls.                            *)

Tokens == {"sessions", "csrf_tokens", "polls", "answers"}

\* A write that issues a refresh token.
Issues(w) ==
    w.on = "sessions" /\ w.op \in {"insert", "update", "patch"} /\ "refresh_token" \in DOMAIN w.row

HasVoted(votes, u) == \E v \in votes : v[1] = u

\* The only answer of its request.
AnswerAlone(a, w) ==
    /\ w.op = "insert" /\ {"kind", "about"} \subseteq DOMAIN w.row /\ References(w.row) = {}
    /\ w.row.id = Self
    /\ \A v \in a : v.on = "answers" => v = w

\* The session whose token is answered is given another, the CSRF token is
\* used up, and the poll keeps every vote it had with the one that counts.
AnswerOk(a, w) ==
    /\ AnswerAlone(a, w)
    /\ w.row.kind = "refresh" =>
          \E s \in store["sessions"] :
              /\ s.refresh_token = w.row.about
              /\ \E x \in a : Issues(x) /\ Changing(x, "sessions") /\ x.row.id = s.id
    /\ w.row.kind = "csrf" =>
          /\ \A v \in a : ~NewIn(v, "csrf_tokens")
          /\ \E t \in store["csrf_tokens"] :
                /\ t.id = w.row.about /\ ~t.is_used
                /\ \E x \in a : Changing(x, "csrf_tokens") /\ x.row.id = t.id
    /\ w.row.kind = "vote" =>
          /\ \A v \in a : ~NewIn(v, "polls")
          /\ \E poll \in store["polls"] :
                /\ w.row.about[1] = poll.id
                /\ \A x \in a : x.on = "polls" =>
                      /\ Changing(x, "polls") /\ x.row.id = poll.id
                      /\ "votes" \in DOMAIN x.row /\ HasVoted(x.row.votes, w.row.about[2])
                      /\ \A u : HasVoted(poll.votes, u) => HasVoted(x.row.votes, u)
                /\ \/ HasVoted(poll.votes, w.row.about[2])
                   \/ \E x \in a : x.on = "polls"

\* A batch that confirms no chunk.
Unchunked(a) == \A w \in a : w.on = "answers" => w.row.kind # "chunk"

TokenBatch(a) ==
    /\ \A t \in {"sessions", "csrf_tokens", "polls", "answers"} : \A w, v \in a :
          NewIn(w, t) => w.row.id = Self /\ (NewIn(v, t) => v = w)
    /\ \A w \in a : NewIn(w, "sessions") => Issues(w)
    /\ \A w \in a : Issues(w) =>
          /\ w.row.refresh_token = Self
          /\ \A v \in a : v.on = "sessions" => v = w
    /\ \A w \in a : Changing(w, "sessions") /\ "status" \in DOMAIN w.row =>
          w.row.status = "revoked"
    /\ \A w \in a : Changing(w, "csrf_tokens") => "is_used" \in DOMAIN w.row /\ w.row.is_used
    /\ \A w \in a : Changing(w, "polls") =>
          \E v \in a : v.on = "answers" /\ v.row.kind = "vote"
    /\ \A w \in a : w.on = "answers" => AnswerOk(a, w)

\* A batch that leaves sessions, CSRF tokens and polls alone.
LEMMA TokenOther ==
    ASSUME NEW a, \A x \in a : /\ x.on \notin {"sessions", "csrf_tokens", "polls"}
                               /\ x.on = "answers" =>
                                     AnswerAlone(a, x) /\ x.row.kind = "chunk"
    PROVE  TokenBatch(a) /\ ((\A x \in a : x.on # "answers") => Unchunked(a))
BY DEF TokenBatch, Unchunked, AnswerOk, AnswerAlone, NewIn, Changing, Issues

LEMMA AnswerWrites ==
    ASSUME NEW kind, NEW about
    PROVE  /\ \A x \in Answer(kind, about) :
                 /\ x.op = "insert" /\ x.on = "answers" /\ References(x.row) = {}
                 /\ x.row.id = Self
                 /\ "kind" \in DOMAIN x.row /\ x.row.kind = kind
                 /\ "about" \in DOMAIN x.row /\ x.row.about = about
           /\ \A x, y \in Answer(kind, about) : x = y
BY DEF Answer, Insert, References, Parent

\* Beside its session, a login writes rows of other tables.
LEMMA LoginWrites ==
    ASSUME NEW u, NEW d, NEW type
    PROVE  \A x \in (record_login_attempt(u, d) \cup record_successful_login(d))
                    \cup log_security_event(u, type) :
               x.on \in {"logins", "ip_reputation", "audits"}
<1>1. \A x \in record_login_attempt(u, d) \cup log_security_event(u, type) :
          x.on \in {"logins", "audits"}
  BY DEF record_login_attempt, log_security_event, Insert
<1>2. ASSUME NEW x \in record_successful_login(d) PROVE x.on = "ip_reputation"
  <2>1. CASE Reputation(d) = {}
    BY <1>2, <2>1 DEF record_successful_login, InsertUnique
  <2>2. CASE Reputation(d) # {}
    <3>1. PICK r \in Reputation(d) :
              x \in Edit("ip_reputation", r, [successful_logins |-> r.successful_logins + 1])
      BY <1>2, <2>2 DEF record_successful_login
    <3>2. \A cols : \A y \in Edit("ip_reputation", r, cols) : y.on = "ip_reputation"
      BY DEF Edit, Update
    <3> QED BY <3>1, <3>2
  <2> QED BY <2>1, <2>2
<1> QED BY <1>1, <1>2

LEMMA SessionLeads ==
    ASSUME TypeInv, NEW p \in Workers, SessionRoutes(p)
    PROVE  \E a : TokenBatch(a) /\ Unchunked(a) /\ (Begin(p, <<a>>) \/ Begin(p, <<>>))
<1>1. CASE create_session_route(p)
  <2>1. PICK u \in Users, d \in Devices : create_session(p, u, d)
    BY <1>1 DEF create_session_route
  <2> DEFINE row == [id |-> Self, user |-> u, device |-> d, refresh_token |-> Self,
                     status |-> "active", expired |-> FALSE]
             new == Insert("sessions", row)
             rest == (record_login_attempt(u, d) \cup record_successful_login(d))
                     \cup log_security_event(u, "session_created")
             a == {new} \cup rest
  <2>2. Begin(p, <<((({new} \cup record_login_attempt(u, d)) \cup record_successful_login(d))
                     \cup log_security_event(u, "session_created"))>>)
    BY <2>1 DEF create_session
  <2>3. a = ((({new} \cup record_login_attempt(u, d)) \cup record_successful_login(d))
             \cup log_security_event(u, "session_created"))
    OBVIOUS
  <2>4. Begin(p, <<a>>)
    BY <2>2, <2>3
  <2>5. /\ new.op = "insert" /\ new.on = "sessions" /\ "refresh_token" \in DOMAIN new.row
        /\ new.row.id = Self /\ new.row.refresh_token = Self
    BY DEF Insert
  <2>6. \A x \in rest : x.on \in {"logins", "ip_reputation", "audits"}
    BY LoginWrites
  <2> HIDE DEF row, new, rest
  <2>7. TokenBatch(a) /\ Unchunked(a)
    BY <2>5, <2>6
       DEF TokenBatch, Unchunked, AnswerOk, AnswerAlone, NewIn, Changing, Issues
  <2> QED BY <2>4, <2>7
<1>2. CASE refresh_session_route(p)
  <2>1. PICK u \in Users, d \in Devices, token \in 0..served : refresh_session(p, u, d, token)
    BY <1>2 DEF refresh_session_route
  <2>2. PICK s \in store["sessions"] :
            /\ s.refresh_token = token
            /\ \/ Begin(p, <<>>)
               \/ Begin(p, << {Update("sessions", s.id, [refresh_token |-> Self,
                                                         expired |-> FALSE])}
                              \cup Answer("refresh", token) >>)
    BY <2>1 DEF refresh_session
  <2> DEFINE cols == [refresh_token |-> Self, expired |-> FALSE]
             x == Update("sessions", s.id, cols)
             a == {x} \cup Answer("refresh", token)
  <2>3. DOMAIN cols = {"refresh_token", "expired"} /\ cols["refresh_token"] = Self
    OBVIOUS
  <2>4. Begin(p, <<a>>) \/ Begin(p, <<>>)
    BY <2>2
  <2> HIDE DEF cols
  <2>5. /\ x.op = "update" /\ x.on = "sessions" /\ x.row.id = s.id
        /\ DOMAIN x.row = {"id", "refresh_token", "expired"}
        /\ x.row["refresh_token"] = Self
    BY <2>3, UpdateWrites
  <2> HIDE DEF x
  <2>6. \A w \in a : w.on = "answers" => AnswerOk(a, w) /\ w.row.kind # "chunk"
    <3>1. ASSUME NEW w \in a, w.on = "answers" PROVE AnswerOk(a, w) /\ w.row.kind # "chunk"
      <4>1. \A v \in a : v.on = "answers" => v \in Answer("refresh", token)
        BY <2>5
      <4>2. w \in Answer("refresh", token) /\ \A v \in a : v.on = "answers" => v = w
        BY <3>1, <4>1, AnswerWrites
      <4>3. /\ w.op = "insert" /\ References(w.row) = {} /\ w.row.id = Self
            /\ "kind" \in DOMAIN w.row /\ w.row.kind = "refresh"
            /\ "about" \in DOMAIN w.row /\ w.row.about = token
        BY <4>2, AnswerWrites
      <4>4. Issues(x) /\ Changing(x, "sessions") /\ x.row.id = s.id /\ x \in a
        BY <2>5 DEF Issues, Changing
      <4> QED BY <2>2, <4>2, <4>3, <4>4 DEF AnswerOk, AnswerAlone
    <3> QED BY <3>1
  <2>7. TokenBatch(a) /\ Unchunked(a)
    <3>1. \A w \in a : w = x \/ w.on = "answers"
      BY AnswerWrites
    <3>2. ~("status" \in DOMAIN x.row)
      BY <2>5
    <3> HIDE DEF a
    <3> QED BY <2>5, <2>6, <3>1, <3>2
       DEF TokenBatch, Unchunked, AnswerOk, AnswerAlone, NewIn, Changing, Issues
  <2> QED BY <2>4, <2>7
<1>3. CASE revoke_session_route(p) \/ revoke_all_sessions_route(p)
  <2>1. PICK S : Begin(p, << UNION {Revoke(s) : s \in S} >>)
    <3>1. CASE revoke_session_route(p)
      <4>1. PICK s : Begin(p, << Revoke(s) >>)
        BY <3>1 DEF revoke_session_route, revoke_session
      <4>2. UNION {Revoke(x) : x \in {s}} = Revoke(s)
        OBVIOUS
      <4> QED BY <4>1, <4>2
    <3>2. CASE revoke_all_sessions_route(p)
      BY <3>2 DEF revoke_all_sessions_route, revoke_all_sessions
    <3> QED BY <1>3, <3>1, <3>2
  <2> DEFINE a == UNION {Revoke(s) : s \in S}
  <2>2. \A s : \A w \in Revoke(s) : /\ w.op = "update" /\ w.on = "sessions"
                                    /\ DOMAIN w.row \subseteq {"id", "status"}
                                    /\ "status" \in DOMAIN w.row => w.row.status = "revoked"
    BY EditWrites DEF Revoke
  <2>3. \A w \in a : /\ w.op = "update" /\ w.on = "sessions"
                     /\ DOMAIN w.row \subseteq {"id", "status"}
                     /\ "status" \in DOMAIN w.row => w.row.status = "revoked"
    BY <2>2
  <2> HIDE DEF a
  <2>4. TokenBatch(a) /\ Unchunked(a)
    BY <2>3 DEF TokenBatch, Unchunked, NewIn, Changing, Issues
  <2> QED BY <2>1, <2>4 DEF a
<1> QED BY <1>1, <1>2, <1>3 DEF SessionRoutes

LEMMA UsedEdits ==
    ASSUME NEW t, ~t.is_used
    PROVE  /\ \A x \in Edit("csrf_tokens", t, [is_used |-> TRUE]) :
                 /\ x.op = "update" /\ x.on = "csrf_tokens" /\ x.row.id = t.id
                 /\ "is_used" \in DOMAIN x.row /\ x.row.is_used
           /\ \E x \in Edit("csrf_tokens", t, [is_used |-> TRUE]) : TRUE
<1> DEFINE cols == [is_used |-> TRUE]
<1>1. DOMAIN cols = {"is_used"} /\ cols["is_used"] = TRUE
  OBVIOUS
<1> HIDE DEF cols
<1>2. {c \in DOMAIN cols : cols[c] # t[c]} \in {{"is_used"}, {}}
  BY <1>1
<1>3. cols["is_used"] # t["is_used"]
  BY <1>1
<1>4. {c \in DOMAIN cols : cols[c] # t[c]} = {"is_used"}
  BY <1>1, <1>3
<1>5. Edit("csrf_tokens", t, cols) = {Update("csrf_tokens", t.id, [c \in {"is_used"} |-> cols[c]])}
  BY <1>4 DEF Edit
<1> DEFINE x == Update("csrf_tokens", t.id, [c \in {"is_used"} |-> cols[c]])
<1>6. /\ x.op = "update" /\ x.on = "csrf_tokens" /\ x.row.id = t.id
      /\ "is_used" \in DOMAIN x.row /\ x.row["is_used"] = cols["is_used"]
  BY DEF Update, Overlay
<1> HIDE DEF x
<1> QED BY <1>1, <1>5, <1>6 DEF cols, x

LEMMA TokenLeads ==
    ASSUME TypeInv, NEW p \in Workers, TokenRoutes(p)
    PROVE  \E a : TokenBatch(a) /\ Unchunked(a) /\ (Begin(p, <<a>>) \/ Begin(p, <<>>))
<1>1. \A u, type : \A x \in log_security_event(u, type) : x.on = "audits"
  BY DEF log_security_event, Insert
<1>2. CASE create_csrf_token(p)
  <2>1. PICK u \in Users : create_token(p, u)
    BY <1>2 DEF create_csrf_token
  <2> DEFINE row == [id |-> Self, user |-> u, is_used |-> FALSE, expired |-> FALSE]
             a == {InsertUnique("csrf_tokens", row, {"id"})}
  <2>2. Begin(p, <<a>>)
    BY <2>1 DEF create_token
  <2>3. \A w \in a : /\ w.on = "csrf_tokens" /\ w.op = "insert" /\ w.row.id = Self
                     /\ \A v \in a : v = w
    BY DEF InsertUnique
  <2> HIDE DEF a
  <2>4. TokenBatch(a) /\ Unchunked(a)
    BY <2>3 DEF TokenBatch, Unchunked, NewIn, Changing, Issues
  <2> QED BY <2>2, <2>4
<1>3. CASE verify_csrf_token(p)
  <2>1. PICK t \in store["csrf_tokens"], consume \in BOOLEAN : verify_token(p, t, consume)
    BY <1>3 DEF verify_csrf_token
  <2> DEFINE edit == Edit("csrf_tokens", t, [is_used |-> TRUE])
             a == edit \cup Answer("csrf", t.id)
  <2>2. ~t.is_used /\ (Begin(p, <<a>>) \/ Begin(p, <<>>))
    BY <2>1 DEF verify_token
  <2>3. /\ \A x \in edit : /\ x.op = "update" /\ x.on = "csrf_tokens" /\ x.row.id = t.id
                           /\ "is_used" \in DOMAIN x.row /\ x.row.is_used
        /\ \E x \in edit : TRUE
    BY <2>2, UsedEdits
  <2> HIDE DEF edit
  <2>4. ASSUME NEW w \in a, w.on = "answers" PROVE AnswerOk(a, w) /\ w.row.kind # "chunk"
    <3>1. \A v \in a : v.on = "answers" => v \in Answer("csrf", t.id)
      BY <2>3
    <3>2. w \in Answer("csrf", t.id) /\ \A v \in a : v.on = "answers" => v = w
      BY <2>4, <3>1, AnswerWrites
    <3>3. /\ w.op = "insert" /\ References(w.row) = {} /\ w.row.id = Self
          /\ "kind" \in DOMAIN w.row /\ w.row.kind = "csrf"
          /\ "about" \in DOMAIN w.row /\ w.row.about = t.id
      BY <3>2, AnswerWrites
    <3>4. \E x \in a : Changing(x, "csrf_tokens") /\ x.row.id = t.id
      BY <2>3 DEF Changing
    <3>5. \A v \in a : ~NewIn(v, "csrf_tokens")
      BY <2>3, AnswerWrites DEF NewIn
    <3> QED BY <2>2, <3>2, <3>3, <3>4, <3>5 DEF AnswerOk, AnswerAlone
  <2>5. \A w \in a : w \in edit \/ w.on = "answers"
    BY AnswerWrites
  <2> HIDE DEF a
  <2>6. TokenBatch(a) /\ Unchunked(a)
    BY <2>3, <2>4, <2>5
       DEF TokenBatch, Unchunked, AnswerOk, AnswerAlone, NewIn, Changing, Issues
  <2> QED BY <2>2, <2>6
<1>4. CASE prepare_mfa_setup(p)
  <2>1. PICK u : Begin(p, << {Insert("mfa_setups", [id |-> Self, user |-> u, is_verified |-> FALSE])}
                             \cup log_security_event(u, "mfa_setup_requested") >>)
    BY <1>4 DEF prepare_mfa_setup, create_totp_setup
  <2>2. \A row : Insert("mfa_setups", row).on = "mfa_setups"
    BY DEF Insert
  <2>3. \A row : LET a == {Insert("mfa_setups", row)}
                          \cup log_security_event(u, "mfa_setup_requested")
                 IN  TokenBatch(a) /\ Unchunked(a)
    <3> TAKE row
    <3> DEFINE a == {Insert("mfa_setups", row)} \cup log_security_event(u, "mfa_setup_requested")
    <3>1. \A x \in a : x.on \in {"mfa_setups", "audits"}
      BY <1>1, <2>2
    <3> HIDE DEF a
    <3>2. TokenBatch(a) /\ Unchunked(a)
      BY <3>1, TokenOther
    <3> QED BY <3>2 DEF a
  <2> QED BY <2>1, <2>3
<1>5. CASE verify_mfa_setup(p)
  <2>1. PICK s \in store["mfa_setups"], right \in BOOLEAN : verify_totp(p, s.user, s, right)
    BY <1>5 DEF verify_mfa_setup
  <2> DEFINE edit == Edit("mfa_setups", s, [is_verified |-> TRUE])
             a == edit \cup log_security_event(s.user, "mfa_verified")
  <2>2. Begin(p, <<a>>) \/ Begin(p, <<>>)
    BY <2>1 DEF verify_totp
  <2>3. \A x \in edit : x.on = "mfa_setups"
    BY DEF Edit, Update
  <2> HIDE DEF edit
  <2>4. \A x \in a : x.on \in {"mfa_setups", "audits"}
    BY <1>1, <2>3
  <2> HIDE DEF a
  <2>5. TokenBatch(a) /\ Unchunked(a)
    BY <2>4, TokenOther
  <2> QED BY <2>2, <2>5
<1>6. CASE audited_requests(p)
  <2>1. PICK u, type : Begin(p, << log_security_event(u, type) >>)
    BY <1>6 DEF audited_requests
  <2>2. TokenBatch(log_security_event(u, type)) /\ Unchunked(log_security_event(u, type))
    BY <1>1, TokenOther
  <2> QED BY <2>1, <2>2
<1> QED BY <1>2, <1>3, <1>4, <1>5, <1>6 DEF TokenRoutes

\* The map of the votes is written whole, unless it is the same.
LEMMA VoteEdits ==
    ASSUME NEW poll, NEW votes
    PROVE  /\ \A x \in Edit("polls", poll, [votes |-> votes]) :
                 /\ Changing(x, "polls") /\ x.row.id = poll.id
                 /\ "votes" \in DOMAIN x.row /\ x.row.votes = votes
           /\ poll.votes = votes \/ \E x \in Edit("polls", poll, [votes |-> votes]) : TRUE
<1> DEFINE cols == [votes |-> votes]
           changed == {c \in DOMAIN cols : cols[c] # poll[c]}
<1>1. DOMAIN cols = {"votes"} /\ cols["votes"] = votes
  OBVIOUS
<1> HIDE DEF cols
<1>2. changed = {"votes"} \/ (changed = {} /\ poll["votes"] = votes)
  BY <1>1
<1>3. CASE changed = {"votes"}
  <2> DEFINE x == Update("polls", poll.id, [c \in {"votes"} |-> cols[c]])
  <2>1. Edit("polls", poll, cols) = {x}
    BY <1>3 DEF Edit
  <2>2. /\ x.op = "update" /\ x.on = "polls" /\ x.row.id = poll.id
        /\ "votes" \in DOMAIN x.row /\ x.row["votes"] = cols["votes"]
    BY DEF Update, Overlay
  <2> HIDE DEF x
  <2> QED BY <1>1, <2>1, <2>2 DEF cols, Changing
<1>4. CASE changed = {} /\ poll["votes"] = votes
  BY <1>4 DEF Edit, cols
<1> QED BY <1>2, <1>3, <1>4

\* A vote writes back the votes of the others, with its own.
LEMMA PollLeads ==
    ASSUME TypeInv, NEW p \in Workers, PollRoutes(p)
    PROVE  \E a : TokenBatch(a) /\ Unchunked(a) /\ Begin(p, <<a>>)
<1>1. CASE create_poll_route(p)
  <2>1. PICK u \in Users : create_poll(p, u)
    BY <1>1 DEF create_poll_route
  <2> DEFINE row == [id |-> Self, owner |-> u, votes |-> {}, expired |-> FALSE]
             a == {Insert("polls", row)}
  <2>2. Begin(p, <<a>>)
    BY <2>1 DEF create_poll
  <2>3. \A w \in a : /\ w.on = "polls" /\ w.op = "insert" /\ w.row.id = Self
                     /\ \A v \in a : v = w
    BY DEF Insert
  <2> HIDE DEF a
  <2>4. TokenBatch(a) /\ Unchunked(a)
    BY <2>3 DEF TokenBatch, Unchunked, NewIn, Changing, Issues
  <2> QED BY <2>2, <2>4
<1>2. CASE vote(p)
  <2>1. PICK u \in Users, poll \in store["polls"], option \in {"yes", "no"} :
            vote_poll(p, u, poll, option)
    BY <1>2 DEF vote
  <2> DEFINE votes == {v \in poll.votes : v[1] # u} \cup {<<u, option>>}
             edit == Edit("polls", poll, [votes |-> votes])
             a == edit \cup Answer("vote", <<poll.id, u>>)
  <2>2. Begin(p, <<a>>)
    BY <2>1 DEF vote_poll
  <2>3. HasVoted(votes, u) /\ \A x : HasVoted(poll.votes, x) => HasVoted(votes, x)
    <3>1. <<u, option>> \in votes /\ <<u, option>>[1] = u
      OBVIOUS
    <3>2. \A x, v : v \in poll.votes /\ v[1] = x => v \in votes \/ x = u
      OBVIOUS
    <3> HIDE DEF votes
    <3> QED BY <3>1, <3>2 DEF HasVoted
  <2> HIDE DEF votes
  <2>4. /\ \A x \in edit : /\ Changing(x, "polls") /\ x.row.id = poll.id
                           /\ "votes" \in DOMAIN x.row /\ x.row.votes = votes
        /\ poll.votes = votes \/ \E x \in edit : TRUE
    BY VoteEdits
  <2> HIDE DEF edit
  <2>5. \A w \in Answer("vote", <<poll.id, u>>) :
            /\ w.op = "insert" /\ w.on = "answers" /\ "kind" \in DOMAIN w.row
            /\ References(w.row) = {} /\ w.row.id = Self
            /\ w.row.kind = "vote" /\ "about" \in DOMAIN w.row
            /\ w.row.about[1] = poll.id /\ w.row.about[2] = u
    BY AnswerWrites
  <2>6. \A w \in a : w \in edit \/ w \in Answer("vote", <<poll.id, u>>)
    OBVIOUS
  <2>7. \A w \in edit : w.on = "polls" /\ ~NewIn(w, "polls")
    BY <2>4 DEF Changing, NewIn
  <2>8. ASSUME NEW w \in a, w.on = "answers" PROVE AnswerOk(a, w) /\ w.row.kind # "chunk"
    <3>1. \A v \in a : v.on = "answers" => v = w
      BY <2>6, <2>7, <2>8, AnswerWrites
    <3>2. \A v \in a : ~NewIn(v, "polls") /\ (v.on = "polls" => v \in edit)
      BY <2>5, <2>6, <2>7 DEF NewIn
    <3>3. w \in Answer("vote", <<poll.id, u>>)
      BY <2>6, <2>7, <2>8
    <3>4. HasVoted(poll.votes, u) \/ \E x \in a : x.on = "polls"
      BY <2>3, <2>4, <2>7
    <3> HIDE DEF a
    <3> QED BY <2>3, <2>4, <2>5, <3>1, <3>2, <3>3, <3>4 DEF AnswerOk, AnswerAlone
  <2>9. \E v \in a : v.on = "answers" /\ v.row.kind = "vote"
    <3>1. \E v \in Answer("vote", <<poll.id, u>>) : TRUE
      BY DEF Answer
    <3> QED BY <2>5, <3>1
  <2> HIDE DEF a
  <2>10. \A w \in a : /\ w.on \in {"polls", "answers"} /\ ~NewIn(w, "polls")
    BY <2>5, <2>6, <2>7 DEF NewIn
  <2>11. \A w \in a : w.on = "answers" => AnswerOk(a, w)
    BY <2>8
  <2>12. TokenBatch(a)
    BY <2>9, <2>10, <2>11
       DEF TokenBatch, AnswerOk, AnswerAlone, NewIn, Changing, Issues
  <2>13. Unchunked(a)
    BY <2>8 DEF Unchunked
  <2> QED BY <2>2, <2>12, <2>13
<1> QED BY <1>1, <1>2 DEF PollRoutes

\* Uploads leave answers of another kind.
LEMMA UploadTokens ==
    ASSUME TypeInv, NEW D, D \subseteq Tokens, OnceInv(D), NEW p \in Workers, UploadRoutes(p)
    PROVE  OnceInv(D)' /\ (Rests(D) \/ \E a : TokenBatch(a) /\ Takes(p, a, D))
<1>1. \A t, row : Insert(t, row).on = t
  BY DEF Insert
<1>2. \A t, i : Delete(t, i).on = t
  BY DEF Delete
<1>3. CASE initiate_upload(p)
  <2>1. PICK row : Begin(p, << {Insert("uploads", row)} >>)
    BY <1>3 DEF initiate_upload
  <2>2. \A x \in {Insert("uploads", row)} : x.on = "uploads"
    BY <1>1
  <2>3. TokenBatch({Insert("uploads", row)})
    BY <2>2, TokenOther
  <2> QED BY <2>1, <2>3, HeldBegin
<1>4. ASSUME NEW i \in Uploads, NEW c \in Chunks, upload_chunk(p, i, c)
      PROVE  OnceInv(D)' /\ \E a : TokenBatch(a) /\ Takes(p, a, D)
  <2> DEFINE b == Answer("chunk", <<i, c>>)
  <2>1. PICK row : Begin(p, << Put("chunks", row), b >>)
    BY <1>4 DEF upload_chunk
  <2>2. On(Put("chunks", row), D) = {}
    <3>1. \A x \in Put("chunks", row) : x.on = "chunks"
      BY <1>1, <1>2 DEF Put
    <3> QED BY <3>1 DEF On, Tokens
  <2>3. \A x \in b : x.on = "answers" /\ AnswerAlone(b, x) /\ x.row.kind = "chunk"
    BY AnswerWrites DEF AnswerAlone
  <2> HIDE DEF b
  <2>5. TokenBatch(b)
    BY <2>3, TokenOther
  <2> QED BY <2>1, <2>2, <2>5, HeldSecond
<1>5. ASSUME NEW i \in Uploads, NEW encrypt \in BOOLEAN, complete_upload(p, i, encrypt)
      PROVE  OnceInv(D)' /\ Rests(D)
  <2> DEFINE tail == IF encrypt THEN << {Delete("media", Self)},
                                        {Insert("encrypted_media", [id |-> Self])} >>
                     ELSE <<>>
             all == << assemble_chunks(i) >> \o tail
  <2>1. Begin(p, all)
    BY <1>5 DEF complete_upload
  <2>2. \A b \in {assemble_chunks(i), {Delete("media", Self)},
                  {Insert("encrypted_media", [id |-> Self])}} :
            \A x \in b : x.on \in {"media", "uploads", "encrypted_media"}
    BY <1>1, <1>2 DEF assemble_chunks
  <2> DEFINE G == {assemble_chunks(i), {Delete("media", Self)},
                   {Insert("encrypted_media", [id |-> Self])}}
  <2>3. \A b \in Parts(all) : b \in G
    <3>1. << assemble_chunks(i) >> \in Seq(G)
      OBVIOUS
    <3>2. <<>> \in Seq(G) /\ << {Delete("media", Self)},
                                {Insert("encrypted_media", [id |-> Self])} >> \in Seq(G)
      OBVIOUS
    <3>3. tail \in Seq(G)
      BY <3>2
    <3> HIDE DEF tail, G
    <3>4. all \in Seq(G)
      BY <3>1, <3>3
    <3> QED BY <3>4 DEF Parts
  <2> HIDE DEF all
  <2>4. \A b \in Parts(all) : On(b, D) = {}
    BY <2>2, <2>3 DEF On, Tokens
  <2> QED BY <2>1, <2>4, HeldNone
<1> QED BY <1>3, <1>4, <1>5 DEF UploadRoutes

\* A request about sessions, tokens and answers opens a batch of this form,
\* and others spare them.
LEMMA TokenRequest ==
    ASSUME TypeInv, NEW D, D \subseteq Tokens, OnceInv(D), NEW p \in Workers, Request(p)
    PROVE  OnceInv(D)' /\ (Rests(D) \/ \E a : TokenBatch(a) /\ Takes(p, a, D))
<1> DEFINE others == {RelationWrites, FeedReads, ModerationWrites, DecisionWrites, ChatWrites,
              ChatExtraWrites, PostWrites, MarkWrites, MemberWrites, GroupWrites,
              SocialWrites, AccountWrites, CatalogTables}
<1>1. \A T \in others : T \cap Tokens = {}
  BY DEF Tokens, RelationWrites, FeedReads, ModerationWrites, DecisionWrites, ChatWrites,
         ChatExtraWrites, PostWrites, MarkWrites, MemberWrites, GroupWrites,
         SocialWrites, AccountWrites,
         CatalogTables, EnterpriseTables, RegionalTables, PlatformTables
<1>2. \/ SessionRoutes(p) \/ TokenRoutes(p) \/ PollRoutes(p) \/ UploadRoutes(p)
      \/ \E T \in others : Opens(p, T)
  BY Requests
<1> HIDE DEF others
<1>3. CASE \E T \in others : Opens(p, T)
  <2>1. PICK T \in others : Opens(p, T)
    BY <1>3
  <2>2. T \cap D = {}
    BY <1>1
  <2> QED BY <2>1, <2>2, HeldElsewhere
<1>4. CASE SessionRoutes(p) \/ TokenRoutes(p) \/ PollRoutes(p)
  <2>1. PICK a : TokenBatch(a) /\ (Begin(p, <<a>>) \/ Begin(p, <<>>))
    BY <1>4, SessionLeads, TokenLeads, PollLeads
  <2> QED BY <2>1, HeldBegin
<1>5. CASE UploadRoutes(p)
  BY <1>5, UploadTokens
<1> QED BY <1>2, <1>3, <1>4, <1>5

-----------------------------------------------------------------------------
(* The refresh tokens.                                                      *)

Refreshes == {"sessions", "answers"}

\* A token about to be issued: no session has it yet, and no other request
\* issues it.
Issuing(p, w) ==
    /\ w.row.refresh_token \in Int /\ w.row.refresh_token <= served
    /\ \A r \in store["sessions"] : r.refresh_token # w.row.refresh_token
    /\ \A q \in Workers : \A v \in Held(q, Refreshes) :
          Issues(v) /\ v.row.refresh_token = w.row.refresh_token => q = p /\ v = w
    /\ \A v \in Held(p, Refreshes) : v.on = "sessions" => v = w

\* An answer to a refresh token about to be given: the same commit gives its
\* session another, and whoever has answered it already did so after this
\* request had begun.
Refreshing(p, w) ==
    /\ "about" \in DOMAIN w.row /\ w.row.about \in Int /\ w.row.about <= served
    /\ \A q \in Workers : \A v \in Held(q, Refreshes) :
          Issues(v) => v.row.refresh_token # w.row.about
    /\ \E x \in Held(p, Refreshes) :
          /\ Issues(x) /\ Changing(x, "sessions")
          /\ \A r \in store["sessions"] : r.refresh_token = w.row.about => r.id = x.row.id
    /\ \A v \in Held(p, Refreshes) : v.on = "answers" => v = w
    /\ \A a \in store["answers"] :
          a.kind = "refresh" /\ a.about = w.row.about => w.row.id <= a.born

\* An answer that was given: no session has the token any more, nor will.
Refreshed(a) ==
    /\ a.about \in Int /\ a.about <= served
    /\ \A r \in store["sessions"] : r.refresh_token # a.about
    /\ \A q \in Workers : \A v \in Held(q, Refreshes) :
          Issues(v) => v.row.refresh_token # a.about

AnsweredOnce(kind) ==
    \A a, b \in {x \in store["answers"] : x.kind = kind} :
        a # b /\ a.about = b.about => Overlapped(a, b)

RefreshInv ==
    /\ OnceInv(Refreshes) /\ Solo("sessions", Refreshes)
    /\ \A r, s \in store["sessions"] : r.refresh_token = s.refresh_token => r = s
    /\ \A r \in store["sessions"] : r.refresh_token <= served
    /\ \A p \in Workers : \A w \in Held(p, Refreshes) :
          /\ NewIn(w, "sessions") => Issues(w)
          /\ Changing(w, "sessions") /\ "status" \in DOMAIN w.row => w.row.status = "revoked"
          /\ Issues(w) => Issuing(p, w)
          /\ w.on = "answers" =>
                /\ w.op = "insert" /\ "kind" \in DOMAIN w.row
                /\ w.row.kind = "refresh" => Refreshing(p, w)
    /\ \A a \in store["answers"] : a.kind = "refresh" => Refreshed(a)
    /\ AnsweredOnce("refresh")

LEMMA RefreshRests ==
    ASSUME TypeInv, RefreshInv, Rests(Refreshes), OnceInv(Refreshes)'
    PROVE  RefreshInv'
<1>1. /\ store'["sessions"] = store["sessions"] /\ store'["answers"] = store["answers"]
      /\ served <= served' /\ served' \in Int /\ served \in Int
      /\ \A p \in Workers : Held(p, Refreshes)' \in {Held(p, Refreshes), {}}
  BY StoreTypes DEF Rests, Spent, Refreshes, Self
<1>2. Solo("sessions", Refreshes)'
  BY SoloRests DEF RefreshInv, Refreshes
<1>3. ASSUME NEW p \in Workers, NEW w \in Held(p, Refreshes)'
      PROVE  /\ NewIn(w, "sessions") => Issues(w)
             /\ Changing(w, "sessions") /\ "status" \in DOMAIN w.row => w.row.status = "revoked"
             /\ Issues(w) => Issuing(p, w)'
             /\ w.on = "answers" =>
                   /\ w.op = "insert" /\ "kind" \in DOMAIN w.row
                   /\ w.row.kind = "refresh" => Refreshing(p, w)'
  <2>1. w \in Held(p, Refreshes) /\ Held(p, Refreshes)' = Held(p, Refreshes)
    BY <1>1
  <2>2. Issuing(p, w) => Issuing(p, w)'
    BY <1>1, <2>1 DEF Issuing
  <2>3. Refreshing(p, w) => Refreshing(p, w)'
    BY <1>1, <2>1 DEF Refreshing
  <2> QED BY <2>1, <2>2, <2>3 DEF RefreshInv
<1>4. ASSUME NEW a \in store'["answers"], a.kind = "refresh" PROVE Refreshed(a)'
  <2>1. Refreshed(a)
    BY <1>1, <1>4 DEF RefreshInv
  <2> QED BY <1>1, <2>1 DEF Refreshed
<1>5. AnsweredOnce("refresh")'
  BY <1>1 DEF RefreshInv, AnsweredOnce, Overlapped
<1>6. \A r \in store'["sessions"] : r.refresh_token <= served'
  <2>1. \A r \in store["sessions"] : r.refresh_token \in Int /\ r.refresh_token <= served
    BY StoreTypes DEF RefreshInv, UserSession
  <2> QED BY <1>1, <2>1
<1>7. \A r, s \in store'["sessions"] : r.refresh_token = s.refresh_token => r = s
  BY <1>1 DEF RefreshInv
<1> QED BY <1>2, <1>3, <1>4, <1>5, <1>6, <1>7 DEF RefreshInv

LEMMA RefreshTakes ==
    ASSUME TypeInv, RefreshInv, NEW p \in Workers, NEW a, TokenBatch(a),
           Takes(p, a, Refreshes), OnceInv(Refreshes)'
    PROVE  RefreshInv'
<1>1. /\ store' = store /\ served' = served + 1 /\ served \in Nat /\ Self = served + 1
      /\ \A w \in Held(p, Refreshes)' : w \in a /\ Held(p, Refreshes)' = On(a, Refreshes)
      /\ \A q \in Workers \ {p} : Held(q, Refreshes)' = Held(q, Refreshes)
  BY StoreTypes DEF Takes, On, Self
<1>2. "sessions" \in Tables \ Keyed /\ "sessions" \in Refreshes
  BY TablesAssumption DEF SessionTables, Keyed, Refreshes
<1>3. Solo("sessions", Refreshes)'
  BY <1>2, SoloTakes DEF RefreshInv, TokenBatch
<1>4. \A r \in store["sessions"] : r.refresh_token \in Int /\ r.refresh_token <= served
  BY StoreTypes DEF RefreshInv, UserSession
\* A token about to be issued is new, or was about to be.
<1>5. ASSUME NEW q \in Workers, NEW v \in Held(q, Refreshes)', Issues(v)
      PROVE  \/ q = p /\ v \in a /\ v.row.refresh_token = served + 1
             \/ q # p /\ v \in Held(q, Refreshes) /\ Issuing(q, v)
  BY <1>1, <1>5 DEF RefreshInv, TokenBatch
<1>6. ASSUME NEW q \in Workers, NEW w \in Held(q, Refreshes)', Issues(w) PROVE Issuing(q, w)'
  <2>1. CASE q = p
    <3>1. w \in a /\ w.row.refresh_token = served + 1 /\ Held(p, Refreshes)' = On(a, Refreshes)
      BY <1>1, <1>5, <1>6, <2>1
    <3>2. \A v \in Held(p, Refreshes)' : v.on = "sessions" => v = w
      BY <1>1, <1>6, <3>1 DEF TokenBatch
    <3>3. \A x \in Workers : \A v \in Held(x, Refreshes)' :
              Issues(v) /\ v.row.refresh_token = w.row.refresh_token => x = q /\ v = w
      <4> SUFFICES ASSUME NEW x \in Workers, NEW v \in Held(x, Refreshes)', Issues(v),
                          v.row.refresh_token = w.row.refresh_token
                   PROVE  x = q /\ v = w
        OBVIOUS
      <4>1. ~(v.row.refresh_token <= served)
        BY <1>1, <3>1
      <4>2. x = p
        BY <1>5, <4>1 DEF Issuing
      <4> QED BY <2>1, <3>2, <4>2 DEF Issues
    <3>4. \A r \in store'["sessions"] : r.refresh_token # w.row.refresh_token
      BY <1>1, <1>4, <3>1
    <3> QED BY <1>1, <2>1, <3>1, <3>2, <3>3, <3>4 DEF Issuing
  <2>2. CASE q # p
    <3>1. Issuing(q, w) /\ w \in Held(q, Refreshes) /\ Held(q, Refreshes)' = Held(q, Refreshes)
      BY <1>1, <1>5, <1>6, <2>2
    <3>2. \A x \in Workers : \A v \in Held(x, Refreshes)' :
              Issues(v) /\ v.row.refresh_token = w.row.refresh_token => x = q /\ v = w
      BY <1>1, <1>5, <3>1 DEF Issuing
    <3> QED BY <1>1, <3>1, <3>2 DEF Issuing
  <2> QED BY <2>1, <2>2
<1>7. ASSUME NEW w \in Held(p, Refreshes)', w.on = "answers", w.row.kind = "refresh"
      PROVE  Refreshing(p, w)'
  <2>1. w \in a /\ AnswerOk(a, w) /\ Held(p, Refreshes)' = On(a, Refreshes)
    BY <1>1, <1>7 DEF TokenBatch
  <2>2. /\ "about" \in DOMAIN w.row
        /\ \A v \in a : v.on = "answers" => v = w
    BY <1>7, <2>1 DEF AnswerOk, AnswerAlone
  <2>3. PICK s \in store["sessions"] :
            /\ s.refresh_token = w.row.about
            /\ \E x \in a : Issues(x) /\ Changing(x, "sessions") /\ x.row.id = s.id
    BY <1>7, <2>1 DEF AnswerOk, AnswerAlone
  <2>4. PICK x \in a : Issues(x) /\ Changing(x, "sessions") /\ x.row.id = s.id
    BY <2>3
  <2>5. x \in Held(p, Refreshes)'
    BY <2>1, <2>4 DEF On, Issues, Refreshes
  <2>6. \A r \in store["sessions"] : r.refresh_token = w.row.about => r.id = x.row.id
    BY <2>3, <2>4 DEF RefreshInv
  <2>7. w.row.about \in Int /\ w.row.about <= served
    BY <1>4, <2>3
  <2>8. \A q \in Workers : \A v \in Held(q, Refreshes)' :
            Issues(v) => v.row.refresh_token # w.row.about
    BY <1>1, <1>5, <2>3, <2>7 DEF Issuing
  <2>9. \A b \in store["answers"] : ~(b.kind = "refresh" /\ b.about = w.row.about)
    BY <2>3 DEF RefreshInv, Refreshed
  <2>10. \A v \in Held(p, Refreshes)' : v.on = "answers" => v = w
    BY <1>1, <2>2
  <2> QED BY <1>1, <2>2, <2>4, <2>5, <2>6, <2>7, <2>8, <2>9, <2>10 DEF Refreshing
<1>8. ASSUME NEW q \in Workers \ {p}, NEW w \in Held(q, Refreshes), w.on = "answers",
             w.row.kind = "refresh"
      PROVE  Refreshing(q, w)'
  <2>1. Refreshing(q, w) /\ Held(q, Refreshes)' = Held(q, Refreshes)
    BY <1>1, <1>8 DEF RefreshInv
  <2>2. \A x \in Workers : \A v \in Held(x, Refreshes)' :
            Issues(v) => v.row.refresh_token # w.row.about
    BY <1>1, <1>5, <2>1 DEF Refreshing
  <2>3. w.row.about \in Int /\ w.row.about <= served'
    BY <1>1, <2>1 DEF Refreshing
  <2> QED BY <1>1, <2>1, <2>2, <2>3 DEF Refreshing
<1>9. ASSUME NEW q \in Workers, NEW w \in Held(q, Refreshes)'
      PROVE  /\ NewIn(w, "sessions") => Issues(w)
             /\ Changing(w, "sessions") /\ "status" \in DOMAIN w.row => w.row.status = "revoked"
             /\ w.on = "answers" =>
                   /\ w.op = "insert" /\ "kind" \in DOMAIN w.row
                   /\ w.row.kind = "refresh" => Refreshing(q, w)'
  <2>1. CASE q = p
    BY <1>1, <1>7, <1>9, <2>1 DEF TokenBatch, AnswerOk, AnswerAlone
  <2>2. CASE q # p
    BY <1>1, <1>8, <1>9, <2>2 DEF RefreshInv
  <2> QED BY <2>1, <2>2
<1>10. ASSUME NEW b \in store'["answers"], b.kind = "refresh" PROVE Refreshed(b)'
  <2>1. Refreshed(b)
    BY <1>1, <1>10 DEF RefreshInv
  <2>2. \A x \in Workers : \A v \in Held(x, Refreshes)' :
            Issues(v) => v.row.refresh_token # b.about
    BY <1>1, <1>5, <2>1 DEF Refreshed
  <2>3. b.about \in Int /\ b.about <= served'
    BY <1>1, <2>1 DEF Refreshed
  <2> QED BY <1>1, <2>1, <2>2, <2>3 DEF Refreshed
<1>11. AnsweredOnce("refresh")'
  BY <1>1 DEF RefreshInv, AnsweredOnce, Overlapped
<1>12. /\ \A r \in store'["sessions"] : r.refresh_token <= served'
       /\ \A r, s \in store'["sessions"] : r.refresh_token = s.refresh_token => r = s
  BY <1>1, <1>4 DEF RefreshInv
<1> QED BY <1>3, <1>6, <1>9, <1>10, <1>11, <1>12 DEF RefreshInv

\* A session after a commit: it has a token that was about to be issued, or
\* the one it had; it was not revoked, or still is.
LEMMA SessionsAfter ==
    ASSUME TypeInv, RefreshInv, NEW p \in Workers, NEW batch, Gives(p, batch, Refreshes),
           NEW r \in store'["sessions"]
    PROVE  /\ \/ \E w \in Held(p, Refreshes) :
                    /\ Issues(w) /\ r.refresh_token = w.row.refresh_token /\ r.id = w.row.id
              \/ \E s \in store["sessions"] :
                    /\ s.id = r.id /\ r.refresh_token = s.refresh_token
                    /\ \A w \in batch :
                          Issues(w) /\ Changing(w, "sessions") => w.row.id # r.id
           /\ \/ \E w \in Held(p, Refreshes) : NewIn(w, "sessions") /\ r.id = w.row.id
              \/ \E s \in store["sessions"] :
                    s.id = r.id /\ (s.status = "revoked" => r.status = "revoked")
<1>1. "sessions" \in Tables \ Keyed /\ Commits(batch)
  BY TablesAssumption DEF SessionTables, Keyed, Gives
<1>2. \A w \in batch : w.on = "sessions" => w \in Held(p, Refreshes)
  BY DEF Gives, On, Refreshes
<1>3. CASE Inserts(batch, "sessions", r)
  <2>1. PICK w \in batch : /\ w.on = "sessions" /\ w.op = "insert" /\ r.id = w.row.id
                           /\ \A c \in DOMAIN w.row : r[c] = w.row[c]
    BY <1>3 DEF Inserts
  <2>2. Issues(w) /\ w \in Held(p, Refreshes) /\ NewIn(w, "sessions")
    BY <1>2, <2>1 DEF RefreshInv, NewIn
  <2> QED BY <2>1, <2>2 DEF Issues
<1>4. CASE \E s \in store["sessions"] : r = After("sessions", batch, s)
  <2>1. PICK s \in store["sessions"] : r = After("sessions", batch, s)
    BY <1>4
  <2>2. DOMAIN s = {"id", "born", "user", "device", "refresh_token", "status", "expired"}
    BY StoreTypes DEF UserSession
  <2>3. r.id = s.id /\ \/ r = s /\ Changes("sessions", batch, s) = {}
                       \/ Altered("sessions", batch, s, r)
    BY <1>1, <2>1, <2>2, AfterIs
  <2>4. CASE r = s /\ Changes("sessions", batch, s) = {}
    BY <2>3, <2>4 DEF Changes, Changing
  <2>5. CASE Altered("sessions", batch, s, r)
    <3>1. PICK w \in batch : /\ w.on = "sessions" /\ w.op \in {"update", "patch"}
                             /\ w.row.id = s.id
                             /\ \A c \in DOMAIN s \ DOMAIN w.row : r[c] = s[c]
                             /\ \A c \in DOMAIN w.row : r[c] = w.row[c]
      BY <2>5 DEF Altered
    <3>2. w \in Held(p, Refreshes) /\ Changing(w, "sessions")
      BY <1>2, <3>1 DEF Changing
    <3>3. s.status = "revoked" => r.status = "revoked"
      BY <2>2, <3>1, <3>2 DEF RefreshInv
    <3>4. CASE "refresh_token" \in DOMAIN w.row
      <4>1. Issues(w) /\ r.refresh_token = w.row.refresh_token
        BY <3>1, <3>4 DEF Issues
      <4> QED BY <2>3, <3>1, <3>2, <3>3, <4>1
    <3>5. CASE "refresh_token" \notin DOMAIN w.row
      <4>1. r.refresh_token = s.refresh_token
        BY <2>2, <3>1, <3>5
      <4>2. \A v \in batch : ~(Issues(v) /\ Changing(v, "sessions"))
        <5> SUFFICES ASSUME NEW v \in batch, Issues(v), Changing(v, "sessions") PROVE FALSE
          OBVIOUS
        <5>1. v \in Held(p, Refreshes)
          BY <1>2 DEF Changing
        <5>2. Issuing(p, v)
          BY <5>1 DEF RefreshInv
        <5>3. w = v
          BY <3>1, <3>2, <5>2 DEF Issuing
        <5> QED BY <3>5, <5>3 DEF Issues
      <4> QED BY <2>3, <3>3, <4>1, <4>2
    <3> QED BY <3>4, <3>5
  <2> QED BY <2>3, <2>4, <2>5
<1> QED BY <1>1, <1>3, <1>4, CommitAfter

LEMMA RefreshGives ==
    ASSUME TypeInv, RefreshInv, NEW p \in Workers, NEW batch, Gives(p, batch, Refreshes),
           OnceInv(Refreshes)'
    PROVE  RefreshInv'
<1>1. /\ {"sessions", "answers"} \subseteq Tables \ Keyed
      /\ served' = served /\ served \in Nat /\ Commits(batch)
      /\ \A q \in Workers : Held(q, Refreshes)' \in {Held(q, Refreshes), {}}
      /\ \A w \in batch : w.on \in Refreshes => w \in Held(p, Refreshes) /\ Held(p, Refreshes)' = {}
  BY TablesAssumption, StoreTypes
     DEF SessionTables, Keyed, Gives, Spent, Commits, On
<1>2. Solo("sessions", Refreshes)'
  BY <1>1, SoloGives DEF RefreshInv, Refreshes
\* A session has a token it had, or one that p was about to issue.
<1>3. ASSUME NEW r \in store'["sessions"]
      PROVE  \/ \E w \in Held(p, Refreshes) :
                   /\ Issuing(p, w) /\ Issues(w)
                   /\ r.refresh_token = w.row.refresh_token /\ r.id = w.row.id
             \/ \E s \in store["sessions"] :
                   /\ s.id = r.id /\ r.refresh_token = s.refresh_token
                   /\ \A w \in batch :
                         Issues(w) /\ Changing(w, "sessions") => w.row.id # r.id
  <2>1. \A w \in Held(p, Refreshes) : Issues(w) => Issuing(p, w)
    BY DEF RefreshInv
  <2> QED BY <2>1, SessionsAfter
\* An answer is new, or one that was there.
<1>4. ASSUME NEW a \in store'["answers"], a.kind = "refresh"
      PROVE  \/ a \in store["answers"]
             \/ \E w \in Held(p, Refreshes) :
                   /\ w.on = "answers" /\ Refreshing(p, w) /\ w \in batch
                   /\ a = Overlay(w.row, [born |-> served])
                   /\ a.id = w.row.id /\ a.born = served /\ a.about = w.row.about
  <2>1. CASE Inserts(batch, "answers", a)
    <3>1. PICK w \in batch : /\ w.on = "answers"
                             /\ a = Overlay(w.row, [born |-> served])
                             /\ a.id = w.row.id /\ a.born = served
                             /\ \A c \in DOMAIN w.row : a[c] = w.row[c]
      BY <2>1 DEF Inserts
    <3>2. w \in Held(p, Refreshes)
      BY <1>1, <3>1 DEF Refreshes
    <3>3. w.row.kind = "refresh"
      BY <1>4, <3>1, <3>2 DEF RefreshInv
    <3>4. Refreshing(p, w)
      BY <3>1, <3>2, <3>3 DEF RefreshInv
    <3>5. a.about = w.row.about
      BY <3>1, <3>4 DEF Refreshing
    <3> QED BY <3>1, <3>2, <3>4, <3>5
  <2>2. CASE \E s \in store["answers"] : a = After("answers", batch, s)
    <3>1. \A s : Changes("answers", batch, s) = {}
      BY <1>1 DEF RefreshInv, Changes, Refreshes
    <3> QED BY <2>2, <3>1 DEF After
  <2> QED BY <1>1, <2>1, <2>2, CommitAfter
<1>5. ASSUME NEW a \in store'["answers"], a.kind = "refresh" PROVE Refreshed(a)'
  <2>1. CASE a \in store["answers"]
    <3>1. Refreshed(a)
      BY <1>5, <2>1 DEF RefreshInv
    <3>2. \A r \in store'["sessions"] : r.refresh_token # a.about
      BY <1>3, <3>1 DEF Refreshed
    <3> QED BY <1>1, <3>1, <3>2 DEF Refreshed
  <2>2. CASE \E w \in Held(p, Refreshes) :
                 w.on = "answers" /\ Refreshing(p, w) /\ w \in batch /\ a.about = w.row.about
    <3>1. PICK w \in Held(p, Refreshes) :
              w.on = "answers" /\ Refreshing(p, w) /\ w \in batch /\ a.about = w.row.about
      BY <2>2
    <3>2. Held(p, Refreshes) = On(batch, Refreshes)
      BY <3>1 DEF Gives, On, Refreshes
    <3>3. PICK x \in Held(p, Refreshes) :
              /\ Issues(x) /\ Changing(x, "sessions")
              /\ \A r \in store["sessions"] : r.refresh_token = w.row.about => r.id = x.row.id
      BY <3>1 DEF Refreshing
    <3>4. x \in batch
      BY <3>2, <3>3 DEF On
    <3>5. \A r \in store'["sessions"] : r.refresh_token # a.about
      BY <1>3, <3>1, <3>3, <3>4 DEF Refreshing
    <3> QED BY <1>1, <3>1, <3>5 DEF Refreshed, Refreshing
  <2> QED BY <1>4, <1>5, <2>1, <2>2
<1>6. ASSUME NEW q \in Workers, NEW w \in Held(q, Refreshes)', w.on = "answers",
             w.row.kind = "refresh"
      PROVE  Refreshing(q, w)'
  <2>1. w \in Held(q, Refreshes) /\ Held(q, Refreshes)' = Held(q, Refreshes)
    BY <1>1
  <2>2. Refreshing(q, w) /\ w.op = "insert"
    BY <1>6, <2>1 DEF RefreshInv
  <2>3. w.row.id <= served
    BY <1>1, <1>6, <2>1, <2>2, NewNumber DEF NewIn
  <2>4. \A a \in store'["answers"] :
            a.kind = "refresh" /\ a.about = w.row.about => w.row.id <= a.born
    BY <1>4, <2>2, <2>3 DEF Refreshing
  <2>5. \E x \in Held(q, Refreshes)' :
            /\ Issues(x) /\ Changing(x, "sessions")
            /\ \A r \in store'["sessions"] : r.refresh_token = w.row.about => r.id = x.row.id
    <3>1. PICK x \in Held(q, Refreshes) :
            /\ Issues(x) /\ Changing(x, "sessions")
            /\ \A r \in store["sessions"] : r.refresh_token = w.row.about => r.id = x.row.id
      BY <2>2 DEF Refreshing
    <3>2. \A r \in store'["sessions"] : r.refresh_token = w.row.about => r.id = x.row.id
      BY <1>3, <2>2, <3>1 DEF Refreshing
    <3> QED BY <2>1, <3>1, <3>2
  <2> QED BY <1>1, <2>1, <2>2, <2>4, <2>5 DEF Refreshing
<1>7. ASSUME NEW q \in Workers, NEW w \in Held(q, Refreshes)', Issues(w) PROVE Issuing(q, w)'
  <2>1. w \in Held(q, Refreshes) /\ Held(q, Refreshes)' = Held(q, Refreshes)
    BY <1>1
  <2>2. Issuing(q, w)
    BY <1>7, <2>1 DEF RefreshInv
  <2>3. \A r \in store'["sessions"] : r.refresh_token # w.row.refresh_token
    <3> SUFFICES ASSUME NEW r \in store'["sessions"], r.refresh_token = w.row.refresh_token
                 PROVE  FALSE
      OBVIOUS
    <3>1. PICK v \in Held(p, Refreshes) :
              Issues(v) /\ Issuing(p, v) /\ r.refresh_token = v.row.refresh_token
      BY <1>3, <2>2 DEF Issuing
    <3>2. q = p /\ v = w
      BY <1>7, <2>1, <3>1 DEF Issuing
    \* Then nothing was committed, and r is as it was.
    <3>3. On(batch, Refreshes) = {}
      BY <1>1, <2>1, <3>2 DEF On
    <3>4. r \in store["sessions"]
      <4>1. \A s : Changes("sessions", batch, s) = {}
        BY <3>3 DEF On, Changes, Refreshes
      <4>2. ~Inserts(batch, "sessions", r)
        BY <3>3 DEF On, Inserts, Refreshes
      <4> QED BY <1>1, <4>1, <4>2, CommitAfter DEF After
    <3> QED BY <2>2, <3>4 DEF Issuing
  <2>4. \A x \in Workers : \A v \in Held(x, Refreshes)' :
            Issues(v) /\ v.row.refresh_token = w.row.refresh_token => x = q /\ v = w
    BY <1>1, <2>2 DEF Issuing
  <2> QED BY <1>1, <2>1, <2>2, <2>3, <2>4 DEF Issuing
<1>8. /\ \A r \in store'["sessions"] : r.refresh_token <= served'
      /\ \A r, s \in store'["sessions"] : r.refresh_token = s.refresh_token => r = s
  <2>1. \A r \in store'["sessions"] : r.refresh_token <= served'
    BY <1>1, <1>3 DEF RefreshInv, Issuing
  <2>2. ASSUME NEW r \in store'["sessions"], NEW s \in store'["sessions"],
               r.refresh_token = s.refresh_token
        PROVE  r.id = s.id
    BY <1>3, <2>2 DEF RefreshInv, Issuing
  <2> QED BY <1>2, <2>1, <2>2 DEF Solo
<1>9. \A q \in Workers : \A w \in Held(q, Refreshes)' :
          /\ NewIn(w, "sessions") => Issues(w)
          /\ Changing(w, "sessions") /\ "status" \in DOMAIN w.row => w.row.status = "revoked"
          /\ w.on = "answers" => w.op = "insert" /\ "kind" \in DOMAIN w.row
  BY <1>1 DEF RefreshInv
<1>10. AnsweredOnce("refresh")'
  <2>1. \A a \in store["answers"] : a.id \in Int /\ a.id <= served
    BY <1>1, RowNumbers
  <2>2. ASSUME NEW a \in store["answers"], a.kind = "refresh", NEW w, Refreshing(p, w),
               a.about = w.row.about
        PROVE  w.row.id <= a.born
    BY <2>2 DEF Refreshing
  <2>3. ASSUME NEW w \in Held(p, Refreshes), NEW v \in Held(p, Refreshes), Refreshing(p, v),
               v.on = "answers", w.on = "answers"
        PROVE  v = w
    BY <2>3 DEF Refreshing
  <2> HIDE DEF Refreshing
  <2>4. ASSUME NEW a \in store'["answers"], NEW b \in store'["answers"],
               a.kind = "refresh", b.kind = "refresh", a # b, a.about = b.about
        PROVE  a.id <= b.born /\ b.id <= a.born
    <3>1. CASE a \in store["answers"] /\ b \in store["answers"]
      BY <2>4, <3>1 DEF RefreshInv, AnsweredOnce, Overlapped
    <3>2. CASE a \in store["answers"] /\ b \notin store["answers"]
      BY <1>4, <2>1, <2>2, <2>4, <3>2
    <3>3. CASE a \notin store["answers"] /\ b \in store["answers"]
      BY <1>4, <2>1, <2>2, <2>4, <3>3
    <3>4. CASE a \notin store["answers"] /\ b \notin store["answers"]
      BY <1>4, <2>3, <2>4, <3>4
    <3> QED BY <3>1, <3>2, <3>3, <3>4
  <2> QED BY <2>4 DEF AnsweredOnce, Overlapped
<1> QED BY <1>2, <1>5, <1>6, <1>7, <1>8, <1>9, <1>10 DEF RefreshInv

\* Time lets one row expire, and leaves its other columns.
LEMMA TimeExpires ==
    ASSUME TypeInv, Clock, NEW t \in {"sessions", "csrf_tokens", "polls"}
    PROVE  \/ store'[t] = store[t]
           \/ \E r \in store[t] :
                 store'[t] = (store[t] \ {r}) \cup {[r EXCEPT !.expired = TRUE]}
<1>1. store = [x \in Tables |-> store[x]] /\ t \in Tables
  BY TablesAssumption DEF TypeInv, UnitInv, SessionTables, SocialTables
<1>2. CASE TokensExpire
  <2>1. PICK x \in {"sessions", "csrf_tokens"} : \E r \in store[x] :
            store' = [store EXCEPT ![x] = (@ \ {r}) \cup {[r EXCEPT !.expired = TRUE]}]
    BY <1>2 DEF TokensExpire
  <2>2. PICK r \in store[x] :
            store' = [store EXCEPT ![x] = (@ \ {r}) \cup {[r EXCEPT !.expired = TRUE]}]
    BY <2>1
  <2>3. CASE x = t
    BY <1>1, <2>2, <2>3
  <2>4. CASE x # t
    BY <1>1, <2>2, <2>4
  <2> QED BY <2>3, <2>4
<1>3. CASE ExpireRelations \/ TermsEnd
  BY <1>1, <1>3 DEF ExpireRelations, TermsEnd
<1>4. CASE PollsExpire
  <2>1. PICK r \in store["polls"] :
            store' = [store EXCEPT !["polls"] = (@ \ {r}) \cup {[r EXCEPT !.expired = TRUE]}]
    BY <1>4 DEF PollsExpire
  <2>2. CASE t = "polls"
    BY <1>1, <2>1, <2>2
  <2>3. CASE t # "polls"
    BY <1>1, <2>1, <2>3
  <2> QED BY <2>2, <2>3
<1> QED BY <1>2, <1>3, <1>4 DEF Clock

LEMMA RefreshTime ==
    ASSUME TypeInv, RefreshInv, Clock, OnceInv(Refreshes)',
           \A p \in Workers : Held(p, Refreshes)' = Held(p, Refreshes)
    PROVE  RefreshInv'
<1>1. served' = served /\ store'["answers"] = store["answers"]
  BY ClockSteps, TablesAssumption DEF SessionTables
<1>2. CASE store'["sessions"] = store["sessions"]
  <2>1. Rests(Refreshes)
    BY <1>1, <1>2 DEF Rests, Spent, Refreshes
  <2> QED BY <2>1, RefreshRests
<1>3. CASE \E r \in store["sessions"] :
               store'["sessions"] = (store["sessions"] \ {r}) \cup {[r EXCEPT !.expired = TRUE]}
  <2>1. PICK r \in store["sessions"] :
               store'["sessions"] = (store["sessions"] \ {r}) \cup {[r EXCEPT !.expired = TRUE]}
    BY <1>3
  <2> DEFINE x == [r EXCEPT !.expired = TRUE]
  <2>2. x.id = r.id /\ x.refresh_token = r.refresh_token
    BY StoreTypes DEF UserSession
  <2> HIDE DEF x
  <2>3. Solo("sessions", Refreshes)'
    BY <2>1, <2>2, SoloTime DEF RefreshInv, x
  <2>4. \A y \in store'["sessions"] :
            \E s \in store["sessions"] : s.id = y.id /\ s.refresh_token = y.refresh_token
    BY <2>1, <2>2 DEF x
  <2>5. ASSUME NEW p \in Workers, NEW w \in Held(p, Refreshes)'
        PROVE  /\ NewIn(w, "sessions") => Issues(w)
               /\ Changing(w, "sessions") /\ "status" \in DOMAIN w.row => w.row.status = "revoked"
               /\ Issues(w) => Issuing(p, w)'
               /\ w.on = "answers" =>
                     /\ w.op = "insert" /\ "kind" \in DOMAIN w.row
                     /\ w.row.kind = "refresh" => Refreshing(p, w)'
    <3>1. w \in Held(p, Refreshes)
      OBVIOUS
    <3>2. Issuing(p, w) => Issuing(p, w)'
      BY <1>1, <2>4 DEF Issuing
    <3>3. Refreshing(p, w) => Refreshing(p, w)'
      <4> SUFFICES ASSUME Refreshing(p, w) PROVE Refreshing(p, w)'
        OBVIOUS
      <4>1. PICK v \in Held(p, Refreshes) :
              /\ Issues(v) /\ Changing(v, "sessions")
              /\ \A s \in store["sessions"] : s.refresh_token = w.row.about => s.id = v.row.id
        BY DEF Refreshing
      <4>2. \A s \in store'["sessions"] : s.refresh_token = w.row.about => s.id = v.row.id
        BY <2>4, <4>1
      <4> QED BY <1>1, <4>1, <4>2 DEF Refreshing
    <3> QED BY <3>1, <3>2, <3>3 DEF RefreshInv
  <2>6. \A a \in store'["answers"] : a.kind = "refresh" => Refreshed(a)'
    BY <1>1, <2>4 DEF RefreshInv, Refreshed
  <2>7. AnsweredOnce("refresh")'
    BY <1>1 DEF RefreshInv, AnsweredOnce, Overlapped
  <2>8. /\ \A y \in store'["sessions"] : y.refresh_token <= served'
        /\ \A y, z \in store'["sessions"] : y.refresh_token = z.refresh_token => y = z
    <3>1. \A y, z \in store'["sessions"] : y.refresh_token = z.refresh_token => y.id = z.id
      BY <2>4 DEF RefreshInv
    <3> QED BY <1>1, <2>3, <2>4, <3>1 DEF RefreshInv, Solo
  <2> QED BY <2>3, <2>5, <2>6, <2>7, <2>8 DEF RefreshInv
<1> QED BY <1>2, <1>3, TimeExpires

LEMMA RefreshInit ==
    ASSUME Init
    PROVE  RefreshInv
<1>1. OnceInv(Refreshes) /\ \A p \in Workers : Held(p, Refreshes) = {}
  BY OnceAtFirst
<1>2. "sessions" \in Tables /\ "answers" \in Tables
  BY TablesAssumption DEF SessionTables
<1>3. store["answers"] = {}
  <2>1. \A f \in DOMAIN Seeded : "answers" \notin Seeded[f]
    BY DEF Seeded
  <2> QED BY <1>2, <2>1, EmptyAtFirst
<1>4. PICK u, w : store["sessions"] \in {{}, Rows(u, w)["sessions"]}
  BY <1>2, FirstOrNone
<1>5. /\ \A r, s \in Rows(u, w)["sessions"] : r = s
      /\ \A r \in Rows(u, w)["sessions"] : r.refresh_token = 0
  <2> DEFINE row(d) == [id |-> 0, born |-> 0, user |-> u, device |-> d, refresh_token |-> 0,
                        status |-> "active", expired |-> FALSE]
  <2>1. Rows(u, w)["sessions"] = {row(d) : d \in {CHOOSE d \in Devices : TRUE}}
    BY DEF Rows
  <2>2. \A d : row(d).refresh_token = 0
    OBVIOUS
  <2> HIDE DEF row
  <2> QED BY <2>1, <2>2
<1>6. /\ \A r, s \in store["sessions"] : r = s
      /\ \A r \in store["sessions"] : r.refresh_token <= served
  BY <1>4, <1>5, FirstOrNone
<1> QED BY <1>1, <1>3, <1>6 DEF RefreshInv, AnsweredOnce, Solo

LEMMA RefreshNext ==
    ASSUME TypeInv, RefreshInv, [Next]_vars
    PROVE  RefreshInv'
<1>1. Refreshes \subseteq Tables /\ Refreshes \cap LaterWrites = {} /\ Refreshes \subseteq Tokens
  BY TablesAssumption DEF SessionTables, LaterWrites, Refreshes, Tokens
<1>2. OnceInv(Refreshes)
  BY DEF RefreshInv
<1>3. ASSUME NEW p \in Workers, Request(p) PROVE RefreshInv'
  BY <1>1, <1>2, <1>3, TokenRequest, RefreshRests, RefreshTakes
<1> QED BY <1>1, <1>2, <1>3, HeldSteps, RefreshRests, RefreshGives, RefreshTime

\* However the refreshes of a session and its revocation cross, the tokens
\* its requests have been answered agree with the one it has.
THEOREM RefreshesHold == Spec => []RefreshInv
<1>1. Init => RefreshInv
  BY RefreshInit
<1>2. TypeInv /\ RefreshInv /\ [Next]_vars => RefreshInv'
  BY RefreshNext
<1> QED BY <1>1, <1>2, TypesHold, PTL DEF Spec

\* A step revives no session: what is pending on it was read as active, but
\* writes no status, and the number of one to come is not its.
LEMMA RevokedNext ==
    ASSUME TypeInv, RefreshInv, [Next]_vars,
           NEW s \in store["sessions"], NEW t \in store'["sessions"],
           s.id = t.id, s.status = "revoked"
    PROVE  t.status = "revoked"
<1>1. Refreshes \subseteq Tables /\ Refreshes \cap LaterWrites = {}
  BY TablesAssumption DEF SessionTables, LaterWrites, Refreshes
<1>2. OnceInv(Refreshes) /\ Solo("sessions", Refreshes)
  BY DEF RefreshInv
<1>3. CASE store'["sessions"] = store["sessions"]
  BY <1>2, <1>3 DEF Solo
<1>4. ASSUME NEW p \in Workers, Request(p) PROVE store' = store
  <2>1. PICK T, batches : Begin(p, batches)
    BY <1>4, Requests DEF Opens
  <2> QED BY <2>1 DEF Begin
<1>5. ASSUME NEW p \in Workers, NEW batch, Gives(p, batch, Refreshes)
      PROVE  t.status = "revoked"
  <2>1. \/ \E w \in Held(p, Refreshes) : NewIn(w, "sessions") /\ t.id = w.row.id
        \/ \E r \in store["sessions"] :
              r.id = t.id /\ (r.status = "revoked" => t.status = "revoked")
    BY <1>5, SessionsAfter
  <2> QED BY <1>2, <2>1 DEF Solo
<1>6. ASSUME Clock PROVE t.status = "revoked"
  <2>1. PICK r \in store["sessions"] :
            store'["sessions"] \in {store["sessions"],
                (store["sessions"] \ {r}) \cup {[r EXCEPT !.expired = TRUE]}}
    BY <1>6, TimeExpires
  <2>2. [r EXCEPT !.expired = TRUE].id = r.id /\ [r EXCEPT !.expired = TRUE].status = r.status
    BY StoreTypes DEF UserSession
  <2> QED BY <1>2, <2>1, <2>2 DEF Solo
<1>7. Rests(Refreshes) => store'["sessions"] = store["sessions"]
  BY DEF Rests, Refreshes
<1> QED BY <1>1, <1>2, <1>3, <1>4, <1>5, <1>6, <1>7, HeldSteps

\* A revoked session stays revoked, whatever refresh had read it before.
THEOREM RevocationsHold == Spec => RevokedStaysRevoked
<1>1. TypeInv /\ RefreshInv /\ [Next]_vars =>
          [\A s \in store["sessions"] : \A t \in store'["sessions"] :
               s.id = t.id /\ s.status = "revoked" => t.status = "revoked"]_requestVars
  BY RevokedNext
<1> QED BY <1>1, TypesHold, RefreshesHold, PTL DEF Spec, RevokedStaysRevoked

-----------------------------------------------------------------------------
(* The CSRF tokens.                                                         *)

Consumptions == {"csrf_tokens", "answers"}

\* A token about to be spent: the same commit marks it as used, and whoever
\* has spent it already did so after this request had begun.
Consuming(p, w) ==
    /\ "about" \in DOMAIN w.row /\ w.row.about \in Int /\ w.row.about <= served
    /\ \A q \in Workers : \A v \in Held(q, Consumptions) :
          NewIn(v, "csrf_tokens") => v.row.id # w.row.about
    /\ \E x \in Held(p, Consumptions) : Changing(x, "csrf_tokens") /\ x.row.id = w.row.about
    /\ \A v \in Held(p, Consumptions) : v.on = "answers" => v = w
    /\ \A a \in store["answers"] :
          a.kind = "csrf" /\ a.about = w.row.about => w.row.id <= a.born

\* A spent one: its row is used, for good.
Consumed(a) ==
    /\ a.about \in Int /\ a.about <= served
    /\ \A r \in store["csrf_tokens"] : r.id = a.about => r.is_used
    /\ \A q \in Workers : \A v \in Held(q, Consumptions) :
          NewIn(v, "csrf_tokens") => v.row.id # a.about

CSRFInv ==
    /\ OnceInv(Consumptions) /\ Solo("csrf_tokens", Consumptions)
    /\ \A p \in Workers : \A w \in Held(p, Consumptions) :
          /\ Changing(w, "csrf_tokens") => "is_used" \in DOMAIN w.row /\ w.row.is_used
          /\ w.on = "answers" =>
                /\ w.op = "insert" /\ "kind" \in DOMAIN w.row
                /\ w.row.kind = "csrf" => Consuming(p, w)
    /\ \A a \in store["answers"] : a.kind = "csrf" => Consumed(a)
    /\ AnsweredOnce("csrf")

LEMMA CSRFRests ==
    ASSUME TypeInv, CSRFInv, Rests(Consumptions), OnceInv(Consumptions)'
    PROVE  CSRFInv'
<1>1. /\ store'["csrf_tokens"] = store["csrf_tokens"] /\ store'["answers"] = store["answers"]
      /\ served <= served' /\ served' \in Int /\ served \in Int
      /\ \A p \in Workers : Held(p, Consumptions)' \in {Held(p, Consumptions), {}}
  BY StoreTypes DEF Rests, Spent, Consumptions, Self
<1>2. Solo("csrf_tokens", Consumptions)'
  BY SoloRests DEF CSRFInv, Consumptions
<1>3. ASSUME NEW p \in Workers, NEW w \in Held(p, Consumptions)'
      PROVE  /\ Changing(w, "csrf_tokens") => "is_used" \in DOMAIN w.row /\ w.row.is_used
             /\ w.on = "answers" =>
                   /\ w.op = "insert" /\ "kind" \in DOMAIN w.row
                   /\ w.row.kind = "csrf" => Consuming(p, w)'
  <2>1. w \in Held(p, Consumptions) /\ Held(p, Consumptions)' = Held(p, Consumptions)
    BY <1>1
  <2>2. Consuming(p, w) => Consuming(p, w)'
    BY <1>1, <2>1 DEF Consuming
  <2> QED BY <2>1, <2>2 DEF CSRFInv
<1>4. ASSUME NEW a \in store'["answers"], a.kind = "csrf" PROVE Consumed(a)'
  <2>1. Consumed(a)
    BY <1>1, <1>4 DEF CSRFInv
  <2> QED BY <1>1, <2>1 DEF Consumed
<1>5. AnsweredOnce("csrf")'
  BY <1>1 DEF CSRFInv, AnsweredOnce, Overlapped
<1> QED BY <1>2, <1>3, <1>4, <1>5 DEF CSRFInv

LEMMA CSRFTakes ==
    ASSUME TypeInv, CSRFInv, NEW p \in Workers, NEW a, TokenBatch(a),
           Takes(p, a, Consumptions), OnceInv(Consumptions)'
    PROVE  CSRFInv'
<1>1. /\ store' = store /\ served' = served + 1 /\ served \in Nat /\ Self = served + 1
      /\ \A w \in Held(p, Consumptions)' : w \in a /\ Held(p, Consumptions)' = On(a, Consumptions)
      /\ \A q \in Workers \ {p} : Held(q, Consumptions)' = Held(q, Consumptions)
  BY StoreTypes DEF Takes, On, Self
<1>2. "csrf_tokens" \in Tables \ Keyed /\ "csrf_tokens" \in Consumptions
  BY TablesAssumption DEF SessionTables, Keyed, Consumptions
<1>3. Solo("csrf_tokens", Consumptions)'
  BY <1>2, SoloTakes DEF CSRFInv, TokenBatch
\* A token about to be made is one that nothing else knows of.
<1>4. ASSUME NEW q \in Workers, NEW v \in Held(q, Consumptions)', NewIn(v, "csrf_tokens")
      PROVE  /\ \A r \in store["csrf_tokens"] : v.row.id # r.id
             /\ (q = p /\ v \in a /\ v.row.id = Self) \/ v \in Held(q, Consumptions)
  <2>1. CASE q = p
    <3>1. v \in a /\ v.row.id = Self
      BY <1>1, <1>4, <2>1 DEF TokenBatch
    <3> QED BY <1>1, <1>2, <2>1, <3>1, RowNumbers
  <2>2. CASE q # p
    BY <1>1, <1>4, <2>2 DEF CSRFInv, Solo
  <2> QED BY <2>1, <2>2
<1>5. ASSUME NEW w \in Held(p, Consumptions)', w.on = "answers", w.row.kind = "csrf"
      PROVE  Consuming(p, w)'
  <2>1. w \in a /\ AnswerOk(a, w) /\ Held(p, Consumptions)' = On(a, Consumptions)
    BY <1>1, <1>5 DEF TokenBatch
  <2>2. /\ "about" \in DOMAIN w.row
        /\ \A v \in a : v.on = "answers" => v = w
    BY <1>5, <2>1 DEF AnswerOk, AnswerAlone
  <2>3. PICK t \in store["csrf_tokens"] :
            /\ t.id = w.row.about /\ ~t.is_used
            /\ \E x \in a : Changing(x, "csrf_tokens") /\ x.row.id = t.id
    BY <1>5, <2>1 DEF AnswerOk, AnswerAlone
  <2>4. PICK x \in a : Changing(x, "csrf_tokens") /\ x.row.id = t.id
    BY <2>3
  <2>5. x \in Held(p, Consumptions)'
    BY <2>1, <2>4 DEF On, Changing, Consumptions
  <2>6. w.row.about \in Int /\ w.row.about <= served'
    BY <1>1, <1>2, <2>3, RowNumbers
  <2>7. \A q \in Workers : \A v \in Held(q, Consumptions)' :
            NewIn(v, "csrf_tokens") => v.row.id # w.row.about
    BY <1>4, <2>3
  <2>8. \A b \in store["answers"] : ~(b.kind = "csrf" /\ b.about = w.row.about)
    BY <2>3 DEF CSRFInv, Consumed
  <2>9. \A v \in Held(p, Consumptions)' : v.on = "answers" => v = w
    BY <1>1, <2>2
  <2> QED BY <1>1, <2>2, <2>3, <2>4, <2>5, <2>6, <2>7, <2>8, <2>9 DEF Consuming
<1>6. ASSUME NEW q \in Workers \ {p}, NEW w \in Held(q, Consumptions), w.on = "answers",
             w.row.kind = "csrf"
      PROVE  Consuming(q, w)'
  <2>1. Consuming(q, w) /\ Held(q, Consumptions)' = Held(q, Consumptions)
    BY <1>1, <1>6 DEF CSRFInv
  <2>2. \A x \in Workers : \A v \in Held(x, Consumptions)' :
            NewIn(v, "csrf_tokens") => v.row.id # w.row.about
    BY <1>1, <1>4, <2>1 DEF Consuming
  <2>3. w.row.about \in Int /\ w.row.about <= served'
    BY <1>1, <2>1 DEF Consuming
  <2> QED BY <1>1, <2>1, <2>2, <2>3 DEF Consuming
<1>7. ASSUME NEW q \in Workers, NEW w \in Held(q, Consumptions)'
      PROVE  /\ Changing(w, "csrf_tokens") => "is_used" \in DOMAIN w.row /\ w.row.is_used
             /\ w.on = "answers" =>
                   /\ w.op = "insert" /\ "kind" \in DOMAIN w.row
                   /\ w.row.kind = "csrf" => Consuming(q, w)'
  <2>1. CASE q = p
    BY <1>1, <1>5, <1>7, <2>1 DEF TokenBatch, AnswerOk, AnswerAlone
  <2>2. CASE q # p
    BY <1>1, <1>6, <1>7, <2>2 DEF CSRFInv
  <2> QED BY <2>1, <2>2
<1>8. ASSUME NEW b \in store'["answers"], b.kind = "csrf" PROVE Consumed(b)'
  <2>1. Consumed(b)
    BY <1>1, <1>8 DEF CSRFInv
  <2>2. \A x \in Workers : \A v \in Held(x, Consumptions)' :
            NewIn(v, "csrf_tokens") => v.row.id # b.about
    BY <1>1, <1>4, <2>1 DEF Consumed
  <2>3. b.about \in Int /\ b.about <= served'
    BY <1>1, <2>1 DEF Consumed
  <2> QED BY <1>1, <2>1, <2>2, <2>3 DEF Consumed
<1>9. AnsweredOnce("csrf")'
  BY <1>1 DEF CSRFInv, AnsweredOnce, Overlapped
<1> QED BY <1>3, <1>7, <1>8, <1>9 DEF CSRFInv

\* A token after a commit: new, or not made fresh again.
LEMMA CSRFAfter ==
    ASSUME TypeInv, CSRFInv, NEW p \in Workers, NEW batch, Gives(p, batch, Consumptions),
           NEW r \in store'["csrf_tokens"]
    PROVE  \/ \E w \in Held(p, Consumptions) : NewIn(w, "csrf_tokens") /\ r.id = w.row.id
           \/ \E s \in store["csrf_tokens"] :
                 /\ s.id = r.id
                 /\ \/ /\ r.is_used = s.is_used
                       /\ \A w \in batch : ~(Changing(w, "csrf_tokens") /\ w.row.id = r.id)
                    \/ r.is_used
<1>1. "csrf_tokens" \in Tables \ Keyed /\ Commits(batch)
  BY TablesAssumption DEF SessionTables, Keyed, Gives
<1>2. \A w \in batch : w.on = "csrf_tokens" => w \in Held(p, Consumptions)
  BY DEF Gives, On, Consumptions
<1>3. CASE Inserts(batch, "csrf_tokens", r)
  BY <1>2, <1>3 DEF Inserts, NewIn
<1>4. CASE \E s \in store["csrf_tokens"] : r = After("csrf_tokens", batch, s)
  <2>1. PICK s \in store["csrf_tokens"] : r = After("csrf_tokens", batch, s)
    BY <1>4
  <2>2. {"id", "born"} \subseteq DOMAIN s
    BY StoreTypes DEF CSRFToken
  <2>3. r.id = s.id /\ \/ r = s /\ Changes("csrf_tokens", batch, s) = {}
                       \/ Altered("csrf_tokens", batch, s, r)
    BY <1>1, <2>1, <2>2, AfterIs
  <2>4. CASE r = s /\ Changes("csrf_tokens", batch, s) = {}
    BY <2>3, <2>4 DEF Changes, Changing
  <2>5. CASE Altered("csrf_tokens", batch, s, r)
    <3>1. PICK w \in batch : /\ w.on = "csrf_tokens" /\ w.op \in {"update", "patch"}
                             /\ \A c \in DOMAIN w.row : r[c] = w.row[c]
      BY <2>5 DEF Altered
    <3>2. "is_used" \in DOMAIN w.row /\ w.row["is_used"]
      BY <1>2, <3>1 DEF CSRFInv, Changing
    <3>3. r["is_used"] = w.row["is_used"]
      BY <3>1, <3>2
    <3> QED BY <2>3, <3>2, <3>3
  <2> QED BY <2>3, <2>4, <2>5
<1> QED BY <1>1, <1>3, <1>4, CommitAfter

LEMMA CSRFGives ==
    ASSUME TypeInv, CSRFInv, NEW p \in Workers, NEW batch, Gives(p, batch, Consumptions),
           OnceInv(Consumptions)'
    PROVE  CSRFInv'
<1>1. /\ {"csrf_tokens", "answers"} \subseteq Tables \ Keyed
      /\ served' = served /\ served \in Nat /\ Commits(batch)
      /\ \A q \in Workers : Held(q, Consumptions)' \in {Held(q, Consumptions), {}}
      /\ \A w \in batch : w.on \in Consumptions =>
            w \in Held(p, Consumptions) /\ Held(p, Consumptions)' = {}
  BY TablesAssumption, StoreTypes
     DEF SessionTables, Keyed, Gives, Spent, Commits, On
<1>2. Solo("csrf_tokens", Consumptions)'
  BY <1>1, SoloGives DEF CSRFInv, Consumptions
\* An answer is new, or one that was there.
<1>3. ASSUME NEW a \in store'["answers"], a.kind = "csrf"
      PROVE  \/ a \in store["answers"]
             \/ \E w \in Held(p, Consumptions) :
                   /\ w.on = "answers" /\ Consuming(p, w) /\ w \in batch
                   /\ a = Overlay(w.row, [born |-> served])
                   /\ a.id = w.row.id /\ a.born = served /\ a.about = w.row.about
  <2>1. CASE Inserts(batch, "answers", a)
    <3>1. PICK w \in batch : /\ w.on = "answers"
                             /\ a = Overlay(w.row, [born |-> served])
                             /\ a.id = w.row.id /\ a.born = served
                             /\ \A c \in DOMAIN w.row : a[c] = w.row[c]
      BY <2>1 DEF Inserts
    <3>2. w \in Held(p, Consumptions)
      BY <1>1, <3>1 DEF Consumptions
    <3>3. w.row.kind = "csrf"
      BY <1>3, <3>1, <3>2 DEF CSRFInv
    <3>4. Consuming(p, w)
      BY <3>1, <3>2, <3>3 DEF CSRFInv
    <3>5. a.about = w.row.about
      BY <3>1, <3>4 DEF Consuming
    <3> QED BY <3>1, <3>2, <3>4, <3>5
  <2>2. CASE \E s \in store["answers"] : a = After("answers", batch, s)
    <3>1. \A s : Changes("answers", batch, s) = {}
      BY <1>1 DEF CSRFInv, Changes, Consumptions
    <3> QED BY <2>2, <3>1 DEF After
  <2> QED BY <1>1, <2>1, <2>2, CommitAfter
<1>4. ASSUME NEW a \in store'["answers"], a.kind = "csrf" PROVE Consumed(a)'
  <2>1. CASE a \in store["answers"]
    <3>1. Consumed(a)
      BY <1>4, <2>1 DEF CSRFInv
    <3>2. \A r \in store'["csrf_tokens"] : r.id = a.about => r.is_used
      BY <3>1, CSRFAfter DEF Consumed
    <3> QED BY <1>1, <3>1, <3>2 DEF Consumed
  <2>2. CASE \E w \in Held(p, Consumptions) :
                 w.on = "answers" /\ Consuming(p, w) /\ w \in batch /\ a.about = w.row.about
    <3>1. PICK w \in Held(p, Consumptions) :
              w.on = "answers" /\ Consuming(p, w) /\ w \in batch /\ a.about = w.row.about
      BY <2>2
    <3>2. Held(p, Consumptions) = On(batch, Consumptions)
      BY <3>1 DEF Gives, On, Consumptions
    <3>3. PICK x \in Held(p, Consumptions) :
              Changing(x, "csrf_tokens") /\ x.row.id = a.about
      BY <3>1 DEF Consuming
    <3>4. x \in batch
      BY <3>2 DEF On
    <3>5. \A r \in store'["csrf_tokens"] : r.id = a.about => r.is_used
      BY <3>1, <3>3, <3>4, CSRFAfter DEF Consuming
    <3> QED BY <1>1, <3>1, <3>5 DEF Consumed, Consuming
  <2> QED BY <1>3, <1>4, <2>1, <2>2
<1>5. ASSUME NEW q \in Workers, NEW w \in Held(q, Consumptions)', w.on = "answers",
             w.row.kind = "csrf"
      PROVE  Consuming(q, w)'
  <2>1. w \in Held(q, Consumptions) /\ Held(q, Consumptions)' = Held(q, Consumptions)
    BY <1>1
  <2>2. Consuming(q, w) /\ w.op = "insert"
    BY <1>5, <2>1 DEF CSRFInv
  <2>3. w.row.id <= served
    BY <1>1, <1>5, <2>1, <2>2, NewNumber DEF NewIn
  <2>4. \A a \in store'["answers"] :
            a.kind = "csrf" /\ a.about = w.row.about => w.row.id <= a.born
    BY <1>3, <2>2, <2>3 DEF Consuming
  <2> QED BY <1>1, <2>1, <2>2, <2>4 DEF Consuming
<1>6. \A q \in Workers : \A w \in Held(q, Consumptions)' :
          /\ Changing(w, "csrf_tokens") => "is_used" \in DOMAIN w.row /\ w.row.is_used
          /\ w.on = "answers" => w.op = "insert" /\ "kind" \in DOMAIN w.row
  BY <1>1 DEF CSRFInv
<1>7. AnsweredOnce("csrf")'
  <2>1. \A a \in store["answers"] : a.id \in Int /\ a.id <= served
    BY <1>1, RowNumbers
  <2>2. ASSUME NEW a \in store["answers"], a.kind = "csrf", NEW w, Consuming(p, w),
               a.about = w.row.about
        PROVE  w.row.id <= a.born
    BY <2>2 DEF Consuming
  <2>3. ASSUME NEW w \in Held(p, Consumptions), NEW v \in Held(p, Consumptions),
               Consuming(p, v), v.on = "answers", w.on = "answers"
        PROVE  v = w
    BY <2>3 DEF Consuming
  <2> HIDE DEF Consuming
  <2>4. ASSUME NEW a \in store'["answers"], NEW b \in store'["answers"],
               a.kind = "csrf", b.kind = "csrf", a # b, a.about = b.about
        PROVE  a.id <= b.born /\ b.id <= a.born
    <3>1. CASE a \in store["answers"] /\ b \in store["answers"]
      BY <2>4, <3>1 DEF CSRFInv, AnsweredOnce, Overlapped
    <3>2. CASE a \in store["answers"] /\ b \notin store["answers"]
      BY <1>3, <2>1, <2>2, <2>4, <3>2
    <3>3. CASE a \notin store["answers"] /\ b \in store["answers"]
      BY <1>3, <2>1, <2>2, <2>4, <3>3
    <3>4. CASE a \notin store["answers"] /\ b \notin store["answers"]
      BY <1>3, <2>3, <2>4, <3>4
    <3> QED BY <3>1, <3>2, <3>3, <3>4
  <2> QED BY <2>4 DEF AnsweredOnce, Overlapped
<1> QED BY <1>2, <1>4, <1>5, <1>6, <1>7 DEF CSRFInv

LEMMA CSRFTime ==
    ASSUME TypeInv, CSRFInv, Clock, OnceInv(Consumptions)',
           \A p \in Workers : Held(p, Consumptions)' = Held(p, Consumptions)
    PROVE  CSRFInv'
<1>1. served' = served /\ store'["answers"] = store["answers"]
  BY ClockSteps, TablesAssumption DEF SessionTables
<1>2. CASE store'["csrf_tokens"] = store["csrf_tokens"]
  <2>1. Rests(Consumptions)
    BY <1>1, <1>2 DEF Rests, Spent, Consumptions
  <2> QED BY <2>1, CSRFRests
<1>3. CASE \E r \in store["csrf_tokens"] :
               store'["csrf_tokens"] = (store["csrf_tokens"] \ {r}) \cup {[r EXCEPT !.expired = TRUE]}
  <2>1. PICK r \in store["csrf_tokens"] :
               store'["csrf_tokens"] = (store["csrf_tokens"] \ {r}) \cup {[r EXCEPT !.expired = TRUE]}
    BY <1>3
  <2> DEFINE x == [r EXCEPT !.expired = TRUE]
  <2>2. x.id = r.id /\ x.is_used = r.is_used
    BY StoreTypes DEF CSRFToken
  <2> HIDE DEF x
  <2>3. Solo("csrf_tokens", Consumptions)'
    BY <2>1, <2>2, SoloTime DEF CSRFInv, x
  <2>4. \A y \in store'["csrf_tokens"] :
            \E s \in store["csrf_tokens"] : s.id = y.id /\ s.is_used = y.is_used
    BY <2>1, <2>2 DEF x
  <2>5. ASSUME NEW p \in Workers, NEW w \in Held(p, Consumptions)'
        PROVE  /\ Changing(w, "csrf_tokens") => "is_used" \in DOMAIN w.row /\ w.row.is_used
               /\ w.on = "answers" =>
                     /\ w.op = "insert" /\ "kind" \in DOMAIN w.row
                     /\ w.row.kind = "csrf" => Consuming(p, w)'
    <3>1. w \in Held(p, Consumptions)
      OBVIOUS
    <3>2. Consuming(p, w) => Consuming(p, w)'
      BY <1>1 DEF Consuming
    <3> QED BY <3>1, <3>2 DEF CSRFInv
  <2>6. \A a \in store'["answers"] : a.kind = "csrf" => Consumed(a)'
    BY <1>1, <2>4 DEF CSRFInv, Consumed
  <2>7. AnsweredOnce("csrf")'
    BY <1>1 DEF CSRFInv, AnsweredOnce, Overlapped
  <2> QED BY <2>3, <2>5, <2>6, <2>7 DEF CSRFInv
<1> QED BY <1>2, <1>3, TimeExpires

LEMMA CSRFInit ==
    ASSUME Init
    PROVE  CSRFInv
<1>1. OnceInv(Consumptions) /\ \A p \in Workers : Held(p, Consumptions) = {}
  BY OnceAtFirst
<1>2. "csrf_tokens" \in Tables /\ "answers" \in Tables
  BY TablesAssumption DEF SessionTables
<1>3. store["answers"] = {} /\ store["csrf_tokens"] = {}
  <2>1. \A f \in DOMAIN Seeded : "answers" \notin Seeded[f] /\ "csrf_tokens" \notin Seeded[f]
    BY DEF Seeded
  <2> QED BY <1>2, <2>1, EmptyAtFirst
<1> QED BY <1>1, <1>3 DEF CSRFInv, AnsweredOnce, Solo

LEMMA CSRFNext ==
    ASSUME TypeInv, CSRFInv, [Next]_vars
    PROVE  CSRFInv'
<1>1. Consumptions \subseteq Tables /\ Consumptions \cap LaterWrites = {}
      /\ Consumptions \subseteq Tokens
  BY TablesAssumption DEF SessionTables, LaterWrites, Consumptions, Tokens
<1>2. OnceInv(Consumptions)
  BY DEF CSRFInv
<1>3. ASSUME NEW p \in Workers, Request(p) PROVE CSRFInv'
  BY <1>1, <1>2, <1>3, TokenRequest, CSRFRests, CSRFTakes
<1> QED BY <1>1, <1>2, <1>3, HeldSteps, CSRFRests, CSRFGives, CSRFTime

\* Whichever requests spend a CSRF token, in whichever order they commit, it
\* is used from the first commit on.
THEOREM ConsumptionsHold == Spec => []CSRFInv
<1>1. Init => CSRFInv
  BY CSRFInit
<1>2. TypeInv /\ CSRFInv /\ [Next]_vars => CSRFInv'
  BY CSRFNext
<1> QED BY <1>1, <1>2, TypesHold, PTL DEF Spec

\* A refresh token is answered once, and so is a consuming verification of a
\* CSRF token, but by requests that were in flight together.
THEOREM TokensAnsweredOnce == Spec => []TokensUsedOnce
<1>1. RefreshInv /\ CSRFInv => TokensUsedOnce
  BY DEF RefreshInv, CSRFInv, AnsweredOnce, TokensUsedOnce
<1> QED BY <1>1, RefreshesHold, ConsumptionsHold, PTL

-----------------------------------------------------------------------------
(* Groups and who is in them.                                               *)

Entries == {"groups", "group_members", "blocks"}

\* The groups there are, and those a request is about to create.
Known == store["groups"] \cup {v.row : v \in {v \in UNION Open : NewIn(v, "groups")}}

\* Two readings of one group agree on what is never changed of it.
Same(g, h) == g.id = h.id /\ g.type = h.type /\ g.created_by = h.created_by
Kin(g, h) == g.id = h.id => Same(g, h)

Fits(m, g) ==
    m.group = g.id =>
        /\ g.type = "private" => m.user = g.created_by \/ m.invited_by # None
        /\ g.type = "anonymous" => m.alias

\* A member fits every group it may turn out to be of, and was not invited
\* past a block that was there when the invitation began.
EntryOk(m) ==
    /\ m.group \in Int /\ m.group <= served /\ m.since \in Int /\ m.since <= served
    /\ \A g \in Known : Fits(m, g)
    /\ m.invited_by # None =>
          \A b \in Between("blocks", m.user, m.invited_by) : m.since <= b.born

EntryColumns == {"group", "user", "alias", "invited_by", "since"}

\* How a member came in and what kind of group it is never change, but that
\* an alias may be given.
GroupFits(batch) ==
    \A w \in batch :
        /\ NewIn(w, "group_members") => EntryColumns \subseteq DOMAIN w.row /\ EntryOk(w.row)
        /\ Changing(w, "group_members") =>
              /\ (EntryColumns \ {"alias"}) \cap DOMAIN w.row = {}
              /\ "alias" \in DOMAIN w.row => w.row.alias
        /\ NewIn(w, "groups") => {"type", "created_by"} \subseteq DOMAIN w.row
        /\ Changing(w, "groups") => {"type", "created_by"} \cap DOMAIN w.row = {}

GroupsInv ==
    /\ \A g, h \in Known : Kin(g, h)
    /\ \A m \in store["group_members"] : EntryOk(m)
    /\ \A batch \in Open : GroupFits(batch)

LEMMA EntryTables ==
    ASSUME TypeInv
    PROVE  /\ Entries \subseteq Tables /\ Entries \cap LaterWrites = {} /\ Entries \cap Timed = {}
           /\ "blocks" \in Tables \ Keyed /\ "groups" \in Tables \ Keyed
           /\ served \in Nat /\ served \in Int /\ Self \in Int /\ served <= Self
           /\ \A g \in store["groups"] : {"id", "born", "type", "created_by"} \subseteq DOMAIN g
                                         /\ g.id \in Int /\ g.id <= served
           /\ \A m \in store["group_members"] : {"id", "born"} \cup EntryColumns \subseteq DOMAIN m
                                                /\ m.alias \in BOOLEAN
<1>1. Entries \subseteq Tables
  BY TablesAssumption DEF Entries, RelationTables, GroupTables
<1>2. served \in Nat /\ \A t \in Tables \ Keyed : Numbered(t)
  BY DEF TypeInv, UnitInv
<1>3. "blocks" \in Tables \ Keyed /\ "groups" \in Tables \ Keyed
  BY <1>1 DEF Entries, Keyed
<1>4. \A g \in store["groups"] : {"id", "born", "type", "created_by"} \subseteq DOMAIN g
  BY StoreTypes DEF Group
<1>5. \A g \in store["groups"] : g.id \in Int /\ g.id <= served
  BY <1>2, <1>3 DEF Numbered
<1>6. \A m \in store["group_members"] : {"id", "born"} \cup EntryColumns \subseteq DOMAIN m
                                        /\ m.alias \in BOOLEAN
  BY StoreTypes DEF GroupMember, EntryColumns
<1> QED BY <1>1, <1>2, <1>3, <1>4, <1>5, <1>6 DEF Entries, LaterWrites, Timed, Self

LEMMA GroupsSpared == \A batch : On(batch, Entries) = {} => GroupFits(batch)
BY DEF On, GroupFits, NewIn, Changing, Entries

\* A member that was right stays right: a group it did not know of has a
\* later number, and a block it did not know of is born later.
LEMMA EntryKept ==
    ASSUME served \in Int, served' \in {served, Self},
           \A g \in Known' : g.id = Self \/ \E h \in Known : Same(g, h),
           \A b \in store'["blocks"] : b.born = served
                \/ \E c \in store["blocks"] : b.from = c.from /\ b.to = c.to /\ b.born = c.born,
           NEW m, EntryOk(m)
    PROVE  EntryOk(m)'
<1>1. /\ m.group \in Int /\ m.group <= served' /\ m.since \in Int /\ m.since <= served'
      /\ m.group # Self
  BY DEF EntryOk, Self
<1>2. ASSUME NEW g \in Known' PROVE Fits(m, g)
  <2>1. CASE g.id = Self
    BY <1>1, <2>1 DEF Fits
  <2>2. CASE \E h \in Known : Same(g, h)
    BY <2>2 DEF EntryOk, Fits, Same
  <2> QED BY <1>2, <2>1, <2>2
<1>3. ASSUME m.invited_by # None, NEW b \in store'["blocks"],
             {b.from, b.to} = {m.user, m.invited_by}
      PROVE  m.since <= b.born
  <2>1. CASE b.born = served
    BY <2>1 DEF EntryOk
  <2>2. CASE \E c \in store["blocks"] : b.from = c.from /\ b.to = c.to /\ b.born = c.born
    <3>1. PICK c \in store["blocks"] : b.from = c.from /\ b.to = c.to /\ b.born = c.born
      BY <2>2
    <3>2. c \in Between("blocks", m.user, m.invited_by)
      BY <1>3, <3>1 DEF Between
    <3> QED BY <1>3, <3>1, <3>2 DEF EntryOk
  <2> QED BY <2>1, <2>2
<1>4. m.invited_by # None =>
          \A b \in Between("blocks", m.user, m.invited_by)' : m.since <= b.born
  BY <1>3 DEF Between
<1> QED BY <1>1, <1>2, <1>4 DEF EntryOk

LEMMA GroupsQuiet ==
    ASSUME TypeInv, GroupsInv, Quiet(Entries)
    PROVE  GroupsInv'
<1>1. /\ store'["groups"] = store["groups"] /\ store'["group_members"] = store["group_members"]
      /\ store'["blocks"] = store["blocks"] /\ served' \in {served, Self}
  BY DEF Quiet, Entries
<1>2. ASSUME NEW b \in Open'
      PROVE  \E a \in Open \cup {{}} : /\ GroupFits(a)
                                       /\ \A w : w.on \in Entries => (w \in b <=> w \in a)
  <2>1. PICK a \in Open \cup {{}} : On(b, Entries) = On(a, Entries)
    BY <1>2 DEF Quiet
  <2>2. GroupFits(a)
    BY <2>1, GroupsSpared DEF GroupsInv, On
  <2>3. \A w : w.on \in Entries => (w \in b <=> w \in a)
    BY <2>1 DEF On
  <2> QED BY <2>1, <2>2, <2>3
<1>3. Known' \subseteq Known
  <2> SUFFICES ASSUME NEW b \in Open', NEW v \in b, NewIn(v, "groups")
               PROVE  v.row \in Known
    BY <1>1 DEF Known
  <2>1. v.on \in Entries
    BY DEF NewIn, Entries
  <2> QED BY <1>2, <2>1 DEF Known
<1>4. \A m : EntryOk(m) => EntryOk(m)'
  BY <1>1, <1>3, EntryKept, EntryTables DEF Same
<1>5. ASSUME NEW b \in Open' PROVE GroupFits(b)'
  <2>1. PICK a \in Open \cup {{}} : /\ GroupFits(a)
                                    /\ \A w : w.on \in Entries => (w \in b <=> w \in a)
    BY <1>2
  <2>2. \A w \in b : w.on \in {"groups", "group_members"} => w \in a
    BY <2>1 DEF Entries
  <2> QED BY <1>4, <2>1, <2>2 DEF GroupFits, NewIn, Changing
<1> QED BY <1>1, <1>3, <1>4, <1>5 DEF GroupsInv

\* What a request may open: what it creates has its own number, and its
\* members fit the groups there are and those it creates.
NewGroups(a) == {v.row : v \in {v \in a : NewIn(v, "groups")}}

GroupFirst(a) ==
    /\ \A g, h \in NewGroups(a) : Kin(g, h)
    /\ \A w \in a :
        /\ NewIn(w, "group_members") =>
              /\ EntryColumns \subseteq DOMAIN w.row
              /\ w.row.group \in Int /\ w.row.group <= Self
              /\ w.row.since \in Int /\ w.row.since <= Self
              /\ \A g \in Known \cup NewGroups(a) : Fits(w.row, g)
              /\ w.row.invited_by # None =>
                    \A b \in Between("blocks", w.row.user, w.row.invited_by) :
                        w.row.since <= b.born
        /\ Changing(w, "group_members") =>
              /\ (EntryColumns \ {"alias"}) \cap DOMAIN w.row = {}
              /\ "alias" \in DOMAIN w.row => w.row.alias
        /\ NewIn(w, "groups") => {"type", "created_by"} \subseteq DOMAIN w.row /\ w.row.id = Self
        /\ Changing(w, "groups") => {"type", "created_by"} \cap DOMAIN w.row = {}

LEMMA KnownNumbers ==
    ASSUME TypeInv, NEW g \in Known
    PROVE  g.id \in Int /\ g.id <= served
<1>1. ASSUME NEW b \in Open, NEW v \in b, NewIn(v, "groups")
      PROVE  v.row.id \in Int /\ v.row.id <= served
  <2>1. Sound(v, served)
    BY DEF TypeInv, Ok
  <2> QED BY <1>1, <2>1, EntryTables DEF Sound, NewIn
<1> QED BY <1>1, EntryTables DEF Known

LEMMA GroupsAdd ==
    ASSUME TypeInv, GroupsInv, NEW a, Adds(a, Entries), GroupFirst(a)
    PROVE  GroupsInv'
<1>1. store' = store /\ served' = Self /\ served \in Int /\ Self = served + 1
  BY EntryTables DEF Adds, Self
<1>2. Known' \subseteq Known \cup NewGroups(a)
  <2> SUFFICES ASSUME NEW b \in Open', NEW v \in b, NewIn(v, "groups")
               PROVE  v.row \in Known \cup NewGroups(a)
    BY <1>1 DEF Known
  <2>1. v.on \in Entries
    BY DEF NewIn, Entries
  <2>2. b \in Open \/ b = a
    BY <2>1 DEF Adds, On
  <2> QED BY <2>2 DEF Known, NewGroups
<1>3. \A g \in NewGroups(a) : g.id = Self
  BY DEF NewGroups, GroupFirst
<1>4. \A g, h \in Known' : Kin(g, h)
  <2> SUFFICES ASSUME NEW g \in Known', NEW h \in Known' PROVE Kin(g, h)
    OBVIOUS
  <2>1. CASE g \in Known /\ h \in Known
    BY <2>1 DEF GroupsInv
  <2>2. CASE g \in NewGroups(a) /\ h \in NewGroups(a)
    BY <2>2 DEF GroupFirst
  <2>3. ASSUME NEW x \in Known, NEW y \in NewGroups(a) PROVE x.id # y.id
    BY <1>1, <1>3, KnownNumbers
  <2>4. CASE g \in Known /\ h \in NewGroups(a)
    BY <2>3, <2>4 DEF Kin
  <2>5. CASE h \in Known /\ g \in NewGroups(a)
    BY <2>3, <2>5 DEF Kin
  <2> QED BY <1>2, <2>1, <2>2, <2>4, <2>5
<1>5. \A m : EntryOk(m) => EntryOk(m)'
  <2>1. \A g \in Known' : g.id = Self \/ \E h \in Known : Same(g, h)
    BY <1>2, <1>3 DEF Same
  <2> QED BY <1>1, <2>1, EntryKept
<1>6. GroupFits(a)'
  <2>1. ASSUME NEW w \in a, NewIn(w, "group_members")
        PROVE  EntryOk(w.row)'
    <3>1. Between("blocks", w.row.user, w.row.invited_by)'
             = Between("blocks", w.row.user, w.row.invited_by)
      BY <1>1 DEF Between
    <3> QED BY <1>1, <1>2, <2>1, <3>1 DEF EntryOk, GroupFirst
  <2> QED BY <2>1 DEF GroupFits, GroupFirst
<1>7. ASSUME NEW b \in Open' PROVE GroupFits(b)'
  <2>1. CASE b \in Open
    <3>1. GroupFits(b)
      BY <2>1 DEF GroupsInv
    <3> QED BY <1>5, <3>1 DEF GroupFits
  <2>2. CASE On(b, Entries) = {}
    <3>1. \A w \in b : w.on \notin Entries
      BY <2>2 DEF On
    <3> QED BY <3>1 DEF GroupFits, NewIn, Changing, Entries
  <2> QED BY <1>6, <1>7, <2>1, <2>2 DEF Adds
<1> QED BY <1>1, <1>4, <1>5, <1>7 DEF GroupsInv

LEMMA GroupsCommit ==
    ASSUME TypeInv, PairsInv, GroupsInv, NEW batch, Commits(batch)
    PROVE  GroupsInv'
<1>1. /\ batch \in Open /\ Open' \subseteq Open /\ GroupFits(batch) /\ served' = served
      /\ served \in Int /\ "blocks" \in Pairs /\ PairOk(batch)
  BY EntryTables DEF Commits, GroupsInv, PairsInv, Pairs
<1>2. ASSUME NEW b \in store'["blocks"]
      PROVE  b.born = served
                \/ \E c \in store["blocks"] : b.from = c.from /\ b.to = c.to /\ b.born = c.born
  BY <1>1, PairRows
<1>3. ASSUME NEW g \in store'["groups"] PROVE \E h \in Known : Same(g, h)
  <2>1. CASE Inserted(batch, "groups", g)
    <3>1. PICK w \in batch : /\ NewIn(w, "groups") /\ g.id = w.row.id
                             /\ \A c \in DOMAIN w.row : g[c] = w.row[c]
      BY <2>1 DEF Inserted, NewIn
    <3>2. w.row \in Known
      BY <1>1, <3>1 DEF Known
    <3>3. "type" \in DOMAIN w.row /\ "created_by" \in DOMAIN w.row
      BY <1>1, <3>1 DEF GroupFits
    <3> QED BY <3>1, <3>2, <3>3 DEF Same
  <2>2. CASE Spared(batch, "groups", g)
    BY <2>2 DEF Spared, Known, Same
  <2>3. CASE Changed(batch, "groups", g)
    <3>1. PICK s \in store["groups"], w \in batch :
              /\ Changing(w, "groups") /\ g.id = s.id
              /\ \A c \in DOMAIN s \ DOMAIN w.row : g[c] = s[c]
      BY <2>3 DEF Changed, Changing
    <3>2. {"type", "created_by"} \subseteq DOMAIN s \ DOMAIN w.row
      BY <1>1, <3>1, EntryTables DEF GroupFits
    <3>3. g.type = s.type /\ g.created_by = s.created_by /\ s \in Known
      BY <3>1, <3>2 DEF Known
    <3> QED BY <3>1, <3>3 DEF Same
  <2> QED BY <1>3, <2>1, <2>2, <2>3, CommitRows, EntryTables
<1>4. ASSUME NEW g \in Known' PROVE \E h \in Known : Same(g, h)
  <2>1. CASE g \in store'["groups"]
    BY <1>3, <2>1
  <2>2. CASE \E b \in Open' : \E v \in b : NewIn(v, "groups") /\ g = v.row
    BY <1>1, <2>2 DEF Known, Same
  <2> QED BY <1>4, <2>1, <2>2 DEF Known
<1>5. \A m : EntryOk(m) => EntryOk(m)'
  BY <1>1, <1>2, <1>4, EntryKept
<1>6. \A g, h \in Known' : Kin(g, h)
  <2> SUFFICES ASSUME NEW g \in Known', NEW h \in Known', g.id = h.id PROVE Same(g, h)
    BY DEF Kin
  <2>1. PICK x \in Known : Same(g, x)
    BY <1>4
  <2>2. PICK y \in Known : Same(h, y)
    BY <1>4
  <2>3. Kin(x, y)
    BY DEF GroupsInv
  <2> QED BY <2>1, <2>2, <2>3 DEF Kin, Same
<1>7. ASSUME NEW m \in store'["group_members"] PROVE EntryOk(m)
  <2>1. ASSUME NEW x, EntryOk(x), m.group = x.group, m.user = x.user, m.since = x.since,
               m.invited_by = x.invited_by, x.alias => m.alias
        PROVE  EntryOk(m)
    BY <2>1 DEF EntryOk, Fits
  <2>2. CASE Inserts(batch, "group_members", m)
    <3>1. PICK w \in batch : NewIn(w, "group_members") /\ \A c \in DOMAIN w.row : m[c] = w.row[c]
      BY <2>2 DEF Inserts, NewIn
    <3>2. EntryOk(w.row) /\ {"group", "user", "alias", "invited_by", "since"} \subseteq DOMAIN w.row
      BY <1>1, <3>1 DEF GroupFits, EntryColumns
    <3>3. /\ m.group = w.row.group /\ m.user = w.row.user /\ m.since = w.row.since
          /\ m.invited_by = w.row.invited_by /\ m["alias"] = w.row["alias"]
      BY <3>1, <3>2
    <3> QED BY <2>1, <3>2, <3>3
  <2>3. CASE \E s \in store["group_members"] :
                 s.id \notin Gone("group_members", batch) /\ m = After("group_members", batch, s)
    <3>1. PICK s \in store["group_members"] : m = After("group_members", batch, s)
      BY <2>3
    <3>2. m = s \/ Altered("group_members", batch, s, m)
      BY <3>1, AfterIs, EntryTables
    <3>3. EntryOk(s)
      BY DEF GroupsInv
    <3>4. CASE Altered("group_members", batch, s, m)
      <4>1. PICK w \in batch : /\ Changing(w, "group_members")
                               /\ \A c \in DOMAIN s \ DOMAIN w.row : m[c] = s[c]
                               /\ \A c \in DOMAIN w.row : m[c] = w.row[c]
        BY <3>4 DEF Altered, Changing
      <4>2. {"group", "user", "invited_by", "since"} \subseteq DOMAIN s \ DOMAIN w.row
        BY <1>1, <4>1, EntryTables DEF GroupFits, EntryColumns
      <4>3. m["alias"] = s["alias"] \/ (m["alias"] = w.row["alias"] /\ w.row["alias"])
        BY <1>1, <4>1, EntryTables DEF GroupFits, EntryColumns
      <4>4. /\ m.group = s.group /\ m.user = s.user /\ m.since = s.since
            /\ m.invited_by = s.invited_by
        BY <4>1, <4>2
      <4> QED BY <2>1, <3>3, <4>3, <4>4
    <3> QED BY <3>2, <3>3, <3>4
  <2> QED BY <1>7, <2>2, <2>3, CommitAfter, EntryTables DEF Entries
<1>8. ASSUME NEW b \in Open' PROVE GroupFits(b)'
  <2>1. GroupFits(b)
    BY <1>1 DEF GroupsInv
  <2> QED BY <1>5, <2>1 DEF GroupFits
<1> QED BY <1>5, <1>6, <1>7, <1>8 DEF GroupsInv

LEMMA NewMemberRow ==
    ASSUME NEW g, NEW u, NEW role, NEW status, NEW inviter
    PROVE  LET w == NewMember(g, u, role, status, inviter)
           IN  /\ w.on = "group_members" /\ w.op = "insert" /\ EntryColumns \subseteq DOMAIN w.row
               /\ w.row.group = g.id /\ w.row.since = Self /\ w.row.user = u
               /\ w.row.invited_by = inviter
               /\ w.row.alias <=> g.type = "anonymous"
BY DEF NewMember, InsertUnique, EntryColumns

\* A member of a group there is, who was invited or entered one that is not
\* private.
LEMMA EntersKnown ==
    ASSUME TypeInv, GroupsInv, NEW g \in store["groups"], NEW u, NEW role, NEW status, NEW inviter,
           g.type # "private" \/ inviter # None,
           inviter # None => Between("blocks", u, inviter) = {}
    PROVE  GroupFirst({NewMember(g, u, role, status, inviter)})
<1> DEFINE w == NewMember(g, u, role, status, inviter)
<1>1. /\ w.on = "group_members" /\ w.op = "insert" /\ EntryColumns \subseteq DOMAIN w.row
      /\ w.row.group = g.id /\ w.row.since = Self /\ w.row.user = u
      /\ w.row.invited_by = inviter /\ (w.row.alias <=> g.type = "anonymous")
  BY NewMemberRow
<1> HIDE DEF w
<1>2. g \in Known /\ \A h \in Known : Kin(h, g)
  BY DEF Known, GroupsInv
<1>3. g.id \in Int /\ g.id <= Self /\ Self \in Int /\ Self <= Self
  BY EntryTables DEF Self
<1>4. \A h \in Known : Fits(w.row, h)
  <2> SUFFICES ASSUME NEW h \in Known, h.id = g.id PROVE Fits(w.row, h)
    BY <1>1 DEF Fits
  <2>1. h.type = g.type
    BY <1>2 DEF Kin, Same
  <2> QED BY <1>1, <2>1 DEF Fits
<1>5. NewGroups({w}) = {}
  BY <1>1 DEF NewGroups, NewIn
<1>6. GroupFirst({w})
  BY <1>1, <1>3, <1>4, <1>5 DEF GroupFirst, NewIn, Changing
<1> QED BY <1>6 DEF w

LEMMA GroupsMembers ==
    ASSUME TypeInv, GroupsInv, NEW p \in Workers, MemberRoutes(p), Opens(p, MemberWrites)
    PROVE  GroupsInv'
<1>0. Entries \cap LaterWrites = {}
  BY EntryTables
<1>1. ASSUME NEW a, GroupFirst(a), Begin(p, <<a>>) PROVE GroupsInv'
  BY <1>1, AddsOne, GroupsAdd
<1>2. CASE create_new_group(p)
  <2>1. PICK u \in Users, type \in GroupType, announcing \in BOOLEAN :
            create_group(p, u, type, announcing)
    BY <1>2 DEF create_new_group
  <2> DEFINE g == [id |-> Self, type |-> type, created_by |-> u, announcement_only |-> announcing,
                   verification |-> None]
             x == Insert("groups", g)
             w == NewMember(g, u, "admin", "active", None)
  <2>2. Begin(p, <<{x, w}>>)
    BY <2>1 DEF create_group
  <2>3. /\ x.on = "groups" /\ x.op = "insert" /\ x.row = g
        /\ {"type", "created_by"} \subseteq DOMAIN g /\ g.id = Self /\ g.type = type
        /\ g.created_by = u
    BY DEF Insert
  <2>4. /\ w.on = "group_members" /\ w.op = "insert" /\ EntryColumns \subseteq DOMAIN w.row
        /\ w.row.group = g.id /\ w.row.since = Self /\ w.row.user = u
        /\ w.row.invited_by = None /\ (w.row.alias <=> g.type = "anonymous")
    BY NewMemberRow
  <2> HIDE DEF g, x, w
  <2>5. NewGroups({x, w}) = {g}
    BY <2>3, <2>4 DEF NewGroups, NewIn
  <2>6. \A h \in Known : h.id # Self
    BY KnownNumbers, EntryTables DEF Self
  <2>7. \A h \in Known \cup {g} : Fits(w.row, h)
    BY <2>3, <2>4, <2>6 DEF Fits
  <2>8. Self \in Int /\ Self <= Self
    BY EntryTables
  <2>9. GroupFirst({x, w})
    BY <2>3, <2>4, <2>5, <2>7, <2>8 DEF GroupFirst, NewIn, Changing, Kin, Same
  <2> QED BY <1>1, <2>2, <2>9
<1>3. CASE join_existing_group(p)
  <2>1. PICK u \in Users, g \in store["groups"] : join_group(p, u, g)
    BY <1>3 DEF join_existing_group
  <2>2. CASE g.type # "private" /\ Begin(p, << {NewMember(g, u, "member", "active", None)} >>)
    BY <1>1, <2>2, EntersKnown
  <2>3. ASSUME NEW m \in store["group_members"],
               Begin(p, << Edit("group_members", m, [status |-> "active",
                                                     alias |-> m.alias \/ g.type = "anonymous"]) >>)
        PROVE  GroupsInv'
    <3> DEFINE cols == [status |-> "active", alias |-> m.alias \/ g.type = "anonymous"]
    <3>1. /\ DOMAIN cols = {"status", "alias"} /\ m["alias"] \in BOOLEAN
          /\ cols["alias"] = (m["alias"] \/ g.type = "anonymous")
      BY EntryTables
    <3> HIDE DEF cols
    <3>2. ASSUME NEW w \in Edit("group_members", m, cols)
          PROVE  /\ w.on = "group_members" /\ w.op = "update"
                 /\ DOMAIN w.row \subseteq {"id", "status", "alias"}
                 /\ "alias" \in DOMAIN w.row => w.row["alias"]
      <4> DEFINE changed == {c \in DOMAIN cols : cols[c] # m[c]}
                 set == [c \in changed |-> cols[c]]
      <4>1. w = Update("group_members", m.id, set)
        BY DEF Edit
      <4>2. DOMAIN set = changed /\ changed \subseteq {"status", "alias"}
        BY <3>1
      <4>3. "alias" \in changed => set["alias"] = cols["alias"] /\ cols["alias"] # m["alias"]
        OBVIOUS
      <4> HIDE DEF changed, set
      <4>4. /\ w.on = "group_members" /\ w.op = "update"
            /\ DOMAIN w.row = {"id"} \cup changed
            /\ \A c \in changed : w.row[c] = set[c]
        BY <4>1, <4>2, UpdateWrites
      <4>5. "alias" \in changed => w.row["alias"] = cols["alias"] /\ cols["alias"] # m["alias"]
        BY <4>3, <4>4
      <4>6. "alias" \in DOMAIN w.row => w.row["alias"] = TRUE
        BY <3>1, <4>4, <4>5
      <4> QED BY <4>2, <4>4, <4>6
    <3>3. \A w \in Edit("group_members", m, cols) : "alias" \in DOMAIN w.row => w.row.alias
      BY <3>2
    <3>4. NewGroups(Edit("group_members", m, cols)) = {}
      BY <3>2 DEF NewGroups, NewIn
    <3>5. GroupFirst(Edit("group_members", m, cols))
      BY <3>2, <3>3, <3>4 DEF GroupFirst, NewIn, Changing, EntryColumns
    <3> QED BY <1>1, <2>3, <3>5 DEF cols
  <2> QED BY <2>1, <2>2, <2>3 DEF join_group, Membership
<1>4. CASE leave_existing_group(p)
  <2>1. \A rows : GroupFirst(DeleteAll("group_members", rows))
    BY DEF GroupFirst, NewGroups, NewIn, Changing, DeleteAll, Delete
  <2> QED BY <1>1, <1>4, <2>1 DEF leave_existing_group, leave_group
<1>5. CASE invite_group_user(p)
  <2>1. PICK u \in Users, w \in Users, g \in store["groups"] : invite_user(p, u, g, w)
    BY <1>5 DEF invite_group_user
  <2> DEFINE status == IF g.type = "private" THEN "invited" ELSE "active"
             a == {NewMember(g, w, "member", status, u)}
  <2>2. Begin(p, <<a>> \o create_notification(w, "group_invite", u)) /\ ~are_blocked(u, w)
    BY <2>1 DEF invite_user
  <2>3. u # None /\ Between("blocks", w, u) = {}
    BY <2>2, UsersAssumption DEF are_blocked, Between
  <2>4. GroupFirst(a)
    BY <2>3, EntersKnown
  <2> HIDE DEF a
  <2>5. Adds(a, Entries)
    BY <1>0, <2>2, AddsLead, SparesTail
  <2> QED BY <2>4, <2>5, GroupsAdd
<1> QED BY <1>2, <1>3, <1>4, <1>5 DEF MemberRoutes

LEMMA GroupsOther ==
    ASSUME NEW a, \A x \in a : x.on \notin {"groups", "group_members"}
    PROVE  GroupFirst(a)
BY DEF GroupFirst, NewGroups, NewIn, Changing

LEMMA GroupsGroups ==
    ASSUME TypeInv, GroupsInv, NEW p \in Workers, GroupRoutes(p), Opens(p, GroupWrites)
    PROVE  GroupsInv'
<1>1. PICK a : GroupBatch(a) /\ Begin(p, <<a>>)
  BY GroupLeads
<1>2. ASSUME GroupMessageBatch(a) PROVE GroupFirst(a)
  <2>1. PICK findings, u, g :
            a = ({Insert("group_messages", [id |-> Self, group |-> g.id, sender |-> u])}
                 \cup analyze_content(findings)) \cup _refresh_user_moderation(u)
    BY <1>2 DEF GroupMessageBatch
  <2>2. \A x \in analyze_content(findings) : x.on = "ai_results"
    BY DEF analyze_content, Insert
  <2>3. \A x \in _refresh_user_moderation(u) : x.on = "users"
    BY LiftWrites
  <2>4. Insert("group_messages", [id |-> Self, group |-> g.id, sender |-> u]).on = "group_messages"
    BY DEF Insert
  <2>5. \A x \in a : x.on \notin {"groups", "group_members"}
    BY <2>1, <2>2, <2>3, <2>4
  <2> QED BY <2>5, GroupsOther
<1>3. ASSUME GroupEditBatch(a) PROVE GroupFirst(a)
  <2>1. PICK cols, g : /\ DOMAIN cols \in {{"announcement_only"}, {"verification"}}
                       /\ a = Edit("groups", g, cols)
    BY <1>3 DEF GroupEditBatch
  <2>2. \A x \in a : /\ x.on = "groups" /\ x.op = "update"
                     /\ DOMAIN x.row \subseteq {"id", "announcement_only", "verification"}
    BY <2>1, EditWrites
  <2> QED BY <2>2 DEF GroupFirst, NewGroups, NewIn, Changing
<1>4. ASSUME RoleBatch(a) PROVE GroupFirst(a)
  <2>1. PICK m, role : a = Edit("group_members", m, [role |-> role])
    BY <1>4 DEF RoleBatch
  <2>2. \A x \in a : /\ x.on = "group_members" /\ x.op = "update"
                     /\ DOMAIN x.row \subseteq {"id", "role"}
    BY <2>1, EditWrites
  <2> QED BY <2>2 DEF GroupFirst, NewGroups, NewIn, Changing, EntryColumns
<1>5. ASSUME WallBatch(a) PROVE GroupFirst(a)
  BY <1>5, GroupsOther DEF WallBatch
<1>6. GroupFirst(a)
  BY <1>1, <1>2, <1>3, <1>4, <1>5, GroupsOther DEF GroupBatch
<1> QED BY <1>1, <1>6, AddsOne, GroupsAdd

LEMMA GroupsRelations ==
    ASSUME TypeInv, GroupsInv, NEW p \in Workers, RelationRoutes(p), Opens(p, RelationWrites)
    PROVE  GroupsInv'
<1>1. PICK a : RelationBatch(a) /\ Adds(a, Entries)
  BY RelationLeads, EntryTables
<1>2. \A x \in a : x.on \notin {"groups", "group_members"}
  <2>1. CASE SendBatch(a) \/ FollowBatch(a)
    BY <2>1 DEF SendBatch, FollowBatch, Insert
  <2>2. CASE StatusBatch(a)
    BY <2>2, UpdateWrites DEF StatusBatch
  <2>3. CASE BlockBatch(a)
    BY <2>3 DEF BlockBatch, Insert
  <2>4. CASE SeverBatch(a)
    BY <2>4 DEF SeverBatch, DeleteAll, Delete
  <2> QED BY <1>1, <2>1, <2>2, <2>3, <2>4 DEF RelationBatch
<1> QED BY <1>1, <1>2, GroupsOther, GroupsAdd

LEMMA GroupsRequest ==
    ASSUME TypeInv, GroupsInv, NEW p \in Workers, Request(p)
    PROVE  GroupsInv'
<1> DEFINE others == {FeedReads, ModerationWrites, DecisionWrites, ChatWrites,
              ChatExtraWrites, PostWrites, MarkWrites,
              SessionWrites, TokenWrites, PollWrites, SocialWrites, UploadWrites,
              AccountWrites, CatalogTables}
<1>1. \A T \in others : T \cap Entries = {}
  BY DEF Entries, FeedReads, ModerationWrites, DecisionWrites, ChatWrites,
         ChatExtraWrites, PostWrites, MarkWrites,
         SessionWrites, TokenWrites, PollWrites, SocialWrites, UploadWrites,
         AccountWrites, CatalogTables, EnterpriseTables, RegionalTables,
         PlatformTables
<1>2. \/ RelationRoutes(p) /\ Opens(p, RelationWrites)
      \/ MemberRoutes(p) /\ Opens(p, MemberWrites)
      \/ GroupRoutes(p) /\ Opens(p, GroupWrites)
      \/ \E T \in others : Opens(p, T)
  BY Requests
<1> HIDE DEF others
<1> QED BY <1>1, <1>2, QuietBegins, GroupsQuiet, GroupsRelations, GroupsMembers, GroupsGroups

LEMMA GroupsInit ==
    ASSUME Init
    PROVE  GroupsInv
<1>1. /\ Entries \subseteq Tables
      /\ Open = {} /\ served = 0
  BY FirstOrNone, TablesAssumption DEF Entries, RelationTables, GroupTables
<1>2. store["blocks"] = {}
  BY <1>1, EmptyAtFirst DEF Seeded, Entries
<1>3. PICK u \in Users, w \in Users : \A t \in Tables : store[t] \in {{}, Rows(u, w)[t]}
  BY FirstOrNone
<1>4. \A g \in store["groups"] : g = AGroup(u, "anonymous")
  <2>1. Rows(u, w)["groups"] = {AGroup(u, "anonymous")}
    BY DEF Rows
  <2> QED BY <1>1, <1>3, <2>1 DEF Entries
<1>5. \A m \in store["group_members"] :
          /\ m.group = 0 /\ m.since = 0 /\ m.user = u /\ m.invited_by = None /\ m.alias
  <2>1. \A m \in Rows(u, w)["group_members"] :
            /\ m.group = 0 /\ m.since = 0 /\ m.user = u /\ m.invited_by = None /\ m.alias
    BY DEF Rows
  <2> QED BY <1>1, <1>3, <2>1 DEF Entries
<1>6. Known = store["groups"]
  BY <1>1 DEF Known
<1>7. AGroup(u, "anonymous").type = "anonymous"
  BY DEF AGroup
<1>8. \A g, h \in Known : Kin(g, h)
  BY <1>4, <1>6 DEF Kin, Same
<1>9. \A m \in store["group_members"] : EntryOk(m)
  BY <1>1, <1>4, <1>5, <1>6, <1>7 DEF EntryOk, Fits
<1> QED BY <1>1, <1>8, <1>9 DEF GroupsInv

LEMMA GroupsNext ==
    ASSUME TypeInv, PairsInv, GroupsInv, [Next]_vars
    PROVE  GroupsInv'
<1>1. Entries \subseteq Tables /\ Entries \cap LaterWrites = {} /\ Entries \cap Timed = {}
  BY EntryTables
<1> QED BY <1>1, QuietOrBusy, GroupsQuiet, GroupsRequest, GroupsCommit

\* Whatever is committed in whichever order, the members of groups, stored
\* and pending, keep their invariant.
THEOREM GroupsHold == Spec => []GroupsInv
<1>1. Init => GroupsInv
  BY GroupsInit
<1>2. TypeInv /\ PairsInv /\ GroupsInv /\ [Next]_vars => GroupsInv'
  BY GroupsNext
<1> QED BY <1>1, <1>2, TypesHold, PairsHold, PTL DEF Spec

\* Nobody is in a private group who neither made it nor was invited, and no
\* invitation passes a block that was there before it was asked for.
THEOREM GroupsEnteredByRight == Spec => []GroupEntry
<1>1. GroupsInv => GroupEntry
  <2> SUFFICES ASSUME GroupsInv, NEW m \in store["group_members"], NEW g \in store["groups"],
                      m.group = g.id
               PROVE  /\ g.type = "private" /\ m.status = "active" =>
                            m.user = g.created_by \/ m.invited_by # None
                      /\ m.invited_by # None =>
                            \A b \in Between("blocks", m.user, m.invited_by) : m.since <= b.born
    BY DEF GroupEntry
  <2>1. EntryOk(m) /\ g \in Known
    BY DEF GroupsInv, Known
  <2> QED BY <2>1 DEF EntryOk, Fits
<1> QED BY <1>1, GroupsHold, PTL

\* The list of members and the messages of an anonymous group name nobody, and
\* each active member has an alias.
THEOREM AnonymousStaysAnonymous == Spec => []AnonymousNamesNobody
<1>1. TypeInv /\ GroupsInv => AnonymousNamesNobody
  <2> SUFFICES ASSUME TypeInv, GroupsInv, NEW g \in store["groups"], g.type = "anonymous",
                      NEW u \in Users
               PROVE  /\ \A m \in list_members(g, u) : m.user = None /\ m.alias
                      /\ \A m \in get_group_messages(u, g) : m.sender = None
    BY DEF AnonymousNamesNobody
  <2>1. ASSUME NEW m \in list_members(g, u) PROVE m.user = None /\ m.alias
    <3>1. PICK x \in store["group_members"] : x.group = g.id /\ m = [x EXCEPT !.user = None]
      BY <2>1 DEF list_members
    <3>2. EntryOk(x) /\ g \in Known
      BY DEF GroupsInv, Known
    <3>3. x["alias"] = TRUE
      BY <3>1, <3>2, EntryTables DEF EntryOk, Fits
    <3>4. m["user"] = None /\ m["alias"] = x["alias"]
      BY <3>1, EntryTables DEF EntryColumns
    <3> QED BY <3>3, <3>4
  <2>2. ASSUME NEW m \in get_group_messages(u, g) PROVE m.sender = None
    <3>1. \E x : m = serialize_group_message(x, g)
      BY <2>2 DEF get_group_messages
    <3> QED BY <3>1 DEF serialize_group_message
  <2> QED BY <2>1, <2>2
<1> QED BY <1>1, GroupsHold, TypesHold, PTL
-----------------------------------------------------------------------------
(* The chain of feed events.                                                *)

EventColumns == {"id", "at", "previous"}

\* An event hangs on one there is, or is the first.
Linked(x) ==
    /\ x.at \in Int /\ x.at >= 1
    /\ \/ x.at = 1 /\ x.previous = <<>>
       \/ \E f \in store["events"] : x.at = f.at + 1 /\ x.previous = Hash(f)

\* An event about to be committed: those that hang where it will were born
\* after its request had begun.
Appended(w) ==
    /\ w.op = "insert" /\ DOMAIN w.row = EventColumns
    /\ Linked(w.row)
    /\ \A e \in store["events"] : e.previous = w.row.previous => w.row.id <= e.born

Forked == \E e, f \in store["events"] :
    e # f /\ e.previous = f.previous /\ Overlapped(e, f)

ChainInv ==
    /\ store["events"] = {} \/ Latest # {}
    /\ \A e \in store["events"] : DOMAIN e = EventColumns \cup {"born"} /\ Linked(e)
    /\ \A b \in Open : \A w \in b : w.on = "events" => Appended(w)
    /\ Forked \/ \A e, f \in store["events"] : e.at = f.at => e = f

\* Without two events on one place the chain verifies.
LEMMA ChainVerifies ==
    ASSUME ChainInv, \A e, f \in store["events"] : e.at = f.at => e = f
    PROVE  verify_chain
<1> DEFINE E == store["events"]
<1> SUFFICES ASSUME NEW e \in E
             PROVE  LET before == {f \in E \ {e} : f.at <= e.at}
                    IN  IF before = {} THEN e.previous = <<>>
                        ELSE \E f \in before : /\ f.at < e.at /\ e.previous = Hash(f)
                                               /\ \A g \in before : g.at < f.at \/ g = f
  BY DEF verify_chain
<1> DEFINE before == {f \in E \ {e} : f.at <= e.at}
<1>1. \A f \in E : f.at \in Int /\ f.at >= 1
  BY DEF ChainInv, Linked
<1>2. CASE e.at = 1 /\ e.previous = <<>>
  <2>1. \A f \in E : f.at <= e.at => f.at = e.at
    BY <1>1, <1>2
  <2>2. before = {}
    BY <2>1
  <2> QED BY <1>2, <2>2
<1>3. CASE \E f \in E : e.at = f.at + 1 /\ e.previous = Hash(f)
  <2>1. PICK f \in E : e.at = f.at + 1 /\ e.previous = Hash(f)
    BY <1>3
  <2>2. f.at < e.at /\ f \in before
    BY <1>1, <2>1
  <2>3. ASSUME NEW g \in before PROVE g.at < f.at \/ g = f
    <3>1. g.at \in Int /\ g.at <= e.at /\ g.at # e.at
      BY <1>1
    <3>2. g.at < f.at \/ g.at = f.at
      BY <1>1, <2>1, <3>1
    <3> QED BY <3>2
  <2> QED BY <2>1, <2>2, <2>3
<1>4. Linked(e)
  BY DEF ChainInv
<1> QED BY <1>2, <1>3, <1>4 DEF Linked

\* What is read of the chain may be appended.
LEMMA ReadsAppend ==
    ASSUME ChainInv, NEW i, NEW w \in log_event(i)
    PROVE  Appended(w)
<1>1. \A f \in store["events"] : f.at \in Int /\ f.at >= 1
  BY DEF ChainInv, Linked
<1>2. CASE Latest = {}
  <2>1. w = Insert("events", [id |-> i, at |-> 1, previous |-> <<>>])
    BY <1>2 DEF log_event
  <2>2. store["events"] = {}
    BY <1>2 DEF ChainInv
  <2> QED BY <2>1, <2>2 DEF Appended, Linked, Insert, EventColumns
<1>3. CASE Latest # {}
  <2>1. PICK last \in Latest :
            w = Insert("events", [id |-> i, at |-> last.at + 1, previous |-> Hash(last)])
    BY <1>3 DEF log_event
  <2>2. last \in store["events"] /\ \A f \in store["events"] : f.at <= last.at
    BY DEF Latest
  <2>3. w.op = "insert" /\ DOMAIN w.row = EventColumns /\ w.row.at = last.at + 1
        /\ w.row.previous = Hash(last)
    BY <2>1 DEF Insert, EventColumns
  <2>4. Linked(w.row)
    BY <1>1, <2>2, <2>3 DEF Linked
  <2>5. ASSUME NEW e \in store["events"] PROVE e.previous # Hash(last)
    <3>1. Linked(e)
      BY DEF ChainInv
    <3>2. <<>> # Hash(last)
      BY DEF Hash
    <3>3. ASSUME NEW f \in store["events"], e.at = f.at + 1, Hash(f) = Hash(last)
          PROVE  FALSE
      <4>1. f.at = last.at
        BY <3>3 DEF Hash
      <4> QED BY <1>1, <2>2, <3>3, <4>1
    <3> QED BY <3>1, <3>2, <3>3 DEF Linked
  <2> QED BY <2>3, <2>4, <2>5 DEF Appended
<1> QED BY <1>2, <1>3

\* Events are appended by what was open, or by who has read the chain now.
LEMMA ChainGrows ==
    ASSUME ChainInv, store'["events"] = store["events"],
           \A b \in Open' : \A w \in b : w.on = "events" =>
               \/ \E a \in Open : w \in a
               \/ \E i : w \in log_event(i)
    PROVE  ChainInv'
<1>1. \A x : Linked(x)' <=> Linked(x)
  BY DEF Linked, Hash
<1>2. \A w : Appended(w) => Appended(w)'
  BY <1>1 DEF Appended
<1>3. \A b \in Open' : \A w \in b : w.on = "events" => Appended(w)'
  BY <1>2, ReadsAppend DEF ChainInv
<1>4. Forked' <=> Forked
  BY DEF Forked, Overlapped
<1>5. Latest' = Latest
  BY DEF Latest
<1> QED BY <1>1, <1>3, <1>4, <1>5 DEF ChainInv

LEMMA ChainQuiet ==
    ASSUME ChainInv, Quiet({"events"})
    PROVE  ChainInv'
<1>1. \A b \in Open' : \A w \in b : w.on = "events" => \E a \in Open : w \in a
  BY DEF Quiet, On
<1> QED BY <1>1, ChainGrows DEF Quiet

LEMMA ChainTables ==
    ASSUME TypeInv
    PROVE  /\ "events" \in Tables \ Keyed /\ served \in Int
           /\ \A e \in store["events"] : e.id \in Int /\ e.born \in Int
                                         /\ e.id <= e.born /\ e.born <= served
<1>1. "events" \in Tables \ Keyed
  BY TablesAssumption DEF FeedTables, Keyed
<1>2. served \in Nat /\ Numbered("events")
  BY <1>1 DEF TypeInv, UnitInv
<1> QED BY <1>1, <1>2 DEF Numbered

LEMMA ChainCommit ==
    ASSUME TypeInv, ChainInv, NEW batch, Commits(batch)
    PROVE  ChainInv'
<1> DEFINE E == store["events"]
           F == store'["events"]
           New(e) == \E w \in batch :
                        /\ w.on = "events" /\ Appended(w)
                        /\ w.row.id \in Int /\ w.row.id <= served
                        /\ DOMAIN e = EventColumns \cup {"born"}
                        /\ e.id = w.row.id /\ e.at = w.row.at /\ e.previous = w.row.previous
                        /\ e.born = served
<1>1. batch \in Open /\ Open' \subseteq Open /\ served' = served /\ served \in Int
      /\ \A w \in batch : w.on = "events" => Appended(w)
  BY ChainTables DEF Commits, ChainInv
<1>2. ASSUME NEW e \in E PROVE e \in F
  <2>1. DOMAIN e = {"id", "at", "previous", "born"}
    BY DEF ChainInv, EventColumns
  <2>2. References(e) = {}
    BY <2>1 DEF References, Parent
  <2>3. \A w \in batch : w.on # "events" \/ w.op = "insert"
    BY <1>1 DEF Appended
  <2>4. \A w \in batch : w.on # "events" \/ w.op \notin {"update", "patch", "delete"}
    BY <2>3
  <2> QED BY <2>2, <2>4, ChainTables, CommitKeeps DEF Commits
<1>3. ASSUME NEW e \in F PROVE e \in E \/ New(e)
  <2>1. CASE Inserted(batch, "events", e)
    <3>1. PICK w \in batch : /\ w.on = "events" /\ w.op = "insert"
                             /\ e.id = w.row.id /\ e.born = served
                             /\ DOMAIN e = DOMAIN w.row \cup {"born"}
                             /\ \A c \in DOMAIN w.row : e[c] = w.row[c]
      BY <2>1 DEF Inserted
    <3>2. Appended(w)
      BY <1>1, <3>1
    <3>3. DOMAIN w.row = {"id", "at", "previous"}
      BY <3>2 DEF Appended, EventColumns
    <3>4. e.at = w.row.at /\ e.previous = w.row.previous
      BY <3>1, <3>3
    <3>5. Sound(w, served)
      BY DEF Commits, TypeInv, Ok
    <3>6. w.row.id \in Int /\ w.row.id <= served
      BY <3>1, <3>5, ChainTables DEF Sound
    <3> QED BY <3>1, <3>2, <3>3, <3>4, <3>6 DEF EventColumns
  <2>2. CASE Spared(batch, "events", e)
    BY <2>2 DEF Spared
  <2>3. CASE Changed(batch, "events", e)
    BY <1>1, <2>3 DEF Changed, Appended
  <2> QED BY <1>3, <2>1, <2>2, <2>3, CommitRows, ChainTables
<1>4. \A x : Linked(x) => Linked(x)'
  BY <1>2 DEF Linked, Hash
<1>5. \A e \in E : e.at \in Int /\ e.at >= 1
  BY DEF ChainInv, Linked
<1>6. \A e \in F : e.at \in Int /\ e.at >= 1 /\ DOMAIN e = EventColumns \cup {"born"} /\ Linked(e)'
  <2> SUFFICES ASSUME NEW e \in F
               PROVE  e.at \in Int /\ e.at >= 1 /\ DOMAIN e = EventColumns \cup {"born"} /\ Linked(e)
    BY <1>4
  <2>1. CASE e \in E
    BY <2>1 DEF ChainInv, Linked
  <2>2. CASE New(e)
    BY <2>2 DEF Appended, Linked
  <2> QED BY <1>3, <2>1, <2>2
<1>7. \A e \in F : New(e) => \A f \in F : f.previous = e.previous => Overlapped(e, f)
  <2> SUFFICES ASSUME NEW e \in F, New(e), NEW f \in F, f.previous = e.previous
               PROVE  e.id <= f.born /\ f.id <= e.born
    BY DEF Overlapped
  <2>1. PICK w \in batch : /\ Appended(w) /\ w.row.id \in Int /\ w.row.id <= served
                           /\ e.id = w.row.id /\ e.previous = w.row.previous /\ e.born = served
    OBVIOUS
  <2>2. CASE f \in E
    <3>1. w.row.id <= f.born
      BY <2>1, <2>2 DEF Appended
    <3> QED BY <2>1, <2>2, <3>1, <1>1, ChainTables
  <2>3. CASE New(f)
    BY <1>1, <2>1, <2>3
  <2> QED BY <1>3, <2>2, <2>3
<1> HIDE DEF New
<1>8. ASSUME NEW b \in Open', NEW w \in b, w.on = "events" PROVE Appended(w)'
  <2>1. Appended(w)
    BY <1>1, <1>8 DEF ChainInv
  <2>2. w.row.id \in Int /\ w.row.id <= served
    <3>1. Sound(w, served)
      BY <1>1 DEF TypeInv, Ok
    <3> QED BY <1>8, <2>1, <3>1, ChainTables DEF Sound, Appended
  <2>3. \A e \in F : e.previous = w.row.previous => w.row.id <= e.born
    BY <1>3, <2>1, <2>2 DEF Appended, New
  <2> QED BY <1>4, <2>1, <2>3 DEF Appended
<1>9. F = {} \/ Latest' # {}
  <2>1. ASSUME NEW e \in F, \A f \in F : f.at <= e.at PROVE Latest' # {}
    BY <2>1 DEF Latest
  <2>2. CASE E = {}
    <3>1. \A e \in F : e.at = 1
      BY <1>3, <2>2 DEF New, Appended, Linked
    <3> QED BY <2>1, <3>1
  <2>3. CASE E # {}
    <3>1. PICK last \in E : \A f \in E : f.at <= last.at
      BY <2>3 DEF ChainInv, Latest
    <3>2. \A e \in F : e.at <= last.at + 1
      <4>1. \A e \in E : e.at <= last.at + 1
        BY <1>5, <3>1
      <4>2. \A e : New(e) => e.at <= last.at + 1
        BY <1>5, <3>1 DEF New, Appended, Linked
      <4> QED BY <1>3, <4>1, <4>2
    <3>3. CASE \E e \in F : e.at = last.at + 1
      BY <2>1, <3>2, <3>3
    <3>4. CASE \A e \in F : e.at # last.at + 1
      <4>1. \A e \in F : e.at <= last.at
        BY <1>5, <1>6, <3>2, <3>4
      <4> QED BY <1>2, <2>1, <4>1
    <3> QED BY <3>3, <3>4
  <2> QED BY <2>2, <2>3
<1>10. Forked' \/ \A e, f \in F : e.at = f.at => e = f
  <2>1. CASE Forked
    BY <1>2, <2>1 DEF Forked, Overlapped
  <2>2. ASSUME \A e, f \in E : e.at = f.at => e = f,
               NEW e \in F, NEW f \in F, e.at = f.at, e # f, New(e)
        PROVE  Forked'
    <3>1. Linked(e) /\ Linked(f)
      <4>1. \A x : New(x) => Linked(x)
        BY <1>6 DEF New, Appended, Linked
      <4>2. \A x \in E : Linked(x)
        BY DEF ChainInv
      <4> QED BY <1>3, <2>2, <4>1, <4>2
    <3>2. e.previous = f.previous
      <4>1. CASE e.at = 1
        BY <1>5, <2>2, <3>1, <4>1 DEF Linked
      <4>2. CASE e.at # 1
        <5>1. PICK x \in E : e.at = x.at + 1 /\ e.previous = Hash(x)
          BY <3>1, <4>2 DEF Linked
        <5>2. PICK y \in E : f.at = y.at + 1 /\ f.previous = Hash(y)
          BY <2>2, <3>1, <4>2 DEF Linked
        <5>3. x.at \in Int /\ y.at \in Int /\ x.at + 1 = y.at + 1
          BY <1>5, <2>2, <5>1, <5>2
        <5>4. x.at = y.at
          BY <5>3
        <5>5. x = y
          BY <2>2, <5>4
        <5> QED BY <5>1, <5>2, <5>5
      <4> QED BY <4>1, <4>2
    <3> QED BY <1>7, <2>2, <3>2 DEF Forked, Overlapped
  <2>3. CASE \A e, f \in E : e.at = f.at => e = f
    <3> SUFFICES ASSUME NEW e \in F, NEW f \in F, e.at = f.at, e # f
                 PROVE  Forked'
      OBVIOUS
    <3>1. CASE New(e)
      BY <2>2, <2>3, <3>1
    <3>2. CASE New(f)
      <4>1. f.at = e.at /\ f # e
        OBVIOUS
      <4> QED BY <2>2, <2>3, <3>2, <4>1
    <3>3. CASE e \in E /\ f \in E
      BY <2>3, <3>3
    <3> QED BY <1>3, <3>1, <3>2, <3>3
  <2> QED BY <2>1, <2>3 DEF ChainInv
<1> QED BY <1>6, <1>8, <1>9, <1>10 DEF ChainInv

\* What a request sends with the events of others holds none of its own.
LEMMA SparesEvents ==
    ASSUME NEW post, NEW u, NEW kind, NEW c, NEW cols
    PROVE  /\ Spares(Announced(post, u, kind), {"events"})
           /\ Spares(get_controls(u) \o << Edit("feed_controls", c, cols) >>, {"events"})
<1> DEFINE G == {{LogLater}, {push(post.user, kind)}, {notify(post.user, kind, u), LogLater}}
           H == {{InsertUnique("feed_controls", NewControls(u), {"id"})},
                 Edit("feed_controls", c, cols)}
<1>1. \A b \in G : On(b, {"events"}) = {}
  BY DEF push, notify, Insert, LogLater, Later, On
<1>2. \A b \in H : On(b, {"events"}) = {}
  <2>1. \A w \in Edit("feed_controls", c, cols) : w.on = "feed_controls"
    BY DEF Edit, Update
  <2> QED BY <2>1 DEF InsertUnique, On
<1>3. Announced(post, u, kind) \in Seq(G)
  <2>1. {LogLater} \in G /\ {push(post.user, kind)} \in G
        /\ {notify(post.user, kind, u), LogLater} \in G
    OBVIOUS
  <2> HIDE DEF G
  <2> QED BY <2>1 DEF Announced
<1>4. get_controls(u) \o << Edit("feed_controls", c, cols) >> \in Seq(H)
  <2>1. /\ {InsertUnique("feed_controls", NewControls(u), {"id"})} \in H
        /\ Edit("feed_controls", c, cols) \in H
    OBVIOUS
  <2> HIDE DEF H
  <2>2. get_controls(u) \in Seq(H)
    BY <2>1 DEF get_controls
  <2>3. << Edit("feed_controls", c, cols) >> \in Seq(H)
    BY <2>1
  <2> QED BY <2>2, <2>3
<1> HIDE DEF G, H
<1>5. Spares(Announced(post, u, kind), {"events"})
  BY <1>1, <1>3 DEF Spares
<1>6. Spares(get_controls(u) \o << Edit("feed_controls", c, cols) >>, {"events"})
  BY <1>2, <1>4 DEF Spares
<1> QED BY <1>5, <1>6

LEMMA ChainPosts ==
    ASSUME TypeInv, ChainInv, NEW p \in Workers, PostRoutes(p), Opens(p, PostWrites)
    PROVE  ChainInv'
<1>1. ASSUME NEW a, NEW event \in log_event(Self), Begin(p, << a >>), event \in a,
             \A w \in a : w.on = "events" => w = event
      PROVE  ChainInv'
  <2>1. Parts(<<a>>) = {a}
    BY DEF Parts
  <2>2. Open' \subseteq Open \cup {a} /\ store' = store
    BY <1>1, <2>1, HandlerBegins
  <2> QED BY <1>1, <2>2, ChainGrows
<1>2. CASE create_post_route(p)
  <2>1. PICK u, content, visibility : create_post(p, u, content, visibility)
    BY <1>2 DEF create_post_route
  <2> DEFINE row == [id |-> Self, user |-> u, content |-> content, visibility |-> visibility]
  <2>2. PICK event \in log_event(Self) :
            Begin(p, << analyze_content(content) \cup {Insert("posts", row), event} >>)
    BY <2>1 DEF create_post
  <2>3. \A w \in analyze_content(content) : w.on = "ai_results"
    BY DEF analyze_content, Insert
  <2>4. Insert("posts", row).on = "posts"
    BY DEF Insert
  <2> HIDE DEF row
  <2>5. /\ event \in analyze_content(content) \cup {Insert("posts", row), event}
        /\ \A w \in analyze_content(content) \cup {Insert("posts", row), event} :
              w.on = "events" => w = event
    BY <2>3, <2>4
  <2> QED BY <1>1, <2>2, <2>5
<1>3. CASE update_post_route(p)
  <2>1. PICK post, content, visibility : update_post(p, post, content, visibility)
    BY <1>3 DEF update_post_route
  <2> DEFINE cols == [content |-> content, visibility |-> visibility]
  <2>2. PICK event \in log_event(Self) : Begin(p, << Edit("posts", post, cols) \cup {event} >>)
    BY <2>1 DEF update_post
  <2>3. \A w \in Edit("posts", post, cols) : w.on = "posts"
    BY DEF Edit, Update
  <2> HIDE DEF cols
  <2>4. /\ event \in Edit("posts", post, cols) \cup {event}
        /\ \A w \in Edit("posts", post, cols) \cup {event} : w.on = "events" => w = event
    BY <2>3
  <2> QED BY <1>1, <2>2, <2>4
<1>4. CASE delete_post_route(p)
  <2>1. PICK post : delete_post(p, post)
    BY <1>4 DEF delete_post_route
  <2>2. PICK event \in log_event(Self) : Begin(p, << {Delete("posts", post.id), event} >>)
    BY <2>1 DEF delete_post
  <2>3. Delete("posts", post.id).on = "posts"
    BY DEF Delete
  <2>4. /\ event \in {Delete("posts", post.id), event}
        /\ \A w \in {Delete("posts", post.id), event} : w.on = "events" => w = event
    BY <2>3
  <2> QED BY <1>1, <2>2, <2>4
<1>5. ASSUME NEW a, NEW rest, Begin(p, <<a>> \o rest), Spares(rest, {"events"}),
             On(a, {"events"}) = {}
      PROVE  ChainInv'
  <2>1. Adds(a, {"events"})
    BY <1>5, AddsLead
  <2>2. \A b \in Open' : b \in Open \/ On(b, {"events"}) = {}
    BY <1>5, <2>1 DEF Adds
  <2> QED BY <2>1, <2>2, ChainGrows DEF Adds, On
<1>6. CASE create_comment_route(p)
  <2>1. \E u, post, row :
            Begin(p, << {Insert("comments", row)} >> \o Announced(post, u, "post_comment"))
    BY <1>6 DEF create_comment_route, create_comment
  <2>2. \A row : On({Insert("comments", row)}, {"events"}) = {}
    BY DEF Insert, On
  <2> QED BY <1>5, <2>1, <2>2, SparesEvents
<1>7. CASE update_user_feed_settings(p)
  <2>1. PICK u, muted, hidden : update_controls(p, u, muted, hidden)
    BY <1>7 DEF update_user_feed_settings
  <2> DEFINE cols == [muted_words |-> muted, sensitive_content_hidden |-> hidden]
             all == get_controls(u) \o << Edit("feed_controls", ControlsOf(u), cols) >>
  <2>2. Begin(p, all)
    BY <2>1 DEF update_controls
  <2>3. Spares(all, {"events"})
    BY SparesEvents
  <2> HIDE DEF all
  <2>4. \A b \in Parts(all) : On(b, {"events"}) = {}
    BY <2>3 DEF Spares, Parts
  <2>5. \A b \in Open' : b \in Open \/ On(b, {"events"}) = {}
    BY <2>2, <2>4, HandlerBegins
  <2>6. store' = store
    BY <2>2 DEF Begin
  <2> QED BY <2>5, <2>6, ChainGrows DEF On
<1> QED BY <1>2, <1>3, <1>4, <1>6, <1>7 DEF PostRoutes

LEMMA ChainRequest ==
    ASSUME TypeInv, ChainInv, NEW p \in Workers, Request(p)
    PROVE  ChainInv'
<1> DEFINE others == {RelationWrites, FeedReads, ModerationWrites, DecisionWrites, ChatWrites,
              ChatExtraWrites, MarkWrites, MemberWrites, GroupWrites,
              SessionWrites, TokenWrites, PollWrites, SocialWrites, UploadWrites,
              AccountWrites, CatalogTables}
<1>1. \A T \in others : T \cap {"events"} = {}
  BY DEF RelationWrites, FeedReads, ModerationWrites, DecisionWrites, ChatWrites,
         ChatExtraWrites, MarkWrites, MemberWrites, GroupWrites,
         SessionWrites, TokenWrites, PollWrites, SocialWrites, UploadWrites,
         AccountWrites, CatalogTables, EnterpriseTables, RegionalTables,
         PlatformTables
<1>2. \/ PostRoutes(p) /\ Opens(p, PostWrites)
      \/ \E T \in others : Opens(p, T)
  BY Requests
<1> HIDE DEF others
<1> QED BY <1>1, <1>2, QuietBegins, ChainQuiet, ChainPosts

\* A handler that reads again appends what it reads, or nothing.
LEMMA ChainSteps ==
    ASSUME TypeInv, ChainInv, NEW p \in Workers, Responded(p) \/ FeedSteps(p)
    PROVE  ChainInv'
<1>1. ASSUME NEW batches, Resolve(p, batches), tx[p] # <<>>, NEW S, batches \in Seq(S),
             \A b \in S : \A w \in b : w.on = "events" =>
                 w \in Head(tx[p]) \/ \E i : w \in log_event(i)
      PROVE  ChainInv'
  <2>1. Open' \subseteq Open \cup {batches[i] : i \in DOMAIN batches} /\ store' = store
    BY <1>1, ResolveOpens DEF TypeInv, Resolve
  <2>2. \A i \in DOMAIN batches : batches[i] \in S
    BY <1>1
  <2>3. Head(tx[p]) \in Open
    BY <1>1, HeadOpen
  <2> QED BY <1>1, <2>1, <2>2, <2>3, ChainGrows
<1>2. CASE LogEvent(p)
  <2>1. PICK w \in Head(tx[p]) : \E event \in log_event(w.row.id) :
            Resolve(p, << (Head(tx[p]) \ {w}) \cup {event} >>)
    BY <1>2 DEF LogEvent
  <2>2. PICK event \in log_event(w.row.id) : Resolve(p, << (Head(tx[p]) \ {w}) \cup {event} >>)
    BY <2>1
  <2> DEFINE b == (Head(tx[p]) \ {w}) \cup {event}
  <2>3. \A x \in b : x \in Head(tx[p]) \/ \E i : x \in log_event(i)
    OBVIOUS
  <2>4. Resolve(p, <<b>>) /\ tx[p] # <<>>
    BY <1>2, <2>2 DEF LogEvent
  <2> HIDE DEF b
  <2> DEFINE S == {b}
             batches == <<b>>
  <2>5. batches \in Seq(S)
    OBVIOUS
  <2>6. \A c \in S : \A x \in c : x.on = "events" =>
            x \in Head(tx[p]) \/ \E i : x \in log_event(i)
    BY <2>3
  <2>7. Resolve(p, batches)
    BY <2>4
  <2> HIDE DEF S, batches
  <2> QED BY <1>1, <2>4, <2>5, <2>6, <2>7
<1>3. CASE ToggleAgain(p)
  <2>1. PICK w \in Head(tx[p]) : w.op = "untoggle" /\
            LET marks == Marks(w.row.table, w.row.user, w.row.post)
            IN  Resolve(p, IF marks = {} THEN <<>>
                           ELSE << DeleteAll(w.row.table, marks),
                                   {Later("log_event", [id |-> w.row.id])} >>)
    BY <1>3 DEF ToggleAgain
  <2>2. tx[p] # <<>>
    BY <1>3 DEF ToggleAgain
  <2>3. w.row.table # "events"
    BY <2>1, <2>2, HeadOpen DEF Ok, Sound
  <2> DEFINE marks == Marks(w.row.table, w.row.user, w.row.post)
             x == DeleteAll(w.row.table, marks)
             y == {Later("log_event", [id |-> w.row.id])}
             batches == IF marks = {} THEN <<>> ELSE << x, y >>
  <2>4. \A b \in {x, y} : \A v \in b : v.on # "events"
    BY <2>3 DEF DeleteAll, Delete, Later
  <2>5. Resolve(p, batches)
    BY <2>1
  <2> HIDE DEF x, y
  <2>6. batches \in Seq({x, y})
    <3>1. <<x, y>> \in Seq({x, y}) /\ <<>> \in Seq({x, y})
      OBVIOUS
    <3> QED BY <3>1
  <2> HIDE DEF batches
  <2>7. \A b \in {x, y} : \A v \in b : v.on = "events" =>
            v \in Head(tx[p]) \/ \E i : v \in log_event(i)
    BY <2>4
  <2> QED BY <1>1, <2>2, <2>5, <2>6, <2>7
<1>4. CASE Responded(p)
  <2>1. PICK w \in Head(tx[p]), r \in store["friends"] :
            Resolve(p, (IF r.status = "accepted" THEN invalidate(r.from, r.to) ELSE <<>>)
                       \o By(w.row.id, create_notification(r.from, r.status, r.to)))
    BY <1>4 DEF Responded
  <2>2. tx[p] # <<>>
    BY <1>4 DEF Responded
  <2> DEFINE first == IF r.status = "accepted" THEN invalidate(r.from, r.to) ELSE <<>>
             f(v) == [v EXCEPT !.row.id = w.row.id]
             mine == By(w.row.id, create_notification(r.from, r.status, r.to))
             x == {Delete("relations_cache", r.from)}
             y == {Delete("relations_cache", r.to)}
             v1 == f(push(r.from, r.status))
             v2 == f(notify(r.from, r.status, r.to))
             S == {x, y, {v1}, {v2}}
  <2>3. first = IF r.status = "accepted" THEN << x, y >> ELSE <<>>
    BY DEF invalidate
  <2>4. mine = << {v1}, {v2} >>
    <3> DEFINE sent == create_notification(r.from, r.status, r.to)
    <3>1. DOMAIN sent = 1..2 /\ sent[1] = {push(r.from, r.status)}
          /\ sent[2] = {notify(r.from, r.status, r.to)}
      BY DEF create_notification
    <3>2. mine = [k \in 1..2 |-> {f(v) : v \in sent[k]}]
      BY <3>1 DEF By
    <3> HIDE DEF f, sent, mine
    <3>3. {f(v) : v \in sent[1]} = {v1} /\ {f(v) : v \in sent[2]} = {v2}
      BY <3>1
    <3> QED BY <3>2, <3>3
  <2>5. v1.on = "pushed" /\ v2.on = "notifications"
    BY DEF push, notify, Insert
  <2>6. (\A v \in x : v.on # "events") /\ (\A v \in y : v.on # "events")
    BY DEF Delete
  <2>7. Resolve(p, first \o mine)
    BY <2>1
  <2> HIDE DEF first, mine, v1, v2, x, y, f
  <2>8. \A b \in S : \A v \in b : v.on = "events" =>
            v \in Head(tx[p]) \/ \E i : v \in log_event(i)
    BY <2>5, <2>6
  <2>9. <<x, y>> \in Seq(S) /\ <<>> \in Seq(S) /\ << {v1}, {v2} >> \in Seq(S)
    OBVIOUS
  <2> HIDE DEF S
  <2>10. first \in Seq(S) /\ mine \in Seq(S)
    BY <2>3, <2>4, <2>9
  <2>11. first \o mine \in Seq(S)
    BY <2>10
  <2> QED BY <1>1, <2>2, <2>7, <2>8, <2>11
<1> QED BY <1>2, <1>3, <1>4 DEF FeedSteps

LEMMA ChainNext ==
    ASSUME TypeInv, ChainInv, [Next]_vars
    PROVE  ChainInv'
<1>1. CASE UNCHANGED vars
  <2>1. store' = store /\ tx' = tx
    BY <1>1 DEF vars, requestVars
  <2>2. Open' = Open
    BY <2>1 DEF Open, Batches
  <2> QED BY <2>1, <2>2, ChainGrows
<1>2. ASSUME NEW p \in Workers, Commit(p) PROVE ChainInv'
  <2>1. Commits(Head(tx[p]))
    BY <1>2, CommitCloses DEF Commits, Commit, TypeInv
  <2> QED BY <2>1, ChainCommit
<1>3. ASSUME NEW p \in Workers, Abandon(p) PROVE ChainInv'
  <2>1. Open' \subseteq Open /\ store' = store
    BY <1>3, AbandonCloses DEF TypeInv, Abandon
  <2> QED BY <2>1, ChainGrows
<1>4. CASE Clock
  <2>1. Open' = Open /\ store'["events"] = store["events"]
    BY <1>4, ClockSteps, ChainTables
  <2> QED BY <2>1, ChainGrows
<1> QED BY <1>1, <1>2, <1>3, <1>4, ChainRequest, ChainSteps DEF Next, Clock

\* Whatever is committed in whichever order, the events keep their invariant.
THEOREM ChainHolds == Spec => []ChainInv
<1>1. Init => ChainInv
  <2> SUFFICES ASSUME Init PROVE ChainInv
    OBVIOUS
  <2>1. Open = {} /\ store["events"] = {}
    BY FirstOrNone, EmptyAtFirst, TablesAssumption DEF Seeded, FeedTables
  <2> QED BY <2>1 DEF ChainInv
<1>2. TypeInv /\ ChainInv /\ [Next]_vars => ChainInv'
  BY ChainNext
<1> QED BY <1>1, <1>2, TypesHold, PTL DEF Spec

\* The chain verifies, or two requests that were in flight together hung
\* their events on the same one.
THEOREM ChainForksTogether == Spec => []ChainForksOnlyTogether
<1>1. ChainInv => ChainForksOnlyTogether
  BY ChainVerifies DEF ChainInv, ChainForksOnlyTogether, Forked
<1> QED BY <1>1, ChainHolds, PTL

-----------------------------------------------------------------------------
(* The votes of a poll.                                                     *)

Votes == {"polls", "answers"}

\* Another vote on the poll was in flight with this one.
Contested(b) ==
    \E c \in store["answers"] :
        c # b /\ c.kind = "vote" /\ c.about[1] = b.about[1] /\ Overlapped(b, c)

\* A vote about to be confirmed.  The map its commit writes has it, and the
\* votes that were confirmed before, but for those whose requests this one
\* may have overlapped; and when there is no map to write, the poll has the
\* vote already unless such a request has taken it away.
Casting(p, w) ==
    /\ "about" \in DOMAIN w.row /\ w.row.about[1] \in Int /\ w.row.about[1] <= served
    /\ \A q \in Workers : \A v \in Held(q, Votes) :
          NewIn(v, "polls") => v.row.id # w.row.about[1]
    /\ \A v \in Held(p, Votes) : v.on = "answers" => v = w
    /\ \A x \in Held(p, Votes) : x.on = "polls" =>
          /\ Changing(x, "polls") /\ x.row.id = w.row.about[1]
          /\ "votes" \in DOMAIN x.row /\ HasVoted(x.row.votes, w.row.about[2])
          /\ \A b \in store["answers"] : b.kind = "vote" /\ b.about[1] = w.row.about[1] =>
                \/ HasVoted(x.row.votes, b.about[2])
                \/ w.row.id <= b.born
                \/ Contested(b)
    /\ \/ \E x \in Held(p, Votes) : x.on = "polls"
       \/ \A r \in store["polls"] : r.id = w.row.about[1] => HasVoted(r.votes, w.row.about[2])
       \/ \E c \in store["answers"] :
             c.kind = "vote" /\ c.about[1] = w.row.about[1] /\ w.row.id <= c.born

\* A confirmed one: its poll is not about to be made again.
Cast(b) ==
    /\ b.about[1] \in Int /\ b.about[1] <= served
    /\ \A q \in Workers : \A v \in Held(q, Votes) : NewIn(v, "polls") => v.row.id # b.about[1]

VotesInv ==
    /\ OnceInv(Votes) /\ Solo("polls", Votes)
    /\ \A p \in Workers : \A w \in Held(p, Votes) :
          /\ Changing(w, "polls") =>
                \E v \in Held(p, Votes) : v.on = "answers" /\ v.row.kind = "vote"
          /\ w.on = "answers" =>
                /\ w.op = "insert" /\ "kind" \in DOMAIN w.row /\ References(w.row) = {}
                /\ w.row.kind = "vote" => Casting(p, w)
    /\ \A b \in store["answers"] : References(b) = {}
    /\ \A b \in store["answers"] : b.kind = "vote" => Cast(b)
    /\ \A b \in store["answers"] : \A r \in store["polls"] :
          b.kind = "vote" /\ b.about[1] = r.id => HasVoted(r.votes, b.about[2]) \/ Contested(b)

LEMMA VotesRests ==
    ASSUME TypeInv, VotesInv, Rests(Votes), OnceInv(Votes)'
    PROVE  VotesInv'
<1>1. /\ store'["polls"] = store["polls"] /\ store'["answers"] = store["answers"]
      /\ served <= served' /\ served' \in Int /\ served \in Int
      /\ \A p \in Workers : Held(p, Votes)' \in {Held(p, Votes), {}}
  BY StoreTypes DEF Rests, Spent, Votes, Self
<1>2. Solo("polls", Votes)' /\ \A b \in store'["answers"] : References(b) = {}
  BY <1>1, SoloRests DEF VotesInv, Votes
<1>3. \A b : Contested(b)' <=> Contested(b)
  BY <1>1 DEF Contested, Overlapped
<1>4. ASSUME NEW p \in Workers, NEW w \in Held(p, Votes)'
      PROVE  /\ Changing(w, "polls") =>
                   \E v \in Held(p, Votes)' : v.on = "answers" /\ v.row.kind = "vote"
             /\ w.on = "answers" =>
                   /\ w.op = "insert" /\ "kind" \in DOMAIN w.row /\ References(w.row) = {}
                   /\ w.row.kind = "vote" => Casting(p, w)'
  <2>1. w \in Held(p, Votes) /\ Held(p, Votes)' = Held(p, Votes)
    BY <1>1
  <2>2. Casting(p, w) => Casting(p, w)'
    BY <1>1, <1>3, <2>1 DEF Casting
  <2> QED BY <2>1, <2>2 DEF VotesInv
<1>5. ASSUME NEW b \in store'["answers"], b.kind = "vote" PROVE Cast(b)'
  <2>1. Cast(b)
    BY <1>1, <1>5 DEF VotesInv
  <2> QED BY <1>1, <2>1 DEF Cast
<1>6. \A b \in store'["answers"] : \A r \in store'["polls"] :
          b.kind = "vote" /\ b.about[1] = r.id => HasVoted(r.votes, b.about[2]) \/ Contested(b)'
  BY <1>1, <1>3 DEF VotesInv
<1> QED BY <1>2, <1>4, <1>5, <1>6 DEF VotesInv

\* A request to vote has read the poll, and the votes it had.
LEMMA VotesTakes ==
    ASSUME TypeInv, VotesInv, NEW p \in Workers, NEW a, TokenBatch(a),
           Takes(p, a, Votes), OnceInv(Votes)'
    PROVE  VotesInv'
<1>1. /\ store' = store /\ served' = served + 1 /\ served \in Nat /\ Self = served + 1
      /\ \A w \in Held(p, Votes)' : w \in a /\ Held(p, Votes)' = On(a, Votes)
      /\ \A q \in Workers \ {p} : Held(q, Votes)' = Held(q, Votes)
  BY StoreTypes DEF Takes, On, Self
<1>2. "polls" \in Tables \ Keyed /\ "polls" \in Votes
  BY TablesAssumption DEF SocialTables, Keyed, Votes
<1>3. Solo("polls", Votes)' /\ \A b \in store'["answers"] : References(b) = {}
  BY <1>1, <1>2, SoloTakes DEF VotesInv, TokenBatch
<1>4. ASSUME NEW q \in Workers, NEW v \in Held(q, Votes)', NewIn(v, "polls")
      PROVE  /\ \A r \in store["polls"] : v.row.id # r.id
             /\ (q = p /\ v \in a /\ v.row.id = Self) \/ v \in Held(q, Votes)
  <2>1. CASE q = p
    <3>1. v \in a /\ v.row.id = Self
      BY <1>1, <1>4, <2>1 DEF TokenBatch
    <3> QED BY <1>1, <1>2, <2>1, <3>1, RowNumbers
  <2>2. CASE q # p
    BY <1>1, <1>4, <2>2 DEF VotesInv, Solo
  <2> QED BY <2>1, <2>2
<1>5. \A b : Contested(b)' <=> Contested(b)
  BY <1>1 DEF Contested, Overlapped
<1>6. ASSUME NEW w \in Held(p, Votes)', w.on = "answers", w.row.kind = "vote"
      PROVE  Casting(p, w)'
  <2>1. w \in a /\ AnswerOk(a, w) /\ Held(p, Votes)' = On(a, Votes)
    BY <1>1, <1>6 DEF TokenBatch
  <2>2. /\ "about" \in DOMAIN w.row
        /\ \A v \in a : v.on = "answers" => v = w
    BY <1>6, <2>1 DEF AnswerOk, AnswerAlone
  <2>3. PICK poll \in store["polls"] :
            /\ w.row.about[1] = poll.id
            /\ \A x \in a : x.on = "polls" =>
                  /\ Changing(x, "polls") /\ x.row.id = poll.id
                  /\ "votes" \in DOMAIN x.row /\ HasVoted(x.row.votes, w.row.about[2])
                  /\ \A u : HasVoted(poll.votes, u) => HasVoted(x.row.votes, u)
            /\ \/ HasVoted(poll.votes, w.row.about[2])
               \/ \E x \in a : x.on = "polls"
    BY <1>6, <2>1 DEF AnswerOk, AnswerAlone
  <2>4. w.row.about[1] \in Int /\ w.row.about[1] <= served'
    BY <1>1, <1>2, <2>3, RowNumbers
  <2>5. \A q \in Workers : \A v \in Held(q, Votes)' :
            NewIn(v, "polls") => v.row.id # w.row.about[1]
    BY <1>4, <2>3
  <2>6. \A v \in Held(p, Votes)' : v.on = "answers" => v = w
    BY <1>1, <2>2
  <2>7. ASSUME NEW x \in Held(p, Votes)', x.on = "polls", NEW b \in store["answers"],
               b.kind = "vote", b.about[1] = w.row.about[1]
        PROVE  HasVoted(x.row.votes, b.about[2]) \/ Contested(b)'
    <3>1. HasVoted(poll.votes, b.about[2]) \/ Contested(b)
      BY <2>3, <2>7 DEF VotesInv
    <3>2. x \in a
      BY <1>1
    <3> QED BY <1>5, <2>3, <2>7, <3>1, <3>2
  <2>8. \/ \E x \in Held(p, Votes)' : x.on = "polls"
        \/ \A r \in store["polls"] : r.id = w.row.about[1] => HasVoted(r.votes, w.row.about[2])
    <3>1. CASE \E x \in a : x.on = "polls"
      BY <2>1, <3>1 DEF On, Votes
    <3>2. \A r \in store["polls"] : r.id = poll.id => r = poll
      BY DEF VotesInv, Solo
    <3> QED BY <2>3, <3>1, <3>2
  <2>9. \A x \in Held(p, Votes)' : x.on = "polls" =>
            /\ Changing(x, "polls") /\ x.row.id = w.row.about[1]
            /\ "votes" \in DOMAIN x.row /\ HasVoted(x.row.votes, w.row.about[2])
    BY <1>1, <2>3
  <2> QED BY <1>1, <2>2, <2>4, <2>5, <2>6, <2>7, <2>8, <2>9 DEF Casting
<1>7. ASSUME NEW q \in Workers \ {p}, NEW w \in Held(q, Votes), w.on = "answers",
             w.row.kind = "vote"
      PROVE  Casting(q, w)'
  <2>1. Casting(q, w) /\ Held(q, Votes)' = Held(q, Votes)
    BY <1>1, <1>7 DEF VotesInv
  <2>2. \A x \in Workers : \A v \in Held(x, Votes)' :
            NewIn(v, "polls") => v.row.id # w.row.about[1]
    BY <1>1, <1>4, <2>1 DEF Casting
  <2>3. w.row.about[1] \in Int /\ w.row.about[1] <= served'
    BY <1>1, <2>1 DEF Casting
  <2> QED BY <1>1, <1>5, <2>1, <2>2, <2>3 DEF Casting
<1>8. ASSUME NEW q \in Workers, NEW w \in Held(q, Votes)'
      PROVE  /\ Changing(w, "polls") =>
                   \E v \in Held(q, Votes)' : v.on = "answers" /\ v.row.kind = "vote"
             /\ w.on = "answers" =>
                   /\ w.op = "insert" /\ "kind" \in DOMAIN w.row /\ References(w.row) = {}
                   /\ w.row.kind = "vote" => Casting(q, w)'
  <2>1. CASE q = p
    <3>1. ASSUME Changing(w, "polls")
          PROVE  \E v \in Held(q, Votes)' : v.on = "answers" /\ v.row.kind = "vote"
      <4>1. PICK v \in a : v.on = "answers" /\ v.row.kind = "vote"
        BY <1>1, <2>1, <3>1 DEF TokenBatch
      <4> QED BY <1>1, <2>1, <4>1 DEF On, Votes
    <3> QED BY <1>1, <1>6, <1>8, <2>1, <3>1 DEF TokenBatch, AnswerOk, AnswerAlone
  <2>2. CASE q # p
    BY <1>1, <1>7, <1>8, <2>2 DEF VotesInv
  <2> QED BY <2>1, <2>2
<1>9. ASSUME NEW b \in store'["answers"], b.kind = "vote" PROVE Cast(b)'
  <2>1. Cast(b)
    BY <1>1, <1>9 DEF VotesInv
  <2>2. \A x \in Workers : \A v \in Held(x, Votes)' : NewIn(v, "polls") => v.row.id # b.about[1]
    BY <1>1, <1>4, <2>1 DEF Cast
  <2>3. b.about[1] \in Int /\ b.about[1] <= served'
    BY <1>1, <2>1 DEF Cast
  <2> QED BY <1>1, <2>1, <2>2, <2>3 DEF Cast
<1>10. \A b \in store'["answers"] : \A r \in store'["polls"] :
          b.kind = "vote" /\ b.about[1] = r.id => HasVoted(r.votes, b.about[2]) \/ Contested(b)'
  BY <1>1, <1>5 DEF VotesInv
<1> QED BY <1>3, <1>8, <1>9, <1>10 DEF VotesInv

\* A poll after a commit: new, with the votes it had, or with those that the
\* commit wrote.
LEMMA PollsAfter ==
    ASSUME TypeInv, VotesInv, NEW p \in Workers, NEW batch, Gives(p, batch, Votes),
           NEW r \in store'["polls"]
    PROVE  \/ \E w \in Held(p, Votes) : NewIn(w, "polls") /\ r.id = w.row.id
           \/ \E s \in store["polls"] :
                 /\ s.id = r.id
                 /\ \/ /\ r.votes = s.votes
                       /\ \A x \in Held(p, Votes) \cap batch :
                             ~(Changing(x, "polls") /\ x.row.id = r.id)
                    \/ \E x \in Held(p, Votes) \cap batch :
                          Changing(x, "polls") /\ x.row.id = r.id /\ r.votes = x.row.votes
<1>1. "polls" \in Tables \ Keyed /\ Commits(batch)
  BY TablesAssumption DEF SocialTables, Keyed, Gives
<1>2. \A w \in batch : w.on = "polls" => w \in Held(p, Votes)
  BY DEF Gives, On, Votes
<1>3. CASE Inserts(batch, "polls", r)
  BY <1>2, <1>3 DEF Inserts, NewIn
<1>4. CASE \E s \in store["polls"] : r = After("polls", batch, s)
  <2>1. PICK s \in store["polls"] : r = After("polls", batch, s)
    BY <1>4
  <2>2. {"id", "born", "votes"} \subseteq DOMAIN s
    BY StoreTypes DEF Poll
  <2>3. r.id = s.id /\ \/ r = s /\ Changes("polls", batch, s) = {}
                       \/ Altered("polls", batch, s, r)
    BY <1>1, <2>1, <2>2, AfterIs
  <2>4. CASE r = s /\ Changes("polls", batch, s) = {}
    BY <2>3, <2>4 DEF Changes, Changing
  <2>5. CASE Altered("polls", batch, s, r)
    <3>1. PICK w \in batch : /\ w.on = "polls" /\ w.op \in {"update", "patch"}
                             /\ w.row.id = s.id
                             /\ \A c \in DOMAIN w.row : r[c] = w.row[c]
      BY <2>5 DEF Altered
    <3>2. w \in Held(p, Votes) /\ Changing(w, "polls")
      BY <1>2, <3>1 DEF Changing
    <3>3. PICK v \in Held(p, Votes) : v.on = "answers" /\ v.row.kind = "vote"
      BY <3>2 DEF VotesInv
    <3>4. Casting(p, v)
      BY <3>3 DEF VotesInv
    <3>5. "votes" \in DOMAIN w.row
      BY <3>1, <3>2, <3>4 DEF Casting
    <3>6. r["votes"] = w.row["votes"]
      BY <3>1, <3>5
    <3> QED BY <2>3, <3>1, <3>2, <3>6
  <2> QED BY <2>3, <2>4, <2>5
<1> QED BY <1>1, <1>3, <1>4, CommitAfter

LEMMA VotesGives ==
    ASSUME TypeInv, VotesInv, NEW p \in Workers, NEW batch, Gives(p, batch, Votes),
           OnceInv(Votes)'
    PROVE  VotesInv'
<1>1. /\ {"polls", "answers"} \subseteq Tables \ Keyed
      /\ served' = served /\ served \in Nat /\ Commits(batch)
      /\ \A q \in Workers : Held(q, Votes)' \in {Held(q, Votes), {}}
      /\ \A w \in batch : w.on \in Votes =>
            /\ w \in Held(p, Votes) /\ Held(p, Votes)' = {}
            /\ Held(p, Votes) \subseteq batch
  BY TablesAssumption, StoreTypes DEF SocialTables, Keyed, Gives, Spent, Commits, On
<1>2. Solo("polls", Votes)'
  BY <1>1, SoloGives DEF VotesInv, Votes
<1> DEFINE New(a) == \E w \in Held(p, Votes) :
                 /\ w.on = "answers" /\ Casting(p, w) /\ w \in batch
                 /\ a.id = w.row.id /\ a.born = served /\ a.about = w.row.about
\* An answer is new, or one that was there.
<1>3. ASSUME NEW a \in store'["answers"], a.kind = "vote"
      PROVE  a \in store["answers"] \/ New(a)
  <2>1. CASE Inserts(batch, "answers", a)
    <3>1. PICK w \in batch : /\ w.on = "answers"
                             /\ a.id = w.row.id /\ a.born = served
                             /\ \A c \in DOMAIN w.row : a[c] = w.row[c]
      BY <2>1 DEF Inserts
    <3>2. w \in Held(p, Votes)
      BY <1>1, <3>1 DEF Votes
    <3>3. w.row.kind = "vote"
      BY <1>3, <3>1, <3>2 DEF VotesInv
    <3>4. Casting(p, w)
      BY <3>1, <3>2, <3>3 DEF VotesInv
    <3>5. a.about = w.row.about
      BY <3>1, <3>4 DEF Casting
    <3> QED BY <3>1, <3>2, <3>4, <3>5
  <2>2. CASE \E s \in store["answers"] : a = After("answers", batch, s)
    <3>1. \A s : Changes("answers", batch, s) = {}
      BY <1>1 DEF VotesInv, Changes, Votes
    <3> QED BY <2>2, <3>1 DEF After
  <2> QED BY <1>1, <2>1, <2>2, CommitAfter
\* No answer is taken back.
<1>4. store["answers"] \subseteq store'["answers"]
  <2>1. \A w \in batch : w.on = "answers" => w.op = "insert"
    BY <1>1 DEF VotesInv, Votes
  <2>2. \A s \in store["answers"] : References(s) = {}
    BY DEF VotesInv
  <2>3. store' = Stored(batch) /\ "answers" \in Tables
    BY <1>1 DEF Commits
  <2> QED BY <2>1, <2>2, <2>3, CommitKeeps
<1>5. \A b : Contested(b) => Contested(b)'
  BY <1>4 DEF Contested, Overlapped
<1>6. \A b \in store'["answers"] : References(b) = {}
  <2>1. ASSUME NEW b \in store'["answers"], Inserts(batch, "answers", b)
        PROVE  References(b) = {}
    <3>1. PICK w \in batch : w.on = "answers" /\ b = Overlay(w.row, [born |-> served])
      BY <2>1 DEF Inserts
    <3>2. References(w.row) = {}
      BY <1>1, <3>1 DEF VotesInv, Votes
    <3>3. DOMAIN b = DOMAIN w.row \cup {"born"}
      BY <3>1 DEF Overlay
    <3> QED BY <3>2, <3>3 DEF References, Parent
  <2>2. \A s : After("answers", batch, s) = s
    <3>1. \A s : Changes("answers", batch, s) = {}
      BY <1>1 DEF VotesInv, Changes, Votes
    <3> QED BY <3>1 DEF After
  <2> QED BY <1>1, <2>1, <2>2, CommitAfter DEF VotesInv
<1> HIDE DEF New
\* What is written to a poll is a vote on it, and that vote is confirmed.
<1>7. ASSUME NEW x \in Held(p, Votes), x \in batch, Changing(x, "polls")
      PROVE  \E a \in store'["answers"] : \E w \in Held(p, Votes) :
                /\ a.kind = "vote" /\ a.about[1] = x.row.id /\ a.born = served
                /\ a.id = w.row.id /\ a.about = w.row.about
                /\ w.on = "answers" /\ w.row.kind = "vote"
  <2>1. PICK w \in Held(p, Votes) : w.on = "answers" /\ w.row.kind = "vote"
    BY <1>7 DEF VotesInv
  <2>2. /\ w.op = "insert" /\ "kind" \in DOMAIN w.row /\ "about" \in DOMAIN w.row
        /\ w.row.about[1] = x.row.id
    BY <1>7, <2>1 DEF VotesInv, Casting, Changing
  <2>3. w \in batch
    BY <1>1, <1>7, <2>1 DEF Votes, Changing
  <2> DEFINE a == Overlay(w.row, [born |-> served])
  <2>4. a \in store'["answers"]
    <3>1. store' = Stored(batch) /\ "answers" \in Tables
      BY <1>1 DEF Commits
    <3> QED BY <2>1, <2>2, <2>3, <3>1, StoredTables DEF Written
  <2>5. Sound(w, served)
    BY <1>1, <2>3 DEF Commits, TypeInv, Ok
  <2>6. /\ a.born = served /\ a.id = w.row.id /\ a.kind = "vote" /\ a.about = w.row.about
    BY <2>1, <2>2, <2>5 DEF Sound, Overlay
  <2> QED BY <2>1, <2>2, <2>4, <2>6
<1>8. ASSUME NEW q \in Workers, NEW w \in Held(q, Votes)', w.on = "answers",
             w.row.kind = "vote"
      PROVE  Casting(q, w)'
  <2>1. w \in Held(q, Votes) /\ Held(q, Votes)' = Held(q, Votes)
    BY <1>1
  <2>2. Casting(q, w) /\ w.op = "insert"
    BY <1>8, <2>1 DEF VotesInv
  <2>3. w.row.id <= served
    BY <1>1, <1>8, <2>1, <2>2, NewNumber DEF NewIn
  <2>4. ASSUME NEW x \in Held(q, Votes), x.on = "polls", NEW b \in store'["answers"],
               b.kind = "vote", b.about[1] = w.row.about[1]
        PROVE  HasVoted(x.row.votes, b.about[2]) \/ w.row.id <= b.born \/ Contested(b)'
    <3>1. CASE b \in store["answers"]
      BY <1>5, <2>2, <2>4, <3>1 DEF Casting
    <3>2. CASE New(b)
      BY <2>3, <3>2 DEF New
    <3> QED BY <1>3, <2>4, <3>1, <3>2
  <2>5. \/ \E x \in Held(q, Votes) : x.on = "polls"
        \/ \A r \in store'["polls"] : r.id = w.row.about[1] => HasVoted(r.votes, w.row.about[2])
        \/ \E c \in store'["answers"] :
              c.kind = "vote" /\ c.about[1] = w.row.about[1] /\ w.row.id <= c.born
    <3>1. CASE \A r \in store["polls"] : r.id = w.row.about[1] => HasVoted(r.votes, w.row.about[2])
      <4>1. ASSUME NEW r \in store'["polls"], r.id = w.row.about[1],
                   ~HasVoted(r.votes, w.row.about[2])
            PROVE  \E c \in store'["answers"] :
                      c.kind = "vote" /\ c.about[1] = w.row.about[1] /\ w.row.id <= c.born
        <5>1. \A v \in Held(p, Votes) : ~(NewIn(v, "polls") /\ r.id = v.row.id)
          BY <2>2, <4>1 DEF Casting
        <5>2. PICK x \in Held(p, Votes) \cap batch : Changing(x, "polls") /\ x.row.id = r.id
          BY <3>1, <4>1, <5>1, PollsAfter
        <5>3. PICK c \in store'["answers"] :
                  c.kind = "vote" /\ c.about[1] = x.row.id /\ c.born = served
          BY <1>7, <5>2
        <5> QED BY <2>3, <4>1, <5>2, <5>3
      <4> QED BY <4>1
    <3>2. CASE \E c \in store["answers"] :
                   c.kind = "vote" /\ c.about[1] = w.row.about[1] /\ w.row.id <= c.born
      BY <1>4, <3>2
    <3> QED BY <2>2, <3>1, <3>2 DEF Casting
  <2> QED BY <1>1, <2>1, <2>2, <2>4, <2>5 DEF Casting
<1>9. ASSUME NEW q \in Workers, NEW w \in Held(q, Votes)'
      PROVE  /\ Changing(w, "polls") =>
                   \E v \in Held(q, Votes)' : v.on = "answers" /\ v.row.kind = "vote"
             /\ w.on = "answers" =>
                   /\ w.op = "insert" /\ "kind" \in DOMAIN w.row /\ References(w.row) = {}
                   /\ w.row.kind = "vote" => Casting(q, w)'
  <2>1. w \in Held(q, Votes) /\ Held(q, Votes)' = Held(q, Votes)
    BY <1>1
  <2> QED BY <1>8, <2>1 DEF VotesInv
<1>10. ASSUME NEW b \in store'["answers"], b.kind = "vote" PROVE Cast(b)'
  <2>1. CASE b \in store["answers"]
    <3>1. Cast(b)
      BY <1>10, <2>1 DEF VotesInv
    <3> QED BY <1>1, <3>1 DEF Cast
  <2>2. CASE New(b)
    BY <1>1, <2>2 DEF New, Casting, Cast
  <2> QED BY <1>3, <1>10, <2>1, <2>2
<1>11. ASSUME NEW b \in store'["answers"], NEW r \in store'["polls"],
              b.kind = "vote", b.about[1] = r.id
       PROVE  HasVoted(r.votes, b.about[2]) \/ Contested(b)'
  <2>1. CASE b \in store["answers"]
    <3>1. \A v \in Held(p, Votes) : ~(NewIn(v, "polls") /\ r.id = v.row.id)
      BY <1>11, <2>1 DEF VotesInv, Cast
    <3>2. CASE \E s \in store["polls"] : s.id = r.id /\ r.votes = s.votes
      BY <1>5, <1>11, <2>1, <3>2 DEF VotesInv
    <3>3. CASE \E x \in Held(p, Votes) \cap batch :
                   Changing(x, "polls") /\ x.row.id = r.id /\ r.votes = x.row.votes
      <4>1. PICK x \in Held(p, Votes) \cap batch :
                Changing(x, "polls") /\ x.row.id = r.id /\ r.votes = x.row.votes
        BY <3>3
      <4>2. PICK a \in store'["answers"], w \in Held(p, Votes) :
                /\ a.kind = "vote" /\ a.about[1] = x.row.id /\ a.born = served
                /\ a.id = w.row.id /\ a.about = w.row.about
                /\ w.on = "answers" /\ w.row.kind = "vote"
        BY <1>7, <4>1
      <4>3. /\ HasVoted(x.row.votes, w.row.about[2])
            /\ HasVoted(x.row.votes, b.about[2]) \/ w.row.id <= b.born \/ Contested(b)
        BY <1>11, <2>1, <4>1, <4>2 DEF VotesInv, Casting, Changing
      <4>4. b.id \in Int /\ b.id <= served
        BY <1>1, <2>1, RowNumbers
      <4>5. ASSUME w.row.id <= b.born, a # b PROVE Contested(b)'
        BY <1>11, <4>1, <4>2, <4>4, <4>5 DEF Contested, Overlapped
      <4> QED BY <1>5, <4>1, <4>2, <4>3, <4>5
    <3> QED BY <3>1, <3>2, <3>3, PollsAfter
  <2>2. CASE b \notin store["answers"] /\ New(b)
    <3>1. PICK w \in Held(p, Votes) :
              /\ w.on = "answers" /\ Casting(p, w) /\ w \in batch
              /\ b.id = w.row.id /\ b.born = served /\ b.about = w.row.about
      BY <2>2 DEF New
    <3>2. \A v \in Held(p, Votes) : ~(NewIn(v, "polls") /\ r.id = v.row.id)
      BY <1>11, <3>1 DEF Casting
    <3>3. CASE \E x \in Held(p, Votes) : x.on = "polls" /\ r.votes = x.row.votes
      BY <3>1, <3>3 DEF Casting
    <3>4. ASSUME NEW s \in store["polls"], s.id = r.id, r.votes = s.votes,
                 \A x \in Held(p, Votes) \cap batch : ~(Changing(x, "polls") /\ x.row.id = r.id)
          PROVE  HasVoted(r.votes, b.about[2]) \/ Contested(b)'
      <4>1. \A x \in Held(p, Votes) : x.on # "polls"
        BY <1>1, <1>11, <3>1, <3>4 DEF Casting, Votes
      <4>2. CASE HasVoted(s.votes, w.row.about[2])
        BY <3>1, <3>4, <4>2
      <4>3. CASE \E c \in store["answers"] :
                     c.kind = "vote" /\ c.about[1] = w.row.about[1] /\ w.row.id <= c.born
        <5>1. PICK c \in store["answers"] :
                  c.kind = "vote" /\ c.about[1] = w.row.about[1] /\ w.row.id <= c.born
          BY <4>3
        <5>2. c \in store'["answers"] /\ c # b /\ c.id <= served
          BY <1>1, <1>4, <2>2, <5>1, RowNumbers
        <5> QED BY <3>1, <5>1, <5>2 DEF Contested, Overlapped
      <4> QED BY <1>11, <3>1, <3>4, <4>1, <4>2, <4>3 DEF Casting
    <3> QED BY <3>2, <3>3, <3>4, PollsAfter DEF Changing
  <2> QED BY <1>3, <1>11, <2>1, <2>2
<1> QED BY <1>2, <1>6, <1>9, <1>10, <1>11 DEF VotesInv

\* A poll that expires keeps its votes.
LEMMA VotesTime ==
    ASSUME TypeInv, VotesInv, Clock, OnceInv(Votes)',
           \A p \in Workers : Held(p, Votes)' = Held(p, Votes)
    PROVE  VotesInv'
<1>1. served' = served /\ store'["answers"] = store["answers"]
  BY ClockSteps, TablesAssumption DEF SessionTables, SocialTables
<1>2. CASE store'["polls"] = store["polls"]
  <2>1. Rests(Votes)
    BY <1>1, <1>2 DEF Rests, Spent, Votes
  <2> QED BY <2>1, VotesRests
<1>3. CASE \E r \in store["polls"] :
               store'["polls"] = (store["polls"] \ {r}) \cup {[r EXCEPT !.expired = TRUE]}
  <2>1. PICK r \in store["polls"] :
               store'["polls"] = (store["polls"] \ {r}) \cup {[r EXCEPT !.expired = TRUE]}
    BY <1>3
  <2> DEFINE x == [r EXCEPT !.expired = TRUE]
  <2>2. x.id = r.id /\ x.votes = r.votes
    BY StoreTypes DEF Poll
  <2> HIDE DEF x
  <2>3. Solo("polls", Votes)'
    BY <2>1, <2>2, SoloTime DEF VotesInv, x
  <2>4. \A y \in store'["polls"] :
            \E s \in store["polls"] : s.id = y.id /\ s.votes = y.votes
    BY <2>1, <2>2 DEF x
  <2>5. \A b : Contested(b)' <=> Contested(b)
    BY <1>1 DEF Contested, Overlapped
  <2>6. ASSUME NEW p \in Workers, NEW w \in Held(p, Votes), Casting(p, w) PROVE Casting(p, w)'
    <3>1. (\A s \in store["polls"] : s.id = w.row.about[1] => HasVoted(s.votes, w.row.about[2]))
          => \A y \in store'["polls"] : y.id = w.row.about[1] => HasVoted(y.votes, w.row.about[2])
      BY <2>4
    <3> QED BY <1>1, <2>5, <2>6, <3>1 DEF Casting
  <2>7. ASSUME NEW p \in Workers, NEW w \in Held(p, Votes)'
        PROVE  /\ Changing(w, "polls") =>
                     \E v \in Held(p, Votes)' : v.on = "answers" /\ v.row.kind = "vote"
               /\ w.on = "answers" =>
                     /\ w.op = "insert" /\ "kind" \in DOMAIN w.row /\ References(w.row) = {}
                     /\ w.row.kind = "vote" => Casting(p, w)'
    <3>1. w \in Held(p, Votes)
      OBVIOUS
    <3> QED BY <2>6, <3>1 DEF VotesInv
  <2>8. \A b \in store'["answers"] : References(b) = {} /\ (b.kind = "vote" => Cast(b)')
    BY <1>1 DEF VotesInv, Cast
  <2>9. \A b \in store'["answers"] : \A y \in store'["polls"] :
            b.kind = "vote" /\ b.about[1] = y.id => HasVoted(y.votes, b.about[2]) \/ Contested(b)'
    BY <1>1, <2>4, <2>5 DEF VotesInv
  <2> QED BY <2>3, <2>7, <2>8, <2>9 DEF VotesInv
<1> QED BY <1>2, <1>3, TimeExpires

LEMMA VotesInit ==
    ASSUME Init
    PROVE  VotesInv
<1>1. OnceInv(Votes) /\ \A p \in Workers : Held(p, Votes) = {}
  BY OnceAtFirst
<1>2. "polls" \in Tables /\ "answers" \in Tables
  BY TablesAssumption DEF SocialTables
<1>3. store["answers"] = {}
  <2>1. \A f \in DOMAIN Seeded : "answers" \notin Seeded[f]
    BY DEF Seeded
  <2> QED BY <1>2, <2>1, EmptyAtFirst
<1>4. PICK u, w : store["polls"] \in {{}, Rows(u, w)["polls"]}
  BY <1>2, FirstOrNone
<1>5. \A r, s \in Rows(u, w)["polls"] : r = s
  BY DEF Rows
<1> QED BY <1>1, <1>3, <1>4, <1>5 DEF VotesInv, Solo

LEMMA VotesNext ==
    ASSUME TypeInv, VotesInv, [Next]_vars
    PROVE  VotesInv'
<1>1. Votes \subseteq Tables /\ Votes \cap LaterWrites = {} /\ Votes \subseteq Tokens
  BY TablesAssumption DEF SocialTables, LaterWrites, Votes, Tokens
<1>2. OnceInv(Votes)
  BY DEF VotesInv
<1>3. ASSUME NEW p \in Workers, Request(p) PROVE VotesInv'
  BY <1>1, <1>2, <1>3, TokenRequest, VotesRests, VotesTakes
<1> QED BY <1>1, <1>2, <1>3, HeldSteps, VotesRests, VotesGives, VotesTime

\* Every map of votes that is about to be written keeps the votes that were
\* confirmed before its request, whichever of them commits first.
THEOREM VotesHold == Spec => []VotesInv
<1>1. Init => VotesInv
  BY VotesInit
<1>2. TypeInv /\ VotesInv /\ [Next]_vars => VotesInv'
  BY VotesNext
<1> QED BY <1>1, <1>2, TypesHold, PTL DEF Spec

\* A confirmed vote counts, unless another on the same poll was in flight with
\* it.
THEOREM VotesKeptApart == Spec => []VotesLostOnlyTogether
<1>1. VotesInv => VotesLostOnlyTogether
  BY DEF VotesInv, VotesLostOnlyTogether, HasVoted, Contested
<1> QED BY <1>1, VotesHold, PTL

-----------------------------------------------------------------------------
(* The uploads and the answers, whose numbers nothing else has.             *)

\* A request that writes to these tables in its first commit only.
LEMMA HeldFirst ==
    ASSUME TypeInv, NEW D, OnceInv(D), NEW p \in Workers, NEW batches, Begin(p, batches),
           1 \in DOMAIN batches,
           \A i \in DOMAIN batches : i = 1 \/ On(batches[i], D) = {}
    PROVE  OnceInv(D)' /\ Takes(p, batches[1], D)
<1>1. /\ tx[p] = <<>> /\ tx'[p] = batches
      /\ \A q \in Workers \ {p} : tx'[q] = tx[q]
      /\ store' = store /\ served' = Self
  BY DEF Begin, TypeInv, UnitInv
<1>2. Held(p, D) = {}
  BY <1>1 DEF Held
<1>3. Once(p, D)' /\ Held(p, D)' = On(batches[1], D)
  BY <1>1 DEF Once, Held
<1>4. \A q \in Workers \ {p} : Once(q, D)' /\ Held(q, D)' = Held(q, D)
  BY <1>1, HeldStays DEF OnceInv
<1> QED BY <1>1, <1>2, <1>3, <1>4 DEF OnceInv, Takes

Directories == {"uploads"}

UploadsInv == OnceInv(Directories) /\ Solo("uploads", Directories)

UploadBatch(a) ==
    \A w, v \in a : NewIn(w, "uploads") => w.row.id = Self /\ (NewIn(v, "uploads") => v = w)

\* The batches of complete_upload.
LEMMA Completions ==
    ASSUME NEW p, NEW i, NEW encrypt \in BOOLEAN, complete_upload(p, i, encrypt)
    PROVE  \E batches :
              /\ Begin(p, batches) /\ 1 \in DOMAIN batches /\ batches[1] = assemble_chunks(i)
              /\ \A k \in DOMAIN batches :
                    \/ k = 1
                    \/ batches[k] = {Delete("media", Self)}
                    \/ batches[k] = {Insert("encrypted_media", [id |-> Self])}
<1> DEFINE first == << assemble_chunks(i) >>
           x == {Delete("media", Self)}
           y == {Insert("encrypted_media", [id |-> Self])}
           G == {x, y}
           tail == IF encrypt THEN <<x, y>> ELSE <<>>
           all == first \o tail
<1>1. Begin(p, all)
  BY DEF complete_upload
<1> HIDE DEF x, y
<1>2. <<x, y>> \in Seq(G) /\ <<>> \in Seq(G)
  OBVIOUS
<1> HIDE DEF G
<1>3. tail \in Seq(G)
  BY <1>2
<1> HIDE DEF tail
<1>4. /\ DOMAIN all = 1..(1 + Len(tail)) /\ Len(tail) \in Nat /\ all[1] = assemble_chunks(i)
      /\ \A k \in DOMAIN all : k = 1 \/ all[k] \in G
  BY <1>3
<1> HIDE DEF all
<1>5. \A k \in DOMAIN all : \/ k = 1
                            \/ all[k] = {Delete("media", Self)}
                            \/ all[k] = {Insert("encrypted_media", [id |-> Self])}
  BY <1>4 DEF G, x, y
<1> QED BY <1>1, <1>4, <1>5

LEMMA AssembleWrites ==
    ASSUME NEW i
    PROVE  /\ \A w \in assemble_chunks(i) :
                 \/ /\ w.op = "insert" /\ w.on = "media" /\ DOMAIN w.row = {"id", "upload", "parts"}
                    /\ w.row.id = Self /\ w.row.upload = i /\ w.row.parts = ReadChunks(i)
                 \/ w.op = "delete" /\ w.on = "uploads"
           /\ \A w \in {Delete("media", Self)} : w.op = "delete" /\ w.on = "media"
           /\ \A w \in {Insert("encrypted_media", [id |-> Self])} : w.on = "encrypted_media"
BY DEF assemble_chunks, Insert, Delete

\* The batches of upload_chunk: the file is opened, and then all written.
Opened(k, i, c) ==
    {Delete("chunks", <<i, c>>),
     Insert("chunks", [id |-> <<i, c>>, directory |-> i, chunk |-> c, writer |-> k])}

Filled(k, i, c) == {Insert("answers", [id |-> k, kind |-> "chunk", about |-> <<i, c>>])}

LEMMA ChunkBatches ==
    ASSUME NEW p, NEW i, NEW c, upload_chunk(p, i, c)
    PROVE  /\ Begin(p, << Opened(Self, i, c), Filled(Self, i, c) >>)
           /\ \E u \in store["uploads"] : u.id = i
<1> DEFINE row == [id |-> <<i, c>>, directory |-> i, chunk |-> c, writer |-> Self]
<1>1. PICK u \in store["uploads"] :
          u.id = i /\ Begin(p, << Put("chunks", row), Answer("chunk", <<i, c>>) >>)
  BY DEF upload_chunk
<1>2. Put("chunks", row) = Opened(Self, i, c)
  <2>1. row.id = <<i, c>>
    OBVIOUS
  <2> QED BY <2>1 DEF Put, Opened
<1>3. Answer("chunk", <<i, c>>) = Filled(Self, i, c)
  BY DEF Answer, Filled
<1> HIDE DEF row
<1> QED BY <1>1, <1>2, <1>3

LEMMA ChunkWrites ==
    ASSUME NEW k, NEW i, NEW c
    PROVE  /\ \A w \in Opened(k, i, c) : w.on = "chunks"
           /\ \A w \in Filled(k, i, c) : w.on = "answers"
           /\ \A w \in Opened(k, i, c) \cup Filled(k, i, c) : w.op \in Writes
BY DEF Opened, Filled, Insert, Delete, Writes

LEMMA UploadsRequest ==
    ASSUME TypeInv, OnceInv(Directories), NEW p \in Workers, Request(p)
    PROVE  /\ OnceInv(Directories)'
           /\ Rests(Directories) \/ \E a : UploadBatch(a) /\ Takes(p, a, Directories)
<1> DEFINE others == {RelationWrites, FeedReads, ModerationWrites, DecisionWrites, ChatWrites,
              ChatExtraWrites, PostWrites, MarkWrites, MemberWrites, GroupWrites, SessionWrites,
              TokenWrites, PollWrites, SocialWrites, AccountWrites, CatalogTables}
<1>1. \A T \in others : T \cap Directories = {}
  BY DEF Directories, RelationWrites, FeedReads, ModerationWrites, DecisionWrites, ChatWrites,
         ChatExtraWrites, PostWrites, MarkWrites, MemberWrites, GroupWrites, SessionWrites,
         TokenWrites, PollWrites, SocialWrites, AccountWrites,
         CatalogTables, EnterpriseTables, RegionalTables, PlatformTables
<1>2. UploadRoutes(p) \/ \E T \in others : Opens(p, T)
  BY Requests
<1> HIDE DEF others
<1>3. CASE \E T \in others : Opens(p, T)
  BY <1>1, <1>3, HeldElsewhere
<1>4. CASE initiate_upload(p)
  <2> DEFINE a == {Insert("uploads", [id |-> Self])}
  <2>1. Begin(p, <<a>>)
    BY <1>4 DEF initiate_upload
  <2>2. UploadBatch(a)
    BY DEF UploadBatch, Insert, NewIn
  <2> HIDE DEF a
  <2> QED BY <2>1, <2>2, HeldBegin
<1>5. ASSUME NEW i \in Uploads, NEW c \in Chunks, upload_chunk(p, i, c)
      PROVE  OnceInv(Directories)' /\ Rests(Directories)
  <2> DEFINE x == Opened(Self, i, c)
             y == Filled(Self, i, c)
             all == <<x, y>>
  <2>1. Begin(p, all)
    BY <1>5, ChunkBatches
  <2>2. On(x, Directories) = {} /\ On(y, Directories) = {}
    BY ChunkWrites DEF On, Directories
  <2> HIDE DEF x, y
  <2>3. \A b \in Parts(all) : b = x \/ b = y
    BY DEF Parts
  <2> HIDE DEF all
  <2> QED BY <2>1, <2>2, <2>3, HeldNone
<1>6. ASSUME NEW i \in Uploads, NEW encrypt \in BOOLEAN, complete_upload(p, i, encrypt)
      PROVE  /\ OnceInv(Directories)'
             /\ \E a : UploadBatch(a) /\ Takes(p, a, Directories)
  <2>1. PICK batches :
              /\ Begin(p, batches) /\ 1 \in DOMAIN batches /\ batches[1] = assemble_chunks(i)
              /\ \A k \in DOMAIN batches :
                    \/ k = 1
                    \/ batches[k] = {Delete("media", Self)}
                    \/ batches[k] = {Insert("encrypted_media", [id |-> Self])}
    BY <1>6, Completions
  <2>2. On({Delete("media", Self)}, Directories) = {}
        /\ On({Insert("encrypted_media", [id |-> Self])}, Directories) = {}
    BY AssembleWrites DEF On, Directories
  <2>3. \A k \in DOMAIN batches : k = 1 \/ On(batches[k], Directories) = {}
    BY <2>1, <2>2
  <2>4. UploadBatch(assemble_chunks(i))
    BY AssembleWrites DEF UploadBatch, NewIn
  <2> QED BY <2>1, <2>3, <2>4, HeldFirst
<1> QED BY <1>2, <1>3, <1>4, <1>5, <1>6 DEF UploadRoutes

\* A directory is made once: those about to be made have numbers of their own.
LEMMA UploadsNext ==
    ASSUME TypeInv, UploadsInv, [Next]_vars
    PROVE  /\ UploadsInv'
           /\ served' \in Nat /\ served <= served'
           /\ \A q \in Workers : \A v \in Held(q, Directories)' :
                 NewIn(v, "uploads") => v \in Held(q, Directories) \/ v.row.id = served + 1
<1>1. /\ "uploads" \in Tables \ Keyed /\ "uploads" \in Directories
      /\ Directories \subseteq Tables /\ Directories \cap LaterWrites = {}
      /\ Directories \cap Timed = {} /\ served \in Nat /\ Self = served + 1
  BY TablesAssumption, StoreTypes
     DEF SocialTables, Directories, Keyed, LaterWrites, Timed, Self
<1>2. CASE OnceInv(Directories)' /\ Rests(Directories)
  BY <1>1, <1>2, SoloRests DEF UploadsInv, Rests, Spent
<1>3. ASSUME NEW p \in Workers, NEW a, UploadBatch(a), Takes(p, a, Directories),
             OnceInv(Directories)'
      PROVE  /\ UploadsInv' /\ served' = Self
             /\ \A q \in Workers : \A v \in Held(q, Directories)' :
                   NewIn(v, "uploads") => v \in Held(q, Directories) \/ v.row.id = Self
  <2>1. Solo("uploads", Directories)'
    BY <1>1, <1>3, SoloTakes DEF UploadsInv, UploadBatch
  <2>2. \A q \in Workers : \A v \in Held(q, Directories)' :
            v \in Held(q, Directories) \/ v \in a
    BY <1>3 DEF Takes, On
  <2> QED BY <1>3, <2>1, <2>2 DEF UploadsInv, UploadBatch, Takes
<1>4. ASSUME NEW p \in Workers, NEW batch, Gives(p, batch, Directories), OnceInv(Directories)'
      PROVE  /\ UploadsInv' /\ served' = served
             /\ \A q \in Workers : \A v \in Held(q, Directories)' : v \in Held(q, Directories)
  BY <1>1, <1>4, SoloGives DEF UploadsInv, Gives, Spent, Commits
<1>5. OnceInv(Directories)
  BY DEF UploadsInv
<1>6. ASSUME NEW p \in Workers, Request(p)
      PROVE  \/ OnceInv(Directories)' /\ Rests(Directories)
             \/ \E a : /\ UploadBatch(a) /\ Takes(p, a, Directories)
                       /\ OnceInv(Directories)'
  BY <1>5, <1>6, UploadsRequest
<1> QED BY <1>1, <1>2, <1>3, <1>4, <1>5, <1>6, HeldSteps

Told == {"answers"}

\* An answer is inserted, under a number that no other has.
AnswersInv ==
    /\ OnceInv(Told) /\ Solo("answers", Told)
    /\ \A p \in Workers : \A w \in Held(p, Told) :
          w.op = "insert" /\ {"kind", "about"} \subseteq DOMAIN w.row

LEMMA AnswersNext ==
    ASSUME TypeInv, AnswersInv, [Next]_vars
    PROVE  AnswersInv'
<1>1. /\ "answers" \in Tables \ Keyed /\ "answers" \in Told /\ Told \subseteq Tokens
      /\ Told \subseteq Tables /\ Told \cap LaterWrites = {} /\ Told \cap Timed = {}
  BY TablesAssumption DEF SocialTables, Told, Tokens, Keyed, LaterWrites, Timed
<1>2. CASE OnceInv(Told)' /\ Rests(Told)
  BY <1>1, <1>2, SoloRests DEF AnswersInv, Rests, Spent
<1>3. ASSUME NEW p \in Workers, NEW a, TokenBatch(a), Takes(p, a, Told), OnceInv(Told)'
      PROVE  AnswersInv'
  <2>1. Solo("answers", Told)'
    BY <1>1, <1>3, SoloTakes DEF AnswersInv, TokenBatch
  <2>2. \A w \in On(a, Told) : w.op = "insert" /\ {"kind", "about"} \subseteq DOMAIN w.row
    BY <1>3 DEF On, Told, TokenBatch, AnswerOk, AnswerAlone
  <2> QED BY <1>3, <2>1, <2>2 DEF AnswersInv, Takes
<1>4. ASSUME NEW p \in Workers, NEW batch, Gives(p, batch, Told), OnceInv(Told)'
      PROVE  AnswersInv'
  BY <1>1, <1>4, SoloGives DEF AnswersInv, Gives, Spent
<1>5. OnceInv(Told)
  BY DEF AnswersInv
<1>6. ASSUME NEW p \in Workers, Request(p)
      PROVE  \/ OnceInv(Told)' /\ Rests(Told)
             \/ \E a : TokenBatch(a) /\ Takes(p, a, Told) /\ OnceInv(Told)'
  BY <1>1, <1>5, <1>6, TokenRequest
<1> QED BY <1>1, <1>2, <1>3, <1>4, <1>5, <1>6, HeldSteps

-----------------------------------------------------------------------------
(* The files of an upload and what is made of them.                         *)

Exists(i) == \E u \in store["uploads"] : u.id = i
HasFile(i, c) == \E r \in store["chunks"] : r.id = <<i, c>>

\* The number of an upload there was: no other will have it.
Sought(i) ==
    /\ i \in Int /\ i <= served
    /\ \A q \in Workers : \A v \in Held(q, Directories) :
          NewIn(v, "uploads") => v.row.id # i

\* A batch that writes no chunk, and confirms none.
Chunkless(b) ==
    \A w \in b : w.on # "chunks" /\ (w.on = "answers" => w.row.kind # "chunk")

\* What a worker has before it: no chunk, or one whose file it is about to
\* open, or to confirm; then the file is there as long as its directory is.
Uploading(p) ==
    \/ \A n \in DOMAIN tx[p] : Chunkless(tx[p][n])
    \/ \E k, i, c : Sought(i) /\ tx[p] = << Opened(k, i, c), Filled(k, i, c) >>
    \/ \E k, i, c : /\ Sought(i) /\ tx[p] = << Filled(k, i, c) >>
                    /\ Exists(i) => HasFile(i, c)

\* The file of a confirmed chunk is there as long as its directory is.
Saved(a) ==
    \E i, c : a.about = <<i, c>> /\ Sought(i) /\ (Exists(i) => HasFile(i, c))

Assembled(f) ==
    \A a \in store["answers"] :
        a.kind = "chunk" /\ a.about[1] = f.upload /\ a.born < f.id =>
            \E part \in f.parts : /\ part.chunk = a.about[2]
                                  /\ part.whole = TRUE \/ part.writer # a.id

MediaFits(b) ==
    \A w \in b : w.on = "media" =>
        /\ w.op \in {"insert", "delete"}
        /\ w.op = "insert" => {"upload", "parts"} \subseteq DOMAIN w.row /\ Assembled(w.row)

ChunkColumns == {"id", "born", "directory", "chunk", "writer"}

FilesInv ==
    /\ UploadsInv /\ AnswersInv
    /\ \A p \in Workers : Uploading(p)
    /\ \A r \in store["chunks"] : DOMAIN r = ChunkColumns /\ r.id = <<r.directory, r.chunk>>
    /\ \A a \in store["answers"] : a.kind = "chunk" => Saved(a)
    /\ \A b \in Open : MediaFits(b)
    /\ \A f \in store["media"] : Assembled(f)

Filing == {"chunks", "answers", "media", "uploads"}

LEMMA FilingTables ==
    /\ Filing \subseteq Tables /\ {"answers", "media", "uploads"} \subseteq Tables \ Keyed
    /\ Filing \cap LaterWrites = {} /\ Filing \cap Timed = {}
BY TablesAssumption DEF SocialTables, Filing, Keyed, LaterWrites, Timed

LEMMA SoughtStays ==
    ASSUME TypeInv, FilesInv, [Next]_vars, NEW i, Sought(i)
    PROVE  Sought(i)'
<1>1. /\ served' \in Nat /\ served <= served' /\ served \in Nat
      /\ \A q \in Workers : \A v \in Held(q, Directories)' :
            NewIn(v, "uploads") => v \in Held(q, Directories) \/ v.row.id = served + 1
  BY UploadsNext, StoreTypes DEF FilesInv
<1>2. i \in Int /\ i <= served' /\ i # served + 1
  BY <1>1 DEF Sought
<1> QED BY <1>1, <1>2 DEF Sought

\* An upload there is after a commit was there, and the commit left it.
LEMMA DirectoryStays ==
    ASSUME TypeInv, FilesInv, NEW p \in Workers, Commit(p), NEW i, Sought(i), Exists(i)'
    PROVE  Exists(i) /\ i \notin Gone("uploads", Head(tx[p]))
<1> DEFINE batch == Head(tx[p])
<1>1. Commits(batch) /\ "uploads" \in Tables \ Keyed
  BY CommitCloses, FilingTables DEF Commits, Commit, TypeInv
<1>2. PICK u \in store'["uploads"] : u.id = i
  BY DEF Exists
<1>3. \A w \in batch : NewIn(w, "uploads") => w.row.id # i
  <2>1. 1 \in DOMAIN tx[p] /\ batch = tx[p][1]
    BY CommitCloses DEF TypeInv
  <2>2. \A w \in batch : NewIn(w, "uploads") => w \in Held(p, Directories)
    BY <2>1 DEF Held, On, Directories, NewIn
  <2> QED BY <2>2 DEF Sought
<1> HIDE DEF batch
<1>4. CASE Inserted(batch, "uploads", u)
  BY <1>2, <1>3, <1>4 DEF Inserted, NewIn
<1>5. CASE Spared(batch, "uploads", u)
  BY <1>2, <1>5 DEF Spared, Exists, batch
<1>6. CASE Changed(batch, "uploads", u)
  BY <1>2, <1>6 DEF Changed, Exists, batch
<1> QED BY <1>1, <1>4, <1>5, <1>6, CommitRows DEF batch

\* A step that leaves the files and their answers alone.
LEMMA FilesStill ==
    ASSUME TypeInv, FilesInv, [Next]_vars,
           \A t \in Filing : store'[t] = store[t],
           \A p \in Workers : tx'[p] = tx[p] \/ Uploading(p)',
           \A b \in Open' : b \in Open \/ MediaFits(b)
    PROVE  FilesInv'
<1>1. UploadsInv' /\ AnswersInv'
  BY UploadsNext, AnswersNext DEF FilesInv
<1>2. /\ store'["chunks"] = store["chunks"] /\ store'["answers"] = store["answers"]
      /\ store'["media"] = store["media"] /\ store'["uploads"] = store["uploads"]
  BY DEF Filing
<1>3. \A i : Sought(i) => Sought(i)'
  BY SoughtStays
<1>4. \A i : Exists(i)' <=> Exists(i)
  BY <1>2 DEF Exists
<1>9. \A i, c : HasFile(i, c)' <=> HasFile(i, c)
  BY <1>2 DEF HasFile
<1>5. ASSUME NEW p \in Workers PROVE Uploading(p)'
  <2>1. CASE tx'[p] = tx[p]
    <3>1. Uploading(p)
      BY DEF FilesInv
    <3>2. CASE \A n \in DOMAIN tx[p] : Chunkless(tx[p][n])
      BY <2>1, <3>2 DEF Uploading
    <3>3. CASE \E k, i, c : Sought(i) /\ tx[p] = << Opened(k, i, c), Filled(k, i, c) >>
      BY <1>3, <2>1, <3>3 DEF Uploading
    <3>4. CASE \E k, i, c : /\ Sought(i) /\ tx[p] = << Filled(k, i, c) >>
                            /\ Exists(i) => HasFile(i, c)
      <4>1. PICK k, i, c : /\ Sought(i) /\ tx[p] = << Filled(k, i, c) >>
                           /\ Exists(i) => HasFile(i, c)
        BY <3>4
      <4>2. Sought(i)' /\ tx'[p] = << Filled(k, i, c) >> /\ (Exists(i)' => HasFile(i, c)')
        BY <1>3, <1>4, <1>9, <2>1, <4>1
      <4> QED BY <4>2 DEF Uploading
    <3> QED BY <3>1, <3>2, <3>3, <3>4 DEF Uploading
  <2> QED BY <2>1
<1>6. ASSUME NEW a \in store["answers"], a.kind = "chunk" PROVE Saved(a)'
  <2>1. Saved(a)
    BY <1>6 DEF FilesInv
  <2> QED BY <1>3, <1>4, <1>9, <2>1 DEF Saved
<1>7. \A f : Assembled(f)' <=> Assembled(f)
  BY <1>2 DEF Assembled
<1>8. \A b \in Open' : MediaFits(b)'
  BY <1>7 DEF MediaFits, FilesInv
<1> QED BY <1>1, <1>2, <1>5, <1>6, <1>7, <1>8 DEF FilesInv

\* A request that has nothing to do with files.
LEMMA FilesElsewhere ==
    ASSUME TypeInv, FilesInv, [Next]_vars, NEW p \in Workers, NEW batches, Begin(p, batches),
           NEW T, Opens(p, T),
           \A b \in Parts(batches) : Chunkless(b) /\ MediaFits(b)
    PROVE  FilesInv'
<1>1. /\ store' = store /\ tx'[p] = batches
      /\ \A q \in Workers \ {p} : tx'[q] = tx[q]
  BY DEF Begin, TypeInv, UnitInv
<1>2. Open' \subseteq Open \cup Parts(batches)
  BY HandlerBegins
<1>3. Uploading(p)'
  BY <1>1 DEF Uploading, Parts
<1> QED BY <1>1, <1>2, <1>3, FilesStill

\* An upload in chunks is sought from then on; a file is made of the chunks
\* that are there.
LEMMA FilesUploads ==
    ASSUME TypeInv, FilesInv, [Next]_vars, NEW p \in Workers, UploadRoutes(p)
    PROVE  FilesInv'
<1>1. Opens(p, UploadWrites)
  BY UploadsOpen
<1>2. CASE initiate_upload(p)
  <2> DEFINE a == {Insert("uploads", [id |-> Self])}
  <2>1. Begin(p, <<a>>)
    BY <1>2 DEF initiate_upload
  <2>2. \A w \in a : w.on = "uploads"
    BY DEF Insert
  <2> HIDE DEF a
  <2>3. \A b \in Parts(<<a>>) : b = a
    BY DEF Parts
  <2>4. Chunkless(a) /\ MediaFits(a)
    BY <2>2 DEF Chunkless, MediaFits
  <2> QED BY <1>1, <2>1, <2>3, <2>4, FilesElsewhere
<1>3. ASSUME NEW i \in Uploads, NEW c \in Chunks, upload_chunk(p, i, c) PROVE FilesInv'
  <2> DEFINE x == Opened(Self, i, c)
             y == Filled(Self, i, c)
             all == <<x, y>>
  <2>1. Begin(p, all) /\ \E u \in store["uploads"] : u.id = i
    BY <1>3, ChunkBatches
  <2>2. Sought(i)
    <3>1. "uploads" \in Tables \ Keyed
      BY FilingTables
    <3>2. i \in Int /\ i <= served
      BY <2>1, <3>1, RowNumbers
    <3> QED BY <2>1, <3>2 DEF Sought, FilesInv, UploadsInv, Solo
  <2>3. /\ store' = store /\ tx'[p] = all
        /\ \A q \in Workers \ {p} : tx'[q] = tx[q]
    BY <2>1 DEF Begin, TypeInv, UnitInv
  <2>4. Uploading(p)'
    <3>1. \E k : tx'[p] = << Opened(k, i, c), Filled(k, i, c) >>
      BY <2>3
    <3> HIDE DEF all
    <3> QED BY <2>2, <3>1, SoughtStays DEF Uploading
  <2>5. MediaFits(x) /\ MediaFits(y)
    BY ChunkWrites DEF MediaFits
  <2> HIDE DEF x, y
  <2>6. \A b \in Parts(all) : b = x \/ b = y
    BY DEF Parts
  <2> HIDE DEF all
  <2>7. \A b \in Open' : b \in Open \/ MediaFits(b)
    BY <1>1, <2>1, <2>5, <2>6, HandlerBegins
  <2> QED BY <2>3, <2>4, <2>7, FilesStill
<1>4. ASSUME NEW i \in Uploads, NEW encrypt \in BOOLEAN, complete_upload(p, i, encrypt)
      PROVE  FilesInv'
  <2>1. PICK batches :
              /\ Begin(p, batches) /\ 1 \in DOMAIN batches /\ batches[1] = assemble_chunks(i)
              /\ \A k \in DOMAIN batches :
                    \/ k = 1
                    \/ batches[k] = {Delete("media", Self)}
                    \/ batches[k] = {Insert("encrypted_media", [id |-> Self])}
    BY <1>4, Completions
  <2>2. \E u \in store["uploads"] : u.id = i
    BY <1>4 DEF complete_upload
  <2>3. \A b \in Parts(batches) : \/ b = assemble_chunks(i)
                                  \/ b = {Delete("media", Self)}
                                  \/ b = {Insert("encrypted_media", [id |-> Self])}
    BY <2>1 DEF Parts
  <2>4. \A b \in Parts(batches) : Chunkless(b)
    BY <2>3, AssembleWrites DEF Chunkless
  <2>5. ASSUME NEW w, w.row.upload = i, w.row.parts = ReadChunks(i) PROVE Assembled(w.row)
    <3> SUFFICES ASSUME NEW a \in store["answers"], a.kind = "chunk", a.about[1] = i
                 PROVE  \E part \in ReadChunks(i) : /\ part.chunk = a.about[2]
                                                    /\ part.whole = TRUE \/ part.writer # a.id
      BY <2>5 DEF Assembled
    <3>1. Saved(a)
      BY DEF FilesInv
    <3>2. PICK j, c : a.about = <<j, c>> /\ (Exists(j) => HasFile(j, c))
      BY <3>1 DEF Saved
    <3>3. j = i /\ a.about[2] = c
      BY <3>2
    <3>4. PICK r \in store["chunks"] : r.id = <<i, c>>
      BY <2>2, <3>2, <3>3 DEF Exists, HasFile
    <3>5. r.id = <<r.directory, r.chunk>> /\ DOMAIN r = ChunkColumns
      BY DEF FilesInv
    <3>6. r.directory = i /\ r.chunk = c
      BY <3>4, <3>5
    <3> DEFINE finished == \E b \in store["answers"] : b.kind = "chunk" /\ b.id = r.writer
               cols == [whole |-> finished]
               part == Overlay(cols, r)
    <3>7. part \in ReadChunks(i)
      BY <3>6 DEF ReadChunks, ChunkFiles
    <3>8. r.writer = a.id => finished = TRUE
      OBVIOUS
    <3>9. DOMAIN cols = {"whole"} /\ cols["whole"] = finished
      OBVIOUS
    <3> HIDE DEF cols, finished
    <3>10. part.chunk = r.chunk /\ part.writer = r.writer /\ part.whole = finished
      BY <3>5, <3>9 DEF Overlay, ChunkColumns
    <3> QED BY <3>3, <3>6, <3>7, <3>8, <3>10
  <2>6. \A b \in Parts(batches) : MediaFits(b)
    BY <2>3, <2>5, AssembleWrites DEF MediaFits
  <2> QED BY <1>1, <2>1, <2>4, <2>6, FilesElsewhere
<1> QED BY <1>2, <1>3, <1>4 DEF UploadRoutes

LEMMA FilesRequest ==
    ASSUME TypeInv, FilesInv, [Next]_vars, NEW p \in Workers, Request(p)
    PROVE  FilesInv'
<1> DEFINE others == {RelationWrites, FeedReads, ModerationWrites, DecisionWrites, ChatWrites,
              ChatExtraWrites, PostWrites, MarkWrites, MemberWrites, GroupWrites,
              SocialWrites, AccountWrites, CatalogTables}
           tokens == {SessionWrites, TokenWrites, PollWrites}
<1>1. \A T \in others : "chunks" \notin T /\ "answers" \notin T /\ "media" \notin T
  BY DEF RelationWrites, FeedReads, ModerationWrites, DecisionWrites, ChatWrites,
         ChatExtraWrites, PostWrites, MarkWrites, MemberWrites, GroupWrites,
         SocialWrites, AccountWrites,
         CatalogTables, EnterpriseTables, RegionalTables, PlatformTables
<1>2. \A T \in tokens : "chunks" \notin T /\ "media" \notin T
  BY DEF SessionWrites, TokenWrites, PollWrites
<1>3. \/ UploadRoutes(p)
      \/ \E T \in others : Opens(p, T)
      \/ /\ SessionRoutes(p) \/ TokenRoutes(p) \/ PollRoutes(p)
         /\ \E T \in tokens : Opens(p, T)
  BY Requests
<1> HIDE DEF others, tokens
<1>4. CASE \E T \in others : Opens(p, T)
  <2>1. PICK T \in others : Opens(p, T)
    BY <1>4
  <2>2. PICK batches : Begin(p, batches) /\ AllOk(batches, T, Self)
    BY <2>1 DEF Opens
  <2>3. \A b \in Parts(batches) : Chunkless(b) /\ MediaFits(b)
    BY <1>1, <2>2 DEF Parts, AllOk, Ok, Chunkless, MediaFits
  <2> QED BY <2>1, <2>2, <2>3, FilesElsewhere
<1>5. ASSUME SessionRoutes(p) \/ TokenRoutes(p) \/ PollRoutes(p),
             NEW T \in tokens, Opens(p, T)
      PROVE  FilesInv'
  <2>1. PICK a : Unchunked(a) /\ (Begin(p, <<a>>) \/ Begin(p, <<>>))
    BY <1>5, SessionLeads, TokenLeads, PollLeads
  <2>2. CASE Begin(p, <<>>)
    <3>1. Parts(<<>>) = {}
      BY DEF Parts
    <3> QED BY <1>5, <2>2, <3>1, FilesElsewhere
  <2>3. CASE Begin(p, <<a>>)
    <3>1. Parts(<<a>>) = {a}
      BY DEF Parts
    <3>2. Ok(a, T, Self)
      BY <1>5, <2>3, <3>1, HandlerBegins
    <3>3. Chunkless(a) /\ MediaFits(a)
      BY <1>2, <1>5, <2>1, <3>2 DEF Ok, Chunkless, MediaFits, Unchunked
    <3> QED BY <1>5, <2>3, <3>1, <3>3, FilesElsewhere
  <2> QED BY <2>1, <2>2, <2>3
<1> QED BY <1>3, <1>4, <1>5, FilesUploads

\* The later reads belong to requests that upload nothing.
LEMMA FilesResolve ==
    ASSUME TypeInv, FilesInv, [Next]_vars, NEW p \in Workers, Responded(p) \/ FeedSteps(p)
    PROVE  FilesInv'
<1>1. PICK batches : Resolves(p, batches)
  BY RespondedResolves, LogEventResolves, ToggleAgainResolves DEF FeedSteps
<1>2. \E w \in Head(tx[p]) : w.op \notin Writes
  BY DEF Responded, FeedSteps, LogEvent, ToggleAgain, Writes
<1>3. /\ tx'[p] = batches \o Tail(tx[p]) /\ store' = store /\ tx[p] # <<>>
      /\ \A q \in Workers \ {p} : tx'[q] = tx[q]
      /\ Open' \subseteq Open \cup Parts(batches)
  BY <1>1, ResolveOpens DEF Resolves, Resolve, AllOk, TypeInv, Parts
<1>4. Head(tx[p]) \in Open
  BY <1>3, HeadOpen
<1>5. \A n \in DOMAIN tx[p] : Chunkless(tx[p][n])
  <2>1. ASSUME NEW k, NEW i, NEW c, NEW rest, tx[p] = << Opened(k, i, c), rest >>
        PROVE  FALSE
    <3>1. Head(tx[p]) = Opened(k, i, c)
      BY <2>1
    <3> QED BY <1>2, <3>1, ChunkWrites
  <2>2. ASSUME NEW k, NEW i, NEW c, tx[p] = << Filled(k, i, c) >>
        PROVE  FALSE
    <3>1. Head(tx[p]) = Filled(k, i, c)
      BY <2>2
    <3> QED BY <1>2, <3>1, ChunkWrites
  <2>3. Uploading(p)
    BY DEF FilesInv
  <2> QED BY <2>1, <2>2, <2>3 DEF Uploading
<1>6. PICK S : tx[p] \in Seq(S)
  BY DEF TypeInv, UnitInv
<1>7. PICK R : batches \in Seq(R)
  BY <1>1 DEF Resolves, AllOk
<1>8. /\ 1 \in DOMAIN tx[p] /\ Head(tx[p]) = tx[p][1]
      /\ \A n \in DOMAIN tx'[p] : \/ n \in DOMAIN batches /\ tx'[p][n] = batches[n]
                                  \/ \E m \in DOMAIN tx[p] : tx'[p][n] = tx[p][m]
  <2>1. 1 \in DOMAIN tx[p] /\ Head(tx[p]) = tx[p][1]
    BY <1>3, <1>6
  <2>2. ASSUME NEW n \in DOMAIN tx'[p]
        PROVE  \/ n \in DOMAIN batches /\ tx'[p][n] = batches[n]
               \/ \E m \in DOMAIN tx[p] : tx'[p][n] = tx[p][m]
    <3>1. \/ n \in DOMAIN batches /\ tx'[p][n] = batches[n]
          \/ /\ n - Len(batches) + 1 \in DOMAIN tx[p]
             /\ tx'[p][n] = tx[p][n - Len(batches) + 1]
      BY <1>3, <1>6, <1>7
    <3> QED BY <3>1
  <2> QED BY <2>1, <2>2
<1>9. \A n \in DOMAIN batches :
          \/ On(batches[n], Filing) = {}
          \/ On(batches[n], Filing) = On(Head(tx[p]), Filing)
  BY <1>1, FilingTables DEF Resolves
<1>10. Chunkless(Head(tx[p])) /\ MediaFits(Head(tx[p]))
  BY <1>4, <1>5, <1>8 DEF FilesInv
<1>11. \A n \in DOMAIN batches : Chunkless(batches[n]) /\ MediaFits(batches[n])
  <2> SUFFICES ASSUME NEW n \in DOMAIN batches, NEW w \in batches[n], w.on \in Filing
               PROVE  w \in Head(tx[p])
    BY <1>10 DEF Chunkless, MediaFits, Filing
  <2>1. w \in On(batches[n], Filing)
    BY DEF On
  <2> QED BY <1>9, <2>1 DEF On
<1>12. Uploading(p)'
  BY <1>5, <1>8, <1>11 DEF Uploading
<1>13. \A b \in Open' : b \in Open \/ MediaFits(b)
  BY <1>3, <1>11 DEF Parts
<1> QED BY <1>3, <1>12, <1>13, FilesStill

\* A row that the batch does not delete, nor what it refers to, is there after
\* the commit, with what is written to it.
LEMMA RowStays ==
    ASSUME NEW batch, store' = Stored(batch), NEW t \in Tables, NEW r \in store[t],
           r.id \notin Gone(t, batch),
           \A c \in References(r) : r[c] \notin Gone(Parent[c], batch)
    PROVE  After(t, batch, r) \in store'[t]
<1>1. After(t, batch, r) \in Written(t, batch)
  BY DEF Written, After, Changes
<1>2. CASE Stored(batch)[t] = Written(t, batch)
  BY <1>1, <1>2
<1>3. CASE Stored(batch)[t] # Written(t, batch)
  <2>1. store'[t] = store[t] /\ \A w \in batch : w.on # t
    BY <1>3, StoredTables
  <2>2. After(t, batch, r) = r
    BY <2>1 DEF After, Changes
  <2> QED BY <2>1, <2>2
<1> QED BY <1>2, <1>3

\* What a batch inserts is there after the commit.
LEMMA RowAdded ==
    ASSUME NEW batch, store' = Stored(batch), NEW t \in Tables, NEW w \in batch,
           w.on = t, w.op = "insert"
    PROVE  Overlay(w.row, [born |-> served]) \in store'[t]
<1>1. Overlay(w.row, [born |-> served]) \in Written(t, batch)
  BY DEF Written
<1> QED BY <1>1, StoredTables

\* The writes of the two batches about a chunk.
LEMMA OpenedWrites ==
    ASSUME NEW k, NEW i, NEW c
    PROVE  /\ \A w \in Opened(k, i, c) : /\ w.on = "chunks" /\ w.row.id = <<i, c>>
                                         /\ w.op \in {"insert", "delete"}
           /\ \A w \in Opened(k, i, c) : w.op = "insert" =>
                 /\ DOMAIN w.row = ChunkColumns \ {"born"}
                 /\ w.row.directory = i /\ w.row.chunk = c /\ w.row.writer = k
           /\ \E w \in Opened(k, i, c) : w.op = "insert"
BY DEF Opened, Insert, Delete, ChunkColumns

LEMMA FilledWrites ==
    ASSUME NEW k, NEW i, NEW c
    PROVE  /\ \A w \in Filled(k, i, c) :
                 /\ w.on = "answers" /\ w.op = "insert"
                 /\ DOMAIN w.row = {"id", "kind", "about"}
                 /\ w.row.id = k /\ w.row.kind = "chunk" /\ w.row.about = <<i, c>>
           /\ \E w \in Filled(k, i, c) : w.on = "answers"
BY DEF Filled, Insert

\* The commits of an upload, as seen from the files.
Opens1(p, k, i, c) ==
    /\ tx[p] = << Opened(k, i, c), Filled(k, i, c) >> /\ Head(tx[p]) = Opened(k, i, c)
    /\ tx'[p] = << Filled(k, i, c) >>

Fills(p, k, i, c) ==
    /\ tx[p] = << Filled(k, i, c) >> /\ Head(tx[p]) = Filled(k, i, c)
    /\ tx'[p] = <<>>

LEMMA FileCommits ==
    ASSUME TypeInv, FilesInv, NEW p \in Workers, Commit(p)
    PROVE  \/ Chunkless(Head(tx[p])) /\ \A n \in DOMAIN tx'[p] : Chunkless(tx'[p][n])
           \/ \E k, i, c : Sought(i) /\ Opens1(p, k, i, c)
           \/ \E k, i, c : Sought(i) /\ Fills(p, k, i, c) /\ (Exists(i) => HasFile(i, c))
<1>1. /\ 1 \in DOMAIN tx[p] /\ Head(tx[p]) = tx[p][1] /\ tx'[p] = Tail(tx[p])
      /\ \A n \in DOMAIN tx'[p] : n + 1 \in DOMAIN tx[p] /\ tx'[p][n] = tx[p][n + 1]
  BY CommitCloses DEF TypeInv
<1>2. CASE \A n \in DOMAIN tx[p] : Chunkless(tx[p][n])
  BY <1>1, <1>2
<1>3. ASSUME NEW k, NEW i, NEW c, Sought(i),
             tx[p] = << Opened(k, i, c), Filled(k, i, c) >>
      PROVE  Opens1(p, k, i, c)
  <2> DEFINE x == Opened(k, i, c)
             y == Filled(k, i, c)
  <2>1. Head(<<x, y>>) = x /\ Tail(<<x, y>>) = <<y>>
    OBVIOUS
  <2> QED BY <1>1, <1>3, <2>1 DEF Opens1
<1>4. ASSUME NEW k, NEW i, NEW c, tx[p] = << Filled(k, i, c) >>
      PROVE  Fills(p, k, i, c)
  <2> DEFINE y == Filled(k, i, c)
  <2>1. Head(<<y>>) = y /\ Tail(<<y>>) = <<>>
    OBVIOUS
  <2> QED BY <1>1, <1>4, <2>1 DEF Fills
<1>5. Uploading(p)
  BY DEF FilesInv
<1> QED BY <1>2, <1>3, <1>4, <1>5 DEF Uploading

\* While its directory is there, a file is, opened again or not.
LEMMA FileAfter ==
    ASSUME TypeInv, FilesInv, NEW p \in Workers, Commit(p), NEW j, Sought(j), Exists(j)',
           NEW r \in store["chunks"], r.directory = j
    PROVE  \E s \in store'["chunks"] : s.id = r.id
<1> DEFINE batch == Head(tx[p])
<1>1. Commits(batch) /\ store' = Stored(batch) /\ "chunks" \in Tables
  BY CommitCloses, FilingTables DEF Commits, Commit, TypeInv, Filing
<1>2. DOMAIN r = ChunkColumns /\ r.id = <<r.directory, r.chunk>>
  BY DEF FilesInv
<1>3. \A c \in References(r) : c = "directory" /\ Parent[c] = "uploads"
  BY <1>2 DEF References, Parent, ChunkColumns
<1>4. \A c \in References(r) : r[c] \notin Gone(Parent[c], batch)
  BY <1>3, DirectoryStays
<1> DEFINE s == After("chunks", batch, r)
<1>5. s.id = r.id
  BY <1>1, <1>2, AfterIs DEF ChunkColumns
<1>6. r.id \notin Gone("chunks", batch) => s \in store'["chunks"]
  BY <1>1, <1>4, RowStays
<1> HIDE DEF s
<1>7. CASE r.id \in Gone("chunks", batch)
  <2>1. ~Chunkless(batch)
    BY <1>7 DEF Chunkless, Gone
  <2>2. \A k, i, c : ~Fills(p, k, i, c)
    BY <1>7, FilledWrites DEF Fills, Gone
  <2>3. PICK k, i, c : Opens1(p, k, i, c)
    BY <2>1, <2>2, FileCommits
  <2>4. batch = Opened(k, i, c)
    BY <2>3 DEF Opens1
  <2>5. r.id = <<i, c>>
    BY <1>7, <2>4, OpenedWrites DEF Gone
  <2>6. PICK w \in Opened(k, i, c) : w.op = "insert"
    BY OpenedWrites
  <2>7. w.on = "chunks" /\ w.row.id = <<i, c>> /\ DOMAIN w.row = ChunkColumns \ {"born"}
    BY <2>6, OpenedWrites
  <2> DEFINE q == Overlay(w.row, [born |-> served])
  <2>8. q \in store'["chunks"]
    BY <1>1, <2>4, <2>6, <2>7, RowAdded
  <2>9. q.id = w.row.id
    BY <2>7 DEF Overlay, ChunkColumns
  <2> QED BY <2>5, <2>7, <2>8, <2>9
<1> QED BY <1>5, <1>6, <1>7

\* The columns of a file's row, and what it is about, stay what they are.
LEMMA ChunkRows ==
    ASSUME TypeInv, FilesInv, NEW p \in Workers, Commit(p), NEW s \in store'["chunks"]
    PROVE  DOMAIN s = ChunkColumns /\ s.id = <<s.directory, s.chunk>>
<1> DEFINE batch == Head(tx[p])
<1>1. Commits(batch) /\ "chunks" \in Tables
  BY CommitCloses, FilingTables DEF Commits, Commit, TypeInv, Filing
<1>2. \A r \in store["chunks"] : DOMAIN r = ChunkColumns /\ r.id = <<r.directory, r.chunk>>
  BY DEF FilesInv
<1>3. ASSUME NEW w \in batch, w.on = "chunks"
      PROVE  /\ w.op \notin {"update", "patch"}
             /\ w.op = "insert" => /\ DOMAIN w.row = ChunkColumns \ {"born"}
                                   /\ w.row.id = <<w.row.directory, w.row.chunk>>
  <2>1. CASE Chunkless(batch)
    BY <1>3, <2>1 DEF Chunkless
  <2>2. ASSUME NEW k, NEW i, NEW c, Opens1(p, k, i, c)
        PROVE  /\ w.op \notin {"update", "patch"}
               /\ w.op = "insert" => /\ DOMAIN w.row = ChunkColumns \ {"born"}
                                     /\ w.row.id = <<w.row.directory, w.row.chunk>>
    <3>1. w \in Opened(k, i, c)
      BY <1>3, <2>2 DEF Opens1
    <3> QED BY <3>1, OpenedWrites
  <2>3. ASSUME NEW k, NEW i, NEW c, Fills(p, k, i, c)
        PROVE  FALSE
    BY <1>3, <2>3, FilledWrites DEF Fills
  <2> QED BY <2>1, <2>2, <2>3, FileCommits
<1> HIDE DEF batch
<1>4. ASSUME NEW w \in batch, w.on = "chunks", w.op = "insert",
             s = Overlay(w.row, [born |-> served])
      PROVE  DOMAIN s = ChunkColumns /\ s.id = <<s.directory, s.chunk>>
  <2>1. DOMAIN w.row = ChunkColumns \ {"born"} /\ w.row.id = <<w.row.directory, w.row.chunk>>
    BY <1>3, <1>4
  <2>2. DOMAIN s = DOMAIN w.row \cup {"born"} /\ \A c \in DOMAIN w.row : s[c] = w.row[c]
    BY <1>4, <2>1 DEF Overlay
  <2>3. {"id", "directory", "chunk"} \subseteq DOMAIN w.row /\ DOMAIN s = ChunkColumns
    BY <2>1, <2>2 DEF ChunkColumns
  <2>4. s.id = w.row.id /\ s.directory = w.row.directory /\ s.chunk = w.row.chunk
    BY <2>2, <2>3
  <2> QED BY <2>1, <2>3, <2>4
<1>5. ASSUME NEW r \in store["chunks"], s = After("chunks", batch, r)
      PROVE  DOMAIN s = ChunkColumns /\ s.id = <<s.directory, s.chunk>>
  <2>1. s = r \/ Altered("chunks", batch, r, s)
    BY <1>1, <1>2, <1>5, AfterIs DEF ChunkColumns
  <2>2. ~Altered("chunks", batch, r, s)
    BY <1>3 DEF Altered
  <2> QED BY <1>2, <2>1, <2>2
<1> QED BY <1>1, <1>4, <1>5, CommitAfter DEF Inserts

\* A new answer is born now; one that confirms a chunk comes with its file.
LEMMA AnswerRows ==
    ASSUME TypeInv, FilesInv, NEW p \in Workers, Commit(p), NEW a \in store'["answers"]
    PROVE  \/ a \in store["answers"]
           \/ /\ a.born = served
              /\ a.kind = "chunk" =>
                    \E k, i, c : /\ Sought(i) /\ Fills(p, k, i, c) /\ a.about = <<i, c>>
                                 /\ Exists(i) => HasFile(i, c)
<1> DEFINE batch == Head(tx[p])
<1>1. /\ 1 \in DOMAIN tx[p] /\ batch = tx[p][1]
      /\ Commits(batch) /\ "answers" \in Tables \ Keyed
  BY CommitCloses, FilingTables DEF Commits, Commit, TypeInv
<1>2. \A w \in batch : w.on = "answers" =>
          w.op = "insert" /\ {"kind", "about"} \subseteq DOMAIN w.row
  <2>1. \A w \in batch : w.on = "answers" => w \in Held(p, Told)
    BY <1>1 DEF Held, On, Told
  <2> QED BY <2>1 DEF FilesInv, AnswersInv
<1>3. ASSUME NEW w \in batch, w.on = "answers", w.row.kind = "chunk"
      PROVE  \E k, i, c : /\ Sought(i) /\ Fills(p, k, i, c) /\ w.row.about = <<i, c>>
                          /\ Exists(i) => HasFile(i, c)
  <2>1. CASE Chunkless(batch)
    BY <1>3, <2>1 DEF Chunkless
  <2>2. ASSUME NEW k, NEW i, NEW c, Opens1(p, k, i, c)
        PROVE  FALSE
    BY <1>3, <2>2, OpenedWrites DEF Opens1
  <2>3. ASSUME NEW k, NEW i, NEW c, Fills(p, k, i, c)
        PROVE  w.row.about = <<i, c>>
    <3>1. w \in Filled(k, i, c)
      BY <1>3, <2>3 DEF Fills
    <3> QED BY <3>1, FilledWrites
  <2> QED BY <2>1, <2>2, <2>3, FileCommits
<1> HIDE DEF batch
<1>4. CASE Inserted(batch, "answers", a)
  <2>1. PICK w \in batch :
            /\ w.on = "answers" /\ w.op = "insert" /\ a.born = served
            /\ \A c \in DOMAIN w.row : a[c] = w.row[c]
    BY <1>4 DEF Inserted
  <2>2. a.kind = w.row.kind /\ a.about = w.row.about
    BY <1>2, <2>1
  <2> QED BY <1>3, <2>1, <2>2
<1> QED BY <1>1, <1>2, <1>4, CommitRows DEF Spared, Changed

\* The answers there will be come after the file.
LEMMA AssembledStays ==
    ASSUME TypeInv, FilesInv, NEW p \in Workers, Commit(p),
           NEW f, f.id \in Int, f.id <= served, Assembled(f)
    PROVE  Assembled(f)'
<1> SUFFICES ASSUME NEW a \in store'["answers"],
                    a.kind = "chunk", a.about[1] = f.upload, a.born < f.id
             PROVE  \E part \in f.parts : /\ part.chunk = a.about[2]
                                          /\ part.whole = TRUE \/ part.writer # a.id
  BY DEF Assembled
<1>1. served \in Nat
  BY StoreTypes
<1>2. a.born # served
  BY <1>1
<1>3. a \in store["answers"]
  BY <1>2, AnswerRows
<1> QED BY <1>3 DEF Assembled

LEMMA MediaRows ==
    ASSUME TypeInv, FilesInv, NEW p \in Workers, Commit(p), NEW f \in store'["media"]
    PROVE  Assembled(f)'
<1> DEFINE batch == Head(tx[p])
<1>1. /\ batch \in Open /\ Commits(batch) /\ "media" \in Tables \ Keyed
  BY CommitCloses, FilingTables DEF Commits, Commit, TypeInv
<1>2. MediaFits(batch)
  BY <1>1 DEF FilesInv
<1> HIDE DEF batch
<1>3. CASE Inserted(batch, "media", f)
  <2>1. PICK w \in batch :
            /\ w.on = "media" /\ w.op = "insert" /\ f.id = w.row.id
            /\ \A c \in DOMAIN w.row : f[c] = w.row[c]
    BY <1>3 DEF Inserted
  <2>2. f.upload = w.row.upload /\ f.parts = w.row.parts /\ Assembled(w.row)
    BY <1>2, <2>1 DEF MediaFits
  <2>3. Assembled(f)
    BY <2>1, <2>2 DEF Assembled
  <2>4. f.id \in Int /\ f.id <= served
    BY <1>1, <2>1 DEF TypeInv, Ok, Sound
  <2> QED BY <2>3, <2>4, AssembledStays
<1>4. CASE Spared(batch, "media", f)
  <2>1. f \in store["media"] /\ Assembled(f)
    BY <1>4 DEF Spared, FilesInv
  <2>2. f.id \in Int /\ f.id <= served
    BY <1>1, <2>1, RowNumbers
  <2> QED BY <2>1, <2>2, AssembledStays
<1>5. CASE Changed(batch, "media", f)
  BY <1>2, <1>5 DEF Changed, MediaFits
<1> QED BY <1>1, <1>3, <1>4, <1>5, CommitRows

\* Where its directory is, a file is still there after a commit.
LEMMA HasFileStays ==
    ASSUME TypeInv, FilesInv, NEW p \in Workers, Commit(p), NEW i, NEW c, Sought(i),
           Exists(i) => HasFile(i, c), Exists(i)'
    PROVE  HasFile(i, c)'
<1>1. Exists(i)
  BY DirectoryStays
<1>2. PICK r \in store["chunks"] : r.id = <<i, c>>
  BY <1>1 DEF HasFile
<1>3. r.directory = i
  <2>1. r.id = <<r.directory, r.chunk>>
    BY DEF FilesInv
  <2> QED BY <1>2, <2>1
<1>4. PICK s \in store'["chunks"] : s.id = r.id
  BY <1>3, FileAfter
<1> QED BY <1>2, <1>4 DEF HasFile

LEMMA UploadingAfter ==
    ASSUME TypeInv, FilesInv, [Next]_vars, NEW p \in Workers, Commit(p), NEW q \in Workers
    PROVE  Uploading(q)'
<1>1. Uploading(q)
  BY DEF FilesInv
<1>2. CASE q # p
  <2>1. tx'[q] = tx[q]
    BY <1>2, CommitCloses DEF TypeInv
  <2>2. CASE \A n \in DOMAIN tx[q] : Chunkless(tx[q][n])
    BY <2>1, <2>2 DEF Uploading
  <2>3. CASE \E k, i, c : Sought(i) /\ tx[q] = << Opened(k, i, c), Filled(k, i, c) >>
    BY <2>1, <2>3, SoughtStays DEF Uploading
  <2>4. ASSUME NEW k, NEW i, NEW c, Sought(i), tx[q] = << Filled(k, i, c) >>,
               Exists(i) => HasFile(i, c)
        PROVE  Uploading(q)'
    <3>1. Sought(i)' /\ tx'[q] = << Filled(k, i, c) >> /\ (Exists(i)' => HasFile(i, c)')
      BY <2>1, <2>4, SoughtStays, HasFileStays
    <3> QED BY <3>1 DEF Uploading
  <2> QED BY <1>1, <2>2, <2>3, <2>4 DEF Uploading
<1>3. ASSUME NEW k, NEW i, NEW c, Sought(i), Opens1(p, k, i, c)
      PROVE  Uploading(p)'
  <2>1. PICK w \in Opened(k, i, c) : w.op = "insert"
    BY OpenedWrites
  <2>2. /\ w.on = "chunks" /\ w.row.id = <<i, c>>
        /\ DOMAIN w.row = ChunkColumns \ {"born"}
    BY <2>1, OpenedWrites
  <2>3. store' = Stored(Opened(k, i, c)) /\ "chunks" \in Tables
    BY <1>3, FilingTables DEF Commit, Opens1, Filing
  <2> DEFINE r == Overlay(w.row, [born |-> served])
  <2>4. r \in store'["chunks"]
    BY <2>1, <2>2, <2>3, RowAdded
  <2>5. r.id = w.row.id
    BY <2>2 DEF Overlay, ChunkColumns
  <2>6. HasFile(i, c)'
    BY <2>2, <2>4, <2>5 DEF HasFile
  <2>7. Sought(i)' /\ tx'[p] = << Filled(k, i, c) >>
    BY <1>3, SoughtStays DEF Opens1
  <2> QED BY <2>6, <2>7 DEF Uploading
<1>4. ASSUME NEW k, NEW i, NEW c, Fills(p, k, i, c)
      PROVE  Uploading(p)'
  <2>1. DOMAIN tx'[p] = {}
    BY <1>4 DEF Fills
  <2> QED BY <2>1 DEF Uploading
<1>5. ASSUME \A n \in DOMAIN tx'[p] : Chunkless(tx'[p][n])
      PROVE  Uploading(p)'
  BY <1>5 DEF Uploading
<1> QED BY <1>2, <1>3, <1>4, <1>5, FileCommits

LEMMA SavedAfter ==
    ASSUME TypeInv, FilesInv, [Next]_vars, NEW p \in Workers, Commit(p),
           NEW a \in store'["answers"], a.kind = "chunk"
    PROVE  Saved(a)'
<1>1. PICK i, c : a.about = <<i, c>> /\ Sought(i) /\ (Exists(i) => HasFile(i, c))
  <2>1. CASE a \in store["answers"]
    <3>1. Saved(a)
      BY <2>1 DEF FilesInv
    <3> QED BY <3>1 DEF Saved
  <2>2. CASE a \notin store["answers"]
    BY <2>2, AnswerRows
  <2> QED BY <2>1, <2>2
<1>2. Sought(i)'
  BY <1>1, SoughtStays
<1>3. Exists(i)' => HasFile(i, c)'
  BY <1>1, HasFileStays
<1> QED BY <1>1, <1>2, <1>3 DEF Saved

LEMMA FilesCommit ==
    ASSUME TypeInv, FilesInv, [Next]_vars, NEW p \in Workers, Commit(p)
    PROVE  FilesInv'
<1>1. UploadsInv' /\ AnswersInv'
  BY UploadsNext, AnswersNext DEF FilesInv
<1>2. ASSUME NEW b \in Open' PROVE MediaFits(b)'
  <2>1. b \in Open
    BY CommitCloses DEF TypeInv
  <2>2. MediaFits(b) /\ \A w \in b : Sound(w, served)
    BY <2>1 DEF FilesInv, TypeInv, Ok
  <2>3. ASSUME NEW w \in b, w.on = "media", w.op = "insert" PROVE Assembled(w.row)'
    <3>1. w.row.id \in Int /\ w.row.id <= served
      BY <2>2, <2>3, FilingTables DEF Sound
    <3> QED BY <2>2, <2>3, <3>1, AssembledStays DEF MediaFits
  <2> QED BY <2>2, <2>3 DEF MediaFits
<1>3. \A q \in Workers : Uploading(q)'
  BY UploadingAfter
<1>4. \A s \in store'["chunks"] : DOMAIN s = ChunkColumns /\ s.id = <<s.directory, s.chunk>>
  BY ChunkRows
<1>5. \A a \in store'["answers"] : a.kind = "chunk" => Saved(a)'
  BY SavedAfter
<1>6. \A f \in store'["media"] : Assembled(f)'
  BY MediaRows
<1> QED BY <1>1, <1>2, <1>3, <1>4, <1>5, <1>6 DEF FilesInv

LEMMA FilesInit ==
    ASSUME Init
    PROVE  FilesInv
<1>1. /\ OnceInv(Directories) /\ OnceInv(Told)
      /\ \A p \in Workers : Held(p, Directories) = {} /\ Held(p, Told) = {}
  BY OnceAtFirst
<1>2. store["answers"] = {} /\ store["chunks"] = {} /\ store["media"] = {}
  <2>1. \A f \in DOMAIN Seeded : /\ "answers" \notin Seeded[f] /\ "chunks" \notin Seeded[f]
                                 /\ "media" \notin Seeded[f]
    BY DEF Seeded
  <2>2. {"answers", "chunks", "media"} \subseteq Tables
    BY FilingTables DEF Filing
  <2> QED BY <2>1, <2>2, EmptyAtFirst
<1>3. PICK u, w : store["uploads"] \in {{}, Rows(u, w)["uploads"]}
  BY FilingTables, FirstOrNone DEF Filing
<1>4. \A r, s \in Rows(u, w)["uploads"] : r = s
  BY DEF Rows
<1>5. UploadsInv /\ AnswersInv
  BY <1>1, <1>2, <1>3, <1>4 DEF UploadsInv, AnswersInv, Solo
<1>6. Open = {} /\ \A p \in Workers : DOMAIN tx[p] = {}
  BY FirstOrNone DEF Init
<1> QED BY <1>2, <1>5, <1>6 DEF FilesInv, Uploading

LEMMA FilesNext ==
    ASSUME TypeInv, FilesInv, [Next]_vars
    PROVE  FilesInv'
<1>1. ASSUME tx' = tx, \A t \in Filing : store'[t] = store[t] PROVE FilesInv'
  <2>1. Open' = Open
    BY <1>1 DEF Open, Batches
  <2> QED BY <1>1, <2>1, FilesStill
<1>2. CASE UNCHANGED vars
  BY <1>1, <1>2 DEF vars, requestVars
<1>3. CASE Clock
  <2>1. tx' = tx
    BY <1>3, ClockSteps
  <2>2. \A t \in Filing : store'[t] = store[t]
    BY <1>3, ClockSteps, FilingTables DEF Timed
  <2> QED BY <1>1, <2>1, <2>2
<1>4. ASSUME NEW p \in Workers, Abandon(p) PROVE FilesInv'
  <2>1. /\ tx'[p] = <<>> /\ store' = store
        /\ \A q \in Workers \ {p} : tx'[q] = tx[q]
        /\ Open' \subseteq Open
    BY <1>4, AbandonCloses DEF TypeInv, Abandon
  <2>2. Uploading(p)'
    BY <2>1 DEF Uploading
  <2> QED BY <2>1, <2>2, FilesStill
<1> QED BY <1>2, <1>3, <1>4, FilesRequest, FilesResolve, FilesCommit DEF Next, Clock

\* A confirmed chunk has a file, as long as its directory is there; and what
\* is assembled holds it.
THEOREM FilesHold == Spec => []FilesInv
<1>1. Init => FilesInv
  BY FilesInit
<1>2. TypeInv /\ FilesInv /\ [Next]_vars => FilesInv'
  BY FilesNext
<1> QED BY <1>1, <1>2, TypesHold, PTL DEF Spec

\* What is assembled holds every chunk whose upload had been answered, whole
\* or being written again by another request.
THEOREM FilesKeepChunks == Spec => []FilesHoldTheirChunks
<1>1. FilesInv => FilesHoldTheirChunks
  BY DEF FilesInv, FilesHoldTheirChunks, Assembled
<1> QED BY <1>1, FilesHold, PTL

-----------------------------------------------------------------------------
(* The standing of accounts.                                                *)

\* A decision is taken once: those about to be taken have numbers of their own.
ActionsInv == OnceInv(Decisions) /\ Solo("moderation_actions", Decisions)

LEMMA ActionsNext ==
    ASSUME TypeInv, ActionsInv, [Next]_vars
    PROVE  ActionsInv'
<1>1. /\ "moderation_actions" \in Tables \ Keyed /\ "moderation_actions" \in Decisions
      /\ Decisions \subseteq Tables /\ Decisions \cap LaterWrites = {}
      /\ Decisions \cap Timed = {}
  BY TablesAssumption DEF ModerationTables, Decisions, Keyed, LaterWrites, Timed
<1>2. CASE OnceInv(Decisions)' /\ Rests(Decisions)
  BY <1>1, <1>2, SoloRests DEF ActionsInv
<1>3. ASSUME NEW p \in Workers, NEW a, DecidedBatch(a), Takes(p, a, Decisions),
             OnceInv(Decisions)'
      PROVE  ActionsInv'
  BY <1>1, <1>3, SoloTakes DEF ActionsInv, DecidedBatch, NewIn
<1>4. ASSUME NEW p \in Workers, NEW batch, Gives(p, batch, Decisions), OnceInv(Decisions)'
      PROVE  ActionsInv'
  BY <1>1, <1>4, SoloGives DEF ActionsInv
<1>5. OnceInv(Decisions)
  BY DEF ActionsInv
<1>6. ASSUME NEW p \in Workers, Request(p)
      PROVE  \/ OnceInv(Decisions)' /\ Rests(Decisions)
             \/ \E a : DecidedBatch(a) /\ Takes(p, a, Decisions) /\ OnceInv(Decisions)'
  BY <1>5, <1>6, DecisionsRequest
<1> QED BY <1>1, <1>2, <1>3, <1>4, <1>5, <1>6, HeldSteps

LEMMA ActionsInit ==
    ASSUME Init
    PROVE  ActionsInv /\ store["moderation_actions"] = {}
<1>1. OnceInv(Decisions) /\ \A p \in Workers : Held(p, Decisions) = {}
  BY OnceAtFirst
<1>2. "moderation_actions" \in Tables
  BY TablesAssumption DEF ModerationTables
<1>3. store["moderation_actions"] = {}
  <2>1. \A f \in DOMAIN Seeded : "moderation_actions" \notin Seeded[f]
    BY DEF Seeded
  <2> QED BY <1>2, <2>1, EmptyAtFirst
<1> QED BY <1>1, <1>3 DEF ActionsInv, Solo

LEMMA ActionIsNew ==
    ASSUME TypeInv, ActionsInv, NEW b \in Open, NEW v \in b, v.on = "moderation_actions"
    PROVE  /\ v.op = "insert" /\ v.row.id \in Int /\ v.row.id <= served
           /\ \A a \in store["moderation_actions"] : a.id # v.row.id
<1>1. PICK p \in Workers : \E i \in DOMAIN tx[p] : b = tx[p][i]
  BY DEF Open, Batches
<1>2. v \in Held(p, Decisions)
  BY <1>1 DEF Held, On, Decisions
<1>3. Sound(v, served)
  BY DEF TypeInv, Ok
<1>4. NewIn(v, "moderation_actions") /\ "moderation_actions" \notin Keyed
  BY <1>3 DEF NewIn, Sound, Lasts, Keyed
<1> QED BY <1>2, <1>3, <1>4 DEF ActionsInv, Solo, NewIn, Sound

Standing == {"is_suspended", "suspended_until"}

Banned(r) == r.is_suspended /\ r.suspended_until = None

IsBan(a) == a.action_type = "permanent_ban"

\* A decision on the suspension of u, and the notification of a message of u.
Rules(d, u) == d.target = u /\ d.action_type \in Suspending

Wrote(n, u) == {"kind", "actor"} \subseteq DOMAIN n /\ n.kind = "message" /\ n.actor = u

\* What may have undone a ban: a decision committed since it was taken, or a
\* message in flight with it.
Undone(a) ==
    \/ \E d \in store["moderation_actions"] :
          d # a /\ Rules(d, a.target) /\ d.born >= a.id
    \/ \E n \in store["notifications"] : Wrote(n, a.target) /\ Overlapped(a, n)

HasAccount(u) == \E r \in store["users"] : r.id = u

Holding(a) ==
    /\ HasAccount(a.target)
    /\ Undone(a) \/ \A r \in store["users"] : r.id = a.target => Banned(r)

\* A change of a standing comes with a decision, or with a message of one who
\* was not banned when it was sent.
Lifting(b, w) ==
    \/ \E v \in b : v.on = "moderation_actions" /\ Rules(v.row, w.row.id)
    \/ \E v \in b :
          /\ NewIn(v, "notifications") /\ Wrote(v.row, w.row.id)
          /\ \A a \in store["moderation_actions"] :
                IsBan(a) /\ a.target = w.row.id => v.row.id <= a.born \/ Undone(a)

\* A ban about to be committed suspends the account, unless it has been
\* overtaken since it was taken.
Banning(b, v) ==
    /\ HasAccount(v.row.target)
    /\ \/ \E d \in store["moderation_actions"] :
             Rules(d, v.row.target) /\ d.born >= v.row.id
       \/ \E n \in store["notifications"] : Wrote(n, v.row.target) /\ n.born >= v.row.id
       \/ \A r \in store["users"] : r.id = v.row.target => Banned(After("users", b, r))

ActionColumns == {"id", "report", "moderator", "target", "action_type"}

Raising(w) == Changing(w, "users") /\ DOMAIN w.row \cap Standing # {}

BanFits(b) ==
    /\ On(b, Ranked) # {} => \A w \in b : w.op \in Writes
    /\ \A w \in b : Raising(w) => Lifting(b, w)
    /\ \A v \in b : v.on = "moderation_actions" =>
          /\ DOMAIN v.row = ActionColumns
          /\ IsBan(v.row) => Banning(b, v)

BansInv ==
    /\ \A a \in store["moderation_actions"] :
          /\ DOMAIN a = ActionColumns \cup {"born"}
          /\ IsBan(a) => Holding(a)
    /\ \A n \in store["notifications"] : References(n) = {}
    /\ \A b \in Open : BanFits(b)

LEMMA RankedTables ==
    /\ {"users", "moderation_actions", "notifications", "reports"} \subseteq Tables
    /\ {"moderation_actions", "notifications", "reports"} \subseteq Tables \ Keyed
    /\ Ranked \cap LaterWrites = {}
BY TablesAssumption DEF ModerationTables, CatalogTables, Keyed, Ranked, LaterWrites

LEMMA BansSpared ==
    ASSUME NEW b, On(b, Ranked) = {}
    PROVE  BanFits(b)
BY DEF BanFits, On, Ranked, Raising, Changing

\* Nothing of the accounts, the decisions and the notifications changes.
LEMMA BansStill ==
    ASSUME BansInv, store' = store, \A b \in Open' : b \in Open \/ BanFits(b)
    PROVE  BansInv'
<1>1. \A a : (Undone(a) <=> Undone(a)') /\ (Holding(a) <=> Holding(a)')
  BY DEF Undone, Holding, HasAccount
<1>2. \A b, w : (Lifting(b, w) <=> Lifting(b, w)') /\ (Banning(b, w) <=> Banning(b, w)')
  BY <1>1 DEF Lifting, Banning, HasAccount
<1>3. \A b : BanFits(b) => BanFits(b)'
  BY <1>2 DEF BanFits
<1> QED BY <1>1, <1>3 DEF BansInv

LEMMA BansOpened ==
    ASSUME BansInv, NEW a, Adds(a, Ranked), BanFits(a)
    PROVE  BansInv'
BY BansSpared, BansStill DEF Adds

\* What a commit leaves of the decisions, the notifications and the accounts.
LEMMA LastingKept ==
    ASSUME TypeInv, NEW batch, Commits(batch)
    PROVE  \A t \in Lasting : Gone(t, batch) = {}
<1>1. \A w \in batch : w.on \in Lasting => w.op # "delete"
  BY DEF Commits, TypeInv, Ok, Sound, Lasts
<1> QED BY <1>1 DEF Gone

LEMMA ActionStays ==
    ASSUME TypeInv, BansInv, NEW batch, Commits(batch), NEW a \in store["moderation_actions"]
    PROVE  a \in store'["moderation_actions"]
<1>1. \A w \in batch : w.on = "moderation_actions" => w.op = "insert"
  BY DEF Commits, TypeInv, Ok, Sound, Lasts
<1>2. After("moderation_actions", batch, a) = a
  BY <1>1 DEF After, Changes
<1>3. References(a) \subseteq {"report"} /\ Parent["report"] = "reports"
  BY DEF BansInv, References, ActionColumns, Parent
<1>4. Gone("moderation_actions", batch) = {} /\ Gone("reports", batch) = {}
  BY LastingKept DEF Lasting
<1>5. \A c \in References(a) : Gone(Parent[c], batch) = {}
  BY <1>3, <1>4
<1>6. store' = Stored(batch)
  BY DEF Commits
<1> QED BY <1>2, <1>4, <1>5, <1>6, RowStays, RankedTables

LEMMA NoticeStays ==
    ASSUME TypeInv, BansInv, NEW batch, Commits(batch), NEW n \in store["notifications"]
    PROVE  \E m \in store'["notifications"] :
              /\ m.id = n.id /\ m.born = n.born
              /\ \A u : Wrote(n, u) => Wrote(m, u)
<1> DEFINE m == After("notifications", batch, n)
<1>1. Gone("notifications", batch) = {} /\ References(n) = {} /\ store' = Stored(batch)
  BY LastingKept DEF Lasting, BansInv, Commits
<1>2. m \in store'["notifications"]
  BY <1>1, RowStays, RankedTables
<1>3. {"id", "born"} \subseteq DOMAIN n
  BY RankedTables DEF TypeInv, Numbered
<1>4. /\ m.id = n.id /\ m.born = n.born
      /\ \/ m = n
         \/ Altered("notifications", batch, n, m)
  BY <1>3, AfterIs
<1> HIDE DEF m
<1>5. CASE Altered("notifications", batch, n, m)
  <2>1. PICK w \in batch : /\ w.on = "notifications" /\ w.op \in {"update", "patch"}
                           /\ m = Overlay(w.row, n)
                           /\ \A c \in DOMAIN n \ DOMAIN w.row : m[c] = n[c]
    BY <1>5 DEF Altered
  <2>2. DOMAIN w.row = {"id", "is_read"}
    BY <2>1 DEF Commits, TypeInv, Ok, Sound, Lasts
  <2>3. DOMAIN n \subseteq DOMAIN m
    BY <2>1 DEF Overlay
  <2>4. \A u : Wrote(n, u) => Wrote(m, u)
    BY <2>1, <2>2, <2>3 DEF Wrote
  <2> QED BY <1>2, <1>4, <2>4
<1> QED BY <1>2, <1>4, <1>5

LEMMA UndoneStays ==
    ASSUME TypeInv, BansInv, NEW batch, Commits(batch), NEW a, Undone(a)
    PROVE  Undone(a)'
<1>1. CASE \E d \in store["moderation_actions"] :
               d # a /\ Rules(d, a.target) /\ d.born >= a.id
  BY <1>1, ActionStays DEF Undone
<1>2. CASE \E n \in store["notifications"] : Wrote(n, a.target) /\ Overlapped(a, n)
  <2>1. PICK n \in store["notifications"] : Wrote(n, a.target) /\ Overlapped(a, n)
    BY <1>2
  <2>2. PICK m \in store'["notifications"] : m.id = n.id /\ m.born = n.born /\ Wrote(m, a.target)
    BY <2>1, NoticeStays
  <2>3. Overlapped(a, m)
    BY <2>1, <2>2 DEF Overlapped
  <2> QED BY <2>2, <2>3 DEF Undone
<1> QED BY <1>1, <1>2 DEF Undone

\* A notification after a commit refers to nothing.
LEMMA NoticesFree ==
    ASSUME TypeInv, BansInv, NEW batch, Commits(batch), NEW m \in store'["notifications"]
    PROVE  References(m) = {}
<1>1. CASE Inserts(batch, "notifications", m)
  <2>1. PICK w \in batch : /\ w.on = "notifications" /\ w.op = "insert"
                           /\ m = Overlay(w.row, [born |-> served])
    BY <1>1 DEF Inserts
  <2>2. DOMAIN w.row \cap DOMAIN Parent = {}
    BY <2>1 DEF Commits, TypeInv, Ok, Sound, Lasts
  <2>3. DOMAIN m = DOMAIN w.row \cup {"born"} /\ "born" \notin DOMAIN Parent
    BY <2>1 DEF Overlay, Parent
  <2> QED BY <2>2, <2>3 DEF References
<1>2. CASE \E n \in store["notifications"] : m = After("notifications", batch, n)
  <2>1. PICK n \in store["notifications"] : m = After("notifications", batch, n)
    BY <1>2
  <2>2. References(n) = {} /\ {"id", "born"} \subseteq DOMAIN n
    BY RankedTables DEF BansInv, TypeInv, Numbered
  <2>3. m = n \/ Altered("notifications", batch, n, m)
    BY <2>1, <2>2, AfterIs
  <2>4. CASE Altered("notifications", batch, n, m)
    <3>1. PICK w \in batch : /\ w.on = "notifications" /\ w.op \in {"update", "patch"}
                             /\ m = Overlay(w.row, n)
      BY <2>4 DEF Altered
    <3>2. DOMAIN w.row = {"id", "is_read"}
      BY <3>1 DEF Commits, TypeInv, Ok, Sound, Lasts
    <3>3. DOMAIN m = DOMAIN n \cup {"id", "is_read"} /\ {"id", "is_read"} \cap DOMAIN Parent = {}
      BY <3>1, <3>2 DEF Overlay, Parent
    <3> QED BY <2>2, <3>3 DEF References
  <2> QED BY <2>2, <2>3, <2>4
<1> QED BY <1>1, <1>2, CommitAfter, RankedTables

LEMMA AccountStays ==
    ASSUME TypeInv, NEW batch, Commits(batch), NEW u, HasAccount(u)
    PROVE  HasAccount(u)'
<1>1. PICK r \in store["users"] : r.id = u
  BY DEF HasAccount
<1>2. References(r) = {} /\ {"id", "born"} \subseteq DOMAIN r
  BY StoreTypes DEF User, References, Parent
<1>3. Gone("users", batch) = {} /\ store' = Stored(batch)
  BY LastingKept DEF Lasting, Commits
<1>4. After("users", batch, r) \in store'["users"]
  BY <1>2, <1>3, RowStays, RankedTables
<1>5. After("users", batch, r).id = u
  BY <1>1, <1>2, AfterIs
<1> QED BY <1>4, <1>5 DEF HasAccount

\* A decision after a commit was there, or is new under a new number.
LEMMA ActionRows ==
    ASSUME TypeInv, ActionsInv, BansInv, NEW batch, Commits(batch),
           NEW a \in store'["moderation_actions"]
    PROVE  \/ a \in store["moderation_actions"]
           \/ \E v \in batch :
                 /\ v.on = "moderation_actions" /\ a.id = v.row.id /\ a.born = served
                 /\ DOMAIN v.row = ActionColumns /\ DOMAIN a = ActionColumns \cup {"born"}
                 /\ a.target = v.row.target /\ a.action_type = v.row.action_type
                 /\ a \notin store["moderation_actions"]
<1>1. CASE Inserts(batch, "moderation_actions", a)
  <2>1. PICK v \in batch : /\ v.on = "moderation_actions"
                           /\ a = Overlay(v.row, [born |-> served])
                           /\ a.id = v.row.id /\ a.born = served
                           /\ \A c \in DOMAIN v.row : a[c] = v.row[c]
    BY <1>1 DEF Inserts
  <2>2. batch \in Open
    BY DEF Commits
  <2>3. DOMAIN v.row = ActionColumns
    BY <2>1, <2>2 DEF BansInv, BanFits
  <2>4. DOMAIN a = ActionColumns \cup {"born"}
    BY <2>1, <2>3 DEF Overlay
  <2>5. a.target = v.row.target /\ a.action_type = v.row.action_type
    BY <2>1, <2>3 DEF ActionColumns
  <2>6. a \notin store["moderation_actions"]
    BY <2>1, <2>2, ActionIsNew
  <2> QED BY <2>1, <2>3, <2>4, <2>5, <2>6
<1>2. CASE \E s \in store["moderation_actions"] : a = After("moderation_actions", batch, s)
  <2>1. \A w \in batch : w.on = "moderation_actions" => w.op = "insert"
    BY DEF Commits, TypeInv, Ok, Sound, Lasts
  <2>2. \A s : After("moderation_actions", batch, s) = s
    BY <2>1 DEF After, Changes
  <2> QED BY <1>2, <2>2
<1>3. \/ Inserts(batch, "moderation_actions", a)
      \/ \E s \in store["moderation_actions"] : a = After("moderation_actions", batch, s)
  BY CommitAfter, RankedTables
<1> QED BY <1>1, <1>2, <1>3

\* An account after a commit is what became of the row of that number.
LEMMA AccountAfter ==
    ASSUME TypeInv, NumbersInv, NEW batch, Commits(batch), NEW r \in store'["users"],
           HasAccount(r.id)
    PROVE  \E s \in store["users"] : s.id = r.id /\ r = After("users", batch, s)
<1>1. CASE Inserts(batch, "users", r)
  <2>1. PICK w \in batch : w.on = "users" /\ w.op = "insert" /\ r.id = w.row.id
    BY <1>1 DEF Inserts
  <2>2. {"id"} \in w.key
    BY <2>1 DEF Commits, NumbersInv, NumberOk
  <2>3. PICK s \in store["users"] : s.id = r.id
    BY DEF HasAccount
  <2>4. Agree(s, w.row, {"id"})
    BY <2>1, <2>3 DEF Agree
  <2>5. Fails(batch)
    BY <2>1, <2>2, <2>4 DEF Fails
  <2> QED BY <2>5 DEF Commits
<1>2. CASE \E s \in store["users"] : r = After("users", batch, s)
  <2>1. PICK s \in store["users"] : r = After("users", batch, s)
    BY <1>2
  <2>2. {"id", "born"} \subseteq DOMAIN s
    BY StoreTypes DEF User
  <2>3. r.id = s.id
    BY <2>1, <2>2, AfterIs
  <2> QED BY <2>1, <2>3
<1>3. \/ Inserts(batch, "users", r)
      \/ \E s \in store["users"] : r = After("users", batch, s)
  BY CommitAfter, RankedTables
<1> QED BY <1>1, <1>2, <1>3

\* Without a write of its standing, an account keeps it.
LEMMA StandingKept ==
    ASSUME TypeInv, NEW batch, Commits(batch), NEW s \in store["users"],
           \A w \in batch : Raising(w) => w.row.id # s.id
    PROVE  /\ After("users", batch, s).is_suspended = s.is_suspended
           /\ After("users", batch, s).suspended_until = s.suspended_until
<1> DEFINE r == After("users", batch, s)
<1>1. {"id", "born", "is_suspended", "suspended_until"} \subseteq DOMAIN s
  BY StoreTypes DEF User
<1>2. r = s \/ Altered("users", batch, s, r)
  BY <1>1, AfterIs
<1> HIDE DEF r
<1>3. CASE Altered("users", batch, s, r)
  <2>1. PICK w \in batch : /\ w.on = "users" /\ w.op \in {"update", "patch"} /\ w.row.id = s.id
                           /\ \A c \in DOMAIN s \ DOMAIN w.row : r[c] = s[c]
    BY <1>3 DEF Altered
  <2>2. DOMAIN w.row \cap Standing = {}
    BY <2>1 DEF Raising, Changing
  <2>3. {"is_suspended", "suspended_until"} \subseteq DOMAIN s \ DOMAIN w.row
    BY <1>1, <2>2 DEF Standing
  <2> QED BY <2>1, <2>3 DEF r
<1> QED BY <1>2, <1>3 DEF r

\* A batch that bans an account does so if the term of it has ended since.
LEMMA AfterBanned ==
    ASSUME NEW c, NEW s, NEW r, r.id = s.id,
           Standing \subseteq DOMAIN r, Standing \subseteq DOMAIN s,
           r.is_suspended = s.is_suspended,
           s.suspended_until = None => r.suspended_until = None,
           Banned(After("users", c, s))
    PROVE  Banned(After("users", c, r))
<1>1. Changes("users", c, s) = Changes("users", c, r)
  BY DEF Changes
<1>2. CASE Changes("users", c, s) = {}
  BY <1>1, <1>2 DEF After, Banned
<1>3. CASE Changes("users", c, s) # {}
  <2> DEFINE w == CHOOSE x \in Changes("users", c, s) : TRUE
  <2>1. After("users", c, s) = Overlay(w.row, s) /\ After("users", c, r) = Overlay(w.row, r)
    BY <1>1, <1>3 DEF After
  <2> HIDE DEF w
  <2>2. \A k \in Standing : \/ Overlay(w.row, s)[k] = Overlay(w.row, r)[k]
                           \/ (Overlay(w.row, s)[k] = s[k] /\ Overlay(w.row, r)[k] = r[k])
    BY DEF Overlay
  <2>3. /\ Overlay(w.row, s).is_suspended = Overlay(w.row, r).is_suspended
        /\ \/ Overlay(w.row, s).suspended_until = Overlay(w.row, r).suspended_until
           \/ /\ Overlay(w.row, s).suspended_until = s.suspended_until
              /\ Overlay(w.row, r).suspended_until = r.suspended_until
    BY <2>2 DEF Standing
  <2> QED BY <2>1, <2>3 DEF Banned
<1> QED BY <1>2, <1>3

\* A commit that writes a standing brings a decision, or the message of one
\* who was not banned when it was sent.
LEMMA Touched ==
    ASSUME TypeInv, ActionsInv, BansInv, NEW batch, Commits(batch), NEW w \in batch, Raising(w)
    PROVE  \/ \E d \in store'["moderation_actions"] :
                 /\ d \notin store["moderation_actions"]
                 /\ Rules(d, w.row.id) /\ d.born = served
           \/ \E n \in store'["notifications"] :
                 /\ Wrote(n, w.row.id) /\ n.born = served /\ n.id \in Int /\ n.id <= served
                 /\ \A a \in store["moderation_actions"] :
                       IsBan(a) /\ a.target = w.row.id => n.id <= a.born \/ Undone(a)
<1>1. batch \in Open /\ store' = Stored(batch)
  BY DEF Commits
<1>2. Lifting(batch, w)
  BY <1>1 DEF BansInv, BanFits
<1>3. CASE \E v \in batch : v.on = "moderation_actions" /\ Rules(v.row, w.row.id)
  <2>1. PICK v \in batch : v.on = "moderation_actions" /\ Rules(v.row, w.row.id)
    BY <1>3
  <2> DEFINE d == Overlay(v.row, [born |-> served])
  <2>2. v.op = "insert" /\ \A a \in store["moderation_actions"] : a.id # v.row.id
    BY <1>1, <2>1, ActionIsNew
  <2>3. d \in store'["moderation_actions"]
    BY <1>1, <2>1, <2>2, RowAdded, RankedTables
  <2>4. DOMAIN v.row = ActionColumns
    BY <1>1, <2>1 DEF BansInv, BanFits
  <2>5. /\ d.id = v.row.id /\ d.target = v.row.target
        /\ d.action_type = v.row.action_type /\ d.born = served
    BY <2>4 DEF Overlay, ActionColumns
  <2> HIDE DEF d
  <2> QED BY <2>1, <2>2, <2>3, <2>5 DEF Rules
<1>4. CASE \E v \in batch :
          /\ NewIn(v, "notifications") /\ Wrote(v.row, w.row.id)
          /\ \A a \in store["moderation_actions"] :
                IsBan(a) /\ a.target = w.row.id => v.row.id <= a.born \/ Undone(a)
  <2>1. PICK v \in batch :
          /\ NewIn(v, "notifications") /\ Wrote(v.row, w.row.id)
          /\ \A a \in store["moderation_actions"] :
                IsBan(a) /\ a.target = w.row.id => v.row.id <= a.born \/ Undone(a)
    BY <1>4
  <2> DEFINE n == Overlay(v.row, [born |-> served])
  <2>2. v.op = "insert" /\ v.on = "notifications"
    BY <2>1 DEF NewIn
  <2>3. n \in store'["notifications"]
    BY <1>1, <2>2, RowAdded, RankedTables
  <2>4. "id" \in DOMAIN v.row /\ "born" \notin DOMAIN v.row /\ v.row.id \in Int /\ v.row.id <= served
    BY <1>1, <2>2 DEF TypeInv, Ok, Sound, Keyed
  <2>5. {"kind", "actor"} \subseteq DOMAIN v.row
    BY <2>1 DEF Wrote
  <2>6. /\ n.id = v.row.id /\ n.kind = v.row.kind /\ n.actor = v.row.actor /\ n.born = served
        /\ {"kind", "actor"} \subseteq DOMAIN n
    BY <2>4, <2>5 DEF Overlay
  <2> HIDE DEF n
  <2>7. Wrote(n, w.row.id)
    BY <2>1, <2>6 DEF Wrote
  <2> QED BY <2>1, <2>3, <2>4, <2>6, <2>7
<1> QED BY <1>2, <1>3, <1>4 DEF Lifting

\* What the batches that stay open say is as true after a commit.
LEMMA LiftingStays ==
    ASSUME TypeInv, ActionsInv, BansInv, NEW batch, Commits(batch),
           NEW c \in Open, NEW w \in c, Lifting(c, w)
    PROVE  Lifting(c, w)'
<1>1. CASE \E v \in c : v.on = "moderation_actions" /\ Rules(v.row, w.row.id)
  BY <1>1 DEF Lifting
<1>2. CASE \E v \in c :
          /\ NewIn(v, "notifications") /\ Wrote(v.row, w.row.id)
          /\ \A a \in store["moderation_actions"] :
                IsBan(a) /\ a.target = w.row.id => v.row.id <= a.born \/ Undone(a)
  <2>1. PICK v \in c :
          /\ NewIn(v, "notifications") /\ Wrote(v.row, w.row.id)
          /\ \A a \in store["moderation_actions"] :
                IsBan(a) /\ a.target = w.row.id => v.row.id <= a.born \/ Undone(a)
    BY <1>2
  <2>2. v.row.id <= served
    BY <2>1 DEF NewIn, TypeInv, Ok, Sound, Keyed
  <2>3. ASSUME NEW a \in store'["moderation_actions"], IsBan(a), a.target = w.row.id
        PROVE  v.row.id <= a.born \/ Undone(a)'
    <3>1. CASE a \in store["moderation_actions"]
      BY <2>1, <2>3, <3>1, UndoneStays
    <3>2. CASE a.born = served
      BY <2>2, <3>2
    <3> QED BY <3>1, <3>2, ActionRows
  <2> QED BY <2>1, <2>3 DEF Lifting
<1> QED BY <1>1, <1>2 DEF Lifting

LEMMA BanningStays ==
    ASSUME TypeInv, ActionsInv, NumbersInv, BansInv, NEW batch, Commits(batch),
           NEW c \in Open, NEW v \in c, v.on = "moderation_actions", Banning(c, v)
    PROVE  Banning(c, v)'
<1> DEFINE u == v.row.target
<1>1. HasAccount(u) /\ HasAccount(u)'
  BY AccountStays DEF Banning
<1>2. v.row.id \in Int /\ v.row.id <= served
  BY ActionIsNew
<1>3. CASE \E d \in store["moderation_actions"] : Rules(d, u) /\ d.born >= v.row.id
  <2>1. \E d \in store'["moderation_actions"] : Rules(d, u) /\ d.born >= v.row.id
    BY <1>3, ActionStays
  <2> QED BY <1>1, <2>1 DEF Banning
<1>4. CASE \E n \in store["notifications"] : Wrote(n, u) /\ n.born >= v.row.id
  <2>1. \E n \in store'["notifications"] : Wrote(n, u) /\ n.born >= v.row.id
    BY <1>4, NoticeStays
  <2> QED BY <1>1, <2>1 DEF Banning
<1>5. CASE \E w \in batch : Raising(w) /\ w.row.id = u
  <2>1. PICK w \in batch : Raising(w) /\ w.row.id = u
    BY <1>5
  <2>2. \/ \E d \in store'["moderation_actions"] : Rules(d, u) /\ d.born = served
        \/ \E n \in store'["notifications"] : Wrote(n, u) /\ n.born = served
    BY <2>1, Touched
  <2>3. \/ \E d \in store'["moderation_actions"] : Rules(d, u) /\ d.born >= v.row.id
        \/ \E n \in store'["notifications"] : Wrote(n, u) /\ n.born >= v.row.id
    BY <1>2, <2>2 DEF TypeInv, UnitInv
  <2> QED BY <1>1, <2>3 DEF Banning
<1>6. CASE /\ \A w \in batch : Raising(w) => w.row.id # u
           /\ \A r \in store["users"] : r.id = u => Banned(After("users", c, r))
  <2>1. ASSUME NEW r \in store'["users"], r.id = u
        PROVE  Banned(After("users", c, r))
    <3>1. PICK s \in store["users"] : s.id = r.id /\ r = After("users", batch, s)
      BY <1>1, <2>1, AccountAfter
    <3>2. r.is_suspended = s.is_suspended /\ r.suspended_until = s.suspended_until
      BY <1>6, <2>1, <3>1, StandingKept
    <3>3. Standing \subseteq DOMAIN s /\ Standing \subseteq DOMAIN r
      <4>1. Standing \subseteq DOMAIN s /\ "id" \in DOMAIN s /\ "born" \in DOMAIN s
        BY StoreTypes DEF User, Standing
      <4>2. r = s \/ \E w \in batch : r = Overlay(w.row, s)
        BY <3>1, <4>1, AfterIs DEF Altered
      <4> QED BY <4>1, <4>2 DEF Overlay
    <3>4. Banned(After("users", c, s))
      BY <1>6, <2>1, <3>1
    <3> QED BY <3>1, <3>2, <3>3, <3>4, AfterBanned
  <2> QED BY <1>1, <2>1 DEF Banning
<1> QED BY <1>3, <1>4, <1>5, <1>6 DEF Banning

\* A ban that held goes on to hold.
LEMMA HoldingStays ==
    ASSUME TypeInv, ActionsInv, NumbersInv, BansInv, NEW batch, Commits(batch),
           NEW a \in store["moderation_actions"], IsBan(a)
    PROVE  Holding(a)'
<1> DEFINE u == a.target
<1>1. Holding(a) /\ HasAccount(u) /\ HasAccount(u)'
  BY AccountStays DEF BansInv, Holding
<1>2. a.id \in Int /\ a.id <= served
  BY RowNumbers, RankedTables
<1>3. CASE Undone(a)
  BY <1>1, <1>3, UndoneStays DEF Holding
<1>4. CASE ~Undone(a) /\ \E w \in batch : Raising(w) /\ w.row.id = u
  <2>1. PICK w \in batch : Raising(w) /\ w.row.id = u
    BY <1>4
  <2>2. CASE \E d \in store'["moderation_actions"] :
                 d \notin store["moderation_actions"] /\ Rules(d, u) /\ d.born = served
    <3>1. PICK d \in store'["moderation_actions"] :
                 d \notin store["moderation_actions"] /\ Rules(d, u) /\ d.born = served
      BY <2>2
    <3>2. d # a /\ d.born >= a.id
      BY <1>2, <3>1 DEF TypeInv, UnitInv
    <3>3. Undone(a)'
      BY <3>1, <3>2 DEF Undone
    <3> QED BY <1>1, <3>3 DEF Holding
  <2>3. CASE \E n \in store'["notifications"] :
                 /\ Wrote(n, u) /\ n.born = served /\ n.id \in Int /\ n.id <= a.born
    <3>1. PICK n \in store'["notifications"] :
                 /\ Wrote(n, u) /\ n.born = served /\ n.id \in Int /\ n.id <= a.born
      BY <2>3
    <3>2. Overlapped(a, n)
      BY <1>2, <3>1 DEF Overlapped
    <3>3. Undone(a)'
      BY <3>1, <3>2 DEF Undone
    <3> QED BY <1>1, <3>3 DEF Holding
  <2> QED BY <1>4, <2>1, <2>2, <2>3, Touched
<1>5. CASE ~Undone(a) /\ \A w \in batch : Raising(w) => w.row.id # u
  <2>1. ASSUME NEW r \in store'["users"], r.id = u
        PROVE  Banned(r)
    <3>1. PICK s \in store["users"] : s.id = r.id /\ r = After("users", batch, s)
      BY <1>1, <2>1, AccountAfter
    <3>2. r.is_suspended = s.is_suspended /\ r.suspended_until = s.suspended_until
      BY <1>5, <2>1, <3>1, StandingKept
    <3>3. Banned(s)
      BY <1>1, <1>5, <2>1, <3>1 DEF Holding
    <3> QED BY <3>2, <3>3 DEF Banned
  <2> QED BY <1>1, <2>1 DEF Holding
<1> QED BY <1>3, <1>4, <1>5

\* A ban that is committed holds.
LEMMA HoldingBegins ==
    ASSUME TypeInv, ActionsInv, NumbersInv, BansInv, NEW batch, Commits(batch),
           NEW a \in store'["moderation_actions"], IsBan(a),
           a \notin store["moderation_actions"]
    PROVE  Holding(a)'
<1> DEFINE u == a.target
<1>1. PICK v \in batch :
          /\ v.on = "moderation_actions" /\ a.id = v.row.id /\ a.born = served
          /\ u = v.row.target /\ a.action_type = v.row.action_type
  BY ActionRows
<1>2. Banning(batch, v) /\ v.row.id \in Int /\ v.row.id <= served /\ batch \in Open
  BY <1>1, ActionIsNew DEF Commits, BansInv, BanFits, IsBan
<1>3. HasAccount(u) /\ HasAccount(u)'
  BY <1>1, <1>2, AccountStays DEF Banning
<1>4. CASE \E d \in store["moderation_actions"] : Rules(d, u) /\ d.born >= v.row.id
  <2>1. Undone(a)'
    BY <1>1, <1>4, ActionStays DEF Undone
  <2> QED BY <1>3, <2>1 DEF Holding
<1>5. CASE \E n \in store["notifications"] : Wrote(n, u) /\ n.born >= v.row.id
  <2>1. PICK n \in store["notifications"] : Wrote(n, u) /\ n.born >= v.row.id
    BY <1>5
  <2>2. n.id \in Int /\ n.id <= served
    BY RowNumbers, RankedTables
  <2>3. PICK m \in store'["notifications"] : m.id = n.id /\ m.born = n.born /\ Wrote(m, u)
    BY <2>1, NoticeStays
  <2>4. Overlapped(a, m)
    BY <1>1, <2>1, <2>2, <2>3 DEF Overlapped
  <2>5. Undone(a)'
    BY <2>3, <2>4 DEF Undone
  <2> QED BY <1>3, <2>5 DEF Holding
<1>6. CASE \A r \in store["users"] : r.id = u => Banned(After("users", batch, r))
  <2>1. \A r \in store'["users"] : r.id = u => Banned(r)
    BY <1>3, <1>6, AccountAfter
  <2> QED BY <1>3, <2>1 DEF Holding
<1> QED BY <1>1, <1>2, <1>4, <1>5, <1>6 DEF Banning

LEMMA BansCommit ==
    ASSUME TypeInv, ActionsInv, NumbersInv, BansInv, NEW batch, Commits(batch)
    PROVE  BansInv'
<1>1. ASSUME NEW a \in store'["moderation_actions"]
      PROVE  DOMAIN a = ActionColumns \cup {"born"} /\ (IsBan(a) => Holding(a)')
  <2>1. CASE a \in store["moderation_actions"]
    BY <2>1, HoldingStays DEF BansInv
  <2>2. CASE a \notin store["moderation_actions"]
    BY <2>2, ActionRows, HoldingBegins
  <2> QED BY <2>1, <2>2
<1>2. ASSUME NEW c \in Open
      PROVE  BanFits(c)'
  <2>1. BanFits(c)
    BY DEF BansInv
  <2>2. \A w \in c : Raising(w) => Lifting(c, w)'
    BY <2>1, LiftingStays DEF BanFits
  <2>3. \A v \in c : v.on = "moderation_actions" =>
            DOMAIN v.row = ActionColumns /\ (IsBan(v.row) => Banning(c, v)')
    BY <2>1, BanningStays DEF BanFits
  <2> QED BY <2>1, <2>2, <2>3 DEF BanFits
<1>3. Open' \subseteq Open
  BY DEF Commits
<1> QED BY <1>1, <1>2, <1>3, NoticesFree DEF BansInv

\* Time ends terms, and a ban has none.
LEMMA BansClock ==
    ASSUME TypeInv, BansInv, Clock
    PROVE  BansInv'
<1>1. PICK f : /\ store'["users"] = {f[r] : r \in store["users"]}
               /\ \A r \in store["users"] :
                     /\ f[r].id = r.id /\ DOMAIN f[r] = DOMAIN r
                     /\ f[r].is_suspended = r.is_suspended
                     /\ r.suspended_until = None => f[r].suspended_until = None
  BY ClockAccounts
<1>2. /\ store'["moderation_actions"] = store["moderation_actions"]
      /\ store'["notifications"] = store["notifications"]
      /\ Open' = Open
  BY ClockSteps, RankedTables
<1>3. \A u : HasAccount(u) <=> HasAccount(u)'
  BY <1>1 DEF HasAccount
<1>4. \A a : Undone(a) <=> Undone(a)'
  BY <1>2 DEF Undone
<1>5. ASSUME NEW a, Holding(a) PROVE Holding(a)'
  <2>1. \A r \in store["users"] : Banned(r) => Banned(f[r])
    BY <1>1 DEF Banned
  <2> QED BY <1>1, <1>3, <1>4, <1>5, <2>1 DEF Holding
<1>6. \A c, w : Lifting(c, w) => Lifting(c, w)'
  BY <1>2, <1>4 DEF Lifting
<1>7. ASSUME NEW c, NEW v, Banning(c, v) PROVE Banning(c, v)'
  <2>1. ASSUME NEW s \in store["users"], Banned(After("users", c, s))
        PROVE  Banned(After("users", c, f[s]))
    <3>1. Standing \subseteq DOMAIN s
      BY StoreTypes DEF User, Standing
    <3> QED BY <1>1, <2>1, <3>1, AfterBanned
  <2>2. HasAccount(v.row.target)'
    BY <1>3, <1>7 DEF Banning
  <2>3. CASE \A r \in store["users"] : r.id = v.row.target => Banned(After("users", c, r))
    <3>1. \A r \in store'["users"] : r.id = v.row.target => Banned(After("users", c, r))
      BY <1>1, <2>1, <2>3
    <3> QED BY <2>2, <3>1 DEF Banning
  <2> QED BY <1>2, <1>7, <2>2, <2>3 DEF Banning
<1>8. \A c : BanFits(c) => BanFits(c)'
  BY <1>6, <1>7 DEF BanFits
<1> QED BY <1>2, <1>5, <1>8 DEF BansInv

\* What a handler reads again is not about accounts.
LEMMA BansResolve ==
    ASSUME TypeInv, BansInv, NEW p \in Workers, Responded(p) \/ FeedSteps(p)
    PROVE  BansInv'
<1>1. PICK batches : Resolves(p, batches)
  BY RespondedResolves, LogEventResolves, ToggleAgainResolves DEF FeedSteps
<1>2. \E w \in Head(tx[p]) : w.op \notin Writes
  BY DEF Responded, FeedSteps, LogEvent, ToggleAgain, Writes
<1>3. tx[p] # <<>> /\ store' = store /\ Open' \subseteq Open \cup Parts(batches)
  BY <1>1, ResolveOpens DEF Resolves, Resolve, AllOk, TypeInv, Parts
<1>4. Head(tx[p]) \in Open
  BY <1>3, HeadOpen
<1>5. On(Head(tx[p]), Ranked) = {}
  BY <1>2, <1>4 DEF BansInv, BanFits
<1>6. \A i \in DOMAIN batches : On(batches[i], Ranked) = {}
  BY <1>1, <1>5, RankedTables DEF Resolves
<1>7. \A b \in Parts(batches) : BanFits(b)
  BY <1>6, BansSpared DEF Parts
<1> QED BY <1>3, <1>7, BansStill

\* What a permanent ban sets.
Ban == [is_suspended |-> TRUE, suspended_until |-> None]

\* An account that a batch bans, and writes nothing else of, is banned after it.
LEMMA AfterBan ==
    ASSUME NEW a, NEW x, Standing \subseteq DOMAIN x,
           Edit("users", x, Ban) \subseteq a, On(a, {"users"}) \subseteq Edit("users", x, Ban)
    PROVE  Banned(After("users", a, x))
<1>1. /\ DOMAIN Ban = Standing /\ "id" \notin DOMAIN Ban
      /\ Ban["is_suspended"] = TRUE /\ Ban["suspended_until"] = None
  BY DEF Ban, Standing
<1>2. Changes("users", a, x) = Edit("users", x, Ban)
  BY <1>1, EditWrites DEF Changes, On
<1>3. ASSUME NEW c \in Standing
      PROVE  After("users", a, x)[c] = Ban[c]
  <2>1. CASE Edit("users", x, Ban) = {}
    <3>1. Ban[c] = x[c]
      BY <1>1, <2>1, EditChanges
    <3> QED BY <1>2, <2>1, <3>1 DEF After
  <2>2. CASE \E w : Edit("users", x, Ban) = {w}
    <3>1. PICK w : Edit("users", x, Ban) = {w}
      BY <2>2
    <3>2. After("users", a, x) = Overlay(w.row, x)
      BY <1>2, <3>1 DEF After
    <3>3. CASE c \in DOMAIN w.row
      <4>1. w.row[c] = Ban[c]
        BY <1>1, <3>1, <3>3, EditWrites DEF Standing
      <4> QED BY <3>2, <3>3, <4>1 DEF Overlay
    <3>4. CASE c \notin DOMAIN w.row
      <4>1. x[c] = Ban[c]
        BY <1>1, <3>1, <3>4, EditChanges
      <4>2. c \in DOMAIN x \ DOMAIN w.row
        BY <3>4
      <4> QED BY <3>2, <4>1, <4>2 DEF Overlay
    <3> QED BY <3>3, <3>4
  <2> QED BY <2>1, <2>2 DEF Edit
<1>4. After("users", a, x).is_suspended = TRUE /\ After("users", a, x).suspended_until = None
  BY <1>1, <1>3 DEF Standing
<1> QED BY <1>4 DEF Banned

LEMMA AccountIs ==
    ASSUME NEW u, HasAccount(u)
    PROVE  Account(u) \in store["users"] /\ Account(u).id = u
BY DEF HasAccount, Account

\* A decision changes the standing by which it rules, and a ban bans.
LEMMA BansDecision ==
    ASSUME TypeInv, NumbersInv, NEW a, DecisionBatch(a)
    PROVE  BanFits(a)
<1>1. PICK m, term : \E r \in store["reports"] :
            \E action \in UserActions \cup {"warning", "content_removal"} :
               /\ r.type \in ReportTypes
               /\ action \in UserActions => HasAccount(r.target)
               /\ Taken(m, r, action) \in a
               /\ action \in UserActions =>
                     Edit("users", Account(r.target), Sanction(action, term)) \subseteq a
               /\ \A x \in a :
                     \/ x = Taken(m, r, action)
                     \/ ResolvesTo(x, r, "resolved")
                     \/ x = Delete(r.type, r.target) /\ action = "content_removal"
                     \/ /\ action \in UserActions
                        /\ x \in Edit("users", Account(r.target), Sanction(action, term))
  BY DecisionBatchWrites DEF HasAccount
<1>2. PICK r, action :
               /\ r.type \in ReportTypes
               /\ action \in UserActions => HasAccount(r.target)
               /\ Taken(m, r, action) \in a
               /\ action \in UserActions =>
                     Edit("users", Account(r.target), Sanction(action, term)) \subseteq a
               /\ \A x \in a :
                     \/ x = Taken(m, r, action)
                     \/ ResolvesTo(x, r, "resolved")
                     \/ x = Delete(r.type, r.target) /\ action = "content_removal"
                     \/ /\ action \in UserActions
                        /\ x \in Edit("users", Account(r.target), Sanction(action, term))
  BY <1>1
<1> DEFINE v == Taken(m, r, action)
           u == r.target
           E == Edit("users", Account(r.target), Sanction(action, term))
<1>3. /\ v.op = "insert" /\ v.on = "moderation_actions" /\ DOMAIN v.row = ActionColumns
      /\ v.row.target = u /\ v.row.action_type = action /\ v \in a
  BY <1>2 DEF Taken, Insert, ActionColumns
<1>4. /\ Delete(r.type, r.target).op = "delete"
      /\ Delete(r.type, r.target).on = r.type
  BY DEF Delete
<1>5. action \in UserActions => \A w \in E : w.op = "update" /\ w.on = "users" /\ w.row.id = u
  BY <1>2, SanctionWrites, AccountIs
<1>6. \A w \in a : w.op \in Writes
  BY <1>2, <1>3, <1>4, <1>5 DEF Writes, ResolvesTo
<1>7. \A w \in a : w.on = "moderation_actions" => w = v
  BY <1>2, <1>4, <1>5 DEF ResolvesTo, ReportTypes
<1>8. \A w \in a : Changing(w, "users") => action \in UserActions /\ w \in E
  BY <1>2, <1>3, <1>4 DEF ResolvesTo, Changing
<1>9. ASSUME NEW w \in a, Raising(w)
      PROVE  Lifting(a, w)
  <2>1. action \in UserActions /\ w \in E /\ DOMAIN w.row \cap Standing # {}
    BY <1>8, <1>9 DEF Raising
  <2>2. DOMAIN w.row \subseteq {"id"} \cup DOMAIN Sanction(action, term)
    <3>1. "id" \notin DOMAIN Sanction(action, term)
      BY <2>1 DEF Sanction, UserActions, Suspending
    <3> QED BY <2>1, <3>1, EditWrites
  <2>3. action \in Suspending
    BY <2>1, <2>2 DEF Sanction, UserActions, Suspending, Standing
  <2>4. Rules(v.row, w.row.id)
    BY <1>3, <1>5, <2>1, <2>3 DEF Rules
  <2> QED BY <1>3, <2>4 DEF Lifting
<1>10. ASSUME IsBan(v.row)
       PROVE  Banning(a, v)
  <2>1. action = "permanent_ban" /\ action \in UserActions
    BY <1>3, <1>10 DEF IsBan, UserActions, Suspending
  <2>2. HasAccount(u)
    BY <1>2, <2>1
  <2>3. Sanction(action, term) = Ban
    BY <2>1 DEF Sanction, Ban
  <2>4. ASSUME NEW x \in store["users"], x.id = u
        PROVE  Banned(After("users", a, x))
    <3>1. x = Account(u)
      BY <2>2, <2>4, AccountIs DEF NumbersInv, Distinct
    <3>2. Standing \subseteq DOMAIN x
      BY StoreTypes DEF User, Standing
    <3>3. Edit("users", x, Ban) = E
      BY <2>3, <3>1
    <3>4. E \subseteq a
      BY <1>2, <2>1
    <3>5. On(a, {"users"}) \subseteq E
      BY <1>2, <1>3, <1>4, <2>1 DEF ResolvesTo, On
    <3> HIDE DEF E
    <3> QED BY <3>2, <3>3, <3>4, <3>5, AfterBan
  <2> QED BY <1>3, <2>2, <2>4 DEF Banning
<1> HIDE DEF v
<1> QED BY <1>3, <1>6, <1>7, <1>9, <1>10 DEF BanFits

LEMMA BansModeration ==
    ASSUME TypeInv, NumbersInv, NEW a, ModerationBatch(a)
    PROVE  BanFits(a)
<1>1. CASE ReportBatch(a)
  <2>1. On(a, Ranked) = {}
    BY <1>1 DEF ReportBatch, Insert, On, Ranked
  <2> QED BY <2>1, BansSpared
<1>2. CASE ResolveBatch(a)
  <2>1. \A x \in a : x.on = "reports"
    BY <1>2, EditWrites DEF ResolveBatch
  <2>2. On(a, Ranked) = {}
    BY <2>1 DEF On, Ranked
  <2> QED BY <2>2, BansSpared
<1>3. CASE OtherBatch(a)
  <2>1. On(a, Ranked) = {}
    BY <1>3 DEF OtherBatch, On, Ranked
  <2> QED BY <2>1, BansSpared
<1> QED BY <1>1, <1>2, <1>3, BansDecision DEF ModerationBatch

\* A message lifts a term that has run out, which a ban has not.
LEMMA BansSent ==
    ASSUME TypeInv, BansInv, NEW a, SentBatch(a)
    PROVE  BanFits(a)
<1>1. PICK u \in Users, w \in Users : \E findings :
          /\ Sendable(u, w, findings)
          /\ a = ({Insert("messages", NewMessage(u, w)), notify(w, "message", u)}
                  \cup analyze_content(findings)) \cup _refresh_user_moderation(u)
  BY DEF SentBatch
<1> DEFINE v == notify(w, "message", u)
<1>2. HasAccount(u) /\ ~(Account(u).is_suspended /\ Account(u).suspended_until # "past")
  BY <1>1 DEF Sendable, validate_user_can_send, HasAccount
<1>3. ~Banned(Account(u))
  BY <1>2 DEF Banned, None
<1>4. \A x \in a :
          \/ x = v
          \/ x.op = "insert" /\ x.on \in {"messages", "ai_results"}
          \/ x \in _refresh_user_moderation(u)
  BY <1>1 DEF Insert, analyze_content
<1>5. /\ v \in a /\ NewIn(v, "notifications") /\ Wrote(v.row, u)
      /\ v.op = "insert" /\ v.on = "notifications"
  BY <1>1 DEF notify, Insert, NewIn, Wrote
<1>6. \A x \in _refresh_user_moderation(u) : x.op = "update" /\ x.on = "users" /\ x.row.id = u
  BY <1>2, LiftWrites, AccountIs
<1> HIDE DEF v
<1>7. \A x \in a : x.op \in Writes /\ x.on # "moderation_actions"
  BY <1>4, <1>5, <1>6 DEF Writes
<1>8. ASSUME NEW d \in store["moderation_actions"], IsBan(d), d.target = u
      PROVE  Undone(d)
  <2>1. Holding(d)
    BY <1>8 DEF BansInv
  <2> QED BY <1>2, <1>3, <1>8, <2>1, AccountIs DEF Holding
<1>9. ASSUME NEW x \in a, Raising(x)
      PROVE  Lifting(a, x)
  <2>1. x.row.id = u
    BY <1>4, <1>5, <1>6, <1>9 DEF Raising, Changing
  <2> QED BY <1>5, <1>8, <2>1 DEF Lifting
<1> QED BY <1>7, <1>9 DEF BanFits

\* Registration and profiles write no standing of an account there is.
LEMMA BansProfile ==
    ASSUME NEW a, \A x \in a : /\ x.op \in Writes /\ x.on = "users"
                               /\ x.op # "insert" => DOMAIN x.row \cap Standing = {}
    PROVE  BanFits(a)
BY DEF BanFits, Raising, Changing

LEMMA SetPhoneWrites ==
    ASSUME NEW a, NEW phone, NEW x \in SetPhone(a, phone)
    PROVE  /\ x.op = "update" /\ x.on = "users"
           /\ DOMAIN x.row \cap Standing = {}
<1>1. PICK w \in Edit("users", a, [phone |-> phone]) : x = [w EXCEPT !.key = PhoneKey(phone)]
  BY DEF SetPhone
<1>2. w.op = "update" /\ w.on = "users" /\ DOMAIN w.row \subseteq {"id", "phone"}
  <2>1. DOMAIN [phone |-> phone] = {"phone"} /\ "id" \notin {"phone"}
    OBVIOUS
  <2> QED BY <2>1, EditWrites
<1>3. x.op = w.op /\ x.on = w.on /\ x.row = w.row
  BY <1>1 DEF Edit, Update
<1> QED BY <1>2, <1>3 DEF Standing

LEMMA BansAccounts ==
    ASSUME TypeInv, NumbersInv, BansInv, NEW p \in Workers, AccountRoutes(p),
           Opens(p, AccountWrites)
    PROVE  BansInv'
<1>1. ASSUME NEW a, BanFits(a), Begin(p, <<a>>) \/ BeginRefreshed(p, <<a>>)
      PROVE  BansInv'
  <2>1. Parts(<<a>>) = {a}
    BY DEF Parts
  <2> QED BY <1>1, <2>1, AddsAmong, AddsRefreshed, BansOpened
<1>2. ASSUME NEW accounts \in SUBSET store["users"], Begin(p, <<Loaded(accounts)>>)
      PROVE  BansInv'
  <2>1. BanFits(Loaded(accounts))
    BY NumbersLoaded, BansProfile
  <2> QED BY <1>1, <1>2, <2>1
<1>3. CASE register_user(p)
  <2>1. PICK u \in Users, number \in Numbers : create_user_if_not_exists(p, u, number)
    BY <1>3 DEF register_user
  <2> DEFINE mine == {a \in store["users"] : a.id = u}
             phone == decrypt_value(encrypt_value(number))
             key == {{"id"}} \cup PhoneKey(phone)
             new == [Insert("users", NewUser(u, phone)) EXCEPT !.key = key]
  <2>2. Begin(p, << Loaded(mine) >>) \/ Begin(p, << {new} >>)
    BY <2>1 DEF create_user_if_not_exists
  <2>3. mine \in SUBSET store["users"]
    OBVIOUS
  <2> HIDE DEF mine, phone, key
  <2>4. new.op = "insert" /\ new.on = "users"
    BY DEF Insert, NewUser
  <2> HIDE DEF new
  <2>5. BanFits({new})
    BY <2>4, BansProfile DEF Writes
  <2> QED BY <1>1, <1>2, <2>2, <2>3, <2>5
<1>4. CASE update_profile(p)
  <2>1. PICK a, phone : BeginRefreshed(p, << SetPhone(a, phone) >>)
    BY <1>4 DEF update_profile, update_user
  <2>2. BanFits(SetPhone(a, phone))
    BY SetPhoneWrites, BansProfile DEF Writes
  <2> QED BY <1>1, <2>1, <2>2
<1>5. CASE read_users(p)
  <2>1. PICK a \in store["users"], others \in SUBSET store["users"] :
            Begin(p, << Loaded({a} \cup others) >>)
    BY <1>5 DEF read_users
  <2> QED BY <1>2, <2>1
<1> QED BY <1>3, <1>4, <1>5 DEF AccountRoutes

LEMMA BansElsewhere ==
    ASSUME TypeInv, BansInv, NEW p \in Workers, NEW T, Opens(p, T), T \cap Ranked = {}
    PROVE  BansInv'
<1>1. PICK batches : Begin(p, batches)
  BY DEF Opens
<1>2. /\ Open' \subseteq Open \cup Parts(batches) /\ store' = store
      /\ \A b \in Parts(batches) : Ok(b, T, Self)
  BY <1>1, HandlerBegins
<1>3. \A b \in Parts(batches) : On(b, Ranked) = {}
  BY <1>2 DEF Ok, On
<1> QED BY <1>2, <1>3, BansSpared, BansStill

LEMMA BansRequest ==
    ASSUME TypeInv, NumbersInv, BansInv, "groups" \notin scene.routes,
           NEW p \in Workers, Request(p)
    PROVE  BansInv'
<1> DEFINE others == {RelationWrites, FeedReads, ChatExtraWrites, PostWrites, MarkWrites,
              MemberWrites, SessionWrites, TokenWrites, PollWrites, SocialWrites, UploadWrites,
              CatalogTables}
<1>1. \A T \in others : T \cap Ranked = {}
  BY DEF RelationWrites, FeedReads, ChatExtraWrites, PostWrites, MarkWrites, MemberWrites,
         SessionWrites, TokenWrites, PollWrites, SocialWrites, UploadWrites,
         CatalogTables, EnterpriseTables, RegionalTables, PlatformTables, Ranked
<1>2. \/ ModerationRoutes(p) /\ Opens(p, ModerationWrites)
      \/ resolve_report_route(p) /\ Opens(p, DecisionWrites)
      \/ ChatRoutes(p) /\ Opens(p, ChatWrites)
      \/ AccountRoutes(p) /\ Opens(p, AccountWrites)
      \/ \E T \in others : Opens(p, T)
  BY Requests
<1> HIDE DEF others
<1>3. CASE \E T \in others : Opens(p, T)
  BY <1>1, <1>3, BansElsewhere
<1>4. CASE \/ ModerationRoutes(p) /\ Opens(p, ModerationWrites)
           \/ resolve_report_route(p) /\ Opens(p, DecisionWrites)
  <2>1. \E a : ModerationBatch(a) /\ Adds(a, Ranked)
    BY <1>4, ModerationLeads, DecisionLeads
  <2> QED BY <2>1, BansModeration, BansOpened
<1>5. CASE ChatRoutes(p) /\ Opens(p, ChatWrites)
  <2>1. PICK a : ChatBatch(a) /\ Adds(a, Ranked)
    BY <1>5, ChatLeads
  <2>2. BanFits(a)
    BY <2>1, BansSent, BansSpared DEF ChatBatch
  <2> QED BY <2>1, <2>2, BansOpened
<1> QED BY <1>2, <1>3, <1>4, <1>5, BansAccounts

LEMMA BansInit ==
    ASSUME Init
    PROVE  BansInv
<1>1. store["moderation_actions"] = {} /\ Open = {}
  BY ActionsInit, FirstOrNone
<1>2. store["notifications"] = {}
  <2>1. \A f \in DOMAIN Seeded : "notifications" \notin Seeded[f]
    BY DEF Seeded
  <2> QED BY <2>1, EmptyAtFirst, RankedTables
<1> QED BY <1>1, <1>2 DEF BansInv

LEMMA BansNext ==
    ASSUME TypeInv, ActionsInv, NumbersInv, BansInv, "groups" \notin scene.routes, [Next]_vars
    PROVE  BansInv'
<1>1. CASE UNCHANGED vars
  <2>1. store' = store /\ tx' = tx
    BY <1>1 DEF vars, requestVars
  <2>2. Open' = Open
    BY <2>1 DEF Open, Batches
  <2> QED BY <2>1, <2>2, BansStill
<1>2. ASSUME NEW p \in Workers, Abandon(p) PROVE BansInv'
  <2>1. Open' \subseteq Open /\ store' = store
    BY <1>2, AbandonCloses DEF TypeInv, Abandon
  <2> QED BY <2>1, BansStill
<1>3. ASSUME NEW p \in Workers, Commit(p) PROVE BansInv'
  <2>1. Commits(Head(tx[p]))
    BY <1>3, CommitCloses DEF Commits, Commit, TypeInv
  <2> QED BY <2>1, BansCommit
<1>4. CASE Clock
  BY <1>4, BansClock
<1> QED BY <1>1, <1>2, <1>3, <1>4, BansRequest, BansResolve DEF Next, Clock

\* Whatever is committed in whichever order, the standing of an account agrees
\* with the bans on it.  A message in a group lifts a term too, and may be
\* gone again, so that nothing is said of scenes with groups.
THEOREM BansHold == Spec => []("groups" \in scene.routes \/ BansInv)
<1> DEFINE Actions == ActionsInv
           Inv == "groups" \in scene.routes \/ BansInv
<1>1. Init => Actions /\ Inv
  BY ActionsInit, BansInit
<1>2. TypeInv /\ Actions /\ [Next]_vars => Actions'
  BY ActionsNext
<1>3. TypeInv /\ Actions /\ NumbersInv /\ Inv /\ [Next]_vars => Inv'
  <2> SUFFICES ASSUME TypeInv, Actions, NumbersInv, Inv, [Next]_vars PROVE Inv'
    OBVIOUS
  <2>1. scene' = scene
    BY Steps
  <2> QED BY <2>1, BansNext
<1> HIDE DEF Actions, Inv
<1>4. Spec => []Inv
  BY <1>1, <1>2, <1>3, TypesHold, NumbersHold, PTL DEF Spec
<1> QED BY <1>4 DEF Inv

\* A permanent ban holds until a later decision, or one made meanwhile, and
\* against every message but one that was in flight with it.
THEOREM PermanentBansHold == Spec => []("groups" \in scene.routes \/ PermanentBanHolds)
<1>1. BansInv => PermanentBanHolds
  <2> SUFFICES ASSUME BansInv, NEW a \in store["moderation_actions"],
                      a.action_type = "permanent_ban"
               PROVE  \/ Account(a.target).is_suspended
                         /\ Account(a.target).suspended_until = None
                      \/ \E b \in store["moderation_actions"] :
                            /\ b # a /\ b.target = a.target
                            /\ b.action_type \in Suspending /\ b.born >= a.id
                      \/ \E n \in store["notifications"] :
                            /\ n.kind = "message" /\ n.actor = a.target
                            /\ Overlapped(a, n)
    BY DEF PermanentBanHolds
  <2>1. Holding(a)
    BY DEF BansInv, IsBan
  <2>2. CASE Undone(a)
    BY <2>2 DEF Undone, Rules, Wrote
  <2>3. CASE \A r \in store["users"] : r.id = a.target => Banned(r)
    <3>1. Banned(Account(a.target))
      BY <2>1, <2>3, AccountIs DEF Holding
    <3> QED BY <3>1 DEF Banned
  <2> QED BY <2>1, <2>2, <2>3 DEF Holding
<1> QED BY <1>1, BansHold, PTL
=============================================================================
