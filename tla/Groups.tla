------------------------------- MODULE Groups -------------------------------
(***************************************************************************)
(* Groups, their members, messages, events and posts                       *)
(* (services/group_service.py, group_feed_service.py, routes/group_routes, *)
(* the group routes of post_routes.py and admin_routes.py).  The row of a  *)
(* member is keyed by the pair, so its id is the pair and an old reading   *)
(* of it also changes the row of someone who left and came back; since is  *)
(* the request that made it.                                               *)
(***************************************************************************)
EXTENDS Moderation

GroupTables == {"groups", "group_members", "group_messages", "group_events",
                "group_posts"}

GroupType == {"public", "private", "anonymous"}     \* organization is as public
Role == {"owner", "admin", "moderator", "member"}
ADMIN_ROLES == {"owner", "admin", "moderator"}

Group == [id : Int, born : Nat, type : GroupType, created_by : Users,
          announcement_only : BOOLEAN,
          verification : {None, "pending", "approved", "rejected"}]
GroupMember == [id : Users \X Int, born : Nat, since : Int, group : Int, user : Users,
                role : Role, status : {"active", "invited"}, alias : BOOLEAN,
                invited_by : Users \cup {None}]
GroupMessage == [id : Int, born : Nat, group : Int, sender : Users]

-----------------------------------------------------------------------------
(* Members.                                                                 *)

Membership(g, u) == {m \in store["group_members"] : m.id = <<u, g.id>>}
_get_active_member(g, u) == {m \in Membership(g, u) : m.status = "active"}
is_group_member(u, g) == _get_active_member(g, u) # {}
_require_group_admin(g, u) == \E m \in _get_active_member(g, u) : m.role \in ADMIN_ROLES

\* Mutant: an invited member gets no alias.
MemberByName(g, u, role, status, inviter) ==
    InsertUnique("group_members",
        [id |-> <<u, g.id>>, since |-> Self, group |-> g.id, user |-> u, role |-> role,
         status |-> status, alias |-> g.type = "anonymous" /\ inviter = None,
         invited_by |-> inviter],
        {"id"})

NewMember(g, u, role, status, inviter) ==
    InsertUnique("group_members",
        [id |-> <<u, g.id>>, since |-> Self, group |-> g.id, user |-> u, role |-> role,
         status |-> status, alias |-> g.type = "anonymous", invited_by |-> inviter],
        {"id"})

create_group(p, u, type, announcing) ==
    LET g == [id |-> Self, type |-> type, created_by |-> u, announcement_only |-> announcing,
              verification |-> None]
    IN  Begin(p, << {Insert("groups", g), NewMember(g, u, "admin", "active", None)} >>)

\* Mutant: a private group is as open as the others.
JoinAny(p, u, g) ==
    /\ Membership(g, u) = {}
    /\ Begin(p, << {NewMember(g, u, "member", "active", None)} >>)

join_group(p, u, g) ==
    \/ /\ Membership(g, u) = {} /\ g.type # "private"
       /\ Begin(p, << {NewMember(g, u, "member", "active", None)} >>)
    \/ \E m \in Membership(g, u) :
          /\ m.status # "active"
          /\ Begin(p, << Edit("group_members", m,
                              [status |-> "active",
                               alias  |-> m.alias \/ g.type = "anonymous"]) >>)

leave_group(p, u, g) ==
    Begin(p, << DeleteAll("group_members", Membership(g, u)) >>)

invite_user(p, u, g, w) ==
    /\ u # w
    /\ ~are_blocked(u, w)
    /\ is_group_member(u, g)
    /\ Membership(g, w) = {}
    /\ Begin(p, << {NewMember(g, w, "member",
                              IF g.type = "private" THEN "invited" ELSE "active", u)} >>
                \o create_notification(w, "group_invite", u))

assign_group_member_role(p, u, g, w, role) ==
    \E r \in _get_active_member(g, u), m \in _get_active_member(g, w) :
        /\ r.role \in {"admin", "owner"}
        /\ m.role = "owner" => r.role = "owner"
        /\ Begin(p, << Edit("group_members", m, [role |-> role]) >>)

\* Whom a member sees: in an anonymous group, nobody by name.
list_members(g, u) ==
    IF ~is_group_member(u, g) THEN {}
    ELSE {[m EXCEPT !.user = IF g.type = "anonymous" THEN None ELSE @] :
              m \in {x \in store["group_members"] : x.group = g.id /\ x.status = "active"}}

-----------------------------------------------------------------------------
(* Messages, posts, events and settings.                                    *)

send_group_message(p, u, g, findings) ==
    \E m \in _get_active_member(g, u) :
        /\ g.announcement_only => m.role \in ADMIN_ROLES
        /\ validate_user_can_send(u)
        /\ validate_content_with_ai(findings)
        /\ Begin(p, << {Insert("group_messages", [id |-> Self, group |-> g.id, sender |-> u])}
                       \cup analyze_content(findings) \cup _refresh_user_moderation(u) >>)

serialize_group_message(m, g) ==
    IF g.type # "anonymous" THEN [sender |-> m.sender, sender_alias |-> FALSE]
    ELSE [sender |-> None, sender_alias |-> \E a \in _get_active_member(g, m.sender) : a.alias]

get_group_messages(u, g) ==
    IF ~is_group_member(u, g) THEN {}
    ELSE {serialize_group_message(m, g) :
             m \in filter_shadowbanned_messages(
                       {x \in store["group_messages"] : x.group = g.id}, u)}

\* A row of any status lets its user post, an active one lets them read.
create_group_post(p, u, g) ==
    /\ Membership(g, u) # {}
    /\ Begin(p, << {Insert("group_posts", [id |-> Self, group |-> g.id, user |-> u])} >>)

delete_group_post(p, post) == Begin(p, << {Delete("group_posts", post.id)} >>)

update_group_settings(p, u, g, announcing) ==
    /\ _require_group_admin(g, u)
    /\ Begin(p, << Edit("groups", g, [announcement_only |-> announcing]) >>)

request_group_verification(p, u, g) ==
    /\ _require_group_admin(g, u)
    /\ Begin(p, << Edit("groups", g, [verification |-> "pending"]) >>)

create_group_event(p, u, g) ==
    /\ _require_group_admin(g, u)
    /\ Begin(p, << {Insert("group_events", [id |-> Self, group |-> g.id, host |-> u])} >>)

\* Approves or rejects whatever the status was.
decide_group_verification(p, g, answer) ==
    Begin(p, << Edit("groups", g, [verification |-> answer]) >>)

-----------------------------------------------------------------------------
(* Routes.                                                                  *)

create_new_group(p) ==
    \E u \in Users, type \in GroupType, announcing \in BOOLEAN :
        create_group(p, u, type, announcing)
join_existing_group(p) == \E u \in Users, g \in store["groups"] : join_group(p, u, g)
leave_existing_group(p) ==
    \E u \in Users, g \in store["groups"] : Membership(g, u) # {} /\ leave_group(p, u, g)
invite_group_user(p) ==
    \E u, w \in Users, g \in store["groups"] : invite_user(p, u, g, w)
update_member_role(p) ==
    \E u, w \in Users, g \in store["groups"], role \in Role :
        assign_group_member_role(p, u, g, w, role)
create_group_message(p) ==
    \E u \in Users, g \in store["groups"], findings \in Contents :
        send_group_message(p, u, g, findings)
create_group_post_route(p) ==
    \E u \in Users, g \in store["groups"] : create_group_post(p, u, g)
delete_group_post_route(p) == \E post \in store["group_posts"] : delete_group_post(p, post)
update_group_feature_settings(p) ==
    \E u \in Users, g \in store["groups"], announcing \in BOOLEAN :
        update_group_settings(p, u, g, announcing)
request_verification(p) ==
    \E u \in Users, g \in store["groups"] : request_group_verification(p, u, g)
schedule_group_event(p) == \E u \in Users, g \in store["groups"] : create_group_event(p, u, g)
verify_group(p) ==
    \E g \in store["groups"], answer \in {"approved", "rejected"} :
        decide_group_verification(p, g, answer)

MemberRoutes(p) ==
    \/ create_new_group(p)
    \/ join_existing_group(p)
    \/ leave_existing_group(p)
    \/ invite_group_user(p)

GroupRoutes(p) ==
    \/ update_member_role(p)
    \/ create_group_message(p)
    \/ create_group_post_route(p)
    \/ delete_group_post_route(p)
    \/ update_group_feature_settings(p)
    \/ request_verification(p)
    \/ schedule_group_event(p)
    \/ verify_group(p)

-----------------------------------------------------------------------------
(* Properties.                                                              *)

\* Nobody is an active member of a private group who did not create it and
\* was not invited, and no invitation passes a block that was there when it
\* was asked for: through inviting, joining, leaving and coming back
\* (group_service.py:268, 315).
GroupEntry ==
    \A m \in store["group_members"] : \A g \in store["groups"] :
        m.group = g.id =>
            /\ g.type = "private" /\ m.status = "active" =>
                  m.user = g.created_by \/ m.invited_by # None
            /\ m.invited_by # None =>
                  \A b \in Between("blocks", m.user, m.invited_by) : m.since <= b.born

\* The list of members and the messages of an anonymous group name nobody,
\* and each active member has an alias to be read under, whichever way they
\* came in (group_service.py:242, 273, 338, 375, 517).  Nothing is said of its
\* posts, its events and the answers to a join or a change of role, which
\* carry user ids.
AnonymousNamesNobody ==
    \A g \in store["groups"] : g.type = "anonymous" =>
        \A u \in Users :
            /\ \A m \in list_members(g, u) : m.user = None /\ m.alias
            /\ \A m \in get_group_messages(u, g) : m.sender = None
=============================================================================
