------------------------------- MODULE Catalog -------------------------------
(***************************************************************************)
(* The features that keep records and have no protocol of their own:       *)
(* enterprise, globalization, platform, analytics and notification         *)
(* settings (their services and routes).  Only who wrote a record, what it *)
(* refers to and its status are kept; whether a caller may ask is decided  *)
(* by its role, before the handler runs.                                   *)
(***************************************************************************)
EXTENDS UnitOfWork

EnterpriseTables == {"enterprise_roles", "audit_reviews", "support_tickets",
                     "revenue_ledger", "reporting_snapshots"}
RegionalTables == {"regional_policies", "international_moderation", "schedules",
                   "region_recommendations"}
PlatformTables == {"listings", "subscription_plans", "platform_events", "channels"}

CatalogTables == EnterpriseTables \cup RegionalTables \cup PlatformTables \cup
                 {"locale_preferences", "localization_strings", "live_streams",
                  "call_sessions", "screen_shares", "monetization_profiles",
                  "subscriptions", "analytics_events", "published", "preferences",
                  "notifications"}

LiveStream == [id : Int, born : Nat, user : Users, status : {"scheduled", "live", "ended"},
               started_at : Nat]
AuditReview == [id : Int, born : Nat, user : Users, status : {"open", "reviewed"}]

Create(p, t, row) == Begin(p, << {Insert(t, Overlay([id |-> Self], row))} >>)

\* The row of the key is changed, or inserted under a UNIQUE constraint.
Upsert(p, t, key, value) ==
    LET cols == DOMAIN key
        mine == {r \in store[t] : Agree(r, key, cols)}
    IN  Begin(p, << IF mine = {}
                    THEN {InsertUnique(t, Overlay([id |-> Self, value |-> value], key), cols)}
                    ELSE UNION {Edit(t, r, [value |-> value]) : r \in mine} >>)

-----------------------------------------------------------------------------
(* Enterprise.                                                              *)

create_enterprise_record(p, u) ==
    \E t \in EnterpriseTables : Create(p, t, [user |-> u, status |-> "open"])

\* Whatever its status was.
resolve_audit_review(p, review) ==
    Begin(p, << Edit("audit_reviews", review, [status |-> "reviewed"]) >>)

EnterpriseRoutes(p) ==
    \/ \E u \in Users : create_enterprise_record(p, u)
    \/ \E review \in store["audit_reviews"] : resolve_audit_review(p, review)

-----------------------------------------------------------------------------
(* Globalization.                                                           *)

upsert_locale_preference(p, u, locale) ==
    Upsert(p, "locale_preferences", [user |-> u], locale)

upsert_localization_string(p, locale, value) ==
    Upsert(p, "localization_strings", [locale |-> locale], value)

create_regional_record(p, u) ==
    \E t \in RegionalTables : Create(p, t, [user |-> u, status |-> "open"])

GlobalizationRoutes(p) ==
    \/ \E u \in Users, locale \in {"en", "de"} :
          \/ upsert_locale_preference(p, u, locale)
          \/ upsert_localization_string(p, locale, u)
    \/ \E u \in Users : create_regional_record(p, u)

-----------------------------------------------------------------------------
(* Platform.                                                                *)

create_live_stream(p, u) ==
    Create(p, "live_streams", [user |-> u, status |-> "scheduled", started_at |-> 0])

\* From any status to any other, for any caller; the first start is kept.
set_live_stream_status(p, stream, status) ==
    Begin(p, << Edit("live_streams", stream,
                     [status |-> status,
                      started_at |-> IF status = "live" /\ stream.started_at = 0 THEN Self
                                     ELSE stream.started_at]) >>)

create_call_session(p, u) == Create(p, "call_sessions", [user |-> u, status |-> "active"])

end_call_session(p, call) ==
    Begin(p, << Edit("call_sessions", call, [status |-> "ended"]) >>)

\* In a call that has ended too.
start_screen_share(p, u, call) ==
    Create(p, "screen_shares", [user |-> u, call |-> call.id])

upsert_monetization_profile(p, u, share) ==
    Upsert(p, "monetization_profiles", [user |-> u], share)

create_platform_record(p, u) ==
    \/ \E t \in PlatformTables : Create(p, t, [user |-> u, status |-> "active"])
    \/ \E plan \in store["subscription_plans"] :
          Create(p, "subscriptions", [user |-> u, plan |-> plan.id])

PlatformRoutes(p) ==
    \/ \E u \in Users : \/ create_live_stream(p, u)
                        \/ create_call_session(p, u)
                        \/ create_platform_record(p, u)
                        \/ \E share \in {"low", "high"} : upsert_monetization_profile(p, u, share)
                        \/ \E call \in store["call_sessions"] : start_screen_share(p, u, call)
    \/ \E stream \in store["live_streams"], status \in {"live", "ended"} :
          set_live_stream_status(p, stream, status)
    \/ \E call \in store["call_sessions"] : end_call_session(p, call)

-----------------------------------------------------------------------------
(* Analytics and notification settings.                                     *)

\* The event bus hears of what is committed, and of nothing when it fails.
publish(i) == {Insert("published", [id |-> i, event |-> i])}
track_event(p, u) ==
    Begin(p, << {Insert("analytics_events", [id |-> Self, user |-> u])}, publish(Self) >>)

\* An UPDATE statement, of anybody's notification.
mark_as_read(p, i) == Begin(p, << {Patch("notifications", i, [is_read |-> TRUE])} >>)

set_preferences(p, u, muted) == Upsert(p, "preferences", [user |-> u], muted)

mark_notification_read(p) ==
    \E n \in store["notifications"] : mark_as_read(p, n.id)

update_preferences(p) ==
    \E u \in Users, muted \in BOOLEAN : set_preferences(p, u, muted)

AnalyticsRoutes(p) == \E u \in Users : track_event(p, u)

CatalogRoutes(p) ==
    \/ EnterpriseRoutes(p)
    \/ GlobalizationRoutes(p)
    \/ PlatformRoutes(p)
    \/ AnalyticsRoutes(p)
    \/ mark_notification_read(p)
    \/ update_preferences(p)
=============================================================================
