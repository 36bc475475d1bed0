----------------------------- MODULE Moderation -----------------------------
(***************************************************************************)
(* Reports, the decisions of moderators and the standing of an account     *)
(* (services/moderation_service.py, ai_moderation_service.py and the       *)
(* routes of moderation, ai_moderation and admin).  A suspension or a mute *)
(* has a term, and its end is only noticed by the next message the account *)
(* tries to send.                                                          *)
(***************************************************************************)
EXTENDS Relations
LOCAL INSTANCE FiniteSetsExt

CONSTANTS
    Moderators,    \* accounts whose role passes require_moderator
    Phones,        \* telephone numbers
    Contents       \* what a text is, as the set of findings of its analysis

ModerationTables == {"users", "reports", "moderation_actions", "ai_results",
                     "training_data", "votes"}

\* The columns of an account that moderation decides by: a term is None (no
\* end), "later" or "past".
User == [id : Users, born : Nat, is_suspended : BOOLEAN,
         suspended_until : {None, "later", "past"}, is_muted : BOOLEAN,
         muted_until : {None, "later", "past"}, is_shadow_banned : BOOLEAN,
         phone : SUBSET (Phones \X Nat)]

\* What a report is about is a user or a row with a number.
ReportTypes == {"users", "messages", "posts", "group_messages", "group_posts"}
Report == [id : Int, born : Nat, reporter : Users, type : ReportTypes,
           target : Users \cup Int, status : {"open", "resolved", "resolved_ai",
                                              "flagged_ai", "escalated"}]

Account(u) == CHOOSE a \in store["users"] : a.id = u

\* The clock passes the terms that run.
TermsEnd ==
    LET over(t) == IF t = "later" THEN "past" ELSE t
    IN  /\ \E a \in store["users"] : "later" \in {a.suspended_until, a.muted_until}
        /\ store' = [store EXCEPT !["users"] =
              {[a EXCEPT !.suspended_until = over(@), !.muted_until = over(@)] : a \in @}]
        /\ UNCHANGED <<tx, served>>

-----------------------------------------------------------------------------
(* The gate of every message.                                               *)

_refresh_user_moderation(u) ==
    LET a     == Account(u)
        lift  == IF a.is_suspended /\ a.suspended_until = "past"
                 THEN [is_suspended |-> FALSE, suspended_until |-> None] ELSE <<>>
        unmute == IF a.is_muted /\ a.muted_until = "past"
                 THEN [is_muted |-> FALSE, muted_until |-> None] ELSE <<>>
    IN  Edit("users", a, Overlay(lift, unmute))

validate_user_can_send(u) ==
    LET a == Account(u)
    IN  /\ \E x \in store["users"] : x.id = u
        /\ ~(a.is_suspended /\ a.suspended_until # "past")
        /\ ~(a.is_muted /\ a.muted_until # "past")

is_user_shadow_banned(u) == Account(u).is_shadow_banned

Str(i) == << "str", i >>     \* str() of a UUID, which no UUID equals

\* The senders are looked up as strings in a map whose keys are UUIDs.
filter_shadowbanned_messages(messages, viewer) ==
    LET shadow_map == [i \in {m.sender : m \in messages} \ {viewer} |->
                          Account(i).is_shadow_banned]
        get(key)   == key \in DOMAIN shadow_map /\ shadow_map[key]
    IN  {m \in messages : m.sender = viewer \/ ~get(Str(m.sender))}

-----------------------------------------------------------------------------
(* The analysis of a text.                                                  *)

\* Percent of each finding.
Weight == [toxicity |-> 30, severe_toxicity |-> 40, spam |-> 25,
           phishing |-> 35, harmful_links |-> 30, nsfw |-> 20]

_calculate_overall_risk(findings) ==
    LET score == MapThenSumSet(LAMBDA f : Weight[f], findings)
    IN  [overall_risk_level |-> IF score >= 70 THEN "critical"
                                ELSE IF score >= 50 THEN "high"
                                ELSE IF score >= 30 THEN "medium" ELSE "low",
         recommended_action |->
             IF "severe_toxicity" \in findings THEN "suspend"
             ELSE IF findings \cap {"phishing", "harmful_links"} # {} \/ score >= 70
             THEN "delete"
             ELSE IF score >= 50 THEN "shadow_ban"
             ELSE IF score >= 30 THEN "flag" ELSE "none",
         should_auto_moderate |->
             score >= 50
             \/ findings \cap {"phishing", "harmful_links", "severe_toxicity"} # {}]

\* The row of the analysis, flushed into the transaction of the caller.
analyze_content(findings) ==
    {Insert("ai_results", Overlay([id |-> Self], _calculate_overall_risk(findings)))}

\* A text that would be moderated automatically is refused, and the error of
\* the refusal rolls back the analysis and the sanction with it.
validate_content_with_ai(findings) ==
    ~_calculate_overall_risk(findings).should_auto_moderate

-----------------------------------------------------------------------------
(* Reports and decisions.                                                   *)

create_report(p, u, type, target) ==
    /\ ~(type = "users" /\ target = u)
    /\ Begin(p, << {Insert("reports", [id |-> Self, reporter |-> u, type |-> type,
                                       target |-> target, status |-> "open"])} >>)

\* Mutant: a permanent ban keeps the term of the suspension before it.
SanctionKeepsTerm(action, term) ==
    CASE action = "mute"                 -> [is_muted |-> TRUE, muted_until |-> term]
      [] action = "unmute"               -> [is_muted |-> FALSE, muted_until |-> None]
      [] action = "temporary_suspension" ->
             [is_suspended |-> TRUE, suspended_until |-> "later"]
      [] action = "permanent_ban"        -> [is_suspended |-> TRUE]
      [] action = "lift_suspension"      ->
             [is_suspended |-> FALSE, suspended_until |-> None]
      [] action = "shadow_ban"           -> [is_shadow_banned |-> TRUE]

\* The columns of the account a decision sets: a mute may have no term, a
\* suspension has one of a day when none is given.
Sanction(action, term) ==
    CASE action = "mute"                 -> [is_muted |-> TRUE, muted_until |-> term]
      [] action = "unmute"               -> [is_muted |-> FALSE, muted_until |-> None]
      [] action = "temporary_suspension" ->
             [is_suspended |-> TRUE, suspended_until |-> "later"]
      [] action = "permanent_ban"        ->
             [is_suspended |-> TRUE, suspended_until |-> None]
      [] action = "lift_suspension"      ->
             [is_suspended |-> FALSE, suspended_until |-> None]
      [] action = "shadow_ban"           -> [is_shadow_banned |-> TRUE]

Suspending == {"temporary_suspension", "permanent_ban", "lift_suspension"}
UserActions == Suspending \cup {"mute", "unmute", "shadow_ban"}

\* What a decision writes, and all of it when the status is not asked for.
\* The code does not keep which report an action was taken on.
Decide(p, m, r, action, term) ==
    /\ action \in UserActions =>
          r.type = "users" /\ \E a \in store["users"] : a.id = r.target
    /\ action = "content_removal" =>
          r.type # "users" /\ \E c \in store[r.type] : c.id = r.target
    /\ Begin(p, << (IF action \in UserActions
                    THEN Edit("users", Account(r.target), Sanction(action, term)) ELSE {})
                   \cup (IF action = "content_removal"
                         THEN {Delete(r.type, r.target)} ELSE {})
                   \cup {Insert("moderation_actions",
                                [id |-> Self, report |-> r.id, moderator |-> m,
                                 target |-> r.target, action_type |-> action])}
                   \cup Edit("reports", r, [status |-> "resolved"]) >>)

apply_action(p, m, r, action, term) ==
    r.status = "open" /\ Decide(p, m, r, action, term)

resolve_report(p, r) ==
    /\ r.status = "open"
    /\ Begin(p, << Edit("reports", r, [status |-> "resolved"]) >>)

-----------------------------------------------------------------------------
(* Routes.                                                                  *)

create_report_route(p) ==
    \E u \in Users :
        \E type \in ReportTypes :
            \E t \in store[type] :
                create_report(p, u, type, t.id)

resolve_report_route(p) ==
    \E m \in Moderators : \E r \in store["reports"] :
        \/ \E action \in UserActions \cup {"warning", "content_removal"},
              term \in {None, "later"} : apply_action(p, m, r, action, term)
        \/ resolve_report(p, r)

\* Whatever the status was.
smart_report_handling(p) ==
    \E r \in store["reports"] :
        \E status \in {"resolved_ai", "flagged_ai", "escalated"} :
            Begin(p, << Edit("reports", r, [status |-> status]) >>)

\* calculate_user_trust_score never falls below its base of 0.5, so the bar
\* of 0.3 stops nobody.
submit_community_vote(p) ==
    \E u \in Users : \E r \in store["reports"] :
        Begin(p, << {Insert("votes", [id |-> Self, report |-> r.id, user |-> u])} >>)

analyze_content_route(p) ==
    \E findings \in Contents : Begin(p, << analyze_content(findings) >>)

submit_training_feedback(p) ==
    \E r \in store["ai_results"] : \E label \in {"correct", "false_positive", "false_negative"} :
        Begin(p, << {Insert("training_data",
                            [id |-> Self, ai_result |-> r.id, human_label |-> label,
                             is_used_for_training |-> label = "correct"])} >>)

ModerationRoutes(p) ==
    \/ create_report_route(p)
    \/ resolve_report_route(p)
    \/ smart_report_handling(p)
    \/ submit_community_vote(p)
    \/ analyze_content_route(p)
    \/ submit_training_feedback(p)

-----------------------------------------------------------------------------
(* Properties.                                                              *)

\* A report is decided once: two decisions on one report come from two
\* moderators who both read it as open (moderation_service.py:258) while
\* their requests were in flight together.
DecidedOnce ==
    \A a, b \in store["moderation_actions"] :
        a # b /\ a.report = b.report => Overlapped(a, b)

\* A permanent ban holds: the account stays suspended without a term until a
\* later decision on its suspension, whatever it sends and however long it
\* waits.  Only a decision, or a message that lifts a term just over, in
\* flight together with the ban can undo it (moderation_service.py:49, 290).
PermanentBanHolds ==
    \A a \in store["moderation_actions"] :
        a.action_type = "permanent_ban" =>
            \/ Account(a.target).is_suspended /\ Account(a.target).suspended_until = None
            \/ \E b \in store["moderation_actions"] :
                  /\ b # a /\ b.target = a.target
                  /\ b.action_type \in Suspending /\ b.born >= a.id
            \/ \E n \in store["notifications"] :
                  /\ n.kind = "message" /\ n.actor = a.target
                  /\ Overlapped(a, n)
=============================================================================
