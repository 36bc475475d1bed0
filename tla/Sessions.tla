------------------------------ MODULE Sessions ------------------------------
(***************************************************************************)
(* Sessions and their rotated refresh tokens, CSRF tokens, the enrolment   *)
(* of a second factor, login history and IP reputation                     *)
(* (services/session_service.py, csrf_service.py, mfa_service.py,          *)
(* login_history_service.py, ip_reputation_service.py,                     *)
(* security_audit_service.py and routes/security_routes.py).  A token is   *)
(* named by the request that issued it.  A handler that answers with an    *)
(* error rolls its session back, whatever it has flushed.                  *)
(***************************************************************************)
EXTENDS UnitOfWork

CONSTANTS Devices     \* device ids; the address of a client is its device's

SessionTables == {"sessions", "csrf_tokens", "logins", "ip_reputation", "audits",
                  "mfa_setups", "answers"}

UserSession == [id : Int, born : Nat, user : Users, device : Devices, refresh_token : Nat,
                status : {"active", "revoked"}, expired : BOOLEAN]
CSRFToken == [id : Int, born : Nat, user : Users, is_used : BOOLEAN, expired : BOOLEAN]
MFASetup == [id : Int, born : Nat, user : Users, is_verified : BOOLEAN]

\* The hour of a CSRF token or the thirty days of a session have passed.
TokensExpire ==
    \E t \in {"sessions", "csrf_tokens"} : \E r \in store[t] :
        /\ ~r.expired
        /\ store' = [store EXCEPT ![t] = (@ \ {r}) \cup {[r EXCEPT !.expired = TRUE]}]
        /\ UNCHANGED <<tx, served>>

-----------------------------------------------------------------------------
(* What a request records beside its own rows.                              *)

log_security_event(u, type) ==
    {Insert("audits", [id |-> Self, user |-> u, event_type |-> type])}

is_suspicious_login(u, d) ==
    ~ \E l \in store["logins"] : l.user = u /\ l.device = d

\* Only successes are ever stored.
record_login_attempt(u, d) ==
    {Insert("logins", [id |-> Self, user |-> u, device |-> d,
                       is_suspicious |-> is_suspicious_login(u, d)])}

Reputation(d) == {r \in store["ip_reputation"] : r.ip_address = d}

record_successful_login(d) ==
    IF Reputation(d) = {}
    THEN {InsertUnique("ip_reputation",
              [id |-> Self, ip_address |-> d, successful_logins |-> 1], {"ip_address"})}
    ELSE UNION {Edit("ip_reputation", r, [successful_logins |-> r.successful_logins + 1]) :
                   r \in Reputation(d)}

-----------------------------------------------------------------------------
(* Sessions.                                                                *)

create_session(p, u, d) ==
    Begin(p, << {Insert("sessions", [id |-> Self, user |-> u, device |-> d,
                                     refresh_token |-> Self, status |-> "active",
                                     expired |-> FALSE])}
                \cup record_login_attempt(u, d) \cup record_successful_login(d)
                \cup log_security_event(u, "session_created") >>)

\* Mutants: the token is not rotated; the whole row is written back.
RefreshUnrotated(p, u, d, token) ==
    \E s \in store["sessions"] :
        /\ s.user = u /\ s.refresh_token = token
        /\ s.status = "active" /\ ~s.expired /\ s.device = d
        /\ Begin(p, << Answer("refresh", token) >>)

RefreshWhole(p, u, d, token) ==
    \E s \in store["sessions"] :
        /\ s.user = u /\ s.refresh_token = token
        /\ s.status = "active" /\ ~s.expired /\ s.device = d
        /\ Begin(p, << {Update("sessions", s.id, [refresh_token |-> Self,
                                                  status |-> "active"])} >>)

\* The token matches an active session of the user, or the route answers 401.
\* From another device it does too, and the revocation it has flushed is lost
\* with it.  The session is loaded as active and not expired, and only the
\* columns that change are written.
refresh_session(p, u, d, token) ==
    \E s \in store["sessions"] :
        /\ s.user = u /\ s.refresh_token = token
        /\ s.status = "active" /\ ~s.expired
        /\ IF s.device # d THEN Begin(p, <<>>)
           ELSE Begin(p, << {Update("sessions", s.id, [refresh_token |-> Self,
                                                       expired |-> FALSE])}
                            \cup Answer("refresh", token) >>)

\* Mutant: a status no query asks for.
RevokeMisspelled(s) == Edit("sessions", s, [status |-> "inactive"])

Revoke(s) == Edit("sessions", s, [status |-> "revoked"])

\* By its id, whoever asks.
revoke_session(p, s) == Begin(p, << Revoke(s) >>)

revoke_all_sessions(p, u, except) ==
    Begin(p, << UNION {Revoke(s) : s \in {x \in store["sessions"] :
                          x.user = u /\ x.status = "active" /\ x.id \notin except}} >>)

-----------------------------------------------------------------------------
(* CSRF tokens and the second factor.                                       *)

create_token(p, u) ==
    Begin(p, << {InsertUnique("csrf_tokens", [id |-> Self, user |-> u, is_used |-> FALSE,
                                              expired |-> FALSE], {"id"})} >>)

\* The middleware passes consume as FALSE, and asks for no user.
verify_token(p, t, consume) ==
    /\ ~t.is_used /\ ~t.expired
    /\ Begin(p, IF consume THEN << Edit("csrf_tokens", t, [is_used |-> TRUE])
                                   \cup Answer("csrf", t.id) >>
                ELSE <<>>)

create_totp_setup(p, u) ==
    Begin(p, << {Insert("mfa_setups", [id |-> Self, user |-> u, is_verified |-> FALSE])}
                \cup log_security_event(u, "mfa_setup_requested") >>)

\* A wrong code is answered with an error, which rolls the record of the
\* failed attempt back.
verify_totp(p, u, s, right) ==
    /\ s.user = u /\ ~s.is_verified
    /\ Begin(p, IF right THEN << Edit("mfa_setups", s, [is_verified |-> TRUE])
                                 \cup log_security_event(u, "mfa_verified") >>
                ELSE <<>>)

-----------------------------------------------------------------------------
(* Routes.                                                                  *)

create_session_route(p) == \E u \in Users, d \in Devices : create_session(p, u, d)

\* Any token a session has had may be presented again.
refresh_session_route(p) ==
    \E u \in Users, d \in Devices, token \in 0..served : refresh_session(p, u, d, token)

revoke_session_route(p) == \E s \in store["sessions"] : revoke_session(p, s)
revoke_all_sessions_route(p) ==
    \E u \in Users, except \in {{}} \cup {{s.id} : s \in store["sessions"]} :
        revoke_all_sessions(p, u, except)

create_csrf_token(p) == \E u \in Users : create_token(p, u)
verify_csrf_token(p) ==
    \E t \in store["csrf_tokens"], consume \in BOOLEAN : verify_token(p, t, consume)

prepare_mfa_setup(p) == \E u \in Users : create_totp_setup(p, u)
verify_mfa_setup(p) ==
    \E s \in store["mfa_setups"], right \in BOOLEAN : verify_totp(p, s.user, s, right)

\* A summary of abuse, a rotation of secrets or a JWT: only an audit row.
audited_requests(p) ==
    \E u \in Users, type \in {"abuse_summary_requested"} :
        Begin(p, << log_security_event(u, type) >>)

SessionRoutes(p) ==
    \/ create_session_route(p)
    \/ refresh_session_route(p)
    \/ revoke_session_route(p)
    \/ revoke_all_sessions_route(p)

TokenRoutes(p) ==
    \/ create_csrf_token(p)
    \/ verify_csrf_token(p)
    \/ prepare_mfa_setup(p)
    \/ verify_mfa_setup(p)
    \/ audited_requests(p)

-----------------------------------------------------------------------------
(* Properties.                                                              *)

\* A refresh token is good for one answer, and a CSRF token for one of the
\* verifications that consume it: two answers to one token come from two
\* requests in flight together, which both read it as unused, since nothing
\* locks the row between the select and the flush (session_service.py:288,
\* csrf_service.py:84).  The middleware does not consume, and lets one CSRF
\* token through any number of times until it expires or is consumed
\* (security_middleware.py:149).
TokensUsedOnce ==
    \A kind \in {"refresh", "csrf"} :
        \A a, b \in {x \in store["answers"] : x.kind = kind} :
            a # b /\ a.about = b.about => Overlapped(a, b)

\* A revoked session stays revoked, even when a refresh that had read it as
\* active commits after the revocation (session_service.py:309).
RevokedStaysRevoked ==
    [][\A s \in store["sessions"] : \A t \in store'["sessions"] :
          s.id = t.id /\ s.status = "revoked" => t.status = "revoked"]_requestVars
=============================================================================
