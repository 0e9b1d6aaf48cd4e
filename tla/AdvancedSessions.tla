--------------------------- MODULE AdvancedSessions ---------------------------
(***************************************************************************)
(* xferry/advanced_sessions.py, with the control and data requests of      *)
(* handlers/__init__.py and handlers/advanced_upload.py: bearer tokens     *)
(* that route uploads.  Each operation of the store holds its lock and     *)
(* reads the clock under it, so it is one step; an upload is not: it is    *)
(* admitted with a session, takes any time, and touches the session after  *)
(* its file is published.                                                  *)
(*                                                                         *)
(* A token may be minted again once its session is gone, but not twice at  *)
(* one clock reading (a 256-bit value repeated within a microsecond).      *)
(***************************************************************************)
EXTENDS Integers, FiniteSets, Functions, RequestChecks

CONSTANTS
  Threads, Tokens, Users,
  MaxSessions, AbsoluteLifetime, IdleTimeout,
  NoUser,                     \* the owner when authentication is off
  MaxClock, MaxCreations      \* bounds of the model

VARIABLES
  clock,
  sessions,    \* token -> [owner, created, last, inc], the live and the not yet purged
  th,          \* the upload of each thread
  basic,       \* whether an authenticator is installed
  clearing,    \* the mode has changed and invalidate_all is still to come
  creations,
  minted,      \* history: token -> clock reading of its last creation
  ended        \* history: incarnations revoked or invalidated

sessionVars == <<clock, sessions, th, basic, clearing, creations, minted, ended>>

Idle == [pc |-> "idle"]

SessionInit ==
  /\ clock = 0 /\ sessions = << >> /\ th = [t \in Threads |-> Idle]
  /\ basic \in BOOLEAN /\ clearing = FALSE /\ creations = 0
  /\ minted = [k \in Tokens |-> -1] /\ ended = {}
-----------------------------------------------------------------------------
\* The tests around the store, in the order of the code.

\* _authorize_advanced_session_data_request and _advanced_session_header_token.
DataChecks ==
  << <<"peer", 403>>, <<"fetch_site", 403>>, <<"origin", 403>>, <<"no_token", 400>>, <<"token_format", 400>> >>

\* After the session was found: its prefix, and a method that belongs to another handler.
RouteChecks == << <<"prefix", 409>>, <<"method", 409>> >>

\* _create_advanced_session and _load_advanced_session_create_payload.
CreateChecks ==
  << <<"token_format", 400>>, <<"method", 405>>, <<"two_types", 400>>, <<"media", 415>>,
     <<"duplicate", 400>>, <<"json", 400>>, <<"json_type", 400>>, <<"missing", 400>>,
     <<"unknown", 400>>, <<"prefix", 400>>, <<"decoder", 400>>, <<"diagnostic", 400>>,
     <<"plugin", 409>> >>

Principals == IF basic THEN Users ELSE {NoUser}
-----------------------------------------------------------------------------
Expired(s) == clock >= s.created + AbsoluteLifetime \/ clock >= s.last + IdleTimeout

\* _purge_expired_locked, the first thing every operation does.
Purged == Restrict(sessions, {k \in DOMAIN sessions : ~Expired(sessions[k])})

With(f, k, s) == [j \in DOMAIN f \cup {k} |-> IF j = k THEN s ELSE f[j]]

\* resolve: the session of this token, if it is live and belongs to the principal.
Found(k, p) == k \in DOMAIN Purged /\ Purged[k].owner = p

Create(p, k) ==
  /\ creations < MaxCreations /\ Cardinality(DOMAIN Purged) < MaxSessions
  /\ k \notin DOMAIN Purged /\ minted[k] # clock
  /\ sessions' = With(Purged, k, [owner |-> p, created |-> clock, last |-> clock, inc |-> creations])
  /\ creations' = creations + 1
  /\ minted' = [minted EXCEPT ![k] = clock]
  /\ UNCHANGED <<clock, th, basic, clearing, ended>>

\* 503: every slot is taken by a live session.
CreateFull ==
  /\ Cardinality(DOMAIN Purged) >= MaxSessions
  /\ sessions' = Purged
  /\ UNCHANGED <<clock, th, basic, clearing, creations, minted, ended>>

\* GET current: resolves and touches.
Show(p, k) ==
  /\ sessions' = IF Found(k, p) THEN [Purged EXCEPT ![k].last = clock] ELSE Purged
  /\ UNCHANGED <<clock, th, basic, clearing, creations, minted, ended>>

\* DELETE current: 200 once, 404 afterwards.
Revoke(p, k) ==
  /\ sessions' = IF Found(k, p) THEN Restrict(Purged, DOMAIN Purged \ {k}) ELSE Purged
  /\ ended' = IF Found(k, p) THEN ended \cup {Purged[k].inc} ELSE ended
  /\ UNCHANGED <<clock, th, basic, clearing, creations, minted>>
-----------------------------------------------------------------------------
\* _prepare_advanced_session_dispatch: the handle binds the token to one creation.
Admit(t, p, k) ==
  /\ th[t] = Idle
  /\ sessions' = Purged
  /\ \E fault \in {"none"} \cup FaultsOf(DataChecks) \cup FaultsOf(RouteChecks) :
       LET verdict == CASE Verdict(DataChecks, {fault}) # Accepted -> Verdict(DataChecks, {fault})
                        [] ~Found(k, p) -> 404
                        [] OTHER -> Verdict(RouteChecks, {fault})
       IN  th' = [th EXCEPT ![t] = IF verdict = Accepted
                                   THEN [pc |-> "upload", token |-> k, created |-> Purged[k].created,
                                         inc |-> Purged[k].inc]
                                   ELSE [pc |-> "answer", status |-> verdict]]
  /\ UNCHANGED <<clock, basic, clearing, creations, minted, ended>>

\* handle_advanced_upload: an error leaves the session as it is, a published file is
\* followed by the touch.
UploadFails(t) ==
  /\ th[t].pc = "upload"
  /\ th' = [th EXCEPT ![t] = [pc |-> "answer", status |-> 400]]
  /\ UNCHANGED <<clock, sessions, basic, clearing, creations, minted, ended>>

UploadPublished(t) ==
  /\ th[t].pc = "upload"
  /\ th' = [th EXCEPT ![t].pc = "touch"]
  /\ UNCHANGED <<clock, sessions, basic, clearing, creations, minted, ended>>

SameSession(h) == h.token \in DOMAIN Purged /\ Purged[h.token].created = h.created

\* Mutant: the session of the dispatch is written back.
TouchWritesBack(t) ==
  /\ th[t].pc = "touch"
  /\ sessions' = With(Purged, th[t].token, [owner |-> NoUser, created |-> th[t].created,
                                            last |-> clock, inc |-> th[t].inc])
  /\ th' = [th EXCEPT ![t] = [pc |-> "answer", status |-> 201]]
  /\ UNCHANGED <<clock, basic, clearing, creations, minted, ended>>

\* touch_dispatch
Touch(t) ==
  /\ th[t].pc = "touch"
  /\ sessions' = IF SameSession(th[t]) THEN [Purged EXCEPT ![th[t].token].last = clock] ELSE Purged
  /\ th' = [th EXCEPT ![t] = [pc |-> "answer", status |-> 201]]
  /\ UNCHANGED <<clock, basic, clearing, creations, minted, ended>>

Answered(t) ==
  /\ th[t].pc = "answer" /\ th' = [th EXCEPT ![t] = Idle]
  /\ UNCHANGED <<clock, sessions, basic, clearing, creations, minted, ended>>

\* A refused creation, before the store is reached.
CreateRefused(t) ==
  /\ th[t] = Idle
  /\ \E fault \in FaultsOf(CreateChecks) :
       th' = [th EXCEPT ![t] = [pc |-> "answer", status |-> Verdict(CreateChecks, {fault})]]
  /\ UNCHANGED <<clock, sessions, basic, clearing, creations, minted, ended>>
-----------------------------------------------------------------------------
\* set_authenticator: the mode changes first, the sessions go afterwards.
SwitchMode ==
  /\ ~clearing
  /\ basic' = ~basic /\ clearing' = TRUE
  /\ UNCHANGED <<clock, sessions, th, creations, minted, ended>>

InvalidateAll ==
  /\ clearing /\ clearing' = FALSE
  /\ sessions' = << >>
  /\ ended' = ended \cup {sessions[k].inc : k \in DOMAIN sessions}
  /\ UNCHANGED <<clock, th, basic, creations, minted>>

SessionTick ==
  /\ clock < MaxClock /\ clock' = clock + 1
  /\ UNCHANGED <<sessions, th, basic, clearing, creations, minted, ended>>

SessionNext ==
  \/ \E p \in Principals, k \in Tokens :
       Create(p, k) \/ Show(p, k) \/ Revoke(p, k) \/ \E t \in Threads : Admit(t, p, k)
  \/ \E t \in Threads :
       UploadFails(t) \/ UploadPublished(t) \/ Touch(t) \/ Answered(t) \/ CreateRefused(t)
  \/ CreateFull \/ SwitchMode \/ InvalidateAll \/ SessionTick

SessionSpec == SessionInit /\ [][SessionNext]_sessionVars
-----------------------------------------------------------------------------
(* A session that was revoked, or dropped when the authentication mode changed, never   *)
(* comes back, although uploads it admitted may still be running.                       *)
EndedStayEnded == \A k \in DOMAIN sessions : sessions[k].inc \notin ended
==============================================================================
