----------------------------- MODULE RequestPath -----------------------------
(***************************************************************************)
(* One connection from the bytes on its socket to the handler and back:    *)
(* receive_request_result (http/io.py), HTTPRequest, the admission policy  *)
(* (request_admission.py), the header checks and the keep-alive loop of    *)
(* server.py and RequestPipeline.process.                                  *)
(*                                                                         *)
(* A request on the wire is four kinds of unit in order: its line (with    *)
(* the Host), its other header fields, the empty line that ends them, and  *)
(* its body.  The client may stall or hang up between any two units.       *)
(* It awaits each answer, and sends nothing more on a connection that      *)
(* answered half a request.  Capacity, the session store and the handlers  *)
(* are modelled elsewhere; here they answer either way.                    *)
(***************************************************************************)
EXTENDS Integers, FiniteSets, RequestChecks

CONSTANTS
  Routes,         \* the routes that are tried
  MaxBody,        \* body units of a request
  KeepAliveMax,   \* requests per connection
  MaxRequests     \* bound of the model

VARIABLES
  config,    \* [auth, loopback]: authentication installed; peer on the loopback interface
  wire,      \* units sent and not yet received
  sent,      \* requests sent
  buf,       \* units received for the current request
  pc,        \* of the worker: recv, body, process, dispatch, closed, upgraded
  prepared,  \* the headers were complete and passed the tests before the body
  lease,     \* transfer slot or body reservation held
  num,       \* requests_on_conn
  waiting,   \* the client waits for an answer
  cut        \* history: a request whose headers were incomplete was processed

pathVars == <<config, wire, sent, buf, pc, prepared, lease, num, waiting, cut>>

\* Routes are "read": the interface and methods without effects; "download": a streamed upload;
\* "mutate" and "upload": methods of CORE_METHOD_SPECS with mutating, the latter with a body of
\* their own; "encrypted": the encrypted transfer; "control": opening and ending an advanced
\* session; "session": any method with a
\* session header; "ws": the WebSocket path.
KnownRoutes == {"read", "download", "mutate", "upload", "encrypted", "control", "session", "ws"}
Mutating == {"mutate", "upload", "session"}
Bulk == {"download", "upload", "encrypted", "session"}

\* Tests of the bytes, before the headers are looked at as a request: no answer, but 413.
FramingChecks ==
  << <<"header_too_large", 499>>, <<"transfer_encoding", 499>>, <<"content_length", 499>>,
     <<"body_too_large", 413>> >>

\* HTTPRequest and RequestAdmissionPolicy.admit.
AdmissionChecks ==
  << <<"request_line", 400>>, <<"field_name", 400>>, <<"duplicate_field", 400>>, <<"no_host", 400>>,
     <<"host_syntax", 400>>, <<"host_unknown", 421>> >>

\* What is wrong with the line itself; every other fault is in the fields.
LineFaults == {"request_line", "host_syntax", "host_unknown"}

ASSUME PathAssumption == Routes \subseteq KnownRoutes /\ MaxBody \in Nat

NoFault == "none"

\* An Origin as parse_http_origin and is_same_origin tell it from the Host.
Clean == [fault : {NoFault}, route : Routes, auth : {"ok", "bad"},
          origin : {"none", "same", "trusted", "foreign"}, site : {"none", "same", "cross"},
          body : 0..MaxBody]
Faulty == [fault : FaultsOf(FramingChecks) \cup FaultsOf(AdmissionChecks),
           route : {"upload"} \cap Routes, auth : {"ok"}, origin : {"none"}, site : {"none"},
           body : {MaxBody}]
Requests == Clean \cup Faulty

Unit(kind, r) == [kind |-> kind, r |-> r]
Units(r) ==
  <<Unit("line", r), Unit("fields", r), Unit("end", r)>> \o [i \in 1..r.body |-> Unit("body", r)]

PathInit ==
  /\ config \in [auth : BOOLEAN, loopback : BOOLEAN]
  /\ wire = << >> /\ sent = 0 /\ buf = << >> /\ pc = "recv" /\ prepared = FALSE /\ lease = FALSE
  /\ num = 0 /\ waiting = FALSE /\ cut = FALSE
-----------------------------------------------------------------------------
\* What the server knows of the request at this point.
Got(kind) == \E i \in DOMAIN buf : buf[i].kind = kind
Req == buf[1].r
BodyGot == Cardinality({i \in DOMAIN buf : buf[i].kind = "body"})

\* The fields of a request whose line alone arrived are absent; what does not begin with a
\* request line has none.
Seen ==
  IF Got("line") /\ Got("fields") THEN Req
  ELSE [fault |-> IF ~Got("line") THEN "request_line"
                  ELSE IF Req.fault \in LineFaults THEN Req.fault ELSE NoFault,
        route |-> CASE Req.route = "session" -> "upload" [] Req.route = "ws" -> "read"
                    [] OTHER -> Req.route,
        auth |-> "bad", origin |-> "none", site |-> "none", body |-> 0]

SiteForeign(s) == s.site = "cross"

\* _authorize_encrypted_transfer_request, _authorize_advanced_session_control: the strict rule.
StrictOrigin(s) == s.origin \in {"none", "same"} /\ ~SiteForeign(s)

\* _authorize_advanced_session_data_request, _is_browser_mutation_allowed: a configured origin
\* may be foreign.
BrowserAllowed(s) ==
  CASE s.origin = "none" -> ~SiteForeign(s)
    [] SiteForeign(s)    -> s.origin = "trusted"
    [] OTHER             -> s.origin \in {"same", "trusted"}

PeerAllowed == config.auth \/ config.loopback

\* The tests that depend on the route, after authentication.
RouteAuthorized(s) ==
  /\ s.route = "encrypted" => StrictOrigin(s)
  /\ s.route = "control" => PeerAllowed /\ StrictOrigin(s)
  /\ s.route = "session" => PeerAllowed /\ BrowserAllowed(s)

\* Mutant: credentials are asked for only where they are sent.
AuthenticatedIfSeen(s) == config.auth => s.auth = "ok" \/ ~Got("fields")

\* _authenticate_request
Authenticated(s) == config.auth => s.auth = "ok"

\* _prepare_request_headers, and for a request that was not prepared, the same tests in process.
HeaderVerdict(s) ==
  LET admitted == Verdict(AdmissionChecks, {s.fault})
  IN  IF admitted # Accepted THEN admitted
      ELSE IF ~Authenticated(s) THEN 401 ELSE IF ~RouteAuthorized(s) THEN 403 ELSE Accepted
-----------------------------------------------------------------------------
\* The client sends a request; units that are sent may arrive any time later.
SendRequest ==
  /\ sent < MaxRequests /\ ~waiting /\ ~cut /\ pc \notin {"closed", "upgraded"}
  /\ \E r \in Requests : wire' = wire \o Units(r)
  /\ sent' = sent + 1 /\ waiting' = TRUE
  /\ UNCHANGED <<config, buf, pc, prepared, lease, num, cut>>

\* Every early return ends the connection, after its response if it has one.
Close ==
  /\ pc' = "closed" /\ lease' = FALSE /\ wire' = << >> /\ buf' = << >>
  /\ UNCHANGED <<config, sent, prepared, num, waiting, cut>>

\* Mutant: the last unit of a body is not waited for.
BodyDoneShort == BodyGot + 1 >= Req.body

BodyDone == BodyGot >= Req.body

HeadersComplete == pc = "recv" /\ Got("end")

\* Headers are also given up before their end, when they are longer than max_header_size.
Overlong == pc = "recv" /\ Got("fields") /\ Req.fault = "header_too_large"

\* recv_size: up to the end of the headers whatever there is, afterwards the rest of the body.
Wanted(k) == pc = "body" => k <= Req.body - BodyGot

Receive ==
  /\ (pc = "recv" /\ ~HeadersComplete /\ ~Overlong) \/ (pc = "body" /\ ~BodyDone)
  /\ \E k \in 1..Len(wire) :
       Wanted(k) /\ buf' = buf \o SubSeq(wire, 1, k) /\ wire' = SubSeq(wire, k + 1, Len(wire))
  /\ UNCHANGED <<config, sent, pc, prepared, lease, num, waiting, cut>>

FramingSound == Verdict(FramingChecks, {Req.fault}) = Accepted

\* Framing, then admit_headers: the request is answered before a byte of its body is awaited.
HeadersRejected ==
  /\ Overlong \/ (HeadersComplete /\ (~FramingSound \/ HeaderVerdict(Seen) # Accepted))
  /\ Close

\* The session does not exist, no transfer slot is free, or there is no room for the body.
HeadersRefused ==
  /\ HeadersComplete /\ FramingSound /\ HeaderVerdict(Seen) = Accepted
  /\ Req.route \in Bulk \/ Req.body > 0
  /\ Close

HeadersAccepted ==
  /\ HeadersComplete /\ FramingSound /\ HeaderVerdict(Seen) = Accepted
  /\ prepared' = TRUE
  /\ lease' = (Req.route \in Bulk \/ Req.body > 0)
  /\ pc' = "body"
  /\ UNCHANGED <<config, wire, sent, buf, num, waiting, cut>>

BodyComplete ==
  /\ pc = "body" /\ BodyDone
  /\ pc' = "process" /\ num' = num + 1
  /\ UNCHANGED <<config, wire, sent, buf, prepared, lease, waiting, cut>>

\* The headers as a whole took longer than HEADER_TIMEOUT.
HeadersOverdue == pc = "recv" /\ ~HeadersComplete /\ ~Overlong /\ Close

\* Nothing comes within the timeout, or the client hung up.  Before the end of the headers the
\* loop ends with what there is; in the body the request is dropped.
Stalled ==
  /\ pc = "recv" /\ ~HeadersComplete /\ ~Overlong
  /\ IF buf = << >> THEN Close
     ELSE /\ pc' = "process" /\ num' = num + 1 /\ cut' = TRUE
          /\ UNCHANGED <<config, wire, sent, buf, prepared, lease, waiting>>

BodyStalled == pc = "body" /\ ~BodyDone /\ Close
-----------------------------------------------------------------------------
\* RequestPipeline.process: a prepared request has passed these tests already.
Admitted == prepared \/ HeaderVerdict(Seen) = Accepted

\* _is_browser_mutation_allowed
MutationAllowed(s) == s.route \in Mutating => BrowserAllowed(s)

\* _is_websocket_origin_allowed
UpgradeAllowed(s) == s.origin # "foreign"

\* A request that did not pass; also a malformed X-Request-Id of a NOTE request, an invalid
\* handshake, no session slot and a payload over the limit.
ProcessRejected ==
  /\ pc = "process"
  /\ ~Admitted \/ ~MutationAllowed(Seen) \/ Seen.route \in {"mutate", "ws"}
  /\ Close

Upgrade ==
  /\ pc = "process" /\ Admitted /\ Seen.route = "ws" /\ UpgradeAllowed(Seen)
  /\ pc' = "upgraded" /\ lease' = FALSE
  /\ UNCHANGED <<config, wire, sent, buf, prepared, num, waiting, cut>>

Dispatch ==
  /\ pc = "process" /\ Admitted /\ Seen.route # "ws" /\ MutationAllowed(Seen)
  /\ pc' = "dispatch"
  /\ UNCHANGED <<config, wire, sent, buf, prepared, lease, num, waiting, cut>>

\* _resolve_keep_alive; a control request and a streamed response always end the connection.
KeepAlive == num < KeepAliveMax /\ Seen.route \notin {"control", "download"}

Respond ==
  /\ pc = "dispatch" /\ KeepAlive
  /\ pc' = "recv" /\ buf' = << >> /\ prepared' = FALSE /\ lease' = FALSE /\ waiting' = FALSE
  /\ UNCHANGED <<config, wire, sent, num, cut>>

\* The last response of the connection, one the client asked to be the last, or one whose
\* sending fails.
RespondAndClose == pc = "dispatch" /\ Close

PathNext ==
  \/ SendRequest \/ Receive \/ HeadersRejected \/ HeadersRefused \/ HeadersAccepted
  \/ BodyComplete \/ HeadersOverdue \/ Stalled \/ BodyStalled
  \/ ProcessRejected \/ Upgrade \/ Dispatch \/ Respond \/ RespondAndClose

PathSpec == PathInit /\ [][PathNext]_pathVars
-----------------------------------------------------------------------------
(* Authentication comes before everything that costs or changes something: a request    *)
(* holds a transfer slot or body memory, reaches a handler or becomes a WebSocket only  *)
(* with accepted credentials, also when its headers were cut short by a timeout.        *)
AuthenticationFirst ==
  (lease \/ pc \in {"dispatch", "upgraded"}) /\ config.auth => Req.auth = "ok"

(* A page of a foreign site changes nothing: what its browser sends carries a foreign   *)
(* Origin, or none and a cross-site mark, and no complete request of that kind reaches  *)
(* a handler that changes state, the encrypted transfer, session control or a session.  *)
FromForeignPage(r) == r.origin = "foreign" \/ (r.origin = "none" /\ r.site = "cross")
ForeignPagesChangeNothing ==
  (pc \in {"dispatch", "upgraded"} /\ Got("end") /\ FromForeignPage(Req)) =>
    Req.route \in {"read", "download"} \/ (Req.route = "ws" /\ Req.origin = "none")

\* No handler runs for a request that either test should have kept from it.
RequestsGuarded == AuthenticationFirst /\ ForeignPagesChangeNothing

(* The server begins to read a request where the client began to write one, as long as  *)
(* no incomplete header was processed: no early return, limit or timeout lets the rest  *)
(* of a request pass for the next.                                                      *)
FramesAligned ==
  (pc = "recv" /\ ~cut) =>
    LET units == buf \o wire IN units # << >> => units[1].kind = "line"
==============================================================================
