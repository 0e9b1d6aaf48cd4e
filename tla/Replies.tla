-------------------------------- MODULE Replies --------------------------------
(***************************************************************************)
(* What goes back: the framing of the answers on one connection            *)
(* (HTTPResponse, _send_response, _post_process_response, _compute_response,*)
(* handle_head), and what a browser lets a page of another origin do with  *)
(* them (features.py, http/cors.py, handle_options and the guard of        *)
(* mutations).                                                             *)
(*                                                                         *)
(* Content is counted in units.  The client takes as many units for the    *)
(* content as Content-Length says, none after HEAD, and asks again when it *)
(* has them all and was told that the connection stays.  The browser and   *)
(* its rules are external.                                                 *)
(***************************************************************************)
EXTENDS Integers, Sequences, FiniteSets
LOCAL INSTANCE SequencesExt
LOCAL INSTANCE FiniteSetsExt

CONSTANTS
  MaxContent,     \* bound of the model: units of a body, a file or an answer to an error
  KeepAliveAnswers   \* KEEP_ALIVE_MAX

ASSUME RepliesAssumption == MaxContent \in Nat /\ KeepAliveAnswers \in Nat

VARIABLES
  serving,    \* of the worker: wait, process, headers, stream, closed
  answers,    \* requests_on_conn
  asked,      \* [head, close, gzip]: the request being answered
  answer,     \* the HTTPResponse
  reader,     \* [told, owes, surplus]: what the client was told, waits for, and got beyond it
  cross       \* [policy, page, at, acao, done]: a page's request and what became of it

replyVars == <<serving, answers, asked, answer, reader>>
-----------------------------------------------------------------------------
\* HTTPResponse: Content-Length, and the body, file or iterator that is to have that length.
SetBody(n) == [length |-> n, body |-> n, stream |-> "none"]
SetFile(size) == [length |-> size, body |-> 0, stream |-> "file"]
SetIterator(n) == [length |-> n, body |-> 0, stream |-> "iterator"]
IsStreaming(r) == r.stream # "none"

\* handle_head: the answer of GET without what it would have sent.
HandleHead(r) == [r EXCEPT !.body = 0, !.stream = IF @ = "file" THEN "none" ELSE @]

\* _post_process_response: a body is compressed when its type says so, and it is then shorter.
PostProcess(r) ==
  IF asked.gzip /\ ~IsStreaming(r) /\ r.body > 1 THEN {r, SetBody(r.body - 1)} ELSE {r}

Content == 0 .. MaxContent
GetAnswers == {SetBody(n) : n \in Content} \cup {SetFile(n) : n \in Content}

\* What the handlers return: bodies (204 and 304 are empty), files, and the iterators of the
\* encrypted transfer.  HEAD on a route with a handler of its own, such as the encrypted transfer
\* or an upload session, is answered there, with a body.
HandlerAnswers ==
  IF asked.head THEN {HandleHead(r) : r \in GetAnswers} \cup {SetBody(n) : n \in Content}
  ELSE GetAnswers \cup {SetIterator(n) : n \in Content}

\* _compute_response: without capacity, an error that is not post-processed.
ComputedAnswers == UNION {PostProcess(r) : r \in HandlerAnswers} \cup {SetBody(n) : n \in Content}

\* _resolve_keep_alive
KeepsConnection == ~asked.close /\ answers < KeepAliveAnswers

Resolved == IF KeepsConnection THEN "keep" ELSE "close"

\* _send_response overrides it for a stream.
Announced == IF IsStreaming(answer) THEN "close" ELSE Resolved
-----------------------------------------------------------------------------
NoAnswer == SetBody(0)
Fresh == [told |-> "keep", owes |-> 0, surplus |-> 0]

\* n units reach the client.
Deliver(r, n) ==
  [r EXCEPT !.owes = Max({@ - n, 0}), !.surplus = @ + Max({n - r.owes, 0})]

\* The headers reach the client, which knows from then on what it waits for.
Told(promise, length) ==
  [told |-> promise, owes |-> IF asked.head THEN 0 ELSE length, surplus |-> 0]

Ask ==
  /\ serving = "wait" /\ reader = Fresh
  /\ asked' \in [head : BOOLEAN, close : BOOLEAN, gzip : BOOLEAN]
  /\ answers' = answers + 1 /\ serving' = "process"
  /\ reader' = [Fresh EXCEPT !.told = "nothing"]
  /\ UNCHANGED <<answer>>

\* A refusal before dispatch promises what the connection would have, and closes it.
SendDirectResponse ==
  /\ serving = "process"
  /\ \E n \in Content, promise \in {"close", Resolved} :
       answer' = SetBody(n) /\ reader' = Deliver(Told(promise, n), n)
  /\ serving' = "closed"
  /\ UNCHANGED <<answers, asked>>

ComputeResponse ==
  /\ serving = "process"
  /\ answer' \in ComputedAnswers
  /\ serving' = "headers"
  /\ UNCHANGED <<answers, asked, reader>>

\* One sendall for headers and body.
SendBody ==
  /\ serving = "headers" /\ ~IsStreaming(answer)
  /\ reader' = Deliver(Told(Announced, answer.length), answer.body)
  /\ serving' = IF KeepsConnection THEN "wait" ELSE "closed"
  /\ UNCHANGED <<answers, asked, answer>>

\* It fails half way; the answer to the error goes after what was sent, if it goes.
SendBodyFails ==
  /\ serving = "headers" /\ ~IsStreaming(answer)
  /\ \E n \in 0 .. answer.body, m \in Content :
       reader' = Deliver(Told(Announced, answer.length), n + m)
  /\ serving' = "closed"
  /\ UNCHANGED <<answers, asked, answer>>

\* The headers of a stream; only then is the file opened, which may be another by now, of
\* another length, or gone: then the answer to the error follows the headers.
SendHeaders ==
  /\ serving = "headers" /\ IsStreaming(answer)
  /\ reader' = Told(Announced, answer.length)
  /\ \E n \in 0 .. MaxContent + 1 : answer' = [answer EXCEPT !.body = n]
  /\ serving' = "stream"
  /\ UNCHANGED <<answers, asked>>

OpenFails ==
  /\ serving = "headers" /\ answer.stream = "file"
  /\ \E m \in Content : reader' = Deliver(Told(Announced, answer.length), m)
  /\ serving' = "closed"
  /\ UNCHANGED <<answers, asked, answer>>

\* No chunk goes beyond Content-Length.
Fits(n) == n <= reader.owes

SendChunk ==
  /\ serving = "stream"
  /\ \E n \in 1 .. answer.body :
       /\ Fits(n)
       /\ reader' = Deliver(reader, n) /\ answer' = [answer EXCEPT !.body = @ - n]
  /\ UNCHANGED <<serving, answers, asked>>

\* The end of the stream, or a timeout, a chunk that does not fit, an error of the iterator.
\* By then _send_response has dropped the iterator, and the pipeline no longer knows that the
\* answer was streamed.
EndStream ==
  /\ serving \in {"headers", "stream"} /\ IsStreaming(answer)
  /\ serving' = IF answer.stream = "iterator" /\ KeepsConnection THEN "wait" ELSE "closed"
  /\ UNCHANGED <<answers, asked, answer, reader>>

\* No request within KEEP_ALIVE_TIMEOUT.
IdleClose ==
  /\ serving = "wait" /\ answers > 0
  /\ serving' = "closed"
  /\ UNCHANGED <<answers, asked, answer, reader>>
-----------------------------------------------------------------------------
\* CORE_METHOD_SPECS: every method is in cors_exact, those that do not change anything in
\* cors_wildcard too.
ReadMethods == {"GET", "HEAD", "OPTIONS", "FETCH", "INFO", "PING"}
MutatingMethods == {"POST", "PUT", "PATCH", "DELETE", "NONE", "NOTE", "SMUGGLE"}
CoreMethods == ReadMethods \cup MutatingMethods

\* parse_cors_origins: the items of the configured value; "*" stands alone.
Wildcard == {"*"}
OriginLists == {ToSet(items) \ {""} : items \in BoundedSeq({"*", "listed", ""}, 2)}
ConfiguredOrigins == {s \in OriginLists : "*" \in s => s = Wildcard}

\* auth: authentication is configured; mutating: of the one plugin method.  Whether a plugin
\* method is cors_allowed shows only in a header browsers read in no answer but a preflight's.
Policies == [origins : ConfiguredOrigins, auth : BOOLEAN, mutating : BOOLEAN]

\* What a page asks for.  X-TOKEN is a method nobody handles but an upload session; basic and
\* advanced are headers of the two lists of cors.py: Authorization among the first, among the
\* second the token of a session, here always one that is live and of this client.
Pages == [origin : {"same", "listed", "foreign"}, method : CoreMethods \cup {"PLUGIN", "X-TOKEN"},
          headers : SUBSET {"basic", "advanced", "unlisted"}]

Policy == cross.policy
Page == cross.page
InSession == "advanced" \in Page.headers

\* _is_browser_protected_mutation
Protected ==
  \/ InSession
  \/ Page.method = "PLUGIN" /\ Policy.mutating
  \/ Page.method \in MutatingMethods

Explicit(origin) == origin # "*" /\ origin \in Policy.origins

\* _is_browser_mutation_allowed, for a browser that says where a request comes from.
GuardPasses == Protected => Page.origin = "same" \/ Explicit(Page.origin)

\* _resolve_cors_origin
ResolveCorsOrigin ==
  CASE Policy.origins = Wildcard -> {"*"}
    [] Policy.origins # Wildcard -> {Page.origin} \cap Policy.origins

\* resolve_preflight_allow_methods: for an exact list whatever was asked for.
CorsMethods(readOnly) == IF readOnly THEN ReadMethods ELSE CoreMethods
PreflightMethods ==
  CorsMethods(Policy.origins = Wildcard) \cup {m \in {Page.method} : Policy.origins # Wildcard}

\* resolve_preflight_allow_headers
PreflightHeaders ==
  Page.headers \cap (IF Policy.origins = Wildcard THEN {"basic"} ELSE {"basic", "advanced"})

\* Methods and requests a browser sends without asking first.
Safelisted == {"GET", "HEAD", "POST"}
Simple == Page.method \in Safelisted /\ Page.headers = {}

\* The page may read an answer that names its origin or everybody.
Admits(acao) == Page.origin = "same" \/ acao \cap {"*", Page.origin} # {}

NoPage == [at |-> "none"]
CrossInit == cross = NoPage

OpenPage ==
  /\ cross = NoPage
  /\ cross' \in [policy : Policies, page : Pages, at : {"page"}, acao : {{}}, done : {FALSE}]

\* handle_options.  A preflight has no credentials, and where they are required it is refused
\* like everything else; a browser goes on only with all it asked for.
PreflightPasses ==
  /\ ~Policy.auth /\ Policy.origins # {}
  /\ Admits(ResolveCorsOrigin)
  /\ Page.method \in Safelisted \cup PreflightMethods
  /\ Page.headers \subseteq PreflightHeaders

Preflight ==
  /\ cross.at = "page" /\ Page.origin # "same" /\ ~Simple
  /\ cross' = [cross EXCEPT !.at = IF PreflightPasses THEN "allowed" ELSE "blocked"]

Credentials == Policy.auth => "basic" \in Page.headers

Handled == InSession \/ Page.method \in CoreMethods \cup {"PLUGIN"}

\* The request itself: only what passes the guard is answered with CORS headers.
PageRequest ==
  /\ \/ cross.at = "allowed"
     \/ cross.at = "page" /\ (Page.origin = "same" \/ Simple)
  /\ LET passes == Credentials /\ GuardPasses
     IN cross' = [cross EXCEPT !.at = "answered",
                               !.done = passes /\ Handled,
                               !.acao = IF passes THEN ResolveCorsOrigin ELSE {}]
-----------------------------------------------------------------------------
ReplyInit ==
  /\ serving = "wait" /\ answers = 0 /\ answer = NoAnswer /\ reader = Fresh
  /\ asked = [head |-> FALSE, close |-> FALSE, gzip |-> FALSE]

ReplyNext ==
  \/ Ask \/ SendDirectResponse \/ ComputeResponse \/ SendBody \/ SendBodyFails
  \/ SendHeaders \/ OpenFails \/ SendChunk \/ EndStream \/ IdleClose

\* One connection and no page.
ReplySpec == ReplyInit /\ CrossInit /\ [][ReplyNext /\ UNCHANGED cross]_<<replyVars, cross>>

CrossNext == OpenPage \/ Preflight \/ PageRequest
-----------------------------------------------------------------------------
(* The answers of a connection stay apart: when the worker waits for the next request,  *)
(* a client that was told so has taken the whole of the last answer and nothing else,   *)
(* whatever the file behind it became after its length was announced, whether it was    *)
(* compressed, and wherever a stream broke off.  The one exception is a HEAD that is    *)
(* not answered by handle_head but by an error or another handler, with a body.         *)
RepliesFramed ==
  serving = "wait" /\ answers > 0 =>
    /\ reader.told = "keep" => reader.owes = 0
    /\ reader.surplus > 0 => asked.head /\ answer \notin {HandleHead(r) : r \in GetAnswers}

(* The lists a preflight is answered from and the guard that decides agree: a page of   *)
(* an origin that is not configured has nothing changed, and reads an answer only       *)
(* under the wildcard and of a request that changes nothing; and what a preflight       *)
(* promised to a configured origin the guard then lets through.                         *)
CrossOriginSound ==
  cross.at = "answered" =>
    LET trusted == Page.origin = "same" \/ Page.origin \in Policy.origins
        changes == InSession \/ Page.method \in MutatingMethods
                     \/ (Page.method = "PLUGIN" /\ Policy.mutating)
    IN /\ cross.done /\ changes => trusted
       /\ Admits(cross.acao) => trusted \/ (Policy.origins = Wildcard /\ ~changes)
       /\ Page.origin \in Policy.origins /\ Handled /\ Credentials => cross.done

(* An answer that announces the end of its connection ends it.  _send_response and the  *)
(* pipeline both mean to do so for a stream; for an iterator the pipeline does not: the *)
(* worker waits for a request its client was told not to send, and the client of a      *)
(* stream that broke off for content that will not come.                                *)
ClosedAsAnnounced == serving = "wait" => reader.told # "close"

RepliesSound == RepliesFramed /\ CrossOriginSound
================================================================================
