---------------------------- MODULE ServerRuntime ----------------------------
(***************************************************************************)
(* One server process: the accept loop and shutdown of lifecycle.py, the   *)
(* connection workers of server.py and request_pipeline.py, the body       *)
(* memory budget of http/io.py and the sessions of websocket_runtime.py.   *)
(*                                                                         *)
(* The main thread runs start(), which accepts connections and ends in     *)
(* cleanup().  Each admitted connection has a worker.  stop() runs once,   *)
(* either in a thread of its own or, on SIGTERM, as a signal handler: then *)
(* the main thread stands still until the handler returns.                 *)
(*                                                                         *)
(* A capacity gate is what CapacityGate shows of it: a slot is granted     *)
(* while the gate is open and below its limit, and refused, after a wait,  *)
(* when it is closed or full.                                              *)
(***************************************************************************)
EXTENDS Integers, FiniteSetsExt

CONSTANTS
  Conns,             \* client connections
  Sizes,             \* declared lengths of request bodies
  Configs            \* configurations: limits of the gates, body budget, TLS; how stop() is
                     \* run and at which points of the main thread it may be called;
                     \* whether SIGINT may be sent

Gates == {"conn", "tls", "transfer", "dispatch", "ws"}

ASSUME RuntimeAssumption ==
  /\ IsFiniteSet(Conns) /\ Sizes \subseteq Nat
  /\ Configs \subseteq [limit : [Gates -> Nat \ {0}], budget : Nat, tls_enabled : BOOLEAN,
                        stopped_by : {"thread", "signal"}, stop_points : SUBSET STRING,
                        interrupts : BOOLEAN]

VARIABLES
  config,
  main, stopper,     \* points of the main thread and of stop()
  current,           \* the connection the accept loop has in hand, as a set
  running, cleaned, closed,   \* _running, _cleaned; the gates have been closed
  listener,          \* "none", "open" or "closed"
  stage,             \* where each connection is
  fd,                \* the object that owns its descriptor: "orig", "wrapped"; or "closed"
  tracked,           \* the object in _sockets, or "none"
  socketsLock, cleanupLock,   \* the main thread holds it
  closing,           \* what stop() and cleanup() have yet to close: <<connection, object>>
  used, lease,       \* slots taken of each gate; leases each connection holds
  bodyBytes, body    \* bytes taken of the budget; bytes each connection reserved

server == <<main, current, running, cleaned, closed, listener, socketsLock, cleanupLock>>
resources == <<used, lease, bodyBytes, body>>
vars == <<config, server, stopper, stage, fd, tracked, closing, resources>>

Serving == {"loop", "accept", "admit", "register", "track", "submit"}
Starting == {"setup", "socket", "bind", "up"}
Cleaning == {"mark", "unlock", "close_gates", "close_listener", "snapshot", "close_sockets", "join"}
\* Points of a worker; the first is waiting for a thread.
Working == {"queued", "tls", "wrap", "replace", "handshake", "next", "recv", "transfer", "reserve",
            "body", "route", "handler", "send", "ws", "ws_handler", "keep", "drop", "close",
            "untrack"}

Init ==
  /\ config \in Configs
  /\ main = "setup" /\ stopper = "off" /\ current = {}
  /\ running = FALSE /\ cleaned = FALSE /\ closed = FALSE /\ listener = "none"
  /\ stage = [c \in Conns |-> "away"] /\ fd = [c \in Conns |-> "none"]
  /\ tracked = [c \in Conns |-> "none"]
  /\ socketsLock = FALSE /\ cleanupLock = FALSE
  /\ closing = [who \in {"stop", "main"} |-> {}]
  /\ used = [g \in Gates |-> 0] /\ lease = [c \in Conns |-> {}]
  /\ bodyBytes = 0 /\ body = [c \in Conns |-> 0]
-----------------------------------------------------------------------------
\* Leases and reservations.

Free(g) == ~closed /\ used[g] < config.limit[g]

Take(c, g) ==
  /\ used' = [used EXCEPT ![g] = @ + 1]
  /\ lease' = [lease EXCEPT ![c] = @ \cup {g}]

\* AdmissionLease.release: only the first call has an effect.
GiveBack(c, gs) ==
  /\ used' = [g \in Gates |-> IF g \in gs \cap lease[c] THEN used[g] - 1 ELSE used[g]]
  /\ lease' = [lease EXCEPT ![c] = @ \ gs]

GiveBackBody(c) ==
  /\ bodyBytes' = bodyBytes - body[c]
  /\ body' = [body EXCEPT ![c] = 0]

KeepBody == UNCHANGED <<bodyBytes, body>>

Shut(c) == fd' = [fd EXCEPT ![c] = "closed"]
Goto(c, s) == stage' = [stage EXCEPT ![c] = s]
Live(c) == fd[c] # "closed"
-----------------------------------------------------------------------------
\* The main thread: start().

MainRuns == config.stopped_by = "thread" \/ stopper \in {"off", "done"}
At(p) == main = p /\ MainRuns
MainTo(p) == main' = p

SetupTls ==
  /\ At("setup")
  /\ \/ MainTo("socket")
     \/ MainTo("mark")           \* the exception ends start()
  /\ UNCHANGED <<config, stopper, current, running, cleaned, closed, listener, stage, fd, tracked,
                 socketsLock, cleanupLock, closing, resources>>

CreateListener ==
  /\ At("socket")
  /\ listener' = "open"
  /\ MainTo("bind")
  /\ UNCHANGED <<config, stopper, current, running, cleaned, closed, stage, fd, tracked,
                 socketsLock, cleanupLock, closing, resources>>

Bind ==
  /\ At("bind")
  /\ \/ listener = "open" /\ MainTo("up")
     \/ MainTo("mark")
  /\ UNCHANGED <<config, stopper, current, running, cleaned, closed, listener, stage, fd, tracked,
                 socketsLock, cleanupLock, closing, resources>>

SetRunning ==
  /\ At("up")
  /\ running' = TRUE
  /\ MainTo("loop")
  /\ UNCHANGED <<config, stopper, current, cleaned, closed, listener, stage, fd, tracked,
                 socketsLock, cleanupLock, closing, resources>>

LoopTest ==
  /\ At("loop")
  /\ MainTo(IF running THEN "accept" ELSE "mark")
  /\ UNCHANGED <<config, stopper, current, running, cleaned, closed, listener, stage, fd, tracked,
                 socketsLock, cleanupLock, closing, resources>>

\* A client connects.
Connect(c) ==
  /\ stage[c] = "away" /\ listener = "open"
  /\ Goto(c, "backlog")
  /\ UNCHANGED <<config, server, stopper, fd, tracked, closing, resources>>

Accept(c) ==
  /\ At("accept") /\ listener = "open" /\ stage[c] = "backlog"
  /\ current' = {c}
  /\ Goto(c, "accepted") /\ fd' = [fd EXCEPT ![c] = "orig"]
  /\ MainTo("admit")
  /\ UNCHANGED <<config, stopper, running, cleaned, closed, listener, tracked,
                 socketsLock, cleanupLock, closing, resources>>

\* Mutant: every error of accept() is taken for a passing one.
AcceptFailsRetry ==
  /\ At("accept")
  /\ MainTo("loop")
  /\ UNCHANGED <<config, stopper, current, running, cleaned, closed, listener, stage, fd, tracked,
                 socketsLock, cleanupLock, closing, resources>>

\* No client within ACCEPT_TIMEOUT; or an error, which ends start() whether or not it runs, and
\* is certain once the listener is closed.
AcceptFails ==
  /\ At("accept")
  /\ \/ listener = "open" /\ MainTo("loop")
     \/ MainTo("mark")
  /\ UNCHANGED <<config, stopper, current, running, cleaned, closed, listener, stage, fd, tracked,
                 socketsLock, cleanupLock, closing, resources>>

AdmitConnection(c) ==
  /\ At("admit") /\ c \in current /\ Free("conn")
  /\ Take(c, "conn") /\ KeepBody
  /\ MainTo("register")
  /\ UNCHANGED <<config, stopper, current, running, cleaned, closed, listener, stage, fd, tracked,
                 socketsLock, cleanupLock, closing>>

RejectOverloaded(c) ==
  /\ At("admit") /\ c \in current /\ ~Free("conn")
  /\ Shut(c) /\ Goto(c, "gone")
  /\ current' = {}
  /\ MainTo("loop")
  /\ UNCHANGED <<config, stopper, running, cleaned, closed, listener, tracked,
                 socketsLock, cleanupLock, closing, resources>>

LockSockets ==
  /\ At("register") /\ ~socketsLock
  /\ socketsLock' = TRUE
  /\ MainTo("track")
  /\ UNCHANGED <<config, stopper, current, running, cleaned, closed, listener, stage, fd, tracked,
                 cleanupLock, closing, resources>>

Track(c) ==
  /\ At("track") /\ c \in current
  /\ tracked' = [tracked EXCEPT ![c] = "orig"]
  /\ socketsLock' = FALSE
  /\ MainTo("submit")
  /\ UNCHANGED <<config, stopper, current, running, cleaned, closed, listener, stage, fd,
                 cleanupLock, closing, resources>>

Submit(c) ==
  /\ At("submit") /\ c \in current
  /\ Goto(c, "queued")
  /\ current' = {}
  /\ MainTo("loop")
  /\ UNCHANGED <<config, stopper, running, cleaned, closed, listener, fd, tracked,
                 socketsLock, cleanupLock, closing, resources>>

SubmitFails(c) ==
  /\ At("submit") /\ c \in current /\ ~socketsLock
  /\ tracked' = [tracked EXCEPT ![c] = "none"]
  /\ GiveBack(c, {"conn"}) /\ KeepBody
  /\ Shut(c) /\ Goto(c, "gone")
  /\ current' = {}
  /\ MainTo("loop")
  /\ UNCHANGED <<config, stopper, running, cleaned, closed, listener,
                 socketsLock, cleanupLock, closing>>

\* SIGINT: start() ends with KeyboardInterrupt.  Its local variables go, and
\* with them a socket no other object refers to.
Interrupt ==
  /\ config.interrupts /\ main \in Starting \cup Serving /\ MainRuns
  /\ fd' = [c \in Conns |-> IF c \in current /\ tracked[c] = "none" THEN "closed" ELSE fd[c]]
  /\ stage' = [c \in Conns |-> IF c \in current THEN "abandoned" ELSE stage[c]]
  /\ current' = {}
  /\ socketsLock' = FALSE
  /\ MainTo("mark")
  /\ UNCHANGED <<config, stopper, running, cleaned, closed, listener, tracked, cleanupLock, closing,
                 resources>>
-----------------------------------------------------------------------------
\* The main thread: cleanup().

LockCleanup ==
  /\ At("mark") /\ ~cleanupLock
  /\ cleanupLock' = TRUE
  /\ MainTo("unlock")
  /\ UNCHANGED <<config, stopper, current, running, cleaned, closed, listener, stage, fd, tracked,
                 socketsLock, closing, resources>>

MarkCleaned ==
  /\ At("unlock")
  /\ cleaned' = TRUE /\ running' = FALSE
  /\ cleanupLock' = FALSE
  /\ MainTo("close_gates")
  /\ UNCHANGED <<config, stopper, current, closed, listener, stage, fd, tracked, socketsLock,
                 closing, resources>>

\* connections.close() and on_stopping(): no step looks at two gates.
CleanupGates ==
  /\ At("close_gates")
  /\ closed' = TRUE
  /\ MainTo("close_listener")
  /\ UNCHANGED <<config, stopper, current, running, cleaned, listener, stage, fd, tracked,
                 socketsLock, cleanupLock, closing, resources>>

CleanupListener ==
  /\ At("close_listener")
  /\ listener' = IF listener = "open" THEN "closed" ELSE listener
  /\ MainTo("snapshot")
  /\ UNCHANGED <<config, stopper, current, running, cleaned, closed, stage, fd, tracked,
                 socketsLock, cleanupLock, closing, resources>>

\* _close_sockets: a copy of the table under the lock, then one by one.
Snapshot(who) ==
  /\ ~socketsLock
  /\ closing' = [closing EXCEPT ![who] = {<<c, tracked[c]>> : c \in {d \in Conns : tracked[d] # "none"}}]

\* Closing an object that no longer owns the descriptor does nothing.
CloseOne(who) ==
  /\ \E x \in closing[who] :
       /\ closing' = [closing EXCEPT ![who] = @ \ {x}]
       /\ fd' = [fd EXCEPT ![x[1]] = IF @ = x[2] THEN "closed" ELSE @]

CleanupSnapshot ==
  /\ At("snapshot") /\ Snapshot("main")
  /\ MainTo("close_sockets")
  /\ UNCHANGED <<config, stopper, current, running, cleaned, closed, listener, stage, fd, tracked,
                 socketsLock, cleanupLock, resources>>

CleanupClose ==
  /\ At("close_sockets") /\ CloseOne("main")
  /\ UNCHANGED <<config, server, stopper, stage, tracked, resources>>

CleanupClosed ==
  /\ At("close_sockets") /\ closing["main"] = {}
  /\ MainTo("join")
  /\ UNCHANGED <<config, stopper, current, running, cleaned, closed, listener, stage, fd, tracked,
                 socketsLock, cleanupLock, closing, resources>>

\* executor.shutdown cancels what has not started; the future's callback runs
\* _release_cancelled_admission.
CancelQueued(c) ==
  /\ At("join") /\ stage[c] = "queued"
  /\ GiveBack(c, {"conn"}) /\ KeepBody
  /\ Shut(c) /\ Goto(c, "gone")
  /\ tracked' = [tracked EXCEPT ![c] = "none"]
  /\ UNCHANGED <<config, server, stopper, closing>>

\* All workers have ended; the certificates and the artifacts are removed.
Join ==
  /\ At("join") /\ \A c \in Conns : stage[c] \notin Working
  /\ MainTo("down")
  /\ UNCHANGED <<config, stopper, current, running, cleaned, closed, listener, stage, fd, tracked,
                 socketsLock, cleanupLock, closing, resources>>
-----------------------------------------------------------------------------
\* stop()

StopTo(p) == stopper' = p

StopCalled ==
  /\ stopper = "off" /\ main \in config.stop_points
  /\ running' = FALSE
  /\ StopTo("close_gates")
  /\ UNCHANGED <<config, main, current, cleaned, closed, listener, stage, fd, tracked,
                 socketsLock, cleanupLock, closing, resources>>

StopGates ==
  /\ stopper = "close_gates"
  /\ closed' = TRUE
  /\ StopTo("snapshot")
  /\ UNCHANGED <<config, main, current, running, cleaned, listener, stage, fd, tracked,
                 socketsLock, cleanupLock, closing, resources>>

StopSnapshot ==
  /\ stopper = "snapshot" /\ Snapshot("stop")
  /\ StopTo("close_sockets")
  /\ UNCHANGED <<config, server, stage, fd, tracked, resources>>

StopClose ==
  /\ stopper = "close_sockets" /\ CloseOne("stop")
  /\ UNCHANGED <<config, server, stopper, stage, tracked, resources>>

StopListener ==
  /\ stopper = "close_sockets" /\ closing["stop"] = {} /\ ~cleanupLock
  /\ listener' = IF listener = "open" THEN "closed" ELSE listener
  /\ StopTo("done")
  /\ UNCHANGED <<config, main, current, running, cleaned, closed, stage, fd, tracked,
                 socketsLock, cleanupLock, closing, resources>>
-----------------------------------------------------------------------------
\* A worker: _handle_admitted_client and _handle_client.

\* The worker of c goes from one point to the next and changes nothing else.
Step(c, from, to) ==
  /\ stage[c] = from
  /\ Goto(c, to)
  /\ UNCHANGED <<config, server, stopper, fd, tracked, closing>>

WorkerStarts(c) ==
  /\ Step(c, "queued", IF config.tls_enabled THEN "tls" ELSE "next")
  /\ UNCHANGED resources

\* Waiting for a handshake slot, until the handshake's deadline.
TlsSlot(c) ==
  \/ Free("tls") /\ Step(c, "tls", "wrap") /\ Take(c, "tls") /\ KeepBody
  \/ ~Free("tls") /\ Step(c, "tls", "close") /\ UNCHANGED resources

\* wrap_socket moves the descriptor to a new object.
Wrap(c) ==
  /\ stage[c] = "wrap" /\ Live(c)
  /\ fd' = [fd EXCEPT ![c] = "wrapped"]
  /\ Goto(c, "replace")
  /\ UNCHANGED <<config, server, stopper, tracked, closing, resources>>

\* Mutant: the new object is entered without looking at the running flag.
ReplaceSocketBlindly(c) ==
  /\ stage[c] = "replace" /\ ~socketsLock
  /\ tracked' = [tracked EXCEPT ![c] = IF @ = "none" THEN @ ELSE "wrapped"]
  /\ Goto(c, "handshake")
  /\ UNCHANGED <<config, server, stopper, fd, closing, resources>>

ReplaceSocket(c) ==
  /\ stage[c] = "replace" /\ ~socketsLock
  /\ tracked' = [tracked EXCEPT ![c] = IF @ = "none" THEN @ ELSE "wrapped"]
  /\ fd' = [fd EXCEPT ![c] = IF running THEN @ ELSE "closed"]
  /\ Goto(c, "handshake")
  /\ UNCHANGED <<config, server, stopper, closing, resources>>

Handshake(c) ==
  /\ Live(c) /\ Step(c, "handshake", "next")
  /\ GiveBack(c, {"tls"}) /\ KeepBody

\* The deadline, a TLS error or a closed socket.
HandshakeFails(c) ==
  /\ \E s \in {"wrap", "handshake"} : Step(c, s, "close")
  /\ GiveBack(c, {"tls"}) /\ KeepBody

WhileRunning(c) ==
  /\ Step(c, "next", IF running THEN "recv" ELSE "close")
  /\ UNCHANGED resources

\* admit_headers: malformed or unauthenticated requests are answered and
\* dropped; bulk requests need a transfer slot.  Headers cut short by a timeout
\* go to the pipeline as they are.
Headers(c) ==
  /\ Live(c)
  /\ \E s \in {"reserve", "transfer", "drop", "route"} : Step(c, "recv", s)
  /\ UNCHANGED resources

TransferSlot(c) ==
  \/ Free("transfer") /\ Step(c, "transfer", "reserve") /\ Take(c, "transfer") /\ KeepBody
  \/ ~Free("transfer") /\ Step(c, "transfer", "drop") /\ UNCHANGED resources

\* try_reserve of the body memory budget.
Fits(n) == bodyBytes + n <= config.budget

ReserveBody(c, n) ==
  \/ /\ Fits(n) /\ Step(c, "reserve", "body")
     /\ bodyBytes' = bodyBytes + n
     /\ body' = [body EXCEPT ![c] = n]
     /\ UNCHANGED <<used, lease>>
  \/ ~Fits(n) /\ Step(c, "reserve", "drop") /\ UNCHANGED resources

BodyReceived(c) ==
  /\ Live(c) /\ Step(c, "body", "route")
  /\ UNCHANGED resources

\* A timeout, the peer's end of stream, or a closed socket, while receiving.
ReceiveFails(c) ==
  /\ \E s \in {"recv", "body"} : Step(c, s, "drop")
  /\ GiveBackBody(c) /\ UNCHANGED <<used, lease>>

\* RequestPipeline.process up to the dispatch: a direct answer ends the
\* connection; a transfer slot stands for a dispatch slot.
Route(c) ==
  \/ Step(c, "route", "drop") /\ UNCHANGED resources
  \/ "transfer" \in lease[c] /\ Step(c, "route", "handler") /\ UNCHANGED resources
  \/ "transfer" \notin lease[c] /\ Free("dispatch")
       /\ Step(c, "route", "handler") /\ Take(c, "dispatch") /\ KeepBody
  \/ "transfer" \notin lease[c] /\ ~Free("dispatch")
       /\ Step(c, "route", "send") /\ UNCHANGED resources

\* The handler returns a response or raises: the slot is free before the write.
HandlerReturns(c) ==
  /\ \E s \in {"send", "drop"} : Step(c, "handler", s)
  /\ GiveBack(c, {"dispatch"}) /\ KeepBody

Send(c) ==
  /\ Step(c, "send", "drop") \/ (Live(c) /\ Step(c, "send", "keep"))
  /\ UNCHANGED resources

\* upgrade(): one session slot for as long as the frame loop runs.  Unlike a
\* gate, the semaphore is not closed.
Upgrade(c) ==
  /\ "transfer" \notin lease[c]
  /\ used["ws"] < config.limit["ws"] /\ Step(c, "route", "ws") /\ Take(c, "ws") /\ KeepBody

\* _handle_bounded_ws_message, for a frame received earlier; a busy server
\* answers with a close frame.
Message(c) ==
  /\ Free("dispatch")
  /\ Step(c, "ws", "ws_handler") /\ Take(c, "dispatch") /\ KeepBody

MessageHandled(c) ==
  /\ \E s \in {"ws", "drop"} :
       /\ Step(c, "ws_handler", s)
       /\ GiveBack(c, IF s = "drop" THEN {"dispatch", "ws"} ELSE {"dispatch"})
  /\ KeepBody

SessionEnds(c) ==
  /\ Step(c, "ws", "drop")
  /\ GiveBack(c, {"ws"}) /\ KeepBody

\* Mutant: the transfer slot goes with the connection, not with the request.
RequestEndsLate(c) ==
  /\ Step(c, "keep", "next") \/ Step(c, "drop", "close")
  /\ GiveBackBody(c)
  /\ UNCHANGED <<used, lease>>

\* The request's finally block.
RequestEnds(c) ==
  /\ Step(c, "keep", "next") \/ Step(c, "drop", "close")
  /\ GiveBack(c, {"transfer"})
  /\ GiveBackBody(c)

CloseSocket(c) ==
  /\ stage[c] = "close"
  /\ Shut(c) /\ Goto(c, "untrack")
  /\ UNCHANGED <<config, server, stopper, tracked, closing, resources>>

\* The worker's finally block: off the table, then the slot.
Untrack(c) ==
  /\ stage[c] = "untrack" /\ ~socketsLock
  /\ tracked' = [tracked EXCEPT ![c] = "none"]
  /\ GiveBack(c, {"conn"}) /\ KeepBody
  /\ Goto(c, "gone")
  /\ UNCHANGED <<config, server, stopper, fd, closing>>
-----------------------------------------------------------------------------
MainStep ==
  \/ SetupTls \/ CreateListener \/ Bind \/ SetRunning \/ LoopTest \/ AcceptFails \/ LockSockets
  \/ LockCleanup \/ MarkCleaned \/ CleanupGates \/ CleanupListener \/ CleanupSnapshot
  \/ CleanupClose \/ CleanupClosed \/ Join
  \/ \E c \in Conns : \/ Accept(c) \/ AdmitConnection(c) \/ RejectOverloaded(c) \/ Track(c)
                      \/ Submit(c) \/ SubmitFails(c) \/ CancelQueued(c)

StopStep == StopGates \/ StopSnapshot \/ StopClose \/ StopListener

\* Steps a worker takes by itself; each wait of a worker has a timeout.
WorkerStep(c) ==
  \/ WorkerStarts(c) \/ TlsSlot(c) \/ Wrap(c) \/ ReplaceSocket(c) \/ Handshake(c) \/ HandshakeFails(c)
  \/ WhileRunning(c) \/ Headers(c) \/ TransferSlot(c) \/ (\E n \in Sizes : ReserveBody(c, n))
  \/ BodyReceived(c) \/ ReceiveFails(c) \/ Route(c) \/ HandlerReturns(c) \/ Send(c)
  \/ Upgrade(c) \/ MessageHandled(c) \/ RequestEnds(c)
  \/ CloseSocket(c) \/ Untrack(c)
  \/ ((~running \/ ~Live(c)) /\ SessionEnds(c))

Next ==
  \/ MainStep \/ StopStep \/ StopCalled \/ Interrupt
  \/ \E c \in Conns : Connect(c) \/ WorkerStep(c) \/ Message(c) \/ SessionEnds(c)

Fairness ==
  /\ WF_vars(MainStep) /\ WF_vars(StopStep)
  /\ \A c \in Conns : WF_vars(WorkerStep(c))

Spec == Init /\ [][Next]_vars /\ Fairness
-----------------------------------------------------------------------------
(***************************************************************************)
(* Each gate counts exactly the leases held, none is above its limit, and  *)
(* a connection that is idle between requests, or gone, holds nothing but  *)
(* its own slot: every refusal, failure and early return of a request      *)
(* gives back what the request had taken.                                  *)
(***************************************************************************)
SlotsExact ==
  /\ \A g \in Gates : /\ used[g] = Cardinality({c \in Conns : g \in lease[c]})
                      /\ used[g] <= config.limit[g]
  /\ \A c \in Conns : /\ stage[c] \in {"next", "recv", "close", "untrack"}
                           => lease[c] \subseteq {"conn"}
                      /\ stage[c] = "gone" => lease[c] = {}

(***************************************************************************)
(* The bytes of request bodies in memory are those of the requests being   *)
(* received or processed, and stay within the budget.                      *)
(***************************************************************************)
BodyBudgetKept ==
  /\ bodyBytes = SumFunction(body) /\ bodyBytes <= config.budget
  /\ \A c \in Conns : body[c] > 0 => stage[c] \in {"body", "route", "handler", "send", "ws",
                                                   "ws_handler", "keep", "drop"}

(***************************************************************************)
(* When cleanup() starts to wait for the workers, no client can hold one   *)
(* back: the descriptor of every connection is closed, or its worker is    *)
(* between wrap_socket and replace_socket and is about to close it.        *)
(***************************************************************************)
JoinUnblocked ==
  main = "join" => \A c \in Conns : stage[c] \in Working \cup {"abandoned"}
                                      => ~Live(c) \/ stage[c] = "replace"

(***************************************************************************)
(* When the server is down, nothing it admitted is left: no worker, no     *)
(* tracked or open socket, no slot and no body bytes, except for a         *)
(* connection that SIGINT took out of the accept loop's hands.             *)
(***************************************************************************)
NothingLeft ==
  main = "down" =>
    /\ \A c \in Conns : /\ stage[c] \in {"away", "backlog", "gone", "abandoned"}
                        /\ stage[c] \in {"gone", "abandoned"} => ~Live(c)
                        /\ stage[c] # "abandoned" => tracked[c] = "none" /\ lease[c] = {}
    /\ bodyBytes = 0

(***************************************************************************)
(* Whatever a connection was given - slots, body bytes, a place in the     *)
(* table of sockets - is counted exactly while it has it and is returned.  *)
(***************************************************************************)
ResourcesReturned == SlotsExact /\ BodyBudgetKept /\ NothingLeft

(***************************************************************************)
(* stop() "requests loop termination" (lifecycle.py): the server comes     *)
(* down, whatever its clients do.                                          *)
(***************************************************************************)
StopTerminates == (stopper # "off") ~> (main = "down")
==============================================================================
