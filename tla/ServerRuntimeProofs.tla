------------------------- MODULE ServerRuntimeProofs -------------------------
(***************************************************************************)
(* Proofs that no client holds back the server's shutdown, and that slots, *)
(* body bytes and sockets are counted and returned, for every set of       *)
(* connections and every configuration; and that a session of the          *)
(* advanced-upload service that has ended stays ended.                     *)
(***************************************************************************)
EXTENDS ServerRuntime, SumProofs, AdvancedSessions

Stages == Working \cup {"away", "backlog", "accepted", "abandoned", "gone"}
Objects == {"none", "orig", "wrapped", "closed"}

RuntimeTypes ==
  /\ stage \in [Conns -> Stages] /\ fd \in [Conns -> Objects] /\ tracked \in [Conns -> Objects]
  /\ closing \in [{"stop", "main"} -> SUBSET (Conns \X Objects)]
  /\ current \subseteq Conns

\* The accept loop has at most one connection in hand, and only between
\* accept() and the submission; that connection is not a worker's yet.
InHand ==
  /\ \A c, d \in current : c = d
  /\ current # {} => main \in {"admit", "register", "track", "submit"}
  /\ \A c \in Conns : /\ stage[c] = "accepted" => c \in current
                      /\ stage[c] \in {"away", "backlog"} => tracked[c] = "none"
  /\ \A c \in current : /\ stage[c] = "accepted" /\ fd[c] \in {"orig", "closed"}
                        /\ tracked[c] \in {"none", "orig"}
                        /\ main = "submit" => tracked[c] = "orig"

\* The running flag is never set again once cleanup() has cleared it.
StaysDown ==
  main \in {"close_gates", "close_listener", "snapshot", "close_sockets", "join", "down"} => ~running

\* The table names the object that owns the descriptor, except between
\* wrap_socket and replace_socket.
TableOwns ==
  /\ \A c \in Conns : /\ stage[c] \in Working => tracked[c] # "none"
                      /\ stage[c] = "abandoned" => fd[c] # "none"
  /\ \A c \in Conns : (stage[c] \in Working \cup {"abandoned"} /\ stage[c] # "replace")
                        => fd[c] \in {tracked[c], "closed"}
  /\ \A c \in Conns : stage[c] = "replace" => fd[c] \in {"wrapped", "closed"}

\* What cleanup() has not closed yet is in its copy of the table.
CopyCovers ==
  main = "close_sockets" =>
    \A c \in Conns : (stage[c] \in Working \cup {"abandoned"} /\ stage[c] # "replace" /\ fd[c] # "closed")
                       => <<c, fd[c]>> \in closing["main"]

\* The inductive invariant.
RuntimeInv == RuntimeTypes /\ InHand /\ StaysDown /\ TableOwns /\ CopyCovers /\ JoinUnblocked

\* The points between which a worker moves without touching a socket.
Moves == Working \ {"replace"}

LEMMA StepKeeps ==
  ASSUME RuntimeInv, NEW c \in Conns, NEW from \in Moves, NEW to \in Moves, Step(c, from, to)
  PROVE  RuntimeInv'
  <1> USE DEF RuntimeInv, Step, Goto, server, Moves
  <1>1. RuntimeTypes'
    BY DEF RuntimeTypes, Stages, Objects, Working
  <1>2. InHand'
    BY DEF RuntimeTypes, InHand, Working
  <1>3. StaysDown'
    BY DEF StaysDown
  <1>4. TableOwns'
    BY DEF RuntimeTypes, TableOwns
  <1>5. CopyCovers'
    BY DEF RuntimeTypes, CopyCovers
  <1>6. JoinUnblocked'
    BY DEF RuntimeTypes, JoinUnblocked, Live
  <1> QED
    BY <1>1, <1>2, <1>3, <1>4, <1>5, <1>6

LEMMA WrapKeeps ==
  ASSUME RuntimeInv, NEW c \in Conns, Wrap(c)
  PROVE  RuntimeInv'
  <1> USE DEF RuntimeInv, Wrap, Goto, server, Live
  <1>1. RuntimeTypes'
    BY DEF RuntimeTypes, Stages, Objects, Working
  <1>2. InHand'
    BY DEF RuntimeTypes, InHand
  <1>3. StaysDown'
    BY DEF StaysDown
  <1>4. TableOwns'
    BY DEF RuntimeTypes, TableOwns, Working
  <1>5. CopyCovers'
    BY DEF RuntimeTypes, CopyCovers
  <1>6. JoinUnblocked'
    BY DEF RuntimeTypes, JoinUnblocked
  <1> QED
    BY <1>1, <1>2, <1>3, <1>4, <1>5, <1>6

LEMMA ReplaceKeeps ==
  ASSUME RuntimeInv, NEW c \in Conns, ReplaceSocket(c)
  PROVE  RuntimeInv'
  <1> USE DEF RuntimeInv, ReplaceSocket, Goto, server
  <1>1. RuntimeTypes'
    BY DEF RuntimeTypes, Stages, Objects, Working
  <1>2. InHand'
    BY DEF RuntimeTypes, InHand
  <1>3. StaysDown'
    BY DEF StaysDown
  <1>4. TableOwns'
    BY DEF RuntimeTypes, TableOwns, Working
  <1>5. CopyCovers'
    BY DEF RuntimeTypes, CopyCovers, StaysDown
  <1>6. JoinUnblocked'
    BY DEF RuntimeTypes, JoinUnblocked, StaysDown, Live
  <1> QED
    BY <1>1, <1>2, <1>3, <1>4, <1>5, <1>6

\* Closing a worker's or a connection's descriptor, wherever it is.
LEMMA CloseSocketKeeps ==
  ASSUME RuntimeInv, NEW c \in Conns, CloseSocket(c)
  PROVE  RuntimeInv'
  <1> USE DEF RuntimeInv, CloseSocket, Goto, Shut, server
  <1>1. RuntimeTypes'
    BY DEF RuntimeTypes, Stages, Objects, Working
  <1>2. InHand'
    BY DEF RuntimeTypes, InHand
  <1>3. StaysDown'
    BY DEF StaysDown
  <1>4. TableOwns'
    BY DEF RuntimeTypes, TableOwns, Working
  <1>5. CopyCovers'
    BY DEF RuntimeTypes, CopyCovers
  <1>6. JoinUnblocked'
    BY DEF RuntimeTypes, JoinUnblocked, Live
  <1> QED
    BY <1>1, <1>2, <1>3, <1>4, <1>5, <1>6

LEMMA UntrackKeeps ==
  ASSUME RuntimeInv, NEW c \in Conns, Untrack(c)
  PROVE  RuntimeInv'
  <1> USE DEF RuntimeInv, Untrack, Goto, server
  <1>1. RuntimeTypes'
    BY DEF RuntimeTypes, Stages, Objects, Working
  <1>2. InHand'
    BY DEF RuntimeTypes, InHand
  <1>3. StaysDown'
    BY DEF StaysDown
  <1>4. TableOwns'
    BY DEF RuntimeTypes, TableOwns, Working
  <1>5. CopyCovers'
    BY DEF RuntimeTypes, CopyCovers, Working
  <1>6. JoinUnblocked'
    BY DEF RuntimeTypes, JoinUnblocked, Live, Working
  <1> QED
    BY <1>1, <1>2, <1>3, <1>4, <1>5, <1>6

\* A worker's step moves between points that touch no socket, or is one of four.
LEMMA WorkerStepKinds ==
  ASSUME NEW c \in Conns, WorkerStep(c) \/ Message(c) \/ SessionEnds(c)
  PROVE  \/ \E from \in Moves, to \in Moves : Step(c, from, to)
         \/ Wrap(c) \/ ReplaceSocket(c) \/ CloseSocket(c) \/ Untrack(c)
  <1> USE DEF Moves, Working
  <1>1. WorkerStarts(c) \/ TlsSlot(c) \/ Handshake(c) \/ HandshakeFails(c) \/ WhileRunning(c)
          => \E from \in Moves, to \in Moves : Step(c, from, to)
    BY DEF WorkerStarts, TlsSlot, Handshake, HandshakeFails, WhileRunning
  <1>2. Headers(c) \/ TransferSlot(c) \/ (\E n \in Sizes : ReserveBody(c, n)) \/ BodyReceived(c)
          \/ ReceiveFails(c) => \E from \in Moves, to \in Moves : Step(c, from, to)
    BY DEF Headers, TransferSlot, ReserveBody, BodyReceived, ReceiveFails
  <1>3. Route(c) \/ HandlerReturns(c) \/ Send(c) \/ Upgrade(c)
          => \E from \in Moves, to \in Moves : Step(c, from, to)
    BY DEF Route, HandlerReturns, Send, Upgrade
  <1>4. Message(c) \/ MessageHandled(c) \/ SessionEnds(c) \/ RequestEnds(c)
          => \E from \in Moves, to \in Moves : Step(c, from, to)
    BY DEF Message, MessageHandled, SessionEnds, RequestEnds
  <1> QED
    BY <1>1, <1>2, <1>3, <1>4 DEF WorkerStep

LEMMA WorkerKeeps ==
  ASSUME RuntimeInv, NEW c \in Conns, WorkerStep(c) \/ Message(c) \/ SessionEnds(c)
  PROVE  RuntimeInv'
  BY WorkerStepKinds, StepKeeps, WrapKeeps, ReplaceKeeps, CloseSocketKeeps, UntrackKeeps

\* What the accept loop does with the connection it has in hand.
LEMMA AcceptLoopKeeps ==
  ASSUME RuntimeInv, NEW c \in Conns
  PROVE  Accept(c) \/ AdmitConnection(c) \/ RejectOverloaded(c) \/ Track(c) \/ Submit(c)
           \/ SubmitFails(c) \/ CancelQueued(c) \/ Connect(c) => RuntimeInv'
  <1> USE DEF RuntimeInv, RuntimeTypes, Stages, Objects, Working, InHand, StaysDown, TableOwns,
              CopyCovers, JoinUnblocked, Live, At, MainTo, Goto, Shut, server
  <1>1. CASE Accept(c)
    BY <1>1 DEF Accept
  <1>2. CASE AdmitConnection(c)
    BY <1>2 DEF AdmitConnection
  <1>3. CASE RejectOverloaded(c)
    BY <1>3 DEF RejectOverloaded
  <1>4. CASE Track(c)
    BY <1>4 DEF Track
  <1>5. CASE Submit(c)
    BY <1>5 DEF Submit
  <1>6. CASE SubmitFails(c)
    BY <1>6 DEF SubmitFails
  <1>7. CASE CancelQueued(c)
    BY <1>7 DEF CancelQueued
  <1>8. CASE Connect(c)
    BY <1>8 DEF Connect
  <1> QED
    BY <1>1, <1>2, <1>3, <1>4, <1>5, <1>6, <1>7, <1>8

\* The other steps of start() and of cleanup().
LEMMA MainKeeps ==
  ASSUME RuntimeInv
  PROVE  MainStep \/ Interrupt => RuntimeInv'
  <1> USE DEF RuntimeInv, RuntimeTypes, Stages, Objects, Working, InHand, StaysDown, TableOwns,
              CopyCovers, JoinUnblocked, Live, At, MainTo
  <1>1. CASE SetupTls \/ CreateListener \/ Bind \/ SetRunning \/ LoopTest
    BY <1>1 DEF SetupTls, CreateListener, Bind, SetRunning, LoopTest
  <1>2. CASE AcceptFails \/ LockSockets \/ LockCleanup \/ MarkCleaned
    BY <1>2 DEF AcceptFails, LockSockets, LockCleanup, MarkCleaned
  <1>3. CASE CleanupGates \/ CleanupListener \/ CleanupClosed \/ Join
    BY <1>3 DEF CleanupGates, CleanupListener, CleanupClosed, Join
  <1>4. CASE CleanupSnapshot
    <2> HIDE DEF RuntimeInv, RuntimeTypes, InHand, StaysDown, TableOwns, CopyCovers, JoinUnblocked
    <2> USE <1>4 DEF CleanupSnapshot, Snapshot
    <2>1. RuntimeTypes' /\ StaysDown' /\ InHand' /\ JoinUnblocked'
      BY DEF RuntimeInv, RuntimeTypes, StaysDown, InHand, JoinUnblocked
    <2>2. TableOwns'
      BY DEF RuntimeInv, TableOwns
    <2>3. CopyCovers'
      <3>1. closing'["main"] = {<<c, tracked[c]>> : c \in {d \in Conns : tracked[d] # "none"}}
        BY DEF RuntimeInv, RuntimeTypes
      <3>2. \A c \in Conns : (stage[c] \in Working \cup {"abandoned"} /\ stage[c] # "replace"
                               /\ fd[c] # "closed") => fd[c] = tracked[c] /\ tracked[c] # "none"
        BY DEF RuntimeInv, TableOwns
      <3> QED
        BY <3>1, <3>2 DEF CopyCovers
    <2> QED
      BY <2>1, <2>2, <2>3 DEF RuntimeInv
  <1>5. CASE CleanupClose
    BY <1>5 DEF CleanupClose, CloseOne, server
  <1>6. CASE Interrupt
    BY <1>6 DEF Interrupt, Starting, Serving
  <1>7. CASE \E c \in Conns : Accept(c) \/ AdmitConnection(c) \/ RejectOverloaded(c) \/ Track(c)
                              \/ Submit(c) \/ SubmitFails(c) \/ CancelQueued(c)
    BY <1>7, AcceptLoopKeeps
  <1> QED
    BY <1>1, <1>2, <1>3, <1>4, <1>5, <1>6, <1>7 DEF MainStep

LEMMA StopKeeps ==
  ASSUME RuntimeInv
  PROVE  StopStep \/ StopCalled => RuntimeInv'
  <1> USE DEF RuntimeInv, RuntimeTypes, Stages, Objects, Working, InHand, StaysDown, TableOwns,
              CopyCovers, JoinUnblocked, Live, StopTo, server
  <1>1. CASE StopCalled \/ StopGates \/ StopListener
    BY <1>1 DEF StopCalled, StopGates, StopListener
  <1>2. CASE StopSnapshot
    BY <1>2 DEF StopSnapshot, Snapshot
  <1>3. CASE StopClose
    BY <1>3 DEF StopClose, CloseOne
  <1> QED
    BY <1>1, <1>2, <1>3 DEF StopStep

LEMMA RuntimeInit == Init => RuntimeInv
  BY DEF Init, RuntimeInv, RuntimeTypes, Stages, Objects, Working, InHand, StaysDown, TableOwns,
         CopyCovers, JoinUnblocked

LEMMA RuntimeStep == RuntimeInv /\ [Next]_vars => RuntimeInv'
  <1> SUFFICES ASSUME RuntimeInv, [Next]_vars PROVE RuntimeInv'
    OBVIOUS
  <1>1. CASE UNCHANGED vars
    BY <1>1 DEF vars, server, RuntimeInv, RuntimeTypes, InHand, StaysDown, TableOwns, CopyCovers,
                JoinUnblocked, Live
  <1> QED
    BY <1>1, MainKeeps, StopKeeps, WorkerKeeps, AcceptLoopKeeps DEF Next

(***************************************************************************)
(* When cleanup() waits for the workers, every descriptor is closed or     *)
(* about to be closed by its own worker, also those that TLS moved to a    *)
(* new object while the table was being closed.                            *)
(***************************************************************************)
THEOREM RuntimeJoinUnblocked == Spec => []JoinUnblocked
  <1>1. RuntimeInv => JoinUnblocked
    BY DEF RuntimeInv
  <1> QED
    BY <1>1, RuntimeInit, RuntimeStep, PTL DEF Spec
-----------------------------------------------------------------------------
(***************************************************************************)
(* What a connection may hold follows from where it is.                    *)
(***************************************************************************)
Allowed(s) ==
  CASE s \in {"away", "backlog", "gone"} -> {}
    [] s \in {"wrap", "replace", "handshake"} -> {"conn", "tls"}
    [] s \in {"reserve", "body", "route", "send", "keep", "drop"} -> {"conn", "transfer"}
    [] s = "handler" -> {"conn", "transfer", "dispatch"}
    [] s = "ws" -> {"conn", "ws"}
    [] s = "ws_handler" -> {"conn", "ws", "dispatch"}
    [] s \in {"queued", "tls", "next", "recv", "transfer", "close", "untrack", "accepted",
              "abandoned"} -> {"conn"}

Bodies == {"body", "route", "handler", "send", "ws", "ws_handler", "keep", "drop"}

Holders(g) == {c \in Conns : g \in lease[c]}

ResourceTypes ==
  /\ config \in Configs /\ used \in [Gates -> Nat] /\ lease \in [Conns -> SUBSET Gates]
  /\ body \in [Conns -> Nat] /\ bodyBytes \in Nat

SlotsCounted == \A g \in Gates : used[g] = Cardinality(Holders(g)) /\ used[g] <= config.limit[g]

BytesCounted == bodyBytes = SumFunctionOnSet(body, Conns) /\ bodyBytes <= config.budget

HeldWhere ==
  \A c \in Conns : /\ lease[c] \subseteq Allowed(stage[c])
                   /\ (c \in current /\ main = "admit") => lease[c] = {}
                   /\ stage[c] \notin Bodies => body[c] = 0

\* A connection that has ended is closed and off the table, and the one in the
\* accept loop's hands is not on it yet.
EndedClean ==
  \A c \in Conns :
    /\ stage[c] \in {"untrack", "gone"} => fd[c] = "closed"
    /\ stage[c] = "gone" => tracked[c] = "none"
    /\ (c \in current /\ main \in {"admit", "register", "track"}) => tracked[c] = "none"

DownDone ==
  main = "down" =>
    \A c \in Conns : stage[c] \notin Working /\ (stage[c] = "abandoned" => fd[c] = "closed")

Accounts == ResourceTypes /\ SlotsCounted /\ BytesCounted

\* The inductive invariant of ResourcesReturned.
ResourceInv == RuntimeInv /\ Accounts /\ HeldWhere /\ EndedClean /\ DownDone

\* What a step does to the accounts when it concerns connection c only.
Booked(c) ==
  /\ Accounts'
  /\ \A d \in Conns \ {c} : lease'[d] = lease[d] /\ body'[d] = body[d]

LEMMA Held ==
  ASSUME NEW S \in SUBSET Conns
  PROVE  IsFiniteSet(S) /\ Cardinality(S) \in Nat
  BY RuntimeAssumption, FS_Subset, FS_CardinalityType

LEMMA KeepBooked ==
  ASSUME Accounts, NEW c, UNCHANGED <<config, resources>>
  PROVE  Booked(c) /\ lease' = lease /\ body' = body
  BY DEF Accounts, ResourceTypes, SlotsCounted, BytesCounted, Holders, resources, Booked

LEMMA TakeBooked ==
  ASSUME Accounts, NEW c \in Conns, NEW g \in Gates, g \notin lease[c],
         used[g] < config.limit[g], Take(c, g), KeepBody, config' = config
  PROVE  Booked(c) /\ lease'[c] = lease[c] \cup {g} /\ body' = body
  <1> USE DEF Accounts, ResourceTypes
  <1>1. /\ lease' = [lease EXCEPT ![c] = @ \cup {g}] /\ used' = [used EXCEPT ![g] = @ + 1]
        /\ body' = body /\ bodyBytes' = bodyBytes
    BY DEF Take, KeepBody
  <1>2. ResourceTypes'
    BY <1>1
  <1>3. BytesCounted'
    BY <1>1 DEF BytesCounted
  <1>4. ASSUME NEW h \in Gates
        PROVE  used'[h] = Cardinality(Holders(h)') /\ used'[h] <= config'.limit[h]
    <2>1. Holders(h)' = IF h = g THEN Holders(h) \cup {c} ELSE Holders(h)
      BY <1>1 DEF Holders
    <2>2. Cardinality(Holders(h) \cup {c}) = Cardinality(Holders(h)) + 1 \/ h # g
      BY Held, FS_AddElement DEF Holders
    <2>3. /\ used[h] = Cardinality(Holders(h)) /\ used[h] <= config.limit[h] /\ used[h] \in Nat
          /\ config.limit[h] \in Nat
      BY RuntimeAssumption DEF SlotsCounted
    <2>4. used'[h] = IF h = g THEN used[h] + 1 ELSE used[h]
      BY <1>1
    <2> QED
      BY <2>1, <2>2, <2>3, <2>4
  <1> QED
    BY <1>1, <1>2, <1>3, <1>4 DEF Booked, SlotsCounted

LEMMA GiveBackSlots ==
  ASSUME Accounts, NEW c \in Conns, NEW gs \in SUBSET Gates, GiveBack(c, gs), config' = config
  PROVE  /\ SlotsCounted' /\ used' \in [Gates -> Nat] /\ lease' \in [Conns -> SUBSET Gates]
         /\ lease'[c] = lease[c] \ gs /\ \A d \in Conns \ {c} : lease'[d] = lease[d]
  <1> USE DEF Accounts, ResourceTypes
  <1>1. /\ lease' = [lease EXCEPT ![c] = @ \ gs]
        /\ used' = [g \in Gates |-> IF g \in gs \cap lease[c] THEN used[g] - 1 ELSE used[g]]
    BY DEF GiveBack
  <1>2. ASSUME NEW h \in Gates
        PROVE  /\ used'[h] = Cardinality(Holders(h)') /\ used'[h] <= config'.limit[h]
               /\ used'[h] \in Nat
    <2>1. Holders(h)' = IF h \in gs \cap lease[c] THEN Holders(h) \ {c} ELSE Holders(h)
      BY <1>1 DEF Holders
    <2>2. h \in gs \cap lease[c] => Cardinality(Holders(h) \ {c}) = Cardinality(Holders(h)) - 1
      BY Held, FS_RemoveElement DEF Holders
    <2>3. /\ used[h] = Cardinality(Holders(h)) /\ used[h] <= config.limit[h] /\ used[h] \in Nat
          /\ config.limit[h] \in Nat
      BY RuntimeAssumption DEF SlotsCounted
    <2>4. used'[h] = IF h \in gs \cap lease[c] THEN used[h] - 1 ELSE used[h]
      BY <1>1
    <2>5. Cardinality(Holders(h) \ {c}) \in Nat
      BY Held DEF Holders
    <2> QED
      BY <2>1, <2>2, <2>3, <2>4, <2>5
  <1>3. \A g \in Gates : used'[g] \in Nat
    BY <1>2
  <1> QED
    BY <1>1, <1>2, <1>3 DEF SlotsCounted

LEMMA BytesChange ==
  ASSUME NEW c \in Conns, NEW b \in [Conns -> Nat], NEW e \in [Conns -> Nat],
         \A d \in Conns \ {c} : e[d] = b[d]
  PROVE  SumFunctionOnSet(e, Conns) = SumFunctionOnSet(b, Conns) - b[c] + e[c]
  <1>1. IsFiniteSet(Conns) /\ \A x \in Conns : b[x] \in Int /\ e[x] \in Int
    BY RuntimeAssumption
  <1>2. \A x \in Conns \ {c} : b[x] = e[x]
    OBVIOUS
  <1> QED
    BY <1>1, <1>2, SumUpdate

\* Replacing what c has of the budget.
LEMMA BytesBooked ==
  ASSUME Accounts, NEW c \in Conns, NEW n \in Nat, body' = [body EXCEPT ![c] = n],
         bodyBytes' = bodyBytes - body[c] + n, bodyBytes' <= config'.budget
  PROVE  BytesCounted' /\ bodyBytes' \in Nat /\ body' \in [Conns -> Nat]
  <1>0. body \in [Conns -> Nat] /\ IsFiniteSet(Conns)
    BY RuntimeAssumption DEF Accounts, ResourceTypes
  <1>1. body' \in [Conns -> Nat] /\ body'[c] = n /\ \A d \in Conns \ {c} : body'[d] = body[d]
    BY <1>0
  <1>2. SumFunctionOnSet(body', Conns) = SumFunctionOnSet(body, Conns) - body[c] + body'[c]
    BY <1>0, <1>1, BytesChange
  <1> USE DEF Accounts, ResourceTypes, BytesCounted
  <1>3. body[c] <= SumFunctionOnSet(body, Conns)
    <2>1. SumFunctionOnSet(body, Conns) = body[c] + SumFunctionOnSet(body, Conns \ {c})
      BY RuntimeAssumption, SumRemove
    <2>2. SumFunctionOnSet(body, Conns \ {c}) \in Nat
      BY RuntimeAssumption, SumMonotone
    <2> QED
      BY <2>1, <2>2
  <1> QED
    BY <1>1, <1>2, <1>3

LEMMA GiveBackBooked ==
  ASSUME Accounts, NEW c \in Conns, NEW gs \in SUBSET Gates, GiveBack(c, gs), config' = config,
         KeepBody \/ GiveBackBody(c)
  PROVE  /\ Booked(c) /\ lease'[c] = lease[c] \ gs
         /\ GiveBackBody(c) => body'[c] = 0
         /\ KeepBody => body' = body
  <1>1. /\ SlotsCounted' /\ used' \in [Gates -> Nat] /\ lease' \in [Conns -> SUBSET Gates]
        /\ lease'[c] = lease[c] \ gs /\ \A d \in Conns \ {c} : lease'[d] = lease[d]
    BY GiveBackSlots
  <1>2. BytesCounted' /\ bodyBytes' \in Nat /\ body' \in [Conns -> Nat]
    <2>1. CASE KeepBody
      BY <2>1 DEF KeepBody, Accounts, ResourceTypes, BytesCounted
    <2>2. CASE GiveBackBody(c)
      <3>1. config.budget \in Nat /\ body[c] \in Nat /\ bodyBytes \in Nat
        BY RuntimeAssumption DEF Accounts, ResourceTypes
      <3>2. body' = [body EXCEPT ![c] = 0] /\ bodyBytes' = bodyBytes - body[c] + 0
        BY <2>2, <3>1 DEF GiveBackBody
      <3>3. bodyBytes' <= config'.budget
        BY <3>1, <3>2 DEF Accounts, BytesCounted
      <3> QED
        BY <3>2, <3>3, BytesBooked
    <2> QED
      BY <2>1, <2>2
  <1> QED
    BY <1>1, <1>2 DEF Booked, Accounts, ResourceTypes, KeepBody, GiveBackBody
-----------------------------------------------------------------------------
\* The workers.

Turns == Moves \ {"untrack"}

LEMMA TurnKeeps ==
  ASSUME ResourceInv, RuntimeInv', NEW c \in Conns, NEW from \in Moves, NEW to \in Turns,
         Step(c, from, to), Booked(c), lease'[c] \subseteq Allowed(to),
         to \notin Bodies => body'[c] = 0
  PROVE  ResourceInv'
  <1>1. /\ stage[c] = from /\ stage' = [stage EXCEPT ![c] = to] /\ stage \in [Conns -> Stages]
        /\ UNCHANGED <<main, current, fd, tracked>> /\ c \notin current
    BY DEF Step, Goto, server, ResourceInv, RuntimeInv, RuntimeTypes, InHand, Moves, Working
  <1>2. \A d \in Conns : stage'[d] = IF d = c THEN to ELSE stage[d]
    BY <1>1
  <1>3. HeldWhere'
    BY <1>1, <1>2 DEF ResourceInv, HeldWhere, Booked
  <1>4. EndedClean'
    BY <1>1, <1>2 DEF ResourceInv, EndedClean, Turns, Moves, Working
  <1>5. DownDone'
    BY <1>1, <1>2 DEF ResourceInv, DownDone, Turns, Moves
  <1> QED
    BY <1>3, <1>4, <1>5 DEF ResourceInv, Booked

\* The points of a worker where it holds what its step gives back or keeps.
LEMMA WorkerTurns ==
  ASSUME ResourceInv, RuntimeInv', NEW c \in Conns,
         WorkerStep(c) \/ Message(c) \/ SessionEnds(c)
  PROVE  \/ ResourceInv'
         \/ Wrap(c) \/ ReplaceSocket(c) \/ CloseSocket(c) \/ Untrack(c)
  <1> DEFINE Turned(from, to) == /\ Step(c, from, to) /\ Booked(c) /\ lease'[c] \subseteq Allowed(to)
                                 /\ to \notin Bodies => body'[c] = 0
  <1>0. ASSUME NEW from \in Moves, NEW to \in Turns, Turned(from, to)
        PROVE  ResourceInv'
    BY <1>0, TurnKeeps
  <1>a. Accounts /\ lease[c] \in SUBSET Gates /\ lease[c] \subseteq Allowed(stage[c])
        /\ (stage[c] \notin Bodies => body[c] = 0)
    BY DEF ResourceInv, Accounts, ResourceTypes, HeldWhere
  <1>b. ASSUME NEW from, NEW to, Step(c, from, to)
        PROVE  stage[c] = from /\ config' = config
    BY <1>b DEF Step
  <1> USE DEF Turns, Moves, Working, Allowed, Bodies, Gates
  <1>1. ASSUME NEW from, NEW to, Step(c, from, to), UNCHANGED resources,
               lease[c] \subseteq Allowed(to), to \notin Bodies => from \notin Bodies
        PROVE  Turned(from, to)
    <2> HIDE DEF Turns, Moves, Working, Allowed, Bodies, Gates
    <2> QED
      BY <1>a, <1>b, <1>1, KeepBooked
  <1>2. ASSUME NEW from, NEW to, Step(c, from, to), NEW g \in Gates, Take(c, g), KeepBody,
               used[g] < config.limit[g], g \notin lease[c], lease[c] \cup {g} \subseteq Allowed(to),
               to \notin Bodies => from \notin Bodies
        PROVE  Turned(from, to)
    <2> HIDE DEF Turns, Moves, Working, Allowed, Bodies, Gates
    <2> QED
      BY <1>a, <1>b, <1>2, TakeBooked
  <1>3. ASSUME NEW from, NEW to, Step(c, from, to), NEW gs \in SUBSET Gates, GiveBack(c, gs),
               KeepBody \/ GiveBackBody(c), lease[c] \ gs \subseteq Allowed(to),
               to \notin Bodies => from \notin Bodies \/ GiveBackBody(c)
        PROVE  Turned(from, to)
    <2> HIDE DEF Turns, Moves, Working, Allowed, Bodies, Gates
    <2> QED
      BY <1>a, <1>b, <1>3, GiveBackBooked
  <1> HIDE DEF Turned
  <1>4. CASE WorkerStarts(c) \/ WhileRunning(c)
    BY <1>0, <1>1, <1>4, <1>a, <1>b DEF WorkerStarts, WhileRunning
  <1>5. CASE TlsSlot(c)
    <2>1. CASE Free("tls") /\ Step(c, "tls", "wrap") /\ Take(c, "tls") /\ KeepBody
      BY <1>0, <1>2, <1>a, <1>b, <2>1 DEF Free
    <2>2. CASE Step(c, "tls", "close") /\ UNCHANGED resources
      BY <1>0, <1>1, <1>a, <1>b, <2>2
    <2> QED
      BY <1>5, <2>1, <2>2 DEF TlsSlot
  <1>6. CASE Handshake(c) \/ HandshakeFails(c)
    <2>1. CASE Step(c, "handshake", "next") /\ GiveBack(c, {"tls"}) /\ KeepBody
      BY <1>0, <1>3, <1>a, <1>b, <2>1
    <2>2. CASE \E s \in {"wrap", "handshake"} :
                 Step(c, s, "close") /\ GiveBack(c, {"tls"}) /\ KeepBody
      BY <1>0, <1>3, <1>a, <1>b, <2>2
    <2> QED
      BY <1>6, <2>1, <2>2 DEF Handshake, HandshakeFails
  <1>7. CASE Headers(c) \/ BodyReceived(c)
    <2>1. CASE \E s \in {"reserve", "transfer", "drop", "route"} :
                 Step(c, "recv", s) /\ UNCHANGED resources
      BY <1>0, <1>1, <1>a, <1>b, <2>1
    <2>2. CASE Step(c, "body", "route") /\ UNCHANGED resources
      BY <1>0, <1>1, <1>a, <1>b, <2>2
    <2> QED
      BY <1>7, <2>1, <2>2 DEF Headers, BodyReceived
  <1>8. CASE TransferSlot(c)
    <2>1. CASE Free("transfer") /\ Step(c, "transfer", "reserve") /\ Take(c, "transfer") /\ KeepBody
      BY <1>0, <1>2, <1>a, <1>b, <2>1 DEF Free
    <2>2. CASE Step(c, "transfer", "drop") /\ UNCHANGED resources
      BY <1>0, <1>1, <1>a, <1>b, <2>2
    <2> QED
      BY <1>8, <2>1, <2>2 DEF TransferSlot
  <1>9. ASSUME NEW n \in Sizes, ReserveBody(c, n)
        PROVE  ResourceInv'
    <2>1. CASE /\ Fits(n) /\ Step(c, "reserve", "body") /\ bodyBytes' = bodyBytes + n
               /\ body' = [body EXCEPT ![c] = n] /\ UNCHANGED <<used, lease>>
      <3>1. body[c] = 0 /\ n \in Nat /\ bodyBytes \in Nat /\ stage[c] = "reserve" /\ config' = config
        BY <1>a, <1>b, <2>1, RuntimeAssumption DEF Accounts, ResourceTypes
      <3>2. bodyBytes' = bodyBytes - body[c] + n /\ bodyBytes' <= config'.budget
        BY <2>1, <3>1 DEF Fits
      <3>3. BytesCounted' /\ bodyBytes' \in Nat /\ body' \in [Conns -> Nat]
        BY <1>a, <2>1, <3>1, <3>2, BytesBooked
      <3>4. Booked(c)
        <4> HIDE DEF Turns, Moves, Working, Allowed, Bodies, Gates
        <4> QED
          BY <1>a, <2>1, <3>1, <3>3
             DEF Booked, Accounts, ResourceTypes, SlotsCounted, Holders
      <3> QED
        BY <1>0, <1>a, <2>1, <3>1, <3>4 DEF Turned
    <2>2. CASE Step(c, "reserve", "drop") /\ UNCHANGED resources
      BY <1>0, <1>1, <1>a, <1>b, <2>2
    <2> QED
      BY <1>9, <2>1, <2>2 DEF ReserveBody
  <1>10. CASE ReceiveFails(c)
    <2>1. GiveBackBody(c) /\ GiveBack(c, {}) /\ \E s \in {"recv", "body"} : Step(c, s, "drop")
      BY <1>a, <1>10 DEF ReceiveFails, GiveBack, Accounts, ResourceTypes
    <2> QED
      BY <1>0, <1>3, <1>a, <1>b, <2>1
  <1>11. CASE Route(c) \/ Upgrade(c)
    <2>1. CASE (Step(c, "route", "drop") \/ Step(c, "route", "handler") \/ Step(c, "route", "send"))
               /\ UNCHANGED resources
      BY <1>0, <1>1, <1>a, <1>b, <2>1
    <2>2. CASE /\ Free("dispatch") /\ Step(c, "route", "handler")
               /\ Take(c, "dispatch") /\ KeepBody
      BY <1>0, <1>2, <1>a, <1>b, <2>2 DEF Free
    <2>3. CASE Upgrade(c)
      BY <1>0, <1>2, <1>a, <1>b, <2>3 DEF Upgrade
    <2> QED
      BY <1>11, <2>1, <2>2, <2>3 DEF Route
  <1>12. CASE HandlerReturns(c)
    <2>1. /\ GiveBack(c, {"dispatch"}) /\ KeepBody
          /\ Step(c, "handler", "send") \/ Step(c, "handler", "drop")
      BY <1>12 DEF HandlerReturns
    <2> QED
      BY <1>0, <1>3, <1>a, <1>b, <2>1
  <1>13. CASE Send(c)
    <2>1. UNCHANGED resources /\ (Step(c, "send", "drop") \/ Step(c, "send", "keep"))
      BY <1>13 DEF Send
    <2> QED
      BY <1>0, <1>1, <1>a, <1>b, <2>1
  <1>14. CASE Message(c)
    BY <1>0, <1>2, <1>a, <1>b, <1>14 DEF Message, Free
  <1>15. CASE MessageHandled(c)
    <2>1. CASE Step(c, "ws_handler", "ws") /\ GiveBack(c, {"dispatch"}) /\ KeepBody
      BY <1>0, <1>3, <1>a, <1>b, <2>1
    <2>2. CASE Step(c, "ws_handler", "drop") /\ GiveBack(c, {"dispatch", "ws"}) /\ KeepBody
      BY <1>0, <1>3, <1>a, <1>b, <2>2
    <2> QED
      BY <1>15, <2>1, <2>2 DEF MessageHandled
  <1>16. CASE SessionEnds(c)
    BY <1>0, <1>3, <1>a, <1>b, <1>16 DEF SessionEnds
  <1>17. CASE RequestEnds(c)
    <2>1. CASE Step(c, "keep", "next") /\ GiveBack(c, {"transfer"}) /\ GiveBackBody(c)
      BY <1>0, <1>3, <1>a, <1>b, <2>1
    <2>2. CASE Step(c, "drop", "close") /\ GiveBack(c, {"transfer"}) /\ GiveBackBody(c)
      BY <1>0, <1>3, <1>a, <1>b, <2>2
    <2> QED
      BY <1>17, <2>1, <2>2 DEF RequestEnds
  <1> QED
    BY <1>4, <1>5, <1>6, <1>7, <1>8, <1>9, <1>10, <1>11, <1>12, <1>13, <1>14, <1>15, <1>16, <1>17
       DEF WorkerStep

\* The four steps of a worker on its socket.
LEMMA SocketTurns ==
  ASSUME ResourceInv, RuntimeInv', NEW c \in Conns,
         Wrap(c) \/ ReplaceSocket(c) \/ CloseSocket(c) \/ Untrack(c)
  PROVE  ResourceInv'
  <1>a. /\ stage \in [Conns -> Stages] /\ fd \in [Conns -> Objects] /\ tracked \in [Conns -> Objects]
        /\ (c \notin current \/ stage[c] = "accepted")
    BY DEF ResourceInv, RuntimeInv, RuntimeTypes, InHand
  <1>b. Accounts
    BY DEF ResourceInv
  <1>1. CASE Wrap(c) \/ ReplaceSocket(c) \/ CloseSocket(c)
    <2>1. UNCHANGED <<config, resources, main, current>>
      BY <1>1 DEF Wrap, ReplaceSocket, CloseSocket, server
    <2>2. Booked(c) /\ lease' = lease /\ body' = body
      BY <1>b, <2>1, KeepBooked
    <2>3. HeldWhere'
      <3>1. PICK to : stage' = [stage EXCEPT ![c] = to] /\ Allowed(stage[c]) = Allowed(to)
                      /\ stage[c] \notin Bodies
        BY <1>1 DEF Wrap, ReplaceSocket, CloseSocket, Goto, Allowed, Bodies
      <3>2. \A d \in Conns : stage'[d] = IF d = c THEN to ELSE stage[d]
        BY <1>a, <3>1
      <3> QED
        BY <2>1, <2>2, <3>1, <3>2 DEF ResourceInv, HeldWhere
    <2>4. EndedClean'
      BY <1>1, <1>a, <2>1
         DEF Wrap, ReplaceSocket, CloseSocket, Goto, Shut, ResourceInv, EndedClean
    <2>5. DownDone'
      BY <1>1, <1>a, <2>1
         DEF Wrap, ReplaceSocket, CloseSocket, Goto, Shut, ResourceInv, DownDone, Working
    <2> QED
      BY <2>2, <2>3, <2>4, <2>5 DEF ResourceInv, Booked
  <1>2. CASE Untrack(c)
    <2>1. /\ stage[c] = "untrack" /\ tracked' = [tracked EXCEPT ![c] = "none"]
          /\ GiveBack(c, {"conn"}) /\ KeepBody /\ stage' = [stage EXCEPT ![c] = "gone"]
          /\ UNCHANGED <<config, main, current, fd>>
      BY <1>2 DEF Untrack, Goto, server
    <2>2. Booked(c) /\ lease'[c] = lease[c] \ {"conn"} /\ body' = body
      <3>1. {"conn"} \in SUBSET Gates
        BY DEF Gates
      <3> QED
        BY <1>b, <2>1, <3>1, GiveBackBooked
    <2>3. HeldWhere'
      BY <1>a, <2>1, <2>2 DEF ResourceInv, HeldWhere, Allowed, Bodies, Booked
    <2>4. EndedClean'
      BY <1>a, <2>1 DEF ResourceInv, EndedClean
    <2>5. DownDone'
      BY <1>a, <2>1 DEF ResourceInv, DownDone, Working
    <2> QED
      BY <2>2, <2>3, <2>4, <2>5 DEF ResourceInv, Booked
  <1> QED
    BY <1>1, <1>2
-----------------------------------------------------------------------------
\* The main thread and stop().

\* What the accept loop takes for the connection in hand, it gives back or
\* passes to the worker.
LEMMA AcceptLoopReturns ==
  ASSUME ResourceInv, RuntimeInv', NEW c \in Conns,
         \/ Accept(c) \/ AdmitConnection(c) \/ RejectOverloaded(c) \/ Track(c) \/ Submit(c)
         \/ SubmitFails(c) \/ CancelQueued(c) \/ Connect(c)
  PROVE  ResourceInv'
  <1>a. /\ stage \in [Conns -> Stages] /\ fd \in [Conns -> Objects] /\ tracked \in [Conns -> Objects]
        /\ Accounts /\ InHand /\ HeldWhere /\ EndedClean
    BY DEF ResourceInv, RuntimeInv, RuntimeTypes
  <1>b. c \in current => \A d \in current : stage[d] = "accepted" /\ d = c
    BY <1>a DEF InHand
  <1>1. CASE Accept(c) \/ RejectOverloaded(c) \/ Track(c) \/ Submit(c) \/ Connect(c)
    <2>1. /\ UNCHANGED <<config, resources>>
          /\ \/ main' # "down" /\ main # "down"
             \/ Connect(c) /\ UNCHANGED <<main, fd>>
      BY <1>1 DEF Accept, RejectOverloaded, Track, Submit, Connect, At, MainTo, server
    <2>2. Booked(c) /\ lease' = lease /\ body' = body
      BY <1>a, <2>1, KeepBooked
    <2>3. HeldWhere'
      <3>1. CASE Accept(c)
        BY <1>a, <2>2, <3>1 DEF Accept, HeldWhere, Goto, Allowed, Bodies
      <3>2. CASE RejectOverloaded(c)
        BY <1>a, <1>b, <2>2, <3>2 DEF RejectOverloaded, HeldWhere, Goto, Allowed, Bodies, At, MainTo
      <3>3. CASE Track(c)
        BY <1>a, <2>2, <3>3 DEF Track, HeldWhere, MainTo
      <3>4. CASE Submit(c)
        BY <1>a, <1>b, <2>2, <3>4 DEF Submit, HeldWhere, Goto, Allowed, Bodies, At, MainTo
      <3>5. CASE Connect(c)
        BY <1>a, <2>2, <3>5 DEF Connect, HeldWhere, Goto, Allowed, Bodies, server
      <3> QED
        BY <1>1, <3>1, <3>2, <3>3, <3>4, <3>5
    <2>4. EndedClean'
      <3>1. CASE Accept(c)
        BY <1>a, <3>1 DEF Accept, EndedClean, InHand, Goto, MainTo
      <3>2. CASE RejectOverloaded(c)
        BY <1>a, <1>b, <3>2 DEF RejectOverloaded, EndedClean, Goto, Shut, At, MainTo
      <3>3. CASE Track(c)
        BY <1>a, <1>b, <3>3 DEF Track, EndedClean, MainTo
      <3>4. CASE Submit(c)
        BY <1>a, <1>b, <3>4 DEF Submit, EndedClean, Goto, At, MainTo
      <3>5. CASE Connect(c)
        BY <1>a, <3>5 DEF Connect, EndedClean, Goto, server
      <3> QED
        BY <1>1, <3>1, <3>2, <3>3, <3>4, <3>5
    <2>5. DownDone'
      BY <1>a, <2>1 DEF ResourceInv, DownDone, Connect, Goto, Working
    <2> QED
      BY <2>2, <2>3, <2>4, <2>5 DEF ResourceInv, Booked
  <1>2. CASE AdmitConnection(c)
    <2>1. /\ main = "admit" /\ main' = "register" /\ c \in current /\ used["conn"] < config.limit["conn"]
          /\ Take(c, "conn") /\ KeepBody /\ UNCHANGED <<config, current, stage, fd, tracked>>
      BY <1>2 DEF AdmitConnection, Free, At, MainTo
    <2>2. lease[c] = {} /\ stage[c] = "accepted" /\ "conn" \in Gates
      BY <1>a, <2>1 DEF HeldWhere, InHand, Gates
    <2>3. Booked(c) /\ lease'[c] = lease[c] \cup {"conn"} /\ body' = body
      BY <1>a, <2>1, <2>2, TakeBooked
    <2>4. HeldWhere'
      BY <1>a, <2>1, <2>2, <2>3 DEF HeldWhere, Allowed, Booked
    <2>5. EndedClean' /\ DownDone'
      BY <1>a, <2>1 DEF EndedClean, DownDone
    <2> QED
      BY <2>3, <2>4, <2>5 DEF ResourceInv, Booked
  <1>3. CASE SubmitFails(c) \/ CancelQueued(c)
    <2>1. /\ GiveBack(c, {"conn"}) /\ KeepBody /\ config' = config
          /\ stage' = [stage EXCEPT ![c] = "gone"] /\ fd' = [fd EXCEPT ![c] = "closed"]
          /\ tracked' = [tracked EXCEPT ![c] = "none"]
          /\ main' \notin {"admit", "register", "track", "down"}
          /\ stage[c] \in {"accepted", "queued"}
      BY <1>3, <1>a DEF SubmitFails, CancelQueued, Goto, Shut, At, MainTo, server, InHand
    <2>2. Booked(c) /\ lease'[c] = lease[c] \ {"conn"} /\ body' = body
      <3>1. {"conn"} \in SUBSET Gates
        BY DEF Gates
      <3> QED
        BY <1>a, <2>1, <3>1, GiveBackBooked
    <2>3. HeldWhere'
      BY <1>a, <2>1, <2>2 DEF HeldWhere, Allowed, Bodies, Booked
    <2>4. EndedClean' /\ DownDone'
      BY <1>a, <2>1 DEF EndedClean, DownDone
    <2> QED
      BY <2>2, <2>3, <2>4 DEF ResourceInv, Booked
  <1> QED
    BY <1>1, <1>2, <1>3

\* Steps that leave every connection where it is, but may close descriptors.
LEMMA StayReturns ==
  ASSUME ResourceInv, RuntimeInv', UNCHANGED <<config, resources, stage, tracked, current>>,
         \A d \in Conns : fd'[d] \in {fd[d], "closed"},
         \/ main' = main
         \/ main' \notin {"admit", "register", "track", "down"}
         \/ main = "register" /\ main' = "track"
  PROVE  ResourceInv'
  <1>1. Accounts' /\ lease' = lease /\ body' = body
    BY KeepBooked DEF ResourceInv, Booked
  <1>2. HeldWhere'
    BY <1>1 DEF ResourceInv, HeldWhere
  <1>3. EndedClean'
    BY DEF ResourceInv, EndedClean
  <1>4. DownDone'
    BY DEF ResourceInv, DownDone
  <1> QED
    BY <1>1, <1>2, <1>3, <1>4 DEF ResourceInv

LEMMA MainReturns ==
  ASSUME ResourceInv, RuntimeInv', MainStep \/ Interrupt
  PROVE  ResourceInv'
  <1>0. fd \in [Conns -> Objects] /\ RuntimeInv
    BY DEF ResourceInv, RuntimeInv, RuntimeTypes
  <1> USE DEF At, MainTo, server
  <1>1. CASE SetupTls \/ CreateListener \/ Bind \/ SetRunning \/ LoopTest \/ AcceptFails
    <2>1. /\ UNCHANGED <<config, resources, stage, tracked, current, fd>>
          /\ main' \notin {"admit", "register", "track", "down"}
      BY <1>1 DEF SetupTls, CreateListener, Bind, SetRunning, LoopTest, AcceptFails
    <2> QED
      BY <2>1, StayReturns
  <1>2. CASE LockSockets \/ LockCleanup \/ MarkCleaned \/ CleanupGates \/ CleanupListener
             \/ CleanupSnapshot \/ CleanupClosed
    <2>1. /\ UNCHANGED <<config, resources, stage, tracked, current, fd>>
          /\ \/ main' \notin {"admit", "register", "track", "down"}
             \/ main = "register" /\ main' = "track"
      BY <1>2 DEF LockSockets, LockCleanup, MarkCleaned, CleanupGates, CleanupListener,
                  CleanupSnapshot, CleanupClosed
    <2> QED
      BY <2>1, StayReturns
  <1>3. CASE CleanupClose
    <2>1. /\ UNCHANGED <<config, resources, stage, tracked, current, main>>
          /\ \A d \in Conns : fd'[d] \in {fd[d], "closed"}
      BY <1>0, <1>3 DEF CleanupClose, CloseOne
    <2> QED
      BY <2>1, StayReturns
  <1>4. CASE Join
    <2>1. /\ UNCHANGED <<config, resources, stage, tracked, current, fd>>
          /\ main = "join" /\ main' = "down" /\ \A c \in Conns : stage[c] \notin Working
      BY <1>4 DEF Join
    <2>2. Accounts' /\ lease' = lease /\ body' = body
      BY <2>1, KeepBooked DEF ResourceInv, Booked
    <2>3. HeldWhere' /\ EndedClean'
      BY <2>1, <2>2 DEF ResourceInv, HeldWhere, EndedClean
    <2>4. DownDone'
      BY <1>0, <2>1 DEF RuntimeInv, JoinUnblocked, Live, DownDone, Working
    <2> QED
      BY <2>2, <2>3, <2>4 DEF ResourceInv
  <1>5. CASE Interrupt
    <2>1. /\ UNCHANGED <<config, resources, tracked>> /\ current' = {} /\ main' = "mark"
          /\ fd' = [c \in Conns |-> IF c \in current /\ tracked[c] = "none" THEN "closed" ELSE fd[c]]
          /\ stage' = [c \in Conns |-> IF c \in current THEN "abandoned" ELSE stage[c]]
      BY <1>5 DEF Interrupt
    <2>2. \A c \in current : stage[c] = "accepted"
      BY <1>0 DEF RuntimeInv, InHand
    <2>3. Accounts' /\ lease' = lease /\ body' = body
      BY <2>1, KeepBooked DEF ResourceInv, Booked
    <2>4. HeldWhere'
      <3>1. Allowed("abandoned") = Allowed("accepted") /\ "accepted" \notin Bodies
        BY DEF Allowed, Bodies
      <3> QED
        BY <2>1, <2>2, <2>3, <3>1 DEF ResourceInv, HeldWhere
    <2>5. EndedClean' /\ DownDone'
      BY <2>1, <2>2 DEF ResourceInv, EndedClean, DownDone
    <2> QED
      BY <2>3, <2>4, <2>5 DEF ResourceInv
  <1>6. CASE \E c \in Conns : Accept(c) \/ AdmitConnection(c) \/ RejectOverloaded(c) \/ Track(c)
                              \/ Submit(c) \/ SubmitFails(c) \/ CancelQueued(c)
    BY <1>6, AcceptLoopReturns
  <1> QED
    BY <1>1, <1>2, <1>3, <1>4, <1>5, <1>6 DEF MainStep

LEMMA StopReturns ==
  ASSUME ResourceInv, RuntimeInv', StopStep \/ StopCalled
  PROVE  ResourceInv'
  <1>0. fd \in [Conns -> Objects]
    BY DEF ResourceInv, RuntimeInv, RuntimeTypes
  <1>1. /\ UNCHANGED <<config, resources, stage, tracked, current, main>>
        /\ \A d \in Conns : fd'[d] \in {fd[d], "closed"}
    BY <1>0 DEF StopStep, StopCalled, StopGates, StopSnapshot, StopClose, StopListener, CloseOne, server
  <1> QED
    BY <1>1, StayReturns
-----------------------------------------------------------------------------
LEMMA ResourceInvReturns == ResourceInv => ResourcesReturned
  <1> SUFFICES ASSUME ResourceInv PROVE ResourcesReturned
    OBVIOUS
  <1> USE DEF ResourceInv
  <1>1. SlotsExact
    <2>1. \A g \in Gates : used[g] = Cardinality({c \in Conns : g \in lease[c]})
                           /\ used[g] <= config.limit[g]
      BY DEF Accounts, SlotsCounted, Holders
    <2>2. ASSUME NEW c \in Conns
          PROVE  /\ stage[c] \in {"next", "recv", "close", "untrack"} => lease[c] \subseteq {"conn"}
                 /\ stage[c] = "gone" => lease[c] = {}
      BY DEF HeldWhere, Allowed
    <2> QED
      BY <2>1, <2>2 DEF SlotsExact
  <1>2. BodyBudgetKept
    <2>1. DOMAIN body = Conns /\ \A c \in Conns : body[c] \in Nat
      BY DEF Accounts, ResourceTypes
    <2>2. bodyBytes = SumFunction(body) /\ bodyBytes <= config.budget
      BY <2>1 DEF Accounts, BytesCounted, SumFunction
    <2>3. \A c \in Conns : body[c] > 0 => stage[c] \in Bodies
      BY <2>1 DEF HeldWhere
    <2> QED
      BY <2>2, <2>3 DEF BodyBudgetKept, Bodies
  <1>3. NothingLeft
    <2> SUFFICES ASSUME main = "down" PROVE NothingLeft
      BY DEF NothingLeft
    <2>1. ASSUME NEW c \in Conns
          PROVE  /\ stage[c] \in {"away", "backlog", "gone", "abandoned"}
                 /\ stage[c] \in {"gone", "abandoned"} => ~Live(c)
                 /\ stage[c] # "abandoned" => tracked[c] = "none" /\ lease[c] = {}
                 /\ body[c] = 0
      <3>1. stage[c] \in Stages /\ stage[c] \notin Working /\ stage[c] # "accepted"
        BY DEF DownDone, RuntimeInv, RuntimeTypes, InHand
      <3>2. stage[c] \in {"away", "backlog", "gone", "abandoned"}
        BY <3>1 DEF Stages
      <3>3. stage[c] \in {"gone", "abandoned"} => ~Live(c)
        BY DEF DownDone, EndedClean, Live
      <3>4. stage[c] # "abandoned" => tracked[c] = "none" /\ lease[c] = {}
        BY <3>2 DEF EndedClean, RuntimeInv, InHand, HeldWhere, Allowed
      <3>5. body[c] = 0
        BY <3>2 DEF HeldWhere, Bodies
      <3> QED
        BY <3>2, <3>3, <3>4, <3>5
    <2>2. bodyBytes = 0
      BY <2>1, RuntimeAssumption, SumZero DEF Accounts, BytesCounted
    <2> QED
      BY <2>1, <2>2 DEF NothingLeft
  <1> QED
    BY <1>1, <1>2, <1>3 DEF ResourcesReturned

(***************************************************************************)
(* The slots of the gates and the bytes of the body budget are those the   *)
(* connections hold, at every moment, and whatever a connection was given  *)
(* is back when it has ended and when the server is down: the accept loop, *)
(* the workers, cleanup() and stop() interleave in any order.              *)
(***************************************************************************)
THEOREM RuntimeResourcesReturned == Spec => []ResourcesReturned
  <1>1. Init => ResourceInv
    <2> SUFFICES ASSUME Init PROVE ResourceInv
      OBVIOUS
    <2>1. RuntimeInv
      BY RuntimeInit
    <2>2. ResourceTypes
      BY DEF Init, ResourceTypes
    <2>3. SlotsCounted
      <3>1. \A g \in Gates : Holders(g) = {} /\ used[g] = 0 /\ config.limit[g] \in Nat
        BY RuntimeAssumption DEF Init, Holders
      <3> QED
        BY <3>1, FS_EmptySet DEF SlotsCounted
    <2>4. BytesCounted
      <3>1. bodyBytes = 0 /\ (\A c \in Conns : body[c] = 0) /\ config.budget \in Nat
        BY RuntimeAssumption DEF Init
      <3> QED
        BY <3>1, RuntimeAssumption, SumZero DEF BytesCounted
    <2>5. HeldWhere /\ EndedClean /\ DownDone
      BY DEF Init, HeldWhere, EndedClean, DownDone, Allowed
    <2> QED
      BY <2>1, <2>2, <2>3, <2>4, <2>5 DEF ResourceInv, Accounts
  <1>2. ResourceInv /\ [Next]_vars => ResourceInv'
    <2> SUFFICES ASSUME ResourceInv, [Next]_vars PROVE ResourceInv'
      OBVIOUS
    <2>1. RuntimeInv'
      BY RuntimeStep DEF ResourceInv
    <2>2. CASE UNCHANGED vars
      <3>1. UNCHANGED <<config, resources, stage, tracked, current, fd, main>>
        BY <2>2 DEF vars, server
      <3> QED
        BY <2>1, <3>1, StayReturns
    <2> QED
      BY <2>1, <2>2, MainReturns, StopReturns, WorkerTurns, SocketTurns, AcceptLoopReturns DEF Next
  <1> QED
    BY <1>1, <1>2, ResourceInvReturns, PTL DEF Spec
-----------------------------------------------------------------------------
(***************************************************************************)
(*                             AdvancedSessions                            *)
(***************************************************************************)

SessionRecords == [owner : Users \cup {NoUser}, created : Int, last : Int, inc : Int]

\* Sessions s, numbered below n, each once, none of them with a number of e.
Numbered(s, n, e) ==
  /\ s = [k \in DOMAIN s |-> s[k]]
  /\ \A k \in DOMAIN s : s[k] \in SessionRecords /\ s[k].inc < n /\ s[k].inc \notin e
  /\ \A k, j \in DOMAIN s : s[k].inc = s[j].inc => k = j
  /\ \A i \in e : i \in Int /\ i < n

SessionInv == clock \in Int /\ creations \in Int /\ Numbered(sessions, creations, ended)

\* Expiry takes sessions away and leaves the others as they are.
LEMMA PurgedNumbered ==
  ASSUME SessionInv
  PROVE  Numbered(Purged, creations, ended)
BY DEF SessionInv, Numbered, Purged, Restrict

\* A request that uses a session moves only its time of last use.
LEMMA TouchedNumbered ==
  ASSUME SessionInv, NEW s, NEW k \in DOMAIN s, Numbered(s, creations, ended)
  PROVE  Numbered([s EXCEPT ![k].last = clock], creations, ended)
<1> DEFINE q == [s EXCEPT ![k].last = clock]
<1>1. clock \in Int /\ \A j \in DOMAIN s : s[j] \in SessionRecords
  BY DEF SessionInv, Numbered
<1>2. DOMAIN q = DOMAIN s /\ q = [j \in DOMAIN q |-> q[j]]
  BY DEF Numbered
<1>3. ASSUME NEW j \in DOMAIN s PROVE q[j] \in SessionRecords /\ q[j].inc = s[j].inc
  <2>1. CASE j = k
    <3>1. q[j] = [s[k] EXCEPT !.last = clock]
      BY <2>1
    <3> QED
      BY <1>1, <2>1, <3>1 DEF SessionRecords
  <2>2. CASE j # k
    BY <1>1, <2>2
  <2> QED
    BY <2>1, <2>2
<1> HIDE DEF q
<1>4. Numbered(q, creations, ended)
  BY <1>2, <1>3 DEF Numbered
<1> QED
  BY <1>4 DEF q

\* Only a creation gives out a number, and it gives out the next one.
LEMMA SessionStep ==
  ASSUME SessionInv, [SessionNext]_sessionVars
  PROVE  SessionInv'
<1>0. clock \in Int /\ creations \in Int /\ Numbered(sessions, creations, ended)
      /\ Numbered(Purged, creations, ended)
  BY PurgedNumbered DEF SessionInv
<1>1. ASSUME NEW p \in Principals, NEW k \in Tokens, Create(p, k) PROVE SessionInv'
  <2> DEFINE new == [owner |-> p, created |-> clock, last |-> clock, inc |-> creations]
  <2>1. new \in SessionRecords /\ new.inc = creations
    BY <1>0 DEF Principals, SessionRecords
  <2> HIDE DEF new
  <2>2. Numbered(With(Purged, k, new), creations + 1, ended)
    <3>1. k \notin DOMAIN Purged
      BY <1>1 DEF Create
    <3>2. \A j \in DOMAIN Purged : Purged[j].inc \in Int
      BY <1>0 DEF Numbered, SessionRecords
    <3>3. \A i \in ended : i \in Int /\ i < creations
      BY <1>0 DEF Numbered
    <3> DEFINE s == With(Purged, k, new)
    <3>4. s = [j \in DOMAIN s |-> s[j]] /\ DOMAIN s = DOMAIN Purged \cup {k}
      BY DEF With
    <3>5. s[k] = new /\ \A j \in DOMAIN Purged : s[j] = Purged[j]
      BY <3>1 DEF With
    <3> HIDE DEF s
    <3>6. \A j \in DOMAIN s : s[j] \in SessionRecords /\ s[j].inc < creations + 1 /\ s[j].inc \notin ended
      BY <1>0, <2>1, <3>2, <3>3, <3>4, <3>5 DEF Numbered
    <3>7. \A j, i \in DOMAIN s : s[j].inc = s[i].inc => j = i
      BY <1>0, <2>1, <3>2, <3>4, <3>5 DEF Numbered
    <3>8. \A i \in ended : i \in Int /\ i < creations + 1
      BY <1>0, <3>3
    <3>10. Numbered(s, creations + 1, ended)
      BY <3>4, <3>6, <3>7, <3>8 DEF Numbered
    <3> QED
      BY <3>10 DEF s
  <2> QED
    BY <1>0, <1>1, <2>2 DEF Create, SessionInv, new
<1>2. ASSUME NEW p \in Principals, NEW k \in Tokens, Show(p, k) PROVE SessionInv'
  <2>1. CASE Found(k, p)
    BY <1>0, <1>2, <2>1, TouchedNumbered DEF Show, SessionInv, Found
  <2>2. CASE ~Found(k, p)
    <3>1. sessions' = Purged
      BY <1>2, <2>2 DEF Show
    <3> QED
      BY <1>0, <1>2, <3>1 DEF Show, SessionInv
  <2> QED
    BY <2>1, <2>2
<1>3. ASSUME NEW p \in Principals, NEW k \in Tokens, Revoke(p, k) PROVE SessionInv'
  <2>1. CASE Found(k, p)
    <3>1. Numbered(Restrict(Purged, DOMAIN Purged \ {k}), creations, ended \cup {Purged[k].inc})
      BY <1>0, <2>1 DEF Numbered, Restrict, Found, SessionRecords
    <3> QED
      BY <1>0, <1>3, <2>1, <3>1 DEF Revoke, SessionInv
  <2> QED
    BY <1>0, <1>3, <2>1 DEF Revoke, SessionInv
<1>4. ASSUME NEW p \in Principals, NEW k \in Tokens, NEW t \in Threads, Admit(t, p, k) PROVE SessionInv'
  BY <1>0, <1>4 DEF Admit, SessionInv
<1>5. ASSUME NEW t \in Threads, Touch(t) PROVE SessionInv'
  <2>1. CASE SameSession(th[t])
    <3>1. th[t].token \in DOMAIN Purged
      BY <2>1 DEF SameSession
    <3> QED
      BY <1>0, <1>5, <2>1, <3>1, TouchedNumbered DEF Touch, SessionInv
  <2> QED
    BY <1>0, <1>5, <2>1 DEF Touch, SessionInv
<1>6. ASSUME CreateFull PROVE SessionInv'
  BY <1>0, <1>6 DEF CreateFull, SessionInv
<1>7. ASSUME InvalidateAll PROVE SessionInv'
  <2>1. Numbered(<< >>, creations, ended \cup {sessions[k].inc : k \in DOMAIN sessions})
    BY <1>0 DEF Numbered, SessionRecords
  <2> QED
    BY <1>0, <1>7, <2>1 DEF InvalidateAll, SessionInv
<1>8. ASSUME SessionTick PROVE SessionInv'
  BY <1>0, <1>8 DEF SessionTick, SessionInv
<1>9. CASE \/ UNCHANGED sessionVars \/ SwitchMode
           \/ \E t \in Threads : UploadFails(t) \/ UploadPublished(t) \/ Answered(t) \/ CreateRefused(t)
  BY <1>0, <1>9 DEF SessionInv, sessionVars, SwitchMode, UploadFails, UploadPublished, Answered, CreateRefused
<1> QED
  BY <1>1, <1>2, <1>3, <1>4, <1>5, <1>6, <1>7, <1>8, <1>9 DEF SessionNext

(***************************************************************************)
(* A session that was revoked, or that a change of the credentials ended,  *)
(* is never in the table again, whatever upload was admitted under it      *)
(* before, and however its token is reused: a touch finds the session it   *)
(* was admitted with, or none.                                             *)
(***************************************************************************)
THEOREM SessionsEndedStayEnded == SessionSpec => []EndedStayEnded
<1>1. SessionInit => SessionInv
  BY DEF SessionInit, SessionInv, Numbered
<1>2. SessionInv => EndedStayEnded
  BY DEF SessionInv, Numbered, EndedStayEnded
<1> QED
  BY <1>1, <1>2, SessionStep, PTL DEF SessionSpec
==============================================================================
