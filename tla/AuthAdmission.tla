--------------------------- MODULE AuthAdmission ---------------------------
(***************************************************************************)
(* xferry/security/auth.py: AuthAdmissionController, which bounds the      *)
(* number of concurrent Basic Auth verifications, queues the callers that  *)
(* cannot start yet and locks a peer out after too many failures.          *)
(*                                                                         *)
(* The controller's condition variable guards everything except the clock: *)
(* acquire() and _finish() read it before they take the lock, so a thread  *)
(* may work with a `now` older than another thread's.  The promotion loop  *)
(* is a step per iteration, taken by the thread that holds the lock.  A    *)
(* thread asleep in condition.wait runs again only if a notify_all reached *)
(* it or its deadline has passed.                                          *)
(*                                                                         *)
(* The peer table is a total function whose absent entries are Fresh; the  *)
(* field last_seen is written and never read, and is left out, as are the  *)
(* denial's reason and retry_after.                                        *)
(***************************************************************************)
EXTENDS Integers, FiniteSets, SequencesExt

CONSTANTS
  Threads,         \* connection workers calling acquire()
  Peers,           \* client addresses
  Server,          \* the thread that calls close()
  Nobody,          \* no thread holds the lock
  MaxFailures, Cooldown, MaxPeers, PruneInterval, WaitTimeout,
  MaxPending, MaxActive, PerPeerPending,
  MaxTime          \* bound on the clock

ASSUME AuthAssumption ==
  /\ IsFiniteSet(Threads) /\ IsFiniteSet(Peers)
  /\ Server \notin Threads /\ Nobody \notin Threads /\ Server # Nobody
  /\ {MaxFailures, Cooldown, MaxPeers, MaxPending, MaxActive, PerPeerPending}
       \subseteq Nat \ {0}
  /\ {PruneInterval, WaitTimeout, MaxTime} \subseteq Nat
  /\ MaxActive <= MaxPending /\ PerPeerPending <= MaxPending

VARIABLES
  clock,           \* time.monotonic()
  lock,            \* who is inside `with self._condition`
  closed, active, total, lastPrune,   \* _closed, _active, _outstanding, _last_prune
  known, table,    \* the keys and the values of _peers
  waiters,         \* _waiters, as the threads that own them
  idx,             \* the promotion loop's index (1-based)
  pc, peer, now,   \* per thread: position, argument, its reading of the clock
  deadline,        \* waiter.deadline
  waitDeadline,    \* waiter.wait_deadline
  answer,          \* granted and denied of the thread's waiter
  woken            \* sleeping threads a notify_all has reached

queueVars == <<waiters, idx, deadline, waitDeadline>>
vars == <<clock, lock, closed, active, total, lastPrune, known, table,
          pc, peer, now, answer, woken, queueVars>>

Fresh == [failures |-> 0, verifying |-> 0, outstanding |-> 0,
          cooldownUntil |-> 0, lastFailure |-> 0]

Init ==
  /\ clock = 0 /\ lock = Nobody /\ closed = FALSE
  /\ active = 0 /\ total = 0 /\ lastPrune = 0
  /\ known = {} /\ table = [p \in Peers |-> Fresh]
  /\ waiters = <<>> /\ idx = 1
  /\ pc = [t \in Threads |-> "idle"]
  /\ peer \in [Threads -> Peers]
  /\ now = [t \in Threads |-> 0]
  /\ deadline = [t \in Threads |-> 0]
  /\ waitDeadline = [t \in Threads |-> 0]
  /\ answer = [t \in Threads |-> "none"]
  /\ woken = {}
-----------------------------------------------------------------------------
\* Helpers on the peer table.

\* _cooldown_denial_locked: denied, or the expired lockout is forgotten.
Cooling(e, n) == e.failures >= MaxFailures /\ n < e.cooldownUntil

Reset(e, n) ==
  IF e.failures >= MaxFailures /\ n >= e.cooldownUntil
  THEN [e EXCEPT !.failures = 0, !.cooldownUntil = 0, !.lastFailure = 0]
  ELSE e

\* Mutant: verifications in flight are not counted against the lockout.
CanStartUncounted(e, n) ==
  /\ active < MaxActive
  /\ ~Cooling(e, n)
  /\ e.failures < MaxFailures

\* _can_start_locked, for an entry that has been Reset.
CanStart(e, n) ==
  /\ active < MaxActive
  /\ ~Cooling(e, n)
  /\ e.failures + e.verifying < MaxFailures

Idle(e) == e.outstanding = 0 /\ e.failures = 0

\* Mutant: the peer is dropped whenever nothing is outstanding.
StoreForgetful(p, e) ==
  IF e.outstanding = 0
  THEN known' = known \ {p} /\ table' = [table EXCEPT ![p] = Fresh]
  ELSE known' = known \cup {p} /\ table' = [table EXCEPT ![p] = e]

\* Store an entry and _drop_idle_peer_locked.
Store(p, e) ==
  IF Idle(e)
  THEN known' = known \ {p} /\ table' = [table EXCEPT ![p] = Fresh]
  ELSE known' = known \cup {p} /\ table' = [table EXCEPT ![p] = e]

\* Mutant: the waiter's reservation is given back to its peer only.
ReleaseReservationLeaky(p, e) ==
  IF p \in known
  THEN UNCHANGED total /\ Store(p, [e EXCEPT !.outstanding = @ - 1])
  ELSE UNCHANGED <<total, known, table>>

\* A removed waiter gives its reservation back, if its peer is in the table.
ReleaseReservation(p, e) ==
  IF p \in known
  THEN total' = total - 1 /\ Store(p, [e EXCEPT !.outstanding = @ - 1])
  ELSE UNCHANGED <<total, known, table>>

\* _prune_if_needed_locked: what one pass deletes.
Prunable(n) ==
  {q \in known : /\ table[q].outstanding = 0
                 /\ ~(table[q].failures > 0 /\ n - table[q].lastFailure < Cooldown)}

\* Mutant: notify() instead of notify_all().
NotifyOne ==
  LET asleep == {t \in Threads : pc[t] = "waiting"}
  IN  woken' = IF asleep = {} THEN woken ELSE woken \cup {CHOOSE t \in asleep : TRUE}

NotifyAll == woken' = {t \in Threads : pc[t] = "waiting"}
-----------------------------------------------------------------------------
\* acquire()

\* The clock is read before the lock is taken.
Call(t, p) ==
  /\ pc[t] = "idle"
  /\ pc' = [pc EXCEPT ![t] = "entry"]
  /\ peer' = [peer EXCEPT ![t] = p]
  /\ now' = [now EXCEPT ![t] = clock]
  /\ UNCHANGED <<clock, lock, closed, active, total, lastPrune, known, table,
                 answer, woken, queueVars>>

(***************************************************************************)
(* Lines 301-322: the periodic pass over the table, the lookup, and for an *)
(* unknown peer the forced pass and the insertion.                         *)
(***************************************************************************)
Lookup(p, n) ==
  LET due    == n - lastPrune >= PruneInterval
      kept   == IF due THEN known \ Prunable(n) ELSE known
      forced == p \notin kept /\ total < MaxPending /\ Cardinality(kept) >= MaxPeers
      left   == IF forced THEN kept \ Prunable(n) ELSE kept
      found  == p \in kept
      room   == found \/ (total < MaxPending /\ Cardinality(left) < MaxPeers)
      seen   == IF room THEN left \cup {p} ELSE left
  IN  [room      |-> room,
       known     |-> seen,
       lastPrune |-> IF due \/ forced THEN n ELSE lastPrune,
       table     |-> [q \in Peers |-> IF q \in left THEN table[q] ELSE Fresh]]

\* A peer in the table is refused: locked out, or no capacity.
Refused(e, n) ==
  Cooling(e, n) \/ e.outstanding >= PerPeerPending \/ total >= MaxPending

\* Leave acquire() without a slot.
Return(t) ==
  /\ pc' = [pc EXCEPT ![t] = "idle"]
  /\ now' = [now EXCEPT ![t] = 0]

AcquireClosed(t) ==
  /\ pc[t] = "entry" /\ lock = Nobody
  /\ closed
  /\ Return(t)
  /\ UNCHANGED <<clock, lock, closed, active, total, lastPrune, known, table,
                 peer, answer, woken, queueVars>>

Acquire(t) ==
  LET p == peer[t]
      n == now[t]
      L == Lookup(p, n)
      e == IF L.room THEN Reset(L.table[p], n) ELSE Fresh
      refused == ~L.room \/ Refused(e, n)
      r == [e EXCEPT !.outstanding = @ + 1]
      start == waiters = <<>> /\ CanStart(e, n)
  IN
  /\ pc[t] = "entry" /\ lock = Nobody
  /\ ~closed
  /\ lastPrune' = L.lastPrune
  /\ known' = L.known
  /\ UNCHANGED <<clock, closed, peer, woken>>
  /\ \/ /\ refused
        /\ table' = [L.table EXCEPT ![p] = IF L.room THEN e ELSE @]
        /\ Return(t)
        /\ UNCHANGED <<lock, active, total, answer, queueVars>>
     \/ /\ ~refused /\ start
        /\ table' = [L.table EXCEPT ![p] = [r EXCEPT !.verifying = @ + 1]]
        /\ active' = active + 1
        /\ total' = total + 1
        /\ answer' = [answer EXCEPT ![t] = "granted"]
        /\ pc' = [pc EXCEPT ![t] = "verify"]
        /\ UNCHANGED <<lock, now, queueVars>>
     \/ /\ ~refused /\ ~start
        /\ table' = [L.table EXCEPT ![p] = r]
        /\ total' = total + 1
        /\ waiters' = Append(waiters, t)
        /\ deadline' = [deadline EXCEPT ![t] = n + WaitTimeout]
        /\ waitDeadline' = [waitDeadline EXCEPT ![t] = clock + WaitTimeout]
        /\ lock' = t /\ idx' = 1
        /\ pc' = [pc EXCEPT ![t] = "promoteEnter"]
        /\ UNCHANGED <<active, answer, now>>
-----------------------------------------------------------------------------
(***************************************************************************)
(* _promote_waiters_locked(now), one iteration per step, by the holder h   *)
(* of the lock.  The branch for a waiter whose peer is missing from the    *)
(* table denies it without giving its reservation back.                    *)
(***************************************************************************)
Promoting(h) == lock = h /\ pc[h] \in {"promoteEnter", "promoteLoop", "promoteFinish"}

\* Mutant: only the head of the queue is considered.
MorePromotionHead == active < MaxActive /\ idx = 1 /\ waiters # <<>>

MorePromotion == active < MaxActive /\ idx <= Len(waiters)

TimedOut(w, n) == deadline[w] <= n \/ waitDeadline[w] <= clock

PromoteStep(h) ==
  LET w == waiters[idx]
      p == peer[w]
      n == now[h]
      e == Reset(table[p], n)
      denied == p \notin known \/ Cooling(e, n) \/ TimedOut(w, n)
  IN
  /\ Promoting(h)
  /\ MorePromotion
  /\ UNCHANGED <<clock, lock, closed, lastPrune, pc, peer, now, woken,
                 deadline, waitDeadline>>
  /\ \/ /\ denied
        /\ waiters' = RemoveAt(waiters, idx)
        /\ answer' = [answer EXCEPT ![w] = "denied"]
        /\ ReleaseReservation(p, e)
        /\ UNCHANGED <<active, idx>>
     \/ /\ ~denied /\ CanStart(e, n)
        /\ waiters' = RemoveAt(waiters, idx)
        /\ answer' = [answer EXCEPT ![w] = "granted"]
        /\ active' = active + 1
        /\ table' = [table EXCEPT ![p] = [e EXCEPT !.verifying = @ + 1]]
        /\ UNCHANGED <<total, known, idx>>
     \/ /\ ~denied /\ ~CanStart(e, n)
        /\ table' = [table EXCEPT ![p] = e]
        /\ idx' = idx + 1
        /\ UNCHANGED <<waiters, answer, active, total, known>>

\* The waiter has been answered: acquire() returns a lease or the denial.
Answered(t) ==
  /\ answer[t] # "none"
  /\ lock' = Nobody
  /\ now' = [now EXCEPT ![t] = 0]
  /\ deadline' = [deadline EXCEPT ![t] = 0]
  /\ waitDeadline' = [waitDeadline EXCEPT ![t] = 0]
  /\ \/ answer[t] = "granted" /\ pc' = [pc EXCEPT ![t] = "verify"] /\ UNCHANGED answer
     \/ /\ answer[t] = "denied"
        /\ pc' = [pc EXCEPT ![t] = "idle"]
        /\ answer' = [answer EXCEPT ![t] = "none"]

\* The body of the wait loop up to its second promotion, with a fresh clock.
EnterLoop(t) ==
  /\ answer[t] = "none"
  /\ lock' = t /\ idx' = 1
  /\ now' = [now EXCEPT ![t] = clock]
  /\ pc' = [pc EXCEPT ![t] = "promoteLoop"]
  /\ UNCHANGED <<deadline, waitDeadline, answer>>

\* The first promotion ends: notify_all, then the wait loop's first checks.
EnqueueDone(t) ==
  /\ Promoting(t) /\ pc[t] = "promoteEnter" /\ ~MorePromotion
  /\ NotifyAll
  /\ (Answered(t) /\ UNCHANGED idx) \/ EnterLoop(t)
  /\ UNCHANGED <<clock, closed, active, total, lastPrune, known, table, peer, waiters>>

\* The waiter's own deadline has passed: it removes itself.
GiveUp(t) ==
  /\ answer[t] = "none" /\ TimedOut(t, now[t])
  /\ waiters' = RemoveFirst(waiters, t)
  /\ ReleaseReservation(peer[t], table[peer[t]])
  /\ lock' = Nobody
  /\ Return(t)
  /\ deadline' = [deadline EXCEPT ![t] = 0]
  /\ waitDeadline' = [waitDeadline EXCEPT ![t] = 0]
  /\ UNCHANGED answer

\* The promotion inside the wait loop ends: answered, timed out, or wait again.
LoopDone(t) ==
  /\ Promoting(t) /\ pc[t] = "promoteLoop" /\ ~MorePromotion
  /\ UNCHANGED <<clock, closed, active, lastPrune, peer, idx, woken>>
  /\ \/ Answered(t) /\ UNCHANGED <<total, known, table, waiters>>
     \/ GiveUp(t)
     \/ /\ answer[t] = "none" /\ ~TimedOut(t, now[t])
        /\ pc' = [pc EXCEPT ![t] = "waiting"]
        /\ now' = [now EXCEPT ![t] = 0]
        /\ lock' = Nobody
        /\ UNCHANGED <<total, known, table, waiters, answer, deadline, waitDeadline>>

\* condition.wait returns: back to the top of the loop.
Resume(t) ==
  /\ pc[t] = "waiting" /\ lock = Nobody
  /\ t \in woken \/ deadline[t] <= clock \/ waitDeadline[t] <= clock
  /\ woken' = woken \ {t}
  /\ (Answered(t) /\ UNCHANGED idx) \/ EnterLoop(t)
  /\ UNCHANGED <<clock, closed, active, total, lastPrune, known, table, peer, waiters>>
-----------------------------------------------------------------------------
\* AuthAttemptLease.finish()

VerifyDone(t) ==
  /\ pc[t] = "verify"
  /\ pc' = [pc EXCEPT ![t] = "finish"]
  /\ now' = [now EXCEPT ![t] = clock]
  /\ UNCHANGED <<clock, lock, closed, active, total, lastPrune, known, table,
                 peer, answer, woken, queueVars>>

\* The entry after an attempt that succeeded or not ("failed" and "error").
Outcome(e, ok, n) ==
  LET f == IF ok THEN 0 ELSE e.failures + 1
  IN  [failures      |-> f,
       verifying     |-> e.verifying - 1,
       outstanding   |-> e.outstanding - 1,
       lastFailure   |-> IF ok THEN 0 ELSE n,
       cooldownUntil |-> IF ok THEN 0
                         ELSE IF f >= MaxFailures THEN n + Cooldown ELSE e.cooldownUntil]

Finish(t, ok) ==
  /\ pc[t] = "finish" /\ lock = Nobody
  /\ active' = active - 1
  /\ total' = total - 1
  /\ answer' = [answer EXCEPT ![t] = "none"]
  /\ Store(peer[t], Outcome(table[peer[t]], ok, now[t]))
  /\ lock' = t /\ idx' = 1
  /\ pc' = [pc EXCEPT ![t] = "promoteFinish"]
  /\ UNCHANGED <<clock, closed, lastPrune, peer, now, woken,
                 waiters, deadline, waitDeadline>>

FinishDone(t) ==
  /\ Promoting(t) /\ pc[t] = "promoteFinish" /\ ~MorePromotion
  /\ NotifyAll
  /\ lock' = Nobody
  /\ Return(t)
  /\ UNCHANGED <<clock, closed, active, total, lastPrune, known, table, peer,
                 answer, queueVars>>
-----------------------------------------------------------------------------
\* close(): deny and remove every waiter, then notify_all.

Close ==
  /\ ~closed /\ lock = Nobody
  /\ closed' = TRUE
  /\ lock' = Server
  /\ UNCHANGED <<clock, active, total, lastPrune, known, table, pc, peer, now,
                 answer, woken, queueVars>>

CloseWaiter ==
  LET w == Head(waiters) IN
  /\ lock = Server
  /\ waiters # <<>>
  /\ waiters' = Tail(waiters)
  /\ answer' = [answer EXCEPT ![w] = "denied"]
  /\ ReleaseReservation(peer[w], table[peer[w]])
  /\ UNCHANGED <<clock, lock, closed, active, lastPrune, pc, peer, now, woken,
                 idx, deadline, waitDeadline>>

CloseDone ==
  /\ lock = Server
  /\ waiters = <<>>
  /\ lock' = Nobody
  /\ NotifyAll
  /\ UNCHANGED <<clock, closed, active, total, lastPrune, known, table, pc, peer,
                 now, answer, queueVars>>

Tick ==
  /\ clock < MaxTime
  /\ clock' = clock + 1
  /\ UNCHANGED <<lock, closed, active, total, lastPrune, known, table, pc, peer,
                 now, answer, woken, queueVars>>

\* What a thread does while it holds the lock or has nothing to wait for.
Running(t) ==
  \/ PromoteStep(t) \/ EnqueueDone(t) \/ LoopDone(t) \/ FinishDone(t) \/ VerifyDone(t)

\* What a thread does once it gets the lock.
Locking(t) ==
  \/ AcquireClosed(t) \/ Acquire(t) \/ Resume(t)
  \/ \E ok \in BOOLEAN : Finish(t, ok)

Next ==
  \/ \E t \in Threads, p \in Peers : Call(t, p)
  \/ \E t \in Threads : Running(t) \/ Locking(t)
  \/ Close \/ CloseWaiter \/ CloseDone
  \/ Tick

Spec == Init /\ [][Next]_vars

(***************************************************************************)
(* Verification terminates, a lock holder keeps running, and a thread that *)
(* repeatedly finds the lock free gets it at last.  The clock need not     *)
(* advance.                                                                *)
(***************************************************************************)
FairSpec ==
  /\ Spec
  /\ \A t \in Threads : WF_vars(Running(t)) /\ SF_vars(Locking(t))
  /\ WF_vars(CloseWaiter) /\ WF_vars(CloseDone)
-----------------------------------------------------------------------------
Granted == {t \in Threads : answer[t] = "granted"}
Queued == {t \in Threads : t \in Range(waiters)}
Of(p, S) == {t \in S : peer[t] = p}

PeerState == [failures : Nat, verifying : Nat, outstanding : Nat,
              cooldownUntil : Nat, lastFailure : Nat]

TypeOK ==
  /\ clock \in Nat /\ closed \in BOOLEAN
  /\ lock \in Threads \cup {Server, Nobody}
  /\ active \in Nat /\ total \in Nat /\ lastPrune \in Nat
  /\ known \subseteq Peers /\ table \in [Peers -> PeerState]
  /\ waiters \in Seq(Threads) /\ idx \in Nat \ {0}
  /\ pc \in [Threads -> {"idle", "entry", "waiting", "verify", "finish",
                         "promoteEnter", "promoteLoop", "promoteFinish"}]
  /\ peer \in [Threads -> Peers] /\ now \in [Threads -> Nat]
  /\ deadline \in [Threads -> Nat] /\ waitDeadline \in [Threads -> Nat]
  /\ answer \in [Threads -> {"none", "granted", "denied"}]
  /\ woken \subseteq Threads

(***************************************************************************)
(* The four counters are exactly what they count: active the live leases   *)
(* (also those granted to a thread still asleep), outstanding the leases   *)
(* and the queued waiters, in total and per peer.  A slot leaked on any of *)
(* the denial, timeout, close or finish paths breaks it.                   *)
(***************************************************************************)
Accounting ==
  /\ active = Cardinality(Granted)
  /\ total = Cardinality(Granted \cup Queued)
  /\ \A p \in Peers :
       /\ table[p].verifying = Cardinality(Of(p, Granted))
       /\ table[p].outstanding = Cardinality(Of(p, Granted \cup Queued))

\* The configured bounds on verifications and on queued attempts hold.
Bounded ==
  /\ active <= MaxActive /\ total <= MaxPending /\ Cardinality(known) <= MaxPeers
  /\ \A p \in Peers : table[p].outstanding <= PerPeerPending

(***************************************************************************)
(* A peer with a live lease or a queued waiter is never dropped or pruned: *)
(* the RuntimeErrors of _finish and of the waiter reservation, and the     *)
(* branch of the promotion loop that leaks a reservation, are unreachable. *)
(***************************************************************************)
ReservedPeersKept == \A t \in Granted \cup Queued : peer[t] \in known

\* The table of peers and its counters, at every moment and however calls overlap: sound,
\* exact, within their bounds, and with everybody in it who still counts on it.
TableSound == TypeOK /\ Accounting /\ Bounded /\ ReservedPeersKept

(***************************************************************************)
(* Failures already counted plus verifications in flight never exceed      *)
(* max_failures: concurrency does not buy a peer extra guesses.            *)
(***************************************************************************)
LockoutBound ==
  \A p \in Peers : table[p].failures + table[p].verifying <= MaxFailures

(***************************************************************************)
(* Work conservation: whenever the lock is free and a verification slot is *)
(* free, whoever is queued waits for an attempt of its own peer that is    *)
(* still running, and whose finish will promote it.                        *)
(***************************************************************************)
WorkConserving ==
  (lock = Nobody /\ active < MaxActive) =>
    \A t \in Queued : LET e == table[peer[t]]
                      IN  e.verifying > 0 /\ e.failures + e.verifying = MaxFailures

(***************************************************************************)
(* The promotions of the wait loop are not followed by notify_all; still,  *)
(* whoever has been answered while asleep is notified or wakes by itself.  *)
(***************************************************************************)
NoLostWakeup ==
  lock = Nobody => \A t \in Threads :
    (pc[t] = "waiting" /\ answer[t] # "none")
      => (t \in woken \/ deadline[t] <= clock \/ waitDeadline[t] <= clock)

\* Nobody waits without somebody else, or the clock, being about to end the wait.
QueueServed == WorkConserving /\ NoLostWakeup

(***************************************************************************)
(* A lockout lasts: until cooldown_until no step (prune, drop, a stale     *)
(* clock reading, a late finish) forgets it or starts a verification.      *)
(***************************************************************************)
CooldownHolds ==
  [][\A p \in Peers :
       (table[p].failures >= MaxFailures /\ clock < table[p].cooldownUntil)
         => /\ table'[p].failures >= MaxFailures
            /\ table'[p].verifying = 0]_vars

\* After close() no further verification is admitted, queued or new.
ClosedDrains == [][closed => Granted' \subseteq Granted]_vars

\* A lockout and a close() are decisions that no later step, however stale its clock
\* reading, takes back.
DecisionsLast == CooldownHolds /\ ClosedDrains

\* Every acquire() returns, with a lease or with a denial.
AcquireReturns ==
  \A t \in Threads : pc[t] = "entry" ~> pc[t] \in {"idle", "verify"}
=============================================================================
