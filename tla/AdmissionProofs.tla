--------------------------- MODULE AdmissionProofs ---------------------------
(***************************************************************************)
(* Proofs about the two controllers that make threads wait.                *)
(*                                                                         *)
(* CapacityGate, for every limit and every finite set of threads: slots    *)
(* are counted exactly, nobody sleeps past a free one, and a closed gate   *)
(* only drains.  AuthAdmission, for every number of threads and peers and  *)
(* every setting of the limits: the lockout is bounded, the counters are   *)
(* exact, whoever is queued is served, and a lockout or a close() is never *)
(* taken back.                                                             *)
(***************************************************************************)
EXTENDS AuthAdmission, CapacityGate, FiniteSetTheorems, SequenceTheorems, TLAPS

(***************************************************************************)
(*                              CapacityGate                               *)
(***************************************************************************)

\* A slot being given back belongs to a lease whose flag is already set.
FreeingIsReleased ==
  \A t \in freeing : stage[t] = "leased" /\ t \in released

\* The inductive invariant.
GateInv ==
  /\ GateTypeOK
  /\ FreeingIsReleased
  /\ SlotsExact
  /\ inUse <= Limit
  /\ NoSleeperLeft

\* Taking one slot: the holders grow by the admitted thread.
LEMMA AdmitPreserves ==
  ASSUME GateInv, NEW t \in Takers, stage[t] \in {"idle", "waiting"}, Admit(t)
  PROVE  FreeingIsReleased' /\ SlotsExact' /\ inUse' \in Nat /\ inUse' <= Limit
  <1> USE GateAssumption
  <1>1. t \notin Holders /\ IsFiniteSet(Holders)
    BY FS_Subset DEF Holders
  <1>2. Holders' = Holders \cup {t}
    BY DEF Admit, GateInv, GateTypeOK, Holders, FreeingIsReleased
  <1>3. Cardinality(Holders') = Cardinality(Holders) + 1
    BY <1>1, <1>2, FS_AddElement
  <1>4. inUse' = inUse + 1 /\ inUse < Limit
    BY DEF Admit
  <1>5. SlotsExact'
    BY <1>3, <1>4 DEF GateInv, SlotsExact
  <1>6. FreeingIsReleased'
    BY DEF Admit, GateInv, GateTypeOK, FreeingIsReleased
  <1> QED
    BY <1>4, <1>5, <1>6 DEF GateInv, GateTypeOK

\* A rejected or blocked thread holds no slot before or after.
LEMMA NotAdmittedPreserves ==
  ASSUME GateInv, NEW t \in Takers, stage[t] \in {"idle", "waiting"},
         NEW s \in {"idle", "waiting"}, stage' = [stage EXCEPT ![t] = s],
         UNCHANGED <<inUse, leaseVars>>
  PROVE  FreeingIsReleased' /\ SlotsExact' /\ inUse' \in Nat /\ inUse' <= Limit
  <1>1. Holders' = Holders
    BY DEF GateInv, GateTypeOK, Holders, leaseVars
  <1>2. FreeingIsReleased'
    BY DEF GateInv, GateTypeOK, FreeingIsReleased, leaseVars
  <1> QED
    BY <1>1, <1>2 DEF GateInv, GateTypeOK, SlotsExact

LEMMA AcquirePreserves ==
  ASSUME GateInv, NEW t \in Takers, NEW late \in BOOLEAN, GateAcquire(t, late)
  PROVE  GateInv'
  <1>1. GateTypeOK'
    BY DEF GateInv, GateTypeOK, GateAcquire, Admit, Reject, leaseVars
  <1>2. FreeingIsReleased' /\ SlotsExact' /\ inUse' \in Nat /\ inUse' <= Limit
    <2>1. CASE Admit(t)
      BY <2>1, AdmitPreserves DEF GateAcquire
    <2>2. CASE ~Admit(t)
      BY <2>2, NotAdmittedPreserves DEF GateAcquire, Reject
    <2> QED
      BY <2>1, <2>2
  <1>3. NoSleeperLeft'
    BY GateAssumption
       DEF GateInv, GateTypeOK, NoSleeperLeft, Blocked, GateAcquire, Admit, Reject
  <1> QED
    BY <1>1, <1>2, <1>3 DEF GateInv

LEMMA WakePreserves ==
  ASSUME GateInv, NEW t \in Takers, Wake(t)
  PROVE  GateInv'
  <1>1. GateTypeOK'
    BY DEF GateInv, GateTypeOK, Wake, Admit, Reject, leaseVars
  <1>2. FreeingIsReleased' /\ SlotsExact' /\ inUse' \in Nat /\ inUse' <= Limit
    <2>1. CASE Admit(t)
      BY <2>1, AdmitPreserves DEF Wake
    <2>2. CASE Reject(t)
      BY <2>2, NotAdmittedPreserves DEF Wake, Reject
    <2>3. CASE UNCHANGED <<inUse, gateClosed, stage, leaseVars>>
      BY <2>3 DEF GateInv, GateTypeOK, SlotsExact, FreeingIsReleased, Holders, leaseVars
    <2> QED
      BY <2>1, <2>2, <2>3 DEF Wake
  <1>3. NoSleeperLeft'
    BY GateAssumption
       DEF GateInv, GateTypeOK, NoSleeperLeft, Blocked, Wake, Admit, Reject
  <1> QED
    BY <1>1, <1>2, <1>3 DEF GateInv

LEMMA ReleasePreserves ==
  ASSUME GateInv, NEW t \in Takers, NEW c \in Callers, LeaseRelease(t, c)
  PROVE  GateInv'
  <1>1. GateTypeOK'
    BY DEF GateInv, GateTypeOK, LeaseRelease
  <1>2. Holders' = Holders /\ FreeingIsReleased'
    BY DEF GateInv, GateTypeOK, LeaseRelease, Holders, FreeingIsReleased
  <1> QED
    BY <1>1, <1>2
       DEF GateInv, GateTypeOK, LeaseRelease, SlotsExact, NoSleeperLeft, Blocked

LEMMA GateReleasePreserves ==
  ASSUME GateInv, NEW t \in Takers, GateRelease(t)
  PROVE  GateInv'
  <1> USE GateAssumption
  <1>1. t \in Holders /\ IsFiniteSet(Holders) /\ IsFiniteSet(Holders')
    BY FS_Subset DEF Holders, GateInv, GateTypeOK, FreeingIsReleased, GateRelease
  <1>2. Holders' = Holders \ {t} /\ FreeingIsReleased'
    BY DEF GateInv, GateTypeOK, GateRelease, Holders, FreeingIsReleased
  <1>3. inUse' = Cardinality(Holders') /\ Cardinality(Holders') \in Nat
    BY <1>1, <1>2, FS_RemoveElement, FS_CardinalityType
       DEF GateInv, GateTypeOK, SlotsExact, GateRelease
  <1>4. GateTypeOK'
    BY <1>3 DEF GateInv, GateTypeOK, GateRelease, GateNotifyAll, Blocked
  <1>5. inUse' = inUse - 1 /\ NoSleeperLeft'
    BY DEF GateRelease, GateNotifyAll, NoSleeperLeft, Blocked
  <1> QED
    BY <1>2, <1>3, <1>4, <1>5 DEF GateInv, GateTypeOK, SlotsExact

LEMMA OthersPreserve ==
  ASSUME GateInv, NEW t \in Takers, Expire(t) \/ Forget(t) \/ GateClose
  PROVE  GateInv'
  <1>1. GateTypeOK'
    BY DEF GateInv, GateTypeOK, Expire, Forget, GateClose, GateNotifyAll, Blocked, leaseVars
  <1>2. Holders' = Holders /\ FreeingIsReleased'
    BY DEF GateInv, GateTypeOK, Expire, Forget, GateClose, Holders, FreeingIsReleased, leaseVars
  <1>3. inUse' = inUse
    BY DEF Expire, Forget, GateClose
  <1>4. NoSleeperLeft'
    BY DEF GateInv, GateTypeOK, Expire, Forget, GateClose, GateNotifyAll, NoSleeperLeft, Blocked
  <1> QED
    BY <1>1, <1>2, <1>3, <1>4 DEF GateInv, SlotsExact

LEMMA GateInvInductive == GateInv /\ [GateNext]_gateVars => GateInv'
  <1> SUFFICES ASSUME GateInv, [GateNext]_gateVars PROVE GateInv'
    OBVIOUS
  <1>1. CASE UNCHANGED gateVars
    BY <1>1 DEF gateVars, GateInv, GateTypeOK, FreeingIsReleased, SlotsExact, NoSleeperLeft,
                Holders, Blocked
  <1>2. ASSUME NEW t \in Takers, NEW late \in BOOLEAN, GateAcquire(t, late) PROVE GateInv'
    BY <1>2, AcquirePreserves
  <1>3. ASSUME NEW t \in Takers, Expire(t) PROVE GateInv'
    BY <1>3, OthersPreserve
  <1>4. ASSUME NEW t \in Takers, ThreadStep(t) PROVE GateInv'
    BY <1>4, WakePreserves, ReleasePreserves, GateReleasePreserves, OthersPreserve
       DEF ThreadStep
  <1>5. CASE GateClose
    <2>1. CASE Takers = {}
      <3>1. Holders = {} /\ Holders' = {} /\ Blocked = {} /\ Blocked' = {}
        BY <2>1 DEF Holders, Blocked
      <3> QED
        BY <1>5, <3>1 DEF GateClose, GateNotifyAll, GateInv, GateTypeOK, FreeingIsReleased,
                          SlotsExact, NoSleeperLeft, leaseVars
    <2>2. CASE Takers # {}
      BY <1>5, <2>2, OthersPreserve
    <2> QED
      BY <2>1, <2>2
  <1> QED
    BY <1>1, <1>2, <1>3, <1>4, <1>5 DEF GateNext

LEMMA GateInvInitially == GateInit => GateInv
  <1> SUFFICES ASSUME GateInit PROVE GateInv
    OBVIOUS
  <1>1. Holders = {} /\ Blocked = {}
    BY DEF GateInit, Holders, Blocked
  <1>2. GateTypeOK
    <2>1. stage \in [Takers -> {"idle", "waiting", "leased"}]
      BY DEF GateInit
    <2>2. pending \in [Takers -> SUBSET Callers]
      BY DEF GateInit
    <2> QED
      BY <2>1, <2>2 DEF GateInit, GateTypeOK
  <1>5. FreeingIsReleased /\ inUse <= Limit
    BY GateAssumption DEF GateInit, FreeingIsReleased
  <1>3. SlotsExact
    BY <1>1, FS_EmptySet DEF GateInit, SlotsExact
  <1>4. NoSleeperLeft
    BY <1>1 DEF NoSleeperLeft
  <1> QED
    BY <1>2, <1>3, <1>4, <1>5 DEF GateInv

(***************************************************************************)
(* The gate's counter is always exactly the number of occupied slots: the  *)
(* once-only flag of AdmissionLease.release makes the race between worker  *)
(* and callback harmless, for any number of threads and release callers.   *)
(***************************************************************************)
THEOREM GateSlotsExact == GateSpec => []SlotsExact
  <1>1. GateInv => SlotsExact
    BY DEF GateInv
  <1> QED
    BY <1>1, GateInvInitially, GateInvInductive, PTL DEF GateSpec

(***************************************************************************)
(* No acquire() sleeps past a free slot or past close() without a pending  *)
(* notification or an expired timer.                                       *)
(***************************************************************************)
THEOREM GateNoLostWakeup == GateSpec => []NoSleeperLeft
  <1>1. GateInv => NoSleeperLeft
    BY DEF GateInv
  <1> QED
    BY <1>1, GateInvInitially, GateInvInductive, PTL DEF GateSpec

(***************************************************************************)
(* Type, counter, limit and wakeups of the gate, for every limit and every *)
(* finite set of threads.                                                  *)
(***************************************************************************)
THEOREM GateIsSound == GateSpec => []GateSound
  <1>1. GateInv => GateSound
    BY DEF GateInv, GateSound, SlotsExact, WithinLimit
  <1> QED
    BY <1>1, GateInvInitially, GateInvInductive, PTL DEF GateSpec

(***************************************************************************)
(* A closed gate only drains: an acquire() that was waiting when close()   *)
(* came, or that comes later, is never given a slot.                       *)
(***************************************************************************)
THEOREM GateClosedDrains == GateSpec => GateDrains
  <1>1. ASSUME GateInv, [GateNext]_gateVars PROVE [gateClosed => Holders' \subseteq Holders]_gateVars
    <2> SUFFICES ASSUME gateClosed, GateNext PROVE Holders' \subseteq Holders
      BY <1>1
    <2> USE <1>1 DEF GateInv, GateTypeOK
    <2>1. ASSUME NEW t \in Takers, NEW late \in BOOLEAN, GateAcquire(t, late) PROVE Holders' \subseteq Holders
      BY <2>1 DEF GateAcquire, Admit, Reject, Holders, leaseVars
    <2>2. ASSUME NEW t \in Takers, Expire(t) PROVE Holders' \subseteq Holders
      BY <2>2 DEF Expire, Holders, leaseVars
    <2>3. ASSUME NEW t \in Takers, ThreadStep(t) PROVE Holders' \subseteq Holders
      <3>1. CASE Wake(t)
        BY <3>1 DEF Wake, Admit, Reject, Holders, leaseVars
      <3>2. CASE GateRelease(t)
        BY <3>2 DEF GateRelease, Holders
      <3>3. ASSUME NEW c \in Callers, LeaseRelease(t, c) PROVE Holders' \subseteq Holders
        BY <3>3 DEF LeaseRelease, Holders, FreeingIsReleased
      <3>4. CASE Forget(t)
        BY <3>4 DEF Forget, Holders, leaseVars
      <3> QED
        BY <2>3, <3>1, <3>2, <3>3, <3>4 DEF ThreadStep
    <2>4. CASE GateClose
      BY <2>4 DEF GateClose, Holders, leaseVars
    <2> QED
      BY <2>1, <2>2, <2>3, <2>4 DEF GateNext
  <1> QED
    BY <1>1, GateInvInitially, GateInvInductive, PTL DEF GateSpec, GateDrains
-----------------------------------------------------------------------------
(***************************************************************************)
(*                              AuthAdmission                              *)
(***************************************************************************)

\* The types the argument needs; the counters may be any integers.
Entry == [failures : Nat, verifying : Int, outstanding : Int,
          cooldownUntil : Int, lastFailure : Int]

EntriesTyped ==
  /\ table \in [Peers -> Entry]
  /\ clock \in Int /\ now \in [Threads -> Int] /\ peer \in [Threads -> Peers]

\* What a table entry must satisfy.
WithinAttempts(e) == e \in Entry /\ e.failures + e.verifying <= MaxFailures

\* The inductive invariant: the bound, and integers to state it with.
LockoutInv == EntriesTyped /\ LockoutBound

LEMMA LimitsAreNaturals ==
  MaxFailures \in Nat \ {0} /\ Cooldown \in Nat
  BY AuthAssumption

LEMMA EntryFacts ==
  ASSUME LockoutInv, NEW p \in Peers
  PROVE  WithinAttempts(table[p])
  BY DEF LockoutInv, EntriesTyped, LockoutBound, WithinAttempts

LEMMA FreshFact == WithinAttempts(Fresh)
  BY LimitsAreNaturals DEF WithinAttempts, Fresh, Entry

\* Forgetting an expired lockout lowers the count.
LEMMA ResetFact ==
  ASSUME NEW e, NEW n, WithinAttempts(e)
  PROVE  WithinAttempts(Reset(e, n))
  <1>1. e \in Entry /\ e.failures + e.verifying <= MaxFailures
    BY DEF WithinAttempts
  <1>2. CASE e.failures >= MaxFailures /\ n >= e.cooldownUntil
    <2>1. Reset(e, n) = [e EXCEPT !.failures = 0, !.cooldownUntil = 0, !.lastFailure = 0]
      BY <1>2 DEF Reset
    <2> DEFINE e1 == [e EXCEPT !.failures = 0]
               e2 == [e1 EXCEPT !.cooldownUntil = 0]
               e3 == [e2 EXCEPT !.lastFailure = 0]
    <2>a. e1 \in Entry
      BY <1>1 DEF Entry
    <2>b. e2 \in Entry
      <3> HIDE DEF e1
      <3> QED BY <2>a DEF Entry
    <2>c. e3 \in Entry
      <3> HIDE DEF e2
      <3> QED BY <2>b DEF Entry
    <2>2. Reset(e, n) \in Entry
      BY <2>1, <2>c
    <2>3. Reset(e, n).failures = 0 /\ Reset(e, n).verifying = e.verifying
      BY <1>1, <2>1 DEF Entry
    <2> QED
      BY <1>1, <2>2, <2>3, LimitsAreNaturals DEF WithinAttempts, Entry
  <1>3. CASE ~(e.failures >= MaxFailures /\ n >= e.cooldownUntil)
    <2>1. Reset(e, n) = e
      BY <1>3 DEF Reset
    <2> QED
      BY <2>1
  <1> QED
    BY <1>2, <1>3

\* One more verification of an entry that may start one.
LEMMA StartFact ==
  ASSUME NEW e, NEW n, WithinAttempts(e), CanStart(e, n)
  PROVE  WithinAttempts([e EXCEPT !.verifying = @ + 1])
  BY LimitsAreNaturals DEF WithinAttempts, CanStart, Entry

LEMMA OutstandingFact ==
  ASSUME NEW e, WithinAttempts(e), NEW k \in {1, -1}
  PROVE  WithinAttempts([e EXCEPT !.outstanding = @ + k])
  BY LimitsAreNaturals DEF WithinAttempts, Entry

\* A verification that fails turns into a failure, one that succeeds clears them.
LEMMA OutcomeFact ==
  ASSUME NEW e, NEW ok \in BOOLEAN, NEW n \in Int, WithinAttempts(e)
  PROVE  WithinAttempts(Outcome(e, ok, n))
  BY LimitsAreNaturals DEF WithinAttempts, Outcome, Entry

\* The part of the invariant that a change of the table can disturb.
TableKept == table' \in [Peers -> Entry] /\ LockoutBound'

LEMMA UpdateFact ==
  ASSUME LockoutInv, NEW p, NEW e, p \in Peers => WithinAttempts(e),
         table' = [table EXCEPT ![p] = e]
  PROVE  TableKept
  BY DEF LockoutInv, EntriesTyped, LockoutBound, WithinAttempts, TableKept

LEMMA StoreFact ==
  ASSUME LockoutInv, NEW p, NEW e, p \in Peers => WithinAttempts(e), Store(p, e)
  PROVE  TableKept
  <1>1. CASE Idle(e)
    BY <1>1, FreshFact, UpdateFact DEF Store
  <1>2. CASE ~Idle(e)
    BY <1>2, UpdateFact DEF Store
  <1> QED
    BY <1>1, <1>2

LEMMA UnchangedFact ==
  ASSUME LockoutInv, UNCHANGED table
  PROVE  TableKept
  BY DEF LockoutInv, EntriesTyped, LockoutBound, TableKept

LEMMA ReleaseFact ==
  ASSUME LockoutInv, NEW p, NEW e, p \in Peers => WithinAttempts(e),
         ReleaseReservation(p, e)
  PROVE  TableKept
  <1>1. CASE p \in known
    <2>1. p \in Peers => WithinAttempts([e EXCEPT !.outstanding = @ - 1])
      BY LimitsAreNaturals DEF WithinAttempts, Entry
    <2> QED
      BY <1>1, <2>1, StoreFact DEF ReleaseReservation
  <1>2. CASE p \notin known
    BY <1>2, UnchangedFact DEF ReleaseReservation
  <1> QED
    BY <1>1, <1>2

\* Lookup drops entries or keeps them as they are.
LEMMA LookupFact ==
  ASSUME LockoutInv, NEW p, NEW n, NEW q \in Peers
  PROVE  /\ Lookup(p, n).table \in [Peers -> Entry]
         /\ WithinAttempts(Lookup(p, n).table[q])
  <1> DEFINE due == n - lastPrune >= PruneInterval
             kept == IF due THEN known \ Prunable(n) ELSE known
             forced == p \notin kept /\ total < MaxPending /\ Cardinality(kept) >= MaxPeers
             left == IF forced THEN kept \ Prunable(n) ELSE kept
  <1>1. Lookup(p, n).table = [r \in Peers |-> IF r \in left THEN table[r] ELSE Fresh]
    BY DEF Lookup
  <1> HIDE DEF left
  <1>2. \A r \in Peers : WithinAttempts(IF r \in left THEN table[r] ELSE Fresh)
    BY EntryFacts, FreshFact
  <1> QED
    BY <1>1, <1>2 DEF WithinAttempts

LEMMA AcquireKeeps ==
  ASSUME LockoutInv, NEW t \in Threads, Acquire(t), peer[t] \in Peers
  PROVE  TableKept
  <1> DEFINE p == peer[t]
             n == now[t]
             L == Lookup(p, n)
             e == IF L.room THEN Reset(L.table[p], n) ELSE Fresh
             r == [e EXCEPT !.outstanding = @ + 1]
  <1>1. L.table \in [Peers -> Entry] /\ \A q \in Peers : WithinAttempts(L.table[q])
    BY LookupFact
  <1>2. WithinAttempts(e)
    BY <1>1, ResetFact, FreshFact
  <1>3. \E d : WithinAttempts(d) /\ table' = [L.table EXCEPT ![p] = d]
    <2>1. CASE table' = [L.table EXCEPT ![p] = IF L.room THEN e ELSE @]
      BY <1>1, <1>2, <2>1
    <2>2. CASE CanStart(e, n) /\ table' = [L.table EXCEPT ![p] = [r EXCEPT !.verifying = @ + 1]]
      <3> HIDE DEF e, L
      <3>1. WithinAttempts(r) /\ CanStart(r, n)
        BY <1>2, <2>2, LimitsAreNaturals DEF WithinAttempts, CanStart, Cooling, Entry
      <3> HIDE DEF r
      <3>2. WithinAttempts([r EXCEPT !.verifying = @ + 1])
        BY <3>1, StartFact
      <3> QED
        BY <2>2, <3>2
    <2>3. CASE table' = [L.table EXCEPT ![p] = r]
      <3> HIDE DEF e, L
      <3>1. WithinAttempts(r)
        BY <1>2, LimitsAreNaturals DEF WithinAttempts, Entry
      <3> QED
        BY <2>3, <3>1
    <2> QED
      BY <2>1, <2>2, <2>3 DEF Acquire
  <1> HIDE DEF L
  <1> QED
    BY <1>1, <1>3 DEF TableKept, LockoutBound, WithinAttempts

LEMMA PromoteKeeps ==
  ASSUME LockoutInv, NEW h \in Threads, PromoteStep(h)
  PROVE  TableKept
  <1> DEFINE w == waiters[idx]
             p == peer[w]
             n == now[h]
             e == Reset(table[p], n)
  <1>1. p \in Peers => WithinAttempts(e)
    BY EntryFacts, ResetFact
  <1>2. CASE ReleaseReservation(p, e)
    BY <1>1, <1>2, ReleaseFact
  <1>3. CASE CanStart(e, n) /\ table' = [table EXCEPT ![p] = [e EXCEPT !.verifying = @ + 1]]
    BY <1>1, <1>3, StartFact, UpdateFact
  <1>4. CASE table' = [table EXCEPT ![p] = e]
    BY <1>1, <1>4, UpdateFact
  <1> QED
    BY <1>2, <1>3, <1>4 DEF PromoteStep

LEMMA FinishKeeps ==
  ASSUME LockoutInv, NEW t \in Threads, NEW ok \in BOOLEAN, Finish(t, ok)
  PROVE  TableKept
  <1>1. peer[t] \in Peers /\ now[t] \in Int
    BY DEF LockoutInv, EntriesTyped
  <1>2. WithinAttempts(Outcome(table[peer[t]], ok, now[t]))
    BY <1>1, EntryFacts, OutcomeFact
  <1> QED
    BY <1>2, StoreFact DEF Finish

LEMMA LoopDoneKeeps ==
  ASSUME LockoutInv, NEW t \in Threads, LoopDone(t)
  PROVE  TableKept
  <1>1. CASE GiveUp(t)
    <2>1. peer[t] \in Peers => WithinAttempts(table[peer[t]])
      BY EntryFacts
    <2> QED
      BY <1>1, <2>1, ReleaseFact DEF GiveUp
  <1>2. CASE UNCHANGED table
    BY <1>2, UnchangedFact
  <1> QED
    BY <1>1, <1>2 DEF LoopDone

LEMMA CloseWaiterKeeps ==
  ASSUME LockoutInv, CloseWaiter
  PROVE  TableKept
  <1> DEFINE p == peer[Head(waiters)]
  <1>1. p \in Peers => WithinAttempts(table[p])
    BY EntryFacts
  <1> QED
    BY <1>1, ReleaseFact DEF CloseWaiter

\* Every step keeps the bound in every entry of the table.
LEMMA NextKeepsTable ==
  ASSUME LockoutInv, [Next]_vars
  PROVE  TableKept
  <1>1. CASE \E t \in Threads : Acquire(t)
    BY <1>1, AcquireKeeps DEF LockoutInv, EntriesTyped
  <1>2. CASE \E t \in Threads : PromoteStep(t)
    BY <1>2, PromoteKeeps
  <1>3. CASE \E t \in Threads : \E ok \in BOOLEAN : Finish(t, ok)
    BY <1>3, FinishKeeps
  <1>4. CASE \E t \in Threads : LoopDone(t)
    BY <1>4, LoopDoneKeeps
  <1>5. CASE CloseWaiter
    BY <1>5, CloseWaiterKeeps
  <1>6. CASE UNCHANGED table
    BY <1>6, UnchangedFact
  <1>7. \A t \in Threads : EnqueueDone(t) \/ FinishDone(t) \/ VerifyDone(t) \/ AcquireClosed(t)
                          \/ Resume(t) => UNCHANGED table
    BY DEF EnqueueDone, FinishDone, VerifyDone, AcquireClosed, Resume
  <1>8. (\E t \in Threads, p \in Peers : Call(t, p)) \/ Close \/ CloseDone \/ Tick \/ UNCHANGED vars
          => UNCHANGED table
    BY DEF Call, Close, CloseDone, Tick, vars
  <1> QED
    BY <1>1, <1>2, <1>3, <1>4, <1>5, <1>6, <1>7, <1>8 DEF Next, Running, Locking

\* Clock readings stay integers and every thread keeps a peer.
LEMMA NextKeepsTypes ==
  ASSUME LockoutInv, [Next]_vars
  PROVE  clock' \in Int /\ now' \in [Threads -> Int] /\ peer' \in [Threads -> Peers]
  <1> USE DEF LockoutInv, EntriesTyped
  <1>1. CASE \E t \in Threads, p \in Peers : Call(t, p)
    BY <1>1 DEF Call
  <1>2. CASE \E t \in Threads : Running(t)
    BY <1>2 DEF Running, PromoteStep, EnqueueDone, LoopDone, FinishDone, VerifyDone,
                Answered, EnterLoop, GiveUp, Return
  <1>3. CASE \E t \in Threads : Locking(t)
    BY <1>3 DEF Locking, AcquireClosed, Acquire, Resume, Finish, Answered, EnterLoop, Return
  <1>4. CASE Close \/ CloseWaiter \/ CloseDone \/ Tick \/ UNCHANGED vars
    BY <1>4 DEF Close, CloseWaiter, CloseDone, Tick, vars
  <1> QED
    BY <1>1, <1>2, <1>3, <1>4 DEF Next

(***************************************************************************)
(* However many threads verify at once, the failures counted for a peer    *)
(* and its verifications in flight together never exceed max_failures.     *)
(***************************************************************************)
THEOREM AuthLockoutBound == Spec => []LockoutBound
  <1>1. Init => LockoutInv
    <2> SUFFICES ASSUME Init PROVE LockoutInv
      OBVIOUS
    <2>1. Fresh \in Entry /\ Fresh.failures + Fresh.verifying <= MaxFailures
      BY FreshFact DEF WithinAttempts
    <2>2. table = [p \in Peers |-> Fresh]
      BY DEF Init
    <2>3. LockoutBound
      BY <2>1, <2>2 DEF LockoutBound
    <2> QED
      BY <2>1, <2>2, <2>3 DEF Init, LockoutInv, EntriesTyped
  <1>2. LockoutInv /\ [Next]_vars => LockoutInv'
    BY NextKeepsTable, NextKeepsTypes DEF LockoutInv, EntriesTyped, TableKept
  <1>3. LockoutInv => LockoutBound
    BY DEF LockoutInv
  <1> QED
    BY <1>1, <1>2, <1>3, PTL DEF Spec
-----------------------------------------------------------------------------
(***************************************************************************)
(* Sequences without repetitions, and how one element leaves them.         *)
(***************************************************************************)
Distinct(s) == \A i, j \in 1 .. Len(s) : s[i] = s[j] => i = j

LEMMA RangeIs ==
  ASSUME NEW S, NEW s \in Seq(S)
  PROVE  Range(s) = {s[i] : i \in 1 .. Len(s)} /\ Range(s) \subseteq S
  BY DEF Range

LEMMA RemoveAtIs ==
  ASSUME NEW S, NEW s \in Seq(S), NEW k \in 1 .. Len(s)
  PROVE  /\ RemoveAt(s, k) \in Seq(S) /\ Len(RemoveAt(s, k)) = Len(s) - 1
         /\ \A i \in 1 .. Len(s) - 1 : RemoveAt(s, k)[i] = IF i < k THEN s[i] ELSE s[i + 1]
  <1> DEFINE u == SubSeq(s, 1, k - 1)
             v == SubSeq(s, k + 1, Len(s))
  <1>1. /\ u \in Seq(S) /\ Len(u) = k - 1
        /\ \A i \in 1 .. k - 1 : u[i] = s[i]
    BY SubSeqProperties
  <1>2. /\ v \in Seq(S) /\ Len(v) = Len(s) - k
        /\ \A i \in 1 .. Len(s) - k : v[i] = s[i + k]
    BY SubSeqProperties
  <1>3. RemoveAt(s, k) = u \o v
    BY DEF RemoveAt
  <1> HIDE DEF u, v
  <1>4. /\ u \o v \in Seq(S) /\ Len(u \o v) = Len(u) + Len(v)
        /\ \A i \in 1 .. Len(u) + Len(v) :
             (u \o v)[i] = IF i <= Len(u) THEN u[i] ELSE v[i - Len(u)]
    BY <1>1, <1>2, ConcatProperties
  <1> QED
    BY <1>1, <1>2, <1>3, <1>4

LEMMA RemoveAtRange ==
  ASSUME NEW S, NEW s \in Seq(S), NEW k \in 1 .. Len(s), Distinct(s)
  PROVE  /\ Distinct(RemoveAt(s, k))
         /\ Range(RemoveAt(s, k)) = Range(s) \ {s[k]}
  <1> DEFINE r == RemoveAt(s, k)
  <1>1. /\ r \in Seq(S) /\ Len(r) = Len(s) - 1
        /\ \A i \in 1 .. Len(s) - 1 : r[i] = IF i < k THEN s[i] ELSE s[i + 1]
    BY RemoveAtIs
  <1>2. Range(r) = {r[i] : i \in 1 .. Len(r)} /\ Range(s) = {s[i] : i \in 1 .. Len(s)}
    BY <1>1, RangeIs
  <1> HIDE DEF r
  <1>3. Distinct(r)
    BY <1>1 DEF Distinct
  <1>4. Range(r) \subseteq Range(s) \ {s[k]}
    BY <1>1, <1>2 DEF Distinct
  <1>5. ASSUME NEW i \in 1 .. Len(s), s[i] # s[k]
        PROVE  s[i] \in Range(r)
    <2>1. CASE i < k
      BY <1>1, <1>2, <2>1
    <2>2. CASE i > k
      <3> i - 1 \in 1 .. Len(r) /\ r[i - 1] = s[i]
        BY <1>1, <2>2
      <3> QED
        BY <1>2
    <2> QED
      BY <1>5, <2>1, <2>2
  <1> QED
    BY <1>2, <1>3, <1>4, <1>5 DEF r

LEMMA RemoveFirstIs ==
  ASSUME NEW S, NEW s \in Seq(S), NEW k \in 1 .. Len(s), Distinct(s)
  PROVE  RemoveFirst(s, s[k]) = RemoveAt(s, k)
  <1>1. {i \in 1 .. Len(s) : s[i] = s[k]} = {k}
    BY DEF Distinct
  <1>2. Min({k}) = k
    BY DEF Min
  <1> QED
    BY <1>1, <1>2 DEF RemoveFirst, SelectInSeq

LEMMA TailIs ==
  ASSUME NEW S, NEW s \in Seq(S), s # <<>>
  PROVE  Tail(s) = RemoveAt(s, 1) /\ Head(s) = s[1] /\ 1 \in 1 .. Len(s)
  <1>1. /\ Head(s) = s[1] /\ Tail(s) \in Seq(S) /\ Len(Tail(s)) = Len(s) - 1
        /\ \A i \in 1 .. Len(Tail(s)) : Tail(s)[i] = s[i + 1]
    BY HeadTailProperties
  <1>2. Len(s) \in Nat /\ Len(s) # 0
    BY EmptySeq, LenProperties
  <1>3. 1 \in 1 .. Len(s)
    BY <1>2
  <1>4. /\ RemoveAt(s, 1) \in Seq(S) /\ Len(RemoveAt(s, 1)) = Len(s) - 1
        /\ \A i \in 1 .. Len(s) - 1 :
             RemoveAt(s, 1)[i] = IF i < 1 THEN s[i] ELSE s[i + 1]
    BY <1>3, RemoveAtIs
  <1>5. \A i \in 1 .. Len(Tail(s)) : Tail(s)[i] = RemoveAt(s, 1)[i]
    BY <1>1, <1>2, <1>4
  <1> QED
    BY <1>1, <1>3, <1>4, <1>5, SeqEqual

LEMMA AppendRange ==
  ASSUME NEW S, NEW s \in Seq(S), NEW x \in S
  PROVE  /\ Append(s, x) \in Seq(S) /\ Range(Append(s, x)) = Range(s) \cup {x}
         /\ (Distinct(s) /\ x \notin Range(s)) => Distinct(Append(s, x))
  <1>1. /\ Append(s, x) \in Seq(S) /\ Len(Append(s, x)) = Len(s) + 1
        /\ \A i \in 1 .. Len(s) : Append(s, x)[i] = s[i]
        /\ Append(s, x)[Len(s) + 1] = x
    BY AppendProperties
  <1> DEFINE a == Append(s, x)
  <1>2. Range(a) = {a[i] : i \in 1 .. Len(a)} /\ Range(s) = {s[i] : i \in 1 .. Len(s)}
    BY <1>1, RangeIs
  <1> HIDE DEF a
  <1> QED
    BY <1>1, <1>2 DEF a, Distinct
-----------------------------------------------------------------------------
(***************************************************************************)
(* The inductive invariant: who is where, what the table counts, and what  *)
(* the clock readings are.                                                 *)
(***************************************************************************)
Occupants == Granted \cup Queued

Points == {"idle", "entry", "waiting", "verify", "finish",
           "promoteEnter", "promoteLoop", "promoteFinish"}
InAcquire == {"promoteEnter", "promoteLoop", "waiting"}
Holding == {"promoteEnter", "promoteLoop", "promoteFinish"}

\* Where a thread stands follows from its place in the queue and from its answer.
QueueInv ==
  /\ lock \in Threads \cup {Server, Nobody} /\ closed \in BOOLEAN
  /\ waiters \in Seq(Threads) /\ Distinct(waiters) /\ idx \in Nat \ {0}
  /\ pc \in [Threads -> Points] /\ peer \in [Threads -> Peers]
  /\ answer \in [Threads -> {"none", "granted", "denied"}]
  /\ woken \subseteq Threads
  /\ \A t \in Threads : t \in Queued => answer[t] = "none" /\ pc[t] \in InAcquire
  /\ \A t \in Threads : (answer[t] = "none" /\ pc[t] \in InAcquire) => t \in Queued
  /\ \A t \in Threads : answer[t] = "granted" => pc[t] \in InAcquire \cup {"verify", "finish"}
  /\ \A t \in Threads : answer[t] = "denied" => pc[t] \in InAcquire
  /\ \A t \in Threads : pc[t] \in {"verify", "finish"} => answer[t] = "granted"
  /\ \A t \in Threads : pc[t] \in Holding <=> lock = t

\* The clock readings are in the past.
ClockInv ==
  /\ clock \in Nat /\ lastPrune \in Nat
  /\ now \in [Threads -> Nat] /\ \A t \in Threads : now[t] <= clock
  /\ deadline \in [Threads -> Nat] /\ waitDeadline \in [Threads -> Nat]

\* What the table must say when G are the live leases and C are they and the queued.
Counts(G, C) ==
  /\ active = Cardinality(G) /\ total = Cardinality(C)
  /\ \A p \in Peers : /\ table[p].verifying = Cardinality(Of(p, G))
                      /\ table[p].outstanding = Cardinality(Of(p, C))

TableInv ==
  /\ known \subseteq Peers /\ table \in [Peers -> PeerState]
  /\ \A p \in Peers \ known : table[p] = Fresh
  /\ Counts(Granted, Occupants)
  /\ \A t \in Occupants : peer[t] \in known
  /\ Bounded

AdmissionInv == QueueInv /\ ClockInv /\ TableInv
-----------------------------------------------------------------------------
\* Counting threads, all of them and those of one peer.

LEMMA Finite ==
  /\ \A S \in SUBSET Threads : IsFiniteSet(S) /\ Cardinality(S) \in Nat
  /\ \A S \in SUBSET Peers : IsFiniteSet(S) /\ Cardinality(S) \in Nat
  BY AuthAssumption, FS_Subset, FS_CardinalityType

LEMMA AddCounted ==
  ASSUME NEW S \in SUBSET Threads, NEW t \in Threads \ S
  PROVE  /\ Cardinality(S \cup {t}) = Cardinality(S) + 1
         /\ \A p : Cardinality(Of(p, S \cup {t}))
                     = Cardinality(Of(p, S)) + IF peer[t] = p THEN 1 ELSE 0
  <1>1. Cardinality(S \cup {t}) = Cardinality(S) + 1
    BY Finite, FS_AddElement
  <1>2. ASSUME NEW p
        PROVE  Cardinality(Of(p, S \cup {t}))
                 = Cardinality(Of(p, S)) + IF peer[t] = p THEN 1 ELSE 0
    <2>1. Of(p, S) \in SUBSET Threads /\ t \notin Of(p, S)
      BY DEF Of
    <2>2. Of(p, S \cup {t}) = IF peer[t] = p THEN Of(p, S) \cup {t} ELSE Of(p, S)
      BY DEF Of
    <2>3. Cardinality(Of(p, S) \cup {t}) = Cardinality(Of(p, S)) + 1 /\ Cardinality(Of(p, S)) \in Nat
      BY <2>1, Finite, FS_AddElement
    <2> QED
      BY <2>2, <2>3
  <1> QED
    BY <1>1, <1>2

LEMMA RemoveCounted ==
  ASSUME NEW S \in SUBSET Threads, NEW t \in S
  PROVE  /\ Cardinality(S \ {t}) = Cardinality(S) - 1
         /\ \A p : Cardinality(Of(p, S \ {t}))
                     = Cardinality(Of(p, S)) - IF peer[t] = p THEN 1 ELSE 0
  <1>1. Cardinality(S \ {t}) = Cardinality(S) - 1
    BY Finite, FS_RemoveElement
  <1>2. ASSUME NEW p
        PROVE  Cardinality(Of(p, S \ {t}))
                 = Cardinality(Of(p, S)) - IF peer[t] = p THEN 1 ELSE 0
    <2>1. Of(p, S) \in SUBSET Threads /\ (peer[t] = p => t \in Of(p, S))
      BY DEF Of
    <2>2. Of(p, S \ {t}) = IF peer[t] = p THEN Of(p, S) \ {t} ELSE Of(p, S)
      BY DEF Of
    <2>3. /\ peer[t] = p => Cardinality(Of(p, S) \ {t}) = Cardinality(Of(p, S)) - 1
          /\ Cardinality(Of(p, S)) \in Nat
      BY <2>1, Finite, FS_RemoveElement
    <2> QED
      BY <2>2, <2>3
  <1> QED
    BY <1>1, <1>2

\* A counter at zero counts nobody, and one that is not counts somebody.
LEMMA NobodyCounted ==
  ASSUME NEW S \in SUBSET Threads, NEW p
  PROVE  Cardinality(Of(p, S)) \in Nat /\ (Cardinality(Of(p, S)) = 0 <=> Of(p, S) = {})
  <1> Of(p, S) \in SUBSET Threads
    BY DEF Of
  <1> QED
    BY Finite, FS_EmptySet

LEMMA FewerCounted ==
  ASSUME NEW C \in SUBSET Threads, NEW G \in SUBSET C, NEW p
  PROVE  Cardinality(Of(p, G)) <= Cardinality(Of(p, C))
  <1> Of(p, C) \in SUBSET Threads /\ Of(p, G) \in SUBSET Of(p, C)
    BY DEF Of
  <1> QED
    BY Finite, FS_Subset

(***************************************************************************)
(* Storing an entry that counts its peer's leases and waiters: the peer is *)
(* dropped only when there are none.                                       *)
(***************************************************************************)
LEMMA StoreCounts ==
  ASSUME TableInv, NEW C \in SUBSET Threads, NEW G \in SUBSET C,
         NEW p \in known, NEW d \in PeerState, Store(p, d),
         d.verifying = Cardinality(Of(p, G)), d.outstanding = Cardinality(Of(p, C)),
         d.outstanding <= PerPeerPending,
         \A q \in Peers \ {p} : /\ table[q].verifying = Cardinality(Of(q, G))
                                /\ table[q].outstanding = Cardinality(Of(q, C)),
         \A t \in C : peer[t] \in known
  PROVE  /\ known' \subseteq Peers /\ table' \in [Peers -> PeerState]
         /\ \A q \in Peers \ known' : table'[q] = Fresh
         /\ \A q \in Peers : /\ table'[q].verifying = Cardinality(Of(q, G))
                             /\ table'[q].outstanding = Cardinality(Of(q, C))
                             /\ table'[q].outstanding <= PerPeerPending
         /\ \A t \in C : peer[t] \in known'
         /\ Cardinality(known') <= MaxPeers
  <1>1. Fresh \in PeerState /\ Fresh.verifying = 0 /\ Fresh.outstanding = 0
    BY DEF Fresh, PeerState
  <1>2. known \subseteq Peers /\ Cardinality(known) <= MaxPeers /\ MaxPeers \in Nat /\ PerPeerPending \in Nat
    BY AuthAssumption DEF TableInv, Bounded
  <1>3. CASE Idle(d)
    <2>1. Of(p, C) = {} /\ Of(p, G) = {}
      BY <1>3, NobodyCounted DEF Idle, Of
    <2>2. known' = known \ {p} /\ table' = [table EXCEPT ![p] = Fresh]
      BY <1>3 DEF Store
    <2>3. \A t \in C : peer[t] # p
      BY <2>1 DEF Of
    <2>4. Cardinality(known') <= Cardinality(known) /\ Cardinality(known') \in Nat /\ Cardinality(known) \in Nat
      BY <1>2, <2>2, Finite, FS_RemoveElement
    <2>5. Cardinality(Of(p, C)) = 0 /\ Cardinality(Of(p, G)) = 0
      BY <2>1, FS_EmptySet
    <2> QED
      BY <1>1, <1>2, <2>2, <2>3, <2>4, <2>5 DEF TableInv, Bounded
  <1>4. CASE ~Idle(d)
    <2>1. known' = known /\ table' = [table EXCEPT ![p] = d]
      BY <1>4 DEF Store
    <2> QED
      BY <1>1, <1>2, <2>1 DEF TableInv, Bounded
  <1> QED
    BY <1>3, <1>4
-----------------------------------------------------------------------------
\* Who is queued and who is granted, step by step.

LEMMA QueuedAt ==
  ASSUME QueueInv, NEW k \in 1 .. Len(waiters)
  PROVE  /\ waiters[k] \in Queued /\ waiters[k] \in Threads
         /\ answer[waiters[k]] = "none" /\ pc[waiters[k]] \in InAcquire
         /\ Queued \subseteq Threads
  BY RangeIs DEF QueueInv, Queued

LEMMA QueueShrinks ==
  ASSUME QueueInv, NEW k \in 1 .. Len(waiters), waiters' = RemoveAt(waiters, k)
  PROVE  /\ waiters' \in Seq(Threads) /\ Distinct(waiters')
         /\ Queued' = Queued \ {waiters[k]}
  <1>1. waiters' \in Seq(Threads) /\ Distinct(waiters') /\ Range(waiters') = Range(waiters) \ {waiters[k]}
    BY RemoveAtIs, RemoveAtRange DEF QueueInv
  <1> QED
    BY <1>1 DEF Queued

LEMMA PromoteQueue ==
  ASSUME QueueInv, NEW h \in Threads, PromoteStep(h)
  PROVE  /\ QueueInv'
         /\ \/ waiters' = waiters /\ answer' = answer /\ idx' = idx + 1
            \/ /\ waiters' = RemoveAt(waiters, idx) /\ idx' = idx
               /\ \/ answer' = [answer EXCEPT ![waiters[idx]] = "denied"]
                  \/ answer' = [answer EXCEPT ![waiters[idx]] = "granted"]
               /\ Queued' = Queued \ {waiters[idx]}
         /\ idx \in 1 .. Len(waiters) /\ waiters[idx] \in Queued
         /\ UNCHANGED <<pc, peer, lock, closed, woken>>
  <1> DEFINE w == waiters[idx]
  <1>1. idx \in 1 .. Len(waiters) /\ UNCHANGED <<pc, peer, lock, closed, woken>>
    BY DEF PromoteStep, MorePromotion, QueueInv
  <1>2. w \in Queued /\ w \in Threads /\ answer[w] = "none" /\ pc[w] \in InAcquire
    BY <1>1, QueuedAt
  <1>3. CASE waiters' = waiters /\ answer' = answer /\ idx' = idx + 1
    BY <1>1, <1>2, <1>3 DEF QueueInv, Queued
  <1>4. CASE /\ waiters' = RemoveAt(waiters, idx) /\ idx' = idx
             /\ \/ answer' = [answer EXCEPT ![w] = "denied"]
                \/ answer' = [answer EXCEPT ![w] = "granted"]
    <2>1. waiters' \in Seq(Threads) /\ Distinct(waiters') /\ Queued' = Queued \ {w}
      BY <1>1, <1>4, QueueShrinks
    <2> HIDE DEF w
    <2>2. QueueInv'
      BY <1>1, <1>2, <1>4, <2>1 DEF QueueInv
    <2> QED
      BY <1>1, <1>2, <1>4, <2>1, <2>2 DEF w
  <1> QED
    BY <1>3, <1>4 DEF PromoteStep

LEMMA AcquireQueue ==
  ASSUME QueueInv, NEW t \in Threads, Acquire(t)
  PROVE  /\ QueueInv' /\ peer' = peer /\ t \notin Occupants
         /\ \/ UNCHANGED <<waiters, answer, lock, woken, idx>>
            \/ /\ waiters' = waiters /\ answer' = [answer EXCEPT ![t] = "granted"]
               /\ UNCHANGED <<lock, woken, idx>>
            \/ /\ answer' = answer /\ Queued' = Queued \cup {t} /\ idx' = 1
               /\ waiters' = Append(waiters, t)
  <1>1. /\ pc[t] = "entry" /\ lock = Nobody
        /\ UNCHANGED <<closed, peer, woken>> /\ t \notin Occupants
    BY DEF Acquire, QueueInv, Occupants, Granted, InAcquire
  <1>2. CASE Return(t) /\ UNCHANGED <<lock, answer, queueVars>>
    BY <1>1, <1>2, AuthAssumption DEF QueueInv, Queued, Return, queueVars, Points, InAcquire, Holding
  <1>3. CASE /\ answer' = [answer EXCEPT ![t] = "granted"] /\ pc' = [pc EXCEPT ![t] = "verify"]
             /\ UNCHANGED <<lock, queueVars>>
    BY <1>1, <1>3, AuthAssumption
       DEF QueueInv, Queued, queueVars, Points, InAcquire, Holding, Occupants, Granted
  <1>4. CASE /\ waiters' = Append(waiters, t) /\ lock' = t /\ idx' = 1
             /\ pc' = [pc EXCEPT ![t] = "promoteEnter"] /\ UNCHANGED answer
    <2>1. waiters' \in Seq(Threads) /\ Range(waiters') = Range(waiters) \cup {t} /\ Distinct(waiters')
      BY <1>1, <1>4, AppendRange DEF QueueInv, Occupants, Queued
    <2>2. Queued' = Queued \cup {t}
      BY <2>1 DEF Queued
    <2>3. /\ lock' \in Threads \cup {Server, Nobody} /\ idx' \in Nat \ {0}
          /\ pc' \in [Threads -> Points] /\ peer' \in [Threads -> Peers]
          /\ answer' \in [Threads -> {"none", "granted", "denied"}] /\ woken' \subseteq Threads
      BY <1>1, <1>4 DEF QueueInv, Points
    <2>4. closed' \in BOOLEAN
      BY <1>1, Zenon DEF QueueInv
    <2>5. /\ answer[t] = "none" /\ \A u \in Threads \ {t} : pc[u] \notin Holding
      BY <1>1, AuthAssumption DEF QueueInv, InAcquire, Holding, Occupants, Granted
    <2>6. /\ \A u \in Threads : pc'[u] = IF u = t THEN "promoteEnter" ELSE pc[u]
          /\ \A u \in Threads : answer'[u] = answer[u] /\ (u \in Queued' <=> u \in Queued \/ u = t)
      BY <1>4, <2>2 DEF QueueInv
    <2>7. \A u \in Threads : pc'[u] \in Holding <=> lock' = u
      BY <1>4, <2>5, <2>6 DEF Holding
    <2>8. \A u \in Threads :
            /\ (u \in Queued' => answer'[u] = "none" /\ pc'[u] \in InAcquire)
            /\ ((answer'[u] = "none" /\ pc'[u] \in InAcquire) => u \in Queued')
            /\ (answer'[u] = "granted" => pc'[u] \in InAcquire \cup {"verify", "finish"})
            /\ (answer'[u] = "denied" => pc'[u] \in InAcquire)
            /\ (pc'[u] \in {"verify", "finish"} => answer'[u] = "granted")
      BY <2>5, <2>6 DEF QueueInv, InAcquire
    <2>9. QueueInv'
      BY <2>1, <2>3, <2>4, <2>7, <2>8 DEF QueueInv
    <2> QED
      BY <1>1, <1>4, <2>2, <2>9
  <1> QED
    BY <1>1, <1>2, <1>3, <1>4 DEF Acquire, queueVars

\* Steps that leave the queue, the leases and the table alone.
Quiet ==
  \/ \E t \in Threads, p \in Peers : Call(t, p)
  \/ \E t \in Threads : \/ AcquireClosed(t) \/ EnqueueDone(t) \/ Resume(t) \/ VerifyDone(t)
                        \/ FinishDone(t) \/ (LoopDone(t) /\ UNCHANGED <<table, waiters>>)
  \/ Close \/ CloseDone \/ Tick \/ UNCHANGED vars

QuietOutcome ==
  /\ QueueInv' /\ Granted' = Granted /\ waiters' = waiters
  /\ UNCHANGED <<active, total, known, table>>
  /\ \A t \in Occupants : peer'[t] = peer[t]

\* A thread whose waiter was answered leaves the lock; one that was not takes it again.
LEMMA AnsweredQueue ==
  ASSUME QueueInv, NEW t \in Threads, pc[t] \in InAcquire, lock \in {t, Nobody},
         Answered(t) \/ EnterLoop(t), idx' \in Nat \ {0}, woken' \subseteq Threads,
         UNCHANGED <<closed, active, total, known, table, peer, waiters>>
  PROVE  QuietOutcome
  <1>1. Queued' = Queued /\ lock \notin Threads \ {t} /\ Nobody \notin Threads
    BY AuthAssumption DEF Queued
  <1>2. CASE Answered(t)
    <2>1. /\ answer[t] \in {"granted", "denied"} /\ lock' = Nobody
          /\ \/ answer[t] = "granted" /\ pc' = [pc EXCEPT ![t] = "verify"] /\ answer' = answer
             \/ /\ answer[t] = "denied" /\ pc' = [pc EXCEPT ![t] = "idle"]
                /\ answer' = [answer EXCEPT ![t] = "none"]
      BY <1>2 DEF Answered
    <2>2. QueueInv'
      BY <1>1, <2>1 DEF QueueInv, Points, InAcquire, Holding
    <2>3. Granted' = Granted
      BY <2>1 DEF QueueInv, Granted
    <2> QED
      BY <2>2, <2>3 DEF QuietOutcome
  <1>3. CASE EnterLoop(t)
    <2>1. /\ answer[t] = "none" /\ lock' = t /\ pc' = [pc EXCEPT ![t] = "promoteLoop"]
          /\ answer' = answer
      BY <1>3 DEF EnterLoop
    <2>2. QueueInv'
      BY <1>1, <2>1 DEF QueueInv, Points, InAcquire, Holding
    <2> QED
      BY <2>1, <2>2 DEF QuietOutcome, Granted
  <1> QED
    BY <1>2, <1>3

LEMMA QuietQueue == ASSUME QueueInv, Quiet PROVE QuietOutcome
  <1>1. ASSUME NEW t \in Threads, EnqueueDone(t)
        PROVE  QuietOutcome
    <2>1. pc[t] \in InAcquire /\ lock = t /\ woken' \subseteq Threads
      BY <1>1 DEF EnqueueDone, Promoting, InAcquire, NotifyAll
    <2>2. idx' \in Nat \ {0}
      BY <1>1 DEF EnqueueDone, EnterLoop, QueueInv
    <2> QED
      BY <1>1, <2>1, <2>2, AnsweredQueue DEF EnqueueDone
  <1>2. ASSUME NEW t \in Threads, Resume(t)
        PROVE  QuietOutcome
    <2>1. pc[t] \in InAcquire /\ lock = Nobody /\ woken' \subseteq Threads
      BY <1>2 DEF Resume, InAcquire, QueueInv
    <2>2. idx' \in Nat \ {0}
      BY <1>2 DEF Resume, EnterLoop, QueueInv
    <2> QED
      BY <1>2, <2>1, <2>2, AnsweredQueue DEF Resume
  <1>3. ASSUME NEW t \in Threads, LoopDone(t), UNCHANGED <<table, waiters>>
        PROVE  QuietOutcome
    <2>1. pc[t] \in InAcquire /\ lock = t /\ pc[t] = "promoteLoop"
      BY <1>3 DEF LoopDone, Promoting, InAcquire
    <2>2. CASE Answered(t) /\ UNCHANGED <<total, known, table, waiters>>
      <3> UNCHANGED <<closed, active, peer>> /\ idx' \in Nat \ {0} /\ woken' \subseteq Threads
        BY <1>3 DEF LoopDone, QueueInv
      <3> QED
        BY <2>1, <2>2, AnsweredQueue
    <2>3. CASE GiveUp(t)
      <3>1. t \in Queued
        BY <2>1, <2>3 DEF GiveUp, QueueInv
      <3>2. PICK k \in 1 .. Len(waiters) : waiters[k] = t
        BY <3>1, RangeIs DEF Queued, QueueInv
      <3>3. waiters' = RemoveAt(waiters, k)
        BY <2>3, <3>2, RemoveFirstIs DEF GiveUp, QueueInv
      <3>4. Queued' # Queued
        BY <3>1, <3>2, <3>3, QueueShrinks
      <3> QED
        BY <1>3, <3>4 DEF Queued
    <2>4. CASE /\ answer[t] = "none" /\ pc' = [pc EXCEPT ![t] = "waiting"] /\ lock' = Nobody
               /\ UNCHANGED <<total, known, table, waiters, answer, deadline, waitDeadline>>
      <3> UNCHANGED <<closed, active, peer, idx, woken>>
        BY <1>3 DEF LoopDone
      <3> QED
        BY <2>1, <2>4, AuthAssumption DEF QuietOutcome, QueueInv, Queued, Granted, Points, InAcquire, Holding
    <2> QED
      BY <1>3, <2>2, <2>3, <2>4 DEF LoopDone
  <1> USE AuthAssumption DEF QuietOutcome, QueueInv, Queued, Granted, Occupants, Points, InAcquire, Holding
  <1>4. ASSUME NEW t \in Threads, NEW p \in Peers, Call(t, p)
        PROVE  QuietOutcome
    BY <1>4 DEF Call, queueVars
  <1>5. ASSUME NEW t \in Threads, AcquireClosed(t) \/ VerifyDone(t) \/ FinishDone(t)
        PROVE  QuietOutcome
    <2>1. CASE AcquireClosed(t)
      BY <2>1 DEF AcquireClosed, Return, queueVars
    <2>2. CASE VerifyDone(t)
      BY <2>2 DEF VerifyDone, queueVars
    <2>3. CASE FinishDone(t)
      BY <2>3 DEF FinishDone, Return, queueVars, Promoting, NotifyAll
    <2> QED
      BY <1>5, <2>1, <2>2, <2>3
  <1>6. CASE Close \/ CloseDone \/ Tick \/ UNCHANGED vars
    BY <1>6 DEF Close, CloseDone, Tick, vars, queueVars, NotifyAll
  <1> QED
    <2> HIDE DEF QuietOutcome, QueueInv
    <2> QED
      BY <1>1, <1>2, <1>3, <1>4, <1>5, <1>6 DEF Quiet

\* A waiter whose deadline has passed takes itself out of the queue.
LEMMA GiveUpQueue ==
  ASSUME QueueInv, NEW t \in Threads, LoopDone(t), GiveUp(t)
  PROVE  /\ QueueInv' /\ Granted' = Granted /\ peer' = peer
         /\ t \in Queued /\ Queued' = Queued \ {t}
  <1>1. t \in Queued /\ pc[t] = "promoteLoop" /\ lock = t /\ lock' = Nobody
    BY DEF LoopDone, Promoting, GiveUp, QueueInv, InAcquire
  <1>2. PICK k \in 1 .. Len(waiters) : waiters[k] = t
    BY <1>1, RangeIs DEF Queued, QueueInv
  <1>3. waiters' = RemoveAt(waiters, k)
    BY <1>2, RemoveFirstIs DEF GiveUp, QueueInv
  <1>4. waiters' \in Seq(Threads) /\ Distinct(waiters') /\ Queued' = Queued \ {t}
    BY <1>2, <1>3, QueueShrinks
  <1> QED
    BY <1>1, <1>4, AuthAssumption
       DEF LoopDone, GiveUp, Return, QueueInv, Granted, Points, InAcquire, Holding

LEMMA FinishQueue ==
  ASSUME QueueInv, NEW t \in Threads, NEW ok \in BOOLEAN, Finish(t, ok)
  PROVE  /\ QueueInv' /\ waiters' = waiters /\ peer' = peer
         /\ t \in Granted /\ t \notin Queued /\ Granted' = Granted \ {t}
  BY AuthAssumption DEF Finish, QueueInv, Queued, Granted, Points, InAcquire, Holding

LEMMA CloseQueue ==
  ASSUME QueueInv, CloseWaiter
  PROVE  /\ QueueInv' /\ Granted' = Granted /\ peer' = peer
         /\ Head(waiters) \in Queued /\ Queued' = Queued \ {Head(waiters)}
  <1> DEFINE w == Head(waiters)
  <1>1. waiters' = RemoveAt(waiters, 1) /\ w = waiters[1] /\ 1 \in 1 .. Len(waiters)
    BY TailIs DEF CloseWaiter, QueueInv
  <1>2. w \in Queued /\ w \in Threads /\ answer[w] = "none" /\ pc[w] \in InAcquire
    BY <1>1, QueuedAt
  <1>3. waiters' \in Seq(Threads) /\ Distinct(waiters') /\ Queued' = Queued \ {w}
    BY <1>1, QueueShrinks
  <1>4. /\ answer' = [answer EXCEPT ![w] = "denied"]
        /\ UNCHANGED <<lock, closed, pc, peer, woken, idx>>
    BY DEF CloseWaiter
  <1> HIDE DEF w
  <1>5. QueueInv' /\ Granted' = Granted
    BY <1>2, <1>3, <1>4 DEF QueueInv, Granted
  <1> QED
    BY <1>2, <1>3, <1>4, <1>5 DEF w
-----------------------------------------------------------------------------
\* The table counts exactly, step by step.

LEMMA OccupantsAre ==
  ASSUME QueueInv
  PROVE  /\ Granted \in SUBSET Threads /\ Queued \in SUBSET Threads /\ Occupants \in SUBSET Threads
         /\ Granted \in SUBSET Occupants /\ \A t \in Queued : t \notin Granted
  BY DEF Granted, Queued, Occupants, QueueInv

LEMMA QuietTable == ASSUME QueueInv, TableInv, QuietOutcome PROVE TableInv'
  <1>1. Granted' = Granted /\ Occupants' = Occupants
    BY DEF QuietOutcome, Occupants, Queued
  <1>2. \A p : Of(p, Granted)' = Of(p, Granted) /\ Of(p, Occupants)' = Of(p, Occupants)
    BY <1>1 DEF Of, QuietOutcome, Occupants
  <1> QED
    BY <1>1, <1>2 DEF TableInv, Counts, Bounded, QuietOutcome

\* The entry that a Reset leaves counts what it counted.
LEMMA ResetCounts ==
  ASSUME NEW e \in PeerState, NEW n \in Nat
  PROVE  /\ Reset(e, n) \in PeerState
         /\ Reset(e, n).verifying = e.verifying /\ Reset(e, n).outstanding = e.outstanding
  <1>1. CASE e.failures >= MaxFailures /\ n >= e.cooldownUntil
    <2>1. Reset(e, n) = [failures |-> 0, verifying |-> e.verifying, outstanding |-> e.outstanding,
                         cooldownUntil |-> 0, lastFailure |-> 0]
      BY <1>1 DEF Reset, PeerState
    <2> QED
      BY <2>1 DEF PeerState
  <1>2. CASE ~(e.failures >= MaxFailures /\ n >= e.cooldownUntil)
    BY <1>2 DEF Reset
  <1> QED
    BY <1>1, <1>2

\* A queued waiter leaves with its reservation.
LEMMA LeavesCounted ==
  ASSUME QueueInv, TableInv, NEW w \in Queued, peer' = peer, active' = active,
         Granted' = Granted, Queued' = Queued \ {w},
         NEW e \in PeerState, e.verifying = table[peer[w]].verifying,
         e.outstanding = table[peer[w]].outstanding,
         ReleaseReservation(peer[w], e)
  PROVE  TableInv'
  <1> DEFINE p == peer[w]
             d == [e EXCEPT !.outstanding = @ - 1]
             C == Occupants \ {w}
  <1>1. p \in known /\ p \in Peers /\ known \subseteq Peers
    BY DEF TableInv, Occupants
  <1>2. total' = total - 1 /\ Store(p, d)
    BY <1>1 DEF ReleaseReservation
  <1>3. w \in Occupants /\ Occupants' = C /\ Granted \in SUBSET C /\ C \in SUBSET Threads
        /\ Occupants \in SUBSET Threads
    BY OccupantsAre DEF Occupants
  <1>4. /\ Cardinality(C) = Cardinality(Occupants) - 1
        /\ \A q : Cardinality(Of(q, C)) = Cardinality(Of(q, Occupants)) - IF p = q THEN 1 ELSE 0
    BY <1>3, RemoveCounted
  <1>5. /\ d.verifying = Cardinality(Of(p, Granted)) /\ d.outstanding = Cardinality(Of(p, C))
        /\ d.outstanding <= PerPeerPending
        /\ d \in PeerState
    <2>1. Cardinality(Of(p, C)) \in Nat /\ Cardinality(Of(p, Occupants)) \in Nat
      BY <1>3, NobodyCounted
    <2>2. d.outstanding = e.outstanding - 1 /\ d.verifying = e.verifying
      BY DEF PeerState
    <2>3. e.outstanding = Cardinality(Of(p, Occupants)) /\ e.verifying = Cardinality(Of(p, Granted))
      BY <1>1 DEF TableInv, Counts
    <2>4. d.outstanding = Cardinality(Of(p, C))
      BY <1>4, <2>1, <2>2, <2>3
    <2>5. d \in PeerState
      BY <2>1, <2>2, <2>4 DEF PeerState
    <2>6. e.outstanding <= PerPeerPending /\ PerPeerPending \in Nat
      BY <1>1, AuthAssumption DEF TableInv, Bounded
    <2> QED
      BY <2>1, <2>2, <2>3, <2>4, <2>5, <2>6
  <1> HIDE DEF d, C, p
  <1>6. \A q \in Peers \ {p} : /\ table[q].verifying = Cardinality(Of(q, Granted))
                               /\ table[q].outstanding = Cardinality(Of(q, C))
    <2>0. \A q : Cardinality(Of(q, Occupants)) \in Nat
      BY <1>3, NobodyCounted
    <2>1. \A q \in Peers \ {p} : Cardinality(Of(q, C)) = Cardinality(Of(q, Occupants))
      BY <1>4, <2>0
    <2> QED
      BY <2>1 DEF TableInv, Counts
  <1>7. \A t \in C : peer[t] \in known
    BY DEF TableInv, C
  <1>8. /\ known' \subseteq Peers /\ table' \in [Peers -> PeerState]
        /\ \A q \in Peers \ known' : table'[q] = Fresh
        /\ \A q \in Peers : /\ table'[q].verifying = Cardinality(Of(q, Granted))
                            /\ table'[q].outstanding = Cardinality(Of(q, C))
                            /\ table'[q].outstanding <= PerPeerPending
        /\ \A t \in C : peer[t] \in known'
        /\ Cardinality(known') <= MaxPeers
    BY <1>1, <1>2, <1>3, <1>5, <1>6, <1>7, StoreCounts
  <1>9. \A q : Of(q, Granted)' = Of(q, Granted) /\ Of(q, Occupants)' = Of(q, C)
    BY <1>3 DEF Of
  <1>10. /\ active' = Cardinality(Granted') /\ total' = Cardinality(Occupants')
         /\ active' <= MaxActive /\ total' <= MaxPending
    <2>1. Cardinality(Occupants) \in Nat /\ MaxPending \in Nat
      BY <1>3, Finite, AuthAssumption
    <2>2. /\ active = Cardinality(Granted) /\ total = Cardinality(Occupants)
          /\ active <= MaxActive /\ total <= MaxPending
      BY DEF TableInv, Counts, Bounded
    <2>3. Cardinality(Occupants') = Cardinality(C)
      BY <1>3
    <2> QED
      BY <1>2, <1>4, <2>1, <2>2, <2>3
  <1> QED
    BY <1>3, <1>8, <1>9, <1>10 DEF TableInv, Counts, Bounded

\* A queued waiter is granted its lease.
LEMMA GrantCounted ==
  ASSUME QueueInv, TableInv, NEW w \in Queued, NEW n \in Nat, NEW e,
         e = Reset(table[peer[w]], n), CanStart(e, n),
         peer' = peer, Granted' = Granted \cup {w}, Queued' = Queued \ {w},
         active' = active + 1, UNCHANGED <<total, known>>,
         table' = [table EXCEPT ![peer[w]] = [e EXCEPT !.verifying = @ + 1]]
  PROVE  TableInv'
  <1> DEFINE p == peer[w]
             d == [e EXCEPT !.verifying = @ + 1]
             G == Granted \cup {w}
  <1>1. p \in known /\ p \in Peers
    BY DEF TableInv, Occupants
  <1>2. /\ e \in PeerState /\ e.verifying = table[p].verifying
        /\ e.outstanding = table[p].outstanding
    BY <1>1, ResetCounts DEF TableInv
  <1>3. /\ d \in PeerState /\ d.verifying = table[p].verifying + 1
        /\ d.outstanding = table[p].outstanding
    BY <1>2 DEF PeerState
  <1>4. /\ w \notin Granted /\ w \in Threads /\ Granted \in SUBSET Threads
        /\ Occupants' = Occupants /\ Granted' = G
    BY OccupantsAre DEF Occupants
  <1>5. /\ Cardinality(G) = Cardinality(Granted) + 1
        /\ \A q : Cardinality(Of(q, G)) = Cardinality(Of(q, Granted)) + IF p = q THEN 1 ELSE 0
    BY <1>4, AddCounted
  <1>6. \A q : Of(q, Granted)' = Of(q, G) /\ Of(q, Occupants)' = Of(q, Occupants)
    BY <1>4 DEF Of
  <1>7. active' <= MaxActive
    <2>1. active < MaxActive /\ active = Cardinality(Granted) /\ active \in Nat /\ MaxActive \in Nat
      BY <1>4, Finite, AuthAssumption DEF CanStart, TableInv, Counts
    <2> QED
      BY <2>1
  <1> HIDE DEF d, G, p
  <1>8. table' = [table EXCEPT ![p] = d]
    BY DEF d, p
  <1>9. \A q \in Peers : /\ table'[q].verifying = Cardinality(Of(q, G))
                         /\ table'[q].outstanding = table[q].outstanding
    <2>1. \A q \in Peers : table[q].verifying = Cardinality(Of(q, Granted))
      BY DEF TableInv, Counts
    <2>2. \A q : Cardinality(Of(q, Granted)) \in Nat
      BY <1>4, NobodyCounted
    <2>3. \A q \in Peers : table'[q] = IF q = p THEN d ELSE table[q]
      BY <1>8 DEF TableInv
    <2>4. \A q \in Peers \ {p} : Cardinality(Of(q, G)) = Cardinality(Of(q, Granted))
      BY <1>5, <2>2
    <2>5. Cardinality(Of(p, G)) = Cardinality(Of(p, Granted)) + 1
      BY <1>5
    <2> QED
      BY <1>1, <1>3, <2>1, <2>3, <2>4, <2>5
  <1>10. /\ table' \in [Peers -> PeerState] /\ known' = known
         /\ \A q \in Peers \ known' : table'[q] = Fresh
    BY <1>1, <1>3, <1>8 DEF TableInv
  <1>11. Counts(Granted, Occupants)'
    <2>1. /\ active = Cardinality(Granted) /\ total = Cardinality(Occupants)
          /\ \A q \in Peers : table[q].outstanding = Cardinality(Of(q, Occupants))
      BY DEF TableInv, Counts
    <2>2. active' = Cardinality(Granted') /\ total' = Cardinality(Occupants')
      BY <1>4, <1>5, <2>1
    <2>3. \A q \in Peers : /\ table'[q].verifying = Cardinality(Of(q, Granted)')
                           /\ table'[q].outstanding = Cardinality(Of(q, Occupants)')
      BY <1>6, <1>9, <2>1
    <2> QED
      BY <2>2, <2>3 DEF Counts
  <1>12. Bounded'
    BY <1>7, <1>9, <1>10 DEF TableInv, Bounded
  <1>13. \A t \in Occupants' : peer'[t] \in known'
    BY <1>4, <1>10 DEF TableInv
  <1> QED
    BY <1>10, <1>11, <1>12, <1>13 DEF TableInv

LEMMA PromoteTable ==
  ASSUME QueueInv, ClockInv, TableInv, NEW h \in Threads, PromoteStep(h)
  PROVE  TableInv'
  <1> DEFINE w == waiters[idx]
             p == peer[w]
             n == now[h]
             e == Reset(table[p], n)
  <1>1. idx \in 1 .. Len(waiters) /\ w \in Queued /\ peer' = peer /\ n \in Nat /\ w \in Threads
    BY PromoteQueue, QueuedAt DEF ClockInv
  <1>2. p \in known /\ p \in Peers /\ table[p] \in PeerState
    BY <1>1 DEF TableInv, Occupants
  <1>3. e \in PeerState /\ e.verifying = table[p].verifying /\ e.outstanding = table[p].outstanding
    BY <1>1, <1>2, ResetCounts
  <1>4. CASE /\ waiters' = RemoveAt(waiters, idx) /\ answer' = [answer EXCEPT ![w] = "denied"]
             /\ ReleaseReservation(p, e) /\ active' = active
    <2>1. Queued' = Queued \ {w}
      BY <1>1, <1>4, QueueShrinks
    <2>2. Granted' = Granted
      BY <1>1, <1>4, OccupantsAre DEF Granted, QueueInv
    <2> HIDE DEF e, w
    <2> QED
      BY <1>1, <1>3, <1>4, <2>1, <2>2, LeavesCounted
  <1>5. CASE /\ waiters' = RemoveAt(waiters, idx) /\ answer' = [answer EXCEPT ![w] = "granted"]
             /\ CanStart(e, n) /\ active' = active + 1 /\ UNCHANGED <<total, known>>
             /\ table' = [table EXCEPT ![p] = [e EXCEPT !.verifying = @ + 1]]
    <2>1. Queued' = Queued \ {w}
      BY <1>1, <1>5, QueueShrinks
    <2>2. Granted' = Granted \cup {w}
      BY <1>1, <1>5, OccupantsAre DEF Granted, QueueInv
    <2> HIDE DEF w
    <2> QED
      BY <1>1, <1>5, <2>1, <2>2, GrantCounted
  <1>6. CASE table' = [table EXCEPT ![p] = e] /\ UNCHANGED <<waiters, answer, active, total, known>>
    <2>1. Granted' = Granted /\ Occupants' = Occupants
      BY <1>6 DEF Granted, Occupants, Queued
    <2>2. \A q : Of(q, Granted)' = Of(q, Granted) /\ Of(q, Occupants)' = Of(q, Occupants)
      BY <1>1, <2>1 DEF Of
    <2> HIDE DEF e
    <2>3. table' \in [Peers -> PeerState]
          /\ \A q \in Peers : /\ table'[q].verifying = table[q].verifying
                              /\ table'[q].outstanding = table[q].outstanding
      BY <1>2, <1>3, <1>6 DEF TableInv
    <2> QED
      BY <1>1, <1>2, <1>6, <2>1, <2>2, <2>3 DEF TableInv, Counts, Bounded
  <1> QED
    BY <1>4, <1>5, <1>6 DEF PromoteStep

\* The entry after an attempt gives the lease back.
LEMMA FinishTable ==
  ASSUME QueueInv, ClockInv, TableInv, NEW t \in Threads, NEW ok \in BOOLEAN, Finish(t, ok)
  PROVE  TableInv'
  <1> DEFINE p == peer[t]
             n == now[t]
             d == Outcome(table[p], ok, n)
             G == Granted \ {t}
             C == Occupants \ {t}
  <1>1. /\ peer' = peer /\ t \in Granted /\ t \in Occupants /\ Granted' = G /\ Occupants' = C
        /\ G \in SUBSET C /\ C \in SUBSET Threads /\ Occupants \in SUBSET Threads
        /\ Granted \in SUBSET Threads /\ n \in Nat /\ Granted \in SUBSET Occupants
    BY FinishQueue, OccupantsAre DEF Occupants, ClockInv, Queued
  <1>2. p \in known /\ p \in Peers /\ table[p] \in PeerState
    BY <1>1 DEF TableInv
  <1>3. /\ Cardinality(C) = Cardinality(Occupants) - 1 /\ Cardinality(G) = Cardinality(Granted) - 1
        /\ \A q : /\ Cardinality(Of(q, C)) = Cardinality(Of(q, Occupants)) - IF p = q THEN 1 ELSE 0
                  /\ Cardinality(Of(q, G)) = Cardinality(Of(q, Granted)) - IF p = q THEN 1 ELSE 0
    BY <1>1, RemoveCounted
  <1>4. /\ \A q : /\ Cardinality(Of(q, C)) \in Nat /\ Cardinality(Of(q, G)) \in Nat
                  /\ Cardinality(Of(q, Occupants)) \in Nat /\ Cardinality(Of(q, Granted)) \in Nat
        /\ Cardinality(Occupants) \in Nat /\ Cardinality(Granted) \in Nat
    BY <1>1, NobodyCounted, Finite
  <1>5. \A q \in Peers : /\ table[q].verifying = Cardinality(Of(q, Granted))
                         /\ table[q].outstanding = Cardinality(Of(q, Occupants))
                         /\ table[q].outstanding <= PerPeerPending
    BY DEF TableInv, Counts, Bounded
  <1>6. PerPeerPending \in Nat /\ MaxActive \in Nat /\ MaxPending \in Nat /\ Cooldown \in Nat
    BY AuthAssumption
  <1>7. /\ d.verifying = Cardinality(Of(p, G)) /\ d.outstanding = Cardinality(Of(p, C))
        /\ d.outstanding <= PerPeerPending /\ d \in PeerState
    <2>1. d.verifying = table[p].verifying - 1 /\ d.outstanding = table[p].outstanding - 1
      BY DEF Outcome
    <2>2. d.verifying = Cardinality(Of(p, G)) /\ d.outstanding = Cardinality(Of(p, C))
      BY <1>2, <1>3, <1>4, <1>5, <2>1
    <2>3. d \in PeerState
      BY <1>1, <1>2, <1>4, <1>6, <2>2 DEF Outcome, PeerState
    <2> QED
      BY <1>2, <1>4, <1>5, <1>6, <2>1, <2>2, <2>3
  <1>8. Store(p, d) /\ active' = active - 1 /\ total' = total - 1
    BY DEF Finish
  <1> HIDE DEF d, C, G, p
  <1>9. \A q \in Peers \ {p} : /\ table[q].verifying = Cardinality(Of(q, G))
                               /\ table[q].outstanding = Cardinality(Of(q, C))
    BY <1>3, <1>4, <1>5
  <1>10. \A u \in C : peer[u] \in known
    BY DEF TableInv, C
  <1>11. /\ known' \subseteq Peers /\ table' \in [Peers -> PeerState]
         /\ \A q \in Peers \ known' : table'[q] = Fresh
         /\ \A q \in Peers : /\ table'[q].verifying = Cardinality(Of(q, G))
                             /\ table'[q].outstanding = Cardinality(Of(q, C))
                             /\ table'[q].outstanding <= PerPeerPending
         /\ \A u \in C : peer[u] \in known'
         /\ Cardinality(known') <= MaxPeers
    BY <1>1, <1>2, <1>7, <1>8, <1>9, <1>10, StoreCounts
  <1>12. \A q : Of(q, Granted)' = Of(q, G) /\ Of(q, Occupants)' = Of(q, C)
    BY <1>1 DEF Of
  <1>13. /\ active' = Cardinality(Granted') /\ total' = Cardinality(Occupants')
         /\ active' <= MaxActive /\ total' <= MaxPending
    <2>1. /\ active = Cardinality(Granted) /\ total = Cardinality(Occupants)
          /\ active <= MaxActive /\ total <= MaxPending
      BY DEF TableInv, Counts, Bounded
    <2>2. Cardinality(Granted') = Cardinality(G) /\ Cardinality(Occupants') = Cardinality(C)
      BY <1>1
    <2> QED
      BY <1>3, <1>4, <1>6, <1>8, <2>1, <2>2
  <1> QED
    BY <1>1, <1>11, <1>12, <1>13 DEF TableInv, Counts, Bounded

(***************************************************************************)
(* A pass over the table drops peers nobody counts on, and makes room for  *)
(* at most max_peers.                                                      *)
(***************************************************************************)
LEMMA LookupCounts ==
  ASSUME QueueInv, TableInv, NEW p \in Peers, NEW n \in Nat, lastPrune \in Nat
  PROVE  LET L == Lookup(p, n)
         IN  /\ L.room \in BOOLEAN /\ (L.room => p \in L.known)
             /\ L.known \subseteq Peers /\ Cardinality(L.known) <= MaxPeers /\ L.lastPrune \in Nat
             /\ L.table \in [Peers -> PeerState]
             /\ \A q \in Peers : /\ L.table[q].verifying = table[q].verifying
                                 /\ L.table[q].outstanding = table[q].outstanding
             /\ \A q \in Peers : L.table[q] = table[q] \/ (L.table[q] = Fresh /\ table[q].outstanding = 0
                                                           /\ (q \in known => q \in Prunable(n)))
             /\ \A q \in Peers \ L.known : L.table[q] = Fresh
             /\ \A t \in Occupants : peer[t] \in L.known
  <1> DEFINE due == n - lastPrune >= PruneInterval
             kept == IF due THEN known \ Prunable(n) ELSE known
             forced == p \notin kept /\ total < MaxPending /\ Cardinality(kept) >= MaxPeers
             left == IF forced THEN kept \ Prunable(n) ELSE kept
             room == p \in kept \/ (total < MaxPending /\ Cardinality(left) < MaxPeers)
             L == Lookup(p, n)
  <1>1. /\ L.room = room /\ L.known = IF room THEN left \cup {p} ELSE left
        /\ L.lastPrune = IF due \/ forced THEN n ELSE lastPrune
        /\ L.table = [q \in Peers |-> IF q \in left THEN table[q] ELSE Fresh]
    BY DEF Lookup
  <1>2. /\ left \subseteq known /\ (p \in kept => p \in left) /\ room \in BOOLEAN
        /\ \A q \in known \ left : q \in Prunable(n) /\ table[q].outstanding = 0
    BY DEF Prunable
  <1>3. L.lastPrune \in Nat
    BY <1>1
  <1>4. p \in left \/ Cardinality(left) < MaxPeers \/ ~room
    BY <1>2
  <1> HIDE DEF left, room, L, kept, forced, due
  <1>5. known \subseteq Peers /\ Cardinality(known) <= MaxPeers /\ MaxPeers \in Nat
    BY AuthAssumption DEF TableInv, Bounded
  <1>6. /\ left \in SUBSET Peers /\ L.known \in SUBSET Peers /\ known \in SUBSET Peers
        /\ IsFiniteSet(left) /\ Cardinality(left) \in Nat
        /\ IsFiniteSet(known) /\ Cardinality(known) \in Nat
    BY <1>1, <1>2, <1>5, Finite
  <1>7. Cardinality(left) <= Cardinality(known)
    BY <1>2, <1>6, FS_Subset
  <1>8. Cardinality(L.known) <= MaxPeers
    <2>1. CASE room /\ p \notin left
      <3>1. Cardinality(left \cup {p}) = Cardinality(left) + 1
        BY <1>6, <2>1, FS_AddElement
      <3> QED
        BY <1>1, <1>4, <1>5, <1>6, <2>1, <3>1
    <2>2. CASE ~(room /\ p \notin left)
      <3>1. L.known = left
        BY <1>1, <2>2
      <3> QED
        BY <1>5, <1>6, <1>7, <3>1
    <2> QED
      BY <2>1, <2>2
  <1>9. \A q \in Peers \ left : table[q].verifying = 0 /\ table[q].outstanding = 0
    <2> SUFFICES ASSUME NEW q \in Peers \ left PROVE table[q].verifying = 0 /\ table[q].outstanding = 0
      OBVIOUS
    <2>1. CASE q \in known
      <3>1. table[q].outstanding = 0
        BY <1>2, <2>1
      <3>2. Occupants \in SUBSET Threads /\ Granted \in SUBSET Threads /\ Granted \subseteq Occupants
        BY OccupantsAre
      <3>3. Of(q, Occupants) = {}
        BY <3>1, <3>2, NobodyCounted DEF TableInv, Counts
      <3>4. Of(q, Granted) = {}
        BY <3>2, <3>3 DEF Of
      <3> QED
        BY <3>1, <3>2, <3>4, NobodyCounted DEF TableInv, Counts
    <2>2. CASE q \notin known
      BY <2>2 DEF TableInv, Fresh
    <2> QED
      BY <2>1, <2>2
  <1>10. Fresh \in PeerState /\ Fresh.verifying = 0 /\ Fresh.outstanding = 0
    BY DEF Fresh, PeerState
  <1>11. /\ L.table \in [Peers -> PeerState]
         /\ \A q \in Peers : /\ L.table[q].verifying = table[q].verifying
                             /\ L.table[q].outstanding = table[q].outstanding
    BY <1>1, <1>9, <1>10 DEF TableInv
  <1>12. \A q \in Peers : L.table[q] = table[q] \/ (L.table[q] = Fresh /\ table[q].outstanding = 0
                                                    /\ (q \in known => q \in Prunable(n)))
    BY <1>1, <1>2, <1>9
  <1>13. \A t \in Occupants : peer[t] \in L.known
    <2> SUFFICES ASSUME NEW t \in Occupants PROVE peer[t] \in left
      BY <1>1
    <2>1. peer[t] \in known /\ peer[t] \in Peers
      BY DEF TableInv
    <2>2. Occupants \in SUBSET Threads /\ t \in Of(peer[t], Occupants)
      BY OccupantsAre DEF Of
    <2>3. table[peer[t]].outstanding # 0
      BY <2>1, <2>2, NobodyCounted DEF TableInv, Counts
    <2> QED
      BY <1>2, <2>1, <2>3
  <1>14. /\ L.room \in BOOLEAN /\ (L.room => p \in L.known)
         /\ \A q \in Peers \ L.known : L.table[q] = Fresh
    BY <1>1, <1>2
  <1> QED
    BY <1>3, <1>6, <1>8, <1>11, <1>12, <1>13, <1>14 DEF L

\* A new attempt is counted once, whether it starts or is queued.
LEMMA AcquireTable ==
  ASSUME QueueInv, ClockInv, TableInv, NEW t \in Threads, Acquire(t)
  PROVE  TableInv' /\ lastPrune' \in Nat
  <1> DEFINE p == peer[t]
             n == now[t]
             L == Lookup(p, n)
             e == IF L.room THEN Reset(L.table[p], n) ELSE Fresh
             r == [e EXCEPT !.outstanding = @ + 1]
             refused == ~L.room \/ Refused(e, n)
  <1>1. p \in Peers /\ n \in Nat /\ lastPrune \in Nat
    BY DEF QueueInv, ClockInv
  <1>2. /\ L.room \in BOOLEAN /\ (L.room => p \in L.known)
        /\ L.known \subseteq Peers /\ Cardinality(L.known) <= MaxPeers /\ L.lastPrune \in Nat
        /\ L.table \in [Peers -> PeerState]
        /\ \A q \in Peers : /\ L.table[q].verifying = table[q].verifying
                            /\ L.table[q].outstanding = table[q].outstanding
        /\ \A q \in Peers \ L.known : L.table[q] = Fresh
        /\ \A u \in Occupants : peer[u] \in L.known
    BY <1>1, LookupCounts
  <1>3. known' = L.known /\ lastPrune' = L.lastPrune /\ peer' = peer
    BY DEF Acquire
  <1>4. L.room => /\ e \in PeerState /\ e.verifying = table[p].verifying
                  /\ e.outstanding = table[p].outstanding
    <2> HIDE DEF L
    <2> QED
      BY <1>1, <1>2, ResetCounts
  <1>5. /\ t \in Threads \ Occupants /\ Occupants \in SUBSET Threads
        /\ t \in Threads \ Granted /\ Granted \in SUBSET Threads
    BY AcquireQueue, OccupantsAre DEF Occupants
  <1>6. /\ Cardinality(Occupants \cup {t}) = Cardinality(Occupants) + 1
        /\ Cardinality(Granted \cup {t}) = Cardinality(Granted) + 1
        /\ \A q : /\ Cardinality(Of(q, Occupants \cup {t}))
                       = Cardinality(Of(q, Occupants)) + IF p = q THEN 1 ELSE 0
                  /\ Cardinality(Of(q, Granted \cup {t}))
                       = Cardinality(Of(q, Granted)) + IF p = q THEN 1 ELSE 0
    BY <1>5, AddCounted
  <1>7. /\ \A q : Cardinality(Of(q, Occupants)) \in Nat /\ Cardinality(Of(q, Granted)) \in Nat
        /\ Cardinality(Occupants) \in Nat /\ Cardinality(Granted) \in Nat
    BY <1>5, NobodyCounted, Finite
  <1>8. /\ active = Cardinality(Granted) /\ total = Cardinality(Occupants)
        /\ active <= MaxActive /\ total <= MaxPending
        /\ \A q \in Peers : /\ table[q].verifying = Cardinality(Of(q, Granted))
                            /\ table[q].outstanding = Cardinality(Of(q, Occupants))
                            /\ table[q].outstanding <= PerPeerPending
    BY DEF TableInv, Counts, Bounded
  <1>9. PerPeerPending \in Nat /\ MaxActive \in Nat /\ MaxPending \in Nat
    BY AuthAssumption
  <1>10. ~refused => L.room /\ e.outstanding < PerPeerPending /\ total < MaxPending
    <2> HIDE DEF L, e
    <2> QED
      BY <1>4, <1>7, <1>8, <1>9, <1>1 DEF Refused
  <1>11. CASE /\ table' = [L.table EXCEPT ![p] = IF L.room THEN e ELSE @]
              /\ UNCHANGED <<active, total, answer, waiters>>
    <2>1. Granted' = Granted /\ Occupants' = Occupants
      BY <1>11 DEF Granted, Occupants, Queued
    <2>2. \A q : Of(q, Granted)' = Of(q, Granted) /\ Of(q, Occupants)' = Of(q, Occupants)
      BY <1>3, <2>1 DEF Of
    <2> HIDE DEF L, e
    <2>3. /\ table' \in [Peers -> PeerState]
          /\ \A q \in Peers : /\ table'[q].verifying = table[q].verifying
                              /\ table'[q].outstanding = table[q].outstanding
          /\ \A q \in Peers \ L.known : table'[q] = Fresh
      BY <1>1, <1>2, <1>4, <1>11
    <2> QED
      BY <1>2, <1>3, <1>8, <1>11, <2>1, <2>2, <2>3 DEF TableInv, Counts, Bounded
  <1>12. CASE /\ ~refused /\ CanStart(e, n) /\ active' = active + 1 /\ total' = total + 1
              /\ table' = [L.table EXCEPT ![p] = [r EXCEPT !.verifying = @ + 1]]
              /\ answer' = [answer EXCEPT ![t] = "granted"] /\ waiters' = waiters
    <2>1. Granted' = Granted \cup {t} /\ Occupants' = Occupants \cup {t}
      BY <1>12 DEF Granted, Occupants, Queued, QueueInv
    <2>2. \A q : /\ Of(q, Granted)' = Of(q, Granted \cup {t})
                 /\ Of(q, Occupants)' = Of(q, Occupants \cup {t})
      BY <1>3, <2>1 DEF Of
    <2> DEFINE d == [r EXCEPT !.verifying = @ + 1]
    <2>3. /\ d \in PeerState /\ d.verifying = table[p].verifying + 1
          /\ d.outstanding = table[p].outstanding + 1 /\ d.outstanding <= PerPeerPending
      <3> HIDE DEF L, e
      <3>0. e \in PeerState
        BY <1>4, <1>10, <1>12
      <3>1. r \in PeerState /\ r.verifying = e.verifying /\ r.outstanding = e.outstanding + 1
        BY <3>0 DEF PeerState
      <3>2. d \in PeerState /\ d.verifying = r.verifying + 1 /\ d.outstanding = r.outstanding
        <4> HIDE DEF r
        <4> QED
          BY <3>1 DEF PeerState
      <3> QED
        BY <1>1, <1>4, <1>7, <1>8, <1>9, <1>10, <1>12, <3>1, <3>2
    <2>4. active' <= MaxActive /\ total' <= MaxPending /\ L.room
      <3> HIDE DEF L, e
      <3> QED
        BY <1>7, <1>8, <1>9, <1>10, <1>12 DEF CanStart
    <2>5. table' = [L.table EXCEPT ![p] = d]
      BY <1>12
    <2> HIDE DEF L, e, r, d, refused
    <2>6. /\ table' \in [Peers -> PeerState]
          /\ \A q \in Peers : /\ table'[q].verifying = Cardinality(Of(q, Granted \cup {t}))
                              /\ table'[q].outstanding = Cardinality(Of(q, Occupants \cup {t}))
                              /\ table'[q].outstanding <= PerPeerPending
          /\ \A q \in Peers \ L.known : table'[q] = Fresh
      <3>1. \A q \in Peers : table'[q] = IF q = p THEN d ELSE L.table[q]
        BY <1>2, <2>5
      <3>2. \A q \in Peers \ {p} : /\ Cardinality(Of(q, Granted \cup {t})) = Cardinality(Of(q, Granted))
                                    /\ Cardinality(Of(q, Occupants \cup {t})) = Cardinality(Of(q, Occupants))
        <4> SUFFICES ASSUME NEW q \in Peers \ {p}
                     PROVE  /\ Cardinality(Of(q, Granted \cup {t})) = Cardinality(Of(q, Granted))
                            /\ Cardinality(Of(q, Occupants \cup {t})) = Cardinality(Of(q, Occupants))
          OBVIOUS
        <4>1. p # q
          OBVIOUS
        <4>2. /\ Cardinality(Of(q, Occupants \cup {t})) = Cardinality(Of(q, Occupants)) + 0
              /\ Cardinality(Of(q, Granted \cup {t})) = Cardinality(Of(q, Granted)) + 0
          BY <1>6, <4>1
        <4> QED
          BY <1>7, <4>2
      <3>3. /\ Cardinality(Of(p, Granted \cup {t})) = Cardinality(Of(p, Granted)) + 1
            /\ Cardinality(Of(p, Occupants \cup {t})) = Cardinality(Of(p, Occupants)) + 1
        BY <1>6
      <3>4. \A q \in Peers \ L.known : table'[q] = Fresh
        BY <1>2, <2>4, <3>1
      <3>5. table' \in [Peers -> PeerState]
        BY <1>2, <2>3, <2>5
      <3>6. ASSUME NEW q \in Peers \ {p}
            PROVE  /\ table'[q].verifying = Cardinality(Of(q, Granted \cup {t}))
                   /\ table'[q].outstanding = Cardinality(Of(q, Occupants \cup {t}))
                   /\ table'[q].outstanding <= PerPeerPending
        <4>1. /\ table'[q].verifying = table[q].verifying
              /\ table'[q].outstanding = table[q].outstanding
          BY <1>2, <3>1
        <4> QED
          BY <1>8, <3>2, <4>1
      <3>7. /\ table'[p].verifying = Cardinality(Of(p, Granted \cup {t}))
            /\ table'[p].outstanding = Cardinality(Of(p, Occupants \cup {t}))
            /\ table'[p].outstanding <= PerPeerPending
        BY <1>1, <1>8, <2>3, <3>1, <3>3
      <3> QED
        BY <3>4, <3>5, <3>6, <3>7
    <2> HIDE DEF p
    <2>7. \A u \in Occupants' : peer'[u] \in known'
      BY <1>2, <1>3, <2>1, <2>4 DEF p
    <2> QED
      BY <1>2, <1>3, <1>6, <1>8, <1>12, <2>1, <2>2, <2>4, <2>6, <2>7 DEF TableInv, Counts, Bounded
  <1>13. CASE /\ ~refused /\ active' = active /\ total' = total + 1
              /\ table' = [L.table EXCEPT ![p] = r]
              /\ answer' = answer /\ waiters' = Append(waiters, t)
    <2>1. Granted' = Granted /\ Occupants' = Occupants \cup {t}
      <3>1. Range(waiters') = Range(waiters) \cup {t}
        BY <1>13, AppendRange DEF QueueInv
      <3> QED
        BY <1>13, <3>1 DEF Granted, Occupants, Queued
    <2>2. \A q : Of(q, Granted)' = Of(q, Granted) /\ Of(q, Occupants)' = Of(q, Occupants \cup {t})
      BY <1>3, <2>1 DEF Of
    <2>3. /\ r \in PeerState /\ r.verifying = table[p].verifying
          /\ r.outstanding = table[p].outstanding + 1 /\ r.outstanding <= PerPeerPending
      <3> HIDE DEF L, e
      <3>1. r \in PeerState /\ r.verifying = e.verifying /\ r.outstanding = e.outstanding + 1
        BY <1>4, <1>10, <1>13 DEF PeerState
      <3> QED
        BY <1>1, <1>4, <1>7, <1>8, <1>9, <1>10, <1>13, <3>1
    <2>4. total' <= MaxPending /\ L.room
      <3> HIDE DEF L, e
      <3> QED
        BY <1>7, <1>8, <1>9, <1>10, <1>13
    <2>5. table' = [L.table EXCEPT ![p] = r]
      BY <1>13
    <2> HIDE DEF L, e, r, refused
    <2>6. /\ table' \in [Peers -> PeerState]
          /\ \A q \in Peers : /\ table'[q].verifying = Cardinality(Of(q, Granted))
                              /\ table'[q].outstanding = Cardinality(Of(q, Occupants \cup {t}))
                              /\ table'[q].outstanding <= PerPeerPending
          /\ \A q \in Peers \ L.known : table'[q] = Fresh
      <3>1. \A q \in Peers : table'[q] = IF q = p THEN r ELSE L.table[q]
        BY <1>2, <2>5
      <3>2. \A q \in Peers \ {p} : /\ Cardinality(Of(q, Granted \cup {t})) = Cardinality(Of(q, Granted))
                                    /\ Cardinality(Of(q, Occupants \cup {t})) = Cardinality(Of(q, Occupants))
        <4> SUFFICES ASSUME NEW q \in Peers \ {p}
                     PROVE  /\ Cardinality(Of(q, Granted \cup {t})) = Cardinality(Of(q, Granted))
                            /\ Cardinality(Of(q, Occupants \cup {t})) = Cardinality(Of(q, Occupants))
          OBVIOUS
        <4>1. p # q
          OBVIOUS
        <4>2. /\ Cardinality(Of(q, Occupants \cup {t})) = Cardinality(Of(q, Occupants)) + 0
              /\ Cardinality(Of(q, Granted \cup {t})) = Cardinality(Of(q, Granted)) + 0
          BY <1>6, <4>1
        <4> QED
          BY <1>7, <4>2
      <3>3. /\ Cardinality(Of(p, Granted \cup {t})) = Cardinality(Of(p, Granted)) + 1
            /\ Cardinality(Of(p, Occupants \cup {t})) = Cardinality(Of(p, Occupants)) + 1
        BY <1>6
      <3>4. \A q \in Peers \ L.known : table'[q] = Fresh
        BY <1>2, <2>4, <3>1
      <3>5. table' \in [Peers -> PeerState]
        BY <1>2, <2>3, <2>5
      <3>6. ASSUME NEW q \in Peers \ {p}
            PROVE  /\ table'[q].verifying = Cardinality(Of(q, Granted))
                   /\ table'[q].outstanding = Cardinality(Of(q, Occupants \cup {t}))
                   /\ table'[q].outstanding <= PerPeerPending
        <4>1. /\ table'[q].verifying = table[q].verifying
              /\ table'[q].outstanding = table[q].outstanding
          BY <1>2, <3>1
        <4> QED
          BY <1>8, <3>2, <4>1
      <3>7. /\ table'[p].verifying = Cardinality(Of(p, Granted))
            /\ table'[p].outstanding = Cardinality(Of(p, Occupants \cup {t}))
            /\ table'[p].outstanding <= PerPeerPending
        BY <1>1, <1>8, <2>3, <3>1, <3>3
      <3> QED
        BY <3>4, <3>5, <3>6, <3>7
    <2> HIDE DEF p
    <2>7. \A u \in Occupants' : peer'[u] \in known'
      BY <1>2, <1>3, <2>1, <2>4 DEF p
    <2> QED
      BY <1>2, <1>3, <1>6, <1>8, <1>13, <2>1, <2>2, <2>4, <2>6, <2>7 DEF TableInv, Counts, Bounded
  <1>14. \/ /\ table' = [L.table EXCEPT ![p] = IF L.room THEN e ELSE @]
            /\ UNCHANGED <<active, total, answer, waiters>>
         \/ /\ ~refused /\ CanStart(e, n) /\ active' = active + 1 /\ total' = total + 1
            /\ table' = [L.table EXCEPT ![p] = [r EXCEPT !.verifying = @ + 1]]
            /\ answer' = [answer EXCEPT ![t] = "granted"] /\ waiters' = waiters
         \/ /\ ~refused /\ active' = active /\ total' = total + 1
            /\ table' = [L.table EXCEPT ![p] = r]
            /\ answer' = answer /\ waiters' = Append(waiters, t)
    BY DEF Acquire, queueVars
  <1>15. lastPrune' \in Nat
    BY <1>2, <1>3
  <1> QED
    BY <1>11, <1>12, <1>13, <1>14, <1>15
-----------------------------------------------------------------------------
\* A thread's readings are replaced by the present time or dropped.
LEMMA StampedClock ==
  ASSUME ClockInv, NEW t \in Threads, clock' = clock, lastPrune' \in Nat,
         \E r \in {0, clock} : now' = now \/ now' = [now EXCEPT ![t] = r],
         \E x \in Nat : deadline' = deadline \/ deadline' = [deadline EXCEPT ![t] = x],
         \E x \in Nat : waitDeadline' = waitDeadline \/ waitDeadline' = [waitDeadline EXCEPT ![t] = x]
  PROVE  ClockInv' /\ clock <= clock'
  <1>1. now' \in [Threads -> Nat] /\ \A u \in Threads : now'[u] <= clock
    BY DEF ClockInv
  <1>2. deadline' \in [Threads -> Nat] /\ waitDeadline' \in [Threads -> Nat]
    BY DEF ClockInv
  <1> QED
    BY <1>1, <1>2 DEF ClockInv

\* Clock readings are taken from a clock that only moves on.
LEMMA ClockKeeps ==
  ASSUME QueueInv, ClockInv, TableInv, [Next]_vars
  PROVE  ClockInv' /\ clock <= clock'
  <1> USE DEF ClockInv, QueueInv
  <1>0. WaitTimeout \in Nat
    BY AuthAssumption
  <1>1. ASSUME NEW t \in Threads, NEW p \in Peers, Call(t, p)
        PROVE  ClockInv' /\ clock <= clock'
    BY <1>1 DEF Call, queueVars
  <1>2. ASSUME NEW t \in Threads, PromoteStep(t) \/ VerifyDone(t) \/ FinishDone(t)
        PROVE  ClockInv' /\ clock <= clock'
    <2>1. /\ UNCHANGED <<clock, lastPrune, deadline, waitDeadline>>
          /\ \E r \in {0, clock} : now' = now \/ now' = [now EXCEPT ![t] = r]
      BY <1>2 DEF PromoteStep, VerifyDone, FinishDone, Return, queueVars
    <2> QED
      BY <2>1, StampedClock
  <1>3. ASSUME NEW t \in Threads, EnqueueDone(t) \/ LoopDone(t)
        PROVE  ClockInv' /\ clock <= clock'
    <2>1. /\ UNCHANGED <<clock, lastPrune>>
          /\ \E r \in {0, clock} : now' = now \/ now' = [now EXCEPT ![t] = r]
          /\ deadline' = deadline \/ deadline' = [deadline EXCEPT ![t] = 0]
          /\ waitDeadline' = waitDeadline \/ waitDeadline' = [waitDeadline EXCEPT ![t] = 0]
      BY <1>3 DEF EnqueueDone, LoopDone, Answered, EnterLoop, GiveUp, Return
    <2> QED
      BY <2>1, StampedClock
  <1>4. ASSUME NEW t \in Threads, AcquireClosed(t) \/ Resume(t)
        PROVE  ClockInv' /\ clock <= clock'
    <2>1. /\ UNCHANGED <<clock, lastPrune>>
          /\ \E r \in {0, clock} : now' = now \/ now' = [now EXCEPT ![t] = r]
          /\ deadline' = deadline \/ deadline' = [deadline EXCEPT ![t] = 0]
          /\ waitDeadline' = waitDeadline \/ waitDeadline' = [waitDeadline EXCEPT ![t] = 0]
      BY <1>4 DEF AcquireClosed, Resume, Return, Answered, EnterLoop, queueVars
    <2> QED
      BY <2>1, StampedClock
  <1>5. ASSUME NEW t \in Threads, Acquire(t)
        PROVE  ClockInv' /\ clock <= clock'
    <2>1. lastPrune' \in Nat /\ clock' = clock
      <3> HIDE DEF ClockInv, QueueInv
      <3> QED
        BY <1>5, AcquireTable DEF Acquire
    <2>2. UNCHANGED <<deadline, waitDeadline>>
           \/ /\ deadline' = [deadline EXCEPT ![t] = now[t] + WaitTimeout]
              /\ waitDeadline' = [waitDeadline EXCEPT ![t] = clock + WaitTimeout]
      BY <1>5 DEF Acquire, queueVars
    <2>3. now' = now \/ now' = [now EXCEPT ![t] = 0]
      BY <1>5 DEF Acquire, Return
    <2>4. now[t] + WaitTimeout \in Nat /\ clock + WaitTimeout \in Nat
      BY <1>0
    <2>5. \E x \in Nat : deadline' = deadline \/ deadline' = [deadline EXCEPT ![t] = x]
      BY <2>2, <2>4
    <2>6. \E x \in Nat : waitDeadline' = waitDeadline \/ waitDeadline' = [waitDeadline EXCEPT ![t] = x]
      BY <2>2, <2>4
    <2> QED
      BY <2>1, <2>3, <2>5, <2>6, StampedClock
  <1>6. ASSUME NEW t \in Threads, NEW ok \in BOOLEAN, Finish(t, ok)
        PROVE  ClockInv' /\ clock <= clock'
    BY <1>6 DEF Finish
  <1>7. CASE Close \/ CloseWaiter \/ CloseDone \/ Tick \/ UNCHANGED vars
    <2>1. UNCHANGED <<lastPrune, now, deadline, waitDeadline>> /\ clock' \in {clock, clock + 1}
      <3> HIDE DEF ClockInv, QueueInv
      <3> QED
        BY <1>7 DEF Close, CloseWaiter, CloseDone, Tick, vars, queueVars
    <2> HIDE DEF QueueInv
    <2> QED
      BY <2>1
  <1> QED
    <2> HIDE DEF ClockInv, QueueInv
    <2> QED
      BY <1>1, <1>2, <1>3, <1>4, <1>5, <1>6, <1>7 DEF Next, Running, Locking

\* Every step is quiet, or one of six.
LEMMA StepKinds ==
  ASSUME [Next]_vars
  PROVE  \/ Quiet
         \/ \E t \in Threads : PromoteStep(t) \/ Acquire(t) \/ \E ok \in BOOLEAN : Finish(t, ok)
         \/ \E t \in Threads : LoopDone(t) /\ GiveUp(t)
         \/ CloseWaiter
  <1>1. ASSUME NEW t \in Threads, LoopDone(t)
        PROVE  (LoopDone(t) /\ GiveUp(t)) \/ (LoopDone(t) /\ UNCHANGED <<table, waiters>>)
    BY <1>1 DEF LoopDone
  <1> QED
    BY <1>1 DEF Quiet, Next, Running, Locking

LEMMA AdmissionStep == ASSUME AdmissionInv, [Next]_vars PROVE AdmissionInv'
  <1>1. QueueInv /\ ClockInv /\ TableInv /\ ClockInv'
    BY ClockKeeps DEF AdmissionInv
  <1>2. CASE Quiet
    BY <1>1, <1>2, QuietQueue, QuietTable DEF AdmissionInv, QuietOutcome
  <1>3. ASSUME NEW t \in Threads, PromoteStep(t)
        PROVE  AdmissionInv'
    BY <1>1, <1>3, PromoteQueue, PromoteTable DEF AdmissionInv
  <1>4. ASSUME NEW t \in Threads, Acquire(t)
        PROVE  AdmissionInv'
    BY <1>1, <1>4, AcquireQueue, AcquireTable DEF AdmissionInv
  <1>5. ASSUME NEW t \in Threads, NEW ok \in BOOLEAN, Finish(t, ok)
        PROVE  AdmissionInv'
    BY <1>1, <1>5, FinishQueue, FinishTable DEF AdmissionInv
  <1>6. ASSUME NEW t \in Threads, LoopDone(t), GiveUp(t)
        PROVE  AdmissionInv'
    <2>1. /\ QueueInv' /\ Granted' = Granted /\ peer' = peer
          /\ t \in Queued /\ Queued' = Queued \ {t}
      BY <1>1, <1>6, GiveUpQueue
    <2>2. peer[t] \in Peers /\ table[peer[t]] \in PeerState
      BY <1>1 DEF QueueInv, TableInv
    <2>3. ReleaseReservation(peer[t], table[peer[t]]) /\ active' = active
      BY <1>6 DEF GiveUp, LoopDone
    <2>4. TableInv'
      BY <1>1, <2>1, <2>2, <2>3, LeavesCounted
    <2> QED
      BY <1>1, <2>1, <2>4 DEF AdmissionInv
  <1>7. CASE CloseWaiter
    <2> DEFINE w == Head(waiters)
    <2>1. /\ QueueInv' /\ Granted' = Granted /\ peer' = peer
          /\ w \in Queued /\ Queued' = Queued \ {w}
      BY <1>1, <1>7, CloseQueue
    <2>2. peer[w] \in Peers /\ table[peer[w]] \in PeerState
      BY <1>1, <2>1, OccupantsAre DEF QueueInv, TableInv
    <2>3. ReleaseReservation(peer[w], table[peer[w]]) /\ active' = active
      BY <1>7 DEF CloseWaiter
    <2> HIDE DEF w
    <2>4. TableInv'
      BY <1>1, <2>1, <2>2, <2>3, LeavesCounted
    <2> QED
      BY <1>1, <2>1, <2>4 DEF AdmissionInv
  <1> QED
    BY <1>2, <1>3, <1>4, <1>5, <1>6, <1>7, StepKinds

LEMMA EmptyRange ==
  ASSUME NEW S, NEW s \in Seq(S), Len(s) = 0
  PROVE  Range(s) = {} /\ 1 .. Len(s) = {}
  <1>1. 1 .. Len(s) = {}
    OBVIOUS
  <1>2. Range(s) = {s[i] : i \in 1 .. Len(s)}
    BY RangeIs
  <1> QED
    BY <1>1, <1>2

LEMMA NoneQueued == waiters = <<>> => Queued = {} /\ 1 .. Len(waiters) = {}
  <1>1. <<>> \in Seq(Threads) /\ Len(<<>>) = 0
    BY EmptySeq
  <1>2. Range(<<>>) = {} /\ 1 .. Len(<<>>) = {}
    BY <1>1, EmptyRange
  <1> QED
    BY <1>2 DEF Queued

LEMMA AdmissionStarts == Init => AdmissionInv
  <1> SUFFICES ASSUME Init PROVE AdmissionInv
    OBVIOUS
  <1>1. QueueInv
    <2>1. waiters = <<>> /\ waiters \in Seq(Threads) /\ Len(waiters) = 0
      BY EmptySeq DEF Init
    <2>2. Queued = {} /\ Distinct(waiters)
      BY <2>1, NoneQueued DEF Distinct
    <2>3. /\ pc = [t \in Threads |-> "idle"] /\ answer = [t \in Threads |-> "none"]
          /\ lock = Nobody /\ Nobody \notin Threads /\ woken = {} /\ idx = 1
          /\ peer \in [Threads -> Peers]
      BY AuthAssumption DEF Init
    <2>4. \A t \in Threads : pc[t] = "idle" /\ answer[t] = "none" /\ lock # t /\ t \notin Queued
      BY <2>2, <2>3
    <2>5. /\ lock \in Threads \cup {Server, Nobody} /\ idx \in Nat \ {0} /\ woken \subseteq Threads
      BY DEF Init
    <2>7. closed \in BOOLEAN
      BY Zenon DEF Init
    <2>6. pc \in [Threads -> Points] /\ answer \in [Threads -> {"none", "granted", "denied"}]
      BY <2>3 DEF Points
    <2> QED
      BY <2>1, <2>2, <2>3, <2>4, <2>5, <2>6, <2>7 DEF QueueInv, InAcquire, Holding
  <1>2. ClockInv
    BY DEF Init, ClockInv
  <1>3. TableInv
    <2>1. Granted = {} /\ Occupants = {}
      <3>1. Queued = {}
        BY NoneQueued DEF Init
      <3> QED
        BY <3>1 DEF Init, Granted, Occupants
    <2>2. /\ Cardinality({}) = 0 /\ \A p : Of(p, {}) = {}
      BY FS_EmptySet DEF Of
    <2>3. {MaxActive, MaxPending, MaxPeers, PerPeerPending} \subseteq Nat
      BY AuthAssumption
    <2>4. /\ known = {} /\ active = 0 /\ total = 0
          /\ table = [p \in Peers |-> Fresh]
          /\ Fresh \in PeerState /\ Fresh.verifying = 0 /\ Fresh.outstanding = 0
      BY DEF Init, Fresh, PeerState
    <2>5. Counts(Granted, Occupants)
      BY <2>1, <2>2, <2>4 DEF Counts
    <2>6. Bounded
      BY <2>2, <2>3, <2>4 DEF Bounded
    <2> QED
      BY <2>1, <2>4, <2>5, <2>6 DEF TableInv
  <1> QED
    BY <1>1, <1>2, <1>3 DEF AdmissionInv

(***************************************************************************)
(* The table of peers and its counters are sound and exact, within their   *)
(* bounds, and have everybody in them who still counts on it, however many *)
(* calls overlap and however stale their clock readings are.               *)
(***************************************************************************)
THEOREM AuthTableSound == Spec => []TableSound
  <1>1. AdmissionInv => TableSound
    <2> SUFFICES ASSUME AdmissionInv PROVE TableSound
      OBVIOUS
    <2> USE DEF AdmissionInv
    <2>1. active \in Nat /\ total \in Nat
      BY OccupantsAre, Finite DEF TableInv, Counts
    <2>2. TypeOK
      BY <2>1 DEF TypeOK, QueueInv, ClockInv, TableInv, Points
    <2>3. Accounting /\ ReservedPeersKept /\ Bounded
      BY DEF TableInv, Counts, Accounting, ReservedPeersKept, Occupants
    <2> QED
      BY <2>2, <2>3 DEF TableSound
  <1> QED
    BY <1>1, AdmissionStarts, AdmissionStep, PTL DEF Spec
-----------------------------------------------------------------------------
(***************************************************************************)
(* What a step may do to the failures counted for a peer: keep them,       *)
(* forget them when they no longer bind, or finish one of its attempts.    *)
(***************************************************************************)
LockedUntil(e) == e.failures >= MaxFailures => e.cooldownUntil = e.lastFailure + Cooldown

SameFailures(e, f) ==
  f.failures = e.failures /\ f.cooldownUntil = e.cooldownUntil /\ f.lastFailure = e.lastFailure

Forgets(e, f) ==
  /\ f.failures = 0
  /\ \/ e.failures = 0
     \/ e.failures >= MaxFailures /\ e.cooldownUntil <= clock
     \/ e.outstanding = 0 /\ e.lastFailure + Cooldown <= clock

KeepsFailures(q) == SameFailures(table[q], table'[q]) \/ Forgets(table[q], table'[q])

LEMMA ResetFailures ==
  ASSUME NEW e \in PeerState, NEW n \in Nat, clock \in Nat, n <= clock
  PROVE  /\ Reset(e, n) \in PeerState
         /\ SameFailures(e, Reset(e, n)) \/ Forgets(e, Reset(e, n))
  <1>1. CASE e.failures >= MaxFailures /\ n >= e.cooldownUntil
    <2>1. Reset(e, n).failures = 0
      BY <1>1 DEF Reset, PeerState
    <2> QED
      BY <1>1, <2>1, ResetCounts DEF Forgets, PeerState
  <1>2. CASE ~(e.failures >= MaxFailures /\ n >= e.cooldownUntil)
    BY <1>2 DEF Reset, SameFailures
  <1> QED
    BY <1>1, <1>2

LEMMA StoreFailures ==
  ASSUME TableInv, NEW p \in Peers, NEW d, Store(p, d),
         SameFailures(table[p], d) \/ Forgets(table[p], d), NEW q \in Peers
  PROVE  KeepsFailures(q)
  <1>1. CASE Idle(d)
    <2>1. table'[q] = IF q = p THEN Fresh ELSE table[q]
      BY <1>1 DEF Store, TableInv
    <2>2. Forgets(table[p], Fresh)
      BY <1>1 DEF Forgets, SameFailures, Idle, Fresh
    <2> QED
      BY <2>1, <2>2 DEF KeepsFailures, SameFailures
  <1>2. CASE ~Idle(d)
    <2>1. table'[q] = IF q = p THEN d ELSE table[q]
      BY <1>2 DEF Store, TableInv
    <2> QED
      BY <2>1 DEF KeepsFailures, SameFailures
  <1> QED
    BY <1>1, <1>2

LEMMA ReleaseFailures ==
  ASSUME TableInv, NEW p \in Peers, NEW e \in PeerState, ReleaseReservation(p, e),
         SameFailures(table[p], e) \/ Forgets(table[p], e), NEW q \in Peers
  PROVE  KeepsFailures(q)
  <1>1. CASE p \in known
    <2> DEFINE d == [e EXCEPT !.outstanding = @ - 1]
    <2>1. Store(p, d)
      BY <1>1 DEF ReleaseReservation
    <2>2. SameFailures(e, d)
      BY DEF SameFailures, PeerState
    <2> HIDE DEF d
    <2>3. SameFailures(table[p], d) \/ Forgets(table[p], d)
      BY <2>2 DEF SameFailures, Forgets
    <2> QED
      BY <2>1, <2>3, StoreFailures
  <1>2. CASE p \notin known
    BY <1>2 DEF ReleaseReservation, KeepsFailures, SameFailures
  <1> QED
    BY <1>1, <1>2

LEMMA PromoteFailures ==
  ASSUME AdmissionInv, NEW h \in Threads, PromoteStep(h), NEW q \in Peers
  PROVE  KeepsFailures(q)
  <1> DEFINE w == waiters[idx]
             p == peer[w]
             n == now[h]
             e == Reset(table[p], n)
  <1> USE DEF AdmissionInv
  <1>1. w \in Threads /\ p \in Peers /\ n \in Nat /\ n <= clock /\ clock \in Nat
    BY PromoteQueue, QueuedAt DEF ClockInv, QueueInv
  <1>2. e \in PeerState /\ (SameFailures(table[p], e) \/ Forgets(table[p], e))
    BY <1>1, ResetFailures DEF TableInv
  <1> HIDE DEF e
  <1>3. CASE ReleaseReservation(p, e)
    BY <1>1, <1>2, <1>3, ReleaseFailures
  <1>4. CASE table' = [table EXCEPT ![p] = [e EXCEPT !.verifying = @ + 1]]
    <2> DEFINE d == [e EXCEPT !.verifying = @ + 1]
    <2>1. SameFailures(e, d)
      BY <1>2 DEF SameFailures, PeerState
    <2>2. table'[q] = IF q = p THEN d ELSE table[q]
      BY <1>4 DEF TableInv
    <2> HIDE DEF d
    <2> QED
      BY <1>2, <2>1, <2>2 DEF KeepsFailures, SameFailures, Forgets
  <1>5. CASE table' = [table EXCEPT ![p] = e]
    <2>1. table'[q] = IF q = p THEN e ELSE table[q]
      BY <1>5 DEF TableInv
    <2> QED
      BY <1>2, <2>1 DEF KeepsFailures, SameFailures
  <1> QED
    BY <1>3, <1>4, <1>5 DEF PromoteStep, e

LEMMA AcquireFailures ==
  ASSUME AdmissionInv, NEW t \in Threads, Acquire(t), NEW q \in Peers
  PROVE  KeepsFailures(q)
  <1> DEFINE p == peer[t]
             n == now[t]
             L == Lookup(p, n)
             e == IF L.room THEN Reset(L.table[p], n) ELSE Fresh
             r == [e EXCEPT !.outstanding = @ + 1]
  <1> USE DEF AdmissionInv
  <1>1. p \in Peers /\ n \in Nat /\ n <= clock /\ clock \in Nat /\ lastPrune \in Nat /\ Cooldown \in Nat
    BY AuthAssumption DEF QueueInv, ClockInv
  <1>2. /\ L.room \in BOOLEAN /\ L.table \in [Peers -> PeerState]
        /\ \A x \in Peers : L.table[x] = table[x] \/ (L.table[x] = Fresh /\ table[x].outstanding = 0
                                                      /\ (x \in known => x \in Prunable(n)))
    BY <1>1, LookupCounts
  <1> HIDE DEF L
  <1>3. \A x \in Peers : SameFailures(table[x], L.table[x]) \/ Forgets(table[x], L.table[x])
    <2> SUFFICES ASSUME NEW x \in Peers, L.table[x] # table[x]
                 PROVE  Forgets(table[x], L.table[x])
      BY DEF SameFailures
    <2>1. L.table[x] = Fresh /\ table[x].outstanding = 0 /\ (x \in known => x \in Prunable(n))
      BY <1>2
    <2>2. table[x].failures \in Nat /\ table[x].lastFailure \in Nat
      BY DEF TableInv, PeerState
    <2>3. CASE x \in known
      <3>1. ~(table[x].failures > 0 /\ n - table[x].lastFailure < Cooldown)
        BY <2>1, <2>3 DEF Prunable
      <3> QED
        BY <1>1, <2>1, <2>2, <3>1 DEF Forgets, Fresh
    <2>4. CASE x \notin known
      BY <2>1, <2>4 DEF TableInv, Forgets, Fresh
    <2> QED
      BY <2>3, <2>4
  <1>4. L.room => e \in PeerState /\ (SameFailures(L.table[p], e) \/ Forgets(L.table[p], e))
    BY <1>1, <1>2, ResetFailures
  <1>5. L.room => SameFailures(table[p], e) \/ Forgets(table[p], e)
    <2>1. ASSUME L.room, SameFailures(table[p], L.table[p])
          PROVE  SameFailures(table[p], e) \/ Forgets(table[p], e)
      <3>1. L.table[p] = table[p] \/ L.table[p] = Fresh
        BY <1>1, <1>2
      <3>2. CASE L.table[p] = table[p]
        BY <1>4, <2>1, <3>2
      <3>3. CASE L.table[p] = Fresh
        BY <1>4, <2>1, <3>3 DEF SameFailures, Forgets, Fresh
      <3> QED
        BY <3>1, <3>2, <3>3
    <2>2. ASSUME L.room, Forgets(table[p], L.table[p])
          PROVE  SameFailures(table[p], e) \/ Forgets(table[p], e)
      BY <1>4, <2>2 DEF SameFailures, Forgets
    <2> QED
      BY <1>1, <1>3, <2>1, <2>2
  <1> HIDE DEF e
  <1>6. \E d : /\ table' = [L.table EXCEPT ![p] = d]
               /\ SameFailures(table[p], d) \/ Forgets(table[p], d)
    <2>1. CASE table' = [L.table EXCEPT ![p] = IF L.room THEN e ELSE @]
      <3>1. table' = [L.table EXCEPT ![p] = IF L.room THEN e ELSE L.table[p]]
        BY <1>1, <1>2, <2>1
      <3> QED
        BY <1>1, <1>3, <1>5, <3>1
    <2>2. CASE L.room /\ table' = [L.table EXCEPT ![p] = [r EXCEPT !.verifying = @ + 1]]
      <3>1. SameFailures(e, [r EXCEPT !.verifying = @ + 1])
        <4>1. SameFailures(e, r) /\ r \in [failures : Nat, verifying : Nat, outstanding : Int,
                                           cooldownUntil : Nat, lastFailure : Nat]
          BY <1>4, <2>2 DEF SameFailures, PeerState
        <4> HIDE DEF r
        <4> QED
          BY <4>1 DEF SameFailures
      <3> HIDE DEF r
      <3> QED
        BY <1>5, <2>2, <3>1 DEF SameFailures, Forgets
    <2>3. CASE L.room /\ table' = [L.table EXCEPT ![p] = r]
      <3>1. SameFailures(e, r)
        BY <1>4, <2>3 DEF SameFailures, PeerState
      <3> HIDE DEF r
      <3> QED
        BY <1>5, <2>3, <3>1 DEF SameFailures, Forgets
    <2> QED
      BY <2>1, <2>2, <2>3 DEF Acquire, L, e
  <1>7. PICK d : /\ table' = [L.table EXCEPT ![p] = d]
                 /\ SameFailures(table[p], d) \/ Forgets(table[p], d)
    BY <1>6
  <1>8. table'[q] = IF q = p THEN d ELSE L.table[q]
    BY <1>2, <1>7
  <1> QED
    BY <1>3, <1>7, <1>8 DEF KeepsFailures

LEMMA FinishFailures ==
  ASSUME AdmissionInv, NEW t \in Threads, NEW ok \in BOOLEAN, Finish(t, ok), NEW q \in Peers
  PROVE  \/ KeepsFailures(q)
         \/ q = peer[t] /\ table[q].verifying > 0 /\ LockedUntil(table'[q])
  <1> DEFINE d == Outcome(table[peer[t]], ok, now[t])
  <1> USE DEF AdmissionInv
  <1>1. peer[t] \in Peers /\ now[t] \in Nat /\ t \in Granted /\ MaxFailures \in Nat \ {0} /\ Cooldown \in Nat
    BY FinishQueue, LimitsAreNaturals DEF QueueInv, ClockInv
  <1>2. table'[q] = IF q = peer[t] THEN IF Idle(d) THEN Fresh ELSE d ELSE table[q]
    BY DEF Finish, Store, TableInv
  <1>3. CASE q = peer[t]
    <2>1. Granted \in SUBSET Threads /\ t \in Of(q, Granted)
      BY <1>1, <1>3, OccupantsAre DEF Of
    <2>2. table[q].verifying > 0
      BY <2>1, NobodyCounted DEF TableInv, Counts
    <2>3. table[q] \in PeerState
      BY DEF TableInv
    <2>4. LockedUntil(Fresh)
      BY <1>1 DEF LockedUntil, Fresh
    <2>5. LockedUntil(d)
      BY <1>1, <1>3, <2>3 DEF LockedUntil, Outcome, PeerState
    <2> QED
      BY <1>2, <1>3, <2>2, <2>4, <2>5
  <1>4. CASE q # peer[t]
    BY <1>2, <1>4 DEF KeepsFailures, SameFailures
  <1> QED
    BY <1>3, <1>4

LEMMA StepFailures ==
  ASSUME AdmissionInv, [Next]_vars, NEW q \in Peers
  PROVE  KeepsFailures(q) \/ (table[q].verifying > 0 /\ LockedUntil(table'[q]))
  <1> USE DEF AdmissionInv
  <1>1. ASSUME UNCHANGED table
        PROVE  KeepsFailures(q)
    BY <1>1 DEF KeepsFailures, SameFailures
  <1>2. CASE Quiet
    BY <1>1, <1>2, QuietQueue DEF QuietOutcome
  <1>3. ASSUME NEW t \in Threads, LoopDone(t), GiveUp(t)
        PROVE  KeepsFailures(q)
    <2>1. peer[t] \in Peers /\ table[peer[t]] \in PeerState
      BY DEF QueueInv, TableInv
    <2> QED
      BY <1>3, <2>1, ReleaseFailures DEF GiveUp, SameFailures
  <1>4. CASE CloseWaiter
    <2> DEFINE w == Head(waiters)
    <2>1. peer[w] \in Peers /\ table[peer[w]] \in PeerState
      BY <1>4, CloseQueue, OccupantsAre DEF QueueInv, TableInv
    <2>2. ReleaseReservation(peer[w], table[peer[w]])
      BY <1>4 DEF CloseWaiter
    <2> HIDE DEF w
    <2> QED
      BY <2>1, <2>2, ReleaseFailures DEF SameFailures
  <1> QED
    BY <1>2, <1>3, <1>4, PromoteFailures, AcquireFailures, FinishFailures, StepKinds
-----------------------------------------------------------------------------
(***************************************************************************)
(* Decisions that last.  After close() the queue is empty as soon as the   *)
(* closing thread gives the lock back, so that there is nobody left to     *)
(* promote; and the end of a lockout is its last failure plus the          *)
(* cooldown, so that pruning, which looks at the last failure, cannot      *)
(* forget a lockout before its end.                                        *)
(***************************************************************************)
Drained == (closed /\ lock # Server) => Queued = {}

LockoutsTimed == \A p \in Peers : LockedUntil(table[p])

DecisionsInv == AdmissionInv /\ LockoutBound /\ LockoutsTimed /\ Drained

\* Only close() closes, and it keeps the lock until the queue is empty.
LEMMA QuietCloses ==
  ASSUME QueueInv, Quiet
  PROVE  \/ lock' = Server
         \/ closed' = closed /\ (lock = Server => waiters = <<>>)
  <1> USE AuthAssumption DEF QueueInv
  <1>1. ASSUME NEW t \in Threads, NEW p \in Peers, Call(t, p)
        PROVE  closed' = closed /\ lock' = lock
    BY <1>1 DEF Call
  <1>2. ASSUME NEW t \in Threads,
               AcquireClosed(t) \/ EnqueueDone(t) \/ Resume(t) \/ FinishDone(t) \/ LoopDone(t)
        PROVE  closed' = closed /\ lock # Server
    BY <1>2 DEF AcquireClosed, EnqueueDone, Resume, FinishDone, LoopDone, Promoting
  <1>3. ASSUME NEW t \in Threads, VerifyDone(t)
        PROVE  closed' = closed /\ lock' = lock
    BY <1>3 DEF VerifyDone
  <1>4. Close => lock' = Server
    BY DEF Close
  <1>5. CloseDone => closed' = closed /\ waiters = <<>>
    BY DEF CloseDone
  <1>6. Tick \/ UNCHANGED vars => closed' = closed /\ lock' = lock
    BY DEF Tick, vars
  <1> QED
    BY <1>1, <1>2, <1>3, <1>4, <1>5, <1>6 DEF Quiet

LEMMA DrainStep ==
  ASSUME QueueInv, Drained, [Next]_vars
  PROVE  Drained' /\ (closed => Granted' \subseteq Granted)
  <1> USE AuthAssumption
  <1>1. CASE Quiet
    <2>1. Granted' = Granted /\ Queued' = Queued
      BY <1>1, QuietQueue DEF QuietOutcome, Queued
    <2> QED
      BY <1>1, <2>1, QuietCloses, NoneQueued DEF Drained
  <1>2. ASSUME NEW h \in Threads, PromoteStep(h)
        PROVE  Drained' /\ ~closed
    <2>1. lock = h /\ closed' = closed /\ waiters[idx] \in Queued
      BY <1>2, PromoteQueue DEF PromoteStep, Promoting
    <2> QED
      BY <2>1 DEF Drained
  <1>3. ASSUME NEW t \in Threads, Acquire(t)
        PROVE  Drained' /\ ~closed
    BY <1>3 DEF Acquire, Drained
  <1>4. ASSUME NEW t \in Threads, NEW ok \in BOOLEAN, Finish(t, ok)
        PROVE  Drained' /\ Granted' \subseteq Granted
    <2>1. lock = Nobody /\ closed' = closed /\ Queued' = Queued /\ Granted' \subseteq Granted
      BY <1>4, FinishQueue DEF Finish, Queued
    <2> QED
      BY <2>1 DEF Drained
  <1>5. ASSUME NEW t \in Threads, LoopDone(t), GiveUp(t)
        PROVE  Drained' /\ Granted' \subseteq Granted
    <2>1. lock = t /\ closed' = closed /\ Queued' \subseteq Queued /\ Granted' = Granted
      BY <1>5, GiveUpQueue DEF LoopDone, Promoting
    <2> QED
      BY <2>1 DEF Drained
  <1>6. CASE CloseWaiter
    <2>1. lock' = Server /\ Granted' = Granted
      BY <1>6, CloseQueue DEF CloseWaiter
    <2> QED
      BY <2>1 DEF Drained
  <1> QED
    BY <1>1, <1>2, <1>3, <1>4, <1>5, <1>6, StepKinds

\* The invariant of AuthLockoutBound, from the exact one.
LEMMA BoundKept ==
  ASSUME AdmissionInv, LockoutBound, [Next]_vars
  PROVE  LockoutBound'
  <1>1. PeerState \subseteq Entry
    BY DEF PeerState, Entry
  <1>2. LockoutInv
    BY <1>1 DEF AdmissionInv, QueueInv, ClockInv, TableInv, LockoutInv, EntriesTyped
  <1> QED
    BY <1>2, NextKeepsTable DEF TableKept

LEMMA TimesKept ==
  ASSUME AdmissionInv, LockoutsTimed, [Next]_vars
  PROVE  LockoutsTimed'
  <1> SUFFICES ASSUME NEW q \in Peers PROVE LockedUntil(table'[q])
    BY DEF LockoutsTimed, LockedUntil
  <1>1. KeepsFailures(q) => LockedUntil(table'[q])
    BY AuthAssumption DEF KeepsFailures, SameFailures, Forgets, LockoutsTimed, LockedUntil
  <1> QED
    BY <1>1, StepFailures

LEMMA LockoutHolds ==
  ASSUME DecisionsInv, DecisionsInv', [Next]_vars, NEW p \in Peers,
         table[p].failures >= MaxFailures, clock < table[p].cooldownUntil
  PROVE  table'[p].failures >= MaxFailures /\ table'[p].verifying = 0
  <1>1. /\ table[p] \in PeerState /\ table'[p] \in PeerState
        /\ table[p].failures + table[p].verifying <= MaxFailures
        /\ table'[p].failures + table'[p].verifying <= MaxFailures
        /\ table[p].cooldownUntil = table[p].lastFailure + Cooldown
        /\ MaxFailures \in Nat \ {0} /\ clock \in Nat
    BY AuthAssumption
       DEF DecisionsInv, AdmissionInv, TableInv, ClockInv, LockoutBound, LockoutsTimed, LockedUntil
  <1>2. KeepsFailures(p)
    BY <1>1, StepFailures DEF DecisionsInv, PeerState
  <1>3. table'[p].failures >= MaxFailures
    BY <1>1, <1>2 DEF KeepsFailures, SameFailures, Forgets, PeerState
  <1> QED
    BY <1>1, <1>3 DEF PeerState

(***************************************************************************)
(* A lockout lasts until its cooldown has passed, whatever is pruned,      *)
(* dropped, finished late or computed with a stale clock reading, and      *)
(* after close() nobody, queued or new, is admitted any more.              *)
(***************************************************************************)
THEOREM AuthDecisionsLast == Spec => DecisionsLast
  <1>1. Init => DecisionsInv
    <2> SUFFICES ASSUME Init PROVE DecisionsInv
      OBVIOUS
    <2>1. \A p \in Peers : table[p] = Fresh
      BY DEF Init
    <2>2. LockoutBound /\ LockoutsTimed
      BY <2>1, AuthAssumption DEF LockoutBound, LockoutsTimed, LockedUntil, Fresh
    <2>3. Drained
      BY Zenon DEF Init, Drained
    <2> QED
      BY <2>2, <2>3, AdmissionStarts DEF DecisionsInv
  <1>2. DecisionsInv /\ [Next]_vars => DecisionsInv'
    BY AdmissionStep, BoundKept, TimesKept, DrainStep DEF DecisionsInv, AdmissionInv
  <1>3. DecisionsInv /\ [Next]_vars => (closed => Granted' \subseteq Granted)
    BY DrainStep DEF DecisionsInv, AdmissionInv
  <1>4. DecisionsInv /\ DecisionsInv' /\ [Next]_vars =>
          [\A p \in Peers :
             (table[p].failures >= MaxFailures /\ clock < table[p].cooldownUntil)
               => /\ table'[p].failures >= MaxFailures
                  /\ table'[p].verifying = 0]_vars
    BY LockoutHolds
  <1> QED
    BY <1>1, <1>2, <1>3, <1>4, PTL DEF Spec, DecisionsLast, CooldownHolds, ClosedDrains
-----------------------------------------------------------------------------
(***************************************************************************)
(* Who is queued is served.  A waiter is settled when an attempt of its    *)
(* own peer, still running, leaves it no guess to start.  Whoever holds    *)
(* the lock in the first promotion of acquire() or in that of finish() is  *)
(* sweeping: what it has passed is settled, and it will notify everybody.  *)
(* At all other times the whole queue is settled, which is why the         *)
(* promotion of the wait loop never grants and need not notify.            *)
(***************************************************************************)
Sweeping ==
  lock = Server \/ (lock \in Threads /\ pc[lock] \in {"promoteEnter", "promoteFinish"})

Settled(t) ==
  /\ table[peer[t]].verifying > 0
  /\ table[peer[t]].failures + table[peer[t]].verifying = MaxFailures

QueueSettled ==
  (active < MaxActive /\ lock # Server) =>
    IF Sweeping THEN \A k \in 1 .. Len(waiters) : k < idx => Settled(waiters[k])
                ELSE \A t \in Queued : Settled(t)

SleepersCalled ==
  \A t \in Threads : (pc[t] = "waiting" /\ answer[t] # "none") =>
    Sweeping \/ t \in woken \/ deadline[t] <= clock \/ waitDeadline[t] <= clock

ServedInv == AdmissionInv /\ LockoutBound /\ QueueSettled /\ SleepersCalled

\* A settled waiter stays settled while its peer's attempts are the same.
LEMMA SettledKept ==
  ASSUME AdmissionInv, TableInv', QueueInv', NEW t \in Threads, Settled(t), peer'[t] = peer[t],
         Of(peer[t], Granted') = Of(peer[t], Granted), peer' = peer, KeepsFailures(peer[t])
  PROVE  Settled(t)'
  <1> DEFINE p == peer[t]
  <1>1. /\ p \in Peers /\ table[p] \in PeerState /\ table'[p] \in PeerState
        /\ MaxFailures \in Nat \ {0}
    BY AuthAssumption DEF AdmissionInv, QueueInv, TableInv
  <1>2. table[p].verifying = Cardinality(Of(p, Granted))
    BY <1>1 DEF AdmissionInv, TableInv, Counts
  <1>3. Of(p, Granted)' = Of(p, Granted)
    BY DEF Of
  <1>4. table'[p].verifying = Cardinality(Of(p, Granted)')
    BY <1>1 DEF TableInv, Counts, Of
  <1>5. table[p].verifying <= table[p].outstanding
    <2>1. table[p].outstanding = Cardinality(Of(p, Occupants))
      BY <1>1 DEF AdmissionInv, TableInv, Counts
    <2>2. Cardinality(Of(p, Granted)) <= Cardinality(Of(p, Occupants))
      BY OccupantsAre, FewerCounted DEF AdmissionInv
    <2> QED
      BY <1>2, <2>1, <2>2
  <1>6. table[p].verifying > 0 /\ table[p].failures + table[p].verifying = MaxFailures
    BY DEF Settled
  <1>7. table'[p].failures = table[p].failures
    BY <1>1, <1>5, <1>6 DEF KeepsFailures, SameFailures, Forgets, PeerState
  <1>8. table'[p].verifying = table[p].verifying
    BY <1>2, <1>3, <1>4
  <1> QED
    BY <1>6, <1>7, <1>8 DEF Settled

\* Nobody's attempts change, so nobody is unsettled.
LEMMA AllSettledKept ==
  ASSUME AdmissionInv, TableInv', QueueInv', peer' = peer, Granted' = Granted,
         \A q \in Peers : KeepsFailures(q), NEW t \in Threads, Settled(t)
  PROVE  Settled(t)'
  <1>1. peer[t] \in Peers
    BY DEF AdmissionInv, QueueInv
  <1> QED
    BY <1>1, SettledKept

\* A peer with a settled waiter may not start, and its lockout has not begun.
LEMMA SettledWaits ==
  ASSUME NEW e \in PeerState, NEW n, e.verifying > 0, e.failures + e.verifying = MaxFailures
  PROVE  Reset(e, n) = e /\ ~CanStart(e, n) /\ ~Cooling(e, n)
  BY AuthAssumption DEF Reset, CanStart, Cooling, PeerState

LEMMA PromoteSettled ==
  ASSUME AdmissionInv, AdmissionInv', NEW h \in Threads, PromoteStep(h), NEW u \in Threads, Settled(u)
  PROVE  Settled(u)'
  <1> DEFINE w == waiters[idx]
  <1>1. /\ w \in Threads /\ peer' = peer /\ peer[u] \in Peers /\ peer[w] \in Peers
        /\ w \in Queued /\ \A q \in Peers : KeepsFailures(q)
    BY PromoteQueue, PromoteFailures, QueuedAt DEF AdmissionInv, QueueInv
  <1>2. TableInv' /\ QueueInv'
    BY DEF AdmissionInv
  <1>3. CASE peer[u] = peer[w]
    <2>1. ~CanStart(Reset(table[peer[w]], now[h]), now[h])
      BY <1>1, <1>3, SettledWaits DEF Settled, AdmissionInv, TableInv
    <2>2. answer' = [answer EXCEPT ![w] = "denied"] \/ answer' = answer
      BY <2>1 DEF PromoteStep
    <2>3. Granted' = Granted
      BY <1>1, <2>2, QueuedAt, PromoteQueue DEF Granted, AdmissionInv, QueueInv
    <2> QED
      BY <1>1, <1>2, <2>3, AllSettledKept
  <1>4. CASE peer[u] # peer[w]
    <2>1. \/ answer' = answer \/ answer' = [answer EXCEPT ![w] = "denied"]
          \/ answer' = [answer EXCEPT ![w] = "granted"]
      BY DEF PromoteStep
    <2>2. Of(peer[u], Granted') = Of(peer[u], Granted)
      <3>1. answer \in [Threads -> {"none", "granted", "denied"}] /\ answer[w] = "none"
        BY <1>1 DEF AdmissionInv, QueueInv
      <3>2. \A x \in Threads \ {w} : x \in Granted' <=> x \in Granted
        BY <2>1, <3>1 DEF Granted
      <3>3. Granted \subseteq Threads /\ Granted' \subseteq Threads
        BY DEF Granted
      <3> QED
        <4>1. \A x : (x \in Granted' /\ peer'[x] = peer[u]) <=> (x \in Granted /\ peer[x] = peer[u])
          BY <1>1, <1>4, <3>2, <3>3
        <4> HIDE DEF w
        <4> QED
          BY <1>1, <4>1 DEF Of
    <2> QED
      BY <1>1, <1>2, <2>2, SettledKept
  <1> QED
    BY <1>3, <1>4

\* A waiter that is passed over cannot start, and that is what settled means.
LEMMA SkippedSettled ==
  ASSUME AdmissionInv, LockoutBound', NEW h \in Threads, PromoteStep(h), waiters' = waiters,
         idx' = idx + 1, NEW w, w = waiters[idx]
  PROVE  Settled(w)'
  <1> DEFINE p == peer[w]
             n == now[h]
             e == Reset(table[p], n)
  <1>1. /\ w \in Threads /\ p \in Peers /\ n \in Nat /\ n <= clock /\ clock \in Nat
        /\ peer' = peer /\ active < MaxActive /\ idx \in Nat
    BY PromoteQueue, QueuedAt DEF AdmissionInv, ClockInv, QueueInv, PromoteStep, MorePromotion
  <1>2. e \in PeerState
    BY <1>1, ResetFailures DEF AdmissionInv, TableInv
  <1>3. ~Cooling(e, n) /\ ~CanStart(e, n) /\ table' = [table EXCEPT ![p] = e]
    BY <1>1 DEF PromoteStep
  <1>4. table'[p] = e
    BY <1>1, <1>3 DEF AdmissionInv, TableInv
  <1>5. e.failures < MaxFailures
    BY <1>1, <1>2, <1>3, AuthAssumption DEF Reset, Cooling, PeerState, AdmissionInv, TableInv
  <1>6. e.failures + e.verifying <= MaxFailures
    BY <1>1, <1>4 DEF LockoutBound
  <1> HIDE DEF e
  <1>7. e.verifying > 0 /\ e.failures + e.verifying = MaxFailures
    BY <1>1, <1>2, <1>3, <1>5, <1>6, AuthAssumption DEF CanStart, PeerState
  <1> QED
    BY <1>1, <1>4, <1>7 DEF Settled


\* What the quiet steps leave settled: a sweep ends only at the end of the queue.
LEMMA QuietSettles ==
  ASSUME QueueInv, Quiet, QueueSettled, active < MaxActive, lock' # Server
  PROVE  IF Sweeping' THEN \A k \in 1 .. Len(waiters) : k < idx' => Settled(waiters[k])
                      ELSE \A t \in Queued : Settled(t)
  <1> DEFINE All == \A t \in Queued : Settled(t)
  <1> USE DEF QueueInv
  <1>0. Server \notin Threads /\ Nobody \notin Threads /\ Server # Nobody
    BY AuthAssumption
  <1>1. All => \A k \in 1 .. Len(waiters) : Settled(waiters[k])
    BY QueuedAt
  <1>2. (~Sweeping /\ lock # Server) => All
    BY DEF QueueSettled
  <1>3. ASSUME NEW t \in Threads, EnqueueDone(t) \/ FinishDone(t)
        PROVE  All
    <2>1. /\ lock = t /\ pc[t] \in {"promoteEnter", "promoteFinish"}
          /\ ~(active < MaxActive /\ idx <= Len(waiters))
      BY <1>3 DEF EnqueueDone, FinishDone, Promoting, MorePromotion
    <2>2. \A k \in 1 .. Len(waiters) : Settled(waiters[k])
      BY <1>0, <2>1 DEF QueueSettled, Sweeping
    <2> QED
      BY <2>2, RangeIs DEF Queued
  <1>4. ASSUME NEW t \in Threads, LoopDone(t) \/ Resume(t) \/ AcquireClosed(t)
        PROVE  All
    <2>1. lock = Nobody \/ (lock = t /\ pc[t] = "promoteLoop")
      BY <1>4 DEF LoopDone, Resume, AcquireClosed, Promoting
    <2> QED
      BY <1>0, <1>2, <2>1 DEF Sweeping
  <1>5. CASE CloseDone
    <2>1. Queued = {} /\ 1 .. Len(waiters) = {}
      BY <1>5, NoneQueued DEF CloseDone
    <2> QED
      BY <2>1
  <1>6. ASSUME UNCHANGED <<lock, idx>>, lock # Server, Sweeping' <=> Sweeping
        PROVE  IF Sweeping' THEN \A k \in 1 .. Len(waiters) : k < idx' => Settled(waiters[k])
                            ELSE All
    BY <1>6 DEF QueueSettled
  <1>7. ASSUME NEW t \in Threads, NEW p \in Peers, Call(t, p)
        PROVE  UNCHANGED <<lock, idx>> /\ lock # Server /\ (Sweeping' <=> Sweeping)
    <2>1. /\ UNCHANGED <<lock, idx>> /\ pc[t] = "idle" /\ pc' = [pc EXCEPT ![t] = "entry"]
      BY <1>7 DEF Call, queueVars
    <2> QED
      BY <2>1 DEF Sweeping, Holding
  <1>8. ASSUME NEW t \in Threads, VerifyDone(t)
        PROVE  UNCHANGED <<lock, idx>> /\ lock # Server /\ (Sweeping' <=> Sweeping)
    <2>1. /\ UNCHANGED <<lock, idx>> /\ pc[t] = "verify" /\ pc' = [pc EXCEPT ![t] = "finish"]
      BY <1>8 DEF VerifyDone, queueVars
    <2> QED
      BY <2>1 DEF Sweeping, Holding
  <1>9. CASE Tick \/ UNCHANGED vars
    <2>1. UNCHANGED <<lock, idx, pc>>
      BY <1>9 DEF Tick, vars, queueVars
    <2> QED
      BY <1>6, <2>1 DEF Sweeping
  <1>10. ~Close
    BY DEF Close
  <1> HIDE DEF All
  <1>11. All => IF Sweeping' THEN \A k \in 1 .. Len(waiters) : k < idx' => Settled(waiters[k])
                             ELSE \A t \in Queued : Settled(t)
    BY <1>1 DEF All
  <1> QED
    BY <1>3, <1>4, <1>5, <1>6, <1>7, <1>8, <1>9, <1>10, <1>11 DEF Quiet, All

LEMMA SettledStep ==
  ASSUME ServedInv, AdmissionInv', LockoutBound', [Next]_vars
  PROVE  QueueSettled'
  <1> USE DEF ServedInv, AdmissionInv
  <1>0. Server \notin Threads /\ Nobody \notin Threads /\ Server # Nobody
    BY AuthAssumption
  <1>1. CASE Quiet
    <2>1. /\ waiters' = waiters /\ active' = active /\ table' = table
          /\ \A t \in Occupants : peer'[t] = peer[t]
      BY <1>1, QuietQueue DEF QuietOutcome
    <2>2. \A t \in Queued : Settled(t)' <=> Settled(t)
      BY <2>1 DEF Settled, Occupants
    <2>3. Queued' = Queued /\ \A k \in 1 .. Len(waiters) : waiters'[k] \in Queued
      BY <2>1, QueuedAt DEF Queued
    <2>4. \A k \in 1 .. Len(waiters) : Settled(waiters[k])' <=> Settled(waiters[k])
      BY <2>1, <2>3 DEF Settled, Occupants
    <2>5. ASSUME active < MaxActive, lock' # Server
          PROVE  IF Sweeping' THEN \A k \in 1 .. Len(waiters) : k < idx' => Settled(waiters[k])
                              ELSE \A t \in Queued : Settled(t)
      BY <1>1, <2>5, QuietSettles
    <2> QED
      BY <2>1, <2>2, <2>3, <2>4, <2>5 DEF QueueSettled
  <1>2. ASSUME NEW h \in Threads, PromoteStep(h)
        PROVE  QueueSettled'
    <2>1. /\ lock = h /\ UNCHANGED <<lock, pc>> /\ active < MaxActive /\ idx \in 1 .. Len(waiters)
          /\ idx \in Nat /\ waiters \in Seq(Threads) /\ Len(waiters) \in Nat
      BY <1>2, PromoteQueue DEF PromoteStep, Promoting, MorePromotion, QueueInv
    <2>2. Sweeping' <=> Sweeping
      BY <2>1 DEF Sweeping
    <2>3. /\ Sweeping => \A k \in 1 .. Len(waiters) : k < idx => Settled(waiters[k])
          /\ ~Sweeping => \A t \in Queued : Settled(t)
      BY <1>0, <2>1 DEF QueueSettled
    <2>4. \A u \in Threads : Settled(u) => Settled(u)'
      BY <1>2, PromoteSettled
    <2>5. \/ waiters' = waiters /\ idx' = idx + 1
          \/ waiters' = RemoveAt(waiters, idx) /\ idx' = idx /\ Queued' = Queued \ {waiters[idx]}
      BY <1>2, PromoteQueue
    <2>6. \A k \in 1 .. Len(waiters) : waiters[k] \in Threads
      BY <2>1
    <2>7. ASSUME ~Sweeping
          PROVE  \A t \in Queued' : Settled(t)'
      <3>1. Queued' \subseteq Queued /\ Queued \subseteq Threads
        BY <2>5 DEF Queued
      <3> QED
        BY <2>3, <2>4, <2>7, <3>1
    <2>8. ASSUME Sweeping, NEW k \in 1 .. Len(waiters'), k < idx', NEW u, u = waiters'[k]
          PROVE  Settled(u)'
      <3>1. CASE waiters' = waiters /\ idx' = idx + 1
        <4>1. CASE k = idx
          BY <1>2, <2>8, <3>1, <4>1, SkippedSettled
        <4>2. CASE k < idx
          BY <2>3, <2>4, <2>6, <2>8, <3>1, <4>2
        <4> QED
          BY <2>1, <2>8, <3>1, <4>1, <4>2
      <3>2. CASE waiters' = RemoveAt(waiters, idx) /\ idx' = idx
        <4>1. /\ Len(waiters') = Len(waiters) - 1
              /\ \A i \in 1 .. Len(waiters) - 1 :
                   waiters'[i] = IF i < idx THEN waiters[i] ELSE waiters[i + 1]
          BY <2>1, <3>2, RemoveAtIs
        <4>2. k \in 1 .. Len(waiters) - 1 /\ k < idx
          BY <2>8, <3>2, <4>1
        <4>3. k \in 1 .. Len(waiters) /\ waiters'[k] = waiters[k]
          BY <2>1, <4>1, <4>2
        <4> QED
          BY <2>3, <2>4, <2>6, <2>8, <4>2, <4>3
      <3> QED
        BY <2>5, <3>1, <3>2
    <2>9. ASSUME Sweeping
          PROVE  (\A k \in 1 .. Len(waiters) : k < idx => Settled(waiters[k]))'
      <3>1. \A k \in 1 .. Len(waiters') : k < idx' => \A u : u = waiters'[k] => Settled(u)'
        BY <2>8, <2>9
      <3> QED
        BY <3>1 DEF Settled
    <2> QED
      BY <2>2, <2>7, <2>9 DEF QueueSettled
  <1>3. ASSUME NEW t \in Threads, Acquire(t)
        PROVE  QueueSettled'
    <2>1. lock = Nobody /\ peer' = peer /\ \A q \in Peers : KeepsFailures(q)
      BY <1>3, AcquireFailures DEF Acquire
    <2>2. (active < MaxActive) => \A u \in Queued : Settled(u)
      BY <1>0, <2>1 DEF QueueSettled, Sweeping
    <2>3. CASE UNCHANGED <<lock, active, answer, waiters>>
      <3>1. Queued' = Queued /\ Granted' = Granted /\ Queued \subseteq Threads
        BY <2>3 DEF Queued, Granted
      <3>2. ~Sweeping'
        BY <1>0, <2>1, <2>3 DEF Sweeping
      <3> QED
        BY <2>1, <2>2, <2>3, <3>1, <3>2, AllSettledKept DEF QueueSettled
    <2>4. CASE waiters = <<>> /\ waiters' = waiters
      <3>1. Queued' = {} /\ 1 .. Len(waiters') = {}
        BY <2>4, NoneQueued DEF Queued
      <3> QED
        BY <3>1 DEF QueueSettled
    <2>5. CASE lock' = t /\ idx' = 1 /\ pc' = [pc EXCEPT ![t] = "promoteEnter"]
      <3>1. Sweeping' /\ \A k \in 1 .. Len(waiters') : ~(k < idx')
        BY <2>5 DEF Sweeping, QueueInv
      <3> QED
        BY <3>1 DEF QueueSettled
    <2> QED
      BY <1>3, <2>3, <2>4, <2>5 DEF Acquire, queueVars
  <1>4. ASSUME NEW t \in Threads, NEW ok \in BOOLEAN, Finish(t, ok)
        PROVE  QueueSettled'
    <2>1. Sweeping' /\ \A k \in 1 .. Len(waiters') : ~(k < idx')
      BY <1>4 DEF Finish, Sweeping, QueueInv
    <2> QED
      BY <2>1 DEF QueueSettled
  <1>5. ASSUME NEW t \in Threads, LoopDone(t), GiveUp(t)
        PROVE  QueueSettled'
    <2>1. /\ lock = t /\ pc[t] = "promoteLoop" /\ lock' = Nobody /\ active' = active
          /\ ReleaseReservation(peer[t], table[peer[t]])
      BY <1>5 DEF LoopDone, GiveUp, Promoting
    <2>2. Granted' = Granted /\ peer' = peer /\ Queued' \subseteq Queued /\ Queued \subseteq Threads
      BY <1>5, GiveUpQueue DEF Queued
    <2>3. \A q \in Peers : KeepsFailures(q)
      <3>1. peer[t] \in Peers /\ table[peer[t]] \in PeerState
        BY DEF QueueInv, TableInv
      <3> QED
        BY <2>1, <3>1, ReleaseFailures DEF SameFailures
    <2>4. (active < MaxActive) => \A u \in Queued : Settled(u)
      BY <1>0, <2>1 DEF QueueSettled, Sweeping
    <2>5. ~Sweeping'
      BY <1>0, <2>1 DEF Sweeping
    <2> QED
      BY <2>1, <2>2, <2>3, <2>4, <2>5, AllSettledKept DEF QueueSettled
  <1>6. CASE CloseWaiter
    BY <1>6 DEF CloseWaiter, QueueSettled
  <1> QED
    BY <1>1, <1>2, <1>3, <1>4, <1>5, <1>6, StepKinds


\* A step of a thread that leaves the others as they sleep.
LEMMA OwnStep ==
  ASSUME QueueInv, ClockInv, SleepersCalled, NEW t \in Threads, clock' = clock,
         pc'[t] # "waiting" \/ answer'[t] = "none", Sweeping => Sweeping',
         \A u \in Threads \ {t} : /\ pc'[u] = pc[u] /\ answer'[u] = answer[u]
                                  /\ deadline'[u] = deadline[u] /\ waitDeadline'[u] = waitDeadline[u]
                                  /\ u \in woken => u \in woken'
  PROVE  SleepersCalled'
  BY DEF SleepersCalled

\* After a notify_all every sleeper will run.
LEMMA NotifiedStep ==
  ASSUME NotifyAll, \A u \in Threads : pc'[u] = "waiting" => pc[u] = "waiting"
  PROVE  SleepersCalled'
  BY DEF SleepersCalled, NotifyAll

LEMMA QuietCalls ==
  ASSUME QueueInv, ClockInv, SleepersCalled, Quiet
  PROVE  SleepersCalled'
  <1> USE DEF QueueInv, ClockInv
  <1>0. Server \notin Threads /\ Nobody \notin Threads /\ Server # Nobody
    BY AuthAssumption
  <1>1. ASSUME NEW t \in Threads, EnqueueDone(t) \/ FinishDone(t)
        PROVE  SleepersCalled'
    <2>1. NotifyAll /\ \E x \in {"idle", "verify", "promoteLoop"} : pc' = [pc EXCEPT ![t] = x]
      BY <1>1 DEF EnqueueDone, FinishDone, Answered, EnterLoop, Return
    <2>2. \A u \in Threads : pc'[u] = "waiting" => pc[u] = "waiting"
      BY <2>1
    <2> QED
      BY <2>1, <2>2, NotifiedStep
  <1>2. CASE CloseDone
    BY <1>2, NotifiedStep DEF CloseDone
  <1>3. ASSUME NEW t \in Threads, Resume(t)
        PROVE  SleepersCalled'
    <2>1. /\ lock = Nobody /\ clock' = clock /\ woken' = woken \ {t}
          /\ \E x \in {"idle", "verify", "promoteLoop"} : pc' = [pc EXCEPT ![t] = x]
          /\ answer' = answer \/ answer' = [answer EXCEPT ![t] = "none"]
          /\ deadline' = deadline \/ deadline' = [deadline EXCEPT ![t] = 0]
          /\ waitDeadline' = waitDeadline \/ waitDeadline' = [waitDeadline EXCEPT ![t] = 0]
      BY <1>3 DEF Resume, Answered, EnterLoop
    <2>2. ~Sweeping
      BY <1>0, <2>1 DEF Sweeping
    <2> QED
      BY <2>1, <2>2, OwnStep
  <1>4. ASSUME NEW t \in Threads, LoopDone(t)
        PROVE  SleepersCalled'
    <2>1. /\ lock = t /\ pc[t] = "promoteLoop" /\ clock' = clock /\ woken' = woken
          /\ \E x \in {"idle", "verify", "waiting"} : pc' = [pc EXCEPT ![t] = x]
          /\ answer' = answer \/ answer' = [answer EXCEPT ![t] = "none"]
          /\ deadline' = deadline \/ deadline' = [deadline EXCEPT ![t] = 0]
          /\ waitDeadline' = waitDeadline \/ waitDeadline' = [waitDeadline EXCEPT ![t] = 0]
      BY <1>4 DEF LoopDone, Promoting, Answered, GiveUp, Return
    <2>2. pc'[t] # "waiting" \/ answer'[t] = "none"
      BY <1>4 DEF LoopDone, Answered, GiveUp, Return
    <2>3. ~Sweeping
      BY <1>0, <2>1 DEF Sweeping
    <2> QED
      BY <2>1, <2>2, <2>3, OwnStep
  <1>5. ASSUME NEW t \in Threads, AcquireClosed(t)
        PROVE  SleepersCalled'
    <2>1. /\ lock = Nobody /\ clock' = clock /\ pc' = [pc EXCEPT ![t] = "idle"]
          /\ UNCHANGED <<woken, answer, deadline, waitDeadline>>
      BY <1>5 DEF AcquireClosed, Return, queueVars
    <2>2. ~Sweeping
      BY <1>0, <2>1 DEF Sweeping
    <2> QED
      BY <2>1, <2>2, OwnStep
  <1>6. ASSUME NEW t \in Threads, NEW x \in {"entry", "finish"}, pc[t] \in {"idle", "verify"},
               pc' = [pc EXCEPT ![t] = x],
               UNCHANGED <<clock, lock, woken, answer, deadline, waitDeadline>>
        PROVE  SleepersCalled'
    <2>1. Sweeping => Sweeping'
      BY <1>6 DEF Sweeping
    <2> QED
      BY <1>6, <2>1, OwnStep
  <1>7. ASSUME NEW t \in Threads, NEW p \in Peers, Call(t, p)
        PROVE  SleepersCalled'
    <2>1. /\ pc[t] \in {"idle", "verify"} /\ pc' = [pc EXCEPT ![t] = "entry"]
          /\ UNCHANGED <<clock, lock, woken, answer, deadline, waitDeadline>>
      BY <1>7 DEF Call, queueVars
    <2> QED
      BY <1>6, <2>1
  <1>8. ASSUME NEW t \in Threads, VerifyDone(t)
        PROVE  SleepersCalled'
    <2>1. /\ pc[t] \in {"idle", "verify"} /\ pc' = [pc EXCEPT ![t] = "finish"]
          /\ UNCHANGED <<clock, lock, woken, answer, deadline, waitDeadline>>
      BY <1>8 DEF VerifyDone, queueVars
    <2> QED
      BY <1>6, <2>1
  <1>9. CASE Close
    BY <1>9 DEF Close, SleepersCalled, Sweeping
  <1>10. CASE Tick \/ UNCHANGED vars
    <2>1. UNCHANGED <<lock, pc, answer, woken, deadline, waitDeadline>> /\ clock <= clock'
          /\ clock' \in Nat
      BY <1>10 DEF Tick, vars, queueVars
    <2>2. Sweeping' <=> Sweeping
      BY <2>1 DEF Sweeping
    <2> QED
      BY <2>1, <2>2 DEF SleepersCalled
  <1> QED
    BY <1>1, <1>2, <1>3, <1>4, <1>5, <1>7, <1>8, <1>9, <1>10 DEF Quiet

\* Outside a sweep only a waiter whose time is up is answered.
LEMMA PromoteCalls ==
  ASSUME ServedInv, NEW h \in Threads, PromoteStep(h)
  PROVE  SleepersCalled'
  <1> USE DEF ServedInv, AdmissionInv
  <1> DEFINE w == waiters[idx]
             p == peer[w]
             n == now[h]
  <1>1. /\ lock = h /\ active < MaxActive /\ UNCHANGED <<lock, pc, clock, woken, deadline, waitDeadline>>
        /\ w \in Queued /\ w \in Threads /\ n \in Nat /\ n <= clock /\ clock \in Nat /\ p \in Peers
        /\ deadline[w] \in Nat /\ waitDeadline[w] \in Nat
    BY PromoteQueue, QueuedAt DEF PromoteStep, Promoting, MorePromotion, QueueInv, ClockInv
  <1>2. Sweeping' <=> Sweeping
    BY <1>1 DEF Sweeping
  <1>3. CASE Sweeping
    BY <1>2, <1>3 DEF SleepersCalled
  <1>4. CASE ~Sweeping
    <2>1. Settled(w)
      BY <1>1, <1>4, AuthAssumption DEF QueueSettled
    <2>2. /\ Reset(table[p], n) = table[p] /\ ~CanStart(table[p], n) /\ ~Cooling(table[p], n)
      BY <1>1, <2>1, SettledWaits DEF Settled, TableInv
    <2>3. p \in known
      BY <1>1 DEF TableInv, Occupants
    <2>4. answer' = answer \/ (TimedOut(w, n) /\ answer' = [answer EXCEPT ![w] = "denied"])
      BY <2>2, <2>3 DEF PromoteStep
    <2>5. answer' # answer => deadline[w] <= clock \/ waitDeadline[w] <= clock
      BY <1>1, <2>4 DEF TimedOut
    <2> HIDE DEF w, p, n
    <2> QED
      BY <1>1, <1>4, <2>4, <2>5 DEF SleepersCalled, QueueInv
  <1> QED
    BY <1>3, <1>4

LEMMA CalledStep ==
  ASSUME ServedInv, AdmissionInv', [Next]_vars
  PROVE  SleepersCalled'
  <1> USE DEF ServedInv, AdmissionInv, QueueInv, ClockInv
  <1>0. Server \notin Threads /\ Nobody \notin Threads /\ Server # Nobody
    BY AuthAssumption
  <1>1. ASSUME NEW t \in Threads, Acquire(t)
        PROVE  SleepersCalled'
    <2>1. /\ lock = Nobody /\ clock' = clock /\ woken' = woken
          /\ \E x \in {"idle", "verify", "promoteEnter"} : pc' = [pc EXCEPT ![t] = x]
          /\ answer' = answer \/ answer' = [answer EXCEPT ![t] = "granted"]
          /\ \/ UNCHANGED <<deadline, waitDeadline>>
             \/ /\ deadline' = [deadline EXCEPT ![t] = now[t] + WaitTimeout]
                /\ waitDeadline' = [waitDeadline EXCEPT ![t] = clock + WaitTimeout]
      <3> HIDE DEF QueueInv, ClockInv
      <3> QED
        BY <1>1 DEF Acquire, Return, queueVars
    <2>2. ~Sweeping
      BY <1>0, <2>1 DEF Sweeping
    <2>3. pc'[t] # "waiting"
      BY <2>1
    <2>4. \A u \in Threads \ {t} :
            /\ pc'[u] = pc[u] /\ answer'[u] = answer[u]
            /\ deadline'[u] = deadline[u] /\ waitDeadline'[u] = waitDeadline[u]
            /\ (u \in woken => u \in woken')
      BY <2>1
    <2> QED
      BY <2>1, <2>2, <2>3, <2>4, OwnStep
  <1>2. ASSUME NEW t \in Threads, NEW ok \in BOOLEAN, Finish(t, ok)
        PROVE  SleepersCalled'
    <2>1. /\ lock = Nobody /\ clock' = clock /\ woken' = woken
          /\ pc' = [pc EXCEPT ![t] = "promoteFinish"] /\ answer' = [answer EXCEPT ![t] = "none"]
          /\ UNCHANGED <<deadline, waitDeadline>>
      BY <1>2 DEF Finish
    <2>2. ~Sweeping
      BY <1>0, <2>1 DEF Sweeping
    <2> QED
      BY <2>1, <2>2, OwnStep
  <1>3. ASSUME NEW t \in Threads, LoopDone(t), GiveUp(t)
        PROVE  SleepersCalled'
    <2>1. /\ lock = t /\ pc[t] = "promoteLoop" /\ clock' = clock /\ woken' = woken
          /\ pc' = [pc EXCEPT ![t] = "idle"] /\ answer' = answer
          /\ deadline' = [deadline EXCEPT ![t] = 0]
          /\ waitDeadline' = [waitDeadline EXCEPT ![t] = 0]
      BY <1>3 DEF LoopDone, Promoting, GiveUp, Return
    <2>2. ~Sweeping
      BY <1>0, <2>1 DEF Sweeping
    <2> QED
      BY <2>1, <2>2, OwnStep
  <1>4. CASE CloseWaiter
    <2>1. Sweeping'
      BY <1>4 DEF CloseWaiter, Sweeping
    <2> QED
      BY <2>1 DEF SleepersCalled
  <1> HIDE DEF QueueInv, ClockInv
  <1> QED
    BY <1>1, <1>2, <1>3, <1>4, QuietCalls, PromoteCalls, StepKinds

(***************************************************************************)
(* Work conservation without lost wakeups: a free verification slot and a  *)
(* free lock leave in the queue only those whose own peer's attempts stand *)
(* in the way, and whoever was answered while asleep has been notified or  *)
(* is about to wake by itself.                                             *)
(***************************************************************************)
THEOREM AuthQueueServed == Spec => []QueueServed
  <1>1. Init => ServedInv
    <2> SUFFICES ASSUME Init PROVE ServedInv
      OBVIOUS
    <2>1. AdmissionInv
      BY AdmissionStarts
    <2>2. LockoutBound
      BY AuthAssumption DEF Init, LockoutBound, Fresh
    <2>3. Queued = {} /\ 1 .. Len(waiters) = {}
      BY NoneQueued DEF Init
    <2>4. QueueSettled
      BY <2>3 DEF QueueSettled
    <2>5. \A t \in Threads : pc[t] = "idle"
      BY DEF Init
    <2>6. SleepersCalled
      BY <2>5 DEF SleepersCalled
    <2> QED
      BY <2>1, <2>2, <2>4, <2>6 DEF ServedInv
  <1>2. ServedInv /\ [Next]_vars => ServedInv'
    <2> SUFFICES ASSUME ServedInv, [Next]_vars PROVE ServedInv'
      OBVIOUS
    <2>1. AdmissionInv' /\ LockoutBound'
      BY AdmissionStep, BoundKept DEF ServedInv
    <2>2. QueueSettled' /\ SleepersCalled'
      BY <2>1, SettledStep, CalledStep
    <2> QED
      BY <2>1, <2>2 DEF ServedInv
  <1>3. ServedInv => QueueServed
    <2> SUFFICES ASSUME ServedInv PROVE QueueServed
      OBVIOUS
    <2>1. lock = Nobody => ~Sweeping /\ lock # Server
      BY AuthAssumption DEF Sweeping
    <2>2. WorkConserving
      BY <2>1 DEF ServedInv, QueueSettled, Settled, WorkConserving
    <2>3. NoLostWakeup
      BY <2>1 DEF ServedInv, SleepersCalled, NoLostWakeup
    <2> QED
      BY <2>2, <2>3 DEF QueueServed
  <1> QED
    BY <1>1, <1>2, <1>3, PTL DEF Spec
==============================================================================
