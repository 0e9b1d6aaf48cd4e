---------------------------- MODULE CapacityGate ----------------------------
(***************************************************************************)
(* xferry/lifecycle.py: the bounded capacity pool behind every admission   *)
(* decision of the server (connections, TLS handshakes, dispatch slots and *)
(* bulk transfers) and the once-only lease it hands out.                   *)
(*                                                                         *)
(* One step is one critical section of the gate's condition variable or of *)
(* the lease's own lock.  The lease's flag and the gate's counter are      *)
(* guarded by different locks, so the worker and the future's callback may *)
(* both call release() between the two.  The counters peak and rejected    *)
(* are diagnostics and are left out; waiting is the size of the set of     *)
(* blocked threads.                                                        *)
(***************************************************************************)
EXTENDS Naturals, FiniteSets

CONSTANTS
  Takers,      \* the callers of acquire()
  Callers,     \* who may call release() on one lease: worker, callback
  Limit        \* the pool's size

ASSUME GateAssumption ==
  /\ IsFiniteSet(Takers)
  /\ Limit \in Nat \ {0}

VARIABLES
  inUse,       \* _active
  gateClosed,  \* _closed
  stage,       \* "idle", "waiting" (inside condition.wait) or "leased"
  notified,    \* waiting threads that a notify_all has reached
  expired,     \* waiting threads whose deadline has passed
  pending,     \* per lease: the callers that have still to call release()
  released,    \* leases whose _released flag is set
  freeing      \* leases between setting the flag and the gate's _release

gateVars == <<inUse, gateClosed, stage, notified, expired, pending, released, freeing>>

leaseVars == <<pending, released, freeing>>

Blocked == {t \in Takers : stage[t] = "waiting"}

\* The slots in use: a lease keeps its slot until the gate's own _release.
Holders == {t \in Takers : stage[t] = "leased" /\ (t \notin released \/ t \in freeing)}

GateInit ==
  /\ inUse = 0
  /\ gateClosed = FALSE
  /\ stage = [t \in Takers |-> "idle"]
  /\ notified = {}
  /\ expired = {}
  /\ pending = [t \in Takers |-> {}]
  /\ released = {}
  /\ freeing = {}

GateNotifyAll == notified' = Blocked

\* The tail of acquire() once its loop is left: a slot and a lease, or None.
Admit(t) ==
  /\ ~gateClosed
  /\ inUse < Limit
  /\ inUse' = inUse + 1
  /\ stage' = [stage EXCEPT ![t] = "leased"]
  /\ pending' = [pending EXCEPT ![t] = Callers]
  /\ released' = released \ {t}
  /\ UNCHANGED <<gateClosed, freeing>>

Reject(t) ==
  /\ stage' = [stage EXCEPT ![t] = "idle"]
  /\ UNCHANGED <<inUse, gateClosed, leaseVars>>

\* acquire(): `late` is a timeout of zero, or one used up before the lock.
GateAcquire(t, late) ==
  /\ stage[t] = "idle"
  /\ notified' = notified \ {t}
  /\ \/ /\ Admit(t)
        /\ UNCHANGED expired
     \/ /\ gateClosed \/ (inUse >= Limit /\ late)
        /\ Reject(t)
        /\ UNCHANGED expired
     \/ /\ ~gateClosed /\ inUse >= Limit /\ ~late
        /\ stage' = [stage EXCEPT ![t] = "waiting"]
        /\ expired' = expired \ {t}
        /\ UNCHANGED <<inUse, gateClosed, leaseVars>>

\* The deadline of a blocked acquire() passes.
Expire(t) ==
  /\ stage[t] = "waiting"
  /\ t \notin expired
  /\ expired' = expired \cup {t}
  /\ UNCHANGED <<inUse, gateClosed, stage, notified, leaseVars>>

\* Mutant: a timed-out waiter goes back to sleep instead of giving up.
WakeWithoutDeadline(t) ==
  /\ stage[t] = "waiting"
  /\ t \in notified \/ t \in expired
  /\ notified' = notified \ {t}
  /\ UNCHANGED expired
  /\ \/ Admit(t)
     \/ /\ gateClosed
        /\ Reject(t)
     \/ /\ ~gateClosed /\ inUse >= Limit
        /\ UNCHANGED <<inUse, gateClosed, stage, leaseVars>>

\* condition.wait(remaining) returns and the loop condition is evaluated again.
Wake(t) ==
  /\ stage[t] = "waiting"
  /\ t \in notified \/ t \in expired
  /\ notified' = notified \ {t}
  /\ UNCHANGED expired
  /\ \/ Admit(t)
     \/ /\ gateClosed \/ (inUse >= Limit /\ t \in expired)
        /\ Reject(t)
     \/ /\ ~gateClosed /\ inUse >= Limit /\ t \notin expired
        /\ UNCHANGED <<inUse, gateClosed, stage, leaseVars>>

\* Mutant: release() does not test the flag.
LeaseReleaseTwice(t, c) ==
  /\ stage[t] = "leased"
  /\ c \in pending[t]
  /\ pending' = [pending EXCEPT ![t] = @ \ {c}]
  /\ released' = released \cup {t}
  /\ freeing' = freeing \cup {t}
  /\ UNCHANGED <<inUse, gateClosed, stage, notified, expired>>

\* AdmissionLease.release(): the flag is tested and set under the lease's lock.
LeaseRelease(t, c) ==
  /\ stage[t] = "leased"
  /\ c \in pending[t]
  /\ pending' = [pending EXCEPT ![t] = @ \ {c}]
  /\ released' = released \cup {t}
  /\ freeing' = IF t \in released THEN freeing ELSE freeing \cup {t}
  /\ UNCHANGED <<inUse, gateClosed, stage, notified, expired>>

\* CapacityGate._release(), called outside the lease's lock.
GateRelease(t) ==
  /\ t \in freeing
  /\ freeing' = freeing \ {t}
  /\ inUse' = inUse - 1
  /\ GateNotifyAll
  /\ UNCHANGED <<gateClosed, stage, expired, pending, released>>

\* The lease object is dropped: every party has called release() and returned.
Forget(t) ==
  /\ stage[t] = "leased"
  /\ pending[t] = {}
  /\ t \in released /\ t \notin freeing
  /\ stage' = [stage EXCEPT ![t] = "idle"]
  /\ UNCHANGED <<inUse, gateClosed, notified, expired, leaseVars>>

GateClose ==
  /\ ~gateClosed
  /\ gateClosed' = TRUE
  /\ GateNotifyAll
  /\ UNCHANGED <<inUse, stage, expired, leaseVars>>

ThreadStep(t) ==
  \/ Wake(t)
  \/ \E c \in Callers : LeaseRelease(t, c)
  \/ GateRelease(t)
  \/ Forget(t)

GateNext ==
  \/ \E t \in Takers, late \in BOOLEAN : GateAcquire(t, late)
  \/ \E t \in Takers : Expire(t) \/ ThreadStep(t)
  \/ GateClose

GateSpec == GateInit /\ [][GateNext]_gateVars

\* A started thread keeps running and a timed wait ends.
GateFairSpec ==
  GateSpec /\ \A t \in Takers : WF_gateVars(ThreadStep(t)) /\ WF_gateVars(Expire(t))
-----------------------------------------------------------------------------
GateTypeOK ==
  /\ inUse \in Nat
  /\ gateClosed \in BOOLEAN
  /\ stage \in [Takers -> {"idle", "waiting", "leased"}]
  /\ notified \subseteq Takers
  /\ expired \subseteq Takers
  /\ pending \in [Takers -> SUBSET Callers]
  /\ released \subseteq Takers
  /\ freeing \subseteq Takers

(***************************************************************************)
(* The counter is exactly the number of leases still occupying a slot,     *)
(* whatever the worker and the done-callback do to the same lease: a       *)
(* double release would free a slot somebody else holds.                   *)
(***************************************************************************)
SlotsExact == inUse = Cardinality(Holders)

\* The pool never exceeds its limit.
WithinLimit == Cardinality(Holders) <= Limit

(***************************************************************************)
(* No lost wakeup: while a slot is free, or once the gate is closed, no    *)
(* thread sleeps in acquire() without a notification or an expired timer.  *)
(***************************************************************************)
NoSleeperLeft ==
  (inUse < Limit \/ gateClosed) => Blocked \subseteq (notified \cup expired)

\* The counter, the limit and the wakeups at every moment, whatever threads acquire, give up,
\* release twice and close.
GateSound == GateTypeOK /\ SlotsExact /\ WithinLimit /\ NoSleeperLeft

(***************************************************************************)
(* After close() the set of slot holders only shrinks: no acquire() that   *)
(* was already blocked slips in during shutdown.                           *)
(***************************************************************************)
GateDrains == [][gateClosed => Holders' \subseteq Holders]_gateVars

\* Every blocked acquire() returns.
GateReturns == \A t \in Takers : stage[t] = "waiting" ~> stage[t] # "waiting"
=============================================================================
