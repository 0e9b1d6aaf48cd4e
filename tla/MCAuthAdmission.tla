-------------------------- MODULE MCAuthAdmission --------------------------
(***************************************************************************)
(* The two controllers that make threads wait, the gate of lifecycle.py    *)
(* and the admission of logins.  They are used by the same workers, one    *)
(* after the other and never one inside the other; scope names the one     *)
(* that moves, the other rests.                                            *)
(***************************************************************************)
EXTENDS AuthAdmission, CapacityGate

VARIABLE scope

waitVars == <<scope, vars, gateVars>>

\* Threads and peers are interchangeable.
Symmetry == Permutations(Threads) \cup Permutations(Peers)

AuthScope(A) == scope = "auth" /\ A /\ UNCHANGED <<scope, gateVars>>
GateScope(A) == scope = "gate" /\ A /\ UNCHANGED <<scope, vars>>

WaitInit == scope \in {"auth", "gate"} /\ Init /\ GateInit

WaitSpec == WaitInit /\ [][AuthScope(Next) \/ GateScope(GateNext)]_waitVars

\* The fairness of FairSpec and of GateFairSpec.
FairWaitSpec ==
  /\ WaitSpec
  /\ \A t \in Threads : WF_waitVars(AuthScope(Running(t))) /\ SF_waitVars(AuthScope(Locking(t)))
  /\ WF_waitVars(AuthScope(CloseWaiter)) /\ WF_waitVars(AuthScope(CloseDone))
  /\ \A t \in Takers : /\ WF_waitVars(GateScope(ThreadStep(t)))
                       /\ WF_waitVars(GateScope(Expire(t)))
=============================================================================
