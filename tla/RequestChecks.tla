---------------------------- MODULE RequestChecks ----------------------------
(***************************************************************************)
(* Validation as the handlers write it: a sequence of tests, each with the *)
(* status of its early return.  A request is represented by the set of its *)
(* faults, the names of the tests it does not pass; what it is answered is *)
(* the status of the first of them in the order of the code.               *)
(***************************************************************************)
EXTENDS Naturals, Sequences

Accepted == 0

\* The early return that a request with these faults meets first.
Verdict(checks, faults) ==
  LET met == {i \in DOMAIN checks : checks[i][1] \in faults}
  IN  IF met = {} THEN Accepted ELSE checks[CHOOSE i \in met : \A j \in met : i <= j][2]

FaultsOf(checks) == {checks[i][1] : i \in DOMAIN checks}
==============================================================================
