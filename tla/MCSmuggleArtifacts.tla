------------------------ MODULE MCSmuggleArtifacts ------------------------
(* Policies for SmuggleArtifacts.                                          *)
EXTENDS SmuggleArtifacts

CONSTANTS a, b, c

Policy(files, bytes, names, sizes, reuse, n) ==
  [files |-> files, bytes |-> bytes, names |-> names, sizes |-> sizes, reuse |-> reuse, stops |-> n]

\* Two artifacts whose names clients use as well, and one stop or kill.
SharedNames == Policy(2, 2, {a, b}, {1}, {a, b}, 1)

\* Three artifacts of two sizes against limits that two of them reach.
TightLimits == Policy(2, 3, {a, b, c}, {1, 2}, {}, 0)

Supported == {SharedNames, TightLimits}
============================================================================
