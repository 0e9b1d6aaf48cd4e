------------------------------ MODULE MCNotepad ------------------------------
(* Notepad with interchangeable threads and identifiers.                      *)
EXTENDS Notepad, TLC

Symmetric == Permutations(Threads) \cup Permutations(Ids)
==============================================================================
