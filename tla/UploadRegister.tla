--------------------------- MODULE UploadRegister ---------------------------
(***************************************************************************)
(* What the encrypted upload store promises: a file appears as a partial   *)
(* upload, gains chunks that never change again, is published once it has  *)
(* all of them, and disappears only while somebody is entitled to remove   *)
(* it (an explicit delete, an expired partial, a failed creation).         *)
(***************************************************************************)
CONSTANTS Ids, Chunks, Values, Blank

VARIABLES
  file,        \* [status, chunks] of every id
  removable    \* the ids somebody is entitled to remove

vars == <<file, removable>>

NoChunks == [c \in Chunks |-> Blank]
Absent == [status |-> "absent", chunks |-> NoChunks]

Init == file = [x \in Ids |-> Absent] /\ removable = {}

Create(x) ==
  /\ file[x] = Absent
  /\ file' = [file EXCEPT ![x].status = "partial"]

Receive(x, c, v) ==
  /\ file[x].status = "partial"
  /\ file[x].chunks[c] = Blank
  /\ file' = [file EXCEPT ![x].chunks[c] = v]

Publish(x) ==
  /\ file[x].status = "partial"
  /\ \A c \in Chunks : file[x].chunks[c] # Blank
  /\ file' = [file EXCEPT ![x].status = "complete"]

Remove(x) ==
  /\ x \in removable
  /\ file' = [file EXCEPT ![x] = Absent]

Next ==
  /\ removable' \in SUBSET Ids
  /\ \/ UNCHANGED file
     \/ \E x \in Ids : \/ Create(x) \/ Publish(x) \/ Remove(x)
                       \/ \E c \in Chunks, v \in Values : Receive(x, c, v)

Spec == Init /\ [][Next]_vars
=============================================================================
