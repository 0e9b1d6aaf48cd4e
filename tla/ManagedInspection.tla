--------------------------- MODULE ManagedInspection ---------------------------
(***************************************************************************)
(* _owned_state_is_safe (management/managed_state.py): a path of the       *)
(* deployment is walked from the root, directory by directory, with        *)
(* descriptors; what is found, or that nothing is there, becomes a witness *)
(* that is examined once more when all entries have been seen.             *)
(*                                                                         *)
(* Other users of the host act between any two system calls, and go on     *)
(* afterwards, within the permissions of the directories.  A directory is  *)
(* "closed" (nobody else may write), "shared" (they may) or "sticky" (they *)
(* may, but not replace what belongs to another).  The path has two        *)
(* directories and a leaf; further components repeat the same step.        *)
(***************************************************************************)
CONSTANTS
  Anchor,        \* the root directory
  Directories,   \* other directories
  Leaves,        \* files that are "ours", of root or of the caller
  Strangers,     \* files of other users
  Missing

ASSUME InspectionAssumption ==
  /\ Anchor \notin Directories /\ Directories # {} /\ Missing \notin {Anchor} \cup Directories
  /\ (Leaves \cup Strangers) \cap ({Anchor, Missing} \cup Directories) = {}
  /\ Leaves \cap Strangers = {}

VARIABLES
  tree,   \* inode -> [owner, mode, entry]: entry is the next component of the path
  walk    \* the inspection

inspectionVars == <<tree, walk>>

Owners == {"ours", "theirs"}
Modes == {"closed", "shared", "sticky"}
Inodes == {Anchor} \cup Directories \cup Leaves \cup Strangers

NoEntry == [id |-> Missing, owner |-> "ours", mode |-> "closed"]
Metadata(i) ==
  IF i = Missing THEN NoEntry ELSE [id |-> i, owner |-> tree[i].owner, mode |-> tree[i].mode]

Trees ==
  { [i \in Inodes |->
       CASE i = Anchor -> [owner |-> "ours", mode |-> m, entry |-> e]
         [] i \in Directories -> [owner |-> f[i][1], mode |-> f[i][2], entry |-> f[i][3]]
         [] OTHER -> [owner |-> IF i \in Leaves THEN "ours" ELSE "theirs", mode |-> "closed", entry |-> Missing]] :
      m \in Modes, e \in {Missing, CHOOSE x \in Directories : TRUE},
      f \in [Directories -> Owners \X Modes \X (Leaves \cup Strangers \cup {Missing})] }

Walk(allowed) ==
  [at |-> "anchor", pass |-> 1, allowed |-> allowed, here |-> Anchor, before |-> NoEntry,
   entry |-> NoEntry, opened |-> Missing, dir |-> NoEntry, leaf |-> NoEntry]

InspectionInit == tree \in Trees /\ \E allowed \in BOOLEAN : walk = Walk(allowed)
-----------------------------------------------------------------------------
\* Another user changes a directory of their own, or an entry they may replace.
MayReplace(i) ==
  \/ tree[i].owner = "theirs"
  \/ tree[i].mode = "shared"
  \/ tree[i].mode = "sticky" /\ (tree[i].entry # Missing => tree[tree[i].entry].owner = "theirs")

OthersReplace ==
  \E i \in {Anchor} \cup Directories :
    /\ MayReplace(i)
    /\ \E e \in IF i = Anchor THEN Directories \cup {Missing} ELSE Leaves \cup Strangers \cup {Missing} :
         e # tree[i].entry /\ tree' = [tree EXCEPT ![i].entry = e]
    /\ UNCHANGED walk

OthersChmod ==
  \E i \in Directories, m \in Modes :
    /\ tree[i].owner = "theirs" /\ tree[i].mode # m
    /\ tree' = [tree EXCEPT ![i].mode = m] /\ UNCHANGED walk
-----------------------------------------------------------------------------
TrustedAncestor(d) == d.owner = "ours" /\ d.mode # "shared"

\* Mutant: the sticky bit alone is taken for protection.
ProtectedBySticky(d, e) == TrustedAncestor(d)

EntryProtected(d, e) == TrustedAncestor(d) /\ (d.mode = "closed" \/ e.owner = "ours")

Stop(verdict) == walk' = [walk EXCEPT !.at = verdict] /\ UNCHANGED tree
Go(step) == walk' = step /\ UNCHANGED tree

OpenAnchor ==
  /\ walk.at = "anchor"
  /\ IF TrustedAncestor(Metadata(Anchor)) THEN Go([walk EXCEPT !.at = "look", !.here = Anchor])
     ELSE Stop("refused")

\* Two calls: the directory, and its entry.
LookAtDirectory ==
  /\ walk.at = "look"
  /\ Go([walk EXCEPT !.at = "look_entry", !.before = Metadata(Anchor)])

LookAtEntry ==
  /\ walk.at = "look_entry"
  /\ LET e == Metadata(tree[Anchor].entry) IN
     CASE e.id = Missing -> Go([walk EXCEPT !.at = "absent_component"])
       [] e.id # Missing /\ EntryProtected(walk.before, e) -> Go([walk EXCEPT !.at = "open", !.entry = e])
       [] OTHER -> Stop("refused")

\* The absence of a component is a witness if nobody else can fill it.
ComponentAbsent ==
  /\ walk.at = "absent_component"
  /\ IF Metadata(Anchor) = walk.before /\ walk.before.mode = "closed" /\ walk.pass = 1
     THEN Go([walk EXCEPT !.at = "again", !.pass = 2, !.dir = walk.before, !.leaf = NoEntry])
     ELSE Stop("refused")

OpenComponent ==
  /\ walk.at = "open"
  /\ IF tree[Anchor].entry = Missing THEN Stop("refused")
     ELSE Go([walk EXCEPT !.at = "check", !.opened = tree[Anchor].entry])

CheckComponent ==
  /\ walk.at = "check"
  /\ LET d == Metadata(walk.opened) IN
     IF /\ Metadata(Anchor) = walk.before /\ d = walk.entry
        /\ EntryProtected(Metadata(Anchor), d) /\ TrustedAncestor(d)
     THEN Go([walk EXCEPT !.at = IF walk.pass = 1 THEN "leaf" ELSE "reopened",
                          !.here = walk.opened,
                          !.before = d])
     ELSE Stop("refused")

\* _inspect_owned_entry
InspectLeaf ==
  /\ walk.at = "leaf"
  /\ LET d == Metadata(walk.here)  e == Metadata(tree[walk.here].entry) IN
     CASE d # walk.before -> Stop("refused")
       [] d = walk.before /\ e.id = Missing ->
            IF d.mode = "closed" THEN Go([walk EXCEPT !.at = "again", !.pass = 2, !.dir = d, !.leaf = e])
            ELSE Stop("refused")
       [] d = walk.before /\ e.id # Missing ->
            IF walk.allowed /\ EntryProtected(d, e) THEN Go([walk EXCEPT !.at = "leaf_again", !.leaf = e])
            ELSE Stop("refused")

InspectLeafAgain ==
  /\ walk.at = "leaf_again"
  /\ LET d == Metadata(walk.here)  e == Metadata(tree[walk.here].entry) IN
     IF d = walk.before /\ e.id = walk.leaf.id /\ EntryProtected(d, e)
     THEN Go([walk EXCEPT !.at = "again", !.pass = 2, !.dir = d])
     ELSE Stop("refused")

\* _owned_entry_witness_is_valid: the directory of the witness, and the way to it once more.
Revalidate ==
  /\ walk.at = "again"
  /\ IF Metadata(walk.dir.id) = walk.dir /\ TrustedAncestor(walk.dir)
     THEN Go([walk EXCEPT !.at = IF walk.dir.id = Anchor THEN "reopened" ELSE "anchor"])
     ELSE Stop("refused")

Reopened ==
  /\ walk.at = "reopened"
  /\ IF walk.here = walk.dir.id /\ Metadata(walk.here) = walk.dir THEN Go([walk EXCEPT !.at = "entry_again"])
     ELSE Stop("refused")

EntryStill ==
  LET e == Metadata(tree[walk.dir.id].entry) IN
  /\ e.id = walk.leaf.id
  /\ IF e.id = Missing THEN walk.dir.mode = "closed" ELSE EntryProtected(walk.dir, e)

RevalidateEntry ==
  /\ walk.at = "entry_again"
  /\ IF EntryStill THEN Go([walk EXCEPT !.at = "directory_again"]) ELSE Stop("refused")

RevalidateDirectory ==
  /\ walk.at = "directory_again"
  /\ IF Metadata(walk.dir.id) = walk.dir THEN Stop("safe") ELSE Stop("refused")

InspectionNext ==
  \/ OthersReplace \/ OthersChmod \/ OpenAnchor \/ LookAtDirectory \/ LookAtEntry
  \/ ComponentAbsent \/ OpenComponent \/ CheckComponent \/ InspectLeaf \/ InspectLeafAgain
  \/ Revalidate \/ Reopened \/ RevalidateEntry \/ RevalidateDirectory

InspectionSpec == InspectionInit /\ [][InspectionNext]_inspectionVars
-----------------------------------------------------------------------------
(* What was found safe stays what it was: the path leads to the entry that was examined, *)
(* or nowhere if that was found, and no other user can make it lead elsewhere, during    *)
(* the inspection or ever after.                                                         *)
StaysAsInspected ==
  walk.at = "safe" =>
    IF walk.dir.id = Anchor THEN tree[Anchor].entry = Missing
    ELSE tree[Anchor].entry = walk.dir.id /\ tree[walk.dir.id].entry = walk.leaf.id
================================================================================
