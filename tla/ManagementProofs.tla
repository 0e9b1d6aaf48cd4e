--------------------------- MODULE ManagementProofs ---------------------------
(***************************************************************************)
(* Proofs about the management commands, which several administrators run  *)
(* at once and which may fail or be killed at any step, and about the      *)
(* publication of a release.                                               *)
(*                                                                         *)
(* FolderReservation, for every set of users, shells and folders, any      *)
(* number of commands, and any relation of paths to the same directory:    *)
(* the folders of one user's deployments are kept apart.                   *)
(* PortableSettings, for any files, environments and editors: an edit      *)
(* saves what starts and loses no other.                                   *)
(* ReleaseTrust, for any versions, keys and administrators: a service is   *)
(* switched only to genuine releases, and back only on request.            *)
(* ManagedInspection, for any tree and any meddling: what is found safe    *)
(* stays so.                                                               *)
(* ComposeDeployment, for any operators, images and commands: between      *)
(* commands the manifest tells what the files are and what runs.           *)
(* NativeSetup, for any ports and whichever stage fails: a setup is all or *)
(* nothing.                                                                *)
(* ReleasePublication, for any assets and number of attempts: what is      *)
(* public is of one candidate.                                             *)
(***************************************************************************)
EXTENDS FolderReservation, PortableSettings, ReleaseTrust, ManagedInspection, ComposeDeployment,
  NativeSetup, ReleasePublication, SumProofs, SequenceTheorems

(***************************************************************************)
(*                            FolderReservation                            *)
(***************************************************************************)

Kinds == {"setup", "configure", "purge"}
StepNames == {"check", "plan", "install", "lock", "pull", "write", "register", "activate",
              "unregister", "unlink"}

Commands == [at : {"working"}, user : Accounts, kind : Kinds, place : PlacesOf,
             folder : FolderPaths, todo : Seq(StepNames)]

ReservationTyped ==
  /\ manifests \in [PlacesOf -> FolderPaths \cup {Free}]
  /\ registry \in [Accounts -> SUBSET PlacesOf]
  /\ setupLock \in [Accounts -> Shells \cup {Free}]
  /\ shell \in [Shells -> {AtPrompt} \cup Commands]

Program(c) == StepsOf(c.kind, c.place)

\* How many steps of its program a command has done.
Done(c) == Len(Program(c)) - Len(c.todo)

\* A command has the rest of its program to do, and changes what its user owns.
InProgram(c) ==
  /\ c \in Commands
  /\ c.place.owner = c.user
  /\ c.kind = "configure" => c.place = NativePlace
  /\ Done(c) >= 0
  /\ \A i \in 1 .. Len(c.todo) : c.todo[i] = Program(c)[Done(c) + i]

\* The step that takes the setup lock; the look that counts comes right after it, and a
\* setup writes with its sixth step.
LockStep(c) == IF c.kind = "setup" THEN IF c.place = NativePlace THEN 4 ELSE 3 ELSE 1
Locks(c) == Done(c) >= LockStep(c)
Checked(c) == c.kind # "purge" /\ Done(c) > LockStep(c)
WrittenBy(c) == c.kind = "setup" /\ Done(c) >= 6

\* The folder of a command overlaps no other deployment of its user that would be found.
Apart(c) ==
  \A p \in Discovered(c.user) :
    p.owner = c.user /\ p # c.place => ~Overlaps(c.folder, manifests[p])

ShellPlaced(s) ==
  Working(s) =>
    /\ InProgram(shell[s])
    /\ Locks(shell[s]) => setupLock[shell[s].user] = s
    /\ Checked(shell[s]) => Apart(shell[s])
    /\ WrittenBy(shell[s]) => manifests[shell[s].place] = shell[s].folder

\* The manifests that discovery finds for one user pass the look at folders against each other.
Clash(p, q) ==
  p # q /\ manifests[p] # Free /\ manifests[q] # Free /\ Overlaps(manifests[p], manifests[q])

ClaimsApart ==
  \A u \in Accounts : \A p, q \in Discovered(u) : p.owner = u /\ q.owner = u => ~Clash(p, q)

\* The inductive invariant: what a command saw under the lock stays true until it has ended.
ReservationInv ==
  /\ ReservationTyped
  /\ \A s \in Shells : ShellPlaced(s)
  /\ ClaimsApart
-----------------------------------------------------------------------------
\* The programs, step by step.

\* What follows from the position of a command in its program.
LEMMA StepFacts ==
  ASSUME NEW c, InProgram(c), c.todo # << >>
  PROVE  /\ Head(c.todo) = "lock" <=> Done(c) + 1 = LockStep(c)
         /\ c.kind # "purge" /\ Done(c) = LockStep(c) => Head(c.todo) = "check"
         /\ Head(c.todo) \in {"write", "register", "unregister", "unlink"} => Locks(c)
         /\ Head(c.todo) \in {"write", "register"} => Checked(c)
         /\ Head(c.todo) = "register" => WrittenBy(c)
         /\ Head(c.todo) \in {"unregister", "unlink"} => c.kind = "purge"
         /\ c.kind = "setup" /\ Done(c) = 5 => Head(c.todo) = "write"
  <1>1. c.todo \in Seq(StepNames) /\ Len(c.todo) \in Nat \ {0} /\ c.kind \in Kinds
    BY DEF InProgram, Commands
  <1>2. Head(c.todo) = c.todo[1] /\ 1 \in 1 .. Len(c.todo)
    BY <1>1
  <1> DEFINE n == Done(c)
             P == Program(c)
             left == Len(c.todo)
  <1>3. Head(c.todo) = P[n + 1]
    BY <1>2 DEF InProgram
  <1>4. n >= 0 /\ n = Len(P) - left /\ left \in Nat \ {0}
    BY <1>1 DEF InProgram, Done
  <1>n. n = Done(c)
    OBVIOUS
  <1>p. P = Program(c)
    OBVIOUS
  <1> HIDE DEF n, P, left
  <1>5. CASE c.kind = "setup" /\ c.place = NativePlace
    <2>1. P = <<"check", "plan", "install", "lock", "check", "write", "register">>
      BY <1>5, <1>p DEF Program, StepsOf
    <2>2. Len(P) = 7 /\ LockStep(c) = 4
      BY <1>5, <2>1 DEF LockStep
    <2>3. n = 0 \/ n = 1 \/ n = 2 \/ n = 3 \/ n = 4 \/ n = 5 \/ n = 6
      BY <1>4, <2>2
    <2> QED
      BY <1>3, <1>n, <1>5, <2>1, <2>2, <2>3 DEF Locks, Checked, WrittenBy
  <1>6. CASE c.kind = "setup" /\ c.place # NativePlace
    <2>1. P = <<"check", "plan", "lock", "check", "pull", "write", "register", "activate">>
      BY <1>6, <1>p DEF Program, StepsOf
    <2>2. Len(P) = 8 /\ LockStep(c) = 3
      BY <1>6, <2>1 DEF LockStep
    <2>3. n = 0 \/ n = 1 \/ n = 2 \/ n = 3 \/ n = 4 \/ n = 5 \/ n = 6 \/ n = 7
      BY <1>4, <2>2
    <2> QED
      BY <1>3, <1>n, <1>6, <2>1, <2>2, <2>3 DEF Locks, Checked, WrittenBy
  <1>7. CASE c.kind = "configure"
    <2>1. P = <<"lock", "check", "write">>
      BY <1>7, <1>p DEF Program, StepsOf
    <2>2. Len(P) = 3 /\ LockStep(c) = 1
      BY <1>7, <2>1 DEF LockStep
    <2>3. n = 0 \/ n = 1 \/ n = 2
      BY <1>4, <2>2
    <2> QED
      BY <1>3, <1>n, <1>7, <2>1, <2>2, <2>3 DEF Locks, Checked, WrittenBy
  <1>8. CASE c.kind = "purge"
    <2>1. P = <<"lock", "unregister", "unlink">>
      BY <1>8, <1>p DEF Program, StepsOf
    <2>2. Len(P) = 3 /\ LockStep(c) = 1
      BY <1>8, <2>1 DEF LockStep
    <2>3. n = 0 \/ n = 1 \/ n = 2
      BY <1>4, <2>2
    <2> QED
      BY <1>3, <1>n, <1>8, <2>1, <2>2, <2>3 DEF Locks, Checked, WrittenBy
  <1> QED
    BY <1>1, <1>5, <1>6, <1>7, <1>8 DEF Kinds

LEMMA ProgramFact ==
  ASSUME NEW kind \in Kinds, NEW p \in PlacesOf
  PROVE  StepsOf(kind, p) \in Seq(StepNames) /\ Len(StepsOf(kind, p)) \in Nat
  <1>1. \/ StepsOf(kind, p) = <<"check", "plan", "install", "lock", "check", "write", "register">>
        \/ StepsOf(kind, p) =
             <<"check", "plan", "lock", "check", "pull", "write", "register", "activate">>
        \/ StepsOf(kind, p) = <<"lock", "check", "write">>
        \/ StepsOf(kind, p) = <<"lock", "unregister", "unlink">>
    BY DEF StepsOf, Kinds
  <1>2. /\ <<"check", "plan", "install", "lock", "check", "write", "register">> \in Seq(StepNames)
        /\ <<"check", "plan", "lock", "check", "pull", "write", "register", "activate">>
             \in Seq(StepNames)
        /\ <<"lock", "check", "write">> \in Seq(StepNames)
        /\ <<"lock", "unregister", "unlink">> \in Seq(StepNames)
    BY DEF StepNames
  <1>3. StepsOf(kind, p) \in Seq(StepNames)
    BY <1>1, <1>2
  <1> QED
    BY <1>3

LEMMA DoneIsInt ==
  ASSUME NEW c, InProgram(c)
  PROVE  Done(c) \in Int
  <1> DEFINE all == Len(Program(c))
             left == Len(c.todo)
  <1>1. left \in Nat
    BY DEF InProgram, Commands
  <1>2. all \in Nat
    BY DEF Program, StepsOf, InProgram, Commands, Kinds
  <1>3. Done(c) = all - left
    BY DEF Done
  <1> HIDE DEF all, left
  <1> QED
    BY <1>1, <1>2, <1>3

\* Whoever has looked at the folder, or written, holds the lock.
LEMMA PastTheLock ==
  ASSUME NEW c, InProgram(c)
  PROVE  Checked(c) \/ WrittenBy(c) => Locks(c)
  BY DoneIsInt DEF Locks, Checked, WrittenBy, LockStep

\* A command that has done one step more is the same command, one step further.
LEMMA StepTaken ==
  ASSUME NEW c, InProgram(c), c.todo # << >>,
         NEW d, d = [c EXCEPT !.todo = Tail(@)]
  PROVE  /\ InProgram(d) /\ Done(d) = Done(c) + 1 /\ LockStep(d) = LockStep(c)
         /\ d.user = c.user /\ d.kind = c.kind /\ d.place = c.place /\ d.folder = c.folder
  <1>1. c \in Commands
    BY DEF InProgram
  <1>2. /\ Tail(c.todo) \in Seq(StepNames) /\ Len(Tail(c.todo)) = Len(c.todo) - 1
        /\ \A i \in 1 .. Len(Tail(c.todo)) : Tail(c.todo)[i] = c.todo[i + 1]
    BY <1>1, HeadTailProperties DEF Commands
  <1>3. Len(c.todo) \in Nat
    BY <1>1 DEF Commands
  <1>4. /\ d \in Commands /\ d.todo = Tail(c.todo)
        /\ d.user = c.user /\ d.kind = c.kind /\ d.place = c.place /\ d.folder = c.folder
    BY <1>1, <1>2 DEF Commands
  <1>5. Program(d) = Program(c) /\ LockStep(d) = LockStep(c)
    BY <1>4 DEF Program, LockStep
  <1>6. Len(Program(c)) \in Nat
    BY <1>1 DEF Program, StepsOf, Commands, Kinds
  <1>7. Done(d) = Done(c) + 1 /\ Done(c) \in Int
    <2> DEFINE all == Len(Program(c))
               left == Len(c.todo)
    <2>1. Done(c) = all - left
      BY DEF Done
    <2>2. Done(d) = all - (left - 1)
      BY <1>2, <1>4, <1>5 DEF Done
    <2>3. all \in Nat /\ left \in Nat
      BY <1>3, <1>6
    <2> HIDE DEF all, left
    <2> QED
      BY <2>1, <2>2, <2>3
  <1>8. ASSUME NEW i \in 1 .. Len(d.todo) PROVE d.todo[i] = Program(d)[Done(d) + i]
    <2>1. i + 1 \in 1 .. Len(c.todo) /\ d.todo[i] = c.todo[i + 1]
      BY <1>2, <1>3, <1>4
    <2>2. c.todo[i + 1] = Program(c)[Done(c) + (i + 1)]
      BY <2>1 DEF InProgram
    <2>3. Done(c) + (i + 1) = Done(d) + i
      BY <1>7
    <2> QED
      BY <1>5, <2>1, <2>2, <2>3
  <1>9. d.place.owner = d.user /\ (d.kind = "configure" => d.place = NativePlace)
    BY <1>4 DEF InProgram
  <1>10. Done(d) >= 0
    BY <1>7 DEF InProgram
  <1> QED
    BY <1>4, <1>5, <1>7, <1>8, <1>9, <1>10 DEF InProgram
-----------------------------------------------------------------------------
\* Steps of shells.

LEMMA PlacesFact ==
  ASSUME NEW u \in Accounts, ReservationTyped
  PROVE  Discovered(u) \subseteq PlacesOf
  BY DEF Discovered, ReservationTyped, PlacesOf

\* A shell that does the next step of its command.
LEMMA Moves ==
  ASSUME ReservationInv, NEW s \in Shells, NextOf(s) # "none", DoneWith(s)
  PROVE  /\ Working(s) /\ InProgram(shell[s]) /\ shell[s].todo # << >>
         /\ NextOf(s) = Head(shell[s].todo)
         /\ shell' \in [Shells -> {AtPrompt} \cup Commands] /\ Working(s)'
         /\ shell'[s] = [shell[s] EXCEPT !.todo = Tail(@)] /\ InProgram(shell'[s])
         /\ \A r \in Shells \ {s} : shell'[r] = shell[r]
  <1>1. Working(s) /\ shell[s].todo # << >> /\ NextOf(s) = Head(shell[s].todo)
    BY DEF NextOf
  <1>2. InProgram(shell[s])
    BY <1>1 DEF ReservationInv, ShellPlaced
  <1>3. shell \in [Shells -> {AtPrompt} \cup Commands]
    BY DEF ReservationInv, ReservationTyped
  <1>4. /\ shell'[s] = [shell[s] EXCEPT !.todo = Tail(@)]
        /\ \A r \in Shells \ {s} : shell'[r] = shell[r]
    BY <1>3 DEF DoneWith
  <1>5. InProgram(shell'[s])
    BY <1>1, <1>2, <1>4, StepTaken
  <1>6. shell'[s] \in Commands
    BY <1>5 DEF InProgram
  <1>7. shell' \in [Shells -> {AtPrompt} \cup Commands]
    BY <1>3, <1>6 DEF DoneWith
  <1>8. Working(s)'
    BY <1>6 DEF Working, AtPrompt, Commands
  <1> QED
    BY <1>1, <1>2, <1>4, <1>5, <1>7, <1>8

\* What a command has behind it grows by the step it did.
LEMMA OneFurther ==
  ASSUME NEW c, InProgram(c), c.todo # << >>,
         NEW d, d = [c EXCEPT !.todo = Tail(@)]
  PROVE  /\ d.user = c.user /\ d.kind = c.kind /\ d.place = c.place /\ d.folder = c.folder
         /\ Locks(d) => Locks(c) \/ Head(c.todo) = "lock"
         /\ Checked(d) => Checked(c) \/ Head(c.todo) = "check"
         /\ Checked(d) => Locks(c)
         /\ WrittenBy(d) => WrittenBy(c) \/ Head(c.todo) = "write"
  <1> DEFINE n == Done(c)
             k == LockStep(c)
             h == Head(c.todo)
  <1>1. /\ h = "lock" <=> n + 1 = k
        /\ c.kind # "purge" /\ n = k => h = "check"
        /\ c.kind = "setup" /\ n = 5 => h = "write"
    BY StepFacts
  <1>2. /\ Done(d) = n + 1 /\ LockStep(d) = k
        /\ d.user = c.user /\ d.kind = c.kind /\ d.place = c.place /\ d.folder = c.folder
    BY StepTaken
  <1>3. k \in Int
    BY DEF LockStep
  <1>4. n \in Int
    BY DoneIsInt
  <1>5. /\ Locks(c) <=> n >= k
        /\ Checked(c) <=> c.kind # "purge" /\ n > k
        /\ WrittenBy(c) <=> c.kind = "setup" /\ n >= 6
        /\ Locks(d) <=> n + 1 >= k
        /\ Checked(d) <=> c.kind # "purge" /\ n + 1 > k
        /\ WrittenBy(d) <=> c.kind = "setup" /\ n + 1 >= 6
    BY <1>2 DEF Locks, Checked, WrittenBy
  <1> HIDE DEF n, k, h
  <1>6. /\ Locks(d) => Locks(c) \/ h = "lock"
        /\ Checked(d) => Checked(c) \/ h = "check"
        /\ Checked(d) => Locks(c)
        /\ WrittenBy(d) => WrittenBy(c) \/ h = "write"
    BY <1>1, <1>3, <1>4, <1>5
  <1> QED
    BY <1>2, <1>6 DEF h

\* Who holds a lock is disturbed by nobody else: only what the mover's user owns changes,
\* and only under that user's lock.
LEMMA Bystander ==
  ASSUME ReservationInv, NEW s \in Shells, NEW r \in Shells, r # s, shell'[r] = shell[r],
         NEW u \in Accounts,
         UNCHANGED <<manifests, registry>> \/ setupLock[u] = s,
         \A p \in PlacesOf : p.owner # u => manifests'[p] = manifests[p],
         \A a \in Accounts : a # u => registry'[a] = registry[a],
         \A a \in Accounts : setupLock[a] = r => setupLock'[a] = r
  PROVE  ShellPlaced(r)'
  <1> SUFFICES ASSUME Working(r)'
               PROVE  /\ InProgram(shell[r])
                      /\ Locks(shell[r]) => setupLock'[shell[r].user] = r
                      /\ Checked(shell[r]) => Apart(shell[r])'
                      /\ WrittenBy(shell[r]) => manifests'[shell[r].place] = shell[r].folder
    BY DEF ShellPlaced, Apart
  <1> DEFINE c == shell[r]
  <1>1. Working(r)
    BY DEF Working
  <1>2. /\ InProgram(c)
        /\ Locks(c) => setupLock[c.user] = r
        /\ Checked(c) => Apart(c)
        /\ WrittenBy(c) => manifests[c.place] = c.folder
    BY <1>1 DEF ReservationInv, ShellPlaced
  <1>3. c.user \in Accounts /\ c.place \in PlacesOf /\ c.place.owner = c.user
    BY <1>2 DEF InProgram, Commands
  <1>4. Checked(c) \/ WrittenBy(c) => Locks(c)
    BY <1>2, PastTheLock
  <1>5. CASE UNCHANGED <<manifests, registry>>
    BY <1>2, <1>3, <1>5 DEF Apart, Discovered, LoadManifest
  <1>6. CASE setupLock[u] = s
    <2>1. Locks(c) => c.user # u
      BY <1>2, <1>6
    <2>2. ASSUME Checked(c) PROVE Apart(c)'
      <3>1. c.user # u
        BY <1>4, <2>1, <2>2
      <3>2. ASSUME NEW p \in Discovered(c.user)', p.owner = c.user
            PROVE  p \in Discovered(c.user) /\ manifests'[p] = manifests[p]
        <4>1. p \in registry[c.user] \cup {NativePlace, [owner |-> c.user, output |-> "default"]}
          BY <1>3, <3>1, <3>2 DEF Discovered
        <4>2. p \in PlacesOf
          BY <1>3, <4>1 DEF ReservationInv, ReservationTyped, PlacesOf
        <4> QED
          BY <3>1, <3>2, <4>1, <4>2 DEF Discovered, LoadManifest
      <3> QED
        BY <1>2, <2>2, <3>2 DEF Apart
    <2>3. WrittenBy(c) => manifests'[c.place] = c.folder
      BY <1>2, <1>3, <1>4, <2>1
    <2> QED
      BY <1>2, <1>3, <2>2, <2>3
  <1> QED
    BY <1>5, <1>6

\* A step that changes no manifest, no registry and no lock.
LEMMA QuietStep ==
  ASSUME ReservationInv, NEW s \in Shells, NextOf(s) \notin {"none", "lock", "write"}, DoneWith(s),
         NextOf(s) = "check" => ~FolderRefused(s),
         UNCHANGED <<manifests, registry, setupLock>>
  PROVE  ReservationInv'
  <1> DEFINE c == shell[s]
             d == shell'[s]
  <1>1. /\ Working(s) /\ InProgram(c) /\ c.todo # << >> /\ NextOf(s) = Head(c.todo)
        /\ shell' \in [Shells -> {AtPrompt} \cup Commands]
        /\ d = [c EXCEPT !.todo = Tail(@)] /\ InProgram(d)
        /\ \A r \in Shells \ {s} : shell'[r] = shell[r]
    BY Moves
  <1>2. /\ Locks(c) => setupLock[c.user] = s
        /\ Checked(c) => Apart(c)
        /\ WrittenBy(c) => manifests[c.place] = c.folder
    BY <1>1 DEF ReservationInv, ShellPlaced
  <1>3. /\ d.user = c.user /\ d.kind = c.kind /\ d.place = c.place /\ d.folder = c.folder
        /\ Locks(d) => Locks(c) \/ Head(c.todo) = "lock"
        /\ Checked(d) => Checked(c) \/ Head(c.todo) = "check"
        /\ WrittenBy(d) => WrittenBy(c) \/ Head(c.todo) = "write"
    BY <1>1, OneFurther
  <1>4. c.user \in Accounts
    BY <1>1 DEF InProgram, Commands
  <1>5. Head(c.todo) = "check" => Apart(c)
    BY <1>1 DEF FolderRefused, Looks, Dedicated, Apart
  <1>6. ShellPlaced(s)'
    BY <1>1, <1>2, <1>3, <1>5 DEF ShellPlaced, Apart, Discovered, LoadManifest
  <1>7. ASSUME NEW r \in Shells, r # s PROVE ShellPlaced(r)'
    BY <1>1, <1>4, <1>7, Bystander
  <1>8. ReservationTyped' /\ ClaimsApart'
    BY <1>1 DEF ReservationInv, ReservationTyped, ClaimsApart, Discovered, LoadManifest, Clash
  <1> QED
    BY <1>6, <1>7, <1>8 DEF ReservationInv

LEMMA TakesLock ==
  ASSUME ReservationInv, NEW s \in Shells, TakeSetupLock(s)
  PROVE  ReservationInv'
  <1> DEFINE c == shell[s]
             d == shell'[s]
  <1> USE DEF TakeSetupLock
  <1>1. /\ Working(s) /\ InProgram(c) /\ c.todo # << >> /\ NextOf(s) = Head(c.todo)
        /\ shell' \in [Shells -> {AtPrompt} \cup Commands]
        /\ d = [c EXCEPT !.todo = Tail(@)] /\ InProgram(d)
        /\ \A r \in Shells \ {s} : shell'[r] = shell[r]
    BY Moves
  <1>2. /\ Checked(c) => Apart(c)
        /\ WrittenBy(c) => manifests[c.place] = c.folder
    BY <1>1 DEF ReservationInv, ShellPlaced
  <1>3. /\ d.user = c.user /\ d.kind = c.kind /\ d.place = c.place /\ d.folder = c.folder
        /\ Checked(d) => Checked(c) \/ Head(c.todo) = "check"
        /\ WrittenBy(d) => WrittenBy(c) \/ Head(c.todo) = "write"
    BY <1>1, OneFurther
  <1>4. c.user \in Accounts
    BY <1>1 DEF InProgram, Commands
  <1>5. /\ setupLock' \in [Accounts -> Shells \cup {Free}] /\ setupLock'[c.user] = s
        /\ \A a \in Accounts : \A r \in Shells : setupLock[a] = r => setupLock'[a] = r
    BY <1>4, ReservationAssumption DEF ReservationInv, ReservationTyped
  <1>6. ShellPlaced(s)'
    BY <1>1, <1>2, <1>3, <1>5 DEF ShellPlaced, Apart, Discovered, LoadManifest
  <1>7. ASSUME NEW r \in Shells, r # s PROVE ShellPlaced(r)'
    BY <1>1, <1>4, <1>5, <1>7, Bystander
  <1>8. ReservationTyped' /\ ClaimsApart'
    BY <1>1, <1>5 DEF ReservationInv, ReservationTyped, ClaimsApart, Discovered, LoadManifest, Clash
  <1> QED
    BY <1>6, <1>7, <1>8 DEF ReservationInv

\* A command ends: what it wrote stays, and its locks are free.
LEMMA Ends ==
  ASSUME ReservationInv, NEW s \in Shells, EndCommand(s), UNCHANGED <<manifests, registry>>
  PROVE  ReservationInv'
  <1>1. /\ shell' \in [Shells -> {AtPrompt} \cup Commands] /\ shell'[s] = AtPrompt
        /\ \A r \in Shells \ {s} : shell'[r] = shell[r]
        /\ setupLock' \in [Accounts -> Shells \cup {Free}]
        /\ \A a \in Accounts : \A r \in Shells \ {s} : setupLock[a] = r => setupLock'[a] = r
    BY DEF EndCommand, ReservationInv, ReservationTyped
  <1>2. ShellPlaced(s)'
    BY <1>1 DEF ShellPlaced, Working
  <1>3. ASSUME NEW r \in Shells, r # s PROVE ShellPlaced(r)'
    BY <1>1, <1>3, ReservationAssumption, Bystander
  <1>4. ReservationTyped' /\ ClaimsApart'
    BY <1>1 DEF ReservationInv, ReservationTyped, ClaimsApart, Discovered, LoadManifest, Clash
  <1> QED
    BY <1>2, <1>3, <1>4 DEF ReservationInv

\* A new command has all of its program to do.
LEMMA BeginsCommand ==
  ASSUME ReservationInv, NEW s \in Shells, NEW u \in Accounts, NEW kind \in Kinds,
         NEW p \in PlacesOf, NEW f \in FolderPaths, Issue(s, u, kind, p, f)
  PROVE  ReservationInv'
  <1> DEFINE as == Handoff(u, p)
             c == [at |-> "working", user |-> as, kind |-> kind, place |-> p,
                   folder |-> f, todo |-> StepsOf(kind, p)]
  <1>1. /\ as \in Accounts /\ p.owner = as /\ (kind = "configure" => p = NativePlace)
        /\ UNCHANGED <<manifests, registry, setupLock>> /\ shell' = [shell EXCEPT ![s] = c]
    BY ReservationAssumption DEF Issue, Handoff
  <1>2. StepsOf(kind, p) \in Seq(StepNames) /\ Len(StepsOf(kind, p)) \in Nat
    BY ProgramFact
  <1>3. c \in Commands
    BY <1>1, <1>2 DEF Commands
  <1>4. Done(c) = 0
    BY <1>2 DEF Done, Program
  <1>5. InProgram(c)
    BY <1>1, <1>2, <1>3, <1>4 DEF InProgram, Program
  <1>6. ~Locks(c) /\ ~Checked(c) /\ ~WrittenBy(c)
    BY <1>4 DEF Locks, Checked, WrittenBy, LockStep
  <1>7. /\ shell' \in [Shells -> {AtPrompt} \cup Commands] /\ shell'[s] = c
        /\ \A r \in Shells \ {s} : shell'[r] = shell[r]
    BY <1>1, <1>3 DEF ReservationInv, ReservationTyped
  <1> HIDE DEF c
  <1>8. ShellPlaced(s)'
    BY <1>5, <1>6, <1>7 DEF ShellPlaced
  <1>9. ASSUME NEW r \in Shells, r # s PROVE ShellPlaced(r)'
    BY <1>1, <1>7, <1>9, Bystander
  <1>10. ReservationTyped' /\ ClaimsApart'
    BY <1>1, <1>7 DEF ReservationInv, ReservationTyped, ClaimsApart, Discovered, LoadManifest, Clash
  <1> QED
    BY <1>8, <1>9, <1>10 DEF ReservationInv
-----------------------------------------------------------------------------
\* Steps that change a manifest or a registry.

\* The deployments of one user are apart.
UserApart(u) ==
  \A p, q \in Discovered(u) : p.owner = u /\ q.owner = u => ~Clash(p, q)

LEMMA OverlapsSymmetric ==
  ASSUME NEW a, NEW b
  PROVE  Overlaps(a, b) <=> Overlaps(b, a)
  <1>1. {a, b} = {b, a}
    OBVIOUS
  <1> QED
    BY <1>1 DEF Overlaps

\* A place that gets a folder apart from the others, or becomes known with one.
LEMMA JoinsApart ==
  ASSUME NEW c, InProgram(c), Apart(c), UserApart(c.user),
         Discovered(c.user)' \subseteq Discovered(c.user) \cup {c.place},
         manifests'[c.place] = c.folder,
         \A p \in Discovered(c.user) \ {c.place} : manifests'[p] = manifests[p]
  PROVE  UserApart(c.user)' /\ Apart(c)'
  <1>1. Apart(c)'
    BY DEF Apart
  <1>2. ASSUME NEW p \in Discovered(c.user)', NEW q \in Discovered(c.user)',
               p.owner = c.user, q.owner = c.user, Clash(p, q)'
        PROVE  FALSE
    <2>1. p # q /\ Overlaps(manifests'[p], manifests'[q])
      BY <1>2 DEF Clash, Overlaps
    <2>2. manifests'[p] # Free /\ manifests'[q] # Free
      BY <1>2 DEF Clash
    <2>3. CASE p = c.place
      <3>1. q \in Discovered(c.user) /\ q # c.place /\ manifests'[q] = manifests[q]
        BY <2>1, <2>3
      <3> QED
        BY <1>2, <2>1, <2>3, <3>1 DEF Apart
    <2>4. CASE q = c.place
      <3>1. p \in Discovered(c.user) /\ p # c.place /\ manifests'[p] = manifests[p]
        BY <2>1, <2>4
      <3> QED
        BY <1>2, <2>1, <2>4, <3>1, OverlapsSymmetric DEF Apart
    <2>5. CASE p # c.place /\ q # c.place
      <3>1. /\ p \in Discovered(c.user) /\ manifests'[p] = manifests[p]
            /\ q \in Discovered(c.user) /\ manifests'[q] = manifests[q]
        BY <2>5
      <3> QED
        BY <1>2, <2>1, <2>2, <3>1 DEF UserApart, Clash
    <2> QED
      BY <2>3, <2>4, <2>5
  <1>3. UserApart(c.user)'
    BY <1>2 DEF UserApart
  <1> QED
    BY <1>1, <1>3

\* A place that is found no longer disturbs nobody.
LEMMA LeavesApart ==
  ASSUME NEW u, UserApart(u), Discovered(u)' \subseteq Discovered(u),
         \A p \in Discovered(u)' : manifests'[p] = manifests[p]
  PROVE  UserApart(u)'
  BY DEF UserApart, Clash, Overlaps

\* What a step under the lock of one user leaves as it was for all the others.
LEMMA OthersApart ==
  ASSUME ReservationInv, NEW u \in Accounts, NEW a \in Accounts, a # u,
         \A p \in PlacesOf : p.owner # u => manifests'[p] = manifests[p],
         \A b \in Accounts : b # u => registry'[b] = registry[b]
  PROVE  UserApart(a)'
  <1>1. UserApart(a)
    BY DEF ReservationInv, ClaimsApart, UserApart
  <1>2. ASSUME NEW p \in Discovered(a)', p.owner = a
        PROVE  p \in Discovered(a) /\ manifests'[p] = manifests[p]
    <2>1. p \in registry[a] \cup {NativePlace, [owner |-> a, output |-> "default"]}
      BY <1>2 DEF Discovered
    <2>2. p \in PlacesOf
      BY <2>1 DEF ReservationInv, ReservationTyped, PlacesOf
    <2> QED
      BY <1>2, <2>1, <2>2 DEF Discovered, LoadManifest
  <1> QED
    BY <1>1, <1>2 DEF UserApart, Clash, Overlaps

\* A step under the lock, once its effect on its own user is known.
LEMMA StepUnderLock ==
  ASSUME ReservationInv, NEW s \in Shells, DoneWith(s), UNCHANGED setupLock,
         NEW CONSTANT c, c = shell[s],
         NextOf(s) \in {"write", "register", "unregister", "unlink"},
         manifests' \in [PlacesOf -> FolderPaths \cup {Free}],
         registry' \in [Accounts -> SUBSET PlacesOf],
         \A p \in PlacesOf : p.owner # c.user => manifests'[p] = manifests[p],
         \A a \in Accounts : a # c.user => registry'[a] = registry[a],
         UserApart(c.user)',
         c.kind # "purge" => Apart(c)' /\ manifests'[c.place] = c.folder
  PROVE  ReservationInv'
  <1> DEFINE d == shell'[s]
  <1>1. /\ Working(s) /\ InProgram(c) /\ c.todo # << >> /\ NextOf(s) = Head(c.todo)
        /\ shell' \in [Shells -> {AtPrompt} \cup Commands]
        /\ d = [c EXCEPT !.todo = Tail(@)] /\ InProgram(d)
        /\ \A r \in Shells \ {s} : shell'[r] = shell[r]
    BY Moves
  <1>2. Locks(c) /\ setupLock[c.user] = s
    BY <1>1, StepFacts DEF ReservationInv, ShellPlaced
  <1>3. d.user = c.user /\ d.kind = c.kind /\ d.place = c.place /\ d.folder = c.folder
    BY <1>1, OneFurther
  <1>4. c.user \in Accounts
    BY <1>1 DEF InProgram, Commands
  <1>5. Checked(d) \/ WrittenBy(d) => c.kind # "purge"
    BY <1>3 DEF Checked, WrittenBy
  <1>6. ShellPlaced(s)'
    BY <1>1, <1>2, <1>3, <1>5 DEF ShellPlaced, Apart
  <1>7. ASSUME NEW r \in Shells, r # s PROVE ShellPlaced(r)'
    BY <1>1, <1>2, <1>4, <1>7, Bystander
  <1>8. ReservationTyped'
    BY <1>1 DEF ReservationInv, ReservationTyped
  <1>9. ClaimsApart'
    <2>1. ASSUME NEW a \in Accounts PROVE UserApart(a)'
      <3>1. CASE a = c.user
        BY <3>1
      <3>2. CASE a # c.user
        BY <1>4, <3>2, OthersApart
      <3> QED
        BY <3>1, <3>2
    <2> QED
      BY <2>1 DEF ClaimsApart, UserApart
  <1> QED
    BY <1>6, <1>7, <1>8, <1>9 DEF ReservationInv

\* A command about to change a manifest or a registry.
LEMMA AboutToChange ==
  ASSUME ReservationInv, NEW s \in Shells, DoneWith(s), NEW CONSTANT c, c = shell[s],
         NextOf(s) \in {"write", "register", "unregister", "unlink"}
  PROVE  /\ InProgram(c) /\ c.user \in Accounts /\ c.place \in PlacesOf /\ c.folder \in FolderPaths
         /\ c.place.owner = c.user /\ UserApart(c.user)
         /\ NextOf(s) \in {"write", "register"} => Apart(c)
         /\ NextOf(s) = "register" => manifests[c.place] = c.folder
         /\ NextOf(s) \in {"unregister", "unlink"} => c.kind = "purge"
  <1>1. Working(s) /\ InProgram(c) /\ c.todo # << >> /\ NextOf(s) = Head(c.todo)
    BY Moves
  <1>2. (Checked(c) => Apart(c)) /\ (WrittenBy(c) => manifests[c.place] = c.folder)
    BY <1>1 DEF ReservationInv, ShellPlaced
  <1>3. c.user \in Accounts /\ c.place \in PlacesOf /\ c.folder \in FolderPaths
    BY <1>1 DEF InProgram, Commands
  <1>4. UserApart(c.user)
    BY <1>3 DEF ReservationInv, ClaimsApart, UserApart
  <1> QED
    BY <1>1, <1>2, <1>3, <1>4, StepFacts DEF InProgram

LEMMA Writes ==
  ASSUME ReservationInv, NEW s \in Shells, WriteManifest(s)
  PROVE  ReservationInv'
  <1>1. NextOf(s) = "write" /\ DoneWith(s) /\ UNCHANGED <<registry, setupLock>>
    BY DEF WriteManifest
  <1>2. PICK c : c = shell[s]
    OBVIOUS
  <1>3. /\ InProgram(c) /\ c.user \in Accounts /\ c.place \in PlacesOf /\ c.folder \in FolderPaths
        /\ c.place.owner = c.user /\ UserApart(c.user) /\ Apart(c)
    BY <1>1, <1>2, AboutToChange
  <1>4. /\ manifests' \in [PlacesOf -> FolderPaths \cup {Free}]
        /\ manifests'[c.place] = c.folder
        /\ \A p \in PlacesOf \ {c.place} : manifests'[p] = manifests[p]
    BY <1>2, <1>3 DEF WriteManifest, ReservationInv, ReservationTyped
  <1>5. Discovered(c.user) \subseteq PlacesOf /\ Discovered(c.user)' \subseteq PlacesOf
    <2>1. ReservationTyped
      BY DEF ReservationInv
    <2>2. Discovered(c.user)' \subseteq registry[c.user] \cup {NativePlace, [owner |-> c.user, output |-> "default"]}
      BY <1>1 DEF Discovered
    <2> QED
      BY <1>3, <2>1, <2>2, PlacesFact DEF ReservationTyped, PlacesOf
  <1>6. Discovered(c.user)' \subseteq Discovered(c.user) \cup {c.place}
    BY <1>1, <1>4, <1>5 DEF Discovered, LoadManifest
  <1>7. UserApart(c.user)' /\ Apart(c)'
    BY <1>3, <1>4, <1>5, <1>6, JoinsApart
  <1>8. registry' \in [Accounts -> SUBSET PlacesOf]
    BY <1>1 DEF ReservationInv, ReservationTyped
  <1> QED
    BY <1>1, <1>2, <1>3, <1>4, <1>7, <1>8, StepUnderLock

LEMMA Registers ==
  ASSUME ReservationInv, NEW s \in Shells, RegisterInstance(s)
  PROVE  ReservationInv'
  <1>1. NextOf(s) = "register" /\ DoneWith(s) /\ UNCHANGED <<manifests, setupLock>>
    BY DEF RegisterInstance
  <1>2. PICK c : c = shell[s]
    OBVIOUS
  <1>3. /\ InProgram(c) /\ c.user \in Accounts /\ c.place \in PlacesOf
        /\ UserApart(c.user) /\ Apart(c) /\ manifests[c.place] = c.folder
    BY <1>1, <1>2, AboutToChange
  <1>4. /\ registry' \in [Accounts -> SUBSET PlacesOf]
        /\ registry'[c.user] = registry[c.user] \cup {c.place}
        /\ \A a \in Accounts : a # c.user => registry'[a] = registry[a]
    BY <1>2, <1>3 DEF RegisterInstance, ReservationInv, ReservationTyped
  <1>5. Discovered(c.user)' \subseteq Discovered(c.user) \cup {c.place}
    BY <1>1, <1>4 DEF Discovered, LoadManifest
  <1>6. UserApart(c.user)' /\ Apart(c)'
    BY <1>1, <1>3, <1>5, JoinsApart
  <1>7. manifests' \in [PlacesOf -> FolderPaths \cup {Free}]
    BY <1>1 DEF ReservationInv, ReservationTyped
  <1> QED
    BY <1>1, <1>2, <1>3, <1>4, <1>6, <1>7, StepUnderLock

LEMMA Unregisters ==
  ASSUME ReservationInv, NEW s \in Shells, UnregisterInstance(s)
  PROVE  ReservationInv'
  <1>1. NextOf(s) = "unregister" /\ DoneWith(s) /\ UNCHANGED <<manifests, setupLock>>
    BY DEF UnregisterInstance
  <1>2. PICK c : c = shell[s]
    OBVIOUS
  <1>3. c.user \in Accounts /\ UserApart(c.user) /\ c.kind = "purge"
    BY <1>1, <1>2, AboutToChange
  <1>4. /\ registry' \in [Accounts -> SUBSET PlacesOf]
        /\ registry'[c.user] \subseteq registry[c.user]
        /\ \A a \in Accounts : a # c.user => registry'[a] = registry[a]
    BY <1>2, <1>3 DEF UnregisterInstance, ReservationInv, ReservationTyped
  <1>5. Discovered(c.user)' \subseteq Discovered(c.user)
    BY <1>1, <1>4 DEF Discovered, LoadManifest
  <1>6. UserApart(c.user)'
    BY <1>1, <1>3, <1>5, LeavesApart
  <1>7. manifests' \in [PlacesOf -> FolderPaths \cup {Free}]
    BY <1>1 DEF ReservationInv, ReservationTyped
  <1> QED
    BY <1>1, <1>2, <1>3, <1>4, <1>6, <1>7, StepUnderLock

LEMMA Unlinks ==
  ASSUME ReservationInv, NEW s \in Shells, UnlinkManifest(s)
  PROVE  ReservationInv'
  <1>1. NextOf(s) = "unlink" /\ DoneWith(s) /\ UNCHANGED <<registry, setupLock>>
    BY DEF UnlinkManifest
  <1>2. PICK c : c = shell[s]
    OBVIOUS
  <1>3. /\ c.user \in Accounts /\ c.place \in PlacesOf /\ c.place.owner = c.user
        /\ UserApart(c.user) /\ c.kind = "purge"
    BY <1>1, <1>2, AboutToChange
  <1>4. /\ manifests' \in [PlacesOf -> FolderPaths \cup {Free}]
        /\ manifests'[c.place] = Free
        /\ \A p \in PlacesOf \ {c.place} : manifests'[p] = manifests[p]
    BY <1>2, <1>3 DEF UnlinkManifest, ReservationInv, ReservationTyped
  <1>5. ASSUME NEW p \in Discovered(c.user)'
        PROVE  p \in Discovered(c.user) /\ manifests'[p] = manifests[p]
    <2>1. p \in registry[c.user] \cup {NativePlace, [owner |-> c.user, output |-> "default"]}
      BY <1>1, <1>5 DEF Discovered
    <2>2. p \in PlacesOf
      BY <1>3, <2>1 DEF ReservationInv, ReservationTyped, PlacesOf
    <2>3. manifests'[p] # Free
      BY <1>5 DEF Discovered, LoadManifest
    <2>4. manifests'[p] = manifests[p]
      BY <1>4, <2>2, <2>3
    <2> QED
      BY <2>1, <2>3, <2>4 DEF Discovered, LoadManifest
  <1>6. UserApart(c.user)'
    BY <1>3, <1>5, LeavesApart
  <1>7. registry' \in [Accounts -> SUBSET PlacesOf]
    BY <1>1 DEF ReservationInv, ReservationTyped
  <1> QED
    BY <1>1, <1>2, <1>3, <1>4, <1>6, <1>7, StepUnderLock
-----------------------------------------------------------------------------
LEMMA ReservationInvInitially == ReservationInit => ReservationInv
  <1> SUFFICES ASSUME ReservationInit PROVE ReservationInv
    OBVIOUS
  <1> USE DEF ReservationInit
  <1>1. ReservationTyped
    BY DEF ReservationTyped
  <1>2. \A s \in Shells : ShellPlaced(s)
    BY DEF ShellPlaced, Working
  <1>3. ClaimsApart
    <2>1. ASSUME NEW u \in Accounts PROVE Discovered(u) = {}
      <3>1. registry[u] = {} /\ NativePlace \in PlacesOf /\ [owner |-> u, output |-> "default"] \in PlacesOf
        BY DEF PlacesOf
      <3> QED
        BY <3>1 DEF Discovered, LoadManifest
    <2> QED
      BY <2>1 DEF ClaimsApart
  <1> QED
    BY <1>1, <1>2, <1>3 DEF ReservationInv

LEMMA ReservationInvInductive == ReservationInv /\ [ReservationNext]_reservationVars => ReservationInv'
  <1> SUFFICES ASSUME ReservationInv, [ReservationNext]_reservationVars PROVE ReservationInv'
    OBVIOUS
  <1>1. ASSUME NEW s \in Shells, NEW u \in Accounts, NEW kind \in Kinds, NEW p \in PlacesOf,
               NEW f \in FolderPaths, Issue(s, u, kind, p, f)
        PROVE  ReservationInv'
    BY <1>1, BeginsCommand
  <1>2. ASSUME NEW s \in Shells, CheckFolder(s) PROVE ReservationInv'
    BY <1>2, QuietStep DEF CheckFolder
  <1>3. ASSUME NEW s \in Shells, TakeSetupLock(s) PROVE ReservationInv'
    BY <1>3, TakesLock
  <1>4. ASSUME NEW s \in Shells, PlanSetup(s) \/ InstallRuntime(s) \/ UseImage(s) PROVE ReservationInv'
    BY <1>4, QuietStep DEF PlanSetup, InstallRuntime, UseImage
  <1>5. ASSUME NEW s \in Shells, WriteManifest(s) PROVE ReservationInv'
    BY <1>5, Writes
  <1>6. ASSUME NEW s \in Shells, RegisterInstance(s) PROVE ReservationInv'
    BY <1>6, Registers
  <1>7. ASSUME NEW s \in Shells, UnregisterInstance(s) PROVE ReservationInv'
    BY <1>7, Unregisters
  <1>8. ASSUME NEW s \in Shells, UnlinkManifest(s) PROVE ReservationInv'
    BY <1>8, Unlinks
  <1>9. ASSUME NEW s \in Shells, Succeeds(s) \/ Fails(s) PROVE ReservationInv'
    BY <1>9, Ends DEF Succeeds, Fails
  <1>10. CASE UNCHANGED reservationVars
    <2>1. ReservationTyped' /\ ClaimsApart'
      BY <1>10 DEF reservationVars, ReservationInv, ReservationTyped, ClaimsApart, Discovered,
                   LoadManifest, Clash
    <2>2. ASSUME NEW s \in Shells PROVE ShellPlaced(s)'
      BY <1>10 DEF reservationVars, ReservationInv, ShellPlaced, Working, Apart, Discovered, LoadManifest
    <2> QED
      BY <2>1, <2>2 DEF ReservationInv
  <1> QED
    BY <1>1, <1>2, <1>3, <1>4, <1>5, <1>6, <1>7, <1>8, <1>9, <1>10 DEF ReservationNext, Kinds

\* Two paths that lead to one path are one inside the other.
LEMMA WaysToOne ==
  ASSUME NEW f \in HostPaths, NEW g \in HostPaths, NEW x \in HostPaths, IsPrefix(f, x), IsPrefix(g, x)
  PROVE  IsPrefix(f, g) \/ IsPrefix(g, f)
  <1> DEFINE names(y) == {y[i] : i \in DOMAIN y}
  <1>1. f \in Seq(names(f)) /\ g \in Seq(names(g)) /\ x \in Seq(names(x))
    BY ReservationAssumption
  <1>2. ASSUME NEW a \in HostPaths, NEW b \in HostPaths, IsPrefix(a, x), IsPrefix(b, x),
               Len(a) <= Len(b)
        PROVE  IsPrefix(a, b)
    <2>1. a \in Seq(names(a)) /\ b \in Seq(names(b))
      BY ReservationAssumption
    <2>2. /\ Len(a) \in Nat /\ Len(b) \in Nat /\ Len(x) \in Nat
          /\ Len(a) <= Len(x) /\ Len(b) <= Len(x)
      BY <1>1, <1>2, <2>1 DEF IsPrefix
    <2>3. ASSUME NEW c \in HostPaths, c \in Seq(names(c)), IsPrefix(c, x), NEW i \in 1 .. Len(c)
          PROVE  c[i] = x[i]
      <3>1. SubSeq(c, 1, Len(c)) = SubSeq(x, 1, Len(c)) /\ Len(c) <= Len(x)
        BY <2>3 DEF IsPrefix
      <3>2. SubSeq(c, 1, Len(c))[i] = c[i] /\ SubSeq(x, 1, Len(c))[i] = x[i]
        BY <1>1, <2>3, <3>1, SubSeqProperties
      <3> QED
        BY <3>1, <3>2
    <2>4. \A i \in 1 .. Len(a) : a[i] = b[i]
      <3> TAKE i \in 1 .. Len(a)
      <3>1. i \in 1 .. Len(b)
        BY <1>2, <2>2
      <3> QED
        BY <1>2, <2>1, <2>3, <3>1
    <2>5. SubSeq(a, 1, Len(a)) = SubSeq(b, 1, Len(a))
      <3>1. SubSeq(a, 1, Len(a)) \in Seq(names(a)) /\ Len(SubSeq(a, 1, Len(a))) = Len(a)
        BY <2>1, <2>2, SubSeqProperties
      <3>2. SubSeq(b, 1, Len(a)) \in Seq(names(b)) /\ Len(SubSeq(b, 1, Len(a))) = Len(a)
        BY <1>2, <2>1, <2>2, SubSeqProperties
      <3>3. \A i \in 1 .. Len(a) : SubSeq(a, 1, Len(a))[i] = SubSeq(b, 1, Len(a))[i]
        BY <1>2, <2>1, <2>2, <2>4, SubSeqProperties
      <3> QED
        BY <3>1, <3>2, <3>3, SeqEqual
    <2> QED
      BY <1>2, <2>5 DEF IsPrefix
  <1>3. Len(f) \in Nat /\ Len(g) \in Nat
    BY <1>1
  <1> QED
    BY <1>2, <1>3

(***************************************************************************)
(* Two deployments that one user set up and that discovery finds never     *)
(* have one directory for their folder, and no path lies in the trees of   *)
(* both, on every host, however many shells run setups, a change of folder *)
(* and removals at once, and wherever they fail or are killed: what a      *)
(* command saw under the setup lock stays true until it has written its    *)
(* manifest and registered it.                                             *)
(***************************************************************************)
THEOREM ReservationFoldersApart == ReservationSpec => []OwnFoldersApart
  <1>1. ReservationInv => OwnFoldersApart
    <2> SUFFICES ASSUME ReservationInv, NEW u \in Accounts, NEW p \in Discovered(u),
                        NEW q \in Discovered(u), p # q, p.owner = u, q.owner = u
                 PROVE  /\ Leads[manifests[p]] # Leads[manifests[q]]
                        /\ \A x \in HostPaths : ~(IsPrefix(manifests[p], x) /\ IsPrefix(manifests[q], x))
      BY DEF OwnFoldersApart
    <2>1. ~Clash(p, q)
      BY DEF ReservationInv, ClaimsApart
    <2>2. p \in PlacesOf /\ q \in PlacesOf /\ manifests[p] # Free /\ manifests[q] # Free
      BY PlacesFact DEF ReservationInv, Discovered, LoadManifest
    <2>3. manifests[p] \in HostPaths /\ manifests[q] \in HostPaths
      BY <2>2, ReservationAssumption DEF ReservationInv, ReservationTyped
    <2>4. ~Overlaps(manifests[p], manifests[q])
      BY <2>1, <2>2 DEF Clash
    <2> QED
      BY <2>3, <2>4, WaysToOne DEF Overlaps
  <1> QED
    BY <1>1, ReservationInvInitially, ReservationInvInductive, PTL DEF ReservationSpec

-----------------------------------------------------------------------------
(***************************************************************************)
(*                             PortableSettings                            *)
(***************************************************************************)

\* A change of configuration is examined with the environment, and holds the lock to write.
ChangePlaced(e) ==
  editor[e].at \in {"confirm", "locked"} =>
    /\ Examined(editor[e].candidate, env)
    /\ editor[e].candidate = EditIni(editor[e].before, editor[e].change)
    /\ editor[e].at = "locked" => editing = e

\* A new password is prepared under the lock, from the file as it still is.
ResetPlaced(e) ==
  editor[e].at \in {"auth", "profile"} =>
    /\ editing = e /\ editor[e].before = ini
    /\ Examined(editor[e].candidate, << >>)
    /\ editor[e].candidate = Layered(EditIni(editor[e].before, editor[e].change), [auth |-> "auth"])

EditorPlaced(e) == ChangePlaced(e) /\ ResetPlaced(e)

EditsInv ==
  /\ editor = [e \in Editors |-> editor[e]] /\ editing \in Editors \cup {NoEditor}
  /\ \A e \in Editors : EditorPlaced(e)

\* What an edit may do to the file.
SavesWhatStarts(e) ==
  /\ editor[e].at = "locked" /\ editor'[e] = NoCommand /\ ini' # ini =>
       Starts(ini', env) \/ ~FolderApart(ini', << >>)
  /\ editor[e].at = "profile" /\ editor'[e] = NoCommand /\ ini' # ini => Starts(ini', << >>)
BuildsOnLatest(e) ==
  \/ editor[e].at = "locked" /\ SameExcept(ini', ini, DOMAIN editor[e].change)
  \/ editor[e].at = "profile" /\ SameExcept(ini', ini, DOMAIN editor[e].change \cup {"auth"})

EditKept ==
  /\ EditsInv'
  /\ \A e \in Editors : SavesWhatStarts(e)
  /\ ini' # ini => \E e \in Editors : BuildsOnLatest(e)

\* An edit leaves the fields alone that it does not name; a new password names one more.
LEMMA EditKeepsOthers ==
  ASSUME NEW file, NEW change
  PROVE  /\ SameExcept(EditIni(file, change), file, DOMAIN change)
         /\ SameExcept(Layered(EditIni(file, change), [auth |-> "auth"]), file, DOMAIN change \cup {"auth"})
<1>1. ASSUME NEW f \in Fields \ DOMAIN change
      PROVE  /\ f \in DOMAIN EditIni(file, change) <=> f \in DOMAIN file
             /\ f \in DOMAIN file => EditIni(file, change)[f] = file[f]
  BY <1>1 DEF EditIni
<1>2. ASSUME NEW f \in Fields \ (DOMAIN change \cup {"auth"}), NEW edited
      PROVE  /\ f \in DOMAIN Layered(edited, [auth |-> "auth"]) <=> f \in DOMAIN edited
             /\ f \in DOMAIN edited => Layered(edited, [auth |-> "auth"])[f] = edited[f]
  BY <1>2 DEF Layered
<1> QED
  BY <1>1, <1>2 DEF SameExcept

\* A step of one editor.
LEMMA OneEdits ==
  ASSUME EditsInv, NEW e \in Editors, UNCHANGED env,
         editor' = [editor EXCEPT ![e] = editor'[e]],
         editing' \in {editing, e, NoEditor}, editing' # editing => editing \in {e, NoEditor},
         ini' = ini \/ (editing = e /\ BuildsOnLatest(e)),
         EditorPlaced(e)', SavesWhatStarts(e)
  PROVE  EditKept
<1>1. editor' = [o \in Editors |-> IF o = e THEN editor'[e] ELSE editor[o]]
  BY DEF EditsInv
<1>2. ASSUME NEW o \in Editors, o # e PROVE EditorPlaced(o)' /\ SavesWhatStarts(o)
  <2>1. editor'[o] = editor[o] /\ EditorPlaced(o) /\ o # NoEditor
    BY <1>1, <1>2, EditorsAssumption DEF EditsInv
  <2>2. editing = o => editing' = o
    BY <1>2, <2>1
  <2>3. ChangePlaced(o)'
    BY <2>1, <2>2 DEF EditorPlaced, ChangePlaced, Examined, Accepted, FolderApart
  <2>4. ResetPlaced(o)'
    BY <1>2, <2>1, <2>2 DEF EditorPlaced, ResetPlaced, Examined, Accepted, FolderApart
  <2>5. SavesWhatStarts(o)
    BY <2>1 DEF SavesWhatStarts, NoCommand
  <2> QED
    BY <2>3, <2>4, <2>5 DEF EditorPlaced
<1>3. editor' = [o \in Editors |-> editor'[o]] /\ editing' \in Editors \cup {NoEditor}
  BY <1>1 DEF EditsInv
<1> QED
  BY <1>2, <1>3 DEF EditsInv, EditKept

\* A step that writes no file.
LEMMA QuietEdit ==
  ASSUME EditsInv, NEW e \in Editors, UNCHANGED <<env, ini>>,
         editor' = [editor EXCEPT ![e] = editor'[e]],
         editing' \in {editing, e, NoEditor}, editing' # editing => editing \in {e, NoEditor},
         EditorPlaced(e)'
  PROVE  EditKept
BY OneEdits DEF SavesWhatStarts

\* What was examined is what is written, and on the file it was derived from.
LEMMA EditsStep ==
  ASSUME EditsInv, [SettingsNext]_settingsVars
  PROVE  EditKept
<1>1. ASSUME NEW e \in Editors, UNCHANGED <<env, ini, editing>>,
             \/ editor' = [editor EXCEPT ![e] = editor'[e]] /\ editor'[e].at = "draft"
      PROVE  EditKept
  BY <1>1, QuietEdit DEF EditorPlaced, ChangePlaced, ResetPlaced
<1>2. ASSUME NEW e \in Editors, NEW c, Proposed(e, c), UNCHANGED <<env, ini, editing>> PROVE EditKept
  <2>1. editor'[e] = [at |-> "confirm", before |-> ini, candidate |-> EditIni(ini, c), change |-> c, secret |-> secret]
        /\ editor' = [editor EXCEPT ![e] = editor'[e]] /\ Examined(EditIni(ini, c), env)
    BY <1>2 DEF Proposed, EditsInv
  <2>2. EditorPlaced(e)'
    BY <1>2, <2>1 DEF EditorPlaced, ChangePlaced, ResetPlaced, Examined, Accepted, FolderApart
  <2> QED
    BY <1>2, <2>1, <2>2, QuietEdit
<1>3. ASSUME NEW e \in Editors, NEW c, Resetting(e, c) PROVE EditKept
  <2> DEFINE candidate == Layered(EditIni(ini, c), [auth |-> "auth"])
  <2>1. /\ editor'[e] = [at |-> "auth", before |-> ini, candidate |-> candidate, change |-> c, secret |-> secret]
        /\ editor' = [editor EXCEPT ![e] = editor'[e]] /\ Examined(candidate, << >>)
        /\ editing = NoEditor /\ editing' = e /\ UNCHANGED <<ini, env>>
    BY <1>3 DEF Resetting, EditsInv
  <2> HIDE DEF candidate
  <2>2. EditorPlaced(e)'
    BY <2>1 DEF candidate, EditorPlaced, ChangePlaced, ResetPlaced, Examined, Accepted, FolderApart
  <2> QED
    BY <2>1, <2>2, QuietEdit
<1>4. ASSUME NEW e \in Editors, EndEdit(e), UNCHANGED env
      PROVE  /\ editor' = [editor EXCEPT ![e] = editor'[e]] /\ editor'[e] = NoCommand /\ EditorPlaced(e)'
             /\ editing' \in {editing, e, NoEditor} /\ (editing' # editing => editing \in {e, NoEditor})
  BY <1>4 DEF EndEdit, EditsInv, EditorPlaced, ChangePlaced, ResetPlaced, NoCommand
<1>5. ASSUME NEW e \in Editors, EndEdit(e), UNCHANGED <<env, ini>> PROVE EditKept
  BY <1>4, <1>5, QuietEdit
<1>6. ASSUME NEW e \in Editors, (\E c \in Changes : ConfigSet(e, c)) \/ SaveDraft(e) PROVE EditKept
  BY <1>2, <1>6 DEF ConfigSet, SaveDraft
<1>7. ASSUME NEW e \in Editors, OpenWizard(e) \/ (\E c \in WizardChanges : EditDraft(e, c)) PROVE EditKept
  <2>1. CASE OpenWizard(e)
    <3>1. UNCHANGED <<env, ini, editing>> /\ editor' = [editor EXCEPT ![e] = editor'[e]] /\ editor'[e].at = "draft"
      BY <2>1 DEF OpenWizard, EditsInv
    <3> QED
      BY <1>1, <3>1
  <2>2. ASSUME NEW c, EditDraft(e, c) PROVE EditKept
    <3>1. editor[e].at = "draft" /\ UNCHANGED <<env, ini, editing>>
          /\ editor' = [editor EXCEPT ![e] = editor'[e]]
          /\ editor'[e] = [editor[e] EXCEPT !.pages = editor[e].pages + 1, !.change = Layered(editor[e].change, c)]
      BY <2>2 DEF EditDraft, EditsInv
    <3>2. editor'[e].at = "draft"
      BY <3>1
    <3> QED
      BY <1>1, <3>1, <3>2
  <2> QED
    BY <1>7, <2>1, <2>2
<1>8. ASSUME NEW e \in Editors, DraftPassword(e) \/ ResetPassword(e) PROVE EditKept
  BY <1>3, <1>8 DEF DraftPassword, ResetPassword
<1>9. ASSUME NEW e \in Editors, Abandon(e) \/ RestoreSecret(e) PROVE EditKept
  BY <1>5, <1>9 DEF Abandon, RestoreSecret
<1>10. ASSUME NEW e \in Editors, TakeLock(e) PROVE EditKept
  <2>1. /\ editor' = [editor EXCEPT ![e] = editor'[e]] /\ editor'[e] = [editor[e] EXCEPT !.at = "locked"]
        /\ editor[e].at = "confirm" /\ editing = NoEditor /\ editing' = e /\ UNCHANGED <<ini, env>>
    BY <1>10 DEF TakeLock, EditsInv
  <2>2. EditorPlaced(e)'
    BY <2>1 DEF EditsInv, EditorPlaced, ChangePlaced, ResetPlaced, Examined, Accepted, FolderApart
  <2> QED
    BY <2>1, <2>2, QuietEdit
<1>11. ASSUME NEW e \in Editors, WriteSecret(e) PROVE EditKept
  <2>1. /\ editor' = [editor EXCEPT ![e] = editor'[e]] /\ editor'[e] = [editor[e] EXCEPT !.at = "profile"]
        /\ editor[e].at = "auth" /\ UNCHANGED <<ini, env, editing>>
    BY <1>11 DEF WriteSecret, EditsInv
  <2>2. EditorPlaced(e)'
    BY <2>1 DEF EditsInv, EditorPlaced, ChangePlaced, ResetPlaced, Examined, Accepted, FolderApart
  <2> QED
    BY <2>1, <2>2, QuietEdit
<1>12. ASSUME NEW e \in Editors, WriteConfiguration(e) PROVE EditKept
  <2>1. /\ editor[e].at = "locked" /\ editor[e].before = ini /\ ini' = editor[e].candidate
        /\ EndEdit(e) /\ UNCHANGED env
    BY <1>12 DEF WriteConfiguration, SameAsRead
  <2>2. editing = e /\ Examined(ini', env) /\ ini' = EditIni(ini, editor[e].change)
    BY <2>1 DEF EditsInv, EditorPlaced, ChangePlaced
  <2>3. BuildsOnLatest(e)
    BY <2>1, <2>2, EditKeepsOthers DEF BuildsOnLatest
  <2>4. SavesWhatStarts(e)
    BY <2>1, <2>2 DEF SavesWhatStarts, Starts, Examined
  <2> QED
    BY <1>4, <2>1, <2>2, <2>3, <2>4, OneEdits
<1>13. ASSUME NEW e \in Editors, WriteProfile(e) PROVE EditKept
  <2>1. editor[e].at = "profile" /\ ini' = editor[e].candidate /\ EndEdit(e) /\ UNCHANGED env
    BY <1>13 DEF WriteProfile
  <2>2. editing = e /\ Examined(ini', << >>)
        /\ ini' = Layered(EditIni(ini, editor[e].change), [auth |-> "auth"])
    BY <2>1 DEF EditsInv, EditorPlaced, ResetPlaced
  <2>3. BuildsOnLatest(e)
    BY <2>1, <2>2, EditKeepsOthers DEF BuildsOnLatest
  <2>4. SavesWhatStarts(e)
    BY <2>1, <2>2 DEF SavesWhatStarts, Starts, Examined
  <2> QED
    BY <1>4, <2>1, <2>2, <2>3, <2>4, OneEdits
<1>14. CASE UNCHANGED settingsVars
  <2>1. UNCHANGED <<ini, env, editing, editor>>
    BY <1>14 DEF settingsVars
  <2>2. EditsInv'
    BY <2>1 DEF EditsInv, EditorPlaced, ChangePlaced, ResetPlaced, Examined, Accepted, FolderApart
  <2> QED
    BY <2>1, <2>2 DEF SavesWhatStarts, EditKept
<1>15. CASE SettingsNext
  <2>1. PICK e \in Editors :
          \/ (\E c \in Changes : ConfigSet(e, c)) \/ OpenWizard(e) \/ (\E c \in WizardChanges : EditDraft(e, c))
          \/ SaveDraft(e) \/ DraftPassword(e) \/ ResetPassword(e) \/ Abandon(e) \/ TakeLock(e)
          \/ WriteConfiguration(e) \/ WriteSecret(e) \/ WriteProfile(e) \/ RestoreSecret(e)
    BY <1>15 DEF SettingsNext
  <2> QED
    BY <2>1, <1>6, <1>7, <1>8, <1>9, <1>10, <1>11, <1>12, <1>13
<1> QED
  BY <1>14, <1>15

(***************************************************************************)
(* Whatever editors, administrators' environments and kills there are: an  *)
(* edit that is saved leaves a configuration that starts, and differs from *)
(* the file it replaces only in the fields it was about, so that no edit   *)
(* saved meanwhile is lost.                                                *)
(***************************************************************************)
THEOREM SettingsEditsSound == SettingsSpec => EditsSound
<1>1. SettingsInit => EditsInv
  BY DEF SettingsInit, EditsInv, EditorPlaced, ChangePlaced, ResetPlaced, NoCommand
<1>2. EditsInv /\ [SettingsNext]_settingsVars =>
        /\ EditsInv'
        /\ \A e \in Editors :
             /\ editor[e].at = "locked" /\ editor'[e] = NoCommand /\ ini' # ini =>
                  Starts(ini', env) \/ ~FolderApart(ini', << >>)
             /\ editor[e].at = "profile" /\ editor'[e] = NoCommand /\ ini' # ini => Starts(ini', << >>)
        /\ ini' # ini => \E e \in Editors :
             \/ editor[e].at = "locked" /\ SameExcept(ini', ini, DOMAIN editor[e].change)
             \/ editor[e].at = "profile" /\ SameExcept(ini', ini, DOMAIN editor[e].change \cup {"auth"})
  BY EditsStep DEF EditKept, SavesWhatStarts, BuildsOnLatest
<1> QED
  BY <1>1, <1>2, PTL DEF SettingsSpec, EditsSound, SavedStarts, EditsBuildOnLatest

-----------------------------------------------------------------------------
(***************************************************************************)
(*                               ReleaseTrust                              *)
(***************************************************************************)

\* A manifest that passed the tests of a download is genuine, for as long as it is held.
Genuine(m) == m.version \in AllVersions /\ m.exe = Content(m.version, Host)
Carried(u) ==
  /\ updater[u] = [at |-> updater[u].at, manifest |-> updater[u].manifest]
  /\ Genuine(updater[u].manifest)

\* The manifest of a release is signed for its version and this host, or by nobody.
SignedFor(v) ==
  installed[v].manifest.key # Unsigned => installed[v].manifest.exe = Content(v, Host)

\* The command under the lock knows where the link is, and where it goes back to.
UnderLock(u) ==
  LET r == updater[u] IN
  /\ r = [at |-> r.at, command |-> r.command, to |-> r.to, before |-> r.before, created |-> r.created]
  /\ r.to \in AllVersions /\ r.before \in AllVersions /\ r.to # r.before
  /\ active = IF r.at = "switch" THEN r.before ELSE r.to
  /\ SignedFor(r.before)
  /\ r.command = "rollback" \/ Precedence(r.to) > Precedence(r.before)

DiskTyped ==
  /\ installed = [v \in AllVersions |-> installed[v]]
  /\ \A v \in AllVersions : installed[v] = [exe |-> installed[v].exe, manifest |-> installed[v].manifest]

TrustInv ==
  /\ updater = [u \in Updaters |-> updater[u]] /\ active \in AllVersions /\ DiskTyped
  /\ \A u \in Updaters : updater[u].at \in {"same", "download", "lock"} => Carried(u)
  /\ \A u, w \in Updaters : HoldsLock(u) /\ HoldsLock(w) => u = w
  /\ \A u \in Updaters : HoldsLock(u) => UnderLock(u)

\* What a command may switch the service to.
SwitchSound ==
  active' # active =>
    /\ SignedFor(active)'
    /\ \/ installed'[active'].exe = installed'[active'].manifest.exe
       \/ \E u \in Updaters : Reverts(u)
    /\ \/ Precedence(active') > Precedence(active)
       \/ \E u \in Updaters : Reverts(u) \/ (HoldsLock(u) /\ updater[u].command = "rollback")

\* A release that is accepted has the content its manifest names.
LEMMA VerifiedSound ==
  ASSUME NEW v \in AllVersions, Verified(v)
  PROVE  SignedFor(v) /\ installed[v].exe = installed[v].manifest.exe
BY DEF Verified, EnvelopeMatches, SignatureHolds, CanBeSigned, SignedFor

\* A signature with an active key and the envelope of what was asked for.
LEMMA FetchedGenuine ==
  ASSUME NEW m \in Manifests, NEW k, NEW v, SignatureHolds(m, k), EnvelopeMatches(m, v)
  PROVE  Genuine(m)
BY DEF Genuine, SignatureHolds, EnvelopeMatches, CanBeSigned, Manifests

\* The test under the lock is made against the release that is active then.
LEMMA ForwardLater ==
  ASSUME active \in AllVersions, NEW m, m.version \in AllVersions, ForwardUnderLock(m)
  PROVE  m.version # active /\ Precedence(m.version) > Precedence(active)
BY TrustAssumption DEF ForwardUnderLock, NonDowngrade

\* A step of a command that does not hold the lock afterwards and moves nothing.
LEMMA UnlockedStep ==
  ASSUME TrustInv, NEW u \in Updaters, UNCHANGED <<installed, active>>,
         updater' = [updater EXCEPT ![u] = updater'[u]], ~HoldsLock(u)',
         updater'[u].at \in {"same", "download", "lock"} => Carried(u)'
  PROVE  TrustInv' /\ SwitchSound
<1>1. \A w \in Updaters : w # u => updater'[w] = updater[w]
  BY DEF TrustInv
<1>2. \A w \in Updaters : HoldsLock(w)' => w # u /\ HoldsLock(w) /\ UnderLock(w)'
  <2> SUFFICES ASSUME NEW w \in Updaters, HoldsLock(w)' PROVE w # u /\ HoldsLock(w) /\ UnderLock(w)'
    OBVIOUS
  <2>1. w # u /\ updater'[w] = updater[w] /\ HoldsLock(w)
    BY <1>1 DEF HoldsLock
  <2>2. UnderLock(w)
    BY <2>1 DEF TrustInv
  <2> QED
    BY <2>1, <2>2 DEF UnderLock, SignedFor
<1>3. \A w \in Updaters : updater'[w].at \in {"same", "download", "lock"} => Carried(w)'
  BY <1>1 DEF TrustInv, Carried
<1>4. DiskTyped'
  BY DEF TrustInv, DiskTyped
<1>5. updater' = [w \in Updaters |-> updater'[w]]
  BY DEF TrustInv
<1> QED
  BY <1>2, <1>3, <1>4, <1>5 DEF TrustInv, SwitchSound

\* A step that ends the command under the lock: nobody holds it afterwards.
LEMMA EndOfCommand ==
  ASSUME TrustInv, NEW u \in Updaters, HoldsLock(u), updater' = [updater EXCEPT ![u] = NoUpdate],
         active' \in AllVersions, DiskTyped'
  PROVE  TrustInv' /\ updater'[u] = NoUpdate
<1>1. updater'[u] = NoUpdate /\ \A w \in Updaters : w # u => updater'[w] = updater[w]
  BY DEF TrustInv
<1>2. \A w \in Updaters : ~HoldsLock(w)'
  BY <1>1 DEF TrustInv, HoldsLock, NoUpdate
<1>3. \A w \in Updaters : updater'[w].at \in {"same", "download", "lock"} => Carried(w)'
  BY <1>1 DEF TrustInv, Carried, NoUpdate
<1>4. updater' = [w \in Updaters |-> updater'[w]]
  BY DEF TrustInv
<1> QED
  BY <1>1, <1>2, <1>3, <1>4 DEF TrustInv

\* A step that takes the lock, while nobody has it: the command that it begins is sound.
LEMMA LockTaken ==
  ASSUME TrustInv, NEW u \in Updaters, LockFree, NEW name, NEW v \in AllVersions, NEW created,
         updater' = [updater EXCEPT ![u] = Held(name, v, created)], active' = active, DiskTyped',
         v # active, SignedFor(active)', name = "rollback" \/ Precedence(v) > Precedence(active)
  PROVE  TrustInv' /\ SwitchSound
<1>1. /\ updater'[u] = [at |-> "switch", command |-> name, to |-> v, before |-> active, created |-> created]
      /\ \A w \in Updaters : w # u => updater'[w] = updater[w]
  BY DEF TrustInv, Held
<1>2. \A w \in Updaters : HoldsLock(w)' => w = u
  BY <1>1 DEF LockFree, HoldsLock
<1>3. UnderLock(u)'
  BY <1>1 DEF UnderLock, SignedFor, TrustInv
<1>4. \A w \in Updaters : updater'[w].at \in {"same", "download", "lock"} => Carried(w)'
  BY <1>1 DEF TrustInv, Carried
<1>5. updater' = [w \in Updaters |-> updater'[w]]
  BY DEF TrustInv
<1> QED
  BY <1>2, <1>3, <1>4, <1>5 DEF TrustInv, SwitchSound

\* Every step keeps the invariant, and switches only to what was verified or held before.
LEMMA TrustStep ==
  ASSUME TrustInv, [TrustNext]_trustVars
  PROVE  TrustInv' /\ SwitchSound
<1>1. ASSUME NEW u \in Updaters, GiveUp(u) \/ SameVersion(u) \/ (\E v \in AllVersions : RequestUpdate(u, v))
      PROVE  TrustInv' /\ SwitchSound
  <2>1. /\ UNCHANGED <<installed, active>> /\ updater' = [updater EXCEPT ![u] = updater'[u]]
        /\ updater'[u].at \in {"idle", "fetch"}
    BY <1>1 DEF GiveUp, SameVersion, RequestUpdate, NoUpdate, TrustInv
  <2> QED
    BY <2>1, UnlockedStep DEF HoldsLock
<1>2. ASSUME NEW u \in Updaters, FetchVerifiedManifest(u) PROVE TrustInv' /\ SwitchSound
  <2>1. PICK m \in Manifests, k \in SigningKeys :
          /\ SignatureHolds(m, k) /\ EnvelopeMatches(m, updater[u].want)
          /\ updater' = [updater EXCEPT ![u] =
               [at |-> IF m.version = updater[u].seen THEN "same" ELSE "download", manifest |-> m]]
    BY <1>2 DEF FetchVerifiedManifest
  <2>2. Genuine(m)
    BY <2>1, FetchedGenuine
  <2>3. /\ updater'[u] = [at |-> IF m.version = updater[u].seen THEN "same" ELSE "download", manifest |-> m]
        /\ updater' = [updater EXCEPT ![u] = updater'[u]]
    BY <2>1 DEF TrustInv
  <2>4. UNCHANGED <<installed, active>>
    BY <1>2 DEF FetchVerifiedManifest
  <2>5. ~HoldsLock(u)' /\ Carried(u)'
    BY <2>2, <2>3 DEF HoldsLock, Carried, Genuine
  <2> QED
    BY <2>3, <2>4, <2>5, UnlockedStep
<1>3. ASSUME NEW u \in Updaters, DownloadCandidate(u) PROVE TrustInv' /\ SwitchSound
  <2>1. /\ updater[u].at = "download" /\ UNCHANGED <<installed, active>>
        /\ updater' = [updater EXCEPT ![u] = updater'[u]]
        /\ updater'[u] = [updater[u] EXCEPT !.at = "lock"]
    BY <1>3 DEF DownloadCandidate, TrustInv
  <2>2. Carried(u)
    BY <2>1 DEF TrustInv
  <2>3. updater'[u] = [at |-> "lock", manifest |-> updater[u].manifest]
    BY <2>1, <2>2 DEF Carried
  <2>4. ~HoldsLock(u)' /\ Carried(u)'
    BY <2>2, <2>3 DEF HoldsLock, Carried, Genuine
  <2> QED
    BY <2>1, <2>4, UnlockedStep
<1>4. ASSUME NEW u \in Updaters, UpdateLocked(u) PROVE TrustInv' /\ SwitchSound
  <2> DEFINE m == updater[u].manifest
  <2>1. /\ updater[u].at = "lock" /\ LockFree /\ Manageable /\ ForwardUnderLock(m)
        /\ installed' = [installed EXCEPT ![m.version] = IF @ = NotInstalled THEN Release(m) ELSE @]
        /\ updater' = [updater EXCEPT ![u] = Held("update", m.version, installed[m.version] = NotInstalled)]
        /\ active' = active
    BY <1>4 DEF UpdateLocked
  <2>2. Genuine(m)
    BY <2>1 DEF TrustInv, Carried
  <2> HIDE DEF m
  <2>3. m.version \in AllVersions /\ m.version # active /\ Precedence(m.version) > Precedence(active)
    BY <2>1, <2>2, ForwardLater DEF TrustInv, Genuine
  <2>4. DiskTyped'
    BY <2>1, <2>3 DEF TrustInv, DiskTyped, Release
  <2>5. installed'[active] = installed[active] /\ SignedFor(active)
    BY <2>1, <2>3, VerifiedSound DEF TrustInv, DiskTyped, Manageable
  <2>6. SignedFor(active)'
    BY <2>1, <2>5 DEF SignedFor
  <2>7. PICK created : created = (installed[m.version] = NotInstalled)
    OBVIOUS
  <2> QED
    BY <2>1, <2>3, <2>4, <2>6, <2>7, LockTaken
<1>5. ASSUME NEW u \in Updaters, NEW v \in AllVersions, RollbackTo(u, v) PROVE TrustInv' /\ SwitchSound
  <2>1. /\ LockFree /\ Manageable /\ v # active /\ UNCHANGED <<installed, active>>
        /\ updater' = [updater EXCEPT ![u] = Held("rollback", v, FALSE)]
    BY <1>5 DEF RollbackTo
  <2>2. DiskTyped' /\ SignedFor(active)'
    <3>1. SignedFor(active)
      BY <2>1, VerifiedSound DEF TrustInv, Manageable
    <3> QED
      BY <2>1, <3>1 DEF SignedFor, TrustInv, DiskTyped
  <2>3. PICK created : created = FALSE
    OBVIOUS
  <2> QED
    BY <2>1, <2>2, <2>3, LockTaken
<1>6. ASSUME NEW u \in Updaters, Activate(u) PROVE TrustInv' /\ SwitchSound
  <2>1. /\ updater[u].at = "switch" /\ Verified(updater[u].to) /\ active' = updater[u].to
        /\ updater' = [updater EXCEPT ![u].at = "activate"] /\ installed' = installed
    BY <1>6 DEF Activate
  <2>2. HoldsLock(u) /\ UnderLock(u)
    BY <2>1 DEF TrustInv, HoldsLock
  <2>3. /\ updater'[u] = [at |-> "activate", command |-> updater[u].command, to |-> updater[u].to,
                          before |-> updater[u].before, created |-> updater[u].created]
        /\ updater' = [w \in Updaters |-> updater'[w]]
        /\ \A w \in Updaters : w # u => updater'[w] = updater[w]
    BY <2>1, <2>2 DEF TrustInv, UnderLock
  <2>4. \A w \in Updaters : HoldsLock(w)' => w = u
    BY <2>2, <2>3 DEF TrustInv, HoldsLock
  <2>5. UnderLock(u)'
    BY <2>1, <2>2, <2>3 DEF UnderLock, SignedFor
  <2>6. \A w \in Updaters : updater'[w].at \in {"same", "download", "lock"} => Carried(w)'
    BY <2>3 DEF TrustInv, Carried
  <2>7. DiskTyped' /\ active' \in AllVersions
    BY <2>1, <2>2 DEF TrustInv, DiskTyped, UnderLock
  <2>8. TrustInv'
    BY <2>3, <2>4, <2>5, <2>6, <2>7 DEF TrustInv
  <2>9. SignedFor(active)' /\ installed'[active'].exe = installed'[active'].manifest.exe
    BY <2>1, <2>2, VerifiedSound DEF UnderLock, SignedFor
  <2>10. Precedence(active') > Precedence(active) \/ (HoldsLock(u) /\ updater[u].command = "rollback")
    BY <2>1, <2>2 DEF UnderLock
  <2> QED
    BY <2>8, <2>9, <2>10 DEF SwitchSound
<1>7. ASSUME NEW u \in Updaters, Activated(u) PROVE TrustInv' /\ SwitchSound
  <2>1. /\ HoldsLock(u) /\ active' = active /\ updater' = [updater EXCEPT ![u] = NoUpdate]
        /\ installed' = Pruned(installed, updater[u].to, updater[u].before)
    BY <1>7 DEF Activated, HoldsLock
  <2>2. DiskTyped'
    BY <2>1 DEF TrustInv, DiskTyped, Pruned, NotInstalled
  <2> QED
    BY <2>1, <2>2, EndOfCommand DEF TrustInv, SwitchSound
<1>8. ASSUME NEW u \in Updaters, RestorePrevious(u) PROVE TrustInv' /\ SwitchSound
  <2>1. /\ HoldsLock(u) /\ active' = updater[u].before /\ updater' = [updater EXCEPT ![u] = NoUpdate]
        /\ installed' = installed \/ installed' = [installed EXCEPT ![updater[u].to] = NotInstalled]
    BY <1>8 DEF RestorePrevious
  <2>2. UnderLock(u)
    BY <2>1 DEF TrustInv
  <2>3. DiskTyped' /\ active' \in AllVersions /\ installed'[updater[u].before] = installed[updater[u].before]
    BY <2>1, <2>2 DEF TrustInv, DiskTyped, NotInstalled, UnderLock
  <2>4. TrustInv' /\ updater'[u] = NoUpdate
    BY <2>1, <2>3, EndOfCommand
  <2>5. SignedFor(active)'
    BY <2>1, <2>2, <2>3 DEF UnderLock, SignedFor
  <2>6. active' # active => Reverts(u)
    BY <2>1, <2>2, <2>4 DEF UnderLock, Reverts
  <2> QED
    BY <2>4, <2>5, <2>6 DEF SwitchSound
<1>9. ASSUME NEW v \in AllVersions, Rot(v) PROVE TrustInv' /\ SwitchSound
  <2>1. installed' = [installed EXCEPT ![v].exe = Other] /\ UNCHANGED <<active, updater>>
    BY <1>9 DEF Rot
  <2>2. installed' = [installed EXCEPT ![v] = [exe |-> Other, manifest |-> installed[v].manifest]]
    <3>1. PICK e, m : installed[v] = [exe |-> e, manifest |-> m]
      BY DEF TrustInv, DiskTyped
    <3>2. [installed[v] EXCEPT !.exe = Other] = [exe |-> Other, manifest |-> installed[v].manifest]
      BY <3>1
    <3> QED
      BY <2>1, <3>2 DEF TrustInv
  <2>3. DiskTyped' /\ \A w \in AllVersions : installed'[w].manifest = installed[w].manifest
    BY <2>2 DEF TrustInv, DiskTyped
  <2>4. \A u \in Updaters : HoldsLock(u)' => UnderLock(u)'
    BY <2>1, <2>3 DEF TrustInv, HoldsLock, UnderLock, SignedFor
  <2>5. \A u \in Updaters : updater'[u].at \in {"same", "download", "lock"} => Carried(u)'
    BY <2>1 DEF TrustInv, Carried
  <2> QED
    BY <2>1, <2>3, <2>4, <2>5 DEF TrustInv, SwitchSound, HoldsLock
<1>10. CASE UNCHANGED trustVars
  BY <1>10 DEF trustVars, TrustInv, SwitchSound, DiskTyped, HoldsLock, UnderLock, SignedFor, Carried
<1> QED
  BY <1>1, <1>2, <1>3, <1>4, <1>5, <1>6, <1>7, <1>8, <1>9, <1>10 DEF TrustNext

(***************************************************************************)
(* Whatever servers answer, however many administrators update and roll    *)
(* back at once, and whatever rots on disk: the service is switched only to *)
(* releases whose signed manifest names the content their version was      *)
(* built with, found on disk except for the one that a failed command      *)
(* links again; and to an earlier version only by a rollback, or by the    *)
(* command that fails back to where it began.                              *)
(***************************************************************************)
THEOREM TrustUpdatesSound == TrustSpec => UpdatesSound
<1>1. TrustInit => TrustInv
  <2> SUFFICES ASSUME TrustInit PROVE TrustInv
    OBVIOUS
  <2>1. active \in AllVersions /\ \A u \in Updaters : updater[u] = NoUpdate
    BY TrustAssumption DEF TrustInit
  <2>2. DiskTyped
    BY DEF TrustInit, DiskTyped, Release, NotInstalled
  <2> QED
    BY <2>1, <2>2 DEF TrustInit, TrustInv, NoUpdate, HoldsLock
<1>2. TrustInv /\ [TrustNext]_trustVars =>
        /\ TrustInv'
        /\ active' # active =>
             LET r == installed'[active'] IN
             /\ r.manifest.key # Unsigned => r.manifest.exe = Content(active', Host)
             /\ r.exe = r.manifest.exe \/ \E u \in Updaters : Reverts(u)
        /\ active' # active =>
             \/ Precedence(active') > Precedence(active)
             \/ \E u \in Updaters : Reverts(u) \/ (HoldsLock(u) /\ updater[u].command = "rollback")
  BY TrustStep DEF SwitchSound, SignedFor
<1> QED
  BY <1>1, <1>2, PTL DEF TrustSpec, UpdatesSound, SwitchesToGenuine, UpdatesMoveForward
-----------------------------------------------------------------------------
(***************************************************************************)
(*                            ManagedInspection                            *)
(***************************************************************************)

\* What an inode can lead to: the root to a directory, a directory to a file.
Targets(i) == IF i = Anchor THEN Directories \cup {Missing} ELSE Leaves \cup Strangers \cup {Missing}
Walked == {Anchor} \cup Directories

TreeTyped ==
  /\ tree = [i \in Inodes |-> [owner |-> tree[i].owner, mode |-> tree[i].mode, entry |-> tree[i].entry]]
  /\ \A i \in Inodes : tree[i].owner \in Owners /\ tree[i].mode \in Modes
  /\ \A i \in Walked : tree[i].entry \in Targets(i)
  /\ tree[Anchor].owner = "ours"

\* Nobody else may change where the path leads from here, and nobody ever will.
Frozen(i) == i \in Walked /\ ~MayReplace(i)

\* Ours, and nobody else may create an entry in it that we do not see.
Ours(i) == i \in Walked /\ TrustedAncestor(Metadata(i))

\* The second component is reached: it is where the path leads.
AtComponent ==
  /\ Frozen(Anchor) /\ walk.here = tree[Anchor].entry /\ walk.here \in Directories
  /\ Ours(walk.here) /\ walk.before = Metadata(walk.here)

\* What the first pass found: the whole path, or where it ends.
Found ==
  /\ Frozen(Anchor)
  /\ IF walk.dir.id = Anchor THEN tree[Anchor].entry = Missing
     ELSE /\ walk.dir.id \in Directories /\ tree[Anchor].entry = walk.dir.id
          /\ Frozen(walk.dir.id) /\ tree[walk.dir.id].entry = walk.leaf.id

SecondPass == {"again", "reopened", "entry_again", "directory_again", "safe"}
AfterAnchor == {"look", "look_entry", "absent_component", "open", "check"}

WalkPlaced ==
  /\ walk.pass = 1 => walk.at \notin SecondPass
  /\ walk.at \in AfterAnchor => Ours(Anchor)
  /\ walk.at \in {"look_entry", "absent_component", "open", "check"} => walk.before = Metadata(Anchor)
  /\ walk.at = "absent_component" /\ walk.before.mode = "closed" => tree[Anchor].entry = Missing
  /\ walk.at \in {"open", "check"} => Frozen(Anchor)
  /\ walk.at = "check" => walk.opened = tree[Anchor].entry /\ walk.opened # Missing
  /\ walk.at \in {"leaf", "leaf_again"} => walk.pass = 1 /\ AtComponent
  /\ walk.at = "leaf_again" => walk.leaf.id # Missing
  /\ walk.pass # 1 /\ walk.at # "refused" => Found

InspectionInv ==
  /\ TreeTyped
  /\ walk = [at |-> walk.at, pass |-> walk.pass, allowed |-> walk.allowed, here |-> walk.here, before |-> walk.before,
             entry |-> walk.entry, opened |-> walk.opened, dir |-> walk.dir, leaf |-> walk.leaf]
  /\ WalkPlaced

\* A file or directory of the tree, field by field.
LEMMA InodeRecord ==
  ASSUME TreeTyped, NEW i \in Inodes
  PROVE  tree[i] = [owner |-> tree[i].owner, mode |-> tree[i].mode, entry |-> tree[i].entry]
  BY DEF TreeTyped

\* What another user does to the tree.
TreeChange(i, e, m) ==
  /\ i \in Walked /\ m \in Modes
  /\ tree' = [tree EXCEPT ![i] = [owner |-> tree[i].owner, mode |-> m, entry |-> e]]
  /\ e \in Targets(i) /\ (e # tree[i].entry => MayReplace(i))
  /\ m # tree[i].mode => tree[i].owner = "theirs"

\* What another user may do: a directory that is frozen stays as it is, and one that is
\* ours keeps its owner and mode.
LEMMA OthersLeave ==
  ASSUME TreeTyped, OthersReplace \/ OthersChmod
  PROVE  /\ TreeTyped' /\ UNCHANGED walk
         /\ \A i \in Walked : Ours(i) => Ours(i)' /\ Metadata(i)' = Metadata(i)
         /\ \A i \in Walked : Frozen(i) => Frozen(i)' /\ tree'[i].entry = tree[i].entry
  <1>1. UNCHANGED walk
    BY DEF OthersReplace, OthersChmod
  <1>2. \E i, e, m : TreeChange(i, e, m)
    <2>1. CASE OthersReplace
      <3>1. PICK i, e :
              i \in Walked /\ e \in Targets(i) /\ MayReplace(i)
              /\ tree' = [tree EXCEPT ![i].entry = e] /\ UNCHANGED walk
        BY <2>1 DEF OthersReplace, Walked, Targets
      <3>2. tree' = [tree EXCEPT ![i] = [owner |-> tree[i].owner, mode |-> tree[i].mode, entry |-> e]]
        <4>1. i \in Inodes
              /\ tree[i] = [owner |-> tree[i].owner, mode |-> tree[i].mode, entry |-> tree[i].entry]
          BY <3>1, InodeRecord DEF Walked, Inodes
        <4>2. [tree[i] EXCEPT !.entry = e] = [owner |-> tree[i].owner, mode |-> tree[i].mode, entry |-> e]
          BY <4>1
        <4> QED
          BY <3>1, <4>2
      <3>3. TreeChange(i, e, tree[i].mode)
        BY <3>1, <3>2 DEF TreeChange, TreeTyped, Walked, Inodes
      <3> QED
        BY <3>3
    <2>2. CASE OthersChmod
      <3>1. PICK i \in Directories, m \in Modes :
              tree[i].owner = "theirs" /\ tree' = [tree EXCEPT ![i].mode = m] /\ UNCHANGED walk
        BY <2>2 DEF OthersChmod
      <3>2. tree' = [tree EXCEPT ![i] = [owner |-> tree[i].owner, mode |-> m, entry |-> tree[i].entry]]
        <4>1. i \in Inodes
              /\ tree[i] = [owner |-> tree[i].owner, mode |-> tree[i].mode, entry |-> tree[i].entry]
          BY <3>1, InodeRecord DEF Walked, Inodes
        <4>2. [tree[i] EXCEPT !.mode = m] = [owner |-> tree[i].owner, mode |-> m, entry |-> tree[i].entry]
          BY <4>1
        <4> QED
          BY <3>1, <4>2
      <3>3. TreeChange(i, tree[i].entry, m)
        BY <3>1, <3>2 DEF TreeChange, TreeTyped, Walked
      <3> QED
        BY <3>3
    <2> QED
      BY <2>1, <2>2
  <1>3. PICK i, e, m : TreeChange(i, e, m)
    BY <1>2
  <1>4. \A j \in Inodes : tree'[j] = IF j = i THEN [owner |-> tree[i].owner, mode |-> m, entry |-> e] ELSE tree[j]
    BY <1>3 DEF TreeTyped, TreeChange, Walked, Inodes
  <1>5. \A j \in Inodes : tree'[j].owner = tree[j].owner
    BY <1>4
  <1>6. tree' = [j \in Inodes |-> [owner |-> tree'[j].owner, mode |-> tree'[j].mode, entry |-> tree'[j].entry]]
    <2>1. \A j \in Inodes : tree[j] = [owner |-> tree[j].owner, mode |-> tree[j].mode, entry |-> tree[j].entry]
      BY DEF TreeTyped
    <2>2. \A j \in Inodes : tree'[j] = [owner |-> tree'[j].owner, mode |-> tree'[j].mode, entry |-> tree'[j].entry]
      BY <1>4, <2>1
    <2>3. tree' = [j \in Inodes |-> tree'[j]]
      BY <1>3 DEF TreeTyped, TreeChange
    <2> QED
      BY <2>2, <2>3
  <1>7. TreeTyped'
    BY <1>3, <1>4, <1>5, <1>6 DEF TreeChange, TreeTyped, Walked, Inodes, Targets
  <1>8. ASSUME NEW j \in Walked, Ours(j) PROVE Ours(j)' /\ Metadata(j)' = Metadata(j)
    <2>1. j \in Inodes /\ j # Missing
      BY InspectionAssumption DEF Walked, Inodes
    <2>2. tree[j].owner = "ours" /\ tree'[j].mode = tree[j].mode
      BY <1>3, <1>4, <1>8, <2>1 DEF TreeChange, Ours, TrustedAncestor, Metadata
    <2>3. Metadata(j)' = Metadata(j)
      BY <1>5, <2>1, <2>2 DEF Metadata
    <2> QED
      BY <1>8, <2>3 DEF Ours, TrustedAncestor
  <1>9. ASSUME NEW j \in Walked, Frozen(j) PROVE Frozen(j)' /\ tree'[j].entry = tree[j].entry
    <2>1. j \in Inodes /\ (tree[j].entry # Missing => tree[j].entry \in Inodes)
      BY DEF Walked, Inodes, TreeTyped, Targets
    <2>2. tree[j].owner = "ours" /\ tree'[j].mode = tree[j].mode /\ tree'[j].entry = tree[j].entry
      BY <1>3, <1>4, <1>9, <2>1 DEF TreeChange, Frozen, TreeTyped, Owners, MayReplace
    <2> QED
      BY <1>5, <1>9, <2>1, <2>2 DEF Frozen, MayReplace
  <1> QED
    BY <1>1, <1>7, <1>8, <1>9

\* What the walk has found is still so when another user has done something.
LEMMA OthersKeepPlace ==
  ASSUME InspectionInv, OthersReplace \/ OthersChmod
  PROVE  InspectionInv'
  <1>1. /\ TreeTyped' /\ UNCHANGED walk
        /\ \A i \in Walked : Ours(i) => Ours(i)' /\ Metadata(i)' = Metadata(i)
        /\ \A i \in Walked : Frozen(i) => Frozen(i)' /\ tree'[i].entry = tree[i].entry
    BY OthersLeave DEF InspectionInv
  <1>2. Anchor \in Walked /\ Directories \subseteq Walked
    BY DEF Walked
  <1>3. AtComponent => AtComponent'
    BY <1>1, <1>2 DEF AtComponent
  <1>4. Found => Found'
    BY <1>1, <1>2 DEF Found
  <1>5. walk.at = "absent_component" /\ walk.before.mode = "closed" => tree'[Anchor].entry = Missing
    <2>1. ASSUME walk.at = "absent_component", walk.before.mode = "closed" PROVE Frozen(Anchor)
      <3>1. tree[Anchor].mode = "closed" /\ tree[Anchor].owner = "ours"
        BY <2>1, InspectionAssumption DEF InspectionInv, WalkPlaced, Metadata, TreeTyped
      <3> QED
        BY <1>2, <3>1 DEF Frozen, MayReplace
    <2> QED
      BY <1>1, <1>2, <2>1 DEF InspectionInv, WalkPlaced
  <1>6. WalkPlaced'
    BY <1>1, <1>2, <1>3, <1>4, <1>5 DEF InspectionInv, WalkPlaced, AfterAnchor
  <1> QED
    BY <1>1, <1>6 DEF InspectionInv

\* What a look at a directory or a file tells.
LEMMA MetadataFacts ==
  ASSUME NEW i
  PROVE  /\ Metadata(i).id = i
         /\ i # Missing => Metadata(i).owner = tree[i].owner /\ Metadata(i).mode = tree[i].mode
  BY DEF Metadata, NoEntry

\* The walk, changed in one field.
LEMMA WalkMoves ==
  ASSUME TreeTyped, UNCHANGED tree
  PROVE  /\ TreeTyped'
         /\ \A i : Metadata(i)' = Metadata(i)
         /\ \A i : (Ours(i) <=> Ours(i)') /\ (Frozen(i) <=> Frozen(i)')
  BY DEF TreeTyped, Metadata, Ours, Frozen, MayReplace, TrustedAncestor

\* A directory that nobody else may write leads where it led.
LEMMA ProtectedIsFrozen ==
  ASSUME NEW i \in Walked, i # Missing, TreeTyped,
         EntryProtected(Metadata(i), Metadata(tree[i].entry)), tree[i].entry # Missing
  PROVE  Frozen(i)
  BY MetadataFacts DEF EntryProtected, TrustedAncestor, Frozen, MayReplace

\* So does one that is ours and closed.
LEMMA ClosedIsFrozen ==
  ASSUME NEW i \in Walked, i # Missing, TreeTyped, Ours(i), tree[i].mode = "closed"
  PROVE  Frozen(i)
  BY MetadataFacts DEF Ours, TrustedAncestor, Frozen, MayReplace

\* The walk goes on, or is refused; what was found stays found.
LEMMA StepPlaced ==
  ASSUME InspectionInv, UNCHANGED tree,
         walk' = [at |-> walk'.at, pass |-> walk'.pass, allowed |-> walk'.allowed, here |-> walk'.here,
                  before |-> walk'.before, entry |-> walk'.entry, opened |-> walk'.opened, dir |-> walk'.dir,
                  leaf |-> walk'.leaf],
         WalkPlaced'
  PROVE  InspectionInv'
  BY WalkMoves DEF InspectionInv

\* A refusal claims nothing.
LEMMA Refuses ==
  ASSUME InspectionInv, walk' = [walk EXCEPT !.at = "refused"], UNCHANGED tree
  PROVE  InspectionInv'
  <1>1. WalkPlaced'
    BY DEF InspectionInv, WalkPlaced, SecondPass, AfterAnchor
  <1> QED
    BY <1>1, StepPlaced DEF InspectionInv

\* The first pass, one component at a time.
LEMMA InspectionMoves ==
  ASSUME InspectionInv, OpenAnchor \/ LookAtDirectory \/ LookAtEntry \/ ComponentAbsent \/ OpenComponent
                          \/ CheckComponent
  PROVE  InspectionInv'
  <1> USE DEF Go, Stop
  <1>1. Anchor \in Walked /\ Directories \subseteq Walked /\ Anchor # Missing
        /\ Missing \notin Directories
    BY InspectionAssumption DEF Walked
  <1>2. (UNCHANGED tree /\ walk.pass # 1 /\ walk.at # "refused" /\ UNCHANGED <<walk.pass, walk.dir, walk.leaf>>) => Found'
    BY WalkMoves DEF InspectionInv, WalkPlaced, Found
  <1>3. CASE OpenAnchor
    <2>1. CASE TrustedAncestor(Metadata(Anchor))
      <3>1. UNCHANGED tree /\ walk.at = "anchor"
            /\ walk' = [walk EXCEPT !.at = "look", !.here = Anchor]
        BY <1>3, <2>1 DEF OpenAnchor
      <3>2. WalkPlaced'
        BY <1>1, <1>2, <2>1, <3>1, WalkMoves DEF InspectionInv, WalkPlaced, SecondPass,
           AfterAnchor, Ours
      <3> QED
        BY <3>1, <3>2, StepPlaced DEF InspectionInv
    <2> QED
      BY <1>3, <2>1, Refuses DEF OpenAnchor
  <1>4. CASE LookAtDirectory
    <2>1. /\ UNCHANGED tree /\ walk.at = "look"
          /\ walk' = [walk EXCEPT !.at = "look_entry", !.before = Metadata(Anchor)]
      BY <1>4 DEF LookAtDirectory
    <2>2. WalkPlaced'
      BY <1>2, <2>1, WalkMoves DEF InspectionInv, WalkPlaced, SecondPass, AfterAnchor
    <2> QED
      BY <2>1, <2>2, StepPlaced DEF InspectionInv
  <1>5. CASE LookAtEntry
    <2> DEFINE e == Metadata(tree[Anchor].entry)
    <2>1. UNCHANGED tree /\ walk.at = "look_entry" /\ Ours(Anchor) /\ walk.before = Metadata(Anchor)
      BY <1>5 DEF LookAtEntry, InspectionInv, WalkPlaced, AfterAnchor
    <2>2. CASE e.id = Missing
      <3>1. walk' = [walk EXCEPT !.at = "absent_component"] /\ tree[Anchor].entry = Missing
        BY <1>5, <2>2, MetadataFacts DEF LookAtEntry
      <3>2. WalkPlaced'
        BY <1>2, <2>1, <3>1, WalkMoves DEF InspectionInv, WalkPlaced, SecondPass, AfterAnchor
      <3> QED
        BY <2>1, <3>1, <3>2, StepPlaced DEF InspectionInv
    <2>3. CASE e.id # Missing /\ EntryProtected(walk.before, e)
      <3>1. walk' = [walk EXCEPT !.at = "open", !.entry = e]
        BY <1>5, <2>3 DEF LookAtEntry
      <3>2. Frozen(Anchor)
        BY <1>1, <2>1, <2>3, ProtectedIsFrozen, MetadataFacts DEF InspectionInv
      <3>3. WalkPlaced'
        BY <1>2, <2>1, <3>1, <3>2, WalkMoves DEF InspectionInv, WalkPlaced, SecondPass, AfterAnchor
      <3> QED
        BY <2>1, <3>1, <3>3, StepPlaced DEF InspectionInv
    <2>4. CASE e.id # Missing /\ ~EntryProtected(walk.before, e)
      BY <1>5, <2>4, Refuses DEF LookAtEntry
    <2> QED
      BY <2>2, <2>3, <2>4
  <1>6. CASE ComponentAbsent
    <2>1. CASE Metadata(Anchor) = walk.before /\ walk.before.mode = "closed" /\ walk.pass = 1
      <3>1. /\ UNCHANGED tree /\ walk.at = "absent_component" /\ Ours(Anchor)
            /\ walk' = [walk EXCEPT !.at = "again", !.pass = 2, !.dir = walk.before, !.leaf = NoEntry]
            /\ tree[Anchor].entry = Missing /\ tree[Anchor].mode = "closed"
        BY <1>1, <1>6, <2>1, MetadataFacts DEF ComponentAbsent, InspectionInv, WalkPlaced,
           AfterAnchor
      <3>2. Frozen(Anchor) /\ walk'.dir.id = Anchor
        BY <1>1, <2>1, <3>1, ClosedIsFrozen, MetadataFacts DEF InspectionInv
      <3>3. Found'
        BY <3>1, <3>2, WalkMoves DEF Found, InspectionInv
      <3>4. WalkPlaced'
        BY <3>1, <3>3 DEF InspectionInv, WalkPlaced, SecondPass, AfterAnchor
      <3> QED
        BY <3>1, <3>4, StepPlaced DEF InspectionInv
    <2> QED
      BY <1>6, <2>1, Refuses DEF ComponentAbsent
  <1>7. CASE OpenComponent
    <2>1. CASE tree[Anchor].entry = Missing
      BY <1>7, <2>1, Refuses DEF OpenComponent
    <2>2. CASE tree[Anchor].entry # Missing
      <3>1. /\ UNCHANGED tree /\ walk.at = "open"
            /\ walk' = [walk EXCEPT !.at = "check", !.opened = tree[Anchor].entry]
        BY <1>7, <2>2 DEF OpenComponent
      <3>2. WalkPlaced'
        BY <1>2, <2>2, <3>1, WalkMoves DEF InspectionInv, WalkPlaced, SecondPass, AfterAnchor
      <3> QED
        BY <3>1, <3>2, StepPlaced DEF InspectionInv
    <2> QED
      BY <2>1, <2>2
  <1>8. CASE CheckComponent
    <2> DEFINE d == Metadata(walk.opened)
               good == /\ Metadata(Anchor) = walk.before /\ d = walk.entry
                       /\ EntryProtected(Metadata(Anchor), d) /\ TrustedAncestor(d)
    <2>1. CASE good
      <3>1. /\ UNCHANGED tree /\ walk.at = "check" /\ Frozen(Anchor) /\ TrustedAncestor(d)
            /\ walk' = [walk EXCEPT !.at = IF walk.pass = 1 THEN "leaf" ELSE "reopened",
                                   !.here = walk.opened, !.before = d]
            /\ walk.opened = tree[Anchor].entry /\ walk.opened # Missing
        BY <1>8, <2>1 DEF CheckComponent, InspectionInv, WalkPlaced
      <3>2. walk.opened \in Directories
        BY <1>1, <3>1 DEF InspectionInv, TreeTyped, Targets
      <3>3. AtComponent'
        <4>1. /\ walk'.here = walk.opened /\ walk'.opened = walk.opened /\ walk'.before = d
              /\ Ours(walk.opened)
          BY <1>1, <3>1, <3>2 DEF InspectionInv, Ours
        <4> HIDE DEF d
        <4>2. walk'.here = tree'[Anchor].entry /\ walk'.here \in Directories /\ Frozen(Anchor)'
          BY <3>1, <3>2, <4>1, WalkMoves DEF InspectionInv
        <4>3. Ours(walk.opened)' /\ walk'.before = Metadata(walk.opened)'
          BY <3>1, <4>1, WalkMoves DEF InspectionInv, d
        <4>4. Ours(walk.here)' /\ walk'.before = Metadata(walk.here)'
          BY <4>1, <4>3 DEF Ours, Metadata
        <4> QED
          BY <3>1, <4>2, <4>4 DEF AtComponent, Ours, TrustedAncestor, Metadata, Frozen, MayReplace
      <3>4. WalkPlaced'
        BY <1>2, <3>1, <3>3 DEF InspectionInv, WalkPlaced, SecondPass, AfterAnchor
      <3> QED
        BY <3>1, <3>4, StepPlaced DEF InspectionInv
    <2> QED
      BY <1>8, <2>1, Refuses DEF CheckComponent
  <1> QED
    BY <1>3, <1>4, <1>5, <1>6, <1>7, <1>8

\* The first pass at its last component.
LEMMA LeafMoves ==
  ASSUME InspectionInv, InspectLeaf \/ InspectLeafAgain
  PROVE  InspectionInv'
  <1> USE DEF Go, Stop
  <1> DEFINE d == Metadata(walk.here)
             e == Metadata(tree[walk.here].entry)
  <1>1. /\ UNCHANGED tree /\ walk.pass = 1 /\ AtComponent /\ walk.here \in Walked
        /\ walk.here # Missing
        /\ walk.here # Anchor /\ TreeTyped /\ walk.at \in {"leaf", "leaf_again"}
    BY InspectionAssumption DEF InspectLeaf, InspectLeafAgain, InspectionInv, WalkPlaced,
       AtComponent, Walked
  <1>2. ASSUME NEW leaf, leaf.id = tree[walk.here].entry, Frozen(walk.here),
               walk' = [walk EXCEPT !.at = "again", !.pass = 2, !.dir = d, !.leaf = leaf]
        PROVE  InspectionInv'
    <2>1. d.id = walk.here
      BY MetadataFacts
    <2> HIDE DEF d
    <2>2. walk'.dir = d /\ walk'.leaf = leaf /\ walk'.at = "again" /\ walk'.pass = 2
      BY <1>2 DEF InspectionInv
    <2>3. Found'
      BY <1>1, <1>2, <2>1, <2>2 DEF Found, AtComponent, Frozen, MayReplace
    <2>4. WalkPlaced'
      BY <2>2, <2>3 DEF WalkPlaced, SecondPass, AfterAnchor
    <2> QED
      BY <1>1, <1>2, <2>4, StepPlaced DEF InspectionInv
  <1>3. CASE InspectLeaf
    <2>1. CASE d = walk.before /\ e.id = Missing /\ d.mode = "closed"
      <3>1. walk' = [walk EXCEPT !.at = "again", !.pass = 2, !.dir = d, !.leaf = e]
        BY <1>3, <2>1 DEF InspectLeaf
      <3>2. Frozen(walk.here)
        BY <1>1, <2>1, ClosedIsFrozen, MetadataFacts DEF AtComponent
      <3>3. e.id = tree[walk.here].entry
        BY MetadataFacts
      <3> QED
        BY <1>2, <3>1, <3>2, <3>3
    <2>2. CASE d = walk.before /\ e.id # Missing /\ walk.allowed /\ EntryProtected(d, e)
      <3>1. walk' = [walk EXCEPT !.at = "leaf_again", !.leaf = e]
        BY <1>3, <2>2 DEF InspectLeaf
      <3>2. AtComponent'
        BY <1>1, <3>1, WalkMoves DEF AtComponent, InspectionInv
      <3>3. WalkPlaced'
        BY <1>1, <2>2, <3>1, <3>2 DEF InspectionInv, WalkPlaced, SecondPass, AfterAnchor
      <3> QED
        BY <1>1, <3>1, <3>3, StepPlaced DEF InspectionInv
    <2>3. CASE walk' = [walk EXCEPT !.at = "refused"]
      BY <1>1, <2>3, Refuses
    <2> QED
      BY <1>3, <2>1, <2>2, <2>3 DEF InspectLeaf
  <1>4. CASE InspectLeafAgain
    <2>1. CASE d = walk.before /\ e.id = walk.leaf.id /\ EntryProtected(d, e)
      <3>1. walk' = [walk EXCEPT !.at = "again", !.pass = 2, !.dir = d]
        BY <1>4, <2>1 DEF InspectLeafAgain
      <3>2. e.id = tree[walk.here].entry /\ d.id = walk.here
        BY MetadataFacts
      <3>3. Frozen(walk.here)
        <4>1. walk.leaf.id # Missing
          BY <1>4 DEF InspectionInv, WalkPlaced, InspectLeafAgain
        <4> QED
          BY <1>1, <2>1, <3>2, <4>1, ProtectedIsFrozen
      <3>4. walk' = [walk EXCEPT !.at = "again", !.pass = 2, !.dir = d, !.leaf = walk.leaf]
        BY <3>1 DEF InspectionInv
      <3> QED
        BY <1>2, <2>1, <3>2, <3>3, <3>4
    <2> QED
      BY <1>1, <1>4, <2>1, Refuses DEF InspectLeafAgain
  <1> QED
    BY <1>3, <1>4

\* The second pass changes neither the tree nor what the first one found.
LEMMA SecondMoves ==
  ASSUME InspectionInv, Revalidate \/ Reopened \/ RevalidateEntry \/ RevalidateDirectory
  PROVE  InspectionInv'
  <1>1. /\ UNCHANGED tree /\ walk.pass # 1 /\ walk.at # "refused"
    BY DEF Revalidate, Reopened, RevalidateEntry, RevalidateDirectory, InspectionInv, WalkPlaced,
       SecondPass, Go, Stop
  <1>2. \E next \in {"refused", "reopened", "anchor", "entry_again", "directory_again", "safe"} :
          walk' = [walk EXCEPT !.at = next]
    BY DEF Revalidate, Reopened, RevalidateEntry, RevalidateDirectory, Go, Stop
  <1>3. Found'
    BY <1>1, <1>2, WalkMoves DEF InspectionInv, WalkPlaced, Found
  <1>4. WalkPlaced'
    BY <1>1, <1>2, <1>3 DEF InspectionInv, WalkPlaced, SecondPass, AfterAnchor
  <1> QED
    BY <1>1, <1>2, <1>4, StepPlaced DEF InspectionInv

(***************************************************************************)
(* inspect_managed_file: when an inspection ends safe, the path still leads, *)
(* and will lead, where it led: nobody else may change any directory on it. *)
(* The first pass alone settles this in the model, for every tree and every *)
(* order in which other users move, replace or open files while it looks.  *)
(***************************************************************************)
THEOREM InspectionStaysAsInspected == InspectionSpec => []StaysAsInspected
  <1>1. InspectionInit => InspectionInv
    <2> SUFFICES ASSUME InspectionInit PROVE InspectionInv
      OBVIOUS
    <2>1. PICK m \in Modes, e \in {Missing, CHOOSE x \in Directories : TRUE},
               f \in [Directories -> Owners \X Modes \X (Leaves \cup Strangers \cup {Missing})] :
            tree = [i \in Inodes |->
               CASE i = Anchor -> [owner |-> "ours", mode |-> m, entry |-> e]
                 [] i \in Directories -> [owner |-> f[i][1], mode |-> f[i][2], entry |-> f[i][3]]
                 [] OTHER -> [owner |-> IF i \in Leaves THEN "ours" ELSE "theirs", mode |-> "closed", entry |-> Missing]]
      BY DEF InspectionInit, Trees
    <2>2. e \in Directories \cup {Missing}
      BY InspectionAssumption
    <2>3. tree[Anchor] = [owner |-> "ours", mode |-> m, entry |-> e]
      BY <2>1, InspectionAssumption DEF Inodes
    <2>4. ASSUME NEW i \in Directories
          PROVE  /\ tree[i] = [owner |-> f[i][1], mode |-> f[i][2], entry |-> f[i][3]]
                 /\ f[i][1] \in Owners /\ f[i][2] \in Modes
                 /\ f[i][3] \in Leaves \cup Strangers \cup {Missing}
      <3>1. i \in Inodes /\ i # Anchor
        BY InspectionAssumption DEF Inodes
      <3>2. tree[i] = [owner |-> f[i][1], mode |-> f[i][2], entry |-> f[i][3]]
        BY <2>1, <3>1
      <3> QED
        BY <3>2
    <2>5. ASSUME NEW i \in Leaves \cup Strangers
          PROVE  tree[i] = [owner |-> IF i \in Leaves THEN "ours" ELSE "theirs", mode |-> "closed", entry |-> Missing]
      <3>1. i \in Inodes /\ i # Anchor /\ i \notin Directories
        BY InspectionAssumption DEF Inodes
      <3> QED
        BY <2>1, <3>1
    <2>6. ASSUME NEW i \in Inodes
          PROVE 
          /\ tree[i] = [owner |-> tree[i].owner, mode |-> tree[i].mode, entry |-> tree[i].entry]
                 /\ tree[i].owner \in Owners /\ tree[i].mode \in Modes
      <3>1. CASE i = Anchor
        BY <2>3, <3>1 DEF Owners
      <3>2. CASE i \in Directories
        <4>1. PICK o \in Owners, n \in Modes, x \in Leaves \cup Strangers \cup {Missing} :
                tree[i] = [owner |-> o, mode |-> n, entry |-> x]
          BY <2>4, <3>2
        <4> QED
          BY <4>1
      <3>3. CASE i \in Leaves \cup Strangers
        <4>1. PICK o \in Owners : tree[i] = [owner |-> o, mode |-> "closed", entry |-> Missing]
          BY <2>5, <3>3 DEF Owners
        <4> QED
          BY <4>1 DEF Modes
      <3> QED
        BY <3>1, <3>2, <3>3 DEF Inodes
    <2>7. tree = [i \in Inodes |-> tree[i]]
      BY <2>1
    <2>8. tree = [i \in Inodes |-> [owner |-> tree[i].owner, mode |-> tree[i].mode, entry |-> tree[i].entry]]
      BY <2>6, <2>7
    <2>9. \A i \in Walked : tree[i].entry \in Targets(i)
      <3>1. ASSUME NEW i \in Directories PROVE tree[i].entry \in Targets(i)
        <4>1. PICK o \in Owners, n \in Modes, x \in Leaves \cup Strangers \cup {Missing} :
                tree[i] = [owner |-> o, mode |-> n, entry |-> x]
          BY <2>4
        <4> QED
          BY <4>1, InspectionAssumption DEF Targets
      <3>2. tree[Anchor].entry \in Targets(Anchor)
        BY <2>2, <2>3 DEF Targets
      <3> QED
        BY <3>1, <3>2 DEF Walked
    <2>10. TreeTyped
      <3>1. tree[Anchor].owner = "ours"
        BY <2>3
      <3> QED
        BY <2>6, <2>8, <2>9, <3>1 DEF TreeTyped
    <2> QED
      BY <2>10 DEF InspectionInit, InspectionInv, Walk, WalkPlaced, SecondPass, AfterAnchor
  <1>2. InspectionInv /\ [InspectionNext]_inspectionVars => InspectionInv'
    <2>1. InspectionInv /\ UNCHANGED inspectionVars => InspectionInv'
      BY DEF inspectionVars, InspectionInv, TreeTyped, WalkPlaced, AtComponent, Found, Frozen,
         Ours, MayReplace,
             TrustedAncestor, Metadata
    <2> QED
      BY <2>1, OthersKeepPlace, InspectionMoves, LeafMoves, SecondMoves DEF InspectionNext
  <1>3. InspectionInv => StaysAsInspected
    BY DEF InspectionInv, WalkPlaced, SecondPass, Found, StaysAsInspected
  <1> QED
    BY <1>1, <1>2, <1>3, PTL DEF InspectionSpec
-----------------------------------------------------------------------------
(***************************************************************************)
(*                            ComposeDeployment                            *)
(***************************************************************************)

Bundles ==
  [profile : Configs \cup {Nothing}, runtime : Configs \cup {Nothing},
   compose : Composes \cup {Nothing}, auth : Secrets \cup {Nothing},
   manifest : BundleManifests \cup {Nothing}, past : Seq(Images)]
Containers ==
  [image : Images \cup {Nothing}, conf : Configs \cup {Nothing},
   secret : Secrets \cup {Nothing}, up : BOOLEAN]
Dockers == [secret : Secrets \cup {Nothing}, server : Containers]
Phases == {"idle", "prepared", "work", "failed", "restore"}
Busy == {"work", "failed", "restore"}

ComposeSteps ==
  {"auth", "profile", "runtime", "compose", "manifest", "secrets", "up", "reveal", "past", "stop",
   "down", "down_volumes", "remove_files", "unregister", "remove_manifest"}

FileSteps ==
  {"auth", "profile", "runtime", "compose", "manifest", "past", "reveal",
   "remove_files", "unregister", "remove_manifest"}

\* The files are those of the manifest, and what runs is what they say.
Recorded(b) ==
  /\ b.manifest \in BundleManifests
  /\ b.compose = [image |-> b.manifest.image, conf |-> b.profile]
  /\ b.manifest.receipt = b.compose /\ b.runtime = b.profile
Serves(b, d) ==
  d.server.up =>
    d.server = [image |-> b.manifest.image, conf |-> b.profile, secret |-> b.auth, up |-> TRUE]
Truthful(b, d) ==
  IF b.manifest = Nothing THEN b.past = << >> /\ ~d.server.up ELSE Recorded(b) /\ Serves(b, d)

\* What a purge leaves of them when its files are gone: the manifest, until it is removed too.
Emptied == [secret |-> Nothing, server |-> NoContainer]
Bare(b, d) ==
  /\ b = [profile |-> Nothing, runtime |-> Nothing, compose |-> Nothing, auth |-> Nothing,
          manifest |-> b.manifest, past |-> << >>]
  /\ d = Emptied /\ (b.manifest # Nothing => b.manifest.receipt # Nothing)
Settled(b, d) == Truthful(b, d) \/ Bare(b, d)

\* The steps of a command that works, or restores, written out.
Course(j) ==
  CASE j.kind = "setup" ->
         <<"auth", "profile", "runtime", "compose", "manifest", "secrets", "up", "reveal">>
    [] j.kind = "configure" ->
         IF j.up THEN <<"profile", "runtime", "compose", "manifest", "secrets", "up">>
         ELSE <<"profile", "runtime", "compose", "manifest">>
    [] j.kind = "credentials" ->
         IF j.up THEN <<"auth", "manifest", "secrets", "up">> ELSE <<"auth", "manifest", "secrets">>
    [] j.kind \in {"update", "rollback"} ->
         IF j.up THEN <<"compose", "manifest", "secrets", "up", "past", "manifest">>
         ELSE <<"compose", "manifest", "secrets", "past", "manifest">>
    [] j.kind = "start" ->
         IF j.spec.revealed THEN <<"secrets", "up">> ELSE <<"secrets", "up", "reveal">>
    [] j.kind = "stop" -> <<"stop">>
    [] j.kind = "uninstall" -> <<"down">>
    [] j.kind = "purge" -> <<"down_volumes", "remove_files", "unregister", "remove_manifest">>
WayBack(j) ==
  CASE j.kind = "configure" -> IF j.up THEN <<"secrets", "up">> ELSE << >>
    [] j.kind = "credentials" ->
         IF j.up THEN <<"manifest", "secrets", "up">> ELSE <<"manifest", "secrets">>
    [] j.kind \in {"update", "rollback"} -> IF j.up THEN <<"secrets", "up">> ELSE <<"secrets">>

\* What is left to do is the end of a course.
EndOf(left, all) ==
  /\ left \in Seq(ComposeSteps) /\ Len(left) <= Len(all)
  /\ \A i \in 1 .. Len(left) : left[i] = all[Len(all) - Len(left) + i]

ExchangeEnd(j) == IF j.up THEN 4 ELSE 3

\* The files and the container when n steps of a command are done.
AfterSteps(j, n, b, d) ==
  CASE j.kind = "setup" ->
         /\ b.past = << >>
         /\ n >= 3 => b.runtime = b.profile
         /\ n >= 4 => b.compose = [image |-> j.arg, conf |-> b.profile]
         /\ IF n < 5 THEN b.manifest = Nothing /\ ~d.server.up ELSE Recorded(b) /\ Serves(b, d)
         /\ n >= 6 => d.secret = b.auth
    [] j.kind = "configure" ->
         /\ b.past = j.old.past
         /\ n >= 2 => b.runtime = b.profile
         /\ n >= 3 => b.compose = [image |-> j.spec.image, conf |-> b.profile]
         /\ n >= 4 => Recorded(b)
         /\ n >= 5 => d.secret = b.auth
         /\ n >= 6 => Serves(b, d)
    [] j.kind = "credentials" ->
         /\ b.past = j.old.past /\ Recorded(b) /\ b.manifest.image = j.spec.image
         /\ n >= 3 => d.secret = b.auth
         /\ n >= 4 => Serves(b, d)
    [] j.kind \in {"update", "rollback"} ->
         /\ b.past = IF n > ExchangeEnd(j) THEN Window(Superseded(j, j.old.past)) ELSE j.old.past
         /\ b.runtime = b.profile
         /\ n >= 1 => b.compose = [image |-> NewImage(j), conf |-> b.profile]
         /\ n >= 2 => Recorded(b)
         /\ n >= 3 => d.secret = b.auth
         /\ n >= 4 /\ j.up => Serves(b, d)
    [] j.kind = "start" -> Recorded(b) /\ Serves(b, d) /\ (n >= 1 => d.secret = b.auth)
    [] j.kind \in {"stop", "uninstall"} -> Recorded(b) /\ Serves(b, d)
    [] j.kind = "purge" ->
         /\ n < 2 => Truthful(b, d)
         /\ n >= 1 => d = Emptied
         /\ n >= 2 => Bare(b, d)

\* And when a restoration has taken n steps.
AfterReturn(j, n, b, d) ==
  /\ b.past = j.old.past /\ Recorded(b) /\ b.manifest.image = j.spec.image
  /\ LET m == IF j.kind = "credentials" THEN n - 1 ELSE n
     IN (m >= 1 => d.secret = b.auth) /\ (m >= 2 => Serves(b, d))

Restorables(j, d, t) ==
  j.kind \in Restorable =>
    /\ j.old \in Bundles /\ Recorded(j.old) /\ j.spec = j.old.manifest
    /\ IsSuffix(j.old.past, t)
    /\ j.kind = "rollback" => j.old.past # << >>
    /\ ~j.up => ~d.server.up

Progress(j, b, d) ==
  CASE j.at = "work" ->
         /\ EndOf(j.todo, Course(j))
         /\ AfterSteps(j, Len(Course(j)) - Len(j.todo), b, d)
    [] j.at = "failed" ->
         IF j.kind \in Restorable
         THEN j.kind = "credentials" =>
                Recorded(b) /\ b.past = j.old.past /\ b.manifest.image = j.spec.image
         ELSE Settled(b, d)
    [] j.at = "restore" ->
         /\ j.kind \in Restorable /\ EndOf(j.todo, WayBack(j))
         /\ AfterReturn(j, Len(WayBack(j)) - Len(j.todo), b, d)

Worker(j, b, d, t) ==
  /\ Restorables(j, d, t) /\ (j.kind \notin Restorable => IsSuffix(b.past, t))
  /\ Progress(j, b, d)

\* What a command was begun with.
Begun(j) ==
  /\ j \in [kind : JobKinds \cup {"none"}, at : Phases,
            arg : Images \cup Configs \cup Secrets \cup {Nothing},
            spec : BundleManifests \cup {Nothing}, text : Configs \cup {Nothing}, up : BOOLEAN,
            old : Bundles, todo : Seq(ComposeSteps)]
  /\ j.at # "idle" =>
       j.kind \in JobKinds /\ j.arg \in JobArgs(j.kind) /\ (j.kind # "setup" => j.spec \in BundleManifests)

ComposeTyped ==
  /\ bundle \in Bundles /\ docker \in Dockers /\ trail \in Seq(Images)
  /\ DOMAIN job = Operators /\ \A o \in Operators : Begun(job[o])
  /\ holder \in Operators \cup {Nobody} /\ tainted = FALSE

ComposeFacts ==
  /\ ComposeTyped
  /\ \A o \in Operators : job[o].at \in Busy <=> holder = o
  /\ IF holder = Nobody THEN Settled(bundle, docker) /\ IsSuffix(bundle.past, trail)
     ELSE Worker(job[holder], bundle, docker, trail)
ComposeInv == tainted = TRUE \/ ComposeFacts
-----------------------------------------------------------------------------
\* The end of a sequence, by its elements.
LEMMA SuffixMeans ==
  ASSUME NEW S, NEW s \in Seq(S), NEW t \in Seq(S)
  PROVE  IsSuffix(s, t) <=> /\ Len(s) <= Len(t)
                            /\ \A i \in 1 .. Len(s) : s[i] = t[Len(t) - Len(s) + i]
  <1> DEFINE m == Len(s)
             n == Len(t)
             r == Reverse(s)
             q == Reverse(t)
  <1>1. m \in Nat /\ n \in Nat
    OBVIOUS
  <1>2. /\ r \in Seq(S) /\ Len(r) = m /\ \A i \in 1 .. m : r[i] = s[m - i + 1]
        /\ q \in Seq(S) /\ Len(q) = n /\ \A i \in 1 .. n : q[i] = t[n - i + 1]
    <2>1. \A i \in 1 .. m : s[m - i + 1] \in S
      <3> TAKE i \in 1 .. m
      <3>1. m - i + 1 \in 1 .. m
        BY <1>1
      <3> QED
        BY <3>1
    <2>2. \A i \in 1 .. n : t[n - i + 1] \in S
      <3> TAKE i \in 1 .. n
      <3>1. n - i + 1 \in 1 .. n
        BY <1>1
      <3> QED
        BY <3>1
    <2>3. r = [i \in 1 .. m |-> s[m - i + 1]] /\ q = [i \in 1 .. n |-> t[n - i + 1]]
      BY DEF Reverse
    <2> HIDE DEF r, q, m, n
    <2>4. r \in Seq(S) /\ Len(r) = m /\ \A i \in 1 .. m : r[i] = s[m - i + 1]
      BY <1>1, <2>1, <2>3
    <2>5. q \in Seq(S) /\ Len(q) = n /\ \A i \in 1 .. n : q[i] = t[n - i + 1]
      BY <1>1, <2>2, <2>3
    <2> QED
      BY <2>4, <2>5
  <1>3. IsSuffix(s, t) <=> m <= n /\ SubSeq(r, 1, m) = SubSeq(q, 1, m)
    BY <1>2 DEF IsSuffix, IsPrefix
  <1>m. m = Len(s) /\ n = Len(t)
    OBVIOUS
  <1> HIDE DEF m, n, r, q
  <1>4. CASE m <= n
    <2>1. /\ SubSeq(r, 1, m) \in Seq(S) /\ Len(SubSeq(r, 1, m)) = m
          /\ \A i \in 1 .. m : SubSeq(r, 1, m)[i] = r[i]
      BY <1>1, <1>2
    <2>2. /\ SubSeq(q, 1, m) \in Seq(S) /\ Len(SubSeq(q, 1, m)) = m
          /\ \A i \in 1 .. m : SubSeq(q, 1, m)[i] = q[i]
      <3>1. \A i \in 1 .. m : q[i] \in S
        BY <1>1, <1>2, <1>4
      <3> QED
        BY <1>1, <1>2, <1>4, <3>1
    <2>3. SubSeq(r, 1, m) = SubSeq(q, 1, m) <=> \A i \in 1 .. m : r[i] = q[i]
      BY <2>1, <2>2, SeqEqual
    <2>4. (\A i \in 1 .. m : r[i] = q[i]) <=> \A i \in 1 .. m : s[i] = t[n - m + i]
      <3>1. ASSUME \A i \in 1 .. m : r[i] = q[i], NEW i \in 1 .. m PROVE s[i] = t[n - m + i]
        <4>1. m - i + 1 \in 1 .. m /\ m - i + 1 \in 1 .. n
          BY <1>1, <1>4
        <4>2. s[m - (m - i + 1) + 1] = t[n - (m - i + 1) + 1]
          BY <1>2, <3>1, <4>1
        <4>3. m - (m - i + 1) + 1 = i /\ n - (m - i + 1) + 1 = n - m + i
          BY <1>1
        <4> QED
          BY <4>2, <4>3
      <3>2. ASSUME \A i \in 1 .. m : s[i] = t[n - m + i], NEW i \in 1 .. m PROVE r[i] = q[i]
        <4>1. m - i + 1 \in 1 .. m /\ i \in 1 .. n
          BY <1>1, <1>4
        <4>2. s[m - i + 1] = t[n - m + (m - i + 1)]
          BY <3>2, <4>1
        <4>3. n - m + (m - i + 1) = n - i + 1
          BY <1>1
        <4> QED
          BY <1>2, <4>1, <4>2, <4>3
      <3> QED
        BY <3>1, <3>2
    <2> QED
      BY <1>3, <1>4, <1>m, <2>3, <2>4
  <1>5. CASE ~(m <= n)
    BY <1>3, <1>5, <1>m
  <1> QED
    BY <1>4, <1>5

\* The last images of a history are the end of what its end is the end of.
LEMMA WindowSuffix ==
  ASSUME NEW s \in Seq(Images), NEW t \in Seq(Images), IsSuffix(s, t)
  PROVE  Window(s) \in Seq(Images) /\ IsSuffix(Window(s), t)
  <1> DEFINE m == Len(s)
             n == Len(t)
             a == IF m > PastMax THEN m - PastMax + 1 ELSE 1
             w == Window(s)
  <1>0. m \in Nat /\ n \in Nat /\ PastMax \in Nat
    BY ComposeAssumption
  <1>1. m <= n /\ \A i \in 1 .. m : s[i] = t[n - m + i]
    BY SuffixMeans
  <1>2. w = SubSeq(s, a, m)
    BY DEF Window
  <1>3. a \in 1 .. m + 1
    BY <1>0
  <1>m. m = Len(s) /\ n = Len(t) /\ w = Window(s)
    OBVIOUS
  <1> HIDE DEF m, n, a, w
  <1>e. \A i \in a .. m : s[i] \in Images
    BY <1>0, <1>3, <1>m
  <1>4. /\ w \in Seq(Images) /\ Len(w) = m - a + 1
        /\ \A i \in 1 .. m - a + 1 : w[i] = s[a + i - 1]
    BY <1>0, <1>2, <1>3, <1>m, <1>e, SubSeqProperties
  <1>5. Len(w) <= n
    BY <1>0, <1>1, <1>3, <1>4
  <1>6. ASSUME NEW i \in 1 .. Len(w) PROVE w[i] = t[n - Len(w) + i]
    <2>1. a + i - 1 \in 1 .. m /\ n - m + (a + i - 1) = n - (m - a + 1) + i
      BY <1>0, <1>3, <1>4
    <2>2. w[i] = s[a + i - 1]
      BY <1>4
    <2>3. s[a + i - 1] = t[n - m + (a + i - 1)]
      BY <1>1, <2>1
    <2> QED
      BY <1>4, <2>1, <2>2, <2>3
  <1> QED
    BY <1>4, <1>5, <1>6, <1>m, SuffixMeans

\* An image that is superseded is put at the end of both.
LEMMA AppendSuffix ==
  ASSUME NEW s \in Seq(Images), NEW t \in Seq(Images), IsSuffix(s, t), NEW x \in Images
  PROVE  IsSuffix(Append(s, x), Append(t, x))
  <1> DEFINE m == Len(s)
             n == Len(t)
             a == Append(s, x)
             b == Append(t, x)
  <1>0. m \in Nat /\ n \in Nat
    OBVIOUS
  <1>1. m <= n /\ \A i \in 1 .. m : s[i] = t[n - m + i]
    BY SuffixMeans
  <1>2. /\ a \in Seq(Images) /\ Len(a) = m + 1 /\ a[m + 1] = x /\ \A i \in 1 .. m : a[i] = s[i]
        /\ b \in Seq(Images) /\ Len(b) = n + 1 /\ b[n + 1] = x /\ \A i \in 1 .. n : b[i] = t[i]
    BY AppendProperties
  <1>m. m = Len(s) /\ n = Len(t) /\ a = Append(s, x) /\ b = Append(t, x)
    OBVIOUS
  <1> HIDE DEF m, n, a, b
  <1>3. ASSUME NEW i \in 1 .. Len(a) PROVE a[i] = b[Len(b) - Len(a) + i]
    <2>1. CASE i = m + 1
      <3>1. Len(b) - Len(a) + i = n + 1
        BY <1>0, <1>2, <2>1
      <3> QED
        BY <1>2, <2>1, <3>1
    <2>2. CASE i # m + 1
      <3>1. i \in 1 .. m /\ Len(b) - Len(a) + i = n - m + i /\ n - m + i \in 1 .. n
        BY <1>0, <1>1, <1>2, <2>2
      <3>2. a[i] = s[i] /\ s[i] = t[n - m + i] /\ b[n - m + i] = t[n - m + i]
        BY <1>1, <1>2, <3>1
      <3> QED
        BY <3>1, <3>2
    <2> QED
      BY <2>1, <2>2
  <1>4. Len(a) <= Len(b)
    BY <1>0, <1>1, <1>2
  <1> QED
    BY <1>2, <1>3, <1>4, <1>m, SuffixMeans

\* A rollback takes the last one from both.
LEMMA FrontSuffix ==
  ASSUME NEW s \in Seq(Images), NEW t \in Seq(Images), IsSuffix(s, t), s # << >>
  PROVE  Front(s) \in Seq(Images) /\ Front(t) \in Seq(Images) /\ IsSuffix(Front(s), Front(t))
  <1> DEFINE m == Len(s)
             n == Len(t)
             a == Front(s)
             b == Front(t)
  <1>0. m \in Nat \ {0} /\ n \in Nat
    BY EmptySeq
  <1>1. m <= n /\ \A i \in 1 .. m : s[i] = t[n - m + i]
    BY SuffixMeans
  <1>2. a = SubSeq(s, 1, m - 1) /\ b = SubSeq(t, 1, n - 1)
    BY DEF Front
  <1>m. m = Len(s) /\ n = Len(t) /\ a = Front(s) /\ b = Front(t)
    OBVIOUS
  <1> HIDE DEF m, n, a, b
  <1>e. (\A i \in 1 .. m - 1 : s[i] \in Images) /\ \A i \in 1 .. n - 1 : t[i] \in Images
    BY <1>0, <1>1, <1>m
  <1>3. /\ a \in Seq(Images) /\ Len(a) = m - 1 /\ \A i \in 1 .. m - 1 : a[i] = s[i]
    BY <1>0, <1>1, <1>2, <1>m, <1>e, SubSeqProperties
  <1>4. b \in Seq(Images) /\ Len(b) = n - 1 /\ \A i \in 1 .. n - 1 : b[i] = t[i]
    BY <1>0, <1>1, <1>2, <1>m, <1>e, SubSeqProperties
  <1>5. ASSUME NEW i \in 1 .. Len(a) PROVE a[i] = b[Len(b) - Len(a) + i]
    <2>1. i \in 1 .. m /\ i \in 1 .. m - 1 /\ Len(b) - Len(a) + i = n - m + i
          /\ n - m + i \in 1 .. n - 1
      BY <1>0, <1>1, <1>3, <1>4
    <2>2. a[i] = s[i] /\ s[i] = t[n - m + i] /\ b[n - m + i] = t[n - m + i]
      BY <1>1, <1>3, <1>4, <2>1
    <2> QED
      BY <2>1, <2>2
  <1>6. Len(a) <= Len(b)
    BY <1>0, <1>1, <1>3, <1>4
  <1> QED
    BY <1>3, <1>4, <1>5, <1>6, <1>m, SuffixMeans

\* A history that is empty is the end of any.
LEMMA EmptySuffix ==
  ASSUME NEW t \in Seq(Images)
  PROVE  IsSuffix(<< >>, t)
  <1> DEFINE e == << >>
  <1>1. e \in Seq(Images) /\ Len(e) = 0 /\ Len(t) \in Nat
    OBVIOUS
  <1> HIDE DEF e
  <1>2. Len(e) <= Len(t) /\ \A i \in 1 .. Len(e) : e[i] = t[Len(t) - Len(e) + i]
    BY <1>1
  <1>3. IsSuffix(e, t)
    BY <1>1, <1>2, SuffixMeans
  <1> QED
    BY <1>3 DEF e

\* What is left of a course, when a step is done.
LEMMA EndTail ==
  ASSUME NEW all \in Seq(ComposeSteps), NEW left, EndOf(left, all), left # << >>
  PROVE  LET n == Len(all) - Len(left)
         IN /\ EndOf(Tail(left), all) /\ Len(all) - Len(Tail(left)) = n + 1
            /\ n \in 0 .. Len(all) - 1 /\ Head(left) = all[n + 1]
  <1> DEFINE m == Len(all)
             k == Len(left)
             r == Tail(left)
  <1>1. /\ left \in Seq(ComposeSteps) /\ k <= m /\ k \in Nat \ {0} /\ m \in Nat
        /\ \A i \in 1 .. k : left[i] = all[m - k + i]
    BY EmptySeq DEF EndOf
  <1>2. /\ r \in Seq(ComposeSteps) /\ Len(r) = k - 1 /\ \A i \in 1 .. k - 1 : r[i] = left[i + 1]
        /\ Head(left) = left[1]
    BY <1>1, HeadTailProperties
  <1>m. m = Len(all) /\ k = Len(left) /\ r = Tail(left)
    OBVIOUS
  <1> HIDE DEF m, k, r
  <1>3. ASSUME NEW i \in 1 .. Len(r) PROVE r[i] = all[m - Len(r) + i]
    <2>1. i \in 1 .. k - 1 /\ i + 1 \in 1 .. k /\ m - k + (i + 1) = m - Len(r) + i
      BY <1>1, <1>2
    <2>2. r[i] = left[i + 1] /\ left[i + 1] = all[m - k + (i + 1)]
      BY <1>1, <1>2, <2>1
    <2> QED
      BY <2>1, <2>2
  <1>4. Head(left) = all[m - k + 1] /\ m - k \in 0 .. m - 1 /\ m - Len(r) = m - k + 1 /\ Len(r) <= m
    BY <1>1, <1>2
  <1> QED
    BY <1>2, <1>3, <1>4, <1>m DEF EndOf

\* At first all of it is left.
LEMMA EndWhole ==
  ASSUME NEW all \in Seq(ComposeSteps)
  PROVE  EndOf(all, all) /\ Len(all) - Len(all) = 0
  <1>1. Len(all) \in Nat
    OBVIOUS
  <1>2. \A i \in 1 .. Len(all) : Len(all) - Len(all) + i = i
    BY <1>1
  <1> QED
    BY <1>1, <1>2 DEF EndOf

\* The programs, put together.
LEMMA ConfigureSteps ==
  <<"profile", "runtime", "compose", "manifest">> \o <<"secrets", "up">> =
    <<"profile", "runtime", "compose", "manifest", "secrets", "up">>
  <1> DEFINE p == <<"profile", "runtime", "compose", "manifest">> \o <<"secrets", "up">>
  <1>1. p \in Seq({"profile", "runtime", "compose", "manifest", "secrets", "up"}) /\ Len(p) = 6
    OBVIOUS
  <1>2. p[1] = "profile" /\ p[2] = "runtime" /\ p[3] = "compose" /\ p[4] = "manifest"
        /\ p[5] = "secrets" /\ p[6] = "up"
    OBVIOUS
  <1> HIDE DEF p
  <1>3. p = <<"profile", "runtime", "compose", "manifest", "secrets", "up">>
    BY <1>1, <1>2
  <1> QED
    BY <1>3 DEF p

LEMMA CredentialSteps ==
  <<"auth", "manifest">> \o <<"secrets">> =
    <<"auth", "manifest", "secrets">>
  <1> DEFINE p == <<"auth", "manifest">> \o <<"secrets">>
  <1>1. p \in Seq({"auth", "manifest", "secrets"}) /\ Len(p) = 3
    OBVIOUS
  <1>2. p[1] = "auth" /\ p[2] = "manifest" /\ p[3] = "secrets"
    OBVIOUS
  <1> HIDE DEF p
  <1>3. p = <<"auth", "manifest", "secrets">>
    BY <1>1, <1>2
  <1> QED
    BY <1>3 DEF p

LEMMA CredentialStepsUp ==
  <<"auth", "manifest">> \o <<"secrets", "up">> =
    <<"auth", "manifest", "secrets", "up">>
  <1> DEFINE p == <<"auth", "manifest">> \o <<"secrets", "up">>
  <1>1. p \in Seq({"auth", "manifest", "secrets", "up"}) /\ Len(p) = 4
    OBVIOUS
  <1>2. p[1] = "auth" /\ p[2] = "manifest" /\ p[3] = "secrets" /\ p[4] = "up"
    OBVIOUS
  <1> HIDE DEF p
  <1>3. p = <<"auth", "manifest", "secrets", "up">>
    BY <1>1, <1>2
  <1> QED
    BY <1>3 DEF p

LEMMA ExchangeBegins ==
  <<"compose", "manifest">> \o <<"secrets">> =
    <<"compose", "manifest", "secrets">>
  <1> DEFINE p == <<"compose", "manifest">> \o <<"secrets">>
  <1>1. p \in Seq({"compose", "manifest", "secrets"}) /\ Len(p) = 3
    OBVIOUS
  <1>2. p[1] = "compose" /\ p[2] = "manifest" /\ p[3] = "secrets"
    OBVIOUS
  <1> HIDE DEF p
  <1>3. p = <<"compose", "manifest", "secrets">>
    BY <1>1, <1>2
  <1> QED
    BY <1>3 DEF p

LEMMA ExchangeBeginsUp ==
  <<"compose", "manifest">> \o <<"secrets", "up">> =
    <<"compose", "manifest", "secrets", "up">>
  <1> DEFINE p == <<"compose", "manifest">> \o <<"secrets", "up">>
  <1>1. p \in Seq({"compose", "manifest", "secrets", "up"}) /\ Len(p) = 4
    OBVIOUS
  <1>2. p[1] = "compose" /\ p[2] = "manifest" /\ p[3] = "secrets" /\ p[4] = "up"
    OBVIOUS
  <1> HIDE DEF p
  <1>3. p = <<"compose", "manifest", "secrets", "up">>
    BY <1>1, <1>2
  <1> QED
    BY <1>3 DEF p

LEMMA ExchangeSteps ==
  <<"compose", "manifest", "secrets">> \o <<"past", "manifest">> =
    <<"compose", "manifest", "secrets", "past", "manifest">>
  <1> DEFINE p == <<"compose", "manifest", "secrets">> \o <<"past", "manifest">>
  <1>1. p \in Seq({"compose", "manifest", "secrets", "past"}) /\ Len(p) = 5
    OBVIOUS
  <1>2. p[1] = "compose" /\ p[2] = "manifest" /\ p[3] = "secrets" /\ p[4] = "past"
        /\ p[5] = "manifest"
    OBVIOUS
  <1> HIDE DEF p
  <1>3. p = <<"compose", "manifest", "secrets", "past", "manifest">>
    BY <1>1, <1>2
  <1> QED
    BY <1>3 DEF p

LEMMA ExchangeStepsUp ==
  <<"compose", "manifest", "secrets", "up">> \o <<"past", "manifest">> =
    <<"compose", "manifest", "secrets", "up", "past", "manifest">>
  <1> DEFINE p == <<"compose", "manifest", "secrets", "up">> \o <<"past", "manifest">>
  <1>1. p \in Seq({"compose", "manifest", "secrets", "up", "past"}) /\ Len(p) = 6
    OBVIOUS
  <1>2. p[1] = "compose" /\ p[2] = "manifest" /\ p[3] = "secrets" /\ p[4] = "up" /\ p[5] = "past"
        /\ p[6] = "manifest"
    OBVIOUS
  <1> HIDE DEF p
  <1>3. p = <<"compose", "manifest", "secrets", "up", "past", "manifest">>
    BY <1>1, <1>2
  <1> QED
    BY <1>3 DEF p

LEMMA StartSteps ==
  <<"secrets", "up">> \o <<"reveal">> =
    <<"secrets", "up", "reveal">>
  <1> DEFINE p == <<"secrets", "up">> \o <<"reveal">>
  <1>1. p \in Seq({"secrets", "up", "reveal"}) /\ Len(p) = 3
    OBVIOUS
  <1>2. p[1] = "secrets" /\ p[2] = "up" /\ p[3] = "reveal"
    OBVIOUS
  <1> HIDE DEF p
  <1>3. p = <<"secrets", "up", "reveal">>
    BY <1>1, <1>2
  <1> QED
    BY <1>3 DEF p

LEMMA CredentialsBack ==
  <<"manifest">> \o <<"secrets">> =
    <<"manifest", "secrets">>
  <1> DEFINE p == <<"manifest">> \o <<"secrets">>
  <1>1. p \in Seq({"manifest", "secrets"}) /\ Len(p) = 2
    OBVIOUS
  <1>2. p[1] = "manifest" /\ p[2] = "secrets"
    OBVIOUS
  <1> HIDE DEF p
  <1>3. p = <<"manifest", "secrets">>
    BY <1>1, <1>2
  <1> QED
    BY <1>3 DEF p

LEMMA CredentialsBackUp ==
  <<"manifest">> \o <<"secrets", "up">> =
    <<"manifest", "secrets", "up">>
  <1> DEFINE p == <<"manifest">> \o <<"secrets", "up">>
  <1>1. p \in Seq({"manifest", "secrets", "up"}) /\ Len(p) = 3
    OBVIOUS
  <1>2. p[1] = "manifest" /\ p[2] = "secrets" /\ p[3] = "up"
    OBVIOUS
  <1> HIDE DEF p
  <1>3. p = <<"manifest", "secrets", "up">>
    BY <1>1, <1>2
  <1> QED
    BY <1>3 DEF p

\* The programs are the courses written out.
LEMMA CourseIs ==
  ASSUME NEW j, j.kind \in JobKinds, j.up \in BOOLEAN
  PROVE  ProgramOf(j) = Course(j) /\ Course(j) \in Seq(ComposeSteps)
  <1>0. Activation(TRUE) = <<"secrets", "up">> /\ Activation(FALSE) = <<"secrets">>
    BY DEF Activation
  <1>1. CASE j.kind = "setup"
    BY <1>1 DEF ProgramOf, PurgeSteps, Course, ComposeSteps
  <1>2. CASE j.kind = "stop"
    BY <1>2 DEF ProgramOf, PurgeSteps, Course, ComposeSteps
  <1>3. CASE j.kind = "uninstall"
    BY <1>3 DEF ProgramOf, PurgeSteps, Course, ComposeSteps
  <1>4. CASE j.kind = "purge"
    BY <1>4 DEF ProgramOf, PurgeSteps, Course, ComposeSteps
  <1>5. CASE j.kind = "configure"
    <2>1. ProgramOf(j) = <<"profile", "runtime", "compose", "manifest">> \o
                          (IF j.up THEN <<"secrets", "up">> ELSE << >>)
      BY <1>0, <1>5 DEF ProgramOf
    <2>2. <<"profile", "runtime", "compose", "manifest">> \o <<"secrets", "up">> =
            <<"profile", "runtime", "compose", "manifest", "secrets", "up">>
      BY ConfigureSteps
    <2>3. <<"profile", "runtime", "compose", "manifest">> \o << >> =
            <<"profile", "runtime", "compose", "manifest">>
      OBVIOUS
    <2>s. /\ <<"profile", "runtime", "compose", "manifest", "secrets", "up">> \in Seq(ComposeSteps)
          /\ <<"profile", "runtime", "compose", "manifest">> \in Seq(ComposeSteps)
      BY DEF ComposeSteps
    <2>4. Course(j) = IF j.up THEN <<"profile", "runtime", "compose", "manifest", "secrets", "up">>
                       ELSE <<"profile", "runtime", "compose", "manifest">>
      BY <1>5 DEF Course
    <2> QED
      BY <2>1, <2>2, <2>3, <2>4, <2>s
  <1>6. CASE j.kind = "credentials"
    <2>1. ProgramOf(j) = <<"auth", "manifest">> \o Activation(j.up)
      BY <1>6 DEF ProgramOf
    <2>2. /\ <<"auth", "manifest">> \o <<"secrets", "up">> = <<"auth", "manifest", "secrets", "up">>
          /\ <<"auth", "manifest">> \o <<"secrets">> = <<"auth", "manifest", "secrets">>
      BY CredentialSteps, CredentialStepsUp
    <2>s. /\ <<"auth", "manifest", "secrets", "up">> \in Seq(ComposeSteps)
          /\ <<"auth", "manifest", "secrets">> \in Seq(ComposeSteps)
      BY DEF ComposeSteps
    <2>4. Course(j) = IF j.up THEN <<"auth", "manifest", "secrets", "up">>
                       ELSE <<"auth", "manifest", "secrets">>
      BY <1>6 DEF Course
    <2> QED
      BY <1>0, <2>1, <2>2, <2>4, <2>s
  <1>7. CASE j.kind \in {"update", "rollback"}
    <2>1. ProgramOf(j) = <<"compose", "manifest">> \o Activation(j.up) \o <<"past", "manifest">>
      BY <1>7 DEF ProgramOf
    <2>2. /\ <<"compose", "manifest">> \o <<"secrets", "up">> = <<"compose", "manifest", "secrets", "up">>
          /\ <<"compose", "manifest">> \o <<"secrets">> = <<"compose", "manifest", "secrets">>
      BY ExchangeBegins, ExchangeBeginsUp
    <2>3. /\ <<"compose", "manifest", "secrets", "up">> \o <<"past", "manifest">> =
               <<"compose", "manifest", "secrets", "up", "past", "manifest">>
          /\ <<"compose", "manifest", "secrets">> \o <<"past", "manifest">> =
               <<"compose", "manifest", "secrets", "past", "manifest">>
      BY ExchangeSteps, ExchangeStepsUp
    <2>s. /\ <<"compose", "manifest", "secrets", "up", "past", "manifest">> \in Seq(ComposeSteps)
          /\ <<"compose", "manifest", "secrets", "past", "manifest">> \in Seq(ComposeSteps)
      BY DEF ComposeSteps
    <2>4. Course(j) = IF j.up THEN <<"compose", "manifest", "secrets", "up", "past", "manifest">>
                       ELSE <<"compose", "manifest", "secrets", "past", "manifest">>
      BY <1>7 DEF Course
    <2>5. CASE j.up
      BY <1>0, <2>1, <2>2, <2>3, <2>4, <2>5, <2>s
    <2>6. CASE j.up = FALSE
      BY <1>0, <2>1, <2>2, <2>3, <2>4, <2>6, <2>s
    <2> QED
      BY <2>5, <2>6
  <1>8. CASE j.kind = "start"
    <2>1. ProgramOf(j) = <<"secrets", "up">> \o (IF j.spec.revealed THEN << >> ELSE <<"reveal">>)
      BY <1>0, <1>8 DEF ProgramOf
    <2>2. <<"secrets", "up">> \o <<"reveal">> = <<"secrets", "up", "reveal">>
      BY StartSteps
    <2>3. <<"secrets", "up">> \o << >> = <<"secrets", "up">>
      OBVIOUS
    <2>s. /\ <<"secrets", "up">> \in Seq(ComposeSteps)
          /\ <<"secrets", "up", "reveal">> \in Seq(ComposeSteps)
      BY DEF ComposeSteps
    <2>4. Course(j) = IF j.spec.revealed THEN <<"secrets", "up">> ELSE <<"secrets", "up", "reveal">>
      BY <1>8 DEF Course
    <2> QED
      BY <2>1, <2>2, <2>3, <2>4, <2>s
  <1> QED
    BY <1>1, <1>2, <1>3, <1>4, <1>5, <1>6, <1>7, <1>8 DEF JobKinds

\* So are those of the restorations.
LEMMA WayBackIs ==
  ASSUME NEW j, j.kind \in Restorable, j.up \in BOOLEAN
  PROVE  Recovery(j) = WayBack(j) /\ WayBack(j) \in Seq(ComposeSteps)
  <1>0. Activation(TRUE) = <<"secrets", "up">> /\ Activation(FALSE) = <<"secrets">>
    BY DEF Activation
  <1>1. CASE j.kind = "configure"
    <2>1. j.up = FALSE => Recovery(j) = << >>
      BY <1>1 DEF Recovery
    <2>2. j.up => Recovery(j) = Activation(j.up)
      BY <1>1 DEF Recovery
    <2>s. /\ <<"secrets", "up">> \in Seq(ComposeSteps)
          /\ << >> \in Seq(ComposeSteps)
      BY DEF ComposeSteps
    <2>3. WayBack(j) = IF j.up THEN <<"secrets", "up">> ELSE << >>
      BY <1>1 DEF WayBack
    <2> QED
      BY <1>0, <2>1, <2>2, <2>3, <2>s
  <1>2. CASE j.kind = "credentials"
    <2>1. Recovery(j) = <<"manifest">> \o Activation(j.up)
      BY <1>2 DEF Recovery
    <2>2. /\ <<"manifest">> \o <<"secrets", "up">> = <<"manifest", "secrets", "up">>
          /\ <<"manifest">> \o <<"secrets">> = <<"manifest", "secrets">>
      BY CredentialsBack, CredentialsBackUp
    <2>s. /\ <<"manifest", "secrets", "up">> \in Seq(ComposeSteps)
          /\ <<"manifest", "secrets">> \in Seq(ComposeSteps)
      BY DEF ComposeSteps
    <2>3. WayBack(j) = IF j.up THEN <<"manifest", "secrets", "up">> ELSE <<"manifest", "secrets">>
      BY <1>2 DEF WayBack
    <2> QED
      BY <1>0, <2>1, <2>2, <2>3, <2>s
  <1>3. CASE j.kind \in {"update", "rollback"}
    <2>1. Recovery(j) = Activation(j.up)
      BY <1>3 DEF Recovery
    <2>s. /\ <<"secrets", "up">> \in Seq(ComposeSteps)
          /\ <<"secrets">> \in Seq(ComposeSteps)
      BY DEF ComposeSteps
    <2>2. WayBack(j) = IF j.up THEN <<"secrets", "up">> ELSE <<"secrets">>
      BY <1>3 DEF WayBack
    <2> QED
      BY <1>0, <2>1, <2>2, <2>s
  <1> QED
    BY <1>1, <1>2, <1>3 DEF Restorable
-----------------------------------------------------------------------------
Advanced(j, n, s) ==
  /\ Written(j, s) \in Bundles /\ Composed(s) \in Dockers
  /\ AfterSteps(j, n + 1, Written(j, s), Composed(s))
  /\ j.kind \in Restorable /\ ~j.up => ~Composed(s).server.up
  /\ \A d \in ComposedPartly(s) :
       /\ d \in Dockers
       /\ j.kind \in Restorable /\ ~j.up => ~d.server.up
       /\ j.kind \notin Restorable => Settled(bundle, d)

\* A field that says yes or no, replaced.
LEMMA RevealedField ==
  ASSUME NEW m \in BundleManifests, NEW v
  PROVE  [m EXCEPT !.revealed = v] = [image |-> m.image, receipt |-> m.receipt, revealed |-> v]
  BY DEF BundleManifests

\* The same for a container.
LEMMA UpField ==
  ASSUME NEW c \in Containers, NEW v
  PROVE  [c EXCEPT !.up = v] =
           [image |-> c.image, conf |-> c.conf, secret |-> c.secret, up |-> v]
  BY DEF Containers

\* What each step makes of the files.
LEMMA WriteEffects ==
  ASSUME bundle \in Bundles, NEW j
  PROVE  /\ Written(j, "auth") =
              [profile |-> bundle.profile, runtime |-> bundle.runtime, compose |-> bundle.compose,
               auth |-> NewSecret(j), manifest |-> bundle.manifest, past |-> bundle.past]
         /\ Written(j, "profile") =
              [profile |-> NewConfig(j), runtime |-> bundle.runtime, compose |-> bundle.compose,
               auth |-> bundle.auth, manifest |-> bundle.manifest, past |-> bundle.past]
         /\ Written(j, "runtime") =
              [profile |-> bundle.profile, runtime |-> bundle.profile, compose |-> bundle.compose,
               auth |-> bundle.auth, manifest |-> bundle.manifest, past |-> bundle.past]
         /\ Written(j, "compose") =
              [profile |-> bundle.profile, runtime |-> bundle.runtime,
               compose |-> [image |-> NewImage(j), conf |-> bundle.profile],
               auth |-> bundle.auth, manifest |-> bundle.manifest, past |-> bundle.past]
         /\ Written(j, "manifest") =
              [profile |-> bundle.profile, runtime |-> bundle.runtime, compose |-> bundle.compose,
               auth |-> bundle.auth, manifest |-> Receipted(j, NewImage(j)), past |-> bundle.past]
         /\ Written(j, "past") =
              [profile |-> bundle.profile, runtime |-> bundle.runtime, compose |-> bundle.compose,
               auth |-> bundle.auth, manifest |-> bundle.manifest,
               past |-> Window(Superseded(j, bundle.past))]
         /\ bundle.manifest \in BundleManifests =>
              Written(j, "reveal") =
                [profile |-> bundle.profile, runtime |-> bundle.runtime, compose |-> bundle.compose,
                 auth |-> bundle.auth,
                 manifest |-> [image |-> bundle.manifest.image, receipt |-> bundle.manifest.receipt,
                               revealed |-> TRUE],
                 past |-> bundle.past]
         /\ Written(j, "remove_files") =
              [profile |-> Nothing, runtime |-> Nothing, compose |-> Nothing, auth |-> Nothing,
               manifest |-> bundle.manifest, past |-> << >>]
         /\ Written(j, "remove_manifest") =
              [profile |-> bundle.profile, runtime |-> bundle.runtime, compose |-> bundle.compose,
               auth |-> bundle.auth, manifest |-> Nothing, past |-> bundle.past]
         /\ \A s \in {"secrets", "up", "stop", "down", "down_volumes", "unregister"} :
              Written(j, s) = bundle
  <1>1. Written(j, "auth") = [bundle EXCEPT !.auth = NewSecret(j)]
    BY DEF Written
  <1>2. Written(j, "profile") = [bundle EXCEPT !.profile = NewConfig(j)]
    BY DEF Written
  <1>3. Written(j, "runtime") = [bundle EXCEPT !.runtime = bundle.profile]
    BY DEF Written
  <1>4. Written(j, "compose") = [bundle EXCEPT !.compose = [image |-> NewImage(j), conf |-> bundle.profile]]
    BY DEF Written
  <1>5. Written(j, "manifest") = [bundle EXCEPT !.manifest = Receipted(j, NewImage(j))]
    BY DEF Written
  <1>6. Written(j, "past") = [bundle EXCEPT !.past = Window(Superseded(j, bundle.past))]
    BY DEF Written
  <1>7. Written(j, "reveal") = [bundle EXCEPT !.manifest.revealed = TRUE]
    BY DEF Written
  <1>8. /\ Written(j, "remove_files") = [EmptyBundle EXCEPT !.manifest = bundle.manifest]
        /\ Written(j, "remove_manifest") = [bundle EXCEPT !.manifest = Nothing]
    BY DEF Written
  <1>11. [EmptyBundle EXCEPT !.manifest = bundle.manifest] =
           [profile |-> Nothing, runtime |-> Nothing, compose |-> Nothing, auth |-> Nothing,
            manifest |-> bundle.manifest, past |-> << >>]
    BY DEF EmptyBundle
  <1>9. \A s \in {"secrets", "up", "stop", "down", "down_volumes", "unregister"} :
          Written(j, s) = bundle
    BY DEF Written
  <1>10. ASSUME bundle.manifest \in BundleManifests
         PROVE  [bundle EXCEPT !.manifest.revealed = TRUE] =
                [profile |-> bundle.profile, runtime |-> bundle.runtime, compose |-> bundle.compose,
                 auth |-> bundle.auth,
                 manifest |-> [image |-> bundle.manifest.image, receipt |-> bundle.manifest.receipt,
                               revealed |-> TRUE],
                 past |-> bundle.past]
    <2> DEFINE m == [image |-> bundle.manifest.image, receipt |-> bundle.manifest.receipt,
                     revealed |-> TRUE]
    <2>1. [bundle EXCEPT !.manifest.revealed = TRUE] =
            [bundle EXCEPT !.manifest = [bundle.manifest EXCEPT !.revealed = TRUE]]
      OBVIOUS
    <2>2. [bundle.manifest EXCEPT !.revealed = TRUE] = m
      BY <1>10, RevealedField
    <2> HIDE DEF m
    <2>3. [bundle EXCEPT !.manifest = m] =
            [profile |-> bundle.profile, runtime |-> bundle.runtime, compose |-> bundle.compose,
             auth |-> bundle.auth, manifest |-> m, past |-> bundle.past]
      BY DEF Bundles
    <2> QED
      BY <2>1, <2>2, <2>3 DEF m
  <1> QED
    BY <1>1, <1>2, <1>3, <1>4, <1>5, <1>6, <1>7, <1>8, <1>9, <1>10, <1>11 DEF Bundles

\* And of the container and the secrets volume.
LEMMA DockerEffects ==
  ASSUME docker \in Dockers
  PROVE  /\ Composed("secrets") = [secret |-> bundle.auth, server |-> docker.server]
         /\ Composed("up") = [secret |-> docker.secret, server |-> ContainerOfFiles]
         /\ Composed("stop") =
              [secret |-> docker.secret,
               server |-> [image |-> docker.server.image, conf |-> docker.server.conf,
                           secret |-> docker.server.secret, up |-> FALSE]]
         /\ Composed("down") = [secret |-> docker.secret, server |-> NoContainer]
         /\ Composed("down_volumes") = [secret |-> Nothing, server |-> NoContainer]
         /\ \A s \in FileSteps :
              Composed(s) = docker /\ ComposedPartly(s) = {docker}
         /\ ComposedPartly("up") =
              {docker, [secret |-> docker.secret, server |-> NoContainer], Composed("up")}
         /\ \A s \in {"secrets", "stop", "down"} : ComposedPartly(s) = {docker, Composed(s)}
         /\ ComposedPartly("down_volumes") = {docker, Composed("down"), Composed("down_volumes")}
  <1>1. Composed("secrets") = [docker EXCEPT !.secret = bundle.auth]
    BY DEF Composed
  <1>2. Composed("up") = [docker EXCEPT !.server = ContainerOfFiles]
    BY DEF Composed
  <1>3. Composed("stop") = [docker EXCEPT !.server.up = FALSE]
    BY DEF Composed
  <1>4. Composed("down") = [docker EXCEPT !.server = NoContainer]
    BY DEF Composed
  <1>5. Composed("down_volumes") = [secret |-> Nothing, server |-> NoContainer]
    BY DEF Composed
  <1>6. \A s \in FileSteps :
          Composed(s) = docker /\ ComposedPartly(s) = {docker}
    BY DEF Composed, ComposedPartly, FileSteps
  <1>7. ComposedPartly("up") = {docker, [docker EXCEPT !.server = NoContainer], Composed("up")}
    BY DEF ComposedPartly
  <1>8. \A s \in {"secrets", "stop", "down"} : ComposedPartly(s) = {docker, Composed(s)}
    BY DEF ComposedPartly
  <1>9. ComposedPartly("down_volumes") = {docker, Composed("down"), Composed("down_volumes")}
    BY DEF ComposedPartly
  <1>10. [docker EXCEPT !.server = NoContainer] = [secret |-> docker.secret, server |-> NoContainer]
    BY DEF Dockers
  <1>11. [docker EXCEPT !.server.up = FALSE] =
              [secret |-> docker.secret,
               server |-> [image |-> docker.server.image, conf |-> docker.server.conf,
                           secret |-> docker.server.secret, up |-> FALSE]]
    <2> DEFINE c == [image |-> docker.server.image, conf |-> docker.server.conf,
                     secret |-> docker.server.secret, up |-> FALSE]
    <2>1. [docker EXCEPT !.server.up = FALSE] =
            [docker EXCEPT !.server = [docker.server EXCEPT !.up = FALSE]]
      OBVIOUS
    <2>2. [docker.server EXCEPT !.up = FALSE] = c
      <3>1. docker.server \in Containers
        BY DEF Dockers
      <3> QED
        BY <3>1, UpField
    <2> HIDE DEF c
    <2>3. [docker EXCEPT !.server = c] = [secret |-> docker.secret, server |-> c]
      BY DEF Dockers
    <2> QED
      BY <2>1, <2>2, <2>3 DEF c
  <1>12. /\ [docker EXCEPT !.secret = bundle.auth] = [secret |-> bundle.auth, server |-> docker.server]
         /\ [docker EXCEPT !.server = ContainerOfFiles] = [secret |-> docker.secret, server |-> ContainerOfFiles]
    BY DEF Dockers
  <1> QED
    BY <1>1, <1>2, <1>3, <1>4, <1>5, <1>6, <1>7, <1>8, <1>9, <1>10, <1>11, <1>12

\* The volume takes the password of the file; what runs goes on.
LEMMA SecretsStored ==
  ASSUME bundle \in Bundles, docker \in Dockers
  PROVE  LET d == Composed("secrets")
         IN d \in Dockers /\ d.secret = bundle.auth /\ d.server = docker.server
  <1>1. Composed("secrets") = [secret |-> bundle.auth, server |-> docker.server]
    BY DockerEffects
  <1>2. bundle.auth \in Secrets \cup {Nothing} /\ docker.server \in Containers
    BY DEF Bundles, Dockers
  <1>3. [secret |-> bundle.auth, server |-> docker.server] \in Dockers
    BY <1>2 DEF Dockers
  <1> QED
    BY <1>1, <1>3

\* What an "up" starts, when the files are recorded and the volume has their password.
LEMMA StartsRecorded ==
  ASSUME bundle \in Bundles, docker \in Dockers, Recorded(bundle)
  PROVE  /\ Composed("up") \in Dockers
         /\ docker.secret = bundle.auth => Serves(bundle, Composed("up"))
  <1>1. Composed("up") = [secret |-> docker.secret, server |-> ContainerOfFiles]
    BY DockerEffects
  <1>2. ContainerOfFiles = [image |-> bundle.manifest.image, conf |-> bundle.profile,
                            secret |-> docker.secret, up |-> TRUE]
    BY DEF ContainerOfFiles, Recorded
  <1>3. bundle.manifest.image \in Images /\ bundle.profile \in Configs \cup {Nothing}
    BY DEF Recorded, BundleManifests, Bundles
  <1>4. docker.secret \in Secrets \cup {Nothing}
    BY DEF Dockers
  <1>5. ContainerOfFiles \in Containers
    BY <1>2, <1>3, <1>4 DEF Containers
  <1>6. Composed("up") \in Dockers
    BY <1>1, <1>4, <1>5 DEF Dockers
  <1>7. Composed("up").server = ContainerOfFiles
    BY <1>1
  <1>8. docker.secret = bundle.auth => Serves(bundle, Composed("up"))
    BY <1>2, <1>7 DEF Serves
  <1> QED
    BY <1>6, <1>8

\* A manifest with the receipt of compose.yaml.
LEMMA ReceiptRecords ==
  ASSUME bundle \in Bundles, NEW j, NewImage(j) \in Images,
         bundle.compose = [image |-> NewImage(j), conf |-> bundle.profile],
         bundle.runtime = bundle.profile
  PROVE  LET b == Written(j, "manifest")
         IN /\ b \in Bundles /\ Recorded(b) /\ b.manifest.image = NewImage(j)
            /\ b.past = bundle.past /\ b.auth = bundle.auth /\ b.profile = bundle.profile
            /\ b.runtime = bundle.runtime /\ b.compose = bundle.compose
  <1> DEFINE m == Receipted(j, NewImage(j))
  <1>1. m = [image |-> NewImage(j), receipt |-> bundle.compose,
             revealed |-> j.spec # Nothing /\ j.spec.revealed]
    BY DEF Receipted
  <1>2. (j.spec # Nothing /\ j.spec.revealed) \in BOOLEAN
    OBVIOUS
  <1>3. m \in BundleManifests
    BY <1>1, <1>2 DEF BundleManifests, Bundles
  <1>4. Written(j, "manifest") =
          [profile |-> bundle.profile, runtime |-> bundle.runtime, compose |-> bundle.compose,
           auth |-> bundle.auth, manifest |-> m, past |-> bundle.past]
    BY WriteEffects
  <1>5. m.image = NewImage(j) /\ m.receipt = bundle.compose
    BY <1>1
  <1> HIDE DEF m
  <1> QED
    BY <1>3, <1>4, <1>5 DEF Recorded, Bundles

\* A manifest that says that the password was shown tells the same of the rest.
LEMMA RevealKeeps ==
  ASSUME bundle \in Bundles, Recorded(bundle), NEW b,
         b = [profile |-> bundle.profile, runtime |-> bundle.runtime, compose |-> bundle.compose,
              auth |-> bundle.auth,
              manifest |-> [image |-> bundle.manifest.image, receipt |-> bundle.manifest.receipt,
                            revealed |-> TRUE],
              past |-> bundle.past]
  PROVE  /\ b \in Bundles /\ Recorded(b) /\ b.past = bundle.past /\ b.auth = bundle.auth
         /\ \A d : Serves(bundle, d) => Serves(b, d)
  <1> DEFINE m == [image |-> bundle.manifest.image, receipt |-> bundle.manifest.receipt,
                   revealed |-> TRUE]
  <1>1. m \in BundleManifests /\ m.image = bundle.manifest.image
        /\ m.receipt = bundle.manifest.receipt
    BY DEF Recorded, BundleManifests
  <1>2. b = [profile |-> bundle.profile, runtime |-> bundle.runtime, compose |-> bundle.compose,
             auth |-> bundle.auth, manifest |-> m, past |-> bundle.past]
    OBVIOUS
  <1> HIDE DEF m
  <1>3. /\ b.profile = bundle.profile /\ b.runtime = bundle.runtime /\ b.compose = bundle.compose
        /\ b.auth = bundle.auth /\ b.manifest = m /\ b.past = bundle.past
    BY <1>2
  <1>4. b \in Bundles
    <2>1. /\ bundle.profile \in Configs \cup {Nothing} /\ bundle.runtime \in Configs \cup {Nothing}
          /\ bundle.compose \in Composes \cup {Nothing} /\ bundle.auth \in Secrets \cup {Nothing}
          /\ bundle.past \in Seq(Images) /\ m \in BundleManifests \cup {Nothing}
      BY <1>1 DEF Bundles
    <2>2. [profile |-> bundle.profile, runtime |-> bundle.runtime, compose |-> bundle.compose,
           auth |-> bundle.auth, manifest |-> m, past |-> bundle.past] \in Bundles
      BY <2>1 DEF Bundles
    <2> QED
      BY <1>2, <2>2
  <1> QED
    BY <1>1, <1>3, <1>4 DEF Recorded, Serves

\* A step of a setup: until its fifth there is no manifest, and nothing runs before the seventh.
LEMMA SetupStep ==
  ASSUME bundle \in Bundles, docker \in Dockers, NEW j, Begun(j), j.at = "work", j.kind = "setup",
         NEW n \in 0 .. Len(Course(j)) - 1, AfterSteps(j, n, bundle, docker)
  PROVE  Advanced(j, n, Course(j)[n + 1])
  <1>1. Course(j) = <<"auth", "profile", "runtime", "compose", "manifest", "secrets", "up", "reveal">>
    BY DEF Course
  <1>2. n \in 0 .. 7
    BY <1>1
  <1>3. /\ bundle.past = << >>
        /\ n >= 3 => bundle.runtime = bundle.profile
        /\ n >= 4 => bundle.compose = [image |-> j.arg, conf |-> bundle.profile]
        /\ IF n < 5 THEN bundle.manifest = Nothing /\ ~docker.server.up
           ELSE Recorded(bundle) /\ Serves(bundle, docker)
        /\ n >= 6 => docker.secret = bundle.auth
    BY DEF AfterSteps
  <1>4. /\ NewImage(j) = j.arg /\ j.arg \in Images /\ NewConfig(j) \in Configs
        /\ NewSecret(j) \in Secrets
        /\ j.kind \notin Restorable
    BY ComposeAssumption DEF NewImage, NewConfig, NewSecret, FirstConfig, FirstSecret, Begun,
       JobArgs, Restorable
  <1>5. ASSUME NEW b, NEW d,
               /\ b.past = << >>
               /\ n + 1 >= 3 => b.runtime = b.profile
               /\ n + 1 >= 4 => b.compose = [image |-> j.arg, conf |-> b.profile]
               /\ IF n + 1 < 5 THEN b.manifest = Nothing /\ ~d.server.up ELSE Recorded(b) /\ Serves(b, d)
               /\ n + 1 >= 6 => d.secret = b.auth
        PROVE  AfterSteps(j, n + 1, b, d)
    BY <1>5 DEF AfterSteps
  <1>6. n >= 5 => bundle.manifest # Nothing
    BY <1>3, ComposeAssumption DEF Recorded
  <1>7. Truthful(bundle, docker)
    BY <1>2, <1>3, <1>6 DEF Truthful
  <1>8. CASE n < 4
    <2>1. Course(j)[n + 1] \in {"auth", "profile", "runtime", "compose"}
      BY <1>1, <1>2, <1>8
    <2> DEFINE s == Course(j)[n + 1]
               b == Written(j, s)
    <2>2. Composed(s) = docker /\ ComposedPartly(s) = {docker}
      BY <2>1, DockerEffects DEF FileSteps
    <2>3. b \in Bundles
      BY <1>4, <2>1, WriteEffects DEF Bundles, Composes
    <2>4. /\ b.past = << >> /\ b.manifest = Nothing
          /\ n >= 2 => b.runtime = b.profile
          /\ n >= 3 => b.compose = [image |-> j.arg, conf |-> b.profile]
      <3>1. CASE n = 0
        BY <1>1, <1>3, <3>1, WriteEffects
      <3>2. CASE n = 1
        BY <1>1, <1>3, <3>2, WriteEffects
      <3>3. CASE n = 2
        BY <1>1, <1>3, <3>3, WriteEffects
      <3>4. CASE n = 3
        BY <1>1, <1>3, <1>4, <3>4, WriteEffects
      <3> QED
        BY <1>2, <1>8, <3>1, <3>2, <3>3, <3>4
    <2> HIDE DEF s, b
    <2>5. AfterSteps(j, n + 1, b, docker)
      BY <1>2, <1>3, <1>5, <1>8, <2>4
    <2> QED
      BY <1>4, <1>7, <2>2, <2>3, <2>5 DEF Advanced, Settled, s, b
  <1>9. CASE n = 4
    <2>1. Course(j)[n + 1] = "manifest"
      BY <1>1, <1>9
    <2> DEFINE b == Written(j, "manifest")
    <2>2. Composed("manifest") = docker /\ ComposedPartly("manifest") = {docker}
      BY DockerEffects DEF FileSteps
    <2>3. /\ b \in Bundles /\ Recorded(b) /\ b.past = << >>
          /\ b.runtime = b.profile /\ b.compose = [image |-> j.arg, conf |-> b.profile]
      BY <1>3, <1>4, <1>9, ReceiptRecords
    <2>4. Serves(b, docker)
      BY <1>3, <1>9 DEF Serves
    <2> HIDE DEF b
    <2>5. AfterSteps(j, n + 1, b, docker)
      BY <1>5, <1>9, <2>3, <2>4
    <2> QED
      BY <1>4, <1>7, <2>1, <2>2, <2>3, <2>5 DEF Advanced, Settled, b
  <1>10. CASE n = 5
    <2>1. Course(j)[n + 1] = "secrets"
      BY <1>1, <1>10
    <2> DEFINE d == Composed("secrets")
    <2>2. /\ d = [secret |-> bundle.auth, server |-> docker.server]
          /\ ComposedPartly("secrets") = {docker, d} /\ Written(j, "secrets") = bundle
      BY DockerEffects, WriteEffects
    <2>3. d \in Dockers /\ Serves(bundle, d) /\ d.secret = bundle.auth
      BY <1>3, <1>10, SecretsStored DEF Serves
    <2>4. Truthful(bundle, d)
      BY <1>3, <1>6, <1>10, <2>3 DEF Truthful
    <2> HIDE DEF d
    <2>5. AfterSteps(j, n + 1, bundle, d)
      BY <1>3, <1>5, <1>10, <2>3
    <2> QED
      BY <1>4, <1>7, <2>1, <2>2, <2>3, <2>4, <2>5 DEF Advanced, Settled, d
  <1>11. CASE n = 6
    <2>1. Course(j)[n + 1] = "up"
      BY <1>1, <1>11
    <2> DEFINE d == Composed("up")
               c == [secret |-> docker.secret, server |-> NoContainer]
    <2>2. /\ d = [secret |-> docker.secret, server |-> ContainerOfFiles]
          /\ ComposedPartly("up") = {docker, c, d} /\ Written(j, "up") = bundle
      BY DockerEffects, WriteEffects
    <2>3. d \in Dockers /\ Serves(bundle, d) /\ d.secret = bundle.auth
      <3>1. Recorded(bundle) /\ docker.secret = bundle.auth
        BY <1>3, <1>11
      <3>2. d \in Dockers /\ Serves(bundle, d)
        BY <3>1, StartsRecorded
      <3>3. d.secret = docker.secret
        BY <2>2
      <3> QED
        BY <3>1, <3>2, <3>3
    <2>4. Truthful(bundle, d)
      BY <1>3, <1>6, <1>11, <2>3 DEF Truthful
    <2>6. c \in Dockers /\ Truthful(bundle, c)
      BY <1>3, <1>6, <1>11 DEF Truthful, Serves, Dockers, Containers, NoContainer
    <2> HIDE DEF d, c
    <2>5. AfterSteps(j, n + 1, bundle, d)
      BY <1>3, <1>5, <1>11, <2>3
    <2> QED
      BY <1>4, <1>7, <2>1, <2>2, <2>3, <2>4, <2>5, <2>6 DEF Advanced, Settled, d
  <1>12. CASE n = 7
    <2>1. Course(j)[n + 1] = "reveal"
      BY <1>1, <1>12
    <2> DEFINE b == Written(j, "reveal")
    <2>2. Composed("reveal") = docker /\ ComposedPartly("reveal") = {docker}
      BY DockerEffects DEF FileSteps
    <2>0. bundle.manifest \in BundleManifests
      BY <1>3, <1>12 DEF Recorded
    <2>3. b = [profile |-> bundle.profile, runtime |-> bundle.runtime, compose |-> bundle.compose,
                 auth |-> bundle.auth,
                 manifest |-> [image |-> bundle.manifest.image, receipt |-> bundle.manifest.receipt,
                               revealed |-> TRUE],
                 past |-> bundle.past]
      BY <2>0, WriteEffects
    <2> HIDE DEF b
    <2>4. b \in Bundles /\ Recorded(b) /\ Serves(b, docker)
      <3>1. Recorded(bundle) /\ Serves(bundle, docker)
        BY <1>3, <1>12
      <3> QED
        BY <3>1, <2>3, RevealKeeps
    <2>5. AfterSteps(j, n + 1, b, docker)
      BY <1>3, <1>5, <1>12, <2>3, <2>4
    <2> QED
      BY <1>4, <1>7, <2>1, <2>2, <2>4, <2>5 DEF Advanced, Settled, b
  <1> QED
    BY <1>2, <1>8, <1>9, <1>10, <1>11, <1>12


\* A command that can be restored leaves a container that was down, down.
LEMMA RestorableDocker ==
  ASSUME bundle \in Bundles, docker \in Dockers, NEW j, j.kind \in Restorable,
         ~j.up => ~docker.server.up,
         NEW s \in FileSteps \cup {"secrets", "up"}, s = "up" => j.up /\ Recorded(bundle)
  PROVE  /\ Composed(s) \in Dockers /\ (~j.up => ~Composed(s).server.up)
         /\ \A d \in ComposedPartly(s) :
              /\ d \in Dockers
              /\ j.kind \in Restorable /\ ~j.up => ~d.server.up
              /\ j.kind \notin Restorable => Truthful(bundle, d)
  <1>1. CASE s \in FileSteps
    BY <1>1, DockerEffects DEF FileSteps
  <1>2. CASE s = "secrets"
    BY <1>2, DockerEffects, SecretsStored
  <1>3. CASE s = "up"
    <2> DEFINE d == Composed("up")
               c == [secret |-> docker.secret, server |-> NoContainer]
    <2>1. ComposedPartly("up") = {docker, c, d} /\ j.up
      BY <1>3, DockerEffects
    <2>2. d \in Dockers
      BY <1>3, StartsRecorded
    <2>3. c \in Dockers
      BY DEF Dockers, Containers, NoContainer
    <2> HIDE DEF d, c
    <2> QED
      BY <1>3, <2>1, <2>2, <2>3 DEF d
  <1> QED
    BY <1>1, <1>2, <1>3

\* A step of a change of configuration.
LEMMA ConfigureStep ==
  ASSUME bundle \in Bundles, docker \in Dockers, NEW j, Begun(j), j.at = "work",
         j.kind = "configure", ~j.up => ~docker.server.up,
         NEW n \in 0 .. Len(Course(j)) - 1, AfterSteps(j, n, bundle, docker)
  PROVE  Advanced(j, n, Course(j)[n + 1])
  <1>1. Course(j) = IF j.up THEN <<"profile", "runtime", "compose", "manifest", "secrets", "up">>
                    ELSE <<"profile", "runtime", "compose", "manifest">>
    BY DEF Course
  <1>2. /\ j.up \in BOOLEAN /\ (j.up => n \in 0 .. 5) /\ (~j.up => n \in 0 .. 3)
        /\ Course(j)[1] = "profile" /\ Course(j)[2] = "runtime" /\ Course(j)[3] = "compose"
        /\ Course(j)[4] = "manifest" /\ (j.up => Course(j)[5] = "secrets" /\ Course(j)[6] = "up")
    <2>1. j.up \in BOOLEAN
      BY DEF Begun
    <2>2. CASE j.up
      BY <1>1, <2>1, <2>2
    <2>3. CASE ~j.up
      BY <1>1, <2>1, <2>3
    <2> QED
      BY <2>2, <2>3
  <1>3. /\ bundle.past = j.old.past
        /\ n >= 2 => bundle.runtime = bundle.profile
        /\ n >= 3 => bundle.compose = [image |-> j.spec.image, conf |-> bundle.profile]
        /\ n >= 4 => Recorded(bundle)
        /\ n >= 5 => docker.secret = bundle.auth
        /\ n >= 6 => Serves(bundle, docker)
    BY DEF AfterSteps
  <1>4. /\ NewImage(j) = j.spec.image /\ j.spec.image \in Images /\ NewConfig(j) \in Configs
        /\ j.kind \in Restorable
    BY DEF NewImage, NewConfig, Begun, JobArgs, Restorable, BundleManifests
  <1>5. ASSUME NEW b, NEW d,
               /\ b.past = j.old.past
               /\ n + 1 >= 2 => b.runtime = b.profile
               /\ n + 1 >= 3 => b.compose = [image |-> j.spec.image, conf |-> b.profile]
               /\ n + 1 >= 4 => Recorded(b)
               /\ n + 1 >= 5 => d.secret = b.auth
               /\ n + 1 >= 6 => Serves(b, d)
        PROVE  AfterSteps(j, n + 1, b, d)
    BY <1>5 DEF AfterSteps
  <1>6. n \in 0 .. 5 /\ (n \in {4, 5} => j.up)
    BY <1>2
  <1> DEFINE s == Course(j)[n + 1]
             b == Written(j, s)
             d == Composed(s)
  <1>7. /\ n = 0 => s = "profile"
        /\ n = 1 => s = "runtime"
        /\ n = 2 => s = "compose"
        /\ n = 3 => s = "manifest"
        /\ n = 4 => s = "secrets"
        /\ n = 5 => s = "up"
    BY <1>2, <1>6
  <1>8. /\ d \in Dockers /\ (~j.up => ~d.server.up)
        /\ \A c \in ComposedPartly(s) :
             /\ c \in Dockers
             /\ j.kind \in Restorable /\ ~j.up => ~c.server.up
             /\ j.kind \notin Restorable => Truthful(bundle, c)
    <2>1. s \in FileSteps \cup {"secrets", "up"}
      BY <1>6, <1>7 DEF FileSteps
    <2>2. s = "up" => n = 5
      BY <1>6, <1>7
    <2>3. s = "up" => j.up /\ Recorded(bundle)
      BY <1>3, <1>6, <2>2
    <2> HIDE DEF s
    <2> QED
      BY <1>4, <2>1, <2>3, RestorableDocker
  <1>9. b \in Bundles /\ AfterSteps(j, n + 1, b, d)
    <2>1. CASE n = 0
      <3>1. /\ b = [profile |-> NewConfig(j), runtime |-> bundle.runtime, compose |-> bundle.compose,
                    auth |-> bundle.auth, manifest |-> bundle.manifest, past |-> bundle.past]
        BY <1>7, <2>1, WriteEffects
      <3>2. b \in Bundles
        BY <1>4, <3>1 DEF Bundles
      <3> HIDE DEF b, d
      <3>3. b.past = bundle.past
        BY <3>1
      <3> QED
        BY <1>3, <1>5, <2>1, <3>2, <3>3
    <2>2. CASE n = 1
      <3>1. /\ b = [profile |-> bundle.profile, runtime |-> bundle.profile, compose |-> bundle.compose,
                    auth |-> bundle.auth, manifest |-> bundle.manifest, past |-> bundle.past]
        BY <1>7, <2>2, WriteEffects
      <3>2. b \in Bundles
        BY <3>1 DEF Bundles
      <3> HIDE DEF b, d
      <3>3. b.past = bundle.past /\ b.runtime = b.profile
        BY <3>1
      <3> QED
        BY <1>3, <1>5, <2>2, <3>2, <3>3
    <2>3. CASE n = 2
      <3>1. /\ b = [profile |-> bundle.profile, runtime |-> bundle.runtime,
                    compose |-> [image |-> NewImage(j), conf |-> bundle.profile],
                    auth |-> bundle.auth, manifest |-> bundle.manifest, past |-> bundle.past]
        BY <1>7, <2>3, WriteEffects
      <3>2. b \in Bundles
        BY <1>4, <3>1 DEF Bundles, Composes
      <3> HIDE DEF b, d
      <3>3. /\ b.past = bundle.past /\ b.runtime = b.profile
            /\ b.compose = [image |-> j.spec.image, conf |-> b.profile]
        BY <1>3, <1>4, <2>3, <3>1
      <3> QED
        BY <1>3, <1>5, <2>3, <3>2, <3>3
    <2>4. CASE n = 3
      <3>1. b = Written(j, "manifest")
        BY <1>7, <2>4
      <3>2. /\ b \in Bundles /\ Recorded(b) /\ b.past = bundle.past /\ b.runtime = b.profile
            /\ b.compose = [image |-> j.spec.image, conf |-> b.profile]
        BY <1>3, <1>4, <2>4, <3>1, ReceiptRecords
      <3> HIDE DEF b, d
      <3> QED
        BY <1>3, <1>5, <2>4, <3>2
    <2>5. CASE n = 4
      <3>1. b = bundle /\ d.secret = bundle.auth
        BY <1>7, <2>5, WriteEffects, SecretsStored
      <3> HIDE DEF b, d
      <3> QED
        BY <1>3, <1>5, <2>5, <3>1
    <2>6. CASE n = 5
      <3>1. b = bundle /\ d.secret = docker.secret
        BY <1>7, <2>6, WriteEffects, DockerEffects
      <3>2. Serves(bundle, d)
        BY <1>3, <1>7, <2>6, StartsRecorded
      <3> HIDE DEF b, d
      <3> QED
        BY <1>3, <1>5, <2>6, <3>1, <3>2
    <2> QED
      BY <1>6, <2>1, <2>2, <2>3, <2>4, <2>5, <2>6
  <1> QED
    BY <1>8, <1>9 DEF Advanced, Settled

\* A step of a change of the password: the other files stay as recorded.
LEMMA CredentialsStep ==
  ASSUME bundle \in Bundles, docker \in Dockers, NEW j, Begun(j), j.at = "work",
         j.kind = "credentials", ~j.up => ~docker.server.up,
         NEW n \in 0 .. Len(Course(j)) - 1, AfterSteps(j, n, bundle, docker)
  PROVE  Advanced(j, n, Course(j)[n + 1])
  <1>1. Course(j) = IF j.up THEN <<"auth", "manifest", "secrets", "up">>
                    ELSE <<"auth", "manifest", "secrets">>
    BY DEF Course
  <1>2. /\ j.up \in BOOLEAN /\ (j.up => n \in 0 .. 3) /\ (~j.up => n \in 0 .. 2)
        /\ Course(j)[1] = "auth" /\ Course(j)[2] = "manifest" /\ Course(j)[3] = "secrets"
        /\ (j.up => Course(j)[4] = "up")
    <2>1. j.up \in BOOLEAN
      BY DEF Begun
    <2>2. CASE j.up
      BY <1>1, <2>1, <2>2
    <2>3. CASE ~j.up
      BY <1>1, <2>1, <2>3
    <2> QED
      BY <2>2, <2>3
  <1>3. /\ bundle.past = j.old.past /\ Recorded(bundle) /\ bundle.manifest.image = j.spec.image
        /\ n >= 3 => docker.secret = bundle.auth
        /\ n >= 4 => Serves(bundle, docker)
    BY DEF AfterSteps
  <1>4. /\ NewImage(j) = j.spec.image /\ j.spec.image \in Images /\ NewSecret(j) \in Secrets
        /\ j.kind \in Restorable
    BY DEF NewImage, NewSecret, Begun, JobArgs, Restorable, BundleManifests
  <1>5. ASSUME NEW b, NEW d,
               /\ b.past = j.old.past /\ Recorded(b) /\ b.manifest.image = j.spec.image
               /\ n + 1 >= 3 => d.secret = b.auth
               /\ n + 1 >= 4 => Serves(b, d)
        PROVE  AfterSteps(j, n + 1, b, d)
    BY <1>5 DEF AfterSteps
  <1>6. n \in 0 .. 3 /\ (n = 3 => j.up)
    BY <1>2
  <1> DEFINE s == Course(j)[n + 1]
             b == Written(j, s)
             d == Composed(s)
  <1>7. /\ n = 0 => s = "auth"
        /\ n = 1 => s = "manifest"
        /\ n = 2 => s = "secrets"
        /\ n = 3 => s = "up"
    BY <1>2, <1>6
  <1>8. /\ d \in Dockers /\ (~j.up => ~d.server.up)
        /\ \A c \in ComposedPartly(s) :
             /\ c \in Dockers
             /\ j.kind \in Restorable /\ ~j.up => ~c.server.up
             /\ j.kind \notin Restorable => Truthful(bundle, c)
    <2>1. s \in FileSteps \cup {"secrets", "up"}
      BY <1>6, <1>7 DEF FileSteps
    <2>2. s = "up" => n = 3
      BY <1>6, <1>7
    <2>3. s = "up" => j.up /\ Recorded(bundle)
      BY <1>3, <1>6, <2>2
    <2> HIDE DEF s
    <2> QED
      BY <1>4, <2>1, <2>3, RestorableDocker
  <1>9. b \in Bundles /\ AfterSteps(j, n + 1, b, d)
    <2>1. CASE n = 0
      <3>1. /\ b = [profile |-> bundle.profile, runtime |-> bundle.runtime, compose |-> bundle.compose,
                    auth |-> NewSecret(j), manifest |-> bundle.manifest, past |-> bundle.past]
        BY <1>7, <2>1, WriteEffects
      <3>2. b \in Bundles
        BY <1>4, <3>1 DEF Bundles
      <3> HIDE DEF b, d
      <3>3. b.past = bundle.past /\ Recorded(b) /\ b.manifest = bundle.manifest
        BY <1>3, <3>1 DEF Recorded
      <3> QED
        BY <1>3, <1>5, <2>1, <3>2, <3>3
    <2>4. CASE n = 1
      <3>1. b = Written(j, "manifest")
        BY <1>7, <2>4
      <3>2. /\ bundle.compose = [image |-> NewImage(j), conf |-> bundle.profile]
            /\ bundle.runtime = bundle.profile
        BY <1>3, <1>4 DEF Recorded
      <3>3. b \in Bundles /\ Recorded(b) /\ b.past = bundle.past /\ b.manifest.image = j.spec.image
        BY <1>3, <1>4, <3>1, <3>2, ReceiptRecords
      <3> HIDE DEF b, d
      <3> QED
        BY <1>3, <1>5, <2>4, <3>3
    <2>5. CASE n = 2
      <3>1. b = bundle /\ d.secret = bundle.auth
        BY <1>7, <2>5, WriteEffects, SecretsStored
      <3> HIDE DEF b, d
      <3> QED
        BY <1>3, <1>5, <2>5, <3>1
    <2>6. CASE n = 3
      <3>1. b = bundle /\ d.secret = docker.secret
        BY <1>7, <2>6, WriteEffects, DockerEffects
      <3>2. Serves(bundle, d)
        BY <1>3, <1>7, <2>6, StartsRecorded
      <3> HIDE DEF b, d
      <3> QED
        BY <1>3, <1>5, <2>6, <3>1, <3>2
    <2> QED
      BY <1>6, <2>1, <2>4, <2>5, <2>6
  <1> QED
    BY <1>8, <1>9 DEF Advanced, Settled

\* The history of an exchange that completes, in the bundle and in truth.
LEMMA SupersededSuffix ==
  ASSUME NEW j, Begun(j), j.at = "work", j.kind \in {"update", "rollback"},
         NEW d, NEW t \in Seq(Images), Restorables(j, d, t)
  PROVE  LET s == Window(Superseded(j, j.old.past))
         IN /\ s \in Seq(Images) /\ Superseded(j, t) \in Seq(Images)
            /\ IsSuffix(s, Superseded(j, t))
  <1>1. j.old.past \in Seq(Images) /\ IsSuffix(j.old.past, t) /\ j.spec.image \in Images
        /\ (j.kind = "rollback" => j.old.past # << >>)
    <2>1. j.old \in Bundles /\ IsSuffix(j.old.past, t) /\ (j.kind = "rollback" => j.old.past # << >>)
      BY DEF Restorables, Restorable
    <2>2. j.spec \in BundleManifests
      BY DEF Begun
    <2> QED
      BY <2>1, <2>2 DEF Bundles, BundleManifests
  <1> DEFINE q == Superseded(j, j.old.past)
             r == Superseded(j, t)
  <1>2. q \in Seq(Images) /\ r \in Seq(Images) /\ IsSuffix(q, r)
    <2>1. CASE j.kind = "update"
      <3>1. q = Append(j.old.past, j.spec.image) /\ r = Append(t, j.spec.image)
        BY <2>1 DEF Superseded
      <3> HIDE DEF q, r
      <3> QED
        BY <1>1, <3>1, AppendSuffix
    <2>2. CASE j.kind = "rollback"
      <3>1. q = Front(j.old.past) /\ r = Front(t)
        BY <2>2 DEF Superseded
      <3> HIDE DEF q, r
      <3> QED
        BY <1>1, <2>2, <3>1, FrontSuffix
    <2> QED
      BY <2>1, <2>2
  <1> HIDE DEF q, r
  <1>3. Window(q) \in Seq(Images) /\ IsSuffix(Window(q), r)
    BY <1>2, WindowSuffix
  <1> QED
    BY <1>2, <1>3 DEF q, r

\* The image that an update or a rollback goes to.
LEMMA ExchangeImage ==
  ASSUME NEW j, Begun(j), j.at = "work", j.kind \in {"update", "rollback"},
         NEW d, NEW t, Restorables(j, d, t)
  PROVE  NewImage(j) \in Images /\ j.kind \in Restorable
  <1>1. CASE j.kind = "update"
    BY <1>1 DEF NewImage, Begun, JobArgs, Restorable
  <1>2. CASE j.kind = "rollback"
    <2>1. j.old.past \in Seq(Images) /\ j.old.past # << >>
      BY <1>2 DEF Restorables, Restorable, Bundles
    <2>2. Last(j.old.past) \in Images
      <3>1. Len(j.old.past) \in 1 .. Len(j.old.past)
        BY <2>1, EmptySeq
      <3> QED
        BY <2>1, <3>1 DEF Last
    <2> QED
      BY <1>2, <2>2 DEF NewImage, Restorable
  <1> QED
    BY <1>1, <1>2

\* A step of an update or a rollback: the history is written when the rest is done.
LEMMA ExchangeStep ==
  ASSUME bundle \in Bundles, docker \in Dockers, NEW j, Begun(j), j.at = "work",
         j.kind \in {"update", "rollback"}, NEW t \in Seq(Images), Restorables(j, docker, t),
         NEW n \in 0 .. Len(Course(j)) - 1, AfterSteps(j, n, bundle, docker)
  PROVE  Advanced(j, n, Course(j)[n + 1])
  <1>1. Course(j) =
          IF j.up THEN <<"compose", "manifest", "secrets", "up", "past", "manifest">>
          ELSE <<"compose", "manifest", "secrets", "past", "manifest">>
    BY DEF Course
  <1> DEFINE e == ExchangeEnd(j)
             P == Course(j)
  <1>2. /\ e \in {3, 4} /\ (e = 4 => j.up) /\ (e = 3 => ~j.up) /\ n \in 0 .. e + 1
        /\ P[1] = "compose" /\ P[2] = "manifest" /\ P[3] = "secrets" /\ P[e + 1] = "past"
        /\ P[e + 2] = "manifest" /\ (e = 4 => P[4] = "up")
    <2>2. CASE j.up
      BY <1>1, <2>2 DEF ExchangeEnd
    <2>3. CASE ~j.up
      BY <1>1, <2>3 DEF ExchangeEnd
    <2> QED
      BY <2>2, <2>3
  <1>3. /\ bundle.past = IF n > e THEN Window(Superseded(j, j.old.past)) ELSE j.old.past
        /\ bundle.runtime = bundle.profile
        /\ n >= 1 => bundle.compose = [image |-> NewImage(j), conf |-> bundle.profile]
        /\ n >= 2 => Recorded(bundle)
        /\ n >= 3 => docker.secret = bundle.auth
        /\ n >= 4 /\ j.up => Serves(bundle, docker)
    BY DEF AfterSteps
  <1>4. NewImage(j) \in Images /\ j.kind \in Restorable
    BY ExchangeImage
  <1>w. Window(Superseded(j, j.old.past)) \in Seq(Images)
    BY SupersededSuffix
  <1>u. ~j.up => ~docker.server.up
    BY <1>4 DEF Restorables
  <1>5. ASSUME NEW b, NEW d,
               /\ b.past = IF n + 1 > e THEN Window(Superseded(j, j.old.past)) ELSE j.old.past
               /\ b.runtime = b.profile
               /\ b.compose = [image |-> NewImage(j), conf |-> b.profile]
               /\ n + 1 >= 2 => Recorded(b)
               /\ n + 1 >= 3 => d.secret = b.auth
               /\ n + 1 >= 4 /\ j.up => Serves(b, d)
        PROVE  AfterSteps(j, n + 1, b, d)
    BY <1>5 DEF AfterSteps
  <1> HIDE DEF e, P
  <1>6. n \in 0 .. 5 /\ n >= 0
    BY <1>2
  <1> DEFINE s == P[n + 1]
             b == Written(j, s)
             d == Composed(s)
  <1>7. /\ n = 0 => s = "compose"
        /\ n = 1 => s = "manifest"
        /\ n = 2 => s = "secrets"
        /\ n = 3 /\ e = 4 => s = "up"
        /\ n = e => s = "past"
        /\ n = e + 1 => s = "manifest"
    BY <1>2, <1>6
  <1>c. n = 0 \/ n = 1 \/ n = 2 \/ (n = 3 /\ e = 4) \/ n = e \/ n = e + 1
    BY <1>2
  <1>8. /\ d \in Dockers /\ (~j.up => ~d.server.up)
        /\ \A c \in ComposedPartly(s) :
             /\ c \in Dockers
             /\ j.kind \in Restorable /\ ~j.up => ~c.server.up
             /\ j.kind \notin Restorable => Truthful(bundle, c)
    <2>1. s \in FileSteps \cup {"secrets", "up"}
      BY <1>c, <1>7 DEF FileSteps
    <2>2. s = "up" => n = 3 /\ e = 4
      BY <1>c, <1>7
    <2>3. s = "up" => j.up /\ Recorded(bundle)
      BY <1>2, <1>3, <2>2
    <2> HIDE DEF s
    <2> QED
      BY <1>4, <1>u, <2>1, <2>3, RestorableDocker
  <1>9. b \in Bundles /\ AfterSteps(j, n + 1, b, d)
    <2>1. CASE n = 0
      <3>1. /\ b = [profile |-> bundle.profile, runtime |-> bundle.runtime,
                    compose |-> [image |-> NewImage(j), conf |-> bundle.profile],
                    auth |-> bundle.auth, manifest |-> bundle.manifest, past |-> bundle.past]
        BY <1>7, <2>1, WriteEffects
      <3>2. b \in Bundles
        BY <1>4, <3>1 DEF Bundles, Composes
      <3> HIDE DEF b, d
      <3>3. /\ b.past = bundle.past /\ b.runtime = b.profile
            /\ b.compose = [image |-> NewImage(j), conf |-> b.profile]
        BY <1>3, <3>1
      <3>4. bundle.past = j.old.past /\ ~(n + 1 > e)
        BY <1>2, <1>3, <2>1
      <3> QED
        BY <1>5, <2>1, <3>2, <3>3, <3>4
    <2>2. CASE n = 1
      <3>1. b = Written(j, "manifest")
        BY <1>7, <2>2
      <3>2. /\ b \in Bundles /\ Recorded(b) /\ b.past = bundle.past /\ b.runtime = b.profile
            /\ b.compose = [image |-> NewImage(j), conf |-> b.profile]
        BY <1>3, <1>4, <2>2, <3>1, ReceiptRecords
      <3>4. bundle.past = j.old.past /\ ~(n + 1 > e)
        BY <1>2, <1>3, <2>2
      <3> HIDE DEF b, d
      <3> QED
        BY <1>5, <2>2, <3>2, <3>4
    <2>3. CASE n = 2
      <3>1. b = bundle /\ d.secret = bundle.auth
        BY <1>7, <2>3, WriteEffects, SecretsStored
      <3>4. bundle.past = j.old.past /\ ~(n + 1 > e)
        BY <1>2, <1>3, <2>3
      <3> HIDE DEF b, d
      <3> QED
        BY <1>3, <1>5, <2>3, <3>1, <3>4
    <2>4. CASE n = 3 /\ e = 4
      <3>1. b = bundle /\ d.secret = docker.secret
        BY <1>7, <2>4, WriteEffects, DockerEffects
      <3>2. Serves(bundle, d)
        BY <1>3, <1>7, <2>4, StartsRecorded
      <3>4. bundle.past = j.old.past /\ ~(n + 1 > e)
        BY <1>3, <2>4
      <3> HIDE DEF b, d
      <3> QED
        BY <1>3, <1>5, <2>4, <3>1, <3>2, <3>4
    <2>5. CASE n = e
      <3>0. bundle.past = j.old.past /\ n + 1 > e /\ n >= 3 /\ s = "past" /\ (j.up => n >= 4)
        BY <1>2, <1>3, <1>7, <2>5
      <3>1. b = [profile |-> bundle.profile, runtime |-> bundle.runtime, compose |-> bundle.compose,
                 auth |-> bundle.auth, manifest |-> bundle.manifest,
                 past |-> Window(Superseded(j, bundle.past))]
        BY <3>0, WriteEffects
      <3>2. b \in Bundles
        BY <1>w, <3>0, <3>1 DEF Bundles
      <3>3. d = docker
        BY <3>0, DockerEffects DEF FileSteps
      <3> HIDE DEF b, d
      <3>4. /\ b.past = Window(Superseded(j, j.old.past)) /\ b.runtime = b.profile
            /\ b.compose = [image |-> NewImage(j), conf |-> b.profile]
            /\ Recorded(b) /\ b.auth = bundle.auth
        BY <1>3, <3>0, <3>1 DEF Recorded
      <3>5. j.up => Serves(b, docker)
        BY <1>3, <3>0, <3>1 DEF Serves
      <3> QED
        BY <1>3, <1>5, <3>0, <3>2, <3>3, <3>4, <3>5
    <2>6. CASE n = e + 1
      <3>0. /\ bundle.past = Window(Superseded(j, j.old.past))
            /\ n + 1 > e /\ n >= 4 /\ s = "manifest"
        BY <1>2, <1>3, <1>7, <2>6
      <3>1. b = Written(j, "manifest") /\ d = docker
        BY <3>0, DockerEffects DEF FileSteps
      <3>2. /\ b \in Bundles /\ Recorded(b) /\ b.past = bundle.past /\ b.runtime = b.profile
            /\ b.compose = [image |-> NewImage(j), conf |-> b.profile]
            /\ b.manifest.image = NewImage(j) /\ b.auth = bundle.auth /\ b.profile = bundle.profile
        BY <1>3, <1>4, <3>0, <3>1, ReceiptRecords
      <3>3. bundle.manifest.image = NewImage(j)
        BY <1>3, <3>0 DEF Recorded
      <3> HIDE DEF b, d
      <3>4. j.up => Serves(b, docker)
        BY <1>3, <3>0, <3>2, <3>3 DEF Serves
      <3> QED
        BY <1>3, <1>5, <3>0, <3>1, <3>2, <3>4
    <2> QED
      BY <1>c, <2>1, <2>2, <2>3, <2>4, <2>5, <2>6
  <1> QED
    BY <1>8, <1>9 DEF Advanced, Settled, P

\* A step of a start.
LEMMA StartStep ==
  ASSUME bundle \in Bundles, docker \in Dockers, NEW j, Begun(j), j.at = "work", j.kind = "start",
         NEW n \in 0 .. Len(Course(j)) - 1, AfterSteps(j, n, bundle, docker)
  PROVE  Advanced(j, n, Course(j)[n + 1])
  <1>1. Course(j) =
          IF j.spec.revealed THEN <<"secrets", "up">> ELSE <<"secrets", "up", "reveal">>
    BY DEF Course
  <1>2. /\ n \in 0 .. 2 /\ (n = 0 => Course(j)[n + 1] = "secrets")
        /\ (n = 1 => Course(j)[n + 1] = "up") /\ (n = 2 => Course(j)[n + 1] = "reveal")
    <2>1. CASE j.spec.revealed
      BY <1>1, <2>1
    <2>2. CASE ~j.spec.revealed
      BY <1>1, <2>2
    <2> QED
      BY <2>1, <2>2
  <1>3. Recorded(bundle) /\ Serves(bundle, docker) /\ (n >= 1 => docker.secret = bundle.auth)
    BY DEF AfterSteps
  <1>4. j.kind \notin Restorable /\ bundle.manifest # Nothing
    BY <1>3, ComposeAssumption DEF Restorable, Recorded
  <1>5. ASSUME NEW b, NEW d, Recorded(b), Serves(b, d), n + 1 >= 1 => d.secret = b.auth
        PROVE  AfterSteps(j, n + 1, b, d)
    BY <1>5 DEF AfterSteps
  <1>6. ASSUME NEW d, Serves(bundle, d)
        PROVE  Truthful(bundle, d)
    BY <1>3, <1>4, <1>6 DEF Truthful
  <1>7. CASE n = 0
    <2> DEFINE d == Composed("secrets")
    <2>1. ComposedPartly("secrets") = {docker, d} /\ Written(j, "secrets") = bundle
      BY DockerEffects, WriteEffects
    <2>2. d \in Dockers /\ d.secret = bundle.auth /\ Serves(bundle, d)
      BY <1>3, SecretsStored DEF Serves
    <2> HIDE DEF d
    <2>3. AfterSteps(j, n + 1, bundle, d)
      BY <1>3, <1>5, <2>2
    <2> QED
      BY <1>2, <1>3, <1>4, <1>6, <1>7, <2>1, <2>2, <2>3 DEF Advanced, Settled, d
  <1>8. CASE n = 1
    <2> DEFINE d == Composed("up")
               c == [secret |-> docker.secret, server |-> NoContainer]
    <2>1. /\ ComposedPartly("up") = {docker, c, d} /\ Written(j, "up") = bundle
          /\ d.secret = docker.secret
      BY DockerEffects, WriteEffects
    <2>2. d \in Dockers /\ Serves(bundle, d)
      BY <1>3, <1>8, StartsRecorded
    <2>3. c \in Dockers /\ Serves(bundle, c)
      BY DEF Dockers, Containers, NoContainer, Serves
    <2> HIDE DEF c, d
    <2>4. AfterSteps(j, n + 1, bundle, d)
      BY <1>3, <1>5, <1>8, <2>1, <2>2
    <2> QED
      BY <1>2, <1>3, <1>4, <1>6, <1>8, <2>1, <2>2, <2>3, <2>4 DEF Advanced, Settled, d
  <1>9. CASE n = 2
    <2> DEFINE b == Written(j, "reveal")
    <2>1. Composed("reveal") = docker /\ ComposedPartly("reveal") = {docker}
      BY DockerEffects DEF FileSteps
    <2>2. bundle.manifest \in BundleManifests
      BY <1>3 DEF Recorded
    <2>3. b = [profile |-> bundle.profile, runtime |-> bundle.runtime, compose |-> bundle.compose,
                 auth |-> bundle.auth,
                 manifest |-> [image |-> bundle.manifest.image, receipt |-> bundle.manifest.receipt,
                               revealed |-> TRUE],
                 past |-> bundle.past]
      BY <2>2, WriteEffects
    <2> HIDE DEF b
    <2>4. b \in Bundles /\ Recorded(b) /\ b.auth = bundle.auth /\ Serves(b, docker)
      BY <1>3, <2>3, RevealKeeps
    <2>5. AfterSteps(j, n + 1, b, docker)
      BY <1>3, <1>5, <1>9, <2>4
    <2> QED
      BY <1>2, <1>3, <1>4, <1>6, <1>9, <2>1, <2>4, <2>5 DEF Advanced, Settled, b
  <1> QED
    BY <1>2, <1>7, <1>8, <1>9

\* A stop, or an uninstallation, which keeps the files.
LEMMA StopStep ==
  ASSUME bundle \in Bundles, docker \in Dockers, NEW j, Begun(j), j.at = "work",
         j.kind \in {"stop", "uninstall"},
         NEW n \in 0 .. Len(Course(j)) - 1, AfterSteps(j, n, bundle, docker)
  PROVE  Advanced(j, n, Course(j)[n + 1])
  <1>1. n = 0 /\ Course(j)[1] \in {"stop", "down"}
    <2>1. Course(j) = <<"stop">> \/ Course(j) = <<"down">>
      BY DEF Course
    <2>2. CASE Course(j) = <<"stop">>
      BY <2>2
    <2>3. CASE Course(j) = <<"down">>
      BY <2>3
    <2> QED
      BY <2>1, <2>2, <2>3
  <1>2. Recorded(bundle) /\ Serves(bundle, docker)
    BY DEF AfterSteps
  <1>3. j.kind \notin Restorable /\ bundle.manifest # Nothing
    BY <1>2, ComposeAssumption DEF Restorable, Recorded
  <1>4. ASSUME NEW s \in {"stop", "down"}
        PROVE  /\ Written(j, s) = bundle /\ ComposedPartly(s) = {docker, Composed(s)}
               /\ Composed(s) \in Dockers /\ ~Composed(s).server.up
    <2>1. Written(j, s) = bundle /\ ComposedPartly(s) = {docker, Composed(s)}
      BY WriteEffects, DockerEffects
    <2>2. CASE s = "stop"
      <3> DEFINE c == [image |-> docker.server.image, conf |-> docker.server.conf,
                       secret |-> docker.server.secret, up |-> FALSE]
      <3>1. Composed("stop") = [secret |-> docker.secret, server |-> c]
        BY DockerEffects
      <3>2. c \in Containers /\ c.up = FALSE /\ docker.secret \in Secrets \cup {Nothing}
        BY DEF Dockers, Containers
      <3> HIDE DEF c
      <3> QED
        BY <2>1, <2>2, <3>1, <3>2 DEF Dockers
    <2>3. CASE s = "down"
      <3>1. Composed("down") = [secret |-> docker.secret, server |-> NoContainer]
        BY DockerEffects
      <3>2. NoContainer \in Containers /\ NoContainer.up = FALSE
            /\ docker.secret \in Secrets \cup {Nothing}
        BY DEF Dockers, Containers, NoContainer
      <3> QED
        BY <2>1, <2>3, <3>1, <3>2 DEF Dockers
    <2> QED
      BY <2>2, <2>3
  <1>5. ASSUME NEW d, Serves(bundle, d)
        PROVE  Truthful(bundle, d) /\ AfterSteps(j, n + 1, bundle, d)
    BY <1>2, <1>3, <1>5 DEF Truthful, AfterSteps
  <1> DEFINE s == Course(j)[1]
             d == Composed(s)
  <1>6. /\ Written(j, s) = bundle /\ ComposedPartly(s) = {docker, d}
        /\ d \in Dockers /\ ~d.server.up
    BY <1>1, <1>4
  <1> HIDE DEF d
  <1>7. Serves(bundle, d)
    BY <1>6 DEF Serves
  <1>8. Course(j)[n + 1] = s
    BY <1>1
  <1> HIDE DEF s
  <1>9. Truthful(bundle, d) /\ AfterSteps(j, n + 1, bundle, d) /\ Truthful(bundle, docker)
    BY <1>2, <1>5, <1>7
  <1> QED
    BY <1>3, <1>6, <1>8, <1>9 DEF Advanced, Settled, d

\* What was recorded has a receipt, so that its manifest alone is owned by nothing.
LEMMA Receipts ==
  ASSUME NEW b \in Bundles, NEW d, Truthful(b, d)
  PROVE  b.manifest # Nothing => b.manifest.receipt # Nothing
  <1> SUFFICES ASSUME b.manifest # Nothing
               PROVE  b.manifest.receipt # Nothing
    OBVIOUS
  <1>1. /\ b.manifest.receipt = [image |-> b.manifest.image, conf |-> b.profile]
        /\ b.manifest.image \in Images /\ b.profile \in Configs \cup {Nothing}
    BY DEF Truthful, Recorded, BundleManifests, Bundles
  <1>2. b.manifest.receipt \in Composes
    BY <1>1 DEF Composes
  <1> QED
    BY <1>2, ComposeAssumption

\* Files and a manifest alone, with an empty Docker, are files that a purge may leave.
LEMMA EmptyTyped == EmptyBundle \in Bundles /\ Emptied \in Dockers /\ ~Emptied.server.up
  <1>1. NoContainer \in Containers /\ NoContainer.up = FALSE
    BY DEF NoContainer, Containers
  <1>2. EmptyBundle \in Bundles
    BY DEF EmptyBundle, Bundles
  <1> QED
    BY <1>1, <1>2 DEF Emptied, Dockers

\* A step of a purge: the container goes before the files, and the manifest goes last.
LEMMA PurgeStep ==
  ASSUME bundle \in Bundles, docker \in Dockers, NEW j, Begun(j), j.at = "work", j.kind = "purge",
         NEW n \in 0 .. Len(Course(j)) - 1, AfterSteps(j, n, bundle, docker)
  PROVE  Advanced(j, n, Course(j)[n + 1])
  <1>1. /\ n \in {0, 1, 2, 3} /\ (n = 0 => Course(j)[n + 1] = "down_volumes")
        /\ (n = 1 => Course(j)[n + 1] = "remove_files") /\ (n = 2 => Course(j)[n + 1] = "unregister")
        /\ (n = 3 => Course(j)[n + 1] = "remove_manifest")
    <2>1. Course(j) = <<"down_volumes", "remove_files", "unregister", "remove_manifest">>
      BY DEF Course
    <2> QED
      BY <2>1
  <1>2. /\ n < 2 => Truthful(bundle, docker)
        /\ n >= 1 => docker = Emptied
        /\ n >= 2 => Bare(bundle, docker)
    BY DEF AfterSteps
  <1>3. j.kind \notin Restorable
    BY DEF Restorable
  <1>4. ASSUME NEW b, NEW d, n + 1 < 2 => Truthful(b, d), d = Emptied, n + 1 >= 2 => Bare(b, d)
        PROVE  AfterSteps(j, n + 1, b, d)
    BY <1>4 DEF AfterSteps
  <1>5. CASE n = 0
    <2> DEFINE d == Composed("down")
    <2>1. /\ ComposedPartly("down_volumes") = {docker, d, Emptied}
          /\ Composed("down_volumes") = Emptied
          /\ Written(j, "down_volumes") = bundle
          /\ d = [secret |-> docker.secret, server |-> NoContainer]
      BY DockerEffects, WriteEffects DEF Emptied
    <2>2. NoContainer \in Containers /\ NoContainer.up = FALSE
      BY DEF Containers, NoContainer
    <2> HIDE DEF d
    <2>3. d \in Dockers /\ ~d.server.up /\ Emptied \in Dockers /\ ~Emptied.server.up
      BY <2>1, <2>2, EmptyTyped DEF Dockers
    <2>4. Truthful(bundle, d) /\ Truthful(bundle, Emptied)
      BY <1>2, <1>5, <2>3 DEF Truthful, Serves
    <2>5. AfterSteps(j, n + 1, bundle, Emptied)
      BY <1>4, <1>5, <2>4
    <2> QED
      BY <1>1, <1>2, <1>3, <1>5, <2>1, <2>3, <2>4, <2>5 DEF Advanced, Settled
  <1>6. CASE n \in {1, 2, 3}
    <2> DEFINE s == Course(j)[n + 1]
               b == Written(j, s)
    <2>1. /\ s \in {"remove_files", "unregister", "remove_manifest"}
          /\ (n = 1 => s = "remove_files") /\ (n = 2 => s = "unregister")
          /\ (n = 3 => s = "remove_manifest")
      BY <1>1, <1>6
    <2> HIDE DEF s
    <2>2. Composed(s) = docker /\ ComposedPartly(s) = {docker}
      BY <2>1, DockerEffects DEF FileSteps
    <2>3. docker = Emptied /\ Settled(bundle, docker)
      BY <1>2, <1>6 DEF Settled
    <2>4. b \in Bundles /\ Bare(b, docker)
      <3>1. CASE n = 1
        <4>1. b = [profile |-> Nothing, runtime |-> Nothing, compose |-> Nothing, auth |-> Nothing,
                   manifest |-> bundle.manifest, past |-> << >>]
          BY <2>1, <3>1, WriteEffects
        <4>2. bundle.manifest # Nothing => bundle.manifest.receipt # Nothing
          BY <1>2, <3>1, Receipts
        <4> HIDE DEF b
        <4>3. b.manifest = bundle.manifest
          BY <4>1
        <4>4. b \in Bundles
          BY <4>1 DEF Bundles
        <4> QED
          BY <2>3, <4>1, <4>2, <4>3, <4>4 DEF Bare
      <3>2. CASE n = 2
        BY <1>2, <2>1, <3>2, WriteEffects
      <3>3. CASE n = 3
        <4>1. b = [profile |-> bundle.profile, runtime |-> bundle.runtime,
                   compose |-> bundle.compose, auth |-> bundle.auth, manifest |-> Nothing,
                   past |-> bundle.past]
          BY <2>1, <3>3, WriteEffects
        <4>2. bundle = [profile |-> Nothing, runtime |-> Nothing, compose |-> Nothing,
                        auth |-> Nothing, manifest |-> bundle.manifest, past |-> << >>]
          BY <1>2, <3>3 DEF Bare
        <4>3. b = [profile |-> Nothing, runtime |-> Nothing, compose |-> Nothing,
                   auth |-> Nothing, manifest |-> Nothing, past |-> << >>]
          BY <4>1, <4>2
        <4> HIDE DEF b
        <4>4. b.manifest = Nothing
          BY <4>3
        <4>5. b \in Bundles
          BY <4>3 DEF Bundles
        <4> QED
          BY <2>3, <4>3, <4>4, <4>5 DEF Bare
      <3> QED
        BY <1>6, <3>1, <3>2, <3>3
    <2>5. AfterSteps(j, n + 1, b, docker)
      BY <1>4, <1>6, <2>3, <2>4
    <2> QED
      BY <1>3, <2>2, <2>3, <2>4, <2>5 DEF Advanced, s
  <1> QED
    BY <1>1, <1>5, <1>6

\* Any command that works.
LEMMA CommandStep ==
  ASSUME bundle \in Bundles, docker \in Dockers, NEW j, Begun(j), j.at = "work",
         NEW t \in Seq(Images), Restorables(j, docker, t),
         NEW n \in 0 .. Len(Course(j)) - 1, AfterSteps(j, n, bundle, docker)
  PROVE  Advanced(j, n, Course(j)[n + 1])
  <1>1. j.kind \in JobKinds
    BY DEF Begun
  <1>2. j.kind \in Restorable => (~j.up => ~docker.server.up)
    BY DEF Restorables
  <1> QED
    BY <1>1, <1>2, SetupStep, ConfigureStep, CredentialsStep, ExchangeStep, StartStep, StopStep,
       PurgeStep DEF JobKinds, Restorable

\* A step of a restoration.
LEMMA ReturnStep ==
  ASSUME bundle \in Bundles, docker \in Dockers, NEW j, Begun(j), j.at = "restore",
         j.kind \in Restorable, NEW t, Restorables(j, docker, t),
         NEW n \in 0 .. Len(WayBack(j)) - 1, AfterReturn(j, n, bundle, docker)
  PROVE  LET s == WayBack(j)[n + 1]
         IN /\ Written(j, s) \in Bundles /\ Composed(s) \in Dockers
            /\ ~j.up => ~Composed(s).server.up
            /\ AfterReturn(j, n + 1, Written(j, s), Composed(s))
  <1> DEFINE m == IF j.kind = "credentials" THEN n - 1 ELSE n
             s == WayBack(j)[n + 1]
  <1>1. /\ m \in {-1, 0, 1} /\ (m = -1 => s = "manifest" /\ j.kind = "credentials")
        /\ (m = 0 => s = "secrets") /\ (m = 1 => s = "up" /\ j.up)
    <2>1. CASE j.kind = "credentials"
      <3>1. WayBack(j) = IF j.up THEN <<"manifest", "secrets", "up">> ELSE <<"manifest", "secrets">>
        BY <2>1 DEF WayBack
      <3>2. CASE j.up
        BY <2>1, <3>1, <3>2
      <3>3. CASE ~j.up
        BY <2>1, <3>1, <3>3
      <3> QED
        BY <3>2, <3>3
    <2>2. CASE j.kind = "configure"
      <3>1. WayBack(j) = IF j.up THEN <<"secrets", "up">> ELSE << >>
        BY <2>2 DEF WayBack
      <3>2. CASE j.up
        BY <2>2, <3>1, <3>2
      <3>3. CASE ~j.up
        BY <2>2, <3>1, <3>3
      <3> QED
        BY <3>2, <3>3
    <2>3. CASE j.kind \in {"update", "rollback"}
      <3>1. WayBack(j) = IF j.up THEN <<"secrets", "up">> ELSE <<"secrets">>
        BY <2>3 DEF WayBack
      <3>2. CASE j.up
        BY <2>3, <3>1, <3>2
      <3>3. CASE ~j.up
        BY <2>3, <3>1, <3>3
      <3> QED
        BY <3>2, <3>3
    <2> QED
      BY <2>1, <2>2, <2>3 DEF Restorable
  <1>2. /\ bundle.past = j.old.past /\ Recorded(bundle) /\ bundle.manifest.image = j.spec.image
        /\ (m >= 1 => docker.secret = bundle.auth) /\ (m >= 2 => Serves(bundle, docker))
    BY DEF AfterReturn
  <1>3. ASSUME NEW b, NEW d,
               b.past = j.old.past, Recorded(b), b.manifest.image = j.spec.image,
               m + 1 >= 1 => d.secret = b.auth, m + 1 >= 2 => Serves(b, d)
        PROVE  AfterReturn(j, n + 1, b, d)
    <2>1. (IF j.kind = "credentials" THEN (n + 1) - 1 ELSE n + 1) = m + 1
      OBVIOUS
    <2> HIDE DEF m
    <2> QED
      BY <1>3, <2>1 DEF AfterReturn
  <1>4. ~j.up => ~docker.server.up
    BY DEF Restorables
  <1> HIDE DEF m, s
  <1>5. CASE m = -1
    <2> DEFINE b == Written(j, "manifest")
    <2>1. s = "manifest" /\ NewImage(j) = j.spec.image /\ j.spec.image \in Images
      BY <1>1, <1>5 DEF NewImage, Begun, BundleManifests
    <2>2. bundle.compose = [image |-> NewImage(j), conf |-> bundle.profile]
          /\ bundle.runtime = bundle.profile
      BY <1>2, <2>1 DEF Recorded
    <2>3. b \in Bundles /\ Recorded(b) /\ b.past = bundle.past /\ b.manifest.image = j.spec.image
      BY <2>1, <2>2, ReceiptRecords
    <2>4. Composed("manifest") = docker
      BY DockerEffects DEF FileSteps
    <2> HIDE DEF b
    <2>5. AfterReturn(j, n + 1, b, docker)
      BY <1>2, <1>3, <1>5, <2>3
    <2> QED
      BY <1>4, <2>1, <2>3, <2>4, <2>5 DEF b, s
  <1>6. CASE m = 0
    <2> DEFINE d == Composed("secrets")
    <2>1. s = "secrets" /\ Written(j, "secrets") = bundle
      BY <1>1, <1>6, WriteEffects
    <2>2. d \in Dockers /\ d.secret = bundle.auth /\ d.server = docker.server
      BY SecretsStored
    <2> HIDE DEF d
    <2>3. AfterReturn(j, n + 1, bundle, d)
      BY <1>2, <1>3, <1>6, <2>2
    <2> QED
      BY <1>4, <2>1, <2>2, <2>3 DEF d, s
  <1>7. CASE m = 1
    <2> DEFINE d == Composed("up")
    <2>1. s = "up" /\ Written(j, "up") = bundle /\ j.up /\ d.secret = docker.secret
      BY <1>1, <1>7, WriteEffects, DockerEffects
    <2>2. d \in Dockers /\ Serves(bundle, d)
      BY <1>2, <1>7, StartsRecorded
    <2> HIDE DEF d
    <2>3. AfterReturn(j, n + 1, bundle, d)
      BY <1>2, <1>3, <1>7, <2>1, <2>2
    <2> QED
      BY <2>1, <2>2, <2>3 DEF d, s
  <1> QED
    BY <1>1, <1>5, <1>6, <1>7

\* A restoration that has taken all its steps.
LEMMA ReturnEnds ==
  ASSUME NEW j, Begun(j), j.kind \in Restorable, NEW b, NEW d, NEW t, Restorables(j, d, t),
         AfterReturn(j, Len(WayBack(j)), b, d)
  PROVE  Truthful(b, d) /\ IsSuffix(b.past, t)
  <1>1. Recorded(b) /\ b.past = j.old.past
    BY DEF AfterReturn
  <1>2. CASE j.up
    <2>1. Len(WayBack(j)) = IF j.kind = "credentials" THEN 3 ELSE 2
      <3>1. WayBack(j) = IF j.kind = "credentials" THEN <<"manifest", "secrets", "up">>
                         ELSE <<"secrets", "up">>
        BY <1>2 DEF WayBack, Restorable
      <3> QED
        BY <3>1
    <2> QED
      BY <1>1, <2>1, ComposeAssumption DEF AfterReturn, Truthful, Recorded, Restorables
  <1>3. CASE ~j.up
    BY <1>1, <1>3, ComposeAssumption DEF Restorables, Truthful, Recorded, Serves
  <1> QED
    BY <1>2, <1>3

\* A purge has four steps.
LEMMA CoursePurge ==
  ASSUME NEW j, j.kind = "purge"
  PROVE  Len(Course(j)) = 4
  <1>1. Course(j) = <<"down_volumes", "remove_files", "unregister", "remove_manifest">>
    BY DEF Course
  <1> QED
    BY <1>1

\* A command that has taken all its steps.
LEMMA CommandEnds ==
  ASSUME NEW j, Begun(j), j.at = "work", NEW b, NEW d, NEW t \in Seq(Images), Restorables(j, d, t),
         j.kind \notin Restorable => IsSuffix(b.past, t),
         AfterSteps(j, Len(Course(j)), b, d)
  PROVE  /\ Settled(b, d)
         /\ j.kind \in {"update", "rollback"} =>
              IsSuffix(b.past, Superseded(j, t)) /\ Superseded(j, t) \in Seq(Images)
         /\ j.kind \notin {"update", "rollback"} => IsSuffix(b.past, t)
         /\ j.kind = "purge" => IsSuffix(b.past, << >>)
  <1>0. j.kind \in JobKinds
    BY DEF Begun
  <1>1. ASSUME Recorded(b), Serves(b, d)
        PROVE  Settled(b, d)
    BY <1>1, ComposeAssumption DEF Settled, Truthful, Recorded
  <1>2. j.kind \in Restorable => IsSuffix(j.old.past, t) /\ (~j.up => Serves(b, d))
    BY DEF Restorables, Serves
  <1>3. CASE j.kind = "setup"
    <2>1. Len(Course(j)) = 8
      <3>1. Course(j) =
              <<"auth", "profile", "runtime", "compose", "manifest", "secrets", "up", "reveal">>
        BY <1>3 DEF Course
      <3> QED
        BY <3>1
    <2> QED
      BY <1>1, <1>3, <2>1 DEF AfterSteps, Restorable
  <1>4. CASE j.kind = "configure"
    <2>1. Len(Course(j)) = IF j.up THEN 6 ELSE 4
      <3>1. Course(j) = IF j.up THEN <<"profile", "runtime", "compose", "manifest", "secrets", "up">>
                        ELSE <<"profile", "runtime", "compose", "manifest">>
        BY <1>4 DEF Course
      <3> QED
        BY <3>1
    <2> QED
      BY <1>1, <1>2, <1>4, <2>1 DEF AfterSteps, Restorable
  <1>5. CASE j.kind = "credentials"
    <2>1. Len(Course(j)) = IF j.up THEN 4 ELSE 3
      <3>1. Course(j) = IF j.up THEN <<"auth", "manifest", "secrets", "up">>
                        ELSE <<"auth", "manifest", "secrets">>
        BY <1>5 DEF Course
      <3> QED
        BY <3>1
    <2> QED
      BY <1>1, <1>2, <1>5, <2>1 DEF AfterSteps, Restorable
  <1>6. CASE j.kind \in {"update", "rollback"}
    <2>1. Len(Course(j)) = IF j.up THEN 6 ELSE 5
      <3>1. Course(j) = IF j.up THEN <<"compose", "manifest", "secrets", "up", "past", "manifest">>
                        ELSE <<"compose", "manifest", "secrets", "past", "manifest">>
        BY <1>6 DEF Course
      <3> QED
        BY <3>1
    <2>2. b.past = Window(Superseded(j, j.old.past)) /\ Recorded(b) /\ (j.up => Serves(b, d))
      <3>1. CASE j.up
        <4>1. AfterSteps(j, 6, b, d)
          BY <2>1, <3>1
        <4>2. ExchangeEnd(j) = 4
          BY <3>1 DEF ExchangeEnd
        <4>3. /\ b.past = IF 6 > ExchangeEnd(j) THEN Window(Superseded(j, j.old.past)) ELSE j.old.past
              /\ 6 >= 2 => Recorded(b)
              /\ 6 >= 4 /\ j.up => Serves(b, d)
          BY <1>6, <4>1 DEF AfterSteps
        <4> QED
          BY <3>1, <4>2, <4>3
      <3>2. CASE ~j.up
        <4>1. AfterSteps(j, 5, b, d)
          BY <2>1, <3>2
        <4>2. ExchangeEnd(j) = 3
          BY <3>2 DEF ExchangeEnd
        <4>3. /\ b.past = IF 5 > ExchangeEnd(j) THEN Window(Superseded(j, j.old.past)) ELSE j.old.past
              /\ 5 >= 2 => Recorded(b)
              /\ 5 >= 4 /\ j.up => Serves(b, d)
          BY <1>6, <4>1 DEF AfterSteps
        <4> QED
          BY <3>2, <4>2, <4>3
      <3> QED
        BY <3>1, <3>2
    <2>3. IsSuffix(b.past, Superseded(j, t)) /\ Superseded(j, t) \in Seq(Images)
      BY <1>6, <2>2, SupersededSuffix
    <2>4. j.kind # "purge"
      BY <1>6
    <2> QED
      BY <1>1, <1>2, <1>6, <2>2, <2>3, <2>4 DEF Restorable
  <1>7. CASE j.kind \in {"start", "stop", "uninstall"}
    BY <1>1, <1>7 DEF AfterSteps, Restorable
  <1>8. CASE j.kind = "purge"
    <2>1. Bare(b, d)
      <3>1. AfterSteps(j, 4, b, d)
        BY <1>8, CoursePurge
      <3> QED
        BY <1>8, <3>1 DEF AfterSteps
    <2>2. b.past = << >>
      BY <2>1 DEF Bare
    <2>3. IsSuffix(b.past, << >>)
      <3>1. << >> \in Seq(Images)
        OBVIOUS
      <3> QED
        BY <2>2, <3>1, EmptySuffix
    <2> QED
      BY <1>8, <2>1, <2>3 DEF Restorable, Settled
  <1> QED
    BY <1>0, <1>3, <1>4, <1>5, <1>6, <1>7, <1>8 DEF JobKinds

\* Only an exchange writes the history; a purge removes it.
LEMMA PastKept ==
  ASSUME bundle \in Bundles, NEW j, NEW s \in ComposeSteps \ {"past"}
  PROVE  Written(j, s).past \in {bundle.past, << >>}
  <1>1. CASE s \in {"auth", "profile", "runtime", "compose", "manifest", "secrets", "up", "stop",
                    "down", "down_volumes", "remove_files", "unregister", "remove_manifest"}
    BY <1>1, WriteEffects
  <1>2. CASE s = "reveal"
    <2> DEFINE m == [bundle.manifest EXCEPT !.revealed = TRUE]
    <2>1. Written(j, s) = [bundle EXCEPT !.manifest.revealed = TRUE]
      BY <1>2 DEF Written
    <2>2. [bundle EXCEPT !.manifest.revealed = TRUE] = [bundle EXCEPT !.manifest = m]
      OBVIOUS
    <2> HIDE DEF m
    <2> QED
      BY <2>1, <2>2 DEF Bundles
  <1> QED
    BY <1>1, <1>2 DEF ComposeSteps

\* No other command has a step that writes the history.
LEMMA CoursePastless ==
  ASSUME NEW j, Begun(j), j.at = "work", j.kind \notin Restorable, NEW n \in 0 .. Len(Course(j)) - 1
  PROVE  Course(j)[n + 1] \in ComposeSteps \ {"past"}
  <1>1. CASE j.kind = "setup"
    <2>1. Course(j) =
            <<"auth", "profile", "runtime", "compose", "manifest", "secrets", "up", "reveal">>
      BY <1>1 DEF Course
    <2> QED
      BY <2>1 DEF ComposeSteps
  <1>2. CASE j.kind = "start"
    <2>1. Course(j) = <<"secrets", "up">> \/ Course(j) = <<"secrets", "up", "reveal">>
      BY <1>2 DEF Course
    <2>2. CASE Course(j) = <<"secrets", "up">>
      BY <2>2 DEF ComposeSteps
    <2>3. CASE Course(j) = <<"secrets", "up", "reveal">>
      BY <2>3 DEF ComposeSteps
    <2> QED
      BY <2>1, <2>2, <2>3
  <1>3. CASE j.kind = "stop"
    <2>1. Course(j) = <<"stop">>
      BY <1>3 DEF Course
    <2> QED
      BY <2>1 DEF ComposeSteps
  <1>4. CASE j.kind = "uninstall"
    <2>1. Course(j) = <<"down">>
      BY <1>4 DEF Course
    <2> QED
      BY <2>1 DEF ComposeSteps
  <1>5. CASE j.kind = "purge"
    <2>1. Course(j) = <<"down_volumes", "remove_files", "unregister", "remove_manifest">>
      BY <1>5 DEF Course
    <2> QED
      BY <2>1 DEF ComposeSteps
  <1> QED
    BY <1>1, <1>2, <1>3, <1>4, <1>5 DEF Begun, JobKinds, Restorable
-----------------------------------------------------------------------------
\* Who holds the lock goes on with a command.
LEMMA HolderMoves ==
  ASSUME ComposeFacts, NEW o \in Operators, job[o].at \in Busy, NEW x, Begun(x), x.at \in Busy,
         job' = [job EXCEPT ![o] = x], UNCHANGED <<holder, trail, tainted>>,
         bundle' \in Bundles, docker' \in Dockers, Worker(x, bundle', docker', trail)
  PROVE  ComposeFacts'
  <1>1. /\ DOMAIN job = Operators /\ holder = o /\ o # Nobody
        /\ \A p \in Operators : Begun(job[p]) /\ (job[p].at \in Busy <=> holder = p)
    BY ComposeAssumption DEF ComposeFacts, ComposeTyped
  <1>2. DOMAIN job' = Operators /\ job'[o] = x /\ \A p \in Operators : p # o => job'[p] = job[p]
    BY <1>1
  <1>3. \A p \in Operators : Begun(job'[p]) /\ (job'[p].at \in Busy <=> holder' = p)
    BY <1>1, <1>2
  <1>4. ComposeTyped'
    BY <1>2, <1>3 DEF ComposeFacts, ComposeTyped, Begun
  <1> QED
    BY <1>1, <1>2, <1>3, <1>4 DEF ComposeFacts

\* An operator without a command.
LEMMA NoJobBegun == Begun(NoJob) /\ NoJob.at \notin Busy
  <1>1. EmptyBundle \in Bundles
    BY DEF EmptyBundle, Bundles
  <1>2. << >> \in Seq(ComposeSteps)
    OBVIOUS
  <1> QED
    BY <1>1, <1>2 DEF NoJob, Begun, Busy, Phases

\* A command is left, and the lock with it.
LEMMA HolderEnds ==
  ASSUME ComposeFacts, NEW o \in Operators, job[o].at \in Busy, EndJob(o), UNCHANGED tainted,
         bundle' \in Bundles, docker' \in Dockers, trail' \in Seq(Images),
         Settled(bundle', docker'), IsSuffix(bundle'.past, trail')
  PROVE  ComposeFacts'
  <1>1. /\ DOMAIN job = Operators /\ holder = o
        /\ \A p \in Operators : Begun(job[p]) /\ (job[p].at \in Busy <=> holder = p)
    BY DEF ComposeFacts, ComposeTyped
  <1>2. DOMAIN job' = Operators /\ job'[o] = NoJob /\ \A p \in Operators : p # o => job'[p] = job[p]
    BY <1>1 DEF EndJob
  <1>3. Begun(NoJob) /\ NoJob.at \notin Busy
    BY NoJobBegun
  <1>4. holder' = Nobody /\ Nobody \notin Operators
    BY ComposeAssumption DEF EndJob
  <1>5. \A p \in Operators : Begun(job'[p]) /\ job'[p].at \notin Busy
    BY <1>1, <1>2, <1>3
  <1>6. ComposeTyped'
    BY <1>2, <1>4, <1>5 DEF ComposeFacts, ComposeTyped
  <1> QED
    BY <1>4, <1>5, <1>6 DEF ComposeFacts

\* An operator who does not hold the lock prepares a command, or gives it up.
LEMMA BesideHolder ==
  ASSUME ComposeFacts, NEW o \in Operators, job[o].at \notin Busy, NEW x, Begun(x), x.at \notin Busy,
         job' = [job EXCEPT ![o] = x], UNCHANGED <<bundle, docker, holder, trail, tainted>>
  PROVE  ComposeFacts'
  <1>1. /\ DOMAIN job = Operators /\ holder # o /\ holder \in Operators \cup {Nobody}
        /\ \A p \in Operators : Begun(job[p]) /\ (job[p].at \in Busy <=> holder = p)
    BY DEF ComposeFacts, ComposeTyped
  <1>2. DOMAIN job' = Operators /\ job'[o] = x /\ \A p \in Operators : p # o => job'[p] = job[p]
    BY <1>1
  <1>3. \A p \in Operators : Begun(job'[p]) /\ (job'[p].at \in Busy <=> holder' = p)
    BY <1>1, <1>2
  <1>4. ComposeTyped'
    BY <1>2, <1>3 DEF ComposeFacts, ComposeTyped
  <1>5. holder # Nobody => job'[holder] = job[holder]
    BY <1>1, <1>2
  <1> QED
    BY <1>3, <1>4, <1>5 DEF ComposeFacts

\* A command that takes the lock, field by field.
LEMMA TakenFields ==
  ASSUME NEW r, Begun(r), NEW b, NEW u
  PROVE  [r EXCEPT !.at = "work", !.old = b, !.up = u] =
           [kind |-> r.kind, at |-> "work", arg |-> r.arg, spec |-> r.spec, text |-> r.text,
            up |-> u, old |-> b, todo |-> r.todo]
  <1> DEFINE one == [kind |-> r.kind, at |-> "work", arg |-> r.arg, spec |-> r.spec, text |-> r.text,
                     up |-> r.up, old |-> r.old, todo |-> r.todo]
             two == [kind |-> r.kind, at |-> "work", arg |-> r.arg, spec |-> r.spec, text |-> r.text,
                     up |-> r.up, old |-> b, todo |-> r.todo]
  <1>1. [r EXCEPT !.at = "work"] = one
    BY DEF Begun
  <1>2. [one EXCEPT !.old = b] = two
    OBVIOUS
  <1>3. [two EXCEPT !.up = u] =
          [kind |-> r.kind, at |-> "work", arg |-> r.arg, spec |-> r.spec, text |-> r.text,
           up |-> u, old |-> b, todo |-> r.todo]
    OBVIOUS
  <1> HIDE DEF one, two
  <1>4. [r EXCEPT !.at = "work", !.old = b, !.up = u] =
          [[[r EXCEPT !.at = "work"] EXCEPT !.old = b] EXCEPT !.up = u]
    OBVIOUS
  <1> QED
    BY <1>1, <1>2, <1>3, <1>4

\* A deployment that its commands own, or that there is none of, is a truthful one.
LEMMA OwnedIsTruthful ==
  ASSUME Settled(bundle, docker), bundle.manifest # Nothing => Owned
  PROVE  Truthful(bundle, docker)
  <1>1. CASE Truthful(bundle, docker)
    BY <1>1
  <1>2. CASE Bare(bundle, docker)
    <2>1. bundle.compose = Nothing /\ bundle.past = << >> /\ docker = Emptied
          /\ (bundle.manifest # Nothing => bundle.manifest.receipt # Nothing)
      BY <1>2 DEF Bare
    <2>2. bundle.manifest = Nothing
      BY <2>1 DEF Owned
    <2> QED
      BY <2>1, <2>2, EmptyTyped DEF Truthful
  <1> QED
    BY <1>1, <1>2 DEF Settled

\* The lock is taken only when the bundle is as it was read; what was true of it still is.
LEMMA TakesBundle ==
  ASSUME ComposeFacts, NEW o \in Operators, AcquireBundle(o)
  PROVE  ComposeFacts'
  <1>1. /\ bundle \in Bundles /\ docker \in Dockers /\ trail \in Seq(Images)
        /\ DOMAIN job = Operators
        /\ \A p \in Operators : Begun(job[p]) /\ job[p].at \notin Busy
        /\ Truthful(bundle, docker) /\ IsSuffix(bundle.past, trail) /\ tainted = FALSE
    <2>1. holder = Nobody /\ Workable(job[o])
      BY DEF AcquireBundle
    <2>2. bundle.manifest # Nothing => Owned
      BY <2>1 DEF Workable
    <2>3. Settled(bundle, docker)
      BY <2>1 DEF ComposeFacts
    <2>4. Truthful(bundle, docker)
      BY <2>2, <2>3, OwnedIsTruthful
    <2> QED
      BY <2>1, <2>4, ComposeAssumption DEF ComposeFacts, ComposeTyped
  <1> DEFINE r == job[o]
             up == IF r.kind = "start" THEN r.up ELSE docker.server.up
             j == [r EXCEPT !.at = "work", !.old = bundle, !.up = up]
             x == [j EXCEPT !.todo = ProgramOf(j)]
  <1>2. /\ job' = [job EXCEPT ![o] = x] /\ holder' = o /\ r.at = "prepared" /\ Workable(r)
        /\ UNCHANGED <<bundle, docker, trail, tainted>>
    BY DEF AcquireBundle
  <1>3. Begun(r)
    BY <1>1
  <1>4. up \in BOOLEAN
    BY <1>1, <1>3 DEF Begun, Dockers, Containers
  <1> HIDE DEF up
  <1>5. /\ j = [kind |-> r.kind, at |-> "work", arg |-> r.arg, spec |-> r.spec, text |-> r.text,
                up |-> up, old |-> bundle, todo |-> r.todo]
    BY <1>3, TakenFields
  <1> HIDE DEF j
  <1>6. j.kind = r.kind /\ j.at = "work" /\ j.arg = r.arg /\ j.spec = r.spec /\ j.up = up
        /\ j.old = bundle
    BY <1>5
  <1>7. ProgramOf(j) = Course(j) /\ Course(j) \in Seq(ComposeSteps)
    BY <1>2, <1>3, <1>4, <1>6, CourseIs DEF Begun
  <1> DEFINE P == ProgramOf(j)
  <1>8. x = [kind |-> r.kind, at |-> "work", arg |-> r.arg, spec |-> r.spec, text |-> r.text,
             up |-> up, old |-> bundle, todo |-> P]
    BY <1>5
  <1> HIDE DEF P, x
  <1>9. /\ x.kind = r.kind /\ x.at = "work" /\ x.arg = r.arg /\ x.spec = r.spec /\ x.up = up
        /\ x.old = bundle /\ x.todo = P
    BY <1>8
  <1>10. Course(x) = Course(j)
    BY <1>6, <1>9 DEF Course
  <1>11. Begun(x)
    <2>1. P \in Seq(ComposeSteps)
      BY <1>7 DEF P
    <2>2. /\ r.kind \in JobKinds \cup {"none"}
          /\ r.arg \in Images \cup Configs \cup Secrets \cup {Nothing}
          /\ r.spec \in BundleManifests \cup {Nothing} /\ r.text \in Configs \cup {Nothing}
      BY <1>3 DEF Begun
    <2>3. x \in [kind : JobKinds \cup {"none"}, at : Phases,
                 arg : Images \cup Configs \cup Secrets \cup {Nothing},
                 spec : BundleManifests \cup {Nothing}, text : Configs \cup {Nothing}, up : BOOLEAN,
                 old : Bundles, todo : Seq(ComposeSteps)]
      BY <1>1, <1>4, <1>8, <2>1, <2>2 DEF Phases
    <2> QED
      BY <1>2, <1>3, <1>9, <2>3 DEF Begun
  <1>12. r.kind \in JobKinds /\ (r.kind # "setup" => bundle.manifest = r.spec /\ r.spec \in BundleManifests)
         /\ (r.kind = "setup" => bundle.manifest = Nothing)
         /\ (r.kind = "rollback" => bundle.past # << >>)
    BY <1>2, <1>3 DEF Workable, StillAsRead, Begun
  <1>13. r.kind # "setup" => Recorded(bundle) /\ Serves(bundle, docker)
    BY <1>1, <1>12, ComposeAssumption DEF Truthful
  <1>14. r.kind = "setup" => bundle.past = << >> /\ ~docker.server.up
    BY <1>1, <1>12 DEF Truthful
  <1>15. Restorables(x, docker, trail)
    <2>1. ASSUME x.kind \in Restorable
          PROVE  x.kind # "setup" /\ x.kind # "start"
      BY <2>1 DEF Restorable
    <2>2. x.kind # "start" => (x.up = docker.server.up)
      BY <1>9 DEF up
    <2> QED
      BY <1>1, <1>9, <1>12, <1>13, <2>1, <2>2 DEF Restorables
  <1>16. AfterSteps(x, 0, bundle, docker)
    <2>1. CASE r.kind = "setup"
      BY <1>9, <1>12, <1>14, <2>1 DEF AfterSteps
    <2>2. CASE r.kind = "configure"
      BY <1>9, <2>2 DEF AfterSteps
    <2>3. CASE r.kind = "credentials"
      BY <1>9, <1>12, <1>13, <2>3 DEF AfterSteps
    <2>4. CASE r.kind \in {"update", "rollback"}
      <3>1. x.kind \in {"update", "rollback"} /\ ExchangeEnd(x) \in {3, 4} /\ Recorded(bundle)
        BY <1>9, <1>13, <2>4 DEF ExchangeEnd
      <3>2. ~(0 > ExchangeEnd(x)) /\ bundle.runtime = bundle.profile /\ bundle.past = x.old.past
        BY <1>9, <3>1 DEF Recorded
      <3>3. CASE x.kind = "update"
        BY <3>2, <3>3 DEF AfterSteps
      <3>4. CASE x.kind = "rollback"
        BY <3>2, <3>4 DEF AfterSteps
      <3> QED
        BY <3>1, <3>3, <3>4
    <2>5. CASE r.kind \in {"start", "stop", "uninstall"}
      <3>1. x.kind \in {"start", "stop", "uninstall"} /\ Recorded(bundle) /\ Serves(bundle, docker)
        BY <1>9, <1>13, <2>5
      <3>2. CASE x.kind = "start"
        BY <3>1, <3>2 DEF AfterSteps
      <3>3. CASE x.kind = "stop"
        BY <3>1, <3>3 DEF AfterSteps
      <3>4. CASE x.kind = "uninstall"
        BY <3>1, <3>4 DEF AfterSteps
      <3> QED
        BY <3>1, <3>2, <3>3, <3>4
    <2>6. CASE r.kind = "purge"
      BY <1>1, <1>9, <2>6 DEF AfterSteps
    <2> QED
      BY <1>12, <2>1, <2>2, <2>3, <2>4, <2>5, <2>6 DEF JobKinds
  <1>17. EndOf(x.todo, Course(x)) /\ Len(Course(x)) - Len(x.todo) = 0
    BY <1>7, <1>9, <1>10, EndWhole DEF P
  <1>18. Worker(x, bundle, docker, trail)
    BY <1>1, <1>9, <1>15, <1>16, <1>17 DEF Worker, Progress
  <1>19. DOMAIN job' = Operators /\ job'[o] = x /\ \A p \in Operators : p # o => job'[p] = job[p]
    BY <1>1, <1>2
  <1>20. \A p \in Operators : Begun(job'[p]) /\ (job'[p].at \in Busy <=> holder' = p)
    BY <1>1, <1>2, <1>9, <1>11, <1>19 DEF Busy
  <1>21. ComposeTyped'
    BY <1>1, <1>2, <1>19, <1>20 DEF ComposeTyped
  <1>22. o # Nobody
    BY ComposeAssumption
  <1> QED
    BY <1>2, <1>18, <1>19, <1>20, <1>21, <1>22 DEF ComposeFacts

\* What is known of a command depends on what it was begun with only.
LEMMA SameCommand ==
  ASSUME NEW x, NEW r, x.kind = r.kind, x.arg = r.arg, x.spec = r.spec, x.up = r.up, x.old = r.old
  PROVE  /\ Course(x) = Course(r) /\ WayBack(x) = WayBack(r)
         /\ \A n, b, d : AfterSteps(x, n, b, d) = AfterSteps(r, n, b, d)
         /\ \A n, b, d : AfterReturn(x, n, b, d) = AfterReturn(r, n, b, d)
         /\ \A d, t : Restorables(x, d, t) = Restorables(r, d, t)
  <1>1. Course(x) = Course(r)
    BY DEF Course
  <1>2. WayBack(x) = WayBack(r)
    BY DEF WayBack
  <1>3. ASSUME NEW n, NEW b, NEW d PROVE AfterSteps(x, n, b, d) = AfterSteps(r, n, b, d)
    BY DEF AfterSteps, NewImage, Superseded, ExchangeEnd
  <1>4. ASSUME NEW n, NEW b, NEW d PROVE AfterReturn(x, n, b, d) = AfterReturn(r, n, b, d)
    BY DEF AfterReturn
  <1>5. ASSUME NEW d, NEW t PROVE Restorables(x, d, t) = Restorables(r, d, t)
    BY DEF Restorables
  <1> QED
    BY <1>1, <1>2, <1>3, <1>4, <1>5

\* A command that is moved on keeps what it was begun with.
LEMMA MovedOn ==
  ASSUME NEW r, Begun(r), NEW phase \in Busy, r.at \in Busy, NEW q \in Seq(ComposeSteps), NEW x,
         x = [kind |-> r.kind, at |-> phase, arg |-> r.arg, spec |-> r.spec, text |-> r.text,
              up |-> r.up, old |-> r.old, todo |-> q]
  PROVE  /\ Begun(x) /\ x.at = phase /\ x.todo = q /\ x.kind = r.kind /\ x.arg = r.arg
         /\ x.spec = r.spec /\ x.up = r.up /\ x.old = r.old
  <1>1. /\ x.at = phase /\ x.todo = q /\ x.kind = r.kind /\ x.arg = r.arg
        /\ x.spec = r.spec /\ x.up = r.up /\ x.old = r.old
    OBVIOUS
  <1>2. /\ r.kind \in JobKinds \cup {"none"}
        /\ r.arg \in Images \cup Configs \cup Secrets \cup {Nothing}
        /\ r.spec \in BundleManifests \cup {Nothing} /\ r.text \in Configs \cup {Nothing}
        /\ r.up \in BOOLEAN /\ r.old \in Bundles /\ phase \in Phases
    BY DEF Begun, Busy, Phases
  <1>3. x \in [kind : JobKinds \cup {"none"}, at : Phases,
               arg : Images \cup Configs \cup Secrets \cup {Nothing},
               spec : BundleManifests \cup {Nothing}, text : Configs \cup {Nothing}, up : BOOLEAN,
               old : Bundles, todo : Seq(ComposeSteps)]
    BY <1>2
  <1> QED
    BY <1>1, <1>3 DEF Begun, Busy

\* A command that is moved on, field by field.
LEMMA MovedFields ==
  ASSUME NEW r, Begun(r), NEW a, NEW q
  PROVE  /\ [r EXCEPT !.todo = q] =
              [kind |-> r.kind, at |-> r.at, arg |-> r.arg, spec |-> r.spec, text |-> r.text,
               up |-> r.up, old |-> r.old, todo |-> q]
         /\ [r EXCEPT !.at = a] =
              [kind |-> r.kind, at |-> a, arg |-> r.arg, spec |-> r.spec, text |-> r.text,
               up |-> r.up, old |-> r.old, todo |-> r.todo]
         /\ [r EXCEPT !.at = a, !.todo = q] =
              [kind |-> r.kind, at |-> a, arg |-> r.arg, spec |-> r.spec, text |-> r.text,
               up |-> r.up, old |-> r.old, todo |-> q]
  <1>1. [r EXCEPT !.todo = q] =
              [kind |-> r.kind, at |-> r.at, arg |-> r.arg, spec |-> r.spec, text |-> r.text,
               up |-> r.up, old |-> r.old, todo |-> q]
    BY DEF Begun
  <1>2. [r EXCEPT !.at = a] =
              [kind |-> r.kind, at |-> a, arg |-> r.arg, spec |-> r.spec, text |-> r.text,
               up |-> r.up, old |-> r.old, todo |-> r.todo]
    BY DEF Begun
  <1> DEFINE y == [kind |-> r.kind, at |-> a, arg |-> r.arg, spec |-> r.spec, text |-> r.text,
                   up |-> r.up, old |-> r.old, todo |-> r.todo]
  <1>3. [y EXCEPT !.todo = q] =
              [kind |-> r.kind, at |-> a, arg |-> r.arg, spec |-> r.spec, text |-> r.text,
               up |-> r.up, old |-> r.old, todo |-> q]
    OBVIOUS
  <1>4. [r EXCEPT !.at = a, !.todo = q] = [[r EXCEPT !.at = a] EXCEPT !.todo = q]
    OBVIOUS
  <1>5. [r EXCEPT !.at = a] = y
    BY <1>2
  <1> HIDE DEF y
  <1> QED
    BY <1>1, <1>2, <1>3, <1>4, <1>5

\* The holder of the lock, and what is known of its command.
LEMMA HolderKnown ==
  ASSUME ComposeFacts, NEW o \in Operators, job[o].at \in Busy
  PROVE  /\ Begun(job[o]) /\ Worker(job[o], bundle, docker, trail) /\ holder = o
         /\ bundle \in Bundles /\ docker \in Dockers /\ trail \in Seq(Images)
         /\ DOMAIN job = Operators /\ tainted = FALSE
  <1>1. holder = o /\ o # Nobody
    BY ComposeAssumption DEF ComposeFacts
  <1> QED
    BY <1>1 DEF ComposeFacts, ComposeTyped

\* A step is done.
LEMMA WorkMoves ==
  ASSUME ComposeFacts, NEW o \in Operators, DoStep(o)
  PROVE  ComposeFacts'
  <1> DEFINE r == job[o]
             x == [r EXCEPT !.todo = Tail(r.todo)]
             P == Course(r)
             n == Len(P) - Len(r.todo)
             s == Head(r.todo)
  <1>1. /\ r.at = "work" /\ r.todo # << >> /\ bundle' = Written(r, s) /\ docker' = Composed(s)
        /\ job' = [job EXCEPT ![o] = x] /\ UNCHANGED <<holder, trail, tainted>>
    BY DEF DoStep
  <1>2. r.at \in Busy
    BY <1>1 DEF Busy
  <1>3. /\ Begun(r) /\ Worker(r, bundle, docker, trail) /\ bundle \in Bundles /\ docker \in Dockers
        /\ trail \in Seq(Images)
    BY <1>2, HolderKnown
  <1>4. P \in Seq(ComposeSteps) /\ r.todo \in Seq(ComposeSteps)
    BY <1>1, <1>3, CourseIs DEF Begun
  <1>5. /\ Restorables(r, docker, trail) /\ EndOf(r.todo, P) /\ AfterSteps(r, n, bundle, docker)
        /\ (r.kind \notin Restorable => IsSuffix(bundle.past, trail))
    BY <1>1, <1>3 DEF Worker, Progress
  <1>6. /\ EndOf(Tail(r.todo), P) /\ Len(P) - Len(Tail(r.todo)) = n + 1
        /\ n \in 0 .. Len(P) - 1 /\ s = P[n + 1]
    BY <1>1, <1>4, <1>5, EndTail
  <1>7. Advanced(r, n, s)
    BY <1>1, <1>3, <1>5, <1>6, CommandStep
  <1>8. /\ bundle' \in Bundles /\ docker' \in Dockers /\ AfterSteps(r, n + 1, bundle', docker')
        /\ r.kind \in Restorable /\ ~r.up => ~docker'.server.up
    BY <1>1, <1>7 DEF Advanced, Settled
  <1>9. Tail(r.todo) \in Seq(ComposeSteps)
    BY <1>6 DEF EndOf
  <1>10. r.kind \notin Restorable => IsSuffix(bundle'.past, trail)
    <2>1. CASE r.kind \notin Restorable
      <3>1. s \in ComposeSteps \ {"past"}
        BY <1>1, <1>3, <1>6, <2>1, CoursePastless
      <3>2. bundle'.past \in {bundle.past, << >>}
        BY <1>1, <1>3, <3>1, PastKept
      <3> QED
        BY <1>3, <1>5, <2>1, <3>2, EmptySuffix
    <2> QED
      BY <2>1
  <1>11. Restorables(r, docker', trail)
    BY <1>5, <1>8 DEF Restorables
  <1> HIDE DEF n, P, s
  <1>12. x = [kind |-> r.kind, at |-> r.at, arg |-> r.arg, spec |-> r.spec, text |-> r.text,
              up |-> r.up, old |-> r.old, todo |-> Tail(r.todo)]
    BY <1>3, MovedFields
  <1> HIDE DEF x
  <1>13. /\ Begun(x) /\ x.at = "work" /\ x.todo = Tail(r.todo) /\ x.kind = r.kind /\ x.arg = r.arg
         /\ x.spec = r.spec /\ x.up = r.up /\ x.old = r.old
    BY <1>1, <1>2, <1>3, <1>9, <1>12, MovedOn
  <1>14. Course(x) = P /\ AfterSteps(x, n + 1, bundle', docker') /\ Restorables(x, docker', trail)
    BY <1>8, <1>11, <1>13, SameCommand DEF P
  <1>15. Worker(x, bundle', docker', trail)
    BY <1>6, <1>10, <1>13, <1>14 DEF Worker, Progress
  <1>16. x.at \in Busy
    BY <1>13 DEF Busy
  <1> QED
    BY <1>1, <1>2, <1>8, <1>13, <1>15, <1>16, HolderMoves

\* A step fails, and may have come any distance.
LEMMA WorkFails ==
  ASSUME ComposeFacts, NEW o \in Operators, StepFails(o)
  PROVE  ComposeFacts'
  <1> DEFINE r == job[o]
             x == [r EXCEPT !.at = "failed"]
             P == Course(r)
             n == Len(P) - Len(r.todo)
             s == Head(r.todo)
  <1>1. /\ r.at = "work" /\ r.todo # << >> /\ bundle' = bundle /\ docker' \in ComposedPartly(s)
        /\ job' = [job EXCEPT ![o] = x] /\ UNCHANGED <<holder, trail, tainted>>
    BY DEF StepFails
  <1>2. r.at \in Busy
    BY <1>1 DEF Busy
  <1>3. /\ Begun(r) /\ Worker(r, bundle, docker, trail) /\ bundle \in Bundles /\ docker \in Dockers
        /\ trail \in Seq(Images)
    BY <1>2, HolderKnown
  <1>4. P \in Seq(ComposeSteps) /\ r.todo \in Seq(ComposeSteps)
    BY <1>1, <1>3, CourseIs DEF Begun
  <1>5. /\ Restorables(r, docker, trail) /\ EndOf(r.todo, P) /\ AfterSteps(r, n, bundle, docker)
        /\ (r.kind \notin Restorable => IsSuffix(bundle.past, trail))
    BY <1>1, <1>3 DEF Worker, Progress
  <1>6. n \in 0 .. Len(P) - 1 /\ s = P[n + 1]
    BY <1>1, <1>4, <1>5, EndTail
  <1>7. Advanced(r, n, s)
    BY <1>1, <1>3, <1>5, <1>6, CommandStep
  <1>8. /\ docker' \in Dockers
        /\ r.kind \in Restorable /\ ~r.up => ~docker'.server.up
        /\ r.kind \notin Restorable => Settled(bundle, docker')
    BY <1>1, <1>7 DEF Advanced
  <1>9. r.kind = "credentials" =>
          Recorded(bundle) /\ bundle.past = r.old.past /\ bundle.manifest.image = r.spec.image
    BY <1>5 DEF AfterSteps
  <1>10. Restorables(r, docker', trail)
    BY <1>5, <1>8 DEF Restorables
  <1> HIDE DEF n, P, s
  <1>12. x = [kind |-> r.kind, at |-> "failed", arg |-> r.arg, spec |-> r.spec, text |-> r.text,
              up |-> r.up, old |-> r.old, todo |-> r.todo]
    BY <1>3, MovedFields
  <1> HIDE DEF x
  <1>13. "failed" \in Busy
    BY DEF Busy
  <1>14. /\ Begun(x) /\ x.at = "failed" /\ x.kind = r.kind /\ x.arg = r.arg
         /\ x.spec = r.spec /\ x.up = r.up /\ x.old = r.old
    BY <1>2, <1>3, <1>4, <1>12, <1>13, MovedOn
  <1>15. Restorables(x, docker', trail)
    BY <1>10, <1>14, SameCommand
  <1>16. Worker(x, bundle', docker', trail)
    BY <1>1, <1>5, <1>8, <1>9, <1>14, <1>15 DEF Worker, Progress
  <1> QED
    BY <1>1, <1>2, <1>3, <1>8, <1>13, <1>14, <1>16, HolderMoves

\* A command is complete.
LEMMA WorkEnds ==
  ASSUME ComposeFacts, NEW o \in Operators, Succeed(o)
  PROVE  ComposeFacts'
  <1> DEFINE r == job[o]
  <1>1. /\ r.at = "work" /\ r.todo = << >> /\ EndJob(o) /\ UNCHANGED <<bundle, docker, tainted>>
        /\ trail' = CASE r.kind \in {"update", "rollback"} -> Superseded(r, trail)
                      [] r.kind = "purge" -> << >>
                      [] OTHER -> trail
    BY DEF Succeed
  <1>2. r.at \in Busy
    BY <1>1 DEF Busy
  <1>3. /\ Begun(r) /\ Worker(r, bundle, docker, trail) /\ bundle \in Bundles /\ docker \in Dockers
        /\ trail \in Seq(Images)
    BY <1>2, HolderKnown
  <1>4. Course(r) \in Seq(ComposeSteps)
    BY <1>1, <1>3, CourseIs DEF Begun
  <1>5. /\ Restorables(r, docker, trail)
        /\ AfterSteps(r, Len(Course(r)) - Len(r.todo), bundle, docker)
        /\ (r.kind \notin Restorable => IsSuffix(bundle.past, trail))
    BY <1>1, <1>3 DEF Worker, Progress
  <1>6. Len(Course(r)) - Len(r.todo) = Len(Course(r))
    BY <1>1, <1>4
  <1>7. /\ Settled(bundle, docker)
        /\ r.kind \in {"update", "rollback"} =>
             IsSuffix(bundle.past, Superseded(r, trail)) /\ Superseded(r, trail) \in Seq(Images)
        /\ r.kind \notin {"update", "rollback"} => IsSuffix(bundle.past, trail)
        /\ r.kind = "purge" => IsSuffix(bundle.past, << >>)
    BY <1>1, <1>3, <1>5, <1>6, CommandEnds
  <1>8. trail' \in Seq(Images) /\ IsSuffix(bundle.past, trail')
    <2>1. CASE r.kind \in {"update", "rollback"}
      BY <1>1, <1>7, <2>1
    <2>2. CASE r.kind = "purge"
      BY <1>1, <1>7, <2>2
    <2>3. CASE r.kind \notin {"update", "rollback", "purge"}
      BY <1>1, <1>3, <1>7, <2>3
    <2> QED
      BY <2>1, <2>2, <2>3
  <1> QED
    BY <1>1, <1>2, <1>3, <1>7, <1>8, HolderEnds

\* The files are put back as they were.
LEMMA PutsBack ==
  ASSUME ComposeFacts, NEW o \in Operators, RestoreBundle(o)
  PROVE  ComposeFacts'
  <1> DEFINE r == job[o]
             x == [r EXCEPT !.at = "restore", !.todo = Recovery(r)]
  <1>1. /\ r.at = "failed" /\ r.kind \in Restorable /\ bundle' = PutBack(r)
        /\ job' = [job EXCEPT ![o] = x] /\ UNCHANGED <<docker, holder, trail, tainted>>
    BY DEF RestoreBundle
  <1>2. r.at \in Busy /\ "restore" \in Busy
    BY <1>1 DEF Busy
  <1>3. /\ Begun(r) /\ Worker(r, bundle, docker, trail) /\ bundle \in Bundles /\ docker \in Dockers
    BY <1>2, HolderKnown
  <1>4. Recovery(r) = WayBack(r) /\ WayBack(r) \in Seq(ComposeSteps)
    BY <1>1, <1>3, WayBackIs DEF Begun
  <1>5. /\ Restorables(r, docker, trail)
        /\ r.kind = "credentials" =>
             Recorded(bundle) /\ bundle.past = r.old.past /\ bundle.manifest.image = r.spec.image
    BY <1>1, <1>3 DEF Worker, Progress
  <1>6. r.old \in Bundles /\ Recorded(r.old) /\ r.spec = r.old.manifest
    BY <1>1, <1>5 DEF Restorables
  <1>7. /\ bundle' \in Bundles /\ bundle'.past = r.old.past /\ Recorded(bundle')
        /\ bundle'.manifest.image = r.spec.image
    <2>1. CASE r.kind = "credentials"
      <3> DEFINE b == [bundle EXCEPT !.auth = r.old.auth]
      <3>1. bundle' = b
        BY <1>1, <2>1 DEF PutBack
      <3>2. b = [profile |-> bundle.profile, runtime |-> bundle.runtime, compose |-> bundle.compose,
                 auth |-> r.old.auth, manifest |-> bundle.manifest, past |-> bundle.past]
        BY <1>3 DEF Bundles
      <3> HIDE DEF b
      <3>3. r.old.auth \in Secrets \cup {Nothing}
        BY <1>6 DEF Bundles
      <3>4. b \in Bundles
        BY <1>3, <3>2, <3>3 DEF Bundles
      <3>5. Recorded(b) /\ b.past = bundle.past /\ b.manifest = bundle.manifest
        BY <1>5, <2>1, <3>2 DEF Recorded
      <3> QED
        BY <1>5, <2>1, <3>1, <3>4, <3>5
    <2>2. CASE r.kind # "credentials"
      <3>1. bundle' = r.old
        BY <1>1, <2>2 DEF PutBack
      <3> QED
        BY <1>6, <3>1
    <2> QED
      BY <2>1, <2>2
  <1>12. x = [kind |-> r.kind, at |-> "restore", arg |-> r.arg, spec |-> r.spec, text |-> r.text,
              up |-> r.up, old |-> r.old, todo |-> Recovery(r)]
    BY <1>3, MovedFields
  <1> HIDE DEF x
  <1>14. /\ Begun(x) /\ x.at = "restore" /\ x.todo = WayBack(r) /\ x.kind = r.kind /\ x.arg = r.arg
         /\ x.spec = r.spec /\ x.up = r.up /\ x.old = r.old
    BY <1>2, <1>3, <1>4, <1>12, MovedOn
  <1>15. Restorables(x, docker, trail) /\ WayBack(x) = WayBack(r)
    BY <1>5, <1>14, SameCommand
  <1>16. EndOf(x.todo, WayBack(x)) /\ Len(WayBack(x)) - Len(x.todo) = 0
    BY <1>4, <1>14, <1>15, EndWhole
  <1>17. AfterReturn(x, 0, bundle', docker)
    BY <1>7, <1>14 DEF AfterReturn
  <1>18. Worker(x, bundle', docker', trail)
    BY <1>1, <1>14, <1>15, <1>16, <1>17 DEF Worker, Progress
  <1> QED
    BY <1>1, <1>2, <1>3, <1>7, <1>14, <1>18, HolderMoves

\* A step of a restoration is done.
LEMMA ReturnMoves ==
  ASSUME ComposeFacts, NEW o \in Operators, RestoreStep(o)
  PROVE  ComposeFacts'
  <1> DEFINE r == job[o]
             x == [r EXCEPT !.todo = Tail(r.todo)]
             P == WayBack(r)
             n == Len(P) - Len(r.todo)
             s == Head(r.todo)
  <1>1. /\ r.at = "restore" /\ r.todo # << >> /\ bundle' = Written(r, s) /\ docker' = Composed(s)
        /\ job' = [job EXCEPT ![o] = x] /\ UNCHANGED <<holder, trail, tainted>>
    BY DEF RestoreStep
  <1>2. r.at \in Busy
    BY <1>1 DEF Busy
  <1>3. /\ Begun(r) /\ Worker(r, bundle, docker, trail) /\ bundle \in Bundles /\ docker \in Dockers
    BY <1>2, HolderKnown
  <1>5. /\ Restorables(r, docker, trail) /\ r.kind \in Restorable /\ EndOf(r.todo, P)
        /\ AfterReturn(r, n, bundle, docker)
    BY <1>1, <1>3 DEF Worker, Progress
  <1>4. P \in Seq(ComposeSteps) /\ r.todo \in Seq(ComposeSteps)
    BY <1>3, <1>5, WayBackIs DEF Begun
  <1>6. /\ EndOf(Tail(r.todo), P) /\ Len(P) - Len(Tail(r.todo)) = n + 1
        /\ n \in 0 .. Len(P) - 1 /\ s = P[n + 1]
    BY <1>1, <1>4, <1>5, EndTail
  <1>8. /\ bundle' \in Bundles /\ docker' \in Dockers /\ AfterReturn(r, n + 1, bundle', docker')
        /\ ~r.up => ~docker'.server.up
    BY <1>1, <1>3, <1>5, <1>6, ReturnStep
  <1>9. Tail(r.todo) \in Seq(ComposeSteps)
    BY <1>6 DEF EndOf
  <1>11. Restorables(r, docker', trail)
    BY <1>5, <1>8 DEF Restorables
  <1> HIDE DEF n, P, s
  <1>12. x = [kind |-> r.kind, at |-> r.at, arg |-> r.arg, spec |-> r.spec, text |-> r.text,
              up |-> r.up, old |-> r.old, todo |-> Tail(r.todo)]
    BY <1>3, MovedFields
  <1> HIDE DEF x
  <1>13. /\ Begun(x) /\ x.at = "restore" /\ x.todo = Tail(r.todo) /\ x.kind = r.kind
         /\ x.arg = r.arg
         /\ x.spec = r.spec /\ x.up = r.up /\ x.old = r.old
    BY <1>1, <1>2, <1>3, <1>9, <1>12, MovedOn
  <1>14. WayBack(x) = P /\ AfterReturn(x, n + 1, bundle', docker') /\ Restorables(x, docker', trail)
    BY <1>8, <1>11, <1>13, SameCommand DEF P
  <1>15. Worker(x, bundle', docker', trail)
    BY <1>5, <1>6, <1>13, <1>14 DEF Worker, Progress
  <1>16. x.at \in Busy
    BY <1>13 DEF Busy
  <1> QED
    BY <1>1, <1>2, <1>8, <1>13, <1>15, <1>16, HolderMoves

\* A restoration is complete.
LEMMA ReturnDone ==
  ASSUME ComposeFacts, NEW o \in Operators, Restored(o)
  PROVE  ComposeFacts'
  <1> DEFINE r == job[o]
  <1>1. /\ r.at = "restore" /\ r.todo = << >> /\ EndJob(o)
        /\ UNCHANGED <<bundle, docker, trail, tainted>>
    BY DEF Restored
  <1>2. r.at \in Busy
    BY <1>1 DEF Busy
  <1>3. /\ Begun(r) /\ Worker(r, bundle, docker, trail) /\ bundle \in Bundles /\ docker \in Dockers
        /\ trail \in Seq(Images)
    BY <1>2, HolderKnown
  <1>5. /\ Restorables(r, docker, trail) /\ r.kind \in Restorable
        /\ AfterReturn(r, Len(WayBack(r)) - Len(r.todo), bundle, docker)
    BY <1>1, <1>3 DEF Worker, Progress
  <1>4. WayBack(r) \in Seq(ComposeSteps)
    BY <1>3, <1>5, WayBackIs DEF Begun
  <1>6. Len(WayBack(r)) - Len(r.todo) = Len(WayBack(r))
    BY <1>1, <1>4
  <1>7. Truthful(bundle, docker) /\ IsSuffix(bundle.past, trail)
    BY <1>3, <1>5, <1>6, ReturnEnds
  <1>8. Settled(bundle, docker)
    BY <1>7 DEF Settled
  <1> QED
    BY <1>1, <1>2, <1>3, <1>7, <1>8, HolderEnds

\* A container that is stopped, or is not, when what was claimed of it held.
LEMMA StoppedPartly ==
  ASSUME bundle \in Bundles, docker \in Dockers, NEW b, Settled(b, docker),
         NEW s \in {"stop", "down"}, NEW d \in ComposedPartly(s)
  PROVE  d \in Dockers /\ Settled(b, d)
  <1>1. d = docker \/ d = Composed(s)
    BY DockerEffects
  <1>2. docker.secret \in Secrets \cup {Nothing} /\ docker.server \in Containers
    BY DEF Dockers
  <1>3. Composed(s) \in Dockers /\ ~Composed(s).server.up
    <2>1. CASE s = "stop"
      <3> DEFINE c == [image |-> docker.server.image, conf |-> docker.server.conf,
                       secret |-> docker.server.secret, up |-> FALSE]
      <3>1. Composed("stop") = [secret |-> docker.secret, server |-> c]
        BY DockerEffects
      <3>2. c \in Containers /\ c.up = FALSE
        BY <1>2 DEF Containers
      <3> HIDE DEF c
      <3> QED
        BY <1>2, <2>1, <3>1, <3>2 DEF Dockers
    <2>2. CASE s = "down"
      <3>1. Composed("down") = [secret |-> docker.secret, server |-> NoContainer]
        BY DockerEffects
      <3>2. NoContainer \in Containers /\ NoContainer.up = FALSE
        BY DEF Containers, NoContainer
      <3> QED
        BY <1>2, <2>2, <3>1, <3>2 DEF Dockers
    <2> QED
      BY <2>1, <2>2
  <1>4. CASE Truthful(b, docker)
    BY <1>1, <1>3, <1>4 DEF Settled, Truthful, Serves
  <1>5. CASE Bare(b, docker)
    <2>1. docker = [secret |-> Nothing, server |-> NoContainer]
      BY <1>5 DEF Bare, Emptied
    <2>2. Composed("stop") = docker
      BY <2>1, DockerEffects DEF NoContainer
    <2>3. Composed("down") = docker
      BY <2>1, DockerEffects
    <2> QED
      BY <1>1, <1>5, <2>2, <2>3 DEF Settled
  <1> QED
    BY <1>4, <1>5 DEF Settled

\* A setup that fails.
LEMMA FirstSetupFails ==
  ASSUME ComposeFacts, NEW o \in Operators, SetupFails(o)
  PROVE  ComposeFacts'
  <1> DEFINE r == job[o]
  <1>1. /\ r.at = "failed" /\ r.kind = "setup" /\ EndJob(o) /\ UNCHANGED <<trail, tainted>>
        /\ bundle' = IF bundle.manifest = Nothing THEN EmptyBundle ELSE bundle
        /\ docker' \in ComposedPartly("down")
    BY DEF SetupFails
  <1>2. r.at \in Busy /\ r.kind \notin Restorable
    BY <1>1 DEF Busy, Restorable
  <1>3. /\ Worker(r, bundle, docker, trail) /\ bundle \in Bundles /\ docker \in Dockers
        /\ trail \in Seq(Images)
    BY <1>2, HolderKnown
  <1>4. Settled(bundle, docker) /\ IsSuffix(bundle.past, trail)
    BY <1>1, <1>2, <1>3 DEF Worker, Progress
  <1>5. docker' \in Dockers /\ Settled(bundle, docker')
    BY <1>1, <1>3, <1>4, StoppedPartly
  <1>6. EmptyBundle \in Bundles /\ EmptyBundle.manifest = Nothing /\ EmptyBundle.past = << >>
    BY DEF EmptyBundle, Bundles
  <1>7. bundle' \in Bundles /\ Settled(bundle', docker') /\ IsSuffix(bundle'.past, trail)
    <2>1. CASE bundle.manifest = Nothing
      <3>1. ~docker'.server.up
        BY <1>5, <2>1, EmptyTyped DEF Settled, Truthful, Bare
      <3> QED
        BY <1>1, <1>3, <1>6, <2>1, <3>1, EmptySuffix DEF Settled, Truthful
    <2>2. CASE bundle.manifest # Nothing
      BY <1>1, <1>3, <1>4, <1>5, <2>2
    <2> QED
      BY <2>1, <2>2
  <1> QED
    BY <1>1, <1>2, <1>3, <1>5, <1>7, HolderEnds

\* A command that fails and restores nothing.
LEMMA PlainCommandFails ==
  ASSUME ComposeFacts, NEW o \in Operators, CommandFails(o)
  PROVE  ComposeFacts'
  <1> DEFINE r == job[o]
  <1>1. /\ r.at = "failed" /\ r.kind \notin Restorable /\ EndJob(o)
        /\ UNCHANGED <<bundle, trail, tainted>>
        /\ docker' \in ComposedPartly("stop") \/ docker' = docker
    BY DEF CommandFails, Restorable
  <1>2. r.at \in Busy
    BY <1>1 DEF Busy
  <1>3. /\ Worker(r, bundle, docker, trail) /\ bundle \in Bundles /\ docker \in Dockers
        /\ trail \in Seq(Images)
    BY <1>2, HolderKnown
  <1>4. Settled(bundle, docker) /\ IsSuffix(bundle.past, trail)
    BY <1>1, <1>3 DEF Worker, Progress
  <1>5. docker' \in Dockers /\ Settled(bundle, docker')
    BY <1>1, <1>3, <1>4, StoppedPartly
  <1> QED
    BY <1>1, <1>2, <1>3, <1>4, <1>5, HolderEnds

PreparedJob(k, a, m, p, u) ==
  [NoJob EXCEPT !.kind = k, !.at = "prepared", !.arg = a, !.spec = m, !.text = p, !.up = u]

\* A command that is prepared, field by field.
LEMMA PreparedFields ==
  ASSUME NEW k, NEW a, NEW m, NEW p, NEW u
  PROVE  PreparedJob(k, a, m, p, u) =
           [kind |-> k, at |-> "prepared", arg |-> a, spec |-> m, text |-> p, up |-> u,
            old |-> EmptyBundle, todo |-> << >>]
  <1> DEFINE f == FALSE
  <1>0. NoJob = [kind |-> "none", at |-> "idle", arg |-> Nothing, spec |-> Nothing, text |-> Nothing, up |-> f,
                  old |-> EmptyBundle, todo |-> << >>]
    BY DEF NoJob
  <1> HIDE DEF f
  <1> DEFINE v1 == [NoJob EXCEPT !.kind = k]
             v2 == [v1 EXCEPT !.at = "prepared"]
             v3 == [v2 EXCEPT !.arg = a]
             v4 == [v3 EXCEPT !.spec = m]
             v5 == [v4 EXCEPT !.text = p]
             v6 == [v5 EXCEPT !.up = u]
  <1>e. PreparedJob(k, a, m, p, u) = v6
    BY DEF PreparedJob
  <1>1. v1 = [kind |-> k, at |-> "idle", arg |-> Nothing, spec |-> Nothing, text |-> Nothing, up |-> f,
                  old |-> EmptyBundle, todo |-> << >>]
    BY <1>0
  <1> HIDE DEF v1
  <1>2. v2 = [kind |-> k, at |-> "prepared", arg |-> Nothing, spec |-> Nothing, text |-> Nothing, up |-> f,
                  old |-> EmptyBundle, todo |-> << >>]
    BY <1>1
  <1> HIDE DEF v2
  <1>3. v3 = [kind |-> k, at |-> "prepared", arg |-> a, spec |-> Nothing, text |-> Nothing, up |-> f,
                  old |-> EmptyBundle, todo |-> << >>]
    BY <1>2
  <1> HIDE DEF v3
  <1>4. v4 = [kind |-> k, at |-> "prepared", arg |-> a, spec |-> m, text |-> Nothing, up |-> f,
                  old |-> EmptyBundle, todo |-> << >>]
    BY <1>3
  <1> HIDE DEF v4
  <1>5. v5 = [kind |-> k, at |-> "prepared", arg |-> a, spec |-> m, text |-> p, up |-> f,
                  old |-> EmptyBundle, todo |-> << >>]
    BY <1>4
  <1> HIDE DEF v5
  <1>6. v6 = [kind |-> k, at |-> "prepared", arg |-> a, spec |-> m, text |-> p, up |-> u,
                  old |-> EmptyBundle, todo |-> << >>]
    BY <1>5
  <1> HIDE DEF v6
  <1> QED
    BY <1>e, <1>6

\* A command is prepared.
LEMMA Prepares ==
  ASSUME ComposeFacts, NEW o \in Operators, NEW kind \in JobKinds, NEW arg \in JobArgs(kind),
         Prepare(o, kind, arg)
  PROVE  ComposeFacts'
  <1> DEFINE up == docker.server.up
             x == [NoJob EXCEPT !.kind = kind, !.at = "prepared", !.arg = arg,
                                !.spec = bundle.manifest, !.text = bundle.profile,
                                !.up = up]
  <1>1. /\ job[o] = NoJob /\ job' = [job EXCEPT ![o] = x]
        /\ (kind # "setup" => bundle.manifest # Nothing)
        /\ UNCHANGED <<bundle, docker, holder, trail, tainted>>
    BY DEF Prepare
  <1>2. bundle \in Bundles /\ docker \in Dockers
    BY DEF ComposeFacts, ComposeTyped
  <1>u. up \in BOOLEAN
    BY <1>2 DEF Dockers, Containers
  <1> HIDE DEF up
  <1>p. x = PreparedJob(kind, arg, bundle.manifest, bundle.profile, up)
    BY DEF PreparedJob
  <1>3. x = [kind |-> kind, at |-> "prepared", arg |-> arg, spec |-> bundle.manifest,
             text |-> bundle.profile, up |-> up, old |-> EmptyBundle, todo |-> << >>]
    BY <1>p, PreparedFields
  <1> HIDE DEF x
  <1>4. /\ bundle.manifest \in BundleManifests \cup {Nothing}
        /\ bundle.profile \in Configs \cup {Nothing}
        /\ up \in BOOLEAN /\ EmptyBundle \in Bundles /\ << >> \in Seq(ComposeSteps)
        /\ arg \in Images \cup Configs \cup Secrets \cup {Nothing} /\ "prepared" \in Phases
    <2>1. bundle.manifest \in BundleManifests \cup {Nothing}
          /\ bundle.profile \in Configs \cup {Nothing}
      BY <1>2 DEF Bundles
    <2>3. EmptyBundle \in Bundles
      BY DEF EmptyBundle, Bundles
    <2>4. arg \in Images \cup Configs \cup Secrets \cup {Nothing}
      BY DEF JobArgs, JobKinds
    <2>5. << >> \in Seq(ComposeSteps) /\ "prepared" \in Phases
      BY DEF Phases
    <2> QED
      BY <1>u, <2>1, <2>3, <2>4, <2>5
  <1>5. x \in [kind : JobKinds \cup {"none"}, at : Phases,
               arg : Images \cup Configs \cup Secrets \cup {Nothing},
               spec : BundleManifests \cup {Nothing}, text : Configs \cup {Nothing}, up : BOOLEAN,
               old : Bundles, todo : Seq(ComposeSteps)]
    BY <1>3, <1>4
  <1>6. x.kind = kind /\ x.arg = arg /\ x.spec = bundle.manifest /\ x.at = "prepared"
    BY <1>3
  <1>7. Begun(x) /\ x.at \notin Busy
    BY <1>1, <1>4, <1>5, <1>6 DEF Begun, Busy
  <1>8. job[o].at \notin Busy
    BY <1>1, NoJobBegun
  <1> QED
    BY <1>1, <1>7, <1>8, BesideHolder

\* The invariant holds at first.
LEMMA ComposeInvInitially == ComposeInit => ComposeInv
  <1> SUFFICES ASSUME ComposeInit
               PROVE  ComposeFacts
    BY DEF ComposeInv
  <1>1. /\ bundle = EmptyBundle /\ docker = [secret |-> Nothing, server |-> NoContainer]
        /\ job = [o \in Operators |-> NoJob] /\ holder = Nobody /\ trail = << >> /\ tainted = FALSE
    BY DEF ComposeInit
  <1>2. EmptyBundle \in Bundles /\ EmptyBundle.manifest = Nothing /\ EmptyBundle.past = << >>
    BY DEF EmptyBundle, Bundles
  <1>3. NoContainer \in Containers /\ NoContainer.up = FALSE
    BY DEF NoContainer, Containers
  <1>4. docker \in Dockers /\ ~docker.server.up
    BY <1>1, <1>3 DEF Dockers
  <1>5. trail \in Seq(Images) /\ IsSuffix(bundle.past, trail)
    <2>1. << >> \in Seq(Images)
      OBVIOUS
    <2> QED
      BY <1>1, <1>2, <2>1, EmptySuffix
  <1>6. Settled(bundle, docker)
    BY <1>1, <1>2, <1>4 DEF Settled, Truthful
  <1>7. \A o \in Operators : Begun(job[o]) /\ job[o].at \notin Busy
    BY <1>1, NoJobBegun
  <1> QED
    BY <1>1, <1>2, <1>4, <1>5, <1>6, <1>7, ComposeAssumption DEF ComposeFacts, ComposeTyped

\* And every step keeps it.
LEMMA ComposeInvInductive == ComposeInv /\ [ComposeNext]_composeVars => ComposeInv'
  <1> SUFFICES ASSUME ComposeInv, [ComposeNext]_composeVars
               PROVE  ComposeInv'
    OBVIOUS
  <1>1. CASE tainted = TRUE
    <2>1. tainted' = TRUE
      BY <1>1 DEF ComposeNext, composeVars, Prepare, AcquireBundle, RefuseJob, DoStep, StepFails,
         Succeed, RestoreBundle, RestoreStep, Restored, RestoreIncomplete, SetupFails, CommandFails,
         KillJob
    <2> QED
      BY <2>1 DEF ComposeInv
  <1>2. CASE ComposeFacts /\ UNCHANGED composeVars
    <2>1. ComposeFacts'
      BY <1>2 DEF ComposeFacts, ComposeTyped, composeVars
    <2> QED
      BY <2>1 DEF ComposeInv
  <1>3. CASE ComposeFacts /\ ComposeNext
    <2> PICK o \in Operators :
           \/ \E k \in JobKinds : \E a \in JobArgs(k) : Prepare(o, k, a)
           \/ AcquireBundle(o) \/ RefuseJob(o) \/ DoStep(o) \/ StepFails(o) \/ Succeed(o)
           \/ RestoreBundle(o) \/ RestoreStep(o) \/ Restored(o) \/ RestoreIncomplete(o)
           \/ SetupFails(o) \/ CommandFails(o) \/ KillJob(o)
      BY <1>3 DEF ComposeNext
    <2>1. CASE \E k \in JobKinds : \E a \in JobArgs(k) : Prepare(o, k, a)
      BY <1>3, <2>1, Prepares DEF ComposeInv
    <2>2. CASE AcquireBundle(o)
      BY <1>3, <2>2, TakesBundle DEF ComposeInv
    <2>3. CASE RefuseJob(o)
      <3>1. job[o].at \notin Busy /\ job' = [job EXCEPT ![o] = NoJob]
            /\ UNCHANGED <<bundle, docker, holder, trail, tainted>>
        BY <2>3 DEF RefuseJob, Busy
      <3>2. ComposeFacts'
        BY <1>3, <3>1, NoJobBegun, BesideHolder
      <3> QED
        BY <3>2 DEF ComposeInv
    <2>4. CASE DoStep(o)
      BY <1>3, <2>4, WorkMoves DEF ComposeInv
    <2>5. CASE StepFails(o)
      BY <1>3, <2>5, WorkFails DEF ComposeInv
    <2>6. CASE Succeed(o)
      BY <1>3, <2>6, WorkEnds DEF ComposeInv
    <2>7. CASE RestoreBundle(o)
      BY <1>3, <2>7, PutsBack DEF ComposeInv
    <2>8. CASE RestoreStep(o)
      BY <1>3, <2>8, ReturnMoves DEF ComposeInv
    <2>9. CASE Restored(o)
      BY <1>3, <2>9, ReturnDone DEF ComposeInv
    <2>10. CASE RestoreIncomplete(o) \/ KillJob(o)
      BY <2>10 DEF RestoreIncomplete, KillJob, ComposeInv
    <2>11. CASE SetupFails(o)
      BY <1>3, <2>11, FirstSetupFails DEF ComposeInv
    <2>12. CASE CommandFails(o)
      BY <1>3, <2>12, PlainCommandFails DEF ComposeInv
    <2> QED
      BY <2>1, <2>2, <2>3, <2>4, <2>5, <2>6, <2>7, <2>8, <2>9, <2>10, <2>11, <2>12
  <1> QED
    BY <1>1, <1>2, <1>3 DEF ComposeInv

(***************************************************************************)
(* Between commands the manifest of a Compose deployment tells the truth:  *)
(* compose.yaml and runtime.ini are those of its image and the profile, a  *)
(* container that runs has that image, configuration and password, and the *)
(* history names the images that completed updates superseded, newest last *)
(* and without a gap; or a purge failed when its files were gone, and left *)
(* a manifest alone of which nothing runs.  For any operators, images and  *)
(* number of commands, and whichever steps fail; unless a command was      *)
(* killed, or reported that it could not restore what it found.            *)
(***************************************************************************)
THEOREM ComposeDeploymentsSound == ComposeSpec => []ComposeSound
  <1>1. ComposeInv => ComposeSound
    <2> SUFFICES ASSUME ComposeInv, holder = Nobody, tainted # TRUE, bundle.manifest # Nothing
                 PROVE  RunsWhatIsRecorded /\ IsSuffix(bundle.past, trail)
      BY DEF ComposeSound, RunsWhatIsRecorded, RollbackReturns
    <2>1. Settled(bundle, docker) /\ IsSuffix(bundle.past, trail)
      BY DEF ComposeInv, ComposeFacts
    <2>2. CASE Truthful(bundle, docker)
      BY <2>1, <2>2 DEF Truthful, Recorded, Serves, Owned, RunsWhatIsRecorded
    <2>3. CASE Bare(bundle, docker)
      <3>1. ~Owned
        BY <2>3 DEF Bare, Owned
      <3>2. Stripped
        BY <2>3 DEF Bare, Emptied, Stripped, EmptyBundle
      <3> QED
        BY <2>1, <3>1, <3>2 DEF RunsWhatIsRecorded
    <2> QED
      BY <2>1, <2>2, <2>3 DEF Settled
  <1> QED
    BY <1>1, ComposeInvInitially, ComposeInvInductive, PTL DEF ComposeSpec
-----------------------------------------------------------------------------
(***************************************************************************)
(*                               NativeSetup                               *)
(***************************************************************************)

\* Some stage of a sequence is s; every s in it comes after a t, before a t, or last.
Holds(q, s) == \E i \in 1 .. Len(q) : q[i] = s
After(q, s, t) == \A i \in 1 .. Len(q) : q[i] = s => \E j \in 1 .. i - 1 : q[j] = t
Before(q, s, t) == \A i \in 1 .. Len(q) : q[i] = s => \E j \in i + 1 .. Len(q) : q[j] = t
OnlyLast(q, s) == \A i \in 1 .. Len(q) : q[i] = s => i = Len(q)
EndsIn(q, s) == q # << >> /\ q[Len(q)] = s

Contents == {"absent", "old", "new"}
HostStates ==
  [files : [SetupFiles -> Contents], link : BOOLEAN, loaded : Contents, active : BOOLEAN,
   marker : BOOLEAN, runs : Contents, ports : SUBSET FirewallPorts, ids : SUBSET Identities]
CourseStages ==
  SetupFiles \cup Identities \cup FirewallPorts \cup {"check", "reload", "enable", "start", "health", "marker"}
Touching == {"stop", "enable", "disable", "restart"}
ReturnStages == FirewallPorts \cup Touching \cup {"files", "reload", "observe"}

\* What a setup may begin with.
Untouched(h) ==
  /\ h \in HostStates /\ h.loaded = h.files["unit"] /\ h.loaded # "new"
  /\ h.active => h.loaded = "old" /\ h.runs = "old" /\ h.files["config"] = "old"
  /\ ~h.active => h.runs = "absent"
  /\ h.loaded = "absent" => ~h.link /\ ~h.active

\* What a setup leaves alone, and what it does one by one.
Steady ==
  /\ host \in HostStates /\ Untouched(first) /\ mode \in {"apply", "resume"}
  /\ staged \in Seq(SetupFiles) /\ opened \in Seq(FirewallPorts)
  /\ flags \subseteq {"reload", "touched"}
  /\ \A f \in SetupFiles \ ToSet(staged) : host.files[f] = first.files[f]

\* Until it is over, a setup has changed what it has noted, and what is missing is to come.
Noted ==
  /\ stages \in Seq(CourseStages)
  /\ \A f \in ToSet(staged) : host.files[f] = "new"
  /\ host.ports = first.ports \cup ToSet(opened) /\ ToSet(opened) \cap first.ports = {}
  /\ \A p \in first.ports : ~Holds(stages, p)
  /\ "reload" \in flags \/ host.loaded = first.loaded
  /\ "touched" \in flags \/ (host.link = first.link /\ host.active = first.active /\ host.runs = first.runs)
  /\ "touched" \in flags \/ After(stages, "start", "enable")
  /\ OnlyLast(stages, "marker")
  /\ stages # << >> => host.marker = first.marker

\* And what is not there yet is to come, in its order.
Outstanding ==
  /\ ~host.marker \/ Holds(stages, "marker")
  /\ host.link \/ Holds(stages, "enable")
  /\ host.active \/ Holds(stages, "start")
  /\ (host.files["unit"] = "new" /\ host.loaded = "new") \/ Holds(stages, "reload")
  /\ host.files["unit"] = "new" \/ After(stages, "reload", "unit")
  /\ mode = "apply" =>
       /\ (host.files["config"] = "new" /\ host.runs = "new") \/ Holds(stages, "start")
       /\ host.files["config"] = "new" \/ After(stages, "start", "config")
       /\ \A p \in FirewallPorts : p \in host.ports \/ Holds(stages, p)

\* A rollback of which no part failed.
Returning ==
  /\ host.files = first.files \/ Holds(stages, "files")
  /\ first.ports \subseteq host.ports
  /\ \A p \in FirewallPorts : /\ p \in first.ports => ~Holds(stages, p)
                              /\ p \in host.ports => p = broken \/ p \in first.ports \/ Holds(stages, p)
  /\ host.marker = first.marker
  /\ host.loaded = first.loaded \/ Holds(stages, "reload")
  /\ host.files = first.files \/ (After(stages, "reload", "files") /\ After(stages, "restart", "files"))
  /\ \/ EndsIn(stages, "observe")
     \/ stages = << >> /\ Observed(host) = Observed(first)
     \/ /\ host.link = first.link /\ host.active = first.active
        /\ \A s \in Touching : ~Holds(stages, s)
  /\ host.runs = first.runs \/ Holds(stages, IF first.active THEN "restart" ELSE "stop")
  /\ Holds(stages, "restart") => first.active
  /\ first.active => Before(stages, "stop", "restart")

SetupInv ==
  /\ Steady /\ outcome \in {"running", "undoing", "ok", "failed", "incomplete"}
  /\ outcome = "running" => Noted /\ Outstanding
  /\ outcome = "undoing" => stages \in Seq(ReturnStages) /\ (doubts # {} \/ Returning)
  /\ SetupAllOrNothing

\* What is left of a queue, when its first element is taken.
LEMMA QueueRest ==
  ASSUME NEW S, NEW q \in Seq(S), q # << >>
  PROVE  /\ Len(q) \in Nat /\ Len(q) >= 1 /\ Head(q) = q[1] /\ Head(q) \in S
         /\ Tail(q) \in Seq(S) /\ Len(Tail(q)) = Len(q) - 1
         /\ \A i \in 1 .. Len(q) - 1 : Tail(q)[i] = q[i + 1]
  OBVIOUS

\* Nothing is left of a queue of one.
LEMMA EmptyRest ==
  ASSUME NEW S, NEW q \in Seq(S), q # << >>
  PROVE  Tail(q) = << >> <=> Len(q) = 1
  <1>1. Tail(q) \in Seq(S) /\ Len(Tail(q)) = Len(q) - 1 /\ Len(q) \in Nat
    BY QueueRest
  <1> DEFINE r == Tail(q)
  <1>2. r \in Seq(S) => (r = << >> <=> Len(r) = 0)
    BY EmptySeq
  <1> HIDE DEF r
  <1>3. r = << >> <=> Len(q) = 1
    BY <1>1, <1>2 DEF r
  <1> QED
    BY <1>3 DEF r

\* Of what a queue holds, all but its first element is left.
LEMMA HoldsRest ==
  ASSUME NEW S, NEW q \in Seq(S), q # << >>, NEW s, Holds(q, s)
  PROVE  Head(q) = s \/ Holds(Tail(q), s)
  <1>1. PICK i \in 1 .. Len(q) : q[i] = s
    BY DEF Holds
  <1>2. CASE i = 1
    BY <1>1, <1>2, QueueRest
  <1>3. CASE i # 1
    <2>1. i - 1 \in 1 .. Len(Tail(q)) /\ Tail(q)[i - 1] = s
      BY <1>1, <1>3, QueueRest
    <2> QED
      BY <2>1 DEF Holds
  <1> QED
    BY <1>2, <1>3

\* An element that comes after another is not the first.
LEMMA AfterRest ==
  ASSUME NEW S, NEW q \in Seq(S), q # << >>, NEW s, NEW t, After(q, s, t)
  PROVE  Head(q) # s /\ (Head(q) = t \/ After(Tail(q), s, t))
  <1>1. Head(q) # s
    BY QueueRest DEF After
  <1>2. ASSUME Head(q) # t, NEW i \in 1 .. Len(Tail(q)), Tail(q)[i] = s
        PROVE  \E j \in 1 .. i - 1 : Tail(q)[j] = t
    <2>1. i + 1 \in 1 .. Len(q) /\ q[i + 1] = s
      BY <1>2, QueueRest
    <2>2. PICK j \in 1 .. i : q[j] = t
      BY <2>1 DEF After
    <2>3. j # 1
      BY <1>2, <2>2, QueueRest
    <2>4. j - 1 \in 1 .. i - 1 /\ j - 1 \in 1 .. Len(q) - 1
      BY <1>2, <2>1, <2>2, <2>3, QueueRest
    <2>5. Tail(q)[j - 1] = t
      BY <2>2, <2>4, QueueRest
    <2> QED
      BY <2>4, <2>5
  <1> QED
    BY <1>1, <1>2 DEF After

\* Every element that is left was in the queue.
LEMMA AllRest ==
  ASSUME NEW S, NEW q \in Seq(S), q # << >>, NEW i \in 1 .. Len(Tail(q))
  PROVE  i + 1 \in 1 .. Len(q) /\ Tail(q)[i] = q[i + 1]
  BY QueueRest

\* And what comes last, or before another, still does.
LEMMA LastRest ==
  ASSUME NEW S, NEW q \in Seq(S), q # << >>, NEW s
  PROVE  /\ Holds(Tail(q), s) => Holds(q, s)
         /\ OnlyLast(q, s) => OnlyLast(Tail(q), s) /\ (Head(q) = s => Tail(q) = << >>)
         /\ EndsIn(q, s) => IF Tail(q) = << >> THEN Head(q) = s ELSE EndsIn(Tail(q), s)
         /\ \A t : Before(q, s, t) => Before(Tail(q), s, t) /\ (Head(q) = s => Holds(Tail(q), t))
  <1>1. Holds(Tail(q), s) => Holds(q, s)
    BY AllRest DEF Holds
  <1>2. ASSUME OnlyLast(q, s)
        PROVE  OnlyLast(Tail(q), s) /\ (Head(q) = s => Tail(q) = << >>)
    <2>1. ASSUME NEW i \in 1 .. Len(Tail(q)), Tail(q)[i] = s
          PROVE  i = Len(Tail(q))
      <3>1. i + 1 \in 1 .. Len(q) /\ q[i + 1] = s
        BY <2>1, AllRest
      <3> QED
        BY <1>2, <3>1, QueueRest DEF OnlyLast
    <2>2. ASSUME Head(q) = s
          PROVE  Tail(q) = << >>
      <3>1. 1 \in 1 .. Len(q) /\ q[1] = s
        BY <2>2, QueueRest
      <3>2. 1 = Len(q)
        BY <1>2, <3>1 DEF OnlyLast
      <3> QED
        BY <3>2, EmptyRest
    <2> QED
      BY <2>1, <2>2 DEF OnlyLast
  <1>3. ASSUME EndsIn(q, s)
        PROVE  IF Tail(q) = << >> THEN Head(q) = s ELSE EndsIn(Tail(q), s)
    <2>1. CASE Tail(q) = << >>
      <3>1. Len(q) = 1
        BY <2>1, EmptyRest
      <3>2. Head(q) = s
        BY <1>3, <3>1, QueueRest DEF EndsIn
      <3> QED
        BY <2>1, <3>2
    <2>2. CASE Tail(q) # << >>
      <3>1. Len(Tail(q)) \in 1 .. Len(q) - 1
        BY <2>2, QueueRest, EmptyRest
      <3> QED
        BY <1>3, <2>2, <3>1, QueueRest DEF EndsIn
    <2> QED
      BY <2>1, <2>2
  <1>4. ASSUME NEW t, Before(q, s, t)
        PROVE  Before(Tail(q), s, t) /\ (Head(q) = s => Holds(Tail(q), t))
    <2>1. ASSUME NEW i \in 1 .. Len(q), q[i] = s
          PROVE  \E j \in i .. Len(Tail(q)) : Tail(q)[j] = t
      <3>1. PICK j \in i + 1 .. Len(q) : q[j] = t
        BY <1>4, <2>1 DEF Before
      <3>2. j - 1 \in i .. Len(Tail(q)) /\ Tail(q)[j - 1] = t
        BY <3>1, QueueRest
      <3> QED
        BY <3>2
    <2>2. ASSUME NEW i \in 1 .. Len(Tail(q)), Tail(q)[i] = s
          PROVE  \E j \in i + 1 .. Len(Tail(q)) : Tail(q)[j] = t
      BY <2>1, <2>2, AllRest
    <2>3. Head(q) = s => Holds(Tail(q), t)
      BY <2>1, QueueRest DEF Holds
    <2> QED
      BY <2>2, <2>3 DEF Before
  <1> QED
    BY <1>1, <1>2, <1>3, <1>4

\* Two queues in a row.
LEMMA Joined ==
  ASSUME NEW S, NEW p \in Seq(S), NEW a \in Seq(S)
  PROVE  /\ p \o a \in Seq(S) /\ Len(p \o a) = Len(p) + Len(a)
         /\ \A i \in 1 .. Len(p) : (p \o a)[i] = p[i]
         /\ \A i \in 1 .. Len(a) : (p \o a)[Len(p) + i] = a[i]
  OBVIOUS

\* What they hold, and in what order.
LEMMA JoinedHolds ==
  ASSUME NEW S, NEW p \in Seq(S), NEW a \in Seq(S), NEW s
  PROVE  /\ Holds(p \o a, s) <=> Holds(p, s) \/ Holds(a, s)
         /\ ~Holds(p, s) /\ OnlyLast(a, s) => OnlyLast(p \o a, s)
         /\ EndsIn(a, s) => EndsIn(p \o a, s)
         /\ \A t : /\ After(p, s, t) /\ (Holds(p, t) \/ After(a, s, t)) => After(p \o a, s, t)
                   /\ Before(a, s, t) /\ (Holds(a, t) \/ Before(p, s, t)) => Before(p \o a, s, t)
  <1> DEFINE q == p \o a
             n == Len(p)
             m == Len(a)
  <1>1. /\ q \in Seq(S) /\ Len(q) = n + m /\ n \in Nat /\ m \in Nat
        /\ \A i \in 1 .. n : q[i] = p[i]
        /\ \A i \in 1 .. m : q[n + i] = a[i]
    BY Joined
  <1>2. m > 0 => q # << >>
    BY <1>1, EmptySeq
  <1>3. a # << >> => m > 0
    BY EmptySeq
  <1> HIDE DEF q, n, m
  <1>4. ASSUME NEW i \in 1 .. n + m
        PROVE  IF i <= n THEN q[i] = p[i] ELSE i - n \in 1 .. m /\ q[i] = a[i - n]
    <2>1. CASE i <= n
      BY <1>1, <2>1
    <2>2. CASE ~(i <= n)
      <3>1. i - n \in 1 .. m /\ n + (i - n) = i
        BY <1>1, <2>2
      <3> QED
        BY <1>1, <2>2, <3>1
    <2> QED
      BY <2>1, <2>2
  <1>5. ASSUME NEW i \in 1 .. n
        PROVE  i \in 1 .. n + m /\ q[i] = p[i]
    BY <1>1
  <1>6. ASSUME NEW i \in 1 .. m
        PROVE  n + i \in 1 .. n + m /\ q[n + i] = a[i]
    BY <1>1
  <1>h. \A x : (\E i \in 1 .. n + m : q[i] = x) <=> (\E i \in 1 .. n : p[i] = x) \/ (\E i \in 1 .. m : a[i] = x)
    BY <1>1, <1>4, <1>5, <1>6
  <1>a. ASSUME NEW t, \A i \in 1 .. n : p[i] = s => \E j \in 1 .. i - 1 : p[j] = t,
               \/ \E i \in 1 .. n : p[i] = t
               \/ \A i \in 1 .. m : a[i] = s => \E j \in 1 .. i - 1 : a[j] = t,
               NEW i \in 1 .. n + m, q[i] = s
        PROVE  \E j \in 1 .. i - 1 : q[j] = t
    <2>1. CASE i <= n
      <3>1. PICK j \in 1 .. i - 1 : p[j] = t
        BY <1>a, <1>4, <2>1, <1>1
      <3>2. j \in 1 .. n
        BY <1>1, <2>1
      <3> QED
        BY <3>1, <3>2, <1>5
    <2>2. CASE ~(i <= n) /\ \E j \in 1 .. n : p[j] = t
      <3>1. PICK j \in 1 .. n : p[j] = t
        BY <2>2
      <3>2. j \in 1 .. i - 1
        BY <1>1, <2>2
      <3> QED
        BY <3>1, <3>2, <1>5
    <2>3. CASE ~(i <= n) /\ \A k \in 1 .. m : a[k] = s => \E j \in 1 .. k - 1 : a[j] = t
      <3>1. i - n \in 1 .. m /\ a[i - n] = s
        BY <1>a, <1>4, <2>3
      <3>2. PICK j \in 1 .. (i - n) - 1 : a[j] = t
        BY <2>3, <3>1
      <3>3. j \in 1 .. m /\ n + j \in 1 .. i - 1
        BY <1>1, <3>1, <3>2
      <3> QED
        BY <3>2, <3>3, <1>6
    <2> QED
      BY <1>a, <2>1, <2>2, <2>3
  <1>b. ASSUME NEW t, \A i \in 1 .. m : a[i] = s => \E j \in i + 1 .. m : a[j] = t,
               \/ \E i \in 1 .. m : a[i] = t
               \/ \A i \in 1 .. n : p[i] = s => \E j \in i + 1 .. n : p[j] = t,
               NEW i \in 1 .. n + m, q[i] = s
        PROVE  \E j \in i + 1 .. n + m : q[j] = t
    <2>1. CASE ~(i <= n)
      <3>1. i - n \in 1 .. m /\ a[i - n] = s
        BY <1>b, <1>4, <2>1
      <3>2. PICK j \in (i - n) + 1 .. m : a[j] = t
        BY <1>b, <3>1
      <3>3. j \in 1 .. m /\ n + j \in i + 1 .. n + m
        BY <1>1, <3>1, <3>2
      <3> QED
        BY <3>2, <3>3, <1>6
    <2>2. CASE i <= n /\ \E j \in 1 .. m : a[j] = t
      <3>1. PICK j \in 1 .. m : a[j] = t
        BY <2>2
      <3>2. n + j \in i + 1 .. n + m
        BY <1>1, <2>2
      <3> QED
        BY <3>1, <3>2, <1>6
    <2>3. CASE i <= n /\ \A k \in 1 .. n : p[k] = s => \E j \in k + 1 .. n : p[j] = t
      <3>1. i \in 1 .. n /\ p[i] = s
        BY <1>b, <1>4, <1>1, <2>3
      <3>2. PICK j \in i + 1 .. n : p[j] = t
        BY <2>3, <3>1
      <3>3. j \in 1 .. n /\ j \in i + 1 .. n + m
        BY <1>1, <3>1, <3>2
      <3> QED
        BY <3>2, <3>3, <1>5
    <2> QED
      BY <1>b, <2>1, <2>2, <2>3
  <1>7. Holds(q, s) <=> Holds(p, s) \/ Holds(a, s)
    BY <1>1, <1>h DEF Holds, n, m
  <1>8. ASSUME ~Holds(p, s), OnlyLast(a, s)
        PROVE  OnlyLast(q, s)
    <2>1. ASSUME NEW i \in 1 .. n + m, q[i] = s
          PROVE  i = n + m
      <3>1. ~(i <= n)
        BY <1>8, <1>4, <1>1, <2>1 DEF Holds, n
      <3>2. i - n \in 1 .. m /\ a[i - n] = s
        BY <1>4, <2>1, <3>1
      <3>3. i - n = m
        BY <1>8, <3>2 DEF OnlyLast, m
      <3> QED
        BY <1>1, <3>3
    <2> QED
      BY <1>1, <2>1 DEF OnlyLast
  <1>9. ASSUME EndsIn(a, s)
        PROVE  EndsIn(q, s)
    <2>1. a # << >> /\ a[m] = s
      BY <1>9 DEF EndsIn, m
    <2>2. m > 0 /\ q # << >>
      BY <1>2, <1>3, <2>1
    <2>3. q[n + m] = s
      BY <1>1, <1>6, <2>1, <2>2
    <2> QED
      BY <1>1, <2>2, <2>3 DEF EndsIn
  <1>10. \A t : After(p, s, t) /\ (Holds(p, t) \/ After(a, s, t)) => After(q, s, t)
    BY <1>1, <1>a DEF After, Holds, n, m
  <1>11. \A t : Before(a, s, t) /\ (Holds(a, t) \/ Before(p, s, t)) => Before(q, s, t)
    BY <1>1, <1>b DEF Before, Holds, n, m
  <1> QED
    BY <1>7, <1>8, <1>9, <1>10, <1>11 DEF q

\* An empty queue holds nothing.
LEMMA EmptyHolds ==
  ASSUME NEW s
  PROVE  ~Holds(<< >>, s)
  BY DEF Holds

\* One more element.
LEMMA ToSetAppend ==
  ASSUME NEW S, NEW q \in Seq(S), NEW x \in S
  PROVE  Append(q, x) \in Seq(S) /\ ToSet(Append(q, x)) = ToSet(q) \cup {x}
  <1>1. /\ Append(q, x) \in Seq(S) /\ Len(Append(q, x)) = Len(q) + 1 /\ Len(q) \in Nat
        /\ \A i \in 1 .. Len(q) : Append(q, x)[i] = q[i]
        /\ Append(q, x)[Len(q) + 1] = x
    OBVIOUS
  <1>2. DOMAIN q = 1 .. Len(q) /\ DOMAIN Append(q, x) = 1 .. Len(q) + 1
    BY <1>1
  <1> DEFINE p == Append(q, x)
             n == Len(q)
  <1>3. ASSUME NEW y
        PROVE  (\E i \in 1 .. n + 1 : p[i] = y) <=> (\E i \in 1 .. n : q[i] = y) \/ y = x
    <2>1. /\ n \in Nat /\ p[n + 1] = x
          /\ \A i \in 1 .. n : p[i] = q[i]
      BY <1>1
    <2> HIDE DEF p, n
    <2> QED
      BY <2>1
  <1> QED
    BY <1>1, <1>2, <1>3 DEF ToSet

\* What a stage makes of the host, field by field.
Moved(h, g, s) ==
  /\ g \in HostStates
  /\ g.files = IF s \in SetupFiles THEN [h.files EXCEPT ![s] = "new"] ELSE h.files
  /\ g.loaded = IF s = "reload" THEN h.files["unit"] ELSE h.loaded
  /\ g.link = IF s = "enable" THEN TRUE ELSE IF s = "disable" THEN FALSE ELSE h.link
  /\ g.active = IF s \in {"start", "restart"} THEN TRUE ELSE IF s = "stop" THEN FALSE ELSE h.active
  /\ g.runs = IF s \in {"start", "restart"} THEN h.files["config"] ELSE IF s = "stop" THEN "absent" ELSE h.runs
  /\ g.marker = IF s = "marker" THEN FALSE ELSE h.marker
  /\ g.ports = IF s \in FirewallPorts THEN h.ports \cup {s} ELSE h.ports

\* What a stage does, field by field.
LEMMA HostMoves ==
  ASSUME NEW h \in HostStates, NEW s \in ReturnStages \cup CourseStages
  PROVE  Moved(h, Staged(h, s), s)
  <1>0. FirewallPorts \cap (SetupFiles \cup Identities \cup SetupCommands) = {}
    BY SetupAssumption
  <1>a. /\ h.files \in [SetupFiles -> Contents] /\ h.files["unit"] \in Contents
        /\ h.files["config"] \in Contents
        /\ "absent" \in Contents /\ "new" \in Contents
    BY DEF HostStates, SetupFiles, Contents
  <1>1. CASE s \in Identities
    <2>0. /\ s \notin SetupFiles /\ s # "reload" /\ s \notin FirewallPorts /\ s # "enable"
          /\ s # "disable"
          /\ s \notin {"start", "restart"} /\ s # "stop" /\ s # "marker"
      BY <1>0, <1>1 DEF SetupFiles, Identities, SetupCommands
    <2>1. Staged(h, s) = [h EXCEPT !.ids = @ \cup {s}]
      BY <1>1, <2>0 DEF Staged
    <2>2. LET g == [h EXCEPT !.ids = @ \cup {s}] IN
          /\ g \in HostStates /\ g.files = h.files /\ g.loaded = h.loaded /\ g.link = h.link
          /\ g.active = h.active
          /\ g.runs = h.runs /\ g.marker = h.marker /\ g.ports = h.ports
      BY <1>1, <1>a DEF HostStates
    <2> QED
      BY <1>1, <1>a, <2>0, <2>1, <2>2 DEF Moved
  <1>2. CASE s \in SetupFiles
    <2>0. /\ s \notin Identities /\ s # "reload" /\ s \notin FirewallPorts /\ s # "enable"
          /\ s # "disable"
          /\ s \notin {"start", "restart"} /\ s # "stop" /\ s # "marker"
      BY <1>0, <1>2 DEF SetupFiles, Identities, SetupCommands
    <2>1. Staged(h, s) = [h EXCEPT !.files[s] = "new"]
      BY <1>2, <2>0 DEF Staged
    <2>2. LET g == [h EXCEPT !.files[s] = "new"] IN
          /\ g \in HostStates /\ g.files = [h.files EXCEPT ![s] = "new"] /\ g.loaded = h.loaded
          /\ g.link = h.link /\ g.active = h.active
          /\ g.runs = h.runs /\ g.marker = h.marker /\ g.ports = h.ports
      BY <1>2, <1>a DEF HostStates
    <2> QED
      BY <1>2, <1>a, <2>0, <2>1, <2>2 DEF Moved
  <1>3. CASE s = "reload"
    <2>0. /\ s \notin Identities /\ s \notin SetupFiles /\ s \notin FirewallPorts /\ s # "enable"
          /\ s # "disable"
          /\ s \notin {"start", "restart"} /\ s # "stop" /\ s # "marker"
      BY <1>0, <1>3 DEF SetupFiles, Identities, SetupCommands
    <2>1. Staged(h, s) = [h EXCEPT !.loaded = h.files["unit"]]
      BY <1>3, <2>0 DEF Staged
    <2>2. ASSUME NEW v \in Contents
          PROVE  LET g == [h EXCEPT !.loaded = v] IN
                 /\ g \in HostStates /\ g.files = h.files /\ g.loaded = v /\ g.link = h.link
                 /\ g.active = h.active
                 /\ g.runs = h.runs /\ g.marker = h.marker /\ g.ports = h.ports
      BY <1>3, <1>a DEF HostStates
    <2>3. LET g == [h EXCEPT !.loaded = h.files["unit"]] IN
          /\ g \in HostStates /\ g.files = h.files /\ g.loaded = h.files["unit"] /\ g.link = h.link
          /\ g.active = h.active
          /\ g.runs = h.runs /\ g.marker = h.marker /\ g.ports = h.ports
      BY <1>a, <2>2
    <2> QED
      BY <1>3, <2>0, <2>1, <2>3 DEF Moved
  <1>4. CASE s \in FirewallPorts
    <2>0. /\ s \notin Identities /\ s \notin SetupFiles /\ s # "reload" /\ s # "enable"
          /\ s # "disable"
          /\ s \notin {"start", "restart"} /\ s # "stop" /\ s # "marker"
      BY <1>0, <1>4 DEF SetupFiles, Identities, SetupCommands
    <2>1. Staged(h, s) = [h EXCEPT !.ports = @ \cup {s}]
      BY <1>4, <2>0 DEF Staged
    <2>2. LET g == [h EXCEPT !.ports = @ \cup {s}] IN
          /\ g \in HostStates /\ g.files = h.files /\ g.loaded = h.loaded /\ g.link = h.link
          /\ g.active = h.active
          /\ g.runs = h.runs /\ g.marker = h.marker /\ g.ports = h.ports \cup {s}
      BY <1>4, <1>a DEF HostStates
    <2> QED
      BY <1>4, <1>a, <2>0, <2>1, <2>2 DEF Moved
  <1>5. CASE s = "enable"
    <2>0. /\ s \notin Identities /\ s \notin SetupFiles /\ s # "reload" /\ s \notin FirewallPorts
          /\ s # "disable"
          /\ s \notin {"start", "restart"} /\ s # "stop" /\ s # "marker"
      BY <1>0, <1>5 DEF SetupFiles, Identities, SetupCommands
    <2>1. Staged(h, s) = [h EXCEPT !.link = TRUE]
      BY <1>5, <2>0 DEF Staged
    <2>2. ASSUME NEW v \in BOOLEAN
          PROVE  LET g == [h EXCEPT !.link = v] IN
                 /\ g \in HostStates /\ g.files = h.files /\ g.loaded = h.loaded /\ g.link = v
                 /\ g.active = h.active
                 /\ g.runs = h.runs /\ g.marker = h.marker /\ g.ports = h.ports
      BY <1>5, <1>a DEF HostStates
    <2> QED
      BY <1>5, <1>a, <2>0, <2>1, <2>2 DEF Moved
  <1>6. CASE s = "disable"
    <2>0. /\ s \notin Identities /\ s \notin SetupFiles /\ s # "reload" /\ s \notin FirewallPorts
          /\ s # "enable"
          /\ s \notin {"start", "restart"} /\ s # "stop" /\ s # "marker"
      BY <1>0, <1>6 DEF SetupFiles, Identities, SetupCommands
    <2>1. Staged(h, s) = [h EXCEPT !.link = FALSE]
      BY <1>6, <2>0 DEF Staged
    <2>2. ASSUME NEW v \in BOOLEAN
          PROVE  LET g == [h EXCEPT !.link = v] IN
                 /\ g \in HostStates /\ g.files = h.files /\ g.loaded = h.loaded /\ g.link = v
                 /\ g.active = h.active
                 /\ g.runs = h.runs /\ g.marker = h.marker /\ g.ports = h.ports
      BY <1>6, <1>a DEF HostStates
    <2> QED
      BY <1>6, <1>a, <2>0, <2>1, <2>2 DEF Moved
  <1>7. CASE s \in {"start", "restart"}
    <2>0. /\ s \notin Identities /\ s \notin SetupFiles /\ s # "reload" /\ s \notin FirewallPorts
          /\ s # "enable"
          /\ s # "disable" /\ s # "stop" /\ s # "marker"
      BY <1>0, <1>7 DEF SetupFiles, Identities, SetupCommands
    <2>1. Staged(h, s) = [h EXCEPT !.active = TRUE, !.runs = h.files["config"]]
      BY <1>7, <2>0 DEF Staged
    <2>2. ASSUME NEW v \in BOOLEAN, NEW w \in Contents
          PROVE  LET g == [h EXCEPT !.active = v, !.runs = w] IN
                 /\ g \in HostStates /\ g.files = h.files /\ g.loaded = h.loaded /\ g.link = h.link
                 /\ g.active = v
                 /\ g.runs = w /\ g.marker = h.marker /\ g.ports = h.ports
      BY <1>7, <1>a DEF HostStates
    <2>3. LET g == [h EXCEPT !.active = TRUE, !.runs = h.files["config"]] IN
          /\ g \in HostStates /\ g.files = h.files /\ g.loaded = h.loaded /\ g.link = h.link
          /\ g.active = TRUE
          /\ g.runs = h.files["config"] /\ g.marker = h.marker /\ g.ports = h.ports
      BY <1>a, <2>2
    <2> QED
      BY <1>7, <2>0, <2>1, <2>3 DEF Moved
  <1>8. CASE s = "stop"
    <2>0. /\ s \notin Identities /\ s \notin SetupFiles /\ s # "reload" /\ s \notin FirewallPorts
          /\ s # "enable"
          /\ s # "disable" /\ s \notin {"start", "restart"} /\ s # "marker"
      BY <1>0, <1>8 DEF SetupFiles, Identities, SetupCommands
    <2>1. Staged(h, s) = [h EXCEPT !.active = FALSE, !.runs = "absent"]
      BY <1>8, <2>0 DEF Staged
    <2>2. ASSUME NEW v \in BOOLEAN, NEW w \in Contents
          PROVE  LET g == [h EXCEPT !.active = v, !.runs = w] IN
                 /\ g \in HostStates /\ g.files = h.files /\ g.loaded = h.loaded /\ g.link = h.link
                 /\ g.active = v
                 /\ g.runs = w /\ g.marker = h.marker /\ g.ports = h.ports
      BY <1>8, <1>a DEF HostStates
    <2>3. LET g == [h EXCEPT !.active = FALSE, !.runs = "absent"] IN
          /\ g \in HostStates /\ g.files = h.files /\ g.loaded = h.loaded /\ g.link = h.link
          /\ g.active = FALSE
          /\ g.runs = "absent" /\ g.marker = h.marker /\ g.ports = h.ports
      BY <1>a, <2>2
    <2> QED
      BY <1>8, <2>0, <2>1, <2>3 DEF Moved
  <1>9. CASE s = "marker"
    <2>0. /\ s \notin Identities /\ s \notin SetupFiles /\ s # "reload" /\ s \notin FirewallPorts
          /\ s # "enable"
          /\ s # "disable" /\ s \notin {"start", "restart"} /\ s # "stop"
      BY <1>0, <1>9 DEF SetupFiles, Identities, SetupCommands
    <2>1. Staged(h, s) = [h EXCEPT !.marker = FALSE]
      BY <1>9, <2>0 DEF Staged
    <2>2. ASSUME NEW v \in BOOLEAN
          PROVE  LET g == [h EXCEPT !.marker = v] IN
                 /\ g \in HostStates /\ g.files = h.files /\ g.loaded = h.loaded /\ g.link = h.link
                 /\ g.active = h.active
                 /\ g.runs = h.runs /\ g.marker = v /\ g.ports = h.ports
      BY <1>9, <1>a DEF HostStates
    <2> QED
      BY <1>9, <1>a, <2>0, <2>1, <2>2 DEF Moved
  <1>10. CASE s \in {"check", "health", "files", "observe"}
    <2>0. /\ s \notin Identities /\ s \notin SetupFiles /\ s # "reload" /\ s \notin FirewallPorts
          /\ s # "enable"
          /\ s # "disable" /\ s \notin {"start", "restart"} /\ s # "stop" /\ s # "marker"
      BY <1>0, <1>10 DEF SetupFiles, Identities, SetupCommands
    <2>1. Staged(h, s) = h
      BY <2>0 DEF Staged
    <2> QED
      BY <2>0, <2>1 DEF Moved
  <1> QED
    BY <1>1, <1>2, <1>3, <1>4, <1>5, <1>6, <1>7, <1>8, <1>9, <1>10 DEF ReturnStages, CourseStages,
       Touching

\* Of an element that a queue does not hold, any order is true.
LEMMA NoneHolds ==
  ASSUME NEW q, NEW s, ~Holds(q, s)
  PROVE  OnlyLast(q, s) /\ \A t : After(q, s, t) /\ Before(q, s, t)
  BY DEF Holds, OnlyLast, After, Before

\* Queues of one element and of two.
LEMMA ShortStages ==
  ASSUME NEW S, NEW a \in S, NEW b \in S
  PROVE  /\ << >> \in Seq(S) /\ <<a>> \in Seq(S) /\ <<a, b>> \in Seq(S)
         /\ EndsIn(<<a>>, a)
         /\ \A s : /\ ~Holds(<< >>, s)
                   /\ Holds(<<a>>, s) <=> s = a
                   /\ Holds(<<a, b>>, s) <=> s = a \/ s = b
  <1>1. << >> \in Seq(S) /\ <<a>> \in Seq(S) /\ <<a, b>> \in Seq(S)
    OBVIOUS
  <1>2. EndsIn(<<a>>, a)
    BY DEF EndsIn
  <1>3. ASSUME NEW s
        PROVE  /\ ~Holds(<< >>, s)
               /\ Holds(<<a>>, s) <=> s = a
               /\ Holds(<<a, b>>, s) <=> s = a \/ s = b
    <2>1. ~Holds(<< >>, s)
      BY EmptyHolds
    <2>2. Holds(<<a>>, s) <=> s = a
      BY DEF Holds
    <2>3. Holds(<<a, b>>, s) <=> s = a \/ s = b
      <3>1. Len(<<a, b>>) = 2 /\ <<a, b>>[1] = a /\ <<a, b>>[2] = b /\ 1 \in 1 .. 2 /\ 2 \in 1 .. 2
            /\ \A i \in 1 .. 2 : i = 1 \/ i = 2
        OBVIOUS
      <3> QED
        BY <3>1 DEF Holds
    <2> QED
      BY <2>1, <2>2, <2>3
  <1> QED
    BY <1>1, <1>2, <1>3

\* What a queue holds is an element of it.
LEMMA OwnElements ==
  ASSUME NEW S, NEW q \in Seq(S), NEW s
  PROVE  /\ Holds(q, s) => s \in S
         /\ Holds(q, s) <=> s \in ToSet(q)
  <1>1. DOMAIN q = 1 .. Len(q) /\ \A i \in 1 .. Len(q) : q[i] \in S
    OBVIOUS
  <1> QED
    BY <1>1 DEF Holds, ToSet

\* The rollback, whatever the setup had come to.
LEMMA UndoFacts ==
  ASSUME Untouched(first), opened \in Seq(FirewallPorts), NEW fl
  PROVE  LET q == UndoStages(fl) IN
         /\ q \in Seq(ReturnStages) /\ Holds(q, "files")
         /\ \A p \in FirewallPorts : Holds(q, p) <=> p \in ToSet(opened)
         /\ "reload" \in fl => Holds(q, "reload")
         /\ After(q, "reload", "files") /\ After(q, "restart", "files")
         /\ "touched" \in fl => EndsIn(q, "observe") /\ Holds(q, IF first.active THEN "restart" ELSE "stop")
         /\ "touched" \notin fl => \A s \in Touching : ~Holds(q, s)
         /\ Holds(q, "restart") => first.active
         /\ first.active => Before(q, "stop", "restart")
  <1> DEFINE W == IF "touched" \in fl THEN <<"stop">> ELSE << >>
             R == IF "reload" \in fl THEN <<"reload">> ELSE << >>
             E == IF first.link THEN "enable" ELSE "disable"
             A == IF first.active THEN "restart" ELSE "stop"
             T == IF "touched" \notin fl \/ first.loaded = "absent" THEN << >> ELSE <<E, A>>
             V == IF "touched" \in fl THEN <<"observe">> ELSE << >>
             F == <<"files">>
             q1 == opened \o W
             q2 == q1 \o F
             q3 == q2 \o R
             q4 == q3 \o T
             q == q4 \o V
  <1>1. UndoStages(fl) = q
    BY DEF UndoStages
  <1>2. /\ "stop" \in ReturnStages /\ "files" \in ReturnStages /\ "reload" \in ReturnStages
        /\ E \in ReturnStages /\ A \in ReturnStages /\ "observe" \in ReturnStages
    BY DEF ReturnStages, Touching
  <1>3. opened \in Seq(ReturnStages)
    <2>1. FirewallPorts \subseteq ReturnStages
      BY DEF ReturnStages
    <2>2. \A i \in 1 .. Len(opened) : opened[i] \in FirewallPorts
      OBVIOUS
    <2> QED
      BY <2>1, <2>2, SeqDef
  <1>4. ASSUME NEW s \in SetupCommands
        PROVE  ~Holds(opened, s) /\ s \notin FirewallPorts
    <2>1. s \notin FirewallPorts
      BY SetupAssumption
    <2> QED
      BY <2>1, OwnElements
  <1>5. W \in Seq(ReturnStages) /\ \A s : Holds(W, s) <=> "touched" \in fl /\ s = "stop"
    BY <1>2, ShortStages
  <1>6. F \in Seq(ReturnStages) /\ \A s : Holds(F, s) <=> s = "files"
    BY <1>2, ShortStages
  <1>7. R \in Seq(ReturnStages) /\ \A s : Holds(R, s) <=> "reload" \in fl /\ s = "reload"
    BY <1>2, ShortStages
  <1>8. /\ T \in Seq(ReturnStages)
        /\ \A s : Holds(T, s) <=> "touched" \in fl /\ first.loaded # "absent" /\ (s = E \/ s = A)
    <2> HIDE DEF E, A
    <2> QED
      BY <1>2, ShortStages
  <1>9. V \in Seq(ReturnStages) /\ \A s : Holds(V, s) <=> "touched" \in fl /\ s = "observe"
    BY <1>2, ShortStages
  <1>10. "touched" \in fl => EndsIn(V, "observe")
    BY <1>2, ShortStages
  <1>e. /\ E \in {"enable", "disable"} /\ A \in {"restart", "stop"} /\ (A = "stop" <=> ~first.active)
        /\ A = IF first.active THEN "restart" ELSE "stop"
    OBVIOUS
  <1> HIDE DEF W, F, R, T, V, E, A
  <1>11. q1 \in Seq(ReturnStages) /\ \A s : Holds(q1, s) <=> Holds(opened, s) \/ Holds(W, s)
    BY <1>3, <1>5, Joined, JoinedHolds
  <1> HIDE DEF q1
  <1>12. q2 \in Seq(ReturnStages) /\ \A s : Holds(q2, s) <=> Holds(q1, s) \/ s = "files"
    BY <1>11, <1>6, Joined, JoinedHolds
  <1>13. After(q2, "reload", "files")
    <2>1. ~Holds(q1, "reload")
      BY <1>11, <1>5, <1>4 DEF SetupCommands
    <2>2. After(q1, "reload", "files") /\ After(F, "reload", "files")
      BY <2>1, <1>6, NoneHolds
    <2> QED
      BY <2>2, <1>11, <1>6, JoinedHolds
  <1>14. After(q2, "restart", "files")
    <2>1. ~Holds(q1, "restart")
      BY <1>11, <1>5, <1>4 DEF SetupCommands
    <2>2. After(q1, "restart", "files") /\ After(F, "restart", "files")
      BY <2>1, <1>6, NoneHolds
    <2> QED
      BY <2>2, <1>11, <1>6, JoinedHolds
  <1> HIDE DEF q2
  <1>15. /\ q3 \in Seq(ReturnStages) /\ \A s : Holds(q3, s) <=> Holds(q2, s) \/ Holds(R, s)
         /\ After(q3, "reload", "files") /\ After(q3, "restart", "files")
    BY <1>12, <1>13, <1>14, <1>7, Joined, JoinedHolds
  <1> HIDE DEF q3
  <1>16. /\ q4 \in Seq(ReturnStages) /\ \A s : Holds(q4, s) <=> Holds(q3, s) \/ Holds(T, s)
         /\ After(q4, "reload", "files") /\ After(q4, "restart", "files")
    BY <1>12, <1>15, <1>8, Joined, JoinedHolds
  <1>17. first.active => Before(q4, "stop", "restart")
    <2>0. SUFFICES ASSUME first.active
                   PROVE  Before(q4, "stop", "restart")
      OBVIOUS
    <2>1. ~Holds(T, "stop")
      BY <2>0, <1>8, <1>e
    <2>2. Before(T, "stop", "restart")
      BY <2>1, NoneHolds
    <2>3. CASE "touched" \in fl
      <3>1. first.loaded # "absent"
        BY <2>0 DEF Untouched
      <3>2. Holds(T, "restart")
        BY <2>0, <2>3, <3>1, <1>8, <1>e
      <3> QED
        BY <2>2, <3>2, <1>15, <1>8, JoinedHolds
    <2>4. CASE "touched" \notin fl
      <3>1. ~Holds(q3, "stop")
        <4>1. ~Holds(opened, "stop") /\ ~Holds(W, "stop") /\ ~Holds(R, "stop")
          BY <2>4, <1>5, <1>7, <1>4 DEF SetupCommands
        <4> QED
          BY <4>1, <1>15, <1>12, <1>11
      <3>2. Before(q3, "stop", "restart")
        BY <3>1, NoneHolds
      <3> QED
        BY <2>2, <3>2, <1>15, <1>8, JoinedHolds
    <2> QED
      BY <2>3, <2>4
  <1> HIDE DEF q4
  <1>18. /\ q \in Seq(ReturnStages) /\ \A s : Holds(q, s) <=> Holds(q4, s) \/ Holds(V, s)
         /\ After(q, "reload", "files") /\ After(q, "restart", "files")
    BY <1>12, <1>15, <1>16, <1>9, Joined, JoinedHolds
  <1>19. "touched" \in fl => EndsIn(q, "observe")
    BY <1>10, <1>16, <1>9, JoinedHolds
  <1>20. first.active => Before(q, "stop", "restart")
    <2>1. ~Holds(V, "stop")
      BY <1>9
    <2>2. Before(V, "stop", "restart")
      BY <2>1, NoneHolds
    <2> QED
      BY <2>2, <1>17, <1>16, <1>9, JoinedHolds
  <1> HIDE DEF q
  <1>21. ASSUME NEW s
         PROVE  Holds(q, s) <=> \/ Holds(opened, s) \/ s = "files"
                                \/ "reload" \in fl /\ s = "reload"
                                \/ "touched" \in fl /\ (s = "stop" \/ s = "observe")
                                \/ "touched" \in fl /\ first.loaded # "absent" /\ (s = E \/ s = A)
    <2>1. Holds(q, s) <=> \/ Holds(opened, s) \/ Holds(W, s) \/ s = "files" \/ Holds(R, s) \/ Holds(T, s)
                          \/ Holds(V, s)
      BY <1>11, <1>12, <1>15, <1>16, <1>18
    <2> QED
      BY <2>1, <1>5, <1>7, <1>8, <1>9
  <1>22. ASSUME NEW p \in FirewallPorts
         PROVE  Holds(q, p) <=> p \in ToSet(opened)
    <2>1. p \notin SetupCommands
      BY <1>4
    <2>2. /\ p # "files" /\ p # "reload" /\ p # "stop" /\ p # "observe" /\ p # "enable"
          /\ p # "disable"
          /\ p # "restart"
      BY <2>1 DEF SetupCommands
    <2>3. p # E /\ p # A
      BY <2>2, <1>e
    <2>4. Holds(opened, p) <=> p \in ToSet(opened)
      BY OwnElements
    <2> QED
      BY <2>2, <2>3, <2>4, <1>21
  <1>23. "touched" \in fl => Holds(q, A)
    <2>1. first.loaded = "absent" => ~first.active
      BY DEF Untouched
    <2> QED
      BY <2>1, <1>21, <1>e
  <1>24. ASSUME "touched" \notin fl, NEW s \in Touching
         PROVE  ~Holds(q, s)
    <2>1. ~Holds(opened, s)
      BY <1>4 DEF Touching, SetupCommands
    <2>2. s # "files" /\ s # "reload"
      BY DEF Touching
    <2> QED
      BY <2>1, <2>2, <1>24, <1>21
  <1>25. Holds(q, "restart") => first.active
    <2>1. ~Holds(opened, "restart")
      BY <1>4 DEF SetupCommands
    <2> QED
      BY <2>1, <1>21, <1>e
  <1>26. Holds(q, "files") /\ ("reload" \in fl => Holds(q, "reload"))
    BY <1>21
  <1> QED
    BY <1>1, <1>e, <1>18, <1>19, <1>20, <1>22, <1>23, <1>24, <1>25, <1>26

\* Every host that a setup may find is in order.
LEMMA FoundHosts ==
  ASSUME NEW h \in Hosts
  PROVE  Untouched(h)
  <1>1. PICK b \in {Fresh, Retained} \cup {Existing(e, a) : e \in BOOLEAN, a \in BOOLEAN},
             p \in SUBSET FirewallPorts, i \in {{}, {"group"}, Identities} :
          h = [files |-> b.files, link |-> b.link, loaded |-> b.loaded, active |-> b.active,
               marker |-> b.marker, runs |-> IF b.active THEN "old" ELSE "absent", ports |-> p, ids |-> i]
    BY DEF Hosts
  <1>2. i \in SUBSET Identities
    BY DEF Identities
  <1> DEFINE Sound(g) ==
               /\ g.files \in [SetupFiles -> Contents] /\ g.link \in BOOLEAN
               /\ g.loaded \in Contents
               /\ g.active \in BOOLEAN /\ g.marker \in BOOLEAN /\ g.loaded = g.files["unit"]
               /\ g.loaded # "new"
               /\ g.active => g.loaded = "old" /\ g.files["config"] = "old"
               /\ g.loaded = "absent" => ~g.link /\ ~g.active
  <1>3. Sound(Fresh)
    BY DEF Fresh, SetupFiles, Contents
  <1>4. Sound(Retained)
    BY DEF Retained, SetupFiles, Contents
  <1>5. ASSUME NEW e \in BOOLEAN, NEW a \in BOOLEAN
        PROVE  Sound(Existing(e, a))
    BY DEF Existing, SetupFiles, Contents
  <1>6. Sound(b)
    <2> HIDE DEF Sound
    <2> QED
      BY <1>1, <1>3, <1>4, <1>5
  <1>7. /\ h.files = b.files /\ h.link = b.link /\ h.loaded = b.loaded /\ h.active = b.active
        /\ h.runs = IF b.active THEN "old" ELSE "absent"
    BY <1>1
  <1>8. h \in HostStates
    <2>1. (IF b.active THEN "old" ELSE "absent") \in Contents
      BY DEF Contents
    <2> QED
      BY <1>1, <1>2, <1>6, <2>1 DEF HostStates
  <1> QED
    BY <1>6, <1>7, <1>8 DEF Untouched

\* The fixed parts of the two courses.
LEMMA LongStages ==
  LET A == <<"config", "auth", "unit", "acl", "profile", "manifest", "check", "reload">>
      B == <<"enable", "start", "health", "manifest">>
      C == <<"acl", "unit", "check", "reload", "enable", "start", "health", "manifest", "marker">>
      S == SetupFiles \cup {"check", "reload", "enable", "start", "health", "marker"}
  IN /\ A \in Seq(S) /\ Holds(A, "config") /\ Holds(A, "unit") /\ Holds(A, "reload")
     /\ ~Holds(A, "start") /\ ~Holds(A, "marker") /\ After(A, "reload", "unit")
     /\ B \in Seq(S) /\ Holds(B, "enable") /\ Holds(B, "start") /\ ~Holds(B, "reload")
     /\ ~Holds(B, "marker")
     /\ After(B, "start", "enable")
     /\ C \in Seq(S) /\ Holds(C, "marker") /\ Holds(C, "enable") /\ Holds(C, "start")
     /\ Holds(C, "reload")
     /\ OnlyLast(C, "marker") /\ After(C, "start", "enable") /\ After(C, "reload", "unit")
  <1> DEFINE S == SetupFiles \cup {"check", "reload", "enable", "start", "health", "marker"}
             A == <<"config", "auth", "unit", "acl", "profile", "manifest", "check", "reload">>
             B == <<"enable", "start", "health", "manifest">>
             C == <<"acl", "unit", "check", "reload", "enable", "start", "health", "manifest", "marker">>
  <1>0. /\ "config" \in S /\ "auth" \in S /\ "unit" \in S /\ "acl" \in S /\ "profile" \in S
        /\ "manifest" \in S
        /\ "check" \in S /\ "reload" \in S /\ "enable" \in S /\ "start" \in S /\ "health" \in S
        /\ "marker" \in S
    BY DEF SetupFiles
  <1>1. A \in Seq(S) /\ B \in Seq(S) /\ C \in Seq(S)
    <2> HIDE DEF S
    <2> QED
      BY <1>0
  <1>2. /\ Len(A) = 8 /\ A[1] = "config" /\ A[2] = "auth" /\ A[3] = "unit" /\ A[4] = "acl"
        /\ A[5] = "profile"
        /\ A[6] = "manifest" /\ A[7] = "check" /\ A[8] = "reload"
    OBVIOUS
  <1>3. Len(B) = 4 /\ B[1] = "enable" /\ B[2] = "start" /\ B[3] = "health" /\ B[4] = "manifest"
    OBVIOUS
  <1>4. /\ Len(C) = 9 /\ C[1] = "acl" /\ C[2] = "unit" /\ C[3] = "check" /\ C[4] = "reload"
        /\ C[5] = "enable"
        /\ C[6] = "start" /\ C[7] = "health" /\ C[8] = "manifest" /\ C[9] = "marker"
    OBVIOUS
  <1> HIDE DEF S, A, B, C
  <1>5. /\ Holds(A, "config") /\ Holds(A, "unit") /\ Holds(A, "reload")
        /\ ~Holds(A, "start") /\ ~Holds(A, "marker") /\ After(A, "reload", "unit")
    <2>1. \A i \in 1 .. 8 : i = 1 \/ i = 2 \/ i = 3 \/ i = 4 \/ i = 5 \/ i = 6 \/ i = 7 \/ i = 8
      OBVIOUS
    <2>2. 1 \in 1 .. 8 /\ 3 \in 1 .. 8 /\ 8 \in 1 .. 8 /\ 3 \in 1 .. 8 - 1
      OBVIOUS
    <2> QED
      BY <1>2, <2>1, <2>2 DEF Holds, After
  <1>6. /\ Holds(B, "enable") /\ Holds(B, "start") /\ ~Holds(B, "reload") /\ ~Holds(B, "marker")
        /\ After(B, "start", "enable")
    <2>1. \A i \in 1 .. 4 : i = 1 \/ i = 2 \/ i = 3 \/ i = 4
      OBVIOUS
    <2>2. 1 \in 1 .. 4 /\ 2 \in 1 .. 4 /\ 1 \in 1 .. 2 - 1
      OBVIOUS
    <2> QED
      BY <1>3, <2>1, <2>2 DEF Holds, After
  <1>7. /\ Holds(C, "marker") /\ Holds(C, "enable") /\ Holds(C, "start") /\ Holds(C, "reload")
        /\ OnlyLast(C, "marker") /\ After(C, "start", "enable") /\ After(C, "reload", "unit")
    <2>1. \A i \in 1 .. 9 : i = 1 \/ i = 2 \/ i = 3 \/ i = 4 \/ i = 5 \/ i = 6 \/ i = 7 \/ i = 8 \/ i = 9
      OBVIOUS
    <2>2. 4 \in 1 .. 9 /\ 5 \in 1 .. 9 /\ 6 \in 1 .. 9 /\ 9 \in 1 .. 9 /\ 5 \in 1 .. 6 - 1
          /\ 2 \in 1 .. 4 - 1
      OBVIOUS
    <2> QED
      BY <1>4, <2>1, <2>2 DEF Holds, After, OnlyLast
  <1> QED
    BY <1>1, <1>5, <1>6, <1>7 DEF S, A, B, C

\* What a setup plans: nothing runs before what it needs.
LEMMA PlanFacts ==
  ASSUME NEW h, h.ports \subseteq FirewallPorts
  PROVE  LET q == IF h.marker THEN ResumeStages(h) ELSE ApplyStages(h) IN
         /\ q \in Seq(CourseStages) /\ \A p \in h.ports : ~Holds(q, p)
         /\ After(q, "start", "enable") /\ After(q, "reload", "unit") /\ OnlyLast(q, "marker")
         /\ Holds(q, "enable") /\ Holds(q, "start") /\ Holds(q, "reload")
         /\ h.marker => Holds(q, "marker")
         /\ ~h.marker => After(q, "start", "config") /\ \A p \in FirewallPorts \ h.ports : Holds(q, p)
  <1> DEFINE S == SetupFiles \cup {"check", "reload", "enable", "start", "health", "marker"}
             A == <<"config", "auth", "unit", "acl", "profile", "manifest", "check", "reload">>
             B == <<"enable", "start", "health", "manifest">>
             C == <<"acl", "unit", "check", "reload", "enable", "start", "health", "manifest", "marker">>
             I == Identities \ h.ids
             O == FirewallPorts \ h.ports
             P == SetToSeq(I)
             Q == SetToSeq(O)
  <1>1. /\ A \in Seq(S) /\ Holds(A, "config") /\ Holds(A, "unit") /\ Holds(A, "reload")
        /\ ~Holds(A, "start") /\ ~Holds(A, "marker") /\ After(A, "reload", "unit")
        /\ B \in Seq(S) /\ Holds(B, "enable") /\ Holds(B, "start") /\ ~Holds(B, "reload")
        /\ ~Holds(B, "marker")
        /\ After(B, "start", "enable")
        /\ C \in Seq(S) /\ Holds(C, "marker") /\ Holds(C, "enable") /\ Holds(C, "start")
        /\ Holds(C, "reload")
        /\ OnlyLast(C, "marker") /\ After(C, "start", "enable") /\ After(C, "reload", "unit")
    BY LongStages
  <1>2. IF h.marker THEN ResumeStages(h) = P \o C ELSE ApplyStages(h) = ((P \o A) \o Q) \o B
    BY DEF ResumeStages, ApplyStages
  <1>3. IsFiniteSet(I) /\ IsFiniteSet(O)
    <2>1. IsFiniteSet({}) /\ IsFiniteSet({} \cup {"group"})
          /\ IsFiniteSet(({} \cup {"group"}) \cup {"user"})
      BY FS_EmptySet, FS_AddElement
    <2>2. Identities = ({} \cup {"group"}) \cup {"user"}
      BY DEF Identities
    <2>3. IsFiniteSet(Identities) /\ IsFiniteSet(FirewallPorts)
      BY <2>1, <2>2, SetupAssumption
    <2>4. I \subseteq Identities /\ O \subseteq FirewallPorts
      OBVIOUS
    <2> QED
      BY <2>3, <2>4, FS_Subset
  <1>4. /\ P \in Seq(I) /\ Q \in Seq(O)
        /\ \A x \in O : \E i \in 1 .. Len(Q) : Q[i] = x
    BY <1>3, SetToSeqCovers
  <1> DEFINE T == CourseStages
  <1>5. I \subseteq T /\ O \subseteq T /\ S \subseteq T
    BY DEF CourseStages
  <1>6. P \in Seq(T) /\ Q \in Seq(T) /\ A \in Seq(T) /\ B \in Seq(T) /\ C \in Seq(T)
    <2> HIDE DEF S, A, B, C, P, Q, I, O, T
    <2> QED
      BY <1>1, <1>4, <1>5, SeqMonotonic
  <1>7. ASSUME NEW s \in S
        PROVE  ~Holds(P, s) /\ ~Holds(Q, s) /\ s \notin FirewallPorts
    <2>1. s \notin FirewallPorts
      BY SetupAssumption DEF SetupCommands
    <2>2. s \notin I /\ s \notin O
      BY <2>1 DEF Identities, SetupFiles
    <2> QED
      BY <2>1, <2>2, <1>4, OwnElements
  <1>8. ASSUME NEW p \in FirewallPorts
        PROVE  ~Holds(P, p) /\ ~Holds(A, p) /\ ~Holds(B, p) /\ ~Holds(C, p)
    <2>1. p \notin I /\ p \notin S
      BY SetupAssumption DEF SetupCommands
    <2>2. P \in Seq(I) /\ A \in Seq(S) /\ B \in Seq(S) /\ C \in Seq(S)
      BY <1>1, <1>4
    <2> HIDE DEF I, S, P, A, B, C
    <2> QED
      BY <2>1, <2>2, OwnElements
  <1>9. ASSUME NEW p \in FirewallPorts
        PROVE  Holds(Q, p) <=> p \notin h.ports
    <2>1. Holds(Q, p) => p \in O
      <3> HIDE DEF O, Q
      <3> QED
        BY <1>4, OwnElements
    <2>2. p \in O => Holds(Q, p)
      <3> HIDE DEF O, Q
      <3> QED
        BY <1>4 DEF Holds
    <2> QED
      BY <2>1, <2>2
  <1>10. /\ "start" \in S /\ "reload" \in S /\ "marker" \in S /\ "config" \in S /\ "unit" \in S
    BY DEF SetupFiles
  <1> HIDE DEF S, A, B, C, I, O, P, Q, T
  <1>11. CASE h.marker
    <2> DEFINE q == P \o C
    <2>1. q \in Seq(T) /\ \A s : Holds(q, s) <=> Holds(P, s) \/ Holds(C, s)
      BY <1>6, Joined, JoinedHolds
    <2>2. \A p \in h.ports : ~Holds(q, p)
      BY <2>1, <1>8
    <2>3. OnlyLast(q, "marker")
      BY <1>1, <1>6, <1>7, <1>10, JoinedHolds
    <2>4. After(q, "start", "enable") /\ After(q, "reload", "unit")
      <3>1. After(P, "start", "enable") /\ After(P, "reload", "unit")
        BY <1>7, <1>10, NoneHolds
      <3> QED
        BY <3>1, <1>1, <1>6, JoinedHolds
    <2>5. Holds(q, "enable") /\ Holds(q, "start") /\ Holds(q, "reload") /\ Holds(q, "marker")
      BY <2>1, <1>1
    <2> HIDE DEF q
    <2>6. (IF h.marker THEN ResumeStages(h) ELSE ApplyStages(h)) = q
      BY <1>2, <1>11 DEF q
    <2> QED
      BY <1>11, <2>1, <2>2, <2>3, <2>4, <2>5, <2>6 DEF T
  <1>12. CASE ~h.marker
    <2> DEFINE q1 == P \o A
               q2 == q1 \o Q
               q3 == q2 \o B
    <2>1. q1 \in Seq(T) /\ \A s : Holds(q1, s) <=> Holds(P, s) \/ Holds(A, s)
      BY <1>6, Joined, JoinedHolds
    <2>2. After(q1, "reload", "unit")
      <3>1. After(P, "reload", "unit")
        BY <1>7, <1>10, NoneHolds
      <3> QED
        BY <3>1, <1>1, <1>6, JoinedHolds
    <2> HIDE DEF q1
    <2>3. q2 \in Seq(T) /\ \A s : Holds(q2, s) <=> Holds(q1, s) \/ Holds(Q, s)
      BY <2>1, <1>6, Joined, JoinedHolds
    <2>4. After(q2, "reload", "unit")
      BY <2>1, <2>2, <1>1, <1>6, JoinedHolds
    <2> HIDE DEF q2
    <2>5. q3 \in Seq(T) /\ \A s : Holds(q3, s) <=> Holds(q2, s) \/ Holds(B, s)
      BY <2>3, <1>6, Joined, JoinedHolds
    <2>6. After(q3, "reload", "unit")
      BY <2>1, <2>3, <2>4, <1>1, <1>6, JoinedHolds
    <2>7. After(q3, "start", "enable") /\ After(q3, "start", "config")
      <3>1. ~Holds(q2, "start") /\ Holds(q2, "config")
        BY <2>1, <2>3, <1>1, <1>7, <1>10
      <3>2. After(q2, "start", "enable") /\ After(q2, "start", "config")
        BY <3>1, NoneHolds
      <3> QED
        BY <3>1, <3>2, <1>1, <1>6, <2>3, JoinedHolds
    <2> HIDE DEF q3
    <2>8. OnlyLast(q3, "marker")
      <3>1. ~Holds(q3, "marker")
        BY <2>1, <2>3, <2>5, <1>1, <1>7, <1>10
      <3> QED
        BY <3>1, NoneHolds
    <2>9. \A p \in FirewallPorts : Holds(q3, p) <=> p \notin h.ports
      BY <2>1, <2>3, <2>5, <1>8, <1>9
    <2>10. Holds(q3, "enable") /\ Holds(q3, "start") /\ Holds(q3, "reload")
      BY <2>1, <2>3, <2>5, <1>1
    <2>11. (IF h.marker THEN ResumeStages(h) ELSE ApplyStages(h)) = q3
      BY <1>2, <1>12 DEF q1, q2, q3
    <2>12. \A p \in h.ports : p \in FirewallPorts
      OBVIOUS
    <2> QED
      BY <1>12, <2>5, <2>6, <2>7, <2>8, <2>9, <2>10, <2>11, <2>12 DEF T
  <1> QED
    BY <1>11, <1>12

\* At first nothing is done, and all of it is to come.
LEMMA SetupInvInit ==
  ASSUME SetupInit
  PROVE  SetupInv
  <1>1. host \in Hosts /\ first = host
    BY DEF SetupInit
  <1>2. Untouched(host)
    BY <1>1, FoundHosts
  <1>3. host \in HostStates /\ host.ports \subseteq FirewallPorts /\ host.marker \in BOOLEAN
    BY <1>2 DEF Untouched, HostStates
  <1>4. /\ mode = (IF host.marker THEN "resume" ELSE "apply")
        /\ stages = (IF host.marker THEN ResumeStages(host) ELSE ApplyStages(host))
        /\ staged = << >> /\ opened = << >> /\ flags = {} /\ doubts = {} /\ outcome = "running"
    BY DEF SetupInit
  <1>5. /\ stages \in Seq(CourseStages) /\ \A p \in host.ports : ~Holds(stages, p)
        /\ After(stages, "start", "enable") /\ After(stages, "reload", "unit")
        /\ OnlyLast(stages, "marker")
        /\ Holds(stages, "enable") /\ Holds(stages, "start") /\ Holds(stages, "reload")
        /\ host.marker => Holds(stages, "marker")
        /\ ~host.marker => /\ After(stages, "start", "config")
                           /\ \A p \in FirewallPorts \ host.ports : Holds(stages, p)
    BY <1>3, <1>4, PlanFacts
  <1>6. ToSet(<< >>) = {} /\ << >> \in Seq(SetupFiles) /\ << >> \in Seq(FirewallPorts)
    BY DEF ToSet
  <1>7. Steady
    BY <1>1, <1>2, <1>3, <1>4, <1>6 DEF Steady
  <1>8. Noted
    BY <1>1, <1>4, <1>5, <1>6 DEF Noted
  <1>9. Outstanding
    BY <1>3, <1>4, <1>5 DEF Outstanding
  <1>10. SetupAllOrNothing
    BY <1>4 DEF SetupAllOrNothing
  <1> QED
    BY <1>4, <1>7, <1>8, <1>9, <1>10 DEF SetupInv

\* The files that a stage makes the setup remember.
LEMMA RememberedFiles ==
  ASSUME staged \in Seq(SetupFiles), NEW s
  PROVE  Remembered(s) \in Seq(SetupFiles)
  /\ ToSet(Remembered(s)) = ToSet(staged) \cup ({s} \cap SetupFiles)
  <1>1. CASE s \in SetupFiles \ ToSet(staged)
    <2>1. Remembered(s) = Append(staged, s)
      BY <1>1 DEF Remembered
    <2>2. Append(staged, s) \in Seq(SetupFiles) /\ ToSet(Append(staged, s)) = ToSet(staged) \cup {s}
      BY <1>1, ToSetAppend
    <2> QED
      BY <1>1, <2>1, <2>2
  <1>2. CASE s \notin SetupFiles \ ToSet(staged)
    <2>1. Remembered(s) = staged
      BY <1>2 DEF Remembered
    <2> QED
      BY <1>2, <2>1
  <1> QED
    BY <1>1, <1>2

\* What a stage of the course does to the host, and what it leaves alone.
LEMMA CourseMoves ==
  ASSUME host \in HostStates, NEW s \in CourseStages
  PROVE  LET g == Staged(host, s) IN
         /\ g \in HostStates
         /\ \A f \in SetupFiles : g.files[f] = IF f = s THEN "new" ELSE host.files[f]
         /\ s = "reload" => g.loaded = host.files["unit"]
         /\ s # "reload" => g.loaded = host.loaded
         /\ s = "enable" => g.link = TRUE
         /\ s # "enable" => g.link = host.link
         /\ s = "start" => g.active = TRUE /\ g.runs = host.files["config"]
         /\ s # "start" => g.active = host.active /\ g.runs = host.runs
         /\ s = "marker" => g.marker = FALSE
         /\ s # "marker" => g.marker = host.marker
         /\ g.ports = host.ports \cup ({s} \cap FirewallPorts)
  <1> DEFINE g == Staged(host, s)
  <1>1. Moved(host, g, s)
    BY HostMoves
  <1>2. s # "disable" /\ s # "restart" /\ s # "stop"
    BY SetupAssumption DEF CourseStages, SetupFiles, Identities, SetupCommands
  <1>3. host.files \in [SetupFiles -> Contents]
    BY DEF HostStates
  <1> HIDE DEF g
  <1>4. \A f \in SetupFiles : g.files[f] = IF f = s THEN "new" ELSE host.files[f]
    BY <1>1, <1>3 DEF Moved
  <1>5. g.ports = host.ports \cup ({s} \cap FirewallPorts)
    BY <1>1 DEF Moved
  <1>6. g.marker = IF s = "marker" THEN FALSE ELSE host.marker
    BY <1>1 DEF Moved
  <1>7. g.link = IF s = "enable" THEN TRUE ELSE host.link
    BY <1>1, <1>2 DEF Moved
  <1>8. /\ g.active = IF s = "start" THEN TRUE ELSE host.active
        /\ g.runs = IF s = "start" THEN host.files["config"] ELSE host.runs
    BY <1>1, <1>2 DEF Moved
  <1>9. g.loaded = IF s = "reload" THEN host.files["unit"] ELSE host.loaded
    BY <1>1 DEF Moved
  <1> QED
    BY <1>1, <1>4, <1>5, <1>6, <1>7, <1>8, <1>9 DEF g, Moved

\* A stage is done: what it was for is there, or something still to come is for it.
LEMMA SetupInvStageDone ==
  ASSUME SetupInv, StageDone
  PROVE  SetupInv'
  <1> DEFINE s == Head(stages)
             q == Tail(stages)
  <1>1. outcome = "running" /\ stages # << >> /\ Steady /\ Noted /\ Outstanding
    BY DEF SetupInv, StageDone
  <1>2. stages \in Seq(CourseStages)
    BY <1>1 DEF Noted
  <1>3. /\ s \in CourseStages /\ q \in Seq(CourseStages) /\ stages' = q /\ host' = Staged(host, s)
        /\ staged' = Remembered(s) /\ opened' = IF s \in FirewallPorts THEN Append(opened, s) ELSE opened
        /\ flags' = flags \cup FlagsFor(s)
        /\ first' = first /\ mode' = mode /\ doubts' = doubts /\ outcome' = "running"
    BY <1>1, <1>2, QueueRest DEF StageDone
  <1>4. host \in HostStates /\ staged \in Seq(SetupFiles) /\ opened \in Seq(FirewallPorts)
    BY <1>1 DEF Steady
  <1>5. /\ host' \in HostStates
        /\ \A f \in SetupFiles : host'.files[f] = IF f = s THEN "new" ELSE host.files[f]
        /\ s = "reload" => host'.loaded = host.files["unit"]
        /\ s # "reload" => host'.loaded = host.loaded
        /\ s = "enable" => host'.link = TRUE
        /\ s # "enable" => host'.link = host.link
        /\ s = "start" => host'.active = TRUE /\ host'.runs = host.files["config"]
        /\ s # "start" => host'.active = host.active /\ host'.runs = host.runs
        /\ s = "marker" => host'.marker = FALSE
        /\ s # "marker" => host'.marker = host.marker
        /\ host'.ports = host.ports \cup ({s} \cap FirewallPorts)
    <2> HIDE DEF s
    <2>1. LET g == Staged(host, s) IN
        /\ g \in HostStates
        /\ \A f \in SetupFiles : g.files[f] = IF f = s THEN "new" ELSE host.files[f]
        /\ s = "reload" => g.loaded = host.files["unit"]
        /\ s # "reload" => g.loaded = host.loaded
        /\ s = "enable" => g.link = TRUE
        /\ s # "enable" => g.link = host.link
        /\ s = "start" => g.active = TRUE /\ g.runs = host.files["config"]
        /\ s # "start" => g.active = host.active /\ g.runs = host.runs
        /\ s = "marker" => g.marker = FALSE
        /\ s # "marker" => g.marker = host.marker
        /\ g.ports = host.ports \cup ({s} \cap FirewallPorts)
      BY <1>3, <1>4, CourseMoves
    <2> QED
      BY <1>3, <2>1
  <1>6. /\ \A x : Holds(q, x) => Holds(stages, x)
        /\ \A x : Holds(stages, x) => s = x \/ Holds(q, x)
        /\ \A x, y : After(stages, x, y) => s # x /\ (s = y \/ After(q, x, y))
        /\ OnlyLast(stages, "marker") => OnlyLast(q, "marker") /\ (s = "marker" => q = << >>)
    BY <1>1, <1>2, LastRest, HoldsRest, AfterRest
  <1>7. /\ staged' \in Seq(SetupFiles) /\ ToSet(staged') = ToSet(staged) \cup ({s} \cap SetupFiles)
    BY <1>3, <1>4, RememberedFiles
  <1>8. opened' \in Seq(FirewallPorts)
        /\ ToSet(opened') = ToSet(opened) \cup ({s} \cap FirewallPorts)
    <2>1. CASE s \in FirewallPorts
      <3>1. Append(opened, s) \in Seq(FirewallPorts)
            /\ ToSet(Append(opened, s)) = ToSet(opened) \cup {s}
        BY <2>1, <1>4, ToSetAppend
      <3> QED
        BY <1>3, <2>1, <3>1
    <2>2. CASE s \notin FirewallPorts
      BY <1>3, <1>4, <2>2
    <2> QED
      BY <2>1, <2>2
  <1>9. /\ flags' \subseteq {"reload", "touched"} /\ flags \subseteq flags'
        /\ s = "reload" => "reload" \in flags'
        /\ s = "enable" => "touched" \in flags'
    BY <1>1, <1>3 DEF Steady, FlagsFor
  <1>10. Holds(stages, s)
    BY <1>1, <1>2, QueueRest DEF Holds
  <1> HIDE DEF s, q
  <1>11. Steady'
    BY <1>1, <1>3, <1>5, <1>7, <1>8, <1>9 DEF Steady, Untouched
  <1>12. Noted'
    <2>1. \A f \in ToSet(staged') : f \in SetupFiles
      BY <1>7, OwnElements, <1>1, <1>4 DEF ToSet
    <2>2. \A f \in ToSet(staged') : host'.files[f] = "new"
      BY <1>1, <1>5, <1>7, <2>1 DEF Noted
    <2>3. s \notin first.ports
      BY <1>1, <1>10 DEF Noted
    <2>4. host'.ports = first.ports \cup ToSet(opened') /\ ToSet(opened') \cap first.ports = {}
      BY <1>1, <1>5, <1>8, <2>3 DEF Noted
    <2>5. \A p \in first.ports : ~Holds(q, p)
      BY <1>1, <1>6 DEF Noted
    <2>6. "reload" \in flags' \/ host'.loaded = first.loaded
      BY <1>1, <1>5, <1>9 DEF Noted
    <2>7. /\ "touched" \in flags' \/ (host'.link = first.link /\ host'.active = first.active /\ host'.runs = first.runs)
          /\ "touched" \in flags' \/ After(q, "start", "enable")
      BY <1>1, <1>5, <1>6, <1>9 DEF Noted
    <2>8. OnlyLast(q, "marker") /\ (q # << >> => host'.marker = first.marker)
      BY <1>1, <1>5, <1>6 DEF Noted
    <2> QED
      BY <1>3, <2>2, <2>4, <2>5, <2>6, <2>7, <2>8 DEF Noted
  <1>13. Outstanding'
    <2>0. "unit" \in SetupFiles /\ "config" \in SetupFiles
      BY DEF SetupFiles
    <2>1. ~host'.marker \/ Holds(q, "marker")
      BY <1>1, <1>5, <1>6 DEF Outstanding
    <2>2. host'.link \/ Holds(q, "enable")
      BY <1>1, <1>5, <1>6 DEF Outstanding
    <2>3. host'.active \/ Holds(q, "start")
      BY <1>1, <1>5, <1>6 DEF Outstanding
    <2>4. (host'.files["unit"] = "new" /\ host'.loaded = "new") \/ Holds(q, "reload")
      BY <1>1, <1>5, <1>6, <2>0 DEF Outstanding
    <2>5. host'.files["unit"] = "new" \/ After(q, "reload", "unit")
      BY <1>1, <1>5, <1>6, <2>0 DEF Outstanding
    <2>6. ASSUME mode = "apply"
          PROVE  /\ (host'.files["config"] = "new" /\ host'.runs = "new") \/ Holds(q, "start")
                 /\ host'.files["config"] = "new" \/ After(q, "start", "config")
                 /\ \A p \in FirewallPorts : p \in host'.ports \/ Holds(q, p)
      BY <1>1, <1>5, <1>6, <2>0, <2>6 DEF Outstanding
    <2> QED
      BY <1>3, <2>1, <2>2, <2>3, <2>4, <2>5, <2>6 DEF Outstanding
  <1> QED
    BY <1>3, <1>11, <1>12, <1>13 DEF SetupInv, SetupAllOrNothing

\* A stage fails: what the rollback has to put back was noted before.
LEMMA SetupInvStageFails ==
  ASSUME SetupInv, StageFails
  PROVE  SetupInv'
  <1> DEFINE s == Head(stages)
             fl == flags \cup Attempted(s)
  <1>1. outcome = "running" /\ stages # << >> /\ Steady /\ Noted /\ Outstanding
    BY DEF SetupInv, StageFails
  <1>2. stages \in Seq(CourseStages) /\ s \in CourseStages
    BY <1>1, QueueRest DEF Noted
  <1>3. /\ host' = host \/ (s # "marker" /\ host' = Staged(host, s))
        /\ staged' = Remembered(s) /\ flags' = fl /\ stages' = UndoStages(fl)
        /\ outcome' = "undoing" /\ broken' = IF s \in FirewallPorts THEN s ELSE "none"
        /\ first' = first /\ mode' = mode /\ opened' = opened /\ doubts' = doubts
    BY DEF StageFails
  <1>4. host \in HostStates /\ staged \in Seq(SetupFiles) /\ opened \in Seq(FirewallPorts)
        /\ Untouched(first)
    BY <1>1 DEF Steady
  <1>5. /\ host' \in HostStates
        /\ \A f \in SetupFiles : (host'.files[f] = "new" /\ f = s) \/ host'.files[f] = host.files[f]
        /\ s # "reload" => host'.loaded = host.loaded
        /\ s # "enable" => host'.link = host.link
        /\ s # "start" => host'.active = host.active /\ host'.runs = host.runs
        /\ host'.marker = host.marker
        /\ host.ports \subseteq host'.ports /\ host'.ports \subseteq host.ports \cup ({s} \cap FirewallPorts)
    <2> HIDE DEF s
    <2>1. LET g == Staged(host, s) IN
        /\ g \in HostStates
        /\ \A f \in SetupFiles : g.files[f] = IF f = s THEN "new" ELSE host.files[f]
        /\ s # "reload" => g.loaded = host.loaded
        /\ s # "enable" => g.link = host.link
        /\ s # "start" => g.active = host.active /\ g.runs = host.runs
        /\ s # "marker" => g.marker = host.marker
        /\ g.ports = host.ports \cup ({s} \cap FirewallPorts)
      BY <1>2, <1>4, CourseMoves
    <2> QED
      BY <1>3, <1>4, <2>1
  <1>6. staged' \in Seq(SetupFiles) /\ ToSet(staged') = ToSet(staged) \cup ({s} \cap SetupFiles)
    BY <1>3, <1>4, RememberedFiles
  <1>7. /\ flags' \subseteq {"reload", "touched"} /\ flags \subseteq flags'
        /\ s = "reload" => "reload" \in flags'
        /\ s = "enable" => "touched" \in flags'
    BY <1>1, <1>3 DEF Steady, FlagsFor, Attempted
  <1>8. "touched" \in flags' \/ s # "start"
    BY <1>1, <1>2, <1>7, AfterRest DEF Noted
  <1>u. /\ stages' \in Seq(ReturnStages) /\ Holds(stages', "files")
        /\ \A p \in FirewallPorts : Holds(stages', p) <=> p \in ToSet(opened)
        /\ "reload" \in flags' => Holds(stages', "reload")
        /\ After(stages', "reload", "files") /\ After(stages', "restart", "files")
        /\ "touched" \in flags' => /\ EndsIn(stages', "observe")
                                   /\ Holds(stages', IF first.active THEN "restart" ELSE "stop")
        /\ "touched" \notin flags' => \A x \in Touching : ~Holds(stages', x)
        /\ Holds(stages', "restart") => first.active
        /\ first.active => Before(stages', "stop", "restart")
    BY <1>3, <1>4, UndoFacts
  <1> HIDE DEF s, fl
  <1>9. Steady'
    BY <1>1, <1>3, <1>4, <1>5, <1>6, <1>7 DEF Steady, Untouched
  <1>10. Returning'
    <2>1. /\ host'.ports \subseteq first.ports \cup ToSet(opened) \cup {broken'}
          /\ first.ports \subseteq host'.ports /\ ToSet(opened) \cap first.ports = {}
          /\ host'.marker = first.marker
      BY <1>1, <1>3, <1>5 DEF Noted
    <2>2. "reload" \in flags' \/ host'.loaded = first.loaded
      BY <1>1, <1>5, <1>7 DEF Noted
    <2>3. "touched" \in flags' \/ (host'.link = first.link /\ host'.active = first.active /\ host'.runs = first.runs)
      BY <1>1, <1>5, <1>7, <1>8 DEF Noted
    <2> QED
      BY <1>3, <1>u, <2>1, <2>2, <2>3 DEF Returning
  <1> QED
    BY <1>3, <1>u, <1>9, <1>10 DEF SetupInv, SetupAllOrNothing

\* Nothing is left to do: everything is there.
LEMMA SetupInvCommitted ==
  ASSUME SetupInv, SetupCommitted
  PROVE  SetupInv'
  <1>1. outcome = "running" /\ stages = << >> /\ Steady /\ Outstanding
    BY DEF SetupInv, SetupCommitted
  <1>2. \A x : ~Holds(stages, x)
    BY <1>1, EmptyHolds
  <1>3. /\ host.active /\ host.loaded = "new" /\ host.link /\ ~host.marker
        /\ mode = "apply" => host.runs = "new" /\ FirewallPorts \subseteq host.ports
    BY <1>1, <1>2 DEF Outstanding
  <1>4. Steady' /\ outcome' = "ok" /\ host' = host /\ mode' = mode
    BY <1>1 DEF SetupCommitted, Steady, Untouched
  <1> QED
    BY <1>3, <1>4 DEF SetupInv, SetupAllOrNothing

\* What a part of a rollback does to the host.
LEMMA RollbackMoves ==
  ASSUME host \in HostStates, NEW s \in ReturnStages, s \notin FirewallPorts
  PROVE  LET g == Staged(host, s) IN
         /\ g \in HostStates /\ g.files = host.files /\ g.ports = host.ports
         /\ g.marker = host.marker
         /\ s = "reload" => g.loaded = host.files["unit"]
         /\ s # "reload" => g.loaded = host.loaded
         /\ s \notin Touching => g.link = host.link /\ g.active = host.active /\ g.runs = host.runs
         /\ s = "stop" => g.runs = "absent"
         /\ s = "restart" => g.runs = host.files["config"]
         /\ s \notin {"stop", "restart"} => g.runs = host.runs
  <1> DEFINE g == Staged(host, s)
  <1>1. Moved(host, g, s)
    BY HostMoves
  <1>2. s \notin SetupFiles /\ s # "marker" /\ s # "start"
    BY DEF ReturnStages, Touching, SetupFiles
  <1> HIDE DEF g
  <1> QED
    BY <1>1, <1>2 DEF g, Moved, Touching

\* Some of the files are put back.
LEMMA FilesReturned ==
  ASSUME host \in HostStates, NEW put
  PROVE  LET g == [host EXCEPT !.files = [f \in SetupFiles |-> IF f \in put THEN first.files[f] ELSE @[f]]] IN
         /\ g.files = [f \in SetupFiles |-> IF f \in put THEN first.files[f] ELSE host.files[f]]
         /\ first \in HostStates => g \in HostStates
         /\ g.ports = host.ports /\ g.marker = host.marker /\ g.loaded = host.loaded
         /\ g.link = host.link /\ g.active = host.active /\ g.runs = host.runs
  <1> DEFINE F == [f \in SetupFiles |-> IF f \in put THEN first.files[f] ELSE host.files[f]]
             g == [host EXCEPT !.files = F]
  <1>1. first \in HostStates => F \in [SetupFiles -> Contents]
    BY DEF HostStates
  <1> HIDE DEF F
  <1>2. /\ g.files = F /\ g.ports = host.ports /\ g.marker = host.marker /\ g.loaded = host.loaded
        /\ g.link = host.link /\ g.active = host.active /\ g.runs = host.runs
        /\ F \in [SetupFiles -> Contents] => g \in HostStates
    BY DEF HostStates
  <1> QED
    BY <1>1, <1>2 DEF F

\* A part of the rollback that is done: a port is closed, the files are put back, or a command.
LEMMA SetupInvUndoStageDone ==
  ASSUME SetupInv, UndoStageDone
  PROVE  SetupInv'
  <1> DEFINE s == Head(stages)
             q == Tail(stages)
  <1>1. outcome = "undoing" /\ stages # << >> /\ Steady /\ stages \in Seq(ReturnStages)
    BY DEF SetupInv, UndoStageDone
  <1>2. s \in ReturnStages /\ q \in Seq(ReturnStages)
    BY <1>1, QueueRest
  <1>3. /\ host' = CASE s \in FirewallPorts -> [host EXCEPT !.ports = @ \ {s}]
                     [] s = "files" -> FilesPutBack(host)
                     [] OTHER -> Staged(host, s)
        /\ s = "observe" => Observed(host) = Observed(first)
        /\ stages' = q
        /\ first' = first /\ mode' = mode /\ staged' = staged /\ opened' = opened /\ flags' = flags
        /\ doubts' = doubts /\ outcome' = "undoing" /\ broken' = broken
    BY <1>1 DEF UndoStageDone
  <1>4. /\ host \in HostStates /\ first \in HostStates /\ Untouched(first)
        /\ \A f \in SetupFiles \ ToSet(staged) : host.files[f] = first.files[f]
    BY <1>1 DEF Steady, Untouched
  <1>5. s \in FirewallPorts => s # "files" /\ s # "reload" /\ s # "observe" /\ s \notin Touching
    BY SetupAssumption DEF SetupCommands, Touching
  <1>6. /\ \A x : Holds(q, x) => Holds(stages, x)
        /\ \A x : Holds(stages, x) => s = x \/ Holds(q, x)
        /\ \A x, y : After(stages, x, y) => s # x /\ (s = y \/ After(q, x, y))
        /\ \A x, y : Before(stages, x, y) => Before(q, x, y) /\ (s = x => Holds(q, y))
        /\ \A x : EndsIn(stages, x) => IF q = << >> THEN s = x ELSE EndsIn(q, x)
        /\ Holds(stages, s)
    <2>1. Holds(stages, s)
      BY <1>1, QueueRest DEF Holds
    <2>2. \A x, y : Before(stages, x, y) => Before(q, x, y) /\ (s = x => Holds(q, y))
      BY <1>1, LastRest
    <2>3. \A x : EndsIn(stages, x) => IF q = << >> THEN s = x ELSE EndsIn(q, x)
      BY <1>1, LastRest
    <2>4. \A x : (Holds(q, x) => Holds(stages, x)) /\ (Holds(stages, x) => s = x \/ Holds(q, x))
      BY <1>1, LastRest, HoldsRest
    <2>5. \A x, y : After(stages, x, y) => s # x /\ (s = y \/ After(q, x, y))
      BY <1>1, AfterRest
    <2> QED
      BY <2>1, <2>2, <2>3, <2>4, <2>5
  <1> HIDE DEF s, q
  <1>7. /\ host' \in HostStates /\ host'.marker = host.marker
        /\ host'.ports = host.ports \ ({s} \cap FirewallPorts)
        /\ s = "files" => host'.files = first.files
        /\ s # "files" => host'.files = host.files
        /\ s = "reload" => host'.loaded = host.files["unit"]
        /\ s # "reload" => host'.loaded = host.loaded
        /\ s \notin Touching => host'.link = host.link /\ host'.active = host.active /\ host'.runs = host.runs
        /\ s = "stop" => host'.runs = "absent"
        /\ s = "restart" => host'.runs = host.files["config"]
        /\ s \notin {"stop", "restart"} => host'.runs = host.runs
    <2>1. CASE s \in FirewallPorts
      <3>1. host' = [host EXCEPT !.ports = @ \ {s}]
        BY <1>3, <1>5, <2>1
      <3>2. LET g == [host EXCEPT !.ports = @ \ {s}] IN
            /\ g \in HostStates /\ g.files = host.files /\ g.ports = host.ports \ {s}
            /\ g.marker = host.marker
            /\ g.loaded = host.loaded /\ g.link = host.link /\ g.active = host.active
            /\ g.runs = host.runs
        BY <1>4 DEF HostStates
      <3>3. s # "stop" /\ s # "restart"
        BY <1>5, <2>1 DEF Touching
      <3> QED
        BY <1>5, <2>1, <3>1, <3>2, <3>3
    <2>2. CASE s = "files"
      <3>1. s \notin FirewallPorts /\ s \notin Touching
        BY <1>5, <2>2 DEF Touching
      <3>2. host' = FilesPutBack(host)
        BY <1>3, <2>2, <3>1
      <3>3. LET g == FilesPutBack(host) IN
           /\ g.files = [f \in SetupFiles |-> IF f \in ToSet(staged) THEN first.files[f] ELSE host.files[f]]
           /\ g \in HostStates
           /\ g.ports = host.ports /\ g.marker = host.marker /\ g.loaded = host.loaded
           /\ g.link = host.link /\ g.active = host.active /\ g.runs = host.runs
        BY <1>4, FilesReturned DEF FilesPutBack
      <3>4. [f \in SetupFiles |-> IF f \in ToSet(staged) THEN first.files[f] ELSE host.files[f]] = first.files
        BY <1>4 DEF HostStates
      <3> QED
        BY <2>2, <3>1, <3>2, <3>3, <3>4
    <2>3. CASE s \notin FirewallPorts /\ s # "files"
      <3>1. host' = Staged(host, s)
        BY <1>3, <2>3
      <3> QED
        BY <1>2, <1>4, <2>3, <3>1, RollbackMoves
    <2> QED
      BY <2>1, <2>2, <2>3
  <1>8. Steady'
    <2>1. \A f \in SetupFiles \ ToSet(staged) : host'.files[f] = first.files[f]
      BY <1>4, <1>7
    <2> QED
      BY <1>1, <1>3, <1>7, <2>1 DEF Steady, Untouched
  <1>9. ASSUME Returning
        PROVE  Returning'
    <2>1. host'.files = first.files \/ Holds(q, "files")
      BY <1>6, <1>7, <1>9 DEF Returning
    <2>2. /\ first.ports \subseteq host'.ports
          /\ \A p \in FirewallPorts : /\ p \in first.ports => ~Holds(q, p)
                                      /\ p \in host'.ports => p = broken \/ p \in first.ports \/ Holds(q, p)
      <3>1. s \in FirewallPorts => s \notin first.ports
        <4>1. Holds(stages, s)
          BY <1>6
        <4> QED
          BY <1>9, <4>1 DEF Returning
      <3> QED
        BY <1>6, <1>7, <1>9, <3>1 DEF Returning
    <2>3. host'.marker = first.marker
      BY <1>7, <1>9 DEF Returning
    <2>4. host'.loaded = first.loaded \/ Holds(q, "reload")
      <3>1. s = "reload" => host.files = first.files
        BY <1>6, <1>9 DEF Returning
      <3>2. first.loaded = first.files["unit"]
        BY <1>4 DEF Untouched
      <3> QED
        BY <1>6, <1>7, <1>9, <3>1, <3>2 DEF Returning
    <2>5. host'.files = first.files \/ (After(q, "reload", "files") /\ After(q, "restart", "files"))
      BY <1>6, <1>7, <1>9 DEF Returning
    <2>6. \/ EndsIn(q, "observe")
          \/ q = << >> /\ Observed(host') = Observed(first)
          \/ /\ host'.link = first.link /\ host'.active = first.active
             /\ \A x \in Touching : ~Holds(q, x)
      <3>1. CASE EndsIn(stages, "observe") /\ q = << >>
        <4>1. s = "observe"
          BY <1>6, <3>1
        <4>2. s \notin FirewallPorts /\ s \notin Touching
          BY <1>5, <4>1 DEF Touching
        <4>3. Observed(host') = Observed(host)
          BY <1>7, <4>1, <4>2 DEF Observed
        <4> QED
          BY <1>3, <3>1, <4>1, <4>3
      <3>2. CASE EndsIn(stages, "observe") /\ q # << >>
        BY <1>6, <3>2
      <3>3. CASE /\ host.link = first.link /\ host.active = first.active
                 /\ \A x \in Touching : ~Holds(stages, x)
        BY <1>6, <1>7, <3>3
      <3> QED
        BY <1>1, <1>9, <3>1, <3>2, <3>3 DEF Returning
    <2>7. host'.runs = first.runs \/ Holds(q, IF first.active THEN "restart" ELSE "stop")
      <3>1. CASE s = "restart"
        <4>1. first.active /\ host.files = first.files
          BY <1>6, <1>9, <3>1 DEF Returning
        <4>2. first.runs = "old" /\ first.files["config"] = "old"
          BY <1>4, <4>1 DEF Untouched
        <4> QED
          BY <1>7, <3>1, <4>1, <4>2
      <3>2. CASE s = "stop"
        <4>1. CASE first.active
          BY <1>6, <1>9, <3>2, <4>1 DEF Returning
        <4>2. CASE ~first.active
          BY <1>4, <1>7, <3>2, <4>2 DEF Untouched
        <4> QED
          BY <4>1, <4>2
      <3>3. CASE s \notin {"stop", "restart"}
        BY <1>6, <1>7, <1>9, <3>3 DEF Returning
      <3> QED
        BY <3>1, <3>2, <3>3
    <2>8. (Holds(q, "restart") => first.active) /\ (first.active => Before(q, "stop", "restart"))
      BY <1>6, <1>9 DEF Returning
    <2> QED
      BY <1>3, <2>1, <2>2, <2>3, <2>4, <2>5, <2>6, <2>7, <2>8 DEF Returning, Observed
  <1>10. doubts # {} \/ Returning
    BY <1>1 DEF SetupInv
  <1> QED
    BY <1>2, <1>3, <1>8, <1>9, <1>10 DEF SetupInv, SetupAllOrNothing

\* A part that failed leaves a doubt, and the host in some state.
LEMMA SetupInvUndoStageFails ==
  ASSUME SetupInv, UndoStageFails
  PROVE  SetupInv'
  <1> DEFINE s == Head(stages)
  <1>1. outcome = "undoing" /\ stages # << >> /\ Steady /\ stages \in Seq(ReturnStages)
    BY DEF SetupInv, UndoStageFails
  <1>2. s \in ReturnStages /\ Tail(stages) \in Seq(ReturnStages)
    BY <1>1, QueueRest
  <1>3. /\ host' \in CASE s = "files" -> PartsPutBack(host)
                      [] s \in FirewallPorts -> {host, [host EXCEPT !.ports = @ \ {s}]}
                      [] OTHER -> {host, Staged(host, s)}
        /\ doubts' = doubts \cup {s} /\ stages' = Tail(stages)
        /\ first' = first /\ mode' = mode /\ staged' = staged /\ opened' = opened /\ flags' = flags
        /\ outcome' = "undoing"
    BY <1>1 DEF UndoStageFails
  <1>4. /\ host \in HostStates /\ first \in HostStates
        /\ \A f \in SetupFiles \ ToSet(staged) : host.files[f] = first.files[f]
    BY <1>1 DEF Steady, Untouched
  <1> HIDE DEF s
  <1>5. host' \in HostStates /\ \A f \in SetupFiles \ ToSet(staged) : host'.files[f] = first.files[f]
    <2>1. CASE s = "files"
      <3>1. "files" \notin FirewallPorts
        BY SetupAssumption DEF SetupCommands
      <3>2. host' \in PartsPutBack(host)
        BY <1>3, <2>1, <3>1
      <3>3. PICK put \in SUBSET ToSet(staged) :
              host' = [host EXCEPT !.files = [f \in SetupFiles |-> IF f \in put THEN first.files[f] ELSE @[f]]]
        BY <3>2 DEF PartsPutBack
      <3>4. /\ host'.files = [f \in SetupFiles |-> IF f \in put THEN first.files[f] ELSE host.files[f]]
            /\ host' \in HostStates
        BY <1>4, <3>3, FilesReturned
      <3> QED
        BY <1>4, <3>4
    <2>2. CASE s \in FirewallPorts
      <3>1. s # "files"
        BY SetupAssumption, <2>2 DEF SetupCommands
      <3>2. host' = host \/ host' = [host EXCEPT !.ports = @ \ {s}]
        BY <1>3, <2>2, <3>1
      <3>3. LET g == [host EXCEPT !.ports = @ \ {s}] IN g \in HostStates /\ g.files = host.files
        BY <1>4 DEF HostStates
      <3> QED
        BY <1>4, <3>2, <3>3
    <2>3. CASE s \notin FirewallPorts /\ s # "files"
      <3>1. host' = host \/ host' = Staged(host, s)
        BY <1>3, <2>3
      <3>2. Staged(host, s) \in HostStates /\ Staged(host, s).files = host.files
        BY <1>2, <1>4, <2>3, RollbackMoves
      <3> QED
        BY <1>4, <3>1, <3>2
    <2> QED
      BY <2>1, <2>2, <2>3
  <1>6. Steady'
    BY <1>1, <1>3, <1>5 DEF Steady, Untouched
  <1> QED
    BY <1>2, <1>3, <1>6 DEF SetupInv, SetupAllOrNothing

\* A rollback of which no part failed has put everything back.
LEMMA SetupInvRolledBack ==
  ASSUME SetupInv, RolledBack
  PROVE  SetupInv'
  <1>1. outcome = "undoing" /\ stages = << >> /\ Steady /\ (doubts # {} \/ Returning)
    BY DEF SetupInv, RolledBack
  <1>2. /\ host' = host \/ host' = [host EXCEPT !.ids = first.ids]
        /\ outcome' = IF doubts = {} THEN "failed" ELSE "incomplete"
        /\ first' = first /\ mode' = mode /\ stages' = stages /\ staged' = staged
        /\ opened' = opened
        /\ flags' = flags /\ doubts' = doubts /\ broken' = broken
    BY DEF RolledBack
  <1>3. host \in HostStates /\ first \in HostStates
    BY <1>1 DEF Steady, Untouched
  <1>4. /\ host' \in HostStates /\ host'.files = host.files /\ host'.link = host.link
        /\ host'.loaded = host.loaded
        /\ host'.active = host.active /\ host'.marker = host.marker /\ host'.runs = host.runs
        /\ host'.ports = host.ports
    BY <1>2, <1>3 DEF HostStates
  <1>5. Steady'
    BY <1>1, <1>2, <1>4 DEF Steady, Untouched
  <1>6. ASSUME doubts = {}
        PROVE  /\ host.files = first.files /\ host.marker = first.marker
               /\ first.ports \subseteq host.ports /\ host.ports \subseteq first.ports \cup {broken}
               /\ Observed(host) = Observed(first) /\ host.runs = first.runs
    <2>1. Returning /\ \A x : ~Holds(stages, x)
      BY <1>1, <1>6, EmptyHolds
    <2>2. ~EndsIn(stages, "observe")
      BY <1>1 DEF EndsIn
    <2>3. host.files = first.files /\ host.marker = first.marker /\ host.runs = first.runs
          /\ host.loaded = first.loaded
      BY <2>1 DEF Returning
    <2>4. Observed(host) = Observed(first)
      BY <2>1, <2>2, <2>3 DEF Returning, Observed
    <2>5. first.ports \subseteq host.ports /\ host.ports \subseteq first.ports \cup {broken}
      <3>1. host.ports \subseteq FirewallPorts
        BY <1>3 DEF HostStates
      <3> QED
        BY <2>1, <3>1 DEF Returning
    <2> QED
      BY <2>3, <2>4, <2>5
  <1>7. SetupAllOrNothing'
    <2>1. Observed(host') = Observed(host)
      BY <1>4 DEF Observed
    <2>2. Observed(first)' = Observed(first) /\ Observed(host)' = Observed(host')
      BY <1>2 DEF Observed
    <2>3. outcome' = "failed" => doubts = {}
      BY <1>2
    <2>4. outcome' # "ok"
      BY <1>2
    <2> QED
      BY <1>2, <1>4, <1>6, <2>1, <2>2, <2>3, <2>4 DEF SetupAllOrNothing
  <1> QED
    BY <1>2, <1>5, <1>7 DEF SetupInv

\* Nothing happens.
LEMMA SetupInvStutters ==
  ASSUME SetupInv, UNCHANGED setupVars
  PROVE  SetupInv'
  BY DEF SetupInv, setupVars, Steady, Untouched, Noted, Outstanding, Returning, SetupAllOrNothing,
     Observed

(***************************************************************************)
(* SetupApplier: a setup is all or nothing.  One that reports success runs *)
(* what it installed, with every port open and no marker left; one that    *)
(* reports failure without a word of an incomplete rollback leaves files,  *)
(* marker and service as it found them, and of the ports it opened at most *)
(* the one that ufw reported a failure of.  For any ports, whichever stage *)
(* failed, before or after its effect; if a part of the rollback fails, it *)
(* says so.                                                                *)
(***************************************************************************)
THEOREM SetupsAllOrNothing == SetupSpec => []SetupAllOrNothing
  <1>1. SetupInit => SetupInv
    BY SetupInvInit
  <1>2. SetupInv /\ [SetupNext]_setupVars => SetupInv'
    BY SetupInvStageDone, SetupInvStageFails, SetupInvCommitted, SetupInvUndoStageDone,
       SetupInvUndoStageFails,
       SetupInvRolledBack, SetupInvStutters DEF SetupNext
  <1>3. SetupInv => SetupAllOrNothing
    BY DEF SetupInv
  <1> QED
    BY <1>1, <1>2, <1>3, PTL DEF SetupSpec
-----------------------------------------------------------------------------
(***************************************************************************)
(*                            ReleasePublication                           *)
(***************************************************************************)

\* The release as everybody sees it.
Public == release.id # 0 /\ ~release.draft
Exact ==
  Public /\ \E b \in 1 .. MaxAttempts : AssetBytes = [n \in Assets |-> Whole(b)] /\ ghcr = Whole(b)

PublicationTyped ==
  /\ at \in 1 .. 23 /\ attempt \in 1 .. MaxAttempts
  /\ out = [build |-> out.build, identity |-> out.identity, python |-> out.python, oci |-> out.oci,
            unsigned |-> out.unsigned, native |-> out.native, signed |-> out.signed,
            release |-> out.release, managed |-> out.managed]
  /\ pypi = [d \in Distributions |-> pypi[d]]
  /\ release = [id |-> release.id, draft |-> release.draft, notes |-> release.notes, assets |-> release.assets]
  /\ release.draft \in BOOLEAN
  /\ pages = [at |-> pages.at, attempt |-> pages.attempt]

\* What the jobs that are done have handed on is the one candidate.
CandidateKept ==
  /\ at > 2 => out.build \in 1 .. MaxAttempts
  /\ at > 5 => out.python = Whole(out.build)
  /\ at > 6 => out.oci = Whole(out.build)
  /\ at > 7 => out.unsigned = Whole(out.build)
  /\ at > 10 => out.signed = Whole(out.build)
  /\ at > 13 => out.release # 0

\* A draft has the assets it was made for, or foreign ones.
DraftNamed ==
  /\ release.id = 0 => ~release.draft /\ release.assets = << >>
  /\ release.draft =>
       /\ at >= 12 => release.notes = Preliminary
       /\ \A n \in DOMAIN release.assets : release.assets[n].bytes \in {release.notes[2], Foreign}

\* What is public is of the candidate; once anything is, a run that begins anew ends at once.
ChannelsInOrder ==
  /\ at = 1 \/ at >= 14 \/ \A d \in Distributions : pypi[d] = Nil
  /\ at >= 14 => \A d \in Distributions : pypi[d] \in {Nil, out.python}
  /\ at > 14 => \A d \in Distributions : pypi[d] = out.python
  /\ ghcr # Nil => (at = 1 \/ at >= 16) /\ \A d \in Distributions : pypi[d] # Nil
  /\ at >= 16 => ghcr \in {Nil, out.oci}
  /\ at > 16 => ghcr = out.oci
  /\ Public => (at = 1 \/ at >= 18) /\ ghcr # Nil
  /\ Public /\ at >= 18 => \A n \in DOMAIN release.assets : release.assets[n].bytes \in {out.signed, Foreign}

PublicationInv ==
  /\ PublicationTyped /\ CandidateKept /\ DraftNamed /\ ChannelsInOrder
  /\ \E b \in 1 .. MaxAttempts : PublicFiles \subseteq {Whole(b)}
  /\ at > 21 \/ verdict = "passed" \/ pages.at # "idle" => Exact

\* The steps by their numbers.
LEMMA StepTable ==
  /\ Steps[1] = <<"preflight", "preflight">>
  /\ Steps[2] = <<"candidate", "build">>
  /\ Steps[3] = <<"prepare", "fetch">>
  /\ Steps[4] = <<"prepare", "identities">>
  /\ Steps[5] = <<"prepare", "python">>
  /\ Steps[6] = <<"prepare", "oci">>
  /\ Steps[7] = <<"prepare", "assets">>
  /\ Steps[8] = <<"native", "native">>
  /\ Steps[9] = <<"readiness", "readiness">>
  /\ Steps[10] = <<"sign", "sign">>
  /\ Steps[11] = <<"draft", "find">>
  /\ Steps[12] = <<"draft", "upload">>
  /\ Steps[13] = <<"draft", "reread">>
  /\ Steps[14] = <<"publish_pypi", "pypi">>
  /\ Steps[15] = <<"post_pypi", "post_pypi">>
  /\ Steps[16] = <<"publish_ghcr", "ghcr">>
  /\ Steps[17] = <<"post_ghcr", "post_ghcr">>
  /\ Steps[18] = <<"publish_release", "compare">>
  /\ Steps[19] = <<"publish_release", "expose">>
  /\ Steps[20] = <<"publish_release", "confirm">>
  /\ Steps[21] = <<"post_release", "post_release">>
  /\ Steps[22] = <<"managed", "managed">>
  /\ Steps[23] = <<"gate", "gate">>
  BY DEF Steps

\* Where a step is.
LEMMA StepPlaces ==
  ASSUME at \in 1 .. 23, NEW s, AtStep(s)
  PROVE  /\ verdict = "running"
         /\ s = "preflight" => at = 1
         /\ s = "build" => at = 2
         /\ s = "fetch" => at = 3
         /\ s = "identities" => at = 4
         /\ s = "python" => at = 5
         /\ s = "oci" => at = 6
         /\ s = "assets" => at = 7
         /\ s = "native" => at = 8
         /\ s = "readiness" => at = 9
         /\ s = "sign" => at = 10
         /\ s = "find" => at = 11
         /\ s = "upload" => at = 12
         /\ s = "reread" => at = 13
         /\ s = "pypi" => at = 14
         /\ s = "post_pypi" => at = 15
         /\ s = "ghcr" => at = 16
         /\ s = "post_ghcr" => at = 17
         /\ s = "compare" => at = 18
         /\ s = "expose" => at = 19
         /\ s = "confirm" => at = 20
         /\ s = "post_release" => at = 21
         /\ s = "managed" => at = 22
         /\ s = "gate" => at = 23
  <1> DEFINE name(i) == Steps[i][2]
  <1>1. /\ name(1) = "preflight" /\ name(2) = "build" /\ name(3) = "fetch" /\ name(4) = "identities"
        /\ name(5) = "python" /\ name(6) = "oci" /\ name(7) = "assets" /\ name(8) = "native"
        /\ name(9) = "readiness" /\ name(10) = "sign" /\ name(11) = "find" /\ name(12) = "upload"
        /\ name(13) = "reread" /\ name(14) = "pypi" /\ name(15) = "post_pypi" /\ name(16) = "ghcr"
        /\ name(17) = "post_ghcr" /\ name(18) = "compare" /\ name(19) = "expose"
        /\ name(20) = "confirm"
        /\ name(21) = "post_release" /\ name(22) = "managed" /\ name(23) = "gate"
    BY StepTable
  <1>2. verdict = "running" /\ name(at) = s
    BY DEF AtStep
  <1> HIDE DEF name
  <1>3. \/ at = 1 \/ at = 2 \/ at = 3 \/ at = 4 \/ at = 5 \/ at = 6 \/ at = 7 \/ at = 8
        \/ at = 9 \/ at = 10 \/ at = 11 \/ at = 12 \/ at = 13 \/ at = 14 \/ at = 15 \/ at = 16
        \/ at = 17 \/ at = 18 \/ at = 19 \/ at = 20 \/ at = 21 \/ at = 22 \/ at = 23
    OBVIOUS
  <1> QED
    BY <1>1, <1>2, <1>3

\* The job of a step begins at the same step or before it, and not before what is public.
LEMMA JobBegins ==
  ASSUME NEW i \in 1 .. 23
  PROVE  /\ FirstOfJob(i) \in 1 .. i
         /\ \A k \in {14, 16, 18} : i >= k => FirstOfJob(i) >= k
  <1> DEFINE name(j) == Steps[j][1]
             T == {j \in 1 .. i : name(j) = name(i)}
  <1>1. /\ name(1) = "preflight" /\ name(2) = "candidate" /\ name(3) = "prepare"
        /\ name(4) = "prepare"
        /\ name(5) = "prepare" /\ name(6) = "prepare" /\ name(7) = "prepare" /\ name(8) = "native"
        /\ name(9) = "readiness" /\ name(10) = "sign" /\ name(11) = "draft" /\ name(12) = "draft"
        /\ name(13) = "draft" /\ name(14) = "publish_pypi" /\ name(15) = "post_pypi"
        /\ name(16) = "publish_ghcr"
        /\ name(17) = "post_ghcr" /\ name(18) = "publish_release" /\ name(19) = "publish_release"
        /\ name(20) = "publish_release"
        /\ name(21) = "post_release" /\ name(22) = "managed" /\ name(23) = "gate"
    BY StepTable
  <1>2. T \in SUBSET Nat /\ i \in T
    OBVIOUS
  <1>3. PICK m \in T : \A j \in T : m <= j
    BY <1>2, LeastNumber
  <1>4. m \in 1 .. i /\ name(m) = name(i) /\ \A k \in 1 .. m - 1 : name(k) # name(i)
    BY <1>3
  <1>5. FirstOfJob(i) \in 1 .. i /\ name(FirstOfJob(i)) = name(i)
    BY <1>4 DEF FirstOfJob
  <1> DEFINE f == FirstOfJob(i)
  <1>6. f \in 1 .. i /\ name(f) = name(i)
    BY <1>5
  <1> HIDE DEF f, name, T
  <1>7. \/ i = 1 \/ i = 2 \/ i = 3 \/ i = 4 \/ i = 5 \/ i = 6 \/ i = 7 \/ i = 8
        \/ i = 9 \/ i = 10 \/ i = 11 \/ i = 12 \/ i = 13 \/ i = 14 \/ i = 15 \/ i = 16
        \/ i = 17 \/ i = 18 \/ i = 19 \/ i = 20 \/ i = 21 \/ i = 22 \/ i = 23
    OBVIOUS
  <1>8. \/ f = 1 \/ f = 2 \/ f = 3 \/ f = 4 \/ f = 5 \/ f = 6 \/ f = 7 \/ f = 8
        \/ f = 9 \/ f = 10 \/ f = 11 \/ f = 12 \/ f = 13 \/ f = 14 \/ f = 15 \/ f = 16
        \/ f = 17 \/ f = 18 \/ f = 19 \/ f = 20 \/ f = 21 \/ f = 22 \/ f = 23
    BY <1>6
  <1>9. i >= 14 => f >= 14
    BY <1>1, <1>6, <1>7, <1>8
  <1>10. i >= 16 => f >= 16
    BY <1>1, <1>6, <1>7, <1>8
  <1>11. i >= 18 => f >= 18
    BY <1>1, <1>6, <1>7, <1>8
  <1> QED
    BY <1>6, <1>9, <1>10, <1>11 DEF f

\* The outputs, changed in one field.
OutEta(o) ==
  o = [build |-> o.build, identity |-> o.identity, python |-> o.python, oci |-> o.oci,
       unsigned |-> o.unsigned, native |-> o.native, signed |-> o.signed,
       release |-> o.release, managed |-> o.managed]
OutExcept(o, p, fields) ==
  /\ "build" \in fields \/ p.build = o.build
  /\ "identity" \in fields \/ p.identity = o.identity
  /\ "python" \in fields \/ p.python = o.python
  /\ "oci" \in fields \/ p.oci = o.oci
  /\ "unsigned" \in fields \/ p.unsigned = o.unsigned
  /\ "native" \in fields \/ p.native = o.native
  /\ "signed" \in fields \/ p.signed = o.signed
  /\ "release" \in fields \/ p.release = o.release
  /\ "managed" \in fields \/ p.managed = o.managed

\* What a job puts out, field by field.
LEMMA OutFields ==
  ASSUME NEW o, OutEta(o), NEW v
  PROVE  /\ LET p == [o EXCEPT !.build = v] IN OutEta(p) /\ p.build = v /\ OutExcept(o, p, {"build"})
         /\ LET p == [o EXCEPT !.identity = v] IN OutEta(p) /\ p.identity = v /\ OutExcept(o, p, {"identity"})
         /\ LET p == [o EXCEPT !.python = v] IN OutEta(p) /\ p.python = v /\ OutExcept(o, p, {"python"})
         /\ LET p == [o EXCEPT !.oci = v] IN OutEta(p) /\ p.oci = v /\ OutExcept(o, p, {"oci"})
         /\ LET p == [o EXCEPT !.unsigned = v] IN OutEta(p) /\ p.unsigned = v /\ OutExcept(o, p, {"unsigned"})
         /\ LET p == [o EXCEPT !.native = v] IN OutEta(p) /\ p.native = v /\ OutExcept(o, p, {"native"})
         /\ LET p == [o EXCEPT !.signed = v] IN OutEta(p) /\ p.signed = v /\ OutExcept(o, p, {"signed"})
         /\ LET p == [o EXCEPT !.release = v] IN OutEta(p) /\ p.release = v /\ OutExcept(o, p, {"release"})
         /\ LET p == [o EXCEPT !.managed = v] IN OutEta(p) /\ p.managed = v /\ OutExcept(o, p, {"managed"})
  <1>1. LET p == [o EXCEPT !.build = v] IN OutEta(p) /\ p.build = v /\ OutExcept(o, p, {"build"})
    <2> DEFINE p == [build |-> v, identity |-> o.identity, python |-> o.python, oci |-> o.oci, unsigned |-> o.unsigned,
                      native |-> o.native, signed |-> o.signed, release |-> o.release, managed |-> o.managed]
    <2>1. [o EXCEPT !.build = v] = p
      BY DEF OutEta
    <2>2. OutEta(p) /\ p.build = v /\ OutExcept(o, p, {"build"})
      BY DEF OutEta, OutExcept
    <2> QED
      BY <2>1, <2>2
  <1>2. LET p == [o EXCEPT !.identity = v] IN OutEta(p) /\ p.identity = v /\ OutExcept(o, p, {"identity"})
    <2> DEFINE p == [build |-> o.build, identity |-> v, python |-> o.python, oci |-> o.oci, unsigned |-> o.unsigned,
                      native |-> o.native, signed |-> o.signed, release |-> o.release, managed |-> o.managed]
    <2>1. [o EXCEPT !.identity = v] = p
      BY DEF OutEta
    <2>2. OutEta(p) /\ p.identity = v /\ OutExcept(o, p, {"identity"})
      BY DEF OutEta, OutExcept
    <2> QED
      BY <2>1, <2>2
  <1>3. LET p == [o EXCEPT !.python = v] IN OutEta(p) /\ p.python = v /\ OutExcept(o, p, {"python"})
    <2> DEFINE p == [build |-> o.build, identity |-> o.identity, python |-> v, oci |-> o.oci, unsigned |-> o.unsigned,
                      native |-> o.native, signed |-> o.signed, release |-> o.release, managed |-> o.managed]
    <2>1. [o EXCEPT !.python = v] = p
      BY DEF OutEta
    <2>2. OutEta(p) /\ p.python = v /\ OutExcept(o, p, {"python"})
      BY DEF OutEta, OutExcept
    <2> QED
      BY <2>1, <2>2
  <1>4. LET p == [o EXCEPT !.oci = v] IN OutEta(p) /\ p.oci = v /\ OutExcept(o, p, {"oci"})
    <2> DEFINE p == [build |-> o.build, identity |-> o.identity, python |-> o.python, oci |-> v, unsigned |-> o.unsigned,
                      native |-> o.native, signed |-> o.signed, release |-> o.release, managed |-> o.managed]
    <2>1. [o EXCEPT !.oci = v] = p
      BY DEF OutEta
    <2>2. OutEta(p) /\ p.oci = v /\ OutExcept(o, p, {"oci"})
      BY DEF OutEta, OutExcept
    <2> QED
      BY <2>1, <2>2
  <1>5. LET p == [o EXCEPT !.unsigned = v] IN OutEta(p) /\ p.unsigned = v /\ OutExcept(o, p, {"unsigned"})
    <2> DEFINE p == [build |-> o.build, identity |-> o.identity, python |-> o.python, oci |-> o.oci, unsigned |-> v,
                      native |-> o.native, signed |-> o.signed, release |-> o.release, managed |-> o.managed]
    <2>1. [o EXCEPT !.unsigned = v] = p
      BY DEF OutEta
    <2>2. OutEta(p) /\ p.unsigned = v /\ OutExcept(o, p, {"unsigned"})
      BY DEF OutEta, OutExcept
    <2> QED
      BY <2>1, <2>2
  <1>6. LET p == [o EXCEPT !.native = v] IN OutEta(p) /\ p.native = v /\ OutExcept(o, p, {"native"})
    <2> DEFINE p == [build |-> o.build, identity |-> o.identity, python |-> o.python, oci |-> o.oci, unsigned |-> o.unsigned,
                      native |-> v, signed |-> o.signed, release |-> o.release, managed |-> o.managed]
    <2>1. [o EXCEPT !.native = v] = p
      BY DEF OutEta
    <2>2. OutEta(p) /\ p.native = v /\ OutExcept(o, p, {"native"})
      BY DEF OutEta, OutExcept
    <2> QED
      BY <2>1, <2>2
  <1>7. LET p == [o EXCEPT !.signed = v] IN OutEta(p) /\ p.signed = v /\ OutExcept(o, p, {"signed"})
    <2> DEFINE p == [build |-> o.build, identity |-> o.identity, python |-> o.python, oci |-> o.oci, unsigned |-> o.unsigned,
                      native |-> o.native, signed |-> v, release |-> o.release, managed |-> o.managed]
    <2>1. [o EXCEPT !.signed = v] = p
      BY DEF OutEta
    <2>2. OutEta(p) /\ p.signed = v /\ OutExcept(o, p, {"signed"})
      BY DEF OutEta, OutExcept
    <2> QED
      BY <2>1, <2>2
  <1>8. LET p == [o EXCEPT !.release = v] IN OutEta(p) /\ p.release = v /\ OutExcept(o, p, {"release"})
    <2> DEFINE p == [build |-> o.build, identity |-> o.identity, python |-> o.python, oci |-> o.oci, unsigned |-> o.unsigned,
                      native |-> o.native, signed |-> o.signed, release |-> v, managed |-> o.managed]
    <2>1. [o EXCEPT !.release = v] = p
      BY DEF OutEta
    <2>2. OutEta(p) /\ p.release = v /\ OutExcept(o, p, {"release"})
      BY DEF OutEta, OutExcept
    <2> QED
      BY <2>1, <2>2
  <1>9. LET p == [o EXCEPT !.managed = v] IN OutEta(p) /\ p.managed = v /\ OutExcept(o, p, {"managed"})
    <2> DEFINE p == [build |-> o.build, identity |-> o.identity, python |-> o.python, oci |-> o.oci, unsigned |-> o.unsigned,
                      native |-> o.native, signed |-> o.signed, release |-> o.release, managed |-> v]
    <2>1. [o EXCEPT !.managed = v] = p
      BY DEF OutEta
    <2>2. OutEta(p) /\ p.managed = v /\ OutExcept(o, p, {"managed"})
      BY DEF OutEta, OutExcept
    <2> QED
      BY <2>1, <2>2
  <1> QED
    BY <1>1, <1>2, <1>3, <1>4, <1>5, <1>6, <1>7, <1>8, <1>9

\* A Release, changed in its assets, or published.
LEMMA ReleaseFields ==
  ASSUME PublicationTyped, NEW v
  PROVE  /\ LET r == [release EXCEPT !.assets = v] IN
            /\ r = [id |-> r.id, draft |-> r.draft, notes |-> r.notes, assets |-> r.assets]
            /\ r.assets = v /\ r.id = release.id /\ r.draft = release.draft
            /\ r.notes = release.notes
         /\ LET r == [release EXCEPT !.draft = FALSE, !.notes = v] IN
            /\ r = [id |-> r.id, draft |-> r.draft, notes |-> r.notes, assets |-> r.assets]
            /\ ~r.draft /\ r.draft \in BOOLEAN /\ r.notes = v /\ r.id = release.id
            /\ r.assets = release.assets
  <1>1. release = [id |-> release.id, draft |-> release.draft, notes |-> release.notes, assets |-> release.assets]
    BY DEF PublicationTyped
  <1>2. [release EXCEPT !.assets = v] = [id |-> release.id, draft |-> release.draft, notes |-> release.notes, assets |-> v]
    BY <1>1
  <1>d. ASSUME NEW d
        PROVE  LET r == [release EXCEPT !.draft = d] IN
               /\ r = [id |-> r.id, draft |-> r.draft, notes |-> r.notes, assets |-> r.assets]
               /\ r.draft = d /\ r.id = release.id /\ r.notes = release.notes
               /\ r.assets = release.assets
    <2>1. [release EXCEPT !.draft = d]
            = [id |-> release.id, draft |-> d, notes |-> release.notes, assets |-> release.assets]
      BY <1>1
    <2> QED
      BY <2>1
  <1> DEFINE q == [release EXCEPT !.draft = FALSE]
             r == [q EXCEPT !.notes = v]
  <1>3. /\ q = [id |-> q.id, draft |-> q.draft, notes |-> q.notes, assets |-> q.assets]
        /\ q.draft = FALSE /\ q.id = release.id /\ q.notes = release.notes
        /\ q.assets = release.assets
    BY <1>d
  <1>4. [release EXCEPT !.draft = FALSE, !.notes = v] = r
    OBVIOUS
  <1> HIDE DEF q
  <1>5. r = [id |-> q.id, draft |-> q.draft, notes |-> v, assets |-> q.assets]
    BY <1>3
  <1>6. /\ r = [id |-> r.id, draft |-> r.draft, notes |-> r.notes, assets |-> r.assets]
        /\ ~r.draft /\ r.draft \in BOOLEAN /\ r.notes = v /\ r.id = release.id
        /\ r.assets = release.assets
    BY <1>3, <1>5
  <1> QED
    BY <1>2, <1>4, <1>6 DEF q

\* Before the first upload to PyPI nothing is public.
LEMMA NothingPublic ==
  ASSUME PublicationInv, at < 14, at # 1 \/ Unused
  PROVE  Unused /\ ghcr = Nil /\ ~Public /\ pages.at = "idle"
  <1>1. Unused
    BY DEF PublicationInv, ChannelsInOrder, PublicationTyped, Unused
  <1>2. ghcr = Nil
    BY <1>1 DEF PublicationInv, ChannelsInOrder, Unused, Distributions
  <1>3. ~Public
    BY <1>2 DEF PublicationInv, ChannelsInOrder
  <1> QED
    BY <1>1, <1>2, <1>3 DEF PublicationInv, Exact

\* What was made public stays as it is.
LEMMA PublicStays ==
  ASSUME PublicationInv, UNCHANGED <<pypi, ghcr, release>>
  PROVE  /\ \E b \in 1 .. MaxAttempts : PublicFiles' \subseteq {Whole(b)}
         /\ Exact' = Exact /\ Public' = Public
  BY DEF PublicationInv, PublicFiles, Exact, Public, AssetBytes, Whole

\* A step of the preparation.
LEMMA EarlyStep ==
  ASSUME PublicationInv, at \in 1 .. 10 \cup {13}, at # 1 \/ Unused, at' = at + 1, verdict' = "running",
         Unpublished, UNCHANGED <<attempt, pages>>,
         OutEta(out'), CandidateKept', at = 13 => out'.signed = out.signed
  PROVE  PublicationInv'
  <1>1. Unused /\ ghcr = Nil /\ ~Public /\ pages.at = "idle"
    BY NothingPublic
  <1>2. /\ pypi' = pypi /\ ghcr' = ghcr /\ release' = release
    BY DEF Unpublished
  <1>3. PublicationTyped'
    BY <1>2 DEF PublicationInv, PublicationTyped, OutEta
  <1>4. DraftNamed'
    BY <1>2 DEF PublicationInv, PublicationTyped, DraftNamed, Preliminary
  <1>5. ChannelsInOrder'
    BY <1>1, <1>2 DEF PublicationInv, PublicationTyped, ChannelsInOrder, Public, Unused
  <1> QED
    BY <1>1, <1>2, <1>3, <1>4, <1>5, PublicStays DEF PublicationInv, PublicationTyped

\* A step between the publications, or after them.
LEMMA LateStep ==
  ASSUME PublicationInv, at \in {15, 17, 18, 20, 21, 22}, at' = at + 1, verdict' = "running",
         Unpublished, UNCHANGED <<attempt, pages>>,
         OutEta(out'), OutExcept(out, out', {"managed"}), at = 21 => Exact
  PROVE  PublicationInv'
  <1>2. /\ pypi' = pypi /\ ghcr' = ghcr /\ release' = release
    BY DEF Unpublished
  <1>o. /\ out'.build = out.build /\ out'.python = out.python /\ out'.oci = out.oci
        /\ out'.unsigned = out.unsigned /\ out'.signed = out.signed /\ out'.release = out.release
    BY DEF OutExcept
  <1>3. PublicationTyped'
    BY <1>2 DEF PublicationInv, PublicationTyped, OutEta
  <1>4. DraftNamed'
    BY <1>2, <1>o DEF PublicationInv, PublicationTyped, DraftNamed, Preliminary
  <1>5. ChannelsInOrder'
    BY <1>o, <1>2 DEF PublicationInv, PublicationTyped, ChannelsInOrder, Public
  <1>6. CandidateKept'
    BY <1>o DEF PublicationInv, PublicationTyped, CandidateKept
  <1> QED
    BY <1>2, <1>3, <1>4, <1>5, <1>6, PublicStays DEF PublicationInv, PublicationTyped

\* No step is done, and a job that is run again begins at its first.
LEMMA BackStep ==
  ASSUME PublicationInv, at' \in 1 .. at, \A k \in {14, 16, 18} : at >= k => at' >= k,
         Unpublished, UNCHANGED out, attempt' \in 1 .. MaxAttempts,
         pages' = [at |-> pages'.at, attempt |-> pages'.attempt],
         verdict' = "passed" \/ pages'.at # "idle" => Exact
  PROVE  PublicationInv'
  <1>2. /\ pypi' = pypi /\ ghcr' = ghcr /\ release' = release
    BY DEF Unpublished
  <1>a. at \in 1 .. 23 /\ (at >= 14 => at' >= 14) /\ (at >= 16 => at' >= 16) /\ (at >= 18 => at' >= 18)
    BY DEF PublicationInv, PublicationTyped
  <1>3. PublicationTyped'
    BY <1>2, <1>a DEF PublicationInv, PublicationTyped
  <1>4. DraftNamed'
    BY <1>2, <1>a DEF PublicationInv, DraftNamed, Preliminary
  <1>5. ChannelsInOrder'
    BY <1>2, <1>a DEF PublicationInv, ChannelsInOrder, Public
  <1>6. CandidateKept'
    BY <1>a DEF PublicationInv, CandidateKept
  <1>7. at' > 21 => Exact
    BY <1>a DEF PublicationInv
  <1> QED
    BY <1>2, <1>3, <1>4, <1>5, <1>6, <1>7, PublicStays DEF PublicationInv

\* Everything before the first publication.
LEMMA PreparationSteps ==
  ASSUME PublicationInv,
         \/ Preflight \/ Build \/ Fetch \/ PrepareIdentities \/ PrepareDistributions
         \/ PrepareOciCandidate \/ PrepareUnsignedAssets \/ NativeReadiness \/ VerifyNative
         \/ SignPreparedAssets \/ RereadDraft
  PROVE  PublicationInv'
  <1>0. /\ at \in 1 .. 23 /\ attempt \in 1 .. MaxAttempts /\ OutEta(out) /\ CandidateKept
        /\ DraftNamed
    BY DEF PublicationInv, PublicationTyped, OutEta
  <1>1. CASE Preflight
    <2>1. at = 1 /\ verdict = "running"
      BY <1>1, <1>0, StepPlaces DEF Preflight
    <2>2. at' = at + 1 /\ verdict' = "running" /\ Unpublished /\ UNCHANGED <<attempt, pages>>
      BY <1>1, <2>1 DEF Preflight, Advance, Elsewhere
    <2>3. OutEta(out') /\ out' = out
      BY <1>1, <1>0 DEF Preflight
    <2>4. CandidateKept'
      BY <1>0, <2>1, <2>2, <2>3 DEF CandidateKept
    <2>5. at = 13 => out'.signed = out.signed
      BY <2>1, <2>3
    <2> QED
      BY <1>1, <2>1, <2>2, <2>3, <2>4, <2>5, EarlyStep DEF Preflight
  <1>2. CASE Build
    <2>1. at = 2 /\ verdict = "running"
      BY <1>2, <1>0, StepPlaces DEF Build
    <2>2. at' = at + 1 /\ verdict' = "running" /\ Unpublished /\ UNCHANGED <<attempt, pages>>
      BY <1>2, <2>1 DEF Build, Advance, Elsewhere
    <2>3. OutEta(out') /\ out'.build = attempt /\ OutExcept(out, out', {"build"})
      BY <1>2, <1>0, OutFields DEF Build
    <2>4. CandidateKept'
      BY <1>2, <1>0, <2>1, <2>2, <2>3 DEF Build, OutExcept, CandidateKept
    <2>5. at = 13 => out'.signed = out.signed
      BY <2>1, <2>3 DEF OutExcept
    <2> QED
      BY <1>2, <2>1, <2>2, <2>3, <2>4, <2>5, EarlyStep
  <1>3. CASE Fetch
    <2>1. at = 3 /\ verdict = "running"
      BY <1>3, <1>0, StepPlaces DEF Fetch
    <2>2. at' = at + 1 /\ verdict' = "running" /\ Unpublished /\ UNCHANGED <<attempt, pages>>
      BY <1>3, <2>1 DEF Fetch, Advance, Elsewhere
    <2>3. OutEta(out') /\ out' = out
      BY <1>3, <1>0 DEF Fetch
    <2>4. CandidateKept'
      BY <1>0, <2>1, <2>2, <2>3 DEF CandidateKept
    <2>5. at = 13 => out'.signed = out.signed
      BY <2>1, <2>3
    <2> QED
      BY <1>3, <2>1, <2>2, <2>3, <2>4, <2>5, EarlyStep
  <1>4. CASE PrepareIdentities
    <2>1. at = 4 /\ verdict = "running"
      BY <1>4, <1>0, StepPlaces DEF PrepareIdentities
    <2>2. at' = at + 1 /\ verdict' = "running" /\ Unpublished /\ UNCHANGED <<attempt, pages>>
      BY <1>4, <2>1 DEF PrepareIdentities, Advance, Elsewhere
    <2>3. OutEta(out') /\ out'.identity = [build |-> out.build, attempt |-> attempt]
          /\ OutExcept(out, out', {"identity"})
      BY <1>4, <1>0, OutFields DEF PrepareIdentities
    <2>4. CandidateKept'
      BY <1>4, <1>0, <2>1, <2>2, <2>3 DEF PrepareIdentities, OutExcept, CandidateKept
    <2>5. at = 13 => out'.signed = out.signed
      BY <2>1, <2>3 DEF OutExcept
    <2> QED
      BY <1>4, <2>1, <2>2, <2>3, <2>4, <2>5, EarlyStep
  <1>5. CASE PrepareDistributions
    <2>1. at = 5 /\ verdict = "running"
      BY <1>5, <1>0, StepPlaces DEF PrepareDistributions
    <2>2. at' = at + 1 /\ verdict' = "running" /\ Unpublished /\ UNCHANGED <<attempt, pages>>
      BY <1>5, <2>1 DEF PrepareDistributions, Advance, Elsewhere
    <2>3. OutEta(out') /\ out'.python = archive /\ OutExcept(out, out', {"python"})
      BY <1>5, <1>0, OutFields DEF PrepareDistributions
    <2>4. CandidateKept'
      BY <1>5, <1>0, <2>1, <2>2, <2>3 DEF PrepareDistributions, OutExcept, CandidateKept,
         Authenticated
    <2>5. at = 13 => out'.signed = out.signed
      BY <2>1, <2>3 DEF OutExcept
    <2> QED
      BY <1>5, <2>1, <2>2, <2>3, <2>4, <2>5, EarlyStep
  <1>6. CASE PrepareOciCandidate
    <2>1. at = 6 /\ verdict = "running"
      BY <1>6, <1>0, StepPlaces DEF PrepareOciCandidate
    <2>2. at' = at + 1 /\ verdict' = "running" /\ Unpublished /\ UNCHANGED <<attempt, pages>>
      BY <1>6, <2>1 DEF PrepareOciCandidate, Advance, Elsewhere
    <2>3. OutEta(out') /\ out'.oci = archive /\ OutExcept(out, out', {"oci"})
      BY <1>6, <1>0, OutFields DEF PrepareOciCandidate
    <2>4. CandidateKept'
      BY <1>6, <1>0, <2>1, <2>2, <2>3 DEF PrepareOciCandidate, OutExcept, CandidateKept,
         Authenticated
    <2>5. at = 13 => out'.signed = out.signed
      BY <2>1, <2>3 DEF OutExcept
    <2> QED
      BY <1>6, <2>1, <2>2, <2>3, <2>4, <2>5, EarlyStep
  <1>7. CASE PrepareUnsignedAssets
    <2>1. at = 7 /\ verdict = "running"
      BY <1>7, <1>0, StepPlaces DEF PrepareUnsignedAssets
    <2>2. at' = at + 1 /\ verdict' = "running" /\ Unpublished /\ UNCHANGED <<attempt, pages>>
      BY <1>7, <2>1 DEF PrepareUnsignedAssets, Advance, Elsewhere
    <2>3. OutEta(out') /\ out'.unsigned = archive /\ OutExcept(out, out', {"unsigned"})
      BY <1>7, <1>0, OutFields DEF PrepareUnsignedAssets
    <2>4. CandidateKept'
      BY <1>7, <1>0, <2>1, <2>2, <2>3 DEF PrepareUnsignedAssets, OutExcept, CandidateKept,
         Authenticated
    <2>5. at = 13 => out'.signed = out.signed
      BY <2>1, <2>3 DEF OutExcept
    <2> QED
      BY <1>7, <2>1, <2>2, <2>3, <2>4, <2>5, EarlyStep
  <1>8. CASE NativeReadiness
    <2>1. at = 8 /\ verdict = "running"
      BY <1>8, <1>0, StepPlaces DEF NativeReadiness
    <2>2. at' = at + 1 /\ verdict' = "running" /\ Unpublished /\ UNCHANGED <<attempt, pages>>
      BY <1>8, <2>1 DEF NativeReadiness, Advance, Elsewhere
    <2>3. OutEta(out') /\ out'.native = attempt /\ OutExcept(out, out', {"native"})
      BY <1>8, <1>0, OutFields DEF NativeReadiness
    <2>4. CandidateKept'
      BY <1>8, <1>0, <2>1, <2>2, <2>3 DEF NativeReadiness, OutExcept, CandidateKept
    <2>5. at = 13 => out'.signed = out.signed
      BY <2>1, <2>3 DEF OutExcept
    <2> QED
      BY <1>8, <2>1, <2>2, <2>3, <2>4, <2>5, EarlyStep
  <1>9. CASE VerifyNative
    <2>1. at = 9 /\ verdict = "running"
      BY <1>9, <1>0, StepPlaces DEF VerifyNative
    <2>2. at' = at + 1 /\ verdict' = "running" /\ Unpublished /\ UNCHANGED <<attempt, pages>>
      BY <1>9, <2>1 DEF VerifyNative, Advance, Elsewhere
    <2>3. OutEta(out') /\ out' = out
      BY <1>9, <1>0 DEF VerifyNative
    <2>4. CandidateKept'
      BY <1>0, <2>1, <2>2, <2>3 DEF CandidateKept
    <2>5. at = 13 => out'.signed = out.signed
      BY <2>1, <2>3
    <2> QED
      BY <1>9, <2>1, <2>2, <2>3, <2>4, <2>5, EarlyStep
  <1>10. CASE SignPreparedAssets
    <2>1. at = 10 /\ verdict = "running"
      BY <1>10, <1>0, StepPlaces DEF SignPreparedAssets
    <2>2. at' = at + 1 /\ verdict' = "running" /\ Unpublished /\ UNCHANGED <<attempt, pages>>
      BY <1>10, <2>1 DEF SignPreparedAssets, Advance, Elsewhere
    <2>3. OutEta(out') /\ out'.signed = out.unsigned /\ OutExcept(out, out', {"signed"})
      <3>1. PICK v : v = out.unsigned
        OBVIOUS
      <3>2. out' = [out EXCEPT !.signed = v]
        BY <1>10, <3>1 DEF SignPreparedAssets
      <3>3. OutEta(out') /\ out'.signed = v /\ OutExcept(out, out', {"signed"})
        BY <1>0, <3>2, OutFields
      <3> QED
        BY <3>1, <3>3
    <2>4. CandidateKept'
      BY <1>10, <1>0, <2>1, <2>2, <2>3 DEF SignPreparedAssets, OutExcept, CandidateKept
    <2>5. at = 13 => out'.signed = out.signed
      BY <2>1, <2>3 DEF OutExcept
    <2> QED
      BY <1>10, <2>1, <2>2, <2>3, <2>4, <2>5, EarlyStep
  <1>13. CASE RereadDraft
    <2>1. at = 13 /\ verdict = "running"
      BY <1>13, <1>0, StepPlaces DEF RereadDraft
    <2>2. at' = at + 1 /\ verdict' = "running" /\ Unpublished /\ UNCHANGED <<attempt, pages>>
      BY <1>13, <2>1 DEF RereadDraft, Advance, Elsewhere
    <2>3. OutEta(out') /\ out'.release = release.id /\ OutExcept(out, out', {"release"})
      BY <1>13, <1>0, OutFields DEF RereadDraft
    <2>4. CandidateKept'
      BY <1>13, <1>0, <2>1, <2>2, <2>3 DEF RereadDraft, OutExcept, CandidateKept, Bound
    <2>5. at = 13 => out'.signed = out.signed
      BY <2>1, <2>3 DEF OutExcept
    <2> QED
      BY <1>13, <2>1, <2>2, <2>3, <2>4, <2>5, EarlyStep
  <1> QED
    BY <1>1, <1>2, <1>3, <1>4, <1>5, <1>6, <1>7, <1>8, <1>9, <1>10, <1>13

\* The checks between the publications and after them.
LEMMA VerificationSteps ==
  ASSUME PublicationInv,
         VerifyPyPI \/ VerifyGHCR \/ CompareAssets \/ ConfirmRelease \/ PostRelease \/ PostManaged
  PROVE  PublicationInv'
  <1>0. at \in 1 .. 23 /\ OutEta(out) /\ CandidateKept
    BY DEF PublicationInv, PublicationTyped, OutEta
  <1>15. CASE VerifyPyPI
    <2>1. at = 15 /\ verdict = "running"
      BY <1>15, <1>0, StepPlaces DEF VerifyPyPI
    <2>2. at' = at + 1 /\ verdict' = "running" /\ Unpublished /\ UNCHANGED <<attempt, pages>>
      BY <1>15, <2>1 DEF VerifyPyPI, Advance, Elsewhere
    <2>3. OutEta(out') /\ OutExcept(out, out', {"managed"})
      BY <1>15, <1>0 DEF VerifyPyPI, OutExcept
    <2> QED
      BY <2>1, <2>2, <2>3, LateStep
  <1>17. CASE VerifyGHCR
    <2>1. at = 17 /\ verdict = "running"
      BY <1>17, <1>0, StepPlaces DEF VerifyGHCR
    <2>2. at' = at + 1 /\ verdict' = "running" /\ Unpublished /\ UNCHANGED <<attempt, pages>>
      BY <1>17, <2>1 DEF VerifyGHCR, Advance, Elsewhere
    <2>3. OutEta(out') /\ OutExcept(out, out', {"managed"})
      BY <1>17, <1>0 DEF VerifyGHCR, OutExcept
    <2> QED
      BY <2>1, <2>2, <2>3, LateStep
  <1>18. CASE CompareAssets
    <2>1. at = 18 /\ verdict = "running"
      BY <1>18, <1>0, StepPlaces DEF CompareAssets
    <2>2. at' = at + 1 /\ verdict' = "running" /\ Unpublished /\ UNCHANGED <<attempt, pages>>
      BY <1>18, <2>1 DEF CompareAssets, Advance, Elsewhere
    <2>3. OutEta(out') /\ OutExcept(out, out', {"managed"})
      BY <1>18, <1>0 DEF CompareAssets, OutExcept
    <2> QED
      BY <2>1, <2>2, <2>3, LateStep
  <1>20. CASE ConfirmRelease
    <2>1. at = 20 /\ verdict = "running"
      BY <1>20, <1>0, StepPlaces DEF ConfirmRelease
    <2>2. at' = at + 1 /\ verdict' = "running" /\ Unpublished /\ UNCHANGED <<attempt, pages>>
      BY <1>20, <2>1 DEF ConfirmRelease, Advance, Elsewhere
    <2>3. OutEta(out') /\ OutExcept(out, out', {"managed"})
      BY <1>20, <1>0 DEF ConfirmRelease, OutExcept
    <2> QED
      BY <2>1, <2>2, <2>3, LateStep
  <1>21. CASE PostRelease
    <2>1. at = 21 /\ verdict = "running"
      BY <1>21, <1>0, StepPlaces DEF PostRelease
    <2>2. at' = at + 1 /\ verdict' = "running" /\ Unpublished /\ UNCHANGED <<attempt, pages>>
      BY <1>21, <2>1 DEF PostRelease, Advance, Elsewhere
    <2>3. OutEta(out') /\ OutExcept(out, out', {"managed"})
      BY <1>21, <1>0 DEF PostRelease, OutExcept
    <2>4. Exact
      <3>1. release.id # 0 /\ ~release.draft
        BY <1>21, <1>0 DEF PostRelease, Bound, PublicationInv, PublicationTyped
      <3>2. out.build \in 1 .. MaxAttempts /\ out.signed = Whole(out.build)
            /\ out.oci = Whole(out.build)
        BY <1>0, <2>1 DEF CandidateKept
      <3>3. ghcr = Whole(out.build)
        BY <2>1, <3>2 DEF PublicationInv, ChannelsInOrder
      <3>4. AssetBytes = [n \in Assets |-> Whole(out.build)]
        BY <1>21, <3>2 DEF PostRelease, Downloaded, SignedBytes
      <3> QED
        BY <3>1, <3>2, <3>3, <3>4 DEF Exact, Public
    <2> QED
      BY <2>1, <2>2, <2>3, <2>4, LateStep
  <1>22. CASE PostManaged
    <2>1. at = 22 /\ verdict = "running"
      BY <1>22, <1>0, StepPlaces DEF PostManaged
    <2>2. at' = at + 1 /\ verdict' = "running" /\ Unpublished /\ UNCHANGED <<attempt, pages>>
      BY <1>22, <2>1 DEF PostManaged, Advance, Elsewhere
    <2>3. OutEta(out') /\ OutExcept(out, out', {"managed"})
      <3>1. out' = [out EXCEPT !.managed = attempt]
        BY <1>22 DEF PostManaged
      <3> QED
        BY <1>0, <3>1, OutFields
    <2> QED
      BY <2>1, <2>2, <2>3, LateStep
  <1> QED
    BY <1>15, <1>17, <1>18, <1>20, <1>21, <1>22

\* A run ends, or its failed jobs begin again.
LEMMA RunEnds ==
  ASSUME PublicationInv, FinalGate \/ StepFailed \/ RerunFailedJobs
  PROVE  PublicationInv'
  <1>0. /\ at \in 1 .. 23 /\ attempt \in 1 .. MaxAttempts /\ MaxAttempts \in Nat
        /\ pages = [at |-> pages.at, attempt |-> pages.attempt]
    BY PublicationAssumption DEF PublicationInv, PublicationTyped
  <1>1. CASE FinalGate
    <2>1. at = 23 /\ at' = at /\ UNCHANGED <<out, attempt, pages>> /\ Unpublished
      BY <1>0, <1>1, StepPlaces DEF FinalGate, Elsewhere
    <2>2. Exact
      BY <2>1 DEF PublicationInv
    <2> QED
      BY <1>0, <2>1, <2>2, BackStep
  <1>2. CASE StepFailed
    <2>1. at' = at /\ verdict' = "failed" /\ UNCHANGED <<out, attempt, pages>> /\ Unpublished
      BY <1>2 DEF StepFailed, Elsewhere
    <2>2. pages'.at # "idle" => Exact
      BY <2>1 DEF PublicationInv
    <2> QED
      BY <1>0, <2>1, <2>2, BackStep
  <1>3. CASE RerunFailedJobs
    <2>1. at' = FirstOfJob(at) /\ verdict' = "running" /\ UNCHANGED <<out, pages>> /\ Unpublished
          /\ attempt' = attempt + 1 /\ attempt < MaxAttempts
      BY <1>3 DEF RerunFailedJobs
    <2>2. at' \in 1 .. at /\ \A k \in {14, 16, 18} : at >= k => at' >= k
      BY <1>0, <2>1, JobBegins
    <2>3. pages'.at # "idle" => Exact
      BY <2>1 DEF PublicationInv
    <2>4. attempt' \in 1 .. MaxAttempts
      BY <1>0, <2>1
    <2> QED
      BY <1>0, <2>1, <2>2, <2>3, <2>4, BackStep
  <1> QED
    BY <1>1, <1>2, <1>3

\* The documentation gate only reads.
LEMMA DocumentationSteps ==
  ASSUME PublicationInv, PagesReadRun \/ PagesVerifyChannels \/ PagesAccept
  PROVE  PublicationInv'
  <1>0. /\ at \in 1 .. 23 /\ attempt \in 1 .. MaxAttempts
        /\ pages = [at |-> pages.at, attempt |-> pages.attempt]
    BY DEF PublicationInv, PublicationTyped
  <1>1. UNCHANGED <<at, attempt, verdict, out, archive, pypi, ghcr, release, before, meddled>>
    BY DEF PagesReadRun, PagesVerifyChannels, PagesAccept
  <1>2. pages' = [at |-> pages'.at, attempt |-> pages'.attempt]
    BY <1>0 DEF PagesReadRun, PagesVerifyChannels, PagesAccept
  <1>3. Exact
    BY DEF PublicationInv, PagesReadRun, PagesVerifyChannels, PagesAccept
  <1>4. Unpublished /\ UNCHANGED out
    BY <1>1 DEF Unpublished
  <1> QED
    BY <1>0, <1>1, <1>2, <1>3, <1>4, BackStep

\* All jobs begin again: the outputs are gone, and what is public is not.
LEMMA RunBeginsAnew ==
  ASSUME PublicationInv, RerunAllJobs
  PROVE  PublicationInv'
  <1>1. /\ attempt' = attempt + 1 /\ attempt < MaxAttempts /\ verdict' = "running" /\ at' = 1
        /\ out' = NoOutputs /\ pages' = pages /\ pypi' = pypi /\ ghcr' = ghcr /\ release' = release
    BY DEF RerunAllJobs, Unpublished
  <1>2. attempt' \in 1 .. MaxAttempts
    BY <1>1, PublicationAssumption DEF PublicationInv, PublicationTyped
  <1>3. PublicationTyped'
    BY <1>1, <1>2 DEF PublicationInv, PublicationTyped, NoOutputs
  <1>4. CandidateKept' /\ DraftNamed'
    BY <1>1 DEF PublicationInv, CandidateKept, DraftNamed
  <1>5. ChannelsInOrder'
    BY <1>1 DEF PublicationInv, ChannelsInOrder, Public
  <1> QED
    BY <1>1, <1>3, <1>4, <1>5, PublicStays DEF PublicationInv

\* What is public now is of one build.
LEMMA FromOneBuild ==
  ASSUME NEW w, \A d \in Distributions : pypi'[d] \in {Nil, w}, ghcr' \in {Nil, w},
         ~release'.draft => \A n \in DOMAIN release'.assets : release'.assets[n].bytes \in {w, Foreign}
  PROVE  PublicFiles' \subseteq {w}
  <1>1. ASSUME ~release'.draft
        PROVE  \A n \in DOMAIN AssetBytes' : AssetBytes'[n] \in {w, Foreign}
    BY <1>1 DEF AssetBytes
  <1> QED
    BY <1>1 DEF PublicFiles

\* A draft that was found is the one of this candidate.
LEMMA NoAssetsYet ==
  ASSUME PublicationInv, ~Public
  PROVE  ~release.draft => release.id = 0 /\ DOMAIN release.assets = {}
  <1>1. ~release.draft => release.id = 0 /\ release.assets = << >>
    BY DEF PublicationInv, DraftNamed, Public
  <1>2. DOMAIN << >> = {}
    OBVIOUS
  <1> QED
    BY <1>1, <1>2

\* The draft is found or made, and filled; nothing is public yet.
LEMMA DraftSteps ==
  ASSUME PublicationInv, EnsureDraft \/ UploadAssets
  PROVE  PublicationInv'
  <1>0. /\ at \in 1 .. 23 /\ attempt \in 1 .. MaxAttempts /\ CandidateKept /\ DraftNamed
        /\ PublicationTyped
    BY DEF PublicationInv, PublicationTyped
  <1>1. at \in {11, 12} /\ UNCHANGED <<out, pypi, ghcr, attempt, pages>>
    BY <1>0, StepPlaces DEF EnsureDraft, UploadAssets, Elsewhere
  <1>2. at' \in {at, at + 1} /\ verdict' # "passed"
    BY <1>0, StepPlaces DEF EnsureDraft, UploadAssets, Advance, AnswerLost, Stay
  <1>3. Unused /\ ghcr = Nil /\ ~Public /\ pages.at = "idle"
    BY <1>1, NothingPublic
  <1>4. /\ release' = [id |-> release'.id, draft |-> release'.draft, notes |-> release'.notes, assets |-> release'.assets]
        /\ release'.draft \in BOOLEAN /\ DraftNamed' /\ ~Public'
        /\ ~release'.draft => DOMAIN release'.assets = {}
    <2>1. CASE release' = release
      <3>1. ASSUME EnsureDraft
            PROVE  Bound(TRUE, Preliminary)
        <4>1. ASSUME ~FoundRelease,
                     release' = [id |-> attempt, draft |-> TRUE, notes |-> Preliminary, assets |-> << >>]
              PROVE  FALSE
          BY <1>0, <2>1, <4>1 DEF FoundRelease
        <4> QED
          BY <3>1, <4>1 DEF EnsureDraft
      <3>2. UploadAssets => at = 12
        BY <1>0, StepPlaces DEF UploadAssets
      <3>3. at' >= 12 => at = 12 \/ Bound(TRUE, Preliminary)
        BY <1>1, <3>1, <3>2
      <3>4. release'.draft /\ at' >= 12 => release.notes = Preliminary
        BY <1>0, <2>1, <3>3 DEF DraftNamed, Bound
      <3>5. Preliminary' = Preliminary
        BY <1>1 DEF Preliminary
      <3>6. DraftNamed'
        BY <1>0, <2>1, <3>4, <3>5 DEF DraftNamed
      <3> QED
        BY <1>0, <1>3, <2>1, <3>6, NoAssetsYet DEF PublicationTyped, Public
    <2>2. CASE EnsureDraft /\ ~(release' = release)
      <3>1. release' = [id |-> attempt, draft |-> TRUE, notes |-> Preliminary, assets |-> << >>]
        BY <2>2 DEF EnsureDraft
      <3>2. /\ release'.id = attempt /\ release'.draft = TRUE /\ release'.notes = Preliminary
            /\ release'.assets = << >> /\ DOMAIN << >> = {}
        BY <3>1
      <3>3. attempt # 0 /\ Preliminary' = Preliminary
        BY <1>0, <1>1 DEF Preliminary
      <3>4. DraftNamed'
        BY <3>2, <3>3 DEF DraftNamed
      <3> QED
        BY <3>1, <3>2, <3>4 DEF Public
    <2>3. CASE UploadAssets /\ ~(release' = release)
      <3>1. /\ at = 12 /\ release.id # 0
            /\ \A n \in DOMAIN release.assets : release.assets[n].bytes = out.signed
        BY <1>0, <2>3, StepPlaces DEF UploadAssets
      <3>2. PICK n \in Assets :
              release' = [release EXCEPT !.assets =
                 [m \in DOMAIN release.assets \cup {n} |->
                    IF m = n THEN [id |-> 0, bytes |-> out.signed] ELSE release.assets[m]]]
        BY <2>3 DEF UploadAssets
      <3> DEFINE more == [m \in DOMAIN release.assets \cup {n} |->
                            IF m = n THEN [id |-> 0, bytes |-> out.signed] ELSE release.assets[m]]
      <3>3. \A m \in DOMAIN more : more[m].bytes = out.signed
        BY <3>1
      <3>4. release' = [release EXCEPT !.assets = more]
        BY <3>2
      <3> HIDE DEF more
      <3>5. /\ release' = [id |-> release'.id, draft |-> release'.draft, notes |-> release'.notes, assets |-> release'.assets]
            /\ release'.assets = more /\ release'.id = release.id /\ release'.draft = release.draft
            /\ release'.notes = release.notes
        BY <1>0, <3>4, ReleaseFields
      <3>6. release.draft /\ release.draft \in BOOLEAN
        BY <1>0, <1>3, <3>1 DEF Public, PublicationTyped
      <3>7. release.notes = Preliminary /\ release.notes[2] = out.signed
        BY <1>0, <3>1, <3>6 DEF DraftNamed, Preliminary
      <3>8. Preliminary' = Preliminary
        BY <1>1 DEF Preliminary
      <3>9. DraftNamed'
        BY <3>1, <3>3, <3>5, <3>6, <3>7, <3>8 DEF DraftNamed
      <3> QED
        BY <3>5, <3>6, <3>9 DEF Public
    <2> QED
      BY <2>1, <2>2, <2>3
  <1>5. PublicationTyped'
    BY <1>0, <1>1, <1>2, <1>4 DEF PublicationTyped
  <1>6. CandidateKept'
    BY <1>0, <1>1, <1>2 DEF CandidateKept
  <1>7. ChannelsInOrder'
    BY <1>1, <1>2, <1>3, <1>4 DEF ChannelsInOrder, Unused
  <1>8. \E b \in 1 .. MaxAttempts : PublicFiles' \subseteq {Whole(b)}
    <2>1. out.build \in 1 .. MaxAttempts
      BY <1>0, <1>1 DEF CandidateKept
    <2>2. PublicFiles' \subseteq {Whole(out.build)}
      BY <1>1, <1>3, <1>4, FromOneBuild DEF Unused
    <2> QED
      BY <2>1, <2>2
  <1>9. ~(at' > 21) /\ pages'.at = "idle"
    BY <1>1, <1>2, <1>3
  <1> QED
    BY <1>2, <1>4, <1>5, <1>6, <1>7, <1>8, <1>9 DEF PublicationInv

\* A distribution is uploaded: it is of the candidate, as those that are there.
LEMMA PyPIStep ==
  ASSUME PublicationInv, PublishPyPI
  PROVE  PublicationInv'
  <1>0. /\ at \in 1 .. 23 /\ CandidateKept /\ DraftNamed /\ PublicationTyped /\ ChannelsInOrder
    BY DEF PublicationInv, PublicationTyped
  <1>1. at = 14 /\ UNCHANGED <<out, ghcr, release, attempt, pages>>
    BY <1>0, StepPlaces DEF PublishPyPI, Elsewhere
  <1>2. at' \in {14, 15} /\ verdict' # "passed"
    <2>1. at' \in {at, at + 1} /\ verdict' # "passed"
      BY <1>0, StepPlaces DEF PublishPyPI, Advance, AnswerLost, Stay
    <2> QED
      BY <1>1, <2>1
  <1>3. ghcr = Nil /\ ~Public
    BY <1>0, <1>1 DEF ChannelsInOrder
  <1>4. pages.at = "idle"
    BY <1>3 DEF PublicationInv, Exact
  <1> DEFINE Uploaded ==
               /\ pypi' = [d \in Distributions |-> pypi'[d]]
               /\ \A d \in Distributions : pypi'[d] \in {Nil, out.python}
               /\ at' = 15 => \A d \in Distributions : pypi'[d] = out.python
  <1>5. Uploaded
    <2>1. pypi = [d \in Distributions |-> pypi[d]] /\ \A d \in Distributions : pypi[d] \in {Nil, out.python}
      BY <1>0, <1>1 DEF PublicationTyped, ChannelsInOrder
    <2>2. CASE pypi' = pypi /\ \A d \in Distributions : pypi[d] = out.python
      BY <2>1, <2>2
    <2>3. ASSUME NEW e \in Distributions, pypi' = [pypi EXCEPT ![e] = out.python], Stay \/ AnswerLost
          PROVE  Uploaded
      <3>1. at' = 14
        BY <1>1, <2>3 DEF Stay, AnswerLost
      <3>2. PICK v : v = out.python
        OBVIOUS
      <3>3. pypi' = [d \in Distributions |-> IF d = e THEN v ELSE pypi[d]]
        BY <2>1, <2>3, <3>2
      <3>4. \A d \in Distributions : pypi'[d] = IF d = e THEN v ELSE pypi[d]
        BY <3>3
      <3> QED
        BY <2>1, <3>1, <3>2, <3>3, <3>4
    <2> QED
      BY <2>2, <2>3 DEF PublishPyPI
  <1>6. PublicationTyped'
    BY <1>0, <1>1, <1>2, <1>5 DEF PublicationTyped
  <1>7. CandidateKept' /\ DraftNamed' /\ ~Public'
    BY <1>0, <1>1, <1>2, <1>3 DEF CandidateKept, DraftNamed, Preliminary, Public
  <1>8. ChannelsInOrder'
    BY <1>1, <1>2, <1>3, <1>5, <1>7 DEF ChannelsInOrder
  <1>9. \E b \in 1 .. MaxAttempts : PublicFiles' \subseteq {Whole(b)}
    <2>1. out.build \in 1 .. MaxAttempts /\ out.python = Whole(out.build)
      BY <1>0, <1>1 DEF CandidateKept
    <2>2. ~release'.draft => DOMAIN release'.assets = {}
      BY <1>1, <1>3, NoAssetsYet
    <2>3. PublicFiles' \subseteq {Whole(out.build)}
      BY <1>1, <1>3, <1>5, <2>1, <2>2, FromOneBuild
    <2> QED
      BY <2>1, <2>3
  <1>10. ~(at' > 21) /\ pages'.at = "idle"
    BY <1>1, <1>2, <1>4
  <1> QED
    BY <1>2, <1>6, <1>7, <1>8, <1>9, <1>10 DEF PublicationInv

\* A build is something.
LEMMA WholeIsSomething ==
  ASSUME NEW b
  PROVE  Whole(b) # Nil
  BY DEF Whole, Nil

\* The image follows when PyPI has everything.
LEMMA GHCRStep ==
  ASSUME PublicationInv, PublishGHCR
  PROVE  PublicationInv'
  <1>0. /\ at \in 1 .. 23 /\ CandidateKept /\ DraftNamed /\ PublicationTyped /\ ChannelsInOrder
    BY DEF PublicationInv, PublicationTyped
  <1>1. at = 16 /\ UNCHANGED <<out, pypi, release, attempt, pages>>
    BY <1>0, StepPlaces DEF PublishGHCR, Elsewhere
  <1>2. at' \in {16, 17} /\ verdict' # "passed" /\ ghcr' = out.oci
    BY <1>0, <1>1, StepPlaces DEF PublishGHCR, Advance, AnswerLost
  <1>3. ~Public /\ \A d \in Distributions : pypi[d] = out.python
    BY <1>0, <1>1 DEF ChannelsInOrder
  <1>4. pages.at = "idle"
    BY <1>3 DEF PublicationInv, Exact
  <1>5. /\ out.build \in 1 .. MaxAttempts /\ out.python = Whole(out.build)
        /\ out.oci = Whole(out.build)
        /\ out.python # Nil
    BY <1>0, <1>1, WholeIsSomething DEF CandidateKept
  <1>6. PublicationTyped'
    BY <1>0, <1>1, <1>2 DEF PublicationTyped
  <1>7. CandidateKept' /\ DraftNamed' /\ ~Public'
    BY <1>0, <1>1, <1>2, <1>3 DEF CandidateKept, DraftNamed, Preliminary, Public
  <1>8. ChannelsInOrder'
    BY <1>1, <1>2, <1>3, <1>5, <1>7 DEF ChannelsInOrder
  <1>9. PublicFiles' \subseteq {Whole(out.build)}
    <2>1. ~release'.draft => DOMAIN release'.assets = {}
      BY <1>1, <1>3, NoAssetsYet
    <2> QED
      BY <1>1, <1>2, <1>3, <1>5, <2>1, FromOneBuild
  <1>10. ~(at' > 21) /\ pages'.at = "idle"
    BY <1>1, <1>2, <1>4
  <1> QED
    BY <1>2, <1>5, <1>6, <1>7, <1>8, <1>9, <1>10 DEF PublicationInv

\* The Release is exposed when the image is there, with signed assets or foreign ones.
LEMMA ExposureStep ==
  ASSUME PublicationInv, ExposeRelease
  PROVE  PublicationInv'
  <1>0. /\ at \in 1 .. 23 /\ CandidateKept /\ DraftNamed /\ PublicationTyped /\ ChannelsInOrder
    BY DEF PublicationInv, PublicationTyped
  <1>1. at = 19 /\ UNCHANGED <<out, pypi, ghcr, attempt, pages>> /\ release.id = out.release
    BY <1>0, StepPlaces DEF ExposeRelease, Elsewhere
  <1>2. at' \in {19, 20} /\ verdict' # "passed"
    <2>1. at' \in {at, at + 1} /\ verdict' # "passed"
      BY <1>0, StepPlaces DEF ExposeRelease, Advance, AnswerLost
    <2> QED
      BY <1>1, <2>1
  <1>3. /\ out.build \in 1 .. MaxAttempts /\ out.python = Whole(out.build)
        /\ out.oci = Whole(out.build)
        /\ out.signed = Whole(out.build) /\ out.release # 0
    BY <1>0, <1>1 DEF CandidateKept
  <1>4. ghcr = out.oci /\ ghcr # Nil /\ \A d \in Distributions : pypi[d] = out.python /\ pypi[d] # Nil
    BY <1>0, <1>1, <1>3, WholeIsSomething DEF ChannelsInOrder
  <1>5. CASE release' = release
    <2>1. PublicationTyped'
      BY <1>0, <1>1, <1>2, <1>5 DEF PublicationTyped
    <2>2. CandidateKept' /\ DraftNamed'
      BY <1>0, <1>1, <1>2, <1>5 DEF CandidateKept, DraftNamed, Preliminary
    <2>3. ChannelsInOrder'
      BY <1>0, <1>1, <1>2, <1>4, <1>5 DEF ChannelsInOrder, Public
    <2> QED
      BY <1>1, <1>2, <1>5, <2>1, <2>2, <2>3, PublicStays DEF PublicationInv
  <1>6. CASE release.draft /\ release' = [release EXCEPT !.draft = FALSE, !.notes = Final]
    <2>1. PICK v : v = Final
      OBVIOUS
    <2>2. release' = [release EXCEPT !.draft = FALSE, !.notes = v]
      BY <1>6, <2>1
    <2>3. /\ release' = [id |-> release'.id, draft |-> release'.draft, notes |-> release'.notes, assets |-> release'.assets]
          /\ ~release'.draft /\ release'.draft \in BOOLEAN /\ release'.id = release.id
          /\ release'.assets = release.assets
      BY <1>0, <2>2, ReleaseFields
    <2>4. \A n \in DOMAIN release.assets : release.assets[n].bytes \in {out.signed, Foreign}
      BY <1>0, <1>1, <1>6 DEF DraftNamed, Preliminary
    <2>5. pages.at = "idle"
      BY <1>6 DEF PublicationInv, Exact, Public
    <2>6. PublicationTyped'
      BY <1>0, <1>1, <1>2, <2>3 DEF PublicationTyped
    <2>7. CandidateKept' /\ DraftNamed'
      BY <1>0, <1>1, <1>2, <1>3, <2>3 DEF CandidateKept, DraftNamed
    <2>8. ChannelsInOrder'
      BY <1>1, <1>2, <1>4, <2>3, <2>4 DEF ChannelsInOrder
    <2>9. PublicFiles' \subseteq {Whole(out.build)}
      BY <1>1, <1>3, <1>4, <2>3, <2>4, FromOneBuild
    <2>10. ~(at' > 21) /\ pages'.at = "idle"
      BY <1>1, <1>2, <2>5
    <2> QED
      BY <1>2, <1>3, <2>6, <2>7, <2>8, <2>9, <2>10 DEF PublicationInv
  <1> QED
    BY <1>5, <1>6 DEF ExposeRelease

\* What somebody else does to the draft: a foreign asset is not from another build.
LEMMA MeddledDraft ==
  ASSUME PublicationInv, Meddle
  PROVE  PublicationInv'
  <1>0. /\ CandidateKept /\ DraftNamed /\ PublicationTyped /\ ChannelsInOrder
    BY DEF PublicationInv
  <1>1. UNCHANGED <<at, attempt, verdict, out, pypi, ghcr, pages>> /\ release.id # 0
        /\ release.draft
    BY DEF Meddle
  <1>2. ~Public /\ ~Exact
    BY <1>1 DEF Public, Exact
  <1>3. ~(at' > 21) /\ verdict' # "passed" /\ pages'.at = "idle"
    BY <1>1, <1>2 DEF PublicationInv
  <1> DEFINE Hidden ==
               /\ release' = [id |-> release'.id, draft |-> release'.draft,
                              notes |-> release'.notes, assets |-> release'.assets]
               /\ release'.draft \in BOOLEAN /\ ~Public' /\ DraftNamed'
               /\ ~release'.draft => DOMAIN release'.assets = {}
  <1>4. Hidden
    <2>1. CASE release' = NoRelease
      <3>1. release'.id = 0 /\ ~release'.draft /\ release'.draft \in BOOLEAN
            /\ release'.assets = << >> /\ DOMAIN << >> = {}
        BY <2>1 DEF NoRelease
      <3> QED
        BY <2>1, <3>1 DEF NoRelease, Public, DraftNamed
    <2>2. ASSUME NEW kept, release' = [release EXCEPT !.assets = kept],
                 \A m \in DOMAIN kept : kept[m].bytes \in {release.notes[2], Foreign}
          PROVE  Hidden
      <3>1. /\ release' = [id |-> release'.id, draft |-> release'.draft, notes |-> release'.notes, assets |-> release'.assets]
            /\ release'.assets = kept /\ release'.id = release.id /\ release'.draft = release.draft
            /\ release'.notes = release.notes
        BY <1>0, <2>2, ReleaseFields
      <3>2. Preliminary' = Preliminary /\ release.draft \in BOOLEAN
        BY <1>0, <1>1 DEF Preliminary, PublicationTyped
      <3>3. DraftNamed'
        BY <1>0, <1>1, <2>2, <3>1, <3>2 DEF DraftNamed
      <3> QED
        BY <1>1, <3>1, <3>2, <3>3 DEF Public
    <2>3. \A m \in DOMAIN release.assets : release.assets[m].bytes \in {release.notes[2], Foreign}
      BY <1>0, <1>1 DEF DraftNamed
    <2>4. ASSUME NEW n \in DOMAIN release.assets,
                 release' = [release EXCEPT !.assets = [m \in DOMAIN release.assets \ {n} |-> release.assets[m]]]
          PROVE  Hidden
      <3> DEFINE kept == [m \in DOMAIN release.assets \ {n} |-> release.assets[m]]
      <3>1. \A m \in DOMAIN kept : kept[m].bytes \in {release.notes[2], Foreign}
        BY <2>3
      <3>2. release' = [release EXCEPT !.assets = kept]
        BY <2>4
      <3> HIDE DEF kept
      <3> QED
        BY <2>2, <3>1, <3>2
    <2>5. ASSUME NEW n \in DOMAIN release.assets, NEW other, other.bytes = Foreign,
                 release' = [release EXCEPT !.assets[n] = other]
          PROVE  Hidden
      <3> DEFINE kept == [release.assets EXCEPT ![n] = other]
      <3>1. \A m \in DOMAIN kept : kept[m].bytes \in {release.notes[2], Foreign}
        BY <2>3, <2>5
      <3>2. release' = [release EXCEPT !.assets = kept]
        BY <2>5
      <3> HIDE DEF kept
      <3> QED
        BY <2>2, <3>1, <3>2
    <2> HIDE DEF Hidden
    <2>6. ASSUME NEW n \in DOMAIN release.assets,
                 release' = [release EXCEPT !.assets[n] = [id |-> meddled + 1, bytes |-> Foreign]]
          PROVE  Hidden
      <3> DEFINE other == [id |-> meddled + 1, bytes |-> Foreign]
      <3>1. other.bytes = Foreign
        OBVIOUS
      <3>2. release' = [release EXCEPT !.assets[n] = other]
        BY <2>6
      <3> HIDE DEF other
      <3> QED
        BY <2>5, <3>1, <3>2
    <2> QED
      BY <2>1, <2>4, <2>6 DEF Meddle
  <1>5. PublicationTyped'
    BY <1>0, <1>1, <1>4 DEF PublicationTyped
  <1>6. CandidateKept'
    BY <1>0, <1>1 DEF CandidateKept
  <1>7. ChannelsInOrder'
    BY <1>0, <1>1, <1>4 DEF ChannelsInOrder
  <1>8. PublicFiles' \subseteq PublicFiles
    <2>1. ~release'.draft => {AssetBytes'[n] : n \in DOMAIN AssetBytes'} = {}
      BY <1>4 DEF AssetBytes
    <2> QED
      BY <1>1, <2>1 DEF PublicFiles
  <1>9. \E b \in 1 .. MaxAttempts : PublicFiles' \subseteq {Whole(b)}
    BY <1>8 DEF PublicationInv
  <1> QED
    BY <1>3, <1>4, <1>5, <1>6, <1>7, <1>9 DEF PublicationInv

\* At first nothing is public.
LEMMA PublicationInvInit == PublicationInit => PublicationInv
  <1> SUFFICES ASSUME PublicationInit
               PROVE  PublicationInv
    OBVIOUS
  <1>1. /\ at = 1 /\ attempt = 1 /\ verdict = "running" /\ out = NoOutputs
        /\ pypi = [d \in Distributions |-> Nil] /\ ghcr = Nil /\ release = NoRelease
        /\ pages = [at |-> "idle", attempt |-> 0]
    BY DEF PublicationInit
  <1>2. release.id = 0 /\ ~release.draft /\ release.draft \in BOOLEAN /\ release.assets = << >>
        /\ DOMAIN << >> = {}
    BY <1>1 DEF NoRelease
  <1>3. PublicationTyped
    BY <1>1, PublicationAssumption DEF PublicationTyped, NoOutputs, NoRelease
  <1>4. CandidateKept /\ DraftNamed /\ ChannelsInOrder
    BY <1>1, <1>2 DEF CandidateKept, DraftNamed, ChannelsInOrder, Public
  <1>5. PublicFiles = {}
    <2>1. {AssetBytes[n] : n \in DOMAIN AssetBytes} = {}
      BY <1>2 DEF AssetBytes
    <2> QED
      BY <1>1, <2>1 DEF PublicFiles
  <1>6. 1 \in 1 .. MaxAttempts
    BY PublicationAssumption
  <1> QED
    BY <1>1, <1>3, <1>4, <1>5, <1>6 DEF PublicationInv

\* The invariant says what it is for.
LEMMA PublicationInvHolds == PublicationInv => PublicationSound
  <1>1. PublicationInv => OneCandidate
    BY DEF PublicationInv, ChannelsInOrder, Public, OneCandidate
  <1>2. PublicationInv => GateMeansExact
    BY DEF PublicationInv, Exact, Public, GateMeansExact
  <1> QED
    BY <1>1, <1>2 DEF PublicationSound

\* Every step keeps it.
LEMMA PublicationInvKept == PublicationInv /\ [PublicationNext]_publicationVars => PublicationInv'
  <1> SUFFICES ASSUME PublicationInv, [PublicationNext]_publicationVars
               PROVE  PublicationInv'
    OBVIOUS
  <1>1. CASE UNCHANGED publicationVars
    <2>1. /\ at \in 1 .. 23 /\ attempt \in 1 .. MaxAttempts
          /\ pages = [at |-> pages.at, attempt |-> pages.attempt]
      BY DEF PublicationInv, PublicationTyped
    <2>2. UNCHANGED <<at, attempt, verdict, out, pages>> /\ Unpublished
      BY <1>1 DEF publicationVars, Unpublished
    <2>3. verdict' = "passed" \/ pages'.at # "idle" => Exact
      BY <2>2 DEF PublicationInv
    <2> QED
      BY <2>1, <2>2, <2>3, BackStep
  <1>2. CASE PublicationNext
    BY <1>2, PreparationSteps, DraftSteps, PyPIStep, GHCRStep, VerificationSteps, ExposureStep,
       RunEnds,
       RunBeginsAnew, MeddledDraft, DocumentationSteps DEF PublicationNext
  <1> QED
    BY <1>1, <1>2

(***************************************************************************)
(* release-production.yml: everything that is made public comes whole from *)
(* one build, for any number of attempts and assets, whichever step fails  *)
(* with or without its effect, whichever jobs are run again, and whatever  *)
(* somebody else does to the draft; a Release is public only when PyPI and *)
(* GHCR have everything; and a run that passed, or documentation that was  *)
(* accepted, stands for a Release with exactly the signed assets.          *)
(***************************************************************************)
THEOREM PublicationsSound == PublicationSpec => []PublicationSound
  BY PublicationInvInit, PublicationInvKept, PublicationInvHolds, PTL DEF PublicationSpec
================================================================================
