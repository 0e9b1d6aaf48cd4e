--------------------------- MODULE FolderReservation ---------------------------
(***************************************************************************)
(* The management command line from its arguments to a deployment          *)
(* (management/cli.py, application.py, instances.py): which user a command *)
(* runs as, the checks before anything changes, and the reservation of a   *)
(* files folder for one deployment.  A deployment is a manifest; commands  *)
(* find others through a registry of manifests in the user's own data      *)
(* directory and at two fixed places.  A folder is reserved by looking at  *)
(* every manifest found, under a setup lock in the same data directory.    *)
(*                                                                         *)
(* There is one native deployment, of root; a Compose deployment is at the *)
(* default output of its user or at another.  What a setup does besides,   *)
(* and how it is undone, is in NativeSetup and ComposeDeployment.  A       *)
(* command may fail at any step, and be killed, which frees its lock.      *)
(***************************************************************************)
EXTENDS Naturals, Sequences, SequencesExt

CONSTANTS
  Accounts, Root,
  Shells,         \* processes of the command line
  HostPaths,      \* paths of directories of the host, resolved: sequences of names
  Leads,          \* HostPaths -> the directory there; a bind mount gives one two paths
  FolderPaths,    \* the folders that are asked for; they exist
  Free,           \* no folder, no owner
  MaxIssued       \* bound of the model: commands

ASSUME ReservationAssumption ==
  /\ Root \in Accounts /\ Free \notin Shells /\ MaxIssued \in Nat
  /\ FolderPaths \subseteq HostPaths
  /\ \A x \in HostPaths : x \in Seq({x[i] : i \in DOMAIN x})

VARIABLES
  manifests,    \* places -> the folder in the manifest there, or Free
  registry,     \* Accounts -> places in instances.json
  setupLock,    \* Accounts -> the shell that holds the setup lock, or Free
  shell,        \* Shells -> the command it runs
  issued        \* commands so far

reservationVars == <<manifests, registry, setupLock, shell, issued>>

NativePlace == [owner |-> Root, output |-> "native"]
PlacesOf == {NativePlace} \cup [owner : Accounts, output : {"default", "other"}]
AtPrompt == [at |-> "prompt"]

ReservationInit ==
  /\ manifests = [p \in PlacesOf |-> Free] /\ registry = [u \in Accounts |-> {}]
  /\ setupLock = [u \in Accounts |-> Free] /\ shell = [s \in Shells |-> AtPrompt] /\ issued = 0

\* load_manifest finds a document of this version whose every field is sound.  Manifests are
\* replaced as a whole, so a place has none or a sound one.
LoadManifest(p) == manifests[p] # Free

\* discover_instances: the registry, the native manifest and the default output, as far as
\* a manifest can be read there.
Discovered(u) ==
  {p \in registry[u] \cup {NativePlace, [owner |-> u, output |-> "default"]} : LoadManifest(p)}

\* resolve_instance: by its identity if it was discovered, or by the path of its manifest
\* whether or not anybody registered it.
Resolvable(u, p) == p \in Discovered(u) \/ (LoadManifest(p) /\ p.owner = u)

\* One path inside the other, or both of one directory (st_dev and st_ino).
Overlaps(a, b) == IsPrefix(a, b) \/ IsPrefix(b, a) \/ Leads[a] = Leads[b]

\* ensure_dedicated_files_folder.
Dedicated(u, folder, exclude) ==
  \A p \in Discovered(u) \ exclude : ~Overlaps(folder, manifests[p])
-----------------------------------------------------------------------------
\* The steps of each command that matter here.  A setup looks at the folder before it
\* plans, and again with the lock; native setup installs the runtime in between.
StepsOf(kind, place) ==
  CASE kind = "setup" /\ place = NativePlace ->
         <<"check", "plan", "install", "lock", "check", "write", "register">>
    [] kind = "setup" /\ place # NativePlace ->
         <<"check", "plan", "lock", "check", "pull", "write", "register", "activate">>
    [] kind = "configure" -> <<"lock", "check", "write">>
    [] kind = "purge" -> <<"lock", "unregister", "unlink">>

\* A native command by another user is run again by sudo, if there is one.
Handoff(u, place) == IF place = NativePlace THEN Root ELSE u

\* A command with sound arguments.  Setup of a place that has a deployment starts it or
\* reports it; the other commands resolve an instance that is there.
Issue(s, u, kind, place, folder) ==
  LET as == Handoff(u, place)
  IN /\ shell[s] = AtPrompt /\ issued < MaxIssued /\ issued' = issued + 1
     /\ place.owner = as
     /\ \/ kind = "setup" /\ manifests[place] = Free
        \/ kind = "configure" /\ place = NativePlace /\ Resolvable(as, place)
        \/ kind = "purge" /\ Resolvable(as, place) /\ folder = manifests[place]
     /\ shell' = [shell EXCEPT ![s] = [at |-> "working", user |-> as, kind |-> kind, place |-> place,
                                       folder |-> folder, todo |-> StepsOf(kind, place)]]
     /\ UNCHANGED <<manifests, registry, setupLock>>

Working(s) == shell[s] # AtPrompt
NextOf(s) == IF Working(s) /\ shell[s].todo # << >> THEN Head(shell[s].todo) ELSE "none"

\* Mutant: the folder is looked at only before the lock.
LooksFirst(s) == NextOf(s) = "check" /\ setupLock[shell[s].user] # s
Looks(s) == NextOf(s) = "check"

DoneWith(s) == shell' = [shell EXCEPT ![s].todo = Tail(@)]
\* The end of a command, whatever its outcome, releases the lock.
EndCommand(s) ==
  /\ shell' = [shell EXCEPT ![s] = AtPrompt]
  /\ setupLock' = [u \in Accounts |-> IF setupLock[u] = s THEN Free ELSE setupLock[u]]

FolderRefused(s) ==
  LET c == shell[s]
  IN Looks(s) /\ ~Dedicated(c.user, c.folder, IF c.kind = "configure" THEN {c.place} ELSE {})

CheckFolder(s) ==
  /\ NextOf(s) = "check" /\ ~FolderRefused(s) /\ DoneWith(s)
  /\ UNCHANGED <<manifests, registry, setupLock, issued>>

\* The lock is not waited for.
TakeSetupLock(s) ==
  /\ NextOf(s) = "lock" /\ setupLock[shell[s].user] = Free /\ DoneWith(s)
  /\ setupLock' = [setupLock EXCEPT ![shell[s].user] = s]
  /\ UNCHANGED <<manifests, registry, issued>>

\* Steps that leave manifests and registry alone: the plan and the preflight, which a blocker
\* ends; the signed runtime, installed only if there is none and verified before it is run;
\* the image, which is pinned, and the container.
PlanSetup(s) == NextOf(s) = "plan" /\ DoneWith(s) /\ UNCHANGED <<manifests, registry, setupLock, issued>>
InstallRuntime(s) == NextOf(s) = "install" /\ DoneWith(s) /\ UNCHANGED <<manifests, registry, setupLock, issued>>
UseImage(s) == NextOf(s) \in {"pull", "activate"} /\ DoneWith(s) /\ UNCHANGED <<manifests, registry, setupLock, issued>>

\* SetupExecutor looks once more, with its own lock, whether the host is configured; a
\* Compose setup does not, and writes over what another left there meanwhile.
AlreadyConfigured(s) ==
  shell[s].kind = "setup" /\ shell[s].place = NativePlace /\ manifests[NativePlace] # Free

WriteManifest(s) ==
  /\ NextOf(s) = "write" /\ ~AlreadyConfigured(s) /\ DoneWith(s)
  /\ manifests' = [manifests EXCEPT ![shell[s].place] = shell[s].folder]
  /\ UNCHANGED <<registry, setupLock, issued>>

RegisterInstance(s) ==
  /\ NextOf(s) = "register" /\ DoneWith(s)
  /\ registry' = [registry EXCEPT ![shell[s].user] = @ \cup {shell[s].place}]
  /\ UNCHANGED <<manifests, setupLock, issued>>

UnregisterInstance(s) ==
  /\ NextOf(s) = "unregister" /\ DoneWith(s)
  /\ registry' = [registry EXCEPT ![shell[s].user] = @ \ {shell[s].place}]
  /\ UNCHANGED <<manifests, setupLock, issued>>

UnlinkManifest(s) ==
  /\ NextOf(s) = "unlink" /\ DoneWith(s)
  /\ manifests' = [manifests EXCEPT ![shell[s].place] = Free]
  /\ UNCHANGED <<registry, setupLock, issued>>

Succeeds(s) ==
  /\ Working(s) /\ shell[s].todo = << >> /\ EndCommand(s) /\ UNCHANGED <<manifests, registry, issued>>

\* A step refuses or fails, the operator declines the preview, or the process is killed:
\* what was written stays.  (The write of a native setup is its committed transaction.)
Fails(s) ==
  /\ Working(s) /\ EndCommand(s) /\ UNCHANGED <<manifests, registry, issued>>

ReservationNext ==
  \/ \E s \in Shells, u \in Accounts, kind \in {"setup", "configure", "purge"}, p \in PlacesOf, f \in FolderPaths :
       Issue(s, u, kind, p, f)
  \/ \E s \in Shells : \/ CheckFolder(s) \/ TakeSetupLock(s) \/ PlanSetup(s) \/ InstallRuntime(s) \/ UseImage(s) \/ WriteManifest(s)
                       \/ RegisterInstance(s) \/ UnregisterInstance(s) \/ UnlinkManifest(s)
                       \/ Succeeds(s) \/ Fails(s)

ReservationSpec == ReservationInit /\ [][ReservationNext]_reservationVars

(***************************************************************************)
(* Two deployments that one user set up and that discovery finds never     *)
(* have one directory for their folder, by whatever paths, and no path of  *)
(* the host lies in the trees of both, however setups, a change of folder  *)
(* and removals by several shells interleave, fail and are killed: the     *)
(* look under the lock (ensure_dedicated_files_folder) sees every manifest *)
(* written before it.  A mount that brings a directory of the one tree     *)
(* below the other by a second path is not seen, and not claimed.          *)
(***************************************************************************)
OwnFoldersApart ==
  \A u \in Accounts : \A p, q \in Discovered(u) :
    (p # q /\ p.owner = u /\ q.owner = u) =>
      /\ Leads[manifests[p]] # Leads[manifests[q]]
      /\ \A x \in HostPaths : ~(IsPrefix(manifests[p], x) /\ IsPrefix(manifests[q], x))
==============================================================================
