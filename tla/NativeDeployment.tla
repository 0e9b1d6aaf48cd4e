-------------------------- MODULE NativeDeployment --------------------------
(***************************************************************************)
(* xferry/management: the native (systemd) deployment that the commands    *)
(* update, rollback, config, credentials, start/stop/restart and uninstall *)
(* [--purge] change together (releases.py, native_backend.py,              *)
(* managed_state.py, system.py).                                           *)
(*                                                                         *)
(* Invocations of the command line run at once.  Each reads the deployment *)
(* first and takes the exclusive, non-blocking lock of managed_mutation    *)
(* later.  Under the lock it goes through durable steps; it can be killed  *)
(* between any two, the service can die at any moment, and every external  *)
(* command and every write can fail.  An invocation that is refused        *)
(* changes nothing and simply does not go on.  Removing a file does not    *)
(* fail, rewriting the registry of instances does; power losses are left   *)
(* out.                                                                    *)
(*                                                                         *)
(* A configuration is the files folder it names; what a file receipt       *)
(* records is that value.  Releases are verified, so a version stands for  *)
(* its content.  Directory ACLs, what the registry of instances holds and  *)
(* the service account are left out.                                       *)
(***************************************************************************)
EXTENDS Naturals, FiniteSets

CONSTANTS
  Commands,          \* invocations of the command line
  Versions,          \* release versions, in release order
  Folders,           \* files folders
  Inside,            \* the default one, beneath the state directory
  Passwords,
  Absent,            \* no file, no owner
  Mixes              \* what is explored together: [ops, kills]

Ops == {"update", "rollback", "uninstall", "purge", "configure", "credentials"}

ASSUME NativeAssumption ==
  /\ Versions \subseteq Nat \ {0} /\ Passwords \subseteq Nat \ {0}
  /\ Inside \in Folders /\ Absent \notin Folders \cup Commands
  /\ Mixes \subseteq [ops : SUBSET Ops, kills : Nat]

VARIABLES
  mix,               \* the member of Mixes this behaviour belongs to
  releases,          \* /opt/xferry/releases: "absent", "sound" or half-removed "torn"
  stray,             \* a temporary .install- directory lies among the releases
  current,           \* the version the current link names
  root,              \* /opt/xferry: "whole", half-removed "torn" or "gone"
  etc,               \* the files below /etc and the state directory
  svc,               \* the service as systemd sees it, and what it was started with
  lock, setup_lock,  \* owners of managed_mutation and deployment_setup_lock
  cmd,               \* the invocations
  kept,              \* history: the version the last activation superseded
  killed, incomplete \* history: commands killed; a restoration reported incomplete

vars == <<mix, releases, stray, current, root, etc, svc, lock, setup_lock, cmd, kept, killed,
          incomplete>>
runtime == <<releases, stray, current, root, kept>>
locks == <<lock, setup_lock>>
history == <<mix, killed, incomplete>>

NoManifest == [files |-> Absent, auth |-> 0, artifact |-> 0]
NoAuth == [pw |-> 0, ino |-> 0]
NoEtc == [profile |-> Absent, runtime |-> Absent, unit |-> Absent, auth |-> NoAuth,
          manifest |-> NoManifest, marker |-> FALSE, data |-> FALSE]
Down(s) == [state |-> s, version |-> 0, pw |-> 0, folder |-> Absent]
Idle == [op |-> Absent, pc |-> "idle", target |-> 0, previous |-> 0, active |-> FALSE,
         created |-> FALSE, spec |-> NoManifest, before |-> NoEtc, want |-> 0, written |-> 0,
         todo |-> {}]

\* What `systemctl start` and `restart` run: the current link with the files as they are.
Started == [state |-> "active", version |-> current, pw |-> etc.auth.pw, folder |-> etc.runtime]

\* A deployment that has been updated once.
Init ==
  /\ mix \in Mixes
  /\ \E old, new \in Versions, f \in Folders, p \in Passwords :
       /\ old < new
       /\ releases = [v \in Versions |-> IF v \in {old, new} THEN "sound" ELSE "absent"]
       /\ current = new /\ kept = old
       /\ etc = [profile |-> f, runtime |-> f, unit |-> f, auth |-> [pw |-> p, ino |-> 1],
                 manifest |-> [files |-> f, auth |-> 1, artifact |-> new],
                 marker |-> FALSE, data |-> TRUE]
  /\ stray = FALSE /\ root = "whole"
  /\ svc \in {Started, Down("inactive")}
  /\ lock = Absent /\ setup_lock = Absent /\ cmd = [c \in Commands |-> Idle]
  /\ killed = 0 /\ incomplete = FALSE
-----------------------------------------------------------------------------
Manifest == etc.manifest # NoManifest

\* managed_state._release_state: every entry must be a sound release, or the tree is refused.
ReleaseState ==
  CASE root = "gone" -> "absent"
    [] root = "whole" /\ ~stray /\ (\A v \in Versions : releases[v] # "torn")
         /\ releases[current] = "sound" -> "valid"
    [] OTHER -> "blocked"

HasRetainedState == etc.marker /\ Manifest

\* managed_state._owned_state_is_safe: what may exist without a valid release.
OwnedStateIsSafe ==
  /\ etc.marker => HasRetainedState
  /\ ReleaseState = "absent" =>
       /\ etc.unit = Absent
       /\ \/ HasRetainedState
          \/ etc = NoEtc

\* managed_state.has_unsupported_managed_state
Unsupported ==
  \/ (etc.runtime # Absent \/ etc.auth # NoAuth) /\ ~Manifest
  \/ ReleaseState = "blocked"
  \/ ~OwnedStateIsSafe

\* layout.current_executable.is_file()
Executable == root # "gone" /\ releases[current] # "absent"

\* NativeBackend.observe
Observe ==
  CASE Absent \in {etc.profile, etc.runtime} \/ etc.auth = NoAuth -> "incomplete"
    [] ~Executable -> "retained"
    [] etc.unit = Absent -> "incomplete"
    [] svc.state = "active" -> "running"
    [] svc.state = "inactive" -> "stopped"
    [] OTHER -> "broken"

Running == svc.state = "active"
-----------------------------------------------------------------------------
Goto(c, s) == cmd' = [cmd EXCEPT ![c].pc = s]
At(c, s) == cmd[c].pc = s /\ lock = c
Begin(c, op) == cmd[c] = Idle /\ op \in mix.ops /\ Manifest
CanLock == lock = Absent /\ ~Unsupported

\* The command gives up its locks, and goes on from s without them.
Leave(c, s) ==
  /\ lock' = Absent
  /\ setup_lock' = IF setup_lock = c THEN Absent ELSE setup_lock
  /\ cmd' = [cmd EXCEPT ![c] = [Idle EXCEPT !.pc = s]]

(* The service.  A failed unit waits to be started again (Restart=on-failure). *)
Restarts == svc' = Started
RestartFails == svc' \in {svc, Down("failed")}
Stops == svc' = Down("inactive")
StopFails == svc' \in {svc, Down("inactive")}

ServiceDies ==
  /\ Running
  /\ svc' = Down("failed")
  /\ UNCHANGED <<runtime, etc, locks, cmd, history>>

ServiceRevives ==
  /\ svc.state = "failed" /\ Executable /\ etc.unit # Absent
  /\ Restarts
  /\ UNCHANGED <<runtime, etc, locks, cmd, history>>

\* start, stop and restart: one call of systemctl under the lock.
Service(action) ==
  /\ CanLock /\ Manifest
  /\ \/ action = "stop" /\ Stops
     \/ /\ action = "restart" \/ (action = "start" /\ ~Running)
        /\ Executable /\ etc.unit # Absent /\ (Restarts \/ RestartFails)
  /\ UNCHANGED <<runtime, etc, locks, cmd, history>>

\* An authenticated PING that answers for this version; it may fail all the same.
Healthy(v) == Running /\ svc.version = v /\ svc.pw = etc.auth.pw
-----------------------------------------------------------------------------
(* update: the candidate is downloaded and verified before the lock.       *)
Update(c, v) ==
  /\ Begin(c, "update") /\ ~Unsupported /\ root = "whole" /\ v >= current
  /\ cmd' = [cmd EXCEPT ![c] = [Idle EXCEPT !.op = "update", !.pc = "staged", !.target = v,
                                            !.previous = current]]
  /\ UNCHANGED <<runtime, etc, svc, locks, history>>

\* The service must be active or confirmed inactive, or the command is refused.
Activates(c, v) ==
  /\ svc.state \in {"active", "inactive"}
  /\ lock' = c
  /\ cmd' = [cmd EXCEPT ![c].target = v, ![c].previous = current, ![c].active = Running,
                        ![c].pc = IF cmd[c].op = "update" THEN "install" ELSE "switch"]
  /\ UNCHANGED setup_lock

\* _update_locked: not an older version than the one found now.
UpdateLock(c) ==
  /\ cmd[c].op = "update" /\ cmd[c].pc = "staged" /\ CanLock /\ root = "whole"
  /\ \/ /\ cmd[c].target > current /\ cmd[c].previous # cmd[c].target
        /\ Activates(c, cmd[c].target)
     \/ /\ cmd[c].target = current
        /\ Leave(c, "record")
  /\ UNCHANGED <<runtime, etc, svc, history>>

\* _install_verified_release: a sound release under that name is reused.
Install(c) ==
  /\ At(c, "install")
  /\ IF releases[cmd[c].target] = "sound"
     THEN Goto(c, "switch") /\ UNCHANGED stray
     ELSE Goto(c, "copy") /\ stray' = TRUE
  /\ UNCHANGED <<releases, current, root, kept, etc, svc, locks, history>>

\* The temporary directory is renamed into place, or removed when a write fails.
Copy(c) ==
  /\ At(c, "copy") /\ stray' = FALSE
  /\ \/ /\ releases' = [releases EXCEPT ![cmd[c].target] = "sound"]
        /\ cmd' = [cmd EXCEPT ![c].created = TRUE, ![c].pc = "switch"]
        /\ UNCHANGED locks
     \/ Leave(c, "done") /\ UNCHANGED releases
  /\ UNCHANGED <<current, root, kept, etc, svc, history>>

\* _activate: the link is replaced, or not; or its verification fails afterwards.
Switch(c) ==
  /\ At(c, "switch")
  /\ \/ current' = cmd[c].target /\ (Goto(c, "restart") \/ Goto(c, "restore"))
     \/ Goto(c, "discard") /\ UNCHANGED current
  /\ UNCHANGED <<releases, stray, root, kept, etc, svc, locks, history>>

Restart(c) ==
  /\ At(c, "restart")
  /\ \/ Restarts /\ Goto(c, "health")
     \/ RestartFails /\ Goto(c, "restore")
  /\ UNCHANGED <<runtime, etc, locks, history>>

\* A candidate that was started only to be examined is stopped again.
Health(c) ==
  /\ At(c, "health")
  /\ \/ /\ Healthy(cmd[c].target)
        /\ IF cmd[c].active THEN Goto(c, "prune") /\ kept' = cmd[c].previous
                            ELSE Goto(c, "stop") /\ UNCHANGED kept
     \/ Goto(c, "restore") /\ UNCHANGED kept
  /\ UNCHANGED <<releases, stray, current, root, etc, svc, locks, history>>

StopCandidate(c) ==
  /\ At(c, "stop")
  /\ \/ Stops /\ Goto(c, "prune") /\ kept' = cmd[c].previous
     \/ StopFails /\ Goto(c, "restore") /\ UNCHANGED kept
  /\ UNCHANGED <<releases, stray, current, root, etc, locks, history>>

Incomplete(c, s) == Goto(c, s) /\ incomplete' = TRUE

\* _restore: the previous link, then the previous state of the service.
Restore(c) ==
  /\ At(c, "restore")
  /\ \/ current' = cmd[c].previous /\ Goto(c, "restore_service") /\ UNCHANGED incomplete
     \/ Incomplete(c, "discard") /\ UNCHANGED current
  /\ UNCHANGED <<mix, killed, releases, stray, root, kept, etc, svc, locks>>

\* Mutant: the service is restarted whether or not it ran before.
RestoreServiceForgetful(c) ==
  /\ At(c, "restore_service")
  /\ \/ Restarts /\ Goto(c, "restore_health") /\ UNCHANGED incomplete
     \/ RestartFails /\ Incomplete(c, "discard")
  /\ UNCHANGED <<mix, killed, runtime, etc, locks>>

RestoreService(c) ==
  /\ At(c, "restore_service")
  /\ \/ cmd[c].active /\ Restarts /\ Goto(c, "restore_health") /\ UNCHANGED incomplete
     \/ cmd[c].active /\ RestartFails /\ Incomplete(c, "discard")
     \/ ~cmd[c].active /\ Stops /\ Goto(c, "discard") /\ UNCHANGED incomplete
     \/ ~cmd[c].active /\ StopFails /\ Incomplete(c, "discard")
  /\ UNCHANGED <<mix, killed, runtime, etc, locks>>

RestoreHealth(c) ==
  /\ At(c, "restore_health")
  /\ \/ Healthy(cmd[c].previous) /\ Goto(c, "discard") /\ UNCHANGED incomplete
     \/ Incomplete(c, "discard")
  /\ UNCHANGED <<mix, killed, runtime, etc, svc, locks>>

\* shutil.rmtree: the release is torn before it is gone.
RemoveRelease(v) ==
  releases' = [releases EXCEPT ![v] = IF @ = "sound" THEN "torn" ELSE "absent"]

\* Mutant: the release this update created goes even if the link still names it.
RemovableAnyway(c, v) == v = cmd[c].target /\ cmd[c].created

Removable(c, v) == v = cmd[c].target /\ cmd[c].created /\ current # v

\* _remove_created_if_inactive
Discard(c) ==
  /\ At(c, "discard")
  /\ \/ /\ \E v \in Versions : Removable(c, v) /\ releases[v] # "absent" /\ RemoveRelease(v)
        /\ UNCHANGED <<locks, cmd>>
     \/ /\ \A v \in Versions : Removable(c, v) => releases[v] = "absent"
        /\ Leave(c, "done") /\ UNCHANGED releases
  /\ UNCHANGED <<stray, current, root, kept, etc, svc, history>>

Obsolete(c, v) == v \notin {cmd[c].target, cmd[c].previous} /\ releases[v] # "absent"

\* _prune_verified
Prune(c) ==
  /\ At(c, "prune")
  /\ \/ /\ \E v \in Versions : Obsolete(c, v) /\ RemoveRelease(v)
        /\ UNCHANGED <<locks, cmd>>
     \/ /\ ~\E v \in Versions : Obsolete(c, v)
        /\ Leave(c, "record") /\ UNCHANGED releases
  /\ UNCHANGED <<stray, current, root, kept, etc, svc, history>>

\* NativeBackend.operate: the manifest, read again, with the version found now.
Record(c) ==
  /\ cmd[c].pc = "record" /\ CanLock /\ Manifest /\ Executable
  /\ etc' = [etc EXCEPT !.manifest.artifact = current]
  /\ Leave(c, "done")
  /\ UNCHANGED <<runtime, svc, history>>
-----------------------------------------------------------------------------
\* rollback: a target is selected before the lock and once more under it.
RollbackTarget(v, requested) ==
  releases[v] = "sound" /\ IF requested = 0 THEN v # current ELSE v = requested

Rollback(c, requested) ==
  /\ Begin(c, "rollback") /\ ~Unsupported /\ root = "whole"
  /\ \E v \in Versions : RollbackTarget(v, requested)
  /\ cmd' = [cmd EXCEPT ![c] = [Idle EXCEPT !.op = "rollback", !.pc = "staged", !.target = requested]]
  /\ UNCHANGED <<runtime, etc, svc, locks, history>>

RollbackLock(c) ==
  /\ cmd[c].op = "rollback" /\ cmd[c].pc = "staged" /\ CanLock /\ root = "whole"
  /\ \E v \in Versions :
       /\ RollbackTarget(v, cmd[c].target)
       /\ IF v = current THEN Leave(c, "record") ELSE Activates(c, v)
  /\ UNCHANGED <<runtime, etc, svc, history>>
-----------------------------------------------------------------------------
(* uninstall [--purge], under deployment_setup_lock.  A unit that is not   *)
(* the one of the receipt is left for review.                              *)
Uninstall(c, op) ==
  /\ Begin(c, op) /\ ~Unsupported /\ setup_lock = Absent
  /\ etc.unit \in {Absent, etc.manifest.files}
  /\ setup_lock' = c
  /\ cmd' = [cmd EXCEPT ![c] = [Idle EXCEPT !.op = op, !.pc = "uninstall", !.spec = etc.manifest]]
  /\ UNCHANGED <<runtime, etc, svc, lock, history>>

\* The lock is taken, or the state is refused: the command ends.
Refused(c) ==
  /\ cmd[c].pc \in {"uninstall", "purge"}
  /\ setup_lock' = Absent
  /\ cmd' = [cmd EXCEPT ![c] = [Idle EXCEPT !.pc = "done"]]
  /\ UNCHANGED lock
  /\ UNCHANGED <<runtime, etc, svc, history>>

UninstallLock(c) ==
  /\ cmd[c].pc = "uninstall" /\ CanLock
  /\ lock' = c
  /\ Goto(c, IF root = "gone" THEN "unlink" ELSE "disable")
  /\ UNCHANGED <<runtime, etc, svc, setup_lock, history>>

\* systemctl disable --now; nothing is removed if it fails.
Disable(c) ==
  /\ At(c, "disable")
  /\ \/ Stops /\ Goto(c, "mark") /\ UNCHANGED locks
     \/ StopFails /\ Leave(c, "done")
  /\ UNCHANGED <<runtime, etc, history>>

\* The receipt of what is retained, without which nothing is removed.
Mark(c) ==
  /\ At(c, "mark")
  /\ \/ /\ etc' = [etc EXCEPT !.marker = @ \/ etc.runtime # Absent \/ etc.auth # NoAuth \/ etc.data]
        /\ Goto(c, "unlink") /\ UNCHANGED locks
     \/ Leave(c, "done") /\ UNCHANGED etc
  /\ UNCHANGED <<runtime, svc, history>>

UnlinkUnit(c) ==
  /\ At(c, "unlink") /\ Goto(c, "tree")
  /\ etc' = [etc EXCEPT !.unit = Absent]
  /\ UNCHANGED <<runtime, svc, locks, history>>

\* The tree goes piece by piece; a purge comes back for the lock.
RemoveTree(c) ==
  /\ At(c, "tree")
  /\ \/ root = "whole" /\ root' = "torn" /\ UNCHANGED <<locks, cmd>>
     \/ /\ root # "whole" /\ root' = "gone" /\ lock' = Absent
        /\ \/ cmd[c].op = "purge" /\ Goto(c, "purge") /\ UNCHANGED setup_lock
           \/ Leave(c, "done")
  /\ UNCHANGED <<releases, stray, current, kept, etc, svc, history>>

PurgeLock(c) ==
  /\ cmd[c].pc = "purge" /\ CanLock /\ Manifest
  /\ lock' = c
  /\ cmd' = [cmd EXCEPT ![c].pc = "resources", ![c].todo = {"profile", "runtime", "auth", "data"}]
  /\ UNCHANGED <<runtime, etc, svc, setup_lock, history>>

\* resource_unchanged, by the receipts read when the command began.
Unchanged(c, r) ==
  CASE r = "profile" -> etc.profile = cmd[c].spec.files
    [] r = "runtime" -> etc.runtime = cmd[c].spec.files
    [] r = "auth" -> etc.auth.ino = cmd[c].spec.auth
    [] OTHER -> etc.data

\* The state directory stays as long as the shared folder lies in it.
Removed(c, r) ==
  CASE r = "profile" -> [etc EXCEPT !.profile = Absent]
    [] r = "runtime" -> [etc EXCEPT !.runtime = Absent]
    [] r = "auth" -> [etc EXCEPT !.auth = NoAuth]
    [] OTHER -> [etc EXCEPT !.data = cmd[c].spec.files = Inside]

PurgeResource(c, r) ==
  /\ At(c, "resources") /\ r \in cmd[c].todo
  /\ etc' = IF Unchanged(c, r) THEN Removed(c, r) ELSE etc
  /\ cmd' = [cmd EXCEPT ![c].todo = @ \ {r}]
  /\ UNCHANGED <<runtime, svc, locks, history>>

PurgeMarker(c) ==
  /\ At(c, "resources") /\ cmd[c].todo = {} /\ Goto(c, "unregister")
  /\ etc' = [etc EXCEPT !.marker = FALSE]
  /\ UNCHANGED <<runtime, svc, locks, history>>

\* unregister_instance: the lock of the registry or its rewriting may fail.
Unregister(c) ==
  /\ At(c, "unregister")
  /\ \/ Goto(c, "manifest") /\ UNCHANGED locks
     \/ Leave(c, "done")
  /\ UNCHANGED <<runtime, etc, svc, history>>

PurgeManifest(c) ==
  /\ At(c, "manifest") /\ Leave(c, "done")
  /\ etc' = [etc EXCEPT !.manifest = NoManifest]
  /\ UNCHANGED <<runtime, svc, history>>
-----------------------------------------------------------------------------
(* config and credentials: what is read before the lock is checked again   *)
(* under it by the first and not by the second.                            *)
Configure(c, f) ==
  /\ Begin(c, "configure")
  /\ cmd' = [cmd EXCEPT ![c] = [Idle EXCEPT !.op = "configure", !.pc = "edited", !.want = f,
                                            !.spec = etc.manifest, !.before = etc]]
  /\ UNCHANGED <<runtime, etc, svc, locks, history>>

Credentials(c, p) ==
  /\ Begin(c, "credentials")
  /\ cmd' = [cmd EXCEPT ![c] = [Idle EXCEPT !.op = "credentials", !.pc = "edited", !.want = p,
                                            !.spec = etc.manifest]]
  /\ UNCHANGED <<runtime, etc, svc, locks, history>>

StartsWriting(c) ==
  /\ cmd[c].pc = "edited" /\ CanLock /\ Manifest
  /\ lock' = c
  /\ cmd' = [cmd EXCEPT ![c].pc = "write", ![c].before = etc, ![c].active = Running]
  /\ UNCHANGED <<runtime, etc, svc, history>>

ConfigureLock(c) ==
  /\ cmd[c].op = "configure" /\ setup_lock = Absent
  /\ etc.manifest = cmd[c].spec /\ etc.profile = cmd[c].before.profile
  /\ Observe \in {"running", "stopped"}
  /\ StartsWriting(c) /\ setup_lock' = c

CredentialsLock(c) ==
  /\ cmd[c].op = "credentials" /\ Observe \in {"running", "stopped", "retained"}
  /\ StartsWriting(c) /\ UNCHANGED setup_lock

\* The files a command writes, in order.
Files(c) == IF cmd[c].op = "configure" THEN <<"unit", "profile", "runtime", "manifest">>
                                       ELSE <<"auth", "manifest">>

\* A written file has a new inode, which is what the receipt of a secret holds.
WithPassword(p) == [pw |-> p, ino |-> etc.auth.ino + 1]
Receipt(c) == IF cmd[c].op = "configure" THEN [cmd[c].spec EXCEPT !.files = cmd[c].want]
                                         ELSE [cmd[c].spec EXCEPT !.auth = etc.auth.ino]
New(c, f) == CASE f = "manifest" -> Receipt(c)
               [] f = "auth" -> WithPassword(cmd[c].want)
               [] OTHER -> cmd[c].want
Old(c, f) == IF f = "auth" THEN WithPassword(cmd[c].before.auth.pw) ELSE cmd[c].before[f]

\* A write, the configuration check or daemon-reload may fail.
Write(c) ==
  /\ At(c, "write")
  /\ LET n == cmd[c].written + 1 IN
     \/ /\ n \in DOMAIN Files(c)
        /\ etc' = [etc EXCEPT ![Files(c)[n]] = New(c, Files(c)[n])]
        /\ cmd' = [cmd EXCEPT ![c].written = n] /\ UNCHANGED locks
     \/ /\ n \notin DOMAIN Files(c) /\ UNCHANGED etc
        /\ IF cmd[c].active THEN Goto(c, "apply") /\ UNCHANGED locks ELSE Leave(c, "done")
     \/ Goto(c, "undo") /\ UNCHANGED <<etc, locks>>
  /\ UNCHANGED <<runtime, svc, history>>

Apply(c) ==
  /\ At(c, "apply")
  /\ \/ Restarts /\ Goto(c, "verify")
     \/ RestartFails /\ Goto(c, "undo")
  /\ UNCHANGED <<runtime, etc, locks, history>>

Verify(c) ==
  /\ At(c, "verify")
  /\ \/ Healthy(svc.version) /\ Leave(c, "done")
     \/ Goto(c, "undo") /\ UNCHANGED locks
  /\ UNCHANGED <<runtime, etc, svc, history>>

\* FilesystemTransaction.rollback, in reverse order.
Undo(c) ==
  /\ At(c, "undo") /\ cmd[c].written > 0
  /\ LET f == Files(c)[cmd[c].written] IN etc' = [etc EXCEPT ![f] = Old(c, f)]
  /\ cmd' = [cmd EXCEPT ![c].written = @ - 1]
  /\ UNCHANGED <<runtime, svc, locks, history>>

UndoFails(c) ==
  /\ At(c, "undo") /\ incomplete' = TRUE
  /\ Leave(c, "done")
  /\ UNCHANGED <<mix, killed, runtime, etc, svc>>

\* A daemon-reload that fails makes the restoration of a configuration incomplete.
Undone(c) ==
  /\ At(c, "undo") /\ cmd[c].written = 0
  /\ etc' = IF cmd[c].op = "credentials" THEN [etc EXCEPT !.manifest = Receipt(c)] ELSE etc
  /\ IF cmd[c].active THEN Goto(c, "reapply") /\ UNCHANGED locks ELSE Leave(c, "done")
  /\ incomplete' \in {incomplete} \cup {cmd[c].op = "configure" \/ incomplete}
  /\ UNCHANGED <<mix, killed, runtime, svc>>

Reapply(c) ==
  /\ At(c, "reapply")
  /\ \/ Restarts /\ Goto(c, "reverify") /\ UNCHANGED <<locks, incomplete>>
     \/ RestartFails /\ Leave(c, "done") /\ incomplete' = TRUE
  /\ UNCHANGED <<mix, killed, runtime, etc>>

Reverify(c) ==
  /\ At(c, "reverify") /\ Leave(c, "done")
  /\ incomplete' = (incomplete \/ ~Healthy(svc.version))
  /\ UNCHANGED <<mix, killed, runtime, etc, svc>>
-----------------------------------------------------------------------------
\* The process is killed: what it wrote stays, its locks are free.
Kill(c) ==
  /\ lock = c /\ killed < mix.kills
  /\ killed' = killed + 1
  /\ Leave(c, "done")
  /\ UNCHANGED <<mix, incomplete, runtime, etc, svc>>

Step(c) ==
  \/ \E v \in Versions : Update(c, v)
  \/ \E v \in Versions \cup {0} : Rollback(c, v)
  \/ UpdateLock(c) \/ RollbackLock(c) \/ Install(c) \/ Copy(c) \/ Switch(c) \/ Restart(c) \/ Health(c)
  \/ StopCandidate(c) \/ Restore(c) \/ RestoreService(c) \/ RestoreHealth(c)
  \/ Discard(c) \/ Prune(c) \/ Record(c)
  \/ \E op \in {"uninstall", "purge"} : Uninstall(c, op)
  \/ Refused(c) \/ UninstallLock(c) \/ Disable(c) \/ Mark(c) \/ UnlinkUnit(c) \/ RemoveTree(c)
  \/ PurgeLock(c) \/ (\E r \in cmd[c].todo : PurgeResource(c, r)) \/ PurgeMarker(c)
  \/ Unregister(c) \/ PurgeManifest(c)
  \/ \E f \in Folders : Configure(c, f)
  \/ \E p \in Passwords : Credentials(c, p)
  \/ ConfigureLock(c) \/ CredentialsLock(c) \/ Write(c) \/ Apply(c) \/ Verify(c)
  \/ Undo(c) \/ UndoFails(c) \/ Undone(c) \/ Reapply(c) \/ Reverify(c)
  \/ Kill(c)

Next ==
  \/ \E c \in Commands : Step(c)
  \/ \E a \in {"start", "stop", "restart"} : Service(a)
  \/ ServiceDies \/ ServiceRevives

Spec == Init /\ [][Next]_vars
-----------------------------------------------------------------------------
Undisturbed == killed = 0 /\ ~incomplete
Quiet == lock = Absent

\* Whatever fails and whenever a command is killed, the current link of an installed runtime
\* names a verified, complete release (_activate, _restore, _remove_created_if_inactive).
CurrentSound == root = "whole" => releases[current] = "sound"

\* The release that the last activation superseded is kept, through failed and killed commands,
\* until another activation succeeds (docs/operations.md:54).
KeptSound == root = "whole" => releases[kept] = "sound"

\* Between commands, a running service runs the installed version with the configuration and
\* the password on disk, unless a command was killed or has said that restoration is incomplete.
RunsWhatIsInstalled ==
  Quiet /\ Undisturbed /\ Running =>
    svc.version = current /\ svc.pw = etc.auth.pw /\ svc.folder = etc.runtime

\* Between commands, profile, compiled runtime, unit and password are the ones the ownership
\* receipts record (docs/operations.md:109).
ReceiptsCurrent ==
  Quiet /\ Undisturbed /\ root = "whole" =>
    /\ {etc.profile, etc.runtime, etc.unit} = {etc.manifest.files}
    /\ etc.auth.ino = etc.manifest.auth

\* What a purge leaves that could not rewrite the registry: the manifest, and nothing it owned.
ManifestAlone ==
  /\ root = "gone" /\ Manifest /\ ~etc.marker
  /\ {etc.profile, etc.runtime, etc.unit} = {Absent} /\ etc.auth = NoAuth

\* No sequence of failing commands leaves a deployment that the next command refuses to touch,
\* but for the manifest that a purge failing over the registry leaves behind: that is neither
\* a deployment nor retained state (_owned_state_is_safe), so not even a purge goes on.
OnlyKillsBlock == Quiet /\ killed = 0 /\ Manifest => ~Unsupported \/ ManifestAlone

\* A purge that has removed the manifest has removed what the manifest owned.
NothingPrivateLeft ==
  Quiet /\ Undisturbed /\ ~Manifest => {etc.profile, etc.runtime} = {Absent} /\ etc.auth = NoAuth

\* The native deployment after any mix of commands that overlap, fail and are killed.
NativeSound ==
  CurrentSound /\ KeptSound /\ RunsWhatIsInstalled /\ ReceiptsCurrent /\ OnlyKillsBlock /\ NothingPrivateLeft

\* A command that found the server stopped leaves it stopped (docs/operations.md:40), although
\* updates start it to examine it.
StoppedStaysStopped ==
  [][\A c \in Commands :
       (/\ lock = c /\ lock' = Absent /\ killed' = killed /\ ~incomplete'
        /\ cmd[c].op \in {"update", "rollback", "configure", "credentials"} /\ ~cmd[c].active)
       => svc'.state = "inactive"]_vars
=============================================================================
