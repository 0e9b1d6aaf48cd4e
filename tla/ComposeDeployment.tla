--------------------------- MODULE ComposeDeployment ---------------------------
(***************************************************************************)
(* A deployment by Docker Compose (compose_backend.py, docker_deploy.py):  *)
(* a bundle of files, a manifest with receipts of them, and the container  *)
(* and secrets volume that Docker keeps.  Two operators run commands, each *)
(* of which reads the manifest, takes the lock without waiting, looks      *)
(* whether the manifest is still the same, and works step by step; a step  *)
(* may fail, its undoing may fail, and the process may be killed.          *)
(*                                                                         *)
(* A configuration, an image and a password are model values; compose.yaml *)
(* is the pair of image and configuration it is generated from.  Setups    *)
(* use the default files directory, which is reserved under the setup lock. *)
(***************************************************************************)
EXTENDS Integers, Sequences, SequencesExt

CONSTANTS
  Operators, Nobody, Nothing,
  Images, Configs, Secrets,
  PastMax,       \* images kept for a rollback
  MaxCommands     \* bound of the model: commands begun

VARIABLES
  bundle,    \* the files: profile, runtime.ini, compose.yaml, auth, manifest, history
  docker,    \* the secrets volume and the container
  job,       \* the command of each operator
  holder,    \* who holds the lock of the bundle
  trail,     \* history: the images in the order in which they were superseded
  begun,    \* commands begun
  tainted    \* a command was killed, or reported that its restoration is incomplete

composeVars == <<bundle, docker, job, holder, trail, begun, tainted>>

EmptyBundle == [profile |-> Nothing, runtime |-> Nothing, compose |-> Nothing, auth |-> Nothing,
                manifest |-> Nothing, past |-> << >>]
NoContainer == [image |-> Nothing, conf |-> Nothing, secret |-> Nothing, up |-> FALSE]
NoJob == [kind |-> "none", at |-> "idle", arg |-> Nothing, spec |-> Nothing, text |-> Nothing,
          up |-> FALSE, old |-> EmptyBundle, todo |-> << >>]

\* What may be written: compose.yaml, and a manifest with the receipt of one.
Composes == [image : Images, conf : Configs \cup {Nothing}]
BundleManifests == [image : Images, receipt : Composes \cup {Nothing}, revealed : BOOLEAN]

ASSUME ComposeAssumption ==
  /\ Nobody \notin Operators /\ Nothing \notin BundleManifests \cup Composes
  /\ Configs # {} /\ Secrets # {} /\ PastMax \in Nat

ComposeInit ==
  /\ bundle = EmptyBundle /\ docker = [secret |-> Nothing, server |-> NoContainer]
  /\ job = [o \in Operators |-> NoJob] /\ holder = Nobody
  /\ trail = << >> /\ begun = 0 /\ tainted = FALSE
-----------------------------------------------------------------------------
\* _ownership: compose.yaml is the one the manifest has a receipt of.
Owned == bundle.compose = bundle.manifest.receipt

\* What a command begun, from the manifest it read before it had the lock.
FirstConfig == CHOOSE c \in Configs : TRUE
FirstSecret == CHOOSE s \in Secrets : TRUE
NewImage(j) ==
  CASE j.kind \in {"setup", "update"} -> j.arg
    [] j.kind = "rollback" -> Last(j.old.past)
    [] OTHER -> j.spec.image
NewConfig(j) ==
  CASE j.kind = "setup" -> FirstConfig [] j.kind = "configure" -> j.arg [] OTHER -> bundle.profile
NewSecret(j) == IF j.kind = "setup" THEN FirstSecret ELSE j.arg

\* _receipt, for the files as they are at this moment.
Receipted(j, image) ==
  [image |-> image, receipt |-> bundle.compose,
   revealed |-> j.spec # Nothing /\ j.spec.revealed]

Window(s) == SubSeq(s, IF Len(s) > PastMax THEN Len(s) - PastMax + 1 ELSE 1, Len(s))
Superseded(j, s) == IF j.kind = "update" THEN Append(s, j.spec.image) ELSE Front(s)

\* The steps of each command; _activate starts the container only if it was running.
Activation(start) == IF start THEN <<"secrets", "up">> ELSE <<"secrets">>
PurgeSteps == <<"down_volumes", "remove_files", "unregister", "remove_manifest">>
ProgramOf(j) ==
  CASE j.kind = "setup" ->
         <<"auth", "profile", "runtime", "compose", "manifest", "secrets", "up", "reveal">>
    [] j.kind = "configure" ->
         <<"profile", "runtime", "compose", "manifest">> \o (IF j.up THEN Activation(TRUE) ELSE << >>)
    [] j.kind = "credentials" -> <<"auth", "manifest">> \o Activation(j.up)
    [] j.kind \in {"update", "rollback"} ->
         <<"compose", "manifest">> \o Activation(j.up) \o <<"past", "manifest">>
    [] j.kind = "start" ->
         Activation(TRUE) \o (IF j.spec.revealed THEN << >> ELSE <<"reveal">>)
    [] j.kind = "stop" -> <<"stop">>
    [] j.kind = "uninstall" -> <<"down">>
    [] j.kind = "purge" -> PurgeSteps

\* unregister_instance writes the registry, which is not part of the bundle; the manifest goes last.
Written(j, s) ==
  CASE s = "auth"     -> [bundle EXCEPT !.auth = NewSecret(j)]
    [] s = "profile"  -> [bundle EXCEPT !.profile = NewConfig(j)]
    [] s = "runtime"  -> [bundle EXCEPT !.runtime = bundle.profile]
    [] s = "compose"  -> [bundle EXCEPT !.compose = [image |-> NewImage(j), conf |-> bundle.profile]]
    [] s = "manifest" -> [bundle EXCEPT !.manifest = Receipted(j, NewImage(j))]
    [] s = "past"     -> [bundle EXCEPT !.past = Window(Superseded(j, bundle.past))]
    [] s = "reveal"   -> [bundle EXCEPT !.manifest.revealed = TRUE]
    [] s = "remove_files" -> [EmptyBundle EXCEPT !.manifest = bundle.manifest]
    [] s = "remove_manifest" -> [bundle EXCEPT !.manifest = Nothing]
    [] OTHER          -> bundle

\* What docker compose makes of the files.
ContainerOfFiles ==
  [image |-> bundle.compose.image, conf |-> bundle.runtime, secret |-> docker.secret, up |-> TRUE]
Composed(s) ==
  CASE s = "secrets" -> [docker EXCEPT !.secret = bundle.auth]
    [] s = "up"      -> [docker EXCEPT !.server = ContainerOfFiles]
    [] s = "stop"    -> [docker EXCEPT !.server.up = FALSE]
    [] s = "down"    -> [docker EXCEPT !.server = NoContainer]
    [] s = "down_volumes" -> [secret |-> Nothing, server |-> NoContainer]
    [] OTHER         -> docker

\* A step that fails: a file is replaced or is not, Docker may have come any distance.
ComposedPartly(s) ==
  CASE s = "up" -> {docker, [docker EXCEPT !.server = NoContainer], Composed("up")}
    [] s \in {"secrets", "stop", "down"} -> {docker, Composed(s)}
    [] s = "down_volumes" -> {docker, Composed("down"), Composed(s)}
    [] OTHER -> {docker}
-----------------------------------------------------------------------------
JobArgs(kind) ==
  CASE kind \in {"setup", "update"} -> Images
    [] kind = "configure" -> Configs
    [] kind = "credentials" -> Secrets
    [] OTHER -> {Nothing}
JobKinds ==
  {"setup", "configure", "credentials", "start", "stop", "update", "rollback", "uninstall", "purge"}

\* Before the lock: the manifest is read, and the container is looked at.  Nothing is claimed
\* of a tainted deployment, and no command is begun on it.
Prepare(o, kind, arg) ==
  /\ job[o] = NoJob /\ begun < MaxCommands /\ ~tainted
  /\ IF kind = "setup" THEN bundle = EmptyBundle ELSE bundle.manifest # Nothing
  /\ job' = [job EXCEPT ![o] = [NoJob EXCEPT !.kind = kind, !.at = "prepared", !.arg = arg,
                                  !.spec = bundle.manifest, !.text = bundle.profile,
                                  !.up = docker.server.up]]
  /\ begun' = begun + 1
  /\ UNCHANGED <<bundle, docker, holder, trail, tainted>>

\* Mutant: what was read before the lock is taken for what is there.
StillAsReadAlways(j) == bundle.manifest # Nothing

StillAsRead(j) == bundle.manifest = j.spec /\ (j.kind = "configure" => bundle.profile = j.text)

\* The tests under the lock; a setup finds its files directory reserved.
Workable(j) ==
  IF j.kind = "setup" THEN bundle.manifest = Nothing
  ELSE StillAsRead(j) /\ Owned /\ (j.kind = "rollback" => bundle.past # << >>)

\* Only start and restart go by the state that was seen before the lock.
AcquireBundle(o) ==
  /\ job[o].at = "prepared" /\ holder = Nobody /\ Workable(job[o])
  /\ holder' = o
  /\ LET j == [job[o] EXCEPT !.at = "work", !.old = bundle,
                             !.up = IF job[o].kind = "start" THEN @ ELSE docker.server.up]
     IN job' = [job EXCEPT ![o] = [j EXCEPT !.todo = ProgramOf(j)]]
  /\ UNCHANGED <<bundle, docker, trail, begun, tainted>>

RefuseJob(o) ==
  /\ job[o].at = "prepared" /\ (holder # Nobody \/ ~Workable(job[o]))
  /\ job' = [job EXCEPT ![o] = NoJob]
  /\ UNCHANGED <<bundle, docker, holder, trail, begun, tainted>>

DoStep(o) ==
  /\ job[o].at = "work" /\ job[o].todo # << >>
  /\ bundle' = Written(job[o], Head(job[o].todo))
  /\ docker' = Composed(Head(job[o].todo))
  /\ job' = [job EXCEPT ![o].todo = Tail(@)]
  /\ UNCHANGED <<holder, trail, begun, tainted>>

StepFails(o) ==
  /\ job[o].at = "work" /\ job[o].todo # << >>
  /\ docker' \in ComposedPartly(Head(job[o].todo))
  /\ job' = [job EXCEPT ![o].at = "failed"]
  /\ UNCHANGED <<bundle, holder, trail, begun, tainted>>

EndJob(o) == holder' = Nobody /\ job' = [job EXCEPT ![o] = NoJob]

Succeed(o) ==
  /\ job[o].at = "work" /\ job[o].todo = << >>
  /\ EndJob(o)
  /\ trail' = CASE job[o].kind \in {"update", "rollback"} -> Superseded(job[o], trail)
                [] job[o].kind = "purge" -> << >>
                [] OTHER -> trail
  /\ UNCHANGED <<bundle, docker, begun, tainted>>
-----------------------------------------------------------------------------
\* _restore_bundle with the snapshots of the command; the files of a setup are removed.
PutBack(j) == IF j.kind = "credentials" THEN [bundle EXCEPT !.auth = j.old.auth] ELSE j.old

\* A configuration is activated again only if a container runs; the receipt of a password is
\* written anew.
Recovery(j) ==
  CASE j.kind = "configure" /\ ~j.up -> << >>
    [] j.kind = "credentials" -> <<"manifest">> \o Activation(j.up)
    [] OTHER -> Activation(j.up)

Restorable == {"configure", "credentials", "update", "rollback"}

RestoreBundle(o) ==
  /\ job[o].at = "failed" /\ job[o].kind \in Restorable
  /\ bundle' = PutBack(job[o])
  /\ job' = [job EXCEPT ![o].at = "restore",
                        ![o].todo = Recovery(job[o])]
  /\ UNCHANGED <<docker, holder, trail, begun, tainted>>

RestoreStep(o) ==
  /\ job[o].at = "restore" /\ job[o].todo # << >>
  /\ bundle' = Written(job[o], Head(job[o].todo))
  /\ docker' = Composed(Head(job[o].todo))
  /\ job' = [job EXCEPT ![o].todo = Tail(@)]
  /\ UNCHANGED <<holder, trail, begun, tainted>>

Restored(o) ==
  /\ job[o].at = "restore" /\ job[o].todo = << >>
  /\ EndJob(o)
  /\ UNCHANGED <<bundle, docker, trail, begun, tainted>>

\* "Restoration incomplete; run xferry doctor."
RestoreIncomplete(o) ==
  /\ job[o].at = "restore" \/ (job[o].at = "failed" /\ job[o].kind \in Restorable)
  /\ EndJob(o) /\ tainted' = TRUE
  /\ UNCHANGED <<bundle, docker, trail, begun>>

\* A failed first setup takes its files back if there is no manifest yet, and the container down.
SetupFails(o) ==
  /\ job[o].at = "failed" /\ job[o].kind = "setup"
  /\ bundle' = IF bundle.manifest = Nothing THEN EmptyBundle ELSE bundle
  /\ docker' \in ComposedPartly("down")
  /\ EndJob(o)
  /\ UNCHANGED <<trail, begun, tainted>>

\* A failed start stops a container that was not seen running; the others leave things as they are.
CommandFails(o) ==
  /\ job[o].at = "failed" /\ job[o].kind \in {"start", "stop", "uninstall", "purge"}
  /\ IF job[o].kind = "start" /\ ~job[o].up THEN docker' \in ComposedPartly("stop") ELSE UNCHANGED docker
  /\ EndJob(o)
  /\ UNCHANGED <<bundle, trail, begun, tainted>>

KillJob(o) ==
  /\ job[o].at \in {"work", "failed", "restore"} /\ ~tainted
  /\ EndJob(o) /\ tainted' = TRUE
  /\ UNCHANGED <<bundle, docker, trail, begun>>

ComposeNext ==
  \E o \in Operators :
    \/ \E k \in JobKinds : \E a \in JobArgs(k) : Prepare(o, k, a)
    \/ AcquireBundle(o) \/ RefuseJob(o) \/ DoStep(o) \/ StepFails(o) \/ Succeed(o)
    \/ RestoreBundle(o) \/ RestoreStep(o) \/ Restored(o) \/ RestoreIncomplete(o)
    \/ SetupFails(o) \/ CommandFails(o) \/ KillJob(o)

ComposeSpec == ComposeInit /\ [][ComposeNext]_composeVars
-----------------------------------------------------------------------------
\* What a purge leaves that could not change the registry: a manifest, and nothing else.
Stripped ==
  /\ bundle = [EmptyBundle EXCEPT !.manifest = bundle.manifest]
  /\ docker = [secret |-> Nothing, server |-> NoContainer]

(* Between commands the manifest tells the truth: compose.yaml and runtime.ini are those *)
(* of its image and of the profile, so that the next command is not refused, and a       *)
(* container that runs has that image, that configuration and the password of the file.  *)
(* It holds however commands fail and overlap, unless one was killed or said that it     *)
(* could not restore what it found.  The one exception is a purge that fails when its    *)
(* files are gone: its manifest stays alone, nothing runs, Docker keeps nothing of it,   *)
(* and every command from then on is refused (~Owned).                                   *)
RunsWhatIsRecorded ==
  (holder = Nobody /\ ~tainted /\ bundle.manifest # Nothing) =>
    IF Owned
    THEN /\ bundle.compose = [image |-> bundle.manifest.image, conf |-> bundle.profile]
         /\ bundle.runtime = bundle.profile
         /\ docker.server.up =>
              docker.server = [image |-> bundle.manifest.image, conf |-> bundle.profile,
                               secret |-> bundle.auth, up |-> TRUE]
    ELSE Stripped

(* A rollback goes back to the image that served before: the history names, newest last  *)
(* and without a gap, the images that completed updates superseded, and an update or a   *)
(* rollback that fails at any step leaves no trace in it.                                *)
RollbackReturns ==
  (holder = Nobody /\ ~tainted /\ bundle.manifest # Nothing) => IsSuffix(bundle.past, trail)

\* The Compose deployment after any mix of commands that overlap and fail.
ComposeSound == RunsWhatIsRecorded /\ RollbackReturns
================================================================================
