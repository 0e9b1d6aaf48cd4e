------------------------------ MODULE ReleaseTrust ------------------------------
(***************************************************************************)
(* What `xferry update` and `rollback` believe (release_contract.py,       *)
(* release_trust.py, versions.py, releases.py): a server, which may be     *)
(* anybody, answers with a manifest, a detached signature and an           *)
(* executable; two administrators act at once, and an installed release    *)
(* may rot on disk, also while the command that holds the lock waits for   *)
(* the service it has switched.  What the steps under the lock do to the   *)
(* service is the subject of NativeDeployment.                             *)
(*                                                                         *)
(* The content of an executable is the version and platform it was built   *)
(* for, HandBuilt, or Other; equal digests mean equal contents.  With an   *)
(* active key only the publisher signs, and only manifests of its own      *)
(* builds; with the others anybody may have signed anything.  A release    *)
(* that was set up from a build by hand has a manifest without signature.  *)
(***************************************************************************)
EXTENDS Integers, Sequences, FiniteSetsExt

CONSTANTS
  Ladder,        \* sets of versions, in the order of precedence of semantic versioning
  SupportedVersions,     \* the versions of the supported line from MIN_DEPLOYMENT_RELEASE on
  Platforms, Host,
  SigningKeys,
  Unsigned,      \* in the place of the key: the manifest says that nobody signed it
  Updaters,      \* administrators
  MaxUpdates,    \* bound of the model: commands begun
  HandBuilt,     \* the content of a build that was not published
  Other          \* the content of no build

VARIABLES
  ring,       \* ReleaseKeyRing: "active", "revoked" or "unknown"
  installed,  \* releases/<version>: content of the executable, with its manifest
  active,     \* the current link
  updater,    \* the command of each administrator
  requests    \* commands begun

trustVars == <<ring, installed, active, updater, requests>>

AllVersions == UNION {Ladder[i] : i \in DOMAIN Ladder}
Precedence(v) == CHOOSE i \in DOMAIN Ladder : v \in Ladder[i]

Content(v, p) == [version |-> v, platform |-> p]
Manifests ==
  [version : AllVersions, platform : Platforms, key : SigningKeys,
   exe : {Content(v, p) : v \in AllVersions, p \in Platforms} \cup {Other}]

\* Whether a signature of the manifest with this key can exist.
CanBeSigned(m, k) ==
  ring[k] = "active" => m.exe = Content(m.version, m.platform) /\ m.key = k

NotInstalled == [exe |-> Other, manifest |-> Other]
Release(m) == [exe |-> m.exe, manifest |-> m]
NoUpdate == [at |-> "idle"]

SetUpWith(v, k) ==
  [version |-> v, platform |-> Host, key |-> k, exe |-> IF k = Unsigned THEN HandBuilt ELSE Content(v, Host)]

\* An installation that has been set up with some version.
TrustInit ==
  /\ ring \in [SigningKeys -> {"active", "revoked", "unknown"}]
  /\ \E k \in SigningKeys \cup {Unsigned} :
       /\ k # Unsigned => ring[k] = "active"
       /\ active \in SupportedVersions
       /\ installed = [v \in AllVersions |->
            IF v = active
            THEN Release(SetUpWith(v, k))
            ELSE NotInstalled]
  /\ updater = [u \in Updaters |-> NoUpdate] /\ requests = 0
-----------------------------------------------------------------------------
\* compare_release_versions: cores first, a release after its candidates, and then the first
\* identifiers that differ; numbers come before words, and a longer list after its prefix.
IdentifierBefore(x, y) ==
  CASE x.number /\ y.number -> x.value < y.value
    [] x.number # y.number -> x.number
    [] OTHER -> x.value < y.value

CompareIdentifiers(l, r) ==
  LET shared == 1 .. Min({Len(l), Len(r)})
      differ == {i \in shared : l[i] # r[i]}
  IN CASE differ # {} -> (IF IdentifierBefore(l[Min(differ)], r[Min(differ)]) THEN -1 ELSE 1)
       [] Len(l) = Len(r) -> 0
       [] OTHER -> IF Len(l) < Len(r) THEN -1 ELSE 1

CompareReleaseVersions(l, r) ==
  CASE l.core # r.core -> (IF l.core < r.core THEN -1 ELSE 1)
    [] l.pre = << >> -> (IF r.pre = << >> THEN 0 ELSE 1)
    [] r.pre = << >> -> -1
    [] OTHER -> CompareIdentifiers(l.pre, r.pre)

\* The ladder is in the order that the code computes.
ASSUME TrustAssumption ==
  /\ SupportedVersions \subseteq AllVersions /\ Unsigned \notin SigningKeys
  /\ \A l, r \in AllVersions : CompareReleaseVersions(l, r) > 0 => Precedence(l) > Precedence(r)

\* _require_non_downgrade
NonDowngrade(v, now) ==
  CompareReleaseVersions(v, now) > 0 \/ v = now

\* verify_detached_signature and verify_manifest_signature
SignatureHolds(m, k) == ring[k] = "active" /\ CanBeSigned(m, k) /\ m.key = k

\* The manifest is for what was asked for.
EnvelopeMatches(m, v) == m.version = v /\ m.platform = Host
-----------------------------------------------------------------------------
\* _installed_manifest: name, platform, digest, and the signature unless there is none.
Verified(v) ==
  /\ installed[v] # NotInstalled
  /\ LET m == installed[v].manifest IN
     /\ EnvelopeMatches(m, v) /\ installed[v].exe = m.exe
     /\ m.key # Unsigned => SignatureHolds(m, m.key)

\* _require_supported_managed_installation
Manageable == active \in SupportedVersions /\ Verified(active)

RequestUpdate(u, v) ==
  /\ updater[u] = NoUpdate /\ requests < MaxUpdates /\ requests' = requests + 1
  /\ v \in SupportedVersions /\ Manageable
  /\ updater' = [updater EXCEPT ![u] = [at |-> "fetch", want |-> v, seen |-> active]]
  /\ UNCHANGED <<ring, installed, active>>

\* _fetch_verified_manifest, and the tests of update: against the version seen at the beginning.
FetchVerifiedManifest(u) ==
  /\ updater[u].at = "fetch"
  /\ \E m \in Manifests, k \in SigningKeys :
       /\ SignatureHolds(m, k) /\ EnvelopeMatches(m, updater[u].want)
       /\ NonDowngrade(m.version, updater[u].seen)
       /\ updater' = [updater EXCEPT ![u] =
            [at |-> IF m.version = updater[u].seen THEN "same" ELSE "download", manifest |-> m]]
  /\ UNCHANGED <<ring, installed, active, requests>>

\* _download_candidate: any bytes may arrive, those of the manifest are kept.
DownloadCandidate(u) ==
  /\ updater[u].at = "download"
  /\ updater' = [updater EXCEPT ![u].at = "lock"]
  /\ UNCHANGED <<ring, installed, active, requests>>

\* managed_mutation: the command that holds the lock, until it ends or is killed.
HoldsLock(u) == updater[u].at \in {"switch", "activate"}
LockFree == \A u \in Updaters : ~HoldsLock(u)
Held(name, v, created) ==
  [at |-> "switch", command |-> name, to |-> v, before |-> active, created |-> created]

\* A test fails, the server does not answer, the lock is taken, or the command is killed; under
\* the lock also a restoration that fails before it has moved the link.
GiveUp(u) ==
  /\ updater[u] # NoUpdate
  /\ updater' = [updater EXCEPT ![u] = NoUpdate] /\ UNCHANGED <<ring, installed, active, requests>>

\* _same_version_update_locked
SameVersion(u) ==
  /\ updater[u].at = "same" /\ LockFree /\ Manageable
  /\ active = updater[u].manifest.version /\ installed[active].manifest = updater[u].manifest
  /\ updater' = [updater EXCEPT ![u] = NoUpdate] /\ UNCHANGED <<ring, installed, active, requests>>

\* _prune_verified
Pruned(inst, now, before) ==
  [v \in AllVersions |-> IF v \in {now, before} \/ ~Verified(v) THEN inst[v] ELSE NotInstalled]

\* Mutant: the version seen before the lock is relied on.
ForwardUnderLockAlready(m) == m.version # active

\* The version is compared again under the lock.
ForwardUnderLock(m) == m.version # active /\ NonDowngrade(m.version, active)

\* _update_locked: a release that is there already must have the same manifest.
UpdateLocked(u) ==
  /\ updater[u].at = "lock" /\ LockFree /\ Manageable
  /\ LET m == updater[u].manifest  v == m.version IN
     /\ ForwardUnderLock(m)
     /\ installed[v] # NotInstalled => Verified(v) /\ installed[v].manifest = m
     /\ installed' = [installed EXCEPT ![v] = IF @ = NotInstalled THEN Release(m) ELSE @]
     /\ updater' = [updater EXCEPT ![u] = Held("update", v, installed[v] = NotInstalled)]
  /\ UNCHANGED <<ring, active, requests>>

\* rollback, to a verified release that is installed.
RollbackTo(u, v) ==
  /\ updater[u] = NoUpdate /\ LockFree /\ requests < MaxUpdates /\ requests' = requests + 1
  /\ Manageable /\ v # active /\ v \in SupportedVersions /\ Verified(v)
  /\ updater' = [updater EXCEPT ![u] = Held("rollback", v, FALSE)]
  /\ UNCHANGED <<ring, installed, active>>

\* _activate and _atomic_current: what is on disk is examined once more, and the link moved.
Activate(u) ==
  /\ updater[u].at = "switch" /\ Verified(updater[u].to)
  /\ active' = updater[u].to /\ updater' = [updater EXCEPT ![u].at = "activate"]
  /\ UNCHANGED <<ring, installed, requests>>

\* The service answers with its version: older releases are pruned.
Activated(u) ==
  /\ updater[u].at = "activate"
  /\ installed' = Pruned(installed, updater[u].to, updater[u].before)
  /\ updater' = [updater EXCEPT ![u] = NoUpdate] /\ UNCHANGED <<ring, active, requests>>

\* _restore, after the candidate failed: the release before it is linked again without a look at
\* what it holds, and the new one removed (a kill may come before that).
RestorePrevious(u) ==
  /\ HoldsLock(u) /\ active' = updater[u].before
  /\ \/ installed' = installed
     \/ updater[u].created /\ installed' = [installed EXCEPT ![updater[u].to] = NotInstalled]
  /\ updater' = [updater EXCEPT ![u] = NoUpdate] /\ UNCHANGED <<ring, requests>>

\* The disk loses what it had.
Rot(v) ==
  /\ installed[v] # NotInstalled /\ installed' = [installed EXCEPT ![v].exe = Other]
  /\ installed[v].exe # Other
  /\ UNCHANGED <<ring, active, updater, requests>>

TrustNext ==
  \/ \E u \in Updaters :
       \/ \E v \in AllVersions : RequestUpdate(u, v) \/ RollbackTo(u, v)
       \/ FetchVerifiedManifest(u) \/ DownloadCandidate(u) \/ GiveUp(u)
       \/ SameVersion(u) \/ UpdateLocked(u) \/ Activate(u) \/ Activated(u) \/ RestorePrevious(u)
  \/ \E v \in AllVersions : Rot(v)

TrustSpec == TrustInit /\ [][TrustNext]_trustVars
-----------------------------------------------------------------------------
\* The step of a command that fails and links again what it had replaced.
Reverts(u) ==
  /\ HoldsLock(u) /\ active = updater[u].to
  /\ updater'[u] = NoUpdate /\ active' = updater[u].before

(* The service is only ever switched to a release whose manifest, if it is signed at all, *)
(* names what the publisher built for this version and this platform, whatever the server *)
(* answers and whoever holds a revoked key.  What is on disk is what the manifest names,   *)
(* whatever became of it before, except when a command that failed links again the release *)
(* that it had itself replaced: nobody looks at that one.                                  *)
SwitchesToGenuine ==
  [][active' # active =>
       LET r == installed'[active'] IN
       /\ r.manifest.key # Unsigned => r.manifest.exe = Content(active', Host)
       /\ r.exe = r.manifest.exe \/ \E u \in Updaters : Reverts(u)]_trustVars

(* Only a rollback leads to an earlier version, or the command that fails back to the one  *)
(* it came from: an update moves forward in the order of semantic versioning, also when    *)
(* another update or rollback was completed since it looked.                               *)
UpdatesMoveForward ==
  [][active' # active =>
       \/ Precedence(active') > Precedence(active)
       \/ \E u \in Updaters : Reverts(u) \/ (HoldsLock(u) /\ updater[u].command = "rollback")]_trustVars

(* An update or a rollback ends in a release that it verified, an update in a later one;   *)
(* when it fails, in the one it began with.                                                *)
UpdatesSound == SwitchesToGenuine /\ UpdatesMoveForward
================================================================================
