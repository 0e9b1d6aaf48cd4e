-------------------------- MODULE MCEncryptedStorage --------------------------
(***************************************************************************)
(* Encrypted uploads from end to end: the journals and payloads on disk    *)
(* with their outages, the transfer with its cryptography, the manifest a  *)
(* client sends and a restart reads, the start of a server on its data,    *)
(* the rebind of a restored copy, and the folders that deployments         *)
(* reserve.  Each is checked by itself: scope names the one that moves,    *)
(* the others rest.                                                        *)
(***************************************************************************)
EXTENDS EncryptedStorage, EncryptedTransfer, EncryptedManifest, ServerStartup, StorageRebind,
        FolderReservation, TLC

CONSTANT Scopes   \* the components a run looks at

VARIABLE scope

uploadsVars == <<scope, vars, transferVars, manifestVars, startupVars, rebindVars, reservationVars>>

\* Two losses of power and one kill, in this order, at any moments.
PowerThenKill == <<"power", "power", "kill">>

KillThenPower == <<"kill", "power">>

\* A folder, one inside it, and a bind mount of the first, which shows the inner folder by a
\* second path: the second and the third are told apart by their paths only.
FoldersOfHost == {<<"srv">>, <<"srv", "sub">>, <<"mnt">>}
PathsOfHost == FoldersOfHost \cup {<<"mnt", "sub">>}
DirectoryAt == [x \in PathsOfHost |-> IF Head(x) = "mnt" THEN <<"srv">> \o Tail(x) ELSE x]

\* A component that rests is left in one of its initial states.
UploadsInit ==
  /\ scope \in Scopes
  /\ Init /\ TransferInit /\ ReservationInit
  /\ IF scope = "manifest" THEN ManifestInit
     ELSE put = (CHOOSE q \in [envelope : Envelopes, manifest : Manifests] : TRUE) /\ limit = 0 /\ journal = "none"
  /\ StartupInit /\ (scope # "startup" => mounted = CHOOSE m \in [StateDirs -> Folders] : TRUE)
  /\ RebindInit /\ (scope # "rebind" => DOMAIN store = {} /\ wanted)

StorageScope ==
  /\ scope = "storage" /\ Next
  /\ UNCHANGED <<scope, transferVars, manifestVars, startupVars, rebindVars, reservationVars>>
TransferScope ==
  /\ scope = "transfer" /\ TransferNext
  /\ UNCHANGED <<scope, vars, manifestVars, startupVars, rebindVars, reservationVars>>
ManifestScope ==
  /\ scope = "manifest" /\ ManifestNext
  /\ UNCHANGED <<scope, vars, transferVars, startupVars, rebindVars, reservationVars>>
StartupScope ==
  /\ scope = "startup" /\ StartupNext
  /\ UNCHANGED <<scope, vars, transferVars, manifestVars, rebindVars, reservationVars>>
RebindScope ==
  /\ scope = "rebind" /\ RebindNext
  /\ UNCHANGED <<scope, vars, transferVars, manifestVars, startupVars, reservationVars>>
FoldersScope ==
  /\ scope = "folders" /\ ReservationNext
  /\ UNCHANGED <<scope, vars, transferVars, manifestVars, startupVars, rebindVars>>

UploadsNext ==
  \/ StorageScope \/ TransferScope \/ ManifestScope \/ StartupScope
  \/ RebindScope \/ FoldersScope

UploadsSpec == UploadsInit /\ [][UploadsNext]_uploadsVars

\* The identifiers of uploads in each component, and the shells, are given the same two model
\* values: no component tells them apart.
Interchangeable == Permutations(Ids)
===============================================================================
