--------------------------- MODULE EncryptedManifest ---------------------------
(***************************************************************************)
(* The manifest of an encrypted upload on its way in and back: read from   *)
(* the JSON of a PUT (handlers/encrypted_files.py), stored in a journal,   *)
(* and decoded again by a later start of the server (encrypted_storage.py  *)
(* and encrypted_transfer.py).  Three validators see it, written apart;    *)
(* reconcile deletes an upload whose journal the last one refuses.  The    *)
(* operator may change the size limit between two starts.                  *)
(*                                                                         *)
(* Sizes and lengths are small numbers; what is left of a request is what  *)
(* its validator tells apart.                                              *)
(***************************************************************************)
EXTENDS Integers

CONSTANTS
  PieceSize,        \* EUF_CHUNK_SIZE
  MaxPieces,        \* EUF_MAX_CHUNK_COUNT
  TagBytes,         \* EUF_GCM_TAG_SIZE
  MaxMetadata,      \* EUF_MAX_METADATA_SIZE
  SaltBytes, PrefixBytes,
  OperatorLimits    \* values of encrypted_upload_max_size, 0 for none

ASSUME ManifestAssumption ==
  /\ PieceSize \in Nat \ {0} /\ MaxPieces \in Nat /\ TagBytes \in Nat /\ MaxMetadata \in Nat
  /\ SaltBytes \in Nat /\ PrefixBytes \in Nat /\ OperatorLimits \subseteq Nat

VARIABLES
  put,        \* the request
  limit,      \* the limit of the running server
  journal     \* "none", "refused", "stored", "reloaded" or "deleted"

manifestVars == <<put, limit, journal>>

MaxPlaintext == MaxPieces * PieceSize
Pieces(size) == (size + PieceSize - 1) \div PieceSize

\* Manifests at and around every boundary, with at most one field besides the sizes off.
Manifests ==
  LET sizes == {-1, 0, 1, PieceSize, PieceSize + 1, MaxPlaintext - 1, MaxPlaintext, MaxPlaintext + 1}
      good == [version |-> 1, size |-> 0, chunk |-> PieceSize, count |-> 0, salt |-> SaltBytes,
               prefix |-> PrefixBytes, metadata |-> TagBytes]
      sized == {[good EXCEPT !.size = n, !.count = Pieces(n) + d] : n \in sizes, d \in {-1, 0, 1}}
  IN sized
     \cup {[m EXCEPT !.version = 2] : m \in sized} \cup {[m EXCEPT !.chunk = PieceSize + 1] : m \in sized}
     \cup {[m EXCEPT !.salt = SaltBytes + d] : m \in sized, d \in {-1, 1}}
     \cup {[m EXCEPT !.prefix = PrefixBytes + d] : m \in sized, d \in {-1, 1}}
     \cup {[m EXCEPT !.metadata = n] :
             m \in sized, n \in {TagBytes - 1, MaxMetadata + TagBytes, MaxMetadata + TagBytes + 1}}

Envelopes ==
  [media : {"json"}, small : BOOLEAN, text : {"object"}, fields : {"exact", "extra", "missing"}]
  \cup [media : {"none", "other", "twice"}, small : {TRUE}, text : {"object"}, fields : {"exact"}]
  \cup [media : {"json"}, small : {TRUE}, text : {"duplicate", "malformed", "list"}, fields : {"exact"}]

ManifestInit ==
  /\ put \in [envelope : Envelopes, manifest : Manifests]
  /\ limit \in OperatorLimits /\ journal = "none"
-----------------------------------------------------------------------------
\* _require_content_type and _load_encrypted_json.
RequireContentType(e) == e.media = "json"
LoadEncryptedJson(e) == RequireContentType(e) /\ e.small /\ e.text = "object" /\ e.fields = "exact"

MetadataLength(n) == TagBytes <= n /\ n <= MaxMetadata + TagBytes

ManifestFromPayload(m) ==
  /\ m.version = 1 /\ 0 <= m.size /\ m.size <= MaxPlaintext
  /\ m.chunk = PieceSize /\ m.count = Pieces(m.size)
  /\ m.salt = SaltBytes /\ m.prefix = PrefixBytes /\ MetadataLength(m.metadata)

\* The constructor of a manifest, which every decoder goes through.
PostInit(m) ==
  /\ m.version = 1 /\ 0 <= m.size /\ m.size <= MaxPlaintext
  /\ m.chunk = PieceSize /\ m.count = Pieces(m.size)
  /\ m.salt = SaltBytes /\ m.prefix = PrefixBytes /\ MetadataLength(m.metadata)

\* _validate_manifest: min(limit or the technical maximum, the technical maximum).
UnderLimit(m, l) == m.size <= (IF l = 0 \/ l > MaxPlaintext THEN MaxPlaintext ELSE l)

\* Mutant: a decoded journal is held to the limit for new uploads.
DecodeUnderLimit(m, l) ==
  /\ m.version >= 0 /\ m.size >= 0 /\ m.chunk >= 0 /\ m.count >= 0 /\ PostInit(m) /\ UnderLimit(m, l)
DecodeManifest(m, l) ==
  m.version >= 0 /\ m.size >= 0 /\ m.chunk >= 0 /\ m.count >= 0 /\ PostInit(m)

CreateFromJson ==
  /\ journal = "none"
  /\ journal' = IF /\ LoadEncryptedJson(put.envelope) /\ ManifestFromPayload(put.manifest)
                   /\ UnderLimit(put.manifest, limit)
                THEN "stored" ELSE "refused"
  /\ UNCHANGED <<put, limit>>

\* The server starts again, perhaps with another limit: reconcile reads the journal.
ReloadJournal(l) ==
  /\ journal \in {"stored", "reloaded"} /\ limit' = l
  /\ journal' = IF DecodeManifest(put.manifest, l) THEN "reloaded" ELSE "deleted"
  /\ UNCHANGED put

ManifestNext == CreateFromJson \/ \E l \in OperatorLimits : ReloadJournal(l)

\* An upload the server accepted survives every later start, whatever limit the operator
\* sets by then: no manifest that _manifest_from_payload and create let in is one that
\* decode_encrypted_state calls corrupt, for reconcile would delete its data.
AcceptedReloads == journal # "deleted"
==============================================================================
