--------------------------- MODULE EncryptedTransfer ---------------------------
(***************************************************************************)
(* Downloads of encrypted files (handlers/encrypted_files.py) and the      *)
(* format that protects them (encrypted_transfer.py): what a manifest, a   *)
(* key and a sealed chunk are, and the three ways to read a file back:     *)
(* its chunks one request at a time, decrypted by the server, or whole.    *)
(*                                                                         *)
(* The calls into the storage service hold its lock and are one step each  *)
(* here (EncryptedStorage has their inside).  A download reads the record  *)
(* under that lock and the data without it: in between, and between two    *)
(* chunks, the file may be deleted, uploaded again under the same id, or   *)
(* damaged on disk.                                                        *)
(*                                                                         *)
(* Every creation draws a fresh salt and nonce prefix; both are the number *)
(* of the creation, `gen`.  AES-GCM is ideal: a chunk opens under the key, *)
(* nonce and associated data it was sealed with and under no others.       *)
(***************************************************************************)
EXTENDS Integers, Sequences, FiniteSets
LOCAL INSTANCE SequencesExt
LOCAL INSTANCE FiniteSetsExt

CONSTANTS
  FileIds, Passwords, Readers,
  ChunkSize, TagSize,   \* EUF_CHUNK_SIZE and EUF_GCM_TAG_SIZE in units of the model
  FileSizes,            \* plaintext sizes clients declare
  SizeLimit,            \* encrypted_upload_max_size
  MaxFree,              \* bound of the model: most bytes the quota and the disk leave
  MaxUploads,           \* bound of the model: creations
  MaxDamage             \* bound of the model: changes on disk by somebody else

ASSUME TransferAssumption ==
  /\ ChunkSize \in Nat \ {0} /\ TagSize \in Nat /\ FileSizes \subseteq Nat
  /\ SizeLimit \in Nat /\ MaxFree \in Nat /\ MaxUploads \in Nat /\ MaxDamage \in Nat

VARIABLES
  kept,       \* FileIds -> the record of the storage service, or NoRecord
  blobs,      \* data files ever created, by number: their sealed chunks in order
  linked,     \* FileIds -> number of the file at the id's data path, 0 when there is none
  drawn,      \* creations so far
  damage,     \* changes on disk so far
  free,       \* bytes that quota and disk leave for a new upload
  reader      \* Readers -> the download in progress

transferVars == <<kept, blobs, linked, drawn, damage, free, reader>>
-----------------------------------------------------------------------------
\* The format.

ChunkCountOf(size) == (size + ChunkSize - 1) \div ChunkSize
CiphertextSize(size) == size + ChunkCountOf(size) * TagSize
PlainLength(m, i) == Min({ChunkSize, m.size - i * ChunkSize})

DeriveKeys(password, m) == [password |-> password, salt |-> m.gen, id |-> m.id]
NonceOf(m, i) == [prefix |-> m.gen, index |-> i]
ChunkAad(m, i) ==
  [id |-> m.id, size |-> m.size, count |-> m.count, index |-> i, length |-> PlainLength(m, i)]

\* A plaintext chunk is known by where it comes from.
Plaintext(m, i) == [gen |-> m.gen, index |-> i]
EncryptChunk(key, m, i) ==
  [key |-> key, nonce |-> NonceOf(m, i), aad |-> ChunkAad(m, i),
   length |-> PlainLength(m, i) + TagSize, text |-> Plaintext(m, i)]

NoText == [gen |-> 0, index |-> 0]
\* Mutant: the tag is not verified, as with a cipher that only encrypts.
DecryptUnverified(cell, key, m, i) ==
  IF cell.length = PlainLength(m, i) + TagSize THEN cell.text ELSE NoText
DecryptChunk(cell, key, m, i) ==
  IF /\ cell.length = PlainLength(m, i) + TagSize
     /\ cell.key = key /\ cell.nonce = NonceOf(m, i) /\ cell.aad = ChunkAad(m, i)
  THEN cell.text ELSE NoText

\* The metadata is sealed under the same key, with a nonce no chunk uses, and opens only
\* with the manifest it was made for.
DecryptMetadata(key, m) == key = DeriveKeys(m.password, m)

\* What a chunk of length n looks like when its bytes are not a sealed chunk.
Noise(n) == [key |-> [password |-> "none", salt |-> 0, id |-> "none"],
             nonce |-> [prefix |-> 0, index |-> 0],
             aad |-> [id |-> "none", size |-> 0, count |-> 0, index |-> 0, length |-> 0],
             length |-> n, text |-> [gen |-> 0, index |-> 1]]

ChunkIndexes == UNION {0 .. ChunkCountOf(n) - 1 : n \in FileSizes}
BytesIn(cells) == FoldSeq(LAMBDA c, n : c.length + n, 0, cells)
-----------------------------------------------------------------------------
\* capacity: the largest file that fits, by bisection over its plaintext size.

Fits(size, available) == CiphertextSize(size) <= available

Bisect(available) ==
  LET step[r \in (0 .. SizeLimit) \X (0 .. SizeLimit)] ==
        IF r[1] >= r[2] THEN r[1]
        ELSE LET middle == (r[1] + r[2] + 1) \div 2
             IN IF Fits(middle, available) THEN step[<<middle, r[2]>>] ELSE step[<<r[1], middle - 1>>]
  IN step[<<0, Min({SizeLimit, available})>>]

\* The size the capability advertises is the largest whose ciphertext, with a tag for each
\* chunk, the quota and the disk still hold: an upload of it is not refused for space, and
\* one of a byte more would be (capacity against create's reservation).
AdvertisedFits ==
  LET n == Bisect(free)
  IN CiphertextSize(n) <= free /\ (n < SizeLimit => CiphertextSize(n + 1) > free)
-----------------------------------------------------------------------------
NoRecord == [status |-> "none"]
IdleReader == [pc |-> "idle", kind |-> "none", m |-> NoRecord, out |-> << >>, key |-> NoText]

TransferInit ==
  /\ kept = [x \in FileIds |-> NoRecord] /\ blobs = << >> /\ linked = [x \in FileIds |-> 0]
  /\ drawn = 0 /\ damage = 0 /\ free = MaxFree /\ reader = [r \in Readers |-> IdleReader]

Manifest(x, pw, size, gen) ==
  [id |-> x, gen |-> gen, size |-> size, count |-> ChunkCountOf(size), password |-> pw]
Whole(m) == [i \in 1 .. m.count |-> EncryptChunk(DeriveKeys(m.password, m), m, i - 1)]

\* PUT of an upload: the manifest is validated, an existing record wins, and the quota
\* and the size limit may refuse.
CreateUpload(x, pw, size) ==
  /\ drawn < MaxUploads /\ kept[x] = NoRecord /\ linked[x] = 0
  /\ size <= SizeLimit /\ CiphertextSize(size) <= free
  /\ LET m == Manifest(x, pw, size, drawn + 1)
     IN /\ kept' = [kept EXCEPT ![x] = [status |-> "partial", m |-> m, got |-> {}]]
        /\ blobs' = Append(blobs, [i \in 1 .. m.count |-> Noise(PlainLength(m, i - 1) + TagSize)])
  /\ linked' = [linked EXCEPT ![x] = Len(blobs) + 1]
  /\ drawn' = drawn + 1 /\ free' = free - CiphertextSize(size)
  /\ UNCHANGED <<damage, reader>>

\* A data file is used only if it has the size of its record (_open_complete_ciphertext
\* for downloads, the test in write_chunk for chunks).
Openable(x, m) == linked[x] # 0 /\ BytesIn(blobs[linked[x]]) = CiphertextSize(m.size)

\* PUT of a chunk.  The server cannot read it: what a client sends may be a chunk of another
\* place or of another file, as long as it has the length of this one.
PutChunk(x, i, cell) ==
  /\ kept[x].status = "partial" /\ i \notin kept[x].got /\ i < kept[x].m.count
  /\ cell.length = PlainLength(kept[x].m, i) + TagSize
  /\ Openable(x, kept[x].m)
  /\ kept' = [kept EXCEPT ![x].got = @ \cup {i}]
  /\ blobs' = [blobs EXCEPT ![linked[x]][i + 1] = cell]
  /\ UNCHANGED <<linked, drawn, damage, free, reader>>

\* The chunks clients may have sealed so far, for this upload or for another.
Sealed == UNION {Range(Whole(Manifest(y, pw, n, g))) :
                   y \in FileIds, pw \in Passwords, n \in FileSizes, g \in 1 .. drawn}

\* The record says `committing` before the data is validated and published.
CompleteUpload(x) ==
  /\ kept[x].status \in {"partial", "committing"} /\ Cardinality(kept[x].got) = kept[x].m.count
  /\ kept' = [kept EXCEPT ![x].status = IF Openable(x, kept[x].m) THEN "complete" ELSE "committing"]
  /\ UNCHANGED <<blobs, linked, drawn, damage, free, reader>>

\* DELETE of either route, and the expiry of an incomplete upload.
RemoveUpload(x) ==
  /\ kept[x] # NoRecord
  /\ kept' = [kept EXCEPT ![x] = NoRecord] /\ linked' = [linked EXCEPT ![x] = 0]
  /\ free' = free + CiphertextSize(kept[x].m.size)
  /\ UNCHANGED <<blobs, drawn, damage, reader>>

\* Somebody else writes a data file: a chunk becomes noise or changes place with another,
\* and the file is cut short or grows.
Damage(f) ==
  /\ damage < MaxDamage /\ damage' = damage + 1
  /\ blobs' \in {[blobs EXCEPT ![f] = cells] : cells \in
       {[blobs[f] EXCEPT ![i] = Noise(@.length)] : i \in DOMAIN blobs[f]}
       \cup {[blobs[f] EXCEPT ![p[1]] = blobs[f][p[2]], ![p[2]] = blobs[f][p[1]]] :
               p \in (DOMAIN blobs[f]) \X (DOMAIN blobs[f])}
       \cup {IF blobs[f] = << >> THEN << >> ELSE Front(blobs[f]), Append(blobs[f], Noise(1))}}
  /\ UNCHANGED <<kept, linked, drawn, free, reader>>
-----------------------------------------------------------------------------
\* Downloads.

SetReader(r, pc) == reader' = [reader EXCEPT ![r].pc = pc]
EndRead(r, outcome) == SetReader(r, outcome) /\ UNCHANGED <<kept, blobs, linked, drawn, damage, free>>

Served(x) == kept[x].status = "complete"

\* The client lists the file and unlocks it with its password: it has the manifest and,
\* when the metadata opens, the key.  Whatever it asks for next comes later.
Unlock(r, x, pw, kind) ==
  /\ reader[r] = IdleReader /\ Served(x)
  /\ LET key == DeriveKeys(pw, kept[x].m)
     IN /\ DecryptMetadata(key, kept[x].m)
        /\ reader' = [reader EXCEPT ![r] = [pc |-> "unlocked", kind |-> kind, m |-> kept[x].m,
                                            out |-> << >>, key |-> key]]
  /\ UNCHANGED <<kept, blobs, linked, drawn, damage, free>>

\* POST .../decrypt: the record is read again; the metadata must open with the key sent.
DecryptFile(r) ==
  /\ reader[r].pc = "unlocked" /\ reader[r].kind = "decrypt"
  /\ LET x == reader[r].m.id
     IN \/ /\ ~Served(x) /\ EndRead(r, "not_found")
        \/ /\ Served(x) /\ ~DecryptMetadata(reader[r].key, kept[x].m) /\ EndRead(r, "decryption_failed")
        \/ /\ Served(x) /\ DecryptMetadata(reader[r].key, kept[x].m)
           /\ reader' = [reader EXCEPT ![r] = [pc |-> "opening", kind |-> "decrypt", m |-> kept[x].m,
                                               out |-> << >>, key |-> reader[r].key]]
           /\ UNCHANGED <<kept, blobs, linked, drawn, damage, free>>

\* The data file is opened after the lock on the records was released.
OpenCiphertext(r) ==
  /\ reader[r].pc = "opening"
  /\ LET x == reader[r].m.id
     IN IF Openable(x, reader[r].m)
        THEN /\ reader' = [reader EXCEPT ![r].pc = "streaming", ![r] = @ @@ [file |-> linked[x]]]
             /\ UNCHANGED <<kept, blobs, linked, drawn, damage, free>>
        ELSE EndRead(r, "not_found")

\* The next chunk of the client's own manifest, read from a file and opened.
Deliver(r, f) ==
  LET i == Len(reader[r].out)
      text == IF i + 1 \in DOMAIN blobs[f] THEN DecryptChunk(blobs[f][i + 1], reader[r].key, reader[r].m, i)
              ELSE NoText
  IN IF text = NoText THEN EndRead(r, "broken")
     ELSE /\ reader' = [reader EXCEPT ![r].out = Append(@, text)]
          /\ UNCHANGED <<kept, blobs, linked, drawn, damage, free>>

\* _iter_decrypted_chunks: the bytes of a chunk are sent before the next one is looked at;
\* a failure ends the connection short of its Content-Length.
StreamDecrypted(r) ==
  /\ reader[r].pc = "streaming"
  /\ IF Len(reader[r].out) < reader[r].m.count THEN Deliver(r, reader[r].file) ELSE EndRead(r, "received")

\* GET .../chunks/i: each is a request of its own, answered from the record and the file
\* that are there now; the client opens it with the manifest and key it holds.
DownloadChunk(r) ==
  /\ reader[r].pc = "unlocked" /\ reader[r].kind = "chunks"
  /\ LET x == reader[r].m.id
         i == Len(reader[r].out)
     IN IF i = reader[r].m.count THEN EndRead(r, "received")
        ELSE IF ~Served(x) \/ i >= kept[x].m.count \/ ~Openable(x, kept[x].m) THEN EndRead(r, "not_found")
        ELSE Deliver(r, linked[x])

\* GET .../data: Content-Length is the size of the file at this moment.
DownloadWhole(r) ==
  /\ reader[r].pc = "unlocked" /\ reader[r].kind = "data"
  /\ LET x == reader[r].m.id
     IN IF ~Served(x) \/ linked[x] = 0 THEN EndRead(r, "not_found")
        ELSE /\ reader' = [reader EXCEPT ![r].pc = "sending", ![r] = @ @@ [length |-> BytesIn(blobs[linked[x]])]]
             /\ UNCHANGED <<kept, blobs, linked, drawn, damage, free>>

\* The file is opened when the response is sent, and its length compared piece by piece as
\* it goes out: a longer file that has a piece ending at Content-Length passes for whole.
SendWhole(r) ==
  /\ reader[r].pc = "sending"
  /\ LET f == linked[reader[r].m.id]
         now == IF f = 0 THEN -1 ELSE BytesIn(blobs[f])
     IN \/ now >= reader[r].length /\ EndRead(r, "received")
        \/ now # reader[r].length /\ EndRead(r, "broken")

TransferNext ==
  \/ \E x \in FileIds, pw \in Passwords, n \in FileSizes : CreateUpload(x, pw, n)
  \/ \E x \in FileIds, i \in ChunkIndexes, cell \in Sealed : PutChunk(x, i, cell)
  \/ \E x \in FileIds : CompleteUpload(x) \/ RemoveUpload(x)
  \/ \E f \in DOMAIN blobs : Damage(f)
  \/ \E r \in Readers, x \in FileIds, pw \in Passwords, k \in {"decrypt", "chunks", "data"} : Unlock(r, x, pw, k)
  \/ \E r \in Readers : DecryptFile(r) \/ OpenCiphertext(r) \/ StreamDecrypted(r) \/ DownloadChunk(r)
                        \/ DownloadWhole(r) \/ SendWhole(r)

\* A download that the reader received to its last byte, decrypted by itself or by the
\* server, is every chunk in order of the one upload it unlocked: never chunks of two
\* uploads under the same id, never in another order, never only a beginning, whatever was
\* deleted, uploaded again or damaged between any two reads.
DeliveredGenuine ==
  \A r \in Readers :
    reader[r].pc = "received" /\ reader[r].kind # "data" =>
      reader[r].out = [i \in 1 .. reader[r].m.count |-> Plaintext(reader[r].m, i - 1)]

\* Both promises of the transfer: the bytes a reader is given are genuine, and what the
\* configuration advertises as possible fits.
TransferSound == DeliveredGenuine /\ AdvertisedFits
==============================================================================
