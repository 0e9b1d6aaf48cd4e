---------------------------- MODULE AdvancedPayload ----------------------------
(***************************************************************************)
(* One advanced upload from the admitted request to the published file:    *)
(* parse_advanced_payload chooses the carrier and reads its fields,        *)
(* decode_advanced_payload_data decodes within a limit, the handler        *)
(* decrypts and publishes.                                                 *)
(*                                                                         *)
(* A field is its name; "legacy" is a retired name and "other" a name of   *)
(* the protocol's prefix that is not one of its fields.  The value of the  *)
(* encryption field is the upload's cipher; other values are sound or not  *)
(* by choice.  A compressed stream is a sequence of pieces, each with the  *)
(* number of bytes it expands to and a mark on the last piece of a member. *)
(***************************************************************************)
EXTENDS Integers, Sequences, FiniteSets
LOCAL INSTANCE FiniteSetsExt
LOCAL INSTANCE SequencesExt
LOCAL INSTANCE Functions

CONSTANTS
  DecodedLimit,   \* decoded bytes of an upload
  Streams         \* the compressed streams that are tried, see Piece

VARIABLES
  upload,    \* the request; NoUpload before it arrives
  step,      \* "wait", "parse", "decode", "inflate", "decrypt", "stored" or "rejected"
  pending,   \* compressed pieces not yet handed to zlib
  fresh,     \* the decompressor has not begun a member
  out        \* bytes decoded

payloadVars == <<upload, step, pending, fresh, out>>

Places == {"headers", "query", "cookies", "body"}
DataFields == {"data", "data_0", "data_1"}
MetaFields == {"encoding", "encryption", "key", "hmac"}

Piece(size, last) == [size |-> size, last |-> last, sound |-> TRUE]
Garbage == [size |-> 0, last |-> FALSE, sound |-> FALSE]

\* What a place may hold.
DataParts ==
  { << >>, <<"data">>, <<"data", "data">>, <<"data_0">>, <<"data_0", "data_1">>,
    <<"data_1", "data_0">>, <<"data_0", "data_0">>, <<"data", "data_0">> }
Sound == { d \o SetToSeq(m) : d \in DataParts, m \in SUBSET MetaFields }
Odd == { f \o <<o>> : f \in Sound, o \in {"legacy", "other", "encryption"} }
Strays == { <<"data">>, <<"encryption">>, <<"legacy">>, <<"other">> }

\* no: no body; none: a media type that is not supported.
Profiles == {"no", "none", "json", "form", "xml", "multipart-encoded", "multipart-binary", "text", "raw"}
ProfilesFor(main) ==
  IF main = "body" THEN Profiles \ {"no", "none", "text", "raw"} ELSE {"no", "none", "json", "raw"}

\* Fields in one place, and in the place a stray field of another.
Placed(main, fields) == [p \in Places |-> IF p = main THEN fields ELSE << >>]
Layouts(main) ==
  { Placed(main, f) : f \in Sound \cup Odd }
    \cup { [Placed(main, f) EXCEPT ![p] = s] : f \in Sound, p \in Places \ {main}, s \in Strays }

NoUpload == [profile |-> "no"]

PayloadInit == upload = NoUpload /\ step = "wait" /\ pending = << >> /\ fresh = TRUE /\ out = 0
-----------------------------------------------------------------------------
Holds(place, names) == ToSet(upload.fields[place]) \cap names # {}

\* _header_scan, _query_scan and _cookie_scan; the fields of a body are read later.
HeadersUnreadable == Holds("headers", {"legacy", "other"})
QueryUnreadable == Holds("query", {"legacy"})
CookiesUnreadable == Holds("cookies", {"legacy", "other", "data_0", "data_1"})
ScanRejects == HeadersUnreadable \/ QueryUnreadable \/ CookiesUnreadable

BodyPresent == upload.profile # "no"

\* The carriers that are present.
Present ==
  {p \in Places \ {"body"} : Holds(p, DataFields)}
    \cup {p \in {"body"} : BodyPresent} \cup {p \in {"path"} : upload.path}

Carrier == CHOOSE c \in Present : TRUE

\* Mutant: metadata in a cookie is taken for an unrelated cookie.
MetadataMisplacedButCookies ==
  \/ Carrier \notin {"query", "path"} /\ Holds("query", MetaFields)
  \/ Carrier \notin {"headers", "body"} /\ Holds("headers", MetaFields)
  \/ upload.profile \notin {"no", "text", "raw"} /\ Holds("headers", MetaFields)

\* Metadata belongs to its carrier: the query serves the path too, headers serve a raw body.
MetadataMisplaced ==
  \/ Carrier \notin {"query", "path"} /\ Holds("query", MetaFields)
  \/ Carrier # "cookies" /\ Holds("cookies", MetaFields)
  \/ Carrier \notin {"headers", "body"} /\ Holds("headers", MetaFields)
  \/ upload.profile \notin {"no", "text", "raw"} /\ Holds("headers", MetaFields)

\* The occurrences that _build_payload is given.
Occurrences ==
  CASE Carrier = "path" -> upload.fields["query"]
    [] Carrier = "body" /\ upload.profile \in {"text", "raw"} -> upload.fields["headers"]
    [] OTHER -> upload.fields[Carrier]

\* The data are bytes of their own: the whole body or a file part of it.
RawData == Carrier = "body" /\ upload.profile \in {"text", "raw", "multipart-binary"}
ChunksAllowed ==
  Carrier \in {"headers", "query"}
    \/ (Carrier = "body" /\ upload.profile \in {"json", "form", "multipart-encoded"})

Data(occ) == SelectSeq(occ, LAMBDA f : f \in DataFields)
Chunks(occ) == SelectSeq(occ, LAMBDA f : f \in {"data_0", "data_1"})
Has(occ, f) == f \in ToSet(occ)

\* Chunks are numbered from 0 in the order in which they were sent.
ChunksInOrder(occ) ==
  Chunks(occ) \in { << >>, <<"data_0">>, <<"data_0", "data_1">> }

\* The first half of _build_payload: no field twice, and one complete form of the data.
DataRejected(occ) ==
  \/ Has(occ, "other") \/ Has(occ, "legacy") \/ ~IsInjective(occ)
  \/ Chunks(occ) # << >> /\ (~ChunksAllowed \/ Has(occ, "data"))
  \/ ~ChunksInOrder(occ)
  \/ (RawData \/ Carrier = "path") /\ (Data(occ) # << >> \/ Has(occ, "encoding"))
  \/ ~RawData /\ Carrier # "path" /\ (Data(occ) = << >> \/ ~Has(occ, "encoding"))

\* The second half: a key exactly when there is a cipher.
MetadataRejected(occ) ==
  \/ ~Has(occ, "encryption")
  \/ upload.cipher = "none" /\ (Has(occ, "key") \/ Has(occ, "hmac"))
  \/ upload.cipher # "none" /\ ~Has(occ, "key")

\* Every layout of the fields, and every compressed stream in the plainest of them.
Arrive ==
  /\ step = "wait" /\ step' = "parse"
  /\ \/ \E main \in Places : \E l \in Layouts(main) :
          \E prof \in ProfilesFor(main), c \in {"none", "aes"}, path \in {FALSE, main = "query"} :
            /\ l["body"] # << >> => prof \notin {"no", "none", "raw"}
            /\ upload' = [fields |-> l, profile |-> prof, path |-> path, cipher |-> c, gzip |-> << >>]
     \/ \E g \in Streams :
          upload' = [fields |-> Placed("body", <<"data", "encoding", "encryption">>),
                     profile |-> "json", path |-> FALSE, cipher |-> "none", gzip |-> g]
  /\ UNCHANGED <<pending, fresh, out>>

Reject == step' = "rejected" /\ UNCHANGED <<upload, pending, fresh, out>>

Readable ==
  /\ ~ScanRejects /\ Cardinality(Present) = 1
  /\ ~MetadataMisplaced /\ ~(Carrier = "body" /\ upload.profile = "none")
  /\ ~DataRejected(Occurrences) /\ ~MetadataRejected(Occurrences)

Unreadable == step = "parse" /\ ~Readable /\ Reject

BodyIs(profiles) == step = "parse" /\ ~ScanRejects /\ Present = {"body"} /\ upload.profile \in profiles

\* Not JSON, a form or XML of the expected shape; no multipart body, or its parts are not the
\* expected ones; an empty or undecodable body.
DocumentMalformed == BodyIs({"json", "form", "xml"}) /\ Reject
PartsMalformed == BodyIs({"multipart-encoded", "multipart-binary"}) /\ Reject
BytesMalformed == BodyIs({"text", "raw"}) /\ Reject

\* A path that names no file, or carries no data.
PathMalformed == step = "parse" /\ upload.path /\ Reject

\* The encoded data are too long for their carrier, or the value of a field is malformed.
EncodedTooLong == step = "parse" /\ Readable /\ Reject

Parse == step = "parse" /\ Readable /\ step' = "decode" /\ UNCHANGED <<upload, pending, fresh, out>>
-----------------------------------------------------------------------------
\* Decoding without compression: at most the limit, else rejected.
DecodePlain ==
  /\ step = "decode" /\ upload.gzip = << >>
  /\ step' = "decrypt" /\ out' \in 1..DecodedLimit
  /\ UNCHANGED <<upload, pending, fresh>>

\* Not in the declared encoding, empty, or longer than the limit.
DecodeRejected == step = "decode" /\ Reject

\* The HMAC does not match, the cipher fails or leaves nothing, or there is no room to store.
DecryptRejected == step = "decrypt" /\ Reject

DecodeCompressed ==
  /\ step = "decode" /\ upload.gzip # << >>
  /\ step' = "inflate" /\ pending' = upload.gzip
  /\ UNCHANGED <<upload, fresh, out>>

Remaining == DecodedLimit - out

\* One byte more than may be kept, to see that there is more.
MaxLength == Remaining + 1

\* decompressobj.decompress: at most max bytes of the first piece, all of it for max = 0.
Inflated(piece, max) == IF max = 0 THEN piece.size ELSE Min({piece.size, max})

Inflate ==
  /\ step = "inflate" /\ pending # << >> /\ Head(pending).sound
  /\ LET got == Inflated(Head(pending), MaxLength) IN
     /\ out' = out + got
     /\ IF got > Remaining
        THEN step' = "rejected" /\ UNCHANGED <<pending, fresh>>
        ELSE /\ pending' = IF got < Head(pending).size
                           THEN <<[Head(pending) EXCEPT !.size = @ - got]>> \o Tail(pending)
                           ELSE Tail(pending)
             /\ fresh' = (got = Head(pending).size /\ Head(pending).last)
             /\ UNCHANGED step
  /\ UNCHANGED upload

\* Not a gzip stream, or its last member is cut off.
InflateFails ==
  /\ step = "inflate"
  /\ IF pending = << >> THEN ~fresh ELSE ~Head(pending).sound
  /\ Reject

InflateEnds ==
  /\ step = "inflate" /\ pending = << >> /\ fresh
  /\ step' = (IF out = 0 THEN "rejected" ELSE "decrypt")
  /\ UNCHANGED <<upload, pending, fresh, out>>

\* HMAC, cipher and storage succeed; what is decrypted is not longer than what was decoded.
Store ==
  /\ step = "decrypt" /\ step' = "stored"
  /\ UNCHANGED <<upload, pending, fresh, out>>

PayloadNext ==
  \/ Arrive \/ Unreadable \/ DocumentMalformed \/ PartsMalformed \/ BytesMalformed \/ PathMalformed
  \/ EncodedTooLong \/ Parse \/ DecodePlain \/ DecodeRejected \/ DecryptRejected \/ DecodeCompressed
  \/ Inflate \/ InflateFails \/ InflateEnds \/ Store
-----------------------------------------------------------------------------
Sources ==
  CASE Carrier = "path" -> {"query"}
    [] Carrier = "body" /\ upload.profile \in {"text", "raw"} -> {"headers"}
    [] OTHER -> {Carrier}

(* An upload that is accepted has one meaning: its data have exactly one source, and no  *)
(* field of the protocol stands in a place that is not read, where another reading of   *)
(* the same request would have found it.                                                *)
OneReading ==
  step \in {"decode", "inflate", "decrypt", "stored"} =>
    \A p \in Places \ Sources : ~Holds(p, DataFields \cup MetaFields)

Total(stream) == FoldFunction(LAMBDA piece, n : piece.size + n, 0, stream)

(* Decompression holds no more than one byte over the limit at any moment, however much *)
(* a member expands to and however the members are cut, and what it accepts is whole.   *)
InflationBounded ==
  /\ out <= DecodedLimit + 1
  /\ step \in {"decrypt", "stored"} /\ upload.gzip # << >> => out = Total(upload.gzip)

\* An upload is read from its carriers in one way and within its limit, or refused.
PayloadSound == OneReading /\ InflationBounded
==============================================================================
