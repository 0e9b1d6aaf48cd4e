----------------------------- MODULE FileRequests -----------------------------
(***************************************************************************)
(* Basic uploads and the methods that find them again: POST, PUT, PATCH    *)
(* and NONE choose and clean a name and publish under it; GET, HEAD,       *)
(* FETCH, INFO and DELETE each resolve a path to a file (handlers/files.py,*)
(* info.py, base.py, http/utils.py).  The two sides are written apart and  *)
(* meet only in the path "/uploads/<name>" of the answer.                  *)
(*                                                                         *)
(* A name is a sequence of tokens: "/" for every character that            *)
(* sanitize_filename drops, ".", " ", and safe words.  A path is the       *)
(* sequence of its segments, decoded.  Publication holds the storage lock  *)
(* and is one step (UploadStorage has its inside); DELETE and clear look   *)
(* first and unlink later, without a lock.  Only one-shot artifacts have   *)
(* another provenance (SmuggleArtifacts).                                  *)
(***************************************************************************)
EXTENDS Integers, Sequences, FiniteSets, TLC
LOCAL INSTANCE SequencesExt
LOCAL INSTANCE FiniteSetsExt

CONSTANTS
  Words,          \* safe words names are made of
  RandomSuffixes,       \* random suffixes of colliding names
  MaxTokens,      \* bound of the model: tokens in a requested name
  MaxBasic,       \* bound of the model: uploads
  MaxAttempts,    \* max_attempts of publish_bytes
  HttpClients

ASSUME FilesAssumption ==
  MaxTokens \in Nat /\ MaxBasic \in Nat /\ MaxAttempts \in Nat \ {0}

VARIABLES
  shelf,      \* the folder: function from its names to uploads, which are numbers
  reported,   \* uploads -> the name in the answer
  unlinked,   \* uploads that a DELETE or a clear unlinked
  request     \* HttpClients -> the DELETE under way

filesVars == <<shelf, reported, unlinked, request>>
-----------------------------------------------------------------------------
\* Names.

Uploads == <<"uploads">>
Index == <<"index", ".", "html">>
Up == <<".", ".">>
Here == <<".">>
Generated == <<"upload", "_", "time">>

RawNames == BoundedSeq(Words \cup {"/", ".", " "}, MaxTokens)

\* Without spaces at either end.
Strip(s) ==
  LET inner == {i \in DOMAIN s : s[i] # " "}
  IN IF inner = {} THEN << >> ELSE SubSeq(s, Min(inner), Max(inner))

\* Of several dots in a row one is kept, after unsafe characters are gone.
CollapseDots(s) ==
  LET kept == {i \in DOMAIN s : s[i] = "." /\ i > 1 => s[i - 1] # "."}
      nth(k) == CHOOSE i \in kept : Cardinality({j \in kept : j <= i}) = k
  IN [k \in 1 .. Cardinality(kept) |-> s[nth(k)]]

SanitizeFilename(raw) ==
  LET safe == Strip(CollapseDots(SelectSeq(raw, LAMBDA c : c # "/")))
  IN IF safe = << >> THEN Generated ELSE safe

\* The suffix goes before the last dot.
WithSuffix(name, x) ==
  LET dots == {i \in DOMAIN name : name[i] = "."}
  IN IF dots = {} THEN name \o <<"_", x>>
     ELSE SubSeq(name, 1, Max(dots) - 1) \o <<"_", x>> \o SubSeq(name, Max(dots), Len(name))
-----------------------------------------------------------------------------
\* Paths.

Hidden(path) ==
  \E i \in DOMAIN path : \/ path[i] \notin {Here, Up} /\ path[i] # << >> /\ Head(path[i]) = "."
                         \/ path[i] = <<"__pycache__">>

\* Path.resolve below the folder, and what remains of it when the result is inside.
Outside == <<"outside">>
ResolveDescendant(clean) ==
  LET base == <<<<"home">>, Uploads>>
      walk(seen, segment) ==
        CASE segment = Up -> IF seen = << >> THEN << >> ELSE Front(seen)
          [] segment = Here -> seen
          [] OTHER -> Append(seen, segment)
      full == FoldLeft(walk, base, clean)
  IN IF IsPrefix(base, full) THEN SubSeq(full, 3, Len(full)) ELSE Outside

StripUploads(path) == IF path # << >> /\ Head(path) = Uploads THEN Tail(path) ELSE path

\* _get_file_path for the sandbox.
GetFilePath(path) == ResolveDescendant(StripUploads(IF path = << >> THEN <<Index>> ELSE path))

IsFile(place) == place # Outside /\ Len(place) = 1 /\ place[1] \in DOMAIN shelf
IsFolder(place) == place = << >>

\* GET and HEAD: the application's own page and assets, a file, or the index of the folder.
ResolveGet(path) ==
  CASE Hidden(path) -> "not_found"
    [] ~Hidden(path) /\ path \in {<< >>, <<Index>>} -> "app"
    [] ~Hidden(path) /\ Len(path) > 1 /\ path[1] = <<"static">> -> "app"
    [] OTHER -> LET place == GetFilePath(path)
                IN IF IsFile(place) THEN "file"
                   ELSE IF IsFolder(place) /\ Index \in DOMAIN shelf THEN "index" ELSE "not_found"

\* FETCH.
ResolveFetch(path) ==
  IF Hidden(path) THEN "not_found"
  ELSE IF GetFilePath(path) = Outside THEN "invalid_path"
  ELSE IF IsFile(GetFilePath(path)) THEN "file" ELSE "not_found"

\* The query of INFO: fields in any order, each at most once, numbers of at most four digits.
InfoField(key, value) == [key |-> key, value |-> value]
InfoFieldSound(f) ==
  \/ f.key = "offset" /\ f.value \in 0 .. 9999
  \/ f.key = "limit" /\ f.value \in 1 .. 1000
  \/ f.key = "inspect" /\ f.value \in {0, 1}      \* false, true
InfoQuerySound(query) ==
  /\ \A i \in DOMAIN query : InfoFieldSound(query[i])
  /\ \A i, j \in DOMAIN query : query[i].key = query[j].key => i = j
InfoValue(query, key, default) ==
  LET given == {i \in DOMAIN query : query[i].key = key}
  IN IF given = {} THEN default ELSE query[Min(given)].value

\* The folder in a fixed order, without hidden names; one page of it.
Listing == SetToSeq({n \in DOMAIN shelf : ~Hidden(<<n>>)})
InfoPage(query) ==
  LET first == InfoValue(query, "offset", 0) + 1
      last == Min({first + InfoValue(query, "limit", 100) - 1, Len(Listing)})
  IN SubSeq(Listing, first, last)

PublicPath(place) == <<Uploads>> \o place
InfoEntry(kind, place) == [kind |-> kind, path |-> PublicPath(place)]
InfoRefusal(code) == [kind |-> code]

\* INFO: the query, then the path; "/" is the folder itself, never a page.
HandleInfo(path, query) ==
  LET place == ResolveDescendant(StripUploads(path))
  IN CASE ~InfoQuerySound(query) -> InfoRefusal("invalid_field")
       [] InfoQuerySound(query) /\ Hidden(path) -> InfoRefusal("not_found")
       [] OTHER -> CASE place = Outside -> InfoRefusal("invalid_path")
                     [] place # Outside /\ IsFile(place) -> InfoEntry("file", place)
                     [] IsFolder(place) -> InfoEntry("directory", place) @@ ("contents" :> InfoPage(query))
                     [] OTHER -> InfoRefusal("not_found")
-----------------------------------------------------------------------------
NoRequest == [pc |-> "idle"]

FilesInit ==
  /\ shelf = << >> /\ reported = << >> /\ unlinked = {} /\ request = [c \in HttpClients |-> NoRequest]

\* _basic_url_filename: none for the collections, otherwise the last segment.
Collections == {<< >>, <<<<"upload">>>>, <<<<"api">>>>, <<<<"file">>>>}
UrlFilename(path, multipart) ==
  LET named == SelectSeq(path, LAMBDA s : s # Here)
  IN IF path \in Collections \/ (multipart /\ path = <<Uploads>>) \/ named = << >> THEN << >>
     ELSE Last(named)

\* The header wins over the name of the part, that over the one in the URL; a multipart
\* body with more than one file, or none, is refused.
RequestedName(r) ==
  LET names == <<r.header, IF r.multipart THEN r.part ELSE << >>, UrlFilename(r.path, r.multipart)>>
      given == {i \in 1 .. 3 : names[i] # << >>}
  IN IF given = {} THEN Generated ELSE names[Min(given)]

Segments == {Uploads, Here, Up, Index, <<".", "a">>, <<"a">>}
UploadRequests ==
  [header : RawNames, part : {<< >>}, path : {<< >>}, multipart : {FALSE}]
  \cup [header : {<< >>, <<"a">>}, part : {<< >>, <<"a">>, <<"uploads">>}, path : BoundedSeq(Segments, 2),
        multipart : BOOLEAN]

UploadNames == {SanitizeFilename(RequestedName(r)) : r \in UploadRequests}

\* Mutant: the name is taken whether or not a file has it.
TakenNever(name) == FALSE
Taken(name) == name \in DOMAIN shelf

\* The folder itself cannot be a destination; a name that is taken gets a suffix, and an
\* unlucky series of suffixes fails.
Candidates(name) ==
  IF ~Taken(name) THEN {name}
  ELSE IF MaxAttempts = 1 THEN {}
  ELSE {WithSuffix(name, x) : x \in RandomSuffixes} \ DOMAIN shelf

HandleBasicUpload(name) ==
  LET id == Len(reported) + 1
  IN /\ Len(reported) < MaxBasic /\ name # Here
     /\ \E n \in Candidates(name) :
          /\ shelf' = [m \in DOMAIN shelf \cup {n} |-> IF m = n THEN id ELSE shelf[m]]
          /\ reported' = Append(reported, n)
  /\ UNCHANGED <<unlinked, request>>

DeletePaths == BoundedSeq(Segments, 2)
PathOf == [path \in DeletePaths |-> GetFilePath(path)]

\* DELETE: the query, the path and what is there decide; only then is anything removed.
\* A query is refused when it has an empty or unknown field, clear twice, or another value.
Queries == {"none", "true", "false", "refused"}
DeleteAnswer(path, query) ==
  LET place == PathOf[path]
  IN CASE query = "refused" -> "invalid_field"
       [] query # "refused" /\ Hidden(path) -> "not_found"
       [] OTHER -> CASE place = Outside -> "invalid_path"
                     [] place # Outside /\ IsFile(place) -> "unlink"
                     [] IsFolder(place) -> IF query = "true" THEN "clear" ELSE "invalid_field"
                     [] OTHER -> "not_found"

HandleDelete(c, path, query) ==
  /\ request[c] = NoRequest
  /\ LET answer == DeleteAnswer(path, query)
         names == IF answer = "unlink" THEN {PathOf[path][1]} ELSE {n \in DOMAIN shelf : ~Hidden(<<n>>)}
     IN /\ answer \in {"unlink", "clear"}
        /\ request' = [request EXCEPT ![c] = [pc |-> answer, names |-> names]]
  /\ UNCHANGED <<shelf, reported, unlinked>>

\* unlink takes whatever has the name by now; when nothing has, DELETE answers an error
\* and clear lists the name among its failures.
UnlinkOne(c) ==
  /\ request[c] # NoRequest
  /\ \E n \in request[c].names :
       /\ unlinked' = unlinked \cup {shelf[m] : m \in {n} \cap DOMAIN shelf}
       /\ shelf' = [m \in DOMAIN shelf \ {n} |-> shelf[m]]
       /\ request' = [request EXCEPT ![c].names = @ \ {n}]
  /\ UNCHANGED reported

DeleteDone(c) ==
  /\ request[c] # NoRequest /\ request[c].names = {}
  /\ request' = [request EXCEPT ![c] = NoRequest]
  /\ UNCHANGED <<shelf, reported, unlinked>>

FilesNext ==
  \/ \E name \in UploadNames : HandleBasicUpload(name)
  \/ \E c \in HttpClients :
       \/ \E path \in DeletePaths, query \in Queries : HandleDelete(c, path, query)
       \/ UnlinkOne(c) \/ DeleteDone(c)

\* What a client reads that asks INFO for one page after the other.
PagesOf(limit) ==
  FlattenSeq([k \in 1 .. MaxBasic + 1 |->
    HandleInfo(<<Uploads>>, <<InfoField("offset", (k - 1) * limit), InfoField("limit", limit)>>).contents])

\* An upload that was acknowledged stays at the path its answer reported until somebody
\* deletes or clears it: GET, FETCH and INFO of "/uploads/<name>" all find it, under whatever
\* name it came, after any number of collisions; INFO reports the same path, and the pages of
\* the folder show it exactly once, whatever their length.  Names that begin with a dot, and
\* __pycache__, are accepted too and cannot be read back; they are the only ones.
AckedReadable ==
  LET standing == DOMAIN reported \ unlinked
      readable == {u \in standing : ~Hidden(<<reported[u]>>)}
  IN /\ \A u \in standing : reported[u] \in DOMAIN shelf /\ shelf[reported[u]] = u
     /\ \A u \in readable :
          LET path == <<Uploads, reported[u]>>
          IN /\ GetFilePath(path) = <<reported[u]>>
             /\ ResolveGet(path) = "file" /\ ResolveFetch(path) = "file"
             /\ HandleInfo(path, << >>) = [kind |-> "file", path |-> path]
     /\ readable # {} =>
          \A limit \in 1 .. MaxBasic :
            LET pages == PagesOf(limit)
            IN IsInjective(pages) /\ {reported[u] : u \in readable} \subseteq ToSet(pages)
==============================================================================
