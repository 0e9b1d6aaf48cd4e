-------------------------- MODULE SmuggleArtifacts --------------------------
(***************************************************************************)
(* xferry/smuggle/store.py, handlers/context.py and the file handlers that *)
(* share their paths: generated pages that are served once and then        *)
(* removed, in the same directory as ordinary uploads.                     *)
(*                                                                         *)
(* The coordinator's lock makes a transaction atomic against the others;   *)
(* the handlers touch the directory outside of it as well: they resolve a  *)
(* path, open it, and unlink it in separate steps.  A name is one that     *)
(* fits the artifact grammar; the server draws fresh ones, but clients may *)
(* upload under such a name or delete it.                                  *)
(***************************************************************************)
EXTENDS Naturals, SequencesExt

CONSTANTS
  Threads, Names, NoThread,
  Policies           \* the retention policies and bounds that are explored:
                     \*   files, bytes   max_file_count and max_total_bytes
                     \*   names, sizes   of the artifacts
                     \*   reuse          names clients upload under
                     \*   stops          bound on the number of stops and kills

ASSUME ArtifactAssumption ==
  /\ NoThread \notin Threads /\ Names # {}
  /\ Policies \subseteq [files : Nat, bytes : Nat, names : SUBSET Names, sizes : SUBSET Nat,
                        reuse : SUBSET Names, stops : Nat]

VARIABLES
  policy,            \* the member of Policies the server was started with
  up, stops,
  file,              \* what is under each name: "none", "artifact" or "upload"
  order,             \* the names in use, the oldest file first
  size,              \* size of the file under each name
  stale,             \* names of files older than max_age_seconds
  paths, claimed,    \* the coordinator's registry
  txn,               \* the thread inside a transaction that spans several steps
  pc, path, todo,    \* each handler: its step, its path, names left to clear
  drawn,             \* names ever used: a fresh token is none of them
  opened             \* history: how often GET and HEAD opened each artifact

server == <<policy, up, stops>>
disk == <<file, order, size, stale>>
registry == <<paths, claimed>>
vars == <<server, disk, registry, txn, pc, path, todo, drawn, opened>>

Init ==
  /\ policy \in Policies
  /\ up = TRUE /\ stops = 0
  /\ file = [n \in Names |-> "none"] /\ order = <<>>
  /\ size = [n \in Names |-> 0] /\ stale = {}
  /\ paths = {} /\ claimed = {} /\ txn = NoThread
  /\ pc = [t \in Threads |-> "idle"] /\ path = [t \in Threads |-> CHOOSE n \in Names : TRUE]
  /\ todo = [t \in Threads |-> {}]
  /\ drawn = {} /\ opened = [n \in Names |-> 0]
-----------------------------------------------------------------------------
Present == {n \in Names : file[n] # "none"}
Goto(t, step) == pc' = [pc EXCEPT ![t] = step]

\* The files under ns disappear, and a new one may appear.
Unlink(ns) ==
  /\ file' = [n \in Names |-> IF n \in ns THEN "none" ELSE file[n]]
  /\ order' = SelectSeq(order, LAMBDA n : n \notin ns)
  /\ stale' = stale \ ns
  /\ UNCHANGED size

Place(n, kind, s, removed) ==
  /\ file' = [m \in Names |-> IF m = n THEN kind
                              ELSE IF m \in removed THEN "none" ELSE file[m]]
  /\ order' = Append(SelectSeq(order, LAMBDA m : m \notin removed), n)
  /\ size' = [size EXCEPT ![n] = s]
  /\ stale' = stale \ removed

\* registry.discard
Discard(ns) ==
  /\ paths' = paths \ ns
  /\ claimed' = claimed \ ns

Transaction == txn = NoThread
-----------------------------------------------------------------------------
\* SMUGGLE: what handle_smuggle reads and renders leaves no trace, whether it succeeds or is
\* refused; a page that is rendered goes to SmuggleArtifactStore.write, in one transaction.

\* Claimed artifacts are neither evicted nor aged out.
Spare(n) == n \in claimed

AgedOut == {n \in Present : n \in stale /\ ~Spare(n)}
Evictable == SelectSeq(order, LAMBDA n : n \notin AgedOut /\ ~Spare(n))

\* What is left after the age limit and k evictions, oldest first.
Kept(k) == (Present \ AgedOut) \ {Evictable[i] : i \in 1 .. k}

Fits(ns, s) ==
  /\ Cardinality(ns) + 1 <= policy.files
  /\ SumFunctionOnSet(size, ns) + s <= policy.bytes

\* _cleanup_locked: as many evictions as it takes, or all that are allowed.
Evictions(s) ==
  Min({k \in 0 .. Len(Evictable) : Fits(Kept(k), s) \/ k = Len(Evictable)})

Write(n, s) ==
  /\ up /\ Transaction
  /\ n \notin drawn /\ file[n] = "none"
  /\ LET kept == Kept(Evictions(s))
         removed == Present \ kept
     IN  IF Fits(kept, s)
         THEN /\ Place(n, "artifact", s, removed)
              /\ paths' = (paths \ removed) \cup {n} /\ claimed' = claimed \ removed
              /\ drawn' = drawn \cup {n}
         ELSE /\ Unlink(removed)
              /\ Discard(removed)
              /\ UNCHANGED drawn
  /\ UNCHANGED <<server, txn, pc, path, todo, opened>>

Age(n) ==
  /\ n \in Present \ stale
  /\ stale' = stale \cup {n}
  /\ UNCHANGED <<server, file, order, size, registry, txn, pc, path, todo, drawn, opened>>
-----------------------------------------------------------------------------
\* GET and HEAD: _serve_file, _send_response, the stream's cleanup

Resolve(t, n) ==
  /\ up /\ pc[t] = "idle" /\ n \in Present
  /\ path' = [path EXCEPT ![t] = n]
  /\ Goto(t, "inspect")
  /\ UNCHANGED <<server, disk, registry, txn, todo, drawn, opened>>

Inspect(t) ==
  /\ pc[t] = "inspect" /\ Transaction
  /\ Goto(t, IF path[t] \in paths THEN "claim" ELSE "openPlain")
  /\ UNCHANGED <<server, disk, registry, txn, path, todo, drawn, opened>>

\* Mutant: a second response claims the same artifact.
ClaimAgain(t) ==
  /\ pc[t] = "claim" /\ Transaction
  /\ IF path[t] \in paths
     THEN Goto(t, "prepare") /\ claimed' = claimed \cup {path[t]}
     ELSE Goto(t, "idle") /\ UNCHANGED claimed
  /\ UNCHANGED <<server, disk, paths, txn, path, todo, drawn, opened>>

Claim(t) ==
  /\ pc[t] = "claim" /\ Transaction
  /\ IF path[t] \in paths \ claimed
     THEN Goto(t, "prepare") /\ claimed' = claimed \cup {path[t]}
     ELSE Goto(t, "idle") /\ UNCHANGED claimed
  /\ UNCHANGED <<server, disk, paths, txn, path, todo, drawn, opened>>

\* set_file measures the file; without it the handler fails and keeps its claim.
Prepare(t) ==
  /\ pc[t] = "prepare"
  /\ Goto(t, IF path[t] \in Present THEN "open" ELSE "idle")
  /\ UNCHANGED <<server, disk, registry, txn, path, todo, drawn, opened>>

\* The response opens what is under the name now; HEAD and 304 open nothing.
Open(t) ==
  /\ pc[t] = "open"
  /\ opened' \in {opened, IF file[path[t]] = "artifact"
                          THEN [opened EXCEPT ![path[t]] = @ + 1] ELSE opened}
  /\ Goto(t, "unlink")
  /\ UNCHANGED <<server, disk, registry, txn, path, todo, drawn>>

OpenPlain(t) ==
  /\ pc[t] = "openPlain"
  /\ opened' = IF file[path[t]] = "artifact"
               THEN [opened EXCEPT ![path[t]] = @ + 1] ELSE opened
  /\ Goto(t, "idle")
  /\ UNCHANGED <<server, disk, registry, txn, path, todo, drawn>>

CleanupUnlink(t) ==
  /\ pc[t] = "unlink"
  /\ Unlink({path[t]})
  /\ Goto(t, "release")
  /\ UNCHANGED <<server, registry, txn, path, todo, drawn, opened>>

CleanupRelease(t) ==
  /\ pc[t] = "release" /\ Transaction
  /\ Discard({path[t]})
  /\ Goto(t, "idle")
  /\ UNCHANGED <<server, disk, txn, path, todo, drawn, opened>>
\* FETCH knows nothing of the registry: it measures and opens whatever is under the name,
\* as an attachment, without a claim and without a cleanup.

Fetch(t, n) ==
  /\ up /\ pc[t] = "idle" /\ n \in Present
  /\ path' = [path EXCEPT ![t] = n]
  /\ Goto(t, "fetch")
  /\ UNCHANGED <<server, disk, registry, txn, todo, drawn, opened>>

FetchOpen(t) ==
  /\ pc[t] = "fetch"
  /\ Goto(t, "idle")
  /\ UNCHANGED <<server, disk, registry, txn, path, todo, drawn, opened>>
-----------------------------------------------------------------------------
\* DELETE of a file, and of the whole directory

Delete(t, n) ==
  /\ up /\ pc[t] = "idle" /\ n \in Present
  /\ Unlink({n})
  /\ path' = [path EXCEPT ![t] = n]
  /\ Goto(t, "discard")
  /\ UNCHANGED <<server, registry, txn, todo, drawn, opened>>

DeleteDiscard(t) ==
  /\ pc[t] = "discard" /\ Transaction
  /\ Discard({path[t]})
  /\ Goto(t, "idle")
  /\ UNCHANGED <<server, disk, txn, path, todo, drawn, opened>>

Clear(t) ==
  /\ up /\ pc[t] = "idle"
  /\ todo' = [todo EXCEPT ![t] = Present]
  /\ Goto(t, "clear")
  /\ UNCHANGED <<server, disk, registry, txn, path, drawn, opened>>

ClearUnlink(t, n) ==
  /\ pc[t] = "clear" /\ n \in todo[t]
  /\ Unlink({n})
  /\ todo' = [todo EXCEPT ![t] = @ \ {n}]
  /\ UNCHANGED <<server, registry, txn, pc, path, drawn, opened>>

ClearSnapshot(t) ==
  /\ pc[t] = "clear" /\ todo[t] = {} /\ Transaction
  /\ todo' = [todo EXCEPT ![t] = paths]
  /\ Goto(t, "forget")
  /\ UNCHANGED <<server, disk, registry, txn, path, drawn, opened>>

\* The existence test is made before the transaction that forgets the path.
ClearTest(t, n) ==
  /\ pc[t] = "forget" /\ n \in todo[t]
  /\ todo' = [todo EXCEPT ![t] = @ \ {n}]
  /\ path' = [path EXCEPT ![t] = n]
  /\ Goto(t, IF n \in Present THEN "forget" ELSE "forgetOne")
  /\ UNCHANGED <<server, disk, registry, txn, drawn, opened>>

ClearForget(t) ==
  /\ pc[t] = "forgetOne" /\ Transaction
  /\ Discard({path[t]})
  /\ Goto(t, "forget")
  /\ UNCHANGED <<server, disk, txn, path, todo, drawn, opened>>

ClearDone(t) ==
  /\ pc[t] = "forget" /\ todo[t] = {}
  /\ Goto(t, "idle")
  /\ UNCHANGED <<server, disk, registry, txn, path, todo, drawn, opened>>
-----------------------------------------------------------------------------
\* _publish_ordinary_upload: publication and provenance in one transaction

UploadLink(t, n) ==
  /\ up /\ pc[t] = "idle" /\ Transaction
  /\ n \in policy.reuse /\ file[n] = "none"
  /\ txn' = t
  /\ Place(n, "upload", 1, {})
  /\ path' = [path EXCEPT ![t] = n]
  /\ Goto(t, "published")
  /\ drawn' = drawn \cup {n}
  /\ UNCHANGED <<server, registry, todo, opened>>

\* Mutant: the provenance of an earlier file under the name is kept.
UploadKeepsProvenance(t) ==
  /\ pc[t] = "published"
  /\ txn' = NoThread
  /\ Goto(t, "idle")
  /\ UNCHANGED <<server, disk, registry, path, todo, drawn, opened>>

UploadDone(t) ==
  /\ pc[t] = "published"
  /\ Discard({path[t]})
  /\ txn' = NoThread
  /\ Goto(t, "idle")
  /\ UNCHANGED <<server, disk, path, todo, drawn, opened>>
-----------------------------------------------------------------------------
\* The server stops (remove_all_registered) or is killed, and starts again
\* with an empty registry, removing every file that fits the grammar.

Stop(killed) ==
  /\ up /\ stops < policy.stops
  /\ killed \/ Transaction
  /\ up' = FALSE /\ stops' = stops + 1
  /\ IF killed THEN UNCHANGED disk ELSE Unlink(paths)
  /\ paths' = {} /\ claimed' = {} /\ txn' = NoThread
  /\ pc' = [t \in Threads |-> "idle"] /\ todo' = [t \in Threads |-> {}]
  /\ UNCHANGED <<policy, path, drawn, opened>>

Start ==
  /\ ~up
  /\ up' = TRUE
  /\ Unlink(Present)
  /\ UNCHANGED <<policy, stops, registry, txn, pc, path, todo, drawn, opened>>

-----------------------------------------------------------------------------
Serve(t) ==
  \/ \E n \in Names : Resolve(t, n) \/ Fetch(t, n)
  \/ FetchOpen(t) \/ Inspect(t) \/ Claim(t) \/ Prepare(t) \/ Open(t) \/ OpenPlain(t)
  \/ CleanupUnlink(t) \/ CleanupRelease(t)

DeleteStep(t) ==
  \/ \E n \in Names : Delete(t, n) \/ ClearUnlink(t, n) \/ ClearTest(t, n)
  \/ DeleteDiscard(t) \/ Clear(t) \/ ClearSnapshot(t) \/ ClearForget(t) \/ ClearDone(t)

Next ==
  \/ \E n \in policy.names, s \in policy.sizes : Write(n, s)
  \/ \E n \in Names : Age(n)
  \/ \E t \in Threads : Serve(t) \/ DeleteStep(t)
  \/ \E t \in Threads : UploadDone(t) \/ \E n \in Names : UploadLink(t, n)
  \/ \E killed \in BOOLEAN : Stop(killed)
  \/ Start

Spec == Init /\ [][Next]_vars
-----------------------------------------------------------------------------
(***************************************************************************)
(* The content of a generated artifact is given to at most one response to *)
(* GET or HEAD, and a page that was given and is still there belongs to    *)
(* exactly that response, which is about to unlink it: nothing gives it to *)
(* anybody once the cleanup ran.  A FETCH claims and removes nothing, so   *)
(* until then it hands out the page too, and as often as it is asked.      *)
(***************************************************************************)
OneShot ==
  \A n \in Names :
    /\ opened[n] <= 1
    /\ (up /\ opened[n] > 0 /\ file[n] = "artifact") =>
         \E t \in Threads : path[t] = n /\ pc[t] = "unlink"

(***************************************************************************)
(* No ordinary upload ever has the provenance of a generated artifact: a   *)
(* registered name, seen in a transaction, holds an artifact or nothing.   *)
(***************************************************************************)
Provenance == Transaction => \A n \in paths : file[n] # "upload"

(***************************************************************************)
(* A claim, which keeps an artifact from being evicted, belongs to a       *)
(* response under way or to a deletion that is about to drop it.           *)
(***************************************************************************)
ClaimsOwned ==
  \A n \in claimed :
    /\ n \in paths
    /\ \E t \in Threads :
         \/ path[t] = n /\ pc[t] \in {"prepare", "open", "unlink", "release", "discard",
                                      "forgetOne", "published"}
         \/ pc[t] = "clear" \/ (pc[t] \in {"forget", "forgetOne"} /\ n \in todo[t])

(***************************************************************************)
(* The retention limits hold whenever names are left to the server, with   *)
(* responses holding claims on any of the artifacts.                       *)
(***************************************************************************)
Retention ==
  policy.reuse = {} =>
    /\ Cardinality(Present) <= policy.files
    /\ SumFunctionOnSet(size, Present) <= policy.bytes

(***************************************************************************)
(* The registry of artifacts agrees with the directory and with the        *)
(* requests under way, whatever is served, deleted, uploaded or evicted in *)
(* between.                                                                *)
(***************************************************************************)
RegistrySound == Provenance /\ ClaimsOwned /\ Retention
=============================================================================
