----------------------- MODULE SmuggleArtifactsProofs -----------------------
(***************************************************************************)
(* Proofs about SmuggleArtifacts for every set of threads and names and    *)
(* every policy.  A name is drawn once, so an artifact that is gone never  *)
(* comes back; the invariant says who may still open it, and who will      *)
(* still forget it.                                                        *)
(***************************************************************************)
EXTENDS SmuggleArtifacts, SumProofs

Steps == {"idle", "inspect", "claim", "prepare", "open", "openPlain", "unlink", "release",
          "discard", "clear", "forget", "forgetOne", "published", "fetch"}

Typed ==
  /\ policy \in Policies
  /\ up \in BOOLEAN /\ txn \in Threads \cup {NoThread}
  /\ file \in [Names -> {"none", "artifact", "upload"}]
  /\ drawn \subseteq Names /\ paths \subseteq drawn /\ claimed \subseteq paths
  /\ pc \in [Threads -> Steps] /\ path \in [Threads -> Names] /\ todo \in [Threads -> SUBSET Names]
  /\ opened \in [Names -> Nat]

\* The artifact that had the name is gone, and no other gets it.
Dead(n) == n \in drawn /\ file[n] # "artifact"

\* Every name in use was drawn, and a running server knows its artifacts.
NamesDrawnOnce ==
  /\ \A n \in Names : file[n] # "none" => n \in drawn
  /\ \A n \in Names : (up /\ file[n] = "artifact") => n \in paths
  /\ \A n \in Names : opened[n] > 0 => n \in drawn

\* A thread that will forget a name, or has served it as an ordinary file, has no artifact there.
StepsMatch ==
  /\ ~up => \A t \in Threads : pc[t] = "idle"
  /\ \A t \in Threads : pc[t] # "idle" /\ pc[t] \notin {"clear", "forget"} => path[t] \in drawn
  /\ \A t \in Threads :
       pc[t] \in {"openPlain", "release", "discard", "forgetOne", "published"} => Dead(path[t])
  /\ \A t \in Threads : pc[t] \in {"forget", "forgetOne"} => todo[t] \subseteq drawn
  /\ \A t \in Threads : txn = t <=> pc[t] = "published"

Serving(t, n) == path[t] = n /\ pc[t] \in {"prepare", "open"}

\* Whoever serves an artifact has claimed it, and alone; an artifact that was opened stays claimed.
ServedOnce ==
  /\ \A n \in Names : opened[n] <= 1
  /\ \A n \in Names : (up /\ opened[n] > 0) => n \in claimed \/ Dead(n)
  /\ \A n \in Names, t \in Threads : Serving(t, n) => n \in claimed \/ Dead(n)
  /\ \A n \in Names, t \in Threads : (Serving(t, n) /\ opened[n] > 0) => Dead(n)
  /\ \A n \in Names, t \in Threads, u \in Threads :
       (Serving(t, n) /\ Serving(u, n) /\ t # u) => Dead(n)

(***************************************************************************)
(* The inductive invariant of serving: who may open an artifact.           *)
(***************************************************************************)
ServingInv == Typed /\ NamesDrawnOnce /\ StepsMatch /\ ServedOnce

Finishing(t, n) == path[t] = n /\ pc[t] \in {"prepare", "open", "unlink"}

\* A thread that will drop the name from the registry.
Dropping(t, n) ==
  \/ path[t] = n /\ pc[t] \in {"unlink", "release", "discard", "forgetOne", "published"}
  \/ pc[t] = "clear"
  \/ pc[t] \in {"forget", "forgetOne"} /\ n \in todo[t]

RegistryFacts ==
  /\ ~up => paths = {}
  /\ \A n \in paths : file[n] = "upload" => txn # NoThread /\ path[txn] = n
  /\ \A n \in paths : file[n] # "artifact" => \E t \in Threads : Dropping(t, n)
  /\ \A n \in claimed : file[n] = "artifact" => \E t \in Threads : Finishing(t, n)

(***************************************************************************)
(* The inductive invariant of the registry: a claimed artifact is being    *)
(* served, a registered name without one is about to be dropped, and an    *)
(* upload under a registered name is still being published.                *)
(***************************************************************************)
RegistryInv == ServingInv /\ RegistryFacts
-----------------------------------------------------------------------------
LEMMA WriteKeeps ==
  ASSUME ServingInv, NEW n \in Names, NEW s, Write(n, s)
  PROVE  ServingInv'
  <1> USE ArtifactAssumption DEF ServingInv, Write, Place, Unlink, Discard, server, Transaction,
       Present
  <1>0. /\ UNCHANGED <<policy, up, txn, pc, path, todo, opened>>
        /\ drawn \subseteq drawn'
    OBVIOUS
  <1>1. Typed'
    <2>1. file' \in [Names -> {"none", "artifact", "upload"}]
      BY DEF Typed
    <2>2. drawn' \subseteq Names /\ paths' \subseteq drawn' /\ claimed' \subseteq paths'
      BY DEF Typed
    <2> QED
      BY <1>0, <2>1, <2>2 DEF Typed
  <1>2. \A m \in Names : Dead(m) => Dead(m)'
    BY DEF Typed, Dead, NamesDrawnOnce
  <1>3. NamesDrawnOnce'
    BY DEF Typed, NamesDrawnOnce, StepsMatch, Dead
  <1>4. StepsMatch'
    <2> HIDE DEF Write
    <2> QED
      BY <1>0, <1>1, <1>2 DEF Typed, StepsMatch, NamesDrawnOnce, Dead
  <1>5. ServedOnce'
    <2>1. \A m \in claimed : m \in claimed' \/ Dead(m)'
      BY DEF Typed, Dead
    <2> HIDE DEF Write
    <2> QED
      BY <1>0, <1>1, <1>2, <2>1 DEF Typed, Serving, ServedOnce, NamesDrawnOnce
  <1> QED
    BY <1>1, <1>3, <1>4, <1>5

LEMMA AgeKeeps ==
  ASSUME ServingInv, NEW n \in Names, Age(n)
  PROVE  ServingInv'
  <1> USE ArtifactAssumption DEF ServingInv, Age, server, registry, Present
  <1>1. Typed'
    BY DEF Typed, Steps
  <1>2. \A m \in Names : Dead(m) => Dead(m)'
    BY DEF Typed, Dead, NamesDrawnOnce
  <1>3. NamesDrawnOnce'
    BY DEF Typed, NamesDrawnOnce, StepsMatch, Dead
  <1>4. StepsMatch'
    BY <1>2 DEF Typed, StepsMatch, NamesDrawnOnce, Dead
  <1>5. ServedOnce'
    BY <1>2 DEF Typed, Serving, ServedOnce, StepsMatch, NamesDrawnOnce, Dead
  <1> QED
    BY <1>1, <1>3, <1>4, <1>5

LEMMA ResolveKeeps ==
  ASSUME ServingInv, NEW t \in Threads, NEW n \in Names, Resolve(t, n)
  PROVE  ServingInv'
  <1> USE ArtifactAssumption DEF ServingInv, Resolve, Goto, server, disk, registry, Present
  <1>1. Typed'
    BY DEF Typed, Steps
  <1>2. \A m \in Names : Dead(m) => Dead(m)'
    BY DEF Typed, Dead, NamesDrawnOnce
  <1>3. NamesDrawnOnce'
    BY DEF Typed, NamesDrawnOnce, StepsMatch, Dead
  <1>4. StepsMatch'
    BY <1>2 DEF Typed, StepsMatch, NamesDrawnOnce, Dead
  <1>5. ServedOnce'
    BY <1>2 DEF Typed, Serving, ServedOnce, StepsMatch, NamesDrawnOnce, Dead
  <1> QED
    BY <1>1, <1>3, <1>4, <1>5

LEMMA FetchKeeps ==
  ASSUME ServingInv, NEW t \in Threads, NEW n \in Names, Fetch(t, n)
  PROVE  ServingInv'
  <1> USE ArtifactAssumption DEF ServingInv, Fetch, Goto, server, disk, registry, Present
  <1>1. Typed'
    BY DEF Typed, Steps
  <1>2. \A m \in Names : Dead(m) => Dead(m)'
    BY DEF Typed, Dead, NamesDrawnOnce
  <1>3. NamesDrawnOnce'
    BY DEF Typed, NamesDrawnOnce, StepsMatch, Dead
  <1>4. StepsMatch'
    BY <1>2 DEF Typed, StepsMatch, NamesDrawnOnce, Dead
  <1>5. ServedOnce'
    BY <1>2 DEF Typed, Serving, ServedOnce, StepsMatch, NamesDrawnOnce, Dead
  <1> QED
    BY <1>1, <1>3, <1>4, <1>5

LEMMA InspectKeeps ==
  ASSUME ServingInv, NEW t \in Threads, Inspect(t)
  PROVE  ServingInv'
  <1> USE ArtifactAssumption DEF ServingInv, Inspect, Goto, server, disk, registry
  <1>1. Typed'
    BY DEF Typed, Steps
  <1>2. \A m \in Names : Dead(m) => Dead(m)'
    BY DEF Typed, Dead, NamesDrawnOnce
  <1>3. NamesDrawnOnce'
    BY DEF Typed, NamesDrawnOnce, StepsMatch, Dead
  <1>4. StepsMatch'
    BY <1>2 DEF Typed, StepsMatch, NamesDrawnOnce, Dead
  <1>5. ServedOnce'
    BY <1>2 DEF Typed, Serving, ServedOnce, StepsMatch, NamesDrawnOnce, Dead
  <1> QED
    BY <1>1, <1>3, <1>4, <1>5

LEMMA ClaimKeeps ==
  ASSUME ServingInv, NEW t \in Threads, Claim(t)
  PROVE  ServingInv'
  <1> USE ArtifactAssumption DEF ServingInv, Claim, Goto, server, disk
  <1>1. Typed'
    BY DEF Typed, Steps
  <1>2. \A m \in Names : Dead(m) => Dead(m)'
    BY DEF Typed, Dead, NamesDrawnOnce
  <1>3. NamesDrawnOnce'
    BY DEF Typed, NamesDrawnOnce, StepsMatch, Dead
  <1>4. StepsMatch'
    BY <1>2 DEF Typed, StepsMatch, NamesDrawnOnce, Dead
  <1>5. ServedOnce'
    BY <1>2 DEF Typed, Serving, ServedOnce, StepsMatch, NamesDrawnOnce, Dead
  <1> QED
    BY <1>1, <1>3, <1>4, <1>5

LEMMA PrepareKeeps ==
  ASSUME ServingInv, NEW t \in Threads, Prepare(t)
  PROVE  ServingInv'
  <1> USE ArtifactAssumption DEF ServingInv, Prepare, Goto, server, disk, registry, Present
  <1>1. Typed'
    BY DEF Typed, Steps
  <1>2. \A m \in Names : Dead(m) => Dead(m)'
    BY DEF Typed, Dead, NamesDrawnOnce
  <1>3. NamesDrawnOnce'
    BY DEF Typed, NamesDrawnOnce, StepsMatch, Dead
  <1>4. StepsMatch'
    BY <1>2 DEF Typed, StepsMatch, NamesDrawnOnce, Dead
  <1>5. ServedOnce'
    BY <1>2 DEF Typed, Serving, ServedOnce, StepsMatch, NamesDrawnOnce, Dead
  <1> QED
    BY <1>1, <1>3, <1>4, <1>5

LEMMA OpenKeeps ==
  ASSUME ServingInv, NEW t \in Threads, Open(t)
  PROVE  ServingInv'
  <1> USE ArtifactAssumption DEF ServingInv, Open, Goto, server, disk, registry
  <1>1. Typed'
    BY DEF Typed, Steps
  <1>2. \A m \in Names : Dead(m) => Dead(m)'
    BY DEF Typed, Dead, NamesDrawnOnce
  <1>3. NamesDrawnOnce'
    BY DEF Typed, NamesDrawnOnce, StepsMatch, Dead
  <1>4. StepsMatch'
    BY <1>2 DEF Typed, StepsMatch, NamesDrawnOnce, Dead
  <1>5. ServedOnce'
    BY <1>2 DEF Typed, Serving, ServedOnce, StepsMatch, NamesDrawnOnce, Dead
  <1> QED
    BY <1>1, <1>3, <1>4, <1>5

LEMMA OpenPlainKeeps ==
  ASSUME ServingInv, NEW t \in Threads, OpenPlain(t)
  PROVE  ServingInv'
  <1> USE ArtifactAssumption DEF ServingInv, OpenPlain, Goto, server, disk, registry
  <1>1. Typed'
    BY DEF Typed, Steps
  <1>2. \A m \in Names : Dead(m) => Dead(m)'
    BY DEF Typed, Dead, NamesDrawnOnce
  <1>3. NamesDrawnOnce'
    BY DEF Typed, NamesDrawnOnce, StepsMatch, Dead
  <1>4. StepsMatch'
    BY <1>2 DEF Typed, StepsMatch, NamesDrawnOnce, Dead
  <1>5. ServedOnce'
    BY <1>2 DEF Typed, Serving, ServedOnce, StepsMatch, NamesDrawnOnce, Dead
  <1> QED
    BY <1>1, <1>3, <1>4, <1>5

LEMMA FetchOpenKeeps ==
  ASSUME ServingInv, NEW t \in Threads, FetchOpen(t)
  PROVE  ServingInv'
  <1> USE ArtifactAssumption DEF ServingInv, FetchOpen, Goto, server, disk, registry
  <1>1. Typed'
    BY DEF Typed, Steps
  <1>2. \A m \in Names : Dead(m) => Dead(m)'
    BY DEF Typed, Dead, NamesDrawnOnce
  <1>3. NamesDrawnOnce'
    BY DEF Typed, NamesDrawnOnce, StepsMatch, Dead
  <1>4. StepsMatch'
    BY <1>2 DEF Typed, StepsMatch, NamesDrawnOnce, Dead
  <1>5. ServedOnce'
    BY <1>2 DEF Typed, Serving, ServedOnce, StepsMatch, NamesDrawnOnce, Dead
  <1> QED
    BY <1>1, <1>3, <1>4, <1>5

LEMMA CleanupUnlinkKeeps ==
  ASSUME ServingInv, NEW t \in Threads, CleanupUnlink(t)
  PROVE  ServingInv'
  <1> USE ArtifactAssumption DEF ServingInv, CleanupUnlink, Unlink, Goto, server, registry
  <1>1. Typed'
    BY DEF Typed, Steps
  <1>2. \A m \in Names : Dead(m) => Dead(m)'
    BY DEF Typed, Dead, NamesDrawnOnce
  <1>3. NamesDrawnOnce'
    BY DEF Typed, NamesDrawnOnce, StepsMatch, Dead
  <1>4. StepsMatch'
    BY <1>2 DEF Typed, StepsMatch, NamesDrawnOnce, Dead
  <1>5. ServedOnce'
    BY <1>2 DEF Typed, Serving, ServedOnce, StepsMatch, NamesDrawnOnce, Dead
  <1> QED
    BY <1>1, <1>3, <1>4, <1>5

LEMMA CleanupReleaseKeeps ==
  ASSUME ServingInv, NEW t \in Threads, CleanupRelease(t)
  PROVE  ServingInv'
  <1> USE ArtifactAssumption DEF ServingInv, CleanupRelease, Discard, Goto, server, disk
  <1>1. Typed'
    BY DEF Typed, Steps
  <1>2. \A m \in Names : Dead(m) => Dead(m)'
    BY DEF Typed, Dead, NamesDrawnOnce
  <1>3. NamesDrawnOnce'
    BY DEF Typed, NamesDrawnOnce, StepsMatch, Dead
  <1>4. StepsMatch'
    BY <1>2 DEF Typed, StepsMatch, NamesDrawnOnce, Dead
  <1>5. ServedOnce'
    BY <1>2 DEF Typed, Serving, ServedOnce, StepsMatch, NamesDrawnOnce, Dead
  <1> QED
    BY <1>1, <1>3, <1>4, <1>5

LEMMA DeleteKeeps ==
  ASSUME ServingInv, NEW t \in Threads, NEW n \in Names, Delete(t, n)
  PROVE  ServingInv'
  <1> USE ArtifactAssumption DEF ServingInv, Delete, Unlink, Goto, server, registry, Present
  <1>1. Typed'
    BY DEF Typed, Steps
  <1>2. \A m \in Names : Dead(m) => Dead(m)'
    BY DEF Typed, Dead, NamesDrawnOnce
  <1>3. NamesDrawnOnce'
    BY DEF Typed, NamesDrawnOnce, StepsMatch, Dead
  <1>4. StepsMatch'
    BY <1>2 DEF Typed, StepsMatch, NamesDrawnOnce, Dead
  <1>5. ServedOnce'
    BY <1>2 DEF Typed, Serving, ServedOnce, StepsMatch, NamesDrawnOnce, Dead
  <1> QED
    BY <1>1, <1>3, <1>4, <1>5

LEMMA DeleteDiscardKeeps ==
  ASSUME ServingInv, NEW t \in Threads, DeleteDiscard(t)
  PROVE  ServingInv'
  <1> USE ArtifactAssumption DEF ServingInv, DeleteDiscard, Discard, Goto, server, disk
  <1>1. Typed'
    BY DEF Typed, Steps
  <1>2. \A m \in Names : Dead(m) => Dead(m)'
    BY DEF Typed, Dead, NamesDrawnOnce
  <1>3. NamesDrawnOnce'
    BY DEF Typed, NamesDrawnOnce, StepsMatch, Dead
  <1>4. StepsMatch'
    BY <1>2 DEF Typed, StepsMatch, NamesDrawnOnce, Dead
  <1>5. ServedOnce'
    BY <1>2 DEF Typed, Serving, ServedOnce, StepsMatch, NamesDrawnOnce, Dead
  <1> QED
    BY <1>1, <1>3, <1>4, <1>5

LEMMA ClearKeeps ==
  ASSUME ServingInv, NEW t \in Threads, Clear(t)
  PROVE  ServingInv'
  <1> USE ArtifactAssumption DEF ServingInv, Clear, Goto, server, disk, registry, Present
  <1>1. Typed'
    BY DEF Typed, Steps
  <1>2. \A m \in Names : Dead(m) => Dead(m)'
    BY DEF Typed, Dead, NamesDrawnOnce
  <1>3. NamesDrawnOnce'
    BY DEF Typed, NamesDrawnOnce, StepsMatch, Dead
  <1>4. StepsMatch'
    BY <1>2 DEF Typed, StepsMatch, NamesDrawnOnce, Dead
  <1>5. ServedOnce'
    BY <1>2 DEF Typed, Serving, ServedOnce, StepsMatch, NamesDrawnOnce, Dead
  <1> QED
    BY <1>1, <1>3, <1>4, <1>5

LEMMA ClearUnlinkKeeps ==
  ASSUME ServingInv, NEW t \in Threads, NEW n \in Names, ClearUnlink(t, n)
  PROVE  ServingInv'
  <1> USE ArtifactAssumption DEF ServingInv, ClearUnlink, Unlink, server, registry
  <1>1. Typed'
    BY DEF Typed, Steps
  <1>2. \A m \in Names : Dead(m) => Dead(m)'
    BY DEF Typed, Dead, NamesDrawnOnce
  <1>3. NamesDrawnOnce'
    BY DEF Typed, NamesDrawnOnce, StepsMatch, Dead
  <1>4. StepsMatch'
    BY <1>2 DEF Typed, StepsMatch, NamesDrawnOnce, Dead
  <1>5. ServedOnce'
    BY <1>2 DEF Typed, Serving, ServedOnce, StepsMatch, NamesDrawnOnce, Dead
  <1> QED
    BY <1>1, <1>3, <1>4, <1>5

LEMMA ClearSnapshotKeeps ==
  ASSUME ServingInv, NEW t \in Threads, ClearSnapshot(t)
  PROVE  ServingInv'
  <1> USE ArtifactAssumption DEF ServingInv, ClearSnapshot, Goto, server, disk, registry
  <1>1. Typed'
    BY DEF Typed, Steps
  <1>2. \A m \in Names : Dead(m) => Dead(m)'
    BY DEF Typed, Dead, NamesDrawnOnce
  <1>3. NamesDrawnOnce'
    BY DEF Typed, NamesDrawnOnce, StepsMatch, Dead
  <1>4. StepsMatch'
    BY <1>2 DEF Typed, StepsMatch, NamesDrawnOnce, Dead
  <1>5. ServedOnce'
    BY <1>2 DEF Typed, Serving, ServedOnce, StepsMatch, NamesDrawnOnce, Dead
  <1> QED
    BY <1>1, <1>3, <1>4, <1>5

LEMMA ClearTestKeeps ==
  ASSUME ServingInv, NEW t \in Threads, NEW n \in Names, ClearTest(t, n)
  PROVE  ServingInv'
  <1> USE ArtifactAssumption DEF ServingInv, ClearTest, Goto, server, disk, registry, Present
  <1>1. Typed'
    BY DEF Typed, Steps
  <1>2. \A m \in Names : Dead(m) => Dead(m)'
    BY DEF Typed, Dead, NamesDrawnOnce
  <1>3. NamesDrawnOnce'
    BY DEF Typed, NamesDrawnOnce, StepsMatch, Dead
  <1>4. StepsMatch'
    BY <1>2 DEF Typed, StepsMatch, NamesDrawnOnce, Dead
  <1>5. ServedOnce'
    BY <1>2 DEF Typed, Serving, ServedOnce, StepsMatch, NamesDrawnOnce, Dead
  <1> QED
    BY <1>1, <1>3, <1>4, <1>5

LEMMA ClearForgetKeeps ==
  ASSUME ServingInv, NEW t \in Threads, ClearForget(t)
  PROVE  ServingInv'
  <1> USE ArtifactAssumption DEF ServingInv, ClearForget, Discard, Goto, server, disk
  <1>1. Typed'
    BY DEF Typed, Steps
  <1>2. \A m \in Names : Dead(m) => Dead(m)'
    BY DEF Typed, Dead, NamesDrawnOnce
  <1>3. NamesDrawnOnce'
    BY DEF Typed, NamesDrawnOnce, StepsMatch, Dead
  <1>4. StepsMatch'
    BY <1>2 DEF Typed, StepsMatch, NamesDrawnOnce, Dead
  <1>5. ServedOnce'
    BY <1>2 DEF Typed, Serving, ServedOnce, StepsMatch, NamesDrawnOnce, Dead
  <1> QED
    BY <1>1, <1>3, <1>4, <1>5

LEMMA ClearDoneKeeps ==
  ASSUME ServingInv, NEW t \in Threads, ClearDone(t)
  PROVE  ServingInv'
  <1> USE ArtifactAssumption DEF ServingInv, ClearDone, Goto, server, disk, registry
  <1>1. Typed'
    BY DEF Typed, Steps
  <1>2. \A m \in Names : Dead(m) => Dead(m)'
    BY DEF Typed, Dead, NamesDrawnOnce
  <1>3. NamesDrawnOnce'
    BY DEF Typed, NamesDrawnOnce, StepsMatch, Dead
  <1>4. StepsMatch'
    BY <1>2 DEF Typed, StepsMatch, NamesDrawnOnce, Dead
  <1>5. ServedOnce'
    BY <1>2 DEF Typed, Serving, ServedOnce, StepsMatch, NamesDrawnOnce, Dead
  <1> QED
    BY <1>1, <1>3, <1>4, <1>5

LEMMA UploadLinkKeeps ==
  ASSUME ServingInv, NEW t \in Threads, NEW n \in Names, UploadLink(t, n)
  PROVE  ServingInv'
  <1> USE ArtifactAssumption DEF ServingInv, UploadLink, Place, Goto, server, registry, Transaction
  <1>1. Typed'
    BY DEF Typed, Steps
  <1>2. \A m \in Names : Dead(m) => Dead(m)'
    BY DEF Typed, Dead, NamesDrawnOnce
  <1>3. NamesDrawnOnce'
    BY DEF Typed, NamesDrawnOnce, StepsMatch, Dead
  <1>4. StepsMatch'
    BY <1>2 DEF Typed, StepsMatch, NamesDrawnOnce, Dead
  <1>5. ServedOnce'
    BY <1>2 DEF Typed, Serving, ServedOnce, StepsMatch, NamesDrawnOnce, Dead
  <1> QED
    BY <1>1, <1>3, <1>4, <1>5

LEMMA UploadDoneKeeps ==
  ASSUME ServingInv, NEW t \in Threads, UploadDone(t)
  PROVE  ServingInv'
  <1> USE ArtifactAssumption DEF ServingInv, UploadDone, Discard, Goto, server, disk
  <1>1. Typed'
    BY DEF Typed, Steps
  <1>2. \A m \in Names : Dead(m) => Dead(m)'
    BY DEF Typed, Dead, NamesDrawnOnce
  <1>3. NamesDrawnOnce'
    BY DEF Typed, NamesDrawnOnce, StepsMatch, Dead
  <1>4. StepsMatch'
    BY <1>2 DEF Typed, StepsMatch, NamesDrawnOnce, Dead
  <1>5. ServedOnce'
    BY <1>2 DEF Typed, Serving, ServedOnce, StepsMatch, NamesDrawnOnce, Dead
  <1> QED
    BY <1>1, <1>3, <1>4, <1>5

LEMMA StopKeeps ==
  ASSUME ServingInv, NEW killed \in BOOLEAN, Stop(killed)
  PROVE  ServingInv'
  <1> USE ArtifactAssumption DEF ServingInv, Stop, Unlink, disk, Transaction
  <1>1. Typed'
    BY DEF Typed, Steps
  <1>2. \A m \in Names : Dead(m) => Dead(m)'
    BY DEF Typed, Dead, NamesDrawnOnce
  <1>3. NamesDrawnOnce'
    BY DEF Typed, NamesDrawnOnce, StepsMatch, Dead
  <1>4. StepsMatch'
    BY <1>2 DEF Typed, StepsMatch, NamesDrawnOnce, Dead
  <1>5. ServedOnce'
    BY <1>2 DEF Typed, Serving, ServedOnce, StepsMatch, NamesDrawnOnce, Dead
  <1> QED
    BY <1>1, <1>3, <1>4, <1>5

LEMMA StartKeeps ==
  ASSUME ServingInv, Start
  PROVE  ServingInv'
  <1> USE ArtifactAssumption DEF ServingInv, Start, Unlink, registry, Present
  <1>1. Typed'
    BY DEF Typed, Steps
  <1>2. \A m \in Names : Dead(m) => Dead(m)'
    BY DEF Typed, Dead, NamesDrawnOnce
  <1>3. NamesDrawnOnce'
    BY DEF Typed, NamesDrawnOnce, StepsMatch, Dead
  <1>4. StepsMatch'
    BY <1>2 DEF Typed, StepsMatch, NamesDrawnOnce, Dead
  <1>5. ServedOnce'
    BY <1>2 DEF Typed, Serving, ServedOnce, StepsMatch, NamesDrawnOnce, Dead
  <1> QED
    BY <1>1, <1>3, <1>4, <1>5

LEMMA Startup == Init => ServingInv
  <1> SUFFICES ASSUME Init PROVE ServingInv
    OBVIOUS
  <1> (CHOOSE n \in Names : TRUE) \in Names
    BY ArtifactAssumption
  <1> QED
    BY ArtifactAssumption DEF Init, ServingInv, Typed, Steps, NamesDrawnOnce, StepsMatch, Serving,
       ServedOnce, Dead

LEMMA StandingKeeps == ASSUME ServingInv, UNCHANGED vars PROVE ServingInv'
  BY DEF vars, server, disk, registry, ServingInv, Typed, NamesDrawnOnce, StepsMatch, Serving,
     ServedOnce, Dead

LEMMA StepKeeps == ASSUME ServingInv, [Next]_vars PROVE ServingInv'
  <1>1. CASE UNCHANGED vars
    BY <1>1, StandingKeeps
  <1>2. ASSUME NEW n \in policy.names, NEW s \in policy.sizes, Write(n, s)
        PROVE  ServingInv'
    <2> n \in Names
      BY ArtifactAssumption DEF ServingInv, Typed
    <2> QED
      BY <1>2, WriteKeeps
  <1>3. ASSUME NEW t \in Threads, Serve(t)
        PROVE  ServingInv'
    BY <1>3, ResolveKeeps, InspectKeeps, ClaimKeeps, PrepareKeeps, OpenKeeps, OpenPlainKeeps,
       CleanupUnlinkKeeps, CleanupReleaseKeeps, FetchKeeps, FetchOpenKeeps DEF Serve
  <1>4. ASSUME NEW t \in Threads, DeleteStep(t)
        PROVE  ServingInv'
    BY <1>4, DeleteKeeps, ClearUnlinkKeeps, ClearTestKeeps, DeleteDiscardKeeps, ClearKeeps,
       ClearSnapshotKeeps, ClearForgetKeeps, ClearDoneKeeps DEF DeleteStep
  <1> QED
    BY <1>1, <1>2, <1>3, <1>4, AgeKeeps, UploadDoneKeeps, UploadLinkKeeps, StopKeeps, StartKeeps
       DEF Next

LEMMA ServingHolds == Spec => []ServingInv
  BY Startup, StepKeeps, PTL DEF Spec

-----------------------------------------------------------------------------
\* The registry, step by step: which file a registered name has, and who holds a claim.

LEMMA WriteAgrees ==
  ASSUME RegistryInv, NEW n \in Names, NEW s, Write(n, s)
  PROVE  RegistryFacts'
  <1> USE ArtifactAssumption DEF RegistryInv, RegistryFacts, ServingInv, Write, Place, Unlink,
       Discard, server, Transaction, Present
  <1>1. (~up => paths = {})'
    BY DEF Typed, StepsMatch
  <1>2. (\A m \in paths : file[m] = "upload" => txn # NoThread /\ path[txn] = m)'
    BY DEF Typed, StepsMatch, NamesDrawnOnce
  <1>0. /\ \A m \in paths' : file'[m] = "artifact" \/ (m \in paths /\ file'[m] = file[m])
        /\ \A m \in claimed' : m \in claimed /\ file'[m] = file[m]
        /\ UNCHANGED <<pc, path, todo>>
    BY DEF Typed
  <1>3. (\A m \in paths : file[m] # "artifact" => \E v \in Threads : Dropping(v, m))'
    <2> HIDE DEF Write
    <2> QED
      BY <1>0 DEF Dropping
  <1>4. (\A m \in claimed : file[m] = "artifact" => \E v \in Threads : Finishing(v, m))'
    <2> HIDE DEF Write
    <2> QED
      BY <1>0 DEF Finishing
  <1> QED
    BY <1>1, <1>2, <1>3, <1>4

LEMMA AgeAgrees ==
  ASSUME RegistryInv, NEW n \in Names, Age(n)
  PROVE  RegistryFacts'
  <1> USE ArtifactAssumption DEF RegistryInv, RegistryFacts, ServingInv, Age, server, registry,
       Present
  <1>1. (~up => paths = {})'
    BY DEF Typed, StepsMatch
  <1>2. (\A m \in paths : file[m] = "upload" => txn # NoThread /\ path[txn] = m)'
    BY DEF Typed, StepsMatch, NamesDrawnOnce
  <1>3. (\A m \in paths : file[m] # "artifact" => \E v \in Threads : Dropping(v, m))'
    BY DEF Typed, StepsMatch, NamesDrawnOnce, Dropping, Dead
  <1>4. (\A m \in claimed : file[m] = "artifact" => \E v \in Threads : Finishing(v, m))'
    BY DEF Typed, StepsMatch, NamesDrawnOnce, Finishing, Dead
  <1> QED
    BY <1>1, <1>2, <1>3, <1>4

LEMMA ResolveAgrees ==
  ASSUME RegistryInv, NEW t \in Threads, NEW n \in Names, Resolve(t, n)
  PROVE  RegistryFacts'
  <1> USE ArtifactAssumption DEF RegistryInv, RegistryFacts, ServingInv, Resolve, Goto, server,
       disk, registry, Present
  <1>1. (~up => paths = {})'
    BY DEF Typed, StepsMatch
  <1>2. (\A m \in paths : file[m] = "upload" => txn # NoThread /\ path[txn] = m)'
    BY DEF Typed, StepsMatch, NamesDrawnOnce
  <1>3. (\A m \in paths : file[m] # "artifact" => \E v \in Threads : Dropping(v, m))'
    BY DEF Typed, StepsMatch, NamesDrawnOnce, Dropping, Dead
  <1>4. (\A m \in claimed : file[m] = "artifact" => \E v \in Threads : Finishing(v, m))'
    BY DEF Typed, StepsMatch, NamesDrawnOnce, Finishing, Dead
  <1> QED
    BY <1>1, <1>2, <1>3, <1>4

LEMMA FetchAgrees ==
  ASSUME RegistryInv, NEW t \in Threads, NEW n \in Names, Fetch(t, n)
  PROVE  RegistryFacts'
  <1> USE ArtifactAssumption DEF RegistryInv, RegistryFacts, ServingInv, Fetch, Goto, server,
       disk, registry, Present
  <1>1. (~up => paths = {})'
    BY DEF Typed, StepsMatch
  <1>2. (\A m \in paths : file[m] = "upload" => txn # NoThread /\ path[txn] = m)'
    BY DEF Typed, StepsMatch, NamesDrawnOnce
  <1>3. (\A m \in paths : file[m] # "artifact" => \E v \in Threads : Dropping(v, m))'
    BY DEF Typed, StepsMatch, NamesDrawnOnce, Dropping, Dead
  <1>4. (\A m \in claimed : file[m] = "artifact" => \E v \in Threads : Finishing(v, m))'
    BY DEF Typed, StepsMatch, NamesDrawnOnce, Finishing, Dead
  <1> QED
    BY <1>1, <1>2, <1>3, <1>4

LEMMA InspectAgrees ==
  ASSUME RegistryInv, NEW t \in Threads, Inspect(t)
  PROVE  RegistryFacts'
  <1> USE ArtifactAssumption DEF RegistryInv, RegistryFacts, ServingInv, Inspect, Goto, server,
       disk, registry
  <1>1. (~up => paths = {})'
    BY DEF Typed, StepsMatch
  <1>2. (\A m \in paths : file[m] = "upload" => txn # NoThread /\ path[txn] = m)'
    BY DEF Typed, StepsMatch, NamesDrawnOnce
  <1>3. (\A m \in paths : file[m] # "artifact" => \E v \in Threads : Dropping(v, m))'
    BY DEF Typed, StepsMatch, NamesDrawnOnce, Dropping, Dead
  <1>4. (\A m \in claimed : file[m] = "artifact" => \E v \in Threads : Finishing(v, m))'
    BY DEF Typed, StepsMatch, NamesDrawnOnce, Finishing, Dead
  <1> QED
    BY <1>1, <1>2, <1>3, <1>4

LEMMA ClaimAgrees ==
  ASSUME RegistryInv, NEW t \in Threads, Claim(t)
  PROVE  RegistryFacts'
  <1> USE ArtifactAssumption DEF RegistryInv, RegistryFacts, ServingInv, Claim, Goto, server, disk
  <1>1. (~up => paths = {})'
    BY DEF Typed, StepsMatch
  <1>2. (\A m \in paths : file[m] = "upload" => txn # NoThread /\ path[txn] = m)'
    BY DEF Typed, StepsMatch, NamesDrawnOnce
  <1>3. (\A m \in paths : file[m] # "artifact" => \E v \in Threads : Dropping(v, m))'
    BY DEF Typed, StepsMatch, NamesDrawnOnce, Dropping, Dead
  <1>4. (\A m \in claimed : file[m] = "artifact" => \E v \in Threads : Finishing(v, m))'
    BY DEF Typed, StepsMatch, NamesDrawnOnce, Finishing, Dead
  <1> QED
    BY <1>1, <1>2, <1>3, <1>4

LEMMA PrepareAgrees ==
  ASSUME RegistryInv, NEW t \in Threads, Prepare(t)
  PROVE  RegistryFacts'
  <1> USE ArtifactAssumption DEF RegistryInv, RegistryFacts, ServingInv, Prepare, Goto, server,
       disk, registry, Present
  <1>1. (~up => paths = {})'
    BY DEF Typed, StepsMatch
  <1>2. (\A m \in paths : file[m] = "upload" => txn # NoThread /\ path[txn] = m)'
    BY DEF Typed, StepsMatch, NamesDrawnOnce
  <1>3. (\A m \in paths : file[m] # "artifact" => \E v \in Threads : Dropping(v, m))'
    BY DEF Typed, StepsMatch, NamesDrawnOnce, Dropping, Dead
  <1>4. (\A m \in claimed : file[m] = "artifact" => \E v \in Threads : Finishing(v, m))'
    BY DEF Typed, StepsMatch, NamesDrawnOnce, Finishing, Dead
  <1> QED
    BY <1>1, <1>2, <1>3, <1>4

LEMMA OpenAgrees ==
  ASSUME RegistryInv, NEW t \in Threads, Open(t)
  PROVE  RegistryFacts'
  <1> USE ArtifactAssumption DEF RegistryInv, RegistryFacts, ServingInv, Open, Goto, server,
       disk, registry
  <1>1. (~up => paths = {})'
    BY DEF Typed, StepsMatch
  <1>2. (\A m \in paths : file[m] = "upload" => txn # NoThread /\ path[txn] = m)'
    BY DEF Typed, StepsMatch, NamesDrawnOnce
  <1>3. (\A m \in paths : file[m] # "artifact" => \E v \in Threads : Dropping(v, m))'
    BY DEF Typed, StepsMatch, NamesDrawnOnce, Dropping, Dead
  <1>4. (\A m \in claimed : file[m] = "artifact" => \E v \in Threads : Finishing(v, m))'
    BY DEF Typed, StepsMatch, NamesDrawnOnce, Finishing, Dead
  <1> QED
    BY <1>1, <1>2, <1>3, <1>4

LEMMA OpenPlainAgrees ==
  ASSUME RegistryInv, NEW t \in Threads, OpenPlain(t)
  PROVE  RegistryFacts'
  <1> USE ArtifactAssumption DEF RegistryInv, RegistryFacts, ServingInv, OpenPlain, Goto, server,
       disk, registry
  <1>1. (~up => paths = {})'
    BY DEF Typed, StepsMatch
  <1>2. (\A m \in paths : file[m] = "upload" => txn # NoThread /\ path[txn] = m)'
    BY DEF Typed, StepsMatch, NamesDrawnOnce
  <1>3. (\A m \in paths : file[m] # "artifact" => \E v \in Threads : Dropping(v, m))'
    BY DEF Typed, StepsMatch, NamesDrawnOnce, Dropping, Dead
  <1>4. (\A m \in claimed : file[m] = "artifact" => \E v \in Threads : Finishing(v, m))'
    BY DEF Typed, StepsMatch, NamesDrawnOnce, Finishing, Dead
  <1> QED
    BY <1>1, <1>2, <1>3, <1>4

LEMMA FetchOpenAgrees ==
  ASSUME RegistryInv, NEW t \in Threads, FetchOpen(t)
  PROVE  RegistryFacts'
  <1> USE ArtifactAssumption DEF RegistryInv, RegistryFacts, ServingInv, FetchOpen, Goto, server,
       disk, registry
  <1>1. (~up => paths = {})'
    BY DEF Typed, StepsMatch
  <1>2. (\A m \in paths : file[m] = "upload" => txn # NoThread /\ path[txn] = m)'
    BY DEF Typed, StepsMatch, NamesDrawnOnce
  <1>3. (\A m \in paths : file[m] # "artifact" => \E v \in Threads : Dropping(v, m))'
    BY DEF Typed, StepsMatch, NamesDrawnOnce, Dropping, Dead
  <1>4. (\A m \in claimed : file[m] = "artifact" => \E v \in Threads : Finishing(v, m))'
    BY DEF Typed, StepsMatch, NamesDrawnOnce, Finishing, Dead
  <1> QED
    BY <1>1, <1>2, <1>3, <1>4

LEMMA CleanupUnlinkAgrees ==
  ASSUME RegistryInv, NEW t \in Threads, CleanupUnlink(t)
  PROVE  RegistryFacts'
  <1> USE ArtifactAssumption DEF RegistryInv, RegistryFacts, ServingInv, CleanupUnlink, Unlink,
       Goto, server, registry
  <1>1. (~up => paths = {})'
    BY DEF Typed, StepsMatch
  <1>2. (\A m \in paths : file[m] = "upload" => txn # NoThread /\ path[txn] = m)'
    BY DEF Typed, StepsMatch, NamesDrawnOnce
  <1>3. (\A m \in paths : file[m] # "artifact" => \E v \in Threads : Dropping(v, m))'
    BY DEF Typed, StepsMatch, NamesDrawnOnce, Dropping, Dead
  <1>4. (\A m \in claimed : file[m] = "artifact" => \E v \in Threads : Finishing(v, m))'
    BY DEF Typed, StepsMatch, NamesDrawnOnce, Finishing, Dead
  <1> QED
    BY <1>1, <1>2, <1>3, <1>4

LEMMA CleanupReleaseAgrees ==
  ASSUME RegistryInv, NEW t \in Threads, CleanupRelease(t)
  PROVE  RegistryFacts'
  <1> USE ArtifactAssumption DEF RegistryInv, RegistryFacts, ServingInv, CleanupRelease, Discard,
       Goto, server, disk
  <1>1. (~up => paths = {})'
    BY DEF Typed, StepsMatch
  <1>2. (\A m \in paths : file[m] = "upload" => txn # NoThread /\ path[txn] = m)'
    BY DEF Typed, StepsMatch, NamesDrawnOnce
  <1>3. (\A m \in paths : file[m] # "artifact" => \E v \in Threads : Dropping(v, m))'
    BY DEF Typed, StepsMatch, NamesDrawnOnce, Dropping, Dead
  <1>4. (\A m \in claimed : file[m] = "artifact" => \E v \in Threads : Finishing(v, m))'
    BY DEF Typed, StepsMatch, NamesDrawnOnce, Finishing, Dead
  <1> QED
    BY <1>1, <1>2, <1>3, <1>4

LEMMA DeleteAgrees ==
  ASSUME RegistryInv, NEW t \in Threads, NEW n \in Names, Delete(t, n)
  PROVE  RegistryFacts'
  <1> USE ArtifactAssumption DEF RegistryInv, RegistryFacts, ServingInv, Delete, Unlink, Goto,
       server, registry, Present
  <1>1. (~up => paths = {})'
    BY DEF Typed, StepsMatch
  <1>2. (\A m \in paths : file[m] = "upload" => txn # NoThread /\ path[txn] = m)'
    BY DEF Typed, StepsMatch, NamesDrawnOnce
  <1>3. (\A m \in paths : file[m] # "artifact" => \E v \in Threads : Dropping(v, m))'
    BY DEF Typed, StepsMatch, NamesDrawnOnce, Dropping, Dead
  <1>4. (\A m \in claimed : file[m] = "artifact" => \E v \in Threads : Finishing(v, m))'
    BY DEF Typed, StepsMatch, NamesDrawnOnce, Finishing, Dead
  <1> QED
    BY <1>1, <1>2, <1>3, <1>4

LEMMA DeleteDiscardAgrees ==
  ASSUME RegistryInv, NEW t \in Threads, DeleteDiscard(t)
  PROVE  RegistryFacts'
  <1> USE ArtifactAssumption DEF RegistryInv, RegistryFacts, ServingInv, DeleteDiscard, Discard,
       Goto, server, disk
  <1>1. (~up => paths = {})'
    BY DEF Typed, StepsMatch
  <1>2. (\A m \in paths : file[m] = "upload" => txn # NoThread /\ path[txn] = m)'
    BY DEF Typed, StepsMatch, NamesDrawnOnce
  <1>3. (\A m \in paths : file[m] # "artifact" => \E v \in Threads : Dropping(v, m))'
    BY DEF Typed, StepsMatch, NamesDrawnOnce, Dropping, Dead
  <1>4. (\A m \in claimed : file[m] = "artifact" => \E v \in Threads : Finishing(v, m))'
    BY DEF Typed, StepsMatch, NamesDrawnOnce, Finishing, Dead
  <1> QED
    BY <1>1, <1>2, <1>3, <1>4

LEMMA ClearAgrees ==
  ASSUME RegistryInv, NEW t \in Threads, Clear(t)
  PROVE  RegistryFacts'
  <1> USE ArtifactAssumption DEF RegistryInv, RegistryFacts, ServingInv, Clear, Goto, server,
       disk, registry, Present
  <1>1. (~up => paths = {})'
    BY DEF Typed, StepsMatch
  <1>2. (\A m \in paths : file[m] = "upload" => txn # NoThread /\ path[txn] = m)'
    BY DEF Typed, StepsMatch, NamesDrawnOnce
  <1>3. (\A m \in paths : file[m] # "artifact" => \E v \in Threads : Dropping(v, m))'
    BY DEF Typed, StepsMatch, NamesDrawnOnce, Dropping, Dead
  <1>4. (\A m \in claimed : file[m] = "artifact" => \E v \in Threads : Finishing(v, m))'
    BY DEF Typed, StepsMatch, NamesDrawnOnce, Finishing, Dead
  <1> QED
    BY <1>1, <1>2, <1>3, <1>4

LEMMA ClearUnlinkAgrees ==
  ASSUME RegistryInv, NEW t \in Threads, NEW n \in Names, ClearUnlink(t, n)
  PROVE  RegistryFacts'
  <1> USE ArtifactAssumption DEF RegistryInv, RegistryFacts, ServingInv, ClearUnlink, Unlink,
       server, registry
  <1>1. (~up => paths = {})'
    BY DEF Typed, StepsMatch
  <1>2. (\A m \in paths : file[m] = "upload" => txn # NoThread /\ path[txn] = m)'
    BY DEF Typed, StepsMatch, NamesDrawnOnce
  <1>3. (\A m \in paths : file[m] # "artifact" => \E v \in Threads : Dropping(v, m))'
    BY DEF Typed, StepsMatch, NamesDrawnOnce, Dropping, Dead
  <1>4. (\A m \in claimed : file[m] = "artifact" => \E v \in Threads : Finishing(v, m))'
    BY DEF Typed, StepsMatch, NamesDrawnOnce, Finishing, Dead
  <1> QED
    BY <1>1, <1>2, <1>3, <1>4

LEMMA ClearSnapshotAgrees ==
  ASSUME RegistryInv, NEW t \in Threads, ClearSnapshot(t)
  PROVE  RegistryFacts'
  <1> USE ArtifactAssumption DEF RegistryInv, RegistryFacts, ServingInv, ClearSnapshot, Goto,
       server, disk, registry
  <1>1. (~up => paths = {})'
    BY DEF Typed, StepsMatch
  <1>2. (\A m \in paths : file[m] = "upload" => txn # NoThread /\ path[txn] = m)'
    BY DEF Typed, StepsMatch, NamesDrawnOnce
  <1>3. (\A m \in paths : file[m] # "artifact" => \E v \in Threads : Dropping(v, m))'
    BY DEF Typed, StepsMatch, NamesDrawnOnce, Dropping, Dead
  <1>4. (\A m \in claimed : file[m] = "artifact" => \E v \in Threads : Finishing(v, m))'
    BY DEF Typed, StepsMatch, NamesDrawnOnce, Finishing, Dead
  <1> QED
    BY <1>1, <1>2, <1>3, <1>4

LEMMA ClearTestAgrees ==
  ASSUME RegistryInv, NEW t \in Threads, NEW n \in Names, ClearTest(t, n)
  PROVE  RegistryFacts'
  <1> USE ArtifactAssumption DEF RegistryInv, RegistryFacts, ServingInv, ClearTest, Goto, server,
       disk, registry, Present
  <1>1. (~up => paths = {})'
    BY DEF Typed, StepsMatch
  <1>2. (\A m \in paths : file[m] = "upload" => txn # NoThread /\ path[txn] = m)'
    BY DEF Typed, StepsMatch, NamesDrawnOnce
  <1>3. (\A m \in paths : file[m] # "artifact" => \E v \in Threads : Dropping(v, m))'
    BY DEF Typed, StepsMatch, NamesDrawnOnce, Dropping, Dead
  <1>4. (\A m \in claimed : file[m] = "artifact" => \E v \in Threads : Finishing(v, m))'
    BY DEF Typed, StepsMatch, NamesDrawnOnce, Finishing, Dead
  <1> QED
    BY <1>1, <1>2, <1>3, <1>4

LEMMA ClearForgetAgrees ==
  ASSUME RegistryInv, NEW t \in Threads, ClearForget(t)
  PROVE  RegistryFacts'
  <1> USE ArtifactAssumption DEF RegistryInv, RegistryFacts, ServingInv, ClearForget, Discard,
       Goto, server, disk
  <1>1. (~up => paths = {})'
    BY DEF Typed, StepsMatch
  <1>2. (\A m \in paths : file[m] = "upload" => txn # NoThread /\ path[txn] = m)'
    BY DEF Typed, StepsMatch, NamesDrawnOnce
  <1>3. (\A m \in paths : file[m] # "artifact" => \E v \in Threads : Dropping(v, m))'
    BY DEF Typed, StepsMatch, NamesDrawnOnce, Dropping, Dead
  <1>4. (\A m \in claimed : file[m] = "artifact" => \E v \in Threads : Finishing(v, m))'
    BY DEF Typed, StepsMatch, NamesDrawnOnce, Finishing, Dead
  <1> QED
    BY <1>1, <1>2, <1>3, <1>4

LEMMA ClearDoneAgrees ==
  ASSUME RegistryInv, NEW t \in Threads, ClearDone(t)
  PROVE  RegistryFacts'
  <1> USE ArtifactAssumption DEF RegistryInv, RegistryFacts, ServingInv, ClearDone, Goto, server,
       disk, registry
  <1>1. (~up => paths = {})'
    BY DEF Typed, StepsMatch
  <1>2. (\A m \in paths : file[m] = "upload" => txn # NoThread /\ path[txn] = m)'
    BY DEF Typed, StepsMatch, NamesDrawnOnce
  <1>3. (\A m \in paths : file[m] # "artifact" => \E v \in Threads : Dropping(v, m))'
    BY DEF Typed, StepsMatch, NamesDrawnOnce, Dropping, Dead
  <1>4. (\A m \in claimed : file[m] = "artifact" => \E v \in Threads : Finishing(v, m))'
    BY DEF Typed, StepsMatch, NamesDrawnOnce, Finishing, Dead
  <1> QED
    BY <1>1, <1>2, <1>3, <1>4

LEMMA UploadLinkAgrees ==
  ASSUME RegistryInv, NEW t \in Threads, NEW n \in Names, UploadLink(t, n)
  PROVE  RegistryFacts'
  <1> USE ArtifactAssumption DEF RegistryInv, RegistryFacts, ServingInv, UploadLink, Place, Goto,
       server, registry, Transaction
  <1>1. (~up => paths = {})'
    BY DEF Typed, StepsMatch
  <1>2. (\A m \in paths : file[m] = "upload" => txn # NoThread /\ path[txn] = m)'
    BY DEF Typed, StepsMatch, NamesDrawnOnce
  <1>3. (\A m \in paths : file[m] # "artifact" => \E v \in Threads : Dropping(v, m))'
    BY DEF Typed, StepsMatch, NamesDrawnOnce, Dropping, Dead
  <1>4. (\A m \in claimed : file[m] = "artifact" => \E v \in Threads : Finishing(v, m))'
    BY DEF Typed, StepsMatch, NamesDrawnOnce, Finishing, Dead
  <1> QED
    BY <1>1, <1>2, <1>3, <1>4

LEMMA UploadDoneAgrees ==
  ASSUME RegistryInv, NEW t \in Threads, UploadDone(t)
  PROVE  RegistryFacts'
  <1> USE ArtifactAssumption DEF RegistryInv, RegistryFacts, ServingInv, UploadDone, Discard,
       Goto, server, disk
  <1>1. (~up => paths = {})'
    BY DEF Typed, StepsMatch
  <1>2. (\A m \in paths : file[m] = "upload" => txn # NoThread /\ path[txn] = m)'
    BY DEF Typed, StepsMatch, NamesDrawnOnce
  <1>3. (\A m \in paths : file[m] # "artifact" => \E v \in Threads : Dropping(v, m))'
    BY DEF Typed, StepsMatch, NamesDrawnOnce, Dropping, Dead
  <1>4. (\A m \in claimed : file[m] = "artifact" => \E v \in Threads : Finishing(v, m))'
    BY DEF Typed, StepsMatch, NamesDrawnOnce, Finishing, Dead
  <1> QED
    BY <1>1, <1>2, <1>3, <1>4

LEMMA StopAgrees ==
  ASSUME RegistryInv, NEW killed \in BOOLEAN, Stop(killed)
  PROVE  RegistryFacts'
  <1> USE ArtifactAssumption DEF RegistryInv, RegistryFacts, ServingInv, Stop, Unlink, disk,
       Transaction
  <1>1. (~up => paths = {})'
    BY DEF Typed, StepsMatch
  <1>2. (\A m \in paths : file[m] = "upload" => txn # NoThread /\ path[txn] = m)'
    BY DEF Typed, StepsMatch, NamesDrawnOnce
  <1>3. (\A m \in paths : file[m] # "artifact" => \E v \in Threads : Dropping(v, m))'
    BY DEF Typed, StepsMatch, NamesDrawnOnce, Dropping, Dead
  <1>4. (\A m \in claimed : file[m] = "artifact" => \E v \in Threads : Finishing(v, m))'
    BY DEF Typed, StepsMatch, NamesDrawnOnce, Finishing, Dead
  <1> QED
    BY <1>1, <1>2, <1>3, <1>4

LEMMA StartAgrees ==
  ASSUME RegistryInv, Start
  PROVE  RegistryFacts'
  <1> USE ArtifactAssumption DEF RegistryInv, RegistryFacts, ServingInv, Start, Unlink, registry,
       Present
  <1>1. (~up => paths = {})'
    BY DEF Typed, StepsMatch
  <1>2. (\A m \in paths : file[m] = "upload" => txn # NoThread /\ path[txn] = m)'
    BY DEF Typed, StepsMatch, NamesDrawnOnce
  <1>3. (\A m \in paths : file[m] # "artifact" => \E v \in Threads : Dropping(v, m))'
    BY DEF Typed, StepsMatch, NamesDrawnOnce, Dropping, Dead
  <1>4. (\A m \in claimed : file[m] = "artifact" => \E v \in Threads : Finishing(v, m))'
    BY DEF Typed, StepsMatch, NamesDrawnOnce, Finishing, Dead
  <1> QED
    BY <1>1, <1>2, <1>3, <1>4

LEMMA StandingAgrees == ASSUME RegistryInv, UNCHANGED vars PROVE RegistryFacts'
  BY DEF vars, server, disk, registry, RegistryInv, RegistryFacts, Finishing, Dropping

LEMMA StepAgrees == ASSUME RegistryInv, [Next]_vars PROVE RegistryInv'
  <1> ServingInv'
    BY StepKeeps DEF RegistryInv
  <1>1. CASE UNCHANGED vars
    BY <1>1, StandingAgrees DEF RegistryInv
  <1>2. ASSUME NEW n \in policy.names, NEW s \in policy.sizes, Write(n, s)
        PROVE  RegistryFacts'
    <2> n \in Names
      BY ArtifactAssumption DEF RegistryInv, ServingInv, Typed
    <2> QED
      BY <1>2, WriteAgrees
  <1>3. ASSUME NEW t \in Threads, Serve(t)
        PROVE  RegistryFacts'
    BY <1>3, ResolveAgrees, InspectAgrees, ClaimAgrees, PrepareAgrees, OpenAgrees,
       OpenPlainAgrees, CleanupUnlinkAgrees, CleanupReleaseAgrees,
       FetchAgrees, FetchOpenAgrees DEF Serve
  <1>4. ASSUME NEW t \in Threads, DeleteStep(t)
        PROVE  RegistryFacts'
    BY <1>4, DeleteAgrees, ClearUnlinkAgrees, ClearTestAgrees, DeleteDiscardAgrees, ClearAgrees,
       ClearSnapshotAgrees, ClearForgetAgrees, ClearDoneAgrees DEF DeleteStep
  <1> QED
    BY <1>1, <1>2, <1>3, <1>4, AgeAgrees, UploadDoneAgrees, UploadLinkAgrees, StopAgrees,
       StartAgrees DEF Next, RegistryInv

LEMMA RegistryHolds == Spec => []RegistryInv
  <1>1. Init => RegistryInv
    BY Startup DEF Init, RegistryInv, RegistryFacts
  <1> QED
    BY <1>1, StepAgrees, PTL DEF Spec

(***************************************************************************)
(* Whatever is served, fetched, deleted, uploaded, evicted, killed and     *)
(* restarted in between, at most one response to GET or HEAD gives out a   *)
(* generated artifact, and one that was given out and is still there is    *)
(* about to be unlinked by that response: a claim is kept until then.      *)
(***************************************************************************)
THEOREM SmuggleOneShot == Spec => []OneShot
  <1>1. RegistryInv => OneShot
    <2> SUFFICES ASSUME RegistryInv, NEW n \in Names
                 PROVE  /\ opened[n] <= 1
                        /\ (up /\ opened[n] > 0 /\ file[n] = "artifact") =>
                             \E t \in Threads : path[t] = n /\ pc[t] = "unlink"
      BY DEF OneShot
    <2>1. opened[n] <= 1
      BY DEF RegistryInv, ServingInv, ServedOnce
    <2>2. ASSUME up, opened[n] > 0, file[n] = "artifact"
          PROVE  \E t \in Threads : path[t] = n /\ pc[t] = "unlink"
      <3>1. ~Dead(n)
        BY <2>2 DEF Dead
      <3>2. n \in claimed
        BY <2>2, <3>1 DEF RegistryInv, ServingInv, ServedOnce
      <3>3. PICK t \in Threads : Finishing(t, n)
        BY <2>2, <3>2 DEF RegistryInv, RegistryFacts
      <3>4. ~Serving(t, n)
        BY <2>2, <3>1 DEF RegistryInv, ServingInv, ServedOnce
      <3> QED
        BY <3>3, <3>4 DEF Finishing, Serving
    <2> QED
      BY <2>1, <2>2
  <1> QED
    BY <1>1, RegistryHolds, PTL
-----------------------------------------------------------------------------
(***************************************************************************)
(* Retention: only a publication adds a file, and it publishes when what   *)
(* it kept leaves room, in files and in bytes.                             *)
(***************************************************************************)
RetentionKept ==
  /\ IsFiniteSet(Present) /\ size \in [Names -> Nat]
  /\ Retention

RetentionInv == ServingInv /\ RetentionKept

LEMMA FewerKeepRetention ==
  ASSUME RetentionInv, policy' = policy, size' = size, Present' \subseteq Present
  PROVE  RetentionKept'
  <1>1. /\ IsFiniteSet(Present')
        /\ Cardinality(Present') <= Cardinality(Present)
        /\ Cardinality(Present) \in Nat /\ Cardinality(Present') \in Nat
    BY FS_Subset, FS_CardinalityType DEF RetentionInv, RetentionKept
  <1>2. \A n \in Present : size[n] \in Nat
    BY DEF RetentionInv, RetentionKept, Present
  <1>3. /\ SumFunctionOnSet(size, Present') \in Nat
        /\ SumFunctionOnSet(size, Present') <= SumFunctionOnSet(size, Present)
    BY <1>2, SumMonotone DEF RetentionInv, RetentionKept
  <1>4. SumFunctionOnSet(size, Present) \in Nat
    BY <1>2, SumMonotone DEF RetentionInv, RetentionKept
  <1>5. policy.files \in Nat /\ policy.bytes \in Nat
    BY ArtifactAssumption DEF RetentionInv, ServingInv, Typed
  <1> QED
    BY <1>1, <1>3, <1>4, <1>5 DEF RetentionInv, RetentionKept, Retention

\* The bytes after a publication under a name that was free.
LEMMA OneMore ==
  ASSUME NEW kept, IsFiniteSet(kept), NEW n, n \notin kept, NEW f, NEW g,
         \A m \in kept : f[m] \in Nat /\ g[m] = f[m], g[n] \in Nat
  PROVE  SumFunctionOnSet(g, kept \cup {n}) = SumFunctionOnSet(f, kept) + g[n]
  <1>1. IsFiniteSet(kept \cup {n}) /\ (kept \cup {n}) \ {n} = kept
    BY FS_AddElement
  <1>2. \A m \in kept \cup {n} : g[m] \in Int
    OBVIOUS
  <1>3. SumFunctionOnSet(g, kept \cup {n})
          = g[n] + SumFunctionOnSet(g, (kept \cup {n}) \ {n})
    BY <1>1, <1>2, SumRemove
  <1>4. SumFunctionOnSet(g, kept) = SumFunctionOnSet(f, kept)
    BY SumSame
  <1>5. SumFunctionOnSet(f, kept) \in Int
    BY SumInteger
  <1>6. SumFunctionOnSet(g, (kept \cup {n}) \ {n}) = SumFunctionOnSet(g, kept)
    BY <1>1, Zenon
  <1> HIDE <1>1, <1>2
  <1>7. SumFunctionOnSet(g, kept \cup {n}) = g[n] + SumFunctionOnSet(f, kept)
    BY <1>3, <1>4, <1>6, Zenon
  <1> QED
    BY <1>5, <1>7

LEMMA WriteKeepsRetention ==
  ASSUME RetentionInv, NEW n \in Names, NEW s \in Nat, Write(n, s)
  PROVE  RetentionKept'
  <1> DEFINE kept == Kept(Evictions(s))
  <1>1. kept \subseteq Present /\ policy' = policy
    BY DEF Write, server, Kept
  <1>2. CASE Fits(kept, s)
    <2>1. /\ Present' = kept \cup {n} /\ n \notin kept
          /\ size' = [size EXCEPT ![n] = s]
      BY <1>1, <1>2 DEF Write, Place, Present
    <2>2. IsFiniteSet(kept) /\ Cardinality(kept) \in Nat
      BY <1>1, FS_Subset, FS_CardinalityType DEF RetentionInv, RetentionKept
    <2>3. IsFiniteSet(Present') /\ Cardinality(Present') = Cardinality(kept) + 1
      BY <2>1, <2>2, FS_AddElement
    <2>4. /\ size' \in [Names -> Nat] /\ size'[n] = s
          /\ \A m \in kept : size[m] \in Nat /\ size'[m] = size[m]
      BY <1>1, <2>1 DEF RetentionInv, RetentionKept, Present
    <2> HIDE DEF kept
    <2>5. SumFunctionOnSet(size', kept \cup {n}) = SumFunctionOnSet(size, kept) + size'[n]
      <3>1. ASSUME NEW f, NEW g, g[n] \in Nat, \A m \in kept : f[m] \in Nat /\ g[m] = f[m]
            PROVE  SumFunctionOnSet(g, kept \cup {n}) = SumFunctionOnSet(f, kept) + g[n]
        BY <2>1, <2>2, <3>1, OneMore
      <3>2. size'[n] \in Nat /\ \A m \in kept : size[m] \in Nat /\ size'[m] = size[m]
        BY <2>4
      <3> QED
        BY <3>1, <3>2
    <2>6. Cardinality(kept) + 1 <= policy.files /\ SumFunctionOnSet(size, kept) + s <= policy.bytes
      BY <1>2 DEF Fits
    <2>7. Retention'
      <3>1. SumFunctionOnSet(size', Present') = SumFunctionOnSet(size, kept) + s
        BY <2>1, <2>4, <2>5, Zenon
      <3> QED
        BY <1>1, <2>3, <2>6, <3>1 DEF Retention
    <2> QED
      BY <2>3, <2>4, <2>7 DEF RetentionKept
  <1>3. CASE ~Fits(kept, s)
    <2> Present' \subseteq Present /\ size' = size
      BY <1>1, <1>3 DEF Write, Unlink, Present
    <2> QED
      BY <1>1, FewerKeepRetention
  <1> QED
    BY <1>2, <1>3

LEMMA UploadKeepsRetention ==
  ASSUME RetentionInv, NEW t \in Threads, NEW n \in Names, UploadLink(t, n)
  PROVE  RetentionKept'
  <1>1. Present' = Present \cup {n} /\ size' = [size EXCEPT ![n] = 1]
    BY DEF UploadLink, Place, Present
  <1>2. IsFiniteSet(Present') /\ size' \in [Names -> Nat]
    BY <1>1, FS_AddElement DEF RetentionInv, RetentionKept
  <1>3. policy' = policy /\ policy.reuse # {}
    BY DEF UploadLink, server
  <1> QED
    BY <1>2, <1>3 DEF RetentionKept, Retention

LEMMA StepKeepsRetention == ASSUME RetentionInv, [Next]_vars PROVE RetentionInv'
  <1> ServingInv'
    BY StepKeeps DEF RetentionInv
  <1>1. ASSUME NEW n \in policy.names, NEW s \in policy.sizes, Write(n, s)
        PROVE  RetentionKept'
    <2> n \in Names /\ s \in Nat
      BY ArtifactAssumption DEF RetentionInv, ServingInv, Typed
    <2> QED
      BY <1>1, WriteKeepsRetention
  <1>2. ASSUME NEW t \in Threads, Serve(t)
        PROVE  policy' = policy /\ size' = size /\ Present' \subseteq Present
    BY <1>2 DEF Serve, Resolve, Fetch, FetchOpen, Inspect, Claim, Prepare, Open, OpenPlain, CleanupUnlink,
       CleanupRelease, Unlink, server, disk, Present
  <1>3. ASSUME NEW t \in Threads, DeleteStep(t)
        PROVE  policy' = policy /\ size' = size /\ Present' \subseteq Present
    BY <1>3 DEF DeleteStep, Delete, ClearUnlink, ClearTest, DeleteDiscard, Clear, ClearSnapshot,
       ClearForget, ClearDone, Unlink, server, disk, Present
  <1>4. ASSUME \/ UNCHANGED vars
               \/ \E n \in Names : Age(n)
               \/ \E t \in Threads : UploadDone(t)
               \/ \E killed \in BOOLEAN : Stop(killed)
               \/ Start
        PROVE  policy' = policy /\ size' = size /\ Present' \subseteq Present
    BY <1>4 DEF vars, Age, UploadDone, Stop, Start, Unlink, server, disk, Present
  <1> QED
    BY <1>1, <1>2, <1>3, <1>4, UploadKeepsRetention, FewerKeepRetention DEF Next, RetentionInv

(***************************************************************************)
(* The registry of artifacts agrees with the directory and with the        *)
(* requests under way: no ordinary upload ever has the provenance of a     *)
(* generated artifact, every claim belongs to a response or a deletion     *)
(* that will drop it, and the limits on files and bytes hold where names   *)
(* are left to the server, whatever is claimed or stale.                   *)
(***************************************************************************)
THEOREM SmuggleRegistrySound == Spec => []RegistrySound
  <1>2. Init => RetentionInv
    <2> SUFFICES ASSUME Init PROVE RetentionKept
      BY Startup DEF RetentionInv
    <2>1. Present = {} /\ policy.files \in Nat /\ policy.bytes \in Nat /\ size \in [Names -> Nat]
      BY ArtifactAssumption DEF Init, Present
    <2> QED
      BY <2>1, FS_EmptySet, SumEmpty DEF RetentionKept, Retention
  <1>3. RegistryInv => Provenance
    BY DEF RegistryInv, RegistryFacts, Provenance, Transaction
  <1>4. RegistryInv => ClaimsOwned
    BY DEF RegistryInv, RegistryFacts, ServingInv, Typed, ClaimsOwned, Finishing, Dropping
  <1>5. RetentionInv => Retention
    BY DEF RetentionInv, RetentionKept
  <1>6. RegistryInv /\ RetentionInv => RegistrySound
    BY <1>3, <1>4, <1>5 DEF RegistrySound
  <1>8. RetentionInv /\ [Next]_vars => RetentionInv'
    BY StepKeepsRetention
  <1> QED
    BY <1>2, <1>6, <1>8, RegistryHolds, PTL DEF Spec
=============================================================================
