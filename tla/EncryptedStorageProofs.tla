----------------------- MODULE EncryptedStorageProofs -----------------------
(***************************************************************************)
(* Proofs about the encrypted storage and what is done to it from outside. *)
(*                                                                         *)
(* EncryptedStorage, for every set of ids, chunks and values and any       *)
(* sequence of outages in which no loss of power comes after a kill (with  *)
(* one that does, a completed upload can be lost: the run                  *)
(* encrypted_kill_then_power).  StorageRebind, for every finite set of     *)
(* uploads and any number of changes made behind its back: what it reports *)
(* as verified was sound at one moment.  ServerStartup, for every number of *)
(* servers, state directories, folders and uploads: a start removes no     *)
(* complete upload.                                                        *)
(***************************************************************************)
EXTENDS EncryptedStorage, StorageRebind, ServerStartup, SumProofs, SequenceTheorems

\* No power is lost after a kill.
KillsComeLast ==
  \A i, j \in DOMAIN Faults : (i < j /\ Faults[i] = "kill") => Faults[j] = "kill"

\* The values of a directory that the process, now or after the next outage, may find.
Views(log) == IF PowerAhead THEN Range(log) ELSE {Last(log)}

\* What recovery takes for a sound pair of record and data.
Sound(s, d) ==
  CASE s.status = "partial"    -> d = {"part"}
    [] s.status = "committing" -> d \in {{"part"}, {"xfr"}}
    [] s.status = "complete"   -> d = {"xfr"}
    [] OTHER                   -> TRUE

\* The same, and no data without a record.
Matches(s, d) == Sound(s, d) /\ (s.status = "none" => d = {})

Datum == {{}, {"part"}, {"xfr"}}
Content == [Chunks -> Values \cup {Blank, Torn}]
Listed == [Chunks -> Values \cup {Blank}]
Log(T) == {l \in Seq([Ids -> T]) : l # <<>>}

Kinds == {"create", "complete", "list", "chunk", "check", "delete", "reconcile"}
Removing == {"unlinkData", "unlinkState"}
Syncing == {"syncData", "syncState"}
Creating == {"syncPart", "putState", "syncNew"}
Chunking == {"syncBlob", "putState", "syncChunk"}
Publishing == {"publish", "syncRename", "putComplete", "syncComplete"}

\* Which steps an operation of each kind may be at.
StepsOfKind(k) ==
  Removing \cup Syncing
    \cup (IF k = "delete" THEN {} ELSE {"begin"})
    \cup (IF k = "create" THEN Creating ELSE {})
    \cup (IF k = "chunk" THEN Chunking ELSE {})
    \cup (IF k = "complete" THEN {"syncCommitting"} ELSE {})
    \cup (IF k \in {"complete", "reconcile"} THEN Publishing ELSE {})

OperationTyped ==
  \/ op = NoOp /\ up \in {"up", "down"}
  \/ /\ op = [kind |-> op.kind, id |-> op.id, arg |-> op.arg, victim |-> op.victim,
              step |-> op.step, todo |-> op.todo]
     /\ op.kind \in Kinds /\ op.id \in Ids /\ op.victim \in Ids /\ op.todo \subseteq Ids
     /\ op.step \in StepsOfKind(op.kind)
     /\ op.kind = "chunk" => op.arg[1] \in Chunks /\ op.arg[2] \in Values
     /\ up = IF op.kind = "reconcile" THEN "start" ELSE "up"

Typed ==
  /\ dataLog \in Log(Datum) /\ stateLog \in Log(Record)
  /\ blob \in [Ids -> Content] /\ synced \in [Ids -> Content]
  /\ crashes \in Nat /\ acked \in [Ids -> Listed]
  /\ lapsed \subseteq Ids /\ doomed \subseteq Ids
  /\ OperationTyped

\* A pair of record and data that an outage may leave: if recovery keeps it, the chunks it
\* lists are in the file and on disk, and it is kept if any of its chunks was acknowledged.
Recoverable(seen, safe, told, s, d) ==
  /\ s.status = "none" => s = NoState
  /\ s.status \in {"committing", "complete"} => \A c \in Chunks : s.chunks[c] # Blank
  /\ Sound(s, d) => \A c \in Chunks : s.chunks[c] # Blank =>
       seen[c] = s.chunks[c] /\ safe[c] = s.chunks[c]
  /\ \A c \in Chunks : told[c] # Blank => s.chunks[c] = told[c] /\ Sound(s, d)

AllRecoverable ==
  \A x \in Ids : \A s \in Views(stateLog), d \in Views(dataLog) :
    Recoverable(blob[x], synced[x], acked[x], s[x], d[x])

\* Every outcome of an outage is what the process sees.
DataSettled(x) == \A d \in Views(dataLog) : d[x] = D[x]
StateSettled(x) == \A s \in Views(stateLog) : s[x] = S[x]
Settled(x) == DataSettled(x) /\ StateSettled(x)

\* The id an operation is changing.
Busy(x) ==
  /\ op # NoOp
  /\ \/ x = op.victim /\ op.step \in Removing
     \/ x = op.victim /\ op.step \in Syncing /\ op.kind # "reconcile"
     \/ x = op.id /\ op.step \in Creating \cup Chunking \cup Publishing \cup {"syncCommitting"}

\* The others: recovery leaves those it has looked at sound, or without a record.
Quiet(x) ==
  CASE up = "down"  -> Settled(x)
    [] up = "start" -> IF x \in op.todo THEN Settled(x) ELSE S[x] = NoState \/ Matches(S[x], D[x])
    [] OTHER        -> Settled(x) /\ Matches(S[x], D[x])

\* What the steps of an operation may rely on.
RemovalFacts ==
  LET v == op.victim IN
  /\ op.step \in Removing => acked[v] = NoChunks /\ (op.kind = "reconcile" => v \notin op.todo)
  /\ op.step = "unlinkState" => D[v] = {}
  /\ (op.step \in Syncing /\ op.kind # "reconcile") => D[v] = {} /\ S[v] = NoState
  /\ (op.step \in Syncing /\ op.kind = "reconcile") =>
       op.todo = {} /\ \A x \in Ids : Matches(S[x], D[x])
  /\ op.step = "syncState" => \A x \in Ids : DataSettled(x)

CreationFacts ==
  LET a == op.id IN
  (op.kind = "create" /\ op.step \in Creating) =>
    /\ D[a] = {"part"} /\ blob[a] = NoChunks /\ synced[a] = NoChunks
    /\ op.step # "syncPart" => DataSettled(a)
    /\ op.step # "syncNew" => StateSettled(a) /\ S[a] = NoState
    /\ op.step = "syncNew" => S[a] = [status |-> "partial", chunks |-> NoChunks]

ChunkFacts ==
  LET a == op.id  c == op.arg[1]  v == op.arg[2] IN
  (op.kind = "chunk" /\ op.step \in Chunking) =>
    /\ D[a] = {"part"} /\ DataSettled(a) /\ S[a].status = "partial" /\ blob[a][c] = v
    /\ op.step # "syncChunk" => StateSettled(a) /\ S[a].chunks[c] = Blank
    /\ op.step # "syncBlob" => synced[a][c] = v
    /\ op.step = "syncChunk" => S[a].chunks[c] = v

PublicationFacts ==
  LET a == op.id IN
  /\ op.step = "syncCommitting" =>
       D[a] = {"part"} /\ DataSettled(a) /\ S[a].status = "committing"
  /\ op.step \in Publishing =>
       /\ op.kind = "reconcile" => a \notin op.todo
       /\ Matches(S[a], D[a])
       /\ S[a].status = (IF op.step = "syncComplete" THEN "complete" ELSE "committing")
       /\ op.step # "publish" => D[a] = {"xfr"}
       /\ op.step # "syncRename" => DataSettled(a)
       /\ op.step # "syncComplete" => StateSettled(a)

OperationFacts ==
  /\ \A x \in Ids : ~Busy(x) => Quiet(x)
  /\ op # NoOp => RemovalFacts /\ CreationFacts /\ ChunkFacts /\ PublicationFacts

(***************************************************************************)
(* The inductive invariant: every pair of record and data that an outage   *)
(* may leave is recoverable, and each step of an operation finds what the  *)
(* steps before it established.                                            *)
(***************************************************************************)
StorageInv == Typed /\ AllRecoverable /\ OperationFacts
-----------------------------------------------------------------------------
\* A log is never empty; what is appended to it becomes what the process sees.
LEMMA AppendFact ==
  ASSUME NEW T, NEW l \in Log(T), NEW f \in [Ids -> T]
  PROVE  /\ Append(l, f) \in Log(T) /\ Last(Append(l, f)) = f
         /\ Range(Append(l, f)) = Range(l) \cup {f}
         /\ Head(Append(l, f)) = Head(l)
  <1>1. l \in Seq([Ids -> T]) /\ l # <<>>
    BY DEF Log
  <1>2. Len(l) \in Nat /\ Len(l) > 0 /\ DOMAIN l = 1 .. Len(l)
    BY <1>1
  <1>3. /\ Append(l, f) \in Seq([Ids -> T]) /\ Len(Append(l, f)) = Len(l) + 1
        /\ Append(l, f)[Len(l) + 1] = f
        /\ \A i \in 1 .. Len(l) : Append(l, f)[i] = l[i]
        /\ DOMAIN Append(l, f) = 1 .. Len(l) + 1
    BY <1>1
  <1>4. Range(Append(l, f)) = Range(l) \cup {f}
    <2>1. ASSUME NEW i \in DOMAIN Append(l, f) PROVE Append(l, f)[i] \in Range(l) \cup {f}
      BY <1>2, <1>3 DEF Range
    <2>2. ASSUME NEW i \in DOMAIN l PROVE l[i] \in Range(Append(l, f))
      BY <1>2, <1>3 DEF Range
    <2>3. f \in Range(Append(l, f))
      BY <1>2, <1>3 DEF Range
    <2> QED
      BY <2>1, <2>2, <2>3 DEF Range
  <1>5. Head(Append(l, f)) = Head(l)
    BY <1>1, <1>2, <1>3
  <1> QED
    BY <1>1, <1>2, <1>3, <1>4, <1>5 DEF Log, Last

LEMMA LastFact ==
  ASSUME NEW T, NEW l \in Log(T)
  PROVE  /\ Last(l) \in [Ids -> T] /\ Last(l) \in Range(l) /\ Head(l) \in Range(l)
         /\ Range(l) \subseteq [Ids -> T]
  BY DEF Log, Last, Range

LEMMA SyncFact ==
  ASSUME NEW T, NEW f \in [Ids -> T]
  PROVE  <<f>> \in Log(T) /\ Last(<<f>>) = f /\ Range(<<f>>) = {f} /\ Head(<<f>>) = f
  BY DEF Log, Last, Range

\* The two directories as functions, and their views.
LEMMA ViewFacts ==
  ASSUME Typed
  PROVE  /\ D \in [Ids -> Datum] /\ S \in [Ids -> Record]
         /\ D \in Views(dataLog) /\ S \in Views(stateLog)
         /\ Views(dataLog) \subseteq [Ids -> Datum] /\ Views(stateLog) \subseteq [Ids -> Record]
  BY LastFact DEF Typed, D, S, Views

\* What a step does to a directory: nothing, a new value for one id, or an fsync.
DataKept == dataLog' \in Log(Datum) /\ D' = D /\ Views(dataLog)' = Views(dataLog)
DataPut(v, e) ==
  /\ dataLog' \in Log(Datum) /\ D' = [D EXCEPT ![v] = e]
  /\ Views(dataLog)' \subseteq Views(dataLog) \cup {D'}
DataSynced == dataLog' \in Log(Datum) /\ D' = D /\ Views(dataLog)' = {D}
StateKept == stateLog' \in Log(Record) /\ S' = S /\ Views(stateLog)' = Views(stateLog)
StatePut(v, e) ==
  /\ stateLog' \in Log(Record) /\ S' = [S EXCEPT ![v] = e]
  /\ Views(stateLog)' \subseteq Views(stateLog) \cup {S'}
StateSynced == stateLog' \in Log(Record) /\ S' = S /\ Views(stateLog)' = {S}

LEMMA DirectoryKept ==
  ASSUME Typed, crashes' = crashes
  PROVE  (dataLog' = dataLog => DataKept) /\ (stateLog' = stateLog => StateKept)
  BY DEF Typed, DataKept, StateKept, D, S, Views, PowerAhead

LEMMA DirectoryPut ==
  ASSUME Typed, crashes' = crashes, NEW v \in Ids
  PROVE  /\ \A e \in Datum : dataLog' = Put(dataLog, v, e) => DataPut(v, e)
         /\ \A e \in Record : stateLog' = Put(stateLog, v, e) => StatePut(v, e)
  <1>1. PowerAhead' <=> PowerAhead
    BY DEF PowerAhead
  <1>2. ASSUME NEW e \in Datum, dataLog' = Put(dataLog, v, e) PROVE DataPut(v, e)
    <2>1. dataLog' = Append(dataLog, [D EXCEPT ![v] = e]) /\ [D EXCEPT ![v] = e] \in [Ids -> Datum]
      BY <1>2, ViewFacts DEF Put, D
    <2>2. /\ dataLog' \in Log(Datum) /\ Last(dataLog') = [D EXCEPT ![v] = e]
          /\ Range(dataLog') = Range(dataLog) \cup {[D EXCEPT ![v] = e]}
      <3> DEFINE f == [D EXCEPT ![v] = e]
      <3>1. dataLog \in Log(Datum) /\ dataLog' = Append(dataLog, f) /\ f \in [Ids -> Datum]
        BY <2>1 DEF Typed
      <3> HIDE DEF f
      <3>2. dataLog' \in Log(Datum) /\ Last(dataLog') = f /\ Range(dataLog') = Range(dataLog) \cup {f}
        BY <3>1, AppendFact
      <3> QED
        BY <3>2 DEF f
    <2> QED
      BY <1>1, <2>2 DEF DataPut, D, Views
  <1>3. ASSUME NEW e \in Record, stateLog' = Put(stateLog, v, e) PROVE StatePut(v, e)
    <2>1. stateLog' = Append(stateLog, [S EXCEPT ![v] = e]) /\ [S EXCEPT ![v] = e] \in [Ids -> Record]
      BY <1>3, ViewFacts DEF Put, S
    <2>2. /\ stateLog' \in Log(Record) /\ Last(stateLog') = [S EXCEPT ![v] = e]
          /\ Range(stateLog') = Range(stateLog) \cup {[S EXCEPT ![v] = e]}
      <3> DEFINE f == [S EXCEPT ![v] = e]
      <3>1. stateLog \in Log(Record) /\ stateLog' = Append(stateLog, f) /\ f \in [Ids -> Record]
        BY <2>1 DEF Typed
      <3> HIDE DEF f
      <3>2. stateLog' \in Log(Record) /\ Last(stateLog') = f /\ Range(stateLog') = Range(stateLog) \cup {f}
        BY <3>1, AppendFact
      <3> QED
        BY <3>2 DEF f
    <2> QED
      BY <1>1, <2>2 DEF StatePut, S, Views
  <1> QED
    BY <1>2, <1>3

LEMMA DirectorySynced ==
  ASSUME Typed
  PROVE  /\ dataLog' = Sync(dataLog) => DataSynced
         /\ stateLog' = Sync(stateLog) => StateSynced
  <1>1. ASSUME dataLog' = Sync(dataLog) PROVE DataSynced
    BY <1>1, ViewFacts, SyncFact DEF Sync, DataSynced, D, Views
  <1>2. ASSUME stateLog' = Sync(stateLog) PROVE StateSynced
    BY <1>2, ViewFacts, SyncFact DEF Sync, StateSynced, S, Views
  <1> QED
    BY <1>1, <1>2
-----------------------------------------------------------------------------
\* An operation that goes to another of its steps.
LEMMA GotoFact ==
  ASSUME OperationTyped, op # NoOp, up' = up, NEW st \in StepsOfKind(op.kind), Goto(st)
  PROVE  /\ OperationTyped' /\ op' # NoOp /\ op'.step = st /\ op'.kind = op.kind
         /\ op'.id = op.id /\ op'.arg = op.arg /\ op'.victim = op.victim /\ op'.todo = op.todo
  BY DEF OperationTyped, Goto, NoOp, Kinds

LEMMA DoneFact ==
  ASSUME OperationTyped, op # NoOp, up' = up, op.kind # "reconcile", Done
  PROVE  OperationTyped' /\ op' = NoOp /\ up = "up"
  BY DEF OperationTyped, Done, NoOp, Kinds

\* A directory changes for one id at most.
DataStep(v) == DataKept \/ DataSynced \/ \E e \in Datum : DataPut(v, e)
StateStep(v) == StateKept \/ StateSynced \/ \E e \in Record : StatePut(v, e)

SameFor(x) ==
  /\ D'[x] = D[x] /\ S'[x] = S[x]
  /\ DataSettled(x) => DataSettled(x)'
  /\ StateSettled(x) => StateSettled(x)'

LEMMA FrameFact ==
  ASSUME Typed, NEW v \in Ids, DataStep(v), StateStep(v), NEW x \in Ids, x # v
  PROVE  SameFor(x)
  <1>1. D'[x] = D[x] /\ (DataSettled(x) => DataSettled(x)')
    BY ViewFacts DEF DataStep, DataKept, DataSynced, DataPut, DataSettled
  <1>2. S'[x] = S[x] /\ (StateSettled(x) => StateSettled(x)')
    BY ViewFacts DEF StateStep, StateKept, StateSynced, StatePut, StateSettled
  <1> QED
    BY <1>1, <1>2 DEF SameFor

\* A pair that may be left after the step is, for the other ids, one that could be left before.
LEMMA RecoverableFrame ==
  ASSUME Typed, AllRecoverable, NEW v \in Ids, DataStep(v), StateStep(v),
         \A x \in Ids : x # v => blob'[x] = blob[x] /\ synced'[x] = synced[x] /\ acked'[x] = acked[x],
         \A s \in Views(stateLog)', d \in Views(dataLog)' :
           Recoverable(blob'[v], synced'[v], acked'[v], s[v], d[v])
  PROVE  AllRecoverable'
  <1> SUFFICES ASSUME NEW x \in Ids, x # v, NEW s \in Views(stateLog)', NEW d \in Views(dataLog)'
               PROVE  Recoverable(blob'[x], synced'[x], acked'[x], s[x], d[x])
    BY DEF AllRecoverable
  <1>1. \E s0 \in Views(stateLog) : s0[x] = s[x]
    BY ViewFacts DEF StateStep, StateKept, StateSynced, StatePut
  <1>2. \E d0 \in Views(dataLog) : d0[x] = d[x]
    BY ViewFacts DEF DataStep, DataKept, DataSynced, DataPut
  <1> QED
    BY <1>1, <1>2 DEF AllRecoverable

\* An id the step leaves alone stays as quiet as it was.
LEMMA QuietFact ==
  ASSUME NEW x \in Ids, SameFor(x), up' = up, up = "start" => op'.todo = op.todo, Quiet(x)
  PROVE  Quiet(x)'
  BY DEF SameFor, Quiet, Settled
-----------------------------------------------------------------------------
\* Steps that store nothing and acknowledge nothing.
NothingStored == UNCHANGED <<diskVars, crashes, acked>>

LEMMA NothingStoredFact ==
  ASSUME Typed, AllRecoverable, NothingStored
  PROVE  /\ AllRecoverable' /\ DataKept /\ StateKept /\ D' = D /\ S' = S
         /\ \A x \in Ids : SameFor(x) /\ (DataSettled(x) <=> DataSettled(x)')
                             /\ (StateSettled(x) <=> StateSettled(x)')
  <1>1. DataKept /\ StateKept
    BY DirectoryKept DEF NothingStored, diskVars
  <1>2. AllRecoverable'
    BY <1>1 DEF AllRecoverable, DataKept, StateKept, NothingStored, diskVars
  <1> QED
    BY <1>1, <1>2 DEF DataKept, StateKept, SameFor, DataSettled, StateSettled

\* The lock is taken, and the operation begins.
LEMMA BeginKeeps ==
  ASSUME StorageInv, NEW kind \in Kinds \ {"delete", "reconcile"}, NEW x \in Ids, NEW arg,
         kind = "chunk" => arg[1] \in Chunks /\ arg[2] \in Values, Begin(kind, x, arg)
  PROVE  StorageInv'
  <1> USE DEF StorageInv
  <1>1. /\ op = NoOp /\ up = "up" /\ up' = "up" /\ NothingStored
        /\ op' = [kind |-> kind, id |-> x, arg |-> arg, victim |-> x, step |-> "begin", todo |-> {}]
        /\ op' # NoOp
    BY DEF Begin, NothingStored, diskVars, NoOp, Kinds
  <1>2. AllRecoverable' /\ \A y \in Ids : SameFor(y)
    BY <1>1, NothingStoredFact
  <1>3. OperationTyped'
    BY <1>1 DEF OperationTyped, StepsOfKind, Kinds
  <1>4. Typed'
    BY <1>3 DEF Typed, Begin, diskVars
  <1>5. \A y \in Ids : Quiet(y)'
    BY <1>1, <1>2, QuietFact DEF OperationFacts, Busy
  <1>6. OperationFacts'
    BY <1>1, <1>5 DEF OperationFacts, RemovalFacts, CreationFacts, ChunkFacts, PublicationFacts,
                      Removing, Syncing, Creating, Chunking, Publishing
  <1> QED
    BY <1>2, <1>4, <1>6

LEMMA ExpireKeeps ==
  ASSUME StorageInv, NEW x \in Ids, Expire(x)
  PROVE  StorageInv'
  <1> USE DEF StorageInv
  <1>1. /\ op # NoOp /\ op.step = "begin" /\ op.kind # "reconcile" /\ op.kind \in Kinds
        /\ up' = up /\ up = "up" /\ UNCHANGED <<diskVars, crashes>>
    BY DEF Expire, Typed, OperationTyped
  <1>2. /\ op' = [op EXCEPT !.victim = x, !.step = "unlinkData"]
        /\ acked' = [acked EXCEPT ![x] = NoChunks] /\ doomed' = doomed \cup {x}
    BY DEF Expire, Doom
  <1>3. /\ OperationTyped' /\ op' # NoOp /\ op'.victim = x /\ op'.step = "unlinkData"
        /\ op'.kind = op.kind /\ op'.todo = op.todo
    BY <1>1, <1>2 DEF Typed, OperationTyped, StepsOfKind, Kinds, NoOp, Removing
  <1>4. acked' \in [Ids -> Listed] /\ acked'[x] = NoChunks
    BY <1>2 DEF Typed, Listed, NoChunks
  <1>5. Typed'
    BY <1>1, <1>2, <1>3, <1>4 DEF Typed, diskVars, Expire
  <1>6. DataKept /\ StateKept /\ \A y \in Ids : SameFor(y)
    BY <1>1, DirectoryKept DEF diskVars, SameFor, DataSettled, StateSettled, DataKept, StateKept
  <1>7. AllRecoverable'
    BY <1>1, <1>2, <1>4, <1>6 DEF AllRecoverable, Recoverable, NoChunks, DataKept, StateKept, diskVars, Typed
  <1>8. \A y \in Ids : Quiet(y)'
    BY <1>1, <1>3, <1>6, QuietFact DEF OperationFacts, Busy, Removing, Syncing, Creating, Chunking, Publishing
  <1>9. OperationFacts'
    BY <1>3, <1>4, <1>1, <1>8 DEF OperationFacts, RemovalFacts, CreationFacts, ChunkFacts, PublicationFacts,
                      Removing, Syncing, Creating, Chunking, Publishing
  <1> QED
    BY <1>5, <1>7, <1>9

\* The data file goes: nothing of it was acknowledged.
LEMMA UnlinkDataKeeps ==
  ASSUME StorageInv, UnlinkData
  PROVE  StorageInv'
  <1> USE DEF StorageInv
  <1> DEFINE v == op.victim
  <1>1. /\ op # NoOp /\ op.step = "unlinkData" /\ v \in Ids /\ op.kind \in Kinds
        /\ UNCHANGED <<up, stateLog, blob, synced, crashes, acked>> /\ Goto("unlinkState")
        /\ "unlinkState" \in StepsOfKind(op.kind)
    BY DEF UnlinkData, Typed, OperationTyped, NoOp, StepsOfKind, Removing
  <1>2. /\ OperationTyped' /\ op' # NoOp /\ op'.step = "unlinkState" /\ op'.kind = op.kind
        /\ op'.id = op.id /\ op'.victim = op.victim /\ op'.todo = op.todo
    BY <1>1, GotoFact DEF Typed
  <1>3. DataPut(v, {}) /\ StateKept
    BY <1>1, DirectoryPut, DirectoryKept DEF UnlinkData, Datum
  <1>4. Typed'
    BY <1>1, <1>2, <1>3 DEF Typed, UnlinkData, DataPut
  <1>5. \A y \in Ids : y # v => SameFor(y)
    BY <1>1, <1>3, FrameFact DEF DataStep, StateStep, Datum
  <1>6. acked[v] = NoChunks
    BY <1>1 DEF OperationFacts, RemovalFacts, Removing
  <1>7. AllRecoverable'
    <2>1. ASSUME NEW s \in Views(stateLog)', NEW d \in Views(dataLog)'
          PROVE  Recoverable(blob[v], synced[v], acked[v], s[v], d[v])
      <3>1. s \in Views(stateLog) /\ s[v] \in Record
        BY <1>1, <1>3, ViewFacts DEF StateKept
      <3>2. CASE d \in Views(dataLog)
        BY <1>1, <3>1, <3>2 DEF AllRecoverable
      <3>3. CASE d = D'
        <4>1. d[v] = {}
          BY <1>1, <1>3, <3>3, ViewFacts DEF DataPut
        <4>2. D \in Views(dataLog)
          BY ViewFacts
        <4> QED
          BY <1>1, <1>6, <3>1, <4>1, <4>2 DEF AllRecoverable, Recoverable, Sound, NoChunks, NoState, Record
      <3> QED
        BY <1>3, <3>2, <3>3 DEF DataPut
    <2> QED
      BY <1>1, <1>3, <2>1, RecoverableFrame DEF DataStep, StateStep, Datum
  <1>8. \A y \in Ids : ~Busy(y)' => Quiet(y)'
    BY <1>1, <1>2, <1>5, QuietFact DEF OperationFacts, Busy, Removing, Syncing, Creating, Chunking, Publishing
  <1>9. D'[v] = {}
    BY <1>1, <1>3, ViewFacts DEF DataPut
  <1>10. OperationFacts'
    BY <1>1, <1>2, <1>6, <1>8, <1>9 DEF OperationFacts, RemovalFacts, CreationFacts, ChunkFacts, PublicationFacts,
                      Removing, Syncing, Creating, Chunking, Publishing
  <1> QED
    BY <1>4, <1>7, <1>10
\* Fewer outcomes of the same outages are as recoverable.
LEMMA FewerViews ==
  ASSUME AllRecoverable, UNCHANGED <<blob, synced, acked>>,
         Views(dataLog)' \subseteq Views(dataLog), Views(stateLog)' \subseteq Views(stateLog)
  PROVE  AllRecoverable'
  BY DEF AllRecoverable

LEMMA UnlinkStateKeeps ==
  ASSUME StorageInv, UnlinkState
  PROVE  StorageInv'
  <1> USE DEF StorageInv
  <1> DEFINE st == IF op.kind = "reconcile" THEN "begin" ELSE "syncData"
  <1>0. PICK v \in Ids : v = op.victim
    BY DEF UnlinkState, Typed, OperationTyped
  <1>1. /\ op # NoOp /\ op.step = "unlinkState" /\ op.kind \in Kinds
        /\ UNCHANGED <<up, dataLog, blob, synced, crashes, acked, doomed>> /\ Goto(st)
        /\ lapsed' \subseteq Ids /\ st \in StepsOfKind(op.kind)
    BY DEF UnlinkState, Typed, OperationTyped, NoOp, StepsOfKind, Syncing
  <1>2. /\ OperationTyped' /\ op' # NoOp /\ op'.step = st /\ op'.kind = op.kind
        /\ op'.id = op.id /\ op'.victim = op.victim /\ op'.todo = op.todo
    BY <1>0, <1>1, GotoFact DEF Typed
  <1>3. NoState \in Record
    BY DEF NoState, Record, NoChunks
  <1>4. StatePut(v, NoState) /\ DataKept
    BY <1>0, <1>1, <1>3, DirectoryPut, DirectoryKept DEF UnlinkState
  <1>5. Typed'
    BY <1>0, <1>1, <1>2, <1>4 DEF Typed, StatePut
  <1>6. \A y \in Ids : y # v => SameFor(y)
    BY <1>0, <1>1, <1>3, <1>4, FrameFact DEF DataStep, StateStep
  <1>7. acked[v] = NoChunks /\ D[v] = {} /\ (op.kind = "reconcile" => v \notin op.todo)
    BY <1>0, <1>1 DEF OperationFacts, RemovalFacts, Removing
  <1>8. AllRecoverable'
    <2>1. ASSUME NEW s \in Views(stateLog)', NEW d \in Views(dataLog)'
          PROVE  Recoverable(blob[v], synced[v], acked[v], s[v], d[v])
      <3>1. d \in Views(dataLog)
        BY <1>4 DEF DataKept
      <3>2. CASE s \in Views(stateLog)
        BY <1>0, <1>1, <3>1, <3>2 DEF AllRecoverable
      <3>3. CASE s = S'
        <4>1. s[v] = NoState
          BY <1>0, <1>1, <1>4, <3>3, ViewFacts DEF StatePut
        <4> QED
          BY <1>7, <4>1 DEF Recoverable, NoChunks, NoState
      <3> QED
        BY <1>4, <3>2, <3>3 DEF StatePut
    <2> QED
      BY <1>0, <1>1, <1>3, <1>4, <2>1, RecoverableFrame DEF DataStep, StateStep
  <1>9. D'[v] = {} /\ S'[v] = NoState
    BY <1>0, <1>1, <1>4, <1>7, ViewFacts DEF StatePut, DataKept
  <1>10. \A y \in Ids : ~Busy(y)' => Quiet(y)'
    <2>1. ASSUME NEW y \in Ids, y # v, ~Busy(y)' PROVE Quiet(y)'
      BY <1>0, <1>1, <1>2, <1>6, <2>1, QuietFact DEF OperationFacts, Busy, Removing, Syncing, Creating, Chunking, Publishing
    <2>2. ASSUME ~Busy(v)' PROVE Quiet(v)'
      <3>1. op.kind = "reconcile" /\ up' = "start" /\ v \notin op'.todo
        BY <1>0, <1>1, <1>2, <1>7, <2>2 DEF Busy, Syncing, Typed, OperationTyped
      <3> QED
        BY <1>9, <3>1 DEF Quiet
    <2> QED
      BY <2>1, <2>2
  <1>11. OperationFacts'
    BY <1>0, <1>2, <1>9, <1>10 DEF OperationFacts, RemovalFacts, CreationFacts, ChunkFacts, PublicationFacts,
                      Removing, Syncing, Creating, Chunking, Publishing
  <1> QED
    BY <1>5, <1>8, <1>11

LEMMA SyncDataKeeps ==
  ASSUME StorageInv, SyncData
  PROVE  StorageInv'
  <1> USE DEF StorageInv
  <1> DEFINE v == op.victim
  <1>1. /\ op # NoOp /\ op.step = "syncData" /\ v \in Ids /\ op.kind \in Kinds
        /\ UNCHANGED <<up, stateLog, blob, synced, lapsed, crashes, acked, doomed>> /\ Goto("syncState")
        /\ "syncState" \in StepsOfKind(op.kind)
    BY DEF SyncData, Typed, OperationTyped, NoOp, StepsOfKind, Syncing
  <1>2. /\ OperationTyped' /\ op' # NoOp /\ op'.step = "syncState" /\ op'.kind = op.kind
        /\ op'.id = op.id /\ op'.victim = op.victim /\ op'.todo = op.todo
    BY <1>1, GotoFact DEF Typed
  <1>3. DataSynced /\ StateKept
    BY <1>1, DirectorySynced, DirectoryKept DEF SyncData
  <1>4. Typed'
    BY <1>1, <1>2, <1>3 DEF Typed, DataSynced
  <1>5. AllRecoverable'
    BY <1>1, <1>3, FewerViews, ViewFacts DEF DataSynced, StateKept
  <1>6. \A y \in Ids : SameFor(y) /\ DataSettled(y)'
    BY <1>3 DEF SameFor, DataSettled, StateSettled, DataSynced, StateKept
  <1>7. \A y \in Ids : ~Busy(y)' => Quiet(y)'
    BY <1>1, <1>2, <1>6, QuietFact DEF OperationFacts, Busy, Removing, Syncing, Creating, Chunking, Publishing
  <1>8. OperationFacts'
    BY <1>1, <1>2, <1>6, <1>7 DEF OperationFacts, RemovalFacts, CreationFacts, ChunkFacts, PublicationFacts,
                      Removing, Syncing, Creating, Chunking, Publishing, SameFor
  <1> QED
    BY <1>4, <1>5, <1>8

\* The removal, or the recovery, is over.
LEMMA SyncStateKeeps ==
  ASSUME StorageInv, SyncState
  PROVE  StorageInv'
  <1> USE DEF StorageInv
  <1> DEFINE v == op.victim
  <1>1. /\ op # NoOp /\ op.step = "syncState" /\ v \in Ids /\ op.kind \in Kinds
        /\ UNCHANGED <<dataLog, blob, synced, lapsed, crashes, acked>>
        /\ up' = "up" /\ doomed' = {}
    BY DEF SyncState, Typed, OperationTyped, NoOp
  <1>2. /\ OperationTyped'
        /\ op' # NoOp => op'.step = "begin"
    <2>1. CASE op.kind = "delete"
      BY <1>1, <2>1 DEF SyncState, OperationTyped, Done
    <2>2. CASE op.kind = "reconcile"
      <3>1. op' = [op EXCEPT !.kind = "list", !.step = "begin"]
        BY <2>2 DEF SyncState
      <3> QED
        BY <1>1, <2>2, <3>1 DEF Typed, OperationTyped, NoOp, StepsOfKind, Kinds
    <2>3. CASE op.kind \notin {"delete", "reconcile"}
      <3>1. Goto("begin") /\ "begin" \in StepsOfKind(op.kind) /\ up' = up
        BY <1>1, <2>3 DEF SyncState, Typed, OperationTyped, StepsOfKind
      <3> QED
        BY <1>1, <3>1, GotoFact DEF Typed
    <2> QED
      BY <2>1, <2>2, <2>3
  <1>3. DataKept /\ StateSynced
    BY <1>1, DirectorySynced, DirectoryKept DEF SyncState
  <1>4. Typed'
    BY <1>1, <1>2, <1>3 DEF Typed, StateSynced
  <1>5. AllRecoverable'
    BY <1>1, <1>3, FewerViews, ViewFacts DEF DataKept, StateSynced
  <1>6. \A y \in Ids : DataSettled(y) /\ Matches(S[y], D[y])
    <2>1. \A y \in Ids : DataSettled(y)
      BY <1>1 DEF OperationFacts, RemovalFacts
    <2>2. CASE op.kind = "reconcile"
      BY <1>1, <2>1, <2>2 DEF OperationFacts, RemovalFacts, Syncing
    <2>3. CASE op.kind # "reconcile"
      <3>1. up = "up" /\ D[v] = {} /\ S[v] = NoState
        BY <1>1, <2>3 DEF OperationFacts, RemovalFacts, Syncing, Typed, OperationTyped
      <3>2. Matches(S[v], D[v])
        BY <3>1 DEF Matches, Sound, NoState
      <3>3. ASSUME NEW y \in Ids, y # v PROVE Matches(S[y], D[y])
        BY <1>1, <2>3, <3>1, <3>3 DEF OperationFacts, Busy, Quiet, Removing, Syncing, Creating, Chunking, Publishing
      <3> QED
        BY <2>1, <3>2, <3>3
    <2> QED
      BY <2>2, <2>3
  <1>7. \A y \in Ids : Quiet(y)'
    BY <1>1, <1>3, <1>6 DEF Quiet, Settled, DataSettled, StateSettled, DataKept, StateSynced
  <1>8. OperationFacts'
    BY <1>2, <1>7 DEF OperationFacts, RemovalFacts, CreationFacts, ChunkFacts, PublicationFacts,
                      Removing, Syncing, Creating, Chunking, Publishing
  <1> QED
    BY <1>4, <1>5, <1>8
-----------------------------------------------------------------------------
\* An operation returns: all it knows is that no id is left half changed.
LEMMA ReturnKeeps ==
  ASSUME StorageInv, op # NoOp, op.kind # "reconcile", Done, up' = up, lapsed' \subseteq Ids,
         doomed' \subseteq Ids, NothingStored, \A x \in Ids : Quiet(x)
  PROVE  StorageInv'
  <1> USE DEF StorageInv
  <1>1. OperationTyped' /\ op' = NoOp /\ up = "up"
    BY DoneFact DEF Typed
  <1>2. AllRecoverable' /\ \A x \in Ids : SameFor(x)
    BY NothingStoredFact
  <1>3. Typed'
    BY <1>1 DEF Typed, NothingStored, diskVars
  <1>4. \A x \in Ids : Quiet(x)'
    BY <1>1, <1>2, QuietFact
  <1> QED
    BY <1>1, <1>2, <1>3, <1>4 DEF OperationFacts

\* Before its own work starts, an operation has changed nothing.
LEMMA ReadyFact ==
  ASSUME StorageInv, NEW kind \in Kinds, At(kind, "begin")
  PROVE  /\ op # NoOp /\ op.kind = kind /\ op.id \in Ids /\ op.victim \in Ids
         /\ \A x \in Ids : Quiet(x)
         /\ kind # "reconcile" => up = "up" /\ \A x \in Ids : Settled(x) /\ Matches(S[x], D[x])
  <1>1. op # NoOp /\ op.kind = kind /\ op.step = "begin"
    BY DEF At
  <1>2. op.id \in Ids /\ op.victim \in Ids /\ (kind # "reconcile" => up = "up")
    BY <1>1 DEF StorageInv, Typed, OperationTyped
  <1>3. \A x \in Ids : Quiet(x)
    BY <1>1 DEF StorageInv, OperationFacts, Busy, Removing, Syncing, Creating, Chunking, Publishing
  <1> QED
    BY <1>1, <1>2, <1>3 DEF Quiet

LEMMA LookKeeps ==
  ASSUME StorageInv, CheckResult \/ ListFiles \/ CreateExisting \/ CompleteRefused
  PROVE  StorageInv'
  <1>1. PICK kind \in {"check", "list", "create", "complete"} : At(kind, "begin")
    BY DEF CheckResult, ListFiles, CreateExisting, CompleteRefused, Ready
  <1>2. op # NoOp /\ op.kind # "reconcile" /\ \A x \in Ids : Quiet(x)
    BY <1>1, ReadyFact DEF Kinds
  <1>3. Done /\ up' = up /\ NothingStored /\ UNCHANGED <<lapsed, doomed>>
    BY DEF CheckResult, ListFiles, CreateExisting, CompleteRefused, NothingStored
  <1>4. lapsed' \subseteq Ids /\ doomed' \subseteq Ids
    BY <1>3 DEF StorageInv, Typed
  <1> QED
    BY <1>2, <1>3, <1>4, ReturnKeeps

\* An error between two renames leaves a record and data that agree.
LEMMA OperationFailsKeeps ==
  ASSUME StorageInv, OperationFails
  PROVE  StorageInv'
  <1> USE DEF StorageInv
  <1> DEFINE a == op.id
  <1>1. /\ op # NoOp /\ op.kind \in {"chunk", "complete"} /\ a \in Ids /\ up = "up"
        /\ op.kind = "chunk" => op.step = "putState"
        /\ op.kind = "complete" => op.step \in {"publish", "putComplete"}
    BY DEF OperationFails, At, Typed, OperationTyped
  <1>2. Done /\ up' = up /\ NothingStored /\ lapsed' \subseteq Ids /\ doomed' \subseteq Ids
    BY DEF OperationFails, NothingStored, Typed
  <1>3. ASSUME NEW x \in Ids, x # a PROVE Quiet(x)
    BY <1>1, <1>3 DEF OperationFacts, Busy, Removing, Syncing
  <1>4. Settled(a) /\ Matches(S[a], D[a])
    <2>1. CASE op.kind = "chunk"
      BY <1>1, <2>1 DEF OperationFacts, ChunkFacts, Chunking, Settled, Matches, Sound
    <2>2. CASE op.kind = "complete"
      BY <1>1, <2>2 DEF OperationFacts, PublicationFacts, Publishing, Settled
    <2> QED
      BY <1>1, <2>1, <2>2
  <1>5. Quiet(a)
    BY <1>1, <1>4 DEF Quiet
  <1> QED
    BY <1>1, <1>2, <1>3, <1>5, ReturnKeeps
-----------------------------------------------------------------------------
\* create()
LEMMA CreatePartKeeps ==
  ASSUME StorageInv, CreatePart
  PROVE  StorageInv'
  <1> USE DEF StorageInv
  <1>0. PICK a \in Ids : a = op.id
    BY DEF CreatePart, Ready, At, Typed, OperationTyped
  <1>1. /\ op # NoOp /\ op.kind = "create" /\ S[a] = NoState /\ D[a] = {}
        /\ UNCHANGED <<up, stateLog, lapsed, crashes, acked, doomed>> /\ Goto("syncPart")
        /\ blob' = [blob EXCEPT ![a] = NoChunks] /\ synced' = [synced EXCEPT ![a] = NoChunks]
        /\ "syncPart" \in StepsOfKind(op.kind)
    BY <1>0 DEF CreatePart, Ready, At, StepsOfKind, Creating
  <1>2. /\ OperationTyped' /\ op' # NoOp /\ op'.step = "syncPart" /\ op'.kind = op.kind
        /\ op'.id = op.id /\ op'.victim = op.victim /\ op'.todo = op.todo
    BY <1>1, GotoFact DEF Typed
  <1>3. DataPut(a, {"part"}) /\ StateKept
    BY <1>0, <1>1, DirectoryPut, DirectoryKept DEF CreatePart, Datum
  <1>4. NoChunks \in Content
    BY DEF NoChunks, Content
  <1>5. Typed'
    BY <1>1, <1>2, <1>3, <1>4 DEF Typed, DataPut
  <1>6. \A y \in Ids : y # a => SameFor(y)
    BY <1>3, FrameFact DEF DataStep, StateStep, Datum
  <1>7. up = "up" /\ \A y \in Ids : Quiet(y) /\ Settled(y)
    BY ReadyFact DEF CreatePart, Ready, Kinds
  <1>8. AllRecoverable'
    <2>1. ASSUME NEW s \in Views(stateLog)', NEW d \in Views(dataLog)'
          PROVE  Recoverable(blob'[a], synced'[a], acked'[a], s[a], d[a])
      <3>1. s \in Views(stateLog) /\ s[a] = NoState
        BY <1>1, <1>3, <1>7 DEF StateKept, Settled, StateSettled
      <3>2. \A c \in Chunks : acked[a][c] = Blank
        BY <1>1, ViewFacts DEF AllRecoverable, Recoverable, NoState, NoChunks
      <3> QED
        BY <1>1, <3>1, <3>2 DEF Recoverable, NoState, NoChunks
    <2> QED
      BY <1>1, <1>3, <2>1, RecoverableFrame DEF DataStep, StateStep, Datum, Typed
  <1>9. D'[a] = {"part"} /\ S'[a] = NoState /\ StateSettled(a)' /\ blob'[a] = NoChunks /\ synced'[a] = NoChunks
    BY <1>1, <1>3, <1>7, ViewFacts DEF DataPut, StateKept, Settled, StateSettled, Typed
  <1>10. \A y \in Ids : ~Busy(y)' => Quiet(y)'
    BY <1>0, <1>1, <1>2, <1>6, <1>7, QuietFact DEF Busy, Creating
  <1>11. OperationFacts'
    BY <1>0, <1>1, <1>2, <1>9, <1>10 DEF OperationFacts, RemovalFacts, CreationFacts, ChunkFacts, PublicationFacts,
                      Removing, Syncing, Creating, Chunking, Publishing
  <1> QED
    BY <1>5, <1>8, <1>11
LEMMA CreateSyncPartKeeps ==
  ASSUME StorageInv, CreateSyncPart
  PROVE  StorageInv'
  <1> USE DEF StorageInv
  <1>0. PICK a \in Ids : a = op.id
    BY DEF CreateSyncPart, At, Typed, OperationTyped
  <1>1. /\ op # NoOp /\ op.kind = "create" /\ op.step = "syncPart"
        /\ UNCHANGED <<up, stateLog, blob, synced, lapsed, crashes, acked, doomed>> /\ Goto("putState")
        /\ "putState" \in StepsOfKind(op.kind)
    BY DEF CreateSyncPart, At, StepsOfKind, Creating
  <1>2. /\ OperationTyped' /\ op' # NoOp /\ op'.step = "putState" /\ op'.kind = op.kind
        /\ op'.id = op.id /\ op'.victim = op.victim /\ op'.todo = op.todo
    BY <1>1, GotoFact DEF Typed
  <1>3. DataSynced /\ StateKept
    BY <1>1, DirectorySynced, DirectoryKept DEF CreateSyncPart
  <1>4. Typed'
    BY <1>1, <1>2, <1>3 DEF Typed, DataSynced
  <1>5. AllRecoverable'
    BY <1>1, <1>3, FewerViews, ViewFacts DEF DataSynced, StateKept
  <1>6. \A y \in Ids : SameFor(y) /\ DataSettled(y)'
    BY <1>3 DEF SameFor, DataSettled, StateSettled, DataSynced, StateKept
  <1>7. \A y \in Ids : ~Busy(y)' => Quiet(y)'
    BY <1>1, <1>2, <1>6, QuietFact DEF OperationFacts, Busy, Removing, Syncing, Creating, Chunking, Publishing
  <1>8. OperationFacts'
    BY <1>0, <1>1, <1>2, <1>6, <1>7 DEF OperationFacts, RemovalFacts, CreationFacts, ChunkFacts, PublicationFacts,
                      Removing, Syncing, Creating, Chunking, Publishing, SameFor
  <1> QED
    BY <1>4, <1>5, <1>8

LEMMA CreateStateKeeps ==
  ASSUME StorageInv, CreateState
  PROVE  StorageInv'
  <1> USE DEF StorageInv
  <1> DEFINE new == [status |-> "partial", chunks |-> NoChunks]
  <1>0. PICK a \in Ids : a = op.id
    BY DEF CreateState, At, Typed, OperationTyped
  <1>1. /\ op # NoOp /\ op.kind = "create" /\ op.step = "putState"
        /\ UNCHANGED <<up, dataLog, blob, synced, lapsed, crashes, acked, doomed>> /\ Goto("syncNew")
        /\ "syncNew" \in StepsOfKind(op.kind)
    BY DEF CreateState, At, StepsOfKind, Creating
  <1>2. /\ OperationTyped' /\ op' # NoOp /\ op'.step = "syncNew" /\ op'.kind = op.kind
        /\ op'.id = op.id /\ op'.victim = op.victim /\ op'.todo = op.todo
    BY <1>1, GotoFact DEF Typed
  <1>3. new \in Record
    BY DEF Record, NoChunks
  <1>4. StatePut(a, new) /\ DataKept
    BY <1>0, <1>1, <1>3, DirectoryPut, DirectoryKept DEF CreateState, WriteState
  <1>5. Typed'
    BY <1>1, <1>2, <1>4 DEF Typed, StatePut
  <1>6. \A y \in Ids : y # a => SameFor(y)
    BY <1>3, <1>4, FrameFact DEF DataStep, StateStep
  <1>7. /\ S[a] = NoState /\ StateSettled(a) /\ D[a] = {"part"} /\ DataSettled(a)
        /\ blob[a] = NoChunks /\ synced[a] = NoChunks
    BY <1>0, <1>1 DEF OperationFacts, CreationFacts, Creating
  <1>8. AllRecoverable'
    <2>1. ASSUME NEW s \in Views(stateLog)', NEW d \in Views(dataLog)'
          PROVE  Recoverable(blob'[a], synced'[a], acked'[a], s[a], d[a])
      <3>1. d \in Views(dataLog) /\ d[a] = {"part"}
        BY <1>4, <1>7 DEF DataKept, DataSettled
      <3>2. \A c \in Chunks : acked[a][c] = Blank
        BY <1>7, ViewFacts DEF AllRecoverable, Recoverable, NoState, NoChunks
      <3>3. CASE s \in Views(stateLog)
        BY <1>1, <3>1, <3>3 DEF AllRecoverable
      <3>4. CASE s = S'
        <4>1. s[a] = new
          BY <1>4, <3>4, ViewFacts DEF StatePut
        <4> QED
          BY <1>1, <3>1, <3>2, <4>1 DEF Recoverable, NoChunks, Sound
      <3> QED
        BY <1>4, <3>3, <3>4 DEF StatePut
    <2> QED
      BY <1>1, <1>3, <1>4, <2>1, RecoverableFrame DEF DataStep, StateStep
  <1>9. /\ D'[a] = {"part"} /\ S'[a] = new /\ DataSettled(a)'
        /\ blob'[a] = NoChunks /\ synced'[a] = NoChunks
    BY <1>1, <1>4, <1>7, ViewFacts DEF StatePut, DataKept, DataSettled
  <1>10. \A y \in Ids : ~Busy(y)' => Quiet(y)'
    BY <1>0, <1>1, <1>2, <1>6, QuietFact DEF OperationFacts, Busy, Creating, Removing, Syncing, Chunking, Publishing
  <1>11. OperationFacts'
    BY <1>0, <1>1, <1>2, <1>9, <1>10 DEF OperationFacts, RemovalFacts, CreationFacts, ChunkFacts, PublicationFacts,
                      Removing, Syncing, Creating, Chunking, Publishing
  <1> QED
    BY <1>5, <1>8, <1>11

LEMMA CreateFailsKeeps ==
  ASSUME StorageInv, CreateFails
  PROVE  StorageInv'
  <1> USE DEF StorageInv
  <1>0. PICK a \in Ids : a = op.id
    BY DEF CreateFails, Typed, OperationTyped
  <1>1. /\ op # NoOp /\ op.kind = "create" /\ op.step \in Creating
        /\ up' = up /\ up = "up" /\ UNCHANGED <<diskVars, lapsed, crashes>>
        /\ op' = [op EXCEPT !.kind = "delete", !.arg = "undo", !.victim = op.id, !.step = "unlinkData"]
        /\ acked' = [acked EXCEPT ![a] = NoChunks] /\ doomed' = doomed \cup {a}
    BY <1>0 DEF CreateFails, Creating, Doom, Typed, OperationTyped
  <1>2. /\ OperationTyped' /\ op' # NoOp /\ op'.victim = a /\ op'.step = "unlinkData"
        /\ op'.kind = "delete"
    BY <1>0, <1>1 DEF Typed, OperationTyped, StepsOfKind, Kinds, NoOp, Removing
  <1>3. acked' \in [Ids -> Listed] /\ acked'[a] = NoChunks
    BY <1>1 DEF Typed, Listed, NoChunks
  <1>4. Typed'
    BY <1>1, <1>2, <1>3 DEF Typed, diskVars
  <1>5. DataKept /\ StateKept /\ \A y \in Ids : SameFor(y)
    BY <1>1, DirectoryKept DEF diskVars, SameFor, DataSettled, StateSettled, DataKept, StateKept
  <1>6. AllRecoverable'
    BY <1>1, <1>3, <1>5 DEF AllRecoverable, Recoverable, NoChunks, DataKept, StateKept, diskVars, Typed
  <1>7. \A y \in Ids : ~Busy(y)' => Quiet(y)'
    BY <1>0, <1>1, <1>2, <1>5, QuietFact DEF OperationFacts, Busy, Removing, Syncing, Creating, Chunking, Publishing
  <1>8. OperationFacts'
    BY <1>2, <1>3, <1>7 DEF OperationFacts, RemovalFacts, CreationFacts, ChunkFacts, PublicationFacts,
                      Removing, Syncing, Creating, Chunking, Publishing
  <1> QED
    BY <1>4, <1>6, <1>8

LEMMA CreateDoneKeeps ==
  ASSUME StorageInv, CreateDone
  PROVE  StorageInv'
  <1> USE DEF StorageInv
  <1>0. PICK a \in Ids : a = op.id
    BY DEF CreateDone, At, Typed, OperationTyped
  <1>1. /\ op # NoOp /\ op.kind = "create" /\ op.step = "syncNew"
        /\ UNCHANGED <<up, dataLog, blob, synced, lapsed, crashes, acked, doomed>> /\ Done
    BY DEF CreateDone, At
  <1>2. OperationTyped' /\ op' = NoOp /\ up' = "up" /\ up = "up"
    BY <1>1, DoneFact DEF Typed
  <1>3. DataKept /\ StateSynced
    BY <1>1, DirectorySynced, DirectoryKept DEF CreateDone
  <1>4. Typed'
    BY <1>1, <1>2, <1>3 DEF Typed, StateSynced
  <1>5. AllRecoverable'
    BY <1>1, <1>3, FewerViews, ViewFacts DEF DataKept, StateSynced
  <1>6. \A y \in Ids : SameFor(y) /\ StateSettled(y)'
    BY <1>3 DEF SameFor, DataSettled, StateSettled, DataKept, StateSynced
  <1>7. ASSUME NEW y \in Ids PROVE Quiet(y)'
    <2>1. CASE y = a
      <3>1. DataSettled(a)' /\ Matches(S'[a], D'[a])
        BY <1>0, <1>1, <1>6 DEF OperationFacts, CreationFacts, Creating, SameFor, Matches, Sound
      <3> QED
        BY <1>2, <1>6, <2>1, <3>1 DEF Quiet, Settled
    <2>2. CASE y # a
      BY <1>0, <1>1, <1>2, <1>6, <2>2, QuietFact DEF OperationFacts, Busy, Removing, Syncing, Creating, Chunking, Publishing
    <2> QED
      BY <2>1, <2>2
  <1> QED
    BY <1>2, <1>4, <1>5, <1>7 DEF OperationFacts
-----------------------------------------------------------------------------
\* write_chunk()
LEMMA ChunkRefusedKeeps ==
  ASSUME StorageInv, ChunkRefused
  PROVE  StorageInv'
  <1> USE DEF StorageInv
  <1>0. PICK a \in Ids : a = op.id
    BY DEF ChunkRefused, Ready, At, Typed, OperationTyped
  <1>1. PICK c \in Chunks : c = op.arg[1]
    BY DEF ChunkRefused, Ready, At, Typed, OperationTyped
  <1>2. PICK v \in Values : v = op.arg[2]
    BY DEF ChunkRefused, Ready, At, Typed, OperationTyped
  <1>3. /\ op # NoOp /\ op.kind = "chunk" /\ Done /\ UNCHANGED <<up, diskVars, lapsed, crashes, doomed>>
        /\ acked' = (IF /\ S[a] # NoState /\ S[a].chunks[c] = v /\ blob[a][c] = v
                        /\ D[a] = {IF S[a].status = "partial" THEN "part" ELSE "xfr"}
                     THEN [acked EXCEPT ![a][c] = v]
                     ELSE acked)
    BY <1>0, <1>1, <1>2 DEF ChunkRefused, Ready, At
  <1>4. up = "up" /\ \A x \in Ids : Quiet(x) /\ Settled(x) /\ Matches(S[x], D[x])
    BY ReadyFact DEF ChunkRefused, Ready, Kinds
  <1>5. OperationTyped' /\ op' = NoOp
    BY <1>3, DoneFact DEF Typed
  <1>6. DataKept /\ StateKept /\ \A x \in Ids : SameFor(x)
    BY <1>3, DirectoryKept DEF diskVars, SameFor, DataSettled, StateSettled, DataKept, StateKept
  <1>7. /\ acked' \in [Ids -> Listed]
        /\ \A y \in Ids, e \in Chunks : 
             acked'[y][e] = acked[y][e] \/ (y = a /\ e = c /\ S[a].chunks[c] = v /\ acked'[y][e] = v)
    BY <1>3 DEF Typed, Listed
  <1>8. Typed'
    BY <1>3, <1>5, <1>7 DEF Typed, diskVars
  <1>9. AllRecoverable'
    <2>1. SUFFICES ASSUME NEW y \in Ids, NEW s \in Views(stateLog), NEW d \in Views(dataLog)
                   PROVE  Recoverable(blob[y], synced[y], acked'[y], s[y], d[y])
      BY <1>3, <1>6 DEF AllRecoverable, DataKept, StateKept, diskVars
    <2>2. Recoverable(blob[y], synced[y], acked[y], s[y], d[y])
      BY DEF AllRecoverable
    <2>3. s[y] = S[y] /\ d[y] = D[y] /\ Sound(s[y], d[y])
      BY <1>4 DEF Settled, StateSettled, DataSettled, Matches
    <2> QED
      BY <1>7, <2>2, <2>3 DEF Recoverable
  <1>10. \A y \in Ids : Quiet(y)'
    BY <1>3, <1>4, <1>6, QuietFact
  <1> QED
    BY <1>5, <1>8, <1>9, <1>10 DEF OperationFacts

LEMMA ChunkWriteKeeps ==
  ASSUME StorageInv, ChunkWrite
  PROVE  StorageInv'
  <1> USE DEF StorageInv
  <1>0. PICK a \in Ids : a = op.id
    BY DEF ChunkWrite, Ready, At, Typed, OperationTyped
  <1>1. PICK c \in Chunks : c = op.arg[1]
    BY DEF ChunkWrite, Ready, At, Typed, OperationTyped
  <1>2. PICK v \in Values : v = op.arg[2]
    BY DEF ChunkWrite, Ready, At, Typed, OperationTyped
  <1>3. /\ op # NoOp /\ op.kind = "chunk" /\ S[a].status = "partial" /\ S[a].chunks[c] = Blank
        /\ UNCHANGED <<up, dataLog, stateLog, synced, lapsed, crashes, acked, doomed>>
        /\ \/ blob' = [blob EXCEPT ![a][c] = v] /\ Goto("syncBlob")
           \/ blob' = [blob EXCEPT ![a][c] = Torn] /\ Done
        /\ "syncBlob" \in StepsOfKind(op.kind)
    BY <1>0, <1>1, <1>2 DEF ChunkWrite, Ready, At, StepsOfKind, Chunking
  <1>4. up = "up" /\ \A x \in Ids : Quiet(x) /\ Settled(x) /\ Matches(S[x], D[x])
    BY ReadyFact DEF ChunkWrite, Ready, Kinds
  <1>5. DataKept /\ StateKept /\ \A x \in Ids : SameFor(x)
    BY <1>3, DirectoryKept DEF SameFor, DataSettled, StateSettled, DataKept, StateKept
  <1>6. /\ blob' \in [Ids -> Content]
        /\ \A y \in Ids, e \in Chunks : blob'[y][e] = blob[y][e] \/ (y = a /\ e = c)
    <2>1. PICK w \in Values \cup {Blank, Torn} : blob' = [blob EXCEPT ![a][c] = w]
      BY <1>3
    <2> QED
      BY <2>1 DEF Typed, Content
  <1>7. AllRecoverable'
    <2>1. SUFFICES ASSUME NEW y \in Ids, NEW s \in Views(stateLog), NEW d \in Views(dataLog)
                   PROVE  Recoverable(blob'[y], synced[y], acked[y], s[y], d[y])
      BY <1>3, <1>5 DEF AllRecoverable, DataKept, StateKept
    <2>2. Recoverable(blob[y], synced[y], acked[y], s[y], d[y])
      BY DEF AllRecoverable
    <2>3. s[y] = S[y]
      BY <1>4 DEF Settled, StateSettled
    <2> QED
      BY <1>3, <1>6, <2>2, <2>3 DEF Recoverable
  <1>8. CASE Goto("syncBlob") /\ blob' = [blob EXCEPT ![a][c] = v]
    <2>1. /\ OperationTyped' /\ op' # NoOp /\ op'.step = "syncBlob" /\ op'.kind = "chunk"
          /\ op'.id = op.id /\ op'.victim = op.victim /\ op'.todo = op.todo /\ op'.arg = op.arg
      BY <1>3, <1>8, GotoFact DEF Typed
    <2>2. Typed'
      BY <1>3, <1>6, <2>1 DEF Typed
    <2>3. \A y \in Ids : Quiet(y)'
      BY <1>3, <1>4, <1>5, QuietFact
    <2>4. /\ D'[a] = {"part"} /\ DataSettled(a)' /\ StateSettled(a)' /\ S'[a].status = "partial"
          /\ S'[a].chunks[c] = Blank /\ blob'[a][c] = v
      BY <1>3, <1>4, <1>5, <1>8 DEF SameFor, Settled, Matches, Sound, Typed, Content
    <2>5. OperationFacts'
      BY <1>0, <1>1, <1>2, <2>1, <2>3, <2>4 DEF OperationFacts, RemovalFacts, CreationFacts, ChunkFacts, PublicationFacts,
                      Removing, Syncing, Creating, Chunking, Publishing
    <2> QED
      BY <1>7, <2>2, <2>5
  <1>9. CASE Done
    <2>1. OperationTyped' /\ op' = NoOp
      BY <1>3, <1>9, DoneFact DEF Typed
    <2>2. Typed'
      BY <1>3, <1>6, <2>1 DEF Typed
    <2>3. \A y \in Ids : Quiet(y)'
      BY <1>3, <1>4, <1>5, QuietFact
    <2> QED
      BY <1>7, <2>1, <2>2, <2>3 DEF OperationFacts
  <1> QED
    BY <1>3, <1>8, <1>9

LEMMA ChunkSyncKeeps ==
  ASSUME StorageInv, ChunkSync
  PROVE  StorageInv'
  <1> USE DEF StorageInv
  <1>0. PICK a \in Ids : a = op.id
    BY DEF ChunkSync, At, Typed, OperationTyped
  <1>1. /\ op # NoOp /\ op.kind = "chunk" /\ op.step = "syncBlob" /\ op.arg[1] \in Chunks
        /\ UNCHANGED <<up, dataLog, stateLog, blob, lapsed, crashes, acked, doomed>> /\ Goto("putState")
        /\ synced' = [synced EXCEPT ![a] = blob[a]]
        /\ "putState" \in StepsOfKind(op.kind)
    BY <1>0 DEF ChunkSync, At, StepsOfKind, Chunking, Typed, OperationTyped
  <1>2. /\ OperationTyped' /\ op' # NoOp /\ op'.step = "putState" /\ op'.kind = op.kind
        /\ op'.id = op.id /\ op'.victim = op.victim /\ op'.todo = op.todo /\ op'.arg = op.arg
    BY <1>1, GotoFact DEF Typed
  <1>3. DataKept /\ StateKept /\ \A x \in Ids : SameFor(x)
    BY <1>1, DirectoryKept DEF SameFor, DataSettled, StateSettled, DataKept, StateKept
  <1>4. Typed'
    BY <1>1, <1>2 DEF Typed
  <1>5. synced'[a] = blob[a] /\ \A y \in Ids : y # a => synced'[y] = synced[y]
    BY <1>1 DEF Typed
  <1>6. AllRecoverable'
    <2>1. SUFFICES ASSUME NEW y \in Ids, NEW s \in Views(stateLog), NEW d \in Views(dataLog)
                   PROVE  Recoverable(blob[y], synced'[y], acked[y], s[y], d[y])
      BY <1>1, <1>3 DEF AllRecoverable, DataKept, StateKept
    <2>2. Recoverable(blob[y], synced[y], acked[y], s[y], d[y])
      BY DEF AllRecoverable
    <2> QED
      BY <1>5, <2>2 DEF Recoverable
  <1>7. \A y \in Ids : ~Busy(y)' => Quiet(y)'
    BY <1>1, <1>2, <1>3, QuietFact DEF OperationFacts, Busy, Removing, Syncing, Creating, Chunking, Publishing
  <1>8. ChunkFacts'
    BY <1>0, <1>1, <1>2, <1>3, <1>5 DEF OperationFacts, ChunkFacts, Chunking, SameFor
  <1>9. OperationFacts'
    BY <1>1, <1>2, <1>7, <1>8 DEF OperationFacts, RemovalFacts, CreationFacts, PublicationFacts,
                      Removing, Syncing, Creating, Chunking, Publishing
  <1> QED
    BY <1>4, <1>6, <1>9
LEMMA ChunkStateKeeps ==
  ASSUME StorageInv, ChunkState
  PROVE  StorageInv'
  <1> USE DEF StorageInv
  <1>0. PICK a \in Ids : a = op.id
    BY DEF ChunkState, At, Typed, OperationTyped
  <1>1. PICK c \in Chunks : c = op.arg[1]
    BY DEF ChunkState, At, Typed, OperationTyped
  <1>2. PICK v \in Values : v = op.arg[2]
    BY DEF ChunkState, At, Typed, OperationTyped
  <1> DEFINE new == [status |-> "partial", chunks |-> [S[a].chunks EXCEPT ![c] = v]]
  <1>3. /\ op # NoOp /\ op.kind = "chunk" /\ op.step = "putState"
        /\ UNCHANGED <<up, dataLog, blob, synced, crashes, acked, doomed>> /\ Goto("syncChunk")
        /\ lapsed' \subseteq Ids /\ "syncChunk" \in StepsOfKind(op.kind)
    BY DEF ChunkState, At, StepsOfKind, Chunking, Typed
  <1>4. /\ OperationTyped' /\ op' # NoOp /\ op'.step = "syncChunk" /\ op'.kind = op.kind
        /\ op'.id = op.id /\ op'.victim = op.victim /\ op'.todo = op.todo /\ op'.arg = op.arg
    BY <1>3, GotoFact DEF Typed
  <1>5. /\ new \in Record /\ new.chunks[c] = v /\ S[a].chunks \in Listed
        /\ \A e \in Chunks : e # c => new.chunks[e] = S[a].chunks[e]
    BY ViewFacts DEF Record, Listed
  <1>6. StatePut(a, new) /\ DataKept
    BY <1>0, <1>1, <1>2, <1>3, <1>5, DirectoryPut, DirectoryKept DEF ChunkState, WriteState
  <1>7. Typed'
    BY <1>3, <1>4, <1>6 DEF Typed, StatePut
  <1>8. \A y \in Ids : y # a => SameFor(y)
    BY <1>5, <1>6, FrameFact DEF DataStep, StateStep
  <1>9. /\ D[a] = {"part"} /\ DataSettled(a) /\ S[a].status = "partial"
        /\ blob[a][c] = v /\ StateSettled(a) /\ S[a].chunks[c] = Blank /\ synced[a][c] = v
    BY <1>0, <1>1, <1>2, <1>3 DEF OperationFacts, ChunkFacts, Chunking
  <1>10. AllRecoverable'
    <2>1. ASSUME NEW s \in Views(stateLog)', NEW d \in Views(dataLog)'
          PROVE  Recoverable(blob'[a], synced'[a], acked'[a], s[a], d[a])
      <3>1. d \in Views(dataLog) /\ d[a] = {"part"}
        BY <1>6, <1>9 DEF DataKept, DataSettled
      <3>2. CASE s \in Views(stateLog)
        BY <1>3, <3>1, <3>2 DEF AllRecoverable
      <3>3. CASE s = S'
        <4>1. s[a] = new
          BY <1>6, <3>3, ViewFacts DEF StatePut
        <4>2. Recoverable(blob[a], synced[a], acked[a], S[a], {"part"})
          <5>1. Recoverable(blob[a], synced[a], acked[a], S[a], D[a])
            BY ViewFacts DEF AllRecoverable
          <5> QED
            BY <1>9, <5>1
        <4> HIDE DEF new
        <4>3. new.status = "partial" /\ Sound(new, {"part"}) /\ Sound(S[a], {"part"})
          BY <1>9 DEF new, Sound
        <4>4. Recoverable(blob[a], synced[a], acked[a], new, {"part"})
          BY <1>5, <1>9, <4>2, <4>3 DEF Recoverable
        <4> QED
          BY <1>3, <3>1, <4>1, <4>4
      <3> QED
        BY <1>6, <3>2, <3>3 DEF StatePut
    <2> QED
      BY <1>3, <1>5, <1>6, <2>1, RecoverableFrame DEF DataStep, StateStep
  <1>11. /\ D'[a] = {"part"} /\ S'[a] = new /\ DataSettled(a)' /\ blob'[a][c] = v /\ synced'[a][c] = v
    BY <1>3, <1>6, <1>9, ViewFacts DEF StatePut, DataKept, DataSettled
  <1>12. \A y \in Ids : ~Busy(y)' => Quiet(y)'
    BY <1>0, <1>3, <1>4, <1>8, QuietFact DEF OperationFacts, Busy, Creating, Removing, Syncing, Chunking, Publishing
  <1>13. ChunkFacts'
    BY <1>0, <1>1, <1>2, <1>4, <1>5, <1>11 DEF ChunkFacts
  <1>14. OperationFacts'
    BY <1>3, <1>4, <1>12, <1>13 DEF OperationFacts, RemovalFacts, CreationFacts, PublicationFacts,
                      Removing, Syncing, Creating, Chunking, Publishing
  <1> QED
    BY <1>7, <1>10, <1>14

\* The chunk is acknowledged once its record is on disk.
LEMMA ChunkDoneKeeps ==
  ASSUME StorageInv, ChunkDone
  PROVE  StorageInv'
  <1> USE DEF StorageInv
  <1>0. PICK a \in Ids : a = op.id
    BY DEF ChunkDone, At, Typed, OperationTyped
  <1>1. PICK c \in Chunks : c = op.arg[1]
    BY DEF ChunkDone, At, Typed, OperationTyped
  <1>2. PICK v \in Values : v = op.arg[2]
    BY DEF ChunkDone, At, Typed, OperationTyped
  <1>3. /\ op # NoOp /\ op.kind = "chunk" /\ op.step = "syncChunk"
        /\ UNCHANGED <<up, dataLog, blob, synced, lapsed, crashes, doomed>> /\ Done
        /\ acked' = [acked EXCEPT ![a][c] = v]
    BY <1>0, <1>1, <1>2 DEF ChunkDone, At
  <1>4. OperationTyped' /\ op' = NoOp /\ up' = "up" /\ up = "up"
    BY <1>3, DoneFact DEF Typed
  <1>5. DataKept /\ StateSynced
    BY <1>3, DirectorySynced, DirectoryKept DEF ChunkDone
  <1>6. /\ acked' \in [Ids -> Listed]
        /\ \A y \in Ids, e \in Chunks :
             acked'[y][e] = acked[y][e] \/ (y = a /\ e = c /\ acked'[y][e] = v)
    BY <1>3 DEF Typed, Listed
  <1>7. Typed'
    BY <1>3, <1>4, <1>5, <1>6 DEF Typed, StateSynced
  <1>8. D[a] = {"part"} /\ DataSettled(a) /\ S[a].status = "partial" /\ S[a].chunks[c] = v
    BY <1>0, <1>1, <1>2, <1>3 DEF OperationFacts, ChunkFacts, Chunking
  <1>9. AllRecoverable'
    <2>1. SUFFICES ASSUME NEW y \in Ids, NEW d \in Views(dataLog)
                   PROVE  Recoverable(blob[y], synced[y], acked'[y], S[y], d[y])
      BY <1>3, <1>5 DEF AllRecoverable, DataKept, StateSynced
    <2>2. Recoverable(blob[y], synced[y], acked[y], S[y], d[y])
      BY ViewFacts DEF AllRecoverable
    <2>3. y = a => Sound(S[a], d[a])
      BY <1>8 DEF DataSettled, Sound
    <2> QED
      BY <1>6, <1>8, <2>2, <2>3 DEF Recoverable
  <1>10. \A y \in Ids : SameFor(y) /\ StateSettled(y)'
    BY <1>5 DEF SameFor, DataSettled, StateSettled, DataKept, StateSynced
  <1>11. ASSUME NEW y \in Ids PROVE Quiet(y)'
    <2>1. CASE y = a
      <3>1. DataSettled(a)' /\ Matches(S'[a], D'[a])
        BY <1>8, <1>10 DEF SameFor, Matches, Sound
      <3> QED
        BY <1>4, <1>10, <2>1, <3>1 DEF Quiet, Settled
    <2>2. CASE y # a
      BY <1>0, <1>3, <1>4, <1>10, <2>2, QuietFact DEF OperationFacts, Busy, Removing, Syncing, Creating, Chunking, Publishing
    <2> QED
      BY <2>1, <2>2
  <1> QED
    BY <1>4, <1>7, <1>9, <1>11 DEF OperationFacts
-----------------------------------------------------------------------------
\* complete(), and the publication that recovery resumes
LEMMA CompleteCommittingKeeps ==
  ASSUME StorageInv, CompleteCommitting
  PROVE  StorageInv'
  <1> USE DEF StorageInv
  <1>0. PICK a \in Ids : a = op.id
    BY DEF CompleteCommitting, Ready, At, Typed, OperationTyped
  <1> DEFINE new == [status |-> "committing", chunks |-> S[a].chunks]
  <1>1. /\ op # NoOp /\ op.kind = "complete" /\ S[a].status = "partial"
        /\ \A c \in Chunks : S[a].chunks[c] # Blank
        /\ UNCHANGED <<up, dataLog, blob, synced, lapsed, crashes, acked, doomed>> /\ Goto("syncCommitting")
        /\ "syncCommitting" \in StepsOfKind(op.kind)
    BY <1>0 DEF CompleteCommitting, Ready, At, StepsOfKind
  <1>2. /\ OperationTyped' /\ op' # NoOp /\ op'.step = "syncCommitting" /\ op'.kind = op.kind
        /\ op'.id = op.id /\ op'.victim = op.victim /\ op'.todo = op.todo
    BY <1>1, GotoFact DEF Typed
  <1>3. new \in Record
    BY ViewFacts DEF Record
  <1>4. StatePut(a, new) /\ DataKept
    BY <1>0, <1>1, <1>3, DirectoryPut, DirectoryKept DEF CompleteCommitting, WriteState
  <1>5. Typed'
    BY <1>1, <1>2, <1>4 DEF Typed, StatePut
  <1>6. \A y \in Ids : y # a => SameFor(y)
    BY <1>3, <1>4, FrameFact DEF DataStep, StateStep
  <1>7. up = "up" /\ \A y \in Ids : Quiet(y) /\ Settled(y) /\ Matches(S[y], D[y])
    BY ReadyFact DEF CompleteCommitting, Ready, Kinds
  <1>8. D[a] = {"part"} /\ DataSettled(a)
    BY <1>1, <1>7 DEF Matches, Sound, Settled
  <1>9. AllRecoverable'
    <2>1. ASSUME NEW s \in Views(stateLog)', NEW d \in Views(dataLog)'
          PROVE  Recoverable(blob'[a], synced'[a], acked'[a], s[a], d[a])
      <3>1. d \in Views(dataLog) /\ d[a] = {"part"}
        BY <1>4, <1>8 DEF DataKept, DataSettled
      <3>2. CASE s \in Views(stateLog)
        BY <1>1, <3>1, <3>2 DEF AllRecoverable
      <3>3. CASE s = S'
        <4>1. s[a] = new
          BY <1>4, <3>3, ViewFacts DEF StatePut
        <4>2. Recoverable(blob[a], synced[a], acked[a], S[a], d[a])
          BY <3>1, ViewFacts DEF AllRecoverable
        <4>3. Sound(S[a], d[a]) /\ Sound(new, d[a])
          BY <1>1, <3>1 DEF Sound
        <4>4. Recoverable(blob[a], synced[a], acked[a], new, d[a])
          BY <1>1, <4>2, <4>3 DEF Recoverable
        <4> QED
          BY <1>1, <4>1, <4>4
      <3> QED
        BY <1>4, <3>2, <3>3 DEF StatePut
    <2> QED
      BY <1>1, <1>3, <1>4, <2>1, RecoverableFrame DEF DataStep, StateStep
  <1>10. D'[a] = {"part"} /\ S'[a] = new /\ DataSettled(a)'
    BY <1>4, <1>8, ViewFacts DEF StatePut, DataKept, DataSettled
  <1>11. \A y \in Ids : ~Busy(y)' => Quiet(y)'
    BY <1>0, <1>1, <1>2, <1>6, <1>7, QuietFact DEF Busy
  <1>12. OperationFacts'
    BY <1>0, <1>1, <1>2, <1>10, <1>11 DEF OperationFacts, RemovalFacts, CreationFacts, ChunkFacts, PublicationFacts,
                      Removing, Syncing, Creating, Chunking, Publishing
  <1> QED
    BY <1>5, <1>9, <1>12

LEMMA CompleteSyncKeeps ==
  ASSUME StorageInv, CompleteSync
  PROVE  StorageInv'
  <1> USE DEF StorageInv
  <1>0. PICK a \in Ids : a = op.id
    BY DEF CompleteSync, At, Typed, OperationTyped
  <1>1. /\ op # NoOp /\ op.kind = "complete" /\ op.step = "syncCommitting"
        /\ UNCHANGED <<up, dataLog, blob, synced, lapsed, crashes, acked, doomed>> /\ Goto("publish")
        /\ "publish" \in StepsOfKind(op.kind)
    BY DEF CompleteSync, At, StepsOfKind, Publishing
  <1>2. /\ OperationTyped' /\ op' # NoOp /\ op'.step = "publish" /\ op'.kind = op.kind
        /\ op'.id = op.id /\ op'.victim = op.victim /\ op'.todo = op.todo
    BY <1>1, GotoFact DEF Typed
  <1>3. DataKept /\ StateSynced
    BY <1>1, DirectorySynced, DirectoryKept DEF CompleteSync
  <1>4. Typed'
    BY <1>1, <1>2, <1>3 DEF Typed, StateSynced
  <1>5. AllRecoverable'
    BY <1>1, <1>3, FewerViews, ViewFacts DEF DataKept, StateSynced
  <1>6. \A y \in Ids : SameFor(y) /\ StateSettled(y)'
    BY <1>3 DEF SameFor, DataSettled, StateSettled, DataKept, StateSynced
  <1>7. \A y \in Ids : ~Busy(y)' => Quiet(y)'
    BY <1>1, <1>2, <1>6, QuietFact DEF OperationFacts, Busy, Removing, Syncing, Creating, Chunking, Publishing
  <1>8. PublicationFacts'
    BY <1>0, <1>1, <1>2, <1>6 DEF OperationFacts, PublicationFacts, Publishing, SameFor, Matches, Sound
  <1>9. OperationFacts'
    BY <1>1, <1>2, <1>7, <1>8 DEF OperationFacts, RemovalFacts, CreationFacts, ChunkFacts,
                      Removing, Syncing, Creating, Chunking, Publishing
  <1> QED
    BY <1>4, <1>5, <1>9

LEMMA CompleteAgainKeeps ==
  ASSUME StorageInv, CompleteAgain
  PROVE  StorageInv'
  <1> USE DEF StorageInv
  <1>0. PICK a \in Ids : a = op.id
    BY DEF CompleteAgain, Ready, At, Typed, OperationTyped
  <1>1. /\ op # NoOp /\ op.kind = "complete" /\ S[a].status = "committing"
        /\ UNCHANGED <<up, diskVars, lapsed, crashes, acked, doomed>> /\ Goto("publish")
        /\ "publish" \in StepsOfKind(op.kind)
    BY <1>0 DEF CompleteAgain, Ready, At, StepsOfKind, Publishing
  <1>2. /\ OperationTyped' /\ op' # NoOp /\ op'.step = "publish" /\ op'.kind = op.kind
        /\ op'.id = op.id /\ op'.victim = op.victim /\ op'.todo = op.todo
    BY <1>1, GotoFact DEF Typed
  <1>3. Typed'
    BY <1>1, <1>2 DEF Typed, diskVars
  <1>4. AllRecoverable' /\ \A y \in Ids : SameFor(y)
    BY <1>1, NothingStoredFact DEF NothingStored
  <1>5. up = "up" /\ \A y \in Ids : Quiet(y) /\ Settled(y) /\ Matches(S[y], D[y])
    BY ReadyFact DEF CompleteAgain, Ready, Kinds
  <1>6. \A y \in Ids : ~Busy(y)' => Quiet(y)'
    BY <1>1, <1>2, <1>4, <1>5, QuietFact
  <1>7. PublicationFacts'
    BY <1>0, <1>1, <1>2, <1>4, <1>5 DEF PublicationFacts, Publishing, SameFor, Settled
  <1>8. OperationFacts'
    BY <1>1, <1>2, <1>6, <1>7 DEF OperationFacts, RemovalFacts, CreationFacts, ChunkFacts,
                      Removing, Syncing, Creating, Chunking, Publishing
  <1> QED
    BY <1>3, <1>4, <1>8

LEMMA PublishKeeps ==
  ASSUME StorageInv, Publish
  PROVE  StorageInv'
  <1> USE DEF StorageInv
  <1>0. PICK a \in Ids : a = op.id
    BY DEF Publish, Typed, OperationTyped
  <1>1. /\ op # NoOp /\ op.step = "publish" /\ op.kind \in {"complete", "reconcile"}
        /\ UNCHANGED <<up, stateLog, blob, synced, lapsed, crashes, acked, doomed>>
        /\ \A st \in Publishing : st \in StepsOfKind(op.kind)
    BY DEF Publish, Typed, OperationTyped, StepsOfKind, Removing, Syncing, Creating, Chunking, Publishing, Kinds
  <1>2. /\ op.kind = "reconcile" => a \notin op.todo
        /\ Matches(S[a], D[a]) /\ S[a].status = "committing" /\ DataSettled(a) /\ StateSettled(a)
    BY <1>0, <1>1 DEF OperationFacts, PublicationFacts, Publishing
  <1>3. CASE D[a] = {"xfr"} /\ Goto("putComplete") /\ UNCHANGED dataLog
    <2>1. /\ OperationTyped' /\ op' # NoOp /\ op'.step = "putComplete" /\ op'.kind = op.kind
          /\ op'.id = op.id /\ op'.victim = op.victim /\ op'.todo = op.todo
      BY <1>1, <1>3, GotoFact DEF Typed, Publishing
    <2>2. Typed'
      BY <1>1, <1>3, <2>1 DEF Typed
    <2>3. AllRecoverable' /\ \A y \in Ids : SameFor(y)
      BY <1>1, <1>3, NothingStoredFact DEF NothingStored, diskVars
    <2>4. \A y \in Ids : ~Busy(y)' => Quiet(y)'
      BY <1>1, <2>1, <2>3, QuietFact DEF OperationFacts, Busy, Removing, Syncing, Creating, Chunking, Publishing
    <2>5. PublicationFacts'
      BY <1>0, <1>2, <1>3, <2>1, <2>3 DEF PublicationFacts, Publishing, SameFor
    <2>6. OperationFacts'
      BY <1>1, <2>1, <2>4, <2>5 DEF OperationFacts, RemovalFacts, CreationFacts, ChunkFacts,
                      Removing, Syncing, Creating, Chunking, Publishing
    <2> QED
      BY <2>2, <2>3, <2>6
  <1>4. CASE D[a] = {"part"} /\ dataLog' = Put(dataLog, a, {"xfr"}) /\ Goto("syncRename")
    <2>1. /\ OperationTyped' /\ op' # NoOp /\ op'.step = "syncRename" /\ op'.kind = op.kind
          /\ op'.id = op.id /\ op'.victim = op.victim /\ op'.todo = op.todo
      BY <1>1, <1>4, GotoFact DEF Typed, Publishing
    <2>2. DataPut(a, {"xfr"}) /\ StateKept
      BY <1>1, <1>4, DirectoryPut, DirectoryKept DEF Datum
    <2>3. Typed'
      BY <1>1, <2>1, <2>2 DEF Typed, DataPut
    <2>4. \A y \in Ids : y # a => SameFor(y)
      BY <2>2, FrameFact DEF DataStep, StateStep, Datum
    <2>5. AllRecoverable'
      <3>1. ASSUME NEW s \in Views(stateLog)', NEW d \in Views(dataLog)'
            PROVE  Recoverable(blob'[a], synced'[a], acked'[a], s[a], d[a])
        <4>1. s \in Views(stateLog) /\ s[a].status = "committing"
          BY <1>2, <2>2 DEF StateKept, StateSettled
        <4>2. CASE d \in Views(dataLog)
          BY <1>1, <4>1, <4>2 DEF AllRecoverable
        <4>3. CASE d = D'
          <5>1. d[a] = {"xfr"}
            BY <2>2, <4>3, ViewFacts DEF DataPut
          <5>2. Recoverable(blob[a], synced[a], acked[a], s[a], D[a])
            BY <4>1, ViewFacts DEF AllRecoverable
          <5>3. Sound(s[a], D[a]) /\ Sound(s[a], d[a])
            BY <1>4, <4>1, <5>1 DEF Sound
          <5> QED
            BY <1>1, <5>2, <5>3 DEF Recoverable
        <4> QED
          BY <2>2, <4>2, <4>3 DEF DataPut
      <3> QED
        BY <1>1, <2>2, <3>1, RecoverableFrame DEF DataStep, StateStep, Datum
    <2>6. D'[a] = {"xfr"} /\ S'[a] = S[a] /\ StateSettled(a)'
      BY <1>2, <2>2, ViewFacts DEF DataPut, StateKept, StateSettled
    <2>7. \A y \in Ids : ~Busy(y)' => Quiet(y)'
      BY <1>0, <1>1, <2>1, <2>4, QuietFact DEF OperationFacts, Busy, Removing, Syncing, Creating, Chunking, Publishing
    <2>8. PublicationFacts'
      BY <1>0, <1>2, <2>1, <2>6 DEF PublicationFacts, Publishing, Matches, Sound
    <2>9. OperationFacts'
      BY <1>1, <2>1, <2>7, <2>8 DEF OperationFacts, RemovalFacts, CreationFacts, ChunkFacts,
                      Removing, Syncing, Creating, Chunking, Publishing
    <2> QED
      BY <2>3, <2>5, <2>9
  <1> QED
    BY <1>0, <1>3, <1>4 DEF Publish
LEMMA PublishSyncKeeps ==
  ASSUME StorageInv, PublishSync
  PROVE  StorageInv'
  <1> USE DEF StorageInv
  <1>0. PICK a \in Ids : a = op.id
    BY DEF PublishSync, Typed, OperationTyped
  <1>1. /\ op # NoOp /\ op.step = "syncRename" /\ op.kind \in {"complete", "reconcile"}
        /\ UNCHANGED <<up, stateLog, blob, synced, lapsed, crashes, acked, doomed>> /\ Goto("putComplete")
        /\ "putComplete" \in StepsOfKind(op.kind)
    BY DEF PublishSync, Typed, OperationTyped, StepsOfKind, Removing, Syncing, Creating, Chunking, Publishing, Kinds
  <1>2. /\ OperationTyped' /\ op' # NoOp /\ op'.step = "putComplete" /\ op'.kind = op.kind
        /\ op'.id = op.id /\ op'.victim = op.victim /\ op'.todo = op.todo
    BY <1>1, GotoFact DEF Typed
  <1>3. DataSynced /\ StateKept
    BY <1>1, DirectorySynced, DirectoryKept DEF PublishSync
  <1>4. Typed'
    BY <1>1, <1>2, <1>3 DEF Typed, DataSynced
  <1>5. AllRecoverable'
    BY <1>1, <1>3, FewerViews, ViewFacts DEF DataSynced, StateKept
  <1>6. \A y \in Ids : SameFor(y) /\ DataSettled(y)'
    BY <1>3 DEF SameFor, DataSettled, StateSettled, DataSynced, StateKept
  <1>7. \A y \in Ids : ~Busy(y)' => Quiet(y)'
    BY <1>1, <1>2, <1>6, QuietFact DEF OperationFacts, Busy, Removing, Syncing, Creating, Chunking, Publishing
  <1>8. PublicationFacts'
    BY <1>0, <1>1, <1>2, <1>6 DEF OperationFacts, PublicationFacts, Publishing, SameFor
  <1>9. OperationFacts'
    BY <1>1, <1>2, <1>7, <1>8 DEF OperationFacts, RemovalFacts, CreationFacts, ChunkFacts,
                      Removing, Syncing, Creating, Chunking, Publishing
  <1> QED
    BY <1>4, <1>5, <1>9

LEMMA PublishStateKeeps ==
  ASSUME StorageInv, PublishState
  PROVE  StorageInv'
  <1> USE DEF StorageInv
  <1>0. PICK a \in Ids : a = op.id
    BY DEF PublishState, Typed, OperationTyped
  <1> DEFINE new == [status |-> "complete", chunks |-> S[a].chunks]
  <1>1. /\ op # NoOp /\ op.step = "putComplete" /\ op.kind \in {"complete", "reconcile"}
        /\ UNCHANGED <<up, dataLog, blob, synced, lapsed, crashes, acked, doomed>> /\ Goto("syncComplete")
        /\ "syncComplete" \in StepsOfKind(op.kind)
    BY DEF PublishState, Typed, OperationTyped, StepsOfKind, Removing, Syncing, Creating, Chunking, Publishing, Kinds
  <1>2. /\ OperationTyped' /\ op' # NoOp /\ op'.step = "syncComplete" /\ op'.kind = op.kind
        /\ op'.id = op.id /\ op'.victim = op.victim /\ op'.todo = op.todo
    BY <1>1, GotoFact DEF Typed
  <1>3. new \in Record
    BY ViewFacts DEF Record
  <1>4. StatePut(a, new) /\ DataKept
    BY <1>0, <1>1, <1>3, DirectoryPut, DirectoryKept DEF PublishState, WriteState
  <1>5. Typed'
    BY <1>1, <1>2, <1>4 DEF Typed, StatePut
  <1>6. \A y \in Ids : y # a => SameFor(y)
    BY <1>3, <1>4, FrameFact DEF DataStep, StateStep
  <1>7. /\ op.kind = "reconcile" => a \notin op.todo
        /\ D[a] = {"xfr"} /\ DataSettled(a) /\ S[a].status = "committing"
    BY <1>0, <1>1 DEF OperationFacts, PublicationFacts, Publishing
  <1>8. AllRecoverable'
    <2>1. ASSUME NEW s \in Views(stateLog)', NEW d \in Views(dataLog)'
          PROVE  Recoverable(blob'[a], synced'[a], acked'[a], s[a], d[a])
      <3>1. d \in Views(dataLog) /\ d[a] = {"xfr"}
        BY <1>4, <1>7 DEF DataKept, DataSettled
      <3>2. CASE s \in Views(stateLog)
        BY <1>1, <3>1, <3>2 DEF AllRecoverable
      <3>3. CASE s = S'
        <4>1. s[a] = new
          BY <1>4, <3>3, ViewFacts DEF StatePut
        <4>2. Recoverable(blob[a], synced[a], acked[a], S[a], d[a])
          BY <3>1, ViewFacts DEF AllRecoverable
        <4>3. Sound(S[a], d[a]) /\ Sound(new, d[a])
          BY <1>7, <3>1 DEF Sound
        <4>4. Recoverable(blob[a], synced[a], acked[a], new, d[a])
          BY <1>7, <4>2, <4>3 DEF Recoverable
        <4> QED
          BY <1>1, <4>1, <4>4
      <3> QED
        BY <1>4, <3>2, <3>3 DEF StatePut
    <2> QED
      BY <1>1, <1>3, <1>4, <2>1, RecoverableFrame DEF DataStep, StateStep
  <1>9. D'[a] = {"xfr"} /\ S'[a] = new /\ DataSettled(a)'
    BY <1>4, <1>7, ViewFacts DEF StatePut, DataKept, DataSettled
  <1>10. \A y \in Ids : ~Busy(y)' => Quiet(y)'
    BY <1>0, <1>1, <1>2, <1>6, QuietFact DEF OperationFacts, Busy, Removing, Syncing, Creating, Chunking, Publishing
  <1>11. PublicationFacts'
    BY <1>0, <1>2, <1>7, <1>9 DEF PublicationFacts, Publishing, Matches, Sound
  <1>12. OperationFacts'
    BY <1>1, <1>2, <1>10, <1>11 DEF OperationFacts, RemovalFacts, CreationFacts, ChunkFacts,
                      Removing, Syncing, Creating, Chunking, Publishing
  <1> QED
    BY <1>5, <1>8, <1>12

LEMMA PublishDoneKeeps ==
  ASSUME StorageInv, PublishDone
  PROVE  StorageInv'
  <1> USE DEF StorageInv
  <1>0. PICK a \in Ids : a = op.id
    BY DEF PublishDone, Typed, OperationTyped
  <1>1. /\ op # NoOp /\ op.step = "syncComplete" /\ op.kind \in {"complete", "reconcile"}
        /\ UNCHANGED <<up, dataLog, blob, synced, lapsed, crashes, acked, doomed>>
        /\ IF op.kind = "reconcile" THEN Goto("begin") ELSE Done
        /\ "begin" \in StepsOfKind(op.kind)
    BY DEF PublishDone, Typed, OperationTyped, StepsOfKind, Removing, Syncing, Creating, Chunking, Publishing, Kinds
  <1>2. DataKept /\ StateSynced
    BY <1>1, DirectorySynced, DirectoryKept DEF PublishDone
  <1>3. AllRecoverable'
    BY <1>1, <1>2, FewerViews, ViewFacts DEF DataKept, StateSynced
  <1>4. \A y \in Ids : SameFor(y) /\ StateSettled(y)'
    BY <1>2 DEF SameFor, DataSettled, StateSettled, DataKept, StateSynced
  <1>5. op.kind = "reconcile" => a \notin op.todo
    BY <1>0, <1>1 DEF OperationFacts, PublicationFacts, Publishing
  <1>6. Settled(a)' /\ Matches(S'[a], D'[a])
    BY <1>0, <1>1, <1>4 DEF OperationFacts, PublicationFacts, Publishing, SameFor, Settled
  <1>7. \A y \in Ids : y # a => ~Busy(y)
    BY <1>0, <1>1 DEF Busy, Removing, Syncing
  <1>8. CASE op.kind = "reconcile"
    <2>1. /\ OperationTyped' /\ op' # NoOp /\ op'.step = "begin" /\ op'.kind = op.kind
          /\ op'.todo = op.todo /\ up' = "start"
      BY <1>1, <1>8, GotoFact DEF Typed, OperationTyped
    <2>2. Typed'
      BY <1>1, <1>2, <2>1 DEF Typed, StateSynced
    <2>3. ASSUME NEW y \in Ids PROVE Quiet(y)'
      <3>1. CASE y = a
        BY <1>5, <1>6, <1>8, <2>1, <3>1 DEF Quiet
      <3>2. CASE y # a
        BY <1>1, <1>4, <1>7, <2>1, <3>2, QuietFact DEF OperationFacts
      <3> QED
        BY <3>1, <3>2
    <2>4. OperationFacts'
      BY <1>1, <2>1, <2>3 DEF OperationFacts, RemovalFacts, CreationFacts, ChunkFacts, PublicationFacts,
                      Removing, Syncing, Creating, Chunking, Publishing
    <2> QED
      BY <1>3, <2>2, <2>4
  <1>9. CASE op.kind # "reconcile"
    <2>1. OperationTyped' /\ op' = NoOp /\ up' = "up" /\ up = "up"
      BY <1>1, <1>9, DoneFact DEF Typed
    <2>2. Typed'
      BY <1>1, <1>2, <2>1 DEF Typed, StateSynced
    <2>3. ASSUME NEW y \in Ids PROVE Quiet(y)'
      <3>1. CASE y = a
        BY <1>6, <2>1, <3>1 DEF Quiet
      <3>2. CASE y # a
        BY <1>4, <1>7, <2>1, <3>2, QuietFact DEF OperationFacts
      <3> QED
        BY <3>1, <3>2
    <2> QED
      BY <1>3, <2>1, <2>2, <2>3 DEF OperationFacts
  <1> QED
    BY <1>8, <1>9
-----------------------------------------------------------------------------
\* Outages, and the recovery that follows them.
LEMMA OutageFact ==
  ASSUME KillsComeLast, crashes \in Nat, NEW fault, Crash(fault)
  PROVE  /\ crashes' \in Nat
         /\ fault = "power" => PowerAhead
         /\ fault = "kill" => ~PowerAhead'
         /\ PowerAhead' => PowerAhead
  <1>1. /\ crashes' = crashes + 1 /\ crashes < Len(Faults) /\ Faults[crashes + 1] = fault
        /\ Faults \in Seq({"kill", "power"})
    BY StorageAssumption DEF Crash
  <1>2. crashes + 1 \in DOMAIN Faults /\ crashes + 1 > crashes /\ DOMAIN Faults \subseteq Nat
    BY <1>1
  <1> QED
    BY <1>1, <1>2 DEF PowerAhead, KillsComeLast

LEMMA CrashKeeps ==
  ASSUME KillsComeLast, StorageInv, NEW fault \in {"kill", "power"}, Crash(fault)
  PROVE  StorageInv'
  <1> USE DEF StorageInv
  <1>1. /\ op' = NoOp /\ up' = "down" /\ crashes' \in Nat /\ UNCHANGED <<lapsed, acked, doomed>>
        /\ fault = "power" => PowerAhead
        /\ fault = "kill" => ~PowerAhead'
    BY OutageFact DEF Crash, Typed
  <1>2. OperationTyped'
    BY <1>1 DEF OperationTyped
  <1>3. CASE fault = "kill"
    <2>0. UNCHANGED diskVars
      BY <1>3 DEF Crash
    <2>1. Views(dataLog)' = {D} /\ Views(stateLog)' = {S} /\ D' = D /\ S' = S
      BY <1>1, <1>3, <2>0 DEF Views, D, S, diskVars
    <2>2. Typed'
      BY <1>1, <1>2, <2>0 DEF Typed, diskVars
    <2>3. AllRecoverable'
      BY <1>1, <2>0, <2>1, ViewFacts, FewerViews DEF diskVars
    <2>4. \A y \in Ids : Quiet(y)'
      BY <1>1, <2>1 DEF Quiet, Settled, DataSettled, StateSettled
    <2> QED
      BY <1>1, <2>2, <2>3, <2>4 DEF OperationFacts
  <1>4. CASE fault = "power"
    <2>1. PICK i \in DOMAIN dataLog : dataLog' = <<dataLog[i]>>
      BY <1>4 DEF Crash
    <2>2. PICK j \in DOMAIN stateLog : stateLog' = <<stateLog[j]>>
      BY <1>4 DEF Crash
    <2>3. /\ blob' \in [Ids -> Content] /\ synced' = blob'
          /\ \A x \in Ids, c \in Chunks : blob[x][c] = synced[x][c] => blob'[x][c] = blob[x][c]
      BY <1>4 DEF Crash, Content
    <2>4. /\ dataLog[i] \in Views(dataLog) /\ dataLog[i] \in [Ids -> Datum]
          /\ stateLog[j] \in Views(stateLog) /\ stateLog[j] \in [Ids -> Record]
      BY <1>1, <1>4, <2>1, <2>2, ViewFacts DEF Views, Range
    <2>5. /\ dataLog' \in Log(Datum) /\ D' = dataLog[i] /\ Views(dataLog)' = {D'}
          /\ stateLog' \in Log(Record) /\ S' = stateLog[j] /\ Views(stateLog)' = {S'}
      BY <2>1, <2>2, <2>4, SyncFact DEF D, S, Views
    <2>6. Typed'
      BY <1>1, <1>2, <2>3, <2>5 DEF Typed
    <2>7. AllRecoverable'
      <3>1. SUFFICES ASSUME NEW x \in Ids
                     PROVE  Recoverable(blob'[x], synced'[x], acked'[x], S'[x], D'[x])
        BY <2>5 DEF AllRecoverable
      <3>2. Recoverable(blob[x], synced[x], acked[x], S'[x], D'[x])
        BY <2>4, <2>5 DEF AllRecoverable
      <3> QED
        BY <1>1, <2>3, <3>2 DEF Recoverable
    <2>8. \A y \in Ids : Quiet(y)'
      BY <1>1, <2>5 DEF Quiet, Settled, DataSettled, StateSettled
    <2> QED
      BY <1>1, <2>6, <2>7, <2>8 DEF OperationFacts
  <1> QED
    BY <1>3, <1>4

LEMMA RestartKeeps ==
  ASSUME StorageInv, Restart
  PROVE  StorageInv'
  <1> USE DEF StorageInv
  <1>1. /\ op = NoOp /\ up = "down" /\ up' = "start" /\ NothingStored /\ UNCHANGED <<lapsed, doomed>>
        /\ op' # NoOp /\ op'.kind = "reconcile" /\ op'.step = "begin" /\ op'.todo = Ids
    BY DEF Restart, NothingStored, NoOp, Typed, OperationTyped
  <1>2. OperationTyped'
    <2>1. (CHOOSE x \in Ids : TRUE) \in Ids
      BY StorageAssumption
    <2> QED
      BY <2>1 DEF Restart, OperationTyped, StepsOfKind, Kinds
  <1>3. Typed'
    BY <1>1, <1>2 DEF Typed, NothingStored, diskVars
  <1>4. AllRecoverable' /\ \A y \in Ids : SameFor(y)
    BY <1>1, NothingStoredFact
  <1>5. \A y \in Ids : Settled(y)
    BY <1>1 DEF OperationFacts, Busy, Quiet
  <1>6. \A y \in Ids : Quiet(y)'
    BY <1>1, <1>4, <1>5 DEF Quiet, Settled, SameFor
  <1>7. OperationFacts'
    BY <1>1, <1>6 DEF OperationFacts, RemovalFacts, CreationFacts, ChunkFacts, PublicationFacts,
                      Removing, Syncing, Creating, Chunking, Publishing
  <1> QED
    BY <1>3, <1>4, <1>7

LEMMA ReconcileRecordKeeps ==
  ASSUME StorageInv, NEW x \in Ids, ReconcileRecord(x)
  PROVE  StorageInv'
  <1> USE DEF StorageInv
  <1> DEFINE st == IF ~Intact(x) THEN "unlinkData"
                   ELSE IF S[x].status = "committing" THEN "publish" ELSE "begin"
  <1>1. /\ op # NoOp /\ op.kind = "reconcile" /\ op.step = "begin" /\ x \in op.todo /\ up = "start"
        /\ NothingStored /\ UNCHANGED <<up, lapsed, doomed>>
        /\ op' = [op EXCEPT !.id = x, !.victim = x, !.todo = @ \ {x}, !.step = st]
    BY DEF ReconcileRecord, At, NothingStored, Typed, OperationTyped
  <1>2. /\ st \in StepsOfKind("reconcile")
        /\ st = "unlinkData" => ~Intact(x)
        /\ st = "publish" => Intact(x) /\ S[x].status = "committing"
        /\ st = "begin" => Intact(x)
        /\ st \in {"unlinkData", "publish", "begin"}
    BY DEF StepsOfKind, Removing, Publishing
  <1> HIDE DEF st
  <1>3. /\ OperationTyped' /\ op' # NoOp /\ op'.kind = "reconcile" /\ op'.step = st /\ op'.id = x
        /\ op'.victim = x /\ op'.todo = op.todo \ {x}
    BY <1>1, <1>2 DEF Typed, OperationTyped, NoOp, Kinds
  <1>4. Typed'
    BY <1>1, <1>3 DEF Typed, NothingStored, diskVars
  <1>5. AllRecoverable' /\ \A y \in Ids : SameFor(y)
    BY <1>1, NothingStoredFact
  <1>6. /\ \A y \in Ids : Quiet(y)
        /\ Settled(x) /\ Recoverable(blob[x], synced[x], acked[x], S[x], D[x])
    BY <1>1, ViewFacts DEF OperationFacts, AllRecoverable, Busy, Quiet, Removing, Syncing, Creating, Chunking, Publishing
  <1>7. Intact(x) <=> Sound(S[x], D[x])
    BY DEF Intact, Sound
  <1>8. \A y \in Ids : ~Busy(y)' => Quiet(y)'
    <2>1. ASSUME NEW y \in Ids, y # x PROVE Quiet(y)'
      BY <1>1, <1>3, <1>5, <1>6, <2>1 DEF Quiet, SameFor, Settled
    <2>2. ASSUME st = "begin" PROVE Quiet(x)'
      <3>1. S[x] = NoState \/ Matches(S[x], D[x])
        BY <1>2, <1>6, <1>7, <2>2 DEF Recoverable, Matches
      <3> QED
        BY <1>1, <1>3, <1>5, <3>1 DEF Quiet, SameFor
    <2>3. st # "begin" => Busy(x)'
      BY <1>2, <1>3 DEF Busy, Removing, Publishing
    <2> QED
      BY <2>1, <2>2, <2>3
  <1>9. st = "unlinkData" => acked'[x] = NoChunks
    <2>1. ASSUME st = "unlinkData" PROVE \A c \in Chunks : acked[x][c] = Blank
      BY <1>2, <1>6, <1>7, <2>1 DEF Recoverable
    <2>2. acked[x] \in Listed /\ acked' = acked
      BY <1>1 DEF Typed, NothingStored
    <2> QED
      BY <2>1, <2>2 DEF NoChunks, Listed
  <1>10. st = "publish" => PublicationFacts'
    BY <1>1, <1>2, <1>3, <1>5, <1>6, <1>7 DEF PublicationFacts, Publishing, Matches, SameFor, Settled
  <1>11. OperationFacts'
    BY <1>2, <1>3, <1>8, <1>9, <1>10 DEF OperationFacts, RemovalFacts, CreationFacts, ChunkFacts, PublicationFacts,
                      Removing, Syncing, Creating, Chunking, Publishing
  <1> QED
    BY <1>4, <1>5, <1>11
-----------------------------------------------------------------------------
\* The executed DELETE of a route.
LEMMA DeleteKeeps ==
  ASSUME StorageInv, NEW x \in Ids, NEW route, Delete(x, route)
  PROVE  StorageInv'
  <1> USE DEF StorageInv
  <1>1. /\ op = NoOp /\ up = "up" /\ up' = up /\ UNCHANGED <<diskVars, lapsed, crashes>>
        /\ op' = [kind |-> "delete", id |-> x, arg |-> route, victim |-> x, step |-> "unlinkData", todo |-> {}]
        /\ acked' = [acked EXCEPT ![x] = NoChunks] /\ doomed' = doomed \cup {x}
    BY DEF Delete, Doom
  <1>2. /\ OperationTyped' /\ op' # NoOp /\ op'.victim = x /\ op'.step = "unlinkData"
        /\ op'.kind = "delete"
    BY <1>1 DEF OperationTyped, StepsOfKind, Kinds, NoOp, Removing
  <1>3. acked' \in [Ids -> Listed] /\ acked'[x] = NoChunks
    BY <1>1 DEF Typed, Listed, NoChunks
  <1>4. Typed'
    BY <1>1, <1>2, <1>3 DEF Typed, diskVars
  <1>5. DataKept /\ StateKept /\ \A y \in Ids : SameFor(y)
    BY <1>1, DirectoryKept DEF diskVars, SameFor, DataSettled, StateSettled, DataKept, StateKept
  <1>6. AllRecoverable'
    BY <1>1, <1>3, <1>5 DEF AllRecoverable, Recoverable, NoChunks, DataKept, StateKept, diskVars, Typed
  <1>7. \A y \in Ids : ~Busy(y)' => Quiet(y)'
    BY <1>1, <1>5, QuietFact DEF OperationFacts, Busy
  <1>8. OperationFacts'
    BY <1>2, <1>3, <1>7 DEF OperationFacts, RemovalFacts, CreationFacts, ChunkFacts, PublicationFacts,
                      Removing, Syncing, Creating, Chunking, Publishing
  <1> QED
    BY <1>4, <1>6, <1>8
LEMMA ReconcileSweepKeeps ==
  ASSUME StorageInv, ReconcileSweep
  PROVE  StorageInv'
  <1> USE DEF StorageInv
  <1> DEFINE f == [x \in Ids |-> IF S[x] = NoState THEN {} ELSE D[x]]
  <1>1. /\ op # NoOp /\ op.kind = "reconcile" /\ op.step = "begin" /\ op.todo = {} /\ up = "start"
        /\ dataLog' = Append(dataLog, f) /\ Goto("syncData") /\ "syncData" \in StepsOfKind(op.kind)
        /\ UNCHANGED <<up, stateLog, blob, synced, lapsed, crashes, acked, doomed>>
    BY DEF ReconcileSweep, At, StepsOfKind, Syncing, Typed, OperationTyped
  <1>2. /\ OperationTyped' /\ op' # NoOp /\ op'.step = "syncData" /\ op'.kind = op.kind
        /\ op'.id = op.id /\ op'.victim = op.victim /\ op'.todo = op.todo
    BY <1>1, GotoFact DEF Typed
  <1>3. f \in [Ids -> Datum] /\ dataLog \in Log(Datum)
    BY ViewFacts DEF Datum, Typed
  <1>4. \A x \in Ids : f[x] = IF S[x] = NoState THEN {} ELSE D[x]
    OBVIOUS
  <1> HIDE DEF f
  <1>5. /\ dataLog' \in Log(Datum) /\ D' = f /\ (PowerAhead' <=> PowerAhead)
        /\ Views(dataLog)' \subseteq Views(dataLog) \cup {f}
    BY <1>1, <1>3, AppendFact DEF D, Views, PowerAhead
  <1>6. StateKept
    BY <1>1, DirectoryKept
  <1>7. Typed'
    BY <1>1, <1>2, <1>5 DEF Typed
  <1>8. AllRecoverable'
    <2>1. SUFFICES ASSUME NEW x \in Ids, NEW s \in Views(stateLog), NEW d \in Views(dataLog)'
                   PROVE  Recoverable(blob[x], synced[x], acked[x], s[x], d[x])
      BY <1>1, <1>6 DEF AllRecoverable, StateKept
    <2>2. CASE d \in Views(dataLog)
      BY <2>2 DEF AllRecoverable
    <2>3. CASE d = f
      <3>1. CASE S[x] = NoState
        <4>1. \A c \in Chunks : acked[x][c] = Blank
          BY <3>1, ViewFacts DEF AllRecoverable, Recoverable, NoState, NoChunks
        <4>2. Recoverable(blob[x], synced[x], acked[x], s[x], D[x]) /\ s[x] \in Record
          BY ViewFacts DEF AllRecoverable
        <4> QED
          BY <1>4, <2>3, <3>1, <4>1, <4>2 DEF Recoverable, Sound, NoState, NoChunks, Record
      <3>2. CASE S[x] # NoState
        BY <1>4, <2>3, <3>2, ViewFacts DEF AllRecoverable
      <3> QED
        BY <3>1, <3>2
    <2> QED
      BY <1>5, <2>2, <2>3
  <1>9. \A x \in Ids : Matches(S'[x], D'[x])
    <2>1. SUFFICES ASSUME NEW x \in Ids
                   PROVE  Matches(S[x], f[x])
      BY <1>5, <1>6 DEF StateKept
    <2>2. S[x] = NoState \/ Matches(S[x], D[x])
      BY <1>1 DEF OperationFacts, Busy, Quiet, Removing, Syncing, Creating, Chunking, Publishing
    <2> QED
      BY <1>4, <2>2 DEF Matches, Sound, NoState
  <1>10. \A x \in Ids : Quiet(x)'
    BY <1>1, <1>2, <1>9 DEF Quiet
  <1>11. OperationFacts'
    BY <1>1, <1>2, <1>9, <1>10 DEF OperationFacts, RemovalFacts, CreationFacts, ChunkFacts, PublicationFacts,
                      Removing, Syncing, Creating, Chunking, Publishing
  <1> QED
    BY <1>7, <1>8, <1>11

\* Time passes, or nothing happens.
LEMMA LapseKeeps ==
  ASSUME StorageInv, UNCHANGED <<up, op, diskVars, crashes, acked, doomed>>, lapsed' \subseteq Ids
  PROVE  StorageInv'
  <1> USE DEF StorageInv
  <1>1. dataLog' = dataLog /\ stateLog' = stateLog /\ D' = D /\ S' = S
        /\ Views(dataLog)' = Views(dataLog) /\ Views(stateLog)' = Views(stateLog)
    BY DEF diskVars, D, S, Views, PowerAhead
  <1>2. Typed'
    BY <1>1 DEF Typed, OperationTyped, diskVars
  <1>3. AllRecoverable'
    BY <1>1 DEF AllRecoverable, diskVars
  <1>4. \A x \in Ids : (DataSettled(x)' <=> DataSettled(x)) /\ (StateSettled(x)' <=> StateSettled(x))
    BY <1>1 DEF DataSettled, StateSettled
  <1>5. \A x \in Ids : (Quiet(x)' <=> Quiet(x)) /\ (Busy(x)' <=> Busy(x))
    BY <1>1, <1>4 DEF Quiet, Settled, Busy
  <1>6. OperationFacts'
    <2>1. CASE op = NoOp
      BY <1>5, <2>1 DEF OperationFacts
    <2>2. CASE op # NoOp
      <3>1. op.victim \in Ids /\ op.id \in Ids
        BY <2>2 DEF Typed, OperationTyped
      <3>2. RemovalFacts' /\ CreationFacts' /\ ChunkFacts' /\ PublicationFacts'
        BY <1>1, <1>4, <2>2, <3>1 DEF OperationFacts, RemovalFacts, CreationFacts, ChunkFacts,
             PublicationFacts, diskVars
      <3> QED
        BY <1>5, <3>2 DEF OperationFacts
    <2> QED
      BY <2>1, <2>2
  <1> QED
    BY <1>2, <1>3, <1>6

LEMMA InitKeeps == Init => StorageInv
  <1> SUFFICES ASSUME Init PROVE StorageInv
    OBVIOUS
  <1>1. /\ NoState \in Record /\ NoChunks \in Content /\ NoChunks \in Listed /\ {} \in Datum
    BY DEF NoState, NoChunks, Record, Content, Listed, Datum
  <1> DEFINE d0 == [x \in Ids |-> {}]
             s0 == [x \in Ids |-> NoState]
  <1>2. /\ dataLog \in Log(Datum) /\ D = d0 /\ Views(dataLog) = {d0}
        /\ stateLog \in Log(Record) /\ S = s0 /\ Views(stateLog) = {s0}
    <2>1. d0 \in [Ids -> Datum] /\ s0 \in [Ids -> Record]
      BY <1>1
    <2>2. dataLog = <<d0>> /\ stateLog = <<s0>>
      BY DEF Init
    <2> HIDE DEF d0, s0
    <2> QED
      BY <2>1, <2>2, SyncFact DEF D, S, Views
  <1>3. Typed
    BY <1>1, <1>2 DEF Init, Typed, OperationTyped
  <1>4. AllRecoverable
    <2>1. SUFFICES ASSUME NEW x \in Ids
                   PROVE  Recoverable(NoChunks, NoChunks, NoChunks, NoState, {})
      BY <1>2 DEF Init, AllRecoverable
    <2> QED
      BY DEF Recoverable, NoState, NoChunks
  <1>5. \A x \in Ids : Quiet(x)
    BY <1>2 DEF Init, Quiet, Settled, DataSettled, StateSettled, Matches, Sound, NoState
  <1> QED
    BY <1>3, <1>4, <1>5 DEF StorageInv, OperationFacts, Init

LEMMA StepKeeps ==
  ASSUME KillsComeLast, StorageInv, [Next]_vars
  PROVE  StorageInv'
  <1>1. CASE Request
    <2>1. PICK x \in Ids :
            \/ Begin("create", x, "") \/ Begin("complete", x, "") \/ Begin("list", x, "")
            \/ \E c \in Chunks, v \in Values : Begin("chunk", x, <<c, v>>)
            \/ \E route \in Routes : Check(x, route) \/ Delete(x, route)
      BY <1>1 DEF Request
    <2>2. CASE Begin("create", x, "") \/ Begin("complete", x, "") \/ Begin("list", x, "")
      BY <2>2, BeginKeeps DEF Kinds
    <2>3. CASE \E c \in Chunks, v \in Values : Begin("chunk", x, <<c, v>>)
      BY <2>3, BeginKeeps DEF Kinds
    <2>4. ASSUME NEW route \in Routes, Check(x, route) PROVE StorageInv'
      BY <2>4, BeginKeeps DEF Check, Kinds
    <2>5. ASSUME NEW route \in Routes, Delete(x, route) PROVE StorageInv'
      BY <2>5, DeleteKeeps
    <2> QED
      BY <2>1, <2>2, <2>3, <2>4, <2>5
  <1>2. CASE Step
    BY <1>2, ExpireKeeps, ReconcileRecordKeeps, UnlinkDataKeeps, UnlinkStateKeeps, SyncDataKeeps,
       SyncStateKeeps, LookKeeps, CreatePartKeeps, CreateSyncPartKeeps, CreateStateKeeps,
       CreateDoneKeeps, ChunkRefusedKeeps, ChunkWriteKeeps, ChunkSyncKeeps, ChunkStateKeeps,
       ChunkDoneKeeps, CompleteCommittingKeeps, CompleteSyncKeeps, CompleteAgainKeeps,
       PublishKeeps, PublishSyncKeeps, PublishStateKeeps, PublishDoneKeeps, ReconcileSweepKeeps
       DEF Step
  <1>3. CASE Environment
    <2>1. ASSUME NEW x \in Ids, Lapse(x) PROVE StorageInv'
      BY <2>1, LapseKeeps DEF Lapse, StorageInv, Typed
    <2> QED
      BY <1>3, <2>1, CreateFailsKeeps, OperationFailsKeeps, CrashKeeps, RestartKeeps DEF Environment
  <1>4. CASE UNCHANGED vars
    BY <1>4, LapseKeeps DEF vars, StorageInv, Typed
  <1> QED
    BY <1>1, <1>2, <1>3, <1>4 DEF Next

\* Between operations, what recovery would keep is what the process sees.
LEMMA InvariantSuffices == StorageInv => UploadsDurable
  <1> SUFFICES ASSUME StorageInv, Quiescent, NEW x \in Ids
               PROVE  /\ S[x] = NoState <=> D[x] = {}
                      /\ Intact(x)
                      /\ \A c \in Chunks : S[x].chunks[c] # Blank => blob[x][c] = S[x].chunks[c]
                      /\ S[x].status \in {"committing", "complete"} => \A c \in Chunks : S[x].chunks[c] # Blank
                      /\ \A c \in Chunks : acked[x][c] # Blank =>
                           S[x].chunks[c] = acked[x][c] /\ blob[x][c] = acked[x][c]
    BY DEF UploadsDurable, StateMatchesData, AckedChunksSurvive
  <1>1. Recoverable(blob[x], synced[x], acked[x], S[x], D[x]) /\ S[x] \in Record
    BY ViewFacts DEF StorageInv, AllRecoverable
  <1>2. Matches(S[x], D[x])
    BY DEF StorageInv, OperationFacts, Busy, Quiet, Quiescent
  <1> QED
    BY <1>1, <1>2 DEF Recoverable, Matches, Sound, Intact, NoState, Record

(***************************************************************************)
(* The store keeps what it promised: whenever no operation runs, after     *)
(* any number of crashes and recoveries, records and data files agree and  *)
(* every acknowledged chunk is listed and readable.                        *)
(***************************************************************************)
THEOREM StorageUploadsDurable == ASSUME KillsComeLast PROVE Spec => []UploadsDurable
  <1>1. Init => StorageInv
    BY InitKeeps
  <1>2. StorageInv /\ [Next]_vars => StorageInv'
    BY StepKeeps
  <1>3. StorageInv => UploadsDurable
    BY InvariantSuffices
  <1> QED
    BY <1>1, <1>2, <1>3, PTL DEF Spec
-----------------------------------------------------------------------------
(***************************************************************************)
(* What an outage would leave of the encrypted uploads evolves like        *)
(* UploadRegister.  At most one id is in between two of the register's     *)
(* states; for every other id all outcomes of an outage are the same.      *)
(***************************************************************************)
Absent == [status |-> "absent", chunks |-> NoChunks]

\* What recovery makes of a pair of record and data.
Outcome(s, d) ==
  LET kept == CASE s.status = "partial"    -> d = {"part"}
                [] s.status = "committing" -> d # {}
                [] s.status = "complete"   -> d = {"xfr"}
                [] OTHER                   -> FALSE
  IN  IF kept THEN [status |-> IF s.status = "partial" THEN "partial" ELSE "complete",
                    chunks |-> s.chunks]
      ELSE Absent

\* The outcome o of id x is n after one step of the register, or still o.
Created(o, n) == o = Absent /\ n = [status |-> "partial", chunks |-> NoChunks]
Received(o, n) ==
  o.status = "partial" /\ \E c \in Chunks, v \in Values :
    o.chunks[c] = Blank /\ n = [status |-> "partial", chunks |-> [o.chunks EXCEPT ![c] = v]]
Published(o, n) ==
  /\ o.status = "partial" /\ \A c \in Chunks : o.chunks[c] # Blank
  /\ n = [status |-> "complete", chunks |-> o.chunks]
Evolves(x, o, n) ==
  n = o \/ Created(o, n) \/ Received(o, n) \/ Published(o, n) \/ (x \in doomed /\ n = Absent)

\* The id whose outcome the running operation is about to change.
Moving(x) ==
  /\ op # NoOp
  /\ \/ x = op.victim /\ op.step \in Removing \cup {"syncData"} /\ op.kind # "reconcile"
     \/ x = op.id /\ op.step \in {"syncNew", "syncChunk", "syncCommitting"}

\* Every outage leaves the same, or the next state of the register.
SameInAll(x) == \A s \in Views(stateLog), d \in Views(dataLog) : Outcome(s[x], d[x]) = OnDisk(x)
Reach(x) == \A s \in Views(stateLog), d \in Views(dataLog) : Evolves(x, OnDisk(x), Outcome(s[x], d[x]))

\* The removals of the running operation are entitled to what they do.
RemovalsEntitled ==
  op # NoOp =>
    /\ (op.step \in Removing /\ op.kind = "reconcile") => OnDisk(op.victim) = Absent
    /\ (op.step \in Removing \cup {"syncData"} /\ op.kind # "reconcile") => op.victim \in doomed

OneMoves ==
  /\ \A x \in Ids : Reach(x) /\ (~Moving(x) => SameInAll(x))
  /\ RemovalsEntitled

(***************************************************************************)
(* The inductive invariant of the refinement.                              *)
(***************************************************************************)
RegisterInv == StorageInv /\ OneMoves

\* One id at most changes, by a step of the register.
RegisterStep ==
  \E v \in Ids :
    /\ Evolves(v, OnDisk(v), OnDisk(v)')
    /\ \A y \in Ids \ {v} : OnDisk(y)' = OnDisk(y)
-----------------------------------------------------------------------------
LEMMA OnDiskFact ==
  Typed => \A x \in Ids : \E s \in Views(stateLog), d \in Views(dataLog) :
             OnDisk(x) = Outcome(s[x], d[x])
  <1> SUFFICES ASSUME Typed, NEW x \in Ids
               PROVE  \E s \in Views(stateLog), d \in Views(dataLog) : OnDisk(x) = Outcome(s[x], d[x])
    OBVIOUS
  <1>1. Lasting(dataLog) \in Views(dataLog) /\ Lasting(stateLog) \in Views(stateLog)
    BY LastFact DEF Typed, Lasting, Views
  <1>2. OnDisk(x) = Outcome(Lasting(stateLog)[x], Lasting(dataLog)[x])
    BY DEF OnDisk, Outcome, Absent
  <1> QED
    BY <1>1, <1>2

LEMMA OnDiskNext ==
  Typed' => \A x \in Ids : \E s \in Views(stateLog)', d \in Views(dataLog)' :
              OnDisk(x)' = Outcome(s[x], d[x])
  <1>1. (Typed => \A x \in Ids : \E s \in Views(stateLog), d \in Views(dataLog) :
                    OnDisk(x) = Outcome(s[x], d[x]))'
    BY OnDiskFact, PTL
  <1> QED
    BY <1>1

\* Ids whose part of the two directories a step leaves alone.
LEMMA OthersStay ==
  ASSUME RegisterInv, StorageInv', NEW v \in Ids, DataStep(v), StateStep(v),
         NEW y \in Ids, y # v, ~Moving(y)
  PROVE  OnDisk(y)' = OnDisk(y) /\ SameInAll(y)' /\ Reach(y)'
  <1>1. ASSUME NEW s \in Views(stateLog)', NEW d \in Views(dataLog)'
        PROVE  Outcome(s[y], d[y]) = OnDisk(y)
    <2>1. \E s0 \in Views(stateLog) : s0[y] = s[y]
      BY ViewFacts DEF StateStep, StateKept, StateSynced, StatePut, RegisterInv, StorageInv
    <2>2. \E d0 \in Views(dataLog) : d0[y] = d[y]
      BY ViewFacts DEF DataStep, DataKept, DataSynced, DataPut, RegisterInv, StorageInv
    <2> QED
      BY <2>1, <2>2 DEF RegisterInv, OneMoves, SameInAll
  <1>2. OnDisk(y)' = OnDisk(y)
    <2>1. \E s \in Views(stateLog)', d \in Views(dataLog)' : OnDisk(y)' = Outcome(s[y], d[y])
      BY OnDiskNext DEF StorageInv
    <2> QED
      BY <1>1, <2>1
  <1> QED
    BY <1>1, <1>2 DEF SameInAll, Reach, Evolves
-----------------------------------------------------------------------------
\* Four ways for a step to be one of the register.

\* Nothing on disk changes, and an id in between stays in between.
LEMMA StillStep ==
  ASSUME RegisterInv, dataLog' = dataLog, stateLog' = stateLog, crashes' = crashes,
         doomed \subseteq doomed', \A x \in Ids : Moving(x) => Moving(x)', RemovalsEntitled'
  PROVE  OneMoves' /\ RegisterStep
  <1>1. /\ \A x \in Ids : OnDisk(x)' = OnDisk(x)
        /\ Views(dataLog)' = Views(dataLog) /\ Views(stateLog)' = Views(stateLog)
    BY DEF OnDisk, Lasting, PowerAhead, Views
  <1>2. \A x \in Ids : Reach(x)' /\ (~Moving(x)' => SameInAll(x)')
    BY <1>1 DEF RegisterInv, OneMoves, Reach, SameInAll, Evolves
  <1>3. RegisterStep
    BY <1>1, StorageAssumption DEF RegisterStep, Evolves
  <1> QED
    BY <1>2, <1>3 DEF OneMoves

\* Whatever an outage leaves of the id is what it left before.
LEMMA SteadyStep ==
  ASSUME RegisterInv, StorageInv', NEW v \in Ids, DataStep(v), StateStep(v),
         \A y \in Ids : y # v => ~Moving(y),
         \A s \in Views(stateLog)', d \in Views(dataLog)' : Outcome(s[v], d[v]) = OnDisk(v),
         RemovalsEntitled'
  PROVE  OneMoves' /\ RegisterStep
  <1>1. \A y \in Ids : y # v => OnDisk(y)' = OnDisk(y) /\ SameInAll(y)' /\ Reach(y)'
    BY OthersStay
  <1>2. OnDisk(v)' = OnDisk(v)
    BY OnDiskNext DEF StorageInv
  <1>3. SameInAll(v)' /\ Reach(v)'
    BY <1>2 DEF SameInAll, Reach, Evolves
  <1> QED
    BY <1>1, <1>2, <1>3 DEF OneMoves, RegisterStep, Evolves

\* An fsync or an outage leaves one outcome of those there were.
LEMMA SettleStep ==
  ASSUME RegisterInv, StorageInv', NEW v \in Ids,
         Views(dataLog)' \subseteq Views(dataLog), Views(stateLog)' \subseteq Views(stateLog),
         \A y \in Ids : y # v => ~Moving(y),
         NEW o, \A s \in Views(stateLog)', d \in Views(dataLog)' : Outcome(s[v], d[v]) = o,
         RemovalsEntitled'
  PROVE  OneMoves' /\ RegisterStep
  <1>1. ASSUME NEW y \in Ids, y # v PROVE OnDisk(y)' = OnDisk(y) /\ SameInAll(y)' /\ Reach(y)'
    <2>1. \A s \in Views(stateLog)', d \in Views(dataLog)' : Outcome(s[y], d[y]) = OnDisk(y)
      BY <1>1 DEF RegisterInv, OneMoves, SameInAll
    <2>2. OnDisk(y)' = OnDisk(y)
      BY <2>1, OnDiskNext DEF StorageInv
    <2> QED
      BY <2>1, <2>2 DEF SameInAll, Reach, Evolves
  <1>2. OnDisk(v)' = o /\ Evolves(v, OnDisk(v), OnDisk(v)')
    BY OnDiskNext DEF StorageInv, RegisterInv, OneMoves, Reach
  <1>3. SameInAll(v)' /\ Reach(v)'
    BY <1>2 DEF SameInAll, Reach, Evolves
  <1> QED
    BY <1>1, <1>2, <1>3 DEF OneMoves, RegisterStep

\* A change that a later fsync settles: it may or may not outlive an outage.
LEMMA AdvanceStep ==
  ASSUME RegisterInv, StorageInv', NEW v \in Ids, DataStep(v), StateStep(v),
         \A y \in Ids : y # v => ~Moving(y),
         \A s \in Views(stateLog)', d \in Views(dataLog)' : Evolves(v, OnDisk(v), Outcome(s[v], d[v])),
         doomed \subseteq doomed', PowerAhead' => OnDisk(v)' = OnDisk(v),
         Moving(v)', RemovalsEntitled'
  PROVE  OneMoves' /\ RegisterStep
  <1>1. \A y \in Ids : y # v => OnDisk(y)' = OnDisk(y) /\ SameInAll(y)' /\ Reach(y)'
    BY OthersStay
  <1>2. Evolves(v, OnDisk(v), OnDisk(v)')
    BY OnDiskNext DEF StorageInv
  <1>3. Reach(v)'
    <2>1. CASE PowerAhead'
      BY <2>1 DEF Reach, Evolves
    <2>2. CASE ~PowerAhead'
      BY <2>2, OnDiskNext DEF StorageInv, Reach, Evolves, Views
    <2> QED
      BY <2>1, <2>2
  <1> QED
    BY <1>1, <1>2, <1>3 DEF OneMoves, RegisterStep

\* While a loss of power may come, what is appended to a log is not on disk yet.
LEMMA AppendedLater ==
  ASSUME Typed, crashes' = crashes, NEW v \in Ids,
         dataLog' = dataLog \/ \E e \in Datum : dataLog' = Put(dataLog, v, e),
         stateLog' = stateLog \/ \E e \in Record : stateLog' = Put(stateLog, v, e)
  PROVE  PowerAhead' => \A x \in Ids : OnDisk(x)' = OnDisk(x)
  <1>1. Head(dataLog') = Head(dataLog)
    <2>1. ASSUME NEW e \in Datum, dataLog' = Put(dataLog, v, e) PROVE Head(dataLog') = Head(dataLog)
      <3> DEFINE f == [D EXCEPT ![v] = e]
      <3>1. dataLog \in Log(Datum) /\ f \in [Ids -> Datum] /\ dataLog' = Append(dataLog, f)
        BY <2>1, ViewFacts DEF Typed, Put, D
      <3> HIDE DEF f
      <3> QED
        BY <3>1, AppendFact
    <2> QED
      BY <2>1
  <1>2. Head(stateLog') = Head(stateLog)
    <2>1. ASSUME NEW e \in Record, stateLog' = Put(stateLog, v, e) PROVE Head(stateLog') = Head(stateLog)
      <3> DEFINE f == [S EXCEPT ![v] = e]
      <3>1. stateLog \in Log(Record) /\ f \in [Ids -> Record] /\ stateLog' = Append(stateLog, f)
        BY <2>1, ViewFacts DEF Typed, Put, S
      <3> HIDE DEF f
      <3> QED
        BY <3>1, AppendFact
    <2> QED
      BY <2>1
  <1> QED
    BY <1>1, <1>2 DEF OnDisk, Lasting, PowerAhead
-----------------------------------------------------------------------------
\* Steps after which the two directories are what they were.
LEMMA LookMoves ==
  ASSUME RegisterInv, StorageInv', crashes' = crashes, doomed' = doomed, dataLog' = dataLog, stateLog' = stateLog,
         op # NoOp => op.step \in {"begin", "syncBlob", "putState", "publish", "putComplete"},
         op' # NoOp => op'.step \in {"begin", "syncBlob", "putState", "publish", "putComplete"}
  PROVE  OneMoves' /\ RegisterStep
  <1>1. \A x \in Ids : ~Moving(x)
    BY DEF Moving, Removing
  <1>2. RemovalsEntitled'
    BY DEF RemovalsEntitled, Removing
  <1> QED
    BY <1>1, <1>2, StillStep

LEMMA BeginMoves ==
  ASSUME RegisterInv, StorageInv', NEW kind, NEW x \in Ids, NEW arg, Begin(kind, x, arg)
  PROVE  OneMoves' /\ RegisterStep
  <1>1. op = NoOp /\ op'.step = "begin" /\ UNCHANGED <<diskVars, crashes, doomed>>
    BY DEF Begin
  <1> QED
    BY <1>1, LookMoves DEF diskVars

LEMMA ReturnMoves ==
  ASSUME RegisterInv, StorageInv',
         \/ CheckResult \/ ListFiles \/ CreateExisting \/ CompleteRefused \/ ChunkRefused
         \/ CompleteAgain \/ OperationFails
  PROVE  OneMoves' /\ RegisterStep
  <1>1. op # NoOp /\ UNCHANGED <<diskVars, crashes, doomed>>
    BY DEF CheckResult, ListFiles, CreateExisting, CompleteRefused, ChunkRefused, CompleteAgain,
           OperationFails, Ready, At
  <1>2. op.step \in {"begin", "putState", "publish", "putComplete"}
    BY DEF CheckResult, ListFiles, CreateExisting, CompleteRefused, ChunkRefused, CompleteAgain,
           OperationFails, Ready, At
  <1>3. op' # NoOp => op'.step = "publish"
    <2>1. CASE CompleteAgain
      BY <1>1, <2>1, GotoFact DEF CompleteAgain, Ready, At, RegisterInv, StorageInv, Typed, StepsOfKind, Publishing
    <2>2. CASE ~CompleteAgain
      BY <2>2 DEF CheckResult, ListFiles, CreateExisting, CompleteRefused, ChunkRefused, OperationFails, Done
    <2> QED
      BY <2>1, <2>2
  <1> QED
    BY <1>1, <1>2, <1>3, LookMoves DEF diskVars

LEMMA ChunkBytesMove ==
  ASSUME RegisterInv, StorageInv', ChunkWrite \/ ChunkSync
  PROVE  OneMoves' /\ RegisterStep
  <1>1. /\ op # NoOp /\ op.kind = "chunk" /\ op.step \in {"begin", "syncBlob"}
        /\ UNCHANGED <<dataLog, stateLog, crashes, doomed, up>>
        /\ Done \/ Goto("syncBlob") \/ Goto("putState")
    BY DEF ChunkWrite, ChunkSync, Ready, At
  <1>2. op' # NoOp => op'.step \in {"syncBlob", "putState"}
    BY <1>1, GotoFact DEF RegisterInv, StorageInv, Typed, StepsOfKind, Chunking, Done
  <1> QED
    BY <1>1, <1>2, LookMoves

LEMMA RestartMoves ==
  ASSUME RegisterInv, StorageInv', Restart
  PROVE  OneMoves' /\ RegisterStep
  <1>1. op = NoOp /\ op'.step = "begin" /\ UNCHANGED <<diskVars, crashes, doomed>>
    BY DEF Restart, RegisterInv, StorageInv, Typed, OperationTyped
  <1> QED
    BY <1>1, LookMoves DEF diskVars

LEMMA LapseMoves ==
  ASSUME RegisterInv, StorageInv', UNCHANGED <<op, dataLog, stateLog, crashes, doomed>>
  PROVE  OneMoves' /\ RegisterStep
  <1>1. \A x \in Ids : Moving(x) => Moving(x)'
    BY DEF Moving
  <1>2. RemovalsEntitled'
    BY DEF RegisterInv, OneMoves, RemovalsEntitled, OnDisk, Lasting, PowerAhead
  <1> QED
    BY <1>1, <1>2, StillStep

\* A removal begins: its id may now leave.
LEMMA DoomMoves ==
  ASSUME RegisterInv, StorageInv', NEW x \in Ids, UNCHANGED <<dataLog, stateLog, crashes>>,
         doomed' = doomed \cup {x}, op # NoOp => op.step \in Creating \cup {"begin"},
         op # NoOp /\ op.step \in Creating => op.id = x,
         op' # NoOp, op'.victim = x, op'.step = "unlinkData", op'.kind # "reconcile"
  PROVE  OneMoves' /\ RegisterStep
  <1>1. \A y \in Ids : Moving(y) => Moving(y)'
    BY DEF Moving, Removing, Creating
  <1>2. RemovalsEntitled'
    BY DEF RemovalsEntitled
  <1> QED
    BY <1>1, <1>2, StillStep

LEMMA RemovalBegins ==
  ASSUME RegisterInv, StorageInv',
         \/ CreateFails
         \/ \E x \in Ids : Expire(x) \/ \E route \in Routes : Delete(x, route)
  PROVE  OneMoves' /\ RegisterStep
  <1> USE DEF RegisterInv, StorageInv, Typed, OperationTyped
  <1>1. CASE CreateFails
    <2>1. PICK x \in Ids : x = op.id
      BY <1>1 DEF CreateFails
    <2>2. /\ op # NoOp /\ op.kind = "create" /\ op.step \in Creating
          /\ UNCHANGED <<dataLog, stateLog, crashes>> /\ doomed' = doomed \cup {x}
          /\ op'.kind = "delete" /\ op'.victim = x /\ op'.step = "unlinkData" /\ op' # NoOp
      BY <1>1, <2>1 DEF CreateFails, Doom, diskVars, Creating, NoOp
    <2> QED
      BY <2>1, <2>2, DoomMoves
  <1>2. ASSUME NEW x \in Ids, Expire(x) PROVE OneMoves' /\ RegisterStep
    <2>1. /\ op # NoOp /\ op.kind # "reconcile" /\ op.step = "begin"
          /\ UNCHANGED <<dataLog, stateLog, crashes>> /\ doomed' = doomed \cup {x}
          /\ op'.kind # "reconcile" /\ op'.victim = x /\ op'.step = "unlinkData" /\ op' # NoOp
      BY <1>2 DEF Expire, Doom, diskVars, NoOp
    <2> QED
      BY <2>1, DoomMoves DEF Creating
  <1>3. ASSUME NEW x \in Ids, NEW route \in Routes, Delete(x, route) PROVE OneMoves' /\ RegisterStep
    <2>1. /\ op = NoOp
          /\ UNCHANGED <<dataLog, stateLog, crashes>> /\ doomed' = doomed \cup {x}
          /\ op'.kind = "delete" /\ op'.victim = x /\ op'.step = "unlinkData" /\ op' # NoOp
      BY <1>3 DEF Delete, Doom, diskVars, NoOp
    <2> QED
      BY <2>1, DoomMoves DEF Creating
  <1> QED
    BY <1>1, <1>2, <1>3

LEMMA ReconcileRecordMoves ==
  ASSUME RegisterInv, StorageInv', NEW x \in Ids, ReconcileRecord(x)
  PROVE  OneMoves' /\ RegisterStep
  <1> USE DEF RegisterInv
  <1>1. /\ op # NoOp /\ op.kind = "reconcile" /\ op.step = "begin" /\ x \in op.todo /\ up = "start"
        /\ UNCHANGED <<dataLog, stateLog, crashes, doomed>> /\ op'.victim = x
        /\ op'.kind = "reconcile" /\ op'.step \in {"unlinkData", "publish", "begin"}
        /\ op'.step = "unlinkData" => ~Intact(x)
    BY DEF ReconcileRecord, At, StorageInv, Typed, OperationTyped, diskVars
  <1>2. Intact(x) <=> Sound(S[x], D[x])
    BY DEF Intact, Sound
  <1>3. \A y \in Ids : ~Moving(y)
    BY <1>1 DEF Moving, Removing
  <1>4. ASSUME ~Sound(S[x], D[x]) PROVE OnDisk(x) = Absent
    <2>1. Outcome(S[x], D[x]) = OnDisk(x)
      BY <1>3, ViewFacts DEF OneMoves, SameInAll, StorageInv
    <2>2. S[x] \in Record /\ D[x] \in Datum
      BY ViewFacts DEF StorageInv
    <2> QED
      BY <1>4, <2>1, <2>2 DEF Outcome, Sound, Record, Datum
  <1>5. OnDisk(x)' = OnDisk(x)
    BY <1>1 DEF OnDisk, Lasting, PowerAhead
  <1>6. RemovalsEntitled'
    BY <1>1, <1>2, <1>4, <1>5 DEF RemovalsEntitled, Removing
  <1> QED
    BY <1>1, <1>3, <1>6, StillStep
-----------------------------------------------------------------------------
\* Who may be in between, at a step of an operation.
LEMMA OnlyVictim ==
  ASSUME op # NoOp, op.step \in Removing \cup Syncing
  PROVE  \A y \in Ids : y # op.victim => ~Moving(y)
  BY DEF Moving, Removing, Syncing

LEMMA OnlyId ==
  ASSUME op # NoOp, op.step \notin Removing \cup Syncing
  PROVE  \A y \in Ids : y # op.id => ~Moving(y)
  BY DEF Moving, Removing, Syncing

LEMMA UnlinkDataMoves ==
  ASSUME RegisterInv, StorageInv', UnlinkData
  PROVE  OneMoves' /\ RegisterStep
  <1> USE DEF RegisterInv, StorageInv
  <1>0. PICK v \in Ids : v = op.victim
    BY DEF UnlinkData, Typed, OperationTyped
  <1>1. /\ op # NoOp /\ op.step = "unlinkData" /\ dataLog' = Put(dataLog, v, {})
        /\ UNCHANGED <<up, stateLog, crashes, doomed>> /\ Goto("unlinkState")
        /\ "unlinkState" \in StepsOfKind(op.kind)
    BY <1>0 DEF UnlinkData, Typed, OperationTyped, StepsOfKind, Removing
  <1>2. /\ op' # NoOp /\ op'.step = "unlinkState" /\ op'.kind = op.kind /\ op'.victim = v
    BY <1>0, <1>1, GotoFact DEF Typed
  <1>3. DataPut(v, {}) /\ StateKept
    BY <1>1, DirectoryPut, DirectoryKept DEF Datum
  <1>4. \A y \in Ids : y # v => ~Moving(y)
    BY <1>0, <1>1, OnlyVictim DEF Removing
  <1>5. \A s \in Views(stateLog)', d \in Views(dataLog)' :
          s \in Views(stateLog) /\ (d \in Views(dataLog) \/ Outcome(s[v], d[v]) = Absent)
    BY <1>3, ViewFacts DEF StateKept, DataPut, Outcome
  <1>6. CASE op.kind = "reconcile"
    <2>1. OnDisk(v) = Absent /\ SameInAll(v)
      BY <1>0, <1>1, <1>6 DEF OneMoves, RemovalsEntitled, Removing, Moving
    <2>2. \A s \in Views(stateLog)', d \in Views(dataLog)' : Outcome(s[v], d[v]) = OnDisk(v)
      BY <1>5, <2>1 DEF SameInAll
    <2>3. OnDisk(v)' = Absent
      BY <2>1, <2>2, OnDiskNext
    <2>4. RemovalsEntitled'
      BY <1>2, <1>6, <2>3 DEF RemovalsEntitled
    <2> QED
      BY <1>3, <1>4, <2>2, <2>4, SteadyStep DEF DataStep, StateStep, Datum
  <1>7. CASE op.kind # "reconcile"
    <2>1. v \in doomed
      BY <1>0, <1>1, <1>7 DEF OneMoves, RemovalsEntitled, Removing
    <2>2. \A s \in Views(stateLog)', d \in Views(dataLog)' : Evolves(v, OnDisk(v), Outcome(s[v], d[v]))
      BY <1>5, <2>1 DEF OneMoves, Reach, Evolves
    <2>3. RemovalsEntitled' /\ Moving(v)'
      BY <1>1, <1>2, <1>7, <2>1 DEF RemovalsEntitled, Moving, Removing
    <2>4. PowerAhead' => OnDisk(v)' = OnDisk(v)
      BY <1>1, AppendedLater DEF Datum
    <2> QED
      BY <1>1, <1>3, <1>4, <2>2, <2>3, <2>4, AdvanceStep DEF DataStep, StateStep, Datum
  <1> QED
    BY <1>6, <1>7

LEMMA UnlinkStateMoves ==
  ASSUME RegisterInv, StorageInv', UnlinkState
  PROVE  OneMoves' /\ RegisterStep
  <1> USE DEF RegisterInv, StorageInv
  <1> DEFINE st == IF op.kind = "reconcile" THEN "begin" ELSE "syncData"
  <1>0. PICK v \in Ids : v = op.victim
    BY DEF UnlinkState, Typed, OperationTyped
  <1>1. /\ op # NoOp /\ op.step = "unlinkState" /\ stateLog' = Put(stateLog, v, NoState)
        /\ UNCHANGED <<up, dataLog, crashes, doomed>> /\ Goto(st)
        /\ st \in StepsOfKind(op.kind) /\ NoState \in Record
    BY <1>0 DEF UnlinkState, Typed, OperationTyped, StepsOfKind, Syncing, NoState, NoChunks, Record
  <1>2. /\ op' # NoOp /\ op'.step = st /\ op'.kind = op.kind /\ op'.victim = v
    BY <1>0, <1>1, GotoFact DEF Typed
  <1>3. StatePut(v, NoState) /\ DataKept
    BY <1>1, DirectoryPut, DirectoryKept
  <1>4. \A y \in Ids : y # v => ~Moving(y)
    BY <1>0, <1>1, OnlyVictim DEF Removing
  <1>5. \A s \in Views(stateLog)', d \in Views(dataLog)' :
          d \in Views(dataLog) /\ (s \in Views(stateLog) \/ Outcome(s[v], d[v]) = Absent)
    BY <1>3, ViewFacts DEF DataKept, StatePut, Outcome, NoState
  <1>6. CASE op.kind = "reconcile"
    <2>1. OnDisk(v) = Absent /\ SameInAll(v)
      BY <1>0, <1>1, <1>6 DEF OneMoves, RemovalsEntitled, Removing, Moving
    <2>2. \A s \in Views(stateLog)', d \in Views(dataLog)' : Outcome(s[v], d[v]) = OnDisk(v)
      BY <1>5, <2>1 DEF SameInAll
    <2>3. RemovalsEntitled'
      BY <1>2, <1>6 DEF RemovalsEntitled, Removing
    <2> QED
      BY <1>1, <1>3, <1>4, <2>2, <2>3, SteadyStep DEF DataStep, StateStep
  <1>7. CASE op.kind # "reconcile"
    <2>1. v \in doomed
      BY <1>0, <1>1, <1>7 DEF OneMoves, RemovalsEntitled, Removing
    <2>2. \A s \in Views(stateLog)', d \in Views(dataLog)' : Evolves(v, OnDisk(v), Outcome(s[v], d[v]))
      BY <1>5, <2>1 DEF OneMoves, Reach, Evolves
    <2>3. RemovalsEntitled' /\ Moving(v)'
      BY <1>1, <1>2, <1>7, <2>1 DEF RemovalsEntitled, Moving, Removing
    <2>4. PowerAhead' => OnDisk(v)' = OnDisk(v)
      BY <1>1, AppendedLater
    <2> QED
      BY <1>1, <1>3, <1>4, <2>2, <2>3, <2>4, AdvanceStep DEF DataStep, StateStep
  <1> QED
    BY <1>6, <1>7

LEMMA SyncDataMoves ==
  ASSUME RegisterInv, StorageInv', SyncData
  PROVE  OneMoves' /\ RegisterStep
  <1> USE DEF RegisterInv, StorageInv
  <1>0. PICK v \in Ids : v = op.victim
    BY DEF SyncData, Typed, OperationTyped
  <1>1. /\ op # NoOp /\ op.step = "syncData" /\ dataLog' = Sync(dataLog)
        /\ UNCHANGED <<up, stateLog, crashes>> /\ Goto("syncState") /\ "syncState" \in StepsOfKind(op.kind)
    BY DEF SyncData, StepsOfKind, Syncing
  <1>2. op'.step = "syncState"
    BY <1>0, <1>1, GotoFact DEF Typed
  <1>3. DataSynced /\ StateKept
    BY <1>1, DirectorySynced, DirectoryKept
  <1>4. \A y \in Ids : y # v => ~Moving(y)
    BY <1>0, <1>1, OnlyVictim DEF Syncing
  <1>5. Views(dataLog)' = {D} /\ Views(dataLog)' \subseteq Views(dataLog) /\ Views(stateLog)' \subseteq Views(stateLog)
    BY <1>3, ViewFacts DEF DataSynced, StateKept
  <1>6. RemovalsEntitled'
    BY <1>2 DEF RemovalsEntitled, Removing
  <1>7. CASE op.kind = "reconcile"
    <2>1. SameInAll(v)
      BY <1>1, <1>7 DEF OneMoves, Moving
    <2>2. \A s \in Views(stateLog)', d \in Views(dataLog)' : Outcome(s[v], d[v]) = OnDisk(v)
      BY <1>5, <2>1 DEF SameInAll
    <2> QED
      BY <1>4, <1>5, <1>6, <2>2, SettleStep
  <1>8. CASE op.kind # "reconcile"
    <2>1. D[v] = {}
      BY <1>0, <1>1, <1>8 DEF OperationFacts, RemovalFacts, Syncing
    <2>2. \A s \in Views(stateLog)', d \in Views(dataLog)' : Outcome(s[v], d[v]) = Absent
      BY <1>5, <2>1 DEF Outcome
    <2> QED
      BY <1>4, <1>5, <1>6, <2>2, SettleStep
  <1> QED
    BY <1>7, <1>8

\* An fsync while every outage leaves the same.
LEMMA QuietSync ==
  ASSUME RegisterInv, StorageInv', \A x \in Ids : ~Moving(x),
         Views(dataLog)' \subseteq Views(dataLog), Views(stateLog)' \subseteq Views(stateLog),
         op' # NoOp => op'.step \in {"begin", "putState", "putComplete"}
  PROVE  OneMoves' /\ RegisterStep
  <1>1. PICK v \in Ids : TRUE
    BY StorageAssumption
  <1>2. \A s \in Views(stateLog)', d \in Views(dataLog)' : Outcome(s[v], d[v]) = OnDisk(v)
    BY DEF RegisterInv, OneMoves, SameInAll
  <1>3. RemovalsEntitled'
    BY DEF RemovalsEntitled, Removing
  <1> QED
    BY <1>2, <1>3, SettleStep

LEMMA QuietSyncs ==
  ASSUME RegisterInv, StorageInv', SyncState \/ CreateSyncPart \/ PublishSync \/ PublishDone
  PROVE  OneMoves' /\ RegisterStep
  <1> USE DEF RegisterInv, StorageInv
  <1>1. op # NoOp /\ op.step \in {"syncState", "syncPart", "syncRename", "syncComplete"} /\ crashes' = crashes
    BY DEF SyncState, CreateSyncPart, PublishSync, PublishDone, At
  <1>2. \A x \in Ids : ~Moving(x)
    BY <1>1 DEF Moving, Removing
  <1>3. \/ dataLog' = dataLog /\ stateLog' = Sync(stateLog)
        \/ dataLog' = Sync(dataLog) /\ stateLog' = stateLog
    BY DEF SyncState, CreateSyncPart, PublishSync, PublishDone
  <1>4. Views(dataLog)' \subseteq Views(dataLog) /\ Views(stateLog)' \subseteq Views(stateLog)
    BY <1>1, <1>3, DirectorySynced, DirectoryKept, ViewFacts DEF DataKept, DataSynced, StateKept, StateSynced
  <1>5. op' # NoOp => op'.step \in {"begin", "putState", "putComplete"}
    <2>1. CASE SyncState
      <3>1. \/ op' = NoOp \/ op' = [op EXCEPT !.kind = "list", !.step = "begin"] \/ op' = [op EXCEPT !.step = "begin"]
        BY <2>1 DEF SyncState, Done, Goto
      <3> QED
        BY <1>1, <3>1 DEF Typed, OperationTyped, NoOp
    <2>2. CASE CreateSyncPart \/ PublishSync \/ PublishDone
      <3>1. \/ op' = NoOp \/ op' = [op EXCEPT !.step = "begin"]
            \/ op' = [op EXCEPT !.step = "putState"] \/ op' = [op EXCEPT !.step = "putComplete"]
        BY <2>2 DEF CreateSyncPart, PublishSync, PublishDone, Done, Goto
      <3> QED
        BY <1>1, <3>1 DEF Typed, OperationTyped, NoOp
    <2> QED
      BY <2>1, <2>2
  <1> QED
    BY <1>2, <1>4, <1>5, QuietSync
-----------------------------------------------------------------------------
\* Steps that bring an id from one state of the register towards the next.
LEMMA CreatePartMoves ==
  ASSUME RegisterInv, StorageInv', CreatePart
  PROVE  OneMoves' /\ RegisterStep
  <1> USE DEF RegisterInv, StorageInv
  <1>0. PICK a \in Ids : a = op.id
    BY DEF CreatePart, Ready, At, Typed, OperationTyped
  <1>1. /\ op # NoOp /\ op.kind = "create" /\ op.step = "begin" /\ S[a] = NoState
        /\ dataLog' = Put(dataLog, a, {"part"})
        /\ UNCHANGED <<up, stateLog, crashes>> /\ Goto("syncPart") /\ "syncPart" \in StepsOfKind(op.kind)
    BY <1>0 DEF CreatePart, Ready, At, StepsOfKind, Creating
  <1>2. op'.step = "syncPart"
    BY <1>1, GotoFact DEF Typed
  <1>3. DataPut(a, {"part"}) /\ StateKept
    BY <1>1, DirectoryPut, DirectoryKept DEF Datum
  <1>4. \A y \in Ids : ~Moving(y)
    BY <1>1 DEF Moving, Removing
  <1>5. Settled(a)
    BY ReadyFact DEF CreatePart, Ready, Kinds
  <1>6. \A s \in Views(stateLog) : s[a] = NoState /\ \A d : Outcome(s[a], d) = Absent
    BY <1>1, <1>5 DEF Settled, StateSettled, Outcome, NoState
  <1>7. OnDisk(a) = Absent
    BY <1>6, OnDiskFact
  <1>8. \A s \in Views(stateLog)', d \in Views(dataLog)' : Outcome(s[a], d[a]) = OnDisk(a)
    BY <1>3, <1>6, <1>7 DEF StateKept
  <1>9. RemovalsEntitled'
    BY <1>2 DEF RemovalsEntitled, Removing
  <1> QED
    BY <1>3, <1>4, <1>8, <1>9, SteadyStep DEF DataStep, StateStep, Datum

LEMMA CreateStateMoves ==
  ASSUME RegisterInv, StorageInv', CreateState
  PROVE  OneMoves' /\ RegisterStep
  <1> USE DEF RegisterInv, StorageInv
  <1> DEFINE new == [status |-> "partial", chunks |-> NoChunks]
  <1>0. PICK a \in Ids : a = op.id
    BY DEF CreateState, At, Typed, OperationTyped
  <1>1. /\ op # NoOp /\ op.kind = "create" /\ op.step = "putState"
        /\ stateLog' = Put(stateLog, a, new) /\ new \in Record
        /\ UNCHANGED <<up, dataLog, crashes, doomed>> /\ Goto("syncNew") /\ "syncNew" \in StepsOfKind(op.kind)
    BY <1>0 DEF CreateState, WriteState, At, StepsOfKind, Creating, Record, NoChunks
  <1>2. op' # NoOp /\ op'.step = "syncNew" /\ op'.id = a
    BY <1>0, <1>1, GotoFact DEF Typed
  <1>3. StatePut(a, new) /\ DataKept
    BY <1>1, DirectoryPut, DirectoryKept
  <1>4. \A y \in Ids : ~Moving(y)
    BY <1>1 DEF Moving, Removing
  <1>5. S[a] = NoState /\ StateSettled(a) /\ D[a] = {"part"} /\ DataSettled(a)
    BY <1>0, <1>1 DEF OperationFacts, CreationFacts, Creating
  <1>6. \A s \in Views(stateLog) : s[a] = NoState /\ \A d : Outcome(s[a], d) = Absent
    BY <1>5 DEF StateSettled, Outcome, NoState
  <1>7. OnDisk(a) = Absent
    BY <1>6, OnDiskFact
  <1>8. ASSUME NEW s \in Views(stateLog)', NEW d \in Views(dataLog)'
        PROVE  Evolves(a, OnDisk(a), Outcome(s[a], d[a]))
    <2>1. d[a] = {"part"}
      BY <1>3, <1>5 DEF DataKept, DataSettled
    <2>2. s \in Views(stateLog) \/ s[a] = new
      BY <1>3, ViewFacts DEF StatePut
    <2>3. Outcome(new, {"part"}) = new
      BY DEF Outcome
    <2> QED
      BY <1>6, <1>7, <2>1, <2>2, <2>3 DEF Evolves, Created
  <1>9. Moving(a)' /\ RemovalsEntitled'
    BY <1>2 DEF Moving, RemovalsEntitled, Removing
  <1>10. PowerAhead' => OnDisk(a)' = OnDisk(a)
    BY <1>1, AppendedLater
  <1> QED
    BY <1>1, <1>3, <1>4, <1>8, <1>9, <1>10, AdvanceStep DEF DataStep, StateStep

LEMMA ChunkStateMoves ==
  ASSUME RegisterInv, StorageInv', ChunkState
  PROVE  OneMoves' /\ RegisterStep
  <1> USE DEF RegisterInv, StorageInv
  <1>0. PICK a \in Ids : a = op.id
    BY DEF ChunkState, At, Typed, OperationTyped
  <1>1. PICK c \in Chunks : c = op.arg[1]
    BY DEF ChunkState, At, Typed, OperationTyped
  <1>2. PICK v \in Values : v = op.arg[2]
    BY DEF ChunkState, At, Typed, OperationTyped
  <1> DEFINE new == [status |-> "partial", chunks |-> [S[a].chunks EXCEPT ![c] = v]]
  <1>3. /\ op # NoOp /\ op.kind = "chunk" /\ op.step = "putState"
        /\ stateLog' = Put(stateLog, a, new)
        /\ UNCHANGED <<up, dataLog, crashes, doomed>> /\ Goto("syncChunk") /\ "syncChunk" \in StepsOfKind(op.kind)
    BY <1>0, <1>1, <1>2 DEF ChunkState, WriteState, At, StepsOfKind, Chunking
  <1>4. new \in Record /\ S[a] \in Record
    BY ViewFacts DEF Record
  <1>5. op' # NoOp /\ op'.step = "syncChunk" /\ op'.id = a
    BY <1>0, <1>3, GotoFact DEF Typed
  <1>6. StatePut(a, new) /\ DataKept
    BY <1>3, <1>4, DirectoryPut, DirectoryKept
  <1>7. \A y \in Ids : ~Moving(y)
    BY <1>3 DEF Moving, Removing
  <1>8. /\ D[a] = {"part"} /\ DataSettled(a) /\ S[a].status = "partial"
        /\ StateSettled(a) /\ S[a].chunks[c] = Blank
    BY <1>0, <1>1, <1>3 DEF OperationFacts, ChunkFacts, Chunking
  <1>9. S[a] = [status |-> "partial", chunks |-> S[a].chunks]
    BY <1>4, <1>8 DEF Record
  <1>10. Outcome(S[a], {"part"}) = S[a] /\ Outcome(new, {"part"}) = new
    BY <1>8, <1>9 DEF Outcome
  <1>11. OnDisk(a) = S[a]
    BY <1>8, <1>10, OnDiskFact DEF DataSettled, StateSettled
  <1>12. ASSUME NEW s \in Views(stateLog)', NEW d \in Views(dataLog)'
         PROVE  Evolves(a, OnDisk(a), Outcome(s[a], d[a]))
    <2>1. d[a] = {"part"}
      BY <1>6, <1>8 DEF DataKept, DataSettled
    <2>2. s[a] = S[a] \/ s[a] = new
      BY <1>6, <1>8, ViewFacts DEF StatePut, StateSettled
    <2>3. Received(S[a], new)
      BY <1>8 DEF Received
    <2> QED
      BY <1>10, <1>11, <2>1, <2>2, <2>3 DEF Evolves
  <1>13. Moving(a)' /\ RemovalsEntitled'
    BY <1>5 DEF Moving, RemovalsEntitled, Removing
  <1>14. PowerAhead' => OnDisk(a)' = OnDisk(a)
    BY <1>3, <1>4, AppendedLater
  <1> QED
    BY <1>3, <1>4, <1>6, <1>7, <1>12, <1>13, <1>14, AdvanceStep DEF DataStep, StateStep

LEMMA CompleteCommittingMoves ==
  ASSUME RegisterInv, StorageInv', CompleteCommitting
  PROVE  OneMoves' /\ RegisterStep
  <1> USE DEF RegisterInv, StorageInv
  <1>0. PICK a \in Ids : a = op.id
    BY DEF CompleteCommitting, Ready, At, Typed, OperationTyped
  <1> DEFINE new == [status |-> "committing", chunks |-> S[a].chunks]
             done == [status |-> "complete", chunks |-> S[a].chunks]
  <1>1. /\ op # NoOp /\ op.kind = "complete" /\ op.step = "begin" /\ S[a].status = "partial"
        /\ \A c \in Chunks : S[a].chunks[c] # Blank
        /\ stateLog' = Put(stateLog, a, new)
        /\ UNCHANGED <<up, dataLog, crashes, doomed>> /\ Goto("syncCommitting")
        /\ "syncCommitting" \in StepsOfKind(op.kind)
    BY <1>0 DEF CompleteCommitting, WriteState, Ready, At, StepsOfKind
  <1>2. new \in Record /\ S[a] \in Record
    BY ViewFacts DEF Record
  <1>3. op' # NoOp /\ op'.step = "syncCommitting" /\ op'.id = a
    BY <1>0, <1>1, GotoFact DEF Typed
  <1>4. StatePut(a, new) /\ DataKept
    BY <1>1, <1>2, DirectoryPut, DirectoryKept
  <1>5. \A y \in Ids : ~Moving(y)
    BY <1>1 DEF Moving, Removing
  <1>6. Settled(a) /\ Matches(S[a], D[a])
    BY ReadyFact DEF CompleteCommitting, Ready, Kinds
  <1>7. D[a] = {"part"} /\ DataSettled(a) /\ StateSettled(a)
    BY <1>1, <1>6 DEF Matches, Sound, Settled
  <1>8. S[a] = [status |-> "partial", chunks |-> S[a].chunks]
    BY <1>1, <1>2 DEF Record
  <1>9. Outcome(S[a], {"part"}) = S[a] /\ Outcome(new, {"part"}) = done
    BY <1>1, <1>8 DEF Outcome
  <1>10. OnDisk(a) = S[a]
    BY <1>7, <1>9, OnDiskFact DEF DataSettled, StateSettled
  <1>11. ASSUME NEW s \in Views(stateLog)', NEW d \in Views(dataLog)'
         PROVE  Evolves(a, OnDisk(a), Outcome(s[a], d[a]))
    <2>1. d[a] = {"part"}
      BY <1>4, <1>7 DEF DataKept, DataSettled
    <2>2. s[a] = S[a] \/ s[a] = new
      BY <1>4, <1>7, ViewFacts DEF StatePut, StateSettled
    <2>3. Published(S[a], done)
      BY <1>1 DEF Published
    <2> QED
      BY <1>9, <1>10, <2>1, <2>2, <2>3 DEF Evolves
  <1>12. Moving(a)' /\ RemovalsEntitled'
    BY <1>3 DEF Moving, RemovalsEntitled, Removing
  <1>13. PowerAhead' => OnDisk(a)' = OnDisk(a)
    BY <1>1, <1>2, AppendedLater
  <1> QED
    BY <1>1, <1>2, <1>4, <1>5, <1>11, <1>12, <1>13, AdvanceStep DEF DataStep, StateStep
\* The fsync of the state directory decides.
LEMMA StateSyncMoves ==
  ASSUME RegisterInv, StorageInv', CreateDone \/ ChunkDone \/ CompleteSync
  PROVE  OneMoves' /\ RegisterStep
  <1> USE DEF RegisterInv, StorageInv
  <1>0. PICK a \in Ids : a = op.id
    BY DEF CreateDone, ChunkDone, CompleteSync, At, Typed, OperationTyped
  <1>1. /\ op # NoOp /\ op.step \in {"syncNew", "syncChunk", "syncCommitting"}
        /\ dataLog' = dataLog /\ stateLog' = Sync(stateLog) /\ crashes' = crashes
        /\ op' = NoOp \/ op' = [op EXCEPT !.step = "publish"]
    BY DEF CreateDone, ChunkDone, CompleteSync, At, Done, Goto
  <1>2. DataKept /\ StateSynced
    BY <1>1, DirectorySynced, DirectoryKept
  <1>3. Views(dataLog)' \subseteq Views(dataLog) /\ Views(stateLog)' = {S} /\ Views(stateLog)' \subseteq Views(stateLog)
    BY <1>2, ViewFacts DEF DataKept, StateSynced
  <1>4. DataSettled(a)
    <2>1. CASE op.step = "syncNew"
      BY <1>0, <1>1, <2>1 DEF OperationFacts, CreationFacts, Creating, CreateDone, ChunkDone, CompleteSync, At
    <2>2. CASE op.step = "syncChunk"
      BY <1>0, <1>1, <2>2 DEF OperationFacts, ChunkFacts, Chunking, CreateDone, ChunkDone, CompleteSync, At
    <2>3. CASE op.step = "syncCommitting"
      BY <1>0, <1>1, <2>3 DEF OperationFacts, PublicationFacts
    <2> QED
      BY <1>1, <2>1, <2>2, <2>3
  <1>5. \A y \in Ids : y # a => ~Moving(y)
    BY <1>0, <1>1, OnlyId DEF Removing, Syncing
  <1>6. \A s \in Views(stateLog)', d \in Views(dataLog)' : Outcome(s[a], d[a]) = Outcome(S[a], D[a])
    BY <1>3, <1>4 DEF DataSettled
  <1>7. RemovalsEntitled'
    BY <1>1 DEF RemovalsEntitled, Removing, Typed, OperationTyped
  <1> QED
    BY <1>3, <1>5, <1>6, <1>7, SettleStep

LEMMA PublishMoves ==
  ASSUME RegisterInv, StorageInv', Publish
  PROVE  OneMoves' /\ RegisterStep
  <1> USE DEF RegisterInv, StorageInv
  <1>0. PICK a \in Ids : a = op.id
    BY DEF Publish, Typed, OperationTyped
  <1>1. /\ op # NoOp /\ op.step = "publish"
        /\ UNCHANGED <<up, stateLog, crashes, doomed>>
        /\ \/ dataLog' = Put(dataLog, a, {"xfr"}) /\ D[a] = {"part"} /\ op' = [op EXCEPT !.step = "syncRename"]
           \/ dataLog' = dataLog /\ op' = [op EXCEPT !.step = "putComplete"]
    BY <1>0 DEF Publish, Goto
  <1>2. op' # NoOp /\ op'.step \in {"syncRename", "putComplete"}
    BY <1>1 DEF Typed, OperationTyped, NoOp
  <1>3. \A y \in Ids : ~Moving(y)
    BY <1>1 DEF Moving, Removing
  <1>4. RemovalsEntitled'
    BY <1>2 DEF RemovalsEntitled, Removing
  <1>5. CASE dataLog' = dataLog
    BY <1>1, <1>3, <1>4, <1>5, StillStep
  <1>6. CASE dataLog' = Put(dataLog, a, {"xfr"}) /\ D[a] = {"part"}
    <2>1. DataPut(a, {"xfr"}) /\ StateKept
      BY <1>1, <1>6, DirectoryPut, DirectoryKept DEF Datum
    <2>2. S[a].status = "committing" /\ DataSettled(a) /\ StateSettled(a)
      BY <1>0, <1>1 DEF OperationFacts, PublicationFacts, Publishing
    <2>3. Outcome(S[a], {"xfr"}) = Outcome(S[a], {"part"})
      BY <2>2 DEF Outcome
    <2>4. OnDisk(a) = Outcome(S[a], D[a])
      BY <2>2, OnDiskFact DEF DataSettled, StateSettled
    <2>5. ASSUME NEW s \in Views(stateLog)', NEW d \in Views(dataLog)'
          PROVE  Outcome(s[a], d[a]) = OnDisk(a)
      <3>1. s[a] = S[a]
        BY <2>1, <2>2 DEF StateKept, StateSettled
      <3>2. d[a] = D[a] \/ d[a] = {"xfr"}
        BY <2>1, <2>2, ViewFacts DEF DataPut, DataSettled
      <3> QED
        BY <1>6, <2>3, <2>4, <3>1, <3>2
    <2> QED
      BY <1>3, <1>4, <2>1, <2>5, SteadyStep DEF DataStep, StateStep, Datum
  <1> QED
    BY <1>1, <1>5, <1>6

LEMMA PublishStateMoves ==
  ASSUME RegisterInv, StorageInv', PublishState
  PROVE  OneMoves' /\ RegisterStep
  <1> USE DEF RegisterInv, StorageInv
  <1>0. PICK a \in Ids : a = op.id
    BY DEF PublishState, Typed, OperationTyped
  <1> DEFINE new == [status |-> "complete", chunks |-> S[a].chunks]
  <1>1. /\ op # NoOp /\ op.step = "putComplete" /\ stateLog' = Put(stateLog, a, new)
        /\ UNCHANGED <<up, dataLog, crashes, doomed>> /\ op' = [op EXCEPT !.step = "syncComplete"]
    BY <1>0 DEF PublishState, WriteState, Goto
  <1>2. op'.step = "syncComplete"
    BY <1>1 DEF Typed, OperationTyped, NoOp
  <1>3. \A y \in Ids : ~Moving(y)
    BY <1>1 DEF Moving, Removing
  <1>4. RemovalsEntitled'
    BY <1>2 DEF RemovalsEntitled, Removing
  <1>5. new \in Record
    BY ViewFacts DEF Record
  <1>6. StatePut(a, new) /\ DataKept
    BY <1>1, <1>5, DirectoryPut, DirectoryKept
  <1>7. D[a] = {"xfr"} /\ S[a].status = "committing" /\ DataSettled(a) /\ StateSettled(a)
    BY <1>0, <1>1 DEF OperationFacts, PublicationFacts, Publishing
  <1>8. Outcome(S[a], {"xfr"}) = Outcome(new, {"xfr"})
    BY <1>7 DEF Outcome
  <1>9. OnDisk(a) = Outcome(S[a], D[a])
    BY <1>7, OnDiskFact DEF DataSettled, StateSettled
  <1>10. ASSUME NEW s \in Views(stateLog)', NEW d \in Views(dataLog)'
         PROVE  Outcome(s[a], d[a]) = OnDisk(a)
    <2>1. d[a] = {"xfr"}
      BY <1>6, <1>7 DEF DataKept, DataSettled
    <2>2. s[a] = S[a] \/ s[a] = new
      BY <1>6, <1>7, ViewFacts DEF StatePut, StateSettled
    <2> QED
      BY <1>7, <1>8, <1>9, <2>1, <2>2
  <1> QED
    BY <1>3, <1>4, <1>5, <1>6, <1>10, SteadyStep DEF DataStep, StateStep

\* What the sweep removes, recovery would not have kept.
LEMMA ReconcileSweepMoves ==
  ASSUME RegisterInv, StorageInv', ReconcileSweep
  PROVE  OneMoves' /\ RegisterStep
  <1> USE DEF RegisterInv, StorageInv
  <1> DEFINE f == [x \in Ids |-> IF S[x] = NoState THEN {} ELSE D[x]]
  <1>1. /\ op # NoOp /\ op.kind = "reconcile" /\ op.step = "begin"
        /\ dataLog' = Append(dataLog, f) /\ op' = [op EXCEPT !.step = "syncData"]
        /\ UNCHANGED <<up, stateLog, crashes, doomed>>
    BY DEF ReconcileSweep, At, Goto
  <1>2. op'.step = "syncData" /\ op'.kind = "reconcile"
    BY <1>1 DEF Typed, OperationTyped, NoOp
  <1>3. f \in [Ids -> Datum] /\ dataLog \in Log(Datum)
    BY ViewFacts DEF Datum, Typed
  <1>4. \A x \in Ids : f[x] = IF S[x] = NoState THEN {} ELSE D[x]
    OBVIOUS
  <1> HIDE DEF f
  <1>5. Views(dataLog)' \subseteq Views(dataLog) \cup {f} /\ Views(stateLog)' = Views(stateLog)
    BY <1>1, <1>3, AppendFact DEF Views, PowerAhead
  <1>6. \A x \in Ids : ~Moving(x)
    BY <1>1 DEF Moving, Removing
  <1>7. ASSUME NEW x \in Ids, NEW s \in Views(stateLog)', NEW d \in Views(dataLog)'
        PROVE  Outcome(s[x], d[x]) = OnDisk(x)
    <2>1. \A t \in Views(stateLog), e \in Views(dataLog) : Outcome(t[x], e[x]) = OnDisk(x)
      BY <1>6 DEF OneMoves, SameInAll
    <2>2. CASE d \in Views(dataLog) \/ S[x] # NoState
      <3>1. \E e \in Views(dataLog) : e[x] = d[x]
        BY <1>4, <1>5, <2>2, ViewFacts
      <3> QED
        BY <1>5, <2>1, <3>1
    <2>3. CASE d = f /\ S[x] = NoState
      <3>1. OnDisk(x) = Absent
        BY <2>1, <2>3, ViewFacts DEF Outcome, NoState
      <3>2. d[x] = {}
        BY <1>4, <2>3
      <3> QED
        BY <3>1, <3>2 DEF Outcome
    <2> QED
      BY <1>5, <2>2, <2>3
  <1>8. \A x \in Ids : OnDisk(x)' = OnDisk(x)
    BY <1>7, OnDiskNext
  <1>9. \A x \in Ids : SameInAll(x)' /\ Reach(x)'
    BY <1>7, <1>8 DEF SameInAll, Reach, Evolves
  <1>10. RegisterStep
    BY <1>8, StorageAssumption DEF RegisterStep, Evolves
  <1>11. RemovalsEntitled'
    BY <1>2 DEF RemovalsEntitled, Removing
  <1> QED
    BY <1>9, <1>10, <1>11 DEF OneMoves

\* An outage picks one of the outcomes.
LEMMA CrashMoves ==
  ASSUME KillsComeLast, RegisterInv, StorageInv', NEW fault \in {"kill", "power"}, Crash(fault)
  PROVE  OneMoves' /\ RegisterStep
  <1> USE DEF RegisterInv, StorageInv
  <1>1. op' = NoOp
    BY DEF Crash
  <1>2. PICK v \in Ids : \A y \in Ids : y # v => ~Moving(y)
    <2>1. CASE op = NoOp
      BY <2>1, StorageAssumption DEF Moving
    <2>2. CASE op # NoOp /\ op.step \in Removing \cup Syncing
      BY <2>2, OnlyVictim DEF Typed, OperationTyped
    <2>3. CASE op # NoOp /\ op.step \notin Removing \cup Syncing
      BY <2>3, OnlyId DEF Typed, OperationTyped
    <2> QED
      BY <2>1, <2>2, <2>3
  <1>3. /\ Views(dataLog)' = {D'} /\ Views(stateLog)' = {S'}
        /\ D' \in Views(dataLog) /\ S' \in Views(stateLog)
    <2>1. CASE fault = "kill"
      <3>1. UNCHANGED diskVars /\ ~PowerAhead'
        BY <2>1, OutageFact DEF Crash, Typed
      <3> QED
        BY <3>1, ViewFacts DEF Views, D, S, diskVars
    <2>2. CASE fault = "power"
      <3>1. PICK i \in DOMAIN dataLog : dataLog' = <<dataLog[i]>>
        BY <2>2 DEF Crash
      <3>2. PICK j \in DOMAIN stateLog : stateLog' = <<stateLog[j]>>
        BY <2>2 DEF Crash
      <3>3. PowerAhead
        BY <2>2, OutageFact DEF Typed
      <3>4. /\ dataLog[i] \in Views(dataLog) /\ dataLog[i] \in [Ids -> Datum]
            /\ stateLog[j] \in Views(stateLog) /\ stateLog[j] \in [Ids -> Record]
        BY <3>1, <3>2, <3>3, ViewFacts DEF Views, Range
      <3> QED
        BY <3>1, <3>2, <3>4, SyncFact DEF D, S, Views
    <2> QED
      BY <2>1, <2>2
  <1>4. \A s \in Views(stateLog)', d \in Views(dataLog)' : Outcome(s[v], d[v]) = Outcome(S'[v], D'[v])
    BY <1>3
  <1>5. Views(dataLog)' \subseteq Views(dataLog) /\ Views(stateLog)' \subseteq Views(stateLog)
    BY <1>3
  <1>6. RemovalsEntitled'
    BY <1>1 DEF RemovalsEntitled
  <1> QED
    BY <1>2, <1>4, <1>5, <1>6, SettleStep
-----------------------------------------------------------------------------
LEMMA RegisterInvKept ==
  ASSUME KillsComeLast, RegisterInv, StorageInv', [Next]_vars
  PROVE  OneMoves' /\ RegisterStep
  <1>1. CASE Request
    BY <1>1, BeginMoves, RemovalBegins DEF Request, Check
  <1>2. CASE Step
    BY <1>2, RemovalBegins, ReconcileRecordMoves, UnlinkDataMoves, UnlinkStateMoves, SyncDataMoves,
       QuietSyncs, ReturnMoves, CreatePartMoves, CreateStateMoves, StateSyncMoves, ChunkBytesMove,
       ChunkStateMoves, CompleteCommittingMoves, PublishMoves, PublishStateMoves, ReconcileSweepMoves
       DEF Step
  <1>3. CASE Environment
    <2>1. ASSUME NEW x \in Ids, Lapse(x) PROVE OneMoves' /\ RegisterStep
      BY <2>1, LapseMoves DEF Lapse, diskVars
    <2> QED
      BY <1>3, <2>1, RemovalBegins, ReturnMoves, CrashMoves, RestartMoves DEF Environment
  <1>4. CASE UNCHANGED vars
    BY <1>4, LapseMoves DEF vars, diskVars
  <1> QED
    BY <1>1, <1>2, <1>3, <1>4 DEF Next

LEMMA RegisterInit == Init => RegisterInv /\ Register!Init
  <1> SUFFICES ASSUME Init PROVE RegisterInv /\ Register!Init
    OBVIOUS
  <1>1. StorageInv
    BY InitKeeps
  <1> DEFINE d0 == [x \in Ids |-> {}]
             s0 == [x \in Ids |-> NoState]
  <1>2. dataLog = <<d0>> /\ stateLog = <<s0>>
    BY DEF Init
  <1>3. d0 \in [Ids -> Datum] /\ s0 \in [Ids -> Record]
    BY DEF Datum, Record, NoState, NoChunks
  <1>4. \A x \in Ids : d0[x] = {} /\ s0[x] = NoState
    OBVIOUS
  <1> HIDE DEF d0, s0
  <1>5. Views(dataLog) = {d0} /\ Views(stateLog) = {s0}
    BY <1>2, <1>3, SyncFact DEF Views
  <1>6. \A x \in Ids : OnDisk(x) = Absent
    BY <1>1, <1>4, <1>5, OnDiskFact DEF StorageInv, Outcome, NoState
  <1>7. \A x \in Ids : SameInAll(x) /\ Reach(x)
    BY <1>4, <1>5, <1>6 DEF SameInAll, Reach, Evolves, Outcome, NoState
  <1>8. OneMoves
    BY <1>7 DEF OneMoves, RemovalsEntitled, Init
  <1>9. Register!Init
    BY <1>6 DEF Register!Init, Register!Absent, Register!NoChunks, Absent, NoChunks, Init
  <1> QED
    BY <1>1, <1>8, <1>9 DEF RegisterInv

\* A step of the storage is one of the register, or none.
LEMMA StepRefines ==
  ASSUME RegisterStep, doomed' \subseteq Ids
  PROVE  Register!Next
  <1> DEFINE file == [x \in Ids |-> OnDisk(x)]
             next == [x \in Ids |-> OnDisk(x)']
  <1>1. PICK v \in Ids : /\ Evolves(v, OnDisk(v), OnDisk(v)')
                         /\ \A y \in Ids \ {v} : OnDisk(y)' = OnDisk(y)
    BY DEF RegisterStep
  <1> DEFINE o == OnDisk(v)
             n == OnDisk(v)'
  <1>2. next = [file EXCEPT ![v] = n] /\ file[v] = o
    BY <1>1
  <1>3. Absent = Register!Absent
    BY DEF Absent, NoChunks, Register!Absent, Register!NoChunks
  <1>4. CASE n = o
    <2>1. next = file
      BY <1>2, <1>4
    <2> QED
      BY <2>1 DEF Register!Next
  <1>5. CASE Created(o, n)
    <2>1. n = [Absent EXCEPT !.status = "partial"] /\ o = Absent
      BY <1>5 DEF Created, Absent
    <2>2. Register!Create(v)
      BY <1>2, <1>3, <2>1 DEF Register!Create
    <2> QED
      BY <2>2 DEF Register!Next
  <1>6. CASE Received(o, n)
    <2>1. PICK c \in Chunks, w \in Values :
            o.chunks[c] = Blank /\ n = [status |-> "partial", chunks |-> [o.chunks EXCEPT ![c] = w]]
      BY <1>6 DEF Received
    <2>2. o.status = "partial" /\ o = [status |-> o.status, chunks |-> o.chunks]
      BY <1>6 DEF Received, OnDisk
    <2>3. n = [o EXCEPT !.chunks[c] = w]
      BY <2>1, <2>2
    <2>4. Register!Receive(v, c, w)
      BY <1>2, <2>1, <2>2, <2>3 DEF Register!Receive
    <2> QED
      BY <2>4 DEF Register!Next
  <1>7. CASE Published(o, n)
    <2>1. o = [status |-> o.status, chunks |-> o.chunks]
      BY DEF OnDisk
    <2>2. n = [o EXCEPT !.status = "complete"]
      BY <1>7, <2>1 DEF Published
    <2>3. Register!Publish(v)
      BY <1>2, <1>7, <2>2 DEF Register!Publish, Published
    <2> QED
      BY <2>3 DEF Register!Next
  <1>8. CASE v \in doomed /\ n = Absent
    <2>1. Register!Remove(v)
      BY <1>2, <1>3, <1>8 DEF Register!Remove
    <2> QED
      BY <2>1 DEF Register!Next
  <1> QED
    BY <1>1, <1>4, <1>5, <1>6, <1>7, <1>8 DEF Evolves

(***************************************************************************)
(* The storage implements the register: whatever outages come, an upload   *)
(* appears, gains chunks, is published and goes as the register allows,    *)
(* one id at a time.                                                       *)
(***************************************************************************)
THEOREM StorageRefinesRegister == ASSUME KillsComeLast PROVE Spec => RefinesRegister
  <1>1. Init => RegisterInv /\ Register!Init
    BY RegisterInit
  <1>2. RegisterInv /\ [Next]_vars => RegisterInv'
    BY StepKeeps, RegisterInvKept DEF RegisterInv
  <1>3. RegisterInv /\ [Next]_vars => Register!Next
    BY StepKeeps, RegisterInvKept, StepRefines DEF RegisterInv, StorageInv, Typed
  <1> QED
    BY <1>1, <1>2, <1>3, PTL DEF Spec, RefinesRegister, Register!Spec
-----------------------------------------------------------------------------
(***************************************************************************)
(*                              StorageRebind                              *)
(***************************************************************************)

\* What was read can be told from what is there now by its identity, which is never used twice.
AsWitnessed(p) == p \in DOMAIN store /\ store[p].id = witness[p]

Journals == Paths("journals")
Ciphertexts == Paths("ciphertext")

RebindTyped ==
  /\ changes \in Nat
  /\ DOMAIN store \subseteq AllPaths /\ \A p \in DOMAIN store : store[p].id \in 0 .. changes
  /\ DOMAIN witness \subseteq AllPaths /\ \A p \in DOMAIN witness : witness[p] \in 0 .. changes
  /\ listed \in [{"journals", "ciphertext"} -> SUBSET AllPaths]
  /\ listed["journals"] \subseteq Journals /\ listed["ciphertext"] \subseteq Ciphertexts
  /\ queue \in Seq(listed["journals"])
  /\ probe \in Seq(AllPaths \cup {<<"all", "journals">>, <<"all", "ciphertext">>})
  /\ rpc \in {"list_journals", "list_data"} => DOMAIN witness = {}

\* A journal that is as it was when it was read names its one payload; a payload that is as
\* it was when it was hashed is good.
JournalSound(p) ==
  /\ Cardinality(ListedPayloads(p[1])) = 1
  /\ AsWitnessed(p) => \A q \in ListedPayloads(p[1]) : SuffixAgrees(store[p].body, q)
HashedSound(p) ==
  /\ <<p[1], "json">> \in listed["journals"]
  /\ AsWitnessed(p) => store[p].body = "good"
WitnessSound ==
  \A p \in DOMAIN witness : IF p \in Journals THEN JournalSound(p) ELSE HashedSound(p)

ReadingSound ==
  rpc = "payload" =>
    LET p == reading.path IN
    /\ p \in Ciphertexts /\ <<p[1], "json">> \in listed["journals"]
    /\ reading.file.id \in 0 .. changes
    /\ p \in DOMAIN store /\ store[p].id = reading.file.id => store[p].body = reading.file.body

\* Every journal has been read or will be.
Progress ==
  /\ rpc \in {"list_data", "records", "payload"} =>
       \A j \in listed["journals"] : j \in DOMAIN witness \/ \E i \in 1 .. Len(queue) : queue[i] = j
  /\ rpc \in {"recheck", "publish", "recheck_again"} =>
       listed["journals"] \subseteq DOMAIN witness /\ listed["ciphertext"] = Read

\* The files a recheck has still to look at, from its place on.
StillToProbe(from) == \A p \in DOMAIN witness : \E i \in from .. Len(probe) : probe[i] = p

\* Once both listings have been found the same, either everything was sound at some moment,
\* or a file that is no longer what was read is still to be looked at.
Suspect == \E i \in 1 .. Len(probe) : probe[i] \in DOMAIN witness /\ ~AsWitnessed(probe[i])
RecheckSound ==
  Rechecking =>
    /\ AllSound(store) => together
    /\ \/ /\ Len(probe) >= 2 /\ probe[1] = <<"all", "journals">> /\ probe[2] = <<"all", "ciphertext">>
          /\ StillToProbe(3)
       \/ Len(probe) >= 1 /\ probe[1] = <<"all", "ciphertext">> /\ StillToProbe(2)
       \/ together \/ Suspect

Reported ==
  /\ rpc \in {"done", "uncertain"} => together
  /\ binding = "new" => rpc \in {"done", "uncertain"}

RebindInv ==
  RebindTyped /\ WitnessSound /\ ReadingSound /\ Progress /\ RecheckSound /\ Reported
-----------------------------------------------------------------------------
\* Paths and sequences.

LEMMA PathFacts ==
  /\ \A p \in AllPaths : p[1] \in Uploads /\ p[1] # "all" /\ (p \in Journals \/ p \in Ciphertexts)
  /\ \A p \in Journals : p \in AllPaths /\ p \notin Ciphertexts /\ p[2] = "json" /\ p = <<p[1], "json">>
  /\ \A p \in Ciphertexts : p \in AllPaths /\ p[2] # "json" /\ p \in {<<p[1], "part">>, <<p[1], "xfr">>}
  BY RebindAssumption DEF AllPaths, Journals, Ciphertexts, Paths

LEMMA PathsFinite == IsFiniteSet(AllPaths)
  <1>1. IsFiniteSet({"json", "part", "xfr"})
    <2>1. IsFiniteSet({"json"}) /\ IsFiniteSet({"part"}) /\ IsFiniteSet({"xfr"})
      BY FS_Singleton
    <2>2. IsFiniteSet({"json"} \cup {"part"})
      BY <2>1, FS_Union
    <2>3. IsFiniteSet(({"json"} \cup {"part"}) \cup {"xfr"})
      BY <2>1, <2>2, FS_Union
    <2>4. ({"json"} \cup {"part"}) \cup {"xfr"} = {"json", "part", "xfr"}
      OBVIOUS
    <2> QED
      BY <2>3, <2>4
  <1>2. IsFiniteSet(Uploads \X {"json", "part", "xfr"})
    BY <1>1, RebindAssumption, FS_Product
  <1>3. AllPaths \subseteq Uploads \X {"json", "part", "xfr"}
    BY DEF AllPaths, Paths
  <1> QED
    BY <1>2, <1>3, FS_Subset

\* A refusal ends the rebind and changes nothing else.
LEMMA RefusesSafely ==
  ASSUME RebindInv, Refuse, rpc \notin {"done", "uncertain"}
  PROVE  RebindInv'
  <1> USE DEF Refuse, RebindInv
  <1>1. RebindTyped'
    BY DEF RebindTyped
  <1>2. WitnessSound'
    BY DEF WitnessSound, JournalSound, HashedSound, AsWitnessed, ListedPayloads
  <1>3. ReadingSound' /\ Progress' /\ RecheckSound'
    BY DEF ReadingSound, Progress, RecheckSound, Rechecking
  <1>4. Reported'
    BY DEF Reported
  <1> QED
    BY <1>1, <1>2, <1>3, <1>4

\* Somebody replaces, creates or removes a file: what is changed has a new identity.
LEMMA IntrudesSafely ==
  ASSUME RebindInv, Intrude
  PROVE  RebindInv'
  <1>1. /\ RebindTyped /\ WitnessSound /\ ReadingSound /\ Progress /\ RecheckSound /\ Reported
        /\ changes \in Nat /\ changes' = changes + 1
        /\ UNCHANGED <<rpc, listed, queue, witness, reading, probe, wanted, binding>>
    BY DEF RebindInv, RebindTyped, Intrude
  <1>2. /\ DOMAIN store' \subseteq AllPaths
        /\ \A q \in DOMAIN store' : \/ store'[q].id = changes + 1
                                    \/ q \in DOMAIN store /\ store'[q] = store[q]
    <2>1. PICK p \in AllPaths :
            \/ \E b \in Bodies(p) :
                 store' = [q \in DOMAIN store \cup {p} |->
                             IF q = p THEN [body |-> b, id |-> changes + 1] ELSE store[q]]
            \/ p \in DOMAIN store /\ store' = [q \in DOMAIN store \ {p} |-> store[q]]
      BY DEF Intrude
    <2>2. DOMAIN store \subseteq AllPaths
      BY <1>1 DEF RebindTyped
    <2>3. ASSUME NEW b,
                 store' = [q \in DOMAIN store \cup {p} |->
                             IF q = p THEN [body |-> b, id |-> changes + 1] ELSE store[q]]
          PROVE  /\ DOMAIN store' \subseteq AllPaths
                 /\ \A q \in DOMAIN store' : \/ store'[q].id = changes + 1
                                             \/ q \in DOMAIN store /\ store'[q] = store[q]
      BY <2>2, <2>3
    <2>4. CASE p \in DOMAIN store /\ store' = [q \in DOMAIN store \ {p} |-> store[q]]
      BY <2>2, <2>4
    <2> QED
      BY <2>1, <2>3, <2>4
  <1>3. ASSUME NEW p \in DOMAIN store', NEW k \in 0 .. changes, store'[p].id = k
        PROVE  p \in DOMAIN store /\ store'[p] = store[p]
    BY <1>1, <1>2, <1>3
  <1>4. \A p \in DOMAIN witness : AsWitnessed(p)' => AsWitnessed(p) /\ store'[p] = store[p]
    BY <1>1, <1>3 DEF AsWitnessed, RebindTyped
  <1>5. RebindTyped'
    <2>1. \A p \in DOMAIN store' : store'[p].id \in 0 .. changes'
      BY <1>1, <1>2 DEF RebindTyped
    <2>2. \A p \in DOMAIN witness' : witness'[p] \in 0 .. changes'
      BY <1>1 DEF RebindTyped
    <2> QED
      BY <1>1, <1>2, <2>1, <2>2 DEF RebindTyped
  <1>6. WitnessSound'
    <2>2. ASSUME NEW p \in DOMAIN witness, p \in Journals PROVE JournalSound(p)'
      BY <1>1, <1>4, <2>2 DEF WitnessSound, JournalSound, ListedPayloads
    <2>3. ASSUME NEW p \in DOMAIN witness, p \notin Journals PROVE HashedSound(p)'
      BY <1>1, <1>4, <2>3 DEF WitnessSound, HashedSound
    <2> QED
      BY <1>1, <2>2, <2>3 DEF WitnessSound, Journals, Paths
  <1>7. ReadingSound'
    BY <1>1, <1>3 DEF ReadingSound
  <1>8. Progress'
    BY <1>1 DEF Progress, Read
  <1>9. RecheckSound'
    <2>1. Rechecking' => Rechecking
      BY <1>1 DEF Rechecking
    <2>2. Rechecking => (AllSound(store)' => together')
      BY DEF Intrude, AllSound, Counted, SoundUpload, Payloads, NamesIn
    <2>3. together => together'
      BY DEF Intrude
    <2>4. Suspect => Suspect'
      BY <1>1, <1>4 DEF Suspect
    <2>5. (StillToProbe(2) => StillToProbe(2)') /\ (StillToProbe(3) => StillToProbe(3)')
      BY <1>1 DEF StillToProbe
    <2> QED
      BY <1>1, <2>1, <2>2, <2>3, <2>4, <2>5 DEF RecheckSound
  <1>10. Reported'
    BY <1>1 DEF Reported, Intrude
  <1> QED
    BY <1>5, <1>6, <1>7, <1>8, <1>9, <1>10 DEF RebindInv

LEMMA ListsJournals ==
  ASSUME RebindInv, ListJournals
  PROVE  RebindInv'
  <1> DEFINE names == NamesIn(store, "journals")
  <1>1. /\ RebindTyped /\ ReadingSound /\ Reported /\ rpc = "list_journals" /\ DOMAIN witness = {}
        /\ rpc' = "list_data" /\ queue' = SetToSeq(names)
        /\ UNCHANGED <<store, changes, witness, reading, probe, wanted, binding, together>>
    BY DEF RebindInv, RebindTyped, ListJournals
  <1>2. names \subseteq Journals /\ names \subseteq AllPaths
    BY PathFacts DEF NamesIn, Journals
  <1>3. /\ listed' \in [{"journals", "ciphertext"} -> SUBSET AllPaths]
        /\ listed'["journals"] = names /\ listed'["ciphertext"] = listed["ciphertext"]
    BY <1>1, <1>2 DEF RebindTyped, ListJournals
  <1>4. /\ SetToSeq(names) \in Seq(names)
        /\ \A j \in names : \E i \in 1 .. Len(SetToSeq(names)) : SetToSeq(names)[i] = j
    BY <1>2, PathsFinite, FS_Subset, SetToSeqCovers
  <1> HIDE DEF names
  <1>5. RebindTyped'
    BY <1>1, <1>2, <1>3, <1>4 DEF RebindTyped, Journals, Ciphertexts, AllPaths, Paths
  <1>6. WitnessSound' /\ ReadingSound'
    BY <1>1 DEF WitnessSound, ReadingSound
  <1>7. Progress'
    BY <1>1, <1>3, <1>4 DEF Progress
  <1>8. RecheckSound' /\ Reported'
    BY <1>1 DEF RecheckSound, Rechecking, Reported
  <1> QED
    BY <1>5, <1>6, <1>7, <1>8 DEF RebindInv

LEMMA ListsData ==
  ASSUME RebindInv, ListData
  PROVE  RebindInv'
  <1> DEFINE names == NamesIn(store, "ciphertext")
  <1>1. /\ RebindTyped /\ Progress /\ Reported /\ rpc = "list_data" /\ DOMAIN witness = {}
        /\ rpc' = "records"
        /\ UNCHANGED <<store, changes, queue, witness, reading, probe, wanted, binding, together>>
    BY DEF RebindInv, RebindTyped, ListData
  <1>2. names \subseteq Ciphertexts /\ names \subseteq AllPaths
    BY PathFacts DEF NamesIn, Ciphertexts
  <1>3. /\ listed' \in [{"journals", "ciphertext"} -> SUBSET AllPaths]
        /\ listed'["journals"] = listed["journals"] /\ listed'["ciphertext"] = names
    BY <1>1, <1>2 DEF RebindTyped, ListData
  <1> HIDE DEF names
  <1>5. RebindTyped'
    BY <1>1, <1>2, <1>3 DEF RebindTyped, Journals, Ciphertexts, AllPaths, Paths
  <1>6. WitnessSound' /\ ReadingSound'
    BY <1>1 DEF WitnessSound, ReadingSound
  <1>7. Progress'
    BY <1>1, <1>3 DEF Progress
  <1>8. RecheckSound' /\ Reported'
    BY <1>1 DEF RecheckSound, Rechecking, Reported
  <1> QED
    BY <1>5, <1>6, <1>7, <1>8 DEF RebindInv

\* A journal that agrees with the listing becomes the witness of its content.
LEMMA ReadsJournal ==
  ASSUME RebindInv, ReadJournal
  PROVE  RebindInv'
  <1>0. PICK j : j = Head(queue)
    OBVIOUS
  <1>1. /\ RebindTyped /\ WitnessSound /\ Progress /\ Reported /\ rpc = "records" /\ queue # << >>
        /\ JournalAgrees(j) /\ witness' = Witnessed(j, store[j].id) /\ queue' = Tail(queue)
        /\ rpc' = "payload"
        /\ UNCHANGED <<store, changes, listed, probe, wanted, binding, together>>
    BY <1>0 DEF RebindInv, ReadJournal
  <1>2. /\ j \in listed["journals"] /\ j = queue[1] /\ Tail(queue) \in Seq(listed["journals"])
        /\ Len(Tail(queue)) = Len(queue) - 1 /\ Len(queue) \in Nat
        /\ \A i \in 1 .. Len(Tail(queue)) : Tail(queue)[i] = queue[i + 1]
    BY <1>0, <1>1, HeadTailProperties DEF RebindTyped
  <1>3. j \in Journals /\ j \in AllPaths /\ j = <<j[1], "json">>
    BY <1>1, <1>2, PathFacts DEF RebindTyped
  <1>4. PICK q \in ListedPayloads(j[1]) : reading' = [path |-> q, file |-> store[q]]
    <2>1. Cardinality(ListedPayloads(j[1])) = 1
      BY <1>1 DEF JournalAgrees
    <2>2. ListedPayloads(j[1]) # {}
      BY <2>1, FS_EmptySet
    <2> QED
      BY <1>0, <2>2 DEF ReadJournal
  <1>5. j \in DOMAIN store /\ store[j].id \in 0 .. changes
    BY <1>1 DEF JournalAgrees, RebindTyped
  <1>6. /\ DOMAIN witness' = DOMAIN witness \cup {j} /\ witness'[j] = store[j].id
        /\ \A p \in DOMAIN witness \ {j} : witness'[p] = witness[p]
    BY <1>1 DEF Witnessed
  <1>7. RebindTyped'
    <2>1. DOMAIN witness' \subseteq AllPaths /\ \A p \in DOMAIN witness' : witness'[p] \in 0 .. changes'
      BY <1>1, <1>3, <1>5, <1>6 DEF RebindTyped
    <2> QED
      BY <1>1, <1>2, <2>1 DEF RebindTyped
  <1>8. WitnessSound'
    <2>1. JournalSound(j)'
      BY <1>1 DEF JournalSound, JournalAgrees, ListedPayloads
    <2>2. ASSUME NEW p \in DOMAIN witness, p # j, p \in Journals PROVE JournalSound(p)'
      BY <1>1, <1>6, <2>2 DEF WitnessSound, JournalSound, ListedPayloads, AsWitnessed
    <2>3. ASSUME NEW p \in DOMAIN witness, p # j, p \notin Journals PROVE HashedSound(p)'
      BY <1>1, <1>6, <2>3 DEF WitnessSound, HashedSound, AsWitnessed
    <2> QED
      BY <1>3, <1>6, <2>1, <2>2, <2>3 DEF WitnessSound, Journals, Paths
  <1>9. ReadingSound'
    <2>1. q \in Ciphertexts /\ q[1] = j[1]
      BY <1>1, <1>4 DEF ListedPayloads, RebindTyped
    <2>2. q \in DOMAIN store /\ store[q].id \in 0 .. changes
      BY <1>1, <1>4 DEF JournalAgrees, RebindTyped
    <2>3. reading'.path = q /\ reading'.file = store[q]
      BY <1>4
    <2>4. <<q[1], "json">> \in listed["journals"]
      BY <1>2, <1>3, <2>1
    <2> QED
      BY <1>1, <2>1, <2>2, <2>3, <2>4 DEF ReadingSound
  <1>10. Progress'
    <2>1. ASSUME NEW k \in listed["journals"], k \notin DOMAIN witness'
          PROVE  \E i \in 1 .. Len(Tail(queue)) : Tail(queue)[i] = k
      <3>1. PICK i \in 1 .. Len(queue) : queue[i] = k
        BY <1>1, <1>6, <2>1 DEF Progress
      <3>2. i # 1
        BY <1>2, <1>6, <2>1, <3>1
      <3>3. i - 1 \in 1 .. Len(Tail(queue)) /\ Tail(queue)[i - 1] = queue[(i - 1) + 1]
        BY <1>2, <3>1, <3>2
      <3> QED
        BY <3>1, <3>3
    <2> QED
      BY <1>1, <2>1 DEF Progress
  <1>11. RecheckSound' /\ Reported'
    BY <1>1 DEF RecheckSound, Rechecking, Reported
  <1> QED
    BY <1>7, <1>8, <1>9, <1>10, <1>11 DEF RebindInv

\* The payload that was opened had the recorded content, whatever its name holds by now.
LEMMA VerifiesPayload ==
  ASSUME RebindInv, PayloadVerified
  PROVE  RebindInv'
  <1>0. PICK q : q = reading.path
    OBVIOUS
  <1>1. /\ RebindTyped /\ WitnessSound /\ ReadingSound /\ Progress /\ Reported
        /\ rpc = "payload" /\ rpc' = "records" /\ reading.file.body = "good"
        /\ witness' = Witnessed(q, reading.file.id)
        /\ UNCHANGED <<store, changes, listed, queue, probe, wanted, binding, together>>
    BY <1>0 DEF RebindInv, PayloadVerified
  <1>2. /\ q \in Ciphertexts /\ <<q[1], "json">> \in listed["journals"]
        /\ reading.file.id \in 0 .. changes
        /\ q \in DOMAIN store /\ store[q].id = reading.file.id => store[q].body = "good"
    BY <1>0, <1>1 DEF ReadingSound
  <1>3. q \notin Journals /\ q \in AllPaths
    BY <1>2, PathFacts
  <1>4. /\ DOMAIN witness' = DOMAIN witness \cup {q} /\ witness'[q] = reading.file.id
        /\ \A p \in DOMAIN witness \ {q} : witness'[p] = witness[p]
    BY <1>1 DEF Witnessed
  <1>5. RebindTyped'
    <2>1. DOMAIN witness' \subseteq AllPaths /\ \A p \in DOMAIN witness' : witness'[p] \in 0 .. changes'
      BY <1>1, <1>2, <1>3, <1>4 DEF RebindTyped
    <2> QED
      BY <1>1, <2>1 DEF RebindTyped
  <1>6. WitnessSound'
    <2>1. HashedSound(q)'
      BY <1>1, <1>2, <1>4 DEF HashedSound, AsWitnessed
    <2>2. ASSUME NEW p \in DOMAIN witness, p # q, p \in Journals PROVE JournalSound(p)'
      BY <1>1, <1>4, <2>2 DEF WitnessSound, JournalSound, ListedPayloads, AsWitnessed
    <2>3. ASSUME NEW p \in DOMAIN witness, p # q, p \notin Journals PROVE HashedSound(p)'
      BY <1>1, <1>4, <2>3 DEF WitnessSound, HashedSound, AsWitnessed
    <2> QED
      BY <1>3, <1>4, <2>1, <2>2, <2>3 DEF WitnessSound, Journals, Paths
  <1>7. ReadingSound' /\ RecheckSound' /\ Reported'
    BY <1>1 DEF ReadingSound, RecheckSound, Rechecking, Reported
  <1>8. Progress'
    BY <1>1, <1>4 DEF Progress
  <1> QED
    BY <1>5, <1>6, <1>7, <1>8 DEF RebindInv

\* The look at everything starts from the listings.
LEMMA BeginsRecheck ==
  ASSUME RebindInv, BeginRecheck
  PROVE  RebindInv'
  <1> DEFINE files == SetToSeq(DOMAIN witness)
             marks == <<<<"all", "journals">>, <<"all", "ciphertext">>>>
             All == AllPaths \cup {<<"all", "journals">>, <<"all", "ciphertext">>}
  <1>1. /\ RebindTyped /\ WitnessSound /\ Progress /\ Reported
        /\ \/ rpc = "records" /\ queue = << >> /\ listed["ciphertext"] = Read
           \/ rpc = "publish"
        /\ rpc' \in {"recheck", "recheck_again"}
        /\ probe' = marks \o files /\ together' = AllSound(store)
        /\ UNCHANGED <<store, changes, listed, queue, witness, reading, wanted, binding>>
    BY DEF RebindInv, BeginRecheck, Probes
  <1>2. DOMAIN witness \subseteq AllPaths
    BY <1>1 DEF RebindTyped
  <1>3. /\ files \in Seq(DOMAIN witness)
        /\ \A p \in DOMAIN witness : \E i \in 1 .. Len(files) : files[i] = p
    BY <1>2, PathsFinite, FS_Subset, SetToSeqCovers
  <1> HIDE DEF files
  <1>4. /\ files \in Seq(All) /\ marks \in Seq(All) /\ Len(marks) = 2
        /\ marks[1] = <<"all", "journals">> /\ marks[2] = <<"all", "ciphertext">>
    BY <1>2, <1>3
  <1> HIDE DEF marks
  <1>5. /\ probe' \in Seq(All) /\ Len(probe') = 2 + Len(files)
        /\ \A i \in 1 .. 2 + Len(files) : probe'[i] = IF i <= 2 THEN marks[i] ELSE files[i - 2]
    <2>1. /\ marks \o files \in Seq(All) /\ Len(marks \o files) = Len(marks) + Len(files)
          /\ \A i \in 1 .. Len(marks) + Len(files) :
               (marks \o files)[i] = IF i <= Len(marks) THEN marks[i] ELSE files[i - Len(marks)]
      <3> HIDE DEF All
      <3> QED
        BY <1>4, ConcatProperties
    <2> QED
      BY <1>1, <1>4, <2>1
  <1>6. Len(files) \in Nat
    BY <1>4
  <1>7. StillToProbe(3)'
    <2>1. ASSUME NEW p \in DOMAIN witness PROVE \E i \in 3 .. Len(probe') : probe'[i] = p
      <3>1. PICK i \in 1 .. Len(files) : files[i] = p
        BY <1>3
      <3>2. i + 2 \in 3 .. Len(probe') /\ probe'[i + 2] = files[(i + 2) - 2]
        BY <1>5, <1>6
      <3> QED
        BY <1>6, <3>1, <3>2
    <2> QED
      BY <1>1, <2>1 DEF StillToProbe
  <1>8. RecheckSound'
    <2>1. AllSound(store)' => together'
      BY <1>1 DEF AllSound, Counted, SoundUpload, Payloads, NamesIn
    <2>2. Len(probe') >= 2 /\ probe'[1] = <<"all", "journals">> /\ probe'[2] = <<"all", "ciphertext">>
      BY <1>4, <1>5, <1>6
    <2> QED
      BY <1>7, <2>1, <2>2 DEF RecheckSound
  <1>9. RebindTyped'
    BY <1>1, <1>5 DEF RebindTyped
  <1>10. WitnessSound' /\ ReadingSound' /\ Reported'
    BY <1>1 DEF WitnessSound, JournalSound, HashedSound, ListedPayloads, AsWitnessed, ReadingSound, Reported
  <1>11. Progress'
    <2>1. listed["journals"] \subseteq DOMAIN witness /\ listed["ciphertext"] = Read
      BY <1>1 DEF Progress
    <2> QED
      BY <1>1, <2>1 DEF Progress, Read
  <1> QED
    BY <1>8, <1>9, <1>10, <1>11 DEF RebindInv

\* All that was read is still there and nothing else: then it is sound, all at once.
LEMMA IntactIsSound ==
  ASSUME RebindInv, Rechecking, NamesIn(store, "ciphertext") = listed["ciphertext"],
         \A p \in DOMAIN witness : AsWitnessed(p)
  PROVE  AllSound(store)
  <1>1. /\ RebindTyped /\ WitnessSound
        /\ listed["journals"] \subseteq DOMAIN witness /\ listed["ciphertext"] = Read
    BY DEF RebindInv, Progress, Rechecking
  <1>2. \A u : Payloads(store, u) \subseteq ListedPayloads(u) /\ ListedPayloads(u) \subseteq Payloads(store, u)
    <2>1. NamesIn(store, "ciphertext") = Ciphertexts \cap DOMAIN store
      BY DEF NamesIn, Ciphertexts
    <2>2. ASSUME NEW u, NEW p \in Payloads(store, u) PROVE p \in ListedPayloads(u)
      <3>1. p \in DOMAIN store /\ p \in {<<u, "part">>, <<u, "xfr">>} /\ p \in AllPaths
        BY <1>1, <2>2 DEF Payloads, RebindTyped
      <3>2. p \in Ciphertexts
        BY <3>1, PathFacts
      <3> QED
        BY <2>1, <3>1, <3>2 DEF ListedPayloads
    <2>3. ASSUME NEW u, NEW p \in ListedPayloads(u) PROVE p \in Payloads(store, u)
      BY <2>1, <2>3 DEF ListedPayloads, Payloads
    <2> QED
      BY <2>2, <2>3
  <1>3. \A u : Payloads(store, u) = ListedPayloads(u)
    BY <1>2
  <1>4. \A u \in Counted : <<u, "json">> \in listed["journals"]
    <2>1. ASSUME NEW u \in Counted PROVE <<u, "json">> \in listed["journals"]
      <3>1. PICK j \in listed["journals"] : u = j[1]
        BY DEF Counted
      <3>2. j \in Journals
        BY <1>1 DEF RebindTyped
      <3>3. j = <<j[1], "json">>
        BY <3>2, PathFacts
      <3> QED
        BY <3>1, <3>3
    <2> QED
      BY <2>1
  <1>5. ASSUME NEW u \in Counted PROVE SoundUpload(store, u)
    <2> DEFINE j == <<u, "json">>
    <2>1. j \in DOMAIN witness /\ j \in Journals /\ j[1] = u /\ AsWitnessed(j)
      BY <1>1, <1>4 DEF RebindTyped
    <2>2. JournalSound(j)
      BY <1>1, <2>1 DEF WitnessSound
    <2>3. j \in DOMAIN store /\ Cardinality(Payloads(store, u)) = 1
      BY <1>3, <2>1, <2>2 DEF JournalSound, AsWitnessed
    <2>4. ASSUME NEW p \in Payloads(store, u)
          PROVE  store[p].body = "good" /\ SuffixAgrees(store[j].body, p)
      <3>1. p \in ListedPayloads(u) /\ p \in Read
        BY <1>1, <1>3 DEF ListedPayloads
      <3>2. p \in DOMAIN witness /\ p \in Ciphertexts /\ AsWitnessed(p)
        BY <1>1, <3>1 DEF Read, RebindTyped
      <3>3. HashedSound(p)
        BY <1>1, <3>2, PathFacts DEF WitnessSound
      <3> QED
        BY <2>1, <2>2, <3>1, <3>2, <3>3 DEF HashedSound, JournalSound
    <2> QED
      BY <2>3, <2>4 DEF SoundUpload
  <1>6. NamesIn(store, "ciphertext") = UNION {Payloads(store, u) : u \in Counted}
    <2>1. ASSUME NEW p \in listed["ciphertext"] PROVE \E u \in Counted : p \in Payloads(store, u)
      <3>1. p \in DOMAIN witness /\ p \in Ciphertexts
        BY <1>1, <2>1 DEF Read, RebindTyped
      <3>2. HashedSound(p)
        BY <1>1, <3>1, PathFacts DEF WitnessSound
      <3>3. <<p[1], "json">> \in listed["journals"] /\ p \in {<<p[1], "part">>, <<p[1], "xfr">>}
        BY <3>1, <3>2, PathFacts DEF HashedSound
      <3>4. <<p[1], "json">>[1] = p[1]
        OBVIOUS
      <3>5. p[1] \in Counted
        BY <3>3, <3>4 DEF Counted
      <3>6. p \in ListedPayloads(p[1])
        BY <2>1, <3>3 DEF ListedPayloads
      <3> QED
        BY <1>3, <3>5, <3>6
    <2>2. ASSUME NEW u \in Counted, NEW p \in Payloads(store, u) PROVE p \in listed["ciphertext"]
      BY <1>3 DEF ListedPayloads
    <2> QED
      BY <2>1, <2>2
  <1> QED
    BY <1>5, <1>6 DEF AllSound

\* One more thing is found as it was.
LEMMA Rechecks ==
  ASSUME RebindInv, Recheck
  PROVE  RebindInv'
  <1>0. PICK x : x = Head(probe)
    OBVIOUS
  <1>1. /\ RebindTyped /\ WitnessSound /\ Progress /\ Reported /\ RecheckSound
        /\ Rechecking /\ probe # << >> /\ SameAsBefore(x) /\ probe' = Tail(probe)
        /\ UNCHANGED <<store, changes, rpc, listed, queue, witness, reading, wanted, binding, together>>
    BY <1>0 DEF RebindInv, Recheck
  <1>2. /\ x = probe[1] /\ Len(probe) \in Nat \ {0} /\ Len(probe') = Len(probe) - 1
        /\ probe' \in Seq(AllPaths \cup {<<"all", "journals">>, <<"all", "ciphertext">>})
        /\ \A i \in 1 .. Len(probe') : probe'[i] = probe[i + 1]
    BY <1>0, <1>1, HeadTailProperties, EmptySeq DEF RebindTyped
  <1>3. RebindTyped' /\ WitnessSound' /\ ReadingSound' /\ Progress' /\ Reported'
    <2>1. rpc # "payload" /\ rpc' # "payload"
      BY <1>1 DEF Rechecking
    <2>2. RebindTyped' /\ Progress' /\ Reported'
      BY <1>1, <1>2 DEF RebindTyped, Progress, Read, Reported
    <2>3. WitnessSound'
      BY <1>1 DEF WitnessSound, JournalSound, HashedSound, ListedPayloads, AsWitnessed
    <2> QED
      BY <2>1, <2>2, <2>3 DEF ReadingSound
  <1>4. AllSound(store)' => together'
    BY <1>1 DEF RecheckSound, AllSound, Counted, SoundUpload, Payloads, NamesIn
  <1>5. ASSUME NEW k \in Nat, NEW i \in k + 1 .. Len(probe), k >= 1
        PROVE  i - 1 \in k .. Len(probe') /\ probe'[i - 1] = probe[i]
    BY <1>2, <1>5
  <1>6. ASSUME NEW k \in Nat, k >= 1, StillToProbe(k + 1)
        PROVE  \A p \in DOMAIN witness : \E i \in k .. Len(probe') : probe'[i] = p
    BY <1>5, <1>6 DEF StillToProbe
  <1>7. CASE /\ Len(probe) >= 2 /\ probe[1] = <<"all", "journals">> /\ probe[2] = <<"all", "ciphertext">>
             /\ StillToProbe(3)
    <2>1. Len(probe') >= 1 /\ probe'[1] = <<"all", "ciphertext">>
      BY <1>2, <1>7
    <2>2. \A p \in DOMAIN witness : \E i \in 2 .. Len(probe') : probe'[i] = p
      <3>1. StillToProbe(2 + 1)
        <4>1. 2 + 1 = 3
          OBVIOUS
        <4> QED
          BY <1>7, <4>1
      <3>2. 2 \in Nat /\ 2 >= 1
        OBVIOUS
      <3> QED
        BY ONLY <1>6, <3>1, <3>2
    <2>3. StillToProbe(2)'
      BY <1>1, <2>2 DEF StillToProbe
    <2> QED
      BY <1>3, <1>4, <2>1, <2>3 DEF RebindInv, RecheckSound
  <1>8. CASE Len(probe) >= 1 /\ probe[1] = <<"all", "ciphertext">> /\ StillToProbe(2)
    <2>1. NamesIn(store, "ciphertext") = listed["ciphertext"]
      BY <1>1, <1>2, <1>8 DEF SameAsBefore
    <2>2. CASE \A p \in DOMAIN witness : AsWitnessed(p)
      <3>1. AllSound(store)
        BY <1>1, <2>1, <2>2, IntactIsSound
      <3>2. together'
        BY <1>1, <3>1 DEF RecheckSound
      <3> QED
        BY <1>3, <1>4, <3>2 DEF RebindInv, RecheckSound
    <2>3. CASE \E p \in DOMAIN witness : ~AsWitnessed(p)
      <3>1. PICK p \in DOMAIN witness : ~AsWitnessed(p)
        BY <2>3
      <3>2. PICK i \in 1 .. Len(probe') : probe'[i] = p
        BY <1>6, <1>8
      <3>3. Suspect'
        BY <1>1, <3>1, <3>2 DEF Suspect, AsWitnessed
      <3> QED
        BY <1>3, <1>4, <3>3 DEF RebindInv, RecheckSound
    <2> QED
      BY <2>2, <2>3
  <1>9. CASE together
    BY <1>1, <1>3, <1>4, <1>9 DEF RebindInv, RecheckSound
  <1>10. CASE Suspect
    <2>1. PICK i \in 1 .. Len(probe) : probe[i] \in DOMAIN witness /\ ~AsWitnessed(probe[i])
      BY <1>10 DEF Suspect
    <2>2. i # 1
      <3>1. SUFFICES ASSUME x \in DOMAIN witness, ~AsWitnessed(x) PROVE FALSE
        BY <1>2, <2>1
      <3>2. x[1] # "all"
        BY <1>1, <3>1, PathFacts DEF RebindTyped
      <3> QED
        BY <1>1, <3>1, <3>2 DEF SameAsBefore, AsWitnessed
    <2>3. i - 1 \in 1 .. Len(probe') /\ probe'[i - 1] = probe[i]
      BY <1>2, <1>5, <2>1, <2>2
    <2>4. Suspect'
      BY <1>1, <2>1, <2>3 DEF Suspect, AsWitnessed
    <2> QED
      BY <1>3, <1>4, <2>4 DEF RebindInv, RecheckSound
  <1> QED
    BY <1>1, <1>7, <1>8, <1>9, <1>10 DEF RecheckSound

\* With nothing left to look at, nothing can be suspect: everything was sound.
LEMMA Looked ==
  ASSUME RebindInv, Rechecking, probe = << >>
  PROVE  together
  <1>1. Len(probe) = 0
    OBVIOUS
  <1>2. ~Suspect
    BY <1>1 DEF Suspect
  <1> QED
    BY <1>1, <1>2 DEF RebindInv, RecheckSound
-----------------------------------------------------------------------------
LEMMA RebindInvInitially == RebindInit => RebindInv
  <1> SUFFICES ASSUME RebindInit PROVE RebindInv
    OBVIOUS
  <1>1. ASSUME NEW c \in Copies
        PROVE  DOMAIN c \subseteq AllPaths /\ \A p \in DOMAIN c : c[p].id = 0
    <2>1. PICK files, status : c = CopyOf(files, status)
      BY <1>1 DEF Copies
    <2> QED
      BY <2>1 DEF CopyOf
  <1>2. DOMAIN store \subseteq AllPaths /\ \A p \in DOMAIN store : store[p].id = 0
    BY <1>1 DEF RebindInit
  <1>3. RebindTyped
    BY <1>2 DEF RebindInit, RebindTyped
  <1> QED
    BY <1>3 DEF RebindInit, RebindInv, WitnessSound, ReadingSound, Progress, RecheckSound, Rechecking, Reported

LEMMA RebindInvInductive == RebindInv /\ [RebindNext]_rebindVars => RebindInv'
  <1> SUFFICES ASSUME RebindInv, [RebindNext]_rebindVars PROVE RebindInv'
    OBVIOUS
  <1>1. CASE JournalRefused \/ PayloadRefused \/ OrphanRefused \/ RecheckRefused \/ PublishFails
    BY <1>1, RefusesSafely
       DEF JournalRefused, PayloadRefused, OrphanRefused, RecheckRefused, PublishFails, Rechecking
  <1>2. CASE Validated
    <2>1. together' /\ binding' = binding /\ binding # "new"
      BY <1>2, Looked DEF Validated, Rechecking, RebindInv, Reported
    <2>2. RebindTyped' /\ WitnessSound'
      BY <1>2 DEF Validated, RebindInv, RebindTyped, WitnessSound, JournalSound, HashedSound, AsWitnessed, ListedPayloads
    <2>3. ReadingSound' /\ Progress' /\ RecheckSound' /\ Reported'
      BY <1>2, <2>1 DEF Validated, RebindInv, ReadingSound, Progress, Read, RecheckSound, Rechecking, Reported
    <2> QED
      BY <2>2, <2>3 DEF RebindInv
  <1>3. CASE PublishBinding
    <2>1. together'
      BY <1>3, Looked DEF PublishBinding, Rechecking
    <2>2. RebindTyped' /\ WitnessSound'
      BY <1>3 DEF PublishBinding, RebindInv, RebindTyped, WitnessSound, JournalSound, HashedSound, AsWitnessed, ListedPayloads
    <2>3. ReadingSound' /\ Progress' /\ RecheckSound' /\ Reported'
      BY <1>3, <2>1 DEF PublishBinding, ReadingSound, Progress, RecheckSound, Rechecking, Reported
    <2> QED
      BY <2>2, <2>3 DEF RebindInv
  <1>4. CASE UNCHANGED rebindVars
    <2> USE <1>4 DEF rebindVars, RebindInv
    <2>1. RebindTyped' /\ ReadingSound' /\ Progress' /\ Reported'
      BY DEF RebindTyped, ReadingSound, Progress, Read, Reported
    <2>2. WitnessSound'
      BY DEF WitnessSound, JournalSound, HashedSound, AsWitnessed, ListedPayloads
    <2>3. RecheckSound'
      BY DEF RecheckSound, Rechecking, AllSound, Counted, SoundUpload, Payloads, NamesIn, StillToProbe,
             Suspect, AsWitnessed
    <2> QED
      BY <2>1, <2>2, <2>3
  <1> QED
    BY <1>1, <1>2, <1>3, <1>4, IntrudesSafely, ListsJournals, ListsData, ReadsJournal, VerifiesPayload,
       BeginsRecheck, Rechecks DEF RebindNext

(***************************************************************************)
(* What a rebind reports as verified, or binds, was sound at one moment of *)
(* its last look, although nothing is locked: an identity is never used    *)
(* twice, so a file found as it was has been so since it was read, and all *)
(* of them were as read when the second listing was found the same.        *)
(***************************************************************************)
THEOREM RebindVerifiedTogether == RebindSpec => []VerifiedTogether
  <1>1. RebindInv => VerifiedTogether
    BY DEF RebindInv, Reported, VerifiedTogether
  <1> QED
    BY <1>1, RebindInvInitially, RebindInvInductive, PTL DEF RebindSpec

-----------------------------------------------------------------------------
(***************************************************************************)
(*                              ServerStartup                              *)
(***************************************************************************)

Steps == {"config", "auth", "observe", "bind", "journals", "data", "expire", "plugins", "listen", "serving"}
PastBinding == {"journals", "data", "expire", "plugins", "listen", "serving"}

Runs == [pc : Steps, dir : StateDirs, folder : Folders, fault : StartFaults,
         records : BOOLEAN, data : BOOLEAN, expected : SUBSET Files]

StartupTyped ==
  /\ journals \in [StateDirs -> [Files -> {"none", "partial", "complete"}]]
  /\ payload \in [Folders -> SUBSET Files]
  /\ bound \in [StateDirs -> Folders \cup {NoFolder}]
  /\ mounted \in [StateDirs -> Folders]
  /\ proc \in [Processes -> Runs \cup {NotRunning}]

\* Two servers that are alive at once and share a directory or a folder have been noticed.
OverlapsNoted ==
  \A p, q \in Processes : p # q /\ Alive(p) /\ Alive(q) =>
    /\ proc[p].dir = proc[q].dir => proc[p].dir \in overlapped
    /\ proc[p].folder = proc[q].folder => proc[p].folder \in overlapped

\* What a server observed of a directory or a folder of its own is so until it binds.
ObservedHolds(p) ==
  proc[p].pc = "bind" =>
    /\ proc[p].dir \notin overlapped =>
         proc[p].records = (\E u \in Files : journals[proc[p].dir][u] # "none")
    /\ proc[p].folder \notin overlapped => proc[p].data = (payload[proc[p].folder] # {})

\* A server alone in its directory is bound to its folder, and no other directory is bound
\* to a folder it is alone in.
Bound(p) ==
  proc[p].pc \in PastBinding =>
    /\ proc[p].dir \notin overlapped => bound[proc[p].dir] = proc[p].folder
    /\ proc[p].folder \notin overlapped \cup shared =>
         \A d \in StateDirs \ {proc[p].dir} : bound[d] # proc[p].folder

\* reconcile expects every file that has a journal and data.
ExpectsSound(p) ==
  proc[p].pc = "data" /\ proc[p].dir \notin overlapped /\ proc[p].folder \notin overlapped =>
    \A u \in payload[proc[p].folder] : journals[proc[p].dir][u] # "none" => u \in proc[p].expected

OneDirectory ==
  \A d, e \in StateDirs : d # e /\ bound[d] = bound[e] /\ bound[d] # NoFolder =>
    bound[d] \in overlapped \cup shared

Facts(p) == Alive(p) => ObservedHolds(p) /\ Bound(p) /\ ExpectsSound(p)

StartupInv ==
  /\ StartupTyped /\ OverlapsNoted /\ OneDirectory
  /\ \A p \in Processes : Facts(p)


\* A step of the server p in its own directory and folder.
OwnStep(p) ==
  /\ Alive(p) /\ overlapped' = overlapped /\ shared \subseteq shared'
  /\ \A d \in StateDirs \ {proc[p].dir} : journals'[d] = journals[d] /\ bound'[d] = bound[d]
  /\ \A f \in Folders \ {proc[p].folder} : payload'[f] = payload[f]
  /\ bound'[proc[p].dir] \in {bound[proc[p].dir], proc[p].folder}
  /\ \A q \in Processes \ {p} : proc'[q] = proc[q]
  /\ proc'[p] # NotRunning => proc'[p].dir = proc[p].dir /\ proc'[p].folder = proc[p].folder

\* What a server does in its own directory and folder leaves the facts of the others.
LEMMA Neighbours ==
  ASSUME StartupInv, NEW p \in Processes, OwnStep(p)
  PROVE  OverlapsNoted' /\ \A q \in Processes \ {p} : Facts(q)'
<1>1. OverlapsNoted'
  BY DEF StartupInv, OverlapsNoted, OwnStep, Alive
<1>2. ASSUME NEW q \in Processes \ {p}, Alive(q)' PROVE Facts(q)'
  <2>1. Alive(q) /\ Alive(p) /\ proc'[q] = proc[q] /\ overlapped' = overlapped /\ shared \subseteq shared'
    BY <1>2 DEF OwnStep, Alive
  <2>2. proc[q] \in Runs /\ proc[p] \in Runs
    BY <2>1 DEF StartupInv, StartupTyped, Alive
  <2>3. proc[q].dir \in StateDirs /\ proc[q].folder \in Folders
    BY <2>2 DEF Runs
  <2>4. /\ proc[q].dir = proc[p].dir => proc[q].dir \in overlapped
        /\ proc[q].folder = proc[p].folder => proc[q].folder \in overlapped
    BY <2>1 DEF StartupInv, OverlapsNoted
  <2>5. /\ proc[q].dir \notin overlapped => /\ journals'[proc[q].dir] = journals[proc[q].dir]
                                           /\ bound'[proc[q].dir] = bound[proc[q].dir]
        /\ proc[q].folder \notin overlapped => payload'[proc[q].folder] = payload[proc[q].folder]
    BY <2>3, <2>4 DEF OwnStep
  <2>6. ObservedHolds(q) /\ Bound(q) /\ ExpectsSound(q)
    BY <2>1 DEF StartupInv, Facts
  <2>7. ObservedHolds(q)'
    BY <2>1, <2>5, <2>6 DEF ObservedHolds
  <2>8. Bound(q)'
    <3>1. SUFFICES ASSUME proc[q].pc \in PastBinding, proc[q].folder \notin overlapped \cup shared,
                          NEW d \in StateDirs \ {proc[q].dir}
                   PROVE  bound'[d] # proc[q].folder
      BY <2>1, <2>5, <2>6 DEF Bound
    <3>2. bound[d] # proc[q].folder /\ proc[p].folder # proc[q].folder
      BY <2>4, <2>6, <3>1 DEF Bound
    <3> QED
      BY <3>2 DEF OwnStep
  <2>9. ExpectsSound(q)'
    BY <2>1, <2>5, <2>6 DEF ExpectsSound
  <2> QED
    BY <2>7, <2>8, <2>9 DEF Facts
<1> QED
  BY <1>1, <1>2 DEF Facts

\* A step of its own that keeps the types and binds nothing is safe once p's own facts hold.
LEMMA OwnStepKeeps ==
  ASSUME StartupInv, NEW p \in Processes, OwnStep(p), StartupTyped', OneDirectory', Facts(p)'
  PROVE  StartupInv'
<1>1. OverlapsNoted' /\ \A q \in Processes \ {p} : Facts(q)'
  BY Neighbours
<1>2. \A q \in Processes : Facts(q)'
  BY <1>1
<1> QED
  BY <1>1, <1>2 DEF StartupInv

\* Where a server is, as its types say.
LEMMA RunTyped ==
  ASSUME StartupTyped, NEW p \in Processes, Alive(p)
  PROVE  /\ proc[p] \in Runs /\ proc[p] # NotRunning
         /\ proc[p].dir \in StateDirs /\ proc[p].folder \in Folders
         /\ proc[p].expected \in SUBSET Files /\ proc[p].pc \in Steps
BY DEF StartupTyped, Alive, Runs

\* Steps that only move on, or end the run.
LEMMA MovesOn ==
  ASSUME StartupInv, NEW p \in Processes, Alive(p), Same,
         \/ ExitRun(p)
         \/ \E pc \in {"auth", "observe"} : proc[p].pc \notin PastBinding /\ ContinueAt(p, pc)
         \/ \E pc \in {"plugins", "listen", "serving"} : proc[p].pc \in PastBinding /\ ContinueAt(p, pc)
  PROVE  StartupInv'
<1>1. StartupTyped /\ Facts(p)
  BY DEF StartupInv
<1>2. CASE ExitRun(p)
  <2>1. StartupTyped' /\ proc'[p] = NotRunning
    BY <1>1, <1>2 DEF StartupTyped, Same, ExitRun
  <2>2. OwnStep(p)
    BY <1>1, <1>2, <2>1, RunTyped DEF OwnStep, Same, ExitRun, StartupTyped
  <2>3. OneDirectory' /\ Facts(p)'
    BY <2>1 DEF StartupInv, OneDirectory, Facts, Alive, Same
  <2> QED
    BY <2>1, <2>2, <2>3, OwnStepKeeps
<1>3. ASSUME NEW pc \in Steps \ {"bind", "data"}, ContinueAt(p, pc),
             pc \in PastBinding => proc[p].pc \in PastBinding
      PROVE  StartupInv'
  <2>1. proc' = [proc EXCEPT ![p].pc = pc] /\ proc[p] \in Runs
    BY <1>1, <1>3, RunTyped DEF ContinueAt
  <2>2. proc'[p] \in Runs /\ proc'[p].pc = pc /\ proc'[p].dir = proc[p].dir /\ proc'[p].folder = proc[p].folder
    BY <1>1, <2>1 DEF Runs, StartupTyped
  <2>3. StartupTyped'
    BY <1>1, <2>1, <2>2 DEF StartupTyped, Same
  <2>4. OwnStep(p)
    BY <1>1, <2>1, <2>2, RunTyped DEF OwnStep, Same, StartupTyped
  <2>5. OneDirectory'
    BY DEF StartupInv, OneDirectory, Same
  <2>6. Facts(p)'
    BY <1>1, <1>3, <2>2 DEF Facts, ObservedHolds, Bound, ExpectsSound, Same
  <2> QED
    BY <2>3, <2>4, <2>5, <2>6, OwnStepKeeps
<1> QED
  BY <1>2, <1>3 DEF Steps, PastBinding

\* What is observed is what there is: nobody else works in the directory or the folder.
LEMMA Observes ==
  ASSUME StartupInv, NEW p \in Processes, Observe(p)
  PROVE  StartupInv'
<1> DEFINE records == \E u \in Files : journals[proc[p].dir][u] # "none"
           data == payload[proc[p].folder] # {}
<1>1. StartupTyped /\ Facts(p) /\ Alive(p) /\ proc[p] \in Runs
  BY RunTyped DEF StartupInv, Observe
<1>2. proc' = [proc EXCEPT ![p].pc = "bind", ![p].records = records, ![p].data = data]
  BY DEF Observe
<1>3. records \in BOOLEAN /\ data \in BOOLEAN
  OBVIOUS
<1> HIDE DEF records, data
<1>4. /\ proc'[p] \in Runs /\ proc'[p].pc = "bind" /\ proc'[p].records = records /\ proc'[p].data = data
      /\ proc'[p].dir = proc[p].dir /\ proc'[p].folder = proc[p].folder
  BY <1>1, <1>2, <1>3 DEF Runs, Steps, StartupTyped
<1>0. Same
  BY DEF Observe
<1>5. StartupTyped'
  BY <1>0, <1>1, <1>2, <1>4 DEF StartupTyped, Same
<1>6. OwnStep(p)
  BY <1>0, <1>1, <1>2, <1>4, RunTyped DEF OwnStep, Same, StartupTyped
<1>7. OneDirectory'
  BY DEF StartupInv, OneDirectory, Same, Observe
<1>8. Facts(p)'
  <2>1. ObservedHolds(p)'
    <3>1. proc'[p].records = (\E u \in Files : journals'[proc'[p].dir][u] # "none")
      BY <1>0, <1>4, Zenon DEF Same, records
    <3>2. proc'[p].data = (payload'[proc'[p].folder] # {})
      BY <1>0, <1>4, Zenon DEF Same, data
    <3> QED
      BY <3>1, <3>2, Zenon DEF ObservedHolds
  <2> QED
    BY <1>4, <2>1 DEF Facts, Bound, ExpectsSound, PastBinding
<1> QED
  BY <1>5, <1>6, <1>7, <1>8, OwnStepKeeps

\* A run moved to another step keeps its directory, its folder and what it observed.
LEMMA MovedTo ==
  ASSUME StartupTyped, NEW p \in Processes, Alive(p), NEW pc \in Steps, ContinueAt(p, pc)
  PROVE  /\ proc' \in [Processes -> Runs \cup {NotRunning}]
         /\ \A q \in Processes \ {p} : proc'[q] = proc[q]
         /\ proc'[p].pc = pc /\ proc'[p].dir = proc[p].dir /\ proc'[p].folder = proc[p].folder
         /\ proc'[p].expected = proc[p].expected
<1>1. proc' = [proc EXCEPT ![p].pc = pc] /\ proc[p] \in Runs
  BY RunTyped DEF ContinueAt
<1>2. /\ proc'[p] \in Runs /\ proc'[p].pc = pc /\ proc'[p].dir = proc[p].dir
      /\ proc'[p].folder = proc[p].folder /\ proc'[p].expected = proc[p].expected
  BY <1>1 DEF Runs, StartupTyped
<1> QED
  BY <1>1, <1>2 DEF StartupTyped

\* Binding is where a second directory of one folder would be admitted: one that the folder
\* is bound to already, or an empty folder, which is remembered.
LEMMA Binds ==
  ASSUME StartupInv, NEW p \in Processes, BindStorageRoot(p)
  PROVE  StartupInv'
<1> DEFINE d == proc[p].dir
           f == proc[p].folder
<1>1. /\ StartupTyped /\ Alive(p) /\ proc[p].pc = "bind" /\ ObservedHolds(p) /\ OneDirectory
      /\ UNCHANGED <<journals, payload, mounted, runs, overlapped>>
  BY DEF StartupInv, BindStorageRoot, Facts
<1>2. proc[p] \in Runs /\ d \in StateDirs /\ f \in Folders
  BY <1>1, RunTyped
<1>3. CASE ExitRun(p) /\ UNCHANGED <<bound, shared>>
  BY <1>1, <1>3, MovesOn DEF Same
<1>4. CASE /\ ~Incompatible(bound[d], f, proc[p].records, proc[p].data)
           /\ ContinueAt(p, "journals") /\ bound' = [bound EXCEPT ![d] = f]
           /\ shared' = shared \cup {f : e \in {e \in StateDirs \ {d} : bound[e] = f /\ payload[f] = {}}}
  <2> HIDE DEF d, f
  <2>1. /\ proc' \in [Processes -> Runs \cup {NotRunning}]
        /\ \A q \in Processes \ {p} : proc'[q] = proc[q]
        /\ proc'[p].pc = "journals" /\ proc'[p].dir = d /\ proc'[p].folder = f
    BY <1>1, <1>4, MovedTo DEF Steps, d, f
  <2>2. /\ bound' \in [StateDirs -> Folders \cup {NoFolder}] /\ bound'[d] = f
        /\ \A e \in StateDirs \ {d} : bound'[e] = bound[e]
    BY <1>1, <1>2, <1>4 DEF StartupTyped
  <2>3. StartupTyped'
    BY <1>1, <2>1, <2>2 DEF StartupTyped
  <2>4. shared \subseteq shared'
    BY <1>4
  <2>5. OwnStep(p)
    BY <1>1, <2>1, <2>2, <2>4 DEF OwnStep, d, f
  <2>6. ASSUME NEW e \in StateDirs \ {d}, bound[e] = f, f \notin overlapped PROVE f \in shared'
    <3>1. CASE bound[d] = f
      BY <1>1, <1>2, <2>4, <2>6, <3>1, StartupAssumption DEF OneDirectory
    <3>2. CASE bound[d] # f
      <4>1. ~proc[p].data
        BY <1>4, <3>2 DEF Incompatible
      <4>2. payload[f] = {}
        BY <1>1, <2>6, <4>1 DEF ObservedHolds, f
      <4> QED
        BY <1>4, <2>6, <4>2
    <3> QED
      BY <3>1, <3>2
  <2>7. OneDirectory'
    <3>1. SUFFICES ASSUME NEW a \in StateDirs, NEW b \in StateDirs, a # b, bound'[a] = bound'[b],
                          bound'[a] # NoFolder, bound'[a] \notin overlapped
                   PROVE  bound'[a] \in shared'
      BY <1>1 DEF OneDirectory
    <3>2. CASE a = d
      BY <2>2, <2>6, <3>1, <3>2
    <3>3. CASE b = d
      BY <2>2, <2>6, <3>1, <3>3
    <3>4. CASE a # d /\ b # d
      BY <1>1, <2>2, <2>4, <3>1, <3>4 DEF OneDirectory
    <3> QED
      BY <3>2, <3>3, <3>4
  <2>8. Facts(p)'
    <3>1. Bound(p)'
      BY <1>1, <2>1, <2>2, <2>6 DEF Bound
    <3> QED
      BY <2>1, <3>1 DEF Facts, ObservedHolds, ExpectsSound
  <2> QED
    BY <2>3, <2>5, <2>7, <2>8, OwnStepKeeps
<1> QED
  BY <1>3, <1>4 DEF BindStorageRoot

\* Steps past the binding that change journals and data of p and bind nothing.
LEMMA FilesStep ==
  ASSUME StartupInv, NEW p \in Processes, Alive(p), proc[p].pc \in PastBinding,
         UNCHANGED <<bound, mounted, overlapped, shared>>,
         journals' \in [StateDirs -> [Files -> {"none", "partial", "complete"}]],
         \A e \in StateDirs \ {proc[p].dir} : journals'[e] = journals[e],
         payload' \in [Folders -> SUBSET Files],
         \A g \in Folders \ {proc[p].folder} : payload'[g] = payload[g],
         proc' \in [Processes -> Runs \cup {NotRunning}],
         \A q \in Processes \ {p} : proc'[q] = proc[q],
         proc'[p].dir = proc[p].dir, proc'[p].folder = proc[p].folder,
         proc'[p].pc \in PastBinding, ExpectsSound(p)'
  PROVE  StartupInv'
<1>1. StartupTyped /\ Bound(p)
  BY DEF StartupInv, Facts
<1>2. StartupTyped'
  BY <1>1 DEF StartupTyped
<1>3. OwnStep(p)
  BY <1>1, RunTyped DEF OwnStep, StartupTyped
<1>4. OneDirectory'
  BY DEF StartupInv, OneDirectory
<1>5. Facts(p)'
  BY <1>1 DEF Facts, Bound, ObservedHolds, PastBinding
<1> QED
  BY <1>2, <1>3, <1>4, <1>5, OwnStepKeeps

\* The journals without data go first; what is left of them is what data is kept for.
LEMMA Reconciles ==
  ASSUME StartupInv, NEW p \in Processes, ReconcileJournals(p) \/ ReconcileData(p)
  PROVE  StartupInv'
<1> DEFINE d == proc[p].dir
           f == proc[p].folder
<1>1. StartupTyped /\ Alive(p)
  BY DEF StartupInv, ReconcileJournals, ReconcileData
<1>2. proc[p] \in Runs /\ d \in StateDirs /\ f \in Folders
  BY <1>1, RunTyped
<1>3. CASE ReconcileJournals(p)
  <2> DEFINE sound == {u \in payload[f] : journals[d][u] # "none"}
             kept == [u \in Files |-> IF u \in sound THEN journals[d][u] ELSE "none"]
  <2>1. /\ journals' = [journals EXCEPT ![d] = kept]
        /\ proc' = [proc EXCEPT ![p].pc = "data", ![p].expected = sound]
        /\ proc[p].pc \in PastBinding /\ UNCHANGED <<payload, bound, mounted, runs, overlapped, shared>>
    BY <1>1, <1>2, <1>3 DEF ReconcileJournals, PastBinding, StartupTyped
  <2>2. sound \in SUBSET Files /\ kept \in [Files -> {"none", "partial", "complete"}]
    BY <1>1, <1>2 DEF StartupTyped
  <2>3. \A u \in payload[f] : kept[u] # "none" => u \in sound
    BY <1>1, <1>2 DEF StartupTyped
  <2> HIDE DEF sound, kept, d, f
  <2>4. /\ proc'[p] \in Runs /\ proc'[p].pc = "data" /\ proc'[p].expected = sound
        /\ proc'[p].dir = proc[p].dir /\ proc'[p].folder = proc[p].folder
    BY <1>1, <1>2, <2>1, <2>2 DEF Runs, Steps, StartupTyped
  <2>5. /\ journals' \in [StateDirs -> [Files -> {"none", "partial", "complete"}]] /\ journals'[d] = kept
        /\ \A e \in StateDirs \ {d} : journals'[e] = journals[e]
    BY <1>1, <1>2, <2>1, <2>2 DEF StartupTyped
  <2>6. /\ proc' \in [Processes -> Runs \cup {NotRunning}]
        /\ \A q \in Processes \ {p} : proc'[q] = proc[q]
    BY <1>1, <2>1, <2>4 DEF StartupTyped
  <2>7. ExpectsSound(p)'
    BY <2>1, <2>3, <2>4, <2>5 DEF ExpectsSound, d, f
  <2> QED
    BY <1>1, <2>1, <2>4, <2>5, <2>6, <2>7, FilesStep DEF PastBinding, StartupTyped, d
<1>4. CASE ReconcileData(p)
  <2>1. /\ payload' = [payload EXCEPT ![f] = @ \cap proc[p].expected] /\ ContinueAt(p, "expire")
        /\ proc[p].pc \in PastBinding /\ UNCHANGED <<journals, bound, mounted, runs, overlapped, shared>>
    BY <1>4 DEF ReconcileData, PastBinding
  <2> HIDE DEF d, f
  <2>2. /\ payload' \in [Folders -> SUBSET Files]
        /\ \A g \in Folders \ {f} : payload'[g] = payload[g]
    BY <1>1, <1>2, <2>1 DEF StartupTyped
  <2>3. /\ proc' \in [Processes -> Runs \cup {NotRunning}]
        /\ \A q \in Processes \ {p} : proc'[q] = proc[q]
        /\ proc'[p].pc = "expire" /\ proc'[p].dir = proc[p].dir /\ proc'[p].folder = proc[p].folder
    BY <1>1, <2>1, MovedTo DEF Steps
  <2>4. ExpectsSound(p)'
    BY <2>3 DEF ExpectsSound
  <2> QED
    BY <1>1, <2>1, <2>2, <2>3, <2>4, FilesStep DEF PastBinding, StartupTyped, f
<1> QED
  BY <1>3, <1>4

\* An expired upload goes from the directory and from the folder in one step.
LEMMA Expires ==
  ASSUME StartupInv, NEW p \in Processes, ExpireIncomplete(p)
  PROVE  StartupInv'
<1> DEFINE d == proc[p].dir
           f == proc[p].folder
<1>1. StartupTyped /\ Alive(p) /\ proc[p].pc \in PastBinding
  BY DEF StartupInv, ExpireIncomplete, PastBinding
<1>2. proc[p] \in Runs /\ d \in StateDirs /\ f \in Folders
  BY <1>1, RunTyped
<1>3. PICK gone \in SUBSET {u \in Files : journals[d][u] = "partial"} :
        /\ journals' = [journals EXCEPT ![d] = [u \in Files |-> IF u \in gone THEN "none" ELSE @[u]]]
        /\ payload' = [payload EXCEPT ![f] = @ \ gone]
  BY DEF ExpireIncomplete
<1>4. ContinueAt(p, "plugins") /\ UNCHANGED <<bound, mounted, runs, overlapped, shared>>
  BY DEF ExpireIncomplete
<1> HIDE DEF d, f
<1>5. /\ journals' \in [StateDirs -> [Files -> {"none", "partial", "complete"}]]
      /\ \A e \in StateDirs \ {d} : journals'[e] = journals[e]
  BY <1>1, <1>2, <1>3 DEF StartupTyped
<1>6. /\ payload' \in [Folders -> SUBSET Files]
      /\ \A g \in Folders \ {f} : payload'[g] = payload[g]
  BY <1>1, <1>2, <1>3 DEF StartupTyped
<1>7. /\ proc' \in [Processes -> Runs \cup {NotRunning}]
      /\ \A q \in Processes \ {p} : proc'[q] = proc[q]
      /\ proc'[p].pc = "plugins" /\ proc'[p].dir = proc[p].dir /\ proc'[p].folder = proc[p].folder
  BY <1>1, <1>4, MovedTo DEF Steps
<1>8. ExpectsSound(p)'
  BY <1>7 DEF ExpectsSound
<1> QED
  BY <1>1, <1>4, <1>5, <1>6, <1>7, <1>8, FilesStep DEF PastBinding, d, f

\* An upload or a deletion of a server that serves, in its directory and its folder.
LEMMA Serves ==
  ASSUME StartupInv, NEW p \in Processes, NEW u \in Files,
         UploadData(p, u) \/ UploadJournal(p, u) \/ DeleteUpload(p, u)
  PROVE  StartupInv'
<1> DEFINE d == proc[p].dir
           f == proc[p].folder
<1>1. /\ StartupTyped /\ Alive(p) /\ proc[p].pc = "serving" /\ proc[p].pc \in PastBinding
      /\ UNCHANGED <<bound, mounted, runs, overlapped, shared>>
  BY DEF StartupInv, UploadData, UploadJournal, DeleteUpload, Serving, PastBinding
<1>2. proc[p] \in Runs /\ d \in StateDirs /\ f \in Folders
  BY <1>1, RunTyped
<1>3. /\ journals' \in [StateDirs -> [Files -> {"none", "partial", "complete"}]]
      /\ \A e \in StateDirs \ {d} : journals'[e] = journals[e]
  <2>1. PICK status \in {"none", "partial", "complete"} :
          journals' = journals \/ journals' = [journals EXCEPT ![d][u] = status]
    <3>1. CASE UploadJournal(p, u)
      <4>1. CASE journals[d][u] = "none"
        BY <1>1, <1>2, <3>1, <4>1 DEF UploadJournal, StartupTyped
      <4>2. CASE journals[d][u] # "none"
        BY <1>1, <1>2, <3>1, <4>2 DEF UploadJournal, StartupTyped
      <4> QED
        BY <4>1, <4>2
    <3>2. CASE UploadData(p, u) \/ DeleteUpload(p, u)
      BY <3>2 DEF UploadData, DeleteUpload
    <3> QED
      BY <3>1, <3>2
  <2> HIDE DEF d, f
  <2>2. CASE journals' = [journals EXCEPT ![d][u] = status]
    <3>1. [journals[d] EXCEPT ![u] = status] \in [Files -> {"none", "partial", "complete"}]
      BY <1>1, <1>2 DEF StartupTyped
    <3>2. journals' = [journals EXCEPT ![d] = [journals[d] EXCEPT ![u] = status]]
      BY <2>2
    <3> QED
      BY <1>1, <1>2, <3>1, <3>2 DEF StartupTyped
  <2> QED
    BY <1>1, <2>1, <2>2 DEF StartupTyped
<1>4. /\ payload' \in [Folders -> SUBSET Files]
      /\ \A g \in Folders \ {f} : payload'[g] = payload[g]
  <2>1. PICK data \in SUBSET Files : payload' = payload \/ payload' = [payload EXCEPT ![f] = data]
    <3>1. payload[f] \cup {u} \in SUBSET Files /\ payload[f] \ {u} \in SUBSET Files
      BY <1>1, <1>2 DEF StartupTyped
    <3> QED
      BY <3>1 DEF UploadData, UploadJournal, DeleteUpload
  <2> HIDE DEF d, f
  <2> QED
    BY <1>1, <1>2, <2>1 DEF StartupTyped
<1>5. PICK expected \in SUBSET Files : proc' = proc \/ proc' = [proc EXCEPT ![p].expected = expected]
  BY DEF UploadData, UploadJournal, DeleteUpload
<1>6. /\ proc'[p] \in Runs /\ proc'[p].pc = "serving"
      /\ proc'[p].dir = proc[p].dir /\ proc'[p].folder = proc[p].folder
  BY <1>1, <1>2, <1>5 DEF Runs, StartupTyped
<1>7. /\ proc' \in [Processes -> Runs \cup {NotRunning}]
      /\ \A q \in Processes \ {p} : proc'[q] = proc[q]
  BY <1>1, <1>5, <1>6 DEF StartupTyped
<1>8. ExpectsSound(p)'
  BY <1>6 DEF ExpectsSound
<1> HIDE DEF d, f
<1> QED
  BY <1>1, <1>3, <1>4, <1>6, <1>7, <1>8, FilesStep DEF PastBinding, d, f

\* A server that starts where another one is alive is noticed.
LEMMA StartsBeside ==
  ASSUME StartupInv, NEW p \in Processes, NEW d \in StateDirs, NEW fault \in StartFaults, Start(p, d, fault)
  PROVE  StartupInv'
<1> DEFINE run == [pc |-> "config", dir |-> d, folder |-> mounted[d], fault |-> fault,
                   records |-> FALSE, data |-> FALSE, expected |-> {}]
           others == {proc[q] : q \in {q \in Processes \ {p} : Alive(q)}}
<1>1. /\ ~Alive(p) /\ proc' = [proc EXCEPT ![p] = run]
      /\ overlapped' = overlapped \cup {d : o \in {o \in others : o.dir = d}}
                          \cup {mounted[d] : o \in {o \in others : o.folder = mounted[d]}}
      /\ UNCHANGED <<journals, payload, bound, mounted, shared>>
  BY DEF Start
<1>2. StartupTyped
  BY DEF StartupInv
<1>3. run \in Runs /\ run # NotRunning /\ run.dir = d /\ run.folder = mounted[d] /\ run.pc = "config"
  BY <1>2 DEF Runs, Steps, NotRunning, StartupTyped
<1> HIDE DEF run
<1>4. StartupTyped' /\ proc'[p] = run /\ \A q \in Processes \ {p} : proc'[q] = proc[q]
  BY <1>1, <1>2, <1>3 DEF StartupTyped
<1>5. overlapped \subseteq overlapped'
  BY <1>1
<1>6. ASSUME NEW q \in Processes \ {p}, Alive(q)
      PROVE  /\ proc[q].dir = d => d \in overlapped'
             /\ proc[q].folder = mounted[d] => mounted[d] \in overlapped'
  BY <1>1, <1>6
<1>7. OverlapsNoted'
  BY <1>3, <1>4, <1>5, <1>6 DEF OverlapsNoted, StartupInv, Alive
<1>8. OneDirectory'
  BY <1>1, <1>5 DEF OneDirectory, StartupInv
<1>9. ASSUME NEW q \in Processes PROVE Facts(q)'
  <2>1. CASE q = p
    BY <1>3, <1>4, <2>1 DEF Facts, ObservedHolds, Bound, ExpectsSound, PastBinding
  <2>2. CASE q # p /\ Alive(q)
    <3>1. proc'[q] = proc[q] /\ ObservedHolds(q) /\ Bound(q) /\ ExpectsSound(q)
      BY <1>4, <2>2 DEF StartupInv, Facts
    <3>2. ObservedHolds(q)'
      BY <1>1, <1>5, <3>1 DEF ObservedHolds
    <3>3. Bound(q)' /\ ExpectsSound(q)'
      BY <1>1, <1>5, <3>1 DEF Bound, ExpectsSound
    <3> QED
      BY <3>2, <3>3 DEF Facts
  <2>3. CASE q # p /\ ~Alive(q)
    BY <1>4, <2>3 DEF Facts, Alive
  <2> QED
    BY <2>1, <2>2, <2>3
<1> QED
  BY <1>4, <1>7, <1>8, <1>9 DEF StartupInv

\* Another mount of a folder changes no server that runs.
LEMMA Mounts ==
  ASSUME StartupInv, \/ UNCHANGED startupVars
                     \/ \E d \in StateDirs, f \in Folders : Mount(d, f)
  PROVE  StartupInv'
<1>1. /\ UNCHANGED <<journals, payload, bound, proc, overlapped, shared>>
      /\ mounted' \in [StateDirs -> Folders]
  BY DEF startupVars, Mount, StartupInv, StartupTyped
<1>2. StartupTyped' /\ OverlapsNoted' /\ OneDirectory'
  BY <1>1 DEF StartupInv, StartupTyped, OverlapsNoted, OneDirectory, Alive
<1>3. \A q \in Processes : Facts(q)'
  BY <1>1 DEF StartupInv, Facts, ObservedHolds, Bound, ExpectsSound, Alive
<1> QED
  BY <1>2, <1>3 DEF StartupInv

\* The steps of a start that touch no file.
LEMMA StartupMovesOn ==
  ASSUME StartupInv, NEW p \in Processes,
         Configure(p) \/ SetupAuth(p) \/ RegisterPlugins(p) \/ Listen(p) \/ Stop(p)
  PROVE  StartupInv'
<1>1. Alive(p) /\ Same
  BY DEF Configure, SetupAuth, RegisterPlugins, Listen, Stop
<1>2. CASE Configure(p)
  BY <1>1, <1>2, MovesOn DEF Configure, PastBinding
<1>3. CASE SetupAuth(p)
  BY <1>1, <1>3, MovesOn DEF SetupAuth, PastBinding
<1>4. CASE RegisterPlugins(p)
  BY <1>1, <1>4, MovesOn DEF RegisterPlugins, PastBinding
<1>5. CASE Listen(p)
  BY <1>1, <1>5, MovesOn DEF Listen, PastBinding
<1>6. CASE Stop(p)
  BY <1>1, <1>6, MovesOn DEF Stop
<1> QED
  BY <1>2, <1>3, <1>4, <1>5, <1>6

\* Every step of the system keeps the invariant.
LEMMA StartupInvStep ==
  ASSUME StartupInv, [StartupNext]_startupVars
  PROVE  StartupInv'
<1>1. ASSUME NEW p \in Processes, StartupStep(p) PROVE StartupInv'
  BY <1>1, StartupMovesOn, Observes, Binds, Reconciles, Expires DEF StartupStep
<1> QED
  BY <1>1, StartsBeside, Serves, Mounts DEF StartupNext

\* Only the start of a server on d or on f touches a complete upload of d in f, and it is
\* bound to d and to f alone.
LEMMA KeepsUploads ==
  ASSUME StartupInv, NEW p \in Processes, StartupStep(p),
         NEW u \in Files, NEW d \in StateDirs, NEW f \in Folders,
         Paired(u, d, f), d \notin overlapped, f \notin overlapped \cup shared
  PROVE  Paired(u, d, f)'
<1>1. StartupTyped /\ Alive(p) /\ ObservedHolds(p) /\ Bound(p) /\ ExpectsSound(p)
  BY DEF StartupInv, Facts, StartupStep, Configure, SetupAuth, Observe, BindStorageRoot, ReconcileJournals,
     ReconcileData, ExpireIncomplete, RegisterPlugins, Listen, Stop
<1>2. journals[d][u] = "complete" /\ u \in payload[f] /\ bound[d] = f
  BY DEF Paired
<1>3. proc[p].dir \in StateDirs /\ proc[p].folder \in Folders /\ proc[p].pc \in Steps
  BY <1>1, RunTyped
<1>4. ASSUME proc[p].pc \in PastBinding PROVE proc[p].dir = d <=> proc[p].folder = f
  BY <1>1, <1>2, <1>4 DEF Bound
<1>5. CASE UNCHANGED <<journals, payload, bound>>
  BY <1>2, <1>5 DEF Paired
<1>6. CASE BindStorageRoot(p)
  <2>1. UNCHANGED <<journals, payload>>
    BY <1>6 DEF BindStorageRoot
  <2>2. CASE proc[p].dir = d
    <3>1. proc[p].records
      BY <1>1, <1>2, <1>6, <2>2 DEF ObservedHolds, BindStorageRoot
    <3>2. bound' = bound \/ bound[d] = proc[p].folder
      BY <1>6, <2>2, <3>1 DEF BindStorageRoot, Incompatible
    <3> QED
      BY <1>1, <1>2, <1>6, <2>1, <2>2, <3>2 DEF BindStorageRoot, Paired, StartupTyped
  <2>3. CASE proc[p].dir # d
    <3>1. bound'[d] = bound[d]
      BY <1>1, <1>6, <2>3 DEF BindStorageRoot, StartupTyped
    <3> QED
      BY <1>2, <2>1, <3>1 DEF Paired
  <2> QED
    BY <2>2, <2>3
<1>7. CASE ReconcileJournals(p)
  <2>1. UNCHANGED <<payload, bound>> /\ proc[p].pc \in PastBinding
    BY <1>7 DEF ReconcileJournals, PastBinding
  <2>2. journals'[d][u] = "complete"
    <3>1. CASE proc[p].dir = d
      BY <1>1, <1>2, <1>4, <1>7, <2>1, <3>1 DEF ReconcileJournals, StartupTyped
    <3>2. CASE proc[p].dir # d
      BY <1>1, <1>2, <1>7, <3>2 DEF ReconcileJournals, StartupTyped
    <3> QED
      BY <3>1, <3>2
  <2> QED
    BY <1>2, <2>1, <2>2 DEF Paired
<1>8. CASE ReconcileData(p)
  <2>1. UNCHANGED <<journals, bound>> /\ proc[p].pc = "data" /\ proc[p].pc \in PastBinding
    BY <1>8 DEF ReconcileData, PastBinding
  <2>2. u \in payload'[f]
    <3>1. CASE proc[p].folder = f
      <4>1. u \in proc[p].expected
        BY <1>1, <1>2, <1>4, <2>1, <3>1 DEF ExpectsSound
      <4> QED
        BY <1>1, <1>2, <1>8, <3>1, <4>1 DEF ReconcileData, StartupTyped
    <3>2. CASE proc[p].folder # f
      BY <1>1, <1>2, <1>8, <3>2 DEF ReconcileData, StartupTyped
    <3> QED
      BY <3>1, <3>2
  <2> QED
    BY <1>2, <2>1, <2>2 DEF Paired
<1>9. CASE ExpireIncomplete(p)
  <2>1. UNCHANGED bound /\ proc[p].pc \in PastBinding
    BY <1>9 DEF ExpireIncomplete, PastBinding
  <2>2. PICK gone \in SUBSET {w \in Files : journals[proc[p].dir][w] = "partial"} :
          /\ journals' = [journals EXCEPT ![proc[p].dir] = [w \in Files |-> IF w \in gone THEN "none" ELSE @[w]]]
          /\ payload' = [payload EXCEPT ![proc[p].folder] = @ \ gone]
    BY <1>9 DEF ExpireIncomplete
  <2>3. CASE proc[p].dir = d
    <3>1. u \notin gone
      BY <1>2, <2>3
    <3> QED
      BY <1>1, <1>2, <1>4, <2>1, <2>2, <2>3, <3>1 DEF Paired, StartupTyped
  <2>4. CASE proc[p].dir # d
    <3>1. proc[p].folder # f
      BY <1>4, <2>1, <2>4
    <3>2. journals'[d] = journals[d] /\ payload'[f] = payload[f]
      BY <1>1, <2>2, <2>4, <3>1 DEF StartupTyped
    <3> QED
      BY <1>2, <2>1, <3>2 DEF Paired
  <2> QED
    BY <2>3, <2>4
<1> QED
  BY <1>5, <1>6, <1>7, <1>8, <1>9
  DEF StartupStep, Configure, SetupAuth, Observe, RegisterPlugins, Listen, Stop, Same

(***************************************************************************)
(* No start removes an upload that is complete in the directory and the    *)
(* folder it is bound to, unless two servers ran there at once or two      *)
(* directories were admitted to one folder while it was empty: a directory *)
(* gets another folder only when there are no records in the one and no    *)
(* data in the other, and any other start is refused before the reconcile. *)
(***************************************************************************)
THEOREM StartupKeepsCompleteUploads == StartupSpec => StartupKeepsUploads
<1>1. StartupInit => StartupInv
  BY StartupAssumption DEF StartupInit, StartupInv, StartupTyped, OverlapsNoted, OneDirectory, Facts, Alive
<1>2. StartupInv /\ [StartupNext]_startupVars =>
        [\A p \in Processes : StartupStep(p) =>
           \A u \in Files, d \in StateDirs, f \in Folders :
             Paired(u, d, f) /\ d \notin overlapped /\ f \notin overlapped \cup shared => Paired(u, d, f)']_startupVars
  BY KeepsUploads
<1> QED
  BY <1>1, <1>2, StartupInvStep, PTL DEF StartupSpec, StartupKeepsUploads
==============================================================================
