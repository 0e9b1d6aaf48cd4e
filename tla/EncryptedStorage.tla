-------------------------- MODULE EncryptedStorage --------------------------
(***************************************************************************)
(* xferry/encrypted_storage.py: resumable encrypted uploads, kept as one   *)
(* data file (.part, then .xfr) and one JSON state file per id, and the    *)
(* recovery pass that runs at startup.                                     *)
(*                                                                         *)
(* The service's lock admits one operation at a time; an operation is a    *)
(* sequence of file-system steps and a crash may come between any two.  A  *)
(* directory is a log of values: the first is on disk, the last is what    *)
(* the process sees, fsync of the directory drops all but the last.  After *)
(* a kill the logs are intact; after a power loss each directory is some   *)
(* value of its log (the two may lie on different file systems) and an     *)
(* unsynced chunk holds old, new or torn bytes.  A state file is written   *)
(* to a fsynced temporary and renamed, so it is never torn.  fsync itself  *)
(* does not fail; other I/O may.                                           *)
(*                                                                         *)
(* Data is abstracted: a chunk's ciphertext is a value, a differing        *)
(* manifest is one more reason to change nothing, and updated_at is        *)
(* whether the time to live has run out.                                   *)
(***************************************************************************)
EXTENDS Naturals, SequencesExt

CONSTANTS
  Ids, Chunks, Values,
  Blank, Torn,     \* a chunk never written; a chunk cut short
  Routes,          \* DELETE routes clients use: subset of {"upload", "file"}
  Faults           \* the crashes that happen, in order: "kill" or "power"

ASSUME StorageAssumption ==
  /\ Ids # {} /\ Blank # Torn /\ Blank \notin Values /\ Torn \notin Values
  /\ Routes \subseteq {"upload", "file"} /\ Faults \in Seq({"kill", "power"})

VARIABLES
  up,              \* "down", "start" (reconcile running) or "up"
  op,              \* the operation that holds the lock
  dataLog,         \* data directory: [Ids -> SUBSET {"part", "xfr"}]
  stateLog,        \* state directory: [Ids -> record]
  blob, synced,    \* contents of the data file: as seen, and on disk
  lapsed,          \* ids whose last update is older than incomplete_ttl
  checked,         \* <<id, route>>: handlers between storage.get and delete
  crashes,
  acked,           \* history: chunks acknowledged to the client
  doomed           \* history: ids whose removal has begun and not been settled

diskVars == <<dataLog, stateLog, blob, synced>>
vars == <<up, op, diskVars, lapsed, checked, crashes, acked, doomed>>

NoChunks == [c \in Chunks |-> Blank]
NoState == [status |-> "none", chunks |-> NoChunks]
NoOp == [kind |-> "none"]

D == Last(dataLog)
S == Last(stateLog)
Put(log, x, e) == Append(log, [Last(log) EXCEPT ![x] = e])
Sync(log) == <<Last(log)>>

Init ==
  /\ up = "up" /\ op = NoOp
  /\ dataLog = <<[x \in Ids |-> {}]>>
  /\ stateLog = <<[x \in Ids |-> NoState]>>
  /\ blob = [x \in Ids |-> NoChunks] /\ synced = blob
  /\ lapsed = {} /\ checked = {} /\ crashes = 0
  /\ acked = [x \in Ids |-> NoChunks] /\ doomed = {}
-----------------------------------------------------------------------------
\* Steps shared by the operations.

At(kind, step) == op # NoOp /\ op.kind = kind /\ op.step = step
Goto(step) == op' = [op EXCEPT !.step = step]
Done == op' = NoOp
\* The lock is taken; `victim` is the id the deletion steps work on.
Begin(kind, x, arg) ==
  /\ up = "up" /\ op = NoOp
  /\ op' = [kind |-> kind, id |-> x, arg |-> arg, victim |-> x,
            step |-> "begin", todo |-> {}]
  /\ UNCHANGED <<up, diskVars, lapsed, checked, crashes, acked, doomed>>

\* _write_state: the rename of a fsynced temporary file.
WriteState(x, status, chunks) ==
  stateLog' = Put(stateLog, x, [status |-> status, chunks |-> chunks])

\* The removal of x begins: nothing acknowledged about it binds any longer.
Doom(x) ==
  /\ doomed' = doomed \cup {x}
  /\ acked' = [acked EXCEPT ![x] = NoChunks]

Expired(x) == S[x].status = "partial" /\ x \in lapsed

\* The partials the running operation expires before anything else: all of
\* them for create and listing, its own for the others; none for delete.
ToExpire ==
  {x \in Ids : Expired(x) /\ (op.kind \in {"create", "list"}
                              \/ (op.kind \in {"chunk", "complete", "check"} /\ x = op.id))}

Expire(x) ==
  /\ op # NoOp /\ op.step = "begin" /\ op.kind # "reconcile"
  /\ x \in ToExpire
  /\ op' = [op EXCEPT !.victim = x, !.step = "unlinkData"]
  /\ Doom(x)
  /\ UNCHANGED <<up, diskVars, lapsed, checked, crashes>>

\* The operation's own work may start.
Ready(kind) == At(kind, "begin") /\ ToExpire = {}
-----------------------------------------------------------------------------
\* _delete_locked and the removal of a record's artifacts.

UnlinkData ==
  /\ op # NoOp /\ op.step = "unlinkData"
  /\ dataLog' = Put(dataLog, op.victim, {})
  /\ Goto("unlinkState")
  /\ UNCHANGED <<up, stateLog, blob, synced, lapsed, checked, crashes, acked, doomed>>

UnlinkState ==
  /\ op # NoOp /\ op.step = "unlinkState"
  /\ stateLog' = Put(stateLog, op.victim, NoState)
  /\ lapsed' = lapsed \ {op.victim}
  /\ Goto(IF op.kind = "reconcile" THEN "begin" ELSE "syncData")
  /\ UNCHANGED <<up, dataLog, blob, synced, checked, crashes, acked, doomed>>

SyncData ==
  /\ op # NoOp /\ op.step = "syncData"
  /\ dataLog' = Sync(dataLog)
  /\ Goto("syncState")
  /\ UNCHANGED <<up, stateLog, blob, synced, lapsed, checked, crashes, acked, doomed>>

\* The last fsync of a deletion, and of reconcile, which then expires partials.
SyncState ==
  /\ op # NoOp /\ op.step = "syncState"
  /\ stateLog' = Sync(stateLog)
  /\ CASE op.kind = "delete"    -> Done
       [] op.kind = "reconcile" -> op' = [op EXCEPT !.kind = "list", !.step = "begin"]
       [] OTHER                 -> Goto("begin")
  /\ up' = "up"
  /\ doomed' = {}
  /\ UNCHANGED <<dataLog, blob, synced, lapsed, checked, crashes, acked>>

\* DELETE of either route: storage.get decides, storage.delete acts later.
Check(x, route) ==
  /\ <<x, route>> \notin checked
  /\ Begin("check", x, route)

CheckResult ==
  /\ Ready("check")
  /\ checked' = IF S[op.id].status = (IF op.arg = "upload" THEN "partial" ELSE "complete")
                THEN checked \cup {<<op.id, op.arg>>}
                ELSE checked
  /\ Done
  /\ UNCHANGED <<up, diskVars, lapsed, crashes, acked, doomed>>

Delete(x, route) ==
  /\ <<x, route>> \in checked
  /\ up = "up" /\ op = NoOp
  /\ op' = [kind |-> "delete", id |-> x, arg |-> route, victim |-> x,
            step |-> "unlinkData", todo |-> {}]
  /\ checked' = checked \ {<<x, route>>}
  /\ Doom(x)
  /\ UNCHANGED <<up, diskVars, lapsed, crashes>>

\* Listing and capacity: expiry is all they change.
ListFiles ==
  /\ Ready("list")
  /\ Done
  /\ UNCHANGED <<up, diskVars, lapsed, checked, crashes, acked, doomed>>
-----------------------------------------------------------------------------
\* create()

CreateExisting ==
  /\ Ready("create")
  /\ S[op.id] # NoState \/ D[op.id] # {}
  /\ Done
  /\ UNCHANGED <<up, diskVars, lapsed, checked, crashes, acked, doomed>>

CreatePart ==
  /\ Ready("create")
  /\ S[op.id] = NoState /\ D[op.id] = {}
  /\ dataLog' = Put(dataLog, op.id, {"part"})
  /\ blob' = [blob EXCEPT ![op.id] = NoChunks]
  /\ synced' = [synced EXCEPT ![op.id] = NoChunks]
  /\ Goto("syncPart")
  /\ UNCHANGED <<up, stateLog, lapsed, checked, crashes, acked, doomed>>

CreateSyncPart ==
  /\ At("create", "syncPart")
  /\ dataLog' = Sync(dataLog)
  /\ Goto("putState")
  /\ UNCHANGED <<up, stateLog, blob, synced, lapsed, checked, crashes, acked, doomed>>

CreateState ==
  /\ At("create", "putState")
  /\ WriteState(op.id, "partial", NoChunks)
  /\ Goto("syncNew")
  /\ UNCHANGED <<up, dataLog, blob, synced, lapsed, checked, crashes, acked, doomed>>

\* Any exception in between removes the part and the state again.
CreateFails ==
  /\ op # NoOp /\ op.kind = "create" /\ op.step \in {"syncPart", "putState", "syncNew"}
  /\ op' = [op EXCEPT !.kind = "delete", !.arg = "undo", !.victim = op.id,
                      !.step = "unlinkData"]
  /\ Doom(op.id)
  /\ UNCHANGED <<up, diskVars, lapsed, checked, crashes>>

\* The state directory is durable: create and write_chunk return to the client.
CreateDone ==
  /\ At("create", "syncNew")
  /\ stateLog' = Sync(stateLog)
  /\ Done
  /\ UNCHANGED <<up, dataLog, blob, synced, lapsed, checked, crashes, acked, doomed>>
-----------------------------------------------------------------------------
\* write_chunk(); op.arg = <<index, ciphertext>>

ChunkRefused ==
  /\ Ready("chunk")
  /\ LET r == S[op.id] c == op.arg[1] v == op.arg[2] IN
     /\ r.status # "partial" \/ r.chunks[c] # Blank
     /\ acked' = IF /\ r # NoState /\ r.chunks[c] = v /\ blob[op.id][c] = v
                    /\ D[op.id] = {IF r.status = "partial" THEN "part" ELSE "xfr"}
                 THEN [acked EXCEPT ![op.id][c] = v]
                 ELSE acked
  /\ Done
  /\ UNCHANGED <<up, diskVars, lapsed, checked, crashes, doomed>>

\* The bytes reach the file, or the write fails part of the way.
ChunkWrite ==
  /\ Ready("chunk")
  /\ S[op.id].status = "partial" /\ S[op.id].chunks[op.arg[1]] = Blank
  /\ \/ /\ blob' = [blob EXCEPT ![op.id][op.arg[1]] = op.arg[2]]
        /\ Goto("syncBlob")
     \/ /\ blob' = [blob EXCEPT ![op.id][op.arg[1]] = Torn]
        /\ Done
  /\ UNCHANGED <<up, dataLog, stateLog, synced, lapsed, checked, crashes, acked, doomed>>

\* Mutant: os.fsync(descriptor) is forgotten.
ChunkNoSync ==
  /\ At("chunk", "syncBlob")
  /\ Goto("putState")
  /\ UNCHANGED <<up, diskVars, lapsed, checked, crashes, acked, doomed>>

ChunkSync ==
  /\ At("chunk", "syncBlob")
  /\ synced' = [synced EXCEPT ![op.id] = blob[op.id]]
  /\ Goto("putState")
  /\ UNCHANGED <<up, dataLog, stateLog, blob, lapsed, checked, crashes, acked, doomed>>

ChunkState ==
  /\ At("chunk", "putState")
  /\ WriteState(op.id, "partial", [S[op.id].chunks EXCEPT ![op.arg[1]] = op.arg[2]])
  /\ lapsed' = lapsed \ {op.id}
  /\ Goto("syncChunk")
  /\ UNCHANGED <<up, dataLog, blob, synced, checked, crashes, acked, doomed>>

ChunkDone ==
  /\ At("chunk", "syncChunk")
  /\ stateLog' = Sync(stateLog)
  /\ acked' = [acked EXCEPT ![op.id][op.arg[1]] = op.arg[2]]
  /\ Done
  /\ UNCHANGED <<up, dataLog, blob, synced, lapsed, checked, crashes, doomed>>
-----------------------------------------------------------------------------
\* complete(), and the part of it that reconcile shares

CompleteRefused ==
  /\ Ready("complete")
  /\ \/ S[op.id].status \in {"none", "complete"}
     \/ \E c \in Chunks : S[op.id].chunks[c] = Blank
  /\ Done
  /\ UNCHANGED <<up, diskVars, lapsed, checked, crashes, acked, doomed>>

CompleteCommitting ==
  /\ Ready("complete")
  /\ S[op.id].status = "partial"
  /\ \A c \in Chunks : S[op.id].chunks[c] # Blank
  /\ WriteState(op.id, "committing", S[op.id].chunks)
  /\ Goto("syncCommitting")
  /\ UNCHANGED <<up, dataLog, blob, synced, lapsed, checked, crashes, acked, doomed>>

\* Mutant: the committing state is not made durable before the rename.
CompleteNoSync ==
  /\ At("complete", "syncCommitting")
  /\ Goto("publish")
  /\ UNCHANGED <<up, diskVars, lapsed, checked, crashes, acked, doomed>>

CompleteSync ==
  /\ At("complete", "syncCommitting")
  /\ stateLog' = Sync(stateLog)
  /\ Goto("publish")
  /\ UNCHANGED <<up, dataLog, blob, synced, lapsed, checked, crashes, acked, doomed>>

\* A retry finds the interrupted commit.
CompleteAgain ==
  /\ Ready("complete")
  /\ S[op.id].status = "committing"
  /\ Goto("publish")
  /\ UNCHANGED <<up, diskVars, lapsed, checked, crashes, acked, doomed>>

\* _publish_committing_locked: the rename, unless it was already made.
Publish ==
  /\ op # NoOp /\ op.step = "publish"
  /\ \/ /\ D[op.id] = {"part"}
        /\ dataLog' = Put(dataLog, op.id, {"xfr"})
        /\ Goto("syncRename")
     \/ /\ D[op.id] = {"xfr"}
        /\ Goto("putComplete")
        /\ UNCHANGED dataLog
  /\ UNCHANGED <<up, stateLog, blob, synced, lapsed, checked, crashes, acked, doomed>>

PublishSync ==
  /\ op # NoOp /\ op.step = "syncRename"
  /\ dataLog' = Sync(dataLog)
  /\ Goto("putComplete")
  /\ UNCHANGED <<up, stateLog, blob, synced, lapsed, checked, crashes, acked, doomed>>

PublishState ==
  /\ op # NoOp /\ op.step = "putComplete"
  /\ WriteState(op.id, "complete", S[op.id].chunks)
  /\ Goto("syncComplete")
  /\ UNCHANGED <<up, dataLog, blob, synced, lapsed, checked, crashes, acked, doomed>>

PublishDone ==
  /\ op # NoOp /\ op.step = "syncComplete"
  /\ stateLog' = Sync(stateLog)
  /\ IF op.kind = "reconcile" THEN Goto("begin") ELSE Done
  /\ UNCHANGED <<up, dataLog, blob, synced, lapsed, checked, crashes, acked, doomed>>

\* An I/O error before a rename: the operation fails, the disk is as it was.
OperationFails ==
  /\ \/ At("chunk", "putState")
     \/ op # NoOp /\ op.kind = "complete" /\ op.step \in {"publish", "putComplete"}
  /\ Done
  /\ UNCHANGED <<up, diskVars, lapsed, checked, crashes, acked, doomed>>
-----------------------------------------------------------------------------
\* Crashes, and reconcile() at the next start.

Crash(fault) ==
  /\ up # "down"
  /\ crashes < Len(Faults) /\ Faults[crashes + 1] = fault
  /\ up' = "down" /\ op' = NoOp /\ checked' = {} /\ crashes' = crashes + 1
  /\ \/ fault = "kill" /\ UNCHANGED diskVars
     \/ /\ fault = "power"
        /\ \E i \in DOMAIN dataLog : dataLog' = <<dataLog[i]>>
        /\ \E i \in DOMAIN stateLog : stateLog' = <<stateLog[i]>>
        /\ blob' \in [Ids -> [Chunks -> Values \cup {Blank, Torn}]]
        /\ \A x \in Ids, c \in Chunks :
             blob'[x][c] \in IF blob[x][c] = synced[x][c] THEN {blob[x][c]}
                             ELSE {blob[x][c], synced[x][c], Torn}
        /\ synced' = blob'
  /\ UNCHANGED <<lapsed, acked, doomed>>

Restart ==
  /\ up = "down"
  /\ up' = "start"
  /\ op' = [kind |-> "reconcile", id |-> CHOOSE x \in Ids : TRUE, arg |-> "",
            victim |-> CHOOSE x \in Ids : TRUE, step |-> "begin", todo |-> Ids]
  /\ UNCHANGED <<diskVars, lapsed, checked, crashes, acked, doomed>>

\* _reconcile_record: what the data directory must look like for a state.
Intact(x) ==
  CASE S[x].status = "partial"    -> D[x] = {"part"}
    [] S[x].status = "committing" -> D[x] \in {{"part"}, {"xfr"}}
    [] S[x].status = "complete"   -> D[x] = {"xfr"}
    [] OTHER                      -> TRUE

ReconcileRecord(x) ==
  /\ At("reconcile", "begin")
  /\ x \in op.todo
  /\ op' = [op EXCEPT !.id = x, !.victim = x, !.todo = @ \ {x},
                      !.step = IF ~Intact(x) THEN "unlinkData"
                               ELSE IF S[x].status = "committing" THEN "publish" ELSE "begin"]
  /\ UNCHANGED <<up, diskVars, lapsed, checked, crashes, acked, doomed>>

\* Data no surviving record owns is removed.
ReconcileSweep ==
  /\ At("reconcile", "begin")
  /\ op.todo = {}
  /\ dataLog' = Append(dataLog, [x \in Ids |-> IF S[x] = NoState THEN {} ELSE D[x]])
  /\ Goto("syncData")
  /\ UNCHANGED <<up, stateLog, blob, synced, lapsed, checked, crashes, acked, doomed>>

\* incomplete_ttl passes without an update.
Lapse(x) ==
  /\ S[x].status = "partial" /\ x \notin lapsed
  /\ lapsed' = lapsed \cup {x}
  /\ UNCHANGED <<up, op, diskVars, checked, crashes, acked, doomed>>
-----------------------------------------------------------------------------
Request ==
  \E x \in Ids :
    \/ Begin("create", x, "") \/ Begin("complete", x, "") \/ Begin("list", x, "")
    \/ \E c \in Chunks, v \in Values : Begin("chunk", x, <<c, v>>)
    \/ \E route \in Routes : Check(x, route) \/ Delete(x, route)

Step ==
  \/ \E x \in Ids : Expire(x) \/ ReconcileRecord(x)
  \/ UnlinkData \/ UnlinkState \/ SyncData \/ SyncState \/ CheckResult \/ ListFiles
  \/ CreateExisting \/ CreatePart \/ CreateSyncPart \/ CreateState \/ CreateDone
  \/ ChunkRefused \/ ChunkWrite \/ ChunkSync \/ ChunkState \/ ChunkDone
  \/ CompleteRefused \/ CompleteCommitting \/ CompleteSync \/ CompleteAgain
  \/ Publish \/ PublishSync \/ PublishState \/ PublishDone
  \/ ReconcileSweep

Environment ==
  \/ CreateFails \/ OperationFails
  \/ \E fault \in {"kill", "power"} : Crash(fault)
  \/ Restart
  \/ \E x \in Ids : Lapse(x)

Next == Request \/ Step \/ Environment

Spec == Init /\ [][Next]_vars
-----------------------------------------------------------------------------
Record == [status : {"none", "partial", "committing", "complete"},
           chunks : [Chunks -> Values \cup {Blank}]]

Quiescent == up = "up" /\ op = NoOp

(***************************************************************************)
(* Whenever no operation runs, after any crash and recovery, every record  *)
(* has exactly the data file its status calls for, every chunk it lists is *)
(* in that file, and no data file is without a record.                     *)
(***************************************************************************)
StateMatchesData ==
  Quiescent => \A x \in Ids :
    /\ S[x] = NoState <=> D[x] = {}
    /\ Intact(x)
    /\ \A c \in Chunks : S[x].chunks[c] # Blank => blob[x][c] = S[x].chunks[c]
    /\ S[x].status \in {"committing", "complete"}
         => \A c \in Chunks : S[x].chunks[c] # Blank

(***************************************************************************)
(* A chunk acknowledged to the client stays listed and readable with the   *)
(* acknowledged bytes until its upload is removed: no crash, retry or      *)
(* conflicting write takes it back.                                        *)
(***************************************************************************)
AckedChunksSurvive ==
  Quiescent => \A x \in Ids, c \in Chunks :
    acked[x][c] # Blank => S[x].chunks[c] = acked[x][c] /\ blob[x][c] = acked[x][c]

\* What clients were told is on disk is there, and records and data files agree, whenever no
\* operation is under way, also after an outage and the recovery that followed it.
UploadsDurable == StateMatchesData /\ AckedChunksSurvive

PowerAhead == \E i \in DOMAIN Faults : i > crashes /\ Faults[i] = "power"

\* What the outages still to come certainly leave of a directory.
Lasting(log) == IF PowerAhead THEN Head(log) ELSE Last(log)

\* The record that recovery would make of it.
OnDisk(x) ==
  LET s == Lasting(stateLog)[x]
      d == Lasting(dataLog)[x]
      kept == CASE s.status = "partial"    -> d = {"part"}
                [] s.status = "committing" -> d # {}
                [] s.status = "complete"   -> d = {"xfr"}
                [] OTHER                   -> FALSE
  IN  IF kept THEN [status |-> IF s.status = "partial" THEN "partial" ELSE "complete",
                    chunks |-> s.chunks]
      ELSE [status |-> "absent", chunks |-> NoChunks]

Register == INSTANCE UploadRegister
              WITH file <- [x \in Ids |-> OnDisk(x)], removable <- doomed

(***************************************************************************)
(* What an outage would leave at any moment evolves like the               *)
(* abstract register.                                                      *)
(***************************************************************************)
RefinesRegister == Register!Spec

(***************************************************************************)
(* A completed file stays until a DELETE of the encrypted-file route is    *)
(* executed on it.                                                         *)
(***************************************************************************)
CompletedRemain ==
  [][\A x \in Ids : (OnDisk(x).status = "complete" /\ OnDisk(x)'.status # "complete")
       => (op.kind = "delete" /\ op.arg = "file" /\ op.victim = x)]_vars
=============================================================================
