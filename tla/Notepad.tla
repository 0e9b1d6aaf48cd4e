------------------------------- MODULE Notepad -------------------------------
(***************************************************************************)
(* xferry/notepad_service.py and xferry/handlers/notepad.py: encrypted     *)
(* notes, each a ciphertext file and a metadata sidecar, behind HTTP and   *)
(* WebSocket.  Writers hold the notes lock; load, the listing and the      *)
(* existence test of a deletion do not.                                    *)
(*                                                                         *)
(* A content is a number, assigned when the save takes the lock, above all *)
(* numbers still in use: those that are compared are ordered as their      *)
(* saves are, and numbers of forgotten contents are used again.  Temporary *)
(* and backup files have hidden names that no operation reads, so they     *)
(* appear only as what an undone save puts back.  File operations fail one *)
(* at a time; a killed process leaves the files as they are (a power       *)
(* failure is not modelled: the service never flushes).                    *)
(***************************************************************************)
EXTENDS Integers, FiniteSetsExt, RequestChecks

CONSTANTS
  Threads, Ids,             \* request threads; note identifiers
  Sizes,                    \* sizes of ciphertexts
  MaxNoteCount, MaxTotalBytes, MaxListed,   \* NoteStoragePolicy
  MaxSaves, MaxKills,       \* bounds of the model
  None

\* What the two files of a note hold.
Ciphertexts == [n : Nat, size : Nat]
Sidecars == [n : Nat, created : Nat]

ASSUME NotepadAssumption ==
  /\ IsFiniteSet(Threads) /\ IsFiniteSet(Ids)
  /\ Sizes \subseteq Nat /\ MaxNoteCount \in Nat /\ MaxTotalBytes \in Nat
  /\ MaxListed \in Nat \ {0}
  /\ None \notin Threads \cup Ids \cup Ciphertexts \cup Sidecars

VARIABLES
  enc,      \* id -> None or [n: content, size: Sizes], the file <id>.enc
  meta,     \* id -> None or [n: content, created: content], the file <id>.meta.json
  lock,     \* holder of _notes_lock
  th,       \* what each thread does, with its local variables
  saves, kills,
  acked,    \* history: id -> content last acknowledged, 0 once a removal began
  born,     \* history: id -> content whose creation the metadata should show
  torn      \* history: ids whose pair a kill or a failed file operation left unequal

vars == <<enc, meta, lock, th, saves, kills, acked, born, torn>>
files == <<enc, meta>>
history == <<acked, born, torn>>

Idle == [pc |-> "idle"]

Init ==
  /\ enc = [i \in Ids |-> None] /\ meta = [i \in Ids |-> None]
  /\ lock = None /\ th = [t \in Threads |-> Idle]
  /\ saves = 0 /\ kills = 0
  /\ acked = [i \in Ids |-> 0] /\ born = [i \in Ids |-> 0] /\ torn = {}
-----------------------------------------------------------------------------
\* The tests of a request, in the order of the code.

\* handle_note: the routes of a collection and of an item, and their one query field.
RouteChecks(action) ==
  << <<"raw_path", 400>>, <<"unknown_path", 400>> >>
  \o (IF action \in {"load", "delete"} THEN << <<"path_id", 400>> >> ELSE << >>)
  \o << <<"no_action", 400>>, <<"query_field", 400>>, <<"two_actions", 400>>,
        <<"action_name", 400>>, <<"no_crypto", 501>> >>

JsonChecks == << <<"malformed_json", 400>>, <<"json_type", 400>> >>

\* _note_parse_save_request, the fields both transports share.
SaveFieldChecks ==
  << <<"unknown_field", 400>>, <<"no_title", 400>>, <<"no_data", 400>>, <<"title_type", 400>>,
     <<"data_type", 400>>, <<"id_format", 400>>, <<"create_type", 400>>, <<"session_format", 400>> >>

\* save_note, before the lock.
SaveChecks ==
  << <<"title_length", 400>>, <<"base64", 400>>, <<"empty", 400>>, <<"short", 400>>, <<"long", 413>> >>

\* _handle_ws_message: the envelope of a WebSocket frame.
FrameChecks ==
  JsonChecks \o << <<"frame_field", 400>>, <<"no_action", 400>>, <<"action_name", 400>>,
     <<"no_request_id", 400>>, <<"request_id", 400>>, <<"no_input", 400>>, <<"input_type", 400>> >>

\* _note_ws_operation: the input of each action.
InputChecks(action) ==
  CASE action \in {"list", "clear"} -> << <<"unknown_field", 400>> >>
    [] action = "save" -> SaveFieldChecks
    [] OTHER -> << <<"unknown_field", 400>>, <<"no_id", 400>>, <<"path_id", 400>> >>

HttpChecks(action) ==
  RouteChecks(action)
  \o (IF action = "save" THEN JsonChecks \o SaveFieldChecks ELSE << >>)

\* Everything that is tested before the service touches a file.
Checks(via, action) ==
  (IF via = "http" THEN HttpChecks(action) ELSE FrameChecks \o InputChecks(action))
  \o (IF action = "save" THEN SaveChecks ELSE << >>)

Actions == {"list", "save", "load", "delete", "clear"}
-----------------------------------------------------------------------------
Set(t, r) == th' = [th EXCEPT ![t] = r]
Goto(t, step) == th' = [th EXCEPT ![t].pc = step]

\* The answer of an operation leaves with its last step; a refusal and the result of a read
\* are kept until the next step of the thread.
Reply(t, status) == Set(t, Idle)

Refuse(t) ==
  /\ th[t] = Idle
  /\ \E via \in {"http", "ws"}, action \in Actions :
       \E fault \in FaultsOf(Checks(via, action)) :
         Set(t, [pc |-> "refused", status |-> Verdict(Checks(via, action), {fault})])
  /\ UNCHANGED <<files, lock, saves, kills, history>>

Answered(t) ==
  /\ th[t].pc \in {"refused", "loaded", "listed"} /\ Set(t, Idle)
  /\ UNCHANGED <<files, lock, saves, kills, history>>

-----------------------------------------------------------------------------
\* save_note.  A request names a note, or leaves the choice of a fresh id to the service.
SaveBegin(t, id, size, create) ==
  /\ th[t] = Idle /\ saves < MaxSaves
  /\ Set(t, [pc |-> "save", id |-> id, size |-> size, create |-> create])
  /\ saves' = saves + 1
  /\ UNCHANGED <<files, lock, kills, history>>

Bytes(notes) == SumFunctionOnSet([i \in notes |-> enc[i].size], notes)

\* _scan_note_usage
Usage(id, replacing) ==
  LET counted == {i \in Ids : enc[i] # None /\ ~(replacing /\ i = id)}
  IN  [bytes |-> Bytes(counted), notes |-> Cardinality(counted)]

\* _check_note_storage_accepts
Accepts(id, size, replacing) ==
  LET usage == Usage(id, replacing)
  IN  usage.notes + 1 <= MaxNoteCount /\ usage.bytes + size <= MaxTotalBytes

\* Mutant: whether the note exists was decided before the lock was taken.
SaveTargetsUnlocked(t) ==
  IF th[t].id # None THEN {<<th[t].id, FALSE>>}
  ELSE {<<i, TRUE>> : i \in {j \in Ids : enc[j] = None}}

\* The note to write and whether it is new; none is the answer 404.
SaveTargets(t) ==
  {<<i, enc[i] = None>> : i \in {j \in Ids :
     IF th[t].id = None THEN enc[j] = None
     ELSE j = th[t].id /\ (enc[j] # None \/ th[t].create)}}

\* The content numbers in use: those of the files and the history, and what readers compare
\* with.
Contents == {0} \cup {enc[i].n : i \in {j \in Ids : enc[j] # None}}
            \cup {acked[i] : i \in Ids} \cup {born[i] : i \in Ids}
            \cup {meta[i].n : i \in {j \in Ids : meta[j] # None}}
            \cup {th[t].floor : t \in {u \in Threads : th[u].pc = "read"}}

\* The lock is taken; the decisions that follow read only what it protects.
SaveLock(t) ==
  /\ th[t].pc = "save" /\ lock = None
  /\ \E target \in SaveTargets(t) :
       LET id == target[1]  isNew == target[2]  n == Max(Contents) + 1
           \* Without a sidecar, or with an orphan of an earlier note, the creation is now.
           created == IF ~isNew /\ meta[id] # None THEN meta[id].created ELSE n
       IN  /\ Accepts(id, th[t].size, ~isNew)
           /\ lock' = t
           /\ Set(t, [pc |-> "enc", id |-> id, isNew |-> isNew,
                      new |-> [n |-> n, size |-> th[t].size], created |-> created,
                      backup |-> enc[id], mayCreate |-> th[t].create])
  /\ UNCHANGED <<files, saves, kills, history>>

SaveMissing(t) ==
  /\ th[t].pc = "save" /\ lock = None
  /\ th[t].id # None /\ SaveTargets(t) = {} /\ Reply(t, 404)
  /\ UNCHANGED <<files, lock, saves, kills, history>>

SaveOverQuota(t) ==
  /\ th[t].pc = "save" /\ lock = None
  /\ \E target \in SaveTargets(t) : ~Accepts(target[1], th[t].size, ~target[2])
  /\ Reply(t, 507)
  /\ UNCHANGED <<files, lock, saves, kills, history>>

\* _write_note_pair_atomic.  A failure up to the first replacement changes no visible file.
SaveStageFails(t) ==
  /\ th[t].pc = "enc" /\ lock = t
  /\ lock' = None /\ Reply(t, 500)
  /\ UNCHANGED <<files, saves, kills, history>>

ReplaceEnc(t) ==
  /\ th[t].pc = "enc" /\ lock = t
  /\ enc' = [enc EXCEPT ![th[t].id] = th[t].new]
  /\ Goto(t, "meta")
  /\ UNCHANGED <<meta, lock, saves, kills, history>>

Sidecar(t) == [n |-> th[t].new.n, created |-> th[t].created]

\* The second replacement; the save is then acknowledged.
ReplaceMeta(t) ==
  /\ th[t].pc = "meta" /\ lock = t
  /\ meta' = [meta EXCEPT ![th[t].id] = Sidecar(t)]
  /\ lock' = None
  /\ acked' = [acked EXCEPT ![th[t].id] = th[t].new.n]
  /\ born' = IF th[t].isNew \/ th[t].id \in torn
             THEN [born EXCEPT ![th[t].id] = Sidecar(t).created] ELSE born
  /\ torn' = torn \ {th[t].id}
  /\ Reply(t, IF th[t].isNew THEN 201 ELSE 200)
  /\ UNCHANGED <<enc, saves, kills>>

ReplaceMetaFails(t) ==
  /\ th[t].pc = "meta" /\ lock = t /\ Goto(t, "undo")
  /\ UNCHANGED <<files, lock, saves, kills, history>>

\* Mutant: the new ciphertext is removed instead of the old one put back.
RestoredRemoved(t) == None

Restored(t) == th[t].backup

\* _restore_note_pair: the ciphertext is put back or removed; the sidecar was not replaced,
\* so putting it back changes nothing.
RestorePair(t) ==
  /\ th[t].pc = "undo" /\ lock = t
  /\ enc' = [enc EXCEPT ![th[t].id] = Restored(t)]
  /\ lock' = None /\ Reply(t, 500)
  /\ UNCHANGED <<meta, saves, kills, history>>

RestoreFails(t) ==
  /\ th[t].pc = "undo" /\ lock = t
  /\ torn' = torn \cup {th[t].id}
  /\ lock' = None /\ Reply(t, 500)
  /\ UNCHANGED <<files, saves, kills, acked, born>>
-----------------------------------------------------------------------------
\* delete_note: the existence test is made before the lock is taken.
DeleteCheck(t, id) ==
  /\ th[t] = Idle
  /\ Set(t, IF enc[id] # None THEN [pc |-> "delete", id |-> id]
            ELSE Idle)
  /\ UNCHANGED <<files, lock, saves, kills, history>>

UnlinkEnc(t) ==
  /\ th[t].pc = "delete" /\ lock = None
  /\ enc' = [enc EXCEPT ![th[t].id] = None]
  /\ acked' = [acked EXCEPT ![th[t].id] = 0]
  /\ lock' = t /\ Goto(t, "delete_meta")
  /\ UNCHANGED <<meta, saves, kills, born, torn>>

UnlinkMeta(t) ==
  /\ th[t].pc = "delete_meta" /\ lock = t
  /\ meta' = [meta EXCEPT ![th[t].id] = None]
  /\ lock' = None /\ Reply(t, 200)
  /\ UNCHANGED <<enc, saves, kills, history>>

\* Either file resists: what was not reached stays.
DeleteFails(t) ==
  /\ \/ th[t].pc = "delete" /\ lock = None /\ lock' = None
     \/ th[t].pc = "delete_meta" /\ lock = t /\ lock' = None
  /\ Reply(t, 500)
  /\ UNCHANGED <<files, saves, kills, history>>

\* clear_notes: every entry found under the lock, a ciphertext before its sidecar.
ClearLock(t) ==
  /\ th[t] = Idle /\ lock = None
  /\ lock' = t
  /\ Set(t, [pc |-> "clear", failed |-> FALSE,
             todo |-> ({"enc"} \X {i \in Ids : enc[i] # None})
                      \cup ({"meta"} \X {i \in Ids : meta[i] # None})])
  /\ UNCHANGED <<files, saves, kills, history>>

ClearEntry(t, e) ==
  /\ th[t].pc = "clear" /\ lock = t /\ e \in th[t].todo
  /\ e[1] = "meta" => <<"enc", e[2]>> \notin th[t].todo
  /\ \/ /\ IF e[1] = "enc" THEN enc' = [enc EXCEPT ![e[2]] = None] /\ UNCHANGED meta
           ELSE meta' = [meta EXCEPT ![e[2]] = None] /\ UNCHANGED enc
        /\ acked' = IF e[1] = "enc" THEN [acked EXCEPT ![e[2]] = 0] ELSE acked
        /\ torn' = IF e[1] = "meta" /\ enc[e[2]] # None THEN torn \cup {e[2]} ELSE torn
        /\ th' = [th EXCEPT ![t].todo = @ \ {e}]
     \/ /\ th' = [th EXCEPT ![t].todo = @ \ {e}, ![t].failed = TRUE]
        /\ UNCHANGED <<files, acked, torn>>
  /\ UNCHANGED <<lock, saves, kills, born>>

ClearEnd(t) ==
  /\ th[t].pc = "clear" /\ lock = t /\ th[t].todo = {}
  /\ lock' = None /\ Reply(t, IF th[t].failed THEN 500 ELSE 200)
  /\ UNCHANGED <<files, saves, kills, history>>
-----------------------------------------------------------------------------
\* load_note: existence, ciphertext and the record of the note are read one after the other.
LoadBegin(t, id) ==
  /\ th[t] = Idle
  /\ Set(t, IF enc[id] # None
            THEN [pc |-> "read", id |-> id, floor |-> acked[id]]
            ELSE Idle)
  /\ UNCHANGED <<files, lock, saves, kills, history>>

LoadRead(t) ==
  /\ th[t].pc = "read"
  /\ IF enc[th[t].id] = None THEN Reply(t, 500)
     ELSE Set(t, [pc |-> "record", id |-> th[t].id, floor |-> th[t].floor,
                  data |-> enc[th[t].id].n])
  /\ UNCHANGED <<files, lock, saves, kills, history>>

\* _note_record: whatever the files are by now; without them, the fallbacks.
Record(id) ==
  [size |-> IF enc[id] = None THEN 0 ELSE enc[id].size,
   n |-> IF meta[id] = None THEN 0 ELSE meta[id].n]

LoadRecord(t) ==
  /\ th[t].pc = "record"
  /\ Set(t, [pc |-> "loaded", floor |-> th[t].floor,
             data |-> th[t].data, note |-> Record(th[t].id)])
  /\ UNCHANGED <<files, lock, saves, kills, history>>

Truncated(names, present) == names # present

\* list_notes: the names first, at most max_listed_notes of them, then their records; that a
\* record is read after another one matters to no property and is left out.
ListBegin(t) ==
  /\ th[t] = Idle
  /\ LET present == {i \in Ids : enc[i] # None} IN
     \E names \in kSubset(Min({MaxListed, Cardinality(present)}), present) :
       Set(t, [pc |-> "list", names |-> names, truncated |-> Truncated(names, present),
               before |-> {i \in Ids : acked[i] # 0}])
  /\ UNCHANGED <<files, lock, saves, kills, history>>

ListEnd(t) ==
  /\ th[t].pc = "list"
  /\ Set(t, [pc |-> "listed", notes |-> {<<i, Record(i)>> : i \in th[t].names},
             truncated |-> th[t].truncated, before |-> th[t].before])
  /\ UNCHANGED <<files, lock, saves, kills, history>>
-----------------------------------------------------------------------------
\* The process is killed and started again; nothing is recovered at startup.
Kill ==
  /\ kills < MaxKills /\ kills' = kills + 1
  /\ torn' = torn \cup {th[t].id : t \in {u \in Threads : th[u].pc \in {"meta", "undo"}}}
                  \cup {i \in Ids : enc[i] # None /\ meta[i] = None}
  /\ lock' = None /\ th' = [t \in Threads |-> Idle]
  /\ UNCHANGED <<files, saves, acked, born>>

Save(t) ==
  \/ \E id \in Ids, size \in Sizes, create \in BOOLEAN : SaveBegin(t, id, size, create)
  \/ \E size \in Sizes : SaveBegin(t, None, size, TRUE)
  \/ SaveLock(t) \/ SaveMissing(t) \/ SaveOverQuota(t) \/ SaveStageFails(t) \/ ReplaceEnc(t)
  \/ ReplaceMeta(t) \/ ReplaceMetaFails(t) \/ RestorePair(t) \/ RestoreFails(t)

Removal(t) ==
  \/ \E id \in Ids : DeleteCheck(t, id)
  \/ UnlinkEnc(t) \/ UnlinkMeta(t) \/ DeleteFails(t) \/ ClearLock(t) \/ ClearEnd(t)
  \/ \E e \in {"enc", "meta"} \X Ids : ClearEntry(t, e)

Read(t) ==
  \/ \E id \in Ids : LoadBegin(t, id)
  \/ LoadRead(t) \/ LoadRecord(t) \/ ListBegin(t) \/ ListEnd(t)

Next ==
  \/ \E t \in Threads : Refuse(t) \/ Answered(t) \/ Save(t) \/ Removal(t) \/ Read(t)
  \/ Kill

Spec == Init /\ [][Next]_vars
-----------------------------------------------------------------------------
Stored == {i \in Ids : enc[i] # None}

(* The ciphertexts stay within both limits of NoteStoragePolicy at every moment, also  *)
(* while a save is being undone and after a kill or a failed undo.                     *)
NotesWithinQuota ==
  /\ Cardinality(Stored) <= MaxNoteCount
  /\ Bytes(Stored) <= MaxTotalBytes

(* A note whose save was acknowledged keeps a ciphertext that is at least as new until *)
(* a deletion or a clearing removes it: no failed save, undo or kill takes it away.    *)
AckedNotesKept == \A i \in Ids : acked[i] # 0 => enc[i] # None /\ enc[i].n >= acked[i]

(* When no writer is at work, ciphertext and sidecar of a note are of the same save    *)
(* and the sidecar shows the creation of this note, not of an earlier one of its id;   *)
(* only a kill between the two files, a failed undo or a clearing that could not       *)
(* remove the ciphertext break the pair, and the next save mends it.                   *)
PairsMatch ==
  lock = None =>
    \A i \in Stored \ torn : meta[i] # None /\ meta[i].n = enc[i].n /\ meta[i].created = born[i]

(* Readers hold no lock: still, a load returns nothing older than what was acknowledged*)
(* when it began, and a listing that is not truncated misses none of the notes that    *)
(* were acknowledged when it began.                                                    *)
ReadersFresh ==
  \A t \in Threads :
    /\ th[t].pc = "loaded" => th[t].data >= th[t].floor
    /\ th[t].pc = "listed" =>
         th[t].truncated \/ th[t].before \subseteq {note[1] : note \in th[t].notes}

(* What the service promises of notes, to writers and to readers.                      *)
NotesSound == NotesWithinQuota /\ AckedNotesKept /\ PairsMatch /\ ReadersFresh

(* A removed note comes back only through a save that may create it: an update that    *)
(* waited for the lock while the note was deleted is answered 404.                     *)
UpdatesNeverRevive ==
  [][\A i \in Ids : enc[i] = None /\ enc'[i] # None =>
       \E t \in Threads : th[t].pc = "enc" /\ th[t].id = i /\ th[t].mayCreate]_vars
==============================================================================
