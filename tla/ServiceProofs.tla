--------------------------- MODULE ServiceProofs ---------------------------
(***************************************************************************)
(* Proofs about what surrounds the file server, for every number of        *)
(* threads, clients, servers and requests.  Notepad: quotas, acknowledged  *)
(* contents, pairs of one save, and what readers that hold no lock may     *)
(* return.  SessionKeys: no key is served long after its time to live.     *)
(* TlsManager: a stop and a deadline are heeded, and a renewal is ordered  *)
(* once.  RequestPath: no request gets past a test it should not pass, and *)
(* none begins in the middle of another.  WebSocketSession: half a frame   *)
(* expires.                                                                *)
(***************************************************************************)
EXTENDS Notepad, SessionKeys, TlsManager, RequestPath, WebSocketSession, SumProofs,
        FiniteSetTheorems, SequenceTheorems

Saving == {"enc", "meta", "undo"}
Writing == Saving \cup {"delete_meta", "clear"}
Steps == Writing \cup {"idle", "refused", "save", "delete", "read", "record", "loaded",
                       "list", "listed"}

Entries == {"enc", "meta"} \X Ids

Typed ==
  /\ enc \in [Ids -> Ciphertexts \cup {None}] /\ meta \in [Ids -> Sidecars \cup {None}]
  /\ acked \in [Ids -> Nat] /\ born \in [Ids -> Nat] /\ torn \subseteq Ids
  /\ lock \in Threads \cup {None}
  /\ DOMAIN th = Threads
  /\ \A t \in Threads : th[t].pc \in Steps /\ (lock = t <=> th[t].pc \in Writing)

\* The local variables of a thread.
Saves == [pc : Saving, id : Ids, isNew : BOOLEAN, new : Ciphertexts, created : Nat,
          backup : Ciphertexts \cup {None}, mayCreate : BOOLEAN]
Deletions == [pc : {"delete", "delete_meta"}, id : Ids]
Clearings == [pc : {"clear"}, failed : BOOLEAN, todo : SUBSET Entries]

RequestTyped(t) ==
  /\ th[t].pc = "save" =>
       /\ th[t].id \in Ids \cup {None} /\ th[t].size \in Nat
       /\ th[t].create \in BOOLEAN /\ (th[t].id = None => th[t].create)
  /\ th[t].pc \in Saving => th[t] \in Saves
  /\ th[t].pc \in {"delete", "delete_meta"} => th[t] \in Deletions
  /\ th[t].pc = "clear" => th[t] \in Clearings
  /\ th[t].pc = "read" => th[t].id \in Ids
  /\ th[t].pc \in {"read", "record", "loaded"} => th[t].floor \in Nat

\* A pair of files that are of one save, with the creation of this note.
Paired(i, note) == meta[i] # None /\ meta[i].n = note.n /\ meta[i].created = born[i]

\* What a save that holds the lock knows: what it writes is newer than what it replaces, and
\* putting the backup back restores a pair.
SavePlaced(t) ==
  th[t].pc \in Saving =>
    LET id == th[t].id IN
    /\ enc[id] = IF th[t].pc = "enc" THEN th[t].backup ELSE th[t].new
    /\ th[t].isNew <=> th[t].backup = None
    /\ th[t].isNew => th[t].mayCreate
    /\ th[t].new.n >= acked[id]
    /\ acked[id] # 0 => th[t].backup # None /\ th[t].backup.n >= acked[id]
    /\ (th[t].backup # None /\ id \notin torn) =>
         Paired(id, th[t].backup) /\ th[t].created = born[id]

\* No reader finds less than its floor, whatever the save at work does.
ReaderPlaced(u) ==
  /\ th[u].pc = "read" =>
       LET id == th[u].id IN
       /\ enc[id] # None => enc[id].n >= th[u].floor
       /\ \A t \in Threads :
            (th[t].pc \in Saving /\ th[t].id = id) =>
              /\ th[t].new.n >= th[u].floor
              /\ th[t].backup # None => th[t].backup.n >= th[u].floor
  /\ th[u].pc \in {"record", "loaded"} => th[u].data \in Nat /\ th[u].data >= th[u].floor
  /\ th[u].pc = "list" => th[u].truncated \/ th[u].before \subseteq th[u].names
  /\ th[u].pc = "listed" =>
       th[u].truncated \/ th[u].before \subseteq {note[1] : note \in th[u].notes}

\* Ciphertexts that satisfy the policy.
Fits(e) ==
  LET present == {i \in Ids : e[i] # None} IN
  /\ Cardinality(present) <= MaxNoteCount
  /\ SumFunctionOnSet([i \in present |-> e[i].size], present) <= MaxTotalBytes

\* The policy holds, also after the save at work has gone on or back.
QuotaKept ==
  /\ Fits(enc)
  /\ \A t \in Threads :
       /\ th[t].pc = "enc" => Fits([enc EXCEPT ![th[t].id] = th[t].new])
       /\ th[t].pc \in {"meta", "undo"} => Fits([enc EXCEPT ![th[t].id] = th[t].backup])

\* Every pair that is not given up is whole, but for that of the save at work.
PairsKept ==
  \A i \in Ids :
    (enc[i] # None /\ i \notin torn) =>
      \/ Paired(i, enc[i])
      \/ \E t \in Threads : th[t].pc \in {"meta", "undo"} /\ th[t].id = i

DeletionPlaced(t) == th[t].pc = "delete_meta" => enc[th[t].id] = None

(***************************************************************************)
(* The inductive invariant.                                                *)
(***************************************************************************)
NotesInv ==
  /\ Typed /\ AckedNotesKept /\ PairsKept /\ QuotaKept
  /\ \A t \in Threads :
       RequestTyped(t) /\ SavePlaced(t) /\ ReaderPlaced(t) /\ DeletionPlaced(t)
-----------------------------------------------------------------------------
LEMMA ImageFinite ==
  ASSUME NEW S, IsFiniteSet(S), NEW f, NEW T, T = {f[x] : x \in S}
  PROVE  IsFiniteSet(T)
  <1> DEFINE g == [x \in S |-> f[x]]
  <1>1. g \in Surjection(S, T)
    BY DEF Surjection
  <1> QED
    BY <1>1, FS_Surjection

LEMMA MaxIs ==
  ASSUME NEW S \in SUBSET Nat, IsFiniteSet(S), S # {}
  PROVE  Max(S) \in S /\ \A x \in S : x <= Max(S)
  <1> DEFINE B == {T \in SUBSET S : T = {} \/ \E m \in T : \A x \in T : x <= m}
  <1>1. ASSUME NEW T \in SUBSET S, \A U \in SUBSET T : U # T => U \in B, T # {}
        PROVE  \E m \in T : \A x \in T : x <= m
    <2>1. PICK a \in T : TRUE
      BY <1>1
    <2>2. T \ {a} \in B
      BY <1>1
    <2>3. CASE T \ {a} = {}
      BY <2>1, <2>3
    <2>4. CASE T \ {a} # {}
      <3>1. PICK m \in T \ {a} : \A x \in T \ {a} : x <= m
        BY <2>2, <2>4
      <3>2. CASE a <= m
        BY <3>1, <3>2
      <3>3. CASE ~(a <= m)
        <4>1. m < a /\ \A x \in T : x <= a
          BY <2>1, <3>1, <3>3
        <4> QED
          BY <2>1, <4>1
      <3> QED
        BY <3>2, <3>3
    <2> QED
      BY <2>3, <2>4
  <1>2. \A T \in SUBSET S : (\A U \in SUBSET T : U # T => U \in B) => T \in B
    BY <1>1
  <1> HIDE DEF B
  <1>3. S \in B
    BY <1>2, SubsetInduction
  <1>4. \E m \in S : \A x \in S : m >= x
    BY <1>3 DEF B
  <1> QED
    BY <1>4 DEF Max

\* The number of a new content is above all that are compared with it.
LEMMA ContentsBelow ==
  ASSUME Typed, \A t \in Threads : RequestTyped(t)
  PROVE  /\ Max(Contents) \in Nat
         /\ \A i \in Ids : acked[i] <= Max(Contents)
         /\ \A t \in Threads : th[t].pc = "read" => th[t].floor <= Max(Contents)
  <1> DEFINE stored == {j \in Ids : enc[j] # None}
             described == {j \in Ids : meta[j] # None}
             readers == {u \in Threads : th[u].pc = "read"}
             encs == {enc[i].n : i \in stored}
             ackeds == {acked[i] : i \in Ids}
             borns == {born[i] : i \in Ids}
             metas == {meta[i].n : i \in described}
             floors == {th[t].floor : t \in readers}
  <1>1. IsFiniteSet(stored) /\ IsFiniteSet(described) /\ IsFiniteSet(readers)
    BY FS_Subset, NotepadAssumption
  <1>2. IsFiniteSet(encs)
    <2> DEFINE f == [i \in stored |-> enc[i].n]
    <2>1. encs = {f[i] : i \in stored}
      OBVIOUS
    <2> HIDE DEF f, encs, metas, floors
    <2> QED
      BY <1>1, <2>1, ImageFinite
  <1>3. IsFiniteSet(metas)
    <2> DEFINE f == [i \in described |-> meta[i].n]
    <2>1. metas = {f[i] : i \in described}
      OBVIOUS
    <2> HIDE DEF f, encs, metas, floors
    <2> QED
      BY <1>1, <2>1, ImageFinite
  <1>4. IsFiniteSet(floors)
    <2> DEFINE f == [t \in readers |-> th[t].floor]
    <2>1. floors = {f[t] : t \in readers}
      OBVIOUS
    <2> HIDE DEF f, encs, metas, floors
    <2> QED
      BY <1>1, <2>1, ImageFinite
  <1>5. IsFiniteSet(ackeds) /\ IsFiniteSet(borns)
    <2> HIDE DEF stored, described, readers
    <2> QED
      BY ImageFinite, NotepadAssumption
  <1>6. Contents = {0} \cup encs \cup ackeds \cup borns \cup metas \cup floors
    BY DEF Contents
  <1>7. /\ encs \subseteq Nat /\ ackeds \subseteq Nat /\ borns \subseteq Nat
        /\ metas \subseteq Nat /\ floors \subseteq Nat
    BY DEF Typed, RequestTyped, Ciphertexts, Sidecars
  <1>8. (\A i \in Ids : acked[i] \in ackeds) /\ \A t \in readers : th[t].floor \in floors
    OBVIOUS
  <1> HIDE DEF encs, ackeds, borns, metas, floors
  <1>9. IsFiniteSet(Contents)
    BY <1>2, <1>3, <1>4, <1>5, <1>6, FS_Union, FS_Singleton
  <1>10. Contents \in SUBSET Nat /\ Contents # {}
    BY <1>6, <1>7
  <1>11. Max(Contents) \in Contents /\ \A x \in Contents : x <= Max(Contents)
    BY <1>9, <1>10, MaxIs
  <1> QED
    BY <1>6, <1>8, <1>10, <1>11
-----------------------------------------------------------------------------
\* The policy: removals keep it, and so does what the quota check accepts.
LEMMA FitsLess ==
  ASSUME NEW e \in [Ids -> Ciphertexts \cup {None}], Fits(e), NEW i \in Ids
  PROVE  Fits([e EXCEPT ![i] = None])
  <1> DEFINE less == [e EXCEPT ![i] = None]
             present == {j \in Ids : e[j] # None}
             left == {j \in Ids : less[j] # None}
             f == [j \in present |-> e[j].size]
             g == [j \in left |-> less[j].size]
  <1>1. left = present \ {i} /\ IsFiniteSet(present)
    BY FS_Subset, NotepadAssumption
  <1>2. (\A j \in present : f[j] \in Nat) /\ \A j \in left : g[j] = f[j]
    BY <1>1 DEF Ciphertexts
  <1>3. /\ Cardinality(present) \in Nat /\ Cardinality(left) \in Nat
        /\ Cardinality(left) <= Cardinality(present)
    BY <1>1, FS_Subset, FS_CardinalityType
  <1>4. /\ Cardinality(present) <= MaxNoteCount
        /\ SumFunctionOnSet(f, present) <= MaxTotalBytes
    BY DEF Fits
  <1>5. /\ SumFunctionOnSet(g, left) \in Nat /\ SumFunctionOnSet(f, present) \in Nat
        /\ SumFunctionOnSet(g, left) <= SumFunctionOnSet(f, present)
    <2> left \in SUBSET present
      BY <1>1
    <2> HIDE DEF f, g, left, present
    <2> QED
      BY <1>1, <1>2, SumLess
  <1>6. Cardinality(left) <= MaxNoteCount /\ SumFunctionOnSet(g, left) <= MaxTotalBytes
    <2> HIDE DEF f, g, left, present
    <2> QED
      BY <1>3, <1>4, <1>5, NotepadAssumption
  <1> QED
    BY <1>6 DEF Fits

LEMMA AcceptsFits ==
  ASSUME Typed, NEW id \in Ids, NEW new \in Ciphertexts, NEW replacing \in BOOLEAN,
         enc[id] # None => replacing, Accepts(id, new.size, replacing)
  PROVE  Fits([enc EXCEPT ![id] = new])
  <1> DEFINE more == [enc EXCEPT ![id] = new]
             counted == {j \in Ids : enc[j] # None /\ ~(replacing /\ j = id)}
             present == {j \in Ids : more[j] # None}
             f == [j \in counted |-> enc[j].size]
             g == [j \in present |-> more[j].size]
  <1>1. present = counted \cup {id} /\ id \notin counted /\ IsFiniteSet(counted)
    <2>1. new # None /\ IsFiniteSet(Ids)
      BY NotepadAssumption
    <2> QED
      BY <2>1, FS_Subset DEF Typed
  <1>2. /\ \A j \in counted : f[j] \in Int /\ g[j] = f[j]
        /\ g[id] = new.size /\ g[id] \in Int
    BY <1>1 DEF Typed, Ciphertexts
  <1>3. /\ Cardinality(counted) + 1 <= MaxNoteCount
        /\ SumFunctionOnSet(f, counted) + new.size <= MaxTotalBytes
    BY DEF Accepts, Usage, Bytes
  <1>4. /\ Cardinality(present) = Cardinality(counted) + 1
        /\ SumFunctionOnSet(g, present) = SumFunctionOnSet(f, counted) + g[id]
    <2> HIDE DEF f, g, counted, present
    <2>1. Cardinality(counted \cup {id}) = Cardinality(counted) + 1
      BY <1>1, FS_AddElement
    <2>2. SumFunctionOnSet(g, counted \cup {id}) = SumFunctionOnSet(f, counted) + g[id]
      <3>1. ASSUME NEW F, NEW G, G[id] \in Int, \A j \in counted : F[j] \in Int /\ G[j] = F[j]
            PROVE  SumFunctionOnSet(G, counted \cup {id}) = SumFunctionOnSet(F, counted) + G[id]
        BY <1>1, <3>1, SumAdd
      <3> QED
        BY <1>2, <3>1
    <2> QED
      BY <1>1, <2>1, <2>2
  <1>5. Cardinality(present) <= MaxNoteCount /\ SumFunctionOnSet(g, present) <= MaxTotalBytes
    <2> HIDE DEF f, g, counted, present
    <2> QED
      BY <1>2, <1>3, <1>4
  <1> QED
    BY <1>5 DEF Fits
-----------------------------------------------------------------------------
\* A step that reads files and changes nothing but what its thread, no writer, does.
LEMMA LocalStep ==
  ASSUME NotesInv, NEW t \in Threads, UNCHANGED <<enc, meta, lock, acked, born, torn>>,
         th[t].pc \notin Writing, NEW r, r.pc \in Steps \ Writing, Set(t, r),
         RequestTyped(t)', ReaderPlaced(t)'
  PROVE  NotesInv'
  <1>1. /\ DOMAIN th' = Threads /\ th'[t] = r
        /\ \A u \in Threads \ {t} : th'[u] = th[u]
    BY DEF Set, NotesInv, Typed
  <1>2. \A u \in Threads : th'[u].pc \in Writing => u # t /\ th'[u] = th[u]
    BY <1>1
  <1>3. \A u \in Threads : th[u].pc \in Writing => th'[u] = th[u]
    BY <1>1
  <1>4. Typed'
    BY <1>1 DEF NotesInv, Typed
  <1>5. AckedNotesKept' /\ PairsKept'
    BY <1>1, <1>2, <1>3 DEF NotesInv, AckedNotesKept, PairsKept, Paired, Writing, Saving
  <1>6. QuotaKept'
    <2>1. ASSUME NEW u \in Threads, th'[u].pc \in Saving
          PROVE  /\ th'[u].pc = th[u].pc
                 /\ [enc' EXCEPT ![th'[u].id] = th'[u].new]
                    = [enc EXCEPT ![th[u].id] = th[u].new]
                 /\ [enc' EXCEPT ![th'[u].id] = th'[u].backup]
                    = [enc EXCEPT ![th[u].id] = th[u].backup]
      BY <1>2, <2>1 DEF Writing
    <2> QED
      BY <2>1, Zenon DEF NotesInv, QuotaKept, Saving
  <1>7. ASSUME NEW u \in Threads
        PROVE  RequestTyped(u)' /\ SavePlaced(u)' /\ DeletionPlaced(u)'
    BY <1>1, <1>2 DEF NotesInv, RequestTyped, SavePlaced, DeletionPlaced, Paired, Writing, Saving
  <1>8. ASSUME NEW u \in Threads
        PROVE  ReaderPlaced(u)'
    <2>1. CASE u = t
      BY <2>1
    <2>2. CASE u # t
      <3>1. th'[u] = th[u] /\ ReaderPlaced(u)
        BY <1>1, <2>2 DEF NotesInv
      <3> QED
        BY <1>2, <3>1 DEF ReaderPlaced, Writing, Saving
    <2> QED
      BY <2>1, <2>2
  <1> QED
    BY <1>4, <1>5, <1>6, <1>7, <1>8 DEF NotesInv

\* Nobody else writes while t holds the lock or nobody does.
LEMMA OneWriter ==
  ASSUME Typed, NEW t \in Threads, lock \in {t, None}
  PROVE  \A u \in Threads \ {t} : th[u].pc \notin Writing
  BY NotepadAssumption DEF Typed

\* What a step of a writer has to establish: the files and history it leaves behind, its own
\* place, and that no reader is left with something older than it may return.
FilesKept(t) ==
  /\ enc \in [Ids -> Ciphertexts \cup {None}] /\ meta \in [Ids -> Sidecars \cup {None}]
  /\ acked \in [Ids -> Nat] /\ born \in [Ids -> Nat] /\ torn \subseteq Ids
  /\ AckedNotesKept
  /\ \A i \in Ids : (enc[i] # None /\ i \notin torn) =>
       Paired(i, enc[i]) \/ (th[t].pc \in {"meta", "undo"} /\ th[t].id = i)
  /\ Fits(enc)
  /\ th[t].pc = "enc" => Fits([enc EXCEPT ![th[t].id] = th[t].new])
  /\ th[t].pc \in {"meta", "undo"} => Fits([enc EXCEPT ![th[t].id] = th[t].backup])

ReaderServed(u, t) ==
  th[u].pc = "read" =>
    /\ enc[th[u].id] # None => enc[th[u].id].n >= th[u].floor
    /\ (th[t].pc \in Saving /\ th[t].id = th[u].id) =>
         /\ th[t].new.n >= th[u].floor
         /\ th[t].backup # None => th[t].backup.n >= th[u].floor

LEMMA WriterStep ==
  ASSUME NotesInv, NEW t \in Threads, lock \in {t, None},
         DOMAIN th' = Threads, \A u \in Threads \ {t} : th'[u] = th[u],
         th'[t].pc \in Steps, lock' = IF th'[t].pc \in Writing THEN t ELSE None,
         th'[t].pc \notin {"read", "record", "loaded", "list", "listed"},
         FilesKept(t)', RequestTyped(t)', SavePlaced(t)', DeletionPlaced(t)',
         \A u \in Threads \ {t} : ReaderServed(u, t)'
  PROVE  NotesInv'
  <1>1. \A u \in Threads \ {t} : th[u].pc \notin Writing /\ th'[u].pc \notin Writing
    BY OneWriter DEF NotesInv
  <1>2. Typed'
    BY <1>1, NotepadAssumption DEF NotesInv, Typed, FilesKept
  <1>3. AckedNotesKept' /\ PairsKept'
    BY DEF FilesKept, PairsKept
  <1>4. QuotaKept'
    BY <1>1 DEF FilesKept, QuotaKept, Writing, Saving
  <1>5. ASSUME NEW u \in Threads
        PROVE  RequestTyped(u)' /\ SavePlaced(u)' /\ DeletionPlaced(u)'
    <2>1. CASE u = t
      BY <2>1
    <2>2. CASE u # t
      BY <1>1, <2>2 DEF NotesInv, RequestTyped, SavePlaced, DeletionPlaced, Writing, Saving
    <2> QED
      BY <2>1, <2>2
  <1>6. ASSUME NEW u \in Threads
        PROVE  ReaderPlaced(u)'
    <2>1. CASE u = t
      BY <2>1 DEF ReaderPlaced
    <2>2. CASE u # t
      <3>1. th'[u] = th[u] /\ ReaderPlaced(u) /\ ReaderServed(u, t)'
        BY <2>2 DEF NotesInv
      <3>2. \A v \in Threads : th'[v].pc \in Saving => v = t
        BY <1>1 DEF Writing
      <3> QED
        BY <3>1, <3>2 DEF ReaderPlaced, ReaderServed
    <2> QED
      BY <2>1, <2>2
  <1> QED
    BY <1>2, <1>3, <1>4, <1>5, <1>6 DEF NotesInv
-----------------------------------------------------------------------------
\* The steps of requests that are refused, of saves before the lock and of readers.
LEMMA PlainStep ==
  ASSUME NotesInv, NEW t \in Threads, UNCHANGED <<enc, meta, lock, acked, born, torn>>,
         th[t].pc \notin Writing, NEW r, r.pc \in {"idle", "refused"}, Set(t, r)
  PROVE  NotesInv'
  <1>1. th'[t] = r
    BY DEF Set, NotesInv, Typed
  <1>2. RequestTyped(t)' /\ ReaderPlaced(t)'
    BY <1>1 DEF RequestTyped, ReaderPlaced, Saving
  <1> QED
    BY <1>2, LocalStep DEF Steps, Writing, Saving

LEMMA RefuseKeeps == ASSUME NotesInv, NEW t \in Threads, Refuse(t) PROVE NotesInv'
  <1>1. th[t].pc \notin Writing /\ UNCHANGED <<enc, meta, lock, acked, born, torn>>
    BY DEF Refuse, Idle, Writing, Saving, files, history
  <1>2. PICK r : r.pc = "refused" /\ Set(t, r)
    BY DEF Refuse
  <1> QED
    BY <1>1, <1>2, PlainStep

LEMMA RepliesKeep ==
  ASSUME NotesInv, NEW t \in Threads, Answered(t) \/ SaveMissing(t) \/ SaveOverQuota(t)
  PROVE  NotesInv'
  <1>1. th[t].pc \notin Writing /\ UNCHANGED <<enc, meta, lock, acked, born, torn>>
    BY DEF Answered, SaveMissing, SaveOverQuota, Writing, Saving, files, history
  <1>2. Set(t, Idle) /\ Idle.pc = "idle"
    BY DEF Answered, SaveMissing, SaveOverQuota, Reply, Idle
  <1> QED
    BY <1>1, <1>2, PlainStep

LEMMA SaveBeginKeeps ==
  ASSUME NotesInv, NEW t \in Threads, NEW id \in Ids \cup {None}, NEW size \in Sizes,
         NEW create \in BOOLEAN, id = None => create, SaveBegin(t, id, size, create)
  PROVE  NotesInv'
  <1> DEFINE r == [pc |-> "save", id |-> id, size |-> size, create |-> create]
  <1>1. /\ th[t].pc \notin Writing /\ UNCHANGED <<enc, meta, lock, acked, born, torn>>
        /\ Set(t, r)
    BY DEF SaveBegin, Idle, Writing, Saving, files, history
  <1>2. th'[t] = r
    BY <1>1 DEF Set, NotesInv, Typed
  <1>3. RequestTyped(t)' /\ ReaderPlaced(t)'
    BY <1>2, NotepadAssumption DEF RequestTyped, ReaderPlaced, Saving
  <1>4. r.pc \in Steps \ Writing
    BY DEF Steps, Writing, Saving
  <1> HIDE DEF r
  <1> QED
    BY <1>1, <1>3, <1>4, LocalStep

LEMMA DeleteCheckKeeps ==
  ASSUME NotesInv, NEW t \in Threads, NEW id \in Ids, DeleteCheck(t, id)
  PROVE  NotesInv'
  <1> DEFINE r == IF enc[id] # None THEN [pc |-> "delete", id |-> id] ELSE Idle
  <1>1. /\ th[t].pc \notin Writing /\ UNCHANGED <<enc, meta, lock, acked, born, torn>>
        /\ Set(t, r)
    BY DEF DeleteCheck, Idle, Writing, Saving, files, history
  <1>2. th'[t] = r
    BY <1>1 DEF Set, NotesInv, Typed
  <1>3. RequestTyped(t)' /\ ReaderPlaced(t)'
    BY <1>2 DEF RequestTyped, Deletions, ReaderPlaced, Saving, Idle
  <1>4. r.pc \in Steps \ Writing
    BY DEF Steps, Writing, Saving, Idle
  <1> HIDE DEF r
  <1> QED
    BY <1>1, <1>3, <1>4, LocalStep

\* A reader takes what was acknowledged as its floor; a save at work is above it, and so is
\* what it would put back.
LEMMA LoadBeginKeeps ==
  ASSUME NotesInv, NEW t \in Threads, NEW id \in Ids, LoadBegin(t, id)
  PROVE  NotesInv'
  <1> DEFINE r == IF enc[id] # None
                  THEN [pc |-> "read", id |-> id, floor |-> acked[id]] ELSE Idle
  <1>1. /\ th[t].pc \notin Writing /\ UNCHANGED <<enc, meta, lock, acked, born, torn>>
        /\ Set(t, r)
    BY DEF LoadBegin, Idle, Writing, Saving, files, history
  <1>2. th'[t] = r /\ \A u \in Threads \ {t} : th'[u] = th[u]
    BY <1>1 DEF Set, NotesInv, Typed
  <1>3. RequestTyped(t)'
    BY <1>2 DEF RequestTyped, Saving, Idle, NotesInv, Typed
  <1>4. r.pc \in Steps \ Writing
    BY DEF Steps, Writing, Saving, Idle
  <1>5. ReaderPlaced(t)'
    <2>1. CASE enc[id] # None
      <3>1. th'[t].pc = "read" /\ th'[t].id = id /\ th'[t].floor = acked[id]
        BY <1>2, <2>1
      <3>2. /\ enc[id] \in Ciphertexts /\ acked[id] \in Nat
            /\ acked[id] # 0 => enc[id].n >= acked[id]
        BY <2>1 DEF NotesInv, Typed, AckedNotesKept
      <3>3. enc[id].n >= acked[id]
        BY <3>2 DEF Ciphertexts
      <3>4. ASSUME NEW u \in Threads, th'[u].pc \in Saving, th'[u].id = id
            PROVE  /\ th'[u].new.n >= acked[id]
                   /\ th'[u].backup # None => th'[u].backup.n >= acked[id]
        <4>1. th'[u] = th[u] /\ RequestTyped(u) /\ SavePlaced(u)
          BY <1>2, <3>1, <3>4 DEF NotesInv, Saving
        <4> QED
          BY <3>2, <3>4, <4>1 DEF RequestTyped, Saves, SavePlaced, Ciphertexts
      <3> QED
        BY <1>1, <3>1, <3>3, <3>4 DEF ReaderPlaced
    <2>2. CASE enc[id] = None
      BY <1>2, <2>2 DEF ReaderPlaced, Idle
    <2> QED
      BY <2>1, <2>2
  <1> HIDE DEF r
  <1> QED
    BY <1>1, <1>3, <1>4, <1>5, LocalStep

LEMMA LoadReadKeeps ==
  ASSUME NotesInv, NEW t \in Threads, LoadRead(t)
  PROVE  NotesInv'
  <1>1. /\ th[t].pc \notin Writing /\ UNCHANGED <<enc, meta, lock, acked, born, torn>>
        /\ th[t].pc = "read" /\ RequestTyped(t) /\ ReaderPlaced(t)
    BY DEF LoadRead, Writing, Saving, files, history, NotesInv
  <1>2. CASE enc[th[t].id] = None
    BY <1>1, <1>2, PlainStep DEF LoadRead, Reply, Idle
  <1>3. CASE enc[th[t].id] # None
    <2> DEFINE r == [pc |-> "record", id |-> th[t].id, floor |-> th[t].floor,
                     data |-> enc[th[t].id].n]
    <2>1. Set(t, r)
      BY <1>3 DEF LoadRead
    <2>2. th'[t] = r
      BY <2>1 DEF Set, NotesInv, Typed
    <2>3. enc[th[t].id] \in Ciphertexts /\ th[t].floor \in Nat
      BY <1>1, <1>3 DEF NotesInv, Typed, RequestTyped
    <2>4. RequestTyped(t)' /\ ReaderPlaced(t)'
      BY <1>1, <1>3, <2>2, <2>3 DEF RequestTyped, ReaderPlaced, Saving, Ciphertexts
    <2>5. r.pc \in Steps \ Writing
      BY DEF Steps, Writing, Saving
    <2> HIDE DEF r
    <2> QED
      BY <1>1, <2>1, <2>4, <2>5, LocalStep
  <1> QED
    BY <1>2, <1>3

LEMMA LoadRecordKeeps ==
  ASSUME NotesInv, NEW t \in Threads, LoadRecord(t)
  PROVE  NotesInv'
  <1> DEFINE r == [pc |-> "loaded", floor |-> th[t].floor,
                   data |-> th[t].data, note |-> Record(th[t].id)]
  <1>1. /\ th[t].pc \notin Writing /\ UNCHANGED <<enc, meta, lock, acked, born, torn>>
        /\ th[t].pc = "record" /\ RequestTyped(t) /\ ReaderPlaced(t) /\ Set(t, r)
    BY DEF LoadRecord, Writing, Saving, files, history, NotesInv
  <1>2. th'[t] = r
    BY <1>1 DEF Set, NotesInv, Typed
  <1>3. RequestTyped(t)' /\ ReaderPlaced(t)'
    BY <1>1, <1>2 DEF RequestTyped, ReaderPlaced, Saving
  <1>4. r.pc \in Steps \ Writing
    BY DEF Steps, Writing, Saving
  <1> HIDE DEF r
  <1> QED
    BY <1>1, <1>3, <1>4, LocalStep

\* A listing that is not truncated has the name of every acknowledged note.
LEMMA ListBeginKeeps ==
  ASSUME NotesInv, NEW t \in Threads, ListBegin(t)
  PROVE  NotesInv'
  <1> DEFINE present == {i \in Ids : enc[i] # None}
             acknowledged == {i \in Ids : acked[i] # 0}
  <1>1. PICK names :
          Set(t, [pc |-> "list", names |-> names, truncated |-> Truncated(names, present),
                  before |-> acknowledged])
    BY DEF ListBegin
  <1> DEFINE r == [pc |-> "list", names |-> names, truncated |-> Truncated(names, present),
                   before |-> acknowledged]
  <1>2. /\ th[t].pc \notin Writing /\ UNCHANGED <<enc, meta, lock, acked, born, torn>>
    BY DEF ListBegin, Idle, Writing, Saving, files, history
  <1>3. th'[t] = r
    BY <1>1 DEF Set, NotesInv, Typed
  <1>4. acknowledged \subseteq present
    BY DEF NotesInv, AckedNotesKept
  <1>5. RequestTyped(t)' /\ ReaderPlaced(t)'
    <2>1. /\ th'[t].pc = "list" /\ th'[t].truncated = Truncated(names, present)
          /\ th'[t].before = acknowledged /\ th'[t].names = names
      BY <1>3
    <2> HIDE DEF r, present, acknowledged
    <2>2. CASE names = present
      BY <1>4, <2>1, <2>2 DEF RequestTyped, ReaderPlaced, Saving
    <2>3. CASE names # present
      <3>1. th'[t].truncated = TRUE
        BY <2>1, <2>3 DEF Truncated
      <3> QED
        BY <2>1, <3>1 DEF RequestTyped, ReaderPlaced, Saving
    <2> QED
      BY <2>2, <2>3
  <1>6. r.pc \in Steps \ Writing /\ Set(t, r)
    BY <1>1 DEF Steps, Writing, Saving
  <1> HIDE DEF r
  <1> QED
    BY <1>2, <1>5, <1>6, LocalStep

LEMMA ListEndKeeps ==
  ASSUME NotesInv, NEW t \in Threads, ListEnd(t)
  PROVE  NotesInv'
  <1> DEFINE notes == {<<i, Record(i)>> : i \in th[t].names}
             r == [pc |-> "listed", notes |-> notes,
                   truncated |-> th[t].truncated, before |-> th[t].before]
  <1>1. /\ th[t].pc \notin Writing /\ UNCHANGED <<enc, meta, lock, acked, born, torn>>
        /\ th[t].pc = "list" /\ ReaderPlaced(t) /\ Set(t, r)
    BY DEF ListEnd, Writing, Saving, files, history, NotesInv
  <1>2. th'[t] = r
    BY <1>1 DEF Set, NotesInv, Typed
  <1>3. th[t].names \subseteq {note[1] : note \in notes}
    <2> SUFFICES ASSUME NEW i \in th[t].names PROVE i \in {note[1] : note \in notes}
      OBVIOUS
    <2>1. <<i, Record(i)>> \in notes /\ <<i, Record(i)>>[1] = i
      OBVIOUS
    <2> HIDE DEF notes
    <2> QED
      BY <2>1
  <1> HIDE DEF notes
  <1>4. RequestTyped(t)' /\ ReaderPlaced(t)'
    BY <1>1, <1>2, <1>3 DEF RequestTyped, ReaderPlaced, Saving
  <1>5. r.pc \in Steps \ Writing
    BY DEF Steps, Writing, Saving
  <1> HIDE DEF r
  <1> QED
    BY <1>1, <1>4, <1>5, LocalStep
-----------------------------------------------------------------------------
\* What a step of a writer does to its thread and to the lock.
LEMMA WriterMoves ==
  ASSUME Typed, NEW t \in Threads, NEW r, th' = [th EXCEPT ![t] = r]
  PROVE  DOMAIN th' = Threads /\ th'[t] = r /\ \A u \in Threads \ {t} : th'[u] = th[u]
  BY DEF Typed

\* The end of an operation that leaves the files alone.
LEMMA ReleaseStep ==
  ASSUME NotesInv, NEW t \in Threads, lock = t, lock' = None, Set(t, Idle),
         UNCHANGED <<enc, acked, born>>,
         \/ meta' = meta
         \/ \E i \in Ids : meta' = [meta EXCEPT ![i] = None] /\ enc[i] = None,
         torn \subseteq torn' /\ torn' \subseteq Ids,
         th[t].pc \in {"meta", "undo"} => th[t].id \in torn'
  PROVE  NotesInv'
  <1>1. /\ DOMAIN th' = Threads /\ th'[t] = Idle /\ Idle.pc = "idle"
        /\ \A u \in Threads \ {t} : th'[u] = th[u]
    BY WriterMoves DEF Set, NotesInv, Idle
  <1>2. \A u \in Threads \ {t} : th[u].pc \notin Writing
    BY OneWriter DEF NotesInv
  <1>3. RequestTyped(t)' /\ SavePlaced(t)' /\ DeletionPlaced(t)'
    BY <1>1 DEF RequestTyped, SavePlaced, DeletionPlaced, Saving
  <1>4. \A u \in Threads \ {t} : ReaderServed(u, t)'
    BY <1>1 DEF NotesInv, ReaderPlaced, ReaderServed, Saving
  <1>5. /\ meta' \in [Ids -> Sidecars \cup {None}]
        /\ \A i \in Ids : enc[i] # None => meta'[i] = meta[i]
    BY DEF NotesInv, Typed
  <1>6. \A i \in Ids : (enc'[i] # None /\ i \notin torn') => Paired(i, enc[i])'
    <2> SUFFICES ASSUME NEW i \in Ids, enc[i] # None, i \notin torn'
                 PROVE  Paired(i, enc[i])'
      OBVIOUS
    <2>1. ~\E u \in Threads : th[u].pc \in {"meta", "undo"} /\ th[u].id = i
      BY <1>2 DEF Writing, Saving
    <2>2. Paired(i, enc[i])
      BY <2>1 DEF NotesInv, PairsKept
    <2> QED
      BY <1>5, <2>2 DEF Paired
  <1>7. FilesKept(t)'
    BY <1>1, <1>5, <1>6 DEF FilesKept, NotesInv, Typed, AckedNotesKept, QuotaKept
  <1>8. "idle" \in Steps /\ "idle" \notin Writing
    BY DEF Steps, Writing, Saving
  <1> QED
    BY <1>1, <1>3, <1>4, <1>7, <1>8, WriterStep

LEMMA ReleasesKeep ==
  ASSUME NotesInv, NEW t \in Threads,
         SaveStageFails(t) \/ RestoreFails(t) \/ UnlinkMeta(t) \/ DeleteFails(t) \/ ClearEnd(t)
  PROVE  NotesInv'
  <1>0. RequestTyped(t) /\ DeletionPlaced(t) /\ torn \subseteq Ids
    BY DEF NotesInv, Typed
  <1>1. ASSUME SaveStageFails(t) \/ ClearEnd(t) \/ (DeleteFails(t) /\ lock = t)
        PROVE  NotesInv'
    <2>1. /\ lock = t /\ lock' = None /\ Set(t, Idle) /\ UNCHANGED <<enc, meta, acked, born, torn>>
          /\ th[t].pc \notin {"meta", "undo"}
      BY <1>1 DEF SaveStageFails, ClearEnd, DeleteFails, Reply, files, history
    <2> QED
      BY <1>0, <2>1, ReleaseStep
  <1>2. ASSUME RestoreFails(t)
        PROVE  NotesInv'
    <2>1. /\ lock = t /\ lock' = None /\ Set(t, Idle) /\ UNCHANGED <<enc, meta, acked, born>>
          /\ torn' = torn \cup {th[t].id} /\ th[t].id \in Ids
      BY <1>0, <1>2 DEF RestoreFails, Reply, files, RequestTyped, Saves, Saving
    <2> QED
      BY <1>0, <2>1, ReleaseStep
  <1>3. ASSUME UnlinkMeta(t)
        PROVE  NotesInv'
    <2>1. /\ lock = t /\ lock' = None /\ Set(t, Idle) /\ UNCHANGED <<enc, acked, born, torn>>
          /\ th[t].pc = "delete_meta" /\ meta' = [meta EXCEPT ![th[t].id] = None]
          /\ th[t].id \in Ids /\ enc[th[t].id] = None
      BY <1>0, <1>3 DEF UnlinkMeta, Reply, history, RequestTyped, Deletions, DeletionPlaced
    <2> QED
      BY <1>0, <2>1, ReleaseStep
  <1>4. ASSUME DeleteFails(t), lock = None
        PROVE  NotesInv'
    <2>1. /\ th[t].pc = "delete" /\ Set(t, Idle) /\ UNCHANGED <<enc, meta, lock, acked, born, torn>>
      BY <1>4, NotepadAssumption DEF DeleteFails, Reply, files, history
    <2> QED
      BY <2>1, PlainStep DEF Writing, Saving, Idle
  <1> QED
    BY <1>1, <1>2, <1>3, <1>4 DEF DeleteFails

\* The lock is taken by a save: its content is newer than all that is compared with it.
LEMMA SaveLockKeeps ==
  ASSUME NotesInv, NEW t \in Threads, SaveLock(t)
  PROVE  NotesInv'
  <1> DEFINE n == Max(Contents) + 1
  <1>1. /\ th[t].pc = "save" /\ lock = None /\ lock' = t
        /\ UNCHANGED <<enc, meta, acked, born, torn>>
    BY DEF SaveLock, files, history
  <1>2. PICK target \in SaveTargets(t) :
          LET created == IF ~target[2] /\ meta[target[1]] # None
                         THEN meta[target[1]].created ELSE n
          IN  /\ Accepts(target[1], th[t].size, ~target[2])
              /\ Set(t, [pc |-> "enc", id |-> target[1], isNew |-> target[2],
                         new |-> [n |-> n, size |-> th[t].size], created |-> created,
                         backup |-> enc[target[1]], mayCreate |-> th[t].create])
    BY DEF SaveLock
  <1> DEFINE id == target[1]
             isNew == target[2]
             created == IF ~isNew /\ meta[id] # None THEN meta[id].created ELSE n
             new == [n |-> n, size |-> th[t].size]
             r == [pc |-> "enc", id |-> id, isNew |-> isNew, new |-> new, created |-> created,
                   backup |-> enc[id], mayCreate |-> th[t].create]
  <1>3. /\ Typed /\ AckedNotesKept /\ RequestTyped(t)
    BY DEF NotesInv
  <1>4. /\ id \in Ids /\ isNew \in BOOLEAN /\ (isNew <=> enc[id] = None)
        /\ (isNew => th[t].create)
    <2>1. \E i \in Ids : \/ target = <<i, TRUE>> /\ enc[i] = None /\ th[t].create
                         \/ target = <<i, FALSE>> /\ enc[i] # None
      <3>1. th[t].id \in Ids \cup {None} /\ (th[t].id = None => th[t].create)
        BY <1>1, <1>3 DEF RequestTyped
      <3>2. PICK i \in Ids :
              /\ target = <<i, enc[i] = None>>
              /\ IF th[t].id = None THEN enc[i] = None
                 ELSE i = th[t].id /\ (enc[i] # None \/ th[t].create)
        BY DEF SaveTargets
      <3> QED
        BY <3>1, <3>2
    <2>2. PICK i \in Ids : \/ target = <<i, TRUE>> /\ enc[i] = None /\ th[t].create
                           \/ target = <<i, FALSE>> /\ enc[i] # None
      BY <2>1
    <2>3. CASE target = <<i, TRUE>> /\ enc[i] = None /\ th[t].create
      <3>1. id = i /\ isNew = TRUE
        BY <2>3
      <3> QED
        BY <2>3, <3>1
    <2>4. CASE target = <<i, FALSE>> /\ enc[i] # None
      <3>1. id = i /\ isNew = FALSE
        BY <2>4
      <3> QED
        BY <2>4, <3>1
    <2> QED
      BY <2>2, <2>3, <2>4
  <1>5. /\ n \in Nat /\ (\A i \in Ids : acked[i] <= n)
        /\ \A u \in Threads : th[u].pc = "read" => th[u].floor <= n
    <2>1. /\ Max(Contents) \in Nat /\ (\A i \in Ids : acked[i] <= Max(Contents))
          /\ \A u \in Threads : th[u].pc = "read" => th[u].floor <= Max(Contents)
      BY ContentsBelow DEF NotesInv
    <2>2. /\ \A i \in Ids : acked[i] \in Nat
          /\ \A u \in Threads : th[u].pc = "read" => th[u].floor \in Nat
      BY DEF NotesInv, Typed, RequestTyped
    <2> QED
      BY <2>1, <2>2
  <1>6. new \in Ciphertexts /\ new.n = n /\ new.size = th[t].size /\ th[t].create \in BOOLEAN
    BY <1>1, <1>3, <1>5 DEF Ciphertexts, RequestTyped
  <1>7. created \in Nat /\ enc[id] \in Ciphertexts \cup {None}
    BY <1>3, <1>4, <1>5 DEF Typed, Sidecars
  <1>8. /\ DOMAIN th' = Threads /\ th'[t] = r /\ \A u \in Threads \ {t} : th'[u] = th[u]
    BY <1>2, <1>3, WriterMoves DEF Set
  <1> HIDE DEF n, new, created
  <1>9. /\ th'[t].pc = "enc" /\ th'[t].id = id /\ th'[t].isNew = isNew /\ th'[t].new = new
        /\ th'[t].created = created /\ th'[t].backup = enc[id] /\ th'[t].mayCreate = th[t].create
    BY <1>8
  <1>10. Fits([enc EXCEPT ![id] = new])
    <2>1. Accepts(id, new.size, ~isNew) /\ (~isNew) \in BOOLEAN /\ (enc[id] # None => ~isNew)
      BY <1>2, <1>4, <1>6
    <2> HIDE DEF id, isNew
    <2> QED
      BY <1>3, <1>4, <1>6, <2>1, AcceptsFits
  <1> HIDE DEF r
  <1>11. \A u \in Threads : th[u].pc \notin Writing
    BY <1>1, <1>3, NotepadAssumption DEF Typed
  <1>12. \A i \in Ids : (enc[i] # None /\ i \notin torn) => Paired(i, enc[i])
    BY <1>11 DEF NotesInv, PairsKept, Writing, Saving
  <1>13. FilesKept(t)'
    <2>1. [enc' EXCEPT ![th'[t].id] = th'[t].new] = [enc EXCEPT ![id] = new] /\ enc' = enc
      BY <1>1, <1>9
    <2>2. Fits(enc') /\ Fits([enc' EXCEPT ![th'[t].id] = th'[t].new])
      BY <1>10, <2>1 DEF NotesInv, QuotaKept
    <2>3. \A i \in Ids : (enc'[i] # None /\ i \notin torn') => Paired(i, enc[i])'
      BY <1>1, <1>12 DEF Paired
    <2>4. AckedNotesKept'
      BY <1>1, <1>3 DEF AckedNotesKept
    <2> QED
      BY <1>1, <1>3, <1>9, <2>2, <2>3, <2>4 DEF FilesKept, Typed
  <1>14. RequestTyped(t)'
    <2>1. r \in Saves
      BY <1>4, <1>6, <1>7 DEF r, Saves, Saving
    <2> HIDE DEF id, isNew
    <2> QED
      BY <1>8, <1>9, <2>1 DEF RequestTyped, Saving
  <1>15. SavePlaced(t)'
    <2>1. (enc[id] # None /\ id \notin torn) => Paired(id, enc[id]) /\ created = born[id]
      BY <1>4, <1>12 DEF Paired, created
    <2>2. /\ new.n >= acked[id]
          /\ acked[id] # 0 => enc[id] # None /\ enc[id].n >= acked[id]
      BY <1>3, <1>4, <1>5, <1>6 DEF AckedNotesKept, Typed
    <2>3. UNCHANGED <<enc, meta, acked, born, torn>>
      BY <1>1
    <2> HIDE DEF id, isNew
    <2> QED
      BY <1>4, <1>9, <2>1, <2>2, <2>3 DEF SavePlaced, Paired
  <1>16. DeletionPlaced(t)'
    BY <1>9 DEF DeletionPlaced
  <1>17. \A u \in Threads \ {t} : ReaderServed(u, t)'
    <2> SUFFICES ASSUME NEW u \in Threads \ {t} PROVE ReaderServed(u, t)'
      OBVIOUS
    <2>1. th'[u] = th[u] /\ ReaderPlaced(u) /\ RequestTyped(u)
      BY <1>8 DEF NotesInv
    <2>2. th[u].pc = "read" => th[u].floor \in Nat /\ th[u].floor <= n
      BY <1>5, <2>1 DEF RequestTyped
    <2> HIDE DEF id
    <2> QED
      BY <1>1, <1>5, <1>6, <1>9, <2>1, <2>2 DEF ReaderServed, ReaderPlaced
  <1>18. "enc" \in Steps /\ "enc" \in Writing
    BY DEF Steps, Writing, Saving
  <1> QED
    BY <1>1, <1>8, <1>9, <1>13, <1>14, <1>15, <1>16, <1>17, <1>18, WriterStep

\* What is known of a save that holds the lock.
LEMMA SaveFacts ==
  ASSUME NotesInv, NEW t \in Threads, th[t].pc \in Saving
  PROVE  /\ lock = t /\ Typed /\ AckedNotesKept
         /\ RequestTyped(t) /\ SavePlaced(t)
         /\ \A u \in Threads \ {t} : th[u].pc \notin Writing
         /\ \A i \in Ids \ {th[t].id} : (enc[i] # None /\ i \notin torn) => Paired(i, enc[i])
  <1>1. lock = t
    BY DEF NotesInv, Typed, Writing
  <1>2. \A u \in Threads \ {t} : th[u].pc \notin Writing
    BY <1>1, OneWriter DEF NotesInv
  <1>3. \A i \in Ids \ {th[t].id} : (enc[i] # None /\ i \notin torn) => Paired(i, enc[i])
    BY <1>2 DEF NotesInv, PairsKept, Writing, Saving
  <1> QED
    BY <1>1, <1>2, <1>3 DEF NotesInv

\* The steps of a save that only move on: the ciphertext is replaced, or its sidecar is not.
LEMMA SaveMovesOn ==
  ASSUME NotesInv, NEW t \in Threads, NEW step \in {"meta", "undo"}, th[t].pc \in Saving,
         th[t].pc = "enc" => enc' = [enc EXCEPT ![th[t].id] = th[t].new],
         th[t].pc # "enc" => enc' = enc,
         Goto(t, step), UNCHANGED <<meta, lock, history>>
  PROVE  NotesInv'
  <1> DEFINE id == th[t].id
             new == th[t].new
             backup == th[t].backup
  <1>1. /\ lock = t /\ Typed /\ AckedNotesKept /\ RequestTyped(t) /\ SavePlaced(t)
        /\ \A i \in Ids \ {id} : (enc[i] # None /\ i \notin torn) => Paired(i, enc[i])
    BY SaveFacts
  <1>2. /\ id \in Ids /\ new \in Ciphertexts /\ backup \in Ciphertexts \cup {None}
        /\ enc \in [Ids -> Ciphertexts \cup {None}] /\ new # None
    BY <1>1, NotepadAssumption DEF RequestTyped, Saves, Typed
  <1>3. enc' = [enc EXCEPT ![id] = new] /\ UNCHANGED <<meta, acked, born, torn>> /\ lock' = t
    <2>1. th[t].pc # "enc" => enc[id] = new
      BY <1>1 DEF SavePlaced
    <2>2. th[t].pc # "enc" => enc = [enc EXCEPT ![id] = new]
      BY <1>2, <2>1
    <2> QED
      BY <1>1, <2>2 DEF history
  <1>4. /\ DOMAIN th' = Threads /\ \A u \in Threads \ {t} : th'[u] = th[u]
        /\ th'[t] = [th[t] EXCEPT !.pc = step]
    BY <1>1 DEF Goto, Typed
  <1>5. /\ th'[t].pc = step /\ th'[t].id = id /\ th'[t].new = new /\ th'[t].backup = backup
        /\ th'[t].isNew = th[t].isNew /\ th'[t].created = th[t].created
        /\ th'[t].mayCreate = th[t].mayCreate /\ th'[t] \in Saves
    BY <1>1, <1>4 DEF RequestTyped, Saves, Saving
  <1>6. [enc' EXCEPT ![id] = backup] = [enc EXCEPT ![id] = backup]
    BY <1>2, <1>3
  <1>7. Fits(enc') /\ Fits([enc' EXCEPT ![id] = backup])
    <2>1. CASE th[t].pc = "enc"
      <3>1. enc = [enc EXCEPT ![id] = backup]
        BY <1>1, <1>2, <2>1 DEF SavePlaced, Saving
      <3>2. Fits(enc) /\ Fits([enc EXCEPT ![id] = new])
        BY <2>1 DEF NotesInv, QuotaKept
      <3> QED
        BY <1>3, <1>6, <3>1, <3>2
    <2>2. CASE th[t].pc # "enc"
      <3>1. enc' = enc /\ Fits(enc) /\ Fits([enc EXCEPT ![id] = backup])
        BY <2>2 DEF NotesInv, QuotaKept, Saving
      <3> QED
        BY <1>6, <3>1
    <2> QED
      BY <2>1, <2>2
  <1> HIDE DEF id, new, backup
  <1>8. /\ new.n \in Nat /\ new.n >= acked[id]
        /\ acked[id] # 0 => backup # None /\ backup.n >= acked[id]
        /\ th[t].isNew <=> backup = None
        /\ th[t].isNew => th[t].mayCreate
        /\ (backup # None /\ id \notin torn) => Paired(id, backup) /\ th[t].created = born[id]
    BY <1>1, <1>2 DEF SavePlaced, id, new, backup, Ciphertexts
  <1>9. FilesKept(t)'
    <2>1. AckedNotesKept'
      BY <1>1, <1>2, <1>3, <1>8 DEF AckedNotesKept
    <2>2. enc' \in [Ids -> Ciphertexts \cup {None}]
      BY <1>2, <1>3
    <2>3. ASSUME NEW i \in Ids \ {id}, enc'[i] # None, i \notin torn'
          PROVE  Paired(i, enc[i])'
      BY <1>1, <1>3, <2>3, <1>2 DEF Paired, id
    <2> QED
      BY <1>1, <1>3, <1>5, <1>7, <2>1, <2>2, <2>3 DEF FilesKept, Typed
  <1>10. RequestTyped(t)' /\ DeletionPlaced(t)'
    BY <1>5 DEF RequestTyped, DeletionPlaced, Saving
  <1>11. SavePlaced(t)'
    BY <1>2, <1>3, <1>5, <1>8 DEF SavePlaced, Paired
  <1>12. \A u \in Threads \ {t} : ReaderServed(u, t)'
    <2> SUFFICES ASSUME NEW u \in Threads \ {t}, th'[u].pc = "read" PROVE ReaderServed(u, t)'
      BY DEF ReaderServed
    <2>1. th'[u] = th[u] /\ ReaderPlaced(u) /\ th[u].pc = "read" /\ th[u].id \in Ids
      BY <1>4 DEF NotesInv, RequestTyped
    <2>2. th[u].id = id => new.n >= th[u].floor /\ (backup # None => backup.n >= th[u].floor)
      BY <2>1 DEF ReaderPlaced, id, new, backup
    <2>3. enc'[th[u].id] # None => enc'[th[u].id].n >= th[u].floor
      <3>1. CASE th[u].id = id
        BY <1>2, <1>3, <2>2, <3>1
      <3>2. CASE th[u].id # id
        BY <1>2, <1>3, <2>1, <3>2 DEF ReaderPlaced
      <3> QED
        BY <3>1, <3>2
    <2> QED
      BY <1>5, <2>1, <2>2, <2>3 DEF ReaderServed
  <1>13. step \in Steps /\ step \in Writing /\ step \in Saving
    BY DEF Steps, Writing, Saving
  <1> QED
    BY <1>1, <1>3, <1>4, <1>5, <1>9, <1>10, <1>11, <1>12, <1>13, WriterStep

LEMMA SaveStepsKeep ==
  ASSUME NotesInv, NEW t \in Threads, ReplaceEnc(t) \/ ReplaceMetaFails(t)
  PROVE  NotesInv'
  <1>1. CASE ReplaceEnc(t)
    BY <1>1, SaveMovesOn DEF ReplaceEnc, Saving
  <1>2. CASE ReplaceMetaFails(t)
    BY <1>2, SaveMovesOn DEF ReplaceMetaFails, files, Saving
  <1> QED
    BY <1>1, <1>2

\* The thread of a writer that is done.
LEMMA WriterDone ==
  ASSUME Typed, NEW t \in Threads, Set(t, Idle)
  PROVE  /\ DOMAIN th' = Threads /\ \A u \in Threads \ {t} : th'[u] = th[u]
         /\ th'[t].pc = "idle"
         /\ RequestTyped(t)' /\ SavePlaced(t)' /\ DeletionPlaced(t)'
         /\ "idle" \in Steps /\ "idle" \notin Writing /\ "idle" \notin Saving
  <1>1. DOMAIN th' = Threads /\ th'[t] = Idle /\ \A u \in Threads \ {t} : th'[u] = th[u]
    BY WriterMoves DEF Set
  <1>2. th'[t].pc = "idle"
    BY <1>1 DEF Idle
  <1> QED
    BY <1>1, <1>2 DEF RequestTyped, SavePlaced, DeletionPlaced, Steps, Writing, Saving

\* The backup is put back, or nothing where there was none.
LEMMA RestorePairKeeps ==
  ASSUME NotesInv, NEW t \in Threads, RestorePair(t)
  PROVE  NotesInv'
  <1> DEFINE id == th[t].id
             backup == th[t].backup
  <1>1. /\ lock = t /\ Typed /\ AckedNotesKept /\ RequestTyped(t) /\ SavePlaced(t)
        /\ \A i \in Ids \ {id} : (enc[i] # None /\ i \notin torn) => Paired(i, enc[i])
        /\ th[t].pc = "undo" /\ th[t].pc \in Saving
    BY SaveFacts DEF RestorePair, Saving
  <1>2. /\ id \in Ids /\ backup \in Ciphertexts \cup {None}
        /\ enc \in [Ids -> Ciphertexts \cup {None}]
    BY <1>1 DEF RequestTyped, Saves, Typed
  <1>3. /\ enc' = [enc EXCEPT ![id] = backup] /\ Set(t, Idle) /\ lock' = None
        /\ UNCHANGED <<meta, acked, born, torn>>
    BY DEF RestorePair, Restored, Reply, history
  <1>4. /\ DOMAIN th' = Threads /\ \A u \in Threads \ {t} : th'[u] = th[u]
        /\ th'[t].pc = "idle"
        /\ RequestTyped(t)' /\ SavePlaced(t)' /\ DeletionPlaced(t)'
        /\ "idle" \in Steps /\ "idle" \notin Writing /\ "idle" \notin Saving
    BY <1>1, <1>3, WriterDone
  <1>5. /\ acked[id] # 0 => backup # None /\ backup.n >= acked[id]
        /\ (backup # None /\ id \notin torn) => Paired(id, backup)
    BY <1>1 DEF SavePlaced
  <1>6. Fits(enc')
    BY <1>1, <1>3 DEF NotesInv, QuotaKept
  <1> HIDE DEF id, backup
  <1>7. AckedNotesKept'
    BY <1>1, <1>2, <1>3, <1>5 DEF AckedNotesKept
  <1>8. ASSUME NEW i \in Ids, enc'[i] # None, i \notin torn'
        PROVE  Paired(i, enc[i])'
    BY <1>1, <1>2, <1>3, <1>5, <1>8 DEF Paired
  <1>9. FilesKept(t)'
    BY <1>1, <1>2, <1>3, <1>4, <1>6, <1>7, <1>8 DEF FilesKept, Typed
  <1>10. \A u \in Threads \ {t} : ReaderServed(u, t)'
    <2> SUFFICES ASSUME NEW u \in Threads \ {t}, th'[u].pc = "read" PROVE ReaderServed(u, t)'
      BY DEF ReaderServed
    <2>1. th'[u] = th[u] /\ ReaderPlaced(u) /\ th[u].pc = "read" /\ th[u].id \in Ids
      BY <1>4 DEF NotesInv, RequestTyped
    <2>2. th[u].id = id => (backup # None => backup.n >= th[u].floor)
      BY <1>1, <2>1 DEF ReaderPlaced, id, backup
    <2>3. enc'[th[u].id] # None => enc'[th[u].id].n >= th[u].floor
      BY <1>2, <1>3, <2>1, <2>2 DEF ReaderPlaced
    <2> QED
      BY <1>4, <2>1, <2>3 DEF ReaderServed
  <1> QED
    BY <1>1, <1>3, <1>4, <1>9, <1>10, WriterStep

\* The pair is complete and acknowledged.
LEMMA ReplaceMetaKeeps ==
  ASSUME NotesInv, NEW t \in Threads, ReplaceMeta(t)
  PROVE  NotesInv'
  <1> DEFINE id == th[t].id
             new == th[t].new
             created == th[t].created
  <1>1. /\ lock = t /\ Typed /\ AckedNotesKept /\ RequestTyped(t) /\ SavePlaced(t)
        /\ \A i \in Ids \ {id} : (enc[i] # None /\ i \notin torn) => Paired(i, enc[i])
        /\ th[t].pc = "meta" /\ th[t].pc \in Saving
    BY SaveFacts DEF ReplaceMeta, Saving
  <1>2. /\ id \in Ids /\ new \in Ciphertexts /\ created \in Nat /\ new # None
        /\ enc \in [Ids -> Ciphertexts \cup {None}] /\ meta \in [Ids -> Sidecars \cup {None}]
        /\ acked \in [Ids -> Nat] /\ born \in [Ids -> Nat] /\ torn \subseteq Ids
    BY <1>1, NotepadAssumption DEF RequestTyped, Saves, Typed
  <1>3. /\ enc' = enc /\ meta' = [meta EXCEPT ![id] = [n |-> new.n, created |-> created]]
        /\ lock' = None /\ Set(t, Idle) /\ acked' = [acked EXCEPT ![id] = new.n]
        /\ born' = IF th[t].isNew \/ id \in torn THEN [born EXCEPT ![id] = created] ELSE born
        /\ torn' = torn \ {id}
    BY DEF ReplaceMeta, Reply, Sidecar
  <1>4. /\ DOMAIN th' = Threads /\ \A u \in Threads \ {t} : th'[u] = th[u]
        /\ th'[t].pc = "idle"
        /\ RequestTyped(t)' /\ SavePlaced(t)' /\ DeletionPlaced(t)'
        /\ "idle" \in Steps /\ "idle" \notin Writing /\ "idle" \notin Saving
    BY <1>1, <1>3, WriterDone
  <1>5. /\ enc[id] = new
        /\ (~th[t].isNew /\ id \notin torn) => created = born[id]
    BY <1>1 DEF SavePlaced
  <1>6. born'[id] = created /\ \A i \in Ids \ {id} : born'[i] = born[i]
    <2>1. CASE th[t].isNew \/ id \in torn
      BY <1>2, <1>3, <2>1
    <2>2. CASE ~(th[t].isNew \/ id \in torn)
      BY <1>2, <1>3, <1>5, <2>2
    <2> QED
      BY <2>1, <2>2
  <1>7. meta'[id] # None /\ meta'[id].n = new.n /\ meta'[id].created = created
    <2>1. [n |-> new.n, created |-> created] \in Sidecars
      BY <1>2 DEF Sidecars, Ciphertexts
    <2> QED
      BY <1>2, <1>3, <2>1, NotepadAssumption
  <1>8. new.n \in Nat /\ [n |-> new.n, created |-> created] \in Sidecars
    BY <1>2 DEF Sidecars, Ciphertexts
  <1> HIDE DEF id, new, created
  <1>9. AckedNotesKept'
    BY <1>1, <1>2, <1>3, <1>5, <1>8 DEF AckedNotesKept
  <1>10. ASSUME NEW i \in Ids, enc'[i] # None, i \notin torn'
         PROVE  Paired(i, enc[i])'
    <2>1. CASE i = id
      BY <1>3, <1>5, <1>6, <1>7, <2>1 DEF Paired
    <2>2. CASE i # id
      BY <1>1, <1>2, <1>3, <1>6, <1>10, <2>2 DEF Paired
    <2> QED
      BY <2>1, <2>2
  <1>11. FilesKept(t)'
    <2>1. Fits(enc')
      BY <1>3 DEF NotesInv, QuotaKept
    <2>2. /\ meta' \in [Ids -> Sidecars \cup {None}] /\ acked' \in [Ids -> Nat]
          /\ born' \in [Ids -> Nat] /\ torn' \subseteq Ids
      BY <1>2, <1>3, <1>8
    <2> QED
      BY <1>2, <1>3, <1>4, <1>9, <1>10, <2>1, <2>2 DEF FilesKept
  <1>12. \A u \in Threads \ {t} : ReaderServed(u, t)'
    BY <1>3, <1>4 DEF ReaderServed, ReaderPlaced, NotesInv
  <1> QED
    BY <1>1, <1>3, <1>4, <1>11, <1>12, WriterStep
-----------------------------------------------------------------------------
\* Removals.  While one holds the lock or takes it, no save is between its two files.
LEMMA NoSave ==
  ASSUME NotesInv, NEW t \in Threads, lock \in {t, None}, th[t].pc \notin {"meta", "undo"}
  PROVE  \A i \in Ids : (enc[i] # None /\ i \notin torn) => Paired(i, enc[i])
  BY OneWriter DEF NotesInv, PairsKept, Writing, Saving

\* A ciphertext goes: the next three conditions are what the removal of one leaves.
LEMMA EncRemoved ==
  ASSUME NotesInv, NEW t \in Threads, lock \in {t, None}, th[t].pc \notin {"meta", "undo"},
         NEW id \in Ids, enc' = [enc EXCEPT ![id] = None], acked' = [acked EXCEPT ![id] = 0],
         UNCHANGED <<meta, born, torn>>, th'[t].pc \notin Saving,
         \A u \in Threads \ {t} : th'[u] = th[u]
  PROVE  FilesKept(t)' /\ \A u \in Threads \ {t} : ReaderServed(u, t)'
  <1>1. /\ enc \in [Ids -> Ciphertexts \cup {None}] /\ meta \in [Ids -> Sidecars \cup {None}]
        /\ acked \in [Ids -> Nat] /\ born \in [Ids -> Nat] /\ torn \subseteq Ids
        /\ AckedNotesKept /\ Fits(enc)
    BY DEF NotesInv, Typed, QuotaKept
  <1>2. Fits(enc')
    BY <1>1, FitsLess
  <1>3. AckedNotesKept'
    BY <1>1 DEF AckedNotesKept
  <1>4. ASSUME NEW i \in Ids, enc'[i] # None, i \notin torn'
        PROVE  Paired(i, enc[i])'
    <2>1. i # id /\ enc'[i] = enc[i]
      BY <1>1, <1>4
    <2> QED
      BY <1>4, <2>1, NoSave DEF Paired
  <1>5. FilesKept(t)'
    BY <1>1, <1>2, <1>3, <1>4 DEF FilesKept, Saving
  <1>6. ASSUME NEW u \in Threads \ {t}
        PROVE  ReaderServed(u, t)'
    <2>1. th'[u] = th[u] /\ ReaderPlaced(u) /\ (th[u].pc = "read" => th[u].id \in Ids)
      BY DEF NotesInv, RequestTyped
    <2> QED
      BY <1>1, <2>1 DEF ReaderServed, ReaderPlaced
  <1> QED
    BY <1>5, <1>6

LEMMA UnlinkEncKeeps ==
  ASSUME NotesInv, NEW t \in Threads, UnlinkEnc(t)
  PROVE  NotesInv'
  <1> DEFINE id == th[t].id
  <1>1. /\ th[t] \in Deletions /\ id \in Ids /\ lock = None /\ th[t].pc = "delete"
        /\ enc' = [enc EXCEPT ![id] = None] /\ acked' = [acked EXCEPT ![id] = 0]
        /\ UNCHANGED <<meta, born, torn>> /\ lock' = t /\ Goto(t, "delete_meta")
    BY DEF UnlinkEnc, NotesInv, RequestTyped, Deletions
  <1>2. /\ DOMAIN th' = Threads /\ \A u \in Threads \ {t} : th'[u] = th[u]
        /\ th'[t] = [th[t] EXCEPT !.pc = "delete_meta"]
    BY <1>1 DEF Goto, NotesInv, Typed
  <1>3. th'[t] \in Deletions /\ th'[t].pc = "delete_meta" /\ th'[t].id = id
    BY <1>1, <1>2 DEF Deletions
  <1>4. /\ "delete_meta" \in Steps /\ "delete_meta" \in Writing
        /\ "delete_meta" \notin Saving
    BY DEF Steps, Writing, Saving
  <1>5. FilesKept(t)' /\ \A u \in Threads \ {t} : ReaderServed(u, t)'
    BY <1>1, <1>2, <1>3, <1>4, EncRemoved
  <1>6. RequestTyped(t)' /\ SavePlaced(t)'
    BY <1>3 DEF RequestTyped, SavePlaced, Saving
  <1>7. DeletionPlaced(t)'
    BY <1>1, <1>3 DEF DeletionPlaced, NotesInv, Typed
  <1> HIDE DEF id
  <1> QED
    BY <1>1, <1>2, <1>3, <1>4, <1>5, <1>6, <1>7, WriterStep

LEMMA ClearLockKeeps ==
  ASSUME NotesInv, NEW t \in Threads, ClearLock(t)
  PROVE  NotesInv'
  <1> DEFINE todo == ({"enc"} \X {i \in Ids : enc[i] # None})
                     \cup ({"meta"} \X {i \in Ids : meta[i] # None})
             r == [pc |-> "clear", failed |-> FALSE, todo |-> todo]
  <1>1. /\ lock = None /\ lock' = t /\ Set(t, r) /\ th[t].pc = "idle"
        /\ UNCHANGED <<enc, meta, acked, born, torn>>
    BY DEF ClearLock, Idle, files, history
  <1>2. DOMAIN th' = Threads /\ th'[t] = r /\ \A u \in Threads \ {t} : th'[u] = th[u]
    BY <1>1 DEF Set, NotesInv, Typed
  <1>3. todo \subseteq Entries
    BY DEF Entries
  <1> HIDE DEF todo
  <1>4. r \in Clearings /\ r.pc = "clear"
    BY <1>3 DEF Clearings
  <1> HIDE DEF r
  <1>5. "clear" \in Steps /\ "clear" \in Writing /\ "clear" \notin Saving
    BY DEF Steps, Writing, Saving
  <1>6. RequestTyped(t)' /\ SavePlaced(t)' /\ DeletionPlaced(t)'
    BY <1>2, <1>4 DEF RequestTyped, SavePlaced, DeletionPlaced, Saving
  <1>7. \A i \in Ids : (enc[i] # None /\ i \notin torn) => Paired(i, enc[i])
    BY <1>1, NoSave
  <1>8. FilesKept(t)'
    BY <1>1, <1>2, <1>4, <1>7 DEF FilesKept, NotesInv, Typed, AckedNotesKept, QuotaKept, Paired
  <1>9. \A u \in Threads \ {t} : ReaderServed(u, t)'
    BY <1>1, <1>2, <1>4, <1>5 DEF NotesInv, ReaderServed, ReaderPlaced
  <1> QED
    BY <1>1, <1>2, <1>4, <1>5, <1>6, <1>8, <1>9, WriterStep

\* An entry of a clearing goes, or resists.
LEMMA ClearEntryKeeps ==
  ASSUME NotesInv, NEW t \in Threads, NEW e \in Entries, ClearEntry(t, e)
  PROVE  NotesInv'
  <1>1. /\ th[t] \in Clearings /\ th[t].pc = "clear" /\ lock = t /\ lock' = t /\ born' = born
        /\ e[2] \in Ids
    BY DEF ClearEntry, NotesInv, RequestTyped, Entries
  <1>2. /\ DOMAIN th' = Threads /\ (\A u \in Threads \ {t} : th'[u] = th[u])
        /\ th'[t] \in Clearings
    <2>1. PICK failed \in {th[t].failed, TRUE} :
            th' = [th EXCEPT ![t] = [th[t] EXCEPT !.todo = th[t].todo \ {e}, !.failed = failed]]
      BY <1>1 DEF ClearEntry, Clearings, NotesInv, Typed
    <2>2. [th[t] EXCEPT !.todo = th[t].todo \ {e}, !.failed = failed] \in Clearings
      BY <1>1, <2>1 DEF Clearings
    <2> QED
      BY <2>1, <2>2, WriterMoves DEF NotesInv
  <1>3. /\ th'[t].pc = "clear" /\ "clear" \in Steps /\ "clear" \in Writing
        /\ "clear" \notin Saving
    BY <1>2 DEF Clearings, Steps, Writing, Saving
  <1>4. RequestTyped(t)' /\ SavePlaced(t)' /\ DeletionPlaced(t)'
    BY <1>2, <1>3 DEF RequestTyped, SavePlaced, DeletionPlaced, Saving
  <1>5. FilesKept(t)' /\ \A u \in Threads \ {t} : ReaderServed(u, t)'
    <2>1. CASE /\ enc' = [enc EXCEPT ![e[2]] = None] /\ acked' = [acked EXCEPT ![e[2]] = 0]
               /\ UNCHANGED <<meta, torn>>
      BY <1>1, <1>2, <1>3, <2>1, EncRemoved
    <2>2. CASE /\ UNCHANGED <<enc, acked>>
               /\ meta' = [meta EXCEPT ![e[2]] = None]
               /\ torn' = IF enc[e[2]] # None THEN torn \cup {e[2]} ELSE torn
      <3>1. /\ meta' \in [Ids -> Sidecars \cup {None}] /\ torn' \subseteq Ids
            /\ \A i \in Ids :
                 (enc[i] # None /\ i \notin torn') => meta'[i] = meta[i] /\ i \notin torn
        BY <1>1, <2>2 DEF NotesInv, Typed
      <3>2. \A i \in Ids : (enc[i] # None /\ i \notin torn) => Paired(i, enc[i])
        BY <1>1, NoSave
      <3>3. \A i \in Ids : (enc'[i] # None /\ i \notin torn') => Paired(i, enc[i])'
        BY <1>1, <2>2, <3>1, <3>2 DEF Paired
      <3>4. FilesKept(t)'
        BY <1>1, <1>3, <2>2, <3>1, <3>3 DEF FilesKept, NotesInv, Typed, AckedNotesKept, QuotaKept
      <3>5. \A u \in Threads \ {t} : ReaderServed(u, t)'
        BY <1>2, <1>3, <2>2 DEF NotesInv, ReaderServed, ReaderPlaced
      <3> QED
        BY <3>4, <3>5
    <2>3. CASE UNCHANGED <<enc, meta, acked, torn>>
      <3>1. \A i \in Ids : (enc[i] # None /\ i \notin torn) => Paired(i, enc[i])
        BY <1>1, NoSave
      <3>2. FilesKept(t)'
        BY <1>1, <1>3, <2>3, <3>1 DEF FilesKept, NotesInv, Typed, AckedNotesKept, QuotaKept, Paired
      <3>3. \A u \in Threads \ {t} : ReaderServed(u, t)'
        BY <1>2, <1>3, <2>3 DEF NotesInv, ReaderServed, ReaderPlaced
      <3> QED
        BY <3>2, <3>3
    <2> QED
      BY <2>1, <2>2, <2>3 DEF ClearEntry, files, Entries
  <1> QED
    BY <1>1, <1>2, <1>3, <1>4, <1>5, WriterStep

\* A kill ends every operation where it is; the pair between whose files it came is given up.
LEMMA KillKeeps ==
  ASSUME NotesInv, Kill
  PROVE  NotesInv'
  <1>1. /\ th' = [t \in Threads |-> Idle] /\ lock' = None /\ UNCHANGED <<enc, meta, acked, born>>
        /\ torn \subseteq torn'
        /\ \A t \in Threads : th[t].pc \in {"meta", "undo"} => th[t].id \in torn'
    BY DEF Kill, files
  <1>2. torn' \subseteq Ids
    BY DEF Kill, NotesInv, Typed, RequestTyped, Saves, Saving
  <1>3. \A t \in Threads : th'[t].pc = "idle"
    BY <1>1 DEF Idle
  <1>4. Typed'
    BY <1>1, <1>2, <1>3, NotepadAssumption DEF NotesInv, Typed, Steps, Writing, Saving
  <1>5. AckedNotesKept' /\ PairsKept'
    <2>1. \A i \in Ids : (enc[i] # None /\ i \notin torn') => Paired(i, enc[i])
      BY <1>1 DEF NotesInv, PairsKept
    <2> QED
      BY <1>1, <2>1 DEF NotesInv, AckedNotesKept, PairsKept, Paired
  <1>6. QuotaKept'
    BY <1>1, <1>3 DEF NotesInv, QuotaKept
  <1> QED
    BY <1>3, <1>4, <1>5, <1>6
       DEF NotesInv, RequestTyped, SavePlaced, ReaderPlaced, DeletionPlaced, Saving
-----------------------------------------------------------------------------
LEMMA StepKeeps == ASSUME NotesInv, [Next]_vars PROVE NotesInv'
  <1>1. CASE UNCHANGED vars
    <2>1. Typed' /\ AckedNotesKept' /\ PairsKept' /\ QuotaKept'
      BY <1>1 DEF vars, NotesInv, Typed, AckedNotesKept, PairsKept, Paired, QuotaKept
    <2>2. ASSUME NEW t \in Threads
          PROVE  (RequestTyped(t) /\ SavePlaced(t) /\ ReaderPlaced(t) /\ DeletionPlaced(t))'
      BY <1>1 DEF vars, NotesInv, RequestTyped, SavePlaced, Paired, ReaderPlaced, DeletionPlaced
    <2> QED
      BY <2>1, <2>2 DEF NotesInv
  <1>2. ASSUME NEW t \in Threads, Save(t)
        PROVE  NotesInv'
    <2>1. ASSUME NEW id \in Ids, NEW size \in Sizes, NEW create \in BOOLEAN,
                 SaveBegin(t, id, size, create)
          PROVE  NotesInv'
      BY <2>1, SaveBeginKeeps, NotepadAssumption
    <2>2. ASSUME NEW size \in Sizes, SaveBegin(t, None, size, TRUE)
          PROVE  NotesInv'
      BY <2>2, SaveBeginKeeps
    <2> QED
      BY <1>2, <2>1, <2>2, RepliesKeep, SaveLockKeeps, ReleasesKeep, SaveStepsKeep,
         ReplaceMetaKeeps, RestorePairKeeps DEF Save
  <1>3. ASSUME NEW t \in Threads, Removal(t)
        PROVE  NotesInv'
    BY <1>3, DeleteCheckKeeps, UnlinkEncKeeps, ReleasesKeep, ClearLockKeeps, ClearEntryKeeps
       DEF Removal, Entries
  <1>4. ASSUME NEW t \in Threads, Read(t)
        PROVE  NotesInv'
    BY <1>4, LoadBeginKeeps, LoadReadKeeps, LoadRecordKeeps, ListBeginKeeps, ListEndKeeps
       DEF Read
  <1>5. ASSUME NEW t \in Threads, Refuse(t) \/ Answered(t)
        PROVE  NotesInv'
    BY <1>5, RefuseKeeps, RepliesKeep
  <1> QED
    BY <1>1, <1>2, <1>3, <1>4, <1>5, KillKeeps DEF Next

LEMMA InitHolds == Init => NotesInv
  <1> SUFFICES ASSUME Init PROVE NotesInv
    OBVIOUS
  <1>1. \A t \in Threads : th[t].pc = "idle"
    BY DEF Init, Idle
  <1>2. Typed
    BY <1>1, NotepadAssumption DEF Init, Typed, Steps, Writing, Saving
  <1>3. AckedNotesKept /\ PairsKept
    BY DEF Init, AckedNotesKept, PairsKept
  <1>4. QuotaKept
    <2>1. {i \in Ids : enc[i] # None} = {}
      BY DEF Init
    <2>2. Fits(enc)
      BY <2>1, FS_EmptySet, SumEmpty, NotepadAssumption DEF Fits
    <2> QED
      BY <1>1, <2>2 DEF QuotaKept
  <1> QED
    BY <1>1, <1>2, <1>3, <1>4
       DEF NotesInv, RequestTyped, SavePlaced, ReaderPlaced, DeletionPlaced, Saving

LEMMA InvImpliesSound == NotesInv => NotesSound
  <1> SUFFICES ASSUME NotesInv PROVE NotesSound
    OBVIOUS
  <1>1. NotesWithinQuota
    BY DEF NotesInv, QuotaKept, Fits, NotesWithinQuota, Stored, Bytes
  <1>2. PairsMatch
    <2> SUFFICES ASSUME lock = None, NEW i \in Stored \ torn
                 PROVE  Paired(i, enc[i])
      BY DEF PairsMatch, Paired
    <2>1. \A t \in Threads : th[t].pc \notin Writing
      BY NotepadAssumption DEF NotesInv, Typed
    <2> QED
      BY <2>1 DEF NotesInv, PairsKept, Stored, Writing, Saving
  <1>3. ReadersFresh
    BY DEF NotesInv, ReaderPlaced, ReadersFresh
  <1> QED
    BY <1>1, <1>2, <1>3 DEF NotesSound, NotesInv

(***************************************************************************)
(* What the service promises of notes: whatever threads, failures and      *)
(* kills do, the quotas hold, an acknowledged content stays until the note *)
(* is removed, ciphertext and sidecar are of one save when no writer is at *)
(* work, and unlocked readers return nothing older than what had been      *)
(* acknowledged when they began.                                           *)
(***************************************************************************)
THEOREM NotepadNotesSound == Spec => []NotesSound
  <1>1. NotesInv /\ [Next]_vars => NotesInv'
    BY StepKeeps
  <1> QED
    BY <1>1, InitHolds, InvImpliesSound, PTL DEF Spec

\* The step of the action property.
Revives(i) == enc[i] = None /\ enc'[i] # None

LEMMA SaveRevives ==
  ASSUME NotesInv, NEW i \in Ids, NEW t \in Threads, Save(t), Revives(i)
  PROVE  th[t].pc = "enc" /\ th[t].id = i /\ th[t].mayCreate
  <1>1. ReplaceEnc(t) \/ RestorePair(t)
    BY DEF Save, Revives, SaveBegin, SaveLock, SaveMissing, SaveOverQuota, SaveStageFails,
       ReplaceMeta, ReplaceMetaFails, RestoreFails, files
  <1>2. th[t].pc \in Saving
    BY <1>1 DEF ReplaceEnc, RestorePair, Saving
  <1>3. /\ RequestTyped(t) /\ SavePlaced(t) /\ enc \in [Ids -> Ciphertexts \cup {None}]
        /\ th[t].id \in Ids /\ th[t].new # None
    BY <1>2, NotepadAssumption DEF NotesInv, Typed, RequestTyped, Saves
  <1>4. th[t].id = i
    BY <1>1, <1>3 DEF ReplaceEnc, RestorePair, Revives
  <1>5. CASE ReplaceEnc(t)
    BY <1>2, <1>3, <1>4, <1>5 DEF ReplaceEnc, SavePlaced, Revives
  <1>6. CASE RestorePair(t)
    BY <1>2, <1>3, <1>4, <1>6 DEF RestorePair, SavePlaced, Revives
  <1> QED
    BY <1>1, <1>5, <1>6

LEMMA OnlySavesRevive ==
  ASSUME NotesInv, [Next]_vars, NEW i \in Ids, Revives(i)
  PROVE  \E t \in Threads : Save(t)
  <1>1. enc \in [Ids -> Ciphertexts \cup {None}]
    BY DEF NotesInv, Typed
  <1>2. ASSUME NEW t \in Threads, Removal(t)
        PROVE  FALSE
    <2>1. enc' = enc \/ \E id : enc' = [enc EXCEPT ![id] = None]
      BY <1>2 DEF Removal, DeleteCheck, UnlinkEnc, UnlinkMeta, DeleteFails, ClearLock, ClearEnd,
         ClearEntry, files
    <2> QED
      BY <1>1, <2>1 DEF Revives
  <1>3. ASSUME NEW t \in Threads, Read(t) \/ Refuse(t) \/ Answered(t)
        PROVE  FALSE
    BY <1>3 DEF Read, LoadBegin, LoadRead, LoadRecord, ListBegin, ListEnd, Refuse, Answered,
       files, Revives
  <1>4. ~Kill /\ ~UNCHANGED vars
    BY DEF Kill, vars, files, Revives
  <1> QED
    BY <1>2, <1>3, <1>4 DEF Next

(***************************************************************************)
(* A removed note comes back only through a save that may create it: the   *)
(* step that makes a ciphertext appear is the replacement of such a save.  *)
(***************************************************************************)
THEOREM NotepadUpdatesNeverRevive == Spec => UpdatesNeverRevive
  <1>1. NotesInv /\ [Next]_vars => NotesInv'
    BY StepKeeps
  <1>2. NotesInv /\ [Next]_vars =>
          [\A i \in Ids : enc[i] = None /\ enc'[i] # None =>
             \E t \in Threads : th[t].pc = "enc" /\ th[t].id = i /\ th[t].mayCreate]_vars
    BY SaveRevives, OnlySavesRevive DEF Revives
  <1> QED
    BY <1>1, <1>2, InitHolds, PTL DEF Spec, UpdatesNeverRevive
-----------------------------------------------------------------------------
(***************************************************************************)
(*                               SessionKeys                               *)
(***************************************************************************)

KeyEntries == [id : SessionIds, seen : Int]

\* A table read at a time up to `upto`, whose entries are at most `behind` older than any
\* entry before them.
Settled(tab, upto, behind) ==
  /\ tab \in Seq(KeyEntries)
  /\ \A i \in 1..Len(tab) : tab[i].seen <= upto
  /\ \A i, j \in 1..Len(tab) : i <= j => tab[i].seen <= tab[j].seen + behind

CallsPlaced ==
  /\ call = [c \in Clients |-> call[c]]
  /\ \A c \in Clients : call[c].kind \in {"derive", "get"} =>
       call[c].id \in SessionIds /\ call[c].time \in Int /\ call[c].time <= now

KeyInv == now \in Int /\ lag \in Nat /\ Settled(table, now, lag) /\ CallsPlaced

\* The time of an entry is a number.
LEMMA EntrySeen ==
  ASSUME NEW tab \in Seq(KeyEntries), NEW i \in 1..Len(tab)
  PROVE  tab[i].seen \in Int
<1>1. tab[i] \in KeyEntries
  OBVIOUS
<1> QED
  BY <1>1 DEF KeyEntries

\* A part of a settled table is settled.
LEMMA SettledPart ==
  ASSUME NEW upto \in Int, NEW behind \in Nat, NEW tab, Settled(tab, upto, behind),
         NEW m \in 1..(Len(tab) + 1), NEW n \in 0..Len(tab)
  PROVE  Settled(SubSeq(tab, m, n), upto, behind)
<1>1. tab \in Seq(KeyEntries)
  BY DEF Settled
<1>2. CASE m > n
  <2>1. SubSeq(tab, m, n) = << >>
    BY <1>1, <1>2
  <2> QED
    BY <2>1 DEF Settled
<1>3. CASE m <= n
  <2> DEFINE sub == SubSeq(tab, m, n)
  <2>1. sub \in Seq(KeyEntries) /\ Len(sub) = n - m + 1 /\ \A i \in 1..(n - m + 1) : sub[i] = tab[m + i - 1]
    BY <1>1, <1>3, SubSeqProperties
  <2> HIDE DEF sub
  <2>2. \A i \in 1..(n - m + 1) : m + i - 1 \in 1..Len(tab)
    BY <1>1, <1>3
  <2>3. \A i \in 1..(n - m + 1) : sub[i].seen <= upto
    BY <2>1, <2>2 DEF Settled
  <2>4. ASSUME NEW i \in 1..(n - m + 1), NEW j \in 1..(n - m + 1), i <= j
        PROVE  sub[i].seen <= sub[j].seen + behind
    <3>1. m + i - 1 <= m + j - 1
      BY <1>1, <2>4
    <3> QED
      BY <2>1, <2>2, <3>1 DEF Settled
  <2>5. Settled(sub, upto, behind)
    BY <2>1, <2>3, <2>4 DEF Settled
  <2> QED
    BY <2>5 DEF sub
<1> QED
  BY <1>1, <1>2, <1>3

\* _cleanup_expired stops at the first entry that is within the time to live.
LEMMA UnexpiredFrom ==
  ASSUME NEW tab \in Seq(KeyEntries), NEW at \in Int
  PROVE  \/ Unexpired(tab, at) = << >>
         \/ \E i \in 1..Len(tab) : tab[i].seen > at - Ttl /\ Unexpired(tab, at) = SubSeq(tab, i, Len(tab))
<1> DEFINE I == {i \in 1..Len(tab) : tab[i].seen > at - Ttl}
           first == IF I # {} THEN Min(I) ELSE 0
<1>1. Unexpired(tab, at) = IF first = 0 THEN << >> ELSE SubSeq(tab, first, Len(tab))
  BY DEF Unexpired, SelectInSeq
<1>2. CASE I # {}
  <2>1. I \in SUBSET Nat /\ \A i \in I : i \in 1..Len(tab) /\ tab[i].seen > at - Ttl
    OBVIOUS
  <2> HIDE DEF I
  <2>2. \E n \in I : \A m \in I : n <= m
    BY <1>2, <2>1, LeastNumber
  <2>3. Min(I) \in I
    BY <2>2 DEF Min
  <2> QED
    BY <1>1, <1>2, <2>1, <2>3
<1> QED
  BY <1>1, <1>2

\* Nothing that a cleanup leaves is older than the time to live and `behind`, although
\* only the entry it stopped at is known to be within the time to live.
LEMMA Cleaned ==
  ASSUME NEW upto \in Int, NEW behind \in Nat, NEW tab, Settled(tab, upto, behind), NEW at \in Int
  PROVE  /\ Settled(Cleanup(tab, at), upto, behind)
         /\ \A k \in 1..Len(Cleanup(tab, at)) : at - Cleanup(tab, at)[k].seen < Ttl + behind
<1>1. tab \in Seq(KeyEntries)
  BY DEF Settled
<1> DEFINE kept == Unexpired(tab, at)
           first == Larger(1, Len(kept) - MaxKeys + 1)
           left == SubSeq(kept, first, Len(kept))
<1>2. /\ Settled(kept, upto, behind)
      /\ \A k \in 1..Len(kept) : at - kept[k].seen < Ttl + behind
  <2>1. CASE kept = << >>
    BY <2>1 DEF Settled
  <2>2. CASE \E i \in 1..Len(tab) : tab[i].seen > at - Ttl /\ kept = SubSeq(tab, i, Len(tab))
    <3>1. PICK i \in 1..Len(tab) : tab[i].seen > at - Ttl /\ kept = SubSeq(tab, i, Len(tab))
      BY <2>2
    <3> HIDE DEF kept
    <3>2. i \in 1..(Len(tab) + 1) /\ Len(tab) \in 0..Len(tab) /\ i <= Len(tab)
      BY <1>1
    <3>3. Settled(kept, upto, behind)
      BY <3>1, <3>2, SettledPart
    <3>4. Len(kept) = Len(tab) - i + 1 /\ \A k \in 1..(Len(tab) - i + 1) : kept[k] = tab[i + k - 1]
      BY <1>1, <3>1, <3>2, SubSeqProperties
    <3>5. ASSUME NEW k \in 1..Len(kept) PROVE at - kept[k].seen < Ttl + behind
      <4>1. i + k - 1 \in 1..Len(tab) /\ i <= i + k - 1 /\ kept[k] = tab[i + k - 1]
        BY <1>1, <3>4, <3>5
      <4>2. tab[i] \in KeyEntries /\ tab[i + k - 1] \in KeyEntries
        BY <1>1, <4>1
      <4>3. tab[i].seen \in Int /\ kept[k].seen \in Int
        BY <4>1, <4>2 DEF KeyEntries
      <4>4. tab[i].seen <= kept[k].seen + behind
        BY <4>1 DEF Settled
      <4>5. tab[i].seen > at - Ttl
        BY <3>1
      <4> QED
        BY <4>3, <4>4, <4>5, KeysAssumption
    <3> QED
      BY <3>3, <3>5
  <2> QED
    BY <1>1, <2>1, <2>2, UnexpiredFrom
<1> HIDE DEF kept
<1>3. kept \in Seq(KeyEntries) /\ Len(kept) \in Nat
  BY <1>2 DEF Settled
<1>4. first \in 1..(Len(kept) + 1)
  BY <1>3, KeysAssumption DEF Larger
<1> HIDE DEF first
<1>5. Settled(left, upto, behind)
  BY <1>2, <1>3, <1>4, SettledPart
<1>6. ASSUME NEW k \in 1..Len(left) PROVE at - left[k].seen < Ttl + behind
  <2>1. CASE first <= Len(kept)
    <3>1. Len(left) = Len(kept) - first + 1 /\ \A j \in 1..(Len(kept) - first + 1) : left[j] = kept[first + j - 1]
      BY <1>3, <1>4, <2>1, SubSeqProperties
    <3>2. first + k - 1 \in 1..Len(kept) /\ left[k] = kept[first + k - 1]
      BY <1>3, <1>4, <1>6, <3>1
    <3> HIDE DEF left
    <3> QED
      BY <1>2, <3>2
  <2>2. CASE first > Len(kept)
    BY <1>3, <1>4, <1>6, <2>2
  <2> QED
    BY <1>3, <1>4, <2>1, <2>2
<1>7. Cleanup(tab, at) = left
  BY DEF Cleanup, kept, first
<1> QED
  BY <1>5, <1>6, <1>7

\* Two settled tables, the second no more than `behind` older than the first.
LEMMA SettledJoin ==
  ASSUME NEW upto \in Int, NEW behind \in Nat, NEW a, NEW b, Settled(a, upto, behind), Settled(b, upto, behind),
         \A i \in 1..Len(a), j \in 1..Len(b) : a[i].seen <= b[j].seen + behind
  PROVE  Settled(a \o b, upto, behind)
<1> DEFINE c == a \o b
<1>1. a \in Seq(KeyEntries) /\ b \in Seq(KeyEntries) /\ Len(a) \in Nat /\ Len(b) \in Nat
  BY DEF Settled
<1>2. /\ c \in Seq(KeyEntries) /\ Len(c) = Len(a) + Len(b)
      /\ \A i \in 1..(Len(a) + Len(b)) : c[i] = IF i <= Len(a) THEN a[i] ELSE b[i - Len(a)]
  BY <1>1, ConcatProperties
<1> HIDE DEF c
<1>3. \A i \in 1..(Len(a) + Len(b)) : \/ i \in 1..Len(a) /\ c[i] = a[i]
                                      \/ i - Len(a) \in 1..Len(b) /\ c[i] = b[i - Len(a)] /\ i > Len(a)
  BY <1>1, <1>2
<1>4. \A i \in 1..Len(c) : c[i].seen <= upto
  BY <1>2, <1>3 DEF Settled
<1>5. ASSUME NEW i \in 1..Len(c), NEW j \in 1..Len(c), i <= j PROVE c[i].seen <= c[j].seen + behind
  <2>1. CASE i \in 1..Len(a) /\ c[i] = a[i] /\ j \in 1..Len(a) /\ c[j] = a[j]
    BY <1>5, <2>1 DEF Settled
  <2>2. CASE i \in 1..Len(a) /\ c[i] = a[i] /\ j - Len(a) \in 1..Len(b) /\ c[j] = b[j - Len(a)]
    BY <2>2
  <2>3. CASE i - Len(a) \in 1..Len(b) /\ c[i] = b[i - Len(a)] /\ j - Len(a) \in 1..Len(b) /\ c[j] = b[j - Len(a)]
    <3>1. i - Len(a) <= j - Len(a)
      BY <1>1, <1>2, <1>5
    <3> QED
      BY <2>3, <3>1 DEF Settled
  <2> QED
    BY <1>1, <1>2, <1>3, <1>5, <2>1, <2>2, <2>3
<1>6. Settled(c, upto, behind)
  BY <1>2, <1>4, <1>5 DEF Settled
<1> QED
  BY <1>6 DEF c

\* Time passes and the lag grows.
LEMMA SettledLonger ==
  ASSUME NEW tab, NEW upto \in Int, NEW behind \in Nat, Settled(tab, upto, behind),
         NEW later \in Int, NEW longer \in Nat, upto <= later, behind <= longer
  PROVE  Settled(tab, later, longer)
<1>1. \A i \in 1..Len(tab) : tab[i].seen \in Int
  BY EntrySeen DEF Settled
<1>2. \A i \in 1..Len(tab) : tab[i].seen <= later
  BY <1>1 DEF Settled
<1>3. ASSUME NEW i \in 1..Len(tab), NEW j \in 1..Len(tab), i <= j
      PROVE  tab[i].seen <= tab[j].seen + longer
  <2>1. tab[i].seen <= tab[j].seen + behind /\ tab[i].seen \in Int /\ tab[j].seen \in Int
    BY <1>1, <1>3 DEF Settled
  <2> QED
    BY <2>1
<1> QED
  BY <1>2, <1>3 DEF Settled

\* The entry that is moved to the end, or removed.
LEMMA SettledWithout ==
  ASSUME NEW upto \in Int, NEW behind \in Nat, NEW tab, Settled(tab, upto, behind), NEW id \in Listed(tab)
  PROVE  Settled(Without(tab, id), upto, behind)
<1> DEFINE k == Place(tab, id)
           a == SubSeq(tab, 1, k - 1)
           b == SubSeq(tab, k + 1, Len(tab))
<1>1. tab \in Seq(KeyEntries) /\ Len(tab) \in Nat
  BY DEF Settled
<1>2. k \in 1..Len(tab)
  BY <1>1 DEF Place, Listed
<1>3. Without(tab, id) = a \o b
  BY DEF Without
<1> HIDE DEF k
<1>4. Settled(a, upto, behind) /\ Settled(b, upto, behind)
  <2>1. /\ 1 \in 1..(Len(tab) + 1) /\ k - 1 \in 0..Len(tab)
        /\ k + 1 \in 1..(Len(tab) + 1) /\ Len(tab) \in 0..Len(tab)
    BY <1>1, <1>2
  <2> QED
    BY <2>1, SettledPart
<1>5. ASSUME NEW i \in 1..Len(a), NEW j \in 1..Len(b) PROVE a[i].seen <= b[j].seen + behind
  <2>1. i \in 1..Len(tab) /\ i < k /\ a[i] = tab[i]
    <3>1. k > 1
      BY <1>1, <1>2, <1>5
    <3>2. Len(a) = k - 1 /\ \A m \in 1..(k - 1) : a[m] = tab[m]
      <4>1. Len(a) = (k - 1) - 1 + 1 /\ \A m \in 1..((k - 1) - 1 + 1) : a[m] = tab[1 + m - 1]
        BY <1>1, <1>2, <3>1, SubSeqProperties
      <4> HIDE DEF a
      <4> QED
        BY <1>2, <3>1, <4>1
    <3> HIDE DEF a
    <3> QED
      BY <1>2, <1>5, <3>2
  <2>2. k + j \in 1..Len(tab) /\ b[j] = tab[k + j]
    <3>1. k < Len(tab)
      BY <1>1, <1>2, <1>5
    <3>2. Len(b) = Len(tab) - k /\ \A m \in 1..(Len(tab) - k) : b[m] = tab[k + m]
      <4>1. Len(b) = Len(tab) - (k + 1) + 1 /\ \A m \in 1..(Len(tab) - (k + 1) + 1) : b[m] = tab[(k + 1) + m - 1]
        BY <1>1, <1>2, <3>1, SubSeqProperties
      <4> HIDE DEF b
      <4> QED
        BY <1>1, <1>2, <3>1, <4>1
    <3> HIDE DEF b
    <3> QED
      BY <1>1, <1>2, <1>5, <3>2
  <2>3. i <= k + j
    BY <2>1, <2>2, <1>5, <1>2
  <2> QED
    BY <2>1, <2>2, <2>3 DEF Settled
<1> HIDE DEF a, b
<1> QED
  BY <1>3, <1>4, <1>5, SettledJoin

\* The entry that is put at the end, by a call that is at most `behind` late.
LEMMA SettledAppend ==
  ASSUME NEW upto \in Int, NEW behind \in Nat, NEW tab, Settled(tab, upto, behind),
         NEW id \in SessionIds, NEW at \in Int, at <= upto, upto - at <= behind
  PROVE  Settled(Append(tab, [id |-> id, seen |-> at]), upto, behind)
<1> DEFINE e == [id |-> id, seen |-> at]
<1>1. e \in KeyEntries /\ e.seen = at
  BY DEF KeyEntries
<1> HIDE DEF e
<1>2. tab \in Seq(KeyEntries) /\ Append(tab, e) = tab \o <<e>>
  BY <1>1 DEF Settled
<1>3. Settled(<<e>>, upto, behind)
  BY <1>1 DEF Settled
<1>4. ASSUME NEW i \in 1..Len(tab), NEW j \in 1..Len(<<e>>) PROVE tab[i].seen <= <<e>>[j].seen + behind
  <2>1. tab[i].seen \in Int /\ tab[i].seen <= upto
    BY <1>2, EntrySeen DEF Settled
  <2>2. <<e>>[j] = e
    OBVIOUS
  <2> QED
    BY <1>1, <2>1, <2>2
<1>5. Settled(tab \o <<e>>, upto, behind)
  BY <1>3, <1>4, SettledJoin
<1> QED
  BY <1>2, <1>5 DEF e

\* A call changes only the entry of its thread.
LEMMA CallsStep ==
  ASSUME CallsPlaced, now \in Int, now' = now, NEW c \in Clients, NEW new, call' = [call EXCEPT ![c] = new],
         new.kind \in {"derive", "get"} => new.id \in SessionIds /\ new.time \in Int /\ new.time <= now
  PROVE  CallsPlaced'
<1>1. call' = [d \in Clients |-> call'[d]]
  BY DEF CallsPlaced
<1>2. ASSUME NEW d \in Clients, call'[d].kind \in {"derive", "get"}
      PROVE  call'[d].id \in SessionIds /\ call'[d].time \in Int /\ call'[d].time <= now
  <2>1. CASE d = c
    <3>1. call'[d] = new
      BY <2>1 DEF CallsPlaced
    <3> QED
      BY <1>2, <3>1
  <2>2. CASE d # c
    <3>1. call'[d] = call[d]
      BY <2>2 DEF CallsPlaced
    <3> QED
      BY <1>2, <3>1 DEF CallsPlaced
  <2> QED
    BY <2>1, <2>2
<1> QED
  BY <1>1, <1>2 DEF CallsPlaced

\* A call that comes to the lock is not longer on its way than the lag.
LEMMA LockReached ==
  ASSUME KeyInv, NEW c \in Clients, NEW kind \in {"derive", "get"}, Locked(c, kind), now' = now
  PROVE  /\ call[c].id \in SessionIds /\ call[c].time \in Int /\ call[c].time <= now
         /\ lag' \in Nat /\ lag <= lag' /\ now - call[c].time <= lag'
         /\ CallsPlaced' /\ Settled(table, now, lag')
<1>1. call[c].id \in SessionIds /\ call[c].time \in Int /\ call[c].time <= now
  BY DEF KeyInv, CallsPlaced, Locked
<1>2. now \in Int /\ lag \in Nat /\ lag' = Larger(lag, now - call[c].time)
  BY DEF KeyInv, Locked
<1>3. lag' \in Nat /\ lag <= lag' /\ now - call[c].time <= lag'
  BY <1>1, <1>2 DEF Larger
<1>4. CallsPlaced'
  <2>1. call' = [call EXCEPT ![c] = NoCall] /\ NoCall.kind \notin {"derive", "get"}
    BY DEF Locked, NoCall
  <2> HIDE DEF NoCall
  <2> QED
    BY <2>1, CallsStep DEF KeyInv
<1>5. Settled(table, now, lag')
  BY <1>2, <1>3, SettledLonger DEF KeyInv
<1> QED
  BY <1>1, <1>3, <1>4, <1>5

\* Every step leaves the table settled and serves no key that is too old.
LEMMA KeyStep ==
  ASSUME KeyInv, ServedWithinLag, [KeyNext]_keyVars
  PROVE  KeyInv' /\ ServedWithinLag'
<1>0. now \in Int /\ lag \in Nat /\ Settled(table, now, lag) /\ CallsPlaced
  BY DEF KeyInv
<1>1. ASSUME NEW c \in Clients, ExchangeRefused(c) \/ Refused(c) PROVE KeyInv' /\ ServedWithinLag'
  <2>1. PICK new : call' = [call EXCEPT ![c] = new] /\ new.kind \notin {"derive", "get"}
    <3>1. CASE ExchangeRefused(c)
      <4>1. PICK status : call' = [call EXCEPT ![c] = [kind |-> "refused", status |-> status]]
        BY <3>1 DEF ExchangeRefused
      <4> DEFINE new == [kind |-> "refused", status |-> status]
      <4>2. new.kind \notin {"derive", "get"}
        OBVIOUS
      <4> HIDE DEF new
      <4> QED
        BY <4>1, <4>2 DEF new
    <3>2. CASE Refused(c)
      <4>1. call' = [call EXCEPT ![c] = NoCall] /\ NoCall.kind \notin {"derive", "get"}
        BY <3>2 DEF Refused, NoCall
      <4> QED
        BY <4>1
    <3> QED
      BY <1>1, <3>1, <3>2
  <2>2. served' = NoKey /\ UNCHANGED <<now, table, lag>>
    BY <1>1 DEF ExchangeRefused, Refused
  <2>3. CallsPlaced'
    BY <1>0, <2>1, <2>2, CallsStep
  <2> QED
    BY <1>0, <2>2, <2>3 DEF KeyInv, ServedWithinLag
<1>2. ASSUME NEW c \in Clients, NEW id \in SessionIds, Begin(c, "derive", id) \/ Begin(c, "get", id)
      PROVE  KeyInv' /\ ServedWithinLag'
  <2>1. PICK kind \in {"derive", "get"} : call' = [call EXCEPT ![c] = [kind |-> kind, id |-> id, time |-> now]]
    BY <1>2 DEF Begin
  <2>2. served' = NoKey /\ UNCHANGED <<now, table, lag>>
    BY <1>2 DEF Begin
  <2>3. CallsPlaced'
    <3> DEFINE new == [kind |-> kind, id |-> id, time |-> now]
    <3>1. new.id \in SessionIds /\ new.time \in Int /\ new.time <= now
      BY <1>0
    <3> HIDE DEF new
    <3>2. call' = [call EXCEPT ![c] = new]
      BY <2>1 DEF new
    <3> QED
      BY <1>0, <2>2, <3>1, <3>2, CallsStep
  <2> QED
    BY <1>0, <2>2, <2>3 DEF KeyInv, ServedWithinLag
<1>3. ASSUME NEW c \in Clients, DeriveSession(c) PROVE KeyInv' /\ ServedWithinLag'
  <2> DEFINE once == Cleanup(table, call[c].time)
             new == Append(once, [id |-> call[c].id, seen |-> call[c].time])
  <2>1. /\ Locked(c, "derive") /\ table' = Cleanup(new, call[c].time) /\ served' = NoKey /\ now' = now
    BY <1>3 DEF DeriveSession
  <2>2. /\ call[c].id \in SessionIds /\ call[c].time \in Int /\ call[c].time <= now
        /\ lag' \in Nat /\ now - call[c].time <= lag' /\ CallsPlaced' /\ Settled(table, now, lag')
    BY <2>1, LockReached
  <2>3. Settled(once, now, lag')
    BY <1>0, <2>2, Cleaned
  <2> HIDE DEF once
  <2>4. Settled(new, now, lag')
    BY <1>0, <2>2, <2>3, SettledAppend
  <2> HIDE DEF new
  <2>5. Settled(table', now, lag')
    BY <1>0, <2>1, <2>2, <2>4, Cleaned
  <2> QED
    BY <1>0, <2>1, <2>2, <2>5 DEF KeyInv, ServedWithinLag
<1>4. ASSUME NEW c \in Clients, GetSessionKey(c) PROVE KeyInv' /\ ServedWithinLag'
  <2> DEFINE at == call[c].time
             id == call[c].id
             tab == Cleanup(table, at)
  <2>1. Locked(c, "get") /\ now' = now
    BY <1>4 DEF GetSessionKey
  <2>2. /\ id \in SessionIds /\ at \in Int /\ at <= now
        /\ lag' \in Nat /\ now - at <= lag' /\ CallsPlaced' /\ Settled(table, now, lag')
    BY <2>1, LockReached
  <2>3. /\ Settled(tab, now, lag')
        /\ \A k \in 1..Len(tab) : at - tab[k].seen < Ttl + lag'
    BY <1>0, <2>2, Cleaned
  <2>4. \/ /\ id \in Listed(tab) /\ served' = at - Entry(tab, id).seen
           /\ table' = Append(Without(tab, id), [id |-> id, seen |-> at])
        \/ table' = tab /\ served' = NoKey
    BY <1>4 DEF GetSessionKey, CleanFor
  <2> HIDE DEF tab, at, id
  <2>5. CASE table' = tab /\ served' = NoKey
    BY <1>0, <2>1, <2>2, <2>3, <2>5 DEF KeyInv, ServedWithinLag
  <2>6. CASE /\ id \in Listed(tab) /\ served' = at - Entry(tab, id).seen
             /\ table' = Append(Without(tab, id), [id |-> id, seen |-> at])
    <3>1. Settled(Without(tab, id), now, lag')
      BY <1>0, <2>2, <2>3, <2>6, SettledWithout
    <3>2. Settled(table', now, lag')
      BY <1>0, <2>2, <2>6, <3>1, SettledAppend
    <3>3. Place(tab, id) \in 1..Len(tab)
      <4>1. tab \in Seq(KeyEntries)
        BY <2>3 DEF Settled
      <4> QED
        BY <2>6, <4>1 DEF Place, Listed
    <3>4. served' < Ttl + lag'
      BY <2>3, <2>6, <3>3 DEF Entry
    <3> QED
      BY <1>0, <2>1, <2>2, <3>2, <3>4 DEF KeyInv, ServedWithinLag
  <2> QED
    BY <2>4, <2>5, <2>6
<1>5. ASSUME NEW id \in SessionIds, RemoveSession(id) PROVE KeyInv' /\ ServedWithinLag'
  <2>1. Settled(Without(table, id), now, lag)
    BY <1>0, <1>5, SettledWithout DEF RemoveSession
  <2> QED
    BY <1>0, <1>5, <2>1 DEF RemoveSession, KeyInv, ServedWithinLag, CallsPlaced
<1>6. ASSUME CountSessions PROVE KeyInv' /\ ServedWithinLag'
  <2>1. Settled(Cleanup(table, now), now, lag)
    BY <1>0, Cleaned
  <2> QED
    BY <1>0, <1>6, <2>1 DEF CountSessions, KeyInv, ServedWithinLag, CallsPlaced
<1>7. ASSUME KeyTick PROVE KeyInv' /\ ServedWithinLag'
  <2>1. now' = now + 1 /\ served' = NoKey /\ UNCHANGED <<table, call, lag>>
    BY <1>7 DEF KeyTick
  <2>2. Settled(table, now + 1, lag)
    BY <1>0, SettledLonger
  <2>3. CallsPlaced'
    BY <1>0, <2>1 DEF CallsPlaced
  <2> QED
    BY <1>0, <2>1, <2>2, <2>3 DEF KeyInv, ServedWithinLag
<1>8. CASE UNCHANGED keyVars
  BY <1>0, <1>8 DEF keyVars, KeyInv, ServedWithinLag, CallsPlaced
<1> QED
  BY <1>1, <1>2, <1>3, <1>4, <1>5, <1>6, <1>7, <1>8 DEF KeyNext

(***************************************************************************)
(* No session key is served that was last used longer ago than its time to *)
(* live and the longest delay of a call between reading the clock and      *)
(* holding the lock, although the table is in order of arrival at the lock *)
(* and its cleanup stops at the first entry that has not expired.          *)
(***************************************************************************)
THEOREM KeysServedWithinLag == KeySpec => []ServedWithinLag
<1>1. KeyInit => KeyInv /\ ServedWithinLag
  BY DEF KeyInit, KeyInv, ServedWithinLag, Settled, CallsPlaced, NoCall
<1> QED
  BY <1>1, KeyStep, PTL DEF KeySpec
-----------------------------------------------------------------------------
(***************************************************************************)
(*                                TlsManager                               *)
(***************************************************************************)

ServerFields == {"pc", "renewing", "ctx", "active", "stop", "failures", "notBefore", "seen", "got"}

TlsTyped ==
  /\ time \in Nat /\ issued \in Nat
  /\ retry.failures \in Nat /\ retry.next \in Int
  /\ srv = [s \in Servers |-> srv[s]] /\ promised = [s \in Servers |-> promised[s]]
  /\ \A s \in Servers :
       /\ DOMAIN srv[s] = ServerFields /\ srv[s].stop \in BOOLEAN /\ srv[s].renewing \in BOOLEAN
       /\ srv[s].failures \in Nat /\ srv[s].notBefore \in Int

\* What a server at its step knows of the cache: it orders under the lock, and a renewal
\* that orders replaces the very certificate it read.
OrdersUnderLock(s) ==
  /\ srv[s].pc \in {"order", "publish"} => cacheLock = s
  /\ srv[s].renewing \/ srv[s].pc = "adopt" => cert # NoCert
  /\ srv[s].pc = "publish" => srv[s].got # NoCert
  /\ srv[s].renewing /\ srv[s].pc = "order" => cert = srv[s].seen

\* Only a server with a context is stopped; one that is starting has none.
StopsWithContext(s) ==
  /\ srv[s].stop => srv[s].ctx # NoCert
  /\ srv[s].pc = "down" => srv[s].ctx = NoCert
  /\ srv[s].pc \in {"lock", "order", "publish"} /\ ~srv[s].renewing => srv[s].ctx = NoCert

PromiseOnRecord(s) == promised[s] = 0 \/ promised[s] = retry.next

Standing(s) == OrdersUnderLock(s) /\ StopsWithContext(s) /\ PromiseOnRecord(s)

TlsInv == TlsTyped /\ \A s \in Servers : Standing(s)

\* What a step of s leaves to the other servers.
LeavesOthers(s) ==
  /\ \A r \in Servers \ {s} : srv'[r] = srv[r] /\ (cacheLock = r => cacheLock' = r)
  /\ cert' = cert \/ (cert' # NoCert /\ cacheLock = s)
  /\ \A r \in Servers \ {s} : promised'[r] = 0 \/ (promised'[r] = promised[r] /\ retry' = retry)

HeedsStop(s) ==
  srv[s].stop /\ srv'[s].stop => srv'[s].ctx = srv[s].ctx /\ (srv'[s].pc # srv[s].pc => UNCHANGED cert)
HeedsDeadline(s) == srv[s].pc # "lock" /\ srv'[s].pc = "lock" => time >= promised[s]

LawfulStep(s) == TlsTyped' /\ Standing(s)' /\ LeavesOthers(s) /\ HeedsStop(s) /\ HeedsDeadline(s)
HeededByAll == \A s \in Servers : HeedsStop(s) /\ HeedsDeadline(s)

\* A lawful step of one server keeps the invariant for all.
LEMMA LawfulKeeps ==
  ASSUME TlsInv, NEW s \in Servers, LawfulStep(s)
  PROVE  TlsInv' /\ HeededByAll
<1>1. ASSUME NEW r \in Servers \ {s} PROVE Standing(r)' /\ HeedsStop(r) /\ HeedsDeadline(r)
  <2>1. srv'[r] = srv[r] /\ (cacheLock = r => cacheLock' = r) /\ Standing(r)
    BY DEF LawfulStep, LeavesOthers, TlsInv
  <2>2. OrdersUnderLock(r)'
    BY <2>1 DEF LawfulStep, LeavesOthers, Standing, OrdersUnderLock
  <2>3. StopsWithContext(r)'
    BY <2>1 DEF Standing, StopsWithContext
  <2>4. PromiseOnRecord(r)'
    BY <2>1 DEF LawfulStep, LeavesOthers, Standing, PromiseOnRecord
  <2> QED
    BY <2>1, <2>2, <2>3, <2>4 DEF Standing, HeedsStop, HeedsDeadline
<1> QED
  BY <1>1 DEF LawfulStep, TlsInv, HeededByAll

\* What a server is after some of its fields were assigned.
LEMMA Assigned ==
  ASSUME TlsTyped, NEW s \in Servers, NEW fields, Assign(s, fields)
  PROVE  /\ srv' = [r \in Servers |-> srv'[r]] /\ \A r \in Servers \ {s} : srv'[r] = srv[r]
         /\ DOMAIN srv'[s] = ServerFields
         /\ srv'[s].pc = IF "pc" \in DOMAIN fields THEN fields["pc"] ELSE srv[s].pc
         /\ srv'[s].renewing = IF "renewing" \in DOMAIN fields THEN fields["renewing"] ELSE srv[s].renewing
         /\ srv'[s].ctx = IF "ctx" \in DOMAIN fields THEN fields["ctx"] ELSE srv[s].ctx
         /\ srv'[s].stop = IF "stop" \in DOMAIN fields THEN fields["stop"] ELSE srv[s].stop
         /\ srv'[s].failures = IF "failures" \in DOMAIN fields THEN fields["failures"] ELSE srv[s].failures
         /\ srv'[s].notBefore = IF "notBefore" \in DOMAIN fields THEN fields["notBefore"] ELSE srv[s].notBefore
         /\ srv'[s].seen = IF "seen" \in DOMAIN fields THEN fields["seen"] ELSE srv[s].seen
         /\ srv'[s].got = IF "got" \in DOMAIN fields THEN fields["got"] ELSE srv[s].got
<1>1. srv'[s] = Overlay(fields, srv[s]) /\ DOMAIN srv[s] = ServerFields
      /\ srv' = [r \in Servers |-> srv'[r]] /\ \A r \in Servers \ {s} : srv'[r] = srv[r]
  BY DEF TlsTyped, Assign
<1>2. DOMAIN Overlay(fields, srv[s]) = ServerFields
      /\ \A x \in ServerFields : Overlay(fields, srv[s])[x] = IF x \in DOMAIN fields THEN fields[x] ELSE srv[s][x]
  BY <1>1 DEF Overlay
<1> QED
  BY <1>1, <1>2 DEF ServerFields

\* The delay after a failure is a number.
LEMMA DelayTyped ==
  ASSUME NEW failures \in 1..7, NEW asked \in {0, RetryAfter}
  PROVE  Greater(Delay(failures), asked) \in Int
<1>1. 2^(failures - 1) \in Int
  OBVIOUS
<1>2. BaseDelay * 2^(failures - 1) \in Int
  BY <1>1, TlsAssumption
<1> QED
  BY <1>2, TlsAssumption DEF Greater, Smaller, Delay

\* A failure keeps context and stop; a deadline that it persists is the one it promises.
LEMMA Fails ==
  ASSUME TlsInv, NEW s \in Servers, NEW step \in {"up", "down"}, NEW asked \in {0, RetryAfter},
         Failure(s, step, asked)
  PROVE  /\ srv' = [r \in Servers |-> srv'[r]] /\ \A r \in Servers \ {s} : srv'[r] = srv[r]
         /\ DOMAIN srv'[s] = ServerFields
         /\ srv'[s].pc = step /\ srv'[s].renewing = FALSE
         /\ srv'[s].ctx = srv[s].ctx /\ srv'[s].stop = srv[s].stop
         /\ srv'[s].failures \in Nat /\ srv'[s].notBefore \in Int
         /\ retry'.failures \in Nat /\ retry'.next \in Int
         /\ promised' = [r \in Servers |-> promised'[r]]
         /\ PromiseOnRecord(s)'
         /\ \A r \in Servers \ {s} : promised'[r] = 0 \/ (promised'[r] = promised[r] /\ retry' = retry)
<1> DEFINE failures == Smaller(7, Greater(srv[s].failures, retry.failures) + 1)
           next == time + Greater(Delay(failures), asked)
           fields == [pc |-> step, renewing |-> FALSE, seen |-> NoCert, got |-> NoCert,
                      failures |-> IF step = "down" THEN 0 ELSE failures,
                      notBefore |-> IF step = "down" THEN 0 ELSE next]
<1>1. TlsTyped
  BY DEF TlsInv
<1>2. failures \in 1..7
  BY <1>1 DEF TlsTyped, Smaller, Greater
<1> HIDE DEF failures
<1>3. next \in Int
  BY <1>1, <1>2, DelayTyped DEF TlsTyped
<1>4. /\ Assign(s, fields)
      /\ \/ /\ retry' = [failures |-> failures, next |-> next]
            /\ promised' = [r \in Servers |-> IF r = s THEN next ELSE 0]
         \/ retry' = retry /\ promised' = [promised EXCEPT ![s] = 0]
  BY DEF Failure, failures
<1> HIDE DEF next
<1>5. /\ DOMAIN fields = {"pc", "renewing", "seen", "got", "failures", "notBefore"}
      /\ fields["pc"] = step /\ fields["renewing"] = FALSE
      /\ fields["failures"] = IF step = "down" THEN 0 ELSE failures
      /\ fields["notBefore"] = IF step = "down" THEN 0 ELSE next
  OBVIOUS
<1> HIDE DEF fields
<1>6. /\ srv' = [r \in Servers |-> srv'[r]] /\ \A r \in Servers \ {s} : srv'[r] = srv[r]
      /\ DOMAIN srv'[s] = ServerFields
      /\ srv'[s].pc = step /\ srv'[s].renewing = FALSE
      /\ srv'[s].ctx = srv[s].ctx /\ srv'[s].stop = srv[s].stop
      /\ srv'[s].failures = IF step = "down" THEN 0 ELSE failures
      /\ srv'[s].notBefore = IF step = "down" THEN 0 ELSE next
  BY <1>1, <1>4, <1>5, Assigned
<1>7. /\ retry'.failures \in Nat /\ retry'.next \in Int
      /\ promised' = [r \in Servers |-> promised'[r]]
      /\ promised'[s] = 0 \/ promised'[s] = retry'.next
      /\ \A r \in Servers \ {s} : promised'[r] = 0 \/ (promised'[r] = promised[r] /\ retry' = retry)
  BY <1>1, <1>2, <1>3, <1>4 DEF TlsTyped
<1> QED
  BY <1>2, <1>3, <1>6, <1>7 DEF PromiseOnRecord

\* What remains to be shown of a step that assigns fields of s and leaves the retry file
\* alone or clears it.
LEMMA LawfulAssignment ==
  ASSUME TlsInv, NEW s \in Servers, NEW fields, Assign(s, fields),
         "renewing" \in DOMAIN fields => fields["renewing"] \in BOOLEAN,
         "stop" \in DOMAIN fields => fields["stop"] = TRUE,
         "failures" \in DOMAIN fields => fields["failures"] = 0 /\ fields["notBefore"] = 0,
         "notBefore" \in DOMAIN fields => "failures" \in DOMAIN fields,
         time' = time, issued' \in Nat,
         ClearRetry(s) \/ UNCHANGED <<retry, promised>>,
         cert' = cert \/ (cert' # NoCert /\ cacheLock = s),
         \A r \in Servers \ {s} : cacheLock = r => cacheLock' = r,
         OrdersUnderLock(s)', StopsWithContext(s)', HeedsStop(s), HeedsDeadline(s)
  PROVE  LawfulStep(s)
<1>1. TlsTyped /\ PromiseOnRecord(s)
  BY DEF TlsInv, Standing
<1>2. /\ retry'.failures \in Nat /\ retry'.next \in Int
      /\ promised' = [r \in Servers |-> promised'[r]]
      /\ PromiseOnRecord(s)'
      /\ \A r \in Servers \ {s} : promised'[r] = 0 \/ (promised'[r] = promised[r] /\ retry' = retry)
  BY <1>1 DEF TlsTyped, ClearRetry, NoRetry, PromiseOnRecord
<1>3. /\ srv' = [r \in Servers |-> srv'[r]] /\ \A r \in Servers \ {s} : srv'[r] = srv[r]
      /\ DOMAIN srv'[s] = ServerFields
  BY <1>1, Assigned
<1>5. /\ srv[s].renewing \in BOOLEAN /\ srv[s].stop \in BOOLEAN
      /\ srv[s].failures \in Nat /\ srv[s].notBefore \in Int
  BY <1>1 DEF TlsTyped
<1>6. srv'[s].renewing \in BOOLEAN
  BY <1>1, <1>5, Assigned
<1>7. srv'[s].stop \in BOOLEAN
  BY <1>1, <1>5, Assigned
<1>8. srv'[s].failures \in Nat
  BY <1>1, <1>5, Assigned
<1>9. srv'[s].notBefore \in Int
  BY <1>1, <1>5, Assigned
<1>4. TlsTyped'
  BY <1>1, <1>2, <1>3, <1>6, <1>7, <1>8, <1>9 DEF TlsTyped
<1> QED
  BY <1>2, <1>3, <1>4 DEF LawfulStep, LeavesOthers, Standing

\* The same for a step that fails.
LEMMA LawfulFailure ==
  ASSUME TlsInv, NEW s \in Servers, NEW step \in {"up", "down"}, NEW asked \in {0, RetryAfter},
         Failure(s, step, asked), time' = time, issued' = issued, cert' = cert,
         \A r \in Servers \ {s} : cacheLock = r => cacheLock' = r,
         step = "down" => srv[s].ctx = NoCert
  PROVE  LawfulStep(s)
<1>1. TlsTyped /\ StopsWithContext(s)
  BY DEF TlsInv, Standing
<1>2. TlsTyped'
  BY <1>1, Fails DEF TlsTyped
<1>3. OrdersUnderLock(s)' /\ StopsWithContext(s)'
  BY <1>1, Fails DEF OrdersUnderLock, StopsWithContext
<1>4. LeavesOthers(s) /\ HeedsStop(s) /\ HeedsDeadline(s)
  BY Fails DEF LeavesOthers, HeedsStop, HeedsDeadline
<1> QED
  BY <1>2, <1>3, <1>4, Fails DEF LawfulStep, Standing

\* A server that does not defer is past the deadline it promised.
LEMMA DeadlineKept ==
  ASSUME TlsInv, NEW s \in Servers, ~Deferred(s)
  PROVE  time >= promised[s]
<1>1. /\ time \in Nat /\ retry.next \in Int /\ srv[s].notBefore \in Int
      /\ promised[s] = 0 \/ promised[s] = retry.next
  BY DEF TlsInv, TlsTyped, Standing, PromiseOnRecord
<1>2. retry.next <= time
  BY <1>1 DEF Deferred, Greater
<1> QED
  BY <1>1, <1>2

\* The ways a server starts.
LEMMA StartsLawfully ==
  ASSUME TlsInv, NEW s \in Servers, StartFromCache(s) \/ StartBroken(s) \/ StartObtain(s) \/ StartRetains(s)
  PROVE  LawfulStep(s)
<1>1. TlsTyped /\ OrdersUnderLock(s) /\ StopsWithContext(s)
  BY DEF TlsInv, Standing
<1>2. CASE StartFromCache(s) \/ StartRetains(s)
  <2> DEFINE fields == Serve(s, cert)
  <2>1. /\ Assign(s, fields) /\ UNCHANGED <<time, disk, cacheLock, issued, promised>>
        /\ srv[s].ctx = NoCert /\ srv[s].pc \in {"down", "up"}
    BY <1>1, <1>2 DEF StartFromCache, StartRetains, StopsWithContext
  <2>2. cert # NoCert
    BY <1>2 DEF StartFromCache, StartRetains, CacheUsable, PairValid
  <2>3. /\ DOMAIN fields = {"pc", "renewing", "ctx", "active", "seen", "got"}
        /\ fields["pc"] = "up" /\ fields["renewing"] = FALSE /\ fields["ctx"] = cert
    BY DEF Serve
  <2> HIDE DEF fields
  <2>4. srv'[s].pc = "up" /\ srv'[s].renewing = FALSE /\ srv'[s].ctx = cert /\ srv'[s].stop = srv[s].stop
    BY <1>1, <2>1, <2>3, Assigned
  <2>5. OrdersUnderLock(s)' /\ StopsWithContext(s)' /\ HeedsStop(s) /\ HeedsDeadline(s)
    BY <1>1, <2>1, <2>2, <2>4 DEF OrdersUnderLock, StopsWithContext, HeedsStop, HeedsDeadline, disk
  <2> QED
    BY <1>1, <2>1, <2>3, <2>5, LawfulAssignment DEF disk, TlsTyped
<1>3. CASE StartBroken(s)
  BY <1>1, <1>3, LawfulFailure DEF StartBroken, StopsWithContext
<1>4. CASE StartObtain(s)
  <2> DEFINE fields == [pc |-> "lock"]
  <2>1. /\ Assign(s, fields) /\ UNCHANGED <<time, disk, cacheLock, issued, promised>>
        /\ srv[s].pc = "down" /\ ~Deferred(s)
    BY <1>4 DEF StartObtain
  <2>2. DOMAIN fields = {"pc"} /\ fields["pc"] = "lock"
    OBVIOUS
  <2> HIDE DEF fields
  <2>3. /\ srv'[s].pc = "lock" /\ srv'[s].renewing = srv[s].renewing
        /\ srv'[s].ctx = srv[s].ctx /\ srv'[s].stop = srv[s].stop
    BY <1>1, <2>1, <2>2, Assigned
  <2>4. OrdersUnderLock(s)' /\ StopsWithContext(s)' /\ HeedsStop(s) /\ HeedsDeadline(s)
    BY <1>1, <2>1, <2>3, DeadlineKept DEF OrdersUnderLock, StopsWithContext, HeedsStop, HeedsDeadline, disk
  <2> QED
    BY <1>1, <2>1, <2>2, <2>4, LawfulAssignment DEF disk, TlsTyped
<1> QED
  BY <1>2, <1>3, <1>4

\* Adoption of a certificate that another server published.
LEMMA AdoptsLawfully ==
  ASSUME TlsInv, NEW s \in Servers, AdoptRead(s) \/ AdoptLoad(s) \/ AdoptFails(s)
  PROVE  LawfulStep(s)
<1>1. TlsTyped /\ OrdersUnderLock(s) /\ StopsWithContext(s)
  BY DEF TlsInv, Standing
<1>2. CASE AdoptRead(s)
  <2> DEFINE fields == [pc |-> "adopt", seen |-> cert]
  <2>1. /\ Assign(s, fields) /\ UNCHANGED <<time, disk, cacheLock, issued, starts, promised>>
        /\ ~srv[s].stop /\ cert # NoCert
    BY <1>2 DEF AdoptRead
  <2>2. DOMAIN fields = {"pc", "seen"} /\ fields["pc"] = "adopt"
    OBVIOUS
  <2> HIDE DEF fields
  <2>3. srv'[s].pc = "adopt" /\ srv'[s].renewing = srv[s].renewing /\ srv'[s].stop = srv[s].stop
    BY <1>1, <2>1, <2>2, Assigned
  <2>4. OrdersUnderLock(s)' /\ StopsWithContext(s)' /\ HeedsStop(s) /\ HeedsDeadline(s)
    BY <1>1, <2>1, <2>3 DEF OrdersUnderLock, StopsWithContext, HeedsStop, HeedsDeadline, disk
  <2> QED
    BY <1>1, <2>1, <2>2, <2>4, LawfulAssignment DEF disk, TlsTyped
<1>3. CASE AdoptLoad(s) /\ srv[s].stop
  <2>1. /\ Assign(s, Ended) /\ UNCHANGED <<retry, promised>>
        /\ UNCHANGED <<time, cert, key, schedule, cacheLock, issued, starts>>
    BY <1>3 DEF AdoptLoad
  <2>2. /\ DOMAIN Ended = {"pc", "renewing", "seen", "got", "failures", "notBefore"}
        /\ Ended["pc"] = "ended" /\ Ended["renewing"] = FALSE /\ Ended["failures"] = 0 /\ Ended["notBefore"] = 0
    BY DEF Ended
  <2>3. /\ srv'[s].pc = "ended" /\ srv'[s].renewing = FALSE
        /\ srv'[s].ctx = srv[s].ctx /\ srv'[s].stop = srv[s].stop
    BY <1>1, <2>1, <2>2, Assigned
  <2>4. OrdersUnderLock(s)' /\ StopsWithContext(s)' /\ HeedsStop(s) /\ HeedsDeadline(s)
    BY <1>1, <2>1, <2>3 DEF OrdersUnderLock, StopsWithContext, HeedsStop, HeedsDeadline
  <2> QED
    BY <1>1, <2>1, <2>2, <2>4, LawfulAssignment DEF TlsTyped
<1>4. CASE AdoptLoad(s) /\ ~srv[s].stop
  <2> DEFINE fields == [pc |-> "up", ctx |-> cert, active |-> srv[s].seen, seen |-> NoCert,
                        failures |-> 0, notBefore |-> 0]
  <2>1. /\ Assign(s, fields) /\ ClearRetry(s) /\ srv[s].pc = "adopt"
        /\ UNCHANGED <<time, cert, key, schedule, cacheLock, issued, starts>>
    BY <1>4 DEF AdoptLoad
  <2>2. /\ DOMAIN fields = {"pc", "ctx", "active", "seen", "failures", "notBefore"}
        /\ fields["pc"] = "up" /\ fields["ctx"] = cert /\ fields["failures"] = 0 /\ fields["notBefore"] = 0
    OBVIOUS
  <2> HIDE DEF fields
  <2>3. /\ srv'[s].pc = "up" /\ srv'[s].renewing = srv[s].renewing /\ srv'[s].ctx = cert
        /\ srv'[s].stop = srv[s].stop
    BY <1>1, <2>1, <2>2, Assigned
  <2>4. OrdersUnderLock(s)' /\ StopsWithContext(s)' /\ HeedsStop(s) /\ HeedsDeadline(s)
    BY <1>1, <1>4, <2>1, <2>3 DEF OrdersUnderLock, StopsWithContext, HeedsStop, HeedsDeadline
  <2> QED
    BY <1>1, <2>1, <2>2, <2>4, LawfulAssignment DEF TlsTyped
<1>5. CASE AdoptFails(s)
  BY <1>1, <1>5, LawfulFailure DEF AdoptFails
<1> QED
  BY <1>2, <1>3, <1>4, <1>5

\* A renewal begins, or a stop is asked for and noticed.
LEMMA RenewsLawfully ==
  ASSUME TlsInv, NEW s \in Servers, RenewDue(s) \/ LoopEnds(s) \/ Interrupted(s) \/ StopRenewal(s)
  PROVE  LawfulStep(s)
<1>1. TlsTyped /\ OrdersUnderLock(s) /\ StopsWithContext(s)
  BY DEF TlsInv, Standing
<1>2. CASE RenewDue(s) /\ key > 0
  <2> DEFINE fields == [pc |-> "lock", renewing |-> TRUE, seen |-> cert]
  <2>1. /\ Assign(s, fields) /\ UNCHANGED <<time, cert, retry, cacheLock, issued, promised>>
        /\ ~srv[s].stop /\ cert # NoCert /\ ~Deferred(s)
    BY <1>2 DEF RenewDue, Current
  <2>2. DOMAIN fields = {"pc", "renewing", "seen"} /\ fields["pc"] = "lock" /\ fields["renewing"] = TRUE
    OBVIOUS
  <2> HIDE DEF fields
  <2>3. srv'[s].pc = "lock" /\ srv'[s].renewing = TRUE /\ srv'[s].stop = srv[s].stop
    BY <1>1, <2>1, <2>2, Assigned
  <2>4. OrdersUnderLock(s)' /\ StopsWithContext(s)' /\ HeedsStop(s) /\ HeedsDeadline(s)
    BY <1>1, <2>1, <2>3, DeadlineKept DEF OrdersUnderLock, StopsWithContext, HeedsStop, HeedsDeadline
  <2> QED
    BY <1>1, <2>1, <2>2, <2>4, LawfulAssignment DEF TlsTyped
<1>3. CASE RenewDue(s) /\ ~(key > 0)
  BY <1>1, <1>3, LawfulFailure DEF RenewDue
<1>4. CASE LoopEnds(s) \/ Interrupted(s)
  <2>1. /\ Assign(s, Ended) /\ UNCHANGED <<time, disk, issued, starts, promised>>
        /\ cacheLock' = cacheLock \/ (cacheLock = s /\ cacheLock' = NoServer)
    BY <1>4 DEF LoopEnds, Interrupted
  <2>2. /\ DOMAIN Ended = {"pc", "renewing", "seen", "got", "failures", "notBefore"}
        /\ Ended["pc"] = "ended" /\ Ended["renewing"] = FALSE /\ Ended["failures"] = 0 /\ Ended["notBefore"] = 0
    BY DEF Ended
  <2>3. /\ srv'[s].pc = "ended" /\ srv'[s].renewing = FALSE
        /\ srv'[s].ctx = srv[s].ctx /\ srv'[s].stop = srv[s].stop
    BY <1>1, <2>1, <2>2, Assigned
  <2>4. OrdersUnderLock(s)' /\ StopsWithContext(s)' /\ HeedsStop(s) /\ HeedsDeadline(s)
    BY <1>1, <2>1, <2>3 DEF OrdersUnderLock, StopsWithContext, HeedsStop, HeedsDeadline, disk
  <2> QED
    BY <1>1, <2>1, <2>2, <2>4, LawfulAssignment DEF disk, TlsTyped
<1>5. CASE StopRenewal(s)
  <2> DEFINE fields == [stop |-> TRUE]
  <2>1. /\ Assign(s, fields) /\ UNCHANGED <<time, disk, cacheLock, issued, starts, promised>>
        /\ srv[s].ctx # NoCert
    BY <1>5 DEF StopRenewal
  <2>2. DOMAIN fields = {"stop"} /\ fields["stop"] = TRUE
    OBVIOUS
  <2> HIDE DEF fields
  <2>3. /\ srv'[s].pc = srv[s].pc /\ srv'[s].renewing = srv[s].renewing /\ srv'[s].ctx = srv[s].ctx
        /\ srv'[s].seen = srv[s].seen /\ srv'[s].got = srv[s].got
    BY <1>1, <2>1, <2>2, Assigned
  <2>4. OrdersUnderLock(s)' /\ StopsWithContext(s)' /\ HeedsStop(s) /\ HeedsDeadline(s)
    BY <1>1, <2>1, <2>3 DEF OrdersUnderLock, StopsWithContext, HeedsStop, HeedsDeadline, disk
  <2> QED
    BY <1>1, <2>1, <2>2, <2>4, LawfulAssignment DEF disk, TlsTyped
<1> QED
  BY <1>2, <1>3, <1>4, <1>5

\* Taking the lock: nobody else orders, and what was renewed meanwhile is adopted.
LEMMA LocksLawfully ==
  ASSUME TlsInv, NEW s \in Servers, LockForOrder(s) \/ LockForAdoption(s)
  PROVE  LawfulStep(s)
<1>1. TlsTyped /\ OrdersUnderLock(s) /\ StopsWithContext(s)
  BY DEF TlsInv, Standing
<1>2. CASE LockForOrder(s)
  <2> DEFINE fields == [pc |-> "order"]
  <2>1. /\ Assign(s, fields) /\ UNCHANGED <<time, cert, schedule, retry, issued, starts, promised>>
        /\ srv[s].pc = "lock" /\ cacheLock = NoServer /\ cacheLock' = s /\ ~RenewedMeanwhile(s)
    BY <1>2 DEF LockForOrder
  <2>2. DOMAIN fields = {"pc"} /\ fields["pc"] = "order"
    OBVIOUS
  <2> HIDE DEF fields
  <2>3. /\ srv'[s].pc = "order" /\ srv'[s].renewing = srv[s].renewing /\ srv'[s].ctx = srv[s].ctx
        /\ srv'[s].stop = srv[s].stop /\ srv'[s].seen = srv[s].seen
    BY <1>1, <2>1, <2>2, Assigned
  <2>4. OrdersUnderLock(s)' /\ StopsWithContext(s)' /\ HeedsStop(s) /\ HeedsDeadline(s)
    BY <1>1, <2>1, <2>3 DEF OrdersUnderLock, StopsWithContext, HeedsStop, HeedsDeadline, RenewedMeanwhile
  <2>5. \A r \in Servers \ {s} : cacheLock # r
    BY <2>1, TlsAssumption
  <2> QED
    BY <1>1, <2>1, <2>2, <2>4, <2>5, LawfulAssignment DEF TlsTyped
<1>3. CASE LockForAdoption(s) /\ PairValid /\ cert.end > time /\ cert.end > srv[s].active.end
  <2> DEFINE fields == ServeRenewed(s, cert)
  <2>1. /\ Assign(s, fields) /\ ClearRetry(s) /\ UNCHANGED <<time, cert, cacheLock, issued, starts>>
        /\ ~srv[s].stop /\ cert # NoCert
    BY <1>3 DEF LockForAdoption, RenewedMeanwhile
  <2>2. /\ DOMAIN fields = {"pc", "renewing", "ctx", "active", "seen", "got", "failures", "notBefore"}
        /\ fields["pc"] = "up" /\ fields["renewing"] = FALSE /\ fields["ctx"] = cert
        /\ fields["failures"] = 0 /\ fields["notBefore"] = 0
    BY DEF ServeRenewed
  <2> HIDE DEF fields
  <2>3. srv'[s].pc = "up" /\ srv'[s].renewing = FALSE /\ srv'[s].ctx = cert /\ srv'[s].stop = srv[s].stop
    BY <1>1, <2>1, <2>2, Assigned
  <2>4. OrdersUnderLock(s)' /\ StopsWithContext(s)' /\ HeedsStop(s) /\ HeedsDeadline(s)
    BY <1>1, <2>1, <2>3 DEF OrdersUnderLock, StopsWithContext, HeedsStop, HeedsDeadline
  <2> QED
    BY <1>1, <2>1, <2>2, <2>4, LawfulAssignment DEF TlsTyped
<1>4. CASE LockForAdoption(s) /\ ~(PairValid /\ cert.end > time /\ cert.end > srv[s].active.end)
  BY <1>1, <1>4, LawfulFailure DEF LockForAdoption
<1> QED
  BY <1>2, <1>3, <1>4

\* The order ends, fails or is published, all under the cache lock.
LEMMA OrdersLawfully ==
  ASSUME TlsInv, NEW s \in Servers, OrderEnds(s) \/ OrderFails(s) \/ Publish(s) \/ PublishRefused(s)
  PROVE  LawfulStep(s)
<1>1. TlsTyped /\ OrdersUnderLock(s) /\ StopsWithContext(s)
  BY DEF TlsInv, Standing
<1>2. srv[s].pc \in {"order", "publish"} /\ cacheLock = s
  BY <1>1 DEF OrderEnds, OrderFails, Publish, PublishRefused, OrdersUnderLock
<1>3. AfterFailure(s) \in {"up", "down"} /\ (AfterFailure(s) = "down" => srv[s].ctx = NoCert)
  BY <1>1, <1>2 DEF AfterFailure, StopsWithContext
<1>4. CASE OrderEnds(s)
  <2>1. PICK life \in {1, Lifetime} :
          Assign(s, [pc |-> "publish", got |-> [n |-> issued + 1, key |-> key, end |-> time + life]])
    BY <1>4 DEF OrderEnds
  <2> DEFINE got == [n |-> issued + 1, key |-> key, end |-> time + life]
             fields == [pc |-> "publish", got |-> got]
  <2>2. UNCHANGED <<time, disk, cacheLock, starts, promised>> /\ issued' = issued + 1
    BY <1>4 DEF OrderEnds
  <2>3. got # NoCert
    <3>1. got.n # NoCert.n
      BY <1>1 DEF TlsTyped, NoCert
    <3> HIDE DEF got
    <3> QED
      BY <3>1
  <2> HIDE DEF got
  <2>4. DOMAIN fields = {"pc", "got"} /\ fields["pc"] = "publish" /\ fields["got"] = got
    OBVIOUS
  <2>5. Assign(s, fields)
    BY <2>1 DEF got
  <2> HIDE DEF fields
  <2>6. /\ srv'[s].pc = "publish" /\ srv'[s].renewing = srv[s].renewing /\ srv'[s].ctx = srv[s].ctx
        /\ srv'[s].stop = srv[s].stop /\ srv'[s].got = got
    BY <1>1, <2>5, <2>4, Assigned
  <2>7. OrdersUnderLock(s)' /\ StopsWithContext(s)' /\ HeedsStop(s) /\ HeedsDeadline(s)
    BY <1>1, <1>2, <2>2, <2>3, <2>6 DEF OrdersUnderLock, StopsWithContext, HeedsStop, HeedsDeadline, disk
  <2> QED
    <3>1. issued' \in Nat /\ time' = time /\ UNCHANGED <<retry, promised>> /\ cert' = cert /\ cacheLock' = cacheLock
      BY <1>1, <2>2 DEF disk, TlsTyped
    <3> QED
      BY <2>4, <2>5, <2>7, <3>1, LawfulAssignment
<1>5. CASE OrderFails(s) \/ PublishRefused(s)
  <2>1. PICK asked \in {0, RetryAfter} : Failure(s, AfterFailure(s), asked)
    BY <1>5 DEF OrderFails, PublishRefused
  <2>2. UNCHANGED <<time, cert, key, issued, starts>>
    BY <1>5 DEF OrderFails, PublishRefused
  <2> QED
    BY <1>2, <1>3, <2>1, <2>2, LawfulFailure
<1>6. CASE Publish(s)
  <2> DEFINE fields == ServeRenewed(s, srv[s].got)
  <2>1. /\ Assign(s, fields) /\ ClearRetry(s) /\ UNCHANGED <<time, key, schedule, issued, starts>>
        /\ cert' = srv[s].got /\ srv[s].pc = "publish" /\ ~srv[s].stop
    BY <1>6 DEF Publish, Stopped
  <2>2. cert' # NoCert
    BY <1>1, <2>1 DEF OrdersUnderLock
  <2>3. /\ DOMAIN fields = {"pc", "renewing", "ctx", "active", "seen", "got", "failures", "notBefore"}
        /\ fields["pc"] = "up" /\ fields["renewing"] = FALSE /\ fields["ctx"] = srv[s].got
        /\ fields["failures"] = 0 /\ fields["notBefore"] = 0
    BY DEF ServeRenewed
  <2> HIDE DEF fields
  <2>4. srv'[s].pc = "up" /\ srv'[s].renewing = FALSE /\ srv'[s].ctx = srv[s].got /\ srv'[s].stop = srv[s].stop
    BY <1>1, <2>1, <2>3, Assigned
  <2>5. OrdersUnderLock(s)' /\ StopsWithContext(s)' /\ HeedsStop(s) /\ HeedsDeadline(s)
    BY <1>1, <2>1, <2>2, <2>4 DEF OrdersUnderLock, StopsWithContext, HeedsStop, HeedsDeadline
  <2> QED
    BY <1>1, <1>2, <2>1, <2>2, <2>3, <2>5, LawfulAssignment DEF TlsTyped
<1> QED
  BY <1>4, <1>5, <1>6

\* What a server that is down has.
LEMMA DownIs ==
  /\ DOMAIN Down = ServerFields /\ Down.stop \in BOOLEAN /\ Down.renewing \in BOOLEAN
  /\ Down.failures \in Nat /\ Down.notBefore \in Int
BY DEF Down, ServerFields

\* A server that exits or is killed drops its lock.
LEMMA ExitsLawfully ==
  ASSUME TlsInv, NEW s \in Servers, Exit(s)
  PROVE  LawfulStep(s)
<1>1. TlsTyped /\ OrdersUnderLock(s) /\ StopsWithContext(s) /\ PromiseOnRecord(s)
  BY DEF TlsInv, Standing
<1>2. /\ srv' = [r \in Servers |-> srv'[r]] /\ \A r \in Servers \ {s} : srv'[r] = srv[r]
      /\ srv'[s] = Down
      /\ UNCHANGED <<time, cert, key, schedule, retry, issued, promised>>
      /\ cacheLock' = cacheLock \/ cacheLock = s
  BY <1>1 DEF Exit, disk, TlsTyped
<1>3. TlsTyped'
  BY <1>1, <1>2, DownIs DEF TlsTyped
<1>4. OrdersUnderLock(s)' /\ StopsWithContext(s)' /\ PromiseOnRecord(s)' /\ HeedsStop(s) /\ HeedsDeadline(s)
  BY <1>1, <1>2 DEF OrdersUnderLock, StopsWithContext, PromiseOnRecord, HeedsStop, HeedsDeadline, Down
<1>5. LeavesOthers(s)
  BY <1>2 DEF LeavesOthers
<1> QED
  BY <1>3, <1>4, <1>5 DEF LawfulStep, Standing

\* The cache may be empty, sound or broken; every server is down.
LEMMA TlsInvHolds ==
  TlsInit => TlsInv
<1> SUFFICES ASSUME TlsInit PROVE TlsInv
  OBVIOUS
<1>1. TlsTyped
  <2>1. retry.failures = 0 /\ retry.next = 0
    BY DEF TlsInit, NoRetry
  <2>2. time = 1 /\ issued = 1 /\ srv = [s \in Servers |-> Down] /\ promised = [s \in Servers |-> 0]
    BY DEF TlsInit
  <2>3. srv = [s \in Servers |-> srv[s]] /\ promised = [s \in Servers |-> promised[s]]
    BY <2>2
  <2>4. \A s \in Servers : srv[s] = Down
    BY <2>2
  <2> QED
    BY <2>1, <2>2, <2>3, <2>4, DownIs DEF TlsTyped
<1>2. ASSUME NEW s \in Servers PROVE Standing(s)
  BY DEF TlsInit, Standing, OrdersUnderLock, StopsWithContext, PromiseOnRecord, Down
<1> QED
  BY <1>1, <1>2 DEF TlsInv

\* A step that leaves every server where it is: time passes, or only the schedule is written.
LEMMA QuietStep ==
  ASSUME TlsInv, UNCHANGED <<cert, retry, cacheLock, srv, issued>>, time' \in Nat,
         promised' = [s \in Servers |-> promised'[s]],
         \A s \in Servers : promised'[s] \in {0, promised[s]}
  PROVE  TlsInv' /\ HeededByAll
<1>1. TlsTyped'
  BY DEF TlsInv, TlsTyped
<1>2. ASSUME NEW s \in Servers PROVE Standing(s)' /\ HeedsStop(s) /\ HeedsDeadline(s)
  BY DEF TlsInv, Standing, OrdersUnderLock, StopsWithContext, PromiseOnRecord, HeedsStop, HeedsDeadline
<1> QED
  BY <1>1, <1>2 DEF TlsInv, HeededByAll

\* Every step keeps the invariant and heeds stops and deadlines.
LEMMA TlsInvKept ==
  TlsInv /\ [TlsNext]_tlsVars => TlsInv' /\ HeededByAll
<1> SUFFICES ASSUME TlsInv, [TlsNext]_tlsVars PROVE TlsInv' /\ HeededByAll
  OBVIOUS
<1>1. time \in Nat /\ promised = [s \in Servers |-> promised[s]]
  BY DEF TlsInv, TlsTyped
<1>2. CASE \E s \in Servers : StartDeferred(s) \/ CheckAri(s)
  <2>1. UNCHANGED <<time, cert, retry, cacheLock, srv, issued, promised>>
    BY <1>2 DEF StartDeferred, CheckAri, disk
  <2> QED
    BY <1>1, <2>1, QuietStep
<1>3. CASE TlsTick
  <2>1. /\ UNCHANGED <<cert, retry, cacheLock, srv, issued>> /\ time' \in Nat
        /\ promised' = [s \in Servers |-> IF promised[s] > time' THEN promised[s] ELSE 0]
    BY <1>1, <1>3 DEF TlsTick, disk
  <2>2. /\ promised' = [s \in Servers |-> promised'[s]]
        /\ \A s \in Servers : promised'[s] \in {0, promised[s]}
    BY <2>1
  <2> QED
    BY <2>1, <2>2, QuietStep
<1>4. CASE UNCHANGED tlsVars
  <2>1. UNCHANGED <<time, cert, retry, cacheLock, srv, issued, promised>>
    BY <1>4 DEF tlsVars
  <2> QED
    BY <1>1, <2>1, QuietStep
<1>5. ASSUME NEW s \in Servers,
             \/ StartFromCache(s) \/ StartBroken(s) \/ StartObtain(s) \/ StartRetains(s)
             \/ AdoptRead(s) \/ AdoptLoad(s) \/ AdoptFails(s)
             \/ RenewDue(s) \/ LoopEnds(s) \/ Interrupted(s) \/ StopRenewal(s)
             \/ LockForOrder(s) \/ LockForAdoption(s)
             \/ OrderEnds(s) \/ OrderFails(s) \/ Publish(s) \/ PublishRefused(s)
             \/ Exit(s)
      PROVE  TlsInv' /\ HeededByAll
  BY <1>5, StartsLawfully, AdoptsLawfully, RenewsLawfully, LocksLawfully, OrdersLawfully,
     ExitsLawfully, LawfulKeeps
<1> QED
  BY <1>2, <1>3, <1>4, <1>5 DEF TlsNext

(***************************************************************************)
(* A renewal orders under the cache lock and only to replace the very      *)
(* certificate it found due before it waited for that lock, so servers     *)
(* that share a cache never order one after the other for one renewal.     *)
(***************************************************************************)
THEOREM TlsOneOrderPerRenewal ==
  TlsSpec => []OneOrderPerRenewal
<1>1. TlsInv => OneOrderPerRenewal
  BY DEF TlsInv, Standing, OrdersUnderLock, OneOrderPerRenewal
<1> QED
  BY <1>1, TlsInvHolds, TlsInvKept, PTL DEF TlsSpec

(***************************************************************************)
(* After stop_renewal returned a server switches neither its context nor   *)
(* the shared certificate, and no server begins an order before the        *)
(* deadline that its last failure put on record.                           *)
(***************************************************************************)
THEOREM TlsRenewalSound ==
  TlsSpec => RenewalSound
<1>1. HeededByAll =>
        /\ \A s \in Servers : (srv[s].stop /\ srv'[s].stop) =>
             srv'[s].ctx = srv[s].ctx /\ (srv'[s].pc # srv[s].pc => UNCHANGED cert)
        /\ \A s \in Servers : (srv[s].pc # "lock" /\ srv'[s].pc = "lock") => time >= promised[s]
  BY DEF HeededByAll, HeedsStop, HeedsDeadline
<1> QED
  BY <1>1, TlsInvHolds, TlsInvKept, PTL
  DEF TlsSpec, RenewalSound, NoSwitchAfterStop, BackoffSurvivesRestart
-----------------------------------------------------------------------------
(***************************************************************************)
(*                               RequestPath                               *)
(***************************************************************************)

WireUnits == [kind : {"line", "fields", "end", "body"}, r : Requests]

\* The unit at place i of a request.
UnitAt(r, i) ==
  Unit(IF i = 1 THEN "line" ELSE IF i = 2 THEN "fields" ELSE IF i = 3 THEN "end" ELSE "body", r)

PathTyped ==
  /\ buf \in Seq(WireUnits) /\ wire \in Seq(WireUnits)
  /\ prepared \in BOOLEAN /\ lease \in BOOLEAN /\ waiting \in BOOLEAN /\ cut \in BOOLEAN

\* What is on the connection is the request r but for its first k units.
Remains(r, k) ==
  /\ k + Len(buf) + Len(wire) = 3 + r.body
  /\ \A i \in 1..Len(buf) : buf[i] = UnitAt(r, k + i)
  /\ \A i \in 1..Len(wire) : wire[i] = UnitAt(r, k + Len(buf) + i)

\* One request at a time, and a part of one only after its headers were cut.
OneRequest ==
  \/ buf = << >> /\ wire = << >>
  \/ \E r \in Requests, k \in Nat : Remains(r, k) /\ (~cut => k = 0)

HeadersRead == Len(buf) >= 3 /\ buf[1].kind = "line" /\ buf[2].kind = "fields" /\ buf[3].kind = "end"

\* A prepared request has passed the tests before the body.
PassedHeaders == HeadersRead /\ Authenticated(Req) /\ RouteAuthorized(Req)

\* What a handler, or the upgrade, may rely on.
Granted ==
  /\ config.auth => Req.auth = "ok"
  /\ Got("end") /\ FromForeignPage(Req) =>
       Req.route \in {"read", "download"} \/ (Req.route = "ws" /\ Req.origin = "none")

Placed ==
  /\ ~waiting /\ ~cut /\ pc \notin {"closed", "upgraded"} => buf = << >> /\ wire = << >>
  /\ pc = "recv" => ~prepared /\ ~lease
  /\ pc = "body" => prepared
  /\ pc \in {"body", "process", "dispatch"} => buf # << >>
  /\ pc \in {"process", "dispatch"} /\ ~cut => wire = << >>
  /\ prepared /\ pc \in {"body", "process", "dispatch"} => PassedHeaders
  /\ lease => prepared /\ pc \in {"body", "process", "dispatch"}
  /\ pc \in {"dispatch", "upgraded"} => Granted

PathInv == PathTyped /\ OneRequest /\ Placed

\* What a request is, as far as the proofs count and compare.
LEMMA PathRequestTyped ==
  ASSUME NEW r \in Requests
  PROVE  r.body \in Nat /\ r.route \in KnownRoutes
BY PathAssumption DEF Requests, Clean, Faulty

\* The place of a unit in its request decides its kind, and no other place has it.
LEMMA UnitIs ==
  ASSUME NEW r, NEW i \in Nat
  PROVE  /\ UnitAt(r, i).r = r
         /\ UnitAt(r, i).kind = "line" <=> i = 1
         /\ UnitAt(r, i).kind = "fields" <=> i = 2
         /\ UnitAt(r, i).kind = "end" <=> i = 3
         /\ UnitAt(r, i).kind = "body" <=> (i = 0 \/ i > 3)
BY DEF UnitAt, Unit

\* The units of a request, place by place.
LEMMA UnitsAre ==
  ASSUME NEW r \in Requests
  PROVE  /\ Units(r) \in Seq(WireUnits) /\ Len(Units(r)) = 3 + r.body
         /\ \A i \in 1..(3 + r.body) : Units(r)[i] = UnitAt(r, i)
<1> DEFINE head == <<Unit("line", r), Unit("fields", r), Unit("end", r)>>
           rest == [i \in 1..r.body |-> Unit("body", r)]
<1>1. r.body \in Nat
  BY PathRequestTyped
<1>2. \A kind \in {"line", "fields", "end", "body"} : Unit(kind, r) \in WireUnits
  BY DEF Unit, WireUnits
<1>3. head \in Seq(WireUnits) /\ Len(head) = 3
      /\ head[1] = UnitAt(r, 1) /\ head[2] = UnitAt(r, 2) /\ head[3] = UnitAt(r, 3)
  BY <1>2 DEF UnitAt
<1>4. rest \in Seq(WireUnits) /\ Len(rest) = r.body /\ \A i \in 1..r.body : rest[i] = Unit("body", r)
  BY <1>1, <1>2
<1> HIDE DEF head, rest
<1>5. /\ head \o rest \in Seq(WireUnits) /\ Len(head \o rest) = 3 + r.body
      /\ \A i \in 1..(3 + r.body) : (head \o rest)[i] = IF i <= 3 THEN head[i] ELSE rest[i - 3]
  <2>1. /\ head \o rest \in Seq(WireUnits) /\ Len(head \o rest) = Len(head) + Len(rest)
        /\ \A i \in 1..(Len(head) + Len(rest)) :
             (head \o rest)[i] = IF i <= Len(head) THEN head[i] ELSE rest[i - Len(head)]
    BY <1>3, <1>4, ConcatProperties
  <2> QED
    BY <1>1, <1>3, <1>4, <2>1
<1>6. ASSUME NEW i \in 1..(3 + r.body) PROVE (head \o rest)[i] = UnitAt(r, i)
  <2>1. CASE i <= 3
    <3>1. i = 1 \/ i = 2 \/ i = 3
      BY <1>1, <2>1
    <3> QED
      BY <1>3, <1>5, <3>1
  <2>2. CASE i > 3
    <3>1. i - 3 \in 1..r.body
      BY <1>1, <2>2
    <3>2. (head \o rest)[i] = Unit("body", r)
      BY <1>1, <1>4, <1>5, <2>2, <3>1
    <3>3. UnitAt(r, i) = Unit("body", r)
      BY <1>1, <2>2 DEF UnitAt
    <3> QED
      BY <3>2, <3>3
  <2>3. i <= 3 \/ i > 3
    BY <1>1
  <2> QED
    BY <2>1, <2>2, <2>3
<1> QED
  BY <1>5, <1>6 DEF Units, head, rest

\* Every failed test has a status of its own, so an accepted request failed none.
LEMMA AcceptedLine ==
  ASSUME NEW s, HeaderVerdict(s) = Accepted
  PROVE  s.fault # "request_line" /\ Authenticated(s) /\ RouteAuthorized(s)
<1>1. Verdict(AdmissionChecks, {s.fault}) = Accepted
  BY DEF HeaderVerdict, Accepted
<1>2. Authenticated(s) /\ RouteAuthorized(s)
  BY <1>1 DEF HeaderVerdict, Accepted
<1>3. s.fault # "request_line"
  <2> SUFFICES ASSUME s.fault = "request_line" PROVE FALSE
    OBVIOUS
  <2> DEFINE met == {i \in DOMAIN AdmissionChecks : AdmissionChecks[i][1] \in {s.fault}}
             first == CHOOSE i \in met : \A j \in met : i <= j
  <2>1. /\ DOMAIN AdmissionChecks = 1..6 /\ AdmissionChecks[1][1] = "request_line"
        /\ \A i \in 1..6 : AdmissionChecks[i][2] # 0
    BY DEF AdmissionChecks
  <2>2. 1 \in met /\ met \subseteq 1..6
    BY <2>1
  <2>3. Verdict(AdmissionChecks, {s.fault}) = AdmissionChecks[first][2]
    BY <2>2 DEF Verdict
  <2> HIDE DEF met
  <2>4. first \in met
    <3>1. \A j \in met : 1 <= j
      BY <2>2
    <3> QED
      BY <2>2, <3>1
  <2> HIDE DEF first
  <2> QED
    BY <1>1, <2>1, <2>2, <2>3, <2>4 DEF Accepted
<1> QED
  BY <1>2, <1>3

\* Units that are there: the line only at the front, the end only behind the fields.
LEMMA WhatIsRead ==
  ASSUME PathInv, Got("line")
  PROVE  /\ buf # << >> /\ buf[1].kind = "line"
         /\ Got("end") => HeadersRead
         /\ \E r \in Requests : Remains(r, 0) /\ Req = r
<1>1. PICK i \in DOMAIN buf : buf[i].kind = "line"
  BY DEF Got
<1>2. buf \in Seq(WireUnits) /\ i \in 1..Len(buf) /\ buf # << >> /\ Len(buf) \in Nat /\ Len(wire) \in Nat
  BY <1>1 DEF PathInv, PathTyped
<1>3. PICK r \in Requests, k \in Nat : Remains(r, k)
  BY <1>2 DEF PathInv, OneRequest
<1>4. k = 0
  <2>1. UnitAt(r, k + i).kind = "line"
    BY <1>1, <1>2, <1>3 DEF Remains
  <2>2. k + i = 1
    BY <1>2, <2>1, UnitIs
  <2> QED
    BY <1>2, <2>2
<1>5. \A j \in 1..Len(buf) : buf[j] = UnitAt(r, j)
  BY <1>3, <1>4 DEF Remains
<1>6. buf[1].kind = "line" /\ Req = r
  <2>1. 1 \in 1..Len(buf) /\ buf[1] = UnitAt(r, 1)
    BY <1>2, <1>5
  <2> QED
    BY <2>1, UnitIs DEF Req
<1>7. ASSUME Got("end") PROVE HeadersRead
  <2>1. PICK j \in DOMAIN buf : buf[j].kind = "end"
    BY <1>7 DEF Got
  <2>2. j \in 1..Len(buf)
    BY <1>2, <2>1
  <2>3. j = 3
    BY <1>2, <1>5, <2>1, <2>2, UnitIs
  <2>4. Len(buf) >= 3 /\ 2 \in 1..Len(buf) /\ 3 \in 1..Len(buf)
    BY <1>2, <2>2, <2>3
  <2> QED
    BY <1>5, <1>6, <2>4, UnitIs DEF HeadersRead
<1> QED
  BY <1>2, <1>3, <1>4, <1>6, <1>7

LEMMA SeenIs ==
  ASSUME PathInv, HeadersRead
  PROVE  Seen = Req /\ Got("line") /\ Got("end")
<1>1. Len(buf) \in Nat /\ DOMAIN buf = 1..Len(buf)
  BY DEF PathInv, PathTyped
<1>2. Got("line") /\ Got("fields") /\ Got("end")
  BY <1>1 DEF HeadersRead, Got
<1> QED
  BY <1>2 DEF Seen

\* What is authorized for its origin does nothing for a foreign page.
LEMMA ForeignStopped ==
  ASSUME NEW r \in Requests, RouteAuthorized(r), MutationAllowed(r), FromForeignPage(r), r.route # "ws"
  PROVE  r.route \in {"read", "download"}
<1>1. ~StrictOrigin(r)
  BY DEF FromForeignPage, StrictOrigin, SiteForeign
<1>2. ~BrowserAllowed(r)
  BY DEF FromForeignPage, BrowserAllowed, SiteForeign
<1>3. r.route \notin {"encrypted", "control", "mutate", "upload", "session"}
  BY <1>1, <1>2 DEF RouteAuthorized, MutationAllowed, Mutating
<1> QED
  BY <1>3, PathRequestTyped DEF KnownRoutes

\* A request that is let past process was granted what its handler relies on.
LEMMA AdmittedGranted ==
  ASSUME PathInv, pc = "process", Admitted,
         (Seen.route # "ws" /\ MutationAllowed(Seen)) \/ (Seen.route = "ws" /\ UpgradeAllowed(Seen))
  PROVE  Granted
<1>1. CASE HeadersRead
  <2>1. Seen = Req /\ Got("line")
    BY <1>1, SeenIs
  <2>2. Authenticated(Req) /\ RouteAuthorized(Req)
    BY <2>1, AcceptedLine DEF Admitted, PathInv, Placed, PassedHeaders
  <2>3. Req \in Requests
    BY <2>1, WhatIsRead
  <2>4. CASE Req.route # "ws"
    BY <2>1, <2>2, <2>3, <2>4, ForeignStopped DEF Granted, Authenticated
  <2>5. CASE Req.route = "ws"
    BY <2>1, <2>2, <2>5 DEF Granted, Authenticated, UpgradeAllowed, FromForeignPage
  <2> QED
    BY <2>4, <2>5
<1>2. CASE ~HeadersRead
  <2>1. HeaderVerdict(Seen) = Accepted
    BY <1>2 DEF Admitted, PathInv, Placed, PassedHeaders
  <2>2. Seen.fault # "request_line" /\ Authenticated(Seen)
    BY <2>1, AcceptedLine
  <2>3. Got("line")
    BY <2>2 DEF Seen
  <2>4. ~Got("end")
    BY <1>2, <2>3, WhatIsRead
  <2>5. config.auth => Req.auth = "ok"
    BY <2>2 DEF Seen, Authenticated
  <2> QED
    BY <2>4, <2>5 DEF Granted
<1> QED
  BY <1>1, <1>2

\* What the tests looked at is still at the front of the buffer.
LEMMA StillPassed ==
  ASSUME PassedHeaders, config' = config, Len(buf') >= 3,
         buf'[1] = buf[1], buf'[2] = buf[2], buf'[3] = buf[3]
  PROVE  PassedHeaders'
BY DEF PassedHeaders, HeadersRead, Authenticated, RouteAuthorized, Req, StrictOrigin, PeerAllowed,
       BrowserAllowed, SiteForeign

\* What was granted depends on the configuration and the request only.
LEMMA StillGranted ==
  ASSUME Granted, UNCHANGED <<config, buf>>
  PROVE  Granted'
BY DEF Granted, Got, FromForeignPage, Req

\* A request is sent only to a connection that holds no part of another.
LEMMA SendKeeps ==
  ASSUME PathInv, SendRequest
  PROVE  PathInv'
<1>1. PathTyped /\ buf = << >> /\ wire = << >>
  BY DEF PathInv, Placed, SendRequest
<1>2. PICK r \in Requests : wire' = wire \o Units(r)
  BY DEF SendRequest
<1>3. Units(r) \in Seq(WireUnits) /\ Len(Units(r)) = 3 + r.body /\ r.body \in Nat
      /\ \A i \in 1..(3 + r.body) : Units(r)[i] = UnitAt(r, i)
  BY UnitsAre, PathRequestTyped
<1>4. wire' = Units(r)
  BY <1>1, <1>2, <1>3
<1>5. UNCHANGED <<config, buf, pc, prepared, lease, num, cut>> /\ waiting' = TRUE
  BY DEF SendRequest
<1>6. OneRequest'
  <2>1. Len(buf') = 0 /\ Len(wire') = 3 + r.body
    BY <1>1, <1>3, <1>4, <1>5
  <2>2. Remains(r, 0)'
    BY <1>3, <1>4, <2>1 DEF Remains
  <2> QED
    BY <2>2 DEF OneRequest
<1>7. PathTyped'
  BY <1>1, <1>3, <1>4, <1>5 DEF PathTyped
<1>8. Placed'
  BY <1>1, <1>5, StillGranted DEF PathInv, Placed, SendRequest
<1> QED
  BY <1>6, <1>7, <1>8 DEF PathInv

\* Units move from the wire to the buffer, in order; what the tests looked at stays.
LEMMA ReceiveKeeps ==
  ASSUME PathInv, Receive
  PROVE  PathInv'
<1>1. /\ buf \in Seq(WireUnits) /\ wire \in Seq(WireUnits) /\ Len(buf) \in Nat /\ Len(wire) \in Nat
      /\ pc \in {"recv", "body"}
  BY DEF PathInv, PathTyped, Receive
<1>2. PICK n \in 1..Len(wire) : buf' = buf \o SubSeq(wire, 1, n) /\ wire' = SubSeq(wire, n + 1, Len(wire))
  BY DEF Receive
<1>3. UNCHANGED <<config, sent, pc, prepared, lease, num, waiting, cut>>
  BY DEF Receive
<1>4. /\ SubSeq(wire, 1, n) \in Seq(WireUnits) /\ Len(SubSeq(wire, 1, n)) = n
      /\ \A i \in 1..n : SubSeq(wire, 1, n)[i] = wire[i]
  <2>1. /\ SubSeq(wire, 1, n) \in Seq(WireUnits) /\ Len(SubSeq(wire, 1, n)) = n - 1 + 1
        /\ \A i \in 1..(n - 1 + 1) : SubSeq(wire, 1, n)[i] = wire[1 + i - 1]
    BY <1>1, SubSeqProperties
  <2> QED
    BY <1>1, <2>1
<1>5. /\ wire' \in Seq(WireUnits) /\ Len(wire') = Len(wire) - n
      /\ \A i \in 1..(Len(wire) - n) : wire'[i] = wire[n + i]
  <2>1. CASE n < Len(wire)
    <3>1. /\ SubSeq(wire, n + 1, Len(wire)) \in Seq(WireUnits)
          /\ Len(SubSeq(wire, n + 1, Len(wire))) = Len(wire) - (n + 1) + 1
          /\ \A i \in 1..(Len(wire) - (n + 1) + 1) : SubSeq(wire, n + 1, Len(wire))[i] = wire[(n + 1) + i - 1]
      BY <1>1, <2>1, SubSeqProperties
    <3> QED
      BY <1>1, <1>2, <3>1
  <2>2. CASE n = Len(wire)
    <3>1. wire' = << >>
      BY <1>1, <1>2, <2>2
    <3> QED
      BY <1>1, <2>2, <3>1
  <2> QED
    BY <1>1, <2>1, <2>2
<1>6. /\ buf' \in Seq(WireUnits) /\ Len(buf') = Len(buf) + n
      /\ \A i \in 1..(Len(buf) + n) : buf'[i] = IF i <= Len(buf) THEN buf[i] ELSE wire[i - Len(buf)]
  <2> DEFINE got == SubSeq(wire, 1, n)
  <2>1. got \in Seq(WireUnits) /\ Len(got) = n /\ (\A i \in 1..n : got[i] = wire[i]) /\ buf' = buf \o got
    BY <1>2, <1>4
  <2> HIDE DEF got
  <2>2. /\ buf \o got \in Seq(WireUnits) /\ Len(buf \o got) = Len(buf) + Len(got)
        /\ \A i \in 1..(Len(buf) + Len(got)) :
             (buf \o got)[i] = IF i <= Len(buf) THEN buf[i] ELSE got[i - Len(buf)]
    BY <1>1, <2>1, ConcatProperties
  <2>3. ASSUME NEW i \in 1..(Len(buf) + n)
        PROVE  buf'[i] = IF i <= Len(buf) THEN buf[i] ELSE wire[i - Len(buf)]
    <3>1. i > Len(buf) => i - Len(buf) \in 1..n
      BY <1>1
    <3>2. buf'[i] = IF i <= Len(buf) THEN buf[i] ELSE got[i - Len(buf)]
      BY <2>1, <2>2
    <3>3. i > Len(buf) => got[i - Len(buf)] = wire[i - Len(buf)]
      BY <2>1, <3>1
    <3>4. i <= Len(buf) \/ i > Len(buf)
      BY <1>1
    <3> QED
      BY <3>2, <3>3, <3>4
  <2> QED
    BY <2>1, <2>2, <2>3
<1>7. OneRequest'
  <2>1. wire # << >>
    BY <1>1
  <2>2. PICK r \in Requests, k \in Nat : Remains(r, k) /\ (~cut => k = 0)
    BY <2>1 DEF PathInv, OneRequest
  <2>3. r.body \in Nat
    BY PathRequestTyped
  <2>4. k + Len(buf') + Len(wire') = 3 + r.body
    BY <1>1, <1>5, <1>6, <2>2, <2>3 DEF Remains
  <2>5. ASSUME NEW i \in 1..Len(buf') PROVE buf'[i] = UnitAt(r, k + i)
    <3>1. CASE i <= Len(buf)
      <4>1. i \in 1..Len(buf) /\ buf'[i] = buf[i]
        BY <1>1, <1>6, <3>1
      <4> QED
        BY <2>2, <4>1 DEF Remains
    <3>2. CASE i > Len(buf)
      <4>1. i - Len(buf) \in 1..Len(wire) /\ buf'[i] = wire[i - Len(buf)]
        BY <1>1, <1>6, <3>2
      <4>2. k + Len(buf) + (i - Len(buf)) = k + i
        BY <1>1, <1>6
      <4> QED
        BY <2>2, <4>1, <4>2 DEF Remains
    <3>3. i <= Len(buf) \/ i > Len(buf)
      BY <1>1, <1>6
    <3> QED
      BY <3>1, <3>2, <3>3
  <2>6. ASSUME NEW i \in 1..Len(wire') PROVE wire'[i] = UnitAt(r, k + Len(buf') + i)
    <3>1. n + i \in 1..Len(wire) /\ wire'[i] = wire[n + i]
      <4>1. i \in 1..(Len(wire) - n) /\ n \in 1..Len(wire)
        BY <1>1, <1>5
      <4>2. wire'[i] = wire[n + i]
        BY <1>5, <4>1
      <4> QED
        BY <1>1, <4>1, <4>2
    <3>2. k + Len(buf) + (n + i) = k + Len(buf') + i
      BY <1>1, <1>5, <1>6
    <3> QED
      BY <2>2, <3>1, <3>2 DEF Remains
  <2>7. Remains(r, k)'
    BY <2>4, <2>5, <2>6 DEF Remains
  <2> QED
    BY <1>3, <2>2, <2>7 DEF OneRequest
<1>8. PathTyped'
  BY <1>3, <1>5, <1>6 DEF PathInv, PathTyped
<1>9. Placed'
  <2>1. wire # << >> /\ buf' # << >>
    BY <1>1, <1>6
  <2>2. ASSUME prepared, pc = "body" PROVE PassedHeaders'
    <3>1. PassedHeaders
      BY <2>2 DEF PathInv, Placed
    <3>2. Len(buf) >= 3
      BY <3>1 DEF PassedHeaders, HeadersRead
    <3>3. Len(buf') >= 3 /\ buf'[1] = buf[1] /\ buf'[2] = buf[2] /\ buf'[3] = buf[3]
      BY <1>1, <1>6, <3>2
    <3> QED
      BY <1>3, <3>1, <3>3, StillPassed
  <2> QED
    BY <1>1, <1>3, <2>1, <2>2 DEF PathInv, Placed
<1> QED
  BY <1>7, <1>8, <1>9 DEF PathInv

\* An empty connection is typed.
LEMMA NothingTyped ==
  << >> \in Seq(WireUnits)
OBVIOUS

\* Every early return leaves nothing behind.
LEMMA CloseKeeps ==
  ASSUME PathInv, Close
  PROVE  PathInv'
<1>1. buf' = << >> /\ wire' = << >> /\ lease' = FALSE /\ UNCHANGED <<prepared, waiting, cut>>
  BY DEF Close
<1>2. PathTyped' /\ OneRequest'
  BY <1>1, NothingTyped DEF PathInv, PathTyped, OneRequest
<1>3. Placed'
  BY DEF Placed, Close
<1> QED
  BY <1>2, <1>3 DEF PathInv

\* A step that leaves the units where they are.
LEMMA UnitsStay ==
  ASSUME PathInv, UNCHANGED <<buf, wire>>, cut' \in {cut, TRUE}
  PROVE  OneRequest'
<1>1. CASE buf = << >> /\ wire = << >>
  BY <1>1 DEF OneRequest
<1>2. CASE \E r \in Requests, k \in Nat : Remains(r, k) /\ (~cut => k = 0)
  BY <1>2 DEF OneRequest, Remains
<1> QED
  BY <1>1, <1>2 DEF PathInv, OneRequest

\* The tests before the body were made on complete headers.
LEMMA AcceptKeeps ==
  ASSUME PathInv, HeadersAccepted
  PROVE  PathInv'
<1>1. /\ UNCHANGED <<config, wire, sent, buf, num, waiting, cut>> /\ pc' = "body" /\ prepared' = TRUE
      /\ lease' \in BOOLEAN /\ HeaderVerdict(Seen) = Accepted /\ Got("end")
  BY DEF HeadersAccepted, HeadersComplete
<1>2. Seen.fault # "request_line" /\ Authenticated(Seen) /\ RouteAuthorized(Seen)
  BY <1>1, AcceptedLine
<1>3. Got("line")
  BY <1>2 DEF Seen
<1>4. HeadersRead /\ buf # << >>
  BY <1>1, <1>3, WhatIsRead
<1>5. PassedHeaders
  BY <1>2, <1>4, SeenIs DEF PassedHeaders
<1>6. PassedHeaders'
  BY <1>1, <1>5, StillPassed DEF PassedHeaders, HeadersRead
<1>7. PathTyped' /\ OneRequest'
  BY <1>1, UnitsStay DEF PathInv, PathTyped
<1>8. Placed'
  BY <1>1, <1>4, <1>6 DEF PathInv, Placed, HeadersAccepted, HeadersComplete
<1> QED
  BY <1>7, <1>8 DEF PathInv

\* A body that is complete leaves nothing of the request on the wire.
LEMMA BodyIsAll ==
  ASSUME PathInv, HeadersRead, BodyDone
  PROVE  wire = << >>
<1>1. PICK r \in Requests : Remains(r, 0) /\ Req = r
  BY SeenIs, WhatIsRead
<1>2. r.body \in Nat /\ Len(buf) \in Nat /\ Len(wire) \in Nat /\ DOMAIN buf = 1..Len(buf)
  BY PathRequestTyped DEF PathInv, PathTyped
<1>3. {i \in DOMAIN buf : buf[i].kind = "body"} = 4..Len(buf)
  <2>1. ASSUME NEW i \in 1..Len(buf) PROVE buf[i].kind = "body" <=> i > 3
    <3>1. buf[i] = UnitAt(r, i)
      BY <1>1, <1>2 DEF Remains
    <3> QED
      BY <1>2, <3>1, UnitIs
  <2> QED
    BY <1>2, <2>1
<1>4. Cardinality(4..Len(buf)) = Len(buf) - 3
  <2>1. Len(buf) >= 3
    BY DEF HeadersRead
  <2>2. ASSUME NEW n \in Nat
        PROVE  Cardinality(4..n) = IF 4 > n THEN 0 ELSE n - 4 + 1
    <3>1. 4 \in Int /\ n \in Int
      OBVIOUS
    <3> QED
      BY <3>1, FS_Interval
  <2> QED
    BY <1>2, <2>1, <2>2
<1>5. Len(buf) - 3 >= r.body
  BY <1>1, <1>3, <1>4 DEF BodyDone, BodyGot
<1>6. Len(buf) + Len(wire) = 3 + r.body
  BY <1>1, <1>2 DEF Remains
<1>7. Len(wire) = 0
  BY <1>2, <1>5, <1>6
<1> QED
  BY <1>7 DEF PathInv, PathTyped

\* A complete body ends the request on the wire.
LEMMA CompleteKeeps ==
  ASSUME PathInv, BodyComplete
  PROVE  PathInv'
<1>1. UNCHANGED <<config, wire, sent, buf, prepared, lease, waiting, cut>> /\ pc' = "process" /\ pc = "body"
  BY DEF BodyComplete
<1>2. PassedHeaders /\ prepared /\ buf # << >>
  BY <1>1 DEF PathInv, Placed
<1>3. wire = << >>
  BY <1>2, BodyIsAll DEF BodyComplete, PassedHeaders
<1>4. PassedHeaders'
  BY <1>1, <1>2, StillPassed DEF PassedHeaders, HeadersRead
<1>5. PathTyped' /\ OneRequest'
  BY <1>1, UnitsStay DEF PathInv, PathTyped
<1>6. Placed'
  BY <1>1, <1>2, <1>3, <1>4 DEF PathInv, Placed
<1> QED
  BY <1>5, <1>6 DEF PathInv

\* Only here is part of a request processed.
LEMMA StallKeeps ==
  ASSUME PathInv, Stalled
  PROVE  PathInv'
<1>1. CASE buf = << >>
  BY <1>1, CloseKeeps DEF Stalled
<1>2. CASE buf # << >>
  <2>1. /\ UNCHANGED <<config, wire, sent, buf, prepared, lease, waiting>>
        /\ pc = "recv" /\ pc' = "process" /\ cut' = TRUE
    BY <1>2 DEF Stalled
  <2>2. PathTyped' /\ OneRequest'
    BY <2>1, UnitsStay DEF PathInv, PathTyped
  <2>3. Placed'
    BY <1>2, <2>1 DEF PathInv, Placed
  <2> QED
    BY <2>2, <2>3 DEF PathInv
<1> QED
  BY <1>1, <1>2

\* What goes past process, to a handler or as a WebSocket, was granted it.
LEMMA AdmitKeeps ==
  ASSUME PathInv, Upgrade \/ Dispatch
  PROVE  PathInv'
<1>1. /\ UNCHANGED <<config, wire, sent, buf, prepared, num, waiting, cut>>
      /\ pc = "process" /\ \/ pc' = "upgraded" /\ lease' = FALSE
                           \/ pc' = "dispatch" /\ lease' = lease
  BY DEF Upgrade, Dispatch
<1>2. Granted
  <2>1. CASE Upgrade
    <3>1. pc = "process" /\ Admitted /\ Seen.route = "ws" /\ UpgradeAllowed(Seen)
      BY <2>1 DEF Upgrade
    <3> QED
      BY <3>1, AdmittedGranted
  <2>2. CASE Dispatch
    <3>1. pc = "process" /\ Admitted /\ Seen.route # "ws" /\ MutationAllowed(Seen)
      BY <2>2 DEF Dispatch
    <3> QED
      BY <3>1, AdmittedGranted
  <2> QED
    BY <2>1, <2>2
<1>3. Granted'
  BY <1>1, <1>2, StillGranted
<1>4. prepared => PassedHeaders'
  <2>1. prepared => PassedHeaders
    BY <1>1 DEF PathInv, Placed
  <2> QED
    BY <1>1, <2>1, StillPassed DEF PassedHeaders, HeadersRead
<1>5. PathTyped' /\ OneRequest'
  BY <1>1, UnitsStay DEF PathInv, PathTyped
<1>6. Placed'
  BY <1>1, <1>3, <1>4 DEF PathInv, Placed
<1> QED
  BY <1>5, <1>6 DEF PathInv

\* After the answer to a cut request the rest of that request is still there.
LEMMA RespondKeeps ==
  ASSUME PathInv, Respond
  PROVE  PathInv'
<1>1. /\ UNCHANGED <<config, wire, sent, num, cut>> /\ pc = "dispatch" /\ pc' = "recv" /\ buf' = << >>
      /\ prepared' = FALSE /\ lease' = FALSE /\ waiting' = FALSE
  BY DEF Respond
<1>2. PathTyped /\ Len(buf) \in Nat /\ Len(wire) \in Nat
  BY DEF PathInv, PathTyped
<1>3. PathTyped'
  BY <1>1, <1>2, NothingTyped DEF PathTyped
<1>4. OneRequest'
  <2>1. CASE wire = << >>
    BY <1>1, <2>1 DEF OneRequest
  <2>2. CASE wire # << >>
    <3>1. cut
      BY <1>1, <2>2 DEF PathInv, Placed
    <3>2. PICK r \in Requests, k \in Nat : Remains(r, k)
      BY <2>2 DEF PathInv, OneRequest
    <3>3. PICK m \in Nat : m = k + Len(buf)
      BY <1>2
    <3>4. m + Len(wire) = 3 + r.body /\ \A i \in 1..Len(wire) : wire[i] = UnitAt(r, m + i)
      BY <1>2, <3>2, <3>3 DEF Remains
    <3>5. Len(buf') = 0 /\ (\A i \in 1..Len(buf') : FALSE) /\ wire' = wire
      BY <1>1
    <3>6. m + 0 = m
      BY <3>3
    <3>7. Remains(r, m)'
      BY <3>4, <3>5, <3>6 DEF Remains
    <3> QED
      BY <1>1, <3>1, <3>7 DEF OneRequest
  <2> QED
    BY <2>1, <2>2
<1>5. Placed'
  BY <1>1 DEF PathInv, Placed
<1> QED
  BY <1>3, <1>4, <1>5 DEF PathInv

\* Every step of the connection keeps the invariant.
LEMMA PathStep ==
  ASSUME PathInv, [PathNext]_pathVars
  PROVE  PathInv'
<1>1. CASE HeadersRejected \/ HeadersRefused \/ HeadersOverdue \/ BodyStalled \/ ProcessRejected \/ RespondAndClose
  BY <1>1, CloseKeeps DEF HeadersRejected, HeadersRefused, HeadersOverdue, BodyStalled, ProcessRejected, RespondAndClose
<1>2. CASE UNCHANGED pathVars
  <2>1. UNCHANGED <<config, wire, buf, pc, prepared, lease, waiting, cut>>
    BY <1>2 DEF pathVars
  <2>2. PathTyped' /\ OneRequest'
    BY <2>1, UnitsStay DEF PathInv, PathTyped
  <2>3. PassedHeaders => PassedHeaders'
    BY <2>1, StillPassed DEF PassedHeaders, HeadersRead
  <2>4. Granted => Granted'
    BY <2>1, StillGranted
  <2>5. Placed'
    BY <2>1, <2>3, <2>4 DEF PathInv, Placed
  <2> QED
    BY <2>2, <2>5 DEF PathInv
<1> QED
  BY <1>1, <1>2, SendKeeps, ReceiveKeeps, AcceptKeeps, CompleteKeeps, StallKeeps, AdmitKeeps, RespondKeeps
  DEF PathNext

\* A new connection is empty.
LEMMA PathStarts ==
  PathInit => PathInv
<1> SUFFICES ASSUME PathInit PROVE PathInv
  OBVIOUS
<1>1. PathTyped /\ OneRequest
  BY NothingTyped DEF PathInit, PathTyped, OneRequest
<1>2. Placed
  BY DEF PathInit, Placed
<1> QED
  BY <1>1, <1>2 DEF PathInv

(***************************************************************************)
(* A request holds a transfer slot or body memory, reaches a handler or    *)
(* becomes a WebSocket only with accepted credentials, and no page of a    *)
(* foreign site reaches what changes state: also when the headers were cut *)
(* short by a timeout and process makes the tests on what had arrived.     *)
(***************************************************************************)
THEOREM PathRequestsGuarded == PathSpec => []RequestsGuarded
<1>1. PathInv => RequestsGuarded
  <2> SUFFICES ASSUME PathInv PROVE AuthenticationFirst /\ ForeignPagesChangeNothing
    BY DEF RequestsGuarded
  <2>1. AuthenticationFirst
    BY DEF PathInv, Placed, PassedHeaders, Authenticated, Granted, AuthenticationFirst
  <2>2. ForeignPagesChangeNothing
    BY DEF PathInv, Placed, Granted, ForeignPagesChangeNothing
  <2> QED
    BY <2>1, <2>2
<1> QED
  BY <1>1, PathStarts, PathStep, PTL DEF PathSpec

(***************************************************************************)
(* The server begins to read a request where the client began to write     *)
(* one: no early return, limit or timeout lets the rest of a request pass  *)
(* for the next, unless a request with incomplete headers was processed.   *)
(***************************************************************************)
THEOREM PathFramesAligned == PathSpec => []FramesAligned
<1>1. PathInv => FramesAligned
  <2> SUFFICES ASSUME PathInv, pc = "recv", ~cut, buf \o wire # << >> PROVE (buf \o wire)[1].kind = "line"
    BY DEF FramesAligned
  <2>1. buf \in Seq(WireUnits) /\ wire \in Seq(WireUnits) /\ Len(buf) \in Nat /\ Len(wire) \in Nat
    BY DEF PathInv, PathTyped
  <2>2. PICK r \in Requests : Remains(r, 0)
    BY <2>1 DEF PathInv, OneRequest
  <2>3. /\ Len(buf \o wire) = Len(buf) + Len(wire)
        /\ \A i \in 1..(Len(buf) + Len(wire)) : (buf \o wire)[i] = IF i <= Len(buf) THEN buf[i] ELSE wire[i - Len(buf)]
    BY <2>1, ConcatProperties
  <2>4. CASE Len(buf) > 0
    <3>1. (buf \o wire)[1] = buf[1] /\ buf[1] = UnitAt(r, 1)
      BY <2>1, <2>2, <2>3, <2>4 DEF Remains
    <3> QED
      BY <3>1, UnitIs
  <2>5. CASE Len(buf) = 0
    <3>1. r.body \in Nat
      BY PathRequestTyped
    <3>2. Len(wire) > 0
      BY <2>1, <2>2, <2>5, <3>1 DEF Remains
    <3>3. (buf \o wire)[1] = wire[1] /\ wire[1] = UnitAt(r, 1)
      BY <2>1, <2>2, <2>3, <2>5, <3>2 DEF Remains
    <3> QED
      BY <3>3, UnitIs
  <2> QED
    BY <2>1, <2>4, <2>5
<1> QED
  BY <1>1, PathStarts, PathStep, PTL DEF PathSpec
-----------------------------------------------------------------------------
(***************************************************************************)
(*                             WebSocketSession                            *)
(***************************************************************************)

\* While part of a frame is awaited the socket has the timeout of a frame.
LoopInv ==
  /\ seconds \in Nat /\ heard \in Nat
  /\ since # NotSet => timer = "frame"
  /\ (wpc = "recv" /\ frames # << >>) => (timer = "frame" /\ seconds - heard <= FrameTimeout)

\* Every step of the frame loop keeps the invariant.
LEMMA LoopStep ==
  ASSUME LoopInv, [LoopNext]_sessionLoopVars
  PROVE  LoopInv'
<1> USE LoopTimeouts DEF LoopInv, NotSet
<1>1. CASE BeginFrame \/ EndFrame \/ Recv \/ MessageHandled \/ UNCHANGED sessionLoopVars
  BY <1>1 DEF BeginFrame, EndFrame, Recv, MessageHandled, sessionLoopVars
<1>2. CASE EndSession
  BY <1>2 DEF EndSession
<1>3. CASE HungUp \/ FrameExpired \/ ParseFault \/ MessageFails
  BY <1>2, <1>3 DEF HungUp, FrameExpired, ParseFault, MessageFails
<1>4. CASE ReadAgain
  BY <1>4 DEF ReadAgain
<1>5. CASE ParseIncomplete
  BY <1>5 DEF ParseIncomplete, ArmFrameTimer
<1>6. CASE ParseFrame
  BY <1>2, <1>6 DEF ParseFrame, ArmFrameTimer
<1>7. CASE LoopTick
  <2>1. UNCHANGED <<frames, wpc, timer, since, heard>> /\ seconds' = seconds + 1
    BY <1>7 DEF LoopTick
  <2>2. ASSUME wpc = "recv", timer = "frame" PROVE ~(seconds - heard >= FrameTimeout)
    BY <1>7, <2>2 DEF LoopTick, TimedOut, Limit
  <2> QED
    BY <2>1, <2>2
<1> QED
  BY <1>1, <1>3, <1>4, <1>5, <1>6, <1>7 DEF LoopNext

(***************************************************************************)
(* A client that stops in the middle of a frame is waited for no longer    *)
(* than the frame timeout: the loop never comes back to read with part of  *)
(* a frame in its buffer and the longer timeout of an idle session.        *)
(***************************************************************************)
THEOREM LoopHalfFramesExpire == LoopSpec => []HalfFramesExpire
<1>1. LoopInit => LoopInv
  BY LoopTimeouts DEF LoopInit, LoopInv, NotSet
<1>2. LoopInv => HalfFramesExpire
  BY DEF LoopInv, HalfFramesExpire
<1> QED
  BY <1>1, <1>2, LoopStep, PTL DEF LoopSpec
==============================================================================
