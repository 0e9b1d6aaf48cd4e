----------------------------- MODULE StorageRebind -----------------------------
(***************************************************************************)
(* rebind_storage (management/storage_rebind.py): a restored copy of the   *)
(* encrypted uploads is read file by file, everything read is looked at    *)
(* again, and only then is its binding to the files folder replaced.  No   *)
(* lock keeps a forgotten writer away: a change to the files may happen    *)
(* between any two system calls.                                           *)
(*                                                                         *)
(* A file is its content and its identity, which every change renews (the  *)
(* device, inode, size and times the code compares).  The content of a     *)
(* payload is "good" when every chunk has the digest its journal records.  *)
(***************************************************************************)
EXTENDS Integers, Sequences, FiniteSets, SequencesExt

CONSTANTS
  Uploads,      \* file identifiers
  MaxChanges    \* bound of the model: changes by somebody else

\* A directory has finitely many files, and no identifier is the mark of a listing.
ASSUME RebindAssumption == IsFiniteSet(Uploads) /\ "all" \notin Uploads /\ MaxChanges \in Nat

VARIABLES
  store,      \* the files that exist: path -> [body, id]
  changes,    \* changes so far
  rpc,        \* the step of the rebind
  listed,     \* listings: the names seen in the two directories
  queue,      \* journals still to read
  witness,    \* files: path -> identity of what was read
  reading,    \* the payload being hashed: its path and the file that was opened
  probe,      \* listings and files still to look at again
  wanted,     \* --apply was given and the new binding differs from the old one
  binding,    \* "old" or "new"
  together    \* history: everything was sound at some moment of the last recheck

rebindVars == <<store, changes, rpc, listed, queue, witness, reading, probe, wanted, binding, together>>

Paths(dir) == IF dir = "journals" THEN {<<u, "json">> : u \in Uploads}
              ELSE {<<u, s>> : u \in Uploads, s \in {"part", "xfr"}}
Bodies(path) == IF path[2] = "json" THEN {"partial", "committing", "complete"} ELSE {"good", "bad"}
AllPaths == Paths("journals") \cup Paths("ciphertext")
NamesIn(st, dir) == Paths(dir) \cap DOMAIN st

\* The payloads of a journal, and whether they are what it says.
Payloads(st, u) == {<<u, "part">>, <<u, "xfr">>} \cap DOMAIN st
SuffixAgrees(status, path) ==
  /\ status = "partial" => path[2] = "part"
  /\ status = "complete" => path[2] = "xfr"
SoundUpload(st, u) ==
  /\ <<u, "json">> \in DOMAIN st /\ Cardinality(Payloads(st, u)) = 1
  /\ \A p \in Payloads(st, u) : st[p].body = "good" /\ SuffixAgrees(st[<<u, "json">>].body, p)

\* Sound copies and, to be refused, some that are not: the files of each upload and the
\* status of its journal.
CopyOf(files, status) ==
  [p \in {q \in AllPaths : q[2] \in files[q[1]]} |->
     [body |-> IF p[2] = "json" THEN status[p[1]] ELSE "good", id |-> 0]]
Copies ==
  {CopyOf(files, status) :
     files \in [Uploads -> {{}, {"json"}, {"part"}, {"json", "part"}, {"json", "xfr"}, {"json", "part", "xfr"}}],
     status \in [Uploads -> {"partial", "complete", "committing"}]}

\* Every upload the rebind counts is sound, and there is no payload beside theirs.
Counted == {j[1] : j \in listed["journals"]}
AllSound(st) ==
  /\ \A u \in Counted : SoundUpload(st, u)
  /\ NamesIn(st, "ciphertext") = UNION {Payloads(st, u) : u \in Counted}

Rechecking == rpc \in {"recheck", "recheck_again"}

NotReading == [path |-> "none"]

RebindInit ==
  /\ store \in Copies /\ changes = 0 /\ rpc = "list_journals"
  /\ listed = [d \in {"journals", "ciphertext"} |-> {}] /\ queue = << >>
  /\ witness = << >> /\ reading = NotReading /\ probe = << >>
  /\ wanted \in BOOLEAN /\ binding = "old" /\ together = FALSE
-----------------------------------------------------------------------------
\* A writer that was not stopped replaces, creates or removes one file.
Intrude ==
  /\ changes < MaxChanges /\ rpc \notin {"refused", "done", "uncertain"}
  /\ changes' = changes + 1
  /\ \E p \in AllPaths :
       \/ \E b \in Bodies(p) :
            store' = [q \in DOMAIN store \cup {p} |->
                        IF q = p THEN [body |-> b, id |-> changes + 1] ELSE store[q]]
       \/ p \in DOMAIN store /\ store' = [q \in DOMAIN store \ {p} |-> store[q]]
  /\ together' = (together \/ (Rechecking /\ AllSound(store')))
  /\ UNCHANGED <<rpc, listed, queue, witness, reading, probe, wanted, binding>>

Refuse ==
  /\ rpc' = "refused"
  /\ UNCHANGED <<store, changes, listed, queue, witness, reading, probe, wanted, binding, together>>

ListJournals ==
  /\ rpc = "list_journals" /\ rpc' = "list_data"
  /\ listed' = [listed EXCEPT !["journals"] = NamesIn(store, "journals")]
  /\ queue' = SetToSeq(NamesIn(store, "journals"))
  /\ UNCHANGED <<store, changes, witness, reading, probe, wanted, binding, together>>

ListData ==
  /\ rpc = "list_data" /\ rpc' = "records"
  /\ listed' = [listed EXCEPT !["ciphertext"] = NamesIn(store, "ciphertext")]
  /\ UNCHANGED <<store, changes, queue, witness, reading, probe, wanted, binding, together>>

Witnessed(path, id) == [p \in DOMAIN witness \cup {path} |-> IF p = path THEN id ELSE witness[p]]

\* The payload of a journal goes by the listing, not by what is there now.
ListedPayloads(u) == {<<u, "part">>, <<u, "xfr">>} \cap listed["ciphertext"]

JournalAgrees(path) ==
  /\ path \in DOMAIN store /\ Cardinality(ListedPayloads(path[1])) = 1
  /\ \A p \in ListedPayloads(path[1]) : p \in DOMAIN store /\ SuffixAgrees(store[path].body, p)

\* The journal is read and decoded, and its payload opened.
ReadJournal ==
  /\ rpc = "records" /\ queue # << >> /\ JournalAgrees(Head(queue))
  /\ witness' = Witnessed(Head(queue), store[Head(queue)].id) /\ queue' = Tail(queue)
  /\ reading' = LET p == CHOOSE q \in ListedPayloads(Head(queue)[1]) : TRUE
                IN [path |-> p, file |-> store[p]]
  /\ rpc' = "payload"
  /\ UNCHANGED <<store, changes, listed, probe, wanted, binding, together>>

JournalRefused == rpc = "records" /\ queue # << >> /\ ~JournalAgrees(Head(queue)) /\ Refuse

\* _verify_payload hashes the file it has opened, also when its name is replaced or removed
\* meanwhile; the witness is the file that was opened.
PayloadVerified ==
  /\ rpc = "payload" /\ reading.file.body = "good"
  /\ witness' = Witnessed(reading.path, reading.file.id) /\ reading' = NotReading /\ rpc' = "records"
  /\ UNCHANGED <<store, changes, listed, queue, probe, wanted, binding, together>>

\* A digest differs, or the file is written to while it is open.
SameFile(path, file) == path \in DOMAIN store /\ store[path] = file
PayloadRefused ==
  /\ rpc = "payload"
  /\ reading.file.body = "good" => ~SameFile(reading.path, reading.file)
  /\ Refuse

Read == {p \in DOMAIN witness : p[2] # "json"}
OrphanRefused == rpc = "records" /\ queue = << >> /\ listed["ciphertext"] # Read /\ Refuse

\* Mutant: files that were added are not looked for.
ProbesFilesOnly == SetToSeq(DOMAIN witness)

\* recheck: the listings, then every file that was read.
Probes == << <<"all", "journals">>, <<"all", "ciphertext">> >> \o SetToSeq(DOMAIN witness)

BeginRecheck ==
  /\ \/ rpc = "records" /\ queue = << >> /\ listed["ciphertext"] = Read /\ rpc' = "recheck"
     \/ rpc = "publish" /\ rpc' = "recheck_again"
  /\ probe' = Probes /\ together' = AllSound(store)
  /\ UNCHANGED <<store, changes, listed, queue, witness, reading, wanted, binding>>

SameAsBefore(x) ==
  IF x[1] = "all" THEN NamesIn(store, x[2]) = listed[x[2]]
  ELSE x \in DOMAIN store /\ store[x].id = witness[x]

Recheck ==
  /\ Rechecking /\ probe # << >> /\ SameAsBefore(Head(probe))
  /\ probe' = Tail(probe)
  /\ UNCHANGED <<store, changes, rpc, listed, queue, witness, reading, wanted, binding, together>>

RecheckRefused == Rechecking /\ probe # << >> /\ ~SameAsBefore(Head(probe)) /\ Refuse

\* Validation only, or nothing to change; otherwise the new binding is written beside the old one.
Validated ==
  /\ rpc = "recheck" /\ probe = << >>
  /\ rpc' = (IF wanted THEN "publish" ELSE "done")
  /\ UNCHANGED <<store, changes, listed, queue, witness, reading, probe, wanted, binding, together>>

\* os.replace, then the fsync of the directory; when that fails the outcome is reported uncertain.
PublishBinding ==
  /\ rpc = "recheck_again" /\ probe = << >>
  /\ binding' = "new" /\ rpc' \in {"done", "uncertain"}
  /\ UNCHANGED <<store, changes, listed, queue, witness, reading, probe, wanted, together>>

\* The temporary file cannot be written, or its name cannot be replaced.
PublishFails == (rpc = "publish" \/ (rpc = "recheck_again" /\ probe = << >>)) /\ Refuse

RebindNext ==
  \/ Intrude \/ ListJournals \/ ListData \/ ReadJournal \/ JournalRefused
  \/ PayloadVerified \/ PayloadRefused \/ OrphanRefused
  \/ BeginRecheck \/ Recheck \/ RecheckRefused \/ Validated \/ PublishBinding \/ PublishFails

RebindSpec == RebindInit /\ [][RebindNext]_rebindVars
-----------------------------------------------------------------------------
(* What a rebind reports as verified, and what it binds, was sound at one moment:        *)
(* although the files are read one after the other and nothing is locked, at some moment *)
(* of the last look at them (_Snapshot.recheck) every upload it counts had one payload   *)
(* with the recorded content, and there was no payload beside those.                     *)
VerifiedTogether == rpc \in {"done", "uncertain"} \/ binding = "new" => together
================================================================================
