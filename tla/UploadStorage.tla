---------------------------- MODULE UploadStorage ----------------------------
(***************************************************************************)
(* xferry/storage.py: the quotas of the uploads directory, shared by plain *)
(* uploads (publish_bytes) and by the encrypted store, whose part files    *)
(* live in the same directory.                                             *)
(*                                                                         *)
(* A quota check lists the directory under the service's lock, one path at *)
(* a time.  What runs without that lock interleaves with the listing:      *)
(* temporary files being written, part files being created, plain files    *)
(* being deleted.  The encrypted store's own lock is taken first, never    *)
(* second.  A temporary file and the name it is linked to share their      *)
(* bytes.  Only this server writes to the file system.                     *)
(***************************************************************************)
EXTENDS Integers, FiniteSetsExt

CONSTANTS
  Threads, Names,    \* request threads; names of plain uploads
  Parts,             \* ids of encrypted uploads
  Sizes,             \* sizes of uploads
  Policies,          \* configurations: the three limits and the size of the disk
  NoThread

ASSUME StorageAssumption ==
  /\ IsFiniteSet(Threads) /\ IsFiniteSet(Parts)
  /\ Sizes \subseteq Nat /\ NoThread \notin Threads
  /\ Policies \subseteq [max_total_bytes : Nat, max_file_count : Nat,
                         reserved_free_bytes : Nat, disk : Nat]
  /\ \A p \in Policies : p.disk >= p.reserved_free_bytes

VARIABLES
  policy,            \* the configuration, fixed at startup
  pc, size,          \* what each thread does, and the size of its upload
  target,            \* the path it writes: <<"plain", n>>, <<"part", p>> or <<"xfr", p>>
  lock, encLock,     \* holders of the service's and of the encrypted store's lock
  reservedBytes, reservedFiles,
  dir,               \* the files in the directory: [paths -> sizes]
  temp,              \* bytes of each thread's hidden temporary file
  holes,             \* bytes of a part file that the file system has not allocated
  scan               \* the lock holder's listing: paths left, bytes and files seen

vars == <<policy, pc, size, target, lock, encLock, reservedBytes, reservedFiles, dir, temp,
          holes, scan>>
reservations == <<reservedBytes, reservedFiles>>

Paths == ({"plain"} \X Names) \cup ({"part", "xfr"} \X Parts)
NoScan == [todo |-> {}, bytes |-> 0, files |-> 0]

Total(f) == SumFunction(f)
Free == policy.disk - Total(dir) - Total(temp) + Total(holes)

Init ==
  /\ policy \in Policies
  /\ pc = [t \in Threads |-> "idle"] /\ size = [t \in Threads |-> 0]
  /\ target = [t \in Threads |-> <<>>]
  /\ lock = NoThread /\ encLock = NoThread
  /\ reservedBytes = 0 /\ reservedFiles = 0
  /\ dir = << >> /\ temp = [t \in Threads |-> 0] /\ holes = [p \in Parts |-> 0]
  /\ scan = NoScan
-----------------------------------------------------------------------------
Goto(t, step) == pc' = [pc EXCEPT ![t] = step]
Without(f, ps) == Restrict(f, DOMAIN f \ ps)
With(f, p, n) == [q \in DOMAIN f \cup {p} |-> IF q = p THEN n ELSE f[q]]

Reserve(t) ==
  /\ reservedBytes' = reservedBytes + size[t]
  /\ reservedFiles' = reservedFiles + 1

Release(t) ==
  /\ reservedBytes' = reservedBytes - size[t]
  /\ reservedFiles' = reservedFiles - 1

\* publish_bytes and create: the lock is taken and the listing starts.
BeginPlain(t, n, s) ==
  /\ pc[t] = "idle"
  /\ size' = [size EXCEPT ![t] = s]
  /\ target' = [target EXCEPT ![t] = <<"plain", n>>]
  /\ Goto(t, "reserve")
  /\ UNCHANGED <<policy, lock, encLock, reservations, dir, temp, holes, scan>>

BeginEncrypted(t, p, s) ==
  /\ pc[t] = "idle" /\ encLock = NoThread
  /\ {<<"part", p>>, <<"xfr", p>>} \cap DOMAIN dir = {}
  /\ encLock' = t
  /\ size' = [size EXCEPT ![t] = s]
  /\ target' = [target EXCEPT ![t] = <<"part", p>>]
  /\ Goto(t, "reserve")
  /\ UNCHANGED <<policy, lock, reservations, dir, temp, holes, scan>>

StartScan(t) ==
  /\ lock = NoThread
  /\ lock' = t
  /\ scan' = [NoScan EXCEPT !.todo = Paths]

LockForReserve(t) ==
  /\ pc[t] = "reserve" /\ StartScan(t)
  /\ Goto(t, "admit")
  /\ UNCHANGED <<policy, size, target, encLock, reservations, dir, temp, holes>>

\* current_usage: the next path of the listing, in any order.
Scan(t, p) ==
  /\ lock = t /\ p \in scan.todo
  /\ scan' = IF p \in DOMAIN dir
             THEN [todo |-> scan.todo \ {p}, bytes |-> scan.bytes + dir[p],
                   files |-> scan.files + 1]
             ELSE [scan EXCEPT !.todo = @ \ {p}]
  /\ UNCHANGED <<policy, pc, size, target, lock, encLock, reservations, dir, temp, holes>>

\* Mutant: only what the listing found counts.
WithinPolicyListed(t, b, f) ==
  /\ scan.bytes + size[t] <= policy.max_total_bytes
  /\ scan.files + 1 <= policy.max_file_count

\* _check_accepts, for b and f reserved by the others.
WithinPolicy(t, b, f) ==
  /\ scan.bytes + b + size[t] <= policy.max_total_bytes
  /\ scan.files + f + 1 <= policy.max_file_count

FreeEnough(t) ==
  Free >= policy.reserved_free_bytes + Total(holes) + reservedBytes + size[t]

Scanned(t, step) == pc[t] = step /\ lock = t /\ scan.todo = {}
Unlock == lock' = NoThread /\ scan' = NoScan

\* A request ends; the encrypted store's lock goes with it.
Finish(t) ==
  /\ Goto(t, "idle")
  /\ size' = [size EXCEPT ![t] = 0]
  /\ target' = [target EXCEPT ![t] = <<>>]
  /\ encLock' = IF encLock = t THEN NoThread ELSE encLock

Admit(t) ==
  /\ Scanned(t, "admit")
  /\ WithinPolicy(t, reservedBytes, reservedFiles) /\ FreeEnough(t)
  /\ Reserve(t)
  /\ Unlock
  /\ Goto(t, IF target[t][1] = "plain" THEN "write" ELSE "create")
  /\ UNCHANGED <<policy, size, target, encLock, dir, temp, holes>>

Refuse(t) ==
  /\ Scanned(t, "admit")
  /\ ~(WithinPolicy(t, reservedBytes, reservedFiles) /\ FreeEnough(t))
  /\ Unlock
  /\ Finish(t)
  /\ UNCHANGED <<policy, reservations, dir, temp, holes>>
-----------------------------------------------------------------------------
\* A plain upload: the temporary file, then its publication.

WriteTemp(t) ==
  /\ pc[t] = "write" /\ Free >= size[t]
  /\ temp' = [temp EXCEPT ![t] = size[t]]
  /\ Goto(t, "publish")
  /\ UNCHANGED <<policy, size, target, lock, encLock, reservations, dir, holes, scan>>

\* ENOSPC or any other error: the temporary file and the reservation go.
WriteTempFails(t) ==
  /\ pc[t] = "write" /\ lock = NoThread
  /\ Release(t)
  /\ Finish(t)
  /\ UNCHANGED <<policy, lock, dir, temp, holes, scan>>

LockForPublish(t) ==
  /\ pc[t] = "publish" /\ StartScan(t)
  /\ Release(t)
  /\ Goto(t, "check")
  /\ UNCHANGED <<policy, size, target, encLock, dir, temp, holes>>

\* _link_unique_temp: the wanted name or another free one.
Link(t, n) ==
  /\ Scanned(t, "check")
  /\ WithinPolicy(t, reservedBytes, reservedFiles)
  /\ Free >= policy.reserved_free_bytes + Total(holes)
  /\ n = target[t][2] \/ target[t] \in DOMAIN dir
  /\ <<"plain", n>> \notin DOMAIN dir
  /\ dir' = With(dir, <<"plain", n>>, size[t])
  /\ temp' = [temp EXCEPT ![t] = 0]
  /\ Unlock
  /\ Goto(t, "cleanup")
  /\ UNCHANGED <<policy, size, target, encLock, reservations, holes>>

\* Over the quota after all, or the link fails.
LinkRefused(t) ==
  /\ Scanned(t, "check")
  /\ Unlock
  /\ Goto(t, "cleanup")
  /\ UNCHANGED <<policy, size, target, encLock, reservations, dir, temp, holes>>

\* The finally block removes the temporary name, after the lock is free again.
RemoveTemp(t) ==
  /\ pc[t] = "cleanup"
  /\ temp' = [temp EXCEPT ![t] = 0]
  /\ Finish(t)
  /\ UNCHANGED <<policy, lock, reservations, dir, holes, scan>>

\* DELETE and clear of the files handler: no lock of this service.
DeletePlain(n) ==
  /\ <<"plain", n>> \in DOMAIN dir
  /\ dir' = Without(dir, {<<"plain", n>>})
  /\ UNCHANGED <<policy, pc, size, target, lock, encLock, reservations, temp, holes, scan>>
-----------------------------------------------------------------------------
\* The encrypted store: a part file made under a reservation, and changes of
\* existing files made under mutation().

\* _create_sized_file: allocated, or sparse where fallocate is unsupported.
CreatePart(t) ==
  /\ pc[t] = "create"
  /\ \E h \in {0, size[t]} :
       /\ Free >= size[t] - h
       /\ holes' = [holes EXCEPT ![target[t][2]] = h]
  /\ dir' = With(dir, target[t], size[t])
  /\ Goto(t, "created")
  /\ UNCHANGED <<policy, size, target, lock, encLock, reservations, temp, scan>>

\* The reservation ends with the `with` block.
CreateDone(t) ==
  /\ pc[t] = "created" /\ lock = NoThread
  /\ Release(t)
  /\ Finish(t)
  /\ UNCHANGED <<policy, lock, dir, temp, holes, scan>>

CreateUndone(t) ==
  /\ pc[t] \in {"create", "created"}
  /\ dir' = Without(dir, {target[t]})
  /\ holes' = [holes EXCEPT ![target[t][2]] = 0]
  /\ Goto(t, "undone")
  /\ UNCHANGED <<policy, size, target, lock, encLock, reservations, temp, scan>>

CreateFailed(t) ==
  /\ pc[t] = "undone" /\ lock = NoThread
  /\ Release(t)
  /\ Finish(t)
  /\ UNCHANGED <<policy, lock, dir, temp, holes, scan>>

Mutation == encLock = NoThread /\ lock = NoThread

\* write_chunk: bytes of a sparse part become allocated.
FillPart(p) ==
  /\ Mutation /\ <<"part", p>> \in DOMAIN dir
  /\ holes[p] > 0
  /\ holes' = [holes EXCEPT ![p] = @ - 1]
  /\ UNCHANGED <<policy, pc, size, target, lock, encLock, reservations, dir, temp, scan>>

\* complete: the part becomes the published file.
RenamePart(p) ==
  /\ Mutation /\ <<"part", p>> \in DOMAIN dir /\ holes[p] = 0
  /\ dir' = With(Without(dir, {<<"part", p>>}), <<"xfr", p>>, dir[<<"part", p>>])
  /\ UNCHANGED <<policy, pc, size, target, lock, encLock, reservations, temp, holes, scan>>

DeletePart(p) ==
  /\ Mutation /\ {<<"part", p>>, <<"xfr", p>>} \cap DOMAIN dir # {}
  /\ dir' = Without(dir, {<<"part", p>>, <<"xfr", p>>})
  /\ holes' = [holes EXCEPT ![p] = 0]
  /\ UNCHANGED <<policy, pc, size, target, lock, encLock, reservations, temp, scan>>
-----------------------------------------------------------------------------
ThreadStep(t) ==
  \/ LockForReserve(t) \/ Admit(t) \/ Refuse(t)
  \/ \E p \in Paths : Scan(t, p)
  \/ WriteTemp(t) \/ WriteTempFails(t) \/ LockForPublish(t) \/ LinkRefused(t) \/ RemoveTemp(t)
  \/ \E n \in Names : Link(t, n)
  \/ CreatePart(t) \/ CreateDone(t) \/ CreateUndone(t) \/ CreateFailed(t)

Next ==
  \/ \E t \in Threads, s \in Sizes :
       (\E n \in Names : BeginPlain(t, n, s)) \/ (\E p \in Parts : BeginEncrypted(t, p, s))
  \/ \E t \in Threads : ThreadStep(t)
  \/ \E n \in Names : DeletePlain(n)
  \/ \E p \in Parts : FillPart(p) \/ RenamePart(p) \/ DeletePart(p)

Spec == Init /\ [][Next]_vars
-----------------------------------------------------------------------------
Reserving == {t \in Threads : pc[t] \in {"write", "publish", "create", "created", "undone"}}

(***************************************************************************)
(* Every reservation belongs to a request that is still writing, so that   *)
(* refusals, failures and completed uploads all give theirs back.          *)
(***************************************************************************)
ReservationsExact ==
  /\ reservedFiles = Cardinality(Reserving)
  /\ reservedBytes = SumFunctionOnSet(size, Reserving)

(***************************************************************************)
(* The files in the directory never exceed the byte and the file quota,    *)
(* whatever is created, renamed or deleted while a check lists them.       *)
(***************************************************************************)
WithinQuota ==
  /\ Total(dir) <= policy.max_total_bytes
  /\ Cardinality(DOMAIN dir) <= policy.max_file_count

\* Bytes the service has promised and the file system has not given out yet.
Promised ==
  Total(holes) + SumFunctionOnSet(size, {t \in Threads : pc[t] \in {"write", "create"}})

(***************************************************************************)
(* The free-space reserve is kept, and every admitted byte still fits,     *)
(* sparse part files included.                                             *)
(***************************************************************************)
FreeSpaceKept == Free - Promised >= policy.reserved_free_bytes

\* The policy of the uploads directory holds while uploads of both kinds, deletions and
\* failures overlap: what is reserved is what is under way, and neither the quotas nor the
\* free space are overdrawn.
QuotaSound == ReservationsExact /\ WithinQuota /\ FreeSpaceKept
==============================================================================
