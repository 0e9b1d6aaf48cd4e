------------------------- MODULE UploadStorageProofs -------------------------
(***************************************************************************)
(* Proof that the quotas of the uploads directory hold, for every number   *)
(* of requests, every set of names and every policy.  The listing of a     *)
(* check is not atomic: files come and go while it runs.                   *)
(***************************************************************************)
EXTENDS UploadStorage, SumProofs

Steps == {"idle", "reserve", "admit", "write", "publish", "check", "cleanup",
          "create", "created", "undone"}

Listing == [todo : SUBSET Paths, bytes : Nat, files : Nat]

DirTyped ==
  /\ IsFiniteSet(DOMAIN dir) /\ DOMAIN dir \subseteq Paths
  /\ \A x \in DOMAIN dir : dir[x] \in Nat

Typed ==
  /\ policy \in Policies
  /\ pc \in [Threads -> Steps] /\ size \in [Threads -> Nat] /\ temp \in [Threads -> Nat]
  /\ holes \in [Parts -> Nat] /\ target \in [Threads -> Paths \cup {<<>>}]
  /\ lock \in Threads \cup {NoThread} /\ encLock \in Threads \cup {NoThread}
  /\ reservedBytes \in Int /\ reservedFiles \in Int
  /\ scan \in Listing
  /\ DirTyped

PartPaths == {"part"} \X Parts
PlainPaths == {"plain"} \X Names

\* What a request at each step works on, and which locks it holds.
RequestsPlaced ==
  \A t \in Threads :
    /\ lock = t <=> pc[t] \in {"admit", "check"}
    /\ pc[t] \in {"write", "publish", "check"} => target[t] \in PlainPaths
    /\ pc[t] \in {"reserve", "admit"} => target[t] \in PlainPaths \cup PartPaths
    /\ pc[t] \in {"create", "created", "undone"} => target[t] \in PartPaths
    /\ (pc[t] # "idle" /\ target[t] \in PartPaths) => encLock = t
    /\ pc[t] \in {"publish", "check"} => temp[t] = size[t]
    /\ pc[t] \notin {"publish", "check", "cleanup"} => temp[t] = 0

\* An encrypted upload has one file, and a new one has none until it is created.
PartsPlaced ==
  /\ \A p \in Parts : <<"part", p>> \notin DOMAIN dir \/ <<"xfr", p>> \notin DOMAIN dir
  /\ \A t \in Threads :
       /\ (pc[t] \in {"reserve", "admit", "create"} /\ target[t] \in PartPaths)
            => {target[t], <<"xfr", target[t][2]>>} \cap DOMAIN dir = {}
       /\ pc[t] = "created" => target[t] \in DOMAIN dir /\ dir[target[t]] = size[t]

\* Files still under a reservation, the others, and those a listing has been past.
Made == {target[t] : t \in {u \in Threads : pc[u] = "created"}}
Settled == DOMAIN dir \ Made
Listed == Settled \ scan.todo

Bytes(paths) == SumFunctionOnSet(dir, paths)

(***************************************************************************)
(* The inductive invariant of the quotas: what the listing has found       *)
(* covers the settled files it has been past, and the settled files and    *)
(* the reservations together stay within the policy.                       *)
(***************************************************************************)
ListingCovers ==
  lock # NoThread => Bytes(Listed) <= scan.bytes /\ Cardinality(Listed) <= scan.files

WithinPromise ==
  /\ Bytes(Settled) + reservedBytes <= policy.max_total_bytes
  /\ Cardinality(Settled) + reservedFiles <= policy.max_file_count

Promising == {t \in Threads : pc[t] \in {"write", "create"}}

\* The free space less what is promised; bytes not allocated yet are promised.
SpaceLeft ==
  policy.disk - Total(dir) - Total(temp) - SumFunctionOnSet(size, Promising)
    >= policy.reserved_free_bytes

QuotaInv ==
  /\ Typed /\ RequestsPlaced /\ PartsPlaced
  /\ ReservationsExact /\ ListingCovers /\ WithinPromise /\ SpaceLeft
-----------------------------------------------------------------------------
LEMMA Kinds ==
  /\ \A x \in PlainPaths : x \in Paths /\ x[1] = "plain" /\ x[2] \in Names /\ x \notin PartPaths
  /\ \A x \in PartPaths : x \in Paths /\ x[1] = "part" /\ x[2] \in Parts /\ x = <<"part", x[2]>>
  /\ \A n \in Names : <<"plain", n>> \in PlainPaths
  /\ \A p \in Parts : /\ <<"part", p>> \in PartPaths /\ <<"xfr", p>> \in Paths
                      /\ <<"xfr", p>> \notin PartPaths
  /\ \A n, p : <<"plain", n>> # <<"part", p>> /\ <<"plain", n>> # <<"xfr", p>>
  /\ \A x \in Paths : x # <<>>
  BY DEF PlainPaths, PartPaths, Paths

LEMMA DirGrows ==
  ASSUME NEW x, NEW n, dir' = With(dir, x, n)
  PROVE  /\ DOMAIN dir' = DOMAIN dir \cup {x} /\ dir'[x] = n
         /\ \A y \in DOMAIN dir \ {x} : dir'[y] = dir[y]
  BY DEF With

LEMMA DirShrinks ==
  ASSUME NEW ps, dir' = Without(dir, ps)
  PROVE  DOMAIN dir' = DOMAIN dir \ ps /\ \A y \in DOMAIN dir \ ps : dir'[y] = dir[y]
  BY DEF Without, Restrict

LEMMA WithTyped ==
  ASSUME DirTyped, NEW x \in Paths, NEW n \in Nat, dir' = With(dir, x, n)
  PROVE  DirTyped'
  <1>1. /\ DOMAIN dir' = DOMAIN dir \cup {x} /\ dir'[x] = n
        /\ \A y \in DOMAIN dir \ {x} : dir'[y] = dir[y]
    BY DirGrows
  <1>2. IsFiniteSet(DOMAIN dir')
    BY <1>1, FS_AddElement DEF DirTyped
  <1> QED
    BY <1>1, <1>2 DEF DirTyped

LEMMA WithoutTyped ==
  ASSUME DirTyped, NEW ps, dir' = Without(dir, ps)
  PROVE  DirTyped'
  <1>1. /\ DOMAIN dir' = DOMAIN dir \ ps
        /\ \A y \in DOMAIN dir \ ps : dir'[y] = dir[y]
    BY DirShrinks
  <1>2. IsFiniteSet(DOMAIN dir')
    BY <1>1, FS_Subset DEF DirTyped
  <1> QED
    BY <1>1, <1>2 DEF DirTyped

\* A part that becomes the published file.
LEMMA RenameTyped ==
  ASSUME DirTyped, NEW p \in Parts, RenamePart(p)
  PROVE  DirTyped'
  <1> DEFINE rest == Without(dir, {<<"part", p>>})
             n == dir[<<"part", p>>]
  <1>1. /\ DOMAIN rest = DOMAIN dir \ {<<"part", p>>}
        /\ \A y \in DOMAIN rest : rest[y] = dir[y]
    BY DEF Without, Restrict
  <1>2. n \in Nat /\ dir' = With(rest, <<"xfr", p>>, n) /\ <<"xfr", p>> \in Paths
    BY Kinds DEF RenamePart, DirTyped
  <1>3. /\ DOMAIN dir' = DOMAIN rest \cup {<<"xfr", p>>} /\ dir'[<<"xfr", p>>] = n
        /\ \A y \in DOMAIN rest \ {<<"xfr", p>>} : dir'[y] = rest[y]
    BY <1>2 DEF With
  <1>4. IsFiniteSet(DOMAIN rest)
    BY <1>1, FS_Subset DEF DirTyped
  <1>5. IsFiniteSet(DOMAIN dir')
    BY <1>3, <1>4, FS_AddElement
  <1> HIDE DEF rest, n
  <1> QED
    BY <1>1, <1>2, <1>3, <1>5 DEF DirTyped


LEMMA ListingStarts ==
  /\ \A t \in Threads : StartScan(t) => scan' \in Listing /\ scan'.todo = Paths /\ lock' = t
  /\ Unlock => scan' \in Listing /\ lock' = NoThread
  BY DEF Listing, StartScan, Unlock, NoScan

LEMMA RequestEndTyped ==
  ASSUME Typed, NEW t \in Threads
  PROVE  /\ Finish(t) => /\ pc' \in [Threads -> Steps] /\ size' \in [Threads -> Nat]
                         /\ target' \in [Threads -> Paths \cup {<<>>}]
                         /\ encLock' \in Threads \cup {NoThread}
         /\ Reserve(t) \/ Release(t) => reservedBytes' \in Int /\ reservedFiles' \in Int
  <1>1. Finish(t) => /\ pc' \in [Threads -> Steps] /\ size' \in [Threads -> Nat]
                     /\ encLock' \in Threads \cup {NoThread}
    BY DEF Typed, Finish, Goto, Steps
  <1>2. Finish(t) => target' \in [Threads -> Paths \cup {<<>>}]
    BY DEF Typed, Finish
  <1>3. Reserve(t) \/ Release(t) => reservedBytes' \in Int /\ reservedFiles' \in Int
    <2> size[t] \in Nat /\ reservedBytes \in Int /\ reservedFiles \in Int
      BY DEF Typed
    <2> QED
      BY DEF Reserve, Release
  <1> QED
    BY <1>1, <1>2, <1>3

LEMMA RequestTyped ==
  ASSUME Typed, RequestsPlaced, NEW t \in Threads, ThreadStep(t)
  PROVE  Typed'
  <1>a. DirTyped
    BY DEF Typed
  <1>b. scan \in Listing
    BY DEF Typed
  <1>c. /\ Finish(t) => /\ pc' \in [Threads -> Steps] /\ size' \in [Threads -> Nat]
                        /\ target' \in [Threads -> Paths \cup {<<>>}]
                        /\ encLock' \in Threads \cup {NoThread}
        /\ Reserve(t) \/ Release(t) => reservedBytes' \in Int /\ reservedFiles' \in Int
    BY RequestEndTyped
  <1>d. \A s \in Steps : Goto(t, s) => pc' \in [Threads -> Steps]
    BY DEF Typed, Goto
  <1> USE DEF Typed, reservations
  <1>1. CASE LockForReserve(t) \/ Admit(t) \/ Refuse(t)
    <2>1. DirTyped'
      BY <1>a, <1>1 DEF LockForReserve, Admit, Refuse, DirTyped
    <2>2. scan' \in Listing /\ lock' \in Threads \cup {NoThread}
      BY <1>1, ListingStarts DEF LockForReserve, Admit, Refuse
    <2>3. {"admit", "write", "create"} \subseteq Steps
      BY DEF Steps
    <2> QED
      BY <1>1, <1>c, <1>d, <2>1, <2>2, <2>3 DEF LockForReserve, Admit, Refuse
  <1>2. ASSUME NEW x \in Paths, Scan(t, x)
        PROVE  Typed'
    <2>1. DirTyped'
      BY <1>a, <1>2 DEF Scan, DirTyped
    <2>2. scan' \in Listing
      <3>1. CASE x \in DOMAIN dir
        <4>1. dir[x] \in Nat
          BY <1>a, <3>1 DEF DirTyped
        <4>2. scan' = [todo |-> scan.todo \ {x}, bytes |-> scan.bytes + dir[x],
                       files |-> scan.files + 1]
          BY <1>2, <3>1 DEF Scan
        <4> HIDE DEF Typed
        <4> QED
          BY <1>b, <4>1, <4>2 DEF Listing
      <3>2. CASE x \notin DOMAIN dir
        BY <1>2, <3>2 DEF Scan, Listing
      <3> QED
        BY <3>1, <3>2
    <2> QED
      BY <1>2, <2>1, <2>2 DEF Scan
  <1>3. CASE WriteTemp(t) \/ WriteTempFails(t) \/ LockForPublish(t) \/ LinkRefused(t)
             \/ RemoveTemp(t) \/ CreateDone(t) \/ CreateFailed(t)
    <2>1. DirTyped'
      BY <1>a, <1>3 DEF WriteTemp, WriteTempFails, LockForPublish, LinkRefused, RemoveTemp,
                        CreateDone, CreateFailed, DirTyped
    <2>2. scan' \in Listing /\ lock' \in Threads \cup {NoThread}
      BY <1>3, ListingStarts DEF WriteTemp, WriteTempFails, LockForPublish, LinkRefused,
                                 RemoveTemp, CreateDone, CreateFailed
    <2>3. {"publish", "check", "cleanup"} \subseteq Steps
      BY DEF Steps
    <2>4. CASE WriteTemp(t) \/ LockForPublish(t) \/ LinkRefused(t)
      BY <1>c, <1>d, <2>1, <2>2, <2>3, <2>4 DEF WriteTemp, LockForPublish, LinkRefused
    <2>5. CASE WriteTempFails(t) \/ RemoveTemp(t)
      BY <1>c, <2>1, <2>2, <2>5 DEF WriteTempFails, RemoveTemp
    <2>6. CASE CreateDone(t) \/ CreateFailed(t)
      BY <1>c, <2>1, <2>2, <2>6 DEF CreateDone, CreateFailed
    <2> QED
      BY <1>3, <2>4, <2>5, <2>6
  <1>4. ASSUME NEW n \in Names, Link(t, n)
        PROVE  Typed'
    <2>1. DirTyped'
      <3>1. <<"plain", n>> \in Paths /\ size[t] \in Nat
        BY Kinds
      <3>2. dir' = With(dir, <<"plain", n>>, size[t])
        BY <1>4 DEF Link
      <3> QED
        BY <1>a, <3>1, <3>2, WithTyped
    <2>2. scan' \in Listing /\ lock' \in Threads \cup {NoThread}
      BY <1>4, ListingStarts DEF Link
    <2>3. "cleanup" \in Steps
      BY DEF Steps
    <2> QED
      BY <1>4, <1>d, <2>1, <2>2, <2>3 DEF Link
  <1>5. CASE CreatePart(t)
    <2>1. target[t] \in PartPaths /\ size[t] \in Nat
      BY <1>5 DEF CreatePart, RequestsPlaced
    <2>2. target[t] \in Paths /\ target[t][2] \in Parts
      BY <2>1, Kinds
    <2>3. DirTyped'
      <3>1. dir' = With(dir, target[t], size[t])
        BY <1>5 DEF CreatePart
      <3> QED
        BY <1>a, <2>1, <2>2, <3>1, WithTyped
    <2>4. holes' \in [Parts -> Nat]
      BY <1>5, <2>1, <2>2 DEF CreatePart
    <2>5. "created" \in Steps
      BY DEF Steps
    <2> QED
      BY <1>5, <1>d, <2>3, <2>4, <2>5 DEF CreatePart
  <1>6. CASE CreateUndone(t)
    <2>1. DirTyped'
      <3>1. dir' = Without(dir, {target[t]})
        BY <1>6 DEF CreateUndone
      <3> QED
        BY <1>a, <3>1, WithoutTyped
    <2>2. holes' \in [Parts -> Nat]
      BY <1>6 DEF CreateUndone
    <2>3. "undone" \in Steps
      BY DEF Steps
    <2> QED
      BY <1>6, <1>d, <2>1, <2>2, <2>3 DEF CreateUndone
  <1> QED
    BY <1>1, <1>2, <1>3, <1>4, <1>5, <1>6 DEF ThreadStep

LEMMA OtherTyped ==
  ASSUME Typed, RequestsPlaced
  PROVE  /\ \A t \in Threads, n \in Names, s \in Sizes : BeginPlain(t, n, s) => Typed'
         /\ \A t \in Threads, p \in Parts, s \in Sizes : BeginEncrypted(t, p, s) => Typed'
         /\ \A n \in Names : DeletePlain(n) => Typed'
         /\ \A p \in Parts : FillPart(p) \/ RenamePart(p) \/ DeletePart(p) => Typed'
         /\ UNCHANGED vars => Typed'
  <1>a. DirTyped
    BY DEF Typed
  <1> USE StorageAssumption DEF Typed, Steps, Goto, reservations
  <1>1. ASSUME NEW t \in Threads, NEW n \in Names, NEW s \in Sizes, BeginPlain(t, n, s)
        PROVE  Typed'
    <2>1. DirTyped' /\ <<"plain", n>> \in Paths
      BY <1>1, Kinds DEF BeginPlain, DirTyped
    <2> QED
      BY <1>1, <2>1 DEF BeginPlain
  <1>2. ASSUME NEW t \in Threads, NEW p \in Parts, NEW s \in Sizes, BeginEncrypted(t, p, s)
        PROVE  Typed'
    <2>1. DirTyped' /\ <<"part", p>> \in Paths
      BY <1>2, Kinds DEF BeginEncrypted, DirTyped
    <2> QED
      BY <1>2, <2>1 DEF BeginEncrypted
  <1>3. ASSUME NEW n \in Names, DeletePlain(n)
        PROVE  Typed'
    <2>1. DirTyped'
      <3>1. dir' = Without(dir, {<<"plain", n>>})
        BY <1>3 DEF DeletePlain
      <3> QED
        BY <1>a, <3>1, WithoutTyped
    <2> QED
      BY <1>3, <2>1 DEF DeletePlain
  <1>4. ASSUME NEW p \in Parts, FillPart(p)
        PROVE  Typed'
    <2>1. DirTyped'
      BY <1>a, <1>4 DEF FillPart, DirTyped
    <2> QED
      BY <1>4, <2>1 DEF FillPart
  <1>5. ASSUME NEW p \in Parts, RenamePart(p)
        PROVE  Typed'
    <2>1. DirTyped'
      BY <1>a, <1>5, RenameTyped
    <2> QED
      BY <1>5, <2>1 DEF RenamePart
  <1>6. ASSUME NEW p \in Parts, DeletePart(p)
        PROVE  Typed'
    <2>1. DirTyped'
      <3>1. dir' = Without(dir, {<<"part", p>>, <<"xfr", p>>})
        BY <1>6 DEF DeletePart
      <3> QED
        BY <1>a, <3>1, WithoutTyped
    <2> QED
      BY <1>6, <2>1 DEF DeletePart
  <1>7. CASE UNCHANGED vars
    BY <1>a, <1>7 DEF vars, DirTyped
  <1> QED
    BY <1>1, <1>2, <1>3, <1>4, <1>5, <1>6, <1>7
-----------------------------------------------------------------------------
LEMMA RequestPlaced ==
  ASSUME Typed, RequestsPlaced, NEW t \in Threads, ThreadStep(t)
  PROVE  RequestsPlaced'
  <1>a. /\ pc \in [Threads -> Steps] /\ size \in [Threads -> Nat] /\ temp \in [Threads -> Nat]
        /\ target \in [Threads -> Paths \cup {<<>>}] /\ NoThread \notin Threads
    BY StorageAssumption DEF Typed
  <1>b. \A x \in PlainPaths : x \notin PartPaths /\ x[1] = "plain"
    BY Kinds
  <1>c. \A x \in PartPaths : x[1] = "part"
    BY Kinds
  <1> USE DEF RequestsPlaced, Goto, Scanned
  <1>1. CASE LockForReserve(t) \/ LockForPublish(t)
    BY <1>1, <1>a, <1>b DEF LockForReserve, LockForPublish, StartScan
  <1>2. CASE Admit(t) \/ LinkRefused(t)
    BY <1>2, <1>a, <1>b, <1>c DEF Admit, LinkRefused, Unlock
  <1>3. CASE Refuse(t)
    BY <1>3, <1>a, <1>b DEF Refuse, Unlock, Finish
  <1>4. CASE \E x \in Paths : Scan(t, x)
    BY <1>4 DEF Scan
  <1>5. CASE WriteTemp(t)
    BY <1>5, <1>a DEF WriteTemp
  <1>6. CASE WriteTempFails(t) \/ RemoveTemp(t) \/ CreateDone(t) \/ CreateFailed(t)
    BY <1>6, <1>a, <1>b DEF WriteTempFails, RemoveTemp, CreateDone, CreateFailed, Finish
  <1>7. CASE \E n \in Names : Link(t, n)
    BY <1>7, <1>a, <1>b DEF Link, Unlock
  <1>8. CASE CreatePart(t) \/ CreateUndone(t)
    BY <1>8, <1>a DEF CreatePart, CreateUndone
  <1> QED
    BY <1>1, <1>2, <1>3, <1>4, <1>5, <1>6, <1>7, <1>8 DEF ThreadStep

LEMMA OtherPlaced ==
  ASSUME Typed, RequestsPlaced
  PROVE  /\ \A t \in Threads, n \in Names, s \in Sizes : BeginPlain(t, n, s) => RequestsPlaced'
         /\ \A t \in Threads, p \in Parts, s \in Sizes : BeginEncrypted(t, p, s) => RequestsPlaced'
         /\ \A n \in Names : DeletePlain(n) => RequestsPlaced'
         /\ \A p \in Parts : FillPart(p) \/ RenamePart(p) \/ DeletePart(p) => RequestsPlaced'
         /\ UNCHANGED vars => RequestsPlaced'
  <1>a. /\ pc \in [Threads -> Steps] /\ size \in [Threads -> Nat] /\ temp \in [Threads -> Nat]
        /\ target \in [Threads -> Paths \cup {<<>>}] /\ NoThread \notin Threads
    BY StorageAssumption DEF Typed
  <1>b. \A x \in PlainPaths : x \notin PartPaths
    BY Kinds
  <1>1. ASSUME NEW t \in Threads, NEW n \in Names, NEW s \in Sizes, BeginPlain(t, n, s)
        PROVE  RequestsPlaced'
    <2> <<"plain", n>> \in PlainPaths
      BY Kinds
    <2> QED
      BY <1>1, <1>a, <1>b DEF BeginPlain, RequestsPlaced, Goto
  <1>2. ASSUME NEW t \in Threads, NEW p \in Parts, NEW s \in Sizes, BeginEncrypted(t, p, s)
        PROVE  RequestsPlaced'
    <2> <<"part", p>> \in PartPaths
      BY Kinds
    <2> QED
      BY <1>2, <1>a, <1>b DEF BeginEncrypted, RequestsPlaced, Goto
  <1> QED
    BY <1>1, <1>2 DEF DeletePlain, FillPart, RenamePart, DeletePart, vars, RequestsPlaced

LEMMA RequestParts ==
  ASSUME Typed, RequestsPlaced, PartsPlaced, NEW t \in Threads, ThreadStep(t)
  PROVE  PartsPlaced'
  <1>a. /\ pc \in [Threads -> Steps] /\ size \in [Threads -> Nat]
        /\ target \in [Threads -> Paths \cup {<<>>}] /\ NoThread \notin Threads
    BY StorageAssumption DEF Typed
  <1>b. \A x \in PlainPaths : x \notin PartPaths
    BY Kinds
  <1>c. <<>> \notin PartPaths
    BY Kinds
  <1> USE DEF PartsPlaced, Goto, Scanned
  <1>1. CASE LockForReserve(t) \/ LockForPublish(t) \/ LinkRefused(t) \/ WriteTemp(t)
             \/ \E x \in Paths : Scan(t, x)
    BY <1>1, <1>a, <1>b DEF LockForReserve, LockForPublish, LinkRefused, WriteTemp, Scan
  <1>2. CASE Admit(t)
    BY <1>2, <1>a, <1>b, <1>c DEF Admit
  <1>3. CASE Refuse(t) \/ WriteTempFails(t) \/ RemoveTemp(t) \/ CreateDone(t) \/ CreateFailed(t)
    BY <1>3, <1>a, <1>c DEF Refuse, WriteTempFails, RemoveTemp, CreateDone, CreateFailed, Finish
  <1>4. ASSUME NEW n \in Names, Link(t, n)
        PROVE  PartsPlaced'
    <2>1. dir' = With(dir, <<"plain", n>>, size[t])
      BY <1>4 DEF Link
    <2>2. /\ DOMAIN dir' = DOMAIN dir \cup {<<"plain", n>>}
          /\ \A y \in DOMAIN dir \ {<<"plain", n>>} : dir'[y] = dir[y]
      BY <2>1, DirGrows
    <2>3. /\ \A p : <<"plain", n>> # <<"part", p>> /\ <<"plain", n>> # <<"xfr", p>>
          /\ \A x \in PartPaths : x # <<"plain", n>>
      BY Kinds
    <2>4. pc[t] = "check" /\ pc' = [pc EXCEPT ![t] = "cleanup"] /\ UNCHANGED <<size, target>>
      BY <1>4 DEF Link
    <2>5. \A u \in Threads : pc[u] = "created" => target[u] \in PartPaths
      BY DEF RequestsPlaced
    <2> QED
      BY <1>a, <2>2, <2>3, <2>4, <2>5
  <1>5. CASE CreatePart(t)
    <2>1. target[t] \in PartPaths /\ pc[t] = "create" /\ encLock = t
      BY <1>5 DEF CreatePart, RequestsPlaced
    <2>2. dir' = With(dir, target[t], size[t])
      BY <1>5 DEF CreatePart
    <2>3. /\ DOMAIN dir' = DOMAIN dir \cup {target[t]} /\ dir'[target[t]] = size[t]
          /\ \A y \in DOMAIN dir \ {target[t]} : dir'[y] = dir[y]
      BY <2>2, DirGrows
    <2>4. /\ target[t] \notin DOMAIN dir /\ <<"xfr", target[t][2]>> \notin DOMAIN dir
          /\ target[t] = <<"part", target[t][2]>>
      BY <2>1, Kinds
    <2>5. \A u \in Threads \ {t} : /\ pc[u] \in {"reserve", "admit", "create"} => target[u] \notin PartPaths
                                   /\ pc[u] # "created"
      BY <1>a, <2>1 DEF RequestsPlaced
    <2>6. pc' = [pc EXCEPT ![t] = "created"] /\ UNCHANGED <<size, target>>
      BY <1>5 DEF CreatePart
    <2>7. \A p \in Parts : <<"part", p>> \notin DOMAIN dir' \/ <<"xfr", p>> \notin DOMAIN dir'
      <3>1. \A p : <<"xfr", p>> # <<"part", target[t][2]>>
                   /\ (<<"part", p>> = <<"part", target[t][2]>> => p = target[t][2])
        OBVIOUS
      <3> QED
        BY <2>3, <2>4, <3>1
    <2>8. ASSUME NEW u \in Threads
          PROVE  /\ (pc'[u] \in {"reserve", "admit", "create"} /\ target'[u] \in PartPaths)
                       => {target'[u], <<"xfr", target'[u][2]>>} \cap DOMAIN dir' = {}
                 /\ pc'[u] = "created" => target'[u] \in DOMAIN dir' /\ dir'[target'[u]] = size'[u]
      BY <1>a, <2>3, <2>5, <2>6
    <2> QED
      BY <2>7, <2>8
  <1>6. CASE CreateUndone(t)
    <2>1. target[t] \in PartPaths /\ pc[t] \in {"create", "created"} /\ encLock = t
      BY <1>6 DEF CreateUndone, RequestsPlaced
    <2>2. dir' = Without(dir, {target[t]})
      BY <1>6 DEF CreateUndone
    <2>3. /\ DOMAIN dir' = DOMAIN dir \ {target[t]}
          /\ \A y \in DOMAIN dir \ {target[t]} : dir'[y] = dir[y]
      BY <2>2, DirShrinks
    <2>4. \A u \in Threads \ {t} : pc[u] # "created"
      BY <1>a, <2>1 DEF RequestsPlaced
    <2>5. pc' = [pc EXCEPT ![t] = "undone"] /\ UNCHANGED <<size, target>>
      BY <1>6 DEF CreateUndone
    <2> QED
      BY <1>a, <2>3, <2>4, <2>5
  <1> QED
    BY <1>1, <1>2, <1>3, <1>4, <1>5, <1>6 DEF ThreadStep

LEMMA OtherParts ==
  ASSUME Typed, RequestsPlaced, PartsPlaced
  PROVE  /\ \A t \in Threads, n \in Names, s \in Sizes : BeginPlain(t, n, s) => PartsPlaced'
         /\ \A t \in Threads, p \in Parts, s \in Sizes : BeginEncrypted(t, p, s) => PartsPlaced'
         /\ \A n \in Names : DeletePlain(n) => PartsPlaced'
         /\ \A p \in Parts : FillPart(p) \/ RenamePart(p) \/ DeletePart(p) => PartsPlaced'
         /\ UNCHANGED vars => PartsPlaced'
  <1>a. /\ pc \in [Threads -> Steps] /\ size \in [Threads -> Nat]
        /\ target \in [Threads -> Paths \cup {<<>>}] /\ NoThread \notin Threads
    BY StorageAssumption DEF Typed
  <1>1. ASSUME NEW t \in Threads, NEW n \in Names, NEW s \in Sizes, BeginPlain(t, n, s)
        PROVE  PartsPlaced'
    <2> <<"plain", n>> \notin PartPaths
      BY Kinds
    <2> QED
      BY <1>1, <1>a DEF BeginPlain, PartsPlaced, Goto
  <1>2. ASSUME NEW t \in Threads, NEW p \in Parts, NEW s \in Sizes, BeginEncrypted(t, p, s)
        PROVE  PartsPlaced'
    <2>1. <<"part", p>>[2] = p
      OBVIOUS
    <2> QED
      BY <1>2, <1>a, <2>1 DEF BeginEncrypted, PartsPlaced, Goto
  <1>3. ASSUME NEW n \in Names, DeletePlain(n)
        PROVE  PartsPlaced'
    <2>1. dir' = Without(dir, {<<"plain", n>>}) /\ UNCHANGED <<pc, size, target>>
      BY <1>3 DEF DeletePlain
    <2>2. /\ DOMAIN dir' = DOMAIN dir \ {<<"plain", n>>}
          /\ \A y \in DOMAIN dir \ {<<"plain", n>>} : dir'[y] = dir[y]
      BY <2>1, DirShrinks
    <2>3. \A u \in Threads : pc[u] = "created" => target[u] # <<"plain", n>>
      BY Kinds DEF RequestsPlaced
    <2> QED
      BY <2>1, <2>2, <2>3 DEF PartsPlaced
  <1>4. ASSUME NEW p \in Parts, FillPart(p)
        PROVE  PartsPlaced'
    BY <1>4 DEF FillPart, PartsPlaced
  <1>5. ASSUME NEW p \in Parts, RenamePart(p) \/ DeletePart(p)
        PROVE  PartsPlaced'
    <2>1. /\ encLock = NoThread /\ UNCHANGED <<pc, size, target>>
          /\ \A u \in Threads : /\ pc[u] # "created"
                                /\ pc[u] \in {"reserve", "admit", "create"} => target[u] \notin PartPaths
      BY <1>5, <1>a DEF RenamePart, DeletePart, Mutation, RequestsPlaced
    <2>2. \A q \in Parts : <<"part", q>> \notin DOMAIN dir' \/ <<"xfr", q>> \notin DOMAIN dir'
      <3>1. CASE RenamePart(p)
        <4>1. DOMAIN dir' = (DOMAIN dir \ {<<"part", p>>}) \cup {<<"xfr", p>>}
          BY <3>1 DEF RenamePart, With, Without, Restrict
        <4>2. \A q : /\ <<"part", q>> # <<"xfr", p>>
                     /\ <<"xfr", q>> = <<"xfr", p>> => <<"part", q>> = <<"part", p>>
          OBVIOUS
        <4> QED
          BY <4>1, <4>2 DEF PartsPlaced
      <3>2. CASE DeletePart(p)
        <4>1. DOMAIN dir' = DOMAIN dir \ {<<"part", p>>, <<"xfr", p>>}
          BY <3>2 DEF DeletePart, Without, Restrict
        <4> QED
          BY <4>1 DEF PartsPlaced
      <3> QED
        BY <1>5, <3>1, <3>2
    <2> QED
      BY <2>1, <2>2 DEF PartsPlaced
  <1> QED
    BY <1>1, <1>2, <1>3, <1>4, <1>5 DEF vars, PartsPlaced
-----------------------------------------------------------------------------
LEMMA ReservingFinite ==
  /\ IsFiniteSet(Reserving) /\ Cardinality(Reserving) \in Nat
  /\ Typed => \A u \in Reserving : size[u] \in Nat
  <1>1. Reserving \in SUBSET Threads /\ IsFiniteSet(Threads)
    BY StorageAssumption DEF Reserving
  <1> QED
    BY <1>1, FS_Subset, FS_CardinalityType DEF Typed

LEMMA ReservedStay ==
  ASSUME Typed, ReservationsExact, UNCHANGED reservations, Reserving' = Reserving,
         \A u \in Reserving : size'[u] = size[u]
  PROVE  ReservationsExact'
  <1>1. ASSUME NEW g, \A u \in Reserving : g[u] = size[u]
        PROVE  SumFunctionOnSet(g, Reserving) = SumFunctionOnSet(size, Reserving)
    BY <1>1, ReservingFinite, SumSame
  <1>2. SumFunctionOnSet(size', Reserving) = SumFunctionOnSet(size, Reserving)
    BY <1>1
  <1> QED
    BY <1>2 DEF ReservationsExact, reservations

LEMMA ReservedJoins ==
  ASSUME Typed, ReservationsExact, NEW t \in Threads, t \notin Reserving,
         Reserving' = Reserving \cup {t}, size' = size, Reserve(t)
  PROVE  ReservationsExact'
  <1>1. SumFunctionOnSet(size, Reserving \cup {t}) = SumFunctionOnSet(size, Reserving) + size[t]
    <2>1. size[t] \in Int /\ \A u \in Reserving : size[u] \in Int /\ size[u] = size[u]
      BY ReservingFinite DEF Typed
    <2>2. IsFiniteSet(Reserving) /\ t \notin Reserving
      BY ReservingFinite
    <2> HIDE DEF Reserving
    <2> QED
      BY <2>1, <2>2, SumAdd
  <1>2. Cardinality(Reserving \cup {t}) = Cardinality(Reserving) + 1
    BY ReservingFinite, FS_AddElement
  <1> QED
    BY <1>1, <1>2 DEF ReservationsExact, Reserve

LEMMA ReservedLeaves ==
  ASSUME Typed, ReservationsExact, NEW t \in Reserving, Reserving' = Reserving \ {t},
         \A u \in Reserving \ {t} : size'[u] = size[u], Release(t)
  PROVE  ReservationsExact'
  <1>1. ASSUME NEW g, \A u \in Reserving \ {t} : g[u] = size[u]
        PROVE  SumFunctionOnSet(g, Reserving \ {t}) = SumFunctionOnSet(size, Reserving) - size[t]
    BY <1>1, ReservingFinite, SumDrop
  <1>2. SumFunctionOnSet(size', Reserving \ {t}) = SumFunctionOnSet(size, Reserving) - size[t]
    BY <1>1
  <1>3. Cardinality(Reserving \ {t}) = Cardinality(Reserving) - 1
    BY ReservingFinite, FS_RemoveElement
  <1> QED
    BY <1>2, <1>3 DEF ReservationsExact, Release

LEMMA RequestReserves ==
  ASSUME Typed, ReservationsExact, NEW t \in Threads, ThreadStep(t)
  PROVE  ReservationsExact'
  <1>a. pc \in [Threads -> Steps] /\ size \in [Threads -> Nat]
    BY DEF Typed
  <1> USE DEF Goto, Scanned
  <1>1. CASE LockForReserve(t) \/ LinkRefused(t) \/ WriteTemp(t) \/ (\E x \in Paths : Scan(t, x))
             \/ (\E n \in Names : Link(t, n)) \/ CreatePart(t) \/ CreateUndone(t)
    <2>1. Reserving' = Reserving /\ UNCHANGED <<reservations, size>>
      BY <1>1, <1>a DEF LockForReserve, LinkRefused, WriteTemp, Scan, Link, CreatePart,
                        CreateUndone, Reserving
    <2> QED
      BY <2>1, ReservedStay
  <1>2. CASE Refuse(t) \/ RemoveTemp(t)
    <2>1. /\ Reserving' = Reserving /\ UNCHANGED reservations
          /\ \A u \in Reserving : size'[u] = size[u]
      BY <1>2, <1>a DEF Refuse, RemoveTemp, Finish, Reserving
    <2> QED
      BY <2>1, ReservedStay
  <1>3. CASE Admit(t)
    <2>1. /\ t \notin Reserving /\ Reserving' = Reserving \cup {t} /\ size' = size /\ Reserve(t)
      BY <1>3, <1>a DEF Admit, Reserving
    <2> QED
      BY <2>1, ReservedJoins
  <1>4. CASE WriteTempFails(t) \/ LockForPublish(t) \/ CreateDone(t) \/ CreateFailed(t)
    <2>1. t \in Reserving /\ Reserving' = Reserving \ {t} /\ Release(t)
      BY <1>4, <1>a DEF WriteTempFails, LockForPublish, CreateDone, CreateFailed, Finish, Reserving
    <2>2. \A u \in Reserving \ {t} : size'[u] = size[u]
      BY <1>4, <1>a DEF WriteTempFails, LockForPublish, CreateDone, CreateFailed, Finish, Reserving
    <2> QED
      BY <2>1, <2>2, ReservedLeaves
  <1> QED
    BY <1>1, <1>2, <1>3, <1>4 DEF ThreadStep

LEMMA OtherReserves ==
  ASSUME Typed, ReservationsExact
  PROVE  /\ \A t \in Threads, n \in Names, s \in Sizes : BeginPlain(t, n, s) => ReservationsExact'
         /\ \A t \in Threads, p \in Parts, s \in Sizes :
              BeginEncrypted(t, p, s) => ReservationsExact'
         /\ \A n \in Names : DeletePlain(n) => ReservationsExact'
         /\ \A p \in Parts : FillPart(p) \/ RenamePart(p) \/ DeletePart(p) => ReservationsExact'
         /\ UNCHANGED vars => ReservationsExact'
  <1>a. pc \in [Threads -> Steps] /\ size \in [Threads -> Nat]
    BY DEF Typed
  <1>1. ASSUME NEW t \in Threads, NEW x, NEW s,
               (x \in Names /\ BeginPlain(t, x, s)) \/ (x \in Parts /\ BeginEncrypted(t, x, s))
        PROVE  ReservationsExact'
    <2>1. /\ Reserving' = Reserving /\ UNCHANGED reservations
          /\ \A u \in Reserving : size'[u] = size[u]
      BY <1>1, <1>a DEF BeginPlain, BeginEncrypted, Goto, Reserving
    <2> QED
      BY <2>1, ReservedStay
  <1>2. ASSUME UNCHANGED <<pc, size, reservations>>
        PROVE  ReservationsExact'
    BY <1>2 DEF ReservationsExact, Reserving, reservations
  <1>3. ASSUME \/ UNCHANGED vars \/ \E n \in Names : DeletePlain(n)
               \/ \E p \in Parts : FillPart(p) \/ RenamePart(p) \/ DeletePart(p)
        PROVE  UNCHANGED <<pc, size, reservations>>
    BY <1>3 DEF DeletePlain, FillPart, RenamePart, DeletePart, vars, reservations
  <1> QED
    BY <1>1, <1>2, <1>3
-----------------------------------------------------------------------------
\* How the settled files change, and with them what they take of the policy.

LEMMA FilesFinite ==
  ASSUME Typed, NEW paths \in SUBSET (DOMAIN dir)
  PROVE  /\ IsFiniteSet(paths) /\ Cardinality(paths) \in Nat /\ Bytes(paths) \in Nat
         /\ \A x \in paths : dir[x] \in Nat
  <1>1. IsFiniteSet(DOMAIN dir) /\ \A x \in DOMAIN dir : dir[x] \in Nat
    BY DEF Typed, DirTyped
  <1>2. IsFiniteSet(paths)
    BY <1>1, FS_Subset
  <1>3. \A x \in paths : dir[x] \in Nat
    BY <1>1
  <1>4. Bytes(paths) \in Nat
    BY <1>2, <1>3, SumMonotone DEF Bytes
  <1> QED
    BY <1>2, <1>3, <1>4, FS_CardinalityType

LEMMA FewerFiles ==
  ASSUME Typed, NEW paths \in SUBSET (DOMAIN dir), NEW fewer \in SUBSET paths,
         \A x \in fewer : dir'[x] = dir[x]
  PROVE  /\ SumFunctionOnSet(dir', fewer) <= Bytes(paths) /\ SumFunctionOnSet(dir', fewer) \in Nat
         /\ Cardinality(fewer) <= Cardinality(paths) /\ Cardinality(fewer) \in Nat
  <1>1. IsFiniteSet(paths) /\ \A x \in paths : dir[x] \in Nat
    BY FilesFinite
  <1>2. ASSUME NEW g, \A x \in fewer : g[x] = dir[x]
        PROVE  /\ SumFunctionOnSet(g, fewer) <= Bytes(paths) /\ SumFunctionOnSet(g, fewer) \in Nat
    BY <1>1, <1>2, SumLess DEF Bytes
  <1>3. Cardinality(fewer) <= Cardinality(paths) /\ Cardinality(fewer) \in Nat
    BY <1>1, FS_Subset, FS_CardinalityType
  <1> QED
    BY <1>2, <1>3

LEMMA OneMoreFile ==
  ASSUME Typed, NEW paths \in SUBSET (DOMAIN dir), NEW x, x \notin paths, NEW n \in Nat,
         dir'[x] = n, \A y \in paths : dir'[y] = dir[y]
  PROVE  /\ SumFunctionOnSet(dir', paths \cup {x}) = Bytes(paths) + n
         /\ Cardinality(paths \cup {x}) = Cardinality(paths) + 1
  <1>0. IsFiniteSet(paths) /\ \A y \in paths : dir[y] \in Nat
    BY FilesFinite
  <1>1. IsFiniteSet(paths) /\ \A y \in paths : dir[y] \in Int
    BY <1>0
  <1>2. ASSUME NEW g, g[x] = n, \A y \in paths : g[y] = dir[y]
        PROVE  SumFunctionOnSet(g, paths \cup {x}) = Bytes(paths) + n
    <2>1. g[x] \in Int /\ \A y \in paths : dir[y] \in Int /\ g[y] = dir[y]
      BY <1>1, <1>2
    <2>2. ASSUME NEW f, \A y \in paths : f[y] \in Int /\ g[y] = f[y]
          PROVE  SumFunctionOnSet(g, paths \cup {x}) = SumFunctionOnSet(f, paths) + g[x]
      BY <1>1, <2>1, <2>2, SumAdd
    <2>3. SumFunctionOnSet(g, paths \cup {x}) = SumFunctionOnSet(dir, paths) + g[x]
      BY <2>1, <2>2
    <2> QED
      BY <1>2, <2>3 DEF Bytes
  <1>3. Cardinality(paths \cup {x}) = Cardinality(paths) + 1
    BY <1>1, FS_AddElement
  <1> QED
    BY <1>2, <1>3

PolicyFixed == policy' = policy /\ policy.max_total_bytes \in Nat /\ policy.max_file_count \in Nat

LEMMA PolicyTyped ==
  ASSUME Typed, policy' = policy
  PROVE  PolicyFixed
  BY StorageAssumption DEF Typed, PolicyFixed

LEMMA PromiseKept ==
  ASSUME Typed, policy' = policy, Settled' \subseteq Settled,
         \A x \in Settled' : dir'[x] = dir[x],
         Bytes(Settled) + reservedBytes' <= policy.max_total_bytes,
         Cardinality(Settled) + reservedFiles' <= policy.max_file_count,
         reservedBytes' \in Int, reservedFiles' \in Int
  PROVE  WithinPromise'
  <1>1. Settled \in SUBSET (DOMAIN dir)
    BY DEF Settled
  <1>2. /\ Bytes(Settled)' <= Bytes(Settled) /\ Bytes(Settled)' \in Nat
        /\ Cardinality(Settled') <= Cardinality(Settled) /\ Cardinality(Settled') \in Nat
    <2>1. ASSUME NEW S \in SUBSET Settled, \A x \in S : dir'[x] = dir[x]
          PROVE  /\ SumFunctionOnSet(dir', S) <= Bytes(Settled)
                 /\ SumFunctionOnSet(dir', S) \in Nat
                 /\ Cardinality(S) <= Cardinality(Settled) /\ Cardinality(S) \in Nat
      BY <1>1, <2>1, FewerFiles
    <2> QED
      BY <2>1 DEF Bytes
  <1>3. Bytes(Settled) \in Nat /\ Cardinality(Settled) \in Nat
    BY <1>1, FilesFinite
  <1>4. PolicyFixed
    BY PolicyTyped
  <1> HIDE DEF Settled, Bytes
  <1> QED
    BY <1>2, <1>3, <1>4 DEF WithinPromise, PolicyFixed

\* A file leaves its reservation, or a checked one is linked.
LEMMA PromiseSettles ==
  ASSUME Typed, policy' = policy, NEW x, x \notin Settled, Settled' = Settled \cup {x},
         NEW n \in Nat, dir'[x] = n, \A y \in Settled : dir'[y] = dir[y],
         Bytes(Settled) + reservedBytes' + n <= policy.max_total_bytes,
         Cardinality(Settled) + reservedFiles' + 1 <= policy.max_file_count,
         reservedBytes' \in Int, reservedFiles' \in Int
  PROVE  WithinPromise'
  <1>1. Settled \in SUBSET (DOMAIN dir)
    BY DEF Settled
  <1>2. /\ SumFunctionOnSet(dir', Settled \cup {x}) = Bytes(Settled) + n
        /\ Cardinality(Settled \cup {x}) = Cardinality(Settled) + 1
    BY <1>1, OneMoreFile
  <1>3. /\ Bytes(Settled)' = Bytes(Settled) + n /\ Cardinality(Settled)' = Cardinality(Settled) + 1
    BY <1>2, Zenon DEF Bytes
  <1>4. Bytes(Settled) \in Nat /\ Cardinality(Settled) \in Nat
    BY <1>1, FilesFinite
  <1>5. PolicyFixed
    BY PolicyTyped
  <1> HIDE DEF Settled, Bytes
  <1> QED
    BY <1>3, <1>4, <1>5 DEF WithinPromise, PolicyFixed


LEMMA PromiseLess ==
  ASSUME Typed, WithinPromise, policy' = policy, Settled' \subseteq Settled,
         \A x \in Settled' : dir'[x] = dir[x],
         reservedBytes' \in Int, reservedBytes' <= reservedBytes,
         reservedFiles' \in Int, reservedFiles' <= reservedFiles
  PROVE  WithinPromise'
  <1>1. Bytes(Settled) \in Nat /\ Cardinality(Settled) \in Nat
    <2>1. Settled \in SUBSET (DOMAIN dir)
      BY DEF Settled
    <2> QED
      BY <2>1, FilesFinite
  <1>2. reservedBytes \in Int /\ reservedFiles \in Int
    BY DEF Typed
  <1>3. policy.max_total_bytes \in Nat /\ policy.max_file_count \in Nat
    BY PolicyTyped DEF PolicyFixed
  <1>4. /\ Bytes(Settled) + reservedBytes' <= policy.max_total_bytes
        /\ Cardinality(Settled) + reservedFiles' <= policy.max_file_count
    BY <1>1, <1>2, <1>3 DEF WithinPromise
  <1> QED
    BY <1>4, PromiseKept

\* The encrypted store makes one file at a time.
LEMMA MadeOne ==
  ASSUME Typed, RequestsPlaced, NEW t \in Threads, target[t] \in PartPaths, pc[t] # "idle"
  PROVE  Made = IF pc[t] = "created" THEN {target[t]} ELSE {}
  <1>1. encLock = t
    BY DEF RequestsPlaced
  <1>2. \A u \in Threads : pc[u] = "created" => u = t
    BY <1>1 DEF RequestsPlaced
  <1> QED
    BY <1>2 DEF Made

LEMMA MadeStays ==
  ASSUME \A u \in Threads : /\ pc'[u] = "created" <=> pc[u] = "created"
                            /\ pc[u] = "created" => target'[u] = target[u]
  PROVE  Made' = Made
  BY DEF Made

LEMMA RequestSettles ==
  ASSUME Typed, RequestsPlaced, RequestsPlaced', Typed', PartsPlaced, NEW t \in Threads, ThreadStep(t),
         ~CreateDone(t), ~\E n \in Names : Link(t, n)
  PROVE  Settled' = Settled /\ \A x \in Settled : dir'[x] = dir[x]
  <1>a. pc \in [Threads -> Steps] /\ target \in [Threads -> Paths \cup {<<>>}]
    BY DEF Typed
  <1> USE DEF Goto, Scanned
  <1>1. CASE LockForReserve(t) \/ LockForPublish(t) \/ LinkRefused(t) \/ WriteTemp(t) \/ Admit(t)
             \/ Refuse(t) \/ WriteTempFails(t) \/ RemoveTemp(t) \/ CreateFailed(t)
             \/ \E x \in Paths : Scan(t, x)
    <2>1. \A u \in Threads : /\ pc'[u] = "created" <=> pc[u] = "created"
                             /\ pc[u] = "created" => target'[u] = target[u]
      BY <1>1, <1>a DEF LockForReserve, LockForPublish, LinkRefused, WriteTemp, Admit, Refuse,
                        WriteTempFails, RemoveTemp, CreateFailed, Scan, Finish
    <2>2. dir' = dir
      BY <1>1 DEF LockForReserve, LockForPublish, LinkRefused, WriteTemp, Admit, Refuse,
                  WriteTempFails, RemoveTemp, CreateFailed, Scan
    <2> QED
      BY <2>1, <2>2, MadeStays DEF Settled
  <1>2. CASE CreatePart(t)
    <2>1. target[t] \in PartPaths /\ pc[t] = "create" /\ target[t] \notin DOMAIN dir
      BY <1>2 DEF CreatePart, RequestsPlaced, PartsPlaced
    <2>2. pc'[t] = "created" /\ target' = target
      BY <1>2, <1>a DEF CreatePart
    <2>3. Made = {}
      BY <2>1, MadeOne
    <2>4. Made' = {target[t]}
      BY <2>1, <2>2, <1>a DEF Made, RequestsPlaced
    <2>5. dir' = With(dir, target[t], size[t])
      BY <1>2 DEF CreatePart
    <2>6. /\ DOMAIN dir' = DOMAIN dir \cup {target[t]}
          /\ \A y \in DOMAIN dir \ {target[t]} : dir'[y] = dir[y]
      BY <2>5, DirGrows
    <2> QED
      BY <2>1, <2>3, <2>4, <2>6 DEF Settled
  <1>3. CASE CreateUndone(t)
    <2>1. target[t] \in PartPaths /\ pc[t] \in {"create", "created"}
          /\ (pc[t] = "create" => target[t] \notin DOMAIN dir)
      BY <1>3 DEF CreateUndone, RequestsPlaced, PartsPlaced
    <2>2. pc'[t] = "undone" /\ target' = target
      BY <1>3, <1>a DEF CreateUndone
    <2>3. Made = IF pc[t] = "created" THEN {target[t]} ELSE {}
      BY <2>1, MadeOne
    <2>4. Made' = {}
      BY <2>1, <2>2, <1>a DEF Made, RequestsPlaced
    <2>5. dir' = Without(dir, {target[t]})
      BY <1>3 DEF CreateUndone
    <2>6. /\ DOMAIN dir' = DOMAIN dir \ {target[t]}
          /\ \A y \in DOMAIN dir \ {target[t]} : dir'[y] = dir[y]
      BY <2>5, DirShrinks
    <2> QED
      BY <2>1, <2>3, <2>4, <2>6 DEF Settled
  <1> QED
    BY <1>1, <1>2, <1>3 DEF ThreadStep

\* The two steps of a request that settle a file.
LEMMA CreateSettles ==
  ASSUME Typed, RequestsPlaced, PartsPlaced, NEW t \in Threads, CreateDone(t)
  PROVE  /\ target[t] \notin Settled /\ Settled' = Settled \cup {target[t]}
         /\ dir' = dir /\ dir[target[t]] = size[t] /\ target[t] \in DOMAIN dir
  <1>a. pc \in [Threads -> Steps] /\ target \in [Threads -> Paths \cup {<<>>}]
    BY DEF Typed
  <1>1. /\ target[t] \in PartPaths /\ pc[t] = "created" /\ pc'[t] = "idle" /\ dir' = dir
        /\ target[t] \in DOMAIN dir /\ dir[target[t]] = size[t]
    BY <1>a DEF CreateDone, RequestsPlaced, PartsPlaced, Finish, Goto
  <1>2. Made = {target[t]}
    BY <1>1, MadeOne
  <1>3. \A u \in Threads : pc'[u] # "created"
    <2>1. encLock = t
      BY <1>1 DEF RequestsPlaced
    <2>2. \A u \in Threads : pc[u] = "created" => u = t
      BY <2>1 DEF RequestsPlaced
    <2> QED
      BY <1>a, <1>1, <2>2 DEF CreateDone, Finish, Goto
  <1>4. Made' = {}
    BY <1>3 DEF Made
  <1> QED
    BY <1>1, <1>2, <1>4 DEF Settled

LEMMA LinkSettles ==
  ASSUME Typed, RequestsPlaced, PartsPlaced, NEW t \in Threads, NEW n \in Names, Link(t, n)
  PROVE  /\ <<"plain", n>> \notin DOMAIN dir /\ Settled' = Settled \cup {<<"plain", n>>}
         /\ dir'[<<"plain", n>>] = size[t] /\ \A y \in DOMAIN dir : dir'[y] = dir[y]
         /\ DOMAIN dir' = DOMAIN dir \cup {<<"plain", n>>}
  <1>a. pc \in [Threads -> Steps]
    BY DEF Typed
  <1>1. /\ pc[t] = "check" /\ pc' = [pc EXCEPT ![t] = "cleanup"] /\ target' = target
        /\ <<"plain", n>> \notin DOMAIN dir /\ dir' = With(dir, <<"plain", n>>, size[t])
    BY DEF Link, Scanned, Goto
  <1>2. /\ DOMAIN dir' = DOMAIN dir \cup {<<"plain", n>>} /\ dir'[<<"plain", n>>] = size[t]
        /\ \A y \in DOMAIN dir \ {<<"plain", n>>} : dir'[y] = dir[y]
    BY <1>1, DirGrows
  <1>3. Made' = Made
    BY <1>a, <1>1, MadeStays
  <1>4. <<"plain", n>> \notin Made
    BY Kinds DEF Made, RequestsPlaced
  <1> QED
    BY <1>1, <1>2, <1>3, <1>4 DEF Settled


\* Deletions and the completion of an encrypted upload.
LEMMA OtherSettles ==
  ASSUME Typed, RequestsPlaced, PartsPlaced
  PROVE  /\ \A t \in Threads, n \in Names, s \in Sizes :
              BeginPlain(t, n, s) => Made' = Made /\ dir' = dir
         /\ \A t \in Threads, p \in Parts, s \in Sizes :
              BeginEncrypted(t, p, s) => Made' = Made /\ dir' = dir
         /\ \A n \in Names : DeletePlain(n) =>
              /\ Made' = Made /\ DOMAIN dir' \subseteq DOMAIN dir
              /\ \A x \in DOMAIN dir' : dir'[x] = dir[x]
         /\ \A p \in Parts : FillPart(p) => Made' = Made /\ dir' = dir
         /\ \A p \in Parts : DeletePart(p) =>
              /\ Made' = Made /\ DOMAIN dir' \subseteq DOMAIN dir
              /\ \A x \in DOMAIN dir' : dir'[x] = dir[x]
  <1>a. pc \in [Threads -> Steps] /\ target \in [Threads -> Paths \cup {<<>>}]
    BY DEF Typed
  <1>1. ASSUME NEW t \in Threads, NEW x, NEW s, BeginPlain(t, x, s) \/ BeginEncrypted(t, x, s)
        PROVE  Made' = Made /\ dir' = dir
    <2>1. \A u \in Threads : /\ pc'[u] = "created" <=> pc[u] = "created"
                             /\ pc[u] = "created" => target'[u] = target[u]
      BY <1>1, <1>a DEF BeginPlain, BeginEncrypted, Goto
    <2>2. dir' = dir
      BY <1>1 DEF BeginPlain, BeginEncrypted
    <2> QED
      BY <2>1, <2>2, MadeStays
  <1>2. ASSUME NEW n \in Names, DeletePlain(n)
        PROVE  /\ Made' = Made /\ DOMAIN dir' \subseteq DOMAIN dir
               /\ \A x \in DOMAIN dir' : dir'[x] = dir[x]
    <2>1. dir' = Without(dir, {<<"plain", n>>}) /\ UNCHANGED <<pc, target>>
      BY <1>2 DEF DeletePlain
    <2> QED
      BY <2>1, DirShrinks DEF Made
  <1>3. ASSUME NEW p \in Parts, FillPart(p)
        PROVE  Made' = Made /\ dir' = dir
    BY <1>3 DEF FillPart, Made
  <1>4. ASSUME NEW p \in Parts, DeletePart(p)
        PROVE  /\ Made' = Made /\ DOMAIN dir' \subseteq DOMAIN dir
               /\ \A x \in DOMAIN dir' : dir'[x] = dir[x]
    <2>1. dir' = Without(dir, {<<"part", p>>, <<"xfr", p>>}) /\ UNCHANGED <<pc, target>>
      BY <1>4 DEF DeletePart
    <2>2. Made' = Made
      BY <2>1 DEF Made
    <2> QED
      BY <2>1, <2>2, DirShrinks
  <1> QED
    BY <1>1, <1>2, <1>3, <1>4

\* A renamed file takes as much of the policy as before.
LEMMA RenameSettles ==
  ASSUME Typed, RequestsPlaced, PartsPlaced, NEW p \in Parts, RenamePart(p)
  PROVE  LET part == <<"part", p>>
             xfr == <<"xfr", p>>
         IN  /\ DOMAIN dir' = (DOMAIN dir \ {part}) \cup {xfr}
             /\ part \in DOMAIN dir /\ xfr \notin DOMAIN dir
             /\ dir'[xfr] = dir[part] /\ \A y \in DOMAIN dir \ {part} : dir'[y] = dir[y]
             /\ Made = {} /\ Made' = {}
  <1> DEFINE part == <<"part", p>>
             xfr == <<"xfr", p>>
  <1>1. part \in DOMAIN dir /\ dir' = With(Without(dir, {part}), xfr, dir[part])
        /\ UNCHANGED <<pc, target>> /\ encLock = NoThread
    BY DEF RenamePart, Mutation
  <1>2. xfr \notin DOMAIN dir
    BY <1>1 DEF PartsPlaced
  <1>3. Made = {} /\ Made' = {}
    <2>1. \A u \in Threads : pc[u] # "created"
      BY <1>1, StorageAssumption DEF RequestsPlaced
    <2> QED
      BY <1>1, <2>1 DEF Made
  <1> HIDE DEF part, xfr
  <1>4. /\ DOMAIN dir' = (DOMAIN dir \ {part}) \cup {xfr}
        /\ dir'[xfr] = dir[part] /\ \A y \in DOMAIN dir \ {part} : dir'[y] = dir[y]
    BY <1>1, <1>2 DEF With, Without, Restrict
  <1> QED
    BY <1>1, <1>2, <1>3, <1>4 DEF part, xfr

LEMMA SizeAfterRename ==
  ASSUME NEW f, NEW g, NEW S, IsFiniteSet(S), NEW a \in S, NEW b, b \notin S,
         \A x \in S : f[x] \in Nat, g[b] = f[a], \A x \in S \ {a} : g[x] = f[x]
  PROVE  /\ SumFunctionOnSet(g, (S \ {a}) \cup {b}) = SumFunctionOnSet(f, S)
         /\ Cardinality((S \ {a}) \cup {b}) = Cardinality(S)
  <1> DEFINE R == S \ {a}
  <1>1. IsFiniteSet(R) /\ Cardinality(R) = Cardinality(S) - 1 /\ Cardinality(S) \in Nat
    BY FS_RemoveElement, FS_CardinalityType
  <1>2. b \notin R /\ (\A x \in R : f[x] \in Int /\ g[x] = f[x]) /\ g[b] \in Int
    OBVIOUS
  <1>3. SumFunctionOnSet(f, S) = f[a] + SumFunctionOnSet(f, R)
    BY SumRemove
  <1>4. SumFunctionOnSet(f, R) \in Int
    BY <1>1, <1>2, SumInteger
  <1> HIDE DEF R
  <1>5. SumFunctionOnSet(g, R \cup {b}) = SumFunctionOnSet(f, R) + g[b]
    <2>1. ASSUME NEW T, IsFiniteSet(T), b \notin T, NEW h, NEW k, k[b] \in Int,
                 \A x \in T : h[x] \in Int /\ k[x] = h[x]
          PROVE  SumFunctionOnSet(k, T \cup {b}) = SumFunctionOnSet(h, T) + k[b]
      BY <2>1, SumAdd
    <2> QED
      BY <1>1, <1>2, <2>1
  <1>6. Cardinality(R \cup {b}) = Cardinality(R) + 1
    BY <1>1, <1>2, FS_AddElement
  <1> QED
    BY <1>1, <1>3, <1>4, <1>5, <1>6 DEF R

\* What the listing holder knows when it has been past every path.
LEMMA ListingComplete ==
  ASSUME Typed, RequestsPlaced, ListingCovers, NEW t \in Threads, NEW step, Scanned(t, step)
  PROVE  /\ Bytes(Settled) <= scan.bytes /\ Cardinality(Settled) <= scan.files
         /\ Bytes(Settled) \in Nat /\ Cardinality(Settled) \in Nat
         /\ scan.bytes \in Nat /\ scan.files \in Nat
  <1>1. Listed = Settled /\ lock # NoThread
    BY StorageAssumption DEF Scanned, Listed
  <1>2. Settled \in SUBSET (DOMAIN dir)
    BY DEF Settled
  <1>3. scan.bytes \in Nat /\ scan.files \in Nat
    BY DEF Typed, Listing
  <1> QED
    BY <1>1, <1>2, <1>3, FilesFinite DEF ListingCovers


LEMMA RequestKeepsPromise ==
  ASSUME QuotaInv, Typed', RequestsPlaced', NEW t \in Threads, ThreadStep(t)
  PROVE  WithinPromise'
  <1>a. /\ size[t] \in Nat /\ reservedBytes \in Int /\ reservedFiles \in Int
        /\ Typed /\ RequestsPlaced /\ PartsPlaced /\ ListingCovers /\ WithinPromise
    BY DEF QuotaInv, Typed
  <1>b. reservedBytes' \in Int /\ reservedFiles' \in Int
    BY DEF Typed
  <1>c. Bytes(Settled) \in Nat /\ Cardinality(Settled) \in Nat
    <2>1. Settled \in SUBSET (DOMAIN dir)
      BY DEF Settled
    <2> QED
      BY <1>a, <2>1, FilesFinite
  <1>d. policy.max_total_bytes \in Nat /\ policy.max_file_count \in Nat
    BY <1>a, StorageAssumption DEF Typed
  <1>1. CASE CreateDone(t)
    <2>1. /\ target[t] \notin Settled /\ Settled' = Settled \cup {target[t]}
          /\ dir' = dir /\ dir[target[t]] = size[t]
      BY <1>a, <1>1, CreateSettles
    <2>2. /\ policy' = policy /\ reservedBytes' = reservedBytes - size[t]
          /\ reservedFiles' = reservedFiles - 1
      BY <1>1 DEF CreateDone, Release
    <2>3. /\ Bytes(Settled) + reservedBytes' + size[t] <= policy.max_total_bytes
          /\ Cardinality(Settled) + reservedFiles' + 1 <= policy.max_file_count
      BY <1>a, <1>c, <1>d, <2>2 DEF WithinPromise
    <2> HIDE DEF Settled
    <2> QED
      BY <1>a, <1>b, <2>1, <2>2, <2>3, PromiseSettles
  <1>2. ASSUME NEW n \in Names, Link(t, n)
        PROVE  WithinPromise'
    <2>1. /\ <<"plain", n>> \notin DOMAIN dir /\ Settled' = Settled \cup {<<"plain", n>>}
          /\ dir'[<<"plain", n>>] = size[t] /\ \A y \in DOMAIN dir : dir'[y] = dir[y]
      BY <1>a, <1>2, LinkSettles
    <2>2. <<"plain", n>> \notin Settled /\ \A y \in Settled : dir'[y] = dir[y]
      BY <2>1 DEF Settled
    <2>3. /\ policy' = policy /\ UNCHANGED <<reservedBytes, reservedFiles>>
          /\ Scanned(t, "check") /\ WithinPolicy(t, reservedBytes, reservedFiles)
      BY <1>2 DEF Link, reservations
    <2>4. /\ Bytes(Settled) <= scan.bytes /\ Cardinality(Settled) <= scan.files
          /\ scan.bytes \in Nat /\ scan.files \in Nat
      BY <1>a, <2>3, ListingComplete
    <2>5. /\ Bytes(Settled) + reservedBytes' + size[t] <= policy.max_total_bytes
          /\ Cardinality(Settled) + reservedFiles' + 1 <= policy.max_file_count
      BY <1>a, <1>c, <1>d, <2>3, <2>4 DEF WithinPolicy
    <2> HIDE DEF Settled
    <2> QED
      BY <1>a, <1>b, <2>1, <2>2, <2>3, <2>5, PromiseSettles
  <1>3. CASE Admit(t)
    <2>1. Settled' = Settled /\ \A x \in Settled : dir'[x] = dir[x]
      <3>1. ~CreateDone(t) /\ ~\E n \in Names : Link(t, n)
        BY <1>3 DEF Admit, CreateDone, Link, Scanned
      <3> QED
        BY <1>a, <3>1, RequestSettles
    <2>2. /\ policy' = policy /\ reservedBytes' = reservedBytes + size[t]
          /\ reservedFiles' = reservedFiles + 1
          /\ Scanned(t, "admit") /\ WithinPolicy(t, reservedBytes, reservedFiles)
      BY <1>3 DEF Admit, Reserve
    <2>3. /\ Bytes(Settled) <= scan.bytes /\ Cardinality(Settled) <= scan.files
          /\ scan.bytes \in Nat /\ scan.files \in Nat
      BY <1>a, <2>2, ListingComplete
    <2>4. /\ Bytes(Settled) + reservedBytes' <= policy.max_total_bytes
          /\ Cardinality(Settled) + reservedFiles' <= policy.max_file_count
      BY <1>a, <1>c, <1>d, <2>2, <2>3 DEF WithinPolicy
    <2> QED
      BY <1>a, <1>b, <2>1, <2>2, <2>4, PromiseKept
  <1>4. CASE ~(CreateDone(t) \/ Admit(t) \/ \E n \in Names : Link(t, n))
    <2>1. Settled' = Settled /\ \A x \in Settled : dir'[x] = dir[x]
      BY <1>a, <1>4, RequestSettles
    <2>2. /\ policy' = policy
          /\ \/ UNCHANGED <<reservedBytes, reservedFiles>>
             \/ reservedBytes' = reservedBytes - size[t] /\ reservedFiles' = reservedFiles - 1
      BY <1>4 DEF ThreadStep, LockForReserve, Refuse, Scan, WriteTemp, WriteTempFails,
                  LockForPublish, LinkRefused, RemoveTemp, CreatePart, CreateUndone, CreateFailed,
                  Release, reservations
    <2>3. reservedBytes' <= reservedBytes /\ reservedFiles' <= reservedFiles
      BY <1>a, <2>2
    <2> QED
      BY <1>a, <1>b, <2>1, <2>2, <2>3, PromiseLess
  <1> QED
    BY <1>1, <1>2, <1>3, <1>4

LEMMA RequestKeepsListing ==
  ASSUME QuotaInv, Typed', RequestsPlaced', NEW t \in Threads, ThreadStep(t)
  PROVE  ListingCovers'
  <1>a. Typed /\ RequestsPlaced /\ PartsPlaced /\ ListingCovers /\ t # NoThread
    BY StorageAssumption DEF QuotaInv
  <1>b. Listed \in SUBSET (DOMAIN dir)
    BY DEF Listed, Settled
  <1>1. CASE LockForReserve(t) \/ LockForPublish(t)
    <2>1. scan'.todo = Paths /\ scan'.bytes = 0 /\ scan'.files = 0
      BY <1>1 DEF LockForReserve, LockForPublish, StartScan, NoScan
    <2>2. Listed' = {}
      BY <2>1 DEF Typed, DirTyped, Listed, Settled
    <2> QED
      BY <2>1, <2>2, SumEmpty, FS_EmptySet DEF ListingCovers, Bytes
  <1>2. CASE lock' = NoThread
    BY <1>2 DEF ListingCovers
  <1>3. ASSUME NEW x \in Paths, Scan(t, x)
        PROVE  ListingCovers'
    <2>1. dir' = dir /\ Settled' = Settled /\ lock = t /\ lock' = lock
      BY <1>3 DEF Scan, Settled, Made
    <2>2. Bytes(Listed) <= scan.bytes /\ Cardinality(Listed) <= scan.files
      BY <1>a, <2>1 DEF ListingCovers
    <2>3. /\ scan.bytes \in Nat /\ scan.files \in Nat /\ Bytes(Listed) \in Nat
          /\ Cardinality(Listed) \in Nat
      BY <1>a, <1>b, FilesFinite DEF Typed, Listing
    <2>4. CASE x \in Settled /\ x \notin Listed
      <3>1. x \in DOMAIN dir
        BY <2>4 DEF Settled
      <3>2. scan' = [todo |-> scan.todo \ {x}, bytes |-> scan.bytes + dir[x],
                     files |-> scan.files + 1]
        BY <1>3, <3>1 DEF Scan
      <3>3. Listed' = Listed \cup {x} /\ dir[x] \in Nat
        BY <1>a, <2>1, <2>4, <3>1, <3>2 DEF Listed, Typed, DirTyped
      <3>4. \A y \in Listed : dir'[y] = dir[y]
        BY <2>1
      <3>5. /\ SumFunctionOnSet(dir', Listed \cup {x}) = Bytes(Listed) + dir[x]
            /\ Cardinality(Listed \cup {x}) = Cardinality(Listed) + 1
        BY <1>a, <1>b, <2>1, <2>4, <3>3, <3>4, OneMoreFile
      <3>6. /\ Bytes(Listed)' = Bytes(Listed) + dir[x]
            /\ Cardinality(Listed') = Cardinality(Listed) + 1
        BY <3>3, <3>5, Zenon DEF Bytes
      <3>7. scan'.bytes = scan.bytes + dir[x] /\ scan'.files = scan.files + 1
        BY <3>2
      <3> HIDE DEF Listed, Bytes
      <3> QED
        BY <2>2, <2>3, <3>3, <3>6, <3>7 DEF ListingCovers
    <2>5. CASE ~(x \in Settled /\ x \notin Listed)
      <3>1. Listed' = Listed
        BY <1>3, <2>1, <2>5 DEF Scan, Listed
      <3>2. scan'.bytes >= scan.bytes /\ scan'.files >= scan.files
            /\ scan'.bytes \in Nat /\ scan'.files \in Nat
        <4>1. x \in DOMAIN dir => dir[x] \in Nat
          BY <1>a DEF Typed, DirTyped
        <4>2. scan \in Listing
          BY <1>a DEF Typed
        <4> QED
          BY <1>3, <2>3, <4>1, <4>2 DEF Scan, Listing
      <3>3. Bytes(Listed)' = Bytes(Listed) /\ Cardinality(Listed') = Cardinality(Listed)
        BY <2>1, <3>1, Zenon DEF Bytes
      <3> HIDE DEF Listed, Bytes
      <3> QED
        BY <2>2, <2>3, <3>2, <3>3 DEF ListingCovers
    <2> QED
      BY <2>4, <2>5
  <1>4. CASE lock' # NoThread /\ ~(LockForReserve(t) \/ LockForPublish(t))
             /\ ~\E x \in Paths : Scan(t, x)
    <2>1. UNCHANGED <<lock, scan>> /\ ~CreateDone(t) /\ ~\E n \in Names : Link(t, n)
      BY <1>4 DEF ThreadStep, Admit, Refuse, WriteTemp, WriteTempFails, LinkRefused, RemoveTemp,
                  Link, CreatePart, CreateDone, CreateUndone, CreateFailed, Unlock
    <2>2. Settled' = Settled /\ \A x \in Settled : dir'[x] = dir[x]
      BY <1>a, <2>1, RequestSettles
    <2>3. Listed' = Listed /\ \A x \in Listed : dir'[x] = dir[x]
      BY <2>1, <2>2 DEF Listed
    <2>4. SumFunctionOnSet(dir', Listed) <= Bytes(Listed)
          /\ SumFunctionOnSet(dir', Listed) \in Nat
      BY <1>a, <1>b, <2>3, FewerFiles
    <2>5. Bytes(Listed)' <= Bytes(Listed) /\ Bytes(Listed)' \in Nat
      BY <2>3, <2>4, Zenon DEF Bytes
    <2>6. /\ scan.bytes \in Nat /\ scan.files \in Nat /\ Bytes(Listed) \in Nat
      BY <1>a, <1>b, FilesFinite DEF Typed, Listing
    <2>7. Bytes(Listed) <= scan.bytes /\ Cardinality(Listed) <= scan.files
      BY <1>4, <1>a, <2>1 DEF ListingCovers
    <2> HIDE DEF Listed, Bytes
    <2> QED
      BY <2>1, <2>3, <2>5, <2>6, <2>7 DEF ListingCovers
  <1> QED
    BY <1>1, <1>2, <1>3, <1>4


LEMMA OtherKeepPromise ==
  ASSUME QuotaInv, Typed'
  PROVE  /\ \A t \in Threads, n \in Names, s \in Sizes :
              BeginPlain(t, n, s) => WithinPromise' /\ ListingCovers'
         /\ \A t \in Threads, p \in Parts, s \in Sizes :
              BeginEncrypted(t, p, s) => WithinPromise' /\ ListingCovers'
         /\ \A n \in Names : DeletePlain(n) => WithinPromise' /\ ListingCovers'
         /\ \A p \in Parts : FillPart(p) \/ RenamePart(p) \/ DeletePart(p)
                               => WithinPromise' /\ ListingCovers'
         /\ UNCHANGED vars => WithinPromise' /\ ListingCovers'
  <1>a. /\ Typed /\ RequestsPlaced /\ PartsPlaced /\ ListingCovers /\ WithinPromise
        /\ reservedBytes \in Int /\ reservedFiles \in Int
    BY DEF QuotaInv, Typed
  <1>b. Listed \in SUBSET (DOMAIN dir)
    BY DEF Listed, Settled
  <1>1. ASSUME Made' = Made, DOMAIN dir' \subseteq DOMAIN dir, \A x \in DOMAIN dir' : dir'[x] = dir[x],
               UNCHANGED <<policy, reservations, lock, scan>>
        PROVE  WithinPromise' /\ ListingCovers'
    <2>1. Settled' \subseteq Settled /\ \A x \in Settled' : dir'[x] = dir[x]
      BY <1>1 DEF Settled
    <2>2. WithinPromise'
      <3>1. UNCHANGED <<policy, reservedBytes, reservedFiles>>
        BY <1>1 DEF reservations
      <3> QED
        BY <1>a, <2>1, <3>1, PromiseLess
    <2>3. Listed' \in SUBSET Listed /\ \A x \in Listed' : dir'[x] = dir[x]
      BY <1>1, <2>1 DEF Listed
    <2>4. ASSUME NEW S \in SUBSET Listed, \A x \in S : dir'[x] = dir[x]
          PROVE  /\ SumFunctionOnSet(dir', S) <= Bytes(Listed) /\ SumFunctionOnSet(dir', S) \in Nat
                 /\ Cardinality(S) <= Cardinality(Listed) /\ Cardinality(S) \in Nat
      BY <1>a, <1>b, <2>4, FewerFiles
    <2>5. /\ Bytes(Listed)' <= Bytes(Listed) /\ Bytes(Listed)' \in Nat
          /\ Cardinality(Listed') <= Cardinality(Listed) /\ Cardinality(Listed') \in Nat
      BY <2>3, <2>4 DEF Bytes
    <2>6. /\ scan.bytes \in Nat /\ scan.files \in Nat /\ Bytes(Listed) \in Nat
          /\ Cardinality(Listed) \in Nat
      BY <1>a, <1>b, FilesFinite DEF Typed, Listing
    <2> HIDE DEF Listed, Bytes
    <2>7. ListingCovers'
      BY <1>1, <1>a, <2>5, <2>6 DEF ListingCovers
    <2> QED
      BY <2>2, <2>7
  <1>2. ASSUME NEW t \in Threads, NEW n \in Names, NEW s \in Sizes, BeginPlain(t, n, s)
        PROVE  WithinPromise' /\ ListingCovers'
    <2>1. Made' = Made /\ dir' = dir /\ UNCHANGED <<policy, reservations, lock, scan>>
      BY <1>2, <1>a, OtherSettles DEF BeginPlain
    <2> QED
      BY <1>1, <2>1
  <1>3. ASSUME NEW t \in Threads, NEW p \in Parts, NEW s \in Sizes, BeginEncrypted(t, p, s)
        PROVE  WithinPromise' /\ ListingCovers'
    <2>1. Made' = Made /\ dir' = dir /\ UNCHANGED <<policy, reservations, lock, scan>>
      BY <1>3, <1>a, OtherSettles DEF BeginEncrypted
    <2> QED
      BY <1>1, <2>1
  <1>4. ASSUME NEW n \in Names, DeletePlain(n)
        PROVE  WithinPromise' /\ ListingCovers'
    <2>1. UNCHANGED <<policy, reservations, lock, scan>>
      BY <1>4 DEF DeletePlain
    <2> QED
      BY <1>1, <1>4, <1>a, <2>1, OtherSettles
  <1>5. ASSUME NEW p \in Parts, FillPart(p)
        PROVE  WithinPromise' /\ ListingCovers'
    <2>1. Made' = Made /\ dir' = dir /\ UNCHANGED <<policy, reservations, lock, scan>>
      BY <1>5, <1>a, OtherSettles DEF FillPart
    <2> QED
      BY <1>1, <2>1
  <1>6. ASSUME NEW p \in Parts, DeletePart(p)
        PROVE  WithinPromise' /\ ListingCovers'
    <2>1. UNCHANGED <<policy, reservations, lock, scan>>
      BY <1>6 DEF DeletePart
    <2> QED
      BY <1>1, <1>6, <1>a, <2>1, OtherSettles
  <1>7. ASSUME NEW p \in Parts, RenamePart(p)
        PROVE  WithinPromise' /\ ListingCovers'
    <2> DEFINE part == <<"part", p>>
               xfr == <<"xfr", p>>
    <2>1. /\ UNCHANGED <<policy, reservedBytes, reservedFiles, lock>> /\ lock = NoThread
      BY <1>7 DEF RenamePart, Mutation, reservations
    <2>2. /\ DOMAIN dir' = (DOMAIN dir \ {part}) \cup {xfr}
          /\ part \in DOMAIN dir /\ xfr \notin DOMAIN dir
          /\ dir'[xfr] = dir[part] /\ \A y \in DOMAIN dir \ {part} : dir'[y] = dir[y]
          /\ Made = {} /\ Made' = {}
      BY <1>7, <1>a, RenameSettles
    <2>3. /\ Settled = DOMAIN dir /\ Settled' = (Settled \ {part}) \cup {xfr}
          /\ IsFiniteSet(Settled) /\ \A x \in Settled : dir[x] \in Nat
      BY <1>a, <2>2 DEF Settled, Typed, DirTyped
    <2> HIDE DEF part, xfr, Settled
    <2>4. ASSUME NEW S, IsFiniteSet(S), part \in S, xfr \notin S, NEW f, NEW g,
                 \A x \in S : f[x] \in Nat, g[xfr] = f[part],
                 \A y \in S \ {part} : g[y] = f[y]
          PROVE  /\ SumFunctionOnSet(g, (S \ {part}) \cup {xfr}) = SumFunctionOnSet(f, S)
                 /\ Cardinality((S \ {part}) \cup {xfr}) = Cardinality(S)
      BY <2>4, SizeAfterRename
    <2>5. /\ SumFunctionOnSet(dir', (Settled \ {part}) \cup {xfr}) = SumFunctionOnSet(dir, Settled)
          /\ Cardinality((Settled \ {part}) \cup {xfr}) = Cardinality(Settled)
      <3>1. part \in Settled /\ xfr \notin Settled /\ \A y \in Settled \ {part} : dir'[y] = dir[y]
        BY <2>2, <2>3
      <3> QED
        BY <2>2, <2>3, <2>4, <3>1
    <2>6. Bytes(Settled)' = Bytes(Settled) /\ Cardinality(Settled)' = Cardinality(Settled)
      BY <2>3, <2>5, Zenon DEF Bytes
    <2> QED
      BY <1>a, <2>1, <2>6 DEF WithinPromise, ListingCovers
  <1>8. CASE UNCHANGED vars
    <2>1. Made' = Made /\ dir' = dir /\ UNCHANGED <<policy, reservations, lock, scan>>
      BY <1>8 DEF vars, Made, reservations
    <2> QED
      BY <1>1, <2>1
  <1> QED
    BY <1>2, <1>3, <1>4, <1>5, <1>6, <1>7, <1>8
-----------------------------------------------------------------------------
\* The space that is used or promised.

Promise == SumFunctionOnSet(size, Promising)
Held == Total(dir) + Total(temp) + Promise

LEMMA SpaceTyped ==
  ASSUME Typed
  PROVE  /\ Total(dir) = Bytes(DOMAIN dir) /\ Total(dir) \in Nat
         /\ Total(temp) = SumFunctionOnSet(temp, Threads) /\ Total(temp) \in Nat
         /\ Total(holes) \in Nat
         /\ IsFiniteSet(Promising) /\ Promise \in Nat /\ \A t \in Promising : size[t] \in Nat
         /\ policy.disk \in Nat /\ policy.reserved_free_bytes \in Nat
  <1>1. Total(dir) = Bytes(DOMAIN dir) /\ Bytes(DOMAIN dir) \in Nat
    BY FilesFinite DEF Total, SumFunction, Bytes
  <1>2. /\ DOMAIN temp = Threads /\ DOMAIN holes = Parts
        /\ \A t \in Threads : temp[t] \in Nat /\ size[t] \in Nat
        /\ \A p \in Parts : holes[p] \in Nat
    BY DEF Typed
  <1>3. Total(temp) = SumFunctionOnSet(temp, Threads) /\ Total(holes) = SumFunctionOnSet(holes, Parts)
    BY <1>2 DEF Total, SumFunction
  <1>4. SumFunctionOnSet(temp, Threads) \in Nat /\ SumFunctionOnSet(holes, Parts) \in Nat
    BY <1>2, StorageAssumption, SumMonotone
  <1>5. Promising \in SUBSET Threads
    BY DEF Promising
  <1>6. IsFiniteSet(Promising) /\ Promise \in Nat
    BY <1>2, <1>5, StorageAssumption, FS_Subset, SumMonotone DEF Promise
  <1>7. policy.disk \in Nat /\ policy.reserved_free_bytes \in Nat
    BY StorageAssumption DEF Typed
  <1> QED
    BY <1>1, <1>2, <1>3, <1>4, <1>5, <1>6, <1>7

SpaceNumbers == Total(dir) \in Nat /\ Total(temp) \in Nat /\ Promise \in Nat

LEMMA SpaceCounted == Typed => SpaceNumbers
  BY SpaceTyped DEF SpaceNumbers

LEMMA SpaceStays ==
  ASSUME Typed, Typed', SpaceLeft, policy' = policy, Held' <= Held
  PROVE  SpaceLeft'
  <1>1. /\ Total(dir) \in Nat /\ Total(temp) \in Nat /\ Promise \in Nat
        /\ policy.disk \in Nat /\ policy.reserved_free_bytes \in Nat
    BY SpaceTyped
  <1>2. Total(dir') \in Nat /\ Total(temp') \in Nat /\ Promise' \in Nat
    <2>1. SpaceNumbers'
      BY SpaceCounted, PTL
    <2> QED
      BY <2>1 DEF SpaceNumbers, Total
  <1>3. Held' = Total(dir') + Total(temp') + Promise'
    BY DEF Held, Total
  <1>4. policy.disk - Total(dir) - Total(temp) - Promise >= policy.reserved_free_bytes
    BY DEF SpaceLeft, Promise
  <1>5. policy.disk - Total(dir') - Total(temp') - Promise' >= policy.reserved_free_bytes
    BY <1>1, <1>2, <1>3, <1>4 DEF Held
  <1> QED
    BY <1>5 DEF SpaceLeft, Promise, Total


\* Each part of what is held, before and after.
LEMMA DirHeld ==
  ASSUME Typed
  PROVE  /\ dir' = dir => Total(dir') = Total(dir)
         /\ DOMAIN dir' \subseteq DOMAIN dir /\ (\A x \in DOMAIN dir' : dir'[x] = dir[x])
              => Total(dir') <= Total(dir)
         /\ \A x, n : (/\ x \notin DOMAIN dir /\ n \in Nat /\ DOMAIN dir' = DOMAIN dir \cup {x}
                       /\ dir'[x] = n /\ \A y \in DOMAIN dir : dir'[y] = dir[y])
              => Total(dir') = Total(dir) + n
  <1>a. Total(dir) = Bytes(DOMAIN dir) /\ Total(dir') = SumFunctionOnSet(dir', DOMAIN dir')
    BY SpaceTyped DEF Total, SumFunction
  <1>1. dir' = dir => Total(dir') = Total(dir)
    BY DEF Total
  <1>2. ASSUME DOMAIN dir' \subseteq DOMAIN dir, \A x \in DOMAIN dir' : dir'[x] = dir[x]
        PROVE  Total(dir') <= Total(dir)
    BY <1>a, <1>2, FewerFiles
  <1>3. ASSUME NEW x, x \notin DOMAIN dir, NEW n \in Nat, DOMAIN dir' = DOMAIN dir \cup {x},
               dir'[x] = n, \A y \in DOMAIN dir : dir'[y] = dir[y]
        PROVE  Total(dir') = Total(dir) + n
    <2>1. SumFunctionOnSet(dir', DOMAIN dir \cup {x}) = Bytes(DOMAIN dir) + n
      BY <1>3, OneMoreFile
    <2> QED
      BY <1>a, <1>3, <2>1, Zenon
  <1> QED
    BY <1>1, <1>2, <1>3

LEMMA TempHeld ==
  ASSUME Typed, NEW t \in Threads, NEW n \in Nat, temp' = [temp EXCEPT ![t] = n]
  PROVE  Total(temp') = Total(temp) - temp[t] + n
  <1>1. /\ temp' \in [Threads -> Nat] /\ temp \in [Threads -> Nat] /\ temp'[t] = n
        /\ \A u \in Threads \ {t} : temp'[u] = temp[u]
    BY DEF Typed
  <1>2. Total(temp') = SumFunctionOnSet(temp', Threads) /\ Total(temp) = SumFunctionOnSet(temp, Threads)
    BY <1>1 DEF Total, SumFunction
  <1>3. ASSUME NEW f \in [Threads -> Nat], NEW g \in [Threads -> Nat],
               \A u \in Threads \ {t} : g[u] = f[u]
        PROVE  SumFunctionOnSet(g, Threads) = SumFunctionOnSet(f, Threads) - f[t] + g[t]
    <2>1. IsFiniteSet(Threads) /\ \A u \in Threads : f[u] \in Int /\ g[u] \in Int
      BY StorageAssumption
    <2>2. \A u \in Threads \ {t} : f[u] = g[u]
      BY <1>3
    <2> QED
      BY <2>1, <2>2, SumUpdate
  <1>4. SumFunctionOnSet(temp', Threads) = SumFunctionOnSet(temp, Threads) - temp[t] + temp'[t]
    BY <1>1, <1>3
  <1> QED
    BY <1>1, <1>2, <1>4

LEMMA PromiseHeld ==
  ASSUME Typed, NEW t \in Threads
  PROVE  /\ (Promising' = Promising /\ \A u \in Promising : size'[u] = size[u]) => Promise' = Promise
         /\ (/\ t \in Promising /\ Promising' = Promising \ {t}
             /\ \A u \in Promising \ {t} : size'[u] = size[u]) => Promise' = Promise - size[t]
         /\ (t \notin Promising /\ Promising' = Promising \cup {t} /\ size' = size)
              => Promise' = Promise + size[t]
  <1>a. IsFiniteSet(Promising) /\ (\A u \in Promising : size[u] \in Nat) /\ size[t] \in Nat
    BY SpaceTyped DEF Typed
  <1>1. ASSUME NEW S, IsFiniteSet(S), NEW f, NEW g, \A u \in S : g[u] = f[u]
        PROVE  SumFunctionOnSet(g, S) = SumFunctionOnSet(f, S)
    BY <1>1, SumSame
  <1>2. ASSUME NEW S, IsFiniteSet(S), t \in S, NEW f, NEW g, \A u \in S : f[u] \in Nat,
               \A u \in S \ {t} : g[u] = f[u]
        PROVE  SumFunctionOnSet(g, S \ {t}) = SumFunctionOnSet(f, S) - f[t]
    BY <1>2, SumDrop
  <1>3. ASSUME NEW S, IsFiniteSet(S), t \notin S, NEW f, \A u \in S : f[u] \in Nat, f[t] \in Nat
        PROVE  SumFunctionOnSet(f, S \cup {t}) = SumFunctionOnSet(f, S) + f[t]
    <2>1. f[t] \in Int /\ \A u \in S : f[u] \in Int /\ f[u] = f[u]
      BY <1>3
    <2>2. ASSUME NEW h, NEW k, k[t] \in Int, \A u \in S : h[u] \in Int /\ k[u] = h[u]
          PROVE  SumFunctionOnSet(k, S \cup {t}) = SumFunctionOnSet(h, S) + k[t]
      BY <1>3, <2>2, SumAdd
    <2> QED
      BY <2>1, <2>2
  <1> HIDE DEF Promising
  <1>4. ASSUME Promising' = Promising, \A u \in Promising : size'[u] = size[u]
        PROVE  Promise' = Promise
    BY <1>a, <1>1, <1>4 DEF Promise
  <1>5. ASSUME t \in Promising, Promising' = Promising \ {t},
               \A u \in Promising \ {t} : size'[u] = size[u]
        PROVE  Promise' = Promise - size[t]
    BY <1>a, <1>2, <1>5 DEF Promise
  <1>6. ASSUME t \notin Promising, Promising' = Promising \cup {t}, size' = size
        PROVE  Promise' = Promise + size[t]
    BY <1>a, <1>3, <1>6 DEF Promise
  <1> QED
    BY <1>4, <1>5, <1>6

LEMMA PromiseOf ==
  ASSUME Typed, NEW t \in Threads, \A u \in Threads \ {t} : pc'[u] = pc[u] /\ size'[u] = size[u]
  PROVE  /\ (t \notin Promising /\ t \notin Promising') => Promise' = Promise
         /\ (t \in Promising /\ t \notin Promising') => Promise' = Promise - size[t]
         /\ (t \notin Promising /\ t \in Promising' /\ size' = size) => Promise' = Promise + size[t]
  <1>1. \A u \in Threads \ {t} : u \in Promising' <=> u \in Promising
    BY DEF Promising
  <1>2. Promising \subseteq Threads /\ Promising' \subseteq Threads
    BY DEF Promising
  <1> HIDE DEF Promising
  <1>3. ASSUME t \notin Promising, t \notin Promising'
        PROVE  Promise' = Promise
    <2>1. Promising' = Promising /\ \A u \in Promising : size'[u] = size[u]
      BY <1>1, <1>2, <1>3
    <2> QED
      BY <2>1, PromiseHeld
  <1>4. ASSUME t \in Promising, t \notin Promising'
        PROVE  Promise' = Promise - size[t]
    <2>1. Promising' = Promising \ {t} /\ \A u \in Promising \ {t} : size'[u] = size[u]
      BY <1>1, <1>2, <1>4
    <2> QED
      BY <1>4, <2>1, PromiseHeld
  <1>5. ASSUME t \notin Promising, t \in Promising', size' = size
        PROVE  Promise' = Promise + size[t]
    <2>1. Promising' = Promising \cup {t}
      BY <1>1, <1>2, <1>5
    <2> QED
      BY <1>5, <2>1, PromiseHeld
  <1> QED
    BY <1>3, <1>4, <1>5

\* An admitted request's bytes fit beside all that is held: what is promised is reserved.
LEMMA AdmittedFits ==
  ASSUME QuotaInv, NEW t \in Threads, FreeEnough(t)
  PROVE  Held + size[t] + policy.reserved_free_bytes <= policy.disk
  <1>1. /\ Total(dir) \in Nat /\ Total(temp) \in Nat /\ Total(holes) \in Nat /\ Promise \in Nat
        /\ policy.disk \in Nat /\ policy.reserved_free_bytes \in Nat
    BY SpaceTyped DEF QuotaInv
  <1>2. size[t] \in Nat /\ reservedBytes \in Int
    BY DEF QuotaInv, Typed
  <1>3. Promise <= reservedBytes
    <2>1. Promising \in SUBSET Reserving /\ Reserving \in SUBSET Threads
      BY DEF Promising, Reserving
    <2>2. IsFiniteSet(Reserving) /\ \A u \in Reserving : size[u] \in Nat
      BY <2>1, StorageAssumption, FS_Subset DEF QuotaInv, Typed
    <2>3. SumFunctionOnSet(size, Promising) <= SumFunctionOnSet(size, Reserving)
      BY <2>1, <2>2, SumMonotone
    <2> QED
      BY <2>3 DEF Promise, QuotaInv, ReservationsExact
  <1>4. policy.disk - Total(dir) - Total(temp) + Total(holes)
          >= policy.reserved_free_bytes + Total(holes) + reservedBytes + size[t]
    BY DEF FreeEnough, Free
  <1> QED
    BY <1>1, <1>2, <1>3, <1>4 DEF Held

LEMMA SpaceStaysLeft ==
  ASSUME Typed, Typed', policy' = policy, Held' + policy.reserved_free_bytes <= policy.disk
  PROVE  SpaceLeft'
  <1>1. policy.disk \in Nat /\ policy.reserved_free_bytes \in Nat
    BY SpaceTyped
  <1>2. Total(dir') \in Nat /\ Total(temp') \in Nat /\ Promise' \in Nat
    <2>1. SpaceNumbers'
      BY SpaceCounted, PTL
    <2> QED
      BY <2>1 DEF SpaceNumbers, Total
  <1>3. Held' = Total(dir') + Total(temp') + Promise'
    BY DEF Held, Total
  <1>4. policy.disk - Total(dir') - Total(temp') - Promise' >= policy.reserved_free_bytes
    BY <1>1, <1>2, <1>3
  <1> QED
    BY <1>4 DEF SpaceLeft, Promise, Total

LEMMA RequestKeepsSpace ==
  ASSUME QuotaInv, Typed', NEW t \in Threads, ThreadStep(t)
  PROVE  SpaceLeft'
  <1>a. /\ pc \in [Threads -> Steps] /\ size \in [Threads -> Nat] /\ temp \in [Threads -> Nat]
        /\ Typed /\ SpaceLeft /\ RequestsPlaced /\ PartsPlaced
    BY DEF QuotaInv, Typed
  <1>b. /\ Total(dir) \in Nat /\ Total(temp) \in Nat /\ Promise \in Nat /\ size[t] \in Nat
        /\ temp[t] \in Nat
    BY <1>a, SpaceTyped
  <1>c. policy' = policy
    BY DEF ThreadStep, LockForReserve, Admit, Refuse, Scan, WriteTemp, WriteTempFails, LockForPublish,
           LinkRefused, RemoveTemp, Link, CreatePart, CreateDone, CreateUndone, CreateFailed
  <1>d. Held = Total(dir) + Total(temp) + Promise /\ Held' = Total(dir') + Total(temp') + Promise'
    BY DEF Held, Total
  <1> USE DEF Goto, Scanned
  <1>1. CASE \/ LockForReserve(t) \/ LockForPublish(t) \/ LinkRefused(t) \/ Refuse(t)
             \/ CreateDone(t) \/ CreateFailed(t) \/ \E x \in Paths : Scan(t, x)
    <2>1. dir' = dir /\ temp' = temp
      BY <1>1 DEF LockForReserve, LockForPublish, LinkRefused, Refuse, CreateDone, CreateFailed, Scan
    <2>2. Promise' = Promise
      <3>a. ASSUME \A u \in Threads \ {t} : pc'[u] = pc[u] /\ size'[u] = size[u],
                   pc[t] \notin {"write", "create"}, pc'[t] \notin {"write", "create"}
            PROVE  Promise' = Promise
        BY <1>a, <3>a, PromiseOf DEF Promising
      <3>1. CASE \E x \in Paths : Scan(t, x)
        BY <3>1 DEF Scan, Promise, Promising
      <3>2. CASE LockForReserve(t) \/ LockForPublish(t) \/ LinkRefused(t)
        BY <3>2, <1>a, <3>a DEF LockForReserve, LockForPublish, LinkRefused
      <3>3. CASE Refuse(t) \/ CreateDone(t) \/ CreateFailed(t)
        BY <3>3, <1>a, <3>a DEF Refuse, CreateDone, CreateFailed, Finish
      <3> QED
        BY <1>1, <3>1, <3>2, <3>3
    <2>3. Held' <= Held
      BY <1>b, <1>d, <2>1, <2>2
    <2> QED
      BY <1>a, <1>c, <2>3, SpaceStays
  <1>2. CASE RemoveTemp(t)
    <2>1. /\ dir' = dir /\ temp' = [temp EXCEPT ![t] = 0] /\ t \notin Promising /\ t \notin Promising'
          /\ \A u \in Threads \ {t} : pc'[u] = pc[u] /\ size'[u] = size[u]
      BY <1>2, <1>a DEF RemoveTemp, Finish, Promising
    <2>2. Promise' = Promise
      BY <1>a, <2>1, PromiseOf
    <2>3. Total(temp') = Total(temp) - temp[t] + 0
      BY <1>a, <2>1, TempHeld
    <2>4. Held' <= Held
      BY <1>b, <1>d, <2>1, <2>2, <2>3
    <2> QED
      BY <1>a, <1>c, <2>4, SpaceStays
  <1>3. CASE WriteTemp(t)
    <2>1. /\ dir' = dir /\ temp' = [temp EXCEPT ![t] = size[t]] /\ t \in Promising /\ t \notin Promising'
          /\ \A u \in Threads \ {t} : pc'[u] = pc[u] /\ size'[u] = size[u]
      BY <1>3, <1>a DEF WriteTemp, Promising
    <2>2. Promise' = Promise - size[t]
      BY <1>a, <2>1, PromiseOf
    <2>3. Total(temp') = Total(temp) - temp[t] + size[t]
      BY <1>a, <1>b, <2>1, TempHeld
    <2>4. Held' <= Held
      BY <1>b, <1>d, <2>1, <2>2, <2>3
    <2> QED
      BY <1>a, <1>c, <2>4, SpaceStays
  <1>4. CASE WriteTempFails(t)
    <2>1. /\ dir' = dir /\ temp' = temp /\ t \in Promising /\ t \notin Promising'
          /\ \A u \in Threads \ {t} : pc'[u] = pc[u] /\ size'[u] = size[u]
      BY <1>4, <1>a DEF WriteTempFails, Finish, Promising
    <2>2. Promise' = Promise - size[t]
      BY <1>a, <2>1, PromiseOf
    <2>3. Held' <= Held
      BY <1>b, <1>d, <2>1, <2>2
    <2> QED
      BY <1>a, <1>c, <2>3, SpaceStays
  <1>5. CASE CreatePart(t)
    <2>1. /\ dir' = With(dir, target[t], size[t]) /\ temp' = temp
          /\ t \in Promising /\ t \notin Promising' /\ target[t] \notin DOMAIN dir
          /\ \A u \in Threads \ {t} : pc'[u] = pc[u] /\ size'[u] = size[u]
      BY <1>5, <1>a DEF CreatePart, Promising, RequestsPlaced, PartsPlaced
    <2>2. Promise' = Promise - size[t]
      BY <1>a, <2>1, PromiseOf
    <2>3. /\ DOMAIN dir' = DOMAIN dir \cup {target[t]} /\ dir'[target[t]] = size[t]
          /\ \A y \in DOMAIN dir : dir'[y] = dir[y]
      BY <2>1, DirGrows
    <2>4. Total(dir') = Total(dir) + size[t]
      BY <1>a, <1>b, <2>1, <2>3, DirHeld
    <2>5. Held' <= Held
      BY <1>b, <1>d, <2>1, <2>2, <2>4
    <2> QED
      BY <1>a, <1>c, <2>5, SpaceStays
  <1>6. CASE CreateUndone(t)
    <2>1. /\ dir' = Without(dir, {target[t]}) /\ temp' = temp /\ t \notin Promising'
          /\ \A u \in Threads \ {t} : pc'[u] = pc[u] /\ size'[u] = size[u]
      BY <1>6, <1>a DEF CreateUndone, Promising
    <2>2. Promise' = Promise \/ Promise' = Promise - size[t]
      BY <1>a, <2>1, PromiseOf
    <2>3. DOMAIN dir' \subseteq DOMAIN dir /\ \A x \in DOMAIN dir' : dir'[x] = dir[x]
      BY <2>1, DirShrinks
    <2>4. Total(dir') <= Total(dir)
      BY <1>a, <2>3, DirHeld
    <2>5. Total(dir') \in Nat
      <3>1. SpaceNumbers'
        BY SpaceCounted, PTL
      <3> QED
        BY <3>1 DEF SpaceNumbers, Total
    <2>6. Held' <= Held
      BY <1>b, <1>d, <2>1, <2>2, <2>4, <2>5
    <2> QED
      BY <1>a, <1>c, <2>6, SpaceStays
  <1>7. CASE \E n \in Names : Link(t, n)
    <2> PICK n \in Names : Link(t, n)
      BY <1>7
    <2>1. /\ temp' = [temp EXCEPT ![t] = 0] /\ t \notin Promising /\ t \notin Promising'
          /\ \A u \in Threads \ {t} : pc'[u] = pc[u] /\ size'[u] = size[u]
          /\ temp[t] = size[t]
      BY <1>a DEF Link, Promising, RequestsPlaced
    <2>2. Promise' = Promise
      BY <1>a, <2>1, PromiseOf
    <2>3. Total(temp') = Total(temp) - temp[t] + 0
      BY <1>a, <2>1, TempHeld
    <2>4. /\ <<"plain", n>> \notin DOMAIN dir /\ dir'[<<"plain", n>>] = size[t]
          /\ DOMAIN dir' = DOMAIN dir \cup {<<"plain", n>>} /\ \A y \in DOMAIN dir : dir'[y] = dir[y]
      BY <1>a, LinkSettles
    <2>5. Total(dir') = Total(dir) + size[t]
      BY <1>a, <1>b, <2>4, DirHeld
    <2>6. Held' <= Held
      BY <1>b, <1>d, <2>1, <2>2, <2>3, <2>5
    <2> QED
      BY <1>a, <1>c, <2>6, SpaceStays
  <1>8. CASE Admit(t)
    <2>1. /\ dir' = dir /\ temp' = temp /\ size' = size /\ t \notin Promising /\ t \in Promising'
          /\ \A u \in Threads \ {t} : pc'[u] = pc[u] /\ size'[u] = size[u]
      BY <1>8, <1>a DEF Admit, Promising
    <2>2. Promise' = Promise + size[t]
      BY <1>a, <2>1, PromiseOf
    <2>3. Held + size[t] + policy.reserved_free_bytes <= policy.disk
      BY <1>8, AdmittedFits DEF Admit
    <2>4. policy.disk \in Nat /\ policy.reserved_free_bytes \in Nat
      BY <1>a, SpaceTyped
    <2>5. Held' + policy.reserved_free_bytes <= policy.disk
      BY <1>b, <1>d, <2>1, <2>2, <2>3, <2>4
    <2> QED
      BY <1>a, <1>c, <2>5, SpaceStaysLeft
  <1> QED
    BY <1>1, <1>2, <1>3, <1>4, <1>5, <1>6, <1>7, <1>8 DEF ThreadStep

LEMMA OtherKeepSpace ==
  ASSUME QuotaInv, Typed', [Next]_vars, ~\E t \in Threads : ThreadStep(t)
  PROVE  SpaceLeft'
  <1>a. /\ pc \in [Threads -> Steps] /\ size \in [Threads -> Nat]
        /\ Typed /\ SpaceLeft /\ RequestsPlaced /\ PartsPlaced
    BY DEF QuotaInv, Typed
  <1>b. Total(dir) \in Nat /\ Total(temp) \in Nat /\ Promise \in Nat
    BY <1>a, SpaceTyped
  <1>c. Total(dir') \in Nat /\ Total(temp') \in Nat /\ Promise' \in Nat
    <2>1. SpaceNumbers'
      BY SpaceCounted, PTL
    <2> QED
      BY <2>1 DEF SpaceNumbers, Total
  <1>d. Held = Total(dir) + Total(temp) + Promise /\ Held' = Total(dir') + Total(temp') + Promise'
    BY DEF Held, Total
  <1>e. ASSUME policy' = policy, Total(dir') <= Total(dir), temp' = temp, Promise' = Promise
        PROVE  SpaceLeft'
    <2>1. Held' <= Held
      BY <1>b, <1>c, <1>d, <1>e
    <2> QED
      BY <1>a, <1>e, <2>1, SpaceStays
  <1>1. ASSUME NEW t \in Threads, NEW x, NEW s, BeginPlain(t, x, s) \/ BeginEncrypted(t, x, s)
        PROVE  SpaceLeft'
    <2>1. /\ dir' = dir /\ temp' = temp /\ policy' = policy /\ t \notin Promising /\ t \notin Promising'
          /\ \A u \in Threads \ {t} : pc'[u] = pc[u] /\ size'[u] = size[u]
      BY <1>1, <1>a DEF BeginPlain, BeginEncrypted, Goto, Promising
    <2>2. Promise' = Promise
      BY <1>a, <2>1, PromiseOf
    <2> QED
      BY <1>b, <1>e, <2>1, <2>2
  <1>2. ASSUME DOMAIN dir' \subseteq DOMAIN dir, \A x \in DOMAIN dir' : dir'[x] = dir[x],
               UNCHANGED <<policy, pc, size, temp>>
        PROVE  SpaceLeft'
    <2>1. Promise' = Promise
      BY <1>2 DEF Promise, Promising
    <2>2. Total(dir') <= Total(dir)
      BY <1>a, <1>2, DirHeld
    <2> QED
      BY <1>e, <1>2, <2>1, <2>2
  <1>3. ASSUME NEW n \in Names, DeletePlain(n)
        PROVE  SpaceLeft'
    <2>1. dir' = Without(dir, {<<"plain", n>>}) /\ UNCHANGED <<policy, pc, size, temp>>
      BY <1>3 DEF DeletePlain
    <2>2. DOMAIN dir' \subseteq DOMAIN dir /\ \A x \in DOMAIN dir' : dir'[x] = dir[x]
      BY <2>1, DirShrinks
    <2> QED
      BY <1>2, <2>1, <2>2
  <1>4. ASSUME NEW p \in Parts, DeletePart(p)
        PROVE  SpaceLeft'
    <2>1. dir' = Without(dir, {<<"part", p>>, <<"xfr", p>>}) /\ UNCHANGED <<policy, pc, size, temp>>
      BY <1>4 DEF DeletePart
    <2>2. DOMAIN dir' \subseteq DOMAIN dir /\ \A x \in DOMAIN dir' : dir'[x] = dir[x]
      BY <2>1, DirShrinks
    <2> QED
      BY <1>2, <2>1, <2>2
  <1>5. ASSUME (\E p \in Parts : FillPart(p)) \/ UNCHANGED vars
        PROVE  SpaceLeft'
    <2>1. dir' = dir /\ UNCHANGED <<policy, pc, size, temp>>
      BY <1>5 DEF FillPart, vars
    <2> QED
      BY <1>2, <2>1
  <1>6. ASSUME NEW p \in Parts, RenamePart(p)
        PROVE  SpaceLeft'
    <2> DEFINE part == <<"part", p>>
               xfr == <<"xfr", p>>
    <2>1. /\ DOMAIN dir' = (DOMAIN dir \ {part}) \cup {xfr}
          /\ part \in DOMAIN dir /\ xfr \notin DOMAIN dir
          /\ dir'[xfr] = dir[part] /\ \A y \in DOMAIN dir \ {part} : dir'[y] = dir[y]
      BY <1>a, <1>6, RenameSettles
    <2>2. IsFiniteSet(DOMAIN dir) /\ \A x \in DOMAIN dir : dir[x] \in Nat
      BY <1>a DEF Typed, DirTyped
    <2> HIDE DEF part, xfr
    <2>3. SumFunctionOnSet(dir', (DOMAIN dir \ {part}) \cup {xfr}) = SumFunctionOnSet(dir, DOMAIN dir)
      BY <2>1, <2>2, SizeAfterRename
    <2>4. Total(dir') = Total(dir)
      BY <2>1, <2>3, Zenon DEF Total, SumFunction
    <2>5. UNCHANGED <<policy, pc, size, temp>>
      BY <1>6 DEF RenamePart
    <2>6. Promise' = Promise
      BY <2>5 DEF Promise, Promising
    <2> QED
      BY <1>b, <1>e, <2>4, <2>5, <2>6
  <1> QED
    BY <1>1, <1>3, <1>4, <1>5, <1>6 DEF Next
-----------------------------------------------------------------------------
LEMMA QuotaInit == Init => QuotaInv
  <1> SUFFICES ASSUME Init PROVE QuotaInv
    OBVIOUS
  <1>1. DOMAIN dir = {} /\ IsFiniteSet({}) /\ Cardinality({}) = 0
    BY FS_EmptySet DEF Init
  <1>2. Typed
    BY <1>1 DEF Init, Typed, DirTyped, Steps, NoScan, Listing
  <1>3. RequestsPlaced /\ PartsPlaced
    BY <1>1, Kinds, StorageAssumption DEF Init, RequestsPlaced, PartsPlaced, PartPaths
  <1>4. Reserving = {} /\ Promising = {}
    BY DEF Init, Reserving, Promising
  <1>5. \A f : SumFunctionOnSet(f, {}) = 0
    BY SumEmpty
  <1>6. ReservationsExact
    BY <1>1, <1>4, <1>5 DEF Init, ReservationsExact
  <1>7. Settled = {} /\ Bytes(Settled) = 0
    BY <1>1, <1>5 DEF Settled, Bytes
  <1>8. WithinPromise
    <2>1. policy.max_total_bytes \in Nat /\ policy.max_file_count \in Nat
      BY <1>2, StorageAssumption DEF Typed
    <2> QED
      BY <1>1, <1>7, <2>1 DEF Init, WithinPromise
  <1>9. ListingCovers
    BY DEF Init, ListingCovers
  <1>10. SpaceLeft
    <2>1. Total(dir) = 0
      BY <1>1, <1>5 DEF Total, SumFunction
    <2>2. Total(temp) = 0
      <3>1. DOMAIN temp = Threads /\ \A t \in Threads : temp[t] = 0
        BY DEF Init
      <3> QED
        BY <3>1, StorageAssumption, SumZero DEF Total, SumFunction
    <2>3. SumFunctionOnSet(size, Promising) = 0
      BY <1>4, <1>5
    <2>4. /\ policy.disk \in Nat /\ policy.reserved_free_bytes \in Nat
          /\ policy.disk >= policy.reserved_free_bytes
      BY <1>2, StorageAssumption DEF Typed
    <2> QED
      BY <2>1, <2>2, <2>3, <2>4 DEF SpaceLeft
  <1> QED
    BY <1>2, <1>3, <1>6, <1>8, <1>9, <1>10 DEF QuotaInv

\* Every step keeps the invariant.
LEMMA QuotaStep == QuotaInv /\ [Next]_vars => QuotaInv'
  <1> SUFFICES ASSUME QuotaInv, [Next]_vars PROVE QuotaInv'
    OBVIOUS
  <1>a. Typed /\ RequestsPlaced /\ PartsPlaced /\ ReservationsExact
    BY DEF QuotaInv
  <1>1. ASSUME NEW t \in Threads, ThreadStep(t)
        PROVE  QuotaInv'
    <2>1. Typed' /\ RequestsPlaced'
      BY <1>a, <1>1, RequestTyped, RequestPlaced
    <2>2. PartsPlaced' /\ ReservationsExact'
      BY <1>a, <1>1, RequestParts, RequestReserves
    <2>3. WithinPromise' /\ ListingCovers' /\ SpaceLeft'
      BY <1>1, <2>1, RequestKeepsPromise, RequestKeepsListing, RequestKeepsSpace
    <2> QED
      BY <2>1, <2>2, <2>3 DEF QuotaInv
  <1>2. ASSUME ~\E t \in Threads : ThreadStep(t)
        PROVE  QuotaInv'
    <2>1. Typed'
      BY <1>2, <1>a, OtherTyped DEF Next
    <2>2. RequestsPlaced'
      BY <1>2, <1>a, OtherPlaced DEF Next
    <2>3. PartsPlaced'
      BY <1>2, <1>a, OtherParts DEF Next
    <2>4. ReservationsExact'
      BY <1>2, <1>a, OtherReserves DEF Next
    <2>5. WithinPromise' /\ ListingCovers'
      BY <1>2, <2>1, OtherKeepPromise DEF Next
    <2>6. SpaceLeft'
      BY <1>2, <2>1, OtherKeepSpace
    <2> QED
      BY <2>1, <2>2, <2>3, <2>4, <2>5, <2>6 DEF QuotaInv
  <1> QED
    BY <1>1, <1>2

\* Files under a reservation fit into it, so the promise bounds the whole directory.
LEMMA PromiseBoundsFiles ==
  ASSUME QuotaInv
  PROVE  WithinQuota
  <1>a. /\ Typed /\ RequestsPlaced /\ PartsPlaced /\ ReservationsExact /\ WithinPromise
        /\ policy.max_total_bytes \in Nat /\ policy.max_file_count \in Nat
    BY PolicyTyped, StorageAssumption DEF QuotaInv, Typed
  <1>b. /\ IsFiniteSet(Reserving) /\ \A u \in Reserving : size[u] \in Nat
        /\ reservedFiles = Cardinality(Reserving) /\ reservedBytes = SumFunctionOnSet(size, Reserving)
        /\ reservedFiles \in Nat /\ reservedBytes \in Nat
    <2>1. Reserving \in SUBSET Threads
      BY DEF Reserving
    <2>2. IsFiniteSet(Reserving) /\ \A u \in Reserving : size[u] \in Nat
      BY <1>a, <2>1, StorageAssumption, FS_Subset DEF Typed
    <2> QED
      BY <1>a, <2>2, SumMonotone, FS_CardinalityType DEF ReservationsExact
  <1>c. Settled \in SUBSET (DOMAIN dir) /\ Bytes(Settled) \in Nat /\ Cardinality(Settled) \in Nat
    <2>1. Settled \in SUBSET (DOMAIN dir)
      BY DEF Settled
    <2> QED
      BY <1>a, <2>1, FilesFinite
  <1>d. Total(dir) = Bytes(DOMAIN dir)
    BY <1>a, SpaceTyped
  <1>e. /\ Bytes(Settled) + reservedBytes <= policy.max_total_bytes
        /\ Cardinality(Settled) + reservedFiles <= policy.max_file_count
    BY <1>a DEF WithinPromise
  <1>1. CASE \E t \in Threads : pc[t] = "created"
    <2> PICK t \in Threads : pc[t] = "created"
      BY <1>1
    <2>1. target[t] \in DOMAIN dir /\ dir[target[t]] = size[t] /\ target[t] \in PartPaths
      BY <1>a DEF PartsPlaced, RequestsPlaced
    <2>2. Made = {target[t]}
      BY <1>a, <2>1, MadeOne
    <2>3. DOMAIN dir = Settled \cup {target[t]} /\ target[t] \notin Settled
      BY <2>1, <2>2 DEF Settled
    <2>4. t \in Reserving /\ size[t] \in Nat
      BY <1>b DEF Reserving
    <2>5. size[t] <= reservedBytes
      <3>1. SumFunctionOnSet(size, Reserving) = size[t] + SumFunctionOnSet(size, Reserving \ {t})
        <4>1. \A u \in Reserving : size[u] \in Int
          BY <1>b
        <4> QED
          BY <1>b, <2>4, <4>1, SumRemove
      <3>2. SumFunctionOnSet(size, Reserving \ {t}) \in Nat
        BY <1>b, SumMonotone
      <3> QED
        BY <1>b, <2>4, <3>1, <3>2
    <2>6. 1 <= reservedFiles
      BY <1>b, <2>4, FS_EmptySet
    <2> HIDE DEF Settled, Bytes
    <2>7. Bytes(DOMAIN dir) = Bytes(Settled) + size[t]
      <3>1. IsFiniteSet(DOMAIN dir) /\ \A x \in DOMAIN dir : dir[x] \in Int
        BY <1>a DEF Typed, DirTyped
      <3>2. SumFunctionOnSet(dir, DOMAIN dir)
              = dir[target[t]] + SumFunctionOnSet(dir, DOMAIN dir \ {target[t]})
        BY <2>1, <3>1, SumRemove
      <3>3. DOMAIN dir \ {target[t]} = Settled
        BY <2>3
      <3>4. Bytes(DOMAIN dir) = dir[target[t]] + Bytes(Settled)
        BY <3>2, <3>3, Zenon DEF Bytes
      <3> QED
        BY <1>c, <2>1, <2>4, <3>4
    <2>8. Cardinality(DOMAIN dir) = Cardinality(Settled) + 1
      <3>1. IsFiniteSet(Settled)
        BY <1>a, <1>c, FilesFinite
      <3>2. Cardinality(Settled \cup {target[t]}) = Cardinality(Settled) + 1
        BY <2>3, <3>1, FS_AddElement
      <3> QED
        BY <2>3, <3>2
    <2> QED
      BY <1>a, <1>b, <1>c, <1>d, <1>e, <2>4, <2>5, <2>6, <2>7, <2>8 DEF WithinQuota
  <1>2. CASE ~\E t \in Threads : pc[t] = "created"
    <2>1. Settled = DOMAIN dir
      BY <1>2 DEF Settled, Made
    <2>2. Bytes(Settled) = Bytes(DOMAIN dir) /\ Cardinality(Settled) = Cardinality(DOMAIN dir)
      BY <2>1
    <2> HIDE DEF Settled, Bytes
    <2> QED
      BY <1>a, <1>b, <1>c, <1>d, <1>e, <2>2 DEF WithinQuota
  <1> QED
    BY <1>1, <1>2

LEMMA SpaceLeftKept ==
  ASSUME QuotaInv
  PROVE  FreeSpaceKept
  <1>1. /\ Total(dir) \in Nat /\ Total(temp) \in Nat /\ Total(holes) \in Nat /\ Promise \in Nat
        /\ policy.disk \in Nat /\ policy.reserved_free_bytes \in Nat
    BY SpaceTyped DEF QuotaInv
  <1>2. policy.disk - Total(dir) - Total(temp) - Promise >= policy.reserved_free_bytes
    BY DEF QuotaInv, SpaceLeft, Promise
  <1>3. Promised = Total(holes) + Promise
    BY DEF Promised, Promise, Promising
  <1> QED
    BY <1>1, <1>2, <1>3 DEF FreeSpaceKept, Free

(***************************************************************************)
(* UploadStorageService: whatever uploads of both kinds, deletions and     *)
(* failures overlap, the reservations are those of the requests under way  *)
(* and neither the quotas nor the free-space reserve are overdrawn.        *)
(***************************************************************************)
THEOREM UploadQuotaSound == Spec => []QuotaSound
  <1>1. QuotaInv => QuotaSound
    BY PromiseBoundsFiles, SpaceLeftKept DEF QuotaSound, QuotaInv
  <1> QED
    BY QuotaInit, QuotaStep, <1>1, PTL DEF Spec
==============================================================================
