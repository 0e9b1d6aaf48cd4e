# xferry: TLA+ verification project

xferry is a synchronous HTTP file-transfer server written in Python: one accept
loop, one worker thread per admitted connection, and a set of services that
keep state in memory or on disk behind locks; a management plane publishes,
installs, configures and updates it. This project models the parts whose
correctness depends on interleavings, failures, limits and order, checks the
models with TLC on small instances, and proves with TLAPS, for every value of
the constants, results that matter most.

Paths below are relative to `src/xferry/` unless they start with `docs/` or
`tools/`, which are relative to `src/`.

## 1. Inventory

| Component | Source | State | Operations | Hard behaviour |
|---|---|---|---|---|
| Capacity gates and leases | `lifecycle.py` 28-104 | active, waiting, closed; one flag per lease | acquire, release, close | two locks per release, lost wakeups, shutdown while blocked |
| Server lifecycle | `lifecycle.py` 107-393 | running, listener, tracked sockets, cleaned flag | start, accept, stop, cleanup, replace_socket | stop racing accept, worker and TLS handshake |
| Server startup | `server.py` 118-543 | state directory, its binding to a folder | construct, bind, reconcile, listen | a start stopped anywhere, another folder mounted since |
| Request path | `request_pipeline.py`, `server.py`, `http/io.py` | bytes received, body budget, leases of a request | receive, admit, dispatch, respond | tests divided between two places, stalls, every exit path gives back what it took |
| Answers | `http/response.py`, `http/cors.py`, `features.py`, `server.py` 1044-1240 | the response and what its client was told | frame, stream, compress, keep alive; preflight, guard, CORS headers | a length announced before the file is opened, streams that break off, tables that must agree |
| WebSocket runtime | `websocket_runtime.py`, `websocket.py` | buffer, timeout of the socket | upgrade, frame loop | half a frame under the long timeout |
| Authentication admission | `security/auth.py` 180-519 | peer table, FIFO of waiters, active, outstanding, closed | acquire, finish, close, prune | callers promoted by others, clock read before the lock, lockout |
| Encrypted upload storage | `encrypted_storage.py` | one state file and one data file per record | create, write_chunk, complete, delete, expire, reconcile | crash between any two file operations, retries, concurrent delete |
| Encrypted transfer API | `handlers/encrypted_files.py`, `encrypted_transfer.py` | none of its own | routes, manifests, sealed chunks | record read under the lock, data without it |
| Upload quota | `storage.py` | files, reserved bytes | publish_bytes, reservation, mutation | check-then-write outside the lock |
| Files handlers | `handlers/files.py`, `handlers/info.py`, `handlers/base.py`, `http/utils.py` | the upload directory | upload, GET, FETCH, INFO, DELETE, clear | names cleaned one way and resolved another |
| Smuggle artifacts | `smuggle/store.py`, `handlers/context.py`, `handlers/files.py` | artifact files, claims | write, claim, serve, evict, shutdown | one-shot delivery against eviction and name reuse |
| Advanced uploads | `handlers/advanced_payload.py`, `handlers/advanced_upload.py` | none of its own | choose a carrier, decode, publish | two readings of one upload, inflation |
| Notepad | `notepad_service.py`, `handlers/notepad.py` | ciphertext and metadata file per note | save, load, list, delete, clear | two files replaced one after the other, unlocked readers |
| Advanced sessions | `advanced_sessions.py` | token table | create, resolve, touch, revoke, invalidate_all | a handle used after its session was replaced |
| ECDH sessions | `security/keys.py` | ordered session table | derive, get, remove, cleanup | expiry order with a clock read outside the lock |
| TLS and ACME renewal | `security/tls_manager.py`, `security/renewal.py`, `security/tls.py` | certificate cache, schedule, retry file | setup, renew, publish, stop | publication racing shutdown, backoff over restarts, shared cache |
| Native deployment | `management/releases.py`, `native_backend.py`, `managed_state.py`, `system.py`, `setup.py` | release tree, link, unit, configuration, receipts | setup, update, rollback, uninstall, configure, credentials, purge | failure or kill between steps, failing undo, two commands at once |
| Compose deployment | `management/compose_backend.py`, `docker_deploy.py` | bundle of files, manifest, container, volume | the same | the same, and Docker's own state |
| Folders of deployments | `management/instances.py`, `application.py`, `cli.py` | registry, manifests | reserve, change, release | looks before the lock, several users |
| Storage rebind | `management/storage_rebind.py` | a copy of the uploads, its binding | verify, bind | files read one after the other under a writer |
| Portable settings | `settings.py`, `server_config.py`, `management/configuration.py`, `wizard.py` | configuration file, password file | set, configure, reset | two editors, validity in another environment |
| Release publication | `.github/workflows/release-production.yml`, `tools/` | draft, assets, PyPI, GHCR | build, sign, upload, expose, verify | lost answers, re-runs, drafts changed by hand |
| Trust of a release | `management/release_contract.py`, `release_trust.py`, `versions.py` | key ring, installed releases | fetch, verify, switch | a server that may answer anything |
| Browser client, metrics, page construction, file inspection, pipeline scripts | | | | not modelled, section 7 |

How they interact. The accept loop takes a connection slot, tracks the socket
and submits a worker. The worker takes a TLS slot, then per request a transfer
slot, body bytes and a dispatch slot; the handler calls the services; on every
exit each lease, reservation and socket goes back. Authentication admission
runs inside the worker, before anything that costs. The upload quota is shared
by plain uploads, encrypted uploads and artifacts, which live in the same
directory. `stop()` is called from another thread or from a signal handler on
the main thread and only sets flags, closes gates and closes sockets;
`cleanup()` on the main thread waits for the workers. The management plane runs
in processes of its own and meets the server only through files, the service
manager and a health probe. Two servers may share a certificate cache.

What makes each component correct is in section 4; every behaviour that a test
would hardly reach is a hazard in `PROJECT.json`, at its line, with the
properties that would catch it or a note why none does.

## 2. Plan

The order is by what a failure would cost: admission and shutdown first, since
everything runs inside them, then what is stored, then what is deployed.

| Step | Modules | Composes or refines | State |
|---|---|---|---|
| 1 | `CapacityGate`, `AuthAdmission` | | checked, proved |
| 2 | `EncryptedStorage`, `EncryptedTransfer`, `EncryptedManifest`, `ServerStartup`, `StorageRebind` | the first refines `UploadRegister` | checked, the first and the last two proved |
| 3 | `UploadStorage`, `SmuggleArtifacts`, `FileRequests` | the stores and handlers that share the upload directory | checked, the first two proved |
| 4 | `ServerRuntime`, `RequestPath`, `Replies`, `WebSocketSession` | lifecycle, workers, budget; a gate as `CapacityGate` shows it | checked, all but `Replies` proved |
| 5 | `NativeDeployment`, `NativeSetup`, `ManagedInspection`, `ComposeDeployment`, `FolderReservation` | | checked, all but the first proved |
| 6 | `Notepad`, `AdvancedSessions`, `SessionKeys`, `TlsManager`, `AdvancedPayload` | | checked, all but the last proved |
| 7 | `PortableSettings`, `ReleaseTrust`, `ReleasePublication`, `OciLayout` | | checked, the first three proved |
| 8 | the `...Proofs` modules, section 5 | steps 1 to 7 | proved; next below |

Theorems to prove next: `NativeSound` and `StoppedStaysStopped` of `NativeDeployment`,
part by part. No module that is proved about declares a recursive operator.

## 3. Modules and how they correspond to the code

### Admission and shutdown

**`CapacityGate`** is `CapacityGate` and `AdmissionLease` of `lifecycle.py`.
`inUse` and `gateClosed` are its fields `active` and `closed`; a thread inside
`condition.wait` is `"waiting"`, `notified` says which of them a `notify_all`
has reached, `expired` which deadlines have passed. One action is one critical
section: `GateAcquire` and `Wake` are the two halves of `acquire()` around the wait,
`LeaseRelease` sets the lease's flag under the lease's lock and `GateRelease`
lowers the counter under the gate's. Worker and done-callback (`Callers`) may
both release one lease.

**`AuthAdmission`** is `AuthAdmissionController`. All fields of the controller
are variables; the two clock readings made before the lock is taken are the
actions `Call` and `VerifyDone`, so a thread may act on an old `now`. The
promotion loop is one step per iteration (`PromoteStep`), taken by whichever
thread holds the lock: `acquire`, the wait loop and `_finish` all run it.

**`ServerRuntime`** composes lifecycle, connection workers, request pipeline,
body budget and WebSocket sessions into one process: `main` and `stopper` are
the points of the main thread and of `stop()`, `stage` that of each worker. `fd`
and `tracked` separate the object that owns a descriptor from the object in the
socket table, which TLS wrapping makes different. A gate is what `CapacityGate`
shows of it: a slot while open and below the limit. Which request is routed,
refused or answered how is nondeterministic; every early return is a disjunct.

**`RequestPath`** is what `ServerRuntime` leaves open: one connection, unit by unit
from `receive_request_result` through the admission policy, the header checks
before the body and `RequestPipeline.process` to the handler and back into the
keep-alive loop. A request is the set of its faults and what the tests read of
it (route, credentials, origin, site mark); **`RequestChecks`** holds the one idea
that a validation is a sequence of tests with their statuses. **`Replies`** is the
way back: the `HTTPResponse` of one request (body, file or iterator) with the length
it announces, what `_send_response` then sends, chunk by chunk, and what a client
that counts by that length makes of it; and, apart from it, what a browser lets a
page of another origin do, given the preflight of `handle_options`, the tables of
`features.py` and the guard of mutations. **`WebSocketSession`**
is the frame loop with its two timeouts.

### What is stored

**`EncryptedStorage`** is the encrypted upload store. An operation is a sequence
of file-system steps under the service's lock (`op`); a directory is a log of
values of which the first is durable and the last visible, so `fsync` is
dropping a prefix, a kill keeps the log and a power loss keeps any one value of
it, per directory. `ReconcileRecord` and `ReconcileSweep` are the pass that
runs at startup. **`UploadRegister`** is the abstract specification: uploads appear,
gain chunks that never change, are published when they have all, and vanish only
while somebody is entitled to remove them. `RefinesRegister` maps the durable
value of the two directories to it.

**`EncryptedTransfer`** has the same operations as one step each and looks at what
clients get: manifests, keys, nonces and sealed chunks as the terms that ideal
cryptography makes of them, the bisection of `capacity()`, and three downloads
that read record and data apart from each other. **`EncryptedManifest`** sends every
manifest through the three validators, with a restart under another limit in
between. **`ServerStartup`** is the constructor up to the listener, with the binding
of the state directory to a folder and the reconcile that deletes what has no
counterpart. **`StorageRebind`** is the verification of a restored copy, one system
call per step.

**`UploadStorage`** is the quota of `storage.py`: reservations, the directory
listing (one step per entry, since part files are created outside its lock),
temporary files, publication by link, and the allocation of sparse part files,
which the free-space check must count before they are filled. The encrypted
store appears as the creations, fillings, renames and deletions it makes.

**`FileRequests`** is both ends of a basic upload: the name as the client wrote it,
token by token through `sanitize_filename` and the suffixes of a collision, and
the path of the answer through `_get_file_path`, `resolve_descendant_path` and the
routes of GET, FETCH, INFO and DELETE. INFO has its query, its pages and the public
path it gives to each entry. **`SmuggleArtifacts`** is the registry of one-shot
artifacts and every handler that touches their names: writing with retention,
resolve/inspect/claim/open/cleanup of a response to GET or HEAD, FETCH (which opens
the file without any of the others), DELETE, clear, ordinary upload, stop, kill and
the cleanup at startup.

**`Notepad`** has the two files of a note as two variables and one step per file
operation, with the undo of a failed save and readers that hold no lock.
**`AdvancedPayload`** distributes the fields of an upload over its carriers, follows
the parser's scan and its choice of one, and feeds the decompressor piece by
piece. **`AdvancedSessions`**, **`SessionKeys`** and **`TlsManager`** are tables behind
a lock with a clock: the store of bearer tokens and the uploads that outlive
them; the ordered table whose readings of the clock arrive late; and two servers
on one certificate cache, each with its context in memory, the schedule, the
retry file and `.acme.lock`.

### What is deployed

**`NativeDeployment`** is the native deployment that management commands change:
`releases.py` (update, rollback, uninstall), `native_backend.py` (configure,
credentials, start/stop/restart, purge), the test for unsupported state of
`managed_state.py` and the file transaction of `system.py`. `releases`, `current`
and `root` are the tree under `/opt/xferry`, `etc` the files under `/etc` and the
state directory, `svc` the service with the version, password and folder it was
started with. A command is a record in `cmd`: what it read before the lock, and
its step. Each durable step is an action, each external command or write has a
failing disjunct, and `Kill` ends a command that holds the lock between any two.

**`NativeSetup`** is the setup of such a deployment, over nothing, over another one
or over a runtime that was removed, as lists of stages and of undo stages, each
of which fails before or after its effect; `broken` is the port at which `ufw`
failed, whether or not its rule took effect. **`ManagedInspection`** is
`_owned_state_is_safe` against other users of the host, who act between any two
system calls within the permissions of the directories.
**`ComposeDeployment`** is the Docker counterpart: the six files of a bundle, the
container and the volume; a command is its list of steps with those of its undo,
a purge the four of `PurgeSteps`, between which it may fail and undoes nothing.
**`FolderReservation`** is the command line from the user it runs as to the
folder it takes: discovery through the registry and the fixed places, the look at
every manifest found, under a lock per user. Paths are sequences of names and
`Leads` says which directory each leads to, so that a bind mount is two paths of one
directory: `Overlaps` is the code's comparison, `OwnFoldersApart` asks about
directories and about every path of the host.

**`PortableSettings`** derives and validates the settings that depend on each other
(layers, defaults of public access, TLS, folders) as the code does at an edit and
again at a start, and lets two editors run `config set`, the wizard and the
password reset. **`ReleaseTrust`** is what an update believes of an answer, with the
order of versions given as a constant and `CompareReleaseVersions` as in `versions.py`.
Under the lock a command installs and compares (`UpdateLocked`), verifies and moves the
link (`Activate`), and either prunes (`Activated`) or goes back to the release it came
from, which it does not verify (`RestorePrevious`); releases rot in between. The first
release may be a build by hand, whose manifest nobody signed.
**`ReleasePublication`** is the production workflow, step by step as the jobs call
the tools, with lost answers, both kinds of re-run and a draft changed by
somebody else; **`OciLayout`** compares the four readers of the image graph.

The modules `MC...` only add configurations, symmetry sets and, where components
are checked side by side, the choice of the one that moves.

## 4. Runs

Components that share no state are checked in one run: `scope`, chosen in `Init`,
names the one that moves while the others rest in an initial state. A behaviour
of all together would be an interleaving of one behaviour of each, and every
property speaks of one component, so nothing is lost.

| Run | Components and bounds | What it shows |
|---|---|---|
| `auth_safety` | 3 threads, 3 peers, table of 2, 2 verifications at once, time 0-3 | `TableSound`: the counters equal what threads hold, all limits hold, pruning never removes a peer in use; `LockoutBound`: failures plus verifications in flight never exceed `max_failures`; `QueueServed`: a startable waiter is not left while a slot is free, nor asleep; `DecisionsLast`: a lockout ends only by its own expiry in spite of stale clocks, and close drains |
| `auth_liveness` | logins: 3 threads, 1 peer, 1 verification at once | every `acquire()` of the controller returns even if the clock stops (`AcquireReturns`) |
| | gate: 3 threads, 2 slots, 2 releasing parties per lease | `GateSound`: the counter is exactly the slots in use, within the limit, and no sleeper is left behind a free slot or a close; every blocked `acquire()` of the gate returns (`GateReturns`) |
| `encrypted_outages` | storage: 2 ids, 1 chunk, 2 values, 2 power losses and a kill anywhere | `UploadsDurable`: record and data file agree whenever no operation runs and acknowledged chunks survive; the disk implements `UploadRegister` (`RefinesRegister`) |
| | transfer: 1 id created twice, 2 passwords, 0 or 2 chunks, one damage | `TransferSound`: what a reader accepts as a whole file is one upload in order; the size advertised as possible fits |
| | manifest: every combination of envelope and fields, limits none, 3 and 20 | `AcceptedReloads`: what was accepted is not taken for corrupt by a later start |
| | startup: 2 state directories, 2 folders, 3 starts | `StartupKeepsUploads`: no start takes a complete upload away |
| | rebind: 2 uploads, 2 changes by a writer | `VerifiedTogether`: what is reported as verified was sound at one moment |
| | folders: root and a user, 2 shells, 3 commands, a nested folder and a bind mount | `OwnFoldersApart`: deployments of one user never have one directory, and no path lies below both their folders |
| `upload_quota` | 2 threads, sizes 0-2, quota of 3 bytes and 2 files, or disk of 4 bytes | `QuotaSound`: reservations equal the uploads under way, quotas hold in spite of the unlocked listing, the reserve of free space survives the filling of sparse files |
| `smuggle_artifacts` | 2 threads; 2 names reused by clients with one stop or kill, or 3 names of 2 sizes against 2 files and 3 bytes | an artifact is given to one GET or HEAD, which removes it (`OneShot`); `RegistrySound`: an upload never counts as an artifact, claims have owners, limits hold when a write succeeds |
| `server_runtime` | 2 connections; TLS with 2 slots and a stop thread, plain with 1 slot and signals | `ResourcesReturned`: slots and body bytes are exactly what workers hold, and when the server is down every socket is closed and every slot returned; no client can hold up the workers that cleanup waits for (`JoinUnblocked`); stop brings the server down (`StopTerminates`) |
| `notepad` | 2 threads, 2 notes, 3 saves, quota of 2 notes and 2 bytes, one kill | `NotesSound`: quota, acknowledged contents, pairs of one save, unlocked readers see nothing older than what was acknowledged; a deleted note comes back only by a save that may create (`UpdatesNeverRevive`) |
| `services` | path: 8 routes, 2 requests of 0-2 body units; every origin, site mark and fault | `RequestsGuarded`: nothing that costs or changes something without credentials, nothing changed for a page of a foreign site; first half of `ExchangesSound`: a request is read where one was begun (`FramesAligned`) |
| | answers: bodies, files and streams of 0-2 units, 2 answers per connection; pages: all policies, methods and headers | second half of `ExchangesSound`: whoever was told that the connection stays has taken exactly one answer when the worker waits again (`RepliesFramed`); a foreign page changes nothing and reads only under the wildcard, and a preflight promises nothing the guard refuses (`CrossOriginSound`) |
| | websocket: 3 frames, 6 seconds | `HalfFramesExpire` |
| | payload: every distribution of fields, 9 compressed streams, limit of 3 | `PayloadSound`: one reading or a refusal, and no more than one byte over the limit in memory |
| | files: names of 3 tokens, 2 uploads | `AckedReadable`: an upload is found at the path that was answered, INFO names it by that path, and the pages of the listing show every visible name once |
| | sessions: 2 threads, 2 tokens, 2 users, 1 session at once | `EndedStayEnded` |
| | keys: 2 clients, 3 ids, table of 2 | `ServedWithinLag`: a key is handed out past its time by no more than somebody waited for the lock |
| | tls: 2 servers, 3 certificates, 2 starts, time 0-3 | `OneOrderPerRenewal`; `RenewalSound`: no switch after stop, no order before a deadline, also after a restart |
| `deployments` | native: 2 commands, 3 versions, 2 folders, 2 passwords, one kill | `NativeSound`: the link names a sound release and the superseded one is kept through any failure or kill; between commands the service runs what is installed, receipts are those of the files, no failure leaves a deployment that commands refuse (but for the manifest of a purge that failed over the registry), a purge removes what it owned; `StoppedStaysStopped` |
| | compose: 2 operators, 3 commands, 2 images with one kept, configurations and passwords | `ComposeSound`: manifest, files and container agree between commands, unless a purge failed and left the manifest alone; a rollback returns to the image before |
| | setup: fresh, existing and retained hosts, one port, any stage failing before or after its effect | `SetupAllOrNothing`: success runs what was installed; failure leaves what was found, or says so, or a rule whose own command failed |
| | portable: 2 editors, 2 edits, 6 files, 5 environments | `EditsSound`: what is saved starts and loses no other edit |
| | publication: 3 attempts, 2 assets, 2 changes of a draft | `PublicationSound`: all that is public is of one build; a passed gate means what it says |
| | image: all indexes of 4 descriptors out of 8 (5 with both platforms first), flat or nested | `PulledIsAttested`: what `docker pull` gets from the index the gate read has the platform, the labels and the attestations of the release |
| | inspection: 2 directories, own and foreign files, other users acting | `StaysAsInspected` |
| | trust: 5 versions, 2 platforms, 2 keys or none, 2 updaters, 2 commands, releases that rot | `UpdatesSound`: switches only to what was verified, or back to what the failing command replaced; only a rollback or such a failure goes to an earlier version |

One type invariant is checked where types carry weight, `TypeOK` of the two
admission controllers, as a part of `GateSound` and `TableSound`; elsewhere the
types are implied by the properties or would only repeat the assignments.

Three runs are expected to be violated; each is a finding in `PROJECT.json`.

| Run | What the code does |
|---|---|
| `encrypted_kill_then_power` | a recovery that finds the rename made does not fsync the directory before it records "complete"; a power loss then takes the file |
| `server_stop_signal` | SIGTERM during the TLS setup clears a flag that `start()` sets afterwards; the server stays up and rejects everyone |
| `announced_close` | an encrypted download announces `Connection: close`; the pipeline asks whether the answer was streamed only after `_send_response` has dropped the iterator, and waits for another request |

**Bounds.** Three threads are the fewest with a holder, a waiter that may be
skipped and one that overtakes it; two slots are the fewest at which the limit
is neither trivially full nor never reached. Three peers over a table of two
force a prune. Two ids are needed for a sweep that confuses records; one chunk
suffices because chunks of one id never interact except through "all present".
Two power losses and a kill cover a loss during the recovery from a loss and
a kill after it. Two threads in the quota are the two uploads that fit alone
and not together. Two connections are one being wrapped and one waiting for
the slot it holds. Two commands, operators, editors or updaters are one that has
read and one that changes what it read; three versions are the current one, the
one kept and a new one, so that something is pruned. Two creations of one id are
what a download may confuse. Three certificates are the one in the cache and one
per server. Three saves are two that overlap and one after a removal. Two requests
are one whose remains might be read as the other; two units of content are one
sent and one owed, and a limit of two answers is reached or not. A table of two keys over three
ids evicts. Four descriptors are two images with an attestation each, the fifth
repeats one. Counters are capped by `MaxTime`, `MaxClock`, `MaxNow`, `MaxSeconds`,
`MaxSaves`, `MaxKills`, `MaxCreations`, `MaxStarts`, `MaxCerts`, `MaxRequests`,
`MaxFrames`, `MaxTokens`, `MaxBasic`, `MaxUploads`, `MaxDamage`, `MaxFree`, `MaxRuns`,
`MaxChanges`, `MaxIssued`, `MaxCommands`, `MaxEdits`, `MaxPages`, `MaxAttempts`,
`MaxMeddling`, `MaxUpdates`, `MaxContent`, `KeepAliveAnswers`, `policy.stops`, `mix.kills` and the length of `Faults`, and by
nothing else. `MaxTime` = 3 of the lockout exceeds `Cooldown` so that one begins, is
judged with a stale reading, and ends; the clocks of sessions, keys and renewal
pass their lifetimes in the same way.

**Symmetry.** Threads, peers, identifiers, servers and commands that no component
tells apart are permuted; merged runs give the sets of several components the
same model values, so that one permutation renames them all. Runs with a liveness
property use none.

**Deadlock** is checked where a component runs for ever. `CHECK_DEADLOCK FALSE` is set
where it ends: a server that is down, a command, a setup or a workflow that has
finished, a connection that is closed.

**Fairness.** `FairWaitSpec` states that of both gates. `CapacityGate`: weak fairness of thread steps and of deadlines: an OS
thread keeps running and every wait has a timeout. `AuthAdmission`: weak
fairness for the thread that holds the lock or is verifying (verification is a
bounded computation), strong fairness of taking the lock (a Python condition's
lock starves nobody for ever that finds it free again and again); none for the
clock. `ServerRuntime`: weak fairness of main, stop and worker steps, since
every wait of a worker has a timeout; none for clients, which may never send,
nor for a WebSocket message. No other module states a liveness property: its
operations end when its caller does, and an administrator may walk away.

## 5. Proofs

Every theorem is about the specification that the runs check, for every value of
the constants its module's assumption admits: any finite set of threads, peers
or connections, any set of ids, names, chunks and policies.

- `AdmissionProofs`, on `CapacityGate`: `GateIsSound` is `GateSpec => []GateSound`, the property of the
  run, for any finite set of threads, any set of releasing parties and any
  positive limit (`GateAssumption`); `GateSlotsExact` and `GateNoLostWakeup` are two of
  its parts, `GateClosedDrains` the action property that no step gives out a slot
  after `close()`. The inductive invariant `GateInv` adds that a slot on its way
  back belongs to a lease whose flag is set (`FreeingIsReleased`): without it
  `GateRelease` could lower the counter for a slot nobody held. Each action's
  lemma reduces the count to adding or removing one element of `Holders`.
- `AdmissionProofs`, on `AuthAdmission`: all four properties of the run `auth_safety`,
  from one assumption (`AuthAssumption`).
  `AuthLockoutBound`: `LockoutInv` is the bound with integer entries; the argument
  runs through lemmas on one table entry: forgetting an expired lockout lowers
  the count, starting is allowed only below the limit, and an outcome turns one
  verification into at most one failure.
  `AuthTableSound`: `AdmissionInv` says where a thread stands given its place in the
  queue and its answer (`QueueInv`), that clock readings are of the past
  (`ClockInv`), and that the counters are the cardinalities of the sets they count
  (`TableInv`); pruning and dropping are sound because nobody in those sets belongs
  to an entry without outstanding work.
  `AuthDecisionsLast`, the action property: `DecisionsInv` adds that a lockout ends
  no later than one cooldown after its last failure (`LockoutsTimed`), so that
  pruning, which looks only at the last failure, cannot forget it early; and that
  the queue of a closed controller is empty (`Drained`).
  `AuthQueueServed`: `ServedInv` says that outside the two promotions that end in a
  `notify_all` every waiter is settled, which means that a running attempt of its
  own peer leaves it no guess. This is why the promotion of the wait loop never
  grants, and why the missing notification after it (`security/auth.py:349`) costs
  nobody a wakeup: the argument a reader of that code has to find.
- `EncryptedStorageProofs`: `StorageUploadsDurable` and `StorageRefinesRegister`, the
  invariant and the refinement of the abstract register, for any number of
  outages. Both assume `KillsComeLast`: no loss of power follows a kill. That is not
  for the prover's sake; with one that does, both are false, which is what
  the run `encrypted_kill_then_power` shows and the finding says. `StorageInv` states
  for every pair of record and data file that an outage could leave (`Views`, all
  values of both logs) that recovery makes a sound pair of it, and for each step
  of each operation what the steps before it have made durable. `RegisterInv` adds
  that every such pair amounts to the present state of the register or to the
  next one, for one id at a time (`OneMoves`), which is the step simulation.
- `SmuggleArtifactsProofs`: `SmuggleOneShot` and `SmuggleRegistrySound`. `ServingInv` says
  that names are drawn once, so that an artifact that is gone stays gone, and
  that of two responses to one name at most one can still open it, the one that owns
  the claim until its cleanup; a FETCH changes nothing of this. `RegistryInv` says
  that a claimed artifact is being served, that a registered name without an
  artifact is about to be dropped by somebody, and that an upload under a
  registered name is still being published; `RetentionInv` that the limits of the
  policy hold, since only a write adds a file and it keeps what leaves room.
- `ServerRuntimeProofs`: `RuntimeJoinUnblocked`. `RuntimeInv` says that the table owns
  every open descriptor except between `wrap_socket` and `replace_socket`
  (`TableOwns`), that the copy cleanup works through covers what is still open
  (`CopyCovers`), and that once cleaned the server stays so (`StaysDown`); it needs
  all three because a worker may replace its socket between the copy and the
  closing. `RuntimeResourcesReturned`: `ResourceInv` adds which leases a worker may
  hold at which point (`HeldWhere`), that the counters are the numbers of their
  holders and the budget the sum of the bodies (`Accounts`), and that what has
  ended is closed and off the table (`EndedClean`, `DownDone`).
- `UploadStorageProofs`: `UploadQuotaSound`, all of `QuotaSound`. The quota check lists
  the directory entry by entry while other threads create, rename, finish and
  delete files, so the total it compares is of no single moment. `QuotaInv` says
  what makes it safe: what the listing has found covers the settled files it has
  been past (`ListingCovers`; settled is every file not still under its
  reservation, and only the holder of the lock settles one), and settled files
  and reservations together stay within the policy (`WithinPromise`). For the free
  space, bytes not yet allocated are counted as promised (`SpaceLeft`).
- `ServiceProofs`, on `Notepad`: `NotepadNotesSound` and `NotepadUpdatesNeverRevive`, both properties
  of the run `notepad`. `NotesInv` says what a save that holds the lock knows
  (`SavePlaced`: which version each file has before, between and after the two
  replacements, and that putting the backup back restores a pair), that the policy
  also holds with the file the save is about to write or to put back (`QuotaKept`),
  and that whichever of them a reader without the lock finds is no older than its
  floor (`ReaderPlaced`). Two lemmas carry the argument: `LocalStep` for steps
  outside the lock and `WriterStep` for those of its one holder.
- `ManagementProofs`, on `FolderReservation`: `ReservationFoldersApart`.
  `ReservationInv` says which step of its program a command is at (`InProgram`), that
  from the lock step on it holds its user's setup lock, that after the second look,
  the one under the lock, its folder is apart from every other deployment its user
  finds by the comparison of the code, and that after the write the manifest holds that
  folder; that two folders apart in this sense have no path below both is a lemma about
  prefixes. What other
  shells do in between cannot disturb it: a command of the same user has no lock
  to write with (`StepUnderLock`), and one of another user changes only deployments
  the theorem is not about (`Bystander`).
- `ManagementProofs`, on `PortableSettings`: `SettingsEditsSound`, the action property
  `EditsSound`, for any files, environments, changes and editors. `EditsInv` says where an editor
  stands (`EditorPlaced`): one that may write holds the lock, what it will write has
  been examined with the environment it is started in, and a password is prepared
  from the file as it still is. The proof is a calculation with layers of settings:
  what a change leaves alone comes from the file under the lock.
- `ManagementProofs`, on `ReleaseTrust`: `TrustUpdatesSound`, the action property `UpdatesSound`,
  for any releases, keys, ladder of versions and administrators. `TrustInv` says that a
  manifest that came through verification is genuine (`Carried`), that one command at most holds
  the lock, and that this one knows where the link is, goes to a later version unless it is a
  rollback, and came from a release whose manifest was verified (`UnderLock`); the manifest
  stays what it was while the content may rot, which is why a restoration is sound as to
  the signature and not as to the file. The test against a downgrade is made again under the lock.
- `ManagementProofs`, on `ManagedInspection`: `InspectionStaysAsInspected`, for any tree and
  any order of what other users move, replace and open. `InspectionInv` says that every
  directory the walk has passed is frozen: nobody but its owner or the
  administrator can change it any more. That is so from the first pass on; for this property the
  second pass of the code is not needed.
- `ManagementProofs`, on `ComposeDeployment`: `ComposeDeploymentsSound`, all of `ComposeSound`, for any
  operators, images, configurations and number of commands. `ComposeInv` says that unless
  a command was killed or reported that it could not restore, one command at most holds
  the lock, what it has still to do is the end of its course, and after so many steps the
  files and the container are what `AfterSteps` says; in a restoration, what `AfterReturn`
  says. With the lock free the bundle tells the truth or is bare, as a purge that failed leaves
  it (`Settled`). It needs the count of steps because no single step keeps the property: the files
  of a bundle are written one after the other. A history is the end of the
  list of superseded images (`WindowSuffix`), through append, rollback and truncation.
- `ManagementProofs`, on `NativeSetup`: `SetupsAllOrNothing`, all of `SetupAllOrNothing`, for any
  finite set of firewall ports. `SetupInv` says of a setup on its way that it has changed what
  it has noted and nothing else (`Noted`: files, ports, the two flags that are set before the
  command they are about) and that what success promises is there or still to come, after
  what it depends on (`Outstanding`: no start before the configuration, no reload before the unit);
  but for the one port of `broken`;
  of a rollback without a failure, that what is not yet as it was is still to be put back,
  in an order in which a restarted service runs the old configuration (`Returning`). The
  lists of stages are described by what they hold and in what order (`Holds`, `After`,
  `Before`), which concatenation and taking the head preserve (`JoinedHolds`, `AfterRest`).
- `ManagementProofs`, on `ReleasePublication`: `PublicationsSound`, all of `PublicationSound`, for
  any assets and any number of attempts and of changes to the draft. `PublicationInv` says
  at which step which output is the candidate (`CandidateKept`), that a draft holds assets
  of the candidate its notes name, or foreign ones (`DraftNamed`), and that each channel is
  filled only when the one before it is complete (`ChannelsInOrder`). What makes a run that
  begins anew harmless is in it too: with anything on PyPI such a run is at its first step,
  which refuses, so no second build is ever uploaded next to a first. `GateMeansExact`
  needs nothing of the last comparison before publication: the gate relies on the
  download after it (`PostRelease`), as only drafts are changed by somebody else.
- `EncryptedStorageProofs`, on `StorageRebind`: `RebindVerifiedTogether`. `RebindInv` says that
  an identity is never used twice, so a file found with the identity it was read
  with has the content that was read; that every journal listed is either read or
  still to be (`Progress`); and, once both listings of the last look are found the
  same (`RecheckSound`), that either everything has been sound together at some
  moment or a file that is no longer as it was read is still to be looked at.
- `ServerRuntimeProofs`, on `AdvancedSessions`: `SessionsEndedStayEnded`. `SessionInv` says
  that the sessions of the table have numbers below that of the next creation, no
  two the same and none of a session that has ended; what an upload holds need
  not be mentioned, because a touch looks its session up again and changes nothing
  but the time of last use.
- `EncryptedStorageProofs`, on `ServerStartup`: `StartupKeepsCompleteUploads`, the action property
  `StartupKeepsUploads`. `StartupInv` says that servers alive together in one directory or
  folder have been noticed (`OverlapsNoted`), that what a server observed of its own
  directory and folder is so until it binds (`ObservedHolds`), that after binding no
  other directory is bound to its folder (`Bound`, `OneDirectory`) and that the reconcile
  keeps every file with a journal and data (`ExpectsSound`). The step that matters
  is the binding: it gives a directory another folder only when there are no records
  in the one and no data in the other, and neither is so where there is a complete
  upload.
- `ServiceProofs`, on `SessionKeys`: `KeysServedWithinLag`, for any positive size and time to
  live. The cleanup relies on an order that late calls break; `Settled` says by how
  much: an entry is at most the longest delay older than any entry before it.
  That survives taking a part of the table, moving an entry to its end and a late
  append, and with it the entry at which the cleanup stops vouches for all after it.
- `ServiceProofs`, on `TlsManager`: `TlsOneOrderPerRenewal` and the two action properties of
  `TlsRenewalSound`. `TlsInv` says that a server orders only under the cache lock and a
  renewal for the certificate it has read (`OrdersUnderLock`), that only a server
  with a context is stopped, so that the order of a start is never a stopped one (`StopsWithContext`),
  and that a promised deadline is the one in the retry file (`PromiseOnRecord`). Each
  action is shown to be a `LawfulStep` of its server: it leaves the others alone, but
  for the certificate it may replace under the lock.
- `ServiceProofs`, on `RequestPath`: `PathRequestsGuarded`, the property of the run, and
  `PathFramesAligned`, a part of `ExchangesSound`, for any routes, bodies and requests.
  `PathInv` says that the connection holds the units of one request without the
  first ones, and lacks any of them only after a request was cut (`OneRequest`); that a
  prepared request passed the tests on complete headers (`PassedHeaders`); and that
  what was let past `process` was granted it (`Granted`). A cut request meets the same
  tests in `process` on what had arrived, where a missing field counts as absent.
- `ServiceProofs`, on `WebSocketSession`: `LoopHalfFramesExpire`, for any timeouts.
  `LoopInv` says that the socket has the timeout of a frame whenever part of a frame
  is in the buffer, which ties the two places that arm and disarm it to each other.
- `SumProofs`: what `SumFunctionOnSet` of the community modules does when an element
  is added or dropped, a value changes or a set shrinks. The library's induction
  theorems take an operator as a parameter, which the provers cannot instantiate;
  the lemmas do the induction over a set of subsets instead, by the least number
  principle (`LeastNumber`) from the well-foundedness of `<`. `SetToSeqCovers` is what
  `SetToSeq` promises of a finite set.

What the proofs asked of the models: the assumptions now say that the sets of
connections, threads, part files and, for a rebind, uploads are finite and that there are ids and names
(a server has finitely many of each, and at least one name to give); the
controller's `deque.remove` is written as `RemoveFirst`, which takes out one
entry; the content of a save is numbered above the floors of readers too (without
that, contents of a note deleted and saved again were numbered from the start,
and with four saves a reader's floor was above a newer content, which the run with three
saves does not reach); `SaveTargets` of `Notepad` no longer chooses between overlapping
cases; `Lasting` keeps more than one value of a directory only while a loss of
power may still come; and the pass of `ReconcileRecord` decides between its cases in
the order of the code instead of by a `CASE` with overlapping guards. `SessionKeys`
assumes that the size and the time to live are positive, which the constructor
enforces (`security/keys.py:77`), and takes an entry out of its table by its place; `TlsManager`
assumes that its durations are natural numbers and assigns the fields of a server
by `Overlay` instead of the `@@` of the module `TLC`, which the prover does not know; `RequestChecks`
finds the first failing test without a local instance, which would give the prover
a second copy of `FiniteSets`. `RequestPath` assumes that its routes are among those it
describes, and writes `Seen` and `HeaderVerdict` in the order of the code instead of as a `CASE`
with overlapping guards; `WebSocketSession` assumes that the frame timeout is a natural
number. The management modules name what their constants always satisfied: that no editor is
`NoEditor` (`EditorsAssumption`), that the inodes of an inspection are distinct
(`InspectionAssumption`), that nothing is not a manifest and that there are configurations and secrets
(`ComposeAssumption`), that firewall ports are finitely many and not named like a stage
(`SetupAssumption`), that there is a first attempt (`PublicationAssumption`).
`TrustAssumption` is about the code: a comparison of versions that
answers "newer" agrees with the order of precedence; TLC evaluates it on the ladder of
the run, which has the kinds of versions `versions.py` tells apart. `ReleaseTrust`,
`ComposeDeployment` and `NativeSetup` extend the community modules they use, since a local
instance gives the prover a second copy of `FiniteSets`.

Only model-checked:

- liveness, which needs `ENABLED` and fairness: `AcquireReturns`, `GateReturns` and
  `StopTerminates`;
- recursion or folds over data, which need an induction theorem with an operator parameter:
  `TransferSound` with the bisection of `capacity()`, `AcceptedReloads`, `PulledIsAttested` (the walk
  over image indexes), `PayloadSound` (decoders), `ExchangesSound` but for its part
  `PathFramesAligned`, and `AckedReadable`, whose model sums and cleans lists of names;
- `NativeSound` and `StoppedStaysStopped`, whose commands interleave file by file with kills:
  these are next in section 2;
- what the three runs that expect a violation refute.

## 6. Assumptions and observations

What the models take for granted:

- `fsync` never fails, the updates of one directory reach the disk in order, and
  only this server writes its directories. Where somebody else does (rebind,
  inspection, damage to ciphertext, a rotting release), that is an action.
- AES-GCM, signatures and digests are ideal. A fresh artifact token has not been
  used before; a session token is not drawn twice at one reading of the clock.
- CPython closes a socket object that is dropped.
- Management commands are killed, but the machine does not lose power under them;
  removing a file of theirs does not fail, unlike rewriting the registry of
  deployments, which takes a lock and writes. Nothing is claimed of a Compose bundle
  after a kill. The folders that are asked for exist.
- An accept error other than a time-out ends `start()`; what raises it is not modelled.
- The release's assets are noted and the release is published in one step
  (`tools/production_release_state.py:370`), so the comparison in `ConfirmRelease` cannot
  fail; no property relies on it.
- The client of `RequestPath` awaits each answer. Bytes of a pipelined request
  that arrive with the previous one are cut off (`http/io.py:449`), so a client that
  pipelines gets no answer to it rather than a wrong one.
- Metrics are left out everywhere: they are counters nothing reads to decide.

What the code does that a property therefore leaves out, each a place where the
models show more than a passing run claims:

- The upload DELETE of the encrypted API tests "partial" and deletes under two
  separate holds of the lock (`handlers/encrypted_files.py:238`); a completion in
  between is undone. With `Routes = {"file", "upload"}` `CompletedRemain` fails.
- The cleanup of a one-shot stream unlinks its path without asking whether the
  name now holds an upload (`handlers/files.py:246`), which is then lost.
- A receive timeout in the middle of the headers ends the loop of
  `receive_request_result` with what there is (`http/io.py:431`): it is executed as
  a request, on a connection that stays open. `ExchangesSound` stops at such a
  request (`cut`); `RequestsGuarded` includes it, and it is not privileged.
- The registry and the setup lock of deployments are per user, while
  docs/operations.md:117 speaks of any two deployments: two users can take one
  folder, and a deployment that discovery does not find is not respected.
  `OwnFoldersApart` is about one user and what is found.
- Two folders are compared by their paths and by the directory they lead to
  (`management/instances.py:188`). A mount that shows a directory of the one tree below
  the other passes: with `mnt` a bind mount of `srv`, a deployment at `mnt` and one at `srv/sub`
  share the files of the second, against docs/operations.md:117-119 ("another path to the same
  directory"). `OwnFoldersApart` speaks of the folders themselves and of paths.
- FETCH gives out a registered artifact without a claim, a look at the registry or a
  cleanup, any number of times until a GET or HEAD has consumed it
  (`handlers/files.py:594`), while docs/security.md:69 calls a generated URL one-shot.
  `OneShot` is about GET and HEAD.
- A purge removes its files, then rewrites the registry, which may fail, then removes
  the manifest (`native_backend.py:554`, `compose_backend.py:689`). What such a failure leaves,
  a manifest without what it names, every later command refuses, a second purge
  included (`managed_state.py:458`). `ManifestAlone` and `Stripped` describe it; the
  properties claim everything else.
- A rule that `ufw allow` added before it reported a failure is not among those the
  rollback removes (`setup.py:708`); `SetupAllOrNothing` allows that one port to stay open.
- An update or a rollback that fails its health check, which takes up to two minutes, links
  the previous release again and restarts the service without verifying it
  (`releases.py:823`): what rotted on disk meanwhile is run. A release built by hand
  is accepted by its digest alone (`releases.py:1098`). `UpdatesSound` says so of both.
- An attestation of an image may be about other images as well
  (`tools/candidate_inventory.py:460`), and a tag moved after the gate has read it is what
  users of the tag get; `PulledIsAttested` is about the index the gate read.
- A start that finds its certificate due names none that it expects, and orders again
  what another server renewed while it waited for the lock (`tls_manager.py:178`);
  `OneOrderPerRenewal` is about renewal threads.
- No lock keeps a second `xferry run` off a state directory or a folder, and two
  state directories can be bound to one folder while it is empty
  (`encrypted_storage.py:383`); either start may then delete what the other stored.
  `StartupKeepsUploads` excludes such directories (`overlapped`, `shared`).
- HEAD is answered without a body by `handle_head` only. A HEAD that is refused as
  busy or for its path, or goes to a handler of its own (encrypted transfer, upload
  sessions), gets one (`handlers/files.py:327`), against docs/api.md:78; a client
  would take it for the next answer. `RepliesFramed` leaves those out.
- A refusal from authentication on and the answer to an error announce the keep-alive
  of the request (set at `request_pipeline.py:244`) although the connection is closed
  (:257-304, :410), and the answer to an error follows whatever was sent before it, inside the length announced
  there. Both end with the connection, so `RepliesFramed` holds.
- With authentication a preflight, which carries no credentials, is answered 401:
  no request that needs one can come from another origin, though the lists of
  `http/cors.py` name Authorization. A preflight of a configured origin allows any
  method token that is asked for, a plugin's with `cors_allowed=False` included
  (`http/cors.py:104`); a wildcard preflight lists no plugin method.
- SMUGGLE reads its source without a claim (`handlers/smuggle.py:60`), so a generated
  page can be the source of another one. `OneShot` counts responses.
- INFO takes an `offset` of at most four digits and a `limit` of at most 1000; entries
  beyond the first 10 999 of a directory cannot be listed (`handlers/info.py:88`).
- A file name with a leading dot, and `__pycache__`, is accepted by an upload
  (`http/utils.py:38`) and hidden from every later read (`handlers/base.py:261`).
- `DownloadWhole` compares lengths only: a longer file with a piece that ends at
  Content-Length passes. `TransferSound` is about the two decrypting ways.
- A plain upload that holds a reservation may still be refused when it is
  published (`storage.py:224`): an encrypted creation under way is then counted
  twice, as its reservation and as its part file. This errs on the safe side.
- SIGTERM runs `stop()` on the main thread. If it interrupts that thread while it
  holds `_sockets_lock` or is inside `_cleanup_lock`, `stop()` or the nested
  cleanup waits for a lock its own thread holds. The configurations exclude
  these points (`stop_points` in `MCServerRuntime`); the hazard is listed at
  `lifecycle.py:307`. SIGINT is sent only in the plain configuration with one slot.
- `credentials` reads the manifest before the lock and writes it back under it
  without comparing (`native_backend.py:323`), unlike `configure`. Run together
  with `configure` it overwrites newer receipts, together with a purge it leaves
  a password file without a manifest, which every later command refuses. The
  instance `Supported` of `MCDeployments` therefore keeps them apart.
- A command killed while it copies a release leaves `.install-*` among the
  releases, which `has_unsupported_managed_state` refuses from then on
  (`managed_state.py:269`): update, rollback and uninstall all stop. That is why
  `OnlyKillsBlock` speaks of failures only.
- A purge with the default folder inside the state directory leaves that
  directory, and a new setup is refused until it is moved.
- A setup of a Compose bundle tests for a manifest before it takes any lock
  (`compose_backend.py:254`); two setups of one bundle with different folders both
  pass. The model's setups use the default folder, whose reservation serialises
  them.
- A configuration file that itself names a folder holding the configuration is
  saved when the environment names another folder, and does not start
  (`configuration.py:517`). A kill between the two writes of `credentials reset`
  leaves a password nobody was shown (`configuration.py:419`).
- The inventory follows 32 levels of indexes, the public gate 4
  (`tools/docs_publication.py:788`); the layouts of the model are at most three deep,
  Buildx makes two.

## 7. Not modelled

The browser client, prompts and translations, page construction, metrics, PING
and file inspection keep no state that the properties speak of.
Cryptographic primitives, ACME, systemd, Docker, GitHub and the package indexes
are external. How a host, an origin, a header line or an assignment is taken
apart, and the ranges of single settings, are text processing: the models have
their results. The scripts of the test and documentation pipelines
(`tools/check_stale_docs.py`, the smoke tests and matrices) drive or read the
system from outside. Rehearsals of a release publish nothing to users.
