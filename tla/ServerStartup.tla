----------------------------- MODULE ServerStartup -----------------------------
(***************************************************************************)
(* The constructor of a server (server.py, XFerryServer.__init__) up to    *)
(* the moment it listens, with the part of it that may destroy something:  *)
(* the encrypted store binds its state directory to the files folder and   *)
(* then reconciles the two, deleting journals without data and data        *)
(* without a journal (encrypted_storage.py).                               *)
(*                                                                         *)
(* Between two starts the operator may mount another folder, or configure  *)
(* the folder of another state directory.  No lock keeps a second server   *)
(* off a state directory or a folder; `overlapped` remembers that two were *)
(* alive on one.  A start may fail, or the process be killed, at any step. *)
(* The names of an upload are unique, as random identifiers are; what      *)
(* happens inside one operation of the store is in EncryptedStorage.       *)
(***************************************************************************)
EXTENDS Naturals

CONSTANTS
  StateDirs, Folders, Files,
  Processes,
  NoFolder,
  MaxRuns          \* bound of the model: starts of a server

ASSUME StartupAssumption == NoFolder \notin Folders /\ MaxRuns \in Nat

VARIABLES
  journals,     \* StateDirs -> [Files -> "none", "partial" or "complete"]
  payload,      \* Folders -> set of Files whose data is there
  bound,        \* StateDirs -> the folder its binding file names
  mounted,      \* StateDirs -> the folder configured for it
  proc,         \* Processes -> the server being started or serving
  runs,         \* starts so far
  overlapped,   \* history: state directories and folders two live servers used at once
  shared        \* history: folders a second state directory was bound to while they were empty

startupVars == <<journals, payload, bound, mounted, proc, runs, overlapped, shared>>

NotRunning == [pc |-> "down"]
Alive(p) == proc[p] # NotRunning

StartupInit ==
  /\ journals = [d \in StateDirs |-> [u \in Files |-> "none"]]
  /\ payload = [f \in Folders |-> {}]
  /\ bound = [d \in StateDirs |-> NoFolder] /\ mounted \in [StateDirs -> Folders]
  /\ proc = [p \in Processes |-> NotRunning] /\ runs = 0 /\ overlapped = {} /\ shared = {}

ContinueAt(p, pc) == proc' = [proc EXCEPT ![p].pc = pc]
ExitRun(p) == proc' = [proc EXCEPT ![p] = NotRunning]
Same == UNCHANGED <<journals, payload, bound, mounted, runs, overlapped, shared>>
-----------------------------------------------------------------------------
\* A configuration may hold a fault that shows only at its step: plugins refused at the
\* first step, credentials that cannot be read, a plugin that overrides a core method, a
\* port in use.
StartFaults == {"none", "config", "auth", "plugins", "port"}

Start(p, d, fault) ==
  /\ ~Alive(p) /\ runs < MaxRuns /\ runs' = runs + 1
  /\ proc' = [proc EXCEPT ![p] = [pc |-> "config", dir |-> d, folder |-> mounted[d], fault |-> fault,
                                  records |-> FALSE, data |-> FALSE, expected |-> {}]]
  /\ LET others == {proc[q] : q \in {q \in Processes \ {p} : Alive(q)}}
     IN overlapped' = overlapped \cup {d : o \in {o \in others : o.dir = d}}
                        \cup {mounted[d] : o \in {o \in others : o.folder = mounted[d]}}
  /\ UNCHANGED <<journals, payload, bound, mounted, shared>>

\* The configuration and the plugins it names are checked, then the credentials are read,
\* before any directory is touched.
Configure(p) ==
  /\ Alive(p) /\ proc[p].pc = "config"
  /\ IF proc[p].fault = "config" THEN ExitRun(p) ELSE ContinueAt(p, "auth")
  /\ Same

SetupAuth(p) ==
  /\ Alive(p) /\ proc[p].pc = "auth"
  /\ IF proc[p].fault = "auth" THEN ExitRun(p) ELSE ContinueAt(p, "observe")
  /\ Same

\* _bind_storage_root looks whether there are journals and data,
Observe(p) ==
  /\ Alive(p) /\ proc[p].pc = "observe"
  /\ proc' = [proc EXCEPT ![p].pc = "bind",
                ![p].records = \E u \in Files : journals[proc[p].dir][u] # "none",
                ![p].data = payload[proc[p].folder] # {}]
  /\ Same

\* Mutant: only data in the folder stands in the way of a change of folder.
IncompatibleData(old, folder, records, data) == old # folder /\ data
\* reads the binding, refuses one of another folder unless both sides are empty,
Incompatible(old, folder, records, data) == old # folder /\ (records \/ data)

\* and writes the new one.
BindStorageRoot(p) ==
  /\ Alive(p) /\ proc[p].pc = "bind"
  /\ LET d == proc[p].dir
         f == proc[p].folder
     IN IF Incompatible(bound[d], f, proc[p].records, proc[p].data)
        THEN ExitRun(p) /\ UNCHANGED <<bound, shared>>
        ELSE /\ ContinueAt(p, "journals") /\ bound' = [bound EXCEPT ![d] = f]
             /\ shared' = shared \cup {f : e \in {e \in StateDirs \ {d} : bound[e] = f /\ payload[f] = {}}}
  /\ UNCHANGED <<journals, payload, mounted, runs, overlapped>>

\* reconcile: a journal whose data is missing is removed,
ReconcileJournals(p) ==
  /\ Alive(p) /\ proc[p].pc = "journals"
  /\ LET d == proc[p].dir
         sound == {u \in payload[proc[p].folder] : journals[d][u] # "none"}
     IN /\ journals' = [journals EXCEPT ![d] = [u \in Files |-> IF u \in sound THEN @[u] ELSE "none"]]
        /\ proc' = [proc EXCEPT ![p].pc = "data", ![p].expected = sound]
  /\ UNCHANGED <<payload, bound, mounted, runs, overlapped, shared>>

\* and then whatever data no journal expects.
ReconcileData(p) ==
  /\ Alive(p) /\ proc[p].pc = "data"
  /\ payload' = [payload EXCEPT ![proc[p].folder] = @ \cap proc[p].expected]
  /\ ContinueAt(p, "expire")
  /\ UNCHANGED <<journals, bound, mounted, runs, overlapped, shared>>

\* expire_incomplete: partial uploads, those that have lapsed.
ExpireIncomplete(p) ==
  /\ Alive(p) /\ proc[p].pc = "expire"
  /\ \E lapsed \in SUBSET {u \in Files : journals[proc[p].dir][u] = "partial"} :
       /\ journals' = [journals EXCEPT ![proc[p].dir] = [u \in Files |-> IF u \in lapsed THEN "none" ELSE @[u]]]
       /\ payload' = [payload EXCEPT ![proc[p].folder] = @ \ lapsed]
  /\ ContinueAt(p, "plugins")
  /\ UNCHANGED <<bound, mounted, runs, overlapped, shared>>

RegisterPlugins(p) ==
  /\ Alive(p) /\ proc[p].pc = "plugins"
  /\ IF proc[p].fault = "plugins" THEN ExitRun(p) ELSE ContinueAt(p, "listen")
  /\ Same

Listen(p) ==
  /\ Alive(p) /\ proc[p].pc = "listen"
  /\ IF proc[p].fault = "port" THEN ExitRun(p) ELSE ContinueAt(p, "serving")
  /\ Same

\* A server that stops, or is killed wherever it is.
Stop(p) == Alive(p) /\ ExitRun(p) /\ Same
-----------------------------------------------------------------------------
Unused(u) == (\A d \in StateDirs : journals[d][u] = "none") /\ (\A f \in Folders : u \notin payload[f])
Serving(p) == Alive(p) /\ proc[p].pc = "serving"

\* An upload: its data file, then its journal, then every chunk and completion.
UploadData(p, u) ==
  /\ Serving(p) /\ Unused(u) /\ payload' = [payload EXCEPT ![proc[p].folder] = @ \cup {u}]
  /\ proc' = [proc EXCEPT ![p].expected = {u}]
  /\ UNCHANGED <<journals, bound, mounted, runs, overlapped, shared>>

UploadJournal(p, u) ==
  /\ Serving(p) /\ u \in proc[p].expected /\ u \in payload[proc[p].folder]
  /\ journals' = [journals EXCEPT ![proc[p].dir][u] = IF @ = "none" THEN "partial" ELSE "complete"]
  /\ UNCHANGED <<payload, bound, mounted, proc, runs, overlapped, shared>>

DeleteUpload(p, u) ==
  /\ Serving(p) /\ journals[proc[p].dir][u] # "none"
  /\ journals' = [journals EXCEPT ![proc[p].dir][u] = "none"]
  /\ payload' = [payload EXCEPT ![proc[p].folder] = @ \ {u}]
  /\ proc' = [proc EXCEPT ![p].expected = {}]
  /\ UNCHANGED <<bound, mounted, runs, overlapped, shared>>

\* The operator configures or mounts another folder.
Mount(d, f) ==
  /\ mounted[d] # f /\ \A p \in Processes : Alive(p) => proc[p].dir # d
  /\ mounted' = [mounted EXCEPT ![d] = f]
  /\ UNCHANGED <<journals, payload, bound, proc, runs, overlapped, shared>>

StartupStep(p) ==
  \/ Configure(p) \/ SetupAuth(p) \/ Observe(p) \/ BindStorageRoot(p) \/ ReconcileJournals(p)
  \/ ReconcileData(p) \/ ExpireIncomplete(p) \/ RegisterPlugins(p) \/ Listen(p) \/ Stop(p)

StartupNext ==
  \/ \E p \in Processes, d \in StateDirs, fault \in StartFaults : Start(p, d, fault)
  \/ \E p \in Processes : StartupStep(p) \/ \E u \in Files : UploadData(p, u) \/ UploadJournal(p, u) \/ DeleteUpload(p, u)
  \/ \E d \in StateDirs, f \in Folders : Mount(d, f)

StartupSpec == StartupInit /\ [][StartupNext]_startupVars

\* No start of a server takes a complete upload away: while its journal is in a state
\* directory and its data in the folder that directory is bound to, binding, reconcile and
\* expiry leave both, whatever folder is mounted, wherever earlier starts stopped.  It is
\* promised for directories and folders that one server at a time used and for folders
\* that no second state directory was bound to while they were empty; nothing in the code
\* prevents either.
Paired(u, d, f) == journals[d][u] = "complete" /\ u \in payload[f] /\ bound[d] = f
StartupKeepsUploads ==
  [][\A p \in Processes : StartupStep(p) =>
       \A u \in Files, d \in StateDirs, f \in Folders :
         Paired(u, d, f) /\ d \notin overlapped /\ f \notin overlapped \cup shared => Paired(u, d, f)']_startupVars
==============================================================================
