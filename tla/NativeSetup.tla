------------------------------ MODULE NativeSetup ------------------------------
(***************************************************************************)
(* SetupApplier (management/setup.py): the first setup of a native         *)
(* deployment, a setup over an existing one, and the resumption of one     *)
(* whose runtime was removed.  All stages after the lock, each of which    *)
(* may fail before or after its effect, and the rollback, each part of     *)
(* which may fail too.                                                     *)
(*                                                                         *)
(* The content of a file is "absent", "old" or "new".  systemd sees the    *)
(* unit it loaded; the enablement link outlives the unit it points to.     *)
(***************************************************************************)
EXTENDS Integers, Sequences, SequencesExt

CONSTANT FirewallPorts

VARIABLES
  host,      \* [files, ports, ids, link, loaded, active, runs, marker]
  first,     \* the host before the setup
  mode,      \* "apply" or "resume"
  stages,    \* stages still to do
  staged,    \* _order: files that were remembered, in order
  opened,    \* added_ports
  flags,     \* which of reload_attempted and activation_touched are set
  broken,    \* history: the port at which ufw failed, or "none"
  doubts,    \* parts of the rollback that failed
  outcome    \* "running", "undoing", "ok", "failed" or "incomplete"

setupVars == <<host, first, mode, stages, staged, opened, flags, broken, doubts, outcome>>

SetupFiles == {"config", "auth", "unit", "acl", "profile", "manifest"}
Identities == {"group", "user"}
SetupCommands == {"check", "reload", "enable", "disable", "start", "restart", "stop", "health",
             "marker", "files", "observe"}

ASSUME SetupAssumption ==
  IsFiniteSet(FirewallPorts) /\ FirewallPorts \cap (SetupFiles \cup Identities \cup SetupCommands) = {}

\* A fresh host, one with a deployment, one whose runtime was removed, and each of them with
\* some of the ports open already.
Fresh == [files |-> [f \in SetupFiles |-> "absent"], link |-> FALSE, loaded |-> "absent",
          active |-> FALSE, marker |-> FALSE]
Existing(enabled, active) ==
  [files |-> [f \in SetupFiles |-> "old"], link |-> enabled, loaded |-> "old",
   active |-> active, marker |-> FALSE]
Retained == [files |-> [f \in SetupFiles |-> IF f = "unit" THEN "absent" ELSE "old"], link |-> FALSE,
             loaded |-> "absent", active |-> FALSE, marker |-> TRUE]
Hosts ==
  { [files |-> h.files, link |-> h.link, loaded |-> h.loaded, active |-> h.active,
     marker |-> h.marker, runs |-> IF h.active THEN "old" ELSE "absent", ports |-> p, ids |-> i] :
      h \in {Fresh, Retained} \cup {Existing(e, a) : e \in BOOLEAN, a \in BOOLEAN},
      p \in SUBSET FirewallPorts, i \in {{}, {"group"}, Identities} }

\* _apply_locked with _ensure_identities, _stage_files and _apply_firewall.
ApplyStages(h) ==
  SetToSeq(Identities \ h.ids)
    \o <<"config", "auth", "unit", "acl", "profile", "manifest", "check", "reload">>
    \o SetToSeq(FirewallPorts \ h.ports) \o <<"enable", "start", "health", "manifest">>

\* resume: the firewall was left as it was, and so are most files.
ResumeStages(h) ==
  SetToSeq(Identities \ h.ids)
    \o <<"acl", "unit", "check", "reload", "enable", "start", "health", "manifest", "marker">>

SetupInit ==
  /\ host \in Hosts /\ first = host
  /\ mode = (IF host.marker THEN "resume" ELSE "apply")
  /\ stages = (IF host.marker THEN ResumeStages(host) ELSE ApplyStages(host))
  /\ staged = << >> /\ opened = << >> /\ flags = {} /\ broken = "none" /\ doubts = {}
  /\ outcome = "running"
-----------------------------------------------------------------------------
\* What a stage does to the host.
Staged(h, s) ==
  CASE s \in Identities -> [h EXCEPT !.ids = @ \cup {s}]
    [] s \in SetupFiles -> [h EXCEPT !.files[s] = "new"]
    [] s = "reload"     -> [h EXCEPT !.loaded = h.files["unit"]]
    [] s \in FirewallPorts -> [h EXCEPT !.ports = @ \cup {s}]
    [] s = "enable"     -> [h EXCEPT !.link = TRUE]
    [] s = "disable"    -> [h EXCEPT !.link = FALSE]
    [] s \in {"start", "restart"} -> [h EXCEPT !.active = TRUE, !.runs = h.files["config"]]
    [] s = "stop"       -> [h EXCEPT !.active = FALSE, !.runs = "absent"]
    [] s = "marker"     -> [h EXCEPT !.marker = FALSE]
    [] OTHER            -> h

\* reload_attempted and activation_touched
FlagsFor(s) == CASE s = "reload" -> {"reload"} [] s = "enable" -> {"touched"} [] OTHER -> {}

\* Mutant: they are set once the command has succeeded.
AttemptedNothing(s) == {}

\* They are set before the command, and stand when it fails.
Attempted(s) == FlagsFor(s)

Remembered(s) == IF s \in SetupFiles \ ToSet(staged) THEN Append(staged, s) ELSE staged

StageDone ==
  /\ outcome = "running" /\ stages # << >>
  /\ host' = Staged(host, Head(stages)) /\ stages' = Tail(stages)
  /\ staged' = Remembered(Head(stages))
  /\ opened' = IF Head(stages) \in FirewallPorts THEN Append(opened, Head(stages)) ELSE opened
  /\ flags' = flags \cup FlagsFor(Head(stages))
  /\ UNCHANGED <<first, mode, broken, doubts, outcome>>

\* _service_activation_state, compared with the first one.
Observed(h) ==
  IF h.loaded = "absent" THEN <<FALSE, FALSE, FALSE>> ELSE <<TRUE, h.link, h.active>>

\* What _rollback does, in its order.
UndoStages(fl) ==
  opened \o (IF "touched" \in fl THEN <<"stop">> ELSE << >>) \o <<"files">>
    \o (IF "reload" \in fl THEN <<"reload">> ELSE << >>)
    \o (IF "touched" \notin fl \/ first.loaded = "absent" THEN << >>
        ELSE <<IF first.link THEN "enable" ELSE "disable", IF first.active THEN "restart" ELSE "stop">>)
    \o (IF "touched" \in fl THEN <<"observe">> ELSE << >>)

\* A stage fails, before or after its effect.  A rule that ufw reported a failure of is not in
\* added_ports, whether or not it is in force.
StageFails ==
  /\ outcome = "running" /\ stages # << >>
  /\ LET s == Head(stages)  fl == flags \cup Attempted(s) IN
     /\ host' \in IF s = "marker" THEN {host} ELSE {host, Staged(host, s)}
     /\ staged' = Remembered(s) /\ flags' = fl
     /\ broken' = IF s \in FirewallPorts THEN s ELSE "none"
     /\ stages' = UndoStages(fl)
  /\ outcome' = "undoing"
  /\ UNCHANGED <<first, mode, opened, doubts>>

SetupCommitted ==
  /\ outcome = "running" /\ stages = << >> /\ outcome' = "ok"
  /\ UNCHANGED <<host, first, mode, stages, staged, opened, flags, broken, doubts>>
-----------------------------------------------------------------------------
\* transaction.rollback: every remembered file is put back.
FilesPutBack(h) ==
  [h EXCEPT !.files = [f \in SetupFiles |-> IF f \in ToSet(staged) THEN first.files[f] ELSE @[f]]]
PartsPutBack(h) ==
  { [h EXCEPT !.files = [f \in SetupFiles |-> IF f \in put THEN first.files[f] ELSE @[f]]] :
      put \in SUBSET ToSet(staged) }

UndoStageDone ==
  /\ outcome = "undoing" /\ stages # << >>
  /\ LET s == Head(stages) IN
     /\ host' = CASE s \in FirewallPorts -> [host EXCEPT !.ports = @ \ {s}]
                  [] s = "files" -> FilesPutBack(host)
                  [] OTHER -> Staged(host, s)
     /\ s = "observe" => Observed(host) = Observed(first)
  /\ stages' = Tail(stages)
  /\ UNCHANGED <<first, mode, staged, opened, flags, broken, doubts, outcome>>

\* The rollback goes on after a part that failed, or that could not be proven.
UndoStageFails ==
  /\ outcome = "undoing" /\ stages # << >>
  /\ LET s == Head(stages) IN
     /\ host' \in CASE s = "files" -> PartsPutBack(host)
                    [] s \in FirewallPorts -> {host, [host EXCEPT !.ports = @ \ {s}]}
                    [] OTHER -> {host, Staged(host, s)}
     /\ doubts' = doubts \cup {s}
  /\ stages' = Tail(stages)
  /\ UNCHANGED <<first, mode, staged, opened, flags, broken, outcome>>

\* _remove_new_identities, whose outcome nobody asks for, and the report.
RolledBack ==
  /\ outcome = "undoing" /\ stages = << >>
  /\ host' \in IF mode = "resume" THEN {host} ELSE {host, [host EXCEPT !.ids = first.ids]}
  /\ outcome' = IF doubts = {} THEN "failed" ELSE "incomplete"
  /\ UNCHANGED <<first, mode, stages, staged, opened, flags, broken, doubts>>

SetupNext == StageDone \/ StageFails \/ SetupCommitted \/ UndoStageDone \/ UndoStageFails \/ RolledBack

SetupSpec == SetupInit /\ [][SetupNext]_setupVars
-----------------------------------------------------------------------------
(* A setup is all or nothing: one that reports success runs what it installed, on every  *)
(* port it needs, and has dropped the marker of a removed runtime; one that reports      *)
(* failure without a word of an incomplete rollback leaves files, marker and service as  *)
(* it found them, whichever stage failed and however far that stage had come.  Of the    *)
(* firewall it has closed every port it opened, except one: the port at which ufw itself *)
(* reported the failure, which may be open and is not looked at again (setup.py:708).    *)
SetupAllOrNothing ==
  /\ outcome = "ok" =>
       /\ host.active /\ host.loaded = "new" /\ host.link /\ ~host.marker
       /\ mode = "apply" => host.runs = "new" /\ FirewallPorts \subseteq host.ports
  /\ outcome = "failed" =>
       /\ host.files = first.files /\ host.marker = first.marker
       /\ first.ports \subseteq host.ports /\ host.ports \subseteq first.ports \cup {broken}
       /\ Observed(host) = Observed(first) /\ host.runs = first.runs
================================================================================
