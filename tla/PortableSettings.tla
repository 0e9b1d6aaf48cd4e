---------------------------- MODULE PortableSettings ----------------------------
(***************************************************************************)
(* The configuration of a server that is run by hand (settings.py,         *)
(* server_config.py, cli.py) and the commands that edit it                 *)
(* (management/configuration.py, wizard.py): `config set`, `configure` and *)
(* `credentials reset`, several at once, each killed or failing at will.   *)
(*                                                                         *)
(* A layer (the file, the environment) is a function on the settings it    *)
(* names.  The settings kept are those that depend on each other; ranges   *)
(* of single numbers are left out.  cert is cert_file with key_file, quota *)
(* the limits of the upload storage, files the folder: "apart" from        *)
(* everything, "home" with the configuration and the credentials in it,    *)
(* "state" among the private state.                                        *)
(***************************************************************************)
EXTENDS Integers

CONSTANTS
  Editors,
  IniFiles,       \* configurations that may be found, as made by hand
  Environments,  \* XFERRY_* variables of the administrators
  MaxEdits,      \* bound of the model: commands begun
  MaxPages,      \* bound of the model: pages of the wizard one draft goes through
  NoEditor

ASSUME EditorsAssumption == NoEditor \notin Editors

VARIABLES
  ini,      \* the file
  secret,   \* the password in the auth file, 0 if there is none
  env,      \* the environment
  editing,  \* the editor that holds the lock beside the file
  editor,   \* the command of each editor
  edits     \* commands begun

settingsVars == <<ini, secret, env, editing, editor, edits>>

Values ==
  [access |-> {"private", "public", "lab"}, https |-> {"off", "auto", "files", "self-signed"},
   host |-> {"loopback", "any"}, cert |-> {"pair"}, auth |-> {"auth", ""}, files |-> {"apart", "home", "state", ""},
   quota |-> {"0", "some"}, allowed |-> {"names", ""}]
Fields == DOMAIN Values
Default ==
  [access |-> "private", https |-> "", host |-> "loopback", cert |-> "", auth |-> "", files |-> "",
   quota |-> "0", allowed |-> ""]
-----------------------------------------------------------------------------
\* resolve_settings: the environment over the file, and defaults.
Layered(file, e) == [f \in DOMAIN file \cup DOMAIN e |-> IF f \in DOMAIN e THEN e[f] ELSE file[f]]
Setting(s, f) == IF f \in DOMAIN s THEN s[f] ELSE Default[f]

\* _derive_operator_settings: public access changes the defaults of what is not named.
HttpsMode(s) ==
  IF Setting(s, "https") # "" THEN Setting(s, "https")
  ELSE IF Setting(s, "access") = "public" THEN "auto" ELSE "off"

Derived(s) ==
  [f \in Fields |->
     CASE f = "https" -> HttpsMode(s)
       [] f = "host" /\ f \notin DOMAIN s /\ Setting(s, "access") = "public" -> "any"
       [] f = "quota" /\ f \notin DOMAIN s /\ Setting(s, "access") = "public" -> "some"
       [] f = "files" /\ Setting(s, f) = "" -> "apart"
       [] OTHER -> Setting(s, f)]

\* validate and _validate_public_direct
RealTls(d) == d.cert # "" \/ d.https = "auto"

GuardedWhenPublic(d) ==
  d.access = "public" =>
    /\ RealTls(d) /\ d.auth # "" /\ d.quota # "0"
    /\ ~(d.host = "any" /\ d.cert # "" /\ d.allowed = "")

Valid(d) ==
  /\ d.cert # "" => d.https = "files"
  /\ d.access = "private" => d.host = "loopback"
  /\ d.https = "files" => d.cert # ""
  /\ GuardedWhenPublic(d)

\* _validate_files_directory
FilesSeparate(d) == d.files # "state" /\ (d.files = "home" => d.auth = "" /\ d.cert = "")

\* resolve_server_config and _resolve_tls: the same once more, and the folder.
TlsResolves(d) == d.cert # "" => d.https # "auto"
Resolves(d) == TlsResolves(d) /\ GuardedWhenPublic(d) /\ FilesSeparate(d)

Accepted(file, e) == LET d == Derived(Layered(file, e)) IN Valid(d) /\ Resolves(d)
FolderApart(file, e) == Derived(Layered(file, e)).files # "home"

\* What a command examines before it writes.
Examined(file, e) == Accepted(file, e) /\ FolderApart(file, e)

\* run_main; load_settings_file looks at the folder of the file alone.
Starts(file, e) == FolderApart(file, << >>) /\ Accepted(file, e) /\ FolderApart(file, e)
-----------------------------------------------------------------------------
\* parse_assignments and edit_ini: a certificate that is cleared is removed, a folder that is
\* cleared becomes the default one; nothing else of the file is touched.
OneChange(f) == {[g \in {f} |-> v] : v \in IF f = "cert" THEN {"pair", ""} ELSE Values[f]}
Changes == UNION {OneChange(f) : f \in Fields}

EditIni(file, c) ==
  [g \in (DOMAIN file \cup DOMAIN c) \ (IF "cert" \in DOMAIN c /\ c.cert = "" THEN {"cert"} ELSE {}) |->
     IF g \notin DOMAIN c THEN file[g] ELSE IF g = "files" /\ c[g] = "" THEN "apart" ELSE c[g]]

\* The HTTPS page of the wizard sets everything that goes together; "auto" also stands for a
\* domain of one's own, which allows that name.
Access(a, h, t, c, names) == [access |-> a, host |-> h, https |-> t, cert |-> c, allowed |-> names]
TlsChanges ==
  {Access("public", "any", "auto", "", ""), Access("public", "any", "auto", "", "names"),
   Access("private", "loopback", "off", "", "names"), Access("private", "loopback", "self-signed", "", "")}
    \cup {Access("public", "any", "files", "pair", names) : names \in {"names", ""}}

\* The pages for single settings; the password has a page of its own.
WizardChanges == TlsChanges \cup UNION {OneChange(f) : f \in Fields \ {"auth"}}

NoCommand == [at |-> "idle"]

SettingsInit ==
  /\ ini \in IniFiles /\ env \in Environments
  /\ secret = IF "auth" \in DOMAIN ini /\ ini.auth = "auth" THEN 1 ELSE 0
  /\ editing = NoEditor /\ edits = 0
  /\ editor = [e \in Editors |-> NoCommand]

EndEdit(e) == editor' = [editor EXCEPT ![e] = NoCommand] /\ editing' = IF editing = e THEN NoEditor ELSE editing

\* change_configuration up to the confirmation: what would be written is accepted.
Proposed(e, c) ==
  LET candidate == EditIni(ini, c) IN
  /\ candidate # ini /\ Examined(candidate, env)
  /\ editor' = [editor EXCEPT ![e] =
       [at |-> "confirm", before |-> ini, candidate |-> candidate, change |-> c, secret |-> secret]]

Begins(e) == editor[e] = NoCommand /\ edits < MaxEdits /\ edits' = edits + 1

ConfigSet(e, c) == Begins(e) /\ Proposed(e, c) /\ UNCHANGED <<ini, secret, env, editing>>

\* The wizard reads the file once and collects a draft; a new file gets the folder and the
\* access it would have by default.
OpenWizard(e) ==
  /\ Begins(e)
  /\ editor' = [editor EXCEPT ![e] =
       [at |-> "draft", text |-> ini, pages |-> 0,
        change |-> IF ini = << >> THEN [access |-> "private", files |-> "apart"] ELSE << >>]]
  /\ UNCHANGED <<ini, secret, env, editing>>

EditDraft(e, c) ==
  /\ editor[e].at = "draft" /\ editor[e].pages < MaxPages
  /\ editor' = [editor EXCEPT ![e].pages = @ + 1, ![e].change = Layered(@, c)]
  /\ UNCHANGED <<ini, secret, env, editing, edits>>

\* A draft is saved if it was sound with the file the wizard read and is accepted with the
\* file as it is now; otherwise the wizard goes on.
DraftSound(e) == Valid(Derived(Layered(EditIni(editor[e].text, editor[e].change), env)))

SaveDraft(e) ==
  /\ editor[e].at = "draft" /\ DraftSound(e) /\ Proposed(e, editor[e].change)
  /\ UNCHANGED <<ini, secret, env, editing, edits>>

\* _portable_lock does not wait: a lock that is held ends the command, as does a dry run, a
\* refusal of the administrator, a kill, or an error.  (The wizard would keep its draft then;
\* here the administrator opens another.)
Abandon(e) ==
  /\ editor[e] # NoCommand /\ EndEdit(e) /\ UNCHANGED <<ini, secret, env, edits>>

TakeLock(e) ==
  /\ editor[e].at = "confirm" /\ editing = NoEditor /\ editing' = e
  /\ editor' = [editor EXCEPT ![e].at = "locked"] /\ UNCHANGED <<ini, secret, env, edits>>

\* Mutant: the file is not read again under the lock.
SameAnyway(e) == TRUE

SameAsRead(e) == ini = editor[e].before

WriteConfiguration(e) ==
  /\ editor[e].at = "locked" /\ SameAsRead(e)
  /\ ini' = editor[e].candidate /\ EndEdit(e) /\ UNCHANGED <<secret, env, edits>>

\* reset_portable_password, by a command or from the wizard with the draft: read under the
\* lock, and examined without the environment.  An auth_file in the environment refuses it.
Resetting(e, c) ==
  /\ editing = NoEditor /\ editing' = e /\ "auth" \notin DOMAIN env
  /\ Valid(Derived(ini))
  /\ LET candidate == Layered(EditIni(ini, c), [auth |-> "auth"]) IN
     /\ Examined(candidate, << >>)
     /\ editor' = [editor EXCEPT ![e] =
          [at |-> "auth", before |-> ini, candidate |-> candidate, change |-> c, secret |-> secret]]
  /\ UNCHANGED <<ini, secret, env>>

ResetPassword(e) == Begins(e) /\ Resetting(e, << >>)
DraftPassword(e) == editor[e].at = "draft" /\ Resetting(e, editor[e].change) /\ UNCHANGED edits

WriteSecret(e) ==
  /\ editor[e].at = "auth" /\ secret' = edits + 1
  /\ editor' = [editor EXCEPT ![e].at = "profile"] /\ UNCHANGED <<ini, env, editing, edits>>

WriteProfile(e) ==
  /\ editor[e].at = "profile" /\ ini' = editor[e].candidate /\ EndEdit(e)
  /\ UNCHANGED <<secret, env, edits>>

\* The second write fails: the password is put back, if that works.
RestoreSecret(e) ==
  /\ editor[e].at = "profile" /\ secret' = editor[e].secret /\ EndEdit(e)
  /\ UNCHANGED <<ini, env, edits>>

SettingsNext ==
  \E e \in Editors :
    \/ \E c \in Changes : ConfigSet(e, c)
    \/ OpenWizard(e) \/ (\E c \in WizardChanges : EditDraft(e, c)) \/ SaveDraft(e) \/ DraftPassword(e)
    \/ ResetPassword(e)
    \/ Abandon(e) \/ TakeLock(e) \/ WriteConfiguration(e)
    \/ WriteSecret(e) \/ WriteProfile(e) \/ RestoreSecret(e)

SettingsSpec == SettingsInit /\ [][SettingsNext]_settingsVars
-----------------------------------------------------------------------------
(* What was saved starts: with the environment it was edited in if `config set` saved it,  *)
(* with none if `credentials reset` did.  The one exception of the code is a file that     *)
(* itself names a folder holding the configuration while the environment names another.    *)
SavedStarts ==
  [][\A e \in Editors :
       /\ editor[e].at = "locked" /\ editor'[e] = NoCommand /\ ini' # ini =>
            Starts(ini', env) \/ ~FolderApart(ini', << >>)
       /\ editor[e].at = "profile" /\ editor'[e] = NoCommand /\ ini' # ini => Starts(ini', << >>)]_settingsVars

(* An edit changes what it was asked to change in the file as it is, and nothing that      *)
(* another edit has written since is lost.                                                 *)
SameExcept(file, before, fields) ==
  \A f \in Fields \ fields :
    (f \in DOMAIN file <=> f \in DOMAIN before) /\ (f \in DOMAIN file => file[f] = before[f])

EditsBuildOnLatest ==
  [][ini' # ini => \E e \in Editors :
       \/ editor[e].at = "locked" /\ SameExcept(ini', ini, DOMAIN editor[e].change)
       \/ editor[e].at = "profile" /\ SameExcept(ini', ini, DOMAIN editor[e].change \cup {"auth"})]_settingsVars

\* An edit that is saved builds on the latest file, and what it saves starts.
EditsSound == SavedStarts /\ EditsBuildOnLatest
================================================================================
