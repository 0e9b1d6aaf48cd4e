----------------------------- MODULE MCDeployments -----------------------------
(***************************************************************************)
(* The way of a release to a host and what an administrator does with it   *)
(* there: its publication, the readers of its image, what an updating      *)
(* administrator believes of it, the look at the files of the host that    *)
(* precedes every command; the setup and the commands of a native          *)
(* deployment, those of a Compose one, and the settings of a server run by *)
(* hand.  They share no state, so scope names the one that moves and the   *)
(* others rest.                                                            *)
(***************************************************************************)
EXTENDS NativeDeployment, ComposeDeployment, NativeSetup, PortableSettings,
        ReleasePublication, OciLayout, ManagedInspection, ReleaseTrust, TLC

VARIABLE scope

deploymentsVars ==
  <<scope, vars, composeVars, setupVars, settingsVars, publicationVars, oci, inspectionVars,
    trustVars>>

Mix(ops, n) == [ops |-> ops, kills |-> n]
Runtime == {"update", "rollback", "uninstall"}

\* credentials is kept apart from config and purge, whose receipts it may overwrite.
Supported == {Mix(Runtime \cup {"purge", "configure"}, 1), Mix(Runtime \cup {"credentials"}, 1)}

Profiles ==
  {<< >>, [access |-> "private", files |-> "apart"], [access |-> "public", auth |-> "auth"],
   [access |-> "public", auth |-> "auth", https |-> "files", cert |-> "pair", allowed |-> "names"],
   [access |-> "public", auth |-> "auth", host |-> "loopback", quota |-> "some"], [files |-> "home"]}
Variables == {<< >>, [access |-> "public"], [files |-> "apart"], [host |-> "loopback"], [auth |-> ""]}

\* Versions of 1.0.0 with their places in the order of semantic versioning: rc, rc.2, rc.11, and
\* the release with and without build metadata.
Number(n) == [number |-> TRUE, value |-> n]
Version(pre, build) == [core |-> 1, pre |-> pre, build |-> build]
Rc == [number |-> FALSE, value |-> 1]
SemanticOrder ==
  << {Version(<<Rc>>, 0)}, {Version(<<Rc, Number(2)>>, 0)}, {Version(<<Rc, Number(11)>>, 0)},
     {Version(<< >>, 0), Version(<< >>, 1)} >>
SupportedLine == UNION {SemanticOrder[i] : i \in 1 .. 4}

\* Two images of the release and one that is not, attestations in the forms Buildx makes.
Image(arch, labels) ==
  [arch |-> arch, labels |-> labels, subject |-> NoName, binds |-> {}, predicates |-> {}]
Statement(subject, binds, predicates) ==
  [arch |-> "unknown", labels |-> FALSE, subject |-> subject, binds |-> binds, predicates |-> predicates]
BuildOutput ==
  [amd |-> Image("amd64", TRUE), arm |-> Image("arm64", TRUE), old |-> Image("amd64", FALSE),
   both |-> Statement(NoName, {"amd", "arm"}, {"sbom", "provenance"}),
   subject |-> Statement("arm", {}, {"sbom", "provenance"}),
   partial |-> Statement(NoName, {"amd"}, {"sbom"})]

ImageDescriptor(name, platform) == Descriptor(Doc(name), "manifest", platform, NoName)
About(name, reference) == Descriptor(Doc(name), "manifest", "unknown", reference)
DescriptorChoices ==
  {ImageDescriptor("amd", "amd64"), ImageDescriptor("amd", NoName), ImageDescriptor("arm", "arm64"),
   ImageDescriptor("old", "amd64"), About("both", "amd"), About("subject", "amd"),
   About("subject", "arm"), About("partial", "amd")}

\* Four descriptors are needed, a fifth may repeat a platform; flat, in an index, or in two.
Wrap(list, platform) == <<Descriptor(Index(list), "index", platform, NoName)>>
Flat ==
  [1 .. 4 -> DescriptorChoices] \cup
  {<<ImageDescriptor("arm", "arm64"), ImageDescriptor("amd", "amd64")>> \o l : l \in [1 .. 3 -> DescriptorChoices]}
Nested(l, platform) == Wrap(Wrap(SubSeq(l, 1, 2), platform) \o SubSeq(l, 3, Len(l)), NoName)
RootIndexes ==
  {Wrap(l, NoName) : l \in Flat}
    \cup {l \in Flat : Len(l) = 5}
    \cup {Nested(l, p) : l \in {k \in Flat : Len(k) = 5}, p \in {NoName, "arm64"}}

\* A component that rests is left in one of its initial states.
DeploymentsInit ==
  /\ scope \in {"native", "compose", "setup", "portable", "publication", "image", "inspection", "trust"}
  /\ SettingsInit /\ (scope # "portable" => DOMAIN ini = {} /\ DOMAIN env = {})
  /\ SetupInit /\ 
     /\ IF scope = "setup" THEN Cardinality(host.ids) < 2 ELSE host = CHOOSE h \in Hosts : ~h.marker
  /\ PublicationInit
  /\ IF scope = "image" THEN OciInit ELSE oci = Candidate(Wrap(<< >>, NoName), FALSE)
  /\ IF scope = "inspection" THEN InspectionInit ELSE tree = (CHOOSE t \in Trees : TRUE) /\ walk = Walk(TRUE)
  /\ TrustInit /\ ring["k1"] = "active" /\ ring["k2"] # "unknown"
  /\ scope # "trust" => /\ ring["k2"] = "revoked" /\ active = CHOOSE v \in SupportedVersions : TRUE
                        /\ installed[active].manifest.key = "k1"
  /\ ComposeInit /\ Init
  /\ scope # "native" => /\ mix = CHOOSE m \in Mixes : TRUE
                        /\ svc = Started /\ current = 2 /\ etc.profile = Inside /\ etc.auth.pw = 1

NativeScope ==
  /\ scope = "native" /\ Next
  /\ UNCHANGED <<scope, composeVars, setupVars, settingsVars, publicationVars, oci, inspectionVars, trustVars>>
ComposeScope ==
  /\ scope = "compose" /\ ComposeNext
  /\ UNCHANGED <<scope, vars, setupVars, settingsVars, publicationVars, oci, inspectionVars, trustVars>>
SetupScope ==
  /\ scope = "setup" /\ SetupNext
  /\ UNCHANGED <<scope, vars, composeVars, settingsVars, publicationVars, oci, inspectionVars, trustVars>>
PortableScope ==
  /\ scope = "portable" /\ SettingsNext
  /\ UNCHANGED <<scope, vars, composeVars, setupVars, publicationVars, oci, inspectionVars, trustVars>>
PublicationScope ==
  /\ scope = "publication" /\ PublicationNext
  /\ UNCHANGED <<scope, vars, composeVars, setupVars, settingsVars, oci, inspectionVars, trustVars>>
ImageScope ==
  /\ scope = "image" /\ OciNext
  /\ UNCHANGED <<scope, vars, composeVars, setupVars, settingsVars, publicationVars, inspectionVars, trustVars>>
InspectionScope ==
  /\ scope = "inspection" /\ InspectionNext
  /\ UNCHANGED <<scope, vars, composeVars, setupVars, settingsVars, publicationVars, oci, trustVars>>
TrustScope ==
  /\ scope = "trust" /\ TrustNext
  /\ UNCHANGED <<scope, vars, composeVars, setupVars, settingsVars, publicationVars, oci, inspectionVars>>

DeploymentsNext ==
  \/ NativeScope \/ ComposeScope \/ SetupScope \/ PortableScope
  \/ PublicationScope \/ ImageScope \/ InspectionScope \/ TrustScope

DeploymentsSpec == DeploymentsInit /\ [][DeploymentsNext]_deploymentsVars

\* The commands, operators, editors and updaters of the components are given the same
\* two model values: no component tells them apart.
Interchangeable == Permutations(Commands)
================================================================================
