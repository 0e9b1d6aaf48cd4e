--------------------------- MODULE ReleasePublication ---------------------------
(***************************************************************************)
(* The production release of one version: release-production.yml and the   *)
(* tools it runs.  A candidate is built once, checked, signed, and then    *)
(* made public on PyPI, GHCR and as a GitHub Release, job after job.  Any  *)
(* step may fail, a call may have had its effect although its answer was   *)
(* lost, and a maintainer re-runs the failed jobs or all of them.          *)
(*                                                                         *)
(* A build is numbered by the attempt that made it (builds are not         *)
(* reproducible); its files are <<build, "whole">> until a copy of them is *)
(* damaged.  Jobs that need not wait for each other are put in one order:  *)
(* they share nothing.  GitHub, PyPI and GHCR are external.                *)
(***************************************************************************)
EXTENDS Integers, Sequences, FiniteSets

CONSTANTS
  Assets,        \* names of the signed files of a Release
  MaxAttempts,   \* bound of the model: attempts of the workflow run
  MaxMeddling    \* bound of the model: changes of a draft by somebody else

ASSUME PublicationAssumption == MaxAttempts \in Nat \ {0}

VARIABLES
  at,          \* index of the step that is next
  attempt,     \* GITHUB_RUN_ATTEMPT
  verdict,     \* "running", "failed" or "passed"
  out,         \* outputs of the jobs that are done
  archive,     \* the candidate as this job downloaded it
  pypi,        \* distributions on PyPI
  ghcr,        \* the image under the version tag
  release,     \* the GitHub Release of the tag
  before,      \* asset identities expose_release read first
  meddled,     \* changes by somebody else
  pages        \* [at, attempt]: the documentation gate

publicationVars == <<at, attempt, verdict, out, archive, pypi, ghcr, release, before, meddled, pages>>

\* The steps in their order, with the job each belongs to.
Steps ==
  << <<"preflight", "preflight">>, <<"candidate", "build">>,
     <<"prepare", "fetch">>, <<"prepare", "identities">>, <<"prepare", "python">>,
     <<"prepare", "oci">>, <<"prepare", "assets">>,
     <<"native", "native">>, <<"readiness", "readiness">>, <<"sign", "sign">>,
     <<"draft", "find">>, <<"draft", "upload">>, <<"draft", "reread">>,
     <<"publish_pypi", "pypi">>, <<"post_pypi", "post_pypi">>,
     <<"publish_ghcr", "ghcr">>, <<"post_ghcr", "post_ghcr">>,
     <<"publish_release", "compare">>, <<"publish_release", "expose">>, <<"publish_release", "confirm">>,
     <<"post_release", "post_release">>, <<"managed", "managed">>, <<"gate", "gate">> >>
FirstOfJob(i) == CHOOSE j \in 1 .. i : Steps[j][1] = Steps[i][1] /\ \A k \in 1 .. j - 1 : Steps[k][1] # Steps[i][1]

Nil == <<0, "nothing">>
Foreign == <<0, "foreign">>
Whole(b) == <<b, "whole">>
Distributions == {"wheel", "sdist"}
NoOutputs == [build |-> 0, identity |-> Nil, python |-> Nil, oci |-> Nil, unsigned |-> Nil,
              native |-> 0, signed |-> Nil, release |-> 0, managed |-> 0]
NoRelease == [id |-> 0, draft |-> FALSE, notes |-> << >>, assets |-> << >>]

PublicationInit ==
  /\ at = 1 /\ attempt = 1 /\ verdict = "running" /\ out = NoOutputs /\ archive = Nil
  /\ pypi = [d \in Distributions |-> Nil] /\ ghcr = Nil /\ release = NoRelease /\ before = {}
  /\ meddled = 0 /\ pages = [at |-> "idle", attempt |-> 0]
-----------------------------------------------------------------------------
AtStep(s) == verdict = "running" /\ Steps[at][2] = s
Advance == at' = at + 1 /\ UNCHANGED verdict
Stay == UNCHANGED <<at, verdict>>
\* A call had its effect, and its answer was lost.
AnswerLost == UNCHANGED at /\ verdict' = "failed"
Unpublished == UNCHANGED <<pypi, ghcr, release, before>>
Elsewhere == UNCHANGED <<attempt, meddled, pages>>

\* Mutant: a version that PyPI has already is not refused.
UnusedAnyway == TRUE

\* "Refuse an already published PyPI version": its page exists with the first file.
Unused == \A d \in Distributions : pypi[d] = Nil

Preflight ==
  /\ AtStep("preflight") /\ Unused
  /\ Advance /\ UNCHANGED <<out, archive>> /\ Unpublished /\ Elsewhere

\* create_inventory and pack_candidate
Build ==
  /\ AtStep("build") /\ out' = [out EXCEPT !.build = attempt]
  /\ Advance /\ UNCHANGED archive /\ Unpublished /\ Elsewhere

\* The artifact is downloaded by its number, perhaps not intact.
Fetch ==
  /\ AtStep("fetch") /\ archive' \in {Whole(out.build), <<out.build, "damaged">>}
  /\ Advance /\ UNCHANGED out /\ Unpublished /\ Elsewhere

\* unpack_candidate and verify_inventory: the bytes are those of the digests the build reported.
Authenticated == archive = Whole(out.build)

\* verify_api_identity and _verified_candidate: the artifact is of this run, of this or an
\* earlier attempt.
PrepareIdentities ==
  /\ AtStep("identities") /\ Authenticated /\ out.build <= attempt
  /\ out' = [out EXCEPT !.identity = [build |-> out.build, attempt |-> attempt]]
  /\ Advance /\ UNCHANGED archive /\ Unpublished /\ Elsewhere

\* The producer contract of the three channel tools.
SameProducer == out.identity.build = out.build /\ out.identity.attempt = attempt

PrepareDistributions ==
  /\ AtStep("python") /\ SameProducer /\ Authenticated
  /\ out' = [out EXCEPT !.python = archive]
  /\ Advance /\ UNCHANGED archive /\ Unpublished /\ Elsewhere

PrepareOciCandidate ==
  /\ AtStep("oci") /\ SameProducer /\ Authenticated
  /\ out' = [out EXCEPT !.oci = archive]
  /\ Advance /\ UNCHANGED archive /\ Unpublished /\ Elsewhere

PrepareUnsignedAssets ==
  /\ AtStep("assets") /\ SameProducer /\ Authenticated
  /\ out' = [out EXCEPT !.unsigned = archive]
  /\ Advance /\ UNCHANGED archive /\ Unpublished /\ Elsewhere

NativeReadiness ==
  /\ AtStep("native") /\ out' = [out EXCEPT !.native = attempt]
  /\ Advance /\ UNCHANGED archive /\ Unpublished /\ Elsewhere

\* _identity: an artifact of evidence is named for the run and the attempt that made it.
NamedFor(made) == made = attempt

\* _verify_attestation: so is the invocation in the certificate its receipt was signed with.
AttestedBy(made) == made = attempt

\* verify_evidence_archive and _native: evidence of another attempt is not accepted.
VerifyNative ==
  /\ AtStep("readiness") /\ NamedFor(out.native) /\ AttestedBy(out.native)
  /\ Advance /\ UNCHANGED <<out, archive>> /\ Unpublished /\ Elsewhere

\* sign_prepared_assets, and verify_downloaded_assets on the result; Ed25519 gives the same
\* signature for the same bytes.
SignPreparedAssets ==
  /\ AtStep("sign") /\ out.unsigned = Whole(out.build)
  /\ out' = [out EXCEPT !.signed = out.unsigned]
  /\ Advance /\ UNCHANGED archive /\ Unpublished /\ Elsewhere
-----------------------------------------------------------------------------
Preliminary == <<"preliminary", out.signed>>
Final == <<"final", out.signed, out.python, ghcr>>

\* _bound_release
Bound(draft, notes) == release.id # 0 /\ release.draft = draft /\ release.notes = notes

AssetBytes == [n \in DOMAIN release.assets |-> release.assets[n].bytes]
SignedBytes == [n \in Assets |-> out.signed]

\* find_release goes through all pages of the list, drafts included.
FoundRelease == release.id # 0

\* ensure_draft resumes the one it finds, or creates it.
EnsureDraft ==
  /\ AtStep("find")
  /\ \/ Bound(TRUE, Preliminary) /\ UNCHANGED release /\ Advance
     \/ /\ ~FoundRelease
        /\ release' = [id |-> attempt, draft |-> TRUE, notes |-> Preliminary, assets |-> << >>]
        /\ Advance \/ AnswerLost
  /\ UNCHANGED <<out, archive, pypi, ghcr, before>> /\ Elsewhere

\* The assets that are there are compared, and the missing ones uploaded one by one.
UploadAssets ==
  /\ AtStep("upload") /\ release.id # 0
  /\ DOMAIN release.assets \subseteq Assets
  /\ \A n \in DOMAIN release.assets : release.assets[n].bytes = out.signed
  /\ \/ DOMAIN release.assets = Assets /\ UNCHANGED release /\ Advance
     \/ \E n \in Assets \ DOMAIN release.assets :
          /\ release' = [release EXCEPT !.assets =
               [m \in DOMAIN @ \cup {n} |-> IF m = n THEN [id |-> 0, bytes |-> out.signed] ELSE @[m]]]
          /\ Stay \/ AnswerLost
  /\ UNCHANGED <<out, archive, pypi, ghcr, before>> /\ Elsewhere

\* read_release, and every asset downloaded and compared.
RereadDraft ==
  /\ AtStep("reread") /\ Bound(TRUE, Preliminary) /\ AssetBytes = SignedBytes
  /\ out' = [out EXCEPT !.release = release.id]
  /\ Advance /\ UNCHANGED archive /\ Unpublished /\ Elsewhere

\* PyPI takes a file it does not have, and the same file again.
PublishPyPI ==
  /\ AtStep("pypi") /\ UNCHANGED <<out, archive, ghcr, release, before>> /\ Elsewhere
  /\ \/ /\ \A d \in Distributions : pypi[d] = out.python
        /\ Advance /\ UNCHANGED pypi
     \/ \E d \in Distributions :
          /\ pypi[d] = Nil /\ pypi' = [pypi EXCEPT ![d] = out.python]
          /\ Stay \/ AnswerLost

VerifyPyPI ==
  /\ AtStep("post_pypi") /\ \A d \in Distributions : pypi[d] = out.python
  /\ Advance /\ UNCHANGED <<out, archive>> /\ Unpublished /\ Elsewhere

\* A tag that exists must have the digest of the candidate.
PublishGHCR ==
  /\ AtStep("ghcr")
  /\ \/ ghcr = out.oci /\ UNCHANGED ghcr /\ Advance
     \/ ghcr = Nil /\ ghcr' = out.oci /\ (Advance \/ AnswerLost)
  /\ UNCHANGED <<out, archive, pypi, release, before>> /\ Elsewhere

VerifyGHCR ==
  /\ AtStep("post_ghcr") /\ ghcr = out.oci
  /\ Advance /\ UNCHANGED <<out, archive>> /\ Unpublished /\ Elsewhere

\* The assets are compared once more before publication.
CompareAssets ==
  /\ AtStep("compare") /\ release.id = out.release /\ AssetBytes = SignedBytes
  /\ Advance /\ UNCHANGED <<out, archive>> /\ Unpublished /\ Elsewhere

AssetIdentities == {<<n, release.assets[n].id>> : n \in DOMAIN release.assets}

\* expose_release: only the bound release, whose assets are noted first (a call of its own, here
\* one step with the PATCH: no property looks at what ConfirmRelease compares).
ExposeRelease ==
  /\ AtStep("expose") /\ release.id = out.release
  /\ before' = AssetIdentities
  /\ \/ Bound(FALSE, Final) /\ UNCHANGED release /\ Advance
     \/ /\ release.draft
        /\ release' = [release EXCEPT !.draft = FALSE, !.notes = Final]
        /\ Advance \/ AnswerLost
  /\ UNCHANGED <<out, archive, pypi, ghcr>> /\ Elsewhere

ConfirmRelease ==
  /\ AtStep("confirm") /\ Bound(FALSE, Final) /\ AssetIdentities = before
  /\ Advance /\ UNCHANGED <<out, archive>> /\ Unpublished /\ Elsewhere

\* verify_downloaded_assets on what everybody can download.
Downloaded == AssetBytes = SignedBytes

PostRelease ==
  /\ AtStep("post_release") /\ Bound(FALSE, Final) /\ release.id = out.release /\ Downloaded
  /\ Advance /\ UNCHANGED <<out, archive>> /\ Unpublished /\ Elsewhere

PostManaged ==
  /\ AtStep("managed") /\ out' = [out EXCEPT !.managed = attempt]
  /\ Advance /\ UNCHANGED archive /\ Unpublished /\ Elsewhere

FinalGate ==
  /\ AtStep("gate") /\ verdict' = "passed" /\ UNCHANGED <<at, out, archive>> /\ Unpublished /\ Elsewhere
-----------------------------------------------------------------------------
\* A check refuses, or anything else goes wrong.
StepFailed ==
  /\ verdict = "running" /\ verdict' = "failed"
  /\ UNCHANGED <<at, out, archive>> /\ Unpublished /\ Elsewhere

\* The jobs that succeeded keep their outputs.
RerunFailedJobs ==
  /\ verdict = "failed" /\ attempt < MaxAttempts
  /\ attempt' = attempt + 1 /\ verdict' = "running" /\ at' = FirstOfJob(at)
  /\ UNCHANGED <<out, archive, meddled, pages>> /\ Unpublished

RerunAllJobs ==
  /\ verdict # "running" /\ attempt < MaxAttempts
  /\ attempt' = attempt + 1 /\ verdict' = "running" /\ at' = 1 /\ out' = NoOutputs
  /\ UNCHANGED <<archive, meddled, pages>> /\ Unpublished

\* Somebody removes the draft, or an asset of it, or puts another in its place.
Meddle ==
  /\ meddled < MaxMeddling /\ release.id # 0 /\ release.draft
  /\ meddled' = meddled + 1
  /\ \/ release' = NoRelease
     \/ \E n \in DOMAIN release.assets :
          \/ release' = [release EXCEPT !.assets = [m \in DOMAIN @ \ {n} |-> @[m]]]
          \/ release' = [release EXCEPT !.assets[n] = [id |-> meddled + 1, bytes |-> Foreign]]
  /\ UNCHANGED <<at, attempt, verdict, out, archive, pypi, ghcr, before, pages>>

\* verify_public_managed_evidence: the one artifact of this attempt, with its attestation.
PublicEvidence == NamedFor(out.managed) /\ AttestedBy(out.managed)

\* docs_publication.verify_publication: the run, its evidence, the channels, and the run again.
PagesReadRun ==
  /\ pages.at = "idle" /\ verdict = "passed" /\ PublicEvidence
  /\ pages' = [at |-> "channels", attempt |-> attempt]
  /\ UNCHANGED <<at, attempt, verdict, out, archive, pypi, ghcr, release, before, meddled>>

PagesVerifyChannels ==
  /\ pages.at = "channels"
  /\ \E b \in 1 .. pages.attempt :
       /\ ~release.draft /\ AssetBytes = [n \in Assets |-> Whole(b)]
       /\ pypi = [d \in Distributions |-> Whole(b)] /\ ghcr = Whole(b)
  /\ pages' = [pages EXCEPT !.at = "again"]
  /\ UNCHANGED <<at, attempt, verdict, out, archive, pypi, ghcr, release, before, meddled>>

PagesAccept ==
  /\ pages.at = "again" /\ verdict = "passed" /\ attempt = pages.attempt
  /\ pages' = [pages EXCEPT !.at = "accepted"]
  /\ UNCHANGED <<at, attempt, verdict, out, archive, pypi, ghcr, release, before, meddled>>

PublicationNext ==
  \/ Preflight \/ Build \/ Fetch \/ PrepareIdentities \/ PrepareDistributions
  \/ PrepareOciCandidate \/ PrepareUnsignedAssets \/ NativeReadiness \/ VerifyNative
  \/ SignPreparedAssets \/ EnsureDraft \/ UploadAssets \/ RereadDraft \/ PublishPyPI
  \/ VerifyPyPI \/ PublishGHCR \/ VerifyGHCR \/ CompareAssets \/ ExposeRelease
  \/ ConfirmRelease \/ PostRelease \/ PostManaged \/ FinalGate \/ StepFailed
  \/ RerunFailedJobs \/ RerunAllJobs \/ Meddle \/ PagesReadRun \/ PagesVerifyChannels \/ PagesAccept

PublicationSpec == PublicationInit /\ [][PublicationNext]_publicationVars
-----------------------------------------------------------------------------
PublicFiles ==
  ({pypi[d] : d \in Distributions} \cup {ghcr}
     \cup (IF release.draft THEN {} ELSE {AssetBytes[n] : n \in DOMAIN AssetBytes})) \ {Nil, Foreign}

(* Everything that this workflow made public comes whole from one build, whichever jobs  *)
(* were run again after which failure and whoever removed the draft in between; and a    *)
(* Release is public only once PyPI and GHCR have everything.                            *)
OneCandidate ==
  /\ \E b \in 1 .. MaxAttempts : PublicFiles \subseteq {Whole(b)}
  /\ (release.id # 0 /\ ~release.draft) => ghcr # Nil /\ \A d \in Distributions : pypi[d] # Nil

(* A run that passed the gate, and documentation that was accepted, stand for a Release  *)
(* with exactly the signed assets, although the draft may have been changed between the  *)
(* last comparison and its publication.                                                  *)
GateMeansExact ==
  verdict = "passed" \/ pages.at = "accepted" =>
    /\ release.id # 0 /\ ~release.draft
    /\ \E b \in 1 .. MaxAttempts : AssetBytes = [n \in Assets |-> Whole(b)] /\ ghcr = Whole(b)

\* A release is published from one candidate, and a passed gate means what it says.
PublicationSound == OneCandidate /\ GateMeansExact
=================================================================================
