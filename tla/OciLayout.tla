------------------------------- MODULE OciLayout -------------------------------
(***************************************************************************)
(* The image of a release and its readers: the inventory of the candidate  *)
(* (_OCI in tools/candidate_inventory.py), the summary that is promoted    *)
(* and pulled back (tools/ghcr_publish.py), and the gate of the            *)
(* documentation, which reads the public registry                          *)
(* (tools/docs_publication.py).  Each walks the graph of descriptors in    *)
(* its own way, and docker pull in a fourth.                               *)
(*                                                                         *)
(* Content is addressed by its digest, so a descriptor holds the document  *)
(* itself and the graph is a tree.  Manifests are given by the constant    *)
(* ImageManifest: arch is the platform of its config ("unknown" for an     *)
(* attestation), labels whether they are those of the release, subject and *)
(* binds what an attestation says it is about, predicates what it states.  *)
(***************************************************************************)
EXTENDS Integers, Sequences
LOCAL INSTANCE SequencesExt

CONSTANTS
  ImageManifest,   \* name -> [arch, labels, subject, binds, predicates]
  Layouts     \* the roots of the layouts that are examined

VARIABLE oci

Archs == {"amd64", "arm64"}
NoName == "none"

\* Documents and descriptors.
Doc(name) == [name |-> name, list |-> << >>]
Index(list) == [name |-> "index", list |-> list]
IsIndex(doc) == doc.name = "index"
Descriptor(doc, media, platform, reference) ==
  [doc |-> doc, media |-> media, platform |-> platform, reference |-> reference]

\* Index descriptors are walked in their place, here down to indexes within indexes.
Expand(list) ==
  FlattenSeq([i \in DOMAIN list |-> IF list[i].media = "index" THEN list[i].doc.list ELSE <<list[i]>>])
LeavesOf(list) == Expand(Expand(list))
Descriptors(list) == ToSet(list) \cup ToSet(Expand(list)) \cup ToSet(LeavesOf(list))
Facts(d) == ImageManifest[d.doc.name]

Sbom == {"sbom"}
Provenance == {"provenance"}
Complete(predicates) == predicates \cap Sbom # {} /\ predicates \cap Provenance # {}

NoReceipt == [platforms |-> [a \in Archs |-> NoName], publish |-> Index(<< >>), attested |-> {}]

Candidate(root, spare) ==
  [at |-> "built", root |-> root, spare |-> spare, found |-> [a \in Archs |-> NoName],
   receipt |-> NoReceipt, tag |-> Index(<< >>), seen |-> Index(<< >>), public |-> FALSE]

OciInit == \E root \in Layouts, spare \in BOOLEAN : oci = Candidate(root, spare)
-----------------------------------------------------------------------------
(* The inventory goes by the config of an image; a descriptor may repeat its platform.     *)
Runnable(d) == Facts(d).arch \in Archs
ArchsIn(list) == {Facts(d).arch : d \in {e \in ToSet(LeavesOf(list)) : Runnable(e)}}

\* _node on an index: the platform it claims is the one found in it.
NestedIndexHolds(d) ==
  /\ IsIndex(d.doc) /\ d.doc.list # << >>
  /\ d.platform # NoName => d.platform \in Archs /\ ArchsIn(d.doc.list) = {d.platform}

\* _manifest
ImageHolds(d) ==
  /\ ~IsIndex(d.doc)
  /\ d.platform \in {NoName, Facts(d).arch}
  /\ Runnable(d) => Facts(d).labels /\ Facts(d).subject = NoName

\* Mutant: what the statements are about is not looked at.
BoundToAnything(d) == TRUE

\* _attestation: subject and statements name the manifest the annotation refers to.
BoundToReference(d) ==
  LET f == Facts(d) IN
  /\ f.subject \in {NoName, d.reference}
  /\ f.subject = NoName \/ f.binds # {} => d.reference \in f.binds

AttestationHolds(d) == ~Runnable(d) => d.reference # NoName /\ BoundToReference(d)

\* _OCI.verify: its platform manifests, no platform twice, each attested, and no blob left over.
RunnableAt(list, a) == {i \in DOMAIN list : Runnable(list[i]) /\ Facts(list[i]).arch = a}
StatedOf(list, name) ==
  UNION {Facts(list[i]).predicates : i \in {j \in DOMAIN list : ~Runnable(list[j]) /\ list[j].reference = name}}
References(list) == {list[i].reference : i \in {j \in DOMAIN list : ~Runnable(list[j])}}

InventoryHolds(root) ==
  /\ root # << >>
  /\ \A d \in Descriptors(root) :
       IF d.media = "index" THEN NestedIndexHolds(d)
       ELSE ImageHolds(d) /\ AttestationHolds(d)
  /\ LET leaves == LeavesOf(root)  names == {leaves[i].doc.name : i \in {j \in DOMAIN leaves : Runnable(leaves[j])}} IN
     /\ \A a \in Archs : \E i \in DOMAIN leaves : RunnableAt(leaves, a) = {i}
     /\ References(leaves) = names
     /\ \A n \in names : Complete(StatedOf(leaves, n))

InventoryPlatforms(root) ==
  LET leaves == LeavesOf(root) IN
  [a \in Archs |-> leaves[CHOOSE i \in RunnableAt(leaves, a) : TRUE].doc.name]

VerifyLayout ==
  /\ oci.at = "built"
  /\ oci' = IF InventoryHolds(oci.root) /\ ~oci.spare
            THEN [oci EXCEPT !.at = "inventoried", !.found = InventoryPlatforms(oci.root)]
            ELSE [oci EXCEPT !.at = "refused"]
-----------------------------------------------------------------------------
(* The summary goes by the platforms of the descriptors.                                   *)

\* summarize_oci_layout: a single index without a platform is what is published.
Wrapped(root) == Len(root) = 1 /\ root[1].media = "index" /\ root[1].platform = NoName
Selected(root) == IF Wrapped(root) THEN root[1].doc ELSE Index(root)

\* _collect_index and _collect_attestation
Collectable(d) ==
  CASE d.platform \in Archs -> d.media = "manifest"
    [] d.platform = "unknown" -> d.media = "manifest" /\ d.reference # NoName
    [] OTHER -> d.media = "index" /\ d.doc.list # << >>

\* A platform that comes twice is overwritten.
SummaryPlatforms(list) ==
  LET leaves == LeavesOf(list) IN
  [a \in Archs |-> LET found == {i \in DOMAIN leaves : leaves[i].platform = a} IN
     IF found = {} THEN NoName ELSE leaves[CHOOSE i \in found : \A j \in found : j <= i].doc.name]

Attested(list) ==
  LET leaves == LeavesOf(list)  at == {i \in DOMAIN leaves : leaves[i].platform = "unknown"} IN
  {<<leaves[i].reference, leaves[i].doc.name, Facts(leaves[i]).predicates>> : i \in at}

SummaryHolds(list) ==
  /\ \A d \in Descriptors(list) : Collectable(d)
  /\ LET p == SummaryPlatforms(list)  names == {p[a] : a \in Archs} IN
     /\ NoName \notin names
     /\ {t[1] : t \in Attested(list)} = names
     /\ \A n \in names : Complete(UNION {t[3] : t \in {u \in Attested(list) : u[1] = n}})

Summary(root) ==
  LET list == Selected(root).list IN
  [platforms |-> SummaryPlatforms(list), publish |-> Selected(root), attested |-> Attested(list)]

\* prepare_oci_candidate
PrepareCandidate ==
  /\ oci.at = "inventoried"
  /\ oci' = IF SummaryHolds(Selected(oci.root).list) /\ Summary(oci.root).platforms = oci.found
            THEN [oci EXCEPT !.at = "staged", !.receipt = Summary(oci.root)]
            ELSE [oci EXCEPT !.at = "refused"]

\* The workflow: skopeo copies the one image of a layout, and a tag that exists is left alone.
Promote ==
  /\ oci.at = "staged"
  /\ LET now == IF oci.tag = Index(<< >>) /\ Wrapped(oci.root) THEN oci.root[1].doc ELSE oci.tag IN
     oci' = [oci EXCEPT !.tag = now, !.at = IF now = oci.receipt.publish THEN "promoted" ELSE "refused"]

\* Somebody who may write to the registry moves the tag, also after the gate.
Retag ==
  /\ oci.at \in {"staged", "promoted", "pulled", "read"}
  /\ \E list \in {Reverse(oci.receipt.publish.list), Tail(oci.receipt.publish.list)} :
       oci' = [oci EXCEPT !.tag = Index(list)]

\* verify_registry_layout on what was pulled, a layout of one descriptor.
VerifyRegistryLayout ==
  /\ oci.at = "promoted"
  /\ LET pulled == <<Descriptor(oci.tag, "index", NoName, NoName)>> IN
     oci' = [oci EXCEPT !.at =
       IF SummaryHolds(oci.tag.list) /\ Summary(pulled) = oci.receipt THEN "pulled" ELSE "refused"]
-----------------------------------------------------------------------------
\* _registry_platforms: a platform that comes twice is an error.
PublicHolds(list) ==
  /\ \A d \in Descriptors(list) :
       IF d.platform \in Archs \cup {"unknown"} THEN d.media = "manifest" ELSE d.media = "index" /\ d.doc.list # << >>
  /\ LET leaves == LeavesOf(list) IN
     \A i, j \in DOMAIN leaves : leaves[i].platform \in Archs /\ leaves[i].platform = leaves[j].platform => i = j

\* verify_public_ghcr: the tag as it is read now, against the summary of the candidate.
VerifyPublic ==
  /\ oci.at = "pulled"
  /\ oci' = [oci EXCEPT !.at = "read", !.seen = oci.tag,
       !.public = /\ oci.tag = oci.receipt.publish /\ PublicHolds(oci.tag.list)
                  /\ SummaryPlatforms(oci.tag.list) = oci.receipt.platforms]

OciNext ==
  VerifyLayout \/ PrepareCandidate \/ Promote \/ Retag \/ VerifyRegistryLayout \/ VerifyPublic
-----------------------------------------------------------------------------
(* What docker pull gets for a platform: the first descriptor that names it.              *)
Pulled(list, a) ==
  LET leaves == LeavesOf(list)  found == {i \in DOMAIN leaves : leaves[i].platform = a} IN
  IF found = {} THEN NoName ELSE leaves[CHOOSE i \in found : \A j \in found : i <= j].doc.name

(* When the gate lets the documentation out, docker pull of the index that the gate read *)
(* gets for each platform an image of that platform with the labels of the release, which *)
(* attestations in the same index, with an SBOM and with provenance, name among their     *)
(* subjects; they may name others too.  A tag that is moved after the gate has read it is *)
(* outside the property: from then on only a pull by digest gets this index.             *)
PulledIsAttested ==
  oci.public =>
    \A a \in Archs : LET name == Pulled(oci.seen.list, a) IN
      /\ name # NoName /\ ImageManifest[name].arch = a /\ ImageManifest[name].labels
      /\ Complete(UNION {t[3] : t \in {u \in Attested(oci.seen.list) :
                           name \in ImageManifest[u[2]].binds \cup {ImageManifest[u[2]].subject}}})
================================================================================
