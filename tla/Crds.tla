-------------------------------- MODULE Crds --------------------------------
(***************************************************************************)
(* The custom resource definitions that derive(CustomResource) generates   *)
(* (kube-derive/src/custom_resource.rs), their merge into one definition   *)
(* with several versions (kube-core/src/crd.rs), and the ApiResource of a  *)
(* type (kube-core/src/discovery.rs).                                      *)
(*                                                                         *)
(* A word is a stem and how it ends: "sibilant" (s, x, z, ch, sh), "cy" (a *)
(* consonant and y), or "other".  The attributes of a type are its kind,   *)
(* its version and what #[kube(..)] sets.                                  *)
(***************************************************************************)
EXTENDS Naturals, Sequences, SequencesExt

None == {}
Some(v) == {v}

to_plural(word) ==
    CASE word.end = "sibilant" -> [stem |-> word.stem, end |-> "es"]
      [] word.end = "cy" -> [stem |-> word.stem, end |-> "ies"]
      [] word.end = "other" -> [stem |-> word.stem, end |-> "s"]

Or(option, default) == IF option # None THEN CHOOSE v \in option : TRUE ELSE default

\* The plural, or else that of the singular, or else that of the kind
PluralOf(attrs) == Or(attrs.plural, to_plural(Or(attrs.singular, attrs.word)))

\* A scale without a status is left out
Subresources(attrs) ==
    IF ~attrs.status THEN {} ELSE {"status"} \cup (IF attrs.scale THEN {"scale"} ELSE {})

\* CustomResourceExt::crd of the type with these attributes
crd(attrs) ==
    [group |-> attrs.group, kind |-> attrs.kind, plural |-> PluralOf(attrs),
     scope |-> IF attrs.namespaced THEN "Namespaced" ELSE "Cluster",
     versions |-> <<[name |-> attrs.version, storage |-> TRUE,
                     subresources |-> Subresources(attrs)]>>]

\* impl Resource of the type, and ApiResource::erase of it
api_resource(attrs) ==
    [group |-> attrs.group, version |-> attrs.version,
     api_version |-> <<attrs.group, attrs.version>>,
     kind |-> attrs.kind, plural |-> PluralOf(attrs)]

\* The words that kube-core's own pluralizer knows
Special == [endpoints |-> [stem |-> "endpoint", end |-> "s"],
            endpointslices |-> [stem |-> "endpointslice", end |-> "s"],
            nodemetrics |-> [stem |-> "node", end |-> "s"],
            podmetrics |-> [stem |-> "pod", end |-> "s"]]

\* ApiResource::from_gvk, which guesses the plural
from_gvk(group, version, kind, word) ==
    [group |-> group, version |-> version, api_version |-> <<group, version>>, kind |-> kind,
     plural |-> IF word.stem \in DOMAIN Special THEN Special[word.stem] ELSE to_plural(word)]

-----------------------------------------------------------------------------
(* merge_crds                                                              *)

MergeError(reason) == [result |-> "Err", reason |-> reason]

SingleVersion(crds) ==
    \A i \in 1..Len(crds) : Len(crds[i].versions) = 1

\* What the definitions must have in common
Same(one, other) ==
    one.group = other.group /\ one.kind = other.kind /\ one.scope = other.scope

Secondary_KeepsStorage(definition) == definition.versions[1]

\* The version of a definition that is merged into another
Secondary(definition) == [definition.versions[1] EXCEPT !.storage = FALSE]

Combine(root, rest) ==
    [root EXCEPT !.versions = <<[root.versions[1] EXCEPT !.storage = TRUE]>>
                              \o [i \in 1..Len(rest) |-> Secondary(rest[Len(rest) + 1 - i])]]

merge_crds(crds, stored_apiversion) ==
    LET found == SelectInSeq(crds, LAMBDA c : c.versions[1].name = stored_apiversion)
        rest == RemoveAt(crds, found)
    IN  CASE crds = << >> -> MergeError("MissingCrds")
          [] crds # << >> /\ ~SingleVersion(crds) -> MergeError("MultiVersionCrd or MissingVersions")
          [] crds # << >> /\ SingleVersion(crds) ->
                IF found = 0 THEN MergeError("MissingRootVersion")
                ELSE IF \E i \in 1..Len(rest) : ~Same(crds[found], rest[i])
                     THEN MergeError("PropertyMismatch")
                     ELSE [result |-> "Ok", crd |-> Combine(crds[found], rest)]

=============================================================================
