----------------------------- MODULE Discovery -----------------------------
(***************************************************************************)
(* kube-client/src/discovery: Discovery::run and oneshot::group, which ask *)
(* the server for its groups, then for the resources of each version of    *)
(* each group, one request after the other, and the queries of the         *)
(* ApiGroups they build; oneshot::pinned_group and oneshot::pinned_kind,   *)
(* which make one request.  Meanwhile an operator applies and deletes      *)
(* custom resource definitions (module Crds), and requests fail.           *)
(*                                                                         *)
(* The server (external) has the core group, a group of custom resources,  *)
(* and an aggregated group.  It lists the versions of a group and the      *)
(* resources of a version in an order of its own.                          *)
(***************************************************************************)
EXTENDS Integers, Sequences, FiniteSets, SequencesExt, TLC

CONSTANTS VersionName,   \* the version strings of custom resources
          Parts,         \* what each of them consists of (see Versions)
          U32Max,
          MaxChanges     \* bound on the changes of the definitions

ASSUME DiscoveryAssumption == {MaxChanges, U32Max} \subseteq Nat /\ DOMAIN Parts = VersionName

V == INSTANCE Versions
C == INSTANCE Crds

None == C!None
Some(v) == C!Some(v)
The(option) == CHOOSE v \in option : TRUE

VARIABLES crds,      \* the definitions on the server, by kind
          applied,   \* the merge just made: the types given, the version to store, what came of it
          changes,   \* how often the definitions changed
          stage,     \* of the run: idle, groups, versions, core, done, failed
          run,       \* its parameters, and how many changes there were when it began
          todo,      \* the groups that are still to be asked for
          building,  \* the group that is being asked for
          groups,    \* Discovery.groups
          served,    \* what was served at some moment of the run
          kept,      \* what was served at all moments of the run
          answer     \* the pinned_kind just made

operator == <<crds, changes>>
history == <<served, kept>>
vars == <<crds, applied, changes, stage, run, todo, building, groups, served, kept, answer>>

-----------------------------------------------------------------------------
(* The server                                                              *)

Core == ""
Custom == "example.com"
Aggregated == "metrics"
Group == {Core, Custom, Aggregated}

CoreV1 == "v1"

Kind == {"Foo", "Policy"}
Word == [Foo |-> [stem |-> "foo", end |-> "other"], Policy |-> [stem |-> "polic", end |-> "cy"]]

\* The attributes of a type that sets none of its names, and has a scale but no status
Attributes(kind, version) ==
    [group |-> Custom, kind |-> kind, word |-> Word[kind], version |-> version,
     namespaced |-> TRUE, status |-> FALSE, scale |-> TRUE, plural |-> None, singular |-> None]

\* The types of the operator: those of a kind may differ in all but group, kind and scope
Policy(v) == Attributes("Policy", v)
Foo(v) == [Attributes("Foo", v) EXCEPT !.status = TRUE, !.plural = Some([stem |-> "foo", end |-> "ies"])]
Renamed(v) == [Attributes("Foo", v) EXCEPT !.singular = Some([stem |-> "f", end |-> "other"])]

Resource(name, kind, verbs, group, version) ==
    [name |-> name, kind |-> kind, namespaced |-> TRUE, verbs |-> verbs,
     group |-> group, version |-> version]

Entries(c, version) ==
    LET v == c.versions[SelectInSeq(c.versions, LAMBDA w : w.name = version)]
        sub(s) == IF s = "scale"
                  THEN Resource(<<c.plural, s>>, "Scale", {"get"}, Some("autoscaling"), Some("v1"))
                  ELSE Resource(<<c.plural, s>>, c.kind, {"get"}, None, None)
    IN  <<Resource(<<c.plural>>, c.kind, {"get", "list"}, None, None)>>
        \o SetToSeq({sub(s) : s \in v.subresources})

Serves(c, version) == \E i \in 1..Len(c.versions) : c.versions[i].name = version

\* The resources of a group's version; those of the core group are the pods and their eviction
ResourcesOf(definitions, group, version) ==
    CASE group = Core ->
            IF version # CoreV1 THEN << >>
            ELSE <<Resource(<<"pods">>, "Pod", {"get", "list"}, None, None),
                   Resource(<<"pods", "eviction">>, "Eviction", {"create"}, Some("policy"), Some("v1")),
                   Resource(<<"pods", "status">>, "Pod", {"get"}, None, None)>>
      [] group = Aggregated ->
            IF version # CoreV1 THEN << >>
            ELSE <<Resource(<<"usages">>, "Usage", {"list"}, None, None)>>
      [] group = Custom ->
            LET serving == {k \in DOMAIN definitions : Serves(definitions[k], version)}
            IN  FlattenSeq([i \in 1..Cardinality(serving) |->
                            Entries(definitions[SetToSeq(serving)[i]], version)])

VersionsOf(definitions, group) ==
    IF group = Custom
    THEN {v \in VersionName : ResourcesOf(definitions, group, v) # << >>}
    ELSE {CoreV1}

\* The kinds that are served: group, version, kind and plural
Served(definitions) ==
    UNION {UNION {{<<g, v, r[i].kind, r[i].name[1]>> :
                      i \in {j \in 1..Len(r) : Len(r[j].name) = 1}} :
                  r \in {ResourcesOf(definitions, g, v)}} :
           <<g, v>> \in {gv \in Group \X (VersionName \cup {CoreV1}) :
                            gv[2] \in VersionsOf(definitions, gv[1])}}

\* The orders in which the server may list resources
Orders(seq) == {seq, Reverse(seq)}

\* An APIGroup: its versions, and the preferred one, the first, if the server exports it
APIGroup(group, versions, preferred) ==
    [name |-> group, versions |-> versions, preferred |-> preferred, data |-> << >>]

Exports(definitions, group) ==
    UNION {{APIGroup(group, versions, None), APIGroup(group, versions, Some(Head(versions)))} :
           versions \in SetToSeqs(VersionsOf(definitions, group))}

\* Groups as they are listed: the custom one if it has versions, and the aggregated one, which
\* may have none
Listed(definitions) ==
    {SelectSeq(<<custom, aggregated>>, LAMBDA g : g.name = Aggregated \/ g.versions # << >>) :
     custom \in IF VersionsOf(definitions, Custom) = {} THEN {APIGroup(Custom, << >>, None)}
                ELSE Exports(definitions, Custom),
     aggregated \in {APIGroup(Aggregated, << >>, None), APIGroup(Aggregated, <<CoreV1>>, None)}}

-----------------------------------------------------------------------------
(* GroupVersionData and ApiGroup                                           *)

parse_apiresource(res, group, version) ==
    [group |-> IF res.group # None THEN The(res.group) ELSE group,
     version |-> IF res.version # None THEN The(res.version) ELSE version,
     api_version |-> <<group, version>>, kind |-> res.kind, plural |-> res.name]

IsSubresource(res) == Len(res.name) > 1

Capabilities(res, subresources) ==
    [scope |-> IF res.namespaced THEN "Namespaced" ELSE "Cluster",
     operations |-> res.verbs, subresources |-> subresources]

\* A subresource has none of its own: the recursion ends one level down
parse_apicapabilities(list, group, version, res) ==
    Capabilities(res,
        {<<[parse_apiresource(list[i], group, version) EXCEPT !.plural = SubSeq(@, 2, Len(@))],
           Capabilities(list[i], {})>> :
         i \in {j \in 1..Len(list) : IsStrictPrefix(res.name, list[j].name)}})

Discovered(list, group, version, res) ==
    <<parse_apiresource(res, group, version), parse_apicapabilities(list, group, version, res)>>

GroupVersionData(group, version, list) ==
    LET whole == SelectSeq(list, LAMBDA res : ~IsSubresource(res))
    IN  [version |-> version,
         resources |-> [i \in 1..Len(whole) |-> Discovered(list, group, version, whole[i])]]

Parsed(version) == V!parse(Parts[version])

sort_versions_ByGeneration(data) ==
    SortSeq(data, LAMBDA a, b : V!Less(V!generation(Parsed(b.version)), V!generation(Parsed(a.version))))

sort_versions(data) ==
    SortSeq(data, LAMBDA a, b : V!Less(V!priority(Parsed(b.version)), V!priority(Parsed(a.version))))

preferred_version_or_latest(g) ==
    IF g.preferred # None THEN The(g.preferred) ELSE g.data[1].version

versioned_resources(g, version) ==
    LET found == SelectInSeq(g.data, LAMBDA d : d.version = version)
    IN  IF found = 0 THEN << >> ELSE g.data[found].resources

recommended_resources(g) == versioned_resources(g, preferred_version_or_latest(g))

\* The resources of one kind, at the versions that have it
OfKind(g, kind) ==
    SelectSeq(FlattenSeq([i \in 1..Len(g.data) |-> g.data[i].resources]), LAMBDA r : r[1].kind = kind)

KindsOf(g) ==
    {g.data[i].resources[j][1].kind : <<i, j>> \in
        {p \in (1..Len(g.data)) \X (1..3) : p[2] <= Len(g.data[p[1]].resources)}}

resources_by_stability(g) ==
    {SortSeq(OfKind(g, kind), LAMBDA a, b :
        V!Less(V!priority(Parsed(b[1].version)), V!priority(Parsed(a[1].version))))[1] : kind \in KindsOf(g)}

\* Some resource, or none
FirstOfKind(resources, kind) ==
    LET found == SelectInSeq(resources, LAMBDA r : r[1].kind = kind)
    IN  IF found = 0 THEN None ELSE Some(resources[found])

recommended_kind(g, kind) == FirstOfKind(recommended_resources(g), kind)

resolve_gvk(cache, group, version, kind) ==
    IF group \notin DOMAIN cache THEN None
    ELSE FirstOfKind(versioned_resources(cache[group], version), kind)

query_gvk_AnyName(list, group, version, kind) ==
    LET found == SelectInSeq(list, LAMBDA res : res.kind = kind)
    IN  IF found = 0 THEN None ELSE Some(Discovered(list, group, version, list[found]))

query_gvk(list, group, version, kind) ==
    LET found == SelectInSeq(list, LAMBDA res : res.kind = kind /\ ~IsSubresource(res))
    IN  IF found = 0 THEN None ELSE Some(Discovered(list, group, version, list[found]))

-----------------------------------------------------------------------------
(* The operator                                                            *)

\* What the server takes: distinct versions, one of which is stored
Valid(c) ==
    /\ IsInjective([i \in 1..Len(c.versions) |-> c.versions[i].name])
    /\ Cardinality({i \in 1..Len(c.versions) : c.versions[i].storage}) = 1

NoAnswer == [gvk |-> <<Core, CoreV1, "none">>, found |-> None]
NoMerge == [types |-> << >>, stored |-> None, result |-> "none"]

\* Any other step
Forget == applied' = NoMerge /\ answer' = NoAnswer

Changed(definitions) ==
    /\ changes' = changes + 1
    /\ crds' = definitions
    /\ IF stage \in {"groups", "versions", "core"}
       THEN /\ served' = served \cup Served(definitions)
            /\ kept' = kept \cap Served(definitions)
       ELSE UNCHANGED history

\* A definition is named by its plural: another one has the kind already.
Taken(c) == c.kind \in DOMAIN crds /\ crds[c.kind].plural # c.plural

\* merge_crds of the types' definitions, and the definition applied
Merge(types, stored) ==
    LET merged == C!merge_crds([i \in 1..Len(types) |-> C!crd(types[i])], stored)
        outcome == IF merged.result = "Err" THEN "refused"
                   ELSE IF ~Valid(merged.crd) THEN "rejected"
                   ELSE IF Taken(merged.crd) THEN "taken" ELSE "accepted"
    IN  /\ changes < MaxChanges
        /\ applied' = [types |-> types, stored |-> Some(stored), result |-> outcome]
        /\ IF outcome = "accepted"
           THEN Changed([k \in DOMAIN crds \cup {merged.crd.kind} |->
                         IF k = merged.crd.kind THEN merged.crd ELSE crds[k]])
           ELSE UNCHANGED <<crds, changes, served, kept>>
        /\ answer' = NoAnswer
        /\ UNCHANGED <<stage, run, todo, building, groups>>

RemoveCrd(kind) ==
    /\ changes < MaxChanges
    /\ kind \in DOMAIN crds
    /\ Changed([k \in DOMAIN crds \ {kind} |-> crds[k]])
    /\ Forget
    /\ UNCHANGED <<stage, run, todo, building, groups>>

-----------------------------------------------------------------------------
(* Discovery                                                               *)

is_queryable(mode, group) ==
    IF mode.allow THEN group \in mode.groups ELSE group \notin mode.groups

\* Discovery::new, filter and exclude
Mode == {[allow |-> FALSE, groups |-> {}], [allow |-> TRUE, groups |-> {Custom}],
         [allow |-> FALSE, groups |-> {Custom, Core}]}

NoGroup == APIGroup(Core, << >>, None)
NoGroups == << >>

Cleared_Not(cache) == cache

\* The cache when a run begins
Cleared(cache) == NoGroups

\* Discovery::run, again or for the first time
Run(mode) ==
    /\ stage \in {"idle", "done", "failed"}
    /\ run' = [mode |-> mode, oneshot |-> FALSE, begun |-> changes]
    /\ stage' = "groups"
    /\ groups' = Cleared(groups)
    /\ todo' = << >>
    /\ building' = NoGroup
    /\ served' = Served(crds)
    /\ kept' = Served(crds)
    /\ Forget
    /\ UNCHANGED operator

\* oneshot::group
GroupOf(group) ==
    /\ stage \in {"idle", "done", "failed"}
    /\ run' = [mode |-> [allow |-> TRUE, groups |-> {group}], oneshot |-> TRUE, begun |-> changes]
    /\ stage' = IF group = Core THEN "core" ELSE "groups"
    /\ groups' = NoGroups
    /\ todo' = << >>
    /\ building' = NoGroup
    /\ served' = Served(crds)
    /\ kept' = Served(crds)
    /\ Forget
    /\ UNCHANGED operator

\* The error of a request, of a group without versions, or of a group that is not there: what
\* was built is dropped
Fail ==
    /\ stage' = "failed"
    /\ groups' = NoGroups
    /\ todo' = << >>
    /\ building' = NoGroup
    /\ served' = {}
    /\ kept' = {}

\* The cache is filled so far, and these groups are to be asked for; then the core group
Proceed(cache, rest) ==
    \/ /\ rest # << >>
       /\ Head(rest).versions = << >>
       /\ Fail
    \/ /\ rest # << >>
       /\ Head(rest).versions # << >>
       /\ stage' = "versions"
       /\ building' = Head(rest)
       /\ todo' = Tail(rest)
       /\ groups' = cache
       /\ UNCHANGED history
    \/ /\ rest = << >>
       /\ stage' = IF ~run.oneshot /\ is_queryable(run.mode, Core) /\ Core \notin DOMAIN cache
                   THEN "core" ELSE "done"
       /\ building' = NoGroup
       /\ todo' = << >>
       /\ groups' = cache
       /\ UNCHANGED history

\* Client::list_api_groups
ListApiGroups ==
    /\ stage = "groups"
    /\ \E listed \in Listed(crds) :
          LET wanted == SelectSeq(listed, LAMBDA g : is_queryable(run.mode, g.name))
          IN  IF run.oneshot /\ wanted = << >> THEN Fail ELSE Proceed(groups, wanted)
    /\ Forget
    /\ UNCHANGED <<operator, run>>

\* Client::list_core_api_versions
ListCoreApiVersions ==
    /\ stage = "core"
    /\ \E versions \in {<<CoreV1>>, << >>} :
          Proceed(groups, <<APIGroup(Core, versions, Some(CoreV1))>>)
    /\ Forget
    /\ UNCHANGED <<operator, run>>

LastVersion_First(group) == Len(group.versions) > 0

\* Whether the answer to this request completes the group
LastVersion(group) == Len(group.versions) = 1

\* Client::list_api_group_resources or list_core_api_resources for the next version, then
\* GroupVersionData::new; query_apis and query_core end with sort_versions
ListResources ==
    /\ stage = "versions"
    /\ LET version == Head(building.versions)
           list == ResourcesOf(crds, building.name, version)
           data == Append(building.data, GroupVersionData(building.name, version, list))
           complete == [name |-> building.name, data |-> sort_versions(data),
                        preferred |-> building.preferred]
       IN  \/ /\ list = << >>
              /\ Fail
           \/ /\ list # << >> /\ ~LastVersion(building)
              /\ building' = [building EXCEPT !.data = data, !.versions = Tail(@)]
              /\ UNCHANGED <<stage, todo, groups, history>>
           \/ /\ list # << >> /\ LastVersion(building)
              /\ Proceed([g \in DOMAIN groups \cup {building.name} |->
                          IF g = building.name THEN complete ELSE groups[g]], todo)
    /\ Forget
    /\ UNCHANGED <<operator, run>>

\* A request fails
RequestFails ==
    /\ stage \in {"groups", "core", "versions"}
    /\ Fail
    /\ Forget
    /\ UNCHANGED <<operator, run>>

\* oneshot::pinned_kind, which shares nothing with a run and is compared with one that is done;
\* a version that is not served has no list
PinnedKind(group, version, kind) ==
    /\ stage = "done"
    /\ \E list \in Orders(ResourcesOf(crds, group, version)) :
          answer' = [gvk |-> <<group, version, kind>>, found |-> query_gvk(list, group, version, kind)]
    /\ applied' = NoMerge
    /\ UNCHANGED <<operator, stage, run, todo, building, groups, history>>

\* oneshot::pinned_group, which asks for one version
PinnedGroup(group, version) ==
    /\ stage \in {"idle", "done", "failed"}
    /\ run' = [mode |-> [allow |-> TRUE, groups |-> {group}], oneshot |-> TRUE, begun |-> changes]
    /\ \E list \in Orders(ResourcesOf(crds, group, version)) :
          IF list = << >> THEN Fail
          ELSE /\ stage' = "done"
               /\ served' = Served(crds)
               /\ kept' = {k \in Served(crds) : k[2] = version}
               /\ todo' = << >>
               /\ building' = NoGroup
               /\ groups' = (group :> [name |-> group, preferred |-> Some(version),
                                       data |-> <<GroupVersionData(group, version, list)>>])
    /\ Forget
    /\ UNCHANGED operator

-----------------------------------------------------------------------------
Init ==
    /\ crds = << >>
    /\ applied = NoMerge
    /\ changes = 0
    /\ stage = "idle"
    /\ run = [mode |-> [allow |-> FALSE, groups |-> {}], oneshot |-> FALSE, begun |-> 0]
    /\ todo = << >>
    /\ building = NoGroup
    /\ groups = NoGroups
    /\ served = {}
    /\ kept = {}
    /\ answer = NoAnswer

\* The types given to merge_crds, and the version to store: versions of one kind, and the
\* mistakes, which are types with different names, no type, a type twice, two kinds, and a
\* version that is not there
Merges ==
    LET w == CHOOSE v \in VersionName : v # CoreV1
    IN  UNION {{<<SetToSeq({Foo(v) : v \in vs}), stored>> : stored \in vs} : vs \in (SUBSET VersionName) \ {{}}}
        \cup {<<<<Policy(v)>>, v>> : v \in VersionName}
        \cup {<<<<Foo(CoreV1), Renamed(w)>>, stored>> : stored \in {CoreV1, w}}
        \cup {<<types, CoreV1>> : types \in {<< >>, <<Foo(CoreV1), Foo(CoreV1)>>,
                                             <<Policy(CoreV1), Foo(CoreV1)>>, <<Foo(w)>>}}

Next ==
    \/ \E <<types, stored>> \in Merges : Merge(types, stored)
    \/ \E k \in Kind : RemoveCrd(k)
    \/ \E mode \in Mode : Run(mode)
    \/ \E g \in Group : GroupOf(g)
    \/ ListApiGroups
    \/ ListCoreApiVersions
    \/ ListResources
    \/ RequestFails
    \/ \E v \in VersionName, k \in Kind : PinnedKind(Custom, v, k)
    \/ PinnedKind(Core, CoreV1, "Pod")
    \/ \E v \in VersionName : PinnedGroup(Custom, v)

Spec == Init /\ [][Next]_vars

-----------------------------------------------------------------------------
(* Properties                                                              *)

InCache ==
    UNION {{<<g, groups[g].data[i].version, r[1].kind, r[1].plural[1]>> :
            <<i, r>> \in UNION {{<<i, groups[g].data[i].resources[j]>> :
                                 j \in 1..Len(groups[g].data[i].resources)} :
                                i \in 1..Len(groups[g].data)}} : g \in DOMAIN groups}

\* Discovery::run and the oneshots report what was there: a kind in the cache was served, at
\* that version and under that plural, at some moment of the run, whatever was applied and
\* deleted between its requests, and nothing of an earlier run remains.
CacheWasServed == InCache \subseteq served

\* Discovery::run finds all of it: a kind that was served at all moments of a run that
\* succeeded, in a group that the mode lets through, is in the cache; a group that the mode
\* does not let through is not.
CacheIsComplete ==
    stage = "done" =>
        /\ {k \in kept : is_queryable(run.mode, k[1])} \subseteq InCache
        /\ \A g \in DOMAIN groups : is_queryable(run.mode, g)

\* The cache holds what the cluster served, no more and no less.
CacheIsTrue == CacheWasServed /\ CacheIsComplete

\* The queries of an ApiGroup agree, whatever order the server lists versions in: versions are
\* in descending priority, one whose number is beyond u32 behind all that conform to the
\* pattern, the recommended version is one of the group's, what is recommended
\* where the server prefers no version is what resources_by_stability has, and that has every
\* kind at the version that no other version of that kind beats.
MostStableFirst ==
    \A g \in DOMAIN groups : LET group == groups[g] IN
        /\ \A i, j \in 1..Len(group.data) : i < j =>
              LET first == group.data[i].version  second == group.data[j].version IN
              /\ ~V!Less(V!priority(Parsed(first)), V!priority(Parsed(second)))
              /\ V!Conformant(Parts[second]) => Parts[first].major[1] <= U32Max
        /\ recommended_resources(group) # << >>
        /\ \A k \in KindsOf(group) :
              /\ group.preferred = None => recommended_kind(group, k) \subseteq resources_by_stability(group)
              /\ \E r \in resources_by_stability(group) :
                    /\ r[1].kind = k
                    /\ \A i \in 1..Len(OfKind(group, k)) :
                          ~V!Less(V!priority(Parsed(r[1].version)),
                                  V!priority(Parsed(OfKind(group, k)[i][1].version)))

\* A oneshot and a discovery are two ways to the same answer: while the definitions stay as they
\* are, pinned_kind gives what resolve_gvk gives after a run, with all of its capabilities.
OneshotAgrees ==
    (stage = "done" /\ ~run.oneshot /\ run.begun = changes
       /\ answer # NoAnswer /\ is_queryable(run.mode, answer.gvk[1]))
    => answer.found = resolve_gvk(groups, answer.gvk[1], answer.gvk[2], answer.gvk[3])

\* merge_crds makes one definition of the types' definitions: unless two of them have the same
\* version the server takes it, it stores the version asked for, and it serves each type, at its
\* version, with the status that it has and with a scale if it has both.  Types that differ in
\* their plurals are merged without complaint, and there is one plural, that of the stored type:
\* a type is served at the path that its own ApiResource names just if it agrees.  The guess of
\* ApiResource::from_gvk is right for a type that sets neither plural nor singular.
TypesAreServed ==
    LET types == applied.types
        definition == crds[types[1].kind]
        Storage == {definition.versions[i].name : i \in {j \in 1..Len(definition.versions) :
                                                           definition.versions[j].storage}}
        Root == CHOOSE t \in ToSet(types) : Some(t.version) = applied.stored
        Offered(v, p) == LET list == ResourcesOf(crds, Custom, v)
                         IN  {list[i].name[2] : i \in {j \in 1..Len(list) :
                                IsStrictPrefix(<<p>>, list[j].name)}}
    IN  /\ applied.result = "rejected" =>
              \E i, j \in 1..Len(types) : i # j /\ types[i].version = types[j].version
        /\ applied.result = "accepted" =>
              /\ Storage = applied.stored
              /\ \A t \in ToSet(types) :
                    LET ar == C!api_resource(t)
                        plural == C!PluralOf(Root)
                    IN  /\ <<t.group, t.version, t.kind, plural>> \in Served(crds)
                        /\ <<ar.group, ar.version, ar.kind, ar.plural>> \in Served(crds)
                             <=> ar.plural = plural
                        /\ "status" \in Offered(t.version, plural) <=> t.status
                        /\ "scale" \in Offered(t.version, plural) <=> t.scale /\ t.status
                        /\ t.plural = None /\ t.singular = None =>
                             ar = C!from_gvk(t.group, t.version, t.kind, t.word)

=============================================================================
