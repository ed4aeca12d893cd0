------------------------------ MODULE Requests ------------------------------
(***************************************************************************)
(* kube-core: request.rs, params.rs, subresource.rs and util.rs.  The      *)
(* builder turns the parameters of a call into an HTTP request, or refuses *)
(* them.  A request is what the server can tell apart: verb, collection,   *)
(* name and subresource, the query as a set of pairs, the types accepted   *)
(* and sent, and the body.  An Option is a set of at most one value.       *)
(***************************************************************************)
EXTENDS Naturals, Sequences, FiniteSets

CONSTANT TooLong     \* the field managers whose names exceed 128 characters

None == {}
Some(v) == {v}

Pair(key, option) == {<<key, v>> : v \in option}
Flag(key, set) == IF set THEN Pair(key, Some("true")) ELSE {}

Invalid == [verb |-> "Invalid"]
Checked(valid, request) == IF valid THEN request ELSE Invalid

\* Resource::url_path: the collection of a kind, in one namespace or in all of them
url_path(namespace) == [namespace |-> namespace]

Json == "application/json"
PartialMetadata == "PartialObjectMetadata"
PartialMetadataList == "PartialObjectMetadataList"

Http(verb, url, name, sub, query) ==
    [verb |-> verb, url |-> url, name |-> name, sub |-> sub, query |-> query,
     accept |-> Json, content |-> None, body |-> None]

With(request, content, body) == [request EXCEPT !.content = Some(content), !.body = Some(body)]
Accepting(request, mime) ==
    IF request = Invalid THEN Invalid ELSE [request EXCEPT !.accept = mime]

-----------------------------------------------------------------------------
(* ListParams, GetParams, WatchParams                                      *)

VersionMatch == {"NotOlderThan", "Exact"}

ListParams == [label_selector |-> None, field_selector |-> None, timeout |-> None, limit |-> None,
               continue_token |-> None, version_match |-> None, resource_version |-> None]

\* The builder's methods, one call each
ListBuilder(lp) ==
    {[lp EXCEPT !.timeout = Some(60)], [lp EXCEPT !.field_selector = Some("f")],
     [lp EXCEPT !.label_selector = Some("l")], [lp EXCEPT !.limit = Some(1)],
     [lp EXCEPT !.continue_token = Some("c")]}
    \cup {[lp EXCEPT !.resource_version = Some(v)] : v \in 0..2}
    \cup {[lp EXCEPT !.version_match = Some(m)] : m \in VersionMatch}
    \cup {[lp EXCEPT !.version_match = Some("NotOlderThan"), !.resource_version = Some(0)]}

ListValid(lp) ==
    /\ lp.version_match = Some("Exact") => lp.resource_version # Some(0)
    /\ lp.version_match # None => lp.resource_version # None

ListQuery_NoMatch(lp) ==
    Pair("fieldSelector", lp.field_selector) \cup Pair("labelSelector", lp.label_selector)
    \cup Pair("limit", lp.limit) \cup Pair("continue", lp.continue_token)
    \cup Pair("resourceVersion", lp.resource_version)

ListQuery(lp) ==
    Pair("fieldSelector", lp.field_selector) \cup Pair("labelSelector", lp.label_selector)
    \cup Pair("limit", lp.limit) \cup Pair("continue", lp.continue_token)
    \cup Pair("resourceVersion", lp.resource_version)
    \cup Pair("resourceVersionMatch", lp.version_match)

GetParams == {[resource_version |-> v] : v \in {None} \cup {Some(n) : n \in 0..2}}

WatchParams == [label_selector |-> None, field_selector |-> None, timeout |-> None, bookmarks |-> TRUE]

WatchBuilder(wp) ==
    {[wp EXCEPT !.field_selector = Some("f")], [wp EXCEPT !.label_selector = Some("l")],
     [wp EXCEPT !.bookmarks = FALSE]}
    \cup {[wp EXCEPT !.timeout = Some(t)] : t \in {294, 295}}

WatchValid(wp) == \A t \in wp.timeout : t < 295

WatchQuery(wp) ==
    {<<"watch", "true">>}
    \cup Pair("timeoutSeconds", IF wp.timeout = None THEN Some(290) ELSE wp.timeout)
    \cup Pair("fieldSelector", wp.field_selector) \cup Pair("labelSelector", wp.label_selector)
    \cup Flag("allowWatchBookmarks", wp.bookmarks)

-----------------------------------------------------------------------------
(* PostParams, PatchParams, DeleteParams, EvictParams                      *)

PostParams == [dry_run |-> FALSE, field_manager |-> None]

DryRunQuery(dry_run) == IF dry_run THEN {<<"dryRun", "All">>} ELSE {}

PostQuery(pp) == DryRunQuery(pp.dry_run) \cup Pair("fieldManager", pp.field_manager)

PostValid(pp) == pp.field_manager \cap TooLong = {}

Patch == {"Apply", "Json", "Merge", "Strategic"}

ContentType(patch) ==
    CASE patch = "Apply" -> "application/apply-patch+yaml"
      [] patch = "Json" -> "application/json-patch+json"
      [] patch = "Merge" -> "application/merge-patch+json"
      [] patch = "Strategic" -> "application/strategic-merge-patch+json"

ValidationDirective == {"Strict", "Warn", "Ignore"}

PatchParams == [dry_run |-> FALSE, force |-> FALSE, field_manager |-> None, field_validation |-> None]

PatchApply(manager) == [PatchParams EXCEPT !.field_manager = Some(manager)]

PatchBuilder(pp) ==
    {[pp EXCEPT !.force = TRUE], [pp EXCEPT !.dry_run = TRUE]}
    \cup {[pp EXCEPT !.field_validation = Some(d)] : d \in ValidationDirective}

PatchValid(pp, patch) ==
    /\ pp.field_manager \cap TooLong = {}
    /\ pp.force => patch = "Apply"

PatchQuery_NoDryRun(pp) ==
    Flag("force", pp.force)
    \cup Pair("fieldManager", pp.field_manager) \cup Pair("fieldValidation", pp.field_validation)

PatchQuery(pp) ==
    DryRunQuery(pp.dry_run) \cup Flag("force", pp.force)
    \cup Pair("fieldManager", pp.field_manager) \cup Pair("fieldValidation", pp.field_validation)

PropagationPolicy == {"Orphan", "Background", "Foreground"}

\* The uid, or the version, of the object that is meant
Preconditions == {[uid |-> Some(u), resource_version |-> None] : u \in 1..2}
                 \cup {[uid |-> None, resource_version |-> Some(v)] : v \in 1..2}

DeleteParams == [dry_run |-> FALSE, grace_period_seconds |-> None,
                 propagation_policy |-> None, preconditions |-> None]

DeletePolicy(policy) == [DeleteParams EXCEPT !.propagation_policy = Some(policy)]

DeleteBuilder(dp) ==
    {[dp EXCEPT !.dry_run = TRUE], [dp EXCEPT !.grace_period_seconds = Some(0)]}
    \cup {[dp EXCEPT !.preconditions = Some(p)] : p \in Preconditions}

DeleteIsDefault_NoPreconditions(dp) ==
    ~dp.dry_run /\ dp.grace_period_seconds = None /\ dp.propagation_policy = None

DeleteIsDefault(dp) == dp = DeleteParams

\* Serialize for DeleteParams: dryRun is a list in a body, absent fields are left out.
DeleteBody(dp) ==
    [dryRun |-> IF dp.dry_run THEN <<"All">> ELSE << >>,
     gracePeriodSeconds |-> dp.grace_period_seconds,
     propagationPolicy |-> dp.propagation_policy, preconditions |-> dp.preconditions]

-----------------------------------------------------------------------------
(* Request: the resource itself                                            *)

list(url, lp) == Checked(ListValid(lp), Http("GET", url, None, None, ListQuery(lp)))

watch(url, wp, version) ==
    Checked(WatchValid(wp), Http("GET", url, None, None,
                                 WatchQuery(wp) \cup {<<"resourceVersion", version>>}))

get(url, name, gp) ==
    Http("GET", url, Some(name), None, Pair("resourceVersion", gp.resource_version))

create(url, pp, data) ==
    Checked(PostValid(pp), With(Http("POST", url, None, None, PostQuery(pp)), Json, data))

delete(url, name, dp) == With(Http("DELETE", url, Some(name), None, {}), Json, DeleteBody(dp))

delete_collection(url, dp, lp) ==
    LET query == Pair("fieldSelector", lp.field_selector) \cup Pair("labelSelector", lp.label_selector)
        request == With(Http("DELETE", url, None, None, query), Json, DeleteBody(dp))
    IN  IF DeleteIsDefault(dp) THEN [request EXCEPT !.body = None] ELSE request

Patching(url, name, sub, pp, patch, data) ==
    Checked(PatchValid(pp, patch),
            With(Http("PATCH", url, Some(name), sub, PatchQuery(pp)), ContentType(patch), data))

patch(url, name, pp, kind, data) == Patching(url, name, None, pp, kind, data)

replace(url, name, pp, data) == With(Http("PUT", url, Some(name), None, PostQuery(pp)), Json, data)

get_metadata(url, name, gp) == Accepting(get(url, name, gp), PartialMetadata)
list_metadata(url, lp) == Accepting(list(url, lp), PartialMetadataList)
watch_metadata(url, wp, version) == Accepting(watch(url, wp, version), PartialMetadata)
patch_metadata(url, name, pp, kind, data) == Accepting(patch(url, name, pp, kind, data), PartialMetadata)

\* util.rs
restart(url, name) == patch(url, name, PatchParams, "Merge", [restartedAt |-> "now"])
cordon(url, name, value) == patch(url, name, PatchParams, "Strategic", [unschedulable |-> value])

-----------------------------------------------------------------------------
(* Request: subresources                                                   *)

get_subresource(url, sub, name) == Http("GET", url, Some(name), Some(sub), {})

create_subresource(url, sub, name, pp, data) ==
    With(Http("POST", url, Some(name), Some(sub), PostQuery(pp)), Json, data)

patch_subresource(url, sub, name, pp, kind, data) ==
    Patching(url, name, Some(sub), pp, kind, data)

replace_subresource(url, sub, name, pp, data) ==
    With(Http("PUT", url, Some(name), Some(sub), PostQuery(pp)), Json, data)

LogParams == [container |-> None, follow |-> FALSE, limit_bytes |-> None, pretty |-> FALSE,
              previous |-> FALSE, since_seconds |-> None, tail_lines |-> None, timestamps |-> FALSE]

logs(url, name, lp) ==
    Http("GET", url, Some(name), Some("log"),
         Pair("container", lp.container) \cup Flag("follow", lp.follow)
         \cup Pair("limitBytes", lp.limit_bytes) \cup Flag("pretty", lp.pretty)
         \cup Flag("previous", lp.previous) \cup Pair("sinceSeconds", lp.since_seconds)
         \cup Pair("tailLines", lp.tail_lines) \cup Flag("timestamps", lp.timestamps))

EvictParams == [delete_options |-> None, post_options |-> PostParams]

\* The key of the options in the body is delete_options; the server knows deleteOptions.
evict(url, name, ep) ==
    Checked(PostValid(ep.post_options),
            With(Http("POST", url, Some(name), Some("eviction"), PostQuery(ep.post_options)), Json,
                 [delete_options |-> {DeleteBody(dp) : dp \in ep.delete_options}, name |-> name]))

AttachParams == [container |-> None, stdin |-> FALSE, stdout |-> TRUE, stderr |-> TRUE, tty |-> FALSE]

interactive_tty == [AttachParams EXCEPT !.stdin = TRUE, !.stderr = FALSE, !.tty = TRUE]

AttachBuilder(ap) ==
    {[ap EXCEPT !.container = Some("box")]}
    \cup UNION {{[ap EXCEPT !.stdin = b], [ap EXCEPT !.stdout = b],
                 [ap EXCEPT !.stderr = b], [ap EXCEPT !.tty = b]} : b \in BOOLEAN}

AttachValid(ap) == /\ ap.stdin \/ ap.stdout \/ ap.stderr
                   /\ ~(ap.stderr /\ ap.tty)

AttachQuery(ap) ==
    Flag("stdin", ap.stdin) \cup Flag("stdout", ap.stdout) \cup Flag("stderr", ap.stderr)
    \cup Flag("tty", ap.tty) \cup Pair("container", ap.container)

attach(url, name, ap) ==
    Checked(AttachValid(ap), Http("GET", url, Some(name), Some("attach"), AttachQuery(ap)))

exec(url, name, command, ap) ==
    Checked(AttachValid(ap), Http("GET", url, Some(name), Some("exec"),
                                  AttachQuery(ap) \cup {<<"command", command>>}))

PortsValid(ports) == /\ Len(ports) \in 1..128
                     /\ Cardinality({ports[i] : i \in 1..Len(ports)}) = Len(ports)

portforward(url, name, ports) ==
    Checked(PortsValid(ports), Http("GET", url, Some(name), Some("portforward"), {<<"ports", ports>>}))
=============================================================================
