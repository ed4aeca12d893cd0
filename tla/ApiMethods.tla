----------------------------- MODULE ApiMethods -----------------------------
(***************************************************************************)
(* kube-client: the methods of Api<K> (api/core_methods.rs,                *)
(* api/subresource.rs, api/util/mod.rs) and the decoders of Client         *)
(* (client/mod.rs) that they end in.  A caller makes one call after the    *)
(* other; each is a request built by kube-core, an answer, and a decoder   *)
(* that turns it into a Result.  Others create and delete objects in       *)
(* between, the request or the answer may be lost, and a proxy may answer  *)
(* in place of the server.                                                 *)
(*                                                                         *)
(* All objects have one name; a namespace holds at most one of them.  The  *)
(* server (external) reads a request and nothing else.                     *)
(***************************************************************************)
EXTENDS Naturals, Sequences, FiniteSets, TLC

CONSTANTS Namespace,
          Manager, TooLong,      \* field managers; those whose names are too long
          Absent,                \* no object
          ProxyStatus,           \* the failures that a proxy reports
          MaxVersion             \* bound on the writes of the server

ASSUME ApiMethodsAssumption ==
    /\ Namespace # {} /\ TooLong \subseteq Manager /\ MaxVersion \in Nat
    /\ ProxyStatus \subseteq 400..599

Request == INSTANCE Requests

VARIABLES objects,    \* the server's object in each namespace
          version,    \* the server's last resource version
          stage,      \* of the call: idle, sent, answered, returned
          call,       \* the call: its method, request, decoder, and what the caller asked for
          response,   \* the answer on its way
          outcome     \* the Result of the call

server == <<objects, version>>
vars == <<objects, version, stage, call, response, outcome>>

None == Request!None
Some(v) == Request!Some(v)

Name == "x"
Mark == {"l", "f"}     \* the labels and the fields that selectors select
NoCall == [method |-> "none"]
Refused(reason) == [result |-> "Err", reason |-> reason]
Returned(body, v) == [result |-> "Ok", body |-> body, version |-> v]

Init ==
    /\ objects = [n \in Namespace |-> Absent]
    /\ version = 0
    /\ stage = "idle"
    /\ call = NoCall
    /\ response = Refused("none")
    /\ outcome = Refused("none")

-----------------------------------------------------------------------------
(* The methods of Api.  A call records what its parameters ask for.        *)

\* Api::all, Api::namespaced and their variants for dynamic types
Api == {Request!url_path(None)} \cup {Request!url_path(Some(n)) : n \in Namespace}

Anything == [dry_run |-> FALSE, selectors |-> {}, preconditions |-> None,
             at |-> None, match |-> None, paged |-> FALSE, unheeded |-> {}]

Call(method, request, returns, wants) ==
    {[method |-> method, request |-> request, returns |-> returns, wants |-> wants]}

WantsVersion(gp) == [Anything EXCEPT !.at = gp.resource_version]
WantsList(lp) == [Anything EXCEPT !.at = lp.resource_version, !.match = lp.version_match,
                                  !.selectors = lp.label_selector \cup lp.field_selector,
                                  !.paged = lp.continue_token # None]
WantsWrite(pp) == [Anything EXCEPT !.dry_run = pp.dry_run]
WantsDelete(dp, lp) == [WantsList(lp) EXCEPT !.dry_run = dp.dry_run, !.preconditions = dp.preconditions]

get_with(api, gp) == Call("get_with", Request!get(api, Name, gp), "K", WantsVersion(gp))

get_metadata_with(api, gp) ==
    Call("get_metadata_with", Request!get_metadata(api, Name, gp), "Partial", WantsVersion(gp))

DefaultGet == [resource_version |-> None]
get_opt(api) == Call("get_opt", Request!get(api, Name, DefaultGet), "K", Anything)
get_metadata_opt(api) ==
    Call("get_metadata_opt", Request!get_metadata(api, Name, DefaultGet), "Partial", Anything)

list(api, lp) == Call("list", Request!list(api, lp), "List", WantsList(lp))
list_metadata(api, lp) == Call("list_metadata", Request!list_metadata(api, lp), "PartialList", WantsList(lp))

create(api, pp, data) == Call("create", Request!create(api, pp, data), "K", WantsWrite(pp))
replace(api, pp, data) == Call("replace", Request!replace(api, Name, pp, data), "K", WantsWrite(pp))

delete(api, dp) ==
    Call("delete", Request!delete(api, Name, dp), "EitherK", WantsDelete(dp, Request!ListParams))

delete_collection(api, dp, lp) ==
    Call("delete_collection", Request!delete_collection(api, dp, lp), "EitherList", WantsDelete(dp, lp))

patch(api, pp, kind, data) ==
    Call("patch", Request!patch(api, Name, pp, kind, data), "K", WantsWrite(pp))
patch_metadata(api, pp, kind, data) ==
    Call("patch_metadata", Request!patch_metadata(api, Name, pp, kind, data), "Partial", WantsWrite(pp))

watch(api, wp, v) == Call("watch", Request!watch(api, wp, v), "Events", Anything)
watch_metadata(api, wp, v) ==
    Call("watch_metadata", Request!watch_metadata(api, wp, v), "Events", Anything)

get_scale(api) == Call("get_scale", Request!get_subresource(api, "scale", Name), "Scale", Anything)
patch_scale(api, pp, kind, data) ==
    Call("patch_scale", Request!patch_subresource(api, "scale", Name, pp, kind, data), "Scale", WantsWrite(pp))
replace_scale(api, pp, data) ==
    Call("replace_scale", Request!replace_subresource(api, "scale", Name, pp, data), "Scale", WantsWrite(pp))

get_subresource(api) ==
    Call("get_subresource", Request!get_subresource(api, "sub", Name), "K", Anything)
create_subresource(api, pp, data) ==
    Call("create_subresource", Request!create_subresource(api, "sub", Name, pp, data), "K", WantsWrite(pp))
patch_subresource(api, pp, kind, data) ==
    Call("patch_subresource", Request!patch_subresource(api, "sub", Name, pp, kind, data), "K", WantsWrite(pp))
replace_subresource(api, pp, data) ==
    Call("replace_subresource", Request!replace_subresource(api, "sub", Name, pp, data), "K", WantsWrite(pp))

get_status(api) == Call("get_status", Request!get_subresource(api, "status", Name), "K", Anything)
patch_status(api, pp, kind, data) ==
    Call("patch_status", Request!patch_subresource(api, "status", Name, pp, kind, data), "K", WantsWrite(pp))
replace_status(api, pp, data) ==
    Call("replace_status", Request!replace_subresource(api, "status", Name, pp, data), "K", WantsWrite(pp))

logs(api, lp) == Call("logs", Request!logs(api, Name, lp), "String", Anything)
log_stream(api, lp) == Call("log_stream", Request!logs(api, Name, lp), "AsyncBufRead", Anything)

\* An eviction takes options in two places.  The server reads those of the post; the
\* delete_options are under a key that it does not know (see Requests), so the
\* preconditions, and a dry run that only they ask for, are `unheeded`.
WantsEvict(ep) ==
    [Anything EXCEPT !.dry_run = ep.post_options.dry_run \/ \E dp \in ep.delete_options : dp.dry_run,
                     !.preconditions = UNION {dp.preconditions : dp \in ep.delete_options},
                     !.unheeded = {"preconditions"} \cup (IF ep.post_options.dry_run THEN {} ELSE {"dry_run"})]
evict(api, ep) == Call("evict", Request!evict(api, Name, ep), "Status", WantsEvict(ep))

attach(api, ap) == Call("attach", Request!attach(api, Name, ap), "WebSocket", Anything)
exec(api, ap) == Call("exec", Request!exec(api, Name, "ls", ap), "WebSocket", Anything)
portforward(api, ports) == Call("portforward", Request!portforward(api, Name, ports), "WebSocket", Anything)

restart(api) == Call("restart", Request!restart(api, Name), "K", Anything)
cordon(api) == Call("cordon", Request!cordon(api, Name, TRUE), "K", Anything)
uncordon(api) == Call("uncordon", Request!cordon(api, Name, FALSE), "K", Anything)
create_token_request(api, pp) ==
    Call("create_token_request", Request!create_subresource(api, "token", Name, pp, [token |-> "t"]),
         "TokenRequest", WantsWrite(pp))

\* Parameters, as their builders make them in up to two calls
Lists == {Request!ListParams} \cup Request!ListBuilder(Request!ListParams)
         \cup UNION {Request!ListBuilder(lp) : lp \in Request!ListBuilder(Request!ListParams)}
Selectors == {[Request!ListParams EXCEPT !.label_selector = l, !.field_selector = f]
              : l \in {None, Some("l")}, f \in {None, Some("f")}}
Watches == {Request!WatchParams} \cup Request!WatchBuilder(Request!WatchParams)
Posts == [dry_run : BOOLEAN, field_manager : {None} \cup {Some(m) : m \in Manager}]
Applies == {Request!PatchParams} \cup {Request!PatchApply(m) : m \in Manager}
Patches == Applies \cup UNION {Request!PatchBuilder(pp) : pp \in Applies}
Policies == {Request!DeleteParams} \cup {Request!DeletePolicy(p) : p \in Request!PropagationPolicy}
Deletes == Policies \cup UNION {Request!DeleteBuilder(dp) : dp \in Policies}
Logs == {Request!LogParams, [Request!LogParams EXCEPT !.follow = TRUE, !.tail_lines = Some(5)]}
Evictions == Policies \cup Request!DeleteBuilder(Request!DeleteParams)
Evicts == [delete_options : {None} \cup {Some(dp) : dp \in Evictions}, post_options : Posts]
Attaches == {Request!interactive_tty, Request!AttachParams} \cup Request!AttachBuilder(Request!AttachParams)
Ports == {<< >>, <<80>>, <<80, 80>>, <<80, 443>>}
Data == [marks : {{}, {"l"}, Mark}]

\* Reads, and the calls whose bodies are no objects
Reads(api) ==
    (UNION {get_with(api, gp) \cup get_metadata_with(api, gp) : gp \in Request!GetParams})
    \cup (UNION {list(api, lp) \cup list_metadata(api, lp) : lp \in Lists})
    \cup (UNION {watch(api, wp, 0) \cup watch_metadata(api, wp, 0) : wp \in Watches})
    \cup (UNION {logs(api, lp) \cup log_stream(api, lp) : lp \in Logs})
    \cup (UNION {attach(api, ap) \cup exec(api, ap) : ap \in Attaches})
    \cup (UNION {portforward(api, ports) : ports \in Ports})
    \cup get_opt(api) \cup get_metadata_opt(api)
    \cup get_scale(api) \cup get_subresource(api) \cup get_status(api)

Writes(api) ==
    (UNION {create(api, pp, d) \cup replace(api, pp, d) : pp \in Posts, d \in Data})
    \cup (UNION {create_subresource(api, pp, d) \cup replace_subresource(api, pp, d)
                \cup replace_scale(api, pp, d) \cup replace_status(api, pp, d)
                \cup create_token_request(api, pp) : pp \in Posts, d \in {[marks |-> {}]}})
    \cup (UNION {patch(api, pp, k, [marks |-> {"l"}]) \cup patch_metadata(api, pp, k, [marks |-> {"l"}])
                : pp \in Patches, k \in Request!Patch})
    \cup (UNION {patch_scale(api, pp, k, [marks |-> {}]) \cup patch_status(api, pp, k, [marks |-> {}])
                \cup patch_subresource(api, pp, k, [marks |-> {}]) : pp \in Patches, k \in {"Merge"}})
    \cup (UNION {delete(api, dp) : dp \in Deletes})
    \cup (UNION {delete_collection(api, dp, lp)
                : dp \in Deletes, lp \in Selectors})
    \cup (UNION {evict(api, ep) : ep \in Evicts})
    \cup restart(api) \cup cordon(api) \cup uncordon(api)

Calls == UNION {Reads(api) \cup Writes(api) : api \in Api}

-----------------------------------------------------------------------------
(* The client                                                              *)

\* A call whose parameters are refused ends at once with Error::BuildRequest.
Send(c) ==
    /\ stage = "idle"
    /\ call' = c
    /\ IF c.request = Request!Invalid
       THEN stage' = "returned" /\ outcome' = Refused("BuildRequest")
       ELSE stage' = "sent" /\ UNCHANGED outcome
    /\ UNCHANGED <<server, response>>

\* The caller is done with the Result.
Finish ==
    /\ stage = "returned"
    /\ stage' = "idle"
    /\ call' = NoCall /\ response' = Refused("none") /\ outcome' = Refused("none")
    /\ UNCHANGED server

\* Client::send fails: the request may have reached the server or not.
Disconnected ==
    /\ stage \in {"sent", "answered"}
    /\ stage' = "returned"
    /\ outcome' = Refused("HyperError")
    /\ UNCHANGED <<server, call, response>>

HasFailed(r) == r.status \in 400..599

\* handle_api_errors: the error is the server's, if it can be parsed.
ApiError(r) == Refused(IF r.body = "ErrorResponse" THEN r.reason ELSE "FailedToParse")

request_text(r) == IF HasFailed(r) THEN ApiError(r) ELSE Returned(r.body, r.version)

\* Whether a body deserializes as a type: metadata is a part of every object.
Parses(body, type) ==
    CASE type = "Partial" -> body \in {"K", "Partial"}
      [] type = "PartialList" -> body \in {"List", "PartialList"}
      [] OTHER -> body = type

request(r, type) ==
    LET text == request_text(r)
    IN  IF text.result = "Ok" /\ ~Parses(text.body, type) THEN Refused("SerdeError") ELSE text

request_status_Object(r, type) == request(r, type)

\* Right(Status) if the kind is Status, Left(T) if not
request_status(r, type) ==
    IF r.body = "Status" THEN request(r, "Status") ELSE request(r, type)

\* The status of the response is not looked at.
request_stream(r) == Returned(r.body, r.version)

\* The first item of the stream.  A body that is empty ends it without an item.
request_events(r) ==
    CASE r.body \in {"Events", "Empty"} -> Returned(r.body, r.version)
      [] r.body = "ErrorResponse" -> Refused(r.reason)
      [] OTHER -> Refused("SerdeError")

connect(r) == IF r.status = 101 THEN Returned(r.body, r.version) ELSE Refused("UpgradeConnection")

Decoded(c, r) ==
    CASE c.returns = "String" -> request_text(r)
      [] c.returns = "AsyncBufRead" -> request_stream(r)
      [] c.returns = "Events" -> request_events(r)
      [] c.returns = "WebSocket" -> connect(r)
      [] c.returns = "EitherK" -> request_status(r, "K")
      [] c.returns = "EitherList" -> request_status(r, "List")
      [] OTHER -> request(r, c.returns)

Optional_AnyApiError(c, result) ==
    IF c.method \in {"get_opt", "get_metadata_opt"}
       /\ result.result = "Err" /\ result.reason # "SerdeError"
    THEN Returned("None", 0) ELSE result

\* get_opt and get_metadata_opt: an object that does not exist is no error.
Optional(c, result) ==
    IF c.method \in {"get_opt", "get_metadata_opt"} /\ result = Refused("NotFound")
    THEN Returned("None", 0) ELSE result

Return ==
    /\ stage = "answered"
    /\ stage' = "returned"
    /\ outcome' = Optional(call, Decoded(call, response))
    /\ UNCHANGED <<server, call, response>>

-----------------------------------------------------------------------------
(* The server and what is in front of it.  External.                       *)

Value(r, key) == {p[2] : p \in {q \in r.query : q[1] = key}}

\* Options of a delete, in the body
DeleteOptions(r) == {b \in r.body : "dryRun" \in DOMAIN b}

IsDryRun(r) == \/ Value(r, "dryRun") # {}
               \/ \E b \in DeleteOptions(r) : b.dryRun # << >>

Fulfils(o, r) ==
    \A b \in DeleteOptions(r) : \A p \in b.preconditions :
      (p.uid # None => o.uid \in p.uid) /\ (p.resource_version # None => o.version \in p.resource_version)

\* The namespaces whose objects the request is about
Targets(r) ==
    {n \in Namespace :
       /\ r.url.namespace # None => n \in r.url.namespace
       /\ r.name # None => r.url.namespace # None
       /\ objects[n] # Absent
       /\ Value(r, "labelSelector") \cup Value(r, "fieldSelector") \subseteq objects[n].marks}

\* What the request would make of the objects, or Absent if the server refuses it
NewObject(marks) == [uid |-> version + 1, version |-> version + 1, marks |-> marks]
Touched(targets) ==
    [n \in Namespace |-> IF n \in targets THEN [objects[n] EXCEPT !.version = version + 1] ELSE objects[n]]
Removed(targets) == [n \in Namespace |-> IF n \in targets THEN Absent ELSE objects[n]]
Created(r) ==
    [n \in Namespace |-> IF n \in r.url.namespace /\ objects[n] = Absent
                         THEN NewObject(UNION {b.marks : b \in r.body}) ELSE objects[n]]

\* The answer may have any of the versions that the query allows.
Versions(r) ==
    LET at == Value(r, "resourceVersion")
    IN  IF Value(r, "continue") # {} \/ at = {0} THEN 0..version
        ELSE IF at = {} THEN {version}
        ELSE IF Value(r, "resourceVersionMatch") = {"Exact"} THEN at \cap (0..version)
        ELSE {v \in 0..version : \A a \in at : a <= v}

Answer(status, body, v, new) ==
    /\ response' = [status |-> status, body |-> body, version |-> v, done |-> TRUE, latest |-> version]
    /\ objects' = IF IsDryRun(call.request) THEN objects ELSE new
    /\ version' = IF objects' = objects THEN version ELSE version + 1

ObjectBody(r) == IF r.accept = Request!PartialMetadata THEN "Partial"
                 ELSE IF r.sub = Some("scale") THEN "Scale"
                 ELSE IF r.sub = Some("token") THEN "TokenRequest" ELSE "K"

AnswerRead(r) ==
    /\ r.verb = "GET" /\ r.sub \subseteq {"scale", "sub", "status"}
    /\ <<"watch", "true">> \notin r.query
    /\ r.name # None => Targets(r) # {}
    /\ \E v \in Versions(r) :
         Answer(200, IF r.name # None THEN ObjectBody(r)
                     ELSE IF r.accept = Request!PartialMetadataList THEN "PartialList" ELSE "List",
                v, objects)

AnswerWatch(r) == /\ <<"watch", "true">> \in r.query
                  /\ Answer(200, "Events", version, objects)

AnswerLog(r) == /\ r.sub = Some("log") /\ Targets(r) # {}
                /\ Answer(200, "String", version, objects)

AnswerUpgrade(r) == /\ \E s \in {"attach", "exec", "portforward"} : r.sub = Some(s)
                    /\ Targets(r) # {}
                    /\ Answer(101, "WebSocket", version, objects)

AnswerCreate(r) == /\ r.verb = "POST" /\ r.name = None /\ r.url.namespace # None
                   /\ Targets(r) = {}
                   /\ Answer(201, "K", version + 1, Created(r))

AnswerSub(r) == /\ r.verb = "POST" /\ \E s \in {"sub", "token"} : r.sub = Some(s)
                /\ Targets(r) # {}
                /\ Answer(201, ObjectBody(r), version, objects)

AnswerEvict(r) == /\ r.sub = Some("eviction") /\ Targets(r) # {}
                  /\ Answer(201, "Status", version, Removed(Targets(r)))

\* Apply needs a field manager, and creates what does not exist.
AnswerPatch(r) ==
    /\ r.verb \in {"PATCH", "PUT"}
    /\ r.content = Some("application/apply-patch+yaml") => Value(r, "fieldManager") # {}
    /\ \/ Targets(r) # {} /\ Answer(200, ObjectBody(r), version + 1, Touched(Targets(r)))
       \/ /\ Targets(r) = {} /\ r.url.namespace # None /\ r.sub = None
          /\ r.content = Some("application/apply-patch+yaml")
          /\ Answer(201, ObjectBody(r), version + 1, Created(r))

\* An object that is deleted is gone, or on its way (finalizers, grace period).
AnswerDelete(r) ==
    LET fulfilling == {n \in Targets(r) : Fulfils(objects[n], r)}
    IN  /\ r.verb = "DELETE"
        /\ r.name # None => fulfilling # {}
        /\ \/ Answer(200, "Status", version, Removed(fulfilling))
           \/ Answer(200, IF r.name # None THEN "K" ELSE "List", version, Touched(fulfilling))

Served(r) == \/ AnswerRead(r) \/ AnswerWatch(r) \/ AnswerLog(r) \/ AnswerUpgrade(r)
             \/ AnswerCreate(r) \/ AnswerSub(r) \/ AnswerEvict(r) \/ AnswerPatch(r) \/ AnswerDelete(r)

\* Refusals of the server: NotFound if there is no such object, or for any other reason
Deny(r) ==
    /\ \E e \in {[status |-> 404, reason |-> "NotFound"], [status |-> 409, reason |-> "Conflict"],
                 [status |-> 410, reason |-> "Expired"]} :
         /\ e.reason = "NotFound" => Targets(r) = {}
         /\ response' = [status |-> e.status, body |-> "ErrorResponse", reason |-> e.reason,
                         version |-> 0, done |-> FALSE, latest |-> version]
    /\ UNCHANGED server

\* A proxy on the way answers: an error whose body is no ErrorResponse
Intercept ==
    /\ \E status \in ProxyStatus, body \in {"Html", "Empty"} :
         response' = [status |-> status, body |-> body, version |-> 0, done |-> FALSE, latest |-> version]
    /\ UNCHANGED server

Handle ==
    /\ stage = "sent"
    /\ version <= MaxVersion
    /\ Served(call.request) \/ Deny(call.request) \/ Intercept
    /\ stage' = "answered"
    /\ UNCHANGED <<call, outcome>>

Others ==
    /\ version < MaxVersion
    /\ version' = version + 1
    /\ \E n \in Namespace :
         \/ objects[n] = Absent /\ \E d \in Data : objects' = [objects EXCEPT ![n] = NewObject(d.marks)]
         \/ objects[n] # Absent /\ objects' = [objects EXCEPT ![n] = Absent]
    /\ UNCHANGED <<stage, call, response, outcome>>

Next == (\E c \in Calls : Send(c)) \/ Finish \/ Handle \/ Return \/ Disconnected \/ Others

Spec == Init /\ [][Next]_vars

\* Namespaces are interchangeable.
NamespaceSymmetry == Permutations(Namespace)

-----------------------------------------------------------------------------
Handled == stage = "sent" /\ stage' = "answered"

\* A call made as a dry run changes nothing on the server, whichever method makes it: its
\* parameters go to the query (create, replace, patch, post_options of evict) or to the body
\* (delete, delete_collection: "dryRun serialization differ when used as body parameters
\* and query strings").  One dry run is not one: that of the delete_options of evict alone.
DryRunLeavesNoTrace ==
    [][Handled /\ call.wants.dry_run => UNCHANGED objects \/ "dry_run" \in call.wants.unheeded]_vars

\* The object in n is one that the call is meant for.
Meant(n) ==
    /\ call.request.url.namespace # None => n \in call.request.url.namespace
    /\ objects[n] # Absent =>
         /\ call.wants.selectors \subseteq objects[n].marks
         /\ \/ "preconditions" \in call.wants.unheeded
            \/ \A p \in call.wants.preconditions :
                 (p.uid # None => objects[n].uid \in p.uid)
                 /\ (p.resource_version # None => objects[n].version \in p.resource_version)

\* A call changes only the objects it is meant for: of the namespace of its Api, with the
\* labels and fields its selectors ask for, and of the uid and version its preconditions
\* name, even if another object has taken the place of the one the caller saw.  The
\* preconditions of an eviction, which it has in its delete_options, do not protect.
WritesOnlyWhatIsMeant ==
    [][Handled => \A n \in Namespace : objects'[n] # objects[n] => Meant(n)]_vars

\* Ok means that the server did what was asked, and None of get_opt that the object was
\* not there: no failing status, of the server or of a proxy, and no broken connection is
\* taken for a success.  log_stream and watch are left out: they do not look at the status,
\* and Ok is the start of a stream that may hold the text of an error.
SuccessIsTrue ==
    stage = "returned" /\ outcome.result = "Ok" /\ call.returns \notin {"AsyncBufRead", "Events"} =>
      IF outcome.body = "None" THEN response.status = 404 /\ response.body = "ErrorResponse"
      ELSE response.done

\* What the server did and answered is understood: the decoder of each method accepts
\* every type of answer that the request (its Accept header, its verb) can have.
AnswersAreUnderstood ==
    stage = "returned" /\ "done" \in DOMAIN response /\ response.done
      => outcome.result = "Ok" \/ outcome.reason = "HyperError"

\* What a call returns is what happened, both ways.
OutcomeIsTrue == SuccessIsTrue /\ AnswersAreUnderstood

\* Reads are as fresh as asked for: the latest version by default, not older than `at`,
\* exactly that version for VersionMatch::Exact.
ReadsAreFresh ==
    stage = "returned" /\ outcome.result = "Ok" /\ call.request.verb = "GET"
      /\ call.returns \notin {"AsyncBufRead", "Events"} /\ outcome.body # "None" /\ ~call.wants.paged =>
        /\ call.wants.at = None => outcome.version = response.latest
        /\ \A v \in call.wants.at : outcome.version >= v
        /\ call.wants.match = Some("Exact") => outcome.version \in call.wants.at
=============================================================================
