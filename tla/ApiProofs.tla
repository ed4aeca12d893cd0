------------------------------ MODULE ApiProofs -----------------------------
(***************************************************************************)
(* The methods of Api, proved for every set of namespaces and of field     *)
(* managers and every number of writes: what a call asks for reaches the   *)
(* server in its request, and what it returns is what happened.  At the    *)
(* end, the order of versions that discovery sorts by (module Versions).   *)
(***************************************************************************)
EXTENDS ApiMethods, Versions, TLAPS

-----------------------------------------------------------------------------
(* The query: a value is found under its key and under no other.           *)

Values(query, key) == {p[2] : p \in {q \in query : q[1] = key}}

\* The values of a key are those it is paired with.
LEMMA ValuesAre ==
  ASSUME NEW query, NEW key, NEW S,
         \A q \in query : q[1] = key => q[2] \in S,
         \A v \in S : <<key, v>> \in query
  PROVE  Values(query, key) = S
<1>1. \A v : <<key, v>>[1] = key /\ <<key, v>>[2] = v
  OBVIOUS
<1> QED
  BY <1>1 DEF Values

\* A key that is not in the query has none.
LEMMA NoValues ==
  ASSUME NEW query, NEW key, \A q \in query : q[1] # key PROVE Values(query, key) = {}
BY DEF Values

\* A key that has no value is not in the query.
LEMMA NotInQuery ==
  ASSUME NEW query, NEW key, NEW v, Values(query, key) = {} PROVE <<key, v>> \notin query
<1> SUFFICES ASSUME <<key, v>> \in query PROVE FALSE
  OBVIOUS
<1>1. <<key, v>>[1] = key /\ <<key, v>>[2] = v
  OBVIOUS
<1>2. v \in Values(query, key)
  BY <1>1 DEF Values
<1> QED
  BY <1>2

\* The pairs of an optional parameter
LEMMA PairMember ==
  ASSUME NEW key, NEW option
  PROVE  /\ \A q \in Request!Pair(key, option) : q[1] = key /\ q[2] \in option
         /\ \A v \in option : <<key, v>> \in Request!Pair(key, option)
<1>1. \A v : <<key, v>>[1] = key /\ <<key, v>>[2] = v
  OBVIOUS
<1> QED
  BY <1>1 DEF Request!Pair

\* The pairs of a flag and of a dry run
LEMMA FlagMember ==
  ASSUME NEW key, NEW set
  PROVE  /\ \A q \in Request!Flag(key, set) : q[1] = key
         /\ \A q \in Request!DryRunQuery(set) : q[1] = "dryRun"
         /\ set => <<"dryRun", "All">> \in Request!DryRunQuery(set)
BY PairMember DEF Request!Flag, Request!DryRunQuery

\* What the query of a list says
LEMMA ListValues ==
  ASSUME NEW lp
  PROVE  LET Q == Request!ListQuery(lp)
         IN  /\ Values(Q, "fieldSelector") = lp.field_selector /\ Values(Q, "labelSelector") = lp.label_selector
             /\ Values(Q, "resourceVersion") = lp.resource_version /\ Values(Q, "continue") = lp.continue_token
             /\ Values(Q, "resourceVersionMatch") = lp.version_match /\ Values(Q, "watch") = {}
<1> DEFINE Q == Request!ListQuery(lp)
<1>1. ASSUME NEW q \in Q
      PROVE  \/ q[1] = "fieldSelector" /\ q[2] \in lp.field_selector
             \/ q[1] = "labelSelector" /\ q[2] \in lp.label_selector
             \/ q[1] = "limit"
             \/ q[1] = "continue" /\ q[2] \in lp.continue_token
             \/ q[1] = "resourceVersion" /\ q[2] \in lp.resource_version
             \/ q[1] = "resourceVersionMatch" /\ q[2] \in lp.version_match
  BY <1>1, PairMember DEF Request!ListQuery
<1>2. /\ \A v \in lp.field_selector : <<"fieldSelector", v>> \in Q
      /\ \A v \in lp.label_selector : <<"labelSelector", v>> \in Q
      /\ \A v \in lp.continue_token : <<"continue", v>> \in Q
      /\ \A v \in lp.resource_version : <<"resourceVersion", v>> \in Q
      /\ \A v \in lp.version_match : <<"resourceVersionMatch", v>> \in Q
  BY PairMember DEF Request!ListQuery
<1> HIDE DEF Q
<1>3. Values(Q, "fieldSelector") = lp.field_selector
  BY <1>1, <1>2, ValuesAre
<1>4. Values(Q, "labelSelector") = lp.label_selector
  BY <1>1, <1>2, ValuesAre
<1>5. Values(Q, "resourceVersion") = lp.resource_version
  BY <1>1, <1>2, ValuesAre
<1>6. Values(Q, "continue") = lp.continue_token
  BY <1>1, <1>2, ValuesAre
<1>7. Values(Q, "resourceVersionMatch") = lp.version_match
  BY <1>1, <1>2, ValuesAre
<1>8. Values(Q, "watch") = {}
  BY <1>1, NoValues
<1> QED
  BY <1>3, <1>4, <1>5, <1>6, <1>7, <1>8 DEF Q

\* The selectors are all that the query of a delete_collection says.
LEMMA SelectorValues ==
  ASSUME NEW lp
  PROVE  LET Q == Request!Pair("fieldSelector", lp.field_selector)
                  \cup Request!Pair("labelSelector", lp.label_selector)
         IN  /\ Values(Q, "fieldSelector") = lp.field_selector /\ Values(Q, "labelSelector") = lp.label_selector
             /\ Values(Q, "watch") = {}
<1> DEFINE Q == Request!Pair("fieldSelector", lp.field_selector)
                \cup Request!Pair("labelSelector", lp.label_selector)
<1>1. ASSUME NEW q \in Q
      PROVE  \/ q[1] = "fieldSelector" /\ q[2] \in lp.field_selector
             \/ q[1] = "labelSelector" /\ q[2] \in lp.label_selector
  BY <1>1, PairMember
<1>2. /\ \A v \in lp.field_selector : <<"fieldSelector", v>> \in Q
      /\ \A v \in lp.label_selector : <<"labelSelector", v>> \in Q
  BY PairMember
<1> HIDE DEF Q
<1>3. Values(Q, "fieldSelector") = lp.field_selector
  BY <1>1, <1>2, ValuesAre
<1>4. Values(Q, "labelSelector") = lp.label_selector
  BY <1>1, <1>2, ValuesAre
<1>5. Values(Q, "watch") = {}
  BY <1>1, NoValues
<1> QED
  BY <1>3, <1>4, <1>5 DEF Q

\* What the query of a get says
LEMMA GetValues ==
  ASSUME NEW option
  PROVE  LET Q == Request!Pair("resourceVersion", option)
         IN  /\ Values(Q, "resourceVersion") = option /\ Values(Q, "continue") = {}
             /\ Values(Q, "resourceVersionMatch") = {} /\ Values(Q, "watch") = {}
<1> DEFINE Q == Request!Pair("resourceVersion", option)
<1>1. \A q \in Q : q[1] = "resourceVersion" /\ q[2] \in option
  BY PairMember
<1>2. \A v \in option : <<"resourceVersion", v>> \in Q
  BY PairMember
<1> HIDE DEF Q
<1>3. Values(Q, "resourceVersion") = option
  BY <1>1, <1>2, ValuesAre
<1>4. \A key \in {"continue", "resourceVersionMatch", "watch"} : Values(Q, key) = {}
  BY <1>1, NoValues
<1> QED
  BY <1>3, <1>4 DEF Q

\* A dry run is asked for in the query of a write.
LEMMA WriteValues ==
  ASSUME NEW pp
  PROVE  /\ pp.dry_run => Values(Request!PostQuery(pp), "dryRun") # {}
         /\ Values(Request!PostQuery(pp), "watch") = {}
         /\ pp.dry_run => Values(Request!PatchQuery(pp), "dryRun") # {}
         /\ Values(Request!PatchQuery(pp), "watch") = {}
<1>1. /\ \A q \in Request!PostQuery(pp) : q[1] # "watch"
      /\ \A q \in Request!PatchQuery(pp) : q[1] # "watch"
  BY PairMember, FlagMember DEF Request!PostQuery, Request!PatchQuery
<1>2. pp.dry_run => /\ <<"dryRun", "All">> \in Request!PostQuery(pp)
                    /\ <<"dryRun", "All">> \in Request!PatchQuery(pp)
  BY FlagMember DEF Request!PostQuery, Request!PatchQuery
<1> QED
  BY <1>1, <1>2, NoValues, NotInQuery

ReadKeys == {"resourceVersion", "resourceVersionMatch", "continue", "watch"}

\* Logs are not read at a version.
LEMMA LogValues ==
  ASSUME NEW url, NEW name, NEW lp, NEW key \in ReadKeys
  PROVE  Values(Request!logs(url, name, lp).query, key) = {}
<1>1. \A q \in Request!logs(url, name, lp).query : q[1] # key
  BY PairMember, FlagMember DEF Request!logs, Request!Http, ReadKeys
<1> QED
  BY <1>1, NoValues

\* Nor are the streams of a pod.
LEMMA AttachValues ==
  ASSUME NEW ap, NEW command, NEW ports, NEW key \in ReadKeys
  PROVE  /\ Values(Request!AttachQuery(ap), key) = {}
         /\ Values(Request!AttachQuery(ap) \cup {<<"command", command>>}, key) = {}
         /\ Values({<<"ports", ports>>}, key) = {}
<1>1. \A q \in Request!AttachQuery(ap) : q[1] # key
  BY PairMember, FlagMember DEF Request!AttachQuery, ReadKeys
<1>2. <<"command", command>>[1] # key /\ <<"ports", ports>>[1] # key
  BY DEF ReadKeys
<1> QED
  BY <1>1, <1>2, NoValues

-----------------------------------------------------------------------------
(* What a call wants is in its request, and the decoder fits the answers.  *)

\* The options that restrict or undo what the server does
Carries(c) ==
    /\ c.wants.dry_run => IsDryRun(c.request) \/ "dry_run" \in c.wants.unheeded
    /\ c.wants.selectors \subseteq Value(c.request, "labelSelector") \cup Value(c.request, "fieldSelector")
    /\ \/ "preconditions" \in c.wants.unheeded
       \/ \A p \in c.wants.preconditions :
            c.request.verb = "DELETE" /\ \E b \in DeleteOptions(c.request) : p \in b.preconditions

\* The version that is read
Versioned(c) ==
    c.request.verb = "GET" /\ c.returns # "Events" =>
      /\ c.wants.at = Value(c.request, "resourceVersion")
      /\ c.wants.match = Value(c.request, "resourceVersionMatch")
      /\ ~c.wants.paged => Value(c.request, "continue") = {}
      /\ c.wants.at = {} \/ \E v \in Nat : c.wants.at = {v}
      /\ c.wants.match = {"Exact"} => c.wants.at # {} /\ c.wants.at # {0}

\* What the server answers a request with, by the verb and the name
Fits(c) ==
    LET r == c.request
        watches == <<"watch", "true">> \in r.query
    IN  \/ watches /\ r.verb = "GET" /\ r.sub = None /\ c.returns = "Events"
        \/ /\ ~watches
           /\ \/ /\ r.verb = "GET" /\ r.sub = Some("log") /\ c.returns \in {"String", "AsyncBufRead"}
                 /\ c.wants.at = {} /\ c.wants.match = {}
              \/ /\ r.verb = "GET" /\ c.returns = "WebSocket" /\ c.wants.at = {} /\ c.wants.match = {}
                 /\ \E s \in {"attach", "exec", "portforward"} : r.sub = Some(s)
              \/ /\ r.verb = "GET" /\ r.name = None /\ r.sub = None
                 /\ c.returns = IF r.accept = Request!PartialMetadataList THEN "PartialList" ELSE "List"
              \/ /\ r.verb \in {"GET", "PATCH", "PUT"} /\ r.name # None /\ c.returns = ObjectBody(r)
                 /\ r.sub = None \/ \E s \in {"scale", "sub", "status"} : r.sub = Some(s)
              \/ /\ r.verb = "POST" /\ r.name # None /\ c.returns = ObjectBody(r)
                 /\ \E s \in {"sub", "token"} : r.sub = Some(s)
              \/ r.verb = "POST" /\ r.name = None /\ r.sub = None /\ c.returns = "K"
              \/ r.verb = "POST" /\ r.name # None /\ r.sub = Some("eviction") /\ c.returns = "Status"
              \/ /\ r.verb = "DELETE" /\ r.sub = None
                 /\ c.returns = IF r.name # None THEN "EitherK" ELSE "EitherList"

Sound(c) == Carries(c) /\ Versioned(c) /\ Fits(c)

\* What the parameters make a call want
LEMMA WantsFields ==
  /\ ~Anything.dry_run /\ Anything.selectors = {} /\ Anything.preconditions = {}
  /\ Anything.at = {} /\ Anything.match = {}
  /\ \A gp : /\ ~WantsVersion(gp).dry_run /\ WantsVersion(gp).selectors = {}
             /\ WantsVersion(gp).preconditions = {}
             /\ WantsVersion(gp).at = gp.resource_version /\ WantsVersion(gp).match = {}
  /\ \A lp : /\ ~WantsList(lp).dry_run /\ WantsList(lp).preconditions = {}
             /\ WantsList(lp).selectors = lp.label_selector \cup lp.field_selector
             /\ WantsList(lp).at = lp.resource_version /\ WantsList(lp).match = lp.version_match
             /\ ~WantsList(lp).paged => lp.continue_token = {}
  /\ \A pp : /\ WantsWrite(pp).dry_run = pp.dry_run /\ WantsWrite(pp).selectors = {}
             /\ WantsWrite(pp).preconditions = {}
BY DEF Anything, WantsVersion, WantsList, WantsWrite, None, Request!None

\* The values of a request are those of its query.
LEMMA ValueIs == ASSUME NEW r, NEW key PROVE Value(r, key) = Values(r.query, key)
BY DEF Value, Values

\* A call that wants nothing but a version to read
LEMMA ReadSound ==
  ASSUME NEW c, c.request.verb = "GET", Fits(c), ~c.wants.dry_run, c.wants.selectors = {},
         c.wants.preconditions = {}, c.wants.match = {},
         Values(c.request.query, "resourceVersion") = c.wants.at,
         \A key \in {"resourceVersionMatch", "continue"} : Values(c.request.query, key) = {},
         c.wants.at = {} \/ \E v \in Nat : c.wants.at = {v}
  PROVE  Sound(c)
<1>1. Carries(c)
  BY DEF Carries
<1>2. /\ Value(c.request, "resourceVersion") = c.wants.at /\ Value(c.request, "resourceVersionMatch") = {}
      /\ Value(c.request, "continue") = {}
  BY ValueIs
<1>3. Versioned(c)
  BY <1>2 DEF Versioned
<1> QED
  BY <1>1, <1>3 DEF Sound

\* A call that wants nothing but a dry run or the real thing
LEMMA WriteSound ==
  ASSUME NEW c, NEW pp, c.wants = WantsWrite(pp) \/ c.wants = Anything, c.request.verb # "GET", Fits(c),
         pp.dry_run => Values(c.request.query, "dryRun") # {}
  PROVE  Sound(c)
<1>1. /\ c.wants.dry_run => pp.dry_run
      /\ c.wants.selectors = {} /\ c.wants.preconditions = {}
  BY WantsFields
<1>2. c.wants.dry_run => IsDryRun(c.request)
  BY <1>1, ValueIs DEF IsDryRun
<1>3. Carries(c)
  BY <1>1, <1>2 DEF Carries
<1>4. Versioned(c)
  BY DEF Versioned
<1> QED
  BY <1>3, <1>4 DEF Sound

-----------------------------------------------------------------------------
(* The methods that read                                                   *)

\* The parts of a request for an object
LEMMA GetRequest ==
  ASSUME NEW api, NEW gp
  PROVE  LET r == Request!get(api, Name, gp)
             m == Request!get_metadata(api, Name, gp)
         IN  /\ r.verb = "GET" /\ r.name # None /\ r.sub = None /\ r.accept = Request!Json
             /\ r.query = Request!Pair("resourceVersion", gp.resource_version)
             /\ m.verb = "GET" /\ m.name # None /\ m.sub = None /\ m.accept = Request!PartialMetadata
             /\ m.query = Request!Pair("resourceVersion", gp.resource_version)
BY DEF Request!get, Request!get_metadata, Request!Accepting, Request!Invalid, Request!Http,
       Request!Some, Request!None, None

\* Objects: get_with, get_metadata_with and their variants that return an Option
LEMMA GetSound ==
  ASSUME NEW api, NEW gp, gp.resource_version = {} \/ \E v \in Nat : gp.resource_version = {v}, NEW c,
         \/ c.request = Request!get(api, Name, gp) /\ c.returns = "K"
         \/ c.request = Request!get_metadata(api, Name, gp) /\ c.returns = "Partial",
         \/ c.wants = WantsVersion(gp)
         \/ c.wants = Anything /\ gp.resource_version = {}
  PROVE  Sound(c)
<1> DEFINE Q == Request!Pair("resourceVersion", gp.resource_version)
<1>1. /\ c.request.verb = "GET" /\ c.request.name # None /\ c.request.sub = None /\ c.request.query = Q
      /\ \/ c.request.accept = Request!Json /\ c.returns = "K"
         \/ c.request.accept = Request!PartialMetadata /\ c.returns = "Partial"
  BY GetRequest
<1>2. /\ Values(Q, "resourceVersion") = gp.resource_version /\ Values(Q, "continue") = {}
      /\ Values(Q, "resourceVersionMatch") = {} /\ Values(Q, "watch") = {}
  BY GetValues
<1>3. <<"watch", "true">> \notin c.request.query
  BY <1>1, <1>2, NotInQuery
<1>4. c.returns = ObjectBody(c.request)
  BY <1>1 DEF ObjectBody, Request!Json, Request!PartialMetadata, None, Request!None, Some, Request!Some
<1>5. Fits(c)
  BY <1>1, <1>3, <1>4 DEF Fits
<1>6. /\ ~c.wants.dry_run /\ c.wants.selectors = {} /\ c.wants.preconditions = {} /\ c.wants.match = {}
      /\ c.wants.at = gp.resource_version
  BY WantsFields
<1> HIDE DEF Q
<1> QED
  BY <1>1, <1>2, <1>5, <1>6, ReadSound

\* Subresources that are objects: get_scale, get_subresource, get_status
LEMMA GetSubSound ==
  ASSUME NEW api, NEW s \in {"scale", "sub", "status"}, NEW c,
         c.request = Request!get_subresource(api, s, Name), c.wants = Anything,
         c.returns = IF s = "scale" THEN "Scale" ELSE "K"
  PROVE  Sound(c)
<1>1. /\ c.request.verb = "GET" /\ c.request.name # None /\ c.request.sub = Some(s) /\ c.request.query = {}
      /\ c.request.accept = Request!Json
  BY DEF Request!get_subresource, Request!Http, Some, Request!Some, None, Request!None
<1>2. \A key : Values({}, key) = {}
  BY NoValues
<1>3. c.returns = ObjectBody(c.request)
  BY <1>1 DEF ObjectBody, Request!Json, Request!PartialMetadata, None, Request!None, Some, Request!Some
<1>4. Fits(c)
  BY <1>1, <1>3 DEF Fits
<1>5. /\ ~c.wants.dry_run /\ c.wants.selectors = {} /\ c.wants.preconditions = {} /\ c.wants.match = {}
      /\ c.wants.at = {}
  BY WantsFields
<1> QED
  BY <1>1, <1>2, <1>4, <1>5, ReadSound

\* Logs and the streams of a pod
LEMMA PodSound ==
  ASSUME NEW c, c.wants = Anything, c.request.verb = "GET",
         \A key \in ReadKeys : Values(c.request.query, key) = {},
         \/ c.request.sub = Some("log") /\ c.returns \in {"String", "AsyncBufRead"}
         \/ c.returns = "WebSocket" /\ \E s \in {"attach", "exec", "portforward"} : c.request.sub = Some(s)
  PROVE  Sound(c)
<1>1. <<"watch", "true">> \notin c.request.query
  BY NotInQuery DEF ReadKeys
<1>2. /\ ~c.wants.dry_run /\ c.wants.selectors = {} /\ c.wants.preconditions = {} /\ c.wants.match = {}
      /\ c.wants.at = {}
  BY WantsFields
<1>3. Fits(c)
  BY <1>1, <1>2 DEF Fits
<1>4. /\ Values(c.request.query, "resourceVersion") = c.wants.at
      /\ \A key \in {"resourceVersionMatch", "continue"} : Values(c.request.query, key) = {}
  BY <1>2 DEF ReadKeys
<1> QED
  BY <1>2, <1>3, <1>4, ReadSound

\* logs, log_stream, attach, exec and portforward
LEMMA PodMethods ==
  ASSUME NEW api, NEW c, c.request # Request!Invalid,
         \/ \E lp \in Logs : c \in logs(api, lp) \cup log_stream(api, lp)
         \/ \E ap \in Attaches : c \in attach(api, ap) \cup exec(api, ap)
         \/ \E ports \in Ports : c \in portforward(api, ports)
  PROVE  Sound(c)
<1>1. ASSUME NEW lp, c \in logs(api, lp) \cup log_stream(api, lp) PROVE Sound(c)
  <2>1. c.request = Request!logs(api, Name, lp) /\ c.wants = Anything /\ c.returns \in {"String", "AsyncBufRead"}
    BY <1>1 DEF logs, log_stream, Call
  <2>2. c.request.verb = "GET" /\ c.request.sub = Some("log")
    BY <2>1 DEF Request!logs, Request!Http, Some
  <2>3. \A key \in ReadKeys : Values(c.request.query, key) = {}
    BY <2>1, LogValues
  <2> QED
    BY <2>1, <2>2, <2>3, PodSound
<1>2. ASSUME NEW ap, c \in attach(api, ap) \cup exec(api, ap) PROVE Sound(c)
  <2>1. /\ c.wants = Anything /\ c.returns = "WebSocket"
        /\ c.request \in {Request!attach(api, Name, ap), Request!exec(api, Name, "ls", ap)}
    BY <1>2 DEF attach, exec, Call
  <2>2. /\ c.request.verb = "GET" /\ \E s \in {"attach", "exec", "portforward"} : c.request.sub = Some(s)
        /\ \/ c.request.query = Request!AttachQuery(ap)
           \/ c.request.query = Request!AttachQuery(ap) \cup {<<"command", "ls">>}
    BY <2>1 DEF Request!attach, Request!exec, Request!Checked, Request!Http, Some
  <2>3. \A key \in ReadKeys : Values(c.request.query, key) = {}
    BY <2>2, AttachValues
  <2> QED
    BY <2>1, <2>2, <2>3, PodSound
<1>3. ASSUME NEW ports, c \in portforward(api, ports) PROVE Sound(c)
  <2>1. c.wants = Anything /\ c.returns = "WebSocket" /\ c.request = Request!portforward(api, Name, ports)
    BY <1>3 DEF portforward, Call
  <2>2. /\ c.request.verb = "GET" /\ c.request.sub = Some("portforward")
        /\ c.request.query = {<<"ports", ports>>}
    BY <2>1 DEF Request!portforward, Request!Checked, Request!Http, Some
  <2>3. \A key \in ReadKeys : Values(c.request.query, key) = {}
    BY <2>2, AttachValues
  <2> QED
    BY <2>1, <2>2, <2>3, PodSound
<1> QED
  BY <1>1, <1>2, <1>3

\* The builders keep the version of a list an Option of a number.
AtMostOne(lp) == "resource_version" \in DOMAIN lp /\ lp.resource_version \in {{}, {0}, {1}, {2}}

\* One call of a method of the builder
LEMMA ListBuilt == ASSUME NEW lp, AtMostOne(lp) PROVE \A x \in Request!ListBuilder(lp) : AtMostOne(x)
<1> USE DEF AtMostOne
<1>1. \A v : /\ AtMostOne([lp EXCEPT !.timeout = v]) /\ AtMostOne([lp EXCEPT !.field_selector = v])
            /\ AtMostOne([lp EXCEPT !.label_selector = v]) /\ AtMostOne([lp EXCEPT !.limit = v])
            /\ AtMostOne([lp EXCEPT !.continue_token = v]) /\ AtMostOne([lp EXCEPT !.version_match = v])
  OBVIOUS
<1>2. ASSUME NEW v \in 0..2 PROVE AtMostOne([lp EXCEPT !.resource_version = {v}])
  <2>1. {v} \in {{}, {0}, {1}, {2}}
    OBVIOUS
  <2> QED
    BY <2>1
<1>3. AtMostOne([lp EXCEPT !.version_match = {"NotOlderThan"}, !.resource_version = {0}])
  OBVIOUS
<1> QED
  BY <1>1, <1>2, <1>3 DEF Request!ListBuilder, Request!Some, Request!VersionMatch

\* Up to two calls
LEMMA ListsType == ASSUME NEW lp \in Lists PROVE AtMostOne(lp)
<1>1. AtMostOne(Request!ListParams)
  BY DEF Request!ListParams, AtMostOne, Request!None
<1>2. \A x \in Request!ListBuilder(Request!ListParams) : AtMostOne(x)
  BY <1>1, ListBuilt
<1> QED
  BY <1>1, <1>2, ListBuilt DEF Lists

\* list and list_metadata
LEMMA ListMethods ==
  ASSUME NEW api, NEW lp \in Lists, NEW c \in list(api, lp) \cup list_metadata(api, lp),
         c.request # Request!Invalid
  PROVE  Sound(c)
<1> DEFINE Q == Request!ListQuery(lp)
<1>1. /\ c.wants = WantsList(lp)
      /\ \/ c.request = Request!list(api, lp) /\ c.returns = "List"
         \/ c.request = Request!list_metadata(api, lp) /\ c.returns = "PartialList"
  BY DEF list, list_metadata, Call
<1>2. Request!ListValid(lp)
  BY <1>1 DEF Request!list, Request!list_metadata, Request!Checked, Request!Accepting
<1>3. /\ c.request.verb = "GET" /\ c.request.name = None /\ c.request.sub = None /\ c.request.query = Q
      /\ \/ c.request.accept = Request!Json /\ c.returns = "List"
         \/ c.request.accept = Request!PartialMetadataList /\ c.returns = "PartialList"
  BY <1>1, <1>2 DEF Request!list, Request!list_metadata, Request!Checked, Request!Accepting, Request!Http,
                    Request!Invalid, None, Request!None
<1>4. /\ Values(Q, "fieldSelector") = lp.field_selector /\ Values(Q, "labelSelector") = lp.label_selector
      /\ Values(Q, "resourceVersion") = lp.resource_version /\ Values(Q, "continue") = lp.continue_token
      /\ Values(Q, "resourceVersionMatch") = lp.version_match /\ Values(Q, "watch") = {}
  BY ListValues
<1>5. lp.resource_version \in {{}, {0}, {1}, {2}}
  BY ListsType DEF AtMostOne
<1>6. <<"watch", "true">> \notin c.request.query
  BY <1>3, <1>4, NotInQuery
<1>7. Fits(c)
  <2>1. c.returns = IF c.request.accept = Request!PartialMetadataList THEN "PartialList" ELSE "List"
    BY <1>3 DEF Request!Json, Request!PartialMetadataList
  <2> QED
    BY <1>3, <1>6, <2>1 DEF Fits
<1> HIDE DEF Q
<1>8. Carries(c)
  <2>1. ~c.wants.dry_run /\ c.wants.preconditions = {} /\ c.wants.selectors = lp.label_selector \cup lp.field_selector
    BY <1>1, WantsFields
  <2>2. /\ Value(c.request, "labelSelector") = lp.label_selector
        /\ Value(c.request, "fieldSelector") = lp.field_selector
    BY <1>3, <1>4, ValueIs
  <2> QED
    BY <2>1, <2>2 DEF Carries
<1>9. Versioned(c)
  <2>1. /\ c.wants.at = lp.resource_version /\ c.wants.match = lp.version_match
        /\ ~c.wants.paged => lp.continue_token = {}
    BY <1>1, WantsFields
  <2>2. /\ Value(c.request, "resourceVersion") = lp.resource_version
        /\ Value(c.request, "resourceVersionMatch") = lp.version_match
        /\ Value(c.request, "continue") = lp.continue_token
    BY <1>3, <1>4, ValueIs
  <2>3. lp.version_match = {"Exact"} => lp.resource_version # {} /\ lp.resource_version # {0}
    BY <1>2 DEF Request!ListValid, Request!Some, Request!None
  <2>4. lp.resource_version = {} \/ \E v \in Nat : lp.resource_version = {v}
    BY <1>5
  <2> QED
    BY <2>1, <2>2, <2>3, <2>4 DEF Versioned
<1> QED
  BY <1>7, <1>8, <1>9 DEF Sound

\* watch and watch_metadata
LEMMA WatchMethods ==
  ASSUME NEW api, NEW wp, NEW v, NEW c \in watch(api, wp, v) \cup watch_metadata(api, wp, v),
         c.request # Request!Invalid
  PROVE  Sound(c)
<1>1. /\ c.wants = Anything /\ c.returns = "Events"
      /\ c.request \in {Request!watch(api, wp, v), Request!watch_metadata(api, wp, v)}
  BY DEF watch, watch_metadata, Call
<1>2. /\ c.request.verb = "GET" /\ c.request.sub = None
      /\ c.request.query = Request!WatchQuery(wp) \cup {<<"resourceVersion", v>>}
  BY <1>1 DEF Request!watch, Request!watch_metadata, Request!Checked, Request!Accepting, Request!Http,
              None, Request!None
<1>3. <<"watch", "true">> \in c.request.query
  BY <1>2 DEF Request!WatchQuery
<1>4. Fits(c)
  BY <1>1, <1>2, <1>3 DEF Fits
<1>5. ~c.wants.dry_run /\ c.wants.selectors = {} /\ c.wants.preconditions = {}
  BY <1>1, WantsFields
<1>6. Carries(c) /\ Versioned(c)
  BY <1>1, <1>5 DEF Carries, Versioned
<1> QED
  BY <1>4, <1>6 DEF Sound

\* Every method that reads
LEMMA ReadsSound ==
  ASSUME NEW api, NEW c \in Reads(api), c.request # Request!Invalid PROVE Sound(c)
<1>1. ASSUME NEW gp \in Request!GetParams, c \in get_with(api, gp) \cup get_metadata_with(api, gp) PROVE Sound(c)
  <2>1. gp.resource_version = {} \/ \E v \in Nat : gp.resource_version = {v}
    BY DEF Request!GetParams, Request!Some, Request!None
  <2>2. /\ c.wants = WantsVersion(gp)
        /\ \/ c.request = Request!get(api, Name, gp) /\ c.returns = "K"
           \/ c.request = Request!get_metadata(api, Name, gp) /\ c.returns = "Partial"
    BY <1>1 DEF get_with, get_metadata_with, Call
  <2> QED
    BY <2>1, <2>2, GetSound
<1>2. ASSUME c \in get_opt(api) \cup get_metadata_opt(api) PROVE Sound(c)
  <2>1. DefaultGet.resource_version = {}
    BY DEF DefaultGet, None, Request!None
  <2>2. /\ c.wants = Anything
        /\ \/ c.request = Request!get(api, Name, DefaultGet) /\ c.returns = "K"
           \/ c.request = Request!get_metadata(api, Name, DefaultGet) /\ c.returns = "Partial"
    BY <1>2 DEF get_opt, get_metadata_opt, Call
  <2> QED
    BY <2>1, <2>2, GetSound
<1>3. ASSUME c \in get_scale(api) \cup get_subresource(api) \cup get_status(api) PROVE Sound(c)
  <2>1. \E s \in {"scale", "sub", "status"} :
          /\ c.request = Request!get_subresource(api, s, Name) /\ c.wants = Anything
          /\ c.returns = IF s = "scale" THEN "Scale" ELSE "K"
    BY <1>3 DEF get_scale, get_subresource, get_status, Call
  <2> QED
    BY <2>1, GetSubSound
<1>4. ASSUME c \in UNION {get_with(api, gp) \cup get_metadata_with(api, gp) : gp \in Request!GetParams} PROVE Sound(c)
  BY <1>1, <1>4
<1>5. ASSUME c \in UNION {list(api, lp) \cup list_metadata(api, lp) : lp \in Lists} PROVE Sound(c)
  BY <1>5, ListMethods
<1>6. ASSUME c \in UNION {watch(api, wp, 0) \cup watch_metadata(api, wp, 0) : wp \in Watches} PROVE Sound(c)
  BY <1>6, WatchMethods
<1>7. ASSUME c \in UNION {logs(api, lp) \cup log_stream(api, lp) : lp \in Logs} PROVE Sound(c)
  BY <1>7, PodMethods
<1>8. ASSUME c \in UNION {attach(api, ap) \cup exec(api, ap) : ap \in Attaches} PROVE Sound(c)
  BY <1>8, PodMethods
<1>9. ASSUME c \in UNION {portforward(api, ports) : ports \in Ports} PROVE Sound(c)
  BY <1>9, PodMethods
<1> QED
  BY <1>2, <1>3, <1>4, <1>5, <1>6, <1>7, <1>8, <1>9 DEF Reads

-----------------------------------------------------------------------------
(* The methods that write                                                  *)

\* An object, or a subresource that is one, is replaced or patched.
LEMMA UpdateSound ==
  ASSUME NEW c, NEW pp, c.wants = WantsWrite(pp) \/ c.wants = Anything,
         c.request.verb \in {"PUT", "PATCH"}, c.request.name # None,
         c.request.query \in {Request!PostQuery(pp), Request!PatchQuery(pp)},
         c.request.sub = None \/ \E s \in {"scale", "sub", "status"} : c.request.sub = Some(s),
         c.returns = ObjectBody(c.request)
  PROVE  Sound(c)
<1>1. /\ pp.dry_run => Values(c.request.query, "dryRun") # {}
      /\ Values(c.request.query, "watch") = {}
  BY WriteValues
<1>2. <<"watch", "true">> \notin c.request.query
  BY <1>1, NotInQuery
<1>3. Fits(c)
  BY <1>2 DEF Fits
<1> QED
  BY <1>1, <1>3, WriteSound

\* The type an object is answered with
LEMMA Bodies ==
  ASSUME NEW r
  PROVE  /\ r.accept = Request!PartialMetadata => ObjectBody(r) = "Partial"
         /\ r.accept = Request!Json =>
              /\ r.sub = Some("scale") => ObjectBody(r) = "Scale"
              /\ r.sub = Some("token") => ObjectBody(r) = "TokenRequest"
              /\ r.sub = None \/ r.sub = Some("sub") \/ r.sub = Some("status") => ObjectBody(r) = "K"
BY DEF ObjectBody, Request!Json, Request!PartialMetadata, None, Request!None, Some, Request!Some

\* The parts of a patch
LEMMA PatchRequest ==
  ASSUME NEW api, NEW sub, NEW pp, NEW kind, NEW data, NEW r,
         r = Request!Patching(api, Name, sub, pp, kind, data), r # Request!Invalid
  PROVE  /\ r.verb = "PATCH" /\ r.name # None /\ r.sub = sub /\ r.query = Request!PatchQuery(pp)
         /\ r.accept = Request!Json
BY DEF Request!Patching, Request!Checked, Request!With, Request!Http, Request!Some, None, Request!None

\* patch, patch_metadata, patch_scale, patch_status, patch_subresource, restart, cordon, uncordon
LEMMA PatchMethods ==
  ASSUME NEW api, NEW c, c.request # Request!Invalid, NEW pp, NEW kind, NEW data,
         \/ c \in patch(api, pp, kind, data) \cup patch_metadata(api, pp, kind, data)
         \/ c \in patch_scale(api, pp, kind, data) \cup patch_status(api, pp, kind, data)
                  \cup patch_subresource(api, pp, kind, data)
         \/ c \in restart(api) \cup cordon(api) \cup uncordon(api)
  PROVE  Sound(c)
<1>1. ASSUME NEW sub, NEW qq, NEW kk, NEW dd, c.request = Request!Patching(api, Name, sub, qq, kk, dd),
             c.wants = WantsWrite(qq) \/ c.wants = Anything,
             \/ sub = None /\ c.returns = "K"
             \/ sub = Some("scale") /\ c.returns = "Scale"
             \/ sub = Some("sub") /\ c.returns = "K"
             \/ sub = Some("status") /\ c.returns = "K"
      PROVE  Sound(c)
  <2>1. /\ c.request.verb = "PATCH" /\ c.request.name # None /\ c.request.sub = sub
        /\ c.request.query = Request!PatchQuery(qq) /\ c.request.accept = Request!Json
    BY <1>1, PatchRequest
  <2>2. c.returns = ObjectBody(c.request)
    BY <1>1, <2>1, Bodies
  <2> QED
    BY <1>1, <2>1, <2>2, UpdateSound
<1>2. CASE c \in patch(api, pp, kind, data)
  <2>1. /\ c.request = Request!Patching(api, Name, None, pp, kind, data)
        /\ c.wants = WantsWrite(pp) /\ c.returns = "K"
    BY <1>2 DEF patch, Call, Request!patch, None
  <2> QED
    BY <1>1, <2>1
<1>3. CASE c \in patch_metadata(api, pp, kind, data)
  <2> DEFINE r == Request!Patching(api, Name, None, pp, kind, data)
  <2>1. c.request = Request!Accepting(r, Request!PartialMetadata) /\ c.wants = WantsWrite(pp) /\ c.returns = "Partial"
    BY <1>3 DEF patch_metadata, Call, Request!patch_metadata, Request!patch, None
  <2>2. r # Request!Invalid
    BY <2>1 DEF Request!Accepting
  <2>3. r.verb = "PATCH" /\ r.name # None /\ r.sub = None /\ r.query = Request!PatchQuery(pp)
    BY <2>2, PatchRequest
  <2>4. /\ c.request.verb = "PATCH" /\ c.request.name # None /\ c.request.sub = None
        /\ c.request.query = Request!PatchQuery(pp) /\ c.request.accept = Request!PartialMetadata
    BY <2>1, <2>2 DEF Request!Accepting, Request!Patching, Request!Checked, Request!With, Request!Http,
                      Request!Some, None, Request!None
  <2>5. c.returns = ObjectBody(c.request)
    BY <2>1, <2>4, Bodies
  <2> QED
    BY <2>1, <2>4, <2>5, UpdateSound
<1>4. CASE c \in patch_scale(api, pp, kind, data)
  <2>1. /\ c.request = Request!Patching(api, Name, Some("scale"), pp, kind, data)
        /\ c.wants = WantsWrite(pp) /\ c.returns = "Scale"
    BY <1>4 DEF patch_scale, Call, Request!patch_subresource, Some
  <2> QED
    BY <1>1, <2>1
<1>5. CASE c \in patch_status(api, pp, kind, data)
  <2>1. /\ c.request = Request!Patching(api, Name, Some("status"), pp, kind, data)
        /\ c.wants = WantsWrite(pp) /\ c.returns = "K"
    BY <1>5 DEF patch_status, Call, Request!patch_subresource, Some
  <2> QED
    BY <1>1, <2>1
<1>6. CASE c \in patch_subresource(api, pp, kind, data)
  <2>1. /\ c.request = Request!Patching(api, Name, Some("sub"), pp, kind, data)
        /\ c.wants = WantsWrite(pp) /\ c.returns = "K"
    BY <1>6 DEF patch_subresource, Call, Request!patch_subresource, Some
  <2> QED
    BY <1>1, <2>1
<1>7. CASE c \in restart(api)
  <2>1. /\ c.request = Request!Patching(api, Name, None, Request!PatchParams, "Merge", [restartedAt |-> "now"])
        /\ c.wants = Anything /\ c.returns = "K"
    BY <1>7 DEF restart, Call, Request!restart, Request!patch, None
  <2> QED
    BY <1>1, <2>1
<1>8. CASE c \in cordon(api)
  <2>1. /\ c.request = Request!Patching(api, Name, None, Request!PatchParams, "Strategic", [unschedulable |-> TRUE])
        /\ c.wants = Anything /\ c.returns = "K"
    BY <1>8 DEF cordon, Call, Request!cordon, Request!patch, None
  <2> QED
    BY <1>1, <2>1
<1>9. CASE c \in uncordon(api)
  <2>1. /\ c.request = Request!Patching(api, Name, None, Request!PatchParams, "Strategic", [unschedulable |-> FALSE])
        /\ c.wants = Anything /\ c.returns = "K"
    BY <1>9 DEF uncordon, Call, Request!cordon, Request!patch, None
  <2> QED
    BY <1>1, <2>1
<1> QED
  BY <1>2, <1>3, <1>4, <1>5, <1>6, <1>7, <1>8, <1>9

\* replace, replace_subresource, replace_scale, replace_status
LEMMA ReplaceMethods ==
  ASSUME NEW api, NEW c, NEW pp, NEW data,
         \/ c \in replace(api, pp, data)
         \/ c \in replace_subresource(api, pp, data)
         \/ c \in replace_scale(api, pp, data)
         \/ c \in replace_status(api, pp, data)
  PROVE  Sound(c)
<1>1. /\ c.wants = WantsWrite(pp)
      /\ \/ c.request = Request!replace(api, Name, pp, data) /\ c.returns = "K"
         \/ c.request = Request!replace_subresource(api, "sub", Name, pp, data) /\ c.returns = "K"
         \/ c.request = Request!replace_subresource(api, "scale", Name, pp, data) /\ c.returns = "Scale"
         \/ c.request = Request!replace_subresource(api, "status", Name, pp, data) /\ c.returns = "K"
  BY DEF replace, replace_subresource, replace_scale, replace_status, Call
<1>2. /\ c.request.verb = "PUT" /\ c.request.name # None /\ c.request.query = Request!PostQuery(pp)
      /\ c.request.accept = Request!Json
      /\ \/ c.request.sub = None /\ c.returns = "K"
         \/ c.request.sub = Some("sub") /\ c.returns = "K"
         \/ c.request.sub = Some("scale") /\ c.returns = "Scale"
         \/ c.request.sub = Some("status") /\ c.returns = "K"
  BY <1>1 DEF Request!replace, Request!replace_subresource, Request!With, Request!Http, Some, Request!Some,
              None, Request!None
<1>3. c.returns = ObjectBody(c.request)
  BY <1>2, Bodies
<1> QED
  BY <1>1, <1>2, <1>3, UpdateSound

\* A new object, a subresource that is created, and an eviction
LEMMA PostFits ==
  ASSUME NEW c, NEW pp, c.request.verb = "POST",
         c.request.query = Request!PostQuery(pp), c.request.accept = Request!Json,
         \/ c.request.name = None /\ c.request.sub = None /\ c.returns = "K"
         \/ c.request.name # None /\ c.request.sub = Some("sub") /\ c.returns = "K"
         \/ c.request.name # None /\ c.request.sub = Some("token") /\ c.returns = "TokenRequest"
         \/ c.request.name # None /\ c.request.sub = Some("eviction") /\ c.returns = "Status"
  PROVE  Fits(c) /\ (pp.dry_run => Values(c.request.query, "dryRun") # {})
<1>1. /\ pp.dry_run => Values(c.request.query, "dryRun") # {}
      /\ Values(c.request.query, "watch") = {}
  BY WriteValues
<1>2. <<"watch", "true">> \notin c.request.query
  BY <1>1, NotInQuery
<1>3. \/ c.request.sub = None
      \/ c.request.sub = Some("eviction") /\ c.returns = "Status"
      \/ c.returns = ObjectBody(c.request) /\ \E s \in {"sub", "token"} : c.request.sub = Some(s)
  BY Bodies
<1>4. Fits(c)
  BY <1>2, <1>3 DEF Fits, Some, Request!Some, None, Request!None
<1> QED
  BY <1>1, <1>4

\* create, create_subresource, create_token_request
LEMMA PostSound ==
  ASSUME NEW c, NEW pp, c.wants = WantsWrite(pp), c.request.verb = "POST",
         c.request.query = Request!PostQuery(pp), c.request.accept = Request!Json,
         \/ c.request.name = None /\ c.request.sub = None /\ c.returns = "K"
         \/ c.request.name # None /\ c.request.sub = Some("sub") /\ c.returns = "K"
         \/ c.request.name # None /\ c.request.sub = Some("token") /\ c.returns = "TokenRequest"
  PROVE  Sound(c)
BY PostFits, WriteSound

\* What the parameters make an eviction want
LEMMA EvictWants ==
  ASSUME NEW ep, NEW w, w = WantsEvict(ep)
  PROVE  /\ w.selectors = {}
         /\ "preconditions" \in w.unheeded
         /\ ep.post_options.dry_run \/ "dry_run" \in w.unheeded
BY DEF WantsEvict, Anything

\* create, create_subresource, create_token_request, evict
LEMMA PostMethods ==
  ASSUME NEW api, NEW c, c.request # Request!Invalid, NEW pp, NEW data, NEW ep,
         \/ c \in create(api, pp, data)
         \/ c \in create_subresource(api, pp, data)
         \/ c \in create_token_request(api, pp)
         \/ c \in evict(api, ep)
  PROVE  Sound(c)
<1>1. CASE c \in create(api, pp, data)
  <2>1. c.wants = WantsWrite(pp) /\ c.request = Request!create(api, pp, data) /\ c.returns = "K"
    BY <1>1 DEF create, Call
  <2>2. /\ c.request.verb = "POST" /\ c.request.query = Request!PostQuery(pp)
        /\ c.request.accept = Request!Json /\ c.request.name = None /\ c.request.sub = None
    BY <2>1 DEF Request!create, Request!Checked, Request!With, Request!Http, None, Request!None
  <2> QED
    BY <2>1, <2>2, PostSound
<1>2. CASE c \in create_subresource(api, pp, data)
  <2>1. /\ c.wants = WantsWrite(pp) /\ c.returns = "K"
        /\ c.request = Request!create_subresource(api, "sub", Name, pp, data)
    BY <1>2 DEF create_subresource, Call
  <2>2. /\ c.request.verb = "POST" /\ c.request.query = Request!PostQuery(pp)
        /\ c.request.accept = Request!Json /\ c.request.name # None /\ c.request.sub = Some("sub")
    BY <2>1 DEF Request!create_subresource, Request!With, Request!Http, Some, Request!Some, None, Request!None
  <2> QED
    BY <2>1, <2>2, PostSound
<1>3. CASE c \in create_token_request(api, pp)
  <2>1. /\ c.wants = WantsWrite(pp) /\ c.returns = "TokenRequest"
        /\ c.request = Request!create_subresource(api, "token", Name, pp, [token |-> "t"])
    BY <1>3 DEF create_token_request, Call
  <2>2. /\ c.request.verb = "POST" /\ c.request.query = Request!PostQuery(pp)
        /\ c.request.accept = Request!Json /\ c.request.name # None /\ c.request.sub = Some("token")
    BY <2>1 DEF Request!create_subresource, Request!With, Request!Http, Some, Request!Some, None, Request!None
  <2> QED
    BY <2>1, <2>2, PostSound
<1>4. CASE c \in evict(api, ep)
  <2>1. /\ c.wants = WantsEvict(ep) /\ c.returns = "Status"
        /\ c.request = Request!evict(api, Name, ep)
    BY <1>4 DEF evict, Call
  <2>2. /\ c.request.verb = "POST" /\ c.request.query = Request!PostQuery(ep.post_options)
        /\ c.request.accept = Request!Json /\ c.request.name # None /\ c.request.sub = Some("eviction")
    BY <2>1 DEF Request!evict, Request!Checked, Request!With, Request!Http, Some, Request!Some, None, Request!None
  <2>3. Fits(c) /\ (ep.post_options.dry_run => Values(c.request.query, "dryRun") # {})
    BY <2>1, <2>2, PostFits
  <2>4. /\ c.wants.selectors = {} /\ "preconditions" \in c.wants.unheeded
        /\ ep.post_options.dry_run \/ "dry_run" \in c.wants.unheeded
    BY <2>1, EvictWants
  <2>5. Carries(c)
    BY <2>3, <2>4, ValueIs DEF Carries, IsDryRun
  <2>6. Versioned(c)
    BY <2>2 DEF Versioned
  <2> QED
    BY <2>3, <2>5, <2>6 DEF Sound
<1> QED
  BY <1>1, <1>2, <1>3, <1>4

\* The options of a delete are in its body.
LEMMA DeleteOptionsAre ==
  ASSUME NEW r, NEW dp, r.body = {Request!DeleteBody(dp)}
  PROVE  /\ dp.dry_run => IsDryRun(r)
         /\ \A p \in dp.preconditions : \E b \in DeleteOptions(r) : p \in b.preconditions
<1> DEFINE b == Request!DeleteBody(dp)
<1>1. "dryRun" \in DOMAIN b /\ (dp.dry_run => b.dryRun = <<"All">>) /\ b.preconditions = dp.preconditions
  BY DEF Request!DeleteBody
<1>2. b \in DeleteOptions(r)
  BY <1>1 DEF DeleteOptions
<1>3. <<"All">> # << >>
  OBVIOUS
<1> HIDE DEF b
<1> QED
  BY <1>1, <1>2, <1>3 DEF IsDryRun

\* What the parameters make a delete want
LEMMA DeleteWants ==
  ASSUME NEW dp, NEW lp, NEW w, w = WantsDelete(dp, lp)
  PROVE  /\ w.dry_run => dp.dry_run
         /\ w.preconditions = dp.preconditions
         /\ w.selectors = lp.label_selector \cup lp.field_selector
<1>1. w.dry_run = dp.dry_run
  BY DEF WantsDelete, WantsList, Anything
<1>2. w.preconditions = dp.preconditions /\ w.selectors = lp.label_selector \cup lp.field_selector
  BY DEF WantsDelete, WantsList, Anything
<1> QED
  BY <1>1, <1>2

\* delete
LEMMA DeleteMethod ==
  ASSUME NEW api, NEW dp, NEW c \in delete(api, dp) PROVE Sound(c)
<1>1. /\ c.wants = WantsDelete(dp, Request!ListParams) /\ c.returns = "EitherK"
      /\ c.request = Request!delete(api, Name, dp)
  BY DEF delete, Call
<1>2. /\ c.request.verb = "DELETE" /\ c.request.name # None /\ c.request.sub = None
      /\ c.request.query = {} /\ c.request.body = {Request!DeleteBody(dp)}
  BY <1>1 DEF Request!delete, Request!With, Request!Http, Request!Some, None, Request!None
<1>3. Fits(c)
  BY <1>1, <1>2 DEF Fits
<1>4. /\ c.wants.dry_run => dp.dry_run
      /\ c.wants.preconditions = dp.preconditions
      /\ c.wants.selectors = Request!ListParams.label_selector \cup Request!ListParams.field_selector
  BY <1>1, DeleteWants
<1>5. c.wants.selectors = {}
  BY <1>4 DEF Request!ListParams, Request!None
<1>6. /\ dp.dry_run => IsDryRun(c.request)
      /\ \A p \in dp.preconditions : \E b \in DeleteOptions(c.request) : p \in b.preconditions
  BY <1>2, DeleteOptionsAre
<1>7. Carries(c)
  BY <1>2, <1>4, <1>5, <1>6 DEF Carries
<1>8. Versioned(c)
  BY <1>2 DEF Versioned
<1> QED
  BY <1>3, <1>7, <1>8 DEF Sound

\* delete_collection: parameters that say nothing are not sent.
LEMMA DeleteCollectionMethod ==
  ASSUME NEW api, NEW dp, NEW lp, NEW c \in delete_collection(api, dp, lp) PROVE Sound(c)
<1> DEFINE Q == Request!Pair("fieldSelector", lp.field_selector)
                \cup Request!Pair("labelSelector", lp.label_selector)
<1>1. /\ c.wants = WantsDelete(dp, lp) /\ c.returns = "EitherList"
      /\ c.request = Request!delete_collection(api, dp, lp)
  BY DEF delete_collection, Call
<1>2. /\ c.request.verb = "DELETE" /\ c.request.name = None /\ c.request.sub = None
      /\ c.request.query = Q
      /\ Request!DeleteIsDefault(dp) \/ c.request.body = {Request!DeleteBody(dp)}
  BY <1>1 DEF Request!delete_collection, Request!With, Request!Http, Request!Some, None, Request!None
<1>3. /\ Values(Q, "fieldSelector") = lp.field_selector /\ Values(Q, "labelSelector") = lp.label_selector
      /\ Values(Q, "watch") = {}
  BY SelectorValues
<1>4. <<"watch", "true">> \notin c.request.query
  BY <1>2, <1>3, NotInQuery
<1>5. Fits(c)
  BY <1>1, <1>2, <1>4 DEF Fits
<1> HIDE DEF Q
<1>6. /\ c.wants.dry_run => dp.dry_run
      /\ c.wants.preconditions = dp.preconditions
      /\ c.wants.selectors = lp.label_selector \cup lp.field_selector
  BY <1>1, DeleteWants
<1>7. /\ Value(c.request, "labelSelector") = lp.label_selector
      /\ Value(c.request, "fieldSelector") = lp.field_selector
  BY <1>2, <1>3, ValueIs
<1>8. /\ dp.dry_run => IsDryRun(c.request)
      /\ \A p \in dp.preconditions : \E b \in DeleteOptions(c.request) : p \in b.preconditions
  <2>1. CASE Request!DeleteIsDefault(dp)
    BY <2>1 DEF Request!DeleteIsDefault, Request!DeleteParams, Request!None
  <2>2. CASE c.request.body = {Request!DeleteBody(dp)}
    BY <2>2, DeleteOptionsAre
  <2> QED
    BY <1>2, <2>1, <2>2
<1>9. Carries(c)
  BY <1>2, <1>6, <1>7, <1>8 DEF Carries
<1>10. Versioned(c)
  BY <1>2 DEF Versioned
<1> QED
  BY <1>5, <1>9, <1>10 DEF Sound

\* Every method that writes
LEMMA WritesSound ==
  ASSUME NEW api, NEW c \in Writes(api), c.request # Request!Invalid PROVE Sound(c)
<1>1. ASSUME c \in UNION {create(api, pp, d) \cup replace(api, pp, d) : pp \in Posts, d \in Data} PROVE Sound(c)
  BY <1>1, PostMethods, ReplaceMethods
<1>2. ASSUME c \in UNION {create_subresource(api, pp, d) \cup replace_subresource(api, pp, d)
                          \cup replace_scale(api, pp, d) \cup replace_status(api, pp, d)
                          \cup create_token_request(api, pp) : pp \in Posts, d \in {[marks |-> {}]}}
      PROVE  Sound(c)
  BY <1>2, PostMethods, ReplaceMethods
<1>3. ASSUME c \in UNION {patch(api, pp, k, [marks |-> {"l"}]) \cup patch_metadata(api, pp, k, [marks |-> {"l"}])
                          : pp \in Patches, k \in Request!Patch}
      PROVE  Sound(c)
  BY <1>3, PatchMethods
<1>4. ASSUME c \in UNION {patch_scale(api, pp, k, [marks |-> {}]) \cup patch_status(api, pp, k, [marks |-> {}])
                          \cup patch_subresource(api, pp, k, [marks |-> {}]) : pp \in Patches, k \in {"Merge"}}
      PROVE  Sound(c)
  BY <1>4, PatchMethods
<1>5. ASSUME c \in UNION {delete(api, dp) : dp \in Deletes} PROVE Sound(c)
  BY <1>5, DeleteMethod
<1>6. ASSUME c \in UNION {delete_collection(api, dp, lp) : dp \in Deletes, lp \in Selectors} PROVE Sound(c)
  BY <1>6, DeleteCollectionMethod
<1>7. ASSUME c \in UNION {evict(api, ep) : ep \in Evicts} PROVE Sound(c)
  BY <1>7, PostMethods
<1>8. ASSUME c \in restart(api) \cup cordon(api) \cup uncordon(api) PROVE Sound(c)
  BY <1>8, PatchMethods
<1> QED
  BY <1>1, <1>2, <1>3, <1>4, <1>5, <1>6, <1>7, <1>8 DEF Writes

\* Every call that is sent carries what its caller asks for.
LEMMA CallsSound ==
  ASSUME NEW c \in Calls, c.request # Request!Invalid PROVE Sound(c)
BY ReadsSound, WritesSound DEF Calls

-----------------------------------------------------------------------------
(* The answers                                                             *)

\* The server did what it was asked, and the answer is of a type that the decoder of the
\* method takes.
Matches(c, a) ==
    \/ a.status = 101 /\ c.returns = "WebSocket" /\ a.body = "WebSocket"
    \/ /\ a.status \in {200, 201}
       /\ \/ c.returns = "AsyncBufRead" /\ a.body = "String"
          \/ c.returns = "EitherK" /\ a.body \in {"K", "Status"}
          \/ c.returns = "EitherList" /\ a.body \in {"List", "Status"}
          \/ /\ a.body = c.returns
             /\ a.body \in {"String", "Events", "K", "Partial", "Scale", "TokenRequest",
                            "Status", "List", "PartialList"}

\* The version of the answer is one that the caller may be given.
Fresh(c, a) ==
    c.request.verb = "GET" /\ c.returns \notin {"AsyncBufRead", "Events"} /\ ~c.wants.paged =>
      /\ c.wants.at = None => a.version = a.latest
      /\ \A v \in c.wants.at : a.version >= v
      /\ c.wants.match = Some("Exact") => a.version \in c.wants.at

Good(c, a) == a.done /\ Matches(c, a) /\ Fresh(c, a)

\* The server, or a proxy, did not do it and says so.
Bad(a) ==
    /\ ~a.done
    /\ a.status \in 400..599
    /\ \/ a.body = "ErrorResponse" /\ (a.reason = "NotFound" => a.status = 404)
       \/ a.body \in {"Html", "Empty"}

\* The parts of an answer
LEMMA AnswerIs ==
  ASSUME NEW status, NEW body, NEW v, NEW new, Answer(status, body, v, new)
  PROVE  /\ response'.status = status /\ response'.body = body /\ response'.version = v
         /\ response'.done /\ response'.latest = version
         /\ objects' = objects \/ objects' = new
         /\ IsDryRun(call.request) => objects' = objects
         /\ version' = version \/ version' = version + 1
BY DEF Answer

\* The versions that a query allows are those that the caller asked for.
LEMMA VersionsAreFresh ==
  ASSUME NEW c, Versioned(c), c.request.verb = "GET", c.returns # "Events", ~c.wants.paged,
         version \in Nat, NEW v \in Versions(c.request)
  PROVE  /\ c.wants.at = None => v = version
         /\ \A x \in c.wants.at : v >= x
         /\ c.wants.match = Some("Exact") => v \in c.wants.at
<1>1. /\ Value(c.request, "resourceVersion") = c.wants.at
      /\ Value(c.request, "resourceVersionMatch") = c.wants.match
      /\ Value(c.request, "continue") = {}
      /\ c.wants.match = {"Exact"} => c.wants.at # {} /\ c.wants.at # {0}
  BY DEF Versioned
<1>2. v \in IF c.wants.at = {0} THEN 0..version
           ELSE IF c.wants.at = {} THEN {version}
           ELSE IF c.wants.match = {"Exact"} THEN c.wants.at \cap (0..version)
           ELSE {x \in 0..version : \A a \in c.wants.at : a <= x}
  BY <1>1 DEF Versions
<1>3. CASE c.wants.at = {}
  BY <1>1, <1>2, <1>3 DEF None, Request!None, Some, Request!Some
<1>4. CASE \E k \in Nat : c.wants.at = {k}
  <2>1. PICK k \in Nat : c.wants.at = {k}
    BY <1>4
  <2>2. v \in 0..version /\ v >= k
    BY <1>2, <2>1
  <2>3. c.wants.match = {"Exact"} => v = k
    BY <1>1, <1>2, <2>1
  <2> QED
    BY <2>1, <2>2, <2>3 DEF None, Request!None, Some, Request!Some
<1> QED
  BY <1>3, <1>4 DEF Versioned

\* The types of the answers with an object
LEMMA BodyTypes == ASSUME NEW r PROVE ObjectBody(r) \in {"Partial", "Scale", "TokenRequest", "K"}
BY DEF ObjectBody

\* What the server answers, the method understands.
LEMMA ServedIsGood ==
  ASSUME Sound(call), version \in Nat, Served(call.request) PROVE Good(call, response')
<1> DEFINE r == call.request
<1>1. Fits(call) /\ Versioned(call)
  BY DEF Sound
<1> USE DEF None, Request!None, Some, Request!Some
<1>2. CASE AnswerRead(r)
  <2> DEFINE body == IF r.name # None THEN ObjectBody(r)
                     ELSE IF r.accept = Request!PartialMetadataList THEN "PartialList" ELSE "List"
  <2>1. PICK v \in Versions(r) : Answer(200, body, v, objects)
    BY <1>2 DEF AnswerRead
  <2>2. r.verb = "GET" /\ r.sub \subseteq {"scale", "sub", "status"} /\ <<"watch", "true">> \notin r.query
    BY <1>2 DEF AnswerRead
  <2>3. call.returns = body
    BY <1>1, <2>2 DEF Fits
  <2>4. body \in {"Partial", "Scale", "TokenRequest", "K", "PartialList", "List"}
    BY BodyTypes
  <2> HIDE DEF body
  <2>5. /\ response'.status = 200 /\ response'.body = body /\ response'.version = v
        /\ response'.done /\ response'.latest = version
    BY <2>1, AnswerIs
  <2>6. Matches(call, response')
    BY <2>3, <2>4, <2>5 DEF Matches
  <2>7. Fresh(call, response')
    <3> SUFFICES ASSUME ~call.wants.paged
                 PROVE  /\ call.wants.at = None => v = version
                        /\ \A x \in call.wants.at : v >= x
                        /\ call.wants.match = Some("Exact") => v \in call.wants.at
      BY <2>5 DEF Fresh
    <3>1. call.returns # "Events"
      BY <2>3, <2>4
    <3> QED
      BY <1>1, <2>2, <3>1, VersionsAreFresh
  <2> QED
    BY <2>5, <2>6, <2>7 DEF Good
<1>3. CASE AnswerWatch(r)
  <2>1. call.returns = "Events"
    BY <1>1, <1>3 DEF AnswerWatch, Fits
  <2>2. response'.status = 200 /\ response'.body = "Events" /\ response'.done
    BY <1>3, AnswerIs DEF AnswerWatch
  <2> QED
    BY <2>1, <2>2 DEF Good, Matches, Fresh
<1>4. CASE AnswerLog(r)
  <2>1. call.returns \in {"String", "AsyncBufRead"} /\ call.wants.at = {} /\ call.wants.match = {}
    BY <1>1, <1>4 DEF AnswerLog, Fits
  <2>2. /\ response'.status = 200 /\ response'.body = "String" /\ response'.done
        /\ response'.version = response'.latest
    BY <1>4, AnswerIs DEF AnswerLog
  <2> QED
    BY <2>1, <2>2 DEF Good, Matches, Fresh
<1>5. CASE AnswerUpgrade(r)
  <2>1. call.returns = "WebSocket" /\ call.wants.at = {} /\ call.wants.match = {}
    BY <1>1, <1>5 DEF AnswerUpgrade, Fits
  <2>2. /\ response'.status = 101 /\ response'.body = "WebSocket" /\ response'.done
        /\ response'.version = response'.latest
    BY <1>5, AnswerIs DEF AnswerUpgrade
  <2> QED
    BY <2>1, <2>2 DEF Good, Matches, Fresh
<1>6. CASE AnswerCreate(r)
  <2>1. call.returns = "K" /\ call.request.verb # "GET"
    BY <1>1, <1>6 DEF AnswerCreate, Fits
  <2>2. response'.status = 201 /\ response'.body = "K" /\ response'.done
    BY <1>6, AnswerIs DEF AnswerCreate
  <2> QED
    BY <2>1, <2>2 DEF Good, Matches, Fresh
<1>7. CASE AnswerSub(r)
  <2>1. call.returns = ObjectBody(r) /\ call.request.verb # "GET"
    BY <1>1, <1>7 DEF AnswerSub, Fits
  <2>2. response'.status = 201 /\ response'.body = ObjectBody(r) /\ response'.done
    BY <1>7, AnswerIs DEF AnswerSub
  <2> QED
    BY <2>1, <2>2, BodyTypes DEF Good, Matches, Fresh
<1>8. CASE AnswerEvict(r)
  <2>1. call.returns = "Status" /\ call.request.verb # "GET"
    BY <1>1, <1>8 DEF AnswerEvict, Fits
  <2>2. response'.status = 201 /\ response'.body = "Status" /\ response'.done
    BY <1>8, AnswerIs DEF AnswerEvict
  <2> QED
    BY <2>1, <2>2 DEF Good, Matches, Fresh
<1>9. CASE AnswerPatch(r)
  <2>1. call.returns = ObjectBody(r) /\ call.request.verb # "GET"
    BY <1>1, <1>9 DEF AnswerPatch, Fits
  <2>2. response'.status \in {200, 201} /\ response'.body = ObjectBody(r) /\ response'.done
    BY <1>9, AnswerIs DEF AnswerPatch
  <2> QED
    BY <2>1, <2>2, BodyTypes DEF Good, Matches, Fresh
<1>10. CASE AnswerDelete(r)
  <2>1. call.returns = (IF r.name # None THEN "EitherK" ELSE "EitherList") /\ call.request.verb # "GET"
    BY <1>1, <1>10 DEF AnswerDelete, Fits
  <2>2. /\ response'.status = 200 /\ response'.done
        /\ response'.body = "Status" \/ response'.body = (IF r.name # None THEN "K" ELSE "List")
    BY <1>10, AnswerIs DEF AnswerDelete
  <2> QED
    BY <2>1, <2>2 DEF Good, Matches, Fresh
<1> QED
  BY <1>2, <1>3, <1>4, <1>5, <1>6, <1>7, <1>8, <1>9, <1>10 DEF Served

\* What is refused, by the server or on the way, says so.
LEMMA RefusedIsBad ==
  ASSUME Deny(call.request) \/ Intercept PROVE Bad(response')
<1>1. CASE Deny(call.request)
  BY <1>1 DEF Deny, Bad
<1>2. CASE Intercept
  BY <1>2, ApiMethodsAssumption DEF Intercept, Bad
<1> QED
  BY <1>1, <1>2

\* An answer that the method understands is what it returns.
LEMMA GoodIsReturned ==
  ASSUME NEW c, NEW a, Good(c, a)
  PROVE  Optional(c, Decoded(c, a)) = Returned(a.body, a.version) /\ a.body # "None"
<1>1. Matches(c, a)
  BY DEF Good
<1>2. Decoded(c, a) = Returned(a.body, a.version)
  <2>1. CASE a.status = 101 /\ c.returns = "WebSocket"
    BY <2>1 DEF Decoded, connect
  <2>2. CASE a.status \in {200, 201}
    <3>1. request_text(a) = Returned(a.body, a.version)
      BY <2>2 DEF request_text, HasFailed
    <3>2. \A type : Parses(a.body, type) => request(a, type) = Returned(a.body, a.version)
      BY <3>1 DEF request, Returned
    <3>3. CASE c.returns \in {"AsyncBufRead", "String"} \/ (c.returns = "Events" /\ a.body = "Events")
      BY <3>1, <3>3 DEF Decoded, request_stream, request_events
    <3>4. CASE c.returns = "EitherK" /\ a.body \in {"K", "Status"}
      <4>1. request_status(a, "K") = Returned(a.body, a.version)
        BY <3>2, <3>4 DEF request_status, Parses
      <4> QED
        BY <3>4, <4>1 DEF Decoded
    <3>5. CASE c.returns = "EitherList" /\ a.body \in {"List", "Status"}
      <4>1. request_status(a, "List") = Returned(a.body, a.version)
        BY <3>2, <3>5 DEF request_status, Parses
      <4> QED
        BY <3>5, <4>1 DEF Decoded
    <3>6. CASE a.body = c.returns /\ a.body \in {"K", "Partial", "Scale", "TokenRequest",
                                                 "Status", "List", "PartialList"}
      <4>1. request(a, c.returns) = Returned(a.body, a.version)
        BY <3>2, <3>6 DEF Parses
      <4> QED
        BY <3>6, <4>1 DEF Decoded
    <3>7. a.status # 101
      BY <2>2
    <3> QED
      BY <1>1, <3>3, <3>4, <3>5, <3>6, <3>7 DEF Matches
  <2> QED
    BY <1>1, <2>1, <2>2 DEF Matches
<1>3. Returned(a.body, a.version) # Refused("NotFound")
  BY DEF Returned, Refused
<1> QED
  BY <1>1, <1>2, <1>3 DEF Optional, Matches

\* A refusal is an error, or the None of a get_opt whose object is not there.
LEMMA BadIsRefused ==
  ASSUME NEW c, NEW a, Bad(a), c.returns \notin {"AsyncBufRead", "Events"}
  PROVE  LET result == Optional(c, Decoded(c, a))
         IN  \/ result.result = "Err"
             \/ result = Returned("None", 0) /\ a.status = 404 /\ a.body = "ErrorResponse"
<1>1. request_text(a) = ApiError(a)
  BY DEF request_text, HasFailed, Bad
<1>2. ApiError(a).result = "Err"
  BY DEF ApiError, Refused
<1>3. \A type : request(a, type) = ApiError(a)
  BY <1>1, <1>2 DEF request
<1>4. Decoded(c, a) = ApiError(a) \/ Decoded(c, a) = Refused("UpgradeConnection")
  BY <1>1, <1>3 DEF Decoded, request_status, connect, Bad
<1>5. /\ Refused("UpgradeConnection").result = "Err"
      /\ Refused("UpgradeConnection") # Refused("NotFound")
  BY DEF Refused
<1>6. ApiError(a) = Refused("NotFound") => a.status = 404 /\ a.body = "ErrorResponse"
  BY DEF ApiError, Refused, Bad
<1> QED
  BY <1>2, <1>4, <1>5, <1>6 DEF Optional

-----------------------------------------------------------------------------
(* The invariant: where a call is, and what is known of its answer         *)

InFlight == call \in Calls /\ call.request # Request!Invalid
Answered == Good(call, response) \/ Bad(response)

\* A result is the fault of the connection, of the parameters, or the decoded answer.
Told ==
    \/ outcome = Refused("HyperError")
    \/ outcome = Refused("BuildRequest") /\ response = Refused("none")
    \/ Answered /\ outcome = Optional(call, Decoded(call, response))

\* The inductive invariant of the methods of Api: a call in flight is one of the methods',
\* with valid parameters; there is an answer only when the server or a proxy gave one.
CallInv ==
    /\ version \in Nat
    /\ stage \in {"idle", "sent", "answered", "returned"}
    /\ stage \in {"idle", "sent"} => response = Refused("none")
    /\ stage \in {"sent", "answered"} => InFlight
    /\ stage = "answered" => Answered
    /\ stage = "returned" => Told

\* No call is made yet.
LEMMA InitCallInv == Init => CallInv
BY DEF Init, CallInv

\* Every step of the caller, the server and the others keeps it.
LEMMA NextCallInv == CallInv /\ [Next]_vars => CallInv'
<1> SUFFICES ASSUME CallInv, [Next]_vars PROVE CallInv'
  OBVIOUS
<1>1. CASE UNCHANGED vars
  <2> USE <1>1 DEF vars
  <2>1. InFlight' <=> InFlight
    BY DEF InFlight
  <2>2. Answered' <=> Answered
    BY DEF Answered, Good, Bad, Matches, Fresh, None, Some
  <2>3. Told' <=> Told
    BY <2>2 DEF Told
  <2> QED
    BY <2>1, <2>2, <2>3 DEF CallInv
<1>2. ASSUME NEW c \in Calls, Send(c) PROVE CallInv'
  <2>1. /\ stage = "idle" /\ call' = c /\ version' = version /\ response' = response
        /\ response = Refused("none")
    BY <1>2 DEF Send, server, CallInv
  <2>2. CASE c.request = Request!Invalid
    <3>1. stage' = "returned" /\ outcome' = Refused("BuildRequest")
      BY <1>2, <2>2 DEF Send
    <3> QED
      BY <2>1, <3>1 DEF CallInv, Told
  <2>3. CASE c.request # Request!Invalid
    <3>1. stage' = "sent"
      BY <1>2, <2>3 DEF Send
    <3>2. InFlight'
      BY <2>1, <2>3 DEF InFlight
    <3> QED
      BY <2>1, <3>1, <3>2 DEF CallInv
  <2> QED
    BY <2>2, <2>3
<1>3. CASE Finish
  BY <1>3 DEF Finish, CallInv, server
<1>4. CASE Handle
  <2>1. /\ stage = "sent" /\ stage' = "answered" /\ call' = call
        /\ Served(call.request) \/ Deny(call.request) \/ Intercept
    BY <1>4 DEF Handle
  <2>2. InFlight /\ version \in Nat
    BY <2>1 DEF CallInv
  <2>3. InFlight'
    BY <2>1, <2>2 DEF InFlight
  <2>4. CASE Served(call.request)
    <3>1. Good(call, response')
      BY <2>2, <2>4, CallsSound, ServedIsGood DEF InFlight
    <3>2. Answered'
      BY <2>1, <3>1 DEF Answered
    <3>3. version' \in Nat
      BY <2>2, <2>4, AnswerIs DEF Served, AnswerRead, AnswerWatch, AnswerLog, AnswerUpgrade, AnswerCreate,
           AnswerSub, AnswerEvict, AnswerPatch, AnswerDelete
    <3> QED
      BY <2>1, <2>3, <3>2, <3>3 DEF CallInv
  <2>5. CASE Deny(call.request) \/ Intercept
    <3>1. Bad(response')
      BY <2>5, RefusedIsBad
    <3>2. Answered'
      BY <3>1 DEF Answered
    <3>3. version' = version
      BY <2>5 DEF Deny, Intercept, server
    <3> QED
      BY <2>1, <2>2, <2>3, <3>2, <3>3 DEF CallInv
  <2> QED
    BY <2>1, <2>4, <2>5
<1>5. CASE Return
  <2>1. /\ stage = "answered" /\ stage' = "returned" /\ call' = call /\ response' = response
        /\ version' = version /\ outcome' = Optional(call, Decoded(call, response))
    BY <1>5 DEF Return, server
  <2>2. Good(call, response) \/ Bad(response)
    BY <2>1 DEF CallInv, Answered
  <2>3. Answered'
    BY <2>1, <2>2 DEF Answered
  <2>4. Told'
    BY <2>1, <2>3 DEF Told
  <2> QED
    BY <2>1, <2>4 DEF CallInv
<1>6. CASE Disconnected
  <2>1. stage' = "returned" /\ outcome' = Refused("HyperError") /\ version' = version
    BY <1>6 DEF Disconnected, server
  <2>2. Told'
    BY <2>1 DEF Told
  <2> QED
    BY <2>1, <2>2 DEF CallInv
<1>7. CASE Others
  <2>1. /\ stage' = stage /\ call' = call /\ response' = response /\ outcome' = outcome
        /\ version' = version + 1
    BY <1>7 DEF Others
  <2>2. InFlight => InFlight'
    BY <2>1 DEF InFlight
  <2>3. Answered => Answered'
    BY <2>1 DEF Answered
  <2>4. Told => Told'
    BY <2>1, <2>3 DEF Told
  <2> QED
    BY <2>1, <2>2, <2>3, <2>4 DEF CallInv
<1> QED
  BY <1>1, <1>2, <1>3, <1>4, <1>5, <1>6, <1>7 DEF Next

\* The invariant holds of every state the methods reach.
THEOREM CallInvariant == Spec => []CallInv
BY InitCallInv, NextCallInv, PTL DEF Spec

\* Ok and None are true, and what the server did is reported as done: by the decoders of
\* client/mod.rs, the methods of Api and the error handling of both, for every method but
\* log_stream and watch, and whichever failing statuses proxies answer with.
THEOREM ResultsAreTrue == Spec => []OutcomeIsTrue
<1>1. CallInv => OutcomeIsTrue
  <2> SUFFICES ASSUME CallInv, stage = "returned" PROVE OutcomeIsTrue
    BY DEF OutcomeIsTrue, SuccessIsTrue, AnswersAreUnderstood
  <2>1. CASE outcome = Refused("HyperError")
    BY <2>1 DEF OutcomeIsTrue, SuccessIsTrue, AnswersAreUnderstood, Refused
  <2>2. CASE outcome = Refused("BuildRequest") /\ response = Refused("none")
    BY <2>2 DEF OutcomeIsTrue, SuccessIsTrue, AnswersAreUnderstood, Refused
  <2>3. CASE Good(call, response) /\ outcome = Optional(call, Decoded(call, response))
    <3>1. outcome = Returned(response.body, response.version) /\ response.body # "None"
      BY <2>3, GoodIsReturned
    <3>2. outcome.result = "Ok" /\ outcome.body # "None"
      BY <3>1 DEF Returned
    <3>3. response.done
      BY <2>3 DEF Good
    <3> QED
      BY <3>2, <3>3 DEF OutcomeIsTrue, SuccessIsTrue, AnswersAreUnderstood
  <2>4. CASE Bad(response) /\ outcome = Optional(call, Decoded(call, response))
    <3>1. ~response.done
      BY <2>4 DEF Bad
    <3>2. ASSUME call.returns \notin {"AsyncBufRead", "Events"}
          PROVE  \/ outcome.result = "Err"
                 \/ outcome = Returned("None", 0) /\ response.status = 404 /\ response.body = "ErrorResponse"
      BY <2>4, <3>2, BadIsRefused
    <3>3. Returned("None", 0).body = "None"
      BY DEF Returned
    <3> QED
      BY <3>1, <3>2, <3>3 DEF OutcomeIsTrue, SuccessIsTrue, AnswersAreUnderstood
  <2> QED
    BY <2>1, <2>2, <2>3, <2>4 DEF CallInv, Told, Answered
<1> QED
  BY <1>1, CallInvariant, PTL

\* A read is as fresh as its ListParams or GetParams ask: whatever path the version and its
\* match take through the builders, the query and the decoder.
THEOREM ReadsHaveTheVersion == Spec => []ReadsAreFresh
<1>1. CallInv => ReadsAreFresh
  <2> SUFFICES ASSUME CallInv, stage = "returned", outcome.result = "Ok", call.request.verb = "GET",
                      call.returns \notin {"AsyncBufRead", "Events"}, outcome.body # "None",
                      ~call.wants.paged
               PROVE  /\ call.wants.at = None => outcome.version = response.latest
                      /\ \A v \in call.wants.at : outcome.version >= v
                      /\ call.wants.match = Some("Exact") => outcome.version \in call.wants.at
    BY DEF ReadsAreFresh
  <2>1. \A e : Refused(e).result = "Err"
    BY DEF Refused
  <2>2. /\ Answered
        /\ outcome = Optional(call, Decoded(call, response))
    BY <2>1 DEF CallInv, Told
  <2>3. CASE Good(call, response)
    <3>1. outcome = Returned(response.body, response.version)
      BY <2>2, <2>3, GoodIsReturned
    <3>2. outcome.version = response.version
      BY <3>1 DEF Returned
    <3> QED
      BY <2>3, <3>2 DEF Good, Fresh
  <2>4. CASE Bad(response)
    <3>1. Returned("None", 0).body = "None"
      BY DEF Returned
    <3> QED
      BY <2>2, <2>4, <3>1, BadIsRefused
  <2> QED
    BY <2>2, <2>3, <2>4 DEF Answered
<1> QED
  BY <1>1, CallInvariant, PTL

-----------------------------------------------------------------------------
(* What a call does to the server                                          *)

\* An answer is given to a call in flight.
LEMMA HandledIs ==
  ASSUME CallInv, [Next]_vars, Handled
  PROVE  /\ Sound(call)
         /\ Served(call.request) \/ UNCHANGED objects
<1>1. Handle
  BY DEF Next, vars, Handled, Send, Finish, Return, Disconnected, Others
<1>2. Sound(call)
  BY CallsSound DEF CallInv, InFlight, Handled
<1>3. CASE Deny(call.request) \/ Intercept
  BY <1>2, <1>3 DEF Deny, Intercept, server
<1> QED
  BY <1>1, <1>2, <1>3 DEF Handle

\* An object that changes is one that the request is about, as it is when the request
\* arrives, or one that was not there.
LEMMA ChangedAreTargets ==
  ASSUME Sound(call), Served(call.request), NEW n \in Namespace, objects'[n] # objects[n]
  PROVE  \/ objects[n] = Absent /\ n \in call.request.url.namespace
         \/ /\ n \in Targets(call.request)
            /\ call.request.verb = "DELETE" => Fulfils(objects[n], call.request)
<1> DEFINE r == call.request
           fulfilling == {m \in Targets(r) : Fulfils(objects[m], r)}
<1>1. \A T : objects' = Touched(T) \/ objects' = Removed(T) => n \in T
  BY DEF Touched, Removed
<1>2. objects' = Created(r) => objects[n] = Absent /\ n \in r.url.namespace
  BY DEF Created
<1> HIDE DEF r
<1>3. CASE AnswerRead(r) \/ AnswerWatch(r) \/ AnswerLog(r) \/ AnswerUpgrade(r) \/ AnswerSub(r)
  BY <1>3, AnswerIs DEF AnswerRead, AnswerWatch, AnswerLog, AnswerUpgrade, AnswerSub
<1>4. CASE AnswerCreate(r)
  BY <1>2, <1>4, AnswerIs DEF AnswerCreate, r
<1>5. CASE AnswerEvict(r)
  <2>1. n \in Targets(r)
    BY <1>1, <1>5, AnswerIs DEF AnswerEvict
  <2>2. r.verb # "DELETE"
    BY <1>5 DEF AnswerEvict, Sound, Fits, Some, Request!Some, None, Request!None, r
  <2> QED
    BY <2>1, <2>2 DEF r
<1>6. CASE AnswerPatch(r)
  <2>1. r.verb # "DELETE"
    BY <1>6 DEF AnswerPatch
  <2>2. n \in Targets(r) \/ objects' = Created(r)
    BY <1>1, <1>6, AnswerIs DEF AnswerPatch
  <2> QED
    BY <1>2, <2>1, <2>2 DEF r
<1>7. CASE AnswerDelete(r)
  <2>1. objects' = Touched(fulfilling) \/ objects' = Removed(fulfilling)
    BY <1>7, AnswerIs DEF AnswerDelete
  <2>2. n \in fulfilling
    BY <1>1, <2>1
  <2> QED
    BY <2>2 DEF r
<1> QED
  BY <1>3, <1>4, <1>5, <1>6, <1>7 DEF Served, r

\* A dry run changes nothing, whichever method asks for it, in the query or in the body;
\* only the one that an eviction's delete_options alone ask for is carried out.
THEOREM DryRunsAreDry == Spec => DryRunLeavesNoTrace
<1>1. ASSUME CallInv, [Next]_vars, Handled, call.wants.dry_run, "dry_run" \notin call.wants.unheeded
      PROVE  UNCHANGED objects
  <2>1. Sound(call) /\ (Served(call.request) \/ UNCHANGED objects)
    BY <1>1, HandledIs
  <2>2. IsDryRun(call.request)
    BY <1>1, <2>1 DEF Sound, Carries
  <2>3. ASSUME Served(call.request) PROVE UNCHANGED objects
    BY <2>2, <2>3, AnswerIs DEF Served, AnswerRead, AnswerWatch, AnswerLog, AnswerUpgrade, AnswerCreate,
         AnswerSub, AnswerEvict, AnswerPatch, AnswerDelete
  <2> QED
    BY <2>1, <2>3
<1>2. CallInv /\ [Next]_vars
        => [Handled /\ call.wants.dry_run => UNCHANGED objects \/ "dry_run" \in call.wants.unheeded]_vars
  BY <1>1
<1> QED
  BY <1>2, CallInvariant, PTL DEF Spec, DryRunLeavesNoTrace

\* Objects that the Api, the selectors or the preconditions of a call leave out stay as they
\* are, but for the preconditions of an eviction.
THEOREM OnlyWhatIsMeant == Spec => WritesOnlyWhatIsMeant
<1>1. ASSUME CallInv, [Next]_vars, Handled, NEW n \in Namespace, objects'[n] # objects[n] PROVE Meant(n)
  <2> DEFINE r == call.request
  <2>1. Sound(call) /\ Served(r)
    BY <1>1, HandledIs
  <2>2. CASE objects[n] = Absent /\ n \in r.url.namespace
    BY <2>2 DEF Meant
  <2>3. CASE n \in Targets(r) /\ (r.verb = "DELETE" => Fulfils(objects[n], r))
    <3>1. /\ r.url.namespace # None => n \in r.url.namespace
          /\ Value(r, "labelSelector") \cup Value(r, "fieldSelector") \subseteq objects[n].marks
      BY <2>3 DEF Targets
    <3>2. call.wants.selectors \subseteq objects[n].marks
      BY <2>1, <3>1 DEF Sound, Carries
    <3>3. ASSUME "preconditions" \notin call.wants.unheeded, NEW p \in call.wants.preconditions
          PROVE  /\ p.uid # None => objects[n].uid \in p.uid
                 /\ p.resource_version # None => objects[n].version \in p.resource_version
      <4>1. r.verb = "DELETE" /\ \E b \in DeleteOptions(r) : p \in b.preconditions
        BY <2>1, <3>3 DEF Sound, Carries
      <4> QED
        BY <2>3, <4>1 DEF Fulfils
    <3> QED
      BY <3>1, <3>2, <3>3 DEF Meant
  <2> QED
    BY <1>1, <2>1, <2>2, <2>3, ChangedAreTargets
<1>2. CallInv /\ [Next]_vars
        => [Handled => \A n \in Namespace : objects'[n] # objects[n] => Meant(n)]_vars
  BY <1>1
<1> QED
  BY <1>2, CallInvariant, PTL DEF Spec, WritesOnlyWhatIsMeant
-----------------------------------------------------------------------------
(* The order of versions, which sort_versions and resources_by_stability   *)
(* sort by: sort_by wants a total order.                                   *)

Digits == {<< >>} \cup {<<n>> : n \in Nat}

\* What the parser looks at in a string
IsText(s) == /\ s.v \in BOOLEAN /\ s.major \in Digits /\ s.minor \in Digits /\ s.text \in Nat
             /\ s.letters \in {"", "alpha", "beta", "other"}

\* The comparison of four fields, one after the other
LEMMA LessIs ==
  ASSUME NEW a, NEW b, Len(a) = 4
  PROVE  Less(a, b) <=>
           \/ a[1] < b[1]
           \/ a[1] = b[1] /\ a[2] < b[2]
           \/ a[1] = b[1] /\ a[2] = b[2] /\ a[3] < b[3]
           \/ a[1] = b[1] /\ a[2] = b[2] /\ a[3] = b[3] /\ a[4] < b[4]
<1>1. Less(a, b) <=> \E i \in {1, 2, 3, 4} : a[i] < b[i] /\ \A j \in 1..(i - 1) : a[j] = b[j]
  <2>1. 1..Len(a) = {1, 2, 3, 4}
    OBVIOUS
  <2> QED
    BY <2>1 DEF Less
<1>2. 1..(1 - 1) = {} /\ 1..(2 - 1) = {1} /\ 1..(3 - 1) = {1, 2} /\ 1..(4 - 1) = {1, 2, 3}
  OBVIOUS
<1> QED
  BY <1>1, <1>2

\* Digits are none, or a number.
LEMMA DigitsAre ==
  ASSUME NEW d \in Digits
  PROVE  /\ d = << >> \/ (d # << >> /\ d[1] \in Nat /\ d = <<d[1]>>)
         /\ OptionRank(d) \in Int
<1>1. d = << >> \/ (d # << >> /\ d[1] \in Nat /\ d = <<d[1]>>)
  BY DEF Digits
<1> QED
  BY <1>1 DEF OptionRank

\* They are told apart by their rank: None is below every number.
LEMMA RankIsInjective ==
  ASSUME NEW d \in Digits, NEW e \in Digits, OptionRank(d) = OptionRank(e) PROVE d = e
<1>1. d = << >> \/ (d # << >> /\ d[1] \in Nat /\ d = <<d[1]>>)
  BY DigitsAre
<1>2. e = << >> \/ (e # << >> /\ e[1] \in Nat /\ e = <<e[1]>>)
  BY DigitsAre
<1>3. /\ d = << >> => OptionRank(d) = -1
      /\ d # << >> => OptionRank(d) = d[1]
  BY DEF OptionRank
<1>4. /\ e = << >> => OptionRank(e) = -1
      /\ e # << >> => OptionRank(e) = e[1]
  BY DEF OptionRank
<1> QED
  BY <1>1, <1>2, <1>3, <1>4

IsVersion(p) ==
    /\ p = Version(p.stability, p.major, p.minor, p.text)
    /\ p.stability \in {"Nonconformant", "Alpha", "Beta", "Stable"}
    /\ p.major \in Nat /\ p.minor \in Digits /\ p.text \in Nat

\* The fields of a version
LEMMA VersionFields ==
  ASSUME NEW stability \in {"Nonconformant", "Alpha", "Beta", "Stable"}, NEW major \in Nat,
         NEW minor \in Digits, NEW text \in Nat
  PROVE  IsVersion(Version(stability, major, minor, text))
BY DEF IsVersion, Version

\* Every string is parsed to a version.
LEMMA ParseIsVersion == ASSUME NEW s, IsText(s) PROVE IsVersion(parse(s))
<1>1. CASE Conformant(s)
  <2>1. s.major # << >> /\ s.letters \in {"", "alpha", "beta"} /\ s.major \in Digits /\ s.minor \in Digits
    BY <1>1 DEF Conformant, IsU32, IsText
  <2>2. s.major[1] \in Nat
    BY <2>1, DigitsAre
  <2>3. \E st \in {"Alpha", "Beta", "Stable"} : parse(s) = Version(st, s.major[1], s.minor, 0)
    BY <1>1, <2>1 DEF parse
  <2> QED
    BY <2>1, <2>2, <2>3, VersionFields
<1>2. CASE ~Conformant(s)
  <2>1. parse(s) = Version("Nonconformant", 0, << >>, s.text)
    BY <1>2 DEF parse
  <2>2. << >> \in Digits /\ s.text \in Nat
    BY DEF Digits, IsText
  <2> QED
    BY <2>1, <2>2, VersionFields
<1> QED
  BY <1>1, <1>2

\* Its priority is four numbers.
LEMMA PriorityIs ==
  ASSUME NEW p, IsVersion(p)
  PROVE  /\ priority(p) = <<Stability[p.stability], p.major, OptionRank(p.minor), 0 - p.text>>
         /\ Stability[p.stability] \in Int /\ p.major \in Int /\ OptionRank(p.minor) \in Int
         /\ 0 - p.text \in Int
<1>1. OptionRank(p.minor) \in Int
  BY DigitsAre DEF IsVersion
<1>2. Stability[p.stability] \in Int
  BY DEF IsVersion, Stability
<1>3. p.major \in Int /\ 0 - p.text \in Int
  BY DEF IsVersion
<1> QED
  BY <1>1, <1>2, <1>3 DEF priority

\* Versions compare by stability first, whatever their numbers.  Version::priority is a strict
\* total order of the versions that strings are parsed to (derive(Ord) of version.rs): what
\* sort_by is given never contradicts itself, and only equal versions compare as equal,
\* whatever the digits, those too large for a u32 included.
THEOREM PriorityIsTotal ==
  ASSUME NEW s, NEW t, NEW u, IsText(s), IsText(t), IsText(u)
  PROVE  LET Below(x, y) == Less(priority(parse(x)), priority(parse(y)))
         IN  /\ Stability[parse(s).stability] < Stability[parse(t).stability] => Below(s, t)
             /\ ~(Below(s, t) /\ Below(t, s))
             /\ Below(s, t) /\ Below(t, u) => Below(s, u)
             /\ parse(s) # parse(t) => Below(s, t) \/ Below(t, s)
<1> DEFINE A(x) == Stability[parse(x).stability]
           B(x) == parse(x).major
           C(x) == OptionRank(parse(x).minor)
           D(x) == 0 - parse(x).text
           Below(x, y) == Less(priority(parse(x)), priority(parse(y)))
<1>1. \A x \in {s, t, u} : IsVersion(parse(x))
  BY ParseIsVersion
<1>2. \A x \in {s, t, u} : /\ priority(parse(x)) = <<A(x), B(x), C(x), D(x)>>
                           /\ A(x) \in Int /\ B(x) \in Int /\ C(x) \in Int /\ D(x) \in Int
  BY <1>1, PriorityIs
<1>3. ASSUME parse(s) # parse(t) PROVE A(s) # A(t) \/ B(s) # B(t) \/ C(s) # C(t) \/ D(s) # D(t)
  <2> DEFINE p == parse(s)
             q == parse(t)
  <2>1. IsVersion(p) /\ IsVersion(q) /\ p # q
    BY <1>1, <1>3
  <2> HIDE DEF p, q
  <2>2. Stability[p.stability] = Stability[q.stability] => p.stability = q.stability
    BY <2>1 DEF Stability, IsVersion
  <2>3. OptionRank(p.minor) = OptionRank(q.minor) => p.minor = q.minor
    BY <2>1, RankIsInjective DEF IsVersion
  <2>4. 0 - p.text = 0 - q.text => p.text = q.text
    BY <2>1 DEF IsVersion
  <2>5. p.stability # q.stability \/ p.major # q.major \/ p.minor # q.minor \/ p.text # q.text
    BY <2>1 DEF IsVersion
  <2> QED
    BY <2>2, <2>3, <2>4, <2>5 DEF p, q
<1> HIDE DEF A, B, C, D
<1>4. ASSUME NEW x \in {s, t, u}, NEW y \in {s, t, u}
      PROVE  Below(x, y) <=> \/ A(x) < A(y)
                             \/ A(x) = A(y) /\ B(x) < B(y)
                             \/ A(x) = A(y) /\ B(x) = B(y) /\ C(x) < C(y)
                             \/ A(x) = A(y) /\ B(x) = B(y) /\ C(x) = C(y) /\ D(x) < D(y)
  <2> DEFINE a == priority(parse(x))
             b == priority(parse(y))
  <2>1. /\ a = <<A(x), B(x), C(x), D(x)>> /\ b = <<A(y), B(y), C(y), D(y)>>
        /\ Below(x, y) <=> Less(a, b)
    BY <1>2
  <2> HIDE DEF a, b, Below
  <2>2. Len(a) = 4 /\ a[1] = A(x) /\ a[2] = B(x) /\ a[3] = C(x) /\ a[4] = D(x)
    BY ONLY <2>1
  <2>3. b[1] = A(y) /\ b[2] = B(y) /\ b[3] = C(y) /\ b[4] = D(y)
    BY ONLY <2>1
  <2>4. Below(x, y) <=> Less(a, b)
    BY <2>1
  <2> QED
    BY ONLY <2>2, <2>3, <2>4, LessIs
<1> HIDE DEF Below
<1>5. A(s) < A(t) => Below(s, t)
  BY <1>4
<1>6. ~(Below(s, t) /\ Below(t, s))
  BY <1>2, <1>4
<1>7. Below(s, t) /\ Below(t, u) => Below(s, u)
  BY <1>2, <1>4
<1>8. parse(s) # parse(t) => Below(s, t) \/ Below(t, s)
  BY <1>2, <1>3, <1>4
<1> QED
  BY <1>5, <1>6, <1>7, <1>8 DEF Below, A
=============================================================================
