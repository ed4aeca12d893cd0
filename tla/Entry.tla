------------------------------- MODULE Entry --------------------------------
(***************************************************************************)
(* kube-client/src/api/entry.rs: get-or-create and get-and-modify with     *)
(* optimistic concurrency.  Several clients hold entries of one object; a  *)
(* commit sends one request, which other clients overtake, whose answer    *)
(* may be lost, and which may be handled after its future was dropped.     *)
(*                                                                         *)
(* The content of an object is the set of edits made to it.  The server    *)
(* (external): create fails if the object exists, replace fails unless the *)
(* version sent is the current one (or none is sent), a dry run changes    *)
(* nothing and answers with the object as sent.                            *)
(***************************************************************************)
EXTENDS Naturals, FiniteSets, TLC

CONSTANTS Client,
          Unset, Own, Foreign,   \* a name or namespace: none, the entry's, another
          MaxVersion,            \* bound on the writes of the server
          MaxEdits,              \* bound on the edits of a client
          MaxRequests            \* bound on the requests on their way

ASSUME EntryAssumption ==
    /\ MaxVersion \in Nat /\ MaxEdits \in Nat /\ MaxRequests \in Nat
    /\ Own # Foreign /\ Unset \notin {Own, Foreign}

VARIABLES objects,     \* by name: version (0: does not exist) and content
          version,     \* the last version the server gave out
          stored,      \* history: all [version, content] the object ever had
          entries,     \* the entry a client holds
          edits,       \* how many edits a client has made
          requests,    \* requests on their way
          awaited      \* the request whose answer a client waits for, {} for none

vars == <<objects, version, stored, entries, edits, requests, awaited>>

Name == {Own, Foreign}
Edit == Client \X (1..MaxEdits)
Meta == [name : {Unset, Own, Foreign}, namespace : {Unset, Own, Foreign}, generate_name : BOOLEAN]
OwnMeta == [name |-> Own, namespace |-> Own, generate_name |-> FALSE]
NoMeta == [name |-> Unset, namespace |-> Unset, generate_name |-> FALSE]
Object == [version : 0..MaxVersion, content : SUBSET Edit, meta : Meta]

Occupied(dirtiness, object) == [kind |-> dirtiness, object |-> object]
Vacant == [kind |-> "Vacant"]
NoEntry == [kind |-> "None"]
IsOccupied(c) == entries[c].kind \in {"Clean", "Dirty", "New"}
Idle(c) == awaited[c] = {}

Init ==
    /\ objects = [n \in Name |-> [version |-> 0, content |-> {}]]
    /\ version = 0
    /\ stored = {}
    /\ entries = [c \in Client |-> NoEntry]
    /\ edits = [c \in Client |-> 0]
    /\ requests = {}
    /\ awaited = [c \in Client |-> {}]

-----------------------------------------------------------------------------
(* Api::entry, Entry, OccupiedEntry, VacantEntry                           *)

SetEntry(c, e) == entries' = [entries EXCEPT ![c] = e]

\* get_opt
entry(c) ==
    /\ Idle(c)
    /\ SetEntry(c, IF objects[Own].version = 0
                   THEN Vacant
                   ELSE Occupied("Clean", [version |-> objects[Own].version,
                                           content |-> objects[Own].content, meta |-> OwnMeta]))
    /\ UNCHANGED <<objects, version, stored, edits, requests, awaited>>

NewEdit(c) ==
    /\ edits[c] < MaxEdits
    /\ edits' = [edits EXCEPT ![c] = @ + 1]

\* What a user may insert: metadata that is left out, right, or wrong in one place.
InsertedMeta == {NoMeta, OwnMeta, [NoMeta EXCEPT !.name = Foreign],
                 [NoMeta EXCEPT !.namespace = Foreign], [NoMeta EXCEPT !.generate_name = TRUE]}

insert(c, meta) ==
    /\ Idle(c)
    /\ entries[c] = Vacant
    /\ NewEdit(c)
    /\ SetEntry(c, Occupied("New", [version |-> 0, content |-> {<<c, edits'[c]>>}, meta |-> meta]))
    /\ UNCHANGED <<objects, version, stored, requests, awaited>>

\* get_mut's dirtiness
Dirtied(kind) == IF kind = "New" THEN "New" ELSE "Dirty"

get_mut(c) ==
    /\ Idle(c)
    /\ IsOccupied(c)
    /\ NewEdit(c)
    /\ SetEntry(c, Occupied(Dirtied(entries[c].kind),
                            [entries[c].object EXCEPT !.content = @ \cup {<<c, edits'[c]>>}]))
    /\ UNCHANGED <<objects, version, stored, requests, awaited>>

ValidName_Any(meta) == TRUE
ValidName(meta) == meta.name \in {Unset, Own}
ValidNamespace(meta) == meta.namespace \in {Unset, Own}

\* prepare_for_commit defaults name and namespace as far as it gets.
Prepared(meta) ==
    IF ~ValidName(meta) THEN meta
    ELSE [meta EXCEPT !.name = IF @ = Unset THEN Own ELSE @,
                      !.namespace = IF @ = Unset THEN Own ELSE @]

Valid(meta) == ValidName(meta) /\ ValidNamespace(meta) /\ ~meta.generate_name

PreparedEntry(c) ==
    Occupied(entries[c].kind, [entries[c].object EXCEPT !.meta = Prepared(@)])

CommitInvalid(c) ==
    /\ Idle(c) /\ IsOccupied(c)
    /\ ~Valid(entries[c].object.meta)
    /\ SetEntry(c, PreparedEntry(c))
    /\ UNCHANGED <<objects, version, stored, edits, requests, awaited>>

CommitClean(c) ==
    /\ Idle(c)
    /\ entries[c].kind = "Clean"
    /\ Valid(entries[c].object.meta)
    /\ UNCHANGED vars

SentObject_Unversioned(o) == [o EXCEPT !.version = 0]

\* The object goes to the server as it is, with its version if it has one.
SentObject(o) == o

Request(c, dry_run) ==
    [client |-> c, op |-> IF entries[c].kind = "New" THEN "create" ELSE "replace",
     dry_run |-> dry_run, object |-> SentObject(PreparedEntry(c).object)]

Commit(c, dry_run) ==
    /\ Idle(c)
    /\ Cardinality(requests) < MaxRequests
    /\ entries[c].kind \in {"New", "Dirty"}
    /\ Valid(entries[c].object.meta)
    /\ SetEntry(c, PreparedEntry(c))
    /\ requests' = requests \cup {Request(c, dry_run)}
    /\ awaited' = [awaited EXCEPT ![c] = {Request(c, dry_run)}]
    /\ UNCHANGED <<objects, version, stored, edits>>

Committed_AlwaysClean(kind, dry_run) == "Clean"

\* Dirtiness after a request that succeeded
Committed(kind, dry_run) == IF dry_run THEN kind ELSE "Clean"

Succeeds(c, dry_run, answer) ==
    /\ SetEntry(c, Occupied(Committed(entries[c].kind, dry_run), answer))
    /\ awaited' = [awaited EXCEPT ![c] = {}]

\* Err(CommitError::Save): the entry stays as it is.
Fails(c) ==
    /\ awaited' = [awaited EXCEPT ![c] = {}]
    /\ UNCHANGED entries

\* The future of commit is dropped; the request is on its way.
Cancel(c) ==
    /\ ~Idle(c)
    /\ Fails(c)
    /\ UNCHANGED <<objects, version, stored, edits, requests>>

-----------------------------------------------------------------------------
(* The server.  External.                                                  *)

Target(r) == IF r.op = "create" THEN r.object.meta.name ELSE Own

Acceptable(r) ==
    IF r.op = "create"
    THEN objects[Target(r)].version = 0
    ELSE objects[Target(r)].version # 0 /\ r.object.version \in {0, objects[Target(r)].version}

Write(n, content) ==
    /\ version < MaxVersion
    /\ version' = version + 1
    /\ objects' = [objects EXCEPT ![n] = [version |-> version', content |-> content]]
    /\ stored' = IF n = Own THEN stored \cup {objects'[n]} ELSE stored

\* An answer reaches the client if it still waits for it, and may get lost.
Answer(r, version_answered) ==
    \/ /\ awaited[r.client] = {r}
       /\ Succeeds(r.client, r.dry_run, [r.object EXCEPT !.version = version_answered])
    \/ awaited[r.client] = {r} /\ Fails(r.client)
    \/ awaited[r.client] # {r} /\ UNCHANGED <<entries, awaited>>

Handle(r) ==
    /\ requests' = requests \ {r}
    /\ UNCHANGED edits
    /\ \/ /\ Acceptable(r) /\ ~r.dry_run
          /\ Write(Target(r), r.object.content)
          /\ Answer(r, version')
       \/ /\ Acceptable(r) /\ r.dry_run
          /\ UNCHANGED <<objects, version, stored>>
          /\ Answer(r, r.object.version)
       \/ /\ ~Acceptable(r)
          /\ UNCHANGED <<objects, version, stored>>
          /\ \/ awaited[r.client] = {r} /\ Fails(r.client)
             \/ awaited[r.client] # {r} /\ UNCHANGED <<entries, awaited>>

\* The request does not reach the server, or it refuses for another reason.
Lose(r) ==
    /\ requests' = requests \ {r}
    /\ \/ awaited[r.client] = {r} /\ Fails(r.client)
       \/ awaited[r.client] # {r} /\ UNCHANGED <<entries, awaited>>
    /\ UNCHANGED <<objects, version, stored, edits>>

Delete ==
    /\ objects[Own].version # 0
    /\ objects' = [objects EXCEPT ![Own] = [version |-> 0, content |-> {}]]
    /\ UNCHANGED <<version, stored, entries, edits, requests, awaited>>

Next == \/ Delete
        \/ \E r \in requests : Handle(r) \/ Lose(r)
        \/ \E c \in Client : \/ entry(c) \/ get_mut(c) \/ Cancel(c)
                             \/ CommitInvalid(c) \/ CommitClean(c)
                             \/ \E m \in InsertedMeta : insert(c, m)
                             \/ \E d \in BOOLEAN : Commit(c, d)

Spec == Init /\ [][Next]_vars

\* Clients are interchangeable.
ClientSymmetry == Permutations(Client)

-----------------------------------------------------------------------------
\* A commit that succeeds never undoes what another client has written since the entry
\* was fetched: "This function can fail ... due to write conflicts", rather.
NoLostUpdate ==
    [][objects[Own].version # 0 /\ objects'[Own].version # 0
         => objects[Own].content \subseteq objects'[Own].content]_vars

\* An entry that is Clean holds an object that was really stored: neither a dry run, nor
\* an error, nor a lost answer makes local edits count as saved.
CleanIsStored ==
    \A c \in Client : entries[c].kind = "Clean" =>
      [version |-> entries[c].object.version, content |-> entries[c].object.content] \in stored

\* Only the object that the entry names is ever written ("refers to the same object as
\* the original Api::entry call"), whatever name the inserted object carries.
OnlyOwnObject == objects[Foreign].version = 0

\* What a commit reports is what was stored, and where.
CommitIsTrue == CleanIsStored /\ OnlyOwnObject
=============================================================================
