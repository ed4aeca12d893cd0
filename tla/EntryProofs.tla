---------------------------- MODULE EntryProofs -----------------------------
(***************************************************************************)
(* The entry API, proved for every set of clients and all bounds: a commit *)
(* never undoes another client's write, what is reported as committed was  *)
(* stored, and no other object is ever written.                            *)
(***************************************************************************)
EXTENDS Entry, TLAPS

Stored == [version : 0..MaxVersion, content : SUBSET Edit]
Entries == {NoEntry, Vacant} \cup [kind : {"Clean", "Dirty", "New"}, object : Object]
Requests == [client : Client, op : {"create", "replace"}, dry_run : BOOLEAN, object : Object]

TypeOK ==
    /\ objects \in [Name -> Stored]
    /\ version \in 0..MaxVersion
    /\ stored \in SUBSET Stored
    /\ entries \in [Client -> Entries]
    /\ edits \in [Client -> 0..MaxEdits]
    /\ requests \in SUBSET Requests
    /\ awaited \in [Client -> SUBSET Requests]

\* The server gives every version out once, and the object as it is now was stored.
VersionsAreUnique ==
    /\ \A s \in stored : s.version # 0 /\ s.version <= version
    /\ \A s, t \in stored : s.version = t.version => s = t
    /\ objects[Own].version # 0 => objects[Own] \in stored

\* The object was fetched, and has only been edited since.
Descends(object) ==
    /\ object.version # 0
    /\ \E s \in stored : s.version = object.version /\ s.content \subseteq object.content

\* What a client holds and did not create descends from what was stored.
EntriesDescend ==
    \A c \in Client : entries[c].kind \in {"Clean", "Dirty"} => Descends(entries[c].object)

\* A create names the entry's object, and a replace descends from what was stored.
Lawful(r) == IF r.op = "create" THEN r.object.meta.name = Own ELSE Descends(r.object)

RequestsDescend ==
    /\ \A r \in requests : Lawful(r)
    /\ \A c \in Client : \A r \in awaited[c] : Lawful(r)

\* The entry does not change its kind while a request for it is under way.
AwaitedIsOwn ==
    \A c \in Client : \A r \in awaited[c] :
      /\ r.client = c
      /\ entries[c].kind = IF r.op = "create" THEN "New" ELSE "Dirty"

IInv == TypeOK /\ VersionsAreUnique /\ EntriesDescend /\ RequestsDescend /\ AwaitedIsOwn
          /\ CommitIsTrue
-----------------------------------------------------------------------------
(* Types                                                                   *)

\* prepare_for_commit fills in metadata and changes nothing else.
LEMMA PreparedType ==
  ASSUME NEW c \in Client, TypeOK, IsOccupied(c)
  PROVE  /\ PreparedEntry(c) \in [kind : {"Clean", "Dirty", "New"}, object : Object]
         /\ PreparedEntry(c).kind = entries[c].kind
         /\ PreparedEntry(c).object.version = entries[c].object.version
         /\ PreparedEntry(c).object.content = entries[c].object.content
         /\ Valid(entries[c].object.meta) => PreparedEntry(c).object.meta.name = Own
<1>1. entries[c] \in [kind : {"Clean", "Dirty", "New"}, object : Object]
  BY DEF TypeOK, Entries, IsOccupied, NoEntry, Vacant
<1>2. ASSUME NEW m \in Meta
      PROVE  Prepared(m) \in Meta /\ (Valid(m) => Prepared(m).name = Own)
  BY DEF Prepared, Meta, Valid, ValidName
<1>3. entries[c].object \in Object /\ entries[c].object.meta \in Meta
  BY <1>1 DEF Object
<1>4. [entries[c].object EXCEPT !.meta = Prepared(@)] \in Object
  BY <1>2, <1>3 DEF Object
<1> QED
  BY <1>1, <1>2, <1>3, <1>4 DEF PreparedEntry, Occupied, Object

\* The request that a commit sends
LEMMA RequestType ==
  ASSUME NEW c \in Client, NEW d \in BOOLEAN, TypeOK, entries[c].kind \in {"New", "Dirty"}
  PROVE  /\ Request(c, d) \in Requests
         /\ Request(c, d).client = c
         /\ Request(c, d).object = PreparedEntry(c).object
         /\ Request(c, d).op = IF entries[c].kind = "New" THEN "create" ELSE "replace"
  BY PreparedType DEF Request, Requests, SentObject, IsOccupied

\* What the handling of a request does to the entries: nothing, or the client that
\* waits for it puts the answer into its entry.
LEMMA AnswerCases ==
  ASSUME TypeOK, AwaitedIsOwn, NEW r \in requests, Handle(r) \/ Lose(r)
  PROVE  \/ /\ entries' = entries
            /\ \/ awaited' = awaited
               \/ awaited' = [awaited EXCEPT ![r.client] = {}]
         \/ /\ awaited' = [awaited EXCEPT ![r.client] = {}]
            /\ entries[r.client].kind = IF r.op = "create" THEN "New" ELSE "Dirty"
            /\ \/ /\ ~r.dry_run /\ Acceptable(r) /\ Write(Target(r), r.object.content)
                  /\ entries' = [entries EXCEPT ![r.client] =
                                   Occupied("Clean", [r.object EXCEPT !.version = version'])]
               \/ /\ r.dry_run /\ UNCHANGED <<objects, version, stored>>
                  /\ entries' = [entries EXCEPT ![r.client] =
                                   Occupied(entries[r.client].kind, r.object)]
<1>1. r \in Requests /\ r.client \in Client
  BY DEF TypeOK, Requests
<1>2. r.object = [r.object EXCEPT !.version = r.object.version]
  BY <1>1 DEF Requests, Object
<1>3. awaited[r.client] = {r} => entries[r.client].kind = IF r.op = "create" THEN "New" ELSE "Dirty"
  BY <1>1 DEF AwaitedIsOwn
<1>4. CASE Lose(r)
  BY <1>4 DEF Lose, Fails
<1>5. CASE Handle(r) /\ Acceptable(r) /\ ~r.dry_run
  BY <1>5, <1>3 DEF Handle, Answer, Fails, Succeeds, SetEntry, Committed
<1>6. CASE Handle(r) /\ Acceptable(r) /\ r.dry_run
  BY <1>6, <1>2, <1>3 DEF Handle, Answer, Fails, Succeeds, SetEntry, Committed
<1>7. CASE Handle(r) /\ ~Acceptable(r)
  BY <1>7 DEF Handle, Fails
<1> QED
  BY <1>4, <1>5, <1>6, <1>7

\* What a step does to the server's state: nothing, a deletion, or a lawful write.
LEMMA ServerCases ==
  ASSUME [Next]_vars
  PROVE  \/ UNCHANGED <<objects, version, stored>>
         \/ Delete
         \/ \E r \in requests : /\ Acceptable(r) /\ ~r.dry_run
                                /\ Write(Target(r), r.object.content)
<1>1. ASSUME NEW c \in Client, entry(c) \/ get_mut(c) \/ Cancel(c) \/ CommitInvalid(c) \/ CommitClean(c)
      PROVE  UNCHANGED <<objects, version, stored>>
  BY <1>1 DEF entry, get_mut, Cancel, CommitInvalid, CommitClean, vars
<1>2. ASSUME NEW c \in Client, NEW m \in InsertedMeta, insert(c, m)
      PROVE  UNCHANGED <<objects, version, stored>>
  BY <1>2 DEF insert
<1>3. ASSUME NEW c \in Client, NEW d \in BOOLEAN, Commit(c, d)
      PROVE  UNCHANGED <<objects, version, stored>>
  BY <1>3 DEF Commit
<1>4. ASSUME NEW r \in requests, Lose(r) PROVE UNCHANGED <<objects, version, stored>>
  BY <1>4 DEF Lose
<1>5. ASSUME NEW r \in requests, Handle(r)
      PROVE  \/ UNCHANGED <<objects, version, stored>>
             \/ Acceptable(r) /\ ~r.dry_run /\ Write(Target(r), r.object.content)
  BY <1>5 DEF Handle
<1> QED
  BY <1>1, <1>2, <1>3, <1>4, <1>5 DEF Next, vars

\* Every step keeps the types: a request writes to the object its own entry is for.
LEMMA NextTypeOK ==
  ASSUME TypeOK, AwaitedIsOwn, RequestsDescend, [Next]_vars
  PROVE  TypeOK'
<1> USE EntryAssumption
<1>1. objects' \in [Name -> Stored] /\ version' \in 0..MaxVersion /\ stored' \in SUBSET Stored
  <2>1. CASE UNCHANGED <<objects, version, stored>>
    BY <2>1 DEF TypeOK
  <2>2. CASE Delete
    BY <2>2 DEF TypeOK, Delete, Stored, Name
  <2>3. ASSUME NEW r \in requests, Write(Target(r), r.object.content), Acceptable(r)
        PROVE  objects' \in [Name -> Stored] /\ version' \in 0..MaxVersion /\ stored' \in SUBSET Stored
    <3>1. Target(r) = Own /\ Own \in Name
      BY DEF Target, RequestsDescend, Lawful, Name
    <3>2. r.object.content \in SUBSET Edit
      BY DEF TypeOK, Requests, Object
    <3>3. version' \in 0..MaxVersion
      BY <2>3 DEF Write, TypeOK
    <3>4. [version |-> version', content |-> r.object.content] \in Stored
      BY <3>2, <3>3 DEF Stored
    <3> QED
      BY <2>3, <3>1, <3>3, <3>4 DEF Write, TypeOK
  <2> QED
    BY <2>1, <2>2, <2>3, ServerCases
<1>2. ASSUME NEW r \in requests, Handle(r) \/ Lose(r)
      PROVE  /\ entries' \in [Client -> Entries] /\ awaited' \in [Client -> SUBSET Requests]
             /\ requests' \in SUBSET Requests /\ edits' = edits
  <2>1. r \in Requests /\ r.client \in Client /\ r.object \in Object
    BY DEF TypeOK, Requests
  <2>2. [r.object EXCEPT !.version = version'] \in Object
    BY <1>1, <2>1 DEF Object
  <2>3. requests' = requests \ {r} /\ edits' = edits
    BY <1>2 DEF Handle, Lose
  <2>4. ASSUME NEW k \in {"Clean", "Dirty", "New"}, NEW o \in Object PROVE Occupied(k, o) \in Entries
    BY DEF Occupied, Entries
  <2>5. [awaited EXCEPT ![r.client] = {}] \in [Client -> SUBSET Requests]
    BY DEF TypeOK
  <2>6. CASE entries' = entries
    BY <1>2, <2>3, <2>5, <2>6, AnswerCases DEF TypeOK
  <2>7. CASE entries' = [entries EXCEPT ![r.client] =
                           Occupied("Clean", [r.object EXCEPT !.version = version'])]
    BY <1>2, <2>2, <2>3, <2>4, <2>5, <2>7, AnswerCases DEF TypeOK
  <2>8. CASE /\ entries[r.client].kind = IF r.op = "create" THEN "New" ELSE "Dirty"
             /\ entries' = [entries EXCEPT ![r.client] = Occupied(entries[r.client].kind, r.object)]
    BY <1>2, <2>1, <2>3, <2>4, <2>5, <2>8, AnswerCases DEF TypeOK
  <2> QED
    BY <1>2, <2>6, <2>7, <2>8, AnswerCases
<1>3. ASSUME NEW c \in Client, entry(c)
      PROVE  entries' \in [Client -> Entries] /\ UNCHANGED <<edits, requests, awaited>>
  <2>1. objects[Own].version \in 0..MaxVersion /\ objects[Own].content \in SUBSET Edit
    BY DEF TypeOK, Stored, Name
  <2>2. [version |-> objects[Own].version, content |-> objects[Own].content, meta |-> OwnMeta] \in Object
    BY <2>1 DEF Object, Meta, OwnMeta
  <2> QED
    BY <1>3, <2>2 DEF entry, SetEntry, TypeOK, Entries, Occupied
<1>4. ASSUME NEW c \in Client, NewEdit(c)
      PROVE  edits' \in [Client -> 0..MaxEdits] /\ <<c, edits'[c]>> \in Edit
  BY <1>4 DEF NewEdit, TypeOK, Edit
<1>5. ASSUME NEW c \in Client, NEW m \in InsertedMeta, insert(c, m)
      PROVE  /\ entries' \in [Client -> Entries] /\ edits' \in [Client -> 0..MaxEdits]
             /\ UNCHANGED <<requests, awaited>>
  <2>1. m \in Meta
    <3> USE DEF Meta, NoMeta, OwnMeta
    <3>1. NoMeta \in Meta /\ OwnMeta \in Meta
      OBVIOUS
    <3>2. /\ [NoMeta EXCEPT !.name = Foreign] \in Meta
          /\ [NoMeta EXCEPT !.namespace = Foreign] \in Meta
          /\ [NoMeta EXCEPT !.generate_name = TRUE] \in Meta
      OBVIOUS
    <3> HIDE DEF Meta, NoMeta, OwnMeta
    <3> QED
      BY <3>1, <3>2 DEF InsertedMeta
  <2>2. [version |-> 0, content |-> {<<c, edits'[c]>>}, meta |-> m] \in Object
    BY <1>4, <1>5, <2>1 DEF insert, Object
  <2> QED
    BY <1>4, <1>5, <2>2 DEF insert, SetEntry, TypeOK, Entries, Occupied
<1>6. ASSUME NEW c \in Client, get_mut(c)
      PROVE  /\ entries' \in [Client -> Entries] /\ edits' \in [Client -> 0..MaxEdits]
             /\ UNCHANGED <<requests, awaited>>
  <2>1. entries[c] \in [kind : {"Clean", "Dirty", "New"}, object : Object]
    BY <1>6 DEF get_mut, TypeOK, Entries, IsOccupied, NoEntry, Vacant
  <2>2. [entries[c].object EXCEPT !.content = @ \cup {<<c, edits'[c]>>}] \in Object
    BY <1>4, <1>6, <2>1 DEF get_mut, Object
  <2> QED
    BY <1>4, <1>6, <2>2 DEF get_mut, SetEntry, TypeOK, Entries, Occupied, Dirtied
<1>7. ASSUME NEW c \in Client, CommitInvalid(c)
      PROVE  entries' \in [Client -> Entries] /\ UNCHANGED <<edits, requests, awaited>>
  BY <1>7, PreparedType DEF CommitInvalid, SetEntry, TypeOK, Entries
<1>8. ASSUME NEW c \in Client, NEW d \in BOOLEAN, Commit(c, d)
      PROVE  /\ entries' \in [Client -> Entries] /\ awaited' \in [Client -> SUBSET Requests]
             /\ requests' \in SUBSET Requests /\ edits' = edits
  <2>1. PreparedEntry(c) \in Entries
    BY <1>8, PreparedType DEF Commit, Entries, IsOccupied
  <2>2. Request(c, d) \in Requests
    BY <1>8, RequestType DEF Commit
  <2> QED
    BY <1>8, <2>1, <2>2 DEF Commit, SetEntry, TypeOK
<1>9. ASSUME NEW c \in Client, Cancel(c)
      PROVE  awaited' \in [Client -> SUBSET Requests] /\ UNCHANGED <<entries, edits, requests>>
  BY <1>9 DEF Cancel, Fails, TypeOK
<1>10. ASSUME Delete \/ UNCHANGED vars \/ \E c \in Client : CommitClean(c)
       PROVE  UNCHANGED <<entries, edits, requests, awaited>>
  BY <1>10 DEF Delete, CommitClean, vars
<1> QED
  BY <1>1, <1>2, <1>3, <1>5, <1>6, <1>7, <1>8, <1>9, <1>10 DEF Next, TypeOK

-----------------------------------------------------------------------------
(* Optimistic concurrency                                                  *)

\* A write keeps versions unique, adds to what was stored, and reaches no other object.
LEMMA NextVersions ==
  ASSUME TypeOK, VersionsAreUnique, RequestsDescend, OnlyOwnObject, [Next]_vars
  PROVE  VersionsAreUnique' /\ stored \subseteq stored' /\ OnlyOwnObject'
<1> USE EntryAssumption DEF OnlyOwnObject
<1>1. CASE UNCHANGED <<objects, version, stored>>
  BY <1>1 DEF VersionsAreUnique
<1>2. CASE Delete
  BY <1>2 DEF VersionsAreUnique, Delete, TypeOK, Name
<1>3. ASSUME NEW r \in requests, Write(Target(r), r.object.content)
      PROVE  VersionsAreUnique' /\ stored \subseteq stored' /\ OnlyOwnObject'
  <2> DEFINE new == [version |-> version + 1, content |-> r.object.content]
  <2>1. Target(r) = Own
    BY DEF Target, RequestsDescend, Lawful
  <2>2. /\ version' = version + 1 /\ version \in Nat
        /\ stored' = stored \cup {new}
        /\ objects' = [objects EXCEPT ![Own] = new]
        /\ objects'[Own] = new
        /\ objects'[Foreign] = objects[Foreign]
    BY <1>3, <2>1 DEF Write, TypeOK, Name
  <2>3. \A s \in stored : s.version \in Nat /\ s.version <= version
    BY DEF VersionsAreUnique, TypeOK, Stored
  <2>4. new.version = version + 1
    OBVIOUS
  <2> HIDE DEF new
  <2>5. \A s \in stored' : s.version # 0 /\ s.version <= version'
    BY <2>2, <2>3, <2>4 DEF VersionsAreUnique
  <2>6. \A s, t \in stored' : s.version = t.version => s = t
    BY <2>2, <2>3, <2>4 DEF VersionsAreUnique
  <2> QED
    BY <2>2, <2>5, <2>6 DEF VersionsAreUnique
<1> QED
  BY <1>1, <1>2, <1>3, ServerCases

\* What descends from something stored still does so later.
LEMMA StillDescends ==
  ASSUME stored \subseteq stored'
  PROVE  /\ \A o : Descends(o) => Descends(o)'
         /\ \A r : Lawful(r) => Lawful(r)'
  BY DEF Descends, Lawful

\* A client holds what it fetched and edited since, and Clean only what was stored.
Sound(c) ==
    /\ entries[c].kind \in {"Clean", "Dirty"} => Descends(entries[c].object)
    /\ entries[c].kind = "Clean" =>
         [version |-> entries[c].object.version, content |-> entries[c].object.content] \in stored
    /\ \A r \in awaited[c] :
         /\ Lawful(r)
         /\ r.client = c
         /\ entries[c].kind = IF r.op = "create" THEN "New" ELSE "Dirty"

\* The invariant, client by client.
LEMMA SoundParts ==
  /\ EntriesDescend /\ RequestsDescend /\ AwaitedIsOwn /\ CleanIsStored <=>
       (\A c \in Client : Sound(c)) /\ \A r \in requests : Lawful(r)
  /\ (EntriesDescend /\ RequestsDescend /\ AwaitedIsOwn /\ CleanIsStored)' <=>
       ((\A c \in Client : Sound(c)) /\ \A r \in requests : Lawful(r))'
  BY DEF EntriesDescend, RequestsDescend, AwaitedIsOwn, CleanIsStored, Sound

\* A client that is left alone, or stops waiting, stays sound.
LEMMA StillSound ==
  ASSUME NEW c \in Client, Sound(c), stored \subseteq stored',
         entries'[c] = entries[c], awaited'[c] \subseteq awaited[c]
  PROVE  Sound(c)'
  BY StillDescends DEF Sound

\* What a commit sends is lawful: optimistic concurrency rests on the version in it.
LEMMA RequestLawful ==
  ASSUME TypeOK, NEW c \in Client, NEW d \in BOOLEAN, Sound(c), Commit(c, d)
  PROVE  Lawful(Request(c, d))
<1>1. /\ entries[c].kind \in {"New", "Dirty"} /\ Valid(entries[c].object.meta)
      /\ entries[c].kind = "Dirty" => Descends(entries[c].object)
  BY DEF Commit, Sound
<1>2. /\ Request(c, d).object = PreparedEntry(c).object
      /\ Request(c, d).op = IF entries[c].kind = "New" THEN "create" ELSE "replace"
  BY <1>1, RequestType
<1>3. /\ PreparedEntry(c).object.version = entries[c].object.version
      /\ PreparedEntry(c).object.content = entries[c].object.content
      /\ PreparedEntry(c).object.meta.name = Own
  BY <1>1, PreparedType DEF IsOccupied
<1> QED
  BY <1>1, <1>2, <1>3 DEF Lawful, Descends

\* The client that takes the answer into its entry: after a write it holds what was
\* stored, after a dry run something as far from the server as before.
LEMMA AnswerSound ==
  ASSUME IInv, NEW r \in requests, Handle(r) \/ Lose(r),
         stored \subseteq stored', VersionsAreUnique'
  PROVE  Sound(r.client)'
<1> USE DEF IInv
<1>1. r \in Requests /\ r.client \in Client /\ r.object \in Object /\ Lawful(r)
  BY DEF TypeOK, Requests, RequestsDescend
<1>2. Sound(r.client)
  BY <1>1, SoundParts DEF CommitIsTrue
<1>3. CASE entries' = entries
  BY <1>1, <1>2, <1>3, AnswerCases, StillSound DEF TypeOK
<1>4. CASE /\ awaited' = [awaited EXCEPT ![r.client] = {}]
           /\ Write(Target(r), r.object.content)
           /\ entries' = [entries EXCEPT ![r.client] =
                            Occupied("Clean", [r.object EXCEPT !.version = version'])]
  <2>1. Target(r) = Own
    BY <1>1 DEF Target, Lawful
  <2>2. [version |-> version', content |-> r.object.content] \in stored'
    BY <1>4, <2>1 DEF Write, TypeOK, Name
  <2>3. /\ entries'[r.client].kind = "Clean" /\ awaited'[r.client] = {}
        /\ entries'[r.client].object.version = version'
        /\ entries'[r.client].object.content = r.object.content
    BY <1>1, <1>4 DEF TypeOK, Occupied, Object
  <2>4. version' # 0
    BY <1>4 DEF Write, TypeOK
  <2> QED
    BY <2>2, <2>3, <2>4 DEF Sound, Descends
<1>5. CASE /\ awaited' = [awaited EXCEPT ![r.client] = {}]
           /\ entries[r.client].kind = IF r.op = "create" THEN "New" ELSE "Dirty"
           /\ entries' = [entries EXCEPT ![r.client] = Occupied(entries[r.client].kind, r.object)]
  <2>1. /\ entries'[r.client].kind = IF r.op = "create" THEN "New" ELSE "Dirty"
        /\ entries'[r.client].object = r.object
        /\ awaited'[r.client] = {}
    BY <1>1, <1>5 DEF TypeOK, Occupied
  <2>2. r.op # "create" => Descends(r.object)
    BY <1>1 DEF Lawful
  <2> QED
    BY <2>1, <2>2, StillDescends DEF Sound, Descends
<1> QED
  BY <1>3, <1>4, <1>5, AnswerCases

\* Every client's entry stays sound and every request lawful.
LEMMA NextSound ==
  ASSUME IInv, [Next]_vars, stored \subseteq stored', VersionsAreUnique'
  PROVE  ((\A c \in Client : Sound(c)) /\ \A r \in requests : Lawful(r))'
<1> USE DEF IInv
<1>1. (\A c \in Client : Sound(c)) /\ \A r \in requests : Lawful(r)
  BY SoundParts DEF CommitIsTrue
<1>2. CASE UNCHANGED <<entries, requests, awaited>>
  BY <1>1, <1>2, StillSound, StillDescends
<1>3. ASSUME NEW r \in requests, Handle(r) \/ Lose(r)
      PROVE  (\A c \in Client : Sound(c))' /\ requests' \subseteq requests
  <2>1. r.client \in Client /\ requests' \subseteq requests
    BY <1>3 DEF TypeOK, Requests, Handle, Lose
  <2>2. ASSUME NEW c \in Client, c # r.client
        PROVE  entries'[c] = entries[c] /\ awaited'[c] = awaited[c]
    BY <1>3, <2>1, <2>2, AnswerCases DEF TypeOK
  <2> QED
    BY <1>1, <1>3, <2>1, <2>2, AnswerSound, StillSound
<1>4. ASSUME NEW c \in Client, Sound(c)', requests' = requests, awaited' = awaited,
             \A d \in Client : d # c => entries'[d] = entries[d]
      PROVE  ((\A d \in Client : Sound(d)) /\ \A r \in requests : Lawful(r))'
  BY <1>1, <1>4, StillSound, StillDescends
<1>5. ASSUME NEW c \in Client, NEW e, SetEntry(c, e)
      PROVE  entries'[c] = e /\ \A d \in Client : d # c => entries'[d] = entries[d]
  BY <1>5 DEF SetEntry, TypeOK
<1>6. ASSUME NEW c \in Client, entry(c) PROVE Sound(c)'
  <2>1. objects[Own].version # 0 => objects[Own] \in stored /\ objects[Own] \in Stored
    BY DEF VersionsAreUnique, TypeOK, Stored
  <2>2. objects[Own].version # 0 =>
          objects[Own] = [version |-> objects[Own].version, content |-> objects[Own].content]
    BY <2>1 DEF Stored
  <2>3. awaited'[c] = {} /\ stored' = stored
    BY <1>6 DEF entry, Idle
  <2>4. CASE objects[Own].version = 0
    BY <1>5, <1>6, <2>3, <2>4 DEF entry, Sound, Vacant
  <2>5. CASE objects[Own].version # 0
    <3>1. /\ entries'[c].kind = "Clean"
          /\ entries'[c].object.version = objects[Own].version
          /\ entries'[c].object.content = objects[Own].content
      BY <1>5, <1>6, <2>5 DEF entry, Occupied
    <3> QED
      BY <2>1, <2>2, <2>3, <2>5, <3>1 DEF Sound, Descends
  <2> QED
    BY <2>4, <2>5
<1>7. ASSUME NEW c \in Client, NEW m \in InsertedMeta, insert(c, m) PROVE Sound(c)'
  BY <1>5, <1>7 DEF insert, Idle, Sound, Occupied
<1>8. ASSUME NEW c \in Client, get_mut(c) PROVE Sound(c)'
  <2>1. entries[c].object \in Object /\ awaited'[c] = {} /\ stored' = stored
    BY <1>8 DEF get_mut, Idle, TypeOK, Entries, IsOccupied, NoEntry, Vacant
  <2>2. /\ entries'[c].kind = Dirtied(entries[c].kind)
        /\ entries'[c].object.version = entries[c].object.version
        /\ entries[c].object.content \subseteq entries'[c].object.content
    BY <1>5, <1>8, <2>1 DEF get_mut, Occupied, Object
  <2>3. entries[c].kind \in {"Clean", "Dirty"} => Descends(entries[c].object)
    BY <1>1 DEF Sound
  <2> QED
    BY <1>8, <2>1, <2>2, <2>3 DEF get_mut, IsOccupied, Sound, Descends, Dirtied
<1>9. ASSUME NEW c \in Client, CommitInvalid(c) PROVE Sound(c)'
  <2>1. awaited'[c] = {} /\ stored' = stored /\ entries'[c] = PreparedEntry(c)
    BY <1>5, <1>9 DEF CommitInvalid, Idle
  <2> QED
    BY <1>1, <1>9, <2>1, PreparedType DEF CommitInvalid, Sound, Descends
<1>10. ASSUME NEW c \in Client, Cancel(c)
       PROVE  ((\A d \in Client : Sound(d)) /\ \A r \in requests : Lawful(r))'
  <2>1. /\ entries' = entries /\ requests' = requests
        /\ \A d \in Client : awaited'[d] \subseteq awaited[d]
    BY <1>10 DEF Cancel, Fails, TypeOK
  <2> QED
    BY <1>1, <2>1, StillSound, StillDescends
<1>11. ASSUME NEW c \in Client, NEW d \in BOOLEAN, Commit(c, d)
       PROVE  ((\A b \in Client : Sound(b)) /\ \A r \in requests : Lawful(r))'
  <2> DEFINE sent == Request(c, d)
  <2>1. Lawful(sent)
    BY <1>1, <1>11, RequestLawful
  <2>2. sent.client = c /\ sent.op = IF entries[c].kind = "New" THEN "create" ELSE "replace"
    BY <1>11, RequestType DEF Commit
  <2>3. /\ entries'[c] = PreparedEntry(c) /\ awaited'[c] = {sent} /\ stored' = stored
        /\ requests' = requests \cup {sent} /\ entries[c].kind \in {"New", "Dirty"}
        /\ \A b \in Client : b # c => entries'[b] = entries[b] /\ awaited'[b] = awaited[b]
    BY <1>5, <1>11 DEF Commit, TypeOK
  <2> HIDE DEF sent
  <2>4. /\ PreparedEntry(c).kind = entries[c].kind
        /\ PreparedEntry(c).object.version = entries[c].object.version
        /\ PreparedEntry(c).object.content = entries[c].object.content
    BY <2>3, PreparedType DEF IsOccupied
  <2>5. /\ \A r \in requests' : Lawful(r)
        /\ \A r \in awaited'[c] : Lawful(r) /\ r = sent
    BY <1>1, <2>1, <2>3
  <2>6. entries[c].kind = "Dirty" => Descends(entries[c].object)
    BY <1>1 DEF Sound
  <2>7. Sound(c)'
    <3>1. entries'[c].kind = "Dirty" => Descends(entries[c].object)'
      BY <2>3, <2>4, <2>6 DEF Descends
    <3>2. \A r \in awaited'[c] : /\ Lawful(r)' /\ r.client = c
                                 /\ entries'[c].kind = IF r.op = "create" THEN "New" ELSE "Dirty"
      BY <2>2, <2>3, <2>4, <2>5, StillDescends
    <3> QED
      BY <2>3, <2>4, <3>1, <3>2 DEF Sound
  <2>8. \A b \in Client : b # c => Sound(b)'
    BY <1>1, <2>3, StillSound
  <2> QED
    BY <2>5, <2>7, <2>8, StillDescends
<1>12. ASSUME Delete \/ UNCHANGED vars \/ \E c \in Client : CommitClean(c)
       PROVE  UNCHANGED <<entries, requests, awaited>>
  BY <1>12 DEF Delete, CommitClean, vars
<1>13. ASSUME NEW c \in Client, entry(c) \/ get_mut(c) \/ CommitInvalid(c)
                                \/ \E m \in InsertedMeta : insert(c, m)
       PROVE  requests' = requests /\ awaited' = awaited /\ \E e : SetEntry(c, e)
  BY <1>13 DEF entry, get_mut, CommitInvalid, insert
<1>14. ASSUME NEW c \in Client, entry(c) \/ get_mut(c) \/ CommitInvalid(c)
                                \/ \E m \in InsertedMeta : insert(c, m)
       PROVE  ((\A d \in Client : Sound(d)) /\ \A r \in requests : Lawful(r))'
  <2>1. Sound(c)'
    BY <1>6, <1>7, <1>8, <1>9, <1>14
  <2> QED
    BY <1>4, <1>5, <1>13, <1>14, <2>1
<1>15. ASSUME NEW r \in requests, Handle(r) \/ Lose(r)
       PROVE  ((\A c \in Client : Sound(c)) /\ \A q \in requests : Lawful(q))'
  BY <1>1, <1>3, <1>15, StillDescends
<1> QED
  BY <1>2, <1>10, <1>11, <1>12, <1>14, <1>15 DEF Next

-----------------------------------------------------------------------------

\* Nothing is stored, held or on its way in the beginning.
LEMMA InitIInv == Init => IInv
  BY EntryAssumption DEF Init, IInv, TypeOK, Stored, Entries, NoEntry, Name, VersionsAreUnique,
       EntriesDescend, RequestsDescend, AwaitedIsOwn, CommitIsTrue, CleanIsStored, OnlyOwnObject

\* Every step keeps the invariant.
LEMMA NextIInv ==
  ASSUME IInv, [Next]_vars
  PROVE  IInv'
<1>1. VersionsAreUnique' /\ stored \subseteq stored' /\ OnlyOwnObject'
  BY NextVersions DEF IInv, CommitIsTrue
<1>2. (EntriesDescend /\ RequestsDescend /\ AwaitedIsOwn /\ CleanIsStored)'
  BY <1>1, NextSound, SoundParts
<1>3. TypeOK'
  BY NextTypeOK DEF IInv
<1> QED
  BY <1>1, <1>2, <1>3 DEF IInv, CommitIsTrue

\* The parts of the invariant that are not themselves promised: types, unique versions,
\* and that entries and requests descend from what was stored.
THEOREM Invariant == Spec => []IInv
<1>1. IInv /\ UNCHANGED vars => IInv'
  BY NextIInv
<1> QED
  BY InitIInv, NextIInv, PTL DEF Spec

\* An entry is Clean only with something that the server stored, and commit never writes
\* another object than the one that Api::entry named: neither a dry run nor a lost answer
\* nor a foreign name in the inserted object changes that.
THEOREM CommitReportsTheTruth == Spec => []CommitIsTrue
<1>1. IInv => CommitIsTrue
  BY DEF IInv
<1> QED
  BY <1>1, Invariant, PTL

\* A write that succeeds replaces exactly the version that it descends from: the answer
\* of a commit never hides that another client's edit was thrown away.
LEMMA StepKeepsUpdates ==
  ASSUME IInv, [Next]_vars, objects[Own].version # 0, objects'[Own].version # 0
  PROVE  objects[Own].content \subseteq objects'[Own].content
<1> USE DEF IInv
<1>1. CASE UNCHANGED objects
  BY <1>1
<1>2. CASE Delete
  BY <1>2 DEF Delete, TypeOK, Name
<1>3. ASSUME NEW r \in requests, Acceptable(r), Write(Target(r), r.object.content)
      PROVE  objects[Own].content \subseteq objects'[Own].content
  <2>1. Lawful(r) /\ Target(r) = Own
    BY DEF RequestsDescend, Lawful, Target
  <2>2. Descends(r.object) /\ r.object.version = objects[Own].version
    BY <1>3, <2>1 DEF Acceptable, Lawful, Descends
  <2>3. PICK s \in stored : s.version = r.object.version /\ s.content \subseteq r.object.content
    BY <2>2 DEF Descends
  <2>4. s = objects[Own]
    BY <2>2, <2>3 DEF VersionsAreUnique
  <2>5. objects'[Own].content = r.object.content
    BY <1>3, <2>1 DEF Write, TypeOK, Name
  <2> QED
    BY <2>3, <2>4, <2>5
<1> QED
  BY <1>1, <1>2, <1>3, ServerCases

\* No step of the server takes back an edit that was stored, while the object exists: a
\* replace that carries an older version than the stored one is refused.
THEOREM NoUpdateIsLost == Spec => NoLostUpdate
<1>1. IInv /\ [Next]_vars =>
        [objects[Own].version # 0 /\ objects'[Own].version # 0
           => objects[Own].content \subseteq objects'[Own].content]_vars
  BY StepKeepsUpdates
<1> QED
  BY <1>1, Invariant, PTL DEF Spec, NoLostUpdate
=============================================================================
