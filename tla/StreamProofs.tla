---------------------------- MODULE StreamProofs ----------------------------
(***************************************************************************)
(* The streams below a Controller: the watcher and the reflector, and the  *)
(* trigger streams with their backoff.                                     *)
(*                                                                         *)
(* For every collection of objects, every length of the log and both list  *)
(* semantics the store is the collection at the version the watcher would  *)
(* resume from, and what is cached has been reported to the consumer or is *)
(* about to be.  For every set of trigger streams and every backoff that   *)
(* doubles up to a maximum, errors alone decide how slow the streams get,  *)
(* and after an error all of them pause.                                   *)
(***************************************************************************)
EXTENDS Reflector, Triggers, WellFoundedInduction, TLAPS

-----------------------------------------------------------------------------
(***************************************************************************)
(* The watcher and the reflector                                           *)
(***************************************************************************)

\* A change that a watch of the collection does not make visible to the client.
Invisible(j) == log[j].obj = Foreign \/ ~log[j].decodable

\* An open watch has passed over nothing but invisible changes since the version it
\* would be resumed from.
WatchKeepsUp ==
    wstate = "Watching" =>
      /\ stream.status = "open" => resource_version <= stream.pos
      /\ stream.status = "open" =>
           \A j \in (resource_version + 1)..stream.pos : Invisible(j)

\* The watcher gets to a watch through a list.
ListedFirst == wstate \in {"InitListed", "Watching"} => ready

\* A quorum read that is under way cannot answer with less than was seen already.
ListIsRecent ==
    wstate = "Listing" /\ ListSemantic = "MostRecent" => oldest >= resource_version

IInv == /\ TypeOK
        /\ WatchKeepsUp
        /\ ListedFirst
        /\ ListIsRecent
        /\ StoreIsSnapshot
        /\ CachedIsReported
        /\ QueuedIsCurrent

-----------------------------------------------------------------------------
(* Facts about the log                                                     *)

\* What an object or its obscurity at version v depends on is the log up to v.
Known(o, v, x) == ObjectAt(o, v, x) \/ Obscured(o, v)

\* A new change leaves the past, and with it the store's account of it, as it was.
LEMMA AppendKeepsPast ==
  ASSUME log \in Seq(Change), NEW c \in Change, log' = Append(log, c),
         UNCHANGED <<resource_version, store>>, resource_version \in 0..Len(log),
         NEW o \in Object, store[o] \in Nat, Known(o, resource_version, store[o])
  PROVE  Known(o, resource_version, store[o])'
<1> DEFINE v == resource_version
           x == store[o]
<1>0. v' = v /\ x' = x /\ v \in Nat /\ x \in Nat
  OBVIOUS
<1>1. \A i \in 1..v : log'[i] = log[i]
  BY DEF Change
<1>2. \A i \in 1..v : IsLast(o, v, i)' <=> IsLast(o, v, i)
  BY <1>0, <1>1 DEF IsLast
<1>3. CASE ObjectAt(o, v, x)
  <2>1. CASE x = Absent
    <3>1. \A i \in 1..v : IsLast(o, v, i)' => log'[i].deleted
      BY <1>1, <1>2, <1>3, <2>1 DEF ObjectAt
    <3> QED
      BY <1>0, <3>1, <2>1 DEF ObjectAt, Known, Absent
  <2>2. CASE x # Absent
    <3>1. IsLast(o, v, x) /\ ~log[x].deleted /\ x \in 1..v
      BY <1>3, <2>2 DEF ObjectAt, IsLast
    <3>2. IsLast(o, v, x)' /\ ~log'[x].deleted
      BY <1>0, <1>1, <3>1 DEF IsLast
    <3> QED
      BY <1>0, <3>2, <2>2 DEF ObjectAt, Known, Absent
  <2> QED
    BY <2>1, <2>2
<1>4. CASE Obscured(o, v)
  <2>1. PICK i \in 1..v : log[i].obj = o /\ \A j \in i..v : log[j].obj = o => ~log[j].decodable
    BY <1>4 DEF Obscured
  <2>2. log'[i].obj = o /\ \A j \in i..v : log'[j].obj = o => ~log'[j].decodable
    BY <2>1, <1>1
  <2> QED
    BY <1>0, <2>2 DEF Obscured, Known
<1> QED
  BY <1>3, <1>4 DEF Known

\* Invisible changes change nothing about an object, unless they obscure it.
LEMMA SkipInvisible ==
  ASSUME NEW o \in Object, NEW x \in Nat, NEW v \in Nat, NEW w \in Nat, v <= w,
         \A j \in (v + 1)..w : Invisible(j) \/ log[j].obj # o,
         Known(o, v, x)
  PROVE  Known(o, w, x)
<1> USE ServerAssumption
<1>0. \A j \in (v + 1)..w : log[j].obj = o => ~log[j].decodable
  BY DEF Invisible
<1>1. CASE \E j \in (v + 1)..w : log[j].obj = o
  <2>1. PICK j \in (v + 1)..w : log[j].obj = o
    BY <1>1
  <2>2. j \in 1..w /\ \A k \in j..w : log[k].obj = o => ~log[k].decodable
    BY <2>1, <1>0
  <2> QED
    BY <2>1, <2>2 DEF Obscured, Known
<1>2. CASE \A j \in (v + 1)..w : log[j].obj # o
  <2>1. CASE Obscured(o, v)
    <3>1. PICK i \in 1..v : log[i].obj = o /\ \A j \in i..v : log[j].obj = o => ~log[j].decodable
      BY <2>1 DEF Obscured
    <3>2. i \in 1..w /\ \A j \in i..w : log[j].obj = o => ~log[j].decodable
      BY <3>1, <1>0
    <3> QED
      BY <3>1, <3>2 DEF Obscured, Known
  <2>2. CASE ObjectAt(o, v, x)
    <3>1. \A i : IsLast(o, w, i) <=> IsLast(o, v, i)
      BY <1>2 DEF IsLast
    <3>2. CASE x = Absent
      <4>1. \A i \in 1..w : IsLast(o, w, i) => log[i].deleted
        BY <3>1, <3>2, <2>2 DEF ObjectAt, IsLast
      <4> QED
        BY <4>1, <3>2 DEF ObjectAt, Known
    <3>3. CASE x # Absent
      BY <3>1, <3>3, <2>2 DEF ObjectAt, Known
    <3> QED
      BY <3>2, <3>3
  <2> QED
    BY <2>1, <2>2 DEF Known
<1> QED
  BY <1>1, <1>2

\* An event tells what it says about its object.
LEMMA EventIsLatest ==
  ASSUME NEW o, NEW i \in Nat, i > 0, log[i].obj = o,
         NEW x, x = IF log[i].deleted THEN Absent ELSE i
  PROVE  ObjectAt(o, i, x)
<1>1. \A j : IsLast(o, i, j) <=> j = i
  BY DEF IsLast
<1> QED
  BY <1>1 DEF ObjectAt, Absent

-----------------------------------------------------------------------------
(* Types                                                                   *)

ServerTypeOK == log \in Seq(Change) /\ compacted \in Version

WatcherTypeOK ==
    /\ wstate \in {"Empty", "Listing", "InitListed", "Watching"}
    /\ resource_version \in Version
    /\ oldest \in Version
    /\ stream \in [status : {"open", "ended", "event", "http"}, pos : Version]

ReflectorTypeOK ==
    /\ store \in [Object -> Version]
    /\ ready \in BOOLEAN
    /\ flat_queue \in SUBSET [obj : Object, version : Version \ {Absent}]
    /\ reported \in [Object -> Version]

\* The type invariant, split by who changes the variables.
LEMMA TypeParts ==
  /\ TypeOK <=> ServerTypeOK /\ WatcherTypeOK /\ ReflectorTypeOK
  /\ TypeOK' <=> (ServerTypeOK /\ WatcherTypeOK /\ ReflectorTypeOK)'
  BY DEF TypeOK, ServerTypeOK, WatcherTypeOK, ReflectorTypeOK

\* What a pass through step_trampolined can yield.
Yields(e) == \/ e = NoItem
             \/ e = Error
             \/ \E o \in Object, v \in Version \ {Absent} : e = Applied(o, v)
             \/ \E o \in Object : e = Deleted(o)
             \/ \E items \in [Object -> Version] : e = Restarted(items)

\* An event of the watch is about an object of the collection.
LEMMA EventItem ==
  ASSUME ServerTypeOK, NEW p \in Version, NEW i, IsNextEvent(p, i)
  PROVE  /\ i \in Version \ {Absent}
         /\ i > p
         /\ log[i].obj \in Object
         /\ Yields(ItemOf(i))
<1>1. i \in 1..Len(log) /\ i > p
  BY DEF IsNextEvent, Version, LastVersion
<1>2. log[i] \in Change /\ log[i].obj # Foreign
  BY <1>1 DEF IsNextEvent, ServerTypeOK
<1>3. log[i].obj \in Object
  BY <1>2 DEF Change
<1>4. i \in Version \ {Absent}
  BY <1>1 DEF Version, LastVersion, Absent, ServerTypeOK
<1> QED
  BY <1>1, <1>3, <1>4 DEF Yields, ItemOf

\* One pass keeps the types of the watcher's state and yields one of the items above.
LEMMA StepTypes ==
  ASSUME ServerTypeOK, WatcherTypeOK, Step, UNCHANGED serverVars
  PROVE  WatcherTypeOK' /\ Yields(out')
<1> USE DEF WatcherTypeOK
<1>0. Version' = Version /\ LastVersion \in Version /\ 0 \in Version
  BY DEF serverVars, Version, LastVersion, ServerTypeOK
<1>1. CASE StartList
  BY <1>0, <1>1 DEF StartList, OldestAllowed, Yields
<1>2. CASE ListFails
  BY <1>0, <1>2 DEF ListFails, Yields
<1>3. CASE WatchStarts
  BY <1>0, <1>3, WatcherAssumption DEF WatchStarts, Yields
<1>4. CASE WatchStartFails
  BY <1>0, <1>4 DEF WatchStartFails, Yields
<1>5. CASE GoneEvent
  BY <1>0, <1>5 DEF GoneEvent, Yields, Ended
<1>6. CASE ErrorEvent
  BY <1>0, <1>6 DEF ErrorEvent, Yields, Ended
<1>7. CASE StreamFails
  BY <1>0, <1>7 DEF StreamFails, Yields, Ended
<1>8. CASE StreamEnds
  BY <1>0, <1>8 DEF StreamEnds, Yields, Ended
<1>9. ASSUME NEW v \in Version, ListOk(v) PROVE WatcherTypeOK' /\ Yields(out')
  BY <1>0, <1>9 DEF ListOk, Yields
<1>10. ASSUME NEW v \in Version, BookmarkArrives(v) PROVE WatcherTypeOK' /\ Yields(out')
  BY <1>0, <1>10 DEF BookmarkArrives, Yields
<1>11. ASSUME NEW v \in Version, WatchEventArrives(v) PROVE WatcherTypeOK' /\ Yields(out')
  <2>1. Yields(ItemOf(v))
    BY <1>11, EventItem DEF WatchEventArrives
  <2> QED
    BY <1>0, <1>11, <2>1 DEF WatchEventArrives
<1>12. ASSUME NEW v \in Version, WatchEventUndecodable(v) PROVE WatcherTypeOK' /\ Yields(out')
  BY <1>0, <1>12 DEF WatchEventUndecodable, Yields
<1> QED
  BY <1>1, <1>2, <1>3, <1>4, <1>5, <1>6, <1>7, <1>8, <1>9, <1>10, <1>11, <1>12 DEF Step

-----------------------------------------------------------------------------
(* The store and EventFlatten                                              *)

\* An item that goes through the reflector and EventFlatten leaves every cached object
\* reported or queued, and the queue as fresh as the store.
LEMMA ItemPasses ==
  ASSUME ServerTypeOK, ReflectorTypeOK, CachedIsReported, flat_queue = {}, Yields(out'),
         store' = apply_watcher_event(out'),
         ready' = (ready \/ out'.type \in {"Applied", "Deleted", "Restarted"}),
         Flatten(out'), UNCHANGED serverVars
  PROVE  ReflectorTypeOK' /\ CachedIsReported' /\ QueuedIsCurrent'
<1>0. Version' = Version /\ Absent \in Version
  BY DEF serverVars, ServerTypeOK, Version, LastVersion, Absent
<1>r. ready' \in BOOLEAN
  OBVIOUS
<1>1. CASE out' = NoItem \/ out' = Error
  BY <1>0, <1>r, <1>1 DEF ReflectorTypeOK, CachedIsReported, QueuedIsCurrent, NoItem, Error,
     apply_watcher_event, Flatten
<1>2. ASSUME NEW o \in Object, NEW v \in Version \ {Absent}, out' = Applied(o, v)
      PROVE  ReflectorTypeOK' /\ CachedIsReported' /\ QueuedIsCurrent'
  BY <1>0, <1>r, <1>2 DEF ReflectorTypeOK, CachedIsReported, QueuedIsCurrent, Applied,
     apply_watcher_event, Flatten
<1>3. ASSUME NEW o \in Object, out' = Deleted(o)
      PROVE  ReflectorTypeOK' /\ CachedIsReported' /\ QueuedIsCurrent'
  BY <1>0, <1>r, <1>3 DEF ReflectorTypeOK, CachedIsReported, QueuedIsCurrent, Deleted,
     apply_watcher_event, Flatten
<1>4. ASSUME NEW items \in [Object -> Version], out' = Restarted(items)
      PROVE  ReflectorTypeOK' /\ CachedIsReported' /\ QueuedIsCurrent'
  <2>1. store' = items /\ reported' = reported /\ flat_queue' = Live(items)
    BY <1>4 DEF Restarted, apply_watcher_event, Flatten
  <2>2. \A e : e \in flat_queue' <=> \E o \in Object : items[o] # Absent /\ e = [obj |-> o, version |-> items[o]]
    BY <2>1 DEF Live
  <2>3. ReflectorTypeOK'
    BY <1>0, <1>r, <2>1, <2>2 DEF ReflectorTypeOK
  <2>4. CachedIsReported'
    BY <2>1, <2>2 DEF CachedIsReported
  <2>5. QueuedIsCurrent'
    BY <2>1, <2>2 DEF QueuedIsCurrent
  <2> QED
    BY <2>3, <2>4, <2>5
<1> QED
  BY <1>1, <1>2, <1>3, <1>4 DEF Yields

\* StoreIsSnapshot, object by object.
LEMMA SnapshotIsKnown ==
  /\ StoreIsSnapshot <=> (ready => \A o \in Object : Known(o, resource_version, store[o]))
  /\ StoreIsSnapshot' <=> (ready' => \A o \in Object : Known(o, resource_version, store[o])')
  BY DEF StoreIsSnapshot, Known

\* A watch that moves on over invisible changes to w takes what is known with it.
LEMMA MovesOn ==
  ASSUME ServerTypeOK, WatcherTypeOK, ReflectorTypeOK, WatchKeepsUp, wstate = "Watching",
         stream.status = "open", NEW w \in Version, w >= stream.pos, NEW o \in Object,
         \A j \in (stream.pos + 1)..w : Invisible(j) \/ log[j].obj # o,
         Known(o, resource_version, store[o])
  PROVE  Known(o, w, store[o])
<1>1. /\ resource_version \in Nat /\ stream.pos \in Nat /\ w \in Nat /\ store[o] \in Nat
      /\ resource_version <= stream.pos
  BY DEF WatcherTypeOK, ReflectorTypeOK, WatchKeepsUp, Version, LastVersion
<1>2. \A j \in (resource_version + 1)..stream.pos : Invisible(j)
  BY DEF WatchKeepsUp
<1>3. \A j \in (resource_version + 1)..w : Invisible(j) \/ log[j].obj # o
  BY <1>1, <1>2
<1> QED
  BY <1>1, <1>3, SkipInvisible

\* After a pass, the store is the collection at the version that is then current.
LEMMA StepSnapshot ==
  ASSUME ServerTypeOK, WatcherTypeOK, ReflectorTypeOK, WatchKeepsUp, ListedFirst, StoreIsSnapshot,
         Step, UNCHANGED serverVars, store' = apply_watcher_event(out'),
         ready' = (ready \/ out'.type \in {"Applied", "Deleted", "Restarted"})
  PROVE  StoreIsSnapshot' /\ ListedFirst'
<1>s. SUFFICES /\ ready' => \A o \in Object : Known(o, resource_version', store'[o])
               /\ ListedFirst'
  <2>0. log' = log
    BY DEF serverVars
  <2>1. ASSUME NEW o \in Object
        PROVE  ObjectAt(o, resource_version, store[o])' <=> ObjectAt(o, resource_version', store'[o])
    BY <2>0 DEF ObjectAt, IsLast, Absent
  <2>2. ASSUME NEW o \in Object
        PROVE  Obscured(o, resource_version)' <=> Obscured(o, resource_version')
    BY <2>0 DEF Obscured
  <2> QED
    BY <2>1, <2>2 DEF StoreIsSnapshot, Known
<1>k. ready => \A o \in Object : Known(o, resource_version, store[o])
  BY SnapshotIsKnown
<1>1. ASSUME resource_version' = resource_version, out' = NoItem \/ out' = Error,
             wstate' \in {"InitListed", "Watching"} => wstate \in {"InitListed", "Watching"}
      PROVE  /\ ready' => \A o \in Object : Known(o, resource_version', store'[o])
             /\ ListedFirst'
  <2>1. store' = store
    BY <1>1 DEF NoItem, Error, apply_watcher_event
  <2>4. out'.type \notin {"Applied", "Deleted", "Restarted"}
    BY <1>1 DEF NoItem, Error
  <2>2. ready' <=> ready
    BY <2>4
  <2>3. ListedFirst'
    BY <1>1, <2>2 DEF ListedFirst
  <2> QED
    BY <1>1, <1>k, <2>1, <2>2, <2>3
<1>2. ASSUME StartList \/ ListFails \/ WatchStarts \/ WatchStartFails \/ GoneEvent \/ ErrorEvent
             \/ StreamFails \/ StreamEnds \/ \E v \in Version : WatchEventUndecodable(v)
      PROVE  /\ resource_version' = resource_version
             /\ out' = NoItem \/ out' = Error
             /\ wstate' \in {"InitListed", "Watching"} => wstate \in {"InitListed", "Watching"}
  BY <1>2 DEF StartList, ListFails, WatchStarts, WatchStartFails, GoneEvent, ErrorEvent,
              StreamFails, StreamEnds, WatchEventUndecodable
<1>3. ASSUME NEW v \in Version, ListOk(v)
      PROVE  /\ ready' => \A o \in Object : Known(o, resource_version', store'[o])
             /\ ListedFirst'
  <2>1. PICK items \in [Object -> Version] : IsSnapshot(items, v) /\ out' = Restarted(items)
    BY <1>3 DEF ListOk
  <2>2. store' = items /\ ready' /\ resource_version' = v
    BY <1>3, <2>1 DEF ListOk, Restarted, apply_watcher_event
  <2> QED
    BY <2>1, <2>2 DEF IsSnapshot, Known, ListedFirst
<1>4. ASSUME NEW v \in Version, BookmarkArrives(v)
      PROVE  /\ ready' => \A o \in Object : Known(o, resource_version', store'[o])
             /\ ListedFirst'
  <2>1. /\ wstate = "Watching" /\ stream.status = "open" /\ v >= stream.pos
        /\ \A j \in (stream.pos + 1)..v : log[j].obj = Foreign
        /\ resource_version' = v /\ wstate' = wstate /\ out' = NoItem
    BY <1>4 DEF BookmarkArrives, WatcherTypeOK, Version, LastVersion
  <2>2. ready /\ store' = store /\ ready' = TRUE
    BY <2>1 DEF ListedFirst, NoItem, apply_watcher_event
  <2>3. \A j \in (stream.pos + 1)..v : Invisible(j)
    BY <2>1 DEF Invisible
  <2> QED
    BY <2>1, <2>2, <2>3, <1>k, MovesOn DEF ListedFirst
<1>5. ASSUME NEW i \in Version, WatchEventArrives(i)
      PROVE  /\ ready' => \A o \in Object : Known(o, resource_version', store'[o])
             /\ ListedFirst'
  <2>1. /\ wstate = "Watching" /\ stream.status = "open" /\ IsNextEvent(stream.pos, i)
        /\ resource_version' = i /\ wstate' = wstate /\ out' = ItemOf(i)
    BY <1>5 DEF WatchEventArrives
  <2>2. stream.pos \in Version
    BY DEF WatcherTypeOK
  <2>3. i \in Version \ {Absent} /\ i > stream.pos /\ log[i].obj \in Object
    BY <2>1, <2>2, EventItem
  <2>4. i \in Nat /\ i > 0 /\ stream.pos \in Nat
    BY <2>2, <2>3 DEF Version, LastVersion, Absent
  <2>5. ready /\ ready'
    BY <2>1 DEF ListedFirst
  <2>6. store' = [store EXCEPT ![log[i].obj] = IF log[i].deleted THEN Absent ELSE i]
    BY <2>1 DEF ItemOf, Applied, Deleted, apply_watcher_event
  <2>7. Known(log[i].obj, i, store'[log[i].obj])
    BY <2>3, <2>4, <2>6, EventIsLatest DEF Known, ReflectorTypeOK
  <2>8. ASSUME NEW o \in Object, o # log[i].obj PROVE Known(o, i, store'[o])
    <3>1. store'[o] = store[o]
      BY <2>6, <2>8 DEF ReflectorTypeOK
    <3>2. \A j \in (stream.pos + 1)..i : Invisible(j) \/ log[j].obj # o
      BY <2>1, <2>3, <2>4, <2>8 DEF IsNextEvent, Invisible
    <3> QED
      BY <3>1, <3>2, <2>1, <2>3, <2>4, <2>5, <1>k, MovesOn
  <2> QED
    BY <2>1, <2>5, <2>7, <2>8 DEF ListedFirst
<1> QED
  BY <1>1, <1>2, <1>3, <1>4, <1>5 DEF Step

\* An open watch is never read past a visible change that did not move the resource
\* version on, and a quorum read starts no further back than the watch had come.
LEMMA StepKeepsUp ==
  ASSUME ServerTypeOK, WatcherTypeOK, WatchKeepsUp, ListIsRecent, Step, UNCHANGED serverVars
  PROVE  WatchKeepsUp' /\ ListIsRecent'
<1> USE DEF WatcherTypeOK, ServerTypeOK, serverVars, Version, LastVersion
<1>1. CASE StartList
  BY <1>1 DEF StartList, OldestAllowed, WatchKeepsUp, ListIsRecent
<1>2. CASE ListFails
  BY <1>2 DEF ListFails, WatchKeepsUp, ListIsRecent
<1>3. CASE WatchStarts
  BY <1>3 DEF WatchStarts, WatchKeepsUp, ListIsRecent, Invisible
<1>4. CASE WatchStartFails
  BY <1>4 DEF WatchStartFails, WatchKeepsUp, ListIsRecent
<1>5. CASE GoneEvent
  BY <1>5 DEF GoneEvent, WatchKeepsUp, ListIsRecent
<1>6. CASE ErrorEvent
  <2>1. stream' = stream \/ stream'.status = "ended"
    BY <1>6 DEF ErrorEvent, Ended
  <2>2. UNCHANGED <<wstate, resource_version, oldest, log>>
    BY <1>6 DEF ErrorEvent
  <2> QED
    BY <2>1, <2>2 DEF WatchKeepsUp, ListIsRecent, Invisible
<1>7. CASE StreamFails
  BY <1>7 DEF StreamFails, WatchKeepsUp, ListIsRecent, Ended
<1>8. CASE StreamEnds
  BY <1>8 DEF StreamEnds, WatchKeepsUp, ListIsRecent
<1>9. ASSUME NEW v \in Version, ListOk(v) PROVE WatchKeepsUp' /\ ListIsRecent'
  BY <1>9 DEF ListOk, WatchKeepsUp, ListIsRecent
<1>10. ASSUME NEW v \in Version, BookmarkArrives(v) PROVE WatchKeepsUp' /\ ListIsRecent'
  BY <1>10 DEF BookmarkArrives, WatchKeepsUp, ListIsRecent, Invisible
<1>11. ASSUME NEW i \in Version, WatchEventArrives(i) PROVE WatchKeepsUp' /\ ListIsRecent'
  BY <1>11 DEF WatchEventArrives, WatchKeepsUp, ListIsRecent, Invisible
<1>12. ASSUME NEW i \in Version, WatchEventUndecodable(i) PROVE WatchKeepsUp' /\ ListIsRecent'
  <2>1. /\ UNCHANGED <<wstate, resource_version, oldest, log>>
        /\ stream'.status = "open" /\ stream'.pos = i /\ i > stream.pos
        /\ wstate = "Watching" /\ stream.status = "open" /\ ~log[i].decodable
        /\ \A j \in (stream.pos + 1)..(i - 1) : log[j].obj = Foreign
    BY <1>12 DEF WatchEventUndecodable, IsNextEvent
  <2>2. \A j \in (resource_version + 1)..i : Invisible(j)
    BY <2>1 DEF WatchKeepsUp, Invisible
  <2>3. WatchKeepsUp'
    BY <2>1, <2>2 DEF WatchKeepsUp, Invisible
  <2> QED
    BY <2>1, <2>3 DEF ListIsRecent
<1> QED
  BY <1>1, <1>2, <1>3, <1>4, <1>5, <1>6, <1>7, <1>8, <1>9, <1>10, <1>11, <1>12 DEF Step

-----------------------------------------------------------------------------
(* The theorems                                                            *)

\* Everything holds before the first list.
LEMMA InitIInv == Init => IInv
<1> SUFFICES ASSUME Init PROVE IInv
  OBVIOUS
<1>1. log = <<>> /\ Version = {0}
  BY DEF Init, ServerInit, Version, LastVersion
<1>2. log \in Seq(Change)
  BY <1>1
<1>3. TypeOK
  BY <1>1, <1>2 DEF Init, ServerInit, WatcherInit, Nothing, Absent, Ended, TypeOK
<1> QED
  BY <1>3 DEF Init, WatcherInit, Nothing, IInv, WatchKeepsUp, ListedFirst, ListIsRecent,
              StoreIsSnapshot, CachedIsReported, QueuedIsCurrent

\* A change on the server makes no type wrong: versions only become more.
LEMMA WriteIInv ==
  ASSUME IInv, NEW c \in Change, Write(c), UNCHANGED <<watcherVars, reflectorVars>>
  PROVE  IInv'
<1>1. ServerTypeOK /\ WatcherTypeOK /\ ReflectorTypeOK
  BY TypeParts DEF IInv
<1>2. log' = Append(log, c) /\ compacted' = compacted
  BY DEF Write
<1>3. /\ log' \in Seq(Change) /\ Len(log') = Len(log) + 1
      /\ \A j \in 1..Len(log) : log'[j] = log[j]
  BY <1>1, <1>2 DEF ServerTypeOK
<1>4. \A v \in Version : v \in Version'
  BY <1>1, <1>3 DEF ServerTypeOK, Version, LastVersion
<1>5. (ServerTypeOK /\ WatcherTypeOK /\ ReflectorTypeOK)'
  <2>1. ServerTypeOK'
    BY <1>1, <1>2, <1>3, <1>4 DEF ServerTypeOK
  <2>2. WatcherTypeOK'
    BY <1>1, <1>4 DEF WatcherTypeOK, watcherVars
  <2>3. ReflectorTypeOK'
    BY <1>1, <1>4 DEF ReflectorTypeOK, reflectorVars
  <2> QED
    BY <2>1, <2>2, <2>3
<1>6. WatchKeepsUp'
  BY <1>1, <1>3 DEF IInv, WatchKeepsUp, Invisible, WatcherTypeOK, Version, LastVersion, watcherVars
<1>7. StoreIsSnapshot'
  <2>1. resource_version \in 0..Len(log) /\ UNCHANGED <<resource_version, store, ready>>
    BY <1>1 DEF WatcherTypeOK, Version, LastVersion, watcherVars, reflectorVars
  <2>2. \A o \in Object : store[o] \in Nat
    BY <1>1 DEF ReflectorTypeOK, Version, LastVersion
  <2>3. ready => \A o \in Object : Known(o, resource_version, store[o])
    BY SnapshotIsKnown DEF IInv
  <2>4. ready => \A o \in Object : Known(o, resource_version, store[o])'
    BY <1>1, <1>2, <2>1, <2>2, <2>3, AppendKeepsPast DEF ServerTypeOK
  <2> QED
    BY <2>1, <2>4, SnapshotIsKnown
<1> QED
  BY <1>5, <1>6, <1>7, TypeParts
     DEF IInv, ListedFirst, ListIsRecent, CachedIsReported, QueuedIsCurrent, watcherVars, reflectorVars

\* Every step of the server, the watcher and the consumer keeps the inductive invariant.
LEMMA NextIInv == IInv /\ [Next]_vars => IInv'
<1> SUFFICES ASSUME IInv, [Next]_vars PROVE IInv'
  OBVIOUS
<1>t. ServerTypeOK /\ WatcherTypeOK /\ ReflectorTypeOK
  BY TypeParts DEF IInv
<1>1. CASE PollWatcher(Step)
  <2>1. /\ flat_queue = {} /\ Step /\ UNCHANGED serverVars /\ store' = apply_watcher_event(out')
        /\ ready' = (ready \/ out'.type \in {"Applied", "Deleted", "Restarted"}) /\ Flatten(out')
    BY <1>1 DEF PollWatcher, QueueDrained
  <2>2. ServerTypeOK'
    BY <1>t, <2>1 DEF ServerTypeOK, serverVars, Version, LastVersion
  <2>3. WatcherTypeOK' /\ Yields(out')
    BY <1>t, <2>1, StepTypes
  <2>4. ReflectorTypeOK' /\ CachedIsReported' /\ QueuedIsCurrent'
    BY <1>t, <2>1, <2>3, ItemPasses DEF IInv
  <2>5. StoreIsSnapshot' /\ ListedFirst'
    BY <1>t, <2>1, StepSnapshot DEF IInv
  <2>6. WatchKeepsUp' /\ ListIsRecent'
    BY <1>t, <2>1, StepKeepsUp DEF IInv
  <2> QED
    BY <2>2, <2>3, <2>4, <2>5, <2>6, TypeParts DEF IInv
<1>2. ASSUME NEW item \in flat_queue, EmitQueued(item) PROVE IInv'
  <2>1. /\ UNCHANGED <<log, compacted, wstate, resource_version, oldest, stream, store, ready>>
        /\ flat_queue' = flat_queue \ {item}
        /\ reported' = [reported EXCEPT ![item.obj] = item.version]
    BY <1>2 DEF EmitQueued, serverVars, watcherVars
  <2>2. item.obj \in Object /\ item.version \in Version /\ item = [obj |-> item.obj, version |-> item.version]
    BY <1>t DEF ReflectorTypeOK
  <2>3. store[item.obj] = item.version
    BY DEF IInv, QueuedIsCurrent
  <2>4. CachedIsReported'
    BY <1>t, <2>1, <2>2, <2>3 DEF IInv, CachedIsReported, ReflectorTypeOK
  <2>5. QueuedIsCurrent'
    BY <2>1 DEF IInv, QueuedIsCurrent
  <2>6. TypeOK'
    BY <1>t, <2>1, <2>2 DEF TypeOK, ServerTypeOK, WatcherTypeOK, ReflectorTypeOK, Version, LastVersion
  <2>7. WatchKeepsUp' /\ ListedFirst' /\ ListIsRecent'
    BY <2>1 DEF IInv, WatchKeepsUp, Invisible, ListedFirst, ListIsRecent
  <2>8. StoreIsSnapshot'
    BY <2>1 DEF IInv, StoreIsSnapshot, ObjectAt, IsLast, Obscured
  <2> QED
    BY <2>4, <2>5, <2>6, <2>7, <2>8 DEF IInv
<1>3. ASSUME NEW c \in Change, Write(c), UNCHANGED <<watcherVars, reflectorVars>> PROVE IInv'
  BY <1>3, WriteIInv
<1>4. ASSUME UNCHANGED <<log, watcherVars, reflectorVars>>, compacted' \in Version PROVE IInv'
  <2>1. UNCHANGED <<log, wstate, resource_version, oldest, stream, store, ready, flat_queue, reported>>
    BY <1>4 DEF watcherVars, reflectorVars
  <2>2. TypeOK'
    BY <1>4, <2>1 DEF IInv, TypeOK, Version, LastVersion
  <2>3. WatchKeepsUp' /\ ListedFirst' /\ ListIsRecent' /\ CachedIsReported' /\ QueuedIsCurrent'
    BY <2>1 DEF IInv, WatchKeepsUp, Invisible, ListedFirst, ListIsRecent, CachedIsReported,
                QueuedIsCurrent
  <2>4. StoreIsSnapshot'
    BY <2>1 DEF IInv, StoreIsSnapshot, ObjectAt, IsLast, Obscured
  <2> QED
    BY <2>2, <2>3, <2>4 DEF IInv
<1>5. ASSUME NEW v \in Version, Compact(v), UNCHANGED <<watcherVars, reflectorVars>> PROVE IInv'
  BY <1>4, <1>5 DEF Compact
<1>6. CASE UNCHANGED vars
  <2>1. UNCHANGED <<log, watcherVars, reflectorVars>> /\ compacted' \in Version
    BY <1>6, <1>t DEF vars, watcherVars, reflectorVars, ServerTypeOK
  <2> QED
    BY <1>4, <2>1
<1> QED
  BY <1>1, <1>2, <1>3, <1>5, <1>6 DEF Next, Server

\* Type correctness of the watcher and the reflector.
THEOREM TypeCorrect == Spec => []TypeOK
<1>1. IInv => TypeOK
  BY DEF IInv
<1> QED
  BY InitIInv, NextIInv, <1>1, PTL DEF Spec

\* The store is the collection exactly as it was at the version the watcher would resume
\* from, whatever lists, watches, bookmarks, errors, compactions and reconnects happened
\* before; only an object whose latest changes could not be decoded is excepted.
THEOREM StoreIsAccurate == Spec => []StoreIsSnapshot
<1>1. IInv => StoreIsSnapshot
  BY DEF IInv
<1> QED
  BY InitIInv, NextIInv, <1>1, PTL DEF Spec

\* Every cached object has been given to the consumer of applied_objects in the version
\* that is cached, or is queued in EventFlatten in that version.
THEOREM NothingUnreported == Spec => [](CachedIsReported /\ QueuedIsCurrent)
<1>1. IInv => CachedIsReported /\ QueuedIsCurrent
  BY DEF IInv
<1> QED
  BY InitIInv, NextIInv, <1>1, PTL DEF Spec

\* With ListSemantic::MostRecent the watcher never goes back to an older version.
THEOREM NoTimeTravel ==
  ASSUME ListSemantic = "MostRecent"
  PROVE  Spec => NeverGoesBack
<1>1. IInv /\ [Next]_vars => [resource_version' >= resource_version]_vars
  <2> SUFFICES ASSUME IInv, Next PROVE resource_version' >= resource_version
    OBVIOUS
  <2>t. ServerTypeOK /\ WatcherTypeOK
    BY TypeParts DEF IInv
  <2>0. resource_version \in Nat /\ oldest \in Nat /\ stream.pos \in Nat
    BY <2>t DEF WatcherTypeOK, Version, LastVersion
  <2>1. ASSUME resource_version' = resource_version PROVE resource_version' >= resource_version
    BY <2>0, <2>1
  <2>2. ASSUME NEW v \in Version, ListOk(v) PROVE resource_version' >= resource_version
    BY <2>0, <2>2 DEF ListOk, IInv, ListIsRecent, Version, LastVersion
  <2>3. ASSUME NEW v \in Version, BookmarkArrives(v) PROVE resource_version' >= resource_version
    BY <2>0, <2>3 DEF BookmarkArrives, IInv, WatchKeepsUp, Version, LastVersion
  <2>4. ASSUME NEW v \in Version, WatchEventArrives(v) PROVE resource_version' >= resource_version
    BY <2>0, <2>4 DEF WatchEventArrives, IsNextEvent, IInv, WatchKeepsUp, Version, LastVersion
  <2>5. ASSUME Step PROVE resource_version' >= resource_version
    BY <2>1, <2>2, <2>3, <2>4, <2>5
       DEF Step, StartList, ListFails, WatchStarts, WatchStartFails, GoneEvent, ErrorEvent,
           StreamFails, StreamEnds, WatchEventUndecodable
  <2> QED
    BY <2>1, <2>5 DEF Next, PollWatcher, EmitQueued, Server, watcherVars
<1> QED
  BY InitIInv, NextIInv, <1>1, PTL DEF Spec, NeverGoesBack

-----------------------------------------------------------------------------
(***************************************************************************)
(* The trigger streams and their backoff                                   *)
(***************************************************************************)

-----------------------------------------------------------------------------
(* The interval after n errors.  IntervalAfter is defined by recursion;    *)
(* that a function with this property exists follows from the least-number *)
(* principle.                                                              *)

\* A set of natural numbers that is not empty has a least element.
LEMMA LeastNat ==
  ASSUME NEW S \in SUBSET Nat, S # {}
  PROVE  \E m \in S : \A k \in S : m <= k
<1>1. PICK m \in S : \A k \in S : <<k, m>> \notin OpToRel(<, Nat)
  BY NatLessThanWellFounded, WFMin, Zenon
<1>2. \A k \in S : ~(k < m)
  BY <1>1, Zenon DEF OpToRel
<1> QED
  BY <1>2

\* The first n + 1 values of IntervalAfter
Approximates(g, n) == g = [i \in 0..n |-> IF i = 0 THEN Initial ELSE Doubled(g[i - 1])]

\* Approximations agree.
LEMMA ApproximationsAgree ==
  ASSUME NEW m \in Nat, NEW n \in Nat, NEW g, NEW h, Approximates(g, m), Approximates(h, n),
         NEW i \in 0..m, i \in 0..n
  PROVE  g[i] = h[i]
<1> DEFINE S == {j \in Nat : j <= m /\ j <= n /\ g[j] # h[j]}
<1> SUFFICES ASSUME g[i] # h[i] PROVE FALSE
  OBVIOUS
<1>1. i \in S
  OBVIOUS
<1>2. PICK j \in S : \A k \in S : j <= k
  BY <1>1, LeastNat
<1>3. j \in 0..m /\ j \in 0..n /\ j \in Nat
  OBVIOUS
<1>4. /\ g[j] = IF j = 0 THEN Initial ELSE Doubled(g[j - 1])
      /\ h[j] = IF j = 0 THEN Initial ELSE Doubled(h[j - 1])
  BY <1>3 DEF Approximates
<1>5. CASE j = 0
  BY <1>4, <1>5
<1>6. CASE j # 0
  <2>1. j - 1 \in Nat /\ ~(j <= j - 1) /\ j - 1 <= m /\ j - 1 <= n
    BY <1>3, <1>6
  <2>2. g[j - 1] = h[j - 1]
    BY <1>2, <2>1
  <2> QED
    BY <1>4, <1>6, <2>2
<1> QED
  BY <1>5, <1>6

\* There is an approximation of every length.
LEMMA ApproximationsExist == \A n \in Nat : \E g : Approximates(g, n)
<1> DEFINE S == {n \in Nat : ~\E g : Approximates(g, n)}
<1> SUFFICES ASSUME S # {} PROVE FALSE
  OBVIOUS
<1>1. PICK n \in S : \A k \in S : n <= k
  BY LeastNat
<1>2. n \in Nat
  OBVIOUS
<1>3. CASE n = 0
  <2> DEFINE g == [i \in 0..n |-> Initial]
  <2>1. \A i \in 0..n : i = 0
    BY <1>3
  <2>2. Approximates(g, n)
    BY <2>1 DEF Approximates
  <2> QED
    BY <2>2
<1>4. CASE n # 0
  <2>1. n - 1 \in Nat /\ ~(n <= n - 1)
    BY <1>2, <1>4
  <2>2. PICK g : Approximates(g, n - 1)
    BY <1>1, <2>1
  <2> DEFINE h == [i \in 0..n |-> IF i = n THEN Doubled(g[n - 1]) ELSE g[i]]
  <2>3. \A i \in 0..(n - 1) : g[i] = IF i = 0 THEN Initial ELSE Doubled(g[i - 1])
    BY <2>2 DEF Approximates
  <2>4. ASSUME NEW i \in 0..n PROVE h[i] = IF i = 0 THEN Initial ELSE Doubled(h[i - 1])
    <3>1. CASE i = n
      <4>1. h[i] = Doubled(g[n - 1]) /\ h[n - 1] = g[n - 1]
        BY <1>2, <1>4, <2>1, <3>1
      <4> QED
        BY <1>4, <3>1, <4>1
    <3>2. CASE i # n
      <4>1. i \in 0..(n - 1) /\ h[i] = g[i]
        BY <1>2, <3>2
      <4>2. i # 0 => i - 1 \in 0..n /\ i - 1 # n
        BY <1>2
      <4>3. i # 0 => h[i - 1] = g[i - 1]
        BY <4>2
      <4> QED
        BY <2>3, <4>1, <4>3
    <3> QED
      BY <3>1, <3>2
  <2>5. Approximates(h, n)
    BY <2>4 DEF Approximates
  <2> QED
    BY <2>5
<1> QED
  BY <1>3, <1>4

\* IntervalAfter is the function that its recursive definition describes.
LEMMA IntervalAfterDef ==
  ASSUME NEW n \in Nat
  PROVE  IntervalAfter[n] = IF n = 0 THEN Initial ELSE Doubled(IntervalAfter[n - 1])
<1> DEFINE G(k) == CHOOSE g : Approximates(g, k)
           F == [k \in Nat |-> G(k)[k]]
<1>1. \A k \in Nat : Approximates(G(k), k)
  BY ApproximationsExist
<1>2. ASSUME NEW k \in Nat PROVE F[k] = IF k = 0 THEN Initial ELSE Doubled(F[k - 1])
  <2>1. k \in 0..k
    OBVIOUS
  <2>2. G(k)[k] = IF k = 0 THEN Initial ELSE Doubled(G(k)[k - 1])
    BY <1>1, <2>1 DEF Approximates
  <2>3. ASSUME k # 0 PROVE G(k)[k - 1] = G(k - 1)[k - 1]
    <3>1. k - 1 \in Nat /\ k - 1 \in 0..k /\ k - 1 \in 0..(k - 1)
      BY <2>3
    <3>2. Approximates(G(k), k) /\ Approximates(G(k - 1), k - 1)
      BY <1>1, <3>1
    <3> HIDE DEF G
    <3> QED
      BY <3>1, <3>2, ApproximationsAgree
  <2>4. k # 0 => k - 1 \in Nat
    OBVIOUS
  <2> QED
    BY <2>2, <2>3, <2>4
<1> HIDE DEF G
<1>3. F = [k \in Nat |-> IF k = 0 THEN Initial ELSE Doubled(F[k - 1])]
  BY <1>2
<1>4. \E f : f = [k \in Nat |-> IF k = 0 THEN Initial ELSE Doubled(f[k - 1])]
  BY <1>3
<1>5. IntervalAfter = [k \in Nat |-> IF k = 0 THEN Initial ELSE Doubled(IntervalAfter[k - 1])]
  BY <1>4, Zenon DEF IntervalAfter
<1> QED
  BY <1>5

-----------------------------------------------------------------------------
(* The inductive invariant                                                 *)

TTypeOK ==
    /\ now \in Nat /\ deadline \in Nat /\ interval \in Nat /\ quiet_until \in Nat
    /\ streak \in 0..MaxStreak
    /\ last_backoff \in Nat /\ last_error \in Nat

\* Until the pause is over the stream waits for it, or is closed.
PauseIsKept ==
    now < quiet_until => (state = "BackingOff" /\ deadline = quiet_until) \/ state = "GivenUp"

\* The reset timer runs from the last error.
TimerIsOfErrors == last_backoff = last_error

TInv == TTypeOK /\ PauseIsKept /\ TimerIsOfErrors /\ SlowedByStreak

\* A doubled interval is one.
LEMMA DoubledType == ASSUME NEW i \in Nat PROVE Doubled(i) \in Nat
  BY BackoffAssumption DEF Doubled

\* The first states
LEMMA InitTInv == TInit => TInv
<1> SUFFICES ASSUME TInit PROVE TInv
  OBVIOUS
<1>1. TTypeOK
  BY BackoffAssumption DEF TInit, BackoffInit, TTypeOK, Never
<1>2. SlowedByStreak
  BY IntervalAfterDef DEF TInit, BackoffInit, SlowedByStreak
<1> QED
  BY <1>1, <1>2 DEF TInit, BackoffInit, TInv, PauseIsKept, TimerIsOfErrors

\* A poll that reaches the selector comes after the pause.
LEMMA PollsAfterPause == TInv /\ PollsInner => ~(now < quiet_until)
<1> SUFFICES ASSUME TInv, PollsInner, now < quiet_until PROVE FALSE
  OBVIOUS
<1>1. state = "BackingOff" /\ now >= quiet_until
  BY DEF TInv, PauseIsKept, PollsInner
<1> QED
  BY <1>1 DEF TInv, TTypeOK

\* A poll that finds no error leaves the pause, which is over, and the interval alone.
LEMMA StayInv ==
  ASSUME TInv, PollsInner, Stay, UNCHANGED <<now, interval, last_backoff, history>>
  PROVE  TInv'
<1>1. ~(now < quiet_until)
  BY PollsAfterPause
<1>2. UNCHANGED <<now, deadline, interval, last_backoff, quiet_until, streak, last_error>>
  BY DEF Stay, history
<1> QED
  BY <1>1, <1>2 DEF TInv, TTypeOK, PauseIsKept, TimerIsOfErrors, SlowedByStreak

\* An error: the interval found is the one of the errors counted, or the first again, and
\* both go one further.
LEMMA FailedInv ==
  ASSUME TInv, NEW until \in Nat, next_backoff, Failed(until), UNCHANGED now
  PROVE  /\ interval' \in Nat /\ streak' \in 0..MaxStreak /\ last_backoff' \in Nat /\ last_error' \in Nat
         /\ quiet_until' = until
         /\ TimerIsOfErrors' /\ SlowedByStreak'
<1> USE DEF TInv, TTypeOK
<1>1. /\ last_backoff' = now /\ last_error' = now /\ quiet_until' = until
      /\ interval' = Doubled(IntervalNow)
  BY DEF next_backoff, Failed
<1>2. CASE ResetTimerExpired
  <2>1. streak' = 1
    <3>1. last_error # Never /\ now > last_error + ResetDuration
      BY <1>2 DEF ResetTimerExpired, TimerIsOfErrors
    <3> QED
      BY <3>1 DEF Failed
  <2>2. interval' = Doubled(Initial)
    BY <1>1, <1>2 DEF IntervalNow
  <2>3. IntervalAfter[1] = Doubled(IntervalAfter[0]) /\ IntervalAfter[0] = Initial
    BY IntervalAfterDef
  <2>4. Doubled(Initial) \in Nat /\ 1 \in 0..MaxStreak
    BY BackoffAssumption, DoubledType
  <2> QED
    BY <1>1, <2>1, <2>2, <2>3, <2>4 DEF TimerIsOfErrors, SlowedByStreak
<1>3. CASE ~ResetTimerExpired
  <2>1. ~(last_error # Never /\ now > last_error + ResetDuration)
    BY <1>3 DEF ResetTimerExpired, TimerIsOfErrors
  <2>2. interval' = Doubled(IntervalAfter[streak]) /\ interval' \in Nat
    BY <1>1, <1>3, DoubledType DEF IntervalNow, SlowedByStreak
  <2>3. CASE streak < MaxStreak
    <3>1. streak' = streak + 1
      BY <2>1, <2>3 DEF Failed
    <3>2. streak + 1 \in 0..MaxStreak /\ streak + 1 \in Nat /\ streak + 1 # 0 /\ (streak + 1) - 1 = streak
      BY <2>3, BackoffAssumption
    <3>3. IntervalAfter[streak + 1] = Doubled(IntervalAfter[streak])
      BY <3>2, IntervalAfterDef
    <3> QED
      BY <1>1, <2>2, <3>1, <3>2, <3>3 DEF TimerIsOfErrors, SlowedByStreak
  <2>4. CASE ~(streak < MaxStreak)
    <3>1. streak' = streak /\ streak = MaxStreak
      BY <2>1, <2>4, BackoffAssumption DEF Failed
    <3>2. Doubled(MaxInterval) = MaxInterval
      <4>1. MaxInterval \in Nat
        BY BackoffAssumption
      <4>2. 2 * MaxInterval > MaxInterval \/ 2 * MaxInterval = MaxInterval
        BY <4>1
      <4> QED
        BY <4>1, <4>2 DEF Doubled
    <3> QED
      BY <1>1, <2>2, <3>1, <3>2, StreakAssumption DEF TimerIsOfErrors, SlowedByStreak
  <2> QED
    BY <2>3, <2>4
<1> QED
  BY <1>2, <1>3

\* Every step keeps the invariant.
LEMMA NextTInv == TInv /\ [TNext]_tvars => TInv'
<1> SUFFICES ASSUME TInv, [TNext]_tvars PROVE TInv'
  OBVIOUS
<1>1. ASSUME UNCHANGED <<now, state, deadline, interval, last_backoff, history>> PROVE TInv'
  BY <1>1 DEF history, TInv, TTypeOK, PauseIsKept, TimerIsOfErrors, SlowedByStreak
<1>2. CASE Tick
  <2>1. now' = now + 1 /\ UNCHANGED <<state, deadline, interval, last_backoff, quiet_until, streak, last_error>>
    BY <1>2 DEF Tick, history
  <2>2. now \in Nat /\ quiet_until \in Nat
    BY DEF TInv, TTypeOK
  <2>3. now' \in Nat /\ (now' < quiet_until => now < quiet_until)
    BY <2>1, <2>2
  <2> QED
    BY <2>1, <2>3 DEF TInv, TTypeOK, PauseIsKept, TimerIsOfErrors, SlowedByStreak
<1>3. CASE StillBackingOff \/ Closed
  BY <1>1, <1>3 DEF StillBackingOff, Closed
<1>4. CASE InnerPending \/ InnerReady
  BY <1>4, StayInv DEF InnerPending, InnerReady, reset
<1>5. ASSUME NEW s \in Stream, YieldsErr(s) PROVE TInv'
  <2>1. interval \in Nat /\ IntervalNow \in Nat /\ now \in Nat /\ Never \in Nat
    BY BackoffAssumption DEF TInv, TTypeOK, IntervalNow, Never
  <2>2. ASSUME NEW delay \in 0..(2 * IntervalNow), InnerErr(delay) PROVE TInv'
    <3>1. delay \in Nat /\ now + delay \in Nat
      BY <2>1, <2>2
    <3>2. /\ next_backoff /\ Failed(now + delay) /\ UNCHANGED now
          /\ state' = "BackingOff" /\ deadline' = now + delay
      BY <2>2 DEF InnerErr
    <3>3. /\ interval' \in Nat /\ streak' \in 0..MaxStreak /\ last_backoff' \in Nat /\ last_error' \in Nat
          /\ quiet_until' = now + delay /\ TimerIsOfErrors' /\ SlowedByStreak'
      BY <3>1, <3>2, FailedInv
    <3> QED
      BY <2>1, <3>1, <3>2, <3>3 DEF TInv, TTypeOK, PauseIsKept
  <2>3. CASE InnerErr_GivesUp
    <3>1. next_backoff /\ Failed(Never) /\ UNCHANGED <<now, deadline>> /\ state' = "GivenUp"
      BY <2>3 DEF InnerErr_GivesUp
    <3>2. /\ interval' \in Nat /\ streak' \in 0..MaxStreak /\ last_backoff' \in Nat /\ last_error' \in Nat
          /\ quiet_until' = Never /\ TimerIsOfErrors' /\ SlowedByStreak'
      BY <2>1, <3>1, FailedInv
    <3> QED
      BY <2>1, <3>1, <3>2 DEF TInv, TTypeOK, PauseIsKept
  <2> QED
    BY <1>5, <2>2, <2>3 DEF YieldsErr
<1>6. ASSUME NEW s \in Stream, Skips(s) \/ Drops(s) PROVE TInv'
  BY <1>6, StayInv DEF Skips, Drops
<1>7. ASSUME NEW s \in Stream, NEW item, Offer(s, item) PROVE TInv'
  BY <1>1, <1>7 DEF Offer
<1>8. CASE UNCHANGED tvars
  <2>1. UNCHANGED <<now, state, deadline, interval, last_backoff, history>>
    BY <1>8 DEF tvars, history
  <2> QED
    BY <1>1, <2>1
<1> QED
  BY <1>2, <1>3, <1>4, <1>5, <1>6, <1>7, <1>8 DEF TNext, TPoll, YieldsOk

-----------------------------------------------------------------------------
(* The theorems                                                            *)

\* The inductive invariant of the backoff: a pause that is not over is waited for, and the
\* timer that resets the interval runs from the last error.
THEOREM TriggersInvariant == TSpec => []TInv
  BY InitTInv, NextTInv, PTL DEF TSpec

\* ResetTimerBackoff in StreamBackoff: the interval is the initial one, doubled once per error
\* since the last pause between errors longer than the reset duration; items do not reset it.
THEOREM ErrorsSlowDown == TSpec => []SlowedByStreak
<1>1. TInv => SlowedByStreak
  BY DEF TInv
<1> QED
  BY <1>1, TriggersInvariant, PTL

\* What any step may do while the pause lasts
LEMMA PausedStep ==
  ASSUME TInv, [TNext]_tvars, now < quiet_until
  PROVE  /\ yielded' \in {yielded, "Pending", "None"}
         /\ UNCHANGED history
         /\ \A s \in Stream : offers[s] # "none" => offers'[s] = offers[s]
<1>1. ~PollsInner
  BY PollsAfterPause
<1>2. CASE Tick /\ UNCHANGED streams
  BY <1>2 DEF Tick, streams
<1>3. CASE (StillBackingOff \/ Closed) /\ UNCHANGED streams
  BY <1>3 DEF StillBackingOff, Closed, streams
<1>4. ASSUME NEW s \in Stream, NEW item, Offer(s, item)
      PROVE  /\ yielded' \in {yielded, "Pending", "None"}
             /\ UNCHANGED history
             /\ \A t \in Stream : offers[t] # "none" => offers'[t] = offers[t]
  <2>1. offers[s] = "none" /\ offers' = [offers EXCEPT ![s] = item] /\ UNCHANGED <<yielded, history>>
    BY <1>4 DEF Offer
  <2>2. ASSUME NEW t \in Stream, offers[t] # "none" PROVE offers'[t] = offers[t]
    BY <2>1, <2>2
  <2> QED
    BY <2>1, <2>2
<1>5. CASE UNCHANGED tvars
  BY <1>5 DEF tvars, history
<1> QED
  BY <1>1, <1>2, <1>3, <1>4, <1>5
     DEF TNext, TPoll, InnerPending, InnerReady, YieldsOk, YieldsErr, InnerErr, InnerErr_GivesUp, Skips, Drops

\* StreamBackoff around SelectAll: from an error until its pause is over, or for ever once the
\* Backoff has given up, the consumer gets nothing and no stream in the selector is polled,
\* whichever of them failed.
THEOREM ErrorsPause == TSpec => PausesAfterErr
<1>1. TInv /\ [TNext]_tvars =>
        [now < quiet_until => /\ yielded' \in {yielded, "Pending", "None"}
                              /\ UNCHANGED history
                              /\ \A s \in Stream : offers[s] # "none" => offers'[s] = offers[s]]_tvars
  BY PausedStep
<1> QED
  BY <1>1, TriggersInvariant, PTL DEF TSpec, PausesAfterErr
=============================================================================
