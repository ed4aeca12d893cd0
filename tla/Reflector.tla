------------------------------ MODULE Reflector -----------------------------
(***************************************************************************)
(* A reflector fed by a watcher and read through applied_objects, the      *)
(* pipeline behind every Controller:                                       *)
(*   kube-runtime/src/reflector/mod.rs, reflector/store.rs: the store;     *)
(*   kube-runtime/src/utils/event_flatten.rs: EventFlatten on top of it.   *)
(* The reflector writes each event to the store in the poll that yields    *)
(* it; EventFlatten polls the reflector only when its own queue is empty.  *)
(***************************************************************************)
EXTENDS Watcher

VARIABLES store,       \* the Writer's map: version of each cached object, or Absent
          ready,       \* ready_tx was used: wait_until_ready returns
          flat_queue,  \* EventFlatten's queue: what is left of the last Restarted
          reported     \* history: version of each object last given to the consumer

reflectorVars == <<store, ready, flat_queue, reported>>
vars == <<log, compacted, wstate, resource_version, oldest, stream, out,
          store, ready, flat_queue, reported>>

Nothing == [o \in Object |-> Absent]

Init == /\ ServerInit
        /\ WatcherInit
        /\ store = Nothing
        /\ ready = FALSE
        /\ flat_queue = {}
        /\ reported = Nothing

\* What the store holds after an item of the watcher; an Err goes past it.
apply_watcher_event(event) ==
    IF event.type = "Applied" THEN [store EXCEPT ![event.obj] = event.version]
    ELSE IF event.type = "Deleted" THEN [store EXCEPT ![event.obj] = Absent]
    ELSE IF event.type = "Restarted" THEN event.items
    ELSE store

Live(items) == {[obj |-> o, version |-> items[o]] : o \in {p \in Object : items[p] # Absent}}

\* EventFlatten::poll_next on what the reflector passes on (emit_deleted is false):
\* an applied object goes to the consumer, a restart goes to the queue.
Flatten(event) ==
    /\ flat_queue' = IF event.type = "Restarted" THEN Live(event.items) ELSE flat_queue
    /\ reported' = IF event.type = "Applied"
                   THEN [reported EXCEPT ![event.obj] = event.version] ELSE reported

QueueDrained_NotChecked == TRUE
QueueDrained == flat_queue = {}

\* The consumer polls and the watcher makes pass A.
PollWatcher(A) ==
    /\ QueueDrained
    /\ A
    /\ store' = apply_watcher_event(out')
    /\ ready' = (ready \/ out'.type \in {"Applied", "Deleted", "Restarted"})
    /\ Flatten(out')
    /\ UNCHANGED serverVars

\* The consumer polls while objects of a restart are queued.
EmitQueued(item) ==
    /\ flat_queue' = flat_queue \ {item}
    /\ reported' = [reported EXCEPT ![item.obj] = item.version]
    /\ UNCHANGED <<serverVars, watcherVars, store, ready>>

Server == /\ \/ \E c \in Change : Write(c)
             \/ \E v \in Version : Compact(v)
          /\ UNCHANGED <<watcherVars, reflectorVars>>

Next == PollWatcher(Step) \/ (\E item \in flat_queue : EmitQueued(item)) \/ Server

Spec == Init /\ [][Next]_vars

-----------------------------------------------------------------------------
\* The type of every variable.
TypeOK ==
    /\ log \in Seq(Change)
    /\ compacted \in Version
    /\ wstate \in {"Empty", "Listing", "InitListed", "Watching"}
    /\ resource_version \in Version
    /\ oldest \in Version
    /\ stream \in [status : {"open", "ended", "event", "http"}, pos : Version]
    /\ store \in [Object -> Version]
    /\ ready \in BOOLEAN
    /\ flat_queue \in SUBSET [obj : Object, version : Version \ {Absent}]
    /\ reported \in [Object -> Version]

\* o was changed in a way the client could not decode, and in no other way since.
Obscured(o, v) ==
    \E i \in 1..v : /\ log[i].obj = o
                    /\ \A j \in i..v : log[j].obj = o => ~log[j].decodable

\* Once it is ready, the store is the collection exactly as it was at the version
\* the watcher would resume from: nothing is missed or resurrected by reconnects,
\* bookmarks and relists.  The one exception is an object whose latest changes the
\* client could not decode: step_trampolined skips those.
StoreIsSnapshot ==
    ready => \A o \in Object : \/ ObjectAt(o, resource_version, store[o])
                               \/ Obscured(o, resource_version)

\* Every object in the store has been handed to the consumer of applied_objects in
\* the version that is cached, or is still queued: a Controller's own objects are
\* all queued for reconciliation, however the updates arrived.
CachedIsReported ==
    \A o \in Object :
      store[o] # Absent => \/ reported[o] = store[o]
                          \/ [obj |-> o, version |-> store[o]] \in flat_queue

\* What EventFlatten still holds is never older (or newer) than what is cached: the
\* reconciler's read of the store cannot go back behind the object it is run for.
QueuedIsCurrent == \A item \in flat_queue : store[item.obj] = item.version

\* With ListSemantic::MostRecent the watcher never travels back in time, relists
\* included.
NeverGoesBack == [][resource_version' >= resource_version]_vars

\* What the server holds now can be decoded.
Decodes == \A o \in Object, i \in Version : IsLast(o, LastVersion, i) => log[i].decodable
=============================================================================
