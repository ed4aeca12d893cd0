------------------------------- MODULE Watcher ------------------------------
(***************************************************************************)
(* kube-runtime/src/watcher.rs: the state machine that keeps a LIST and a  *)
(* WATCH going and turns them into a stream of Events, over the client's   *)
(* request_events (kube-client/src/client/mod.rs), which turns the HTTP    *)
(* answer to a WATCH into stream items.                                    *)
(*                                                                         *)
(* Each action is one pass through step_trampolined.  `out` is what the    *)
(* pass yields; after a pass that yields NoItem `step` goes round again.   *)
(***************************************************************************)
EXTENDS ApiServer

CONSTANTS ListSemantic,   \* "MostRecent" or "Any"
          GoneAs,         \* how a WATCH from an expired version is refused: as
                          \* an "event" of the stream, or as an "http" status
          Bookmarks       \* whether bookmarks are asked for

ASSUME WatcherAssumption == /\ ListSemantic \in {"MostRecent", "Any"}
                            /\ GoneAs \in {"event", "http"}
                            /\ Bookmarks \in BOOLEAN

VARIABLES wstate,             \* "Empty", "Listing" (Empty, in its LIST), "InitListed", "Watching"
          resource_version,   \* of the current state; the last one seen while it has none
          oldest,             \* the oldest version the LIST under way may return
          stream,             \* the WATCH: its status and how far it has been read
          out                 \* the item yielded

watcherVars == <<wstate, resource_version, oldest, stream, out>>

NoItem == [type |-> "NoItem"]
Error == [type |-> "Error"]
Applied(o, v) == [type |-> "Applied", obj |-> o, version |-> v]
Deleted(o) == [type |-> "Deleted", obj |-> o]
Restarted(items) == [type |-> "Restarted", items |-> items]

Ended == [status |-> "ended", pos |-> 0]

WatcherInit ==
    /\ wstate = "Empty"
    /\ resource_version = 0
    /\ oldest = 0
    /\ stream = Ended
    /\ out = NoItem

-----------------------------------------------------------------------------
(* State::Empty                                                            *)

OldestAllowed_AlwaysCached == 0

\* to_list_params: MostRecent asks for a quorum read, Any for resourceVersion=0,
\* which any cache however old may answer.
OldestAllowed == IF ListSemantic = "MostRecent" THEN LastVersion ELSE 0

StartList ==
    /\ wstate = "Empty"
    /\ wstate' = "Listing"
    /\ oldest' = OldestAllowed
    /\ out' = NoItem
    /\ UNCHANGED <<resource_version, stream>>

\* A list is decoded as a whole or fails as a whole.
ListOk(v) ==
    /\ wstate = "Listing"
    /\ v >= oldest
    /\ \E items \in [Object -> Version] :
         /\ IsSnapshot(items, v)
         /\ \A o \in Object : items[o] # Absent => log[items[o]].decodable
         /\ out' = Restarted(items)
    /\ wstate' = "InitListed"
    /\ resource_version' = v
    /\ UNCHANGED <<oldest, stream>>

\* InitialListFailed, or NoResourceVersion
ListFails ==
    /\ wstate = "Listing"
    /\ wstate' = "Empty"
    /\ out' = Error
    /\ UNCHANGED <<resource_version, oldest, stream>>

-----------------------------------------------------------------------------
(* State::InitListed                                                       *)

WatchStarts_FromNow ==
    /\ wstate = "InitListed"
    /\ stream' = [status |-> "open", pos |-> LastVersion]
    /\ wstate' = "Watching"
    /\ out' = NoItem
    /\ UNCHANGED <<resource_version, oldest>>

\* request_events looks at no status code: a refusal is a stream as well.
WatchStarts ==
    /\ wstate = "InitListed"
    /\ stream' = [status |-> IF resource_version >= compacted THEN "open" ELSE GoneAs,
                  pos |-> resource_version]
    /\ wstate' = "Watching"
    /\ out' = NoItem
    /\ UNCHANGED <<resource_version, oldest>>

\* WatchStartFailed: the request got no answer
WatchStartFails ==
    /\ wstate = "InitListed"
    /\ out' = Error
    /\ UNCHANGED <<wstate, resource_version, oldest, stream>>

-----------------------------------------------------------------------------
(* State::Watching, by the item that stream.next() yields                  *)

ItemOf(i) == IF log[i].deleted THEN Deleted(log[i].obj) ELSE Applied(log[i].obj, i)

\* WatchEvent::Added, Modified or Deleted
WatchEventArrives(i) ==
    /\ wstate = "Watching"
    /\ stream.status = "open"
    /\ IsNextEvent(stream.pos, i)
    /\ log[i].decodable
    /\ out' = ItemOf(i)
    /\ resource_version' = i
    /\ stream' = [stream EXCEPT !.pos = i]
    /\ UNCHANGED <<wstate, oldest>>

\* The line is not a WatchEvent of this type: WatchFailed, and the event is skipped.
WatchEventUndecodable(i) ==
    /\ wstate = "Watching"
    /\ stream.status = "open"
    /\ IsNextEvent(stream.pos, i)
    /\ ~log[i].decodable
    /\ out' = Error
    /\ stream' = [stream EXCEPT !.pos = i]
    /\ UNCHANGED <<wstate, resource_version, oldest>>

\* WatchEvent::Bookmark carries a version up to which no event is outstanding.
BookmarkArrives(v) ==
    /\ Bookmarks
    /\ wstate = "Watching"
    /\ stream.status = "open"
    /\ v > stream.pos
    /\ \A j \in (stream.pos + 1)..v : log[j].obj = Foreign
    /\ resource_version' = v
    /\ stream' = [stream EXCEPT !.pos = v]
    /\ out' = NoItem
    /\ UNCHANGED <<wstate, oldest>>

GoneEvent_KeepsWatching ==
    /\ wstate = "Watching"
    /\ \/ stream.status = "event"
       \/ stream.status = "open" /\ stream.pos < compacted
    /\ out' = Error
    /\ stream' = Ended
    /\ UNCHANGED <<wstate, resource_version, oldest>>

\* WatchEvent::Error with code 410: the version had left the window when the watch
\* started, or leaves it now.  The stream is dropped.
GoneEvent ==
    /\ wstate = "Watching"
    /\ \/ stream.status = "event"
       \/ stream.status = "open" /\ stream.pos < compacted
    /\ out' = Error
    /\ wstate' = "Empty"
    /\ stream' = Ended
    /\ UNCHANGED <<resource_version, oldest>>

\* WatchEvent::Error with any other code; the server may or may not hang up after it.
ErrorEvent ==
    /\ wstate = "Watching"
    /\ stream.status = "open"
    /\ out' = Error
    /\ stream' \in {stream, Ended}
    /\ UNCHANGED <<wstate, resource_version, oldest>>

\* Some(Err(..)): the connection failed, or the body was an error status.
StreamFails ==
    /\ wstate = "Watching"
    /\ stream.status \in {"open", "http"}
    /\ out' = Error
    /\ stream' = Ended
    /\ UNCHANGED <<wstate, resource_version, oldest>>

\* None: the server hung up, a timeout or an unexpected end of file (which
\* request_events does not report).  On to another watch from the last version.
StreamEnds ==
    /\ wstate = "Watching"
    /\ stream.status \in {"open", "ended"}
    /\ wstate' = "InitListed"
    /\ stream' = Ended
    /\ out' = NoItem
    /\ UNCHANGED <<resource_version, oldest>>

\* One pass through step_trampolined
Step == \/ StartList \/ ListFails \/ WatchStarts \/ WatchStartFails
        \/ GoneEvent \/ ErrorEvent \/ StreamFails \/ StreamEnds
        \/ \E v \in Version : \/ ListOk(v) \/ BookmarkArrives(v)
                              \/ WatchEventArrives(v) \/ WatchEventUndecodable(v)
=============================================================================
