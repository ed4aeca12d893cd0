----------------------------- MODULE Controller -----------------------------
(***************************************************************************)
(* kube-runtime/src/controller/mod.rs: Controller::run, that is, applier   *)
(* over the Controller's own trigger streams, and the stream combinators   *)
(* it is made of (kube-runtime/src/utils/mod.rs).  One task polls          *)
(*                                                                         *)
(*   select(via, errs)                                                     *)
(*     via  = Runner over the Ok items of inner      (SplitCase is_ok)     *)
(*     errs = the Err items of inner                 (SplitCase is_err)    *)
(*     inner = peekable(select(triggers, reschedule channel))              *)
(*                                                                         *)
(* `triggers` is the reflector of the controlled objects merged with the   *)
(* watches of related ones: polling it updates the store.  What the        *)
(* watchers have ready to be read is `feed`; Runner's variable `requests`  *)
(* is the reschedule channel, `closed` a graceful shutdown and `gate` the  *)
(* readiness of the store.  Around all the watches there is one            *)
(* StreamBackoff: the error of any of them stops the reflector as well.    *)
(***************************************************************************)
EXTENDS Runner

CONSTANTS MaxFeed,       \* bound on the items ready to be read from the watches
          MaxVersion     \* bound on the versions of the controlled objects

ASSUME ControllerAssumption == MaxFeed \in Nat /\ MaxVersion \in Nat

VARIABLES feed,          \* items of the watches behind `triggers`, oldest first
          backoff,       \* state of the StreamBackoff: "awake", "backing_off" or "given_up"
          store,         \* the reflector's store: version per object, 0 if absent
          flat_queue,    \* objects of the last item not yet triggered
          peeked,        \* the item that Peekable holds: Ok, Err or None
          errs_first,    \* select polls errs before via in this round
          resched_first, \* inner's select polls the reschedule channel before the triggers
          version,       \* history: the newest version handed out
          seen,          \* history: the version each object was last reconciled at
          owed           \* history: objects whose reconciler asked to be run again

world == <<feed, backoff, store, flat_queue, peeked, errs_first, resched_first, version, seen, owed>>
cvars == <<now, requests, closed, queue, scheduled, pending, slots, gate,
           is_ready_to_execute, stopped, has_active_slots, phase, woken, wakers,
           feed, backoff, store, flat_queue, peeked, errs_first, resched_first, version,
           seen, owed>>

Nowhere == [m \in Message |-> 0]
Err == [type |-> "error"]
Ok(r) == [type |-> "ok", request |-> r]
FeedItem == [type : {"applied", "deleted"}, obj : Message]
            \cup [type : {"restarted"}, objs : SUBSET Message]
            \cup [type : {"related"}, objs : (SUBSET Message) \ {{}}]
            \cup [type : {"bulk"}]
            \cup {Err}

\* Option::None is no item.
ASSUME PeekedAssumption == None # Err /\ \A r \in ScheduleRequest : None # Ok(r)

CInit == /\ Init
         /\ feed = <<>>
         /\ backoff = "awake"
         /\ store = Nowhere
         /\ flat_queue = {}
         /\ peeked = None
         /\ errs_first = TRUE
         /\ resched_first = FALSE
         /\ version = 0
         /\ seen = Nowhere
         /\ owed = {}

-----------------------------------------------------------------------------
(* Polling inner: one of its sources has an item, and Peekable keeps it    *)

\* map_ok in applier: run_at is one millisecond from now.  At the end of the model's
\* clock that millisecond has passed at once.
Soon(m) == [message |-> m, run_at |-> IF now < MaxTime THEN now + 1 ELSE MaxTime]

\* An event reaches the store; the first one makes it ready, which wakes the gate.
\* SelectAll leaves its waker with the watches that have nothing yet.
StoreEvent(new) ==
    /\ store' = new
    /\ gate' = IF gate = "waiting" THEN "ok" ELSE gate
    /\ woken' = (woken \/ (gate = "waiting" /\ "gate" \in wakers))
    /\ wakers' = (wakers \ {"gate"}) \cup {"feed"}

NoStoreEvent == Register({"feed"}) /\ UNCHANGED <<store, gate>>

\* What EventFlatten, try_flatten or flat_map still hold of the last item
TriggerQueued ==
    \E m \in flat_queue :
      /\ peeked' = Ok(Soon(m))
      /\ flat_queue' = flat_queue \ {m}
      /\ NoStoreEvent
      /\ UNCHANGED <<feed, backoff, version, owed>>

TriggerApplied(item) ==
    /\ item.type = "applied"
    /\ version' = version + 1
    /\ StoreEvent([store EXCEPT ![item.obj] = version'])
    /\ peeked' = Ok(Soon(item.obj))
    /\ UNCHANGED <<backoff, flat_queue, owed>>

\* applied_objects passes no deletion on: the stream is polled on.
TriggerDeleted(item) ==
    /\ item.type = "deleted"
    /\ StoreEvent([store EXCEPT ![item.obj] = 0])
    /\ UNCHANGED <<backoff, peeked, flat_queue, version, owed>>

TriggerRestarted(item) ==
    /\ item.type = "restarted"
    /\ version' = version + 1
    /\ StoreEvent([m \in Message |-> IF m \in item.objs THEN version' ELSE 0])
    /\ flat_queue' = item.objs
    /\ UNCHANGED <<backoff, peeked, owed>>

TriggerRelated_First(item) ==
    /\ item.type = "related"
    /\ NoStoreEvent
    /\ owed' = owed \cup item.objs
    /\ UNCHANGED <<backoff, peeked, flat_queue, version>>

\* owns, watches, reconcile_on: a related object was touched, and its owner references
\* of the controlled type, or the mapper, name the objects to reconcile.
TriggerRelated(item) ==
    /\ item.type = "related"
    /\ flat_queue' = item.objs
    /\ NoStoreEvent
    /\ owed' = owed \cup item.objs
    /\ UNCHANGED <<backoff, peeked, version>>

\* reconcile_all_on: what the store holds when the trigger is read
TriggerBulk(item) ==
    /\ item.type = "bulk"
    /\ flat_queue' = {m \in Message : store[m] # 0}
    /\ NoStoreEvent
    /\ owed' = owed \cup flat_queue'
    /\ UNCHANGED <<backoff, peeked, version>>

\* The Backoff has a delay, or none any more.
TriggerError(item) ==
    /\ item = Err
    /\ peeked' = Err
    /\ backoff' \in {"backing_off", "given_up"}
    /\ NoStoreEvent
    /\ UNCHANGED <<flat_queue, version, owed>>

TriggerRead ==
    /\ flat_queue = {}
    /\ feed # <<>>
    /\ feed' = Tail(feed)
    /\ LET item == Head(feed) IN
         \/ TriggerApplied(item) \/ TriggerDeleted(item) \/ TriggerRestarted(item)
         \/ TriggerRelated(item) \/ TriggerBulk(item) \/ TriggerError(item)

\* A request that a finished reconciliation sent to scheduler_tx
RescheduleRead ==
    /\ requests # <<>>
    /\ peeked' = Ok(Head(requests))
    /\ requests' = Tail(requests)
    /\ UNCHANGED <<feed, backoff, store, flat_queue, version, gate, woken, wakers, owed>>

TriggersReady == ~closed /\ backoff = "awake" /\ (flat_queue # {} \/ feed # <<>>)

\* select's turn passes to the other side when the poll ends with an item; an event
\* that yields no request only moves the triggers on.  (take_until looks at the
\* shutdown before it looks at the stream.)
InnerYields ==
    /\ peeked = None
    /\ \/ /\ TriggersReady
          /\ ~resched_first \/ requests = <<>>
          /\ TriggerQueued \/ TriggerRead
          /\ UNCHANGED requests
       \/ /\ resched_first \/ ~TriggersReady
          /\ RescheduleRead
    /\ resched_first' = IF peeked' = None THEN resched_first ELSE ~resched_first
    /\ UNCHANGED <<now, closed, state, slots, is_ready_to_execute, stopped, has_active_slots,
                   phase, errs_first, seen>>

TriggersEnded == closed \/ backoff = "given_up"

\* Both sources are Pending and keep the waker: the watches, or the Sleep of the backoff.
InnerPending ==
    /\ peeked = None
    /\ ~TriggersEnded /\ ~TriggersReady /\ requests = <<>>
    /\ Register({"requests", IF backoff = "awake" THEN "feed" ELSE "backoff"})
    /\ resched_first' = ~resched_first

\* The triggers ended, and with them (scheduler_shutdown_tx) the reschedule channel.
InnerEnded == peeked = None /\ TriggersEnded

-----------------------------------------------------------------------------
(* errs                                                                    *)

InErrs == phase \in {"errs_then_via", "errs_after_via"}
AfterErrs == IF phase = "errs_then_via" THEN "slots" ELSE "idle"

ErrsYields ==
    /\ InErrs
    /\ peeked = Err
    /\ peeked' = None
    /\ phase' = "idle"
    /\ woken' = TRUE
    /\ UNCHANGED <<now, requests, closed, state, runnerState, wakers, feed, backoff, store, flat_queue,
                   errs_first, resched_first, version, seen, owed>>

\* "Handled by another SplitCase instead": Pending, and no waker is left anywhere.
ErrsRejects ==
    /\ InErrs
    /\ peeked # None /\ peeked # Err
    /\ phase' = AfterErrs
    /\ UNCHANGED <<now, requests, closed, state, runnerState, woken, wakers, world>>

ErrsPending ==
    /\ InErrs
    /\ InnerPending \/ (InnerEnded /\ UNCHANGED <<woken, wakers, resched_first>>)
    /\ phase' = AfterErrs
    /\ UNCHANGED <<now, requests, closed, state, runnerState, feed, backoff, store, flat_queue, peeked,
                   errs_first, version, seen, owed>>

ErrsPolls == InErrs /\ InnerYields

-----------------------------------------------------------------------------
(* via: the Runner, whose requests are the Ok items of inner               *)

AfterVia == IF errs_first THEN "idle" ELSE "errs_after_via"

ViaPolls == phase = "requests" /\ InnerYields

ViaTakes ==
    /\ phase = "requests"
    /\ peeked # None /\ peeked # Err
    /\ schedule_message(peeked.request)
    /\ peeked' = None
    /\ UNCHANGED <<now, requests, closed, runnerState, phase, woken, wakers, feed, backoff, store,
                   flat_queue, errs_first, resched_first, version, seen, owed>>

\* SplitCase rejects an Err: Pending, without a waker.
ViaRejects ==
    /\ phase = "requests"
    /\ peeked = Err
    /\ phase' = "pop"
    /\ UNCHANGED <<now, requests, closed, state, runnerState, woken, wakers, world>>

ViaDrained ==
    /\ phase = "requests"
    /\ InnerPending
    /\ phase' = "pop"
    /\ UNCHANGED <<now, requests, closed, state, runnerState, feed, backoff, store, flat_queue, peeked,
                   errs_first, version, seen, owed>>

ViaEnded_KeepsWaiting ==
    /\ phase = "requests"
    /\ InnerEnded
    /\ phase' = AfterVia
    /\ UNCHANGED <<now, requests, closed, state, runnerState, woken, wakers, world>>

\* The Runner ends, and errs with it, unless a future was found running.
ViaEnded ==
    /\ phase = "requests"
    /\ InnerEnded
    /\ phase' = IF has_active_slots THEN AfterVia ELSE "terminated"
    /\ UNCHANGED <<now, requests, closed, state, runnerState, woken, wakers, world>>

\* run_msg: the object is read from the store when its reconciliation starts; one
\* that is gone gives a future that is ready at once (ObjectNotFound).
StartReconcile(m) ==
    /\ Launch(m, IF store[m] = 0 THEN "done" ELSE "running")
    /\ seen' = [seen EXCEPT ![m] = store[m]]
    /\ owed' = owed \ {m}
    /\ UNCHANGED <<feed, backoff, store, flat_queue, peeked, errs_first, resched_first, version>>

ViaPending ==
    /\ phase = "pop"
    /\ NothingToTake(CanTake)
    /\ Register({"timer"})
    /\ phase' = AfterVia
    /\ UNCHANGED <<now, requests, closed, state, runnerState, world>>

FinishReconcile_NoReschedule(m) ==
    /\ FreeSlot(m)
    /\ \/ UNCHANGED <<requests, owed>>
       \/ seen[m] # 0 /\ owed' = owed \cup {m} /\ UNCHANGED requests
    /\ UNCHANGED <<now, closed, state, feed, backoff, store, flat_queue, peeked, errs_first, resched_first,
                   version, seen>>

\* The future of a slot ends in RescheduleReconciliation, which sends the request that
\* the Action or the error policy asks for.  Every task has its own sender, so the
\* channel always has room for it.  ObjectNotFound asks for nothing.
FinishReconcile(m) ==
    /\ FreeSlot(m)
    /\ \/ UNCHANGED <<requests, owed>>
       \/ /\ seen[m] # 0
          /\ \E t \in now..MaxTime : requests' = Append(requests, [message |-> m, run_at |-> t])
          /\ owed' = owed \cup {m}
    /\ UNCHANGED <<now, closed, state, feed, backoff, store, flat_queue, peeked, errs_first, resched_first,
                   version, seen>>

-----------------------------------------------------------------------------
(* The task is polled; select changes sides with every poll                *)

PollTask ==
    /\ phase = "idle"
    /\ errs_first' = ~errs_first
    /\ phase' = IF errs_first' THEN "errs_then_via" ELSE "slots"
    /\ woken' = FALSE
    /\ UNCHANGED <<now, requests, closed, state, runnerState, wakers, feed, backoff, store, flat_queue,
                   peeked, resched_first, version, seen, owed>>

TaskStep ==
    \/ ErrsYields \/ ErrsRejects \/ ErrsPending \/ ErrsPolls
    \/ ViaPolls \/ ViaTakes \/ ViaRejects \/ ViaDrained \/ ViaEnded \/ ViaPending
    \/ (NoResult \/ GateOpen \/ GatePending) /\ UNCHANGED world
    \/ \E m \in Message : \/ StartReconcile(m) \/ FinishReconcile(m)
                          \/ HoldMessage(m) /\ UNCHANGED world

InFeed(types) == {i \in 1..Len(feed) : feed[i].type \in types}

\* The watches get something to read.  The watcher lists before it watches.
Arrive(item) ==
    /\ phase # "terminated"
    /\ Len(feed) < MaxFeed
    /\ feed' = Append(feed, item)
    /\ item.type = "applied" => gate # "waiting" \/ InFeed({"restarted"}) # {}
    /\ item.type = "deleted" => store[item.obj] # 0 /\ InFeed({"deleted", "restarted"}) = {}
    /\ item.type \in {"applied", "restarted"} =>
         version + Cardinality(InFeed({"applied", "restarted"})) < MaxVersion
    /\ Wake("feed")
    /\ UNCHANGED <<now, requests, closed, state, runnerState, phase, backoff, store, flat_queue, peeked,
                   errs_first, resched_first, version, seen, owed>>

BackoffOver_Unnoticed ==
    /\ backoff = "backing_off"
    /\ backoff' = "awake"
    /\ UNCHANGED <<now, requests, closed, state, runnerState, woken, wakers, phase, feed, store,
                   flat_queue, peeked, errs_first, resched_first, version, seen, owed>>

\* The Sleep of the backoff ends.
BackoffOver ==
    /\ backoff = "backing_off"
    /\ backoff' = "awake"
    /\ Wake("backoff")
    /\ UNCHANGED <<now, requests, closed, state, runnerState, phase, feed, store, flat_queue,
                   peeked, errs_first, resched_first, version, seen, owed>>

\* graceful_shutdown_on: the future that take_until polls before the triggers
Shutdown ==
    /\ phase # "terminated"
    /\ CloseRequests
    /\ woken' = (woken \/ wakers \cap {"feed", "backoff"} # {})
    /\ wakers' = wakers \ {"feed", "backoff"}
    /\ UNCHANGED <<runnerState, phase, world>>

\* The outer take_until: the stream ends and what is running is aborted.
ForcefulShutdown ==
    /\ phase = "idle"
    /\ phase' = "terminated"
    /\ slots' = [m \in Message |-> "empty"]
    /\ UNCHANGED <<now, requests, closed, state, gate, is_ready_to_execute, stopped,
                   has_active_slots, woken, wakers, world>>

CNext == \/ PollTask \/ TaskStep \/ BackoffOver \/ Shutdown \/ ForcefulShutdown
         \/ \E item \in FeedItem : Arrive(item)
         \/ (TimePasses \/ \E m \in Message : FinishMessage(m)) /\ UNCHANGED world

CSpec == CInit /\ [][CNext]_cvars

\* The task is polled when it was woken and a poll runs to its end; time passes;
\* reconcilers return.  Nothing is assumed of the watches.
CFairness == /\ WF_cvars(woken /\ PollTask)
             /\ WF_cvars(TaskStep)
             /\ WF_cvars(BackoffOver)
             /\ WF_cvars(TimePasses /\ UNCHANGED world)
             /\ \A m \in Message : WF_cvars(FinishMessage(m) /\ UNCHANGED world)

CFairSpec == CSpec /\ CFairness

-----------------------------------------------------------------------------
\* On its way to the Scheduler, or due in it
OnItsWay(m) == \/ Due[m] # None
               \/ peeked # None /\ peeked # Err /\ peeked.request.message = m
               \/ m \in flat_queue

\* Level triggering: an object in the store was last reconciled at the version that
\* is stored, or a reconciliation of it is due: an update that arrives while the object
\* is being reconciled is followed by another reconciliation.  And nobody who asked for
\* one is forgotten: not a reconciler (requeue) or error policy whose request is in the
\* reschedule channel, however full that gets, nor a related object that was touched.
NoMissedReconciliation ==
    /\ \A m \in Message : store[m] # 0 => seen[m] = store[m] \/ OnItsWay(m)
    /\ \A m \in owed : \/ OnItsWay(m)
                       \/ \E i \in 1..Len(requests) : requests[i].message = m

\* After a graceful shutdown the stream ends, however much is queued, once the running
\* reconcilers have returned.
ShutdownCompletes == closed ~> phase = "terminated"

\* Once reconciliations are under way the error of a watch holds nothing up for good: it
\* goes on to the consumer (SplitCase: the next reconciliation that finishes lets it
\* pass), the pause after it ends, and what the watches report then reaches the store,
\* however often they fail.
ErrorsHoldNothingUp ==
    /\ (peeked = Err /\ is_ready_to_execute) ~> (peeked # Err \/ phase = "terminated")
    /\ (InFeed({"applied", "deleted", "restarted"}) # {} /\ is_ready_to_execute)
         ~> (InFeed({"applied", "deleted", "restarted"}) = {} \/ TriggersEnded
               \/ phase = "terminated")
=============================================================================
