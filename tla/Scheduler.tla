----------------------------- MODULE Scheduler ------------------------------
(***************************************************************************)
(* kube-runtime/src/scheduler.rs: the state of the Scheduler, a stream     *)
(* that delays and deduplicates the messages it is asked for and holds     *)
(* back ("pending") those its consumer cannot take yet, and the operations *)
(* on that state.  Runner polls it through hold_unless and builds its      *)
(* specification from these operations.                                    *)
(*                                                                         *)
(* A poll is not one step.  The senders of `requests` and the clock run on *)
(* other threads, so the drain loop and the expiry loop of poll_next are   *)
(* cut where they look at shared state: one step per request drained, one  *)
(* per expired entry.  DelayQueue (tokio_util) is external: a slab of      *)
(* items addressed by reusable keys that hands out any item whose deadline *)
(* has passed.                                                             *)
(*                                                                         *)
(* A definition X_Something is a wrong variant of X, a plausible slip in   *)
(* the code that some checked property has to notice.                      *)
(***************************************************************************)
EXTENDS Naturals, Sequences, FiniteSets

CONSTANTS Message,       \* the messages (object references in the Controller)
          Key,           \* slab keys of the DelayQueue
          None,          \* absent entry
          MaxTime,       \* bound on the clock and on every run_at
          MaxRequests    \* bound on the requests waiting in the channel

ASSUME BoundAssumption == MaxTime \in Nat /\ MaxRequests \in Nat

Time == 0..MaxTime
ScheduleRequest == [message : Message, run_at : Time]
ScheduledEntry  == [run_at : Time, queue_key : Key]
QueueItem       == [message : Message, deadline : Time]

ASSUME NoneAssumption == None \notin ScheduledEntry \cup QueueItem \cup Time \cup Message

VARIABLES now,           \* tokio's clock
          requests,      \* the channel behind the `requests` stream
          closed,        \* every sender of `requests` is gone
          queue,         \* DelayQueue: key -> item or None
          scheduled,     \* message -> metadata or None
          pending        \* expired messages that were held back

state == <<queue, scheduled, pending>>

SchedulerInit ==
    /\ now = 0
    /\ requests = <<>>
    /\ closed = FALSE
    /\ queue = [k \in Key |-> None]
    /\ scheduled = [m \in Message |-> None]
    /\ pending = {}

-----------------------------------------------------------------------------
(* schedule_message                                                        *)

\* "Message is already pending, so we can't even expedite it": early return.
Held(r) == r.message \in pending

Supersedes_LaterWins(entry, r) == entry.run_at <= r.run_at

\* Entry::Occupied, and the old entry would run no sooner than the request.
Supersedes(entry, r) == entry.run_at >= r.run_at

Expedite_KeepDeadline(r) ==
    /\ scheduled' = [scheduled EXCEPT ![r.message].run_at = r.run_at]
    /\ UNCHANGED <<queue, pending>>

Expedite(r) ==
    /\ queue' = [queue EXCEPT ![scheduled[r.message].queue_key].deadline = r.run_at]
    /\ scheduled' = [scheduled EXCEPT ![r.message].run_at = r.run_at]
    /\ UNCHANGED pending

\* Entry::Vacant: insert_at hands out some free slab key.
Insert(r) ==
    /\ \E k \in Key :
         /\ queue[k] = None
         /\ queue' = [queue EXCEPT ![k] = [message |-> r.message, deadline |-> r.run_at]]
         /\ scheduled' = [scheduled EXCEPT ![r.message] = [run_at |-> r.run_at, queue_key |-> k]]
    /\ UNCHANGED pending

schedule_message(r) ==
    LET entry == scheduled[r.message] IN
    \/ Held(r) /\ UNCHANGED state
    \/ ~Held(r) /\ entry = None /\ Insert(r)
    \/ ~Held(r) /\ entry # None /\ Supersedes(entry, r) /\ Expedite(r)
    \/ ~Held(r) /\ entry # None /\ ~Supersedes(entry, r) /\ UNCHANGED state

-----------------------------------------------------------------------------
(* poll_pop_queue_message, for a consumer that accepts the messages in     *)
(* can_take                                                                *)

Expired(k) == queue[k] # None /\ queue[k].deadline <= now

\* A held message that the consumer now accepts goes out before the queue is
\* looked at.
TakePending(m, can_take) ==
    /\ m \in pending \cap can_take
    /\ pending' = pending \ {m}
    /\ UNCHANGED <<queue, scheduled>>

\* poll_expired yields the item under key k, and its metadata goes with it.
RemoveExpired(k) ==
    /\ queue' = [queue EXCEPT ![k] = None]
    /\ scheduled' = [scheduled EXCEPT ![queue[k].message] = None]

TakeExpired(m, can_take) ==
    /\ pending \cap can_take = {}
    /\ m \in can_take
    /\ \E k \in Key : Expired(k) /\ queue[k].message = m /\ RemoveExpired(k)
    /\ UNCHANGED pending

HoldExpired(m, can_take) ==
    /\ pending \cap can_take = {}
    /\ m \notin can_take
    /\ \E k \in Key : Expired(k) /\ queue[k].message = m /\ RemoveExpired(k)
    /\ pending' = pending \cup {m}

\* Poll::Pending: nothing acceptable is held and no deadline has passed.
NothingToTake(can_take) ==
    /\ pending \cap can_take = {}
    /\ \A k \in Key : ~Expired(k)

-----------------------------------------------------------------------------
(* The world outside the Scheduler                                         *)

Tick ==
    /\ now < MaxTime
    /\ now' = now + 1
    /\ UNCHANGED <<requests, closed, state>>

SendRequest(r) ==
    /\ ~closed
    /\ Len(requests) < MaxRequests
    /\ requests' = Append(requests, r)
    /\ UNCHANGED <<now, closed, state>>

CloseRequests ==
    /\ ~closed
    /\ closed' = TRUE
    /\ UNCHANGED <<now, requests, state>>

\* The head of the channel is handed to schedule_message.
ScheduleHead ==
    /\ requests # <<>>
    /\ schedule_message(Head(requests))
    /\ requests' = Tail(requests)
    /\ UNCHANGED <<now, closed>>

-----------------------------------------------------------------------------
(* Properties of the state                                                 *)

\* The variables have the types of the struct's fields.
SchedulerTypeOK ==
    /\ now \in Time
    /\ requests \in Seq(ScheduleRequest)
    /\ closed \in BOOLEAN
    /\ queue \in [Key -> QueueItem \cup {None}]
    /\ scheduled \in [Message -> ScheduledEntry \cup {None}]
    /\ pending \in SUBSET Message

\* The metadata of every scheduled message names a live entry of the queue, that
\* of the same message with the same deadline; otherwise reset_at in
\* schedule_message would panic or move another message (slab keys are reused).
MetadataNamesEntry ==
    \A m \in Message :
      LET e == scheduled[m] IN
      e # None => queue[e.queue_key] = [message |-> m, deadline |-> e.run_at]

\* Every entry of the queue is the one its message's metadata names; this is what
\* the expect("Expired message was popped ... but was not in the metadata map")
\* in poll_pop_queue_message relies on, and it excludes duplicates in the queue.
EntryHasMetadata ==
    \A k \in Key :
      queue[k] # None => /\ scheduled[queue[k].message] # None
                         /\ scheduled[queue[k].message].queue_key = k

\* A message is never both waiting for its deadline and held: it would be emitted
\* twice for one request.
HeldOrScheduled == \A m \in pending : scheduled[m] = None

\* The queue and the metadata map describe the same entries.
QueueMatchesMetadata == MetadataNamesEntry /\ EntryHasMetadata /\ HeldOrScheduled

\* The due time a message has, as DueQueue sees it.
Due == [m \in Message |-> IF m \in pending THEN 0
                          ELSE IF scheduled[m] # None THEN scheduled[m].run_at
                          ELSE None]

\* The earliest of the requests made for a message decides when hold_unless hands it out,
\* it does so no sooner than that and once, and nothing else makes a request go away.
D == INSTANCE DueQueue WITH due <- Due
ImplementsDueQueue == D!Spec
=============================================================================
