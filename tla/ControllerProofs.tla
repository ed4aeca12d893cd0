-------------------------- MODULE ControllerProofs --------------------------
(***************************************************************************)
(* The Scheduler, the Runner and the Controller, proved for every set of   *)
(* objects and keys and all bounds.                                        *)
(*                                                                         *)
(* The Scheduler's operations keep the queue and the metadata map in step, *)
(* and change the due times of messages the way DueQueue says.  In a       *)
(* Runner equal messages never run at the same time, nothing starts before *)
(* the gate has opened, a message leaves the Scheduler only to be started, *)
(* and a Runner that sleeps has left a waker with everything it waits for. *)
(* A Controller misses no reconciliation, never reconciles an object twice *)
(* at the same time, and reconciles nothing before the store is ready.     *)
(***************************************************************************)
EXTENDS Controller, TLAPS

-----------------------------------------------------------------------------
(***************************************************************************)
(* The Scheduler                                                           *)
(***************************************************************************)

\* The part of the type invariant that concerns the Scheduler's own fields.
StateTypeOK ==
    /\ queue \in [Key -> QueueItem \cup {None}]
    /\ scheduled \in [Message -> ScheduledEntry \cup {None}]
    /\ pending \in SUBSET Message

\* None of the three is inductive without the others.
Consistent == QueueMatchesMetadata

StateInv == StateTypeOK /\ Consistent

\* Nothing is inconsistent in a new Scheduler (Scheduler::new).
LEMMA InitStateInv == SchedulerInit => StateInv
  BY DEF SchedulerInit, StateInv, StateTypeOK, Consistent, QueueMatchesMetadata, MetadataNamesEntry,
         EntryHasMetadata, HeldOrScheduled

\* A step that leaves the Scheduler's fields alone leaves the invariant alone.
LEMMA UnchangedStateInv == StateInv /\ UNCHANGED state => StateInv'
  BY DEF state, StateInv, StateTypeOK, Consistent, QueueMatchesMetadata, MetadataNamesEntry,
         EntryHasMetadata, HeldOrScheduled

\* The Vacant branch of schedule_message: a free key is given to a message that has
\* no other entry and is not held.
LEMMA InsertStateInv ==
  ASSUME StateInv, NEW r \in ScheduleRequest, ~Held(r), scheduled[r.message] = None, Insert(r)
  PROVE  StateInv'
<1> USE NoneAssumption
<1>1. PICK k \in Key :
         /\ queue[k] = None
         /\ queue' = [queue EXCEPT ![k] = [message |-> r.message, deadline |-> r.run_at]]
         /\ scheduled' = [scheduled EXCEPT ![r.message] = [run_at |-> r.run_at, queue_key |-> k]]
  BY DEF Insert
<1>2. pending' = pending
  BY DEF Insert
<1>3. r.message \in Message /\ r.run_at \in Time
  BY DEF ScheduleRequest
<1>4. StateTypeOK'
  BY <1>1, <1>2, <1>3 DEF StateInv, StateTypeOK, QueueItem, ScheduledEntry
<1>5. MetadataNamesEntry'
  BY <1>1, <1>3 DEF StateInv, StateTypeOK, Consistent, QueueMatchesMetadata, MetadataNamesEntry, QueueItem, ScheduledEntry
<1>6. EntryHasMetadata'
  BY <1>1, <1>3 DEF StateInv, StateTypeOK, Consistent, QueueMatchesMetadata, EntryHasMetadata, QueueItem, ScheduledEntry
<1>7. HeldOrScheduled'
  BY <1>1, <1>2, <1>3 DEF StateInv, StateTypeOK, Consistent, QueueMatchesMetadata, HeldOrScheduled, Held
<1> QED
  BY <1>4, <1>5, <1>6, <1>7 DEF StateInv, Consistent, QueueMatchesMetadata

\* The Occupied branch: reset_at moves the entry of this very message.
LEMMA ExpediteStateInv ==
  ASSUME StateInv, NEW r \in ScheduleRequest, scheduled[r.message] # None, Expedite(r)
  PROVE  StateInv'
<1> USE NoneAssumption
<1> DEFINE k == scheduled[r.message].queue_key
<1>1. r.message \in Message /\ r.run_at \in Time
  BY DEF ScheduleRequest
<1>2. scheduled[r.message] \in ScheduledEntry /\ k \in Key
  BY <1>1 DEF StateInv, StateTypeOK, ScheduledEntry
<1>3. queue[k] = [message |-> r.message, deadline |-> scheduled[r.message].run_at]
  BY <1>1 DEF StateInv, Consistent, QueueMatchesMetadata, MetadataNamesEntry
<1>4. /\ queue' = [queue EXCEPT ![k] = [message |-> r.message, deadline |-> r.run_at]]
      /\ scheduled' = [scheduled EXCEPT ![r.message] = [run_at |-> r.run_at, queue_key |-> k]]
      /\ pending' = pending
  <2>1. [queue[k] EXCEPT !.deadline = r.run_at] = [message |-> r.message, deadline |-> r.run_at]
    BY <1>3
  <2>2. [scheduled[r.message] EXCEPT !.run_at = r.run_at] = [run_at |-> r.run_at, queue_key |-> k]
    BY <1>2 DEF ScheduledEntry
  <2> QED
    BY <2>1, <2>2 DEF Expedite
<1>5. StateTypeOK'
  BY <1>1, <1>2, <1>4 DEF StateInv, StateTypeOK, QueueItem, ScheduledEntry
<1>6. MetadataNamesEntry'
  <2> SUFFICES ASSUME NEW m \in Message, scheduled'[m] # None
               PROVE  queue'[scheduled'[m].queue_key] =
                        [message |-> m, deadline |-> scheduled'[m].run_at]
    BY DEF MetadataNamesEntry
  <2>1. CASE m = r.message
    BY <2>1, <1>1, <1>2, <1>4 DEF StateInv, StateTypeOK
  <2>2. CASE m # r.message
    <3>1. scheduled'[m] = scheduled[m]
      BY <2>2, <1>1, <1>4 DEF StateInv, StateTypeOK
    <3>2. queue[scheduled[m].queue_key] = [message |-> m, deadline |-> scheduled[m].run_at]
      BY <3>1 DEF StateInv, Consistent, QueueMatchesMetadata, MetadataNamesEntry
    <3>3. scheduled[m].queue_key # k
      BY <3>2, <1>3, <2>2
    <3> QED
      BY <3>1, <3>2, <3>3, <1>4, <1>2 DEF StateInv, StateTypeOK, ScheduledEntry
  <2> QED
    BY <2>1, <2>2
<1>7. EntryHasMetadata'
  BY <1>1, <1>2, <1>3, <1>4 DEF StateInv, StateTypeOK, Consistent, QueueMatchesMetadata, EntryHasMetadata, QueueItem,
                            ScheduledEntry
<1>8. HeldOrScheduled'
  BY <1>1, <1>4 DEF StateInv, StateTypeOK, Consistent, QueueMatchesMetadata, HeldOrScheduled
<1> QED
  BY <1>5, <1>6, <1>7, <1>8 DEF StateInv, Consistent, QueueMatchesMetadata

\* schedule_message keeps the queue and the metadata map in step.
LEMMA ScheduleMessageStateInv ==
  ASSUME StateInv, NEW r \in ScheduleRequest, schedule_message(r)
  PROVE  StateInv'
  BY InsertStateInv, ExpediteStateInv, UnchangedStateInv DEF schedule_message

\* poll_expired takes an entry out together with its metadata.
LEMMA RemoveExpiredStateInv ==
  ASSUME StateInv, NEW k \in Key, queue[k] # None, RemoveExpired(k),
         pending' = pending \/ pending' = pending \cup {queue[k].message}
  PROVE  StateInv'
<1> USE NoneAssumption
<1>1. queue[k] \in QueueItem /\ queue[k].message \in Message
  BY DEF StateInv, StateTypeOK, QueueItem
<1>2. scheduled[queue[k].message].queue_key = k
  BY DEF StateInv, Consistent, QueueMatchesMetadata, EntryHasMetadata
<1>3. StateTypeOK'
  BY <1>1 DEF StateInv, StateTypeOK, RemoveExpired
<1>4. MetadataNamesEntry'
  <2> SUFFICES ASSUME NEW m \in Message, scheduled'[m] # None
               PROVE  queue'[scheduled'[m].queue_key] =
                        [message |-> m, deadline |-> scheduled'[m].run_at]
    BY DEF MetadataNamesEntry
  <2>1. m # queue[k].message /\ scheduled'[m] = scheduled[m]
    BY <1>1 DEF StateInv, StateTypeOK, RemoveExpired
  <2>2. queue[scheduled[m].queue_key] = [message |-> m, deadline |-> scheduled[m].run_at]
    BY <2>1 DEF StateInv, Consistent, QueueMatchesMetadata, MetadataNamesEntry
  <2>3. scheduled[m].queue_key # k
    BY <2>1, <2>2
  <2>4. scheduled[m].queue_key \in Key
    BY <2>1 DEF StateInv, StateTypeOK, ScheduledEntry
  <2> QED
    BY <2>1, <2>2, <2>3, <2>4 DEF StateInv, StateTypeOK, RemoveExpired
<1>5. EntryHasMetadata'
  <2> SUFFICES ASSUME NEW j \in Key, queue'[j] # None
               PROVE  /\ scheduled'[queue'[j].message] # None
                      /\ scheduled'[queue'[j].message].queue_key = j
    BY DEF EntryHasMetadata
  <2>1. j # k /\ queue'[j] = queue[j] /\ queue[j].message \in Message
    BY DEF StateInv, StateTypeOK, RemoveExpired, QueueItem
  <2>2. /\ scheduled[queue[j].message] # None
        /\ scheduled[queue[j].message].queue_key = j
    BY <2>1 DEF StateInv, Consistent, QueueMatchesMetadata, EntryHasMetadata
  <2>3. queue[j].message # queue[k].message
    BY <2>1, <2>2, <1>2
  <2> QED
    BY <2>1, <2>2, <2>3 DEF StateInv, StateTypeOK, RemoveExpired
<1>6. HeldOrScheduled'
  BY <1>1 DEF StateInv, StateTypeOK, Consistent, QueueMatchesMetadata, HeldOrScheduled, RemoveExpired
<1> QED
  BY <1>3, <1>4, <1>5, <1>6 DEF StateInv, Consistent, QueueMatchesMetadata

\* poll_pop_queue_message keeps the queue and the metadata map in step, whatever the
\* consumer can take.
LEMMA PopStateInv ==
  ASSUME StateInv, NEW m \in Message, NEW can_take,
         TakePending(m, can_take) \/ TakeExpired(m, can_take) \/ HoldExpired(m, can_take)
  PROVE  StateInv'
<1>1. CASE TakePending(m, can_take)
  BY <1>1 DEF TakePending, StateInv, StateTypeOK, Consistent, QueueMatchesMetadata, MetadataNamesEntry,
              EntryHasMetadata, HeldOrScheduled
<1>2. CASE TakeExpired(m, can_take)
  BY <1>2, RemoveExpiredStateInv DEF TakeExpired, Expired
<1>3. CASE HoldExpired(m, can_take)
  BY <1>3, RemoveExpiredStateInv DEF HoldExpired, Expired
<1> QED
  BY <1>1, <1>2, <1>3

-----------------------------------------------------------------------------
(* The same operations as changes of the due times                         *)

\* schedule_message brings a message forward or leaves it as it is: the earlier of
\* its due time and the requested one is what counts, and a held message stays due.
LEMMA ScheduleMessageDue ==
  ASSUME StateInv, NEW r \in ScheduleRequest, schedule_message(r)
  PROVE  Due' = [Due EXCEPT ![r.message] = IF @ = None \/ r.run_at <= @ THEN r.run_at ELSE @]
<1> USE NoneAssumption, BoundAssumption DEF Time
<1>1. r.message \in Message /\ r.run_at \in Time
  BY DEF ScheduleRequest
<1>2. CASE Held(r) /\ UNCHANGED state
  BY <1>1, <1>2 DEF Due, Held, state
<1>3. CASE ~Held(r) /\ scheduled[r.message] = None /\ Insert(r)
  <2>1. /\ pending' = pending
        /\ \E k \in Key : scheduled' = [scheduled EXCEPT ![r.message] =
                                                [run_at |-> r.run_at, queue_key |-> k]]
    BY <1>3 DEF Insert
  <2> QED
    BY <1>1, <1>3, <2>1 DEF Due, Held, StateInv, StateTypeOK, ScheduledEntry
<1>4. CASE ~Held(r) /\ scheduled[r.message] # None /\ Supersedes(scheduled[r.message], r) /\ Expedite(r)
  <2>1. /\ pending' = pending
        /\ scheduled[r.message] \in ScheduledEntry
        /\ scheduled' = [scheduled EXCEPT ![r.message].run_at = r.run_at]
    BY <1>1, <1>4 DEF Expedite, StateInv, StateTypeOK
  <2> QED
    BY <1>1, <1>4, <2>1 DEF Due, Held, Supersedes, StateInv, StateTypeOK, ScheduledEntry
<1>5. CASE ~Held(r) /\ scheduled[r.message] # None /\ ~Supersedes(scheduled[r.message], r)
           /\ UNCHANGED state
  BY <1>1, <1>5 DEF Due, Held, Supersedes, state, StateInv, StateTypeOK, ScheduledEntry
<1> QED
  BY <1>2, <1>3, <1>4, <1>5 DEF schedule_message

\* The metadata that belongs to an entry of the queue.
LEMMA EntryMetadata ==
  ASSUME StateInv, NEW k \in Key, NEW m \in Message, queue[k] # None, queue[k].message = m
  PROVE  /\ scheduled[m] # None
         /\ scheduled[m] \in ScheduledEntry
         /\ scheduled[m].run_at = queue[k].deadline
         /\ m \notin pending
<1>1. scheduled[m] # None /\ scheduled[m].queue_key = k
  BY DEF StateInv, Consistent, QueueMatchesMetadata, EntryHasMetadata
<1>2. queue[k] = [message |-> m, deadline |-> scheduled[m].run_at]
  BY <1>1 DEF StateInv, Consistent, QueueMatchesMetadata, MetadataNamesEntry
<1>3. queue[k].deadline = scheduled[m].run_at
  BY <1>2
<1>4. scheduled[m] \in ScheduledEntry
  BY <1>1 DEF StateInv, StateTypeOK
<1>5. m \notin pending
  BY <1>1 DEF StateInv, Consistent, QueueMatchesMetadata, HeldOrScheduled
<1> QED
  BY <1>1, <1>3, <1>4, <1>5

\* A message that poll_pop_queue_message returns was due, and no longer is.
LEMMA TakeDue ==
  ASSUME StateInv, now \in Time, NEW m \in Message, NEW can_take,
         TakePending(m, can_take) \/ TakeExpired(m, can_take)
  PROVE  /\ m \in can_take
         /\ Due[m] # None /\ Due[m] <= now
         /\ Due' = [Due EXCEPT ![m] = None]
<1> USE NoneAssumption, BoundAssumption DEF Time
<1>1. CASE TakePending(m, can_take)
  <2>1. m \in can_take /\ m \in pending /\ scheduled[m] = None
    BY <1>1 DEF TakePending, StateInv, Consistent, QueueMatchesMetadata, HeldOrScheduled
  <2>2. Due[m] = 0
    BY <2>1 DEF Due
  <2>3. \A n \in Message : Due'[n] = IF n = m THEN None ELSE Due[n]
    BY <1>1, <2>1 DEF TakePending, Due
  <2>4. Due' = [Due EXCEPT ![m] = None]
    BY <2>3 DEF Due
  <2> QED
    BY <2>1, <2>2, <2>4
<1>2. CASE TakeExpired(m, can_take)
  <2>1. PICK k \in Key : Expired(k) /\ queue[k].message = m /\ RemoveExpired(k)
    BY <1>2 DEF TakeExpired
  <2>2. /\ scheduled[m] # None
        /\ scheduled[m] \in ScheduledEntry
        /\ scheduled[m].run_at = queue[k].deadline
        /\ m \notin pending
    BY <2>1, EntryMetadata DEF Expired
  <2>3. pending' = pending /\ m \in can_take
    BY <1>2 DEF TakeExpired
  <2>4. scheduled' = [scheduled EXCEPT ![m] = None]
    BY <2>1 DEF RemoveExpired
  <2>5. Due[m] = scheduled[m].run_at
    BY <2>2 DEF Due
  <2>8. scheduled[m].run_at \in Time /\ scheduled[m].run_at <= now
    BY <2>1, <2>2 DEF ScheduledEntry, Expired
  <2>6. \A n \in Message : Due'[n] = IF n = m THEN None ELSE Due[n]
    BY <2>2, <2>3, <2>4 DEF Due, StateInv, StateTypeOK
  <2>7. Due' = [Due EXCEPT ![m] = None]
    BY <2>6 DEF Due
  <2> QED
    BY <2>3, <2>5, <2>7, <2>8
<1> QED
  BY <1>1, <1>2

\* A message that poll_pop_queue_message holds back was due, and stays due.
LEMMA HoldDue ==
  ASSUME StateInv, now \in Time, NEW m \in Message, NEW can_take, HoldExpired(m, can_take)
  PROVE  /\ Due[m] # None /\ Due[m] <= now
         /\ Due' = [Due EXCEPT ![m] = 0]
<1> USE NoneAssumption, BoundAssumption DEF Time
<1>1. PICK k \in Key : Expired(k) /\ queue[k].message = m /\ RemoveExpired(k)
  BY DEF HoldExpired
<1>2. /\ scheduled[m] # None
      /\ scheduled[m] \in ScheduledEntry
      /\ scheduled[m].run_at = queue[k].deadline
      /\ m \notin pending
  BY <1>1, EntryMetadata DEF Expired
<1>3. pending' = pending \cup {m}
  BY DEF HoldExpired
<1>4. scheduled' = [scheduled EXCEPT ![m] = None]
  BY <1>1 DEF RemoveExpired
<1>5. Due[m] = scheduled[m].run_at
  BY <1>2 DEF Due
<1>8. scheduled[m].run_at \in Time /\ scheduled[m].run_at <= now
  BY <1>1, <1>2 DEF ScheduledEntry, Expired
<1>6. \A n \in Message : Due'[n] = IF n = m THEN 0 ELSE Due[n]
  BY <1>2, <1>3, <1>4 DEF Due, StateInv, StateTypeOK
<1>7. Due' = [Due EXCEPT ![m] = 0]
  BY <1>6 DEF Due
<1> QED
  BY <1>5, <1>7, <1>8

-----------------------------------------------------------------------------
(***************************************************************************)
(* The Runner                                                              *)
(***************************************************************************)

\* The gate is consumed once; what it decided never changes.
GateInv ==
    /\ stopped => gate = "fused"
    /\ is_ready_to_execute => gate = "fused" /\ ~stopped
    /\ Active # {} => is_ready_to_execute

\* A future holds the waker only while it runs, and one that was running when a poll
\* began is known to that poll.
FutureWakers ==
    /\ \A m \in Message : m \in wakers => slots[m] = "running"
    /\ phase \in {"gate", "requests", "pop"} =>
         IF has_active_slots THEN Active # {} ELSE Active \cap wakers = {}

\* What a poll has behind it, a waker watches: the futures, then the gate, then the
\* requests, and in the end the timer.
Watched ==
    ~woken =>
      /\ phase \in {"gate", "requests", "pop", "idle"} =>
           \A m \in Message : slots[m] # "done" /\ (slots[m] = "running" => m \in wakers)
      /\ phase \in {"requests", "pop", "idle"} =>
           gate = "fused" \/ (gate = "waiting" /\ "gate" \in wakers)
      /\ phase = "pop" => requests = <<>> /\ ~closed /\ "requests" \in wakers
      /\ phase = "idle" => /\ requests = <<>>
                           /\ closed => Active # {}
                           /\ ~closed => /\ {"requests", "timer"} \subseteq wakers
                                         /\ NothingToTake(CanTake)

IInv == /\ TypeOK
        /\ Consistent
        /\ phase # "panicked"
        /\ GateInv
        /\ FutureWakers
        /\ Watched
        /\ PolledFuturesSurvive

-----------------------------------------------------------------------------
(* Types                                                                   *)

\* What poll_next keeps in local variables and in the Runner's own fields.
RunnerTypeOK ==
    /\ slots \in [Message -> {"empty", "running", "done"}]
    /\ gate \in {"waiting", "ok", "err", "fused"}
    /\ is_ready_to_execute \in BOOLEAN
    /\ stopped \in BOOLEAN
    /\ has_active_slots \in BOOLEAN
    /\ phase \in {"idle", "slots", "gate", "requests", "pop", "terminated", "panicked"}
    /\ woken \in BOOLEAN
    /\ wakers \in SUBSET Sources

\* The clock and the channel.
WorldTypeOK == now \in Time /\ requests \in Seq(ScheduleRequest) /\ closed \in BOOLEAN

\* The type invariant, split by who changes the variables.
LEMMA TypeParts ==
  /\ TypeOK /\ Consistent <=> StateInv /\ WorldTypeOK /\ RunnerTypeOK
  /\ (TypeOK /\ Consistent)' <=> (StateInv /\ WorldTypeOK /\ RunnerTypeOK)'
  BY DEF TypeOK, SchedulerTypeOK, StateInv, StateTypeOK, WorldTypeOK, RunnerTypeOK

\* Every step keeps the Scheduler's fields consistent: it leaves them alone or is one
\* of the operations that the lemmas on the Scheduler are about.
LEMMA NextStateInv ==
  ASSUME StateInv, WorldTypeOK, [Next]_vars
  PROVE  StateInv'
<1>1. CASE UNCHANGED state
  BY <1>1, UnchangedStateInv
<1>2. CASE DrainRequest
  <2>1. Head(requests) \in ScheduleRequest /\ schedule_message(Head(requests))
    BY <1>2 DEF DrainRequest, ScheduleHead, WorldTypeOK
  <2> QED
    BY <2>1, ScheduleMessageStateInv
<1>3. ASSUME NEW m \in Message, StartMessage(m) PROVE StateInv'
  BY <1>3, PopStateInv DEF StartMessage, Launch
<1>4. ASSUME NEW m \in Message, HoldMessage(m) PROVE StateInv'
  BY <1>4, PopStateInv DEF HoldMessage
<1>5. ASSUME NEW m \in Message, ReturnResult(m) PROVE UNCHANGED state
  BY <1>5 DEF ReturnResult
<1>6. ASSUME Env PROVE UNCHANGED state
  BY <1>6 DEF Env, TimePasses, Tick, Close, CloseRequests, Send, SendRequest, FinishMessage,
              ResolveGate
<1>7. ASSUME PollNext \/ NoResult \/ GateOpen \/ GateFailed \/ GatePending \/ RequestsEnded
             \/ RequestsDrained \/ PollPending
      PROVE  UNCHANGED state
  BY <1>7 DEF PollNext, NoResult, GateOpen, GateFailed, GatePending, RequestsEnded,
              RequestsDrained, PollPending
<1>8. ASSUME UNCHANGED vars PROVE UNCHANGED state
  BY <1>8 DEF vars, state
<1> QED
  BY <1>1, <1>2, <1>3, <1>4, <1>5, <1>6, <1>7, <1>8 DEF Next, PollStep

\* The clock and the channel keep their types.
LEMMA NextWorldTypeOK ==
  ASSUME WorldTypeOK, [Next]_vars
  PROVE  WorldTypeOK'
<1> USE DEF WorldTypeOK
<1>1. CASE UNCHANGED <<now, requests, closed>>
  BY <1>1
<1>2. CASE DrainRequest
  BY <1>2 DEF DrainRequest, ScheduleHead
<1>3. CASE TimePasses
  BY <1>3, BoundAssumption DEF TimePasses, Tick, Time
<1>4. CASE Close
  BY <1>4 DEF Close, CloseRequests
<1>5. ASSUME NEW r \in ScheduleRequest, Send(r) PROVE WorldTypeOK'
  BY <1>5 DEF Send, SendRequest
<1>6. ASSUME NEW m \in Message,
             ReturnResult(m) \/ StartMessage(m) \/ HoldMessage(m) \/ FinishMessage(m)
      PROVE  UNCHANGED <<now, requests, closed>>
  BY <1>6 DEF ReturnResult, StartMessage, Launch, HoldMessage, FinishMessage
<1>7. ASSUME PollNext \/ NoResult \/ GateOpen \/ GateFailed \/ GatePending \/ RequestsEnded
             \/ RequestsDrained \/ PollPending \/ UNCHANGED vars
             \/ \E outcome \in {"ok", "err"} : ResolveGate(outcome)
      PROVE  UNCHANGED <<now, requests, closed>>
  BY <1>7 DEF PollNext, NoResult, GateOpen, GateFailed, GatePending, RequestsEnded,
              RequestsDrained, PollPending, ResolveGate, vars
<1> QED
  BY <1>1, <1>2, <1>3, <1>4, <1>5, <1>6, <1>7 DEF Next, PollStep, Env

\* The Runner's fields and the locals of poll_next keep their types.
LEMMA NextRunnerTypeOK ==
  ASSUME RunnerTypeOK, [Next]_vars
  PROVE  RunnerTypeOK'
<1> USE DEF RunnerTypeOK, runnerState
<1>1. CASE PollNext
  BY <1>1 DEF PollNext
<1>2. CASE NoResult
  BY <1>2 DEF NoResult, Register, Active, Sources
<1>3. CASE GateOpen
  BY <1>3 DEF GateOpen
<1>4. CASE GateFailed
  BY <1>4 DEF GateFailed
<1>5. CASE GatePending
  BY <1>5 DEF GatePending, Register, Sources
<1>6. CASE DrainRequest
  BY <1>6 DEF DrainRequest
<1>7. CASE RequestsEnded
  BY <1>7 DEF RequestsEnded
<1>8. CASE RequestsDrained
  BY <1>8 DEF RequestsDrained, Register, Sources
<1>9. CASE PollPending
  BY <1>9 DEF PollPending, Register, Sources
<1>10. ASSUME NEW m \in Message, ReturnResult(m) PROVE RunnerTypeOK'
  BY <1>10 DEF ReturnResult, FreeSlot
<1>11. ASSUME NEW m \in Message, StartMessage(m) PROVE RunnerTypeOK'
  BY <1>11 DEF StartMessage, Launch
<1>12. ASSUME NEW m \in Message, HoldMessage(m) PROVE RunnerTypeOK'
  BY <1>12 DEF HoldMessage
<1>13. CASE TimePasses
  BY <1>13 DEF TimePasses, Wake
<1>14. CASE Close
  BY <1>14 DEF Close, Wake
<1>15. ASSUME NEW r \in ScheduleRequest, Send(r) PROVE RunnerTypeOK'
  BY <1>15 DEF Send, Wake
<1>16. ASSUME NEW m \in Message, FinishMessage(m) PROVE RunnerTypeOK'
  BY <1>16 DEF FinishMessage, Wake
<1>17. ASSUME NEW outcome \in {"ok", "err"}, ResolveGate(outcome) PROVE RunnerTypeOK'
  BY <1>17 DEF ResolveGate, Wake
<1>18. CASE UNCHANGED vars
  BY <1>18 DEF vars
<1> QED
  BY <1>1, <1>2, <1>3, <1>4, <1>5, <1>6, <1>7, <1>8, <1>9, <1>10, <1>11, <1>12, <1>13, <1>14,
     <1>15, <1>16, <1>17, <1>18 DEF Next, PollStep, Env

-----------------------------------------------------------------------------
(* The gate, and one future per message                                    *)

\* Only a message whose slot is free can be taken from the Scheduler, so the assert!
\* in poll_next holds.
LEMMA NextNotPanicked ==
  ASSUME StateInv, WorldTypeOK, phase # "panicked", [Next]_vars
  PROVE  phase' # "panicked"
<1>1. ASSUME NEW m \in Message, StartMessage(m) PROVE phase' # "panicked"
  <2>1. m \in CanTake
    BY <1>1, TakeDue DEF StartMessage, Launch, WorldTypeOK
  <2> QED
    BY <1>1, <2>1 DEF CanTake, StartMessage, Launch
<1>2. ASSUME NEW m \in Message, ReturnResult(m) \/ HoldMessage(m) PROVE phase' # "panicked"
  BY <1>2 DEF ReturnResult, FreeSlot, HoldMessage
<1>3. ASSUME PollNext \/ NoResult \/ GateOpen \/ GateFailed \/ GatePending \/ DrainRequest
             \/ RequestsEnded \/ RequestsDrained \/ PollPending
      PROVE  phase' # "panicked"
  BY <1>3 DEF PollNext, NoResult, GateOpen, GateFailed, GatePending, DrainRequest, RequestsEnded,
              RequestsDrained, PollPending
<1>4. ASSUME Env PROVE phase' = phase
  BY <1>4 DEF Env, TimePasses, Close, Send, FinishMessage, ResolveGate
<1>5. ASSUME UNCHANGED vars PROVE phase' = phase
  BY <1>5 DEF vars
<1> QED
  BY <1>1, <1>2, <1>3, <1>4, <1>5 DEF Next, PollStep

\* A future is only started when is_ready_to_execute is set, and the gate is only
\* consumed once.
LEMMA NextGateInv ==
  ASSUME StateInv, WorldTypeOK, RunnerTypeOK, GateInv, [Next]_vars
  PROVE  GateInv'
<1> USE DEF RunnerTypeOK, GateInv, Active, runnerState
<1>1. ASSUME UNCHANGED <<slots, gate, is_ready_to_execute, stopped>> PROVE GateInv'
  BY <1>1
<1>2. CASE GateOpen
  <2>1. ~stopped
    BY <1>2 DEF GateOpen
  <2> QED
    BY <1>2, <2>1 DEF GateOpen
<1>3. CASE GateFailed
  BY <1>3 DEF GateFailed
<1>4. ASSUME NEW m \in Message, ReturnResult(m) PROVE GateInv'
  BY <1>4 DEF ReturnResult, FreeSlot
<1>5. ASSUME NEW m \in Message, StartMessage(m) PROVE GateInv'
  <2>1. m \in CanTake
    BY <1>5, TakeDue DEF StartMessage, Launch, WorldTypeOK
  <2> QED
    BY <1>5, <2>1 DEF CanTake, StartMessage, Launch
<1>6. ASSUME NEW m \in Message, FinishMessage(m) PROVE GateInv'
  BY <1>6 DEF FinishMessage
<1>7. ASSUME NEW outcome \in {"ok", "err"}, ResolveGate(outcome) PROVE GateInv'
  BY <1>7 DEF ResolveGate
<1> QED
  BY <1>1, <1>2, <1>3, <1>4, <1>5, <1>6, <1>7
     DEF Next, PollStep, Env, PollNext, NoResult, GatePending, DrainRequest, RequestsEnded,
         RequestsDrained, PollPending, HoldMessage, TimePasses, Close, Send, vars

-----------------------------------------------------------------------------
(* Wakers                                                                  *)

\* No step leaves the waker of a future behind when the future is gone, and a poll
\* does not forget the futures it found running.
LEMMA NextFutureWakers ==
  ASSUME StateInv, WorldTypeOK, RunnerTypeOK, FutureWakers, [Next]_vars
  PROVE  FutureWakers'
<1> USE SourceAssumption DEF RunnerTypeOK, FutureWakers, Active, runnerState
<1>1. CASE PollNext
  BY <1>1 DEF PollNext
<1>2. CASE NoResult
  BY <1>2 DEF NoResult, Register, Finished
<1>3. CASE GateOpen
  BY <1>3 DEF GateOpen
<1>4. CASE GateFailed
  BY <1>4 DEF GateFailed
<1>5. CASE GatePending
  BY <1>5 DEF GatePending, Register
<1>6. CASE DrainRequest
  BY <1>6 DEF DrainRequest
<1>7. CASE RequestsEnded
  BY <1>7 DEF RequestsEnded
<1>8. CASE RequestsDrained
  BY <1>8 DEF RequestsDrained, Register
<1>9. CASE PollPending
  BY <1>9 DEF PollPending, Register
<1>10. ASSUME NEW m \in Message, ReturnResult(m) PROVE FutureWakers'
  BY <1>10 DEF ReturnResult, FreeSlot
<1>11. ASSUME NEW m \in Message, StartMessage(m) PROVE FutureWakers'
  <2>1. m \in CanTake
    BY <1>11, TakeDue DEF StartMessage, Launch, WorldTypeOK
  <2>2. slots[m] = "empty" /\ m \notin wakers
    BY <2>1 DEF CanTake
  <2> QED
    BY <1>11, <2>2 DEF StartMessage, Launch
<1>12. ASSUME NEW m \in Message, HoldMessage(m) PROVE FutureWakers'
  BY <1>12 DEF HoldMessage
<1>13. CASE TimePasses
  BY <1>13 DEF TimePasses, Wake
<1>14. CASE Close
  BY <1>14 DEF Close, Wake
<1>15. ASSUME NEW r \in ScheduleRequest, Send(r) PROVE FutureWakers'
  BY <1>15 DEF Send, Wake
<1>16. ASSUME NEW m \in Message, FinishMessage(m) PROVE FutureWakers'
  BY <1>16 DEF FinishMessage, Wake
<1>17. ASSUME NEW outcome \in {"ok", "err"}, ResolveGate(outcome) PROVE FutureWakers'
  BY <1>17 DEF ResolveGate, Wake
<1>18. CASE UNCHANGED vars
  BY <1>18 DEF vars
<1> QED
  BY <1>1, <1>2, <1>3, <1>4, <1>5, <1>6, <1>7, <1>8, <1>9, <1>10, <1>11, <1>12, <1>13, <1>14,
     <1>15, <1>16, <1>17, <1>18 DEF Next, PollStep, Env

\* The stream ends with a failed gate, when nothing was started, or in a poll that
\* found nothing running; after that no future is polled.
LEMMA NextSurvive ==
  ASSUME RunnerTypeOK, GateInv, FutureWakers, PolledFuturesSurvive, [Next]_vars
  PROVE  PolledFuturesSurvive'
<1> USE SourceAssumption
        DEF RunnerTypeOK, FutureWakers, PolledFuturesSurvive, Active, runnerState
<1>1. CASE PollNext
  BY <1>1 DEF PollNext, GateInv
<1>2. CASE RequestsEnded
  BY <1>2 DEF RequestsEnded
<1>3. ASSUME NoResult \/ GateOpen \/ GateFailed \/ GatePending \/ DrainRequest \/ RequestsDrained
             \/ PollPending \/ \E m \in Message : ReturnResult(m) \/ StartMessage(m) \/ HoldMessage(m)
      PROVE  phase' # "terminated"
  BY <1>3 DEF NoResult, GateOpen, GateFailed, GatePending, DrainRequest, RequestsDrained,
              PollPending, ReturnResult, FreeSlot, StartMessage, Launch, HoldMessage
<1>4. CASE TimePasses
  BY <1>4 DEF TimePasses, Wake
<1>5. CASE Close
  BY <1>5 DEF Close, Wake
<1>6. ASSUME NEW r \in ScheduleRequest, Send(r) PROVE PolledFuturesSurvive'
  BY <1>6 DEF Send, Wake
<1>7. ASSUME NEW m \in Message, FinishMessage(m) PROVE PolledFuturesSurvive'
  BY <1>7 DEF FinishMessage, Wake
<1>8. ASSUME NEW outcome \in {"ok", "err"}, ResolveGate(outcome) PROVE PolledFuturesSurvive'
  BY <1>8 DEF ResolveGate, Wake
<1>9. CASE UNCHANGED vars
  BY <1>9 DEF vars
<1> QED
  BY <1>1, <1>2, <1>3, <1>4, <1>5, <1>6, <1>7, <1>8, <1>9 DEF Next, PollStep, Env

\* A poll leaves its waker with everything it found Pending, and whatever happens later
\* to one of these wakes the task.
LEMMA NextWatched ==
  ASSUME StateInv, WorldTypeOK, RunnerTypeOK, FutureWakers, Watched, [Next]_vars
  PROVE  Watched'
<1> USE SourceAssumption DEF RunnerTypeOK, Active, runnerState
<1>0. ASSUME woken' = TRUE PROVE Watched'
  BY <1>0 DEF Watched
<1>1. CASE PollNext
  BY <1>1 DEF PollNext, Watched
<1>2. CASE NoResult
  BY <1>2 DEF NoResult, Register, Finished, Watched
<1>3. CASE GateOpen
  BY <1>3 DEF GateOpen, Watched
<1>4. CASE GateFailed
  BY <1>4, <1>0 DEF GateFailed
<1>5. CASE GatePending
  BY <1>5 DEF GatePending, Register, Watched
<1>6. CASE DrainRequest
  BY <1>6 DEF DrainRequest, Watched
<1>7. CASE RequestsEnded
  <2>1. has_active_slots => Active # {}
    BY <1>7 DEF RequestsEnded, FutureWakers
  <2> QED
    BY <1>7, <2>1 DEF RequestsEnded, Watched
<1>8. CASE RequestsDrained
  BY <1>8 DEF RequestsDrained, Register, Watched
<1>9. CASE PollPending
  <2>1. NothingToTake(CanTake)'
    BY <1>9 DEF PollPending, NothingToTake, CanTake, Expired, state
  <2> QED
    BY <1>9, <2>1 DEF PollPending, Register, Watched
<1>10. ASSUME NEW m \in Message, ReturnResult(m) PROVE Watched'
  BY <1>10, <1>0 DEF ReturnResult, FreeSlot
<1>11. ASSUME NEW m \in Message, StartMessage(m) PROVE Watched'
  BY <1>11, <1>0 DEF StartMessage, Launch
<1>12. ASSUME NEW m \in Message, HoldMessage(m) PROVE Watched'
  BY <1>12 DEF HoldMessage, Watched
<1>13. CASE TimePasses
  <2>1. UNCHANGED <<requests, closed, queue, scheduled, pending, slots, gate, is_ready_to_execute, phase>>
    BY <1>13 DEF TimePasses, Tick, state
  <2>2. CASE \E k \in Key : queue[k] # None /\ queue[k].deadline <= now'
    <3>1. woken' = (woken \/ "timer" \in wakers) /\ wakers' = wakers \ {"timer"}
      BY <1>13, <2>2 DEF TimePasses, Wake
    <3> QED
      BY <2>1, <3>1 DEF Watched
  <2>3. CASE ~\E k \in Key : queue[k] # None /\ queue[k].deadline <= now'
    <3>1. UNCHANGED <<woken, wakers>>
      BY <1>13, <2>3 DEF TimePasses
    <3>2. NothingToTake(CanTake) => NothingToTake(CanTake)'
      BY <2>1, <2>3 DEF NothingToTake, CanTake, Expired
    <3> QED
      BY <2>1, <3>1, <3>2 DEF Watched
  <2> QED
    BY <2>2, <2>3
<1>14. CASE Close
  <2>1. /\ UNCHANGED <<now, requests, queue, scheduled, pending, slots, gate, is_ready_to_execute, phase>>
        /\ ~closed /\ closed' = TRUE
        /\ woken' = (woken \/ "requests" \in wakers) /\ wakers' = wakers \ {"requests"}
    BY <1>14 DEF Close, CloseRequests, Wake, state
  <2> QED
    BY <2>1 DEF Watched
<1>15. ASSUME NEW r \in ScheduleRequest, Send(r) PROVE Watched'
  <2>1. /\ UNCHANGED <<now, closed, queue, scheduled, pending, slots, gate, is_ready_to_execute, phase>>
        /\ ~closed
        /\ woken' = (woken \/ "requests" \in wakers) /\ wakers' = wakers \ {"requests"}
    BY <1>15 DEF Send, SendRequest, Wake, state
  <2> QED
    BY <2>1 DEF Watched
<1>16. ASSUME NEW m \in Message, FinishMessage(m) PROVE Watched'
  <2>1. /\ slots[m] = "running"
        /\ phase' = phase
        /\ woken' = (woken \/ m \in wakers) /\ wakers' = wakers \ {m}
    BY <1>16 DEF FinishMessage, Wake
  <2>2. CASE phase \in {"gate", "requests", "pop", "idle"}
    BY <2>1, <2>2, <1>0 DEF Watched
  <2> QED
    BY <2>1, <2>2 DEF Watched
<1>17. ASSUME NEW outcome \in {"ok", "err"}, ResolveGate(outcome) PROVE Watched'
  <2>1. /\ UNCHANGED <<now, requests, closed, queue, scheduled, pending, slots, is_ready_to_execute, phase>>
        /\ gate = "waiting"
        /\ woken' = (woken \/ "gate" \in wakers) /\ wakers' = wakers \ {"gate"}
    BY <1>17 DEF ResolveGate, Wake, state
  <2> QED
    BY <2>1 DEF Watched
<1>18. CASE UNCHANGED vars
  <2>1. NothingToTake(CanTake) => NothingToTake(CanTake)'
    BY <1>18 DEF vars, NothingToTake, CanTake, Expired
  <2> QED
    BY <1>18, <2>1 DEF vars, Watched
<1> QED
  BY <1>1, <1>2, <1>3, <1>4, <1>5, <1>6, <1>7, <1>8, <1>9, <1>10, <1>11, <1>12, <1>13, <1>14,
     <1>15, <1>16, <1>17, <1>18 DEF Next, PollStep, Env

-----------------------------------------------------------------------------
(* The theorems                                                            *)

\* Everything holds before the first poll.
LEMMA InitIInv == Init => IInv
<1> SUFFICES ASSUME Init PROVE IInv
  OBVIOUS
<1>1. StateInv
  BY InitStateInv DEF Init
<1>2. now \in Time
  BY BoundAssumption DEF Init, SchedulerInit, Time
<1>3. requests \in Seq(ScheduleRequest)
  BY DEF Init, SchedulerInit
<1>4. closed \in BOOLEAN
  BY DEF Init, SchedulerInit
<1>5. RunnerTypeOK
  BY DEF Init, RunnerInit, RunnerTypeOK
<1>6. phase # "panicked" /\ GateInv /\ FutureWakers /\ Watched /\ PolledFuturesSurvive
  BY DEF Init, RunnerInit, GateInv, FutureWakers, Watched, PolledFuturesSurvive, Active
<1> QED
  BY <1>1, <1>2, <1>3, <1>4, <1>5, <1>6, TypeParts DEF WorldTypeOK, IInv

\* Every step of a poll and of the world around it keeps the inductive invariant.
LEMMA NextIInv == IInv /\ [Next]_vars => IInv'
<1> SUFFICES ASSUME IInv, [Next]_vars PROVE IInv'
  OBVIOUS
<1>1. StateInv /\ WorldTypeOK /\ RunnerTypeOK
  BY TypeParts DEF IInv
<1>2. (StateInv /\ WorldTypeOK /\ RunnerTypeOK)'
  BY <1>1, NextStateInv, NextWorldTypeOK, NextRunnerTypeOK
<1> QED
  BY <1>1, <1>2, TypeParts, NextNotPanicked, NextGateInv, NextFutureWakers, NextWatched, NextSurvive
     DEF IInv

\* Type correctness of the Runner.
THEOREM TypeCorrect == Spec => []TypeOK
<1>1. IInv => TypeOK
  BY DEF IInv
<1> QED
  BY InitIInv, NextIInv, <1>1, PTL DEF Spec

\* The assert! in Runner::poll_next never fires: no message is started while a future
\* for an equal message is in the slots.
THEOREM OneFuturePerMessage == Spec => []NeverReplacesRunning
<1>1. IInv => NeverReplacesRunning
  BY DEF IInv, NeverReplacesRunning
<1> QED
  BY InitIInv, NextIInv, <1>1, PTL DEF Spec

\* No future is started before delay_tasks_until's future has succeeded, and none
\* exists when it fails.
THEOREM GateRespected == Spec => []ReadinessGate
<1>1. IInv => ReadinessGate
  BY DEF IInv, GateInv, ReadinessGate
<1> QED
  BY InitIInv, NextIInv, <1>1, PTL DEF Spec

\* Whenever the Runner returns Pending and nothing has woken its task since, there is
\* nothing it could do: no wakeup is lost between the slots, the gate, the requests
\* and the timer, in whatever order they become ready during a poll.
THEOREM NoWakeupLost == Spec => []NoLostWakeup
<1>1. IInv => NoLostWakeup
  BY DEF IInv, Watched, NoLostWakeup, Finished
<1> QED
  BY InitIInv, NextIInv, <1>1, PTL DEF Spec

\* The end of the stream drops no future that was ever polled.
THEOREM FuturesSurvive == Spec => []PolledFuturesSurvive
<1>1. IInv => PolledFuturesSurvive
  BY DEF IInv
<1> QED
  BY InitIInv, NextIInv, <1>1, PTL DEF Spec

\* A reconciliation under way is neither replaced by another of the same object nor
\* dropped by the end of the stream.
THEOREM FuturesKept == Spec => []FuturesAreKept
  BY OneFuturePerMessage, FuturesSurvive, PTL DEF FuturesAreKept

\* The metadata of every message names the live queue entry of that message with the
\* same deadline, every queue entry is named by the metadata of its message, and no
\* held message is scheduled as well: the expect() in poll_pop_queue_message cannot
\* fail and reset_at in schedule_message never moves another message.
THEOREM QueueAndMetadataAgree == Spec => []QueueMatchesMetadata
<1>1. IInv => QueueMatchesMetadata
  BY DEF IInv, Consistent
<1> QED
  BY InitIInv, NextIInv, <1>1, PTL DEF Spec

\* A message leaves the Scheduler only when its future is put into a free slot.
THEOREM OnlyStartConsumes == Spec => ConsumedOnlyByStart
<1> DEFINE Keeps == \A m \in Message : Due[m] # None /\ Due'[m] = None
                                       => slots[m] = "empty" /\ slots'[m] # "empty"
<1>1. IInv /\ [Next]_vars => [Keeps]_vars
  <2> SUFFICES ASSUME IInv, Next PROVE Keeps
    OBVIOUS
  <2>0. StateInv /\ WorldTypeOK /\ RunnerTypeOK
    BY TypeParts DEF IInv
  <2>1. ASSUME UNCHANGED state PROVE Keeps
    BY <2>1 DEF state, Due
  <2>2. CASE DrainRequest
    <3> DEFINE r == Head(requests)
    <3>0. r \in ScheduleRequest
      BY <2>0, <2>2 DEF DrainRequest, ScheduleHead, WorldTypeOK
    <3>1. r.message \in Message /\ r.run_at \in Time
      BY <3>0 DEF ScheduleRequest
    <3>2. Due' = [Due EXCEPT ![r.message] = IF @ = None \/ r.run_at <= @ THEN r.run_at ELSE @]
      BY <2>0, <2>2, <3>0, ScheduleMessageDue DEF DrainRequest, ScheduleHead
    <3>3. r.run_at # None
      BY <3>1, NoneAssumption
    <3> QED
      BY <3>1, <3>2, <3>3 DEF Due
  <2>3. ASSUME NEW m \in Message, StartMessage(m) PROVE Keeps
    <3>1. m \in CanTake /\ Due' = [Due EXCEPT ![m] = None]
      BY <2>0, <2>3, TakeDue DEF StartMessage, Launch, WorldTypeOK
    <3>2. slots[m] = "empty" /\ slots'[m] = "running"
      BY <2>0, <2>3, <3>1 DEF CanTake, StartMessage, Launch, RunnerTypeOK
    <3> QED
      BY <3>1, <3>2 DEF Due
  <2>4. ASSUME NEW m \in Message, HoldMessage(m) PROVE Keeps
    <3>1. Due' = [Due EXCEPT ![m] = 0]
      BY <2>0, <2>4, HoldDue DEF HoldMessage, WorldTypeOK
    <3>2. 0 # None
      BY NoneAssumption, BoundAssumption DEF Time
    <3> QED
      BY <3>1, <3>2 DEF Due
  <2>5. ASSUME NEW m \in Message, ReturnResult(m) PROVE UNCHANGED state
    BY <2>5 DEF ReturnResult
  <2>6. ASSUME Env PROVE UNCHANGED state
    BY <2>6 DEF Env, TimePasses, Tick, Close, CloseRequests, Send, SendRequest, FinishMessage,
                ResolveGate
  <2>7. ASSUME PollNext \/ NoResult \/ GateOpen \/ GateFailed \/ GatePending \/ RequestsEnded
               \/ RequestsDrained \/ PollPending
        PROVE  UNCHANGED state
    BY <2>7 DEF PollNext, NoResult, GateOpen, GateFailed, GatePending, RequestsEnded,
                RequestsDrained, PollPending
  <2> QED
    BY <2>1, <2>2, <2>3, <2>4, <2>5, <2>6, <2>7 DEF Next, PollStep
<1> QED
  BY InitIInv, NextIInv, <1>1, PTL DEF Spec, ConsumedOnlyByStart

-----------------------------------------------------------------------------
(* The Scheduler as the Runner polls it implements DueQueue                *)

\* A new Scheduler has nothing due.
LEMMA InitRefines == Init => D!Init
  BY DEF Init, SchedulerInit, D!Init, Due

\* Each step of the Runner is a step of DueQueue, or changes nothing DueQueue sees.
LEMMA NextRefines == IInv /\ [Next]_vars => [D!Next]_(D!vars)
<1> SUFFICES ASSUME IInv, [Next]_vars PROVE [D!Next]_(D!vars)
  OBVIOUS
<1>t. StateInv /\ WorldTypeOK
  BY TypeParts DEF IInv
<1>0. ASSUME UNCHANGED <<now, state>> PROVE UNCHANGED D!vars
  BY <1>0 DEF D!vars, Due, state
<1>1. CASE TimePasses
  BY <1>1 DEF TimePasses, Tick, D!Next, D!Tick, Due, state
<1>2. CASE DrainRequest
  <2> DEFINE r == Head(requests)
  <2>0. r \in ScheduleRequest
    BY <1>2, <1>t DEF DrainRequest, ScheduleHead, WorldTypeOK
  <2>1. r.message \in Message /\ r.run_at \in Time
    BY <2>0 DEF ScheduleRequest
  <2>2. Due' = [Due EXCEPT ![r.message] = IF @ = None \/ r.run_at <= @ THEN r.run_at ELSE @]
    BY <1>2, <1>t, <2>0, ScheduleMessageDue DEF DrainRequest, ScheduleHead
  <2>3. D!Request(r.message, r.run_at)
    BY <1>2, <2>1, <2>2 DEF DrainRequest, ScheduleHead, D!Request, D!Earliest
  <2> QED
    BY <2>1, <2>3 DEF D!Next, D!Time, Time
<1>3. ASSUME NEW m \in Message, StartMessage(m) PROVE D!Next
  <2>1. Due[m] # None /\ Due[m] <= now /\ Due' = [Due EXCEPT ![m] = None]
    BY <1>3, <1>t, TakeDue DEF StartMessage, Launch, WorldTypeOK
  <2> QED
    BY <1>3, <2>1 DEF StartMessage, Launch, D!Next, D!Emit
<1>4. ASSUME NEW m \in Message, HoldMessage(m) PROVE D!Next
  <2>1. Due[m] # None /\ Due[m] <= now /\ Due' = [Due EXCEPT ![m] = 0]
    BY <1>4, <1>t, HoldDue DEF HoldMessage, WorldTypeOK
  <2> QED
    BY <1>4, <2>1 DEF HoldMessage, D!Next, D!Ripen
<1>5. ASSUME NEW m \in Message, ReturnResult(m) \/ FinishMessage(m) PROVE UNCHANGED D!vars
  BY <1>5, <1>0 DEF ReturnResult, FinishMessage
<1>6. ASSUME Close \/ (\E r \in ScheduleRequest : Send(r))
             \/ \E outcome \in {"ok", "err"} : ResolveGate(outcome)
      PROVE  UNCHANGED D!vars
  BY <1>6, <1>0 DEF Close, CloseRequests, Send, SendRequest, ResolveGate
<1>7. ASSUME PollNext \/ NoResult \/ GateOpen \/ GateFailed \/ GatePending \/ RequestsEnded
             \/ RequestsDrained \/ PollPending
      PROVE  UNCHANGED D!vars
  BY <1>7, <1>0 DEF PollNext, NoResult, GateOpen, GateFailed, GatePending, RequestsEnded,
              RequestsDrained, PollPending
<1>8. ASSUME UNCHANGED vars PROVE UNCHANGED D!vars
  BY <1>8, <1>0 DEF vars, state
<1> QED
  BY <1>1, <1>2, <1>3, <1>4, <1>5, <1>6, <1>7, <1>8 DEF Next, PollStep, Env

\* What the Scheduler holds for the Runner keeps the promise of DueQueue, however
\* requests, clock, polls and running futures interleave.
THEOREM Refinement == Spec => ImplementsDueQueue
  BY InitIInv, NextIInv, InitRefines, NextRefines, PTL DEF Spec, ImplementsDueQueue, D!Spec

-----------------------------------------------------------------------------
(***************************************************************************)
(* The Controller                                                          *)
(***************************************************************************)

\* What the streams of the task hold.
StreamsTypeOK ==
    /\ now \in Time /\ requests \in Seq(ScheduleRequest)
    /\ feed \in Seq(FeedItem)
    /\ peeked \in {None, Err} \cup {Ok(r) : r \in ScheduleRequest}
    /\ flat_queue \in SUBSET Message
    /\ owed \in SUBSET Message
    /\ store \in [Message -> Nat] /\ seen \in [Message -> Nat] /\ version \in Nat

\* The gate is the readiness of the store: it cannot fail, and opens once.
CGateInv ==
    /\ slots \in [Message -> {"empty", "running", "done"}]
    /\ gate \in {"waiting", "ok", "fused"}
    /\ is_ready_to_execute \in BOOLEAN
    /\ ~stopped
    /\ is_ready_to_execute => gate = "fused"
    /\ Active # {} => is_ready_to_execute

CInv == /\ StateInv
        /\ StreamsTypeOK
        /\ CGateInv
        /\ NeverReplacesRunning
        /\ NoMissedReconciliation

-----------------------------------------------------------------------------
(* Types                                                                   *)

\* A message asked for at once is a request of the scheduler.
LEMMA SoonType ==
  ASSUME now \in Time, NEW m \in Message
  PROVE  Soon(m) \in ScheduleRequest /\ Soon(m).message = m
  BY BoundAssumption DEF Soon, ScheduleRequest, Time

\* An item of the watches, by its type
LEMMA FeedItemType ==
  ASSUME NEW item \in FeedItem
  PROVE  /\ item.type \in {"applied", "deleted"} => item.obj \in Message
         /\ item.type \in {"restarted", "related"} => item.objs \in SUBSET Message
  BY DEF FeedItem, Err

\* Exactly one of the three forms of a peeked item
LEMMA PeekedForms ==
  ASSUME NEW r \in ScheduleRequest
  PROVE  Ok(r) # None /\ Ok(r) # Err /\ Ok(r).request = r
  BY PeekedAssumption DEF Ok, Err

\* A step that reads from the triggers
LEMMA TriggerTypes ==
  ASSUME StreamsTypeOK, TriggerQueued \/ TriggerRead
  PROVE  /\ feed' \in Seq(FeedItem)
         /\ peeked' \in {peeked, None, Err} \cup {Ok(r) : r \in ScheduleRequest}
         /\ flat_queue' \in SUBSET Message
         /\ owed' \in SUBSET Message
         /\ store' \in [Message -> Nat] /\ version' \in Nat
<1> USE DEF StreamsTypeOK
<1>1. CASE TriggerQueued
  BY <1>1, SoonType DEF TriggerQueued, NoStoreEvent
<1>2. CASE TriggerRead
  <2> DEFINE item == Head(feed)
  <2>1. item \in FeedItem /\ feed' \in Seq(FeedItem)
    BY <1>2 DEF TriggerRead
  <2> HIDE DEF item
  <2>2. CASE TriggerApplied(item)
    BY <2>1, <2>2, FeedItemType, SoonType DEF TriggerApplied, StoreEvent
  <2>3. CASE TriggerDeleted(item)
    BY <2>1, <2>3, FeedItemType DEF TriggerDeleted, StoreEvent
  <2>4. CASE TriggerRestarted(item)
    BY <2>1, <2>4, FeedItemType DEF TriggerRestarted, StoreEvent
  <2>5. CASE TriggerRelated(item)
    BY <2>1, <2>5, FeedItemType DEF TriggerRelated, NoStoreEvent
  <2>6. CASE TriggerBulk(item)
    BY <2>1, <2>6 DEF TriggerBulk, NoStoreEvent
  <2>7. CASE TriggerError(item)
    BY <2>1, <2>7 DEF TriggerError, NoStoreEvent
  <2> QED
    BY <1>2, <2>2, <2>3, <2>4, <2>5, <2>6, <2>7 DEF TriggerRead, item
<1> QED
  BY <1>1, <1>2

-----------------------------------------------------------------------------
(* What a step does                                                        *)

quiet == <<requests, peeked, flat_queue, store, seen, owed, version>>

\* Steps of the task and of its surroundings that move no request
Idling == \/ ErrsRejects \/ ErrsPending \/ ViaRejects \/ ViaDrained \/ ViaEnded \/ ViaPending
          \/ (NoResult \/ GateOpen \/ GatePending) /\ UNCHANGED world
          \/ PollTask \/ BackoffOver \/ Shutdown \/ ForcefulShutdown
          \/ \E item \in FeedItem : Arrive(item)
          \/ (TimePasses \/ \E m \in Message : FinishMessage(m)) /\ UNCHANGED world

\* The clock stands still or goes on by one.
Ticks == now' = now \/ (now < MaxTime /\ now' = now + 1)

\* They leave the Scheduler and the streams as they are.
LEMMA IdlingLeaves ==
  ASSUME StreamsTypeOK, Idling
  PROVE  UNCHANGED state /\ UNCHANGED quiet /\ Ticks /\ now' \in Time /\ feed' \in Seq(FeedItem)
<1> USE DEF Ticks, state, quiet, world, StreamsTypeOK
<1>1. CASE ErrsRejects \/ ErrsPending \/ ViaRejects \/ ViaDrained \/ ViaEnded \/ ViaPending
  BY <1>1 DEF ErrsRejects, ErrsPending, ViaRejects, ViaDrained, ViaEnded, ViaPending
<1>2. CASE (NoResult \/ GateOpen \/ GatePending) /\ UNCHANGED world
  BY <1>2 DEF NoResult, GateOpen, GatePending
<1>3. CASE PollTask \/ BackoffOver \/ Shutdown \/ ForcefulShutdown
  BY <1>3 DEF PollTask, BackoffOver, Shutdown, CloseRequests, ForcefulShutdown
<1>4. ASSUME NEW item \in FeedItem, Arrive(item)
      PROVE  UNCHANGED state /\ UNCHANGED quiet /\ Ticks /\ now' \in Time /\ feed' \in Seq(FeedItem)
  BY <1>4 DEF Arrive
<1>5. CASE TimePasses /\ UNCHANGED world
  BY <1>5, BoundAssumption DEF TimePasses, Tick, Time
<1>6. ASSUME NEW m \in Message, FinishMessage(m), UNCHANGED world
      PROVE  UNCHANGED state /\ UNCHANGED quiet /\ Ticks /\ now' \in Time /\ feed' \in Seq(FeedItem)
  BY <1>6 DEF FinishMessage
<1> QED
  BY <1>1, <1>2, <1>3, <1>4, <1>5, <1>6 DEF Idling

\* A step either idles, moves one item of a stream, or works on one message.
LEMMA CNextCases ==
  ASSUME CNext
  PROVE  \/ Idling
         \/ ErrsYields \/ ViaTakes
         \/ InnerYields /\ phase' = phase
         \/ \E m \in Message : \/ StartReconcile(m) \/ FinishReconcile(m)
                               \/ HoldMessage(m) /\ UNCHANGED world
<1>1. InnerYields => phase' = phase
  BY DEF InnerYields
<1>2. TaskStep => \/ Idling \/ ErrsYields \/ ViaTakes \/ InnerYields
                  \/ \E m \in Message : \/ StartReconcile(m) \/ FinishReconcile(m)
                                        \/ HoldMessage(m) /\ UNCHANGED world
  BY DEF TaskStep, Idling, ErrsPolls, ViaPolls
<1> QED
  BY <1>1, <1>2 DEF CNext, Idling

-----------------------------------------------------------------------------
(* Types are kept                                                          *)

\* Every step keeps the types and the invariant of the queue and the runner.
LEMMA NextStreamsTypeOK ==
  ASSUME StateInv, StreamsTypeOK, [CNext]_cvars
  PROVE  StateInv' /\ StreamsTypeOK'
<1> USE DEF StreamsTypeOK
<1>1. CASE Idling
  BY <1>1, IdlingLeaves, UnchangedStateInv DEF quiet
<1>2. CASE ErrsYields
  BY <1>2, UnchangedStateInv DEF ErrsYields
<1>3. CASE ViaTakes
  <2>1. PICK r \in ScheduleRequest : peeked = Ok(r)
    BY <1>3 DEF ViaTakes
  <2>2. schedule_message(r)
    BY <1>3, <2>1, PeekedForms DEF ViaTakes
  <2> QED
    BY <1>3, <2>2, ScheduleMessageStateInv DEF ViaTakes
<1>4. CASE InnerYields
  <2>1. CASE RescheduleRead
    <3>1. Head(requests) \in ScheduleRequest /\ requests' \in Seq(ScheduleRequest)
      BY <2>1 DEF RescheduleRead
    <3> QED
      BY <1>4, <2>1, <3>1, UnchangedStateInv DEF RescheduleRead, InnerYields
  <2>2. CASE (TriggerQueued \/ TriggerRead) /\ UNCHANGED requests
    <3>1. UNCHANGED state /\ now' = now /\ seen' = seen
      BY <1>4 DEF InnerYields
    <3> QED
      BY <2>2, <3>1, TriggerTypes, UnchangedStateInv
  <2> QED
    BY <1>4, <2>1, <2>2 DEF InnerYields
<1>5. ASSUME NEW m \in Message, StartReconcile(m) PROVE StateInv' /\ StreamsTypeOK'
  BY <1>5, PopStateInv DEF StartReconcile, Launch
<1>6. ASSUME NEW m \in Message, FinishReconcile(m) PROVE StateInv' /\ StreamsTypeOK'
  <2>1. ASSUME NEW t \in now..MaxTime PROVE [message |-> m, run_at |-> t] \in ScheduleRequest
    BY BoundAssumption DEF ScheduleRequest, Time
  <2>3. UNCHANGED <<now, state, feed, store, flat_queue, peeked, version, seen>>
    BY <1>6 DEF FinishReconcile
  <2>2. CASE UNCHANGED <<requests, owed>>
    BY <1>6, <2>2, UnchangedStateInv DEF FinishReconcile
  <2>4. CASE \E t \in now..MaxTime : requests' = Append(requests, [message |-> m, run_at |-> t])
    <3>1. PICK t \in now..MaxTime : requests' = Append(requests, [message |-> m, run_at |-> t])
      BY <2>4
    <3>2. requests' \in Seq(ScheduleRequest)
      BY <2>1, <3>1
    <3>3. owed' \in SUBSET Message
      BY <1>6 DEF FinishReconcile
    <3> QED
      BY <2>3, <3>2, <3>3, UnchangedStateInv
  <2> QED
    BY <1>6, <2>2, <2>4 DEF FinishReconcile
<1>7. ASSUME NEW m \in Message, HoldMessage(m), UNCHANGED world PROVE StateInv' /\ StreamsTypeOK'
  BY <1>7, PopStateInv DEF HoldMessage, world
<1>8. CASE UNCHANGED cvars
  BY <1>8, UnchangedStateInv DEF cvars, state
<1> QED
  BY <1>1, <1>2, <1>3, <1>4, <1>5, <1>6, <1>7, <1>8, CNextCases

-----------------------------------------------------------------------------
(* No reconciliation is missed                                             *)

\* On its way, or asked for in the reschedule channel
Queued(m) == OnItsWay(m) \/ \E i \in 1..Len(requests) : requests[i].message = m

\* What is due follows from the state of the runner.
LEMMA DueUnchanged == UNCHANGED state => Due' = Due
  BY DEF state, Due

\* A message stays on its way where neither the streams nor the runner move.
LEMMA StillOnItsWay ==
  ASSUME UNCHANGED <<state, requests, peeked, flat_queue>>, NEW m
  PROVE  (OnItsWay(m)' <=> OnItsWay(m)) /\ (Queued(m)' <=> Queued(m))
  BY DueUnchanged DEF OnItsWay, Queued

\* Reading the triggers keeps what is queued on its way, because it only happens when
\* nothing is peeked and, for a new item, when the last one is used up.
LEMMA TriggersMissNone ==
  ASSUME StreamsTypeOK, NoMissedReconciliation, peeked = None,
         TriggerQueued \/ TriggerRead, UNCHANGED <<state, requests, seen>>
  PROVE  NoMissedReconciliation'
<1> USE DEF StreamsTypeOK
<1>1. Due' = Due
  BY DueUnchanged
<1>2. CASE TriggerQueued
  <2>1. PICK m \in flat_queue : peeked' = Ok(Soon(m)) /\ flat_queue' = flat_queue \ {m}
    BY <1>2 DEF TriggerQueued
  <2>2. peeked' # None /\ peeked' # Err /\ peeked'.request.message = m
    BY <2>1, SoonType, PeekedForms
  <2>3. \A n : OnItsWay(n) => OnItsWay(n)'
    BY <1>1, <2>1, <2>2 DEF OnItsWay
  <2> QED
    BY <1>2, <2>3 DEF TriggerQueued, NoStoreEvent, NoMissedReconciliation
<1>3. CASE TriggerRead
  <2>1. PICK item \in FeedItem :
           \/ TriggerApplied(item) \/ TriggerDeleted(item) \/ TriggerRestarted(item)
           \/ TriggerRelated(item) \/ TriggerBulk(item) \/ TriggerError(item)
    BY <1>3 DEF TriggerRead
  <2>9. flat_queue = {}
    BY <1>3 DEF TriggerRead
  <2>2. \A n : OnItsWay(n) => Due[n] # None
    BY <2>9 DEF OnItsWay
  <2>3. \A n : OnItsWay(n) => OnItsWay(n)'
    BY <1>1, <2>2 DEF OnItsWay
  <2>4. CASE TriggerApplied(item)
    <3>1. item.obj \in Message /\ peeked' = Ok(Soon(item.obj))
      BY <2>1, <2>4, FeedItemType DEF TriggerApplied
    <3>2. OnItsWay(item.obj)'
      BY <3>1, SoonType, PeekedForms DEF OnItsWay
    <3>3. \A n \in Message : n # item.obj => store'[n] = store[n]
      BY <2>4 DEF TriggerApplied, StoreEvent
    <3> QED
      BY <2>3, <2>4, <3>2, <3>3 DEF TriggerApplied, NoMissedReconciliation
  <2>5. CASE TriggerDeleted(item)
    <3>1. \A n \in Message : store'[n] \in {0, store[n]}
      BY <2>5 DEF TriggerDeleted, StoreEvent
    <3> QED
      BY <2>3, <2>5, <3>1 DEF TriggerDeleted, NoMissedReconciliation
  <2>6. CASE TriggerRestarted(item)
    <3>1. \A n \in Message : store'[n] # 0 => n \in flat_queue'
      BY <2>6 DEF TriggerRestarted, StoreEvent
    <3>2. \A n \in Message : store'[n] # 0 => OnItsWay(n)'
      BY <3>1 DEF OnItsWay
    <3> QED
      BY <2>3, <2>6, <3>2 DEF TriggerRestarted, NoMissedReconciliation
  <2>7. CASE TriggerRelated(item) \/ TriggerBulk(item)
    <3>1. owed' = owed \cup flat_queue' /\ store' = store
      BY <2>7 DEF TriggerRelated, TriggerBulk, NoStoreEvent
    <3>2. \A n \in flat_queue' : OnItsWay(n)'
      BY DEF OnItsWay
    <3> QED
      BY <2>3, <3>1, <3>2 DEF NoMissedReconciliation
  <2>8. CASE TriggerError(item)
    BY <2>3, <2>8 DEF TriggerError, NoStoreEvent, NoMissedReconciliation
  <2> QED
    BY <2>1, <2>4, <2>5, <2>6, <2>7, <2>8
<1> QED
  BY <1>2, <1>3

\* A step that only moves requests on, towards the Scheduler, misses nothing.
LEMMA MovedOn ==
  ASSUME NoMissedReconciliation, UNCHANGED <<store, seen, owed>>,
         \A n \in Message : OnItsWay(n) => OnItsWay(n)',
         \A n \in Message : Queued(n) => Queued(n)',
         owed \in SUBSET Message
  PROVE  NoMissedReconciliation'
  BY DEF NoMissedReconciliation, Queued

\* The request that was peeked is now due in the Scheduler, and nothing else changed there.
LEMMA TakesMissNone ==
  ASSUME StateInv, StreamsTypeOK, NoMissedReconciliation, ViaTakes
  PROVE  NoMissedReconciliation'
<1> USE DEF StreamsTypeOK
<1>1. PICK r \in ScheduleRequest : peeked = Ok(r)
  BY DEF ViaTakes
<1>2. schedule_message(r) /\ peeked' = None /\ UNCHANGED <<requests, flat_queue, store, seen, owed>>
  BY <1>1, PeekedForms DEF ViaTakes
<1>3. r.message \in Message /\ r.run_at # None /\ peeked.request.message = r.message
  BY <1>1, PeekedForms, NoneAssumption DEF ScheduleRequest
<1>4. Due' = [Due EXCEPT ![r.message] = IF @ = None \/ r.run_at <= @ THEN r.run_at ELSE @]
  BY <1>2, ScheduleMessageDue
<1>5. \A n \in Message : Due'[n] # None <=> Due[n] # None \/ n = r.message
  BY <1>3, <1>4 DEF Due
<1>6. \A n \in Message : OnItsWay(n) => OnItsWay(n)'
  BY <1>2, <1>3, <1>5 DEF OnItsWay
<1>7. \A n \in Message : Queued(n) => Queued(n)'
  BY <1>2, <1>6 DEF Queued
<1> QED
  BY <1>2, <1>6, <1>7, MovedOn

\* The oldest request of the reschedule channel becomes the peeked one.
LEMMA RescheduleMissesNone ==
  ASSUME StreamsTypeOK, NoMissedReconciliation, peeked = None, RescheduleRead,
         UNCHANGED <<state, seen>>
  PROVE  NoMissedReconciliation'
<1> USE DEF StreamsTypeOK
<1>1. /\ requests # <<>> /\ requests' = Tail(requests) /\ peeked' = Ok(Head(requests))
      /\ UNCHANGED <<store, flat_queue, owed>>
  BY DEF RescheduleRead
<1>2. PICK r \in ScheduleRequest : r = requests[1] /\ peeked' = Ok(r)
  BY <1>1
<1>3. peeked' # None /\ peeked' # Err /\ peeked'.request.message = r.message
  BY <1>2, PeekedForms
<1>4. \A n \in Message : OnItsWay(n) => OnItsWay(n)'
  BY <1>1, DueUnchanged DEF OnItsWay
<1>5. ASSUME NEW n \in Message, NEW i \in 1..Len(requests), requests[i].message = n
      PROVE  Queued(n)'
  <2>1. CASE i = 1
    BY <1>2, <1>3, <1>5, <2>1 DEF Queued, OnItsWay
  <2>2. CASE i # 1
    <3>1. Len(requests') = Len(requests) - 1 /\ i - 1 \in 1..Len(requests')
      BY <1>1, <2>2
    <3>2. requests'[i - 1] = requests[i]
      BY <1>1, <2>2, <3>1
    <3> QED
      BY <1>5, <3>1, <3>2 DEF Queued
  <2> QED
    BY <2>1, <2>2
<1>6. \A n \in Message : Queued(n) => Queued(n)'
  BY <1>4, <1>5 DEF Queued
<1> QED
  BY <1>1, <1>4, <1>6, MovedOn

\* An object is taken out of the Scheduler at the moment its reconciliation reads the
\* store: what is stored is what is seen.
LEMMA StartMissesNone ==
  ASSUME StateInv, StreamsTypeOK, NoMissedReconciliation, NEW m \in Message, StartReconcile(m)
  PROVE  NoMissedReconciliation'
<1> USE DEF StreamsTypeOK
<1>1. Due' = [Due EXCEPT ![m] = None]
  BY TakeDue DEF StartReconcile, Launch
<1>2. UNCHANGED <<requests, peeked, flat_queue, store>>
  BY DEF StartReconcile, Launch
<1>3. seen' = [seen EXCEPT ![m] = store[m]] /\ owed' = owed \ {m}
  BY DEF StartReconcile
<1>4. \A n \in Message : n # m /\ OnItsWay(n) => OnItsWay(n)'
  BY <1>1, <1>2 DEF OnItsWay, Due
<1>5. \A n \in Message : n # m /\ Queued(n) => Queued(n)'
  BY <1>2, <1>4 DEF Queued
<1>6. \A n \in Message : store'[n] # 0 => seen'[n] = store'[n] \/ OnItsWay(n)'
  BY <1>2, <1>3, <1>4 DEF NoMissedReconciliation
<1>7. \A n \in owed' : Queued(n)'
  BY <1>3, <1>5 DEF NoMissedReconciliation, Queued
<1> QED
  BY <1>6, <1>7 DEF NoMissedReconciliation, Queued

\* The request of a reconciler that asks to be run again is in the channel at once.
LEMMA FinishMissesNone ==
  ASSUME StreamsTypeOK, NoMissedReconciliation, NEW m \in Message, FinishReconcile(m)
  PROVE  NoMissedReconciliation'
<1> USE DEF StreamsTypeOK
<1>1. UNCHANGED <<state, peeked, flat_queue, store, seen>>
  BY DEF FinishReconcile
<1>2. \A n \in Message : OnItsWay(n) => OnItsWay(n)'
  BY <1>1, DueUnchanged DEF OnItsWay
<1>3. CASE UNCHANGED <<requests, owed>>
  <2>1. \A n \in Message : Queued(n) => Queued(n)'
    BY <1>2, <1>3 DEF Queued
  <2> QED
    BY <1>1, <1>2, <1>3, <2>1, MovedOn
<1>4. CASE /\ \E t \in now..MaxTime : requests' = Append(requests, [message |-> m, run_at |-> t])
           /\ owed' = owed \cup {m}
  <2>1. PICK t \in Time : requests' = Append(requests, [message |-> m, run_at |-> t])
    BY <1>4, BoundAssumption DEF Time
  <2>2. [message |-> m, run_at |-> t] \in ScheduleRequest
    BY DEF ScheduleRequest
  <2>3. /\ Len(requests') = Len(requests) + 1
        /\ \A i \in 1..Len(requests) : requests'[i] = requests[i]
        /\ requests'[Len(requests) + 1] = [message |-> m, run_at |-> t]
    BY <2>1, <2>2
  <2>4. Queued(m)'
    <3>1. Len(requests) + 1 \in 1..Len(requests')
      BY <2>3
    <3>2. requests'[Len(requests) + 1].message = m
      BY <2>3
    <3> QED
      BY <3>1, <3>2 DEF Queued
  <2>5. ASSUME NEW n \in Message, Queued(n) PROVE Queued(n)'
    <3>1. CASE OnItsWay(n)
      BY <1>2, <3>1 DEF Queued
    <3>2. ASSUME NEW i \in 1..Len(requests), requests[i].message = n PROVE Queued(n)'
      <4>1. i \in 1..Len(requests') /\ requests'[i].message = n
        BY <2>3, <3>2
      <4> QED
        BY <4>1 DEF Queued
    <3> QED
      BY <2>5, <3>1, <3>2 DEF Queued
  <2>6. \A n \in Message : store'[n] # 0 => seen'[n] = store'[n] \/ OnItsWay(n)'
    BY <1>1, <1>2 DEF NoMissedReconciliation
  <2>7. \A n \in owed' : Queued(n)'
    BY <1>4, <2>4, <2>5 DEF NoMissedReconciliation, Queued
  <2> QED
    BY <2>6, <2>7 DEF NoMissedReconciliation, Queued
<1> QED
  BY <1>3, <1>4 DEF FinishReconcile

\* A message that is held back stays due.
LEMMA HoldMissesNone ==
  ASSUME StateInv, StreamsTypeOK, NoMissedReconciliation, NEW m \in Message,
         HoldMessage(m), UNCHANGED world
  PROVE  NoMissedReconciliation'
<1> USE DEF StreamsTypeOK
<1>1. Due' = [Due EXCEPT ![m] = 0] /\ 0 # None
  BY HoldDue, NoneAssumption, BoundAssumption DEF HoldMessage, Time
<1>2. UNCHANGED <<requests, peeked, flat_queue, store, seen, owed>>
  BY DEF HoldMessage, world
<1>3. \A n \in Message : OnItsWay(n) => OnItsWay(n)'
  BY <1>1, <1>2 DEF OnItsWay, Due
<1>4. \A n \in Message : Queued(n) => Queued(n)'
  BY <1>2, <1>3 DEF Queued
<1> QED
  BY <1>2, <1>3, <1>4, MovedOn

\* An error that errs yields was no request.
LEMMA ErrsMissNone ==
  ASSUME StreamsTypeOK, NoMissedReconciliation, ErrsYields
  PROVE  NoMissedReconciliation'
<1> USE DEF StreamsTypeOK
<1>1. peeked = Err /\ UNCHANGED <<state, requests, flat_queue, store, seen, owed>>
  BY DEF ErrsYields
<1>2. \A n \in Message : OnItsWay(n) => OnItsWay(n)'
  BY <1>1, DueUnchanged DEF OnItsWay
<1>3. \A n \in Message : Queued(n) => Queued(n)'
  BY <1>1, <1>2 DEF Queued
<1> QED
  BY <1>1, <1>2, <1>3, MovedOn

\* No step misses a reconciliation.
LEMMA NextMissesNone ==
  ASSUME StateInv, StreamsTypeOK, NoMissedReconciliation, [CNext]_cvars
  PROVE  NoMissedReconciliation'
<1> USE DEF StreamsTypeOK
<1>1. ASSUME UNCHANGED state, UNCHANGED quiet PROVE NoMissedReconciliation'
  <2>1. UNCHANGED <<state, requests, peeked, flat_queue>> /\ UNCHANGED <<store, seen, owed>>
    BY <1>1 DEF quiet
  <2>2. \A n \in Message : OnItsWay(n) => OnItsWay(n)'
    BY <2>1, StillOnItsWay
  <2>3. \A n \in Message : Queued(n) => Queued(n)'
    BY <2>1, StillOnItsWay
  <2> QED
    BY <2>1, <2>2, <2>3, MovedOn
<1>2. CASE Idling
  BY <1>1, <1>2, IdlingLeaves
<1>3. CASE UNCHANGED cvars
  BY <1>1, <1>3 DEF cvars, state, quiet
<1>4. CASE InnerYields
  <2>1. peeked = None /\ UNCHANGED <<state, seen>>
    BY <1>4 DEF InnerYields
  <2>2. CASE RescheduleRead
    BY <2>1, <2>2, RescheduleMissesNone
  <2>3. CASE (TriggerQueued \/ TriggerRead) /\ UNCHANGED requests
    BY <2>1, <2>3, TriggersMissNone
  <2> QED
    BY <1>4, <2>2, <2>3 DEF InnerYields
<1> QED
  BY <1>2, <1>3, <1>4, ErrsMissNone, TakesMissNone, StartMissesNone, FinishMissesNone,
     HoldMissesNone, CNextCases

-----------------------------------------------------------------------------
(* The gate and the slots                                                  *)

\* What a step may do to the gate and to the slots: only Launch fills a slot, and only
\* one that was free while the gate was open.
LEMMA NextCGateInv ==
  ASSUME StateInv, StreamsTypeOK, CGateInv, NeverReplacesRunning, [CNext]_cvars
  PROVE  CGateInv' /\ NeverReplacesRunning'
<1> USE DEF CGateInv, NeverReplacesRunning, Active
<1>1. ASSUME UNCHANGED runnerState, phase' # "panicked" PROVE CGateInv' /\ NeverReplacesRunning'
  BY <1>1 DEF runnerState
<1>2. CASE ErrsRejects \/ ErrsPending \/ ViaRejects \/ ViaDrained \/ ViaEnded \/ ViaPending
  <2>1. UNCHANGED runnerState
    BY <1>2 DEF ErrsRejects, ErrsPending, ViaRejects, ViaDrained, ViaEnded, ViaPending
  <2>2. phase' # "panicked"
    BY <1>2 DEF ErrsRejects, ErrsPending, ViaRejects, ViaDrained, ViaEnded, ViaPending,
                AfterErrs, AfterVia
  <2> QED
    BY <1>1, <2>1, <2>2
<1>3. CASE PollTask \/ BackoffOver \/ Shutdown \/ ErrsYields \/ ViaTakes
  <2>1. UNCHANGED runnerState
    BY <1>3 DEF PollTask, BackoffOver, Shutdown, ErrsYields, ViaTakes
  <2>2. phase' # "panicked"
    BY <1>3 DEF PollTask, BackoffOver, Shutdown, ErrsYields, ViaTakes
  <2> QED
    BY <1>1, <2>1, <2>2
<1>4. ASSUME NEW item \in FeedItem, Arrive(item) PROVE CGateInv' /\ NeverReplacesRunning'
  BY <1>1, <1>4 DEF Arrive
<1>5. CASE TimePasses
  BY <1>1, <1>5 DEF TimePasses
<1>6. CASE NoResult \/ GateOpen \/ GatePending
  <2>1. CASE NoResult
    BY <2>1 DEF NoResult
  <2>2. CASE GateOpen
    <3>1. /\ gate' = "fused" /\ is_ready_to_execute' = TRUE /\ phase' = "requests"
          /\ UNCHANGED <<slots, stopped>>
      BY <2>2 DEF GateOpen
    <3> QED
      BY <3>1
  <2>3. CASE GatePending
    <3>1. UNCHANGED runnerState /\ phase' = "requests"
      BY <2>3 DEF GatePending
    <3> QED
      BY <1>1, <3>1
  <2> QED
    BY <1>6, <2>1, <2>2, <2>3
<1>7. CASE ForcefulShutdown
  BY <1>7 DEF ForcefulShutdown
<1>8. ASSUME NEW m \in Message, FinishMessage(m) PROVE CGateInv' /\ NeverReplacesRunning'
  BY <1>8 DEF FinishMessage
<1>9. CASE InnerYields
  <2>1. UNCHANGED <<slots, is_ready_to_execute, stopped, phase>>
    BY <1>9 DEF InnerYields
  <2>2. gate' = gate \/ (gate = "waiting" /\ gate' = "ok")
    BY <1>9 DEF InnerYields, RescheduleRead, TriggerQueued, TriggerRead, NoStoreEvent, StoreEvent,
                TriggerApplied, TriggerDeleted, TriggerRestarted, TriggerRelated, TriggerBulk,
                TriggerError
  <2> QED
    BY <2>1, <2>2
<1>10. ASSUME NEW m \in Message, StartReconcile(m) PROVE CGateInv' /\ NeverReplacesRunning'
  <2>1. m \in CanTake
    BY <1>10, TakeDue DEF StartReconcile, Launch, StreamsTypeOK
  <2>2. /\ slots' = [slots EXCEPT ![m] = IF store[m] = 0 THEN "done" ELSE "running"]
        /\ phase' = IF slots[m] = "empty" THEN "requests" ELSE "panicked"
        /\ UNCHANGED <<gate, is_ready_to_execute, stopped>>
    BY <1>10 DEF StartReconcile, Launch
  <2>3. phase' # "panicked" /\ is_ready_to_execute
    BY <2>1, <2>2 DEF CanTake
  <2> QED
    BY <2>2, <2>3
<1>11. ASSUME NEW m \in Message, FinishReconcile(m) PROVE CGateInv' /\ NeverReplacesRunning'
  BY <1>11 DEF FinishReconcile, FreeSlot
<1>12. ASSUME NEW m \in Message, HoldMessage(m) PROVE CGateInv' /\ NeverReplacesRunning'
  BY <1>1, <1>12 DEF HoldMessage
<1>13. CASE UNCHANGED cvars
  BY <1>13 DEF cvars
<1>14. CASE Idling
  BY <1>2, <1>3, <1>4, <1>5, <1>6, <1>7, <1>8, <1>14 DEF Idling
<1> QED
  BY <1>3, <1>9, <1>10, <1>11, <1>12, <1>13, <1>14, CNextCases

-----------------------------------------------------------------------------
(* The theorems                                                            *)

\* A new Controller has read nothing, reconciled nothing and been asked for nothing.
LEMMA InitCInv == CInit => CInv
<1> SUFFICES ASSUME CInit PROVE CInv
  OBVIOUS
<1> USE BoundAssumption DEF CInit, Init, SchedulerInit, RunnerInit
<1>1. StateInv
  BY InitStateInv
<1>2. StreamsTypeOK
  BY DEF StreamsTypeOK, Time, Nowhere
<1>3. CGateInv /\ NeverReplacesRunning
  BY DEF CGateInv, NeverReplacesRunning, Active
<1>4. NoMissedReconciliation
  BY DEF NoMissedReconciliation, Nowhere
<1> QED
  BY <1>1, <1>2, <1>3, <1>4 DEF CInv

\* The inductive invariant of the Controller: a Scheduler whose queue matches its
\* metadata, well-typed streams, a gate that guards the slots, and nothing missed.
THEOREM Invariant == CSpec => []CInv
<1>1. CInv /\ [CNext]_cvars => CInv'
  BY NextStreamsTypeOK, NextMissesNone, NextCGateInv DEF CInv
<1> QED
  BY <1>1, InitCInv, PTL DEF CSpec

\* Level triggering (applier): for any number of objects, watches, errors and requeues,
\* an object in the store was last reconciled at the version that is stored or is on its
\* way to be, and whoever asked for a reconciliation is not forgotten.
THEOREM NothingIsMissed == CSpec => []NoMissedReconciliation
<1>1. CInv => NoMissedReconciliation
  BY DEF CInv
<1> QED
  BY <1>1, Invariant, PTL

\* The Runner inside the Controller: reconciliations of one object never overlap, and none
\* starts before the store has been filled once.
THEOREM ReconciliationsAreExclusive == CSpec => [](NeverReplacesRunning /\ ReadinessGate)
<1>1. CInv => NeverReplacesRunning /\ ReadinessGate
  BY DEF CInv, CGateInv, ReadinessGate
<1> QED
  BY <1>1, Invariant, PTL

-----------------------------------------------------------------------------
(* The Scheduler inside the Controller implements DueQueue                 *)

\* Each step of the Controller is a step of DueQueue, or changes nothing DueQueue sees:
\* only ViaTakes, StartReconcile and HoldMessage touch the Scheduler.
LEMMA CNextRefines == CInv /\ [CNext]_cvars => [D!Next]_(D!vars)
<1> SUFFICES ASSUME CInv, [CNext]_cvars PROVE [D!Next]_(D!vars)
  OBVIOUS
<1> USE DEF CInv, StreamsTypeOK
<1>1. ASSUME UNCHANGED state, Ticks PROVE [D!Next]_(D!vars)
  BY <1>1, DueUnchanged DEF Ticks, D!vars, D!Next, D!Tick
<1>2. CASE Idling
  BY <1>1, <1>2, IdlingLeaves
<1>3. CASE ErrsYields \/ InnerYields \/ UNCHANGED cvars
  <2>1. UNCHANGED state /\ Ticks
    BY <1>3 DEF ErrsYields, InnerYields, cvars, state, Ticks
  <2> QED
    BY <1>1, <2>1
<1>4. CASE ViaTakes
  <2>1. PICK r \in ScheduleRequest : peeked = Ok(r)
    BY <1>4 DEF ViaTakes
  <2>2. schedule_message(r) /\ now' = now
    BY <1>4, <2>1, PeekedForms DEF ViaTakes
  <2>3. r.message \in Message /\ r.run_at \in Time
    BY DEF ScheduleRequest
  <2>4. D!Request(r.message, r.run_at)
    BY <2>2, ScheduleMessageDue DEF D!Request, D!Earliest
  <2> QED
    BY <2>3, <2>4 DEF D!Next, D!Time, Time
<1>5. ASSUME NEW m \in Message, StartReconcile(m) PROVE D!Next
  <2>1. Due[m] # None /\ Due[m] <= now /\ Due' = [Due EXCEPT ![m] = None]
    BY <1>5, TakeDue DEF StartReconcile, Launch
  <2> QED
    BY <1>5, <2>1 DEF StartReconcile, Launch, D!Next, D!Emit
<1>6. ASSUME NEW m \in Message, FinishReconcile(m) PROVE [D!Next]_(D!vars)
  <2>1. UNCHANGED state /\ Ticks
    BY <1>6 DEF FinishReconcile, Ticks
  <2> QED
    BY <1>1, <2>1
<1>7. ASSUME NEW m \in Message, HoldMessage(m) PROVE D!Next
  <2>1. Due[m] # None /\ Due[m] <= now /\ Due' = [Due EXCEPT ![m] = 0]
    BY <1>7, HoldDue DEF HoldMessage
  <2> QED
    BY <1>7, <2>1 DEF HoldMessage, D!Next, D!Ripen
<1> QED
  BY <1>2, <1>3, <1>4, <1>5, <1>6, <1>7, CNextCases

\* What the Controller's streams make of the Scheduler (SplitCase, Peekable, select, the
\* reschedule channel) keeps DueQueue's promise: the earliest of the requests made for an
\* object decides when it is reconciled, and no sooner.
THEOREM ControllerRefinement == CSpec => ImplementsDueQueue
<1>1. CInit => D!Init
  BY DEF CInit, Init, SchedulerInit, D!Init, Due
<1> QED
  BY <1>1, Invariant, CNextRefines, PTL DEF CSpec, ImplementsDueQueue, D!Spec
=============================================================================
