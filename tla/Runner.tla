------------------------------- MODULE Runner -------------------------------
(***************************************************************************)
(* kube-runtime/src/controller/runner.rs and future_hash_map.rs: the       *)
(* Runner takes messages from a Scheduler and runs one future per message, *)
(* never two for equal messages, once a readiness gate has opened.         *)
(*                                                                         *)
(* poll_next is cut at every point where it looks at something another     *)
(* thread may change: the futures in the slots, the gate, the channel of   *)
(* requests, the clock.  The Runner is only polled again when a waker it   *)
(* left behind fires, so the model keeps the set of registered wakers.     *)
(***************************************************************************)
EXTENDS Scheduler

VARIABLES
    slots,                    \* FutureHashMap: "empty", "running" or "done" per message
    gate,                     \* ready_to_execute_after: "waiting", "ok", "err" or "fused"
    is_ready_to_execute,
    stopped,
    has_active_slots,         \* local of poll_next
    phase,                    \* where poll_next stands: "idle" between two polls
    woken,                    \* the task that owns the Runner is due to be polled
    wakers                    \* the sources that hold the task's waker

runnerState == <<slots, gate, is_ready_to_execute, stopped, has_active_slots>>
vars == <<now, requests, closed, queue, scheduled, pending, slots, gate,
          is_ready_to_execute, stopped, has_active_slots, phase, woken, wakers>>

Sources == Message \cup {"requests", "gate", "timer"}

\* A message is not mistaken for one of the other sources.
ASSUME SourceAssumption == Message \cap {"requests", "gate", "timer", "feed", "backoff"} = {}

Active == {m \in Message : slots[m] # "empty"}
Finished == {m \in Message : slots[m] = "done"}

RunnerInit ==
    /\ slots = [m \in Message |-> "empty"]
    /\ gate = "waiting"
    /\ is_ready_to_execute = FALSE
    /\ stopped = FALSE
    /\ has_active_slots = FALSE
    /\ phase = "idle"
    /\ woken = TRUE
    /\ wakers = {}

Init == SchedulerInit /\ RunnerInit

\* A source fires: if it holds the waker it uses it up.
Wake(source) ==
    /\ woken' = (woken \/ source \in wakers)
    /\ wakers' = wakers \ {source}

\* A source that is Pending keeps the waker it is polled with.
Register(sources) == wakers' = wakers \cup sources /\ UNCHANGED woken

-----------------------------------------------------------------------------
(* poll_next                                                               *)

\* The call itself.  The task is polled because a waker fired or because another
\* branch of the same task (a select, a join) was woken.
PollNext ==
    /\ phase = "idle"
    /\ phase' = IF stopped THEN "terminated" ELSE "slots"
    /\ woken' = FALSE
    /\ UNCHANGED <<now, requests, closed, state, runnerState, wakers>>

\* slots.poll_next is Ready(Some(result)): the future leaves the map and its result
\* goes to the consumer, which asks for the next item.
FreeSlot(m) ==
    /\ phase = "slots"
    /\ slots[m] = "done"
    /\ slots' = [slots EXCEPT ![m] = "empty"]
    /\ phase' = "idle"
    /\ woken' = TRUE
    /\ UNCHANGED <<gate, is_ready_to_execute, stopped, has_active_slots, wakers>>

ReturnResult(m) == FreeSlot(m) /\ UNCHANGED <<now, requests, closed, state>>

NoResult_ForgetsActive ==
    /\ phase = "slots"
    /\ Finished = {}
    /\ has_active_slots' = FALSE
    /\ Register(Active)
    /\ phase' = "gate"
    /\ UNCHANGED <<now, requests, closed, state, slots, gate, is_ready_to_execute, stopped>>

\* slots.poll_next is Pending or, with no future at all, Ready(None).
NoResult ==
    /\ phase = "slots"
    /\ Finished = {}
    /\ has_active_slots' = (Active # {})
    /\ Register(Active)
    /\ phase' = "gate"
    /\ UNCHANGED <<now, requests, closed, state, slots, gate, is_ready_to_execute, stopped>>

GateOpen ==
    /\ phase = "gate"
    /\ gate = "ok"
    /\ gate' = "fused"
    /\ is_ready_to_execute' = TRUE
    /\ phase' = "requests"
    /\ UNCHANGED <<now, requests, closed, state, slots, stopped, has_active_slots, woken, wakers>>

\* Error::Readiness goes to the consumer, which polls again and finds the end.
GateFailed ==
    /\ phase = "gate"
    /\ gate = "err"
    /\ gate' = "fused"
    /\ stopped' = TRUE
    /\ phase' = "idle"
    /\ woken' = TRUE
    /\ UNCHANGED <<now, requests, closed, state, slots, is_ready_to_execute,
                   has_active_slots, wakers>>

GatePending_GivesUp ==
    /\ phase = "gate"
    /\ gate \in {"waiting", "fused"}
    /\ Register(IF gate = "waiting" THEN {"gate"} ELSE {})
    /\ phase' = "idle"
    /\ UNCHANGED <<now, requests, closed, state, runnerState>>

\* The gate is Pending: not resolved yet, or fused after it was consumed.
GatePending ==
    /\ phase = "gate"
    /\ gate \in {"waiting", "fused"}
    /\ Register(IF gate = "waiting" THEN {"gate"} ELSE {})
    /\ phase' = "requests"
    /\ UNCHANGED <<now, requests, closed, state, runnerState>>

CanTake_IgnoresSlots == {m \in Message : is_ready_to_execute}
CanTake_IgnoresGate == {m \in Message : slots[m] = "empty"}

\* The closure handed to hold_unless.
CanTake == {m \in Message : is_ready_to_execute /\ slots[m] = "empty"}

DrainRequest ==
    /\ phase = "requests"
    /\ ScheduleHead
    /\ UNCHANGED <<runnerState, phase, woken, wakers>>

\* hold_unless is Ready(None): the end of the stream, unless a future was found
\* running when this poll began.
RequestsEnded ==
    /\ phase = "requests"
    /\ requests = <<>> /\ closed
    /\ phase' = IF has_active_slots THEN "idle" ELSE "terminated"
    /\ UNCHANGED <<now, requests, closed, state, runnerState, woken, wakers>>

RequestsDrained ==
    /\ phase = "requests"
    /\ requests = <<>> /\ ~closed
    /\ Register({"requests"})
    /\ phase' = "pop"
    /\ UNCHANGED <<now, requests, closed, state, runnerState>>

Launch_WithoutWake(m, future) ==
    /\ phase = "pop"
    /\ TakePending(m, CanTake) \/ TakeExpired(m, CanTake)
    /\ slots' = [slots EXCEPT ![m] = future]
    /\ phase' = IF slots[m] = "empty" THEN "requests" ELSE "panicked"
    /\ UNCHANGED <<now, requests, closed, gate, is_ready_to_execute, stopped,
                   has_active_slots, woken, wakers>>

\* hold_unless is Ready(Some(m)): the future made by run_msg goes into the slots,
\* which must have been free, and the task wakes itself to poll it.
Launch(m, future) ==
    /\ phase = "pop"
    /\ TakePending(m, CanTake) \/ TakeExpired(m, CanTake)
    /\ slots' = [slots EXCEPT ![m] = future]
    /\ phase' = IF slots[m] = "empty" THEN "requests" ELSE "panicked"
    /\ woken' = TRUE
    /\ UNCHANGED <<now, requests, closed, gate, is_ready_to_execute, stopped,
                   has_active_slots, wakers>>

StartMessage(m) == Launch(m, "running")

HoldMessage(m) ==
    /\ phase = "pop"
    /\ HoldExpired(m, CanTake)
    /\ UNCHANGED <<now, requests, closed, runnerState, phase, woken, wakers>>

\* hold_unless is Pending: the DelayQueue keeps the waker.
PollPending ==
    /\ phase = "pop"
    /\ NothingToTake(CanTake)
    /\ Register({"timer"})
    /\ phase' = "idle"
    /\ UNCHANGED <<now, requests, closed, state, runnerState>>

\* What follows the call, up to its return.
PollStep == \/ NoResult \/ GateOpen \/ GateFailed \/ GatePending
            \/ DrainRequest \/ RequestsEnded \/ RequestsDrained \/ PollPending
            \/ \E m \in Message : ReturnResult(m) \/ StartMessage(m) \/ HoldMessage(m)

-----------------------------------------------------------------------------
(* The world outside: clock, producers of requests, futures, gate          *)

\* The timer of the DelayQueue goes off when a deadline is reached.
TimePasses ==
    /\ Tick
    /\ IF \E k \in Key : queue[k] # None /\ queue[k].deadline <= now'
       THEN Wake("timer") ELSE UNCHANGED <<woken, wakers>>
    /\ UNCHANGED <<runnerState, phase>>

Send(r) == SendRequest(r) /\ Wake("requests") /\ UNCHANGED <<runnerState, phase>>

Close == CloseRequests /\ Wake("requests") /\ UNCHANGED <<runnerState, phase>>

\* A future completes; one that was spawned can do so before it is first polled.
FinishMessage(m) ==
    /\ slots[m] = "running"
    /\ slots' = [slots EXCEPT ![m] = "done"]
    /\ Wake(m)
    /\ UNCHANGED <<now, requests, closed, state, gate, is_ready_to_execute, stopped,
                   has_active_slots, phase>>

ResolveGate(outcome) ==
    /\ gate = "waiting"
    /\ gate' = outcome
    /\ Wake("gate")
    /\ UNCHANGED <<now, requests, closed, state, slots, is_ready_to_execute, stopped,
                   has_active_slots, phase>>

Env == \/ TimePasses \/ Close
       \/ \E r \in ScheduleRequest : Send(r)
       \/ \E m \in Message : FinishMessage(m)
       \/ \E outcome \in {"ok", "err"} : ResolveGate(outcome)

Next == PollNext \/ PollStep \/ Env

Spec == Init /\ [][Next]_vars

\* A woken task is polled and a poll runs to its end (the executor); time passes;
\* reconcilers return and the gate resolves (what the user's code owes).
Fairness == /\ WF_vars(woken /\ PollNext)
            /\ WF_vars(PollStep)
            /\ WF_vars(TimePasses)
            /\ \A m \in Message : WF_vars(FinishMessage(m))
            /\ WF_vars(\E outcome \in {"ok", "err"} : ResolveGate(outcome))

FairSpec == Spec /\ Fairness

-----------------------------------------------------------------------------
\* The type of every variable, the locals of poll_next included.
TypeOK == /\ SchedulerTypeOK
          /\ slots \in [Message -> {"empty", "running", "done"}]
          /\ gate \in {"waiting", "ok", "err", "fused"}
          /\ is_ready_to_execute \in BOOLEAN
          /\ stopped \in BOOLEAN
          /\ has_active_slots \in BOOLEAN
          /\ phase \in {"idle", "slots", "gate", "requests", "pop", "terminated", "panicked"}
          /\ woken \in BOOLEAN
          /\ wakers \in SUBSET Sources

\* The assert! in poll_next ("Runner tried to replace a running future") never
\* fires: equal messages are never run at the same time, whatever is requested
\* while one of them runs.
NeverReplacesRunning == phase # "panicked"

\* Nothing is started before the gate has opened, and a gate that fails stops a
\* Runner that has nothing running: Error::Readiness drops no future.
ReadinessGate == Active # {} => is_ready_to_execute /\ gate = "fused" /\ ~stopped

\* A message leaves the Scheduler in one way only: its future is started, in a slot
\* that was free.  No request is forgotten or merged away.
ConsumedOnlyByStart ==
    [][\A m \in Message : Due[m] # None /\ Due'[m] = None
                            => slots[m] = "empty" /\ slots'[m] # "empty"]_vars

\* A Runner that sleeps (not in a poll and not woken) has nothing it could do: no
\* unread request or end of requests, no finished future, no resolved gate, no
\* message it could start.  Each of these must have left a waker behind.
NoLostWakeup ==
    phase = "idle" /\ ~woken =>
      /\ requests = <<>>
      /\ closed => Active # {}
      /\ Finished = {}
      /\ gate \in {"waiting", "fused"}
      /\ ~closed => NothingToTake(CanTake)

\* `has_active_slots` is read before the loop of a poll starts futures, so a poll that
\* begins with nothing running and sees the end of the requests ends the stream even if it
\* started futures itself.  Those, which no poll has reached yet, are the only ones that the
\* end can drop: a future that was polled once is waited for.
PolledFuturesSurvive == phase = "terminated" => Active \cap wakers = {}

\* A future is never replaced while it runs, and once it has been polled it is never
\* dropped.  The Controller's futures are spawned when they are started, so one that the
\* end drops unpolled is aborted ("All running reconciliations are allowed to finish",
\* controller/mod.rs, does not hold for it).
FuturesAreKept == NeverReplacesRunning /\ PolledFuturesSurvive

\* Every message that is due gets started, unless the requests end or the gate
\* fails first.  The drain loop has no budget, so this needs polls that return:
\* requests must not arrive faster than they are drained, forever.
DueMessagesRun ==
    []<>(phase \in {"idle", "terminated"}) =>
      \A m \in Message : [](Due[m] # None => <>(Due[m] = None \/ closed \/ stopped))

\* Once the requests have ended the stream ends too (graceful shutdown completes),
\* given that the running futures finish.
EndsAfterRequests == closed ~> phase = "terminated"
=============================================================================
