----------------------------- MODULE DelayedInit ----------------------------
(***************************************************************************)
(* kube-runtime/src/utils/delayed_init.rs: a value written once and read   *)
(* by any number of tasks; Store::wait_until_ready is a read of it.        *)
(*                                                                         *)
(* Get::poll runs under the mutex, so it is one step.  Under the mutex it  *)
(* polls a oneshot receiver (futures, external), which hands its value out *)
(* once and remembers the waker of its last poll only.                     *)
(***************************************************************************)
CONSTANTS Reader,    \* tasks that call `get`
          Nobody     \* no waker

VARIABLES channel,   \* the oneshot: "open", "sent", "dropped" or, once received, "taken"
          waker,     \* the reader whose waker the channel holds
          state,     \* ReceiverState: "Waiting", or the memoized "Ok" or "Err"
          readers    \* "outside" of `get`, "asleep" (Pending was returned) or "woken"

vars == <<channel, waker, state, readers>>

Init ==
    /\ channel = "open"
    /\ waker = Nobody
    /\ state = "Waiting"
    /\ readers = [r \in Reader |-> "outside"]

\* The future is dropped, for example by a timeout around it.  The channel keeps its waker.
Cancel(r) ==
    /\ readers[r] # "outside"
    /\ readers' = [readers EXCEPT ![r] = "outside"]
    /\ UNCHANGED <<channel, waker, state>>

Return(r) == readers' = [readers EXCEPT ![r] = "outside"]

\* What the oneshot is found to hold: its value, once, or that it was canceled.
Received == IF channel = "sent" THEN "Ok" ELSE "Err"

\* ReceiverState::Waiting and the channel is not resolved: Pending.
PollPending(r) ==
    /\ state = "Waiting"
    /\ channel = "open"
    /\ waker' = r
    /\ readers' = [readers EXCEPT ![r] = "asleep"]
    /\ UNCHANGED <<channel, state>>

\* ReceiverState::Waiting and the channel is resolved: the result is memoized.
PollResolved(r) ==
    /\ state = "Waiting"
    /\ channel # "open"
    /\ state' = Received
    /\ Return(r)
    /\ channel' = "taken"
    /\ UNCHANGED waker

\* ReceiverState::Ready
PollMemoized(r) ==
    /\ state # "Waiting"
    /\ Return(r)
    /\ UNCHANGED <<channel, waker, state>>

\* Get::poll: the first of a new call, after a wake, or by a task that was woken by
\* something else (a select, a join).
Poll(r) == PollPending(r) \/ PollResolved(r) \/ PollMemoized(r)

Resolve_Quietly(outcome) ==
    /\ channel = "open"
    /\ channel' = outcome
    /\ UNCHANGED <<waker, state, readers>>

\* The sender is used up or dropped; the channel wakes the task it knows of.
Resolve(outcome) ==
    /\ channel = "open"
    /\ channel' = outcome
    /\ readers' = [r \in Reader |-> IF r = waker /\ readers[r] = "asleep"
                                    THEN "woken" ELSE readers[r]]
    /\ waker' = Nobody
    /\ UNCHANGED state

init == Resolve("sent")

DropInitializer == Resolve("dropped")

ReaderStep(r) == Cancel(r) \/ Poll(r)

Next == init \/ DropInitializer \/ \E r \in Reader : ReaderStep(r)

Spec == Init /\ [][Next]_vars
=============================================================================
