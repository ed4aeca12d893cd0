--------------------------- MODULE StreamBackoff ----------------------------
(***************************************************************************)
(* kube-runtime/src/utils/stream_backoff.rs with the Backoff of            *)
(* backoff_reset_timer.rs around the ExponentialBackoff that DefaultBackoff*)
(* (watcher.rs) configures: a stream that pauses after each error.         *)
(*                                                                         *)
(* ExponentialBackoff (crate backoff, external): the interval doubles up   *)
(* to a maximum; with a randomization factor of 1 a delay is anything from *)
(* nothing to twice the interval.                                          *)
(***************************************************************************)
EXTENDS Naturals

CONSTANTS Initial,         \* initial_interval
          MaxInterval,     \* max_interval
          ResetDuration,   \* reset_duration
          GivesUp,         \* whether the wrapped Backoff may return None
          MaxTime,         \* bound on the clock
          MaxStreak        \* bound on the count of errors, which stays there

ASSUME BackoffAssumption ==
    /\ Initial \in Nat \ {0} /\ MaxInterval \in Nat /\ ResetDuration \in Nat /\ MaxTime \in Nat
    /\ MaxStreak \in Nat \ {0}
    /\ Initial <= MaxInterval
    /\ GivesUp \in BOOLEAN

Never == MaxTime + 1

VARIABLES now,
          state,          \* "Awake", "BackingOff" or "GivenUp"
          deadline,       \* of the Sleep of BackingOff
          interval,       \* of the ExponentialBackoff
          last_backoff,   \* of the ResetTimerBackoff, Never for None
          yielded,        \* what the last poll returned
          quiet_until,    \* history: the inner stream must not be polled before
          streak,         \* history: errors since the last pause longer than ResetDuration
          last_error      \* history: when the inner stream failed last, Never at first

history == <<quiet_until, streak, last_error>>

BackoffInit ==
    /\ now = 0
    /\ state = "Awake"
    /\ deadline = 0
    /\ interval = Initial
    /\ last_backoff = Never
    /\ yielded = "Pending"
    /\ quiet_until = 0
    /\ streak = 0
    /\ last_error = Never

Tick == /\ now < MaxTime
        /\ now' = now + 1
        /\ UNCHANGED <<state, deadline, interval, last_backoff, yielded, history>>

-----------------------------------------------------------------------------
(* ExponentialBackoff and ResetTimerBackoff                                *)

Doubled(i) == IF 2 * i > MaxInterval THEN MaxInterval ELSE 2 * i

ResetTimerExpired == last_backoff # Never /\ now > last_backoff + ResetDuration

\* The interval that next_backoff finds after its check of the timer.
IntervalNow == IF ResetTimerExpired THEN Initial ELSE interval

next_backoff ==
    /\ last_backoff' = now
    /\ interval' = Doubled(IntervalNow)

reset_Passed == interval' = Initial /\ UNCHANGED last_backoff

\* "Do not even bother trying to reset here"
reset == UNCHANGED <<interval, last_backoff>>

-----------------------------------------------------------------------------
(* StreamBackoff::poll_next                                                *)

StillBackingOff ==
    /\ state = "BackingOff" /\ now < deadline
    /\ yielded' = "Pending"
    /\ UNCHANGED <<now, state, deadline, interval, last_backoff, history>>

Closed ==
    /\ state = "GivenUp"
    /\ yielded' = "None"
    /\ UNCHANGED <<now, state, deadline, interval, last_backoff, history>>

PollsInner_Eagerly == state \in {"Awake", "BackingOff"}

\* Awake, or "Backoff complete, waking up"
PollsInner == \/ state = "Awake"
              \/ state = "BackingOff" /\ now >= deadline

Stay == UNCHANGED deadline /\ state' = "Awake"

InnerPending ==
    /\ PollsInner
    /\ yielded' = "Pending"
    /\ Stay
    /\ UNCHANGED <<now, interval, last_backoff, history>>

\* Poll::Ready(_), the end of the stream included
InnerReady ==
    /\ PollsInner
    /\ yielded' \in {"Ok", "None"}
    /\ Stay
    /\ reset
    /\ UNCHANGED <<now, history>>

Failed(until) ==
    /\ yielded' = "Err"
    /\ quiet_until' = until
    /\ streak' = IF last_error # Never /\ now > last_error + ResetDuration THEN 1
                 ELSE IF streak < MaxStreak THEN streak + 1 ELSE streak
    /\ last_error' = now

InnerErr(delay) ==
    /\ PollsInner
    /\ now + delay <= MaxTime
    /\ next_backoff
    /\ state' = "BackingOff"
    /\ deadline' = now + delay
    /\ Failed(now + delay)
    /\ UNCHANGED now

InnerErr_GivesUp ==
    /\ GivesUp
    /\ PollsInner
    /\ next_backoff
    /\ state' = "GivenUp"
    /\ Failed(Never)
    /\ UNCHANGED <<now, deadline>>

-----------------------------------------------------------------------------
\* Initial, doubled n times, at most MaxInterval
IntervalAfter[n \in Nat] == IF n = 0 THEN Initial ELSE Doubled(IntervalAfter[n - 1])

\* The count of errors goes on for as long as the interval grows.
ASSUME StreakAssumption == IntervalAfter[MaxStreak] = MaxInterval

\* How slow the stream gets is decided by errors alone: items in between do not speed
\* it up again, only a pause longer than ResetDuration between two errors does.
SlowedByStreak == interval = IntervalAfter[streak]
=============================================================================
