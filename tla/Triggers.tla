------------------------------ MODULE Triggers ------------------------------
(***************************************************************************)
(* The trigger streams of a Controller (kube-runtime/src/controller/mod.rs)*)
(* as Controller::run polls them: new, owns, watches, reconcile_on and     *)
(* reconcile_all_on each push a stream into one SelectAll, and run puts    *)
(* one StreamBackoff around it, so that all of them pause when any fails.  *)
(*                                                                         *)
(* SelectAll (futures, external) keeps its streams in a FuturesUnordered:  *)
(* only streams that were woken are polled, in the order in which they     *)
(* were; one that yields an item goes to the end of the line, one that is  *)
(* Pending leaves it until it is woken, one that ends is dropped.          *)
(***************************************************************************)
EXTENDS StreamBackoff, Sequences, FiniteSets, SequencesExt

CONSTANT Stream            \* the streams in trigger_selector

VARIABLES offers,          \* what a stream has to yield: "none", "Ok", "Err", "End"; "gone"
          line             \* the streams that were woken

streams == <<offers, line>>
tvars == <<now, state, deadline, interval, last_backoff, yielded, quiet_until, streak, last_error,
           offers, line>>

\* trigger_selector.push: a stream that is new to SelectAll is polled at least once.
TInit == /\ BackoffInit
         /\ offers = [s \in Stream |-> "none"]
         /\ line \in SetToSeqs(Stream)

First(s) == line # <<>> /\ Head(line) = s

\* A watch, or another stream, gets something to yield and wakes its task.
Offer(s, item) ==
    /\ offers[s] = "none"
    /\ offers' = [offers EXCEPT ![s] = item]
    /\ line' = IF s \in ToSet(line) THEN line ELSE Append(line, s)
    /\ UNCHANGED <<now, state, deadline, interval, last_backoff, yielded, history>>

-----------------------------------------------------------------------------
(* poll_next of SelectAll, called by StreamBackoff                         *)

Requeued_First(s) == line

Requeued(s) == Append(Tail(line), s)

Take(s) == offers' = [offers EXCEPT ![s] = "none"] /\ line' = Requeued(s)

YieldsOk(s) == First(s) /\ offers[s] = "Ok" /\ Take(s) /\ InnerReady /\ yielded' = "Ok"

YieldsErr(s) ==
    /\ First(s)
    /\ offers[s] = "Err"
    /\ Take(s)
    /\ \/ \E delay \in 0..(2 * IntervalNow) : InnerErr(delay)
       \/ InnerErr_GivesUp

\* The loop goes on with the next stream in line.
Skips(s) ==
    /\ PollsInner
    /\ First(s)
    /\ offers[s] = "none"
    /\ line' = Tail(line)
    /\ Stay
    /\ UNCHANGED <<now, interval, last_backoff, yielded, offers, history>>

\* "If a Stream is terminated (by emitting None) then the Controller keeps running, but the
\* Stream stops being polled"
Drops(s) ==
    /\ PollsInner
    /\ First(s)
    /\ offers[s] = "End"
    /\ offers' = [offers EXCEPT ![s] = "gone"]
    /\ line' = Tail(line)
    /\ Stay
    /\ UNCHANGED <<now, interval, last_backoff, yielded, history>>

AllGone == \A s \in Stream : offers[s] = "gone"

TPoll == \/ (StillBackingOff \/ Closed) /\ UNCHANGED streams
         \/ line = <<>> /\ ~AllGone /\ InnerPending /\ UNCHANGED streams
         \/ AllGone /\ InnerReady /\ yielded' = "None" /\ UNCHANGED streams
         \/ \E s \in Stream : YieldsOk(s) \/ YieldsErr(s) \/ Skips(s) \/ Drops(s)

TNext == \/ Tick /\ UNCHANGED streams
         \/ TPoll
         \/ \E s \in Stream, item \in {"Ok", "Err", "End"} : Offer(s, item)

TSpec == TInit /\ [][TNext]_tvars

\* Time passes, and the Controller is polled.  Nothing is assumed of the streams.
TFairSpec == TSpec /\ WF_tvars(Tick /\ UNCHANGED streams) /\ WF_tvars(TPoll)

-----------------------------------------------------------------------------
\* "After any Err is emitted, the stream is paused for Backoff::next_backoff", and "given
\* up on, and closed" if there is none: until then the consumer gets nothing and no stream
\* in the selector is polled, whichever of them failed.
PausesAfterErr ==
    [][now < quiet_until => /\ yielded' \in {yielded, "Pending", "None"}
                            /\ UNCHANGED history
                            /\ \A s \in Stream : offers[s] # "none" => offers'[s] = offers[s]]_tvars

\* The pause hits every stream but starves none: what a stream has to yield, a change of
\* the store for one, comes out in the end even if another stream fails each time it is
\* polled, unless the Backoff gives up.
NoStreamStarves ==
    \A s \in Stream : (offers[s] \in {"Ok", "Err"}) ~> (offers[s] = "none" \/ state = "GivenUp")
=============================================================================
