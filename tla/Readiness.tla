------------------------------ MODULE Readiness -----------------------------
(***************************************************************************)
(* A reflector and the tasks that wait for its store: the first event that *)
(* the Writer applies initializes the DelayedInit that every call of       *)
(* Store::wait_until_ready reads (kube-runtime/src/reflector/store.rs).    *)
(* A Controller's Runner is such a reader.                                 *)
(***************************************************************************)
EXTENDS Reflector

CONSTANTS Reader,       \* tasks that call wait_until_ready
          Nobody        \* no waker

VARIABLES channel, waker, receiver, readers,   \* of ready_rx, a DelayedInit
          dropped                              \* the Writer is gone

delayedInit == <<channel, waker, receiver, readers>>
rvars == <<log, compacted, wstate, resource_version, oldest, stream, out,
           store, ready, flat_queue, reported, channel, waker, receiver, readers, dropped>>

DI == INSTANCE DelayedInit WITH state <- receiver

RInit == Init /\ DI!Init /\ dropped = FALSE

\* ready_tx.take(): once, after the store was written
MarkReady == IF ready' /\ ~ready THEN DI!init ELSE UNCHANGED delayedInit

Polls(A) ==
    /\ ~dropped
    /\ PollWatcher(A)
    /\ MarkReady
    /\ UNCHANGED dropped

Emits == /\ ~dropped
         /\ \E item \in flat_queue : EmitQueued(item)
         /\ UNCHANGED <<delayedInit, dropped>>

\* The stream that reflector returned is dropped, and with it the Writer: before the
\* first event this resolves wait_until_ready with WriterDropped, later nobody notices.
DropWriter ==
    /\ ~dropped /\ ~ready
    /\ dropped' = TRUE
    /\ DI!DropInitializer
    /\ UNCHANGED <<serverVars, watcherVars, reflectorVars>>

ReaderSteps(r) == DI!ReaderStep(r) /\ UNCHANGED <<serverVars, watcherVars, reflectorVars, dropped>>

RNext == \/ Polls(Step)
         \/ Emits
         \/ DropWriter
         \/ Server /\ UNCHANGED <<delayedInit, dropped>>
         \/ \E r \in Reader : ReaderSteps(r)

RSpec == RInit /\ [][RNext]_rvars

\* As for Reflector; and a reader that was woken is polled.
RFairness == /\ WF_rvars(Polls(Step))
             /\ SF_rvars(Polls(\E v \in Version : ListOk(v)))
             /\ SF_rvars(Polls(WatchStarts))
             /\ \A v \in 1..MaxChanges :
                  SF_rvars(Polls(WatchEventArrives(v) \/ WatchEventUndecodable(v)))
             /\ WF_rvars(Emits)
             /\ \A r \in Reader :
                  WF_rvars(/\ readers[r] = "woken" /\ DI!Poll(r)
                           /\ UNCHANGED <<serverVars, watcherVars, reflectorVars, dropped>>)

RFairSpec == RSpec /\ RFairness

-----------------------------------------------------------------------------
\* When the server falls quiet the store reaches its final state and stays there, unless
\* the reflector is dropped, or that state has objects that the client cannot decode:
\* every list fails on those.  Versions that expire meanwhile (410 Gone) do not stop it.
Converges == <>[](~dropped /\ Decodes => ready /\ IsSnapshot(store, LastVersion))

\* A reader returns Ok only from a store that is ready (a StoreIsSnapshot then).  "Mark as
\* ready after the first event, releasing any calls to Store::wait_until_ready()": the reader
\* that was polled last is woken by the first event or by the end of the Writer, however its
\* polls race with them and with those of the others.  The oneshot channel remembers one
\* waker, so a reader is only left asleep once another has taken its place in the channel.
ReadersAreReleased ==
    /\ [](receiver = "Ok" => ready)
    /\ \A r \in Reader : (readers[r] = "asleep" /\ waker = r)
                           ~> (readers[r] # "asleep" \/ waker \in Reader \ {r} \/ ~Decodes)
=============================================================================
