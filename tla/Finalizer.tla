------------------------------ MODULE Finalizer -----------------------------
(***************************************************************************)
(* kube-runtime/src/finalizer.rs: the protocol by which a reconciler owns  *)
(* a finalizer of an object, run by one controller (finalizer_name must be *)
(* unique) against a server that other writers use as well.                *)
(*                                                                         *)
(* `finalizer` keeps no state.  It is called with the object as the        *)
(* reflector's store has it, which may be behind the server but never goes *)
(* back (Reflector, NeverGoesBack), awaits the user's Apply or Cleanup and *)
(* sends at most one patch.  Between any two of these points the future    *)
(* may be dropped (a crash), and a request may fail, be lost or have its   *)
(* answer lost.  A patch that was sent outlives the call that sent it: the *)
(* server may handle it at any later time.                                 *)
(***************************************************************************)
EXTENDS Naturals, Sequences, SequencesExt

CONSTANTS Name,         \* finalizer_name
          Other,        \* a finalizer that belongs to another controller
          MaxWrites,    \* bound on deletions, creations and finalizers of others
          MaxLate,      \* bound on the patches that are on their way without a caller
          Preset        \* the finalizers that users may list when they create the object

ASSUME FinalizerAssumption ==
    Name # Other /\ MaxWrites \in Nat /\ MaxLate \in Nat /\ Preset \subseteq {Name, Other}

VARIABLES versions,     \* the versions of the object at the server, the last is current
          writes,       \* how many of the bounded writes there were
          cached,       \* the version the store holds
          due,          \* a reconciliation of the object is due
          pc,           \* where `finalizer` stands: "idle", "applying", "cleaning", "patching"
          obj,          \* the version it was called with
          inflight,     \* the patches on their way: [op, obj, late], where late is 0 while
                        \* the call that sent the patch awaits its answer
          dirty,        \* history: uids with an Apply started and no Cleanup done since
          stripped      \* history: uids whose finalizer went with a patch that was made for
                        \* an earlier incarnation, and did not come back

vars == <<versions, writes, cached, due, pc, obj, inflight, dirty, stripped>>

\* One version of the object: an incarnation, its finalizers, whether it is there
\* and whether its deletion was asked for.
Object(uid, fins, deleting) ==
    [uid |-> uid, finalizers |-> fins, deleting |-> deleting,
     exists |-> ~deleting \/ fins # <<>>]

Current == versions[Len(versions)]
FinalizerLists == {<<>>} \cup {<<f>> : f \in Preset}

Init ==
    /\ \E fins \in FinalizerLists : versions = <<Object(1, fins, FALSE)>>
    /\ writes = 0
    /\ cached = 1
    /\ due = TRUE
    /\ pc = "idle"
    /\ obj = 1
    /\ inflight = {}
    /\ dirty = {}
    /\ stripped = {}

-----------------------------------------------------------------------------
(* The server and its other users.  External.                              *)

Store(o) == versions' = Append(versions, o)

Budget == writes < MaxWrites /\ writes' = writes + 1

Delete ==
    /\ Budget
    /\ Current.exists /\ ~Current.deleting
    /\ Store(Object(Current.uid, Current.finalizers, TRUE))

Recreate ==
    /\ Budget
    /\ ~Current.exists
    /\ \E fins \in FinalizerLists : Store(Object(Current.uid + 1, fins, FALSE))

\* Another controller; the server accepts no new finalizer on a deleting object.
AddOther ==
    /\ Budget
    /\ Current.exists /\ ~Current.deleting
    /\ ~Contains(Current.finalizers, Other)
    /\ \E fins \in {Current.finalizers \o <<Other>>, <<Other>> \o Current.finalizers} :
         Store(Object(Current.uid, fins, FALSE))

RemoveOther ==
    /\ UNCHANGED writes
    /\ \E i \in 1..Len(Current.finalizers) :
         /\ Current.finalizers[i] = Other
         /\ Store(Object(Current.uid, RemoveAt(Current.finalizers, i), Current.deleting))

Server == /\ Delete \/ Recreate \/ AddOther \/ RemoveOther
          /\ UNCHANGED <<cached, due, pc, obj, inflight, dirty, stripped>>

\* A watch event reaches the store and triggers a reconciliation.
WatchCatchesUp(v) ==
    /\ v \in (cached + 1)..Len(versions)
    /\ cached' = v
    /\ due' = TRUE
    /\ UNCHANGED <<versions, writes, pc, obj, inflight, dirty, stripped>>

-----------------------------------------------------------------------------
(* finalizer                                                               *)

Sent(op, version) == [op |-> op, obj |-> version, late |-> 0]

HasFinalizer(o) == Contains(o.finalizers, Name)
finalizer_index(o) == CHOOSE i \in 1..Len(o.finalizers) :
                        /\ o.finalizers[i] = Name
                        /\ \A j \in 1..(i - 1) : o.finalizers[j] # Name

\* The controller calls `finalizer`; an object that is gone is not reconciled.
Called(has_finalizer, is_deleting) ==
    /\ pc = "idle"
    /\ due
    /\ versions[cached].exists
    /\ HasFinalizer(versions[cached]) = has_finalizer
    /\ versions[cached].deleting = is_deleting
    /\ due' = FALSE
    /\ obj' = cached

CallApply ==
    /\ Called(TRUE, FALSE)
    /\ pc' = "applying"
    /\ dirty' = dirty \cup {versions[cached].uid}
    /\ UNCHANGED <<versions, writes, cached, inflight, stripped>>

CallCleanup ==
    /\ Called(TRUE, TRUE)
    /\ pc' = "cleaning"
    /\ UNCHANGED <<versions, writes, cached, inflight, dirty, stripped>>

\* "Finalizer must be added before it's safe to run an `Apply` reconciliation"
AddFinalizer ==
    /\ Called(FALSE, FALSE)
    /\ pc' = "patching"
    /\ inflight' = inflight \cup {Sent("add", cached)}
    /\ UNCHANGED <<versions, writes, cached, dirty, stripped>>

\* "Our work here is done": await_change
NothingToDo ==
    /\ Called(FALSE, TRUE)
    /\ UNCHANGED <<versions, writes, cached, pc, inflight, dirty, stripped>>

\* The user's Apply returns an Action, which may ask for a requeue, or an error, for
\* which the error policy asks for one.
ApplyReturns ==
    /\ pc = "applying"
    /\ pc' = "idle"
    /\ due' \in {due, TRUE}
    /\ UNCHANGED <<versions, writes, cached, obj, inflight, dirty, stripped>>

CleanupFails_RemovesAnyway ==
    /\ pc = "cleaning"
    /\ pc' = "patching"
    /\ inflight' = inflight \cup {Sent("remove", obj)}
    /\ UNCHANGED <<versions, writes, cached, due, obj, dirty, stripped>>

\* "Short-circuit, so that we keep the finalizer if cleanup fails"
CleanupFails ==
    /\ pc = "cleaning"
    /\ pc' = "idle"
    /\ due' = TRUE
    /\ UNCHANGED <<versions, writes, cached, obj, inflight, dirty, stripped>>

CleanupSucceeds_KeepsFinalizer ==
    /\ pc = "cleaning"
    /\ pc' = "idle"
    /\ dirty' = dirty \ {versions[obj].uid}
    /\ UNCHANGED <<versions, writes, cached, due, obj, inflight, stripped>>

CleanupSucceeds ==
    /\ pc = "cleaning"
    /\ pc' = "patching"
    /\ dirty' = dirty \ {versions[obj].uid}
    /\ inflight' = inflight \cup {Sent("remove", obj)}
    /\ UNCHANGED <<versions, writes, cached, due, obj, stripped>>

\* The Test operation of the patch that adds: the list is the one that was read.  (An
\* empty list is tested as null.)
TestAdd(p) == Current.finalizers = versions[p.obj].finalizers

TestRemove_InRange(p) == finalizer_index(versions[p.obj]) <= Len(Current.finalizers)

\* The Test operation of the patch that removes: the entry at the index is ours.
TestRemove(p) ==
    LET i == finalizer_index(versions[p.obj]) IN
    i <= Len(Current.finalizers) /\ Current.finalizers[i] = Name

PatchAdd(p) ==
    /\ p.op = "add"
    /\ Current.exists /\ ~Current.deleting
    /\ TestAdd(p)
    /\ Store(Object(Current.uid, Append(Current.finalizers, Name), FALSE))
    /\ stripped' = stripped \ {Current.uid}

PatchRemove(p) ==
    /\ p.op = "remove"
    /\ Current.exists
    /\ TestRemove(p)
    /\ Store(Object(Current.uid,
                    RemoveAt(Current.finalizers, finalizer_index(versions[p.obj])),
                    Current.deleting))
    /\ stripped' = IF versions[p.obj].uid = Current.uid THEN stripped
                   ELSE stripped \cup {Current.uid}

\* The server refuses: a test failed, the object is gone, or some other error.
PatchRefused(p) == UNCHANGED <<versions, stripped>>

Awaited(p) == p.late = 0

\* The server handles a patch.  If `finalizer` is still waiting for it, it returns:
\* with await_change after an add, with Cleanup's Action after a removal, with an
\* error (and the error policy's requeue) if the patch failed or the answer was lost.
ServerHandles(p) ==
    /\ \/ (PatchAdd(p) \/ PatchRemove(p)) /\ due' \in {due, due \/ Awaited(p)}
       \/ PatchRefused(p) /\ due' = (due \/ Awaited(p))
    /\ inflight' = inflight \ {p}
    /\ pc' = IF Awaited(p) THEN "idle" ELSE pc
    /\ UNCHANGED <<writes, cached, obj, dirty>>

\* The patches whose callers are gone
Late == {p \in inflight : ~Awaited(p)}

\* What becomes of the patch that is awaited when its caller goes: it is lost, or it stays
\* on its way.
Orphan ==
    \/ inflight' = Late
    \/ \E n \in 1..MaxLate :
         /\ \A p \in Late : p.late # n
         /\ inflight' = Late \cup {[p EXCEPT !.late = n] : p \in inflight \ Late}

\* The client gives up on a patch that is not answered, or crashes at any of its await
\* points; after the restart the object is listed and reconciled.
Interrupted ==
    /\ pc # "idle"
    /\ pc' = "idle"
    /\ due' = TRUE
    /\ Orphan
    /\ UNCHANGED <<versions, writes, cached, obj, dirty, stripped>>

Reconciler == \/ CallApply \/ CallCleanup \/ AddFinalizer \/ NothingToDo
              \/ ApplyReturns \/ CleanupFails \/ CleanupSucceeds \/ Interrupted

Next == \/ Server \/ Reconciler
        \/ \E v \in 1..Len(versions) : WatchCatchesUp(v)
        \/ \E p \in inflight : ServerHandles(p)

Spec == Init /\ [][Next]_vars

\* The controller reconciles what is due, the store catches up, other controllers give
\* their finalizers back, and what is tried for ever (Cleanup, a patch that could
\* apply) succeeds in the end.
Fairness ==
    /\ WF_vars(CallApply \/ CallCleanup \/ AddFinalizer \/ NothingToDo)
    /\ WF_vars(ApplyReturns)
    /\ SF_vars(CleanupSucceeds)
    /\ SF_vars(\E p \in inflight : PatchRemove(p) /\ ServerHandles(p))
    /\ WF_vars(\E p \in inflight : ServerHandles(p))
    /\ WF_vars(RemoveOther /\ Server)
    /\ WF_vars(WatchCatchesUp(Len(versions)))

FairSpec == Spec /\ Fairness

-----------------------------------------------------------------------------
\* "If Event::Apply is ever started then Event::Cleanup must succeed before the
\* Kubernetes object deletion completes": an incarnation that is gone had a Cleanup
\* that succeeded after the last Apply was started, whatever crashed, was lost or came
\* late.  One case is out of the protocol's hands: the patch that removes tests the name
\* at an index and not the uid, so one that outlived its incarnation can take the
\* finalizer of the next.  Nothing else may let an object go uncleaned.
CleanedBeforeGone == \A u \in dirty \ stripped : Current.exists /\ Current.uid = u

\* "`Test` ensures that we fail instead of deleting someone else's finalizer": no patch
\* takes a finalizer of another controller away, wherever indices have moved.
OthersAreKept ==
    [][\A p \in inflight : ServerHandles(p) /\ Contains(Current.finalizers, Other)
                             => Contains(Current.finalizers', Other)]_vars

\* The deletion of an object on which Cleanup succeeds when retried completes; no
\* await_change waits for a change that never comes.
DeletionCompletes == Current.deleting ~> ~Current.exists
=============================================================================
