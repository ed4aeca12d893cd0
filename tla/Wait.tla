-------------------------------- MODULE Wait --------------------------------
(***************************************************************************)
(* kube-runtime/src/wait.rs: one call of delete_and_finalize, which        *)
(* deletes an object and awaits, with watch_object, that it is gone, while *)
(* the controller of module Finalizer, which must run its Cleanup first,   *)
(* and everyone else go on.  The object may be created again before the    *)
(* watch reports that it was gone.                                         *)
(***************************************************************************)
EXTENDS Finalizer

VARIABLES stage,      \* of the call: called, waiting, Ok, Err
          uid,        \* deleted_obj_uid
          seen        \* the version that watch_object reported last, 0 if none

waitVars == <<stage, uid, seen>>
allVars == <<versions, writes, cached, due, pc, obj, inflight, dirty, stripped, stage, uid, seen>>

WaitInit ==
    /\ Init
    /\ stage = "called"
    /\ uid = 0
    /\ seen = 0

-----------------------------------------------------------------------------
(* watch_object and the conditions                                         *)

\* What the stream emits for a version of the object: none if it is not there
Emitted(v) == IF versions[v].exists THEN {versions[v]} ELSE {}

Found(o, u) == o # {} /\ \A x \in o : x.uid = u

is_deleted_NotFound(o, u) == o = {}

\* conditions::is_deleted
is_deleted(o, u) == ~Found(o, u)

InitialList_Any == 1..Len(versions)

\* The version of the first event, a Restarted: the watcher's list is the most recent one
InitialList == {Len(versions)}

\* The version of a later event: the next one, or that of a list if the watch expired
LaterEvent == {v \in {seen + 1, Len(versions)} : v \in (seen + 1)..Len(versions)}

-----------------------------------------------------------------------------
(* delete_and_finalize                                                     *)

Quiet == UNCHANGED <<cached, due, pc, obj, inflight, dirty, stripped>>

\* Api::delete of the object; again if it is being deleted already.  The answer holds the uid
\* of the object, in its metadata or in the details of a Status.
DeleteObject ==
    /\ stage = "called"
    /\ Current.exists
    /\ \/ Current.deleting /\ UNCHANGED <<versions, writes>>
       \/ Delete
    /\ stage' = "waiting"
    /\ uid' = Current.uid
    /\ UNCHANGED seen
    /\ Quiet

\* The request fails, the object is not there, or the answer is lost or has no uid
DeleteFails ==
    /\ stage = "called"
    /\ \/ UNCHANGED <<versions, writes>>
       \/ Delete
    /\ stage' = "Err"
    /\ UNCHANGED <<uid, seen>>
    /\ Quiet

\* await_condition skips what does not match, and ends with the first that does
AwaitCondition ==
    /\ stage = "waiting"
    /\ \E v \in IF seen = 0 THEN InitialList ELSE LaterEvent :
          /\ seen' = v
          /\ stage' = IF is_deleted(Emitted(v), uid) THEN "Ok" ELSE "waiting"
    /\ UNCHANGED <<uid, versions, writes>>
    /\ Quiet

\* The watcher reports an error, which it would recover from, and await_condition fails
ProbeFailed ==
    /\ stage = "waiting"
    /\ stage' = "Err"
    /\ UNCHANGED <<uid, seen, versions, writes>>
    /\ Quiet

WaitNext ==
    \/ DeleteObject \/ DeleteFails \/ AwaitCondition \/ ProbeFailed
    \/ Next /\ UNCHANGED waitVars

\* Finalizer's fairness, and a caller that polls what it awaits
WaitSpec ==
    /\ WaitInit
    /\ [][WaitNext]_allVars
    /\ Fairness
    /\ WF_allVars(AwaitCondition)

-----------------------------------------------------------------------------
\* "Delete an object, and wait for it to be removed from the Kubernetes API (including waiting
\* for all finalizers to unregister themselves)": after Ok the incarnation that was deleted is
\* gone for good and its Cleanup has succeeded (but for the case of CleanedBeforeGone), although
\* what the watch reports may be old, and the object may be there again.
FinalizedMeansGone ==
    stage = "Ok" => ~(Current.exists /\ Current.uid = uid) /\ uid \notin dirty \ stripped

\* The deletion completes, and delete_and_finalize returns, also if the object is created
\* again before anyone saw that it was gone.
FinalizeReturns == DeletionCompletes /\ (stage = "waiting" ~> stage \in {"Ok", "Err"})
=============================================================================
