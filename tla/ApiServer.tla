------------------------------ MODULE ApiServer -----------------------------
(***************************************************************************)
(* The Kubernetes API server as kube-runtime's watcher sees it.  External: *)
(* it is not code of this repository.  One collection is modelled by the   *)
(* log of its changes; the resource version of a change is its index.      *)
(* Changes of other collections move the version on without producing an   *)
(* event for this one.  Versions below `compacted` have left the watch     *)
(* window: a watch can no longer start there.                              *)
(***************************************************************************)
EXTENDS Naturals, Sequences

CONSTANTS Object,        \* the objects of the watched collection
          Foreign,       \* stands for the objects of every other collection
          Decodable,     \* {TRUE}, or {TRUE, FALSE} if some objects do not have
                         \* the shape that the client's type expects
          MaxChanges     \* bound on the length of the log

ASSUME ServerAssumption == /\ Foreign \notin Object
                           /\ Decodable \subseteq BOOLEAN
                           /\ MaxChanges \in Nat

VARIABLES log,           \* sequence of changes
          compacted      \* versions below this one are gone

serverVars == <<log, compacted>>

Change == [obj : Object, deleted : BOOLEAN, decodable : Decodable]
          \cup [obj : {Foreign}, deleted : {FALSE}, decodable : {TRUE}]

LastVersion == Len(log)
Version == 0..LastVersion
Absent == 0

\* i is the last change of o at or below version v.
IsLast(o, v, i) ==
    /\ i \in 1..v
    /\ log[i].obj = o
    /\ \A j \in (i + 1)..v : log[j].obj # o

\* x is what the collection holds for o at version v: the version of the change that
\* last wrote o, or Absent.
ObjectAt(o, v, x) ==
    IF x = Absent THEN \A i \in 1..v : IsLast(o, v, i) => log[i].deleted
                  ELSE IsLast(o, v, x) /\ ~log[x].deleted

\* What a LIST at version v returns.
IsSnapshot(items, v) == \A o \in Object : ObjectAt(o, v, items[o])

\* i is the first change after v that a watch of the collection reports.
IsNextEvent(v, i) ==
    /\ i \in (v + 1)..LastVersion
    /\ log[i].obj # Foreign
    /\ \A j \in (v + 1)..(i - 1) : log[j].obj = Foreign

ServerInit == log = <<>> /\ compacted = 0

Write(c) ==
    /\ Len(log) < MaxChanges
    /\ c.deleted => ~ObjectAt(c.obj, LastVersion, Absent)
    /\ log' = Append(log, c)
    /\ UNCHANGED compacted

Compact(v) ==
    /\ v \in (compacted + 1)..LastVersion
    /\ compacted' = v
    /\ UNCHANGED log
=============================================================================
