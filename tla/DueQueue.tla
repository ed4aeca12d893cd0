------------------------------ MODULE DueQueue ------------------------------
(***************************************************************************)
(* What kube_runtime::scheduler promises, without its data structures:     *)
(* every message has at most one due time, requests for a message that is  *)
(* already due only ever bring it forward, and a message is handed out     *)
(* once per due time and never early.  A message that is ripe may forget   *)
(* how long ago it became due (it is "pending" in the code): its due time  *)
(* drops to 0, the beginning of time, and no later request changes it.     *)
(***************************************************************************)
EXTENDS Naturals

CONSTANTS Message,   \* the messages that can be scheduled
          MaxTime,   \* bound on the clock
          None       \* "no due time"

VARIABLES now,       \* the clock
          due        \* due[m]: when m is to be emitted, or None

vars == <<now, due>>

Time == 0..MaxTime

Earliest(old, t) == IF old = None \/ t <= old THEN t ELSE old

Init == now = 0 /\ due = [m \in Message |-> None]

Request(m, t) ==
    /\ due' = [due EXCEPT ![m] = Earliest(@, t)]
    /\ UNCHANGED now

Ripen(m) ==
    /\ due[m] # None
    /\ due[m] <= now
    /\ due' = [due EXCEPT ![m] = 0]
    /\ UNCHANGED now

Emit(m) ==
    /\ due[m] # None
    /\ due[m] <= now
    /\ due' = [due EXCEPT ![m] = None]
    /\ UNCHANGED now

Tick == now < MaxTime /\ now' = now + 1 /\ UNCHANGED due

Next == \/ Tick
        \/ \E m \in Message : Ripen(m) \/ Emit(m) \/ \E t \in Time : Request(m, t)

Spec == Init /\ [][Next]_vars
=============================================================================
