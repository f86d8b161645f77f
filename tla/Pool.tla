-------------------------------- MODULE Pool --------------------------------
(***************************************************************************)
(* What the pre-forked pool promises, whatever its master does to keep it: *)
(* at most Size processes at any time, a client is taken by one worker, a  *)
(* worker takes one client in its life, no slot is used again before its   *)
(* dead worker is reaped, and nobody is hired or waits anew after the      *)
(* shutdown.  Supervisor is shown to implement it.                         *)
(***************************************************************************)
EXTENDS Integers, FiniteSets

CONSTANTS
    Slots,      \* the slots of the process table
    Size        \* the most processes there may be

VARIABLES
    open,       \* the service was not shut down
    slot,       \* what each slot holds
    waiting     \* clients nobody has taken yet

vars == <<open, slot, waiting>>

SlotStates == {"free", "idle", "busy", "spent", "dead"}

Alive(p) == slot[p] \in {"idle", "busy", "spent"}
Taken == {p \in Slots : slot[p] # "free"}

Init ==
    /\ open = TRUE
    /\ slot = [p \in Slots |-> "free"]
    /\ waiting = 0

Hire(p) ==
    /\ open
    /\ slot[p] = "free"
    /\ Cardinality(Taken) < Size
    /\ slot' = [slot EXCEPT ![p] = "idle"]
    /\ UNCHANGED <<open, waiting>>

Take(p) ==
    /\ slot[p] = "idle"
    /\ waiting > 0
    /\ slot' = [slot EXCEPT ![p] = "busy"]
    /\ waiting' = waiting - 1
    /\ UNCHANGED open

Finish(p) ==
    /\ slot[p] = "busy"
    /\ slot' = [slot EXCEPT ![p] = "spent"]
    /\ UNCHANGED <<open, waiting>>

\* The dead are kept until they are reaped; after the shutdown init reaps them.
Die(p) ==
    /\ Alive(p)
    /\ slot' = [slot EXCEPT ![p] = IF open THEN "dead" ELSE "free"]
    /\ UNCHANGED <<open, waiting>>

Reap(p) ==
    /\ open
    /\ slot[p] = "dead"
    /\ slot' = [slot EXCEPT ![p] = "free"]
    /\ UNCHANGED <<open, waiting>>

Arrive ==
    /\ open
    /\ waiting' = waiting + 1
    /\ UNCHANGED <<open, slot>>

Shutdown ==
    /\ open
    /\ open' = FALSE
    /\ slot' = [p \in Slots |-> IF slot[p] = "dead" THEN "free" ELSE slot[p]]
    /\ UNCHANGED waiting

Next ==
    \/ \E p \in Slots : Hire(p) \/ Take(p) \/ Finish(p) \/ Die(p) \/ Reap(p)
    \/ Arrive
    \/ Shutdown

Spec == Init /\ [][Next]_vars
=============================================================================
