---------------------------- MODULE MCSupervisor ----------------------------
(* Instances of Supervisor for TLC. *)
EXTENDS Supervisor, TLC

CONSTANTS p1, p2, p3, p4

TwoSlots == {p1, p2}
ThreeSlots == {p1, p2, p3}
FourSlots == {p1, p2, p3, p4}

AnyBuild == {"abort", "stall"}
AbortingBuild == {"abort"}

\* The slots are interchangeable; only used where no liveness is checked.
SlotSymmetry == Permutations(Procs)
=============================================================================
