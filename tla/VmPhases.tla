------------------------------ MODULE VmPhases ------------------------------
(***************************************************************************)
(* What the status of a machine promises, with the twelve statuses of the  *)
(* table folded into the phases a user tells apart: a machine is being     *)
(* provisioned, then usable, and once it is on its way out it never comes  *)
(* back.  VmLifecycle implements this when one handler runs at a time (see *)
(* VmLifecycleProofs), and not otherwise.                                  *)
(***************************************************************************)
CONSTANT Vms

VARIABLE phase

Phase == {"absent", "provisioning", "usable", "leaving", "gone"}

Init == phase = [v \in Vms |-> "absent"]

Move(v, from, to) ==
  /\ phase[v] \in from
  /\ phase' = [phase EXCEPT ![v] = to]

Create(v)  == Move(v, {"absent"}, "provisioning")
Provide(v) == Move(v, {"provisioning"}, "usable")
\* The owner may ask again for the destruction of a machine that is gone.
Retire(v)  == Move(v, Phase \ {"absent"}, "leaving")
Remove(v)  == Move(v, {"leaving"}, "gone")

Next == \E v \in Vms : Create(v) \/ Provide(v) \/ Retire(v) \/ Remove(v)

Spec == Init /\ [][Next]_phase
=============================================================================
