--------------------------- MODULE MCVmLifecycle ---------------------------
(* Instances of VmLifecycle for TLC.                                       *)
EXTENDS VmLifecycle, TLC

\* Handlers are interchangeable where the four kinds coincide, machines always.
HandlerSymmetry == Permutations(Handlers)
VmSymmetry == Permutations(Vms)
=============================================================================
