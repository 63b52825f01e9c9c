---------------------------- MODULE AtLeastOnce ----------------------------
(***************************************************************************)
(* What the outbox promises to those who record a message: the broker gets *)
(* what was recorded, nothing else, and sooner or later.  A message that   *)
(* arrives again is no step of this specification.                         *)
(***************************************************************************)
CONSTANT Messages

VARIABLES recorded, received

vars == <<recorded, received>>

Init == recorded = {} /\ received = {}

Record(m) ==
  /\ m \notin recorded
  /\ recorded' = recorded \cup {m}
  /\ UNCHANGED received

Receive(m) ==
  /\ m \in recorded \ received
  /\ received' = received \cup {m}
  /\ UNCHANGED recorded

Next == \E m \in Messages : Record(m) \/ Receive(m)

Spec == Init /\ [][Next]_vars /\ \A m \in Messages : WF_vars(Receive(m))
=============================================================================
