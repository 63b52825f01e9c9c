---------------------------- MODULE OneTerraform ----------------------------
(***************************************************************************)
(* What the Jobs of one machine promise together: the cloud looks as if    *)
(* terraform ran one command at a time, each with the state that the one   *)
(* before it left, however many Jobs run, are deleted and retried.  Only a *)
(* command that is ended before it records what it made leaves a machine   *)
(* that no later command knows.                                            *)
(***************************************************************************)
CONSTANT Machines   \* the names of machines

VARIABLES
  exists,  \* the machines in the cloud
  known    \* those of them that the next command knows

Init == exists = {} /\ known = {}

\* A CREATE makes a machine under a new name, and only if it knows of none.
Make(m) ==
  /\ m \notin exists
  /\ known = {}
  /\ exists' = exists \cup {m}
  /\ known' = {m}

\* A DESTROY removes what it knows, and nothing else.
Remove ==
  /\ exists' = exists \ known
  /\ known' = {}

Orphan(m) ==
  /\ m \in known
  /\ known' = known \ {m}
  /\ UNCHANGED exists

Next == Remove \/ \E m \in Machines : Make(m) \/ Orphan(m)

Spec == Init /\ [][Next]_<<exists, known>>
=============================================================================
