------------------------------ MODULE VmQuota ------------------------------
(***************************************************************************)
(* The quota of machines per user: startVmProvisioning                     *)
(* (rest/src/services/vmService.ts) counts the user's active machines,     *)
(* reads the key, the template and the provider, and only then inserts the *)
(* machine.  Requests of one user, on either replica, interleave between   *)
(* the count and the insert.                                               *)
(*                                                                         *)
(* A row is RUNNING, DESTROYED or in one of the OTHER statuses, which      *)
(* neither the count nor the deletion of a profile tells apart (UNKNOWN,   *)
(* STOPPED and SHUTDOWN are not among them: StaysCounted in VmLifecycle).  *)
(* The handlers of log lines and callbacks are folded into their last      *)
(* statement, which overwrites the row with a status computed from a read  *)
(* of any age; VmLifecycle has them step by step.                          *)
(* Accounts adds the users.                                                *)
(***************************************************************************)
EXTENDS Integers, FiniteSets

CONSTANTS
  Users,     \* owners of machines
  Vms,       \* machine ids
  Requests,  \* create requests that may be in progress at the same time
  Quota,     \* VM_QUOTA_PER_USER
  NoUser     \* the user of an idle request

ASSUME ConstantsAssumption ==
  /\ IsFiniteSet(Vms)
  /\ IsFiniteSet(Requests) /\ Requests # {}
  /\ Quota \in Nat
  /\ NoUser \notin Users

VARIABLES
  vm,       \* per machine its owner and status
  request,  \* per request the user whose quota it found sufficient
  asked     \* machines with a row that somebody asked to destroy, once at least

vars == <<vm, request, asked>>

NotCreated == "NOT_CREATED"
Removed    == "REMOVED"
Status     == {"OTHER", "RUNNING", "DESTROYED"}

Row == [owner : Users, status : Status]
         \cup [owner : {NoUser}, status : {NotCreated, Removed}]

NoRow      == [owner |-> NoUser, status |-> NotCreated]
RemovedRow == [owner |-> NoUser, status |-> Removed]

InStatus(u, statuses) == {v \in Vms : vm[v].owner = u /\ vm[v].status \in statuses}

\* DESTROYED machines are not counted, those on their way there are.
Active(u) == InStatus(u, Status \ {"DESTROYED"})
\* Nobody asked to destroy them, whatever the status.
InUse(u)  == {v \in Vms : vm[v].owner = u /\ v \notin asked}

\* The requests that found the quota sufficient and have not inserted yet.
Granted(u) == {h \in Requests : request[h] = u}

remainingQuota(u) == Quota - Cardinality(Active(u))

-----------------------------------------------------------------------------
Init ==
  /\ vm = [v \in Vms |-> NoRow]
  /\ request = [h \in Requests |-> NoUser]
  /\ asked = {}

\* Mutant: a user may be one machine over the quota.
QuotaOffByOne(h, u) ==
  /\ request[h] = NoUser
  /\ remainingQuota(u) >= 0
  /\ request' = [request EXCEPT ![h] = u]
  /\ UNCHANGED <<vm, asked>>

\* Up to the transaction.
startVmProvisioning(h, u) ==
  /\ request[h] = NoUser
  /\ remainingQuota(u) > 0
  /\ request' = [request EXCEPT ![h] = u]
  /\ UNCHANGED <<vm, asked>>

\* Mutant: the machine belongs to nobody.
CreateVmWithoutOwner(h, v) ==
  /\ request[h] # NoUser
  /\ vm[v] = NoRow
  /\ vm' = [vm EXCEPT ![v].status = "OTHER"]
  /\ request' = [request EXCEPT ![h] = NoUser]
  /\ UNCHANGED asked

createVmInTransaction(h, v) ==
  /\ request[h] # NoUser
  /\ vm[v] = NoRow
  /\ vm' = [vm EXCEPT ![v] = [owner |-> request[h], status |-> "OTHER"]]
  /\ request' = [request EXCEPT ![h] = NoUser]
  /\ UNCHANGED asked

\* A missing key or template, a failed statement, or the end of the replica.
CreateFails(h) ==
  /\ request[h] # NoUser
  /\ request' = [request EXCEPT ![h] = NoUser]
  /\ UNCHANGED <<vm, asked>>

\* By the owner or by a cron job, whatever the status.
startVmDestroy(v) ==
  /\ vm[v].owner # NoUser
  /\ vm' = [vm EXCEPT ![v].status = "OTHER"]
  /\ asked' = asked \cup {v}
  /\ UNCHANGED request

\* The update that ends a log line or a callback.  The status was computed from a
\* row read earlier and replaces whatever the row holds by now.  Only lines of
\* a DESTROY job lead to DESTROYED.
updateVmStatus(v, status) ==
  /\ vm[v].owner # NoUser
  /\ status = "DESTROYED" => v \in asked
  /\ vm' = [vm EXCEPT ![v].status = status]
  /\ UNCHANGED <<request, asked>>

\* The rows of a user go with the profile (onDelete: Cascade).
Cascade(u) ==
  /\ vm' = [v \in Vms |-> IF vm[v].owner = u THEN RemovedRow ELSE vm[v]]
  /\ asked' = {v \in asked : vm[v].owner # u}
  /\ UNCHANGED request

Next ==
  \/ \E h \in Requests :
       \/ \E u \in Users : startVmProvisioning(h, u)
       \/ \E v \in Vms : createVmInTransaction(h, v)
       \/ CreateFails(h)
  \/ \E v \in Vms : startVmDestroy(v) \/ \E status \in Status : updateVmStatus(v, status)
  \/ \E u \in Users : Cascade(u)

Spec == Init /\ [][Next]_vars

-----------------------------------------------------------------------------
(* Properties.                                                             *)

\* A created machine has an owner, an idle request has no user.
TypeOK ==
  /\ vm \in [Vms -> Row]
  /\ request \in [Requests -> Users \cup {NoUser}]
  /\ asked \subseteq Vms

\* What is left of the quota when requests overlap: the machines that a user has
\* and nobody asked to destroy, with those about to be inserted, exceed the
\* quota by less than the number of requests in progress at a time, so one
\* request at a time keeps the quota.  A machine that a write from an old read
\* brought back after its destroy is not among them; the count of a later
\* request includes it.
OverrunBounded ==
  \A u \in Users :
    Cardinality(InUse(u)) + Cardinality(Granted(u)) <= Quota + Cardinality(Requests) - 1
=============================================================================
