---------------------------- MODULE VmQuotaProofs ----------------------------
(***************************************************************************)
(* Proofs about VmQuota, for any numbers of users, machines and requests   *)
(* and any quota.                                                          *)
(***************************************************************************)
EXTENDS VmQuota, FiniteSetTheorems, TLAPS

\* OverrunBounded of one user.
Bounded(u) ==
  Cardinality(InUse(u)) + Cardinality(Granted(u)) <= Quota + Cardinality(Requests) - 1

\* The count leaves out only machines that somebody asked to destroy, however old
\* the read that a status was computed from.
CountedOrAsked == \A v \in Vms : vm[v].status = "DESTROYED" => v \in asked

IInv == TypeOK /\ CountedOrAsked /\ \A u \in Users : Bounded(u)

\* All the sets that are counted are finite, and the grants are no more than
\* the requests.
LEMMA Counts ==
  ASSUME NEW u \in Users, TypeOK, CountedOrAsked
  PROVE  /\ IsFiniteSet(Active(u)) /\ Cardinality(Active(u)) \in Nat
         /\ IsFiniteSet(InUse(u)) /\ Cardinality(InUse(u)) \in Nat
         /\ Cardinality(InUse(u)) <= Cardinality(Active(u))
         /\ IsFiniteSet(Granted(u)) /\ Cardinality(Granted(u)) \in Nat
         /\ Cardinality(Granted(u)) <= Cardinality(Requests)
         /\ Cardinality(Requests) \in Nat /\ Cardinality(Requests) > 0
  <1>1. /\ Active(u) \subseteq Vms /\ InUse(u) \subseteq Active(u)
        /\ Granted(u) \subseteq Requests
    BY ConstantsAssumption
       DEF Active, InStatus, InUse, Granted, Status, TypeOK, Row, CountedOrAsked
  <1>2. IsFiniteSet(Active(u)) /\ IsFiniteSet(InUse(u)) /\ IsFiniteSet(Granted(u))
    BY <1>1, FS_Subset, ConstantsAssumption
  <1> QED
    BY <1>1, <1>2, FS_Subset, FS_CardinalityType, FS_EmptySet, ConstantsAssumption

\* The same of the sets after a step.
LEMMA CountsNext ==
  ASSUME NEW u
  PROVE  /\ IsFiniteSet(InUse(u)') /\ Cardinality(InUse(u)') \in Nat
         /\ IsFiniteSet(Granted(u)') /\ Cardinality(Granted(u)') \in Nat
         /\ Cardinality(Granted(u)') <= Cardinality(Requests)
  <1>1. InUse(u)' \subseteq Vms /\ Granted(u)' \subseteq Requests
    BY DEF InUse, Granted
  <1> QED
    BY <1>1, FS_Subset, FS_CardinalityType, ConstantsAssumption

\* A step that adds neither a machine in use nor a grant keeps the bound.
LEMMA NoMore ==
  ASSUME NEW u \in Users, TypeOK, CountedOrAsked, Bounded(u),
         InUse(u)' \subseteq InUse(u), Granted(u)' \subseteq Granted(u)
  PROVE  Bounded(u)'
  <1>1. /\ Cardinality(InUse(u)') <= Cardinality(InUse(u))
        /\ Cardinality(Granted(u)') <= Cardinality(Granted(u))
    BY Counts, FS_Subset
  <1> QED
    BY <1>1, Counts, CountsNext, ConstantsAssumption DEF Bounded

\* Nobody has a machine or a grant initially.
LEMMA IInvHoldsInitially == Init => IInv
  <1> SUFFICES ASSUME Init PROVE IInv
    OBVIOUS
  <1>1. TypeOK /\ CountedOrAsked
    BY DEF Init, TypeOK, CountedOrAsked, Row, NoRow, NotCreated
  <1>2. ASSUME NEW u \in Users PROVE Bounded(u)
    <2>1. InUse(u) = {} /\ Granted(u) = {}
      BY <1>2, ConstantsAssumption DEF Init, InUse, Granted, NoRow, NotCreated
    <2> QED
      BY <1>1, <2>1, FS_EmptySet, Counts, ConstantsAssumption DEF Bounded
  <1> QED
    BY <1>1, <1>2 DEF IInv

\* A grant needs room below the quota, an insert turns a grant into a machine.
LEMMA IInvIsInductive == IInv /\ [Next]_vars => IInv'
  <1> SUFFICES ASSUME IInv, [Next]_vars PROVE IInv'
    OBVIOUS
  <1> USE DEF IInv
  \* Only InUse and Granted of the owner concerned can grow.
  <1>1. ASSUME NEW h \in Requests, NEW u \in Users, startVmProvisioning(h, u)
        PROVE  IInv'
    <2>1. TypeOK' /\ CountedOrAsked'
      BY <1>1 DEF startVmProvisioning, TypeOK, CountedOrAsked
    <2>2. Bounded(u)'
      <3>1. InUse(u)' = InUse(u)
        BY <1>1 DEF startVmProvisioning, InUse
      <3>2. Cardinality(InUse(u)) <= Quota - 1
        BY <1>1, Counts, ConstantsAssumption DEF startVmProvisioning, remainingQuota
      <3> QED
        BY <3>1, <3>2, Counts, CountsNext, ConstantsAssumption DEF Bounded
    <2>3. ASSUME NEW w \in Users, w # u PROVE Bounded(w)'
      <3>1. InUse(w)' \subseteq InUse(w) /\ Granted(w)' \subseteq Granted(w)
        BY <1>1, <2>3 DEF startVmProvisioning, InUse, Granted, TypeOK
      <3> QED
        BY <3>1, NoMore
    <2> QED
      BY <2>1, <2>2, <2>3
  <1>2. ASSUME NEW h \in Requests, NEW v \in Vms, createVmInTransaction(h, v)
        PROVE  IInv'
    <2>1. PICK u \in Users : request[h] = u
      BY <1>2 DEF createVmInTransaction, TypeOK
    <2>2. TypeOK' /\ CountedOrAsked'
      BY <1>2, <2>1 DEF createVmInTransaction, TypeOK, CountedOrAsked, Row, Status
    <2>3. Bounded(u)'
      <3>1. InUse(u)' \subseteq InUse(u) \cup {v} /\ v \notin InUse(u)
        BY <1>2, <2>1, ConstantsAssumption
        DEF createVmInTransaction, InUse, TypeOK, NoRow, NotCreated
      <3>2. Granted(u)' = Granted(u) \ {h} /\ h \in Granted(u)
        BY <1>2, <2>1, ConstantsAssumption DEF createVmInTransaction, Granted, TypeOK
      <3>3. IsFiniteSet(InUse(u)) /\ IsFiniteSet(Granted(u))
        BY Counts
      <3>4. Cardinality(InUse(u)') <= Cardinality(InUse(u)) + 1
        <4>1. /\ IsFiniteSet(InUse(u) \cup {v})
              /\ Cardinality(InUse(u) \cup {v}) = Cardinality(InUse(u)) + 1
          BY <3>1, <3>3, FS_AddElement
        <4> QED
          BY <3>1, <4>1, FS_Subset
      <3>5. Cardinality(Granted(u)') = Cardinality(Granted(u)) - 1
        BY <3>2, <3>3, FS_RemoveElement
      <3> QED
        BY <2>1, <3>4, <3>5, Counts, CountsNext, ConstantsAssumption DEF Bounded
    <2>4. ASSUME NEW w \in Users, w # u PROVE Bounded(w)'
      <3>1. InUse(w)' \subseteq InUse(w) /\ Granted(w)' \subseteq Granted(w)
        BY <1>2, <2>1, <2>4, ConstantsAssumption
        DEF createVmInTransaction, InUse, Granted, TypeOK
      <3> QED
        BY <3>1, NoMore
    <2> QED
      BY <2>1, <2>2, <2>3, <2>4
  <1>3. ASSUME NEW h \in Requests, CreateFails(h)
        PROVE  IInv'
    <2>1. TypeOK' /\ CountedOrAsked'
      BY <1>3 DEF CreateFails, TypeOK, CountedOrAsked
    <2>2. ASSUME NEW w \in Users
          PROVE  InUse(w)' \subseteq InUse(w) /\ Granted(w)' \subseteq Granted(w)
      BY <1>3, <2>2, ConstantsAssumption DEF CreateFails, InUse, Granted, TypeOK
    <2> QED
      BY <2>1, <2>2, NoMore
  <1>4. ASSUME NEW v \in Vms, NEW status \in Status, startVmDestroy(v) \/ updateVmStatus(v, status)
        PROVE  IInv'
    <2>1. PICK s \in Status : /\ vm' = [vm EXCEPT ![v].status = s] /\ UNCHANGED request
                              /\ asked \subseteq asked' /\ asked' \subseteq Vms
                              /\ s = "DESTROYED" => v \in asked'
      BY <1>4 DEF startVmDestroy, updateVmStatus, Status, TypeOK
    <2>2. vm[v] \in [owner : Users, status : Status]
      BY <1>4, ConstantsAssumption
      DEF startVmDestroy, updateVmStatus, TypeOK, Row, Status, NotCreated, Removed
    <2>3. TypeOK' /\ CountedOrAsked'
      BY <2>1, <2>2 DEF TypeOK, CountedOrAsked, Row
    <2>4. ASSUME NEW w \in Users
          PROVE  InUse(w)' \subseteq InUse(w) /\ Granted(w)' \subseteq Granted(w)
      BY <2>1, <2>4 DEF InUse, Granted, TypeOK, Row
    <2> QED
      BY <2>3, <2>4, NoMore
  <1>5. ASSUME NEW u \in Users, Cascade(u)
        PROVE  IInv'
    <2>1. TypeOK' /\ CountedOrAsked'
      BY <1>5 DEF Cascade, TypeOK, CountedOrAsked, Row, RemovedRow, Removed
    <2>2. ASSUME NEW w \in Users
          PROVE  InUse(w)' \subseteq InUse(w) /\ Granted(w)' \subseteq Granted(w)
      BY <1>5, <2>2, ConstantsAssumption DEF Cascade, InUse, Granted, RemovedRow
    <2> QED
      BY <2>1, <2>2, NoMore
  <1>6. CASE UNCHANGED vars
    <2>1. TypeOK' /\ CountedOrAsked'
      BY <1>6 DEF vars, TypeOK, CountedOrAsked
    <2>2. ASSUME NEW w \in Users
          PROVE  InUse(w)' \subseteq InUse(w) /\ Granted(w)' \subseteq Granted(w)
      BY <1>6 DEF vars, InUse, Granted
    <2> QED
      BY <2>1, <2>2, NoMore
  <1> QED
    BY <1>1, <1>2, <1>3, <1>4, <1>5, <1>6 DEF Next, Status

\* The strengthened bound holds of every reachable state.
THEOREM IInvAlways == Spec => []IInv
  BY IInvHoldsInitially, IInvIsInductive, PTL DEF Spec

\* Rows and requests keep their shape.
THEOREM TypeCorrect == Spec => []TypeOK
  <1>1. IInv => TypeOK
    BY DEF IInv
  <1> QED
    BY <1>1, IInvAlways, PTL

\* The overrun of the quota stays below the number of requests in progress at
\* a time, whatever the interleaving of counts and inserts and however late the
\* status writes.
THEOREM OverrunAlwaysBounded == Spec => []OverrunBounded
  <1>1. IInv => OverrunBounded
    BY DEF IInv, Bounded, OverrunBounded
  <1> QED
    BY <1>1, IInvAlways, PTL
=============================================================================
