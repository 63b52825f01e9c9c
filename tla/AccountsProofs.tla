--------------------------- MODULE AccountsProofs ---------------------------
(***************************************************************************)
(* Proofs about Accounts, for any numbers of users, machines, logins,      *)
(* requests and runs of the deletion job, and for status writes computed   *)
(* from reads of any age.                                                  *)
(***************************************************************************)
EXTENDS Accounts, VmQuotaProofs

\* What AccountsTypeOK says of this module's variables, and a run that is about
\* to delete a profile has one in hand.
AccountsType ==
  /\ profile \in [Users -> {Absent, Gone} \cup UserProfileStatus]
  /\ session \subseteq Users
  /\ login \in [Logins -> [user : Users, found : {Absent, "ACTIVE"}] \cup {NoLogin}]
  /\ run \in [Runs -> Run]

UserInHand == \A r \in Runs : run[r].pc = "delete" => run[r].user \in Users

\* Somebody asked to destroy the machines that a run found destroyed, whatever
\* their rows hold by now.  A row may go meanwhile, with another run.
FoundWereAsked ==
  \A r \in Runs : \A v \in run[r].found :
    v \in Vms /\ (v \in asked \/ vm[v] = RemovedRow)

RunsInv == UserInHand /\ FoundWereAsked

AccountsInv == IInv /\ AccountsType /\ RunsInv

-----------------------------------------------------------------------------
LEMMA IdleRunIsRun ==
  /\ IdleRun \in Run /\ IdleRun.pc = "idle" /\ IdleRun.found = {}
  /\ FailedRun \in Run /\ FailedRun.pc = "failed" /\ FailedRun.found = {}
  BY DEF IdleRun, FailedRun, Run

\* A run that ends or goes on with the next user has found nothing yet.
LEMMA NextUserIsRun ==
  ASSUME NEW todo \in SUBSET Users
  PROVE  NextUser(todo) \in Run /\ NextUser(todo).pc # "delete" /\ NextUser(todo).found = {}
  <1>1. CASE todo = {}
    BY <1>1, IdleRunIsRun DEF NextUser
  <1>2. CASE todo # {}
    <2> DEFINE x == [IdleRun EXCEPT !.pc = "list", !.todo = todo]
    <2>1. x \in Run /\ x.pc = "list" /\ x.found = {}
      BY IdleRunIsRun DEF Run
    <2> QED
      BY <1>2, <2>1 DEF NextUser
  <1> QED
    BY <1>1, <1>2

\* A step of the machines: a destroy request is never taken back.
LEMMA MachinesKeepFound ==
  ASSUME IInv, RunsInv, [Next]_vars, UNCHANGED run
  PROVE  RunsInv'
  <1>1. ASSUME NEW v \in Vms, v \in asked \/ vm[v] = RemovedRow
        PROVE  v \in asked' \/ vm'[v] = RemovedRow
    <2> USE <1>1
    <2>0. vm \in [Vms -> Row] /\ Status # {}
      BY DEF IInv, TypeOK, Status
    <2>1. ASSUME NEW h \in Requests, NEW w \in Vms, createVmInTransaction(h, w)
          PROVE  v \in asked' \/ vm'[v] = RemovedRow
      BY <2>0, <2>1 DEF createVmInTransaction, NoRow, RemovedRow, NotCreated, Removed
    <2>2. ASSUME NEW w \in Vms, NEW s \in Status, startVmDestroy(w) \/ updateVmStatus(w, s)
          PROVE  v \in asked' \/ vm'[v] = RemovedRow
      <3>1. PICK t \in Status : vm' = [vm EXCEPT ![w].status = t] /\ asked \subseteq asked'
        BY <2>2 DEF startVmDestroy, updateVmStatus, Status
      <3>2. vm[w] # RemovedRow
        BY <2>2 DEF startVmDestroy, updateVmStatus, RemovedRow
      <3> QED
        BY <2>0, <3>1, <3>2
    <2>3. ASSUME NEW u \in Users, Cascade(u)
          PROVE  v \in asked' \/ vm'[v] = RemovedRow
      BY <2>0, <2>3 DEF Cascade
    <2> QED
      BY <2>0, <2>1, <2>2, <2>3 DEF Next, vars, startVmProvisioning, CreateFails
  <1> QED
    BY <1>1 DEF RunsInv, UserInHand, FoundWereAsked

\* A run takes a step that finds nothing and touches no machine.
LEMMA BecomeKeepsRuns ==
  ASSUME IInv, AccountsType, RunsInv, NEW r \in Runs, NEW x \in Run, Become(r, x),
         x.pc = "delete" => x.user \in Users,
         \A v \in x.found : v \in asked \/ vm[v] = RemovedRow,
         UNCHANGED <<vm, asked>>
  PROVE  RunsInv' /\ run' \in [Runs -> Run]
  <1>1. run' = [run EXCEPT ![r] = x] /\ run \in [Runs -> Run]
    BY DEF Become, AccountsType
  <1>2. \A s \in Runs : run'[s] = IF s = r THEN x ELSE run[s]
    BY <1>1
  <1>3. x.found \subseteq Vms
    BY DEF Run
  <1> QED
    BY <1>1, <1>2, <1>3 DEF RunsInv, UserInHand, FoundWereAsked

-----------------------------------------------------------------------------
\* Logins, sessions and the mark for deletion.
LEMMA ProfileStepKeepsInv ==
  ASSUME AccountsInv,
         \/ \E l \in Logins : Login(l)
         \/ \E u \in Users : CloseSession(u) \/ markUserProfileForDeletion(u)
  PROVE  AccountsInv' /\ UNCHANGED vars
  <1> USE DEF AccountsInv
  <1>1. AccountsType' /\ UNCHANGED <<vars, run>>
    <2>1. ASSUME NEW l \in Logins, NEW u \in Users, findUserProfileByEmail(l, u)
          PROVE  AccountsType' /\ UNCHANGED <<vars, run>>
      BY <2>1 DEF findUserProfileByEmail, AccountsType
    <2>2. ASSUME NEW l \in Logins, OpenSession(l), login[l] # NoLogin,
                 profile' \in [Users -> {Absent, Gone} \cup UserProfileStatus]
          PROVE  AccountsType' /\ UNCHANGED <<vars, run>>
      <3>1. login[l].user \in Users
        BY <2>2 DEF AccountsType
      <3>2. session' \subseteq Users /\ login' \in [Logins -> [user : Users, found : {Absent, "ACTIVE"}] \cup {NoLogin}]
        BY <2>2, <3>1 DEF OpenSession, AccountsType
      <3> QED
        BY <2>2, <3>2 DEF OpenSession, AccountsType
    <2>3. ASSUME NEW l \in Logins, KeepUserProfile(l)
          PROVE  AccountsType' /\ UNCHANGED <<vars, run>>
      BY <2>2, <2>3 DEF KeepUserProfile, AccountsType, NoLogin, Absent
    <2>4. ASSUME NEW l \in Logins, updateUserProfileWithOidcUser(l)
          PROVE  AccountsType' /\ UNCHANGED <<vars, run>>
      BY <2>2, <2>4 DEF updateUserProfileWithOidcUser, AccountsType, NoLogin, Absent, UserProfileStatus
    <2>5. ASSUME NEW l \in Logins, createUserProfileWithOidcUser(l)
          PROVE  AccountsType' /\ UNCHANGED <<vars, run>>
      BY <2>2, <2>5, ConstantsAssumption
         DEF createUserProfileWithOidcUser, AccountsType, NoLogin, UserProfileStatus
    <2>6. ASSUME NEW l \in Logins, LoginFails(l)
          PROVE  AccountsType' /\ UNCHANGED <<vars, run>>
      BY <2>6 DEF LoginFails, AccountsType
    <2>7. ASSUME NEW u \in Users, CloseSession(u) \/ markUserProfileForDeletion(u)
          PROVE  AccountsType' /\ UNCHANGED <<vars, run>>
      BY <2>7 DEF CloseSession, markUserProfileForDeletion, AccountsType, UserProfileStatus
    <2> QED
      BY <2>1, <2>3, <2>4, <2>5, <2>6, <2>7 DEF Login
  <1>2. IInv' /\ RunsInv'
    BY <1>1, IInvIsInductive, MachinesKeepFound
  <1> QED
    BY <1>1, <1>2

\* What users and machines do, apart from the deletion.
LEMMA MachineStepKeepsInv ==
  ASSUME AccountsInv,
         \/ \E h \in Requests, u \in Users : RequestVm(h, u)
         \/ \E h \in Requests, v \in Vms : InsertVm(h, v)
         \/ \E v \in Vms : requestVmDestroy(v)
         \/ MachineStep
  PROVE  AccountsInv' /\ Next
  <1> USE DEF AccountsInv
  <1>1. Next /\ UNCHANGED accounts
    BY DEF RequestVm, InsertVm, requestVmDestroy, MachineStep, Next
  <1>2. IInv' /\ RunsInv'
    BY <1>1, IInvIsInductive, MachinesKeepFound DEF accounts
  <1>3. AccountsType'
    BY <1>1 DEF accounts, AccountsType
  <1> QED
    BY <1>1, <1>2, <1>3

\* The deletion job.
LEMMA RunKeepsInv ==
  ASSUME AccountsInv, NEW r \in Runs, Step(r) \/ AbortRun(r)
  PROVE  AccountsInv' /\ [Next]_vars
  <1> USE DEF AccountsInv
  <1>0. /\ run \in [Runs -> Run] /\ run[r] \in Run
        /\ run[r].todo \subseteq Users /\ run[r].doomed \subseteq Vms
    BY DEF AccountsType, Run
  <1>1. ASSUME NEW x \in Run, Become(r, x), x.pc = "delete" => x.user \in Users,
               \A v \in x.found : v \in asked \/ vm[v] = RemovedRow,
               UNCHANGED <<vars, profile, session, login>>
        PROVE  AccountsInv' /\ [Next]_vars
    <2>1. RunsInv' /\ run' \in [Runs -> Run]
      BY <1>1, BecomeKeepsRuns DEF vars
    <2>2. AccountsType'
      BY <1>1, <2>1 DEF AccountsType
    <2> QED
      BY <1>1, <2>1, <2>2, IInvIsInductive
  <1>2. CASE findUsersByStatus(r)
    <2>1. PendingUsers \in SUBSET Users
      BY DEF PendingUsers
    <2> QED
      BY <1>1, <1>2, <2>1, NextUserIsRun DEF findUsersByStatus, AccountsType
  <1>3. ASSUME NEW u \in Users, getAllVmsOfUser(r, u)
        PROVE  AccountsInv' /\ [Next]_vars
    <2> DEFINE all     == {v \in Vms : vm[v].owner = u}
               running == InStatus(u, {"RUNNING"})
               rest    == run[r].todo \ {u}
               here    == [IdleRun EXCEPT !.todo = rest, !.user = u]
               doom    == [here EXCEPT !.pc = "destroy", !.doomed = running]
               delete  == [here EXCEPT !.pc = "delete", !.found = all]
    <2>1. rest \in SUBSET Users /\ running \in SUBSET Vms /\ all \in SUBSET Vms
      BY <1>0 DEF InStatus
    <2>2. here \in Run /\ here.user = u /\ here.found = {}
      BY <2>1, IdleRunIsRun DEF Run
    <2>3. /\ doom \in Run /\ doom.pc = "destroy" /\ doom.found = {}
          /\ delete \in Run /\ delete.user = u /\ delete.found = all
      <3> HIDE DEF here
      <3> QED
        BY <2>1, <2>2 DEF Run
    <2>4. \/ Become(r, doom)
          \/ Become(r, delete) /\ AllDestroyed(all)
          \/ Become(r, NextUser(rest))
      BY <1>3 DEF getAllVmsOfUser
    <2> HIDE DEF doom, delete
    <2>5. PICK x \in Run : /\ Become(r, x)
                           /\ x.pc = "delete" => x.user \in Users
                           /\ \A v \in x.found : v \in asked
      BY <2>1, <2>3, <2>4, NextUserIsRun DEF AllDestroyed, IInv, CountedOrAsked
    <2> QED
      BY <1>1, <1>3, <2>5 DEF getAllVmsOfUser, AccountsType
  <1>4. ASSUME NEW v \in Vms, DestroyListed(r, v)
        PROVE  AccountsInv' /\ [Next]_vars
    <2> USE <1>4 DEF DestroyListed
    <2>1. CASE vm[v].owner = NoUser
      BY <1>0, <1>1, <2>1, IdleRunIsRun DEF AccountsType
    <2>2. CASE vm[v].owner # NoUser
      <3> DEFINE more == [run[r] EXCEPT !.doomed = run[r].doomed \ {v}]
      <3>1. /\ more \in Run /\ more.pc = run[r].pc /\ more.user = run[r].user
            /\ more.found = run[r].found
        BY <1>0 DEF Run
      <3>2. Become(r, NextUser(run[r].todo)) \/ Become(r, more)
        BY <2>2
      <3>3. PICK x \in Run : /\ Become(r, x) /\ x.pc # "delete"
                             /\ x.found \subseteq run[r].found
        BY <1>0, <3>1, <3>2, NextUserIsRun
      <3>4. startVmDestroy(v) /\ Next
        BY <2>2 DEF Next
      <3>5. \A s \in Runs : run'[s] = IF s = r THEN x ELSE run[s]
        BY <1>0, <3>3 DEF Become
      <3>6. \A w \in Vms : \/ w \in asked'
                           \/ vm'[w] = vm[w] /\ (w \in asked => w \in asked')
        BY <3>4 DEF startVmDestroy, IInv, TypeOK
      <3>7. RunsInv'
        BY <3>3, <3>5, <3>6 DEF RunsInv, UserInHand, FoundWereAsked
      <3>8. AccountsType'
        BY <1>0, <3>3 DEF Become, AccountsType
      <3> QED
        BY <3>4, <3>7, <3>8, IInvIsInductive
    <2> QED
      BY <2>1, <2>2
  <1>5. CASE deleteUserProfile(r)
    <2> USE <1>5 DEF deleteUserProfile
    <2> DEFINE u == run[r].user
    <2>1. u \in Users
      BY DEF RunsInv, UserInHand
    <2>2. CASE Exists(u)
      <3>1. Cascade(u) /\ Next
        BY <2>1, <2>2 DEF Next
      <3>2. PICK x \in Run : Become(r, x) /\ x.pc # "delete" /\ x.found = {}
        BY <1>0, <2>2, NextUserIsRun
      <3>3. \A s \in Runs : run'[s] = IF s = r THEN x ELSE run[s]
        BY <1>0, <3>2 DEF Become
      <3>4. \A w \in Vms : \/ vm'[w] = RemovedRow
                           \/ vm'[w] = vm[w] /\ (w \in asked => w \in asked')
        BY <3>1 DEF Cascade
      <3>5. RunsInv'
        BY <3>2, <3>3, <3>4 DEF RunsInv, UserInHand, FoundWereAsked
      <3>6. AccountsType'
        BY <1>0, <2>1, <2>2, <3>2 DEF Become, AccountsType
      <3> QED
        BY <3>1, <3>5, <3>6, IInvIsInductive
    <2>3. CASE ~Exists(u)
      BY <1>0, <1>1, <2>3, IdleRunIsRun DEF AccountsType
    <2> QED
      BY <2>2, <2>3
  <1>6. CASE AbortRun(r)
    BY <1>0, <1>1, <1>6, IdleRunIsRun DEF AbortRun, AccountsType
  <1> QED
    BY <1>2, <1>3, <1>4, <1>5, <1>6 DEF Step

-----------------------------------------------------------------------------
LEMMA AccountsInvHoldsInitially == AccountsInit => AccountsInv
  BY IdleRunIsRun, IInvHoldsInitially
     DEF AccountsInit, AccountsInv, AccountsType, RunsInv, UserInHand, FoundWereAsked

LEMMA AccountsStep == AccountsInv /\ [AccountsNext]_allVars => AccountsInv' /\ [Next]_vars
  <1> SUFFICES ASSUME AccountsInv, [AccountsNext]_allVars PROVE AccountsInv' /\ [Next]_vars
    OBVIOUS
  <1>1. CASE UNCHANGED allVars
    <2>1. UNCHANGED vars /\ UNCHANGED accounts
      BY <1>1 DEF allVars
    <2>2. IInv' /\ RunsInv'
      BY <2>1, IInvIsInductive, MachinesKeepFound DEF AccountsInv, accounts
    <2> QED
      BY <2>1, <2>2 DEF AccountsInv, accounts, AccountsType
  <1> QED
    BY <1>1, ProfileStepKeepsInv, MachineStepKeepsInv, RunKeepsInv DEF AccountsNext

LEMMA AccountsInvAlways == AccountsSpec => []AccountsInv
  BY AccountsInvHoldsInitially, AccountsStep, PTL DEF AccountsSpec

\* Profiles, sessions, logins and runs keep their shape.
THEOREM AccountsTypeCorrect == AccountsSpec => []AccountsTypeOK
  <1>1. AccountsInv => AccountsTypeOK
    BY DEF AccountsInv, AccountsType, AccountsTypeOK, IInv
  <1> QED
    BY <1>1, AccountsInvAlways, PTL

\* The bound on the quota's overrun holds with profiles that come and go and
\* machines that their cascades remove.
THEOREM AccountsOverrunBounded == AccountsSpec => []OverrunBounded
  <1>1. AccountsInv => OverrunBounded
    BY DEF AccountsInv, IInv, Bounded, OverrunBounded
  <1> QED
    BY <1>1, AccountsInvAlways, PTL

\* A machine that nobody asked to destroy is lost to a deletion only if it was
\* inserted after the run had listed the user's machines: no overlap of runs,
\* destroys and late status writes loses another.
THEOREM ListedMachinesAlwaysKept == AccountsSpec => ListedMachinesKept
  <1> DEFINE Kept(v) == vm[v].owner # NoUser /\ vm'[v] = RemovedRow /\ v \in InUse(vm[v].owner)
                          => \E r \in Runs : /\ run[r].pc = "delete" /\ run[r].user = vm[v].owner
                                             /\ v \notin run[r].found
  <1>1. ASSUME AccountsInv, AccountsNext PROVE \A v \in Vms : Kept(v)
    <2> SUFFICES ASSUME NEW v \in Vms, vm[v].owner # NoUser, vm'[v] = RemovedRow,
                        v \in InUse(vm[v].owner)
                 PROVE  \E r \in Runs : /\ run[r].pc = "delete" /\ run[r].user = vm[v].owner
                                        /\ v \notin run[r].found
      OBVIOUS
    <2>1. vm \in [Vms -> Row] /\ v \notin asked /\ vm[v].status \in Status
      BY <1>1, ConstantsAssumption DEF AccountsInv, IInv, TypeOK, InUse, Row
    <2>2. vm'[v].status = Removed /\ vm[v] # RemovedRow
      BY DEF RemovedRow
    <2>3. ASSUME NEW w \in Vms, NEW t \in Status, startVmDestroy(w) \/ updateVmStatus(w, t)
          PROVE  FALSE
      <3>1. PICK s \in Status : vm' = [vm EXCEPT ![w].status = s]
        BY <2>3 DEF startVmDestroy, updateVmStatus, Status
      <3> QED
        BY <2>1, <2>2, <3>1 DEF Row, Status, Removed
    <2>4. ASSUME NEW h \in Requests, NEW w \in Vms, createVmInTransaction(h, w)
          PROVE  FALSE
      BY <2>1, <2>2, <2>4 DEF createVmInTransaction, Status, Removed
    <2>5. vm' # vm
      BY <2>1, <2>2 DEF Status, Removed
    <2>6. PICK r \in Runs : deleteUserProfile(r)
      BY <1>1, <2>1, <2>3, <2>4, <2>5
         DEF AccountsNext, Login, findUserProfileByEmail, KeepUserProfile,
             updateUserProfileWithOidcUser, createUserProfileWithOidcUser, LoginFails, OpenSession,
             CloseSession, markUserProfileForDeletion, RequestVm, startVmProvisioning, InsertVm,
             requestVmDestroy, MachineStep, CreateFails, Step, findUsersByStatus, getAllVmsOfUser,
             DestroyListed, AbortRun, vars
    <2>7. run[r].pc = "delete" /\ Cascade(run[r].user)
      BY <2>5, <2>6 DEF deleteUserProfile, vars
    <2>8. run[r].user = vm[v].owner
      BY <2>1, <2>2, <2>5, <2>7 DEF Cascade
    <2>9. v \notin run[r].found
      BY <1>1, <2>1, <2>2 DEF AccountsInv, RunsInv, FoundWereAsked
    <2> QED
      BY <2>7, <2>8, <2>9
  <1>2. AccountsInv /\ [AccountsNext]_allVars => [\A v \in Vms : Kept(v)]_allVars
    BY <1>1
  <1> QED
    BY <1>2, AccountsInvAlways, PTL DEF AccountsSpec, ListedMachinesKept
=============================================================================
