------------------------------ MODULE Accounts ------------------------------
(***************************************************************************)
(* User profiles: login (authController.ts, userService.ts), the deletion  *)
(* that a user asks for and that deleteUserProfileJob carries out, and the *)
(* machines that both are about, which are those of VmQuota.               *)
(*                                                                         *)
(* Logins, create requests and runs of the job read a profile or a list of *)
(* machines in one statement and act on it in a later one.  Croner does    *)
(* not wait for the run before, and both replicas run the job.             *)
(*                                                                         *)
(* A user id is never given again: who logs in after a deletion is another *)
(* element of Users.                                                       *)
(***************************************************************************)
EXTENDS VmQuota

CONSTANTS
  Logins,     \* authenticate requests in progress
  Runs        \* runs of deleteUserProfileJob in progress, on any replica

VARIABLES
  profile,   \* the status of each user's profile
  session,   \* users with a session, which keeps the user it was opened with
  login,     \* per login the user and the status of the profile it found
  run        \* per run of the job, what it has yet to do

accounts == <<profile, session, login, run>>
allVars  == <<vars, accounts>>

Absent == "ABSENT"     \* not created yet
Gone   == "GONE"       \* the row is deleted
UserProfileStatus == {"ACTIVE", "PENDING_DELETION"}   \* no code sets the others

Exists(u) == profile[u] \in UserProfileStatus

\* A run: its next statement, the users of its list that are left, the user it
\* is at, the machines it has found destroyed and those it has yet to destroy.
Run == [pc : {"idle", "failed", "list", "destroy", "delete"}, todo : SUBSET Users,
        user : Users \cup {NoUser}, found : SUBSET Vms, doomed : SUBSET Vms]

IdleRun   == [pc |-> "idle", todo |-> {}, user |-> NoUser, found |-> {}, doomed |-> {}]
FailedRun == [IdleRun EXCEPT !.pc = "failed"]

\* The run goes on with the next user of its list, or ends.
NextUser(todo) == IF todo = {} THEN IdleRun ELSE [IdleRun EXCEPT !.pc = "list", !.todo = todo]

Become(r, next) == run' = [run EXCEPT ![r] = next]

NoLogin == [user |-> NoUser, found |-> Absent]

AccountsInit ==
  /\ Init
  /\ profile = [u \in Users |-> Absent]
  /\ session = {}
  /\ login = [l \in Logins |-> NoLogin]
  /\ run = [r \in Runs |-> IdleRun]

-----------------------------------------------------------------------------
(* authenticate.                                                           *)

\* A profile on its way out is refused.
findUserProfileByEmail(l, u) ==
  /\ login[l] = NoLogin
  /\ profile[u] \in {Absent, "ACTIVE"}
  /\ login' = [login EXCEPT ![l] = [user |-> u, found |-> profile[u]]]
  /\ UNCHANGED <<vars, profile, session, run>>

\* The session is opened with the profile at hand.
OpenSession(l) ==
  /\ session' = session \cup {login[l].user}
  /\ login' = [login EXCEPT ![l] = NoLogin]
  /\ UNCHANGED <<vars, run>>

\* No field of the identity provider's user differs: the profile that was read.
KeepUserProfile(l) ==
  /\ login[l].found = "ACTIVE"
  /\ UNCHANGED profile
  /\ OpenSession(l)

\* A field differs: all fields are written, the status as it was read.
updateUserProfileWithOidcUser(l) ==
  LET u == login[l].user IN
  /\ login[l].found = "ACTIVE"
  /\ Exists(u)
  /\ profile' = [profile EXCEPT ![u] = login[l].found]
  /\ OpenSession(l)

\* The unique e-mail address lets one of two first logins pass.
createUserProfileWithOidcUser(l) ==
  LET u == login[l].user IN
  /\ login[l].user # NoUser
  /\ login[l].found = Absent
  /\ profile[u] = Absent
  /\ profile' = [profile EXCEPT ![u] = "ACTIVE"]
  /\ OpenSession(l)

LoginFails(l) ==
  /\ login[l] # NoLogin
  /\ login' = [login EXCEPT ![l] = NoLogin]
  /\ UNCHANGED <<vars, profile, session, run>>

\* logout, or the session's time to live.
CloseSession(u) ==
  /\ u \in session
  /\ session' = session \ {u}
  /\ UNCHANGED <<vars, profile, login, run>>

-----------------------------------------------------------------------------
(* What a session asks for.  Nothing looks at the profile's status again.  *)

markUserProfileForDeletion(u) ==
  /\ u \in session
  /\ Exists(u)
  /\ profile' = [profile EXCEPT ![u] = "PENDING_DELETION"]
  /\ UNCHANGED <<vars, session, login, run>>

RequestVm(h, u) ==
  /\ u \in session
  /\ startVmProvisioning(h, u)
  /\ UNCHANGED accounts

\* The foreign key: the profile must exist.
InsertVm(h, v) ==
  /\ request[h] # NoUser
  /\ Exists(request[h])
  /\ createVmInTransaction(h, v)
  /\ UNCHANGED accounts

requestVmDestroy(v) ==
  /\ vm[v].owner \in session
  /\ startVmDestroy(v)
  /\ UNCHANGED accounts

\* What becomes of the machines otherwise: log lines, callbacks and the expiry
\* job, which destroys what was RUNNING and past its duration when it listed it.
MachineStep ==
  /\ \/ \E h \in Requests : CreateFails(h)
     \/ \E v \in Vms : startVmDestroy(v) \/ \E status \in Status : updateVmStatus(v, status)
  /\ UNCHANGED accounts

-----------------------------------------------------------------------------
(* deleteUserProfileJob.                                                   *)

PendingUsers == {u \in Users : profile[u] = "PENDING_DELETION"}

findUsersByStatus(r) ==
  /\ run[r].pc \in {"idle", "failed"}
  /\ PendingUsers # {}
  /\ Become(r, NextUser(PendingUsers))
  /\ UNCHANGED <<vars, profile, session, login>>

\* Mutant: machines that are being destroyed do not count.
NoneLeftButDoomed(all) == \A v \in all : vm[v].status # "RUNNING"

\* Mutant: a user without machines is passed over.
SomeAndAllDestroyed(all) == all # {} /\ \A v \in all : vm[v].status = "DESTROYED"

AllDestroyed(all) == \A v \in all : vm[v].status = "DESTROYED"

\* The machines of the next user, in any order, decide what happens to it.
getAllVmsOfUser(r, u) ==
  LET all     == {v \in Vms : vm[v].owner = u}
      running == InStatus(u, {"RUNNING"})
      rest    == run[r].todo \ {u}
      here    == [IdleRun EXCEPT !.todo = rest, !.user = u]
  IN
  /\ run[r].pc = "list"
  /\ u \in run[r].todo
  /\ Become(r, CASE running # {}   -> [here EXCEPT !.pc = "destroy", !.doomed = running]
                 [] AllDestroyed(all) -> [here EXCEPT !.pc = "delete", !.found = all]
                 [] OTHER          -> NextUser(rest))
  /\ UNCHANGED <<vars, profile, session, login>>

\* startVmDestroy of a row that is gone throws, and nothing catches it.
DestroyListed(r, v) ==
  /\ run[r].pc = "destroy"
  /\ v \in run[r].doomed
  /\ IF vm[v].owner = NoUser
     THEN Become(r, IdleRun) /\ UNCHANGED vars
     ELSE /\ startVmDestroy(v)
          /\ Become(r, IF run[r].doomed = {v} THEN NextUser(run[r].todo)
                       ELSE [run[r] EXCEPT !.doomed = run[r].doomed \ {v}])
  /\ UNCHANGED <<profile, session, login>>

\* The row goes with the rows of the machines; a row that is gone throws.
deleteUserProfile(r) ==
  LET u == run[r].user IN
  /\ run[r].pc = "delete"
  /\ IF Exists(u)
     THEN /\ profile' = [profile EXCEPT ![u] = Gone]
          /\ Cascade(u)
          /\ Become(r, NextUser(run[r].todo))
     ELSE /\ Become(r, IdleRun)
          /\ UNCHANGED <<vars, profile>>
  /\ UNCHANGED <<session, login>>

\* A statement fails, or the replica dies.  Croner starts the next run all the same.
AbortRun(r) ==
  /\ run[r].pc \notin {"idle", "failed"}
  /\ Become(r, FailedRun)
  /\ UNCHANGED <<vars, profile, session, login>>

-----------------------------------------------------------------------------
Login(l) ==
  \/ \E u \in Users : findUserProfileByEmail(l, u)
  \/ KeepUserProfile(l) \/ updateUserProfileWithOidcUser(l)
  \/ createUserProfileWithOidcUser(l) \/ LoginFails(l)

Step(r) ==
  \/ findUsersByStatus(r)
  \/ \E u \in Users : getAllVmsOfUser(r, u)
  \/ \E v \in Vms : DestroyListed(r, v)
  \/ deleteUserProfile(r)

AccountsNext ==
  \/ \E l \in Logins : Login(l)
  \/ \E u \in Users : CloseSession(u) \/ markUserProfileForDeletion(u)
  \/ \E h \in Requests, u \in Users : RequestVm(h, u)
  \/ \E h \in Requests, v \in Vms : InsertVm(h, v)
  \/ \E v \in Vms : requestVmDestroy(v)
  \/ MachineStep
  \/ \E r \in Runs : Step(r) \/ AbortRun(r)

AccountsSpec == AccountsInit /\ [][AccountsNext]_allVars

\* Croner starts the job every 30 seconds and the event loop runs its statements,
\* which do not fail for ever.  Nothing is assumed of the machines: a DESTROY may
\* fail for good.
AccountsFairness ==
  \A r \in Runs : WF_allVars(Step(r)) /\ <>[](run[r].pc # "failed")

AccountsFairSpec == AccountsSpec /\ AccountsFairness

-----------------------------------------------------------------------------
(* Properties.                                                             *)

\* Runs, logins and sessions are about users and machines that exist, and a login
\* in progress found no profile or an active one.
AccountsTypeOK ==
  /\ TypeOK
  /\ profile \in [Users -> {Absent, Gone} \cup UserProfileStatus]
  /\ session \subseteq Users
  /\ login \in [Logins -> [user : Users, found : {Absent, "ACTIVE"}] \cup {NoLogin}]
  /\ run \in [Runs -> Run]

\* A machine that nobody asked to destroy loses its row only if it was inserted
\* after the run that deletes the profile had listed the user's machines: no
\* overlap of runs, logins, destroys and late status writes costs another.  A
\* machine that was destroyed on request and that a late write then brings back
\* to RUNNING may lose its row.
ListedMachinesKept ==
  [][\A v \in Vms :
       vm[v].owner # NoUser /\ vm'[v] = RemovedRow /\ v \in InUse(vm[v].owner)
         => \E r \in Runs : /\ run[r].pc = "delete" /\ run[r].user = vm[v].owner
                            /\ v \notin run[r].found]_allVars

Away(u) == u \notin session /\ \A h \in Requests : request[h] # u

\* A machine that the job neither destroys nor takes for destroyed.
Waiting(u) == InStatus(u, {"OTHER"}) # {}

\* A deletion that was asked for ends once the user has left: the profile does
\* not stay PENDING_DELETION for ever without the user coming back, a login that
\* writes back the status it had read, or a machine that waits again and again.
\* Such a machine there may be: one stays PROVISIONING_FAILED; a DESTROY that
\* found the lock held, or that was lost after its acknowledgement, is not tried
\* again and leaves TO_BE_DESTROYED or DESTROYING.
DeletionEnds ==
  \A u \in Users :
    []<>(profile[u] = "PENDING_DELETION" /\ Away(u) => Waiting(u))
=============================================================================
