---------------------------- MODULE Provisioner ----------------------------
(***************************************************************************)
(* From a request in the queue vm_provisioning_requests to a terraform     *)
(* command that ran: the request consumer                                  *)
(* (provision-request-queue-consumer-pod/src/consumer.ts), the Kubernetes  *)
(* Jobs it reads, deletes and creates, and the pods that pipe terraform    *)
(* into terraform-runner-job/send_to_rabbitmq.py.  Kubernetes, terraform   *)
(* and the cloud are outside the repository and modelled from how the      *)
(* consumer uses them.                                                     *)
(*                                                                         *)
(* The module describes one machine: job names, working directories and    *)
(* terraform states of different machines have nothing in common.  There   *)
(* is no prefetch limit, so the handlers of all requests of the queue      *)
(* interleave at their awaits.                                             *)
(***************************************************************************)
EXTENDS VmStatus, Naturals, FiniteSets

CONSTANTS
  Requests,      \* deliveries of the request queue
  NoJob,         \* the incarnation of a job name that is free
  BackoffLimit,  \* retries of a Job whose pod failed
  MaxFaults      \* bound on crashes, refused calls and dying pods

ASSUME ConstantsAssumption ==
  /\ NoJob \notin Requests
  /\ BackoffLimit \in Nat
  /\ MaxFaults \in Nat

VARIABLES
  request,      \* the action of each request and its handler's next call
  job,          \* per action, the Job that has the name: the request that created it
  pod,          \* per Job, what its pod does
  retries,      \* per Job, its pods that failed so far
  lock,         \* the Job whose pod holds terraform's state lock
  cloud,        \* the machines that exist
  state,        \* the machines that terraform's state records
  interrupted,  \* machines whose pod ended between making and recording them
  progress,     \* lines in the queue vm_provisioning_progress
  served,       \* a request and a Job of its action whose command ended after its receipt
  faults        \* faults so far

runner == <<lock, cloud, state, interrupted>>
vars   == <<request, job, pod, retries, runner, progress, served, faults>>

-----------------------------------------------------------------------------
(* A request is unsent, in the queue, or with its handler: the folder is   *)
(* copied (CREATE only) before the acknowledgement, the calls of           *)
(* ackAndPublish and createTerraformJob come after it.                     *)

NoAction == "NONE"

Unacked  == {"queued", "copy"}
Calling  == {"announce", "read", "delete", "create"}
Stage    == {"unsent", "done"} \cup Unacked \cup Calling
Request  == [action : JobAction \cup {NoAction}, pc : Stage]

\* A Job without a pod has not started yet or waits for its next retry.
Running  == {"init", "locked", "changed", "recorded"}
PodState == {"none", "ended"} \cup Running

\* jobStatus.active > 0.
Active(q) == pod[q] \in Running

\* A machine bears the name of the pod that made it.
Machines == Requests \X (0..BackoffLimit)
Machine(q) == <<q, retries[q]>>

Line == [machine : Machines, action : JobAction, kind : LogKind]

Emit(q, kinds) ==
  progress' = progress \cup
    {[machine |-> Machine(q), action |-> request[q].action, kind |-> k] : k \in kinds}

Received(q) == request[q].pc \in Calling \cup {"done"}

Goto(q, pc)   == request' = [request EXCEPT ![q].pc = pc]
PodGoes(q, s) == pod' = [pod EXCEPT ![q] = s]

-----------------------------------------------------------------------------
Init ==
  /\ request = [q \in Requests |-> [action |-> NoAction, pc |-> "unsent"]]
  /\ job = [a \in JobAction |-> NoJob]
  /\ pod = [q \in Requests |-> "none"]
  /\ retries = [q \in Requests |-> 0]
  /\ lock = NoJob
  /\ cloud = {} /\ state = {} /\ interrupted = {}
  /\ progress = {}
  /\ served = {}
  /\ faults = 0

\* The outbox publishes; a second publication is another request.
Publish(q, action) ==
  /\ request[q].pc = "unsent"
  /\ request' = [request EXCEPT ![q] = [action |-> action, pc |-> "queued"]]
  /\ UNCHANGED <<job, pod, retries, runner, progress, served, faults>>

\* The switch of the consumer; DESTROY and REFRESH are acknowledged at once.
Consume(q) ==
  /\ request[q].pc = "queued"
  /\ Goto(q, IF request[q].action = CREATE THEN "copy" ELSE "announce")
  /\ UNCHANGED <<job, pod, retries, runner, progress, served, faults>>

\* generateTfVarFile, and the acknowledgement.
generateTfVarFile(q) ==
  /\ request[q].pc = "copy"
  /\ Goto(q, "announce")
  /\ UNCHANGED <<job, pod, retries, runner, progress, served, faults>>

\* assertQueue and sendToQueue of the '..._QUEUED' line, which changes no status.
ackAndPublish(q) ==
  /\ request[q].pc = "announce"
  /\ Goto(q, "read")
  /\ UNCHANGED <<job, pod, retries, runner, progress, served, faults>>

\* A 404 goes on to the creation.
readNamespacedJob(q) ==
  LET found == job[request[q].action] IN
  /\ request[q].pc = "read"
  /\ Goto(q, CASE found = NoJob              -> "create"
               [] found # NoJob /\ Active(found)  -> "done"
               [] found # NoJob /\ ~Active(found) -> "delete")
  /\ UNCHANGED <<job, pod, retries, runner, progress, served, faults>>

\* Mutant: the 404 of a Job that is gone by now ends the handler.
DeleteNotFound(q) ==
  /\ request[q].pc = "delete"
  /\ job' = [job EXCEPT ![request[q].action] = NoJob]
  /\ Goto(q, IF job[request[q].action] = NoJob THEN "done" ELSE "create")
  /\ UNCHANGED <<pod, retries, runner, progress, served, faults>>

\* By name: the Job that was read, the one another handler created since, or
\* none, which is a 404 again.
deleteNamespacedJob(q) ==
  /\ request[q].pc = "delete"
  /\ job' = [job EXCEPT ![request[q].action] = NoJob]
  /\ Goto(q, "create")
  /\ UNCHANGED <<pod, retries, runner, progress, served, faults>>

\* A second later.  A name that is taken is a 409, which is logged.
createNamespacedJob(q) ==
  LET a == request[q].action IN
  /\ request[q].pc = "create"
  /\ job' = IF job[a] = NoJob THEN [job EXCEPT ![a] = q] ELSE job
  /\ Goto(q, "done")
  /\ UNCHANGED <<pod, retries, runner, progress, served, faults>>

-----------------------------------------------------------------------------
(* Kubernetes.                                                             *)

\* The Job exists.
HasName(q) == \E a \in JobAction : job[a] = q

StartPod(q) ==
  /\ HasName(q)
  /\ pod[q] = "none"
  /\ PodGoes(q, "init")
  /\ UNCHANGED <<request, job, retries, runner, progress, served, faults>>

\* What a pod leaves behind when it ends before its command does.  The lock
\* on the state file goes with the process.
Leave(q) ==
  /\ lock' = IF lock = q THEN NoJob ELSE lock
  /\ interrupted' = IF pod[q] = "changed" THEN interrupted \cup ({Machine(q)} \cap cloud)
                    ELSE interrupted
  /\ UNCHANGED <<cloud, state>>

\* The pods of a deleted Job are ended in the background, at some time.
CollectPod(q) ==
  /\ Active(q)
  /\ ~HasName(q)
  /\ PodGoes(q, "ended")
  /\ Leave(q)
  /\ UNCHANGED <<request, job, retries, progress, served, faults>>

\* ttlSecondsAfterFinished.
ExpireJob(a) ==
  /\ job[a] # NoJob
  /\ pod[job[a]] = "ended"
  /\ job' = [job EXCEPT ![a] = NoJob]
  /\ UNCHANGED <<request, pod, retries, runner, progress, served, faults>>

-----------------------------------------------------------------------------
(* The pod: 'terraform init && terraform <command> -json | python3         *)
(* /send_to_rabbitmq.py'.  The pipe exits with the status of the script:   *)
(* a command that fails completes its Job, and is not retried.             *)

\* The waiting requests of an action that were received before it ended.
Serves(q) == {p \in Requests : request[p].action = request[q].action /\ Received(p)}

\* The command ends, with the line that says how.  Of the lines before, those
\* that say no more than the request did to the row are left out.
End(q, kinds) ==
  /\ PodGoes(q, "ended")
  /\ Emit(q, kinds)
  /\ served' = served \cup {<<p, q>> : p \in Serves(q)}

\* Mutant: the command runs without the lock.
RunUnlocked(q) ==
  /\ pod[q] = "init"
  /\ lock' = q
  /\ PodGoes(q, "locked")
  /\ UNCHANGED <<request, job, retries, cloud, state, interrupted, progress, served, faults>>

AcquireLock(q) ==
  /\ pod[q] = "init"
  /\ lock = NoJob
  /\ lock' = q
  /\ PodGoes(q, "locked")
  /\ UNCHANGED <<request, job, retries, cloud, state, interrupted, progress, served, faults>>

\* No -lock-timeout: 'Error acquiring the state lock'.
LockHeld(q) ==
  /\ pod[q] = "init"
  /\ lock # NoJob
  /\ End(q, {"error"})
  /\ UNCHANGED <<request, job, retries, runner, faults>>

\* A CREATE whose machine exists has nothing to do.
Apply(q) ==
  LET a     == request[q].action
      makes == a = CREATE /\ cloud \cap state = {}
  IN
  /\ pod[q] = "locked"
  /\ PodGoes(q, "changed")
  /\ cloud' = CASE makes       -> cloud \cup {Machine(q)}
                [] a = DESTROY -> cloud \ state
                [] OTHER       -> cloud
  /\ IF makes \/ a = DESTROY THEN Emit(q, {"apply"}) ELSE UNCHANGED progress
  /\ UNCHANGED <<request, job, retries, lock, state, interrupted, served, faults>>

\* Mutant: what the pod made is in a state file of its own, not on the volume.
RecordInPod(q) ==
  /\ pod[q] = "changed"
  /\ PodGoes(q, "recorded")
  /\ state' = state \cap cloud
  /\ lock' = NoJob
  /\ UNCHANGED <<request, job, retries, cloud, interrupted, progress, served, faults>>

\* terraform writes the state it knows, then gives back the lock.
RecordState(q) ==
  LET made == {Machine(q)} \cap cloud IN
  /\ pod[q] = "changed"
  /\ PodGoes(q, "recorded")
  /\ state' = (state \cap cloud) \cup made
  /\ lock' = NoJob
  /\ UNCHANGED <<request, job, retries, cloud, interrupted, progress, served, faults>>

\* Mutant: the last line of a destroy has a kind the service has no rule for.
FinalKindsUnknown == [CREATE |-> {"completed_outputs"}, DESTROY |-> {"destroyed"},
                      REFRESH |-> {"outputs"}]

FinalKinds == [CREATE |-> {"completed_outputs"}, DESTROY |-> {"destroy_complete"},
               REFRESH |-> {"outputs"}]

Finish(q) ==
  /\ pod[q] = "recorded"
  /\ End(q, FinalKinds[request[q].action])
  /\ UNCHANGED <<request, job, retries, runner, faults>>

-----------------------------------------------------------------------------
(* Faults.                                                                 *)

\* The consumer dies (an error of fs.copy or assertQueue is an unhandled
\* rejection and ends it, too): the broker redelivers what was not acknowledged.
ConsumerCrash ==
  /\ request' = [q \in Requests |->
                   CASE request[q].pc \in Unacked -> [request[q] EXCEPT !.pc = "queued"]
                     [] request[q].pc \in Calling -> [request[q] EXCEPT !.pc = "done"]
                     [] OTHER                     -> request[q]]
  /\ UNCHANGED <<job, pod, retries, runner, progress, served>>

\* A call fails: a full buffer ends the handler, as does a refused creation;
\* a refused read or delete is logged and the creation tried.
CallFails(q) ==
  /\ request[q].pc \in Calling
  /\ Goto(q, IF request[q].pc \in {"read", "delete"} THEN "create" ELSE "done")
  /\ UNCHANGED <<job, pod, retries, runner, progress, served>>

\* 'terraform init' fails, or the node or the script dies, and with the script
\* terraform, at its next line.
PodFails(q) ==
  /\ Active(q)
  /\ IF retries[q] < BackoffLimit
     THEN PodGoes(q, "none") /\ retries' = [retries EXCEPT ![q] = retries[q] + 1]
     ELSE PodGoes(q, "ended") /\ UNCHANGED retries
  /\ Leave(q)
  /\ UNCHANGED <<request, job, progress, served>>

\* The provider refuses what the plan asks for.
ApplyFails(q) ==
  /\ pod[q] = "locked"
  /\ lock' = NoJob
  /\ End(q, {"error"})
  /\ UNCHANGED <<request, job, retries, cloud, state, interrupted>>

Fault ==
  /\ faults < MaxFaults
  /\ faults' = faults + 1
  /\ \/ ConsumerCrash
     \/ \E q \in Requests : CallFails(q) \/ PodFails(q) \/ ApplyFails(q)

-----------------------------------------------------------------------------
Handle(q) ==
  \/ Consume(q) \/ generateTfVarFile(q) \/ ackAndPublish(q)
  \/ readNamespacedJob(q) \/ deleteNamespacedJob(q) \/ createNamespacedJob(q)

RunPod(q) ==
  \/ StartPod(q) \/ AcquireLock(q) \/ LockHeld(q)
  \/ Apply(q) \/ RecordState(q) \/ Finish(q)

Next ==
  \/ \E q \in Requests :
       \/ \E a \in JobAction : Publish(q, a)
       \/ Handle(q) \/ RunPod(q) \/ CollectPod(q)
  \/ \E a \in JobAction : ExpireJob(a)
  \/ Fault

Spec == Init /\ [][Next]_vars

(***************************************************************************)
(* The broker delivers, the consumer's event loop runs the continuation of *)
(* every call that answers, Kubernetes starts the pods of the Jobs it has  *)
(* and collects those of deleted ones, and terraform commands end.         *)
(***************************************************************************)
Fairness == \A q \in Requests : WF_vars(Handle(q)) /\ WF_vars(RunPod(q)) /\ WF_vars(CollectPod(q))

FairSpec == Spec /\ Fairness

-----------------------------------------------------------------------------
(* Properties.                                                             *)

Served(q) == \E p \in Requests : <<q, p>> \in served

\* Machines, lines and locks belong to requests that exist, within the bounds on
\* retries and faults.
TypeOK ==
  /\ request \in [Requests -> Request]
  /\ job \in [JobAction -> Requests \cup {NoJob}]
  /\ pod \in [Requests -> PodState]
  /\ retries \in [Requests -> 0..BackoffLimit]
  /\ lock \in Requests \cup {NoJob}
  /\ cloud \subseteq Machines /\ state \subseteq Machines /\ interrupted \subseteq Machines
  /\ progress \subseteq Line
  /\ served \subseteq Requests \X Requests
  /\ faults \in 0..MaxFaults

\* Every machine is in terraform's state, so that a DESTROY reaches it, unless
\* its pod is about to record it or was ended before it could: Jobs that run at
\* the same time in one directory do not overwrite what the other recorded.
NoStrayMachine ==
  \A m \in cloud \ (state \cup interrupted) :
    lock # NoJob /\ pod[lock] = "changed" /\ m = Machine(lock)

\* However many CREATE requests of a machine run, and in whatever order their
\* Jobs are deleted, created and retried, they make one machine, as long as
\* none of their pods is ended between making it and recording it.
OneMachine == \A m, n \in cloud \ interrupted : m = n

\* "Don't create a new job if one is already running".
OneRunner ==
  \A p, q \in Requests :
    Active(p) /\ Active(q) /\ request[p].action = request[q].action => p = q

\* Unless a call or a crash got in the way, a request whose handler is done and
\* that no command has served yet can rely on a Job of its action: the one that
\* has the name and has not ended, or one that another handler, which has just
\* deleted that, is about to create.
NoRequestDropped ==
  \A q \in Requests :
    LET a == request[q].action IN
    request[q].pc = "done" /\ ~Served(q) /\ faults = 0 =>
      IF job[a] # NoJob THEN pod[job[a]] # "ended"
      ELSE \E p \in Requests : request[p].pc = "create" /\ request[p].action = a

\* Jobs of one machine that overlap, are deleted while they run, retried and
\* killed change the cloud as commands would that run one after the other: a
\* CREATE makes a machine only if there is none but orphans, a DESTROY removes all
\* but orphans, and what a later command does not know is an orphan of a pod that
\* was ended between making and recording it.
Terraform == INSTANCE OneTerraform WITH exists <- cloud, known <- cloud \ interrupted

ImplementsOneTerraform == Terraform!Spec

\* A request that is received is followed by a command of its action that runs
\* to its end: whatever the handlers of other requests read, skip, delete and
\* fail to create in between, no request is dropped without a fault.
EveryRequestServed ==
  \A q \in Requests : request[q].pc = "queued" ~> (Served(q) \/ faults > 0)
=============================================================================
