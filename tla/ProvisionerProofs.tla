------------------------- MODULE ProvisionerProofs -------------------------
(***************************************************************************)
(* Proofs about Provisioner, for any number of requests, retries and       *)
(* faults.  The lemmas about single steps leave open what happens to the   *)
(* lines in the queue, so that Pipeline can use them, too.                 *)
(***************************************************************************)
EXTENDS Provisioner, TLAPS

\* What TypeOK says of everything but the queue of lines and the faults.
TypeInv ==
  /\ request \in [Requests -> Request]
  /\ job \in [JobAction -> Requests \cup {NoJob}]
  /\ pod \in [Requests -> PodState]
  /\ retries \in [Requests -> 0..BackoffLimit]
  /\ lock \in Requests \cup {NoJob}
  /\ cloud \subseteq Machines /\ state \subseteq Machines /\ interrupted \subseteq Machines
  /\ served \subseteq Requests \X Requests

\* Jobs and pods belong to requests that were published.
Published ==
  /\ \A a \in JobAction : job[a] # NoJob => request[job[a]].action \in JobAction
  /\ \A q \in Requests : pod[q] # "none" => request[q].action \in JobAction

\* Who reads or writes the state holds its lock.
LockHeldByWriter == \A q \in Requests : pod[q] \in {"locked", "changed"} => lock = q

IInv == TypeInv /\ Published /\ LockHeldByWriter /\ NoStrayMachine /\ OneMachine

\* A handler of the consumer, and Kubernetes where it starts pods and expires
\* Jobs: steps that concern neither locks nor machines.
Quiet ==
  /\ UNCHANGED <<retries, runner>>
  /\ \A q \in Requests : pod'[q] \in {"locked", "changed"} => pod'[q] = pod[q]
  /\ \A q \in Requests : pod[q] \in {"locked", "changed"} => pod'[q] = pod[q]

-----------------------------------------------------------------------------
\* Every step that changes none of what the invariant speaks of keeps it.
LEMMA QuietKeepsMachines ==
  ASSUME IInv, Quiet, TypeInv'
  PROVE  LockHeldByWriter' /\ NoStrayMachine' /\ OneMachine'
  <1> USE DEF IInv, Quiet, runner
  <1>1. LockHeldByWriter'
    BY DEF LockHeldByWriter
  <1>2. NoStrayMachine'
    BY ConstantsAssumption DEF NoStrayMachine, Machine, TypeInv
  <1>3. OneMachine'
    BY DEF OneMachine
  <1> QED
    BY <1>1, <1>2, <1>3

\* A request is published.
LEMMA PublishKeepsIInv ==
  ASSUME IInv, NEW q \in Requests, NEW a \in JobAction, Publish(q, a)
  PROVE  IInv'
  <1> USE DEF IInv, Publish
  <1>1. Quiet
    BY DEF Quiet, runner
  <1>2. TypeInv'
    BY DEF TypeInv, Request, Stage, Unacked, runner
  <1>3. \A p \in Requests : request'[p].action = request[p].action \/ request'[p].action = a
    BY DEF TypeInv, Request
  <1>4. Published'
    BY <1>3, ConstantsAssumption DEF Published, TypeInv
  <1> QED
    BY <1>1, <1>2, <1>4, QuietKeepsMachines

\* A handler goes on, and its Job may be deleted.
LEMMA GotoKeepsIInv ==
  ASSUME IInv, NEW q \in Requests, NEW pc \in Stage, Goto(q, pc),
         job' = job \/ \E a : job' = [job EXCEPT ![a] = NoJob],
         UNCHANGED <<pod, retries, runner, served>>
  PROVE  IInv'
  <1> USE DEF IInv
  <1>1. Quiet
    BY DEF Quiet
  <1>2. TypeInv'
    <2>1. request' \in [Requests -> Request]
      BY DEF TypeInv, Goto, Request
    <2>2. job' \in [JobAction -> Requests \cup {NoJob}]
      BY DEF TypeInv
    <2> QED
      BY <2>1, <2>2 DEF TypeInv, runner
  <1>3. \A p \in Requests : request'[p].action = request[p].action
    BY DEF TypeInv, Goto, Request
  <1>4. \A a \in JobAction : job'[a] # NoJob => job'[a] = job[a] /\ job[a] \in Requests
    BY DEF TypeInv
  <1>5. Published'
    BY <1>3, <1>4 DEF Published
  <1> QED
    BY <1>1, <1>2, <1>5, QuietKeepsMachines

\* The consumer's handler of one request.
LEMMA HandleKeepsIInv ==
  ASSUME IInv, NEW q \in Requests, Handle(q)
  PROVE  IInv'
  <1> USE DEF Stage, Unacked, Calling
  <1>1. CASE Consume(q)
    BY <1>1, GotoKeepsIInv DEF Consume, runner
  <1>2. CASE generateTfVarFile(q)
    BY <1>2, GotoKeepsIInv DEF generateTfVarFile
  <1>3. CASE ackAndPublish(q)
    BY <1>3, GotoKeepsIInv DEF ackAndPublish
  <1>4. CASE readNamespacedJob(q)
    <2>1. PICK pc \in Stage : Goto(q, pc)
      BY <1>4 DEF readNamespacedJob, Active
    <2> QED
      BY <1>4, <2>1, GotoKeepsIInv DEF readNamespacedJob
  <1>5. CASE deleteNamespacedJob(q)
    BY <1>5, GotoKeepsIInv DEF deleteNamespacedJob
  <1>6. CASE createNamespacedJob(q)
    <2> USE <1>6 DEF createNamespacedJob, IInv
    <2>1. Quiet
      BY DEF Quiet
    <2>2. TypeInv'
      <3>1. request' \in [Requests -> Request]
        BY DEF TypeInv, Goto, Request
      <3>2. job' \in [JobAction -> Requests \cup {NoJob}]
        BY DEF TypeInv
      <3> QED
        BY <3>1, <3>2 DEF TypeInv, runner
    <2>3. \A p \in Requests : request'[p].action = request[p].action
      BY DEF TypeInv, Goto, Request
    <2>4. \A a \in JobAction :
            job'[a] = job[a] \/ (job'[a] = q /\ a = request[q].action)
      BY DEF TypeInv
    <2>5. Published'
      BY <2>3, <2>4, ConstantsAssumption DEF Published, TypeInv
    <2> QED
      BY <2>1, <2>2, <2>5, QuietKeepsMachines
  <1> QED
    BY <1>1, <1>2, <1>3, <1>4, <1>5, <1>6 DEF Handle

\* A crash or a refused call of the consumer.
LEMMA CrashKeepsIInv ==
  ASSUME IInv, ConsumerCrash \/ (\E q \in Requests : CallFails(q))
  PROVE  IInv'
  <1>1. ASSUME NEW q \in Requests, CallFails(q)
        PROVE  IInv'
    BY <1>1, GotoKeepsIInv DEF CallFails, Stage, Unacked, Calling
  <1>2. CASE ConsumerCrash
    <2> USE <1>2 DEF ConsumerCrash, IInv
    <2>1. Quiet
      BY DEF Quiet
    <2>2. ASSUME NEW p \in Requests
          PROVE  request'[p] \in Request /\ request'[p].action = request[p].action
      <3>1. request[p] \in Request
        BY DEF TypeInv
      <3>2. \A pc \in Stage : /\ [request[p] EXCEPT !.pc = pc] \in Request
                              /\ [request[p] EXCEPT !.pc = pc].action = request[p].action
        BY <3>1 DEF Request
      <3>3. \/ request'[p] = request[p]
            \/ \E pc \in Stage : request'[p] = [request[p] EXCEPT !.pc = pc]
        BY DEF Stage, Unacked, Calling
      <3> QED
        BY <3>1, <3>2, <3>3
    <2>3. TypeInv'
      <3>1. request' = [p \in Requests |-> request'[p]]
        OBVIOUS
      <3>2. request' \in [Requests -> Request]
        BY <2>2, <3>1
      <3> QED
        BY <3>2 DEF TypeInv, runner
    <2>4. Published'
      BY <2>2, ConstantsAssumption DEF Published, TypeInv
    <2> QED
      BY <2>1, <2>3, <2>4, QuietKeepsMachines
  <1> QED
    BY <1>1, <1>2

\* Kubernetes removes the name of a Job that is done.
LEMMA ExpireJobKeepsIInv ==
  ASSUME IInv, NEW a \in JobAction, ExpireJob(a)
  PROVE  IInv'
  <1> USE DEF IInv, ExpireJob
  <1>1. Quiet
    BY DEF Quiet
  <1>2. TypeInv'
    BY DEF TypeInv, runner
  <1>3. Published'
    BY DEF Published, TypeInv
  <1> QED
    BY <1>1, <1>2, <1>3, QuietKeepsMachines

-----------------------------------------------------------------------------
\* The commands of pods.  A pod that writes the state is the only one.
LEMMA RunPodKeepsIInv ==
  ASSUME IInv, NEW q \in Requests, RunPod(q)
  PROVE  IInv'
  <1> USE DEF IInv
  <1>1. CASE StartPod(q)
    <2> USE <1>1 DEF StartPod, PodGoes
    <2>1. Quiet
      BY DEF Quiet, TypeInv
    <2>2. TypeInv'
      BY DEF TypeInv, PodState, Running, runner
    <2>3. request[q].action \in JobAction
      BY ConstantsAssumption DEF HasName, Published
    <2>4. Published'
      BY <2>3 DEF Published, TypeInv
    <2> QED
      BY <2>1, <2>2, <2>4, QuietKeepsMachines
  <1>2. CASE AcquireLock(q)
    <2> USE <1>2 DEF AcquireLock, PodGoes
    <2>1. TypeInv'
      BY DEF TypeInv, PodState, Running
    <2>2. Published'
      BY DEF Published, TypeInv
    <2>3. LockHeldByWriter'
      BY ConstantsAssumption DEF LockHeldByWriter, TypeInv
    <2>4. NoStrayMachine'
      BY DEF NoStrayMachine
    <2>5. OneMachine'
      BY DEF OneMachine
    <2> QED
      BY <2>1, <2>2, <2>3, <2>4, <2>5
  <1>3. CASE (LockHeld(q) \/ Finish(q)) /\ pod[q] \in {"init", "recorded"}
    <2>1. /\ pod' = [pod EXCEPT ![q] = "ended"] /\ served' \subseteq Requests \X Requests
          /\ UNCHANGED <<request, job, retries, runner>>
      BY <1>3 DEF LockHeld, Finish, End, PodGoes, Serves, TypeInv
    <2>2. Quiet
      BY <1>3, <2>1 DEF Quiet, TypeInv
    <2>3. TypeInv'
      BY <2>1 DEF TypeInv, PodState, runner
    <2>4. Published'
      BY <1>3, <2>1 DEF Published, TypeInv
    <2> QED
      BY <2>2, <2>3, <2>4, QuietKeepsMachines
  <1>4. CASE Apply(q)
    <2> USE <1>4 DEF Apply, PodGoes
    <2> DEFINE M == Machine(q)
    <2>1. M \in Machines /\ M' = M
      BY DEF Machine, Machines, TypeInv
    <2>2. lock = q /\ q # NoJob /\ pod[q] = "locked"
      BY ConstantsAssumption DEF LockHeldByWriter
    <2>3. cloud \subseteq state \cup interrupted
      BY <2>2 DEF NoStrayMachine
    <2>4. \/ cloud' = cloud
          \/ cloud' = cloud \ state
          \/ cloud' = cloud \cup {M} /\ cloud \cap state = {}
      OBVIOUS
    <2>5. TypeInv'
      BY <2>1, <2>4 DEF TypeInv, PodState, Running
    <2>6. Published'
      BY DEF Published, TypeInv
    <2>7. LockHeldByWriter'
      BY <2>2 DEF LockHeldByWriter, TypeInv
    <2>8. NoStrayMachine'
      <3>1. lock' = q /\ pod'[q] = "changed"
        BY <2>2 DEF TypeInv
      <3>2. Machine(lock)' = M
        BY <2>2 DEF Machine
      <3>3. cloud' \ (state' \cup interrupted') \subseteq {M}
        BY <2>3, <2>4
      <3> QED
        BY <2>2, <3>1, <3>2, <3>3 DEF NoStrayMachine
    <2>9. OneMachine'
      BY <2>3, <2>4 DEF OneMachine
    <2> QED
      BY <2>5, <2>6, <2>7, <2>8, <2>9
  <1>5. CASE RecordState(q)
    <2> USE <1>5 DEF RecordState, PodGoes
    <2> DEFINE M == Machine(q)
    <2>1. lock = q
      BY DEF LockHeldByWriter
    <2>2. cloud \ (state \cup interrupted) \subseteq {M}
      BY <2>1 DEF NoStrayMachine
    <2>3. state' = (state \cap cloud) \cup ({M} \cap cloud)
      OBVIOUS
    <2>4. TypeInv'
      BY <2>3 DEF TypeInv, PodState, Running
    <2>5. Published'
      BY DEF Published, TypeInv
    <2>6. LockHeldByWriter'
      BY <2>1 DEF LockHeldByWriter, TypeInv
    <2>7. NoStrayMachine'
      BY <2>2, <2>3 DEF NoStrayMachine
    <2>8. OneMachine'
      BY DEF OneMachine
    <2> QED
      BY <2>4, <2>5, <2>6, <2>7, <2>8
  <1>6. LockHeld(q) => pod[q] \in {"init", "recorded"}
    BY DEF LockHeld
  <1>7. Finish(q) => pod[q] \in {"init", "recorded"}
    BY DEF Finish
  <1> QED
    BY <1>1, <1>2, <1>3, <1>4, <1>5, <1>6, <1>7 DEF RunPod

\* A pod that ends before its command does takes its lock with it, and its
\* machine is among the interrupted ones if it is not recorded.
LEMMA LeaveKeepsIInv ==
  ASSUME IInv, NEW q \in Requests, Active(q), Leave(q),
         NEW s \in {"none", "ended"}, PodGoes(q, s),
         retries' \in [Requests -> 0..BackoffLimit],
         \A p \in Requests : p # q => retries'[p] = retries[p],
         UNCHANGED <<request, job, served>>
  PROVE  IInv'
  <1> USE DEF IInv, Leave, PodGoes
  <1> DEFINE M == Machine(q)
  <1>1. pod[q] = "changed" => cloud \ (state \cup interrupted) \subseteq {M}
    BY DEF LockHeldByWriter, NoStrayMachine
  <1>2. lock = q => cloud \subseteq state \cup interrupted'
    <2>1. CASE pod[q] = "changed"
      BY <1>1, <2>1
    <2>2. CASE lock = q /\ pod[q] # "changed"
      BY <2>2 DEF NoStrayMachine
    <2> QED
      BY <2>1, <2>2
  <1>3. interrupted \subseteq interrupted' /\ interrupted' \subseteq interrupted \cup cloud
    OBVIOUS
  <1>4. TypeInv'
    BY <1>3 DEF TypeInv, PodState
  <1>5. Published'
    BY DEF Published, TypeInv, Active, Running
  <1>6. LockHeldByWriter'
    BY DEF LockHeldByWriter, TypeInv
  <1>7. NoStrayMachine'
    <2>1. CASE lock = q
      BY <1>2, <2>1 DEF NoStrayMachine
    <2>2. ASSUME lock # q, NEW m \in cloud' \ (state' \cup interrupted')
          PROVE  lock' # NoJob /\ pod'[lock'] = "changed" /\ m = Machine(lock)'
      <3>1. lock # NoJob /\ pod[lock] = "changed" /\ m = Machine(lock)
        BY <1>3, <2>2 DEF NoStrayMachine
      <3>2. lock' = lock /\ lock \in Requests \ {q}
        BY <2>2, <3>1 DEF TypeInv
      <3>3. pod'[lock'] = pod[lock] /\ Machine(lock)' = Machine(lock)
        BY <3>2 DEF TypeInv, Machine
      <3> QED
        BY <3>1, <3>2, <3>3
    <2> QED
      BY <2>1, <2>2 DEF NoStrayMachine
  <1>8. OneMachine'
    BY <1>3 DEF OneMachine
  <1> QED
    BY <1>4, <1>5, <1>6, <1>7, <1>8

\* Kubernetes ends the pod of a deleted Job.
LEMMA CollectPodKeepsIInv ==
  ASSUME IInv, NEW q \in Requests, CollectPod(q)
  PROVE  IInv'
  BY LeaveKeepsIInv DEF CollectPod, IInv, TypeInv

\* A pod fails, or its command does.
LEMMA PodFaultKeepsIInv ==
  ASSUME IInv, NEW q \in Requests, PodFails(q) \/ ApplyFails(q)
  PROVE  IInv'
  <1>1. CASE PodFails(q)
    <2> USE <1>1 DEF PodFails
    <2>1. retries' \in [Requests -> 0..BackoffLimit]
      BY ConstantsAssumption DEF IInv, TypeInv
    <2>2. \A p \in Requests : p # q => retries'[p] = retries[p]
      BY DEF IInv, TypeInv
    <2>3. PICK s \in {"none", "ended"} : PodGoes(q, s)
      OBVIOUS
    <2> QED
      BY <2>1, <2>2, <2>3, LeaveKeepsIInv
  <1>2. CASE ApplyFails(q)
    <2> USE <1>2 DEF ApplyFails, End, PodGoes, IInv
    <2>1. lock = q
      BY DEF LockHeldByWriter
    <2>2. cloud \subseteq state \cup interrupted
      BY <2>1 DEF NoStrayMachine
    <2>3. TypeInv'
      BY DEF TypeInv, PodState, Serves
    <2>4. Published'
      BY DEF Published, TypeInv
    <2>5. LockHeldByWriter'
      BY <2>1 DEF LockHeldByWriter, TypeInv
    <2>6. NoStrayMachine'
      BY <2>2 DEF NoStrayMachine
    <2>7. OneMachine'
      BY DEF OneMachine
    <2> QED
      BY <2>3, <2>4, <2>5, <2>6, <2>7
  <1> QED
    BY <1>1, <1>2

-----------------------------------------------------------------------------
\* Lines are emitted by the pods of published requests.
EmitsLines == progress' \subseteq progress \cup Line

LEMMA EmitIsLines ==
  ASSUME IInv, NEW q \in Requests, pod[q] # "none", NEW kinds \in SUBSET LogKind, Emit(q, kinds)
  PROVE  EmitsLines
  <1>1. request[q].action \in JobAction /\ Machine(q) \in Machines
    BY DEF IInv, Published, TypeInv, Machine, Machines
  <1>2. ASSUME NEW k \in kinds
        PROVE  [machine |-> Machine(q), action |-> request[q].action, kind |-> k] \in Line
    BY <1>1 DEF Line
  <1> QED
    BY <1>2 DEF Emit, EmitsLines

\* What the steps other than Publish add to the queue.
LEMMA StepEmitsLines ==
  ASSUME IInv,
         \/ \E q \in Requests : Handle(q) \/ RunPod(q) \/ CollectPod(q) \/ PodFails(q) \/ ApplyFails(q) \/ CallFails(q)
         \/ \E a \in JobAction : ExpireJob(a)
         \/ ConsumerCrash
  PROVE  EmitsLines
  <1>1. ASSUME NEW q \in Requests, RunPod(q) \/ ApplyFails(q)
        PROVE  EmitsLines
    <2>1. CASE LockHeld(q) \/ ApplyFails(q)
      BY <2>1, EmitIsLines DEF LockHeld, ApplyFails, End, LogKind
    <2>2. CASE Finish(q)
      <3>1. request[q].action \in JobAction
        BY <2>2 DEF Finish, IInv, Published
      <3>2. FinalKinds[request[q].action] \in SUBSET LogKind
        BY <3>1 DEF FinalKinds, JobAction, LogKind, CREATE, DESTROY, REFRESH
      <3> QED
        BY <2>2, <3>2, EmitIsLines DEF Finish, End
    <2>3. CASE Apply(q)
      <3>1. Emit(q, {"apply"}) \/ UNCHANGED progress
        BY <2>3 DEF Apply
      <3> QED
        BY <2>3, <3>1, EmitIsLines DEF Apply, LogKind, EmitsLines
    <2> QED
      BY <1>1, <2>1, <2>2, <2>3 DEF RunPod, StartPod, AcquireLock, RecordState, EmitsLines
  <1>2. ASSUME NEW q \in Requests, Handle(q)
        PROVE  EmitsLines
    BY <1>2 DEF Handle, Consume, generateTfVarFile, ackAndPublish, readNamespacedJob,
           deleteNamespacedJob, createNamespacedJob, EmitsLines
  <1> QED
    BY <1>1, <1>2 DEF CollectPod, PodFails, CallFails, ExpireJob, ConsumerCrash, EmitsLines

-----------------------------------------------------------------------------
LEMMA IInvHoldsInitially == Init => IInv /\ progress = {} /\ faults = 0
  BY ConstantsAssumption
     DEF Init, IInv, TypeInv, Published, LockHeldByWriter, NoStrayMachine, OneMachine,
         Request, Stage, PodState, NoAction

\* Everything a request does, except that it is published.
LEMMA StepKeepsIInv ==
  ASSUME IInv,
         \/ \E q \in Requests : Handle(q) \/ RunPod(q) \/ CollectPod(q)
         \/ \E a \in JobAction : ExpireJob(a)
         \/ Fault
  PROVE  IInv'
  BY HandleKeepsIInv, RunPodKeepsIInv, CollectPodKeepsIInv, ExpireJobKeepsIInv,
     CrashKeepsIInv, PodFaultKeepsIInv DEF Fault

LEMMA IInvIsInductive == IInv /\ TypeOK /\ [Next]_vars => IInv' /\ TypeOK'
  <1> SUFFICES ASSUME IInv, TypeOK, [Next]_vars PROVE IInv' /\ TypeOK'
    OBVIOUS
  <1>1. CASE \E q \in Requests, a \in JobAction : Publish(q, a)
    BY <1>1, PublishKeepsIInv DEF Publish, TypeOK, TypeInv, IInv
  <1>2. CASE \/ \E q \in Requests : Handle(q) \/ RunPod(q) \/ CollectPod(q)
             \/ \E a \in JobAction : ExpireJob(a)
             \/ Fault
    <2>1. IInv'
      BY <1>2, StepKeepsIInv
    <2>2. EmitsLines
      BY <1>2, StepEmitsLines DEF Fault
    <2>3. faults' \in 0..MaxFaults
      <3>1. CASE Fault
        BY <3>1, ConstantsAssumption DEF Fault, TypeOK
      <3>2. ASSUME NEW q \in Requests, Handle(q) \/ RunPod(q) \/ CollectPod(q)
            PROVE  UNCHANGED faults
        BY <3>2 DEF Handle, Consume, generateTfVarFile, ackAndPublish, readNamespacedJob,
             deleteNamespacedJob, createNamespacedJob, RunPod, StartPod, AcquireLock, LockHeld,
             Apply, RecordState, Finish, CollectPod
      <3> QED
        BY <1>2, <3>1, <3>2 DEF ExpireJob, TypeOK
    <2> QED
      BY <2>1, <2>2, <2>3 DEF EmitsLines, TypeOK, IInv, TypeInv
  <1>3. CASE UNCHANGED vars
    BY <1>3 DEF vars, runner, IInv, TypeInv, Published, LockHeldByWriter, NoStrayMachine,
                OneMachine, Machine, TypeOK
  <1> QED
    BY <1>1, <1>2, <1>3 DEF Next

LEMMA Inductive == Spec => [](IInv /\ TypeOK)
  <1>1. Init => IInv /\ TypeOK
    BY IInvHoldsInitially, ConstantsAssumption DEF IInv, TypeInv, TypeOK
  <1> QED
    BY <1>1, IInvIsInductive, PTL DEF Spec

\* Requests, Jobs, pods and lines stay what the code makes them.
THEOREM TypeCorrect == Spec => []TypeOK
  BY Inductive, PTL

\* Jobs of one machine that run at the same time, are deleted while they run,
\* retried and killed never make terraform forget a machine that one of them
\* recorded.
THEOREM NeverStrayMachine == Spec => []NoStrayMachine
  <1>1. IInv => NoStrayMachine
    BY DEF IInv
  <1> QED
    BY <1>1, Inductive, PTL

\* Any number of CREATE requests make one machine, as long as no pod is ended
\* between making and recording it.
THEOREM AlwaysOneMachine == Spec => []OneMachine
  <1>1. IInv => OneMachine
    BY DEF IInv
  <1> QED
    BY <1>1, Inductive, PTL

-----------------------------------------------------------------------------
(* No request is dropped.  NoRequestDropped is not inductive: its handlers *)
(* pass through states in which they trust a Job that another handler has  *)
(* deleted, or are about to find its name taken.                           *)

\* A Job belongs to a request of its action whose handler is done, and so does
\* a pod: the handler creates the Job with its last call.
JobsInv ==
  /\ \A q \in Requests : request[q].pc # "unsent" => request[q].action \in JobAction
  /\ \A a \in JobAction : job[a] # NoJob => request[job[a]].action = a /\ request[job[a]].pc = "done"
  /\ \A q \in Requests : pod[q] # "none" => request[q].pc = "done"

\* Requests that no command has served and whose handlers have read, deleted or
\* created all they will before the last call.
Trusts(q) == request[q].pc \in {"create", "done"} /\ ~Served(q)

\* The Job such a request will find has not ended: what it trusts serves it.
JobsTrusted ==
  \A q \in Requests :
    LET a == request[q].action IN
    Trusts(q) /\ job[a] # NoJob => pod[job[a]] # "ended"

\* The name is free only while somebody is about to take it.
NameAwaited ==
  \A q \in Requests :
    LET a == request[q].action IN
    Trusts(q) /\ job[a] = NoJob => \E p \in Requests : request[p].pc = "create" /\ request[p].action = a

RelyInv == JobsInv /\ (faults = 0 => JobsTrusted /\ NameAwaited)

\* The consumer's handlers up to the creation change neither Jobs nor pods.
LEMMA GotoKeepsRely ==
  ASSUME IInv, RelyInv, NEW q \in Requests, NEW pc \in Stage \ {"unsent"}, Goto(q, pc),
         request[q].pc \notin {"unsent", "create", "done"},
         pc = "done" => LET a == request[q].action IN job[a] # NoJob /\ pod[job[a]] # "ended",
         pc = "create" => job[request[q].action] = NoJob,
         UNCHANGED <<job, pod, served, faults>>
  PROVE  RelyInv'
  <1> USE DEF IInv, RelyInv
  <1>1. /\ \A p \in Requests : request'[p].action = request[p].action
        /\ \A p \in Requests \ {q} : request'[p] = request[p]
        /\ request'[q].pc = pc
    BY DEF TypeInv, Goto, Request
  <1>2. JobsInv'
    BY <1>1 DEF JobsInv, TypeInv
  <1>3. ASSUME JobsTrusted, NameAwaited
        PROVE  JobsTrusted' /\ NameAwaited'
    <2>1. JobsTrusted'
      BY <1>1, <1>3 DEF JobsTrusted, Trusts, Served
    <2>2. NameAwaited'
      BY <1>1, <1>3 DEF NameAwaited, Trusts, Served
    <2> QED
      BY <2>1, <2>2
  <1> QED
    BY <1>2, <1>3


\* A deletion frees the name for the handler that is about to create a Job.
LEMMA DeleteKeepsRely ==
  ASSUME IInv, RelyInv, NEW q \in Requests, deleteNamespacedJob(q)
  PROVE  RelyInv'
  <1> USE DEF IInv, RelyInv, deleteNamespacedJob
  <1> DEFINE a == request[q].action
  <1>1. /\ \A p \in Requests : request'[p].action = request[p].action
        /\ \A p \in Requests \ {q} : request'[p] = request[p]
        /\ request'[q].pc = "create"
    BY DEF TypeInv, Goto, Request
  <1>2. /\ a \in JobAction /\ job'[a] = NoJob
        /\ \A b \in JobAction \ {a} : job'[b] = job[b]
    BY DEF JobsInv, TypeInv
  <1>3. JobsInv'
    BY <1>1, <1>2 DEF JobsInv, TypeInv
  <1>4. ASSUME JobsTrusted, NameAwaited
        PROVE  JobsTrusted' /\ NameAwaited'
    <2>1. \A p \in Requests : Trusts(p)' => (p = q \/ Trusts(p)) /\ request'[p].action \in JobAction
      BY <1>1, <1>3 DEF Trusts, JobsInv, Served
    <2>2. JobsTrusted'
      BY <1>1, <1>2, <1>4, <2>1 DEF JobsTrusted
    <2>3. NameAwaited'
      BY <1>1, <1>2, <1>4, <2>1 DEF NameAwaited
    <2> QED
      BY <2>2, <2>3
  <1> QED
    BY <1>3, <1>4

\* A creation takes the name if it is free; if not, the Job that has it has not
\* ended.
LEMMA CreateKeepsRely ==
  ASSUME IInv, RelyInv, NEW q \in Requests, createNamespacedJob(q)
  PROVE  RelyInv'
  <1> USE DEF IInv, RelyInv, createNamespacedJob
  <1> DEFINE a == request[q].action
  <1>1. /\ \A p \in Requests : request'[p].action = request[p].action
        /\ \A p \in Requests \ {q} : request'[p] = request[p]
        /\ request'[q].pc = "done"
    BY DEF TypeInv, Goto, Request
  <1>2. /\ a \in JobAction
        /\ job'[a] = IF job[a] = NoJob THEN q ELSE job[a]
        /\ \A b \in JobAction \ {a} : job'[b] = job[b]
    BY DEF JobsInv, TypeInv
  <1>3. pod[q] = "none" /\ q # NoJob
    BY ConstantsAssumption DEF JobsInv
  <1>4. JobsInv'
    BY <1>1, <1>2, <1>3 DEF JobsInv, TypeInv
  <1>5. ASSUME JobsTrusted, NameAwaited
        PROVE  JobsTrusted' /\ NameAwaited'
    <2>1. \A p \in Requests : Trusts(p)' => Trusts(p) /\ request'[p].action \in JobAction
      BY <1>1, <1>4 DEF Trusts, JobsInv, Served
    <2>2. JobsTrusted'
      BY <1>1, <1>2, <1>3, <1>5, <2>1 DEF JobsTrusted
    <2>3. NameAwaited'
      BY <1>1, <1>2, <1>3, <1>5, <2>1 DEF NameAwaited
    <2> QED
      BY <2>2, <2>3
  <1> QED
    BY <1>4, <1>5

LEMMA HandleKeepsRely ==
  ASSUME IInv, RelyInv, NEW q \in Requests, Handle(q)
  PROVE  RelyInv'
  <1> USE DEF Stage, Unacked, Calling
  <1>1. CASE Consume(q)
    BY <1>1, GotoKeepsRely DEF Consume
  <1>2. CASE generateTfVarFile(q)
    BY <1>2, GotoKeepsRely DEF generateTfVarFile
  <1>3. CASE ackAndPublish(q)
    BY <1>3, GotoKeepsRely DEF ackAndPublish
  <1>4. CASE readNamespacedJob(q)
    <2> DEFINE found == job[request[q].action]
    <2>1. CASE found = NoJob
      BY <1>4, <2>1, GotoKeepsRely DEF readNamespacedJob
    <2>2. CASE found # NoJob /\ Active(found)
      BY <1>4, <2>2, GotoKeepsRely DEF readNamespacedJob, Active, Running
    <2>3. CASE found # NoJob /\ ~Active(found)
      BY <1>4, <2>3, GotoKeepsRely DEF readNamespacedJob
    <2> QED
      BY <2>1, <2>2, <2>3
  <1> QED
    BY <1>1, <1>2, <1>3, <1>4, DeleteKeepsRely, CreateKeepsRely DEF Handle

\* A request that is published has neither a Job nor a command that served it.
LEMMA PublishKeepsRely ==
  ASSUME IInv, RelyInv, NEW q \in Requests, NEW a \in JobAction, Publish(q, a)
  PROVE  RelyInv'
  <1> USE DEF IInv, RelyInv, Publish
  <1>1. /\ \A p \in Requests \ {q} : request'[p] = request[p]
        /\ request'[q].action = a /\ request'[q].pc = "queued"
    BY DEF TypeInv
  <1>2. JobsInv'
    BY <1>1 DEF JobsInv, TypeInv
  <1>3. \A p \in Requests : Trusts(p)' => Trusts(p) /\ p # q
    BY <1>1 DEF Trusts, Served
  <1>4. ASSUME JobsTrusted, NameAwaited
        PROVE  JobsTrusted' /\ NameAwaited'
    BY <1>1, <1>3, <1>4 DEF JobsTrusted, NameAwaited
  <1> QED
    BY <1>2, <1>4

\* The name of a Job expires when nobody needs it any more.
LEMMA ExpireKeepsRely ==
  ASSUME IInv, RelyInv, NEW b \in JobAction, ExpireJob(b)
  PROVE  RelyInv'
  <1> USE DEF IInv, RelyInv, ExpireJob
  <1>1. job'[b] = NoJob /\ \A a \in JobAction \ {b} : job'[a] = job[a]
    BY DEF TypeInv
  <1>2. JobsInv'
    BY <1>1 DEF JobsInv
  <1>3. ASSUME JobsTrusted, NameAwaited
        PROVE  JobsTrusted' /\ NameAwaited'
    <2>1. \A p \in Requests : Trusts(p)' => Trusts(p) /\ request[p].action \in JobAction \ {b}
      BY <1>3 DEF Trusts, JobsInv, JobsTrusted, Served
    <2> QED
      BY <1>1, <1>3, <2>1 DEF JobsTrusted, NameAwaited
  <1> QED
    BY <1>2, <1>3


\* A pod goes on.  When the pod of a Job that has the name ends, its command has
\* served whoever trusts it.
LEMMA PodKeepsRely ==
  ASSUME IInv, RelyInv, NEW q \in Requests, NEW s, PodGoes(q, s),
         pod[q] # "none" \/ HasName(q),
         served \subseteq served',
         s = "ended" => ~HasName(q) \/ {<<p, q>> : p \in Serves(q)} \subseteq served',
         UNCHANGED <<request, job, faults>>
  PROVE  RelyInv'
  <1> USE DEF IInv, RelyInv
  <1>1. \A p \in Requests : pod'[p] = IF p = q THEN s ELSE pod[p]
    BY DEF PodGoes, TypeInv
  <1>2. JobsInv'
    BY <1>1, ConstantsAssumption DEF JobsInv, HasName
  <1>3. ASSUME JobsTrusted, NameAwaited
        PROVE  JobsTrusted' /\ NameAwaited'
    <2>1. \A p \in Requests : Trusts(p)' => Trusts(p)
      BY DEF Trusts, Served
    <2>2. NameAwaited'
      BY <1>3, <2>1 DEF NameAwaited
    <2>3. ASSUME NEW p \in Requests, Trusts(p)', job[request[p].action] # NoJob
          PROVE  pod'[job[request[p].action]] # "ended"
      <3> DEFINE a == request[p].action
      <3>1. a \in JobAction /\ job[a] \in Requests /\ request[job[a]].action = a
        BY <2>1, <2>3 DEF Trusts, JobsInv, TypeInv
      <3>2. pod[job[a]] # "ended"
        BY <1>3, <2>1, <2>3 DEF JobsTrusted
      <3>3. CASE job[a] = q
        <4>1. HasName(q) /\ p \in Serves(q)
          BY <2>1, <2>3, <3>1, <3>3 DEF HasName, Serves, Received, Trusts, Calling
        <4>2. <<p, q>> \notin served'
          BY <2>3 DEF Trusts, Served
        <4> QED
          BY <1>1, <3>3, <4>1, <4>2
      <3>4. CASE job[a] # q
        BY <1>1, <3>1, <3>2, <3>4
      <3> QED
        BY <3>3, <3>4
    <2>4. JobsTrusted'
      BY <2>3 DEF JobsTrusted
    <2> QED
      BY <2>2, <2>4
  <1> QED
    BY <1>2, <1>3

LEMMA RunPodKeepsRely ==
  ASSUME IInv, RelyInv, NEW q \in Requests, RunPod(q) \/ CollectPod(q)
  PROVE  RelyInv'
  <1> USE PodKeepsRely DEF IInv
  <1>1. CASE StartPod(q)
    BY <1>1 DEF StartPod, TypeInv
  <1>2. CASE AcquireLock(q) \/ Apply(q) \/ RecordState(q)
    BY <1>2 DEF AcquireLock, Apply, RecordState, TypeInv
  <1>3. CASE LockHeld(q) \/ Finish(q)
    BY <1>3 DEF LockHeld, Finish, End, Serves, TypeInv
  <1>4. CASE CollectPod(q)
    BY <1>4 DEF CollectPod, Active, Running, TypeInv
  <1> QED
    BY <1>1, <1>2, <1>3, <1>4 DEF RunPod

\* After a fault only JobsInv is left to show.
LEMMA FaultKeepsRely ==
  ASSUME IInv, RelyInv, faults \in Nat, Fault
  PROVE  RelyInv'
  <1> USE DEF IInv, RelyInv, Fault
  <1>1. faults' # 0
    OBVIOUS
  <1>2. CASE ConsumerCrash
    <2> USE <1>2 DEF ConsumerCrash
    <2>1. ASSUME NEW p \in Requests
          PROVE  /\ request'[p].action = request[p].action
                 /\ request[p].pc = "done" => request'[p].pc = "done"
                 /\ request'[p].pc # "unsent" => request[p].pc # "unsent"
      <3>1. request[p] \in Request
        BY DEF TypeInv
      <3>2. \A pc \in Stage : /\ [request[p] EXCEPT !.pc = pc].pc = pc
                              /\ [request[p] EXCEPT !.pc = pc].action = request[p].action
        BY <3>1 DEF Request
      <3>3. CASE request[p].pc \in Unacked
        BY <3>2, <3>3 DEF Unacked, Stage
      <3>4. CASE request[p].pc \in Calling
        BY <3>2, <3>4 DEF Calling, Unacked, Stage
      <3>5. CASE request[p].pc \notin Unacked \cup Calling
        BY <3>5
      <3> QED
        BY <3>3, <3>4, <3>5
    <2>2. JobsInv'
      BY <2>1, ConstantsAssumption DEF JobsInv, TypeInv
    <2> QED
      BY <1>1, <2>2
  <1>3. ASSUME NEW q \in Requests, CallFails(q)
        PROVE  RelyInv'
    <2> USE <1>3 DEF CallFails
    <2>1. /\ \A p \in Requests : request'[p].action = request[p].action
          /\ \A p \in Requests \ {q} : request'[p] = request[p]
          /\ request[q].pc \notin {"unsent", "done"}
      BY DEF Goto, TypeInv, Request, Calling
    <2>2. JobsInv'
      BY <2>1, ConstantsAssumption DEF JobsInv, TypeInv
    <2> QED
      BY <1>1, <2>2
  <1>4. ASSUME NEW q \in Requests, PodFails(q) \/ ApplyFails(q)
        PROVE  RelyInv'
    <2>1. \A p \in Requests : pod'[p] # "none" => pod[p] # "none"
      BY <1>4 DEF PodFails, ApplyFails, End, PodGoes, Active, Running, TypeInv
    <2>2. JobsInv'
      BY <1>4, <2>1 DEF JobsInv, PodFails, ApplyFails
    <2> QED
      BY <1>1, <2>2
  <1> QED
    BY <1>2, <1>3, <1>4

-----------------------------------------------------------------------------
LEMMA RelyInvHoldsInitially == Init => RelyInv
  BY DEF Init, RelyInv, JobsInv, JobsTrusted, NameAwaited, Trusts

LEMMA StepKeepsRely ==
  ASSUME IInv, RelyInv, faults \in Nat,
         \/ \E q \in Requests : Handle(q) \/ RunPod(q) \/ CollectPod(q)
         \/ \E a \in JobAction : ExpireJob(a)
         \/ Fault
  PROVE  RelyInv'
  BY HandleKeepsRely, RunPodKeepsRely, ExpireKeepsRely, FaultKeepsRely

LEMMA RelyIsInductive == IInv /\ TypeOK /\ RelyInv /\ [Next]_vars => RelyInv'
  <1> SUFFICES ASSUME IInv, TypeOK, RelyInv, [Next]_vars PROVE RelyInv'
    OBVIOUS
  <1>1. faults \in Nat
    BY ConstantsAssumption DEF TypeOK
  <1>2. CASE UNCHANGED vars
    BY <1>2 DEF vars, RelyInv, JobsInv, JobsTrusted, NameAwaited, Trusts, Served
  <1> QED
    BY <1>1, <1>2, PublishKeepsRely, StepKeepsRely DEF Next

\* What a request that trusts the others comes to.
LEMMA RelyMeansNotDropped == RelyInv => NoRequestDropped
  BY DEF RelyInv, JobsTrusted, NameAwaited, Trusts, NoRequestDropped

\* Handlers that read, skip, delete and fail to create each other's Jobs, pods
\* that end and names that expire at any time: unless a call or a crash got in
\* the way, a request that was given up is served by a Job that is there or
\* about to be.
THEOREM NothingDropped == Spec => []NoRequestDropped
  BY RelyInvHoldsInitially, RelyIsInductive, Inductive, RelyMeansNotDropped, PTL DEF Spec


-----------------------------------------------------------------------------
(* Overlapping Jobs look like one terraform.  A DESTROY must remove what   *)
(* OneTerraform calls known: what the state records is not interrupted,    *)
(* which takes that no two pods use one name for a machine.                *)

\* An earlier pod of the Job made the machine.
Old(m) == m[2] < retries[m[1]]

\* How far the pod has come that made a machine, recorded it, or left it behind.
NamesInv ==
  /\ \A m \in cloud : Old(m) \/ (m = Machine(m[1]) /\ pod[m[1]] \in {"changed", "recorded", "ended"})
  /\ \A m \in state : Old(m) \/ (m = Machine(m[1]) /\ pod[m[1]] \in {"recorded", "ended"})
  /\ \A m \in interrupted : Old(m) \/ (m = Machine(m[1]) /\ pod[m[1]] = "ended")
  /\ state \cap interrupted = {}

known == cloud \ interrupted

\* The name of a pod that has not made anything is new.
LEMMA NewName ==
  ASSUME IInv, NamesInv, NEW q \in Requests
  PROVE  /\ Machine(q) \in Machines /\ Machine(q)[1] = q /\ ~Old(Machine(q))
         /\ pod[q] \notin {"changed", "recorded", "ended"} => Machine(q) \notin cloud
         /\ pod[q] \notin {"recorded", "ended"} => Machine(q) \notin state
         /\ pod[q] # "ended" => Machine(q) \notin interrupted
  <1>1. /\ Machine(q) \in Machines /\ Machine(q)[1] = q
        /\ Machine(q)[2] = retries[q] /\ retries[q] \in Nat
    BY ConstantsAssumption DEF IInv, TypeInv, Machine, Machines
  <1>2. ~Old(Machine(q))
    BY <1>1 DEF Old
  <1> QED
    BY <1>1, <1>2 DEF NamesInv

\* A pod that goes on with what exists and is recorded as it was.
LEMMA PodKeepsNames ==
  ASSUME IInv, NamesInv, NEW q \in Requests, NEW s, PodGoes(q, s),
         pod[q] = "changed"  => s \in {"recorded", "ended"},
         pod[q] = "recorded" => s = "ended",
         pod[q] # "ended",
         UNCHANGED retries,
         cloud' \subseteq cloud,
         state' \subseteq state, interrupted' \subseteq interrupted
  PROVE  NamesInv'
  <1>1. \A p \in Requests : pod'[p] = IF p = q THEN s ELSE pod[p]
    BY DEF PodGoes, IInv, TypeInv
  <1>2. \A m \in Machines : m[1] \in Requests
    BY DEF Machines
  <1>3. \A m \in cloud' \cup state' \cup interrupted' : m \in Machines
    BY DEF IInv, TypeInv
  <1> QED
    BY <1>1, <1>2, <1>3 DEF NamesInv, Old, Machine


\* What a step does to the machines, as OneTerraform has it.
TerraformStep == Terraform!Next \/ UNCHANGED <<cloud, known>>

LEMMA ApplyIsOneTerraform ==
  ASSUME IInv, NamesInv, NEW q \in Requests, Apply(q)
  PROVE  NamesInv' /\ TerraformStep
  <1> USE DEF Apply
  <1> DEFINE M == Machine(q)
  <1>1. /\ M \in Machines /\ M[1] = q /\ ~Old(M)
        /\ M \notin cloud /\ M \notin state /\ M \notin interrupted
    BY NewName
  <1>2. cloud \subseteq state \cup interrupted
    BY DEF IInv, LockHeldByWriter, NoStrayMachine
  <1>3. /\ \A p \in Requests : pod'[p] = IF p = q THEN "changed" ELSE pod[p]
        /\ M' = M
    BY DEF PodGoes, IInv, TypeInv, Machine
  <1>4. \/ cloud' = cloud
        \/ cloud' = cloud \ state
        \/ cloud' = cloud \cup {M} /\ cloud \cap state = {}
    OBVIOUS
  <1>5. NamesInv'
    <2>1. \A m \in cloud \cup state \cup interrupted : m[1] \in Requests /\ (Old(m)' <=> Old(m)) /\ Machine(m[1])' = Machine(m[1])
      BY DEF IInv, TypeInv, Machines, Old, Machine
    <2>2. ASSUME NEW m \in cloud'
          PROVE  Old(m)' \/ (m = Machine(m[1])' /\ pod'[m[1]] \in {"changed", "recorded", "ended"})
      <3>1. CASE m \in cloud
        BY <1>3, <2>1, <3>1 DEF NamesInv
      <3>2. CASE m = M
        BY <1>1, <1>3, <3>2
      <3> QED
        BY <1>4, <3>1, <3>2
    <2>3. \A m \in state \cup interrupted : m[1] = q => Old(m)
      BY DEF NamesInv
    <2> QED
      BY <1>3, <2>1, <2>2, <2>3 DEF NamesInv
  <1>6. TerraformStep
    <2>1. CASE cloud' = cloud
      BY <2>1 DEF TerraformStep, known
    <2>2. CASE cloud' = cloud \ state
      <3>1. cloud' = cloud \ known /\ known' = {}
        BY <1>2, <2>2 DEF known, NamesInv
      <3> QED
        BY <3>1 DEF TerraformStep, Terraform!Next, Terraform!Remove, known
    <2>3. CASE cloud' = cloud \cup {M} /\ cloud \cap state = {}
      <3>1. known = {} /\ known' = {M}
        BY <1>1, <1>2, <2>3 DEF known
      <3> QED
        BY <1>1, <2>3, <3>1 DEF TerraformStep, Terraform!Next, Terraform!Make, known
    <2> QED
      BY <1>4, <2>1, <2>2, <2>3
  <1> QED
    BY <1>5, <1>6

\* What is recorded has been made by the pod that records it, or before.
LEMMA RecordIsOneTerraform ==
  ASSUME IInv, NamesInv, NEW q \in Requests, RecordState(q)
  PROVE  NamesInv' /\ TerraformStep
  <1> USE DEF RecordState
  <1> DEFINE M == Machine(q)
  <1>1. M[1] = q /\ M \notin interrupted
    BY NewName
  <1>2. /\ \A p \in Requests : pod'[p] = IF p = q THEN "recorded" ELSE pod[p]
        /\ M' = M
    BY DEF PodGoes, IInv, TypeInv, Machine
  <1>3. state' = (state \cap cloud) \cup ({M} \cap cloud)
    OBVIOUS
  <1>4. \A m \in cloud \cup state \cup interrupted : m[1] \in Requests /\ (Old(m)' <=> Old(m)) /\ Machine(m[1])' = Machine(m[1])
    BY DEF IInv, TypeInv, Machines, Old, Machine
  <1>5. NamesInv'
    <2>1. \A m \in state' : Old(m)' \/ (m = Machine(m[1])' /\ pod'[m[1]] \in {"recorded", "ended"})
      BY <1>1, <1>2, <1>3, <1>4 DEF NamesInv
    <2>2. state' \cap interrupted' = {}
      BY <1>1, <1>3 DEF NamesInv
    <2> QED
      BY <1>2, <1>4, <2>1, <2>2 DEF NamesInv
  <1> QED
    BY <1>5 DEF TerraformStep, known

\* A pod that is ended early leaves an orphan, or nothing.
LEMMA LeaveIsOneTerraform ==
  ASSUME IInv, NamesInv, NEW q \in Requests, Active(q), Leave(q),
         NEW s \in {"none", "ended"}, PodGoes(q, s),
         \/ s = "ended" /\ UNCHANGED retries
         \/ retries' = [retries EXCEPT ![q] = retries[q] + 1]
  PROVE  NamesInv' /\ TerraformStep
  <1> USE DEF Leave
  <1> DEFINE M == Machine(q)
  <1>1. /\ M \in Machines /\ M[1] = q
        /\ pod[q] = "changed" => M \notin state /\ M \notin interrupted
    BY NewName DEF Active, Running
  <1>2. /\ \A p \in Requests : pod'[p] = IF p = q THEN s ELSE pod[p]
        /\ \A p \in Requests : retries[p] \in Nat
        /\ \A p \in Requests \ {q} : retries'[p] = retries[p]
        /\ retries'[q] = retries[q] + 1 \/ (retries'[q] = retries[q] /\ s = "ended")
    BY DEF PodGoes, IInv, TypeInv
  <1>3. \/ interrupted' = interrupted
        \/ pod[q] = "changed" /\ M \in cloud /\ interrupted' = interrupted \cup {M}
    OBVIOUS
  <1>4. ASSUME NEW m \in cloud \cup state \cup interrupted
        PROVE  /\ m[1] \in Requests
               /\ m[1] # q => (Old(m)' <=> Old(m)) /\ Machine(m[1])' = Machine(m[1]) /\ pod'[m[1]] = pod[m[1]]
               /\ m[1] = q => Old(m)' \/ (m = Machine(q)' /\ pod'[q] = "ended")
    <2>1. m \in Machines /\ m[1] \in Requests /\ m[2] \in Nat
      BY ConstantsAssumption DEF IInv, TypeInv, Machines
    <2>2. m[1] # q => (Old(m)' <=> Old(m)) /\ Machine(m[1])' = Machine(m[1]) /\ pod'[m[1]] = pod[m[1]]
      BY <1>2, <2>1 DEF Old, Machine
    <2>3. m[1] = q => Old(m) \/ m = M
      BY DEF NamesInv
    <2>4. Old(m) /\ m[1] = q => Old(m)'
      BY <1>2, <2>1 DEF Old
    <2>5. M[2] = retries[q]
      BY DEF Machine
    <2>6. m = M => Old(m)' \/ (m = Machine(q)' /\ pod'[q] = "ended")
      <3>1. CASE retries'[q] = retries[q] + 1
        BY <1>1, <1>2, <2>5, <3>1 DEF Old
      <3>2. CASE retries'[q] = retries[q] /\ s = "ended"
        BY <1>2, <3>2 DEF Machine
      <3> QED
        BY <1>2, <3>1, <3>2
    <2> QED
      BY <2>1, <2>2, <2>3, <2>4, <2>6
  <1>5. NamesInv'
    <2>1. \A m \in interrupted' : m \in cloud \cup interrupted /\ (m \in interrupted \/ m[1] = q)
      BY <1>1, <1>3
    <2>2. state' \cap interrupted' = {}
      BY <1>1, <1>3 DEF NamesInv
    <2> QED
      BY <1>4, <2>1, <2>2 DEF NamesInv
  <1>6. TerraformStep
    <2>1. CASE interrupted' = interrupted
      BY <2>1 DEF TerraformStep, known
    <2>2. CASE pod[q] = "changed" /\ M \in cloud /\ interrupted' = interrupted \cup {M}
      <3>1. M \in known /\ known' = known \ {M} /\ cloud' = cloud
        BY <1>1, <2>2 DEF known
      <3> QED
        BY <1>1, <3>1 DEF TerraformStep, Terraform!Next, Terraform!Orphan, known
    <2> QED
      BY <1>3, <2>1, <2>2
  <1> QED
    BY <1>5, <1>6


\* The commands of pods, and the faults that end them.
LEMMA RunPodIsOneTerraform ==
  ASSUME IInv, NamesInv, NEW q \in Requests,
         RunPod(q) \/ CollectPod(q) \/ PodFails(q) \/ ApplyFails(q)
  PROVE  NamesInv' /\ TerraformStep
  <1>1. CASE StartPod(q)
    BY <1>1, PodKeepsNames DEF StartPod, TerraformStep, known, runner
  <1>2. CASE AcquireLock(q)
    BY <1>2, PodKeepsNames DEF AcquireLock, TerraformStep, known
  <1>3. CASE LockHeld(q) \/ Finish(q) \/ ApplyFails(q)
    BY <1>3, PodKeepsNames DEF LockHeld, Finish, ApplyFails, End, TerraformStep, known, runner
  <1>4. CASE CollectPod(q)
    BY <1>4, LeaveIsOneTerraform DEF CollectPod
  <1>5. CASE PodFails(q)
    BY <1>5, LeaveIsOneTerraform DEF PodFails
  <1> QED
    BY <1>1, <1>2, <1>3, <1>4, <1>5, ApplyIsOneTerraform, RecordIsOneTerraform DEF RunPod

\* Steps that concern no machine.
LEMMA OthersAreOneTerraform ==
  ASSUME NamesInv, UNCHANGED <<pod, retries, runner>>
  PROVE  NamesInv' /\ TerraformStep
  BY DEF NamesInv, Old, Machine, TerraformStep, known, runner

LEMMA StepIsOneTerraform ==
  ASSUME IInv, NamesInv,
         \/ \E q \in Requests : Handle(q) \/ RunPod(q) \/ CollectPod(q)
         \/ \E a \in JobAction : ExpireJob(a)
         \/ Fault
  PROVE  NamesInv' /\ TerraformStep
  <1>1. ASSUME NEW q \in Requests, Handle(q) \/ CallFails(q)
        PROVE  UNCHANGED <<pod, retries, runner>>
    BY <1>1 DEF Handle, Consume, generateTfVarFile, ackAndPublish, readNamespacedJob,
           deleteNamespacedJob, createNamespacedJob, CallFails
  <1>2. ASSUME ConsumerCrash \/ \E a \in JobAction : ExpireJob(a)
        PROVE  UNCHANGED <<pod, retries, runner>>
    BY <1>2 DEF ConsumerCrash, ExpireJob
  <1> QED
    BY <1>1, <1>2, OthersAreOneTerraform, RunPodIsOneTerraform DEF Fault

LEMMA NextIsOneTerraform ==
  IInv /\ TypeOK /\ NamesInv /\ [Next]_vars => NamesInv' /\ TerraformStep
  <1> SUFFICES ASSUME IInv, TypeOK, NamesInv, [Next]_vars PROVE NamesInv' /\ TerraformStep
    OBVIOUS
  <1>1. CASE UNCHANGED vars
    BY <1>1, OthersAreOneTerraform DEF vars
  <1>2. ASSUME NEW q \in Requests, NEW a \in JobAction, Publish(q, a)
        PROVE  UNCHANGED <<pod, retries, runner>>
    BY <1>2 DEF Publish
  <1> QED
    BY <1>1, <1>2, OthersAreOneTerraform, StepIsOneTerraform DEF Next

LEMMA NoNamesInitially == Init => NamesInv /\ cloud = {} /\ known = {}
  BY DEF Init, NamesInv, known

\* However many Jobs of a machine overlap, are deleted while they run, retried
\* and killed, the cloud changes as if terraform ran one command at a time.
THEOREM ProvisionerIsOneTerraform == Spec => ImplementsOneTerraform
  <1>1. Init => Terraform!Init
    BY NoNamesInitially DEF Terraform!Init, known
  <1>2. TerraformStep => [Terraform!Next]_<<cloud, known>>
    BY DEF TerraformStep
  <1> QED
    BY <1>1, <1>2, NoNamesInitially, NextIsOneTerraform, Inductive, PTL
       DEF Spec, ImplementsOneTerraform, Terraform!Spec, known

=============================================================================
