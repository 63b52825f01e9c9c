--------------------------- MODULE PipelineProofs ---------------------------
(***************************************************************************)
(* Proofs about Pipeline: what ProvisionerProofs shows of the provisioner  *)
(* holds in the pipeline, and a machine that the service takes for         *)
(* destroyed is gone.                                                      *)
(***************************************************************************)
EXTENDS Pipeline, ProvisionerProofs, VmStatusProofs

\* No CREATE is in progress.
NotCreating ==
  \A q \in Requests : request[q].action = CREATE =>
    request[q].pc = "done" /\ ~Active(q) /\ (HasName(q) => pod[q] # "none")

DestroyRequested == \E q \in Requests : request[q].action = DESTROY

\* Something says that a destroy has emptied the cloud, or is about to say so.
Says(lines) == \E l \in lines : l.kind = "destroy_complete"
SaysGone ==
  \/ \E q \in Requests : request[q].action = DESTROY /\ pod[q] \in {"changed", "recorded"}
  \/ Says(progress) \/ Says(held)
  \/ status = "DESTROYED"

\* The row of a machine with a DESTROY message is on its way out, and stays so.
LeavingInv ==
  /\ DESTROY \in outbox => status \in Leaving
  /\ DestroyRequested => DESTROY \in outbox
  /\ \A q \in Requests : request[q].pc = "unsent" => request[q].action = NoAction

\* Unless the two overlapped, nothing is created after a destroy was requested,
\* so that the cloud is empty once a destroy has emptied it.
GoneInv ==
  /\ SaysGone => DestroyRequested
  /\ ~hasty /\ DestroyRequested => NotCreating
  /\ ~hasty /\ interrupted = {} /\ SaysGone => cloud = {}

PipelineInv == IInv /\ TypeOK /\ held \subseteq Line /\ LeavingInv /\ GoneInv

-----------------------------------------------------------------------------
\* What a step of the provisioner does to the things the invariant speaks of.
Effect ==
  /\ \A q \in Requests : /\ request'[q].action = request[q].action
                         /\ request'[q].pc = "unsent" => request[q].pc = "unsent"
  /\ NotCreating => NotCreating'
  /\ interrupted \subseteq interrupted'
  /\ NotCreating /\ cloud = {} => cloud' = {}
  /\ \A q \in Requests : request[q].action = DESTROY /\ pod'[q] \in {"changed", "recorded"} =>
       pod[q] \in {"changed", "recorded"} \/ (interrupted = {} => cloud' = {})
  /\ Says(progress') => Says(progress) \/ \E q \in Requests : request[q].action = DESTROY /\ pod[q] = "recorded"

\* The consumer's steps.
LEMMA GotoEffect ==
  ASSUME IInv, NEW q \in Requests, NEW pc \in Stage \ {"unsent"}, Goto(q, pc),
         request[q].pc # "done",
         \A p \in Requests \ {q} : HasName(p)' => HasName(p),
         UNCHANGED <<pod, runner, progress>>
  PROVE  Effect
  <1>1. \A p \in Requests : /\ request'[p].action = request[p].action
                            /\ p # q => request'[p] = request[p]
                            /\ request'[p].pc = "unsent" => request[p].pc = "unsent"
    BY DEF Goto, IInv, TypeInv, Request
  <1>2. NotCreating => NotCreating'
    <2> SUFFICES ASSUME NotCreating, NEW p \in Requests, request'[p].action = CREATE
                 PROVE  /\ request'[p].pc = "done" /\ ~Active(p)'
                        /\ HasName(p)' => pod'[p] # "none"
      BY DEF NotCreating
    <2>1. p # q /\ request'[p] = request[p]
      BY <1>1 DEF NotCreating
    <2> QED
      BY <1>1, <2>1 DEF NotCreating, Active
  <1> QED
    BY <1>1, <1>2 DEF Effect, runner

LEMMA HandleEffect ==
  ASSUME IInv, NEW q \in Requests, Handle(q) \/ CallFails(q)
  PROVE  Effect
  <1> USE DEF Stage, Unacked, Calling
  <1>1. CASE Consume(q)
    BY <1>1, GotoEffect DEF Consume, HasName
  <1>2. CASE generateTfVarFile(q)
    BY <1>2, GotoEffect DEF generateTfVarFile, HasName
  <1>3. CASE ackAndPublish(q)
    BY <1>3, GotoEffect DEF ackAndPublish, HasName
  <1>4. CASE readNamespacedJob(q)
    <2>1. PICK pc \in Stage \ {"unsent"} : Goto(q, pc)
      BY <1>4 DEF readNamespacedJob, Active
    <2> QED
      BY <1>4, <2>1, GotoEffect DEF readNamespacedJob, HasName
  <1>5. CASE deleteNamespacedJob(q)
    <2>1. \A p \in Requests : HasName(p)' => HasName(p)
      BY <1>5, ConstantsAssumption DEF deleteNamespacedJob, HasName, IInv, TypeInv
    <2> QED
      BY <1>5, <2>1, GotoEffect DEF deleteNamespacedJob
  <1>6. CASE createNamespacedJob(q)
    <2>1. \A p \in Requests \ {q} : HasName(p)' => HasName(p)
      BY <1>6 DEF createNamespacedJob, HasName, IInv, TypeInv
    <2> QED
      BY <1>6, <2>1, GotoEffect DEF createNamespacedJob
  <1>7. CASE CallFails(q)
    <2>1. PICK pc \in Stage \ {"unsent"} : Goto(q, pc)
      BY <1>7 DEF CallFails
    <2> QED
      BY <1>7, <2>1, GotoEffect DEF CallFails, HasName
  <1> QED
    BY <1>1, <1>2, <1>3, <1>4, <1>5, <1>6, <1>7 DEF Handle

LEMMA CrashEffect ==
  ASSUME IInv, ConsumerCrash
  PROVE  Effect
  <1> USE DEF ConsumerCrash
  <1>1. ASSUME NEW q \in Requests
        PROVE  /\ request'[q].action = request[q].action
               /\ request'[q].pc = "unsent" => request[q].pc = "unsent"
               /\ request[q].pc = "done" => request'[q].pc = "done"
    <2>1. request[q] \in Request
      BY DEF IInv, TypeInv
    <2>2. \A pc \in Stage : /\ [request[q] EXCEPT !.pc = pc].pc = pc
                            /\ [request[q] EXCEPT !.pc = pc].action = request[q].action
      BY <2>1 DEF Request
    <2>3. \/ request'[q] = request[q]
          \/ \E pc \in {"queued", "done"} : request'[q] = [request[q] EXCEPT !.pc = pc]
      OBVIOUS
    <2>4. request[q].pc = "done" => request'[q] = request[q]
      BY DEF Unacked, Calling
    <2> QED
      BY <2>2, <2>3, <2>4 DEF Stage, Unacked
  <1>2. NotCreating => NotCreating'
    BY <1>1 DEF NotCreating, Active, HasName
  <1> QED
    BY <1>1, <1>2 DEF Effect, runner

LEMMA ExpireEffect ==
  ASSUME IInv, NEW a \in JobAction, ExpireJob(a)
  PROVE  Effect
  <1> USE DEF ExpireJob
  <1>1. \A p \in Requests : HasName(p)' => HasName(p)
    BY ConstantsAssumption DEF HasName, IInv, TypeInv
  <1>2. NotCreating => NotCreating'
    BY <1>1 DEF NotCreating, Active
  <1> QED
    BY <1>2 DEF Effect, runner

\* A pod goes on: one of a CREATE only while a CREATE is in progress.
LEMMA PodEffect ==
  ASSUME IInv, NEW q \in Requests, NEW s, PodGoes(q, s), UNCHANGED <<request, job>>,
         Active(q) \/ (HasName(q) /\ pod[q] = "none"),
         interrupted \subseteq interrupted',
         request[q].action # CREATE => cloud' \subseteq cloud,
         s \in {"changed", "recorded"} =>
           pod[q] \in {"changed", "recorded"}
             \/ (request[q].action = DESTROY /\ interrupted = {} => cloud' = {}),
         Says(progress') => Says(progress) \/ (request[q].action = DESTROY /\ pod[q] = "recorded")
  PROVE  Effect
  <1>1. \A p \in Requests : pod'[p] = IF p = q THEN s ELSE pod[p]
    BY DEF PodGoes, IInv, TypeInv
  <1>2. NotCreating => request[q].action # CREATE
    BY DEF NotCreating
  <1>3. NotCreating => NotCreating'
    <2> SUFFICES ASSUME NotCreating, NEW p \in Requests, request'[p].action = CREATE
                 PROVE  /\ request'[p].pc = "done" /\ ~Active(p)'
                        /\ HasName(p)' => pod'[p] # "none"
      BY DEF NotCreating
    <2>1. p # q
      BY <1>2
    <2> QED
      BY <1>1, <2>1 DEF NotCreating, Active, HasName
  <1>4. NotCreating /\ cloud = {} => cloud' = {}
    BY <1>2
  <1>5. \A p \in Requests : request[p].action = DESTROY /\ pod'[p] \in {"changed", "recorded"} =>
          pod[p] \in {"changed", "recorded"} \/ (interrupted = {} => cloud' = {})
    BY <1>1
  <1>6. Says(progress') => Says(progress) \/ \E p \in Requests : request[p].action = DESTROY /\ pod[p] = "recorded"
    OBVIOUS
  <1> QED
    BY <1>3, <1>4, <1>5, <1>6 DEF Effect

\* Which kinds of lines say that the machine is gone.
LEMMA EmitSays ==
  ASSUME NEW q \in Requests, NEW kinds, Emit(q, kinds), Says(progress')
  PROVE  Says(progress) \/ "destroy_complete" \in kinds
  BY DEF Emit, Says

LEMMA RunPodEffect ==
  ASSUME IInv, NEW q \in Requests,
         RunPod(q) \/ CollectPod(q) \/ PodFails(q) \/ ApplyFails(q)
  PROVE  Effect
  <1>1. CASE StartPod(q)
    BY <1>1, PodEffect DEF StartPod, runner
  <1>2. CASE AcquireLock(q)
    BY <1>2, PodEffect DEF AcquireLock, Active, Running
  <1>3. CASE LockHeld(q) \/ ApplyFails(q)
    <2>1. Says(progress') => Says(progress)
      BY <1>3, EmitSays DEF LockHeld, ApplyFails, End
    <2> QED
      BY <1>3, <2>1, PodEffect DEF LockHeld, ApplyFails, End, Active, Running, runner
  <1>4. CASE Apply(q)
    <2> USE <1>4 DEF Apply
    <2>1. lock = q
      BY DEF IInv, LockHeldByWriter
    <2>2. cloud \subseteq state \cup interrupted
      BY <2>1 DEF IInv, NoStrayMachine
    <2>3. /\ request[q].action # CREATE => cloud' \subseteq cloud
          /\ request[q].action = DESTROY => cloud' = cloud \ state
      BY DEF CREATE, DESTROY
    <2>4. Emit(q, {"apply"}) \/ UNCHANGED progress
      OBVIOUS
    <2>5. Says(progress') => Says(progress)
      BY <2>4, EmitSays
    <2> QED
      BY <2>2, <2>3, <2>5, PodEffect DEF Active, Running
  <1>5. CASE RecordState(q)
    BY <1>5, PodEffect DEF RecordState, Active, Running
  <1>6. CASE Finish(q)
    <2>1. request[q].action \in JobAction
      BY <1>6 DEF Finish, IInv, Published
    <2>2. Says(progress') => Says(progress) \/ request[q].action = DESTROY
      <3>1. "destroy_complete" \in FinalKinds[request[q].action] => request[q].action = DESTROY
        BY <2>1 DEF FinalKinds, JobAction, CREATE, DESTROY, REFRESH
      <3> QED
        BY <1>6, <3>1, EmitSays DEF Finish, End
    <2> QED
      BY <1>6, <2>2, PodEffect DEF Finish, End, Active, Running, runner
  <1>7. CASE CollectPod(q)
    BY <1>7, PodEffect DEF CollectPod, Leave
  <1>8. CASE PodFails(q)
    <2>1. PICK s \in {"none", "ended"} : PodGoes(q, s)
      BY <1>8 DEF PodFails
    <2> QED
      BY <1>8, <2>1, PodEffect DEF PodFails, Leave
  <1> QED
    BY <1>1, <1>2, <1>3, <1>4, <1>5, <1>6, <1>7, <1>8 DEF RunPod

-----------------------------------------------------------------------------
\* The provisioner keeps what is known of the row and of the cloud.
LEMMA ProvisionKeepsInv ==
  ASSUME PipelineInv, Provision
  PROVE  PipelineInv'
  <1> USE DEF PipelineInv
  <1>1. Effect
    BY HandleEffect, RunPodEffect, ExpireEffect, CrashEffect DEF Provision, Fault
  <1>2. IInv' /\ TypeOK'
    BY IInvIsInductive DEF Provision, Next
  <1>3. held' \subseteq Line /\ UNCHANGED <<status, outbox, held, answered, hasty>>
    BY DEF Provision, rest, logs
  <1>4. DestroyRequested' <=> DestroyRequested
    BY <1>1 DEF Effect, DestroyRequested
  <1>5. LeavingInv'
    BY <1>1, <1>3, <1>4 DEF LeavingInv, Effect
  <1>6. SaysGone' => SaysGone \/ (DestroyRequested /\ (interrupted = {} => cloud' = {}))
    <2>1. ASSUME NEW q \in Requests, request'[q].action = DESTROY, pod'[q] \in {"changed", "recorded"}
          PROVE  SaysGone \/ (DestroyRequested /\ (interrupted = {} => cloud' = {}))
      BY <1>1, <2>1 DEF Effect, SaysGone, DestroyRequested
    <2>2. Says(progress') => SaysGone
      BY <1>1 DEF Effect, SaysGone
    <2> QED
      BY <1>3, <2>1, <2>2 DEF SaysGone, Says
  <1>7. GoneInv'
    BY <1>1, <1>3, <1>4, <1>6 DEF Effect, GoneInv
  <1> QED
    BY <1>2, <1>3, <1>5, <1>7

\* No line but the last of a destroy says DESTROYED, and nothing brings a row
\* back that is on its way out.
LEMMA LineStatus ==
  ASSUME NEW line \in Line, updateStatus(line)
  PROVE  /\ status \in Leaving => status' \in Leaving
         /\ status' = "DESTROYED" => status = "DESTROYED" \/ line.kind = "destroy_complete"
  <1>1. line.action \in JobAction /\ line.kind \in LogKind
    BY DEF Line
  <1> DEFINE log  == [kind |-> line.kind, ip |-> Undefined]
             next == findStatusFromProvisionLog(log, line.action).status
  <1>2. \A s : s \in Leaving => validNextStates[s] \subseteq Leaving
    BY DEF validNextStates, Leaving
  <1>3. next = "DESTROYED" => line.kind = "destroy_complete"
    BY <1>1 DEF findStatusFromProvisionLog, DestroyCompleted, statusOfKind, JobAction, LogKind,
                CREATE, DESTROY, REFRESH, Undefined
  <1>4. status' = status \/ (status' = next /\ next \in validNextStates[status])
    BY DEF updateStatus, findNextVmState
  <1> QED
    BY <1>2, <1>3, <1>4

\* What the log consumer does to its lines, the row changing as it may.
LEMMA LogKeepsInv ==
  ASSUME PipelineInv, UNCHANGED NotInLog,
         progress' \subseteq progress \cup held, held' \subseteq progress \cup held,
         faults' \in 0..MaxFaults,
         status \in Leaving => status' \in Leaving,
         status' = "DESTROYED" => status = "DESTROYED" \/ Says(progress)
  PROVE  PipelineInv'
  <1> USE DEF PipelineInv
  <1>1. /\ UNCHANGED <<request, job, pod, retries, lock, cloud, state, interrupted>>
        /\ UNCHANGED <<served, outbox, hasty>>
    BY DEF NotInLog, runner
  <1>2. IInv'
    BY <1>1 DEF IInv, TypeInv, Published, LockHeldByWriter, NoStrayMachine, OneMachine, Machine
  <1>3. TypeOK' /\ held' \subseteq Line
    BY <1>1 DEF TypeOK
  <1>4. DestroyRequested' <=> DestroyRequested
    BY <1>1 DEF DestroyRequested
  <1>5. LeavingInv'
    BY <1>1, <1>4 DEF LeavingInv
  <1>6. SaysGone' => SaysGone
    BY <1>1 DEF SaysGone, Says
  <1>7. NotCreating' <=> NotCreating
    BY <1>1 DEF NotCreating, Active, HasName
  <1>8. GoneInv'
    BY <1>1, <1>4, <1>6, <1>7 DEF GoneInv
  <1> QED
    BY <1>2, <1>3, <1>5, <1>8

LEMMA DeliverKeepsInv ==
  ASSUME PipelineInv, Deliver \/ Redeliver
  PROVE  PipelineInv'
  <1>1. CASE Redeliver
    <2>1. progress' = progress \cup held /\ held' = {} /\ UNCHANGED <<faults, status>>
      BY <1>1 DEF Redeliver, Log!Redeliver
    <2> QED
      BY <1>1, <2>1, LogKeepsInv DEF Redeliver, PipelineInv, TypeOK
  <1>2. CASE Deliver
    <2>1. PICK l \in progress :
            \/ (Log!Forward(l) \/ Log!AnswerLost(l)) /\ updateStatus(l)
            \/ (Log!PostFails(l) \/ Log!Swallow(l)) /\ UNCHANGED status
      BY <1>2 DEF Deliver
    <2>2. /\ progress' \subseteq progress /\ held' \subseteq progress \cup held
          /\ faults' \in 0..MaxFaults
      BY <2>1, ConstantsAssumption
         DEF Log!Forward, Log!AnswerLost, Log!PostFails, Log!Swallow, Log!Fail, PipelineInv, TypeOK
    <2>3. l \in Line
      BY DEF PipelineInv, TypeOK
    <2>4. /\ status \in Leaving => status' \in Leaving
          /\ status' = "DESTROYED" => status = "DESTROYED" \/ Says(progress)
      BY <2>1, <2>3, LineStatus DEF Says
    <2> QED
      BY <1>2, <2>2, <2>4, LogKeepsInv DEF Deliver
  <1> QED
    BY <1>1, <1>2

\* The service's own writes to the row and the outbox.
LEMMA RowKeepsInv ==
  ASSUME PipelineInv, UNCHANGED <<vars, logs, hasty>>,
         status' # "DESTROYED" \/ status' = status,
         DESTROY \in outbox' => status' \in Leaving,
         DestroyRequested => DESTROY \in outbox'
  PROVE  PipelineInv'
  <1> USE DEF PipelineInv
  <1>1. /\ UNCHANGED <<request, job, pod, retries, lock, cloud, state, interrupted>>
        /\ UNCHANGED <<progress, served, faults, held, hasty>>
    BY DEF vars, runner, logs
  <1>2. IInv' /\ TypeOK'
    BY <1>1 DEF IInv, TypeInv, Published, LockHeldByWriter, NoStrayMachine, OneMachine, Machine, TypeOK
  <1>3. DestroyRequested' <=> DestroyRequested
    BY <1>1 DEF DestroyRequested
  <1>4. LeavingInv'
    BY <1>1, <1>3 DEF LeavingInv
  <1>5. SaysGone' => SaysGone
    BY <1>1 DEF SaysGone, Says
  <1>6. NotCreating' <=> NotCreating
    BY <1>1 DEF NotCreating, Active, HasName
  <1>7. GoneInv'
    BY <1>1, <1>3, <1>5, <1>6 DEF GoneInv
  <1> QED
    BY <1>1, <1>2, <1>4, <1>7

LEMMA PublishMessageKeepsInv ==
  ASSUME PipelineInv, NEW q \in Requests, NEW a \in JobAction, publishMessage(q, a)
  PROVE  PipelineInv'
  <1> USE DEF PipelineInv, publishMessage, Publish
  <1>1. IInv' /\ TypeOK'
    BY IInvIsInductive DEF Next
  <1>2. /\ UNCHANGED <<job, pod, retries, lock, cloud, state, interrupted>>
        /\ UNCHANGED <<progress, held, status, outbox>>
    BY DEF runner, rest, logs
  <1>3. /\ \A p \in Requests \ {q} : request'[p] = request[p]
        /\ request'[q].action = a /\ request'[q].pc = "queued"
    BY DEF IInv, TypeInv
  <1>4. request[q].action = NoAction
    BY DEF LeavingInv
  <1>5. DestroyRequested' => DestroyRequested \/ a = DESTROY
    BY <1>3 DEF DestroyRequested
  <1>6. DestroyRequested => DestroyRequested'
    BY <1>3, <1>4 DEF DestroyRequested, NoAction, DESTROY
  <1>7. LeavingInv'
    <2>1. DESTROY \in outbox' => status' \in Leaving
      BY <1>2 DEF LeavingInv
    <2>2. DestroyRequested' => DESTROY \in outbox'
      BY <1>2, <1>5 DEF LeavingInv
    <2>3. \A p \in Requests : request'[p].pc = "unsent" => request'[p].action = NoAction
      BY <1>3 DEF LeavingInv
    <2> QED
      BY <2>1, <2>2, <2>3 DEF LeavingInv
  <1>8. pod[q] = "none"
    BY <1>4 DEF IInv, Published, NoAction, JobAction, CREATE, DESTROY, REFRESH
  <1>9. SaysGone' => SaysGone
    BY <1>2, <1>3, <1>8 DEF SaysGone, Says
  <1>10. ~hasty' /\ DestroyRequested' => NotCreating'
    <2> SUFFICES ASSUME ~hasty', DestroyRequested'
                 PROVE  NotCreating'
      OBVIOUS
    <2>1. ~hasty /\ ~(a = CREATE /\ status \in Leaving) /\ ~(a = DESTROY /\ InProgress(CREATE))
      OBVIOUS
    <2>2. status \in Leaving
      BY <1>5 DEF LeavingInv
    <2>3. a # CREATE
      BY <2>1, <2>2
    <2>4. NotCreating
      <3>1. CASE DestroyRequested
        BY <2>1, <3>1 DEF GoneInv
      <3>2. CASE a = DESTROY
        BY <2>1, <3>2 DEF InProgress, NotCreating
      <3> QED
        BY <1>5, <3>1, <3>2
    <2> QED
      BY <1>2, <1>3, <2>3, <2>4 DEF NotCreating, Active, HasName
  <1>11. GoneInv'
    BY <1>2, <1>6, <1>9, <1>10 DEF GoneInv
  <1> QED
    BY <1>1, <1>2, <1>7, <1>11

LEMMA RestKeepsInv ==
  ASSUME PipelineInv, Rest
  PROVE  PipelineInv'
  <1> USE DEF PipelineInv, LeavingInv
  <1>1. CASE createVmInTransaction
    BY <1>1, RowKeepsInv DEF createVmInTransaction, Leaving, NotCreated, CREATE, DESTROY
  <1>2. CASE startVmDestroy
    BY <1>2, RowKeepsInv DEF startVmDestroy, Leaving
  <1>3. CASE captureVmIpJob
    BY <1>3, RowKeepsInv DEF captureVmIpJob, REFRESH, DESTROY
  <1>4. ASSUME NEW u \in UrlAction, callUrl(u)
        PROVE  PipelineInv'
    <2>1. URL_ACTION_TO_VM_STATUS_MAP[u] \in {"INITIALIZING", "RUNNING"}
      BY DEF URL_ACTION_TO_VM_STATUS_MAP
    <2>2. \A s : s \in Leaving => validNextStates[s] \subseteq Leaving
      BY DEF validNextStates, Leaving
    <2>3. /\ status' # "DESTROYED" \/ status' = status
          /\ status \in Leaving => status' \in Leaving
      BY <1>4, <2>1, <2>2 DEF callUrl, findNextVmState
    <2> QED
      BY <1>4, <2>3, RowKeepsInv DEF callUrl
  <1> QED
    BY <1>1, <1>2, <1>3, <1>4, PublishMessageKeepsInv DEF Rest

-----------------------------------------------------------------------------
LEMMA PipelineInvHoldsInitially == PipelineInit => PipelineInv
  <1> SUFFICES ASSUME PipelineInit PROVE PipelineInv
    OBVIOUS
  <1>1. IInv /\ TypeOK
    BY IInvHoldsInitially, ConstantsAssumption DEF PipelineInit, IInv, TypeInv, TypeOK
  <1>2. held = {} /\ progress = {} /\ status = NotCreated /\ outbox = {}
    BY DEF PipelineInit, Log!Init
  <1>3. \A q \in Requests : request[q].action = NoAction /\ pod[q] = "none"
    BY DEF PipelineInit, Init
  <1>4. ~DestroyRequested
    BY <1>3 DEF DestroyRequested, NoAction, DESTROY
  <1>5. ~SaysGone
    BY <1>2, <1>3 DEF SaysGone, Says, NotCreated
  <1> QED
    BY <1>1, <1>2, <1>3, <1>4, <1>5 DEF PipelineInv, LeavingInv, GoneInv

LEMMA PipelineInvIsInductive == PipelineInv /\ [PipelineNext]_pipeline => PipelineInv'
  <1> SUFFICES ASSUME PipelineInv, [PipelineNext]_pipeline PROVE PipelineInv'
    OBVIOUS
  <1>1. CASE UNCHANGED pipeline
    <2>1. UNCHANGED <<vars, logs, hasty>> /\ UNCHANGED <<status, outbox>>
      BY <1>1 DEF pipeline, rest
    <2> QED
      BY <2>1, RowKeepsInv DEF PipelineInv, LeavingInv
  <1> QED
    BY <1>1, RestKeepsInv, ProvisionKeepsInv, DeliverKeepsInv DEF PipelineNext

LEMMA PipelineInvAlways == PipelineSpec => []PipelineInv
  BY PipelineInvHoldsInitially, PipelineInvIsInductive, PTL DEF PipelineSpec

\* In the pipeline, too: types, no machine that terraform forgot, one machine.
THEOREM PipelineKeepsMachines == PipelineSpec => [](TypeOK /\ NoStrayMachine /\ OneMachine)
  <1>1. PipelineInv => TypeOK /\ NoStrayMachine /\ OneMachine
    BY DEF PipelineInv, IInv
  <1> QED
    BY <1>1, PipelineInvAlways, PTL

\* A machine whose row is DESTROYED does not exist, whatever was retried, lost,
\* delivered again or out of order, unless its destruction overlapped its
\* creation or a pod was ended before it recorded what it made.
THEOREM DestroyedIsGone == PipelineSpec => []DestroyedMeansGone
  <1>1. PipelineInv => DestroyedMeansGone
    BY DEF PipelineInv, GoneInv, SaysGone, DestroyedMeansGone
  <1> QED
    BY <1>1, PipelineInvAlways, PTL

-----------------------------------------------------------------------------
(* What flows through the pipeline: requests of recorded messages, lines   *)
(* of their commands, and a result for each that is served.                *)

FlowInv ==
  /\ RelyInv
  /\ LinesWereRequested
  /\ ServedHasResult
  /\ \A q, p \in Requests : <<q, p>> \in served => request[q].pc # "unsent"
  /\ status \in (VmStatus \ Uncounted) \cup {NotCreated}
  /\ status = NotCreated => outbox = {}
  /\ cloud # {} => outbox # {}

\* The kinds of the lines a command emits.
KindsOf(a) == {"error", "apply"} \cup FinalKinds[a]

\* What a step of the provisioner adds to lines, served requests and machines.
Adds ==
  /\ progress \subseteq progress'
  /\ \A l \in progress' \ progress :
       \E q \in Requests : /\ pod[q] # "none"
                           /\ l.action = request[q].action
                           /\ l.kind \in KindsOf(request[q].action)
  /\ \A q, p \in Requests : <<q, p>> \in served' \ served =>
       request[q].pc # "unsent" /\ ResultOf(p, request[q].action, progress')
  /\ cloud' # {} => cloud # {} \/ \E q \in Requests : pod[q] # "none"

\* The end of a command serves the requests that wait for it, and says so.
LEMMA EndAdds ==
  ASSUME NEW q \in Requests, pod[q] # "none",
         NEW kinds \in (SUBSET ({"error"} \cup FinalKinds[request[q].action])) \ {{}},
         End(q, kinds), cloud' \subseteq cloud
  PROVE  Adds
  <1> DEFINE a == request[q].action
             LineOf(k) == [machine |-> Machine(q), action |-> a, kind |-> k]
  <1>1. progress' = progress \cup {LineOf(k) : k \in kinds} /\ served' = served \cup {<<p, q>> : p \in Serves(q)}
    BY DEF End, Emit
  <1>2. \A l \in progress' \ progress : l.action = a /\ l.kind \in KindsOf(a)
    BY <1>1 DEF KindsOf
  <1>3. ResultOf(q, a, progress')
    <2>1. PICK k \in kinds : k \in {"error"} \cup FinalKinds[a]
      OBVIOUS
    <2>2. LineOf(k) \in progress' /\ LineOf(k).action = a /\ LineOf(k).kind = k /\ LineOf(k).machine[1] = q
      BY <1>1 DEF Machine
    <2> QED
      BY <2>1, <2>2 DEF ResultOf
  <1>4. \A p, r \in Requests : <<p, r>> \in served' \ served =>
          request[p].pc # "unsent" /\ request[p].action = a /\ r = q
    BY <1>1 DEF Serves, Received, Calling
  <1> QED
    BY <1>1, <1>2, <1>3, <1>4 DEF Adds

LEMMA ProvisionAdds ==
  ASSUME IInv, Provision
  PROVE  Adds
  <1>1. CASE UNCHANGED <<progress, served, cloud>>
    BY <1>1 DEF Adds
  <1>2. ASSUME NEW q \in Requests, LockHeld(q) \/ Finish(q) \/ ApplyFails(q)
        PROVE  Adds
    <2>1. CASE LockHeld(q) \/ ApplyFails(q)
      BY <2>1, EndAdds DEF LockHeld, ApplyFails, runner
    <2>2. CASE Finish(q)
      <3>1. request[q].action \in JobAction
        BY <2>2 DEF Finish, IInv, Published
      <3>2. FinalKinds[request[q].action] # {}
        BY <3>1 DEF FinalKinds, JobAction, CREATE, DESTROY, REFRESH
      <3> QED
        BY <2>2, <3>2, EndAdds DEF Finish, runner
    <2> QED
      BY <1>2, <2>1, <2>2
  <1>3. ASSUME NEW q \in Requests, Apply(q)
        PROVE  Adds
    <2> USE <1>3 DEF Apply
    <2>1. \/ progress' = progress
          \/ progress' = progress \cup
               {[machine |-> Machine(q), action |-> request[q].action, kind |-> k] : k \in {"apply"}}
      BY DEF Emit
    <2>2. \A l \in progress' \ progress :
             l.action = request[q].action /\ l.kind \in KindsOf(request[q].action)
      BY <2>1 DEF KindsOf
    <2> QED
      BY <2>1, <2>2 DEF Adds
  <1>4. ASSUME NEW q \in Requests, Handle(q)
        PROVE  UNCHANGED <<progress, served, cloud>>
    BY <1>4 DEF Handle, Consume, generateTfVarFile, ackAndPublish, readNamespacedJob,
           deleteNamespacedJob, createNamespacedJob, runner
  <1>5. ASSUME NEW q \in Requests,
               \/ StartPod(q) \/ AcquireLock(q) \/ RecordState(q)
               \/ CollectPod(q) \/ CallFails(q) \/ PodFails(q)
        PROVE  UNCHANGED <<progress, served, cloud>>
    BY <1>5 DEF StartPod, AcquireLock, RecordState, CollectPod, CallFails, PodFails, Leave, runner
  <1>6. ASSUME \/ ConsumerCrash
               \/ \E a \in JobAction : ExpireJob(a)
        PROVE  UNCHANGED <<progress, served, cloud>>
    BY <1>6 DEF ConsumerCrash, ExpireJob, runner
  <1> QED
    BY <1>1, <1>2, <1>3, <1>4, <1>5, <1>6 DEF Provision, RunPod, Fault


\* The lines of a command are among those VmLifecycle lets come at any time.
LEMMA KindsAreLogged ==
  ASSUME NEW a \in JobAction, NEW k \in KindsOf(a)
  PROVE  [kind |-> k, ip |-> Undefined] \in JobLog({})[a]
  <1>1. k \in JobKinds[a]
    BY DEF KindsOf, FinalKinds, JobKinds, LogKind, JobAction, CREATE, DESTROY, REFRESH
  <1> QED
    BY <1>1 DEF JobLog

\* A result stays a result while its line moves on.
LEMMA ResultsStay ==
  ASSUME NEW p, NEW a, NEW before, NEW after, before \subseteq after, ResultOf(p, a, before)
  PROVE  ResultOf(p, a, after)
  BY DEF ResultOf

LEMMA ProvisionKeepsFlow ==
  ASSUME PipelineInv, FlowInv, Provision
  PROVE  FlowInv'
  <1> USE DEF PipelineInv, FlowInv
  <1>1. Adds /\ Effect
    BY ProvisionAdds, HandleEffect, RunPodEffect, ExpireEffect, CrashEffect DEF Provision, Fault
  <1>2. UNCHANGED <<status, outbox, held, answered>>
    BY DEF Provision, rest, logs
  <1>3. RelyInv'
    BY StepKeepsRely, ConstantsAssumption DEF Provision, TypeOK
  <1>4. \A q \in Requests : request'[q].pc # "unsent" =>
          request[q].pc # "unsent" /\ request[q].action \in outbox
    <2> SUFFICES ASSUME NEW q \in Requests, request'[q].pc # "unsent"
                 PROVE  request[q].pc # "unsent" /\ request[q].action \in outbox
      OBVIOUS
    <2>1. request[q].action \in JobAction
      BY <1>1, <1>3 DEF RelyInv, JobsInv, Effect
    <2>2. request[q].pc # "unsent"
      BY <2>1 DEF LeavingInv, NoAction, JobAction, CREATE, DESTROY, REFRESH
    <2> QED
      BY <2>2 DEF LinesWereRequested
  <1>5. \A q \in Requests : pod[q] # "none" => request[q].action \in outbox \cap JobAction
    BY DEF RelyInv, JobsInv, LinesWereRequested
  <1>6. LinesWereRequested'
    <2>1. ASSUME NEW l \in (progress \cup held)'
          PROVE  l.action \in outbox /\ [kind |-> l.kind, ip |-> Undefined] \in JobLog({})[l.action]
      <3>1. CASE l \in progress \cup held
        BY <3>1 DEF LinesWereRequested
      <3>2. CASE l \in progress' \ progress
        BY <1>1, <1>5, <3>2, KindsAreLogged DEF Adds
      <3> QED
        BY <1>2, <2>1, <3>1, <3>2
    <2> QED
      BY <1>1, <1>2, <1>4, <2>1 DEF LinesWereRequested, Effect
  <1>7. \A q, p \in Requests : <<q, p>> \in served' => request[q].pc # "unsent"
    BY <1>1 DEF Adds
  <1>8. ServedHasResult'
    <2> SUFFICES ASSUME NEW q \in Requests, NEW p \in Requests, <<q, p>> \in served'
                 PROVE  ResultOf(p, request'[q].action, (progress \cup held \cup answered)')
      BY DEF ServedHasResult
    <2>1. request'[q].action = request[q].action
      BY <1>1, <1>7 DEF Effect
    <2>2. CASE <<q, p>> \in served
      <3>1. ResultOf(p, request[q].action, progress \cup held \cup answered)
        BY <2>2 DEF ServedHasResult
      <3>2. progress \cup held \cup answered \subseteq (progress \cup held \cup answered)'
        BY <1>1, <1>2 DEF Adds
      <3> QED
        BY <2>1, <3>1, <3>2, ResultsStay
    <2>3. CASE <<q, p>> \in served' \ served
      <3>1. ResultOf(p, request[q].action, progress')
        BY <1>1, <2>3 DEF Adds
      <3> QED
        BY <2>1, <3>1, ResultsStay
    <2> QED
      BY <2>2, <2>3
  <1>9. \A q, p \in Requests : <<q, p>> \in served' => request'[q].pc # "unsent"
    BY <1>1, <1>7 DEF Effect
  <1>10. cloud' # {} => outbox # {}
    BY <1>1, <1>5 DEF Adds
  <1> QED
    BY <1>2, <1>3, <1>6, <1>8, <1>9, <1>10

\* What a line makes of the row.  A line of a requested command is of a machine that is there.
LEMMA LineRow ==
  ASSUME PipelineInv, FlowInv, NEW l \in progress, updateStatus(l)
  PROVE  /\ status \in VmStatus \ Uncounted
         /\ \/ status' = status
            \/ /\ status' \in validNextStates[status] \ Uncounted
               /\ status' \in Terminal => status \in Leaving
  <1> DEFINE log  == [kind |-> l.kind, ip |-> Undefined]
             next == findStatusFromProvisionLog(log, l.action).status
  <1>1. l.action \in JobAction /\ l.action \in outbox /\ log \in JobLog({})[l.action]
    BY DEF LinesWereRequested, FlowInv, PipelineInv, TypeOK, Line
  <1>2. status \in VmStatus \ Uncounted
    BY <1>1 DEF FlowInv
  <1>3. /\ next \in (VmStatus \ Halted) \cup {Undefined}
        /\ next \in Leaving => l.action = DESTROY
    BY <1>1, LogStatus
  <1>4. status' = status \/ (status' = next /\ next \in validNextStates[status])
    BY DEF updateStatus, findNextVmState
  <1>5. status' # "UNKNOWN" \/ status' = status
    BY <1>2, <1>4, TableShape
  <1>6. Undefined \notin VmStatus /\ validNextStates[status] \subseteq VmStatus
    BY <1>2, TableShape DEF Undefined, VmStatus, Ready, Halted, Leaving
  <1>7. status' # status /\ status' \in Terminal => status \in Leaving
    BY <1>1, <1>3, <1>4 DEF Terminal, Leaving, PipelineInv, LeavingInv
  <1> QED
    BY <1>2, <1>3, <1>4, <1>5, <1>6, <1>7 DEF Uncounted


\* So is cloud-init.
LEMMA CallRow ==
  ASSUME FlowInv, NEW u \in UrlAction, callUrl(u)
  PROVE  /\ status \in VmStatus \ Uncounted
         /\ \/ status' = status
            \/ /\ status' \in validNextStates[status] \ Uncounted
               /\ status' \in Terminal => status \in Leaving
  <1>1. status \in VmStatus \ Uncounted
    BY DEF callUrl, FlowInv
  <1>2. URL_ACTION_TO_VM_STATUS_MAP[u] \in {"INITIALIZING", "RUNNING"}
    BY DEF URL_ACTION_TO_VM_STATUS_MAP
  <1> QED
    BY <1>1, <1>2 DEF callUrl, findNextVmState, Uncounted, Halted, Terminal

\* The log consumer moves lines and loses none.
LEMMA LogKeepsFlow ==
  ASSUME PipelineInv, FlowInv, UNCHANGED NotInLog,
         faults' = faults \/ faults' = faults + 1,
         (progress \cup held)' \subseteq progress \cup held,
         progress \cup held \cup answered \subseteq (progress \cup held \cup answered)',
         status' \in (VmStatus \ Uncounted) \cup {NotCreated},
         status' = NotCreated => status = NotCreated
  PROVE  FlowInv'
  <1> USE DEF FlowInv
  <1>1. UNCHANGED <<request, job, pod, served, cloud, outbox>>
    BY DEF NotInLog, runner
  <1>2. faults \in Nat
    BY ConstantsAssumption DEF PipelineInv, TypeOK
  <1>3. RelyInv'
    BY <1>1, <1>2 DEF RelyInv, JobsInv, JobsTrusted, NameAwaited, Trusts, Served
  <1>4. LinesWereRequested'
    BY <1>1 DEF LinesWereRequested
  <1>5. ServedHasResult'
    BY <1>1, ResultsStay DEF ServedHasResult
  <1> QED
    BY <1>1, <1>3, <1>4, <1>5

LEMMA DeliverKeepsFlow ==
  ASSUME PipelineInv, FlowInv, Deliver \/ Redeliver
  PROVE  FlowInv'
  <1>1. CASE Redeliver
    BY <1>1, LogKeepsFlow DEF Redeliver, Log!Redeliver, FlowInv
  <1>2. CASE Deliver
    <2>1. PICK l \in progress :
            \/ (Log!Forward(l) \/ Log!AnswerLost(l)) /\ updateStatus(l)
            \/ (Log!PostFails(l) \/ Log!Swallow(l)) /\ UNCHANGED status
      BY <1>2 DEF Deliver
    <2>2. /\ faults' = faults \/ faults' = faults + 1
          /\ (progress \cup held)' \subseteq progress \cup held
          /\ progress \cup held \cup answered \subseteq (progress \cup held \cup answered)'
      BY <2>1 DEF Log!Forward, Log!AnswerLost, Log!PostFails, Log!Swallow, Log!Fail
    <2>3. CASE UNCHANGED status
      BY <1>2, <2>2, <2>3, LogKeepsFlow DEF Deliver, FlowInv
    <2>4. CASE updateStatus(l)
      <3>1. status' \in VmStatus \ Uncounted
        BY <2>4, LineRow, TableShape
      <3>2. NotCreated \notin VmStatus
        BY DEF NotCreated, VmStatus, Ready, Halted, Leaving
      <3> QED
        BY <1>2, <2>2, <3>1, <3>2, LogKeepsFlow DEF Deliver
    <2> QED
      BY <2>1, <2>3, <2>4
  <1> QED
    BY <1>1, <1>2

\* The service's own steps record messages before anything is published.
LEMMA RowKeepsFlow ==
  ASSUME FlowInv, UNCHANGED <<vars, logs>>, outbox \subseteq outbox',
         status' \in (VmStatus \ Uncounted) \cup {NotCreated},
         status' = NotCreated => outbox' = {}
  PROVE  FlowInv'
  <1> USE DEF FlowInv
  <1>1. UNCHANGED <<request, job, pod, served, cloud, progress, held, answered, faults>>
    BY DEF vars, runner, logs
  <1>2. RelyInv'
    BY <1>1 DEF RelyInv, JobsInv, JobsTrusted, NameAwaited, Trusts, Served
  <1>3. LinesWereRequested' /\ ServedHasResult'
    BY <1>1 DEF LinesWereRequested, ServedHasResult
  <1> QED
    BY <1>1, <1>2, <1>3

LEMMA PublishMessageKeepsFlow ==
  ASSUME PipelineInv, FlowInv, NEW q \in Requests, NEW a \in JobAction, publishMessage(q, a)
  PROVE  FlowInv'
  <1> USE DEF FlowInv, publishMessage, Publish
  <1>1. RelyInv'
    BY PublishKeepsRely DEF PipelineInv
  <1>2. UNCHANGED <<status, outbox, served, cloud, progress, held, answered>> /\ a \in outbox
    BY DEF rest, logs, runner
  <1>3. /\ \A p \in Requests \ {q} : request'[p] = request[p]
        /\ request'[q].action = a /\ request'[q].pc = "queued"
    BY DEF PipelineInv, IInv, TypeInv
  <1>4. LinesWereRequested'
    BY <1>2, <1>3 DEF LinesWereRequested
  <1>5. \A p, r \in Requests : <<p, r>> \in served => request'[p] = request[p]
    BY <1>3
  <1>6. ServedHasResult'
    BY <1>2, <1>5 DEF ServedHasResult
  <1> QED
    BY <1>1, <1>2, <1>4, <1>5, <1>6

LEMMA RestKeepsFlow ==
  ASSUME PipelineInv, FlowInv, Rest
  PROVE  FlowInv'
  <1>1. CASE createVmInTransaction
    BY <1>1, RowKeepsFlow DEF createVmInTransaction, FlowInv, VmStatus, Uncounted, Halted, NotCreated
  <1>2. CASE startVmDestroy
    BY <1>2, RowKeepsFlow DEF startVmDestroy, VmStatus, Leaving, Uncounted, Halted, NotCreated
  <1>3. CASE captureVmIpJob
    BY <1>3, RowKeepsFlow DEF captureVmIpJob, FlowInv, NotCreated
  <1>4. ASSUME NEW u \in UrlAction, callUrl(u)
        PROVE  FlowInv'
    <2>1. status' \in VmStatus \ Uncounted
      BY <1>4, CallRow, TableShape
    <2>2. NotCreated \notin VmStatus
      BY DEF NotCreated, VmStatus, Ready, Halted, Leaving
    <2> QED
      BY <1>4, <2>1, <2>2, RowKeepsFlow DEF callUrl
  <1> QED
    BY <1>1, <1>2, <1>3, <1>4, PublishMessageKeepsFlow DEF Rest

LEMMA FlowInvHoldsInitially == PipelineInit => FlowInv
  <1> SUFFICES ASSUME PipelineInit PROVE FlowInv
    OBVIOUS
  <1>1. RelyInv
    BY RelyInvHoldsInitially DEF PipelineInit
  <1> QED
    BY <1>1 DEF PipelineInit, Init, Log!Init, FlowInv, LinesWereRequested, ServedHasResult

LEMMA FlowInvIsInductive == PipelineInv /\ FlowInv /\ [PipelineNext]_pipeline => FlowInv'
  <1> SUFFICES ASSUME PipelineInv, FlowInv, [PipelineNext]_pipeline PROVE FlowInv'
    OBVIOUS
  <1>1. CASE UNCHANGED pipeline
    BY <1>1, RowKeepsFlow DEF pipeline, rest, FlowInv
  <1> QED
    BY <1>1, RestKeepsFlow, ProvisionKeepsFlow, DeliverKeepsFlow DEF PipelineNext

LEMMA FlowInvAlways == PipelineSpec => []FlowInv
  BY FlowInvHoldsInitially, FlowInvIsInductive, PipelineInvAlways, PTL DEF PipelineSpec

\* Jobs that overlap, lines that come back late or twice, callbacks and cron
\* runs: no line reaches the row of a command whose message was not recorded,
\* and none that VmLifecycle does not let come.
THEOREM OnlyRequestedLines == PipelineSpec => []LinesWereRequested
  <1>1. FlowInv => LinesWereRequested
    BY DEF FlowInv
  <1> QED
    BY <1>1, FlowInvAlways, PTL

\* A command that a request was waiting for has left a line that says how it
\* ended, and no failing post, lost answer or dead consumer loses that line.
THEOREM ResultNeverLost == PipelineSpec => []ServedHasResult
  <1>1. FlowInv => ServedHasResult
    BY DEF FlowInv
  <1> QED
    BY <1>1, FlowInvAlways, PTL

\* In the pipeline, too: no request is given up that nothing will serve.
THEOREM PipelineDropsNothing == PipelineSpec => []NoRequestDropped
  <1>1. FlowInv => NoRequestDropped
    BY RelyMeansNotDropped DEF FlowInv
  <1> QED
    BY <1>1, FlowInvAlways, PTL

\* Handlers that skip, delete and fail to create each other's Jobs, names that
\* expire, lines that are held back: without a fault the pipeline does not come
\* to rest before every request it received has its answered result.
THEOREM RestsOnlyWhenAnswered == PipelineSpec => []NeverSettledUnanswered
  <1>1. ASSUME PipelineInv, FlowInv
        PROVE  NeverSettledUnanswered
    <2> SUFFICES ASSUME Settled, faults = 0, NEW q \in Requests, request[q].pc = "done"
                 PROVE  \E p \in Requests : <<q, p>> \in served /\ ResultOf(p, request[q].action, answered)
      BY DEF NeverSettledUnanswered
    <2> DEFINE a == request[q].action
    <2>1. NoRequestDropped
      BY <1>1, RelyMeansNotDropped DEF FlowInv
    <2>2. a \in JobAction
      BY <1>1 DEF FlowInv, RelyInv, JobsInv
    <2>3. \A p \in Requests : request[p].pc # "create"
      BY DEF Settled
    <2>4. job[a] # NoJob => pod[job[a]] = "ended"
      BY <1>1, <2>2 DEF Settled, HasName, PipelineInv, TypeOK
    <2>5. Served(q)
      BY <2>1, <2>3, <2>4 DEF NoRequestDropped
    <2>6. progress \cup held \cup answered = answered
      BY DEF Settled
    <2> QED
      BY <1>1, <2>5, <2>6 DEF Served, FlowInv, ServedHasResult
  <1> QED
    BY <1>1, PipelineInvAlways, FlowInvAlways, PTL

-----------------------------------------------------------------------------
(* The row goes through the phases of VmPhases.                            *)

rowPhase == [v \in {"vm"} |-> PhaseOf(status)]

LEMMA PhaseIsPhase == \A s \in VmStatus : PhaseOf(s) \in Phases!Phase \ {"absent"}
  BY DEF PhaseOf, Phases!Phase, VmStatus, Usable, Leaving, Ready, Halted, NotCreated

\* A status that the table allows moves the machine as VmPhases does.
LEMMA TableMoves ==
  ASSUME status \in VmStatus \ Uncounted,
         \/ status' = status
         \/ /\ status' \in validNextStates[status] \ Uncounted
            /\ status' \in Terminal => status \in Leaving
  PROVE  Phases!Next \/ UNCHANGED rowPhase
  <1>1. CASE status' = status
    BY <1>1 DEF rowPhase
  <1>2. CASE status' # status
    <2> DEFINE from == PhaseOf(status)
               to   == PhaseOf(status')
    <2>1. \/ to = from
          \/ from = "provisioning" /\ to = "usable"
          \/ from # "absent" /\ to = "leaving"
          \/ from = "leaving" /\ to = "gone"
      BY <1>2, TableKeepsPhases
    <2>2. rowPhase["vm"] = from /\ rowPhase' = [rowPhase EXCEPT !["vm"] = to]
      BY DEF rowPhase
    <2>3. from \in Phases!Phase \ {"absent"}
      BY PhaseIsPhase
    <2>4. CASE to = from
      BY <2>4 DEF rowPhase
    <2>5. CASE to # from
      <3>1. Phases!Provide("vm") \/ Phases!Retire("vm") \/ Phases!Remove("vm")
        BY <2>1, <2>2, <2>3, <2>5
           DEF Phases!Provide, Phases!Retire, Phases!Remove, Phases!Move, rowPhase
      <3> QED
        BY <3>1 DEF Phases!Next
    <2> QED
      BY <2>4, <2>5
  <1> QED
    BY <1>1, <1>2

LEMMA PipelineStepImplementsPhases ==
  ASSUME PipelineInv, FlowInv, [PipelineNext]_pipeline
  PROVE  Phases!Next \/ UNCHANGED rowPhase
  <1>1. CASE UNCHANGED status
    BY <1>1 DEF rowPhase
  <1>2. CASE createVmInTransaction
    <2>1. rowPhase["vm"] = "absent" /\ rowPhase' = [rowPhase EXCEPT !["vm"] = "provisioning"]
      BY <1>2, PhaseValues DEF createVmInTransaction, rowPhase
    <2>2. Phases!Create("vm")
      BY <2>1 DEF Phases!Create, Phases!Move, rowPhase
    <2> QED
      BY <2>2 DEF Phases!Next
  <1>3. CASE startVmDestroy
    <2>1. rowPhase["vm"] \in Phases!Phase \ {"absent"}
      BY <1>3, PhaseIsPhase DEF startVmDestroy, FlowInv, rowPhase
    <2>2. rowPhase' = [rowPhase EXCEPT !["vm"] = "leaving"]
      BY <1>3, PhaseValues DEF startVmDestroy, rowPhase
    <2>3. Phases!Retire("vm")
      BY <2>1, <2>2 DEF Phases!Retire, Phases!Move, rowPhase
    <2> QED
      BY <2>3 DEF Phases!Next
  <1>4. ASSUME NEW u \in UrlAction, callUrl(u)
        PROVE  Phases!Next \/ UNCHANGED rowPhase
    BY <1>4, CallRow, TableMoves
  <1>5. ASSUME NEW l \in progress, updateStatus(l)
        PROVE  Phases!Next \/ UNCHANGED rowPhase
    BY <1>5, LineRow, TableMoves
  <1> QED
    BY <1>1, <1>2, <1>3, <1>4, <1>5
       DEF PipelineNext, pipeline, rest, Rest, Provision, Deliver, Redeliver,
           captureVmIpJob, publishMessage

\* Whatever lines the machine's own Jobs send, late, twice and in any order, the
\* row never comes back from its way out, and a usable machine is not
\* provisioned again.
THEOREM PipelineImplementsPhases == PipelineSpec => ImplementsPhases
  <1>1. PipelineInit => Phases!Init
    BY PhaseValues DEF PipelineInit, Phases!Init
  <1>2. PipelineInv /\ FlowInv /\ [PipelineNext]_pipeline => [Phases!Next]_rowPhase
    BY PipelineStepImplementsPhases
  <1> QED
    BY <1>1, <1>2, PipelineInvAlways, FlowInvAlways, PTL
       DEF PipelineSpec, ImplementsPhases, Phases!Spec, rowPhase


-----------------------------------------------------------------------------
(* The cloud changes as OneTerraform has it.                               *)

LEMMA PipelineStepIsOneTerraform ==
  PipelineInv /\ NamesInv /\ [PipelineNext]_pipeline => NamesInv' /\ TerraformStep
  <1> SUFFICES ASSUME PipelineInv, NamesInv, [PipelineNext]_pipeline
               PROVE  NamesInv' /\ TerraformStep
    OBVIOUS
  <1>1. CASE Provision
    BY <1>1, StepIsOneTerraform DEF Provision, PipelineInv
  <1>2. CASE Rest \/ UNCHANGED pipeline
    <2>1. UNCHANGED <<pod, retries, runner>>
      BY <1>2 DEF Rest, createVmInTransaction, startVmDestroy, captureVmIpJob, callUrl,
             publishMessage, Publish, vars, pipeline
    <2> QED
      BY <2>1, OthersAreOneTerraform
  <1>3. CASE Deliver \/ Redeliver
    BY <1>3, OthersAreOneTerraform DEF Deliver, Redeliver, NotInLog
  <1> QED
    BY <1>1, <1>2, <1>3 DEF PipelineNext

\* In the pipeline, too: Jobs that overlap look like one terraform.
THEOREM PipelineIsOneTerraform == PipelineSpec => ImplementsOneTerraform
  <1>1. PipelineInit => Terraform!Init /\ NamesInv
    BY NoNamesInitially DEF PipelineInit, Terraform!Init, known
  <1>2. TerraformStep => [Terraform!Next]_<<cloud, known>>
    BY DEF TerraformStep
  <1> QED
    BY <1>1, <1>2, PipelineStepIsOneTerraform, PipelineInvAlways, PTL
       DEF PipelineSpec, ImplementsOneTerraform, Terraform!Spec, known

=============================================================================
