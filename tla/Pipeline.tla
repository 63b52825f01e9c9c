------------------------------ MODULE Pipeline ------------------------------
(***************************************************************************)
(* One machine from end to end: the row and the messages of the REST       *)
(* service, the request consumer with its Jobs and pods (Provisioner), the *)
(* log consumer (LogConsumer), and the lines that come back to the row.    *)
(*                                                                         *)
(* A line is one step here: read the row, filter the status, write it.     *)
(* What happens between these statements is the subject of VmLifecycle,    *)
(* and the outbox, which publishes a message at least once, that of Outbox.*)
(***************************************************************************)
EXTENDS Provisioner

VARIABLES
  status,    \* of the machine's row
  outbox,    \* the actions for which a message is recorded
  held,      \* LogConsumer's
  answered,  \* LogConsumer's
  hasty      \* a CREATE and a DESTROY were in progress at the same time

Log == INSTANCE LogConsumer WITH Lines <- Line

rest     == <<status, outbox>>
logs     == <<held, answered>>
pipeline == <<vars, rest, logs, hasty>>

PipelineInit ==
  /\ Init
  /\ Log!Init
  /\ status = NotCreated
  /\ outbox = {}
  /\ hasty = FALSE

\* A request is published, in the queue or with its handler, or its Job has a
\* pod that runs or may be started again.
InProgress(action) ==
  \E q \in Requests :
    /\ request[q].action = action
    /\ request[q].pc # "done" \/ Active(q) \/ (HasName(q) /\ pod[q] = "none")

-----------------------------------------------------------------------------
(* The REST service.                                                       *)

createVmInTransaction ==
  /\ status = NotCreated
  /\ status' = "TO_BE_PROVISIONED"
  /\ outbox' = {CREATE}
  /\ UNCHANGED <<vars, logs, hasty>>

\* By the owner, in any status, or because the time is up.
startVmDestroy ==
  /\ status # NotCreated
  /\ status' = "TO_BE_DESTROYED"
  /\ outbox' = outbox \cup {DESTROY}
  /\ UNCHANGED <<vars, logs, hasty>>

\* The address may be missing in any of these.
captureVmIpJob ==
  /\ status \in {"PROVISIONING_COMPLETED", "INITIALIZING", "RUNNING"}
  /\ outbox' = outbox \cup {REFRESH}
  /\ UNCHANGED <<vars, status, logs, hasty>>

\* Mutant: a message is published for which no row was committed.
publishUnrecorded(q, action) ==
  /\ Publish(q, action)
  /\ UNCHANGED <<rest, logs, hasty>>

publishMessage(q, action) ==
  /\ action \in outbox
  /\ Publish(q, action)
  /\ hasty' = \/ hasty
               \/ (action = CREATE /\ status \in Leaving)
               \/ (action = DESTROY /\ InProgress(CREATE))
  /\ UNCHANGED <<rest, logs>>

\* cloud-init on the machine.
callUrl(url) ==
  /\ cloud # {}
  /\ status' = findNextVmState(status, URL_ACTION_TO_VM_STATUS_MAP[url])
  /\ UNCHANGED <<vars, outbox, logs, hasty>>

\* updateVmProvisioningStatusByTfLog.
updateStatus(line) ==
  LET log  == [kind |-> line.kind, ip |-> Undefined]
      next == findStatusFromProvisionLog(log, line.action).status
  IN  status' = IF next = Undefined THEN status ELSE findNextVmState(status, next)

-----------------------------------------------------------------------------
Rest ==
  \/ createVmInTransaction \/ startVmDestroy \/ captureVmIpJob
  \/ \E q \in Requests, a \in JobAction : publishMessage(q, a)
  \/ \E u \in UrlAction : callUrl(u)

NotInLog == <<request, job, pod, retries, runner, served, outbox, hasty>>

Deliver ==
  /\ \E l \in progress :
       \/ (Log!Forward(l) \/ Log!AnswerLost(l)) /\ updateStatus(l)
       \/ (Log!PostFails(l) \/ Log!Swallow(l)) /\ UNCHANGED status
  /\ UNCHANGED NotInLog

Redeliver == Log!Redeliver /\ UNCHANGED <<NotInLog, status>>

Provision ==
  /\ \/ \E q \in Requests : Handle(q) \/ RunPod(q) \/ CollectPod(q)
     \/ \E a \in JobAction : ExpireJob(a)
     \/ Fault
  /\ UNCHANGED <<rest, logs, hasty>>

PipelineNext == Rest \/ Provision \/ Deliver \/ Redeliver

PipelineSpec == PipelineInit /\ [][PipelineNext]_pipeline

(***************************************************************************)
(* As in Provisioner; the log consumer's event loop forwards what the      *)
(* broker delivers, and RabbitMQ does not leave a delivery unacknowledged  *)
(* forever: it closes the channel.                                         *)
(***************************************************************************)
PipelineFairness ==
  /\ \A q \in Requests :
       /\ WF_pipeline(Handle(q) /\ UNCHANGED <<rest, logs, hasty>>)
       /\ WF_pipeline(RunPod(q) /\ UNCHANGED <<rest, logs, hasty>>)
       /\ WF_pipeline(CollectPod(q) /\ UNCHANGED <<rest, logs, hasty>>)
  /\ WF_pipeline(\E l \in progress : Log!Forward(l) /\ updateStatus(l) /\ UNCHANGED NotInLog)
  /\ WF_pipeline(Redeliver)

PipelineFairSpec == PipelineSpec /\ PipelineFairness

-----------------------------------------------------------------------------
(* Properties.                                                             *)

\* A DESTROYED machine does not exist in the cloud: no order of requests, Jobs,
\* retries and lines ends with a machine that the service takes for gone,
\* unless the destruction overlapped a creation or a pod was ended before it
\* recorded what it made.
DestroyedMeansGone ==
  status = "DESTROYED" /\ ~hasty /\ interrupted = {} => cloud = {}

\* The lines that VmLifecycle lets come at any time are all that do come: each
\* is one of a command whose message was recorded, however often requests and
\* lines are repeated, and whatever Jobs overlap.
LinesWereRequested ==
  /\ \A q \in Requests : request[q].pc # "unsent" => request[q].action \in outbox
  /\ \A l \in progress \cup held :
       /\ l.action \in outbox
       /\ [kind |-> l.kind, ip |-> Undefined] \in JobLog({})[l.action]

\* The row of the machine goes through the phases of VmPhases: lines of CREATE,
\* DESTROY and REFRESH Jobs that come late, twice and in any order, and
\* cloud-init's calls, never take a machine back that is on its way out.
Phases == INSTANCE VmPhases WITH Vms <- {"vm"}, phase <- [v \in {"vm"} |-> PhaseOf(status)]

ImplementsPhases == Phases!Spec

\* The last line of a Job says how its command of that action ended.
ResultOf(p, action, lines) ==
  \E l \in lines : l.machine[1] = p /\ l.action = action /\ l.kind \in {"error"} \cup FinalKinds[action]

\* Whatever is lost, repeated or held back, the command that served a request has
\* left a line that says how it ended, and that line is in the queue, with the
\* log consumer, or answered by the service.
ServedHasResult ==
  \A q, p \in Requests :
    <<q, p>> \in served => ResultOf(p, request[q].action, progress \cup held \cup answered)

\* The pipeline does not come to rest, without a fault, while a request that was
\* received has no answered result of a command that ended after its receipt:
\* whatever the handlers did to each other's Jobs, somebody still has a call to
\* make, a Job to run or a line to post.
Settled ==
  /\ \A q \in Requests : /\ request[q].pc \in {"unsent", "done"}
                         /\ ~Active(q)
                         /\ HasName(q) => pod[q] = "ended"
  /\ progress \cup held = {}

NeverSettledUnanswered ==
  Settled /\ faults = 0 =>
    \A q \in Requests : request[q].pc = "done" =>
      \E p \in Requests : <<q, p>> \in served /\ ResultOf(p, request[q].action, answered)

\* A destroy request ends with the machine DESTROYED, or a command of it says
\* that it failed.
DestroyEnds ==
  \A q \in Requests :
    request[q].action = DESTROY /\ request[q].pc = "queued"
      ~> \/ status = "DESTROYED"
         \/ \E l \in answered : l.action = DESTROY /\ l.kind = "error"
         \/ faults > 0

\* The last line of a Job, which says how its command ended, is answered by
\* the service in the end, whatever failed at first.
EveryResultAnswered ==
  \A q \in Requests :
    ResultOf(q, request[q].action, progress) ~> ResultOf(q, request[q].action, answered)
=============================================================================
