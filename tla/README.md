# A TLA+ model of vm-provision-backend

The backend lets users create virtual machines at several cloud providers. It keeps one
row per machine in Postgres, asks terraform for the machine through RabbitMQ and Kubernetes
jobs, follows terraform's log to keep the row's status, and destroys the machine when its
time is up. This directory models the parts of it that decide what happens to a machine and
to the messages about it, checks them with TLC and proves the main results with TLAPS.

    tlc -config VmLifecycle_race.cfg MCVmLifecycle      # PROJECT.json pairs .cfg and module
    tlc -config Pipeline_safety.cfg MCPipeline
    tlapm PipelineProofs.tla

## 1. The system

    user ──> REST service (2 replicas) ──> message table ──> vm_provisioning_requests
                 ^   ^                      (outbox)                │
      cloud-init │   │ POST /api/message/process                    v
      /go/:token │   │                                       request consumer
                 │   └── log consumer <── vm_provisioning_progress  │
                 │                                ^                 v
                machine <──────────────── terraform job (Kubernetes, one per machine and action)

| Component | State | Operations | What makes it correct |
|---|---|---|---|
| Status table, log classification (`utils/vmStatusUtils.ts`, `services/tfLogService.ts`) | none | `findNextVmState`, `findStatusFromProvisionLog` | a machine on its way out does not come back; no line makes it uncounted |
| Machine rows (`services/vmService.ts`, `services/appUrlService.ts`, `cronJobs/`) | `virtual_machine.status`, `ipv4Address`, `startedAt`; `app_url.usedAt` | create, log line, one-time URL, destroy, expiry, address capture | the duration runs from the first address or RUNNING; a destroy request is never forgotten nor undone |
| Outbox (`services/messageQueueService.ts`, `utils/queueUtils.ts`) | `message.status`; per replica the channel and `isChannelOpen` | record, publish, publish all pending, connect, close handler | what is recorded reaches RabbitMQ; PUBLISHED means it did |
| Quota (`services/vmService.ts`) | count of active machines | check, insert | at most `VM_QUOTA_PER_USER` active machines |
| Request consumer (`provision-request-queue-consumer-pod`) | unacknowledged messages, terraform folders, jobs | CREATE, DESTROY, REFRESH | no request is dropped; jobs of a machine that overlap make one machine and know it |
| Terraform runner, cloud (`terraform-runner-job`, `hcl`) | terraform state, resources | apply, destroy, refresh | a machine that exists is in the state, so that a destroy reaches it |
| Log consumer (`provision-log-queue-consumer-pod`) | unacknowledged lines | deliver to the REST service | every result reaches the row in the end |
| User profiles (`services/userService.ts`, `cronJobs/deleteUserProfileJob.ts`) | `user_profile.status` | login, mark for deletion, delete | no machine loses its row while in use; a marked profile is deleted in the end |
| Sockets (`sockets/index.ts`) | map user → socket per replica | connect, disconnect, send | a connected user gets the updates |
| Sessions (`services/authService.ts`, `api/middlewares/authMiddleware.ts`) | session in Redis, tokens | login, refresh, logout | a refresh does not end a valid session |

What is hard here is concurrency without locks. Every handler reads a row in one statement
and writes it in a later one; two replicas and all cron jobs (both replicas run each of
them) do so at the same time; log lines reach the service in any order and more than once,
for neither consumer limits its prefetch; processes die between two statements; and the
channel to RabbitMQ is replaced under the feet of the tasks that use it. `PROJECT.json`
lists each hazard at its line.

## 2. Modules

| Module | Models | Interacts with |
|---|---|---|
| `VmStatus`, `VmStatusProofs` | the table, the classification, the URL's statuses: pure; what the table guarantees | used by `VmLifecycle` and `Pipeline` |
| `VmLifecycle` | machine rows and all handlers, one action per database statement | implements `VmPhases` if handlers run one at a time |
| `VmPhases` | abstract: absent, provisioning, usable, leaving, gone | implemented by `VmLifecycle` and by `Pipeline` |
| `VmLifecycleProofs` | theorems about `VmLifecycle` | |
| `Outbox` | message rows, connections, the tasks of the replicas, one action per await | implements `AtLeastOnce` if no connection breaks |
| `AtLeastOnce` | abstract: recorded, and received sooner or later | |
| `OutboxProofs`, `OutboxContractProofs` | theorems about `Outbox`; that its steps are steps of `AtLeastOnce` | |
| `Provisioner` | request consumer, Kubernetes Jobs and pods, terraform's state and lock, for one machine | implements `OneTerraform` |
| `OneTerraform` | abstract: the cloud as one terraform command after the other leaves it | |
| `LogConsumer` | deliveries, posts and acknowledgements of progress lines | |
| `Pipeline` | one machine from end to end: row, messages, requests, Jobs, pods, lines, row | EXTENDS `Provisioner`, INSTANCE `LogConsumer`; implements `VmPhases` and `OneTerraform` |
| `ProvisionerProofs`, `PipelineProofs` | theorems about both | |
| `VmQuota`, `VmQuotaProofs` | count and insert of create requests; theorems | |
| `Accounts`, `AccountsProofs` | profiles, logins, sessions, `deleteUserProfileJob`; theorems | EXTENDS `VmQuota`, whose machines it uses |
| `MCVmLifecycle`, `MCPipeline` | symmetry for TLC; a view without the histories `answered` and `served`, which no step and no property of that run reads (but for `served`'s type) | |

### VmLifecycle

`vm[v]` is the row: `status`, `ipv4Address` and `startedAt`, which is only ever compared with
the machine's duration and so is `"null"`, `"recent"` or `"expired"` (`TimePasses`).
`outbox` holds machine and action of every message row; rows are never removed, and a second
row for the same machine and action says nothing new here. `usedUrls` are the `app_url` rows
with `usedAt`. `handler[h]` is a handler in progress: the next statement, what it was called
with and what it has read. `Requests` (log lines and destroy requests), `Callbacks`,
`ExpiryRuns` and `CaptureRuns` say which kinds of handler an element may be, one at a time;
they may overlap. The action for each piece of code:

| Code | Actions |
|---|---|
| `createVmInTransaction` | `CreateVm`: row and message commit together |
| `updateVmProvisioningStatusByTfLog` | `ReceiveLog` (read), then `UpdateIpOnly`, `UpdateStatus` or `UpdateNothing` |
| `validateAppUrl`, `updateVmProvisioningStatusByRestCallback`, `handleAppUrl` | `OpenUrl`, `ReadVm`, `Update…`, `StampStartedAt` (COMPLETE only), `markAppUrlAsUsed` |
| `requestVmDestroy`, `destroyVmInTransaction` | `requestVmDestroy`, `SetToBeDestroyed` (which is outside the transaction), `EnqueueDestroy` |
| `destroyExpiredVmsJob` | `destroyExpiredVmsJob` (the list), then the two destroy steps for each machine |
| `captureVmIpJob` | `captureVmIpJob` (the list), `EnqueueRefresh` for each machine |
| an uncaught error or the end of the process | `Abort`; `CallbackFails` where a callback catches it |

Log lines are abstracted to what the classification reads of them (`LogKind`); `JobLog` says
which lines a job of each kind can emit. A line of any job that was requested may arrive at
any time, again and again. That the consumers and Jobs do no more than that is
`LinesWereRequested`, a theorem about `Pipeline`; that they do less is nothing the proofs here
depend on.

Left out: the Jupyter URLs (they only mark themselves), `archiveVm` (metadata), the
append-only `provision_log`, the 30-minute window of `captureVmIpJob` (a machine that falls
out of it is one for which no capture runs), the rows that a user's deletion cascades to.

### Outbox

A task is a request that publishes what it recorded, a run of `publishPendingMessagesJob`
(croner lets them overlap) or a `connectToRabbitMQ` that a timer started. `publishMessage`
calls `connectToRabbitMQ` when the channel is closed, which calls
`publishAllPendingMessages`, which calls `publishMessage`: a task therefore holds a stack of
lists, and each list is as old as its call. A connection is `up`, `lost` (broken, and its
process has not noticed: `assertQueue` gets no answer, `sendToQueue` takes the message and
answers true) or `closed` (the close handler has run: calls throw). A buffer is what was
written to a connection and has not reached the broker. Connecting while another connection
is up leaves that one open, with its close handler, as in the code. Messages in a buffer are
a set: sending one twice on a connection is sending it once, and the order of arrival is not
kept. A `Free` connection object may be used again; when none is, the broker refuses
(`ConnectRefused`).

### Provisioner

`request[q]` is a delivery of the request queue with its action and the next call of its
handler; the copying of the folder comes before the acknowledgement, all other calls after it.
`job[a]` is the Job that has the name `tf-<a>-job-<vm>`, identified by the request that
created it; `pod[q]` is what the pod of q's Job does, deleted Jobs included, whose pods are
ended in the background.

| Code | Actions |
|---|---|
| `startConsumer`, `handle…Action` | `Consume`, `generateTfVarFile` |
| `ackAndPublish` | `ackAndPublish` |
| `createTerraformJob` | `readNamespacedJob`, `deleteNamespacedJob`, `createNamespacedJob`: by name, whatever has the name by then |
| `jobManifest`, the pod's command | `StartPod`, `AcquireLock` or `LockHeld`, `Apply`, `RecordState`, `Finish`; `PodFails` with `backoffLimit`; `ExpireJob` for `ttlSecondsAfterFinished` |
| an unhandled rejection, the end of the consumer | `ConsumerCrash`: what is not acknowledged comes again, the rest is lost |
| `catch` blocks, a full buffer | `CallFails` |

Terraform is modelled as far as the code relies on it: a command locks the state file of the
working directory or fails at once (no `-lock-timeout`), changes the cloud, and records the
result before it gives the lock back. A pod that ends in between leaves a machine that the
state does not know (`interrupted`). The command is a pipe, whose status is that of
`send_to_rabbitmq.py`: a terraform that fails completes its Job and is not retried; only a
failing `terraform init`, a dying node or script is.

Machines of different ids share no Job name, folder or state, so the module describes one.

### LogConsumer and Pipeline

There is no prefetch limit, so `progress` is a set from which any line may be posted next.
A line whose post fails is `held` until the consumer or its channel ends (`Redeliver`); a
line whose answer is lost was processed and is processed again; an error that the service
catches is answered with 200 and loses the line (`Swallow`).

`Pipeline` adds the row and the messages. A line is one step here: its statements, and what
comes between them, are the subject of `VmLifecycle`; a recorded message may be published any
number of times, in any order, which is what `Outbox` promises (`Outbox` also shows how one is
lost). A one-time URL may be called again and again while a machine exists, by any number of
machines of the row. Of a command's lines those are left out that say no more to the row than
the request did. `hasty` remembers that a creation and a destruction were in progress at the
same time: the code accepts a destroy request in any status, and the destroy may then find
nothing and leave the machine that is made afterwards.

### VmQuota and Accounts

`startVmProvisioning` is the count, `createVmInTransaction` the insert. The status of a
machine is RUNNING, DESTROYED or one of the `OTHER`s, which is all that the count and
`deleteUserProfileJob` tell apart; `asked` are the machines somebody asked to destroy, the owner
or a cron job. A log line or callback is folded into its last statement, `updateVmStatus`:
a status computed from a read of any age replaces whatever the row holds by then, RUNNING over
DESTROYED included, and any number of such handlers may be in progress. All that is kept of the
status table is that DESTROYED takes a DESTROY job, hence a request
(`DestroyedOnlyOnRequest` in `VmLifecycle`). The expiry job destroys from a list that may be as
old. `Accounts` adds the profile
of each user, the sessions, logins with the profile they read (`login`) and runs of
`deleteUserProfileJob` with their list of users and machines (`run`). DISABLED and DELETED are
never set by the code. The handler that marks a profile for deletion exists but no route leads
to it; the model calls it for any session. A session keeps the user it was opened with and is
not compared with the profile again, so a user marked for deletion can still create a machine.
The insert requires the profile (foreign key), the deletion takes the machines with it
(`onDelete: Cascade`).

## 3. What is checked

| Run | Bounds | Shows |
|---|---|---|
| `lifecycle_race` | 1 machine, 2 handlers of any kind | what survives every interleaving of two handlers: `AddressStartsClock`, `DestroyedOnlyOnRequest`, `StaysCounted`, `RunningIsMetered`, `DestroyIntentRecorded` |
| `lifecycle_live` | 1 machine, 2 callbacks (one handler of them also a log line, destroy request or run of the address job), 2 runs of the expiry job | an expired machine gets its DESTROY message unless a late write hides it from the job; RUNNING gets its `startedAt` |
| `lifecycle_serial` | 2 machines, 1 handler, 1 failure | one handler at a time implements `VmPhases` and keeps `DestroyIntentKept`, which two handlers break |
| `outbox_live` | 1 message, 2 replicas, 2 tasks each, 2 connections, 1 loss | every recorded message ends up PUBLISHED for good, whatever replica or connection is lost; `isChannelOpen` never outlives the connection |
| `outbox_contract` | 2 messages, 2 tasks, 2 failures, no loss | the outbox implements `AtLeastOnce`, fairness included; PUBLISHED messages were written |
| `pipeline` | 3 requests, 1 retry, 1 fault | `NoStrayMachine`, `OneMachine`, `DestroyedMeansGone`; overlapping Jobs implement `OneTerraform` |
| `pipeline_live` | 2 requests, no retry, 1 fault | every request is served without a fault, a destroy ends with DESTROYED or an error, every result is answered although a post fails; `NoRequestDropped`, `ServedHasResult`, `NeverSettledUnanswered`, `LinesWereRequested`; the row implements `VmPhases` |
| `accounts` | 1 user, 2 machines, quota 1, 2 logins, 2 create requests, 2 runs, any number of them cut short, any number of log lines and callbacks | `OverrunBounded`, `ListedMachinesKept`, `DeletionEnds` |

Handlers touch one machine at a time and interact only through its row, so one machine and
two handlers show every conflict of two; the second machine of `lifecycle_serial` gives cron
runs a list of more than one. `lifecycle_live` has a third handler, so that two write to the row
while the job runs, and two runs of the job overlap. Two tasks give overlapping connects, two lists of different
age and a connection that loses its place as channel; two connections are enough for the
latter. Three requests are a CREATE, its repetition and a DESTROY or REFRESH, or two
of one action that conflict over a Job's name and a third that runs meanwhile; one retry lets
a pod find what its predecessor left. A quota of one with two create requests and two
machines is the smallest instance that overruns it, and gives a deletion one machine that was
listed and one inserted later; users share nothing but the list of a
run, so one user is enough for all but that list, and the proofs are for any number.
`MaxAborts`, `MaxLosses`, `MaxFailures` and `MaxFaults` bound the number of faults, not their
place. The proofs below do not depend on these bounds.

What the properties leave open, because the code does: `EveryRequestServed`, `DestroyEnds`,
`NoRequestDropped` and `NeverSettledUnanswered` hold without faults (a request is
acknowledged before its Job exists, and a lost one is not sent again); `DestroyEnds` accepts an error line, which nobody retries;
`DestroyedMeansGone` and `OneMachine` except a pod that ended between making a machine and
recording it, and the former an overlap of creation and destruction; `ExpiredVmsAreDestroyed`
excepts a machine whose duration a callback restarts, and one whose RUNNING a status computed
from an old read overwrites before the job lists it: nothing lists that one until a callback
makes it RUNNING again. `ListedMachinesKept`
excepts a machine inserted after the run listed the user's, and one that was destroyed on
request and that such a write brings back afterwards. `DeletionEnds` excepts a user who comes
back, a login that writes back the status ACTIVE it had read, and a machine that waits for ever
or again and again in a status that the job neither destroys nor takes for destroyed:
PROVISIONING_FAILED, or TO_BE_DESTROYED and DESTROYING after a DESTROY that found the lock
held, that was lost after its acknowledgement, or whose status was overwritten.

Runs that TLC refutes, each a disagreement between the code and what the repository says:

| Run | Refuted | What happens |
|---|---|---|
| `lifecycle_stale` | `DestroyIntentKept` | a log line reads the row, the owner asks for its destruction, the line's status overwrites TO_BE_DESTROYED (`vmService.ts:582`) |
| `lifecycle_halfway` | `DestroyIntentRecorded` | the process dies between the two statements of `destroyVmInTransaction`, of which only the second is in the transaction (`vmService.ts:374`); nothing looks at TO_BE_DESTROYED again |
| `outbox_lost` | `PublishedIsOnItsWay` | PUBLISHED is written while the message is in the client's buffer; the confirm channel's confirms are never awaited (`messageQueueService.ts:17`) |
| `provisioner_overlap` | `OneRunner` | a Job that was just created has no active pod, counts as finished, is deleted and replaced: both pods run (`consumer.ts:195`) |

Two more follow from the models without a run of their own: two create requests count before
either inserts, so the quota can be overrun (by how much is `OverrunBounded`), and two requests
with one URL pass the validator before either marks it used (`ReadVm` in `VmLifecycle`).

Fairness. `Proceed(h)` and `Proceed(t)` are weakly fair because Node's event loop runs the
continuation of every await that is answered; the cron jobs because croner starts them every
30 and 5 seconds; `reconnect` because it is a timer; `CloseEvent` because of the heartbeat;
`Receive` because a connection that does not break delivers. In `Pipeline` the handlers and
the forwarding of lines are fair for the same reason, pods because Kubernetes starts those of
the Jobs it has and terraform commands end, `CollectPod` because the deletion of a Job
propagates, and `Redeliver` because RabbitMQ closes a channel whose delivery is not
acknowledged in time (`consumer_timeout`), which ends the consumer. In `Accounts` the
job is fair because croner runs it every 30 seconds, and its runs fail only finitely often,
as the faults of the other modules; nothing is assumed of the machines, whose DESTROY may fail
for good. Nothing is assumed of users or cloud-init, or of the steps that start a request. That faults are bounded says
that database and broker are reachable for long enough in the end; without it nothing could
be published.

## 4. What is proved

`VmLifecycleProofs`, for any machines, handlers, addresses and number of failures:

* `TypeCorrect`, `AddressAlwaysStartsClock`, `DestroyedAlwaysOnRequest`, `AlwaysStaysCounted`
  from `IInv`. The properties speak of rows; a step writes what a handler read earlier, so
  `IInv` says of each handler what it may still do (`Asks`) and which part of what it read
  cannot have become false since (`Saw`: a `startedAt` that was set is still set). `Kept`
  names the three things no step undoes.
* `RunningAlwaysMetered` and `IntentAlwaysRecorded` (the latter for `MaxAborts = 0`) from
  `PromiseInv`, which adds where a requested status comes from: RUNNING only from a COMPLETE
  callback, TO_BE_DESTROYED only from a destroy job.
* `SerialImplementsPhases`: with at most one handler, every step of `VmLifecycle` is a step of
  `VmPhases` or a stutter. `SerialInv` says that what a handler read is still there, and
  that only machines on their way out have a DESTROY message; `TableKeepsPhases` is what the
  status table contributes. `SerialKeepsDestroyIntent` is the property that `lifecycle_stale`
  refutes for two handlers, from the same invariant: the hypothesis is needed.

`VmStatusProofs`: the lemmas about the table and the classification that both modules use.
`TableKeepsPhases` takes a hypothesis the table cannot supply, that a machine becomes
DESTROYING or DESTROYED only on its way out; `VmLifecycle` gets it from `SerialInv`,
`Pipeline` from `LeavingInv`.

`VmQuotaProofs`, for any quota: `OverrunAlwaysBounded`. Machines and grants are counted
together because an insert turns the one into the other. The property speaks of machines
nobody asked to destroy, the code counts rows that are not DESTROYED; `CountedOrAsked`, that the
former are among the latter, holds for status writes of any age.

`OutboxProofs`, for any messages, replicas, tasks, connections and faults: `TypeCorrect`,
`FlagAlwaysTruthful`, `PublishedAlwaysWritten`. The invariant says what a task may rely on
(`Sound`: one about to send has a channel, one about to mark a message PUBLISHED has, as long
as no connection was lost, written it), and that a closed connection has nothing in its buffer
(`ClosedIsEmpty`): without the two, a close handler could take back what a row already claims.

`OutboxContractProofs`: the safety part of `ImplementsContract` (`OutboxStepsAreContractSteps`).
A task may hold a list it read long ago, so the invariant it needs (`OnlyRecorded`) follows a
message from the row to the lists, from there to the hand of a task and to a buffer: each
holds recorded messages only, and no row is ever taken back. What then reaches the broker was
recorded, whichever connections broke in between.

`ProvisionerProofs`, for any requests, retries and faults: `TypeCorrect`,
`NeverStrayMachine`, `AlwaysOneMachine`. The invariant they need is about the lock: a pod that
has applied or is about to holds it (`LockHeldByWriter`), and the request of a Job that has a
pod was published (`Published`); so only one pod at a time can be between the cloud and the
state, and a machine outside the state is its own. Two more invariants go with it:

* `NothingDropped` (`NoRequestDropped`). A handler that finds a Job running, or its name taken,
  gives up and trusts that Job; a handler that finds one finished deletes it by name, and may
  delete the one that others trust. `RelyInv` says why that is enough: without a fault, the
  Job that such a request will find has not ended before serving it (`JobsTrusted`), and a
  name is free only while some handler is about to create it (`NameAwaited`). The property
  speaks of handlers that are done; it is not inductive until those at their last call are
  added, since a creation that finds the name taken ends in the same trust. `JobsInv` ties
  Jobs and pods to handlers that made their last call, so that a Job just created has no pod
  that ended.
* `ProvisionerIsOneTerraform`. What a later command knows is `cloud \ interrupted`; a DESTROY
  removes `state`. That the two agree under the lock takes `NamesInv`: the name of a
  machine is the pod's, a pod that has not applied has none, a retry has a new one, and what
  was recorded is never among the interrupted.

`PipelineProofs`: the same for the composition (`PipelineKeepsMachines`), and
`DestroyedIsGone`, for any number of lost, late and repeated lines. `LeavingInv` ties
the row to the messages: once a DESTROY is recorded the row stays on its way out. `GoneInv`
says that, unless the two overlapped, no creation is in progress once a destroy was
requested, and that the cloud is empty as soon as the row, a line under way or a pod that has
applied a destroy says so: the row is written from lines that may be arbitrarily old, so the
lines must be part of it. On top of it, `FlowInv` follows messages, requests and lines:

* `OnlyRequestedLines`: a line comes from a pod, a pod from a request, a request from a
  recorded message, and no message is ever taken back (`status = NotCreated => outbox = {}` is
  needed because the creation overwrites `outbox`). It discharges what `VmLifecycle` assumes of
  the lines that come.
* `ResultNeverLost`: a command that ends emits a line of its action's last kinds in the step in
  which it serves requests (`served` pairs each with the Job, so that an older result does not
  count), and the log consumer only moves lines between `progress`, `held`
  and `answered`, with every fault it has.
* `RestsOnlyWhenAnswered` combines it with `RelyInv`: of a pipeline at rest no request can
  trust a Job any more, so it was served, and the result of the Job that served it is answered. It is what can be
  proved of `EveryRequestServed` and `EveryResultAnswered` without fairness.
* `PipelineImplementsPhases`: here the row is read and written in one step, and it is the lines
  of real Jobs that drive it, callbacks and repeated destroy requests included.
* `PipelineDropsNothing`, `PipelineIsOneTerraform`: the two invariants of `Provisioner` in the
  composition.

`AccountsProofs`, for any users, machines, logins and runs: `AccountsTypeCorrect`,
`ListedMachinesAlwaysKept` and `AccountsOverrunBounded`. A run at its delete holds a list of
machines that were DESTROYED when it read them. What their rows hold by now is not known, for
late writes may have changed them; that somebody asked to destroy them cannot change, and
`FoundWereAsked` carries it from the read to the delete, together with the rows that another
run has removed in between.

Assumptions are the named ones of each module only: null values are not values, bounds are
natural numbers, and, for the quota, finitely many machines and requests.

Only model-checked: the liveness properties and the fairness part of `ImplementsContract`
(temporal reasoning about fairness and `ENABLED` is out of the prover's reach). Of
`EveryRequestServed` and `EveryResultAnswered` the part without fairness is proved, as said
above. The properties that the violation runs refute are false; of these, `DestroyIntentKept`
and `DestroyIntentRecorded` are proved under the hypothesis that excludes the counterexample.

## 5. Not modelled

* Sockets: one map per replica from what a client calls itself to its last socket. A message
  is sent at most once and nothing depends on it. (A socket is entered under the id of the
  handshake, and looked up under the name of the user.)
* Sessions beyond their existence: what two refreshes of one session do to each other is
  decided by the identity provider and the session store, which are not in the repository.
* SSH keys: single inserts and reads. Providers, templates, HCL and manifests: configuration.
  Of the resources of a template only the machine is modelled.
* `archiveVm` (it reads and writes a column that nothing else changes), the Jupyter URLs, the append-only logs of activity, events
  and provisioning (the statement of `logVmEvent` is never awaited, so it is never sent).
* The API's plain reads, the HTTP server's wiring.
* The answer to a create request that fails after its commit.

What could be added: the messages that a deleted profile takes with it while a task
publishes them (`Outbox` has them as a failing statement), and several machines in
`Pipeline`, which share only the consumer's crash.
