---------------------------- MODULE VmLifecycle ----------------------------
(***************************************************************************)
(* The life of virtual machine rows in the REST service (rest/src): the    *)
(* handlers of POST /api/message/process (terraform log lines) and of      *)
(* POST /go/:token (one-time URLs called by cloud-init), the user's        *)
(* destroy request, and the cron jobs that destroy expired machines and    *)
(* look for missing addresses.                                             *)
(*                                                                         *)
(* Two replicas of the service run these handlers concurrently over one    *)
(* Postgres database and no handler locks a row.  A handler is therefore   *)
(* a process of several steps, one per database statement: what it reads   *)
(* in one step it uses in a later one, and any other handler may run in    *)
(* between.                                                                *)
(***************************************************************************)
EXTENDS VmStatus, Naturals

CONSTANTS
  Vms,         \* machine ids
  Requests,    \* log lines and destroy requests that may be in progress
  Callbacks,   \* requests of one-time URLs that may be in progress
  ExpiryRuns,  \* runs of destroyExpiredVmsJob that may be in progress
  CaptureRuns, \* runs of captureVmIpJob that may be in progress
  Ips,         \* addresses a provider may give
  NoIp,        \* a null ipv4Address
  NoVm,        \* the machine of an idle handler
  MaxAborts    \* bound on handlers cut short, by a crash or a failed statement

ASSUME ConstantsAssumption ==
  /\ NoIp \notin Ips
  /\ Undefined \notin Ips
  /\ NoVm \notin Vms
  /\ MaxAborts \in Nat

VARIABLES
  vm,        \* the virtual_machine rows
  outbox,    \* <<machine, action>> of every row of the message table
  usedUrls,  \* <<machine, url>> of every app_url row with usedAt set
  handler,   \* the handlers in progress
  aborts     \* handlers cut short so far

\* The four sets may share elements: an element of two of them is either
\* kind of handler, one at a time.
Handlers == Requests \cup Callbacks \cup ExpiryRuns \cup CaptureRuns

vars == <<vm, outbox, usedUrls, handler, aborts>>

-----------------------------------------------------------------------------
(* A row.  startedAt is compared with the machine's duration only: null,   *)
(* recent, or older than the duration allows.                              *)

StartedAt  == {"null", "recent", "expired"}

Row == [status      : VmStatus \cup {NotCreated},
        ipv4Address : Ips \cup {NoIp},
        startedAt   : StartedAt]

NoRow  == [status |-> NotCreated, ipv4Address |-> NoIp, startedAt |-> "null"]
NewRow == [NoRow EXCEPT !.status = "TO_BE_PROVISIONED"]

Created(v) == vm[v].status # NotCreated

(***************************************************************************)
(* A handler: the statement it executes next (pc), the machine, URL,       *)
(* status and address it was called with, the status it read and whether   *)
(* startedAt was set in what it read, and the machines a cron run has yet  *)
(* to serve.                                                               *)
(***************************************************************************)
PC == {"idle", "read", "update", "stamp", "mark", "destroy", "enqueue", "refresh"}

NoUrl == "none"

Handler == [pc      : PC,
            vm      : Vms \cup {NoVm},
            url     : UrlAction \cup {NoUrl},
            status  : VmStatus \cup {Undefined},
            ip      : Ips \cup {Undefined},
            current : VmStatus \cup {NotCreated},
            started : BOOLEAN,
            todo    : SUBSET Vms]

Idle == [pc |-> "idle", vm |-> NoVm, url |-> NoUrl, status |-> Undefined,
         ip |-> Undefined, current |-> NotCreated, started |-> FALSE, todo |-> {}]

IsIdle(h) == handler[h].pc = "idle"

\* A handler that has no statement left is idle again.
Goto(h, pc) == handler' = IF pc = "idle" THEN [handler EXCEPT ![h] = Idle]
                          ELSE [handler EXCEPT ![h].pc = pc]

-----------------------------------------------------------------------------
Init ==
  /\ vm = [v \in Vms |-> NoRow]
  /\ outbox = {}
  /\ usedUrls = {}
  /\ handler = [h \in Handlers |-> Idle]
  /\ aborts = 0

(***************************************************************************)
(* createVmInTransaction: the row, its one-time URLs and the CREATE        *)
(* message commit together.                                                *)
(***************************************************************************)
CreateVm(v) ==
  /\ ~Created(v)
  /\ vm' = [vm EXCEPT ![v] = NewRow]
  /\ outbox' = outbox \cup {<<v, CREATE>>}
  /\ UNCHANGED <<usedUrls, handler, aborts>>

(***************************************************************************)
(* updateVmProvisioningStatusByTfLog, up to its read of the row.  The log  *)
(* consumer has no prefetch limit and redelivers what was not acknowledged,*)
(* so the lines of all jobs requested so far arrive in any order, and more *)
(* than once.                                                              *)
(***************************************************************************)
ReceiveLog(h, v, action, log) ==
  /\ IsIdle(h)
  /\ <<v, action>> \in outbox
  /\ LET result == findStatusFromProvisionLog(log, action)
     IN  handler' = [handler EXCEPT ![h] =
                       [Idle EXCEPT !.pc = "update", !.vm = v,
                                    !.status = result.status, !.ip = result.ip,
                                    !.current = vm[v].status,
                                    !.started = vm[v].startedAt # "null"]]
  /\ UNCHANGED <<vm, outbox, usedUrls, aborts>>

\* validateAppUrl lets the request pass; the URL is marked only at the end.
OpenUrl(h, v, url) ==
  /\ IsIdle(h)
  /\ Created(v)
  /\ <<v, url>> \notin usedUrls
  /\ handler' = [handler EXCEPT ![h] =
                   [Idle EXCEPT !.pc = "read", !.vm = v, !.url = url,
                                !.status = URL_ACTION_TO_VM_STATUS_MAP[url]]]
  /\ UNCHANGED <<vm, outbox, usedUrls, aborts>>

\* getVmById in updateVmProvisioningStatusByRestCallback.
ReadVm(h) ==
  /\ handler[h].pc = "read"
  /\ LET v == handler[h].vm
     IN  handler' = [handler EXCEPT ![h].pc = "update",
                                    ![h].current = vm[v].status,
                                    ![h].started = vm[v].startedAt # "null"]
  /\ UNCHANGED <<vm, outbox, usedUrls, aborts>>

-----------------------------------------------------------------------------
(* updateVmStatus: three outcomes, decided by what the handler read.       *)

\* Mutant: a REFRESH line, which has no status, writes the one it has not.
UncheckedStatus(r) == r.status

NextStatus(r) == IF r.status = Undefined THEN r.current
                 ELSE findNextVmState(r.current, r.status)

\* Mutant: a COMPLETE callback skips its second update.
AfterUpdateUnstamped(r) == IF r.url = NoUrl THEN "idle" ELSE "mark"

\* Where a handler goes after a successful updateVmStatus, and after a throw.
AfterUpdate(r) == CASE r.url = NoUrl    -> "idle"
                    [] r.url = START    -> "mark"
                    [] r.url = COMPLETE -> "stamp"
AfterThrow(r)  == IF r.url = NoUrl THEN "idle" ELSE "mark"

\* Mutant: the address is kept, the start of the duration is not.
UpdateIpWithoutStart(h) ==
  LET r == handler[h] IN
  /\ r.pc = "update"
  /\ NextStatus(r) = r.current /\ r.ip # Undefined
  /\ vm' = [vm EXCEPT ![r.vm].ipv4Address = r.ip]
  /\ Goto(h, AfterUpdate(r))
  /\ UNCHANGED <<outbox, usedUrls, aborts>>

\* The status does not change and there is an address to keep.
UpdateIpOnly(h) ==
  LET r == handler[h] IN
  /\ r.pc = "update"
  /\ NextStatus(r) = r.current /\ r.ip # Undefined
  /\ vm' = [vm EXCEPT ![r.vm].ipv4Address = r.ip,
                      ![r.vm].startedAt = IF r.started THEN vm[r.vm].startedAt ELSE "recent"]
  /\ Goto(h, AfterUpdate(r))
  /\ UNCHANGED <<outbox, usedUrls, aborts>>

\* The status changes: the row is overwritten, whatever it holds by now.
UpdateStatus(h) ==
  LET r == handler[h]
      old == vm[r.vm]
  IN
  /\ r.pc = "update"
  /\ NextStatus(r) # r.current
  /\ vm' = [vm EXCEPT ![r.vm] =
              [status      |-> NextStatus(r),
               ipv4Address |-> IF r.ip = Undefined THEN old.ipv4Address ELSE r.ip,
               startedAt   |-> IF r.ip = Undefined THEN old.startedAt ELSE "recent"]]
  /\ Goto(h, AfterUpdate(r))
  /\ UNCHANGED <<outbox, usedUrls, aborts>>

\* Nothing to write: 'No status change' is thrown, or (a REFRESH line) the
\* row is returned as it was read.
UpdateNothing(h) ==
  LET r == handler[h] IN
  /\ r.pc = "update"
  /\ NextStatus(r) = r.current /\ r.ip = Undefined
  /\ Goto(h, AfterThrow(r))
  /\ UNCHANGED <<vm, outbox, usedUrls, aborts>>

\* The second update of a COMPLETE callback.
StampStartedAt(h) ==
  /\ handler[h].pc = "stamp"
  /\ vm' = [vm EXCEPT ![handler[h].vm].startedAt = "recent"]
  /\ Goto(h, "mark")
  /\ UNCHANGED <<outbox, usedUrls, aborts>>

\* handleAppUrl marks the URL, whether or not the callback succeeded.
markAppUrlAsUsed(h) ==
  /\ handler[h].pc = "mark"
  /\ usedUrls' = usedUrls \cup {<<handler[h].vm, handler[h].url>>}
  /\ Goto(h, "idle")
  /\ UNCHANGED <<vm, outbox, aborts>>

-----------------------------------------------------------------------------
(* Destroying: by the owner (any status), or because the time is up.       *)

requestVmDestroy(h, v) ==
  /\ IsIdle(h)
  /\ Created(v)
  /\ handler' = [handler EXCEPT ![h] = [Idle EXCEPT !.pc = "destroy", !.todo = {v}]]
  /\ UNCHANGED <<vm, outbox, usedUrls, aborts>>

\* Mutant: the comparison with the machine's duration is the wrong way round.
UnexpiredVms == {v \in Vms : vm[v].status = "RUNNING" /\ vm[v].startedAt = "recent"}

ExpiredVms == {v \in Vms : vm[v].status = "RUNNING" /\ vm[v].startedAt = "expired"}

destroyExpiredVmsJob(h) ==
  /\ IsIdle(h)
  /\ ExpiredVms # {}
  /\ handler' = [handler EXCEPT ![h] = [Idle EXCEPT !.pc = "destroy", !.todo = ExpiredVms]]
  /\ UNCHANGED <<vm, outbox, usedUrls, aborts>>

\* The update that destroyVmInTransaction issues outside its transaction: it
\* commits on its own.
SetToBeDestroyed(h, v) ==
  /\ handler[h].pc = "destroy"
  /\ v \in handler[h].todo
  /\ vm' = [vm EXCEPT ![v].status = "TO_BE_DESTROYED"]
  /\ handler' = [handler EXCEPT ![h].pc = "enqueue",
                                ![h].vm = v,
                                ![h].todo = handler[h].todo \ {v}]
  /\ UNCHANGED <<outbox, usedUrls, aborts>>

\* Mutant: the insert is lost with its transaction, the caller does not notice.
DestroyNotEnqueued(h) ==
  /\ handler[h].pc = "enqueue"
  /\ Goto(h, IF handler[h].todo = {} THEN "idle" ELSE "destroy")
  /\ UNCHANGED <<vm, outbox, usedUrls, aborts>>

\* The insert in the transaction, and its commit.
EnqueueDestroy(h) ==
  /\ handler[h].pc = "enqueue"
  /\ outbox' = outbox \cup {<<handler[h].vm, DESTROY>>}
  /\ Goto(h, IF handler[h].todo = {} THEN "idle" ELSE "destroy")
  /\ UNCHANGED <<vm, usedUrls, aborts>>

-----------------------------------------------------------------------------
(* captureVmIpJob: list the machines that lack an address, then one        *)
(* REFRESH message for each.                                               *)

VmsWithoutIp == {v \in Vms : /\ vm[v].status \in {"PROVISIONING_COMPLETED"} \cup Ready
                             /\ vm[v].ipv4Address = NoIp}

captureVmIpJob(h) ==
  /\ IsIdle(h)
  /\ VmsWithoutIp # {}
  /\ handler' = [handler EXCEPT ![h] = [Idle EXCEPT !.pc = "refresh", !.todo = VmsWithoutIp]]
  /\ UNCHANGED <<vm, outbox, usedUrls, aborts>>

EnqueueRefresh(h, v) ==
  /\ handler[h].pc = "refresh"
  /\ v \in handler[h].todo
  /\ outbox' = outbox \cup {<<v, REFRESH>>}
  /\ handler' = IF handler[h].todo = {v} THEN [handler EXCEPT ![h] = Idle]
                ELSE [handler EXCEPT ![h].todo = handler[h].todo \ {v}]
  /\ UNCHANGED <<vm, usedUrls, aborts>>

-----------------------------------------------------------------------------
(* Failures and time.                                                      *)

\* The replica dies, or a statement fails and nothing catches it: a destroy
\* request answers 500, a cron run drops the rest of its list.
Abort(h) ==
  /\ ~IsIdle(h)
  /\ aborts < MaxAborts
  /\ aborts' = aborts + 1
  /\ Goto(h, "idle")
  /\ UNCHANGED <<vm, outbox, usedUrls>>

\* A statement of a callback fails: the error is caught, the URL still marked.
CallbackFails(h) ==
  /\ handler[h].pc \in {"read", "update", "stamp"} /\ handler[h].url # NoUrl
  /\ aborts < MaxAborts
  /\ aborts' = aborts + 1
  /\ Goto(h, "mark")
  /\ UNCHANGED <<vm, outbox, usedUrls>>

TimePasses(v) ==
  /\ vm[v].startedAt = "recent"
  /\ vm' = [vm EXCEPT ![v].startedAt = "expired"]
  /\ UNCHANGED <<outbox, usedUrls, handler, aborts>>

-----------------------------------------------------------------------------

ReceiveRequest(h) ==
  \E v \in Vms :
    \/ \E action \in JobAction : \E log \in JobLog(Ips)[action] :
          ReceiveLog(h, v, action, log)
    \/ requestVmDestroy(h, v)

ReceiveCallback(h) == \E v \in Vms : \E url \in UrlAction : OpenUrl(h, v, url)

\* The next statement of a handler in progress.
Update(h)  == UpdateIpOnly(h) \/ UpdateStatus(h) \/ UpdateNothing(h)
Proceed(h) ==
  \/ ReadVm(h) \/ Update(h) \/ StampStartedAt(h) \/ markAppUrlAsUsed(h)
  \/ \E v \in Vms : SetToBeDestroyed(h, v) \/ EnqueueRefresh(h, v)
  \/ EnqueueDestroy(h)

Next ==
  \/ \E v \in Vms : CreateVm(v) \/ TimePasses(v)
  \/ \E h \in Requests : ReceiveRequest(h)
  \/ \E h \in Callbacks : ReceiveCallback(h)
  \/ \E h \in ExpiryRuns : destroyExpiredVmsJob(h)
  \/ \E h \in CaptureRuns : captureVmIpJob(h)
  \/ \E h \in Handlers : Proceed(h) \/ Abort(h) \/ CallbackFails(h)

Spec == Init /\ [][Next]_vars

(***************************************************************************)
(* Node's event loop runs the continuation of every statement that         *)
(* answers, and croner starts destroyExpiredVmsJob every 30 seconds.       *)
(* Nothing is assumed of users, of terraform's log lines or of cloud-init. *)
(***************************************************************************)
Fairness ==
  /\ \A h \in Handlers : WF_vars(Proceed(h))
  /\ \A h \in ExpiryRuns : WF_vars(destroyExpiredVmsJob(h))

FairSpec == Spec /\ Fairness

-----------------------------------------------------------------------------
(* Properties.                                                             *)

\* Rows and handlers in progress keep the shape that the schema and the code give them.
TypeOK ==
  /\ vm \in [Vms -> Row]
  /\ outbox \subseteq Vms \X JobAction
  /\ usedUrls \subseteq Vms \X UrlAction
  /\ handler \in [Handlers -> Handler]
  /\ aborts \in 0..MaxAborts

\* A machine with an address has its duration running: every write of
\* ipv4Address sets startedAt or was preceded by a read that found it set, and
\* no interleaving separates the two.  Without it getExpiredVms would never
\* list the machine.
AddressStartsClock ==
  \A v \in Vms : vm[v].ipv4Address # NoIp => vm[v].startedAt # "null"

\* A machine is being destroyed, or gone, only if a DESTROY message was
\* recorded for it: no line of another job, however late, duplicated or
\* computed from an old read, takes it there.
DestroyedOnlyOnRequest ==
  \A v \in Vms : vm[v].status \in {"DESTROYING", "DESTROYED"} => <<v, DESTROY>> \in outbox

\* No log line or callback takes a machine to UNKNOWN (the status of every
\* unclassified line), STOPPED or SHUTDOWN: countActiveVms would stop counting
\* a machine that still runs.
StaysCounted ==
  \A v \in Vms : vm[v].status \notin {"UNKNOWN"} \cup Halted

\* As long as no handler died half-way, a RUNNING machine has its duration
\* running or the callback that made it RUNNING is about to set startedAt.
RunningIsMetered ==
  aborts = 0 =>
    \A v \in Vms : vm[v].status = "RUNNING" /\ vm[v].startedAt = "null" =>
      \E h \in Handlers : handler[h].pc = "stamp" /\ handler[h].vm = v

\* A machine waits in TO_BE_DESTROYED only if its DESTROY message is recorded,
\* or about to be: else nothing ever destroys it, for no cron job looks at
\* machines in that status.
DestroyIntentRecorded ==
  \A v \in Vms : vm[v].status = "TO_BE_DESTROYED" =>
    \/ <<v, DESTROY>> \in outbox
    \/ \E h \in Handlers : handler[h].pc = "enqueue" /\ handler[h].vm = v

\* What the table says of TO_BE_DESTROYED and DESTROYING, of the rows: a
\* machine on its way out does not come back.
DestroyIntentKept ==
  [][\A v \in Vms : vm[v].status \in {"TO_BE_DESTROYED", "DESTROYING"}
                      => vm'[v].status \in Leaving]_vars

\* A RUNNING machine past its duration gets its DESTROY message, although runs
\* of the job overlap and handlers go on, unless a callback restarts the duration
\* or a status computed from an old read overwrites RUNNING before the job lists
\* the machine: INITIALIZING, say, over a row that a second handler made RUNNING
\* meanwhile.  Nothing lists such a machine until a callback makes it RUNNING again.
ExpiredVmsAreDestroyed ==
  \A v \in Vms :
    (vm[v].status = "RUNNING" /\ vm[v].startedAt = "expired")
      ~> \/ <<v, DESTROY>> \in outbox
         \/ vm[v].startedAt = "recent"
         \/ vm[v].status \notin {"RUNNING"} \cup Leaving

\* The two updates of a COMPLETE callback: RUNNING is followed by startedAt.
RunningGetsMetered ==
  \A v \in Vms : vm[v].status = "RUNNING" ~> vm[v].startedAt # "null"

-----------------------------------------------------------------------------
(* The phases of VmPhases.                                                 *)

Phases == INSTANCE VmPhases WITH phase <- [v \in Vms |-> PhaseOf(vm[v].status)]

\* Handlers that run one at a time implement the phases: no log line, callback
\* or cron run, in whatever order they come, takes a machine back.
ImplementsPhases == Phases!Spec
=============================================================================
