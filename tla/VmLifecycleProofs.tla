-------------------------- MODULE VmLifecycleProofs --------------------------
(***************************************************************************)
(* Proofs about VmLifecycle, for any numbers of machines, handlers,        *)
(* addresses and failures.                                                 *)
(***************************************************************************)
EXTENDS VmLifecycle, VmStatusProofs

-----------------------------------------------------------------------------
(* The inductive invariant.  The properties speak of rows; they are        *)
(* inductive only together with what the handlers in progress have read    *)
(* and are about to write.                                                 *)

\* A message row of a machine implies the row of the machine.
MessagesHaveVms == \A v \in Vms, a \in JobAction : <<v, a>> \in outbox => Created(v)

\* Nothing is written to a row before it exists.
CleanSlate == \A v \in Vms : Created(v) \/ vm[v] = NoRow

RowsInv ==
  /\ vm \in [Vms -> Row]
  /\ outbox \subseteq Vms \X JobAction
  /\ AddressStartsClock
  /\ DestroyedOnlyOnRequest
  /\ StaysCounted
  /\ MessagesHaveVms
  /\ CleanSlate

\* A handler works on machines that exist.
Targets(r) ==
  /\ r.pc \notin {"idle", "destroy", "refresh"} => r.vm \in Vms /\ Created(r.vm)
  /\ \A v \in r.todo : Created(v)

\* It asks for the end of a machine only after a DESTROY message.
Asks(r) ==
  /\ r.pc \in {"read", "update"} =>
       /\ r.status \notin Halted
       /\ r.status \in Terminal => <<r.vm, DESTROY>> \in outbox
  /\ r.pc \in {"read", "stamp", "mark"} => r.url # NoUrl

\* What it read was a row like those of RowsInv, and what must not be undone
\* of it has not been undone since.
Saw(r) ==
  r.pc = "update" =>
    /\ r.current \in VmStatus \ Uncounted
    /\ r.current \in Terminal => <<r.vm, DESTROY>> \in outbox
    /\ r.started => vm[r.vm].startedAt # "null"

Sound(r) == r \in Handler /\ Targets(r) /\ Asks(r) /\ Saw(r)

HandlersInv ==
  /\ handler \in [Handlers -> Handler]
  /\ \A h \in Handlers : Sound(handler[h])

IInv ==
  /\ RowsInv
  /\ HandlersInv
  /\ usedUrls \subseteq Vms \X UrlAction
  /\ aborts \in 0..MaxAborts

\* What no step undoes: rows, started durations and messages.
Kept ==
  /\ \A v \in Vms : Created(v) => Created(v)'
  /\ \A v \in Vms : vm[v].startedAt # "null" => vm'[v].startedAt # "null"
  /\ outbox \subseteq outbox'

-----------------------------------------------------------------------------
\* The invariant holds initially: there is neither a row nor a handler.
LEMMA IInvHoldsInitially == Init => IInv
  <1> SUFFICES ASSUME Init PROVE IInv
    OBVIOUS
  <1>1. RowsInv
    BY DEF Init, RowsInv, Row, StartedAt, AddressStartsClock, DestroyedOnlyOnRequest,
       StaysCounted, MessagesHaveVms, CleanSlate, NoRow, NotCreated, Halted
  <1>2. Idle \in Handler /\ Sound(Idle)
    BY DEF Sound, Idle, Handler, PC, Targets, Asks, Saw
  <1> QED
    BY <1>1, <1>2, ConstantsAssumption DEF Init, IInv, HandlersInv

\* The idle handler is sound in every state.
LEMMA IdleIsSound == Sound(Idle)
  BY DEF Sound, Idle, Handler, PC, Targets, Asks, Saw

\* The same in the state after a step.
LEMMA IdleIsSoundNext == Sound(Idle)'
  BY DEF Sound, Idle, Handler, PC, Targets, Asks, Saw

\* A handler that does not move stays sound, whatever the others write.
LEMMA OthersStaySound ==
  ASSUME RowsInv, Kept, NEW g \in Handlers, Sound(handler[g]), handler'[g] = handler[g]
  PROVE  Sound(handler[g])'
  BY DEF RowsInv, Kept, Sound, Handler, Targets, Asks, Saw

\* A step of one handler keeps the invariant if it keeps the rows' part and
\* the handler's own.
LEMMA HandlerStep ==
  ASSUME IInv, Kept, RowsInv', NEW h \in Handlers, Sound(handler[h])',
         handler' \in [Handlers -> Handler],
         \A g \in Handlers \ {h} : handler'[g] = handler[g],
         usedUrls' \subseteq Vms \X UrlAction, aborts' \in 0..MaxAborts
  PROVE  IInv'
  <1>1. \A g \in Handlers : Sound(handler[g])'
    BY OthersStaySound DEF IInv, HandlersInv
  <1> QED
    BY <1>1 DEF IInv, HandlersInv

\* A step that writes neither rows nor messages keeps what is said of them.
LEMMA RowsUnchanged ==
  ASSUME RowsInv, UNCHANGED <<vm, outbox>>
  PROVE  RowsInv' /\ Kept
  BY DEF RowsInv, AddressStartsClock, DestroyedOnlyOnRequest, StaysCounted,
     MessagesHaveVms, CleanSlate, NoRow, Created, Kept

\* Goto moves one handler, and leaves it sound if its new place allows.
LEMMA GotoStep ==
  ASSUME IInv, Kept, NEW h \in Handlers, NEW pc \in {"idle", "stamp", "mark"},
         Goto(h, pc),
         \/ pc = "idle"
         \/ handler[h].vm \in Vms /\ Created(handler[h].vm) /\ handler[h].url # NoUrl
  PROVE  /\ handler' \in [Handlers -> Handler]
         /\ \A g \in Handlers \ {h} : handler'[g] = handler[g]
         /\ Sound(handler[h])'
  <1>1. CASE pc = "idle"
    <2>1. handler' = [handler EXCEPT ![h] = Idle]
      BY <1>1 DEF Goto
    <2> QED
      BY <2>1, IdleIsSound, IdleIsSoundNext DEF IInv, HandlersInv, Sound
  <1>2. CASE pc # "idle"
    <2>1. handler' = [handler EXCEPT ![h].pc = pc]
      BY <1>2 DEF Goto
    <2>2. handler[h] \in Handler /\ Targets(handler[h])
      BY DEF IInv, HandlersInv, Sound
    <2>3. handler'[h] = [handler[h] EXCEPT !.pc = pc] /\ handler'[h] \in Handler
      BY <2>1, <2>2 DEF IInv, HandlersInv, Handler, PC
    <2>4. Targets(handler[h])'
      BY <1>2, <2>2, <2>3 DEF Targets, Kept, Handler
    <2>5. Asks(handler[h])' /\ Saw(handler[h])'
      BY <1>2, <2>2, <2>3 DEF Asks, Saw, Handler
    <2> QED
      BY <2>1, <2>3, <2>4, <2>5 DEF IInv, HandlersInv, Sound
  <1> QED
    BY <1>1, <1>2

\* What an update in progress would write.
LEMMA NextStatusFacts ==
  ASSUME IInv, NEW h \in Handlers, handler[h].pc = "update"
  PROVE  LET r == handler[h]
         IN  /\ r \in Handler /\ r.vm \in Vms /\ Created(r.vm)
             /\ NextStatus(r) \in VmStatus \ Uncounted
             /\ NextStatus(r) \in Terminal => <<r.vm, DESTROY>> \in outbox
             /\ r.started => vm[r.vm].startedAt # "null"
             /\ AfterUpdate(r) \in {"idle", "stamp", "mark"}
             /\ AfterUpdate(r) # "idle" => r.url # NoUrl
             /\ AfterThrow(r) \in {"idle", "stamp", "mark"}
             /\ AfterThrow(r) # "idle" => r.url # NoUrl
  <1> DEFINE r == handler[h]
  <1>1. r \in Handler /\ Targets(r) /\ Asks(r) /\ Saw(r)
    BY DEF IInv, HandlersInv, Sound
  <1>2. r.status \in VmStatus \cup {Undefined} /\ r.url \in UrlAction \cup {NoUrl}
    BY <1>1 DEF Handler
  <1>3. r.current \in VmStatus \ Uncounted /\ r.status \notin Halted
    BY <1>1 DEF Saw, Asks
  <1>4. NextStatus(r) \in {r.current, r.status} /\ NextStatus(r) \in VmStatus \ Uncounted
    BY <1>2, <1>3, FindNext DEF NextStatus, Uncounted
  <1>5. NextStatus(r) \in Terminal => <<r.vm, DESTROY>> \in outbox
    BY <1>1, <1>4 DEF Saw, Asks
  <1>6. r.vm \in Vms /\ Created(r.vm) /\ (r.started => vm[r.vm].startedAt # "null")
    BY <1>1 DEF Targets, Saw
  <1>7. /\ AfterUpdate(r) \in {"idle", "stamp", "mark"}
        /\ AfterUpdate(r) # "idle" => r.url # NoUrl
        /\ AfterThrow(r) \in {"idle", "mark"}
        /\ AfterThrow(r) # "idle" => r.url # NoUrl
    BY <1>2 DEF AfterUpdate, AfterThrow, UrlAction, NoUrl, START, COMPLETE
  <1> QED
    BY <1>1, <1>4, <1>5, <1>6, <1>7

\* The rows that a cron job lists exist.
LEMMA ListedVmsExist ==
  \A v \in ExpiredVms \cup VmsWithoutIp : v \in Vms /\ Created(v)
  BY DEF ExpiredVms, VmsWithoutIp, Created, NotCreated, Ready

\* Every step keeps the invariant: one case per action.
LEMMA IInvIsInductive == IInv /\ [Next]_vars => IInv'
  <1> SUFFICES ASSUME IInv, [Next]_vars PROVE IInv'
    OBVIOUS
  <1>1. CASE UNCHANGED vars
    <2>1. RowsInv' /\ Kept
      BY <1>1, RowsUnchanged DEF vars, IInv
    <2> QED
      BY <1>1, <2>1, OthersStaySound DEF vars, IInv, HandlersInv
  <1>2. ASSUME NEW v \in Vms, CreateVm(v)
         PROVE  IInv'
    <2>1. \A w \in Vms : vm'[w] = IF w = v THEN NewRow ELSE vm[w]
      BY <1>2 DEF CreateVm, IInv, RowsInv
    <2>2. NewRow \in Row /\ NewRow.status = "TO_BE_PROVISIONED" /\ NewRow.ipv4Address = NoIp
      BY DEF NewRow, NoRow, Row, StartedAt, VmStatus
    <2>3. vm[v].startedAt = "null"
      BY <1>2 DEF CreateVm, IInv, RowsInv, CleanSlate, NoRow
    <2>4. Kept
      BY <1>2, <2>1, <2>2, <2>3 DEF CreateVm, Kept, Created, NotCreated
    <2>5. RowsInv'
      BY <1>2, <2>1, <2>2
      DEF CreateVm, IInv, RowsInv, AddressStartsClock, DestroyedOnlyOnRequest, StaysCounted,
          MessagesHaveVms, CleanSlate, NoRow, Created, NotCreated, JobAction, CREATE, Halted
    <2>6. \A g \in Handlers : Sound(handler[g])'
      BY <1>2, <2>4, <2>5, OthersStaySound DEF CreateVm, IInv, HandlersInv
    <2> QED
      BY <1>2, <2>5, <2>6 DEF CreateVm, IInv, HandlersInv
  <1>3. ASSUME NEW v \in Vms, TimePasses(v)
         PROVE  IInv'
    <2>1. RowsInv' /\ Kept
      BY <1>3 DEF TimePasses, IInv, RowsInv, Kept, Row, StartedAt, AddressStartsClock,
         DestroyedOnlyOnRequest, StaysCounted, MessagesHaveVms, CleanSlate, NoRow, Created
    <2>2. \A g \in Handlers : Sound(handler[g])'
      BY <1>3, <2>1, OthersStaySound DEF TimePasses, IInv, HandlersInv
    <2> QED
      BY <1>3, <2>1, <2>2 DEF TimePasses, IInv, HandlersInv
  <1>4. ASSUME NEW h \in Handlers, NEW v \in Vms, NEW action \in JobAction,
               NEW log \in JobLog(Ips)[action], ReceiveLog(h, v, action, log)
         PROVE  IInv'
    <2> DEFINE result == findStatusFromProvisionLog(log, action)
    <2>1. RowsInv' /\ Kept
      BY <1>4, RowsUnchanged DEF ReceiveLog, IInv
    <2>2. /\ result.status \in (VmStatus \ Halted) \cup {Undefined}
          /\ result.ip \in Ips \cup {Undefined}
          /\ result.status \in Terminal => action = DESTROY
      BY LogStatus DEF Terminal, Leaving
    <2>3. vm[v] \in Row /\ Created(v) /\ <<v, action>> \in outbox
      BY <1>4 DEF ReceiveLog, IInv, RowsInv, MessagesHaveVms
    <2>4. /\ handler' \in [Handlers -> Handler]
          /\ \A g \in Handlers \ {h} : handler'[g] = handler[g]
          /\ handler'[h] = [Idle EXCEPT !.pc = "update", !.vm = v, !.status = result.status,
                                        !.ip = result.ip, !.current = vm[v].status,
                                        !.started = vm[v].startedAt # "null"]
      BY <1>4, <2>2, <2>3 DEF ReceiveLog, IInv, HandlersInv, Handler, PC, Idle, Row, NoUrl
    <2>5. Targets(handler[h])' /\ Asks(handler[h])'
      BY <1>4, <2>1, <2>2, <2>3, <2>4
      DEF ReceiveLog, Targets, Asks, Idle, Kept, Undefined, Halted, Terminal
    <2>6. Saw(handler[h])'
      BY <1>4, <2>3, <2>4
      DEF ReceiveLog, Saw, Idle, Row, IInv, RowsInv, StaysCounted, DestroyedOnlyOnRequest,
          Uncounted, Terminal, Created
    <2> QED
      BY <1>4, <2>1, <2>4, <2>5, <2>6, HandlerStep DEF ReceiveLog, IInv, Sound
  <1>5. ASSUME NEW h \in Handlers, NEW v \in Vms, NEW url \in UrlAction,
               OpenUrl(h, v, url)
         PROVE  IInv'
    <2>1. RowsInv' /\ Kept
      BY <1>5, RowsUnchanged DEF OpenUrl, IInv
    <2>2. /\ handler' \in [Handlers -> Handler]
          /\ \A g \in Handlers \ {h} : handler'[g] = handler[g]
          /\ handler'[h] \in Handler
      BY <1>5
      DEF OpenUrl, IInv, HandlersInv, Handler, PC, Idle, URL_ACTION_TO_VM_STATUS_MAP,
         VmStatus, Ready, UrlAction
    <2>3. Targets(handler[h])' /\ Asks(handler[h])' /\ Saw(handler[h])'
      BY <1>5
      DEF OpenUrl, IInv, HandlersInv, RowsInv, Targets, Asks, Saw, Idle, Created,
          URL_ACTION_TO_VM_STATUS_MAP, Halted, Terminal, UrlAction, NoUrl, START, COMPLETE
    <2> QED
      BY <1>5, <2>1, <2>2, <2>3, HandlerStep DEF OpenUrl, IInv, Sound
  <1>6. ASSUME NEW h \in Handlers, NEW v \in Vms, requestVmDestroy(h, v)
         PROVE  IInv'
    <2>1. RowsInv' /\ Kept
      BY <1>6, RowsUnchanged DEF requestVmDestroy, IInv
    <2>2. /\ handler' \in [Handlers -> Handler]
          /\ \A g \in Handlers \ {h} : handler'[g] = handler[g]
          /\ handler'[h] \in Handler
      BY <1>6 DEF requestVmDestroy, IInv, HandlersInv, Handler, PC, Idle
    <2>3. Targets(handler[h])' /\ Asks(handler[h])' /\ Saw(handler[h])'
      BY <1>6
      DEF requestVmDestroy, IInv, HandlersInv, RowsInv, Targets, Asks, Saw, Idle, Created
    <2> QED
      BY <1>6, <2>1, <2>2, <2>3, HandlerStep DEF requestVmDestroy, IInv, Sound
  <1>7. ASSUME NEW h \in Handlers, destroyExpiredVmsJob(h)
         PROVE  IInv'
    <2>1. RowsInv' /\ Kept
      BY <1>7, RowsUnchanged DEF destroyExpiredVmsJob, IInv
    <2>2. /\ handler' \in [Handlers -> Handler]
          /\ \A g \in Handlers \ {h} : handler'[g] = handler[g]
          /\ handler'[h] \in Handler
      BY <1>7, ListedVmsExist DEF destroyExpiredVmsJob, IInv, HandlersInv, Handler, PC, Idle
    <2>3. Targets(handler[h])' /\ Asks(handler[h])' /\ Saw(handler[h])'
      BY <1>7, ListedVmsExist
      DEF destroyExpiredVmsJob, IInv, HandlersInv, RowsInv, Targets, Asks, Saw, Idle,
         Created
    <2> QED
      BY <1>7, <2>1, <2>2, <2>3, HandlerStep DEF destroyExpiredVmsJob, IInv, Sound
  <1>8. ASSUME NEW h \in Handlers, captureVmIpJob(h)
         PROVE  IInv'
    <2>1. RowsInv' /\ Kept
      BY <1>8, RowsUnchanged DEF captureVmIpJob, IInv
    <2>2. /\ handler' \in [Handlers -> Handler]
          /\ \A g \in Handlers \ {h} : handler'[g] = handler[g]
          /\ handler'[h] \in Handler
      BY <1>8, ListedVmsExist DEF captureVmIpJob, IInv, HandlersInv, Handler, PC, Idle
    <2>3. Targets(handler[h])' /\ Asks(handler[h])' /\ Saw(handler[h])'
      BY <1>8, ListedVmsExist
      DEF captureVmIpJob, IInv, HandlersInv, RowsInv, Targets, Asks, Saw, Idle, Created
    <2> QED
      BY <1>8, <2>1, <2>2, <2>3, HandlerStep DEF captureVmIpJob, IInv, Sound
  <1>9. ASSUME NEW h \in Handlers, ReadVm(h)
         PROVE  IInv'
    <2>1. RowsInv' /\ Kept
      BY <1>9, RowsUnchanged DEF ReadVm, IInv
    <2>2. handler[h] \in Handler /\ Targets(handler[h]) /\ Asks(handler[h])
      BY DEF IInv, HandlersInv, Sound
    <2>3. handler[h].vm \in Vms /\ vm[handler[h].vm] \in Row /\ Created(handler[h].vm)
      BY <1>9, <2>2 DEF ReadVm, Targets, IInv, RowsInv
    <2>4. /\ handler' \in [Handlers -> Handler]
          /\ \A g \in Handlers \ {h} : handler'[g] = handler[g]
          /\ handler'[h] = [handler[h] EXCEPT !.pc = "update",
                                              !.current = vm[handler[h].vm].status,
                                              !.started = vm[handler[h].vm].startedAt # "null"]
      BY <1>9, <2>2, <2>3 DEF ReadVm, IInv, HandlersInv, Handler, PC, Row
    <2>5. Targets(handler[h])' /\ Asks(handler[h])'
      BY <1>9, <2>1, <2>2, <2>3, <2>4 DEF ReadVm, Targets, Asks, Handler, Kept
    <2>6. Saw(handler[h])'
      BY <1>9, <2>2, <2>3, <2>4
      DEF ReadVm, Saw, Handler, Row, IInv, RowsInv, StaysCounted, DestroyedOnlyOnRequest,
          Uncounted, Terminal, Created
    <2> QED
      BY <1>9, <2>1, <2>4, <2>5, <2>6, HandlerStep DEF ReadVm, IInv, Sound
  <1>10. ASSUME NEW h \in Handlers, UpdateIpOnly(h)
         PROVE  IInv'
    <2> DEFINE r == handler[h]
    <2>1. /\ r \in Handler /\ r.vm \in Vms /\ Created(r.vm)
          /\ NextStatus(r) \in VmStatus \ Uncounted
          /\ NextStatus(r) \in Terminal => <<r.vm, DESTROY>> \in outbox
          /\ r.started => vm[r.vm].startedAt # "null"
          /\ AfterUpdate(r) \in {"idle", "stamp", "mark"}
          /\ AfterUpdate(r) # "idle" => r.url # NoUrl
      BY <1>10, NextStatusFacts DEF UpdateIpOnly
    <2>2. RowsInv' /\ Kept
      <3>1. /\ r.ip \in Ips
            /\ \A v \in Vms \ {r.vm} : vm'[v] = vm[v]
            /\ vm'[r.vm].status = vm[r.vm].status
            /\ vm'[r.vm].ipv4Address = r.ip
            /\ vm'[r.vm].startedAt = IF r.started THEN vm[r.vm].startedAt ELSE "recent"
        BY <1>10, <2>1 DEF UpdateIpOnly, Handler, IInv, RowsInv, Row
      <3>2. /\ vm' \in [Vms -> Row]
            /\ \A v \in Vms : vm'[v].status = vm[v].status
        BY <1>10, <2>1, <3>1 DEF UpdateIpOnly, IInv, RowsInv, Row, StartedAt
      <3>3. \A v \in Vms : /\ vm[v].startedAt # "null" => vm'[v].startedAt # "null"
                           /\ vm'[v].ipv4Address # NoIp => vm'[v].startedAt # "null"
        <4> SUFFICES ASSUME NEW v \in Vms
                     PROVE  /\ vm[v].startedAt # "null" => vm'[v].startedAt # "null"
                            /\ vm'[v].ipv4Address # NoIp => vm'[v].startedAt # "null"
          OBVIOUS
        <4>1. CASE v = r.vm
          BY <2>1, <3>1, <4>1
        <4>2. CASE v # r.vm
          BY <3>1, <4>2 DEF AddressStartsClock, IInv, RowsInv
        <4> QED
          BY <4>1, <4>2
      <3>4. /\ \A v \in Vms : vm'[v].status = vm[v].status
            /\ \A v \in Vms \ {r.vm} : vm'[v] = vm[v]
            /\ outbox' = outbox
        BY <1>10, <2>1 DEF UpdateIpOnly, IInv, RowsInv, Row
      <3>5. Kept
        BY <3>3, <3>4 DEF Kept, Created
      <3>6. AddressStartsClock'
        BY <3>3 DEF AddressStartsClock
      <3>7. DestroyedOnlyOnRequest' /\ StaysCounted' /\ MessagesHaveVms'
        BY <3>4 DEF IInv, RowsInv, DestroyedOnlyOnRequest, StaysCounted, MessagesHaveVms,
           Created
      <3>8. CleanSlate'
        BY <2>1, <3>4 DEF IInv, RowsInv, CleanSlate, Created, NoRow
      <3> QED
        BY <3>2, <3>4, <3>5, <3>6, <3>7, <3>8 DEF IInv, RowsInv
    <2>3. /\ handler' \in [Handlers -> Handler]
          /\ \A g \in Handlers \ {h} : handler'[g] = handler[g]
          /\ Sound(handler[h])'
      BY <1>10, <2>1, <2>2, GotoStep DEF UpdateIpOnly
    <2> QED
      BY <1>10, <2>2, <2>3, HandlerStep DEF UpdateIpOnly, IInv
  <1>11. ASSUME NEW h \in Handlers, UpdateStatus(h)
         PROVE  IInv'
    <2> DEFINE r == handler[h]
    <2>1. /\ r \in Handler /\ r.vm \in Vms /\ Created(r.vm)
          /\ NextStatus(r) \in VmStatus \ Uncounted
          /\ NextStatus(r) \in Terminal => <<r.vm, DESTROY>> \in outbox
          /\ r.started => vm[r.vm].startedAt # "null"
          /\ AfterUpdate(r) \in {"idle", "stamp", "mark"}
          /\ AfterUpdate(r) # "idle" => r.url # NoUrl
      BY <1>11, NextStatusFacts DEF UpdateStatus
    <2>2. RowsInv' /\ Kept
      <3>1. /\ r.ip \in Ips \cup {Undefined}
            /\ \A v \in Vms \ {r.vm} : vm'[v] = vm[v]
            /\ vm'[r.vm].status = NextStatus(r)
            /\ r.ip = Undefined => /\ vm'[r.vm].ipv4Address = vm[r.vm].ipv4Address
                                   /\ vm'[r.vm].startedAt = vm[r.vm].startedAt
            /\ r.ip # Undefined => vm'[r.vm].startedAt = "recent"
        BY <1>11, <2>1 DEF UpdateStatus, Handler, IInv, RowsInv
      <3>2. /\ vm' \in [Vms -> Row]
            /\ \A v \in Vms : Created(v) => Created(v)'
        BY <1>11, <2>1, <3>1
        DEF UpdateStatus, IInv, RowsInv, Row, StartedAt, Created, NotCreated,
           VmStatus, Halted, Leaving, Ready
      <3>3. \A v \in Vms : /\ vm[v].startedAt # "null" => vm'[v].startedAt # "null"
                           /\ vm'[v].ipv4Address # NoIp => vm'[v].startedAt # "null"
        <4> SUFFICES ASSUME NEW v \in Vms
                     PROVE  /\ vm[v].startedAt # "null" => vm'[v].startedAt # "null"
                            /\ vm'[v].ipv4Address # NoIp => vm'[v].startedAt # "null"
          OBVIOUS
        <4>1. vm[v].ipv4Address # NoIp => vm[v].startedAt # "null"
          BY DEF AddressStartsClock, IInv, RowsInv
        <4>2. CASE v = r.vm
          BY <3>1, <4>1, <4>2
        <4>3. CASE v # r.vm
          BY <3>1, <4>1, <4>3
        <4> QED
          BY <4>2, <4>3
      <3>4. DestroyedOnlyOnRequest' /\ StaysCounted'
        BY <1>11, <2>1, <3>1
        DEF UpdateStatus, DestroyedOnlyOnRequest, StaysCounted, IInv, RowsInv,
           Terminal, Uncounted
      <3> QED
        BY <1>11, <2>1, <3>1, <3>2, <3>3, <3>4
        DEF UpdateStatus, IInv, RowsInv, Kept, AddressStartsClock, MessagesHaveVms,
           CleanSlate
    <2>3. /\ handler' \in [Handlers -> Handler]
          /\ \A g \in Handlers \ {h} : handler'[g] = handler[g]
          /\ Sound(handler[h])'
      BY <1>11, <2>1, <2>2, GotoStep DEF UpdateStatus
    <2> QED
      BY <1>11, <2>2, <2>3, HandlerStep DEF UpdateStatus, IInv
  <1>12. ASSUME NEW h \in Handlers, UpdateNothing(h)
         PROVE  IInv'
    <2> DEFINE r == handler[h]
    <2>1. /\ r \in Handler /\ r.vm \in Vms /\ Created(r.vm)
          /\ NextStatus(r) \in VmStatus \ Uncounted
          /\ NextStatus(r) \in Terminal => <<r.vm, DESTROY>> \in outbox
          /\ r.started => vm[r.vm].startedAt # "null"
          /\ AfterThrow(r) \in {"idle", "stamp", "mark"}
          /\ AfterThrow(r) # "idle" => r.url # NoUrl
      BY <1>12, NextStatusFacts DEF UpdateNothing
    <2>2. RowsInv' /\ Kept
      BY <1>12, RowsUnchanged DEF UpdateNothing, IInv
    <2>3. /\ handler' \in [Handlers -> Handler]
          /\ \A g \in Handlers \ {h} : handler'[g] = handler[g]
          /\ Sound(handler[h])'
      BY <1>12, <2>1, <2>2, GotoStep DEF UpdateNothing
    <2> QED
      BY <1>12, <2>2, <2>3, HandlerStep DEF UpdateNothing, IInv
  <1>13. ASSUME NEW h \in Handlers, StampStartedAt(h)
         PROVE  IInv'
    <2>1. /\ handler[h] \in Handler /\ handler[h].vm \in Vms /\ Created(handler[h].vm)
          /\ handler[h].url # NoUrl
      BY <1>13 DEF StampStartedAt, IInv, HandlersInv, Sound, Targets, Asks
    <2>2. RowsInv' /\ Kept
      BY <1>13, <2>1
      DEF StampStartedAt, IInv, RowsInv, Kept, Row, StartedAt, AddressStartsClock,
         DestroyedOnlyOnRequest, StaysCounted, MessagesHaveVms, CleanSlate, NoRow, Created
    <2>3. /\ handler' \in [Handlers -> Handler]
          /\ \A g \in Handlers \ {h} : handler'[g] = handler[g]
          /\ Sound(handler[h])'
      BY <1>13, <2>1, <2>2, GotoStep DEF StampStartedAt
    <2> QED
      BY <1>13, <2>1, <2>2, <2>3, HandlerStep DEF StampStartedAt, IInv
  <1>14. ASSUME NEW h \in Handlers, markAppUrlAsUsed(h)
         PROVE  IInv'
    <2>1. /\ handler[h] \in Handler /\ handler[h].vm \in Vms /\ Created(handler[h].vm)
          /\ handler[h].url # NoUrl
      BY <1>14 DEF markAppUrlAsUsed, IInv, HandlersInv, Sound, Targets, Asks
    <2>2. RowsInv' /\ Kept
      BY <1>14, RowsUnchanged DEF markAppUrlAsUsed, IInv
    <2>3. /\ handler' \in [Handlers -> Handler]
          /\ \A g \in Handlers \ {h} : handler'[g] = handler[g]
          /\ Sound(handler[h])'
      BY <1>14, <2>1, <2>2, GotoStep DEF markAppUrlAsUsed
    <2>4. usedUrls' \subseteq Vms \X UrlAction
      BY <1>14, <2>1 DEF markAppUrlAsUsed, IInv, Handler
    <2> QED
      BY <1>14, <2>2, <2>3, <2>4, HandlerStep DEF markAppUrlAsUsed, IInv
  <1>15. ASSUME NEW h \in Handlers, NEW v \in Vms, SetToBeDestroyed(h, v)
         PROVE  IInv'
    <2>1. handler[h] \in Handler /\ Targets(handler[h])
      BY DEF IInv, HandlersInv, Sound
    <2>2. RowsInv' /\ Kept
      BY <1>15, <2>1
      DEF SetToBeDestroyed, Targets, IInv, RowsInv, Kept, Row, StartedAt, AddressStartsClock,
         DestroyedOnlyOnRequest, StaysCounted, MessagesHaveVms, CleanSlate, NoRow, Created,
         NotCreated, VmStatus, Leaving, Halted
    <2>3. /\ handler' \in [Handlers -> Handler]
          /\ \A g \in Handlers \ {h} : handler'[g] = handler[g]
          /\ handler'[h] = [handler[h] EXCEPT !.pc = "enqueue", !.vm = v,
                                              !.todo = handler[h].todo \ {v}]
      BY <1>15, <2>1 DEF SetToBeDestroyed, IInv, HandlersInv, Handler, PC
    <2>4. Sound(handler[h])'
      BY <1>15, <2>1, <2>2, <2>3
      DEF SetToBeDestroyed, Sound, Targets, Asks, Saw, Handler, Kept
    <2> QED
      BY <1>15, <2>2, <2>3, <2>4, HandlerStep DEF SetToBeDestroyed, IInv
  <1>16. ASSUME NEW h \in Handlers, NEW v \in Vms, EnqueueRefresh(h, v)
         PROVE  IInv'
    <2>1. handler[h] \in Handler /\ Targets(handler[h])
      BY DEF IInv, HandlersInv, Sound
    <2>2. RowsInv' /\ Kept
      BY <1>16, <2>1 DEF EnqueueRefresh, Targets, IInv, RowsInv, Kept, AddressStartsClock,
         DestroyedOnlyOnRequest, StaysCounted, MessagesHaveVms, CleanSlate, NoRow,
          Created, JobAction, REFRESH
    <2>3. CASE handler[h].todo = {v}
      BY <1>16, <2>2, <2>3, IdleIsSound, IdleIsSoundNext, HandlerStep
      DEF EnqueueRefresh, IInv, HandlersInv, Sound
    <2>4. CASE handler[h].todo # {v}
      <3>1. /\ handler' \in [Handlers -> Handler]
            /\ \A g \in Handlers \ {h} : handler'[g] = handler[g]
            /\ handler'[h] = [handler[h] EXCEPT !.todo = handler[h].todo \ {v}]
        BY <1>16, <2>1, <2>4 DEF EnqueueRefresh, IInv, HandlersInv, Handler
      <3>2. Sound(handler[h])'
        BY <1>16, <2>1, <2>2, <3>1
        DEF EnqueueRefresh, Sound, Targets, Asks, Saw, Handler, Kept
      <3> QED
        BY <1>16, <2>2, <3>1, <3>2, HandlerStep DEF EnqueueRefresh, IInv
    <2> QED
      BY <2>3, <2>4
  <1>17. ASSUME NEW h \in Handlers, EnqueueDestroy(h)
         PROVE  IInv'
    <2>1. handler[h] \in Handler /\ Targets(handler[h])
      BY DEF IInv, HandlersInv, Sound
    <2>2. RowsInv' /\ Kept
      BY <1>17, <2>1 DEF EnqueueDestroy, Targets, IInv, RowsInv, Kept, AddressStartsClock,
         DestroyedOnlyOnRequest, StaysCounted, MessagesHaveVms, CleanSlate, NoRow,
          Created, JobAction, DESTROY
    <2>3. CASE handler[h].todo = {}
      BY <1>17, <2>2, <2>3, IdleIsSound, IdleIsSoundNext, HandlerStep
      DEF EnqueueDestroy, Goto, IInv, HandlersInv, Sound
    <2>4. CASE handler[h].todo # {}
      <3>1. /\ handler' \in [Handlers -> Handler]
            /\ \A g \in Handlers \ {h} : handler'[g] = handler[g]
            /\ handler'[h] = [handler[h] EXCEPT !.pc = "destroy"]
        BY <1>17, <2>1, <2>4 DEF EnqueueDestroy, Goto, IInv, HandlersInv, Handler, PC
      <3>2. Sound(handler[h])'
        BY <1>17, <2>1, <2>2, <3>1
        DEF EnqueueDestroy, Sound, Targets, Asks, Saw, Handler, Kept, PC
      <3> QED
        BY <1>17, <2>2, <3>1, <3>2, HandlerStep DEF EnqueueDestroy, IInv
    <2> QED
      BY <2>3, <2>4
  <1>18. ASSUME NEW h \in Handlers, Abort(h)
         PROVE  IInv'
    <2>1. RowsInv' /\ Kept
      BY <1>18, RowsUnchanged DEF Abort, IInv
    <2>2. /\ handler' \in [Handlers -> Handler]
          /\ \A g \in Handlers \ {h} : handler'[g] = handler[g]
          /\ Sound(handler[h])'
      BY <1>18, <2>1, GotoStep DEF Abort
    <2>3. aborts' \in 0..MaxAborts
      BY <1>18, ConstantsAssumption DEF Abort, IInv
    <2> QED
      BY <1>18, <2>1, <2>2, <2>3, HandlerStep DEF Abort, IInv
  <1>19. ASSUME NEW h \in Handlers, CallbackFails(h)
         PROVE  IInv'
    <2>1. /\ handler[h] \in Handler /\ handler[h].vm \in Vms /\ Created(handler[h].vm)
          /\ handler[h].url # NoUrl
      BY <1>19 DEF CallbackFails, IInv, HandlersInv, Sound, Targets, Asks
    <2>2. RowsInv' /\ Kept
      BY <1>19, RowsUnchanged DEF CallbackFails, IInv
    <2>3. /\ handler' \in [Handlers -> Handler]
          /\ \A g \in Handlers \ {h} : handler'[g] = handler[g]
          /\ Sound(handler[h])'
      BY <1>19, <2>1, <2>2, GotoStep DEF CallbackFails
    <2>4. aborts' \in 0..MaxAborts
      BY <1>19, ConstantsAssumption DEF CallbackFails, IInv
    <2> QED
      BY <1>19, <2>2, <2>3, <2>4, HandlerStep DEF CallbackFails, IInv
  <1> QED
    BY <1>1, <1>2, <1>3, <1>4, <1>5, <1>6, <1>7, <1>8, <1>9,
       <1>10, <1>11, <1>12, <1>13, <1>14, <1>15, <1>16, <1>17, <1>18, <1>19
    DEF Next, ReceiveRequest, ReceiveCallback, Proceed, Update, Handlers

\* The inductive invariant holds of every reachable state.
THEOREM IInvAlways == Spec => []IInv
  BY IInvHoldsInitially, IInvIsInductive, PTL DEF Spec

-----------------------------------------------------------------------------
(* The properties, each a consequence of the invariant.                    *)

\* Rows and handlers keep their shape.
THEOREM TypeCorrect == Spec => []TypeOK
  <1>1. IInv => TypeOK
    BY DEF IInv, RowsInv, HandlersInv, TypeOK
  <1> QED
    BY <1>1, IInvAlways, PTL

\* A machine with an address has its duration running, under any interleaving
\* of updateVmStatus, stamps, destroy requests and failures.
THEOREM AddressAlwaysStartsClock == Spec => []AddressStartsClock
  <1>1. IInv => AddressStartsClock
    BY DEF IInv, RowsInv
  <1> QED
    BY <1>1, IInvAlways, PTL

\* Only a DESTROY message leads to DESTROYING or DESTROYED.
THEOREM DestroyedAlwaysOnRequest == Spec => []DestroyedOnlyOnRequest
  <1>1. IInv => DestroyedOnlyOnRequest
    BY DEF IInv, RowsInv
  <1> QED
    BY <1>1, IInvAlways, PTL

\* No machine drops out of the quota by a log line or a callback.
THEOREM AlwaysStaysCounted == Spec => []StaysCounted
  <1>1. IInv => StaysCounted
    BY DEF IInv, RowsInv
  <1> QED
    BY <1>1, IInvAlways, PTL

-----------------------------------------------------------------------------
(* What holds as long as no handler is cut short.                          *)

\* Only the COMPLETE callback asks for RUNNING, and only the lines of a
\* destroy job ask for TO_BE_DESTROYED.
Origin(r) ==
  r.pc \in {"read", "update"} =>
    /\ r.status = "RUNNING" => r.url = COMPLETE
    /\ r.status = "TO_BE_DESTROYED" => <<r.vm, DESTROY>> \in outbox

PromiseInv ==
  /\ \A h \in Handlers : Origin(handler[h])
  /\ RunningIsMetered
  /\ aborts = 0 => DestroyIntentRecorded

\* How a step changes the status of a row: a new row, a destroy request about
\* to be recorded, or an update that asked for the status it writes.
LEMMA StatusWrites ==
  ASSUME IInv, [Next]_vars, NEW v \in Vms, vm'[v].status # vm[v].status
  PROVE  \/ vm'[v].status = "TO_BE_PROVISIONED" /\ ~Created(v)
         \/ \E h \in Handlers :
              /\ handler[h].pc = "destroy"
              /\ vm'[v].status = "TO_BE_DESTROYED"
              /\ handler'[h].pc = "enqueue" /\ handler'[h].vm = v
         \/ \E h \in Handlers :
              /\ handler[h].pc = "update" /\ handler[h].vm = v
              /\ vm'[v].status = handler[h].status
              /\ handler[h].status \in validNextStates[handler[h].current]
              /\ UpdateStatus(h)
  <1>1. CASE \E w \in Vms : CreateVm(w)
    BY <1>1 DEF CreateVm, NewRow, NoRow, IInv, RowsInv, Row
  <1>2. CASE \E h \in Handlers, w \in Vms : SetToBeDestroyed(h, w)
    BY <1>2 DEF SetToBeDestroyed, IInv, RowsInv, HandlersInv, Row, Handler
  <1>3. CASE \E h \in Handlers : UpdateStatus(h)
    <2>1. PICK h \in Handlers : UpdateStatus(h)
      BY <1>3
    <2>2. /\ handler[h].pc = "update" /\ handler[h].vm = v
          /\ vm'[v].status = NextStatus(handler[h])
          /\ NextStatus(handler[h]) # handler[h].current
      BY <2>1 DEF UpdateStatus, IInv, RowsInv
    <2> QED
      BY <2>1, <2>2 DEF NextStatus, findNextVmState
  <1>4. CASE \E h \in Handlers : UpdateIpOnly(h)
    BY <1>4 DEF UpdateIpOnly, IInv, RowsInv, Row
  <1>5. CASE \E h \in Handlers : StampStartedAt(h)
    BY <1>5 DEF StampStartedAt, IInv, RowsInv, Row
  <1>6. CASE \E w \in Vms : TimePasses(w)
    BY <1>6 DEF TimePasses, IInv, RowsInv, Row
  <1>7. CASE UNCHANGED vm
    BY <1>7
  <1> QED
    BY <1>1, <1>2, <1>3, <1>4, <1>5, <1>6, <1>7
    DEF Next, ReceiveRequest, ReceiveCallback, Proceed, Update, vars, ReceiveLog, OpenUrl,
        requestVmDestroy,
        destroyExpiredVmsJob, captureVmIpJob, ReadVm, UpdateNothing, markAppUrlAsUsed,
        EnqueueRefresh, EnqueueDestroy, Abort, CallbackFails

\* The steps of one handler.
Begin(h) ==
  \/ ReceiveRequest(h) \/ ReceiveCallback(h) \/ destroyExpiredVmsJob(h) \/ captureVmIpJob(h)
End(h)   == Abort(h) \/ CallbackFails(h)

\* A handler moves by its own steps only.
LEMMA HandlerMoves ==
  ASSUME IInv, [Next]_vars, NEW h \in Handlers, handler'[h] # handler[h]
  PROVE  Begin(h) \/ Proceed(h) \/ End(h)
  <1>1. ASSUME NEW g \in Handlers \ {h}, Proceed(g)
        PROVE  FALSE
    BY <1>1
    DEF Proceed, Update, ReadVm, UpdateIpOnly, UpdateStatus, UpdateNothing, StampStartedAt,
         markAppUrlAsUsed, SetToBeDestroyed, EnqueueRefresh, EnqueueDestroy, Goto, IInv,
         HandlersInv
  <1>2. ASSUME NEW g \in Handlers \ {h}, Begin(g) \/ End(g)
        PROVE  FALSE
    BY <1>2 DEF Begin, End, ReceiveRequest, ReceiveCallback, ReceiveLog, OpenUrl, requestVmDestroy,
       destroyExpiredVmsJob, captureVmIpJob, Abort, CallbackFails, Goto, IInv, HandlersInv
  <1>3. ASSUME NEW v \in Vms, CreateVm(v) \/ TimePasses(v)
        PROVE  FALSE
    BY <1>3 DEF CreateVm, TimePasses
  <1> QED
    BY <1>1, <1>2, <1>3 DEF Next, Handlers, vars, Begin, End

\* Messages and failures only accumulate; a row that has its startedAt keeps one.
LEMMA StepKeeps ==
  ASSUME IInv, [Next]_vars
  PROVE  /\ outbox \subseteq outbox'
         /\ aborts' \in {aborts, aborts + 1}
         /\ \A v \in Vms : vm'[v].startedAt = "null" => vm[v].startedAt = "null"
  <1>1. outbox \subseteq outbox' /\ aborts' \in {aborts, aborts + 1}
    BY DEF Next, ReceiveRequest, ReceiveCallback, Proceed, Update, vars, CreateVm, TimePasses,
           ReceiveLog,
       OpenUrl, requestVmDestroy, destroyExpiredVmsJob, captureVmIpJob, ReadVm,
       UpdateIpOnly, UpdateStatus, UpdateNothing, StampStartedAt, markAppUrlAsUsed, SetToBeDestroyed, EnqueueRefresh,
       EnqueueDestroy, Abort, CallbackFails
  <1>2. ASSUME NEW v \in Vms, vm'[v].startedAt = "null"
        PROVE  vm[v].startedAt = "null"
    <2>1. CASE \E w \in Vms : CreateVm(w)
      BY <1>2, <2>1 DEF CreateVm, IInv, RowsInv, CleanSlate, NoRow, NewRow
    <2>2. CASE \E h \in Handlers, w \in Vms : SetToBeDestroyed(h, w)
      BY <1>2, <2>2 DEF SetToBeDestroyed, IInv, RowsInv, Row
    <2>3. CASE \E h \in Handlers : UpdateStatus(h)
      BY <1>2, <2>3 DEF UpdateStatus, IInv, RowsInv
    <2>4. CASE \E h \in Handlers : UpdateIpOnly(h)
      BY <1>2, <2>4 DEF UpdateIpOnly, IInv, RowsInv, Row
    <2>5. CASE \E h \in Handlers : StampStartedAt(h)
      BY <1>2, <2>5 DEF StampStartedAt, IInv, RowsInv, Row
    <2>6. CASE \E w \in Vms : TimePasses(w)
      BY <1>2, <2>6 DEF TimePasses, IInv, RowsInv, Row
    <2>7. CASE UNCHANGED vm
      BY <1>2, <2>7
    <2> QED
      BY <2>1, <2>2, <2>3, <2>4, <2>5, <2>6, <2>7
      DEF Next, ReceiveRequest, ReceiveCallback, Proceed, Update, vars, ReceiveLog, OpenUrl,
          requestVmDestroy, destroyExpiredVmsJob, captureVmIpJob, ReadVm, UpdateNothing, markAppUrlAsUsed,
          EnqueueRefresh, EnqueueDestroy, Abort, CallbackFails
  <1> QED
    BY <1>1, <1>2

\* A handler that asks for RUNNING or TO_BE_DESTROYED has the right to, still.
LEMMA OriginIsInductive ==
  ASSUME IInv, [Next]_vars, NEW h \in Handlers, Origin(handler[h])
  PROVE  Origin(handler[h])'
  <1>1. outbox \subseteq outbox'
    BY StepKeeps
  <1>2. CASE handler'[h] = handler[h]
    BY <1>1, <1>2 DEF Origin
  <1>3. ASSUME NEW v \in Vms, NEW action \in JobAction, NEW log \in JobLog(Ips)[action],
               ReceiveLog(h, v, action, log)
        PROVE  Origin(handler[h])'
    BY <1>3, LogStatus
    DEF ReceiveLog, Origin, Idle, IInv, HandlersInv, Leaving
  <1>4. ASSUME NEW v \in Vms, NEW url \in UrlAction, OpenUrl(h, v, url)
        PROVE  Origin(handler[h])'
    BY <1>4 DEF OpenUrl, Origin, Idle, IInv, HandlersInv, URL_ACTION_TO_VM_STATUS_MAP,
       UrlAction, START, COMPLETE
  <1>5. CASE ReadVm(h)
    BY <1>1, <1>5 DEF ReadVm, Origin, IInv, HandlersInv, Handler
  <1>6. CASE handler'[h].pc \notin {"read", "update"}
    BY <1>6 DEF Origin
  <1>7. ASSUME Begin(h), handler'[h].pc \in {"read", "update"}
        PROVE  Origin(handler[h])'
    BY <1>3, <1>4, <1>7 DEF Begin, ReceiveRequest, ReceiveCallback, requestVmDestroy,
                            destroyExpiredVmsJob,
       captureVmIpJob, Idle, IInv, HandlersInv
  <1>8. ASSUME Proceed(h), handler'[h].pc \in {"read", "update"}
        PROVE  ReadVm(h)
    <2>1. handler \in [Handlers -> Handler] /\ AfterUpdate(handler[h]) \notin {"read", "update"}
          /\ AfterThrow(handler[h]) \notin {"read", "update"}
      BY DEF IInv, HandlersInv, Handler, AfterUpdate, AfterThrow, UrlAction, NoUrl, START,
         COMPLETE
    <2>2. ~(UpdateIpOnly(h) \/ UpdateStatus(h) \/ UpdateNothing(h))
      BY <1>8, <2>1
      DEF UpdateIpOnly, UpdateStatus, UpdateNothing, Goto, Idle, Handler, IInv,
         HandlersInv
    <2>3. ~(StampStartedAt(h) \/ markAppUrlAsUsed(h) \/ EnqueueDestroy(h))
      BY <1>8, <2>1
      DEF StampStartedAt, markAppUrlAsUsed, EnqueueDestroy, Goto, Idle, Handler,
         IInv, HandlersInv
    <2>4. ASSUME NEW v \in Vms
          PROVE  ~(SetToBeDestroyed(h, v) \/ EnqueueRefresh(h, v))
      BY <1>8, <2>1 DEF SetToBeDestroyed, EnqueueRefresh, Idle, Handler, IInv, HandlersInv
    <2> QED
      BY <1>8, <2>2, <2>3, <2>4 DEF Proceed, Update
  <1>9. ASSUME End(h)
        PROVE  handler'[h].pc \notin {"read", "update"}
    BY <1>9 DEF End, Abort, CallbackFails, Goto, Idle, IInv, HandlersInv, Handler
  <1> QED
    BY <1>2, <1>5, <1>6, <1>7, <1>8, <1>9, HandlerMoves

\* A handler at a stamp or an insert stays there until it has done it, or dies.
LEMMA Promised ==
  ASSUME IInv, [Next]_vars, NEW h \in Handlers, handler[h].pc \in {"stamp", "enqueue"},
         aborts' = aborts
  PROVE  \/ handler'[h] = handler[h]
         \/ handler[h].pc = "stamp" /\ StampStartedAt(h)
         \/ handler[h].pc = "enqueue" /\ EnqueueDestroy(h)
  <1>1. ~End(h)
    BY DEF End, Abort, CallbackFails, IInv
  <1>2. ~Begin(h)
    BY DEF Begin, ReceiveRequest, ReceiveCallback, ReceiveLog, OpenUrl, requestVmDestroy,
       destroyExpiredVmsJob,
       captureVmIpJob, IsIdle
  <1>3. Proceed(h) => StampStartedAt(h) \/ EnqueueDestroy(h)
    BY DEF Proceed, Update, ReadVm, UpdateIpOnly, UpdateStatus, UpdateNothing,
       markAppUrlAsUsed,
       SetToBeDestroyed, EnqueueRefresh
  <1>4. /\ StampStartedAt(h) => handler[h].pc = "stamp"
        /\ EnqueueDestroy(h) => handler[h].pc = "enqueue"
    BY DEF StampStartedAt, EnqueueDestroy
  <1> QED
    BY <1>1, <1>2, <1>3, <1>4, HandlerMoves

\* No step leaves a RUNNING machine unmetered, unless it cuts a handler short.
LEMMA MeteredIsInductive ==
  ASSUME IInv, PromiseInv, [Next]_vars
  PROVE  RunningIsMetered'
  <1> SUFFICES ASSUME aborts' = 0, NEW v \in Vms,
                      vm'[v].status = "RUNNING", vm'[v].startedAt = "null"
               PROVE  \E h \in Handlers : handler'[h].pc = "stamp" /\ handler'[h].vm = v
    BY DEF RunningIsMetered
  <1>1. aborts = 0 /\ aborts' = aborts /\ vm[v].startedAt = "null"
    BY StepKeeps, ConstantsAssumption DEF IInv
  <1>2. CASE vm[v].status = "RUNNING"
    <2>1. PICK h \in Handlers : handler[h].pc = "stamp" /\ handler[h].vm = v
      BY <1>1, <1>2 DEF PromiseInv, RunningIsMetered
    <2>2. ~StampStartedAt(h)
      BY <2>1 DEF StampStartedAt, IInv, RowsInv, Row
    <2> QED
      BY <1>1, <2>1, <2>2, Promised
  <1>3. CASE vm[v].status # "RUNNING"
    <2>1. PICK h \in Handlers : /\ handler[h].pc = "update" /\ handler[h].vm = v
                                /\ handler[h].status = "RUNNING"
                                /\ UpdateStatus(h)
      BY <1>3, StatusWrites
    <2>2. AfterUpdate(handler[h]) = "stamp"
      BY <2>1 DEF PromiseInv, Origin, AfterUpdate, NoUrl, START, COMPLETE
    <2>3. handler'[h] = [handler[h] EXCEPT !.pc = "stamp"]
      BY <2>1, <2>2 DEF UpdateStatus, Goto, IInv, HandlersInv
    <2> QED
      BY <2>1, <2>3 DEF IInv, HandlersInv, Handler
  <1> QED
    BY <1>2, <1>3

\* No step leaves a destroy request unrecorded, unless it cuts a handler short.
LEMMA IntentIsInductive ==
  ASSUME IInv, PromiseInv, [Next]_vars, aborts' = 0
  PROVE  DestroyIntentRecorded'
  <1> SUFFICES ASSUME NEW v \in Vms, vm'[v].status = "TO_BE_DESTROYED"
               PROVE  \/ <<v, DESTROY>> \in outbox'
                      \/ \E h \in Handlers : handler'[h].pc = "enqueue" /\ handler'[h].vm = v
    BY DEF DestroyIntentRecorded, DESTROY
  <1>1. aborts = 0 /\ aborts' = aborts /\ outbox \subseteq outbox'
    BY StepKeeps, ConstantsAssumption DEF IInv
  <1>2. CASE vm[v].status = "TO_BE_DESTROYED"
    <2>1. CASE <<v, DESTROY>> \in outbox
      BY <1>1, <2>1
    <2>2. CASE <<v, DESTROY>> \notin outbox
      <3>1. PICK h \in Handlers : handler[h].pc = "enqueue" /\ handler[h].vm = v
        BY <1>1, <1>2, <2>2 DEF PromiseInv, DestroyIntentRecorded
      <3>2. CASE EnqueueDestroy(h)
        BY <3>1, <3>2 DEF EnqueueDestroy
      <3>3. CASE handler'[h] = handler[h]
        BY <3>1, <3>3
      <3> QED
        BY <1>1, <3>1, <3>2, <3>3, Promised
    <2> QED
      BY <2>1, <2>2
  <1>3. CASE vm[v].status # "TO_BE_DESTROYED"
    <2>1. ASSUME NEW h \in Handlers, handler[h].pc = "update", handler[h].vm = v,
                 handler[h].status = "TO_BE_DESTROYED"
          PROVE  <<v, DESTROY>> \in outbox
      BY <2>1 DEF PromiseInv, Origin
    <2> QED
      BY <1>1, <1>3, <2>1, StatusWrites
  <1> QED
    BY <1>2, <1>3

\* There is nothing to keep initially.
LEMMA PromiseInvHoldsInitially == Init => PromiseInv
  BY DEF Init, PromiseInv, Origin, RunningIsMetered, DestroyIntentRecorded, NoRow, Idle,
     NotCreated

\* The three parts are inductive together, given IInv.
LEMMA PromiseInvIsInductive == IInv /\ PromiseInv /\ [Next]_vars => PromiseInv'
  <1> SUFFICES ASSUME IInv, PromiseInv, [Next]_vars PROVE PromiseInv'
    OBVIOUS
  <1>1. \A h \in Handlers : Origin(handler[h])'
    BY OriginIsInductive DEF PromiseInv
  <1> QED
    BY <1>1, MeteredIsInductive, IntentIsInductive DEF PromiseInv

\* What handlers in progress have promised holds of every reachable state.
THEOREM PromiseInvAlways == Spec => []PromiseInv
  BY IInvAlways, PromiseInvHoldsInitially, PromiseInvIsInductive, PTL DEF Spec

\* A RUNNING machine is metered, or about to be, until a handler is cut short.
THEOREM RunningAlwaysMetered == Spec => []RunningIsMetered
  <1>1. PromiseInv => RunningIsMetered
    BY DEF PromiseInv
  <1> QED
    BY <1>1, PromiseInvAlways, PTL

\* If no handler is ever cut short, a machine in TO_BE_DESTROYED has its
\* DESTROY message recorded or about to be: only a failure between the two
\* statements of destroyVmInTransaction loses the request.
THEOREM IntentAlwaysRecorded == MaxAborts = 0 => (Spec => []DestroyIntentRecorded)
  <1> SUFFICES ASSUME MaxAborts = 0 PROVE Spec => []DestroyIntentRecorded
    OBVIOUS
  <1>1. IInv /\ PromiseInv => DestroyIntentRecorded
    BY DEF IInv, PromiseInv
  <1> QED
    BY <1>1, IInvAlways, PromiseInvAlways, PTL

-----------------------------------------------------------------------------
(* Handlers that run one at a time implement VmPhases: what a handler read *)
(* is still there when it writes.                                          *)

OneAtATime == \A g, h \in Handlers : g = h

SerialInv ==
  /\ \A h \in Handlers :
       /\ handler[h].pc = "update"  => handler[h].current = vm[handler[h].vm].status
       /\ handler[h].pc = "enqueue" => vm[handler[h].vm].status \in Leaving
  /\ \A v \in Vms : <<v, DESTROY>> \in outbox => vm[v].status \in Leaving

\* The only ways into "update" and "enqueue".
LEMMA UpdateOnlyAfterRead ==
  ASSUME IInv, NEW h \in Handlers, handler'[h].pc = "update", handler'[h] # handler[h],
         Begin(h) \/ Proceed(h) \/ End(h)
  PROVE  \/ \E v \in Vms, action \in JobAction :
               \E log \in JobLog(Ips)[action] : ReceiveLog(h, v, action, log)
         \/ ReadVm(h)
  <1>1. handler \in [Handlers -> Handler]
    BY DEF IInv, HandlersInv
  <1>2. AfterUpdate(handler[h]) # "update" /\ AfterThrow(handler[h]) # "update"
    BY <1>1 DEF Handler, AfterUpdate, AfterThrow, UrlAction, NoUrl, START, COMPLETE
  <1>3. ASSUME NEW v \in Vms
        PROVE  /\ ~SetToBeDestroyed(h, v) /\ ~EnqueueRefresh(h, v)
               /\ ~requestVmDestroy(h, v)
               /\ \A url \in UrlAction : ~OpenUrl(h, v, url)
    <2>1. ~SetToBeDestroyed(h, v) /\ ~EnqueueRefresh(h, v)
      BY <1>1 DEF SetToBeDestroyed, EnqueueRefresh, Idle, Handler
    <2>2. ~requestVmDestroy(h, v)
      BY <1>1 DEF requestVmDestroy, Idle
    <2>3. \A url \in UrlAction : ~OpenUrl(h, v, url)
      BY <1>1 DEF OpenUrl, Idle
    <2> QED
      BY <2>1, <2>2, <2>3
  <1>4. ~UpdateIpOnly(h) /\ ~UpdateStatus(h) /\ ~UpdateNothing(h)
    BY <1>1, <1>2 DEF UpdateIpOnly, UpdateStatus, UpdateNothing, Goto, Idle, Handler
  <1>5. ~StampStartedAt(h) /\ ~markAppUrlAsUsed(h) /\ ~EnqueueDestroy(h)
    BY <1>1 DEF StampStartedAt, markAppUrlAsUsed, EnqueueDestroy, Goto, Idle, Handler
  <1>6. ~destroyExpiredVmsJob(h) /\ ~captureVmIpJob(h)
    BY <1>1 DEF destroyExpiredVmsJob, captureVmIpJob, Idle
  <1>7. ~End(h)
    BY <1>1 DEF End, Abort, CallbackFails, Goto, Idle, Handler
  <1> QED
    BY <1>3, <1>4, <1>5, <1>6, <1>7 DEF Begin, ReceiveRequest, ReceiveCallback, Proceed, Update

\* Only the update of a destroy request leads to its insert.
LEMMA EnqueueOnlyAfterDestroy ==
  ASSUME IInv, NEW h \in Handlers, handler'[h].pc = "enqueue", handler'[h] # handler[h],
         Begin(h) \/ Proceed(h) \/ End(h)
  PROVE  \E v \in Vms : SetToBeDestroyed(h, v)
  <1>1. handler \in [Handlers -> Handler]
    BY DEF IInv, HandlersInv
  <1>2. AfterUpdate(handler[h]) # "enqueue" /\ AfterThrow(handler[h]) # "enqueue"
    BY <1>1 DEF Handler, AfterUpdate, AfterThrow, UrlAction, NoUrl, START, COMPLETE
  <1>3. \A v \in Vms : ~EnqueueRefresh(h, v)
    BY <1>1 DEF EnqueueRefresh, Idle, Handler
  <1>4. ~UpdateIpOnly(h) /\ ~UpdateStatus(h) /\ ~UpdateNothing(h) /\ ~ReadVm(h)
    BY <1>1, <1>2 DEF UpdateIpOnly, UpdateStatus, UpdateNothing, ReadVm, Goto, Idle, Handler
  <1>5. ~StampStartedAt(h) /\ ~markAppUrlAsUsed(h) /\ ~EnqueueDestroy(h)
    BY <1>1 DEF StampStartedAt, markAppUrlAsUsed, EnqueueDestroy, Goto, Idle, Handler
  <1>6. ~Begin(h)
    <2>1. ~destroyExpiredVmsJob(h) /\ ~captureVmIpJob(h)
      BY <1>1 DEF destroyExpiredVmsJob, captureVmIpJob, Idle
    <2>2. ASSUME NEW v \in Vms
          PROVE  ~requestVmDestroy(h, v) /\ \A url \in UrlAction : ~OpenUrl(h, v, url)
      BY <1>1 DEF requestVmDestroy, OpenUrl, Idle
    <2>3. ASSUME NEW v \in Vms, NEW action \in JobAction, NEW log \in JobLog(Ips)[action]
          PROVE  ~ReceiveLog(h, v, action, log)
      BY <1>1 DEF ReceiveLog, Idle
    <2> QED
      BY <2>1, <2>2, <2>3 DEF Begin, ReceiveRequest, ReceiveCallback
  <1>7. ~End(h)
    BY <1>1 DEF End, Abort, CallbackFails, Goto, Idle, Handler
  <1> QED
    BY <1>3, <1>4, <1>5, <1>6, <1>7 DEF Proceed, Update

\* What one handler writes to a row, and the phases it moves between.
LEMMA SerialWrite ==
  ASSUME IInv, OneAtATime, SerialInv, [Next]_vars, NEW h \in Handlers, UpdateStatus(h)
  PROVE  LET v == handler[h].vm
             c == vm[v].status
             n == vm'[v].status
         IN  /\ v \in Vms
             /\ vm' = [vm EXCEPT ![v] = vm'[v]]
             /\ n \in validNextStates[c] \ Uncounted
             /\ c \in VmStatus \ Uncounted
             /\ n \in Terminal => c \in Leaving
  <1> DEFINE r == handler[h]
  <1>1. r.pc = "update"
    BY DEF UpdateStatus
  <1>2. /\ r.vm \in Vms /\ Created(r.vm)
        /\ NextStatus(r) \in VmStatus \ Uncounted
        /\ NextStatus(r) \in Terminal => <<r.vm, DESTROY>> \in outbox
    BY <1>1, NextStatusFacts
  <1>3. r.current = vm[r.vm].status /\ r.current \in VmStatus \ Uncounted
    BY <1>1 DEF SerialInv, IInv, HandlersInv, Sound, Saw
  <1>4. /\ vm'[r.vm].status = NextStatus(r)
        /\ vm' = [vm EXCEPT ![r.vm] = vm'[r.vm]]
        /\ NextStatus(r) # r.current
    BY <1>2 DEF UpdateStatus, IInv, RowsInv
  <1>5. NextStatus(r) \in validNextStates[r.current]
    BY <1>4 DEF NextStatus, findNextVmState
  <1>6. NextStatus(r) \in Terminal => vm[r.vm].status \in Leaving
    BY <1>2 DEF SerialInv
  <1> QED
    BY <1>2, <1>3, <1>4, <1>5, <1>6

\* With one handler at a time, no write brings a machine back that is on its
\* way out.
LEMMA LeavingStays ==
  ASSUME IInv, OneAtATime, SerialInv, [Next]_vars, NEW v \in Vms, vm[v].status \in Leaving
  PROVE  vm'[v].status \in Leaving
  <1>1. CASE vm'[v].status = vm[v].status
    BY <1>1
  <1>2. CASE vm'[v].status = "TO_BE_DESTROYED"
    BY <1>2 DEF Leaving
  <1>3. CASE \E h \in Handlers : UpdateStatus(h) /\ handler[h].vm = v
    BY <1>3, SerialWrite, TableKeepsPhases
  <1>4. Created(v)
    BY DEF Created, NotCreated, Leaving
  <1> QED
    BY <1>1, <1>2, <1>3, <1>4, StatusWrites

\* What a handler read stays true until it writes.
LEMMA SerialInvIsInductive ==
  ASSUME IInv, OneAtATime, SerialInv, [Next]_vars
  PROVE  SerialInv'
  <1>1. ASSUME NEW v \in Vms, vm[v].status \in Leaving
        PROVE  vm'[v].status \in Leaving
    BY <1>1, LeavingStays
  <1>2. ASSUME NEW v \in Vms, <<v, DESTROY>> \in outbox'
        PROVE  vm'[v].status \in Leaving
    <2>1. CASE <<v, DESTROY>> \in outbox
      BY <1>1, <2>1 DEF SerialInv
    <2>2. CASE <<v, DESTROY>> \notin outbox
      <3>1. \A w \in Vms : ~CreateVm(w)
        BY <1>2, <2>2 DEF CreateVm, CREATE, DESTROY
      <3>2. \A h \in Handlers, w \in Vms : ~EnqueueRefresh(h, w)
        BY <1>2, <2>2 DEF EnqueueRefresh, DESTROY, REFRESH
      <3>3. \E h \in Handlers : EnqueueDestroy(h)
        BY <1>2, <2>2, <3>1, <3>2
        DEF Next, ReceiveRequest, ReceiveCallback, Proceed, Update, vars, TimePasses, ReceiveLog,
            OpenUrl,
            requestVmDestroy, destroyExpiredVmsJob, captureVmIpJob, ReadVm, UpdateIpOnly,
            UpdateStatus, UpdateNothing, StampStartedAt, markAppUrlAsUsed, SetToBeDestroyed,
            Abort, CallbackFails
      <3>4. PICK h \in Handlers : EnqueueDestroy(h) /\ handler[h].vm = v
        BY <1>2, <2>2, <3>3 DEF EnqueueDestroy
      <3>5. vm[v].status \in Leaving
        BY <3>4 DEF EnqueueDestroy, SerialInv
      <3> QED
        BY <1>1, <3>5
    <2> QED
      BY <2>1, <2>2
  <1>3. ASSUME NEW h \in Handlers, handler'[h].pc = "enqueue"
        PROVE  vm'[handler'[h].vm].status \in Leaving
    <2>1. CASE handler'[h] = handler[h]
      <3>1. handler[h].vm \in Vms /\ vm[handler[h].vm].status \in Leaving
        BY <1>3, <2>1 DEF SerialInv, IInv, HandlersInv, Sound, Targets
      <3> QED
        BY <1>1, <2>1, <3>1
    <2>2. ASSUME NEW v \in Vms, SetToBeDestroyed(h, v)
          PROVE  vm'[handler'[h].vm].status \in Leaving
      BY <2>2 DEF SetToBeDestroyed, IInv, RowsInv, HandlersInv, Row, Handler, Leaving
    <2> QED
      BY <1>3, <2>1, <2>2, HandlerMoves, EnqueueOnlyAfterDestroy
  <1>4. ASSUME NEW h \in Handlers, handler'[h].pc = "update"
        PROVE  handler'[h].current = vm'[handler'[h].vm].status
    <2>1. CASE handler'[h] = handler[h]
      <3>1. handler[h].pc = "update" /\ handler[h].vm \in Vms /\ Created(handler[h].vm)
        BY <1>4, <2>1 DEF IInv, HandlersInv, Sound, Targets
      <3>2. vm'[handler[h].vm].status = vm[handler[h].vm].status
        <4>1. ~UpdateStatus(h)
          BY <1>4, <2>1
          DEF UpdateStatus, Goto, AfterUpdate, Idle, IInv, HandlersInv, Handler,
             Sound, UrlAction, NoUrl, START, COMPLETE
        <4>2. \A g \in Handlers : g = h
          BY DEF OneAtATime
        <4> QED
          BY <3>1, <4>1, <4>2, StatusWrites
      <3> QED
        BY <2>1, <3>1, <3>2 DEF SerialInv
    <2>2. ASSUME NEW v \in Vms, NEW action \in JobAction, NEW log \in JobLog(Ips)[action],
                 ReceiveLog(h, v, action, log)
          PROVE  handler'[h].current = vm'[handler'[h].vm].status
      BY <2>2 DEF ReceiveLog, Idle, IInv, HandlersInv
    <2>3. CASE ReadVm(h)
      BY <2>3 DEF ReadVm, IInv, HandlersInv, Handler
    <2> QED
      BY <1>4, <2>1, <2>2, <2>3, HandlerMoves, UpdateOnlyAfterRead
  <1> QED
    BY <1>2, <1>3, <1>4 DEF SerialInv, DESTROY

\* No handler has read anything initially.
LEMMA SerialInvHoldsInitially == Init => SerialInv
  BY DEF Init, SerialInv, Idle

phases == [v \in Vms |-> PhaseOf(vm[v].status)]

\* Every step is a step of VmPhases, or leaves the phases alone.
LEMMA StepImplementsPhases ==
  ASSUME IInv, OneAtATime, SerialInv, [Next]_vars
  PROVE  Phases!Next \/ UNCHANGED phases
  <1>1. CASE \A v \in Vms : vm'[v].status = vm[v].status
    BY <1>1 DEF phases
  <1>2. ASSUME NEW v \in Vms, CreateVm(v)
        PROVE  Phases!Next
    <2>1. phases' = [phases EXCEPT ![v] = "provisioning"]
      BY <1>2, PhaseValues DEF phases, CreateVm, NewRow, NoRow, IInv, RowsInv
    <2>2. phases[v] = "absent"
      BY <1>2, PhaseValues DEF phases, CreateVm, Created
    <2>3. Phases!Create(v)
      BY <2>1, <2>2 DEF Phases!Create, Phases!Move, phases
    <2> QED
      BY <2>3 DEF Phases!Next
  <1>3. ASSUME NEW h \in Handlers, NEW v \in Vms, SetToBeDestroyed(h, v)
        PROVE  Phases!Next
    <2>1. Created(v) /\ vm[v].status \in VmStatus
      BY <1>3 DEF SetToBeDestroyed, IInv, RowsInv, HandlersInv, Sound, Targets, Row, Created
    <2>2. phases' = [phases EXCEPT ![v] = "leaving"]
      BY <1>3, PhaseValues DEF phases, SetToBeDestroyed, IInv, RowsInv, Row
    <2>3. phases[v] \in Phases!Phase \ {"absent"}
      BY <2>1 DEF phases, PhaseOf, Phases!Phase, VmStatus, Usable, Leaving, Ready, Halted,
         NotCreated
    <2>4. Phases!Retire(v)
      BY <2>2, <2>3 DEF Phases!Retire, Phases!Move, phases
    <2> QED
      BY <2>4 DEF Phases!Next
  <1>4. ASSUME NEW h \in Handlers, UpdateStatus(h)
        PROVE  Phases!Next \/ UNCHANGED phases
    <2> DEFINE v == handler[h].vm
               c == vm[v].status
               n == vm'[v].status
    <2>1. /\ v \in Vms
          /\ vm' = [vm EXCEPT ![v] = vm'[v]]
          /\ n \in validNextStates[c] \ Uncounted
          /\ c \in VmStatus \ Uncounted
          /\ n \in Terminal => c \in Leaving
      BY <1>4, SerialWrite
    <2>2. \/ PhaseOf(n) = PhaseOf(c)
          \/ PhaseOf(c) = "provisioning" /\ PhaseOf(n) = "usable"
          \/ PhaseOf(c) # "absent" /\ PhaseOf(n) = "leaving"
          \/ PhaseOf(c) = "leaving" /\ PhaseOf(n) = "gone"
      BY <2>1, TableKeepsPhases
    <2>3. phases' = [phases EXCEPT ![v] = PhaseOf(n)] /\ phases[v] = PhaseOf(c)
      BY <2>1 DEF phases, IInv, RowsInv
    <2>4. PhaseOf(c) \in Phases!Phase
      BY <2>1
      DEF PhaseOf, Phases!Phase, VmStatus, Usable, Leaving, Ready, Halted, NotCreated
    <2>5. CASE PhaseOf(n) = PhaseOf(c)
      BY <2>3, <2>5 DEF phases
    <2>6. CASE PhaseOf(n) # PhaseOf(c)
      <3>1. Phases!Provide(v) \/ Phases!Retire(v) \/ Phases!Remove(v)
        BY <2>2, <2>3, <2>4, <2>6
        DEF Phases!Provide, Phases!Retire, Phases!Remove, Phases!Move, phases
      <3> QED
        BY <2>1, <3>1 DEF Phases!Next
    <2> QED
      BY <2>5, <2>6
  <1>5. ASSUME NEW v \in Vms, vm'[v].status # vm[v].status
        PROVE  \/ \E w \in Vms : CreateVm(w)
               \/ \E h \in Handlers : UpdateStatus(h) \/ \E w \in Vms : SetToBeDestroyed(h, w)
    <2>1. CASE \E h \in Handlers : UpdateIpOnly(h)
      BY <1>5, <2>1 DEF UpdateIpOnly, IInv, RowsInv, Row
    <2>2. CASE \E h \in Handlers : StampStartedAt(h)
      BY <1>5, <2>2 DEF StampStartedAt, IInv, RowsInv, Row
    <2>3. CASE \E w \in Vms : TimePasses(w)
      BY <1>5, <2>3 DEF TimePasses, IInv, RowsInv, Row
    <2>4. CASE UNCHANGED vm
      BY <1>5, <2>4
    <2> QED
      BY <2>1, <2>2, <2>3, <2>4
      DEF Next, ReceiveRequest, ReceiveCallback, Proceed, Update, vars, ReceiveLog, OpenUrl,
          requestVmDestroy, destroyExpiredVmsJob, captureVmIpJob, ReadVm, UpdateNothing, markAppUrlAsUsed,
          EnqueueRefresh, EnqueueDestroy, Abort, CallbackFails
  <1> QED
    BY <1>1, <1>2, <1>3, <1>4, <1>5

\* Handlers that run one at a time implement VmPhases: a machine on its way
\* out does not come back, one that is usable is not provisioned again.
THEOREM SerialImplementsPhases == OneAtATime => (Spec => ImplementsPhases)
  <1> SUFFICES ASSUME OneAtATime PROVE Spec => ImplementsPhases
    OBVIOUS
  <1>1. Init => Phases!Init
    BY PhaseValues DEF Init, Phases!Init, NoRow
  <1>2. IInv /\ SerialInv /\ [Next]_vars => SerialInv'
    BY SerialInvIsInductive
  <1>3. IInv /\ SerialInv /\ [Next]_vars => [Phases!Next]_phases
    BY StepImplementsPhases
  <1> QED
    BY <1>1, <1>2, <1>3, IInvAlways, SerialInvHoldsInitially, PTL
    DEF Spec, ImplementsPhases, Phases!Spec, phases

\* With handlers that run one at a time the table keeps its promise on the rows
\* (lifecycle_stale shows two handlers that break it): a machine in
\* TO_BE_DESTROYED or DESTROYING stays on its way out.
THEOREM SerialKeepsDestroyIntent == OneAtATime => (Spec => DestroyIntentKept)
  <1> SUFFICES ASSUME OneAtATime PROVE Spec => DestroyIntentKept
    OBVIOUS
  <1> DEFINE Stays == \A v \in Vms : vm[v].status \in {"TO_BE_DESTROYED", "DESTROYING"}
                                        => vm'[v].status \in Leaving
  <1>1. IInv /\ SerialInv /\ [Next]_vars => SerialInv'
    BY SerialInvIsInductive
  <1>2. IInv /\ SerialInv /\ [Next]_vars => [Stays]_vars
    <2> SUFFICES ASSUME IInv, SerialInv, [Next]_vars PROVE Stays
      OBVIOUS
    <2> QED
      BY LeavingStays DEF Leaving
  <1> QED
    BY <1>1, <1>2, IInvAlways, SerialInvHoldsInitially, PTL DEF Spec, DestroyIntentKept
==============================================================================
