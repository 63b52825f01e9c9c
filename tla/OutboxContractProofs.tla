------------------------ MODULE OutboxContractProofs ------------------------
(***************************************************************************)
(* Every step of Outbox is a step of AtLeastOnce or none, connections that *)
(* break and replicas that crash included: what the broker gets was        *)
(* recorded.  That it gets everything in the end is left to the runs.      *)
(***************************************************************************)
EXTENDS OutboxProofs

Recorded == {m \in Messages : row[m] # NotRecorded}

\* The lists of a task hold messages of R only.
AllIn(lists, R) == \A i \in 1..Len(lists) : lists[i] \subseteq R

\* So does its hand.
AsksIn(x, R) ==
  /\ AllIn(x.lists, R)
  /\ x.pc \in {"assert", "send", "published", "failed"} => x.msg \in R

\* A task may have listed a message long ago: it was recorded then, and no row
\* is ever taken back.
OnlyRecorded ==
  /\ \A t \in Tasks : AsksIn(task[t], Recorded)
  /\ \A c \in Conns : conn[c].buffer \subseteq Recorded

ContractInv == IInv /\ OnlyRecorded

-----------------------------------------------------------------------------
LEMMA UnfinishedStaysIn ==
  ASSUME NEW lists \in Seq(SUBSET Messages), NEW R, AllIn(lists, R)
  PROVE  AllIn(Unfinished(lists), R)
  <1>1. CASE Len(lists) > 0
    <2> DEFINE front == SubSeq(lists, 1, Len(lists) - 1)
    <2>1. /\ front \in Seq(SUBSET Messages) /\ Len(front) = Len(lists) - 1
          /\ \A i \in 1..Len(front) : front[i] = lists[i]
      <3> DEFINE n == Len(lists) - 1
      <3>1. n \in Nat /\ 1 \in Int /\ \A i \in 1..n : lists[i] \in SUBSET Messages
        BY <1>1
      <3>2. /\ front \in Seq(SUBSET Messages) /\ Len(front) = (IF 1 <= n THEN n - 1 + 1 ELSE 0)
            /\ \A i \in 1..(n - 1 + 1) : front[i] = lists[1 + i - 1]
        BY <3>1, SubSeqProperties
      <3> HIDE DEF n
      <3>3. Len(front) = n /\ n - 1 + 1 = n
        BY <3>1, <3>2
      <3>4. \A i \in 1..n : front[i] = lists[i]
        <4>1. \A i \in 1..n : 1 + i - 1 = i
          BY <3>1
        <4> HIDE DEF front
        <4> QED
          BY <3>2, <3>3, <4>1
      <3> QED
        BY <3>2, <3>3, <3>4 DEF n
    <2>2. AllIn(front, R)
      <3>1. 1..Len(front) \subseteq 1..Len(lists)
        BY <1>1, <2>1
      <3> QED
        BY <2>1, <3>1 DEF AllIn
    <2> QED
      BY <2>2 DEF Unfinished
  <1> QED
    BY <1>1 DEF Unfinished

LEMMA ResumeStaysIn ==
  ASSUME NEW lists \in Seq(SUBSET Messages), NEW R, AllIn(lists, R)
  PROVE  AsksIn(Resume(lists), R)
  <1> DEFINE rest == Unfinished(lists)
             next == [Idle EXCEPT !.pc = "next", !.lists = rest]
  <1>1. CASE rest = <<>>
    <2>1. Resume(lists) = Idle
      BY <1>1 DEF Resume
    <2> QED
      BY <2>1 DEF AsksIn, AllIn, Idle
  <1>2. CASE rest # <<>>
    <2>1. Resume(lists) = next
      BY <1>2 DEF Resume
    <2>2. next.pc = "next" /\ next.lists = rest
      BY DEF Idle
    <2>3. AllIn(rest, R)
      BY UnfinishedStaysIn
    <2> QED
      BY <2>1, <2>2, <2>3 DEF AsksIn
  <1> QED
    BY <1>1, <1>2

LEMMA AsksMore ==
  ASSUME NEW x, NEW R, NEW S, R \subseteq S, AsksIn(x, R)
  PROVE  AsksIn(x, S)
  BY DEF AsksIn, AllIn

\* One task goes on, no connection changes.
LEMMA BecomeKeepsRecorded ==
  ASSUME ContractInv, NEW t \in Tasks, NEW x, Become(t, x), AsksIn(x, Recorded'),
         Recorded \subseteq Recorded', UNCHANGED conn
  PROVE  OnlyRecorded'
  <1>1. \A p \in Tasks : AsksIn(task'[p], Recorded')
    <2> SUFFICES ASSUME NEW p \in Tasks PROVE AsksIn(task'[p], Recorded')
      OBVIOUS
    <2>1. task'[p] = task[p] \/ task'[p] = x
      BY DEF Become, ContractInv, IInv, TypeOK
    <2>2. AsksIn(task[p], Recorded)
      BY DEF ContractInv, OnlyRecorded
    <2> QED
      BY <2>1, <2>2, AsksMore
  <1>2. \A c \in Conns : conn'[c].buffer \subseteq Recorded'
    BY DEF ContractInv, OnlyRecorded
  <1> QED
    BY <1>1, <1>2 DEF OnlyRecorded

\* What a task has on its stack and in its hand.
LEMMA TaskHolds ==
  ASSUME ContractInv, NEW t \in Tasks
  PROVE  /\ task[t] \in Task /\ Sound(t, task[t])
         /\ task[t].lists \in Seq(SUBSET Messages)
         /\ AllIn(task[t].lists, Recorded)
         /\ AsksIn(task[t], Recorded)
  BY DEF ContractInv, IInv, TypeOK, Task, OnlyRecorded, AsksIn

-----------------------------------------------------------------------------
(* The steps of a task.                                                    *)

LEMMA StartKeepsRecorded ==
  ASSUME ContractInv, NEW t \in Tasks
  PROVE  /\ \A m \in Messages : Record(t, m) => OnlyRecorded' /\ Contract!Record(m)
         /\ publishPendingMessagesJob(t) \/ reconnect(t) => OnlyRecorded'
  <1>1. ASSUME NEW m \in Messages, Record(t, m)
        PROVE  OnlyRecorded' /\ Contract!Record(m)
    <2> USE <1>1 DEF Record
    <2>1. Recorded' = Recorded \cup {m} /\ m \notin Recorded
      BY DEF Recorded, ContractInv, IInv, TypeOK, NotRecorded
    <2>2. <<{m}>> \in Seq(SUBSET Messages) /\ AllIn(<<{m}>>, Recorded')
      BY <2>1 DEF AllIn
    <2>3. AsksIn(Resume(<<{m}>>), Recorded')
      BY <2>2, ResumeStaysIn
    <2>4. OnlyRecorded'
      BY <2>1, <2>3, BecomeKeepsRecorded
    <2> QED
      BY <2>1, <2>4 DEF Recorded, Contract!Record
  <1>2. ASSUME publishPendingMessagesJob(t)
        PROVE  OnlyRecorded'
    <2> USE <1>2 DEF publishPendingMessagesJob
    <2>1. Recorded' = Recorded
      BY DEF Recorded
    <2>2. Pending \subseteq Recorded
      BY DEF Pending, Recorded, NotRecorded
    <2>3. <<Pending>> \in Seq(SUBSET Messages) /\ AllIn(<<Pending>>, Recorded)
      BY <2>2 DEF AllIn, Recorded
    <2> QED
      BY <2>1, <2>3, ResumeStaysIn, BecomeKeepsRecorded
  <1>3. ASSUME reconnect(t)
        PROVE  OnlyRecorded'
    <2> USE <1>3 DEF reconnect
    <2> DEFINE x == [task[t] EXCEPT !.pc = "connect"]
    <2>1. Recorded' = Recorded
      BY DEF Recorded
    <2>2. x.pc = "connect" /\ x.lists = task[t].lists
      BY TaskHolds DEF Task
    <2>3. Become(t, x)
      BY DEF Goto, Become
    <2> HIDE DEF x
    <2>4. AsksIn(x, Recorded)
      BY <2>2, TaskHolds DEF AsksIn
    <2> QED
      BY <2>1, <2>3, <2>4, BecomeKeepsRecorded
  <1> QED
    BY <1>1, <1>2, <1>3

LEMMA PublishNextKeepsRecorded ==
  ASSUME ContractInv, NEW t \in Tasks, PublishNext(t)
  PROVE  OnlyRecorded'
  <1> USE DEF PublishNext
  <1> DEFINE lists == task[t].lists
             top   == Len(lists)
  <1>1. /\ lists \in Seq(SUBSET Messages) /\ AllIn(lists, Recorded)
        /\ top \in 1..Len(lists)
    BY TaskHolds DEF Sound
  <1>2. Recorded' = Recorded
    BY DEF Recorded
  <1>3. PICK m \in lists[top] :
          Become(t, IF ChannelUsable(t[1])
                    THEN [pc |-> "assert", msg |-> m, on |-> channel[t[1]],
                          lists |-> [lists EXCEPT ![top] = lists[top] \ {m}]]
                    ELSE [pc |-> "connect", msg |-> NoMsg, on |-> NoConn,
                          lists |-> [lists EXCEPT ![top] = lists[top] \ {m}]])
    OBVIOUS
  <1> DEFINE rest == [lists EXCEPT ![top] = lists[top] \ {m}]
  <1>4. m \in Recorded /\ AllIn(rest, Recorded)
    <2>1. m \in Recorded
      BY <1>1 DEF AllIn
    <2>2. Len(rest) = Len(lists) /\ \A i \in 1..Len(lists) : rest[i] \subseteq lists[i]
      BY <1>1
    <2> QED
      BY <1>1, <2>1, <2>2 DEF AllIn
  <1>5. PICK x : Become(t, x) /\ AsksIn(x, Recorded)
    <2> DEFINE y == [pc |-> "assert", msg |-> m, on |-> channel[t[1]], lists |-> rest]
               z == [pc |-> "connect", msg |-> NoMsg, on |-> NoConn, lists |-> rest]
    <2>1. AsksIn(y, Recorded) /\ AsksIn(z, Recorded)
      BY <1>4 DEF AsksIn
    <2>2. Become(t, y) \/ Become(t, z)
      BY <1>3
    <2> QED
      BY <2>1, <2>2
  <1> QED
    BY <1>2, <1>5, BecomeKeepsRecorded

LEMMA AssertQueueKeepsRecorded ==
  ASSUME ContractInv, NEW t \in Tasks, AssertQueue(t)
  PROVE  OnlyRecorded'
  <1> USE DEF AssertQueue
  <1>1. PICK answer \in {"send", "failed"} :
          Become(t, [task[t] EXCEPT !.pc = answer, !.on = NoConn])
    OBVIOUS
  <1> DEFINE x == [task[t] EXCEPT !.pc = answer, !.on = NoConn]
  <1>2. x.pc = answer /\ x.msg = task[t].msg /\ x.lists = task[t].lists
    BY TaskHolds DEF Task
  <1>3. AsksIn(x, Recorded)
    <2> HIDE DEF x
    <2> QED
      BY <1>2, TaskHolds DEF AsksIn
  <1>4. Recorded' = Recorded
    BY DEF Recorded
  <1> QED
    BY <1>1, <1>3, <1>4, BecomeKeepsRecorded

\* A row that is marked was recorded: the message in hand was.
LEMMA MarkKeepsRecorded ==
  ASSUME ContractInv, NEW t \in Tasks, markMessageAsPublished(t) \/ markMessageAsFailed(t)
  PROVE  OnlyRecorded' /\ Recorded' = Recorded /\ UNCHANGED received
  <1>1. PICK status \in {"PUBLISHED", "FAILED"} : Mark(t, status)
    BY DEF markMessageAsPublished, markMessageAsFailed
  <1>2. task[t].msg \in Recorded
    BY TaskHolds DEF AsksIn, markMessageAsPublished, markMessageAsFailed
  <1>3. Recorded' = Recorded
    BY <1>1, <1>2 DEF Mark, Recorded, ContractInv, IInv, TypeOK, NotRecorded
  <1>4. AsksIn(Resume(task[t].lists), Recorded)
    BY TaskHolds, ResumeStaysIn
  <1> QED
    BY <1>1, <1>3, <1>4, BecomeKeepsRecorded DEF Mark

LEMMA ListKeepsRecorded ==
  ASSUME ContractInv, NEW t \in Tasks,
         ConnectFails(t) \/ ConnectRefused(t) \/ publishAllPendingMessages(t)
  PROVE  OnlyRecorded'
  <1>1. Recorded' = Recorded /\ UNCHANGED conn
    BY DEF ConnectFails, ConnectRefused, publishAllPendingMessages, Recorded
  <1> DEFINE old == Unfinished(task[t].lists)
             new == Append(old, Pending)
  <1>2. old \in Seq(SUBSET Messages) /\ AllIn(old, Recorded)
    BY TaskHolds, UnfinishedIsLists, UnfinishedStaysIn
  <1>3. Pending \in SUBSET Messages /\ Pending \subseteq Recorded
    BY DEF Pending, Recorded, NotRecorded
  <1>4. new \in Seq(SUBSET Messages) /\ AllIn(new, Recorded)
    <2> HIDE DEF old
    <2>1. /\ new \in Seq(SUBSET Messages) /\ Len(new) = Len(old) + 1
          /\ \A i \in 1..Len(new) : IF i = Len(old) + 1 THEN new[i] = Pending ELSE new[i] = old[i]
      BY <1>2, <1>3
    <2> QED
      BY <1>2, <1>3, <2>1 DEF AllIn
  <1>5. PICK lists \in Seq(SUBSET Messages) : Become(t, Resume(lists)) /\ AllIn(lists, Recorded)
    BY <1>4, TaskHolds DEF ConnectFails, ConnectRefused, publishAllPendingMessages
  <1> QED
    BY <1>1, <1>5, ResumeStaysIn, BecomeKeepsRecorded

LEMMA StatementFailsKeepsRecorded ==
  ASSUME ContractInv, NEW t \in Tasks, StatementFails(t)
  PROVE  OnlyRecorded'
  <1> USE DEF StatementFails
  <1> DEFINE lists == task[t].lists
  <1>1. Recorded' = Recorded /\ UNCHANGED conn
    BY DEF Recorded
  <1>2. CASE task[t].pc = "published" /\ Goto(t, "failed")
    <2> DEFINE x == [task[t] EXCEPT !.pc = "failed"]
    <2>1. x.pc = "failed" /\ x.msg = task[t].msg /\ x.lists = lists
      BY TaskHolds DEF Task
    <2>2. Become(t, x)
      BY <1>2 DEF Goto, Become
    <2> HIDE DEF x
    <2>3. AsksIn(x, Recorded)
      BY <1>2, <2>1, TaskHolds DEF AsksIn
    <2> QED
      BY <1>1, <2>2, <2>3, BecomeKeepsRecorded
  <1>3. CASE task[t].pc = "failed" /\ Become(t, Resume(SubSeq(lists, 1, Len(lists) - 1)))
    <2> DEFINE front == SubSeq(lists, 1, Len(lists) - 1)
    <2>1. lists # <<>> /\ lists \in Seq(SUBSET Messages) /\ AllIn(lists, Recorded)
      BY <1>3, TaskHolds DEF Sound
    <2>2. /\ front \in Seq(SUBSET Messages) /\ Len(front) = Len(lists) - 1
          /\ \A i \in 1..Len(front) : front[i] = lists[i]
      BY <2>1, SubSeqProperties
    <2>3. AllIn(front, Recorded)
      <3>1. 1..Len(front) \subseteq 1..Len(lists)
        BY <2>1, <2>2
      <3> QED
        BY <2>1, <2>2, <3>1 DEF AllIn
    <2> QED
      BY <1>1, <1>3, <2>2, <2>3, ResumeStaysIn, BecomeKeepsRecorded
  <1>4. CASE Become(t, Resume(lists))
    BY <1>1, <1>4, TaskHolds, ResumeStaysIn, BecomeKeepsRecorded
  <1> QED
    BY <1>2, <1>3, <1>4

-----------------------------------------------------------------------------
(* The steps that change connections.                                      *)

\* A task's message goes to a buffer.
LEMMA SendKeepsRecorded ==
  ASSUME ContractInv, NEW t \in Tasks, SendToQueue(t) \/ SendReturnsFalse(t)
  PROVE  OnlyRecorded'
  <1> DEFINE c == channel[t[1]]
             m == task[t].msg
  <1>1. PICK pc \in {"published", "failed"} :
          WriteTo(c, m) /\ Goto(t, pc) /\ UNCHANGED row
    BY DEF SendToQueue, SendReturnsFalse
  <1>2. m \in Recorded /\ Recorded' = Recorded
    BY <1>1, TaskHolds DEF AsksIn, SendToQueue, SendReturnsFalse, Recorded
  <1> DEFINE x == [task[t] EXCEPT !.pc = pc]
  <1>3. x.pc = pc /\ x.msg = m /\ x.lists = task[t].lists
    BY TaskHolds DEF Task
  <1>4. AsksIn(x, Recorded)
    <2> HIDE DEF x
    <2> QED
      BY <1>2, <1>3, TaskHolds DEF AsksIn
  <1>5. \A p \in Tasks : AsksIn(task'[p], Recorded)
    <2> SUFFICES ASSUME NEW p \in Tasks PROVE AsksIn(task'[p], Recorded)
      OBVIOUS
    <2>1. task'[p] = task[p] \/ task'[p] = x
      BY <1>1 DEF Goto, ContractInv, IInv, TypeOK
    <2> QED
      BY <1>4, <2>1, TaskHolds
  <1>6. \A d \in Conns : conn'[d].buffer \subseteq conn[d].buffer \cup {m}
    BY <1>1 DEF WriteTo, ContractInv, IInv, TypeOK, Connection
  <1> QED
    BY <1>2, <1>5, <1>6 DEF ContractInv, OnlyRecorded

LEMMA ConnectKeepsRecorded ==
  ASSUME ContractInv, NEW t \in Tasks, Connect(t)
  PROVE  OnlyRecorded'
  <1> USE DEF Connect
  <1> DEFINE x == [task[t] EXCEPT !.pc = "list"]
  <1>1. Recorded' = Recorded
    BY DEF Recorded
  <1>2. x.pc = "list" /\ x.lists = task[t].lists
    BY TaskHolds DEF Task
  <1>3. AsksIn(x, Recorded)
    <2> HIDE DEF x
    <2> QED
      BY <1>2, TaskHolds DEF AsksIn
  <1>4. \A p \in Tasks : AsksIn(task'[p], Recorded)
    <2> SUFFICES ASSUME NEW p \in Tasks PROVE AsksIn(task'[p], Recorded)
      OBVIOUS
    <2>1. task'[p] = task[p] \/ task'[p] = x
      BY DEF Goto, ContractInv, IInv, TypeOK
    <2> QED
      BY <1>3, <2>1, TaskHolds
  <1>5. \A d \in Conns : conn'[d].buffer \subseteq conn[d].buffer
    BY DEF ContractInv, IInv, TypeOK
  <1> QED
    BY <1>1, <1>4, <1>5 DEF ContractInv, OnlyRecorded

\* Connections and replicas only lose what was recorded.
LEMMA LossKeepsRecorded ==
  ASSUME ContractInv,
         \/ \E c \in Conns : CloseEvent(c) \/ LoseConnection(c)
         \/ \E r \in Replicas : Crash(r)
  PROVE  OnlyRecorded'
  <1>1. Recorded' = Recorded
    BY DEF CloseEvent, LoseConnection, Crash, Recorded
  <1>2. \A d \in Conns : conn'[d].buffer \subseteq conn[d].buffer
    <2>1. conn \in [Conns -> Connection]
      BY DEF ContractInv, IInv, TypeOK
    <2>2. ASSUME NEW c \in Conns, CloseEvent(c)
          PROVE  \A d \in Conns : conn'[d].buffer \subseteq conn[d].buffer
      BY <2>1, <2>2 DEF CloseEvent, Connection, Closed
    <2>3. ASSUME NEW c \in Conns, LoseConnection(c)
          PROVE  \A d \in Conns : conn'[d].buffer \subseteq conn[d].buffer
      BY <2>1, <2>3 DEF LoseConnection, Connection, Closed
    <2>4. ASSUME NEW r \in Replicas, Crash(r)
          PROVE  \A d \in Conns : conn'[d].buffer \subseteq conn[d].buffer
      BY <2>1, <2>4 DEF Crash, Connection, Closed
    <2> QED
      BY <2>2, <2>3, <2>4
  <1>3. \A p \in Tasks : task'[p] = task[p] \/ task'[p] = Idle
    BY DEF CloseEvent, LoseConnection, Crash
  <1>4. AsksIn(Idle, Recorded)
    BY DEF AsksIn, AllIn, Idle
  <1>5. \A p \in Tasks : AsksIn(task'[p], Recorded)
    BY <1>3, <1>4, TaskHolds
  <1> QED
    BY <1>1, <1>2, <1>5 DEF ContractInv, OnlyRecorded

\* What arrives was recorded, and may have arrived before.
LEMMA ReceiveKeepsRecorded ==
  ASSUME ContractInv, NEW c \in Conns, NEW m \in Messages, Receive(c, m)
  PROVE  OnlyRecorded' /\ [Contract!Receive(m)]_(Contract!vars)
  <1> USE DEF Receive
  <1>1. Recorded' = Recorded /\ m \in Recorded
    BY DEF ContractInv, OnlyRecorded, Recorded
  <1>2. \A d \in Conns : conn'[d].buffer \subseteq conn[d].buffer
    BY DEF ContractInv, IInv, TypeOK, Connection
  <1>3. OnlyRecorded'
    BY <1>1, <1>2 DEF ContractInv, OnlyRecorded
  <1> QED
    BY <1>1, <1>3 DEF Contract!Receive, Contract!vars, Recorded

LEMMA RecordOnlyKeepsRecorded ==
  ASSUME ContractInv, NEW m \in Messages, RecordOnly(m)
  PROVE  OnlyRecorded' /\ Contract!Record(m)
  <1> USE DEF RecordOnly
  <1>1. Recorded' = Recorded \cup {m} /\ m \notin Recorded
    BY DEF Recorded, ContractInv, IInv, TypeOK, NotRecorded
  <1>2. \A p \in Tasks : AsksIn(task'[p], Recorded')
    BY <1>1, TaskHolds, AsksMore
  <1>3. OnlyRecorded'
    BY <1>1, <1>2 DEF ContractInv, OnlyRecorded
  <1> QED
    BY <1>1, <1>3 DEF Recorded, Contract!Record

-----------------------------------------------------------------------------
LEMMA ContractInvInitially == Init => ContractInv /\ Contract!Init
  <1> SUFFICES ASSUME Init PROVE ContractInv /\ Contract!Init
    OBVIOUS
  <1>1. Recorded = {} /\ received = {}
    BY DEF Init, Recorded
  <1>2. OnlyRecorded
    BY DEF Init, OnlyRecorded, AsksIn, AllIn, Idle, Closed
  <1> QED
    BY <1>1, <1>2, IInvHoldsInitially DEF ContractInv, Contract!Init, Recorded

\* Steps that neither record nor deliver.
LEMMA InternalStep ==
  ASSUME ContractInv,
         \/ \E t \in Tasks : publishPendingMessagesJob(t) \/ reconnect(t) \/ Proceed(t) \/ Fail(t)
         \/ \E c \in Conns : CloseEvent(c) \/ LoseConnection(c)
         \/ \E r \in Replicas : Crash(r)
  PROVE  OnlyRecorded' /\ Recorded' = Recorded /\ UNCHANGED received
  <1>1. ASSUME NEW t \in Tasks,
               markMessageAsPublished(t) \/ markMessageAsFailed(t)
        PROVE  OnlyRecorded' /\ Recorded' = Recorded /\ UNCHANGED received
    BY <1>1, MarkKeepsRecorded
  <1>2. ASSUME NEW t \in Tasks,
               \/ publishPendingMessagesJob(t) \/ reconnect(t)
               \/ PublishNext(t) \/ AssertQueue(t) \/ SendToQueue(t)
               \/ Connect(t) \/ ConnectRefused(t) \/ publishAllPendingMessages(t) \/ Fail(t)
        PROVE  OnlyRecorded' /\ Recorded' = Recorded /\ UNCHANGED received
    <2>1. Recorded' = Recorded /\ UNCHANGED received
      BY <1>2 DEF publishPendingMessagesJob, reconnect, PublishNext, AssertQueue, SendToQueue,
                  Connect, ConnectRefused, publishAllPendingMessages, Fail, SendReturnsFalse,
                  StatementFails, ConnectFails, Recorded
    <2>2. OnlyRecorded'
      BY <1>2, StartKeepsRecorded, PublishNextKeepsRecorded, AssertQueueKeepsRecorded,
         SendKeepsRecorded, ConnectKeepsRecorded, ListKeepsRecorded, StatementFailsKeepsRecorded
         DEF Fail
    <2> QED
      BY <2>1, <2>2
  <1>3. CASE \/ \E c \in Conns : CloseEvent(c) \/ LoseConnection(c)
             \/ \E r \in Replicas : Crash(r)
    <2>1. UNCHANGED <<row, received>>
      BY <1>3 DEF CloseEvent, LoseConnection, Crash
    <2>2. Recorded' = Recorded
      BY <2>1 DEF Recorded
    <2> QED
      BY <1>3, <2>1, <2>2, LossKeepsRecorded
  <1> QED
    BY <1>1, <1>2, <1>3 DEF Proceed

LEMMA ContractStep ==
  ContractInv /\ [Next]_vars => ContractInv' /\ [Contract!Next]_(Contract!vars)
  <1> SUFFICES ASSUME ContractInv, [Next]_vars
               PROVE  OnlyRecorded' /\ [Contract!Next]_(Contract!vars)
    BY IInvIsInductive DEF ContractInv
  <1>1. \A r \in Replicas : /\ \A s \in Requests : <<r, s>> \in Tasks
                            /\ \A s \in CronRuns : <<r, s>> \in Tasks
                            /\ \A s \in Reconnects : <<r, s>> \in Tasks
    BY DEF Tasks
  <1>2. CASE \E r \in Replicas, s \in Requests, m \in Messages : Record(<<r, s>>, m)
    BY <1>1, <1>2, StartKeepsRecorded DEF Contract!Next
  <1>3. CASE \E m \in Messages : RecordOnly(m)
    BY <1>3, RecordOnlyKeepsRecorded DEF Contract!Next
  <1>4. CASE \E c \in Conns, m \in Messages : Receive(c, m)
    BY <1>4, ReceiveKeepsRecorded DEF Contract!Next
  <1>5. CASE \/ \E t \in Tasks : publishPendingMessagesJob(t) \/ reconnect(t) \/ Proceed(t) \/ Fail(t)
             \/ \E c \in Conns : CloseEvent(c) \/ LoseConnection(c)
             \/ \E r \in Replicas : Crash(r)
    BY <1>5, InternalStep DEF Contract!vars, Recorded
  <1>6. CASE UNCHANGED vars
    BY <1>6 DEF vars, ContractInv, OnlyRecorded, Recorded, Contract!vars
  <1> QED
    BY <1>1, <1>2, <1>3, <1>4, <1>5, <1>6 DEF Next

\* The outbox starts and steps as AtLeastOnce does, whatever connections break:
\* a message is recorded once, and the broker gets nothing that no transaction
\* recorded, however old the list it was taken from.
THEOREM OutboxStepsAreContractSteps ==
  Spec => Contract!Init /\ [][Contract!Next]_(Contract!vars)
  BY ContractInvInitially, ContractStep, PTL DEF Spec
=============================================================================
