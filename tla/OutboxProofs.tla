---------------------------- MODULE OutboxProofs ----------------------------
(***************************************************************************)
(* Proofs about Outbox, for any number of messages, replicas, tasks,       *)
(* connections, losses and failures.                                       *)
(***************************************************************************)
EXTENDS Outbox, SequenceTheorems, TLAPS

\* The broker has the message, or will get it from a connection.
Written(m) == m \in received \/ \E c \in Conns : m \in conn[c].buffer

\* What a task x in slot t may rely on.
Sound(t, x) ==
  /\ x.pc \in {"next", "assert", "send", "published", "failed"} => x.lists # <<>>
  /\ x.pc \in {"assert", "send", "published", "failed"} => x.msg \in Messages
  /\ x.pc \in {"assert", "send"} => channel[t[1]] # NoConn
  /\ x.pc = "published" /\ losses = 0 => Written(x.msg)

ClosedIsEmpty == \A c \in Conns : conn[c].state = "closed" => conn[c].buffer = {}

NothingLost == losses = 0 => \A c \in Conns : conn[c].state # "lost"

IInv ==
  /\ TypeOK
  /\ \A t \in Tasks : Sound(t, task[t])
  /\ FlagIsTruthful
  /\ ClosedIsEmpty
  /\ NothingLost
  /\ PublishedWasWritten

-----------------------------------------------------------------------------
LEMMA ReplicaOfTask ==
  ASSUME NEW t \in Tasks
  PROVE  t[1] \in Replicas
  BY DEF Tasks

LEMMA IdleIsTask == Idle \in Task
  <1>1. <<>> \in Seq(SUBSET Messages)
    OBVIOUS
  <1> QED
    BY <1>1 DEF Idle, Task, PC

LEMMA IdleIsSound ==
  ASSUME NEW t
  PROVE  Sound(t, Idle)
  BY DEF Sound, Idle

LEMMA UnfinishedIsLists ==
  ASSUME NEW lists \in Seq(SUBSET Messages)
  PROVE  Unfinished(lists) \in Seq(SUBSET Messages)
  <1>1. CASE Len(lists) > 0
    <2>1. SubSeq(lists, 1, Len(lists) - 1) \in Seq(SUBSET Messages)
      BY <1>1, SubSeqProperties
    <2> QED
      BY <2>1 DEF Unfinished
  <1> QED
    BY <1>1 DEF Unfinished

\* Whatever is left on its stack, a task that goes on is sound.
LEMMA ResumeIsTask ==
  ASSUME NEW t, NEW lists \in Seq(SUBSET Messages)
  PROVE  /\ Resume(lists) \in Task /\ Sound(t, Resume(lists))
         /\ Sound(t, Resume(lists))'
         /\ Resume(lists).pc \in {"idle", "next"}
  <1> DEFINE rest == Unfinished(lists)
             next == [Idle EXCEPT !.pc = "next", !.lists = rest]
  <1>1. rest \in Seq(SUBSET Messages)
    BY UnfinishedIsLists
  <1>2. CASE rest = <<>>
    BY <1>2, IdleIsTask DEF Resume, Sound, Idle
  <1>3. CASE rest # <<>>
    <2>1. next \in Task /\ next.pc = "next" /\ next.lists = rest
      BY <1>1 DEF Idle, Task, PC
    <2>2. Resume(lists) = next
      BY <1>3 DEF Resume
    <2> QED
      BY <1>3, <2>1, <2>2 DEF Sound
  <1> QED
    BY <1>2, <1>3

\* A step of one task that may mark its message and count a failure.
LEMMA BecomeKeepsIInv ==
  ASSUME IInv, NEW t \in Tasks, NEW x \in Task, Become(t, x), Sound(t, x),
         row' \in [Messages -> MessagePublishStatus \cup {NotRecorded}],
         \A m \in Messages : row'[m] = "PUBLISHED" /\ losses = 0 => Written(m),
         timers' \in [Replicas -> Nat], failures' \in 0..MaxFailures,
         UNCHANGED <<received, conn, channel, isChannelOpen, losses>>
  PROVE  IInv'
  <1> USE DEF IInv, Become
  <1>1. TypeOK'
    BY DEF TypeOK
  <1>2. \A p \in Tasks : Sound(p, task[p])'
    <2> SUFFICES ASSUME NEW p \in Tasks PROVE Sound(p, task[p])'
      OBVIOUS
    <2>1. task'[p] = task[p] \/ (p = t /\ task'[p] = x)
      BY DEF TypeOK
    <2>2. Sound(p, task'[p])
      BY <2>1
    <2> QED
      BY <2>2 DEF Sound, Written
  <1>3. FlagIsTruthful' /\ ClosedIsEmpty' /\ NothingLost'
    BY DEF FlagIsTruthful, ClosedIsEmpty, NothingLost
  <1>4. PublishedWasWritten'
    BY DEF PublishedWasWritten, PublishedIsOnItsWay, Written
  <1> QED
    BY <1>1, <1>2, <1>3, <1>4

-----------------------------------------------------------------------------
\* The steps of a task that leave the connections alone.

\* A list that a task takes up holds messages.
LEMMA TakeUpKeepsIInv ==
  ASSUME IInv, NEW t \in Tasks, NEW lists \in Seq(SUBSET Messages), Become(t, Resume(lists)),
         row' \in [Messages -> MessagePublishStatus \cup {NotRecorded}],
         \A m \in Messages : row'[m] = "PUBLISHED" /\ losses = 0 => Written(m),
         timers' \in [Replicas -> Nat], failures' \in 0..MaxFailures,
         UNCHANGED <<received, conn, channel, isChannelOpen, losses>>
  PROVE  IInv'
  BY ResumeIsTask, BecomeKeepsIInv

\* What is PUBLISHED is written, as PublishedWasWritten says.
LEMMA PublishedIsWritten ==
  ASSUME IInv, NEW m \in Messages, row[m] = "PUBLISHED", losses = 0
  PROVE  Written(m)
  BY DEF IInv, PublishedWasWritten, PublishedIsOnItsWay, Written

\* A task of its own accord: a request, the cron job, a timer.
LEMMA StartKeepsIInv ==
  ASSUME IInv, NEW t \in Tasks,
         \/ \E m \in Messages : Record(t, m)
         \/ publishPendingMessagesJob(t)
         \/ reconnect(t)
  PROVE  IInv'
  <1>1. ASSUME NEW m \in Messages, Record(t, m)
        PROVE  IInv'
    <2> USE <1>1 DEF Record
    <2>1. <<{m}>> \in Seq(SUBSET Messages)
      OBVIOUS
    <2>2. row' \in [Messages -> MessagePublishStatus \cup {NotRecorded}]
      BY DEF IInv, TypeOK, MessagePublishStatus
    <2>3. \A n \in Messages : row'[n] = "PUBLISHED" => row[n] = "PUBLISHED"
      BY DEF IInv, TypeOK
    <2> QED
      BY <2>1, <2>2, <2>3, PublishedIsWritten, TakeUpKeepsIInv DEF IInv, TypeOK
  <1>2. CASE publishPendingMessagesJob(t)
    <2>1. <<Pending>> \in Seq(SUBSET Messages)
      BY DEF Pending
    <2> QED
      BY <1>2, <2>1, PublishedIsWritten, TakeUpKeepsIInv DEF publishPendingMessagesJob, IInv, TypeOK
  <1>3. CASE reconnect(t)
    <2> USE <1>3 DEF reconnect
    <2> DEFINE x == [task[t] EXCEPT !.pc = "connect"]
    <2>1. x \in Task /\ Sound(t, x)
      <3>1. task[t] \in Task
        BY DEF IInv, TypeOK
      <3>2. x \in Task /\ x.pc = "connect"
        BY <3>1 DEF Task, PC
      <3> QED
        BY <3>2 DEF Sound
    <2>2. Become(t, x)
      BY DEF Goto, Become
    <2>3. timers' \in [Replicas -> Nat]
      BY ReplicaOfTask DEF IInv, TypeOK
    <2> QED
      BY <2>1, <2>2, <2>3, PublishedIsWritten, BecomeKeepsIInv DEF IInv, TypeOK
  <1> QED
    BY <1>1, <1>2, <1>3

\* The next message of the innermost list.
LEMMA PublishNextKeepsIInv ==
  ASSUME IInv, NEW t \in Tasks, PublishNext(t)
  PROVE  IInv'
  <1> USE DEF PublishNext
  <1> DEFINE lists == task[t].lists
             top   == Len(lists)
  <1>1. /\ lists \in Seq(SUBSET Messages) /\ lists # <<>>
        /\ top \in 1..Len(lists)
    BY DEF IInv, TypeOK, Task, Sound
  <1>2. PICK m \in lists[top] :
          Become(t, IF ChannelUsable(t[1])
                    THEN [pc |-> "assert", msg |-> m, on |-> channel[t[1]],
                          lists |-> [lists EXCEPT ![top] = lists[top] \ {m}]]
                    ELSE [pc |-> "connect", msg |-> NoMsg, on |-> NoConn,
                          lists |-> [lists EXCEPT ![top] = lists[top] \ {m}]])
    OBVIOUS
  <1> DEFINE rest == [lists EXCEPT ![top] = lists[top] \ {m}]
  <1>3. m \in Messages /\ lists[top] \ {m} \in SUBSET Messages
    BY <1>1
  <1>4. rest \in Seq(SUBSET Messages) /\ rest # <<>>
    BY <1>1, <1>3
  <1>5. PICK x \in Task : Become(t, x) /\ Sound(t, x)
    <2>1. CASE ChannelUsable(t[1])
      <3> DEFINE y == [pc |-> "assert", msg |-> m, on |-> channel[t[1]], lists |-> rest]
      <3>1. channel[t[1]] \in Conns
        BY <2>1, ReplicaOfTask DEF ChannelUsable, IInv, TypeOK
      <3>2. y \in Task
        BY <1>3, <1>4, <3>1 DEF Task, PC
      <3>3. Sound(t, y)
        BY <1>3, <1>4, <3>1, ConstantsAssumption DEF Sound
      <3> QED
        BY <1>2, <2>1, <3>2, <3>3
    <2>2. CASE ~ChannelUsable(t[1])
      <3> DEFINE y == [pc |-> "connect", msg |-> NoMsg, on |-> NoConn, lists |-> rest]
      <3>1. y \in Task
        BY <1>4 DEF Task, PC
      <3>2. Sound(t, y)
        BY DEF Sound
      <3> QED
        BY <1>2, <2>2, <3>1, <3>2
    <2> QED
      BY <2>1, <2>2
  <1> QED
    BY <1>5, PublishedIsWritten, BecomeKeepsIInv DEF IInv, TypeOK

\* The answer of assertQueue, or its rejection.
LEMMA AssertQueueKeepsIInv ==
  ASSUME IInv, NEW t \in Tasks, AssertQueue(t)
  PROVE  IInv'
  <1> USE DEF AssertQueue
  <1>1. PICK answer \in {"send", "failed"} :
          Become(t, [task[t] EXCEPT !.pc = answer, !.on = NoConn])
    OBVIOUS
  <1> DEFINE x == [task[t] EXCEPT !.pc = answer, !.on = NoConn]
  <1>2. task[t] \in Task /\ task[t].pc = "assert" /\ Sound(t, task[t])
    BY DEF IInv, TypeOK
  <1>3. x \in Task /\ x.pc = answer /\ x.msg = task[t].msg /\ x.lists = task[t].lists
    BY <1>2 DEF Task, PC
  <1>4. Sound(t, x)
    BY <1>2, <1>3 DEF Sound
  <1> QED
    BY <1>1, <1>3, <1>4, PublishedIsWritten, BecomeKeepsIInv DEF IInv, TypeOK

\* PUBLISHED is written to the row of a message that was sent.
LEMMA MarkKeepsIInv ==
  ASSUME IInv, NEW t \in Tasks, markMessageAsPublished(t) \/ markMessageAsFailed(t)
  PROVE  IInv'
  <1>1. PICK status \in {"PUBLISHED", "FAILED"} :
          Mark(t, status) /\ (status = "PUBLISHED" => task[t].pc = "published")
    BY DEF markMessageAsPublished, markMessageAsFailed
  <1>2. task[t].lists \in Seq(SUBSET Messages)
    BY DEF IInv, TypeOK, Task
  <1>3. row' \in [Messages -> MessagePublishStatus \cup {NotRecorded}]
    BY <1>1 DEF Mark, IInv, TypeOK, MessagePublishStatus
  <1>4. \A m \in Messages : row'[m] = "PUBLISHED" =>
          row[m] = "PUBLISHED" \/ (m = task[t].msg /\ status = "PUBLISHED")
    BY <1>1 DEF Mark, IInv, TypeOK
  <1>5. task[t].pc = "published" /\ losses = 0 => Written(task[t].msg)
    BY DEF IInv, Sound
  <1> QED
    BY <1>1, <1>2, <1>3, <1>4, <1>5, PublishedIsWritten, TakeUpKeepsIInv DEF Mark, IInv, TypeOK

\* A refused connection, and the list after a connect that succeeded.
LEMMA ListKeepsIInv ==
  ASSUME IInv, NEW t \in Tasks,
         ConnectFails(t) \/ ConnectRefused(t) \/ publishAllPendingMessages(t)
  PROVE  IInv'
  <1>1. task[t].lists \in Seq(SUBSET Messages)
    BY DEF IInv, TypeOK, Task
  <1>2. PICK lists \in Seq(SUBSET Messages) : Become(t, Resume(lists))
    <2>1. Append(Unfinished(task[t].lists), Pending) \in Seq(SUBSET Messages)
      BY <1>1, UnfinishedIsLists DEF Pending
    <2> QED
      BY <1>1, <2>1 DEF ConnectFails, ConnectRefused, publishAllPendingMessages
  <1>3. failures' \in 0..MaxFailures
    BY ConstantsAssumption DEF ConnectFails, ConnectRefused, publishAllPendingMessages, IInv, TypeOK
  <1> QED
    BY <1>2, <1>3, PublishedIsWritten, TakeUpKeepsIInv
       DEF ConnectFails, ConnectRefused, publishAllPendingMessages, IInv, TypeOK

\* A statement that fails ends a loop or turns a success into a failure.
LEMMA StatementFailsKeepsIInv ==
  ASSUME IInv, NEW t \in Tasks, StatementFails(t)
  PROVE  IInv'
  <1> USE DEF StatementFails
  <1> DEFINE lists == task[t].lists
  <1>1. /\ task[t] \in Task /\ lists \in Seq(SUBSET Messages) /\ Sound(t, task[t])
        /\ failures' \in 0..MaxFailures
    BY ConstantsAssumption DEF IInv, TypeOK, Task
  <1>2. CASE task[t].pc = "published" /\ Goto(t, "failed")
    <2> DEFINE x == [task[t] EXCEPT !.pc = "failed"]
    <2>1. x \in Task /\ x.pc = "failed" /\ x.msg = task[t].msg /\ x.lists = lists
      BY <1>1 DEF Task, PC
    <2>2. Sound(t, x)
      BY <1>1, <1>2, <2>1 DEF Sound
    <2> QED
      BY <1>1, <1>2, <2>1, <2>2, PublishedIsWritten, BecomeKeepsIInv DEF Goto, Become, IInv, TypeOK
  <1>3. CASE task[t].pc = "failed" /\ Become(t, Resume(SubSeq(lists, 1, Len(lists) - 1)))
    <2>1. lists # <<>>
      BY <1>1, <1>3 DEF Sound
    <2>2. SubSeq(lists, 1, Len(lists) - 1) \in Seq(SUBSET Messages)
      BY <1>1, <2>1, SubSeqProperties
    <2> QED
      BY <1>1, <1>3, <2>2, PublishedIsWritten, TakeUpKeepsIInv DEF IInv, TypeOK
  <1>4. CASE Become(t, Resume(lists))
    BY <1>1, <1>4, PublishedIsWritten, TakeUpKeepsIInv DEF IInv, TypeOK
  <1> QED
    BY <1>2, <1>3, <1>4

-----------------------------------------------------------------------------
\* The steps that change connections.

\* What a task may rely on stays true while its replica keeps its channel and
\* what is written is kept.
LEMMA StaysSound ==
  ASSUME NEW t \in Tasks, NEW x, Sound(t, x),
         channel[t[1]] # NoConn => channel'[t[1]] # NoConn,
         losses' = 0 => losses = 0 /\ \A m \in Messages : Written(m) => Written(m)'
  PROVE  Sound(t, x)'
  <1>1. /\ x.pc \in {"next", "assert", "send", "published", "failed"} => x.lists # <<>>
        /\ x.pc \in {"assert", "send", "published", "failed"} => x.msg \in Messages
    BY DEF Sound
  <1>2. x.pc \in {"assert", "send"} => channel'[t[1]] # NoConn
    BY DEF Sound
  <1>3. x.pc = "published" /\ losses' = 0 => Written(x.msg)'
    BY <1>1 DEF Sound
  <1> QED
    BY <1>1, <1>2, <1>3 DEF Sound

\* The part of the invariant that is about rows.
LEMMA StaysWritten ==
  ASSUME IInv, UNCHANGED row,
         losses' = 0 => losses = 0 /\ \A m \in Messages : Written(m) => Written(m)'
  PROVE  PublishedWasWritten'
  BY DEF IInv, PublishedWasWritten, PublishedIsOnItsWay, Written

\* What writing to a connection does to it.
LEMMA WriteToKeeps ==
  ASSUME IInv, NEW c \in Conns, NEW m \in Messages, WriteTo(c, m)
  PROVE  /\ conn' \in [Conns -> Connection]
         /\ \A d \in Conns : /\ conn'[d].state = conn[d].state /\ conn'[d].of = conn[d].of
                             /\ conn[d].buffer \subseteq conn'[d].buffer
                             /\ conn[d].state = "closed" => conn'[d] = conn[d]
         /\ conn[c].state = "up" => m \in conn'[c].buffer
  <1>1. conn \in [Conns -> Connection]
    BY DEF IInv, TypeOK
  <1>2. CASE conn[c].state = "up"
    <2>1. conn' = [conn EXCEPT ![c] = [conn[c] EXCEPT !.buffer = conn[c].buffer \cup {m}]]
      BY <1>2 DEF WriteTo
    <2>2. [conn[c] EXCEPT !.buffer = conn[c].buffer \cup {m}] \in Connection
      BY <1>1 DEF Connection
    <2>3. \A d \in Conns : conn'[d] = IF d = c THEN [conn[c] EXCEPT !.buffer = conn[c].buffer \cup {m}]
                                      ELSE conn[d]
      BY <1>1, <2>1
    <2> QED
      BY <1>1, <1>2, <2>1, <2>2, <2>3 DEF Connection
  <1>3. CASE conn[c].state # "up"
    BY <1>1, <1>3 DEF WriteTo
  <1> QED
    BY <1>2, <1>3

\* A message leaves a task for the buffer of the channel's connection.
LEMMA SendKeepsIInv ==
  ASSUME IInv, NEW t \in Tasks, SendToQueue(t) \/ SendReturnsFalse(t)
  PROVE  IInv'
  <1> DEFINE c == channel[t[1]]
             m == task[t].msg
  <1>1. /\ task[t] \in Task /\ Sound(t, task[t]) /\ task[t].pc = "send"
        /\ m \in Messages /\ c \in Conns
    BY ReplicaOfTask DEF IInv, TypeOK, Sound, SendToQueue, SendReturnsFalse
  <1>2. PICK pc \in {"published", "failed"} :
          /\ WriteTo(c, m) /\ Goto(t, pc)
          /\ pc = "published" => conn[c].state # "closed"
          /\ UNCHANGED <<row, received, channel, isChannelOpen, timers, losses>>
          /\ failures' \in 0..MaxFailures
    BY ConstantsAssumption DEF SendToQueue, SendReturnsFalse, IInv, TypeOK
  <1> DEFINE x == [task[t] EXCEPT !.pc = pc]
  <1>3. /\ x \in Task /\ x.pc = pc /\ x.msg = m /\ x.lists = task[t].lists
        /\ \A p \in Tasks : task'[p] = IF p = t THEN x ELSE task[p]
        /\ task' \in [Tasks -> Task]
    <2>1. x \in Task /\ x.pc = pc /\ x.msg = m /\ x.lists = task[t].lists
      BY <1>1 DEF Task, PC
    <2>2. task' = [task EXCEPT ![t] = x]
      BY <1>2 DEF Goto
    <2> QED
      BY <2>1, <2>2 DEF IInv, TypeOK
  <1>4. /\ conn' \in [Conns -> Connection]
        /\ \A d \in Conns : /\ conn'[d].state = conn[d].state /\ conn'[d].of = conn[d].of
                            /\ conn[d].buffer \subseteq conn'[d].buffer
                            /\ conn[d].state = "closed" => conn'[d] = conn[d]
        /\ conn[c].state = "up" => m \in conn'[c].buffer
    BY <1>1, <1>2, WriteToKeeps
  <1>5. TypeOK'
    BY <1>2, <1>3, <1>4 DEF IInv, TypeOK
  <1>6. \A n \in Messages : Written(n) => Written(n)'
    BY <1>2, <1>4 DEF Written
  <1>7. \A p \in Tasks : Sound(p, task[p])'
    <2> SUFFICES ASSUME NEW p \in Tasks PROVE Sound(p, task[p])'
      OBVIOUS
    <2>1. CASE p # t
      <3>1. Sound(p, task[p]) /\ task'[p] = task[p]
        BY <1>3, <2>1 DEF IInv
      <3> HIDE DEF x
      <3>2. channel'[p[1]] = channel[p[1]] /\ losses' = losses
        BY <1>2
      <3>3. \A y : Sound(p, y) => Sound(p, y)'
        BY <1>6, <3>2, StaysSound
      <3> QED
        BY <3>1, <3>3 DEF Sound
    <2>2. CASE p = t
      <3>1. conn[c].state \in {"up", "lost", "closed"}
        BY <1>1 DEF IInv, TypeOK, Connection
      <3>2. pc = "published" /\ losses = 0 => m \in conn'[c].buffer
        BY <1>1, <1>2, <1>4, <3>1 DEF IInv, NothingLost
      <3>3. x.lists # <<>>
        BY <1>1, <1>3 DEF Sound
      <3>4. task'[p] = x
        BY <1>3, <2>2
      <3> HIDE DEF x
      <3> QED
        BY <1>1, <1>2, <1>3, <2>2, <3>2, <3>3, <3>4 DEF Sound, Written
    <2> QED
      BY <2>1, <2>2
  <1>8. FlagIsTruthful' /\ ClosedIsEmpty' /\ NothingLost'
    BY <1>2, <1>4 DEF IInv, TypeOK, FlagIsTruthful, ClosedIsEmpty, NothingLost
  <1>9. PublishedWasWritten'
    BY <1>2, <1>6, StaysWritten
  <1> QED
    BY <1>5, <1>7, <1>8, <1>9 DEF IInv

\* A replica gets a new connection as its channel; the old one stays.
LEMMA ConnectKeepsIInv ==
  ASSUME IInv, NEW t \in Tasks, Connect(t)
  PROVE  IInv'
  <1> USE DEF Connect
  <1> DEFINE r == t[1]
             x == [task[t] EXCEPT !.pc = "list"]
             new == [state |-> "up", of |-> r, buffer |-> {}]
  <1>1. PICK c \in Conns : /\ Free(c, r)
                           /\ conn' = [conn EXCEPT ![c] = new]
                           /\ channel' = [channel EXCEPT ![r] = c]
    OBVIOUS
  <1>2. r \in Replicas /\ new \in Connection
    BY ReplicaOfTask DEF Connection
  <1>3. conn[c].state = "closed" /\ conn[c].buffer = {} /\ \A q \in Replicas \ {r} : channel[q] # c
    BY <1>1 DEF Free, IInv, ClosedIsEmpty
  <1>4. /\ \A d \in Conns : conn'[d] = IF d = c THEN new ELSE conn[d]
        /\ \A q \in Replicas : channel'[q] = IF q = r THEN c ELSE channel[q]
        /\ \A q \in Replicas : isChannelOpen'[q] = IF q = r THEN TRUE ELSE isChannelOpen[q]
    BY <1>1, <1>2 DEF IInv, TypeOK
  <1>5. x \in Task /\ x.pc = "list" /\ task' = [task EXCEPT ![t] = x]
    <2>1. task[t] \in Task
      BY DEF IInv, TypeOK
    <2>2. x \in Task /\ x.pc = "list"
      BY <2>1 DEF Task, PC
    <2> QED
      BY <2>2 DEF Goto
  <1>6. TypeOK'
    <2>1. conn' \in [Conns -> Connection] /\ channel' \in [Replicas -> Conns \cup {NoConn}]
      BY <1>1, <1>2 DEF IInv, TypeOK
    <2>2. task' \in [Tasks -> Task]
      BY <1>5 DEF IInv, TypeOK
    <2> QED
      BY <2>1, <2>2 DEF IInv, TypeOK
  <1>7. \A m \in Messages : Written(m) => Written(m)'
    BY <1>3, <1>4 DEF Written
  <1>8. \A p \in Tasks : Sound(p, task[p])'
    <2> SUFFICES ASSUME NEW p \in Tasks PROVE Sound(p, task[p])'
      OBVIOUS
    <2>1. CASE p # t
      <3>1. Sound(p, task[p]) /\ task'[p] = task[p]
        BY <1>5, <2>1 DEF IInv, TypeOK
      <3>2. channel[p[1]] # NoConn => channel'[p[1]] # NoConn
        BY <1>4, ReplicaOfTask, ConstantsAssumption
      <3>3. \A y : Sound(p, y) => Sound(p, y)'
        BY <1>7, <3>2, StaysSound
      <3> QED
        BY <3>1, <3>3 DEF Sound
    <2>2. CASE p = t
      <3>1. task'[p] = x
        BY <1>5, <2>2 DEF IInv, TypeOK
      <3> HIDE DEF x
      <3> QED
        BY <1>5, <3>1 DEF Sound
    <2> QED
      BY <2>1, <2>2
  <1>9. FlagIsTruthful'
    BY <1>3, <1>4, ConstantsAssumption DEF IInv, TypeOK, FlagIsTruthful
  <1>10. ClosedIsEmpty' /\ NothingLost'
    BY <1>4 DEF IInv, ClosedIsEmpty, NothingLost
  <1>11. PublishedWasWritten'
    BY <1>7, StaysWritten
  <1> QED
    BY <1>6, <1>8, <1>9, <1>10, <1>11 DEF IInv

\* A broken connection is lost, then noticed; an unbroken one delivers.
LEMMA ConnectionKeepsIInv ==
  ASSUME IInv, NEW c \in Conns,
         CloseEvent(c) \/ LoseConnection(c) \/ \E m \in Messages : Receive(c, m)
  PROVE  IInv'
  <1>1. conn[c] \in Connection /\ conn[c].state \in {"up", "lost", "closed"}
    BY DEF IInv, TypeOK, Connection
  <1>2. ASSUME NEW k \in Connection, conn' = [conn EXCEPT ![c] = k],
               k.state = "closed" => k.buffer = {},
               UNCHANGED <<row, channel, task>>, received' \subseteq Messages,
               isChannelOpen' \in [Replicas -> BOOLEAN], timers' \in [Replicas -> Nat],
               losses' \in 0..MaxLosses, UNCHANGED failures,
               \A r \in Replicas : isChannelOpen'[r] =>
                 isChannelOpen[r] /\ (channel[r] = c => k.state \in {"up", "lost"} /\ k.of = r),
               losses' = 0 => /\ losses = 0 /\ k.state # "lost"
                              /\ received \subseteq received'
                              /\ conn[c].buffer \subseteq k.buffer \cup received'
        PROVE  IInv'
    <2>1. \A d \in Conns : conn'[d] = IF d = c THEN k ELSE conn[d]
      BY <1>2 DEF IInv, TypeOK
    <2>2. TypeOK'
      BY <1>2 DEF IInv, TypeOK
    <2>3. losses' = 0 => losses = 0 /\ \A m \in Messages : Written(m) => Written(m)'
      BY <1>2, <2>1 DEF Written
    <2>4. \A p \in Tasks : Sound(p, task[p])'
      <3> SUFFICES ASSUME NEW p \in Tasks PROVE Sound(p, task[p])'
        OBVIOUS
      <3>1. Sound(p, task[p]) /\ task'[p] = task[p] /\ channel'[p[1]] = channel[p[1]]
        BY <1>2 DEF IInv
      <3>2. \A y : Sound(p, y) => Sound(p, y)'
        BY <2>3, <3>1, StaysSound
      <3> QED
        BY <3>1, <3>2 DEF Sound
    <2>5. FlagIsTruthful'
      BY <1>2, <2>1 DEF IInv, TypeOK, FlagIsTruthful
    <2>6. ClosedIsEmpty' /\ NothingLost'
      BY <1>2, <2>1 DEF IInv, ClosedIsEmpty, NothingLost
    <2>7. PublishedWasWritten'
      BY <1>2, <2>3, StaysWritten
    <2> QED
      BY <2>2, <2>4, <2>5, <2>6, <2>7 DEF IInv
  <1>3. CASE CloseEvent(c)
    <2> USE <1>3 DEF CloseEvent
    <2> DEFINE r == conn[c].of
    <2>1. Closed \in Connection /\ Closed.state = "closed" /\ Closed.buffer = {}
      BY DEF Closed, Connection
    <2>2. losses # 0
      BY DEF IInv, NothingLost
    <2>3. isChannelOpen' \in [Replicas -> BOOLEAN] /\ timers' \in [Replicas -> Nat]
      <3>1. isChannelOpen \in [Replicas -> BOOLEAN] /\ timers \in [Replicas -> Nat]
        BY DEF IInv, TypeOK
      <3>2. timers' = [timers EXCEPT ![r] = timers[r] + 1]
        OBVIOUS
      <3>3. CASE r \in Replicas
        BY <3>1, <3>2, <3>3
      <3>4. CASE r \notin Replicas
        BY <3>1, <3>2, <3>4
      <3> QED
        BY <3>1, <3>3, <3>4
    <2>4. \A q \in Replicas : isChannelOpen'[q] => isChannelOpen[q] /\ q # r
      BY DEF IInv, TypeOK
    <2>5. \A q \in Replicas : isChannelOpen[q] /\ channel[q] = c => q = r
      BY DEF IInv, FlagIsTruthful
    <2> QED
      BY <1>2, <2>1, <2>2, <2>3, <2>4, <2>5 DEF IInv, TypeOK
  <1>4. CASE LoseConnection(c)
    <2> USE <1>4 DEF LoseConnection
    <2> DEFINE k == [conn[c] EXCEPT !.state = "lost", !.buffer = {}]
    <2>1. k \in Connection /\ k.state = "lost" /\ k.of = conn[c].of
      BY <1>1 DEF Connection
    <2>2. conn' = [conn EXCEPT ![c] = k]
      OBVIOUS
    <2>3. losses' \in 0..MaxLosses /\ losses' # 0
      BY ConstantsAssumption DEF IInv, TypeOK
    <2> HIDE DEF k
    <2>4. \A q \in Replicas : isChannelOpen[q] /\ channel[q] = c => k.of = q
      BY <2>1 DEF IInv, FlagIsTruthful
    <2> QED
      BY <1>2, <2>1, <2>2, <2>3, <2>4 DEF IInv, TypeOK
  <1>5. ASSUME NEW m \in Messages, Receive(c, m)
        PROVE  IInv'
    <2> USE <1>5 DEF Receive
    <2> DEFINE k == [conn[c] EXCEPT !.buffer = conn[c].buffer \ {m}]
    <2>1. /\ k \in Connection /\ k.state = "up" /\ k.of = conn[c].of
          /\ conn[c].buffer \subseteq k.buffer \cup {m}
      BY <1>1 DEF Connection
    <2>2. conn' = [conn EXCEPT ![c] = k]
      OBVIOUS
    <2> HIDE DEF k
    <2>3. \A q \in Replicas : isChannelOpen[q] /\ channel[q] = c => k.of = q
      BY <2>1 DEF IInv, FlagIsTruthful
    <2>4. received' = received \cup {m} /\ received' \subseteq Messages
      BY DEF IInv, TypeOK
    <2> QED
      BY <1>2, <2>1, <2>2, <2>3, <2>4 DEF IInv, TypeOK
  <1> QED
    BY <1>3, <1>4, <1>5

\* A replica starts anew.
LEMMA CrashKeepsIInv ==
  ASSUME IInv, NEW r \in Replicas, Crash(r)
  PROVE  IInv'
  <1> USE DEF Crash
  <1>1. losses' \in 0..MaxLosses /\ losses' # 0
    BY ConstantsAssumption DEF IInv, TypeOK
  <1>2. Closed \in Connection /\ Closed.state = "closed" /\ Closed.buffer = {}
    BY DEF Closed, Connection
  <1>3. TypeOK'
    BY <1>1, <1>2, IdleIsTask DEF IInv, TypeOK
  <1>4. \A p \in Tasks : Sound(p, task[p])'
    <2> SUFFICES ASSUME NEW p \in Tasks PROVE Sound(p, task[p])'
      OBVIOUS
    <2>1. CASE p[1] = r
      <3>1. task'[p] = Idle
        BY <2>1
      <3> QED
        BY <3>1 DEF Sound, Idle
    <2>2. CASE p[1] # r
      <3>1. /\ Sound(p, task[p]) /\ task'[p] = task[p]
            /\ channel'[p[1]] = channel[p[1]]
        BY <2>2, ReplicaOfTask DEF IInv, TypeOK
      <3> QED
        BY <1>1, <3>1 DEF Sound
    <2> QED
      BY <2>1, <2>2
  <1>5. FlagIsTruthful'
    <2> SUFFICES ASSUME NEW q \in Replicas, isChannelOpen'[q]
                 PROVE  /\ channel'[q] # NoConn
                        /\ conn'[channel'[q]].state \in {"up", "lost"}
                        /\ conn'[channel'[q]].of = q
      BY DEF FlagIsTruthful
    <2>1. q # r /\ isChannelOpen[q] /\ channel'[q] = channel[q]
      BY DEF IInv, TypeOK
    <2>2. channel[q] \in Conns /\ conn[channel[q]].of = q /\ conn[channel[q]].state \in {"up", "lost"}
      BY <2>1 DEF IInv, TypeOK, FlagIsTruthful
    <2>3. conn'[channel[q]] = conn[channel[q]]
      BY <2>1, <2>2
    <2> QED
      BY <2>1, <2>2, <2>3, ConstantsAssumption
  <1>6. ClosedIsEmpty'
    BY <1>2 DEF IInv, ClosedIsEmpty
  <1>7. NothingLost' /\ PublishedWasWritten'
    BY <1>1 DEF NothingLost, PublishedWasWritten
  <1> QED
    BY <1>3, <1>4, <1>5, <1>6, <1>7 DEF IInv

\* captureVmIpJob's message.
LEMMA RecordOnlyKeepsIInv ==
  ASSUME IInv, NEW m \in Messages, RecordOnly(m)
  PROVE  IInv'
  <1> USE DEF RecordOnly
  <1>1. TypeOK'
    BY DEF IInv, TypeOK, MessagePublishStatus
  <1>2. PublishedWasWritten'
    BY DEF IInv, TypeOK, PublishedWasWritten, PublishedIsOnItsWay
  <1> QED
    BY <1>1, <1>2 DEF IInv, Sound, Written, FlagIsTruthful, ClosedIsEmpty, NothingLost

-----------------------------------------------------------------------------
LEMMA IInvHoldsInitially == Init => IInv
  <1> SUFFICES ASSUME Init PROVE IInv
    OBVIOUS
  <1> USE DEF Init
  <1>1. Closed \in Connection /\ Closed.state = "closed" /\ Closed.buffer = {}
    BY DEF Closed, Connection
  <1>2. TypeOK
    BY <1>1, IdleIsTask, ConstantsAssumption DEF TypeOK
  <1>3. \A t \in Tasks : Sound(t, task[t])
    BY IdleIsSound
  <1>4. PublishedWasWritten
    BY DEF PublishedWasWritten, PublishedIsOnItsWay, NotRecorded
  <1> QED
    BY <1>1, <1>2, <1>3, <1>4 DEF IInv, FlagIsTruthful, ClosedIsEmpty, NothingLost

LEMMA IInvIsInductive == IInv /\ [Next]_vars => IInv'
  <1> SUFFICES ASSUME IInv, [Next]_vars PROVE IInv'
    OBVIOUS
  <1>1. \A r \in Replicas : /\ \A s \in Requests : <<r, s>> \in Tasks
                            /\ \A s \in CronRuns : <<r, s>> \in Tasks
                            /\ \A s \in Reconnects : <<r, s>> \in Tasks
    BY DEF Tasks
  <1>2. CASE \E r \in Replicas :
               \/ \E s \in Requests, m \in Messages : Record(<<r, s>>, m)
               \/ \E s \in CronRuns : publishPendingMessagesJob(<<r, s>>)
               \/ \E s \in Reconnects : reconnect(<<r, s>>)
               \/ Crash(r)
    BY <1>1, <1>2, StartKeepsIInv, CrashKeepsIInv
  <1>3. CASE \E m \in Messages : RecordOnly(m)
    BY <1>3, RecordOnlyKeepsIInv
  <1>4. CASE \E t \in Tasks : Proceed(t) \/ Fail(t)
    BY <1>4, PublishNextKeepsIInv, AssertQueueKeepsIInv, SendKeepsIInv, MarkKeepsIInv,
       ConnectKeepsIInv, ListKeepsIInv, StatementFailsKeepsIInv DEF Proceed, Fail
  <1>5. CASE \E c \in Conns : \/ CloseEvent(c) \/ LoseConnection(c)
                              \/ \E m \in Messages : Receive(c, m)
    BY <1>5, ConnectionKeepsIInv
  <1>6. CASE UNCHANGED vars
    BY <1>6 DEF vars, IInv, TypeOK, Sound, Written, FlagIsTruthful, ClosedIsEmpty, NothingLost,
                PublishedWasWritten, PublishedIsOnItsWay, Free
  <1> QED
    BY <1>2, <1>3, <1>4, <1>5, <1>6 DEF Next

LEMMA Inductive == Spec => []IInv
  BY IInvHoldsInitially, IInvIsInductive, PTL DEF Spec

\* Rows, connections and tasks keep their shape.
THEOREM TypeCorrect == Spec => []TypeOK
  <1>1. IInv => TypeOK
    BY DEF IInv
  <1> QED
    BY <1>1, Inductive, PTL

\* However many tasks of a replica connect at the same time and whichever of
\* their connections break, a set flag means a connection that is not closed.
THEOREM FlagAlwaysTruthful == Spec => []FlagIsTruthful
  <1>1. IInv => FlagIsTruthful
    BY DEF IInv
  <1> QED
    BY <1>1, Inductive, PTL

\* Without broken connections and crashes, no interleaving of tasks marks a
\* message PUBLISHED that was not written to a connection.
THEOREM PublishedAlwaysWritten == Spec => []PublishedWasWritten
  <1>1. IInv => PublishedWasWritten
    BY DEF IInv
  <1> QED
    BY <1>1, Inductive, PTL
=============================================================================
