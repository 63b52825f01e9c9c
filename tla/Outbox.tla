------------------------------- MODULE Outbox -------------------------------
(***************************************************************************)
(* The message table and its way into RabbitMQ: publishMessage and         *)
(* publishAllPendingMessages (rest/src/services/messageQueueService.ts),   *)
(* connectToRabbitMQ with its close handler (rest/src/utils/queueUtils.ts) *)
(* and publishPendingMessagesJob.                                          *)
(*                                                                         *)
(* Everything a replica does here runs in tasks that interleave at their   *)
(* awaits: the requests that publish what they recorded, the cron runs     *)
(* (croner lets a run overlap the one before) and the reconnects.  They    *)
(* share the replica's channel and its isChannelOpen flag; the replicas    *)
(* share the table.  publishMessage on a closed channel reconnects, which  *)
(* lists and publishes all pending messages, which calls publishMessage:   *)
(* a task holds a stack of lists, each as old as its call.                 *)
(***************************************************************************)
EXTENDS Naturals, Sequences

CONSTANTS
  Messages,     \* ids of message rows
  Replicas,     \* processes of the REST service
  Requests,     \* request handlers in progress, per replica
  CronRuns,     \* runs of publishPendingMessagesJob in progress, per replica
  Reconnects,   \* calls of connectToRabbitMQ by a timer, per replica
  Conns,        \* the connections the broker takes at the same time
  NoConn,       \* a null channel
  NoMsg,        \* the message of a task that has none in hand
  MaxLosses,    \* bound on broken connections and crashes
  MaxFailures   \* bound on the failures that break nothing

ASSUME ConstantsAssumption ==
  /\ NoConn \notin Conns
  /\ NoMsg \notin Messages
  /\ MaxLosses \in Nat
  /\ MaxFailures \in Nat

VARIABLES
  row,            \* the status of each message row
  received,       \* the messages the broker has received
  conn,           \* the connections
  channel,        \* per replica, the connection of its channel
  isChannelOpen,  \* per replica
  timers,         \* per replica, reconnect timers that have not fired
  task,           \* per replica and slot
  losses,         \* connections broken and replicas crashed so far
  failures        \* other failures so far

\* The three sets of slots may share elements, which serve either purpose.
Tasks == Replicas \X (Requests \cup CronRuns \cup Reconnects)

vars == <<row, received, conn, channel, isChannelOpen, timers, task, losses, failures>>

-----------------------------------------------------------------------------
NotRecorded == "NOT_RECORDED"
MessagePublishStatus == {"PENDING", "PUBLISHED", "FAILED"}

\* Mutant: what failed once is not listed again.
OnlyPending == {m \in Messages : row[m] = "PENDING"}

\* Mutant: what no request has tried to publish is not listed.
OnlyFailed == {m \in Messages : row[m] = "FAILED"}

\* getAllPendingMessages.
Pending == {m \in Messages : row[m] \in {"PENDING", "FAILED"}}

(***************************************************************************)
(* A connection is up, or lost (broken, but its process has not noticed),  *)
(* or closed.  What was written to it and has not reached the broker is in *)
(* its buffer; amqplib's confirms, which would tell, are never awaited.    *)
(***************************************************************************)
Connection == [state : {"up", "lost", "closed"}, of : Replicas \cup {NoConn},
               buffer : SUBSET Messages]

Closed == [state |-> "closed", of |-> NoConn, buffer |-> {}]

(***************************************************************************)
(* A task: its next step, the message in hand, the connection whose answer *)
(* to assertQueue it awaits, and the rest of each list it is working off,  *)
(* the innermost last.                                                     *)
(***************************************************************************)
PC == {"idle", "next", "assert", "send", "published", "failed", "connect", "list"}

Task == [pc : PC, msg : Messages \cup {NoMsg}, on : Conns \cup {NoConn},
         lists : Seq(SUBSET Messages)]

Idle == [pc |-> "idle", msg |-> NoMsg, on |-> NoConn, lists |-> <<>>]

IsIdle(t) == task[t].pc = "idle"

\* Only the innermost list may have been worked off.
Unfinished(lists) ==
  LET top == Len(lists)
  IN  IF top > 0 /\ lists[top] = {} THEN SubSeq(lists, 1, top - 1) ELSE lists

\* The task goes on with its innermost list that is not empty, or ends.
Resume(lists) ==
  LET rest == Unfinished(lists)
  IN  IF rest = <<>> THEN Idle ELSE [Idle EXCEPT !.pc = "next", !.lists = rest]

Become(t, next) == task' = [task EXCEPT ![t] = next]
Goto(t, pc)     == task' = [task EXCEPT ![t].pc = pc]

\* A channel for which publishMessage does not reconnect.
ChannelUsable(r) == isChannelOpen[r] /\ channel[r] # NoConn

\* A connection object that nothing else refers to once r's channel moves to it.
Free(c, r) == /\ conn[c].state = "closed"
              /\ \A q \in Replicas \ {r} : channel[q] # c
              /\ \A t \in Tasks : task[t].on # c

-----------------------------------------------------------------------------
(* index.ts calls connectToRabbitMQ once at startup: a timer that is due.  *)
Init ==
  /\ row = [m \in Messages |-> NotRecorded]
  /\ received = {}
  /\ conn = [c \in Conns |-> Closed]
  /\ channel = [r \in Replicas |-> NoConn]
  /\ isChannelOpen = [r \in Replicas |-> FALSE]
  /\ timers = [r \in Replicas |-> 1]
  /\ task = [t \in Tasks |-> Idle]
  /\ losses = 0
  /\ failures = 0

\* A create or destroy request commits its message, then calls publishMessage.
Record(t, m) ==
  /\ IsIdle(t)
  /\ row[m] = NotRecorded
  /\ row' = [row EXCEPT ![m] = "PENDING"]
  /\ Become(t, Resume(<<{m}>>))
  /\ UNCHANGED <<received, conn, channel, isChannelOpen, timers, losses, failures>>

\* captureVmIpJob leaves the message to the cron job.
RecordOnly(m) ==
  /\ row[m] = NotRecorded
  /\ row' = [row EXCEPT ![m] = "PENDING"]
  /\ UNCHANGED <<received, conn, channel, isChannelOpen, timers, task, losses, failures>>

publishPendingMessagesJob(t) ==
  /\ IsIdle(t)
  /\ Become(t, Resume(<<Pending>>))
  /\ UNCHANGED <<row, received, conn, channel, isChannelOpen, timers, losses, failures>>

-----------------------------------------------------------------------------
(* publishMessage, from one await to the next.                             *)

\* Mutant: without a usable channel the message is marked as if it were sent.
PublishNextUnsent(t) ==
  LET r     == t[1]
      lists == task[t].lists
      top   == Len(lists)
  IN
  /\ task[t].pc = "next"
  /\ \E m \in lists[top] :
       LET rest == [lists EXCEPT ![top] = lists[top] \ {m}]
       IN  Become(t, IF ChannelUsable(r)
                     THEN [pc |-> "assert", msg |-> m, on |-> channel[r], lists |-> rest]
                     ELSE [pc |-> "published", msg |-> m, on |-> NoConn, lists |-> rest])
  /\ UNCHANGED <<row, received, conn, channel, isChannelOpen, timers, losses, failures>>

\* A message of the innermost list, by now possibly published by another task.
PublishNext(t) ==
  LET r     == t[1]
      lists == task[t].lists
      top   == Len(lists)
  IN
  /\ task[t].pc = "next"
  /\ \E m \in lists[top] :
       LET rest == [lists EXCEPT ![top] = lists[top] \ {m}]
       IN  Become(t, IF ChannelUsable(r)
                     THEN [pc |-> "assert", msg |-> m, on |-> channel[r], lists |-> rest]
                     ELSE [pc |-> "connect", msg |-> NoMsg, on |-> NoConn, lists |-> rest])
  /\ UNCHANGED <<row, received, conn, channel, isChannelOpen, timers, losses, failures>>

\* A lost connection does not answer, a closed one rejects the call.
AssertQueue(t) ==
  /\ task[t].pc = "assert"
  /\ conn[task[t].on].state # "lost"
  /\ LET answer == IF conn[task[t].on].state = "up" THEN "send" ELSE "failed"
     IN  Become(t, [task[t] EXCEPT !.pc = answer, !.on = NoConn])
  /\ UNCHANGED <<row, received, conn, channel, isChannelOpen, timers, losses, failures>>

\* The channel is read anew.  A lost connection takes the message for nobody.
WriteTo(c, m) == conn' = IF conn[c].state = "up"
                         THEN [conn EXCEPT ![c].buffer = conn[c].buffer \cup {m}]
                         ELSE conn

SendToQueue(t) ==
  LET c == channel[t[1]] IN
  /\ task[t].pc = "send"
  /\ WriteTo(c, task[t].msg)
  /\ Goto(t, IF conn[c].state = "closed" THEN "failed" ELSE "published")
  /\ UNCHANGED <<row, received, channel, isChannelOpen, timers, losses, failures>>

\* The write buffer is full: sendToQueue keeps the message and answers false.
SendReturnsFalse(t) ==
  LET c == channel[t[1]] IN
  /\ task[t].pc = "send"
  /\ conn[c].state # "closed"
  /\ failures < MaxFailures
  /\ failures' = failures + 1
  /\ WriteTo(c, task[t].msg)
  /\ Goto(t, "failed")
  /\ UNCHANGED <<row, received, channel, isChannelOpen, timers, losses>>

Mark(t, status) ==
  /\ row' = [row EXCEPT ![task[t].msg] = status]
  /\ Become(t, Resume(task[t].lists))
  /\ UNCHANGED <<received, conn, channel, isChannelOpen, timers, losses, failures>>

markMessageAsPublished(t) == task[t].pc = "published" /\ Mark(t, "PUBLISHED")
markMessageAsFailed(t)    == task[t].pc = "failed" /\ Mark(t, "FAILED")

\* publishMessage catches a failure of the first mark and tries the second;
\* a failure of that, or of the list, ends the innermost loop.
StatementFails(t) ==
  LET lists == task[t].lists IN
  /\ failures < MaxFailures
  /\ failures' = failures + 1
  /\ \/ task[t].pc = "published" /\ Goto(t, "failed")
     \/ task[t].pc = "failed" /\ Become(t, Resume(SubSeq(lists, 1, Len(lists) - 1)))
     \/ task[t].pc = "list" /\ Become(t, Resume(lists))
  /\ UNCHANGED <<row, received, conn, channel, isChannelOpen, timers, losses>>

-----------------------------------------------------------------------------
(* connectToRabbitMQ.  Nothing stops two tasks of a replica from           *)
(* connecting at the same time: the connection that loses its place as     *)
(* channel stays up, with its close handler.                               *)

Connect(t) ==
  LET r == t[1] IN
  /\ task[t].pc = "connect"
  /\ \E c \in Conns :
       /\ Free(c, r)
       /\ conn' = [conn EXCEPT ![c] = [state |-> "up", of |-> r, buffer |-> {}]]
       /\ channel' = [channel EXCEPT ![r] = c]
  /\ isChannelOpen' = [isChannelOpen EXCEPT ![r] = TRUE]
  /\ Goto(t, "list")
  /\ UNCHANGED <<row, received, timers, losses, failures>>

\* Caught and logged; the caller goes on with its next message.
ConnectFails(t) ==
  /\ task[t].pc = "connect"
  /\ failures < MaxFailures
  /\ failures' = failures + 1
  /\ Become(t, Resume(task[t].lists))
  /\ UNCHANGED <<row, received, conn, channel, isChannelOpen, timers, losses>>

\* The same, because the broker takes no further connection.
ConnectRefused(t) ==
  /\ task[t].pc = "connect"
  /\ \A c \in Conns : ~Free(c, t[1])
  /\ Become(t, Resume(task[t].lists))
  /\ UNCHANGED <<row, received, conn, channel, isChannelOpen, timers, losses, failures>>

\* publishAllPendingMessages, called by connectToRabbitMQ.
publishAllPendingMessages(t) ==
  /\ task[t].pc = "list"
  /\ Become(t, Resume(Append(Unfinished(task[t].lists), Pending)))
  /\ UNCHANGED <<row, received, conn, channel, isChannelOpen, timers, losses, failures>>

\* Mutant: the close handler leaves the flag as it is.
CloseUnnoticed(c) ==
  LET r == conn[c].of IN
  /\ conn[c].state = "lost"
  /\ conn' = [conn EXCEPT ![c] = Closed]
  /\ timers' = [timers EXCEPT ![r] = timers[r] + 1]
  /\ UNCHANGED <<row, received, channel, isChannelOpen, task, losses, failures>>

\* The close handler, which is the same for a channel's connection and for one
\* that lost its place.
CloseEvent(c) ==
  LET r == conn[c].of IN
  /\ conn[c].state = "lost"
  /\ conn' = [conn EXCEPT ![c] = Closed]
  /\ isChannelOpen' = [isChannelOpen EXCEPT ![r] = FALSE]
  /\ timers' = [timers EXCEPT ![r] = timers[r] + 1]
  /\ UNCHANGED <<row, received, channel, task, losses, failures>>

\* Mutant: a reconnect that no timer asked for.
ReconnectUnasked(t) ==
  LET r == t[1] IN
  /\ IsIdle(t)
  /\ timers' = [timers EXCEPT ![r] = timers[r] - 1]
  /\ Goto(t, "connect")
  /\ UNCHANGED <<row, received, conn, channel, isChannelOpen, losses, failures>>

reconnect(t) ==
  LET r == t[1] IN
  /\ IsIdle(t)
  /\ timers[r] > 0
  /\ timers' = [timers EXCEPT ![r] = timers[r] - 1]
  /\ Goto(t, "connect")
  /\ UNCHANGED <<row, received, conn, channel, isChannelOpen, losses, failures>>

-----------------------------------------------------------------------------
(* The broker and the network.                                             *)

Receive(c, m) ==
  /\ conn[c].state = "up"
  /\ m \in conn[c].buffer
  /\ conn' = [conn EXCEPT ![c].buffer = conn[c].buffer \ {m}]
  /\ received' = received \cup {m}
  /\ UNCHANGED <<row, channel, isChannelOpen, timers, task, losses, failures>>

LoseConnection(c) ==
  /\ conn[c].state = "up"
  /\ losses < MaxLosses
  /\ losses' = losses + 1
  /\ conn' = [conn EXCEPT ![c].state = "lost", ![c].buffer = {}]
  /\ UNCHANGED <<row, received, channel, isChannelOpen, timers, task, failures>>

\* A replica dies with its tasks and its connections, and is started again.
Crash(r) ==
  /\ losses < MaxLosses
  /\ losses' = losses + 1
  /\ conn' = [c \in Conns |-> IF conn[c].of = r THEN Closed ELSE conn[c]]
  /\ channel' = [channel EXCEPT ![r] = NoConn]
  /\ isChannelOpen' = [isChannelOpen EXCEPT ![r] = FALSE]
  /\ timers' = [timers EXCEPT ![r] = 1]
  /\ task' = [t \in Tasks |-> IF t[1] = r THEN Idle ELSE task[t]]
  /\ UNCHANGED <<row, received, failures>>

-----------------------------------------------------------------------------
\* The next step of a task in progress.
Proceed(t) ==
  \/ PublishNext(t) \/ AssertQueue(t) \/ SendToQueue(t)
  \/ markMessageAsPublished(t) \/ markMessageAsFailed(t)
  \/ Connect(t) \/ ConnectRefused(t) \/ publishAllPendingMessages(t)

Fail(t) == SendReturnsFalse(t) \/ StatementFails(t) \/ ConnectFails(t)

Next ==
  \/ \E r \in Replicas :
       \/ \E s \in Requests, m \in Messages : Record(<<r, s>>, m)
       \/ \E s \in CronRuns : publishPendingMessagesJob(<<r, s>>)
       \/ \E s \in Reconnects : reconnect(<<r, s>>)
       \/ Crash(r)
  \/ \E m \in Messages : RecordOnly(m)
  \/ \E t \in Tasks : Proceed(t) \/ Fail(t)
  \/ \E c \in Conns :
       \/ CloseEvent(c) \/ LoseConnection(c)
       \/ \E m \in Messages : Receive(c, m)

Spec == Init /\ [][Next]_vars

(***************************************************************************)
(* The event loop runs every continuation, croner starts the job every     *)
(* five seconds, timers fire, a broken connection is noticed by its        *)
(* heartbeat and an unbroken one delivers.  The bounds on losses and       *)
(* failures say that the broker and the database are reachable for long    *)
(* enough, in the end.                                                     *)
(***************************************************************************)
Fairness ==
  /\ \A t \in Tasks : WF_vars(Proceed(t))
  /\ \A t \in Replicas \X CronRuns : WF_vars(publishPendingMessagesJob(t))
  /\ \A t \in Replicas \X Reconnects : WF_vars(reconnect(t))
  /\ \A c \in Conns : WF_vars(CloseEvent(c)) /\ \A m \in Messages : WF_vars(Receive(c, m))

FairSpec == Spec /\ Fairness

-----------------------------------------------------------------------------
(* Properties.                                                             *)

\* The variables keep the shape that the schema and the code give them.
TypeOK ==
  /\ row \in [Messages -> MessagePublishStatus \cup {NotRecorded}]
  /\ received \subseteq Messages
  /\ conn \in [Conns -> Connection]
  /\ channel \in [Replicas -> Conns \cup {NoConn}]
  /\ isChannelOpen \in [Replicas -> BOOLEAN]
  /\ timers \in [Replicas -> Nat]
  /\ task \in [Tasks -> Task]
  /\ losses \in 0..MaxLosses
  /\ failures \in 0..MaxFailures

\* isChannelOpen never outlives the connection behind the channel: once the
\* replica has noticed that it is closed, publishMessage reconnects instead of
\* asserting and sending on it, however many connects overlapped.
FlagIsTruthful ==
  \A r \in Replicas : isChannelOpen[r] =>
    /\ channel[r] # NoConn
    /\ conn[channel[r]].state \in {"up", "lost"}
    /\ conn[channel[r]].of = r

\* A message marked PUBLISHED is with the broker or on its way there, so that
\* nobody has to send it again.
PublishedIsOnItsWay ==
  \A m \in Messages : row[m] = "PUBLISHED" =>
    m \in received \/ \E c \in Conns : m \in conn[c].buffer

\* The same as long as no connection broke and no replica crashed: refused
\* connects, full buffers, failed statements and lists read long ago do not
\* make the table claim what was not written to a connection.
PublishedWasWritten == losses = 0 => PublishedIsOnItsWay

\* A recorded message ends up PUBLISHED for good: no task that works off an
\* old list, and no failure between sending and marking, leaves it PENDING or
\* FAILED forever.
NoMessageStuck ==
  \A m \in Messages : row[m] # NotRecorded ~> [](row[m] = "PUBLISHED")

-----------------------------------------------------------------------------
Contract == INSTANCE AtLeastOnce
              WITH recorded <- {m \in Messages : row[m] # NotRecorded}

\* While no connection breaks and no replica crashes (MaxLosses = 0), every
\* recorded message gets to the broker, whatever else fails, and nothing gets
\* there that no transaction recorded.
ImplementsContract == Contract!Spec
=============================================================================
