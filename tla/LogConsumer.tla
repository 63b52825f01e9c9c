---------------------------- MODULE LogConsumer ----------------------------
(***************************************************************************)
(* The log consumer (provision-log-queue-consumer-pod/consumer.ts): every  *)
(* line of the queue vm_provisioning_progress is posted to the REST        *)
(* service and acknowledged when the service answers.  There is no         *)
(* prefetch limit: all lines of the queue are posted at the same time and  *)
(* the service gets them in any order.                                     *)
(***************************************************************************)
EXTENDS Naturals

CONSTANTS
  Lines,      \* the lines that may come
  MaxFaults   \* bound on faults

VARIABLES
  progress,  \* lines in the queue
  held,      \* lines delivered to the consumer that it will not acknowledge
  answered,  \* lines the service answered with 200
  faults     \* faults so far

vars == <<progress, held, answered, faults>>

Fail == faults < MaxFaults /\ faults' = faults + 1

Init == progress = {} /\ held = {} /\ answered = {}

\* Posted, processed, answered, acknowledged.
Forward(l) ==
  /\ l \in progress
  /\ progress' = progress \ {l}
  /\ answered' = answered \cup {l}
  /\ UNCHANGED <<held, faults>>

\* The service is done with the line, but its answer does not arrive: the line
\* is processed again after a redelivery.
AnswerLost(l) ==
  /\ l \in progress
  /\ Fail
  /\ progress' = progress \ {l}
  /\ held' = held \cup {l}
  /\ UNCHANGED answered

\* Mutant: the consumer acknowledges the line although the post failed.
AcknowledgeFailed(l) ==
  /\ l \in progress
  /\ Fail
  /\ progress' = progress \ {l}
  /\ UNCHANGED <<held, answered>>

\* The service is unreachable or answers with an error: caught and logged, the
\* line neither acknowledged nor rejected.
PostFails(l) ==
  /\ l \in progress
  /\ Fail
  /\ progress' = progress \ {l}
  /\ held' = held \cup {l}
  /\ UNCHANGED answered

\* The service catches the error of a statement of its own and answers 200.
Swallow(l) ==
  /\ l \in progress
  /\ Fail
  /\ progress' = progress \ {l}
  /\ answered' = answered \cup {l}
  /\ UNCHANGED held

\* The consumer dies, or the broker closes its channel because a delivery was
\* not acknowledged for too long (no handler: the process ends).  The consumer
\* that is started next gets what was not acknowledged.
Redeliver ==
  /\ held # {}
  /\ progress' = progress \cup held
  /\ held' = {}
  /\ UNCHANGED <<answered, faults>>
=============================================================================
