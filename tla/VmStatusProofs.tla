--------------------------- MODULE VmStatusProofs ---------------------------
(***************************************************************************)
(* What the table of statuses and the classification of log lines          *)
(* guarantee, whoever applies them: VmLifecycle to rows that handlers read *)
(* and write in two statements, Pipeline to the lines of real Jobs.        *)
(***************************************************************************)
EXTENDS VmStatus, TLAPS

\* The statuses no log line or callback leads to.
Uncounted == {"UNKNOWN"} \cup Halted

\* The statuses that only a job started by a DESTROY message leads to.
Terminal == {"DESTROYING", "DESTROYED"}

-----------------------------------------------------------------------------
(* The table and the classification.                                       *)

\* No entry of the table leads to UNKNOWN, and what it leads to is a status.
LEMMA TableShape ==
  \A s \in VmStatus : validNextStates[s] \subseteq VmStatus \ {"UNKNOWN"}
  <1> USE DEF VmStatus, Halted, Leaving, Ready
  <1> DEFINE Entries == {"TO_BE_PROVISIONED", "PLANNING", "PLANNING_COMPLETED", "PROVISIONING"}
                          \cup Provisioned \cup Ready \cup Halted \cup Leaving
  <1>1. Entries \subseteq VmStatus \ {"UNKNOWN"}
    BY DEF Provisioned
  <1>2. ASSUME NEW s \in VmStatus
        PROVE  validNextStates[s] \subseteq Entries
    BY DEF validNextStates, Existing
  <1> QED
    BY <1>1, <1>2

\* findNextVmState answers the current status or the one asked for, and the
\* latter only if the table has it.
LEMMA FindNext ==
  ASSUME NEW c \in VmStatus, NEW n \in VmStatus
  PROVE  /\ findNextVmState(c, n) \in {c, n} \cap VmStatus
         /\ findNextVmState(c, n) # c => n \in validNextStates[c] /\ n # "UNKNOWN"
  BY TableShape DEF findNextVmState

\* What a log line can ask for: never STOPPED, SHUTDOWN or RUNNING, and the
\* end of the machine only if a destroy job emitted it.
LEMMA LogStatus ==
  ASSUME NEW action \in JobAction, NEW ips, NEW log \in JobLog(ips)[action]
  PROVE  LET r == findStatusFromProvisionLog(log, action)
         IN  /\ r.status \in (VmStatus \ Halted) \cup {Undefined}
             /\ r.ip \in ips \cup {Undefined}
             /\ r.status \in Leaving => action = DESTROY
             /\ r.status # "RUNNING"
  <1> USE DEF CREATE, DESTROY, REFRESH
  <1>1. /\ log.ip \in ips \cup {Undefined}
        /\ log.kind \in JobKinds[action]
    BY DEF JobLog, JobAction
  <1>2. CASE action = CREATE
    BY <1>1, <1>2
    DEF findStatusFromProvisionLog, DestroyCompleted, statusOfKind, JobKinds, LogKind,
       Undefined,
       VmStatus, Halted, Leaving, Ready, Terminal
  <1>3. CASE action = DESTROY
    BY <1>1, <1>3
    DEF findStatusFromProvisionLog, DestroyCompleted, statusOfKind, JobKinds, LogKind,
       Undefined,
       VmStatus, Halted, Leaving, Ready, Terminal
  <1>4. CASE action = REFRESH
    BY <1>1, <1>4
    DEF findStatusFromProvisionLog, DestroyCompleted, statusOfKind, JobKinds, LogKind,
       Undefined,
       VmStatus, Halted, Leaving, Ready, Terminal
  <1> QED
    BY <1>2, <1>3, <1>4 DEF JobAction

-----------------------------------------------------------------------------
(* The phases of VmPhases.                                                 *)

\* The table keeps the phases, if only a machine on its way out is DESTROYING
\* or DESTROYED.
LEMMA TableKeepsPhases ==
  ASSUME NEW c \in VmStatus \ Uncounted, NEW n \in validNextStates[c] \ Uncounted,
         n \in Terminal => c \in Leaving
  PROVE  /\ c \in Leaving => n \in Leaving
         /\ \/ PhaseOf(n) = PhaseOf(c)
            \/ PhaseOf(c) = "provisioning" /\ PhaseOf(n) = "usable"
            \/ PhaseOf(c) # "absent" /\ PhaseOf(n) = "leaving"
            \/ PhaseOf(c) = "leaving" /\ PhaseOf(n) = "gone"
  BY DEF PhaseOf, validNextStates, VmStatus, Halted, Leaving, Ready, Provisioned, Existing,
     Usable, Terminal, Uncounted, NotCreated

\* The phases of the statuses that actions name.
LEMMA PhaseValues ==
  /\ PhaseOf(NotCreated) = "absent"
  /\ PhaseOf("TO_BE_PROVISIONED") = "provisioning"
  /\ PhaseOf("TO_BE_DESTROYED") = "leaving"
  BY DEF PhaseOf, VmStatus, Usable, Leaving, Ready, Halted, NotCreated
=============================================================================
