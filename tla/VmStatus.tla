------------------------------ MODULE VmStatus ------------------------------
(***************************************************************************)
(* The status algebra of a virtual machine: the table of allowed           *)
(* transitions (rest/src/utils/vmStatusUtils.ts), the filter that applies  *)
(* it (findNextVmState) and the classification of terraform log lines      *)
(* (rest/src/services/tfLogService.ts).  Everything here is a pure         *)
(* function; VmLifecycle adds the rows, the handlers and their             *)
(* interleavings.                                                          *)
(***************************************************************************)

Halted  == {"STOPPED", "SHUTDOWN"}
Leaving == {"TO_BE_DESTROYED", "DESTROYING", "DESTROYED"}
Ready   == {"INITIALIZING", "RUNNING"}

VmStatus == {"UNKNOWN", "TO_BE_PROVISIONED", "PLANNING", "PLANNING_COMPLETED",
             "PROVISIONING", "PROVISIONING_COMPLETED", "PROVISIONING_FAILED"}
              \cup Ready \cup Halted \cup Leaving

NotCreated == "NOT_CREATED"           \* there is no row yet

\* The statuses an apply may end in.
Provisioned == {"PROVISIONING_COMPLETED", "PROVISIONING_FAILED"}
\* What every status in which a machine may exist can be followed by.
Existing    == {"RUNNING"} \cup Halted \cup Leaving

(***************************************************************************)
(* For each status, the statuses a log line or a callback may move it to.  *)
(* The table is not transitive: a failed machine accepts neither           *)
(* TO_BE_DESTROYED nor PROVISIONING_COMPLETED, and PROVISIONING does not   *)
(* accept INITIALIZING.                                                    *)
(***************************************************************************)
validNextStates ==
  LET afterPlan    == {"PROVISIONING", "INITIALIZING"} \cup Provisioned \cup Existing
      afterPending == {"PLANNING", "PLANNING_COMPLETED"} \cup afterPlan
  IN  [ UNKNOWN                |-> {"TO_BE_PROVISIONED"} \cup afterPending,
        TO_BE_PROVISIONED      |-> afterPending,
        PLANNING               |-> afterPending \ {"PLANNING"},
        PLANNING_COMPLETED     |-> afterPlan,
        PROVISIONING           |-> Provisioned \cup Existing,
        PROVISIONING_COMPLETED |-> {"INITIALIZING"} \cup Existing,
        PROVISIONING_FAILED    |-> {"PLANNING", "PLANNING_COMPLETED", "PROVISIONING"}
                                     \cup (Existing \ {"TO_BE_DESTROYED"}),
        INITIALIZING           |-> Existing,
        RUNNING                |-> Existing \ {"RUNNING"},
        STOPPED                |-> Existing \ {"STOPPED"},
        SHUTDOWN               |-> Existing \ {"SHUTDOWN"},
        TO_BE_DESTROYED        |-> {"DESTROYING", "DESTROYED"},
        DESTROYING             |-> {"DESTROYED"},
        DESTROYED              |-> {"DESTROYED"} ]

\* Mutant: the status is taken without a look at the table.
AnyNextVmState(currentStatus, nextStatus) == nextStatus

findNextVmState(currentStatus, nextStatus) ==
  IF nextStatus \in validNextStates[currentStatus] THEN nextStatus ELSE currentStatus

\* What VmPhases calls the statuses.
Usable == {"PROVISIONING_COMPLETED"} \cup Ready \cup Halted

PhaseOf(status) ==
  CASE status = NotCreated                                    -> "absent"
    [] status \in VmStatus \ (Usable \cup Leaving)            -> "provisioning"
    [] status \in Usable                                      -> "usable"
    [] status \in {"TO_BE_DESTROYED", "DESTROYING"}           -> "leaving"
    [] status = "DESTROYED"                                   -> "gone"

-----------------------------------------------------------------------------
(* Terraform log lines, as what the classification reads of them.          *)

Undefined == "undefined"        \* JavaScript's undefined, of a status or an address

CREATE  == "CREATE"
DESTROY == "DESTROY"
REFRESH == "REFRESH"
JobAction == {CREATE, DESTROY, REFRESH}

(***************************************************************************)
(* The kinds of line the classification tells apart: the type of the line, *)
(* with the summary that says 'Destroy complete!', the outputs that carry  *)
(* vm_provision_status PROVISIONING_COMPLETED and the diagnostic of        *)
(* severity error as kinds of their own.                                   *)
(***************************************************************************)
LogKind == {"version", "refresh", "planned_change", "change_summary", "destroy_complete",
            "apply", "outputs", "completed_outputs", "diagnostic", "error", "other"}

\* The lines one job of each kind can emit; ip is the vm_ip output, if any.
Outputs == {"outputs", "completed_outputs"}
JobKinds ==
  [ CREATE  |-> LogKind \ {"destroy_complete"},
    DESTROY |-> LogKind \ {"completed_outputs"},
    REFRESH |-> LogKind \ {"destroy_complete"} ]

JobLog(ips) ==
  [action \in JobAction |->
     {log \in [kind : JobKinds[action], ip : ips \cup {Undefined}] :
        log.kind \notin Outputs => log.ip = Undefined}]

statusOfKind ==
  [ CREATE  |-> [ version           |-> "TO_BE_PROVISIONED",
                  planned_change    |-> "PLANNING",
                  change_summary    |-> "PLANNING_COMPLETED",
                  apply             |-> "PROVISIONING",
                  completed_outputs |-> "PROVISIONING_COMPLETED",
                  error             |-> "PROVISIONING_FAILED" ],
    DESTROY |-> [ version           |-> "TO_BE_DESTROYED",
                  refresh           |-> "TO_BE_DESTROYED",
                  planned_change    |-> "TO_BE_DESTROYED",
                  change_summary    |-> "TO_BE_DESTROYED",
                  apply             |-> "DESTROYING",
                  error             |-> "PROVISIONING_FAILED" ],
    REFRESH |-> [ error             |-> "PROVISIONING_FAILED" ] ]

\* Mutant: a plan's change_summary passes for the one that ends a destroy.
AnySummary(log) == log.kind \in {"change_summary", "destroy_complete"}

DestroyCompleted(log) == log.kind = "destroy_complete"

findStatusFromProvisionLog(log, action) ==
  [ status |-> IF DestroyCompleted(log) THEN "DESTROYED"
               ELSE IF log.kind \in DOMAIN statusOfKind[action] THEN statusOfKind[action][log.kind]
               ELSE IF action = REFRESH THEN Undefined ELSE "UNKNOWN",
    ip     |-> IF \/ action = CREATE /\ log.kind = "completed_outputs"
                  \/ action = REFRESH /\ log.kind \in Outputs
               THEN log.ip
               ELSE Undefined ]

-----------------------------------------------------------------------------
(* One-time URLs that cloud-init posts to.                                 *)

START    == "NOTIFY_VM_INITIALIZE_START"
COMPLETE == "NOTIFY_VM_INITIALIZE_COMPLETE"
UrlAction == {START, COMPLETE}

URL_ACTION_TO_VM_STATUS_MAP ==
  [u \in UrlAction |-> IF u = START THEN "INITIALIZING" ELSE "RUNNING"]
=============================================================================
