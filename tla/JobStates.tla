------------------------------ MODULE JobStates ------------------------------
(***************************************************************************)
(* The intelligence job's life cycle: the table JOB_TRANSITIONS of         *)
(* packages/types/src/job.ts and the two predicates the engine asks of it. *)
(* A constant module: the job engine and the abstract life cycle both      *)
(* extend it, so neither can drift from the table.                         *)
(***************************************************************************)

\* The status of a job that has no row yet; it is no value of JobStatus.
Absent == "ABSENT"

JobStatuses ==
    { "CREATED", "QUEUED", "ASSIGNED", "RUNNING", "SUBMITTED",
      "VALIDATING", "CONSENSUS", "RESOLVED", "FAILED", "CANCELLED" }

\* JOB_TRANSITIONS, read as a function from a status to the set of its successors.
Successors ==
    [ s \in JobStatuses |->
        CASE s = "CREATED"    -> {"QUEUED", "CANCELLED", "FAILED"}
          [] s = "QUEUED"     -> {"ASSIGNED", "FAILED", "CANCELLED"}
          [] s = "ASSIGNED"   -> {"RUNNING", "FAILED", "CANCELLED"}
          [] s = "RUNNING"    -> {"SUBMITTED", "FAILED", "CANCELLED"}
          [] s = "SUBMITTED"  -> {"VALIDATING", "FAILED"}
          [] s = "VALIDATING" -> {"CONSENSUS", "FAILED"}
          [] s = "CONSENSUS"  -> {"RESOLVED", "FAILED"}
          [] OTHER            -> {} ]

CanTransition(from, to) == to \in Successors[from]

\* A JobEvent row: the move it records.
Event(from, to) == [from |-> from, to |-> to]

IsTerminal(s) == s \in JobStatuses /\ Successors[s] = {}
==============================================================================
