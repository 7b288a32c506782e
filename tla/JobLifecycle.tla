---------------------------- MODULE JobLifecycle -----------------------------
(***************************************************************************)
(* What the protocol promises of a job (docs/protocol.md, "Lifecycle"): it *)
(* is created once, moves only along JOB_TRANSITIONS, one audit row per    *)
(* move, and never leaves a terminal state.  The abstract specification    *)
(* that JobPipeline is shown to implement while no delivery overlaps.      *)
(***************************************************************************)
EXTENDS JobStates, Sequences

CONSTANT Jobs                 \* the jobs ever requested

VARIABLES status,             \* Job.status, or Absent
          trail               \* the JobEvent rows of the job, oldest first

lifecycleVars == <<status, trail>>

LifecycleInit ==
    /\ status = [j \in Jobs |-> Absent]
    /\ trail = [j \in Jobs |-> <<>>]

\* One move: the status and the row that records it change together.
Move(j, to) ==
    /\ status' = [status EXCEPT ![j] = to]
    /\ trail' = [trail EXCEPT ![j] = Append(@, Event(status[j], to))]

Create(j) == status[j] = Absent /\ Move(j, "CREATED")

Advance(j) ==
    /\ status[j] # Absent
    /\ \E to \in Successors[status[j]] : Move(j, to)

LifecycleNext == \E j \in Jobs : Create(j) \/ Advance(j)

LifecycleSpec == LifecycleInit /\ [][LifecycleNext]_lifecycleVars
==============================================================================
