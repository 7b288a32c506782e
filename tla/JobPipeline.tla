----------------------------- MODULE JobPipeline -----------------------------
(***************************************************************************)
(* A job from POST /v1/jobs to its rewards: the job engine and the five    *)
(* stages of packages/protocol/src (job-engine.ts, execution.ts,           *)
(* pipeline.ts), run by the API, the queue workers (workers/src) and the   *)
(* operator (apps/operator) over the pgmq driver.                          *)
(*                                                                         *)
(* A run is one activation of a handler.  It is cut where the code awaits: *)
(* each step is one statement or transaction of the database, so runs      *)
(* interleave between the read and the write of JobEngine.transition too   *)
(* (Prisma opens $transaction at READ COMMITTED and the update is          *)
(* conditional on the id alone).                                           *)
(***************************************************************************)
EXTENDS JobStates, PgmqQueue, Sequences, FiniteSets

CONSTANTS
    Funded,          \* the jobs created with a budget above zero
    Agents,          \* the registered agents
    Runs,            \* slots for concurrent activations, over all processes
    MaxAttempts,     \* EnqueueOptions.attempts, 3 by default
    MaxCrashes,      \* bound: processes lost in the middle of a run
    MaxExpiries,     \* bound: leases that expire under a run that is alive
    MaxErrors,       \* bound: exceptions out of a database or upstream call
    MaxClaims        \* bound: jobs taken by operator ticks

ASSUME BoundsAssumption ==
    /\ Funded \subseteq Jobs
    /\ MaxAttempts \in Nat \ {0}
    /\ {MaxCrashes, MaxExpiries, MaxErrors, MaxClaims} \subseteq Nat

VARIABLES
    status, trail,   \* Job.status and the job's JobEvent rows
    assignment,      \* JobAssignment.status, by job and agent
    outputs,         \* agents whose AgentOutput of the job is stored
    evaluations,     \* number of deterministic Evaluation rows, by job and agent
    consensus,       \* contributors of the job's ConsensusResult, {} for none
    rewards,         \* how many times the job's reward rows were written
    at,              \* where each run is
    task,            \* what each run works on
    seen,            \* the status its open transition has read, or Unread
    crew,            \* per agent, the progress of the loop the run is in
    faults           \* how much of each bound has been used

dataVars == <<status, trail, assignment, outputs, evaluations, consensus, rewards>>
runVars  == <<at, task, seen, crew>>
vars     == <<dataVars, queueVars, runVars, faults>>

Unread == "unread"

\* Locations that move the job, the status they ask for and what follows.
Target ==
    [ toQueued     |-> "QUEUED",     toAssigned  |-> "ASSIGNED",
      toRunning    |-> "RUNNING",    toSubmitted |-> "SUBMITTED",
      toValidating |-> "VALIDATING", toConsensus |-> "CONSENSUS",
      toResolved   |-> "RESOLVED",   toFailed    |-> "FAILED",
      onFailed     |-> "FAILED" ]

Transitions == DOMAIN Target

Locations ==
    Transitions \cup
    { "idle", "start", "loadCrew", "agents", "enqueue", "send", "load", "score",
      "merge", "judge", "gate", "count", "mint", "ack", "setVt", "archive" }

Progress == {"out", "todo", "busy", "saved", "ok", "bad"}

Task == [stage : QUEUES \cup {"create"}, job : Jobs, read : Nat,
         via : {"api", "queue", "operator"}]

NoTask == [stage |-> "none", read |-> 0, via |-> "none"]

NoCrew == [a \in Agents |-> "out"]

\* The first location of each worker's handler.
Entry == [ job |-> "start", evaluation |-> "toValidating",
           consensus |-> "toConsensus", resolution |-> "gate" ]

\* The queue that each stage hands the job to.
NextQueue == [ create |-> "job", job |-> "evaluation",
               evaluation |-> "consensus", consensus |-> "resolution" ]

Message(r) == <<task[r].stage, task[r].job>>

\* A handler that returns: only a queue delivery has a message to delete.
Finish(r) == IF task[r].via = "queue" THEN "ack" ELSE "idle"

\* PgmqDriver.dispatch on a handler that threw.  The resolution worker passes
\* no onFailed; the API and the operator answer or log the error.
Exhausted(r) == task[r].read >= MaxAttempts

Thrown(r) ==
    IF task[r].via # "queue" THEN "idle"
    ELSE IF ~Exhausted(r) THEN "setVt"
    ELSE IF task[r].stage = "resolution" THEN "archive"
    ELSE "onFailed"

\* Mutants of Onward: the move is made and the next stage is never enqueued.
OnwardNoEvaluation ==
    [ toQueued     |-> "enqueue", toResolved  |-> "enqueue",
      toAssigned   |-> "toRunning", toRunning |-> "loadCrew",
      toValidating |-> "load",  toConsensus   |-> "merge", onFailed |-> "archive" ]

OnwardNoResolution ==
    [ toQueued     |-> "enqueue", toSubmitted |-> "enqueue",
      toAssigned   |-> "toRunning", toRunning |-> "loadCrew",
      toValidating |-> "load",  toConsensus   |-> "merge", onFailed |-> "archive" ]

\* What a handler does once its transition has returned; from the locations
\* left out it returns itself.
Onward ==
    [ toQueued     |-> "enqueue",   toSubmitted |-> "enqueue",  toResolved |-> "enqueue",
      toAssigned   |-> "toRunning", toRunning   |-> "loadCrew",
      toValidating |-> "load",      toConsensus |-> "merge",    onFailed   |-> "archive" ]

After(r) == IF at[r] \in DOMAIN Onward THEN Onward[at[r]] ELSE Finish(r)

\* A run that ends frees its slot.
Goto(r, l) ==
    /\ at' = [at EXCEPT ![r] = l]
    /\ task' = [task EXCEPT ![r] = IF l = "idle" THEN NoTask ELSE @]

Begin(r, l, t) ==
    /\ at[r] = "idle"
    /\ at' = [at EXCEPT ![r] = l]
    /\ task' = [task EXCEPT ![r] = t]
    /\ UNCHANGED <<seen, crew>>

\* Only the location of run r changes.
Branch(r, l) ==
    /\ Goto(r, l)
    /\ UNCHANGED <<dataVars, queueVars, seen, crew, faults>>

SetCrew(r, a, p) == crew' = [crew EXCEPT ![r][a] = p]

------------------------------------------------------------------------------
Init ==
    /\ QueueInit
    /\ status = [j \in Jobs |-> Absent]
    /\ trail = [j \in Jobs |-> <<>>]
    /\ assignment = [j \in Jobs |-> [a \in Agents |-> "none"]]
    /\ outputs = [j \in Jobs |-> {}]
    /\ evaluations = [j \in Jobs |-> [a \in Agents |-> 0]]
    /\ consensus = [j \in Jobs |-> {}]
    /\ rewards = [j \in Jobs |-> 0]
    /\ at = [r \in Runs |-> "idle"]
    /\ task = [r \in Runs |-> NoTask]
    /\ seen = [r \in Runs |-> Unread]
    /\ crew = [r \in Runs |-> NoCrew]
    /\ faults = [crash |-> 0, expiry |-> 0, error |-> 0, claim |-> 0]

------------------------------------------------------------------------------
\* POST /v1/jobs: the row and its first event are one nested insert.
CreateJob(r, j) ==
    /\ status[j] = Absent
    /\ Begin(r, "toQueued", [stage |-> "create", job |-> j, read |-> 0, via |-> "api"])
    /\ status' = [status EXCEPT ![j] = "CREATED"]
    /\ trail' = [trail EXCEPT ![j] = Append(@, Event(Absent, "CREATED"))]
    /\ UNCHANGED <<assignment, outputs, evaluations, consensus, rewards, queueVars, faults>>

\* The poll loop reads a message and dispatches it to the stage's handler.
Deliver(r, m) ==
    /\ Read(m)
    /\ Begin(r, Entry[m[1]], [stage |-> m[1], job |-> m[2],
                              read |-> readCt[m] + 1, via |-> "queue"])
    /\ UNCHANGED <<dataVars, faults>>

\* An operator tick takes a job off the list of QUEUED jobs that it has read and
\* runs it itself.  It runs the list one by one and its timer starts the next tick
\* meanwhile, so the list, and what it left out for being in flight, may be of any
\* time since the job was QUEUED.  The reservation is module BudgetGuard's.
OperatorTake(r, j) ==
    /\ faults.claim < MaxClaims
    /\ status[j] # Absent /\ \E i \in DOMAIN trail[j] : trail[j][i].to = "QUEUED"
    /\ Begin(r, "start", [stage |-> "job", job |-> j, read |-> 0, via |-> "operator"])
    /\ faults' = [faults EXCEPT !.claim = @ + 1]
    /\ UNCHANGED <<dataVars, queueVars>>

------------------------------------------------------------------------------
\* JobEngine.transition, first half: read the persisted status, decide.
ReadStatus(r) ==
    /\ at[r] \in Transitions
    /\ seen[r] = Unread
    /\ LET now == status[task[r].job]
           to  == Target[at[r]]
       IN  \/ /\ now = to \/ IsTerminal(now)      \* returns false; no caller looks
              /\ Branch(r, After(r))
           \/ /\ now # to /\ ~IsTerminal(now) /\ CanTransition(now, to)
              /\ seen' = [seen EXCEPT ![r] = now]
              /\ UNCHANGED <<dataVars, queueVars, at, task, crew, faults>>
           \/ /\ now # to /\ ~IsTerminal(now) /\ ~CanTransition(now, to)
              /\ Branch(r, Thrown(r))             \* InvalidTransitionError

\* Mutant of WriteStatus: no JobEvent is written.
WriteStatusSilent(r) ==
    /\ at[r] \in Transitions
    /\ seen[r] # Unread
    /\ status' = [status EXCEPT ![task[r].job] = Target[at[r]]]
    /\ seen' = [seen EXCEPT ![r] = Unread]
    /\ Goto(r, After(r))
    /\ UNCHANGED <<trail, assignment, outputs, evaluations, consensus, rewards,
                   queueVars, crew, faults>>

\* JobEngine.transition, second half: the update and its JobEvent commit.
WriteStatus(r) ==
    /\ at[r] \in Transitions
    /\ seen[r] # Unread
    /\ LET j == task[r].job
       IN  /\ status' = [status EXCEPT ![j] = Target[at[r]]]
           /\ trail' = [trail EXCEPT ![j] = Append(@, Event(seen[r], Target[at[r]]))]
    /\ seen' = [seen EXCEPT ![r] = Unread]
    /\ Goto(r, After(r))
    /\ UNCHANGED <<assignment, outputs, evaluations, consensus, rewards,
                   queueVars, crew, faults>>

\* QueueDriver.enqueue of the next stage, first statement: the dedupe key.
EnqueueClaim(r) ==
    /\ at[r] = "enqueue"
    /\ LET m == <<NextQueue[task[r].stage], task[r].job>>
       IN  \/ /\ Claim(m)
              /\ Goto(r, "send")
              /\ UNCHANGED <<dataVars, seen, crew, faults>>
           \/ /\ m \in claimed
              /\ Branch(r, Finish(r))

EnqueueSend(r) ==
    /\ at[r] = "send"
    /\ Send(<<NextQueue[task[r].stage], task[r].job>>)
    /\ Goto(r, Finish(r))
    /\ UNCHANGED <<dataVars, seen, crew, faults>>

------------------------------------------------------------------------------
\* ExecutionPipeline.runJob up to the assignments.  A passed deadline and an
\* empty selection both fail the job; the cohort is any set the selector returns.
SelectAgents(r) ==
    /\ at[r] = "start"
    /\ \/ Branch(r, "toFailed")
       \/ \E cohort \in (SUBSET Agents) \ {{}} :
            /\ assignment' = [assignment EXCEPT ![task[r].job] =
                 [a \in Agents |-> IF a \in cohort /\ @[a] = "none" THEN "PENDING" ELSE @[a]]]
            /\ Goto(r, "toAssigned")
            /\ UNCHANGED <<status, trail, outputs, evaluations, consensus, rewards,
                           queueVars, seen, crew, faults>>

\* Every assignment of the job is run again, whatever its status.
LoadAssignments(r) ==
    /\ at[r] = "loadCrew"
    /\ crew' = [crew EXCEPT ![r] =
         [a \in Agents |-> IF assignment[task[r].job][a] = "none" THEN "out" ELSE "todo"]]
    /\ Goto(r, "agents")
    /\ UNCHANGED <<dataVars, queueVars, seen, faults>>

\* runAssignment, per agent and concurrent with the others of the crew.
SetAssignment(r, a, s) == assignment' = [assignment EXCEPT ![task[r].job][a] = s]

AgentStart(r, a) ==
    /\ at[r] = "agents"
    /\ crew[r][a] = "todo"
    /\ SetAssignment(r, a, "RUNNING")
    /\ SetCrew(r, a, "busy")
    /\ UNCHANGED <<status, trail, outputs, evaluations, consensus, rewards,
                   queueVars, at, task, seen, faults>>

\* The agent answered and persist's transaction commits: AgentOutput is unique
\* per assignment, so it cannot commit a second time.
AgentPersist(r, a) ==
    /\ at[r] = "agents"
    /\ crew[r][a] = "busy"
    /\ a \notin outputs[task[r].job]
    /\ outputs' = [outputs EXCEPT ![task[r].job] = @ \cup {a}]
    /\ SetCrew(r, a, "saved")
    /\ UNCHANGED <<status, trail, assignment, evaluations, consensus, rewards,
                   queueVars, at, task, seen, faults>>

AgentSubmit(r, a) ==
    /\ at[r] = "agents"
    /\ crew[r][a] = "saved"
    /\ SetAssignment(r, a, "SUBMITTED")
    /\ SetCrew(r, a, "ok")
    /\ UNCHANGED <<status, trail, outputs, evaluations, consensus, rewards,
                   queueVars, at, task, seen, faults>>

\* The budget declined, the model failed, the signal aborted or persist hit the
\* unique key.  FAILED stands for DECLINED too: no code tells them apart.
AgentFail(r, a) ==
    /\ at[r] = "agents"
    /\ crew[r][a] = "busy"
    /\ SetAssignment(r, a, "FAILED")
    /\ SetCrew(r, a, "bad")
    /\ UNCHANGED <<status, trail, outputs, evaluations, consensus, rewards,
                   queueVars, at, task, seen, faults>>

\* Mutant of JoinAgents: the first answer ends the wait (Promise.any).
JoinFirst(r) ==
    /\ at[r] = "agents"
    /\ \E a \in Agents : crew[r][a] = "ok"
    /\ Goto(r, "toSubmitted")
    /\ crew' = [crew EXCEPT ![r] = NoCrew]
    /\ UNCHANGED <<dataVars, queueVars, seen, faults>>

\* Promise.allSettled: one success is enough to submit.
JoinAgents(r) ==
    /\ at[r] = "agents"
    /\ \A a \in Agents : crew[r][a] \in {"out", "ok", "bad"}
    /\ Goto(r, IF \E a \in Agents : crew[r][a] = "ok" THEN "toSubmitted" ELSE "toFailed")
    /\ crew' = [crew EXCEPT ![r] = NoCrew]
    /\ UNCHANGED <<dataVars, queueVars, seen, faults>>

------------------------------------------------------------------------------
\* EvaluationStage.run: find, then create or update, one output after another.
LoadOutputs(r) ==
    /\ at[r] = "load"
    /\ \/ /\ outputs[task[r].job] = {}
          /\ Branch(r, "toFailed")
       \/ /\ outputs[task[r].job] # {}
          /\ crew' = [crew EXCEPT ![r] =
               [a \in Agents |-> IF a \in outputs[task[r].job] THEN "todo" ELSE "out"]]
          /\ Goto(r, "score")
          /\ UNCHANGED <<dataVars, queueVars, seen, faults>>

FindEvaluation(r, a) ==
    /\ at[r] = "score"
    /\ crew[r][a] = "todo"
    /\ \A b \in Agents : crew[r][b] # "busy"
    /\ SetCrew(r, a, IF evaluations[task[r].job][a] > 0 THEN "ok" ELSE "busy")
    /\ UNCHANGED <<dataVars, queueVars, at, task, seen, faults>>

CreateEvaluation(r, a) ==
    /\ at[r] = "score"
    /\ crew[r][a] = "busy"
    /\ evaluations' = [evaluations EXCEPT ![task[r].job][a] = @ + 1]
    /\ SetCrew(r, a, "ok")
    /\ UNCHANGED <<status, trail, assignment, outputs, consensus, rewards,
                   queueVars, at, task, seen, faults>>

EvaluationDone(r) ==
    /\ at[r] = "score"
    /\ \A a \in Agents : crew[r][a] \in {"out", "ok"}
    /\ Goto(r, "enqueue")
    /\ crew' = [crew EXCEPT ![r] = NoCrew]
    /\ UNCHANGED <<dataVars, queueVars, seen, faults>>

\* ConsensusStage.run: the upsert keeps the contributions of the first merge.
Merge(r) ==
    /\ at[r] = "merge"
    /\ \/ /\ outputs[task[r].job] = {}
          /\ Branch(r, "toFailed")
       \/ /\ outputs[task[r].job] # {}
          /\ consensus' = [consensus EXCEPT ![task[r].job] =
                              IF @ = {} THEN outputs[task[r].job] ELSE @]
          /\ Goto(r, "judge")
          /\ UNCHANGED <<status, trail, assignment, outputs, evaluations, rewards,
                         queueVars, seen, crew, faults>>

\* The merged confidence meets the job's minimum, or misses it.
Judge(r) ==
    /\ at[r] = "judge"
    /\ \E l \in {"toResolved", "toFailed"} : Branch(r, l)

\* Mutants of RewardStage: the status gate and the count of earlier rows missing.
CheckFunded(r) ==
    /\ at[r] = "gate"
    /\ Branch(r, IF task[r].job \in Funded THEN "count" ELSE Finish(r))

CountNothing(r) ==
    /\ at[r] = "count"
    /\ Branch(r, IF consensus[task[r].job] # {} THEN "mint" ELSE Finish(r))

\* RewardStage.run.
CheckResolved(r) ==
    /\ at[r] = "gate"
    /\ Branch(r, IF status[task[r].job] = "RESOLVED" /\ task[r].job \in Funded
                 THEN "count" ELSE Finish(r))

CountRewards(r) ==
    /\ at[r] = "count"
    /\ Branch(r, IF rewards[task[r].job] = 0 /\ consensus[task[r].job] # {}
                 THEN "mint" ELSE Finish(r))

MintRewards(r) ==
    /\ at[r] = "mint"
    /\ rewards' = [rewards EXCEPT ![task[r].job] = @ + 1]
    /\ Goto(r, Finish(r))
    /\ UNCHANGED <<status, trail, assignment, outputs, evaluations, consensus,
                   queueVars, seen, crew, faults>>

------------------------------------------------------------------------------
\* PgmqDriver.dispatch: what happens to the message once the handler is done.
Leave(r) ==
    /\ Goto(r, "idle")
    /\ UNCHANGED <<dataVars, seen, crew, faults>>

Acknowledge(r) == at[r] = "ack" /\ Delete(Message(r)) /\ Leave(r)

Retry(r) == at[r] = "setVt" /\ SetVt(Message(r)) /\ Leave(r)

GiveUp(r) == at[r] = "archive" /\ Archive(Message(r)) /\ Leave(r)

------------------------------------------------------------------------------
\* A run is stopped where it is; what it has committed stays.
Abandon(r, l) ==
    /\ Goto(r, l)
    /\ seen' = [seen EXCEPT ![r] = Unread]
    /\ crew' = [crew EXCEPT ![r] = NoCrew]
    /\ UNCHANGED <<dataVars, queueVars>>

Crash(r) ==
    /\ at[r] # "idle"
    /\ faults.crash < MaxCrashes
    /\ faults' = [faults EXCEPT !.crash = @ + 1]
    /\ Abandon(r, "idle")

\* The call a run is awaiting rejects.  JobEngine.fail swallows it; dispatch
\* only reports a failed set_vt or archive; a failed delete lands in its catch
\* block like a failure of the handler.
CallFails(r) ==
    /\ at[r] \notin {"idle", "agents"}
    /\ faults.error < MaxErrors
    /\ faults' = [faults EXCEPT !.error = @ + 1]
    /\ Abandon(r, CASE at[r] \in {"setVt", "archive"}      -> "idle"
                    [] at[r] \in {"toFailed", "onFailed"}  -> After(r)
                    [] OTHER                               -> Thrown(r))

\* The same inside runAssignment: the first update, the SUBMITTED update or the
\* update of the catch block rejects.  allSettled counts the agent as failed.
AgentCallFails(r, a) ==
    /\ at[r] = "agents"
    /\ faults.error < MaxErrors
    /\ faults' = [faults EXCEPT !.error = @ + 1]
    /\ crew[r][a] \in {"todo", "busy", "saved"}
    /\ SetCrew(r, a, "bad")
    /\ \/ UNCHANGED assignment
       \/ crew[r][a] = "saved" /\ SetAssignment(r, a, "FAILED")
    /\ UNCHANGED <<status, trail, outputs, evaluations, consensus, rewards,
                   queueVars, at, task, seen>>

\* A run that still holds the newest read of the message.
Holds(r, m) ==
    /\ task[r].via = "queue"
    /\ Message(r) = m
    /\ task[r].read = readCt[m]

Held(m) == \E r \in Runs : Holds(r, m)

LeaseExpires(m) ==
    /\ Expire(m)
    /\ \/ /\ Held(m)
          /\ faults.expiry < MaxExpiries
          /\ faults' = [faults EXCEPT !.expiry = @ + 1]
       \/ /\ ~Held(m)
          /\ UNCHANGED faults
    /\ UNCHANGED <<dataVars, runVars>>

------------------------------------------------------------------------------
\* The steps of a run that is under way.
AgentStep(r, a) ==
    \/ AgentStart(r, a) \/ AgentPersist(r, a) \/ AgentSubmit(r, a) \/ AgentFail(r, a)
    \/ FindEvaluation(r, a) \/ CreateEvaluation(r, a)

RunStep(r) ==
    \/ ReadStatus(r) \/ WriteStatus(r) \/ EnqueueClaim(r) \/ EnqueueSend(r)
    \/ SelectAgents(r) \/ LoadAssignments(r) \/ JoinAgents(r)
    \/ LoadOutputs(r) \/ EvaluationDone(r) \/ Merge(r) \/ Judge(r)
    \/ CheckResolved(r) \/ CountRewards(r) \/ MintRewards(r)
    \/ Acknowledge(r) \/ Retry(r) \/ GiveUp(r)
    \/ \E a \in Agents : AgentStep(r, a)

Fault(r) == Crash(r) \/ CallFails(r) \/ \E a \in Agents : AgentCallFails(r, a)

Next ==
    \/ \E r \in Runs :
         \/ RunStep(r)
         \/ Fault(r)
         \/ \E j \in Jobs : CreateJob(r, j) \/ OperatorTake(r, j)
         \/ \E m \in Messages : Deliver(r, m)
    \/ \E m \in Messages : LeaseExpires(m)

Spec == Init /\ [][Next]_vars

\* Every started handler keeps running (Node schedules its continuation, and the
\* HTTP and abort timeouts end a call that hangs), the poll loop keeps reading,
\* and a lease nobody holds runs out.  Creation, ticks and faults are not owed.
Fairness ==
    /\ \A r \in Runs : WF_vars(RunStep(r))
    /\ \A m \in Messages : WF_vars(\E r \in Runs : Deliver(r, m))
    /\ \A m \in Messages : WF_vars(~Held(m) /\ LeaseExpires(m))

FairSpec == Spec /\ Fairness

------------------------------------------------------------------------------
AssignmentStates == {"none", "PENDING", "RUNNING", "SUBMITTED", "FAILED"}

EventRows == [from : JobStatuses \cup {Absent}, to : JobStatuses]

DataTypeOK ==
    /\ status \in [Jobs -> JobStatuses \cup {Absent}]
    /\ trail \in [Jobs -> Seq(EventRows)]
    /\ assignment \in [Jobs -> [Agents -> AssignmentStates]]
    /\ outputs \in [Jobs -> SUBSET Agents]
    /\ evaluations \in [Jobs -> [Agents -> Nat]]
    /\ consensus \in [Jobs -> SUBSET Agents]
    /\ rewards \in [Jobs -> Nat]

\* A slot is idle exactly when it has no task.
SlotsOK ==
    /\ at \in [Runs -> Locations]
    /\ task \in [Runs -> Task \cup {NoTask}]
    /\ \A r \in Runs : at[r] = "idle" <=> task[r] = NoTask

\* Only a run inside a transition has read a status.
ReadsOK ==
    /\ seen \in [Runs -> JobStatuses \cup {Unread}]
    /\ \A r \in Runs : seen[r] # Unread => at[r] \in Transitions

CrewOK == crew \in [Runs -> [Agents -> Progress]]

FaultsOK == faults \in [crash : 0..MaxCrashes, expiry : 0..MaxExpiries,
                        error : 0..MaxErrors, claim : 0..MaxClaims]

\* The type of every variable and the shape of a run: a slot that was freed
\* keeps nothing of its last activation, in particular no open transaction.
TypeOK == QueueTypeOK /\ DataTypeOK /\ SlotsOK /\ ReadsOK /\ CrewOK /\ FaultsOK

\* Where a handler of each stage can be, and where its delivery can be after it.
Places ==
    [ create     |-> {"toQueued", "enqueue", "send"},
      job        |-> {"start", "toAssigned", "toRunning", "loadCrew", "agents",
                      "toSubmitted", "toFailed", "enqueue", "send"},
      evaluation |-> {"toValidating", "load", "score", "toFailed", "enqueue", "send"},
      consensus  |-> {"toConsensus", "merge", "judge", "toResolved", "toFailed",
                      "enqueue", "send"},
      resolution |-> {"gate", "count", "mint"} ]

Closing == {"ack", "setVt", "onFailed", "archive"}

\* Which activations exist: the API creates, the operator runs the job stage,
\* and only a delivery has a message to acknowledge, retry or give up.
PlacesOK ==
    \A r \in Runs : at[r] # "idle" =>
        /\ \/ at[r] \in Places[task[r].stage]
           \/ at[r] \in Closing /\ task[r].via = "queue"
        /\ task[r].stage = "create" <=> task[r].via = "api"
        /\ task[r].via = "operator" => task[r].stage = "job"
        /\ at[r] = "onFailed" => task[r].stage # "resolution"

\* Runs and messages are about jobs that have a row.
KnownJobs ==
    /\ \A r \in Runs : at[r] # "idle" => status[task[r].job] # Absent
    /\ \A m \in Messages : msg[m] # "none" => status[m[2]] # Absent

Recorded(rows, s) == \E i \in DOMAIN rows : rows[i].to = s

Reached(j, s) == Recorded(trail[j], s)

\* The audit rows of a job are its creation followed by legal moves only
\* (JobEngine.transition asserts the move before it writes it), whatever
\* overlaps, crashes and is delivered again.
EventsLegal ==
    \A j \in Jobs : \A i \in DOMAIN trail[j] :
        IF i = 1 THEN trail[j][i] = Event(Absent, "CREATED")
                 ELSE trail[j][i].to \in Successors[trail[j][i].from]

\* A job is never recorded RESOLVED before intelligence for it is stored, nor
\* paid for before it was RESOLVED: ConsensusStage and RewardStage keep this
\* order under every interleaving, redelivery and crash.
PaidForIntelligence ==
    \A j \in Jobs :
        /\ Reached(j, "RESOLVED") => consensus[j] # {}
        /\ rewards[j] > 0 => Reached(j, "RESOLVED") /\ j \in Funded

\* The reward rows of a job are written once ("idempotent under redelivery").
RewardsAtMostOnce == \A j \in Jobs : rewards[j] <= 1

\* While no lease expires under a live run, a message has one worker: retries,
\* redelivery after a crash and failed acknowledgements never overlap it.
OneWorker ==
    MaxExpiries = 0 => \A r, s \in Runs :
        task[r].via = "queue" /\ task[s].via = "queue" /\ Message(r) = Message(s) => r = s

\* So the count-then-insert of RewardStage pays a job at most once.
RewardsOnce == MaxExpiries = 0 => RewardsAtMostOnce

\* Likewise the find-then-create of EvaluationStage, which no unique key
\* backs up, leaves at most one deterministic evaluation per output.
EvaluatedOnce ==
    MaxExpiries = 0 => \A j \in Jobs : \A a \in Agents : evaluations[j][a] <= 1

\* A concluded job leaves no assignment open: an open one would count against
\* its agent in JobEngine.candidates for ever.
NoLeakedAssignments ==
    \A j \in Jobs : IsTerminal(status[j]) =>
        \A a \in Agents : assignment[j][a] \notin {"PENDING", "RUNNING"}

\* The pipeline implements the life cycle the documentation draws.
Lifecycle == INSTANCE JobLifecycle
ImplementsLifecycle == Lifecycle!LifecycleSpec

\* What the code does not recover from.  A dedupe key was committed and its message
\* never sent, so that every later enqueue is dropped as a duplicate; a job was
\* created and its handler lost before the job was handed to the queue; a call
\* failed, since JobEngine.fail swallows the failure of its own write and the
\* message is then acknowledged.
Dropped(j) ==
    /\ \E q \in QUEUES : <<q, j>> \in claimed /\ msg[<<q, j>>] = "none"
    /\ \A r \in Runs : at[r] = "send" => task[r].job # j

NeverQueued(j) ==
    <<"job", j>> \notin claimed /\ \A r \in Runs : at[r] # "idle" => task[r].job # j

Cut(j) == Dropped(j) \/ NeverQueued(j) \/ faults.error > 0

\* Every job concludes wherever a process is lost, but for those cuts: a stage
\* that is delivered again takes the job on from where the lost run left it, or
\* fails it.
JobsConclude ==
    \A j \in Jobs : (status[j] # Absent) ~> (IsTerminal(status[j]) \/ Cut(j))

\* A funded job that stays RESOLVED is eventually paid for, wherever a process is
\* lost.  It need not stay so: a redelivered stage may write FAILED over it.  And
\* a consensus that is merged again, with the reputation that its first merge has
\* moved, may miss the bar and leave a resolved job without its reward message.
MergedAgain(j) == readCt[<<"consensus", j>>] > 1 /\ <<"resolution", j>> \notin claimed

ResolvedArePaid ==
    \A j \in Funded : (status[j] = "RESOLVED") ~>
        (rewards[j] > 0 \/ status[j] # "RESOLVED" \/ Cut(j) \/ MergedAgain(j))

==============================================================================
