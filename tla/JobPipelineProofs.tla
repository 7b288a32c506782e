-------------------------- MODULE JobPipelineProofs --------------------------
(***************************************************************************)
(* Theorems of JobPipeline, for any number of jobs, agents and runs and    *)
(* any bound on the faults: first the types, then the safety theorems: the *)
(* audit rows are legal, rewards follow resolved intelligence, and, while  *)
(* no lease expires under a live run, a message has one worker and a job   *)
(* one payment; last, that a pipeline without faults implements the life   *)
(* cycle and closes every assignment it opens.                             *)
(***************************************************************************)
EXTENDS JobPipeline, TLAPS

TypeInv == TypeOK /\ PlacesOK /\ KnownJobs

\* The moves a run makes inside its handler and out of it.
Onwards(r, l) ==
    \/ l = "idle"
    \/ l \in Places[task[r].stage]
    \/ l = Finish(r)
    \/ l = Thrown(r)
    \/ l = After(r) /\ at[r] \in Transitions

LEMMA TransitionLocations ==
    /\ Transitions = { "toQueued", "toAssigned", "toRunning", "toSubmitted",
                       "toValidating", "toConsensus", "toResolved", "toFailed", "onFailed" }
    /\ \A l \in Transitions : Target[l] \in JobStatuses
BY DEF Transitions, Target, JobStatuses

LEMMA Absence == Absent \notin JobStatuses /\ Unread \notin JobStatuses
BY DEF Absent, Unread, JobStatuses

\* A busy run works on a job and a stage.
LEMMA BusyRun ==
    ASSUME SlotsOK, NEW r \in Runs, at[r] # "idle"
    PROVE  /\ task[r] \in Task
           /\ task[r].job \in Jobs
           /\ task[r].stage \in QUEUES \cup {"create"}
           /\ task[r].read \in Nat
           /\ task[r].via \in {"api", "queue", "operator"}
BY DEF SlotsOK, Task

\* Where a handler goes next is a location.
LEMMA Continuations ==
    ASSUME SlotsOK, NEW r \in Runs
    PROVE  /\ Finish(r) \in Locations
           /\ Thrown(r) \in Locations
           /\ After(r) \in Locations
BY TransitionLocations DEF Finish, Thrown, After, Onward, Locations

LEMMA GotoKeepsSlots ==
    ASSUME SlotsOK, NEW r \in Runs, NEW l \in Locations, at[r] # "idle", Goto(r, l)
    PROVE  SlotsOK'
BY BusyRun DEF SlotsOK, Goto

LEMMA BeginKeepsSlots ==
    ASSUME SlotsOK, NEW r \in Runs, NEW l \in Locations \ {"idle"}, NEW t \in Task,
           Begin(r, l, t)
    PROVE  SlotsOK'
BY DEF SlotsOK, Begin, Task, NoTask, QUEUES

\* A run outside a transition, or one that has not read, may leave its location.
LEMMA GotoKeepsReads ==
    ASSUME SlotsOK, ReadsOK, NEW r \in Runs, NEW l, Goto(r, l), UNCHANGED seen,
           seen[r] = Unread
    PROVE  ReadsOK'
BY DEF SlotsOK, ReadsOK, Goto

LEMMA QueueSteps ==
    ASSUME QueueTypeOK, NEW m \in Messages,
           \/ Claim(m) \/ Send(m) \/ Read(m) \/ Expire(m)
           \/ Delete(m) \/ SetVt(m) \/ Archive(m)
    PROVE  QueueTypeOK'
BY DEF QueueTypeOK, MsgStates, Claim, Send, Read, Expire, Delete, SetVt, Archive, MoveTo

LEMMA Queues ==
    ASSUME SlotsOK, NEW r \in Runs, at[r] # "idle"
    PROVE  /\ task[r].stage \in QUEUES => Message(r) \in Messages
           /\ task[r].stage # "resolution" =>
                <<NextQueue[task[r].stage], task[r].job>> \in Messages
BY BusyRun DEF Message, Messages, NextQueue, QUEUES

\* A run that stays or moves within its stage.
LEMMA GotoKeepsPlaces ==
    ASSUME SlotsOK, PlacesOK, NEW r \in Runs, at[r] # "idle", NEW l, Goto(r, l),
           Onwards(r, l)
    PROVE  PlacesOK'
<1>1. task[r].stage \in {"create", "job", "evaluation", "consensus", "resolution"}
  BY BusyRun DEF QUEUES
<1>2. \/ l = "idle"
      \/ l \in Places[task[r].stage]
      \/ l \in Closing /\ task[r].via = "queue"
  <2>1. CASE l = Finish(r)
    BY <2>1 DEF Finish, Closing
  <2>2. CASE l = Thrown(r)
    BY <2>2 DEF Thrown, Closing
  <2>3. CASE l = After(r) /\ at[r] \in Transitions
    <3>1. \/ at[r] \in Places[task[r].stage]
          \/ at[r] \in Closing /\ task[r].via = "queue"
      BY DEF PlacesOK
    <3>2. CASE at[r] \in {"toFailed", "onFailed"}
      BY <1>1, <3>1, <3>2, <2>3 DEF After, Onward, Finish, Closing, Places
    <3>3. CASE at[r] \notin {"toFailed", "onFailed"}
      <4>1. at[r] \in Places[task[r].stage]
        BY <3>1, <3>3, <2>3, TransitionLocations DEF Closing
      <4>. QED BY <1>1, <4>1, <3>3, <2>3, TransitionLocations DEF After, Onward, Finish, Closing, Places
    <3>. QED BY <3>2, <3>3
  <2>. QED BY <2>1, <2>2, <2>3 DEF Onwards
<1>3. l = "onFailed" => task[r].stage # "resolution"
  BY <1>1, TransitionLocations DEF Onwards, Finish, Thrown, After, Onward, Places, PlacesOK
<1>. QED BY <1>2, <1>3 DEF SlotsOK, PlacesOK, Goto

\* Each location belongs to one stage, the ends of a handler to several.
LEMMA StageAt ==
    ASSUME SlotsOK, PlacesOK, NEW r \in Runs
    PROVE  /\ at[r] \in {"start", "loadCrew", "agents"} => task[r].stage = "job"
           /\ at[r] \in {"load", "score"} => task[r].stage = "evaluation"
           /\ at[r] \in {"merge", "judge"} => task[r].stage = "consensus"
           /\ at[r] \in {"gate", "count", "mint"} =>
                task[r].stage = "resolution" /\ task[r].via = "queue"
           /\ at[r] \in {"enqueue", "send"} =>
                task[r].stage \in {"create", "job", "evaluation", "consensus"}
           /\ at[r] \in Closing => task[r].via = "queue" /\ task[r].stage \in QUEUES
<1>1. at[r] # "idle" => task[r].stage \in {"create", "job", "evaluation", "consensus", "resolution"}
                        /\ task[r].via \in {"api", "queue", "operator"}
  BY BusyRun DEF QUEUES
<1>. QED BY <1>1 DEF PlacesOK, Places, Closing, QUEUES

LEMMA OnwardsLocations ==
    ASSUME SlotsOK, NEW r \in Runs, at[r] # "idle", NEW l, Onwards(r, l)
    PROVE  l \in Locations
BY BusyRun, Continuations, TransitionLocations DEF Onwards, Places, Locations, QUEUES

\* The slots of a run that moves on without a status read.
LEMMA GotoKeepsShape ==
    ASSUME SlotsOK, ReadsOK, PlacesOK, NEW r \in Runs, at[r] # "idle", seen[r] = Unread,
           NEW l, Onwards(r, l), Goto(r, l), UNCHANGED seen
    PROVE  SlotsOK' /\ ReadsOK' /\ PlacesOK'
BY OnwardsLocations, GotoKeepsSlots, GotoKeepsReads, GotoKeepsPlaces

\* No job loses its row, no run changes its job, no message appears.
LEMMA GotoKeepsKnown ==
    ASSUME SlotsOK, KnownJobs, NEW r \in Runs, at[r] # "idle", NEW l, Goto(r, l),
           \A j \in Jobs : status[j] # Absent => status'[j] # Absent,
           \A m \in Messages : msg'[m] # "none" => msg[m] # "none"
    PROVE  KnownJobs'
<1>1. ASSUME NEW s \in Runs, at'[s] # "idle" PROVE status'[task'[s].job] # Absent
  <2>1. at[s] # "idle" /\ task'[s] = task[s]
    BY <1>1 DEF Goto, SlotsOK
  <2>. QED BY <2>1, BusyRun DEF KnownJobs
<1>2. ASSUME NEW m \in Messages, msg'[m] # "none" PROVE status'[m[2]] # Absent
  BY <1>2 DEF KnownJobs, Messages
<1>. QED BY <1>1, <1>2 DEF KnownJobs

LEMMA MoveKeepsShape ==
    ASSUME TypeInv, NEW r \in Runs, at[r] # "idle", seen[r] = Unread,
           NEW l, Onwards(r, l), Goto(r, l), UNCHANGED <<seen, status, msg>>
    PROVE  SlotsOK' /\ ReadsOK' /\ PlacesOK' /\ KnownJobs'
BY GotoKeepsShape, GotoKeepsKnown DEF TypeInv, TypeOK

\* A step inside a location.
LEMMA StayKeepsShape ==
    ASSUME TypeInv, UNCHANGED <<at, task, seen, status, msg>>
    PROVE  SlotsOK' /\ ReadsOK' /\ PlacesOK' /\ KnownJobs'
BY DEF TypeInv, TypeOK, SlotsOK, ReadsOK, PlacesOK, KnownJobs

LEMMA BranchKeepsType ==
    ASSUME TypeInv, NEW r \in Runs, at[r] # "idle", seen[r] = Unread,
           NEW l, Onwards(r, l), Branch(r, l)
    PROVE  TypeInv'
<1>1. SlotsOK' /\ ReadsOK' /\ PlacesOK' /\ KnownJobs'
  BY MoveKeepsShape DEF Branch, dataVars, queueVars
<1>2. QueueTypeOK' /\ DataTypeOK' /\ CrewOK' /\ FaultsOK'
  BY DEF TypeInv, TypeOK, Branch, dataVars, queueVars, QueueTypeOK, DataTypeOK, CrewOK, FaultsOK
<1>. QED BY <1>1, <1>2 DEF TypeInv, TypeOK

\* A run that begins: t is a well-formed task and l a place of its stage.
LEMMA BeginKeepsShape ==
    ASSUME SlotsOK, ReadsOK, PlacesOK, CrewOK, NEW r \in Runs, NEW t \in Task,
           NEW l \in Places[t.stage], l \in Locations \ {"idle"}, l # "onFailed",
           t.stage = "create" <=> t.via = "api",
           t.via = "operator" => t.stage = "job",
           Begin(r, l, t)
    PROVE  SlotsOK' /\ ReadsOK' /\ PlacesOK' /\ CrewOK'
<1>1. SlotsOK'
  BY BeginKeepsSlots
<1>2. ReadsOK' /\ CrewOK'
  BY TransitionLocations DEF Begin, SlotsOK, ReadsOK, CrewOK
<1>3. PlacesOK'
  BY DEF Begin, SlotsOK, PlacesOK
<1>. QED BY <1>1, <1>2, <1>3

\* Appending a row to a job's trail.
LEMMA TrailAppends ==
    ASSUME DataTypeOK, NEW j \in Jobs, NEW from \in JobStatuses \cup {Absent},
           NEW to \in JobStatuses
    PROVE  Append(trail[j], Event(from, to)) \in Seq(EventRows)
<1>1. Event(from, to) \in EventRows
  BY DEF Event, EventRows
<1>2. trail[j] \in Seq(EventRows)
  BY DEF DataTypeOK
<1>. QED BY <1>1, <1>2

LEMMA BeginKeepsKnown ==
    ASSUME SlotsOK, KnownJobs, NEW r \in Runs, NEW t \in Task, NEW l, Begin(r, l, t),
           status'[t.job] # Absent,
           \A j \in Jobs : status[j] # Absent => status'[j] # Absent,
           \A m \in Messages : msg'[m] # "none" => msg[m] # "none"
    PROVE  KnownJobs'
<1>1. ASSUME NEW s \in Runs, at'[s] # "idle" PROVE status'[task'[s].job] # Absent
  <2>1. CASE s = r
    BY <2>1 DEF Begin, SlotsOK
  <2>2. CASE s # r
    <3>1. at[s] # "idle" /\ task'[s] = task[s]
      BY <1>1, <2>2 DEF Begin, SlotsOK
    <3>. QED BY <3>1, BusyRun DEF KnownJobs
  <2>. QED BY <2>1, <2>2
<1>2. ASSUME NEW m \in Messages, msg'[m] # "none" PROVE status'[m[2]] # Absent
  BY <1>2 DEF KnownJobs, Messages
<1>. QED BY <1>1, <1>2 DEF KnownJobs

LEMMA StartsKeepType ==
    ASSUME TypeInv, NEW r \in Runs,
           \/ \E j \in Jobs : CreateJob(r, j) \/ OperatorTake(r, j)
           \/ \E m \in Messages : Deliver(r, m)
    PROVE  TypeInv'
<1>. USE DEF TypeInv, TypeOK
<1>1. ASSUME NEW j \in Jobs, CreateJob(r, j) PROVE TypeInv'
  <2>. DEFINE t == [stage |-> "create", job |-> j, read |-> 0, via |-> "api"]
  <2>1. t \in Task /\ "toQueued" \in Locations \ {"idle"} /\ "toQueued" \in Places[t.stage]
    BY TransitionLocations DEF Task, Locations, Places
  <2>2. SlotsOK' /\ ReadsOK' /\ PlacesOK' /\ CrewOK'
    <3>1. Begin(r, "toQueued", t) /\ t.stage = "create" /\ t.via = "api"
      BY <1>1 DEF CreateJob
    <3>. HIDE DEF t
    <3>. QED BY <2>1, <3>1, BeginKeepsShape
  <2>3. Append(trail[j], Event(Absent, "CREATED")) \in Seq(EventRows)
    BY TrailAppends DEF JobStatuses
  <2>5. DataTypeOK'
    BY <1>1, <2>3 DEF CreateJob, DataTypeOK, JobStatuses
  <2>6. QueueTypeOK' /\ FaultsOK'
    BY <1>1 DEF CreateJob, queueVars, QueueTypeOK, FaultsOK
  <2>7. KnownJobs'
    <3>1. Begin(r, "toQueued", t) /\ t.job = j
      BY <1>1 DEF CreateJob
    <3>2. status'[j] = "CREATED" /\ status' = [status EXCEPT ![j] = "CREATED"] /\ msg' = msg
      BY <1>1 DEF CreateJob, queueVars, DataTypeOK
    <3>3. \A i \in Jobs : status[i] # Absent => status'[i] # Absent
      BY <3>2, Absence DEF DataTypeOK, JobStatuses
    <3>. HIDE DEF t
    <3>. QED BY <2>1, <3>1, <3>2, <3>3, BeginKeepsKnown, Absence DEF JobStatuses
  <2>. QED BY <2>2, <2>5, <2>6, <2>7
<1>2. ASSUME NEW j \in Jobs, OperatorTake(r, j) PROVE TypeInv'
  <2>. DEFINE t == [stage |-> "job", job |-> j, read |-> 0, via |-> "operator"]
  <2>1. t \in Task /\ "start" \in Locations \ {"idle"} /\ "start" \in Places[t.stage]
    BY DEF Task, Locations, QUEUES, Places
  <2>2. SlotsOK' /\ ReadsOK' /\ PlacesOK' /\ CrewOK'
    BY <1>2, <2>1, BeginKeepsShape DEF OperatorTake
  <2>4. FaultsOK'
    BY <1>2, BoundsAssumption DEF OperatorTake, FaultsOK, BoundsAssumption
  <2>5. QueueTypeOK' /\ DataTypeOK'
    BY <1>2 DEF OperatorTake, dataVars, queueVars, QueueTypeOK, DataTypeOK
  <2>6. KnownJobs'
    <3>1. Begin(r, "start", t) /\ t.job = j /\ status[j] # Absent
      BY <1>2 DEF OperatorTake, Absent
    <3>2. status' = status /\ msg' = msg
      BY <1>2 DEF OperatorTake, dataVars, queueVars
    <3>. HIDE DEF t
    <3>. QED BY <2>1, <3>1, <3>2, BeginKeepsKnown
  <2>. QED BY <2>2, <2>4, <2>5, <2>6
<1>3. ASSUME NEW m \in Messages, Deliver(r, m) PROVE TypeInv'
  <2>. DEFINE t == [stage |-> m[1], job |-> m[2], read |-> readCt[m] + 1, via |-> "queue"]
  <2>1. m[1] \in QUEUES /\ m[2] \in Jobs /\ readCt[m] \in Nat
    BY DEF Messages, QueueTypeOK
  <2>2. t \in Task /\ Entry[m[1]] \in Locations \ {"idle"} /\ Entry[m[1]] \in Places[m[1]]
    BY <2>1, TransitionLocations DEF Task, Locations, QUEUES, Entry, Places
  <2>3. t.stage # "create" /\ t.via = "queue" /\ Entry[m[1]] # "onFailed"
    BY <2>1 DEF QUEUES, Entry
  <2>4. SlotsOK' /\ ReadsOK' /\ PlacesOK' /\ CrewOK'
    <3>. HIDE DEF t
    <3>1. Begin(r, Entry[m[1]], t)
      BY <1>3 DEF Deliver, t
    <3>2. t.stage = m[1]
      BY DEF t
    <3>. QED BY <2>2, <2>3, <3>1, <3>2, BeginKeepsShape
  <2>6. QueueTypeOK'
    BY <1>3, QueueSteps DEF Deliver
  <2>7. DataTypeOK' /\ FaultsOK'
    BY <1>3 DEF Deliver, dataVars, DataTypeOK, FaultsOK
  <2>8. KnownJobs'
    <3>1. Begin(r, Entry[m[1]], t) /\ t.job = m[2] /\ status[m[2]] # Absent
      BY <1>3 DEF Deliver, Read, KnownJobs
    <3>2. /\ status' = status
          /\ \A n \in Messages : msg'[n] # "none" => msg[n] # "none"
      BY <1>3 DEF Deliver, Read, dataVars, QueueTypeOK
    <3>. HIDE DEF t
    <3>. QED BY <2>2, <3>1, <3>2, BeginKeepsKnown
  <2>. QED BY <2>4, <2>6, <2>7, <2>8
<1>. QED BY <1>1, <1>2, <1>3

\* JobEngine.transition, agent selection and the agents' loop.
LEMMA JobStepsKeepType ==
    ASSUME TypeInv, NEW r \in Runs,
           \/ ReadStatus(r) \/ WriteStatus(r) \/ SelectAgents(r) \/ LoadAssignments(r)
           \/ JoinAgents(r)
    PROVE  TypeInv'
<1>. USE DEF TypeInv, TypeOK
<1>1. at[r] # "idle" /\ (at[r] \notin Transitions => seen[r] = Unread)
  BY TransitionLocations
     DEF ReadStatus, WriteStatus, SelectAgents, LoadAssignments, JoinAgents, ReadsOK
<1>2. task[r].job \in Jobs
  BY <1>1, BusyRun
<1>3. CASE ReadStatus(r)
  <2>1. CASE Branch(r, After(r)) \/ Branch(r, Thrown(r))
    BY <1>1, <1>3, <2>1, BranchKeepsType DEF ReadStatus, Onwards
  <2>2. CASE /\ seen' = [seen EXCEPT ![r] = status[task[r].job]]
             /\ UNCHANGED <<dataVars, queueVars, at, task, crew, faults>>
             /\ status[task[r].job] # Absent
    <3>1. status[task[r].job] \in JobStatuses
      BY <1>2, <2>2 DEF DataTypeOK
    <3>2. SlotsOK' /\ PlacesOK' /\ ReadsOK' /\ CrewOK' /\ FaultsOK'
      BY <1>3, <2>2, <3>1 DEF ReadStatus, SlotsOK, PlacesOK, ReadsOK, CrewOK, FaultsOK
    <3>3. DataTypeOK' /\ QueueTypeOK' /\ KnownJobs'
      BY <2>2 DEF dataVars, queueVars, DataTypeOK, QueueTypeOK, KnownJobs
    <3>. QED BY <3>2, <3>3
  <2>. QED BY <1>1, <1>3, <2>1, <2>2 DEF ReadStatus, KnownJobs
<1>4. CASE WriteStatus(r)
  <2>1. at[r] \in Transitions /\ Target[at[r]] \in JobStatuses /\ seen[r] \in JobStatuses
    BY <1>4, TransitionLocations DEF WriteStatus, ReadsOK
  <2>2. SlotsOK' /\ PlacesOK'
    BY <1>1, <1>4, <2>1, Continuations, GotoKeepsSlots, GotoKeepsPlaces DEF WriteStatus, Onwards
  <2>3. ReadsOK'
    BY <1>4 DEF WriteStatus, Goto, SlotsOK, ReadsOK
  <2>4. KnownJobs'
    BY <1>1, <1>2, <1>4, <2>1, Absence, GotoKeepsKnown DEF WriteStatus, queueVars, DataTypeOK
  <2>5. DataTypeOK'
    <3>1. Append(trail[task[r].job], Event(seen[r], Target[at[r]])) \in Seq(EventRows)
      BY <1>2, <2>1, TrailAppends
    <3>. QED BY <1>4, <2>1, <3>1 DEF WriteStatus, DataTypeOK
  <2>6. QueueTypeOK' /\ CrewOK' /\ FaultsOK'
    BY <1>4 DEF WriteStatus, queueVars, QueueTypeOK, CrewOK, FaultsOK
  <2>. QED BY <2>2, <2>3, <2>4, <2>5, <2>6
<1>5. CASE SelectAgents(r)
  <2>1. task[r].stage = "job" /\ seen[r] = Unread
    BY <1>5, <1>1, StageAt, TransitionLocations DEF SelectAgents
  <2>2. CASE Branch(r, "toFailed")
    BY <1>1, <2>1, <2>2, BranchKeepsType DEF Onwards, Places
  <2>3. CASE \E cohort \in (SUBSET Agents) \ {{}} :
               /\ assignment' = [assignment EXCEPT ![task[r].job] =
                    [a \in Agents |-> IF a \in cohort /\ @[a] = "none" THEN "PENDING" ELSE @[a]]]
               /\ Goto(r, "toAssigned")
               /\ UNCHANGED <<status, trail, outputs, evaluations, consensus, rewards,
                              queueVars, seen, crew, faults>>
    <3>1. SlotsOK' /\ ReadsOK' /\ PlacesOK' /\ KnownJobs'
      BY <1>1, <2>1, <2>3, MoveKeepsShape DEF queueVars, Onwards, Places
    <3>2. DataTypeOK'
      BY <1>2, <2>3 DEF DataTypeOK, AssignmentStates
    <3>3. QueueTypeOK' /\ CrewOK' /\ FaultsOK'
      BY <2>3 DEF queueVars, QueueTypeOK, CrewOK, FaultsOK
    <3>. QED BY <3>1, <3>2, <3>3
  <2>. QED BY <1>5, <2>2, <2>3 DEF SelectAgents
<1>6. CASE LoadAssignments(r)
  <2>1. task[r].stage = "job" /\ seen[r] = Unread
    BY <1>6, <1>1, StageAt, TransitionLocations DEF LoadAssignments
  <2>2. SlotsOK' /\ ReadsOK' /\ PlacesOK' /\ KnownJobs'
    BY <1>1, <1>6, <2>1, MoveKeepsShape DEF LoadAssignments, dataVars, queueVars, Onwards, Places
  <2>3. CrewOK'
    BY <1>6 DEF LoadAssignments, CrewOK, Progress
  <2>4. DataTypeOK' /\ QueueTypeOK' /\ FaultsOK'
    BY <1>6 DEF LoadAssignments, dataVars, queueVars, DataTypeOK, QueueTypeOK, FaultsOK
  <2>. QED BY <2>2, <2>3, <2>4
<1>7. CASE JoinAgents(r)
  <2>1. task[r].stage = "job" /\ seen[r] = Unread
    BY <1>7, <1>1, StageAt, TransitionLocations DEF JoinAgents
  <2>2. SlotsOK' /\ ReadsOK' /\ PlacesOK' /\ KnownJobs'
    BY <1>1, <1>7, <2>1, MoveKeepsShape DEF JoinAgents, dataVars, queueVars, Onwards, Places
  <2>3. CrewOK'
    BY <1>7 DEF JoinAgents, CrewOK, NoCrew, Progress
  <2>4. DataTypeOK' /\ QueueTypeOK' /\ FaultsOK'
    BY <1>7 DEF JoinAgents, dataVars, queueVars, DataTypeOK, QueueTypeOK, FaultsOK
  <2>. QED BY <2>2, <2>3, <2>4
<1>. QED BY <1>3, <1>4, <1>5, <1>6, <1>7

\* runAssignment and the loop over the outputs.
LEMMA AgentStepsKeepType ==
    ASSUME TypeInv, NEW r \in Runs, NEW a \in Agents, AgentStep(r, a)
    PROVE  TypeInv'
<1>. USE DEF AgentStep, AgentStart, AgentPersist, AgentSubmit, AgentFail, FindEvaluation,
             CreateEvaluation, SetAssignment, SetCrew
<1>1. task[r].job \in Jobs
  BY BusyRun DEF TypeInv, TypeOK
<1>2. SlotsOK' /\ ReadsOK' /\ PlacesOK' /\ KnownJobs'
  BY StayKeepsShape DEF queueVars, dataVars
<1>3. CrewOK'
  BY DEF TypeInv, TypeOK, CrewOK, Progress
<1>4. DataTypeOK'
  <2>1. ASSUME NEW p \in AssignmentStates, SetAssignment(r, a, p)
        PROVE  assignment' \in [Jobs -> [Agents -> AssignmentStates]]
    BY <1>1, <2>1 DEF TypeInv, TypeOK, DataTypeOK
  <2>2. CASE AgentStart(r, a) \/ AgentSubmit(r, a) \/ AgentFail(r, a)
    <3>1. assignment' \in [Jobs -> [Agents -> AssignmentStates]]
      BY <2>1, <2>2 DEF AssignmentStates
    <3>. QED BY <2>2, <3>1 DEF TypeInv, TypeOK, DataTypeOK
  <2>3. CASE AgentPersist(r, a)
    BY <1>1, <2>3 DEF TypeInv, TypeOK, DataTypeOK
  <2>4. CASE FindEvaluation(r, a)
    BY <2>4 DEF dataVars, TypeInv, TypeOK, DataTypeOK
  <2>5. CASE CreateEvaluation(r, a)
    BY <1>1, <2>5 DEF TypeInv, TypeOK, DataTypeOK
  <2>. QED BY <2>2, <2>3, <2>4, <2>5
<1>5. QueueTypeOK' /\ FaultsOK'
  BY DEF TypeInv, TypeOK, queueVars, QueueTypeOK, FaultsOK
<1>. QED BY <1>2, <1>3, <1>4, <1>5 DEF TypeInv, TypeOK

\* The stages after execution.
LEMMA StageStepsKeepType ==
    ASSUME TypeInv, NEW r \in Runs,
           \/ LoadOutputs(r) \/ EvaluationDone(r) \/ Merge(r) \/ Judge(r)
           \/ CheckResolved(r) \/ CountRewards(r) \/ MintRewards(r)
    PROVE  TypeInv'
<1>. USE DEF TypeInv, TypeOK
<1>1. at[r] # "idle" /\ seen[r] = Unread /\ task[r].job \in Jobs
  BY BusyRun, TransitionLocations
     DEF LoadOutputs, EvaluationDone, Merge, Judge, CheckResolved, CountRewards, MintRewards,
         ReadsOK
<1>2. CASE LoadOutputs(r)
  <2>1. task[r].stage = "evaluation"
    BY <1>2, StageAt DEF LoadOutputs
  <2>2. CASE Branch(r, "toFailed")
    BY <1>1, <2>1, <2>2, BranchKeepsType DEF Onwards, Places
  <2>3. CASE ~Branch(r, "toFailed")
    <3>1. SlotsOK' /\ ReadsOK' /\ PlacesOK' /\ KnownJobs'
      BY <1>1, <1>2, <2>1, <2>3, MoveKeepsShape DEF LoadOutputs, dataVars, queueVars, Onwards, Places
    <3>2. CrewOK'
      BY <1>2, <2>3 DEF LoadOutputs, CrewOK, Progress
    <3>3. DataTypeOK' /\ QueueTypeOK' /\ FaultsOK'
      BY <1>2, <2>3 DEF LoadOutputs, dataVars, queueVars, DataTypeOK, QueueTypeOK, FaultsOK
    <3>. QED BY <3>1, <3>2, <3>3
  <2>. QED BY <2>2, <2>3
<1>3. CASE EvaluationDone(r)
  <2>1. task[r].stage = "evaluation"
    BY <1>3, StageAt DEF EvaluationDone
  <2>2. SlotsOK' /\ ReadsOK' /\ PlacesOK' /\ KnownJobs'
    BY <1>1, <1>3, <2>1, MoveKeepsShape DEF EvaluationDone, dataVars, queueVars, Onwards, Places
  <2>3. CrewOK'
    BY <1>3 DEF EvaluationDone, CrewOK, NoCrew, Progress
  <2>4. DataTypeOK' /\ QueueTypeOK' /\ FaultsOK'
    BY <1>3 DEF EvaluationDone, dataVars, queueVars, DataTypeOK, QueueTypeOK, FaultsOK
  <2>. QED BY <2>2, <2>3, <2>4
<1>4. CASE Merge(r)
  <2>1. task[r].stage = "consensus"
    BY <1>4, StageAt DEF Merge
  <2>2. CASE Branch(r, "toFailed")
    BY <1>1, <2>1, <2>2, BranchKeepsType DEF Onwards, Places
  <2>3. CASE ~Branch(r, "toFailed")
    <3>1. SlotsOK' /\ ReadsOK' /\ PlacesOK' /\ KnownJobs'
      BY <1>1, <1>4, <2>1, <2>3, MoveKeepsShape DEF Merge, queueVars, Onwards, Places
    <3>2. DataTypeOK'
      BY <1>1, <1>4, <2>3 DEF Merge, DataTypeOK
    <3>3. QueueTypeOK' /\ CrewOK' /\ FaultsOK'
      BY <1>4, <2>3 DEF Merge, queueVars, QueueTypeOK, CrewOK, FaultsOK
    <3>. QED BY <3>1, <3>2, <3>3
  <2>. QED BY <2>2, <2>3
<1>5. CASE Judge(r)
  <2>1. task[r].stage = "consensus"
    BY <1>5, StageAt DEF Judge
  <2>. QED BY <1>1, <1>5, <2>1, BranchKeepsType DEF Judge, Onwards, Places
<1>6. CASE CheckResolved(r) \/ CountRewards(r)
  <2>1. task[r].stage = "resolution"
    BY <1>6, StageAt DEF CheckResolved, CountRewards
  <2>. QED BY <1>1, <1>6, <2>1, BranchKeepsType DEF CheckResolved, CountRewards, Onwards, Places
<1>7. CASE MintRewards(r)
  <2>1. SlotsOK' /\ ReadsOK' /\ PlacesOK' /\ KnownJobs'
    BY <1>1, <1>7, MoveKeepsShape DEF MintRewards, queueVars, Onwards
  <2>2. DataTypeOK'
    BY <1>1, <1>7 DEF MintRewards, DataTypeOK
  <2>3. QueueTypeOK' /\ CrewOK' /\ FaultsOK'
    BY <1>7 DEF MintRewards, queueVars, QueueTypeOK, CrewOK, FaultsOK
  <2>. QED BY <2>1, <2>2, <2>3
<1>. QED BY <1>2, <1>3, <1>4, <1>5, <1>6, <1>7

\* enqueue and the end of dispatch.
LEMMA QueueStepsKeepType ==
    ASSUME TypeInv, NEW r \in Runs,
           \/ EnqueueClaim(r) \/ EnqueueSend(r) \/ Acknowledge(r) \/ Retry(r) \/ GiveUp(r)
    PROVE  TypeInv'
<1>. USE DEF TypeInv, TypeOK
<1>1. at[r] # "idle" /\ seen[r] = Unread /\ task[r].job \in Jobs
  BY BusyRun, TransitionLocations
     DEF EnqueueClaim, EnqueueSend, Acknowledge, Retry, GiveUp, ReadsOK
<1>2. CASE EnqueueClaim(r)
  <2>. DEFINE m == <<NextQueue[task[r].stage], task[r].job>>
  <2>1. task[r].stage \in {"create", "job", "evaluation", "consensus"} /\ m \in Messages
    BY <1>1, <1>2, StageAt, Queues DEF EnqueueClaim
  <2>2. CASE Branch(r, Finish(r))
    BY <1>1, <2>2, BranchKeepsType DEF Onwards
  <2>3. CASE Claim(m) /\ Goto(r, "send") /\ UNCHANGED <<dataVars, seen, crew, faults>>
    <3>1. SlotsOK' /\ ReadsOK' /\ PlacesOK' /\ KnownJobs'
      BY <1>1, <2>1, <2>3, MoveKeepsShape DEF Claim, dataVars, Onwards, Places
    <3>2. QueueTypeOK'
      BY <2>1, <2>3, QueueSteps
    <3>3. DataTypeOK' /\ CrewOK' /\ FaultsOK'
      BY <2>3 DEF dataVars, DataTypeOK, CrewOK, FaultsOK
    <3>. QED BY <3>1, <3>2, <3>3
  <2>. QED BY <1>2, <2>2, <2>3 DEF EnqueueClaim
<1>3. CASE EnqueueSend(r)
  <2>. DEFINE m == <<NextQueue[task[r].stage], task[r].job>>
  <2>1. task[r].stage \in {"create", "job", "evaluation", "consensus"} /\ m \in Messages
    BY <1>1, <1>3, StageAt, Queues DEF EnqueueSend
  <2>2. SlotsOK' /\ ReadsOK' /\ PlacesOK'
    BY <1>1, <1>3, GotoKeepsShape DEF EnqueueSend, Onwards
  <2>3. KnownJobs'
    <3>1. \A s \in Runs : at'[s] # "idle" => at[s] # "idle" /\ task'[s] = task[s]
      BY <1>3 DEF EnqueueSend, Goto, SlotsOK
    <3>2. \A n \in Messages : msg'[n] # "none" => msg[n] # "none" \/ n = m
      BY <1>3 DEF EnqueueSend, Send, QueueTypeOK
    <3>3. status' = status /\ status[m[2]] # Absent
      BY <1>1, <1>3 DEF EnqueueSend, dataVars, KnownJobs
    <3>. HIDE DEF m
    <3>. QED BY <3>1, <3>2, <3>3 DEF KnownJobs
  <2>4. QueueTypeOK'
    BY <1>3, <2>1, QueueSteps DEF EnqueueSend
  <2>5. DataTypeOK' /\ CrewOK' /\ FaultsOK'
    BY <1>3 DEF EnqueueSend, dataVars, DataTypeOK, CrewOK, FaultsOK
  <2>. QED BY <2>2, <2>3, <2>4, <2>5
<1>4. CASE Acknowledge(r) \/ Retry(r) \/ GiveUp(r)
  <2>. USE DEF Acknowledge, Retry, GiveUp
  <2>1. Message(r) \in Messages
    BY <1>1, <1>4, StageAt, Queues DEF Closing
  <2>2. QueueTypeOK'
    BY <1>4, <2>1, QueueSteps
  <2>3. SlotsOK' /\ ReadsOK' /\ PlacesOK'
    BY <1>1, <1>4, GotoKeepsShape DEF Leave, Onwards
  <2>4. \A n \in Messages : msg'[n] # "none" => msg[n] # "none"
    BY <1>4 DEF Delete, SetVt, Archive, MoveTo, InQueue, QueueTypeOK
  <2>5. KnownJobs'
    BY <1>1, <1>4, <2>4, GotoKeepsKnown DEF Leave, dataVars
  <2>6. DataTypeOK' /\ CrewOK' /\ FaultsOK'
    BY <1>4 DEF Leave, dataVars, DataTypeOK, CrewOK, FaultsOK
  <2>. QED BY <2>2, <2>3, <2>5, <2>6
<1>. QED BY <1>2, <1>3, <1>4

LEMMA FaultsKeepType ==
    ASSUME TypeInv, NEW r \in Runs, Fault(r)
    PROVE  TypeInv'
<1>. USE DEF TypeInv, TypeOK
<1>1. ASSUME NEW l, at[r] # "idle", Onwards(r, l), Abandon(r, l), FaultsOK' PROVE TypeInv'
  <2>1. SlotsOK' /\ PlacesOK'
    BY <1>1, OnwardsLocations, GotoKeepsSlots, GotoKeepsPlaces DEF Abandon
  <2>2. ReadsOK' /\ CrewOK'
    BY <1>1 DEF Abandon, Goto, SlotsOK, ReadsOK, CrewOK, NoCrew, Progress
  <2>3. KnownJobs'
    BY <1>1, GotoKeepsKnown DEF Abandon, dataVars, queueVars
  <2>4. DataTypeOK' /\ QueueTypeOK'
    BY <1>1 DEF Abandon, dataVars, queueVars, DataTypeOK, QueueTypeOK
  <2>. QED BY <1>1, <2>1, <2>2, <2>3, <2>4
<1>2. CASE Crash(r)
  <2>1. FaultsOK'
    BY <1>2, BoundsAssumption DEF Crash, FaultsOK, BoundsAssumption
  <2>. QED BY <1>1, <1>2, <2>1 DEF Crash, Onwards
<1>3. CASE CallFails(r)
  <2>1. FaultsOK'
    BY <1>3, BoundsAssumption DEF CallFails, FaultsOK, BoundsAssumption
  <2>2. CASE at[r] \in {"setVt", "archive"}
    BY <1>1, <1>3, <2>1, <2>2 DEF CallFails, Onwards
  <2>3. CASE at[r] \in {"toFailed", "onFailed"}
    BY <1>1, <1>3, <2>1, <2>3, TransitionLocations DEF CallFails, Onwards
  <2>4. CASE at[r] \notin {"setVt", "archive", "toFailed", "onFailed"}
    BY <1>1, <1>3, <2>1, <2>4 DEF CallFails, Onwards
  <2>. QED BY <2>2, <2>3, <2>4
<1>4. ASSUME NEW a \in Agents, AgentCallFails(r, a) PROVE TypeInv'
  <2>1. task[r].job \in Jobs
    BY <1>4, BusyRun DEF AgentCallFails
  <2>2. SlotsOK' /\ ReadsOK' /\ PlacesOK' /\ KnownJobs'
    BY <1>4, StayKeepsShape DEF AgentCallFails, queueVars
  <2>3. CrewOK'
    BY <1>4 DEF AgentCallFails, SetCrew, CrewOK, Progress
  <2>4. DataTypeOK'
    <3>1. SetAssignment(r, a, "FAILED") => assignment' \in [Jobs -> [Agents -> AssignmentStates]]
      BY <2>1 DEF SetAssignment, DataTypeOK, AssignmentStates
    <3>. QED BY <1>4, <3>1 DEF AgentCallFails, DataTypeOK
  <2>5. QueueTypeOK'
    BY <1>4 DEF AgentCallFails, queueVars, QueueTypeOK
  <2>6. FaultsOK'
    BY <1>4, BoundsAssumption DEF AgentCallFails, FaultsOK, BoundsAssumption
  <2>. QED BY <2>2, <2>3, <2>4, <2>5, <2>6
<1>. QED BY <1>2, <1>3, <1>4 DEF Fault

LEMMA ExpiryKeepsType ==
    ASSUME TypeInv, NEW m \in Messages, LeaseExpires(m)
    PROVE  TypeInv'
<1>. USE DEF TypeInv, TypeOK
<1>1. QueueTypeOK'
  BY QueueSteps DEF LeaseExpires
<1>2. SlotsOK' /\ ReadsOK' /\ PlacesOK' /\ CrewOK' /\ DataTypeOK'
  BY DEF LeaseExpires, runVars, dataVars, SlotsOK, ReadsOK, PlacesOK, CrewOK, DataTypeOK
<1>3. KnownJobs'
  BY DEF LeaseExpires, Expire, runVars, dataVars, KnownJobs, QueueTypeOK
<1>4. FaultsOK'
  BY BoundsAssumption DEF LeaseExpires, FaultsOK, BoundsAssumption
<1>. QED BY <1>1, <1>2, <1>3, <1>4

------------------------------------------------------------------------------
LEMMA TypeInvStep == TypeInv /\ [Next]_vars => TypeInv'
<1>. SUFFICES ASSUME TypeInv, [Next]_vars PROVE TypeInv'
  OBVIOUS
<1>1. ASSUME NEW r \in Runs, RunStep(r) PROVE TypeInv'
  BY <1>1, JobStepsKeepType, AgentStepsKeepType, StageStepsKeepType, QueueStepsKeepType
     DEF RunStep
<1>2. ASSUME NEW r \in Runs, Fault(r) PROVE TypeInv'
  BY <1>2, FaultsKeepType
<1>3. ASSUME NEW r \in Runs,
             \/ \E j \in Jobs : CreateJob(r, j) \/ OperatorTake(r, j)
             \/ \E m \in Messages : Deliver(r, m)
      PROVE  TypeInv'
  BY <1>3, StartsKeepType
<1>4. ASSUME NEW m \in Messages, LeaseExpires(m) PROVE TypeInv'
  BY <1>4, ExpiryKeepsType
<1>5. CASE UNCHANGED vars
  <2>1. SlotsOK' /\ ReadsOK' /\ PlacesOK' /\ KnownJobs'
    BY <1>5, StayKeepsShape DEF vars, dataVars, queueVars, runVars
  <2>2. QueueTypeOK' /\ DataTypeOK' /\ CrewOK' /\ FaultsOK'
    BY <1>5 DEF vars, dataVars, queueVars, runVars, TypeInv, TypeOK,
                QueueTypeOK, DataTypeOK, CrewOK, FaultsOK
  <2>. QED BY <2>1, <2>2 DEF TypeInv, TypeOK
<1>. QED BY <1>1, <1>2, <1>3, <1>4, <1>5 DEF Next

LEMMA TypeInvInit == Init => TypeInv
<1>. SUFFICES ASSUME Init PROVE TypeInv
  OBVIOUS
<1>1. QueueTypeOK
  BY DEF Init, QueueInit, QueueTypeOK, MsgStates
<1>2. DataTypeOK
  BY DEF Init, DataTypeOK, AssignmentStates
<1>3. SlotsOK /\ ReadsOK /\ PlacesOK /\ CrewOK
  BY DEF Init, SlotsOK, ReadsOK, PlacesOK, CrewOK, Locations, NoCrew, Progress
<1>4. FaultsOK
  BY BoundsAssumption DEF Init, FaultsOK, BoundsAssumption
<1>5. KnownJobs
  BY DEF Init, QueueInit, KnownJobs
<1>. QED BY <1>1, <1>2, <1>3, <1>4, <1>5 DEF TypeInv, TypeOK

THEOREM TypeInvariant == Spec => []TypeInv
BY TypeInvInit, TypeInvStep, PTL DEF Spec

\* Every variable keeps its type, and every freed slot is empty, whatever
\* crashes, fails, expires or overlaps.
THEOREM TypeCorrect == Spec => []TypeOK
<1>1. TypeInv => TypeOK
  BY DEF TypeInv
<1>. QED BY <1>1, TypeInvariant, PTL

------------------------------------------------------------------------------

\* The steps of run s, and what they leave to every other run.
StepOf(s) ==
    \/ RunStep(s)
    \/ Fault(s)
    \/ \E j \in Jobs : CreateJob(s, j) \/ OperatorTake(s, j)
    \/ \E m \in Messages : Deliver(s, m)

OnlyMoves(s) ==
    \A r \in Runs \ {s} :
        at'[r] = at[r] /\ task'[r] = task[r] /\ seen'[r] = seen[r] /\ crew'[r] = crew[r]

LEMMA Locality ==
    ASSUME TypeInv, NEW s \in Runs, StepOf(s)
    PROVE  OnlyMoves(s)
<1>. USE DEF TypeInv, TypeOK, SlotsOK, ReadsOK, CrewOK
<1>1. ASSUME NEW l, Goto(s, l) PROVE
        \A r \in Runs \ {s} : at'[r] = at[r] /\ task'[r] = task[r]
  BY <1>1 DEF Goto
<1>2. ASSUME NEW l, Branch(s, l) PROVE OnlyMoves(s)
  BY <1>1, <1>2 DEF Branch, OnlyMoves
<1>3. ASSUME NEW l, Abandon(s, l) PROVE OnlyMoves(s)
  BY <1>1, <1>3 DEF Abandon, OnlyMoves
<1>4. ASSUME NEW l, NEW t, Begin(s, l, t) PROVE OnlyMoves(s)
  BY <1>4 DEF Begin, OnlyMoves
<1>5. CASE ReadStatus(s) \/ WriteStatus(s) \/ SelectAgents(s) \/ LoadAssignments(s) \/ JoinAgents(s)
  BY <1>1, <1>2, <1>5 DEF ReadStatus, WriteStatus, SelectAgents, LoadAssignments, JoinAgents, OnlyMoves
<1>6. CASE EnqueueClaim(s) \/ EnqueueSend(s) \/ Acknowledge(s) \/ Retry(s) \/ GiveUp(s)
  BY <1>1, <1>2, <1>6 DEF EnqueueClaim, EnqueueSend, Acknowledge, Retry, GiveUp, Leave, OnlyMoves
<1>7. CASE \/ LoadOutputs(s) \/ EvaluationDone(s) \/ Merge(s) \/ Judge(s)
           \/ CheckResolved(s) \/ CountRewards(s) \/ MintRewards(s)
  BY <1>1, <1>2, <1>7 DEF LoadOutputs, EvaluationDone, Merge, Judge, CheckResolved, CountRewards,
                          MintRewards, OnlyMoves
<1>8. ASSUME NEW a \in Agents, AgentStep(s, a) PROVE OnlyMoves(s)
  BY <1>8 DEF AgentStep, AgentStart, AgentPersist, AgentSubmit, AgentFail, FindEvaluation,
              CreateEvaluation, SetCrew, OnlyMoves
<1>9. CASE Fault(s)
  BY <1>3, <1>9 DEF Fault, Crash, CallFails, AgentCallFails, SetCrew, OnlyMoves
<1>10. CASE \/ \E j \in Jobs : CreateJob(s, j) \/ OperatorTake(s, j)
            \/ \E m \in Messages : Deliver(s, m)
  BY <1>4, <1>10 DEF CreateJob, OperatorTake, Deliver
<1>. QED BY <1>5, <1>6, <1>7, <1>8, <1>9, <1>10 DEF StepOf, RunStep

\* Who writes what.
LEMMA StatusWriters ==
    ASSUME TypeInv, NEW s \in Runs, StepOf(s)
    PROVE  \/ UNCHANGED <<status, trail>>
           \/ WriteStatus(s)
           \/ \E j \in Jobs : CreateJob(s, j)
BY DEF StepOf, RunStep, Fault, AgentStep, dataVars, Branch, Abandon, Leave, 
       OperatorTake, Deliver, ReadStatus, SelectAgents, LoadAssignments, JoinAgents, EnqueueClaim, EnqueueSend,
       Acknowledge, Retry, GiveUp, LoadOutputs, EvaluationDone, Merge, Judge, CheckResolved, CountRewards, MintRewards,
       AgentStart, AgentPersist, AgentSubmit, AgentFail, FindEvaluation, CreateEvaluation,
       Crash, CallFails, AgentCallFails

LEMMA ConsensusWriters ==
    ASSUME TypeInv, NEW s \in Runs, StepOf(s)
    PROVE  UNCHANGED consensus \/ Merge(s)
BY DEF StepOf, RunStep, Fault, AgentStep, dataVars, Branch, Abandon, Leave, CreateJob,
       OperatorTake, Deliver, ReadStatus, WriteStatus, SelectAgents, LoadAssignments, JoinAgents, EnqueueClaim, EnqueueSend,
       Acknowledge, Retry, GiveUp, LoadOutputs, EvaluationDone, Judge, CheckResolved, CountRewards, MintRewards,
       AgentStart, AgentPersist, AgentSubmit, AgentFail, FindEvaluation, CreateEvaluation,
       Crash, CallFails, AgentCallFails

LEMMA RewardWriters ==
    ASSUME TypeInv, NEW s \in Runs, StepOf(s)
    PROVE  UNCHANGED rewards \/ MintRewards(s)
BY DEF StepOf, RunStep, Fault, AgentStep, dataVars, Branch, Abandon, Leave, CreateJob,
       OperatorTake, Deliver, ReadStatus, WriteStatus, SelectAgents, LoadAssignments, JoinAgents, EnqueueClaim, EnqueueSend,
       Acknowledge, Retry, GiveUp, LoadOutputs, EvaluationDone, Judge, CheckResolved, CountRewards, Merge,
       AgentStart, AgentPersist, AgentSubmit, AgentFail, FindEvaluation, CreateEvaluation,
       Crash, CallFails, AgentCallFails

\* Arrivals at the locations that decide about intelligence and money.
LEMMA Arrivals ==
    ASSUME TypeInv, NEW s \in Runs, StepOf(s),
           at'[s] \in {"judge", "toResolved", "count", "mint"}
    PROVE  \/ at'[s] = at[s] /\ task'[s] = task[s]
           \/ Merge(s) /\ at'[s] = "judge" /\ task'[s] = task[s]
           \/ Judge(s) /\ at'[s] = "toResolved" /\ task'[s] = task[s]
           \/ CheckResolved(s) /\ at'[s] = "count" /\ task'[s] = task[s]
           \/ CountRewards(s) /\ at'[s] = "mint" /\ task'[s] = task[s]
<1>. USE DEF TypeInv, TypeOK, SlotsOK
<1>1. /\ Finish(s) \in {"ack", "idle"}
      /\ Thrown(s) \in {"idle", "setVt", "archive", "onFailed"}
      /\ After(s) \in {"enqueue", "toRunning", "loadCrew", "load", "merge", "archive", "ack", "idle"}
  BY DEF Finish, Thrown, After, Onward
<1>2. ASSUME NEW l, Goto(s, l) PROVE at'[s] = l /\ (l # "idle" => task'[s] = task[s])
  BY <1>2 DEF Goto
<1>3. CASE ReadStatus(s) \/ WriteStatus(s) \/ SelectAgents(s) \/ LoadAssignments(s) \/ JoinAgents(s)
  BY <1>1, <1>2, <1>3
     DEF ReadStatus, WriteStatus, SelectAgents, LoadAssignments, JoinAgents, Branch
<1>4. CASE EnqueueClaim(s) \/ EnqueueSend(s) \/ Acknowledge(s) \/ Retry(s) \/ GiveUp(s)
  BY <1>1, <1>2, <1>4 DEF EnqueueClaim, EnqueueSend, Acknowledge, Retry, GiveUp, Leave, Branch
<1>5. CASE \/ LoadOutputs(s) \/ EvaluationDone(s) \/ Merge(s) \/ Judge(s)
           \/ CheckResolved(s) \/ CountRewards(s) \/ MintRewards(s)
  BY <1>1, <1>2, <1>5 DEF LoadOutputs, EvaluationDone, Merge, Judge, CheckResolved,
                          CountRewards, MintRewards, Branch
<1>6. ASSUME NEW a \in Agents, AgentStep(s, a) PROVE at'[s] = at[s] /\ task'[s] = task[s]
  BY <1>6 DEF AgentStep, AgentStart, AgentPersist, AgentSubmit, AgentFail, FindEvaluation,
              CreateEvaluation
<1>7. ASSUME NEW a \in Agents, AgentCallFails(s, a) PROVE at'[s] = at[s] /\ task'[s] = task[s]
  BY <1>7 DEF AgentCallFails
<1>8. CASE Crash(s) \/ CallFails(s)
  BY <1>1, <1>2, <1>8 DEF Crash, CallFails, Abandon
<1>9. CASE \/ \E j \in Jobs : CreateJob(s, j) \/ OperatorTake(s, j)
           \/ \E m \in Messages : Deliver(s, m)
  BY <1>9 DEF CreateJob, OperatorTake, Deliver, Begin, Entry, Messages, QUEUES
<1>. QED BY <1>3, <1>4, <1>5, <1>6, <1>7, <1>8, <1>9 DEF StepOf, RunStep, Fault

------------------------------------------------------------------------------
\* A run inside a transition has read a status from which its move is legal.
LegalReads == \A r \in Runs : seen[r] # Unread => CanTransition(seen[r], Target[at[r]])

\* A job has audit rows exactly when it has a row of its own.
TrailStarted == \A j \in Jobs : status[j] = Absent <=> trail[j] = <<>>

EventsInv == LegalReads /\ TrailStarted /\ EventsLegal

LEMMA ReadersLegal ==
    ASSUME TypeInv, LegalReads, NEW s \in Runs, StepOf(s)
    PROVE  LegalReads'
<1>1. seen'[s] # Unread => \/ seen'[s] = seen[s] /\ at'[s] = at[s]
                           \/ ReadStatus(s) /\ CanTransition(seen'[s], Target[at'[s]])
  <2>. USE DEF TypeInv, TypeOK, ReadsOK, SlotsOK
  <2>1. at[s] \notin Transitions => seen[s] = Unread
    OBVIOUS
  <2>2. CASE ReadStatus(s)
    BY <2>2 DEF ReadStatus, Branch
  <2>3. CASE WriteStatus(s) \/ Crash(s) \/ CallFails(s)
    BY <2>3 DEF WriteStatus, Crash, CallFails, Abandon
  <2>4. CASE RunStep(s) /\ ~ReadStatus(s) /\ ~WriteStatus(s)
    BY <2>1, <2>4, TransitionLocations
       DEF RunStep, AgentStep, Branch, Leave, SelectAgents, LoadAssignments, JoinAgents,
           EnqueueClaim, EnqueueSend, Acknowledge, Retry, GiveUp, LoadOutputs, EvaluationDone,
           Merge, Judge, CheckResolved, CountRewards, MintRewards, AgentStart, AgentPersist,
           AgentSubmit, AgentFail, FindEvaluation, CreateEvaluation
  <2>5. CASE \E a \in Agents : AgentCallFails(s, a)
    BY <2>5 DEF AgentCallFails
  <2>6. CASE \/ \E j \in Jobs : CreateJob(s, j) \/ OperatorTake(s, j)
             \/ \E m \in Messages : Deliver(s, m)
    BY <2>1, <2>6, TransitionLocations DEF CreateJob, OperatorTake, Deliver, Begin
  <2>. QED BY <2>2, <2>3, <2>4, <2>5, <2>6 DEF StepOf, Fault
<1>2. ASSUME NEW r \in Runs, seen'[r] # Unread PROVE CanTransition(seen'[r], Target[at'[r]])
  BY <1>1, <1>2, Locality DEF OnlyMoves, LegalReads
<1>. QED BY <1>2 DEF LegalReads, CanTransition

\* Appending a row whose move starts where the trail may stand.
LEMMA AppendLegal ==
    ASSUME DataTypeOK, EventsLegal, NEW j \in Jobs, NEW e \in EventRows,
           IF trail[j] = <<>> THEN e = Event(Absent, "CREATED")
                              ELSE e.to \in Successors[e.from],
           trail' = [trail EXCEPT ![j] = Append(@, e)]
    PROVE  EventsLegal'
<1>1. trail \in [Jobs -> Seq(EventRows)]
  BY DEF DataTypeOK
<1>2. ASSUME NEW i \in Jobs, NEW k \in DOMAIN trail'[i]
      PROVE  IF k = 1 THEN trail'[i][k] = Event(Absent, "CREATED")
                      ELSE trail'[i][k].to \in Successors[trail'[i][k].from]
  <2>1. CASE i # j \/ k \in DOMAIN trail[i]
    BY <1>1, <1>2, <2>1 DEF EventsLegal
  <2>2. CASE i = j /\ k \notin DOMAIN trail[i]
    <3>1. trail'[j] = Append(trail[j], e) /\ trail[j] \in Seq(EventRows)
      BY <1>1
    <3>2. k = Len(trail[j]) + 1 /\ trail'[j][k] = e
      BY <1>2, <2>2, <3>1
    <3>3. k = 1 => trail[j] = <<>>
      BY <3>1, <3>2
    <3>4. trail[j] = <<>> => k = 1
      BY <3>2
    <3>. QED BY <2>2, <3>2, <3>3, <3>4
  <2>. QED BY <2>1, <2>2
<1>. QED BY <1>2 DEF EventsLegal

LEMMA EventsInvStep == TypeInv /\ EventsInv /\ [Next]_vars => EventsInv'
<1>. SUFFICES ASSUME TypeInv, EventsInv, [Next]_vars PROVE EventsInv'
  OBVIOUS
<1>1. ASSUME NEW s \in Runs, StepOf(s) PROVE EventsInv'
  <2>1. LegalReads'
    BY <1>1, ReadersLegal DEF EventsInv
  <2>2. CASE UNCHANGED <<status, trail>>
    BY <2>1, <2>2 DEF EventsInv, TrailStarted, EventsLegal
  <2>3. CASE WriteStatus(s)
    <3>. DEFINE j == task[s].job
                e == Event(seen[s], Target[at[s]])
    <3>1. j \in Jobs /\ seen[s] \in JobStatuses /\ Target[at[s]] \in JobStatuses
      BY <2>3, BusyRun, TransitionLocations DEF WriteStatus, TypeInv, TypeOK, ReadsOK
    <3>2. /\ status' = [status EXCEPT ![j] = Target[at[s]]]
          /\ trail' = [trail EXCEPT ![j] = Append(@, e)]
      BY <2>3 DEF WriteStatus
    <3>3. status[j] # Absent /\ trail[j] # <<>>
      BY <2>3, <3>1, TransitionLocations DEF WriteStatus, TypeInv, KnownJobs, EventsInv, TrailStarted
    <3>4. e \in EventRows /\ e.to \in Successors[e.from]
      BY <2>3, <3>1 DEF WriteStatus, EventsInv, LegalReads, CanTransition, Event, EventRows
    <3>5. TrailStarted'
      <4>1. trail \in [Jobs -> Seq(EventRows)] /\ status \in [Jobs -> JobStatuses \cup {Absent}]
        BY DEF TypeInv, TypeOK, DataTypeOK
      <4>2. Append(trail[j], e) # <<>>
        <5>1. trail[j] \in Seq(EventRows)
          BY <3>1, <4>1
        <5>. HIDE DEF j, e
        <5>. QED BY <3>4, <5>1
      <4>3. Target[at[s]] # Absent
        BY <3>1, Absence
      <4>. HIDE DEF j, e
      <4>. QED BY <3>1, <3>2, <3>3, <4>1, <4>2, <4>3 DEF EventsInv, TrailStarted
    <3>6. EventsLegal'
      <4>. HIDE DEF j, e
      <4>. QED BY <3>1, <3>2, <3>3, <3>4, AppendLegal DEF EventsInv, TypeInv, TypeOK
    <3>. QED BY <2>1, <3>5, <3>6 DEF EventsInv
  <2>4. ASSUME NEW j \in Jobs, CreateJob(s, j) PROVE EventsInv'
    <3>. DEFINE e == Event(Absent, "CREATED")
    <3>1. /\ status[j] = Absent
          /\ status' = [status EXCEPT ![j] = "CREATED"]
          /\ trail' = [trail EXCEPT ![j] = Append(@, e)]
      BY <2>4 DEF CreateJob
    <3>2. trail[j] = <<>>
      BY <3>1 DEF EventsInv, TrailStarted
    <3>3. e \in EventRows
      BY DEF Event, EventRows, JobStatuses
    <3>4. TrailStarted'
      <4>1. trail \in [Jobs -> Seq(EventRows)] /\ status \in [Jobs -> JobStatuses \cup {Absent}]
        BY DEF TypeInv, TypeOK, DataTypeOK
      <4>2. Append(trail[j], e) # <<>> /\ "CREATED" # Absent
        BY SMTT(30), <3>3, <4>1 DEF Absent
      <4>. QED BY <3>1, <4>1, <4>2 DEF EventsInv, TrailStarted
    <3>5. EventsLegal'
      BY <3>1, <3>2, <3>3, AppendLegal DEF EventsInv, TypeInv, TypeOK
    <3>. QED BY <2>1, <3>4, <3>5 DEF EventsInv
  <2>. QED BY <1>1, <2>2, <2>3, <2>4, StatusWriters
<1>2. CASE UNCHANGED vars \/ \E m \in Messages : LeaseExpires(m)
  BY <1>2 DEF LeaseExpires, vars, dataVars, runVars, EventsInv, LegalReads, TrailStarted,
              EventsLegal, CanTransition
<1>. QED BY <1>1, <1>2 DEF Next, StepOf

\* The audit rows of every job are its creation followed by legal moves.
THEOREM AuditRowsLegal == Spec => []EventsLegal
<1>1. Init => EventsInv
  BY DEF Init, EventsInv, LegalReads, TrailStarted, EventsLegal
<1>2. EventsInv => EventsLegal
  BY DEF EventsInv
<1>. QED BY <1>1, <1>2, EventsInvStep, TypeInvariant, PTL DEF Spec

------------------------------------------------------------------------------
\* Where runs stand on the way to RESOLVED and to the rewards.
IntelligenceInv ==
    /\ PaidForIntelligence
    /\ \A j \in Jobs : status[j] = "RESOLVED" => Reached(j, "RESOLVED")
    /\ \A r \in Runs : at[r] \in {"judge", "toResolved"} => consensus[task[r].job] # {}
    /\ \A r \in Runs : at[r] \in {"count", "mint"} =>
            Reached(task[r].job, "RESOLVED") /\ task[r].job \in Funded

\* Audit rows are only added, by moves to the status they record.
LEMMA TrailGrows ==
    ASSUME TypeInv, NEW s \in Runs, StepOf(s), NEW j \in Jobs
    PROVE  /\ \A q \in JobStatuses : Recorded(trail[j], q) => Recorded(trail'[j], q)
           /\ \/ status'[j] = status[j]
              \/ Recorded(trail'[j], status'[j])
           /\ \A q \in JobStatuses : Recorded(trail'[j], q) =>
                \/ Recorded(trail[j], q)
                \/ q = "CREATED"
                \/ WriteStatus(s) /\ task[s].job = j /\ Target[at[s]] = q
<1>1. trail[j] \in Seq(EventRows) /\ status \in [Jobs -> JobStatuses \cup {Absent}]
      /\ trail \in [Jobs -> Seq(EventRows)]
  BY DEF TypeInv, TypeOK, DataTypeOK
<1>2. CASE status' = status /\ trail' = trail
  BY <1>2 DEF Recorded
<1>3. ASSUME NEW i \in Jobs, NEW from \in JobStatuses \cup {Absent}, NEW to \in JobStatuses,
             status' = [status EXCEPT ![i] = to],
             trail' = [trail EXCEPT ![i] = Append(@, Event(from, to))]
      PROVE  /\ \A q \in JobStatuses : Recorded(trail[j], q) => Recorded(trail'[j], q)
             /\ status'[j] = status[j] \/ Recorded(trail'[j], status'[j])
             /\ \A q \in JobStatuses : Recorded(trail'[j], q) => Recorded(trail[j], q) \/ (i = j /\ q = to)
  <2>1. CASE i # j
    BY <1>1, <1>3, <2>1 DEF Recorded
  <2>2. CASE i = j
    <3>. DEFINE e == Event(from, to)
    <3>1. trail'[j] = Append(trail[j], e) /\ e \in EventRows /\ e.to = to /\ status'[j] = to
      BY <1>1, <1>3, <2>2 DEF Event, EventRows
    <3>. HIDE DEF e
    <3>2. /\ DOMAIN trail'[j] = DOMAIN trail[j] \cup {Len(trail[j]) + 1}
          /\ \A k \in DOMAIN trail[j] : trail'[j][k] = trail[j][k]
          /\ trail'[j][Len(trail[j]) + 1] = e
      BY <1>1, <3>1
    <3>. QED BY <2>2, <3>1, <3>2 DEF Recorded
  <2>. QED BY <2>1, <2>2
<1>4. CASE WriteStatus(s)
  <2>1. task[s].job \in Jobs /\ seen[s] \in JobStatuses /\ Target[at[s]] \in JobStatuses
    BY <1>4, BusyRun, TransitionLocations DEF WriteStatus, TypeInv, TypeOK, ReadsOK
  <2>. QED BY <1>3, <1>4, <2>1 DEF WriteStatus
<1>5. ASSUME NEW i \in Jobs, CreateJob(s, i)
      PROVE  /\ status' = [status EXCEPT ![i] = "CREATED"]
             /\ trail' = [trail EXCEPT ![i] = Append(@, Event(Absent, "CREATED"))]
  BY <1>5 DEF CreateJob
<1>6. CASE \E i \in Jobs : CreateJob(s, i)
  <2>1. PICK i \in Jobs : CreateJob(s, i)
    BY <1>6
  <2>2. "CREATED" \in JobStatuses
    BY DEF JobStatuses
  <2>3. /\ \A q \in JobStatuses : Recorded(trail[j], q) => Recorded(trail'[j], q)
        /\ status'[j] = status[j] \/ Recorded(trail'[j], status'[j])
        /\ \A q \in JobStatuses : Recorded(trail'[j], q) => Recorded(trail[j], q) \/ (i = j /\ q = "CREATED")
    BY <1>3, <1>5, <2>1, <2>2
  <2>. QED BY <2>3
<1>. QED BY <1>2, <1>4, <1>6, StatusWriters

\* The contributors of a consensus stay, once merged.
LEMMA ConsensusStays ==
    ASSUME TypeInv, NEW s \in Runs, StepOf(s), NEW j \in Jobs, consensus[j] # {}
    PROVE  consensus'[j] # {}
BY ConsensusWriters DEF Merge, Branch, dataVars, TypeInv, TypeOK, DataTypeOK

LEMMA IntelligenceInvStep == TypeInv /\ IntelligenceInv /\ [Next]_vars => IntelligenceInv'
<1>. SUFFICES ASSUME TypeInv, IntelligenceInv, [Next]_vars PROVE IntelligenceInv'
  OBVIOUS
<1>1. ASSUME NEW s \in Runs, StepOf(s) PROVE IntelligenceInv'
  <2>. USE DEF IntelligenceInv, Reached
  <2>1. \A r \in Runs : at[r] # "idle" => task[r].job \in Jobs
    BY BusyRun DEF TypeInv, TypeOK
  <2>2. \A j \in Jobs : Recorded(trail[j], "RESOLVED") => Recorded(trail'[j], "RESOLVED")
    BY <1>1, TrailGrows DEF JobStatuses
  <2>3. ASSUME NEW j \in Jobs, Recorded(trail'[j], "RESOLVED") PROVE consensus'[j] # {}
    <3>1. CASE Recorded(trail[j], "RESOLVED")
      BY <1>1, <3>1, ConsensusStays DEF PaidForIntelligence
    <3>2. CASE WriteStatus(s) /\ task[s].job = j /\ Target[at[s]] = "RESOLVED"
      <4>1. at[s] = "toResolved"
        BY <3>2 DEF WriteStatus, Transitions, Target
      <4>. QED BY <1>1, <3>2, <4>1, ConsensusStays
    <3>. QED BY <1>1, <2>3, <3>1, <3>2, TrailGrows DEF JobStatuses
  <2>4. ASSUME NEW j \in Jobs, rewards'[j] > 0 PROVE Recorded(trail'[j], "RESOLVED") /\ j \in Funded
    <3>1. CASE rewards'[j] = rewards[j]
      BY <2>2, <2>4, <3>1 DEF PaidForIntelligence
    <3>2. CASE MintRewards(s) /\ j = task[s].job
      BY <2>2, <3>2 DEF MintRewards
    <3>3. MintRewards(s) /\ j # task[s].job => rewards'[j] = rewards[j]
      BY DEF MintRewards, TypeInv, TypeOK, DataTypeOK
    <3>. QED BY <1>1, <3>1, <3>2, <3>3, RewardWriters
  <2>5. ASSUME NEW j \in Jobs, status'[j] = "RESOLVED" PROVE Recorded(trail'[j], "RESOLVED")
    BY <1>1, <2>2, <2>5, TrailGrows
  <2>6. ASSUME NEW r \in Runs, at'[r] \in {"judge", "toResolved"}
        PROVE  consensus'[task'[r].job] # {}
    <3>1. CASE at'[r] = at[r] /\ task'[r] = task[r]
      BY <1>1, <2>1, <2>6, <3>1, ConsensusStays
    <3>2. CASE r = s /\ Merge(s) /\ task'[s] = task[s] /\ at'[s] = "judge"
      BY <2>1, <3>2 DEF Merge, Branch, Goto, TypeInv, TypeOK, DataTypeOK, SlotsOK
    <3>3. CASE r = s /\ Judge(s) /\ task'[s] = task[s]
      BY <1>1, <2>1, <3>3, ConsensusStays DEF Judge
    <3>. QED BY <1>1, <2>6, <3>1, <3>2, <3>3, Arrivals, Locality DEF OnlyMoves
  <2>7. ASSUME NEW r \in Runs, at'[r] \in {"count", "mint"}
        PROVE  Recorded(trail'[task'[r].job], "RESOLVED") /\ task'[r].job \in Funded
    <3>1. CASE at'[r] = at[r] /\ task'[r] = task[r]
      BY <2>1, <2>2, <2>7, <3>1 DEF Recorded
    <3>2. CASE r = s /\ CheckResolved(s) /\ task'[s] = task[s] /\ at'[s] = "count"
      <4>1. status[task[s].job] = "RESOLVED" /\ task[s].job \in Funded
        BY <3>2 DEF CheckResolved, Branch, Goto, Finish, TypeInv, TypeOK, SlotsOK
      <4>. QED BY <2>1, <2>2, <3>2, <4>1 DEF CheckResolved
    <3>3. CASE r = s /\ CountRewards(s) /\ task'[s] = task[s]
      BY <2>1, <2>2, <3>3 DEF CountRewards
    <3>. QED BY <1>1, <2>7, <3>1, <3>2, <3>3, Arrivals, Locality DEF OnlyMoves
  <2>. QED BY <2>3, <2>4, <2>5, <2>6, <2>7 DEF PaidForIntelligence, Reached
<1>2. CASE UNCHANGED vars \/ \E m \in Messages : LeaseExpires(m)
  BY <1>2 DEF LeaseExpires, vars, dataVars, runVars, IntelligenceInv, PaidForIntelligence, Reached
<1>. QED BY <1>1, <1>2 DEF Next, StepOf

\* No job is recorded RESOLVED without stored intelligence, and no unresolved
\* or unfunded job is paid for.
THEOREM PaymentFollowsIntelligence == Spec => []PaidForIntelligence
<1>1. Init => IntelligenceInv
  BY DEF Init, IntelligenceInv, PaidForIntelligence, Reached, Recorded, Absent
<1>2. IntelligenceInv => PaidForIntelligence
  BY DEF IntelligenceInv
<1>. QED BY <1>1, <1>2, IntelligenceInvStep, TypeInvariant, PTL DEF Spec

(***************************************************************************)
(* What the visibility timeout buys, if it is long enough: while no lease  *)
(* expires under a live run, each message has one worker, so the           *)
(* count-then-insert of the rewards and the find-then-create of the        *)
(* evaluations cannot race, whatever crashes, fails or is retried.         *)
(***************************************************************************)

\* The message a run is about to send.
Outgoing(r) == <<NextQueue[task[r].stage], task[r].job>>

OnQueue(r) == task[r].via = "queue"

HoldersLease == \A r \in Runs : OnQueue(r) =>
    msg[Message(r)] = "leased" /\ task[r].read = readCt[Message(r)]

OneHolder == \A r, s \in Runs :
    OnQueue(r) /\ OnQueue(s) /\ Message(r) = Message(s) => r = s

SendersClaimed == \A r \in Runs : at[r] = "send" =>
    Outgoing(r) \in claimed /\ msg[Outgoing(r)] = "none"

OneSender == \A r, s \in Runs :
    at[r] = "send" /\ at[s] = "send" /\ Outgoing(r) = Outgoing(s) => r = s

SentWereClaimed == \A m \in Messages : m \notin claimed => msg[m] = "none"

Exclusive == HoldersLease /\ OneHolder /\ SendersClaimed /\ OneSender /\ SentWereClaimed

LEMMA HolderMessage ==
    ASSUME TypeInv, NEW r \in Runs, OnQueue(r)
    PROVE  at[r] # "idle" /\ Message(r) \in Messages
<1>1. at[r] # "idle"
  BY DEF OnQueue, TypeInv, TypeOK, SlotsOK, NoTask
<1>2. task[r].stage \in QUEUES
  BY <1>1, BusyRun DEF OnQueue, TypeInv, TypeOK, PlacesOK
<1>. QED BY <1>1, <1>2, Queues DEF TypeInv, TypeOK

LEMMA SenderMessage ==
    ASSUME TypeInv, NEW r \in Runs, at[r] \in {"enqueue", "send"}
    PROVE  Outgoing(r) \in Messages
<1>1. task[r].stage \in {"create", "job", "evaluation", "consensus"}
  BY StageAt DEF TypeInv, TypeOK
<1>. QED BY <1>1, Queues DEF Outgoing, TypeInv, TypeOK

\* Who touches the queue; a run that does not neither gains a message nor
\* comes to the send.
LEMMA QueueWriters ==
    ASSUME TypeInv, NEW s \in Runs, StepOf(s)
    PROVE  \/ /\ UNCHANGED queueVars
              /\ task'[s] = task[s] \/ task'[s].via # "queue"
              /\ at'[s] = "send" => at[s] = "send" /\ task'[s] = task[s]
           \/ EnqueueClaim(s) /\ Claim(Outgoing(s)) /\ Goto(s, "send")
           \/ EnqueueSend(s)
           \/ Acknowledge(s) \/ Retry(s) \/ GiveUp(s)
           \/ \E m \in Messages : Deliver(s, m)
<1>. USE DEF TypeInv, TypeOK, SlotsOK
<1>1. /\ Finish(s) \in {"ack", "idle"}
      /\ Thrown(s) \in {"idle", "setVt", "archive", "onFailed"}
      /\ After(s) \in {"enqueue", "toRunning", "loadCrew", "load", "merge", "archive", "ack", "idle"}
  BY DEF Finish, Thrown, After, Onward
<1>2. ASSUME NEW l, Goto(s, l)
      PROVE  at'[s] = l /\ (task'[s] = task[s] \/ task'[s].via # "queue")
  BY <1>2 DEF Goto, NoTask
<1>3. CASE ReadStatus(s) \/ WriteStatus(s) \/ SelectAgents(s) \/ LoadAssignments(s) \/ JoinAgents(s)
  <2>1. CASE ReadStatus(s)
    BY <1>1, <1>2, <2>1 DEF ReadStatus, Branch
  <2>2. CASE WriteStatus(s)
    <3>1. Goto(s, After(s)) /\ UNCHANGED queueVars
      BY <2>2 DEF WriteStatus
    <3>. QED BY <1>1, <1>2, <3>1
  <2>3. CASE SelectAgents(s)
    <3>1. UNCHANGED queueVars /\ (Goto(s, "toFailed") \/ Goto(s, "toAssigned"))
      BY <2>3 DEF SelectAgents, Branch
    <3>. QED BY <1>2, <3>1
  <2>4. CASE LoadAssignments(s) \/ JoinAgents(s)
    BY <1>2, <2>4 DEF LoadAssignments, JoinAgents
  <2>. QED BY <1>3, <2>1, <2>2, <2>3, <2>4
<1>4. CASE EnqueueClaim(s)
  BY <1>1, <1>2, <1>4 DEF EnqueueClaim, Branch, Outgoing
<1>5. CASE \/ LoadOutputs(s) \/ EvaluationDone(s) \/ Merge(s) \/ Judge(s)
           \/ CheckResolved(s) \/ CountRewards(s) \/ MintRewards(s)
  BY <1>1, <1>2, <1>5 DEF LoadOutputs, EvaluationDone, Merge, Judge, CheckResolved,
                          CountRewards, MintRewards, Branch
<1>6. ASSUME NEW a \in Agents, AgentStep(s, a) PROVE UNCHANGED <<at, task, queueVars>>
  BY <1>6 DEF AgentStep, AgentStart, AgentPersist, AgentSubmit, AgentFail, FindEvaluation,
              CreateEvaluation
<1>7. ASSUME NEW a \in Agents, AgentCallFails(s, a) PROVE UNCHANGED <<at, task, queueVars>>
  BY <1>7 DEF AgentCallFails
<1>8. CASE Crash(s) \/ CallFails(s)
  BY <1>1, <1>2, <1>8, TransitionLocations DEF Crash, CallFails, Abandon
<1>9. CASE \E j \in Jobs : CreateJob(s, j) \/ OperatorTake(s, j)
  BY <1>9 DEF CreateJob, OperatorTake, Begin
<1>. QED BY <1>3, <1>4, <1>5, <1>6, <1>7, <1>8, <1>9 DEF StepOf, RunStep, Fault

\* A step that leaves the queue alone.
LEMMA QuietKeepsExclusive ==
    ASSUME TypeInv, Exclusive, NEW s \in Runs, StepOf(s), UNCHANGED queueVars,
           task'[s] = task[s] \/ task'[s].via # "queue",
           at'[s] = "send" => at[s] = "send" /\ task'[s] = task[s]
    PROVE  Exclusive'
<1>1. \A r \in Runs : OnQueue(r)' => OnQueue(r) /\ task'[r] = task[r]
  BY Locality DEF OnlyMoves, OnQueue
<1>2. \A r \in Runs : at'[r] = "send" => at[r] = "send" /\ task'[r] = task[r]
  BY Locality DEF OnlyMoves
<1>3. HoldersLease' /\ OneHolder'
  BY <1>1 DEF Exclusive, HoldersLease, OneHolder, OnQueue, Message, queueVars
<1>4. SendersClaimed' /\ OneSender' /\ SentWereClaimed'
  BY <1>2 DEF Exclusive, SendersClaimed, OneSender, SentWereClaimed, Outgoing, queueVars
<1>. QED BY <1>3, <1>4 DEF Exclusive

LEMMA ClaimKeepsExclusive ==
    ASSUME TypeInv, Exclusive, NEW s \in Runs, StepOf(s), EnqueueClaim(s),
           Claim(Outgoing(s)), Goto(s, "send")
    PROVE  Exclusive'
<1>1. at[s] = "enqueue" /\ Outgoing(s) \in Messages
  BY SenderMessage DEF EnqueueClaim
<1>2. task' = task /\ msg' = msg /\ readCt' = readCt /\ claimed' = claimed \cup {Outgoing(s)}
  BY DEF Goto, Claim, TypeInv, TypeOK, SlotsOK
<1>3. HoldersLease' /\ OneHolder'
  BY <1>2 DEF Exclusive, HoldersLease, OneHolder, OnQueue, Message
<1>4. \A r \in Runs : at'[r] = "send" => r = s \/ at[r] = "send"
  BY Locality DEF OnlyMoves
<1>5. msg[Outgoing(s)] = "none" /\ \A r \in Runs : at[r] = "send" => Outgoing(r) # Outgoing(s)
  BY <1>1 DEF Exclusive, SendersClaimed, SentWereClaimed, Claim
<1>6. SendersClaimed' /\ OneSender' /\ SentWereClaimed'
  BY <1>2, <1>4, <1>5 DEF Exclusive, SendersClaimed, OneSender, SentWereClaimed, Outgoing
<1>. QED BY <1>3, <1>6 DEF Exclusive

LEMMA SendKeepsExclusive ==
    ASSUME TypeInv, Exclusive, NEW s \in Runs, StepOf(s), EnqueueSend(s)
    PROVE  Exclusive'
<1>1. at[s] = "send" /\ Outgoing(s) \in Messages /\ Outgoing(s) \in claimed
      /\ msg[Outgoing(s)] = "none"
  BY SenderMessage DEF EnqueueSend, Exclusive, SendersClaimed
<1>2. /\ msg' = [msg EXCEPT ![Outgoing(s)] = "ready"] /\ claimed' = claimed /\ readCt' = readCt
      /\ msg \in [Messages -> MsgStates]
  BY DEF EnqueueSend, Send, Outgoing, TypeInv, TypeOK, QueueTypeOK
<1>3. at'[s] # "send" /\ (task'[s] = task[s] \/ task'[s].via # "queue")
  BY DEF EnqueueSend, Goto, Finish, NoTask, TypeInv, TypeOK, SlotsOK
<1>4. \A r \in Runs : OnQueue(r)' => OnQueue(r) /\ task'[r] = task[r] /\ Message(r)' = Message(r)
  BY <1>3, Locality DEF OnlyMoves, OnQueue, Message
<1>5. \A r \in Runs : at'[r] = "send" => at[r] = "send" /\ task'[r] = task[r] /\ r # s
  BY <1>3, Locality DEF OnlyMoves
<1>6. \A r \in Runs : OnQueue(r) => Message(r) # Outgoing(s)
  BY <1>1 DEF Exclusive, HoldersLease
<1>7. HoldersLease' /\ OneHolder'
  BY <1>2, <1>4, <1>6, HolderMessage DEF Exclusive, HoldersLease, OneHolder
<1>8. SendersClaimed' /\ OneSender' /\ SentWereClaimed'
  BY <1>1, <1>2, <1>5, SenderMessage
     DEF Exclusive, SendersClaimed, OneSender, SentWereClaimed, Outgoing
<1>. QED BY <1>7, <1>8 DEF Exclusive

\* The holder of a message gives it up: no other run has it.
LEMMA CloseKeepsExclusive ==
    ASSUME TypeInv, Exclusive, NEW s \in Runs, StepOf(s),
           Acknowledge(s) \/ Retry(s) \/ GiveUp(s)
    PROVE  Exclusive'
<1>. USE DEF Acknowledge, Retry, GiveUp
<1>1. OnQueue(s) /\ Message(s) \in Messages
  BY StageAt, HolderMessage DEF TypeInv, TypeOK, Closing, OnQueue
<1>2. /\ claimed' = claimed /\ readCt' = readCt
      /\ \A m \in Messages : m # Message(s) => msg'[m] = msg[m]
      /\ \A m \in Messages : msg'[m] = "none" <=> msg[m] = "none"
  BY DEF Delete, SetVt, Archive, MoveTo, InQueue, TypeInv, TypeOK, QueueTypeOK
<1>3. at'[s] = "idle" /\ task'[s].via # "queue"
  BY DEF Leave, Goto, NoTask, TypeInv, TypeOK, SlotsOK
<1>4. \A r \in Runs : OnQueue(r)' =>
        OnQueue(r) /\ r # s /\ task'[r] = task[r] /\ Message(r)' = Message(r)
  BY <1>3, Locality DEF OnlyMoves, OnQueue, Message
<1>5. \A r \in Runs : at'[r] = "send" =>
        at[r] = "send" /\ task'[r] = task[r] /\ Outgoing(r)' = Outgoing(r)
  BY <1>3, Locality DEF OnlyMoves, Outgoing
<1>6. HoldersLease' /\ OneHolder'
  BY <1>1, <1>2, <1>4, HolderMessage DEF Exclusive, HoldersLease, OneHolder
<1>7. SendersClaimed' /\ OneSender' /\ SentWereClaimed'
  BY <1>2, <1>5, SenderMessage DEF Exclusive, SendersClaimed, OneSender, SentWereClaimed
<1>. QED BY <1>6, <1>7 DEF Exclusive

LEMMA DeliverKeepsExclusive ==
    ASSUME TypeInv, Exclusive, NEW s \in Runs, NEW m \in Messages, Deliver(s, m)
    PROVE  Exclusive'
<1>1. msg[m] = "ready" /\ at[s] = "idle"
  BY DEF Deliver, Read, Begin
<1>2. /\ msg' = [msg EXCEPT ![m] = "leased"] /\ readCt' = [readCt EXCEPT ![m] = @ + 1]
      /\ claimed' = claimed /\ msg \in [Messages -> MsgStates] /\ readCt \in [Messages -> Nat]
  BY DEF Deliver, Read, TypeInv, TypeOK, QueueTypeOK
<1>3. \A r \in Runs : OnQueue(r) => Message(r) # m
  BY <1>1 DEF Exclusive, HoldersLease
<1>4. \A r \in Runs \ {s} : at'[r] = at[r] /\ task'[r] = task[r]
  BY DEF Deliver, Begin, TypeInv, TypeOK, SlotsOK
<1>5. /\ task'[s] = [stage |-> m[1], job |-> m[2], read |-> readCt[m] + 1, via |-> "queue"]
      /\ at'[s] = Entry[m[1]]
  BY DEF Deliver, Begin, TypeInv, TypeOK, SlotsOK
<1>6. at'[s] # "send" /\ <<task'[s].stage, task'[s].job>> = m /\ task'[s].read = readCt'[m]
      /\ task'[s].via = "queue"
  BY <1>2, <1>5 DEF Entry, Messages, QUEUES
<1>7. HoldersLease' /\ OneHolder'
  <2>1. Message(s)' = m /\ OnQueue(s)'
    BY <1>6 DEF Message, OnQueue
  <2>2. \A r \in Runs \ {s} : OnQueue(r)' => OnQueue(r) /\ Message(r)' = Message(r) /\ Message(r) # m
    BY <1>3, <1>4 DEF OnQueue, Message
  <2>. QED BY <1>2, <1>4, <1>6, <2>1, <2>2, HolderMessage DEF Exclusive, HoldersLease, OneHolder
<1>8. SendersClaimed' /\ OneSender' /\ SentWereClaimed'
  <2>1. \A r \in Runs : at'[r] = "send" => at[r] = "send" /\ Outgoing(r)' = Outgoing(r)
    BY <1>4, <1>6 DEF Outgoing
  <2>. QED BY <1>1, <1>2, <2>1, SenderMessage DEF Exclusive, SendersClaimed, OneSender, SentWereClaimed
<1>. QED BY <1>7, <1>8 DEF Exclusive

\* A lease that runs out has no holder when MaxExpiries is zero.
LEMMA ExpiryKeepsExclusive ==
    ASSUME TypeInv, Exclusive, MaxExpiries = 0, NEW m \in Messages, LeaseExpires(m)
    PROVE  Exclusive'
<1>1. ~Held(m)
  BY DEF LeaseExpires, TypeInv, TypeOK, FaultsOK
<1>2. \A r \in Runs : OnQueue(r) => Message(r) # m
  BY <1>1 DEF Held, Holds, Exclusive, HoldersLease, OnQueue
<1>3. /\ msg' = [msg EXCEPT ![m] = "ready"] /\ msg[m] = "leased"
      /\ UNCHANGED <<claimed, readCt, at, task>> /\ msg \in [Messages -> MsgStates]
  BY DEF LeaseExpires, Expire, runVars, TypeInv, TypeOK, QueueTypeOK
<1>4. HoldersLease' /\ OneHolder'
  BY <1>2, <1>3, HolderMessage DEF Exclusive, HoldersLease, OneHolder, OnQueue, Message
<1>5. SendersClaimed' /\ OneSender' /\ SentWereClaimed'
  BY <1>3, SenderMessage DEF Exclusive, SendersClaimed, OneSender, SentWereClaimed, Outgoing
<1>. QED BY <1>4, <1>5 DEF Exclusive

DeliveryInv == MaxExpiries = 0 => Exclusive

LEMMA DeliveryInvStep == TypeInv /\ DeliveryInv /\ [Next]_vars => DeliveryInv'
<1>. SUFFICES ASSUME TypeInv, Exclusive, MaxExpiries = 0, [Next]_vars PROVE Exclusive'
  BY DEF DeliveryInv
<1>1. ASSUME NEW s \in Runs, StepOf(s) PROVE Exclusive'
  BY <1>1, QueueWriters, QuietKeepsExclusive, ClaimKeepsExclusive, SendKeepsExclusive,
     CloseKeepsExclusive, DeliverKeepsExclusive
<1>2. ASSUME NEW m \in Messages, LeaseExpires(m) PROVE Exclusive'
  BY <1>2, ExpiryKeepsExclusive
<1>3. CASE UNCHANGED vars
  BY <1>3 DEF vars, queueVars, runVars, Exclusive, HoldersLease, OneHolder, SendersClaimed,
              OneSender, SentWereClaimed, OnQueue, Message, Outgoing
<1>. QED BY <1>1, <1>2, <1>3 DEF Next, StepOf

\* While no lease expires under a live run, a message has one worker at a time
\* and a stage's message is sent once.
THEOREM ExclusiveDelivery == Spec => []DeliveryInv
<1>1. Init => DeliveryInv
  BY DEF Init, QueueInit, DeliveryInv, Exclusive, HoldersLease, OneHolder, SendersClaimed,
         OneSender, SentWereClaimed, OnQueue, NoTask
<1>. QED BY <1>1, DeliveryInvStep, TypeInvariant, PTL DEF Spec

\* While no lease expires under a live run, no two runs work on one message.
THEOREM OneWorkerPerMessage == Spec => []OneWorker
<1>1. DeliveryInv => OneWorker
  BY DEF DeliveryInv, Exclusive, OneHolder, OnQueue, OneWorker
<1>. QED BY <1>1, ExclusiveDelivery, PTL

------------------------------------------------------------------------------
\* A run that decided to pay works on a job that has not been paid.
MintInv ==
    MaxExpiries = 0 =>
        /\ RewardsAtMostOnce
        /\ \A r \in Runs : at[r] = "mint" => rewards[task[r].job] = 0

\* Two runs of the same stage on the same job that both come from the queue.
LEMMA OnePerStage ==
    ASSUME TypeInv, Exclusive, NEW r \in Runs, NEW s \in Runs, OnQueue(r), OnQueue(s),
           task[r].stage = task[s].stage, task[r].job = task[s].job
    PROVE  r = s
BY DEF Exclusive, OneHolder, Message

LEMMA MintInvStep == TypeInv /\ DeliveryInv /\ MintInv /\ [Next]_vars => MintInv'
<1>. SUFFICES ASSUME TypeInv, Exclusive, RewardsAtMostOnce, MaxExpiries = 0, [Next]_vars,
                     \A r \in Runs : at[r] = "mint" => rewards[task[r].job] = 0
              PROVE  /\ RewardsAtMostOnce'
                     /\ \A r \in Runs : at'[r] = "mint" => rewards'[task'[r].job] = 0
  BY DEF MintInv, DeliveryInv
<1>0. /\ rewards \in [Jobs -> Nat]
      /\ \A r \in Runs : at[r] # "idle" => task[r].job \in Jobs
  BY BusyRun DEF TypeInv, TypeOK, DataTypeOK
<1>1. ASSUME NEW s \in Runs, StepOf(s)
      PROVE  /\ RewardsAtMostOnce'
             /\ \A r \in Runs : at'[r] = "mint" => rewards'[task'[r].job] = 0
  <2>1. CASE MintRewards(s)
    <3>1. /\ at[s] = "mint" /\ task[s].job \in Jobs /\ rewards[task[s].job] = 0
          /\ rewards' = [rewards EXCEPT ![task[s].job] = @ + 1]
      BY <1>0, <2>1 DEF MintRewards
    <3>2. RewardsAtMostOnce'
      BY <1>0, <3>1 DEF RewardsAtMostOnce
    <3>3. ASSUME NEW r \in Runs, at'[r] = "mint" PROVE rewards'[task'[r].job] = 0
      <4>1. r # s
        BY <2>1, <3>3 DEF MintRewards, Goto, Finish, TypeInv, TypeOK, SlotsOK
      <4>2. at[r] = "mint" /\ task'[r] = task[r]
        BY <1>1, <3>3, <4>1, Locality DEF OnlyMoves
      <4>3. OnQueue(r) /\ OnQueue(s) /\ task[r].stage = task[s].stage
        BY <3>1, <4>2, StageAt DEF OnQueue, TypeInv, TypeOK
      <4>4. task[r].job # task[s].job
        BY <4>1, <4>3, OnePerStage
      <4>. QED BY <1>0, <3>1, <4>2, <4>4
    <3>. QED BY <3>2, <3>3
  <2>2. CASE UNCHANGED rewards
    <3>1. ASSUME NEW r \in Runs, at'[r] = "mint" PROVE rewards[task'[r].job] = 0
      <4>1. CASE at'[r] = at[r] /\ task'[r] = task[r]
        BY <3>1, <4>1
      <4>2. CASE r = s /\ CountRewards(s) /\ task'[s] = task[s]
        BY <3>1, <4>2 DEF CountRewards, Branch, Goto, Finish, TypeInv, TypeOK, SlotsOK
      <4>. QED BY <1>1, <3>1, <4>1, <4>2, Arrivals, Locality DEF OnlyMoves, CheckResolved, Judge, Merge
    <3>. QED BY <2>2, <3>1 DEF RewardsAtMostOnce
  <2>. QED BY <1>1, <2>1, <2>2, RewardWriters
<1>2. CASE UNCHANGED vars \/ \E m \in Messages : LeaseExpires(m)
  BY <1>2 DEF LeaseExpires, vars, dataVars, runVars, RewardsAtMostOnce
<1>. QED BY <1>1, <1>2 DEF Next, StepOf

\* While no lease expires under a live run, no job is paid twice.
THEOREM PaidOnce == Spec => []RewardsOnce
<1>1. Init => MintInv
  BY DEF Init, MintInv, RewardsAtMostOnce
<1>2. MintInv => RewardsOnce
  BY DEF MintInv, RewardsOnce
<1>. QED BY <1>1, <1>2, MintInvStep, TypeInvariant, ExclusiveDelivery, PTL DEF Spec

------------------------------------------------------------------------------
\* A run about to create an evaluation works on an output that has none.
EvaluationInv ==
    MaxExpiries = 0 =>
        /\ \A j \in Jobs : \A a \in Agents : evaluations[j][a] <= 1
        /\ \A r \in Runs : \A a \in Agents :
             at[r] = "score" /\ crew[r][a] = "busy" => evaluations[task[r].job][a] = 0

LEMMA EvaluationWriters ==
    ASSUME TypeInv, NEW s \in Runs, StepOf(s)
    PROVE  UNCHANGED evaluations \/ \E a \in Agents : CreateEvaluation(s, a)
BY DEF StepOf, RunStep, Fault, AgentStep, dataVars, Branch, Abandon, Leave, CreateJob,
       OperatorTake, Deliver, ReadStatus, WriteStatus, SelectAgents, LoadAssignments,
       JoinAgents, EnqueueClaim, EnqueueSend, Acknowledge, Retry, GiveUp, LoadOutputs,
       EvaluationDone, Judge, CheckResolved, CountRewards, Merge, MintRewards, AgentStart,
       AgentPersist, AgentSubmit, AgentFail, FindEvaluation, Crash, CallFails, AgentCallFails

\* How a run comes to be in the loop over the outputs.
LEMMA ScoreArrivals ==
    ASSUME TypeInv, NEW s \in Runs, StepOf(s), at'[s] = "score"
    PROVE  \/ LoadOutputs(s) /\ ~Branch(s, "toFailed")
           \/ at[s] = "score" /\ task'[s] = task[s] /\ \E a \in Agents :
                FindEvaluation(s, a) \/ CreateEvaluation(s, a)
<1>. USE DEF TypeInv, TypeOK, SlotsOK
<1>1. /\ Finish(s) \in {"ack", "idle"}
      /\ Thrown(s) \in {"idle", "setVt", "archive", "onFailed"}
      /\ After(s) \in {"enqueue", "toRunning", "loadCrew", "load", "merge", "archive", "ack", "idle"}
  BY DEF Finish, Thrown, After, Onward
<1>2. ASSUME NEW l, Goto(s, l) PROVE at'[s] = l
  BY <1>2 DEF Goto
<1>3. ~(ReadStatus(s) \/ WriteStatus(s) \/ SelectAgents(s) \/ LoadAssignments(s) \/ JoinAgents(s))
  <2>1. ~ReadStatus(s)
    BY <1>1, <1>2, TransitionLocations DEF ReadStatus, Branch
  <2>2. ~WriteStatus(s)
    BY <1>1, <1>2 DEF WriteStatus
  <2>3. ~SelectAgents(s)
    <3>1. SelectAgents(s) => Goto(s, "toFailed") \/ Goto(s, "toAssigned")
      BY DEF SelectAgents, Branch
    <3>. QED BY <1>2, <3>1
  <2>4. ~LoadAssignments(s) /\ ~JoinAgents(s)
    BY <1>2 DEF LoadAssignments, JoinAgents
  <2>. QED BY <2>1, <2>2, <2>3, <2>4
<1>4. ~(EnqueueClaim(s) \/ EnqueueSend(s) \/ Acknowledge(s) \/ Retry(s) \/ GiveUp(s))
  BY <1>1, <1>2 DEF EnqueueClaim, EnqueueSend, Acknowledge, Retry, GiveUp, Leave, Branch
<1>5. ~(\/ EvaluationDone(s) \/ Merge(s) \/ Judge(s)
        \/ CheckResolved(s) \/ CountRewards(s) \/ MintRewards(s))
  BY <1>1, <1>2 DEF EvaluationDone, Merge, Judge, CheckResolved, CountRewards, MintRewards, Branch
<1>6. LoadOutputs(s) => ~Branch(s, "toFailed")
  BY <1>2 DEF Branch
<1>7. ASSUME NEW a \in Agents, AgentStep(s, a)
      PROVE  /\ at[s] = "score" /\ task'[s] = task[s]
             /\ FindEvaluation(s, a) \/ CreateEvaluation(s, a)
  BY <1>7 DEF AgentStep, AgentStart, AgentPersist, AgentSubmit, AgentFail, FindEvaluation,
              CreateEvaluation
<1>8. ~Fault(s)
  BY <1>1, <1>2 DEF Fault, Crash, CallFails, Abandon, AgentCallFails
<1>9. ~(\/ \E j \in Jobs : CreateJob(s, j) \/ OperatorTake(s, j)
        \/ \E m \in Messages : Deliver(s, m))
  BY DEF CreateJob, OperatorTake, Deliver, Begin, Entry, Messages, QUEUES
<1>. QED BY <1>3, <1>4, <1>5, <1>6, <1>7, <1>8, <1>9 DEF StepOf, RunStep

LEMMA EvaluationInvStep == TypeInv /\ DeliveryInv /\ EvaluationInv /\ [Next]_vars => EvaluationInv'
<1>. DEFINE Once == \A j \in Jobs : \A a \in Agents : evaluations[j][a] <= 1
            Fresh == \A r \in Runs : \A a \in Agents :
                       at[r] = "score" /\ crew[r][a] = "busy" => evaluations[task[r].job][a] = 0
<1>. SUFFICES ASSUME TypeInv, Exclusive, Once, Fresh, MaxExpiries = 0, [Next]_vars
              PROVE  Once' /\ Fresh'
  BY DEF EvaluationInv, DeliveryInv
<1>0. /\ evaluations \in [Jobs -> [Agents -> Nat]] /\ crew \in [Runs -> [Agents -> Progress]]
      /\ \A r \in Runs : at[r] # "idle" => task[r].job \in Jobs
  BY BusyRun DEF TypeInv, TypeOK, DataTypeOK, CrewOK
<1>1. ASSUME NEW s \in Runs, StepOf(s) PROVE Once' /\ Fresh'
  <2>1. ASSUME NEW a \in Agents, CreateEvaluation(s, a) PROVE Once' /\ Fresh'
    <3>1. /\ at[s] = "score" /\ at' = at /\ task' = task /\ task[s].job \in Jobs
          /\ evaluations[task[s].job][a] = 0
          /\ evaluations' = [evaluations EXCEPT ![task[s].job][a] = @ + 1]
          /\ crew' = [crew EXCEPT ![s][a] = "ok"]
      BY <1>0, <2>1 DEF CreateEvaluation, SetCrew
    <3>2. Once'
      BY <1>0, <3>1
    <3>3. ASSUME NEW r \in Runs, NEW b \in Agents, at[r] = "score", crew'[r][b] = "busy"
          PROVE  evaluations'[task[r].job][b] = 0
      <4>1. crew[r][b] = "busy" /\ (r = s => b # a)
        BY <1>0, <3>1, <3>3
      <4>2. OnQueue(r) /\ OnQueue(s) /\ task[r].stage = task[s].stage
        BY <3>1, <3>3, BusyRun, StageAt DEF OnQueue, TypeInv, TypeOK, PlacesOK
      <4>3. r # s => task[r].job # task[s].job
        BY <4>2, OnePerStage
      <4>. QED BY <1>0, <3>1, <3>3, <4>1, <4>3
    <3>. QED BY <3>1, <3>2, <3>3
  <2>2. CASE UNCHANGED evaluations /\ ~\E a \in Agents : CreateEvaluation(s, a)
    <3>1. ASSUME NEW r \in Runs, NEW b \in Agents, at'[r] = "score", crew'[r][b] = "busy"
          PROVE  evaluations[task'[r].job][b] = 0
      <4>1. CASE r # s
        BY <1>1, <3>1, <4>1, Locality DEF OnlyMoves
      <4>2. CASE r = s /\ LoadOutputs(s) /\ ~Branch(s, "toFailed")
        BY <1>0, <3>1, <4>2 DEF LoadOutputs
      <4>3. ASSUME r = s, at[s] = "score", task'[s] = task[s],
                   NEW a \in Agents, FindEvaluation(s, a)
            PROVE  evaluations[task'[r].job][b] = 0
        BY <1>0, <3>1, <4>3 DEF FindEvaluation, SetCrew
      <4>. QED BY <1>1, <2>2, <3>1, <4>1, <4>2, <4>3, ScoreArrivals
    <3>. QED BY <2>2, <3>1
  <2>. QED BY <1>1, <2>1, <2>2, EvaluationWriters
<1>2. CASE UNCHANGED vars \/ \E m \in Messages : LeaseExpires(m)
  BY <1>2 DEF LeaseExpires, vars, dataVars, runVars
<1>. QED BY <1>1, <1>2 DEF Next, StepOf

\* While no lease expires under a live run, no output is scored twice.
THEOREM ScoredOnce == Spec => []EvaluatedOnce
<1>1. Init => EvaluationInv
  BY DEF Init, EvaluationInv
<1>2. EvaluationInv => EvaluatedOnce
  BY DEF EvaluationInv, EvaluatedOnce
<1>. QED BY <1>1, <1>2, EvaluationInvStep, TypeInvariant, ExclusiveDelivery, PTL DEF Spec

(***************************************************************************)
(* A pipeline that nothing disturbs: no process is lost, no lease expires  *)
(* under a live run, no call fails and no operator runs jobs beside the    *)
(* worker.  Then each job has one baton, a run or a waiting message, and   *)
(* the status of the job says how far the baton has come; so the moves are *)
(* those of the documented life cycle and what a job opens it closes.      *)
(***************************************************************************)

Calm == MaxCrashes = 0 /\ MaxExpiries = 0 /\ MaxErrors = 0 /\ MaxClaims = 0

Ending == {"idle", "ack"}

Working(r) == at[r] \notin Ending

\* The status in which a stage expects its job, and in which each step of it does.
Awaits == [ job |-> "QUEUED", evaluation |-> "SUBMITTED",
            consensus |-> "VALIDATING", resolution |-> "RESOLVED" ]

Before ==
    [ toQueued     |-> {"CREATED"},    start        |-> {"QUEUED"},
      toAssigned   |-> {"QUEUED"},     toRunning    |-> {"ASSIGNED"},
      loadCrew     |-> {"RUNNING"},    agents       |-> {"RUNNING"},
      toSubmitted  |-> {"RUNNING"},    toValidating |-> {"SUBMITTED"},
      load         |-> {"VALIDATING"}, score        |-> {"VALIDATING"},
      toConsensus  |-> {"VALIDATING"}, merge        |-> {"CONSENSUS"},
      judge        |-> {"CONSENSUS"},  toResolved   |-> {"CONSENSUS"},
      gate         |-> {"RESOLVED"},   count        |-> {"RESOLVED"},
      mint         |-> {"RESOLVED"},
      toFailed     |-> {"QUEUED", "RUNNING", "VALIDATING", "CONSENSUS"} ]

Expected(stage, l) ==
    IF l \in {"enqueue", "send"} THEN {Awaits[NextQueue[stage]]} ELSE Before[l]

OneBaton ==
    /\ \A r, s \in Runs :
         Working(r) /\ Working(s) /\ task[r].job = task[s].job => r = s
    /\ \A r \in Runs : \A m \in Messages :
         Working(r) /\ msg[m] = "ready" => m[2] # task[r].job
    /\ \A m, n \in Messages :
         msg[m] = "ready" /\ msg[n] = "ready" /\ m[2] = n[2] => m = n

Troubled == {"setVt", "onFailed", "archive"}

InStep ==
    /\ \A r \in Runs : at[r] \notin Troubled
    /\ \A r \in Runs : Working(r) =>
         status[task[r].job] \in Expected(task[r].stage, at[r])
    /\ \A r \in Runs : seen[r] # Unread => seen[r] = status[task[r].job]
    /\ \A m \in Messages : msg[m] = "ready" => status[m[2]] = Awaits[m[1]]

LeasesHeld == \A m \in Messages : msg[m] = "leased" => Held(m)

\* A run that will close the assignment of agent a to job j.
Attends(r, j, a) ==
    /\ at[r] # "idle" /\ task[r].job = j
    /\ \/ at[r] \in {"toAssigned", "toRunning", "loadCrew"}
       \/ at[r] = "agents" /\ crew[r][a] \in {"todo", "busy", "saved"}

Attended ==
    \A j \in Jobs : \A a \in Agents : assignment[j][a] \in {"PENDING", "RUNNING"} =>
        \E r \in Runs : Attends(r, j, a)

CalmInv == OneBaton /\ InStep /\ LeasesHeld /\ Attended

\* What a step inside a handler does to its run and its job.
Handled(s) ==
    /\ Working(s)
    /\ UNCHANGED <<msg, readCt>>
    /\ \/ task'[s] = task[s]
       \/ at'[s] = "idle" /\ task[s].via # "queue" /\ task'[s] = NoTask
    /\ at'[s] \notin Troubled
    /\ at'[s] \in Ending \/ status'[task[s].job] \in Expected(task[s].stage, at'[s])
    /\ seen'[s] # Unread => seen'[s] = status'[task[s].job]
    /\ \A j \in Jobs : j # task[s].job => status'[j] = status[j]

LEMMA Table ==
    /\ Successors["CREATED"] = {"QUEUED", "CANCELLED", "FAILED"}
    /\ Successors["QUEUED"] = {"ASSIGNED", "FAILED", "CANCELLED"}
    /\ Successors["ASSIGNED"] = {"RUNNING", "FAILED", "CANCELLED"}
    /\ Successors["RUNNING"] = {"SUBMITTED", "FAILED", "CANCELLED"}
    /\ Successors["SUBMITTED"] = {"VALIDATING", "FAILED"}
    /\ Successors["VALIDATING"] = {"CONSENSUS", "FAILED"}
    /\ Successors["CONSENSUS"] = {"RESOLVED", "FAILED"}
    /\ Successors["RESOLVED"] = {} /\ Successors["FAILED"] = {} /\ Successors["CANCELLED"] = {}
BY DEF Successors, JobStatuses

\* In the status a step expects, its transition is legal and moves the job to
\* where the next step expects it.
LEMMA Expectations ==
    \A l \in Transitions \ {"onFailed"} : \A x \in Before[l] :
        x # Target[l] /\ ~IsTerminal(x) /\ CanTransition(x, Target[l])
<1>1. \A l \in Transitions \ {"onFailed"} : \A x \in Before[l] :
        x # Target[l] /\ Target[l] \in Successors[x]
  BY TransitionLocations, Table DEF Target, Before
<1>. QED BY <1>1 DEF IsTerminal, CanTransition

LEMMA NextExpects ==
    ASSUME TypeInv, InStep, NEW s \in Runs, at[s] \in Transitions
    PROVE  /\ After(s) \notin Troubled
           /\ After(s) \in Ending \/ Expected(task[s].stage, After(s)) = {Target[at[s]]}
<1>1. at[s] \in {"toQueued", "toAssigned", "toRunning", "toSubmitted", "toValidating",
                 "toConsensus", "toResolved", "toFailed"}
  BY TransitionLocations DEF InStep, Troubled
<1>2. /\ task[s].stage \in {"create", "job", "evaluation", "consensus", "resolution"}
      /\ at[s] \in Places[task[s].stage]
  BY <1>1, BusyRun DEF TypeInv, TypeOK, PlacesOK, Closing, QUEUES
<1>3. /\ at[s] = "toQueued" => task[s].stage = "create"
      /\ at[s] = "toSubmitted" => task[s].stage = "job"
      /\ at[s] = "toResolved" => task[s].stage = "consensus"
  BY <1>2 DEF Places
<1>. QED BY <1>1, <1>3 DEF After, Onward, Finish, Ending, Troubled, Expected, Awaits, NextQueue,
                           Before, Target

\* Each step of a handler finds the job where it expects it and leaves it where
\* the next step expects it.
LEMMA TransitionSteps ==
    ASSUME TypeInv, InStep, NEW s \in Runs, ReadStatus(s) \/ WriteStatus(s)
    PROVE  Handled(s)
<1>. USE DEF TypeInv, TypeOK, SlotsOK, ReadsOK
<1>1. /\ at[s] \in Transitions \ {"onFailed"} /\ Working(s) /\ at[s] \notin Ending
      /\ at[s] \notin {"enqueue", "send"} /\ task[s].job \in Jobs
  BY TransitionLocations, BusyRun DEF ReadStatus, WriteStatus, Working, Ending, InStep, Troubled
<1>2. status[task[s].job] \in Before[at[s]] /\ Expected(task[s].stage, at[s]) = Before[at[s]]
  BY <1>1 DEF InStep, Expected
<1>3. CASE ReadStatus(s)
  <2>1. /\ seen' = [seen EXCEPT ![s] = status[task[s].job]]
        /\ UNCHANGED <<dataVars, queueVars, at, task, crew, faults>>
    BY <1>1, <1>2, <1>3, Expectations DEF ReadStatus
  <2>. QED BY <1>1, <1>2, <2>1 DEF Handled, dataVars, queueVars, InStep
<1>4. CASE WriteStatus(s)
  <2>1. /\ status' = [status EXCEPT ![task[s].job] = Target[at[s]]]
        /\ seen' = [seen EXCEPT ![s] = Unread]
        /\ UNCHANGED queueVars
        /\ at'[s] = After(s)
        /\ task'[s] = IF After(s) = "idle" THEN NoTask ELSE task[s]
    BY <1>4 DEF WriteStatus, Goto
  <2>2. status'[task[s].job] = Target[at[s]] /\ seen'[s] = Unread
        /\ \A j \in Jobs : j # task[s].job => status'[j] = status[j]
    BY <1>1, <2>1 DEF DataTypeOK
  <2>3. After(s) = "idle" => task[s].via # "queue"
    BY <1>1 DEF After, Onward, Finish
  <2>4. /\ After(s) \notin Troubled
        /\ After(s) \in Ending \/ Expected(task[s].stage, After(s)) = {Target[at[s]]}
    BY <1>1, NextExpects
  <2>. QED BY <1>1, <2>1, <2>2, <2>3, <2>4 DEF Handled, queueVars
<1>. QED BY <1>3, <1>4

\* A step that changes neither the job's status nor the queue.
LEMMA QuietHandled ==
    ASSUME TypeInv, InStep, NEW s \in Runs, Working(s), seen[s] = Unread, NEW l,
           Goto(s, l), UNCHANGED <<status, seen, msg, readCt>>,
           \/ l = Finish(s)
           \/ /\ l \notin Ending
              /\ Expected(task[s].stage, at[s]) \subseteq Expected(task[s].stage, l),
           l \notin Troubled
    PROVE  Handled(s)
<1>1. at'[s] = l /\ task'[s] = IF l = "idle" THEN NoTask ELSE task[s]
  BY DEF Goto, TypeInv, TypeOK, SlotsOK
<1>2. l = "idle" => task[s].via # "queue"
  BY DEF Finish, Ending
<1>3. l \in Ending \/ status[task[s].job] \in Expected(task[s].stage, l)
  BY DEF InStep, Finish, Ending
<1>. QED BY <1>1, <1>2, <1>3 DEF Handled

LEMMA StageSteps ==
    ASSUME TypeInv, InStep, NEW s \in Runs,
           \/ EnqueueClaim(s) \/ SelectAgents(s) \/ LoadAssignments(s) \/ JoinAgents(s)
           \/ LoadOutputs(s) \/ EvaluationDone(s) \/ Merge(s) \/ Judge(s)
           \/ CheckResolved(s) \/ CountRewards(s) \/ MintRewards(s)
    PROVE  Handled(s)
<1>1. Working(s) /\ seen[s] = Unread
  BY TransitionLocations DEF EnqueueClaim, SelectAgents, LoadAssignments, JoinAgents, LoadOutputs,
     EvaluationDone, Merge, Judge, CheckResolved, CountRewards, MintRewards, Working, Ending,
     TypeInv, TypeOK, ReadsOK
<1>2. UNCHANGED <<status, seen, msg, readCt>>
  BY DEF EnqueueClaim, Claim, SelectAgents, LoadAssignments, JoinAgents, LoadOutputs,
     EvaluationDone, Merge, Judge, CheckResolved, CountRewards, MintRewards, Branch,
     dataVars, queueVars
<1>3. ASSUME Goto(s, Finish(s)) PROVE Handled(s)
  <2>1. PICK l : l = Finish(s)
    OBVIOUS
  <2>2. l \notin Troubled /\ Goto(s, l)
    BY <1>3, <2>1 DEF Finish, Troubled, Goto
  <2>. QED BY <1>1, <1>2, <2>1, <2>2, QuietHandled
<1>4. CASE EnqueueClaim(s)
  <2>1. at[s] = "enqueue" /\ (Goto(s, "send") \/ Goto(s, Finish(s)))
    BY <1>4 DEF EnqueueClaim, Branch
  <2>. QED BY <1>1, <1>2, <1>3, <2>1, QuietHandled DEF Expected, Troubled, Ending
<1>5. CASE SelectAgents(s)
  <2>1. at[s] = "start" /\ (Goto(s, "toFailed") \/ Goto(s, "toAssigned"))
    BY <1>5 DEF SelectAgents, Branch
  <2>. QED BY <1>1, <1>2, <2>1, QuietHandled DEF Expected, Before, Troubled, Ending
<1>6. CASE LoadAssignments(s)
  BY <1>1, <1>2, <1>6, QuietHandled DEF LoadAssignments, Expected, Before, Troubled, Ending
<1>7. CASE JoinAgents(s)
  <2>1. at[s] = "agents" /\ (Goto(s, "toSubmitted") \/ Goto(s, "toFailed"))
    BY <1>7 DEF JoinAgents
  <2>. QED BY <1>1, <1>2, <2>1, QuietHandled DEF Expected, Before, Troubled, Ending
<1>8. CASE LoadOutputs(s)
  <2>1. at[s] = "load" /\ (Goto(s, "score") \/ Goto(s, "toFailed"))
    BY <1>8 DEF LoadOutputs, Branch
  <2>. QED BY <1>1, <1>2, <2>1, QuietHandled DEF Expected, Before, Troubled, Ending
<1>9. CASE EvaluationDone(s)
  <2>1. at[s] = "score" /\ Goto(s, "enqueue") /\ task[s].stage = "evaluation"
    BY <1>9, StageAt DEF EvaluationDone, TypeInv, TypeOK
  <2>. QED BY <1>1, <1>2, <2>1, QuietHandled
           DEF Expected, Before, Awaits, NextQueue, Troubled, Ending
<1>10. CASE Merge(s)
  <2>1. at[s] = "merge" /\ (Goto(s, "judge") \/ Goto(s, "toFailed"))
    BY <1>10 DEF Merge, Branch
  <2>. QED BY <1>1, <1>2, <2>1, QuietHandled DEF Expected, Before, Troubled, Ending
<1>11. CASE Judge(s)
  <2>1. at[s] = "judge" /\ (Goto(s, "toResolved") \/ Goto(s, "toFailed"))
    BY <1>11 DEF Judge, Branch
  <2>. QED BY <1>1, <1>2, <2>1, QuietHandled DEF Expected, Before, Troubled, Ending
<1>12. CASE CheckResolved(s)
  <2>1. at[s] = "gate" /\ (Goto(s, "count") \/ Goto(s, Finish(s)))
    BY <1>12 DEF CheckResolved, Branch
  <2>. QED BY <1>1, <1>2, <1>3, <2>1, QuietHandled DEF Expected, Before, Troubled, Ending
<1>13. CASE CountRewards(s)
  <2>1. at[s] = "count" /\ (Goto(s, "mint") \/ Goto(s, Finish(s)))
    BY <1>13 DEF CountRewards, Branch
  <2>. QED BY <1>1, <1>2, <1>3, <2>1, QuietHandled DEF Expected, Before, Troubled, Ending
<1>14. CASE MintRewards(s)
  BY <1>1, <1>2, <1>3, <1>14, QuietHandled DEF MintRewards
<1>. QED BY <1>4, <1>5, <1>6, <1>7, <1>8, <1>9, <1>10, <1>11, <1>12, <1>13, <1>14

LEMMA AgentSteps ==
    ASSUME TypeInv, InStep, NEW s \in Runs, NEW a \in Agents, AgentStep(s, a)
    PROVE  Handled(s)
<1>1. /\ at[s] \in {"agents", "score"}
      /\ UNCHANGED <<at, task, seen, status, msg, readCt>>
  BY DEF AgentStep, AgentStart, AgentPersist, AgentSubmit, AgentFail, FindEvaluation,
         CreateEvaluation, queueVars, dataVars
<1>2. Working(s) /\ at[s] \notin Troubled
  BY <1>1 DEF Working, Ending, Troubled
<1>. QED BY <1>1, <1>2 DEF Handled, InStep

\* Without faults, those are all steps of a run but the ends of its activation.
LEMMA Course ==
    ASSUME Calm, TypeInv, InStep, NEW s \in Runs, StepOf(s)
    PROVE  \/ Handled(s) /\ ~EnqueueSend(s)
           \/ EnqueueSend(s)
           \/ Acknowledge(s)
           \/ \E j \in Jobs : CreateJob(s, j)
           \/ \E m \in Messages : Deliver(s, m)
<1>1. ~Retry(s) /\ ~GiveUp(s)
  BY DEF Retry, GiveUp, InStep, Troubled
<1>2. /\ faults.crash = 0 /\ faults.error = 0 /\ faults.claim = 0
  BY DEF Calm, TypeInv, TypeOK, FaultsOK
<1>3. /\ ~Fault(s)
      /\ \A j \in Jobs : ~OperatorTake(s, j)
  BY <1>2 DEF Fault, Crash, CallFails, AgentCallFails, OperatorTake, Calm
<1>. QED BY <1>1, <1>3, TransitionSteps, StageSteps, AgentSteps DEF StepOf, RunStep

\* What an ending activation does: the message it was given is deleted, the
\* message it sends is the baton it gives up.
LEMMA EndsOf ==
    ASSUME TypeInv, NEW s \in Runs
    PROVE  /\ EnqueueSend(s) =>
                /\ Working(s) /\ at'[s] \in Ending /\ seen[s] = Unread
                /\ Outgoing(s) \in Messages /\ Outgoing(s)[2] = task[s].job
                /\ Outgoing(s)[1] = NextQueue[task[s].stage]
                /\ msg' = [msg EXCEPT ![Outgoing(s)] = "ready"]
                /\ at'[s] = Finish(s)
                /\ UNCHANGED <<readCt, status, seen>>
           /\ Acknowledge(s) =>
                /\ at[s] = "ack" /\ at'[s] = "idle" /\ seen[s] = Unread
                /\ Message(s) \in Messages
                /\ msg' = [msg EXCEPT ![Message(s)] = IF InQueue(Message(s)) THEN "deleted" ELSE @]
                /\ UNCHANGED <<readCt, status, seen>>
<1>. USE DEF TypeInv, TypeOK, SlotsOK, ReadsOK
<1>1. ASSUME EnqueueSend(s)
      PROVE  /\ Working(s) /\ at'[s] \in Ending /\ seen[s] = Unread
             /\ Outgoing(s) \in Messages /\ Outgoing(s)[2] = task[s].job
             /\ Outgoing(s)[1] = NextQueue[task[s].stage]
             /\ msg' = [msg EXCEPT ![Outgoing(s)] = "ready"]
             /\ at'[s] = Finish(s)
             /\ UNCHANGED <<readCt, status, seen>>
  <2>1. at[s] = "send" /\ Goto(s, Finish(s)) /\ Send(Outgoing(s)) /\ UNCHANGED <<status, seen>>
    BY <1>1 DEF EnqueueSend, Outgoing, dataVars
  <2>2. Outgoing(s) \in Messages
    BY <2>1, SenderMessage
  <2>. QED BY <2>1, <2>2, TransitionLocations DEF Goto, Finish, Ending, Working, Outgoing, Send
<1>2. ASSUME Acknowledge(s)
      PROVE  /\ at[s] = "ack" /\ at'[s] = "idle" /\ seen[s] = Unread
             /\ Message(s) \in Messages
             /\ msg' = [msg EXCEPT ![Message(s)] = IF InQueue(Message(s)) THEN "deleted" ELSE @]
             /\ UNCHANGED <<readCt, status, seen>>
  <2>1. at[s] = "ack" /\ Goto(s, "idle") /\ Delete(Message(s)) /\ UNCHANGED <<status, seen>>
    BY <1>2 DEF Acknowledge, Leave, dataVars
  <2>2. Message(s) \in Messages
    BY <2>1, StageAt, Queues DEF Closing
  <2>. QED BY <2>1, <2>2, TransitionLocations DEF Goto, Delete, MoveTo
<1>. QED BY <1>1, <1>2

LEMMA CreateOf ==
    ASSUME TypeInv, NEW s \in Runs, NEW j \in Jobs, CreateJob(s, j)
    PROVE  /\ at[s] = "idle" /\ at'[s] = "toQueued" /\ seen[s] = Unread
           /\ task'[s].job = j /\ task'[s].stage = "create" /\ task'[s].via = "api"
           /\ status[j] = Absent /\ status'[j] = "CREATED"
           /\ \A i \in Jobs : i # j => status'[i] = status[i]
           /\ UNCHANGED <<msg, readCt, seen, crew, assignment>>
BY TransitionLocations DEF CreateJob, Begin, queueVars, TypeInv, TypeOK, SlotsOK, ReadsOK, DataTypeOK

LEMMA DeliverOf ==
    ASSUME TypeInv, NEW s \in Runs, NEW m \in Messages, Deliver(s, m)
    PROVE  /\ at[s] = "idle" /\ at'[s] = Entry[m[1]] /\ seen[s] = Unread
           /\ task'[s].job = m[2] /\ task'[s].stage = m[1] /\ task'[s].via = "queue"
           /\ task'[s].read = readCt'[m]
           /\ msg[m] = "ready" /\ msg' = [msg EXCEPT ![m] = "leased"]
           /\ \A n \in Messages : n # m => readCt'[n] = readCt[n]
           /\ UNCHANGED <<status, seen, crew, assignment>>
BY TransitionLocations DEF Deliver, Begin, Read, dataVars, TypeInv, TypeOK, SlotsOK, ReadsOK,
                           QueueTypeOK

LEMMA OneBatonStep ==
    ASSUME Calm, TypeInv, OneBaton, InStep, NEW s \in Runs, StepOf(s)
    PROVE  OneBaton'
<1>. USE DEF TypeInv, TypeOK, SlotsOK
<1>0. /\ \A r \in Runs : Working(r) => task[r].job \in Jobs /\ status[task[r].job] # Absent
      /\ \A m \in Messages : msg[m] = "ready" => status[m[2]] # Absent
      /\ \A m \in Messages : m[1] \in QUEUES /\ m[2] \in Jobs
      /\ msg \in [Messages -> MsgStates] /\ status \in [Jobs -> JobStatuses \cup {Absent}]
  BY BusyRun DEF Working, Ending, KnownJobs, Messages, QueueTypeOK, DataTypeOK
<1>1. \A r \in Runs \ {s} : at'[r] = at[r] /\ task'[r] = task[r]
  BY Locality DEF OnlyMoves
<1>2. CASE Handled(s)
  <2>1. Working(s) /\ msg' = msg /\ (Working(s)' => task'[s] = task[s])
    BY <1>2 DEF Handled, Working, Ending
  <2>. QED BY <1>1, <2>1 DEF OneBaton, Working
<1>3. CASE EnqueueSend(s)
  <2>1. Working(s) /\ ~Working(s)' /\ Outgoing(s) \in Messages /\ Outgoing(s)[2] = task[s].job
        /\ msg' = [msg EXCEPT ![Outgoing(s)] = "ready"]
    BY <1>3, EndsOf DEF Working
  <2>2. \A r \in Runs : Working(r)' => r # s /\ Working(r) /\ task'[r] = task[r]
    BY <1>1, <2>1 DEF Working
  <2>3. \A m \in Messages : msg'[m] = "ready" => msg[m] = "ready" \/ m = Outgoing(s)
    BY <1>0, <2>1
  <2>. QED BY <2>1, <2>2, <2>3 DEF OneBaton
<1>4. CASE Acknowledge(s)
  <2>1. ~Working(s)' /\ \A m \in Messages : msg'[m] = "ready" => msg[m] = "ready"
    BY <1>0, <1>4, EndsOf DEF Working, Ending
  <2>. QED BY <1>1, <2>1 DEF OneBaton, Working
<1>5. ASSUME NEW j \in Jobs, CreateJob(s, j) PROVE OneBaton'
  <2>1. msg' = msg /\ status[j] = Absent /\ task'[s].job = j
    BY <1>5, CreateOf
  <2>2. /\ \A r \in Runs \ {s} : Working(r) => task[r].job # j
        /\ \A m \in Messages : msg[m] = "ready" => m[2] # j
    BY <1>0, <2>1
  <2>. QED BY <1>1, <2>1, <2>2 DEF OneBaton, Working
<1>6. ASSUME NEW m \in Messages, Deliver(s, m) PROVE OneBaton'
  <2>1. /\ msg[m] = "ready" /\ msg' = [msg EXCEPT ![m] = "leased"]
        /\ task'[s].job = m[2]
    BY <1>6, DeliverOf
  <2>2. \A n \in Messages : msg'[n] = "ready" => msg[n] = "ready" /\ n # m
    BY <1>0, <2>1
  <2>3. \A n \in Messages : msg'[n] = "ready" => n[2] # m[2]
    BY <2>1, <2>2 DEF OneBaton
  <2>4. \A r \in Runs \ {s} : Working(r) => task[r].job # m[2]
    BY <2>1 DEF OneBaton
  <2>. QED BY <1>1, <2>1, <2>2, <2>3, <2>4 DEF OneBaton, Working
<1>. QED BY <1>2, <1>3, <1>4, <1>5, <1>6, Course

LEMMA InStepStep ==
    ASSUME Calm, TypeInv, OneBaton, InStep, NEW s \in Runs, StepOf(s)
    PROVE  InStep'
<1>. USE DEF TypeInv, TypeOK, SlotsOK
<1>0. /\ \A r \in Runs : Working(r) => task[r].job \in Jobs /\ status[task[r].job] # Absent
      /\ \A m \in Messages : msg[m] = "ready" => status[m[2]] # Absent
      /\ \A m \in Messages : m[1] \in QUEUES /\ m[2] \in Jobs
      /\ msg \in [Messages -> MsgStates] /\ status \in [Jobs -> JobStatuses \cup {Absent}]
  BY BusyRun DEF Working, Ending, KnownJobs, Messages, QueueTypeOK, DataTypeOK
<1>1. \A r \in Runs \ {s} : at'[r] = at[r] /\ task'[r] = task[r] /\ seen'[r] = seen[r]
  BY Locality DEF OnlyMoves
<1>2. \A r \in Runs : seen[r] # Unread => Working(r)
  BY TransitionLocations DEF ReadsOK, Working, Ending
<1>3. CASE Handled(s)
  <2>1. /\ Working(s) /\ msg' = msg /\ at'[s] \notin Troubled
        /\ \A j \in Jobs : j # task[s].job => status'[j] = status[j]
    BY <1>3 DEF Handled
  <2>2. \A r \in Runs \ {s} : Working(r) => status'[task[r].job] = status[task[r].job]
    BY <1>0, <2>1 DEF OneBaton
  <2>3. \A m \in Messages : msg[m] = "ready" => status'[m[2]] = status[m[2]]
    BY <1>0, <2>1 DEF OneBaton
  <2>4. Working(s)' => task'[s] = task[s] /\ status'[task[s].job] \in Expected(task[s].stage, at'[s])
    BY <1>3 DEF Handled, Working, Ending
  <2>5. seen'[s] # Unread => seen'[s] = status'[task'[s].job]
    <3>1. seen'[s] # Unread => seen'[s] = status'[task[s].job]
      BY <1>3 DEF Handled
    <3>2. seen'[s] # Unread => Working(s)'
      BY TypeInvStep, TransitionLocations DEF ReadsOK, Working, Ending, Next, StepOf
    <3>. QED BY <2>4, <3>1, <3>2
  <2>6. \A r \in Runs : at'[r] \notin Troubled
    BY <1>1, <2>1 DEF InStep
  <2>7. \A r \in Runs : Working(r)' => status'[task'[r].job] \in Expected(task'[r].stage, at'[r])
    BY <1>1, <2>2, <2>4 DEF InStep, Working
  <2>8. \A r \in Runs : seen'[r] # Unread => seen'[r] = status'[task'[r].job]
    BY <1>1, <1>2, <2>2, <2>5 DEF InStep
  <2>9. \A m \in Messages : msg'[m] = "ready" => status'[m[2]] = Awaits[m[1]]
    BY <2>1, <2>3 DEF InStep
  <2>. QED BY <2>6, <2>7, <2>8, <2>9 DEF InStep
<1>4. CASE EnqueueSend(s)
  <2>1. /\ Working(s) /\ at'[s] \in Ending /\ seen[s] = Unread
        /\ Outgoing(s) \in Messages /\ Outgoing(s)[2] = task[s].job
        /\ Outgoing(s)[1] = NextQueue[task[s].stage]
        /\ msg' = [msg EXCEPT ![Outgoing(s)] = "ready"]
        /\ UNCHANGED <<status, seen>>
    BY <1>4, EndsOf
  <2>2. status[task[s].job] = Awaits[NextQueue[task[s].stage]]
    BY <1>4, <2>1 DEF EnqueueSend, InStep, Expected
  <2>3. \A m \in Messages : msg'[m] = "ready" => status[m[2]] = Awaits[m[1]]
    BY <1>0, <2>1, <2>2 DEF InStep
  <2>. QED BY <1>1, <2>1, <2>3 DEF InStep, Working, Ending, Troubled
<1>5. CASE Acknowledge(s)
  <2>1. /\ at'[s] = "idle" /\ seen[s] = Unread /\ UNCHANGED <<status, seen>>
        /\ \A m \in Messages : msg'[m] = "ready" => msg[m] = "ready"
    BY <1>0, <1>5, EndsOf
  <2>. QED BY <1>1, <2>1 DEF InStep, Working, Ending, Troubled
<1>6. ASSUME NEW j \in Jobs, CreateJob(s, j) PROVE InStep'
  <2>1. /\ msg' = msg /\ status[j] = Absent /\ task'[s].job = j /\ task'[s].stage = "create"
        /\ at'[s] = "toQueued" /\ seen[s] = Unread /\ seen' = seen
        /\ status'[j] = "CREATED" /\ \A i \in Jobs : i # j => status'[i] = status[i]
    BY <1>0, <1>6, CreateOf
  <2>2. /\ \A r \in Runs \ {s} : Working(r) => status'[task[r].job] = status[task[r].job]
        /\ \A m \in Messages : msg[m] = "ready" => status'[m[2]] = status[m[2]]
    BY <1>0, <2>1
  <2>3. "toQueued" \notin Troubled /\ "CREATED" \in Expected("create", "toQueued")
    BY DEF Troubled, Expected, Before
  <2>4. \A r \in Runs : at'[r] \notin Troubled
    BY <1>1, <2>1, <2>3 DEF InStep
  <2>5. \A r \in Runs : Working(r)' => status'[task'[r].job] \in Expected(task'[r].stage, at'[r])
    BY <1>1, <2>1, <2>2, <2>3 DEF InStep, Working
  <2>6. \A r \in Runs : seen'[r] # Unread => seen'[r] = status'[task'[r].job]
    BY <1>1, <1>2, <2>1, <2>2 DEF InStep
  <2>. QED BY <2>1, <2>2, <2>4, <2>5, <2>6 DEF InStep
<1>7. ASSUME NEW m \in Messages, Deliver(s, m) PROVE InStep'
  <2>1. /\ msg[m] = "ready" /\ msg' = [msg EXCEPT ![m] = "leased"]
        /\ task'[s].job = m[2] /\ task'[s].stage = m[1] /\ at'[s] = Entry[m[1]]
        /\ seen[s] = Unread /\ UNCHANGED <<seen, status>>
    BY <1>7, DeliverOf
  <2>2. status[m[2]] \in Expected(m[1], Entry[m[1]]) /\ Entry[m[1]] \notin Troubled
    BY <1>0, <2>1 DEF InStep, Expected, Before, Awaits, Entry, Troubled, QUEUES
  <2>3. \A n \in Messages : msg'[n] = "ready" => msg[n] = "ready"
    BY <1>0, <2>1
  <2>. QED BY <1>1, <2>1, <2>2, <2>3 DEF InStep, Working
<1>. QED BY <1>3, <1>4, <1>5, <1>6, <1>7, Course

LEMMA LeasesHeldStep ==
    ASSUME Calm, TypeInv, InStep, LeasesHeld, NEW s \in Runs, StepOf(s)
    PROVE  LeasesHeld'
<1>. USE DEF TypeInv, TypeOK, SlotsOK
<1>0. msg \in [Messages -> MsgStates]
  BY DEF QueueTypeOK
<1>1. \A r \in Runs \ {s} : task'[r] = task[r]
  BY Locality DEF OnlyMoves
<1>2. ASSUME NEW m \in Messages, msg[m] = "leased", readCt'[m] = readCt[m],
             \/ ~Holds(s, m) \/ task'[s] = task[s]
      PROVE  Held(m)'
  <2>1. PICK r \in Runs : Holds(r, m)
    BY <1>2 DEF LeasesHeld, Held
  <2>2. task'[r] = task[r]
    BY <1>1, <1>2, <2>1
  <2>. QED BY <1>2, <2>1, <2>2 DEF Held, Holds, Message
<1>3. CASE Handled(s)
  BY <1>2, <1>3 DEF Handled, LeasesHeld, Holds
<1>4. CASE EnqueueSend(s)
  <2>1. /\ msg' = [msg EXCEPT ![Outgoing(s)] = "ready"] /\ readCt' = readCt
        /\ task[s].via = "queue" => task'[s] = task[s]
    BY <1>4, EndsOf DEF EnqueueSend, Goto, Finish
  <2>2. \A m \in Messages : msg'[m] = "leased" => msg[m] = "leased"
    BY <1>0, <2>1
  <2>. QED BY <1>2, <2>1, <2>2 DEF LeasesHeld, Holds
<1>5. CASE Acknowledge(s)
  <2>1. /\ msg' = [msg EXCEPT ![Message(s)] = IF InQueue(Message(s)) THEN "deleted" ELSE @]
        /\ readCt' = readCt /\ Message(s) \in Messages
    BY <1>5, EndsOf
  <2>2. \A m \in Messages : msg'[m] = "leased" => msg[m] = "leased" /\ m # Message(s)
    BY <1>0, <2>1 DEF InQueue
  <2>. QED BY <1>2, <2>1, <2>2 DEF LeasesHeld, Holds
<1>6. ASSUME NEW j \in Jobs, CreateJob(s, j) PROVE LeasesHeld'
  <2>1. task[s] = NoTask /\ UNCHANGED <<msg, readCt>>
    BY <1>6, CreateOf
  <2>. QED BY <1>2, <2>1 DEF LeasesHeld, Holds, NoTask
<1>7. ASSUME NEW n \in Messages, Deliver(s, n) PROVE LeasesHeld'
  <2>1. /\ task[s] = NoTask /\ msg' = [msg EXCEPT ![n] = "leased"]
        /\ task'[s].job = n[2] /\ task'[s].stage = n[1] /\ task'[s].via = "queue"
        /\ task'[s].read = readCt'[n]
        /\ \A m \in Messages : m # n => readCt'[m] = readCt[m]
    BY <1>7, DeliverOf
  <2>2. n = <<n[1], n[2]>>
    BY DEF Messages
  <2>3. Held(n)'
    BY <2>1, <2>2 DEF Held, Holds, Message
  <2>4. \A m \in Messages : msg'[m] = "leased" => m = n \/ msg[m] = "leased"
    BY <1>0, <2>1
  <2>. QED BY <1>2, <2>1, <2>3, <2>4 DEF LeasesHeld, Holds, NoTask
<1>. QED BY <1>3, <1>4, <1>5, <1>6, <1>7, Course

\* No lease of a calm pipeline ever runs out.
LEMMA NoExpiry ==
    ASSUME Calm, TypeInv, LeasesHeld, NEW m \in Messages PROVE ~LeaseExpires(m)
BY DEF Calm, TypeInv, TypeOK, FaultsOK, LeasesHeld, LeaseExpires, Expire

Open == {"PENDING", "RUNNING"}

LEMMA AssignmentWriters ==
    ASSUME Calm, TypeInv, NEW s \in Runs, StepOf(s)
    PROVE  \/ UNCHANGED assignment
           \/ SelectAgents(s)
           \/ \E a \in Agents : AgentStart(s, a) \/ AgentSubmit(s, a) \/ AgentFail(s, a)
<1>1. ~\E a \in Agents : AgentCallFails(s, a)
  BY DEF Calm, TypeInv, TypeOK, FaultsOK, AgentCallFails
<1>. QED BY <1>1
  DEF StepOf, RunStep, Fault, AgentStep, dataVars, Branch, Abandon, Leave, CreateJob,
      OperatorTake, Deliver, ReadStatus, WriteStatus, LoadAssignments, JoinAgents,
      EnqueueClaim, EnqueueSend, Acknowledge, Retry, GiveUp, LoadOutputs, EvaluationDone,
      Judge, CheckResolved, CountRewards, Merge, MintRewards, AgentPersist, FindEvaluation,
      CreateEvaluation, Crash, CallFails

\* An assignment is opened by the run that will close it.
LEMMA Opens ==
    ASSUME Calm, TypeInv, NEW s \in Runs, StepOf(s), NEW j \in Jobs, NEW a \in Agents,
           assignment'[j][a] \in Open, assignment[j][a] \notin Open
    PROVE  Attends(s, j, a)'
<1>. USE DEF TypeInv, TypeOK, SlotsOK
<1>1. /\ assignment \in [Jobs -> [Agents -> AssignmentStates]]
      /\ crew \in [Runs -> [Agents -> Progress]]
  BY DEF DataTypeOK, CrewOK
<1>2. CASE SelectAgents(s)
  <2>1. at[s] = "start" /\ task[s].job \in Jobs
    BY <1>2, BusyRun DEF SelectAgents
  <2>2. /\ Goto(s, "toAssigned")
        /\ \A i \in Jobs : i # task[s].job => assignment'[i] = assignment[i]
    BY <1>1, <1>2, <2>1 DEF SelectAgents, Branch, dataVars
  <2>. QED BY <2>1, <2>2 DEF Attends, Goto
<1>3. ASSUME NEW b \in Agents, AgentStart(s, b) PROVE Attends(s, j, a)'
  <2>1. task[s].job \in Jobs /\ at[s] = "agents"
    BY <1>3, BusyRun DEF AgentStart
  <2>2. j = task[s].job /\ a = b
    BY <1>1, <1>3, <2>1 DEF AgentStart, SetAssignment
  <2>. QED BY <1>1, <1>3, <2>1, <2>2 DEF AgentStart, SetCrew, Attends
<1>4. ASSUME NEW b \in Agents, AgentSubmit(s, b) \/ AgentFail(s, b) PROVE FALSE
  <2>1. task[s].job \in Jobs
    BY <1>4, BusyRun DEF AgentSubmit, AgentFail
  <2>. QED BY <1>1, <1>4, <2>1 DEF AgentSubmit, AgentFail, SetAssignment, Open
<1>. QED BY <1>2, <1>3, <1>4, AssignmentWriters

LEMMA ReadStays ==
    ASSUME TypeInv, InStep, NEW s \in Runs, ReadStatus(s)
    PROVE  UNCHANGED <<dataVars, at, task, crew>>
<1>1. at[s] \in Transitions \ {"onFailed"} /\ status[task[s].job] \in Before[at[s]]
  BY TransitionLocations DEF ReadStatus, Working, Ending, InStep, Troubled, Expected
<1>. QED BY <1>1, Expectations DEF ReadStatus

\* The run that attends to an open assignment keeps at it until it is closed.
LEMMA AttendsOn ==
    ASSUME Calm, TypeInv, InStep, NEW s \in Runs, StepOf(s), NEW j \in Jobs, NEW a \in Agents,
           Attends(s, j, a), assignment'[j][a] \in Open
    PROVE  Attends(s, j, a)'
<1>. USE DEF TypeInv, TypeOK, SlotsOK
<1>1. /\ assignment \in [Jobs -> [Agents -> AssignmentStates]]
      /\ crew \in [Runs -> [Agents -> Progress]]
  BY DEF DataTypeOK, CrewOK
<1>2. at[s] \in {"toAssigned", "toRunning", "loadCrew", "agents"} /\ task[s].job = j
  BY DEF Attends
<1>3. Working(s) /\ ~EnqueueSend(s) /\ ~Acknowledge(s)
  BY <1>2 DEF EnqueueSend, Acknowledge, Working, Ending
<1>4. \/ ReadStatus(s) \/ WriteStatus(s) \/ LoadAssignments(s) \/ JoinAgents(s)
      \/ \E b \in Agents : AgentStart(s, b) \/ AgentPersist(s, b) \/ AgentSubmit(s, b) \/ AgentFail(s, b)
  <2>1. /\ faults.crash = 0 /\ faults.error = 0 /\ faults.claim = 0
    BY DEF Calm, FaultsOK
  <2>2. ~Fault(s) /\ (\A i \in Jobs : ~OperatorTake(s, i))
    BY <2>1 DEF Fault, Crash, CallFails, AgentCallFails, OperatorTake, Calm
  <2>3. (\A i \in Jobs : ~CreateJob(s, i)) /\ (\A m \in Messages : ~Deliver(s, m))
    BY <1>2, CreateOf, DeliverOf
  <2>. QED BY <1>2, <2>2, <2>3 DEF StepOf, RunStep, AgentStep, EnqueueClaim, EnqueueSend, SelectAgents,
           LoadOutputs, EvaluationDone, Merge, Judge, CheckResolved, CountRewards, MintRewards,
           Acknowledge, Retry, GiveUp, FindEvaluation, CreateEvaluation
<1>5. CASE ReadStatus(s)
  BY <1>5, ReadStays DEF Attends
<1>6. CASE WriteStatus(s)
  <2>1. at[s] \in {"toAssigned", "toRunning"}
    BY <1>2, <1>6, TransitionLocations DEF WriteStatus
  <2>2. After(s) \in {"toRunning", "loadCrew"}
    BY <2>1 DEF After, Onward
  <2>. QED BY <1>2, <1>6, <2>2 DEF WriteStatus, Goto, Attends
<1>7. CASE LoadAssignments(s)
  <2>1. assignment[j][a] # "none"
    BY <1>7 DEF LoadAssignments, dataVars, Open
  <2>2. at'[s] = "agents" /\ task'[s] = task[s] /\ crew'[s][a] = "todo"
    BY <1>1, <1>2, <1>7, <2>1 DEF LoadAssignments, Goto
  <2>. QED BY <1>2, <2>2 DEF Attends
<1>8. CASE JoinAgents(s)
  BY <1>8 DEF JoinAgents, Attends
<1>9. ASSUME NEW b \in Agents,
             AgentStart(s, b) \/ AgentPersist(s, b) \/ AgentSubmit(s, b) \/ AgentFail(s, b)
      PROVE  Attends(s, j, a)'
  <2>1. at[s] = "agents" /\ UNCHANGED <<at, task>> /\ \A c \in Agents : c # b => crew'[s][c] = crew[s][c]
    BY <1>1, <1>9 DEF AgentStart, AgentPersist, AgentSubmit, AgentFail, SetCrew
  <2>2. CASE a # b
    BY <2>1, <2>2 DEF Attends
  <2>3. CASE a = b /\ (AgentStart(s, b) \/ AgentPersist(s, b))
    <3>1. crew'[s][a] \in {"busy", "saved"}
      BY <1>1, <2>3 DEF AgentStart, AgentPersist, SetCrew
    <3>. QED BY <1>2, <2>1, <3>1 DEF Attends
  <2>4. CASE a = b /\ (AgentSubmit(s, b) \/ AgentFail(s, b))
    BY <1>1, <1>2, <2>4 DEF AgentSubmit, AgentFail, SetAssignment, Open
  <2>. QED BY <1>9, <2>2, <2>3, <2>4
<1>. QED BY <1>4, <1>5, <1>6, <1>7, <1>8, <1>9

LEMMA AttendedStep ==
    ASSUME Calm, TypeInv, InStep, Attended, NEW s \in Runs, StepOf(s)
    PROVE  Attended'
<1>. SUFFICES ASSUME NEW j \in Jobs, NEW a \in Agents, assignment'[j][a] \in Open
              PROVE  \E r \in Runs : Attends(r, j, a)'
  BY DEF Attended, Open
<1>1. CASE assignment[j][a] \notin Open
  BY <1>1, Opens
<1>2. CASE assignment[j][a] \in Open
  <2>1. PICK r \in Runs : Attends(r, j, a)
    BY <1>2 DEF Attended, Open
  <2>2. CASE r = s
    BY <2>1, <2>2, AttendsOn
  <2>3. CASE r # s
    BY <2>1, <2>3, Locality DEF OnlyMoves, Attends
  <2>. QED BY <2>2, <2>3
<1>. QED BY <1>1, <1>2

LEMMA CalmInvStep == Calm /\ TypeInv /\ CalmInv /\ [Next]_vars => CalmInv'
<1>. SUFFICES ASSUME Calm, TypeInv, CalmInv, [Next]_vars PROVE CalmInv'
  OBVIOUS
<1>1. ASSUME NEW s \in Runs, StepOf(s) PROVE CalmInv'
  BY <1>1, OneBatonStep, InStepStep, LeasesHeldStep, AttendedStep DEF CalmInv
<1>2. CASE UNCHANGED vars
  BY <1>2 DEF vars, dataVars, queueVars, runVars, CalmInv, OneBaton, InStep, LeasesHeld, Attended,
              Working, Held, Holds, Message, Attends
<1>3. ASSUME NEW m \in Messages, LeaseExpires(m) PROVE CalmInv'
  BY <1>3, NoExpiry DEF CalmInv
<1>. QED BY <1>1, <1>2, <1>3 DEF Next, StepOf

\* The baton, its status and its assignments agree in every state of a calm pipeline.
THEOREM CalmInvariant == Calm /\ Spec => []CalmInv
<1>1. Init => CalmInv
  BY DEF Init, QueueInit, CalmInv, OneBaton, InStep, LeasesHeld, Attended, Working, Ending, Troubled
<1>2. CASE Calm
  BY <1>1, <1>2, CalmInvStep, TypeInvariant, PTL DEF Spec
<1>. QED BY <1>2

\* A concluded job leaves no assignment open in a pipeline that nothing disturbs:
\* whoever opened it is still at work on the job, and then the job is not done.
THEOREM AssignmentsAreClosed == Calm /\ Spec => []NoLeakedAssignments
<1>1. TypeInv /\ CalmInv => NoLeakedAssignments
  <2>. SUFFICES ASSUME TypeInv, CalmInv, NEW j \in Jobs, IsTerminal(status[j]),
                       NEW a \in Agents, assignment[j][a] \in {"PENDING", "RUNNING"}
                PROVE  FALSE
    BY DEF NoLeakedAssignments
  <2>1. PICK r \in Runs : Attends(r, j, a)
    BY DEF CalmInv, Attended
  <2>2. at[r] \in {"toAssigned", "toRunning", "loadCrew", "agents"} /\ task[r].job = j
    BY <2>1 DEF Attends
  <2>3. status[j] \in Before[at[r]]
    BY <2>2 DEF CalmInv, InStep, Working, Ending, Expected
  <2>4. status[j] \in {"QUEUED", "ASSIGNED", "RUNNING"}
    BY <2>2, <2>3 DEF Before
  <2>. QED BY <2>4, Table DEF IsTerminal
<1>. QED BY <1>1, TypeInvariant, CalmInvariant, PTL

\* The pipeline implements the documented life cycle when nothing disturbs it:
\* every write of transition() is the move it has read and checked, since no
\* other run of the job can have moved it in between.
THEOREM PipelineFollowsLifecycle == Calm /\ Spec => ImplementsLifecycle
<1>1. Init => Lifecycle!LifecycleInit
  BY DEF Init, Lifecycle!LifecycleInit, Absent, Lifecycle!Absent
<1>2. ASSUME TypeInv, CalmInv, Calm, [Next]_vars
      PROVE  [Lifecycle!LifecycleNext]_(Lifecycle!lifecycleVars)
  <2>1. ASSUME NEW s \in Runs, WriteStatus(s) PROVE Lifecycle!LifecycleNext
    <3>0. TypeOK /\ SlotsOK /\ KnownJobs /\ InStep
      BY <1>2 DEF TypeInv, TypeOK, CalmInv
    <3>1. /\ at[s] \in Transitions \ {"onFailed"} /\ Working(s) /\ seen[s] # Unread
          /\ at[s] # "idle" /\ at[s] \notin {"enqueue", "send"}
      BY <2>1, <3>0, TransitionLocations DEF WriteStatus, InStep, Troubled, Working, Ending
    <3>5. task[s].job \in Jobs
      BY <3>0, <3>1, BusyRun
    <3>2. seen[s] = status[task[s].job] /\ status[task[s].job] \in Before[at[s]]
      BY <3>0, <3>1 DEF InStep, Expected
    <3>3. Target[at[s]] \in Successors[status[task[s].job]] /\ status[task[s].job] # Absent
      BY <3>0, <3>1, <3>2, Expectations DEF CanTransition, KnownJobs
    <3>4. Lifecycle!Move(task[s].job, Target[at[s]])
      BY <2>1, <3>2 DEF WriteStatus, Lifecycle!Move, Event, Lifecycle!Event
    <3>. QED BY <3>5, <3>3, <3>4 DEF Lifecycle!LifecycleNext, Lifecycle!Advance, Successors, Lifecycle!Successors, JobStatuses, Lifecycle!JobStatuses, Absent, Lifecycle!Absent
  <2>2. ASSUME NEW s \in Runs, NEW j \in Jobs, CreateJob(s, j) PROVE Lifecycle!LifecycleNext
    BY <2>2 DEF CreateJob, Lifecycle!LifecycleNext, Lifecycle!Create, Lifecycle!Move, Event, Lifecycle!Event, Absent, Lifecycle!Absent
  <2>3. CASE UNCHANGED <<status, trail>>
    BY <2>3 DEF Lifecycle!lifecycleVars
  <2>4. CASE UNCHANGED vars \/ \E m \in Messages : LeaseExpires(m)
    BY <2>3, <2>4 DEF vars, dataVars, LeaseExpires
  <2>. QED BY <1>2, <2>1, <2>2, <2>3, <2>4, StatusWriters DEF Next, StepOf
<1>3. CASE Calm
  BY <1>1, <1>2, <1>3, TypeInvariant, CalmInvariant, PTL
     DEF Spec, ImplementsLifecycle, Lifecycle!LifecycleSpec
<1>. QED BY <1>3
=============================================================================
