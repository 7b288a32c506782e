------------------------------ MODULE Selection ------------------------------
(***************************************************************************)
(* AgentSelector (packages/reputation/src/selection.ts) as JobEngine and   *)
(* ExecutionPipeline call it, and StrategyEngine (packages/strategy), by   *)
(* which an operator picks jobs.                                           *)
(*                                                                         *)
(* An agent's row has its id, capabilities (a set of [domain, skill,       *)
(* declared]), price, limit, whether it is active and its provider         *)
(* configured, how many assignments it has in each status, and its         *)
(* reputation snapshots, the newest first.  Ratings are in tenths.         *)
(***************************************************************************)
EXTENDS Fractions, SequencesExt, FiniteSetsExt

CONSTANT SnapshotPage    \* how many snapshots of an agent are read, 40

Everything == "everything"    \* the domain of an overall snapshot

\* JobEngine.candidates: the page is one for all domains together, the newest
\* snapshot of a domain counts, and who has none is neutral.
Described(row) ==
    LET page == SubSeq(row.snapshots, 1, Min({SnapshotPage, Len(row.snapshots)}))
        rated == {page[i].domain : i \in DOMAIN page}
        latest == [d \in rated |-> page[Min({i \in DOMAIN page : page[i].domain = d})].overall]
    IN  [id |-> row.id, capabilities |-> row.capabilities, price |-> row.price,
         limit |-> row.limit, active |-> row.active, configured |-> row.configured,
         load |-> SumFunctionOnSet(row.assignments,
                                   {"PENDING", "ACCEPTED", "RUNNING"} \cap DOMAIN row.assignments),
         reputation |-> IF Everything \in rated THEN latest[Everything] ELSE 5,
         domainReputation |-> [d \in rated \ {Everything} |-> latest[d]]]

Domains(agent) == {c.domain : c \in agent.capabilities}

\* A required capability may name a domain or a skill in it.
Covered(agent, required) == required \cap (Domains(agent) \cup {c.skill : c \in agent.capabilities})

\* Mutant of Eligible: what an agent costs is not compared with its part.
EligibleAtAnyPrice(agent, required, ceiling) ==
    /\ agent.active /\ agent.load < agent.limit
    /\ required # {} => Covered(agent, required) # {}

\* A ceiling is a fraction, or <<>> when the job states no budget.
Eligible(agent, required, ceiling) ==
    /\ agent.active
    /\ agent.load < agent.limit
    /\ ceiling # <<>> => AtMost(<<agent.price, 1>>, ceiling)
    /\ required # {} => Covered(agent, required) # {}

MeanOfSet(S, Value(_)) == LET s == Listed(S) IN Mean([i \in DOMAIN s |-> Value(s[i])])

CapabilityMatch(agent, required) ==
    IF required = {} THEN Frac(1, 2)
    ELSE Frac(Cardinality(Covered(agent, required)), Cardinality(required))

MeanDeclared(agent, required) ==
    LET relevant == {c \in agent.capabilities : required = {} \/ c.domain \in required}
    IN  IF relevant = {} THEN Frac(1, 2) ELSE MeanOfSet(relevant, LAMBDA c : Frac(c.declared, 10))

\* Without a record in what the job requires, the overall one speaks for it.
MeanDomainReputation(agent, required) ==
    LET known == required \cap DOMAIN agent.domainReputation
    IN  IF known = {} THEN Frac(agent.reputation, 10)
        ELSE MeanOfSet(known, LAMBDA d : Frac(agent.domainReputation[d], 10))

Availability(agent) == Frac(agent.limit - agent.load, agent.limit)

Diversity(agent, covered) ==
    LET fresh == {c \in agent.capabilities : c.domain \notin covered}
    IN  IF agent.capabilities = {} THEN Zero
        ELSE Frac(Cardinality(fresh), Cardinality(agent.capabilities))

SeatScore(agent, required, covered) ==
    LET base == Total(<<Times(CapabilityMatch(agent, required), Frac(40, 100)),
                        Times(MeanDomainReputation(agent, required), Frac(30, 100)),
                        Times(Frac(agent.reputation, 10), Frac(15, 100)),
                        Times(Availability(agent), Frac(15, 100))>>)
    IN  Times(Times(base, Plus(One, Times(Frac(1, 5), Diversity(agent, covered)))),
              Plus(Frac(85, 100), Times(Frac(15, 100), MeanDeclared(agent, required))))

\* The first of the best takes the next seat.
NextSeat(candidates, remaining, required, covered) ==
    LET score == [i \in remaining |-> SeatScore(candidates[i], required, covered)]
    IN  CHOOSE i \in remaining : \A k \in remaining :
            AtMost(score[k], score[i]) /\ (k < i => Below(score[k], score[i]))

\* One more is seated, while somebody is left.
SeatOne(candidates, eligible, required, chosen) ==
    LET remaining == eligible \ ToSet(chosen)
        covered == UNION {Domains(candidates[chosen[k]]) : k \in DOMAIN chosen}
    IN  IF remaining = {} THEN chosen
        ELSE Append(chosen, NextSeat(candidates, remaining, required, covered))

\* The places of those who are seated, in the order they are chosen.
Seated(candidates, eligible, required, seats) ==
    LET seated[n \in 0..seats] ==
            IF n = 0 THEN <<>> ELSE SeatOne(candidates, eligible, required, seated[n - 1])
    IN  seated[seats]

\* From those of the candidates that are at the given places.
Select(candidates, places, required, seats, ceiling) ==
    LET eligible == {i \in places : Eligible(candidates[i], required, ceiling)}
        seated == Seated(candidates, eligible, required, seats)
    IN  [k \in DOMAIN seated |-> candidates[seated[k]]]

\* ExecutionPipeline: the agents whose provider has credentials, each worth no
\* more than its part of the job's budget, when the job states one.
Cohort(agents, job) ==
    LET candidates == Tuple([i \in DOMAIN agents |-> Described(agents[i])])
    IN  Select(candidates, {i \in DOMAIN agents : agents[i].configured}, job.requires, job.seats,
               IF job.budget > 0 THEN Frac(job.budget, job.seats) ELSE <<>>)

------------------------------------------------------------------------------
(* The operator's side.  Times are in minutes; NoDeadline is none. *)

NoDeadline == -1

\* The reason a job is skipped for, the first that applies, or "".
SkipReason(job, config) ==
    CASE config.types # {} /\ job.type \notin config.types -> "JOB_TYPE_MISMATCH"
      [] config.domains # {} /\ job.requires # {} /\ job.requires \cap config.domains = {}
            -> "DOMAIN_MISMATCH"
      [] job.budget < config.minReward -> "REWARD_TOO_LOW"
      [] job.confidence > config.maxConfidence -> "CONFIDENCE_TOO_HIGH"
      [] job.deadline # NoDeadline /\ job.deadline < config.minTime -> "DEADLINE_TOO_CLOSE"
      [] OTHER -> ""

Attraction(job, config) ==
    LET matched == IF config.domains = {} THEN One
                   ELSE Frac(Cardinality(job.requires \cap config.domains),
                             Max({1, Cardinality(job.requires)}))
        urgency == IF job.deadline = NoDeadline THEN Frac(1, 5)
                   ELSE Frac(60, Max({60, job.deadline}))
    IN  Total(<<Times(<<job.budget, 1>>, Frac(6, 10)), Times(matched, Frac(3, 10)),
                Times(urgency, Frac(1, 10))>>)

\* Mutant of Taken: the jobs are taken as they come.
TakenInOrder(jobs, config, inFlight) ==
    LET accepted == {i \in DOMAIN jobs : SkipReason(jobs[i], config) = ""}
    IN  {i \in accepted : Cardinality({k \in accepted : k < i}) < config.maxConcurrent - inFlight}

\* The jobs taken: the most attractive within the room left, the first of equals.
Taken(jobs, config, inFlight) ==
    LET accepted == {i \in DOMAIN jobs : SkipReason(jobs[i], config) = ""}
        value == [i \in accepted |-> Attraction(jobs[i], config)]
        ranked == Ranked(accepted, LAMBDA i, k :
                    Below(value[k], value[i]) \/ (AtMost(value[k], value[i]) /\ i < k))
        room == Max({0, config.maxConcurrent - inFlight})
    IN  ToSet(SubSeq(ranked, 1, Min({room, Len(ranked)})))

\* Nothing is dropped silently: what is left out for want of room says so.
Decision(jobs, config, inFlight, i) ==
    CASE i \in Taken(jobs, config, inFlight) -> "taken"
      [] SkipReason(jobs[i], config) # "" -> SkipReason(jobs[i], config)
      [] OTHER -> "AT_CAPACITY"
==============================================================================
