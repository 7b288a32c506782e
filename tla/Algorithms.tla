----------------------------- MODULE Algorithms ------------------------------
(***************************************************************************)
(* The protocol's arithmetic, each part over every small input: the rows   *)
(* RewardStage writes, a cohort merged and explained, an agent's           *)
(* reputation, the cohort of a job and the jobs of an operator.  A         *)
(* behaviour chooses one input in two steps and then runs the code on it,  *)
(* stage by stage; the properties relate the outcome to the input.         *)
(***************************************************************************)
EXTENDS Explanation, Selection, SettlementPlan

CONSTANTS SplitBudgets, ShareSettings, Contributors, WeightValues,   \* bounds of a split
          Submissions,      \* bound: what one agent may submit
          CohortSizes,      \* bound: agents that deliver
          Expected,         \* agents the job asked for
          RubricsInScope,
          Observations,     \* bound: what an agent may have done
          HistoryLength,    \* bound
          Candidates,       \* bound: agents to select from
          Postings,         \* bound: jobs to select agents for
          Offers,           \* bound: jobs offered to an operator
          Policies          \* bound: an operator's strategy

\* What the columns hold: counts and prices are numbers, ratings are in tenths.
ASSUME InputsAssumption ==
    /\ SplitBudgets \subseteq Nat /\ ShareSettings \subseteq Int
    /\ IsFiniteSet(Contributors) /\ Contributors \cap Roles = {} /\ WeightValues \subseteq Nat
    /\ SnapshotPage \in Nat
    /\ \A a \in Candidates :
          /\ a.price \in Int /\ a.limit \in Int
          /\ IsFiniteSet(a.capabilities) /\ \A c \in a.capabilities : c.declared \in Int
          /\ \A s \in DOMAIN a.assignments : a.assignments[s] \in Nat
          /\ a.snapshots \in Seq(ToSet(a.snapshots))
          /\ \A i \in DOMAIN a.snapshots : a.snapshots[i].overall \in Int
    /\ \A j \in Postings : IsFiniteSet(j.requires) /\ j.seats \in Nat \ {0} /\ j.budget \in Nat
    /\ \A j \in Offers : IsFiniteSet(j.requires) /\ j.budget \in Nat /\ j.deadline \in Int
    /\ \A p \in Policies : p.maxConcurrent \in Nat

VARIABLES input,
          outcome       \* what each stage run so far left
vars == <<input, outcome>>

Nothing == [of |-> "nothing"]
NotRun == [stage |-> "none"]

Chosen(kind) == input.of = kind /\ input.whole /\ outcome = NotRun

Outcome(left) == outcome' = left /\ UNCHANGED input

\* The settings are varied for two of the four roles; the others are unset.
Environment == [AGENT |-> input.agents, VALIDATOR |-> -1,
                PROTOCOL |-> input.protocol, TREASURY |-> -1]

ChooseSplit ==
    \E b \in SplitBudgets : input' = [of |-> "split", budget |-> b, whole |-> FALSE]
ChooseWeights ==
    /\ input.of = "split" /\ ~input.whole
    /\ \E a, p \in ShareSettings, w \in [Contributors -> WeightValues] :
          input' = [of |-> "split", budget |-> input.budget, whole |-> TRUE,
                    agents |-> a, protocol |-> p, weights |-> w]

\* Agents are numbered in the order of their outputs' ids.
AsAgent(submission, a) == [agent |-> a] @@ submission

ChooseFirst ==
    \E n \in CohortSizes, s \in Submissions :
        input' = [of |-> "merge", size |-> n, first |-> s, whole |-> FALSE]
ChooseOthers ==
    /\ input.of = "merge" /\ ~input.whole
    /\ \E others \in [2..input.size -> Submissions] :
          input' = [of |-> "merge", whole |-> TRUE,
                    cohort |-> [i \in 1..input.size |->
                        AsAgent(IF i = 1 THEN input.first ELSE others[i], i)]]

ChooseLength == \E n \in 1..HistoryLength : input' = [of |-> "history", size |-> n, whole |-> FALSE]
ChooseHistory ==
    /\ input.of = "history" /\ ~input.whole
    /\ \E h \in [1..input.size -> Observations] :
          input' = [of |-> "history", whole |-> TRUE, observations |-> h]

ChoosePosting == \E j \in Postings : input' = [of |-> "select", job |-> j, whole |-> FALSE]
\* The row of the ith candidate.
AsCandidate(a, i) ==
    [id |-> i, capabilities |-> a.capabilities, price |-> a.price, limit |-> a.limit,
     active |-> a.active, configured |-> a.configured, assignments |-> a.assignments,
     snapshots |-> a.snapshots]

ChooseCandidates ==
    /\ input.of = "select" /\ ~input.whole
    /\ \E a, b, c \in Candidates :
          input' = [of |-> "select", job |-> input.job, whole |-> TRUE,
                    candidates |-> [i \in 1..3 |-> AsCandidate(<<a, b, c>>[i], i)]]

ChoosePolicy == \E p \in Policies, n \in 0..1 :
    input' = [of |-> "offers", policy |-> p, inFlight |-> n, whole |-> FALSE]
ChooseOffers ==
    /\ input.of = "offers" /\ ~input.whole
    /\ \E a, b, c \in Offers :
          input' = [of |-> "offers", policy |-> input.policy, inFlight |-> input.inFlight,
                    whole |-> TRUE, jobs |-> <<a, b, c>>]

------------------------------------------------------------------------------
(* Running the code on it.  A cohort is evaluated, merged and explained. *)

PayRewards ==
    /\ Chosen("split")
    /\ Outcome([stage |-> "rewarded",
                rows |-> RewardRows(input.budget, Environment, input.weights)])

\* EvaluationStage stores the score; the weighting reads it, to a tenth here.
Tenths(x) == (10 * x[1]) \div x[2]

Terms == RubricTerms(RubricsInScope)

Evaluations(cohort) == [i \in DOMAIN cohort |-> Evaluate(cohort[i], cohort, Terms).overall]

Evaluated(cohort, overall) ==
    Tuple([i \in DOMAIN cohort |-> [cohort[i] EXCEPT !.signals.evaluation = Tenths(overall[i])]])

Result(evaluated) == Merge(evaluated, MultiFactor(evaluated), Expected)

RunEvaluation ==
    /\ Chosen("merge")
    /\ Outcome([stage |-> "evaluated", scores |-> Tuple(Evaluations(input.cohort))])

\* The cohort is loaded in one order and, on another run, in the opposite one.
RunConsensus ==
    /\ outcome.stage = "evaluated"
    /\ LET evaluated == Evaluated(input.cohort, outcome.scores)
       IN  Outcome([stage |-> "merged", scores |-> outcome.scores,
                    result |-> Result(evaluated), again |-> Result(Reverse(evaluated))])

Explained(cohort, scores, result) == ExplainJob(result, scores, Len(cohort), Expected, Zero)

RunExplanation ==
    /\ outcome.stage = "merged"
    /\ Outcome([stage |-> "explained", result |-> outcome.result, again |-> outcome.again,
                why |-> Explained(input.cohort, outcome.scores, outcome.result)])

RecomputeReputation ==
    /\ Chosen("history")
    /\ LET all == input.observations
       IN  Outcome([stage |-> "recomputed",
                    overall |-> <<>> @@ RecomputeVector(all).dimensions,
                    byDomain |-> <<>> @@ [d \in UNION {all[i].domains : i \in DOMAIN all} |->
                                            ComputeByDomain(all, d).dimensions]])

SelectAgents ==
    /\ Chosen("select")
    /\ Outcome([stage |-> "selected", cohort |-> Cohort(input.candidates, input.job)])

TakeJobs ==
    /\ Chosen("offers")
    /\ Outcome([stage |-> "taken", taken |-> Taken(input.jobs, input.policy, input.inFlight)])

Init == input = Nothing /\ outcome = NotRun

Choose == \/ input = Nothing /\ (ChooseSplit \/ ChooseFirst \/ ChooseLength \/ ChoosePosting \/ ChoosePolicy)
          \/ ChooseWeights \/ ChooseOthers \/ ChooseHistory \/ ChooseCandidates \/ ChooseOffers
Next == \/ Choose /\ UNCHANGED outcome
        \/ PayRewards \/ RunEvaluation \/ RunConsensus \/ RunExplanation
        \/ RecomputeReputation \/ SelectAgents \/ TakeJobs

Spec == Init /\ [][Next]_vars

------------------------------------------------------------------------------
(* Reward rows *)

Earned == \E a \in Contributors : input.weights[a] > 0

\* "A misconfigured split can never pay out more than the budget", up to the
\* rounding of every row to the column's scale: half a unit each, either way.
\* Nothing of the budget is lost either, once somebody earned the agents' pool.
SplitKeepsBudget ==
    outcome.stage = "rewarded" => KeepsBudget(outcome.rows, input.budget, Earned)

------------------------------------------------------------------------------
(* A cohort, merged and explained *)

\* However often an agent repeats itself, its voice counts once: the support of
\* a claim is the weight of the agents behind it, never more than the whole, and
\* the merged confidence lies between those its supporters stated.
VoicesCountOnce ==
    outcome.stage = "explained" =>
        LET result == outcome.result
            stated(agents) == {c.confidence : c \in UNION {ToSet(input.cohort[a].claims) : a \in agents}}
        IN  \A i \in DOMAIN result.claims :
                LET claim == result.claims[i]
                IN  /\ claim.support = TotalOf(claim.supportedBy, result.weight)
                    /\ AtMost(claim.support, One)
                    /\ AtMost(Frac(Min(stated(claim.supportedBy)), 10), claim.confidence)
                    /\ AtMost(claim.confidence, Frac(Max(stated(claim.supportedBy)), 10))

\* One of the heaviest recommendations; the same one when one agent is heaviest.
SameAdvice(one, other, cohort, weight) ==
    LET given == {c \in ToSet(cohort) : c.recommendation # NoAction}
        heaviest == {c \in given : \A o \in given : AtMost(weight[o.agent], weight[c.agent])}
    IN  \/ one = other
        \/ /\ Cardinality(heaviest) > 1
           /\ {one.action, other.action} \subseteq {c.recommendation : c \in heaviest}

\* The same keys and numbers; of a key without numbers a text somebody gave.
SameMetrics(one, other, cohort) ==
    /\ DOMAIN one = DOMAIN other
    /\ \A key \in DOMAIN one :
          \/ one[key] = other[key]
          \/ {one[key], other[key]} \subseteq
                {c.metrics[key] : c \in {c \in ToSet(cohort) : /\ key \in DOMAIN c.metrics
                                                             /\ c.metrics[key].text}}

\* The same risks at the same severities, the severe ones first, in somebody's words.
SameRisks(one, other, cohort) ==
    LET rated(list) == {[about |-> r.about, severity |-> r.severity] : r \in ToSet(list)}
        told == UNION {ToSet(c.risks) : c \in ToSet(cohort)}
    IN  /\ rated(one) = rated(other)
        /\ \A list \in {one, other} :
              /\ ToSet(list) \subseteq told /\ Len(list) = Cardinality(rated(list))
              /\ \A i, k \in DOMAIN list : i < k => list[i].severity >= list[k].severity

\* "Identical cohorts must merge identically" (cluster.ts): the order in which
\* the outputs come back from the database decides which of two equally heavy
\* recommendations, of two texts for a metric and of two wordings of a risk at
\* one severity is quoted, and in which order equal risks are listed.  It decides
\* nothing else: no claim, weight, disagreement, number, severity or score.
MergeIsOrderFree ==
    outcome.stage = "explained" =>
        LET one == outcome.result
            other == outcome.again
            rest(r) == [f \in DOMAIN r \ {"recommendation", "metrics", "risks"} |-> r[f]]
        IN  /\ rest(other) = rest(one)
            /\ SameAdvice(one.recommendation, other.recommendation, input.cohort, one.weight)
            /\ SameMetrics(one.metrics, other.metrics, input.cohort)
            /\ SameRisks(one.risks, other.risks, input.cohort)

\* What the merge reports as an open disagreement, the explanation does not let
\* a reader rely on; and a job of one agent is never called supported.
ContestedIsNotReliedOn ==
    outcome.stage = "explained" =>
        LET result == outcome.result
            contested == {result.disagreements[i].statement : i \in DOMAIN result.disagreements}
        IN  /\ \A i \in DOMAIN result.claims :
                  outcome.why.verdicts[i] = "SUPPORTED" => result.claims[i].statement \notin contested
            /\ outcome.why.verdict = "SUPPORTED" => Len(input.cohort) > 1

------------------------------------------------------------------------------
(* Reputation *)

\* What the agent could have stated instead, on the same outcomes, every time.
StatedAs(observations, q) == [i \in DOMAIN observations |-> [observations[i] EXCEPT !.confidence = q]]

Hits(observations) == Len(SelectSeq(observations, LAMBDA o : o.came))

Distance(x, y) == IF x > y THEN x - y ELSE y - x

\* Of two confidences the one nearer to what the outcomes bear out is never rated
\* worse, so stating another than one's own gains nothing; and a short history, of
\* one domain or of all, moves no dimension far: n observations, n / (2n + 20).
HonestyPays ==
    outcome.stage = "recomputed" =>
        LET all == input.observations
            outcomes == OfKind(all, "prediction")
            today == [i \in DOMAIN outcomes |-> [outcomes[i] EXCEPT !.age = 0]]
            n == Len(outcomes)
            off(q) == Distance(q * n, 10 * Hits(outcomes))
            rated == <<>> @@ [q \in 0..10 |-> Calibration(StatedAs(today, q))]
            reach(m) == Frac(m, 2 * m + 2 * PriorStrength)
            modest(vector, m) ==
                \A d \in DOMAIN vector : /\ AtMost(Minus(Neutral, reach(m)), vector[d])
                                         /\ AtMost(vector[d], Plus(Neutral, reach(m)))
        IN  /\ \A q, r \in 0..10 : off(q) <= off(r) => AtMost(rated[r], rated[q])
            /\ modest(outcome.overall, Len(all))
            /\ \A d \in DOMAIN outcome.byDomain :
                  modest(outcome.byDomain[d], Len(InDomain(all, d)))

------------------------------------------------------------------------------
(* Selection *)

\* A cohort costs no more than its job pays, seats nobody twice and no more than
\* were asked for, and leaves a seat empty only when nobody eligible is left.
CohortFitsTheJob ==
    outcome.stage = "selected" =>
        LET job == input.job
            cohort == outcome.cohort
            ids == {cohort[i].id : i \in DOMAIN cohort}
            affordable(a) == job.budget = 0 \/ a.price * job.seats <= job.budget
            fit == {i \in DOMAIN input.candidates :
                        LET a == Described(input.candidates[i])
                        IN  /\ a.configured /\ a.active /\ a.load < a.limit /\ affordable(a)
                            /\ job.requires = {} \/ Covered(a, job.requires) # {}}
            price == [i \in DOMAIN cohort |-> cohort[i].price]
        IN  /\ job.budget > 0 => SumFunctionOnSet(price, DOMAIN cohort) <= job.budget
            /\ ids \subseteq fit
            /\ Cardinality(ids) = Len(cohort)
            /\ Len(cohort) = Min({job.seats, Cardinality(fit)})

\* The jobs an operator takes are worth as much together as any it could take
\* within its room, and it passes no acceptable job over while it has room.
TakesTheBest ==
    outcome.stage = "taken" =>
        LET accepted == {i \in DOMAIN input.jobs : SkipReason(input.jobs[i], input.policy) = ""}
            room == Max({0, input.policy.maxConcurrent - input.inFlight})
            worth(S) == LET s == Listed(S)
                        IN  Total([i \in DOMAIN s |-> Attraction(input.jobs[s[i]], input.policy)])
            taken == outcome.taken
        IN  \A S \in SUBSET accepted :
                Cardinality(S) <= room => /\ AtMost(worth(S), worth(taken))
                                          /\ Cardinality(S) <= Cardinality(taken)
==============================================================================
