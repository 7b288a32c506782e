----------------------------- MODULE Reputation ------------------------------
(***************************************************************************)
(* packages/reputation: an output scored by its own structure and by the   *)
(* rest of its cohort (EvaluationEngine), and the vector an agent's        *)
(* history gives it (ReputationEngine), which ConsensusStage recomputes    *)
(* (pipeline.ts).                                                          *)
(*                                                                         *)
(* A claim carries its marks besides what Consensus reads: what a reader   *)
(* of its text would find in it.  An observation has a kind, its values,   *)
(* the domains of the job it was made on, and its age in half-lives;       *)
(* values are in tenths.                                                   *)
(***************************************************************************)
EXTENDS Consensus

CONSTANTS Boilerplate,      \* what every rubric says
          ShortWords        \* stems of fewer than four letters

Part == [evidence |-> Frac(40, 100), consistency |-> Frac(20, 100), specificity |-> Frac(15, 100),
         corroboration |-> Frac(22, 100), rubric |-> Frac(8, 100)]

Half == Frac(1, 2)

\* The mean of an operator's values over the positions of a sequence.
MeanOver(s, Value(_)) == Mean([i \in DOMAIN s |-> Value(s[i])])

\* Evidence is a set of [source, reliability], the reliability in tenths.
Reliability(claim) ==
    LET cited == Listed(claim.evidence)
    IN  MeanOver(cited, LAMBDA e : Frac(e.reliability, 10))

Sources(input) == {e.source : e \in UNION {input.claims[k].evidence : k \in DOMAIN input.claims}}

ScoreEvidence(input) ==
    LET supported == SelectSeq(input.claims, LAMBDA c : c.evidence # {})
        coverage == Frac(Len(supported), Len(input.claims))
        breadth == Least(One, Frac(Cardinality(Sources(input)), Max({3, Len(input.claims)})))
    IN  IF supported = <<>> THEN Zero
        ELSE Total(<<Times(MeanOver(supported, Reliability), Frac(55, 100)),
                     Times(coverage, Frac(30, 100)), Times(breadth, Frac(15, 100))>>)

Related(c, d) == Similar(ContentSet(c.statement), ContentSet(d.statement))

Stance(claim) == Polarity(claim.statement)

\* A pair about one subject conflicts when it takes both sides of it.
ScoreConsistency(input) ==
    LET pairs == {p \in (DOMAIN input.claims) \X (DOMAIN input.claims) :
                    p[1] < p[2] /\ Related(input.claims[p[1]], input.claims[p[2]])}
        conflicts == {p \in pairs : Stance(input.claims[p[1]]) * Stance(input.claims[p[2]]) = -1}
    IN  IF pairs = {} THEN One
        ELSE Minus(One, Frac(Cardinality(conflicts), Cardinality(pairs)))

\* Figures, units, quotes and a fitting length make a claim; every hedge costs.
Concreteness(claim) ==
    LET m == claim.marks
        points(on, of) == IF on THEN of ELSE 0
    IN  Clamp01(<<points(m.number, 400) + points(m.unit, 250) + points(m.quoted, 100)
                    + (IF m.fits THEN 250 ELSE 125) - 150 * m.hedges, 1000>>)

ScoreSpecificity(input) ==
    IF input.claims = <<>> THEN Zero ELSE MeanOver(input.claims, Concreteness)

\* What the others who address its subject make of a claim.
Corroborated(claim, others) ==
    LET related == {i \in DOMAIN others : Related(claim, others[i])}
        agreeing == {i \in related : Stance(others[i]) * Stance(claim) # -1}
    IN  IF related = {} THEN Half ELSE Frac(Cardinality(agreeing), Cardinality(related))

ScoreCorroboration(input, cohort) ==
    LET others == SelectSeq(cohort, LAMBDA o : o.agent # input.agent)
        said == FlattenSeq([i \in DOMAIN others |-> others[i].claims])
    IN  CASE others = <<>> -> Half
          [] others # <<>> /\ input.claims = <<>> -> Zero
          [] OTHER -> MeanOver(input.claims, LAMBDA c : Corroborated(c, said))

\* The domain vocabulary of the rubrics in scope.
RubricTerms(rubrics) == UNION {ContentSet(r) : r \in rubrics} \ (Boilerplate \cup ShortWords)

\* A quarter of the vocabulary is as good as all of it; no rubric is neutral.
ScoreRubricAlignment(input, terms) ==
    LET used == UNION {ContentSet(input.claims[k].statement) : k \in DOMAIN input.claims}
        enough == Greatest(<<4, 1>>, Frac(Cardinality(terms), 4))
    IN  CASE terms = {} -> Half
          [] terms # {} /\ input.claims = <<>> -> Zero
          [] OTHER -> Least(One, Over(<<Cardinality(terms \cap used), 1>>, enough))

Evaluate(input, cohort, terms) ==
    LET scores == [evidence |-> ScoreEvidence(input),
                   consistency |-> ScoreConsistency(input),
                   specificity |-> ScoreSpecificity(input),
                   corroboration |-> ScoreCorroboration(input, cohort),
                   rubric |-> ScoreRubricAlignment(input, terms)]
        parts == Listed(DOMAIN Part)
    IN  [scores |-> scores,
         overall |-> Clamp01(Total([i \in DOMAIN parts |->
                                Times(Part[parts[i]], scores[parts[i]])]))]

------------------------------------------------------------------------------
(* What an agent's record comes to *)

PriorStrength == 10
Neutral == Frac(1, 2)

DimensionWeight == [accuracy |-> Frac(35, 100), calibration |-> Frac(25, 100),
                    consistency |-> Frac(15, 100), evidenceQuality |-> Frac(25, 100)]

Recency(observation) == Frac(1, 2 ^ observation.age)

\* Mutant of BrierScore: the distance itself, which rewards certainty.
AbsoluteError(confidence, came) == IF came THEN Frac(10 - confidence, 10) ELSE Frac(confidence, 10)

\* The squared distance of the stated confidence from what happened.
BrierScore(confidence, came) ==
    LET miss == IF came THEN 10 - confidence ELSE confidence IN Frac(miss * miss, 100)

\* The mean of Value over the observations, the recent ones counting for more.
\* The count is of observations, however old.
WeightedMean(observations, Value(_)) ==
    LET weights == [i \in DOMAIN observations |-> Recency(observations[i])]
        values == [i \in DOMAIN observations |-> Times(Value(observations[i]), weights[i])]
    IN  IF observations = <<>> THEN [mean |-> Neutral, count |-> 0]
        ELSE [mean |-> Over(Total(values), Total(weights)), count |-> Len(observations)]

\* Towards neutral, as if PriorStrength neutral observations had been made.
Shrink(mean, count) ==
    IF count = 0 THEN Neutral
    ELSE Clamp01(Over(Plus(<<PriorStrength \div 2, 1>>, Times(mean, <<count, 1>>)),
                      <<PriorStrength + count, 1>>))

\* The root to a hundredth, rounded down.
Root(x) == LET below == {k \in 0..100 : k * k * x[2] <= 10000 * x[1]}
           IN  Frac(CHOOSE k \in below : \A o \in below : o <= k, 100)

Deviation(values) ==
    LET mean == Mean(values)
        squares == [i \in DOMAIN values |-> LET d == Minus(values[i], mean) IN Times(d, d)]
    IN  Root(Over(Total(squares), <<Len(values) - 1, 1>>))

\* How steadily an agent tracks its cohorts, from the second one on.
Stability(agreements) ==
    IF Len(agreements) < 2 THEN Neutral
    ELSE Minus(One, Least(One, Times(<<2, 1>>, Deviation(agreements))))

OfKind(observations, kind) == SelectSeq(observations, LAMBDA o : o.kind = kind)

Accuracy(observations) ==
    LET raw == WeightedMean(OfKind(observations, "prediction"),
                            LAMBDA p : IF p.came THEN One ELSE Zero)
    IN  Shrink(raw.mean, raw.count)

Calibration(observations) ==
    LET raw == WeightedMean(OfKind(observations, "prediction"),
                            LAMBDA p : BrierScore(p.confidence, p.came))
    IN  Shrink(Clamp01(Minus(One, Times(<<2, 1>>, raw.mean))), raw.count)

EvidenceQuality(observations) ==
    LET raw == WeightedMean(OfKind(observations, "evaluation"),
                            LAMBDA e : Frac(e.evidenceQuality, 10))
    IN  Shrink(raw.mean, raw.count)

Consistency(observations) ==
    LET raw == WeightedMean(OfKind(observations, "evaluation"),
                            LAMBDA e : Frac(e.internalConsistency, 10))
        cohorts == OfKind(observations, "consensus")
        stability == Stability([i \in DOMAIN cohorts |-> Frac(cohorts[i].agreement, 10)])
    IN  Shrink(IF raw.count = 0 THEN stability
               ELSE Plus(Times(raw.mean, Frac(7, 10)), Times(stability, Frac(3, 10))),
               raw.count + Len(cohorts))

Compute(observations) ==
    LET vector == [accuracy |-> Accuracy(observations), calibration |-> Calibration(observations),
                   consistency |-> Consistency(observations),
                   evidenceQuality |-> EvidenceQuality(observations)]
        dimensions == Listed(DOMAIN DimensionWeight)
    IN  [dimensions |-> vector,
         overall |-> Clamp01(Total([i \in DOMAIN dimensions |->
                        Times(DimensionWeight[dimensions[i]], vector[dimensions[i]])]))]

\* The engine's own notion of a domain's reputation.
InDomain(observations, domain) == SelectSeq(observations, LAMBDA o : domain \in o.domains)
ComputeByDomain(observations, domain) == Compute(InDomain(observations, domain))

\* recomputeVector: every observation of the agent, whatever job it was made on;
\* the domain that the vector is stored under only labels them.
RecomputeVector(history) == Compute(history)
==============================================================================
