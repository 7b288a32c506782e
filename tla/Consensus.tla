------------------------------ MODULE Consensus ------------------------------
(***************************************************************************)
(* packages/consensus: what the protocol sees in the wording of a claim    *)
(* (text.ts, and claimFingerprint of types/src/intelligence.ts), how much  *)
(* each agent's voice counts (weighting.ts), and the outputs of a cohort   *)
(* merged into one result (cluster.ts, ConsensusEngine.run).               *)
(*                                                                         *)
(* A statement is a sequence of words; the word lists and the stemmer are  *)
(* parameters.  A cohort is a sequence of inputs.  An input has the agent  *)
(* (who submits one output, so it stands for the output too), its claims,  *)
(* a recommendation or NoAction, the severity of every risk it names, its  *)
(* own confidence, its signals in tenths, and the overall score of its     *)
(* evaluation, Unscored when it has none.  A claim has a statement, a      *)
(* confidence in tenths and its evidence.  A factor is in twentieths, a    *)
(* score in two-hundredths.  The code rounds supports and weights to four  *)
(* places and metrics to six; here they are exact, so that its tolerances  *)
(* (1e-9) are equalities.                                                  *)
(***************************************************************************)
EXTENDS Fractions, FiniteSets, SequencesExt

CONSTANTS
    Stem,                   \* the stem of every word: two spellings may share one
    Positive, Negative,     \* words that assert and words that deny
    Negators,               \* words that flip what follows them
    Stopwords,              \* dropped by tokenize
    Filler                  \* dropped by claimFingerprint

Tokenize(statement) == SelectSeq(statement, LAMBDA w : w \notin Stopwords)

ContentSet(statement) == {Stem[w] : w \in ToSet(Tokenize(statement))}

\* The words, unstemmed and in no order: sorting makes a bag of them.
Fingerprint(statement) == ToBag(SelectSeq(statement, LAMBDA w : w \notin Filler))

\* A negator counts against the statement and inverts every word after it.
Heard(acc, word) ==
    LET weight == IF word \in Positive THEN 1 ELSE IF word \in Negative THEN -1 ELSE 0
    IN  IF word \in Negators
        THEN [score |-> acc.score - 1, negated |-> TRUE]
        ELSE [acc EXCEPT !.score = @ + (IF acc.negated THEN -weight ELSE weight)]

Polarity(statement) ==
    LET score == FoldLeft(Heard, [score |-> 0, negated |-> FALSE], Tokenize(statement)).score
    IN  IF score > 0 THEN 1 ELSE IF score < 0 THEN -1 ELSE 0

\* The square of similarity(), which takes a square root: the better of the
\* Jaccard index and of the containment damped by the ratio of the lengths.
Square(x) == Times(x, x)

SimilaritySquared(a, b) ==
    LET shared == Cardinality(a \cap b)
        larger == Max({Cardinality(a), Cardinality(b)})
        smaller == Min({Cardinality(a), Cardinality(b)})
    IN  CASE smaller = 0 -> IF larger = 0 THEN One ELSE Zero
          [] smaller > 0 /\ shared = 0 -> Zero
          [] OTHER -> Greatest(Square(Frac(shared, Cardinality(a \cup b))),
                               Times(Square(Frac(shared, smaller)), Frac(smaller, larger)))

SimilarityThreshold == Frac(4, 10)

Similar(a, b) == AtMost(Square(SimilarityThreshold), SimilaritySquared(a, b))

------------------------------------------------------------------------------
(* Weighting *)

Unscored == -1

MaxShare == Frac(1, 2)
MinShare == Frac(1, 20)

\* DEFAULT_FACTORS, in twentieths.
Factors == [domain |-> 6, accuracy |-> 4, calibration |-> 3, evidence |-> 4,
            evaluation |-> 2, selfConfidence |-> 1]

\* No record in the domain falls back to the overall reputation, no evaluation
\* to neutral.  The least score, 1e-6 in the code, is one unit here.
Score(input) ==
    LET s == input.signals
        domain == IF s.domain > 0 THEN s.domain ELSE s.reputation
        evaluation == IF s.evaluation = Unscored THEN 5 ELSE s.evaluation
    IN  Max({1, domain * Factors.domain + s.accuracy * Factors.accuracy
                + s.calibration * Factors.calibration + s.evidence * Factors.evidence
                + evaluation * Factors.evaluation
                + input.confidence * Factors.selfConfidence})

Scaled(shares) ==
    LET total == Total(shares) IN Tuple([i \in DOMAIN shares |-> Over(shares[i], total)])

FeasibleMin(n) == Least(MinShare, Frac(1, n))
FeasibleMax(n) == Greatest(MaxShare, Frac(1, n))

\* The difference goes to the agents at neither bound, in proportion.
Redistributed(shares, free, drift) ==
    LET freeTotal == Total([i \in DOMAIN shares |-> IF i \in free THEN shares[i] ELSE Zero])
    IN  [i \in DOMAIN shares |->
            IF i \in free
            THEN Plus(shares[i], Times(drift, Over(shares[i], freeTotal)))
            ELSE shares[i]]

\* One pass of pinning and redistributing, and whether it is the last.  With
\* everyone at a bound the shares are scaled to the whole, past the ceiling if
\* that is what it takes.
ClampPass(shares) ==
    LET lo == FeasibleMin(Len(shares))
        hi == FeasibleMax(Len(shares))
        clamped == Tuple([i \in DOMAIN shares |-> Least(hi, Greatest(lo, shares[i]))])
        free == {i \in DOMAIN shares : Below(lo, shares[i]) /\ Below(shares[i], hi)}
        drift == Minus(One, Total(clamped))
        spread == Tuple(Redistributed(clamped, free, drift))
    IN  CASE drift = Zero -> [shares |-> clamped, last |-> TRUE]
          [] drift # Zero /\ free = {} -> [shares |-> Scaled(clamped), last |-> TRUE]
          [] OTHER -> IF clamped = shares THEN [shares |-> Scaled(spread), last |-> TRUE]
                                          ELSE [shares |-> spread, last |-> FALSE]

\* Eight passes at most.
ClampShares(shares) ==
    LET pass[n \in 0..8] ==
            IF n = 0 THEN [shares |-> shares, last |-> FALSE]
            ELSE LET before == pass[n - 1] IN IF before.last THEN before ELSE ClampPass(before.shares)
    IN  IF pass[8].last THEN pass[8].shares ELSE Scaled(pass[8].shares)

MultiFactor(inputs) ==
    IF Len(inputs) = 1 THEN <<One>>
    ELSE ClampShares(Scaled([i \in DOMAIN inputs |-> <<Score(inputs[i]), 1>>]))

------------------------------------------------------------------------------
(* Merging *)

NoAction == "none"

MinSupport == Frac(15, 100)
DisagreementThreshold == Frac(20, 100)

Agents(cohort) == {cohort[i].agent : i \in DOMAIN cohort}

\* toClaimRefs: every claim with the agent and the position it came from.
ClaimRefs(cohort) ==
    UNION {{[agent |-> cohort[i].agent, index |-> k, claim |-> cohort[i].claims[k]]
              : k \in DOMAIN cohort[i].claims} : i \in DOMAIN cohort}

FingerprintOf(ref) == Fingerprint(ref.claim.statement)
StanceOf(ref) == Polarity(ref.claim.statement)

------------------------------------------------------------------------------
(* Clustering: claims about the same subject, whichever side they take *)

\* Mutant of Ordered: claims are clustered in the order they were submitted.
OrderedAsSubmitted(cohort) ==
    FlattenSeq([i \in DOMAIN cohort |->
        [k \in DOMAIN cohort[i].claims |->
            [agent |-> cohort[i].agent, index |-> k, claim |-> cohort[i].claims[k]]]])

\* By fingerprint, then by output: SetToSeq is one fixed order of fingerprints.
Ordered(cohort) ==
    LET refs == ClaimRefs(cohort)
        prints == Listed({FingerprintOf(r) : r \in refs})
        rank == <<>> @@ [r \in refs |-> CHOOSE i \in DOMAIN prints : prints[i] = FingerprintOf(r)]
    IN  Ranked(refs, LAMBDA r, q :
            \/ rank[r] < rank[q]
            \/ rank[r] = rank[q] /\ r.agent < q.agent
            \/ rank[r] = rank[q] /\ r.agent = q.agent /\ r.index < q.index)

\* How close a cluster is to a claim: the same words are in it, or similar ones.
Closeness(cluster, ref) ==
    IF \E m \in cluster.members : FingerprintOf(m) = FingerprintOf(ref)
    THEN One ELSE SimilaritySquared(ContentSet(ref.claim.statement), cluster.centroid)

\* The closest cluster so far takes the claim, the earliest of equals; a claim
\* far from all of them starts its own.
JoinedBy(clusters, ref, score) ==
    LET tokens == ContentSet(ref.claim.statement)
        near == {i \in DOMAIN clusters : AtMost(Square(SimilarityThreshold), score[i])}
        best == {i \in near : \A k \in near : AtMost(score[k], score[i])}
    IN  IF near = {}
        THEN Append(clusters, [members |-> {ref}, centroid |-> tokens])
        ELSE [clusters EXCEPT ![Min(best)] = [members |-> @.members \cup {ref},
                                              centroid |-> @.centroid \cup tokens]]

Joined(clusters, ref) ==
    JoinedBy(clusters, ref, [i \in DOMAIN clusters |-> Closeness(clusters[i], ref)])

Clusters(cohort) == FoldLeft(Joined, <<>>, Ordered(cohort))

------------------------------------------------------------------------------
(* One cluster, merged.  weight is a function of the agents. *)

TotalOf(agents, weight) ==
    LET s == Listed(agents) IN Total([i \in DOMAIN s |-> weight[s[i]]])

\* Mutant of DistinctWeight: an agent counts once for each of its claims.
WeightPerClaim(members, weight) ==
    LET s == Listed(members) IN Total([i \in DOMAIN s |-> weight[s[i].agent]])

\* An agent that phrases the same position twice is counted once.
DistinctWeight(members, weight) == TotalOf({m.agent : m \in members}, weight)

\* A claim of neutral stance sides with the assertion; in a tie the assertion
\* has the majority.
Sided(members, asserting, weight) ==
    IF AtMost(DistinctWeight(members \ asserting, weight), DistinctWeight(asserting, weight))
    THEN [majority |-> asserting, minority |-> members \ asserting]
    ELSE [majority |-> members \ asserting, minority |-> asserting]

Topics(clusters, weight) ==
    Tuple([i \in DOMAIN clusters |->
            Sided(clusters[i].members, {m \in clusters[i].members : StanceOf(m) >= 0}, weight)])

Surest(members) == {m \in members : \A o \in members : m.claim.confidence >= o.claim.confidence}

\* Of the surest wordings the first by localeCompare: some fixed one of the set.
Representative(members) == CHOOSE s \in {m.claim.statement : m \in Surest(members)} : TRUE

\* Each agent's surest claim, by the weight behind it.
MergedConfidence(majority, weight) ==
    LET agents == Listed({m.agent : m \in majority})
        surest(a) == Max({m.claim.confidence : m \in {o \in majority : o.agent = a}})
    IN  Over(Total([i \in DOMAIN agents |-> Times(weight[agents[i]], Frac(surest(agents[i]), 10))]),
             DistinctWeight(majority, weight))

MergedClaim(topic, weight) ==
    [statement |-> Representative(topic.majority),
     support |-> DistinctWeight(topic.majority, weight),
     confidence |-> Clamp01(MergedConfidence(topic.majority, weight)),
     supportedBy |-> {m.agent : m \in topic.majority},
     contradictedBy |-> {m.agent : m \in topic.minority},
     supporting |-> UNION {m.claim.evidence : m \in topic.majority},
     contradicting |-> UNION {m.claim.evidence : m \in topic.minority}]

Contested(topic, weight) ==
    topic.minority # {} /\ AtMost(DisagreementThreshold, DistinctWeight(topic.minority, weight))

Disagreement(topic, weight) ==
    [statement |-> Representative(topic.majority),
     supportWeight |-> DistinctWeight(topic.majority, weight),
     opposeWeight |-> DistinctWeight(topic.minority, weight),
     positions |-> {[agent |-> m.agent, claim |-> m.claim] : m \in topic.majority \cup topic.minority}]

------------------------------------------------------------------------------
(* The whole result *)

\* One agent agreeing with itself corroborates nothing; a cohort that met what
\* was expected of it corroborates fully.
CorroborationFactor(size, expected) ==
    IF size <= 1 THEN Zero
    ELSE LET target == Max({2, expected})
         IN  Least(One, Over(Frac(size - 1, size), Frac(target - 1, target)))

\* How much of what each agent said ended up in the majority of its topic.
AgreedShare(said, agreed) == IF said = {} THEN Zero ELSE Frac(Cardinality(agreed), Cardinality(said))

Agreement(cohort, topics) ==
    LET refs == ClaimRefs(cohort)
        agreed == UNION {topics[i].majority : i \in DOMAIN topics}
        of(S, a) == {r \in S : r.agent = a}
    IN  [a \in Agents(cohort) |-> AgreedShare(of(refs, a), of(agreed, a))]

\* Ranked by conviction; a stable sort, so equals keep the order of the clusters.
Conviction(claim) == Times(claim.support, claim.confidence)

RankedClaims(merged) ==
    LET kept == {i \in DOMAIN merged : AtMost(MinSupport, merged[i].support)}
        ranks == Ranked(kept, LAMBDA i, k :
                    \/ Below(Conviction(merged[k]), Conviction(merged[i]))
                    \/ Conviction(merged[k]) = Conviction(merged[i]) /\ i < k)
    IN  Tuple([r \in DOMAIN ranks |-> merged[ranks[r]]])

Disagreements(topics, weight) ==
    LET split == SelectSeq(topics, LAMBDA t : Contested(t, weight))
    IN  Tuple([i \in DOMAIN split |-> Disagreement(split[i], weight)])

ScoreConsensus(claims, disagreements, agreements) ==
    LET contested == Frac(Len(disagreements), Len(claims) + Len(disagreements))
        support == Mean([i \in DOMAIN claims |-> claims[i].support])
    IN  IF claims = <<>> THEN Zero
        ELSE Clamp01(Total(<<Times(support, Frac(1, 2)),
                             Times(Mean(agreements), Frac(3, 10)),
                             Times(Minus(One, contested), Frac(1, 5))>>))

ScoreConfidence(claims, consensusScore) ==
    LET support == Total([i \in DOMAIN claims |-> claims[i].support])
        backed == Total([i \in DOMAIN claims |-> Times(claims[i].support, claims[i].confidence)])
    IN  IF claims = <<>> THEN Zero
        ELSE Clamp01(Times(Over(backed, support),
                           Plus(Frac(3, 5), Times(Frac(2, 5), consensusScore))))

\* The mean of each metric over the agents that report a number, by their
\* weight; a metric that has none is quoted from the first to be submitted.
MergeMetrics(cohort, weight) ==
    [key \in UNION {DOMAIN cohort[i].metrics : i \in DOMAIN cohort} |->
        LET by == SelectSeq(cohort, LAMBDA input : key \in DOMAIN input.metrics)
            numeric == SelectSeq(by, LAMBDA input : ~input.metrics[key].text)
            w == [i \in DOMAIN numeric |-> weight[numeric[i].agent]]
            value(i) == Times(w[i], <<numeric[i].metrics[key].value, 1>>)
        IN  IF numeric = <<>> THEN by[1].metrics[key]
            ELSE [text |-> FALSE, value |-> Over(Total([i \in DOMAIN numeric |-> value(i)]), Total(w))]]

\* The heaviest agent's recommendation, the first submitted of equals, trusted
\* as far as others give the same one and as the cohort is complete.
MergeRecommendation(cohort, weight, factor) ==
    LET given == {i \in DOMAIN cohort : cohort[i].recommendation # NoAction}
        heaviest == {i \in given : \A k \in given :
                        AtMost(weight[cohort[k].agent], weight[cohort[i].agent])}
        top == cohort[Min(heaviest)]
        agreeing == {cohort[i].agent : i \in {k \in given :
                        cohort[k].recommendation = top.recommendation}}
    IN  IF given = {} THEN [action |-> NoAction, confidence |-> Zero]
        ELSE [action |-> top.recommendation,
              confidence |-> Clamp01(Times(Frac(top.confidence, 10),
                  Times(Plus(Frac(1, 2), Times(Frac(1, 2), TotalOf(agreeing, weight))),
                        Plus(Frac(2, 5), Times(Frac(3, 5), factor)))))]

\* Each risk as the first to give it its worst severity worded it, the severe
\* ones first; a stable sort, so equals keep the order they were first heard in.
MergeRisks(cohort) ==
    LET told == FlattenSeq([i \in DOMAIN cohort |-> cohort[i].risks])
        heard(subject) == {k \in DOMAIN told : told[k].about = subject}
        worst(subject) == Max({told[k].severity : k \in heard(subject)})
        kept(subject) == told[Min({k \in heard(subject) : told[k].severity = worst(subject)})]
        listed == Ranked({told[k].about : k \in DOMAIN told}, LAMBDA x, y :
                    \/ worst(x) > worst(y)
                    \/ worst(x) = worst(y) /\ Min(heard(x)) < Min(heard(y)))
    IN  Tuple([r \in DOMAIN listed |-> kept(listed[r])])

\* Which sentence the summary leads with.
SummaryKind(cohort, claims, disagreements) ==
    CASE claims = <<>> -> "nothing established"
      [] claims # <<>> /\ Len(cohort) = 1 -> "uncorroborated"
      [] OTHER -> IF disagreements = <<>> THEN "agreed" ELSE "contested"

Established(topics, weight) ==
    RankedClaims(Tuple([i \in DOMAIN topics |-> MergedClaim(topics[i], weight)]))

Weighed(cohort, shares) ==
    <<>> @@ [a \in Agents(cohort) |-> shares[CHOOSE i \in DOMAIN cohort : cohort[i].agent = a]]

\* Everything but the scores, which depend on all of it.
Assembled(cohort, topics, weight, factor) ==
    [claims |-> Established(topics, weight),
     disagreements |-> Disagreements(topics, weight),
     agreement |-> <<>> @@ Agreement(cohort, topics),
     weight |-> weight,
     metrics |-> <<>> @@ MergeMetrics(cohort, weight),
     recommendation |-> MergeRecommendation(cohort, weight, factor),
     risks |-> MergeRisks(cohort)]

Scores(cohort, parts, score) ==
    [consensusScore |-> score,
     confidence |-> ScoreConfidence(parts.claims, score),
     summary |-> SummaryKind(cohort, parts.claims, parts.disagreements)]

Completed(cohort, parts, factor) ==
    parts @@ Scores(cohort, parts,
                Times(ScoreConsensus(parts.claims, parts.disagreements,
                                     Tuple([i \in DOMAIN cohort |-> parts.agreement[cohort[i].agent]])),
                      factor))

\* ConsensusEngine.run with the shares of a weighting strategy, for the number
\* of agents the job asked for.
MergeBy(cohort, weight, factor) ==
    Completed(cohort, Assembled(cohort, Topics(Clusters(cohort), weight), weight, factor), factor)

Merge(cohort, shares, asked) ==
    MergeBy(cohort, Weighed(cohort, shares), CorroborationFactor(Len(cohort), Max({1, asked})))
==============================================================================
