---------------------------- MODULE Explanation ------------------------------
(***************************************************************************)
(* explainJob (packages/protocol/src/explain.ts): why a finished result    *)
(* says what it says.  A stored claim is what Consensus merged; the        *)
(* evidence carries the upstream votes it was retrieved with, or none.     *)
(***************************************************************************)
EXTENDS Reputation

ThinEvidence == Frac(35, 100)
LoneAgent == 1

\* Weight-free: every cited source counts the same.
EvidenceQualityOf(claim) ==
    IF claim.supporting = {} THEN Zero
    ELSE LET cited == Listed(claim.supporting)
         IN  MeanOver(cited, LAMBDA e : Frac(e.reliability, 10))

\* Mutant of VerdictFor: how many agents assert a claim is looked at first.
VerdictByPopularity(claim) ==
    CASE Cardinality(claim.supportedBy) > LoneAgent /\ claim.supporting # {} -> "SUPPORTED"
      [] claim.supporting = {} -> "UNSUPPORTED"
      [] OTHER -> "THIN"

\* In order of severity: the first rule that applies decides.
VerdictFor(claim) ==
    CASE claim.supporting = {} -> "UNSUPPORTED"
      [] claim.supporting # {} /\ (claim.contradictedBy # {} \/ claim.contradicting # {})
            -> "DISPUTED"
      [] claim.supporting # {} /\ claim.contradictedBy = {} /\ claim.contradicting = {}
            -> IF \/ Cardinality(claim.supportedBy) <= LoneAgent
                  \/ Below(EvidenceQualityOf(claim), ThinEvidence)
               THEN "THIN" ELSE "SUPPORTED"

\* The kinds of sentence behind a verdict; the strongest source is quoted with
\* its votes if it has any.
ReasonsFor(claim) ==
    LET strongest == {e \in claim.supporting :
                        \A o \in claim.supporting : o.reliability <= e.reliability}
    IN  (IF claim.supportedBy # {} THEN {"asserted"} ELSE {})
        \cup (IF claim.supporting = {} THEN {"no evidence"}
              ELSE {"cites evidence",
                    IF \E e \in strongest : e.curated THEN "strongest by votes"
                                                      ELSE "strongest by reliability"})
        \cup (IF claim.contradictedBy # {} THEN {"contradicted"}
              ELSE IF claim.supportedBy # {} THEN {"not contradicted"} ELSE {})

CountOf(claims, verdict) == Cardinality({i \in DOMAIN claims : VerdictFor(claims[i]) = verdict})

\* The whole job's verdict, from how its claims came out and how many agents ran.
JobVerdict(claims, cohortSize) ==
    LET supported == CountOf(claims, "SUPPORTED")
    IN  CASE claims = <<>> -> "UNSUPPORTED"
          [] claims # <<>> /\ CountOf(claims, "DISPUTED") > supported -> "DISPUTED"
          [] OTHER -> CASE supported = 0 -> "UNSUPPORTED"
                        [] supported > 0 /\ cohortSize <= LoneAgent -> "THIN"
                        [] OTHER -> "SUPPORTED"

Caveats(result, cohortSize, expected, minimum) ==
    (IF cohortSize < expected THEN {"short cohort"} ELSE {})
    \cup (IF result.disagreements # <<>> THEN {"open disagreements"} ELSE {})
    \cup (IF CountOf(result.claims, "UNSUPPORTED") > 0 THEN {"unsupported claims"} ELSE {})
    \cup (IF Below(result.confidence, minimum) THEN {"below the floor"} ELSE {})

\* What was the input worth, and the reasoning; what came true is not known yet.
ReliabilityBreakdown(claims, evaluations) ==
    [evidence |-> IF claims = <<>> THEN Zero ELSE MeanOver(claims, EvidenceQualityOf),
     reasoning |-> IF evaluations = <<>> THEN Zero ELSE Mean(evaluations)]

ExplainJob(result, evaluations, cohortSize, expected, minimum) ==
    [verdict |-> JobVerdict(result.claims, cohortSize),
     verdicts |-> [i \in DOMAIN result.claims |-> VerdictFor(result.claims[i])],
     reasons |-> [i \in DOMAIN result.claims |-> ReasonsFor(result.claims[i])],
     reliability |-> ReliabilityBreakdown(result.claims, evaluations),
     caveats |-> Caveats(result, cohortSize, expected, minimum)]
==============================================================================
