---------------------------- MODULE AutomationMC ----------------------------
(* Small instances of Automation: two jobs on one mint and one on another. *)
EXTENDS Automation

CONSTANTS j1, j2, j3, m1, m2

Sound(m) ==
    [mint |-> m, buy |-> TRUE, confidence |-> 70, consensus |-> 65, agentsReporting |-> 3,
     unsupportedClaims |-> 0, disagreements |-> 1]

MCVerdict == (j1 :> Sound(m1)) @@ (j2 :> Sound(m1)) @@ (j3 :> Sound(m2))

\* The windows of TradePolicySchema in ticks, its percentages, and a value
\* that every mark divides.  One position is all it allows.
MCPolicy ==
    [ minConfidence |-> 65, minConsensus |-> 60, minAgents |-> 3, maxUnsupportedClaims |-> 0,
      maxDisagreements |-> 1, sizeUsd |-> 72, maxConcurrentPositions |-> 1,
      maxDeployedUsd |-> 150, takeProfitPct |-> 50, stopLossPct |-> 25,
      trailingActivationPct |-> 30, trailingStopPct |-> 20, maxHoldMinutes |-> 1,
      maxConsecutiveLosses |-> 1, maxDailyDrawdownUsd |-> 30,
      cooldownAfterLossMinutes |-> 1, mintCooldownMinutes |-> 1 ]

\* The patch names a smaller value and leaves the rest to the defaults: beside
\* one of its own positions there is room for another, in the other mint only;
\* beside one of the first policy its value would be too much.
MCDefaults == [MCPolicy EXCEPT !["maxConcurrentPositions"] = 3, !["maxDeployedUsd"] = 100]

MCPatches == {[f \in {"sizeUsd"} |-> 40]}

\* The mint of one job moves, so that its position may gain, lose and trail;
\* those of the mint that two jobs share end with their holding time.
MCMarks == (m1 :> {0, 8}) @@ (m2 :> {0, 6, 8})

Twins == Permutations(Sweepers) \cup Permutations({j1, j2})
=============================================================================
