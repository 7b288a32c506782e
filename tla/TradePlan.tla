------------------------------ MODULE TradePlan ------------------------------
(***************************************************************************)
(* The rules of packages/execution/src/plan.ts, as operators: whether a    *)
(* verdict opens a position, whether a mark closes one, whether the        *)
(* breaker has tripped.  Instants are ticks, money whole units.  A policy  *)
(* is a record of the fields of TradePolicySchema, a verdict what          *)
(* verdictFor builds, an open position [job, mint, size] and a closed      *)
(* trade [job, mint, pnl, closedAt].                                       *)
(***************************************************************************)
EXTENDS Integers, FiniteSets, FiniteSetsExt, Functions

CONSTANTS
    DayWindow        \* DAY_MS, in ticks

Never == -1

PolicyFields ==
    { "minConfidence", "minConsensus", "minAgents", "maxUnsupportedClaims",
      "maxDisagreements", "sizeUsd", "maxConcurrentPositions", "maxDeployedUsd",
      "takeProfitPct", "stopLossPct", "trailingActivationPct", "trailingStopPct",
      "maxHoldMinutes", "maxConsecutiveLosses", "maxDailyDrawdownUsd",
      "cooldownAfterLossMinutes", "mintCooldownMinutes" }

Policies == [PolicyFields -> Nat]

-----------------------------------------------------------------------------
(* The circuit breaker, derived from the trades and never stored *)

After(trades, resetAt) == {t \in trades : resetAt = Never \/ t.closedAt > resetAt}

Losses(trades) == {t \in trades : t.pnl < 0}

\* The losses counted before the first trade that is none, newest first.  The
\* trades one sweep closes share their closedAt and the sort leaves them as the
\* database returned them, so a loss beside a win may be counted or not.
Streaks(trades) ==
    LET won   == {t.closedAt : t \in trades \ Losses(trades)}
        newer == {t \in Losses(trades) : \A w \in won : t.closedAt > w}
        tied  == {t \in Losses(trades) : won # {} /\ t.closedAt = Max(won)}
    IN  Cardinality(newer) .. (Cardinality(newer) + Cardinality(tied))

DailyPnl(trades, now) ==
    SumFunctionOnSet([t \in trades |-> t.pnl], {t \in trades : t.closedAt >= now - DayWindow})

\* The answers deriveBreaker may give.
DeriveBreaker(trades, policy, resetAt, now) ==
    LET considered == After(trades, resetAt)
    IN  { \/ streak >= policy["maxConsecutiveLosses"]
          \/ DailyPnl(considered, now) <= -policy["maxDailyDrawdownUsd"]
            : streak \in Streaks(considered) }

\* remainingMinutes(...) = 0
Cool(instants, window, now) ==
    (instants # {} /\ window > 0) => now - Max(instants) >= window

-----------------------------------------------------------------------------
(* Entry *)

IntelligenceGates(verdict, policy) ==
    /\ verdict.buy
    /\ verdict.confidence >= policy["minConfidence"]
    /\ verdict.consensus >= policy["minConsensus"]
    /\ verdict.agentsReporting >= policy["minAgents"]
    /\ verdict.unsupportedClaims <= policy["maxUnsupportedClaims"]
    /\ verdict.disagreements <= policy["maxDisagreements"]

Deployed(open) == SumFunctionOnSet([p \in open |-> p.size], open)

\* The gates on the book: no second position in a mint, and both ceilings.
BookGates(mint, policy, open) ==
    /\ \A p \in open : p.mint # mint
    /\ Cardinality(open) < policy["maxConcurrentPositions"]
    /\ Deployed(open) + policy["sizeUsd"] <= policy["maxDeployedUsd"]

Cooldowns(mint, policy, trades, resetAt, now) ==
    /\ Cool({t.closedAt : t \in Losses(After(trades, resetAt))},
            policy["cooldownAfterLossMinutes"], now)
    /\ Cool({t.closedAt : t \in {t \in trades : t.mint = mint}},
            policy["mintCooldownMinutes"], now)

\* planEntry answers open: every gate passes, the breaker in one of its answers.
PlanEntry(verdict, policy, active, open, trades, resetAt, blocked, now) ==
    /\ active
    /\ FALSE \in DeriveBreaker(trades, policy, resetAt, now)
    /\ Cooldowns(verdict.mint, policy, trades, resetAt, now)
    /\ BookGates(verdict.mint, policy, open)
    /\ verdict.mint \notin blocked
    /\ IntelligenceGates(verdict, policy)

-----------------------------------------------------------------------------
(* Exit *)

Highest(a, b) == IF a >= b THEN a ELSE b

\* The comparisons of planExit, multiplied out: a percentage of a price.
StopHit(entry, price, policy) ==
    (entry - price) * 100 >= policy["stopLossPct"] * entry

TrailingHit(entry, peak, price, policy) ==
    /\ (peak - entry) * 100 >= policy["trailingActivationPct"] * entry
    /\ (peak - price) * 100 >= policy["trailingStopPct"] * peak

TargetHit(entry, price, policy) ==
    (price - entry) * 100 >= policy["takeProfitPct"] * entry

\* The reason to close at a mark, in severity order, or "hold".
PlanExit(entry, peak, openedAt, price, policy, now) ==
    CASE StopHit(entry, price, policy) -> "STOP_LOSS"
      [] ~StopHit(entry, price, policy)
            /\ TrailingHit(entry, Highest(peak, price), price, policy) -> "TRAILING_STOP"
      [] ~StopHit(entry, price, policy)
            /\ ~TrailingHit(entry, Highest(peak, price), price, policy)
            /\ TargetHit(entry, price, policy) -> "TAKE_PROFIT"
      [] OTHER -> IF now - openedAt >= policy["maxHoldMinutes"] THEN "MAX_HOLD" ELSE "hold"

\* close(): the profit in the scale of the column.
Pnl(size, entry, price) == (size * (price - entry)) \div entry
=============================================================================
