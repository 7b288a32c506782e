--------------------------- MODULE SettlementPlan ----------------------------
(***************************************************************************)
(* The pure halves of paying a job: splitReward and the rows RewardStage   *)
(* writes (pipeline.ts), and planSettlement, which decides what of them    *)
(* may be paid (settlement-plan.ts).                                       *)
(*                                                                         *)
(* Amounts are integers in units of 0.000001, the scale of the column      *)
(* Decimal(18,6): what toFixed(6) rounds to.  A share is in hundredths.    *)
(***************************************************************************)
EXTENDS Integers, FiniteSets, Functions

Roles == {"AGENT", "VALIDATOR", "PROTOCOL", "TREASURY"}

DefaultShares == [AGENT |-> 70, VALIDATOR |-> 15, PROTOCOL |-> 10, TREASURY |-> 5]

\* A share outside [0, 1], or none at all, falls back to the default.
Shares(env) == [role \in Roles |-> IF env[role] \in 0..100 THEN env[role]
                                                           ELSE DefaultShares[role]]

\* Mutant of ShareTotal: the shares are not normalised.
ShareTotalUnscaled(env) == 100

ShareTotal(env) == SumFunctionOnSet(Shares(env), Roles)

\* toFixed(6) of n / d: the nearest unit, the upper one when two are as near.
Rounded(n, d) == IF d = 0 THEN 0 ELSE (2 * n + d) \div (2 * d)

RoleRow(budget, env, role) == Rounded(budget * Shares(env)[role], ShareTotal(env))

\* An agent's part of the agents' pool; without any weight nobody earns it.
AgentRow(budget, env, weights, a) ==
    Rounded(budget * Shares(env)["AGENT"] * weights[a],
            ShareTotal(env) * SumFunction(weights))

\* The rows of a job "j": one for each contributor, one for each other role.
RewardRows(budget, env, weights) ==
    {[id |-> a, job |-> "j", amount |-> AgentRow(budget, env, weights, a),
      status |-> "PENDING", payee |-> TRUE] : a \in DOMAIN weights}
    \cup
    {[id |-> role, job |-> "j", amount |-> RoleRow(budget, env, role),
      status |-> "PENDING", payee |-> TRUE] : role \in Roles \ {"AGENT"}}

Paid(rows) == SumFunctionOnSet([r \in rows |-> r.amount], rows)

\* The rows pay the budget, but for half a unit of rounding each; what nobody
\* earned may be left.
KeepsBudget(rows, budget, earned) ==
    /\ 2 * (Paid(rows) - budget) <= Cardinality(rows)
    /\ earned => 2 * (budget - Paid(rows)) <= Cardinality(rows)

------------------------------------------------------------------------------
\* A row has an id, a job, an amount, a status, and a payee or none.
Dust    == 1
Epsilon == 1

Owed(rows, j) ==
    SumFunctionOnSet([r \in rows |-> IF r.amount > 0 THEN r.amount ELSE 0],
                     {r \in rows : r.job = j})

\* Mutant of Overspent: only single rows are compared with the budget.
OverspentByRow(rows, budget) ==
    {j \in DOMAIN budget : \E r \in rows : r.job = j /\ r.amount > budget[j] + Epsilon}

\* Another: a split that fits exactly is held.
OverspentTight(rows, budget) ==
    {j \in DOMAIN budget : Owed(rows, j) >= budget[j]}

\* Every job is compared as a whole, with what the rows at hand sum to.
Overspent(rows, budget) ==
    {j \in DOMAIN budget : Owed(rows, j) > budget[j] + Epsilon}

\* planSettlement: the rows that become instructions; the others are skipped.
Instructions(rows, budget) ==
    {r \in rows : /\ r.status = "PENDING"
                  /\ r.job \notin Overspent(rows, budget)
                  /\ r.amount >= Dust
                  /\ r.payee}
==============================================================================
