---------------------------- MODULE BudgetGuardMC ----------------------------
(***************************************************************************)
(* Two agents of job "j" in a worker whose pool is too small for both, and *)
(* an operator whose tick "t" runs job "k" with one agent.  Agents spend   *)
(* without an operator (execution.ts), which is policy "global".           *)
(***************************************************************************)
EXTENDS BudgetGuard

MCClients == {"x", "y", "d", "t"}

Ask(op, job, agent) ==
    [operator |-> op, job |-> job, agent |-> agent, category |-> "llm", estimate |-> 2]

MCRequest == [x |-> Ask("global", "j", "a"), y |-> Ask("global", "j", "b"),
              d |-> Ask("global", "k", "a"), t |-> Ask("node", "k", Nobody)]

MCKind == [x |-> "agent", y |-> "agent", d |-> "agent", t |-> "tick"]
MCUnder == [x |-> Nobody, y |-> Nobody, d |-> "t", t |-> Nobody]
MCCosts == [x |-> {1}, y |-> {2}, d |-> {2}, t |-> {0}]
MCProcessOf == [x |-> "worker", y |-> "worker", d |-> "node", t |-> "node"]
MCPoolMax == [worker |-> 2, node |-> 3]

\* Two of the three agents fit the day, less the reserve; the third a later one.
MCPolicy ==
    [global |-> [daily |-> 5, weekly |-> 6, perJob |-> 3, perAgent |-> 2, reserve |-> 1],
     node   |-> [daily |-> 2, weekly |-> 4, perJob |-> 2, perAgent |-> 2, reserve |-> 0]]
==============================================================================
