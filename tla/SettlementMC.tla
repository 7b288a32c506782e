---------------------------- MODULE SettlementMC -----------------------------
(***************************************************************************)
(* Instances of Settlement: job "a" with two rewards that its budget holds *)
(* one by one and not together, job "b" with rewards that fit its budget.  *)
(***************************************************************************)
EXTENDS Settlement

MCRewards == {"a1", "a2", "b1", "b2"}
MCJobs == {"a", "b"}
MCJobOf == [a1 |-> "a", a2 |-> "a", b1 |-> "b", b2 |-> "b"]
MCAmount == [a1 |-> 2, a2 |-> 2, b1 |-> 2, b2 |-> 3]
MCBudget == [a |-> 2, b |-> 5]
MCBatches == {{"a1", "a2"}, {"b1", "b2"}}
==============================================================================
