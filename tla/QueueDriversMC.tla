---------------------------- MODULE QueueDriversMC ---------------------------
(***************************************************************************)
(* A job and its evaluation, which compete for the one place of one queue   *)
(* (the repository has a queue per stage and four places each).  Callers    *)
(* send an unsampled trace, a header that must not be joined, or none.      *)
(* Spans are sent in the behaviours without a crash, and only propagate in  *)
(* those with one.                                                          *)
(***************************************************************************)
EXTENDS QueueDrivers

MCQueueOf == [j1 |-> "work", e1 |-> "work"]
MCAfter == [e1 |-> "j1"]
MCHeaders == { NoHeader, [version |-> 0, trace |-> << "caller" >>, span |-> << "call" >>, flags |-> 2],
               [version |-> 0, trace |-> << "0" >>, span |-> << "call" >>, flags |-> 1] }
MCEnvironments == { [requested |-> "", endpoint |-> TRUE], [requested |-> "otlp", endpoint |-> FALSE] }

MCInit == DriverInit /\ (exporter.name = "otlp") = (crashes = MaxCrashes)
MCSpec == MCInit /\ [][DriverNext]_queueVars /\ DriverFairness
==============================================================================
