------------------------------ MODULE Verdicts ------------------------------
(***************************************************************************)
(* What the resolution of predictions promises (scripts/resolve.ts: "a     *)
(* prediction that settles ... is written into an agent's permanent track  *)
(* record"): a prediction settles at most once, not before its deadline,   *)
(* and its outcome and its resolution row are written together.            *)
(***************************************************************************)
EXTENDS Integers

CONSTANTS Predictions, Deadline

VARIABLES
    outcome,      \* Prediction.outcome
    resolution,   \* its PredictionResolution, Unsettled for none
    clock

verdictVars == <<outcome, resolution, clock>>

Unsettled == [outcome |-> "PENDING"]

VerdictInit ==
    /\ outcome = [p \in Predictions |-> "PENDING"]
    /\ resolution = [p \in Predictions |-> Unsettled]
    /\ clock \in Nat

Settle(p) ==
    /\ outcome[p] = "PENDING"
    /\ Deadline[p] <= clock
    /\ resolution'[p].outcome \in {"TRUE", "FALSE", "UNRESOLVABLE"}
    /\ resolution' = [resolution EXCEPT ![p] = resolution'[p]]
    /\ outcome' = [outcome EXCEPT ![p] = resolution'[p].outcome]
    /\ UNCHANGED clock

Passes == clock' > clock /\ UNCHANGED <<outcome, resolution>>

VerdictNext == Passes \/ \E p \in Predictions : Settle(p)

VerdictSpec == VerdictInit /\ [][VerdictNext]_verdictVars
=============================================================================
