-------------------------- MODULE SettlementProofs ---------------------------
(***************************************************************************)
(* Theorems of Settlement, for any number of rewards, jobs and sweeps, any *)
(* page size, every driver and any bound on the faults.                    *)
(***************************************************************************)
EXTENDS Settlement, Sums

\* What a sweep knows of the reward it owns, from the claim to the release.
Ownership ==
    \A s \in Sweeps :
        /\ at[s] \in Owning =>
             /\ current[s] \in Rewards
             /\ reward[current[s]] \in {"APPROVED", "SETTLED"}
        /\ at[s] \in {"create", "pay", "record"} => reward[current[s]] = "APPROVED"
        /\ at[s] = "pay" => sent[current[s]] = 0 /\ txn[current[s]] = "PENDING"
        /\ at[s] = "record" =>
             /\ sent[current[s]] = 1
             /\ receipt[s] \in {"CONFIRMED", "BROADCAST"}
             /\ receipt[s] = "CONFIRMED" => current[s] \in confirmed

\* The inductive invariant: sweeps own disjoint rewards, a payment is sent only
\* by the sweep that inserted the row, and rows are never deleted.
PaidInv ==
    /\ SettlementTypeOK
    /\ Ownership
    /\ OneOwner
    /\ PaidAtMostOnce
    /\ PaymentsRecorded
    /\ SettledIsConfirmed

LEMMA SettlementInitial == SettlementInit => PaidInv
BY SettlementAssumption
DEF SettlementInit, PaidInv, SettlementTypeOK, Ownership, OneOwner, Owning, PaidAtMostOnce,
    PaymentsRecorded, SettledIsConfirmed, RewardStates, TxnStates, SweepPlaces, Answers, None

\* The createdAt order is a number: the rewards are finitely many.
LEMMA BornIsNat ==
    ASSUME NEW S \in SUBSET Rewards
    PROVE  Cardinality(S) + 1 \in Nat
BY FS_Subset, FS_CardinalityType, SettlementAssumption

------------------------------------------------------------------------------
\* Every variable keeps its type.
LEMMA SettlementTypeStep ==
    ASSUME SettlementTypeOK, Ownership, [SettlementNext]_vars
    PROVE  SettlementTypeOK'
<1> USE SettlementAssumption DEF SettlementTypeOK, Ownership, Owning, RewardStates, TxnStates, SweepPlaces, Answers, None, rows, money, sweep
<1>1. ASSUME NEW b \in Batches, Mint(b) PROVE SettlementTypeOK'
  BY <1>1, BornIsNat DEF Mint
<1>2. ASSUME NEW s \in Sweeps, NEW jobs, NEW d \in Drivers, Plan(s, jobs, d) PROVE SettlementTypeOK'
  BY <1>2 DEF Plan, Pages, Goto
<1>3. ASSUME NEW s \in Sweeps, NEW r \in Rewards, Claim(s, r) PROVE SettlementTypeOK'
  BY <1>3 DEF Claim, Approve, Goto
<1>4. ASSUME NEW s \in Sweeps, CreateTransaction(s) PROVE SettlementTypeOK'
  BY <1>4 DEF CreateTransaction, Goto
<1>5. ASSUME NEW s \in Sweeps, Pay(s) PROVE SettlementTypeOK'
  BY <1>5 DEF Pay, Answers, Goto
<1>6. ASSUME NEW s \in Sweeps, Refuse(s) PROVE SettlementTypeOK'
  BY <1>6 DEF Refuse, Goto
<1>7. ASSUME NEW s \in Sweeps, Record(s) PROVE SettlementTypeOK'
  BY <1>7 DEF Record, Outcome, Goto
<1>8. ASSUME NEW s \in Sweeps, MarkFailed(s) PROVE SettlementTypeOK'
  BY <1>8 DEF MarkFailed, FailRow, Goto
<1>9. ASSUME NEW s \in Sweeps, Release(s) PROVE SettlementTypeOK'
  BY <1>9 DEF Release, GiveBack, Goto
<1>10. ASSUME NEW s \in Sweeps, Finish(s) PROVE SettlementTypeOK'
  BY <1>10 DEF Finish, End, Goto
<1>11. ASSUME NEW s \in Sweeps, DriverFails(s) PROVE SettlementTypeOK'
  BY SMTT(30), <1>11 DEF DriverFails, CountError, Goto
<1>12. ASSUME NEW s \in Sweeps, CreateFails(s) PROVE SettlementTypeOK'
  BY <1>12 DEF CreateFails, CountError, Goto
<1>13. ASSUME NEW s \in Sweeps, RecordFails(s) PROVE SettlementTypeOK'
  BY <1>13 DEF RecordFails, CountError, Outcome, Goto
<1>14. ASSUME NEW s \in Sweeps, SweepFails(s) PROVE SettlementTypeOK'
  BY SMTT(30), <1>14 DEF SweepFails, CountError, Approve, FailRow, GiveBack, Chosen, End, Goto
<1>15. ASSUME NEW s \in Sweeps, Crash(s) PROVE SettlementTypeOK'
  BY <1>15 DEF Crash, End, Goto
<1>16. CASE UNCHANGED vars
  BY <1>16 DEF vars
<1> QED BY <1>1, <1>2, <1>3, <1>4, <1>5, <1>6, <1>7, <1>8, <1>9, <1>10, <1>11, <1>12, <1>13, <1>14, <1>15, <1>16 DEF SettlementNext, SweepStep, SweepFault

------------------------------------------------------------------------------
\* A sweep keeps what it knows of its own reward.
LEMMA OwnershipStep ==
    ASSUME SettlementTypeOK, Ownership, OneOwner, PaidAtMostOnce, PaymentsRecorded, SettledIsConfirmed, [SettlementNext]_vars
    PROVE  Ownership'
<1> USE SettlementAssumption DEF SettlementTypeOK, Ownership, OneOwner, PaidAtMostOnce, PaymentsRecorded, Owning, RewardStates, TxnStates, SweepPlaces, None, rows, money, sweep
<1>1. ASSUME NEW b \in Batches, Mint(b) PROVE Ownership'
  BY <1>1 DEF Mint
<1>2. ASSUME NEW s \in Sweeps, NEW jobs, NEW d \in Drivers, Plan(s, jobs, d) PROVE Ownership'
  BY <1>2 DEF Plan, Pages, Goto
<1>3. ASSUME NEW s \in Sweeps, NEW r \in Rewards, Claim(s, r) PROVE Ownership'
  BY <1>3 DEF Claim, Approve, Goto
<1>4. ASSUME NEW s \in Sweeps, CreateTransaction(s) PROVE Ownership'
  BY <1>4 DEF CreateTransaction, Goto
<1>5. ASSUME NEW s \in Sweeps, Pay(s) PROVE Ownership'
  BY <1>5 DEF Pay, Answers, Goto
<1>6. ASSUME NEW s \in Sweeps, Refuse(s) PROVE Ownership'
  BY <1>6 DEF Refuse, Goto
<1>7. ASSUME NEW s \in Sweeps, Record(s) PROVE Ownership'
  BY <1>7 DEF Record, Outcome, Goto
<1>8. ASSUME NEW s \in Sweeps, MarkFailed(s) PROVE Ownership'
  BY <1>8 DEF MarkFailed, FailRow, Goto
<1>9. ASSUME NEW s \in Sweeps, Release(s) PROVE Ownership'
  BY <1>9 DEF Release, GiveBack, Goto
<1>10. ASSUME NEW s \in Sweeps, Finish(s) PROVE Ownership'
  BY <1>10 DEF Finish, End, Goto
<1>11. ASSUME NEW s \in Sweeps, DriverFails(s) PROVE Ownership'
  BY <1>11 DEF DriverFails, CountError, Goto
<1>12. ASSUME NEW s \in Sweeps, CreateFails(s) PROVE Ownership'
  BY <1>12 DEF CreateFails, CountError, Goto
<1>13. ASSUME NEW s \in Sweeps, RecordFails(s) PROVE Ownership'
  BY <1>13 DEF RecordFails, CountError, Outcome, Goto
<1>14. ASSUME NEW s \in Sweeps, SweepFails(s) PROVE Ownership'
  BY <1>14 DEF SweepFails, CountError, Approve, FailRow, GiveBack, Chosen, End, Goto
<1>15. ASSUME NEW s \in Sweeps, Crash(s) PROVE Ownership'
  BY <1>15 DEF Crash, End, Goto
<1>16. CASE UNCHANGED vars
  BY <1>16 DEF vars
<1> QED BY <1>1, <1>2, <1>3, <1>4, <1>5, <1>6, <1>7, <1>8, <1>9, <1>10, <1>11, <1>12, <1>13, <1>14, <1>15, <1>16 DEF SettlementNext, SweepStep, SweepFault

------------------------------------------------------------------------------
\* Only a PENDING reward is claimed, and an owned one is not PENDING.
LEMMA OneOwnerStep ==
    ASSUME SettlementTypeOK, Ownership, OneOwner, [SettlementNext]_vars
    PROVE  OneOwner'
<1> USE SettlementAssumption DEF SettlementTypeOK, Ownership, OneOwner, Owning, None, rows, money, sweep
<1>1. ASSUME NEW b \in Batches, Mint(b) PROVE OneOwner'
  BY <1>1 DEF Mint
<1>2. ASSUME NEW s \in Sweeps, NEW jobs, NEW d \in Drivers, Plan(s, jobs, d) PROVE OneOwner'
  BY <1>2 DEF Plan, Pages, Goto
<1>3. ASSUME NEW s \in Sweeps, NEW r \in Rewards, Claim(s, r) PROVE OneOwner'
  BY <1>3 DEF Claim, Approve, Goto
<1>4. ASSUME NEW s \in Sweeps, CreateTransaction(s) PROVE OneOwner'
  BY <1>4 DEF CreateTransaction, Goto
<1>5. ASSUME NEW s \in Sweeps, Pay(s) PROVE OneOwner'
  BY <1>5 DEF Pay, Answers, Goto
<1>6. ASSUME NEW s \in Sweeps, Refuse(s) PROVE OneOwner'
  BY <1>6 DEF Refuse, Goto
<1>7. ASSUME NEW s \in Sweeps, Record(s) PROVE OneOwner'
  BY <1>7 DEF Record, Outcome, Goto
<1>8. ASSUME NEW s \in Sweeps, MarkFailed(s) PROVE OneOwner'
  BY <1>8 DEF MarkFailed, FailRow, Goto
<1>9. ASSUME NEW s \in Sweeps, Release(s) PROVE OneOwner'
  BY <1>9 DEF Release, GiveBack, Goto
<1>10. ASSUME NEW s \in Sweeps, Finish(s) PROVE OneOwner'
  BY <1>10 DEF Finish, End, Goto
<1>11. ASSUME NEW s \in Sweeps, DriverFails(s) PROVE OneOwner'
  BY <1>11 DEF DriverFails, CountError, Goto
<1>12. ASSUME NEW s \in Sweeps, CreateFails(s) PROVE OneOwner'
  BY <1>12 DEF CreateFails, CountError, Goto
<1>13. ASSUME NEW s \in Sweeps, RecordFails(s) PROVE OneOwner'
  BY <1>13 DEF RecordFails, CountError, Outcome, Goto
<1>14. ASSUME NEW s \in Sweeps, SweepFails(s) PROVE OneOwner'
  BY <1>14 DEF SweepFails, CountError, Approve, FailRow, GiveBack, Chosen, End, Goto
<1>15. ASSUME NEW s \in Sweeps, Crash(s) PROVE OneOwner'
  BY <1>15 DEF Crash, End, Goto
<1>16. CASE UNCHANGED vars
  BY <1>16 DEF vars
<1> QED BY <1>1, <1>2, <1>3, <1>4, <1>5, <1>6, <1>7, <1>8, <1>9, <1>10, <1>11, <1>12, <1>13, <1>14, <1>15, <1>16 DEF SettlementNext, SweepStep, SweepFault

------------------------------------------------------------------------------
\* A payment follows the insertion of its row, which happens once.
LEMMA PaymentStep ==
    ASSUME SettlementTypeOK, Ownership, OneOwner, PaidAtMostOnce, PaymentsRecorded, SettledIsConfirmed, [SettlementNext]_vars
    PROVE  (PaidAtMostOnce /\ PaymentsRecorded /\ SettledIsConfirmed)'
<1> USE SettlementAssumption DEF SettlementTypeOK, Ownership, Owning, PaidAtMostOnce, PaymentsRecorded, SettledIsConfirmed, None, rows, money, sweep
<1>1. ASSUME NEW b \in Batches, Mint(b) PROVE (PaidAtMostOnce /\ PaymentsRecorded /\ SettledIsConfirmed)'
  BY <1>1 DEF Mint
<1>2. ASSUME NEW s \in Sweeps, NEW jobs, NEW d \in Drivers, Plan(s, jobs, d) PROVE (PaidAtMostOnce /\ PaymentsRecorded /\ SettledIsConfirmed)'
  BY <1>2 DEF Plan, Pages, Goto
<1>3. ASSUME NEW s \in Sweeps, NEW r \in Rewards, Claim(s, r) PROVE (PaidAtMostOnce /\ PaymentsRecorded /\ SettledIsConfirmed)'
  BY <1>3 DEF Claim, Approve, Goto
<1>4. ASSUME NEW s \in Sweeps, CreateTransaction(s) PROVE (PaidAtMostOnce /\ PaymentsRecorded /\ SettledIsConfirmed)'
  BY <1>4 DEF CreateTransaction, Goto
<1>5. ASSUME NEW s \in Sweeps, Pay(s) PROVE (PaidAtMostOnce /\ PaymentsRecorded /\ SettledIsConfirmed)'
  BY <1>5 DEF Pay, Answers, Goto
<1>6. ASSUME NEW s \in Sweeps, Refuse(s) PROVE (PaidAtMostOnce /\ PaymentsRecorded /\ SettledIsConfirmed)'
  BY <1>6 DEF Refuse, Goto
<1>7. ASSUME NEW s \in Sweeps, Record(s) PROVE (PaidAtMostOnce /\ PaymentsRecorded /\ SettledIsConfirmed)'
  BY <1>7 DEF Record, Outcome, Goto
<1>8. ASSUME NEW s \in Sweeps, MarkFailed(s) PROVE (PaidAtMostOnce /\ PaymentsRecorded /\ SettledIsConfirmed)'
  BY <1>8 DEF MarkFailed, FailRow, Goto
<1>9. ASSUME NEW s \in Sweeps, Release(s) PROVE (PaidAtMostOnce /\ PaymentsRecorded /\ SettledIsConfirmed)'
  BY <1>9 DEF Release, GiveBack, Goto
<1>10. ASSUME NEW s \in Sweeps, Finish(s) PROVE (PaidAtMostOnce /\ PaymentsRecorded /\ SettledIsConfirmed)'
  BY <1>10 DEF Finish, End, Goto
<1>11. ASSUME NEW s \in Sweeps, DriverFails(s) PROVE (PaidAtMostOnce /\ PaymentsRecorded /\ SettledIsConfirmed)'
  BY <1>11 DEF DriverFails, CountError, Goto
<1>12. ASSUME NEW s \in Sweeps, CreateFails(s) PROVE (PaidAtMostOnce /\ PaymentsRecorded /\ SettledIsConfirmed)'
  BY <1>12 DEF CreateFails, CountError, Goto
<1>13. ASSUME NEW s \in Sweeps, RecordFails(s) PROVE (PaidAtMostOnce /\ PaymentsRecorded /\ SettledIsConfirmed)'
  BY <1>13 DEF RecordFails, CountError, Outcome, Goto
<1>14. ASSUME NEW s \in Sweeps, SweepFails(s) PROVE (PaidAtMostOnce /\ PaymentsRecorded /\ SettledIsConfirmed)'
  BY <1>14 DEF SweepFails, CountError, Approve, FailRow, GiveBack, Chosen, End, Goto
<1>15. ASSUME NEW s \in Sweeps, Crash(s) PROVE (PaidAtMostOnce /\ PaymentsRecorded /\ SettledIsConfirmed)'
  BY <1>15 DEF Crash, End, Goto
<1>16. CASE UNCHANGED vars
  BY <1>16 DEF vars
<1> QED BY <1>1, <1>2, <1>3, <1>4, <1>5, <1>6, <1>7, <1>8, <1>9, <1>10, <1>11, <1>12, <1>13, <1>14, <1>15, <1>16 DEF SettlementNext, SweepStep, SweepFault

------------------------------------------------------------------------------
\* The invariant holds of every behaviour.
THEOREM SettlementInvariant == SettlementSpec => []PaidInv
<1>1. PaidInv /\ [SettlementNext]_vars => PaidInv'
  BY SettlementTypeStep, OwnershipStep, OneOwnerStep, PaymentStep DEF PaidInv
<1> QED BY SettlementInitial, <1>1, PTL DEF SettlementSpec

\* No reward is ever paid twice: neither by sweeps that race, nor by a retry after
\* a lost answer, nor after a crash (settleOne's claim and unique row).
THEOREM NeverPaidTwice == SettlementSpec => []PaidAtMostOnce
BY SettlementInvariant, PTL DEF PaidInv

\* Whatever was sent has a transaction row, at every instant of settleOne.
THEOREM NothingUnrecorded == SettlementSpec => []PaymentsRecorded
BY SettlementInvariant, PTL DEF PaidInv

\* No two sweeps are past the claim of one reward.
THEOREM SweepsDisjoint == SettlementSpec => []OneOwner
BY SettlementInvariant, PTL DEF PaidInv

\* A reward that reads SETTLED was paid once and the payment landed.
THEOREM SettledWasPaid == SettlementSpec => []SettledIsConfirmed
BY SettlementInvariant, PTL DEF PaidInv

------------------------------------------------------------------------------
\* Every step of settlement is a step of the promise or none of its business.
LEMMA StepsKeepPromise ==
    ASSUME PaidInv, [SettlementNext]_vars
    PROVE  [Promise!PromiseNext]_(Promise!promiseVars)
<1> DEFINE owed == {r \in Rewards : reward[r] # None}
           settled == {r \in Rewards : reward[r] = "SETTLED"}
<1>a. /\ Promise!PromiseNext <=>
            \/ \E R \in SUBSET Rewards : Promise!Owe(R)
            \/ \E r \in Rewards : Promise!PayOnce(r) \/ Promise!Settle(r)
      /\ owed' = owed /\ settled' = settled /\ UNCHANGED money
            => UNCHANGED Promise!promiseVars
  BY DEF Promise!PromiseNext, Promise!promiseVars, money
<1> USE SettlementAssumption
    DEF PaidInv, SettlementTypeOK, Ownership, Owning, PaidAtMostOnce, rows, money, sweep, None
<1>1. ASSUME NEW b \in Batches, Mint(b) PROVE Promise!Owe(b)
  BY <1>1 DEF Mint, Promise!Owe
<1>2. ASSUME NEW s \in Sweeps, NEW jobs, NEW d \in Drivers, Plan(s, jobs, d) PROVE UNCHANGED Promise!promiseVars
  BY <1>2 DEF Plan, Promise!promiseVars
<1>3. ASSUME NEW s \in Sweeps, NEW r \in Rewards, Claim(s, r)
      PROVE UNCHANGED Promise!promiseVars
  <2>1. owed' = owed /\ settled' = settled
    BY <1>3 DEF Claim, Approve
  <2> QED BY <1>3, <1>a, <2>1 DEF Claim
<1>4. ASSUME NEW s \in Sweeps, NEW r \in Rewards, r = current[s], Pay(s)
      PROVE Promise!PayOnce(r)
  <2>1. owed' = owed /\ settled' = settled
    BY <1>4 DEF Pay
  <2>2. r \in owed /\ sent[r] = 0
    BY <1>4 DEF Pay
  <2>3. /\ sent' = [sent EXCEPT ![r] = 1]
        /\ confirmed' \in {confirmed, confirmed \cup {r}}
    <3>1. sent' = [sent EXCEPT ![r] = @ + 1]
      BY <1>4 DEF Pay
    <3>2. confirmed' \in {confirmed, confirmed \cup {r}}
      BY <1>4 DEF Pay
    <3> QED BY <2>2, <3>1, <3>2
  <2> QED BY <2>1, <2>2, <2>3 DEF Promise!PayOnce
<1>5. ASSUME NEW s \in Sweeps, NEW r \in Rewards, r = current[s], DriverFails(s)
      PROVE Promise!PayOnce(r) \/ UNCHANGED Promise!promiseVars
  BY <1>5 DEF DriverFails, Promise!PayOnce, Promise!promiseVars
<1>6. ASSUME NEW s \in Sweeps, NEW r \in Rewards, r = current[s], Record(s) \/ RecordFails(s)
      PROVE Promise!Settle(r) \/ UNCHANGED Promise!promiseVars
  <2>1. CASE receipt[s] = "CONFIRMED" /\ Outcome(s)
    BY <1>6, <2>1 DEF Record, RecordFails, Outcome, Promise!Settle
  <2>2. CASE receipt[s] # "CONFIRMED" \/ UNCHANGED reward
    <3>1. owed' = owed /\ settled' = settled /\ UNCHANGED money
      BY <1>6, <2>2 DEF Record, RecordFails, Outcome
    <3> QED BY <1>a, <3>1
  <2> QED BY <1>6, <2>1, <2>2 DEF Record, RecordFails
<1>7. ASSUME NEW s \in Sweeps, CreateTransaction(s) PROVE UNCHANGED Promise!promiseVars
  <2>1. owed' = owed /\ settled' = settled /\ UNCHANGED money
    BY <1>7 DEF CreateTransaction, Goto
  <2> QED BY <1>a, <2>1
<1>8. ASSUME NEW s \in Sweeps, Refuse(s) PROVE UNCHANGED Promise!promiseVars
  <2>1. owed' = owed /\ settled' = settled /\ UNCHANGED money
    BY <1>8 DEF Refuse, Goto
  <2> QED BY <1>a, <2>1
<1>9. ASSUME NEW s \in Sweeps, MarkFailed(s) PROVE UNCHANGED Promise!promiseVars
  <2>1. owed' = owed /\ settled' = settled /\ UNCHANGED money
    BY <1>9 DEF MarkFailed, FailRow, Goto
  <2> QED BY <1>a, <2>1
<1>10. ASSUME NEW s \in Sweeps, Release(s) PROVE UNCHANGED Promise!promiseVars
  <2>1. owed' = owed /\ settled' = settled /\ UNCHANGED money
    BY <1>10 DEF Release, GiveBack, Goto
  <2> QED BY <1>a, <2>1
<1>11. ASSUME NEW s \in Sweeps, Finish(s) PROVE UNCHANGED Promise!promiseVars
  <2>1. owed' = owed /\ settled' = settled /\ UNCHANGED money
    BY <1>11 DEF Finish, End, Goto
  <2> QED BY <1>a, <2>1
<1>12. ASSUME NEW s \in Sweeps, CreateFails(s) PROVE UNCHANGED Promise!promiseVars
  <2>1. owed' = owed /\ settled' = settled /\ UNCHANGED money
    BY <1>12 DEF CreateFails, CountError, Goto
  <2> QED BY <1>a, <2>1
<1>13. ASSUME NEW s \in Sweeps, SweepFails(s) PROVE UNCHANGED Promise!promiseVars
  <2>1. owed' = owed /\ settled' = settled /\ UNCHANGED money
    BY <1>13 DEF SweepFails, CountError, Approve, FailRow, GiveBack, Chosen, End, Goto
  <2> QED BY <1>a, <2>1
<1>14. ASSUME NEW s \in Sweeps, Crash(s) PROVE UNCHANGED Promise!promiseVars
  <2>1. owed' = owed /\ settled' = settled /\ UNCHANGED money
    BY <1>14 DEF Crash, End, Goto
  <2> QED BY <1>a, <2>1
<1>15. CASE UNCHANGED vars
  BY <1>15 DEF vars, Promise!promiseVars
<1>b. \A s \in Sweeps : at[s] \in Owning => current[s] \in Rewards
  OBVIOUS
<1>c. \A s \in Sweeps :
        Pay(s) \/ DriverFails(s) \/ Record(s) \/ RecordFails(s) => at[s] \in Owning
  BY DEF Pay, DriverFails, Record, RecordFails
<1> HIDE DEF PaidInv, SettlementTypeOK, Ownership, Owning, PaidAtMostOnce, rows, money, sweep, None
<1>g. ASSUME NEW s \in Sweeps, Pay(s) \/ DriverFails(s) \/ Record(s) \/ RecordFails(s)
      PROVE  Promise!PromiseNext \/ UNCHANGED Promise!promiseVars
  <2>1. PICK r \in Rewards : r = current[s]
    BY <1>g, <1>b, <1>c
  <2> QED BY <1>g, <2>1, <1>a, <1>4, <1>5, <1>6
<1>d. ASSUME NEW s \in Sweeps, SweepStep(s) \/ SweepFault(s)
      PROVE  Promise!PromiseNext \/ UNCHANGED Promise!promiseVars
  BY <1>d, <1>g, <1>3, <1>7, <1>8, <1>9, <1>10, <1>11, <1>12, <1>13, <1>14
     DEF SweepStep, SweepFault
<1>e. ASSUME NEW b \in Batches, Mint(b) PROVE Promise!PromiseNext
  BY <1>e, <1>a, <1>1, SettlementAssumption
<1>f. CASE SettlementNext
  BY <1>f, <1>d, <1>e, <1>2 DEF SettlementNext
<1> QED BY <1>f, <1>15

\* Settlement implements the promise: the rewards, the payments and the settled
\* debts of any run are a run of PaymentPromise.
THEOREM SettlementKeepsPromise == SettlementSpec => ImplementsPromise
<1>1. SettlementInit => Promise!PromiseInit
  BY DEF SettlementInit, Promise!PromiseInit, None
<1>2. PaidInv /\ [SettlementNext]_vars => [Promise!PromiseNext]_(Promise!promiseVars)
  BY StepsKeepPromise
<1> QED BY <1>1, <1>2, SettlementInvariant, PTL
        DEF SettlementSpec, ImplementsPromise, Promise!PromiseSpec

------------------------------------------------------------------------------
\* The jobs that planSettlement must hold.
OverBudget == {j \in Jobs : SumOf(j) > Budget[j] + Epsilon}

\* The page of a sweep holds all that is outstanding.
PageSuffices == Cardinality({r \in Rewards : reward[r] = "PENDING"}) <= Limit

\* The rewards of a job that is over budget are written together, and no sweep
\* ever plans, owns or pays one of them.
HeldInv ==
    \A j \in OverBudget : \A r \in JobRewards(j) :
        /\ sent[r] = 0
        /\ reward[r] \in {None, "PENDING"}
        /\ \A q \in JobRewards(j) : reward[q] = None => reward[r] = None
        /\ \A s \in Sweeps :
             /\ r \notin todo[s]
             /\ at[s] \in Owning => current[s] # r

LEMMA RewardsFinite ==
    ASSUME NEW S \in SUBSET Rewards
    PROVE  IsFiniteSet(S) /\ Cardinality(S) \in Nat
BY FS_Subset, FS_CardinalityType, SettlementAssumption

\* Rows of rewards owe at least what the rewards sum to.
LEMMA OwedByRows ==
    ASSUME NEW S \in SUBSET Rewards, NEW j \in Jobs, JobRewards(j) \subseteq S
    PROVE  /\ Owed({Row(q) : q \in S}, j) \in Int
           /\ SumOf(j) \in Int
           /\ Owed({Row(q) : q \in S}, j) >= SumOf(j)
<1> DEFINE all == {Row(q) : q \in S}
           h == [q \in Rewards |-> Row(q)]
           f == [q \in Rewards |-> IF Amount[q] > 0 THEN Amount[q] ELSE 0]
           g == [r \in all |-> IF r.amount > 0 THEN r.amount ELSE 0]
           R == JobRewards(j)
           owing == {r \in all : r.job = j}
<1>1. /\ \A q \in R : h[q] \in owing
      /\ \A r \in owing : \E q \in R : r = h[q]
  BY DEF Row, JobRewards
<1>2. \A x, y \in R : h[x] = h[y] => x = y
  BY DEF Row, JobRewards
<1>3. \A x \in R : f[x] \in Int /\ g[h[x]] = f[x] /\ f[x] \in Nat
  BY SettlementAssumption DEF Row, JobRewards
<1>4. \A x \in R : Amount[x] \in Int /\ Amount[x] <= f[x]
  BY SettlementAssumption DEF JobRewards
<1>5. R \in SUBSET Rewards
  BY DEF JobRewards
<1>6. Owed(all, j) = SumFunctionOnSet(g, owing)
  BY Zenon DEF Owed
<1>7. SumOf(j) = SumFunctionOnSet(Amount, R)
  BY DEF SumOf
<1> HIDE DEF all, h, f, g, R, owing
<1>8. IsFiniteSet(R)
  BY <1>5, RewardsFinite
<1>9. SumFunctionOnSet(g, owing) = SumFunctionOnSet(f, R)
  BY <1>1, <1>2, <1>3, <1>8, SumImage
<1>10. SumFunctionOnSet(Amount, R) <= SumFunctionOnSet(f, R)
  BY <1>3, <1>4, <1>8, SumLower
<1>11. SumFunctionOnSet(Amount, R) \in Int /\ SumFunctionOnSet(f, R) \in Int
  BY <1>3, <1>4, <1>8, SumType
<1> QED BY <1>6, <1>7, <1>9, <1>10, <1>11 DEF all

\* A page that suffices is everything the query could find.
LEMMA PageIsWhole ==
    ASSUME SettlementTypeOK, PageSuffices, NEW jobs, NEW P \in Pages(jobs)
    PROVE  P = {r \in Rewards : reward[r] = "PENDING" /\ JobOf[r] \in jobs}
<1> DEFINE all == {r \in Rewards : reward[r] = "PENDING"}
           pending == {r \in Rewards : reward[r] = "PENDING" /\ JobOf[r] \in jobs}
<1>1. P \in SUBSET pending /\ (P # pending => Cardinality(P) = Limit)
  BY DEF Pages
<1>2. pending \in SUBSET all /\ all \in SUBSET Rewards /\ Cardinality(all) <= Limit
  BY DEF PageSuffices
<1> HIDE DEF all, pending
<1>3. IsFiniteSet(all) /\ Cardinality(all) \in Nat /\ IsFiniteSet(pending)
      /\ Cardinality(pending) \in Nat /\ Cardinality(P) \in Nat /\ Limit \in Nat
  BY <1>1, <1>2, RewardsFinite, SettlementAssumption
<1>4. Cardinality(pending) <= Cardinality(all)
  BY <1>2, <1>3, FS_Subset
<1>5. Cardinality(P) <= Cardinality(pending) /\ (Cardinality(P) = Cardinality(pending) => P = pending)
  BY <1>1, <1>3, FS_Subset
<1>6. P = pending
  BY <1>1, <1>2, <1>3, <1>4, <1>5
<1> QED BY <1>6 DEF pending

\* Such a page plans nothing of a job that is over budget.
LEMMA PlanHolds ==
    ASSUME SettlementTypeOK, HeldInv, PageSuffices, NEW jobs, NEW P \in Pages(jobs),
           NEW j \in OverBudget, NEW r \in JobRewards(j), r \in P
    PROVE  Row(r) \notin Instructions({Row(q) : q \in P}, Budget)
<1>1. P = {q \in Rewards : reward[q] = "PENDING" /\ JobOf[q] \in jobs}
  BY PageIsWhole
<1>2. JobRewards(j) \subseteq P
  BY <1>1, SettlementAssumption DEF HeldInv, JobRewards, None
<1>3. j \in Jobs /\ Budget[j] \in Nat /\ SumOf(j) > Budget[j] + Epsilon /\ DOMAIN Budget = Jobs
  BY SettlementAssumption DEF OverBudget
<1>4. P \in SUBSET Rewards
  BY <1>1
<1>5. Owed({Row(q) : q \in P}, j) > Budget[j] + Epsilon
  BY <1>2, <1>3, <1>4, OwedByRows DEF Epsilon
<1>6. j \in Overspent({Row(q) : q \in P}, Budget)
  BY <1>3, <1>5 DEF Overspent
<1>7. Row(r).job = j
  BY DEF Row, JobRewards
<1> QED BY <1>6, <1>7 DEF Instructions

LEMMA HeldStep ==
    ASSUME PaidInv, HeldInv, PageSuffices, [SettlementNext]_vars
    PROVE  HeldInv'
<1> DEFINE Held(j, r) ==
             /\ sent[r] = 0
             /\ reward[r] \in {None, "PENDING"}
             /\ \A q \in JobRewards(j) : reward[q] = None => reward[r] = None
             /\ \A s \in Sweeps :
                  /\ r \notin todo[s]
                  /\ at[s] \in Owning => current[s] # r
<1> SUFFICES ASSUME NEW j \in OverBudget, NEW r \in JobRewards(j) PROVE Held(j, r)'
  BY DEF HeldInv, OverBudget, JobRewards, SumOf
<1>a. /\ r \in Rewards /\ JobOf[r] = j
      /\ \A q \in JobRewards(j) : q \in Rewards /\ JobOf[q] = j /\ Held(j, q)
  BY DEF HeldInv, JobRewards
<1>b. SettlementTypeOK /\ Ownership
  BY DEF PaidInv
<1> USE <1>a, <1>b, SettlementAssumption DEF SettlementTypeOK, Ownership, Owning, None, rows, money, sweep
<1>1. ASSUME NEW b \in Batches, Mint(b) PROVE Held(j, r)'
  <2>1. \A q \in JobRewards(j) : q \in b <=> r \in b
    OBVIOUS
  <2> QED BY <1>1, <2>1 DEF Mint
<1>2. ASSUME NEW s \in Sweeps, NEW jobs, NEW d \in Drivers, Plan(s, jobs, d) PROVE Held(j, r)'
  <2>1. r \notin todo'[s]
    <3>1. PICK P \in Pages(jobs) : todo' = [todo EXCEPT ![s] = {q \in P : Row(q) \in Instructions({Row(p) : p \in P}, Budget)}]
      BY <1>2 DEF Plan
    <3>2. r \in P => Row(r) \notin Instructions({Row(p) : p \in P}, Budget)
      BY PlanHolds
    <3> QED BY <3>1, <3>2
  <2>2. /\ UNCHANGED <<reward, sent, current>>
        /\ \A t \in Sweeps : t # s => todo'[t] = todo[t] /\ at'[t] = at[t]
        /\ at'[s] = "next"
    BY <1>2 DEF Plan, Goto
  <2> QED BY <2>1, <2>2
<1>3. ASSUME NEW s \in Sweeps, NEW q \in Rewards, Claim(s, q) PROVE Held(j, r)'
  BY <1>3 DEF Claim, Approve, Goto, Chosen
<1>4. ASSUME NEW s \in Sweeps, CreateTransaction(s) PROVE Held(j, r)'
  BY <1>4 DEF CreateTransaction, Goto
<1>5. ASSUME NEW s \in Sweeps, Pay(s) PROVE Held(j, r)'
  BY <1>5 DEF Pay, Answers, Goto
<1>6. ASSUME NEW s \in Sweeps, Refuse(s) PROVE Held(j, r)'
  BY <1>6 DEF Refuse, Goto
<1>7. ASSUME NEW s \in Sweeps, Record(s) PROVE Held(j, r)'
  BY <1>7 DEF Record, Outcome, Goto
<1>8. ASSUME NEW s \in Sweeps, MarkFailed(s) PROVE Held(j, r)'
  BY <1>8 DEF MarkFailed, FailRow, Goto
<1>9. ASSUME NEW s \in Sweeps, Release(s) PROVE Held(j, r)'
  BY <1>9 DEF Release, GiveBack, Goto
<1>10. ASSUME NEW s \in Sweeps, Finish(s) PROVE Held(j, r)'
  BY <1>10 DEF Finish, End, Goto
<1>11. ASSUME NEW s \in Sweeps, DriverFails(s) PROVE Held(j, r)'
  BY <1>11 DEF DriverFails, CountError, Goto
<1>12. ASSUME NEW s \in Sweeps, CreateFails(s) PROVE Held(j, r)'
  BY <1>12 DEF CreateFails, CountError, Goto
<1>13. ASSUME NEW s \in Sweeps, RecordFails(s) PROVE Held(j, r)'
  BY <1>13 DEF RecordFails, CountError, Outcome, Goto
<1>14. ASSUME NEW s \in Sweeps, SweepFails(s) PROVE Held(j, r)'
  BY <1>14 DEF SweepFails, CountError, Approve, FailRow, GiveBack, Chosen, End, Goto
<1>15. ASSUME NEW s \in Sweeps, Crash(s) PROVE Held(j, r)'
  BY <1>15 DEF Crash, End, Goto
<1>16. CASE UNCHANGED vars
  BY <1>16 DEF vars
<1> QED BY <1>1, <1>2, <1>3, <1>4, <1>5, <1>6, <1>7, <1>8, <1>9, <1>10, <1>11, <1>12, <1>13, <1>14, <1>15, <1>16 DEF SettlementNext, SweepStep, SweepFault

\* A job that owes more than its budget is paid nothing, not even the rewards
\* that would fit, as long as every page holds what is outstanding at the time.
THEOREM OverBudgetIsHeldWhole == SettlementSpec /\ []PageSuffices => []HeldWhole
<1>1. SettlementInit => HeldInv
  BY DEF SettlementInit, HeldInv, JobRewards, None, Owning
<1>2. PaidInv /\ HeldInv /\ PageSuffices /\ [SettlementNext]_vars => HeldInv'
  BY HeldStep
<1>3. HeldInv => HeldWhole
  BY DEF HeldInv, HeldWhole, OverBudget
<1> QED BY <1>1, <1>2, <1>3, SettlementInvariant, PTL DEF SettlementSpec
==============================================================================
