----------------------------- MODULE Settlement ------------------------------
(***************************************************************************)
(* Paying the rewards: SettlementEngine of                                 *)
(* packages/protocol/src/settlement.ts, run by scripts/settle.ts.  Several *)
(* sweeps may run at once, on any machine; a sweep plans from one page of  *)
(* the outstanding rewards and then settles them one by one.  Each step of *)
(* settleOne is one awaited call: a statement, a transaction or the driver.*)
(***************************************************************************)
EXTENDS SettlementPlan

CONSTANTS
    Rewards, Jobs,
    JobOf, Amount,   \* of each reward
    HasPayee,        \* the rewards with a wallet or a configured address
    Budget,          \* of each job
    Batches,         \* the rewards, as the createMany calls that write them
    Sweeps,          \* slots for sweeps that run at the same time
    Limit,           \* rewards in a page, 50 by default
    Drivers,         \* of "none", "ledger" and "external" (a driver still to come)
    MaxCrashes,      \* bound: processes lost in the middle of a sweep
    MaxErrors        \* bound: calls that reject

ASSUME SettlementAssumption ==
    /\ IsFiniteSet(Rewards)
    /\ JobOf \in [Rewards -> Jobs]
    /\ Amount \in [Rewards -> Int]
    /\ Budget \in [Jobs -> Nat]
    /\ Batches \subseteq SUBSET Rewards
    \* RewardStage writes all rewards of a job with one createMany.
    /\ \A b \in Batches : \A r \in b, q \in Rewards : JobOf[q] = JobOf[r] => q \in b
    /\ Drivers \subseteq {"none", "ledger", "external"}
    /\ {Limit, MaxCrashes, MaxErrors} \subseteq Nat

VARIABLES
    reward,          \* Reward.status, or "none"
    born,            \* order of Reward.createdAt
    txn,             \* status of the reward's Transaction row, or "none"
    sent,            \* payments the driver has sent for the reward
    confirmed,       \* rewards whose payment has landed
    at,              \* where each sweep is
    todo,            \* the instructions it has left
    current,         \* the reward it is settling, kept until the next one
    receipt,         \* what the driver answered
    driver,          \* the driver it was started with, "none" by default
    faults

rows == <<reward, born, txn>>
money == <<sent, confirmed>>
sweep == <<at, todo, current, receipt, driver>>
vars == <<rows, money, sweep, faults>>

None == "none"

SettlementInit ==
    /\ reward = [r \in Rewards |-> None]
    /\ born = [r \in Rewards |-> 0]
    /\ txn = [r \in Rewards |-> None]
    /\ sent = [r \in Rewards |-> 0]
    /\ confirmed = {}
    /\ at = [s \in Sweeps |-> "idle"]
    /\ todo = [s \in Sweeps |-> {}]
    /\ current = [s \in Sweeps |-> None]
    /\ receipt = [s \in Sweeps |-> None]
    /\ driver = [s \in Sweeps |-> None]
    /\ faults = [crash |-> 0, error |-> 0]

Goto(s, l) == at' = [at EXCEPT ![s] = l]

\* A sweep that ends frees its slot.
End(s) ==
    /\ Goto(s, "idle")
    /\ todo' = [todo EXCEPT ![s] = {}]
    /\ current' = [current EXCEPT ![s] = None]
    /\ receipt' = [receipt EXCEPT ![s] = None]
    /\ driver' = [driver EXCEPT ![s] = None]

\* The three conditional updates of settleOne, as they change the rows.
Approve(r) == reward' = [reward EXCEPT ![r] = IF @ = "PENDING" THEN "APPROVED" ELSE @]

GiveBack(r) == reward' = [reward EXCEPT ![r] = IF @ = "APPROVED" THEN "PENDING" ELSE @]

FailRow(r) == txn' = [txn EXCEPT ![r] = "FAILED"]

\* The transaction that stores the outcome.
Outcome(s) ==
    /\ txn' = [txn EXCEPT ![current[s]] = receipt[s]]
    /\ reward' = [reward EXCEPT ![current[s]] =
                     IF receipt[s] = "CONFIRMED" THEN "SETTLED" ELSE @]

------------------------------------------------------------------------------
\* RewardStage writes the rewards of a job with one createMany.
Mint(b) ==
    /\ \A r \in b : reward[r] = None
    /\ reward' = [r \in Rewards |-> IF r \in b THEN "PENDING" ELSE reward[r]]
    /\ born' = [r \in Rewards |-> IF r \in b
                                  THEN Cardinality({q \in Rewards : reward[q] # None}) + 1
                                  ELSE born[r]]
    /\ UNCHANGED <<txn, money, sweep, faults>>

Row(r) == [id |-> r, job |-> JobOf[r], amount |-> Amount[r],
           status |-> reward[r], payee |-> r \in HasPayee]

\* The pages a query "PENDING, oldest first, take Limit" may return; the rewards
\* of one createMany have one createdAt, and no order among them.
Pages(jobs) ==
    LET pending == {r \in Rewards : reward[r] = "PENDING" /\ JobOf[r] \in jobs}
    IN  {P \in SUBSET pending :
            /\ Cardinality(P) <= Limit
            /\ P # pending => Cardinality(P) = Limit
            /\ \A r \in P, q \in pending \ P : born[r] <= born[q]}

\* sweep and plan: everything outstanding, or what one job owes, with the driver
\* that SETTLEMENT_DRIVER names for this process.
Plan(s, jobs, d) ==
    /\ at[s] = "idle"
    /\ \E P \in Pages(jobs) :
         todo' = [todo EXCEPT
                   ![s] = {r \in P : Row(r) \in Instructions({Row(q) : q \in P}, Budget)}]
    /\ driver' = [driver EXCEPT ![s] = d]
    /\ Goto(s, "next")
    /\ UNCHANGED <<rows, money, current, receipt, faults>>

------------------------------------------------------------------------------
\* The instructions are carried out in the order of the page.
Chosen(s) == {r \in todo[s] : \A q \in todo[s] : born[r] <= born[q]}

\* The conditional update PENDING -> APPROVED; a count of zero moves on.
Claim(s, r) ==
    /\ at[s] = "next" /\ r \in Chosen(s)
    /\ todo' = [todo EXCEPT ![s] = @ \ {r}]
    /\ current' = [current EXCEPT ![s] = r]
    /\ Approve(r)
    /\ IF reward[r] = "PENDING" THEN Goto(s, "create") ELSE UNCHANGED at
    /\ UNCHANGED <<born, txn, money, receipt, driver, faults>>

\* Mutant of CreateTransaction: rewardId is not unique.
CreateTransactionAgain(s) ==
    /\ at[s] = "create"
    /\ txn' = [txn EXCEPT ![current[s]] = "PENDING"]
    /\ Goto(s, "pay")
    /\ UNCHANGED <<reward, born, money, todo, current, receipt, driver, faults>>

\* The row that records the intent; its unique rewardId refuses a second one.
CreateTransaction(s) ==
    /\ at[s] = "create"
    /\ \/ /\ txn[current[s]] = None
          /\ txn' = [txn EXCEPT ![current[s]] = "PENDING"]
          /\ Goto(s, "pay")
       \/ /\ txn[current[s]] # None
          /\ Goto(s, "release")
          /\ UNCHANGED txn
    /\ UNCHANGED <<reward, born, money, todo, current, receipt, driver, faults>>

\* The drivers.  An external one may also answer that the payment is only on
\* its way; its failures are in DriverFails.
Answers == [none |-> {}, ledger |-> {"CONFIRMED"}, external |-> {"CONFIRMED", "BROADCAST"}]

Pay(s) ==
    /\ at[s] = "pay"
    /\ \E a \in Answers[driver[s]] :
         /\ sent' = [sent EXCEPT ![current[s]] = @ + 1]
         /\ confirmed' = IF a = "CONFIRMED" THEN confirmed \cup {current[s]} ELSE confirmed
         /\ receipt' = [receipt EXCEPT ![s] = a]
    /\ Goto(s, "record")
    /\ UNCHANGED <<rows, todo, current, driver, faults>>

\* The default driver refuses every payment.
Refuse(s) ==
    /\ at[s] = "pay" /\ driver[s] = "none"
    /\ Goto(s, "markFailed")
    /\ UNCHANGED <<rows, money, todo, current, receipt, driver, faults>>

\* The outcome is stored: only a confirmed payment settles the debt.
Record(s) ==
    /\ at[s] = "record"
    /\ Outcome(s)
    /\ Goto(s, "next")
    /\ UNCHANGED <<born, money, todo, current, receipt, driver, faults>>

\* The catch block: the row keeps the failure, the claim is given back.
MarkFailed(s) ==
    /\ at[s] = "markFailed"
    /\ FailRow(current[s])
    /\ Goto(s, "release")
    /\ UNCHANGED <<reward, born, money, todo, current, receipt, driver, faults>>

Release(s) ==
    /\ at[s] = "release"
    /\ GiveBack(current[s])
    /\ Goto(s, "next")
    /\ UNCHANGED <<born, txn, money, todo, current, receipt, driver, faults>>

Finish(s) ==
    /\ at[s] = "next" /\ todo[s] = {}
    /\ End(s)
    /\ UNCHANGED <<rows, money, faults>>

------------------------------------------------------------------------------
CountError ==
    /\ faults.error < MaxErrors
    /\ faults' = [faults EXCEPT !.error = @ + 1]

\* An external driver throws: nothing was sent, or it was and the answer is lost.
DriverFails(s) ==
    /\ at[s] = "pay" /\ driver[s] = "external"
    /\ CountError
    /\ \/ UNCHANGED money
       \/ /\ sent' = [sent EXCEPT ![current[s]] = @ + 1]
          /\ confirmed' \in {confirmed, confirmed \cup {current[s]}}
    /\ Goto(s, "markFailed")
    /\ UNCHANGED <<rows, todo, current, receipt, driver>>

\* A statement rejects, before it took effect or after (the answer is lost).
\* settleOne catches what create and record throw; anything else ends the sweep.
CreateFails(s) ==
    /\ at[s] = "create" /\ txn[current[s]] = None
    /\ CountError
    /\ txn' \in {txn, [txn EXCEPT ![current[s]] = "PENDING"]}
    /\ Goto(s, "release")
    /\ UNCHANGED <<reward, born, money, todo, current, receipt, driver>>

RecordFails(s) ==
    /\ at[s] = "record"
    /\ CountError
    /\ Outcome(s) \/ UNCHANGED <<txn, reward>>
    /\ Goto(s, "markFailed")
    /\ UNCHANGED <<born, money, todo, current, receipt, driver>>

SweepFails(s) ==
    /\ CountError
    /\ \/ /\ at[s] = "next"
          /\ \E r \in Chosen(s) : Approve(r) \/ UNCHANGED reward
          /\ UNCHANGED txn
       \/ /\ at[s] = "markFailed"
          /\ FailRow(current[s]) \/ UNCHANGED txn
          /\ UNCHANGED reward
       \/ /\ at[s] = "release"
          /\ GiveBack(current[s]) \/ UNCHANGED reward
          /\ UNCHANGED txn
    /\ End(s)
    /\ UNCHANGED <<born, money>>

Crash(s) ==
    /\ at[s] # "idle"
    /\ faults.crash < MaxCrashes
    /\ faults' = [faults EXCEPT !.crash = @ + 1]
    /\ End(s)
    /\ UNCHANGED <<rows, money>>

------------------------------------------------------------------------------
SweepStep(s) ==
    \/ \E r \in Rewards : Claim(s, r)
    \/ CreateTransaction(s) \/ Pay(s) \/ Refuse(s) \/ Record(s)
    \/ MarkFailed(s) \/ Release(s) \/ Finish(s)

SweepFault(s) ==
    \/ DriverFails(s) \/ CreateFails(s) \/ RecordFails(s) \/ SweepFails(s) \/ Crash(s)

SettlementNext ==
    \/ \E b \in Batches : Mint(b)
    \/ \E s \in Sweeps :
         \/ \E jobs \in {Jobs} \cup {{j} : j \in Jobs} : \E d \in Drivers : Plan(s, jobs, d)
         \/ SweepStep(s)
         \/ SweepFault(s)

SettlementSpec == SettlementInit /\ [][SettlementNext]_vars

\* A sweep that runs goes on.  Nothing in the repository starts one: that an
\* operator with a driver runs the script over all jobs again and again is an
\* assumption of the liveness properties only.
SettlementFairSpec ==
    /\ SettlementSpec
    /\ \A s \in Sweeps : WF_vars(SweepStep(s))
    /\ SF_vars(\E s \in Sweeps, d \in Drivers \ {None} : Plan(s, Jobs, d))

------------------------------------------------------------------------------
RewardStates == {None, "PENDING", "APPROVED", "SETTLED"}
TxnStates == {None, "PENDING", "FAILED", "BROADCAST", "CONFIRMED"}
SweepPlaces == {"idle", "next", "create", "pay", "record", "markFailed", "release"}

SettlementTypeOK ==
    /\ reward \in [Rewards -> RewardStates]
    /\ born \in [Rewards -> Nat]
    /\ txn \in [Rewards -> TxnStates]
    /\ sent \in [Rewards -> Nat]
    /\ confirmed \in SUBSET Rewards
    /\ at \in [Sweeps -> SweepPlaces]
    /\ todo \in [Sweeps -> SUBSET Rewards]
    /\ current \in [Sweeps -> Rewards \cup {None}]
    /\ receipt \in [Sweeps -> {None, "CONFIRMED", "BROADCAST"}]
    /\ driver \in [Sweeps -> DOMAIN Answers]
    /\ faults \in [crash : 0..MaxCrashes, error : 0..MaxErrors]

\* "A reward is paid at most once", whatever sweeps race, fail, lose an answer
\* or die: the conditional claim and the unique transaction row.
PaidAtMostOnce == \A r \in Rewards : sent[r] <= 1

\* "Never a payment nobody recorded": the transaction row precedes the driver,
\* so a crash at any point leaves a row for whatever was sent.
PaymentsRecorded == \A r \in Rewards : sent[r] > 0 => txn[r] # None

\* "Only a confirmed payment settles the debt": a reward is SETTLED only if a
\* payment of it has landed, even when the outcome's own answer was lost.
SettledIsConfirmed ==
    \A r \in Rewards : reward[r] = "SETTLED" => r \in confirmed /\ sent[r] = 1

\* While a reward is being settled it has one owner: two sweeps never work on
\* one reward past the claim (settleOne).
Owning == {"create", "pay", "record", "markFailed", "release"}

OneOwner ==
    \A s, t \in Sweeps :
        at[s] \in Owning /\ at[t] \in Owning /\ current[s] = current[t] => s = t

\* The steps together implement the promise (PaymentPromise).
Promise == INSTANCE PaymentPromise
             WITH owed <- {r \in Rewards : reward[r] # None},
                  settled <- {r \in Rewards : reward[r] = "SETTLED"}

ImplementsPromise == Promise!PromiseSpec

JobRewards(j) == {r \in Rewards : JobOf[r] = j}

SumOf(j) == SumFunctionOnSet(Amount, JobRewards(j))

\* "An over-budget job is held whole": when the page holds all that a job owes
\* and that exceeds its budget, planSettlement pays none of it.
HeldWhole ==
    \A j \in Jobs :
        SumOf(j) > Budget[j] + Epsilon => \A r \in JobRewards(j) : sent[r] = 0

\* "Settles everything outstanding": unless a call failed or a process died, a
\* payable reward of a job whose rewards fit its budget does not stay PENDING
\* while sweeps are run: it is settled, or the driver refused it or has it on its
\* way, although the sweeps steal each other's work and share their page with
\* the rewards of jobs that are held.
Payable(r) == r \in HasPayee /\ Amount[r] >= Dust /\ SumOf(JobOf[r]) <= Budget[JobOf[r]]

PayableConcludes ==
    \A r \in Rewards :
        Payable(r) => (reward[r] = "PENDING") ~>
                        \/ reward[r] = "SETTLED"
                        \/ txn[r] \in {"FAILED", "BROADCAST"}
                        \/ faults.crash + faults.error > 0
==============================================================================
