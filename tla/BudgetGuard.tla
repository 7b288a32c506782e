----------------------------- MODULE BudgetGuard -----------------------------
(***************************************************************************)
(* The spend limits: BudgetGuard of packages/budget/src/guard.ts over the  *)
(* Postgres ledger of packages/protocol/src/ledger.ts, and its two users,  *)
(* the agent runs (execution.ts, withBudget) and the operator's tick       *)
(* (operator.ts, reserve and release).                                     *)
(*                                                                         *)
(* A client makes one request.  withLock opens an interactive transaction  *)
(* only to hold an advisory lock: the statements of the guard themselves   *)
(* run on other connections of the same pool, and the transaction may time *)
(* out under them.  The lock and the connections a process has in use are  *)
(* therefore functions of where its clients are.                           *)
(***************************************************************************)
EXTENDS Integers, FiniteSets, Functions

CONSTANTS
    Clients,         \* one call of reserve each
    Request,         \* what each asks for: operator, job, agent, category, estimate
    Kind,            \* "agent" runs withBudget, "tick" is an operator's job
    Under,           \* the tick that runs this agent's job, or Nobody
    Costs,           \* what the work of each client may really cost
    ProcessOf,       \* the process of each client
    PoolMax,         \* connections in the pool of each process
    Policy,          \* of each operator: daily, weekly, perJob, perAgent, reserve
    Day, Week,       \* the two windows, in units of the clock
    MaxClock,        \* bound: the clock
    MaxFaults        \* bound: faults of every kind together

Nobody == "nobody"
Requests == [operator : DOMAIN Policy, job : STRING, agent : STRING,
             category : {"llm", "tool", "settlement"}, estimate : Nat]

\* BudgetPolicySchema: every field is nonnegative.
Limits == {"daily", "weekly", "perJob", "perAgent", "reserve"}

ASSUME GuardAssumption ==
    /\ IsFiniteSet(Clients)
    /\ \A c \in Clients : Request[c] \in Requests /\ Costs[c] \subseteq Nat
    /\ Kind \in [Clients -> {"agent", "tick"}]
    /\ Under \in [Clients -> Clients \cup {Nobody}]
    /\ \A op \in DOMAIN Policy : Policy[op] \in [Limits -> Nat]
    /\ {Day, Week, MaxClock, MaxFaults} \subseteq Nat

VARIABLES
    at,              \* where each client is
    called,          \* the "now" its call captured
    expired,         \* its lock transaction has been rolled back under it
    entry,           \* its BudgetSpend row: "none", "open", "settled", "released"
    charge,          \* actual ?? reserved of that row
    made,            \* createdAt of that row
    spent,           \* what its work has really cost so far
    clock,
    faults

ledger == <<entry, charge, made>>
guardVars == <<at, called, expired, ledger, spent, clock, faults>>

NoFaults == [expiry |-> 0, error |-> 0, lost |-> 0, crash |-> 0]

Fault(kind) ==
    /\ faults.expiry + faults.error + faults.lost + faults.crash < MaxFaults
    /\ faults' = [faults EXCEPT ![kind] = @ + 1]

GuardInit ==
    /\ at = [c \in Clients |-> "new"]
    /\ called = [c \in Clients |-> 0]
    /\ expired = [c \in Clients |-> FALSE]
    /\ entry = [c \in Clients |-> "none"]
    /\ charge = [c \in Clients |-> 0]
    /\ made = [c \in Clients |-> 0]
    /\ spent = [c \in Clients |-> 0]
    /\ clock = 0
    /\ faults = NoFaults

Goto(c, l) == at' = [at EXCEPT ![c] = l]

Finished == {"done", "denied", "failed", "dead"}

------------------------------------------------------------------------------
\* Connections: every open transaction keeps one, every statement takes one more.
HoldsTransaction(c) == at[c] \in {"lock", "check", "commit", "close"} /\ ~expired[c]

InUse(p) == Cardinality({c \in Clients : ProcessOf[c] = p /\ HoldsTransaction(c)})

Free(c) == InUse(ProcessOf[c]) < PoolMax[ProcessOf[c]]

\* pg_advisory_xact_lock: held from its statement to the end of the transaction.
Key(c) == Request[c].operator

HoldsLock(c) == at[c] \in {"check", "commit", "close"} /\ ~expired[c]

\* Mutant of LockFree: no lock.
LockFreeAlways(c) == TRUE

LockFree(c) == \A d \in Clients : HoldsLock(d) => Key(d) # Key(c)

------------------------------------------------------------------------------
Committed(S) == SumFunctionOnSet(charge, S)

\* The rows of an operator since a time; a request without an operator sees the
\* rows without one ("global").
Rows(op, since) ==
    {d \in Clients : /\ entry[d] \in {"open", "settled"}
                     /\ Request[d].operator = op
                     /\ made[d] >= since}

SameJob(S, j) == {d \in S : Request[d].job = j}
SameAgent(S, a) == {d \in S : Request[d].agent = a}

MaxZero(n) == IF n > 0 THEN n ELSE 0

DailyCeiling(op, category) ==
    IF category = "settlement" THEN Policy[op].daily
                               ELSE MaxZero(Policy[op].daily - Policy[op].reserve)

\* BudgetGuard.check: the four ceilings.  A tick names no agent.
Allowed(c) ==
    LET r == Request[c]
        p == Policy[r.operator]
        all == Rows(r.operator, 0)
    IN  /\ Committed(Rows(r.operator, called[c] - Day)) + r.estimate
              <= DailyCeiling(r.operator, r.category)
        /\ Committed(Rows(r.operator, called[c] - Week)) + r.estimate <= p.weekly
        /\ r.job # Nobody => Committed(SameJob(all, r.job)) + r.estimate <= p.perJob
        /\ r.job # Nobody /\ r.agent # Nobody =>
             Committed(SameAgent(SameJob(all, r.job), r.agent)) + r.estimate <= p.perAgent

------------------------------------------------------------------------------
\* reserve is called; the agents of a job are started by the run of that job.
Call(c) ==
    /\ at[c] = "new"
    /\ \A t \in Clients : Under[c] = t => at[t] = "working"
    /\ called' = [called EXCEPT ![c] = clock]
    /\ Goto(c, "begin")
    /\ UNCHANGED <<expired, ledger, spent, clock, faults>>

\* withLock opens its transaction and asks for the lock.
Open(c) ==
    /\ at[c] = "begin" /\ Free(c)
    /\ Goto(c, "lock")
    /\ UNCHANGED <<called, expired, ledger, spent, clock, faults>>

Acquire(c) ==
    /\ at[c] = "lock" /\ LockFree(c)
    /\ Goto(c, "check")
    /\ UNCHANGED <<called, expired, ledger, spent, clock, faults>>

\* The four sums are read together; a denial ends the transaction.
Check(c) ==
    /\ at[c] = "check" /\ Free(c)
    /\ Goto(c, IF Allowed(c) THEN "commit" ELSE "denied")
    /\ UNCHANGED <<called, expired, ledger, spent, clock, faults>>

\* SpendLedger.reserve, outside the transaction that holds the lock.
Insert(c) ==
    /\ entry' = [entry EXCEPT ![c] = "open"]
    /\ charge' = [charge EXCEPT ![c] = Request[c].estimate]
    /\ made' = [made EXCEPT ![c] = clock]

Commit(c) ==
    /\ at[c] = "commit" /\ Free(c)
    /\ Insert(c)
    /\ Goto(c, "close")
    /\ UNCHANGED <<called, expired, spent, clock, faults>>

\* The transaction ends; one that timed out makes reserve throw after the fact.
EndTransaction(c) ==
    /\ at[c] = "close"
    /\ Goto(c, IF expired[c] THEN "failed" ELSE "working")
    /\ UNCHANGED <<called, expired, ledger, spent, clock, faults>>

\* The interactive transaction times out, waiting for the lock or under its holder.
TransactionExpires(c) ==
    /\ HoldsTransaction(c)
    /\ Fault("expiry")
    /\ expired' = [expired EXCEPT ![c] = TRUE]
    /\ Goto(c, IF at[c] = "lock" THEN "failed" ELSE at[c])
    /\ UNCHANGED <<called, ledger, spent, clock>>

\* Mutant of PoolTimesOut: a statement waits for a connection for ever (the
\* default of node-postgres).
PoolWaits(c) ==
    /\ at[c] = "begin" /\ ~Free(c)
    /\ Goto(c, "failed")
    /\ UNCHANGED <<called, expired, ledger, spent, clock, faults>>

\* No connection comes free within connectionTimeoutMillis: reserve throws.
PoolTimesOut(c) ==
    /\ at[c] \in {"begin", "check", "commit"} /\ ~Free(c)
    /\ Goto(c, "failed")
    /\ UNCHANGED <<called, expired, ledger, spent, clock, faults>>

\* A statement of reserve rejects; an insert may have taken effect all the same,
\* and is there already when the transaction fails to commit.
ReserveFails(c) ==
    /\ \/ /\ at[c] \in {"begin", "lock", "check", "commit", "close"}
          /\ Fault("error")
          /\ UNCHANGED ledger
       \/ /\ at[c] = "commit"
          /\ Fault("lost")
          /\ Insert(c)
    /\ Goto(c, "failed")
    /\ UNCHANGED <<called, expired, spent, clock>>

------------------------------------------------------------------------------
\* withBudget: the work runs and is paid for, whether it returns or throws.
Work(c) ==
    /\ at[c] = "working" /\ Kind[c] = "agent"
    /\ \E cost \in Costs[c] : spent' = [spent EXCEPT ![c] = cost]
    /\ \E l \in {"reconcile", "keep"} : Goto(c, l)
    /\ UNCHANGED <<called, expired, ledger, clock, faults>>

Settle(c, amount) ==
    /\ entry' = [entry EXCEPT ![c] = "settled"]
    /\ charge' = [charge EXCEPT ![c] = amount]
    /\ UNCHANGED made

Reconcile(c) ==
    /\ at[c] = "reconcile"
    /\ Settle(c, spent[c])
    /\ Goto(c, "done")
    /\ UNCHANGED <<called, expired, spent, clock, faults>>

\* Mutant of KeepEstimate: failed work is free.
KeepNothing(c) ==
    /\ at[c] = "keep"
    /\ entry' = [entry EXCEPT ![c] = "released"]
    /\ charge' = [charge EXCEPT ![c] = 0]
    /\ Goto(c, "done")
    /\ UNCHANGED <<called, expired, made, spent, clock, faults>>

\* The catch block: failed work keeps its estimate.
KeepEstimate(c) ==
    /\ at[c] = "keep"
    /\ Settle(c, Request[c].estimate)
    /\ Goto(c, "done")
    /\ UNCHANGED <<called, expired, spent, clock, faults>>

\* A reconcile that rejects, with effect or without, lands in the catch block; one
\* that rejects there is thrown on.
ReconcileFails(c) ==
    /\ at[c] \in {"reconcile", "keep"}
    /\ \/ Fault("error") /\ UNCHANGED ledger
       \/ Fault("lost") /\ Settle(c, IF at[c] = "reconcile" THEN spent[c] ELSE Request[c].estimate)
    /\ Goto(c, IF at[c] = "reconcile" THEN "keep" ELSE "done")
    /\ UNCHANGED <<called, expired, spent, clock>>

RunIsOver(c) ==
    /\ at[c] = "working" /\ Kind[c] = "tick"
    /\ \A d \in Clients : Under[d] = c => at[d] \in Finished \cup {"new"}

\* The operator's tick: when the run of the job is over, the outer reservation
\* is released, or reconciled to nothing if the run threw.
JobOver(c) ==
    /\ RunIsOver(c)
    /\ \E e \in {"released", "settled"} : entry' = [entry EXCEPT ![c] = e]
    /\ charge' = [charge EXCEPT ![c] = 0]
    /\ Goto(c, "done")
    /\ UNCHANGED <<called, expired, made, spent, clock, faults>>

\* Its statement rejects: a failed delete is swallowed, a failed reconcile logged.
JobOverFails(c) ==
    /\ RunIsOver(c)
    /\ Fault("error")
    /\ Goto(c, "done")
    /\ UNCHANGED <<called, expired, ledger, spent, clock>>

\* The process is lost: its transactions are rolled back, its rows stay.
ProcessDies(p) ==
    /\ Fault("crash")
    /\ at' = [c \in Clients |-> IF ProcessOf[c] = p /\ at[c] \notin Finished \cup {"new"}
                                THEN "dead" ELSE at[c]]
    /\ UNCHANGED <<called, expired, ledger, spent, clock>>

TimePasses ==
    /\ clock < MaxClock
    /\ clock' = clock + 1
    /\ UNCHANGED <<at, called, expired, ledger, spent, faults>>

ClientStep(c) ==
    \/ Open(c) \/ Acquire(c) \/ Check(c) \/ Commit(c) \/ EndTransaction(c)
    \/ Work(c) \/ Reconcile(c) \/ KeepEstimate(c) \/ JobOver(c)

GuardNext ==
    \/ \E c \in Clients :
         \/ Call(c) \/ ClientStep(c)
         \/ TransactionExpires(c) \/ PoolTimesOut(c)
         \/ ReserveFails(c) \/ ReconcileFails(c) \/ JobOverFails(c)
    \/ \E p \in {ProcessOf[c] : c \in Clients} : ProcessDies(p)
    \/ TimePasses

GuardSpec == GuardInit /\ [][GuardNext]_guardVars

\* A call that was made goes on: the event loop and the database serve it, and
\* the pool's timeout, shorter than the transaction's, ends a wait for a connection.
GuardFairSpec ==
    GuardSpec /\ \A c \in Clients : WF_guardVars(ClientStep(c) \/ PoolTimesOut(c))

------------------------------------------------------------------------------
Places == {"new", "begin", "lock", "check", "commit", "close", "working", "reconcile",
           "keep"} \cup Finished

GuardTypeOK ==
    /\ at \in [Clients -> Places]
    /\ called \in [Clients -> Nat]
    /\ expired \in [Clients -> BOOLEAN]
    /\ entry \in [Clients -> {"none", "open", "settled", "released"}]
    /\ charge \in [Clients -> Nat]
    /\ made \in [Clients -> Nat]
    /\ spent \in [Clients -> Nat]
    /\ clock \in Nat
    /\ faults \in [expiry : Nat, error : Nat, lost : Nat, crash : Nat]
    /\ \A c \in Clients : entry[c] \in {"none", "released"} => charge[c] = 0

EstimatesHold == \A c \in Clients : \A cost \in Costs[c] : cost <= Request[c].estimate

Inference(S) == {c \in S : Request[c].category # "settlement"}

\* What the ceilings rest on: the lock, which a transaction that times out gives
\* up; estimates that are upper bounds; and reconciliations that only lower a
\* charge, which one that took effect and still rejected is not.
Intact == EstimatesHold /\ faults.expiry = 0 /\ faults.lost = 0

\* "Every field is a hard ceiling": however many clients of however many
\* processes ask at once, what is committed in the day and the week that end now,
\* for a job and for an agent of a job, stays within the operator's policy, and
\* inference never eats the settlement reserve (BudgetGuard.reserve).
CeilingsHold ==
    Intact => \A op \in DOMAIN Policy :
        LET day == Rows(op, clock - Day)
            all == Rows(op, 0)
        IN  /\ Committed(day) <= Policy[op].daily
            /\ Committed(Inference(day)) <= DailyCeiling(op, "llm")
            /\ Committed(Rows(op, clock - Week)) <= Policy[op].weekly
            /\ \A c \in Clients :
                 LET j == Request[c].job
                     a == Request[c].agent
                 IN  /\ j # Nobody => Committed(SameJob(all, j)) <= Policy[op].perJob
                     /\ j # Nobody /\ a # Nobody =>
                          Committed(SameAgent(SameJob(all, j), a)) <= Policy[op].perAgent

\* "A crash-looping agent must not be able to spend for free": what an agent has
\* really cost is charged, also when it throws, when its reconciliation fails and
\* when its process dies.
WorkIsCharged ==
    EstimatesHold => \A c \in Clients : Kind[c] = "agent" => charge[c] >= spent[c]

\* Every call of reserve ends, also when the holder of the lock waits for a
\* connection that those who wait for the lock keep; and where the pool has one to
\* spare for each client's statements, only the limits or a fault refuse it.
Spare(c) ==
    Cardinality({d \in Clients : ProcessOf[d] = ProcessOf[c]}) < PoolMax[ProcessOf[c]]

CallsEnd ==
    \A c \in Clients :
        (at[c] = "begin") ~>
            \/ at[c] \in {"working", "denied"}
            \/ at[c] \in Finished /\ (Spare(c) => faults # NoFaults)
==============================================================================
