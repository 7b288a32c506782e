--------------------------- MODULE CeilingProofs ----------------------------
(***************************************************************************)
(* Theorems of the two parts that hold a daily ceiling while callers race: *)
(* BudgetGuard, for any clients, requests, policies, pools and windows and *)
(* any number of faults, and Automation, for any number of automations,    *)
(* jobs, calls and marks, any policies and patches, and any bounds on time *)
(* and faults.                                                             *)
(***************************************************************************)
EXTENDS BudgetGuard, Automation, Sums, TLAPS

(***************************************************************************)
(* The budget guard.                                                       *)
(***************************************************************************)
LEMMA FaultsTyped ==
    ASSUME faults \in [expiry : Nat, error : Nat, lost : Nat, crash : Nat],
           NEW kind \in {"expiry", "error", "lost", "crash"}, Fault(kind)
    PROVE  faults' \in [expiry : Nat, error : Nat, lost : Nat, crash : Nat]
BY DEF Fault

LEMMA GuardInitial == GuardInit => GuardTypeOK
BY DEF GuardInit, GuardTypeOK, Places, Finished, NoFaults

\* Every variable keeps its type, and what is released charges nothing.
LEMMA GuardTypeStep ==
    ASSUME GuardTypeOK, [GuardNext]_guardVars
    PROVE  GuardTypeOK'
<1> USE GuardAssumption, FaultsTyped DEF GuardTypeOK, Places, Finished, Requests, ledger
<1>1. ASSUME NEW c \in Clients, Call(c) PROVE GuardTypeOK'
  BY <1>1 DEF Call, Goto
<1>2. ASSUME NEW c \in Clients, Open(c) PROVE GuardTypeOK'
  BY <1>2 DEF Open, Goto
<1>3. ASSUME NEW c \in Clients, Acquire(c) PROVE GuardTypeOK'
  BY <1>3 DEF Acquire, Goto
<1>4. ASSUME NEW c \in Clients, Check(c) PROVE GuardTypeOK'
  BY <1>4 DEF Check, Goto
<1>5. ASSUME NEW c \in Clients, Commit(c) PROVE GuardTypeOK'
  BY <1>5 DEF Commit, Insert, Goto
<1>6. ASSUME NEW c \in Clients, EndTransaction(c) PROVE GuardTypeOK'
  BY <1>6 DEF EndTransaction, Goto
<1>7. ASSUME NEW c \in Clients, Work(c) PROVE GuardTypeOK'
  BY <1>7 DEF Work, Goto
<1>8. ASSUME NEW c \in Clients, Reconcile(c) PROVE GuardTypeOK'
  BY <1>8 DEF Reconcile, Settle, Goto
<1>9. ASSUME NEW c \in Clients, KeepEstimate(c) PROVE GuardTypeOK'
  BY <1>9 DEF KeepEstimate, Settle, Goto
<1>10. ASSUME NEW c \in Clients, JobOver(c) PROVE GuardTypeOK'
  BY <1>10 DEF JobOver, RunIsOver, Goto
<1>11. ASSUME NEW c \in Clients, TransactionExpires(c) PROVE GuardTypeOK'
  BY <1>11 DEF TransactionExpires, HoldsTransaction, Goto
<1>12. ASSUME NEW c \in Clients, PoolTimesOut(c) PROVE GuardTypeOK'
  BY <1>12 DEF PoolTimesOut, Goto
<1>13. ASSUME NEW c \in Clients, ReserveFails(c) PROVE GuardTypeOK'
  BY SMTT(30), <1>13 DEF ReserveFails, Insert, Goto
<1>14. ASSUME NEW c \in Clients, ReconcileFails(c) PROVE GuardTypeOK'
  BY <1>14 DEF ReconcileFails, Settle, Goto
<1>15. ASSUME NEW c \in Clients, JobOverFails(c) PROVE GuardTypeOK'
  BY <1>15 DEF JobOverFails, RunIsOver, Goto
<1>16. ASSUME NEW p, ProcessDies(p) PROVE GuardTypeOK'
  BY <1>16 DEF ProcessDies
<1>17. CASE TimePasses
  BY <1>17 DEF TimePasses
<1>18. CASE UNCHANGED guardVars
  BY <1>18 DEF guardVars
<1> QED
  BY <1>1, <1>2, <1>3, <1>4, <1>5, <1>6, <1>7, <1>8, <1>9, <1>10, <1>11, <1>12, <1>13, <1>14, <1>15, <1>16, <1>17, <1>18
  DEF GuardNext, ClientStep

\* For any parameters, the ledger and the clients keep their types.
THEOREM GuardTypeCorrect == GuardSpec => []GuardTypeOK
BY GuardInitial, GuardTypeStep, PTL DEF GuardSpec

------------------------------------------------------------------------------
\* What holds of an agent at each place: nothing is spent before its row is there,
\* and the row holds the whole estimate until the work is over.
AgentInv ==
    \A c \in Clients : Kind[c] = "agent" =>
        /\ at[c] \notin {"reconcile", "keep", "done", "dead"} => spent[c] = 0
        /\ at[c] \in {"close", "working"} => charge[c] = Request[c].estimate
        /\ spent[c] <= Request[c].estimate /\ spent[c] <= charge[c]

LEMMA AgentStep ==
    ASSUME EstimatesHold, GuardTypeOK, AgentInv, [GuardNext]_guardVars
    PROVE  AgentInv'
<1> USE GuardAssumption DEF EstimatesHold, GuardTypeOK, AgentInv, Finished, Requests, ledger
<1>1. ASSUME NEW c \in Clients, Call(c) PROVE AgentInv'
  BY <1>1 DEF Call, Goto
<1>2. ASSUME NEW c \in Clients, Open(c) PROVE AgentInv'
  BY <1>2 DEF Open, Goto
<1>3. ASSUME NEW c \in Clients, Acquire(c) PROVE AgentInv'
  BY <1>3 DEF Acquire, Goto
<1>4. ASSUME NEW c \in Clients, Check(c) PROVE AgentInv'
  BY <1>4 DEF Check, Goto
<1>5. ASSUME NEW c \in Clients, Commit(c) PROVE AgentInv'
  BY <1>5 DEF Commit, Insert, Goto
<1>6. ASSUME NEW c \in Clients, EndTransaction(c) PROVE AgentInv'
  BY <1>6 DEF EndTransaction, Goto
<1>7. ASSUME NEW c \in Clients, Work(c) PROVE AgentInv'
  BY <1>7 DEF Work, Goto
<1>8. ASSUME NEW c \in Clients, Reconcile(c) PROVE AgentInv'
  BY <1>8 DEF Reconcile, Settle, Goto
<1>9. ASSUME NEW c \in Clients, KeepEstimate(c) PROVE AgentInv'
  BY <1>9 DEF KeepEstimate, Settle, Goto
<1>10. ASSUME NEW c \in Clients, JobOver(c) PROVE AgentInv'
  BY <1>10 DEF JobOver, RunIsOver, Goto
<1>11. ASSUME NEW c \in Clients, TransactionExpires(c) PROVE AgentInv'
  BY <1>11 DEF TransactionExpires, HoldsTransaction, Goto
<1>12. ASSUME NEW c \in Clients, PoolTimesOut(c) PROVE AgentInv'
  BY <1>12 DEF PoolTimesOut, Goto
<1>13. ASSUME NEW c \in Clients, ReserveFails(c) PROVE AgentInv'
  BY <1>13 DEF ReserveFails, Insert, Goto
<1>14. ASSUME NEW c \in Clients, ReconcileFails(c) PROVE AgentInv'
  BY <1>14 DEF ReconcileFails, Settle, Goto
<1>15. ASSUME NEW c \in Clients, JobOverFails(c) PROVE AgentInv'
  BY <1>15 DEF JobOverFails, RunIsOver, Goto
<1>16. ASSUME NEW p, ProcessDies(p) PROVE AgentInv'
  BY <1>16 DEF ProcessDies
<1>17. CASE TimePasses
  BY <1>17 DEF TimePasses
<1>18. CASE UNCHANGED guardVars
  BY <1>18 DEF guardVars
<1> QED
  BY <1>1, <1>2, <1>3, <1>4, <1>5, <1>6, <1>7, <1>8, <1>9, <1>10, <1>11, <1>12, <1>13, <1>14, <1>15, <1>16, <1>17, <1>18
  DEF GuardNext, ClientStep

\* What an agent has really cost is charged at every instant, whatever throws,
\* rejects, expires or dies, as long as estimates are upper bounds.
THEOREM SpendingIsCharged == GuardSpec => []WorkIsCharged
<1>1. GuardInit => (EstimatesHold => AgentInv)
  BY GuardAssumption DEF GuardInit, AgentInv, Requests
<1>2. GuardTypeOK /\ (EstimatesHold => AgentInv) /\ [GuardNext]_guardVars
        => (EstimatesHold => AgentInv)'
  <2> SUFFICES ASSUME GuardTypeOK, EstimatesHold => AgentInv, [GuardNext]_guardVars, EstimatesHold'
               PROVE  AgentInv'
    OBVIOUS
  <2>1. EstimatesHold
    BY DEF EstimatesHold
  <2> QED BY <2>1, AgentStep
<1>3. (EstimatesHold => AgentInv) => WorkIsCharged
  BY DEF AgentInv, WorkIsCharged
<1> QED BY <1>1, <1>2, <1>3, GuardTypeCorrect, PTL DEF GuardSpec

------------------------------------------------------------------------------
\* The lock excludes: of one operator's calls at most one is between its check
\* and the end of its transaction.
LockExcludes ==
    \A c, d \in Clients : c # d /\ HoldsLock(c) /\ HoldsLock(d) => Key(c) # Key(d)

LEMMA LockStep ==
    ASSUME GuardTypeOK, LockExcludes, [GuardNext]_guardVars
    PROVE  LockExcludes'
<1> USE DEF GuardTypeOK, LockExcludes, HoldsLock, Key, Goto
<1>1. ASSUME NEW c \in Clients, Acquire(c) PROVE LockExcludes'
  BY <1>1 DEF Acquire, LockFree
<1>2. ASSUME NEW c \in Clients,
             \/ Call(c) \/ Open(c) \/ Check(c) \/ Commit(c) \/ EndTransaction(c) \/ Work(c) \/ Reconcile(c)
             \/ KeepEstimate(c) \/ JobOver(c) \/ TransactionExpires(c) \/ PoolTimesOut(c)
             \/ ReserveFails(c) \/ ReconcileFails(c) \/ JobOverFails(c)
      PROVE  LockExcludes'
  BY <1>2 DEF Call, Open, Check, Commit, EndTransaction, Work, Reconcile, KeepEstimate, JobOver,
              TransactionExpires, HoldsTransaction, PoolTimesOut, ReserveFails, ReconcileFails,
              JobOverFails, RunIsOver
<1>3. ASSUME NEW p, ProcessDies(p) PROVE LockExcludes'
  BY <1>3 DEF ProcessDies
<1>4. CASE TimePasses
  BY <1>4 DEF TimePasses
<1>5. CASE UNCHANGED guardVars
  BY <1>5 DEF guardVars
<1> QED BY <1>1, <1>2, <1>3, <1>4, <1>5 DEF GuardNext, ClientStep

\* Where a call is tells what its row holds: no row before the insert, an open
\* one with the whole estimate from there until the work is accounted for.
RowsInv ==
    \A c \in Clients :
        /\ ~expired[c] /\ called[c] <= clock /\ spent[c] <= Request[c].estimate
        /\ at[c] \in {"new", "begin", "lock", "check", "commit"} => entry[c] = "none"
        /\ at[c] \in {"close", "working", "reconcile", "keep"} =>
             entry[c] = "open" /\ charge[c] = Request[c].estimate

NoneLost == faults.expiry = 0 /\ faults.lost = 0

\* A step that adds no row: time passes, rows leave or are charged less.
LedgerLowers ==
    /\ clock <= clock'
    /\ \A d \in Clients : entry'[d] \in {"open", "settled"} =>
          /\ entry[d] \in {"open", "settled"}
          /\ made'[d] = made[d] /\ charge'[d] <= charge[d]

LEMMA RowKept ==
    ASSUME GuardTypeOK, EstimatesHold, RowsInv, [GuardNext]_guardVars, NoneLost'
    PROVE  /\ NoneLost /\ RowsInv'
           /\ LedgerLowers \/ \E c \in Clients : Commit(c)
<1> USE GuardAssumption DEF GuardTypeOK, EstimatesHold, RowsInv, NoneLost, LedgerLowers, Goto,
                            Fault, Requests, ledger
<1> DEFINE Goal == /\ NoneLost /\ RowsInv'
                   /\ LedgerLowers \/ \E c \in Clients : Commit(c)
<1>1. ASSUME NEW c \in Clients, Call(c) \/ Open(c) \/ Acquire(c) \/ Check(c) \/ PoolTimesOut(c)
                                  \/ EndTransaction(c) \/ JobOverFails(c) \/ TransactionExpires(c)
      PROVE  Goal
  BY <1>1 DEF Call, Open, Acquire, Check, PoolTimesOut, EndTransaction, JobOverFails, RunIsOver,
              TransactionExpires
<1>2. ASSUME NEW c \in Clients, Commit(c) PROVE Goal
  BY ZenonT(30), <1>2 DEF Commit, Insert
<1>3. ASSUME NEW c \in Clients, ReserveFails(c) PROVE Goal
  BY <1>3 DEF ReserveFails
<1>4. ASSUME NEW c \in Clients, Work(c) PROVE Goal
  BY <1>4 DEF Work
<1>5. ASSUME NEW c \in Clients, Reconcile(c) \/ KeepEstimate(c) PROVE Goal
  BY <1>5 DEF Reconcile, KeepEstimate, Settle
<1>6. ASSUME NEW c \in Clients, ReconcileFails(c) PROVE Goal
  BY <1>6 DEF ReconcileFails
<1>7. ASSUME NEW c \in Clients, JobOver(c) PROVE Goal
  BY <1>7 DEF JobOver, RunIsOver
<1>8. ASSUME NEW p, ProcessDies(p) PROVE Goal
  BY <1>8 DEF ProcessDies
<1>9. CASE TimePasses
  BY <1>9 DEF TimePasses
<1>10. CASE UNCHANGED guardVars
  BY <1>10 DEF guardVars
<1> QED BY <1>1, <1>2, <1>3, <1>4, <1>5, <1>6, <1>7, <1>8, <1>9, <1>10 DEF GuardNext, ClientStep

\* What CeilingsHold says of one operator.
Within(op) ==
    LET day == Rows(op, clock - Day)
        all == Rows(op, 0)
    IN  /\ Committed(day) <= Policy[op].daily
        /\ Committed(Inference(day)) <= DailyCeiling(op, "llm")
        /\ Committed(Rows(op, clock - Week)) <= Policy[op].weekly
        /\ \A c \in Clients :
             LET j == Request[c].job
                 a == Request[c].agent
             IN  /\ j # Nobody => Committed(SameJob(all, j)) <= Policy[op].perJob
                 /\ j # Nobody /\ a # Nobody =>
                      Committed(SameAgent(SameJob(all, j), a)) <= Policy[op].perAgent

\* A sum over fewer rows, none of them charged more, is no larger.
LEMMA CommittedLower ==
    ASSUME GuardTypeOK, GuardTypeOK', NEW S \in SUBSET Clients, NEW T \in SUBSET S,
           \A d \in T : charge'[d] <= charge[d]
    PROVE  /\ SumFunctionOnSet(charge', T) <= SumFunctionOnSet(charge, S)
           /\ SumFunctionOnSet(charge', T) \in Nat /\ SumFunctionOnSet(charge, S) \in Nat
<1>1. IsFiniteSet(S) /\ IsFiniteSet(T)
  BY GuardAssumption, FS_Subset
<1>2. /\ \A d \in S : charge[d] \in Nat
      /\ \A d \in T : charge'[d] \in Nat
  BY DEF GuardTypeOK
<1>3. SumFunctionOnSet(charge', T) <= SumFunctionOnSet(charge, S)
  BY <1>1, <1>2, SumLower
<1> QED BY <1>1, <1>2, <1>3, SumNat

\* One more row adds no more than its charge.
LEMMA CommittedInsert ==
    ASSUME GuardTypeOK, GuardTypeOK', NEW S \in SUBSET Clients, NEW c \in Clients \ S,
           NEW T \in SUBSET (S \cup {c}), \A d \in T \ {c} : charge'[d] <= charge[d]
    PROVE  /\ SumFunctionOnSet(charge', T) <= SumFunctionOnSet(charge, S) + charge'[c]
           /\ SumFunctionOnSet(charge', T) \in Nat /\ SumFunctionOnSet(charge, S) \in Nat
<1>1. IsFiniteSet(S) /\ IsFiniteSet(T)
  BY GuardAssumption, FS_Subset
<1>2. /\ \A d \in S : charge[d] \in Nat
      /\ \A d \in T : charge'[d] \in Nat
      /\ charge'[c] \in Nat
  BY DEF GuardTypeOK
<1>3. SumFunctionOnSet(charge', T) <= SumFunctionOnSet(charge, S) + charge'[c]
  BY <1>1, <1>2, SumInsert
<1> QED BY <1>1, <1>2, <1>3, SumNat

\* The clients of a job, and of an agent of a job: what the sum of a ceiling
\* leaves out never changes.
Asking(j) == {d \in Clients : Request[d].job = j}
AskingFor(j, a) == {d \in Clients : Request[d].job = j /\ Request[d].agent = a}

\* What a ledger has committed for the clients of P since a time.
RowsOf(ent, mk, op, since) ==
    {d \in Clients : ent[d] \in {"open", "settled"} /\ Request[d].operator = op /\ mk[d] >= since}
Total(ch, ent, mk, op, since, P) == SumFunctionOnSet(ch, RowsOf(ent, mk, op, since) \cap P)

WithinOf(ch, ent, mk, time, op) ==
    /\ Total(ch, ent, mk, op, time - Day, Clients) <= Policy[op].daily
    /\ Total(ch, ent, mk, op, time - Day, Inference(Clients)) <= DailyCeiling(op, "llm")
    /\ Total(ch, ent, mk, op, time - Week, Clients) <= Policy[op].weekly
    /\ \A c \in Clients : Request[c].job # Nobody =>
         /\ Total(ch, ent, mk, op, 0, Asking(Request[c].job)) <= Policy[op].perJob
         /\ Request[c].agent # Nobody =>
              Total(ch, ent, mk, op, 0, AskingFor(Request[c].job, Request[c].agent))
                <= Policy[op].perAgent

AllowedOf(ch, ent, mk, since, c) ==
    LET r == Request[c]  op == Request[c].operator IN
    /\ Total(ch, ent, mk, op, since - Day, Clients) + r.estimate <= DailyCeiling(op, r.category)
    /\ Total(ch, ent, mk, op, since - Week, Clients) + r.estimate <= Policy[op].weekly
    /\ r.job # Nobody =>
         Total(ch, ent, mk, op, 0, Asking(r.job)) + r.estimate <= Policy[op].perJob
    /\ r.job # Nobody /\ r.agent # Nobody =>
         Total(ch, ent, mk, op, 0, AskingFor(r.job, r.agent)) + r.estimate <= Policy[op].perAgent

LEMMA Selections ==
    ASSUME NEW S \in SUBSET Clients, NEW j, NEW a
    PROVE  /\ S \cap Clients = S
           /\ SameJob(S, j) = S \cap Asking(j)
           /\ SameAgent(SameJob(S, j), a) = S \cap AskingFor(j, a)
           /\ Inference(S) = S \cap Inference(Clients)
BY DEF SameJob, SameAgent, Inference, Asking, AskingFor

LEMMA SumsAreTotals ==
    ASSUME NEW ch, NEW ent, NEW mk, NEW op, NEW since, NEW j, NEW a
    PROVE  LET rows == RowsOf(ent, mk, op, since) IN
           /\ SumFunctionOnSet(ch, rows) = Total(ch, ent, mk, op, since, Clients)
           /\ SumFunctionOnSet(ch, SameJob(rows, j)) = Total(ch, ent, mk, op, since, Asking(j))
           /\ SumFunctionOnSet(ch, SameAgent(SameJob(rows, j), a))
                = Total(ch, ent, mk, op, since, AskingFor(j, a))
           /\ SumFunctionOnSet(ch, Inference(rows))
                = Total(ch, ent, mk, op, since, Inference(Clients))
<1> DEFINE rows == RowsOf(ent, mk, op, since)
<1>1. rows \in SUBSET Clients
  BY DEF RowsOf
<1> HIDE DEF rows
<1>2. /\ rows \cap Clients = rows
      /\ SameJob(rows, j) = rows \cap Asking(j)
      /\ SameAgent(SameJob(rows, j), a) = rows \cap AskingFor(j, a)
      /\ Inference(rows) = rows \cap Inference(Clients)
  BY <1>1, Selections
<1>3. \A P : Total(ch, ent, mk, op, since, P) = SumFunctionOnSet(ch, rows \cap P)
  BY DEF Total, rows
<1>4. /\ SumFunctionOnSet(ch, rows) = Total(ch, ent, mk, op, since, Clients)
      /\ SumFunctionOnSet(ch, SameJob(rows, j)) = Total(ch, ent, mk, op, since, Asking(j))
      /\ SumFunctionOnSet(ch, SameAgent(SameJob(rows, j), a))
           = Total(ch, ent, mk, op, since, AskingFor(j, a))
      /\ SumFunctionOnSet(ch, Inference(rows)) = Total(ch, ent, mk, op, since, Inference(Clients))
  BY <1>2, <1>3, Zenon
<1> QED BY <1>4 DEF rows

LEMMA WithinMeans ==
    ASSUME NEW op
    PROVE  /\ Within(op) <=> WithinOf(charge, entry, made, clock, op)
           /\ Within(op)' <=> WithinOf(charge', entry', made', clock', op)
<1>1. Within(op) <=> WithinOf(charge, entry, made, clock, op)
  <2>1. \A since : Rows(op, since) = RowsOf(entry, made, op, since)
    BY DEF Rows, RowsOf
  <2> QED BY <2>1, SumsAreTotals DEF Within, WithinOf, Committed
<1>2. Within(op)' <=> WithinOf(charge', entry', made', clock', op)
  <2>1. /\ Rows(op, clock - Day)' = RowsOf(entry', made', op, clock' - Day)
        /\ Rows(op, clock - Week)' = RowsOf(entry', made', op, clock' - Week)
        /\ Rows(op, 0)' = RowsOf(entry', made', op, 0)
    BY DEF Rows, RowsOf
  <2> QED BY <2>1, SumsAreTotals DEF Within, WithinOf, Committed
<1> QED BY <1>1, <1>2

LEMMA AllowedMeans ==
    ASSUME NEW c \in Clients
    PROVE  /\ Allowed(c) <=> AllowedOf(charge, entry, made, called[c], c)
           /\ Allowed(c)' <=> AllowedOf(charge', entry', made', called'[c], c)
<1> DEFINE op == Request[c].operator
<1>1. Allowed(c) <=> AllowedOf(charge, entry, made, called[c], c)
  <2>1. \A since : Rows(op, since) = RowsOf(entry, made, op, since)
    BY DEF Rows, RowsOf
  <2> QED BY <2>1, SumsAreTotals DEF Allowed, AllowedOf, Committed
<1>2. Allowed(c)' <=> AllowedOf(charge', entry', made', called'[c], c)
  <2>1. /\ Rows(op, called[c] - Day)' = RowsOf(entry', made', op, called'[c] - Day)
        /\ Rows(op, called[c] - Week)' = RowsOf(entry', made', op, called'[c] - Week)
        /\ Rows(op, 0)' = RowsOf(entry', made', op, 0)
    BY DEF Rows, RowsOf
  <2> QED BY <2>1, SumsAreTotals DEF Allowed, AllowedOf, Committed
<1> QED BY <1>1, <1>2

\* The rows of a window after such a step were in it before.
LEMMA LowerTotal ==
    ASSUME GuardTypeOK, GuardTypeOK', LedgerLowers, NEW op, NEW P \in SUBSET Clients,
           NEW since \in Int, NEW later \in Int, since <= later
    PROVE  LET before == Total(charge, entry, made, op, since, P)
               after == Total(charge', entry', made', op, later, P)
           IN  after <= before /\ before \in Nat /\ after \in Nat
<1> DEFINE S == RowsOf(entry, made, op, since) \cap P
           T == RowsOf(entry', made', op, later) \cap P
<1>1. /\ S \in SUBSET Clients /\ T \in SUBSET S
      /\ \A d \in T : charge'[d] <= charge[d]
  BY DEF RowsOf, LedgerLowers, GuardTypeOK
<1> HIDE DEF S, T
<1>2. /\ SumFunctionOnSet(charge', T) <= SumFunctionOnSet(charge, S)
      /\ SumFunctionOnSet(charge', T) \in Nat /\ SumFunctionOnSet(charge, S) \in Nat
  BY <1>1, CommittedLower
<1> QED BY <1>2 DEF Total, S, T

\* Of the rows after an insert one was not there before.
LEMMA InsertTotal ==
    ASSUME GuardTypeOK, GuardTypeOK', NEW c \in Clients, Commit(c), entry[c] = "none",
           NEW op, NEW P \in SUBSET Clients, NEW since \in Int, NEW later \in Int, since <= later
    PROVE  LET before == Total(charge, entry, made, op, since, P)
               after == Total(charge', entry', made', op, later, P)
           IN  /\ after <= before + Request[c].estimate
               /\ c \notin P \/ op # Request[c].operator => after <= before
               /\ before \in Nat /\ after \in Nat
<1> DEFINE S == RowsOf(entry, made, op, since) \cap P
           T == RowsOf(entry', made', op, later) \cap P
<1>1. /\ S \in SUBSET Clients /\ c \in Clients \ S /\ T \in SUBSET (S \cup {c})
      /\ \A d \in T \ {c} : charge'[d] <= charge[d]
      /\ c \notin P \/ op # Request[c].operator => T \in SUBSET S
      /\ charge'[c] = Request[c].estimate
  BY DEF RowsOf, Commit, Insert, GuardTypeOK
<1> HIDE DEF S, T
<1>2. /\ SumFunctionOnSet(charge', T) <= SumFunctionOnSet(charge, S) + charge'[c]
      /\ SumFunctionOnSet(charge', T) \in Nat /\ SumFunctionOnSet(charge, S) \in Nat
  BY <1>1, CommittedInsert
<1>3. ASSUME c \notin P \/ op # Request[c].operator
      PROVE  SumFunctionOnSet(charge', T) <= SumFunctionOnSet(charge, S)
  BY <1>1, <1>3, CommittedLower
<1> QED BY <1>1, <1>2, <1>3 DEF Total, S, T

LEMMA CeilingTypes ==
    ASSUME NEW op \in DOMAIN Policy
    PROVE  /\ Policy[op].daily \in Nat /\ Policy[op].weekly \in Nat /\ Policy[op].perJob \in Nat
           /\ Policy[op].perAgent \in Nat /\ Policy[op].reserve \in Nat
           /\ \A k : DailyCeiling(op, k) \in Nat /\ DailyCeiling(op, k) <= Policy[op].daily
           /\ \A k : k # "settlement" => DailyCeiling(op, k) = DailyCeiling(op, "llm")
<1>1. Policy[op] \in [Limits -> Nat]
  BY GuardAssumption
<1> QED BY <1>1 DEF Limits, DailyCeiling, MaxZero

LEMMA LowerWithin ==
    ASSUME GuardTypeOK, GuardTypeOK', LedgerLowers, NEW op \in DOMAIN Policy, Within(op)
    PROVE  Within(op)'
<1>1. /\ clock - Day \in Int /\ clock' - Day \in Int /\ clock - Day <= clock' - Day
      /\ clock - Week \in Int /\ clock' - Week \in Int /\ clock - Week <= clock' - Week
  BY GuardAssumption DEF GuardTypeOK, LedgerLowers
<1>2. \A j, a : Asking(j) \subseteq Clients /\ AskingFor(j, a) \subseteq Clients
                /\ Inference(Clients) \subseteq Clients
  BY DEF Asking, AskingFor, Inference
<1>3. WithinOf(charge, entry, made, clock, op)
  BY WithinMeans
<1>4. WithinOf(charge', entry', made', clock', op)
  <2>1. Total(charge', entry', made', op, clock' - Day, Clients) <= Policy[op].daily
    BY <1>1, <1>3, LowerTotal, CeilingTypes DEF WithinOf
  <2>2. Total(charge', entry', made', op, clock' - Day, Inference(Clients)) <= DailyCeiling(op, "llm")
    BY <1>1, <1>2, <1>3, LowerTotal, CeilingTypes DEF WithinOf
  <2>3. Total(charge', entry', made', op, clock' - Week, Clients) <= Policy[op].weekly
    BY <1>1, <1>3, LowerTotal, CeilingTypes DEF WithinOf
  <2>4. ASSUME NEW c \in Clients, Request[c].job # Nobody
        PROVE  Total(charge', entry', made', op, 0, Asking(Request[c].job)) <= Policy[op].perJob
    BY <1>2, <1>3, <2>4, LowerTotal, CeilingTypes DEF WithinOf
  <2>5. ASSUME NEW c \in Clients, Request[c].job # Nobody, Request[c].agent # Nobody
        PROVE  Total(charge', entry', made', op, 0, AskingFor(Request[c].job, Request[c].agent))
                 <= Policy[op].perAgent
    BY <1>2, <1>3, <2>5, LowerTotal, CeilingTypes DEF WithinOf
  <2> QED BY <2>1, <2>2, <2>3, <2>4, <2>5 DEF WithinOf
<1> QED BY <1>4, WithinMeans

LEMMA LowerAllowed ==
    ASSUME GuardTypeOK, GuardTypeOK', LedgerLowers, NEW c \in Clients, Allowed(c),
           called'[c] = called[c]
    PROVE  Allowed(c)'
<1> DEFINE r == Request[c]
           op == Request[c].operator
<1>1. /\ called[c] - Day \in Int /\ called[c] - Week \in Int /\ 0 \in Int
      /\ r.estimate \in Nat /\ op \in DOMAIN Policy
  BY GuardAssumption DEF GuardTypeOK, Requests
<1>2. /\ Clients \subseteq Clients
      /\ \A j, a : Asking(j) \subseteq Clients /\ AskingFor(j, a) \subseteq Clients
  BY DEF Asking, AskingFor
<1>3. AllowedOf(charge, entry, made, called[c], c)
  BY AllowedMeans
<1>4. AllowedOf(charge', entry', made', called[c], c)
  <2> HIDE DEF r, op
  <2>1. ASSUME NEW P \in SUBSET Clients, NEW since \in Int, NEW n \in Nat,
               Total(charge, entry, made, op, since, P) + r.estimate <= n
        PROVE  Total(charge', entry', made', op, since, P) + r.estimate <= n
    BY <1>1, <2>1, LowerTotal
  <2>2. Total(charge', entry', made', op, called[c] - Day, Clients) + r.estimate
          <= DailyCeiling(op, r.category)
    BY <1>1, <1>2, <1>3, <2>1, CeilingTypes DEF AllowedOf, r, op
  <2>3. Total(charge', entry', made', op, called[c] - Week, Clients) + r.estimate
          <= Policy[op].weekly
    BY <1>1, <1>2, <1>3, <2>1, CeilingTypes DEF AllowedOf, r, op
  <2>4. ASSUME r.job # Nobody
        PROVE  Total(charge', entry', made', op, 0, Asking(r.job)) + r.estimate <= Policy[op].perJob
    BY <1>1, <1>2, <1>3, <2>1, <2>4, CeilingTypes DEF AllowedOf, r, op
  <2>5. ASSUME r.job # Nobody, r.agent # Nobody
        PROVE  Total(charge', entry', made', op, 0, AskingFor(r.job, r.agent)) + r.estimate
                 <= Policy[op].perAgent
    BY <1>1, <1>2, <1>3, <2>1, <2>5, CeilingTypes DEF AllowedOf, r, op
  <2> QED BY <2>2, <2>3, <2>4, <2>5 DEF AllowedOf, r, op
<1> QED BY <1>4, AllowedMeans

\* An insert stays within the ceilings its check allowed, whose windows reach no
\* less far back than those that end at the insert.
LEMMA InsertWithin ==
    ASSUME GuardTypeOK, GuardTypeOK', NEW c \in Clients, Commit(c), entry[c] = "none",
           called[c] <= clock, Allowed(c), NEW op \in DOMAIN Policy, Within(op)
    PROVE  Within(op)'
<1> DEFINE r == Request[c]
<1>1. /\ clock' = clock /\ clock - Day \in Int /\ clock - Week \in Int
      /\ called[c] - Day \in Int /\ called[c] - Week \in Int
      /\ called[c] - Day <= clock - Day /\ called[c] - Week <= clock - Week
  BY GuardAssumption DEF GuardTypeOK, Commit
<1>2. /\ Clients \subseteq Clients /\ Inference(Clients) \subseteq Clients
      /\ \A j, a : Asking(j) \subseteq Clients /\ AskingFor(j, a) \subseteq Clients
  BY DEF Asking, AskingFor, Inference
<1>3. r.estimate \in Nat
  BY GuardAssumption DEF Requests
<1>4. /\ WithinOf(charge, entry, made, clock, op)
      /\ AllowedOf(charge, entry, made, called[c], c)
  BY WithinMeans, AllowedMeans
<1> DEFINE after(since, P) == Total(charge', entry', made', op, since, P)
           then(since, P) == Total(charge, entry, made, op, since, P)
<1> HIDE DEF r
<1>5. ASSUME NEW P \in SUBSET Clients, NEW since \in Int, NEW later \in Int, since <= later
      PROVE  /\ after(later, P) <= then(since, P) + r.estimate
             /\ c \notin P \/ op # r.operator => after(later, P) <= then(since, P)
             /\ then(since, P) \in Nat /\ after(later, P) \in Nat
  BY <1>5, InsertTotal DEF r
<1> HIDE DEF after, then
<1>6. ASSUME NEW P \in SUBSET Clients, NEW since \in Int, NEW n \in Nat,
             \/ then(since, P) <= n /\ (op # r.operator \/ c \notin P)
             \/ then(since, P) + r.estimate <= n
      PROVE  after(since, P) <= n
  BY <1>3, <1>5, <1>6
<1>7. after(clock - Day, Clients) <= Policy[op].daily
  BY <1>1, <1>2, <1>3, <1>4, <1>5, CeilingTypes DEF WithinOf, AllowedOf, after, then, r
<1>8. after(clock - Day, Inference(Clients)) <= DailyCeiling(op, "llm")
  <2>1. CASE op # r.operator \/ c \notin Inference(Clients)
    <3>1. then(clock - Day, Inference(Clients)) <= DailyCeiling(op, "llm")
      BY <1>4 DEF WithinOf, then
    <3> QED BY <1>1, <1>2, <1>6, <2>1, <3>1, CeilingTypes
  <2>2. CASE op = r.operator /\ c \in Inference(Clients)
    <3>1. DailyCeiling(op, r.category) = DailyCeiling(op, "llm")
      BY <2>2, CeilingTypes DEF Inference, r
    <3>2. then(called[c] - Day, Clients) + r.estimate <= DailyCeiling(op, "llm")
      BY <1>4, <2>2, <3>1 DEF AllowedOf, then, r
    <3>3. /\ after(clock - Day, Clients) <= then(called[c] - Day, Clients) + r.estimate
          /\ after(clock - Day, Clients) \in Nat /\ then(called[c] - Day, Clients) \in Nat
      BY <1>1, <1>5
    <3>4. /\ after(clock - Day, Inference(Clients)) <= after(clock - Day, Clients)
          /\ after(clock - Day, Inference(Clients)) \in Nat
      <4>1. /\ IsFiniteSet(RowsOf(entry', made', op, clock - Day))
            /\ RowsOf(entry', made', op, clock - Day) \subseteq Clients
        <5>1. RowsOf(entry', made', op, clock - Day) \in SUBSET Clients
          BY DEF RowsOf
        <5> QED BY <5>1, GuardAssumption, FS_Subset
      <4>2. \A d \in Clients : charge'[d] \in Nat
        BY DEF GuardTypeOK
      <4> DEFINE S == RowsOf(entry', made', op, clock - Day) \cap Clients
                 T == RowsOf(entry', made', op, clock - Day) \cap Inference(Clients)
      <4>3. IsFiniteSet(S) /\ IsFiniteSet(T) /\ T \in SUBSET S /\ S \subseteq Clients
        <5>1. S = RowsOf(entry', made', op, clock - Day) /\ T \in SUBSET S
          BY <4>1, <1>2
        <5> HIDE DEF T
        <5> QED BY <4>1, <5>1, FS_Subset
      <4> HIDE DEF S, T
      <4>4. SumFunctionOnSet(charge', T) <= SumFunctionOnSet(charge', S)
        BY <4>2, <4>3, SumLower
      <4> QED BY <4>4, <1>1, <1>2, <1>5 DEF after, Total, S, T
    <3> HIDE DEF after, then
    <3> QED BY <1>3, <3>2, <3>3, <3>4, CeilingTypes
  <2> QED BY <2>1, <2>2
<1>9. after(clock - Week, Clients) <= Policy[op].weekly
  BY <1>1, <1>2, <1>3, <1>4, <1>5, CeilingTypes DEF WithinOf, AllowedOf, after, then, r
<1>10. ASSUME NEW d \in Clients, Request[d].job # Nobody
      PROVE  after(0, Asking(Request[d].job)) <= Policy[op].perJob
  <2> DEFINE P == Asking(Request[d].job)
  <2>1. CASE op # r.operator \/ c \notin P
    <3>1. then(0, P) <= Policy[op].perJob
      BY <1>4, <1>10 DEF WithinOf, then
    <3> QED BY <1>2, <1>6, <2>1, <3>1, CeilingTypes
  <2>2. CASE op = r.operator /\ c \in P
    <3>1. r.job = Request[d].job
      BY <2>2 DEF Asking, r
    <3>2. then(0, P) + r.estimate <= Policy[op].perJob
      BY <1>4, <1>10, <2>2, <3>1 DEF AllowedOf, then, r
    <3>3. P \in SUBSET Clients /\ Policy[op].perJob \in Nat
      BY <1>2, CeilingTypes
    <3> HIDE DEF P
    <3>4. after(0, P) <= Policy[op].perJob
      BY <1>6, <3>2, <3>3
    <3> QED BY <3>4 DEF P
  <2> QED BY <2>1, <2>2
<1>11. ASSUME NEW d \in Clients, Request[d].job # Nobody, Request[d].agent # Nobody
       PROVE  after(0, AskingFor(Request[d].job, Request[d].agent)) <= Policy[op].perAgent
  <2> DEFINE P == AskingFor(Request[d].job, Request[d].agent)
  <2>1. CASE op # r.operator \/ c \notin P
    <3>1. then(0, P) <= Policy[op].perAgent
      BY <1>4, <1>11 DEF WithinOf, then
    <3> QED BY <1>2, <1>6, <2>1, <3>1, CeilingTypes
  <2>2. CASE op = r.operator /\ c \in P
    <3>1. r.job = Request[d].job /\ r.agent = Request[d].agent
      BY <2>2 DEF AskingFor, r
    <3>2. then(0, P) + r.estimate <= Policy[op].perAgent
      BY <1>4, <1>11, <2>2, <3>1 DEF AllowedOf, then, r
    <3> QED BY <1>2, <1>6, <3>2, CeilingTypes
  <2> QED BY <2>1, <2>2
<1>12. WithinOf(charge', entry', made', clock', op)
  BY <1>1, <1>7, <1>8, <1>9, <1>10, <1>11 DEF WithinOf, after
<1> QED BY <1>12, WithinMeans

\* A row of another operator leaves what a check allowed as it was.
LEMMA InsertAllowed ==
    ASSUME GuardTypeOK, GuardTypeOK', NEW c \in Clients, Commit(c), entry[c] = "none",
           NEW d \in Clients, Key(d) # Key(c), Allowed(d)
    PROVE  Allowed(d)'
<1>1. \A since : RowsOf(entry', made', Key(d), since) = RowsOf(entry, made, Key(d), since)
  BY DEF RowsOf, Commit, Insert, GuardTypeOK, Key
<1>2. \A since, P : Total(charge', entry', made', Key(d), since, P)
                      = Total(charge, entry, made, Key(d), since, P)
  <2> SUFFICES ASSUME NEW since, NEW P
               PROVE  Total(charge', entry', made', Key(d), since, P)
                        = Total(charge, entry, made, Key(d), since, P)
    OBVIOUS
  <2> DEFINE S == RowsOf(entry, made, Key(d), since) \cap P
  <2>1. /\ S \in SUBSET Clients
        /\ \A x \in S : charge[x] \in Nat /\ charge'[x] = charge[x]
    BY DEF RowsOf, Commit, Insert, GuardTypeOK, Key
  <2> HIDE DEF S
  <2>2. IsFiniteSet(S)
    BY <2>1, GuardAssumption, FS_Subset
  <2>3. SumFunctionOnSet(charge', S) = SumFunctionOnSet(charge, S)
    BY <2>1, <2>2, SumEqual
  <2> QED BY <1>1, <2>3 DEF Total, S
<1>3. called'[d] = called[d]
  BY DEF Commit
<1> QED BY <1>2, <1>3, AllowedMeans DEF AllowedOf, Key

\* While no transaction expired and no reply was lost: rows are where their calls
\* say, a call that passed its check is still allowed what it asks for, and every
\* operator is within its ceilings.
CeilingInv ==
    /\ RowsInv
    /\ \A c \in Clients : at[c] = "commit" => Allowed(c)
    /\ \A op \in DOMAIN Policy : Within(op)

LEMMA CeilingsInitially ==
    ASSUME GuardInit PROVE CeilingInv
<1>1. RowsInv /\ \A c \in Clients : at[c] # "commit"
  BY GuardAssumption DEF GuardInit, RowsInv, Requests
<1>2. ASSUME NEW op \in DOMAIN Policy PROVE Within(op)
  <2>1. \A since, P : Total(charge, entry, made, op, since, P) = 0
    <3>1. \A since, P : RowsOf(entry, made, op, since) \cap P = {}
      BY DEF RowsOf, GuardInit
    <3> QED BY <3>1, FS_EmptySet, SumUnfold DEF Total
  <2> QED BY <2>1, CeilingTypes, WithinMeans DEF WithinOf
<1> QED BY <1>1, <1>2 DEF CeilingInv

LEMMA CeilingStep ==
    ASSUME GuardTypeOK, GuardTypeOK', LockExcludes, EstimatesHold, CeilingInv,
           [GuardNext]_guardVars, NoneLost'
    PROVE  NoneLost /\ CeilingInv'
<1>1. /\ NoneLost /\ RowsInv /\ RowsInv'
      /\ LedgerLowers \/ \E c \in Clients : Commit(c)
  BY RowKept DEF CeilingInv
<1>2. CASE LedgerLowers
  <2>1. ASSUME NEW op \in DOMAIN Policy PROVE Within(op)'
    BY <1>2, LowerWithin DEF CeilingInv
  <2>2. ASSUME NEW c \in Clients, at'[c] = "commit" PROVE Allowed(c)'
    <3>1. Allowed(c) /\ called'[c] = called[c]
      <4>1. CASE at[c] = "commit"
        <5>1. called'[c] = called[c]
          BY <4>1 DEF GuardNext, ClientStep, guardVars, Call, Open, Acquire, Check, Commit, EndTransaction,
              Work, Reconcile, KeepEstimate, JobOver, TransactionExpires, PoolTimesOut,
              ReserveFails, ReconcileFails, JobOverFails, RunIsOver, ProcessDies, TimePasses, GuardTypeOK
        <5> QED BY <4>1, <5>1 DEF CeilingInv
      <4>2. CASE at[c] # "commit"
        <5>1. Check(c) /\ Allowed(c)
          BY <2>2, <4>2 DEF GuardNext, ClientStep, guardVars, Call, Open, Acquire, Check, Commit, EndTransaction,
              Work, Reconcile, KeepEstimate, JobOver, TransactionExpires, PoolTimesOut, Goto,
              ReserveFails, ReconcileFails, JobOverFails, RunIsOver, ProcessDies, TimePasses, GuardTypeOK
        <5> QED BY <5>1 DEF Check
      <4> QED BY <4>1, <4>2
    <3> QED BY <1>2, <3>1, LowerAllowed
  <2> QED BY <1>1, <2>1, <2>2 DEF CeilingInv
<1>3. ASSUME NEW c \in Clients, Commit(c) PROVE CeilingInv'
  <2>1. /\ entry[c] = "none" /\ called[c] <= clock /\ Allowed(c)
        /\ HoldsLock(c)
    BY <1>1, <1>3 DEF Commit, RowsInv, CeilingInv, HoldsLock
  <2>2. ASSUME NEW op \in DOMAIN Policy PROVE Within(op)'
    BY <1>3, <2>1, InsertWithin DEF CeilingInv
  <2>3. ASSUME NEW d \in Clients, at'[d] = "commit" PROVE Allowed(d)'
    <3>1. d # c /\ at[d] = "commit"
      BY <1>3, <2>3 DEF Commit, Goto, GuardTypeOK
    <3>2. Key(d) # Key(c)
      BY <1>1, <2>1, <3>1 DEF LockExcludes, HoldsLock, RowsInv
    <3> QED BY <1>3, <2>1, <3>1, <3>2, InsertAllowed DEF CeilingInv
  <2> QED BY <1>1, <2>2, <2>3 DEF CeilingInv
<1> QED BY <1>1, <1>2, <1>3

\* For any clients, processes, pools, requests and policies, and any faults other
\* than a transaction that expires or a reply that is lost: what is committed never
\* exceeds a ceiling, because a check and its insert exclude the other inserts of
\* the operator and every other step only lowers a sum.
THEOREM CeilingsAreHard == GuardSpec => []CeilingsHold
<1> DEFINE Inv == LockExcludes /\ (EstimatesHold /\ NoneLost => CeilingInv)
<1>1. GuardInit => Inv
  BY CeilingsInitially DEF GuardInit, LockExcludes, HoldsLock
<1>2. GuardTypeOK /\ GuardTypeOK' /\ Inv /\ [GuardNext]_guardVars => Inv'
  <2> SUFFICES ASSUME GuardTypeOK, GuardTypeOK', Inv, [GuardNext]_guardVars PROVE Inv'
    OBVIOUS
  <2>1. LockExcludes'
    BY LockStep
  <2>2. ASSUME EstimatesHold', NoneLost' PROVE CeilingInv'
    <3>1. EstimatesHold
      BY <2>2 DEF EstimatesHold
    <3>2. NoneLost
      <4>1. faults.expiry <= faults'.expiry /\ faults.lost <= faults'.lost
        BY DEF GuardNext, ClientStep, guardVars, Call, Open, Acquire, Check, Commit, EndTransaction, Fault,
              Work, Reconcile, KeepEstimate, JobOver, TransactionExpires, PoolTimesOut, Goto,
              ReserveFails, ReconcileFails, JobOverFails, RunIsOver, ProcessDies, TimePasses, GuardTypeOK
      <4> QED BY <2>2, <4>1 DEF NoneLost, GuardTypeOK
    <3> QED BY <2>2, <3>1, <3>2, CeilingStep
  <2> QED BY <2>1, <2>2
<1>3. Inv => CeilingsHold
  BY DEF CeilingInv, CeilingsHold, Within, Intact, NoneLost
<1> QED BY <1>1, <1>2, <1>3, GuardTypeCorrect, PTL DEF GuardSpec

(***************************************************************************)
(* The automation engine.                                                  *)
(***************************************************************************)
Mints    == {Verdict[j].mint : j \in Jobs}
Instants == Nat \cup {Never}
Terms    == [size : Nat, entry : Nat, peak : Nat, openedAt : Instants, closedAt : Instants]
OpenRows == [job : Jobs, mint : Mints, size : Nat]
Trades   == [job : Jobs, mint : Mints, pnl : Int, closedAt : Instants]
Peaks    == UNION {[S -> Nat] : S \in SUBSET Jobs}

\* What a call holds, by where it is.
Reads   == [at : {"reads"}, automation : Automations, job : Jobs, since : Nat,
            policy : Policies, active : BOOLEAN, resetAt : Instants,
            read : SUBSET {"open", "trades"}, open : SUBSET OpenRows, trades : SUBSET Trades]
Creates == [at : {"create"}, automation : Automations, job : Jobs, since : Nat,
            policy : Policies, price : Quotes]
Lists   == [at : {"list"}, automation : Automations, since : Nat, policy : Policies]
Marking == [at : {"mark"}, automation : Automations, since : Nat, policy : Policies,
            peaks : Peaks]
Notes   == [at : {"note"}, automation : Automations, since : Nat, policy : Policies,
            peaks : Peaks, note : Jobs]
Writes  == [at : {"write"}, automation : Automations, policy : Policies]

Typed ==
    /\ book \in [Jobs -> {"none", "open", "closed"}]
    /\ owner \in [Jobs -> Automations \cup {"nobody"}]
    /\ exit \in [Jobs -> Int]
    /\ noted \in [Jobs -> Nat]
    /\ terms \in [Jobs -> Terms]
    /\ policy \in [Automations -> Policies]
    /\ active \in [Automations -> BOOLEAN]
    /\ resetAt \in [Automations -> Instants]
    /\ now \in Nat
    /\ upsets \in Nat
    /\ evaluation \in [Evaluators -> {Idle} \cup Reads \cup Creates]
    /\ sweep \in [Sweepers -> {Idle} \cup Lists \cup Marking \cup Notes]
    /\ edit \in [Editors -> {Idle} \cup Writes]

\* A row's prices and instants go with its status.
RowsKept == \A j \in Jobs :
    /\ book[j] = "none" <=> terms[j] = NoTerms
    /\ book[j] # "none" =>
          /\ owner[j] \in Automations
          /\ terms[j].entry \in Quotes /\ terms[j].peak >= terms[j].entry
    /\ book[j] = "closed" <=> terms[j].closedAt # Never

\* One sweep, the one that closed the row, is about to note its exit.
NotesKept ==
    /\ \A j \in Jobs : noted[j] \in {0, 1} /\ (noted[j] = 1 => book[j] = "closed")
    /\ \A s \in Sweepers : sweep[s].at = "note" =>
          book[sweep[s].note] = "closed" /\ noted[sweep[s].note] = 0
    /\ \A s, t \in Sweepers :
          sweep[s].at = "note" /\ sweep[t].at = "note" /\ sweep[s].note = sweep[t].note => s = t

\* The peaks a sweep has read are those of rows, at or above their entries.
PeaksKept == \A s \in Sweepers : sweep[s].at \in {"mark", "note"} =>
    \A j \in DOMAIN sweep[s].peaks :
        book[j] # "none" /\ sweep[s].peaks[j] >= terms[j].entry

BookInv == Typed /\ RowsKept /\ NotesKept /\ PeaksKept

------------------------------------------------------------------------------
LEMMA MarksArePositive ==
    /\ Quotes \subseteq Nat /\ \A p \in Quotes : p > 0
    /\ \A j \in Jobs : Quoted(j) \subseteq Quotes
BY AutomationAssumption DEF Quotes, Quoted

LEMMA PnlIsInt ==
    ASSUME NEW size \in Nat, NEW paid \in Nat, paid > 0, NEW price \in Nat
    PROVE  Pnl(size, paid, price) \in Int
BY DEF Pnl

LEMMA BookInitially == Init => BookInv
<1> SUFFICES ASSUME Init PROVE BookInv
  OBVIOUS
<1> USE AutomationAssumption DEF Init, Idle
<1>1. Typed
  BY DEF Typed, NoTerms, Terms, Instants, Never
<1>2. RowsKept /\ NotesKept /\ PeaksKept
  BY DEF RowsKept, NotesKept, PeaksKept, NoTerms, Never
<1> QED BY <1>1, <1>2 DEF BookInv

LEMMA SnapshotsTyped ==
    ASSUME Typed, NEW a \in Automations, NEW since
    PROVE  OpenPositions(a) \in SUBSET OpenRows /\ RecentTrades(a, since) \in SUBSET Trades
BY DEF Typed, OpenPositions, OpenJobs, RecentTrades, OpenRows, Trades, Terms, Mints

\* Every variable keeps its type.
LEMMA TypedStep ==
    ASSUME BookInv, [Next]_vars
    PROVE  Typed'
<1> USE AutomationAssumption DEF BookInv, Typed, positionVars, ownerVars
<1>1. ASSUME NEW e \in Evaluators, NEW a \in Automations, NEW j \in Jobs, Evaluate(e, a, j) PROVE Typed'
  <2>1. [at |-> "reads", automation |-> a, job |-> j, since |-> now,
                     policy |-> policy[a], active |-> active[a], resetAt |-> resetAt[a],
                     read |-> {}, open |-> {}, trades |-> {}] \in Reads
    BY DEF Reads
  <2> QED BY <1>1, <2>1 DEF Evaluate, Evaluates, OnlyEvaluation
<1>2. ASSUME NEW e \in Evaluators, ReadOpen(e) PROVE Typed'
  <2>1. evaluation[e] \in Reads
    BY <1>2 DEF ReadOpen, Idle, Creates
  <2>2. OpenPositions(evaluation[e].automation) \in SUBSET OpenRows
    BY <2>1, SnapshotsTyped DEF Reads
  <2>3. [evaluation[e] EXCEPT !.read = @ \cup {"open"},
                              !.open = OpenPositions(evaluation[e].automation)] \in Reads
    BY <2>1, <2>2 DEF Reads
  <2> QED BY <1>2, <2>3 DEF ReadOpen, Evaluates, OnlyEvaluation
<1>3. ASSUME NEW e \in Evaluators, ReadTrades(e) PROVE Typed'
  <2>1. evaluation[e] \in Reads
    BY <1>3 DEF ReadTrades, Idle, Creates
  <2>2. RecentTrades(evaluation[e].automation, evaluation[e].since) \in SUBSET Trades
    BY <2>1, SnapshotsTyped DEF Reads
  <2>3. [evaluation[e] EXCEPT !.read = @ \cup {"trades"},
           !.trades = RecentTrades(evaluation[e].automation, evaluation[e].since)] \in Reads
    BY <2>1, <2>2 DEF Reads
  <2> QED BY <1>3, <2>3 DEF ReadTrades, Evaluates, OnlyEvaluation
<1>4. ASSUME NEW e \in Evaluators, Decide(e) PROVE Typed'
  <2>1. evaluation[e] \in Reads
    BY <1>4 DEF Decide, Ready, Idle, Creates
  <2>2. \A price \in Quotes :
          [at |-> "create", automation |-> evaluation[e].automation, job |-> evaluation[e].job,
           since |-> evaluation[e].since, policy |-> evaluation[e].policy, price |-> price] \in Creates
    BY <2>1 DEF Reads, Creates
  <2>3. evaluation[e].job \in Jobs
    BY <2>1 DEF Reads
  <2> QED BY <1>4, <2>2, <2>3, MarksArePositive DEF Decide, Evaluates, OnlyEvaluation
<1>5. ASSUME NEW e \in Evaluators, Refuse(e) PROVE Typed'
  BY <1>5 DEF Refuse, Evaluates, OnlyEvaluation
<1>6. ASSUME NEW e \in Evaluators, Create(e) PROVE Typed'
  <2> DEFINE c == evaluation[e]
             row == [size |-> c.policy["sizeUsd"], entry |-> c.price, peak |-> c.price,
                     openedAt |-> c.since, closedAt |-> Never]
  <2>1. c \in Creates
    BY <1>6 DEF Create, Idle, Reads
  <2>2. /\ c.policy["sizeUsd"] \in Nat /\ c.price \in Nat /\ c.since \in Nat
        /\ c.automation \in Automations /\ c.job \in Jobs
    BY <2>1, MarksArePositive DEF Creates, Policies, PolicyFields
  <2>3. row \in Terms
    BY <2>2 DEF Terms, Instants
  <2> QED BY <1>6, <2>2, <2>3 DEF Create, Evaluates
<1>7. ASSUME NEW s \in Sweepers, NEW a \in Automations, Sweep(s, a) PROVE Typed'
  <2>1. [at |-> "list", automation |-> a, since |-> now, policy |-> policy[a]] \in Lists
    BY DEF Lists
  <2> QED BY <1>7, <2>1 DEF Sweep, Sweeps
<1>8. ASSUME NEW s \in Sweepers, List(s) PROVE Typed'
  <2> DEFINE c == sweep[s]
  <2>1. c \in Lists
    BY <1>8 DEF List, Idle, Marking, Notes
  <2>2. [j \in OpenJobs(c.automation) |-> terms[j].peak] \in Peaks
    <3>1. OpenJobs(c.automation) \in SUBSET Jobs
      BY DEF OpenJobs
    <3>2. \A j \in Jobs : terms[j].peak \in Nat
      BY DEF Terms
    <3>3. [j \in OpenJobs(c.automation) |-> terms[j].peak] \in [OpenJobs(c.automation) -> Nat]
      BY <3>1, <3>2
    <3> QED BY <3>1, <3>3 DEF Peaks
  <2>3. [at |-> "mark", automation |-> c.automation, since |-> c.since,
                  policy |-> c.policy,
                  peaks |-> [j \in OpenJobs(c.automation) |-> terms[j].peak]] \in Marking
    BY <2>1, <2>2 DEF Lists, Marking
  <2> QED BY <1>8, <2>3 DEF List, Sweeps
<1>9. ASSUME NEW c \in Marking, NEW j PROVE Without(c.peaks, j) \in Peaks /\ Marked(c, j) \in Marking
  <2>1. Without(c.peaks, j) \in Peaks
    <3>1. c.peaks \in Peaks
      BY DEF Marking
    <3>2. PICK S \in SUBSET Jobs : c.peaks \in [S -> Nat]
      BY <3>1 DEF Peaks
    <3>3. Without(c.peaks, j) \in [S \ {j} -> Nat]
      BY <3>2 DEF Without
    <3> QED BY <3>3 DEF Peaks
  <2> QED BY <2>1 DEF Marked, Marking
<1>10. ASSUME NEW s \in Sweepers, Unpriced(s) PROVE Typed'
  <2>1. sweep[s] \in Marking
    BY <1>10 DEF Unpriced, Idle, Lists, Notes
  <2> QED BY <1>9, <1>10, <2>1 DEF Unpriced, Sweeps
<1>11. ASSUME NEW s \in Sweepers, NEW j \in Jobs, NEW price \in Quotes, Hold(s, j, price) PROVE Typed'
  <2>1. sweep[s] \in Marking
    BY <1>11 DEF Hold, Idle, Lists, Notes
  <2>2. PeakAfter(sweep[s].peaks[j], price, terms[j].peak) \in Nat
    BY MarksArePositive DEF PeakAfter, Terms
  <2>3. [terms[j] EXCEPT !.peak = PeakAfter(sweep[s].peaks[j], price, @)] \in Terms
    BY <2>2 DEF Terms
  <2> QED BY <1>9, <1>11, <2>1, <2>3, SMTT(40) DEF Hold, Sweeps
<1>12. ASSUME NEW s \in Sweepers, NEW j \in Jobs, NEW price \in Quotes, Close(s, j, price) PROVE Typed'
  <2> DEFINE c == sweep[s]
  <2>1. c \in Marking
    BY <1>12 DEF Close, Idle, Lists, Notes
  <2>2. CASE StillOpen(j)
    <3>1. Pnl(terms[j].size, terms[j].entry, price) \in Int
      BY <2>2, PnlIsInt, MarksArePositive DEF StillOpen, RowsKept, Terms
    <3>2. [terms[j] EXCEPT !.closedAt = c.since] \in Terms
      <4>1. terms[j] \in Terms /\ c.since \in Instants
        BY <2>1 DEF Marking, Instants
      <4> HIDE DEF c
      <4> QED BY <4>1 DEF Terms
    <3>3. [at |-> "note", automation |-> c.automation, since |-> c.since,
           policy |-> c.policy, peaks |-> Without(c.peaks, j), note |-> j] \in Notes
      BY <1>9, <2>1 DEF Notes, Marking
    <3> QED BY <1>12, <2>2, <3>1, <3>2, <3>3 DEF Close, Sweeps
  <2>3. CASE ~StillOpen(j)
    BY <1>9, <1>12, <2>1, <2>3 DEF Close, Sweeps
  <2> QED BY <2>2, <2>3
<1>13. ASSUME NEW s \in Sweepers, NoteClosed(s) PROVE Typed'
  <2> DEFINE c == sweep[s]
  <2>1. c \in Notes
    BY <1>13 DEF NoteClosed, Idle, Lists, Marking
  <2>2. [at |-> "mark", automation |-> c.automation, since |-> c.since,
                  policy |-> c.policy, peaks |-> c.peaks] \in Marking
    BY <2>1 DEF Notes, Marking
  <2>3. noted' \in [Jobs -> Nat]
    BY <1>13, <2>1 DEF NoteClosed, Notes
  <2> QED BY <1>13, <2>2, <2>3 DEF NoteClosed, Sweeps
<1>14. ASSUME NEW s \in Sweepers, Finish(s) PROVE Typed'
  BY <1>14 DEF Finish, Sweeps
<1>15. ASSUME NEW d \in Editors, NEW a \in Automations, NEW new \in Policies, Load(d, a, new) PROVE Typed'
  <2>1. [at |-> "write", automation |-> a, policy |-> new] \in Writes
    BY DEF Writes
  <2> QED BY <1>15, <2>1 DEF Load, Upset
<1>16. ASSUME NEW d \in Editors, EditStep(d) PROVE Typed'
  <2>1. ASSUME NEW a \in Automations, NEW p \in Patches, Patch(d, a, p) PROVE Typed'
    <3>1. Overlay(p) \in Policies
      BY DEF Overlay, Policies
    <3> QED BY <1>15, <2>1, <3>1 DEF Patch
  <2>2. ASSUME NEW a \in Automations, Rename(d, a) PROVE Typed'
    BY <1>15, <2>2 DEF Rename
  <2>3. CASE Write(d)
    <3>1. edit[d] \in Writes
      BY <2>3 DEF Write, Idle
    <3> QED BY <2>3, <3>1 DEF Write, Writes
  <2> QED BY <1>16, <2>1, <2>2, <2>3 DEF EditStep
<1>17. ASSUME NEW a \in Automations, SetActive(a) \/ ResetBreaker(a) PROVE Typed'
  <2>1. active' \in [Automations -> BOOLEAN]
    BY <1>17, Zenon DEF SetActive, ResetBreaker
  <2>2. resetAt' \in [Automations -> Instants] /\ upsets' \in Nat
    BY <1>17 DEF SetActive, ResetBreaker, Upset, Instants
  <2> QED BY <1>17, <2>1, <2>2 DEF SetActive, ResetBreaker
<1>18. CASE Tick
  BY <1>18 DEF Tick
<1>19. CASE Lost
  BY <1>19 DEF Lost, Upset, Evaluates, Sweeps
<1>20. CASE UNCHANGED vars
  BY <1>20 DEF vars
<1> QED BY <1>1, <1>2, <1>3, <1>4, <1>5, <1>6, <1>7, <1>8, <1>10, <1>11, <1>12, <1>13, <1>14, <1>16, <1>17, <1>18, <1>19, <1>20, MarksArePositive DEF Next, EvaluateStep, SweepStep

\* A step on the calls alone leaves the rows as they are.
LEMMA RowsStep ==
    ASSUME BookInv, [Next]_vars
    PROVE  RowsKept'
<1> USE AutomationAssumption DEF BookInv, RowsKept
<1>1. ASSUME UNCHANGED <<book, owner, terms>> PROVE RowsKept'
  BY <1>1
<1>2. ASSUME NEW e \in Evaluators, Create(e) PROVE RowsKept'
  <2> DEFINE c == evaluation[e]
             row == [size |-> c.policy["sizeUsd"], entry |-> c.price, peak |-> c.price,
                     openedAt |-> c.since, closedAt |-> Never]
  <2>1. c \in Creates
    BY <1>2 DEF Create, Idle, Reads, Typed
  <2>2. c.price \in Quotes /\ c.price \in Nat /\ c.price > 0 /\ c.automation \in Automations /\ c.job \in Jobs
    BY <2>1, MarksArePositive DEF Creates
  <2>3. CASE book[c.job] = "none"
    <3>1. /\ book' = [book EXCEPT ![c.job] = "open"]
          /\ owner' = [owner EXCEPT ![c.job] = c.automation]
          /\ terms' = [terms EXCEPT ![c.job] = row]
      BY <1>2, <2>3 DEF Create
    <3>2. row # NoTerms /\ row.entry = c.price /\ row.peak = c.price /\ row.closedAt = Never
      BY <2>2 DEF NoTerms
    <3> HIDE DEF row
    <3>3. /\ \A j \in Jobs : j # c.job => book'[j] = book[j] /\ owner'[j] = owner[j] /\ terms'[j] = terms[j]
          /\ book'[c.job] = "open" /\ owner'[c.job] = c.automation /\ terms'[c.job] = row
      BY <2>2, <3>1 DEF Typed
    <3> HIDE DEF c
    <3> QED BY <2>2, <3>2, <3>3
  <2>4. CASE book[c.job] # "none"
    BY <1>1, <1>2, <2>4 DEF Create
  <2> QED BY <2>3, <2>4
<1>3. ASSUME NEW s \in Sweepers, NEW j \in Jobs, NEW price \in Quotes, Hold(s, j, price) PROVE RowsKept'
  <2> DEFINE c == sweep[s]
             peak == PeakAfter(c.peaks[j], price, terms[j].peak)
  <2>1. /\ book[j] # "none" /\ c.peaks[j] >= terms[j].entry
        /\ terms[j].entry \in Nat /\ terms[j].peak >= terms[j].entry
        /\ price \in Nat /\ terms[j].peak \in Nat
    BY <1>3, MarksArePositive DEF Hold, PeaksKept, Typed, Terms
  <2>2. c.peaks[j] \in Nat
    <3>1. c \in Marking /\ j \in DOMAIN c.peaks
      BY <1>3 DEF Hold, Idle, Lists, Notes, Typed
    <3>2. c.peaks \in Peaks
      BY <3>1 DEF Marking
    <3>3. PICK S \in SUBSET Jobs : c.peaks \in [S -> Nat]
      BY <3>2 DEF Peaks
    <3> HIDE DEF c
    <3> QED BY <3>1, <3>3
  <2>3. peak \in Nat /\ peak >= terms[j].entry
    BY <2>1, <2>2 DEF PeakAfter
  <2>4. UNCHANGED <<book, owner>> /\ terms' = [terms EXCEPT ![j].peak = peak]
    BY <1>3 DEF Hold
  <2> HIDE DEF peak, c
  <2>5. /\ \A i \in Jobs : i # j => terms'[i] = terms[i]
        /\ terms'[j].entry = terms[j].entry /\ terms'[j].closedAt = terms[j].closedAt
        /\ terms'[j].peak = peak
    BY <2>4 DEF Typed, Terms
  <2>6. terms'[j] # NoTerms
    BY <2>1, <2>5, MarksArePositive DEF NoTerms
  <2> QED BY <2>1, <2>3, <2>4, <2>5, <2>6
<1>4. ASSUME NEW s \in Sweepers, NEW j \in Jobs, NEW price \in Quotes, Close(s, j, price) PROVE RowsKept'
  <2> DEFINE c == sweep[s]
  <2>1. CASE StillOpen(j)
    <3>1. c \in Marking
      BY <1>4 DEF Close, Idle, Lists, Notes, Typed
    <3>2. c.since \in Nat
      BY <3>1 DEF Marking
    <3>3. /\ book' = [book EXCEPT ![j] = "closed"] /\ UNCHANGED owner
          /\ terms' = [terms EXCEPT ![j].closedAt = c.since]
      BY <1>4, <2>1 DEF Close
    <3> HIDE DEF c
    <3>4. /\ \A i \in Jobs : i # j => terms'[i] = terms[i] /\ book'[i] = book[i]
          /\ terms'[j].entry = terms[j].entry /\ terms'[j].closedAt = c.since
          /\ terms'[j].peak = terms[j].peak /\ book'[j] = "closed"
      BY <3>3 DEF Typed, Terms
    <3>5. terms'[j] # NoTerms /\ terms'[j].closedAt # Never
      BY <3>2, <3>4 DEF NoTerms, Never
    <3> QED BY <2>1, <3>3, <3>4, <3>5 DEF StillOpen
  <2>2. CASE ~StillOpen(j)
    BY <1>1, <1>4, <2>2 DEF Close
  <2> QED BY <2>1, <2>2
<1>5. ASSUME NEW e \in Evaluators,
             \/ \E a \in Automations, j \in Jobs : Evaluate(e, a, j)
             \/ ReadOpen(e) \/ ReadTrades(e) \/ Decide(e) \/ Refuse(e)
      PROVE  RowsKept'
  BY <1>1, <1>5 DEF Evaluate, ReadOpen, ReadTrades, Decide, Refuse, OnlyEvaluation, positionVars
<1>6. ASSUME NEW s \in Sweepers,
             \/ \E a \in Automations : Sweep(s, a)
             \/ List(s) \/ Unpriced(s) \/ NoteClosed(s) \/ Finish(s)
      PROVE  RowsKept'
  BY <1>1, <1>6 DEF Sweep, List, Unpriced, NoteClosed, Finish, positionVars
<1>7. ASSUME NEW d \in Editors, EditStep(d) PROVE RowsKept'
  BY <1>1, <1>7 DEF EditStep, Patch, Rename, Load, Write, positionVars
<1>8. ASSUME NEW a \in Automations, SetActive(a) \/ ResetBreaker(a) PROVE RowsKept'
  BY <1>1, <1>8 DEF SetActive, ResetBreaker, positionVars
<1>9. CASE Tick \/ Lost \/ UNCHANGED vars
  BY <1>1, <1>9 DEF Tick, Lost, vars, positionVars
<1> QED BY <1>2, <1>3, <1>4, <1>5, <1>6, <1>7, <1>8, <1>9, MarksArePositive DEF Next, EvaluateStep, SweepStep

\* Who may change what the sweeps hold, and how the rows may move under them.
LEMMA OtherSteps ==
    ASSUME BookInv, Next
    PROVE  \/ \E s \in Sweepers : SweepStep(s)
           \/ /\ \A s \in Sweepers : sweep'[s] = sweep[s] \/ sweep'[s] = Idle
              /\ UNCHANGED noted
              /\ \A j \in Jobs : \/ book'[j] = book[j] /\ terms'[j] = terms[j]
                                 \/ book[j] = "none" /\ book'[j] = "open"
<1> USE DEF BookInv, Typed, positionVars
<1>1. ASSUME NEW e \in Evaluators, Create(e)
      PROVE  /\ UNCHANGED <<sweep, noted>>
             /\ \A j \in Jobs : \/ book'[j] = book[j] /\ terms'[j] = terms[j]
                                \/ book[j] = "none" /\ book'[j] = "open"
  <2>1. evaluation[e].job \in Jobs
    BY <1>1 DEF Create, Idle, Reads, Creates
  <2> QED BY <1>1, <2>1 DEF Create
<1>2. ASSUME NEW e \in Evaluators,
             \/ \E a \in Automations, j \in Jobs : Evaluate(e, a, j)
             \/ ReadOpen(e) \/ ReadTrades(e) \/ Decide(e) \/ Refuse(e)
      PROVE  UNCHANGED <<sweep, noted, book, terms>>
  BY <1>2 DEF Evaluate, ReadOpen, ReadTrades, Decide, Refuse, OnlyEvaluation
<1>3. ASSUME NEW d \in Editors, EditStep(d) PROVE UNCHANGED <<sweep, noted, book, terms>>
  BY <1>3 DEF EditStep, Patch, Rename, Load, Write
<1>4. ASSUME NEW a \in Automations, SetActive(a) \/ ResetBreaker(a)
      PROVE  UNCHANGED <<sweep, noted, book, terms>>
  BY <1>4 DEF SetActive, ResetBreaker
<1>5. CASE Tick
  BY <1>5 DEF Tick
<1>6. CASE Lost
  <2>1. UNCHANGED <<noted, book, terms>>
    BY <1>6 DEF Lost
  <2>2. \A s \in Sweepers : sweep'[s] = sweep[s] \/ sweep'[s] = Idle
    BY <1>6 DEF Lost, Sweeps
  <2> QED BY <2>1, <2>2
<1> QED BY <1>1, <1>2, <1>3, <1>4, <1>5, <1>6 DEF Next, EvaluateStep

\* What the steps of a sweep do to its own call, and to the rows.
LEMMA SweepSteps ==
    ASSUME BookInv, NEW s \in Sweepers, SweepStep(s)
    PROVE  /\ \A t \in Sweepers : t # s => sweep'[t] = sweep[t]
           /\ \/ sweep'[s].at \in {"idle", "list"} /\ UNCHANGED <<noted, book, terms>>
              \/ List(s)
              \/ /\ sweep[s].at = "mark" /\ sweep'[s].at = "mark"
                 /\ \A i \in DOMAIN sweep'[s].peaks :
                       i \in DOMAIN sweep[s].peaks /\ sweep'[s].peaks[i] = sweep[s].peaks[i]
                 /\ UNCHANGED <<noted, book>>
                 /\ \A j \in Jobs : terms'[j].entry = terms[j].entry
              \/ /\ sweep[s].at = "mark" /\ sweep'[s].at = "note"
                 /\ \A i \in DOMAIN sweep'[s].peaks :
                       i \in DOMAIN sweep[s].peaks /\ sweep'[s].peaks[i] = sweep[s].peaks[i]
                 /\ UNCHANGED noted
                 /\ sweep'[s].note \in Jobs /\ book[sweep'[s].note] = "open"
                 /\ book' = [book EXCEPT ![sweep'[s].note] = "closed"]
                 /\ \A j \in Jobs : terms'[j].entry = terms[j].entry
              \/ /\ sweep[s].at = "note" /\ sweep'[s].at = "mark"
                 /\ sweep'[s].peaks = sweep[s].peaks
                 /\ noted' = [noted EXCEPT ![sweep[s].note] = @ + 1]
                 /\ sweep[s].note \in Jobs
                 /\ UNCHANGED <<book, terms>>
<1> DEFINE c == sweep[s]
<1> USE DEF BookInv, Typed, positionVars
<1>1. ASSUME NEW j \in Jobs, c \in Marking, c.at = "mark"
      PROVE  /\ Marked(c, j).at = "mark" /\ Marked(c, j).peaks = Without(c.peaks, j)
             /\ \A i \in DOMAIN Without(c.peaks, j) : i \in DOMAIN c.peaks /\ Without(c.peaks, j)[i] = c.peaks[i]
  BY <1>1 DEF Marked, Without, Marking
<1>2. c.at = "mark" => c \in Marking
  BY DEF Idle, Lists, Notes
<1>3. ASSUME NEW a \in Automations, Sweep(s, a) PROVE sweep'[s].at = "list" /\ UNCHANGED <<noted, book, terms>>
      /\ \A t \in Sweepers : t # s => sweep'[t] = sweep[t]
  BY <1>3 DEF Sweep, Sweeps
<1>4. ASSUME List(s) PROVE \A t \in Sweepers : t # s => sweep'[t] = sweep[t]
  BY <1>4 DEF List, Sweeps
<1>5. ASSUME Finish(s) PROVE sweep'[s].at = "idle" /\ UNCHANGED <<noted, book, terms>>
      /\ \A t \in Sweepers : t # s => sweep'[t] = sweep[t]
  BY <1>5 DEF Finish, Sweeps, Idle
<1>6. ASSUME Unpriced(s)
      PROVE  /\ c.at = "mark" /\ UNCHANGED <<noted, book, terms>>
             /\ \E j \in Jobs : sweep' = [sweep EXCEPT ![s] = Marked(c, j)]
  <2>1. c \in Marking /\ c.at = "mark"
    BY <1>2, <1>6 DEF Unpriced
  <2>2. DOMAIN c.peaks \subseteq Jobs
    BY <2>1 DEF Marking, Peaks
  <2> QED BY <1>6, <2>1, <2>2 DEF Unpriced, Sweeps
<1>7. ASSUME NEW j \in Jobs, NEW price \in Quotes, Hold(s, j, price)
      PROVE  /\ c.at = "mark" /\ UNCHANGED <<noted, book>>
             /\ sweep' = [sweep EXCEPT ![s] = Marked(c, j)]
             /\ \A i \in Jobs : terms'[i].entry = terms[i].entry
  <2>1. terms' = [terms EXCEPT ![j].peak = PeakAfter(c.peaks[j], price, @)]
    BY <1>7 DEF Hold
  <2>2. \A i \in Jobs : terms'[i].entry = terms[i].entry
    BY <2>1 DEF Terms
  <2> QED BY <1>7, <2>2 DEF Hold, Sweeps
<1>8. ASSUME NEW j \in Jobs, NEW price \in Quotes, Close(s, j, price), ~StillOpen(j)
      PROVE  /\ c.at = "mark" /\ UNCHANGED <<noted, book, terms>>
             /\ sweep' = [sweep EXCEPT ![s] = Marked(c, j)]
  BY <1>8 DEF Close, Sweeps
<1>9. ASSUME NEW j \in Jobs, NEW price \in Quotes, Close(s, j, price), StillOpen(j)
      PROVE  /\ c.at = "mark" /\ sweep'[s].at = "note" /\ sweep'[s].note = j
             /\ sweep'[s].peaks = Without(c.peaks, j)
             /\ book[j] = "open" /\ book' = [book EXCEPT ![j] = "closed"]
             /\ UNCHANGED noted
             /\ \A t \in Sweepers : t # s => sweep'[t] = sweep[t]
             /\ \A i \in Jobs : terms'[i].entry = terms[i].entry
  <2>1. terms' = [terms EXCEPT ![j].closedAt = c.since]
    BY <1>9 DEF Close
  <2>2. \A i \in Jobs : terms'[i].entry = terms[i].entry
    BY <2>1 DEF Terms
  <2> QED BY <1>9, <2>2 DEF Close, Sweeps, StillOpen
<1>10. ASSUME NoteClosed(s)
       PROVE  /\ c.at = "note" /\ sweep'[s].at = "mark" /\ sweep'[s].peaks = c.peaks
              /\ noted' = [noted EXCEPT ![c.note] = @ + 1] /\ c.note \in Jobs
              /\ UNCHANGED <<book, terms>>
              /\ \A t \in Sweepers : t # s => sweep'[t] = sweep[t]
  <2>1. c \in Notes
    BY <1>10 DEF NoteClosed, Idle, Lists, Marking
  <2> QED BY <1>10, <2>1 DEF NoteClosed, Sweeps, Notes
<1>11. ASSUME c.at = "mark", NEW j \in Jobs, sweep' = [sweep EXCEPT ![s] = Marked(c, j)]
       PROVE  /\ sweep'[s].at = "mark" /\ \A t \in Sweepers : t # s => sweep'[t] = sweep[t]
              /\ \A i \in DOMAIN sweep'[s].peaks :
                    i \in DOMAIN c.peaks /\ sweep'[s].peaks[i] = c.peaks[i]
  BY <1>1, <1>2, <1>11
<1>12. ASSUME NEW j \in Jobs, c.at = "mark", sweep'[s].peaks = Without(c.peaks, j)
       PROVE  \A i \in DOMAIN sweep'[s].peaks :
                    i \in DOMAIN c.peaks /\ sweep'[s].peaks[i] = c.peaks[i]
  BY <1>1, <1>2, <1>12
<1> HIDE DEF c, BookInv, Typed
<1>13. CASE Unpriced(s)
  BY <1>6, <1>11, <1>13 DEF c
<1>14. ASSUME NEW j \in Jobs, NEW price \in Quotes, Hold(s, j, price)
       PROVE  /\ c.at = "mark" /\ sweep'[s].at = "mark"
              /\ \A t \in Sweepers : t # s => sweep'[t] = sweep[t]
              /\ \A i \in DOMAIN sweep'[s].peaks :
                    i \in DOMAIN c.peaks /\ sweep'[s].peaks[i] = c.peaks[i]
              /\ UNCHANGED <<noted, book>>
              /\ \A i \in Jobs : terms'[i].entry = terms[i].entry
  BY <1>7, <1>11, <1>14
<1>15. ASSUME NEW j \in Jobs, NEW price \in Quotes, Close(s, j, price), ~StillOpen(j)
       PROVE  /\ c.at = "mark" /\ sweep'[s].at = "mark"
              /\ \A t \in Sweepers : t # s => sweep'[t] = sweep[t]
              /\ \A i \in DOMAIN sweep'[s].peaks :
                    i \in DOMAIN c.peaks /\ sweep'[s].peaks[i] = c.peaks[i]
              /\ UNCHANGED <<noted, book, terms>>
  BY <1>8, <1>11, <1>15
<1>16. ASSUME NEW j \in Jobs, NEW price \in Quotes, Close(s, j, price), StillOpen(j)
       PROVE  /\ \A i \in DOMAIN sweep'[s].peaks :
                    i \in DOMAIN c.peaks /\ sweep'[s].peaks[i] = c.peaks[i]
  BY <1>9, <1>12, <1>16
<1>17. CASE \E j \in Jobs, price \in Quotes : Hold(s, j, price)
  BY <1>14, <1>17 DEF c
<1>18. CASE \E j \in Jobs, price \in Quotes : Close(s, j, price)
  <2>1. PICK j \in Jobs, price \in Quotes : Close(s, j, price)
    BY <1>18
  <2>2. CASE StillOpen(j)
    BY <1>9, <1>16, <2>1, <2>2 DEF c
  <2>3. CASE ~StillOpen(j)
    BY <1>15, <2>1, <2>3 DEF c
  <2> QED BY <2>2, <2>3
<1>19. CASE NoteClosed(s)
  BY <1>10, <1>19 DEF c
<1> QED BY <1>3, <1>4, <1>5, <1>13, <1>17, <1>18, <1>19, MarksArePositive DEF SweepStep

LEMMA NotesStep ==
    ASSUME BookInv, [Next]_vars
    PROVE  NotesKept'
<1> USE DEF NotesKept
<1>a. Typed /\ NotesKept
  BY DEF BookInv
<1>b. /\ book \in [Jobs -> {"none", "open", "closed"}] /\ noted \in [Jobs -> Nat]
      /\ \A s \in Sweepers : sweep[s].at = "note" => sweep[s].note \in Jobs
  BY <1>a DEF Typed, Idle, Lists, Marking, Notes
<1>1. CASE /\ \A s \in Sweepers : sweep'[s] = sweep[s] \/ sweep'[s] = Idle
           /\ UNCHANGED noted
           /\ \A j \in Jobs : \/ book'[j] = book[j] /\ terms'[j] = terms[j]
                              \/ book[j] = "none" /\ book'[j] = "open"
  <2>1. Idle.at # "note"
    BY DEF Idle
  <2> HIDE DEF Idle
  <2> QED BY <1>a, <1>b, <1>1, <2>1
<1>2. ASSUME NEW s \in Sweepers, SweepStep(s) PROVE NotesKept'
  <2>1. \A t \in Sweepers : t # s => sweep'[t] = sweep[t]
    BY <1>2, SweepSteps
  <2>2. CASE sweep'[s].at \in {"idle", "list"} /\ UNCHANGED <<noted, book, terms>>
    BY <1>a, <2>1, <2>2
  <2>3. CASE List(s)
    <3>1. sweep'[s].at = "mark" /\ UNCHANGED <<noted, book>>
      BY <1>a, <2>3 DEF List, Sweeps, positionVars, Typed
    <3> QED BY <1>a, <2>1, <3>1
  <2>4. CASE sweep'[s].at = "mark" /\ UNCHANGED <<noted, book>>
    BY <1>a, <2>1, <2>4
  <2>5. CASE /\ sweep'[s].at = "note" /\ UNCHANGED noted
             /\ sweep'[s].note \in Jobs /\ book[sweep'[s].note] = "open"
             /\ book' = [book EXCEPT ![sweep'[s].note] = "closed"]
    BY <1>a, <1>b, <2>1, <2>5
  <2>6. CASE /\ sweep[s].at = "note" /\ sweep'[s].at = "mark"
             /\ noted' = [noted EXCEPT ![sweep[s].note] = @ + 1]
             /\ sweep[s].note \in Jobs /\ UNCHANGED book
    BY <1>a, <1>b, <2>1, <2>6
  <2> QED BY <1>2, <2>2, <2>3, <2>4, <2>5, <2>6, SweepSteps
<1>3. CASE UNCHANGED vars
  BY <1>a, <1>3 DEF vars, positionVars
<1> QED BY <1>1, <1>2, <1>3, OtherSteps

LEMMA PeaksStep ==
    ASSUME BookInv, [Next]_vars
    PROVE  PeaksKept'
<1> USE DEF PeaksKept
<1>a. Typed /\ PeaksKept /\ RowsKept
  BY DEF BookInv
<1>b. /\ book \in [Jobs -> {"none", "open", "closed"}]
      /\ \A s \in Sweepers : sweep[s].at \in {"mark", "note"} => DOMAIN sweep[s].peaks \subseteq Jobs
  BY <1>a DEF Typed, Idle, Lists, Marking, Notes, Peaks
<1>1. CASE /\ \A s \in Sweepers : sweep'[s] = sweep[s] \/ sweep'[s] = Idle
           /\ UNCHANGED noted
           /\ \A j \in Jobs : \/ book'[j] = book[j] /\ terms'[j] = terms[j]
                              \/ book[j] = "none" /\ book'[j] = "open"
  <2>1. Idle.at \notin {"mark", "note"}
    BY DEF Idle
  <2> SUFFICES ASSUME NEW s \in Sweepers, sweep'[s].at \in {"mark", "note"}, NEW j \in DOMAIN sweep'[s].peaks
               PROVE  book'[j] # "none" /\ sweep'[s].peaks[j] >= terms'[j].entry
    OBVIOUS
  <2>2. sweep'[s] = sweep[s]
    BY <1>1, <2>1
  <2>3. j \in Jobs /\ book[j] # "none" /\ sweep[s].peaks[j] >= terms[j].entry
    BY <1>a, <1>b, <2>2
  <2> QED BY <1>1, <2>2, <2>3
<1>2. ASSUME NEW s \in Sweepers, SweepStep(s) PROVE PeaksKept'
  <2>1. \A t \in Sweepers : t # s => sweep'[t] = sweep[t]
    BY <1>2, SweepSteps
  <2>2. CASE sweep'[s].at \in {"idle", "list"} /\ UNCHANGED <<noted, book, terms>>
    BY <1>a, <2>1, <2>2
  <2>3. CASE List(s)
    <3>1. /\ sweep'[s].peaks = [j \in OpenJobs(sweep[s].automation) |-> terms[j].peak]
          /\ UNCHANGED <<book, terms>>
      BY <1>a, <2>3 DEF List, Sweeps, positionVars, Typed
    <3>2. \A j \in DOMAIN sweep'[s].peaks : book[j] # "none" /\ sweep'[s].peaks[j] >= terms[j].entry
      BY <1>a, <3>1 DEF OpenJobs, RowsKept
    <3> QED BY <1>a, <2>1, <3>1, <3>2
  <2>4. CASE /\ sweep[s].at = "mark"
             /\ \A i \in DOMAIN sweep'[s].peaks :
                   i \in DOMAIN sweep[s].peaks /\ sweep'[s].peaks[i] = sweep[s].peaks[i]
             /\ \A j \in Jobs : terms'[j].entry = terms[j].entry
             /\ \/ UNCHANGED book
                \/ /\ sweep'[s].note \in Jobs /\ book[sweep'[s].note] = "open"
                   /\ book' = [book EXCEPT ![sweep'[s].note] = "closed"]
    <3>1. \A j \in Jobs : book[j] # "none" => book'[j] # "none"
      BY <1>b, <2>4
    <3> SUFFICES ASSUME NEW t \in Sweepers, sweep'[t].at \in {"mark", "note"}, NEW j \in DOMAIN sweep'[t].peaks
                 PROVE  book'[j] # "none" /\ sweep'[t].peaks[j] >= terms'[j].entry
      OBVIOUS
    <3>2. /\ sweep[t].at \in {"mark", "note"} /\ j \in DOMAIN sweep[t].peaks
          /\ sweep'[t].peaks[j] = sweep[t].peaks[j]
      BY <2>1, <2>4
    <3>3. j \in Jobs /\ book[j] # "none" /\ sweep[t].peaks[j] >= terms[j].entry
      BY <1>a, <1>b, <3>2
    <3> QED BY <2>4, <3>1, <3>2, <3>3
  <2>5. CASE /\ sweep[s].at = "note" /\ sweep'[s].at = "mark" /\ sweep'[s].peaks = sweep[s].peaks
             /\ UNCHANGED <<book, terms>>
    BY <1>a, <2>1, <2>5
  <2> QED BY <1>2, <2>2, <2>3, <2>4, <2>5, SweepSteps
<1>3. CASE UNCHANGED vars
  BY <1>a, <1>3 DEF vars, positionVars
<1> QED BY <1>1, <1>2, <1>3, OtherSteps

\* The invariant of the book: no row forgets its price, no exit its sweep.
THEOREM BookInvariant == Spec => []BookInv
<1>1. BookInv /\ [Next]_vars => BookInv'
  BY TypedStep, RowsStep, NotesStep, PeaksStep DEF BookInv
<1> QED BY BookInitially, <1>1, PTL DEF Spec

\* Every variable keeps its type, and a row's prices go with its status.
THEOREM AutomationTyped == Spec => []TypeOK
<1>1. BookInv => TypeOK
  BY DEF BookInv, Typed, RowsKept, NotesKept, TypeOK, Instants
<1> QED BY <1>1, BookInvariant, PTL

------------------------------------------------------------------------------
\* Every step is a step of the book or none of its business.
LEMMA StepsKeepBook ==
    ASSUME BookInv, [Next]_vars
    PROVE  [Book!BookNext]_(Book!bookVars)
<1> DEFINE Stutters == UNCHANGED <<book, owner, exit, noted>>
<1>a. Stutters => UNCHANGED Book!bookVars
  BY DEF Book!bookVars
<1>1. ASSUME NEW e \in Evaluators, Create(e)
      PROVE  Stutters \/ \E j \in Jobs : Book!OpenPosition(j)
  <2> DEFINE c == evaluation[e]
  <2>1. c.job \in Jobs /\ c.automation \in Automations
    BY <1>1 DEF Create, Idle, Reads, Creates, BookInv, Typed
  <2>2. CASE book[c.job] = "none"
    <3>1. Book!OpenPosition(c.job)
      BY <1>1, <2>1, <2>2 DEF Create, Book!OpenPosition
    <3> QED BY <2>1, <3>1
  <2> QED BY <1>1, <2>2 DEF Create
<1>2. ASSUME NEW s \in Sweepers, NEW j \in Jobs, NEW price \in Quotes, Close(s, j, price)
      PROVE  Stutters \/ Book!ClosePosition(j)
  <2> DEFINE pnl == Pnl(terms[j].size, terms[j].entry, price)
  <2>1. CASE StillOpen(j)
    <3>1. pnl \in Int
      BY <2>1, PnlIsInt, MarksArePositive DEF StillOpen, BookInv, RowsKept, Typed, Terms
    <3>2. /\ exit' = [exit EXCEPT ![j] = pnl] /\ book' = [book EXCEPT ![j] = "closed"]
          /\ UNCHANGED <<owner, noted>> /\ book[j] = "open"
      BY <1>2, <2>1 DEF Close, StillOpen
    <3>3. exit \in [Jobs -> Int]
      BY DEF BookInv, Typed
    <3> HIDE DEF pnl
    <3>4. exit'[j] = pnl
      BY <3>2, <3>3
    <3> QED BY <3>1, <3>2, <3>4 DEF Book!ClosePosition
  <2>2. CASE ~StillOpen(j)
    BY <1>2, <2>2 DEF Close
  <2> QED BY <2>1, <2>2
<1>3. ASSUME NEW s \in Sweepers, NoteClosed(s)
      PROVE  \E j \in Jobs : Book!NoteExit(j)
  <2> DEFINE j == sweep[s].note
  <2>1. sweep[s].at = "note" /\ sweep[s] \in Notes
    BY <1>3 DEF NoteClosed, BookInv, Typed, Idle, Lists, Marking
  <2>2. j \in Jobs /\ book[j] = "closed" /\ noted[j] = 0
    BY <2>1 DEF Notes, BookInv, NotesKept
  <2>3. noted' = [noted EXCEPT ![j] = @ + 1] /\ UNCHANGED <<book, owner, exit>>
    BY <1>3 DEF NoteClosed
  <2>4. noted' = [noted EXCEPT ![j] = 1]
    BY <2>2, <2>3 DEF BookInv, Typed
  <2> HIDE DEF j
  <2> QED BY <2>2, <2>3, <2>4 DEF Book!NoteExit
<1>4. ASSUME NEW e \in Evaluators,
             \/ \E a \in Automations, j \in Jobs : Evaluate(e, a, j)
             \/ ReadOpen(e) \/ ReadTrades(e) \/ Decide(e) \/ Refuse(e)
      PROVE  Stutters
  BY <1>4 DEF Evaluate, ReadOpen, ReadTrades, Decide, Refuse, OnlyEvaluation, positionVars
<1>5. ASSUME NEW s \in Sweepers,
             \/ \E a \in Automations : Sweep(s, a)
             \/ List(s) \/ Unpriced(s) \/ Finish(s)
             \/ \E j \in Jobs, price \in Quotes : Hold(s, j, price)
      PROVE  Stutters
  BY <1>5 DEF Sweep, List, Unpriced, Finish, Hold, positionVars
<1>6. ASSUME NEW d \in Editors, EditStep(d) PROVE Stutters
  BY <1>6 DEF EditStep, Patch, Rename, Load, Write, positionVars
<1>7. ASSUME NEW a \in Automations, SetActive(a) \/ ResetBreaker(a) PROVE Stutters
  BY <1>7 DEF SetActive, ResetBreaker, positionVars
<1>8. ASSUME Tick PROVE Stutters
  BY <1>8 DEF Tick, positionVars
<1>9. ASSUME Lost PROVE Stutters
  BY <1>9 DEF Lost, positionVars
<1>10. ASSUME UNCHANGED vars PROVE Stutters
  BY <1>10 DEF vars, positionVars
<1>11. ASSUME NEW e \in Evaluators, EvaluateStep(e)
       PROVE  Stutters \/ \E j \in Jobs : Book!OpenPosition(j)
  <2> HIDE DEF Stutters
  <2> QED BY <1>1, <1>4, <1>11 DEF EvaluateStep
<1>12. ASSUME NEW s \in Sweepers, SweepStep(s)
       PROVE  Stutters \/ \E j \in Jobs : Book!ClosePosition(j) \/ Book!NoteExit(j)
  <2> HIDE DEF Stutters
  <2>1. CASE \E a \in Automations : Sweep(s, a)
    BY <1>5, <2>1
  <2>2. CASE List(s) \/ Unpriced(s) \/ Finish(s)
    BY <1>5, <2>2
  <2>3. CASE NoteClosed(s)
    BY <1>3, <2>3
  <2>4. ASSUME NEW j \in Jobs, NEW price \in Quotes, Hold(s, j, price) PROVE Stutters
    BY <1>5, <2>4
  <2>5. ASSUME NEW j \in Jobs, NEW price \in Quotes, Close(s, j, price)
        PROVE  Stutters \/ Book!ClosePosition(j)
    BY <1>2, <2>5
  <2> QED BY <1>12, <2>1, <2>2, <2>3, <2>4, <2>5, MarksArePositive DEF SweepStep
<1>13. \/ Stutters
       \/ \E j \in Jobs : Book!OpenPosition(j) \/ Book!ClosePosition(j) \/ Book!NoteExit(j)
  <2> HIDE DEF Stutters
  <2>1. CASE \E e \in Evaluators : EvaluateStep(e)
    BY <1>11, <2>1
  <2>2. CASE \E s \in Sweepers : SweepStep(s)
    BY <1>12, <2>2
  <2>3. CASE \E d \in Editors : EditStep(d)
    BY <1>6, <2>3
  <2>4. CASE \E a \in Automations : SetActive(a) \/ ResetBreaker(a)
    BY <1>7, <2>4
  <2> QED BY <1>8, <1>9, <1>10, <2>1, <2>2, <2>3, <2>4 DEF Next
<1> QED BY <1>13, <1>a DEF Book!BookNext

\* "Exactly one position per job": a job opens one position, whose exit is booked
\* once and noted at most once, however evaluations and sweeps overlap.
THEOREM AutomationKeepsBook == Spec => ImplementsBook
<1>1. Init => Book!BookInit
  BY DEF Init, Book!BookInit, Book!Nobody
<1>2. BookInv /\ [Next]_vars => [Book!BookNext]_(Book!bookVars)
  BY StepsKeepBook
<1> QED BY <1>1, <1>2, BookInvariant, PTL DEF Spec, ImplementsBook, Book!BookSpec
------------------------------------------------------------------------------
(* Entries.  One evaluation at a time: what it has read of the open positions *)
(* still covers those that are open, since sweeps only ever close them.       *)

\* At most one evaluation is under way.
Serial == \A e, f \in Evaluators : e = f

Covered(e) == LET c == evaluation[e] IN
    /\ c.at = "reads" /\ "open" \in c.read =>
          IsFiniteSet(c.open) /\ OpenPositions(c.automation) \subseteq c.open
    /\ c.at = "create" => BookGates(Verdict[c.job].mint, c.policy, OpenPositions(c.automation))

MintsApart(a) == \A x, y \in OpenPositions(a) : x.mint = y.mint => x = y

RoomInv ==
    /\ \A e \in Evaluators : Covered(e)
    /\ \A a \in Automations : MintsApart(a)

\* A smaller book has room wherever the larger had.
LEMMA GatesMonotone ==
    ASSUME NEW open \in SUBSET OpenRows, IsFiniteSet(open), NEW some \in SUBSET open,
           NEW mint, NEW p \in Policies, BookGates(mint, p, open)
    PROVE  BookGates(mint, p, some)
<1>1. IsFiniteSet(some) /\ Cardinality(some) <= Cardinality(open)
      /\ Cardinality(some) \in Nat /\ Cardinality(open) \in Nat
  BY FS_Subset, FS_CardinalityType
<1>2. p["maxConcurrentPositions"] \in Nat /\ p["sizeUsd"] \in Nat /\ p["maxDeployedUsd"] \in Nat
  BY DEF Policies, PolicyFields
<1> DEFINE f == [r \in open |-> r.size]
           g == [r \in some |-> r.size]
<1>3. /\ \A r \in open : f[r] \in Nat
      /\ \A r \in some : g[r] \in Nat /\ g[r] = f[r]
  BY DEF OpenRows
<1> HIDE DEF f, g
<1>4. SumFunctionOnSet(g, some) <= SumFunctionOnSet(f, open)
  BY <1>3, SumLower
<1>5. SumFunctionOnSet(g, some) \in Nat
  BY <1>1, <1>3, SumNat
<1>6. SumFunctionOnSet(f, open) \in Nat
  BY <1>3, SumNat
<1>7. Deployed(some) = SumFunctionOnSet(g, some) /\ Deployed(open) = SumFunctionOnSet(f, open)
  BY DEF Deployed, f, g
<1> QED BY <1>1, <1>2, <1>4, <1>5, <1>6, <1>7 DEF BookGates

LEMMA OpenPositionsFinite ==
    ASSUME Typed, NEW a \in Automations
    PROVE  IsFiniteSet(OpenPositions(a))
<1> DEFINE h == [j \in OpenJobs(a) |-> [job |-> j, mint |-> Verdict[j].mint, size |-> terms[j].size]]
<1>1. IsFiniteSet(OpenJobs(a))
  BY AutomationAssumption, FS_Subset DEF OpenJobs
<1>2. h \in Surjection(OpenJobs(a), OpenPositions(a))
  BY DEF OpenPositions, Surjection
<1> HIDE DEF h
<1> QED BY <1>1, <1>2, FS_Surjection

\* Only a create opens a position.
LEMMA OthersOpenNone ==
    ASSUME BookInv, [Next]_vars, \A e \in Evaluators : ~Create(e)
    PROVE  \A j \in Jobs : book'[j] = "open" =>
              book[j] = "open" /\ owner'[j] = owner[j] /\ terms'[j].size = terms[j].size
<1> DEFINE Kept == \A j \in Jobs : book'[j] = "open" =>
              book[j] = "open" /\ owner'[j] = owner[j] /\ terms'[j].size = terms[j].size
<1> USE DEF BookInv, Typed, positionVars
<1>1. ASSUME UNCHANGED <<book, owner, terms>> PROVE Kept
  BY <1>1
<1>2. ASSUME NEW s \in Sweepers, NEW j \in Jobs, NEW price \in Quotes, Hold(s, j, price) PROVE Kept
  <2> DEFINE peak == PeakAfter(sweep[s].peaks[j], price, terms[j].peak)
  <2>1. UNCHANGED <<book, owner>> /\ terms' = [terms EXCEPT ![j].peak = peak]
    BY <1>2 DEF Hold
  <2> HIDE DEF peak
  <2> QED BY <2>1 DEF Terms
<1>3. ASSUME NEW s \in Sweepers, NEW j \in Jobs, NEW price \in Quotes, Close(s, j, price) PROVE Kept
  <2>1. CASE StillOpen(j)
    <3>1. UNCHANGED owner /\ book' = [book EXCEPT ![j] = "closed"]
          /\ terms' = [terms EXCEPT ![j].closedAt = sweep[s].since]
      BY <1>3, <2>1 DEF Close
    <3> QED BY <3>1 DEF Terms
  <2>2. CASE ~StillOpen(j)
    BY <1>1, <1>3, <2>2 DEF Close
  <2> QED BY <2>1, <2>2
<1>4. ASSUME NEW e \in Evaluators, EvaluateStep(e) PROVE Kept
  <2>1. UNCHANGED <<book, owner, terms>>
    BY <1>4 DEF EvaluateStep, Evaluate, ReadOpen, ReadTrades, Decide, Refuse, OnlyEvaluation
  <2> QED BY <1>1, <2>1
<1>5. ASSUME NEW s \in Sweepers,
             \/ \E b \in Automations : Sweep(s, b)
             \/ List(s) \/ Unpriced(s) \/ NoteClosed(s) \/ Finish(s)
      PROVE  Kept
  BY <1>1, <1>5 DEF Sweep, List, Unpriced, NoteClosed, Finish
<1>6. ASSUME NEW d \in Editors, EditStep(d) PROVE Kept
  BY <1>1, <1>6 DEF EditStep, Patch, Rename, Load, Write
<1>7. ASSUME NEW b \in Automations, SetActive(b) \/ ResetBreaker(b) PROVE Kept
  BY <1>1, <1>7 DEF SetActive, ResetBreaker
<1>8. ASSUME Tick \/ Lost \/ UNCHANGED vars PROVE Kept
  BY <1>1, <1>8 DEF Tick, Lost, vars
<1>9. Kept
  <2> HIDE DEF Kept, positionVars
  <2> QED BY <1>2, <1>3, <1>4, <1>5, <1>6, <1>7, <1>8, MarksArePositive DEF Next, SweepStep
<1> QED BY <1>9

LEMMA BookShrinks ==
    ASSUME BookInv, [Next]_vars, \A e \in Evaluators : ~Create(e), NEW a \in Automations
    PROVE  OpenPositions(a)' \subseteq OpenPositions(a)
BY OthersOpenNone DEF OpenPositions, OpenJobs

\* A create adds one row to the automation's open ones, or none.
Opened(c) == [job |-> c.job, mint |-> Verdict[c.job].mint, size |-> c.policy["sizeUsd"]]

LEMMA CreateOpens ==
    ASSUME BookInv, NEW e \in Evaluators, Create(e), NEW a \in Automations
    PROVE  LET c == evaluation[e] IN
           /\ \/ OpenPositions(a)' = OpenPositions(a)
              \/ /\ a = c.automation
                 /\ OpenPositions(a)' = OpenPositions(a) \cup {Opened(c)}
           /\ c \in Creates
<1> DEFINE c == evaluation[e]
<1> USE DEF BookInv, Typed
<1>1. c \in Creates /\ c.job \in Jobs
  BY DEF Create, Idle, Reads, Creates
<1>2. CASE book[c.job] # "none"
  <2>1. UNCHANGED <<book, owner, terms>>
    BY <1>2 DEF Create
  <2> QED BY <1>1, <2>1 DEF OpenPositions, OpenJobs
<1>3. CASE book[c.job] = "none"
  <2>1. /\ book' = [book EXCEPT ![c.job] = "open"]
        /\ owner' = [owner EXCEPT ![c.job] = c.automation]
        /\ \A j \in Jobs : terms'[j].size = IF j = c.job THEN c.policy["sizeUsd"] ELSE terms[j].size
    BY <1>1, <1>3 DEF Create
  <2>2. OpenJobs(a)' = IF a = c.automation THEN OpenJobs(a) \cup {c.job} ELSE OpenJobs(a)
    BY <1>1, <1>3, <2>1 DEF OpenJobs
  <2>3. c.job \notin OpenJobs(a) /\ OpenJobs(a) \subseteq Jobs
    BY <1>3 DEF OpenJobs
  <2>4. OpenPositions(a)' =
          {[job |-> j, mint |-> Verdict[j].mint, size |-> terms'[j].size] : j \in OpenJobs(a)'}
    BY DEF OpenPositions
  <2>5. CASE a = c.automation
    <3>1. OpenPositions(a)' = OpenPositions(a) \cup {Opened(c)}
      BY <1>1, <2>1, <2>2, <2>3, <2>4, <2>5 DEF OpenPositions, Opened
    <3> QED BY <1>1, <2>5, <3>1
  <2>6. CASE a # c.automation
    <3>1. OpenPositions(a)' = OpenPositions(a)
      BY <1>1, <2>1, <2>2, <2>3, <2>4, <2>6 DEF OpenPositions
    <3> QED BY <1>1, <3>1
  <2> QED BY <2>5, <2>6
<1> QED BY <1>2, <1>3

\* Where the gates on the book leave room, the position opened there is within
\* the policy.
LEMMA RoomIsEnough ==
    ASSUME NEW open \in SUBSET OpenRows, IsFiniteSet(open), NEW c \in Creates,
           \A x, y \in open : x.mint = y.mint => x = y,
           BookGates(Verdict[c.job].mint, c.policy, open)
    PROVE  WithinPolicy(c.policy, open \cup {Opened(c)})
<1> DEFINE row == Opened(c)
           p == c.policy
           f == [x \in open |-> x.size]
           g == [x \in open \cup {row} |-> x.size]
<1>1. /\ p["maxConcurrentPositions"] \in Nat /\ p["sizeUsd"] \in Nat /\ p["maxDeployedUsd"] \in Nat
      /\ row.size = p["sizeUsd"] /\ row.mint = Verdict[c.job].mint
  BY DEF Creates, Policies, PolicyFields, Opened
<1>2. /\ \A x \in open : x.mint # row.mint
      /\ Cardinality(open) < p["maxConcurrentPositions"]
      /\ SumFunctionOnSet(f, open) + row.size <= p["maxDeployedUsd"]
  BY <1>1 DEF BookGates, Deployed
<1>3. row \notin open
  BY <1>2
<1>4. /\ \A x \in open : f[x] \in Nat /\ g[x] = f[x]
      /\ \A x \in open \cup {row} : g[x] \in Int
      /\ g[row] = row.size
  BY <1>1 DEF OpenRows
<1> HIDE DEF f, g, row, p
<1>5. Cardinality(open \cup {row}) = Cardinality(open) + 1 /\ Cardinality(open) \in Nat
  BY <1>3, FS_AddElement, FS_CardinalityType
<1>6. SumFunctionOnSet(g, open \cup {row}) = g[row] + SumFunctionOnSet(g, open)
  BY <1>3, <1>4, SumAdd
<1>7. SumFunctionOnSet(g, open) = SumFunctionOnSet(f, open) /\ SumFunctionOnSet(f, open) \in Nat
  BY <1>4, SumEqual, SumNat
<1>8. SumFunctionOnSet(g, open \cup {row}) <= p["maxDeployedUsd"]
  BY <1>1, <1>2, <1>4, <1>6, <1>7
<1>9. Cardinality(open \cup {row}) <= p["maxConcurrentPositions"]
  BY <1>1, <1>2, <1>5
<1>10. \A x, y \in open \cup {row} : x.mint = y.mint => x = y
  BY <1>2
<1> QED BY <1>8, <1>9, <1>10 DEF WithinPolicy, Deployed, g, row, p

\* What a lone evaluation has read of the open positions keeps covering them.
LEMMA RoomStep ==
    ASSUME BookInv, RoomInv, Serial, [Next]_vars
    PROVE  RoomInv'
<1>0. ASSUME NEW a \in Automations PROVE MintsApart(a)'
  <2>1. CASE \A e \in Evaluators : ~Create(e)
    BY <2>1, BookShrinks DEF RoomInv, MintsApart
  <2>2. ASSUME NEW e \in Evaluators, Create(e) PROVE MintsApart(a)'
    <3> DEFINE c == evaluation[e]
    <3>1. BookGates(Verdict[c.job].mint, c.policy, OpenPositions(c.automation))
      BY <2>2 DEF RoomInv, Covered, Create
    <3>2. \A x \in OpenPositions(c.automation) : x.mint # Opened(c).mint
      BY <3>1 DEF BookGates, Opened
    <3> QED BY <2>2, <3>2, CreateOpens DEF RoomInv, MintsApart
  <2> QED BY <2>1, <2>2
<1> SUFFICES ASSUME NEW e \in Evaluators PROVE Covered(e)'
  BY <1>0 DEF RoomInv
<1>a. Covered(e) /\ Typed /\ (\A f \in Evaluators : f = e)
  BY DEF RoomInv, BookInv, Serial
<1> DEFINE c == evaluation[e]
<1>b. c \in {Idle} \cup Reads \cup Creates
  BY <1>a DEF Typed
<1>1. ASSUME evaluation'[e] = Idle PROVE Covered(e)'
  BY <1>1 DEF Covered, Idle
<1>2. ASSUME evaluation'[e] = c, ~Create(e) PROVE Covered(e)'
  <2>1. CASE c.at = "reads"
    <3>1. c.automation \in Automations
      BY <1>b, <2>1 DEF Idle, Creates, Reads
    <3>2. OpenPositions(c.automation)' \subseteq OpenPositions(c.automation)
      BY <1>a, <1>2, <3>1, BookShrinks
    <3> QED BY <1>a, <1>2, <2>1, <3>2 DEF Covered
  <2>2. CASE c.at = "create"
    <3>1. c.automation \in Automations /\ c.policy \in Policies
      BY <1>b, <2>2 DEF Idle, Creates, Reads
    <3>2. OpenPositions(c.automation)' \subseteq OpenPositions(c.automation)
      BY <1>a, <1>2, <3>1, BookShrinks
    <3>3. OpenPositions(c.automation) \in SUBSET OpenRows /\ IsFiniteSet(OpenPositions(c.automation))
      BY <1>a, <3>1, SnapshotsTyped, OpenPositionsFinite
    <3>4. BookGates(Verdict[c.job].mint, c.policy, OpenPositions(c.automation))
      BY <1>a, <2>2 DEF Covered
    <3>5. BookGates(Verdict[c.job].mint, c.policy, OpenPositions(c.automation)')
      BY <3>1, <3>2, <3>3, <3>4, GatesMonotone
    <3> QED BY <1>2, <2>2, <3>5 DEF Covered
  <2> QED BY <1>2, <2>1, <2>2 DEF Covered
<1>3. ASSUME NEW a \in Automations, NEW j \in Jobs, Evaluate(e, a, j) PROVE Covered(e)'
  <2>1. evaluation'[e].at = "reads" /\ evaluation'[e].read = {}
    BY <1>3, <1>a DEF Typed, Evaluate, Evaluates
  <2> QED BY <2>1 DEF Covered
<1>4. ASSUME ReadOpen(e) PROVE Covered(e)'
  <2>1. c \in Reads
    BY <1>4, <1>b DEF ReadOpen, Idle, Creates
  <2>2. /\ evaluation'[e].at = "reads" /\ evaluation'[e].automation = c.automation
        /\ evaluation'[e].open = OpenPositions(c.automation)
        /\ UNCHANGED <<book, owner, terms>>
    BY <1>4, <1>a, <2>1 DEF Typed, ReadOpen, Evaluates, OnlyEvaluation, positionVars, Reads
  <2>3. c.automation \in Automations
    BY <2>1 DEF Reads
  <2>4. OpenPositions(c.automation)' = OpenPositions(c.automation)
    BY <2>2 DEF OpenPositions, OpenJobs
  <2>5. IsFiniteSet(OpenPositions(c.automation))
    BY <1>a, <2>3, OpenPositionsFinite
  <2> QED BY <2>2, <2>4, <2>5 DEF Covered
<1>5. ASSUME ReadTrades(e) PROVE Covered(e)'
  <2>1. c \in Reads
    BY <1>5, <1>b DEF ReadTrades, Idle, Creates
  <2>2. /\ evaluation'[e].at = "reads" /\ evaluation'[e].automation = c.automation
        /\ evaluation'[e].open = c.open
        /\ "open" \in evaluation'[e].read => "open" \in c.read
        /\ UNCHANGED <<book, owner, terms>>
    BY <1>5, <1>a, <2>1 DEF Typed, ReadTrades, Evaluates, OnlyEvaluation, positionVars, Reads
  <2>3. OpenPositions(c.automation)' = OpenPositions(c.automation)
    BY <2>2 DEF OpenPositions, OpenJobs
  <2>4. c.at = "reads"
    BY <2>1 DEF Reads
  <2> QED BY <1>a, <2>2, <2>3, <2>4 DEF Covered
<1>6. ASSUME Decide(e) PROVE Covered(e)'
  <2>1. c \in Reads /\ c.at = "reads" /\ "open" \in c.read
    BY <1>6, <1>b DEF Decide, Ready, Idle, Creates
  <2>2. IsFiniteSet(c.open) /\ OpenPositions(c.automation) \subseteq c.open
        /\ c.open \in SUBSET OpenRows /\ c.policy \in Policies
    BY <1>a, <2>1 DEF Covered, Reads
  <2>3. BookGates(Verdict[c.job].mint, c.policy, c.open)
    BY <1>6 DEF Decide, PlanEntry
  <2>4. BookGates(Verdict[c.job].mint, c.policy, OpenPositions(c.automation))
    BY <2>2, <2>3, GatesMonotone
  <2>5. /\ evaluation'[e].at = "create" /\ evaluation'[e].automation = c.automation
        /\ evaluation'[e].job = c.job /\ evaluation'[e].policy = c.policy
        /\ UNCHANGED <<book, owner, terms>>
    BY <1>6, <1>a DEF Typed, Decide, Evaluates, OnlyEvaluation, positionVars
  <2>6. OpenPositions(c.automation)' = OpenPositions(c.automation)
    BY <2>5 DEF OpenPositions, OpenJobs
  <2>7. BookGates(Verdict[evaluation'[e].job].mint, evaluation'[e].policy,
                  OpenPositions(evaluation[e].automation)')
    BY <2>4, <2>5, <2>6
  <2> QED BY <2>5, <2>7 DEF Covered
<1>7. ASSUME Refuse(e) \/ Create(e) PROVE Covered(e)'
  <2>1. evaluation'[e] = Idle
    BY <1>7, <1>a DEF Typed, Refuse, Create, Evaluates
  <2> QED BY <1>1, <2>1
<1>8. ASSUME Lost, ~Create(e) PROVE Covered(e)'
  <2>1. evaluation'[e] = Idle \/ evaluation'[e] = c
    BY <1>8, <1>a DEF Typed, Lost, Evaluates
  <2> QED BY <1>1, <1>2, <1>8, <2>1
<1>9. ASSUME ~Create(e),
             \/ \E s \in Sweepers : SweepStep(s)
             \/ \E d \in Editors : EditStep(d)
             \/ \E a \in Automations : SetActive(a) \/ ResetBreaker(a)
             \/ Tick \/ UNCHANGED vars
      PROVE  Covered(e)'
  <2>1. ASSUME NEW s \in Sweepers, SweepStep(s) PROVE UNCHANGED evaluation
    BY <2>1 DEF SweepStep, Sweep, List, Unpriced, Hold, Close, NoteClosed, Finish
  <2>2. ASSUME NEW d \in Editors, EditStep(d) PROVE UNCHANGED evaluation
    BY <2>2 DEF EditStep, Patch, Rename, Load, Write
  <2>3. ASSUME NEW a \in Automations, SetActive(a) \/ ResetBreaker(a) PROVE UNCHANGED evaluation
    BY <2>3 DEF SetActive, ResetBreaker
  <2>4. UNCHANGED evaluation
    BY <1>9, <2>1, <2>2, <2>3 DEF Tick, vars
  <2> QED BY <1>2, <1>9, <2>4
<1>10. CASE Create(e)
  BY <1>7, <1>10
<1>11. CASE ~Create(e) /\ \E f \in Evaluators : EvaluateStep(f)
  <2>1. EvaluateStep(e)
    BY <1>a, <1>11
  <2> QED BY <1>3, <1>4, <1>5, <1>6, <1>7, <2>1 DEF EvaluateStep
<1> QED BY <1>8, <1>9, <1>10, <1>11 DEF Next

\* "Every field is a hard ceiling": with one evaluation at a time, once a position
\* has opened, the book as it then is holds one position a mint, and no more of
\* them nor of a greater value than the policy of the call allows, whatever sweeps,
\* edits and faults came between the reads, the decision and the insert.
THEOREM EntriesKeepCeilings ==
    ASSUME Serial PROVE Spec => EntryWithinCeilings
<1>1. ASSUME Init PROVE RoomInv
  BY <1>1 DEF Init, RoomInv, Covered, Idle, MintsApart, OpenPositions, OpenJobs
<1>2. ASSUME BookInv, RoomInv, [Next]_vars, NEW e \in Evaluators, NEW a \in Automations, Opens(e, a)
      PROVE  WithinPolicy(evaluation[e].policy, OpenPositions(a)')
  <2> DEFINE c == evaluation[e]
  <2>1. c \in Creates /\ c.job \in Jobs
    BY <1>2 DEF Opens, BookInv, Typed, Idle, Reads, Creates
  <2>2. PICK f \in Evaluators : Create(f)
    <3>1. book'[c.job] = "open" /\ book[c.job] # "open"
      BY <1>2 DEF Opens
    <3> QED BY <1>2, <2>1, <3>1, OthersOpenNone
  <2>3. Create(e)
    BY <2>2 DEF Serial
  <2>4. a = c.automation /\ OpenPositions(a)' = OpenPositions(a) \cup {Opened(c)}
    <3>1. a = c.automation /\ book[c.job] = "none"
      BY <1>2 DEF Opens
    <3>2. c.job \in OpenJobs(a)' /\ c.job \notin OpenJobs(a)
      BY <1>2, <2>1, <2>3, <3>1 DEF Create, OpenJobs, BookInv, Typed
    <3>3. \A x \in OpenPositions(a) : x.job # c.job
      BY <3>2 DEF OpenPositions
    <3>4. [job |-> c.job, mint |-> Verdict[c.job].mint, size |-> terms'[c.job].size]
            \in OpenPositions(a)'
      BY <3>2 DEF OpenPositions
    <3> QED BY <1>2, <2>3, <3>1, <3>3, <3>4, CreateOpens
  <2>5. BookGates(Verdict[c.job].mint, c.policy, OpenPositions(a)) /\ MintsApart(a)
    BY <1>2, <2>4 DEF RoomInv, Covered, Opens
  <2>6. OpenPositions(a) \in SUBSET OpenRows /\ IsFiniteSet(OpenPositions(a))
    BY <1>2, SnapshotsTyped, OpenPositionsFinite DEF BookInv
  <2>7. WithinPolicy(c.policy, OpenPositions(a) \cup {Opened(c)})
    BY <2>1, <2>5, <2>6, RoomIsEnough DEF MintsApart
  <2> QED BY <2>4, <2>7
<1>3. BookInv /\ RoomInv /\ [Next]_vars => RoomInv'
  BY RoomStep
<1>4. BookInv /\ RoomInv /\ [Next]_vars =>
        \A e \in Evaluators, a \in Automations :
            Opens(e, a) => WithinPolicy(evaluation[e].policy, OpenPositions(a)')
  BY <1>2
<1>5. Init => RoomInv
  BY <1>1
<1> QED BY <1>3, <1>4, <1>5, BookInvariant, PTL DEF Spec, EntryWithinCeilings
==============================================================================
