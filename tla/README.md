# Verification of Averis

Averis runs *intelligence jobs*: a client posts a question, a cohort of agents answers it, the answers are
evaluated, merged and paid for. The protocol is a chain of queue workers over Postgres; money is spent on models
while a job runs and paid out to contributors afterwards, and an automation may trade on what a job resolved.
This directory holds TLA+ models of the parts that carry the program's own logic, the TLC configurations that
check them on small instances, and TLAPS proofs of theorems about them for every value of the constants.
`PROJECT.json` maps every definition to the lines it translates and lists the hazards, each at its line.

    tlc -workers 2 -config pipeline_clean.cfg JobPipelineMC    # one run
    tlapm SettlementProofs.tla                                 # one proof module

## 1. Inventory

### Components and their state

| Component | Source (`src/`) | State it keeps | Operations | What makes it correct |
|---|---|---|---|---|
| Job lifecycle | `packages/types/src/job.ts` | the ten statuses, the table of legal moves | `canTransition`, `isTerminal` | terminal is terminal; moves follow the table |
| Job engine | `packages/protocol/src/job-engine.ts` | `Job.status`, `JobEvent` rows | `create`, `transition`, `fail`, `candidates` | each move is legal, recorded, made once |
| Execution pipeline | `packages/protocol/src/execution.ts` | `JobAssignment`, `AgentOutput`, `Evidence`, datanet and item snapshots | `runJob`, `runAssignment`, `discoverDatanets`, `persist` | one success submits the job, no assignment stays open, each claim linked to what it cites |
| Evaluation, consensus, rewards | `packages/protocol/src/pipeline.ts` | `Evaluation`, `ConsensusResult`, `Reward`, reputation snapshots | three stage handlers | scored before merged, merged before paid, paid once |
| pgmq driver | `packages/queue/src/pgmq.ts` | messages, visibility timeouts, read counts, dedupe keys | `enqueue`, poll, `dispatch` | at least once; one worker per lease |
| In-memory and BullMQ drivers | `packages/queue/src/{memory,bullmq,trace}.ts` | lists, retry timers, places in flight, ids seen | the same contract | one delivery per message; each message ends |
| Workers | `workers/src` | none | call the stages; `onFailed` fails the job | every started job concludes |
| Settlement | `packages/protocol/src/settlement*.ts`, `scripts/settle.ts` | `Reward.status`, `Transaction` rows | `plan`, `sweep`, `settleOne` | pay at most once, record before paying, settle on confirmation only |
| Budget guard | `packages/budget/src`, `protocol/src/ledger.ts` | `BudgetSpend` rows, advisory locks | `check`, `reserve`, `withBudget`, reconcile, release | ceilings hold under concurrency; spend is charged |
| Operator | `apps/operator/src`, `packages/strategy/src` | the jobs in flight | `tick` | takes what its strategy and budget accept (ticks of its `setInterval` overlap, so it may run one job twice) |
| Prediction resolution | `protocol/src/{resolution,oracles}.ts` | prediction outcomes, resolution rows | sweep, three oracles | a prediction resolves once, never before its deadline, and not on an outage |
| Automation | `packages/execution/src`, `apps/api/src/routes/automations.ts` | positions, their peaks, the breaker, policies | `evaluate`, `sweepExits`, the owner's requests | one position per job, closed once; ceilings hold when it opens |
| Consensus engine | `packages/consensus/src` | none (pure) | tokens, clustering, weighting, merge | each agent counts once; order does not matter; disagreement is not support |
| Reputation and selection | `packages/reputation/src` | none (pure) | `score`, `recompute`, `select` | stating one's true confidence is best; a cohort fits its job |
| Agent runtime | `packages/agent-runtime/src` | the conversation of one run, its evidence | the loop of turns, tools | a ref keeps its meaning; evidence stays in scope |
| Reppo adapter | `packages/reppo-adapter/src` | cache | reads, merges, fixtures as fallback | own rows lead; a refusal is not masked |
| API | `apps/api/src` | principals in a cache, accounts, keys | the auth hook, sign-in, the routes | a revoked key stops working; tenants see their own, but for what an evaluation tells |
| SDK | `packages/sdk/src` | none | `request`, `runJob` | every call ends; the report is of the job it submitted |
| Web application | `apps/web` | a cookie | pages, server actions, forwarder | a page shows its viewer's rows, not the app's |
| Tracing | `packages/tracing/src` | spans, the exporter's batch | start, end, flush | spans are neither lost, doubled nor stranded |
| Explanation | `packages/protocol/src/explain.ts` | none (pure) | verdicts of claims and jobs | what was contested is not called supported |
| Database, types, scripts | `packages/db`, `packages/types`, `scripts` | schema, constants | | unique keys, the pool |

### How they interact

`POST /v1/jobs` creates the job and enqueues it. Each worker reads a message, moves the job, does its work, moves
the job again and enqueues the next stage: `job` → `evaluation` → `consensus` → `resolution`. The stages share
nothing but Postgres. Delivery is at least once: a worker that dies or outlives its visibility timeout is
followed by another one, and the operator runs QUEUED jobs itself beside the job worker. Within a job the agents
run concurrently (`Promise.allSettled`), each asks the budget guard before it spends, reads the data network
through the adapter and stores its output and evidence in one transaction. The resolution stage writes reward
rows, which the settlement script, run by hand on any machine, pays. Predictions in an output are resolved by
sweeps after their deadline; reputation is recomputed from history and weighs later merges. An automation reads a
resolved job and opens at most one position for it. The gateway, the SDK and the web app are the way in and out.

### Where it is hard

- `JobEngine.transition` reads and writes in one transaction at READ COMMITTED and updates by id alone, so two
  runs of one job interleave between the read and the write.
- `enqueue` commits a dedupe key and then sends: two statements, and a crash between them is permanent.
- Find-then-create of evaluations and count-then-insert of rewards are backed by no unique key; they lean on the
  queue's lease. Evidence rows are unique and inserted or ignored, then read back.
- Settlement calls an external party between two database writes; an answer can be lost on either side.
- The budget's lock is a transaction whose only purpose is the lock; the guarded statements run outside it, on
  other connections of the same bounded pool.
- Open positions and recent trades of an automation are two concurrent reads, and sweeps close while it decides.
- An outage is retried until a lag has passed; late, refused and unanswered must be told apart.
- Sign-in reads, moves and creates accounts in separate statements, and principals are cached meanwhile.
- Rows are rounded one by one to the scale of a column, and the sum is then compared with the whole.

## 2. The modules

```
 JobStates   PgmqQueue                    Fractions
     │ ╲        │                            │
     │  JobLifecycle (abstract)          Consensus   Reputation   Selection
     │        ▲ │                            │  ╲        │        ╱
     JobPipeline ─┬ JobPipelineMC        Explanation     │       ╱     SettlementPlan
                  └ JobPipelineProofs         ╲──── Algorithms ──────────┤
                                                    ├ AlgorithmsMC       │
     PaymentPromise (abstract) ◄──── Settlement ────│────────────────────┘
                               SettlementMC ┤       └ AlgorithmsProofs ◄──────────── Sums
                                            └ SettlementProofs ◄─────────────────────┤
     BudgetGuard ──────────┬ BudgetGuardMC                                           │
     TradePlan ─ Automation ┬┴ CeilingProofs ◄───────────────────────────────────────┤
                     │      └ AutomationMC      Resolution ──┬ ResolutionMC          │
                     └► TradeBook (abstract)         │       └ ResolutionProofs      │
     Gateway ── ApiClient ── WebApp ─┬ ApiClientMC   └► Verdicts (abstract)          │
                                     └ GatewayProofs                                 │
     Tracing ── QueueDrivers ──────────────────┬ QueueDriversMC                      │
     Arrays ─┬─ ReppoAdapter ── AgentRun ──────┤ AgentRunMC                          │
             └─ Provenance ────────────────────┤ ProvenanceMC                        │
                                               └ WorkerProofs ◄──────────────────────┘
```

### JobStates, JobLifecycle, PgmqQueue, JobPipeline

`JobStates` is the table of `job.ts`. `JobLifecycle` is the abstract life cycle the documentation draws: a job is
created once and each step is one legal move with its audit row. `PgmqQueue` is the driver's contract with pgmq:
for every stage and job a message that is absent, ready, leased, deleted or archived, its read count, and the
dedupe keys taken. pgmq itself is external; what is modelled is what `pgmq.ts` asks of it.

`JobPipeline` composes them. A *run* is one activation of a handler, by the API, a queue delivery or the
operator; the variable `at` says which `await` it stands at. Each action is one statement or transaction:
`ReadStatus` and `WriteStatus` are the two halves of `transition`, `EnqueueClaim` and `EnqueueSend` those of
`enqueue`; `AgentStart`, `AgentPersist`, `AgentSubmit`, `AgentFail` are the steps of one agent of a crew and
interleave with the others of the crew. A handler's outcome is settled as `dispatch` does it: `Acknowledge`,
`Retry`, `onFailed`, `GiveUp`. `OperatorTake` runs a job off a list that may be of any time since the job was
QUEUED. `Crash` loses a process, `CallFails` makes the awaited call reject, `LeaseExpires` makes a message visible
again, under a dead worker or under a live one. Abstracted: which agents a selector picks (any cohort), what they
answer, scores and weights, the confidence test (either outcome).

### Provenance

What `runJob` reads and stores besides: `Discover` and `Snapshot` (the datanets of a job, from its explicit
scope, its domains or a text match, and what is written back), and per agent `Reads`, `FindNets`, `WriteItem` and
`Persist` (insert or ignore of evidence, the read back, the links of the claim), all agents and jobs interleaved,
while upstream's listing changes and a run may be lost and delivered again.

### SettlementPlan, Settlement, PaymentPromise

`SettlementPlan` holds the pure operators, in units of 0.000001, the scale of the column: the shares and rows of
`splitReward` and `RewardStage`, and `planSettlement`. `Settlement` runs any number of sweeps over them: a sweep
is started with a driver, plans from a page of PENDING rewards, and carries out `settleOne` one awaited call at a
time: conditional claim, transaction row, driver, record, and the catch paths. A call that rejects may have
taken effect (`CreateFails`, `RecordFails`, `DriverFails`, `SweepFails`). The drivers are those of the
repository, `none` and `ledger`, and an `external` one, which answers CONFIRMED or BROADCAST or fails after
sending, as the interface `SettlementDriver` allows. `PaymentPromise` is what settlement promises.

### BudgetGuard

Each client makes one request, as an agent (`withBudget`) or as an operator's tick (`reserve`, then release).
The advisory lock and the connections in use are functions of where the clients are: a client between opening
and closing its lock transaction keeps a connection, and each statement of `check` and `reserve` needs one more.
Faults: a transaction that times out (it gives the lock up and its `reserve` throws in the end), a statement that
rejects without effect, one that rejects although it took effect, and a process that dies. A wait for a
connection times out by itself (`connectionTimeoutMillis`).

### TradePlan, Automation, TradeBook

`TradePlan` is `plan.ts` and `policy.ts` as operators: the gates in their order, size, exits with the trailing
stop, the breaker derived from trades. `Automation` cuts `evaluate` at its awaits (the two concurrent reads
`ReadOpen` and `ReadTrades`, then `Decide`, then `Create`, whose unique job id may refuse it), `sweepExits`
likewise (`List`, a quote per position, `Hold` with the guarded peak, `Close` as a conditional update,
`NoteClosed`), a PATCH into its read and its write, and has the owner's other requests as one statement each. A PATCH
sets the fields it does not name to their defaults (`Overlay`): under Zod 4 `.partial()` keeps the defaults of the
schema. `blockedMints` is the one list of the policy; the model keeps it as it was deployed.
`TradeBook` promises one position per job, closed once at one mark, its exit noted once and after it was booked.

### Resolution, Verdicts

`Resolution` begins with the price, chain and Reppo oracles: for what the sources reply (or do not), an observation,
no answer, or an outage that was thrown. It cuts the sweep of due predictions at its statements and requests; the
transaction with the unique resolution row decides between two sweeps. Beside the verdict it records whether a source
was heard, which no row does. `Verdicts` promises that an outcome is written once, after the deadline, together with
its row.

### Fractions, Consensus, Reputation, Selection, Explanation, Algorithms

The pure packages as operators over exact fractions and small vocabularies: fingerprint, stance and specificity
of a claim, clustering, weights with floor and ceiling, merge, consensus score and the corroboration factor
(`Consensus`: claims, metrics as numbers or texts, recommendations, risks); the five scores of an output and a
reputation vector from history (`Reputation`); the greedy cohort and the operator's strategy (`Selection`); the
verdict on a claim and on a job (`Explanation`).
`Algorithms` chooses an input in two steps, runs the code on it (a cohort stage by stage: evaluated, merged, explained)
and states how the outcome has to relate to the input.

### Arrays, ReppoAdapter, AgentRun

`Arrays` is `filter`, the stable `sort` and `slice`, which the adapter and `Provenance` order rows with.
`ReppoAdapter` has calls in slots; each is a set of branches that read the public surface and the owned pods one
request at a time through a cache, merge them under a limit, and settle live, from the fixtures, or with an
error; its first part is the normalisation of rows and their curation score. The calls are those of an agent's tools
or, from `LookupInit`, of the API's routes that read the network. `AgentRun` is one run of `agent.ts` above it: turns,
concurrent tool calls that finish in any order, the evidence list and the refs told to the model, the deadline,
and the claim at the end, with what each vendor's adapter makes of an answer. The model is external: it
may ask for any registered tool and cite any refs it was shown.

### Gateway, ApiClient, WebApp

`Gateway` holds the accounts, with the statements of key lookup and wallet sign-in, and serves requests: the
hook with its cache (a hit, or a lookup whose statements interleave with others), the paywall, then one action per
route with its tenancy filter and error exits. `Manage` is what an owner does with an automation; `Evaluate` runs one
over a job that the body names and no filter scopes, tells of that job (`Tells`), and leaves a row in the automation's
trail (`noted`) and perhaps the job's position (`held`), which the listing of positions then shows. `Rotate`,
`Expire`, `Advance` (the pipeline) and `Tick` surround it. `ApiClient` adds `request()` with its abort timer and the loop of `runJob`; a request that was given up is
still served. `WebApp` adds pages and actions, which are rendered for the token in the cookie or with the app's
own key, and a cookie that changes between a page, its further requests and the action pressed on it.

### Tracing, QueueDrivers

`Tracing` has the contexts, the sampling decision, the spans and the OTLP buffer with its timer. `QueueDrivers` is
`memory.ts` and `bullmq.ts` between the gateway's requests and the workers: dedupe, lists, places, retries,
`onFailed`, registration, shutdown in the order of `main.ts`, and the loss of the process. Redis is external: an
active job is handed out again after a crash.

## 3. Runs

| Run | Asks | Bounds | States |
|---|---|---|---|
| `pipeline_clean` | is the documented life cycle implemented, and is no assignment left open? (`ImplementsLifecycle`, `NoLeakedAssignments`) | 2 jobs (funded, unfunded), 2 agents, 2 runs, no faults | 188 000 |
| `pipeline_recovery` | is redelivery exclusive, is a job paid once, does it conclude and get paid after a crash? (`OneWorker`, `RewardsOnce`, `JobsConclude`, `ResolvedArePaid`) | 1 job, 1 agent, 2 runs, 2 attempts, a crash and a failing call | 90 000 |
| `pipeline_overlap` | does money follow resolved intelligence under overlap? (`PaidForIntelligence`) | the same with a lease that expires under a live run and an operator | 1 150 000 |
| `settlement_race` | paid once, the promise implemented, an over-budget job held whole, the payable settled? (`PaidAtMostOnce`, `ImplementsPromise`, `HeldWhole`, `PayableConcludes`) | 4 rewards of 2 jobs, 2 sweeps with no or an external driver, a crash and an error | 441 000 |
| `guard_ceilings` | do the ceilings hold, is spending charged, does every call end? (`CeilingsHold`, `WorkIsCharged`, `CallsEnd`) | 3 agents and a tick, 2 processes, pools of 2 and 3, 2 instants, one fault | 257 000 |
| `automation` | is the book kept, does every entry fit the ceilings when it opens? (`ImplementsBook`, `EntryWithinCeilings`) | 3 jobs on 2 mints, a policy and a patch of it under which the mint, the number or the value alone refuses, one evaluation at a time, 2 sweeps, 1 patch, 2 upsets, 2 instants | 1 792 000 |
| `resolution` | does every prediction settle, once, in time and on what was heard? (`HonestVerdicts`, `ImplementsVerdicts`, `EveryPredictionSettles`) | 4 predictions (price, supply, approval, a chain nobody reads), 2 venues, 2 sweeps, one fault | 69 000 |
| `algorithms` | the pure packages (`SplitKeepsBudget`, `VoicesCountOnce`, `MergeIsOrderFree`, `ContestedIsNotReliedOn`, `HonestyPays`, `CohortFitsTheJob`, `TakesTheBest`) | budgets to 24 units, 3 contributors, cohorts of 3, 6 candidates, histories of 3 | 147 430 states, 73 000 inputs |
| `api` | revocation, tenancy, stable identity, termination (`RevocationBounded`, `ReportsAreOwn`, `StableIdentity`, `RunJobEnds`) | 2 callers, 3 accounts, 3 rows (jobs and automations), a cache of 1 entry with a life of 2 ticks, lookups of 1 tick, 1 revocation, 1 cookie change | 515 000 |
| `analysis` | do claims cite what was read, in scope, live, own rows first? (`ClaimsCiteWhatWasRead`, `EvidenceInScope`, `FixturesNeverMaskDenial`, `OwnedLead`) | 2 datanets, pages of 2 of which the credential owns 3 rows, 2 concurrent reads, every vendor and credential, one fault, or seven lookups by routes | 471 000 |
| `queues` | one delivery per message, each ends, its spans follow it and are handed over (`OneDelivery`, `EveryMessageEnds`, `TraceFollowsWork`, `NoSpanStranded`) | 2 messages that compete for one place, 2 attempts, both drivers, a shutdown and a crash | 34 000 |
| `provenance` | is every citation linked, is a job's pool kept? (`CitationsAreLinked`, `PoolIsKept`) | 2 agents of one job or 2 jobs, 3 datanets, one lost run, one change of the listing | 925 000 |

Why the bounds are enough: every hazard of the pipeline is between two activations of one job, so two run slots
show it, and a third adds only an interleaving of pairs; two attempts distinguish a retry from the last attempt;
one job is enough where jobs share nothing but the slots. Two sweeps and one driver call are what a double
payment, close or verdict needs. For the guard, two clients that fit one by one and not together are what an
overrun needs, and a pool of two is the smallest in which the holder of the lock starves behind a waiter. Two
jobs on one mint and one on another let each ceiling of an automation be the only one that refuses: the number under
the first policy, the mint or the value under the patch. A cache of one entry evicts at once,
which more entries only delay; the races of sign-in are between two callers. Two slots interleave every two reads
of an adapter that share the cache. Two messages for one place are the least that queue behind each other.

Deadlock is checked in `automation` and `resolution`, whose systems never stop. The others really stop: jobs end,
clients are done, inputs are tried, bounds are used up; what must not stop early is stated as liveness there.

### What the properties assume

They hold under the conditions named here, and outside them the code does not keep them.

- `OneWorker`, `RewardsOnce`: no lease expires under a live worker (two overlapping deliveries both count zero
  rewards and both insert).
- `ImplementsLifecycle`: no faults and no operator beside the worker (both read QUEUED and both write ASSIGNED; a
  late write can overwrite a concluded job).
- `JobsConclude`, `ResolvedArePaid`: a process may be lost anywhere but between a dedupe key and its message
  (`Dropped`) and before a new job reaches the queue (`NeverQueued`). A failing call is exempt, as
  `JobEngine.fail` swallows the failure of its own write and the message is then acknowledged. `ResolvedArePaid`
  speaks of a job that stays RESOLVED and whose consensus was not merged again (section 6).
- `CeilingsHold`: no lock transaction expires, no answer is lost, and estimates are upper bounds
  (`execution.ts:20` passes a constant for every model).
- `HeldWhole`, `PayableConcludes`: a page holds what is outstanding; unpayable rewards are never removed from the
  oldest page. `PayableConcludes` exempts a reward whose transaction FAILED and behaviours with a fault.
- `EntryWithinCeilings`: one evaluation of an automation at a time, and the policy is the one that evaluation read.
- `MergeIsOrderFree`: which of several texts is quoted, or kept as a metric, and the order of lists of equals do depend
  on the order of submission (section 6).
- `ReportsAreOwn`: what an evaluation tells of the job it was given is exempt, on the answer, on the automation's trail
  and in the listing of its positions (section 6).
- `HonestVerdicts`: the spot oracles; an outage of a datanet is an ordinary error and is written off.
- `StableIdentity`: no two persons prove one unclaimed wallet at the same time (section 6). The persons of the
  run's tokens cannot, and the theorem names the condition (`NoRivalClaim`).
- `ClaimsCiteWhatWasRead` compares the ids of rows: a row that was shown twice may have gained votes in between.
- `OwnedLead`: one answer of the network to a credential does not hold two versions of a row (merging by id keeps one
  of them, and the filter by datanet could then drop it), and its page of n begins with the first n rows owned, whether
  or not it ends there. Nothing is assumed of the public surface or of two answers. The page is the first, as pages
  count separately on the two surfaces, and it counts the owned rows of every datanet: what comes after it is not
  spoken of (section 6).
- The recordings hold each row once, as `packages/reppo-adapter/fixtures/*.json` do (197 pods, 12 datanets).
- `PoolIsKept` is about what is stored; a scope whose datanets all left the listing becomes empty at run time. One run
  of a job at a time: `Discover` joins the read of the scope, the listing and the write back (`execution.ts:53`, 459,
  74), so two overlapping runs of one job, of which the later write wins, are not covered.
- `OneDelivery`: a message is done when Redis has acknowledged it. Between the handler's return and that (`handed`) a
  crash has it delivered again.
- `NoSpanStranded`: while the process runs. A clean shutdown ends in `process.exit(0)` (`apps/api/src/main.ts:55`,
  `workers/src/main.ts:29`), which drops what the exporter has buffered, as a crash does.
- `CohortFitsTheJob`: one selection. What a redelivered selection adds to the assignments of the first
  (`execution.ts:135`) is not covered.
- `EveryMessageEnds`: unless the process is shut down, the in-memory driver is lost with it, or a crash falls
  between BullMQ's last attempt and its listener. With BullMQ the first failed attempt already counts as reported.

## 4. Fairness

- *Pipeline* (`pipeline_recovery`). A started handler keeps running (weak fairness of its steps): Node schedules
  its continuation and every call it awaits has a timeout. The poll loop keeps reading (weak fairness of each
  delivery). A lease that no live run holds expires. Creation, operator ticks and faults are owed nothing.
- *Settlement*. A sweep that runs goes on. Nothing in the repository starts a sweep: that an operator with a
  driver runs the script over all jobs again and again is assumed (strong fairness of `Plan` over all jobs,
  because a sweep slot is free only from time to time).
- *Guard*. A client's next step is taken: the database serves a statement or the pool's timeout ends the wait.
  `connectionTimeoutMillis` (3 s) is below the transaction timeout (5 s) on purpose, so the transaction timeout is
  a fault and not relied upon.
- *Resolution*. Time passes, and each sweep slot goes on and starts again: the worker sweeps on an interval.
- *API*. The client's own steps, its abort timer (weak fairness), and the deadline of the polling loop (strong:
  the loop comes back to its test for ever, and each poll takes time). A page's fetches are made or cut. Nothing
  is assumed of the gateway, which may never answer.
- *Queues*. The event loop runs what is ready and fires timers, and a handler ends (weak fairness of
  `WorkerStep`).

## 5. Theorems

All hold for every value of the constants, under the named assumptions of the modules (`BoundsAssumption`,
`SettlementAssumption`, `GuardAssumption`, `AutomationAssumption`, `ResolutionAssumption`, `SignInAssumption`,
`GatewayAssumption`, `ProvenanceAssumption`, `DriverAssumption`, `ReppoAssumption`, `AgentAssumption`,
`InputsAssumption`: finite sets, typed parameters, disjoint names, bounds that are numbers, prices, budgets and counts
that are numbers, every token naming a person, and the two conditions on rows of section 3). TLC evaluates each assumption in a run. A theorem that needs a
condition the code does not establish carries it as a hypothesis, named in the table; section 3 says what happens
without it.

| Theorem | Property | Hypothesis and argument |
|---|---|---|
| `JobPipelineProofs!TypeCorrect` | `TypeOK` | types, with the shape of a slot: idle exactly when it has no task, a read status only inside a transition |
| `JobPipelineProofs!AuditRowsLegal` | `EventsLegal` | a run inside a transition has a legal move in its hands (`seen`), so the row it appends is legal although the status has moved under it |
| `JobPipelineProofs!PaymentFollowsIntelligence` | `PaidForIntelligence` | `consensus` never becomes empty again and the trail only grows; a run at `judge`, `toResolved`, `count` or `mint` knows its job's consensus or resolution |
| `JobPipelineProofs!OneWorkerPerMessage`, `PaidOnce`, `ScoredOnce` | `OneWorker`, `RewardsOnce`, `EvaluatedOnce` | without expiries under live runs a leased message has one reader; what that run has counted or found stays true until it writes |
| `JobPipelineProofs!PipelineFollowsLifecycle`, `AssignmentsAreClosed` | `ImplementsLifecycle`, `NoLeakedAssignments` | `Calm`: no fault, no operator. See below |
| `SettlementProofs!NeverPaidTwice`, `NothingUnrecorded`, `SweepsDisjoint`, `SettledWasPaid` | `PaidAtMostOnce`, `PaymentsRecorded`, `OneOwner`, `SettledIsConfirmed` | see below |
| `SettlementProofs!SettlementKeepsPromise` | `ImplementsPromise` | every step maps to a step of `PaymentPromise` or a stutter |
| `SettlementProofs!OverBudgetIsHeldWhole` | `HeldWhole` | `[]PageSuffices`: a page holds all that is outstanding. The rows of a job are written together and none of an over-budget job ever leaves PENDING, so each plan sees the job's whole sum and holds it |
| `CeilingProofs!GuardTypeCorrect` | `GuardTypeOK` | every action |
| `CeilingProofs!SpendingIsCharged` | `WorkIsCharged` | nothing is spent before the row holds the whole estimate, and reconciliation never writes less than was spent |
| `CeilingProofs!CeilingsAreHard` | `CeilingsHold` | the hypotheses are in the property. The lock excludes (`LockExcludes`), every step but an insert lowers what is charged in any window (`LedgerLowers`), so what passed its check is still allowed at its insert |
| `CeilingProofs!AutomationTyped` | `TypeOK` | every action |
| `CeilingProofs!AutomationKeepsBook` | `ImplementsBook` | any number of concurrent evaluations and sweeps. A row once closed never changes; a sweep at `note` holds a position that is booked and not yet noted, and no two sweeps hold one |
| `CeilingProofs!EntriesKeepCeilings` | `EntryWithinCeilings` | `Serial`: one evaluation at a time. Sweeps only close, so what the evaluation read covers what is open, and the gates are monotone in the book |
| `ResolutionProofs!ResolutionTyped` | `TypeOK` | every action |
| `ResolutionProofs!OutagesCostNoScore` | `HonestVerdicts` | every prediction is one its oracle knows how to ask about (`Askable`); the others are declined before anything is asked. A sweep holds a due prediction and a verdict with grounds |
| `ResolutionProofs!VerdictsAreFinal` | `ImplementsVerdicts` | row and outcome are written by one transaction, which the unique row refuses to a second sweep |
| `WorkerProofs!ClaimsLinked` | `CitationsAreLinked` | an agent cites only what it read; rows are never removed, and one source of a job has one row per edition, so what an ignored insert reads back is the row of its source |
| `WorkerProofs!PoolsAreKept` | `PoolIsKept` | an action property. A filter by the job's own datanets can only narrow them; sorting and cutting a non-empty list leave it non-empty |
| `WorkerProofs!OneDeliveryAtATime` | `OneDelivery` | from `DriverInvariant`, below |
| `WorkerProofs!WorkIsTraced` | `TraceFollowsWork` | every parcel carries the context that its message was enqueued under, and what is formatted is parsed back (`RoundTrip`) |
| `WorkerProofs!SpansReachTheCollector` | `NoSpanStranded` | a recorded span that has ended is buffered or sent, once, and a buffer that is neither empty nor full has its timer |
| `WorkerProofs!DenialIsNeverMasked` | `FixturesNeverMaskDenial` | from `AgentInvariant`, below |
| `WorkerProofs!OwnedRowsLead` | `OwnedLead` | what the credential owns is an operator of upstream's, and the answer to a page any listing that begins with it. A listing that is done has brought its page; merging, filter and cut leave a row at a place no later than it had on the page (`Placed`), so none of its first `Limit` rows is cut |
| `WorkerProofs!EvidenceStaysInScope` | `EvidenceInScope` | a tool that reads was aimed inside the scope (`Aimed`), and what a call answers is of the datanets it was aimed at, live or recorded |
| `WorkerProofs!ClaimsAreLinkedToWhatWasRead` | `ClaimsCiteWhatWasRead` | each note tells the ref of the row it speaks of (`Told`), and what is appended leaves earlier refs alone |
| `GatewayProofs!RevocationTakesEffect` | `RevocationBounded` | see below |
| `GatewayProofs!PersonsKeepTheirAccount` | `StableIdentity` | `[]NoRivalClaim`. Live accounts have different DIDs and the account a person had when a sign-in began keeps that DID, so the lookup by DID finds it at every statement and the row in hand is that account |
| `GatewayProofs!TenantsSeeTheirOwn` | `AnswersAreOwn`, the first conjunct of `ReportsAreOwn` | an answer is formed from the rows its scope filters; rows that exist keep their owner, so the answer stays right while it is on its way. Of an evaluation, and of a listing of positions, it says which rows they may show: what is in the trail is a job that was resolved, and what holds a position an automation (`Books`), and both stay so |
| `GatewayProofs!ReportsFollowTheirJob` | `ReportIsOfTheJob`, its second conjunct | a client that polls holds the id of a row, its request is about that row until it is answered with it, and a resolved job stays resolved |
| `AlgorithmsProofs!CohortsFitTheirJobs` | `CohortFitsTheJob` | who is seated is eligible, costs at most the job's part of the budget, and is not seated again; see below |
| `AlgorithmsProofs!TheBestAreTaken` | `TakesTheBest` | no set of as many jobs is worth more than the first of the ranking; see below |
| `AlgorithmsProofs!SplitKeepsTheBudget` | `KeepsBudget`, of any settings of the four roles | a positive sum of shares (with all shares zero nothing is paid). Each row is within half a unit of its exact part, and the exact parts sum to the budget |
| `AlgorithmsProofs!SplitsKeepTheirBudgets` | `SplitKeepsBudget` | the same of the rows the stage wrote, whose sum of shares is positive as the roles left unset keep their defaults |

*Payment.* `PaidAtMostOnce` alone is not inductive: a sweep at `pay` could have been preceded by a payment. The
invariant `PaidInv` adds `Ownership`: a sweep past its claim owns a reward that is no longer PENDING, at `pay`
that reward has the row this sweep inserted and nothing was sent, at `record` exactly one payment was sent and a
CONFIRMED receipt means it landed. `OneOwner` keeps these facts from being disturbed by other sweeps, and since
transaction rows are never deleted, a reward given back to PENDING after a payment cannot reach `pay` again. That
is also why the retry of a failed payment does not work.

*The life cycle.* Each move the pipeline writes is one it checked, but against a status read earlier, so the
refinement needs that nobody else moves the job in between. `CalmInv` says so through four facts. `OneBaton`: of
one job there is either one run at work or one message that waits, never two of anything. `InStep`: the status is
the one that the run's step, or the message's queue, expects (`Before`, `Awaits`), and a status that was read is
still the status. `LeasesHeld`: a leased message has its run. `Attended`: an open assignment has a run that will
close it. A new baton is made only by the creation of the job and by the hand-over to the next queue, after which
the sender has nothing left to do but acknowledge; that is what makes the first fact inductive.

*Ceilings.* The guard and the automation share no variable; `CeilingProofs` extends both, as each keeps a sum under a
ceiling while others change what is summed. What was checked stays true until it is written for two reasons: only an
insert raises what is charged, and the lock keeps inserts apart; only an entry adds to the book, and there is one at a
time.

*Revocation.* The bound on the age of an identity follows from two facts about time: an entry of the cache that
still has `left` ticks to live holds a credential revoked at most `TTL + MaxLookup - left` ticks ago
(`CacheFades`), and a lookup under way began before the revocation, no longer ago than it has waited
(`RequestsAreTimely`). A hit leaves `left` alone, which is the point of the design; a lookup that finds a key
after its rotation finds no account (`RevokedKeysAreGone`, with `UsersKept`: a key is one account's).

*What runs in the worker process.* One process holds the queue driver with its tracer, the agents' runs with their
adapter, and the stages that store evidence. `WorkerProofs` extends the three models, which share no variable, and
proves each one's theorems from one stock of lemmas on arrays.

*Deliveries.* `OneDelivery` alone does not survive a retry: a parcel leaves the hands of its handler and comes back to
a list or a timer. `DriverInv` counts a message wherever it is. `Apart`: whatever is listed, delayed or running is of
different messages, and in the queue of its own. `Carries`: a parcel is of an id that was seen, has the trace of its
first enqueue, its message is not done, and the spans of its earlier deliveries have lower numbers, so the next
one's name is free. `History`: a follower is enqueued after its leader, and nothing is delivered that never was
enqueued, which is why what the handler of a redelivered job enqueues again is dropped. `Traces` and `Ledger` follow
the spans: each context is that of a span that exists, and those that have ended are in the buffer or were sent, never
in both. A crash keeps Redis's parcels and loses the process's spans with their buffer. `Drained`,
`LeaveEffect` and `PushEffect` say once what a drained queue and an enqueue leave behind; each step cites them.

*Reads and evidence.* `AgentInv` joins the layers. `CallInv` says of each adapter call what its branches hold and that
its answer is a denial, a recording or the merge that it should be. `Aimed` ties the tool that waits to the call
in its slot. `EvidenceInv`: the collector lists a row once, in scope, and `Told`: every note's ref points at the row
it told of, and every row was told. `MockInv` is needed because the mock cites places: it asks for one tool at a
time and only while nothing was shown, so its places are the refs. The proof that merged rows keep their owner in
front is on arrays: a filter, a sort and a cut take places of an array in an order, so each result is determined by
where its rows were (`RowsInPosition`, `PositionTaken`).

*The arithmetic.* `Algorithms` computes in fractions, which `Frac` puts in lowest terms by Euclid's algorithm. It is a
recursive function on pairs of numbers; that it unfolds, and returns the greatest number that divides both, is proved
by the least counterexample, on the second of the pair (`GcdUnfolds`, with `LeastNumber` of `Sums`). So a fraction
keeps its value (`FracKeeps`), `Plus` and `Times` stay fractions and `Plus` computes the sum across (`PlusKeeps`), and
`AtMost` is the order of the products across (`AtMostAcross`), total and transitive (`AtMostOrder`). On these rest:

- *The cohort.* An order of that kind has a first of its best in any finite set (`FirstOfBest`), so `NextSeat` names
  somebody who is left. A list of seats is a list of places, none twice (`Places`); each seat adds one while somebody
  is left (`SeatOneKeeps`), hence as many are seated as were asked for or as there are (`SeatedKeeps`). What one costs
  is at most budget / seats (`WithinItsPart`), and the sum of at most `seats` such prices at most the budget. A job
  without a budget has no ceiling. The score itself only has to be a fraction, whatever its weights.
- *The jobs an operator takes.* The order by attraction, the earlier of equals first, is total and strict, so the
  numbers of those ranked before are 0, 1, 2, ... and `Ranked` lists each accepted job once (`RanksApart`,
  `RankRight`). What is taken is as many as there is room for and each at least as attractive as what is not
  (`TakenBest`). Worths are sums of fractions: over a common denominator of all the attractions (`CommonDenominator`)
  they are sums of numbers, and a set of numbers that are each at least as large as those outside it has the
  greatest sum among the sets that are no larger (`BestTogether`).
- *The input.* The three theorems of `Spec` add that what a stage was run on is still the input (`SelectInv`,
  `OffersInv`, `SplitInv`), which is what relates the outcome to it.

*Sums.* Ceilings, budgets and splits are sums over sets whose size is a parameter. The induction theorems of the
library take an operator as a parameter, which the provers cannot instantiate; but "every subset of a finite set
has it" can be proved by its least counterexample, a minimal element of a set of subsets under strict inclusion,
which is well-founded (`FS_StrictSubsetOrderingWellFounded`). `Sums` proves in that way, for the library's
`SumFunctionOnSet`, that the sum exists and unfolds, may be taken in any order, is unchanged by renaming what it
runs over, is monotone, and bounds the rounding of its terms.

Only model-checked:

- Liveness (`JobsConclude`, `ResolvedArePaid`, `PayableConcludes`, `CallsEnd`, `EveryPredictionSettles`,
  `EveryMessageEnds`, `RunJobEnds`), which with ENABLED is out of the prover's reach.
- Of `Algorithms`, `VoicesCountOnce`, `MergeIsOrderFree`, `ContestedIsNotReliedOn` and `HonestyPays`. The first three
  are about clusters and weights, which are built by adding one claim, or clamping in one pass, to what was computed so
  far, and are compared between two merges or with the weights they were made from: each needs an induction of its own
  over the claims, with the sums of products of fractions that the weights are. `HonestyPays` compares squares, means
  and powers of fractions, which the provers' arithmetic does not reach.
- `PagesAreOwn`, the last conjunct of `ReportsAreOwn`. For any accounts it would need that a token keeps its account
  from one request of a page to the next, which does not hold of a person who was let in by the wallet of another's
  account (`auth.ts:86`) once that wallet moves on; within the run's bounds no page meets this.

## 6. Where the code and its documents part

Met while modelling; the models follow the code.

- `auth.ts:10` (and `README.md:208`, `docs/architecture.md:48`) has callers see only their own jobs; the body of
  `POST /v1/automations/:id/evaluate` names any job (`automations.ts:350`, `execution/src/engine.ts:49`), whose
  verdict or position (`engine.ts:189`) the answer then tells, and on which a position may open.
- `docs/protocol.md:37` "a late worker cannot resurrect a finished job": the status is read and then written by id.
  A worker that dies between sending the next stage's message and deleting its own leaves a redelivery whose
  transition is illegal by then; it throws, exhausts its attempts, and `onFailed` fails a job that is further on,
  or writes FAILED over RESOLVED.
- `pgmq.ts:79` promises that a consumer that dies mid-job "does not take the job with it"; between the dedupe key
  (`pgmq.ts:140`) and the send it does: later enqueues are dropped as duplicates.
- `pipeline.ts:255`: the consensus stage stores reputation snapshots that its own redelivery reads as weights. If
  it died after writing RESOLVED, the second merge can miss the job's minimum; `fail` changes nothing, the stage
  returns, and the resolved job is never handed on for payment.
- `job-engine.ts:120`: `fail` swallows a failed write, after which the message is acknowledged and the job stays
  where it was.
- `settlement.ts:213` "Back to PENDING so a later sweep can retry": the FAILED transaction row keeps the unique
  `rewardId`, so later sweeps stop there.
- `settlement-plan.ts:29` "Tolerance for the budget check": a budget of 10 shared by six equal contributors is
  written as 10.000002 and held for ever.
- `execution/src/policy.ts:4` "a hard ceiling enforced *before* a position is opened": two concurrent evaluations
  read the same book and both open.
- `reppo-adapter/src/index.ts:47` says a rejected credential "does *not* degrade"; a search over selected datanets
  catches every error of its batches (`http-provider.ts:247`).
- `http-provider.ts:141` puts owned rows first lest the limit "silently drop the only rows the credential was configured
  to reach"; `/me` is asked for one page over all datanets (277-301) and filtered afterwards (152, 210), so owned rows
  of other datanets do crowd out those asked for once more is owned than a page holds.
- `cluster.ts` "Identical cohorts must merge identically": of a textual metric the first value submitted is kept
  (`consensus/src/engine.ts:314`), of a risk stated twice at one severity the first wording (367), and the lists
  of equals come in the order of the outputs.
- `automations.ts:28` takes a partial policy; with `zod ^4.4.3` the fields left out come back as defaults, so a PATCH of
  one field resets the others.
- `job-worker/index.ts:27` "Exhausting every retry is a terminal outcome": BullMQ's `failed` event, to which
  `onFailed` is bound (`bullmq.ts:126`), comes with every failed attempt.
- `types/prediction.ts:51` keeps a timeout apart from a source that will never answer; an unreachable datanet
  throws an ordinary error at `resolution.ts:159` and its prediction is written off.
- `execution.ts:449` "Explicit scoping on the job always wins": if its datanets have left the listing the scope
  is empty, which the tools take for no restriction.
- `execution.ts:600` "both writers are copying the same upstream row anyway": the link to a datanet is each
  writer's own earlier read, so a stale empty one can overwrite.
- `auth.ts:67` wants a person's automations not to vanish with a change of wallet; the claim of an account without
  a DID (`auth.ts:84`) is an update by id alone. Two persons who prove the same unclaimed wallet at once both read
  the account as nobody's, and the later update takes it from the first, who is a new person at the next sign-in.
- `operator.ts:82` starts the next tick while the last one runs, with a list of jobs read before it.

## 7. Not modelled

- Floating point. The algorithms use exact fractions, and the split takes the steps before `toFixed(6)` as exact,
  with the upper unit on a tie.
- Text: prompts, wire formats, the parsing of upstream payloads and of requests, the wording of
  summaries, explanations and logs.
- The rendering of the web application, its landing pages and charts, and `lib/token.ts`, which derives a price
  for display and stores nothing.
- Command-line entry points, seeds, benchmarks and demonstrations, beyond the calls they make.
- `KeyedMutex` and `MemorySpendLedger`, which only tests use; the delay option of the queues, messages without a
  dedupe id, and how long Redis keeps a finished job, which nothing depends on.
- Validation schemas and columns that no modelled decision reads.
- The LIVE mode of automations, which no driver can enter.
- Loads across jobs: selection reads an agent's open assignments and the insert does not look again, so two jobs
  together can exceed `maxConcurrent`; `JobPipeline` takes any cohort.

## 8. What is left

1. The merge as theorems: that clamping keeps the sum of the weights, and that clusters do not depend on the order of
   the claims. The fractions and their sums are there (`AlgorithmsProofs`).
2. The load of agents as state of the pipeline, and the agents' heartbeats and registration by the operator.
3. The pipeline over the BullMQ and in-memory drivers, whose `onFailed` differs from pgmq's.
