----------------------------- MODULE Resolution -----------------------------
(***************************************************************************)
(* The prediction sweep (ResolutionStage of packages/protocol/src/         *)
(* resolution.ts), started by the timer of workers/src/resolution-worker   *)
(* and by scripts/resolve.ts --execute.  Nothing keeps two sweeps apart.   *)
(* A sweep lists the due rows, asks an oracle about each in turn, and      *)
(* writes outcome and resolution row in one transaction.                   *)
(***************************************************************************)
EXTENDS Integers, FiniteSets, FiniteSetsExt, Functions

CONSTANTS
    Venues,          \* PRICE_VENUES
    PriceEnabled,    \* ORACLE_PRICE_ENABLED
    Endpoints,       \* the RPC endpoints by chain (ORACLE_RPC_<chainId>)
    MaxLag,          \* DEFAULT_MAX_LAG_MS, in ticks
    MaxSpreadPct,    \* maxSpread
    Predictions,
    Prediction,      \* by id: source, metric, operator, threshold, numeric,
                     \* confidence, deadline
    Sweepers,        \* slots for concurrent sweeps
    Batch,           \* take: 200
    PriceReplies,    \* what a venue may reply
    ChainReplies,    \* what an RPC endpoint may reply
    DecimalsReplies,
    CurationReplies, \* what the data network may reply: <<>> for an error, or
                     \* <<the volumes by datanet that exists>>
    Tables,          \* bound: the sets of predictions outputs may have carried
    Horizon,         \* bound: the last tick
    MaxFaults        \* bound: sweeps lost, statements failed or unanswered

ASSUME ResolutionAssumption ==
    /\ Batch \in Nat \ {0} /\ {Horizon, MaxFaults, MaxLag} \subseteq Nat
    /\ Tables \subseteq SUBSET Predictions
    /\ \A p \in Predictions : Prediction[p].deadline \in Nat

(***************************************************************************)
(* The oracles, as functions of what their sources reply (oracles.ts,      *)
(* CurationOracle of resolution.ts).  An oracle answers with a value,      *)
(* declines (null), finds its source unreachable (OracleUnavailableError)  *)
(* or throws.  A locator is a record; its kind is the prefix of the        *)
(* source's string.  Chain values are in millionths, approval rates in     *)
(* percent.                                                                *)
(***************************************************************************)
Value(v)    == [is |-> "value", value |-> v]
Declined    == [is |-> "null"]
Unreachable == [is |-> "unreachable"]
Thrown      == [is |-> "thrown"]

\* A reply is a number, or Fault for a request that failed.
\* Empty is the chain's "0x", as a call of no contract answers.
Fault == -1
Empty == -2

\* The kinds are disjoint, so the first oracle that supports a source is the
\* only one.  A chain without endpoints is not supported.
Supporting(source) ==
    CASE source.kind = "reppo" -> "reppo-curation"
      [] source.kind = "price" /\ PriceEnabled -> "price"
      [] source.kind = "chain" /\ source.chain \in DOMAIN Endpoints
            /\ Endpoints[source.chain] # {} -> "chain"
      [] OTHER -> "none"

WithinLag(deadline, since) == since - deadline <= MaxLag

\* Mutant of TooLate: a missed moment is retried like an outage.
TooLateRetries == Unreachable

TooLate == Declined

-----------------------------------------------------------------------------
(* Price: every venue is asked, the ones without a positive price are absent *)

Collect(replies) == {v \in Venues : replies[v] > 0}

Median(prices) == SumSet(prices) \div Cardinality(prices)   \* one or two venues

Spread(prices) == 100 * (Max(prices) - Min(prices))

\* Mutant of NoVenue: an outage is taken for an answer.
NoVenueDeclines == Declined

NoVenue == Unreachable

PriceAnswer(p, since, replies) ==
    LET prices == {replies[v] : v \in Collect(replies)}
        value == Median(prices)
    IN  IF p.metric \notin {"spot", "price"} \/ ~p.source.parses THEN Declined
        ELSE IF ~WithinLag(p.deadline, since) THEN TooLate
        ELSE IF prices = {} THEN NoVenue
        ELSE IF Spread(prices) > MaxSpreadPct * value THEN Declined
        ELSE Value(value)

-----------------------------------------------------------------------------
(* Chain *)

\* Promise.any over the chain's endpoints: the first quantity wins, and only
\* when all fail does the call.
Call(chain, replies) ==
    IF \A u \in Endpoints[chain] : replies[u] = Fault
    THEN {Fault} ELSE {replies[u] : u \in Endpoints[chain]} \ {Fault}

ToNumber(raw, decimals) == (raw * 1000000) \div (10 ^ decimals)

\* decimalsOf: null outside 0..36.
Scaled(raw, decimals) ==
    IF decimals \in 0..36 THEN Value(ToNumber(raw, decimals)) ELSE Declined

\* The two calls of a token metric run side by side; either one's failure is
\* the whole answer's, and so is decimals that are no number.
ChainAnswer(p, since, raw, decimals) ==
    LET ofAddress == {"native_balance", "erc20_total_supply", "erc20_balance_of"}
        failed == raw = Fault
                    \/ /\ p.metric \in ofAddress \ {"native_balance"}
                       /\ decimals \in {Fault, Empty}
    IN  IF ~WithinLag(p.deadline, since) THEN TooLate
        ELSE IF /\ p.metric # "block_number"
                /\ p.metric \notin ofAddress \/ ~p.source.address THEN Declined
        ELSE IF failed THEN Unreachable
        ELSE IF raw = Empty THEN Declined
        ELSE CASE p.metric = "block_number"   -> Value(ToNumber(raw, 0))
               [] p.metric = "native_balance" -> Value(ToNumber(raw, 18))
               [] OTHER                       -> Scaled(raw, decimals)

-----------------------------------------------------------------------------
(* Curation: the vote volumes of the job's datanets *)

\* replies gives the volumes of the datanets that exist.  There is no lag, and a
\* failed request throws as any error does.
CurationAnswer(p, replies) ==
    LET up == MapThenSumSet(LAMBDA d : replies[d].up, DOMAIN replies)
        down == MapThenSumSet(LAMBDA d : replies[d].down, DOMAIN replies)
    IN  IF p.metric = "corpus_approval_rate" /\ up + down > 0
        THEN Value((100 * up) \div (up + down)) ELSE Declined

-----------------------------------------------------------------------------
(* types/prediction.ts *)

Orderings == {"gt", "gte", "lt", "lte"}

\* A textual threshold is compared as text: orderings throw.
Evaluable(criteria) == criteria.numeric \/ criteria.operator \notin Orderings

EvaluateCriteria(criteria, v) ==
    CASE criteria.operator = "gt"  -> v > criteria.threshold
      [] criteria.operator = "gte" -> v >= criteria.threshold
      [] criteria.operator = "lt"  -> v < criteria.threshold
      [] criteria.operator = "lte" -> v <= criteria.threshold
      [] criteria.operator = "eq"  -> v = criteria.threshold
      [] criteria.operator = "neq" -> v # criteria.threshold

\* In percent: 0 is perfect, 10000 maximally wrong.
BrierScore(confidence, wasTrue) == (confidence - (IF wasTrue THEN 100 ELSE 0)) ^ 2

(***************************************************************************)
(* The sweep.                                                              *)
(***************************************************************************)
VARIABLES
    stored,      \* the predictions that outputs carried, rows of the table
    outcome,     \* Prediction.outcome
    resolution,  \* PredictionResolution by its unique predictionId
    now,
    sweep,       \* per sweeper, the sweep it is in
    faults       \* how much of MaxFaults has been used

vars == <<stored, outcome, resolution, now, sweep, faults>>

Idle == [at |-> "idle"]
Unsettled == [outcome |-> "PENDING"]

Init ==
    /\ stored \in Tables
    /\ outcome = [p \in Predictions |-> "PENDING"]
    /\ resolution = [p \in Predictions |-> Unsettled]
    /\ now = 0
    /\ sweep = [s \in Sweepers |-> Idle]
    /\ faults = 0

Sweeps(s, r) == sweep' = [sweep EXCEPT ![s] = r]

\* run(now): the clock is read once and is the sweep's ever after.
Start(s) ==
    /\ sweep[s] = Idle
    /\ Sweeps(s, [at |-> "list", since |-> now])
    /\ UNCHANGED <<stored, outcome, resolution, now, faults>>

Due(since) == {p \in stored : outcome[p] = "PENDING" /\ Prediction[p].deadline <= since}

\* take without orderBy: any rows of those due.
List(s) == LET c == sweep[s] IN
    /\ c.at = "list"
    /\ \E rows \in SUBSET Due(c.since) :
          /\ Cardinality(rows) = Min({Batch, Cardinality(Due(c.since))})
          /\ Sweeps(s, [at |-> "rows", since |-> c.since, rows |-> rows])
    /\ UNCHANGED <<stored, outcome, resolution, now, faults>>

\* History only, so that a wrong lag in the code does not pass for a right one.
Timely(p, since) == since - Prediction[p].deadline <= MaxLag

\* The row to write.  Its grounds are history: the sweep came "late", a reply was
\* "heard", or "nothing" was.
Verdict(result, by, brier, grounds) ==
    [outcome |-> result, by |-> by, brier |-> brier, grounds |-> grounds]

Grounds(p, since, heard) ==
    CASE ~Timely(p, since) -> "late" [] Timely(p, since) /\ heard -> "heard"
      [] OTHER -> "nothing"

\* brierScore null.
NoScore == -1

Failed(grounds) == Verdict("UNRESOLVABLE", "error", NoScore, grounds)

Judged(q, wasTrue, grounds) ==
    Verdict(IF wasTrue THEN "TRUE" ELSE "FALSE", Supporting(q.source),
            BrierScore(q.confidence, wasTrue), grounds)

\* A failure to write is caught where record is called inside the try.
ToRecord(s, p, verdict, caught) ==
    Sweeps(s, [at |-> "record", since |-> sweep[s].since, rows |-> sweep[s].rows \ {p},
               id |-> p, verdict |-> verdict, caught |-> caught])

NoOracle(s, p) == LET c == sweep[s] IN
    /\ c.at = "rows" /\ p \in c.rows
    /\ Supporting(Prediction[p].source) = "none"
    /\ ToRecord(s, p, Verdict("UNRESOLVABLE", "none", NoScore, "nothing"), FALSE)
    /\ UNCHANGED <<stored, outcome, resolution, now, faults>>

\* What observe may answer about p in a sweep of that clock, and whether any
\* reply of the source is behind it (heard).
Asked(answer, heard) == [answer |-> answer, heard |-> heard]

Replies(chain, set) == UNION {Call(chain, r) : r \in [Endpoints[chain] -> set]}

Answers(p, since) == LET q == Prediction[p] IN
    CASE Supporting(q.source) = "price" ->
            {Asked(PriceAnswer(q, since, r), Collect(r) # {}) : r \in [Venues -> PriceReplies]}
      [] Supporting(q.source) = "chain" ->
            {Asked(ChainAnswer(q, since, raw, decimals), {raw, decimals} # {Fault}) :
                raw \in Replies(q.source.chain, ChainReplies),
                decimals \in Replies(q.source.chain, DecimalsReplies)}
      [] Supporting(q.source) = "reppo-curation" ->
            {Asked(IF r = <<>> THEN Thrown ELSE CurationAnswer(q, r[1]), r # <<>>) :
                r \in CurationReplies}

AnswersBy == [p \in {q \in Predictions : Supporting(Prediction[q].source) # "none"} |->
                 [since \in 0..Horizon |-> Answers(p, since)]]

Observe(s, p) == LET c == sweep[s]  q == Prediction[p] IN
    /\ c.at = "rows" /\ p \in c.rows
    /\ Supporting(q.source) # "none"
    /\ \E x \in AnswersBy[p][c.since] :
          LET a == x.answer  grounds == Grounds(p, c.since, x.heard) IN
          \/ /\ a = Unreachable                  \* deferred: stays PENDING
             /\ Sweeps(s, [at |-> "rows", since |-> c.since, rows |-> c.rows \ {p}])
          \/ /\ a = Declined
             /\ ToRecord(s, p, Verdict("UNRESOLVABLE", Supporting(q.source), NoScore, grounds),
                         TRUE)
          \/ /\ a.is = "value" /\ Evaluable(q)
             /\ ToRecord(s, p, Judged(q, EvaluateCriteria(q, a.value), grounds), TRUE)
          \/ /\ a = Thrown \/ (a.is = "value" /\ ~Evaluable(q))
             /\ ToRecord(s, p, Failed(grounds), FALSE)
    /\ UNCHANGED <<stored, outcome, resolution, now, faults>>

\* Mutant of Free: the resolution's predictionId is not unique.
Anyway(p) == TRUE

\* predictionId is unique: a second row fails its transaction, the update of the
\* outcome included.
Free(p) == resolution[p] = Unsettled

Write(c) ==
    /\ outcome' = [outcome EXCEPT ![c.id] = c.verdict.outcome]
    /\ resolution' = [resolution EXCEPT ![c.id] = c.verdict]

Onwards(s) == Sweeps(s, [at |-> "rows", since |-> sweep[s].since, rows |-> sweep[s].rows])

\* A rejected transaction: inside the try the prediction is written off, as an
\* error of the oracle; outside it the sweep rejects and skips its other rows.
Rejected(s) == LET c == sweep[s] IN
    IF c.caught
    THEN Sweeps(s, [c EXCEPT !.verdict = Failed(c.verdict.grounds), !.caught = FALSE])
    ELSE Sweeps(s, Idle)

Record(s) == LET c == sweep[s] IN
    /\ c.at = "record"
    /\ IF Free(c.id)
       THEN Write(c) /\ Onwards(s)
       ELSE Rejected(s) /\ UNCHANGED <<outcome, resolution>>
    /\ UNCHANGED <<stored, now, faults>>

Finish(s) ==
    /\ sweep[s].at = "rows" /\ sweep[s].rows = {}
    /\ Sweeps(s, Idle)
    /\ UNCHANGED <<stored, outcome, resolution, now, faults>>

-----------------------------------------------------------------------------
Faulty == faults < MaxFaults /\ faults' = faults + 1

\* The database refuses the transaction, or commits it and the reply is lost.
RecordFails(s) == LET c == sweep[s] IN
    /\ Faulty
    /\ c.at = "record"
    /\ \/ UNCHANGED <<outcome, resolution>>
       \/ Free(c.id) /\ Write(c)
    /\ Rejected(s)
    /\ UNCHANGED <<stored, now>>

\* The process is lost, or the listing fails.
Lost(s) ==
    /\ Faulty
    /\ sweep[s] # Idle
    /\ Sweeps(s, Idle)
    /\ UNCHANGED <<stored, outcome, resolution, now>>

Tick ==
    /\ now < Horizon
    /\ now' = now + 1
    /\ UNCHANGED <<stored, outcome, resolution, sweep, faults>>

SweepStep(s) ==
    \/ Start(s) \/ List(s) \/ Record(s) \/ Finish(s)
    \/ \E p \in Predictions : NoOracle(s, p) \/ Observe(s, p)

Next ==
    \/ \E s \in Sweepers : SweepStep(s) \/ RecordFails(s) \/ Lost(s)
    \/ Tick

\* The timer fires for as long as a worker lives, a request answers or times
\* out, and time passes.
Fairness == WF_vars(Tick) /\ \A s \in Sweepers : WF_vars(SweepStep(s))

Spec == Init /\ [][Next]_vars /\ Fairness

-----------------------------------------------------------------------------
(* Properties *)

\* A sweep keeps its clock, and a score is stored exactly with a verdict that
\* was reached from an observation.
TypeOK ==
    /\ now \in Nat
    /\ \A p \in Predictions :
          /\ outcome[p] \in {"PENDING", "TRUE", "FALSE", "UNRESOLVABLE"}
          /\ outcome[p] \in {"TRUE", "FALSE"} =>
                resolution[p].brier = BrierScore(Prediction[p].confidence, outcome[p] = "TRUE")
          /\ outcome[p] = "UNRESOLVABLE" => resolution[p].brier = NoScore
    /\ \A s \in Sweepers : sweep[s] # Idle => sweep[s].since <= now

\* resolution.ts:121: the transaction and its unique key make a verdict final.
\* With sweeps side by side that observed different values, failed writes, lost
\* replies and lost sweeps, a prediction settles once, after its deadline, and
\* row and outcome agree.
Promise == INSTANCE Verdicts WITH
    Deadline <- [p \in Predictions |-> Prediction[p].deadline], clock <- now
ImplementsVerdicts == Promise!VerdictSpec

Spot(p) == Supporting(Prediction[p].source) \in {"price", "chain"}

\* oracles.ts:16: a spot reading scores a prediction only in a sweep that began
\* within the lag, and where nobody threw an outage alone costs no prediction
\* its score: one that is written off was late, or its source did answer.
HonestVerdicts == \A p \in Predictions : outcome[p] # "PENDING" /\ Spot(p) =>
    LET r == resolution[p] IN
    IF outcome[p] = "UNRESOLVABLE" THEN r.grounds # "nothing" ELSE r.grounds = "heard"

\* types/prediction.ts:56: deferral is bounded without a counter: whatever the
\* sources do, and whichever rows the limit leaves out, every prediction settles.
EveryPredictionSettles ==
    \A p \in Predictions : p \in stored ~> outcome[p] # "PENDING"
=============================================================================
