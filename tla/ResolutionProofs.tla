-------------------------- MODULE ResolutionProofs --------------------------
(***************************************************************************)
(* Theorems of Resolution, for any predictions, sweeps, replies of the     *)
(* sources, batch size, lag and bounds on time and faults.                 *)
(***************************************************************************)
EXTENDS Resolution, TLAPS

Settled  == {"TRUE", "FALSE", "UNRESOLVABLE"}

\* The oracle knows how to ask about p; otherwise it declines before it asks.
Askable(p) == LET q == Prediction[p] IN
    /\ Supporting(q.source) = "price" => q.metric \in {"spot", "price"} /\ q.source.parses
    /\ Supporting(q.source) = "chain" =>
          \/ q.metric = "block_number"
          \/ /\ q.metric \in {"native_balance", "erc20_total_supply", "erc20_balance_of"}
             /\ q.source.address

\* What may be written about p: its score is that of the verdict, and a spot
\* reading has grounds.
Scored(p, v) ==
    /\ v.outcome \in {"TRUE", "FALSE"} =>
          v.brier = BrierScore(Prediction[p].confidence, v.outcome = "TRUE")
    /\ v.outcome = "UNRESOLVABLE" => v.brier = NoScore

Grounded(p, v) == Spot(p) /\ Askable(p) =>
    IF v.outcome = "UNRESOLVABLE" THEN v.grounds # "nothing" ELSE v.grounds = "heard"

Sound(p, v) == v.outcome \in Settled /\ Scored(p, v) /\ Grounded(p, v)

\* p was due when the sweep of that clock listed it.
WasDue(p, since) == p \in Predictions /\ Prediction[p].deadline <= since

SweepKept(c) ==
    \/ c = Idle
    \/ /\ c.at \in {"list", "rows", "record"}
       /\ c.since \in 0..Horizon /\ c.since <= now
       /\ c.at = "list" => c = [at |-> "list", since |-> c.since]
       /\ c.at = "rows" =>
             /\ c = [at |-> "rows", since |-> c.since, rows |-> c.rows]
             /\ \A p \in c.rows : WasDue(p, c.since)
       /\ c.at = "record" =>
             /\ c = [at |-> "record", since |-> c.since, rows |-> c.rows, id |-> c.id,
                     verdict |-> c.verdict, caught |-> c.caught]
             /\ \A p \in c.rows : WasDue(p, c.since)
             /\ WasDue(c.id, c.since)
             /\ Sound(c.id, c.verdict)

\* Row and outcome agree, and every sweep holds rows that were due, with verdicts
\* that may be written.
VerdictInv ==
    /\ now \in 0..Horizon
    /\ stored \subseteq Predictions
    /\ outcome = [p \in Predictions |-> resolution[p].outcome]
    /\ DOMAIN resolution = Predictions
    /\ resolution = [p \in Predictions |-> resolution[p]]
    /\ \A p \in Predictions : resolution[p] = Unsettled \/ Sound(p, resolution[p])
    /\ sweep = [s \in Sweepers |-> sweep[s]]
    /\ \A s \in Sweepers : SweepKept(sweep[s])

------------------------------------------------------------------------------
(* What the oracles answer *)

Forms == {Declined, Unreachable, Thrown}

LEMMA PriceGrounds ==
    ASSUME NEW p \in Predictions, Supporting(Prediction[p].source) = "price", Askable(p),
           NEW since, NEW r, PriceAnswer(Prediction[p], since, r) # Unreachable
    PROVE  \/ ~Timely(p, since) /\ PriceAnswer(Prediction[p], since, r) = Declined
           \/ Timely(p, since) /\ Collect(r) # {}
BY DEF PriceAnswer, Askable, TooLate, NoVenue, Timely, WithinLag

LEMMA ChainGrounds ==
    ASSUME NEW p \in Predictions, Supporting(Prediction[p].source) = "chain", Askable(p),
           NEW since, NEW raw, NEW decimals,
           ChainAnswer(Prediction[p], since, raw, decimals) # Unreachable
    PROVE  \/ ~Timely(p, since) /\ ChainAnswer(Prediction[p], since, raw, decimals) = Declined
           \/ Timely(p, since) /\ {raw, decimals} # {Fault}
BY DEF ChainAnswer, Askable, TooLate, Timely, WithinLag

LEMMA PriceForms ==
    ASSUME NEW p, NEW since, NEW r
    PROVE  PriceAnswer(p, since, r) \in Forms \/ \E v : PriceAnswer(p, since, r) = Value(v)
BY DEF PriceAnswer, Forms, TooLate, NoVenue

LEMMA ChainForms ==
    ASSUME NEW p, NEW since, NEW raw, NEW decimals
    PROVE  \/ ChainAnswer(p, since, raw, decimals) \in Forms
           \/ \E v : ChainAnswer(p, since, raw, decimals) = Value(v)
BY DEF ChainAnswer, Scaled, Forms, TooLate

LEMMA CurationForms ==
    ASSUME NEW p, NEW replies
    PROVE  CurationAnswer(p, replies) \in Forms \/ \E v : CurationAnswer(p, replies) = Value(v)
BY DEF CurationAnswer, Forms

LEMMA Oracles == \A source : Supporting(source) \in {"price", "chain", "reppo-curation", "none"}
BY DEF Supporting

\* An answer about p has one of four forms; and about a spot reading it can ask for,
\* whatever settles it was late or heard.
LEMMA AnswerKept ==
    ASSUME NEW p \in Predictions, NEW since, Supporting(Prediction[p].source) # "none",
           NEW x \in Answers(p, since)
    PROVE  /\ x.answer \in Forms \/ \E v : x.answer = Value(v)
           /\ Spot(p) /\ Askable(p) /\ x.answer # Unreachable =>
                 \/ Grounds(p, since, x.heard) = "late" /\ x.answer = Declined
                 \/ Grounds(p, since, x.heard) = "heard"
<1> DEFINE q == Prediction[p]
<1>1. CASE Supporting(q.source) = "price"
  <2>1. PICK r \in [Venues -> PriceReplies] :
            x = Asked(PriceAnswer(q, since, r), Collect(r) # {})
    BY <1>1 DEF Answers
  <2>2. x.answer = PriceAnswer(q, since, r) /\ x.heard = (Collect(r) # {})
    BY <2>1 DEF Asked
  <2>3. x.answer \in Forms \/ \E v : x.answer = Value(v)
    BY <2>2, PriceForms
  <2>4. ASSUME Askable(p), PriceAnswer(q, since, r) # Unreachable
        PROVE  \/ ~Timely(p, since) /\ PriceAnswer(q, since, r) = Declined
               \/ Timely(p, since) /\ Collect(r) # {}
    BY <1>1, <2>4, PriceGrounds
  <2> QED BY <2>2, <2>3, <2>4 DEF Grounds
<1>2. CASE Supporting(q.source) = "chain"
  <2>1. PICK raw \in Replies(q.source.chain, ChainReplies),
             decimals \in Replies(q.source.chain, DecimalsReplies) :
            x = Asked(ChainAnswer(q, since, raw, decimals), {raw, decimals} # {Fault})
    BY <1>2 DEF Answers
  <2>2. x.answer = ChainAnswer(q, since, raw, decimals) /\ x.heard = ({raw, decimals} # {Fault})
    BY <2>1 DEF Asked
  <2>3. x.answer \in Forms \/ \E v : x.answer = Value(v)
    BY <2>2, ChainForms
  <2>4. ASSUME Askable(p), ChainAnswer(q, since, raw, decimals) # Unreachable
        PROVE  \/ ~Timely(p, since) /\ ChainAnswer(q, since, raw, decimals) = Declined
               \/ Timely(p, since) /\ {raw, decimals} # {Fault}
    BY <1>2, <2>4, ChainGrounds
  <2> QED BY <2>2, <2>3, <2>4 DEF Grounds
<1>3. CASE Supporting(q.source) = "reppo-curation"
  <2>1. PICK r \in CurationReplies :
            x = Asked(IF r = <<>> THEN Thrown ELSE CurationAnswer(q, r[1]), r # <<>>)
    BY <1>3 DEF Answers
  <2>2. x.answer = Thrown \/ x.answer = CurationAnswer(q, r[1])
    BY <2>1 DEF Asked
  <2>3. x.answer \in Forms \/ \E v : x.answer = Value(v)
    BY <2>2, CurationForms DEF Forms
  <2> QED BY <1>3, <2>3 DEF Spot
<1> QED BY <1>1, <1>2, <1>3, Oracles

------------------------------------------------------------------------------
LEMMA VerdictInitially == Init => VerdictInv
<1> SUFFICES ASSUME Init PROVE VerdictInv
  OBVIOUS
<1>1. now \in 0..Horizon /\ stored \subseteq Predictions
  BY ResolutionAssumption DEF Init
<1>2. resolution = [p \in Predictions |-> Unsettled]
  BY DEF Init
<1>3. outcome = [p \in Predictions |-> resolution[p].outcome]
  BY <1>2 DEF Init, Unsettled
<1>4. sweep = [s \in Sweepers |-> sweep[s]] /\ \A s \in Sweepers : SweepKept(sweep[s])
  BY DEF Init, SweepKept
<1> QED BY <1>1, <1>2, <1>3, <1>4 DEF VerdictInv

\* A failed verdict stands on the same grounds.
LEMMA FailedSound ==
    ASSUME NEW p \in Predictions, NEW v, Sound(p, v)
    PROVE  Sound(p, Failed(v.grounds))
BY DEF Sound, Scored, Grounded, Failed, Verdict, Settled

\* What an observation leads to.
LEMMA ObserveKept ==
    ASSUME VerdictInv, NEW s \in Sweepers, NEW p \in Predictions, Observe(s, p)
    PROVE  SweepKept(sweep[s])'
<1> DEFINE c == sweep[s]
           q == Prediction[p]
<1>0. /\ c.at = "rows" /\ p \in c.rows /\ Supporting(q.source) # "none"
      /\ UNCHANGED now
  BY DEF Observe
<1>1. /\ c.at = "rows" /\ p \in c.rows /\ Supporting(q.source) # "none"
      /\ UNCHANGED now
      /\ c.since \in 0..Horizon /\ c.since <= now
      /\ c = [at |-> "rows", since |-> c.since, rows |-> c.rows]
      /\ \A i \in c.rows : WasDue(i, c.since)
  <2>1. SweepKept(c)
    BY DEF VerdictInv
  <2> QED BY <1>0, <2>1 DEF SweepKept, Idle
<1>2. AnswersBy[p][c.since] = Answers(p, c.since)
  BY <1>1 DEF AnswersBy
<1>3. PICK x \in Answers(p, c.since) :
          \/ /\ x.answer = Unreachable
             /\ Sweeps(s, [at |-> "rows", since |-> c.since, rows |-> c.rows \ {p}])
          \/ /\ x.answer = Declined
             /\ ToRecord(s, p, Verdict("UNRESOLVABLE", Supporting(q.source), NoScore,
                                       Grounds(p, c.since, x.heard)), TRUE)
          \/ /\ x.answer.is = "value"
             /\ ToRecord(s, p, Judged(q, EvaluateCriteria(q, x.answer.value),
                                      Grounds(p, c.since, x.heard)), TRUE)
          \/ /\ x.answer = Thrown \/ x.answer.is = "value"
             /\ ToRecord(s, p, Failed(Grounds(p, c.since, x.heard)), FALSE)
  BY <1>2 DEF Observe
<1> DEFINE a == x.answer
           grounds == Grounds(p, c.since, x.heard)
           wasTrue == EvaluateCriteria(q, a.value)
<1>4. /\ a \in Forms \/ \E v : a = Value(v)
      /\ Spot(p) /\ Askable(p) /\ a # Unreachable =>
            (grounds = "late" /\ a = Declined) \/ grounds = "heard"
  BY <1>1, AnswerKept
<1> HIDE DEF a, grounds, wasTrue
<1>5. ASSUME NEW v, NEW caught, Sound(p, v), ToRecord(s, p, v, caught)
      PROVE  SweepKept(sweep[s])'
  <2>1. sweep'[s] = [at |-> "record", since |-> c.since, rows |-> c.rows \ {p},
                     id |-> p, verdict |-> v, caught |-> caught]
    BY <1>5 DEF ToRecord, Sweeps, VerdictInv
  <2> QED BY <1>1, <1>5, <2>1 DEF SweepKept, WasDue
<1>6. CASE a = Unreachable /\ Sweeps(s, [at |-> "rows", since |-> c.since, rows |-> c.rows \ {p}])
  <2>1. sweep'[s] = [at |-> "rows", since |-> c.since, rows |-> c.rows \ {p}]
    BY <1>6 DEF Sweeps, VerdictInv
  <2> QED BY <1>1, <2>1 DEF SweepKept, WasDue
<1>7. Forms = {[is |-> "null"], [is |-> "unreachable"], [is |-> "thrown"]}
      /\ Declined = [is |-> "null"] /\ Unreachable = [is |-> "unreachable"]
      /\ Thrown = [is |-> "thrown"] /\ \A v : Value(v).is = "value"
  BY DEF Forms, Declined, Unreachable, Thrown, Value
<1>8. CASE /\ a = Declined
           /\ ToRecord(s, p, Verdict("UNRESOLVABLE", Supporting(q.source), NoScore, grounds), TRUE)
  <2>1. grounds # "nothing" \/ ~(Spot(p) /\ Askable(p))
    BY <1>4, <1>7, <1>8
  <2>2. Sound(p, Verdict("UNRESOLVABLE", Supporting(q.source), NoScore, grounds))
    BY <2>1 DEF Sound, Scored, Grounded, Verdict, Settled
  <2> QED BY <1>5, <1>8, <2>2
<1>9. CASE a.is = "value" /\ ToRecord(s, p, Judged(q, wasTrue, grounds), TRUE)
  <2>1. grounds = "heard" \/ ~(Spot(p) /\ Askable(p))
    BY <1>4, <1>7, <1>9
  <2>2. CASE wasTrue
    <3>1. Sound(p, Judged(q, wasTrue, grounds))
      BY <2>1, <2>2 DEF Sound, Scored, Grounded, Judged, Verdict, Settled, BrierScore
    <3> QED BY <1>5, <1>9, <3>1
  <2>3. CASE ~wasTrue
    <3>1. Sound(p, Judged(q, wasTrue, grounds))
      BY <2>1, <2>3 DEF Sound, Scored, Grounded, Judged, Verdict, Settled, BrierScore
    <3> QED BY <1>5, <1>9, <3>1
  <2> QED BY <2>2, <2>3
<1>10. CASE (a = Thrown \/ a.is = "value") /\ ToRecord(s, p, Failed(grounds), FALSE)
  <2>1. grounds = "heard" \/ ~(Spot(p) /\ Askable(p))
    BY <1>4, <1>7, <1>10
  <2>2. Sound(p, Failed(grounds))
    BY <2>1 DEF Sound, Scored, Grounded, Verdict, Failed, Settled
  <2> QED BY <1>5, <1>10, <2>2
<1> QED BY <1>3, <1>6, <1>8, <1>9, <1>10 DEF a, grounds, wasTrue

\* A step of a sweep either leaves the verdicts alone or writes the one it holds,
\* about a prediction that had none.
Writes(s) == LET c == sweep[s] IN
    c.at = "record" /\ Free(c.id) /\ Write(c) /\ UNCHANGED <<stored, now>>

Reads == UNCHANGED <<stored, outcome, resolution, now>>

LEMMA SweepMoves ==
    ASSUME VerdictInv, NEW s \in Sweepers, SweepStep(s) \/ RecordFails(s) \/ Lost(s)
    PROVE  /\ \A t \in Sweepers : t # s => sweep'[t] = sweep[t]
           /\ sweep' = [t \in Sweepers |-> sweep'[t]]
           /\ Reads \/ Writes(s)
<1>1. CASE Start(s) \/ List(s) \/ Finish(s) \/ Lost(s)
  BY <1>1 DEF Start, List, Finish, Lost, Sweeps, Reads, VerdictInv
<1>2. ASSUME NEW p \in Predictions, NoOracle(s, p)
      PROVE  /\ \A t \in Sweepers : t # s => sweep'[t] = sweep[t]
             /\ sweep' = [t \in Sweepers |-> sweep'[t]]
             /\ Reads
  BY <1>2 DEF NoOracle, ToRecord, Sweeps, Reads, VerdictInv
<1>3. ASSUME NEW p \in Predictions, Observe(s, p)
      PROVE  /\ \A t \in Sweepers : t # s => sweep'[t] = sweep[t]
             /\ sweep' = [t \in Sweepers |-> sweep'[t]]
             /\ Reads
  <2>1. Reads
    BY <1>3 DEF Observe, Reads
  <2>2. \E r : Sweeps(s, r)
    BY <1>3 DEF Observe, ToRecord
  <2> QED BY <2>1, <2>2 DEF Sweeps, VerdictInv
<1>4. CASE Record(s) \/ RecordFails(s)
  <2>1. Reads \/ Writes(s)
    BY <1>4 DEF Record, RecordFails, Reads, Writes
  <2>2. \E r : Sweeps(s, r)
    BY <1>4 DEF Record, RecordFails, Rejected, Onwards
  <2> QED BY <2>1, <2>2 DEF Sweeps, VerdictInv
<1> QED BY <1>1, <1>2, <1>3, <1>4 DEF SweepStep

\* The sweep that steps keeps to rows that were due and verdicts that may be written.
LEMMA OwnSweepKept ==
    ASSUME VerdictInv, NEW s \in Sweepers, SweepStep(s) \/ RecordFails(s) \/ Lost(s)
    PROVE  SweepKept(sweep[s])'
<1> DEFINE c == sweep[s]
<1>0. /\ SweepKept(c) /\ now \in 0..Horizon /\ stored \subseteq Predictions
      /\ UNCHANGED now
      /\ \A r : Sweeps(s, r) => sweep'[s] = r
  BY SweepMoves DEF VerdictInv, Sweeps, Reads, Writes
<1>1. CASE Start(s)
  <2>1. sweep'[s] = [at |-> "list", since |-> now]
    BY <1>0, <1>1 DEF Start
  <2> QED BY <1>0, <2>1 DEF SweepKept
<1>2. CASE List(s)
  <2>1. PICK rows \in SUBSET Due(c.since) :
            Sweeps(s, [at |-> "rows", since |-> c.since, rows |-> rows])
    BY <1>2 DEF List
  <2>2. sweep'[s] = [at |-> "rows", since |-> c.since, rows |-> rows]
    BY <1>0, <2>1
  <2>3. c.since \in 0..Horizon /\ c.since <= now
    BY <1>0, <1>2 DEF List, SweepKept, Idle
  <2>4. \A p \in rows : WasDue(p, c.since)
    BY <1>0, <2>1 DEF Due, WasDue
  <2> QED BY <1>0, <2>2, <2>3, <2>4 DEF SweepKept, WasDue
<1>3. ASSUME NEW p \in Predictions, NoOracle(s, p) PROVE SweepKept(sweep[s])'
  <2> DEFINE v == Verdict("UNRESOLVABLE", "none", NoScore, "nothing")
  <2>1. sweep'[s] = [at |-> "record", since |-> c.since, rows |-> c.rows \ {p},
                     id |-> p, verdict |-> v, caught |-> FALSE]
    BY <1>0, <1>3 DEF NoOracle, ToRecord
  <2>2. Sound(p, v)
    BY <1>3 DEF NoOracle, Sound, Scored, Grounded, Verdict, Settled, Spot
  <2>3. /\ c.since \in 0..Horizon /\ c.since <= now /\ p \in c.rows
        /\ \A i \in c.rows : WasDue(i, c.since)
    BY <1>0, <1>3 DEF NoOracle, SweepKept, Idle
  <2> HIDE DEF v
  <2> QED BY <1>0, <2>1, <2>2, <2>3 DEF SweepKept, WasDue
<1>4. ASSUME NEW p \in Predictions, Observe(s, p) PROVE SweepKept(sweep[s])'
  BY <1>4, ObserveKept
<1>5. CASE Record(s) \/ RecordFails(s)
  <2>1. /\ c.at = "record" /\ c.since \in 0..Horizon /\ c.since <= now
        /\ c = [at |-> "record", since |-> c.since, rows |-> c.rows, id |-> c.id,
                verdict |-> c.verdict, caught |-> c.caught]
        /\ \A p \in c.rows : WasDue(p, c.since)
        /\ WasDue(c.id, c.since) /\ Sound(c.id, c.verdict)
    BY <1>0, <1>5 DEF Record, RecordFails, SweepKept, Idle
  <2>2. CASE Onwards(s)
    <3>1. sweep'[s] = [at |-> "rows", since |-> c.since, rows |-> c.rows]
      BY <1>0, <2>2 DEF Onwards
    <3> QED BY <1>0, <2>1, <3>1 DEF SweepKept, WasDue
  <2>3. CASE Rejected(s)
    <3>1. CASE c.caught
      <4> DEFINE v == Failed(c.verdict.grounds)
      <4>1. Sweeps(s, [c EXCEPT !.verdict = v, !.caught = FALSE])
        BY <2>3, <3>1 DEF Rejected
      <4>2. sweep'[s] = [c EXCEPT !.verdict = v, !.caught = FALSE]
        BY <1>0, <4>1
      <4>3. Sound(c.id, v)
        BY <2>1, FailedSound DEF WasDue
      <4> HIDE DEF v
      <4>4. sweep'[s] = [at |-> "record", since |-> c.since, rows |-> c.rows, id |-> c.id,
                         verdict |-> v, caught |-> FALSE]
        BY <2>1, <4>2
      <4> QED BY <1>0, <2>1, <4>3, <4>4 DEF SweepKept, WasDue
    <3>2. CASE ~c.caught
      BY <1>0, <2>3, <3>2 DEF Rejected, SweepKept
    <3> QED BY <3>1, <3>2
  <2> QED BY <1>5, <2>2, <2>3 DEF Record, RecordFails
<1>6. CASE Finish(s) \/ Lost(s)
  BY <1>0, <1>6 DEF Finish, Lost, SweepKept
<1> QED BY <1>1, <1>2, <1>3, <1>4, <1>5, <1>6 DEF SweepStep

LEMMA VerdictStep ==
    ASSUME VerdictInv, [Next]_vars
    PROVE  VerdictInv'
<1>1. ASSUME NEW s \in Sweepers, SweepStep(s) \/ RecordFails(s) \/ Lost(s) PROVE VerdictInv'
  <2>1. /\ SweepKept(sweep[s])'
        /\ \A t \in Sweepers : t # s => sweep'[t] = sweep[t]
        /\ sweep' = [t \in Sweepers |-> sweep'[t]]
        /\ Reads \/ Writes(s)
    BY <1>1, OwnSweepKept, SweepMoves
  <2>2. UNCHANGED <<stored, now>>
    BY <2>1 DEF Reads, Writes
  <2>3. \A t \in Sweepers : SweepKept(sweep[t])'
    BY <2>1, <2>2 DEF VerdictInv, SweepKept, WasDue
  <2>4. CASE Reads
    BY <2>1, <2>3, <2>4 DEF VerdictInv, Reads
  <2>5. CASE Writes(s)
    <3> DEFINE p == sweep[s].id
               v == sweep[s].verdict
    <3>1. p \in Predictions /\ Sound(p, v)
      BY <2>5 DEF Writes, VerdictInv, SweepKept, WasDue, Idle
    <3>2. /\ outcome' = [outcome EXCEPT ![p] = v.outcome]
          /\ resolution' = [resolution EXCEPT ![p] = v]
      BY <2>5 DEF Writes, Write
    <3> HIDE DEF p, v
    <3>3. /\ DOMAIN resolution' = Predictions
          /\ resolution' = [q \in Predictions |-> resolution'[q]]
          /\ resolution'[p] = v
          /\ \A q \in Predictions : q # p => resolution'[q] = resolution[q]
      BY <3>1, <3>2 DEF VerdictInv
    <3>4. outcome' = [q \in Predictions |-> resolution'[q].outcome]
      BY <3>1, <3>2, <3>3 DEF VerdictInv
    <3>5. \A q \in Predictions : resolution'[q] = Unsettled \/ Sound(q, resolution'[q])
      BY <3>1, <3>3 DEF VerdictInv
    <3> QED BY <2>1, <2>2, <2>3, <3>3, <3>4, <3>5 DEF VerdictInv, Sound, Scored, Grounded
  <2> QED BY <2>1, <2>4, <2>5
<1>2. CASE Tick
  <2>1. now' \in 0..Horizon /\ now' >= now
    BY <1>2, ResolutionAssumption DEF Tick, VerdictInv
  <2>2. UNCHANGED <<stored, outcome, resolution, sweep>>
    BY <1>2 DEF Tick
  <2>3. \A t \in Sweepers : SweepKept(sweep[t])'
    BY <2>1, <2>2 DEF VerdictInv, SweepKept, WasDue
  <2> QED BY <2>1, <2>2, <2>3 DEF VerdictInv
<1>3. CASE UNCHANGED vars
  BY <1>3 DEF vars, VerdictInv, SweepKept
<1> QED BY <1>1, <1>2, <1>3 DEF Next

THEOREM VerdictInvariant == Spec => []VerdictInv
BY VerdictInitially, VerdictStep, PTL DEF Spec

\* The clock stays typed, and a score is stored exactly with the verdict it is of.
THEOREM ResolutionTyped == Spec => []TypeOK
<1>1. VerdictInv => TypeOK
  <2> SUFFICES ASSUME VerdictInv PROVE TypeOK
    OBVIOUS
  <2>1. now \in Nat
    BY ResolutionAssumption DEF VerdictInv
  <2>2. ASSUME NEW p \in Predictions
        PROVE  /\ outcome[p] \in {"PENDING", "TRUE", "FALSE", "UNRESOLVABLE"}
               /\ outcome[p] \in {"TRUE", "FALSE"} =>
                     resolution[p].brier = BrierScore(Prediction[p].confidence, outcome[p] = "TRUE")
               /\ outcome[p] = "UNRESOLVABLE" => resolution[p].brier = NoScore
    <3>1. outcome[p] = resolution[p].outcome
      BY DEF VerdictInv
    <3>2. CASE resolution[p] = Unsettled
      BY <3>1, <3>2 DEF Unsettled
    <3>3. CASE Sound(p, resolution[p])
      BY <3>1, <3>3 DEF Sound, Scored, Settled
    <3> QED BY <3>2, <3>3 DEF VerdictInv
  <2>3. \A s \in Sweepers : sweep[s] # Idle => sweep[s].since <= now
    BY DEF VerdictInv, SweepKept
  <2> QED BY <2>1, <2>2, <2>3 DEF TypeOK
<1> QED BY <1>1, VerdictInvariant, PTL

\* oracles.ts:16: where the oracle can ask for it, a spot reading scores a prediction
\* only in a sweep that began within the lag, and an outage alone writes none off.
THEOREM OutagesCostNoScore ==
    ASSUME \A p \in Predictions : Askable(p)
    PROVE  Spec => []HonestVerdicts
<1>1. ASSUME VerdictInv PROVE HonestVerdicts
  <2> SUFFICES ASSUME NEW p \in Predictions, outcome[p] # "PENDING", Spot(p)
               PROVE  IF outcome[p] = "UNRESOLVABLE" THEN resolution[p].grounds # "nothing"
                      ELSE resolution[p].grounds = "heard"
    BY DEF HonestVerdicts
  <2>1. outcome[p] = resolution[p].outcome
    BY <1>1 DEF VerdictInv
  <2>2. Sound(p, resolution[p])
    BY <1>1, <2>1 DEF VerdictInv, Unsettled
  <2> QED BY <2>1, <2>2 DEF Sound, Grounded
<1>2. VerdictInv => HonestVerdicts
  BY <1>1
<1> QED BY <1>2, VerdictInvariant, PTL

------------------------------------------------------------------------------
\* The writer of a verdict settles one that was pending and due; all else stutters.
LEMMA StepsKeepPromise ==
    ASSUME VerdictInv, [Next]_vars
    PROVE  [Promise!VerdictNext]_(Promise!verdictVars)
<1>1. ASSUME NEW s \in Sweepers, Writes(s) PROVE \E p \in Predictions : Promise!Settle(p)
  <2> DEFINE p == sweep[s].id
             v == sweep[s].verdict
  <2>1. /\ WasDue(p, sweep[s].since) /\ Sound(p, v)
        /\ sweep[s].since \in 0..Horizon /\ sweep[s].since <= now /\ now \in 0..Horizon
    BY <1>1 DEF Writes, VerdictInv, SweepKept, Idle
  <2>2. p \in Predictions /\ Prediction[p].deadline <= now
    BY <2>1, ResolutionAssumption DEF WasDue
  <2>3. outcome[p] = "PENDING"
    BY <1>1, <2>2 DEF Writes, Free, VerdictInv, Unsettled
  <2>4. /\ outcome' = [outcome EXCEPT ![p] = v.outcome]
        /\ resolution' = [resolution EXCEPT ![p] = v]
        /\ UNCHANGED now
    BY <1>1 DEF Writes, Write
  <2>5. v.outcome \in {"TRUE", "FALSE", "UNRESOLVABLE"}
    BY <2>1 DEF Sound, Settled
  <2> HIDE DEF p, v
  <2>6. resolution'[p] = v
    BY <2>2, <2>4 DEF VerdictInv
  <2> QED BY <2>2, <2>3, <2>4, <2>5, <2>6 DEF Promise!Settle
<1>2. ASSUME Tick PROVE Promise!Passes
  BY <1>2, ResolutionAssumption DEF Tick, VerdictInv, Promise!Passes
<1>3. CASE \E s \in Sweepers : SweepStep(s) \/ RecordFails(s) \/ Lost(s)
  <2>1. (\E s \in Sweepers : Writes(s)) \/ UNCHANGED <<outcome, resolution, now>>
    BY <1>3, SweepMoves DEF Reads
  <2> QED BY <1>1, <2>1 DEF Promise!VerdictNext, Promise!verdictVars
<1>4. CASE Tick
  BY <1>2, <1>4 DEF Promise!VerdictNext
<1>5. CASE UNCHANGED vars
  BY <1>5 DEF vars, Promise!verdictVars
<1> QED BY <1>3, <1>4, <1>5 DEF Next

\* resolution.ts:121: with any sweeps side by side, failed writes, lost replies and
\* lost sweeps, a prediction settles once, after its deadline, and row and outcome agree.
THEOREM VerdictsAreFinal == Spec => ImplementsVerdicts
<1>1. Init => Promise!VerdictInit
  BY DEF Init, Promise!VerdictInit, Unsettled, Promise!Unsettled
<1>2. VerdictInv /\ [Next]_vars => [Promise!VerdictNext]_(Promise!verdictVars)
  BY StepsKeepPromise
<1> QED BY <1>1, <1>2, VerdictInvariant, PTL DEF Spec, ImplementsVerdicts, Promise!VerdictSpec
==============================================================================
