------------------------------ MODULE Automation ------------------------------
(***************************************************************************)
(* The automation runtime (packages/execution/src/engine.ts) behind the    *)
(* routes of apps/api/src/routes/automations.ts: evaluations turn resolved *)
(* jobs into positions, sweeps mark the positions and close them, the      *)
(* owner starts, stops, patches and resets.  Calls are cut where they      *)
(* await; what a call has read is a snapshot that others overtake.         *)
(*                                                                         *)
(* The drivers that exist cannot spend, so an automation stays in PAPER    *)
(* mode (POST .../mode answers LIVE with 501), and a paper fill is the     *)
(* quoted price.  Of the audit trail the CLOSED rows are counted; rows of  *)
(* the other kinds change nothing that is read again and are left out.     *)
(***************************************************************************)
EXTENDS TradePlan, TLC

CONSTANTS
    Automations, Jobs,
    Evaluators,      \* slots for concurrent calls of evaluate
    Sweepers,        \* slots for concurrent calls of sweepExits
    Editors,         \* slots for concurrent PATCH requests
    Verdict,         \* what the protocol resolved, by job
    Unresolved,      \* the jobs verdictFor returns null for
    Blocked,         \* policy.blockedMints, which no patch of the model changes
    Marks,           \* the numbers the price endpoint may report, by mint
    InitialPolicy,   \* the policy every automation is deployed with
    DefaultPolicy,   \* the defaults of TradePolicySchema
    Patches,         \* the partial policies a PATCH may carry
    Driver,          \* "paper" or "none"
    HistoryWindow,   \* HISTORY_WINDOW_MS, in ticks
    Horizon,         \* bound: the last tick
    MaxUpsets        \* bound: requests of the owner (starts, stops, patches,
                     \* resets) and calls lost to a crash or a failed statement

ASSUME AutomationAssumption ==
    /\ IsFiniteSet(Jobs)
    /\ Marks \in [{Verdict[j].mint : j \in Jobs} -> SUBSET Nat]
    /\ {InitialPolicy, DefaultPolicy} \subseteq Policies
    /\ \A p \in Patches : DOMAIN p \subseteq PolicyFields
                            /\ \A f \in DOMAIN p : p[f] \in Nat
    /\ Driver \in {"paper", "none"}
    /\ {DayWindow, HistoryWindow, Horizon, MaxUpsets} \subseteq Nat

VARIABLES
    book, owner,     \* Position.status ("none" for no row) and automationId, by job
    exit, noted,     \* Position.pnlUsd, and CLOSED rows of the trail, by job
    terms,           \* the row's size, entry and peak price, openedAt and closedAt
    policy, active, resetAt,   \* the automation's own row
    now,
    evaluation,      \* per evaluator, the call it is in
    sweep,           \* per sweeper, the call it is in
    edit,            \* per editor, the call it is in
    upsets           \* how much of MaxUpsets has been used

positionVars == <<book, owner, exit, noted, terms>>
ownerVars    == <<policy, active, resetAt>>
vars == <<positionVars, ownerVars, now, evaluation, sweep, edit, upsets>>

Calls == Evaluators \cup Sweepers \cup Editors

NoTerms == [size |-> 0, entry |-> 0, peak |-> 0, openedAt |-> Never, closedAt |-> Never]
Idle == [at |-> "idle"]

\* A non-positive number is not a price: quote() answers null, which it may do
\* in any case.
Quoted(j) == {p \in Marks[Verdict[j].mint] : p > 0}
Quotes == UNION {Quoted(j) : j \in Jobs}

\* verdictFor answers null unless the job is resolved, has a consensus and
\* names a target.
HasVerdict(j) == j \notin Unresolved

\* PaperDriver fills at the quote, NoneDriver refuses every order.
Fills == Driver = "paper"

OpenJobs(a) == {j \in Jobs : book[j] = "open" /\ owner[j] = a}

\* openPositions and recentTrades of the engine.
OpenPositions(a) ==
    {[job |-> j, mint |-> Verdict[j].mint, size |-> terms[j].size] : j \in OpenJobs(a)}

RecentTrades(a, since) ==
    {[job |-> j, mint |-> Verdict[j].mint, pnl |-> exit[j], closedAt |-> terms[j].closedAt]
        : j \in {j \in Jobs : /\ book[j] = "closed" /\ owner[j] = a
                              /\ terms[j].closedAt >= since - HistoryWindow}}

Init ==
    /\ book = [j \in Jobs |-> "none"] /\ owner = [j \in Jobs |-> "nobody"]
    /\ exit = [j \in Jobs |-> 0] /\ noted = [j \in Jobs |-> 0]
    /\ terms = [j \in Jobs |-> NoTerms]
    /\ policy = [a \in Automations |-> InitialPolicy]
    /\ active = [a \in Automations |-> FALSE]
    /\ resetAt = [a \in Automations |-> Never]
    /\ now = 0
    /\ evaluation = [e \in Evaluators |-> Idle]
    /\ sweep = [s \in Sweepers |-> Idle]
    /\ edit = [d \in Editors |-> Idle]
    /\ upsets = 0

-----------------------------------------------------------------------------
(* POST /v1/automations/:id/evaluate *)

Evaluates(e, r) == evaluation' = [evaluation EXCEPT ![e] = r]

OnlyEvaluation == UNCHANGED <<positionVars, ownerVars, now, sweep, edit, upsets>>

\* The automation's row is read first; a job without a verdict ends here.
Evaluate(e, a, j) ==
    /\ evaluation[e] = Idle
    /\ HasVerdict(j)
    /\ Evaluates(e, [at |-> "reads", automation |-> a, job |-> j, since |-> now,
                     policy |-> policy[a], active |-> active[a], resetAt |-> resetAt[a],
                     read |-> {}, open |-> {}, trades |-> {}])
    /\ OnlyEvaluation

\* Promise.all: two statements, served in either order.
ReadOpen(e) == LET c == evaluation[e] IN
    /\ c.at = "reads" /\ "open" \notin c.read
    /\ Evaluates(e, [c EXCEPT !.read = @ \cup {"open"},
                              !.open = OpenPositions(c.automation)])
    /\ OnlyEvaluation

ReadTrades(e) == LET c == evaluation[e] IN
    /\ c.at = "reads" /\ "trades" \notin c.read
    /\ Evaluates(e, [c EXCEPT !.read = @ \cup {"trades"},
                              !.trades = RecentTrades(c.automation, c.since)])
    /\ OnlyEvaluation

\* Mutant of Ready: the plan does not wait for the open positions.
ReadyEarly(c) == c.at = "reads" /\ "trades" \in c.read

Ready(c) == c.at = "reads" /\ c.read = {"open", "trades"}

\* Every gate passed, the mint is quoted and the driver fills at the quote.
Decide(e) == LET c == evaluation[e] IN
    /\ Ready(c)
    /\ PlanEntry(Verdict[c.job], c.policy, c.active, c.open, c.trades,
                 c.resetAt, Blocked, c.since)
    /\ Fills
    /\ \E price \in Quoted(c.job) :
          Evaluates(e, [at |-> "create", automation |-> c.automation, job |-> c.job,
                        since |-> c.since, policy |-> c.policy, price |-> price])
    /\ OnlyEvaluation

\* A gate failed, no price was observed (the quote may always be null), or the
\* driver refuses the order.
Refuse(e) ==
    /\ Ready(evaluation[e])
    /\ Evaluates(e, Idle)
    /\ OnlyEvaluation

\* position.create: jobId is unique, a row that exists is answered as it is.
Create(e) == LET c == evaluation[e] IN
    /\ c.at = "create"
    /\ IF book[c.job] = "none"
       THEN /\ book' = [book EXCEPT ![c.job] = "open"]
            /\ owner' = [owner EXCEPT ![c.job] = c.automation]
            /\ terms' = [terms EXCEPT ![c.job] =
                            [size |-> c.policy["sizeUsd"], entry |-> c.price, peak |-> c.price,
                             openedAt |-> c.since, closedAt |-> Never]]
       ELSE UNCHANGED <<book, owner, terms>>
    /\ Evaluates(e, Idle)
    /\ UNCHANGED <<exit, noted, ownerVars, now, sweep, edit, upsets>>

-----------------------------------------------------------------------------
(* POST /v1/automations/:id/sweep *)

Sweeps(s, r) == sweep' = [sweep EXCEPT ![s] = r]

Sweep(s, a) ==
    /\ sweep[s] = Idle
    /\ Sweeps(s, [at |-> "list", automation |-> a, since |-> now, policy |-> policy[a]])
    /\ UNCHANGED <<positionVars, ownerVars, now, evaluation, edit, upsets>>

\* The rows as they are now; peaks is what the sweep will compare marks with.
List(s) == LET c == sweep[s] IN
    /\ c.at = "list"
    /\ Sweeps(s, [at |-> "mark", automation |-> c.automation, since |-> c.since,
                  policy |-> c.policy,
                  peaks |-> [j \in OpenJobs(c.automation) |-> terms[j].peak]])
    /\ UNCHANGED <<positionVars, ownerVars, now, evaluation, edit, upsets>>

Without(f, j) == [i \in DOMAIN f \ {j} |-> f[i]]

Marked(c, j) == [c EXCEPT !.peaks = Without(@, j)]

\* No price: the row is left as it is.
Unpriced(s) == LET c == sweep[s] IN
    /\ c.at = "mark"
    /\ \E j \in DOMAIN c.peaks : Sweeps(s, Marked(c, j))
    /\ UNCHANGED <<positionVars, ownerVars, now, evaluation, edit, upsets>>

Decision(c, j, price) ==
    PlanExit(terms[j].entry, c.peaks[j], terms[j].openedAt, price, c.policy, c.since)

\* The mark is above the peak that was read, and is written over whatever the
\* row holds by now.
PeakAfter(read, price, stored) == IF price > read THEN price ELSE stored

Hold(s, j, price) == LET c == sweep[s] IN
    /\ c.at = "mark" /\ j \in DOMAIN c.peaks
    /\ Decision(c, j, price) = "hold"
    /\ terms' = [terms EXCEPT ![j].peak = PeakAfter(c.peaks[j], price, @)]
    /\ Sweeps(s, Marked(c, j))
    /\ UNCHANGED <<book, owner, exit, noted, ownerVars, now, evaluation, edit, upsets>>

\* Mutant of StillOpen: the update is conditional on the id alone.
AssumedOpen(j) == book[j] # "none"

\* updateMany where status is OPEN.
StillOpen(j) == book[j] = "open"

\* close(): conditional on the row being open; its reason is the decision's.
Close(s, j, price) == LET c == sweep[s] IN
    /\ c.at = "mark" /\ j \in DOMAIN c.peaks
    /\ Decision(c, j, price) # "hold"
    /\ IF StillOpen(j)
       THEN /\ book' = [book EXCEPT ![j] = "closed"]
            /\ exit' = [exit EXCEPT ![j] = Pnl(terms[j].size, terms[j].entry, price)]
            /\ terms' = [terms EXCEPT ![j].closedAt = c.since]
            /\ Sweeps(s, [at |-> "note", automation |-> c.automation, since |-> c.since,
                          policy |-> c.policy, peaks |-> Without(c.peaks, j), note |-> j])
       ELSE /\ Sweeps(s, Marked(c, j))
            /\ UNCHANGED <<book, exit, terms>>
    /\ UNCHANGED <<owner, noted, ownerVars, now, evaluation, edit, upsets>>

NoteClosed(s) == LET c == sweep[s] IN
    /\ c.at = "note"
    /\ noted' = [noted EXCEPT ![c.note] = @ + 1]
    /\ Sweeps(s, [at |-> "mark", automation |-> c.automation, since |-> c.since,
                  policy |-> c.policy, peaks |-> c.peaks])
    /\ UNCHANGED <<book, owner, exit, terms, ownerVars, now, evaluation, edit, upsets>>

\* Every row was marked; the breaker is derived once more, for its BREAKER row.
Finish(s) == LET c == sweep[s] IN
    /\ c.at = "mark" /\ DOMAIN c.peaks = {}
    /\ Sweeps(s, Idle)
    /\ UNCHANGED <<positionVars, ownerVars, now, evaluation, edit, upsets>>

-----------------------------------------------------------------------------
(* The owner's requests *)

Upset == upsets < MaxUpsets /\ upsets' = upsets + 1

SetActive(a) ==
    /\ Upset
    /\ active' = [active EXCEPT ![a] = ~@]
    /\ UNCHANGED <<positionVars, policy, resetAt, now, evaluation, sweep, edit>>

ResetBreaker(a) ==
    /\ Upset
    /\ resetAt' = [resetAt EXCEPT ![a] = now]
    /\ UNCHANGED <<positionVars, policy, active, now, evaluation, sweep, edit>>

\* PATCH loads the automation and, later, writes a whole policy back.
Load(d, a, new) ==
    /\ edit[d] = Idle
    /\ Upset
    /\ edit' = [edit EXCEPT ![d] = [at |-> "write", automation |-> a, policy |-> new]]
    /\ UNCHANGED <<positionVars, ownerVars, now, evaluation, sweep>>

\* The fields of a partial policy keep their defaults, so what a body leaves out
\* is filled in before the stored policy is overlaid, and resets that field.
Overlay(p) == [f \in PolicyFields |-> IF f \in DOMAIN p THEN p[f] ELSE DefaultPolicy[f]]

Patch(d, a, p) == Load(d, a, Overlay(p))

\* A body without a policy: the one that was loaded is written back.
Rename(d, a) == Load(d, a, policy[a])

Write(d) == LET c == edit[d] IN
    /\ c.at = "write"
    /\ policy' = [policy EXCEPT ![c.automation] = c.policy]
    /\ edit' = [edit EXCEPT ![d] = Idle]
    /\ UNCHANGED <<positionVars, active, resetAt, now, evaluation, sweep, upsets>>

-----------------------------------------------------------------------------
Tick ==
    /\ now < Horizon
    /\ now' = now + 1
    /\ UNCHANGED <<positionVars, ownerVars, evaluation, sweep, edit, upsets>>

\* The process is lost, or the statement a call awaits rejects: the call ends.
Lost ==
    /\ Upset
    /\ \/ \E e \in Evaluators : evaluation[e] # Idle /\ Evaluates(e, Idle) /\ UNCHANGED <<sweep, edit>>
       \/ \E s \in Sweepers : sweep[s] # Idle /\ Sweeps(s, Idle) /\ UNCHANGED <<evaluation, edit>>
       \/ \E d \in Editors : /\ edit[d] # Idle /\ edit' = [edit EXCEPT ![d] = Idle]
                             /\ UNCHANGED <<evaluation, sweep>>
    /\ UNCHANGED <<positionVars, ownerVars, now>>

EvaluateStep(e) ==
    \/ \E a \in Automations, j \in Jobs : Evaluate(e, a, j)
    \/ ReadOpen(e) \/ ReadTrades(e) \/ Decide(e) \/ Refuse(e) \/ Create(e)

SweepStep(s) ==
    \/ \E a \in Automations : Sweep(s, a)
    \/ List(s) \/ Unpriced(s) \/ NoteClosed(s) \/ Finish(s)
    \/ \E j \in Jobs : \E price \in Quoted(j) : Hold(s, j, price) \/ Close(s, j, price)

EditStep(d) ==
    \/ \E a \in Automations : Rename(d, a) \/ \E p \in Patches : Patch(d, a, p)
    \/ Write(d)

Next ==
    \/ \E e \in Evaluators : EvaluateStep(e)
    \/ \E s \in Sweepers : SweepStep(s)
    \/ \E d \in Editors : EditStep(d)
    \/ \E a \in Automations : SetActive(a) \/ ResetBreaker(a)
    \/ Tick \/ Lost

Spec == Init /\ [][Next]_vars

-----------------------------------------------------------------------------
(* Properties *)

\* Every variable keeps its type; a position's peak is never below its entry,
\* and its exit and its audit rows belong to the state of the row.
TypeOK ==
    /\ policy \in [Automations -> Policies]
    /\ active \in [Automations -> BOOLEAN]
    /\ resetAt \in [Automations -> Nat \cup {Never}]
    /\ now \in Nat
    /\ \A j \in Jobs :
          /\ book[j] \in {"none", "open", "closed"}
          /\ book[j] = "none" <=> terms[j] = NoTerms
          /\ book[j] # "none" =>
                /\ owner[j] \in Automations
                /\ terms[j].entry \in Quotes /\ terms[j].peak >= terms[j].entry
          /\ book[j] = "closed" <=> terms[j].closedAt # Never
          /\ noted[j] = 1 => book[j] = "closed"

\* docs/automation.md, "Exactly one position per job": with any evaluations and
\* sweeps side by side, redelivered jobs and lost calls, a job opens one
\* position, and its exit is booked and recorded once.
Book == INSTANCE TradeBook
ImplementsBook == Book!BookSpec

Opens(e, a) == LET c == evaluation[e] IN
    c.at = "create" /\ c.automation = a /\ book[c.job] = "none" /\ book'[c.job] = "open"

\* One position in each mint, and no more of them, nor of a greater value, than
\* the policy allows.
WithinPolicy(p, open) ==
    /\ \A x, y \in open : x.mint = y.mint => x = y
    /\ Cardinality(open) <= p["maxConcurrentPositions"]
    /\ Deployed(open) <= p["maxDeployedUsd"]

\* policy.ts: "Every field is a hard ceiling enforced before a position is
\* opened".  Once a position has opened, the book as it then is, not as the call
\* read it, is within the policy the call had read.
EntryWithinCeilings == [][\A e \in Evaluators, a \in Automations :
    Opens(e, a) => WithinPolicy(evaluation[e].policy, OpenPositions(a)')]_vars
=============================================================================
