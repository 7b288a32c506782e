---------------------------- MODULE GatewayProofs ----------------------------
(***************************************************************************)
(* The gateway under any clients: what a tenant is shown is its own, and a  *)
(* revoked credential gives no identity beyond the cache's lifetime, for    *)
(* any number of accounts, callers, rows and cache entries.                 *)
(***************************************************************************)
EXTENDS WebApp, SequenceTheorems, TLAPS

(* The tables and the requests keep their shape.                            *)
Shape ==
  /\ DOMAIN req = Callers /\ \A c \in Callers : DOMAIN req[c] = DOMAIN NoRequest
  /\ DOMAIN rows = Rows /\ \A r \in Rows : DOMAIN rows[r] = DOMAIN NoRow

(***************************************************************************)
(* Tenancy.                                                                 *)
(***************************************************************************)

(* A row that is shown exists.                                              *)
ShownExist ==
  \A c \in Callers : req[c].pc = "answered" =>
    req[c].shown \subseteq Rows /\ \A r \in req[c].shown : rows[r].kind # "none"

(* What automations note is a resolved job; what holds one's position is an *)
(* automation.                                                              *)
Books ==
  \A r \in Rows :
    /\ \A j \in rows[r].noted : j \in Rows /\ rows[j].kind = "job" /\ rows[j].status = "RESOLVED"
    /\ rows[r].held = Nobody \/ (rows[r].held \in Rows /\ rows[rows[r].held].kind = "automation")

Tenancy == Shape /\ ShownExist /\ Books /\ AnswersAreOwn

(* A row that exists stays what it is, and whose it is; a resolved job      *)
(* stays resolved, what is noted stays noted, a position stays where it is. *)
RowsKept ==
  \A r \in Rows : rows[r].kind # "none" =>
    /\ rows'[r].kind = rows[r].kind /\ rows'[r].owner = rows[r].owner
    /\ rows[r].status = "RESOLVED" => rows'[r].status = "RESOLVED"
    /\ rows[r].noted \subseteq rows'[r].noted
    /\ rows[r].held # Nobody => rows'[r].held = rows[r].held

(* Evaluated, of the rows after a step.                                     *)
EvaluatedThen(p, shown, r) ==
  \/ /\ rows'[r].kind = "job" /\ rows'[r].status = "RESOLVED"
     /\ \E a \in shown :
          /\ rows'[a].kind = "automation" /\ rows'[a].owner = p.account
          /\ r \in rows'[a].noted \/ rows'[r].held \in shown
  \/ rows'[r].kind = "automation" /\ \E j \in shown : rows'[j].held = r

OwnThen(p, shown, by) ==
  p.scope = "user" =>
    \A r \in shown :
      \/ rows'[r].kind = "agent" \/ rows'[r].owner = p.account
      \/ by \in Evaluates /\ EvaluatedThen(p, shown, r)

(* What a step does to one request: it is left alone, or it stands for an   *)
(* answer only when its rows exist and are its principal's, or reached by   *)
(* an evaluation.                                                           *)
Honest(q) ==
  /\ DOMAIN q = DOMAIN NoRequest
  /\ q.pc = "answered" =>
       /\ q.shown \subseteq Rows /\ \A r \in q.shown : rows'[r].kind # "none"
       /\ OwnThen(q.principal, q.shown, q.route)

RowsShape == DOMAIN rows' = Rows /\ (\A r \in Rows : DOMAIN rows'[r] = DOMAIN NoRow) /\ Books'

(* What was an account's to see stays so.                                   *)
LEMMA OwnStays ==
  ASSUME RowsKept, NEW p, NEW shown \in SUBSET Rows, \A r \in shown : rows[r].kind # "none",
         NEW by, OwnedBy(p, shown, by)
  PROVE  OwnThen(p, shown, by)
<1>. SUFFICES ASSUME p.scope = "user", NEW r \in shown
              PROVE  \/ rows'[r].kind = "agent" \/ rows'[r].owner = p.account
                     \/ by \in Evaluates /\ EvaluatedThen(p, shown, r)
  BY DEF OwnThen
<1>1. CASE Own(p, r)
  BY <1>1 DEF Own, RowsKept
<1>2. CASE by \in Evaluates /\ Evaluated(p, shown, r)
  <2>1. CASE rows[r].kind = "automation" /\ \E j \in shown : rows[j].held = r
    <3>1. PICK j \in shown : rows[j].held = r
      BY <2>1
    <3>2. r # Nobody
      BY GatewayAssumption
    <3>. QED BY <1>2, <2>1, <3>1, <3>2 DEF RowsKept, EvaluatedThen
  <2>2. ASSUME rows[r].kind = "job", rows[r].status = "RESOLVED", NEW a \in shown,
               rows[a].kind = "automation", rows[a].owner = p.account,
               r \in rows[a].noted \/ rows[r].held \in shown
        PROVE  EvaluatedThen(p, shown, r)
    <3>1. rows'[r].kind = "job" /\ rows'[r].status = "RESOLVED"
      BY <2>2 DEF RowsKept
    <3>2. rows'[a].kind = "automation" /\ rows'[a].owner = p.account /\ rows[a].noted \subseteq rows'[a].noted
      BY <2>2 DEF RowsKept
    <3>3. rows[r].held \in shown => rows'[r].held \in shown
      BY <2>2, GatewayAssumption DEF RowsKept
    <3>. QED BY <2>2, <3>1, <3>2, <3>3 DEF EvaluatedThen
  <2>. QED BY <1>2, <2>1, <2>2 DEF Evaluated
<1>. QED BY <1>1, <1>2 DEF OwnedBy

LEMMA StepKeepsTenancy ==
  ASSUME Tenancy, RowsKept, RowsShape, DOMAIN req' = Callers,
         \A c \in Callers : req'[c] = req[c] \/ Honest(req'[c])
  PROVE  Tenancy'
<1>1. ASSUME NEW c \in Callers
      PROVE  /\ DOMAIN req'[c] = DOMAIN NoRequest
             /\ req'[c].pc = "answered" =>
                  /\ req'[c].shown \subseteq Rows /\ \A r \in req'[c].shown : rows'[r].kind # "none"
                  /\ OwnThen(req'[c].principal, req'[c].shown, req'[c].route)
  <2>1. CASE req'[c] = req[c]
    <3>1. DOMAIN req[c] = DOMAIN NoRequest
      BY DEF Tenancy, Shape
    <3>2. ASSUME req[c].pc = "answered"
          PROVE  /\ req[c].shown \subseteq Rows /\ \A r \in req[c].shown : rows[r].kind # "none"
                 /\ OwnedBy(req[c].principal, req[c].shown, req[c].route)
      BY <3>2 DEF Tenancy, ShownExist, AnswersAreOwn
    <3>3. ASSUME req[c].pc = "answered"
          PROVE  OwnThen(req[c].principal, req[c].shown, req[c].route)
      BY <3>2, <3>3, OwnStays
    <3>. QED BY <2>1, <3>1, <3>2, <3>3 DEF RowsKept
  <2>2. CASE Honest(req'[c])
    BY <2>2 DEF Honest
  <2>. QED BY <2>1, <2>2
<1>2. Shape' /\ ShownExist' /\ Books'
  BY <1>1 DEF Shape, ShownExist, RowsShape
<1>3. AnswersAreOwn'
  BY <1>1 DEF AnswersAreOwn, OwnedBy, OwnThen, Own, Evaluated, EvaluatedThen
<1>. QED BY <1>2, <1>3 DEF Tenancy

LEMMA SameRows == Tenancy /\ UNCHANGED rows => RowsKept /\ RowsShape
BY DEF Tenancy, Shape, RowsKept, RowsShape, Books

(* A row that is taken was free.                                            *)
LEMMA Taking ==
  ASSUME Tenancy, Free # {}, NEW row, DOMAIN row = DOMAIN NoRow, row.noted = {}, row.held = Nobody,
         rows' = [rows EXCEPT ![NewId] = row]
  PROVE  /\ RowsKept /\ RowsShape
         /\ NewId \in Rows /\ rows'[NewId] = row
<1>1. NewId \in Free
  BY DEF NewId
<1>2. NewId \in Rows /\ rows[NewId] = NoRow
  BY <1>1 DEF Free
<1>3. NoRow.kind = "none"
  BY DEF NoRow
<1>4. /\ DOMAIN rows' = Rows /\ rows'[NewId] = row
      /\ \A r \in Rows : r # NewId => rows'[r] = rows[r]
  BY <1>2 DEF Tenancy, Shape
<1>. DEFINE new == NewId
<1>5. new \in Rows /\ rows[new].kind = "none" /\ rows'[new] = row /\ \A r \in Rows : r # new => rows'[r] = rows[r]
  BY <1>2, <1>3, <1>4
<1>. HIDE DEF new
<1>6. RowsKept
  BY <1>5 DEF RowsKept
<1>7. Books'
  BY <1>5 DEF Books, Tenancy
<1>. QED BY <1>2, <1>4, <1>6, <1>7 DEF RowsShape, Tenancy, Shape

(* A step that sends, drops, answers or moves on the request of one caller. *)
LEMMA OneRequest ==
  ASSUME Tenancy, NEW c \in Callers, NEW q, req' = [req EXCEPT ![c] = q], q = req[c] \/ Honest(q), RowsKept, RowsShape
  PROVE  Tenancy'
<1>1. DOMAIN req = Callers
  BY DEF Tenancy, Shape
<1>. QED BY <1>1, StepKeepsTenancy

LEMMA Answering ==
  ASSUME Tenancy, RowsKept, RowsShape, NEW c \in Callers, NEW code, NEW shown, NEW status, Answer(c, code, shown, status),
         shown \subseteq Rows, \A r \in shown : rows'[r].kind # "none",
         OwnThen(req[c].principal, shown, req[c].route)
  PROVE  Tenancy'
<1>. DEFINE q == [req[c] EXCEPT !.pc = "answered", !.row = Nobody, !.about = Nobody, !.waited = 0,
                                !.code = code, !.shown = shown, !.status = status]
<1>1. DOMAIN req[c] = DOMAIN NoRequest
  BY DEF Tenancy, Shape
<1>2. q.pc = "answered" /\ q.shown = shown /\ q.principal = req[c].principal /\ q.route = req[c].route
      /\ DOMAIN q = DOMAIN NoRequest
  BY <1>1 DEF NoRequest
<1>3. Honest(q)
  BY <1>2 DEF Honest
<1>4. req' = [req EXCEPT ![c] = q]
  BY DEF Answer
<1>. QED BY <1>3, <1>4, OneRequest

LEMMA Refusing ==
  ASSUME Tenancy, NEW c \in Callers, NEW code, Refuse(c, code), UNCHANGED rows
  PROVE  Tenancy'
BY SameRows, Answering DEF Refuse, OwnThen

(* A request that is anywhere but answered shows nothing.                   *)
LEMMA Moving ==
  ASSUME Tenancy, UNCHANGED rows, NEW c \in Callers, DOMAIN req' = Callers,
         \A d \in Callers : d # c => req'[d] = req[d],
         DOMAIN req'[c] = DOMAIN NoRequest, req'[c].pc # "answered"
  PROVE  Tenancy'
<1>1. Honest(req'[c])
  BY DEF Honest
<1>2. \A d \in Callers : req'[d] = req[d] \/ Honest(req'[d])
  BY <1>1
<1>. QED BY <1>2, SameRows, StepKeepsTenancy

LEMMA Passing ==
  ASSUME Tenancy, UNCHANGED rows, NEW c \in Callers, NEW principal, Pass(c, principal)
  PROVE  Tenancy'
<1>1. DOMAIN req = Callers /\ DOMAIN req[c] = DOMAIN NoRequest
  BY DEF Tenancy, Shape
<1>2. /\ DOMAIN req' = Callers /\ \A d \in Callers : d # c => req'[d] = req[d]
      /\ DOMAIN req'[c] = DOMAIN NoRequest /\ req'[c].pc = "paywall"
  BY <1>1 DEF Pass, NoRequest
<1>. QED BY <1>2, Moving

(* Where the reads of a sign-in lead.                                       *)
LEMMA ReadingEnds ==
  ASSUME NEW pc \in {"did", "holder", "wallet"}, NEW t, NEW a
  PROVE  Reading(pc, t, a).pc \in {"found", "holder", "wallet", "move", "claim", "create"}
BY DEF Reading, FindByDid, FindHolder, FindByWallet, Resolved

(***************************************************************************)
(* The steps of the gateway.                                                *)
(***************************************************************************)
LEMMA HookKeepsTenancy ==
  ASSUME Tenancy, NEW c \in Callers,
         Keyless(c) \/ PassCached(c) \/ Lookup(c) \/ ReadAccount(c) \/ WriteAccount(c) \/ Admit(c) \/ PayOrPass(c)
  PROVE  Tenancy'
<1>1. DOMAIN req = Callers /\ DOMAIN req[c] = DOMAIN NoRequest
  BY DEF Tenancy, Shape
<1>2. ASSUME NEW code, Refuse(c, code), UNCHANGED rows PROVE Tenancy'
  BY <1>2, Refusing
<1>3. ASSUME NEW principal, Pass(c, principal), UNCHANGED rows PROVE Tenancy'
  BY <1>3, Passing
<1>4. CASE Keyless(c)
  BY <1>2, <1>3, <1>4 DEF Keyless
<1>5. CASE PassCached(c)
  BY <1>3, <1>5 DEF PassCached
<1>6. CASE Lookup(c)
  <2>1. ASSUME NEW row, req' = [req EXCEPT ![c].pc = "found", ![c].row = row], UNCHANGED rows PROVE Tenancy'
    <3>1. /\ DOMAIN req' = Callers /\ \A d \in Callers : d # c => req'[d] = req[d]
          /\ DOMAIN req'[c] = DOMAIN NoRequest /\ req'[c].pc = "found"
      BY <1>1, <2>1 DEF NoRequest
    <3>. QED BY <2>1, <3>1, Moving
  <2>2. ASSUME NEW known, req' = [req EXCEPT ![c].pc = "did", ![c].known = known], UNCHANGED rows PROVE Tenancy'
    <3>1. /\ DOMAIN req' = Callers /\ \A d \in Callers : d # c => req'[d] = req[d]
          /\ DOMAIN req'[c] = DOMAIN NoRequest /\ req'[c].pc = "did"
      BY <1>1, <2>2 DEF NoRequest
    <3>. QED BY <2>2, <3>1, Moving
  <2>. QED BY <1>2, <1>3, <1>6, <2>1, <2>2 DEF Lookup, Unknown
<1>7. CASE ReadAccount(c)
  <2>. DEFINE r == Reading(req[c].pc, req[c].cred, req[c].row)
  <2>1. r.pc \in {"found", "holder", "wallet", "move", "claim", "create"}
    BY <1>7, ReadingEnds DEF ReadAccount
  <2>2. req' = [req EXCEPT ![c].pc = r.pc, ![c].row = r.row] /\ UNCHANGED rows
    BY <1>7 DEF ReadAccount
  <2>. HIDE DEF r
  <2>3. /\ DOMAIN req' = Callers /\ \A d \in Callers : d # c => req'[d] = req[d]
        /\ DOMAIN req'[c] = DOMAIN NoRequest /\ req'[c].pc = r.pc
    BY <1>1, <2>2 DEF NoRequest
  <2>. QED BY <2>1, <2>2, <2>3, Moving
<1>8. CASE WriteAccount(c)
  <2>1. UNCHANGED rows
    BY <1>8 DEF WriteAccount
  <2>2. CASE Refuse(c, 500)
    BY <1>2, <2>1, <2>2
  <2>3. CASE \E b : req' = [req EXCEPT ![c].pc = "found", ![c].row = b]
    <3>1. /\ DOMAIN req' = Callers /\ \A d \in Callers : d # c => req'[d] = req[d]
          /\ DOMAIN req'[c] = DOMAIN NoRequest /\ req'[c].pc = "found"
      BY <1>1, <2>3 DEF NoRequest
    <3>. QED BY <2>1, <3>1, Moving
  <2>. QED BY <1>8, <2>2, <2>3 DEF WriteAccount
<1>9. CASE Admit(c)
  BY <1>2, <1>3, <1>9 DEF Admit, Unknown
<1>10. CASE PayOrPass(c)
  <2>1. UNCHANGED rows
    BY <1>10 DEF PayOrPass
  <2>2. CASE \E code : Refuse(c, code)
    BY <1>2, <2>1, <2>2
  <2>3. CASE req' = [req EXCEPT ![c].pc = "handler"] \/ req' = [req EXCEPT ![c].pc = "handler", ![c].paid = TRUE]
    <3>1. /\ DOMAIN req' = Callers /\ \A d \in Callers : d # c => req'[d] = req[d]
          /\ DOMAIN req'[c] = DOMAIN NoRequest /\ req'[c].pc = "handler"
      BY <1>1, <2>3 DEF NoRequest
    <3>. QED BY <2>1, <3>1, Moving
  <2>. QED BY <1>10, <2>2, <2>3 DEF PayOrPass
<1>. QED BY <1>4, <1>5, <1>6, <1>7, <1>8, <1>9, <1>10

(* Visible rows exist and are the principal's.                              *)
LEMMA VisibleAreOwn ==
  ASSUME NEW c \in Callers, NEW kind \in {"job", "automation"}
  PROVE  /\ Visible(c, kind) \subseteq Rows
         /\ \A r \in Visible(c, kind) :
              rows[r].kind # "none" /\ (req[c].principal.scope = "user" => rows[r].owner = req[c].principal.account)
BY DEF Visible, InScope

LEMMA ShowingVisible ==
  ASSUME Tenancy, UNCHANGED rows, NEW c \in Callers, NEW kind \in {"job", "automation"}, NEW code, NEW shown, NEW status,
         shown \subseteq Visible(c, kind), Answer(c, code, shown, status)
  PROVE  Tenancy'
<1>1. /\ shown \subseteq Rows /\ \A r \in shown : rows'[r].kind # "none"
      /\ OwnThen(req[c].principal, shown, req[c].route)
  BY VisibleAreOwn DEF OwnThen
<1>. QED BY <1>1, SameRows, Answering

LEMMA LooksKeepsTenancy ==
  ASSUME Tenancy, NEW c \in Callers, Looks(c)
  PROVE  Tenancy'
<1>1. UNCHANGED rows
  BY DEF Looks
<1>2. ASSUME NEW kind \in {"job", "automation"}, req[c].about \in Visible(c, kind), NEW code, NEW status,
             Answer(c, code, {req[c].about}, status)
      PROVE  Tenancy'
  BY <1>1, <1>2, ShowingVisible
<1>3. ASSUME NEW code, Refuse(c, code) PROVE Tenancy'
  BY <1>1, <1>3, Refusing
<1>4. CASE GetJob(c) \/ GetIntelligence(c) \/ GetExplanation(c)
  BY <1>2, <1>3, <1>4 DEF GetJob, GetIntelligence, GetExplanation, Show
<1>5. CASE GetAutomation(c) \/ Manage(c)
  BY <1>2, <1>3, <1>5 DEF GetAutomation, Manage, Show
<1>9. CASE GetPositions(c)
  <2>. DEFINE a == req[c].about
              p == req[c].principal
              shown == {a} \cup rows[a].noted
  <2>1. CASE Refuse(c, 404)
    BY <1>3, <2>1
  <2>2. CASE a \in Visible(c, "automation") /\ Answer(c, 200, shown, "OPEN")
    <3>1. a \in Rows /\ rows[a].kind = "automation" /\ (p.scope = "user" => rows[a].owner = p.account)
      BY <2>2 DEF Visible, InScope
    <3>2. \A j \in rows[a].noted : j \in Rows /\ rows[j].kind = "job" /\ rows[j].status = "RESOLVED"
      BY <3>1 DEF Tenancy, Books
    <3>3. shown \subseteq Rows /\ \A r \in shown : rows'[r].kind # "none"
      BY <1>1, <3>1, <3>2
    <3>4. req[c].route \in Evaluates
      BY <1>9 DEF GetPositions, At, Evaluates
    <3>5. ASSUME p.scope = "user", NEW r \in shown
          PROVE  rows'[r].owner = p.account \/ EvaluatedThen(p, shown, r)
      <4>1. CASE r = a
        BY <1>1, <3>1, <3>5, <4>1
      <4>2. CASE r \in rows[a].noted
        <5>1. /\ a \in shown /\ rows'[a].kind = "automation" /\ rows'[a].owner = p.account
              /\ r \in rows'[a].noted /\ rows'[r].kind = "job" /\ rows'[r].status = "RESOLVED"
          BY <1>1, <3>1, <3>2, <3>5, <4>2
        <5>. HIDE DEF a, p, shown
        <5>. QED BY <5>1 DEF EvaluatedThen
      <4>. QED BY <3>5, <4>1, <4>2
    <3>6. OwnThen(p, shown, req[c].route)
      BY <3>4, <3>5 DEF OwnThen
    <3>. HIDE DEF a, shown
    <3>. QED BY <1>1, <2>2, <3>3, <3>6, SameRows, Answering
  <2>. QED BY <1>9, <2>1, <2>2 DEF GetPositions
<1>6. CASE GetAgent(c) \/ ListAgents(c)
  <2>1. ASSUME NEW code PROVE Refuse(c, code) => Tenancy'
    BY <1>3
  <2>2. ASSUME NEW shown \in SUBSET Registry, Answer(c, 200, shown, "OPEN") PROVE Tenancy'
    <3>1. shown \subseteq Rows /\ \A r \in shown : rows'[r].kind = "agent"
      BY <1>1 DEF Registry
    <3>2. \A r \in shown : rows'[r].kind # "none"
      BY <3>1
    <3>3. OwnThen(req[c].principal, shown, req[c].route)
      BY <3>1 DEF OwnThen
    <3>. QED BY <1>1, <2>2, <3>1, <3>2, <3>3, SameRows, Answering
  <2>3. \/ Refuse(c, 404)
        \/ \E shown \in SUBSET Registry : Answer(c, 200, shown, "OPEN")
    BY <1>6 DEF GetAgent, ListAgents
  <2>. QED BY <2>1, <2>2, <2>3
<1>7. CASE ListJobs(c) \/ Stats(c) \/ ListAutomations(c)
  <2>1. \E kind \in {"job", "automation"} : Answer(c, 200, Visible(c, kind), "OPEN")
    BY <1>7 DEF ListJobs, Stats, ListAutomations
  <2>. QED BY <1>1, <2>1, ShowingVisible
<1>8. CASE Datanets(c)
  BY <1>1, <1>8, SameRows, Answering DEF Datanets, OwnThen
<1>. QED BY <1>4, <1>5, <1>6, <1>7, <1>8, <1>9 DEF Looks

(* The routes that take a row take a free one for the principal.            *)
LEMMA TakingKeepsTenancy ==
  ASSUME Tenancy, Free # {}, NEW c \in Callers, NEW row,
         DOMAIN row = DOMAIN NoRow, row.kind # "none", row.owner = req[c].principal.account,
         row.noted = {}, row.held = Nobody,
         rows' = [rows EXCEPT ![NewId] = row], Answer(c, 201, {NewId}, "OPEN")
  PROVE  Tenancy'
<1>1. /\ RowsKept /\ RowsShape
      /\ NewId \in Rows /\ rows'[NewId] = row
  BY Taking
<1>. DEFINE shown == {NewId}
<1>2. shown \subseteq Rows /\ \A r \in shown : rows'[r].kind # "none" /\ rows'[r].owner = req[c].principal.account
  BY <1>1
<1>3. Answer(c, 201, shown, "OPEN")
  OBVIOUS
<1>4. OwnThen(req[c].principal, shown, req[c].route)
  BY <1>2 DEF OwnThen
<1>. HIDE DEF shown
<1>. QED BY <1>1, <1>2, <1>3, <1>4, Answering

(* An evaluation shows the automation, which is the principal's, and the    *)
(* job that it tells of, with the automation that holds its position.       *)
LEMMA EvaluateAnswers ==
  ASSUME NEW c \in Callers, Evaluate(c)
  PROVE  req[c].pc = "handler" /\ req[c].route = "evaluate" /\ \E code, shown, status : Answer(c, code, shown, status)
BY DEF Evaluate, At, Refuse

LEMMA EvaluateKeepsTenancy ==
  ASSUME Tenancy, NEW c \in Callers, Evaluate(c)
  PROVE  Tenancy'
<1>. DEFINE p == req[c].principal
<1>1. req[c].route \in Evaluates
  BY DEF Evaluate, At, Evaluates
<1>2. CASE Refuse(c, 404) /\ UNCHANGED rows
  BY <1>2, Refusing
<1>3. ASSUME NEW a \in Visible(c, "automation"), a = req[c].about, Answer(c, 200, {a}, "OPEN"), UNCHANGED rows
      PROVE  Tenancy'
  BY <1>3, ShowingVisible
<1>4. ASSUME NEW a \in Visible(c, "automation"), NEW j \in Rows, Tells(j), NEW shown,
             Answer(c, 200, shown, "OPEN"),
             \/ rows' = [rows EXCEPT ![a].noted = @ \cup {j}] /\ shown = {a, j}
             \/ rows[j].held = Nobody /\ rows' = [rows EXCEPT ![a].noted = @ \cup {j}, ![j].held = a] /\ shown = {a, j}
             \/ UNCHANGED rows /\ rows[j].held # Nobody /\ shown = {a, j, rows[j].held}
      PROVE  Tenancy'
  <2>1. /\ a \in Rows /\ rows[a].kind = "automation" /\ (p.scope = "user" => rows[a].owner = p.account)
        /\ rows[j].kind = "job" /\ rows[j].status = "RESOLVED" /\ a # j
    BY <1>4 DEF Visible, InScope, Tells
  <2>2. /\ DOMAIN rows = Rows /\ \A r \in Rows : DOMAIN rows[r] = DOMAIN NoRow
        /\ Books
    BY DEF Tenancy, Shape
  <2>. HIDE DEF p
  <2>3. /\ DOMAIN rows' = Rows
        /\ \A r \in Rows :
             /\ DOMAIN rows'[r] = DOMAIN NoRow /\ rows'[r].kind = rows[r].kind /\ rows'[r].owner = rows[r].owner
             /\ rows'[r].status = rows[r].status
             /\ rows'[r].noted = rows[r].noted \/ (r = a /\ rows'[r].noted = rows[r].noted \cup {j})
             /\ rows'[r].held = rows[r].held \/ (r = j /\ rows[j].held = Nobody /\ rows'[r].held = a)
        /\ j \in rows'[a].noted \/ (rows'[j].held # Nobody /\ shown = {a, j, rows'[j].held})
    <3>1. CASE rows' = [rows EXCEPT ![a].noted = @ \cup {j}]
      BY <2>1, <2>2, <3>1 DEF NoRow
    <3>2. CASE rows[j].held = Nobody /\ rows' = [rows EXCEPT ![a].noted = @ \cup {j}, ![j].held = a]
      BY <2>1, <2>2, <3>2 DEF NoRow
    <3>3. CASE UNCHANGED rows /\ rows[j].held # Nobody /\ shown = {a, j, rows[j].held}
      BY <2>2, <3>3
    <3>. QED BY <1>4, <3>1, <3>2, <3>3
  <2>4. RowsKept
    BY <2>3 DEF RowsKept
  <2>5. Books'
    BY <2>1, <2>2, <2>3 DEF Books
  <2>6. RowsShape
    BY <2>3, <2>5 DEF RowsShape
  <2>7. /\ a \in shown /\ j \in shown
        /\ \A r \in shown : r = a \/ r = j \/ (r = rows[j].held /\ rows[j].held # Nobody)
    BY <1>4
  <2>8. shown \subseteq Rows /\ \A r \in shown : rows'[r].kind # "none"
    BY <2>1, <2>2, <2>3, <2>7 DEF Books
  <2>9. ASSUME p.scope = "user", NEW r \in shown
        PROVE  rows'[r].owner = p.account \/ EvaluatedThen(p, shown, r)
    <3>1. CASE r = a
      BY <2>1, <2>3, <2>9, <3>1
    <3>2. CASE r = j
      <4>1. rows'[a].kind = "automation" /\ rows'[a].owner = p.account /\ a \in shown
        BY <2>1, <2>3, <2>7, <2>9
      <4>2. rows'[j].kind = "job" /\ rows'[j].status = "RESOLVED"
        BY <2>1, <2>3
      <4>3. j \in rows'[a].noted \/ rows'[j].held \in shown
        BY <2>3
      <4>. QED BY <3>2, <4>1, <4>2, <4>3 DEF EvaluatedThen
    <3>3. CASE r = rows[j].held /\ rows[j].held # Nobody
      <4>1. rows'[j].held = r /\ j \in shown
        BY <2>3, <2>7, <3>3
      <4>2. rows'[r].kind = "automation"
        BY <2>2, <2>3, <3>3 DEF Books
      <4>. QED BY <4>1, <4>2 DEF EvaluatedThen
    <3>. QED BY <2>7, <3>1, <3>2, <3>3
  <2>10. OwnThen(p, shown, req[c].route)
    BY <1>1, <2>9 DEF OwnThen
  <2>. USE DEF p
  <2>. QED BY <1>4, <2>4, <2>6, <2>8, <2>10, Answering
<1>. DEFINE a == req[c].about
<1>5. ASSUME a \in Visible(c, "automation"), NEW j \in Rows, Tells(j),
             \/ rows' = [rows EXCEPT ![a].noted = @ \cup {j}] /\ Answer(c, 200, {a, j}, "OPEN")
             \/ /\ rows[j].held = Nobody
                /\ rows' = [rows EXCEPT ![a].noted = @ \cup {j}, ![j].held = a]
                /\ Answer(c, 200, {a, j}, "OPEN")
             \/ /\ rows[j].held # Nobody
                /\ Answer(c, 200, {a, j, rows[j].held}, "OPEN") /\ UNCHANGED rows
      PROVE  Tenancy'
  <2>. HIDE DEF a
  <2>2. CASE rows' = [rows EXCEPT ![a].noted = @ \cup {j}] /\ Answer(c, 200, {a, j}, "OPEN")
    BY <1>4, <1>5, <2>2
  <2>3. CASE /\ rows[j].held = Nobody
             /\ rows' = [rows EXCEPT ![a].noted = @ \cup {j}, ![j].held = a]
             /\ Answer(c, 200, {a, j}, "OPEN")
    BY <1>4, <1>5, <2>3
  <2>4. CASE rows[j].held # Nobody /\ Answer(c, 200, {a, j, rows[j].held}, "OPEN") /\ UNCHANGED rows
    BY <1>4, <1>5, <2>4
  <2>. QED BY <1>5, <2>2, <2>3, <2>4
<1>. QED BY <1>2, <1>3, <1>5 DEF Evaluate

LEMMA WritingKeepsTenancy ==
  ASSUME Tenancy, NEW c \in Callers,
         Create(c) \/ Deploy(c) \/ FindAgent(c) \/ RegisterAgent(c) \/ Health(c) \/ Fail(c)
  PROVE  Tenancy'
<1>1. DOMAIN req = Callers /\ DOMAIN req[c] = DOMAIN NoRequest
  BY DEF Tenancy, Shape
<1>2. ASSUME NEW code, Refuse(c, code), UNCHANGED rows PROVE Tenancy'
  BY <1>2, Refusing
<1>4. ASSUME NEW kind \in {"job", "automation", "agent"}, NEW owner
      PROVE  /\ DOMAIN [NoRow EXCEPT !.kind = kind, !.owner = owner] = DOMAIN NoRow
             /\ [NoRow EXCEPT !.kind = kind, !.owner = owner].kind # "none"
             /\ [NoRow EXCEPT !.kind = kind, !.owner = owner].owner = owner
             /\ [NoRow EXCEPT !.kind = kind, !.owner = owner].noted = {}
             /\ [NoRow EXCEPT !.kind = kind, !.owner = owner].held = Nobody
  BY DEF NoRow
<1>5. CASE Create(c)
  <2>1. /\ Free # {} /\ Answer(c, 201, {NewId}, "OPEN")
        /\ rows' = [rows EXCEPT ![NewId] =
                      [NoRow EXCEPT !.kind = "job", !.owner = req[c].principal.account, !.paid = req[c].paid]]
    BY <1>5 DEF Create
  <2>. DEFINE row == [NoRow EXCEPT !.kind = "job", !.owner = req[c].principal.account, !.paid = req[c].paid]
  <2>2. /\ DOMAIN row = DOMAIN NoRow /\ row.kind # "none" /\ row.owner = req[c].principal.account
        /\ row.noted = {} /\ row.held = Nobody
    BY DEF NoRow
  <2>. QED BY <2>1, <2>2, TakingKeepsTenancy
<1>6. CASE Deploy(c)
  <2>1. \/ \E code \in {401, 409} : Refuse(c, code) /\ UNCHANGED rows
        \/ /\ Free # {} /\ Answer(c, 201, {NewId}, "OPEN")
           /\ rows' = [rows EXCEPT ![NewId] =
                         [NoRow EXCEPT !.kind = "automation", !.owner = req[c].principal.account]]
    BY <1>6 DEF Deploy
  <2>. DEFINE row == [NoRow EXCEPT !.kind = "automation", !.owner = req[c].principal.account]
  <2>2. /\ DOMAIN row = DOMAIN NoRow /\ row.kind # "none" /\ row.owner = req[c].principal.account
        /\ row.noted = {} /\ row.held = Nobody
    BY <1>4
  <2>. QED BY ZenonT(30), <1>2, <2>1, <2>2, TakingKeepsTenancy
<1>7. CASE FindAgent(c)
  <2>1. UNCHANGED rows /\ (Refuse(c, 409) \/ req' = [req EXCEPT ![c].pc = "insert"])
    BY <1>7 DEF FindAgent
  <2>2. CASE req' = [req EXCEPT ![c].pc = "insert"]
    <3>1. /\ DOMAIN req' = Callers /\ \A d \in Callers : d # c => req'[d] = req[d]
          /\ DOMAIN req'[c] = DOMAIN NoRequest /\ req'[c].pc = "insert"
      BY <1>1, <2>2 DEF NoRequest
    <3>. QED BY <2>1, <3>1, Moving
  <2>. QED BY <1>2, <2>1, <2>2
<1>8. CASE RegisterAgent(c)
  <2>1. \/ Refuse(c, 500) /\ UNCHANGED rows
        \/ /\ Free # {} /\ Answer(c, 201, {NewId}, "OPEN")
           /\ rows' = [rows EXCEPT ![NewId] =
                         [NoRow EXCEPT !.kind = "agent", !.owner = req[c].principal.account]]
    BY <1>8 DEF RegisterAgent
  <2>. DEFINE row == [NoRow EXCEPT !.kind = "agent", !.owner = req[c].principal.account]
  <2>2. /\ DOMAIN row = DOMAIN NoRow /\ row.kind # "none" /\ row.owner = req[c].principal.account
        /\ row.noted = {} /\ row.held = Nobody
    BY <1>4
  <2>. QED BY ZenonT(30), <1>2, <2>1, <2>2, TakingKeepsTenancy
<1>9. CASE Health(c) \/ Fail(c)
  BY <1>2, <1>9 DEF Health, Fail
<1>. QED BY <1>5, <1>6, <1>7, <1>8, <1>9

(***************************************************************************)
(* What the clients send, and what happens beside them.                     *)
(***************************************************************************)

(* A client touches requests by sending one that has arrived and by         *)
(* dropping one.                                                            *)
Fresh(q) ==
  /\ DOMAIN q = DOMAIN NoRequest /\ q.pc \in {"none", "arrived"} /\ q.age = -1 /\ q.waited = 0
  /\ q.known = Nobody /\ q.principal = NoPrincipal

Resent(c) == UNCHANGED req \/ \E q : Fresh(q) /\ req' = [req EXCEPT ![c] = q]

LEMMA Arrival ==
  ASSUME NEW c, NEW route, NEW about, NEW cred,
         req' = [req EXCEPT ![c] = [NoRequest EXCEPT !.pc = "arrived", !.route = route, !.about = about, !.cred = cred]]
  PROVE  Resent(c)
<1>. DEFINE q == [NoRequest EXCEPT !.pc = "arrived", !.route = route, !.about = about, !.cred = cred]
<1>1. Fresh(q)
  BY DEF Fresh, NoRequest
<1>. QED BY <1>1 DEF Resent

LEMMA DropsOrSends ==
  ASSUME NEW c
  PROVE  /\ Dropped(c) => Resent(c)
         /\ \A route, about, pc : Send(c, route, about, pc) => Resent(c)
         /\ \A route : Request(c, route) => Resent(c)
<1>1. Fresh(NoRequest)
  BY DEF Fresh, NoRequest
<1>2. Dropped(c) => Resent(c)
  BY <1>1 DEF Dropped, Resent
<1>3. ASSUME NEW route, NEW about, NEW pc, Send(c, route, about, pc) PROVE Resent(c)
  BY <1>3, Arrival DEF Send
<1>4. ASSUME NEW route, Request(c, route) PROVE Resent(c)
  <2>1. PICK about : req' = [req EXCEPT ![c] = [NoRequest EXCEPT !.pc = "arrived", !.route = route, !.about = about,
                                                                 !.cred = Bearer(c)]]
    BY <1>4 DEF Request
  <2>. QED BY <2>1, Arrival
<1>. QED BY <1>2, <1>3, <1>4

LEMMA ClientsResend == ASSUME NEW c \in Callers, ClientStep(c) PROVE Resent(c)
<1>1. CASE GiveUp(c) \/ Abort(c)
  BY <1>1 DEF GiveUp, Abort, Resent
<1>2. CASE Ask(c) \/ Submit(c) \/ Poll(c)
  BY <1>2, DropsOrSends DEF Ask, Submit, Poll
<1>3. CASE Receive(c) \/ Unheard(c)
  BY <1>3, DropsOrSends DEF Receive, Unheard
<1>. QED BY <1>1, <1>2, <1>3 DEF ClientStep

LEMMA WebResends == ASSUME NEW c \in Callers, WebStep(c) PROVE Resent(c)
<1>1. CASE WalletBridge(c) \/ Cut(c) \/ Refresh(c) \/ Press(c)
  BY <1>1 DEF WalletBridge, Cut, Refresh, Press, Resent
<1>2. CASE Loaded(c) \/ Filled(c)
  BY <1>2, DropsOrSends DEF Loaded, Filled
<1>3. CASE Fill(c)
  BY <1>3, DropsOrSends DEF Fill
<1>4. CASE Visit(c)
  <2>1. UNCHANGED req \/ \E route : Request(c, route)
    BY <1>4 DEF Visit, Home, JobPage, AgentsPage, DatanetsPage, AutomationPage, AutomationDetailPage, CreateJobAction,
                DeployAutomationAction, ControlAction, Forward, Gate, Submitted, Enabled, Instead
  <2>. QED BY <2>1, DropsOrSends DEF Resent
<1>. QED BY <1>1, <1>2, <1>3, <1>4 DEF WebStep, Render

LEMMA SameTenancy == Tenancy /\ UNCHANGED <<rows, req>> => Tenancy'
BY DEF Tenancy, Shape, ShownExist, Books, AnswersAreOwn, OwnedBy, Own, Evaluated

LEMMA ResentKeepsTenancy ==
  ASSUME Tenancy, NEW c \in Callers, Resent(c), UNCHANGED rows
  PROVE  Tenancy'
<1>1. CASE UNCHANGED req
  BY <1>1, SameTenancy
<1>2. ASSUME NEW q, Fresh(q), req' = [req EXCEPT ![c] = q] PROVE Tenancy'
  <2>1. Honest(q)
    BY <1>2 DEF Honest, Fresh
  <2>. QED BY <1>2, <2>1, SameRows, OneRequest
<1>. QED BY <1>1, <1>2 DEF Resent

LEMMA SurroundingsKeepTenancy == ASSUME Tenancy, Surroundings PROVE Tenancy'
<1>1. CASE Tick
  <2>1. DOMAIN req' = Callers /\ UNCHANGED rows
    BY <1>1 DEF Tick
  <2>2. ASSUME NEW c \in Callers PROVE req'[c] = req[c] \/ Honest(req'[c])
    <3>1. DOMAIN req[c] = DOMAIN NoRequest
      BY DEF Tenancy, Shape
    <3>2. CASE LookingUp(c)
      <4>1. req'[c] = [req[c] EXCEPT !.waited = @ + 1]
        BY <1>1, <3>2 DEF Tick
      <4>2. DOMAIN req'[c] = DOMAIN NoRequest /\ req'[c].pc = req[c].pc
        BY <3>1, <4>1 DEF NoRequest
      <4>3. req[c].pc # "answered"
        BY <3>2 DEF LookingUp
      <4>. QED BY <4>2, <4>3 DEF Honest
    <3>3. CASE ~LookingUp(c)
      BY <1>1, <3>3 DEF Tick
    <3>. QED BY <3>2, <3>3
  <2>. QED BY <2>1, <2>2, SameRows, StepKeepsTenancy
<1>2. CASE UNCHANGED <<rows, req>>
  BY <1>2, SameTenancy
<1>3. ASSUME NEW r \in Rows, Advance(r) PROVE Tenancy'
  <2>4. /\ DOMAIN rows' = Rows /\ rows[r].status = "OPEN"
        /\ \A s \in Rows : /\ DOMAIN rows'[s] = DOMAIN NoRow /\ (s # r => rows'[s] = rows[s])
                           /\ rows'[s].kind = rows[s].kind /\ rows'[s].owner = rows[s].owner
                           /\ rows'[s].noted = rows[s].noted /\ rows'[s].held = rows[s].held
    BY <1>3 DEF Advance, Tenancy, Shape, NoRow
  <2>1. RowsKept /\ RowsShape
    <3>1. RowsKept
      BY <2>4 DEF RowsKept
    <3>2. \A s \in Rows : rows[s].status = "RESOLVED" => rows'[s].status = "RESOLVED"
      BY <2>4
    <3>3. Books'
      BY <2>4, <3>2 DEF Tenancy, Books
    <3>. QED BY <2>4, <3>1, <3>3 DEF RowsShape
  <2>2. \A c \in Callers : req'[c] = req[c]
    BY <1>3 DEF Advance
  <2>3. DOMAIN req' = Callers
    BY <1>3 DEF Advance, Tenancy, Shape
  <2>. QED BY <2>1, <2>2, <2>3, StepKeepsTenancy
<1>. QED BY <1>1, <1>2, <1>3 DEF Surroundings, Rotate, Expire

LEMMA TenancyInit == WebInit => Tenancy
BY DEF WebInit, GatewayInit, Tenancy, Shape, ShownExist, Books, AnswersAreOwn, NoRequest

LEMMA TenancyStep == Tenancy /\ [WebNext]_webVars => Tenancy'
<1>. SUFFICES ASSUME Tenancy, [WebNext]_webVars PROVE Tenancy'
  OBVIOUS
<1>1. ASSUME NEW c \in Callers, ClientStep(c) \/ WebStep(c) PROVE Tenancy'
  <2>1. UNCHANGED rows
    BY <1>1 DEF ClientStep, WebStep
  <2>. QED BY <1>1, <2>1, ClientsResend, WebResends, ResentKeepsTenancy
<1>2. ASSUME NEW c \in Callers, Serve(c) PROVE Tenancy'
  BY <1>2, HookKeepsTenancy, LooksKeepsTenancy, WritingKeepsTenancy, EvaluateKeepsTenancy DEF Serve
<1>3. CASE Surroundings
  BY <1>3, SurroundingsKeepTenancy
<1>4. CASE UNCHANGED webVars
  BY <1>4, SameTenancy DEF webVars
<1>. QED BY <1>1, <1>2, <1>3, <1>4 DEF WebNext, ApiNext

(* Whoever asks, in whatever order requests are served, the jobs and        *)
(* automations that an answer to an account shows are that account's        *)
(* (requesterScope and ownerScope of the routes), except what an evaluation *)
(* reaches by a job's id, which no filter scopes (automations.ts:350): in   *)
(* that answer, and in the positions and events of the automation, one      *)
(* resolved job of any tenant that it noted or whose position there is, and *)
(* the automation with that position.                                       *)
THEOREM TenantsSeeTheirOwn == WebSpec => []AnswersAreOwn
<1>1. Tenancy => AnswersAreOwn
  BY DEF Tenancy
<1>. QED BY <1>1, TenancyInit, TenancyStep, PTL DEF WebSpec

(***************************************************************************)
(* Revocation.  What is cached and what is being looked up fade with time:  *)
(* an entry has no more life than is left of the window since its           *)
(* credential was revoked, and a lookup began before that, no longer ago    *)
(* than it has waited.  A revoked key is no account's.                      *)
(***************************************************************************)
IsSeq(s) == s \in Seq({s[i] : i \in DOMAIN s})

UsersKept ==
  /\ DOMAIN users = Accounts /\ \A a \in Accounts : DOMAIN users[a] = DOMAIN NoUser
  /\ \A a, b \in Accounts : users[a].live /\ users[b].live /\ users[a].key = users[b].key
                            => a = b \/ users[a].key = Nobody

SinceTyped ==
  DOMAIN since = Keys \cup Tokens /\ \A k \in Keys \cup Tokens : since[k] \in Int /\ since[k] >= -1

RevokedKeysAreGone ==
  \A k \in Keys : since[k] >= 0 => \A a \in Accounts : users[a].live => users[a].key # k

Fades(e) ==
  /\ DOMAIN e = {"cred", "principal", "left"} /\ e.left \in 0..TTL
  /\ e.cred \in Keys \cup Tokens /\ e.left > 0 => since[e.cred] + e.left <= TTL + MaxLookup

CacheFades == IsSeq(cache) /\ \A i \in DOMAIN cache : Fades(cache[i])

Timely(q) ==
  /\ DOMAIN q = DOMAIN NoRequest /\ q.waited \in 0..MaxLookup
  /\ q.age \in Int /\ q.age <= TTL + MaxLookup

Sought(q) ==
  q.pc \in {"did", "holder", "wallet", "move", "claim", "create", "found"} =>
    /\ q.cred \in Keys \cup Tokens /\ (q.pc # "found" => q.cred \in Tokens)
    /\ since[q.cred] <= q.waited \/ (q.cred \in Keys /\ q.pc = "found" /\ q.row = Nobody)

RequestsAreTimely == DOMAIN req = Callers /\ \A c \in Callers : Timely(req[c]) /\ Sought(req[c])

Revocation == UsersKept /\ SinceTyped /\ RevokedKeysAreGone /\ CacheFades /\ RequestsAreTimely

LEMMA Sequences ==
  ASSUME NEW S, NEW s \in Seq(S)
  PROVE  IsSeq(s) /\ \A i \in DOMAIN s : s[i] \in S
<1>1. Len(s) \in Nat /\ s \in [1..Len(s) -> S] /\ DOMAIN s = 1..Len(s)
  BY LenProperties
<1>2. s \in [1..Len(s) -> {s[i] : i \in DOMAIN s}]
  BY <1>1
<1>3. s \in Seq({s[i] : i \in DOMAIN s})
  BY <1>1, <1>2, SeqDef
<1>. QED BY <1>1, <1>3 DEF IsSeq

LEMMA GetKeepsEntries ==
  ASSUME NEW S, cache \in Seq(S), NEW cred
  PROVE  AfterGet(cred) \in Seq(S)
<1>1. CASE Cached(cred) = {} \/ Hit(cred) # {}
  BY <1>1 DEF AfterGet
<1>2. CASE ~(Cached(cred) = {} \/ Hit(cred) # {})
  <2>. DEFINE i == CHOOSE i \in Cached(cred) : TRUE
  <2>1. Len(cache) \in Nat /\ DOMAIN cache = 1..Len(cache)
    BY LenProperties
  <2>2. i \in 1..Len(cache)
    BY <1>2, <2>1 DEF Cached
  <2>3. AfterGet(cred) = SubSeq(cache, 1, i - 1) \o SubSeq(cache, i + 1, Len(cache))
    BY <1>2 DEF AfterGet, RemoveAt
  <2>. HIDE DEF i
  <2>4. SubSeq(cache, 1, i - 1) \in Seq(S) /\ SubSeq(cache, i + 1, Len(cache)) \in Seq(S)
    BY <2>1, <2>2, SubSeqProperties
  <2>. QED BY <2>3, <2>4, ConcatProperties
<1>. QED BY <1>1, <1>2

LEMMA SetAddsAnEntry ==
  ASSUME NEW S, NEW held \in Seq(S), NEW cred, NEW principal
  PROVE  AfterSet(held, cred, principal) \in Seq(S \cup {[cred |-> cred, principal |-> principal, left |-> TTL]})
<1>. DEFINE entry == [cred |-> cred, principal |-> principal, left |-> TTL]
            rest == IF Len(held) >= MaxEntries THEN Tail(held) ELSE held
            at == {i \in DOMAIN rest : rest[i].cred = cred}
            T == S \cup {entry}
<1>1. Len(held) \in Nat
  BY LenProperties
<1>2. rest \in Seq(S)
  <2>1. CASE Len(held) >= MaxEntries
    <3>1. held # <<>>
      BY <1>1, <2>1, GatewayAssumption, EmptySeq
    <3>. QED BY <2>1, <3>1, HeadTailProperties
  <2>. QED BY <2>1
<1>3. AfterSet(held, cred, principal)
        = IF at = {} THEN Append(rest, entry) ELSE [i \in DOMAIN rest |-> IF i \in at THEN entry ELSE rest[i]]
  BY DEF AfterSet
<1>. HIDE DEF rest, at, entry
<1>4. rest \in Seq(T) /\ entry \in T
  BY <1>2, SeqMonotonic
<1>5. Append(rest, entry) \in Seq(T)
  BY <1>4, AppendProperties
<1>6. [i \in DOMAIN rest |-> IF i \in at THEN entry ELSE rest[i]] \in Seq(T)
  <2>1. Len(rest) \in Nat /\ rest \in [1..Len(rest) -> T] /\ DOMAIN rest = 1..Len(rest)
    BY <1>4, LenProperties
  <2>2. [i \in DOMAIN rest |-> IF i \in at THEN entry ELSE rest[i]] \in [1..Len(rest) -> T]
    BY <1>4, <2>1
  <2>. QED BY <2>1, <2>2, SeqDef
<1>. QED BY <1>3, <1>5, <1>6 DEF entry

(* Steps that leave the clocks alone touch the cache only by entries that   *)
(* fade.                                                                    *)
LEMMA CacheKept ==
  ASSUME CacheFades, UNCHANGED since, NEW S, cache' \in Seq(S), \A e \in S : Fades(e)
  PROVE  CacheFades'
<1>1. IsSeq(cache)' /\ \A i \in DOMAIN cache' : cache'[i] \in S
  BY Sequences DEF IsSeq
<1>2. \A e \in S : Fades(e)'
  BY DEF Fades
<1>. QED BY <1>1, <1>2 DEF CacheFades

LEMMA CacheGot ==
  ASSUME CacheFades, UNCHANGED since, NEW cred, cache' = AfterGet(cred)
  PROVE  CacheFades'
<1>. DEFINE S == {cache[i] : i \in DOMAIN cache}
<1>1. cache \in Seq(S) /\ \A e \in S : Fades(e)
  BY DEF CacheFades, IsSeq
<1>. HIDE DEF S
<1>2. AfterGet(cred) \in Seq(S)
  BY <1>1, GetKeepsEntries
<1>. QED BY <1>1, <1>2, CacheKept

LEMMA CacheSet ==
  ASSUME CacheFades, UNCHANGED since, NEW cred, NEW principal, NEW held,
         held = cache \/ held = AfterGet(cred), cache' = AfterSet(held, cred, principal),
         cred \in Keys \cup Tokens => since[cred] \in Int /\ since[cred] <= MaxLookup
  PROVE  CacheFades'
<1>. DEFINE S == {cache[i] : i \in DOMAIN cache}
            entry == [cred |-> cred, principal |-> principal, left |-> TTL]
<1>1. cache \in Seq(S) /\ \A e \in S : Fades(e)
  BY DEF CacheFades, IsSeq
<1>2. Fades(entry)
  BY GatewayAssumption DEF Fades
<1>. HIDE DEF S
<1>3. held \in Seq(S)
  BY <1>1, GetKeepsEntries
<1>4. cache' \in Seq(S \cup {entry})
  BY <1>3, SetAddsAnEntry
<1>5. \A e \in S \cup {entry} : Fades(e)
  BY <1>1, <1>2
<1>. QED BY <1>4, <1>5, CacheKept

(* A step that leaves the clocks alone and moves the request of one caller. *)
LEMMA OneTimely ==
  ASSUME RequestsAreTimely, UNCHANGED since, NEW c \in Callers, DOMAIN req' = Callers,
         \A d \in Callers : d # c => req'[d] = req[d], Timely(req'[c]), Sought(req'[c])
  PROVE  RequestsAreTimely'
<1>1. ASSUME NEW d \in Callers PROVE Timely(req'[d]) /\ Sought(req'[d])
  BY DEF RequestsAreTimely
<1>. QED BY <1>1 DEF RequestsAreTimely, Timely, Sought

LEMMA AccountsSame ==
  ASSUME UsersKept, SinceTyped, RevokedKeysAreGone, UNCHANGED <<users, since>>
  PROVE  UsersKept' /\ SinceTyped' /\ RevokedKeysAreGone'
BY DEF UsersKept, SinceTyped, RevokedKeysAreGone

LEMMA CacheSame == ASSUME CacheFades, UNCHANGED <<cache, since>> PROVE CacheFades'
BY DEF CacheFades, Fades, IsSeq

LEMMA AnswerTimely ==
  ASSUME RequestsAreTimely, UNCHANGED since, NEW c \in Callers,
         \E code, shown, status : Answer(c, code, shown, status)
  PROVE  RequestsAreTimely'
<1>1. DOMAIN req = Callers /\ Timely(req[c])
  BY DEF RequestsAreTimely
<1>2. /\ DOMAIN req' = Callers /\ \A d \in Callers : d # c => req'[d] = req[d]
      /\ DOMAIN req'[c] = DOMAIN NoRequest
      /\ req'[c].pc = "answered" /\ req'[c].waited = 0 /\ req'[c].age = req[c].age
  BY <1>1 DEF Answer, Timely, NoRequest
<1>3. Timely(req'[c]) /\ Sought(req'[c])
  BY <1>1, <1>2, GatewayAssumption DEF Timely, Sought
<1>. QED BY <1>2, <1>3, OneTimely

LEMMA RefuseTimely ==
  ASSUME RequestsAreTimely, UNCHANGED since, NEW c \in Callers, NEW code, Refuse(c, code)
  PROVE  RequestsAreTimely'
BY AnswerTimely DEF Refuse

LEMMA PassTimely ==
  ASSUME RequestsAreTimely, UNCHANGED since, NEW c \in Callers, NEW principal, Pass(c, principal),
         principal = NoPrincipal \/ (AgeOf(req[c].cred) \in Int /\ AgeOf(req[c].cred) <= TTL + MaxLookup)
  PROVE  RequestsAreTimely'
<1>1. DOMAIN req = Callers /\ Timely(req[c])
  BY DEF RequestsAreTimely
<1>2. /\ DOMAIN req' = Callers /\ \A d \in Callers : d # c => req'[d] = req[d]
      /\ DOMAIN req'[c] = DOMAIN NoRequest
      /\ req'[c].pc = "paywall" /\ req'[c].waited = req[c].waited
      /\ req'[c].age = IF principal = NoPrincipal THEN -1 ELSE AgeOf(req[c].cred)
  BY <1>1 DEF Pass, Timely, NoRequest
<1>3. Timely(req'[c]) /\ Sought(req'[c])
  BY <1>1, <1>2, GatewayAssumption DEF Timely, Sought
<1>. QED BY <1>2, <1>3, OneTimely

(* A request that moves to a place where nothing is looked up.              *)
LEMMA MoveTimely ==
  ASSUME RequestsAreTimely, UNCHANGED since, NEW c \in Callers, NEW pc \in {"handler", "insert"}, NEW paid,
         req' = [req EXCEPT ![c].pc = pc] \/ req' = [req EXCEPT ![c].pc = pc, ![c].paid = paid]
  PROVE  RequestsAreTimely'
<1>1. DOMAIN req = Callers /\ Timely(req[c])
  BY DEF RequestsAreTimely
<1>2. /\ DOMAIN req' = Callers /\ \A d \in Callers : d # c => req'[d] = req[d]
      /\ DOMAIN req'[c] = DOMAIN NoRequest
      /\ req'[c].pc = pc /\ req'[c].waited = req[c].waited /\ req'[c].age = req[c].age
  BY <1>1 DEF Timely, NoRequest
<1>3. Timely(req'[c]) /\ Sought(req'[c])
  BY <1>1, <1>2 DEF Timely, Sought
<1>. QED BY <1>2, <1>3, OneTimely

(* The handlers and the paywall touch neither accounts nor cache.           *)
LEMMA HandlersKeepRevocation ==
  ASSUME Revocation, NEW c \in Callers,
         \/ Keyless(c) \/ PayOrPass(c) \/ Looks(c) \/ Health(c) \/ Fail(c)
         \/ Create(c) \/ Deploy(c) \/ Evaluate(c) \/ FindAgent(c) \/ RegisterAgent(c)
  PROVE  Revocation'
<1>. USE DEF Revocation
<1>1. UNCHANGED <<users, cache, since>>
  BY DEF Keyless, PayOrPass, Looks, Health, Fail, Create, Deploy, Evaluate, FindAgent, RegisterAgent
<1>2. CASE Keyless(c)
  BY <1>1, <1>2, PassTimely, RefuseTimely, AccountsSame, CacheSame DEF Keyless
<1>3. CASE PayOrPass(c)
  <2>1. \/ \E code : Refuse(c, code)
        \/ req' = [req EXCEPT ![c].pc = "handler"] \/ req' = [req EXCEPT ![c].pc = "handler", ![c].paid = TRUE]
    BY <1>3 DEF PayOrPass
  <2>. QED BY <1>1, <2>1, MoveTimely, RefuseTimely, AccountsSame, CacheSame
<1>4. CASE Looks(c)
  <2>1. \E code, shown, status : Answer(c, code, shown, status)
    BY <1>4 DEF Looks, GetJob, GetIntelligence, GetExplanation, GetAutomation, GetPositions, Manage, GetAgent,
                ListJobs, ListAutomations, ListAgents, Stats, Datanets, Show, Refuse
  <2>. QED BY <1>1, <2>1, AnswerTimely, AccountsSame, CacheSame
<1>5. CASE Health(c) \/ Fail(c) \/ Create(c) \/ Deploy(c) \/ Evaluate(c) \/ RegisterAgent(c)
  <2>1. \E code, shown, status : Answer(c, code, shown, status)
    BY <1>5, EvaluateAnswers DEF Health, Fail, Create, Deploy, RegisterAgent, Refuse
  <2>. QED BY <1>1, <2>1, AnswerTimely, AccountsSame, CacheSame
<1>6. CASE FindAgent(c)
  <2>1. Refuse(c, 409) \/ req' = [req EXCEPT ![c].pc = "insert"]
    BY <1>6 DEF FindAgent
  <2>. QED BY <1>1, <2>1, MoveTimely, RefuseTimely, AccountsSame, CacheSame
<1>. QED BY <1>2, <1>3, <1>4, <1>5, <1>6

(***************************************************************************)
(* The hook and the sign-in.                                                *)
(***************************************************************************)
LEMMA Ages ==
  ASSUME SinceTyped, NEW cred
  PROVE  /\ AgeOf(cred) \in Int /\ AgeOf(cred) >= -1
         /\ cred \in Keys \cup Tokens => AgeOf(cred) = since[cred]
         /\ cred \notin Keys \cup Tokens => AgeOf(cred) = -1
BY DEF SinceTyped, AgeOf

(* What a unique column finds is a live account that holds the value.       *)
LEMMA KeyFound ==
  ASSUME NEW k, ByKey(k) # Nobody
  PROVE  \E a \in Accounts : users[a].live /\ users[a].key = k
BY DEF ByKey, Holding

LEMMA KeyFree ==
  ASSUME NEW k, ByKey(k) = Nobody
  PROVE  \A a \in Accounts : users[a].live => users[a].key # k
BY SignInAssumption DEF ByKey, Holding

(* A lookup that goes on, or ends in the row it found.                      *)
LEMMA SeekTimely ==
  ASSUME RequestsAreTimely, UNCHANGED since, NEW c \in Callers, DOMAIN req' = Callers,
         \A d \in Callers : d # c => req'[d] = req[d], DOMAIN req'[c] = DOMAIN NoRequest,
         req'[c].waited = req[c].waited, req'[c].age = req[c].age, Sought(req'[c])
  PROVE  RequestsAreTimely'
<1>1. Timely(req'[c])
  BY DEF RequestsAreTimely, Timely
<1>. QED BY <1>1, OneTimely

LEMMA CachedKeepsRevocation ==
  ASSUME Revocation, NEW c \in Callers, PassCached(c)
  PROVE  Revocation'
<1>. USE DEF Revocation
<1>1. UNCHANGED <<users, cache, since>>
  BY DEF PassCached
<1>2. PICK i \in Hit(req[c].cred) : Pass(c, cache[i].principal)
  BY DEF PassCached
<1>3. i \in DOMAIN cache /\ cache[i].cred = req[c].cred /\ cache[i].left > 0 /\ Fades(cache[i])
  BY <1>2 DEF Hit, Cached, CacheFades
<1>4. AgeOf(req[c].cred) \in Int /\ AgeOf(req[c].cred) <= TTL + MaxLookup
  BY <1>3, Ages, GatewayAssumption DEF Fades
<1>. QED BY <1>1, <1>2, <1>4, PassTimely, AccountsSame, CacheSame

LEMMA LookupKeepsRevocation ==
  ASSUME Revocation, NEW c \in Callers, Lookup(c)
  PROVE  Revocation'
<1>. USE DEF Revocation
<1>. DEFINE cred == req[c].cred
<1>1. UNCHANGED <<users, since>>
  BY DEF Lookup
<1>2. DOMAIN req = Callers /\ Timely(req[c])
  BY DEF RequestsAreTimely
<1>3. CASE cred = Root /\ cache' = AfterSet(AfterGet(cred), cred, RootPrincipal) /\ Pass(c, RootPrincipal)
  <2>1. cred \notin Keys \cup Tokens
    BY <1>3, GatewayAssumption
  <2>2. CacheFades'
    BY <1>1, <1>3, <2>1, CacheSet
  <2>3. AgeOf(cred) \in Int /\ AgeOf(cred) <= TTL + MaxLookup
    BY <2>1, Ages, GatewayAssumption
  <2>. QED BY <1>1, <1>3, <2>2, <2>3, PassTimely, AccountsSame
<1>4. CASE cache' = AfterGet(cred) /\ Unknown(c)
  BY <1>1, <1>4, CacheGot, PassTimely, RefuseTimely, AccountsSame DEF Unknown
<1>5. CASE /\ cred \in Keys /\ cache' = AfterGet(cred)
           /\ req' = [req EXCEPT ![c].pc = "found", ![c].row = ByKey(cred)]
  <2>1. /\ DOMAIN req' = Callers /\ \A d \in Callers : d # c => req'[d] = req[d]
        /\ DOMAIN req'[c] = DOMAIN NoRequest /\ req'[c].pc = "found" /\ req'[c].row = ByKey(cred)
        /\ req'[c].cred = cred /\ req'[c].waited = req[c].waited /\ req'[c].age = req[c].age
    BY <1>2, <1>5 DEF Timely, NoRequest
  <2>2. since[cred] >= 0 => ByKey(cred) = Nobody
    BY <1>5, KeyFound DEF RevokedKeysAreGone
  <2>3. since[cred] <= req[c].waited \/ ByKey(cred) = Nobody
    BY <1>2, <1>5, <2>2, GatewayAssumption DEF SinceTyped, Timely
  <2>4. Sought(req'[c])
    BY <1>5, <2>1, <2>3 DEF Sought
  <2>. QED BY <1>1, <1>5, <2>1, <2>4, SeekTimely, CacheGot, AccountsSame
<1>6. CASE /\ cred \in Tokens /\ since[cred] = -1 /\ cache' = AfterGet(cred)
           /\ req' = [req EXCEPT ![c].pc = "did", ![c].known = ByDid(DidOf[cred])]
  <2>1. /\ DOMAIN req' = Callers /\ \A d \in Callers : d # c => req'[d] = req[d]
        /\ DOMAIN req'[c] = DOMAIN NoRequest /\ req'[c].pc = "did"
        /\ req'[c].cred = cred /\ req'[c].waited = req[c].waited /\ req'[c].age = req[c].age
    BY <1>2, <1>6 DEF Timely, NoRequest
  <2>2. Sought(req'[c])
    BY <1>2, <1>6, <2>1, GatewayAssumption DEF Sought, Timely
  <2>. QED BY <1>1, <1>6, <2>1, <2>2, SeekTimely, CacheGot, AccountsSame
<1>. QED BY <1>3, <1>4, <1>5, <1>6 DEF Lookup

LEMMA ReadKeepsRevocation ==
  ASSUME Revocation, NEW c \in Callers, ReadAccount(c)
  PROVE  Revocation'
<1>. USE DEF Revocation
<1>1. UNCHANGED <<users, cache, since>>
  BY DEF ReadAccount
<1>2. DOMAIN req = Callers /\ Timely(req[c]) /\ Sought(req[c])
  BY DEF RequestsAreTimely
<1>3. req[c].pc \in {"did", "holder", "wallet"}
  BY DEF ReadAccount
<1>. DEFINE r == Reading(req[c].pc, req[c].cred, req[c].row)
<1>4. r.pc \in {"found", "holder", "wallet", "move", "claim", "create"}
  BY <1>3, ReadingEnds
<1>5. req' = [req EXCEPT ![c].pc = r.pc, ![c].row = r.row]
  BY DEF ReadAccount
<1>. HIDE DEF r
<1>6. /\ DOMAIN req' = Callers /\ \A d \in Callers : d # c => req'[d] = req[d]
      /\ DOMAIN req'[c] = DOMAIN NoRequest /\ req'[c].pc = r.pc
      /\ req'[c].cred = req[c].cred /\ req'[c].waited = req[c].waited /\ req'[c].age = req[c].age
  BY <1>2, <1>5 DEF Timely, NoRequest
<1>7. req[c].cred \in Tokens /\ since[req[c].cred] <= req[c].waited
  BY <1>2, <1>3 DEF Sought
<1>8. Sought(req'[c])
  BY <1>4, <1>6, <1>7 DEF Sought
<1>. QED BY <1>1, <1>6, <1>8, SeekTimely, AccountsSame, CacheSame

(* A sign-in moves a wallet, claims an account or creates one without key.  *)
LEMMA WriteKeepsAccounts ==
  ASSUME UsersKept, RevokedKeysAreGone, UNCHANGED since, NEW pc \in {"move", "claim", "create"}, NEW t, NEW row,
         NEW b \in Target(pc, row), users' = [users EXCEPT ![b] = Written(pc, t, b)]
  PROVE  UsersKept' /\ RevokedKeysAreGone'
<1>1. CASE b \notin Accounts
  BY <1>1 DEF UsersKept, RevokedKeysAreGone
<1>2. CASE b \in Accounts
  <2>1. /\ DOMAIN Written(pc, t, b) = DOMAIN NoUser
        /\ \/ Written(pc, t, b).key = users[b].key /\ Written(pc, t, b).live = users[b].live
           \/ Written(pc, t, b).key = Nobody
    BY <1>2 DEF UsersKept, Written, NoUser
  <2>2. /\ DOMAIN users' = Accounts /\ users'[b] = Written(pc, t, b)
        /\ \A a \in Accounts : a # b => users'[a] = users[a]
    BY <1>2 DEF UsersKept
  <2>3. UsersKept'
    BY <2>1, <2>2 DEF UsersKept
  <2>4. RevokedKeysAreGone'
    BY <2>1, <2>2, SignInAssumption DEF RevokedKeysAreGone
  <2>. QED BY <2>3, <2>4
<1>. QED BY <1>1, <1>2

LEMMA WriteKeepsRevocation ==
  ASSUME Revocation, NEW c \in Callers, WriteAccount(c)
  PROVE  Revocation'
<1>. USE DEF Revocation
<1>1. UNCHANGED <<cache, since>> /\ req[c].pc \in {"move", "claim", "create"}
  BY DEF WriteAccount
<1>2. DOMAIN req = Callers /\ Timely(req[c]) /\ Sought(req[c])
  BY DEF RequestsAreTimely
<1>3. CASE Refuse(c, 500) /\ UNCHANGED users
  BY <1>1, <1>3, RefuseTimely, AccountsSame, CacheSame
<1>4. ASSUME NEW b \in Target(req[c].pc, req[c].row),
             users' = [users EXCEPT ![b] = Written(req[c].pc, req[c].cred, b)],
             req' = [req EXCEPT ![c].pc = "found", ![c].row = b]
      PROVE  Revocation'
  <2>1. UsersKept' /\ RevokedKeysAreGone'
    BY <1>1, <1>4, WriteKeepsAccounts
  <2>2. /\ DOMAIN req' = Callers /\ \A d \in Callers : d # c => req'[d] = req[d]
        /\ DOMAIN req'[c] = DOMAIN NoRequest /\ req'[c].pc = "found"
        /\ req'[c].cred = req[c].cred /\ req'[c].waited = req[c].waited /\ req'[c].age = req[c].age
    BY <1>2, <1>4 DEF Timely, NoRequest
  <2>3. Sought(req'[c])
    BY <1>1, <1>2, <2>2 DEF Sought
  <2>4. SinceTyped'
    BY <1>1 DEF SinceTyped
  <2>. QED BY <1>1, <2>1, <2>2, <2>3, <2>4, SeekTimely, CacheSame
<1>. QED BY <1>3, <1>4 DEF WriteAccount

LEMMA AdmitKeepsRevocation ==
  ASSUME Revocation, NEW c \in Callers, Admit(c)
  PROVE  Revocation'
<1>. USE DEF Revocation
<1>. DEFINE p == UserPrincipal(req[c].row, req[c].cred \in Tokens)
<1>1. UNCHANGED <<users, since>>
  BY DEF Admit
<1>2. Timely(req[c]) /\ Sought(req[c]) /\ req[c].pc = "found"
  BY DEF RequestsAreTimely, Admit
<1>3. CASE Unknown(c) /\ UNCHANGED cache
  BY <1>1, <1>3, PassTimely, RefuseTimely, AccountsSame, CacheSame DEF Unknown
<1>4. CASE req[c].row # Nobody /\ cache' = AfterSet(cache, req[c].cred, p) /\ Pass(c, p)
  <2>1. req[c].cred \in Keys \cup Tokens /\ since[req[c].cred] \in Int /\ since[req[c].cred] <= MaxLookup
    BY <1>2, <1>4, GatewayAssumption DEF Sought, Timely, SinceTyped
  <2>2. CacheFades'
    BY <1>1, <1>4, <2>1, CacheSet
  <2>3. AgeOf(req[c].cred) \in Int /\ AgeOf(req[c].cred) <= TTL + MaxLookup
    BY <2>1, Ages, GatewayAssumption
  <2>. QED BY <1>1, <1>4, <2>2, <2>3, PassTimely, AccountsSame
<1>. QED BY <1>3, <1>4 DEF Admit

(***************************************************************************)
(* Time, rotation and expiry.                                               *)
(***************************************************************************)
LEMMA TickKeepsRevocation == ASSUME Revocation, Tick PROVE Revocation'
<1>. USE DEF Revocation
<1>1. /\ DOMAIN since' = Keys \cup Tokens /\ UNCHANGED users
      /\ \A k \in Keys \cup Tokens : since'[k] = IF since[k] \in {-1, Forgotten} THEN since[k] ELSE since[k] + 1
  BY DEF Tick, SinceTyped
<1>2. SinceTyped' /\ UsersKept'
  BY <1>1 DEF SinceTyped, UsersKept
<1>3. RevokedKeysAreGone'
  BY <1>1 DEF RevokedKeysAreGone, SinceTyped
<1>4. CacheFades'
  <2>1. Len(cache) \in Nat /\ DOMAIN cache = 1..Len(cache)
    BY LenProperties DEF CacheFades, IsSeq
  <2>2. /\ DOMAIN cache' = DOMAIN cache
        /\ cache' = [i \in 1..Len(cache) |-> [cache[i] EXCEPT !.left = IF @ > 0 THEN @ - 1 ELSE 0]]
        /\ \A i \in DOMAIN cache : cache'[i] = [cache[i] EXCEPT !.left = IF @ > 0 THEN @ - 1 ELSE 0]
    BY <2>1 DEF Tick
  <2>3. cache' \in [1..Len(cache) -> {cache'[i] : i \in DOMAIN cache'}]
    BY <2>1, <2>2
  <2>4. IsSeq(cache)'
    BY <2>1, <2>3, SeqDef DEF IsSeq
  <2>5. ASSUME NEW i \in DOMAIN cache PROVE Fades(cache[i])'
    <3>1. Fades(cache[i])
      BY DEF CacheFades
    <3>2. /\ DOMAIN cache'[i] = {"cred", "principal", "left"} /\ cache'[i].cred = cache[i].cred
          /\ cache'[i].left = IF cache[i].left > 0 THEN cache[i].left - 1 ELSE 0
      BY <2>2, <2>5, <3>1 DEF Fades
    <3>. QED BY <1>1, <3>1, <3>2, GatewayAssumption DEF Fades, SinceTyped
  <2>. QED BY <2>2, <2>4, <2>5 DEF CacheFades
<1>5. RequestsAreTimely'
  <2>1. DOMAIN req' = Callers
    BY DEF Tick
  <2>2. ASSUME NEW c \in Callers PROVE Timely(req[c])' /\ Sought(req[c])'
    <3>1. Timely(req[c]) /\ Sought(req[c])
      BY DEF RequestsAreTimely
    <3>2. CASE LookingUp(c)
      <4>1. req'[c] = [req[c] EXCEPT !.waited = @ + 1] /\ req[c].waited < MaxLookup
        BY <3>2 DEF Tick
      <4>2. /\ DOMAIN req'[c] = DOMAIN NoRequest /\ req'[c].waited = req[c].waited + 1
            /\ req'[c].pc = req[c].pc /\ req'[c].cred = req[c].cred /\ req'[c].row = req[c].row
            /\ req'[c].age = req[c].age
        BY <3>1, <4>1 DEF Timely, NoRequest
      <4>3. req'[c].waited \in 0..MaxLookup
        BY <3>1, <4>1, <4>2, GatewayAssumption DEF Timely
      <4>4. Timely(req[c])'
        BY <3>1, <4>2, <4>3 DEF Timely
      <4>5. Sought(req[c])'
        <5>1. since'[req[c].cred] <= since[req[c].cred] + 1
          BY <1>1, <3>1, <3>2 DEF Sought, LookingUp, SinceTyped
        <5>2. since'[req[c].cred] \in Int /\ since[req[c].cred] \in Int
          BY <1>2, <3>1, <3>2 DEF Sought, LookingUp, SinceTyped
        <5>. QED BY <3>1, <3>2, <4>2, <5>1, <5>2 DEF Sought, LookingUp, Timely
      <4>. QED BY <4>4, <4>5
    <3>3. CASE ~LookingUp(c)
      <4>1. req'[c] = req[c]
        BY <3>3 DEF Tick
      <4>. QED BY <3>1, <3>3, <4>1 DEF Timely, Sought, LookingUp
    <3>. QED BY <3>2, <3>3
  <2>. QED BY <2>1, <2>2 DEF RequestsAreTimely
<1>. QED BY <1>2, <1>3, <1>4, <1>5

(* One credential stops being valid, at this instant.                       *)
LEMMA RevokingFades ==
  ASSUME SinceTyped, CacheFades, RequestsAreTimely, NEW k, since' = [since EXCEPT ![k] = 0], UNCHANGED <<cache, req>>
  PROVE  SinceTyped' /\ CacheFades' /\ RequestsAreTimely'
<1>1. SinceTyped'
  BY DEF SinceTyped
<1>2. \A j \in Keys \cup Tokens : since'[j] = since[j] \/ since'[j] = 0
  BY DEF SinceTyped
<1>3. \A e : Fades(e) => Fades(e)'
  BY <1>2, GatewayAssumption DEF Fades
<1>4. CacheFades'
  BY <1>3 DEF CacheFades, IsSeq
<1>5. ASSUME NEW c \in Callers PROVE Timely(req[c])' /\ Sought(req[c])'
  <2>1. Timely(req[c]) /\ Sought(req[c])
    BY DEF RequestsAreTimely
  <2>2. 0 <= req[c].waited
    BY <2>1, GatewayAssumption DEF Timely
  <2>. QED BY <1>2, <2>1, <2>2 DEF Timely, Sought
<1>6. RequestsAreTimely'
  BY <1>5 DEF RequestsAreTimely
<1>. QED BY <1>1, <1>4, <1>6

LEMMA RotateKeepsRevocation ==
  ASSUME Revocation, NEW a \in Accounts, NEW k \in Keys, Rotate(a, k)
  PROVE  Revocation'
<1>. USE DEF Revocation
<1>1. /\ users[a].live /\ users' = [users EXCEPT ![a].key = k] /\ UNCHANGED <<cache, req>>
      /\ since' = [since EXCEPT ![users[a].key] = 0] /\ \A j \in DOMAIN since : since[j] = -1
  BY DEF Rotate, Minted, Revocable
<1>2. \A b \in Accounts : users[b].live => users[b].key # k
  BY KeyFree DEF Rotate
<1>3. /\ DOMAIN users' = Accounts /\ DOMAIN users'[a] = DOMAIN NoUser
      /\ users'[a].key = k /\ users'[a].live = users[a].live
      /\ \A b \in Accounts : b # a => users'[b] = users[b]
  BY <1>1 DEF UsersKept, NoUser
<1>4. UsersKept'
  BY <1>1, <1>2, <1>3 DEF UsersKept
<1>5. RevokedKeysAreGone'
  <2>. SUFFICES ASSUME NEW j \in Keys, since'[j] >= 0, NEW b \in Accounts, users'[b].live, users'[b].key = j
                PROVE  FALSE
    BY DEF RevokedKeysAreGone
  <2>1. j = users[a].key /\ j # Nobody
    BY <1>1, SignInAssumption DEF SinceTyped
  <2>2. CASE b = a
    BY <1>1, <1>2, <1>3, <2>1, <2>2
  <2>3. CASE b # a
    BY <1>1, <1>3, <2>1, <2>3 DEF UsersKept
  <2>. QED BY <2>2, <2>3
<1>. QED BY <1>1, <1>4, <1>5, RevokingFades

LEMMA ExpireKeepsRevocation ==
  ASSUME Revocation, NEW t \in Tokens, Expire(t)
  PROVE  Revocation'
<1>. USE DEF Revocation
<1>1. since' = [since EXCEPT ![t] = 0] /\ UNCHANGED <<users, cache, req>>
  BY DEF Expire
<1>2. UsersKept'
  BY <1>1 DEF UsersKept
<1>3. RevokedKeysAreGone'
  BY <1>1, SignInAssumption DEF RevokedKeysAreGone, SinceTyped
<1>. QED BY <1>1, <1>2, <1>3, RevokingFades

LEMMA ResentKeepsRevocation ==
  ASSUME Revocation, NEW c \in Callers, Resent(c), UNCHANGED <<users, cache, since>>
  PROVE  Revocation'
<1>. USE DEF Revocation
<1>1. CASE UNCHANGED req
  BY <1>1, AccountsSame, CacheSame DEF RequestsAreTimely, Timely, Sought
<1>2. ASSUME NEW q, Fresh(q), req' = [req EXCEPT ![c] = q] PROVE Revocation'
  <2>1. DOMAIN req = Callers
    BY DEF RequestsAreTimely
  <2>2. Timely(q) /\ Sought(q)
    BY <1>2, GatewayAssumption DEF Fresh, Timely, Sought
  <2>3. /\ DOMAIN req' = Callers /\ req'[c] = q
        /\ \A d \in Callers : d # c => req'[d] = req[d]
    BY <1>2, <2>1
  <2>. QED BY <2>2, <2>3, OneTimely, AccountsSame, CacheSame
<1>. QED BY <1>1, <1>2 DEF Resent

LEMMA RevocationInit == WebInit => Revocation
<1>. SUFFICES ASSUME WebInit PROVE Revocation
  OBVIOUS
<1>1. UsersKept
  BY DEF WebInit, UsersKept
<1>2. SinceTyped /\ RevokedKeysAreGone
  BY DEF WebInit, GatewayInit, SinceTyped, RevokedKeysAreGone
<1>3. CacheFades
  <2>1. cache = <<>> /\ cache \in Seq({}) /\ DOMAIN cache = {}
    BY EmptySeq DEF WebInit, GatewayInit
  <2>2. IsSeq(cache)
    BY <2>1, Sequences
  <2>. QED BY <2>1, <2>2 DEF CacheFades
<1>4. DOMAIN NoRequest = DOMAIN NoRequest /\ NoRequest.pc = "none" /\ NoRequest.waited = 0 /\ NoRequest.age = -1
  BY DEF NoRequest
<1>5. Timely(NoRequest) /\ Sought(NoRequest)
  BY <1>4, GatewayAssumption DEF Timely, Sought
<1>6. RequestsAreTimely
  BY <1>5 DEF WebInit, GatewayInit, RequestsAreTimely
<1>. QED BY <1>1, <1>2, <1>3, <1>6 DEF Revocation

LEMMA RevocationStep == Revocation /\ [WebNext]_webVars => Revocation'
<1>. SUFFICES ASSUME Revocation, [WebNext]_webVars PROVE Revocation'
  OBVIOUS
<1>1. ASSUME NEW c \in Callers, ClientStep(c) \/ WebStep(c) PROVE Revocation'
  <2>1. UNCHANGED <<users, cache, since>>
    BY <1>1 DEF ClientStep, WebStep
  <2>. QED BY <1>1, <2>1, ClientsResend, WebResends, ResentKeepsRevocation
<1>2. ASSUME NEW c \in Callers, Serve(c) PROVE Revocation'
  BY <1>2, HandlersKeepRevocation, CachedKeepsRevocation, LookupKeepsRevocation, ReadKeepsRevocation,
     WriteKeepsRevocation, AdmitKeepsRevocation DEF Serve
<1>3. CASE Surroundings
  <2>1. ASSUME NEW r \in Rows, Advance(r) PROVE Revocation'
    <3>1. UNCHANGED <<users, cache, since, req>>
      BY <2>1 DEF Advance
    <3>. QED BY <3>1, AccountsSame, CacheSame DEF Revocation, RequestsAreTimely, Timely, Sought
  <2>. QED BY <1>3, <2>1, TickKeepsRevocation, RotateKeepsRevocation, ExpireKeepsRevocation DEF Surroundings
<1>4. CASE UNCHANGED webVars
  BY <1>4, AccountsSame, CacheSame DEF webVars, Revocation, RequestsAreTimely, Timely, Sought
<1>. QED BY <1>1, <1>2, <1>3, <1>4 DEF WebNext, ApiNext

(* An identity that a request carries was valid no longer ago than one      *)
(* lifetime of a cache entry and one lookup, for any number of callers,     *)
(* keys, tokens and entries, hits, evictions and concurrent lookups         *)
(* (PrincipalCache and registerAuth, auth.ts:177).                          *)
THEOREM RevocationTakesEffect == WebSpec => []RevocationBounded
<1>1. Revocation => RevocationBounded
  BY DEF Revocation, RequestsAreTimely, Timely, RevocationBounded
<1>. QED BY <1>1, RevocationInit, RevocationStep, PTL DEF WebSpec

(***************************************************************************)
(* Identity.  The account that a person had when a sign-in began stays that *)
(* person's while the sign-in goes from statement to statement.             *)
(***************************************************************************)

(* An account that was read as nobody's and is about to be claimed has not  *)
(* become another person's meanwhile.  The code does not exclude it: the    *)
(* claim is an update by id (auth.ts:84), and two persons who prove the     *)
(* same unclaimed wallet at once can both make it.                          *)
NoRivalClaim ==
  \A c \in Callers : req[c].pc = "claim" => users[req[c].row].did \in {Nobody, DidOf[req[c].cred]}

DidsDiffer ==
  \A a, b \in Accounts : users[a].live /\ users[b].live /\ users[a].did = users[b].did
                         => a = b \/ users[a].did = Nobody

Passed == {"paywall", "handler", "insert", "answered"}

Faithful(q) ==
  /\ q.pc \notin Passed => q.principal = NoPrincipal
  /\ q.pc \in {"none", "arrived"} => q.known = Nobody
  /\ q.known # Nobody =>
       /\ q.known \in Accounts /\ users[q.known].live
       /\ q.cred \in Tokens /\ users[q.known].did = DidOf[q.cred]
       /\ q.pc \in {"did", "holder", "move", "found"} \cup Passed
       /\ q.pc \in {"holder", "move", "found"} => q.row = q.known
       /\ q.principal.account \in {q.known, Nobody}

Identity == DidsDiffer /\ \A c \in Callers : Faithful(req[c])

LEMMA DidFound ==
  ASSUME DidsDiffer, NEW a \in Accounts, users[a].live, users[a].did # Nobody
  PROVE  ByDid(users[a].did) = a
BY DEF DidsDiffer, ByDid, Holding

LEMMA DidHeld ==
  ASSUME NEW d, ByDid(d) # Nobody
  PROVE  ByDid(d) \in Accounts /\ users[ByDid(d)].live /\ users[ByDid(d)].did = d
BY DEF ByDid, Holding

LEMMA OneFaithful ==
  ASSUME Identity, UNCHANGED users, NEW c \in Callers,
         \A d \in Callers : d # c => req'[d] = req[d], Faithful(req'[c])
  PROVE  Identity'
<1>1. ASSUME NEW d \in Callers PROVE Faithful(req'[d])
  BY DEF Identity
<1>. QED BY <1>1 DEF Identity, Faithful, DidsDiffer

LEMMA SameIdentity == ASSUME Identity, UNCHANGED <<users, req>> PROVE Identity'
BY DEF Identity, Faithful, DidsDiffer

LEMMA AnswerFaithful ==
  ASSUME Revocation, Identity, UNCHANGED users, NEW c \in Callers,
         \E code, shown, status : Answer(c, code, shown, status)
  PROVE  Identity'
<1>1. DOMAIN req = Callers /\ DOMAIN req[c] = DOMAIN NoRequest /\ Faithful(req[c])
  BY DEF Revocation, RequestsAreTimely, Timely, Identity
<1>2. /\ \A d \in Callers : d # c => req'[d] = req[d]
      /\ req'[c].pc = "answered" /\ req'[c].known = req[c].known /\ req'[c].cred = req[c].cred
      /\ req'[c].principal = req[c].principal
  BY <1>1 DEF Answer, NoRequest
<1>3. req[c].known # Nobody => req[c].principal.account \in {req[c].known, Nobody}
  BY <1>1 DEF Faithful
<1>4. Faithful(req'[c])
  BY <1>1, <1>2, <1>3 DEF Faithful, Passed
<1>. QED BY <1>2, <1>4, OneFaithful

LEMMA RefuseFaithful ==
  ASSUME Revocation, Identity, UNCHANGED users, NEW c \in Callers, NEW code, Refuse(c, code)
  PROVE  Identity'
BY AnswerFaithful DEF Refuse

LEMMA PassFaithful ==
  ASSUME Revocation, Identity, UNCHANGED users, NEW c \in Callers, NEW principal, Pass(c, principal),
         req[c].known # Nobody => principal.account \in {req[c].known, Nobody}
  PROVE  Identity'
<1>1. DOMAIN req = Callers /\ DOMAIN req[c] = DOMAIN NoRequest /\ Faithful(req[c])
  BY DEF Revocation, RequestsAreTimely, Timely, Identity
<1>2. /\ \A d \in Callers : d # c => req'[d] = req[d]
      /\ req'[c].pc = "paywall" /\ req'[c].known = req[c].known /\ req'[c].cred = req[c].cred
      /\ req'[c].principal = principal
  BY <1>1 DEF Pass, NoRequest
<1>3. Faithful(req'[c])
  BY <1>1, <1>2 DEF Faithful, Passed
<1>. QED BY <1>2, <1>3, OneFaithful

LEMMA UnknownFaithful ==
  ASSUME Revocation, Identity, UNCHANGED users, NEW c \in Callers, Unknown(c)
  PROVE  Identity'
<1>1. NoPrincipal.account = Nobody
  BY DEF NoPrincipal
<1>. QED BY <1>1, PassFaithful, RefuseFaithful DEF Unknown

(* Past the hook a request keeps who it is.                                 *)
LEMMA MoveFaithful ==
  ASSUME Revocation, Identity, UNCHANGED users, NEW c \in Callers, req[c].pc \in Passed,
         NEW pc \in {"handler", "insert"}, NEW paid,
         req' = [req EXCEPT ![c].pc = pc] \/ req' = [req EXCEPT ![c].pc = pc, ![c].paid = paid]
  PROVE  Identity'
<1>1. DOMAIN req = Callers /\ DOMAIN req[c] = DOMAIN NoRequest /\ Faithful(req[c])
  BY DEF Revocation, RequestsAreTimely, Timely, Identity
<1>2. /\ \A d \in Callers : d # c => req'[d] = req[d]
      /\ req'[c].pc = pc /\ req'[c].known = req[c].known /\ req'[c].cred = req[c].cred
      /\ req'[c].principal = req[c].principal
  BY <1>1 DEF NoRequest
<1>3. Faithful(req'[c])
  BY <1>1, <1>2 DEF Faithful, Passed
<1>. QED BY <1>2, <1>3, OneFaithful

LEMMA HandlersKeepIdentity ==
  ASSUME Revocation, Identity, NEW c \in Callers,
         \/ Keyless(c) \/ PayOrPass(c) \/ Looks(c) \/ Health(c) \/ Fail(c)
         \/ Create(c) \/ Deploy(c) \/ Evaluate(c) \/ FindAgent(c) \/ RegisterAgent(c)
  PROVE  Identity'
<1>1. UNCHANGED users
  BY DEF Keyless, PayOrPass, Looks, Health, Fail, Create, Deploy, Evaluate, FindAgent, RegisterAgent
<1>2. CASE Keyless(c)
  <2>1. NoPrincipal.account = Nobody
    BY DEF NoPrincipal
  <2>. QED BY <1>1, <1>2, <2>1, PassFaithful, RefuseFaithful DEF Keyless
<1>3. CASE PayOrPass(c)
  <2>1. req[c].pc \in Passed
    BY <1>3 DEF PayOrPass, Passed
  <2>2. \/ \E code : Refuse(c, code)
        \/ req' = [req EXCEPT ![c].pc = "handler"] \/ req' = [req EXCEPT ![c].pc = "handler", ![c].paid = TRUE]
    BY <1>3 DEF PayOrPass
  <2>. QED BY <1>1, <2>1, <2>2, MoveFaithful, RefuseFaithful
<1>4. CASE Looks(c)
  <2>1. \E code, shown, status : Answer(c, code, shown, status)
    BY <1>4 DEF Looks, GetJob, GetIntelligence, GetExplanation, GetAutomation, GetPositions, Manage, GetAgent,
                ListJobs, ListAutomations, ListAgents, Stats, Datanets, Show, Refuse
  <2>. QED BY <1>1, <2>1, AnswerFaithful
<1>5. CASE Health(c) \/ Fail(c) \/ Create(c) \/ Deploy(c) \/ Evaluate(c) \/ RegisterAgent(c)
  <2>1. \E code, shown, status : Answer(c, code, shown, status)
    BY <1>5, EvaluateAnswers DEF Health, Fail, Create, Deploy, RegisterAgent, Refuse
  <2>. QED BY <1>1, <2>1, AnswerFaithful
<1>6. CASE FindAgent(c)
  <2>1. req[c].pc \in Passed /\ (Refuse(c, 409) \/ req' = [req EXCEPT ![c].pc = "insert"])
    BY <1>6 DEF FindAgent, At, Passed
  <2>. QED BY <1>1, <2>1, MoveFaithful, RefuseFaithful
<1>. QED BY <1>2, <1>3, <1>4, <1>5, <1>6

LEMMA CachedKeepsIdentity ==
  ASSUME Revocation, Identity, NEW c \in Callers, PassCached(c)
  PROVE  Identity'
<1>1. req[c].known = Nobody
  BY DEF PassCached, Identity, Faithful
<1>. QED BY <1>1, PassFaithful DEF PassCached

LEMMA LookupKeepsIdentity ==
  ASSUME Revocation, Identity, NEW c \in Callers, Lookup(c)
  PROVE  Identity'
<1>. DEFINE cred == req[c].cred
<1>1. UNCHANGED users /\ req[c].known = Nobody /\ req[c].principal = NoPrincipal
  BY DEF Lookup, Identity, Faithful, Passed
<1>2. DOMAIN req = Callers /\ DOMAIN req[c] = DOMAIN NoRequest
  BY DEF Revocation, RequestsAreTimely, Timely
<1>3. CASE Pass(c, RootPrincipal)
  BY <1>1, <1>3, PassFaithful
<1>4. CASE Unknown(c)
  BY <1>1, <1>4, UnknownFaithful
<1>5. CASE req' = [req EXCEPT ![c].pc = "found", ![c].row = ByKey(cred)]
  <2>1. /\ \A d \in Callers : d # c => req'[d] = req[d]
        /\ req'[c].pc = "found" /\ req'[c].known = Nobody /\ req'[c].principal = NoPrincipal
    BY <1>1, <1>2, <1>5 DEF NoRequest
  <2>2. Faithful(req'[c])
    BY <2>1 DEF Faithful
  <2>. QED BY <1>1, <2>1, <2>2, OneFaithful
<1>6. CASE cred \in Tokens /\ req' = [req EXCEPT ![c].pc = "did", ![c].known = ByDid(DidOf[cred])]
  <2>1. /\ \A d \in Callers : d # c => req'[d] = req[d]
        /\ req'[c].pc = "did" /\ req'[c].known = ByDid(DidOf[cred]) /\ req'[c].cred = cred
        /\ req'[c].principal = NoPrincipal
    BY <1>1, <1>2, <1>6 DEF NoRequest
  <2>2. req'[c].known # Nobody =>
          req'[c].known \in Accounts /\ users[req'[c].known].live /\ users[req'[c].known].did = DidOf[cred]
    BY <2>1, DidHeld
  <2>3. Faithful(req'[c])
    BY <1>6, <2>1, <2>2 DEF Faithful, NoPrincipal
  <2>. QED BY <1>1, <2>1, <2>3, OneFaithful
<1>. QED BY <1>3, <1>4, <1>5, <1>6 DEF Lookup

(* Found by its DID, an account stays the one that the sign-in is about.    *)
LEMMA ReadKeepsIdentity ==
  ASSUME Revocation, Identity, NEW c \in Callers, ReadAccount(c)
  PROVE  Identity'
<1>. DEFINE r == Reading(req[c].pc, req[c].cred, req[c].row)
            known == req[c].known
<1>1. DOMAIN req = Callers /\ DOMAIN req[c] = DOMAIN NoRequest /\ Faithful(req[c]) /\ DidsDiffer
  BY DEF Revocation, RequestsAreTimely, Timely, Identity
<1>2. UNCHANGED users /\ req[c].pc \in {"did", "holder", "wallet"}
  BY DEF ReadAccount
<1>3. r.pc \in {"found", "holder", "wallet", "move", "claim", "create"}
  BY <1>2, ReadingEnds
<1>4. req[c].principal = NoPrincipal
  BY <1>1, <1>2 DEF Faithful, Passed
<1>5. known # Nobody => r.pc \in {"found", "holder", "move"} /\ r.row = known
  <2>. SUFFICES ASSUME known # Nobody PROVE r.pc \in {"found", "holder", "move"} /\ r.row = known
    OBVIOUS
  <2>1. /\ known \in Accounts /\ users[known].live /\ users[known].did = DidOf[req[c].cred]
        /\ req[c].cred \in Tokens /\ req[c].pc # "wallet" /\ (req[c].pc = "holder" => req[c].row = known)
    BY <1>1, <1>2 DEF Faithful, Passed
  <2>2. CASE req[c].pc = "did"
    <3>1. ByDid(DidOf[req[c].cred]) = known
      BY <1>1, <2>1, DidFound, SignInAssumption
    <3>2. known # Nobody
      BY <2>1, SignInAssumption
    <3>. QED BY <2>2, <3>1, <3>2 DEF Reading, FindByDid, Resolved
  <2>3. CASE req[c].pc = "holder"
    BY <2>1, <2>3 DEF Reading, FindHolder, Resolved
  <2>. QED BY <1>2, <2>1, <2>2, <2>3
<1>6. req' = [req EXCEPT ![c].pc = r.pc, ![c].row = r.row]
  BY DEF ReadAccount
<1>. HIDE DEF r
<1>7. /\ \A d \in Callers : d # c => req'[d] = req[d]
      /\ req'[c].pc = r.pc /\ req'[c].row = r.row /\ req'[c].known = known /\ req'[c].cred = req[c].cred
      /\ req'[c].principal = NoPrincipal
  BY <1>1, <1>4, <1>6 DEF NoRequest
<1>8. Faithful(req'[c])
  BY <1>1, <1>3, <1>5, <1>7 DEF Faithful, Passed, NoPrincipal
<1>. QED BY <1>2, <1>7, <1>8, OneFaithful

(* A write gives a DID to an account that is new or nobody's, and only when *)
(* no other account has it.                                                 *)
LEMMA WriteKeepsPeople ==
  ASSUME UsersKept, DidsDiffer, NEW pc \in {"move", "claim", "create"}, NEW t \in Tokens, NEW row,
         NEW b \in Target(pc, row), Unique(pc, t, b), users' = [users EXCEPT ![b] = Written(pc, t, b)],
         pc = "claim" => users[row].did \in {Nobody, DidOf[t]}
  PROVE  /\ DidsDiffer'
         /\ \A a \in Accounts : users[a].live => users'[a].live
         /\ \A a \in Accounts : users[a].live /\ users[a].did # Nobody => users'[a].did = users[a].did
<1>1. CASE b \notin Accounts
  <2>1. \A a \in Accounts : users'[a] = users[a]
    BY <1>1 DEF UsersKept
  <2>. QED BY <2>1 DEF DidsDiffer
<1>2. CASE b \in Accounts
  <2>1. /\ users'[b] = Written(pc, t, b)
        /\ \A a \in Accounts : a # b => users'[a] = users[a]
    BY <1>2 DEF UsersKept
  <2>2. CASE pc = "move"
    <3>1. users'[b].live = users[b].live /\ users'[b].did = users[b].did
      BY <1>2, <2>1, <2>2 DEF UsersKept, Written, NoUser
    <3>. QED BY <2>1, <3>1 DEF DidsDiffer
  <2>3. CASE pc # "move"
    <3>1. /\ users'[b].did = DidOf[t] /\ (users[b].live => users'[b].live)
          /\ users[b].live => users[b].did \in {Nobody, DidOf[t]}
          /\ users'[b].live => users'[b].did # Nobody
      BY <1>2, <2>1, <2>3, SignInAssumption DEF UsersKept, Written, NoUser, Target
    <3>2. ASSUME NEW a \in Accounts, a # b, users[a].live PROVE users[a].did # DidOf[t]
      <4>1. ByDid(DidOf[t]) \in {Nobody, b}
        BY <2>3 DEF Unique
      <4>2. users[a].did = DidOf[t] => ByDid(DidOf[t]) = a
        BY <3>2, DidFound, SignInAssumption
      <4>. QED BY <3>2, <4>1, <4>2, SignInAssumption
    <3>3. DidsDiffer'
      BY <2>1, <3>1, <3>2 DEF DidsDiffer
    <3>. QED BY <2>1, <3>1, <3>3
  <2>. QED BY <2>2, <2>3
<1>. QED BY <1>1, <1>2

LEMMA PeopleKeep ==
  ASSUME NEW q, Faithful(q),
         \A a \in Accounts : users[a].live => users'[a].live,
         \A a \in Accounts : users[a].live /\ users[a].did # Nobody => users'[a].did = users[a].did
  PROVE  /\ q.known # Nobody =>
              users'[q.known].live /\ users'[q.known].did = DidOf[q.cred] /\ q.known \in Accounts
<1>1. q.known \in Accounts => q.known # Nobody
  BY SignInAssumption
<1>2. q.known # Nobody => /\ q.known \in Accounts /\ users[q.known].live /\ q.cred \in Tokens
                          /\ users[q.known].did = DidOf[q.cred] /\ DidOf[q.cred] # Nobody
  BY SignInAssumption DEF Faithful
<1>. QED BY <1>1, <1>2

LEMMA WriteKeepsIdentity ==
  ASSUME Revocation, Identity, NoRivalClaim, NEW c \in Callers, WriteAccount(c)
  PROVE  Identity'
<1>1. /\ DOMAIN req = Callers /\ DOMAIN req[c] = DOMAIN NoRequest /\ Faithful(req[c]) /\ DidsDiffer
      /\ UsersKept /\ Sought(req[c])
  BY DEF Revocation, RequestsAreTimely, Timely, Identity
<1>2. req[c].pc \in {"move", "claim", "create"}
  BY DEF WriteAccount
<1>3. CASE Refuse(c, 500) /\ UNCHANGED users
  BY <1>3, RefuseFaithful
<1>4. ASSUME NEW b \in Target(req[c].pc, req[c].row), Unique(req[c].pc, req[c].cred, b),
             users' = [users EXCEPT ![b] = Written(req[c].pc, req[c].cred, b)],
             req' = [req EXCEPT ![c].pc = "found", ![c].row = b]
      PROVE  Identity'
  <2>1. req[c].cred \in Tokens
    BY <1>1, <1>2 DEF Sought
  <2>2. req[c].pc = "claim" => users[req[c].row].did \in {Nobody, DidOf[req[c].cred]}
    BY DEF NoRivalClaim
  <2>3. /\ DidsDiffer'
        /\ \A a \in Accounts : users[a].live => users'[a].live
        /\ \A a \in Accounts : users[a].live /\ users[a].did # Nobody => users'[a].did = users[a].did
    BY <1>1, <1>2, <1>4, <2>1, <2>2, WriteKeepsPeople
  <2>4. ASSUME NEW d \in Callers PROVE Faithful(req[d])'
    <3>1. Faithful(req[d])
      BY DEF Identity
    <3>2. req[d].known # Nobody =>
            users'[req[d].known].live /\ users'[req[d].known].did = DidOf[req[d].cred] /\ req[d].known \in Accounts
      BY <2>3, <3>1, PeopleKeep
    <3>3. CASE d # c
      <4>1. req'[d] = req[d]
        BY <1>1, <1>4, <3>3
      <4>. QED BY <3>1, <3>2, <4>1 DEF Faithful
    <3>4. CASE d = c
      <4>1. /\ req'[c].pc = "found" /\ req'[c].row = b /\ req'[c].known = req[c].known
            /\ req'[c].cred = req[c].cred /\ req'[c].principal = req[c].principal
        BY <1>1, <1>4 DEF NoRequest
      <4>2. req[c].principal = NoPrincipal
        BY <1>1, <1>2 DEF Faithful, Passed
      <4>3. req[c].known # Nobody => req[c].pc = "move" /\ req[c].row = req[c].known
        BY <1>1, <1>2 DEF Faithful, Passed
      <4>4. req[c].known # Nobody => b = req[c].known
        BY <1>4, <4>3 DEF Target
      <4>. QED BY <3>1, <3>2, <3>4, <4>1, <4>2, <4>4 DEF Faithful, Passed, NoPrincipal
    <3>. QED BY <3>3, <3>4
  <2>. QED BY <2>3, <2>4 DEF Identity
<1>. QED BY <1>3, <1>4 DEF WriteAccount

LEMMA AdmitKeepsIdentity ==
  ASSUME Revocation, Identity, NEW c \in Callers, Admit(c)
  PROVE  Identity'
<1>. DEFINE p == UserPrincipal(req[c].row, req[c].cred \in Tokens)
<1>1. UNCHANGED users /\ req[c].pc = "found"
  BY DEF Admit
<1>2. CASE Unknown(c)
  BY <1>1, <1>2, UnknownFaithful
<1>3. CASE Pass(c, p)
  <2>1. p.account = req[c].row
    BY DEF UserPrincipal
  <2>2. req[c].known # Nobody => req[c].row = req[c].known
    BY <1>1 DEF Identity, Faithful
  <2>. QED BY <1>1, <1>3, <2>1, <2>2, PassFaithful
<1>. QED BY <1>2, <1>3 DEF Admit

LEMMA ResentKeepsIdentity ==
  ASSUME Revocation, Identity, NEW c \in Callers, Resent(c), UNCHANGED users
  PROVE  Identity'
<1>1. CASE UNCHANGED req
  BY <1>1, SameIdentity
<1>2. ASSUME NEW q, Fresh(q), req' = [req EXCEPT ![c] = q] PROVE Identity'
  <2>1. /\ req'[c] = q /\ \A d \in Callers : d # c => req'[d] = req[d]
    BY <1>2 DEF Revocation, RequestsAreTimely
  <2>2. Faithful(q)
    BY <1>2 DEF Fresh, Faithful
  <2>. QED BY <2>1, <2>2, OneFaithful
<1>. QED BY <1>1, <1>2 DEF Resent

LEMMA SurroundingsKeepIdentity == ASSUME Revocation, Identity, Surroundings PROVE Identity'
<1>1. CASE Tick
  <2>1. UNCHANGED users
    BY <1>1 DEF Tick
  <2>2. ASSUME NEW c \in Callers PROVE Faithful(req'[c])
    <3>1. Faithful(req[c]) /\ DOMAIN req[c] = DOMAIN NoRequest
      BY DEF Identity, Revocation, RequestsAreTimely, Timely
    <3>2. /\ req'[c].pc = req[c].pc /\ req'[c].cred = req[c].cred /\ req'[c].row = req[c].row
          /\ req'[c].known = req[c].known /\ req'[c].principal = req[c].principal
      BY <1>1, <3>1 DEF Tick, NoRequest
    <3>. QED BY <3>1, <3>2 DEF Faithful
  <2>. QED BY <2>1, <2>2 DEF Identity, Faithful, DidsDiffer
<1>2. ASSUME NEW a \in Accounts, NEW k \in Keys, Rotate(a, k) PROVE Identity'
  <2>1. UNCHANGED req /\ users' = [users EXCEPT ![a].key = k]
    BY <1>2 DEF Rotate, Minted
  <2>2. \A b \in Accounts : users'[b].did = users[b].did /\ users'[b].live = users[b].live
    BY <2>1 DEF Revocation, UsersKept, NoUser
  <2>. QED BY <2>1, <2>2 DEF Identity, Faithful, DidsDiffer
<1>3. ASSUME NEW t \in Tokens, Expire(t) PROVE Identity'
  BY <1>3, SameIdentity DEF Expire
<1>4. ASSUME NEW r \in Rows, Advance(r) PROVE Identity'
  BY <1>4, SameIdentity DEF Advance
<1>. QED BY <1>1, <1>2, <1>3, <1>4 DEF Surroundings

LEMMA IdentityInit == WebInit => Identity
<1>. SUFFICES ASSUME WebInit PROVE Identity
  OBVIOUS
<1>1. DidsDiffer
  BY DEF WebInit, DidsDiffer
<1>2. Faithful(NoRequest)
  BY DEF Faithful, NoRequest
<1>. QED BY <1>1, <1>2 DEF WebInit, GatewayInit, Identity

LEMMA IdentityStep == Revocation /\ Identity /\ NoRivalClaim /\ [WebNext]_webVars => Identity'
<1>. SUFFICES ASSUME Revocation, Identity, NoRivalClaim, [WebNext]_webVars PROVE Identity'
  OBVIOUS
<1>1. ASSUME NEW c \in Callers, ClientStep(c) \/ WebStep(c) PROVE Identity'
  <2>1. UNCHANGED users
    BY <1>1 DEF ClientStep, WebStep
  <2>. QED BY <1>1, <2>1, ClientsResend, WebResends, ResentKeepsIdentity
<1>2. ASSUME NEW c \in Callers, Serve(c) PROVE Identity'
  BY <1>2, HandlersKeepIdentity, CachedKeepsIdentity, LookupKeepsIdentity, ReadKeepsIdentity,
     WriteKeepsIdentity, AdmitKeepsIdentity DEF Serve
<1>3. CASE Surroundings
  BY <1>3, SurroundingsKeepIdentity
<1>4. CASE UNCHANGED webVars
  BY <1>4, SameIdentity DEF webVars
<1>. QED BY <1>1, <1>2, <1>3, <1>4 DEF WebNext, ApiNext

(* A person whom the gateway has an account for signs in to that account,   *)
(* whichever wallet the token names and whoever else signs in, moves a      *)
(* wallet or rotates a key meanwhile, for any accounts, tokens and callers, *)
(* as long as no two persons claim one account at once (prismaWalletLookup, *)
(* auth.ts:70).                                                             *)
THEOREM PersonsKeepTheirAccount == WebSpec /\ []NoRivalClaim => []StableIdentity
<1>1. Identity => StableIdentity
  BY DEF Identity, Faithful, StableIdentity
<1>. QED BY <1>1, RevocationInit, RevocationStep, IdentityInit, IdentityStep, PTL DEF WebSpec

(***************************************************************************)
(* The report.  A client that polls holds the id of a row; while it waits   *)
(* its request is about that row or has been answered with it, and a job    *)
(* that is resolved stays so.                                               *)
(***************************************************************************)
Concluded(r) == rows[r].status = "RESOLVED"

Follows(c) ==
  IF req[c].pc = "answered"
  THEN Accepted(c) => /\ req[c].shown = {client[c].job}
                      /\ req[c].status = "RESOLVED" => Concluded(client[c].job)
  ELSE req[c].about = client[c].job

Reporting(c) ==
  /\ req[c].pc = "insert" => req[c].route = "register"
  /\ client[c].pc \in {"polling", "asking", "reading"} => client[c].job \in Rows
  /\ client[c].pc = "asking" => req[c].route = "get" /\ Follows(c)
  /\ client[c].pc = "reading" =>
       req[c].route = "intelligence" /\ Follows(c) /\ Concluded(client[c].job)
  /\ client[c].outcome = "report" =>
       /\ client[c].pc = "done" /\ client[c].job \in Rows
       /\ Concluded(client[c].job) /\ client[c].report = {client[c].job}

ClientShape ==
  DOMAIN client = Callers /\ \A c \in Callers : DOMAIN client[c] = DOMAIN Start("run", NoCred)

Report == ClientShape /\ \A c \in Callers : Reporting(c)

(* Nothing moves a resolved job: Advance works on open ones, and a new row  *)
(* takes a free id.                                                         *)
ConclusionsStay == \A r \in Rows : rows[r].status = "RESOLVED" => rows'[r].status = "RESOLVED"

LEMMA ResolvedStays == ASSUME Tenancy, [WebNext]_webVars PROVE ConclusionsStay
<1>1. CASE UNCHANGED rows
  BY <1>1 DEF ConclusionsStay
<1>2. ASSUME Free # {}, NEW row, rows' = [rows EXCEPT ![NewId] = row] PROVE ConclusionsStay
  <2>1. NewId \in Free
    BY <1>2 DEF NewId
  <2>2. rows[NewId].status = "OPEN"
    BY <2>1 DEF Free, NoRow
  <2>. QED BY <1>2, <2>2 DEF ConclusionsStay, Tenancy, Shape
<1>3. ASSUME NEW r \in Rows, Advance(r) PROVE ConclusionsStay
  BY <1>3 DEF Advance, ConclusionsStay, Tenancy, Shape, NoRow
<1>4. ASSUME NEW c \in Callers, Serve(c) PROVE ConclusionsStay
  <2>1. CASE Create(c) \/ Deploy(c) \/ RegisterAgent(c)
    BY <1>1, <1>2, <2>1 DEF Create, Deploy, RegisterAgent, Named
  <2>3. CASE Evaluate(c)
    <3>1. \/ UNCHANGED rows
          \/ \E a, j \in Rows : \/ rows' = [rows EXCEPT ![a].noted = @ \cup {j}]
                              \/ rows' = [rows EXCEPT ![a].noted = @ \cup {j}, ![j].held = a]
      BY <2>3 DEF Evaluate, Visible
    <3>2. ASSUME NEW a \in Rows, NEW j \in Rows, NEW set, rows' = [rows EXCEPT ![a].noted = set] PROVE ConclusionsStay
      BY <3>2 DEF ConclusionsStay, Tenancy, Shape, NoRow
    <3>3. ASSUME NEW a \in Rows, NEW j \in Rows, NEW set, rows' = [rows EXCEPT ![a].noted = set, ![j].held = a]
          PROVE  ConclusionsStay
      BY <3>3 DEF ConclusionsStay, Tenancy, Shape, NoRow
    <3>. QED BY <1>1, <3>1, <3>2, <3>3
  <2>2. CASE ~(Create(c) \/ Deploy(c) \/ Evaluate(c) \/ RegisterAgent(c))
    BY <1>1, <1>4, <2>2 DEF Serve, Keyless, PassCached, Lookup, ReadAccount, WriteAccount, Admit, PayOrPass,
                            Looks, Health, Fail, FindAgent
  <2>. QED BY <2>1, <2>2, <2>3
<1>5. ASSUME NEW c \in Callers, ClientStep(c) \/ WebStep(c) PROVE ConclusionsStay
  BY <1>1, <1>5 DEF ClientStep, WebStep
<1>6. CASE Surroundings
  BY <1>1, <1>3, <1>6 DEF Surroundings, Tick, Rotate, Expire
<1>7. CASE UNCHANGED webVars
  BY <1>1, <1>7 DEF webVars
<1>. QED BY <1>4, <1>5, <1>6, <1>7 DEF WebNext, ApiNext

(* Callers that a step does not touch keep what they know.                  *)
LEMMA OthersReport ==
  ASSUME Report, ConclusionsStay, NEW d \in Callers,
         req'[d] = req[d], client'[d] = client[d]
  PROVE  Reporting(d)'
<1>1. Reporting(d)
  BY DEF Report
<1>. QED BY <1>1 DEF Reporting, Follows, Accepted, Concluded, ConclusionsStay

(* What serving makes of a request: its route stays, it is about the same   *)
(* row until it is answered, and the routes that runJob asks show that row. *)
Served(c) ==
  /\ req[c].pc # "answered"
  /\ req'[c].route = req[c].route
  /\ req'[c].pc = "insert" => req[c].route = "register"
  /\ req'[c].pc # "answered" => req'[c].about = req[c].about
  /\ /\ req'[c].pc = "answered" /\ req'[c].code \in {200, 201}
     /\ req[c].route \in {"get", "intelligence"}
     => /\ req'[c].shown = {req[c].about}
        /\ req'[c].status = "RESOLVED" => Concluded(req[c].about)

LEMMA AnswerServes ==
  ASSUME Tenancy, NEW c \in Callers, req[c].pc # "answered", NEW code, NEW shown, NEW status,
         Answer(c, code, shown, status),
         \/ code \notin {200, 201}
         \/ req[c].route \notin {"get", "intelligence"}
         \/ shown = {req[c].about} /\ status = rows[req[c].about].status
  PROVE  Served(c)
<1>1. /\ req'[c].route = req[c].route /\ req'[c].pc = "answered" /\ req'[c].code = code
      /\ req'[c].shown = shown /\ req'[c].status = status
  BY DEF Answer, Tenancy, Shape, NoRequest
<1>. QED BY <1>1 DEF Served, Concluded

LEMMA RefuseServes ==
  ASSUME Tenancy, NEW c \in Callers, req[c].pc # "answered", NEW code, Refuse(c, code),
         code \notin {200, 201} \/ req[c].route \notin {"get", "intelligence"}
  PROVE  Served(c)
BY AnswerServes DEF Refuse

LEMMA MoveServes ==
  ASSUME NEW c \in Callers, req[c].pc # "answered",
         req'[c].route = req[c].route, req'[c].about = req[c].about, req'[c].pc # "answered",
         req'[c].pc = "insert" => req[c].route = "register"
  PROVE  Served(c)
BY DEF Served

LEMMA PassServes ==
  ASSUME Tenancy, NEW c \in Callers, req[c].pc # "answered", NEW principal, Pass(c, principal)
  PROVE  Served(c)
BY MoveServes DEF Pass, Tenancy, Shape, NoRequest

LEMMA HookServes ==
  ASSUME Tenancy, NEW c \in Callers,
         Keyless(c) \/ PassCached(c) \/ Lookup(c) \/ ReadAccount(c) \/ WriteAccount(c) \/ Admit(c) \/ PayOrPass(c)
  PROVE  Served(c)
<1>1. req[c].pc # "answered"
  BY DEF Keyless, PassCached, Lookup, ReadAccount, WriteAccount, Admit, PayOrPass
<1>2. ASSUME NEW code, code \notin {200, 201}, Refuse(c, code) PROVE Served(c)
  BY <1>1, <1>2, RefuseServes
<1>3. ASSUME NEW principal, Pass(c, principal) PROVE Served(c)
  BY <1>1, <1>3, PassServes
<1>4. DOMAIN req = Callers /\ DOMAIN req[c] = DOMAIN NoRequest
  BY DEF Tenancy, Shape
<1>5. ASSUME \/ \E row : req' = [req EXCEPT ![c].pc = "found", ![c].row = row]
             \/ \E known : req' = [req EXCEPT ![c].pc = "did", ![c].known = known]
             \/ req' = [req EXCEPT ![c].pc = "handler"]
             \/ req' = [req EXCEPT ![c].pc = "handler", ![c].paid = TRUE]
      PROVE  Served(c)
  BY <1>1, <1>4, <1>5, MoveServes DEF NoRequest
<1>6. CASE Keyless(c) \/ PassCached(c) \/ Admit(c)
  BY <1>2, <1>3, <1>6 DEF Keyless, PassCached, Admit, Unknown
<1>7. CASE Lookup(c)
  BY <1>2, <1>3, <1>5, <1>7 DEF Lookup, Unknown
<1>8. CASE ReadAccount(c)
  <2>. DEFINE r == Reading(req[c].pc, req[c].cred, req[c].row)
  <2>1. r.pc \notin {"answered", "insert"}
    BY <1>8, ReadingEnds DEF ReadAccount
  <2>2. req' = [req EXCEPT ![c].pc = r.pc, ![c].row = r.row]
    BY <1>8 DEF ReadAccount
  <2>. HIDE DEF r
  <2>. QED BY <1>1, <1>4, <2>1, <2>2, MoveServes DEF NoRequest
<1>9. CASE WriteAccount(c)
  BY <1>2, <1>5, <1>9 DEF WriteAccount
<1>10. CASE PayOrPass(c)
  BY <1>2, <1>5, <1>10 DEF PayOrPass
<1>. QED BY <1>6, <1>7, <1>8, <1>9, <1>10

LEMMA HandlersServe ==
  ASSUME Tenancy, NEW c \in Callers, Reporting(c),
         Looks(c) \/ Health(c) \/ Fail(c) \/ Create(c) \/ Deploy(c) \/ Evaluate(c) \/ FindAgent(c) \/ RegisterAgent(c)
  PROVE  Served(c)
<1>1. req[c].pc # "answered"
  BY DEF Looks, GetJob, GetIntelligence, GetExplanation, GetAutomation, GetPositions, Manage, GetAgent,
         ListJobs, ListAutomations, ListAgents, Stats, Datanets, At, Health, Fail, Create, Deploy, Evaluate, FindAgent,
         RegisterAgent
<1>2. ASSUME NEW code, code \notin {200, 201}, Refuse(c, code) PROVE Served(c)
  BY <1>1, <1>2, RefuseServes
<1>3. ASSUME req[c].route \notin {"get", "intelligence"}, NEW code, NEW shown, NEW status, Answer(c, code, shown, status)
      PROVE  Served(c)
  BY <1>1, <1>3, AnswerServes
<1>4. CASE GetJob(c) \/ GetIntelligence(c)
  <2>1. \/ \E code \in {404, 409} : Refuse(c, code)
        \/ Answer(c, 200, {req[c].about}, rows[req[c].about].status)
    BY <1>4 DEF GetJob, GetIntelligence, Show
  <2>. QED BY <1>1, <1>2, <2>1, AnswerServes
<1>5. CASE \/ GetExplanation(c) \/ GetAutomation(c) \/ GetPositions(c) \/ Manage(c) \/ GetAgent(c)
           \/ ListJobs(c) \/ ListAutomations(c) \/ ListAgents(c) \/ Stats(c) \/ Datanets(c)
           \/ Create(c) \/ Deploy(c)
  <2>1. /\ req[c].route \notin {"get", "intelligence"}
        /\ \E code, shown, status : Answer(c, code, shown, status)
    BY <1>5 DEF GetExplanation, GetAutomation, GetPositions, Manage, GetAgent, ListJobs, ListAutomations,
                ListAgents, Stats, Datanets, Create, Deploy, At, Show, Refuse
  <2>. QED BY <1>3, <2>1
<1>10. CASE Evaluate(c)
  <2>1. req[c].route \notin {"get", "intelligence"} /\ \E code, shown, status : Answer(c, code, shown, status)
    BY <1>10, EvaluateAnswers
  <2>. QED BY <1>3, <2>1
<1>6. CASE Health(c)
  <2>1. req[c].route = "health" /\ \E code, shown, status : Answer(c, code, shown, status)
    BY <1>6 DEF Health, Refuse
  <2>. QED BY <1>3, <2>1
<1>7. CASE Fail(c)
  BY <1>2, <1>7 DEF Fail
<1>8. CASE FindAgent(c)
  <2>1. /\ req[c].route = "register"
        /\ Refuse(c, 409) \/ req' = [req EXCEPT ![c].pc = "insert"]
    BY <1>8 DEF FindAgent, At
  <2>2. CASE req' = [req EXCEPT ![c].pc = "insert"]
    BY <1>1, <2>1, <2>2, MoveServes DEF Tenancy, Shape, NoRequest
  <2>. QED BY <1>2, <2>1, <2>2
<1>9. CASE RegisterAgent(c)
  <2>1. req[c].route = "register" /\ \E code, shown, status : Answer(c, code, shown, status)
    BY <1>9 DEF RegisterAgent, Reporting, Refuse
  <2>. QED BY <1>3, <2>1
<1>. QED BY <1>4, <1>5, <1>6, <1>7, <1>8, <1>9, <1>10 DEF Looks

LEMMA ServeKeepsReport ==
  ASSUME Tenancy, Report, ConclusionsStay, NEW c \in Callers, Serve(c), UNCHANGED client
  PROVE  Reporting(c)'
<1>1. Reporting(c)
  BY DEF Report
<1>2. Served(c)
  BY <1>1, HookServes, HandlersServe DEF Serve
<1>. QED BY <1>1, <1>2 DEF Reporting, Follows, Served, Accepted, Concluded, ConclusionsStay

LEMMA ServeTouchesOne ==
  ASSUME Tenancy, NEW c \in Callers, Serve(c), NEW d \in Callers, d # c
  PROVE  req'[d] = req[d]
<1>1. CASE Keyless(c) \/ PassCached(c) \/ Lookup(c) \/ ReadAccount(c) \/ WriteAccount(c) \/ Admit(c) \/ PayOrPass(c)
  BY ZenonT(30), <1>1
  DEF Keyless, PassCached, Lookup, ReadAccount, WriteAccount, Admit, PayOrPass, Unknown, Pass, Refuse, Answer,
              Tenancy, Shape
<1>2. CASE \/ Looks(c) \/ Health(c) \/ Fail(c) \/ Create(c) \/ Deploy(c) \/ Evaluate(c) \/ FindAgent(c) \/ RegisterAgent(c)
  <2>1. (\E code, shown, status : Answer(c, code, shown, status)) \/ req' = [req EXCEPT ![c].pc = "insert"]
    BY <1>2, EvaluateAnswers DEF Looks, GetJob, GetIntelligence, GetExplanation, GetAutomation, GetPositions, Manage, GetAgent,
                ListJobs, ListAutomations, ListAgents, Stats, Datanets, Show, Refuse, Health, Fail, Create, Deploy,
                FindAgent, RegisterAgent
  <2>. QED BY <2>1 DEF Answer, Tenancy, Shape
<1>. QED BY <1>1, <1>2 DEF Serve

(* What the clients do.                                                     *)
LEMMA ClientKeepsReport ==
  ASSUME Tenancy, Report, NEW c \in Callers, ClientStep(c)
  PROVE  Reporting(c)' /\ ClientShape' /\ \A d \in Callers : d # c => client'[d] = client[d] /\ req'[d] = req[d]
<1>1. /\ Reporting(c) /\ DOMAIN client = Callers /\ UNCHANGED rows
      /\ \A d \in Callers : DOMAIN client[d] = {"program", "cred", "pc", "job", "outcome", "report"}
  BY DEF Report, ClientShape, Start, ClientStep
<1>2. /\ DOMAIN req = Callers /\ DOMAIN req[c] = DOMAIN NoRequest
  BY DEF Tenancy, Shape
<1>3. \A d \in Callers : d # c => client'[d] = client[d] /\ req'[d] = req[d]
  BY <1>1, <1>2 DEF ClientStep, Ask, Submit, Poll, GiveUp, Receive, Abort, Unheard, Done, Send, Dropped
<1>4. ClientShape'
  BY <1>1 DEF ClientStep, Ask, Submit, Poll, GiveUp, Receive, Abort, Unheard, Done, Send, ClientShape, Start
<1>5. ASSUME Ask(c) \/ Submit(c) PROVE Reporting(c)'
  <2>1. PICK route, about : /\ Send(c, route, about, "waiting") \/ Send(c, route, about, "creating")
                            /\ client[c].pc = "start"
    BY <1>5 DEF Ask, Submit
  <2>2. /\ req'[c].pc = "arrived" /\ client'[c].pc \in {"waiting", "creating"}
        /\ client'[c].outcome = client[c].outcome
    <3>1. ASSUME NEW pc \in {"waiting", "creating"}, Send(c, route, about, pc)
          PROVE  /\ req'[c].pc = "arrived" /\ client'[c].pc = pc
                 /\ client'[c].outcome = client[c].outcome
      BY <1>1, <1>2, <3>1 DEF Send, NoRequest
    <3>. QED BY <2>1, <3>1
  <2>. QED BY <1>1, <2>1, <2>2 DEF Reporting
<1>6. ASSUME Poll(c) PROVE Reporting(c)'
  <2>1. /\ req'[c].pc = "arrived" /\ req'[c].route = "get" /\ req'[c].about = client[c].job
        /\ client'[c].pc = "asking" /\ client'[c].job = client[c].job /\ client'[c].outcome = client[c].outcome
        /\ client[c].pc = "polling"
    BY <1>1, <1>2, <1>6 DEF Poll, Send, NoRequest
  <2>. QED BY <1>1, <2>1 DEF Reporting, Follows
<1>7. ASSUME GiveUp(c) \/ Abort(c) PROVE Reporting(c)'
  BY <1>1, <1>2, <1>7 DEF GiveUp, Abort, Done, Reporting
<1>8. ASSUME Unheard(c) PROVE Reporting(c)'
  BY <1>1, <1>2, <1>8 DEF Unheard, Dropped, Reporting, NoRequest, Concluded
<1>9. ASSUME Receive(c) PROVE Reporting(c)'
  <2>1. /\ client[c].pc \in Waits /\ client[c].outcome # "report" /\ req[c].pc = "answered"
    BY <1>1, <1>9 DEF Receive, Reporting, Waits
  <2>2. ASSUME NEW what, what # "report", NEW shown, Done(c, what, shown), Dropped(c) PROVE Reporting(c)'
    BY <1>1, <1>2, <2>2 DEF Done, Dropped, Reporting, NoRequest
  <2>3. CASE ~Accepted(c)
    BY <1>9, <2>2, <2>3 DEF Receive
  <2>4. CASE Accepted(c) /\ client[c].pc = "waiting"
    BY <1>9, <2>2, <2>4 DEF Receive
  <2>5. CASE Accepted(c) /\ client[c].pc = "reading"
    <3>1. Done(c, "report", req[c].shown) /\ Dropped(c)
      BY <1>9, <2>5 DEF Receive
    <3>2. /\ client'[c].pc = "done" /\ client'[c].outcome = "report" /\ client'[c].job = client[c].job
          /\ client'[c].report = req[c].shown /\ req'[c].pc = "none"
      BY <1>1, <1>2, <3>1 DEF Done, Dropped, NoRequest
    <3>3. /\ req[c].shown = {client[c].job} /\ client[c].job \in Rows
          /\ rows[client[c].job].status = "RESOLVED"
      BY <1>1, <2>1, <2>5 DEF Reporting, Follows, Concluded
    <3>. QED BY <1>1, <3>2, <3>3 DEF Reporting, Concluded
  <2>6. CASE Accepted(c) /\ client[c].pc = "creating"
    <3>1. /\ Dropped(c)
          /\ \E r \in req[c].shown : client' = [client EXCEPT ![c].pc = "polling", ![c].job = r]
      BY <1>9, <2>6 DEF Receive
    <3>2. PICK r \in req[c].shown : client' = [client EXCEPT ![c].pc = "polling", ![c].job = r]
      BY <3>1
    <3>3. r \in Rows
      BY <2>1, <3>2 DEF Tenancy, ShownExist
    <3>4. /\ client'[c].pc = "polling" /\ client'[c].job = r /\ client'[c].outcome = client[c].outcome
          /\ req'[c].pc = "none"
      BY <1>1, <1>2, <3>1, <3>2 DEF Dropped, NoRequest
    <3>. QED BY <2>1, <3>3, <3>4 DEF Reporting
  <2>7. CASE Accepted(c) /\ client[c].pc = "asking"
    <3>1. /\ req[c].shown = {client[c].job} /\ client[c].job \in Rows
          /\ req[c].status = "RESOLVED" => rows[client[c].job].status = "RESOLVED"
      BY <1>1, <2>1, <2>7 DEF Reporting, Follows, Concluded
    <3>2. CASE req[c].status = "RESOLVED"
      <4>1. Send(c, "intelligence", client[c].job, "reading")
        BY <1>9, <2>7, <3>2 DEF Receive
      <4>2. /\ req'[c].pc = "arrived" /\ req'[c].route = "intelligence" /\ req'[c].about = client[c].job
            /\ client'[c].pc = "reading" /\ client'[c].job = client[c].job
            /\ client'[c].outcome = client[c].outcome
        BY <1>1, <1>2, <4>1 DEF Send, NoRequest
      <4>. QED BY <1>1, <2>1, <3>1, <3>2, <4>2 DEF Reporting, Follows, Concluded
    <3>3. CASE req[c].status = "FAILED"
      <4>1. Done(c, "failed", {}) /\ Dropped(c)
        BY <1>9, <2>7, <3>3 DEF Receive
      <4>. QED BY <2>2, <4>1
    <3>4. CASE req[c].status \notin {"RESOLVED", "FAILED"}
      <4>1. client' = [client EXCEPT ![c].pc = "polling"] /\ Dropped(c)
        BY <1>9, <2>7, <3>4 DEF Receive
      <4>2. /\ client'[c].pc = "polling" /\ client'[c].job = client[c].job
            /\ client'[c].outcome = client[c].outcome /\ req'[c].pc = "none"
        BY <1>1, <1>2, <4>1 DEF Dropped, NoRequest
      <4>. QED BY <2>1, <3>1, <4>2 DEF Reporting
    <3>. QED BY <3>2, <3>3, <3>4
  <2>. QED BY <2>1, <2>3, <2>4, <2>5, <2>6, <2>7 DEF Waits
<1>. QED BY <1>3, <1>4, <1>5, <1>6, <1>7, <1>8, <1>9 DEF ClientStep

(* The web server never polls, and its pages never call themselves reports. *)
LEMMA WebKeepsReport ==
  ASSUME Tenancy, Report, NEW c \in Callers, WebStep(c)
  PROVE  Reporting(c)' /\ ClientShape' /\ \A d \in Callers : d # c => client'[d] = client[d] /\ req'[d] = req[d]
<1>1. /\ Reporting(c) /\ DOMAIN client = Callers /\ UNCHANGED rows
      /\ \A d \in Callers : DOMAIN client[d] = {"program", "cred", "pc", "job", "outcome", "report"}
  BY DEF Report, ClientShape, Start, WebStep
<1>2. /\ DOMAIN req = Callers /\ DOMAIN req[c] = DOMAIN NoRequest
  BY DEF Tenancy, Shape
<1>. DEFINE Kept == /\ Reporting(c)' /\ ClientShape'
                    /\ \A d \in Callers : d # c => client'[d] = client[d] /\ req'[d] = req[d]
<1>3. ASSUME NEW pc \in {"loading", "filling", "part", "done", "start"}, client[c].pc # "done",
             client'[c].pc = pc, client'[c].outcome # "report",
             \A d \in Callers : d # c => client'[d] = client[d] /\ req'[d] = req[d], ClientShape',
             req'[c].pc \in {"none", "arrived"} \/ req'[c] = req[c]
      PROVE  Kept
  BY <1>1, <1>3 DEF Reporting
<1>4. CASE Visit(c)
  <2>1. client[c].pc = "start" /\ client[c].outcome # "report"
    BY <1>1, <1>4 DEF Reporting, Visit, Home, JobPage, AgentsPage, DatanetsPage, AutomationPage,
                AutomationDetailPage, CreateJobAction, DeployAutomationAction, ControlAction, Forward, Runs
  <2>2. \/ \E what \in {"not found", "connect", "invalid", "not available"} : Done(c, what, {}) /\ UNCHANGED req
        \/ \E route : Request(c, route)
    BY <1>4 DEF Visit, Home, JobPage, AgentsPage, DatanetsPage, AutomationPage, AutomationDetailPage,
                CreateJobAction, DeployAutomationAction, ControlAction, Forward, Gate, Submitted, Enabled, Instead
  <2>3. ASSUME NEW what \in {"not found", "connect", "invalid", "not available"}, Done(c, what, {}), UNCHANGED req
        PROVE  Kept
    BY <1>1, <1>2, <1>3, <2>1, <2>3 DEF Done, ClientShape, Start
  <2>4. ASSUME NEW route, Request(c, route) PROVE Kept
    <3>1. PICK x : /\ req' = [req EXCEPT ![c] = [NoRequest EXCEPT !.pc = "arrived", !.route = route, !.about = x,
                                                                  !.cred = Bearer(c)]]
                   /\ client' = [client EXCEPT ![c].pc = "loading", ![c].job = x, ![c].cred = Bearer(c)]
      BY <2>4 DEF Request
    <3>2. req'[c].pc = "arrived" /\ \A d \in Callers : d # c => req'[d] = req[d]
      BY <1>2, <3>1 DEF NoRequest
    <3>3. /\ client'[c].pc = "loading" /\ client'[c].outcome = client[c].outcome
          /\ \A d \in Callers : d # c => client'[d] = client[d]
          /\ ClientShape'
      BY <1>1, <3>1 DEF ClientShape, Start
    <3>. QED BY <1>3, <2>1, <3>2, <3>3
  <2>. QED BY <2>2, <2>3, <2>4
<1>5. CASE Loaded(c) \/ Filled(c)
  <2>1. client[c].pc \in {"loading", "part"} /\ Dropped(c)
    BY <1>5 DEF Loaded, Filled
  <2>2. client[c].outcome # "report"
    BY <1>1, <2>1 DEF Reporting
  <2>3. req'[c].pc = "none" /\ \A d \in Callers : d # c => req'[d] = req[d]
    BY <1>2, <2>1 DEF Dropped, NoRequest
  <2>4. \/ \E what \in {"refused", "answer", "in flight"} : \E shown : Done(c, what, shown)
        \/ \E shown : client' = [client EXCEPT ![c].pc = "filling", ![c].report = shown]
    BY <1>5 DEF Loaded, Filled
  <2>5. /\ client'[c].pc \in {"done", "filling"} /\ client'[c].outcome # "report" /\ ClientShape'
        /\ \A d \in Callers : d # c => client'[d] = client[d]
    <3>1. ASSUME NEW what \in {"refused", "answer", "in flight"}, NEW shown, Done(c, what, shown)
          PROVE  /\ client'[c].pc \in {"done", "filling"}
                 /\ client'[c].outcome # "report" /\ ClientShape'
                 /\ \A d \in Callers : d # c => client'[d] = client[d]
      BY <1>1, <3>1 DEF Done, ClientShape, Start
    <3>2. ASSUME NEW shown, client' = [client EXCEPT ![c].pc = "filling", ![c].report = shown]
          PROVE  /\ client'[c].pc \in {"done", "filling"}
                 /\ client'[c].outcome # "report" /\ ClientShape'
                 /\ \A d \in Callers : d # c => client'[d] = client[d]
      BY <1>1, <2>2, <3>2 DEF ClientShape, Start
    <3>. QED BY <2>4, <3>1, <3>2
  <2>. QED BY <1>3, <2>1, <2>3, <2>5
<1>6. CASE Fill(c)
  <2>1. PICK route, about : Send(c, route, about, "part")
    BY <1>6 DEF Fill
  <2>2. client[c].pc = "filling" /\ client[c].outcome # "report"
    BY <1>1, <1>6 DEF Fill, Reporting
  <2>3. req'[c].pc = "arrived" /\ \A d \in Callers : d # c => req'[d] = req[d]
    BY <1>2, <2>1 DEF Send, NoRequest
  <2>4. /\ client'[c].pc = "part" /\ client'[c].outcome = client[c].outcome /\ ClientShape'
        /\ \A d \in Callers : d # c => client'[d] = client[d]
    BY <1>1, <2>1 DEF Send, ClientShape, Start
  <2>. QED BY <1>3, <2>2, <2>3, <2>4
<1>7. CASE Cut(c)
  <2>1. /\ client[c].pc \in {"loading", "part"} /\ UNCHANGED req
        /\ \E what \in {"timeout", "answer"} : \E shown : Done(c, what, shown)
    BY <1>7 DEF Cut
  <2>2. /\ client'[c].pc = "done" /\ client'[c].outcome # "report" /\ ClientShape'
        /\ \A d \in Callers : d # c => client'[d] = client[d]
    BY <1>1, <2>1 DEF Done, ClientShape, Start
  <2>. QED BY <1>3, <2>1, <2>2
<1>8. CASE Refresh(c)
  <2>1. /\ client'[c].pc = "start" /\ client'[c].outcome = "in flight" /\ ClientShape' /\ UNCHANGED req
        /\ \A d \in Callers : d # c => client'[d] = client[d]
    BY <1>1, <1>8 DEF Refresh, ClientShape, Start
  <2>. QED BY <1>1, <2>1 DEF Reporting
<1>9. CASE Press(c)
  <2>1. PICK r : client' = [client EXCEPT ![c] = [Start("control", NoCred) EXCEPT !.job = r]]
    BY <1>9 DEF Press
  <2>2. /\ client'[c].pc = "start" /\ client'[c].outcome = "none" /\ ClientShape' /\ UNCHANGED req
        /\ \A d \in Callers : d # c => client'[d] = client[d]
    BY <1>1, <1>9, <2>1 DEF Press, ClientShape, Start
  <2>. QED BY <1>1, <2>2 DEF Reporting
<1>10. CASE WalletBridge(c)
  <2>1. UNCHANGED <<req, client>>
    BY <1>10 DEF WalletBridge
  <2>. QED BY <1>1, <2>1 DEF Report, Reporting, Follows, Accepted, Concluded, ClientShape
<1>. QED BY <1>4, <1>5, <1>6, <1>7, <1>8, <1>9, <1>10 DEF WebStep, Render

LEMMA SurroundingsKeepReport ==
  ASSUME Tenancy, Report, ConclusionsStay, Surroundings, UNCHANGED client
  PROVE  Report'
<1>1. ASSUME NEW c \in Callers PROVE Reporting(c)'
  <2>1. CASE UNCHANGED req
    BY <2>1, OthersReport
  <2>2. CASE Tick
    <3>1. /\ req'[c].pc = req[c].pc /\ req'[c].route = req[c].route /\ req'[c].about = req[c].about
          /\ req'[c].code = req[c].code /\ req'[c].shown = req[c].shown /\ req'[c].status = req[c].status
      BY <2>2 DEF Tick, Tenancy, Shape, NoRequest
    <3>2. Reporting(c)
      BY DEF Report
    <3>. QED BY <3>1, <3>2 DEF Reporting, Follows, Accepted, Concluded, ConclusionsStay
  <2>. QED BY <2>1, <2>2 DEF Surroundings, Rotate, Expire, Advance
<1>2. ClientShape'
  BY DEF Report, ClientShape
<1>. QED BY <1>1, <1>2 DEF Report

LEMMA ReportInit == WebInit => Report
<1>. SUFFICES ASSUME WebInit PROVE Report
  OBVIOUS
<1>1. ASSUME NEW c \in Callers
      PROVE  /\ DOMAIN client[c] = DOMAIN Start("run", NoCred)
             /\ client[c].pc = "start" /\ client[c].outcome = "none" /\ req[c].pc = "none"
  <2>1. PICK program, cred : client[c] = Start(program, cred)
    BY DEF WebInit
  <2>. QED BY <2>1 DEF Start, WebInit, GatewayInit, NoRequest
<1>2. \A c \in Callers : Reporting(c)
  BY <1>1 DEF Reporting
<1>. QED BY <1>1, <1>2 DEF WebInit, Report, ClientShape

LEMMA ReportStep == Tenancy /\ Report /\ [WebNext]_webVars => Report'
<1>. SUFFICES ASSUME Tenancy, Report, [WebNext]_webVars PROVE Report'
  OBVIOUS
<1>1. ConclusionsStay
  BY ResolvedStays
<1>2. ASSUME NEW c \in Callers, ClientStep(c) \/ WebStep(c) PROVE Report'
  <2>1. Reporting(c)' /\ ClientShape' /\ \A d \in Callers : d # c => client'[d] = client[d] /\ req'[d] = req[d]
    BY <1>2, ClientKeepsReport, WebKeepsReport
  <2>2. ASSUME NEW d \in Callers PROVE Reporting(d)'
    BY <1>1, <2>1, OthersReport
  <2>. QED BY <2>1, <2>2 DEF Report
<1>3. ASSUME NEW c \in Callers, Serve(c), UNCHANGED client PROVE Report'
  <2>1. ASSUME NEW d \in Callers PROVE Reporting(d)'
    BY <1>1, <1>3, ServeKeepsReport, ServeTouchesOne, OthersReport
  <2>2. ClientShape'
    BY <1>3 DEF Report, ClientShape
  <2>. QED BY <2>1, <2>2 DEF Report
<1>4. CASE Surroundings /\ UNCHANGED client
  BY <1>1, <1>4, SurroundingsKeepReport
<1>5. CASE UNCHANGED webVars
  BY <1>5 DEF webVars, Report, ClientShape, Reporting, Follows, Accepted, Concluded
<1>. QED BY <1>2, <1>3, <1>4, <1>5 DEF WebNext, ApiNext

(* What runJob returns is the intelligence of the job it submitted, and     *)
(* that job is resolved then and stays so: never another tenant's, and      *)
(* never one that failed after its consensus was stored (sdk runJob), for   *)
(* any clients and however the pipeline overtakes the polling.              *)
THEOREM ReportsFollowTheirJob == WebSpec => []ReportIsOfTheJob
<1>1. Report => ReportIsOfTheJob
  BY DEF Report, Reporting, ReportIsOfTheJob, Concluded
<1>. QED BY <1>1, TenancyInit, TenancyStep, ReportInit, ReportStep, PTL DEF WebSpec

=============================================================================
