---------------------------- MODULE QueueDrivers -----------------------------
(***************************************************************************)
(* The in-memory and the BullMQ queue driver (packages/queue: memory.ts,    *)
(* bullmq.ts, trace.ts) between the gateway's requests and the workers, as  *)
(* workers/src and apps/api/src/main.ts use them, each message carrying the *)
(* trace context of its enqueue.  Every enqueue has a dedupe id made of the *)
(* stage and the job, which names the message here.                         *)
(***************************************************************************)
EXTENDS Tracing, SequencesExt

CONSTANTS
  Kinds,         \* of "memory" and "bullmq"
  Queues,
  Messages,
  QueueOf,       \* [Messages -> Queues]
  ByRequest,         \* messages that requests enqueue
  Follows,       \* messages that the handler of another one enqueues
  After,         \* [Follows -> Messages]: which one
  Attempts,      \* attempts including the first (3)
  Concurrency,   \* per queue
  MaxCrashes     \* bound: processes lost

ASSUME DriverAssumption ==
  /\ Attempts \in Nat \ {0} /\ Concurrency \in Nat \ {0} /\ BatchSize \in Nat \ {0} /\ MaxCrashes \in Nat
  /\ ByRequest \cup Follows = Messages /\ ByRequest \cap Follows = {}
  /\ IsFiniteSet(Queues) /\ Kinds \subseteq {"memory", "bullmq"} /\ QueueOf \in [Messages -> Queues] /\ After \in [Follows -> Messages]

VARIABLES
  kind,        \* which driver createQueueDriver made
  list,        \* per queue, the deliveries that wait
  delayed,     \* deliveries whose timer runs
  seen,        \* ids that an enqueue would drop: seenIds, or the jobs in Redis
  inFlight,    \* per queue, the count of the driver
  running,     \* deliveries in a handler or, after it, in onFailed
  reports,     \* BullMQ: calls of onFailed that nobody awaits
  up,          \* "starting", "open", "stopping", "closed"
  request,     \* messages that a request has come for
  crashes,
  origin,      \* history: the context of the accepted enqueue of each message
  ended        \* history: messages "done", or "failed" by onFailed

driverVars == <<kind, list, delayed, seen, inFlight, running, reports, up, request, crashes, origin, ended>>
queueVars == <<driverVars, tracingVars>>

Delivery(m, attempt, header) == [msg |-> m, attempt |-> attempt, trace |-> header]

DriverInit ==
  /\ TracingInit
  /\ kind \in Kinds
  /\ list = [q \in Queues |-> <<>>] /\ inFlight = [q \in Queues |-> 0]
  /\ delayed = {} /\ seen = {} /\ running = {} /\ reports = {}
  /\ up = "starting" /\ crashes \in 0..MaxCrashes
  /\ request = {}
  /\ origin = [m \in Messages |-> <<>>] /\ ended = [m \in Messages |-> {}]

Handled == up = "open"

(***************************************************************************)
(* drain: while fewer than concurrency are in flight, the oldest starts.    *)
(* waiting and flying are what the queue holds once the caller's change is  *)
(* made.  Redis hands a worker its jobs likewise.                           *)
(***************************************************************************)
TakenUp(d) == [msg |-> d.msg, attempt |-> d.attempt, trace |-> d.trace, pc |-> "receive"]

Drain(q, waiting, flying, others) ==
  LET room == IF Handled /\ flying < Concurrency THEN Concurrency - flying ELSE 0
      n == IF room < Len(waiting) THEN room ELSE Len(waiting)
  IN  /\ list' = [list EXCEPT ![q] = SubSeq(waiting, n + 1, Len(waiting))]
      /\ inFlight' = [inFlight EXCEPT ![q] = flying + n]
      /\ running' = others \cup {TakenUp(waiting[i]) : i \in 1..n}

Push(q, d, others) == Drain(q, Append(list[q], d), inFlight[q], others)

(* trace.ts: memory keeps the header beside the payload, BullMQ inside it,  *)
(* wrapped only when there is one.                                          *)
PackTrace(header) == IF header = NoHeader THEN [payload |-> TRUE] ELSE [payload |-> TRUE, trace |-> header]
UnpackTrace(data) == IF "trace" \in DOMAIN data THEN data.trace ELSE NoHeader
Carried(header) == IF kind = "bullmq" THEN UnpackTrace(PackTrace(header)) ELSE header

(* Mutant: the id of an enqueue is not remembered.                          *)
EnqueueForgets(m, ambient, others) ==
  /\ UNCHANGED seen
  /\ origin' = [origin EXCEPT ![m] = <<ambient>>]
  /\ Push(QueueOf[m], Delivery(m, 1, Carried(CurrentTraceparent(ambient))), others)

(* enqueue under an ambient context, beside what else becomes of running: a *)
(* known id is dropped.                                                     *)
Enqueue(m, ambient, others) ==
  IF m \in seen THEN running' = others /\ UNCHANGED <<list, inFlight, seen, origin>>
  ELSE /\ seen' = seen \cup {m}
       /\ origin' = [origin EXCEPT ![m] = <<ambient>>]
       /\ Push(QueueOf[m], Delivery(m, 1, Carried(CurrentTraceparent(ambient))), others)

------------------------------------------------------------------------------
(* The gateway: a server span per request (apps/api/src/tracing.ts), inside *)
(* which POST /v1/jobs enqueues; the driver is closed to a late request.    *)
Request(m) ==
  /\ up \in {"starting", "open"} /\ m \notin request
  /\ \E h \in Headers : StartSpan(<<"server", m>>, ParseTraceparent(h))
  /\ request' = request \cup {m}
  /\ UNCHANGED <<exporter, buffer, timer, sends, kind, list, delayed, seen, inFlight, running, reports, up,
                 crashes, origin, ended>>

Server(m) == <<"server", m>>
Active(m) == Server(m) \in DOMAIN spans /\ spans[Server(m)].open

Submit(m) ==
  /\ Active(m) /\ up # "closed" /\ origin[m] = <<>>
  /\ Enqueue(m, spans[Server(m)].context, running)
  /\ UNCHANGED <<tracingVars, kind, delayed, reports, up, request, crashes, ended>>

(* onResponse, with what the handler came to, or onRequestAbort.            *)
Respond(m) ==
  /\ Active(m)
  /\ EndSpan(Server(m))
  /\ UNCHANGED driverVars

------------------------------------------------------------------------------
(* The workers.                                                             *)

(* process: the handlers are registered and what waits is drained.          *)
Subscribe ==
  /\ up = "starting" /\ up' = "open"
  /\ LET taken(q) == IF Len(list[q]) < Concurrency THEN Len(list[q]) ELSE Concurrency
     IN  /\ running' = UNION {{TakenUp(list[q][i]) : i \in 1..taken(q)} : q \in Queues}
         /\ inFlight' = [q \in Queues |-> taken(q)]
         /\ list' = [q \in Queues |-> SubSeq(list[q], taken(q) + 1, Len(list[q]))]
  /\ UNCHANGED <<tracingVars, kind, delayed, seen, reports, request, crashes, origin, ended>>

Become(d, e) == (running \ {d}) \cup {e}

Consumer(d) == <<"consumer", d.msg, d.attempt>>

(* The context of the enqueue is restored around the handler, and traced    *)
(* opens the consumer span under it; nothing else is ambient there.         *)
Receive(d) ==
  /\ d.pc = "receive"
  /\ StartSpan(Consumer(d), WithContext(ParseTraceparent(d.trace), NoContext))
  /\ running' = Become(d, [d EXCEPT !.pc = "handle"])
  /\ UNCHANGED <<exporter, buffer, timer, sends, kind, list, delayed, seen, inFlight, reports, up, request, crashes,
                 origin, ended>>

(* The handler enqueues the message of the next stage.                      *)
Hand(d) ==
  /\ d.pc = "handle" /\ up # "closed"
  /\ \E m \in Follows :
       After[m] = d.msg /\ Enqueue(m, spans[Consumer(d)].context, Become(d, [d EXCEPT !.pc = "handed"]))
  /\ UNCHANGED <<tracingVars, kind, delayed, reports, up, request, crashes, ended>>

(* Mutant: the count goes down with the last attempt only.                  *)
LeaveCounted(d) ==
  LET q == QueueOf[d.msg]
  IN  Drain(q, list[q], IF d.attempt < Attempts THEN inFlight[q] ELSE inFlight[q] - 1, running \ {d})

(* The end of a delivery: the count goes down and the queue is drained.     *)
Leave(d) ==
  LET q == QueueOf[d.msg] IN Drain(q, list[q], IF inFlight[q] > 0 THEN inFlight[q] - 1 ELSE 0, running \ {d})

Succeed(d) ==
  /\ d.pc = "handed" \/ (d.pc = "handle" /\ \A m \in Follows : After[m] # d.msg)
  /\ EndSpan(Consumer(d)) /\ Leave(d)
  /\ ended' = [ended EXCEPT ![d.msg] = @ \cup {"done"}]
  /\ UNCHANGED <<kind, delayed, seen, reports, up, request, crashes, origin>>

(* Mutant: what a retry carries is built anew.                              *)
RetryUntraced(d) == Delivery(d.msg, d.attempt + 1, NoHeader)

Retry(d) == Delivery(d.msg, d.attempt + 1, d.trace)

Spent(d) == d.attempt >= Attempts

(* The handler throws: a retry is due after a backoff; otherwise onFailed.  *)
(* Memory awaits it, once, with the delivery still in flight; the "failed"  *)
(* event of BullMQ comes with every failed attempt and awaits nothing.      *)
Throw(d) ==
  /\ d.pc \in {"handle", "handed"}
  /\ EndSpan(Consumer(d))
  /\ delayed' = IF Spent(d) THEN delayed ELSE delayed \cup {Retry(d)}
  /\ IF kind = "memory" /\ Spent(d)
     THEN running' = Become(d, [d EXCEPT !.pc = "failing"]) /\ UNCHANGED <<list, inFlight>>
     ELSE Leave(d)
  /\ reports' = IF kind = "bullmq" THEN reports \cup {[msg |-> d.msg, attempt |-> d.attempt]} ELSE reports
  /\ UNCHANGED <<kind, seen, up, request, crashes, origin, ended>>

(* onFailed fails the job.                                                  *)
Report(d) ==
  /\ d.pc = "failing"
  /\ Leave(d)
  /\ ended' = [ended EXCEPT ![d.msg] = @ \cup {"failed"}]
  /\ UNCHANGED <<tracingVars, kind, delayed, seen, reports, up, request, crashes, origin>>

ReportEvent(r) ==
  /\ reports' = reports \ {r}
  /\ ended' = [ended EXCEPT ![r.msg] = @ \cup {"failed"}]
  /\ UNCHANGED <<tracingVars, kind, list, delayed, seen, inFlight, running, up, request, crashes, origin>>

(* The backoff of a retry is over: it goes to the end of its queue.         *)
Due(d) ==
  /\ delayed' = delayed \ {d}
  /\ Push(QueueOf[d.msg], d, running)
  /\ UNCHANGED <<tracingVars, kind, seen, reports, up, request, crashes, origin, ended>>

------------------------------------------------------------------------------
(* Shutdown, in the order of main.ts: the workers stop taking, a BullMQ     *)
(* worker waiting for what it runs, then the driver closes: memory drops    *)
(* its timers and queues.                                                   *)
Stop ==
  /\ up = "open" /\ up' = "stopping"
  /\ UNCHANGED <<tracingVars, kind, list, delayed, seen, inFlight, running, reports, request, crashes, origin, ended>>

Close ==
  /\ up = "stopping" /\ up' = "closed"
  /\ IF kind = "memory" THEN list' = [q \in Queues |-> <<>>] /\ delayed' = {}
     ELSE running = {} /\ UNCHANGED <<list, delayed>>
  /\ UNCHANGED <<tracingVars, kind, seen, inFlight, running, reports, request, crashes, origin, ended>>

(* The process is lost, also by an onFailed that throws, which nothing      *)
(* catches.  Memory loses its work; Redis hands what was active out again.  *)
Crash ==
  /\ up # "closed" /\ crashes < MaxCrashes /\ crashes' = crashes + 1
  /\ up' = "starting"
  /\ LET again(q) == SetToSeq({Delivery(d.msg, d.attempt, d.trace) : d \in {d \in running : QueueOf[d.msg] = q}})
     IN  list' = [q \in Queues |-> IF kind = "memory" THEN <<>> ELSE again(q) \o list[q]]
  /\ IF kind = "memory" THEN delayed' = {} /\ seen' = {} ELSE UNCHANGED <<delayed, seen>>
  /\ inFlight' = [q \in Queues |-> 0] /\ running' = {} /\ reports' = {}
  /\ LoseSpans
  /\ UNCHANGED <<kind, request, origin, ended>>

------------------------------------------------------------------------------
WorkerStep ==
  \/ Subscribe
  \/ \E d \in running : Receive(d) \/ Hand(d) \/ Succeed(d) \/ Throw(d) \/ Report(d)
  \/ \E r \in reports : ReportEvent(r)
  \/ \E d \in delayed : Due(d)

TracingStep == TimerFires /\ UNCHANGED driverVars

DriverNext ==
  \/ \E m \in ByRequest : Request(m) \/ Submit(m) \/ Respond(m)
  \/ WorkerStep \/ TracingStep
  \/ Stop \/ Close \/ Crash

(* The event loop runs what is ready and fires timers; a handler ends.      *)
DriverFairness == WF_queueVars(WorkerStep)

DriverSpec == DriverInit /\ [][DriverNext]_queueVars /\ DriverFairness

------------------------------------------------------------------------------
Deliveries(m) ==
  LET waiting == list[QueueOf[m]]
  IN  Cardinality({i \in DOMAIN waiting : waiting[i].msg = m})
        + Cardinality({d \in delayed \cup running : d.msg = m})

\* Whatever is enqueued twice, retried or handed out again after a crash, a
\* message has one delivery at most, none once its handler has succeeded, and
\* with the in-memory driver none once it was reported as failed.
OneDelivery ==
  \A m \in Messages :
    /\ Deliveries(m) <= 1
    /\ "done" \in ended[m] \/ (kind = "memory" /\ "failed" \in ended[m]) => Deliveries(m) = 0

\* The work of a message is traced under the span that enqueued it, with its
\* sampling decision: in another process, from a retry timer and after a crash.
TraceFollowsWork ==
  \A i \in DOMAIN spans : i[1] = "consumer" =>
    LET cause == origin[i[2]][1]
    IN  /\ spans[i].parent = cause.span
        /\ spans[i].context.trace = cause.trace /\ spans[i].context.sampled = cause.sampled

\* What an enqueue accepted is handled or reported as failed, unless the process
\* is shut down, the in-memory driver was lost with it, or a crash came between
\* BullMQ's last attempt and the listener.
Unheard(m) == crashes > 0 /\ Deliveries(m) = 0 /\ \A r \in reports : r.msg # m

EveryMessageEnds ==
  \A m \in Messages :
    (m \in seen) ~> (ended[m] # {} \/ up \in {"stopping", "closed"} \/ m \notin seen \/ Unheard(m))
==============================================================================
