------------------------------- MODULE Tracing -------------------------------
(***************************************************************************)
(* packages/tracing: spans, the ambient context that they form, its form on *)
(* the wire, and the exporters.  Ids are random and taken to be fresh: a    *)
(* span's is what it is of, a trace's the span it began with, or what a     *)
(* caller's header brought.  Names, times and attributes are left out.      *)
(***************************************************************************)
EXTENDS Integers, Sequences, FiniteSets, Bags, Functions

CONSTANTS
  BatchSize,     \* spans buffered before a flush is triggered
  SampleRates,   \* of "never", "some" and "always": fractions of root traces recorded
  Headers,       \* traceparent headers that callers send
  Environments   \* what TRACING_EXPORTER asks for, and whether an endpoint is set

VARIABLES
  exporter,      \* [name, rate]: how the process was configured
  spans,         \* by id, the spans started in the process
  buffer,        \* OtlpHttpExporter.buffer, in no order
  timer,         \* its timer: "unset", "armed", or "spent" when it has fired
  sends          \* spans that flush has handed to fetch

tracingVars == <<exporter, spans, buffer, timer, sends>>

(* createTracer: otlp needs an endpoint, which alone is enough.             *)
CreateTracer(requested, endpoint) ==
  LET kind == IF requested # "" THEN requested ELSE IF endpoint THEN "otlp" ELSE "none"
  IN  IF kind = "otlp" /\ endpoint THEN "otlp" ELSE IF kind = "console" THEN "console" ELSE "none"

TracingInit ==
  /\ \E e \in Environments, rate \in SampleRates :
       exporter = [name |-> CreateTracer(e.requested, e.endpoint), rate |-> rate]
  /\ spans = <<>> /\ buffer = EmptyBag /\ timer = "unset" /\ sends = EmptyBag

------------------------------------------------------------------------------
(* Contexts and headers.                                                    *)
NoId == <<>>
NoContext == [trace |-> NoId, span |-> NoId, sampled |-> FALSE]
NoHeader == [version |-> 0, trace |-> NoId, span |-> NoId, flags |-> 0]

Zeros == << "0" >>

(* Version 00 only, no id of zeros, and the lowest bit of the flags.        *)
ParseTraceparent(h) ==
  IF h = NoHeader \/ h.version # 0 \/ Zeros \in {h.trace, h.span} THEN NoContext
  ELSE [trace |-> h.trace, span |-> h.span, sampled |-> h.flags % 2 = 1]

FormatTraceparent(c) ==
  [version |-> 0, trace |-> c.trace, span |-> c.span, flags |-> IF c.sampled THEN 1 ELSE 0]

(* currentTraceparent, given the ambient context.                           *)
CurrentTraceparent(c) == IF c = NoContext THEN NoHeader ELSE FormatTraceparent(c)

(* withContext runs in the context that is given, or else in the ambient.   *)
WithContext(c, ambient) == IF c = NoContext THEN ambient ELSE c

------------------------------------------------------------------------------
(* Inherited, and decided only for a root.                                  *)
Sampled(parent) ==
  IF parent # NoContext THEN {parent.sampled}
  ELSE CASE exporter.rate = "never" -> {FALSE} [] exporter.rate = "always" -> {TRUE} [] OTHER -> BOOLEAN

(* startSpan under a parent.                                                *)
StartSpan(id, parent) ==
  \E sampled \in Sampled(parent) :
    spans' = [i \in DOMAIN spans \cup {id} |->
                IF i # id THEN spans[i]
                ELSE [context |-> [trace |-> IF parent = NoContext THEN id ELSE parent.trace,
                                   span |-> id, sampled |-> sampled],
                      parent |-> parent.span, open |-> TRUE]]

(* buffer.length: with every copy.                                          *)
Size(bag) == SumFunctionOnSet(bag, DOMAIN bag)

(* Mutant: a flush leaves the field of its timer set.                       *)
SendKeepsTimer(batch) == timer' = "spent" /\ buffer' = EmptyBag /\ sends' = sends (+) batch

(* flush: the timer is cleared, the buffer swapped, and the batch handed    *)
(* over.  Nothing waits for the collector's answer, and a send that fails   *)
(* is reported and dropped.                                                 *)
Send(batch) == timer' = "unset" /\ buffer' = EmptyBag /\ sends' = sends (+) batch

Flush == IF buffer = EmptyBag THEN timer' = "unset" /\ UNCHANGED <<buffer, sends>> ELSE Send(buffer)

Export(i) ==
  IF exporter.name # "otlp" \/ ~spans[i].context.sampled THEN UNCHANGED <<buffer, timer, sends>>
  ELSE IF Size(buffer) + 1 >= BatchSize THEN Send(buffer (+) SetToBag({i}))
  ELSE /\ buffer' = buffer (+) SetToBag({i})
       /\ timer' = IF timer = "unset" THEN "armed" ELSE timer
       /\ UNCHANGED sends

(* span.end: the first one exports, any other does nothing.                 *)
EndSpan(i) ==
  /\ UNCHANGED exporter
  /\ IF spans[i].open
     THEN spans' = [spans EXCEPT ![i].open = FALSE] /\ Export(i)
     ELSE UNCHANGED <<spans, buffer, timer, sends>>

TimerFires ==
  /\ timer = "armed"
  /\ Flush
  /\ UNCHANGED <<exporter, spans>>

(* The process is lost, and with it what was not sent.                      *)
LoseSpans ==
  /\ spans' = <<>> /\ buffer' = EmptyBag /\ timer' = "unset" /\ sends' = EmptyBag
  /\ UNCHANGED exporter

------------------------------------------------------------------------------
RecordedSpans == {i \in DOMAIN spans : exporter.name = "otlp" /\ spans[i].context.sampled /\ ~spans[i].open}

\* A recorded span that has ended is in the buffer or was handed over, once, and
\* a buffer that holds any has a timer that will empty it: a span is neither
\* lost, sent twice nor left waiting for the next one.
NoSpanStranded ==
  /\ buffer (+) sends = SetToBag(RecordedSpans)
  /\ buffer # EmptyBag => timer = "armed" /\ Size(buffer) < BatchSize
==============================================================================
