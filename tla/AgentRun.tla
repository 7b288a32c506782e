------------------------------ MODULE AgentRun ------------------------------
(***************************************************************************)
(* One agent at work on one job (packages/agent-runtime: agent.ts, the      *)
(* tools, the evidence collector), reading the data network through its     *)
(* slots.  The tool calls of one turn run concurrently; a run's evidence is *)
(* a sequence of rows, and a ref is a position in it, counted from 0.       *)
(***************************************************************************)
EXTENDS ReppoAdapter

(***************************************************************************)
(* The LLM providers (packages/agent-runtime/src/llm): what each makes of   *)
(* the answer of its API.  The answer is abstracted to what the adapters    *)
(* tell apart: the final one is the JSON that was asked for, that JSON      *)
(* inside a fence, prose, a refusal, nothing, or an error.                  *)
(***************************************************************************)
VendorNames == {"anthropic", "openai", "gemini", "mock"}
Finals == {"json", "fenced", "prose", "refusal", "empty", "fault"}

(* What runAgent sees of an answer: the structured value (absent when the   *)
(* adapter leaves it null), the text, or an error.                          *)
Raised == [structured |-> "none", text |-> "none", error |-> TRUE]
Reply(structured, text) == [structured |-> structured, text |-> text, error |-> FALSE]

(* parsed_output is null unless the text is the JSON; a refusal is thrown.  *)
AnthropicFinal(a) ==
  IF a \in {"refusal", "fault"} THEN Raised
  ELSE Reply(IF a = "json" THEN "valid" ELSE "absent", a)

(* safeParse makes {} of whatever does not parse, so the text is never      *)
(* looked at again; a completion without a choice is thrown.                *)
OpenAIFinal(a) ==
  IF a \in {"empty", "fault"} THEN Raised
  ELSE Reply(IF a = "json" THEN "valid" ELSE "emptyObject", a)

(* safeParse of this adapter answers null.                                  *)
GeminiFinal(a) ==
  IF a = "fault" THEN Raised
  ELSE Reply(IF a = "json" THEN "valid" ELSE "absent", a)

MockFinal(a) == Reply("valid", "empty")

Final(v, a) ==
  CASE v = "anthropic" -> AnthropicFinal(a)
    [] v = "openai" -> OpenAIFinal(a)
    [] v = "gemini" -> GeminiFinal(a)
    [] v = "mock" -> MockFinal(a)

(***************************************************************************)
(* The deterministic provider: what its claims cite, as places among the    *)
(* rows that the tools returned.                                            *)
(***************************************************************************)
Strong == 65
Weak == 45

FirstOf(places, n) == {places[i] : i \in 1 .. (IF Len(places) < n THEN Len(places) ELSE n)}
LastOf(places, n) == {places[i] : i \in {j \in DOMAIN places : j > Len(places) - n}}

(* collectEvidence numbers the rows in the order of the messages.           *)
CollectEvidence(rows) == [i \in DOMAIN rows |-> [place |-> i - 1, quality |-> rows[i].quality]]

(* The corpus, its sentiment, its top item, a stance and its opposite, the  *)
(* strong, the recent and the persona's claim.  Which of them are drawn is  *)
(* seeded by the prompt; which rows are recent is a matter of the clock.    *)
Synthesize(rows) ==
  LET all == CollectEvidence(rows)
      places(found) == [i \in DOMAIN found |-> found[i].place]
      ranked == places(ByQuality(all))
      strong == places(Only(all, {e \in ToSet(all) : e.quality >= Strong}))
      weak == places(Only(all, {e \in ToSet(all) : e.quality < Weak}))
  IN  IF rows = <<>> THEN {{}}
      ELSE {FirstOf(ranked, n) : n \in 1 .. 5} \cup {FirstOf(strong, 3)}
             \cup {IF weak # <<>> THEN FirstOf(weak, 2) ELSE LastOf(ranked, 2)}
             \cup {recent \in SUBSET {e.place : e \in {all[i] : i \in DOMAIN all}} : Cardinality(recent) <= 3}

(* parseLoose: a fenced block or the outermost braces.                      *)
ParseLoose(text) == IF text \in {"json", "fenced"} THEN "valid" ELSE "absent"

(* final.structured ?? parseLoose(final.text), held against the schema.     *)
Satisfies(reply) ==
  (IF reply.structured = "absent" THEN ParseLoose(reply.text) ELSE reply.structured) = "valid"

(***************************************************************************)
(* The run                                                                  *)
(***************************************************************************)

CONSTANTS
  MaxSteps,      \* turns of gathering (4)
  Registered,    \* tools of the registry; http_get only with an allowlist
  Nets,          \* datanets a model can name
  Scopes,        \* datanets that jobs are restricted to, empty for none
  Toolsets,      \* tools that agents declare
  WebPage        \* the document that http_get finds

ASSUME AgentAssumption ==
  /\ MaxSteps \in Nat /\ Nets \subseteq Named /\ Scopes \subseteq Seq(Named)
  /\ \A tools \in Toolsets : tools \in Seq(ToSet(tools))
  /\ WebPage.net = Anywhere /\ WebPage.quality \in Int

VARIABLES
  run,        \* where the run is
  evidence,   \* EvidenceCollector.rows
  shown,      \* what the tools have told the model: ref, item, and for the mock its place
  tool        \* the tool call of each slot

agentVars == <<provider, credential, cache, faults, call, run, evidence, shown, tool>>

NoTool == [pc |-> "none", name |-> "none"]
NoClaim == [cited |-> {}, evidence |-> {}]

Started(vendor, scope, tools) ==
  [pc |-> "begin", step |-> 0, vendor |-> vendor, scope |-> scope, tools |-> tools,
   aborted |-> FALSE, claim |-> NoClaim]

AgentInit ==
  /\ ReppoInit /\ call = [s \in Slots |-> NoCall]
  /\ \E v \in VendorNames, scope \in Scopes, tools \in Toolsets : run = Started(v, scope, tools)
  /\ evidence = <<>> /\ shown = {} /\ tool = [s \in Slots |-> NoTool]

(* The routes of the API that read the data network, without an agent.      *)
LookupInit ==
  /\ ReppoInit
  /\ \E q \in [Slots -> Lookups] : call = [s \in Slots |-> Called(q[s].kind, q[s].arg, <<>>)]
  /\ run = [Started("mock", <<>>, <<>>) EXCEPT !.pc = "completed"]
  /\ evidence = <<>> /\ shown = {} /\ tool = [s \in Slots |-> NoTool]

At(pc) == run.pc = pc
Go(pc) == run' = [run EXCEPT !.pc = pc]

(* ToolRegistry.select: the declared tools that are registered.             *)
Select(tools) == Only(tools, Registered)
Has(t) == \E i \in DOMAIN run.tools : run.tools[i] = t

Begin ==
  /\ At("begin")
  /\ run' = [run EXCEPT !.tools = Select(@), !.pc = IF Select(run.tools) = <<>> THEN "failed" ELSE "loop"]
  /\ UNCHANGED <<reppoVars, evidence, shown, tool>>

(* The job's deadline: the signal is looked at between turns, and aborts an *)
(* http_get under way.                                                      *)
Abort ==
  /\ ~run.aborted /\ run.pc \in {"loop", "model", "tools", "final"}
  /\ run' = [run EXCEPT !.aborted = TRUE]
  /\ UNCHANGED <<reppoVars, evidence, shown, tool>>

LoopHead ==
  /\ At("loop")
  /\ IF run.step = MaxSteps THEN Go("final") ELSE IF run.aborted THEN Go("failed") ELSE Go("model")
  /\ UNCHANGED <<reppoVars, evidence, shown, tool>>

(***************************************************************************)
(* A turn of the model: no call, or a call in some of the slots.            *)
(***************************************************************************)
Nets1 == Nets \cup {Anywhere}
Requests ==
  [name : {"reppo_list_datanets", "compute_evidence_stats", "http_get", "unknown"}, net : {Anywhere}]
    \cup [name : {"reppo_search_data"}, net : Nets1] \cup [name : {"reppo_get_datanet_data"}, net : Nets]

(* The tool that the mock asks for: a search, or its first tool, until      *)
(* there is evidence.                                                       *)
MockRequest ==
  IF Has("reppo_search_data") \/ run.tools[1] = "reppo_search_data"
  THEN [name |-> "reppo_search_data", net |-> Anywhere]
  ELSE [name |-> run.tools[1], net |-> Anywhere]

Requested(q) ==
  [s \in Slots |-> IF s \in DOMAIN q THEN [pc |-> "asked", name |-> q[s].name, net |-> q[s].net] ELSE NoTool]

ModelTurn ==
  /\ At("model")
  /\ \/ run.vendor # "mock" /\ Go("failed") /\ UNCHANGED tool
     \/ (run.vendor = "mock" => shown # {}) /\ Go("final") /\ UNCHANGED tool
     \/ /\ run.vendor = "mock" /\ shown = {}
        /\ LET s == CHOOSE s \in Slots : TRUE IN tool' = Requested([x \in {s} |-> MockRequest])
        /\ Go("tools")
     \/ /\ run.vendor # "mock"
        /\ \E some \in SUBSET Slots \ {{}} : \E q \in [some -> Requests] : tool' = Requested(q)
        /\ Go("tools")
  /\ UNCHANGED <<reppoVars, evidence, shown>>

(***************************************************************************)
(* Tools.                                                                   *)
(***************************************************************************)
InScope(net) == run.scope = <<>> \/ \E i \in DOMAIN run.scope : run.scope[i] = net

(* Mutant: what the model names wins over the scope of the job.             *)
SearchedModelFirst(net) ==
  IF net # Anywhere THEN Called("scoped", Anywhere, <<net>>)
  ELSE IF run.scope # <<>> THEN Called("scoped", Anywhere, run.scope)
  ELSE Called("search", Anywhere, <<>>)

(* reppo_search_data: the scope of the job wins over what the model names.  *)
Searched(net) ==
  IF run.scope # <<>> THEN Called("scoped", Anywhere, run.scope)
  ELSE IF net # Anywhere THEN Called("scoped", Anywhere, <<net>>)
  ELSE Called("search", Anywhere, <<>>)

Asks(s, name) == tool[s].pc = "asked" /\ tool[s].name = name

CallData(s) ==
  /\ Has(tool[s].name)
  /\ \/ Asks(s, "reppo_search_data") /\ call' = [call EXCEPT ![s] = Searched(tool[s].net)]
     \/ /\ Asks(s, "reppo_get_datanet_data") /\ InScope(tool[s].net)
        /\ call' = [call EXCEPT ![s] = Called("data", tool[s].net, <<>>)]
     \/ Asks(s, "reppo_list_datanets") /\ call' = [call EXCEPT ![s] = Called("datanets", Anywhere, <<>>)]
  /\ tool' = [tool EXCEPT ![s].pc = "reading"]
  /\ UNCHANGED <<provider, credential, cache, faults, run, evidence, shown>>

(* A tool that ends where it starts: one the agent does not have, a datanet *)
(* out of scope, a url that is refused, statistics with or without rows.    *)
Immediate(s) ==
  /\ tool[s].pc = "asked"
  /\ \/ ~Has(tool[s].name)
     \/ tool[s].name \in {"compute_evidence_stats", "http_get"}
     \/ tool[s].name = "reppo_get_datanet_data" /\ ~InScope(tool[s].net)
  /\ tool' = [tool EXCEPT ![s].pc = "ended"]
  /\ UNCHANGED <<reppoVars, run, evidence, shown>>

(* EvidenceCollector.record over the rows of one answer, which are recorded *)
(* together: a row that is there keeps its index; refs is what the model is *)
(* told of them.                                                            *)
IndexOf(rows, item) == {i \in DOMAIN rows : rows[i].id = item.id}
Added(rows, items) == rows \o DedupeById(Only(items, {x \in ToSet(items) : IndexOf(rows, x) = {}}))

(* Mutant: the index of a row is where the rows end.                        *)
RecordAtEnd(rows, items) ==
  [rows |-> Added(rows, items), refs |-> [i \in DOMAIN items |-> Len(rows) + i - 1]]

Record(rows, items) ==
  LET all == Added(rows, items)
  IN  [rows |-> all, refs |-> [i \in DOMAIN items |-> (CHOOSE j \in IndexOf(all, items[i]) : TRUE) - 1]]

(* collectEvidence of the mock counts the rows that it was shown.           *)
Note(items, refs) ==
  shown' = shown \cup {[ref |-> refs[i], item |-> items[i],
                        place |-> IF run.vendor = "mock" THEN Cardinality(shown) + i - 1 ELSE 0] : i \in DOMAIN items}

(* The answer of the data network: an error is told to the model, rows are  *)
(* recorded.  A listing of datanets is narrowed to the scope, and is no     *)
(* evidence.                                                                *)
DataEnds(s) ==
  /\ tool[s].pc = "reading" /\ call[s].pc = "settled"
  /\ LET r == Record(evidence, call[s].rows)
         citable == call[s].from # "error" /\ tool[s].name # "reppo_list_datanets"
     IN  IF citable THEN evidence' = r.rows /\ Note(call[s].rows, r.refs)
         ELSE UNCHANGED <<evidence, shown>>
  /\ tool' = [tool EXCEPT ![s].pc = "ended"]
  /\ call' = [call EXCEPT ![s] = NoCall]
  /\ UNCHANGED <<provider, credential, cache, faults, run>>

(* http_get of a url that is permitted: its timeout, the signal, or a 4xx   *)
(* end it without a row.                                                    *)
FetchEnds(s) ==
  /\ Asks(s, "http_get") /\ Has("http_get")
  /\ LET r == Record(evidence, <<WebPage>>)
     IN  ~run.aborted /\ evidence' = r.rows /\ Note(<<WebPage>>, r.refs)
  /\ tool' = [tool EXCEPT ![s].pc = "ended"]
  /\ UNCHANGED <<reppoVars, run>>

TurnEnds ==
  /\ At("tools") /\ \A s \in Slots : tool[s].pc \in {"none", "ended"}
  /\ run' = [run EXCEPT !.pc = "loop", !.step = @ + 1]
  /\ tool' = [s \in Slots |-> NoTool]
  /\ UNCHANGED <<reppoVars, evidence, shown>>

(***************************************************************************)
(* The structured answer.                                                   *)
(***************************************************************************)
IdsOf(rows) == {r.id : r \in rows}

(* EvidenceCollector.resolve drops a ref that no row has.                   *)
Resolve(refs) == {evidence[i] : i \in {j \in DOMAIN evidence : j - 1 \in refs}}

(* What a claim can cite, and the rows it is about: a model goes by the ref *)
(* that it was told, the mock by the place of the row.                      *)
Cites(r) == {n.item : n \in {x \in shown : (IF run.vendor = "mock" THEN x.place ELSE x.ref) = r}}

Conclude(refs) ==
  run' = [run EXCEPT !.pc = "completed",
                     !.claim = [cited |-> UNION {Cites(r) : r \in refs}, evidence |-> Resolve(refs)]]

MockRows == [i \in 1 .. Cardinality(shown) |-> (CHOOSE n \in shown : n.place = i - 1).item]

(* Bound: one claim; that of a model has two refs, at most one made up.     *)
Answer ==
  /\ At("final")
  /\ \E a \in Finals :
       LET reply == Final(run.vendor, a) IN
       IF reply.error \/ ~Satisfies(reply) THEN Go("failed")
       ELSE IF run.vendor = "mock" THEN \E refs \in Synthesize(MockRows) : Conclude(refs)
       ELSE \E x, y \in 0 .. Len(evidence) : Conclude({x, y})
  /\ UNCHANGED <<reppoVars, evidence, shown, tool>>

(***************************************************************************)
(* Specification.                                                           *)
(***************************************************************************)
Network == \E s \in Slots : (\E i \in DOMAIN call[s].branches : Read(s, i)) \/ Settle(s)

RunStep ==
  \/ Begin \/ LoopHead \/ ModelTurn \/ TurnEnds \/ Answer
  \/ \E s \in Slots : CallData(s) \/ Immediate(s) \/ DataEnds(s) \/ FetchEnds(s)

AgentNext ==
  \/ RunStep \/ Abort
  \/ (Network \/ \E path \in cache : Expire(path)) /\ UNCHANGED <<run, evidence, shown, tool>>

AgentSpec == (AgentInit \/ LookupInit) /\ [][AgentNext]_agentVars

(***************************************************************************)
(* Properties.                                                              *)
(***************************************************************************)

(* What a claim is linked to is what its author was shown under the refs it *)
(* cites, whichever order the tools of a turn answered in and however often *)
(* a row came back, with votes that may have moved on (EvidenceCollector,   *)
(* evidence.ts:31; mock.ts collects places instead of refs).                *)
ClaimsCiteWhatWasRead == IdsOf(run.claim.evidence) = IdsOf(run.claim.cited)

(* The evidence of a job that is restricted to datanets comes from one of   *)
(* them, or from a pod that names none, whatever the model asks for,        *)
(* whatever upstream sends back and wherever the rows come from.            *)
EvidenceInScope ==
  run.scope # <<>> =>
    \A i \in DOMAIN evidence : evidence[i].net = Anywhere \/ InScope(evidence[i].net)

=============================================================================
