------------------------------ MODULE ApiClient ------------------------------
(***************************************************************************)
(* The SDK (packages/sdk) in front of the gateway: request() with its abort *)
(* timer, the single calls, and runJob, which submits a job and polls it    *)
(* until its deadline.  A request that the client gave up is still served.  *)
(***************************************************************************)
EXTENDS Gateway

VARIABLE client   \* what each caller runs, where it is, and what came of it

apiVars == <<users, config, cache, since, rows, req, client>>

(* The routes that name a job or an automation.                             *)
ById == {"get", "intelligence", "explain", "automation", "positions", "manage", "evaluate", "agent"}

Calls == ById \cup {"health", "list", "stats", "datanets", "agents", "automations", "deploy", "register"}

Start(program, cred) ==
  [program |-> program, cred |-> cred, pc |-> "start", job |-> Nobody, outcome |-> "none", report |-> {}]

Done(c, outcome, shown) ==
  client' = [client EXCEPT ![c].pc = "done", ![c].outcome = outcome, ![c].report = shown]

Send(c, route, about, pc) ==
  /\ req' = [req EXCEPT ![c] = [NoRequest EXCEPT !.pc = "arrived", !.route = route, !.about = about,
                                                 !.cred = client[c].cred]]
  /\ client' = [client EXCEPT ![c].pc = pc]

Ask(c) ==
  /\ client[c].pc = "start" /\ client[c].program \in Calls
  /\ \E r \in IF client[c].program \in ById THEN Rows ELSE {Nobody} :
       Send(c, client[c].program, r, "waiting")

Submit(c) ==
  /\ client[c].pc = "start" /\ client[c].program = "run"
  /\ Send(c, "create", Nobody, "creating")

(* while (Date.now() < deadline): the deadline is looked at between polls.  *)
Poll(c) ==
  /\ client[c].pc = "polling"
  /\ Send(c, "get", client[c].job, "asking")

(* Mutant: while (true).                                                    *)
GiveUpNever(c) == client[c].pc = "polling" /\ FALSE /\ UNCHANGED <<client, req>>

GiveUp(c) ==
  /\ client[c].pc = "polling"
  /\ Done(c, "timeout", {}) /\ UNCHANGED req

Waits == {"waiting", "creating", "asking", "reading"}
Accepted(c) == req[c].code \in {200, 201}
Dropped(c) == req' = [req EXCEPT ![c] = NoRequest]

(* The answer arrives: everything but a 2xx is thrown, a job that failed is *)
(* thrown too, and a resolved one is asked for its report.                  *)
Receive(c) ==
  /\ client[c].pc \in Waits /\ req[c].pc = "answered"
  /\ \/ ~Accepted(c) /\ Done(c, "refused", {}) /\ Dropped(c)
     \/ Accepted(c) /\ client[c].pc = "waiting" /\ Done(c, "answer", {}) /\ Dropped(c)
     \/ Accepted(c) /\ client[c].pc = "reading" /\ Done(c, "report", req[c].shown) /\ Dropped(c)
     \/ /\ Accepted(c) /\ client[c].pc = "creating" /\ Dropped(c)
        /\ \E r \in req[c].shown : client' = [client EXCEPT ![c].pc = "polling", ![c].job = r]
     \/ /\ Accepted(c) /\ client[c].pc = "asking"
        /\ CASE req[c].status = "RESOLVED" -> Send(c, "intelligence", client[c].job, "reading")
             [] req[c].status = "FAILED" -> Done(c, "failed", {}) /\ Dropped(c)
             [] OTHER -> client' = [client EXCEPT ![c].pc = "polling"] /\ Dropped(c)

(* The abort timer of request() fires, or the connection is lost: the call  *)
(* throws, and what was sent goes on at the gateway, for nobody.            *)
Abort(c) ==
  /\ client[c].pc \in Waits
  /\ Done(c, "timeout", {}) /\ UNCHANGED req

Unheard(c) == client[c].pc = "done" /\ req[c].pc = "answered" /\ Dropped(c) /\ UNCHANGED client

ClientStep(c) ==
  /\ Ask(c) \/ Submit(c) \/ Poll(c) \/ GiveUp(c) \/ Receive(c) \/ Abort(c) \/ Unheard(c)
  /\ UNCHANGED <<users, config, cache, since, rows>>

ApiNext ==
  \/ \E c \in Callers : ClientStep(c) \/ (Serve(c) /\ UNCHANGED client)
  \/ Surroundings /\ UNCHANGED client

(* The client takes its steps, its abort timer fires, and a loop that comes *)
(* back to its deadline check for ever finds the deadline passed: time goes *)
(* by in every poll.  Nothing is assumed of the gateway.                    *)
ApiFairness ==
  \A c \in Callers :
    /\ WF_apiVars((Ask(c) \/ Submit(c)) /\ UNCHANGED <<users, config, cache, since, rows>>)
    /\ WF_apiVars(Poll(c) /\ UNCHANGED <<users, config, cache, since, rows>>)
    /\ WF_apiVars(Abort(c) /\ UNCHANGED <<users, config, cache, since, rows>>)
    /\ SF_apiVars(GiveUp(c) /\ UNCHANGED <<users, config, cache, since, rows>>)

(***************************************************************************)
(* Properties.                                                              *)
(***************************************************************************)

(* A key that was rotated, or a token that expired, gives an identity no    *)
(* longer than the life of a cache entry after the last lookup that still   *)
(* found it: hits do not prolong the entry (PrincipalCache, auth.ts:177).   *)
RevocationBounded ==
  \A c \in Callers : req[c].age <= TTL + MaxLookup

(* A person whom the gateway already has an account for signs in to that    *)
(* account whichever wallet the token names, and whoever else is signing    *)
(* in or moving that wallet meanwhile (prismaWalletLookup, auth.ts:66).  It *)
(* holds as long as no two persons claim one account at once: a claim is an *)
(* update by id, of an account that was read as nobody's (auth.ts:84).      *)
StableIdentity ==
  \A c \in Callers :
    req[c].pc \in {"paywall", "handler", "answered"} /\ req[c].known # Nobody
      => req[c].principal.account \in {req[c].known, Nobody}

(* Every call of the client comes back, with an answer or an error, even    *)
(* from a gateway that never answers and a job that never ends.             *)
RunJobEnds ==
  \A c \in Callers : <>(client[c].pc = "done")

=============================================================================
