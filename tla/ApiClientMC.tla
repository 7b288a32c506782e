----------------------------- MODULE ApiClientMC -----------------------------
(***************************************************************************)
(* Two callers of one gateway.  Account u1 holds a key, a DID and a wallet, *)
(* u2 only a wallet, u3 is still to be created.  Token same is u1's, moved  *)
(* is u1's person with u2's wallet, fresh u1's person with an unknown one,  *)
(* claim the first person to prove u2's wallet, new an unknown person.      *)
(***************************************************************************)
EXTENDS WebApp

MCAccounts == {"u1", "u2", "u3"}
MCTokens == {"same", "moved", "fresh", "claim", "new"}
MCDidOf == [t \in MCTokens |-> CASE t \in {"same", "moved", "fresh"} -> "d1" [] t = "claim" -> "d2" [] OTHER -> "d3"]
MCWalletOf == [t \in MCTokens |-> CASE t = "same" -> "w1" [] t \in {"moved", "claim"} -> "w2"
                                    [] t = "fresh" -> "w3" [] OTHER -> "w4"]

UsersInit ==
  users = [a \in Accounts |->
    CASE a = "u1" -> [live |-> TRUE, key |-> "k1", did |-> "d1", wallet |-> "w1"]
      [] a = "u2" -> [live |-> TRUE, key |-> Nobody, did |-> Nobody, wallet |-> "w2"]
      [] OTHER -> NoUser]

(* What the two callers run, so that every route, credential and race of    *)
(* two sign-ins is met: a call and its credential each, and the environment *)
(* of the gateway.  Where one caller is enough, the other is gone.          *)
Everything == {"API_KEYS", "X402_ENABLED", "X402_*", "PRIVY_APP_ID", "PRIVY_APP_SECRET"}

Scenarios == [env : {Everything}, calls : {
    << <<"run", "k1">>, <<"health", NoCred>> >>,      << <<"list", "k1">>, <<"get", "k2">> >>,
    << <<"run", NoCred>>, <<"intelligence", "k1">> >>, << <<"run", Root>>, <<"stats", Junk>> >>,
    << <<"deploy", "fresh">>, <<"automations", Root>> >>, << <<"manage", "k1">>, <<"gone", NoCred>> >>,
    << <<"deploy", "new">>, <<"deploy", "new">> >>,   << <<"automations", "claim">>, <<"automations", "moved">> >>,
    << <<"register", "k1">>, <<"register", Root>> >>, << <<"register", "k1">>, <<"agent", Root>> >>,
    << <<"evaluate", Root>>, <<"positions", "k1">> >>, << <<"evaluate", "k1">>, <<"evaluate", Root>> >>,
    << <<"explain", Root>>, <<"datanets", Root>> >>, << <<"automation", Root>>, <<"agents", Root>> >>}]
  \cup [env : {{}, {"API_KEYS"}, {"API_KEYS", "PRIVY_APP_ID"}, {"X402_ENABLED"}},
        calls : {<< <<"deploy", Root>>, <<"list", Junk>> >>}]
  \cup [env : {Everything}, calls : {
    << <<"book", "claim">>, <<"gone", NoCred>> >>, << <<"card", "same">>, <<"gone", NoCred>> >>,
    << <<"createForm", NoCred>>, <<"jobpage", NoCred>> >>}]
  \cup [env : {Everything \ {"X402_ENABLED"}}, calls : {
    << <<"deployForm", "same">>, <<"gone", NoCred>> >>, << <<"playground", NoCred>>, <<"gone", NoCred>> >>,
    << <<"dashboard", NoCred>>, <<"registry", NoCred>> >>, << <<"corpus", NoCred>>, <<"gone", NoCred>> >>}]

(* A call of the web app is of a browser with that cookie.  The app holds a *)
(* root key, so that its own key sees every row, and the pages of the       *)
(* automations are opened when u1 has one.  There is always a row of        *)
(* another tenant: u2's job that failed after its consensus, or, where jobs *)
(* are evaluated, u2's automation and nobody's resolved job.                *)
JobOf(a, status) == [NoRow EXCEPT !.kind = "job", !.owner = a, !.status = status, !.consensus = TRUE]
AutomationOf(a) == [NoRow EXCEPT !.kind = "automation", !.owner = a]

\* A caller who has had the answer.
Gone == [Start("health", NoCred) EXCEPT !.pc = "done", !.outcome = "answer"]

RowsAtStart(program) ==
  IF program \in {"manage", "evaluate"}
  THEN [r1 |-> AutomationOf("u1"), r2 |-> JobOf(Nobody, "RESOLVED"), r3 |-> AutomationOf("u2")]
  ELSE [r1 |-> IF program \in OwnPages THEN AutomationOf("u1") ELSE NoRow, r2 |-> NoRow, r3 |-> JobOf("u2", "FAILED")]

MCInit ==
  /\ GatewayInit /\ UsersInit
  /\ page = [c \in Callers |-> Blank]
  /\ \E s \in Scenarios, on \in BOOLEAN :
       /\ Starts(s.env) /\ config = Configured(s.env)
       /\ on \/ \E c \in Callers : s.calls[c][1] \in OfViewer
       /\ site = [automation |-> on, wallet |-> config.wallet, key |-> Root]
       /\ rows = RowsAtStart(s.calls[1][1])
       /\ client = [c \in Callers |-> IF s.calls[c][1] = "gone" THEN Gone ELSE Start(s.calls[c][1], s.calls[c][2])]
       /\ viewer = [c \in Callers |-> [token |-> IF s.calls[c][1] \in WebPrograms THEN s.calls[c][2] ELSE NoCred,
                                       moves |-> 0]]
  /\ WebInit

MCSpec == MCInit /\ [][WebNext]_webVars /\ ApiFairness /\ WebFairness

=============================================================================
