-------------------------------- MODULE WebApp --------------------------------
(***************************************************************************)
(* The web app (apps/web) as a client of the gateway.  Its server renders   *)
(* the pages and runs the server actions, for the identity token in the     *)
(* viewer's cookie when the program is about automations and there is one,  *)
(* with the app's own key otherwise.  A page that a browser keeps open is   *)
(* acted on later, when the cookie may be another person's.                 *)
(***************************************************************************)
EXTENDS ApiClient

CONSTANTS
  Cookies,      \* the tokens of those who connect at a browser
  MaxSwitches   \* bound: how often the cookie of one browser changes

ASSUME WebAppAssumption == Cookies \subseteq Tokens /\ MaxSwitches \in Nat

VARIABLES
  site,     \* how the app was deployed: feature gate, wallet login, its key
  viewer,   \* the cookie averis_pid of each browser
  page      \* of each browser's page: what it still fetches, for whom it was rendered

webVars == <<users, config, cache, since, rows, req, client, site, viewer, page>>

(* What a page asks besides, once its first request is answered.  Reads     *)
(* that the code awaits together are taken one by one, in any order.        *)
Rest(program, status) ==
  CASE program = "card" -> {"positions", "list"}
    [] program = "jobpage" /\ status = "RESOLVED" -> {"intelligence", "explain"}
    [] program = "dashboard" -> {"stats"}
    [] OTHER -> {}

(* What the playground lists: no route of the automations.                  *)
Catalogue == {"health", "stats", "datanets", "create", "list", "get", "intelligence", "explain",
              "agents", "agent", "register"}

OwnPages == {"book", "card"}
OfViewer == OwnPages \cup {"deployForm", "control"}
WebPrograms == OfViewer \cup {"dashboard", "jobpage", "registry", "corpus", "createForm", "playground"}

(* bearer ?? process.env.AVERIS_API_KEY                                     *)
Bearer(c) ==
  IF client[c].program \in OfViewer /\ viewer[c].token # NoCred THEN viewer[c].token ELSE site.key

Blank == [rest |-> {}, by |-> NoPrincipal]

(* One request of the web server; a page is about the row of its address.   *)
Request(c, route) ==
  \E x \in IF route \notin ById THEN {Nobody} ELSE IF client[c].job = Nobody THEN Rows ELSE {client[c].job} :
    /\ req' = [req EXCEPT ![c] = [NoRequest EXCEPT !.pc = "arrived", !.route = route, !.about = x,
                                                   !.cred = Bearer(c)]]
    /\ client' = [client EXCEPT ![c].pc = "loading", ![c].job = x, ![c].cred = Bearer(c)]

Instead(c, what) == Done(c, what, {}) /\ UNCHANGED req

Runs(c, program) == client[c].pc = "start" /\ client[c].program = program

Home(c) == Runs(c, "dashboard") /\ Request(c, "list")
JobPage(c) == Runs(c, "jobpage") /\ Request(c, "get")
AgentsPage(c) == Runs(c, "registry") /\ Request(c, "agents")
DatanetsPage(c) == Runs(c, "corpus") /\ Request(c, "datanets")

(* Switched off, the pages of the automations are not found; with wallet    *)
(* login and nobody connected they ask for nothing.                         *)
Gate(c, route) ==
  IF ~site.automation THEN Instead(c, "not found")
  ELSE IF site.wallet /\ viewer[c].token = NoCred THEN Instead(c, "connect") ELSE Request(c, route)

AutomationPage(c) == Runs(c, "book") /\ Gate(c, "automations")
AutomationDetailPage(c) == Runs(c, "card") /\ Gate(c, "automation")

(* A server action refuses what it can tell is no input, or sends it.       *)
Submitted(c, route) == Instead(c, "invalid") \/ Request(c, route)

(* assertEnabled: switched off, an action throws however it was reached.    *)
Enabled(c, route) == IF site.automation THEN Submitted(c, route) ELSE Instead(c, "not available")

CreateJobAction(c) == Runs(c, "createForm") /\ Submitted(c, "create")
DeployAutomationAction(c) == Runs(c, "deployForm") /\ Enabled(c, "deploy")

(* setActive, setMode, resetBreaker, evaluateJob and sweep.                 *)
ControlAction(c) == Runs(c, "control") /\ \E route \in {"manage", "evaluate"} : Enabled(c, route)

Forward(c) == Runs(c, "playground") /\ \E route \in Catalogue : Submitted(c, route)

Visit(c) ==
  /\ \/ Home(c) \/ JobPage(c) \/ AgentsPage(c) \/ DatanetsPage(c) \/ AutomationPage(c) \/ AutomationDetailPage(c)
     \/ CreateJobAction(c) \/ DeployAutomationAction(c) \/ ControlAction(c) \/ Forward(c)
  /\ page' = [page EXCEPT ![c] = Blank]

(* The first answer: an error is the card, the message or the status that   *)
(* the viewer sees, and nothing else is asked.                              *)
Loaded(c) ==
  /\ client[c].pc = "loading" /\ req[c].pc = "answered"
  /\ Dropped(c)
  /\ LET rest == Rest(client[c].program, req[c].status)
         status == IF client[c].program = "jobpage" /\ req[c].status = "OPEN" THEN "in flight" ELSE "answer"
     IN  IF ~Accepted(c) THEN Done(c, "refused", {}) /\ UNCHANGED page
         ELSE /\ page' = [page EXCEPT ![c] = [rest |-> rest, by |-> req[c].principal]]
              /\ IF rest = {} THEN Done(c, status, req[c].shown)
                 ELSE client' = [client EXCEPT ![c].pc = "filling", ![c].report = req[c].shown]

Fill(c) ==
  /\ client[c].pc = "filling"
  /\ \E route \in page[c].rest :
       /\ Send(c, route, IF route \in ById THEN client[c].job ELSE Nobody, "part")
       /\ page' = [page EXCEPT ![c].rest = @ \ {route}]

(* attempt(): a part that fails is left out of the page.                    *)
Filled(c) ==
  /\ client[c].pc = "part" /\ req[c].pc = "answered"
  /\ Dropped(c)
  /\ LET shown == client[c].report \cup (IF Accepted(c) THEN req[c].shown ELSE {})
     IN  IF page[c].rest = {} THEN Done(c, "answer", shown)
         ELSE client' = [client EXCEPT ![c].pc = "filling", ![c].report = shown]
  /\ UNCHANGED page

(* The abort timer of fetchJson, sendJson or the forwarder.  The parts of a *)
(* page were sent together: what did not answer by then is left out.        *)
Cut(c) ==
  /\ \/ client[c].pc = "loading" /\ Done(c, "timeout", {})
     \/ client[c].pc = "part" /\ Done(c, "answer", client[c].report)
  /\ UNCHANGED <<req, page>>

(* AutoRefresh renders the page of a job again until the job has ended.     *)
Refresh(c) ==
  /\ client[c].pc = "done" /\ client[c].outcome = "in flight" /\ req[c].pc = "none"
  /\ client' = [client EXCEPT ![c].pc = "start"]
  /\ UNCHANGED <<req, page>>

(* A control on a page that shows an automation, pressed when it suits.     *)
Press(c) ==
  /\ client[c].pc = "done" /\ client[c].program \in OwnPages /\ req[c].pc = "none"
  /\ \E r \in client[c].report :
       /\ rows[r].kind = "automation"
       /\ client' = [client EXCEPT ![c] = [Start("control", NoCred) EXCEPT !.job = r]]
  /\ UNCHANGED <<req, page>>

(* /api/session makes the token that is posted the cookie, unverified, and  *)
(* deletes the cookie.                                                      *)
Cookie(c, token) == viewer' = [viewer EXCEPT ![c] = [token |-> token, moves |-> @.moves + 1]]
Connect(c) == \E t \in Cookies \ {viewer[c].token} : Cookie(c, t)
Disconnect(c) == viewer[c].token # NoCred /\ Cookie(c, NoCred)

(* The wallet of the browser connects, changes or disconnects, at any time; *)
(* the cookie also lapses after its hour.  Bound: only where it is read.    *)
WalletBridge(c) ==
  /\ client[c].program \in OfViewer /\ viewer[c].moves < MaxSwitches
  /\ Connect(c) \/ Disconnect(c)
  /\ UNCHANGED <<req, client, page>>

Render(c) ==
  Visit(c) \/ Loaded(c) \/ Fill(c) \/ Filled(c) \/ Cut(c) \/ Refresh(c) \/ Press(c)

WebStep(c) ==
  /\ (Render(c) /\ UNCHANGED viewer) \/ WalletBridge(c)
  /\ UNCHANGED <<users, config, cache, since, rows, site>>

(* The gateway starts with accounts that differ in each unique column, and  *)
(* with rows of any tenant; nobody has asked for anything, or evaluated a   *)
(* job, yet.                                                                *)
WebInit ==
  /\ GatewayInit
  /\ DOMAIN users = Accounts /\ \A a \in Accounts : DOMAIN users[a] = DOMAIN NoUser
  /\ \A a, b \in Accounts, column \in {"key", "did", "wallet"} :
       users[a].live /\ users[b].live /\ users[a][column] = users[b][column]
         => a = b \/ users[a][column] = Nobody
  /\ DOMAIN rows = Rows /\ \A r \in Rows : DOMAIN rows[r] = DOMAIN NoRow
  /\ \A r \in Rows : rows[r].noted = {} /\ rows[r].held = Nobody
  /\ DOMAIN client = Callers
  /\ \A c \in Callers : \E program \in Calls \cup WebPrograms \cup {"run"},
                          cred \in Keys \cup Tokens \cup {Root, Junk, NoCred} : client[c] = Start(program, cred)
  /\ page = [c \in Callers |-> Blank]

WebNext ==
  \/ ApiNext /\ UNCHANGED <<site, viewer, page>>
  \/ \E c \in Callers : WebStep(c)

WebSpec == WebInit /\ [][WebNext]_webVars

(* The web server runs, and its timers fire.                                *)
WebFairness ==
  \A c \in Callers :
    WF_webVars((Visit(c) \/ Fill(c) \/ Cut(c)) /\ UNCHANGED <<users, config, cache, since, rows, site, viewer>>)

(***************************************************************************)
(* The tenancy of what is shown.                                            *)
(***************************************************************************)
Own(p, r) == rows[r].kind = "agent" \/ rows[r].owner = p.account

(* The one way around the filter: an evaluation names a job by its id.  It  *)
(* leads to a resolved job that an automation of the account's noted or     *)
(* whose position is there, and to the automation with that position.       *)
Evaluated(p, shown, r) ==
  \/ /\ rows[r].kind = "job" /\ rows[r].status = "RESOLVED"
     /\ \E a \in shown :
          /\ rows[a].kind = "automation" /\ rows[a].owner = p.account
          /\ r \in rows[a].noted \/ rows[r].held \in shown
  \/ rows[r].kind = "automation" /\ \E j \in shown : rows[j].held = r

(* The routes and the page that show what was evaluated.                    *)
Evaluates == {"evaluate", "positions", "card"}

OwnedBy(p, shown, by) ==
  p.scope = "user" => \A r \in shown : Own(p, r) \/ (by \in Evaluates /\ Evaluated(p, shown, r))

AnswersAreOwn ==
  \A c \in Callers :
    req[c].pc = "answered" => OwnedBy(req[c].principal, req[c].shown, req[c].route)

ReportIsOfTheJob ==
  \A c \in Callers :
    client[c].outcome = "report" =>
      rows[client[c].job].status = "RESOLVED" /\ client[c].report = {client[c].job}

PagesAreOwn ==
  \A c \in Callers :
    client[c].program \in OwnPages /\ site.wallet /\ client[c].report # {} =>
      page[c].by.account # Nobody /\ OwnedBy(page[c].by, client[c].report, client[c].program)

(* The jobs and automations that an account is shown, or may touch, are its *)
(* own, but for what an evaluation leads to: its body names any job, which  *)
(* is read outside the filter (automations.ts:350, engine.ts:49), where     *)
(* auth.ts:10 says that accounts "see only their own jobs".  What it lets   *)
(* through is one resolved job, and the automation that holds the position  *)
(* of that job, in the answer itself and in the automation's own positions  *)
(* and events: no other route shows a row of another tenant's.  The report  *)
(* that runJob returns is of the job it submitted, resolved (never of one   *)
(* that failed after its consensus was stored).  With wallet login the      *)
(* pages of the automations show what belongs to the viewer who was signed  *)
(* in when they were rendered, never what the app's own key sees, though    *)
(* the cookie changes between two requests of one browser (lib/api.ts:61,   *)
(* automation/page.tsx:25).                                                 *)
ReportsAreOwn == AnswersAreOwn /\ ReportIsOfTheJob /\ PagesAreOwn

=============================================================================
