------------------------------- MODULE Gateway -------------------------------
(***************************************************************************)
(* The API gateway (apps/api): the account table and the ways into it, an   *)
(* API key that is stored as a hash and a wallet that Privy vouches for,    *)
(* the auth hook with its cache of principals,                              *)
(* the x402 paywall in front of POST /v1/jobs, and the routes, each request *)
(* cut at the statements it awaits.  Time is relative: Tick ages what is    *)
(* cached, what is being looked up and what has been revoked.               *)
(***************************************************************************)
EXTENDS Integers, FiniteSets, Sequences, SequencesExt

(***************************************************************************)
(* Signing in.  Every step of prismaWalletLookup (apps/api/src/auth.ts) is  *)
(* one statement of the database, so that two sign-ins interleave between   *)
(* them.                                                                    *)
(***************************************************************************)
CONSTANTS
  Accounts,     \* rows the account table can hold
  Nobody,       \* no account, no person, no wallet, no key
  Keys,         \* API keys that key:create mints
  Tokens,       \* Privy identity tokens
  DidOf,        \* the person each token names
  WalletOf      \* the wallet each token names

(* A token that Privy vouches for always names a person.                    *)
ASSUME SignInAssumption ==
  /\ Keys \cap Tokens = {} /\ Nobody \notin Keys \cup Tokens \cup Accounts
  /\ \A t \in Tokens : DidOf[t] # Nobody

VARIABLE users  \* the account table: whether a row exists, its key, DID and wallet

NoUser == [live |-> FALSE, key |-> Nobody, did |-> Nobody, wallet |-> Nobody]

(* The account a unique column finds, Nobody when none does.                *)
Holding(held(_)) ==
  LET hits == {a \in Accounts : users[a].live /\ held(users[a])}
  IN  IF hits = {} THEN Nobody ELSE CHOOSE a \in hits : TRUE

ByKey(k) == Holding(LAMBDA u : u.key = k)
ByDid(d) == Holding(LAMBDA u : u.did = d)
ByWallet(w) == Holding(LAMBDA u : u.wallet = w)

(* What one statement of the lookup leads to: the next statement, an        *)
(* account, or a unique violation that the request answers with 500.        *)
Resolved(a) == [pc |-> "found", row |-> a]

(* Mutant: the address is the person, the DID is not looked at.             *)
FindByDidNever(t) == [pc |-> "wallet", row |-> Nobody]

FindByDid(t) ==
  LET a == ByDid(DidOf[t])
  IN  IF a = Nobody THEN [pc |-> "wallet", row |-> Nobody]
      ELSE IF users[a].wallet = WalletOf[t] THEN Resolved(a) ELSE [pc |-> "holder", row |-> a]

FindHolder(t, a) ==
  IF ByWallet(WalletOf[t]) \notin {Nobody, a} THEN Resolved(a) ELSE [pc |-> "move", row |-> a]

FindByWallet(t) ==
  LET b == ByWallet(WalletOf[t])
  IN  IF b = Nobody THEN [pc |-> "create", row |-> Nobody]
      ELSE IF users[b].did = Nobody THEN [pc |-> "claim", row |-> b] ELSE Resolved(b)

(* Which statement a sign-in executes at pc, when it only reads.            *)
Reading(pc, t, a) ==
  CASE pc = "did" -> FindByDid(t)
    [] pc = "holder" -> FindHolder(t, a)
    [] pc = "wallet" -> FindByWallet(t)

(* The row that a sign-in writes at pc, and whether the columns of the      *)
(* table let it: did and wallet are unique.                                 *)
Target(pc, a) ==
  IF pc = "create" THEN {b \in Accounts : ~users[b].live} ELSE {a}

Written(pc, t, b) ==
  CASE pc = "move" -> [users[b] EXCEPT !.wallet = WalletOf[t]]
    [] pc = "claim" -> [users[b] EXCEPT !.did = DidOf[t]]
    [] pc = "create" -> [NoUser EXCEPT !.live = TRUE, !.did = DidOf[t], !.wallet = WalletOf[t]]

Unique(pc, t, b) ==
  /\ pc \in {"claim", "create"} => ByDid(DidOf[t]) \in {Nobody, b}
  /\ pc \in {"move", "create"} => ByWallet(WalletOf[t]) \in {Nobody, b}

(* key:create --handle: the new hash overwrites the old one.                *)
Minted(a, k) == [users EXCEPT ![a].key = k]

(***************************************************************************)
(* Requests                                                                 *)
(***************************************************************************)

CONSTANTS
  Root, Junk, NoCred,   \* a root key, an unknown key, no key at all
  Callers,              \* who sends requests, one at a time
  Rows,                 \* ids that jobs and automations can take
  TTL,                  \* cacheTtlMs, in ticks
  MaxEntries,           \* how many principals the cache holds
  MaxLookup             \* bound: ticks from the first read of a lookup to its answer

ASSUME GatewayAssumption ==
  /\ TTL \in Nat /\ MaxLookup \in Nat /\ MaxEntries \in Nat \ {0}
  /\ {Root, Junk, NoCred} \cap (Keys \cup Tokens) = {}
  /\ Nobody \notin Rows

VARIABLES
  config,   \* what the gateway started with; it does not change
  cache,    \* PrincipalCache: entries in the order of their first insertion
  since,    \* ticks since a key or a token stopped being valid, -1 while it is
  rows,     \* jobs and automations
  req       \* the request each caller has at the gateway

gatewayVars == <<users, config, cache, since, rows, req>>

(***************************************************************************)
(* Startup: a payment or a wallet configuration that is on but lacks a part *)
(* stops the gateway instead of starting it open.                           *)
(***************************************************************************)
ResolvePaymentConfig(env) == IF "X402_ENABLED" \notin env THEN "off" ELSE IF "X402_*" \in env THEN "on" ELSE "throws"

ResolvePrivyConfig(env) ==
  CASE {"PRIVY_APP_ID", "PRIVY_APP_SECRET"} \subseteq env -> "on"
    [] {"PRIVY_APP_ID", "PRIVY_APP_SECRET"} \cap env = {} -> "off"
    [] OTHER -> "throws"

Starts(env) == "throws" \notin {ResolvePaymentConfig(env), ResolvePrivyConfig(env)}

Configured(env) ==
  [auth |-> "API_KEYS" \in env, paywall |-> ResolvePaymentConfig(env) = "on", wallet |-> ResolvePrivyConfig(env) = "on"]

AuthOn == config.auth
Paywall == config.paywall
WalletLogin == config.wallet

Forgotten == TTL + MaxLookup + 1     \* bound: ages above it are not told apart
JobStatuses == {"OPEN", "RESOLVED", "FAILED"}   \* FAILED stands for CANCELLED too

NoPrincipal == [scope |-> "none", account |-> Nobody, wallet |-> FALSE]
RootPrincipal == [scope |-> "root", account |-> Nobody, wallet |-> FALSE]
UserPrincipal(a, verified) == [scope |-> "user", account |-> a, wallet |-> verified]

(* noted: the jobs that an automation's positions and events tell of.       *)
(* held: the automation whose position is of this job; Position.jobId is    *)
(* unique, there is one at most.                                            *)
NoRow == [kind |-> "none", owner |-> Nobody, status |-> "OPEN", consensus |-> FALSE, paid |-> FALSE,
          noted |-> {}, held |-> Nobody]

(* pc: none, arrived, the statements of a lookup, found, paywall, handler,  *)
(* answered.  known is the account of the token's person when the lookup    *)
(* began; age is how long the credential had been invalid when it passed.   *)
NoRequest ==
  [pc |-> "none", route |-> "none", about |-> Nobody, cred |-> NoCred, row |-> Nobody,
   known |-> Nobody, waited |-> 0, age |-> -1, principal |-> NoPrincipal, paid |-> FALSE,
   code |-> 0, shown |-> {}, status |-> "OPEN"]

GatewayInit ==
  /\ cache = <<>>
  /\ since = [c \in Keys \cup Tokens |-> -1]
  /\ req = [c \in Callers |-> NoRequest]

Answer(c, code, shown, status) ==
  req' = [req EXCEPT ![c] = [@ EXCEPT !.pc = "answered", !.row = Nobody, !.about = Nobody, !.waited = 0,
                                      !.code = code, !.shown = shown, !.status = status]]

Refuse(c, code) == Answer(c, code, {}, "OPEN")

(***************************************************************************)
(* The auth hook.                                                           *)
(***************************************************************************)
AgeOf(cred) == IF cred \in DOMAIN since THEN since[cred] ELSE -1

Pass(c, principal) ==
  req' = [req EXCEPT ![c].pc = "paywall", ![c].principal = principal,
                     ![c].age = IF principal = NoPrincipal THEN -1 ELSE AgeOf(req[c].cred)]

Cached(cred) == {i \in DOMAIN cache : cache[i].cred = cred}
Hit(cred) == {i \in Cached(cred) : cache[i].left > 0}

(* get drops the entry that it finds expired.                               *)
AfterGet(cred) ==
  IF Cached(cred) = {} \/ Hit(cred) # {} THEN cache ELSE RemoveAt(cache, CHOOSE i \in Cached(cred) : TRUE)

(* set evicts the oldest entry of a full map first, whether or not the key  *)
(* is in it already; an entry that is overwritten keeps its place.          *)
AfterSet(held, cred, principal) ==
  LET entry == [cred |-> cred, principal |-> principal, left |-> TTL]
      rest == IF Len(held) >= MaxEntries THEN Tail(held) ELSE held
      at == {i \in DOMAIN rest : rest[i].cred = cred}
  IN  IF at = {} THEN Append(rest, entry) ELSE [i \in DOMAIN rest |-> IF i \in at THEN entry ELSE rest[i]]

Anonymous(c) == ~AuthOn \/ (Paywall /\ req[c].route = "create")

Unknown(c) == IF AuthOn THEN Refuse(c, 401) ELSE Pass(c, NoPrincipal)

Keyless(c) ==
  /\ req[c].pc = "arrived" /\ req[c].cred = NoCred /\ req[c].route # "health"
  /\ IF Anonymous(c) THEN Pass(c, NoPrincipal) ELSE Refuse(c, 401)
  /\ UNCHANGED <<users, config, cache, since, rows>>

(* Mutant: a hit prolongs the entry.                                        *)
PassProlonged(c) ==
  /\ req[c].pc = "arrived" /\ req[c].route # "health"
  /\ \E i \in Hit(req[c].cred) :
       Pass(c, cache[i].principal) /\ cache' = [cache EXCEPT ![i].left = TTL]
  /\ UNCHANGED <<users, config, since, rows>>

PassCached(c) ==
  /\ req[c].pc = "arrived" /\ req[c].route # "health"
  /\ \E i \in Hit(req[c].cred) : Pass(c, cache[i].principal)
  /\ UNCHANGED <<users, config, cache, since, rows>>

(* A key or a token that is not cached goes to the database, a token only   *)
(* when wallet login is on and Privy still vouches for it.                  *)
Lookup(c) ==
  /\ req[c].pc = "arrived" /\ req[c].route # "health"
  /\ req[c].cred # NoCred /\ Hit(req[c].cred) = {}
  /\ LET cred == req[c].cred IN
     \/ /\ cred = Root
        /\ cache' = AfterSet(AfterGet(cred), cred, RootPrincipal)
        /\ Pass(c, RootPrincipal)
     \/ /\ cred = Junk \/ (cred \in Tokens /\ (~WalletLogin \/ since[cred] >= 0))
        /\ cache' = AfterGet(cred) /\ Unknown(c)
     \/ /\ cred \in Keys
        /\ cache' = AfterGet(cred)
        /\ req' = [req EXCEPT ![c].pc = "found", ![c].row = ByKey(cred)]
     \/ /\ cred \in Tokens /\ WalletLogin /\ since[cred] = -1
        /\ cache' = AfterGet(cred)
        /\ req' = [req EXCEPT ![c].pc = "did", ![c].known = ByDid(DidOf[cred])]
  /\ UNCHANGED <<users, config, since, rows>>

ReadAccount(c) ==
  /\ req[c].pc \in {"did", "holder", "wallet"}
  /\ LET r == Reading(req[c].pc, req[c].cred, req[c].row)
     IN  req' = [req EXCEPT ![c].pc = r.pc, ![c].row = r.row]
  /\ UNCHANGED <<users, config, cache, since, rows>>

WriteAccount(c) ==
  /\ req[c].pc \in {"move", "claim", "create"}
  /\ \E b \in Target(req[c].pc, req[c].row) :
       IF Unique(req[c].pc, req[c].cred, b)
       THEN /\ users' = [users EXCEPT ![b] = Written(req[c].pc, req[c].cred, b)]
            /\ req' = [req EXCEPT ![c].pc = "found", ![c].row = b]
       ELSE Refuse(c, 500) /\ UNCHANGED users
  /\ UNCHANGED <<config, cache, since, rows>>

(* The lookup answers: only a hit is cached, from this moment on.           *)
Admit(c) ==
  /\ req[c].pc = "found"
  /\ LET p == UserPrincipal(req[c].row, req[c].cred \in Tokens)
     IN  IF req[c].row = Nobody
         THEN Unknown(c) /\ UNCHANGED cache
         ELSE cache' = AfterSet(cache, req[c].cred, p) /\ Pass(c, p)
  /\ UNCHANGED <<users, config, since, rows>>

(***************************************************************************)
(* The paywall: a root key is waived, an account still pays.                *)
(***************************************************************************)
Waived(c) == req[c].cred = Root

PayOrPass(c) ==
  /\ req[c].pc = "paywall"
  /\ \/ (~Paywall \/ req[c].route # "create" \/ Waived(c)) /\ req' = [req EXCEPT ![c].pc = "handler"]
     \/ /\ Paywall /\ req[c].route = "create" /\ ~Waived(c)
        /\ \/ req' = [req EXCEPT ![c].pc = "handler", ![c].paid = TRUE]
           \/ Refuse(c, 402)
  /\ UNCHANGED <<users, config, cache, since, rows>>

(***************************************************************************)
(* The routes.  requesterScope and ownerScope are one filter.               *)
(***************************************************************************)
(* Mutant: every row, as for a root key.                                    *)
InScopeOpen(p, row) == TRUE

InScope(p, row) == p.scope = "user" => row.owner = p.account

Visible(c, kind) == {r \in Rows : rows[r].kind = kind /\ InScope(req[c].principal, rows[r])}

Free == {r \in Rows : rows[r] = NoRow}
NewId == CHOOSE r \in Free : TRUE

At(c, route) == req[c].pc = "handler" /\ req[c].route = route

Create(c) ==
  /\ At(c, "create") /\ Free # {}
  /\ LET r == NewId IN
     /\ rows' = [rows EXCEPT ![r] = [NoRow EXCEPT !.kind = "job", !.owner = req[c].principal.account,
                                                  !.paid = req[c].paid]]
     /\ Answer(c, 201, {r}, "OPEN")
  /\ UNCHANGED <<users, config, cache, since>>

(* An automation belongs to a wallet when there is wallet login; without    *)
(* it a root key deploys for the shared protocol account, Nobody here.  A   *)
(* second one of a name is refused.                                         *)
Deploy(c) ==
  /\ At(c, "deploy") /\ Free # {}
  /\ IF WalletLogin /\ ~req[c].principal.wallet THEN Refuse(c, 401) /\ UNCHANGED rows
     ELSE IF \E s \in Rows : rows[s].kind = "automation" /\ rows[s].owner = req[c].principal.account
     THEN Refuse(c, 409) /\ UNCHANGED rows
     ELSE /\ rows' = [rows EXCEPT ![NewId] = [NoRow EXCEPT !.kind = "automation",
                                                           !.owner = req[c].principal.account]]
          /\ Answer(c, 201, {NewId}, "OPEN")
  /\ UNCHANGED <<users, config, cache, since>>

(* The filter is part of the query, so another tenant's row is a 404.       *)
Show(c, kind, ready(_)) ==
  LET r == req[c].about
  IN  IF r \notin Visible(c, kind) THEN Refuse(c, 404)
      ELSE IF ~ready(rows[r]) THEN Refuse(c, 409) ELSE Answer(c, 200, {r}, rows[r].status)

GetJob(c) == At(c, "get") /\ Show(c, "job", LAMBDA j : TRUE)

(* Without a consensus there is nothing to show, or to explain, yet.        *)
GetIntelligence(c) == At(c, "intelligence") /\ Show(c, "job", LAMBDA j : j.consensus)
GetExplanation(c) == At(c, "explain") /\ Show(c, "job", LAMBDA j : j.consensus)

(* Everything below /v1/automations/:id goes through load().                *)
GetAutomation(c) == At(c, "automation") /\ Show(c, "automation", LAMBDA x : TRUE)

(* Positions and events name the jobs they were decided on.                 *)
GetPositions(c) ==
  /\ At(c, "positions")
  /\ LET a == req[c].about
     IN  IF a \notin Visible(c, "automation") THEN Refuse(c, 404)
         ELSE Answer(c, 200, {a} \cup rows[a].noted, "OPEN")

(* patch, active, mode, reset-breaker and sweep: the row is loaded in scope *)
(* and then written by its id; going live is refused, no driver can.        *)
Manage(c) ==
  /\ At(c, "manage")
  /\ \/ Show(c, "automation", LAMBDA x : TRUE)
     \/ req[c].about \in Visible(c, "automation") /\ Refuse(c, 501)

(* The registry of agents is shared by every tenant.                        *)
Registry == {r \in Rows : rows[r].kind = "agent"}

GetAgent(c) ==
  /\ At(c, "agent")
  /\ IF req[c].about \notin Registry THEN Refuse(c, 404) ELSE Answer(c, 200, {req[c].about}, "OPEN")

ListJobs(c) == At(c, "list") /\ Answer(c, 200, Visible(c, "job"), "OPEN")
ListAutomations(c) == At(c, "automations") /\ Answer(c, 200, Visible(c, "automation"), "OPEN")
ListAgents(c) == At(c, "agents") /\ Answer(c, 200, Registry, "OPEN")

(* The counts follow the same filter.                                       *)
Stats(c) == At(c, "stats") /\ Answer(c, 200, Visible(c, "job"), "OPEN")

(* The datanet routes pass on what the data network answers.                *)
Datanets(c) == At(c, "datanets") /\ \E code \in {200, 404, 502} : Answer(c, code, {}, "OPEN")

Looks(c) ==
  /\ \/ GetJob(c) \/ GetIntelligence(c) \/ GetExplanation(c) \/ GetAutomation(c) \/ GetPositions(c)
     \/ Manage(c) \/ GetAgent(c) \/ ListJobs(c) \/ ListAutomations(c) \/ ListAgents(c) \/ Stats(c) \/ Datanets(c)
  /\ UNCHANGED <<users, config, cache, since, rows>>

(* The automation is loaded in scope, the job of the body is not: any job   *)
(* of any tenant is read by its id.  One that is unknown, unresolved or     *)
(* names no target tells nothing; of any other the answer shows the gates   *)
(* it met, and the position it opened or the one there already is.          *)
Tells(j) == rows[j].kind = "job" /\ rows[j].status = "RESOLVED" /\ rows[j].consensus

Evaluate(c) ==
  /\ At(c, "evaluate")
  /\ LET a == req[c].about
     IN  \/ a \notin Visible(c, "automation") /\ Refuse(c, 404) /\ UNCHANGED rows
         \/ a \in Visible(c, "automation") /\ Answer(c, 200, {a}, "OPEN") /\ UNCHANGED rows
         \/ /\ a \in Visible(c, "automation")
            /\ \E j \in Rows :
                 /\ Tells(j)
                 /\ \/ rows' = [rows EXCEPT ![a].noted = @ \cup {j}] /\ Answer(c, 200, {a, j}, "OPEN")
                    \/ /\ rows[j].held = Nobody
                       /\ rows' = [rows EXCEPT ![a].noted = @ \cup {j}, ![j].held = a]
                       /\ Answer(c, 200, {a, j}, "OPEN")
                    \/ /\ rows[j].held # Nobody
                       /\ Answer(c, 200, {a, j, rows[j].held}, "OPEN") /\ UNCHANGED rows
  /\ UNCHANGED <<users, config, cache, since>>

(* The name of an agent is looked up, then inserted: the unique column      *)
(* refuses the second of two registrations that both found it free.  Bound: *)
(* one name.                                                                *)
Named == Registry # {}

FindAgent(c) ==
  /\ At(c, "register")
  /\ IF Named THEN Refuse(c, 409) ELSE req' = [req EXCEPT ![c].pc = "insert"]
  /\ UNCHANGED <<users, config, cache, since, rows>>

RegisterAgent(c) ==
  /\ req[c].pc = "insert" /\ (Named \/ Free # {})
  /\ IF Named THEN Refuse(c, 500) /\ UNCHANGED rows
     ELSE /\ rows' = [rows EXCEPT ![NewId] = [NoRow EXCEPT !.kind = "agent", !.owner = req[c].principal.account]]
          /\ Answer(c, 201, {NewId}, "OPEN")
  /\ UNCHANGED <<users, config, cache, since>>

(* The probe needs no key and says whether database and queue answer.       *)
Health(c) ==
  /\ req[c].pc = "arrived" /\ req[c].route = "health"
  /\ \E code \in {200, 503} : Refuse(c, code)
  /\ UNCHANGED <<users, config, cache, since, rows>>

(* The rate limiter refuses before the hook; a handler that throws is 500.  *)
Fail(c) ==
  /\ \/ req[c].pc = "arrived" /\ Refuse(c, 429)
     \/ req[c].pc \in {"found", "handler"} /\ Refuse(c, 500)
     \/ req[c].pc = "handler" /\ req[c].route \in {"create", "deploy", "list", "evaluate"} /\ Refuse(c, 400)
  /\ UNCHANGED <<users, config, cache, since, rows>>

(***************************************************************************)
(* What the requests run beside.                                            *)
(***************************************************************************)
(* Bound: one revocation, of a credential that some request carries.        *)
Revocable(cred) ==
  (\A c \in DOMAIN since : since[c] = -1) /\ (\E c \in Callers : req[c].cred = cred)

Rotate(a, k) ==
  /\ users[a].live /\ Revocable(users[a].key) /\ ByKey(k) = Nobody
  /\ users' = Minted(a, k)
  /\ since' = [since EXCEPT ![users[a].key] = 0]
  /\ UNCHANGED <<config, cache, rows, req>>

Expire(t) ==
  /\ Revocable(t)
  /\ since' = [since EXCEPT ![t] = 0]
  /\ UNCHANGED <<users, config, cache, rows, req>>

(* The pipeline works on an open job: it stores a consensus, then resolves  *)
(* the job, or fails it with or without one.                                *)
Advance(r) ==
  /\ rows[r].kind = "job" /\ rows[r].status = "OPEN"
  /\ \/ ~rows[r].consensus /\ rows' = [rows EXCEPT ![r].consensus = TRUE]
     \/ rows[r].consensus /\ rows' = [rows EXCEPT ![r].status = "RESOLVED"]
     \/ rows' = [rows EXCEPT ![r].status = "FAILED"]
  /\ UNCHANGED <<users, config, cache, since, req>>

LookingUp(c) == req[c].pc \in {"did", "holder", "wallet", "move", "claim", "create", "found"}

Tick ==
  /\ \A c \in Callers : LookingUp(c) => req[c].waited < MaxLookup
  /\ cache' = [i \in DOMAIN cache |-> [cache[i] EXCEPT !.left = IF @ > 0 THEN @ - 1 ELSE 0]]
  /\ since' = [c \in DOMAIN since |-> IF since[c] \in {-1, Forgotten} THEN since[c] ELSE since[c] + 1]
  /\ req' = [c \in Callers |-> IF LookingUp(c) THEN [req[c] EXCEPT !.waited = @ + 1] ELSE req[c]]
  /\ UNCHANGED <<users, config, rows>>

Serve(c) ==
  \/ Keyless(c) \/ PassCached(c) \/ Lookup(c) \/ ReadAccount(c) \/ WriteAccount(c) \/ Admit(c)
  \/ PayOrPass(c) \/ Looks(c) \/ Health(c) \/ Fail(c)
  \/ Create(c) \/ Deploy(c) \/ Evaluate(c) \/ FindAgent(c) \/ RegisterAgent(c)

Surroundings ==
  \/ Tick
  \/ \E a \in Accounts, k \in Keys : Rotate(a, k)
  \/ \E t \in Tokens : Expire(t)
  \/ \E r \in Rows : Advance(r)

=============================================================================
