----------------------------- MODULE Provenance -----------------------------
(***************************************************************************)
(* Where the evidence of a job comes from and how it is stored              *)
(* (packages/protocol/src/execution.ts): the datanets a run is restricted   *)
(* to, their local snapshots, the cache of upstream items and the rows of   *)
(* an agent's output, with the agents of a cohort and the jobs side by      *)
(* side, and a run that is lost and delivered again.                        *)
(*                                                                          *)
(* JobPipeline has the assignments and the states of the job, AgentRun has  *)
(* what one agent reads; here a reading is a bound input.                   *)
(***************************************************************************)
EXTENDS Arrays

CONSTANTS
  Jobs,        \* [id, explicit, domains, terms, crew]
  Together,    \* bound: the sets of jobs that run side by side, by their ids
  Listings,    \* what listDatanets may return: sequences, at most 50 long, of
               \* [id, domains, approval, hits], the hits of a job's query by its id
  PoolSize,    \* five
  Readings,    \* [read, cited]: what an agent can come back with, one claim
  NoNet,       \* the datanet of a row that names none
  MaxLost,     \* bound: runs that are lost before they end
  MaxChanges   \* bound: changes of the listing

ASSUME ProvenanceAssumption ==
  /\ PoolSize \in Nat \ {0} /\ {MaxLost, MaxChanges} \subseteq Nat
  /\ \A g \in Readings : g.cited \subseteq g.read
  /\ \A l \in Listings : l \in Seq(ToSet(l))
  /\ \A l \in Listings : \A n \in ToSet(l) : n.approval \in Int /\ \A j \in Jobs : n.hits[j.id] \in Int

VARIABLES
  listing,     \* what upstream lists
  seeded,      \* whether the data source has a row
  stored,      \* Job.datanetIds
  nets,        \* Datanet rows
  items,       \* DataItem rows: of each cached pod, the datanet row or NoNet
  rows,        \* Evidence rows
  outputs,     \* AgentOutput rows with the links of their claim
  scope,       \* the datanets that each run hands to its agents
  at,          \* where each run is
  agent,       \* where each agent is
  bounds

vars == <<listing, seeded, stored, nets, items, rows, outputs, scope, at, agent, bounds>>

Ids(seq) == {seq[i].id : i \in DOMAIN seq}
Agents == UNION {{<<j.id, a>> : a \in j.crew} : j \in Jobs}
NoAgent == [pc |-> "none", read |-> {}, cited |-> {}, local |-> {}, todo |-> {}, links |-> {}]

ProvenanceInit ==
  /\ listing \in Listings /\ seeded = FALSE
  /\ stored = [id \in {j.id : j \in Jobs} |-> (CHOOSE j \in Jobs : j.id = id).explicit]
  /\ nets = {} /\ items = <<>> /\ rows = {} /\ outputs = {}
  /\ scope = [id \in {j.id : j \in Jobs} |-> <<>>]
  /\ \E some \in Together : at = [id \in {j.id : j \in Jobs} |-> IF id \in some THEN "discover" ELSE "absent"]
  /\ agent = [g \in Agents |-> NoAgent]
  /\ bounds = [lost |-> 0, changes |-> 0]

(***************************************************************************)
(* Discovery.                                                               *)
(***************************************************************************)
(* terms: the query has a word of more than three letters.                  *)
TextMatch(all, job) ==
  LET hit == Only(all, {n \in ToSet(all) : n.hits[job.id] > 0})
  IN  IF ~job.terms \/ hit = <<>> THEN Slice(all, PoolSize)
      ELSE Sorted(hit, [i \in DOMAIN hit |-> -hit[i].hits[job.id]])

ByApproval(seq) == Sorted(seq, [i \in DOMAIN seq |-> -seq[i].approval])

(* Mutant: what a run before has recorded is no restriction.                *)
DiscoverAnew(job, explicit, all) ==
  Slice(ByApproval(TextMatch(all, job)), PoolSize)

(* discoverDatanets.                                                        *)
Discovered(job, explicit, all) ==
  LET byDomain == Only(all, {n \in ToSet(all) : n.domains \cap job.domains # {}})
      pool == IF byDomain # <<>> THEN byDomain ELSE TextMatch(all, job)
  IN  IF explicit # <<>> THEN Only(all, {n \in ToSet(all) : n.id \in ToSet(explicit)})
      ELSE Slice(ByApproval(pool), PoolSize)

IdSeq(seq) == [i \in DOMAIN seq |-> seq[i].id]

(* The pool is stored with the job, unless it is empty or the same.         *)
Discover(job) ==
  LET found == IdSeq(Discovered(job, stored[job.id], listing)) IN
  /\ at[job.id] = "discover"
  /\ scope' = [scope EXCEPT ![job.id] = found]
  /\ stored' = IF found # <<>> THEN [stored EXCEPT ![job.id] = found] ELSE stored
  /\ at' = [at EXCEPT ![job.id] = "snapshot"]
  /\ UNCHANGED <<listing, seeded, nets, items, rows, outputs, agent, bounds>>

(* snapshotDatanets, one upsert after the other, then the cohort starts.    *)
(* dataSourceId remembers only a hit and a source is never removed, so what *)
(* it answers is what the table holds.                                      *)
Unwritten(job) == {i \in DOMAIN scope[job.id] : scope[job.id][i] \notin nets}

Snapshot(job) ==
  /\ at[job.id] = "snapshot"
  /\ IF seeded /\ Unwritten(job) # {}
     THEN /\ nets' = nets \cup {scope[job.id][CHOOSE i \in Unwritten(job) : \A k \in Unwritten(job) : i <= k]}
          /\ UNCHANGED <<at, agent>>
     ELSE /\ at' = [at EXCEPT ![job.id] = "agents"]
          /\ agent' = [g \in Agents |-> IF g[1] = job.id THEN [NoAgent EXCEPT !.pc = "reading"] ELSE agent[g]]
          /\ UNCHANGED nets
  /\ UNCHANGED <<listing, seeded, stored, items, rows, outputs, scope, bounds>>

(***************************************************************************)
(* An agent.                                                                *)
(***************************************************************************)
InPool(id, row) ==
  scope[id] = <<>> \/ row.net = NoNet \/ \E i \in DOMAIN scope[id] : scope[id][i] = row.net

Move(g, state) == agent' = [agent EXCEPT ![g] = state]

(* runAgent returns, or throws.                                             *)
Reads(g) ==
  /\ agent[g].pc = "reading"
  /\ \/ Move(g, [NoAgent EXCEPT !.pc = "failed"])
     \/ \E r \in Readings :
          /\ \A row \in r.read : InPool(g[1], row)
          /\ Move(g, [agent[g] EXCEPT !.pc = "caching", !.read = r.read, !.cited = r.cited])
  /\ UNCHANGED <<listing, seeded, stored, nets, items, rows, outputs, scope, at, bounds>>

(* cacheDataItems, up to the datanet rows of the pods.                      *)
Pods(read) == {row \in read : row.pod}

FindNets(g) ==
  /\ agent[g].pc = "caching"
  /\ Move(g, IF ~seeded \/ Pods(agent[g].read) = {} THEN [agent[g] EXCEPT !.pc = "persist"]
             ELSE [agent[g] EXCEPT !.pc = "upsert", !.todo = Pods(agent[g].read),
                                   !.local = nets \cap {row.net : row \in Pods(agent[g].read)}])
  /\ UNCHANGED <<listing, seeded, stored, nets, items, rows, outputs, scope, at, bounds>>

(* The upserts of a batch are under way together; a reading of the model    *)
(* fits into one batch of DATA_ITEM_WRITE_CONCURRENCY.                      *)
WriteItem(g) ==
  /\ agent[g].pc = "upsert"
  /\ IF agent[g].todo = {} THEN Move(g, [agent[g] EXCEPT !.pc = "persist"]) /\ UNCHANGED items
     ELSE \E row \in agent[g].todo :
            LET link == IF row.net \in agent[g].local THEN row.net ELSE NoNet IN
            /\ items' = [s \in DOMAIN items \cup {row.source} |-> IF s = row.source THEN link ELSE items[s]]
            /\ Move(g, [agent[g] EXCEPT !.todo = @ \ {row}, !.links = @ \cup {row.source}])
  /\ UNCHANGED <<listing, seeded, stored, nets, rows, outputs, scope, at, bounds>>

(* persist: one transaction.  The insert ignores the hashes that the job    *)
(* has, waits for a concurrent insert of one to commit, and the ids are     *)
(* read back by hash, for other agents' rows too.  byKey is a map by        *)
(* source: of two editions of one source it keeps either.                   *)
Evidence(g, row) ==
  [job |-> g[1], source |-> row.source, edition |-> row.edition, item |-> row.source \in agent[g].links]
HasHash(id, row) == \E e \in rows : e.job = id /\ e.source = row.source /\ e.edition = row.edition

Inserted(g) == {Evidence(g, row) : row \in {r \in agent[g].read : ~HasHash(g[1], r)}}
Hashes(g) == {<<row.source, row.edition>> : row \in agent[g].read}
(* Mutant: the ids are those of the rows that this agent has inserted.      *)
ReadBackOwn(g) == Inserted(g)

ReadBack(g) == {e \in rows \cup Inserted(g) : e.job = g[1] /\ <<e.source, e.edition>> \in Hashes(g)}

Keyings(g) ==
  LET back == ReadBack(g) IN
  {k \in [{e.source : e \in back} -> back] : \A s \in DOMAIN k : k[s].source = s}

Links(g, byKey) ==
  {byKey[row.source] : row \in {r \in agent[g].cited : r.source \in DOMAIN byKey}}

HasOutput(g) == \E o \in outputs : o.agent = g

(* A second output of an assignment breaks the unique key and the           *)
(* transaction with it.                                                     *)
Persist(g) ==
  /\ agent[g].pc = "persist"
  /\ IF HasOutput(g) THEN Move(g, [NoAgent EXCEPT !.pc = "failed"]) /\ UNCHANGED <<rows, outputs>>
     ELSE \E byKey \in Keyings(g) :
            /\ rows' = rows \cup Inserted(g)
            /\ outputs' = outputs \cup
                 {[agent |-> g, cited |-> {row.source : row \in agent[g].cited}, links |-> Links(g, byKey)]}
            /\ Move(g, [NoAgent EXCEPT !.pc = "saved"])
  /\ UNCHANGED <<listing, seeded, stored, nets, items, scope, at, bounds>>

PersistFails(g) ==
  /\ agent[g].pc \in {"caching", "upsert", "persist"}
  /\ Move(g, [NoAgent EXCEPT !.pc = "failed"])
  /\ UNCHANGED <<listing, seeded, stored, nets, items, rows, outputs, scope, at, bounds>>

(***************************************************************************)
(* Around the runs.                                                         *)
(***************************************************************************)
Join(job) ==
  /\ at[job.id] = "agents" /\ \A a \in job.crew : agent[<<job.id, a>>].pc \in {"saved", "failed"}
  /\ at' = [at EXCEPT ![job.id] = "done"]
  /\ UNCHANGED <<listing, seeded, stored, nets, items, rows, outputs, scope, agent, bounds>>

(* A process is lost, and the message of the run is delivered again.        *)
Lose(job) ==
  /\ at[job.id] \in {"snapshot", "agents"} /\ bounds.lost < MaxLost
  /\ bounds' = [bounds EXCEPT !.lost = @ + 1]
  /\ at' = [at EXCEPT ![job.id] = "discover"]
  /\ agent' = [g \in Agents |-> IF g[1] = job.id THEN NoAgent ELSE agent[g]]
  /\ UNCHANGED <<listing, seeded, stored, nets, items, rows, outputs, scope>>

ListingChanges ==
  /\ bounds.changes < MaxChanges /\ bounds' = [bounds EXCEPT !.changes = @ + 1]
  /\ listing' \in Listings \ {listing}
  /\ UNCHANGED <<seeded, stored, nets, items, rows, outputs, scope, at, agent>>

Seed ==
  /\ ~seeded /\ seeded' = TRUE
  /\ UNCHANGED <<listing, stored, nets, items, rows, outputs, scope, at, agent, bounds>>

ProvenanceNext ==
  \/ \E job \in Jobs : Discover(job) \/ Snapshot(job) \/ Join(job) \/ Lose(job)
  \/ \E g \in Agents : Reads(g) \/ FindNets(g) \/ WriteItem(g) \/ Persist(g) \/ PersistFails(g)
  \/ ListingChanges \/ Seed

ProvenanceSpec == ProvenanceInit /\ [][ProvenanceNext]_vars

(***************************************************************************)
(* Properties.                                                              *)
(***************************************************************************)

(* "An empty evidence pool is the worst outcome, so discovery degrades      *)
(* rather than returning nothing": a job that names no datanet is given     *)
(* some whenever upstream lists any (discoverDatanets, textMatch).  What    *)
(* its creator named or its first run found restricts it from then on: a    *)
(* later run may only narrow that, however the listing has changed and      *)
(* wherever the run before it was lost.                                     *)
PoolIsKept ==
  [][\A j \in Jobs :
        /\ Discover(j) /\ stored[j.id] = <<>> /\ listing # <<>> => scope'[j.id] # <<>>
        /\ stored[j.id] # <<>> => ToSet(stored'[j.id]) \subseteq ToSet(stored[j.id])]_vars

(* A stored claim is linked to every source that its author cited and to no *)
(* other, by rows of its own job, whichever agent of the cohort has stored  *)
(* them, however their transactions fell and however often the job ran.     *)
CitationsAreLinked ==
  \A o \in outputs :
    /\ {e.source : e \in o.links} = o.cited
    /\ \A e \in o.links : e \in rows /\ e.job = o.agent[1]

=============================================================================
