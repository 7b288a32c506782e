---------------------------- MODULE ReppoAdapter ----------------------------
(***************************************************************************)
(* The data network behind DataProvider (packages/reppo-adapter): the HTTP  *)
(* provider with its path cache and its public and /me reads, the recorded  *)
(* fixtures, and the fallback from the one to the other.  A call occupies a *)
(* slot; a search of several datanets is one branch for each, and branches  *)
(* and slots read concurrently.                                             *)
(***************************************************************************)
EXTENDS Arrays

CONSTANTS
  Slots,         \* calls that can be under way together
  Anywhere,      \* no datanet: a read of all, or a pod that names none
  Limit,         \* rows a call asks for
  MinBatch,      \* the least a scoped search asks of one datanet (5)
  MaxFaults,     \* bound: reads that time out or answer 5xx
  Named,         \* what a call names: datanets and pods
  Lookups,       \* [kind, arg]: what the routes of the API look up themselves
  Public(_),     \* upstream rows behind a path of the public surface
  Mine(_),       \* upstream rows behind a path of the /me surface
  Owned(_),      \* all that the credential owns of a kind, in every datanet
  Recorded(_)    \* the fixture corpus of a kind

Surfaces == {"public", "mine"}
Limits == 0 .. 2 * Limit + MinBatch
Paths ==
  Surfaces \X {"datanets", "datanet", "pods", "pod", "search"} \X (Named \cup {Anywhere}) \X Limits

(* /me/subnets and /me/pods: a page of what is owned, across all datanets.  *)
OwnedPage(what, n) == <<"mine", what, Anywhere, n>>

Listing(rows) ==
  /\ rows \in Seq(ToSet(rows))
  /\ \A i \in DOMAIN rows : "up" \in DOMAIN rows[i] => {rows[i].up, rows[i].down} \subseteq Nat
ListedOnce(rows) == \A i, j \in DOMAIN rows : rows[i].id = rows[j].id => i = j

Agreed(rows) == \A i, j \in DOMAIN rows : rows[i].id = rows[j].id => rows[i] = rows[j]

(* The recordings hold a row once; upstream does not contradict itself      *)
(* about a row within one answer to a credential, whose page of n begins    *)
(* with the first n rows owned, whether upstream ends it there or not;      *)
(* nothing is known of the public surface.                                  *)
ASSUME ReppoAssumption ==
  /\ {Limit, MinBatch} \subseteq Nat \ {0} /\ MaxFaults \in Nat
  /\ Lookups \subseteq [kind : {"datanets", "datanet", "data", "pod", "search"}, arg : Named \cup {Anywhere}]
  /\ \A path \in Paths : Listing(Public(path)) /\ Listing(Mine(path)) /\ Agreed(Mine(path))
  /\ \A kind \in {"datanets", "pods"} :
       /\ Listing(Recorded(kind)) /\ ListedOnce(Recorded(kind)) /\ Listing(Owned(kind))
       /\ \A n \in Limits : Slice(Mine(OwnedPage(kind, n)), n) = Slice(Owned(kind), n)

VARIABLES
  provider,      \* "http" or "fixture": createReppoProvider
  credential,    \* "none", "valid", or "rejected" by the network
  cache,         \* paths whose answer is held
  faults,        \* reads that failed so far
  call           \* what each slot does

reppoVars == <<provider, credential, cache, faults, call>>

Singles == {"datanet", "pod"}

NoCall == [pc |-> "none", kind |-> "none", arg |-> Anywhere, scope |-> <<>>, branches |-> <<>>,
           from |-> "none", rows |-> <<>>]

Branch(net, n) == [at |-> "public", net |-> net, limit |-> n, public |-> <<>>, owned |-> <<>>]

PerDatanet(k) ==
  LET share == 2 * ((Limit + k - 1) \div k) IN IF share > MinBatch THEN share ELSE MinBatch

Called(kind, arg, scope) ==
  [NoCall EXCEPT !.pc = "reading", !.kind = kind, !.arg = arg, !.scope = scope,
                 !.branches = IF kind = "scoped"
                              THEN [i \in DOMAIN scope |-> Branch(scope[i], PerDatanet(Len(scope)))]
                              ELSE << Branch(arg, Limit) >>]

ReppoInit ==
  /\ provider \in {"http", "fixture"} /\ credential \in {"none", "valid", "rejected"}
  /\ cache = {} /\ faults = 0

(***************************************************************************)
(* What the adapter makes of an upstream pod (normalize.ts).  Vote volumes  *)
(* are orders of magnitude: a volume of 10^n - 1 is written n, so that the  *)
(* logarithm of the code is the number itself; rates are percentages.       *)
(***************************************************************************)
PodSaturation == 5        \* POD_SATURATION = 100 000
NoInformation == 50       \* a pod nobody voted on

(* A volume back from its order of magnitude: 10^n - 1.                     *)
Volume(n) == LET v[i \in 0 .. n] == IF i = 0 THEN 0 ELSE 10 * v[i - 1] + 9 IN v[n]

(* The approval rate, shrunk towards 50 in proportion to how little volume  *)
(* backs it.  The sum of two volumes is of the order of the larger one.     *)
ApprovalRate(up, down) ==
  IF up = 0 /\ down = 0 THEN NoInformation
  ELSE (100 * Volume(up)) \div (Volume(up) + Volume(down))

Backing(up, down) ==
  LET order == IF up > down THEN up ELSE down
  IN  IF order > PodSaturation THEN PodSaturation ELSE order

CurationQuality(up, down) ==
  NoInformation + ((ApprovalRate(up, down) - NoInformation) * Backing(up, down)) \div PodSaturation

(* A banned pod weighs nothing whatever its votes.                          *)
NormalizePod(pod) ==
  [id |-> pod.id, net |-> pod.net, text |-> pod.text,
   quality |-> IF pod.banned THEN 0 ELSE CurationQuality(pod.up, pod.down)]

(* A datanet is read through the same machinery; its quality plays no part. *)
NormalizeSubnet(net) == [id |-> net.id, net |-> net.id, text |-> net.text, quality |-> NoInformation]

Normalized(rows) ==
  [i \in DOMAIN rows |-> IF "up" \in DOMAIN rows[i] THEN NormalizePod(rows[i]) ELSE NormalizeSubnet(rows[i])]

(* First occurrence of each id wins.                                        *)
DedupeById(items) ==
  Arranged(items, {i \in DOMAIN items : \A j \in 1 .. i - 1 : items[j].id # items[i].id}, AsTheyCame(items))

ByQuality(items) == Sorted(items, [i \in DOMAIN items |-> -items[i].quality])

(* The quality floor first, then the best, then the limit.                  *)
Rank(items, floor, limit) ==
  Slice(ByQuality(DedupeById(Only(items, {r \in ToSet(items) : r.quality >= floor}))), limit)

(***************************************************************************)
(* The HTTP provider.                                                       *)
(***************************************************************************)
Authenticated == credential # "none"

(* What get() is asked for, query and all: page 1 of a listing and how many *)
(* rows.  /me/pods and /me/subnets take neither a datanet nor a term.       *)
Path(kind, b) ==
  LET what == CASE kind \in {"data", "scoped"} -> "pods" [] OTHER -> kind
  IN  CASE kind \in Singles -> <<b.at, what, b.net, 0>>
        [] kind \notin Singles /\ b.at = "public" -> <<b.at, what, b.net, b.limit>>
        [] kind \notin Singles /\ b.at # "public" ->
             OwnedPage(IF kind = "datanets" THEN kind ELSE "pods", b.limit)

Body(path) == Normalized(IF path[1] = "public" THEN Public(path) ELSE Mine(path))

(* After an answer: an entity that is found needs no second read.           *)
Answered(kind, b, rows) ==
  IF b.at = "public"
  THEN [b EXCEPT !.public = rows,
                 !.at = IF Authenticated /\ (kind \in Singles => rows = <<>>) THEN "mine" ELSE "done"]
  ELSE [b EXCEPT !.owned = rows, !.at = "done"]

Put(s, i, b) == call' = [call EXCEPT ![s].branches[i] = b]

(* One request, or the held answer to it: a 404 of an entity is null and is *)
(* not held, a rejected credential is refused on the /me surface, anything  *)
(* else that is not an answer is a fault.                                   *)
Read(s, i) ==
  /\ call[s].pc = "reading" /\ provider = "http"
  /\ i \in DOMAIN call[s].branches /\ call[s].branches[i].at \in {"public", "mine"}
  /\ LET b == call[s].branches[i]
         path == Path(call[s].kind, b)
         missing == call[s].kind \in Singles /\ Body(path) = <<>>
     IN \/ /\ path \in cache \/ b.at = "public" \/ credential = "valid"
           /\ Put(s, i, Answered(call[s].kind, b, Body(path)))
           /\ cache' = IF missing THEN cache ELSE cache \cup {path}
           /\ UNCHANGED faults
        \/ /\ path \notin cache /\ b.at = "mine" /\ credential = "rejected"
           /\ Put(s, i, [b EXCEPT !.at = "denied"])
           /\ UNCHANGED <<cache, faults>>
        \/ /\ path \notin cache /\ faults < MaxFaults
           /\ Put(s, i, [b EXCEPT !.at = "down"])
           /\ faults' = faults + 1 /\ UNCHANGED cache
  /\ UNCHANGED <<provider, credential>>

Expire(path) ==
  /\ path \in cache /\ cache' = cache \ {path}
  /\ UNCHANGED <<provider, credential, faults, call>>

InNet(rows, net) == Only(rows, {r \in ToSet(rows) : r.net \in {Anywhere, net}})
Matching(rows) == Only(rows, {r \in ToSet(rows) : r.text})

(* Mutant: the owned rows trail.                                            *)
MergedOwnedLast(kind, b) ==
  CASE kind = "datanets" ->
         IF Authenticated THEN Slice(DedupeById(b.public \o Matching(b.owned)), b.limit) ELSE b.public
    [] kind \in {"data", "scoped"} -> Slice(InNet(DedupeById(b.public \o b.owned), b.net), b.limit)
    [] kind = "search" -> Rank(Matching(b.owned) \o b.public, 0, b.limit)
    [] OTHER -> b.public \o b.owned

(* listDatanets, listData, the unscoped searchData, and the two lookups:    *)
(* the owned rows lead, the datanet filter is applied again, then the limit.*)
Merged(kind, b) ==
  CASE kind = "datanets" ->
         IF Authenticated THEN Slice(DedupeById(Matching(b.owned) \o b.public), b.limit) ELSE b.public
    [] kind \in {"data", "scoped"} -> Slice(InNet(DedupeById(b.owned \o b.public), b.net), b.limit)
    [] kind = "search" -> Rank(Matching(b.owned) \o b.public, 0, b.limit)
    [] OTHER -> b.public \o b.owned

(* A scoped search takes whatever its branches brought, a branch that       *)
(* failed in any way counting as empty.                                     *)
Found(c) ==
  IF c.kind # "scoped" THEN Merged(c.kind, c.branches[1])
  ELSE LET brought == [i \in DOMAIN c.branches |->
                         IF c.branches[i].at = "done" THEN Merged("scoped", c.branches[i]) ELSE <<>>]
       IN  Rank(FlattenSeq(brought), 0, Limit)

(***************************************************************************)
(* The fixtures, and the guard around the provider.                         *)
(***************************************************************************)
Fixtures(c) ==
  LET rows == Normalized(Recorded(IF c.kind \in {"datanets", "datanet"} THEN "datanets" ELSE "pods"))
      byText == Matching(ByQuality(rows))
      of(nets) == {r \in ToSet(rows) : r.net \in nets}
  IN  CASE c.kind = "datanets" -> Slice(Matching(rows), Limit)
        [] c.kind = "data" -> Slice(Only(ByQuality(rows), of({c.arg})), Limit)
        [] c.kind = "scoped" -> Slice(Only(byText, of(ToSet(c.scope))), Limit)
        [] c.kind = "search" -> Slice(byText, Limit)
        [] OTHER -> Only(rows, {r \in ToSet(rows) : r.id = c.arg})

(* Mutant: a credential that is refused degrades like any other failure.    *)
GuardedAlways(c, failure) == [c EXCEPT !.pc = "settled", !.from = "fixtures", !.rows = Fixtures(c)]

(* withFixtureFallback: a refused credential is passed on, anything else    *)
(* degrades to the recordings.                                              *)
Guarded(c, failure) ==
  IF failure = "denied" THEN [c EXCEPT !.pc = "settled", !.from = "error"]
  ELSE [c EXCEPT !.pc = "settled", !.from = "fixtures", !.rows = Fixtures(c)]

Over(b) == b.at \in {"done", "denied", "down"}

Settle(s) ==
  /\ call[s].pc = "reading"
  /\ LET c == call[s] IN
     \/ /\ provider = "fixture"
        /\ call' = [call EXCEPT ![s] = [c EXCEPT !.pc = "settled", !.from = "fixture", !.rows = Fixtures(c)]]
     \/ /\ provider = "http" /\ \A i \in DOMAIN c.branches : Over(c.branches[i])
        /\ call' = [call EXCEPT ![s] =
             IF c.kind # "scoped" /\ c.branches[1].at # "done" THEN Guarded(c, c.branches[1].at)
             ELSE [c EXCEPT !.pc = "settled", !.from = "live", !.rows = Found(c)]]
  /\ UNCHANGED <<provider, credential, cache, faults>>

Denied(c) == \E i \in DOMAIN c.branches : c.branches[i].at = "denied"

(***************************************************************************)
(* Properties.                                                              *)
(***************************************************************************)

(* A call that the network refused the credential of is never answered with *)
(* the fixtures, which are recordings of the public surface                 *)
(* (withFixtureFallback, index.ts:47).                                      *)
FixturesNeverMaskDenial ==
  \A s \in Slots : call[s].pc = "settled" /\ Denied(call[s]) => call[s].from # "fixtures"

(* A listing lacks no owned row of what was asked for among the first Limit *)
(* rows that the credential owns, and so none at all if it owns no more:    *)
(* what is owned leads, and neither the merge by id, the datanet filter nor *)
(* the limit lets a public row take its place.  The rows that count against *)
(* the page are those of every datanet: past it, what is owned elsewhere    *)
(* does crowd out what was asked for (listDatanets, listData,               *)
(* http-provider.ts:141; /me is asked for one page of all, :277-301).       *)
OwnedLead ==
  \A s \in Slots :
    call[s].pc = "settled" /\ call[s].from = "live" /\ Authenticated =>
      LET ids(rows) == {rows[i].id : i \in DOMAIN rows}
          first(what) == Normalized(Slice(Owned(what), Limit))
      IN  /\ call[s].kind = "data" => ids(InNet(first("pods"), call[s].arg)) \subseteq ids(call[s].rows)
          /\ call[s].kind = "datanets" => ids(Matching(first("datanets"))) \subseteq ids(call[s].rows)

=============================================================================
