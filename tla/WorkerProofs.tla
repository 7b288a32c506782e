---------------------------- MODULE WorkerProofs -----------------------------
EXTENDS Sums, SequenceTheorems, TLAPS, QueueDrivers, AgentRun, Provenance

(***************************************************************************)
(* What runs in the worker process: deliveries and their traces, an agent's *)
(* run and its lookups, and where its evidence comes from.  The four parts: *)
(*   - lemmas on arrays, that rank, filter and cut listings;                *)
(*   - Provenance: ClaimsLinked, PoolsAreKept;                              *)
(*   - QueueDrivers and Tracing: DriverInvariant and what follows from it;  *)
(*   - AgentRun and ReppoAdapter: AgentInvariant and what follows from it.  *)
(***************************************************************************)

LEMMA FiniteUpto ==
  ASSUME NEW k \in Nat
  PROVE  IsFiniteSet(1..k) /\ Cardinality(1..k) = k
<1>1. [i \in 1..k |-> i] \in Surjection(1..k, 1..k) /\ [i \in 1..k |-> i] \in Bijection(1..k, 1..k)
  BY DEF Surjection, Bijection, Injection, IsInjective
<1>2. ExistsSurjection(1..k, 1..k) /\ ExistsBijection(1..k, 1..k)
  BY <1>1 DEF ExistsSurjection, ExistsBijection
<1>. QED BY <1>2, FS_NatSurjection, FS_CountingElements

(***************************************************************************)
(* Arrays.  The rows that a method leaves are those at the places it takes, *)
(* each at its position.                                                    *)
(***************************************************************************)
Weighed(these, weight) == these \subseteq Int /\ IsFiniteSet(these) /\ \A i \in these : weight[i] \in Int

LEMMA PositionInside ==
  ASSUME NEW these, NEW weight, Weighed(these, weight), NEW i \in these
  PROVE  Position(these, weight, i) \in 1 .. Cardinality(these)
<1>. DEFINE lower == {j \in these : Before(weight, j, i)}
<1>1. i \in lower /\ lower \in SUBSET these
  BY DEF Before, Weighed
<1>. HIDE DEF lower
<1>2. IsFiniteSet(lower) /\ Cardinality(lower) <= Cardinality(these) /\ IsFiniteSet(these)
  BY <1>1, FS_Subset DEF Weighed
<1>3. Cardinality(lower) \in Nat /\ Cardinality(these) \in Nat /\ Cardinality(lower) # 0
  BY <1>1, <1>2, FS_CardinalityType, FS_EmptySet
<1>. QED BY <1>2, <1>3 DEF Position, lower

(* What is lighter, or as heavy and came earlier, is in front.              *)
LEMMA PositionsInOrder ==
  ASSUME NEW these, NEW weight, Weighed(these, weight), NEW i \in these, NEW j \in these,
         i # j, Before(weight, i, j)
  PROVE  Position(these, weight, i) < Position(these, weight, j)
<1>. DEFINE low(k) == {l \in these : Before(weight, l, k)}
<1>1. low(i) \in SUBSET low(j) /\ low(j) \in SUBSET these
  <2>1. ASSUME NEW l \in these, Before(weight, l, i) PROVE Before(weight, l, j)
    BY <2>1 DEF Before, Weighed
  <2>. QED BY <2>1
<1>2. j \in low(j) /\ j \notin low(i)
  BY DEF Before, Weighed
<1>. HIDE DEF low
<1>3. IsFiniteSet(low(j)) /\ IsFiniteSet(low(i))
  BY <1>1, FS_Subset DEF Weighed
<1>4. Cardinality(low(i)) <= Cardinality(low(j)) /\ Cardinality(low(i)) # Cardinality(low(j))
  BY <1>1, <1>2, <1>3, FS_Subset
<1>5. Cardinality(low(i)) < Cardinality(low(j))
  BY <1>3, <1>4, FS_CardinalityType
<1>. QED BY <1>5 DEF Position, low

LEMMA PositionsDiffer ==
  ASSUME NEW these, NEW weight, Weighed(these, weight), NEW i \in these, NEW j \in these,
         Position(these, weight, i) = Position(these, weight, j)
  PROVE  i = j
<1>. SUFFICES ASSUME i # j PROVE FALSE
  OBVIOUS
<1>1. Before(weight, i, j) \/ Before(weight, j, i)
  BY DEF Before, Weighed
<1>2. Position(these, weight, i) \in Int
  <2>1. Position(these, weight, i) \in 1 .. Cardinality(these)
    BY PositionInside
  <2>. QED BY <2>1
<1>. QED BY <1>1, <1>2, PositionsInOrder

(* Every position is taken: otherwise two places would share one.           *)
LEMMA PositionTaken ==
  ASSUME NEW these, NEW weight, Weighed(these, weight), NEW k \in 1 .. Cardinality(these)
  PROVE  \E i \in these : Position(these, weight, i) = k
<1>. DEFINE n == Cardinality(these)
            others == (1 .. n) \ {k}
            f == [i \in these |-> Position(these, weight, i)]
<1>. SUFFICES ASSUME \A i \in these : Position(these, weight, i) # k PROVE FALSE
  OBVIOUS
<1>1. n \in Nat /\ IsFiniteSet(these)
  BY FS_CardinalityType DEF Weighed
<1>2. IsFiniteSet(others) /\ Cardinality(others) < n
  <2>1. IsFiniteSet(1 .. n) /\ Cardinality(1 .. n) = n
    BY <1>1, FiniteUpto
  <2>2. IsFiniteSet(others) /\ Cardinality(others) = n - 1
    <3>. HIDE DEF n
    <3>. QED BY <2>1, FS_RemoveElement DEF n
  <2>. QED BY <1>1, <2>2
<1>3. f \in [these -> others]
  BY PositionInside
<1>. HIDE DEF f, others
<1>4. PICK i \in these, j \in these : i # j /\ f[i] = f[j]
  BY <1>1, <1>2, <1>3, FS_PigeonHole
<1>5. Position(these, weight, i) = Position(these, weight, j)
  BY <1>4 DEF f
<1>. QED BY <1>4, <1>5, PositionsDiffer

LEMMA RowsInPosition ==
  ASSUME NEW seq, NEW these, NEW weight, Weighed(these, weight)
  PROVE  /\ DOMAIN Arranged(seq, these, weight) = 1 .. Cardinality(these)
         /\ \A k \in 1 .. Cardinality(these) :
              \E i \in these : Position(these, weight, i) = k /\ Arranged(seq, these, weight)[k] = seq[i]
         /\ \A i \in these : /\ Position(these, weight, i) \in 1 .. Cardinality(these)
                            /\ Arranged(seq, these, weight)[Position(these, weight, i)] = seq[i]
<1>. DEFINE row(k) == CHOOSE i \in these : Position(these, weight, i) = k
<1>1. DOMAIN Arranged(seq, these, weight) = 1 .. Cardinality(these)
  BY DEF Arranged
<1>2. \A k \in 1 .. Cardinality(these) : Arranged(seq, these, weight)[k] = seq[row(k)]
  BY DEF Arranged
<1>3. ASSUME NEW k \in 1 .. Cardinality(these) PROVE row(k) \in these /\ Position(these, weight, row(k)) = k
  BY PositionTaken
<1>. HIDE DEF row
<1>4. ASSUME NEW i \in these
      PROVE  /\ Position(these, weight, i) \in 1 .. Cardinality(these)
             /\ Arranged(seq, these, weight)[Position(these, weight, i)] = seq[i]
  <2>1. Position(these, weight, i) \in 1 .. Cardinality(these)
    BY PositionInside
  <2>2. row(Position(these, weight, i)) = i
    BY <1>3, <2>1, PositionsDiffer
  <2>. QED BY <1>2, <2>1, <2>2
<1>. QED BY <1>1, <1>2, <1>3, <1>4

LEMMA ArrangedType ==
  ASSUME NEW seq, NEW these, NEW weight, Weighed(these, weight), NEW T, \A i \in these : seq[i] \in T
  PROVE  Arranged(seq, these, weight) \in Seq(T) /\ Len(Arranged(seq, these, weight)) = Cardinality(these)
<1>1. Cardinality(these) \in Nat
  BY FS_CardinalityType DEF Weighed
<1>. DEFINE f == Arranged(seq, these, weight)
            n == Cardinality(these)
<1>2. DOMAIN f = 1 .. n /\ \A k \in 1 .. n : f[k] \in T
  BY RowsInPosition
<1>3. f = [k \in 1 .. n |-> f[k]]
  BY DEF Arranged
<1>. HIDE DEF f, n
<1>. QED BY <1>1, <1>2, <1>3 DEF f, n

ComesFrom(seq, these, weight, k) ==
  \E i \in these : Position(these, weight, i) = k /\ Arranged(seq, these, weight)[k] = seq[i]

LEMMA ArrangedFrom ==
  ASSUME NEW seq, NEW these, NEW weight, Weighed(these, weight)
  PROVE  \A k \in DOMAIN Arranged(seq, these, weight) : ComesFrom(seq, these, weight, k)
<1>. DEFINE row(k) == CHOOSE i \in these : Position(these, weight, i) = k
<1>1. DOMAIN Arranged(seq, these, weight) = 1 .. Cardinality(these)
  BY DEF Arranged
<1>2. \A k \in 1 .. Cardinality(these) : Arranged(seq, these, weight)[k] = seq[row(k)]
  BY DEF Arranged
<1>3. ASSUME NEW k \in 1 .. Cardinality(these) PROVE row(k) \in these /\ Position(these, weight, row(k)) = k
  BY PositionTaken
<1>. HIDE DEF row
<1>. QED BY <1>1, <1>2, <1>3 DEF ComesFrom

(* Filter.                                                                  *)
Kept(seq, kept) == {i \in DOMAIN seq : seq[i] \in kept}

LEMMA DomainWeighed ==
  ASSUME NEW S, NEW seq \in Seq(S), NEW these, these \subseteq DOMAIN seq
  PROVE  /\ Weighed(these, AsTheyCame(seq))
         /\ \A i, j \in these : Before(AsTheyCame(seq), i, j) <=> i <= j
<1>1. DOMAIN seq = 1 .. Len(seq) /\ Len(seq) \in Nat
  OBVIOUS
<1>2. IsFiniteSet(DOMAIN seq)
  BY <1>1, FiniteUpto
<1>3. IsFiniteSet(these)
  BY <1>2, FS_Subset
<1>4. \A i \in DOMAIN seq : AsTheyCame(seq)[i] = 0
  BY DEF AsTheyCame
<1>. QED BY <1>1, <1>3, <1>4 DEF Weighed, Before

LEMMA OnlyKept ==
  ASSUME NEW S, NEW seq \in Seq(S), NEW kept
  PROVE  Only(seq, kept) \in Seq(S \cap kept)
<1>1. Weighed(Kept(seq, kept), AsTheyCame(seq)) /\ \A i \in Kept(seq, kept) : seq[i] \in S \cap kept
  BY DomainWeighed DEF Kept
<1>. QED BY <1>1, ArrangedType DEF Only, Kept

LEMMA SortedType ==
  ASSUME NEW S, NEW seq \in Seq(S), NEW weight, \A i \in DOMAIN seq : weight[i] \in Int
  PROVE  Sorted(seq, weight) \in Seq(S) /\ Len(Sorted(seq, weight)) = Len(seq)
<1>1. DOMAIN seq = 1 .. Len(seq) /\ Len(seq) \in Nat /\ \A i \in DOMAIN seq : seq[i] \in S
  OBVIOUS
<1>2. IsFiniteSet(DOMAIN seq) /\ Cardinality(DOMAIN seq) = Len(seq)
  BY <1>1, FiniteUpto
<1>3. Weighed(DOMAIN seq, weight)
  BY <1>1, <1>2 DEF Weighed
<1>. QED BY <1>1, <1>2, <1>3, ArrangedType DEF Sorted

LEMMA SliceType ==
  ASSUME NEW S, NEW seq \in Seq(S), NEW n \in Nat
  PROVE  /\ Slice(seq, n) \in Seq(S) /\ Len(Slice(seq, n)) = IF Len(seq) < n THEN Len(seq) ELSE n
         /\ \A i \in DOMAIN Slice(seq, n) : i \in DOMAIN seq /\ Slice(seq, n)[i] = seq[i]
<1>. DEFINE k == IF Len(seq) < n THEN Len(seq) ELSE n
<1>1. k \in Nat /\ k <= Len(seq) /\ DOMAIN seq = 1 .. Len(seq)
  OBVIOUS
<1>2. \A i \in 1..k : seq[i] \in S
  BY <1>1
<1>. HIDE DEF k
<1>3. /\ SubSeq(seq, 1, k) \in Seq(S) /\ Len(SubSeq(seq, 1, k)) = k
      /\ \A i \in 1 .. k : SubSeq(seq, 1, k)[i] = seq[i]
  BY <1>1, <1>2, SubSeqProperties
<1>4. DOMAIN SubSeq(seq, 1, k) = 1 .. k
  BY <1>3
<1>. QED BY <1>1, <1>3, <1>4 DEF Slice, k
(***************************************************************************)
(* CitationsAreLinked for every cohort, reading and number of lost runs.    *)
(* Its invariant adds that an agent cites only what it read until its       *)
(* transaction commits; the rest is that the rows read back by hash hold    *)
(* one of every source that was read.                                       *)
(***************************************************************************)
Readable == UNION {g.read : g \in Readings}

NetsOf(read) == {row.net : row \in read}
SourcesOf(read) == {row.source : row \in read}

AgentType ==
  [pc : {"none", "reading", "failed", "caching", "upsert", "persist", "saved"},
   read : SUBSET Readable, cited : SUBSET Readable, local : SUBSET NetsOf(Readable),
   todo : SUBSET Readable, links : SUBSET SourcesOf(Readable)]

(* An agent cites what it has read, from its reading to its transaction     *)
(* (execution.ts persist), and is in one of the states of the model.        *)
CitesWhatItRead ==
  /\ agent \in [Agents -> AgentType]
  /\ \A g \in Agents : agent[g].cited \subseteq agent[g].read

Linked == CitesWhatItRead /\ CitationsAreLinked

(* Whatever an agent read has a row of its job after the insert: the one    *)
(* that was there by hash, or its own.                                      *)
LEMMA EverySourceReadBack ==
  ASSUME NEW g \in Agents, NEW row \in agent[g].read
  PROVE  \E e \in ReadBack(g) : e.source = row.source
<1>1. CASE HasHash(g[1], row)
  BY <1>1 DEF HasHash, ReadBack, Hashes
<1>2. CASE ~HasHash(g[1], row)
  <2>1. Evidence(g, row) \in Inserted(g)
    BY <1>2 DEF Inserted
  <2>2. /\ Evidence(g, row).job = g[1] /\ Evidence(g, row).source = row.source
        /\ Evidence(g, row).edition = row.edition
    BY DEF Evidence
  <2>. QED BY <2>1, <2>2 DEF ReadBack, Hashes
<1>. QED BY <1>1, <1>2

(* What a transaction writes is linked as it should be.                     *)
LEMMA PersistLinks ==
  ASSUME CitesWhatItRead, NEW g \in Agents, NEW byKey \in Keyings(g)
  PROVE  /\ {e.source : e \in Links(g, byKey)} = {row.source : row \in agent[g].cited}
         /\ \A e \in Links(g, byKey) : e \in rows \cup Inserted(g) /\ e.job = g[1]
<1>1. /\ DOMAIN byKey = {e.source : e \in ReadBack(g)}
      /\ \A s \in DOMAIN byKey : byKey[s] \in ReadBack(g) /\ byKey[s].source = s
  BY DEF Keyings
<1>2. \A row \in agent[g].cited : row.source \in DOMAIN byKey
  BY <1>1, EverySourceReadBack DEF CitesWhatItRead
<1>. DEFINE links == Links(g, byKey)
<1>3. links = {byKey[row.source] : row \in agent[g].cited}
  BY <1>2 DEF Links
<1>4. \A row \in agent[g].cited : byKey[row.source].source = row.source
  BY <1>1, <1>2
<1>5. \A e \in links : e \in ReadBack(g)
  BY <1>1, <1>2, <1>3
<1>6. {e.source : e \in links} = {row.source : row \in agent[g].cited}
  <2>1. {e.source : e \in links} = {byKey[row.source].source : row \in agent[g].cited}
    BY <1>3
  <2>. QED BY <2>1, <1>4
<1>. QED BY <1>5, <1>6 DEF ReadBack

LEMMA LinkedInit == ProvenanceInit => Linked
<1>. SUFFICES ASSUME ProvenanceInit PROVE Linked
  OBVIOUS
<1>1. NoAgent \in AgentType /\ NoAgent.cited = {} /\ NoAgent.read = {}
  BY DEF NoAgent, AgentType
<1>. QED BY <1>1 DEF ProvenanceInit, Linked, CitesWhatItRead, CitationsAreLinked

(* A step that moves one agent to a state in which it cites what it read.   *)
LEMMA MoveKeeps ==
  ASSUME CitesWhatItRead, NEW g \in Agents, NEW state \in AgentType, state.cited \subseteq state.read,
         Move(g, state)
  PROVE  CitesWhatItRead'
BY DEF CitesWhatItRead, Move

LEMMA LinkedStep == Linked /\ [ProvenanceNext]_vars => Linked'
<1>. SUFFICES ASSUME Linked, [ProvenanceNext]_vars PROVE Linked'
  OBVIOUS
<1>0. /\ CitesWhatItRead /\ CitationsAreLinked
      /\ \A g \in Agents : agent[g] \in AgentType /\ agent[g].cited \subseteq agent[g].read
  BY DEF Linked, CitesWhatItRead
<1>1. NoAgent \in AgentType /\ NoAgent.cited = {} /\ NoAgent.read = {}
  BY DEF NoAgent, AgentType
<1>2. ASSUME UNCHANGED <<rows, outputs>> PROVE CitationsAreLinked'
  BY <1>0, <1>2 DEF CitationsAreLinked
<1>3. ASSUME UNCHANGED agent PROVE CitesWhatItRead'
  BY <1>0, <1>3 DEF CitesWhatItRead
<1>4. CASE \E job \in Jobs : Discover(job) \/ Snapshot(job) \/ Join(job) \/ Lose(job)
  <2>1. UNCHANGED <<rows, outputs>>
    BY <1>4 DEF Discover, Snapshot, Join, Lose
  <2>2. CitesWhatItRead'
    <3>1. PICK job \in Jobs : Discover(job) \/ Snapshot(job) \/ Join(job) \/ Lose(job)
      BY <1>4
    <3>2. CASE UNCHANGED agent
      BY <1>3, <3>2
    <3>3. CASE agent' = [g \in Agents |-> IF g[1] = job.id THEN [NoAgent EXCEPT !.pc = "reading"] ELSE agent[g]]
      <4>1. /\ [NoAgent EXCEPT !.pc = "reading"] \in AgentType
            /\ [NoAgent EXCEPT !.pc = "reading"].cited = {}
        BY DEF NoAgent, AgentType
      <4>. QED BY <1>0, <3>3, <4>1 DEF CitesWhatItRead
    <3>4. CASE agent' = [g \in Agents |-> IF g[1] = job.id THEN NoAgent ELSE agent[g]]
      BY <1>0, <1>1, <3>4 DEF CitesWhatItRead
    <3>. QED BY <3>1, <3>2, <3>3, <3>4 DEF Discover, Snapshot, Join, Lose
  <2>. QED BY <1>2, <2>1, <2>2 DEF Linked
<1>5. ASSUME NEW g \in Agents, Reads(g) PROVE Linked'
  <2>1. UNCHANGED <<rows, outputs>>
    BY <1>5 DEF Reads
  <2>2. CASE Move(g, [NoAgent EXCEPT !.pc = "failed"])
    <3>1. /\ [NoAgent EXCEPT !.pc = "failed"] \in AgentType /\ [NoAgent EXCEPT !.pc = "failed"].cited = {}
      BY DEF NoAgent, AgentType
    <3>2. CitesWhatItRead'
      BY <1>0, <2>2, <3>1, MoveKeeps
    <3>. QED BY <1>2, <2>1, <3>2 DEF Linked
  <2>3. CASE \E r \in Readings :
               Move(g, [agent[g] EXCEPT !.pc = "caching", !.read = r.read, !.cited = r.cited])
    <3>1. PICK r \in Readings :
            Move(g, [agent[g] EXCEPT !.pc = "caching", !.read = r.read, !.cited = r.cited])
      BY <2>3
    <3>2. r.read \subseteq Readable /\ r.cited \subseteq r.read
      BY ProvenanceAssumption DEF Readable
    <3>. DEFINE state == [agent[g] EXCEPT !.pc = "caching", !.read = r.read, !.cited = r.cited]
    <3>3. state \in AgentType /\ state.cited \subseteq state.read
      BY <1>0, <3>2 DEF AgentType
    <3>4. CitesWhatItRead'
      BY <1>0, <3>1, <3>3, MoveKeeps
    <3>. QED BY <1>2, <2>1, <3>4 DEF Linked
  <2>. QED BY <1>5, <2>2, <2>3 DEF Reads
<1>6. ASSUME NEW g \in Agents, FindNets(g) \/ WriteItem(g) \/ PersistFails(g) PROVE Linked'
  <2>1. UNCHANGED <<rows, outputs>>
    BY <1>6 DEF FindNets, WriteItem, PersistFails
  <2>2. \E state \in AgentType : state.cited \subseteq state.read /\ Move(g, state)
    <3>1. CASE FindNets(g)
      <4>1. CASE ~seeded \/ Pods(agent[g].read) = {}
        BY <1>0, <3>1, <4>1 DEF FindNets, AgentType
      <4>2. CASE ~(~seeded \/ Pods(agent[g].read) = {})
        <5>. DEFINE state == [agent[g] EXCEPT !.pc = "upsert", !.todo = Pods(agent[g].read),
                                              !.local = nets \cap {row.net : row \in Pods(agent[g].read)}]
        <5>1. /\ Pods(agent[g].read) \subseteq Readable
              /\ nets \cap {row.net : row \in Pods(agent[g].read)} \subseteq NetsOf(Readable)
          BY <1>0 DEF Pods, AgentType, NetsOf
        <5>2. state \in AgentType /\ state.cited \subseteq state.read
          BY <1>0, <5>1 DEF AgentType
        <5>3. Move(g, state)
          BY <3>1, <4>2 DEF FindNets
        <5>. QED BY <5>2, <5>3
      <4>. QED BY <4>1, <4>2
    <3>2. CASE WriteItem(g)
      <4>1. CASE agent[g].todo = {}
        BY <1>0, <3>2, <4>1 DEF WriteItem, AgentType
      <4>2. CASE agent[g].todo # {}
        <5>1. PICK row \in agent[g].todo :
                Move(g, [agent[g] EXCEPT !.todo = @ \ {row}, !.links = @ \cup {row.source}])
          BY <3>2, <4>2 DEF WriteItem
        <5>. DEFINE state == [agent[g] EXCEPT !.todo = @ \ {row}, !.links = @ \cup {row.source}]
        <5>2. row \in Readable /\ row.source \in SourcesOf(Readable)
          BY <1>0 DEF AgentType, SourcesOf
        <5>3. state \in AgentType /\ state.cited \subseteq state.read
          BY <1>0, <5>2 DEF AgentType
        <5>. QED BY <5>1, <5>3
      <4>. QED BY <4>1, <4>2
    <3>3. CASE PersistFails(g)
      <4>1. /\ [NoAgent EXCEPT !.pc = "failed"] \in AgentType /\ [NoAgent EXCEPT !.pc = "failed"].cited = {}
        BY DEF NoAgent, AgentType
      <4>. QED BY <3>3, <4>1 DEF PersistFails
    <3>. QED BY <1>6, <3>1, <3>2, <3>3
  <2>3. CitesWhatItRead'
    BY <1>0, <2>2, MoveKeeps
  <2>. QED BY <1>2, <2>1, <2>3 DEF Linked
<1>7. ASSUME NEW g \in Agents, Persist(g) PROVE Linked'
  <2>1. /\ [NoAgent EXCEPT !.pc = "failed"] \in AgentType /\ [NoAgent EXCEPT !.pc = "failed"].cited = {}
        /\ [NoAgent EXCEPT !.pc = "saved"] \in AgentType /\ [NoAgent EXCEPT !.pc = "saved"].cited = {}
    BY DEF NoAgent, AgentType
  <2>2. CitesWhatItRead'
    <3>1. \E state \in AgentType : state.cited = {} /\ Move(g, state)
      BY <1>7, <2>1 DEF Persist
    <3>. QED BY <1>0, <3>1, MoveKeeps
  <2>3. CASE UNCHANGED <<rows, outputs>>
    BY <1>2, <2>2, <2>3 DEF Linked
  <2>4. CASE ~HasOutput(g)
    <3>1. PICK byKey \in Keyings(g) :
            /\ rows' = rows \cup Inserted(g)
            /\ outputs' = outputs \cup
                 {[agent |-> g, cited |-> {row.source : row \in agent[g].cited}, links |-> Links(g, byKey)]}
      BY <1>7, <2>4 DEF Persist
    <3>. DEFINE links == Links(g, byKey)
    <3>. DEFINE cited == {row.source : row \in agent[g].cited}
    <3>2. {e.source : e \in links} = cited /\ \A e \in links : e \in rows' /\ e.job = g[1]
      BY <1>0, <3>1, PersistLinks
    <3>. HIDE DEF links, cited
    <3>3. outputs' = outputs \cup {[agent |-> g, cited |-> cited, links |-> links]}
      BY <3>1 DEF links, cited
    <3>4. ASSUME NEW o \in outputs'
          PROVE  {e.source : e \in o.links} = o.cited /\ \A e \in o.links : e \in rows' /\ e.job = o.agent[1]
      <4>1. CASE o \in outputs
        BY <1>0, <3>1, <4>1 DEF CitationsAreLinked
      <4>2. CASE o = [agent |-> g, cited |-> cited, links |-> links]
        <5>1. o.agent = g /\ o.cited = cited /\ o.links = links
          BY <4>2
        <5>. QED BY <3>2, <5>1
      <4>. QED BY <3>3, <3>4, <4>1, <4>2
    <3>5. CitationsAreLinked'
      BY <3>4 DEF CitationsAreLinked
    <3>. QED BY <2>2, <3>5 DEF Linked
  <2>. QED BY <1>7, <2>3, <2>4 DEF Persist
<1>8. CASE ListingChanges \/ Seed \/ UNCHANGED vars
  BY <1>2, <1>3, <1>8 DEF ListingChanges, Seed, vars, Linked
<1>. QED BY <1>4, <1>5, <1>6, <1>7, <1>8 DEF ProvenanceNext

(* Whatever a cohort read, however its transactions fell and however often  *)
(* its run was lost and delivered again, a stored claim is linked to rows   *)
(* of its own job that hold exactly the sources it cited (persist).         *)
THEOREM ClaimsLinked == ProvenanceSpec => []CitationsAreLinked
<1>1. Linked => CitationsAreLinked
  BY DEF Linked
<1>. QED BY <1>1, LinkedInit, LinkedStep, PTL DEF ProvenanceSpec

(***************************************************************************)
(* PoolIsKept for every job, listing and scope.                             *)
(***************************************************************************)
LEMMA BestOfSome ==
  ASSUME NEW S, NEW seq \in Seq(S), seq # <<>>, \A i \in DOMAIN seq : seq[i].approval \in Int
  PROVE  Slice(ByApproval(seq), PoolSize) # <<>>
<1>1. ByApproval(seq) \in Seq(S) /\ Len(ByApproval(seq)) = Len(seq)
  BY SortedType DEF ByApproval
<1>2. PoolSize \in Nat /\ PoolSize > 0
  BY ProvenanceAssumption
<1>3. Len(seq) # 0
  BY EmptySeq
<1>4. /\ Len(Slice(ByApproval(seq), PoolSize)) = IF Len(seq) < PoolSize THEN Len(seq) ELSE PoolSize
      /\ Slice(ByApproval(seq), PoolSize) \in Seq(S)
  BY <1>1, <1>2, SliceType
<1>. QED BY <1>2, <1>3, <1>4, EmptySeq

(* discoverDatanets finds something in a listing that has something.        *)
LEMMA SomethingFound ==
  ASSUME NEW job \in Jobs, NEW all \in Listings, all # <<>>
  PROVE  Discovered(job, <<>>, all) # <<>>
<1>. DEFINE S == ToSet(all)
            byDomain == Only(all, {n \in ToSet(all) : n.domains \cap job.domains # {}})
            hit == Only(all, {n \in ToSet(all) : n.hits[job.id] > 0})
            pool == IF byDomain # <<>> THEN byDomain ELSE TextMatch(all, job)
<1>1. all \in Seq(S) /\ \A n \in S : n.approval \in Int /\ n.hits[job.id] \in Int
  BY ProvenanceAssumption
<1>2. byDomain \in Seq(S) /\ hit \in Seq(S)
  <2>1. ASSUME NEW kept PROVE Only(all, kept) \in Seq(S)
    <3>1. Only(all, kept) \in Seq(S \cap kept)
      BY <1>1, OnlyKept
    <3>. HIDE DEF S
    <3>. QED BY <3>1
  <2>. QED BY <2>1
<1>. HIDE DEF S, byDomain
<1>3. TextMatch(all, job) \in Seq(S) /\ TextMatch(all, job) # <<>>
  <2>1. CASE ~job.terms \/ hit = <<>>
    <3>1. PoolSize \in Nat /\ PoolSize > 0 /\ Len(all) # 0
      BY <1>1, EmptySeq, ProvenanceAssumption
    <3>2. /\ Slice(all, PoolSize) \in Seq(S)
          /\ Len(Slice(all, PoolSize)) = IF Len(all) < PoolSize THEN Len(all) ELSE PoolSize
      BY <1>1, <3>1, SliceType
    <3>3. TextMatch(all, job) = Slice(all, PoolSize)
      BY <2>1 DEF TextMatch
    <3>. QED BY <1>1, <3>1, <3>2, <3>3, EmptySeq
  <2>2. CASE ~(~job.terms \/ hit = <<>>)
    <3>. DEFINE weight == [i \in DOMAIN hit |-> -hit[i].hits[job.id]]
    <3>1. TextMatch(all, job) = Sorted(hit, weight)
      BY <2>2 DEF TextMatch
    <3>. HIDE DEF hit
    <3>2. \A i \in DOMAIN hit : weight[i] \in Int
      BY <1>1, <1>2
    <3>. HIDE DEF weight
    <3>3. Sorted(hit, weight) \in Seq(S) /\ Len(Sorted(hit, weight)) = Len(hit)
      BY <1>2, <3>2, SortedType
    <3>. QED BY <1>2, <2>2, <3>1, <3>3, EmptySeq
  <2>. QED BY <2>1, <2>2
<1>4. pool \in Seq(S) /\ pool # <<>>
  BY <1>2, <1>3
<1>5. Discovered(job, <<>>, all) = Slice(ByApproval(pool), PoolSize)
  BY DEF Discovered, byDomain
<1>. HIDE DEF pool
<1>6. \A i \in DOMAIN pool : pool[i].approval \in Int
  BY <1>1, <1>4
<1>. QED BY <1>4, <1>5, <1>6, BestOfSome

(* What a job is restricted to is only narrowed.                            *)
LEMMA ScopeNarrows ==
  ASSUME NEW job, NEW explicit, explicit # <<>>, NEW S, NEW all \in Seq(S)
  PROVE  ToSet(IdSeq(Discovered(job, explicit, all))) \subseteq ToSet(explicit)
<1>. DEFINE kept == {n \in ToSet(all) : n.id \in ToSet(explicit)}
            found == Only(all, kept)
<1>1. found \in Seq(S \cap kept)
  BY OnlyKept
<1>2. Discovered(job, explicit, all) = found
  BY DEF Discovered
<1>. HIDE DEF found
<1>3. \A i \in DOMAIN found : found[i].id \in ToSet(explicit)
  BY <1>1
<1>. QED BY <1>2, <1>3 DEF IdSeq, ToSet

JobsKnown ==
  /\ listing \in Listings
  /\ DOMAIN stored = {j.id : j \in Jobs} /\ DOMAIN scope = {j.id : j \in Jobs}

LEMMA JobsKnownStep == JobsKnown /\ [ProvenanceNext]_vars => JobsKnown'
<1>. SUFFICES ASSUME JobsKnown, [ProvenanceNext]_vars PROVE JobsKnown'
  OBVIOUS
<1>1. ASSUME NEW job \in Jobs, Discover(job) \/ Snapshot(job) \/ Join(job) \/ Lose(job) PROVE JobsKnown'
  BY <1>1 DEF JobsKnown, Discover, Snapshot, Join, Lose
<1>2. ASSUME NEW g \in Agents, Reads(g) \/ FindNets(g) \/ WriteItem(g) \/ Persist(g) \/ PersistFails(g)
      PROVE  JobsKnown'
  BY <1>2 DEF JobsKnown, Reads, FindNets, WriteItem, Persist, PersistFails
<1>3. CASE ListingChanges \/ Seed \/ UNCHANGED vars
  BY <1>3 DEF JobsKnown, ListingChanges, Seed, vars
<1>. QED BY <1>1, <1>2, <1>3 DEF ProvenanceNext

(* What one job's run finds.                                                *)
LEMMA DiscoverKeepsPool ==
  ASSUME JobsKnown, NEW job \in Jobs, Discover(job), NEW j \in Jobs
  PROVE  /\ stored[j.id] # <<>> => ToSet(stored'[j.id]) \subseteq ToSet(stored[j.id])
         /\ j = job /\ stored[j.id] = <<>> /\ listing # <<>> => scope'[j.id] # <<>>
<1>. DEFINE found == Discovered(job, stored[job.id], listing)
<1>1. listing \in Listings /\ listing \in Seq(ToSet(listing))
  BY ProvenanceAssumption DEF JobsKnown
<1>2. /\ scope' = [scope EXCEPT ![job.id] = IdSeq(found)]
      /\ stored' = IF IdSeq(found) # <<>> THEN [stored EXCEPT ![job.id] = IdSeq(found)] ELSE stored
  BY DEF Discover
<1>3. ASSUME stored[job.id] # <<>> PROVE ToSet(IdSeq(found)) \subseteq ToSet(stored[job.id])
  BY <1>1, <1>3, ScopeNarrows
<1>4. ASSUME stored[job.id] = <<>>, listing # <<>> PROVE IdSeq(found) # <<>>
  <2>1. found # <<>>
    BY <1>1, <1>4, SomethingFound
  <2>. QED BY <2>1 DEF IdSeq
<1>. HIDE DEF found
<1>. QED BY <1>2, <1>3, <1>4 DEF JobsKnown

(* A job that names no datanet is given some whenever upstream lists any,   *)
(* and what it names or was given once is only narrowed by later runs,      *)
(* however the listing has changed (discoverDatanets).                      *)
THEOREM PoolsAreKept == ProvenanceSpec => PoolIsKept
<1>. DEFINE Keeps == \A j \in Jobs :
              /\ Discover(j) /\ stored[j.id] = <<>> /\ listing # <<>> => scope'[j.id] # <<>>
              /\ stored[j.id] # <<>> => ToSet(stored'[j.id]) \subseteq ToSet(stored[j.id])
<1>1. ProvenanceInit => JobsKnown
  BY DEF ProvenanceInit, JobsKnown
<1>2. JobsKnown /\ [ProvenanceNext]_vars => [Keeps]_vars
  <2>. SUFFICES ASSUME JobsKnown, ProvenanceNext PROVE Keeps
    OBVIOUS
  <2>1. ASSUME NEW j \in Jobs, Discover(j), stored[j.id] = <<>>, listing # <<>> PROVE scope'[j.id] # <<>>
    BY <2>1, DiscoverKeepsPool
  <2>2. ASSUME NEW j \in Jobs, stored[j.id] # <<>> PROVE ToSet(stored'[j.id]) \subseteq ToSet(stored[j.id])
    <3>1. CASE \E job \in Jobs : Discover(job)
      BY <2>2, <3>1, DiscoverKeepsPool
    <3>2. CASE ~ \E job \in Jobs : Discover(job)
      <4>1. UNCHANGED stored
        BY <3>2 DEF ProvenanceNext, Snapshot, Join, Lose, Reads, FindNets, WriteItem, Persist,
                    PersistFails, ListingChanges, Seed
      <4>. QED BY <4>1
    <3>. QED BY <3>1, <3>2
  <2>. QED BY <2>1, <2>2
<1>. QED BY <1>1, <1>2, JobsKnownStep, PTL DEF ProvenanceSpec, PoolIsKept

(***************************************************************************)
(* Queues.  A parcel is a message that is to be delivered, wherever it is:  *)
(* listed, delayed, or running.  The invariant says that the parcels of a   *)
(* message are one, what it carries, and where the spans of its deliveries  *)
(* are on their way to the collector.                                       *)
(***************************************************************************)
SpanIds == ({"server"} \X Messages) \cup ({"consumer"} \X Messages \X Nat)
Names == SpanIds \cup {h.trace : h \in Headers} \cup {h.span : h \in Headers} \cup {NoId}
Contexts == [trace : Names, span : Names, sampled : BOOLEAN]
Wires == [version : {0}, trace : Names, span : Names, flags : {0, 1}]
Waiting == [msg : Messages, attempt : Nat, trace : Wires]
Taken == [msg : Messages, attempt : Nat, trace : Wires, pc : {"receive", "handle", "handed", "failing"}]

(* Types: what the drivers hold, and the tree of spans.                     *)
DriverTypeOK ==
  /\ kind \in {"memory", "bullmq"}
  /\ list \in [Queues -> Seq(Waiting)] /\ inFlight \in [Queues -> Nat]
  /\ delayed \subseteq Waiting /\ running \subseteq Taken /\ IsFiniteSet(running)
  /\ seen \subseteq Messages /\ request \subseteq Messages
  /\ reports \subseteq [msg : Messages, attempt : Nat]
  /\ origin \in [Messages -> Seq(Contexts)]
  /\ ended \in [Messages -> SUBSET {"done", "failed"}]

SpansTypeOK ==
  /\ DOMAIN spans \subseteq SpanIds
  /\ spans \in [DOMAIN spans -> [context : Contexts, parent : Names, open : BOOLEAN]]

(* Messages wait in their own queue, and no two parcels are of one message. *)
Apart(l, dl, rn) ==
  /\ \A q \in Queues : \A i \in DOMAIN l[q] : QueueOf[l[q][i].msg] = q
  /\ \A q \in Queues : \A i, j \in DOMAIN l[q] : l[q][i].msg = l[q][j].msg => i = j
  /\ \A d, e \in dl \cup rn : d.msg = e.msg => d = e
  /\ \A q \in Queues : \A i \in DOMAIN l[q] : \A d \in dl \cup rn : l[q][i].msg # d.msg

(* Message m is to be delivered for the nth time, with the trace t.         *)
Parcel(l, dl, rn, m, t, n, pc) ==
  \/ /\ pc = "receive"
     /\ \E q \in Queues : \E i \in DOMAIN l[q] :
          l[q][i].msg = m /\ l[q][i].trace = t /\ l[q][i].attempt = n
  \/ pc = "receive" /\ \E d \in dl : d.msg = m /\ d.trace = t /\ d.attempt = n
  \/ \E d \in rn : d.msg = m /\ d.trace = t /\ d.attempt = n /\ d.pc = pc

(* A parcel carries the context it was enqueued under and has not been done; *)
(* the spans of its earlier deliveries have lower numbers.                  *)
Carries(l, dl, rn) ==
  \A m, t, n, pc : Parcel(l, dl, rn, m, t, n, pc) =>
    /\ m \in seen /\ t = CurrentTraceparent(origin[m][1])
    /\ "done" \notin ended[m] /\ (kind = "memory" => "failed" \notin ended[m])
    /\ \A i \in DOMAIN spans : i[1] = "consumer" /\ i[2] = m => i[3] <= n /\ (pc = "receive" => i[3] < n)

(* Only what was enqueued is delivered or reported, a job before what its   *)
(* handler enqueues.                                                        *)
History ==
  /\ \A m \in Messages : m \in seen \/ ended[m] # {} => origin[m] # <<>>
  /\ \A r \in reports : origin[r.msg] # <<>>
  /\ \A m \in Follows : origin[m] # <<>> => origin[After[m]] # <<>> /\ (m \notin seen => After[m] \notin seen)
  /\ kind = "memory" => reports = {}

(* Every context is of a span that is there, and a delivery past its        *)
(* receipt has a span, open until its handler has failed.                   *)
Good(c) == c.span \in SpanIds /\ c.trace # Zeros

Traces ==
  /\ \A m \in Messages : origin[m] # <<>> => Good(origin[m][1])
  /\ \A i \in DOMAIN spans : Good(spans[i].context)
  /\ \A i \in DOMAIN spans : i[1] = "server" => i[2] \in request
  /\ \A i \in DOMAIN spans : i[1] = "consumer" => i[2] \in seen
  /\ \A d \in running :
       d.pc # "receive" => Consumer(d) \in DOMAIN spans /\ (d.pc # "failing" => spans[Consumer(d)].open)

(* A span that has ended is either buffered or sent, once, and a timer is   *)
(* set for a buffer that is not empty and not full.                         *)
Ledger ==
  /\ buffer = SetToBag(DOMAIN buffer) /\ sends = SetToBag(DOMAIN sends)
  /\ DOMAIN buffer \cap DOMAIN sends = {}
  /\ DOMAIN buffer \cup DOMAIN sends = RecordedSpans
  /\ IsFiniteSet(DOMAIN buffer)
  /\ timer \in {"unset", "armed"}
  /\ buffer # EmptyBag => timer = "armed" /\ Size(buffer) < BatchSize

DriverInv ==
  /\ DriverTypeOK /\ SpansTypeOK /\ Apart(list, delayed, running) /\ Carries(list, delayed, running)
  /\ History /\ Traces /\ TraceFollowsWork /\ Ledger

LEMMA FiniteImage ==
  ASSUME NEW S, IsFiniteSet(S), NEW f
  PROVE  IsFiniteSet({f[x] : x \in S})
<1>. DEFINE T == {f[x] : x \in S}
            g == [x \in S |-> f[x]]
<1>1. g \in Surjection(S, T)
  BY DEF Surjection
<1>. HIDE DEF g, T
<1>2. IsFiniteSet(T)
  BY <1>1, FS_Surjection
<1>. QED BY <1>2 DEF T

LEMMA FiniteUnion ==
  ASSUME NEW S, NEW T, IsFiniteSet(S), IsFiniteSet(T)
  PROVE  IsFiniteSet(S \cup T)
BY FS_Union, Zenon

(* A message joins the end of its queue.                                    *)
LEMMA AppendApart ==
  ASSUME NEW l \in [Queues -> Seq(Waiting)], NEW dl, NEW rn, NEW d \in Waiting, Apart(l, dl, rn),
         \A m, t, n, pc : Parcel(l, dl, rn, m, t, n, pc) => m # d.msg
  PROVE  LET q == QueueOf[d.msg]
             longer == [l EXCEPT ![q] = Append(l[q], d)]
         IN  /\ q \in Queues /\ longer \in [Queues -> Seq(Waiting)]
             /\ Apart(longer, dl, rn)
             /\ \A m, t, n, pc : Parcel(longer, dl, rn, m, t, n, pc) =>
                   \/ Parcel(l, dl, rn, m, t, n, pc)
                   \/ m = d.msg /\ t = d.trace /\ n = d.attempt /\ pc = "receive"
<1>. DEFINE q == QueueOf[d.msg]
            longer == [l EXCEPT ![q] = Append(l[q], d)]
            k == Len(l[q])
<1>0. d.msg \in Messages
  BY DEF Waiting
<1>1. q \in Queues
  BY <1>0, DriverAssumption
<1>. HIDE DEF q
<1>2. l[q] \in Seq(Waiting) /\ k \in Nat
  BY <1>1, LenProperties
<1>3. /\ Append(l[q], d) \in Seq(Waiting) /\ DOMAIN Append(l[q], d) = DOMAIN l[q] \cup {k + 1}
      /\ \A i \in DOMAIN l[q] : Append(l[q], d)[i] = l[q][i]
      /\ Append(l[q], d)[k + 1] = d /\ k + 1 \notin DOMAIN l[q]
  BY <1>2, AppendProperties, LenProperties
<1>4. /\ longer \in [Queues -> Seq(Waiting)] /\ longer[q] = Append(l[q], d)
      /\ \A r \in Queues : r # q => longer[r] = l[r]
  BY <1>1, <1>3
<1>5. /\ \A r \in Queues : \A i \in DOMAIN l[r] : l[r][i].msg # d.msg
      /\ \A e \in dl \cup rn : e.msg # d.msg
  BY DEF Parcel
<1>. HIDE DEF longer, k
<1>a. ASSUME NEW r \in Queues, NEW i \in DOMAIN longer[r]
      PROVE  (i \in DOMAIN l[r] /\ longer[r][i] = l[r][i]) \/ (r = q /\ i = k + 1 /\ longer[r][i] = d)
  <2>1. CASE r = q
    BY <1>3, <1>4, <2>1
  <2>2. CASE r # q
    BY <1>4, <2>2
  <2>. QED BY <2>1, <2>2
<1>6. Apart(longer, dl, rn)
  <2>1. /\ \A r \in Queues : \A i \in DOMAIN l[r] : QueueOf[l[r][i].msg] = r
        /\ \A r \in Queues : \A i, j \in DOMAIN l[r] : l[r][i].msg = l[r][j].msg => i = j
        /\ \A e, f \in dl \cup rn : e.msg = f.msg => e = f
        /\ \A r \in Queues : \A i \in DOMAIN l[r] : \A e \in dl \cup rn : l[r][i].msg # e.msg
    BY Zenon DEF Apart
  <2>2. \A r \in Queues : \A i \in DOMAIN longer[r] : QueueOf[longer[r][i].msg] = r
    BY <1>a, <2>1 DEF q
  <2>3. \A r \in Queues : \A i, j \in DOMAIN longer[r] : longer[r][i].msg = longer[r][j].msg => i = j
    BY <1>a, <1>5, <2>1
  <2>4. \A r \in Queues : \A i \in DOMAIN longer[r] : \A e \in dl \cup rn : longer[r][i].msg # e.msg
    BY <1>a, <1>5, <2>1
  <2>. QED BY <2>1, <2>2, <2>3, <2>4, Zenon DEF Apart
<1>7. ASSUME NEW m, NEW t, NEW n, NEW pc, Parcel(longer, dl, rn, m, t, n, pc)
      PROVE  \/ Parcel(l, dl, rn, m, t, n, pc)
             \/ m = d.msg /\ t = d.trace /\ n = d.attempt /\ pc = "receive"
  BY <1>a, <1>7 DEF Parcel
<1>. QED BY <1>1, <1>4, <1>6, <1>7 DEF longer, q

(* The oldest of a queue are taken up, as far as its concurrency allows.    *)
LEMMA Drained ==
  ASSUME list \in [Queues -> Seq(Waiting)], inFlight \in [Queues -> Nat], NEW q \in Queues,
         NEW w \in Seq(Waiting),
         NEW f \in Nat, NEW dl, NEW others \in SUBSET Taken, IsFiniteSet(others),
         Apart([list EXCEPT ![q] = w], dl, others), Drain(q, w, f, others)
  PROVE  /\ list' \in [Queues -> Seq(Waiting)] /\ inFlight' \in [Queues -> Nat]
         /\ running' \subseteq Taken /\ IsFiniteSet(running')
         /\ \A d \in running' : d \in others \/ d.pc = "receive"
         /\ Apart(list', dl, running')
         /\ \A m, t, n, pc : Parcel(list', dl, running', m, t, n, pc) =>
                               Parcel([list EXCEPT ![q] = w], dl, others, m, t, n, pc)
<1>. DEFINE room == IF Handled /\ f < Concurrency THEN Concurrency - f ELSE 0
            k == IF room < Len(w) THEN room ELSE Len(w)
            left == SubSeq(w, k + 1, Len(w))
            before == [list EXCEPT ![q] = w]
<1>1. k \in Nat /\ k <= Len(w) /\ Len(w) \in Nat
  <2>1. Concurrency \in Nat
    BY DriverAssumption
  <2>. QED BY <2>1, LenProperties
<1>2. list' = [list EXCEPT ![q] = left] /\ inFlight' = [inFlight EXCEPT ![q] = f + k]
      /\ running' = others \cup {TakenUp(w[i]) : i \in 1..k}
  BY DEF Drain
<1>. HIDE DEF k
<1>3. left \in Seq(Waiting) /\ DOMAIN left = 1..(Len(w) - k) /\ \A i \in 1..(Len(w) - k) : left[i] = w[k + i]
  BY <1>1
<1>. HIDE DEF left
<1>4. list' \in [Queues -> Seq(Waiting)] /\ inFlight' \in [Queues -> Nat]
  BY <1>1, <1>2, <1>3
<1>5. /\ list'[q] = left /\ before[q] = w /\ DOMAIN w = 1..Len(w)
      /\ \A r \in Queues : r # q => list'[r] = before[r]
  BY <1>2, LenProperties
<1>. HIDE DEF before
<1>6. ASSUME NEW i \in 1..k
      PROVE  /\ i \in DOMAIN w /\ w[i] \in Waiting /\ TakenUp(w[i]) \in Taken
             /\ TakenUp(w[i]).msg = w[i].msg /\ TakenUp(w[i]).pc = "receive"
             /\ TakenUp(w[i]).trace = w[i].trace /\ TakenUp(w[i]).attempt = w[i].attempt
  <2>1. i \in DOMAIN w /\ w[i] \in Waiting
    BY <1>1, <1>5, ElementOfSeq
  <2>. QED BY <2>1 DEF TakenUp, Taken, Waiting
<1>7. ASSUME NEW r \in Queues, NEW i \in DOMAIN list'[r]
      PROVE  \E j \in DOMAIN before[r] : /\ list'[r][i] = before[r][j]
                                         /\ r = q => j = k + i /\ j \notin 1..k
                                         /\ r # q => j = i
  <2>1. CASE r = q
    <3>1. list'[r] = left /\ before[r] = w /\ i \in 1..(Len(w) - k)
      BY <1>3, <1>5, <2>1
    <3>2. left[i] = w[k + i]
      BY <1>3, <3>1
    <3>3. k + i \in 1..Len(w) /\ k + i \notin 1..k
      BY <1>1, <3>1
    <3>. QED BY <1>5, <2>1, <3>1, <3>2, <3>3
  <2>2. CASE r # q
    BY <1>5, <2>2
  <2>. QED BY <2>1, <2>2
<1>8. \A d \in running' : d \in others \/ \E i \in 1..k : d = TakenUp(w[i])
  BY <1>2
<1>9. running' \subseteq Taken /\ IsFiniteSet(running')
  <2>. DEFINE g == [i \in 1..k |-> TakenUp(w[i])]
  <2>1. IsFiniteSet({g[i] : i \in 1..k})
    BY <1>1, FiniteUpto, FiniteImage
  <2>2. {g[i] : i \in 1..k} = {TakenUp(w[i]) : i \in 1..k}
    OBVIOUS
  <2>3. IsFiniteSet(running')
    BY <1>2, <2>1, <2>2, FiniteUnion
  <2>. QED BY <1>6, <1>8, <2>3
<1>10. \A d \in running' : d \in others \/ d.pc = "receive"
  BY <1>6, <1>8
<1>11. Apart(list', dl, running')
  <2>1. /\ \A r \in Queues : \A i \in DOMAIN before[r] : QueueOf[before[r][i].msg] = r
        /\ \A r \in Queues : \A i, j \in DOMAIN before[r] : before[r][i].msg = before[r][j].msg => i = j
        /\ \A d, e \in dl \cup others : d.msg = e.msg => d = e
        /\ \A r \in Queues : \A i \in DOMAIN before[r] : \A d \in dl \cup others : before[r][i].msg # d.msg
    BY Zenon DEF Apart, before
  <2>2. ASSUME NEW d \in dl \cup running'
        PROVE  d \in dl \cup others \/ \E i \in 1..k : d = TakenUp(w[i])
    BY <1>8
  <2>3. ASSUME NEW r \in Queues, NEW i \in DOMAIN list'[r] PROVE QueueOf[list'[r][i].msg] = r
    <3>. PICK j \in DOMAIN before[r] : list'[r][i] = before[r][j]
      BY <1>7
    <3>. QED BY <2>1
  <2>4. ASSUME NEW r \in Queues, NEW i \in DOMAIN list'[r], NEW j \in DOMAIN list'[r],
               list'[r][i].msg = list'[r][j].msg
        PROVE  i = j
    <3>1. CASE r = q
      <4>1. k + i = k + j
        BY <1>7, <2>1, <2>4, <3>1
      <4>. QED BY <1>1, <1>3, <1>5, <3>1, <4>1
    <3>2. CASE r # q
      BY <1>5, <2>1, <2>4, <3>2
    <3>. QED BY <3>1, <3>2
  <2>5. ASSUME NEW d \in dl \cup running', NEW e \in dl \cup running', d.msg = e.msg PROVE d = e
    <3>1. ASSUME NEW x \in dl \cup others, NEW i \in 1..k PROVE x.msg # TakenUp(w[i]).msg
      <4>1. i \in DOMAIN before[q] /\ before[q][i].msg = TakenUp(w[i]).msg
        BY <1>5, <1>6
      <4>. QED BY <2>1, <4>1
    <3>2. ASSUME NEW i \in 1..k, NEW j \in 1..k, TakenUp(w[i]).msg = TakenUp(w[j]).msg PROVE i = j
      <4>1. i \in DOMAIN before[q] /\ j \in DOMAIN before[q] /\ before[q][i].msg = before[q][j].msg
        BY <1>5, <1>6, <3>2
      <4>. QED BY <2>1, <4>1
    <3>. QED BY <2>1, <2>2, <2>5, <3>1, <3>2
  <2>6. ASSUME NEW r \in Queues, NEW i \in DOMAIN list'[r], NEW d \in dl \cup running'
        PROVE  list'[r][i].msg # d.msg
    <3>. PICK j \in DOMAIN before[r] : /\ list'[r][i] = before[r][j]
                                       /\ r = q => j = k + i /\ j \notin 1..k
      BY <1>7
    <3>1. CASE d \in dl \cup others
      BY <2>1, <3>1
    <3>2. ASSUME NEW h \in 1..k, d = TakenUp(w[h]) PROVE list'[r][i].msg # d.msg
      <4>1. h \in DOMAIN before[q] /\ before[q][h].msg = d.msg
        BY <1>5, <1>6, <3>2
      <4>3. r = q => j # h
        OBVIOUS
      <4>4. r # q => QueueOf[before[r][j].msg] # QueueOf[before[q][h].msg]
        BY <2>1, <4>1
      <4>. QED BY <2>1, <4>1, <4>3, <4>4
    <3>. QED BY <2>2, <3>1, <3>2
  <2>. QED BY <2>3, <2>4, <2>5, <2>6, Zenon DEF Apart
<1>12. ASSUME NEW m, NEW t, NEW n, NEW pc, Parcel(list', dl, running', m, t, n, pc)
       PROVE  Parcel(before, dl, others, m, t, n, pc)
  <2>1. CASE pc = "receive" /\ \E r \in Queues : \E i \in DOMAIN list'[r] :
               list'[r][i].msg = m /\ list'[r][i].trace = t /\ list'[r][i].attempt = n
    <3>0. PICK r \in Queues : \E i \in DOMAIN list'[r] :
               list'[r][i].msg = m /\ list'[r][i].trace = t /\ list'[r][i].attempt = n
      BY <2>1
    <3>1. PICK i \in DOMAIN list'[r] : list'[r][i].msg = m /\ list'[r][i].trace = t /\ list'[r][i].attempt = n
      BY <3>0
    <3>2. PICK j \in DOMAIN before[r] : list'[r][i] = before[r][j]
      BY <1>7
    <3>. QED BY <2>1, <3>1, <3>2 DEF Parcel
  <2>2. CASE pc = "receive" /\ \E d \in dl : d.msg = m /\ d.trace = t /\ d.attempt = n
    BY <2>2 DEF Parcel
  <2>3. ASSUME NEW d \in running', d.msg = m, d.trace = t, d.attempt = n, d.pc = pc
        PROVE  Parcel(before, dl, others, m, t, n, pc)
    <3>1. CASE d \in others
      BY <2>3, <3>1 DEF Parcel
    <3>2. ASSUME NEW i \in 1..k, d = TakenUp(w[i]) PROVE Parcel(before, dl, others, m, t, n, pc)
      <4>1. i \in DOMAIN before[q] /\ before[q][i].msg = m /\ before[q][i].trace = t /\ before[q][i].attempt = n
            /\ pc = "receive"
        BY <1>5, <1>6, <2>3, <3>2
      <4>. QED BY <4>1 DEF Parcel
    <3>. QED BY <1>8, <3>1, <3>2
  <2>. QED BY <1>12, <2>1, <2>2, <2>3 DEF Parcel
<1>. QED BY <1>4, <1>9, <1>10, <1>11, <1>12 DEF before

------------------------------------------------------------------------------
LEMMA Numbers ==
  /\ BatchSize \in Nat /\ BatchSize >= 1 /\ Concurrency \in Nat /\ Attempts \in Nat /\ MaxCrashes \in Nat
  /\ IsFiniteSet(Queues) /\ Kinds \subseteq {"memory", "bullmq"} /\ QueueOf \in [Messages -> Queues]
  /\ After \in [Follows -> Messages]
  /\ ByRequest \subseteq Messages /\ Follows \subseteq Messages /\ ByRequest \cap Follows = {}
BY DriverAssumption

LEMMA SpanNames ==
  /\ \A m \in Messages : <<"server", m>> \in SpanIds /\ <<"server", m>>[1] = "server" /\ <<"server", m>>[2] = m
  /\ \A m \in Messages, a \in Nat :
       /\ <<"consumer", m, a>> \in SpanIds /\ <<"consumer", m, a>>[1] = "consumer"
       /\ <<"consumer", m, a>>[2] = m /\ <<"consumer", m, a>>[3] = a
  /\ \A i \in SpanIds : /\ i # NoId /\ i # Zeros /\ i \in Names
                        /\ i[1] \in {"server", "consumer"} /\ i[2] \in Messages
                        /\ i[1] = "consumer" => i[3] \in Nat /\ i = <<"consumer", i[2], i[3]>>
                        /\ i[1] = "server" => i = <<"server", i[2]>>
  /\ NoId \in Names /\ NoContext \in Contexts /\ NoHeader \in Wires
BY DEF SpanIds, NoId, Zeros, Names, NoContext, NoHeader, Contexts, Wires

LEMMA RoundTrip ==
  ASSUME NEW c \in Contexts, Good(c)
  PROVE  /\ c # NoContext /\ CurrentTraceparent(c) \in Wires
         /\ ParseTraceparent(CurrentTraceparent(c)) = c /\ WithContext(c, NoContext) = c
<1>1. /\ c.span \in SpanIds /\ c.trace \in Names /\ c.sampled \in BOOLEAN /\ c.trace # Zeros /\ c.span # NoId
      /\ c.span # Zeros
      /\ c.span \in Names
  BY SpanNames DEF Contexts, Good
<1>2. c # NoContext
  BY <1>1 DEF NoContext
<1>. DEFINE h == FormatTraceparent(c)
<1>3. /\ h.version = 0 /\ h.trace = c.trace /\ h.span = c.span /\ h.flags = IF c.sampled THEN 1 ELSE 0
      /\ h \in Wires
  BY <1>1 DEF FormatTraceparent, Wires
<1>4. h # NoHeader
  BY <1>1, <1>3 DEF NoHeader
<1>5. CurrentTraceparent(c) = h
  BY <1>2 DEF CurrentTraceparent
<1>6. (h.flags % 2 = 1) = c.sampled
  BY <1>1, <1>3
<1>. HIDE DEF h
<1>7. ParseTraceparent(h) = [trace |-> h.trace, span |-> h.span, sampled |-> h.flags % 2 = 1]
  BY <1>1, <1>3, <1>4 DEF ParseTraceparent
<1>8. c = [trace |-> c.trace, span |-> c.span, sampled |-> c.sampled]
  BY DEF Contexts
<1>9. ParseTraceparent(h) = c
  BY <1>3, <1>6, <1>7, <1>8, Zenon
<1>. QED BY <1>2, <1>3, <1>5, <1>9 DEF WithContext

LEMMA Parsed ==
  ASSUME NEW h \in Headers
  PROVE  ParseTraceparent(h) \in Contexts /\ ParseTraceparent(h).trace # Zeros
BY DEF ParseTraceparent, Contexts, Names, NoContext, NoId, Zeros

LEMMA CarriedSame ==
  ASSUME NEW h PROVE Carried(h) = h
<1>1. ASSUME h # NoHeader PROVE UnpackTrace(PackTrace(h)) = h
  BY <1>1 DEF UnpackTrace, PackTrace
<1>2. ASSUME h = NoHeader PROVE UnpackTrace(PackTrace(h)) = h
  BY <1>2 DEF UnpackTrace, PackTrace
<1>. QED BY <1>1, <1>2 DEF Carried

LEMMA StartEffect ==
  ASSUME SpansTypeOK, NEW id \in SpanIds, NEW parent \in Contexts, parent.trace # Zeros, StartSpan(id, parent)
  PROVE  /\ SpansTypeOK' /\ DOMAIN spans' = DOMAIN spans \cup {id}
         /\ \A i \in DOMAIN spans : i # id => spans'[i] = spans[i]
         /\ spans'[id].open /\ spans'[id].parent = parent.span /\ Good(spans'[id].context)
         /\ parent # NoContext => /\ spans'[id].context.trace = parent.trace
                                  /\ spans'[id].context.sampled = parent.sampled
<1>. DEFINE trace == IF parent = NoContext THEN id ELSE parent.trace
            context(s) == [trace |-> trace, span |-> id, sampled |-> s]
            new(s) == [context |-> context(s), parent |-> parent.span, open |-> TRUE]
<1>1. trace \in Names /\ trace # Zeros /\ id \in Names /\ parent.span \in Names /\ parent.sampled \in BOOLEAN
  BY SpanNames DEF Contexts
<1>2. PICK s \in Sampled(parent) :
        spans' = [i \in DOMAIN spans \cup {id} |-> IF i # id THEN spans[i] ELSE new(s)]
  BY DEF StartSpan
<1>3. s \in BOOLEAN /\ (parent # NoContext => s = parent.sampled)
  BY <1>1, <1>2 DEF Sampled
<1>4. context(s) \in Contexts /\ new(s) \in [context : Contexts, parent : Names, open : BOOLEAN]
  BY <1>1, <1>3 DEF Contexts
<1>5. /\ new(s).context = context(s) /\ new(s).open = TRUE /\ new(s).parent = parent.span
      /\ context(s).trace = trace /\ context(s).span = id /\ context(s).sampled = s
  OBVIOUS
<1>. HIDE DEF context, new
<1>6. /\ DOMAIN spans' = DOMAIN spans \cup {id} /\ spans'[id] = new(s)
      /\ \A i \in DOMAIN spans : i # id => spans'[i] = spans[i]
  BY <1>2
<1>7. SpansTypeOK'
  BY <1>2, <1>4, <1>6 DEF SpansTypeOK
<1>8. Good(spans'[id].context)
  BY <1>1, <1>5, <1>6 DEF Good
<1>. QED BY <1>3, <1>5, <1>6, <1>7, <1>8

LEMMA EndEffect ==
  ASSUME SpansTypeOK, NEW id \in DOMAIN spans, EndSpan(id)
  PROVE  /\ SpansTypeOK' /\ DOMAIN spans' = DOMAIN spans
         /\ \A i \in DOMAIN spans : /\ spans'[i].context = spans[i].context
                                    /\ spans'[i].parent = spans[i].parent
                                    /\ i # id => spans'[i] = spans[i]
         /\ ~spans'[id].open
<1>1. CASE spans[id].open
  <2>. DEFINE closed == [spans[id] EXCEPT !.open = FALSE]
  <2>1. spans' = [spans EXCEPT ![id] = closed]
    BY <1>1 DEF EndSpan
  <2>2. /\ closed \in [context : Contexts, parent : Names, open : BOOLEAN]
        /\ closed.context = spans[id].context /\ closed.parent = spans[id].parent /\ ~closed.open
    BY DEF SpansTypeOK
  <2>. HIDE DEF closed
  <2>. QED BY <2>1, <2>2 DEF SpansTypeOK
<1>2. CASE ~spans[id].open
  BY <1>2 DEF EndSpan, SpansTypeOK
<1>. QED BY <1>1, <1>2

------------------------------------------------------------------------------
LEMMA SizeOfBag ==
  ASSUME NEW S, IsFiniteSet(S)
  PROVE  Size(SetToBag(S)) \in Nat /\ \A x : x \notin S => Size(SetToBag(S \cup {x})) = Size(SetToBag(S)) + 1
<1>1. \A T : DOMAIN SetToBag(T) = T /\ \A x \in T : SetToBag(T)[x] = 1
  BY DEF SetToBag
<1>2. Size(SetToBag(S)) \in Nat
  BY <1>1, SumNat DEF Size
<1>3. ASSUME NEW x, x \notin S PROVE Size(SetToBag(S \cup {x})) = Size(SetToBag(S)) + 1
  <2>. DEFINE f == SetToBag(S)
              g == SetToBag(S \cup {x})
  <2>1. /\ DOMAIN f = S /\ DOMAIN g = S \cup {x} /\ g[x] = 1
        /\ \A y \in S : f[y] = g[y] /\ f[y] \in Nat /\ g[y] \in Nat
    BY <1>1
  <2>. HIDE DEF f, g
  <2>2. SumFunctionOnSet(g, S \cup {x}) = g[x] + SumFunctionOnSet(g, S)
    BY <1>3, <2>1, SumAdd
  <2>3. SumFunctionOnSet(g, S) = SumFunctionOnSet(f, S)
    BY <2>1, SumEqual
  <2>4. SumFunctionOnSet(f, S) \in Nat
    BY <1>2, <2>1 DEF Size, f
  <2>. QED BY <2>1, <2>2, <2>3, <2>4 DEF Size, f, g
<1>. QED BY <1>2, <1>3

LEMMA BagJoin ==
  ASSUME NEW A, NEW B, A \cap B = {}
  PROVE  SetToBag(A) (+) SetToBag(B) = SetToBag(A \cup B)
BY DEF SetToBag, (+)

LEMMA LedgerHolds == Ledger => NoSpanStranded
<1>. SUFFICES ASSUME Ledger PROVE NoSpanStranded
  OBVIOUS
<1>1. buffer (+) sends = SetToBag(RecordedSpans)
  <2>1. SetToBag(DOMAIN buffer) (+) SetToBag(DOMAIN sends) = SetToBag(DOMAIN buffer \cup DOMAIN sends)
    BY BagJoin DEF Ledger
  <2>. QED BY <2>1, Zenon DEF Ledger
<1>. QED BY <1>1 DEF Ledger, NoSpanStranded

LEMMA Recording ==
  ASSUME NEW i
  PROVE  i \in RecordedSpans <=>
           i \in DOMAIN spans /\ exporter.name = "otlp" /\ spans[i].context.sampled /\ ~spans[i].open
BY DEF RecordedSpans

LEMMA LedgerSame ==
  ASSUME Ledger, RecordedSpans' = RecordedSpans, UNCHANGED <<buffer, timer, sends>>
  PROVE  Ledger'
BY DEF Ledger, Size

LEMMA LedgerStart ==
  ASSUME SpansTypeOK, Ledger, NEW id \in SpanIds, id \notin DOMAIN spans, NEW parent \in Contexts,
         parent.trace # Zeros,
         StartSpan(id, parent), UNCHANGED <<exporter, buffer, timer, sends>>
  PROVE  Ledger'
<1>1. RecordedSpans' = RecordedSpans
  BY StartEffect DEF RecordedSpans
<1>. QED BY <1>1, LedgerSame

(* A batch is sent: all that was buffered, and perhaps one more.            *)
LEMMA LedgerSend ==
  ASSUME Ledger, NEW B, B \cap DOMAIN sends = {}, Send(SetToBag(B)), RecordedSpans' = B \cup DOMAIN sends
  PROVE  Ledger'
<1>1. timer' = "unset" /\ buffer' = EmptyBag /\ sends' = sends (+) SetToBag(B)
  BY DEF Send
<1>2. SetToBag(DOMAIN sends) (+) SetToBag(B) = SetToBag(DOMAIN sends \cup B)
  BY BagJoin
<1>3. sends' = SetToBag(DOMAIN sends \cup B)
  BY <1>1, <1>2, Zenon DEF Ledger
<1>4. /\ DOMAIN SetToBag(DOMAIN sends \cup B) = DOMAIN sends \cup B /\ DOMAIN EmptyBag = {}
      /\ EmptyBag = SetToBag({})
  BY DEF SetToBag, EmptyBag
<1>. QED BY <1>1, <1>3, <1>4, FS_EmptySet DEF Ledger

LEMMA LedgerEnd ==
  ASSUME SpansTypeOK, Ledger, NEW id \in DOMAIN spans, spans[id].open, EndSpan(id)
  PROVE  Ledger'
<1>1. Export(id) /\ UNCHANGED exporter
  BY DEF EndSpan
<1>. DEFINE B == DOMAIN buffer \cup {id}
<1>2. id \notin RecordedSpans /\ id \notin DOMAIN buffer /\ id \notin DOMAIN sends
  BY Recording DEF Ledger
<1>3. CASE exporter.name # "otlp" \/ ~spans[id].context.sampled
  <2>1. RecordedSpans' = RecordedSpans
    BY <1>1, <1>3, EndEffect DEF RecordedSpans
  <2>2. UNCHANGED <<buffer, timer, sends>>
    BY <1>1, <1>3 DEF Export
  <2>. QED BY <2>1, <2>2, LedgerSame
<1>4. CASE exporter.name = "otlp" /\ spans[id].context.sampled
  <2>1. RecordedSpans' = RecordedSpans \cup {id}
    BY <1>1, <1>4, EndEffect DEF RecordedSpans
  <2>2. buffer (+) SetToBag({id}) = SetToBag(B)
    <3>1. SetToBag(DOMAIN buffer) (+) SetToBag({id}) = SetToBag(B)
      BY <1>2, BagJoin
    <3>. QED BY <3>1, Zenon DEF Ledger
  <2>3. Size(buffer) \in Nat /\ Size(SetToBag(B)) = Size(buffer) + 1
    BY <1>2, SizeOfBag DEF Ledger
  <2>4. B \cap DOMAIN sends = {} /\ RecordedSpans' = B \cup DOMAIN sends
    BY <1>2, <2>1 DEF Ledger
  <2>5. DOMAIN SetToBag(B) = B
    BY DEF SetToBag
  <2>6. IsFiniteSet(B)
    BY FS_AddElement DEF Ledger
  <2>. HIDE DEF B
  <2>7. CASE Size(buffer) + 1 >= BatchSize
    <3>1. Send(SetToBag(B))
      BY <1>1, <1>4, <2>2, <2>7 DEF Export
    <3>. QED BY <2>4, <3>1, LedgerSend
  <2>8. CASE ~(Size(buffer) + 1 >= BatchSize)
    <3>1. buffer' = SetToBag(B) /\ timer' = (IF timer = "unset" THEN "armed" ELSE timer) /\ UNCHANGED sends
      BY <1>1, <1>4, <2>2, <2>8 DEF Export
    <3>2. Size(buffer') < BatchSize
      BY <2>3, <2>8, <3>1, Numbers
    <3>3. Size(buffer)' = Size(buffer')
      BY DEF Size
    <3>4. timer' = "armed"
      BY <3>1 DEF Ledger
    <3>. QED BY <2>4, <2>5, <2>6, <3>1, <3>2, <3>3, <3>4 DEF Ledger
  <2>. QED BY <2>7, <2>8
<1>. QED BY <1>3, <1>4

LEMMA LedgerTimer ==
  ASSUME Ledger, TimerFires
  PROVE  Ledger'
<1>1. RecordedSpans' = RecordedSpans
  BY DEF TimerFires, RecordedSpans
<1>2. CASE buffer = EmptyBag
  BY <1>1, <1>2 DEF TimerFires, Flush, Ledger
<1>3. CASE buffer # EmptyBag
  <2>1. Send(SetToBag(DOMAIN buffer))
    BY <1>3, Zenon DEF TimerFires, Flush, Ledger
  <2>. QED BY <1>1, <2>1, LedgerSend DEF Ledger
<1>. QED BY <1>2, <1>3

LEMMA LedgerLost ==
  ASSUME LoseSpans
  PROVE  Ledger' /\ SpansTypeOK' /\ DOMAIN spans' = {}
<1>1. /\ spans' = <<>> /\ buffer' = EmptyBag /\ timer' = "unset" /\ sends' = EmptyBag
      /\ DOMAIN EmptyBag = {} /\ EmptyBag = SetToBag({})
  BY DEF LoseSpans, EmptyBag, SetToBag
<1>2. DOMAIN spans' = {}
  BY <1>1
<1>3. RecordedSpans' = {}
  BY <1>2 DEF RecordedSpans
<1>. QED BY <1>1, <1>2, <1>3, FS_EmptySet DEF Ledger, SpansTypeOK

------------------------------------------------------------------------------
LEMMA SameList ==
  ASSUME NEW l, NEW q, l \in [Queues -> Seq(Waiting)] PROVE [l EXCEPT ![q] = l[q]] = l
OBVIOUS

LEMMA FewerApart ==
  ASSUME NEW l, NEW dl, NEW rn, NEW few \in SUBSET dl, NEW some \in SUBSET rn, Apart(l, dl, rn)
  PROVE  /\ Apart(l, few, some)
         /\ \A m, t, n, pc : Parcel(l, few, some, m, t, n, pc) => Parcel(l, dl, rn, m, t, n, pc)
BY DEF Apart, Parcel

(* What becomes of a delivery that runs: nothing, another state, a retry.   *)
LEMMA GoneApart ==
  ASSUME NEW l, NEW dl, NEW rn, dl \subseteq Waiting, rn \subseteq Taken, Apart(l, dl, rn), NEW d \in rn
  PROVE  /\ Apart(l, dl, rn \ {d})
         /\ \A x \in dl \cup (rn \ {d}) : x.msg # d.msg
         /\ \A m, t, n, pc : Parcel(l, dl, rn \ {d}, m, t, n, pc) => m # d.msg /\ Parcel(l, dl, rn, m, t, n, pc)
<1>1. d \notin dl
  BY DEF Waiting, Taken
<1>2. \A x \in dl \cup (rn \ {d}) : x.msg # d.msg
  BY <1>1 DEF Apart
<1>3. \A m, t, n, pc : Parcel(l, dl, rn \ {d}, m, t, n, pc) => m # d.msg
  BY <1>2 DEF Parcel, Apart
<1>. QED BY <1>2, <1>3, FewerApart

LEMMA StateApart ==
  ASSUME NEW l, NEW dl, NEW rn, dl \subseteq Waiting, rn \subseteq Taken, Apart(l, dl, rn), NEW d \in rn,
         NEW e \in Taken, e.msg = d.msg
  PROVE  /\ Apart(l, dl, (rn \ {d}) \cup {e})
         /\ \A m, t, n, pc : Parcel(l, dl, (rn \ {d}) \cup {e}, m, t, n, pc) =>
              \/ Parcel(l, dl, rn \ {d}, m, t, n, pc)
              \/ m = e.msg /\ t = e.trace /\ n = e.attempt /\ pc = e.pc
<1>1. \A x \in dl \cup (rn \ {d}) : x.msg # d.msg
  <2>1. d \notin dl
    BY DEF Waiting, Taken
  <2>. QED BY <2>1 DEF Apart
<1>2. Apart(l, dl, (rn \ {d}) \cup {e})
  BY <1>1 DEF Apart
<1>3. ASSUME NEW m, NEW t, NEW n, NEW pc, Parcel(l, dl, (rn \ {d}) \cup {e}, m, t, n, pc)
      PROVE  \/ Parcel(l, dl, rn \ {d}, m, t, n, pc)
              \/ (m = e.msg /\ t = e.trace /\ n = e.attempt /\ pc = e.pc)
  BY <1>3 DEF Parcel
<1>. QED BY <1>2, <1>3, Zenon

LEMMA RetryApart ==
  ASSUME NEW l, NEW dl, NEW rn, dl \subseteq Waiting, rn \subseteq Taken, Apart(l, dl, rn), NEW d \in rn,
         NEW e \in Waiting, e.msg = d.msg
  PROVE  /\ Apart(l, dl \cup {e}, rn \ {d})
         /\ \A m, t, n, pc : Parcel(l, dl \cup {e}, rn \ {d}, m, t, n, pc) =>
              \/ Parcel(l, dl, rn \ {d}, m, t, n, pc)
              \/ m = e.msg /\ t = e.trace /\ n = e.attempt /\ pc = "receive"
<1>1. \A x \in dl \cup (rn \ {d}) : x.msg # d.msg
  <2>1. d \notin dl
    BY DEF Waiting, Taken
  <2>. QED BY <2>1 DEF Apart
<1>2. Apart(l, dl \cup {e}, rn \ {d})
  BY <1>1 DEF Apart
<1>3. ASSUME NEW m, NEW t, NEW n, NEW pc, Parcel(l, dl \cup {e}, rn \ {d}, m, t, n, pc)
      PROVE  \/ Parcel(l, dl, rn \ {d}, m, t, n, pc)
              \/ (m = e.msg /\ t = e.trace /\ n = e.attempt /\ pc = "receive")
  BY <1>3 DEF Parcel
<1>. QED BY <1>2, <1>3, Zenon

LEMMA FiniteBecome ==
  ASSUME NEW S, IsFiniteSet(S), NEW d, NEW e
  PROVE  IsFiniteSet(S \ {d}) /\ IsFiniteSet((S \ {d}) \cup {e})
<1>1. IsFiniteSet(S \ {d})
  BY FS_RemoveElement
<1>. QED BY <1>1, FS_AddElement

(* An end of a delivery: it goes, and the queue is drained.                 *)
LEMMA LeaveEffect ==
  ASSUME DriverTypeOK, NEW d \in running, NEW dl \in SUBSET Waiting, Apart(list, dl, running \ {d}), Leave(d)
  PROVE  /\ list' \in [Queues -> Seq(Waiting)] /\ inFlight' \in [Queues -> Nat]
         /\ running' \subseteq Taken /\ IsFiniteSet(running')
         /\ \A e \in running' : e \in running \ {d} \/ e.pc = "receive"
         /\ Apart(list', dl, running')
         /\ \A m, t, n, pc : Parcel(list', dl, running', m, t, n, pc) =>
               Parcel(list, dl, running \ {d}, m, t, n, pc)
<1>. DEFINE q == QueueOf[d.msg]
            f == IF inFlight[q] > 0 THEN inFlight[q] - 1 ELSE 0
            w == list[q]
            before == [list EXCEPT ![q] = w]
<1>0. d.msg \in Messages /\ running \ {d} \in SUBSET Taken /\ IsFiniteSet(running \ {d})
  BY FiniteBecome DEF DriverTypeOK, Taken
<1>1. q \in Queues
  BY <1>0, Numbers
<1>2. f \in Nat /\ w \in Seq(Waiting)
  BY <1>1 DEF DriverTypeOK
<1>3. Drain(q, w, f, running \ {d})
  BY DEF Leave
<1>4. before = list /\ list \in [Queues -> Seq(Waiting)] /\ inFlight \in [Queues -> Nat]
  BY SameList DEF DriverTypeOK
<1>. HIDE DEF f, q, w
<1>5. Apart(before, dl, running \ {d})
  BY <1>4
<1>6. /\ list' \in [Queues -> Seq(Waiting)] /\ inFlight' \in [Queues -> Nat]
      /\ running' \subseteq Taken /\ IsFiniteSet(running')
      /\ \A e \in running' : e \in running \ {d} \/ e.pc = "receive"
      /\ Apart(list', dl, running')
      /\ \A m, t, n, pc : Parcel(list', dl, running', m, t, n, pc) =>
            Parcel(before, dl, running \ {d}, m, t, n, pc)
  BY <1>0, <1>1, <1>2, <1>3, <1>4, <1>5, Drained
<1>. HIDE DEF before
<1>. QED BY <1>4, <1>6

LEMMA PushEffect ==
  ASSUME DriverTypeOK, NEW d \in Waiting, NEW dl \in SUBSET Waiting, NEW others \in SUBSET Taken,
         IsFiniteSet(others),
         Apart(list, dl, others), \A m, t, n, pc : Parcel(list, dl, others, m, t, n, pc) => m # d.msg,
         Push(QueueOf[d.msg], d, others)
  PROVE  /\ list' \in [Queues -> Seq(Waiting)] /\ inFlight' \in [Queues -> Nat]
         /\ running' \subseteq Taken /\ IsFiniteSet(running')
         /\ \A e \in running' : e \in others \/ e.pc = "receive"
         /\ Apart(list', dl, running')
         /\ \A m, t, n, pc : Parcel(list', dl, running', m, t, n, pc) =>
              \/ Parcel(list, dl, others, m, t, n, pc)
              \/ m = d.msg /\ t = d.trace /\ n = d.attempt /\ pc = "receive"
<1>. DEFINE q == QueueOf[d.msg]
            w == Append(list[q], d)
            longer == [list EXCEPT ![q] = w]
<1>1. list \in [Queues -> Seq(Waiting)] /\ inFlight \in [Queues -> Nat]
  BY DEF DriverTypeOK
<1>2. /\ q \in Queues /\ Apart(longer, dl, others)
      /\ \A m, t, n, pc : Parcel(longer, dl, others, m, t, n, pc) =>
            \/ Parcel(list, dl, others, m, t, n, pc)
            \/ m = d.msg /\ t = d.trace /\ n = d.attempt /\ pc = "receive"
  BY <1>1, AppendApart
<1>3. w \in Seq(Waiting) /\ inFlight[q] \in Nat
  BY <1>1, <1>2
<1>4. Drain(q, w, inFlight[q], others)
  BY DEF Push
<1>. HIDE DEF q, w
<1>5. /\ list' \in [Queues -> Seq(Waiting)] /\ inFlight' \in [Queues -> Nat]
      /\ running' \subseteq Taken /\ IsFiniteSet(running')
      /\ \A e \in running' : e \in others \/ e.pc = "receive"
      /\ Apart(list', dl, running')
      /\ \A m, t, n, pc : Parcel(list', dl, running', m, t, n, pc) => Parcel(longer, dl, others, m, t, n, pc)
  BY <1>1, <1>2, <1>3, <1>4, Drained
<1>. QED BY ZenonT(30), <1>2, <1>5

LEMMA EnqueueEffect ==
  ASSUME DriverTypeOK, NEW others \in SUBSET Taken, IsFiniteSet(others), Apart(list, delayed, others),
         \A m, t, n, pc : Parcel(list, delayed, others, m, t, n, pc) => m \in seen,
         NEW x \in Messages, NEW ambient \in Contexts, Good(ambient), Enqueue(x, ambient, others)
  PROVE  /\ list' \in [Queues -> Seq(Waiting)] /\ inFlight' \in [Queues -> Nat]
         /\ running' \subseteq Taken /\ IsFiniteSet(running')
         /\ \A e \in running' : e \in others \/ e.pc = "receive"
         /\ Apart(list', delayed, running')
         /\ \A m, t, n, pc : Parcel(list', delayed, running', m, t, n, pc) =>
              \/ Parcel(list, delayed, others, m, t, n, pc)
              \/ x \notin seen /\ m = x /\ t = CurrentTraceparent(ambient) /\ n = 1 /\ pc = "receive"
         /\ seen' = seen \cup {x} /\ origin' \in [Messages -> Seq(Contexts)]
         /\ \A m \in Messages : m # x \/ x \in seen => origin'[m] = origin[m]
         /\ x \notin seen => origin'[x] = <<ambient>>
<1>1. CASE x \in seen
  <2>1. running' = others /\ UNCHANGED <<list, inFlight, seen, origin>>
    BY <1>1 DEF Enqueue
  <2>. QED BY <1>1, <2>1 DEF DriverTypeOK
<1>2. CASE x \notin seen
  <2>. DEFINE h == CurrentTraceparent(ambient)
              d == Delivery(x, 1, Carried(h))
  <2>1. /\ seen' = seen \cup {x} /\ origin' = [origin EXCEPT ![x] = <<ambient>>]
        /\ Push(QueueOf[x], d, others)
    BY <1>2 DEF Enqueue
  <2>2. d \in Waiting /\ d.msg = x /\ d.attempt = 1 /\ d.trace = h
    BY CarriedSame, RoundTrip DEF Delivery, Waiting
  <2>3. origin' \in [Messages -> Seq(Contexts)] /\ origin'[x] = <<ambient>>
        /\ \A m \in Messages : m # x => origin'[m] = origin[m]
    <3>1. <<ambient>> \in Seq(Contexts)
      OBVIOUS
    <3>. QED BY <2>1, <3>1 DEF DriverTypeOK
  <2>. HIDE DEF d, h
  <2>4. \A m, t, n, pc : Parcel(list, delayed, others, m, t, n, pc) => m # d.msg
    BY <1>2, <2>2
  <2>5. Push(QueueOf[d.msg], d, others)
    BY <2>1, <2>2
  <2>6. delayed \in SUBSET Waiting
    BY DEF DriverTypeOK
  <2>7. /\ list' \in [Queues -> Seq(Waiting)] /\ inFlight' \in [Queues -> Nat]
        /\ running' \subseteq Taken /\ IsFiniteSet(running')
        /\ \A e \in running' : e \in others \/ e.pc = "receive"
        /\ Apart(list', delayed, running')
        /\ \A m, t, n, pc : Parcel(list', delayed, running', m, t, n, pc) =>
             \/ Parcel(list, delayed, others, m, t, n, pc)
             \/ m = d.msg /\ t = d.trace /\ n = d.attempt /\ pc = "receive"
    BY <2>2, <2>4, <2>5, <2>6, PushEffect
  <2>. QED BY <1>2, <2>1, <2>2, <2>3, <2>7 DEF h
<1>. QED BY <1>1, <1>2
------------------------------------------------------------------------------
(* How the parts of the invariant come through a step.                      *)
LEMMA CarriesKept ==
  ASSUME Carries(list, delayed, running), kind' = kind,
         \A i \in DOMAIN spans' : i[1] = "consumer" => i \in DOMAIN spans,
         \A m, t, n, pc : Parcel(list', delayed', running', m, t, n, pc) =>
            /\ Parcel(list, delayed, running, m, t, n, pc) /\ m \in seen'
            /\ origin'[m] = origin[m] /\ ended'[m] = ended[m]
  PROVE  Carries(list, delayed, running)'
BY DEF Carries

LEMMA TracesKept ==
  ASSUME Traces, TraceFollowsWork, request \subseteq request', seen \subseteq seen',
         DOMAIN spans' = DOMAIN spans,
         \A i \in DOMAIN spans : spans'[i].context = spans[i].context /\ spans'[i].parent = spans[i].parent,
         \A m \in seen : origin'[m] = origin[m],
         \A m \in Messages : origin'[m] # <<>> => Good(origin'[m][1]),
         \A d \in running' : d.pc # "receive" =>
           Consumer(d) \in DOMAIN spans /\ (d.pc # "failing" => spans'[Consumer(d)].open)
  PROVE  Traces' /\ TraceFollowsWork'
<1>1. Traces'
  BY DEF Traces, Good, Consumer
<1>2. TraceFollowsWork'
  <2>. SUFFICES ASSUME NEW i \in DOMAIN spans', i[1] = "consumer"
                PROVE  LET cause == origin'[i[2]][1]
                       IN  /\ spans'[i].parent = cause.span
                           /\ spans'[i].context.trace = cause.trace /\ spans'[i].context.sampled = cause.sampled
    BY DEF TraceFollowsWork
  <2>1. i \in DOMAIN spans /\ origin'[i[2]] = origin[i[2]]
    BY DEF Traces
  <2>. QED BY <2>1 DEF TraceFollowsWork
<1>. QED BY <1>1, <1>2

LEMMA TracesStart ==
  ASSUME SpansTypeOK, Traces, TraceFollowsWork, request \subseteq request', UNCHANGED <<seen, origin>>,
         NEW id \in SpanIds, id \notin DOMAIN spans, NEW parent \in Contexts,
          parent.trace # Zeros, StartSpan(id, parent),
         id[1] = "server" => id[2] \in request',
         id[1] = "consumer" => id[2] \in seen /\ parent = origin[id[2]][1] /\ Good(parent),
         \A d \in running' : d.pc # "receive" => d \in running \/ (Consumer(d) = id /\ d.pc # "failing")
  PROVE  Traces' /\ TraceFollowsWork'
<1>1. /\ DOMAIN spans' = DOMAIN spans \cup {id}
      /\ \A i \in DOMAIN spans : spans'[i] = spans[i]
      /\ spans'[id].open /\ spans'[id].parent = parent.span /\ Good(spans'[id].context)
      /\ parent # NoContext => /\ spans'[id].context.trace = parent.trace
                               /\ spans'[id].context.sampled = parent.sampled
  BY StartEffect
<1>2. id[1] = "consumer" => parent # NoContext
  BY RoundTrip
<1>3. Traces'
  BY <1>1 DEF Traces, Good, Consumer
<1>4. TraceFollowsWork'
  BY <1>1, <1>2 DEF TraceFollowsWork
<1>. QED BY <1>3, <1>4

LEMMA EndKept ==
  ASSUME DriverInv, NEW id \in DOMAIN spans, spans[id].open, EndSpan(id), UNCHANGED <<seen, origin, request>>,
         \A d \in running' : d.pc # "receive" =>
           \/ d \in running /\ Consumer(d) # id
           \/ d.pc = "failing" /\ Consumer(d) = id
  PROVE  SpansTypeOK' /\ Traces' /\ TraceFollowsWork' /\ Ledger' /\ DOMAIN spans' = DOMAIN spans
<1>0. SpansTypeOK /\ Traces /\ TraceFollowsWork /\ Ledger
  BY DEF DriverInv
<1>1. /\ SpansTypeOK' /\ DOMAIN spans' = DOMAIN spans
      /\ \A i \in DOMAIN spans : /\ spans'[i].context = spans[i].context /\ spans'[i].parent = spans[i].parent
                                 /\ i # id => spans'[i] = spans[i]
  BY <1>0, EndEffect
<1>2. Ledger'
  BY <1>0, LedgerEnd
<1>3. \A d \in running' : d.pc # "receive" =>
        Consumer(d) \in DOMAIN spans /\ (d.pc # "failing" => spans'[Consumer(d)].open)
  BY <1>0, <1>1 DEF Traces
<1>4. \A m \in Messages : origin'[m] # <<>> => Good(origin'[m][1])
  BY <1>0 DEF Traces
<1>5. Traces' /\ TraceFollowsWork'
  BY <1>0, <1>1, <1>3, <1>4, TracesKept
<1>. QED BY <1>1, <1>2, <1>5

(* A step that leaves tracing, and what was enqueued, alone.                *)
LEMMA QuietKept ==
  ASSUME DriverInv, UNCHANGED <<tracingVars, kind, seen, origin, request>>,
         list' \in [Queues -> Seq(Waiting)], inFlight' \in [Queues -> Nat], delayed' \subseteq Waiting,
         running' \subseteq Taken, IsFiniteSet(running'), reports' \subseteq reports,
         ended' \in [Messages -> SUBSET {"done", "failed"}],
         \A m \in Messages : ended'[m] # {} => origin[m] # <<>>,
         Apart(list', delayed', running'),
         \A d \in running' : d.pc # "receive" => d \in running,
         \A m, t, n, pc : Parcel(list', delayed', running', m, t, n, pc) =>
            /\ Parcel(list, delayed, running, m, t, n, pc)
           /\ "done" \notin ended'[m] /\ (kind = "memory" => "failed" \notin ended'[m])
  PROVE  DriverInv'
<1>0. UNCHANGED spans /\ UNCHANGED <<exporter, buffer, timer, sends>>
  BY DEF tracingVars
<1>1. DriverTypeOK' /\ SpansTypeOK'
  BY <1>0 DEF DriverInv, DriverTypeOK, SpansTypeOK
<1>2. Apart(list, delayed, running)'
  BY DEF Apart
<1>3. Carries(list, delayed, running)'
  BY <1>0 DEF DriverInv, Carries
<1>4. History'
  BY DEF DriverInv, History
<1>5. Traces' /\ TraceFollowsWork'
  <2>1. Traces /\ TraceFollowsWork
    BY DEF DriverInv
  <2>. QED BY <1>0, <2>1, TracesKept DEF Traces
<1>6. Ledger'
  BY <1>0, LedgerSame DEF DriverInv, RecordedSpans
<1>. QED BY <1>1, <1>2, <1>3, <1>4, <1>5, <1>6 DEF DriverInv
------------------------------------------------------------------------------
LEMMA RequestKept ==
  ASSUME DriverInv, NEW m \in ByRequest, Request(m)
  PROVE  DriverInv'
<1>1. PICK h \in Headers : StartSpan(<<"server", m>>, ParseTraceparent(h))
  BY DEF Request
<1>2. /\ request' = request \cup {m} /\ m \notin request
      /\ UNCHANGED <<exporter, buffer, timer, sends, kind, list, delayed, seen, inFlight, running,
                     reports, origin, ended>>
  BY DEF Request
<1>. DEFINE id == <<"server", m>>
            parent == ParseTraceparent(h)
<1>3. /\ m \in Messages /\ id \in SpanIds /\ id[1] = "server" /\ id[2] = m /\ parent \in Contexts
      /\ parent.trace # Zeros
  BY Numbers, SpanNames, Parsed
<1>4. StartSpan(id, parent)
  BY <1>1
<1>. HIDE DEF id, parent
<1>5. id \notin DOMAIN spans
  BY <1>2, <1>3 DEF DriverInv, Traces
<1>6. SpansTypeOK' /\ DOMAIN spans' = DOMAIN spans \cup {id}
  BY <1>3, <1>4, StartEffect DEF DriverInv
<1>7. Ledger'
  BY <1>2, <1>3, <1>4, <1>5, LedgerStart DEF DriverInv
<1>8. Traces' /\ TraceFollowsWork'
  <2>1. \A d \in running' : d.pc # "receive" => d \in running
    BY <1>2
  <2>. QED BY <1>2, <1>3, <1>4, <1>5, <2>1, TracesStart DEF DriverInv
<1>9. DriverTypeOK'
  BY <1>2, <1>3 DEF DriverInv, DriverTypeOK
<1>10. Apart(list, delayed, running)' /\ Carries(list, delayed, running)'
  <2>1. Apart(list, delayed, running) /\ Carries(list, delayed, running)
    BY DEF DriverInv
  <2>2. Apart(list, delayed, running)'
    BY <1>2, <2>1 DEF Apart
  <2>3. \A i \in DOMAIN spans' : i[1] = "consumer" => i \in DOMAIN spans
    BY <1>3, <1>6
  <2>4. \A x, t, n, pc : Parcel(list', delayed', running', x, t, n, pc) =>
            /\ Parcel(list, delayed, running, x, t, n, pc) /\ x \in seen'
            /\ origin'[x] = origin[x] /\ ended'[x] = ended[x]
    BY <1>2, <2>1 DEF Carries
  <2>5. kind' = kind
    BY <1>2
  <2>. QED BY <2>1, <2>2, <2>3, <2>4, <2>5, CarriesKept
<1>11. History'
  BY <1>2 DEF DriverInv, History
<1>. QED BY <1>6, <1>7, <1>8, <1>9, <1>10, <1>11 DEF DriverInv

LEMMA Responded ==
  ASSUME DriverInv, NEW m \in ByRequest, Respond(m)
  PROVE  DriverInv'
<1>. DEFINE id == Server(m)
<1>1. id \in DOMAIN spans /\ spans[id].open /\ EndSpan(id) /\ UNCHANGED driverVars
  BY DEF Respond, Active
<1>2. m \in Messages /\ id[1] = "server"
  BY Numbers, SpanNames DEF Server
<1>. HIDE DEF id
<1>3. UNCHANGED <<kind, list, delayed, seen, inFlight, running, reports, request, origin, ended>>
  BY <1>1 DEF driverVars
<1>4. \A d \in running' : d.pc # "receive" => d \in running /\ Consumer(d) # id
  <2>1. ASSUME NEW d \in running PROVE Consumer(d)[1] = "consumer"
    BY DEF Consumer
  <2>. QED BY <1>2, <1>3, <2>1
<1>5. SpansTypeOK' /\ Traces' /\ TraceFollowsWork' /\ Ledger' /\ DOMAIN spans' = DOMAIN spans
  BY <1>1, <1>3, <1>4, EndKept
<1>6. DriverTypeOK' /\ History'
  BY <1>3 DEF DriverInv, DriverTypeOK, History
<1>7. Apart(list, delayed, running)' /\ Carries(list, delayed, running)'
  <2>1. Apart(list, delayed, running) /\ Carries(list, delayed, running)
    BY DEF DriverInv
  <2>. QED BY <1>3, <1>5, <2>1 DEF Apart, Carries, Parcel
<1>. QED BY <1>5, <1>6, <1>7 DEF DriverInv

------------------------------------------------------------------------------
(* An enqueue, beside what else becomes of the deliveries that run.         *)
LEMMA EnqueueKept ==
  ASSUME DriverInv, NEW others \in SUBSET Taken, IsFiniteSet(others), Apart(list, delayed, others),
         Carries(list, delayed, others),
         \A d \in others : d.pc # "receive" =>
               Consumer(d) \in DOMAIN spans /\ (d.pc # "failing" => spans[Consumer(d)].open),
         NEW x \in Messages, x \notin seen => origin[x] = <<>>, x \in Follows => origin[After[x]] # <<>>,
          NEW ambient \in Contexts, Good(ambient),
         Enqueue(x, ambient, others), UNCHANGED <<tracingVars, kind, delayed, reports, request, ended>>
  PROVE  DriverInv'
<1>0. UNCHANGED spans /\ UNCHANGED <<exporter, buffer, timer, sends, kind, delayed, reports, request, ended>>
  BY DEF tracingVars
<1>1. DriverTypeOK /\ SpansTypeOK /\ Traces /\ TraceFollowsWork /\ History /\ Ledger
  BY DEF DriverInv
<1>2. \A m, t, n, pc : Parcel(list, delayed, others, m, t, n, pc) => m \in seen
  BY DEF Carries
<1>3. /\ list' \in [Queues -> Seq(Waiting)] /\ inFlight' \in [Queues -> Nat]
      /\ running' \subseteq Taken /\ IsFiniteSet(running')
      /\ \A e \in running' : e \in others \/ e.pc = "receive"
      /\ Apart(list', delayed, running')
      /\ \A m, t, n, pc : Parcel(list', delayed, running', m, t, n, pc) =>
           \/ Parcel(list, delayed, others, m, t, n, pc)
           \/ x \notin seen /\ m = x /\ t = CurrentTraceparent(ambient) /\ n = 1 /\ pc = "receive"
      /\ seen' = seen \cup {x} /\ origin' \in [Messages -> Seq(Contexts)]
      /\ \A m \in Messages : m # x \/ x \in seen => origin'[m] = origin[m]
      /\ x \notin seen => origin'[x] = <<ambient>>
  BY <1>1, <1>2, EnqueueEffect
<1>4. \A m \in seen : origin'[m] = origin[m]
  BY <1>1, <1>3 DEF DriverTypeOK
<1>5. DriverTypeOK' /\ SpansTypeOK'
  BY <1>0, <1>1, <1>3 DEF DriverTypeOK, SpansTypeOK
<1>6. Apart(list, delayed, running)'
  BY <1>0, <1>3 DEF Apart
<1>7. Carries(list, delayed, running)'
  <2>. SUFFICES ASSUME NEW m, NEW t, NEW n, NEW pc, Parcel(list', delayed', running', m, t, n, pc)
                PROVE  /\ m \in seen' /\ t = CurrentTraceparent(origin'[m][1])
                       /\ "done" \notin ended'[m] /\ (kind' = "memory" => "failed" \notin ended'[m])
                       /\ \A i \in DOMAIN spans' : i[1] = "consumer" /\ i[2] = m =>
                             i[3] <= n /\ (pc = "receive" => i[3] < n)
    BY DEF Carries
  <2>1. CASE Parcel(list, delayed, others, m, t, n, pc)
    <3>1. /\ m \in seen /\ t = CurrentTraceparent(origin[m][1])
          /\ "done" \notin ended[m] /\ (kind = "memory" => "failed" \notin ended[m])
          /\ \A i \in DOMAIN spans : i[1] = "consumer" /\ i[2] = m => i[3] <= n /\ (pc = "receive" => i[3] < n)
      BY <2>1, Zenon DEF Carries
    <3>2. origin'[m] = origin[m] /\ m \in seen'
      BY <1>3, <1>4, <3>1
    <3>. QED BY <1>0, <3>1, <3>2
  <2>2. CASE x \notin seen /\ m = x /\ t = CurrentTraceparent(ambient) /\ n = 1 /\ pc = "receive"
    <3>1. ended[x] = {}
      BY <1>1, <2>2 DEF History
    <3>2. \A i \in DOMAIN spans : i[1] = "consumer" => i[2] # x
      BY <1>1, <2>2 DEF Traces
    <3>3. origin'[x][1] = ambient
      BY <1>3, <2>2
    <3>. QED BY <1>0, <1>3, <2>2, <3>1, <3>2, <3>3
  <2>. QED BY <1>0, <1>3, <2>1, <2>2
<1>8. History'
  <2>1. \A m \in Messages : origin[m] # <<>> => origin'[m] = origin[m]
    BY <1>3
  <2>2. origin'[x] # <<>>
    <3>1. <<ambient>> # <<>>
      OBVIOUS
    <3>2. x \in seen => origin[x] # <<>>
      BY <1>1 DEF History
    <3>. QED BY <1>3, <3>1, <3>2
  <2>3. \A m \in Messages : m \in seen' \/ ended'[m] # {} => origin'[m] # <<>>
    BY <1>0, <1>1, <1>3, <2>1, <2>2 DEF History
  <2>4. \A r \in reports' : origin'[r.msg] # <<>>
    BY <1>0, <1>1, <2>1 DEF History, DriverTypeOK
  <2>5. \A m \in Follows : origin'[m] # <<>> =>
        origin'[After[m]] # <<>> /\ (m \notin seen' => After[m] \notin seen')
    <3>. TAKE m \in Follows
    <3>. HAVE origin'[m] # <<>>
    <3>1. m \in Messages /\ After[m] \in Messages
      BY Numbers
    <3>2. CASE m = x
      BY <1>3, <2>1, <3>1, <3>2
    <3>3. CASE m # x
      BY <1>1, <1>3, <2>1, <3>1, <3>3 DEF History
    <3>. QED BY <3>2, <3>3
  <2>6. kind' = "memory" => reports' = {}
    BY <1>0, <1>1 DEF History
  <2>. QED BY <2>3, <2>4, <2>5, <2>6 DEF History
<1>9. Traces' /\ TraceFollowsWork'
  <2>1. \A m \in Messages : origin'[m] # <<>> => Good(origin'[m][1])
    <3>1. <<ambient>>[1] = ambient /\ \A m \in Messages : origin[m] # <<>> => Good(origin[m][1])
      BY <1>1 DEF Traces
    <3>2. ASSUME NEW m \in Messages, origin'[m] # <<>> PROVE Good(origin'[m][1])
      <4>1. origin'[m] = origin[m] \/ origin'[m] = <<ambient>>
        BY <1>3
      <4>. QED BY <3>1, <3>2, <4>1
    <3>. QED BY <3>2
  <2>2. \A d \in running' : d.pc # "receive" =>
           Consumer(d) \in DOMAIN spans /\ (d.pc # "failing" => spans'[Consumer(d)].open)
    BY <1>0, <1>3
  <2>3. request \subseteq request' /\ seen \subseteq seen'
    BY <1>0, <1>3
  <2>. QED BY <1>0, <1>1, <1>4, <2>1, <2>2, <2>3, TracesKept
<1>10. Ledger'
  BY <1>0, <1>1, LedgerSame DEF RecordedSpans
<1>. QED BY <1>5, <1>6, <1>7, <1>8, <1>9, <1>10 DEF DriverInv

LEMMA Submitted ==
  ASSUME DriverInv, NEW m \in ByRequest, Submit(m)
  PROVE  DriverInv'
<1>. DEFINE ambient == spans[Server(m)].context
<1>1. /\ Server(m) \in DOMAIN spans /\ origin[m] = <<>> /\ Enqueue(m, ambient, running)
      /\ UNCHANGED <<tracingVars, kind, delayed, reports, request, ended>>
  BY DEF Submit, Active
<1>2. m \in Messages /\ m \notin Follows
  BY Numbers
<1>3. ambient \in Contexts /\ Good(ambient)
  BY <1>1 DEF DriverInv, SpansTypeOK, Traces
<1>. HIDE DEF ambient
<1>4. /\ running \in SUBSET Taken /\ IsFiniteSet(running) /\ Apart(list, delayed, running)
      /\ Carries(list, delayed, running)
      /\ \A d \in running : d.pc # "receive" =>
            Consumer(d) \in DOMAIN spans /\ (d.pc # "failing" => spans[Consumer(d)].open)
  BY DEF DriverInv, DriverTypeOK, Traces
<1>. QED BY <1>1, <1>2, <1>3, <1>4, EnqueueKept
------------------------------------------------------------------------------
(* What holds of a delivery that runs.                                      *)
LEMMA OfRunning ==
  ASSUME DriverInv, NEW d \in running
  PROVE  /\ d \in Taken /\ d.msg \in Messages /\ d.attempt \in Nat /\ Consumer(d) \in SpanIds
         /\ Consumer(d)[1] = "consumer" /\ Consumer(d)[2] = d.msg /\ Consumer(d)[3] = d.attempt
         /\ d.msg \in seen /\ d.trace = CurrentTraceparent(origin[d.msg][1])
         /\ origin[d.msg] # <<>> /\ Good(origin[d.msg][1]) /\ origin[d.msg][1] \in Contexts
         /\ "done" \notin ended[d.msg] /\ (kind = "memory" => "failed" \notin ended[d.msg])
         /\ \A i \in DOMAIN spans : i[1] = "consumer" /\ i[2] = d.msg =>
               i[3] <= d.attempt /\ (d.pc = "receive" => i[3] < d.attempt)
         /\ \A e \in running \ {d} : e.msg # d.msg
         /\ d.pc \in {"handle", "handed"} => /\ Consumer(d) \in DOMAIN spans /\ spans[Consumer(d)].open
                                             /\ spans[Consumer(d)].context \in Contexts
                                             /\ Good(spans[Consumer(d)].context)
<1>1. d \in Taken /\ d.msg \in Messages /\ d.attempt \in Nat
  BY DEF DriverInv, DriverTypeOK, Taken
<1>2. /\ Consumer(d) \in SpanIds
      /\ Consumer(d)[1] = "consumer" /\ Consumer(d)[2] = d.msg /\ Consumer(d)[3] = d.attempt
  BY <1>1, SpanNames DEF Consumer
<1>3. Parcel(list, delayed, running, d.msg, d.trace, d.attempt, d.pc)
  BY DEF Parcel
<1>4. /\ d.msg \in seen /\ d.trace = CurrentTraceparent(origin[d.msg][1])
      /\ "done" \notin ended[d.msg] /\ (kind = "memory" => "failed" \notin ended[d.msg])
      /\ \A i \in DOMAIN spans : i[1] = "consumer" /\ i[2] = d.msg =>
            i[3] <= d.attempt /\ (d.pc = "receive" => i[3] < d.attempt)
  BY <1>3, Zenon DEF DriverInv, Carries
<1>5. origin[d.msg] # <<>> /\ Good(origin[d.msg][1])
  BY <1>1, <1>4 DEF DriverInv, History, Traces
<1>6. origin[d.msg][1] \in Contexts
  <2>1. origin[d.msg] \in Seq(Contexts)
    BY <1>1 DEF DriverInv, DriverTypeOK
  <2>2. 1 \in DOMAIN origin[d.msg]
    BY <1>5, <2>1, EmptySeq, LenProperties
  <2>. QED BY <2>1, <2>2, ElementOfSeq, LenProperties
<1>7. \A e \in running \ {d} : e.msg # d.msg
  BY DEF DriverInv, Apart
<1>8. d.pc \in {"handle", "handed"} => /\ Consumer(d) \in DOMAIN spans /\ spans[Consumer(d)].open
                                       /\ spans[Consumer(d)].context \in Contexts
                                       /\ Good(spans[Consumer(d)].context)
  BY DEF DriverInv, Traces, SpansTypeOK
<1>. QED BY <1>1, <1>2, <1>4, <1>5, <1>6, <1>7, <1>8

(* Becoming another state of the same delivery.                             *)
LEMMA Becomes ==
  ASSUME DriverInv, NEW d \in running, NEW pc \in {"handle", "handed", "failing"},
         d.pc # "receive" \/ pc = "handle"
  PROVE  LET e == [d EXCEPT !.pc = pc]
         IN  /\ e \in Taken /\ e.msg = d.msg /\ e.pc = pc /\ Consumer(e) = Consumer(d)
             /\ Become(d, e) \in SUBSET Taken /\ IsFiniteSet(Become(d, e)) /\ Apart(list, delayed, Become(d, e))
             /\ \A x \in Become(d, e) : x = e \/ (x \in running \ {d} /\ x.msg # d.msg)
             /\ \A m, t, n, p : Parcel(list, delayed, Become(d, e), m, t, n, p) =>
                  \/ Parcel(list, delayed, running, m, t, n, p) /\ m # d.msg
                  \/ m = d.msg /\ t = d.trace /\ n = d.attempt /\ p = pc
<1>. DEFINE e == [d EXCEPT !.pc = pc]
<1>1. d \in Taken /\ d.msg \in Messages /\ \A x \in running \ {d} : x.msg # d.msg
  BY OfRunning
<1>2. e \in Taken /\ e.msg = d.msg /\ e.pc = pc /\ e.attempt = d.attempt /\ e.trace = d.trace
  BY <1>1 DEF Taken
<1>. HIDE DEF e
<1>3. Consumer(e) = Consumer(d)
  BY <1>2 DEF Consumer
<1>4. /\ delayed \subseteq Waiting /\ running \subseteq Taken /\ IsFiniteSet(running)
      /\ Apart(list, delayed, running)
  BY DEF DriverInv, DriverTypeOK
<1>5. Become(d, e) = (running \ {d}) \cup {e}
  BY DEF Become
<1>6. IsFiniteSet(Become(d, e))
  <2>1. IsFiniteSet((running \ {d}) \cup {e})
    BY <1>4, FiniteBecome
  <2>. QED BY <1>5, <2>1
<1>7. /\ Apart(list, delayed, Become(d, e))
      /\ \A m, t, n, p : Parcel(list, delayed, Become(d, e), m, t, n, p) =>
           \/ Parcel(list, delayed, running \ {d}, m, t, n, p)
           \/ m = e.msg /\ t = e.trace /\ n = e.attempt /\ p = e.pc
  <2>1. /\ Apart(list, delayed, (running \ {d}) \cup {e})
        /\ \A m, t, n, p : Parcel(list, delayed, (running \ {d}) \cup {e}, m, t, n, p) =>
             \/ Parcel(list, delayed, running \ {d}, m, t, n, p)
             \/ m = e.msg /\ t = e.trace /\ n = e.attempt /\ p = e.pc
    BY <1>2, <1>4, StateApart
  <2>. QED BY <1>5, <2>1
<1>8. \A m, t, n, p : Parcel(list, delayed, running \ {d}, m, t, n, p) =>
      m # d.msg /\ Parcel(list, delayed, running, m, t, n, p)
  BY <1>4, GoneApart
<1>9. Become(d, e) \in SUBSET Taken /\ \A x \in Become(d, e) : x = e \/ (x \in running \ {d} /\ x.msg # d.msg)
  BY <1>1, <1>2, <1>4, <1>5
<1>. QED BY <1>2, <1>3, <1>6, <1>7, <1>8, <1>9 DEF e

LEMMA Received ==
  ASSUME DriverInv, NEW d \in running, Receive(d)
  PROVE  DriverInv'
<1>. DEFINE e == [d EXCEPT !.pc = "handle"]
            id == Consumer(d)
            parent == origin[d.msg][1]
<1>1. /\ d.pc = "receive" /\ StartSpan(id, WithContext(ParseTraceparent(d.trace), NoContext))
      /\ running' = Become(d, e)
      /\ UNCHANGED <<exporter, buffer, timer, sends, kind, list, delayed, seen, inFlight, reports,
                     request, origin, ended>>
  BY DEF Receive
<1>2. /\ d.msg \in Messages /\ d.attempt \in Nat /\ id \in SpanIds /\ id[1] = "consumer" /\ id[2] = d.msg
      /\ id[3] = d.attempt
      /\ d.msg \in seen /\ d.trace = CurrentTraceparent(parent)
      /\ Good(parent) /\ parent \in Contexts
      /\ "done" \notin ended[d.msg] /\ (kind = "memory" => "failed" \notin ended[d.msg])
      /\ \A i \in DOMAIN spans : i[1] = "consumer" /\ i[2] = d.msg =>
            i[3] <= d.attempt /\ (d.pc = "receive" => i[3] < d.attempt)
  BY OfRunning
<1>3. /\ e.pc = "handle" /\ Consumer(e) = id
      /\ Become(d, e) \in SUBSET Taken /\ IsFiniteSet(Become(d, e)) /\ Apart(list, delayed, Become(d, e))
      /\ \A x \in Become(d, e) : x = e \/ (x \in running \ {d} /\ x.msg # d.msg)
      /\ \A m, t, n, p : Parcel(list, delayed, Become(d, e), m, t, n, p) =>
           \/ Parcel(list, delayed, running, m, t, n, p) /\ m # d.msg
           \/ m = d.msg /\ t = d.trace /\ n = d.attempt /\ p = "handle"
  BY Becomes
<1>. HIDE DEF e, id, parent
<1>4. StartSpan(id, parent) /\ parent.trace # Zeros
  BY <1>1, <1>2, RoundTrip DEF Good
<1>5. id \notin DOMAIN spans
  BY <1>1, <1>2
<1>6. SpansTypeOK' /\ DOMAIN spans' = DOMAIN spans \cup {id}
  BY <1>2, <1>4, StartEffect DEF DriverInv
<1>7. Ledger'
  BY <1>1, <1>2, <1>4, <1>5, LedgerStart DEF DriverInv
<1>8. Traces' /\ TraceFollowsWork'
  <2>1. \A x \in running' : x.pc # "receive" => x \in running \/ (Consumer(x) = id /\ x.pc # "failing")
    BY <1>1, <1>3
  <2>2. id[1] = "consumer" => id[2] \in seen /\ parent = origin[id[2]][1] /\ Good(parent)
    BY <1>2 DEF parent
  <2>3. request \subseteq request' /\ UNCHANGED <<seen, origin>> /\ id[1] # "server"
    BY <1>1, <1>2
  <2>. QED BY <1>2, <1>4, <1>5, <2>1, <2>2, <2>3, TracesStart DEF DriverInv
<1>9. DriverTypeOK'
  BY <1>1, <1>3 DEF DriverInv, DriverTypeOK
<1>10. Apart(list, delayed, running)'
  BY <1>1, <1>3 DEF Apart
<1>11. Carries(list, delayed, running)'
  <2>. SUFFICES ASSUME NEW m, NEW t, NEW n, NEW pc, Parcel(list', delayed', running', m, t, n, pc)
                PROVE  /\ m \in seen' /\ t = CurrentTraceparent(origin'[m][1])
                       /\ "done" \notin ended'[m] /\ (kind' = "memory" => "failed" \notin ended'[m])
                       /\ \A i \in DOMAIN spans' : i[1] = "consumer" /\ i[2] = m =>
                             i[3] <= n /\ (pc = "receive" => i[3] < n)
    BY DEF Carries
  <2>0. Parcel(list, delayed, Become(d, e), m, t, n, pc)
    BY <1>1
  <2>1. CASE Parcel(list, delayed, running, m, t, n, pc) /\ m # d.msg
    <3>1. /\ m \in seen /\ t = CurrentTraceparent(origin[m][1])
          /\ "done" \notin ended[m] /\ (kind = "memory" => "failed" \notin ended[m])
          /\ \A i \in DOMAIN spans : i[1] = "consumer" /\ i[2] = m => i[3] <= n /\ (pc = "receive" => i[3] < n)
      BY <2>1, Zenon DEF DriverInv, Carries
    <3>. QED BY <1>1, <1>2, <1>6, <2>1, <3>1
  <2>2. CASE m = d.msg /\ t = d.trace /\ n = d.attempt /\ pc = "handle"
    BY <1>1, <1>2, <1>6, <2>2 DEF parent
  <2>. QED BY <1>3, <2>0, <2>1, <2>2
<1>12. History'
  BY <1>1 DEF DriverInv, History
<1>. QED BY <1>6, <1>7, <1>8, <1>9, <1>10, <1>11, <1>12 DEF DriverInv

LEMMA HandedOn ==
  ASSUME DriverInv, NEW d \in running, Hand(d)
  PROVE  DriverInv'
<1>. DEFINE e == [d EXCEPT !.pc = "handed"]
            ambient == spans[Consumer(d)].context
<1>1. d.pc = "handle" /\ UNCHANGED <<tracingVars, kind, delayed, reports, request, ended>>
  BY DEF Hand
<1>2. PICK x \in Follows : After[x] = d.msg /\ Enqueue(x, ambient, Become(d, e))
  BY DEF Hand
<1>3. /\ d.msg \in seen /\ d.trace = CurrentTraceparent(origin[d.msg][1])
      /\ Consumer(d) \in DOMAIN spans /\ spans[Consumer(d)].open /\ ambient \in Contexts /\ Good(ambient)
      /\ "done" \notin ended[d.msg] /\ (kind = "memory" => "failed" \notin ended[d.msg])
      /\ \A i \in DOMAIN spans : i[1] = "consumer" /\ i[2] = d.msg => i[3] <= d.attempt
  BY <1>1, OfRunning
<1>4. /\ e.pc = "handed" /\ Consumer(e) = Consumer(d)
      /\ Become(d, e) \in SUBSET Taken /\ IsFiniteSet(Become(d, e)) /\ Apart(list, delayed, Become(d, e))
      /\ \A y \in Become(d, e) : y = e \/ (y \in running \ {d} /\ y.msg # d.msg)
      /\ \A m, t, n, p : Parcel(list, delayed, Become(d, e), m, t, n, p) =>
           \/ Parcel(list, delayed, running, m, t, n, p) /\ m # d.msg
           \/ m = d.msg /\ t = d.trace /\ n = d.attempt /\ p = "handed"
  BY <1>1, Becomes
<1>. HIDE DEF e, ambient
<1>. DEFINE others == Become(d, e)
<1>5. x \in Messages /\ (x \notin seen => origin[x] = <<>>) /\ origin[After[x]] # <<>>
  BY <1>2, <1>3, OfRunning, Numbers DEF DriverInv, History
<1>6. \A y \in others : y.pc # "receive" =>
      Consumer(y) \in DOMAIN spans /\ (y.pc # "failing" => spans[Consumer(y)].open)
  BY <1>3, <1>4 DEF DriverInv, Traces
<1>7. Carries(list, delayed, others)
  <2>. SUFFICES ASSUME NEW m, NEW t, NEW n, NEW pc, Parcel(list, delayed, others, m, t, n, pc)
                PROVE  /\ m \in seen /\ t = CurrentTraceparent(origin[m][1])
                       /\ "done" \notin ended[m] /\ (kind = "memory" => "failed" \notin ended[m])
                       /\ \A i \in DOMAIN spans : i[1] = "consumer" /\ i[2] = m =>
                             i[3] <= n /\ (pc = "receive" => i[3] < n)
    BY DEF Carries
  <2>1. CASE Parcel(list, delayed, running, m, t, n, pc)
    BY <2>1, Zenon DEF DriverInv, Carries
  <2>2. CASE m = d.msg /\ t = d.trace /\ n = d.attempt /\ pc = "handed"
    BY <1>3, <2>2
  <2>. QED BY <1>4, <2>1, <2>2
<1>8. /\ others \in SUBSET Taken /\ IsFiniteSet(others) /\ Apart(list, delayed, others)
      /\ Enqueue(x, ambient, others)
  BY <1>2, <1>4
<1>. HIDE DEF others
<1>. QED BY <1>1, <1>3, <1>5, <1>6, <1>7, <1>8, EnqueueKept
------------------------------------------------------------------------------
(* A handler that ends leaves no delivery of its message, but a retry.      *)
LEMMA LeavesNone ==
  ASSUME DriverInv, NEW d \in running
  PROVE  /\ Apart(list, delayed, running \ {d})
         /\ \A m, t, n, pc : Parcel(list, delayed, running \ {d}, m, t, n, pc) =>
              m # d.msg /\ Parcel(list, delayed, running, m, t, n, pc)
<1>1. delayed \subseteq Waiting /\ running \subseteq Taken /\ Apart(list, delayed, running)
  BY DEF DriverInv, DriverTypeOK
<1>. QED BY <1>1, GoneApart

LEMMA Succeeded ==
  ASSUME DriverInv, NEW d \in running, Succeed(d)
  PROVE  DriverInv'
<1>. DEFINE id == Consumer(d)
<1>1. /\ d.pc \in {"handle", "handed"} /\ EndSpan(id) /\ Leave(d)
      /\ ended' = [ended EXCEPT ![d.msg] = @ \cup {"done"}]
      /\ UNCHANGED <<kind, delayed, seen, reports, request, origin>>
  BY DEF Succeed
<1>2. /\ d.msg \in Messages /\ d.msg \in seen /\ origin[d.msg] # <<>> /\ id \in DOMAIN spans /\ spans[id].open
      /\ id[2] = d.msg
      /\ \A e \in running \ {d} : e.msg # d.msg
  BY <1>1, OfRunning
<1>3. /\ Apart(list, delayed, running \ {d})
      /\ \A m, t, n, pc : Parcel(list, delayed, running \ {d}, m, t, n, pc) =>
           m # d.msg /\ Parcel(list, delayed, running, m, t, n, pc)
  BY LeavesNone
<1>4. DriverTypeOK /\ delayed \in SUBSET Waiting /\ History
  BY DEF DriverInv, DriverTypeOK
<1>5. /\ list' \in [Queues -> Seq(Waiting)] /\ inFlight' \in [Queues -> Nat]
      /\ running' \subseteq Taken /\ IsFiniteSet(running')
      /\ \A e \in running' : e \in running \ {d} \/ e.pc = "receive"
      /\ Apart(list', delayed, running')
      /\ \A m, t, n, pc : Parcel(list', delayed, running', m, t, n, pc) =>
            Parcel(list, delayed, running \ {d}, m, t, n, pc)
  BY <1>1, <1>3, <1>4, LeaveEffect
<1>6. \A e \in running' : e.pc # "receive" => e \in running /\ Consumer(e) # id
  <2>1. \A e \in running : Consumer(e)[2] = e.msg
    BY DEF Consumer
  <2>. QED BY <1>2, <1>5, <2>1
<1>. HIDE DEF id
<1>7. SpansTypeOK' /\ Traces' /\ TraceFollowsWork' /\ Ledger' /\ DOMAIN spans' = DOMAIN spans
  BY <1>1, <1>2, <1>6, EndKept
<1>8. /\ ended' \in [Messages -> SUBSET {"done", "failed"}]
      /\ \A m \in Messages : m # d.msg => ended'[m] = ended[m]
  BY <1>1, <1>4 DEF DriverTypeOK
<1>9. DriverTypeOK'
  BY <1>1, <1>4, <1>5, <1>8 DEF DriverTypeOK
<1>10. Apart(list, delayed, running)'
  BY <1>1, <1>5 DEF Apart
<1>11. Carries(list, delayed, running)'
  <2>1. Carries(list, delayed, running) /\ seen \subseteq Messages
    BY DEF DriverInv, DriverTypeOK
  <2>2. \A m, t, n, pc : Parcel(list', delayed', running', m, t, n, pc) =>
           Parcel(list, delayed, running, m, t, n, pc) /\ m # d.msg
    BY <1>1, <1>3, <1>5
  <2>3. \A m, t, n, pc : Parcel(list', delayed', running', m, t, n, pc) =>
            /\ Parcel(list, delayed, running, m, t, n, pc) /\ m \in seen'
            /\ origin'[m] = origin[m] /\ ended'[m] = ended[m]
    BY <1>1, <1>8, <2>1, <2>2 DEF Carries
  <2>4. kind' = kind /\ \A i \in DOMAIN spans' : i[1] = "consumer" => i \in DOMAIN spans
    BY <1>1, <1>7
  <2>. QED BY <2>1, <2>3, <2>4, CarriesKept
<1>12. History'
  BY <1>1, <1>2, <1>4, <1>8 DEF History
<1>. QED BY <1>7, <1>9, <1>10, <1>11, <1>12 DEF DriverInv

LEMMA Reported ==
  ASSUME DriverInv, NEW d \in running, Report(d)
  PROVE  DriverInv'
<1>1. /\ Leave(d) /\ ended' = [ended EXCEPT ![d.msg] = @ \cup {"failed"}]
      /\ UNCHANGED <<tracingVars, kind, delayed, seen, reports, request, origin>>
  BY DEF Report
<1>2. d.msg \in Messages /\ origin[d.msg] # <<>>
  BY OfRunning
<1>3. /\ Apart(list, delayed, running \ {d})
      /\ \A m, t, n, pc : Parcel(list, delayed, running \ {d}, m, t, n, pc) =>
           m # d.msg /\ Parcel(list, delayed, running, m, t, n, pc)
  BY LeavesNone
<1>4. DriverTypeOK /\ delayed \in SUBSET Waiting /\ History /\ Carries(list, delayed, running)
  BY DEF DriverInv, DriverTypeOK
<1>5. /\ list' \in [Queues -> Seq(Waiting)] /\ inFlight' \in [Queues -> Nat]
      /\ running' \subseteq Taken /\ IsFiniteSet(running')
      /\ \A e \in running' : e \in running \ {d} \/ e.pc = "receive"
      /\ Apart(list', delayed, running')
      /\ \A m, t, n, pc : Parcel(list', delayed, running', m, t, n, pc) =>
            Parcel(list, delayed, running \ {d}, m, t, n, pc)
  BY <1>3, <1>4, LeaveEffect, <1>1
<1>6. /\ ended' \in [Messages -> SUBSET {"done", "failed"}]
      /\ \A m \in Messages : m # d.msg => ended'[m] = ended[m]
      /\ \A m \in Messages : ended'[m] # {} => origin[m] # <<>>
  BY <1>1, <1>2, <1>4 DEF DriverTypeOK, History
<1>7. \A m, t, n, pc : Parcel(list', delayed', running', m, t, n, pc) =>
            /\ Parcel(list, delayed, running, m, t, n, pc)
           /\ "done" \notin ended'[m] /\ (kind = "memory" => "failed" \notin ended'[m])
  <2>1. \A m, t, n, pc : Parcel(list', delayed', running', m, t, n, pc) =>
           Parcel(list, delayed, running, m, t, n, pc) /\ m # d.msg
    BY <1>1, <1>3, <1>5
  <2>2. \A m, t, n, pc : Parcel(list, delayed, running, m, t, n, pc) =>
          /\ m \in Messages
          /\ "done" \notin ended[m] /\ (kind = "memory" => "failed" \notin ended[m])
    BY <1>4 DEF Carries, DriverTypeOK
  <2>. QED BY <1>6, <2>1, <2>2
<1>8. /\ delayed' \subseteq Waiting /\ reports' \subseteq reports /\ Apart(list', delayed', running')
      /\ \A e \in running' : e.pc # "receive" => e \in running
  BY <1>1, <1>4, <1>5
<1>9. UNCHANGED <<tracingVars, kind, seen, origin, request>>
  BY <1>1
<1>. QED BY <1>5, <1>6, <1>7, <1>8, <1>9, QuietKept

LEMMA EventReported ==
  ASSUME DriverInv, NEW r \in reports, ReportEvent(r)
  PROVE  DriverInv'
<1>1. /\ reports' = reports \ {r} /\ ended' = [ended EXCEPT ![r.msg] = @ \cup {"failed"}]
      /\ UNCHANGED <<tracingVars, kind, list, delayed, seen, inFlight, running, request, origin>>
  BY DEF ReportEvent
<1>2. DriverTypeOK /\ History /\ Carries(list, delayed, running) /\ Apart(list, delayed, running)
  BY DEF DriverInv
<1>3. kind # "memory" /\ r.msg \in Messages /\ origin[r.msg] # <<>>
  BY <1>2 DEF History, DriverTypeOK
<1>4. /\ ended' \in [Messages -> SUBSET {"done", "failed"}]
      /\ \A m \in Messages : ended'[m] # {} => origin[m] # <<>>
      /\ \A m \in Messages : "done" \in ended'[m] => "done" \in ended[m]
  BY <1>1, <1>2, <1>3 DEF DriverTypeOK, History
<1>5. \A m, t, n, pc : Parcel(list', delayed', running', m, t, n, pc) =>
            /\ Parcel(list, delayed, running, m, t, n, pc)
           /\ "done" \notin ended'[m] /\ (kind = "memory" => "failed" \notin ended'[m])
  <2>1. \A m, t, n, pc : Parcel(list, delayed, running, m, t, n, pc) => m \in Messages /\ "done" \notin ended[m]
    BY <1>2 DEF Carries, DriverTypeOK
  <2>. QED BY <1>1, <1>3, <1>4, <2>1
<1>6. /\ list' \in [Queues -> Seq(Waiting)] /\ inFlight' \in [Queues -> Nat] /\ delayed' \subseteq Waiting
      /\ running' \subseteq Taken /\ IsFiniteSet(running') /\ reports' \subseteq reports
      /\ Apart(list', delayed', running') /\ \A d \in running' : d.pc # "receive" => d \in running
  BY <1>1, <1>2 DEF DriverTypeOK
<1>7. UNCHANGED <<tracingVars, kind, seen, origin, request>>
  BY <1>1
<1>. QED BY <1>4, <1>5, <1>6, <1>7, QuietKept

LEMMA BackDue ==
  ASSUME DriverInv, NEW d \in delayed, Due(d)
  PROVE  DriverInv'
<1>1. /\ delayed' = delayed \ {d} /\ Push(QueueOf[d.msg], d, running)
      /\ UNCHANGED <<tracingVars, kind, seen, reports, request, origin, ended>>
  BY DEF Due
<1>. DEFINE dl == delayed \ {d}
<1>2. DriverTypeOK /\ History /\ Carries(list, delayed, running) /\ Apart(list, delayed, running)
  BY DEF DriverInv
<1>3. d \in Waiting /\ dl \in SUBSET Waiting /\ running \in SUBSET Taken /\ IsFiniteSet(running)
  BY <1>2 DEF DriverTypeOK
<1>4. /\ Apart(list, dl, running)
      /\ \A m, t, n, pc : Parcel(list, dl, running, m, t, n, pc) => Parcel(list, delayed, running, m, t, n, pc)
  <2>1. dl \in SUBSET delayed /\ running \in SUBSET running
    OBVIOUS
  <2>. QED BY <1>2, <2>1, FewerApart
<1>5. \A m, t, n, pc : Parcel(list, dl, running, m, t, n, pc) => m # d.msg
  <2>1. \A x \in Taken : x # d
    BY <1>3 DEF Waiting, Taken
  <2>2. \A x \in dl \cup running : x # d /\ x \in delayed \cup running
    BY <1>3, <2>1
  <2>. QED BY <1>2, <2>2 DEF Apart, Parcel
<1>. HIDE DEF dl
<1>6. /\ list' \in [Queues -> Seq(Waiting)] /\ inFlight' \in [Queues -> Nat]
      /\ running' \subseteq Taken /\ IsFiniteSet(running')
      /\ \A e \in running' : e \in running \/ e.pc = "receive"
      /\ Apart(list', dl, running')
      /\ \A m, t, n, pc : Parcel(list', dl, running', m, t, n, pc) =>
           \/ Parcel(list, dl, running, m, t, n, pc)
           \/ m = d.msg /\ t = d.trace /\ n = d.attempt /\ pc = "receive"
  BY <1>1, <1>2, <1>3, <1>4, <1>5, PushEffect
<1>7. \A m, t, n, pc : Parcel(list', delayed', running', m, t, n, pc) =>
            /\ Parcel(list, delayed, running, m, t, n, pc)
           /\ "done" \notin ended'[m] /\ (kind = "memory" => "failed" \notin ended'[m])
  <2>1. Parcel(list, delayed, running, d.msg, d.trace, d.attempt, "receive")
    BY DEF Parcel
  <2>2. \A m, t, n, pc : Parcel(list', delayed', running', m, t, n, pc) =>
        Parcel(list, delayed, running, m, t, n, pc)
    BY <1>1, <1>4, <1>6, <2>1 DEF dl
  <2>3. \A m, t, n, pc : Parcel(list, delayed, running, m, t, n, pc) =>
          "done" \notin ended[m] /\ (kind = "memory" => "failed" \notin ended[m])
    BY <1>2 DEF Carries
  <2>. QED BY <1>1, <2>2, <2>3
<1>8. /\ delayed' \subseteq Waiting /\ reports' \subseteq reports /\ Apart(list', delayed', running')
      /\ \A e \in running' : e.pc # "receive" => e \in running
      /\ ended' \in [Messages -> SUBSET {"done", "failed"}] /\ \A m \in Messages : ended'[m] # {} =>
            origin[m] # <<>>
      /\ UNCHANGED <<tracingVars, kind, seen, origin, request>>
  BY <1>1, <1>2, <1>3, <1>6 DEF dl, DriverTypeOK, History
<1>. QED BY <1>6, <1>7, <1>8, QuietKept
------------------------------------------------------------------------------
(* A handler that throws, once what its delivery comes to is known: the new *)
(* parcels are old ones of other messages, the retry, or the last attempt,  *)
(* for which onFailed is awaited.                                           *)
LEMMA ThrownKept ==
  ASSUME DriverInv, NEW d \in running, d.pc \in {"handle", "handed"}, EndSpan(Consumer(d)),
         UNCHANGED <<kind, seen, request, origin, ended>>,
         list' \in [Queues -> Seq(Waiting)], inFlight' \in [Queues -> Nat], delayed' \subseteq Waiting,
         running' \subseteq Taken, IsFiniteSet(running'), Apart(list', delayed', running'),
         \A e \in running' : e.pc # "receive" => \/ e \in running /\ e.msg # d.msg
                                                 \/ e.pc = "failing" /\ Consumer(e) = Consumer(d),
         \A m, t, n, pc : Parcel(list', delayed', running', m, t, n, pc) =>
           \/ Parcel(list, delayed, running, m, t, n, pc)
           \/ m = d.msg /\ t = d.trace /\ n = d.attempt + 1
           \/ m = d.msg /\ t = d.trace /\ n = d.attempt /\ pc = "failing",
         reports' \subseteq [msg : Messages, attempt : Nat],
         \A r \in reports' : r \in reports \/ (r.msg = d.msg /\ kind # "memory")
  PROVE  DriverInv'
<1>. DEFINE id == Consumer(d)
<1>1. /\ d.msg \in Messages /\ d.attempt \in Nat /\ id \in DOMAIN spans /\ spans[id].open /\ id[2] = d.msg
      /\ d.msg \in seen /\ d.trace = CurrentTraceparent(origin[d.msg][1]) /\ origin[d.msg] # <<>>
      /\ "done" \notin ended[d.msg] /\ (kind = "memory" => "failed" \notin ended[d.msg])
      /\ \A i \in DOMAIN spans : i[1] = "consumer" /\ i[2] = d.msg => i[3] <= d.attempt
  BY OfRunning
<1>2. \A e \in running' : e.pc # "receive" => \/ e \in running /\ Consumer(e) # id
                                              \/ e.pc = "failing" /\ Consumer(e) = id
  <2>1. \A e \in running : Consumer(e)[2] = e.msg
    BY DEF Consumer
  <2>. QED BY <1>1, <2>1
<1>3. \A i \in DOMAIN spans : i[1] = "consumer" => i[3] \in Nat
  BY SpanNames DEF DriverInv, SpansTypeOK
<1>. HIDE DEF id
<1>4. EndSpan(id)
  BY DEF id
<1>5. SpansTypeOK' /\ Traces' /\ TraceFollowsWork' /\ Ledger' /\ DOMAIN spans' = DOMAIN spans
  BY <1>1, <1>2, <1>4, EndKept
<1>6. DriverTypeOK'
  BY DEF DriverInv, DriverTypeOK
<1>7. Apart(list, delayed, running)'
  BY DEF Apart
<1>8. Carries(list, delayed, running)'
  <2>. SUFFICES ASSUME NEW m, NEW t, NEW n, NEW pc, Parcel(list', delayed', running', m, t, n, pc)
                PROVE  /\ m \in seen' /\ t = CurrentTraceparent(origin'[m][1])
                       /\ "done" \notin ended'[m] /\ (kind' = "memory" => "failed" \notin ended'[m])
                       /\ \A i \in DOMAIN spans' : i[1] = "consumer" /\ i[2] = m =>
                             i[3] <= n /\ (pc = "receive" => i[3] < n)
    BY DEF Carries
  <2>1. CASE Parcel(list, delayed, running, m, t, n, pc)
    <3>1. /\ m \in seen /\ t = CurrentTraceparent(origin[m][1])
          /\ "done" \notin ended[m] /\ (kind = "memory" => "failed" \notin ended[m])
          /\ \A i \in DOMAIN spans : i[1] = "consumer" /\ i[2] = m => i[3] <= n /\ (pc = "receive" => i[3] < n)
      BY <2>1, Zenon DEF DriverInv, Carries
    <3>. QED BY <1>5, <3>1
  <2>2. CASE m = d.msg /\ t = d.trace /\ n = d.attempt + 1
    BY <1>1, <1>3, <1>5, <2>2
  <2>3. CASE m = d.msg /\ t = d.trace /\ n = d.attempt /\ pc = "failing"
    BY <1>1, <1>5, <2>3
  <2>. QED BY <2>1, <2>2, <2>3
<1>9. History'
  BY <1>1 DEF DriverInv, History
<1>. QED BY <1>5, <1>6, <1>7, <1>8, <1>9 DEF DriverInv

LEMMA Thrown ==
  ASSUME DriverInv, NEW d \in running, Throw(d)
  PROVE  DriverInv'
<1>1. /\ d.pc \in {"handle", "handed"} /\ EndSpan(Consumer(d))
      /\ delayed' = IF Spent(d) THEN delayed ELSE delayed \cup {Retry(d)}
      /\ IF kind = "memory" /\ Spent(d)
         THEN running' = Become(d, [d EXCEPT !.pc = "failing"]) /\ UNCHANGED <<list, inFlight>>
         ELSE Leave(d)
      /\ reports' = IF kind = "bullmq" THEN reports \cup {[msg |-> d.msg, attempt |-> d.attempt]} ELSE reports
      /\ UNCHANGED <<kind, seen, request, origin, ended>>
  BY DEF Throw
<1>2. d \in Taken /\ d.msg \in Messages /\ d.attempt \in Nat /\ \A e \in running \ {d} : e.msg # d.msg
  BY OfRunning
<1>3. DriverTypeOK /\ delayed \subseteq Waiting /\ running \subseteq Taken /\ Apart(list, delayed, running)
  BY DEF DriverInv, DriverTypeOK
<1>4. /\ reports' \subseteq [msg : Messages, attempt : Nat]
      /\ \A r \in reports' : r \in reports \/ (r.msg = d.msg /\ kind # "memory")
  BY <1>1, <1>2, <1>3 DEF DriverTypeOK
<1>5. CASE kind = "memory" /\ Spent(d)
  <2>. DEFINE e == [d EXCEPT !.pc = "failing"]
  <2>1. running' = Become(d, e) /\ UNCHANGED <<list, inFlight, delayed>>
    BY <1>1, <1>5
  <2>2. /\ e \in Taken /\ e.msg = d.msg /\ e.pc = "failing" /\ Consumer(e) = Consumer(d)
        /\ Become(d, e) \in SUBSET Taken /\ IsFiniteSet(Become(d, e)) /\ Apart(list, delayed, Become(d, e))
        /\ \A x \in Become(d, e) : x = e \/ (x \in running \ {d} /\ x.msg # d.msg)
        /\ \A m, t, n, p : Parcel(list, delayed, Become(d, e), m, t, n, p) =>
             \/ Parcel(list, delayed, running, m, t, n, p) /\ m # d.msg
             \/ m = d.msg /\ t = d.trace /\ n = d.attempt /\ p = "failing"
    BY <1>1, Becomes
  <2>. HIDE DEF e
  <2>3. /\ list' \in [Queues -> Seq(Waiting)] /\ inFlight' \in [Queues -> Nat] /\ delayed' \subseteq Waiting
        /\ running' \subseteq Taken /\ IsFiniteSet(running') /\ Apart(list', delayed', running')
        /\ \A x \in running' : x.pc # "receive" => \/ x \in running /\ x.msg # d.msg
                                                   \/ x.pc = "failing" /\ Consumer(x) = Consumer(d)
        /\ \A m, t, n, pc : Parcel(list', delayed', running', m, t, n, pc) =>
             \/ Parcel(list, delayed, running, m, t, n, pc)
             \/ m = d.msg /\ t = d.trace /\ n = d.attempt + 1
             \/ m = d.msg /\ t = d.trace /\ n = d.attempt /\ pc = "failing"
    BY <1>3, <2>1, <2>2 DEF DriverTypeOK
  <2>. QED BY <1>1, <1>4, <2>3, ThrownKept
<1>6. CASE ~(kind = "memory" /\ Spent(d))
  <2>. DEFINE e == Retry(d)
              dl == IF Spent(d) THEN delayed ELSE delayed \cup {e}
  <2>1. delayed' = dl /\ Leave(d)
    BY <1>1, <1>6
  <2>2. e \in Waiting /\ e.msg = d.msg /\ e.trace = d.trace /\ e.attempt = d.attempt + 1
    BY <1>2 DEF Retry, Delivery, Taken, Waiting
  <2>. HIDE DEF e
  <2>3. /\ Apart(list, delayed, running \ {d})
        /\ \A m, t, n, pc : Parcel(list, delayed, running \ {d}, m, t, n, pc) =>
              m # d.msg /\ Parcel(list, delayed, running, m, t, n, pc)
    BY LeavesNone
  <2>4. /\ Apart(list, delayed \cup {e}, running \ {d})
        /\ \A m, t, n, pc : Parcel(list, delayed \cup {e}, running \ {d}, m, t, n, pc) =>
             \/ Parcel(list, delayed, running \ {d}, m, t, n, pc)
             \/ m = e.msg /\ t = e.trace /\ n = e.attempt /\ pc = "receive"
    BY <1>3, <2>2, RetryApart
  <2>5. /\ Apart(list, dl, running \ {d}) /\ dl \in SUBSET Waiting
        /\ \A m, t, n, pc : Parcel(list, dl, running \ {d}, m, t, n, pc) =>
             \/ Parcel(list, delayed, running, m, t, n, pc)
             \/ m = d.msg /\ t = d.trace /\ n = d.attempt + 1
    <3>1. CASE Spent(d)
      BY <1>3, <2>3, <3>1
    <3>2. CASE ~Spent(d)
      BY <1>3, <2>2, <2>3, <2>4, <3>2
    <3>. QED BY <3>1, <3>2
  <2>. HIDE DEF dl
  <2>6. /\ list' \in [Queues -> Seq(Waiting)] /\ inFlight' \in [Queues -> Nat]
        /\ running' \subseteq Taken /\ IsFiniteSet(running')
        /\ \A x \in running' : x \in running \ {d} \/ x.pc = "receive"
        /\ Apart(list', dl, running')
        /\ \A m, t, n, pc : Parcel(list', dl, running', m, t, n, pc) =>
              Parcel(list, dl, running \ {d}, m, t, n, pc)
    BY <1>3, <2>1, <2>5, LeaveEffect
  <2>7. /\ delayed' \subseteq Waiting /\ Apart(list', delayed', running')
        /\ \A x \in running' : x.pc # "receive" => x \in running /\ x.msg # d.msg
        /\ \A m, t, n, pc : Parcel(list', delayed', running', m, t, n, pc) =>
             \/ Parcel(list, delayed, running, m, t, n, pc)
             \/ m = d.msg /\ t = d.trace /\ n = d.attempt + 1
    BY <1>2, <2>1, <2>5, <2>6
  <2>. QED BY ZenonT(30), <1>1, <1>4, <2>6, <2>7, ThrownKept
<1>. QED BY <1>5, <1>6

------------------------------------------------------------------------------
(* The workers subscribe: the oldest of every queue start.                  *)
LEMMA Subscribed ==
  ASSUME DriverInv, Subscribe
  PROVE  DriverInv'
<1>. DEFINE taken(q) == IF Len(list[q]) < Concurrency THEN Len(list[q]) ELSE Concurrency
            start == [q \in Queues |-> {TakenUp(list[q][i]) : i \in 1..taken(q)}]
<1>1. /\ running' = UNION {start[q] : q \in Queues}
      /\ inFlight' = [q \in Queues |-> taken(q)]
      /\ list' = [q \in Queues |-> SubSeq(list[q], taken(q) + 1, Len(list[q]))]
      /\ UNCHANGED <<tracingVars, kind, delayed, seen, reports, request, origin, ended>>
  <2>1. {start[q] : q \in Queues} = {{TakenUp(list[q][i]) : i \in 1..taken(q)} : q \in Queues}
    OBVIOUS
  <2>. QED BY <2>1 DEF Subscribe
<1>2. DriverTypeOK /\ History /\ Carries(list, delayed, running) /\ Apart(list, delayed, running)
  BY DEF DriverInv
<1>3. ASSUME NEW q \in Queues
      PROVE  /\ list[q] \in Seq(Waiting) /\ Len(list[q]) \in Nat /\ DOMAIN list[q] = 1..Len(list[q])
             /\ taken(q) \in Nat /\ taken(q) <= Len(list[q])
  <2>1. list[q] \in Seq(Waiting)
    BY <1>2 DEF DriverTypeOK
  <2>. QED BY <2>1, LenProperties, Numbers
<1>4. ASSUME NEW q \in Queues
      PROVE  /\ start[q] = {TakenUp(list[q][i]) : i \in 1..taken(q)} /\ IsFiniteSet(start[q])
             /\ \A i \in 1..taken(q) : /\ i \in DOMAIN list[q] /\ TakenUp(list[q][i]) \in Taken
                                       /\ TakenUp(list[q][i]).pc = "receive"
                                       /\ TakenUp(list[q][i]).msg = list[q][i].msg
                                       /\ TakenUp(list[q][i]).trace = list[q][i].trace
                                       /\ TakenUp(list[q][i]).attempt = list[q][i].attempt
  <2>1. start[q] = {TakenUp(list[q][i]) : i \in 1..taken(q)}
    OBVIOUS
  <2>. DEFINE k == taken(q)
              g == [i \in 1..k |-> TakenUp(list[q][i])]
  <2>2. k \in Nat
    BY <1>3
  <2>3. {g[i] : i \in 1..k} = {TakenUp(list[q][i]) : i \in 1..k}
    OBVIOUS
  <2>4. IsFiniteSet({TakenUp(list[q][i]) : i \in 1..k})
    <3>. HIDE DEF k
    <3>1. IsFiniteSet({g[i] : i \in 1..k})
      <4>. HIDE DEF g
      <4>. QED BY <2>2, FiniteUpto, FiniteImage
    <3>. QED BY <2>3, <3>1
  <2>5. ASSUME NEW i \in 1..k
        PROVE  /\ i \in DOMAIN list[q] /\ TakenUp(list[q][i]) \in Taken
               /\ TakenUp(list[q][i]).pc = "receive"
               /\ TakenUp(list[q][i]).msg = list[q][i].msg
               /\ TakenUp(list[q][i]).trace = list[q][i].trace
               /\ TakenUp(list[q][i]).attempt = list[q][i].attempt
    <3>. HIDE DEF k
    <3>1. i \in DOMAIN list[q] /\ list[q][i] \in Waiting
      <4>1. k <= Len(list[q]) /\ DOMAIN list[q] = 1..Len(list[q]) /\ Len(list[q]) \in Nat
        BY <1>3 DEF k
      <4>2. i \in 1..Len(list[q])
        BY <2>2, <4>1
      <4>. QED BY <1>3, <4>1, <4>2, ElementOfSeq
    <3>. QED BY <3>1 DEF TakenUp, Taken, Waiting
  <2>. QED BY <2>1, <2>4, <2>5
<1>. HIDE DEF start
<1>5. ASSUME NEW d \in running'
      PROVE  \E q \in Queues : \E i \in 1..taken(q) : d = TakenUp(list[q][i])
  <2>1. PICK q \in Queues : d \in start[q]
    BY <1>1
  <2>. QED BY <1>4, <2>1
<1>6. ASSUME NEW q \in Queues
      PROVE  /\ list'[q] \in Seq(Waiting)
             /\ \A i \in DOMAIN list'[q] : /\ i \in Nat /\ taken(q) + i \in DOMAIN list[q] /\ i >= 1
                                           /\ list'[q][i] = list[q][taken(q) + i]
  <2>. DEFINE k == taken(q)
  <2>1. list'[q] = SubSeq(list[q], k + 1, Len(list[q]))
    BY <1>1
  <2>2. k \in Nat /\ k <= Len(list[q])
    BY <1>3
  <2>. HIDE DEF k
  <2>3. /\ list'[q] \in Seq(Waiting)
        /\ \A i \in DOMAIN list'[q] :
             /\ i \in Nat /\ k + i \in DOMAIN list[q]
             /\ i >= 1 /\ list'[q][i] = list[q][k + i]
    BY <1>3, <2>1, <2>2
  <2>. QED BY <2>3 DEF k
<1>. HIDE DEF taken
<1>7. running' \subseteq Taken /\ \A d \in running' : d.pc = "receive"
  BY <1>4, <1>5
<1>8. IsFiniteSet(running')
  <2>1. IsFiniteSet({start[q] : q \in Queues})
    BY FiniteImage, DriverAssumption
  <2>2. \A T \in {start[q] : q \in Queues} : IsFiniteSet(T)
    BY <1>4
  <2>3. IsFiniteSet(UNION {start[q] : q \in Queues})
    BY <2>1, <2>2, FS_UNION
  <2>. QED BY <1>1, <2>3
<1>9. list' \in [Queues -> Seq(Waiting)] /\ inFlight' \in [Queues -> Nat]
  BY <1>1, <1>3, <1>6
<1>10. Apart(list', delayed', running')
  <2>1. delayed' = delayed
    BY <1>1
  <2>2. ASSUME NEW q \in Queues, NEW i \in DOMAIN list'[q] PROVE QueueOf[list'[q][i].msg] = q
    BY <1>2, <1>6 DEF Apart
  <2>3. ASSUME NEW q \in Queues, NEW i \in DOMAIN list'[q], NEW j \in DOMAIN list'[q],
               list'[q][i].msg = list'[q][j].msg
        PROVE  i = j
    <3>1. taken(q) + i = taken(q) + j
      BY <1>2, <1>6, <2>3 DEF Apart
    <3>. QED BY <1>3, <1>6, <3>1
  <2>4. ASSUME NEW q \in Queues, NEW i \in DOMAIN list[q], NEW r \in Queues, NEW j \in DOMAIN list[r],
               list[q][i].msg = list[r][j].msg
        PROVE  q = r /\ i = j
    BY <1>2, <2>4 DEF Apart
  <2>5. ASSUME NEW d \in delayed' \cup running', NEW e \in delayed' \cup running', d.msg = e.msg PROVE d = e
    <3>1. ASSUME NEW x \in delayed, NEW y \in running' PROVE x.msg # y.msg
      <4>1. PICK q \in Queues : \E i \in 1..taken(q) : y = TakenUp(list[q][i])
        BY <1>5
      <4>2. PICK i \in 1..taken(q) : y = TakenUp(list[q][i])
        BY <4>1
      <4>. QED BY <1>2, <1>4, <4>2 DEF Apart
    <3>2. ASSUME NEW x \in running', NEW y \in running', x.msg = y.msg PROVE x = y
      <4>1. PICK q \in Queues : \E i \in 1..taken(q) : x = TakenUp(list[q][i])
        BY <1>5
      <4>2. PICK i \in 1..taken(q) : x = TakenUp(list[q][i])
        BY <4>1
      <4>3. PICK r \in Queues : \E j \in 1..taken(r) : y = TakenUp(list[r][j])
        BY <1>5
      <4>4. PICK j \in 1..taken(r) : y = TakenUp(list[r][j])
        BY <4>3
      <4>5. i \in DOMAIN list[q] /\ j \in DOMAIN list[r] /\ list[q][i].msg = list[r][j].msg
        BY <1>4, <3>2, <4>2, <4>4
      <4>. QED BY <2>4, <4>2, <4>4, <4>5
    <3>3. ASSUME NEW x \in delayed, NEW y \in delayed, x.msg = y.msg PROVE x = y
      BY <1>2, <3>3 DEF Apart
    <3>. QED BY <2>1, <2>5, <3>1, <3>2, <3>3
  <2>6. ASSUME NEW q \in Queues, NEW i \in DOMAIN list'[q], NEW d \in delayed' \cup running'
        PROVE  list'[q][i].msg # d.msg
    <3>1. CASE d \in delayed
      BY <1>2, <1>6, <3>1 DEF Apart
    <3>2. CASE d \in running'
      <4>1. PICK r \in Queues : \E j \in 1..taken(r) : d = TakenUp(list[r][j])
        BY <1>5, <3>2
      <4>2. PICK j \in 1..taken(r) : d = TakenUp(list[r][j])
        BY <4>1
      <4>3. j \in DOMAIN list[r] /\ d.msg = list[r][j].msg
        BY <1>4, <4>2
      <4>4. taken(q) + i \in DOMAIN list[q] /\ list'[q][i] = list[q][taken(q) + i] /\ i \in Nat /\ i >= 1
        BY <1>6
      <4>5. ~(q = r /\ taken(q) + i = j)
        BY <1>3, <4>2, <4>4
      <4>. QED BY <2>4, <4>3, <4>4, <4>5
    <3>. QED BY <2>1, <3>1, <3>2
  <2>. QED BY <2>2, <2>3, <2>5, <2>6, Zenon DEF Apart
<1>11. ASSUME NEW m, NEW t, NEW n, NEW pc, Parcel(list', delayed', running', m, t, n, pc)
       PROVE  Parcel(list, delayed, running, m, t, n, pc)
  <2>1. CASE pc = "receive" /\ \E q \in Queues : \E i \in DOMAIN list'[q] :
               list'[q][i].msg = m /\ list'[q][i].trace = t /\ list'[q][i].attempt = n
    BY <1>6, <2>1 DEF Parcel
  <2>2. CASE pc = "receive" /\ \E d \in delayed' : d.msg = m /\ d.trace = t /\ d.attempt = n
    BY <1>1, <2>2 DEF Parcel
  <2>3. ASSUME NEW d \in running', d.msg = m, d.trace = t, d.attempt = n, d.pc = pc
        PROVE  Parcel(list, delayed, running, m, t, n, pc)
    <3>1. PICK q \in Queues : \E i \in 1..taken(q) : d = TakenUp(list[q][i])
      BY <1>5
    <3>2. PICK i \in 1..taken(q) : d = TakenUp(list[q][i])
      BY <3>1
    <3>. QED BY <1>4, <2>3, <3>2 DEF Parcel
  <2>. QED BY <1>11, <2>1, <2>2, <2>3 DEF Parcel
<1>12. \A m, t, n, pc : Parcel(list', delayed', running', m, t, n, pc) =>
            /\ Parcel(list, delayed, running, m, t, n, pc)
           /\ "done" \notin ended'[m] /\ (kind = "memory" => "failed" \notin ended'[m])
  <2>1. \A m, t, n, pc : Parcel(list, delayed, running, m, t, n, pc) =>
          "done" \notin ended[m] /\ (kind = "memory" => "failed" \notin ended[m])
    BY <1>2 DEF Carries
  <2>. QED BY <1>1, <1>11, <2>1
<1>13. /\ delayed' \subseteq Waiting /\ reports' \subseteq reports
       /\ \A d \in running' : d.pc # "receive" => d \in running
       /\ ended' \in [Messages -> SUBSET {"done", "failed"}] /\ \A m \in Messages : ended'[m] # {} =>
             origin[m] # <<>>
       /\ UNCHANGED <<tracingVars, kind, seen, origin, request>>
  BY <1>1, <1>2, <1>7 DEF DriverTypeOK, History
<1>. QED BY <1>7, <1>8, <1>9, <1>10, <1>12, <1>13, QuietKept
------------------------------------------------------------------------------
LEMMA TimerFired ==
  ASSUME DriverInv, TracingStep
  PROVE  DriverInv'
<1>1. /\ TimerFires
      /\ UNCHANGED <<spans, kind, list, delayed, seen, inFlight, running, reports, request, origin, ended>>
  BY DEF TracingStep, TimerFires, driverVars
<1>2. Ledger'
  BY <1>1, LedgerTimer DEF DriverInv
<1>3. DriverTypeOK' /\ SpansTypeOK' /\ History' /\ TraceFollowsWork'
  BY <1>1 DEF DriverInv, DriverTypeOK, SpansTypeOK, History, TraceFollowsWork
<1>4. Apart(list, delayed, running)' /\ Carries(list, delayed, running)'
  BY <1>1 DEF DriverInv, Apart, Carries, Parcel
<1>5. Traces'
  BY <1>1 DEF DriverInv, Traces, Good, Consumer
<1>. QED BY <1>2, <1>3, <1>4, <1>5 DEF DriverInv

LEMMA NothingElse ==
  ASSUME DriverInv, UNCHANGED queueVars
  PROVE  DriverInv'
<1>1. UNCHANGED <<exporter, spans, buffer, timer, sends, kind, list, delayed, seen, inFlight, running,
                  reports, request, origin, ended>>
  BY DEF queueVars, driverVars, tracingVars
<1>2. DriverTypeOK' /\ SpansTypeOK' /\ History' /\ TraceFollowsWork'
  BY <1>1 DEF DriverInv, DriverTypeOK, SpansTypeOK, History, TraceFollowsWork
<1>3. Apart(list, delayed, running)' /\ Carries(list, delayed, running)'
  BY <1>1 DEF DriverInv, Apart, Carries, Parcel
<1>4. Traces'
  BY <1>1 DEF DriverInv, Traces, Good, Consumer
<1>5. Ledger'
  BY <1>1, LedgerSame DEF DriverInv, RecordedSpans
<1>. QED BY <1>2, <1>3, <1>4, <1>5 DEF DriverInv

LEMMA ShutDown ==
  ASSUME DriverInv, Stop \/ Close
  PROVE  DriverInv'
<1>1. /\ UNCHANGED <<tracingVars, kind, seen, inFlight, running, reports, request, origin, ended>>
      /\ \/ UNCHANGED <<list, delayed>>
         \/ list' = [q \in Queues |-> <<>>] /\ delayed' = {}
  BY DEF Stop, Close
<1>2. DriverTypeOK /\ History /\ Carries(list, delayed, running) /\ Apart(list, delayed, running)
  BY DEF DriverInv
<1>3. list' \in [Queues -> Seq(Waiting)] /\ delayed' \subseteq delayed
  <2>1. <<>> \in Seq(Waiting)
    OBVIOUS
  <2>. QED BY <1>1, <1>2, <2>1 DEF DriverTypeOK
<1>4. Apart(list', delayed', running')
  <2>1. CASE UNCHANGED <<list, delayed>>
    BY <1>1, <1>2, <2>1
  <2>2. CASE list' = [q \in Queues |-> <<>>] /\ delayed' = {}
    BY <1>1, <1>2, <2>2 DEF Apart
  <2>. QED BY <1>1, <2>1, <2>2
<1>5. \A m, t, n, pc : Parcel(list', delayed', running', m, t, n, pc) =>
      Parcel(list, delayed, running, m, t, n, pc)
  <2>1. CASE UNCHANGED <<list, delayed>>
    BY <1>1, <2>1
  <2>2. CASE list' = [q \in Queues |-> <<>>] /\ delayed' = {}
    BY <1>1, <2>2 DEF Parcel
  <2>. QED BY <1>1, <2>1, <2>2
<1>6. \A m, t, n, pc : Parcel(list', delayed', running', m, t, n, pc) =>
            /\ Parcel(list, delayed, running, m, t, n, pc)
           /\ "done" \notin ended'[m] /\ (kind = "memory" => "failed" \notin ended'[m])
  <2>1. \A m, t, n, pc : Parcel(list, delayed, running, m, t, n, pc) =>
          "done" \notin ended[m] /\ (kind = "memory" => "failed" \notin ended[m])
    BY <1>2 DEF Carries
  <2>. QED BY <1>1, <1>5, <2>1
<1>7. /\ delayed' \subseteq Waiting /\ inFlight' \in [Queues -> Nat] /\ running' \subseteq Taken
      /\ IsFiniteSet(running')
      /\ reports' \subseteq reports /\ \A d \in running' : d.pc # "receive" => d \in running
      /\ ended' \in [Messages -> SUBSET {"done", "failed"}] /\ \A m \in Messages : ended'[m] # {} =>
            origin[m] # <<>>
      /\ UNCHANGED <<tracingVars, kind, seen, origin, request>>
  BY <1>1, <1>2, <1>3 DEF DriverTypeOK, History
<1>. QED BY <1>3, <1>4, <1>6, <1>7, QuietKept

(* What SetToSeq lists: every element, once.                                *)
LEMMA Listed ==
  ASSUME NEW S, IsFiniteSet(S)
  PROVE  /\ SetToSeq(S) \in Seq(S) /\ DOMAIN SetToSeq(S) = 1..Cardinality(S) /\ Cardinality(S) \in Nat
         /\ \A i, j \in DOMAIN SetToSeq(S) : SetToSeq(S)[i] = SetToSeq(S)[j] => i = j
<1>. DEFINE n == Cardinality(S)
<1>1. n \in Nat /\ ExistsBijection(1..n, S)
  BY FS_CardinalityType
<1>. HIDE DEF n
<1>2. \E f \in [1..n -> S] : IsInjective(f)
  BY <1>1 DEF ExistsBijection, Bijection, Injection, IsInjective
<1>3. SetToSeq(S) \in [1..n -> S] /\ IsInjective(SetToSeq(S))
  BY <1>2, Zenon DEF SetToSeq, n
<1>4. SetToSeq(S) \in Seq(S)
  BY <1>1, <1>3
<1>. QED BY <1>1, <1>3, <1>4 DEF n, IsInjective

LEMMA Crashed ==
  ASSUME DriverInv, Crash
  PROVE  DriverInv'
<1>. DEFINE active(q) == {d \in running : QueueOf[d.msg] = q}
            back(q) == {Delivery(d.msg, d.attempt, d.trace) : d \in active(q)}
            again(q) == SetToSeq(back(q))
<1>1. /\ list' = [q \in Queues |-> IF kind = "memory" THEN <<>> ELSE again(q) \o list[q]]
      /\ IF kind = "memory" THEN delayed' = {} /\ seen' = {} ELSE UNCHANGED <<delayed, seen>>
      /\ inFlight' = [q \in Queues |-> 0] /\ running' = {} /\ reports' = {} /\ LoseSpans
      /\ UNCHANGED <<kind, request, origin, ended>>
  BY DEF Crash
<1>2. /\ DriverTypeOK /\ History /\ Carries(list, delayed, running) /\ Apart(list, delayed, running) /\ Traces
  BY DEF DriverInv
<1>3. Ledger' /\ SpansTypeOK' /\ DOMAIN spans' = {}
  BY <1>1, LedgerLost
<1>4. Traces' /\ TraceFollowsWork'
  BY <1>1, <1>2, <1>3 DEF Traces, TraceFollowsWork, Good
<1>5. History'
  BY <1>1, <1>2, Numbers DEF History
<1>6. CASE kind = "memory"
  <2>1. /\ list' = [q \in Queues |-> <<>>] /\ delayed' = {} /\ seen' = {} /\ running' = {}
    BY <1>1, <1>6
  <2>2. \A m, t, n, pc : ~Parcel(list', delayed', running', m, t, n, pc)
    BY <2>1 DEF Parcel
  <2>3. Apart(list, delayed, running)' /\ Carries(list, delayed, running)'
    BY <2>1, <2>2 DEF Apart, Carries
  <2>4. DriverTypeOK'
    <3>1. list' \in [Queues -> Seq(Waiting)]
      <4>1. <<>> \in Seq(Waiting)
        OBVIOUS
      <4>. QED BY <2>1, <4>1
    <3>. QED BY <1>1, <1>2, <2>1, <3>1, FS_EmptySet DEF DriverTypeOK
  <2>. QED BY <1>3, <1>4, <1>5, <2>3, <2>4 DEF DriverInv
<1>7. CASE kind # "memory"
  <2>1. /\ list' = [q \in Queues |-> again(q) \o list[q]] /\ delayed' = delayed /\ seen' = seen /\ running' = {}
    BY <1>1, <1>7
  <2>2. ASSUME NEW d \in running
        PROVE  LET e == Delivery(d.msg, d.attempt, d.trace)
               IN  e \in Waiting /\ e.msg = d.msg /\ e.attempt = d.attempt /\ e.trace = d.trace
    <3>1. d \in Taken
      BY <1>2 DEF DriverTypeOK
    <3>. QED BY <3>1 DEF Delivery, Taken, Waiting
  <2>3. ASSUME NEW q \in Queues PROVE IsFiniteSet(back(q)) /\ back(q) \in SUBSET Waiting
    <3>. DEFINE g == [d \in active(q) |-> Delivery(d.msg, d.attempt, d.trace)]
    <3>1. active(q) \in SUBSET running /\ IsFiniteSet(running)
      BY <1>2 DEF DriverTypeOK
    <3>2. IsFiniteSet(active(q))
      BY <3>1, FS_Subset
    <3>3. back(q) = {g[d] : d \in active(q)}
      OBVIOUS
    <3>4. IsFiniteSet({g[d] : d \in active(q)})
      <4>. HIDE DEF g, active
      <4>. QED BY <3>2, FiniteImage
    <3>5. IsFiniteSet(back(q))
      BY <3>3, <3>4
    <3>. QED BY <2>2, <3>5
  <2>4. ASSUME NEW q \in Queues, NEW x \in back(q)
        PROVE  \E d \in running :
                  QueueOf[d.msg] = q /\ x.msg = d.msg /\ x.attempt = d.attempt /\ x.trace = d.trace
    BY <2>2
  <2>5. ASSUME NEW q \in Queues, NEW x \in back(q), NEW y \in back(q), x.msg = y.msg PROVE x = y
    <3>1. PICK d \in running : x = Delivery(d.msg, d.attempt, d.trace)
      OBVIOUS
    <3>2. PICK e \in running : y = Delivery(e.msg, e.attempt, e.trace)
      OBVIOUS
    <3>3. d.msg = e.msg
      BY <2>2, <2>5, <3>1, <3>2
    <3>4. d = e
      BY <1>2, <3>3 DEF Apart
    <3>. QED BY <3>1, <3>2, <3>4
  <2>. HIDE DEF back
  <2>6. ASSUME NEW q \in Queues
        PROVE  /\ again(q) \in Seq(Waiting) /\ Len(again(q)) \in Nat /\ DOMAIN again(q) = 1..Len(again(q))
               /\ \A i \in 1..Len(again(q)) : again(q)[i] \in back(q)
               /\ \A i, j \in 1..Len(again(q)) : again(q)[i] = again(q)[j] => i = j
               /\ list[q] \in Seq(Waiting) /\ Len(list[q]) \in Nat /\ DOMAIN list[q] = 1..Len(list[q])
    <3>. DEFINE B == back(q)
                s == SetToSeq(B)
    <3>1. IsFiniteSet(B) /\ B \in SUBSET Waiting
      BY <2>3
    <3>. HIDE DEF B
    <3>2. s \in Seq(B) /\ \A i, j \in DOMAIN s : s[i] = s[j] => i = j
      BY <3>1, Listed
    <3>. HIDE DEF s
    <3>3. /\ s \in Seq(Waiting) /\ Len(s) \in Nat /\ DOMAIN s = 1..Len(s) /\ \A i \in 1..Len(s) : s[i] \in B
      <4>1. Len(s) \in Nat /\ DOMAIN s = 1..Len(s) /\ \A i \in 1..Len(s) : s[i] \in B
        BY <3>2, LenProperties, ElementOfSeq
      <4>2. s = [i \in 1..Len(s) |-> s[i]]
        BY <3>2, SeqDef, LenProperties
      <4>3. s \in Seq(Waiting)
        BY <3>1, <4>1, <4>2
      <4>. QED BY <4>1, <4>3
    <3>4. list[q] \in Seq(Waiting) /\ Len(list[q]) \in Nat /\ DOMAIN list[q] = 1..Len(list[q])
      <4>1. list[q] \in Seq(Waiting)
        BY <1>2 DEF DriverTypeOK
      <4>. QED BY <4>1, LenProperties
    <3>. QED BY <3>2, <3>3, <3>4 DEF s, B
  <2>. HIDE DEF again
  <2>7. ASSUME NEW q \in Queues
        PROVE  /\ list'[q] \in Seq(Waiting) /\ DOMAIN list'[q] = 1..(Len(again(q)) + Len(list[q]))
               /\ \A i \in 1..(Len(again(q)) + Len(list[q])) :
                    list'[q][i] = IF i <= Len(again(q)) THEN again(q)[i] ELSE list[q][i - Len(again(q))]
    <3>1. list'[q] = again(q) \o list[q]
      BY <2>1
    <3>. DEFINE a == again(q)
                b == list[q]
    <3>2. a \in Seq(Waiting) /\ b \in Seq(Waiting)
      BY <2>6
    <3>. HIDE DEF a, b
    <3>3. /\ a \o b \in Seq(Waiting) /\ Len(a \o b) = Len(a) + Len(b)
          /\ \A i \in 1..(Len(a) + Len(b)) : (a \o b)[i] = IF i <= Len(a) THEN a[i] ELSE b[i - Len(a)]
      BY <3>2, ConcatProperties
    <3>4. DOMAIN (a \o b) = 1..(Len(a) + Len(b))
      BY <3>3, LenProperties
    <3>. QED BY <3>1, <3>3, <3>4 DEF a, b
  <2>8. ASSUME NEW q \in Queues, NEW i \in DOMAIN list'[q]
        PROVE  \/ i \in 1..Len(again(q)) /\ list'[q][i] = again(q)[i] /\ list'[q][i] \in back(q)
               \/ i \notin 1..Len(again(q)) /\ i - Len(again(q)) \in DOMAIN list[q] /\ i \in Nat
                  /\ list'[q][i] = list[q][i - Len(again(q))]
    <3>. DEFINE k == Len(again(q))
                n == Len(list[q])
                a == again(q)
    <3>1. /\ k \in Nat /\ n \in Nat /\ DOMAIN list[q] = 1..n /\ \A j \in 1..k : a[j] \in back(q)
          /\ i \in 1..(k + n) /\ list'[q][i] = IF i <= k THEN a[i] ELSE list[q][i - k]
      BY <2>6, <2>7
    <3>. HIDE DEF a, k, n
    <3>2. CASE i <= k
      <4>1. i \in 1..k
        BY <3>1, <3>2
      <4>. QED BY <3>1, <3>2, <4>1 DEF a, k
    <3>3. CASE ~(i <= k)
      <4>1. i \notin 1..k /\ i - k \in 1..n /\ i \in Nat
        BY <3>1, <3>3
      <4>. QED BY <3>1, <3>3, <4>1 DEF k
    <3>. QED BY <3>2, <3>3
  <2>9. Apart(list', delayed', running')
    <3>1. ASSUME NEW q \in Queues, NEW i \in DOMAIN list'[q] PROVE QueueOf[list'[q][i].msg] = q
      <4>1. CASE i \in 1..Len(again(q)) /\ list'[q][i] = again(q)[i] /\ list'[q][i] \in back(q)
        BY <2>4, <4>1
      <4>2. CASE i - Len(again(q)) \in DOMAIN list[q] /\ list'[q][i] = list[q][i - Len(again(q))]
        BY <1>2, <4>2 DEF Apart
      <4>. QED BY <2>8, <4>1, <4>2
    <3>2. ASSUME NEW q \in Queues, NEW x \in back(q), NEW i \in DOMAIN list[q] PROVE list[q][i].msg # x.msg
      BY <1>2, <2>4 DEF Apart
    <3>3. ASSUME NEW q \in Queues, NEW i \in DOMAIN list'[q], NEW j \in DOMAIN list'[q],
                 list'[q][i].msg = list'[q][j].msg
          PROVE  i = j
      <4>1. CASE i \in 1..Len(again(q)) /\ j \in 1..Len(again(q))
        <5>1. again(q)[i] = again(q)[j]
          BY <2>5, <2>8, <3>3, <4>1
        <5>. QED BY <2>6, <4>1, <5>1
      <4>2. CASE i \notin 1..Len(again(q)) /\ j \notin 1..Len(again(q))
        <5>1. i - Len(again(q)) = j - Len(again(q)) /\ i \in Nat /\ j \in Nat
          BY <1>2, <2>8, <3>3, <4>2 DEF Apart
        <5>. QED BY <2>6, <5>1
      <4>3. CASE (i \in 1..Len(again(q))) # (j \in 1..Len(again(q)))
        BY <2>8, <3>2, <3>3, <4>3
      <4>. QED BY <4>1, <4>2, <4>3
    <3>4. ASSUME NEW q \in Queues, NEW i \in DOMAIN list'[q], NEW d \in delayed PROVE list'[q][i].msg # d.msg
      <4>1. ASSUME NEW x \in back(q) PROVE x.msg # d.msg
        <5>1. PICK e \in running : x.msg = e.msg
          BY <2>4
        <5>2. d # e
          <6>1. d \in Waiting /\ e \in Taken
            BY <1>2 DEF DriverTypeOK
          <6>. QED BY <6>1 DEF Waiting, Taken
        <5>. QED BY <1>2, <5>1, <5>2 DEF Apart
      <4>2. ASSUME NEW j \in DOMAIN list[q] PROVE list[q][j].msg # d.msg
        BY <1>2 DEF Apart
      <4>. QED BY <2>8, <4>1, <4>2
    <3>5. ASSUME NEW d \in delayed, NEW e \in delayed, d.msg = e.msg PROVE d = e
      BY <1>2, <3>5 DEF Apart
    <3>6. Apart(list', delayed, {})
      <4>1. delayed \cup {} = delayed
        OBVIOUS
      <4>. QED BY <3>1, <3>3, <3>4, <3>5, <4>1 DEF Apart
    <3>. QED BY <2>1, <3>6
  <2>10. ASSUME NEW m, NEW t, NEW n, NEW pc, Parcel(list', delayed', running', m, t, n, pc)
         PROVE  \E p : Parcel(list, delayed, running, m, t, n, p)
    <3>1. CASE \E q \in Queues : \E i \in DOMAIN list'[q] :
                 list'[q][i].msg = m /\ list'[q][i].trace = t /\ list'[q][i].attempt = n
      <4>1. PICK q \in Queues : \E i \in DOMAIN list'[q] :
                 list'[q][i].msg = m /\ list'[q][i].trace = t /\ list'[q][i].attempt = n
        BY <3>1
      <4>2. PICK i \in DOMAIN list'[q] : list'[q][i].msg = m /\ list'[q][i].trace = t /\ list'[q][i].attempt = n
        BY <4>1
      <4>3. CASE list'[q][i] \in back(q)
        <5>1. PICK d \in running : m = d.msg /\ n = d.attempt /\ t = d.trace
          BY <2>4, <4>2, <4>3
        <5>2. Parcel(list, delayed, running, m, t, n, d.pc)
          BY <5>1 DEF Parcel
        <5>. QED BY <5>2
      <4>4. CASE i - Len(again(q)) \in DOMAIN list[q] /\ list'[q][i] = list[q][i - Len(again(q))]
        <5>1. Parcel(list, delayed, running, m, t, n, "receive")
          BY <4>2, <4>4 DEF Parcel
        <5>. QED BY <5>1
      <4>. QED BY <2>8, <4>3, <4>4
    <3>2. CASE \E d \in delayed : d.msg = m /\ d.trace = t /\ d.attempt = n
      <4>1. Parcel(list, delayed, running, m, t, n, "receive")
        BY <3>2 DEF Parcel
      <4>. QED BY <4>1
    <3>. QED BY <2>1, <2>10, <3>1, <3>2 DEF Parcel
  <2>11. Carries(list, delayed, running)'
    <3>. SUFFICES ASSUME NEW m, NEW t, NEW n, NEW pc, Parcel(list', delayed', running', m, t, n, pc)
                  PROVE  /\ m \in seen' /\ t = CurrentTraceparent(origin'[m][1])
                         /\ "done" \notin ended'[m] /\ (kind' = "memory" => "failed" \notin ended'[m])
      BY <1>3 DEF Carries
    <3>1. PICK p : Parcel(list, delayed, running, m, t, n, p)
      BY <2>10
    <3>2. m \in seen /\ t = CurrentTraceparent(origin[m][1]) /\ "done" \notin ended[m]
      BY <1>2, <3>1 DEF Carries
    <3>. QED BY <1>1, <1>7, <2>1, <3>2
  <2>12. DriverTypeOK'
    <3>1. list' \in [Queues -> Seq(Waiting)]
      BY <2>1, <2>7
    <3>. QED BY <1>1, <1>2, <2>1, <3>1, FS_EmptySet DEF DriverTypeOK
  <2>13. Apart(list, delayed, running)'
    BY <2>9 DEF Apart
  <2>. QED BY <1>3, <1>4, <1>5, <2>11, <2>12, <2>13 DEF DriverInv
<1>. QED BY <1>6, <1>7
------------------------------------------------------------------------------
LEMMA Begun == DriverInit => DriverInv
<1>. SUFFICES ASSUME DriverInit PROVE DriverInv
  OBVIOUS
<1>1. /\ spans = <<>> /\ buffer = EmptyBag /\ timer = "unset" /\ sends = EmptyBag
      /\ kind \in Kinds /\ list = [q \in Queues |-> <<>>] /\ inFlight = [q \in Queues |-> 0]
      /\ delayed = {} /\ seen = {} /\ running = {} /\ reports = {} /\ request = {}
      /\ origin = [m \in Messages |-> <<>>] /\ ended = [m \in Messages |-> {}]
  BY DEF DriverInit, TracingInit
<1>2. <<>> \in Seq(Waiting) /\ <<>> \in Seq(Contexts) /\ DOMAIN spans = {}
  BY <1>1
<1>3. DriverTypeOK
  BY <1>1, <1>2, Numbers, FS_EmptySet DEF DriverTypeOK
<1>4. SpansTypeOK /\ Traces /\ TraceFollowsWork
  BY <1>1, <1>2 DEF SpansTypeOK, Traces, TraceFollowsWork
<1>5. \A m, t, n, pc : ~Parcel(list, delayed, running, m, t, n, pc)
  BY <1>1 DEF Parcel
<1>6. Apart(list, delayed, running) /\ Carries(list, delayed, running)
  BY <1>1, <1>5 DEF Apart, Carries
<1>7. History
  BY <1>1, Numbers DEF History
<1>8. Ledger
  <2>1. DOMAIN EmptyBag = {} /\ EmptyBag = SetToBag({})
    BY DEF SetToBag, EmptyBag
  <2>2. RecordedSpans = {}
    BY <1>2 DEF RecordedSpans
  <2>. QED BY <1>1, <2>1, <2>2, FS_EmptySet DEF Ledger
<1>. QED BY <1>3, <1>4, <1>6, <1>7, <1>8 DEF DriverInv

(* A parcel is the one delivery of its message.                             *)
LEMMA Single == DriverInv => OneDelivery
<1>. SUFFICES ASSUME DriverInv, NEW m \in Messages
              PROVE  /\ Deliveries(m) <= 1
                     /\ "done" \in ended[m] \/ (kind = "memory" /\ "failed" \in ended[m]) => Deliveries(m) = 0
  BY DEF OneDelivery
<1>. DEFINE q == QueueOf[m]
            W == {i \in DOMAIN list[q] : list[q][i].msg = m}
            D == {d \in delayed \cup running : d.msg = m}
<1>1. Apart(list, delayed, running) /\ Carries(list, delayed, running)
  BY DEF DriverInv
<1>2. q \in Queues
  BY Numbers
<1>3. Deliveries(m) = Cardinality(W) + Cardinality(D)
  BY DEF Deliveries
<1>4. \A i, j \in W : i = j
  BY <1>1, <1>2 DEF Apart
<1>5. \A d, e \in D : d = e
  BY <1>1 DEF Apart
<1>6. W = {} \/ D = {}
  BY <1>1, <1>2 DEF Apart
<1>7. "done" \in ended[m] \/ (kind = "memory" /\ "failed" \in ended[m]) => W = {} /\ D = {}
  <2>1. ASSUME NEW i \in W
        PROVE  Parcel(list, delayed, running, m, list[q][i].trace, list[q][i].attempt, "receive")
    BY <1>2 DEF Parcel
  <2>2. ASSUME NEW d \in D
        PROVE  \E pc : Parcel(list, delayed, running, m, d.trace, d.attempt, pc)
    <3>1. CASE d \in delayed
      <4>1. Parcel(list, delayed, running, m, d.trace, d.attempt, "receive")
        BY <3>1 DEF Parcel
      <4>. QED BY <4>1
    <3>2. CASE d \in running
      <4>1. Parcel(list, delayed, running, m, d.trace, d.attempt, d.pc)
        BY <3>2 DEF Parcel
      <4>. QED BY <4>1
    <3>. QED BY <3>1, <3>2
  <2>3. \A t, n, pc : Parcel(list, delayed, running, m, t, n, pc) =>
          "done" \notin ended[m] /\ (kind = "memory" => "failed" \notin ended[m])
    BY <1>1 DEF Carries
  <2>4. W # {} \/ D # {} => "done" \notin ended[m] /\ (kind = "memory" => "failed" \notin ended[m])
    BY <2>1, <2>2, <2>3
  <2>. QED BY <2>4
<1>. HIDE DEF W, D
<1>8. ASSUME NEW S, \A x, y \in S : x = y PROVE Cardinality(S) = IF S = {} THEN 0 ELSE 1
  <2>1. CASE S = {}
    BY <2>1, FS_EmptySet
  <2>2. CASE S # {}
    <3>1. PICK x \in S : TRUE
      BY <2>2
    <3>2. S = {x}
      BY <1>8, <3>1
    <3>. QED BY <2>2, <3>2, FS_Singleton
  <2>. QED BY <2>1, <2>2
<1>9. Cardinality(W) = IF W = {} THEN 0 ELSE 1
  BY <1>4, <1>8
<1>10. Cardinality(D) = IF D = {} THEN 0 ELSE 1
  BY <1>5, <1>8
<1>. QED BY <1>3, <1>6, <1>7, <1>9, <1>10

(* The invariant of the queues, for every number of messages, queues,       *)
(* attempts, crashes and either driver.                                     *)
THEOREM DriverInvariant == DriverSpec => []DriverInv
<1>1. ASSUME DriverInv, [DriverNext]_queueVars PROVE DriverInv'
  <2>1. ASSUME NEW m \in ByRequest, Request(m) \/ Submit(m) \/ Respond(m) PROVE DriverInv'
    BY <1>1, <2>1, RequestKept, Submitted, Responded
  <2>2. CASE Subscribe
    BY <1>1, <2>2, Subscribed
  <2>3. ASSUME NEW d \in running, Receive(d) \/ Hand(d) \/ Succeed(d) \/ Throw(d) \/ Report(d) PROVE DriverInv'
    BY <1>1, <2>3, Received, HandedOn, Succeeded, Thrown, Reported
  <2>4. ASSUME NEW r \in reports, ReportEvent(r) PROVE DriverInv'
    BY <1>1, <2>4, EventReported
  <2>5. ASSUME NEW d \in delayed, Due(d) PROVE DriverInv'
    BY <1>1, <2>5, BackDue
  <2>6. CASE TracingStep
    BY <1>1, <2>6, TimerFired
  <2>7. CASE Stop \/ Close
    BY <1>1, <2>7, ShutDown
  <2>8. CASE Crash
    BY <1>1, <2>8, Crashed
  <2>9. CASE UNCHANGED queueVars
    BY <1>1, <2>9, NothingElse
  <2>. QED BY <1>1, <2>1, <2>2, <2>3, <2>4, <2>5, <2>6, <2>7, <2>8, <2>9 DEF DriverNext, WorkerStep
<1>. QED BY Begun, <1>1, PTL DEF DriverSpec

(* However often a job throws, backs off, is recovered from a worker that   *)
(* died or is enqueued again, at most one delivery of it exists at a time   *)
(* (memory.ts; bullmq.ts, whose id is that of the job).                     *)
THEOREM OneDeliveryAtATime == DriverSpec => []OneDelivery
BY DriverInvariant, Single, PTL

(* The span of every delivery hangs under the span that its job was         *)
(* enqueued under, whichever retry it is and whatever happened between      *)
(* (withConsumerSpan, currentTraceparent).                                  *)
THEOREM WorkIsTraced == DriverSpec => []TraceFollowsWork
<1>1. DriverInv => TraceFollowsWork
  BY DEF DriverInv
<1>. QED BY DriverInvariant, <1>1, PTL

(* What is recorded is not stranded in the buffer of the exporter: there is *)
(* a timer for it, or it is sent (the batching processor, tracing.ts).      *)
THEOREM SpansReachTheCollector == DriverSpec => []NoSpanStranded
<1>1. DriverInv => NoSpanStranded
  BY LedgerHolds DEF DriverInv
<1>. QED BY DriverInvariant, <1>1, PTL

(***************************************************************************)
(* What the adapter answers.                                                *)
(***************************************************************************)
VolumeSteps(n, g) == g = [i \in 0..n |-> IF i = 0 THEN 0 ELSE 10 * g[i - 1] + 9]

LEMMA VolumeIsNumber ==
  ASSUME NEW n \in Nat
  PROVE  Volume(n) \in Nat /\ (n # 0 => Volume(n) > 0)
<1>. DEFINE v == CHOOSE g : VolumeSteps(n, g)
            Bad == {i \in 0..n : ~(v[i] \in Nat /\ (i # 0 => v[i] > 0))}
<1>1. Volume(n) = v[n]
  BY DEF Volume, VolumeSteps
<1>2. VolumeSteps(n, v)
  <2>. DEFINE step == [p \in (1..n) \X Nat |-> 10 * p[2] + 9]
  <2>1. step \in [(1..n) \X Nat -> Nat] /\ \A i \in 1..n : \A x \in Nat : step[<<i, x>>] = 10 * x + 9
    OBVIOUS
  <2>. HIDE DEF step
  <2>2. PICK g : Iterate(n, Nat, 0, step, g)
    BY <2>1, Iterated
  <2>3. ASSUME NEW i \in 1..n PROVE g[i] = 10 * g[i - 1] + 9
    <3>1. g[i - 1] \in Nat
      BY <2>2, i - 1 \in 0..n DEF Iterate
    <3>. QED BY <2>1, <2>2, <3>1 DEF Iterate
  <2>4. VolumeSteps(n, g)
    BY <2>2, <2>3 DEF VolumeSteps, Iterate
  <2>. QED BY <2>4
<1>. HIDE DEF v
<1>3. \A i \in 0..n : v[i] = IF i = 0 THEN 0 ELSE 10 * v[i - 1] + 9
  BY <1>2 DEF VolumeSteps
<1>4. ASSUME Bad # {} PROVE FALSE
  <2>1. PICK i \in Bad : \A k \in Bad : i <= k
    <3>. HIDE DEF Bad
    <3>1. Bad \subseteq Nat
      BY DEF Bad
    <3>. QED BY <1>4, <3>1, LeastNumber
  <2>2. i \in 0..n /\ i # 0
    BY <1>3, <2>1
  <2>3. i - 1 \in 0..n /\ v[i - 1] \in Nat
    BY <2>1, <2>2
  <2>. QED BY <1>3, <2>1, <2>2, <2>3
<1>. QED BY <1>1, <1>4

LEMMA QualityIsNumber ==
  ASSUME NEW u \in Nat, NEW d \in Nat
  PROVE  CurationQuality(u, d) \in Int
<1>1. ApprovalRate(u, d) \in Int
  <2>1. Volume(u) \in Nat /\ Volume(d) \in Nat /\ (u # 0 \/ d # 0 => Volume(u) + Volume(d) > 0)
    BY VolumeIsNumber
  <2>. QED BY <2>1 DEF ApprovalRate, NoInformation
<1>2. Backing(u, d) \in Int
  BY DEF Backing, PodSaturation
<1>. QED BY <1>1, <1>2 DEF CurationQuality, NoInformation, PodSaturation

(* The rows that the surfaces and the recordings hold.                      *)
LiveRows == UNION {ToSet(Body(path)) : path \in Paths}
RecordedRows == UNION {ToSet(Normalized(Recorded(what))) : what \in {"datanets", "pods"}}
DataRows == LiveRows \cup RecordedRows

LEMMA NormalizedType ==
  ASSUME NEW upstream, Listing(upstream)
  PROVE  /\ Normalized(upstream) \in Seq(ToSet(Normalized(upstream)))
         /\ DOMAIN Normalized(upstream) = DOMAIN upstream
         /\ \A i \in DOMAIN upstream : /\ Normalized(upstream)[i].id = upstream[i].id
                                       /\ Normalized(upstream)[i].quality \in Int
         /\ \A i, j \in DOMAIN upstream :
              upstream[i] = upstream[j] => Normalized(upstream)[i] = Normalized(upstream)[j]
<1>. DEFINE norm == Normalized(upstream)
<1>1. upstream \in Seq(ToSet(upstream)) /\ DOMAIN upstream = 1 .. Len(upstream) /\ Len(upstream) \in Nat
  BY DEF Listing
<1>2. DOMAIN norm = DOMAIN upstream
  BY DEF Normalized
<1>3. norm = [i \in 1 .. Len(upstream) |-> norm[i]]
  BY <1>1 DEF Normalized
<1>4. ASSUME NEW i \in DOMAIN upstream PROVE norm[i].id = upstream[i].id /\ norm[i].quality \in Int
  <2>1. CASE "up" \in DOMAIN upstream[i]
    <3>1. norm[i] = NormalizePod(upstream[i])
      BY <2>1 DEF Normalized
    <3>2. upstream[i].up \in Nat /\ upstream[i].down \in Nat
      BY <2>1 DEF Listing
    <3>3. CurationQuality(upstream[i].up, upstream[i].down) \in Int
      BY <3>2, QualityIsNumber
    <3>. QED BY <3>1, <3>3 DEF NormalizePod
  <2>2. CASE "up" \notin DOMAIN upstream[i]
    BY <2>2 DEF Normalized, NormalizeSubnet, NoInformation
  <2>. QED BY <2>1, <2>2
<1>6. \A i, j \in DOMAIN upstream : upstream[i] = upstream[j] => norm[i] = norm[j]
  BY DEF Normalized
<1>. HIDE DEF norm
<1>5. norm \in Seq(ToSet(norm))
  <2>1. \A i \in DOMAIN norm : norm[i] \in ToSet(norm)
    BY DEF ToSet
  <2>. QED BY <1>1, <1>2, <1>3, <2>1
<1>. QED BY <1>2, <1>4, <1>5, <1>6 DEF norm

LEMMA RowsHaveQuality ==
  ASSUME NEW row \in DataRows
  PROVE  row.quality \in Int
<1>1. ASSUME NEW upstream, Listing(upstream), row \in ToSet(Normalized(upstream)) PROVE row.quality \in Int
  <2>1. PICK i \in DOMAIN Normalized(upstream) : row = Normalized(upstream)[i]
    BY <1>1 DEF ToSet
  <2>. QED BY <1>1, <2>1, NormalizedType
<1>2. ASSUME NEW path \in Paths, row \in ToSet(Body(path)) PROVE row.quality \in Int
  BY <1>1, <1>2, ReppoAssumption DEF Body
<1>3. ASSUME NEW what \in {"datanets", "pods"}, row \in ToSet(Normalized(Recorded(what)))
      PROVE  row.quality \in Int
  BY <1>1, <1>3, ReppoAssumption
<1>4. row \in LiveRows => \E path \in Paths : row \in ToSet(Body(path))
  BY Zenon DEF LiveRows
<1>5. row \in RecordedRows => \E what \in {"datanets", "pods"} : row \in ToSet(Normalized(Recorded(what)))
  BY Zenon DEF RecordedRows
<1>. QED BY <1>2, <1>3, <1>4, <1>5 DEF DataRows

LEMMA BodyType ==
  ASSUME NEW path \in Paths
  PROVE  Body(path) \in Seq(DataRows) /\ (path[1] = "mine" => Agreed(Body(path)))
<1>. DEFINE upstream == IF path[1] = "public" THEN Public(path) ELSE Mine(path)
<1>1. Listing(upstream) /\ (path[1] = "mine" => Agreed(upstream))
  BY ReppoAssumption
<1>2. Body(path) = Normalized(upstream)
  BY DEF Body
<1>. HIDE DEF upstream
<1>3. Body(path) \in Seq(ToSet(Body(path))) /\ ToSet(Body(path)) \subseteq DataRows
  <2>1. ToSet(Body(path)) \subseteq LiveRows
    BY Zenon DEF LiveRows
  <2>. QED BY <1>1, <1>2, <2>1, NormalizedType DEF DataRows
<1>4. Body(path) \in Seq(DataRows)
  BY <1>3
<1>5. path[1] = "mine" => Agreed(Body(path))
  BY <1>1, <1>2, NormalizedType DEF Agreed
<1>. QED BY <1>4, <1>5

LEMMA RecordedType ==
  ASSUME NEW what \in {"datanets", "pods"}
  PROVE  Normalized(Recorded(what)) \in Seq(DataRows) /\ ListedOnce(Normalized(Recorded(what)))
<1>1. Listing(Recorded(what)) /\ ListedOnce(Recorded(what))
  BY ReppoAssumption
<1>2. Normalized(Recorded(what)) \in Seq(ToSet(Normalized(Recorded(what))))
  BY <1>1, NormalizedType
<1>3. ToSet(Normalized(Recorded(what))) \subseteq DataRows
  <2>1. ToSet(Normalized(Recorded(what))) \subseteq RecordedRows
    BY Zenon DEF RecordedRows
  <2>. QED BY <2>1 DEF DataRows
<1>4. Normalized(Recorded(what)) \in Seq(DataRows)
  BY <1>2, <1>3
<1>5. ListedOnce(Normalized(Recorded(what)))
  BY <1>1, NormalizedType DEF ListedOnce
<1>. QED BY <1>4, <1>5

(* What is selected from rows that are listed once is listed once; duplicates *)
(* are removed from any.                                                    *)
LEMMA ArrangedOnce ==
  ASSUME NEW seq, NEW these, NEW weight, Weighed(these, weight),
         \A i, j \in these : seq[i].id = seq[j].id => i = j
  PROVE  ListedOnce(Arranged(seq, these, weight))
<1>. SUFFICES ASSUME NEW k \in DOMAIN Arranged(seq, these, weight),
                     NEW l \in DOMAIN Arranged(seq, these, weight),
                      Arranged(seq, these, weight)[k].id = Arranged(seq, these, weight)[l].id
              PROVE  k = l
  BY DEF ListedOnce
<1>1. ComesFrom(seq, these, weight, k) /\ ComesFrom(seq, these, weight, l)
  BY ArrangedFrom
<1>2. PICK i \in these : Position(these, weight, i) = k /\ Arranged(seq, these, weight)[k] = seq[i]
  BY <1>1 DEF ComesFrom
<1>3. PICK j \in these : Position(these, weight, j) = l /\ Arranged(seq, these, weight)[l] = seq[j]
  BY <1>1 DEF ComesFrom
<1>. QED BY <1>2, <1>3

LEMMA OnlyOnce ==
  ASSUME NEW S, NEW seq \in Seq(S), ListedOnce(seq), NEW kept
  PROVE  ListedOnce(Only(seq, kept))
<1>1. Weighed(Kept(seq, kept), AsTheyCame(seq))
  BY DomainWeighed DEF Kept
<1>2. \A i, j \in Kept(seq, kept) : seq[i].id = seq[j].id => i = j
  BY DEF Kept, ListedOnce
<1>. QED BY <1>1, <1>2, ArrangedOnce DEF Only, Kept

LEMMA SliceOnce ==
  ASSUME NEW S, NEW seq \in Seq(S), ListedOnce(seq), NEW n \in Nat
  PROVE  ListedOnce(Slice(seq, n))
BY SliceType DEF ListedOnce

LEMMA ByQualityType ==
  ASSUME NEW S, NEW seq \in Seq(S), \A x \in S : x.quality \in Int
  PROVE  ByQuality(seq) \in Seq(S) /\ (ListedOnce(seq) => ListedOnce(ByQuality(seq)))
<1>. DEFINE weight == [i \in DOMAIN seq |-> -seq[i].quality]
<1>1. /\ \A i \in DOMAIN seq : seq[i] \in S /\ weight[i] \in Int
      /\ DOMAIN seq = 1 .. Len(seq) /\ Len(seq) \in Nat
  OBVIOUS
<1>2. ByQuality(seq) = Sorted(seq, weight)
  BY DEF ByQuality
<1>. HIDE DEF weight
<1>3. ByQuality(seq) \in Seq(S)
  BY <1>1, <1>2, SortedType
<1>4. Weighed(DOMAIN seq, weight)
  BY <1>1, FiniteUpto DEF Weighed
<1>5. ListedOnce(seq) => ListedOnce(ByQuality(seq))
  BY <1>2, <1>4, ArrangedOnce DEF Sorted, ListedOnce
<1>. QED BY <1>3, <1>5

FirstPlaces(seq) == {i \in DOMAIN seq : \A j \in 1 .. i - 1 : seq[j].id # seq[i].id}

LEMMA DedupedOnce ==
  ASSUME NEW S, NEW seq \in Seq(S)
  PROVE  DedupeById(seq) \in Seq(S) /\ ListedOnce(DedupeById(seq))
<1>1. Weighed(FirstPlaces(seq), AsTheyCame(seq)) /\ \A i \in FirstPlaces(seq) : seq[i] \in S
  BY DomainWeighed DEF FirstPlaces
<1>2. ASSUME NEW i \in FirstPlaces(seq), NEW j \in FirstPlaces(seq), seq[i].id = seq[j].id PROVE i = j
  <2>1. i \in Int /\ j \in Int /\ i >= 1 /\ j >= 1
    BY DEF FirstPlaces
  <2>2. ~(i < j) /\ ~(j < i)
    BY <1>2, <2>1 DEF FirstPlaces
  <2>. QED BY <2>1, <2>2
<1>3. DedupeById(seq) = Arranged(seq, FirstPlaces(seq), AsTheyCame(seq))
  BY DEF DedupeById, FirstPlaces
<1>. QED BY <1>1, <1>2, <1>3, ArrangedType, ArrangedOnce

LEMMA OnlyType ==
  ASSUME NEW S, NEW seq \in Seq(S), NEW kept
  PROVE  Only(seq, kept) \in Seq(S)
<1>1. Only(seq, kept) \in Seq(S \cap kept)
  BY OnlyKept
<1>. QED BY <1>1

LEMMA RankType ==
  ASSUME NEW S, NEW seq \in Seq(S), \A x \in S : x.quality \in Int, NEW n \in Nat
  PROVE  Rank(seq, 0, n) \in Seq(S) /\ ListedOnce(Rank(seq, 0, n))
<1>. DEFINE kept == Only(seq, {r \in ToSet(seq) : r.quality >= 0})
<1>1. kept \in Seq(S)
  BY OnlyType
<1>. HIDE DEF kept
<1>2. DedupeById(kept) \in Seq(S) /\ ListedOnce(DedupeById(kept))
  BY <1>1, DedupedOnce
<1>3. ByQuality(DedupeById(kept)) \in Seq(S) /\ ListedOnce(ByQuality(DedupeById(kept)))
  BY <1>2, ByQualityType
<1>. QED BY <1>3, SliceType, SliceOnce DEF Rank, kept

LEMMA EmptyFirst ==
  ASSUME NEW S, NEW seqs \in Seq(Seq(S)), NEW i \in 1 .. Len(seqs)
  PROVE  <<>> \o seqs[i] = seqs[i]
<1>1. seqs[i] \in Seq(S)
  OBVIOUS
<1>. QED BY <1>1, ConcatEmptySeq

FlattenSteps(seqs, g) == g = [i \in 1 .. Len(seqs) |-> IF i = 1 THEN seqs[i] ELSE g[i - 1] \o seqs[i]]

LEMMA FlattenedType ==
  ASSUME NEW S, NEW seqs \in Seq(Seq(S))
  PROVE  FlattenSeq(seqs) \in Seq(S)
<1>. DEFINE n == Len(seqs)
            f == CHOOSE g : FlattenSteps(seqs, g)
            Bad == {i \in 1..n : f[i] \notin Seq(S)}
<1>0. n \in Nat /\ DOMAIN seqs = 1..n /\ \A i \in 1..n : seqs[i] \in Seq(S)
  OBVIOUS
<1>1. FlattenSeq(seqs) = IF n = 0 THEN seqs ELSE f[n]
  BY DEF FlattenSeq, FlattenSteps
<1>2. FlattenSteps(seqs, f)
  <2>. DEFINE step == [p \in (1..n) \X Seq(S) |-> p[2] \o seqs[p[1]]]
  <2>1. /\ step \in [(1..n) \X Seq(S) -> Seq(S)] /\ <<>> \in Seq(S)
        /\ \A i \in 1..n : \A x \in Seq(S) : step[<<i, x>>] = x \o seqs[i]
    <3>. HIDE DEF n
    <3>1. \A i \in 1..n : \A x \in Seq(S) : x \o seqs[i] \in Seq(S)
      BY <1>0, ConcatProperties
    <3>. QED BY <3>1, EmptySeq
  <2>. HIDE DEF step, n
  <2>2. PICK g : Iterate(n, Seq(S), <<>>, step, g)
    BY <1>0, <2>1, Iterated
  <2>. DEFINE h == [i \in 1..n |-> g[i]]
  <2>3. ASSUME NEW i \in 1..n PROVE h[i] = IF i = 1 THEN seqs[i] ELSE h[i - 1] \o seqs[i]
    <3>1. i - 1 \in 0..n /\ g[i - 1] \in Seq(S) /\ g[i] = g[i - 1] \o seqs[i] /\ g[0] = <<>>
      <4>1. /\ g \in [0..n -> Seq(S)] /\ g[0] = <<>>
            /\ \A k \in 1..n : g[k] = step[<<k, g[k - 1]>>]
        BY <2>2 DEF Iterate
      <4>2. i - 1 \in 0..n
        BY <1>0
      <4>3. g[i - 1] \in Seq(S)
        BY <4>1, <4>2
      <4>. QED BY <2>1, <4>1, <4>2, <4>3
    <3>2. CASE i = 1
      <4>1. <<>> \o seqs[i] = seqs[i]
        BY EmptyFirst DEF n
      <4>2. i - 1 = 0
        BY <3>2
      <4>3. g[i] = seqs[i]
        BY <3>1, <4>1, <4>2, Zenon
      <4>. QED BY <3>2, <4>3
    <3>3. CASE i # 1
      BY <1>0, <3>1, <3>3
    <3>. QED BY <3>2, <3>3
  <2>4. FlattenSteps(seqs, h)
    BY <2>3 DEF FlattenSteps, n
  <2>. QED BY <2>4
<1>. HIDE DEF f
<1>3. \A i \in 1..n : f[i] = IF i = 1 THEN seqs[i] ELSE f[i - 1] \o seqs[i]
  BY <1>2 DEF FlattenSteps
<1>4. ASSUME Bad # {} PROVE FALSE
  <2>1. PICK i \in Bad : \A k \in Bad : i <= k
    <3>. HIDE DEF Bad
    <3>1. Bad \subseteq Nat
      BY DEF Bad
    <3>. QED BY <1>4, <3>1, LeastNumber
  <2>2. i # 1
    BY <1>0, <1>3, <2>1
  <2>3. i - 1 \in 1..n /\ f[i - 1] \in Seq(S)
    BY <1>0, <2>1, <2>2
  <2>4. f[i] = f[i - 1] \o seqs[i]
    BY <1>3, <2>1, <2>2
  <2>5. f[i - 1] \o seqs[i] \in Seq(S)
    BY <1>0, <2>1, <2>3, ConcatProperties
  <2>. QED BY <2>1, <2>4, <2>5
<1>5. CASE n = 0
  <2>1. seqs = <<>>
    BY <1>5, EmptySeq
  <2>. QED BY <1>1, <1>5, <2>1
<1>6. CASE n # 0
  <2>1. n \in 1..n
    BY <1>0, <1>6
  <2>2. f[n] \in Seq(S)
    BY <1>4, <2>1
  <2>. QED BY <1>1, <1>6, <2>2
<1>. QED BY <1>5, <1>6

(* One listing leads another: the other begins with it.                     *)
InFront(a, b) == Len(a) <= Len(b) /\ \A i \in 1 .. Len(a) : b[i] = a[i]

UpToPlace(these, i) == {j \in these : j <= i}

LEMMA PlaceAmong ==
  ASSUME NEW S, NEW seq \in Seq(S), NEW these, these \subseteq DOMAIN seq, NEW i \in these
  PROVE  Position(these, AsTheyCame(seq), i) = Cardinality(UpToPlace(these, i))
<1>1. \A j \in these : Before(AsTheyCame(seq), j, i) <=> j <= i
  BY DomainWeighed
<1>2. {j \in these : Before(AsTheyCame(seq), j, i)} = UpToPlace(these, i)
  BY <1>1 DEF UpToPlace
<1>. QED BY <1>2 DEF Position

(* What is filtered out of the longer one begins with what is filtered out  *)
(* of the one that leads it.                                                *)
LEMMA OnlyInFront ==
  ASSUME NEW S, NEW a \in Seq(S), NEW b \in Seq(S), InFront(a, b), NEW kept
  PROVE  InFront(Only(a, kept), Only(b, kept))
<1>. DEFINE ka == Kept(a, kept)
            kb == Kept(b, kept)
<1>1. /\ ka \subseteq DOMAIN a /\ kb \subseteq DOMAIN b /\ ka \subseteq kb
      /\ \A i \in ka : b[i] = a[i] /\ UpToPlace(ka, i) = UpToPlace(kb, i)
  <2>1. DOMAIN a = 1 .. Len(a) /\ DOMAIN b = 1 .. Len(b) /\ Len(a) \in Nat /\ Len(b) \in Nat
    OBVIOUS
  <2>2. \A i \in ka : b[i] = a[i] /\ i \in kb
    BY <2>1 DEF InFront, Kept
  <2>3. \A i \in ka : \A j \in kb : j <= i => j \in ka
    BY <2>1 DEF InFront, Kept
  <2>. QED BY <2>2, <2>3 DEF UpToPlace, Kept
<1>2. Weighed(ka, AsTheyCame(a)) /\ Weighed(kb, AsTheyCame(b))
  BY <1>1, DomainWeighed
<1>3. /\ Only(a, kept) = Arranged(a, ka, AsTheyCame(a)) /\ Only(b, kept) = Arranged(b, kb, AsTheyCame(b))
  BY DEF Only, Kept
<1>4. \A i \in ka : Position(ka, AsTheyCame(a), i) = Position(kb, AsTheyCame(b), i)
  <2>. HIDE DEF ka, kb
  <2>1. ASSUME NEW i \in ka PROVE Position(ka, AsTheyCame(a), i) = Position(kb, AsTheyCame(b), i)
    <3>1. Position(ka, AsTheyCame(a), i) = Cardinality(UpToPlace(ka, i))
      BY <1>1, PlaceAmong
    <3>2. Position(kb, AsTheyCame(b), i) = Cardinality(UpToPlace(kb, i))
      BY <1>1, PlaceAmong
    <3>. QED BY <1>1, <3>1, <3>2
  <2>. QED BY <2>1
<1>. HIDE DEF ka, kb
<1>5. /\ Len(Only(a, kept)) = Cardinality(ka) /\ Len(Only(b, kept)) = Cardinality(kb)
      /\ Cardinality(ka) <= Cardinality(kb)
      /\ DOMAIN Only(a, kept) = 1 .. Cardinality(ka)
  <2>1. \A i \in ka : a[i] \in S
    BY <1>1
  <2>2. \A i \in kb : b[i] \in S
    BY <1>1
  <2>3. Arranged(a, ka, AsTheyCame(a)) \in Seq(S) /\ Len(Arranged(a, ka, AsTheyCame(a))) = Cardinality(ka)
    BY <1>2, <2>1, ArrangedType
  <2>4. Arranged(b, kb, AsTheyCame(b)) \in Seq(S) /\ Len(Arranged(b, kb, AsTheyCame(b))) = Cardinality(kb)
    BY <1>2, <2>2, ArrangedType
  <2>5. Cardinality(ka) <= Cardinality(kb)
    BY <1>1, <1>2, FS_Subset DEF Weighed
  <2>. QED BY <1>3, <2>3, <2>4, <2>5
<1>6. ASSUME NEW k \in 1 .. Cardinality(ka) PROVE Only(b, kept)[k] = Only(a, kept)[k]
  <2>1. ComesFrom(a, ka, AsTheyCame(a), k)
    BY <1>2, <1>3, <1>5, ArrangedFrom
  <2>2. PICK i \in ka : Position(ka, AsTheyCame(a), i) = k /\ Arranged(a, ka, AsTheyCame(a))[k] = a[i]
    BY <2>1 DEF ComesFrom
  <2>3. Position(kb, AsTheyCame(b), i) = k /\ i \in kb
    BY <1>1, <1>4, <2>2
  <2>4. Arranged(b, kb, AsTheyCame(b))[Position(kb, AsTheyCame(b), i)] = b[i]
    BY <1>2, <2>3, RowsInPosition
  <2>. QED BY <1>1, <1>3, <2>2, <2>3, <2>4
<1>. QED BY <1>5, <1>6 DEF InFront

(* A place all of whose predecessors are taken comes to be where it is.     *)
LEMMA PlaceStays ==
  ASSUME NEW S, NEW seq \in Seq(S), NEW these, these \subseteq DOMAIN seq, NEW i \in these,
         1 .. i \subseteq these
  PROVE  Position(these, AsTheyCame(seq), i) = i
<1>1. i \in Nat /\ \A j \in these : j \in Nat /\ j >= 1
  OBVIOUS
<1>2. UpToPlace(these, i) = 1 .. i
  BY <1>1 DEF UpToPlace
<1>3. Cardinality(1 .. i) = i
  BY <1>1, FiniteUpto
<1>. QED BY <1>2, <1>3, PlaceAmong

(* Rows that are listed once lead what they are listed with.                *)
LEMMA DedupedInFront ==
  ASSUME NEW S, NEW a \in Seq(S), NEW b \in Seq(S), ListedOnce(a)
  PROVE  InFront(a, DedupeById(a \o b))
<1>. DEFINE c == a \o b
<1>1. /\ c \in Seq(S) /\ Len(c) = Len(a) + Len(b) /\ \A i \in 1 .. Len(a) : c[i] = a[i]
      /\ DOMAIN c = 1 .. Len(c) /\ DOMAIN a = 1 .. Len(a) /\ Len(a) \in Nat /\ Len(b) \in Nat
  BY ConcatProperties
<1>. HIDE DEF c
<1>2. FirstPlaces(c) \subseteq DOMAIN c /\ Weighed(FirstPlaces(c), AsTheyCame(c))
  BY <1>1, DomainWeighed DEF FirstPlaces
<1>3. 1 .. Len(a) \subseteq FirstPlaces(c)
  <2>1. ASSUME NEW i \in 1 .. Len(a) PROVE i \in FirstPlaces(c)
    <3>1. i \in DOMAIN c
      BY <1>1
    <3>2. ASSUME NEW j \in 1 .. i - 1 PROVE c[j].id # c[i].id
      <4>1. j \in DOMAIN a /\ i \in DOMAIN a /\ j # i /\ c[j] = a[j] /\ c[i] = a[i]
        BY <1>1
      <4>. QED BY <4>1 DEF ListedOnce
    <3>. QED BY <3>1, <3>2 DEF FirstPlaces
  <2>. QED BY <2>1
<1>4. DedupeById(c) = Arranged(c, FirstPlaces(c), AsTheyCame(c))
  BY DEF DedupeById, FirstPlaces
<1>5. \A i \in FirstPlaces(c) : c[i] \in S
  BY <1>1, <1>2
<1>6. DedupeById(c) \in Seq(S) /\ Len(DedupeById(c)) = Cardinality(FirstPlaces(c))
  BY <1>2, <1>4, <1>5, ArrangedType
<1>7. Len(a) <= Cardinality(FirstPlaces(c))
  <2>1. IsFiniteSet(1 .. Len(a)) /\ Cardinality(1 .. Len(a)) = Len(a)
    BY <1>1, FiniteUpto
  <2>. QED BY <1>2, <1>3, <2>1, FS_Subset DEF Weighed
<1>8. ASSUME NEW i \in 1 .. Len(a) PROVE DedupeById(c)[i] = a[i]
  <2>1. i \in FirstPlaces(c) /\ 1 .. i \subseteq FirstPlaces(c)
    <3>1. i \in 1 .. Len(a) /\ 1 .. i \subseteq 1 .. Len(a)
      BY <1>1
    <3>. QED BY <1>3, <3>1
  <2>2. Position(FirstPlaces(c), AsTheyCame(c), i) = i
    BY <1>1, <1>2, <2>1, PlaceStays
  <2>3. Arranged(c, FirstPlaces(c), AsTheyCame(c))[Position(FirstPlaces(c), AsTheyCame(c), i)] = c[i]
    BY <1>2, <2>1, RowsInPosition
  <2>. QED BY <1>1, <1>4, <2>2, <2>3
<1>. QED BY <1>6, <1>7, <1>8 DEF InFront, c

(* The limit leaves the first of the rows that lead.                        *)
IdsIn(seq) == {seq[i].id : i \in DOMAIN seq}

LEMMA LimitKeepsTheLead ==
  ASSUME NEW S, NEW a \in Seq(S), NEW b \in Seq(S), InFront(a, b), NEW n \in Nat,
         NEW k \in DOMAIN a, k <= n
  PROVE  a[k].id \in IdsIn(Slice(b, n))
<1>1. /\ Slice(b, n) \in Seq(S) /\ Len(Slice(b, n)) = IF Len(b) < n THEN Len(b) ELSE n
      /\ \A i \in DOMAIN Slice(b, n) : Slice(b, n)[i] = b[i]
  BY SliceType
<1>2. DOMAIN Slice(b, n) = 1 .. Len(Slice(b, n)) /\ DOMAIN a = 1 .. Len(a) /\ Len(a) \in Nat /\ Len(b) \in Nat
  BY <1>1
<1>3. k \in DOMAIN Slice(b, n) /\ Slice(b, n)[k] = a[k]
  BY <1>1, <1>2 DEF InFront
<1>. QED BY <1>3 DEF IdsIn

(* A row that is taken comes to be no later than it was.                    *)
HasPlace(seq, these, i) ==
  \E k \in DOMAIN Arranged(seq, these, AsTheyCame(seq)) :
    k <= i /\ Arranged(seq, these, AsTheyCame(seq))[k] = seq[i]

LEMMA Placed ==
  ASSUME NEW S, NEW seq \in Seq(S), NEW these, these \subseteq DOMAIN seq, NEW i \in these
  PROVE  HasPlace(seq, these, i)
<1>. DEFINE weight == AsTheyCame(seq)
<1>1. Weighed(these, weight)
  BY DomainWeighed
<1>2. i \in Nat /\ UpToPlace(these, i) \in SUBSET (1 .. i)
  BY DEF UpToPlace
<1>3. Position(these, weight, i) = Cardinality(UpToPlace(these, i))
  BY PlaceAmong
<1>. HIDE DEF weight
<1>4. /\ Position(these, weight, i) \in 1 .. Cardinality(these)
      /\ Arranged(seq, these, weight)[Position(these, weight, i)] = seq[i]
  BY <1>1, RowsInPosition
<1>5. Cardinality(UpToPlace(these, i)) <= i
  <2>1. IsFiniteSet(1 .. i) /\ Cardinality(1 .. i) = i
    BY <1>2, FiniteUpto
  <2>. QED BY <1>2, <2>1, FS_Subset
<1>6. DOMAIN Arranged(seq, these, weight) = 1 .. Cardinality(these)
  BY DEF Arranged
<1>. QED BY <1>3, <1>4, <1>5, <1>6 DEF HasPlace, weight

LEMMA OnlyHas ==
  ASSUME NEW S, NEW seq \in Seq(S), NEW kept, NEW i \in DOMAIN seq, seq[i] \in kept
  PROVE  \E k \in DOMAIN Only(seq, kept) : k <= i /\ Only(seq, kept)[k] = seq[i]
<1>1. Kept(seq, kept) \subseteq DOMAIN seq /\ i \in Kept(seq, kept)
  BY DEF Kept
<1>2. Only(seq, kept) = Arranged(seq, Kept(seq, kept), AsTheyCame(seq))
  BY DEF Only, Kept
<1>3. HasPlace(seq, Kept(seq, kept), i)
  BY <1>1, Placed
<1>. QED BY <1>2, <1>3 DEF HasPlace

LEMMA DedupeHas ==
  ASSUME NEW S, NEW seq \in Seq(S), NEW i \in DOMAIN seq
  PROVE  \E k \in DOMAIN DedupeById(seq) : k <= i /\ DedupeById(seq)[k].id = seq[i].id
<1>. DEFINE same == {j \in DOMAIN seq : seq[j].id = seq[i].id}
<1>1. DOMAIN seq = 1 .. Len(seq) /\ Len(seq) \in Nat
  OBVIOUS
<1>2. PICK j \in same : \A m \in same : j <= m
  <2>1. same \subseteq Nat /\ same # {}
    BY <1>1
  <2>. HIDE DEF same
  <2>. QED BY <2>1, LeastNumber
<1>3. j \in FirstPlaces(seq) /\ seq[j].id = seq[i].id
  <2>1. \A m \in 1 .. j - 1 : seq[m].id # seq[j].id
    BY <1>1, <1>2
  <2>. QED BY <1>2, <2>1 DEF FirstPlaces
<1>4. DedupeById(seq) = Arranged(seq, FirstPlaces(seq), AsTheyCame(seq))
  BY DEF DedupeById, FirstPlaces
<1>5. HasPlace(seq, FirstPlaces(seq), j)
  <2>1. FirstPlaces(seq) \subseteq DOMAIN seq
    BY DEF FirstPlaces
  <2>. QED BY <1>3, <2>1, Placed
<1>6. j <= i /\ i \in Nat /\ j \in Nat
  BY <1>1, <1>2
<1>7. PICK k \in DOMAIN DedupeById(seq) : k <= j /\ DedupeById(seq)[k] = seq[j]
  BY <1>4, <1>5 DEF HasPlace
<1>8. k \in Nat
  BY <1>4, <1>7 DEF Arranged
<1>. QED BY <1>3, <1>6, <1>7, <1>8

(* What is left without duplicates of a listing leads what is left of it    *)
(* and more.                                                                *)
LEMMA DedupedLead ==
  ASSUME NEW S, NEW a \in Seq(S), NEW b \in Seq(S)
  PROVE  InFront(DedupeById(a), DedupeById(a \o b))
<1>. DEFINE c == a \o b
            fa == FirstPlaces(a)
            fc == FirstPlaces(c)
<1>1. /\ c \in Seq(S) /\ Len(c) = Len(a) + Len(b) /\ \A i \in 1 .. Len(a) : c[i] = a[i]
      /\ DOMAIN c = 1 .. Len(c) /\ DOMAIN a = 1 .. Len(a) /\ Len(a) \in Nat /\ Len(b) \in Nat
  BY ConcatProperties
<1>. HIDE DEF c
<1>2. /\ fa \subseteq DOMAIN a /\ fc \subseteq DOMAIN c
      /\ \A i \in DOMAIN a : i \in fa <=> i \in fc
  <2>1. ASSUME NEW i \in DOMAIN a PROVE i \in fa <=> i \in fc
    <3>1. \A j \in 1 .. i - 1 : c[j] = a[j]
      BY <1>1
    <3>2. c[i] = a[i] /\ i \in DOMAIN c
      BY <1>1
    <3>. QED BY <3>1, <3>2 DEF FirstPlaces
  <2>. QED BY <2>1 DEF FirstPlaces
<1>3. Weighed(fa, AsTheyCame(a)) /\ Weighed(fc, AsTheyCame(c))
  BY <1>1, <1>2, DomainWeighed
<1>4. DedupeById(a) = Arranged(a, fa, AsTheyCame(a)) /\ DedupeById(c) = Arranged(c, fc, AsTheyCame(c))
  BY DEF DedupeById, FirstPlaces
<1>. HIDE DEF fa, fc
<1>5. fa \subseteq fc /\ \A i \in fa : UpToPlace(fa, i) = UpToPlace(fc, i)
  <2>1. \A i \in fa : \A j \in fc : j <= i => j \in fa
    BY <1>1, <1>2
  <2>. QED BY <1>2, <2>1 DEF UpToPlace
<1>6. ASSUME NEW i \in fa PROVE Position(fa, AsTheyCame(a), i) = Position(fc, AsTheyCame(c), i)
  <2>1. Position(fa, AsTheyCame(a), i) = Cardinality(UpToPlace(fa, i))
    BY <1>2, PlaceAmong
  <2>2. Position(fc, AsTheyCame(c), i) = Cardinality(UpToPlace(fc, i))
    BY <1>1, <1>2, <1>5, PlaceAmong
  <2>. QED BY <1>5, <2>1, <2>2
<1>7. /\ Len(DedupeById(a)) = Cardinality(fa) /\ Len(DedupeById(c)) = Cardinality(fc)
      /\ Cardinality(fa) <= Cardinality(fc) /\ DOMAIN DedupeById(a) = 1 .. Cardinality(fa)
  <2>1. \A i \in fa : a[i] \in S
    BY <1>2
  <2>2. \A i \in fc : c[i] \in S
    BY <1>1, <1>2
  <2>3. Arranged(a, fa, AsTheyCame(a)) \in Seq(S) /\ Len(Arranged(a, fa, AsTheyCame(a))) = Cardinality(fa)
    BY <1>3, <2>1, ArrangedType
  <2>4. Arranged(c, fc, AsTheyCame(c)) \in Seq(S) /\ Len(Arranged(c, fc, AsTheyCame(c))) = Cardinality(fc)
    BY <1>3, <2>2, ArrangedType
  <2>5. Cardinality(fa) <= Cardinality(fc)
    BY <1>3, <1>5, FS_Subset DEF Weighed
  <2>. QED BY <1>4, <2>3, <2>4, <2>5
<1>8. ASSUME NEW k \in 1 .. Cardinality(fa) PROVE DedupeById(c)[k] = DedupeById(a)[k]
  <2>1. ComesFrom(a, fa, AsTheyCame(a), k)
    BY <1>3, <1>4, <1>7, ArrangedFrom
  <2>2. PICK i \in fa : Position(fa, AsTheyCame(a), i) = k /\ Arranged(a, fa, AsTheyCame(a))[k] = a[i]
    BY <2>1 DEF ComesFrom
  <2>3. Position(fc, AsTheyCame(c), i) = k /\ i \in fc /\ c[i] = a[i]
    BY <1>1, <1>2, <1>5, <1>6, <2>2
  <2>4. Arranged(c, fc, AsTheyCame(c))[Position(fc, AsTheyCame(c), i)] = c[i]
    BY <1>3, <2>3, RowsInPosition
  <2>. QED BY <1>4, <2>2, <2>3, <2>4
<1>. QED BY <1>7, <1>8 DEF InFront, c

(* What is left is of the listing, and stands for all of it.                *)
LEMMA DedupedRows ==
  ASSUME NEW S, NEW seq \in Seq(S), NEW k \in DOMAIN DedupeById(seq)
  PROVE  \E i \in DOMAIN seq : DedupeById(seq)[k] = seq[i]
<1>1. Weighed(FirstPlaces(seq), AsTheyCame(seq)) /\ FirstPlaces(seq) \subseteq DOMAIN seq
  BY DomainWeighed DEF FirstPlaces
<1>2. DedupeById(seq) = Arranged(seq, FirstPlaces(seq), AsTheyCame(seq))
  BY DEF DedupeById, FirstPlaces
<1>3. ComesFrom(seq, FirstPlaces(seq), AsTheyCame(seq), k)
  BY <1>1, <1>2, ArrangedFrom
<1>. QED BY <1>1, <1>2, <1>3 DEF ComesFrom

LEMMA OnlyRows ==
  ASSUME NEW S, NEW seq \in Seq(S), NEW kept, NEW k \in DOMAIN Only(seq, kept)
  PROVE  \E i \in DOMAIN seq : Only(seq, kept)[k] = seq[i] /\ seq[i] \in kept
<1>1. Weighed(Kept(seq, kept), AsTheyCame(seq)) /\ Kept(seq, kept) \subseteq DOMAIN seq
  BY DomainWeighed DEF Kept
<1>2. Only(seq, kept) = Arranged(seq, Kept(seq, kept), AsTheyCame(seq))
  BY DEF Only, Kept
<1>3. ComesFrom(seq, Kept(seq, kept), AsTheyCame(seq), k)
  BY <1>1, <1>2, ArrangedFrom
<1>. QED BY <1>2, <1>3 DEF ComesFrom, Kept

(* Where rows of one id agree, it does not matter which of them is filtered. *)
LEMMA FilteredHas ==
  ASSUME NEW S, NEW seq \in Seq(S), Agreed(seq), NEW kept, NEW i \in DOMAIN seq, seq[i] \in kept
  PROVE  \E k \in DOMAIN Only(DedupeById(seq), kept) :
           k <= i /\ Only(DedupeById(seq), kept)[k].id = seq[i].id
<1>. DEFINE dd == DedupeById(seq)
<1>1. dd \in Seq(S)
  BY DedupedOnce
<1>2. PICK j \in DOMAIN dd : j <= i /\ dd[j].id = seq[i].id
  BY DedupeHas
<1>3. PICK n \in DOMAIN seq : dd[j] = seq[n]
  BY <1>2, DedupedRows
<1>. HIDE DEF dd
<1>4. dd[j] = seq[i]
  BY <1>2, <1>3 DEF Agreed
<1>5. PICK k \in DOMAIN Only(dd, kept) : k <= j /\ Only(dd, kept)[k] = dd[j]
  BY <1>1, <1>4, OnlyHas
<1>6. k <= i
  <2>1. Only(dd, kept) \in Seq(S)
    BY <1>1, OnlyType
  <2>2. k \in Nat /\ j \in Nat /\ i \in Nat
    BY <1>1, <2>1
  <2>. QED BY <1>2, <1>5, <2>2
<1>. QED BY <1>4, <1>5, <1>6 DEF dd

(***************************************************************************)
(* The calls under way.                                                     *)
(***************************************************************************)
NamedOrAny == Named \cup {Anywhere}

Branches ==
  [at : {"public", "mine", "done", "denied", "down"}, net : NamedOrAny, limit : Limits,
   public : Seq(DataRows), owned : Seq(DataRows)]

CallKinds == {"datanets", "datanet", "data", "pod", "search", "scoped"}

Calls ==
  [pc : {"none", "reading", "settled"}, kind : {"none"} \cup CallKinds, arg : NamedOrAny, scope : Seq(Named),
   branches : Seq(Branches), from : {"none", "live", "fixture", "fixtures", "error"}, rows : Seq(DataRows)]

(* The branches are those of what was asked for.  Only a credential brings  *)
(* owned rows, which do not contradict each other; a listing that is done   *)
(* has brought their page.                                                  *)
PageOf(k, n) == Body(OwnedPage(IF k = "datanets" THEN k ELSE "pods", n))

Fits(c, i) ==
  /\ c.branches[i].net = IF c.kind = "scoped" THEN c.scope[i] ELSE c.arg
  /\ c.branches[i].limit = IF c.kind = "scoped" THEN PerDatanet(Len(c.scope)) ELSE Limit
  /\ Agreed(c.branches[i].owned)
  /\ ~Authenticated => c.branches[i].at # "mine" /\ c.branches[i].owned = <<>>
  /\ Authenticated /\ c.branches[i].at = "done" /\ c.kind \notin Singles =>
       c.branches[i].owned = PageOf(c.kind, c.branches[i].limit)

Opened(c) ==
  /\ c.kind \in CallKinds
  /\ Len(c.branches) = IF c.kind = "scoped" THEN Len(c.scope) ELSE 1
  /\ \A i \in DOMAIN c.branches : Fits(c, i)
  /\ c.pc = "reading" => c.rows = <<>>

RowsWithin(rs, where) == \A i \in DOMAIN rs : rs[i].net \in {Anywhere} \cup where

(* What is owned of a kind, as far as the first page goes.                  *)
FirstOwned(what) == Normalized(Slice(Owned(what), Limit))

OwnedLeads(c, rs) ==
  /\ c.kind = "data" => IdsIn(InNet(FirstOwned("pods"), c.arg)) \subseteq IdsIn(rs)
  /\ c.kind = "datanets" => IdsIn(Matching(FirstOwned("datanets"))) \subseteq IdsIn(rs)

(* What a settled call answers.                                             *)
Settled(c) ==
  /\ c.from = "error" => c.rows = <<>>
  /\ Denied(c) => c.from # "fixtures"
  /\ c.kind \in {"data", "search", "scoped"} => ListedOnce(c.rows)
  /\ c.kind = "data" => RowsWithin(c.rows, {c.arg})
  /\ c.kind = "scoped" => RowsWithin(c.rows, ToSet(c.scope))
  /\ c.from = "live" /\ Authenticated => OwnedLeads(c, c.rows)

CallFits(c) == (c.pc # "none" => Opened(c)) /\ (c.pc = "settled" => Settled(c))

(***************************************************************************)
(* What is merged from one branch.                                          *)
(***************************************************************************)
RowsOf(where) == {r \in DataRows : r.net \in {Anywhere} \cup where}

LEMMA PartOf ==
  ASSUME NEW S, NEW T, T \subseteq S, NEW seq \in Seq(T)
  PROVE  seq \in Seq(S)
OBVIOUS

LEMMA InNetWithin ==
  ASSUME NEW seq \in Seq(DataRows), NEW w
  PROVE  InNet(seq, w) \in Seq(RowsOf({w}))
<1>. DEFINE kept == {r \in ToSet(seq) : r.net \in {Anywhere, w}}
<1>1. InNet(seq, w) \in Seq(DataRows \cap kept)
  BY OnlyKept DEF InNet
<1>2. DataRows \cap kept \subseteq RowsOf({w})
  BY DEF RowsOf
<1>. QED BY <1>1, <1>2, PartOf

LEMMA InNetOnly ==
  ASSUME NEW seq \in Seq(DataRows), NEW w
  PROVE  InNet(seq, w) = Only(seq, {r \in DataRows : r.net \in {Anywhere, w}})
<1>. DEFINE listed == {r \in ToSet(seq) : r.net \in {Anywhere, w}}
            known == {r \in DataRows : r.net \in {Anywhere, w}}
<1>1. \A i \in DOMAIN seq : seq[i] \in DataRows /\ seq[i] \in ToSet(seq)
  BY DEF ToSet
<1>2. \A i \in DOMAIN seq : seq[i] \in listed <=> seq[i] \in known
  BY <1>1
<1>3. InNet(seq, w) = Only(seq, listed)
  BY DEF InNet
<1>. HIDE DEF listed, known
<1>4. {i \in DOMAIN seq : seq[i] \in listed} = {i \in DOMAIN seq : seq[i] \in known}
  BY <1>2
<1>5. Only(seq, listed) = Only(seq, known)
  BY <1>4 DEF Only
<1>. QED BY <1>3, <1>5 DEF known

LEMMA MatchingOnly ==
  ASSUME NEW seq \in Seq(DataRows)
  PROVE  Matching(seq) = Only(seq, {r \in DataRows : r.text})
<1>. DEFINE listed == {r \in ToSet(seq) : r.text}
            known == {r \in DataRows : r.text}
<1>1. \A i \in DOMAIN seq : seq[i] \in DataRows /\ seq[i] \in ToSet(seq)
  BY DEF ToSet
<1>2. \A i \in DOMAIN seq : seq[i] \in listed <=> seq[i] \in known
  BY <1>1
<1>3. Matching(seq) = Only(seq, listed)
  BY DEF Matching
<1>. HIDE DEF listed, known
<1>4. {i \in DOMAIN seq : seq[i] \in listed} = {i \in DOMAIN seq : seq[i] \in known}
  BY <1>2
<1>5. Only(seq, listed) = Only(seq, known)
  BY <1>4 DEF Only
<1>. QED BY <1>3, <1>5 DEF known

LEMMA LimitsAreNumbers == Limits \subseteq Nat /\ Limit \in Limits /\ 0 \in Limits
<1>1. Limit \in Nat /\ MinBatch \in Nat
  BY ReppoAssumption
<1>. HIDE ReppoAssumption
<1>. QED BY <1>1 DEF Limits

LEMMA MergedWithin ==
  ASSUME NEW b \in Branches, NEW k \in {"data", "scoped"}
  PROVE  Merged(k, b) \in Seq(RowsOf({b.net})) /\ ListedOnce(Merged(k, b))
<1>. DEFINE all == DedupeById(b.owned \o b.public)
<1>1. b.owned \in Seq(DataRows) /\ b.public \in Seq(DataRows) /\ b.limit \in Nat
  BY LimitsAreNumbers DEF Branches
<1>2. b.owned \o b.public \in Seq(DataRows)
  BY <1>1, ConcatProperties
<1>3. all \in Seq(DataRows) /\ ListedOnce(all)
  BY <1>2, DedupedOnce
<1>4. Merged(k, b) = Slice(InNet(all, b.net), b.limit)
  BY DEF Merged
<1>. HIDE DEF all
<1>5. InNet(all, b.net) \in Seq(RowsOf({b.net}))
  BY <1>3, InNetWithin
<1>6. ListedOnce(InNet(all, b.net))
  BY <1>3, OnlyOnce DEF InNet
<1>. QED BY <1>1, <1>4, <1>5, <1>6, SliceType, SliceOnce

LEMMA MergedType ==
  ASSUME NEW b \in Branches, NEW k \in CallKinds
  PROVE  Merged(k, b) \in Seq(DataRows) /\ (k = "search" => ListedOnce(Merged(k, b)))
<1>1. b.owned \in Seq(DataRows) /\ b.public \in Seq(DataRows) /\ b.limit \in Nat
  BY LimitsAreNumbers DEF Branches
<1>2. Matching(b.owned) \in Seq(DataRows)
  BY <1>1, OnlyType DEF Matching
<1>3. Matching(b.owned) \o b.public \in Seq(DataRows) /\ b.public \o b.owned \in Seq(DataRows)
  BY <1>1, <1>2, ConcatProperties
<1>4. CASE k \in {"data", "scoped"}
  <2>1. RowsOf({b.net}) \subseteq DataRows
    BY DEF RowsOf
  <2>. QED BY <1>4, <2>1, MergedWithin, PartOf
<1>5. CASE k = "datanets"
  <2>1. DedupeById(Matching(b.owned) \o b.public) \in Seq(DataRows)
    BY <1>3, DedupedOnce
  <2>2. Slice(DedupeById(Matching(b.owned) \o b.public), b.limit) \in Seq(DataRows)
    BY <1>1, <2>1, SliceType
  <2>. QED BY <1>1, <1>5, <2>2 DEF Merged
<1>6. CASE k = "search"
  <2>1. Merged(k, b) = Rank(Matching(b.owned) \o b.public, 0, b.limit)
    BY <1>6 DEF Merged
  <2>. QED BY <1>1, <1>3, <2>1, RankType, RowsHaveQuality
<1>7. CASE k \in {"datanet", "pod"}
  <2>1. Merged(k, b) = b.public \o b.owned
    BY <1>7 DEF Merged
  <2>. QED BY <1>3, <1>7, <2>1
<1>. QED BY <1>4, <1>5, <1>6, <1>7 DEF CallKinds

(* A share of at most twice the limit, or the least.                        *)
LEMMA ShareIsLimit ==
  ASSUME NEW k \in Nat \ {0}
  PROVE  PerDatanet(k) \in Limits
<1>1. Limit \in Nat \ {0} /\ MinBatch \in Nat
  BY ReppoAssumption
<1>. HIDE ReppoAssumption
<1>. DEFINE q == (Limit + k - 1) \div k
<1>2. q \in Int /\ q >= 0 /\ k * q <= Limit + k - 1
  BY <1>1
<1>. HIDE DEF q
<1>3. q <= Limit
  <2>. SUFFICES ASSUME q >= Limit + 1 PROVE FALSE
    BY <1>1, <1>2
  <2>1. k * q >= k * (Limit + 1)
    BY <1>1, <1>2
  <2>2. k * (Limit + 1) = k * Limit + k
    BY <1>1
  <2>3. k * Limit >= Limit
    BY <1>1
  <2>4. k * q \in Int /\ k * Limit \in Int
    BY <1>1, <1>2
  <2>. QED BY <1>1, <1>2, <2>1, <2>2, <2>3, <2>4
<1>. QED BY <1>1, <1>2, <1>3 DEF PerDatanet, Limits, q

(***************************************************************************)
(* What a call finds.                                                       *)
(***************************************************************************)
LEMMA FoundType ==
  ASSUME NEW c \in Calls, Opened(c)
  PROVE  /\ Found(c) \in Seq(DataRows)
         /\ c.kind \in {"data", "search", "scoped"} => ListedOnce(Found(c))
         /\ c.kind = "data" => RowsWithin(Found(c), {c.arg})
         /\ c.kind = "scoped" => RowsWithin(Found(c), ToSet(c.scope))
<1>1. Limit \in Nat
  BY ReppoAssumption
<1>2. /\ c.branches \in Seq(Branches) /\ c.scope \in Seq(Named) /\ c.kind \in CallKinds
      /\ \A i \in DOMAIN c.branches : Fits(c, i)
      /\ DOMAIN c.branches = 1 .. Len(c.branches) /\ Len(c.branches) \in Nat
      /\ \A i \in DOMAIN c.branches : c.branches[i] \in Branches
  <2>1. c.branches \in Seq(Branches) /\ c.scope \in Seq(Named)
    BY DEF Calls
  <2>2. c.kind \in CallKinds /\ \A i \in DOMAIN c.branches : Fits(c, i)
    BY DEF Opened
  <2>. QED BY <2>1, <2>2
<1>3. CASE c.kind # "scoped"
  <2>1. 1 \in DOMAIN c.branches
    BY <1>2, <1>3 DEF Opened
  <2>2. /\ c.branches[1] \in Branches /\ c.branches[1].net = c.arg
    BY <1>2, <1>3, <2>1 DEF Fits
  <2>3. Found(c) = Merged(c.kind, c.branches[1])
    BY <1>3 DEF Found
  <2>4. Found(c) \in Seq(DataRows) /\ (c.kind = "search" => ListedOnce(Found(c)))
    BY <1>1, <1>2, <2>2, <2>3, MergedType
  <2>5. c.kind = "data" => Found(c) \in Seq(RowsOf({c.arg})) /\ ListedOnce(Found(c))
    BY <1>1, <2>2, <2>3, MergedWithin
  <2>6. c.kind = "data" => RowsWithin(Found(c), {c.arg})
    BY <2>5 DEF RowsWithin, RowsOf
  <2>. QED BY <1>3, <2>4, <2>5, <2>6
<1>4. CASE c.kind = "scoped"
  <2>. DEFINE n == Len(c.branches)
              W == RowsOf(ToSet(c.scope))
              brought == [i \in DOMAIN c.branches |->
                            IF c.branches[i].at = "done" THEN Merged("scoped", c.branches[i]) ELSE <<>>]
  <2>1. Found(c) = Rank(FlattenSeq(brought), 0, Limit)
    BY <1>4 DEF Found
  <2>2. ASSUME NEW i \in 1 .. n PROVE brought[i] \in Seq(W)
    <3>1. c.branches[i] \in Branches /\ Fits(c, i) /\ n \in Nat \ {0} /\ i \in DOMAIN c.scope
      BY <1>2, <1>4 DEF Opened
    <3>2. c.branches[i].net = c.scope[i] /\ c.scope[i] \in ToSet(c.scope)
      BY <1>4, <3>1 DEF Fits, ToSet
    <3>3. Merged("scoped", c.branches[i]) \in Seq(RowsOf({c.branches[i].net}))
      BY <3>1, <3>2, MergedWithin
    <3>4. RowsOf({c.branches[i].net}) \subseteq W
      BY <3>2 DEF RowsOf
    <3>5. Merged("scoped", c.branches[i]) \in Seq(W)
      BY <3>3, <3>4, PartOf
    <3>6. <<>> \in Seq(W)
      BY EmptySeq
    <3>. QED BY <1>2, <3>5, <3>6
  <2>3. brought \in Seq(Seq(W))
    <3>1. brought = [i \in 1 .. n |-> brought[i]] /\ n \in Nat
      BY <1>2
    <3>. HIDE DEF brought, W, n
    <3>. QED BY <2>2, <3>1
  <2>4. \A x \in W : x.quality \in Int
    BY RowsHaveQuality DEF RowsOf
  <2>. HIDE DEF brought, W
  <2>5. FlattenSeq(brought) \in Seq(W)
    BY <2>3, FlattenedType
  <2>6. Found(c) \in Seq(W) /\ ListedOnce(Found(c))
    BY <1>1, <2>1, <2>4, <2>5, RankType
  <2>7. W \subseteq DataRows /\ \A x \in W : x.net \in {Anywhere} \cup ToSet(c.scope)
    BY DEF W, RowsOf
  <2>8. Found(c) \in Seq(DataRows)
    BY <2>6, <2>7, PartOf
  <2>9. RowsWithin(Found(c), ToSet(c.scope))
    BY <2>6, <2>7 DEF RowsWithin
  <2>. QED BY <1>4, <2>6, <2>8, <2>9
<1>. QED BY <1>3, <1>4

(* What the page of a listing begins with.                                  *)
LEMMA FirstOfPage ==
  ASSUME NEW what \in {"datanets", "pods"}
  PROVE  /\ FirstOwned(what) \in Seq(DataRows)
         /\ \A i \in DOMAIN FirstOwned(what) :
              /\ i <= Limit /\ i \in DOMAIN Body(OwnedPage(what, Limit))
              /\ FirstOwned(what)[i] = Body(OwnedPage(what, Limit))[i]
<1>. DEFINE path == OwnedPage(what, Limit)
            page == Mine(path)
            first == Slice(Owned(what), Limit)
<1>1. Limit \in Nat /\ Limit \in Limits
  BY ReppoAssumption, LimitsAreNumbers
<1>2. path \in Paths /\ path[1] = "mine"
  BY <1>1 DEF OwnedPage, Paths, Surfaces
<1>3. /\ page \in Seq(ToSet(page)) /\ Slice(page, Limit) = first
  BY <1>1, <1>2, ReppoAssumption DEF Listing
<1>4. Body(path) = Normalized(page) /\ Body(path) \in Seq(DataRows)
  BY <1>2, BodyType DEF Body
<1>. HIDE DEF page, first, path
<1>5. /\ first \in Seq(ToSet(page)) /\ Len(first) = IF Len(page) < Limit THEN Len(page) ELSE Limit
      /\ \A i \in DOMAIN first : i \in DOMAIN page /\ first[i] = page[i]
  BY <1>1, <1>3, SliceType
<1>6. DOMAIN first = 1 .. Len(first) /\ Len(first) \in Nat /\ Len(page) \in Nat
  BY <1>3, <1>5
<1>7. DOMAIN Normalized(first) = DOMAIN first /\ DOMAIN Normalized(page) = DOMAIN page
  BY DEF Normalized
<1>8. \A i \in DOMAIN first : Normalized(first)[i] = Normalized(page)[i]
  BY <1>5 DEF Normalized
<1>9. Normalized(first) \in Seq(DataRows)
  <2>1. \A i \in DOMAIN first : Normalized(first)[i] \in DataRows
    BY <1>4, <1>5, <1>7, <1>8
  <2>2. Normalized(first) = [i \in 1 .. Len(first) |-> Normalized(first)[i]]
    BY <1>6 DEF Normalized
  <2>. QED BY <1>6, <2>1, <2>2
<1>10. FirstOwned(what) = Normalized(first)
  BY DEF FirstOwned, first
<1>11. \A i \in DOMAIN first : i <= Limit
  BY <1>1, <1>5, <1>6
<1>. QED BY <1>4, <1>5, <1>7, <1>8, <1>9, <1>10, <1>11 DEF path

(* The rows that are owned lead.                                            *)
LEMMA FoundOwnedFirst ==
  ASSUME NEW c \in Calls, Opened(c), Authenticated,
         c.kind \in {"datanets", "data"} => c.branches[1].at = "done"
  PROVE  OwnedLeads(c, Found(c))
<1>. SUFFICES ASSUME c.kind \in {"datanets", "data"} PROVE OwnedLeads(c, Found(c))
  BY DEF OwnedLeads
<1>. DEFINE b == c.branches[1]
            what == IF c.kind = "datanets" THEN "datanets" ELSE "pods"
            first == FirstOwned(what)
<1>1. Limit \in Nat
  BY ReppoAssumption
<1>2. b \in Branches /\ Agreed(b.owned) /\ b.net = c.arg /\ b.limit = Limit /\ b.owned = PageOf(c.kind, Limit)
  <2>1. c.branches \in Seq(Branches) /\ Len(c.branches) = 1 /\ c.kind # "scoped"
    BY DEF Calls, Opened
  <2>2. 1 \in DOMAIN c.branches /\ c.branches[1] \in Branches
    BY SMTT(30), <2>1
  <2>3. Fits(c, 1)
    BY <2>2 DEF Opened
  <2>. QED BY <2>1, <2>2, <2>3 DEF Fits, Singles
<1>3. Found(c) = Merged(c.kind, b)
  BY DEF Found
<1>. HIDE DEF b
<1>4. b.owned \in Seq(DataRows) /\ b.public \in Seq(DataRows)
  BY <1>2 DEF Branches
<1>5. /\ first \in Seq(DataRows)
      /\ \A i \in DOMAIN first : i <= Limit /\ i \in DOMAIN b.owned /\ first[i] = b.owned[i]
  BY <1>2, FirstOfPage DEF PageOf
<1>. HIDE DEF first
<1>6. CASE c.kind = "datanets"
  <2>. DEFINE asked == Matching(b.owned)
              lead == DedupeById(asked)
              all == DedupeById(asked \o b.public)
              text == {r \in DataRows : r.text}
  <2>1. asked = Only(b.owned, text) /\ Matching(first) = Only(first, text)
    BY <1>4, <1>5, MatchingOnly
  <2>2. asked \in Seq(DataRows)
    BY <1>4, <2>1, OnlyType
  <2>3. InFront(lead, all) /\ lead \in Seq(DataRows) /\ all \in Seq(DataRows)
    <3>. HIDE DEF asked
    <3>1. asked \o b.public \in Seq(DataRows)
      BY <1>4, <2>2, ConcatProperties
    <3>. QED BY <1>4, <2>2, <3>1, DedupedLead, DedupedOnce
  <2>4. Found(c) = Slice(all, Limit)
    BY <1>2, <1>3, <1>6 DEF Merged
  <2>. HIDE DEF text, all
  <2>5. ASSUME NEW x \in DOMAIN Matching(first) PROVE Matching(first)[x].id \in IdsIn(Found(c))
    <3>. HIDE DEF asked
    <3>1. PICK i \in DOMAIN first : Matching(first)[x] = first[i] /\ first[i] \in text
      BY <1>5, <2>1, <2>5, OnlyRows
    <3>2. i <= Limit /\ i \in DOMAIN b.owned /\ b.owned[i] \in text /\ b.owned[i] = first[i]
      BY <1>5, <3>1
    <3>3. PICK m \in DOMAIN asked : m <= i /\ asked[m] = first[i]
      BY <1>4, <2>1, <3>2, OnlyHas
    <3>4. PICK k \in DOMAIN lead : k <= m /\ lead[k].id = asked[m].id
      BY <2>2, <3>3, DedupeHas
    <3>. HIDE DEF lead
    <3>5. k <= Limit
      <4>1. lead \in Seq(DataRows) /\ k \in DOMAIN lead
        BY <2>3, <3>4
      <4>2. k \in Nat
        BY <4>1
      <4>3. m \in Nat
        BY <2>2, <3>3
      <4>4. i \in Nat
        BY <1>4, <3>2
      <4>. QED BY <1>1, <3>2, <3>3, <3>4, <4>2, <4>3, <4>4
    <3>6. lead[k].id \in IdsIn(Slice(all, Limit))
      BY <1>1, <2>3, <3>5, LimitKeepsTheLead
    <3>. QED BY <2>4, <3>1, <3>3, <3>4, <3>6
  <2>. QED BY <1>6, <2>5 DEF OwnedLeads, IdsIn, first
<1>7. CASE c.kind = "data"
  <2>. DEFINE lead == DedupeById(b.owned)
              all == DedupeById(b.owned \o b.public)
              net == {r \in DataRows : r.net \in {Anywhere, c.arg}}
  <2>1. InFront(lead, all) /\ lead \in Seq(DataRows) /\ all \in Seq(DataRows)
    <3>1. b.owned \o b.public \in Seq(DataRows)
      BY <1>4, ConcatProperties
    <3>. QED BY <1>4, <3>1, DedupedLead, DedupedOnce
  <2>2. Found(c) = Slice(InNet(all, c.arg), Limit)
    BY <1>2, <1>3, <1>7 DEF Merged
  <2>3. InNet(first, c.arg) = Only(first, net) /\ InNet(all, c.arg) = Only(all, net)
    BY <1>5, <2>1, InNetOnly
  <2>. HIDE DEF net, all
  <2>4. InFront(Only(lead, net), Only(all, net))
    <3>. HIDE DEF lead
    <3>. QED BY <2>1, OnlyInFront
  <2>5. Only(lead, net) \in Seq(DataRows) /\ Only(all, net) \in Seq(DataRows)
    BY <2>1, OnlyType
  <2>6. ASSUME NEW x \in DOMAIN InNet(first, c.arg) PROVE InNet(first, c.arg)[x].id \in IdsIn(Found(c))
    <3>1. PICK i \in DOMAIN first : InNet(first, c.arg)[x] = first[i] /\ first[i] \in net
      BY <1>5, <2>3, <2>6, OnlyRows
    <3>2. i <= Limit /\ i \in DOMAIN b.owned /\ b.owned[i] \in net /\ b.owned[i] = first[i]
      BY <1>5, <3>1
    <3>3. PICK k \in DOMAIN Only(lead, net) : k <= i /\ Only(lead, net)[k].id = first[i].id
      BY <1>2, <1>4, <3>2, FilteredHas
    <3>. HIDE DEF lead
    <3>4. k <= Limit
      <4>1. k \in Nat /\ i \in Nat
        BY <1>4, <2>5, <3>2
      <4>. QED BY <1>1, <3>2, <3>3, <4>1
    <3>5. Only(lead, net)[k].id \in IdsIn(Slice(Only(all, net), Limit))
      BY <1>1, <2>4, <2>5, <3>4, LimitKeepsTheLead
    <3>. QED BY <2>2, <2>3, <3>1, <3>3, <3>5
  <2>. QED BY <1>7, <2>6 DEF OwnedLeads, IdsIn, first
<1>. QED BY <1>6, <1>7

LEMMA FixturesType ==
  ASSUME NEW c \in Calls, c.kind \in CallKinds
  PROVE  /\ Fixtures(c) \in Seq(DataRows)
         /\ c.kind \in {"data", "search", "scoped"} => ListedOnce(Fixtures(c))
         /\ c.kind = "data" => RowsWithin(Fixtures(c), {c.arg})
         /\ c.kind = "scoped" => RowsWithin(Fixtures(c), ToSet(c.scope))
<1>. DEFINE what == IF c.kind \in {"datanets", "datanet"} THEN "datanets" ELSE "pods"
            held == Normalized(Recorded(what))
            byText == Matching(ByQuality(held))
            of(where) == {r \in ToSet(held) : r.net \in where}
            chosen(where) == Slice(Only(byText, of(where)), Limit)
            data(where) == Slice(Only(ByQuality(held), of(where)), Limit)
<1>1. Limit \in Nat
  BY ReppoAssumption
<1>2. held \in Seq(DataRows) /\ ListedOnce(held)
  <2>1. what \in {"datanets", "pods"}
    OBVIOUS
  <2>. HIDE DEF what
  <2>. QED BY <2>1, RecordedType
<1>3. /\ c.kind = "datanets" => Fixtures(c) = Slice(Matching(held), Limit)
      /\ c.kind = "data" => Fixtures(c) = data({c.arg})
      /\ c.kind = "scoped" => Fixtures(c) = chosen(ToSet(c.scope))
      /\ c.kind = "search" => Fixtures(c) = Slice(byText, Limit)
      /\ c.kind \in {"datanet", "pod"} => Fixtures(c) = Only(held, {r \in ToSet(held) : r.id = c.arg})
  BY DEF Fixtures
<1>. HIDE DEF held, what
<1>4. ByQuality(held) \in Seq(DataRows) /\ ListedOnce(ByQuality(held))
  BY <1>2, ByQualityType, RowsHaveQuality
<1>5. byText \in Seq(DataRows) /\ ListedOnce(byText)
  BY <1>4, OnlyType, OnlyOnce DEF Matching
<1>6. ASSUME NEW seq \in Seq(DataRows), ListedOnce(seq), NEW where
      PROVE  /\ Slice(Only(seq, of(where)), Limit) \in Seq(DataRows)
             /\ ListedOnce(Slice(Only(seq, of(where)), Limit))
             /\ RowsWithin(Slice(Only(seq, of(where)), Limit), where)
  <2>. DEFINE W == {r \in DataRows : r.net \in where}
  <2>1. Only(seq, of(where)) \in Seq(DataRows \cap of(where)) /\ ListedOnce(Only(seq, of(where)))
    BY <1>6, OnlyKept, OnlyOnce
  <2>2. DataRows \cap of(where) \subseteq W
    OBVIOUS
  <2>. HIDE DEF W, of
  <2>3. Only(seq, of(where)) \in Seq(W)
    BY <2>1, <2>2, PartOf
  <2>4. Slice(Only(seq, of(where)), Limit) \in Seq(W) /\ ListedOnce(Slice(Only(seq, of(where)), Limit))
    BY <1>1, <2>1, <2>3, SliceType, SliceOnce
  <2>5. W \subseteq DataRows /\ \A x \in W : x.net \in {Anywhere} \cup where
    BY DEF W
  <2>6. Slice(Only(seq, of(where)), Limit) \in Seq(DataRows)
    BY <2>4, <2>5, PartOf
  <2>. QED BY <2>4, <2>5, <2>6 DEF RowsWithin
<1>7. CASE c.kind = "data"
  <2>1. Fixtures(c) = Slice(Only(ByQuality(held), of({c.arg})), Limit)
    BY <1>3, <1>7
  <2>. HIDE DEF of
  <2>. QED BY <1>4, <1>6, <1>7, <2>1
<1>8. CASE c.kind = "scoped"
  <2>1. Fixtures(c) = Slice(Only(byText, of(ToSet(c.scope))), Limit)
    BY <1>3, <1>8
  <2>. HIDE DEF of, byText
  <2>. QED BY <1>5, <1>6, <1>8, <2>1
<1>9. CASE c.kind = "search"
  <2>. HIDE DEF byText
  <2>. QED BY <1>1, <1>3, <1>5, <1>9, SliceType, SliceOnce
<1>10. CASE c.kind = "datanets"
  <2>1. Matching(held) \in Seq(DataRows)
    BY <1>2, OnlyType DEF Matching
  <2>. QED BY <1>1, <1>3, <1>10, <2>1, SliceType
<1>11. CASE c.kind \in {"datanet", "pod"}
  BY <1>2, <1>3, <1>11, OnlyType
<1>. QED BY <1>7, <1>8, <1>9, <1>10, <1>11 DEF CallKinds

(***************************************************************************)
(* Steps of the data network.                                               *)
(***************************************************************************)
CallInv ==
  /\ DOMAIN call = Slots
  /\ \A s \in Slots : call[s] \in Calls /\ CallFits(call[s])

(* What the steps of the adapter leave alone of a call.                     *)
SameCall(c, d) == d.kind = c.kind /\ d.scope = c.scope /\ d.arg = c.arg /\ (c.pc # "none" => d.pc # "none")

LEMMA OpenedByCall ==
  ASSUME NEW k \in CallKinds, NEW a \in NamedOrAny, NEW w \in Seq(Named)
  PROVE  /\ Called(k, a, w) \in Calls /\ CallFits(Called(k, a, w))
         /\ Called(k, a, w).kind = k /\ Called(k, a, w).arg = a /\ Called(k, a, w).scope = w
         /\ Called(k, a, w).pc = "reading"
<1>. DEFINE c == Called(k, a, w)
            n == IF k = "scoped" THEN PerDatanet(Len(w)) ELSE Limit
            bs == IF k = "scoped" THEN [i \in DOMAIN w |-> Branch(w[i], n)] ELSE << Branch(a, n) >>
<1>1. \A x \in NamedOrAny, l \in Limits :
        /\ Branch(x, l) \in Branches /\ Branch(x, l).owned = <<>> /\ Branch(x, l).net = x
        /\ Branch(x, l).at = "public" /\ Branch(x, l).limit = l
  <2>1. <<>> \in Seq(DataRows)
    BY EmptySeq
  <2>. QED BY <2>1 DEF Branch, Branches
<1>2. DOMAIN w = 1 .. Len(w) /\ Len(w) \in Nat /\ \A i \in DOMAIN w : w[i] \in NamedOrAny
  BY DEF NamedOrAny
<1>3. /\ bs \in Seq(Branches)
      /\ Len(bs) = IF k = "scoped" THEN Len(w) ELSE 1
      /\ \A i \in DOMAIN bs : n \in Limits /\ bs[i] = Branch(IF k = "scoped" THEN w[i] ELSE a, n)
  <2>1. CASE k = "scoped"
    <3>1. bs = [i \in 1 .. Len(w) |-> Branch(w[i], n)]
      BY <1>2, <2>1
    <3>2. \A i \in DOMAIN w : n \in Limits
      BY <1>2, <2>1, ShareIsLimit
    <3>. HIDE DEF bs, n
    <3>. QED BY <1>1, <1>2, <2>1, <3>1, <3>2
  <2>2. CASE k # "scoped"
    <3>1. bs = << Branch(a, n) >> /\ Branch(a, n) \in Branches /\ n \in Limits
      BY <1>1, <2>2, LimitsAreNumbers
    <3>. HIDE DEF bs, n
    <3>. QED BY <2>2, <3>1
  <2>. QED BY <2>1, <2>2
<1>4. /\ c.pc = "reading" /\ c.kind = k /\ c.arg = a /\ c.scope = w /\ c.branches = bs /\ c.from = "none"
      /\ c.rows = <<>>
      /\ c = [pc |-> "reading", kind |-> k, arg |-> a, scope |-> w, branches |-> bs,
              from |-> "none", rows |-> <<>>]
  <2>. HIDE DEF bs
  <2>1. c = [NoCall EXCEPT !.pc = "reading", !.kind = k, !.arg = a, !.scope = w, !.branches = bs]
    BY DEF Called, bs, n
  <2>2. c = [pc |-> "reading", kind |-> k, arg |-> a, scope |-> w, branches |-> bs,
             from |-> "none", rows |-> <<>>]
    BY <2>1 DEF NoCall
  <2>. HIDE DEF c
  <2>. QED BY <2>2
<1>. HIDE DEF bs, c, n
<1>5. c \in Calls
  <2>1. <<>> \in Seq(DataRows)
    BY EmptySeq
  <2>. QED BY <1>3, <1>4, <2>1 DEF Calls
<1>6. ASSUME NEW i \in DOMAIN bs PROVE Fits(c, i)
  <2>1. (IF k = "scoped" THEN w[i] ELSE a) \in NamedOrAny
    BY <1>2, <1>3
  <2>2. /\ bs[i].net = (IF k = "scoped" THEN w[i] ELSE a) /\ bs[i].owned = <<>> /\ bs[i].at = "public"
        /\ bs[i].limit = n
    BY <1>1, <1>3, <2>1
  <2>3. Agreed(<<>>)
    BY DEF Agreed
  <2>4. n = IF c.kind = "scoped" THEN PerDatanet(Len(c.scope)) ELSE Limit
    BY <1>4 DEF n
  <2>. QED BY <1>4, <2>2, <2>3, <2>4 DEF Fits
<1>7. CallFits(c)
  BY <1>3, <1>4, <1>6 DEF CallFits, Opened
<1>. QED BY <1>4, <1>5, <1>7 DEF c

LEMMA NothingCalled == NoCall \in Calls /\ CallFits(NoCall) /\ NoCall.pc = "none"
<1>1. <<>> \in Seq(DataRows) /\ <<>> \in Seq(Named) /\ <<>> \in Seq(Branches)
  BY EmptySeq
<1>. QED BY <1>1 DEF NoCall, Calls, CallFits, NamedOrAny

LEMMA PathIsKnown ==
  ASSUME NEW b \in Branches, b.at \in {"public", "mine"}, NEW k \in CallKinds
  PROVE  /\ Path(k, b) \in Paths /\ Path(k, b)[1] = b.at
         /\ b.at = "mine" /\ k \notin Singles => Body(Path(k, b)) = PageOf(k, b.limit)
<1>. DEFINE what == CASE k \in {"data", "scoped"} -> "pods" [] OTHER -> k
            shared == IF k = "datanets" THEN k ELSE "pods"
<1>1. what \in {"datanets", "datanet", "pods", "pod", "search"} /\ shared \in {"datanets", "pods"}
  BY DEF CallKinds
<1>2. b.net \in Named \cup {Anywhere} /\ b.at \in Surfaces /\ b.limit \in Limits /\ 0 \in Limits
  BY LimitsAreNumbers DEF Branches, NamedOrAny, Surfaces
<1>. HIDE DEF what, shared
<1>3. CASE k \in Singles
  <2>1. Path(k, b) = <<b.at, what, b.net, 0>>
    BY <1>3 DEF Path, what
  <2>. QED BY <1>1, <1>2, <1>3, <2>1 DEF Paths
<1>4. CASE k \notin Singles /\ b.at = "public"
  <2>1. Path(k, b) = <<b.at, what, b.net, b.limit>>
    BY <1>4 DEF Path, what
  <2>. QED BY <1>1, <1>2, <1>4, <2>1 DEF Paths
<1>5. CASE k \notin Singles /\ b.at # "public"
  <2>1. Path(k, b) = OwnedPage(shared, b.limit) /\ b.at = "mine"
    BY <1>5 DEF Path, shared
  <2>2. Body(Path(k, b)) = PageOf(k, b.limit)
    BY <2>1 DEF PageOf, shared
  <2>3. OwnedPage(shared, b.limit) = <<"mine", shared, Anywhere, b.limit>>
    BY DEF OwnedPage
  <2>. QED BY <1>1, <1>2, <2>1, <2>2, <2>3 DEF Paths
<1>. QED BY <1>3, <1>4, <1>5

(* One request of one branch.                                               *)
LEMMA ReadKeeps ==
  ASSUME CallInv, NEW s \in Slots, NEW i \in DOMAIN call[s].branches, Read(s, i)
  PROVE  CallInv' /\ credential' = credential /\ \A x \in Slots : SameCall(call[x], call'[x])
<1>. DEFINE c == call[s]
            b == c.branches[i]
            path == Path(c.kind, b)
<1>1. /\ c \in Calls /\ c.pc = "reading" /\ Opened(c) /\ i \in DOMAIN c.branches /\ b.at \in {"public", "mine"}
      /\ DOMAIN call = Slots /\ credential' = credential
  BY DEF CallInv, CallFits, Read
<1>2. c.branches \in Seq(Branches) /\ b \in Branches /\ Fits(c, i) /\ c.kind \in CallKinds
  BY <1>1 DEF Calls, Opened
<1>3. PICK d : /\ call' = [call EXCEPT ![s].branches[i] = d]
               /\ d \in {Answered(c.kind, b, Body(path)), [b EXCEPT !.at = "denied"], [b EXCEPT !.at = "down"]}
  BY DEF Read, Put
<1>. HIDE DEF c, b, path
<1>4. d \in Branches /\ d.net = b.net /\ d.limit = b.limit /\ Agreed(d.owned)
      /\ (~Authenticated => d.at # "mine" /\ d.owned = <<>>)
      /\ (Authenticated /\ d.at = "done" /\ c.kind \notin Singles => d.owned = PageOf(c.kind, d.limit))
  <2>1. /\ path \in Paths /\ path[1] = b.at
        /\ b.at = "mine" /\ c.kind \notin Singles => Body(path) = PageOf(c.kind, b.limit)
    BY <1>1, <1>2, PathIsKnown DEF path
  <2>2. Body(path) \in Seq(DataRows) /\ (b.at = "mine" => Agreed(Body(path)))
    BY <2>1, BodyType
  <2>3. /\ b.net \in NamedOrAny /\ b.public \in Seq(DataRows) /\ b.owned \in Seq(DataRows)
        /\ b.at \in {"public", "mine"} /\ b.limit \in Limits
    BY <1>1, <1>2 DEF Branches
  <2>4. b = [at |-> b.at, net |-> b.net, limit |-> b.limit, public |-> b.public, owned |-> b.owned]
    BY <1>2 DEF Branches
  <2>5. Agreed(b.owned) /\ (~Authenticated => b.at # "mine" /\ b.owned = <<>>)
    BY <1>2 DEF Fits, b
  <2>6. CASE d \in {[b EXCEPT !.at = "denied"], [b EXCEPT !.at = "down"]}
    BY <2>3, <2>4, <2>5, <2>6 DEF Branches
  <2>7. CASE d = Answered(c.kind, b, Body(path)) /\ b.at = "public"
    <3>1. PICK next \in {"mine", "done"} :
            d = [b EXCEPT !.public = Body(path), !.at = next] /\ (next = "mine" => Authenticated)
            /\ (Authenticated /\ c.kind \notin Singles => next = "mine")
      BY <2>7 DEF Answered
    <3>. QED BY <2>2, <2>3, <2>4, <2>5, <3>1 DEF Branches
  <2>8. CASE d = Answered(c.kind, b, Body(path)) /\ b.at = "mine"
    <3>1. d = [b EXCEPT !.owned = Body(path), !.at = "done"]
      BY <2>8 DEF Answered
    <3>. QED BY <2>1, <2>2, <2>3, <2>4, <2>5, <2>8, <3>1 DEF Branches
  <2>. QED BY <1>3, <2>3, <2>6, <2>7, <2>8
<1>. DEFINE e == [c EXCEPT !.branches = [c.branches EXCEPT ![i] = d]]
<1>5. call' = [call EXCEPT ![s] = e]
  BY <1>1, <1>3 DEF c
<1>6. e \in Calls /\ CallFits(e) /\ SameCall(c, e)
  <2>. DEFINE ds == [c.branches EXCEPT ![i] = d]
  <2>1. ds \in Seq(Branches) /\ Len(ds) = Len(c.branches) /\ DOMAIN ds = DOMAIN c.branches
    <3>. DEFINE bs == c.branches
    <3>1. bs \in Seq(Branches) /\ i \in 1 .. Len(bs) /\ d \in Branches /\ DOMAIN bs = 1 .. Len(bs)
      BY <1>1, <1>2, <1>4
    <3>. HIDE DEF bs
    <3>2. [bs EXCEPT ![i] = d] \in Seq(Branches) /\ Len([bs EXCEPT ![i] = d]) = Len(bs)
      BY <3>1, ExceptSeq
    <3>3. DOMAIN [bs EXCEPT ![i] = d] = DOMAIN bs
      OBVIOUS
    <3>. QED BY <3>2, <3>3 DEF bs
  <2>2. \A j \in DOMAIN ds : ds[j] = IF j = i THEN d ELSE c.branches[j]
    BY <1>2
  <2>. HIDE DEF ds
  <2>3. e \in Calls /\ e.kind = c.kind /\ e.arg = c.arg /\ e.scope = c.scope /\ e.branches = ds
        /\ e.pc = c.pc /\ e.rows = c.rows
    BY <1>1, <2>1 DEF Calls, ds
  <2>. HIDE DEF e
  <2>4. ASSUME NEW j \in DOMAIN e.branches PROVE Fits(e, j)
    <3>1. j \in DOMAIN c.branches /\ Fits(c, j) /\ e.branches[j] = IF j = i THEN d ELSE c.branches[j]
      BY <1>1, <2>1, <2>2, <2>3 DEF Opened
    <3>2. CASE j = i
      BY <1>4, <2>3, <3>1, <3>2 DEF Fits, b
    <3>3. CASE j # i
      BY <2>3, <3>1, <3>3 DEF Fits
    <3>. QED BY <3>2, <3>3
  <2>5. Opened(e)
    BY <1>1, <2>1, <2>3, <2>4 DEF Opened
  <2>. QED BY <1>1, <2>3, <2>5 DEF CallFits, SameCall
<1>. HIDE DEF e
<1>7. DOMAIN call' = Slots /\ \A x \in Slots : call'[x] = IF x = s THEN e ELSE call[x]
  BY <1>1, <1>5
<1>8. \A x : CallFits(x) => CallFits(x)'
  BY <1>1 DEF CallFits, Opened, Settled, Fits, Authenticated, Denied
<1>9. CallInv'
  BY <1>6, <1>7, <1>8 DEF CallInv
<1>. QED BY <1>1, <1>6, <1>7, <1>9 DEF SameCall, c

LEMMA SettleKeeps ==
  ASSUME CallInv, NEW s \in Slots, Settle(s)
  PROVE  CallInv' /\ credential' = credential /\ \A x \in Slots : SameCall(call[x], call'[x])
<1>. DEFINE c == call[s]
<1>1. /\ c \in Calls /\ c.pc = "reading" /\ Opened(c) /\ DOMAIN call = Slots /\ credential' = credential
      /\ c.rows = <<>>
  BY DEF CallInv, CallFits, Settle, Opened
<1>2. PICK d : /\ call' = [call EXCEPT ![s] = d]
               /\ \/ d = [c EXCEPT !.pc = "settled", !.from = "fixture", !.rows = Fixtures(c)]
                  \/ /\ c.kind # "scoped" /\ c.branches[1].at # "done" /\ Over(c.branches[1])
                     /\ d = Guarded(c, c.branches[1].at)
                  \/ /\ c.kind # "scoped" => c.branches[1].at = "done"
                     /\ d = [c EXCEPT !.pc = "settled", !.from = "live", !.rows = Found(c)]
  <2>1. ASSUME \A i \in DOMAIN c.branches : Over(c.branches[i]), c.kind # "scoped" PROVE Over(c.branches[1])
    <3>1. 1 \in DOMAIN c.branches
      BY <1>1, <2>1 DEF Opened, Calls
    <3>. QED BY <2>1, <3>1
  <2>. QED BY <2>1 DEF Settle
<1>. HIDE DEF c
<1>. DEFINE Answer2(from, rs) == [c EXCEPT !.pc = "settled", !.from = from, !.rows = rs]
<1>3. ASSUME NEW from \in {"live", "fixture", "fixtures", "error"}, NEW rs \in Seq(DataRows)
      PROVE  /\ Answer2(from, rs) \in Calls /\ SameCall(c, Answer2(from, rs))
             /\ Answer2(from, rs).from = from /\ Answer2(from, rs).rows = rs /\ Answer2(from, rs).pc = "settled"
             /\ Answer2(from, rs).branches = c.branches
  BY <1>1 DEF Calls, SameCall
<1>4. ASSUME NEW from \in {"live", "fixture", "fixtures", "error"}, NEW rs \in Seq(DataRows),
             from = "error" => rs = <<>>, Denied(c) => from # "fixtures",
             c.kind \in {"data", "search", "scoped"} => ListedOnce(rs),
             c.kind = "data" => RowsWithin(rs, {c.arg}), c.kind = "scoped" => RowsWithin(rs, ToSet(c.scope)),
             from = "live" /\ Authenticated => OwnedLeads(c, rs)
      PROVE  Answer2(from, rs) \in Calls /\ CallFits(Answer2(from, rs)) /\ SameCall(c, Answer2(from, rs))
  <2>. DEFINE e == Answer2(from, rs)
  <2>. HIDE DEF Answer2
  <2>0. /\ e \in Calls /\ SameCall(c, e) /\ e.from = from /\ e.rows = rs /\ e.pc = "settled"
        /\ e.branches = c.branches
    BY <1>3
  <2>. HIDE DEF e
  <2>1. /\ e \in Calls /\ SameCall(c, e) /\ e.from = from /\ e.rows = rs /\ e.pc = "settled"
        /\ e.branches = c.branches
        /\ e.kind = c.kind /\ e.arg = c.arg /\ e.scope = c.scope
    BY <2>0 DEF SameCall
  <2>2. Opened(e)
    BY <1>1, <2>1 DEF Opened, Fits
  <2>3. Denied(e) <=> Denied(c)
    BY <2>1 DEF Denied
  <2>4. OwnedLeads(c, rs) => OwnedLeads(e, rs)
    BY <2>1 DEF OwnedLeads
  <2>5. Settled(e)
    BY <1>4, <2>1, <2>3, <2>4, Zenon DEF Settled
  <2>. QED BY <2>1, <2>2, <2>5, Zenon DEF CallFits, e
<1>5. c.kind \in CallKinds
  BY <1>1 DEF Opened
<1>6. d \in Calls /\ CallFits(d) /\ SameCall(c, d)
  <2>1. CASE d = [c EXCEPT !.pc = "settled", !.from = "fixture", !.rows = Fixtures(c)]
    <3>1. d = Answer2("fixture", Fixtures(c))
      BY <2>1
    <3>. HIDE DEF Answer2
    <3>. QED BY <1>1, <1>4, <1>5, <3>1, FixturesType
  <2>2. CASE /\ c.kind # "scoped" => c.branches[1].at = "done"
             /\ d = [c EXCEPT !.pc = "settled", !.from = "live", !.rows = Found(c)]
    <3>1. d = Answer2("live", Found(c))
      BY <2>2
    <3>2. Authenticated => OwnedLeads(c, Found(c))
      BY <1>1, <2>2, FoundOwnedFirst
    <3>. HIDE DEF Answer2
    <3>. QED BY <1>1, <1>4, <1>5, <3>1, <3>2, FoundType
  <2>3. CASE /\ c.kind # "scoped" /\ c.branches[1].at # "done" /\ Over(c.branches[1])
             /\ d = Guarded(c, c.branches[1].at)
    <3>1. CASE c.branches[1].at = "denied"
      <4>1. d = Answer2("error", <<>>)
        BY <1>1, <2>3, <3>1 DEF Guarded, Calls
      <4>2. <<>> \in Seq(DataRows) /\ ListedOnce(<<>>) /\ \A where : RowsWithin(<<>>, where)
        BY EmptySeq DEF ListedOnce, RowsWithin
      <4>. HIDE DEF Answer2
      <4>. QED BY <1>4, <4>1, <4>2
    <3>2. CASE c.branches[1].at = "down"
      <4>1. d = Answer2("fixtures", Fixtures(c))
        BY <2>3, <3>2 DEF Guarded
      <4>2. ~Denied(c)
        <5>1. DOMAIN c.branches = {1}
          BY <1>1, <2>3 DEF Opened, Calls
        <5>. QED BY <3>2, <5>1 DEF Denied
      <4>. HIDE DEF Answer2
      <4>. QED BY <1>1, <1>4, <1>5, <4>1, <4>2, FixturesType
    <3>. QED BY <2>3, <3>1, <3>2 DEF Over
  <2>. QED BY <1>2, <2>1, <2>2, <2>3
<1>7. DOMAIN call' = Slots /\ \A x \in Slots : call'[x] = IF x = s THEN d ELSE call[x]
  BY <1>1, <1>2
<1>8. \A x : CallFits(x) => CallFits(x)'
  BY <1>1 DEF CallFits, Opened, Settled, Fits, Authenticated, Denied
<1>9. CallInv'
  BY <1>6, <1>7, <1>8 DEF CallInv
<1>. QED BY <1>1, <1>6, <1>7, <1>9 DEF SameCall, c

(***************************************************************************)
(* The evidence of a run.                                                   *)
(***************************************************************************)
Items == DataRows \cup {WebPage}

Fresh(ev, got) == {x \in ToSet(got) : IndexOf(ev, x) = {}}

LEMMA AddedRows ==
  ASSUME NEW ev \in Seq(Items), ListedOnce(ev), NEW got \in Seq(Items)
  PROVE  /\ Added(ev, got) \in Seq(Items) /\ ListedOnce(Added(ev, got)) /\ InFront(ev, Added(ev, got))
         /\ \A i \in DOMAIN got : \E j \in DOMAIN Added(ev, got) : Added(ev, got)[j].id = got[i].id
         /\ \A j \in DOMAIN Added(ev, got) :
              j \notin DOMAIN ev => \E i \in DOMAIN got : Added(ev, got)[j] = got[i]
<1>. DEFINE only == Only(got, Fresh(ev, got))
            new == DedupeById(only)
            F == Items \cap Fresh(ev, got)
<1>1. only \in Seq(F)
  BY OnlyKept
<1>2. new \in Seq(F) /\ ListedOnce(new)
  <2>. HIDE DEF only, F
  <2>. QED BY <1>1, DedupedOnce
<1>3. \A x \in F : IndexOf(ev, x) = {} /\ x \in Items /\ \E i \in DOMAIN got : x = got[i]
  BY DEF Fresh, ToSet
<1>4. Added(ev, got) = ev \o new
  BY DEF Added, Fresh
<1>5. \A i \in DOMAIN got : got[i] \in Fresh(ev, got) => \E k \in DOMAIN new : new[k].id = got[i].id
  <2>1. ASSUME NEW i \in DOMAIN got, got[i] \in Fresh(ev, got) PROVE \E k \in DOMAIN new : new[k].id = got[i].id
    <3>1. PICK k \in DOMAIN only : only[k] = got[i]
      BY <2>1, OnlyHas
    <3>. HIDE DEF only, F
    <3>2. \E l \in DOMAIN DedupeById(only) : DedupeById(only)[l].id = only[k].id
      BY <1>1, DedupeHas
    <3>. QED BY <3>1, <3>2
  <2>. QED BY <2>1
<1>. HIDE DEF new, F, only
<1>. DEFINE all == ev \o new
            n == Len(ev)
<1>6. /\ all \in Seq(Items) /\ Len(all) = n + Len(new) /\ n \in Nat /\ Len(new) \in Nat
      /\ DOMAIN all = 1 .. Len(all) /\ DOMAIN ev = 1 .. n /\ DOMAIN new = 1 .. Len(new)
      /\ \A i \in DOMAIN ev : all[i] = ev[i] /\ i \in DOMAIN all
      /\ \A k \in DOMAIN new : n + k \in DOMAIN all /\ all[n + k] = new[k]
      /\ \A i \in DOMAIN all : i \in DOMAIN ev \/ (i - n \in DOMAIN new /\ all[i] = new[i - n])
  <2>1. new \in Seq(Items)
    <3>1. F \subseteq Items
      BY <1>3
    <3>. QED BY <1>2, <3>1, PartOf
  <2>2. /\ all \in Seq(Items) /\ Len(all) = n + Len(new)
        /\ \A i \in 1 .. Len(ev) + Len(new) : all[i] = IF i <= Len(ev) THEN ev[i] ELSE new[i - Len(ev)]
    BY <2>1, ConcatProperties
  <2>3. /\ n \in Nat /\ Len(new) \in Nat /\ DOMAIN ev = 1 .. n /\ DOMAIN new = 1 .. Len(new)
        /\ DOMAIN all = 1 .. Len(all)
    BY <2>1, <2>2
  <2>. HIDE DEF all
  <2>4. \A i \in DOMAIN ev : all[i] = ev[i] /\ i \in DOMAIN all
    <3>. HIDE DEF n
    <3>1. n = Len(ev)
      BY DEF n
    <3>. QED BY <2>2, <2>3, <3>1
  <2>5. ASSUME NEW k \in DOMAIN new PROVE n + k \in DOMAIN all /\ all[n + k] = new[k]
    <3>. HIDE DEF n
    <3>. DEFINE i == n + k
    <3>1. n = Len(ev) /\ k \in Nat /\ i \in 1 .. n + Len(new) /\ ~(i <= n) /\ i - n = k
      BY <2>3 DEF n
    <3>. HIDE DEF i
    <3>2. all[i] = new[k] /\ i \in DOMAIN all
      BY <2>2, <2>3, <3>1
    <3>. QED BY <3>2 DEF i
  <2>6. \A i \in DOMAIN all : i \in DOMAIN ev \/ (i - n \in DOMAIN new /\ all[i] = new[i - n])
    <3>. HIDE DEF n
    <3>1. n = Len(ev)
      BY DEF n
    <3>. QED BY <2>2, <2>3, <3>1
  <2>. QED BY <2>2, <2>3, <2>4, <2>5, <2>6
<1>7. \A k \in DOMAIN new : new[k] \in F
  BY <1>2
<1>. HIDE DEF all, n
<1>8. ListedOnce(all)
  <2>1. \A i \in DOMAIN ev : \A k \in DOMAIN new : ev[i].id # new[k].id
    BY <1>3, <1>7 DEF IndexOf
  <2>2. ASSUME NEW i \in DOMAIN all, NEW j \in DOMAIN all, all[i].id = all[j].id PROVE i = j
    <3>1. CASE i \in DOMAIN ev /\ j \in DOMAIN ev
      BY <1>6, <2>2, <3>1 DEF ListedOnce
    <3>2. CASE i \in DOMAIN ev /\ j \notin DOMAIN ev
      BY <1>6, <2>1, <2>2, <3>2
    <3>3. CASE i \notin DOMAIN ev /\ j \in DOMAIN ev
      BY <1>6, <2>1, <2>2, <3>3
    <3>4. CASE i \notin DOMAIN ev /\ j \notin DOMAIN ev
      <4>1. i - n \in DOMAIN new /\ j - n \in DOMAIN new /\ new[i - n].id = new[j - n].id
        BY <1>6, <2>2, <3>4
      <4>2. i - n = j - n
        BY <1>2, <4>1 DEF ListedOnce
      <4>. QED BY <1>6, <4>2
    <3>. QED BY <3>1, <3>2, <3>3, <3>4
  <2>. QED BY <2>2 DEF ListedOnce
<1>9. InFront(ev, all)
  BY <1>6 DEF InFront, n
<1>10. ASSUME NEW i \in DOMAIN got PROVE \E j \in DOMAIN all : all[j].id = got[i].id
  <2>1. CASE got[i] \in Fresh(ev, got)
    BY <1>5, <1>6, <2>1
  <2>2. CASE got[i] \notin Fresh(ev, got)
    <3>1. PICK j \in DOMAIN ev : ev[j].id = got[i].id
      BY <2>2 DEF Fresh, ToSet, IndexOf
    <3>. QED BY <1>6, <3>1
  <2>. QED BY <2>1, <2>2
<1>11. \A j \in DOMAIN all : j \notin DOMAIN ev => \E i \in DOMAIN got : all[j] = got[i]
  BY <1>3, <1>6, <1>7
<1>12. Added(ev, got) = all /\ all \in Seq(Items)
  BY <1>4, <1>6, Zenon DEF all
<1>. QED BY <1>8, <1>9, <1>10, <1>11, <1>12, Zenon

LEMMA RecordedAt ==
  ASSUME NEW ev \in Seq(Items), ListedOnce(ev), NEW got \in Seq(Items)
  PROVE  /\ Record(ev, got).rows = Added(ev, got)
         /\ \A i \in DOMAIN got : /\ Record(ev, got).refs[i] \in Nat
                                  /\ Record(ev, got).refs[i] + 1 \in DOMAIN Added(ev, got)
                                  /\ Added(ev, got)[Record(ev, got).refs[i] + 1].id = got[i].id
<1>. DEFINE all == Added(ev, got)
            j(i) == CHOOSE j \in IndexOf(all, got[i]) : TRUE
<1>1. Record(ev, got).rows = all /\ \A i \in DOMAIN got : Record(ev, got).refs[i] = j(i) - 1
  BY DEF Record
<1>. HIDE DEF all
<1>2. all \in Seq(Items) /\ DOMAIN all = 1 .. Len(all) /\ Len(all) \in Nat
  <2>1. all \in Seq(Items)
    BY AddedRows DEF all
  <2>. QED BY <2>1
<1>3. ASSUME NEW i \in DOMAIN got PROVE j(i) \in DOMAIN all /\ all[j(i)].id = got[i].id
  <2>1. IndexOf(all, got[i]) # {}
    BY AddedRows DEF IndexOf, all
  <2>2. j(i) \in IndexOf(all, got[i])
    BY <2>1
  <2>. QED BY <2>2 DEF IndexOf
<1>. HIDE DEF j
<1>. QED BY <1>1, <1>2, <1>3 DEF all

(* The first rows that a run records keep the places they came in.          *)
LEMMA FirstRecorded ==
  ASSUME NEW got \in Seq(Items), ListedOnce(got), NEW i \in DOMAIN got
  PROVE  Record(<<>>, got).refs[i] = i - 1
<1>. DEFINE fresh == Fresh(<<>>, got)
<1>1. fresh = ToSet(got)
  BY DEF Fresh, IndexOf
<1>2. DOMAIN got = 1 .. Len(got) /\ Len(got) \in Nat
  OBVIOUS
<1>3. Kept(got, fresh) = DOMAIN got
  BY <1>1 DEF Kept, ToSet
<1>4. Only(got, fresh) = Arranged(got, DOMAIN got, AsTheyCame(got))
  BY <1>3 DEF Only, Kept
<1>. HIDE DEF fresh
<1>5. Weighed(DOMAIN got, AsTheyCame(got))
  BY DomainWeighed
<1>6. ASSUME NEW k \in 1 .. Len(got) PROVE Only(got, fresh)[k] = got[k]
  <2>1. k \in DOMAIN got /\ 1 .. k \subseteq DOMAIN got
    BY <1>2
  <2>2. Position(DOMAIN got, AsTheyCame(got), k) = k
    BY <2>1, PlaceStays
  <2>3. Arranged(got, DOMAIN got, AsTheyCame(got))[Position(DOMAIN got, AsTheyCame(got), k)] = got[k]
    BY <1>5, <2>1, RowsInPosition
  <2>. QED BY <1>4, <2>2, <2>3
<1>7. Only(got, fresh) \in Seq(Items) /\ Len(Only(got, fresh)) = Len(got)
  <2>1. \A k \in DOMAIN got : got[k] \in Items
    OBVIOUS
  <2>2. /\ Arranged(got, DOMAIN got, AsTheyCame(got)) \in Seq(Items)
        /\ Len(Arranged(got, DOMAIN got, AsTheyCame(got))) = Cardinality(DOMAIN got)
    BY <1>5, <2>1, ArrangedType
  <2>3. Cardinality(DOMAIN got) = Len(got)
    BY <1>2, FiniteUpto
  <2>. QED BY <1>4, <2>2, <2>3
<1>8. Only(got, fresh) = got
  BY <1>6, <1>7, SeqEqual
<1>9. InFront(got, DedupeById(got))
  <2>1. <<>> \in Seq(Items) /\ got \o <<>> = got
    BY EmptySeq, ConcatEmptySeq
  <2>2. InFront(got, DedupeById(got \o <<>>))
    BY <2>1, DedupedInFront
  <2>. QED BY <2>1, <2>2
<1>10. Added(<<>>, got) = DedupeById(got)
  <2>1. DedupeById(got) \in Seq(Items)
    BY DedupedOnce
  <2>2. <<>> \o DedupeById(got) = DedupeById(got)
    BY <2>1, ConcatEmptySeq
  <2>. QED BY <1>8, <2>2 DEF Added, fresh, Fresh
<1>11. <<>> \in Seq(Items) /\ ListedOnce(<<>>)
  BY EmptySeq DEF ListedOnce
<1>. DEFINE ref == Record(<<>>, got).refs[i]
<1>12. ref \in Nat /\ ref + 1 \in DOMAIN DedupeById(got) /\ DedupeById(got)[ref + 1].id = got[i].id
  BY <1>10, <1>11, RecordedAt
<1>. HIDE DEF ref
<1>13. i \in DOMAIN DedupeById(got) /\ DedupeById(got)[i] = got[i] /\ ListedOnce(DedupeById(got))
  <2>1. DedupeById(got) \in Seq(Items) /\ ListedOnce(DedupeById(got))
    BY DedupedOnce
  <2>. QED BY <1>2, <1>9, <2>1 DEF InFront
<1>14. ref + 1 = i
  BY <1>12, <1>13 DEF ListedOnce
<1>. QED BY <1>2, <1>12, <1>14 DEF ref

(***************************************************************************)
(* The invariant of a run.                                                  *)
(***************************************************************************)
Claims == [cited : SUBSET Items, evidence : SUBSET Items]
ToolLists == Toolsets \cup Seq(Registered)

Runs ==
  [pc : {"begin", "loop", "model", "tools", "final", "failed", "completed"}, step : Nat, vendor : VendorNames,
   scope : Seq(Named), tools : ToolLists, aborted : BOOLEAN, claim : Claims]

DataTools == {"reppo_list_datanets", "reppo_search_data", "reppo_get_datanet_data"}
ToolNames == Registered \cup DataTools \cup {"compute_evidence_stats", "http_get", "unknown"}
ToolStates == {NoTool} \cup [pc : {"asked", "reading", "ended"}, name : ToolNames, net : NamedOrAny]

Notes == [ref : Nat, item : Items, place : Nat]

(* A tool reads what the scope of the job lets it read.                     *)
Aimed(s) ==
  /\ call[s].pc # "none" /\ tool[s].name \in DataTools
  /\ tool[s].name = "reppo_search_data" =>
       IF run.scope = <<>> THEN call[s].kind \in {"search", "scoped"}
       ELSE call[s].kind = "scoped" /\ call[s].scope = run.scope
  /\ tool[s].name = "reppo_get_datanet_data" => call[s].kind = "data" /\ InScope(call[s].arg)

RunInv ==
  /\ run \in Runs
  /\ run.pc = "begin" => run.tools \in Toolsets
  /\ run.pc \in {"loop", "model", "tools", "final"} => run.tools \in Seq(Registered) /\ run.tools # <<>>

ToolInv ==
  /\ DOMAIN tool = Slots
  /\ \A s \in Slots : tool[s] \in ToolStates /\ (tool[s].pc = "reading" => Aimed(s))

(* A note tells of the row at its ref, and there is one of every row.       *)
Told(ev, notes) ==
  /\ notes \subseteq Notes
  /\ \A n \in notes : n.ref + 1 \in DOMAIN ev /\ ev[n.ref + 1].id = n.item.id
  /\ \A i \in DOMAIN ev : \E n \in notes : n.ref + 1 = i

EvidenceInv == evidence \in Seq(Items) /\ ListedOnce(evidence) /\ EvidenceInScope /\ Told(evidence, shown)

Unanswered(s) == tool[s].pc \in {"asked", "reading"}

(* The mock asks for one tool until it has been shown rows, so the places   *)
(* that it counts are the refs.                                             *)
PlacesAreRefs == \A n \in shown : n.place = n.ref
MockInv ==
  run.vendor = "mock" =>
    /\ \A x, y \in Slots : Unanswered(x) /\ Unanswered(y) => x = y
    /\ \A x \in Slots : Unanswered(x) => shown = {}
    /\ PlacesAreRefs

AgentInv == CallInv /\ RunInv /\ ToolInv /\ EvidenceInv /\ MockInv /\ ClaimsCiteWhatWasRead

LEMMA NoClaimType == NoClaim \in Claims /\ IdsOf(NoClaim.evidence) = IdsOf(NoClaim.cited)
BY DEF NoClaim, Claims, IdsOf

LEMMA StartedFits ==
  ASSUME NEW v \in VendorNames, NEW w \in Seq(Named), NEW t \in ToolLists
  PROVE  /\ Started(v, w, t) \in Runs /\ Started(v, w, t).pc = "begin" /\ Started(v, w, t).tools = t
         /\ Started(v, w, t).claim = NoClaim
BY NoClaimType DEF Started, Runs

LEMMA WithoutRun ==
  ASSUME NEW r \in Runs
  PROVE  /\ [r EXCEPT !.pc = "completed"] \in Runs /\ [r EXCEPT !.pc = "completed"].pc = "completed"
         /\ [r EXCEPT !.pc = "completed"].claim = r.claim
BY DEF Runs

LEMMA NothingTold ==
  ASSUME evidence = <<>>, shown = {}, tool = [s \in Slots |-> NoTool]
  PROVE  EvidenceInv /\ MockInv /\ ToolInv
<1>1. <<>> \in Seq(Items) /\ ListedOnce(<<>>) /\ DOMAIN <<>> = {}
  BY EmptySeq DEF ListedOnce
<1>2. \A s \in Slots : tool[s] = NoTool /\ NoTool.pc = "none"
  BY DEF NoTool
<1>3. EvidenceInv
  BY <1>1 DEF EvidenceInv, EvidenceInScope, Told
<1>4. ToolInv
  BY <1>2 DEF ToolInv, ToolStates
<1>5. MockInv
  BY <1>2 DEF MockInv, Unanswered, PlacesAreRefs
<1>. QED BY <1>3, <1>4, <1>5

LEMMA AgentStarts == AgentInit \/ LookupInit => AgentInv
<1>1. CASE AgentInit
  <2>1. PICK v \in VendorNames, w \in Scopes, t \in Toolsets : run = Started(v, w, t)
    BY <1>1 DEF AgentInit
  <2>2. w \in Seq(Named) /\ t \in ToolLists
    BY AgentAssumption DEF ToolLists
  <2>3. run \in Runs /\ run.pc = "begin" /\ run.tools \in Toolsets /\ run.claim = NoClaim
    <3>1. /\ Started(v, w, t) \in Runs /\ Started(v, w, t).pc = "begin" /\ Started(v, w, t).tools = t
          /\ Started(v, w, t).claim = NoClaim
      BY <2>1, <2>2, StartedFits
    <3>. QED BY <2>1, <3>1, Zenon
  <2>4. RunInv /\ ClaimsCiteWhatWasRead
    BY <2>3, NoClaimType DEF RunInv, ClaimsCiteWhatWasRead
  <2>5. call = [s \in Slots |-> NoCall]
    BY <1>1 DEF AgentInit
  <2>6. CallInv
    BY <2>5, NothingCalled DEF CallInv
  <2>. QED BY <1>1, <2>4, <2>6, NothingTold DEF AgentInit, AgentInv
<1>2. CASE LookupInit
  <2>1. PICK q \in [Slots -> Lookups] : call = [s \in Slots |-> Called(q[s].kind, q[s].arg, <<>>)]
    BY <1>2 DEF LookupInit
  <2>2. \A s \in Slots : q[s].kind \in CallKinds /\ q[s].arg \in NamedOrAny
    BY <2>1, ReppoAssumption DEF CallKinds, NamedOrAny
  <2>3. <<>> \in Seq(Named) /\ <<>> \in ToolLists /\ "mock" \in VendorNames
    BY EmptySeq DEF ToolLists, VendorNames
  <2>4. \A s \in Slots : call[s] \in Calls /\ CallFits(call[s])
    BY <2>1, <2>2, <2>3, OpenedByCall
  <2>5. CallInv
    BY <2>1, <2>4 DEF CallInv
  <2>6. run = [Started("mock", <<>>, <<>>) EXCEPT !.pc = "completed"]
    BY <1>2 DEF LookupInit
  <2>7. run \in Runs /\ run.pc = "completed" /\ run.claim = NoClaim
    <3>. DEFINE r == Started("mock", <<>>, <<>>)
    <3>1. r \in Runs /\ r.claim = NoClaim
      BY <2>3, StartedFits
    <3>2. run = [r EXCEPT !.pc = "completed"]
      BY <2>6
    <3>. HIDE DEF r
    <3>. QED BY <3>1, <3>2, WithoutRun
  <2>8. RunInv /\ ClaimsCiteWhatWasRead
    BY <2>7, NoClaimType DEF RunInv, ClaimsCiteWhatWasRead
  <2>. QED BY <1>2, <2>5, <2>8, NothingTold DEF LookupInit, AgentInv
<1>. QED BY <1>1, <1>2

(***************************************************************************)
(* Steps of the run.                                                        *)
(***************************************************************************)
LEMMA NetworkKeeps ==
  ASSUME AgentInv, Network \/ \E path \in cache : Expire(path), UNCHANGED <<run, evidence, shown, tool>>
  PROVE  AgentInv'
<1>1. CallInv' /\ \A x \in Slots : SameCall(call[x], call'[x])
  <2>1. CASE Network
    <3>1. PICK s \in Slots : (\E i \in DOMAIN call[s].branches : Read(s, i)) \/ Settle(s)
      BY <2>1 DEF Network
    <3>2. CASE Settle(s)
      BY <3>2, SettleKeeps DEF AgentInv
    <3>3. CASE \E i \in DOMAIN call[s].branches : Read(s, i)
      BY <3>3, ReadKeeps DEF AgentInv
    <3>. QED BY <3>1, <3>2, <3>3
  <2>2. CASE \E path \in cache : Expire(path)
    <3>1. call' = call /\ credential' = credential
      BY <2>2 DEF Expire
    <3>2. CallInv'
      <4>1. \A x : CallFits(x) => CallFits(x)'
        BY <3>1 DEF CallFits, Opened, Settled, Fits, Authenticated, Denied
      <4>. QED BY <3>1, <4>1 DEF AgentInv, CallInv
    <3>. QED BY <3>1, <3>2 DEF SameCall
  <2>. QED BY <2>1, <2>2
<1>2. RunInv' /\ EvidenceInv' /\ MockInv' /\ ClaimsCiteWhatWasRead'
  BY DEF AgentInv, RunInv, EvidenceInv, EvidenceInScope, InScope, MockInv, PlacesAreRefs, Unanswered,
     ClaimsCiteWhatWasRead
<1>3. \A s \in Slots : Aimed(s) => Aimed(s)'
  BY <1>1 DEF Aimed, InScope, SameCall
<1>4. ToolInv'
  BY <1>3 DEF AgentInv, ToolInv
<1>. QED BY <1>1, <1>2, <1>4 DEF AgentInv

SameWork == run'.scope = run.scope /\ run'.vendor = run.vendor /\ run'.claim = run.claim

LEMMA CallsUnmoved ==
  ASSUME CallInv, UNCHANGED <<call, credential>>
  PROVE  CallInv'
<1>1. \A x : CallFits(x) => CallFits(x)'
  BY DEF CallFits, Opened, Settled, Fits, Authenticated, Denied
<1>. QED BY <1>1 DEF CallInv

LEMMA EvidenceUnmoved ==
  ASSUME EvidenceInv, UNCHANGED <<evidence, shown>>, run'.scope = run.scope
  PROVE  EvidenceInv'
BY DEF EvidenceInv, EvidenceInScope, InScope

LEMMA RunMoved ==
  ASSUME AgentInv, UNCHANGED <<reppoVars, evidence, shown>>, SameWork
  PROVE  /\ CallInv' /\ EvidenceInv' /\ ClaimsCiteWhatWasRead' /\ (PlacesAreRefs => PlacesAreRefs')
         /\ tool' = tool => ToolInv' /\ MockInv'
<1>1. CallInv' /\ EvidenceInv'
  BY CallsUnmoved, EvidenceUnmoved DEF AgentInv, reppoVars, SameWork
<1>2. ClaimsCiteWhatWasRead' /\ (PlacesAreRefs => PlacesAreRefs')
  BY DEF AgentInv, ClaimsCiteWhatWasRead, SameWork, PlacesAreRefs
<1>3. ASSUME tool' = tool PROVE ToolInv' /\ MockInv'
  <2>1. \A s \in Slots : Aimed(s) => Aimed(s)'
    BY <1>3 DEF Aimed, InScope, SameWork, reppoVars
  <2>2. ToolInv'
    BY <1>3, <2>1 DEF AgentInv, ToolInv
  <2>3. MockInv'
    BY <1>2, <1>3 DEF AgentInv, MockInv, SameWork, Unanswered
  <2>. QED BY <2>2, <2>3
<1>. QED BY <1>1, <1>2, <1>3

RunStates == {"begin", "loop", "model", "tools", "final", "failed", "completed"}

LEMMA Goes ==
  ASSUME run \in Runs, NEW p \in RunStates, Go(p)
  PROVE  run' \in Runs /\ run'.pc = p /\ run'.tools = run.tools /\ SameWork
BY DEF Runs, Go, SameWork, RunStates

(* What the model is asked to go on with.                                   *)
Busy == {"loop", "model", "tools", "final"}

LEMMA GoesOn ==
  ASSUME RunInv, NEW p \in Busy \cup {"failed"}, Go(p), run.pc \in Busy
  PROVE  RunInv' /\ run'.pc = p /\ SameWork
<1>1. run' \in Runs /\ run'.pc = p /\ run'.tools = run.tools /\ SameWork
  BY Goes DEF RunInv, Busy, RunStates
<1>. QED BY <1>1 DEF RunInv, Busy

LEMMA BeginKeeps == ASSUME AgentInv, Begin PROVE AgentInv'
<1>1. run \in Runs /\ run.tools \in Toolsets
  BY DEF AgentInv, RunInv, Begin, At
<1>2. Select(run.tools) \in Seq(Registered)
  <2>1. run.tools \in Seq(ToSet(run.tools))
    BY <1>1, AgentAssumption
  <2>2. Select(run.tools) \in Seq(ToSet(run.tools) \cap Registered)
    BY <2>1, OnlyKept DEF Select
  <2>. QED BY <2>2
<1>3. PICK p \in {"failed", "loop"} :
        /\ run' = [run EXCEPT !.tools = Select(run.tools), !.pc = p]
        /\ p = "loop" => Select(run.tools) # <<>>
  BY DEF Begin
<1>4. run' \in Runs /\ run'.pc = p /\ run'.tools = Select(run.tools) /\ SameWork
  <2>. DEFINE t == Select(run.tools)
  <2>1. t \in ToolLists
    BY <1>2 DEF ToolLists
  <2>. HIDE DEF t
  <2>2. run' = [run EXCEPT !.tools = t, !.pc = p]
    BY <1>3 DEF t
  <2>3. run' \in Runs /\ run'.pc = p /\ run'.tools = t /\ SameWork
    BY <1>1, <2>1, <2>2 DEF Runs, SameWork
  <2>. QED BY <2>3 DEF t
<1>5. RunInv'
  BY <1>2, <1>3, <1>4 DEF RunInv
<1>. QED BY <1>4, <1>5, RunMoved DEF Begin, AgentInv

LEMMA AbortKeeps == ASSUME AgentInv, Abort PROVE AgentInv'
<1>1. run \in Runs /\ run' = [run EXCEPT !.aborted = TRUE]
  BY DEF AgentInv, RunInv, Abort
<1>2. run' \in Runs /\ run'.pc = run.pc /\ run'.tools = run.tools /\ SameWork
  BY <1>1 DEF Runs, SameWork
<1>3. RunInv'
  BY <1>2 DEF AgentInv, RunInv
<1>. QED BY <1>2, <1>3, RunMoved DEF Abort, AgentInv

LEMMA LoopHeadKeeps == ASSUME AgentInv, LoopHead PROVE AgentInv'
<1>1. PICK p \in {"final", "failed", "model"} : Go(p)
  BY DEF LoopHead
<1>2. RunInv' /\ SameWork
  BY <1>1, GoesOn DEF AgentInv, Busy, LoopHead, At
<1>. QED BY <1>2, RunMoved DEF LoopHead, AgentInv

LEMMA TurnEndsKeeps == ASSUME AgentInv, TurnEnds PROVE AgentInv'
<1>1. run \in Runs /\ run' = [run EXCEPT !.pc = "loop", !.step = @ + 1] /\ run.pc = "tools"
  BY DEF AgentInv, RunInv, TurnEnds, At
<1>2. run' \in Runs /\ run'.pc = "loop" /\ run'.tools = run.tools /\ SameWork
  <2>. DEFINE n == run.step + 1
  <2>1. n \in Nat /\ run' = [run EXCEPT !.pc = "loop", !.step = n]
    BY <1>1 DEF Runs
  <2>. HIDE DEF n
  <2>. QED BY <1>1, <2>1 DEF Runs, SameWork
<1>3. RunInv'
  BY <1>1, <1>2 DEF AgentInv, RunInv
<1>4. DOMAIN tool' = Slots /\ \A s \in Slots : tool'[s] = NoTool /\ NoTool.pc = "none"
  BY DEF TurnEnds, NoTool
<1>5. ToolInv'
  BY <1>4 DEF ToolInv, ToolStates
<1>6. CallInv' /\ EvidenceInv' /\ ClaimsCiteWhatWasRead' /\ (PlacesAreRefs => PlacesAreRefs')
  BY <1>2, RunMoved DEF TurnEnds
<1>7. MockInv'
  BY <1>2, <1>4, <1>6 DEF AgentInv, MockInv, Unanswered, SameWork
<1>. QED BY <1>3, <1>5, <1>6, <1>7 DEF AgentInv

(* What a turn can ask for.                                                 *)
LEMMA RequestsAreKnown ==
  /\ \A q \in Requests : q.name \in ToolNames /\ q.net \in NamedOrAny
  /\ AgentInv /\ run.pc = "model" => MockRequest.name \in ToolNames /\ MockRequest.net \in NamedOrAny
<1>1. ASSUME NEW q \in Requests PROVE q.name \in ToolNames /\ q.net \in NamedOrAny
  BY <1>1, AgentAssumption DEF Requests, Nets1, ToolNames, NamedOrAny, DataTools
<1>2. ASSUME AgentInv, run.pc = "model" PROVE MockRequest.name \in ToolNames /\ MockRequest.net \in NamedOrAny
  <2>1. run.tools \in Seq(Registered) /\ run.tools # <<>>
    BY <1>2 DEF AgentInv, RunInv
  <2>2. run.tools[1] \in Registered
    BY <2>1
  <2>. QED BY <2>2 DEF MockRequest, ToolNames, NamedOrAny, DataTools
<1>. QED BY <1>1, <1>2

LEMMA RequestedFits ==
  ASSUME NEW q, \A s \in DOMAIN q : q[s].name \in ToolNames /\ q[s].net \in NamedOrAny
  PROVE  /\ DOMAIN Requested(q) = Slots
         /\ \A s \in Slots : /\ Requested(q)[s] \in ToolStates /\ Requested(q)[s].pc # "reading"
                             /\ Requested(q)[s].pc = "asked" => s \in DOMAIN q
BY DEF Requested, ToolStates, NoTool

LEMMA ModelTurnKeeps == ASSUME AgentInv, ModelTurn PROVE AgentInv'
<1>1. PICK p \in {"failed", "final", "tools"} : Go(p)
  BY DEF ModelTurn
<1>2. RunInv' /\ SameWork
  BY <1>1, GoesOn DEF AgentInv, Busy, ModelTurn, At
<1>3. CallInv' /\ EvidenceInv' /\ ClaimsCiteWhatWasRead' /\ (PlacesAreRefs => PlacesAreRefs')
      /\ (tool' = tool => ToolInv' /\ MockInv')
  BY <1>2, RunMoved DEF ModelTurn
<1>4. ToolInv' /\ MockInv'
  <2>1. CASE tool' = tool
    BY <1>3, <2>1
  <2>2. CASE run.vendor = "mock" /\ shown = {} /\ \E s : tool' = Requested([x \in {s} |-> MockRequest])
    <3>1. PICK s : tool' = Requested([x \in {s} |-> MockRequest])
      BY <2>2
    <3>. DEFINE q == [x \in {s} |-> MockRequest]
    <3>2. /\ DOMAIN q = {s} /\ q[s] = MockRequest /\ MockRequest.name \in ToolNames
          /\ MockRequest.net \in NamedOrAny
      BY RequestsAreKnown DEF ModelTurn, At
    <3>. HIDE DEF q
    <3>3. /\ DOMAIN Requested(q) = Slots
          /\ \A x \in Slots : /\ Requested(q)[x] \in ToolStates /\ Requested(q)[x].pc # "reading"
                              /\ Requested(q)[x].pc = "asked" => x \in DOMAIN q
      BY <3>1, <3>2, RequestedFits
    <3>4. /\ DOMAIN tool' = Slots
          /\ \A x \in Slots : /\ tool'[x] \in ToolStates /\ tool'[x].pc # "reading"
                            /\ (tool'[x].pc = "asked" => x = s)
      BY <3>1, <3>2, <3>3 DEF q
    <3>5. ToolInv'
      BY <3>4 DEF ToolInv
    <3>6. PlacesAreRefs' /\ shown' = {}
      BY <2>2 DEF PlacesAreRefs, ModelTurn
    <3>7. MockInv'
      BY <3>4, <3>6 DEF MockInv, Unanswered
    <3>. QED BY <3>5, <3>7
  <2>3. CASE /\ run.vendor # "mock"
             /\ \E these \in SUBSET Slots \ {{}} : \E q \in [these -> Requests] : tool' = Requested(q)
    <3>1. PICK these \in SUBSET Slots : \E q \in [these -> Requests] : tool' = Requested(q)
      BY <2>3
    <3>2. PICK q \in [these -> Requests] : tool' = Requested(q)
      BY <3>1
    <3>3. \A s \in DOMAIN q : q[s].name \in ToolNames /\ q[s].net \in NamedOrAny
      BY <3>2, RequestsAreKnown
    <3>4. DOMAIN tool' = Slots /\ \A s \in Slots : tool'[s] \in ToolStates /\ tool'[s].pc # "reading"
      BY <3>2, <3>3, RequestedFits
    <3>. QED BY <1>2, <2>3, <3>4 DEF ToolInv, MockInv, SameWork
  <2>. QED BY <2>1, <2>2, <2>3 DEF ModelTurn
<1>. QED BY <1>2, <1>3, <1>4 DEF AgentInv

(***************************************************************************)
(* Steps of a tool.                                                         *)
(***************************************************************************)
LEMMA ToolMoves ==
  ASSUME ToolInv, NEW s \in Slots, tool[s] # NoTool, NEW p \in {"reading", "ended"},
         tool' = [tool EXCEPT ![s].pc = p]
  PROVE  /\ DOMAIN tool' = Slots /\ tool'[s] \in ToolStates /\ tool'[s].pc = p /\ tool'[s].name = tool[s].name
         /\ \A x \in Slots : x # s => tool'[x] = tool[x]
<1>1. /\ tool[s] \in [pc : {"asked", "reading", "ended"}, name : ToolNames, net : NamedOrAny]
      /\ DOMAIN tool = Slots
  BY DEF ToolInv, ToolStates
<1>. DEFINE t == [tool[s] EXCEPT !.pc = p]
<1>2. t \in ToolStates /\ t.pc = p /\ t.name = tool[s].name
  BY <1>1 DEF ToolStates
<1>3. tool' = [tool EXCEPT ![s] = t]
  OBVIOUS
<1>. HIDE DEF t
<1>. QED BY <1>1, <1>2, <1>3

(* A tool that has ended waits for nothing.                                 *)
LEMMA ToolEnds ==
  ASSUME ToolInv, NEW s \in Slots, Unanswered(s), tool' = [tool EXCEPT ![s].pc = "ended"],
         \A x \in Slots : x # s => call'[x] = call[x], run' = run
  PROVE  ToolInv' /\ \A x \in Slots : Unanswered(x)' => Unanswered(x) /\ x # s
<1>1. tool[s] # NoTool
  BY DEF Unanswered, NoTool
<1>2. /\ DOMAIN tool' = Slots /\ tool'[s] \in ToolStates /\ tool'[s].pc = "ended"
      /\ \A x \in Slots : x # s => tool'[x] = tool[x]
  BY <1>1, ToolMoves
<1>3. ASSUME NEW x \in Slots, x # s, Aimed(x) PROVE Aimed(x)'
  BY <1>2, <1>3 DEF Aimed, InScope
<1>4. ToolInv'
  BY <1>2, <1>3 DEF ToolInv
<1>5. \A x \in Slots : Unanswered(x)' => Unanswered(x) /\ x # s
  BY <1>2 DEF Unanswered
<1>. QED BY <1>4, <1>5

LEMMA ImmediateKeeps == ASSUME AgentInv, NEW s \in Slots, Immediate(s) PROVE AgentInv'
<1>1. Unanswered(s) /\ call' = call /\ credential' = credential /\ tool' = [tool EXCEPT ![s].pc = "ended"]
      /\ UNCHANGED <<run, evidence, shown>>
  BY DEF Immediate, Unanswered, reppoVars
<1>2. ToolInv' /\ \A x \in Slots : Unanswered(x)' => Unanswered(x) /\ x # s
  BY <1>1, ToolEnds DEF AgentInv
<1>3. CallInv' /\ EvidenceInv'
  BY <1>1, CallsUnmoved, EvidenceUnmoved DEF AgentInv
<1>4. MockInv'
  BY <1>1, <1>2 DEF AgentInv, MockInv, PlacesAreRefs
<1>. QED BY <1>1, <1>2, <1>3, <1>4 DEF AgentInv, RunInv, ClaimsCiteWhatWasRead

LEMMA NewCall ==
  ASSUME NEW k \in CallKinds, NEW a \in NamedOrAny, NEW w \in Seq(Named), NEW c, c = Called(k, a, w)
  PROVE  c \in Calls /\ CallFits(c) /\ c.pc = "reading" /\ c.kind = k /\ c.arg = a /\ c.scope = w
BY OpenedByCall

LEMMA SearchedFits ==
  ASSUME RunInv, NEW w \in NamedOrAny
  PROVE  /\ Searched(w) \in Calls /\ CallFits(Searched(w)) /\ Searched(w).pc = "reading"
         /\ IF run.scope = <<>> THEN Searched(w).kind \in {"search", "scoped"}
            ELSE Searched(w).kind = "scoped" /\ Searched(w).scope = run.scope
<1>1. run.scope \in Seq(Named) /\ <<>> \in Seq(Named) /\ Anywhere \in NamedOrAny
  BY EmptySeq DEF RunInv, Runs, NamedOrAny
<1>2. {"search", "scoped"} \subseteq CallKinds
  BY DEF CallKinds
<1>3. CASE run.scope # <<>>
  <2>1. Searched(w) = Called("scoped", Anywhere, run.scope)
    BY <1>3 DEF Searched
  <2>2. /\ Searched(w) \in Calls /\ CallFits(Searched(w)) /\ Searched(w).pc = "reading"
        /\ Searched(w).kind = "scoped" /\ Searched(w).scope = run.scope
    BY <1>1, <1>2, <2>1, NewCall
  <2>. QED BY <1>3, <2>2
<1>4. CASE run.scope = <<>> /\ w # Anywhere
  <2>. DEFINE z == <<w>>
  <2>1. Searched(w) = Called("scoped", Anywhere, z) /\ z \in Seq(Named)
    BY <1>4 DEF Searched, NamedOrAny
  <2>. HIDE DEF z
  <2>2. /\ Searched(w) \in Calls /\ CallFits(Searched(w)) /\ Searched(w).pc = "reading"
        /\ Searched(w).kind = "scoped"
    BY <1>1, <1>2, <2>1, NewCall
  <2>. QED BY <1>4, <2>2
<1>5. CASE run.scope = <<>> /\ w = Anywhere
  <2>. DEFINE z == <<>>
  <2>1. Searched(w) = Called("search", Anywhere, z) /\ z \in Seq(Named)
    BY <1>1, <1>5 DEF Searched
  <2>. HIDE DEF z
  <2>2. /\ Searched(w) \in Calls /\ CallFits(Searched(w)) /\ Searched(w).pc = "reading"
        /\ Searched(w).kind = "search"
    BY <1>1, <1>2, <2>1, NewCall
  <2>. QED BY <1>5, <2>2
<1>. QED BY <1>3, <1>4, <1>5

LEMMA CallDataKeeps == ASSUME AgentInv, NEW s \in Slots, CallData(s) PROVE AgentInv'
<1>1. /\ tool[s].pc = "asked" /\ tool' = [tool EXCEPT ![s].pc = "reading"] /\ credential' = credential
      /\ UNCHANGED <<run, evidence, shown>>
  BY DEF CallData, Asks
<1>2. tool[s] # NoTool /\ tool[s].net \in NamedOrAny
  BY <1>1 DEF AgentInv, ToolInv, ToolStates, NoTool
<1>3. \E c : /\ call' = [call EXCEPT ![s] = c] /\ c \in Calls /\ CallFits(c) /\ c.pc = "reading"
             /\ tool[s].name \in DataTools
             /\ tool[s].name = "reppo_search_data" =>
                  IF run.scope = <<>> THEN c.kind \in {"search", "scoped"}
                  ELSE c.kind = "scoped" /\ c.scope = run.scope
             /\ tool[s].name = "reppo_get_datanet_data" => c.kind = "data" /\ InScope(c.arg)
  <2>1. CASE Asks(s, "reppo_search_data") /\ call' = [call EXCEPT ![s] = Searched(tool[s].net)]
    <3>. DEFINE c == Searched(tool[s].net)
    <3>1. /\ c \in Calls /\ CallFits(c) /\ c.pc = "reading"
          /\ IF run.scope = <<>> THEN c.kind \in {"search", "scoped"}
             ELSE c.kind = "scoped" /\ c.scope = run.scope
      BY <1>2, SearchedFits DEF AgentInv
    <3>2. call' = [call EXCEPT ![s] = c]
      BY <2>1
    <3>. HIDE DEF c
    <3>. QED BY <2>1, <3>1, <3>2 DEF Asks, DataTools
  <2>2. CASE /\ Asks(s, "reppo_get_datanet_data") /\ InScope(tool[s].net)
             /\ call' = [call EXCEPT ![s] = Called("data", tool[s].net, <<>>)]
    <3>. DEFINE c == Called("data", tool[s].net, <<>>)
    <3>1. c \in Calls /\ CallFits(c) /\ c.pc = "reading" /\ c.kind = "data" /\ c.arg = tool[s].net
      <4>. DEFINE z == <<>>
      <4>1. z \in Seq(Named) /\ c = Called("data", tool[s].net, z)
        BY EmptySeq
      <4>2. "data" \in CallKinds
        BY DEF CallKinds
      <4>. HIDE DEF c, z
      <4>. QED BY <1>2, <4>1, <4>2, NewCall
    <3>2. call' = [call EXCEPT ![s] = c]
      BY <2>2
    <3>. HIDE DEF c
    <3>. QED BY <2>2, <3>1, <3>2 DEF Asks, DataTools
  <2>3. CASE Asks(s, "reppo_list_datanets") /\ call' = [call EXCEPT ![s] = Called("datanets", Anywhere, <<>>)]
    <3>. DEFINE c == Called("datanets", Anywhere, <<>>)
    <3>1. c \in Calls /\ CallFits(c) /\ c.pc = "reading"
      <4>. DEFINE z == <<>>
      <4>1. z \in Seq(Named) /\ c = Called("datanets", Anywhere, z) /\ Anywhere \in NamedOrAny
        BY EmptySeq DEF NamedOrAny
      <4>2. "datanets" \in CallKinds
        BY DEF CallKinds
      <4>. HIDE DEF c, z
      <4>. QED BY <4>1, <4>2, NewCall
    <3>2. call' = [call EXCEPT ![s] = c]
      BY <2>3
    <3>. HIDE DEF c
    <3>. QED BY <2>3, <3>1, <3>2 DEF Asks, DataTools
  <2>. QED BY <2>1, <2>2, <2>3 DEF CallData
<1>4. PICK c : /\ call' = [call EXCEPT ![s] = c] /\ c \in Calls /\ CallFits(c) /\ c.pc = "reading"
               /\ tool[s].name \in DataTools
               /\ tool[s].name = "reppo_search_data" =>
                    IF run.scope = <<>> THEN c.kind \in {"search", "scoped"}
                    ELSE c.kind = "scoped" /\ c.scope = run.scope
               /\ tool[s].name = "reppo_get_datanet_data" => c.kind = "data" /\ InScope(c.arg)
  BY <1>3
<1>5. DOMAIN call' = Slots /\ \A x \in Slots : call'[x] = IF x = s THEN c ELSE call[x]
  BY <1>4 DEF AgentInv, CallInv
<1>6. /\ DOMAIN tool' = Slots /\ tool'[s] \in ToolStates /\ tool'[s].pc = "reading"
      /\ tool'[s].name = tool[s].name
      /\ \A x \in Slots : x # s => tool'[x] = tool[x]
  BY <1>1, <1>2, ToolMoves DEF AgentInv
<1>7. CallInv'
  <2>1. \A x : CallFits(x) => CallFits(x)'
    BY <1>1 DEF CallFits, Opened, Settled, Fits, Authenticated, Denied
  <2>. QED BY <1>4, <1>5, <2>1 DEF AgentInv, CallInv
<1>8. ToolInv'
  <2>1. Aimed(s)'
    BY <1>1, <1>4, <1>5, <1>6 DEF Aimed, InScope
  <2>2. ASSUME NEW x \in Slots, x # s, Aimed(x) PROVE Aimed(x)'
    BY <1>1, <1>5, <1>6, <2>2 DEF Aimed, InScope
  <2>. QED BY <1>6, <2>1, <2>2 DEF AgentInv, ToolInv
<1>9. EvidenceInv'
  BY <1>1, EvidenceUnmoved DEF AgentInv
<1>10. MockInv'
  <2>1. \A x \in Slots : Unanswered(x)' => Unanswered(x)
    BY <1>1, <1>6 DEF Unanswered
  <2>. QED BY <1>1, <2>1 DEF AgentInv, MockInv, PlacesAreRefs
<1>. QED BY <1>1, <1>7, <1>8, <1>9, <1>10 DEF AgentInv, RunInv, ClaimsCiteWhatWasRead

(***************************************************************************)
(* What is recorded is told.                                                *)
(***************************************************************************)
NotesOf(got, refs, place) == {[ref |-> refs[i], item |-> got[i], place |-> place[i]] : i \in DOMAIN got}

LEMMA NoteIs ==
  ASSUME NEW got \in Seq(Items), NEW refs, NEW place, NEW n, n \in NotesOf(got, refs, place)
  PROVE  \E i \in DOMAIN got : n.ref = refs[i] /\ n.item = got[i] /\ n.place = place[i]
                               /\ n = [ref |-> refs[i], item |-> got[i], place |-> place[i]]
BY DEF NotesOf

LEMMA RecordTold ==
  ASSUME NEW ev \in Seq(Items), ListedOnce(ev), NEW notes, Told(ev, notes), NEW got \in Seq(Items),
         NEW place, \A i \in DOMAIN got : place[i] \in Nat
  PROVE  Told(Record(ev, got).rows, notes \cup NotesOf(got, Record(ev, got).refs, place))
<1>. DEFINE all == Added(ev, got)
            refs == Record(ev, got).refs
            new == NotesOf(got, refs, place)
<1>1. Record(ev, got).rows = all
  BY RecordedAt
<1>2. \A i \in DOMAIN got : refs[i] \in Nat /\ refs[i] + 1 \in DOMAIN all /\ all[refs[i] + 1].id = got[i].id
  BY RecordedAt
<1>3. /\ all \in Seq(Items) /\ ListedOnce(all) /\ InFront(ev, all)
      /\ \A j \in DOMAIN all : j \notin DOMAIN ev => \E i \in DOMAIN got : all[j] = got[i]
  BY AddedRows
<1>. HIDE DEF all, refs
<1>4. \A j \in DOMAIN ev : j \in DOMAIN all /\ all[j] = ev[j]
  BY <1>3 DEF InFront
<1>5. \A i \in DOMAIN got : got[i] \in Items
  OBVIOUS
<1>6. ASSUME NEW n \in new PROVE n \in Notes /\ n.ref + 1 \in DOMAIN all /\ all[n.ref + 1].id = n.item.id
  <2>1. PICK i \in DOMAIN got : n.ref = refs[i] /\ n.item = got[i] /\ n.place = place[i]
                               /\ n = [ref |-> refs[i], item |-> got[i], place |-> place[i]]
    BY NoteIs
  <2>2. n \in Notes
    BY <1>2, <1>5, <2>1 DEF Notes
  <2>. QED BY <1>2, <2>1, <2>2
<1>7. ASSUME NEW n \in notes PROVE n \in Notes /\ n.ref + 1 \in DOMAIN all /\ all[n.ref + 1].id = n.item.id
  BY <1>4 DEF Told
<1>8. ASSUME NEW j \in DOMAIN all PROVE \E n \in notes \cup new : n.ref + 1 = j
  <2>1. CASE j \in DOMAIN ev
    BY <2>1 DEF Told
  <2>2. CASE j \notin DOMAIN ev
    <3>1. PICK i \in DOMAIN got : all[j] = got[i]
      BY <1>3, <2>2
    <3>2. refs[i] + 1 = j
      BY ZenonT(30), <1>2, <1>3, <3>1 DEF ListedOnce
    <3>. DEFINE n == [ref |-> refs[i], item |-> got[i], place |-> place[i]]
    <3>3. n \in new /\ n.ref = refs[i]
      BY DEF NotesOf
    <3>. QED BY <3>2, <3>3
  <2>. QED BY <2>1, <2>2
<1>. HIDE DEF new
<1>9. Told(all, notes \cup new)
  BY <1>6, <1>7, <1>8 DEF Told
<1>. QED BY <1>1, <1>9 DEF refs, new

(* The rows of one answer are recorded and told together.                   *)
LEMMA RecordStep ==
  ASSUME EvidenceInv, NEW got \in Seq(Items), ListedOnce(got), run' = run,
         evidence' = Record(evidence, got).rows, Note(got, Record(evidence, got).refs),
         run.scope # <<>> => \A i \in DOMAIN got : got[i].net = Anywhere \/ InScope(got[i].net),
         run.vendor = "mock" => shown = {}
  PROVE  EvidenceInv' /\ (run.vendor = "mock" => PlacesAreRefs')
<1>. DEFINE refs == Record(evidence, got).refs
            place == [i \in DOMAIN got |-> IF run.vendor = "mock" THEN Cardinality(shown) + i - 1 ELSE 0]
<1>1. shown' = shown \cup NotesOf(got, refs, place)
  BY DEF Note, NotesOf
<1>2. evidence \in Seq(Items) /\ ListedOnce(evidence) /\ Told(evidence, shown)
  BY DEF EvidenceInv
<1>3. DOMAIN got = 1 .. Len(got) /\ Len(got) \in Nat
  OBVIOUS
<1>4. \A i \in DOMAIN got : /\ run.vendor = "mock" => place[i] = i - 1
                            /\ run.vendor # "mock" => place[i] = 0
  <2>1. run.vendor = "mock" => Cardinality(shown) = 0
    BY FS_EmptySet
  <2>. QED BY <1>3, <2>1
<1>. HIDE DEF place
<1>5. \A i \in DOMAIN got : place[i] \in Nat
  BY <1>3, <1>4
<1>6. Told(Record(evidence, got).rows, shown \cup NotesOf(got, refs, place))
  BY <1>2, <1>5, RecordTold
<1>7. Told(evidence', shown')
  BY <1>1, <1>6, Zenon
<1>8. evidence' = Added(evidence, got)
  BY <1>2, RecordedAt
<1>9. /\ evidence' \in Seq(Items) /\ ListedOnce(evidence') /\ InFront(evidence, evidence')
      /\ \A j \in DOMAIN evidence' : j \notin DOMAIN evidence => \E i \in DOMAIN got : evidence'[j] = got[i]
  BY <1>2, <1>8, AddedRows
<1>10. EvidenceInScope'
  <2>1. ASSUME run.scope # <<>>, NEW j \in DOMAIN evidence'
        PROVE  evidence'[j].net = Anywhere \/ InScope(evidence'[j].net)
    <3>1. CASE j \in DOMAIN evidence
      <4>1. evidence'[j] = evidence[j]
        BY <1>2, <1>9, <3>1 DEF InFront
      <4>. QED BY <2>1, <3>1, <4>1 DEF EvidenceInv, EvidenceInScope
    <3>2. CASE j \notin DOMAIN evidence
      <4>1. PICK i \in DOMAIN got : evidence'[j] = got[i]
        BY <1>9, <3>2
      <4>. QED BY <2>1, <4>1
    <3>. QED BY <3>1, <3>2
  <2>. QED BY <2>1 DEF EvidenceInScope, InScope
<1>11. ASSUME run.vendor = "mock" PROVE PlacesAreRefs'
  <2>1. shown = {} /\ evidence = <<>>
    <3>1. DOMAIN evidence = {}
      BY <1>2, <1>11 DEF Told
    <3>. QED BY <1>2, <1>11, <3>1
  <2>2. ASSUME NEW n \in shown' PROVE n.place = n.ref
    <3>1. n \in NotesOf(got, refs, place)
      BY <1>1, <2>1
    <3>2. PICK i \in DOMAIN got : n.ref = refs[i] /\ n.place = place[i]
      BY <3>1, NoteIs
    <3>3. Record(<<>>, got).refs[i] = i - 1
      BY FirstRecorded
    <3>4. refs[i] = i - 1
      BY <2>1, <3>3
    <3>. QED BY <1>4, <1>11, <3>2, <3>4
  <2>. QED BY <2>2 DEF PlacesAreRefs
<1>12. EvidenceInv'
  BY <1>7, <1>9, <1>10 DEF EvidenceInv
<1>. QED BY <1>11, <1>12

LEMMA DataEndsKeeps == ASSUME AgentInv, NEW s \in Slots, DataEnds(s) PROVE AgentInv'
<1>. DEFINE c == call[s]
<1>1. /\ tool[s].pc = "reading" /\ c.pc = "settled" /\ tool' = [tool EXCEPT ![s].pc = "ended"]
      /\ call' = [call EXCEPT ![s] = NoCall] /\ run' = run /\ credential' = credential
  BY DEF DataEnds
<1>2. Unanswered(s) /\ Aimed(s) /\ c \in Calls /\ Opened(c) /\ Settled(c) /\ DOMAIN call = Slots
  BY <1>1 DEF AgentInv, ToolInv, CallInv, CallFits, Unanswered
<1>3. DOMAIN call' = Slots /\ \A x \in Slots : call'[x] = IF x = s THEN NoCall ELSE call[x]
  BY <1>1, <1>2
<1>4. CallInv'
  <2>1. \A x : CallFits(x) => CallFits(x)'
    BY <1>1 DEF CallFits, Opened, Settled, Fits, Authenticated, Denied
  <2>. QED BY <1>3, <2>1, NothingCalled DEF AgentInv, CallInv
<1>5. ToolInv' /\ \A x \in Slots : Unanswered(x)' => Unanswered(x) /\ x # s
  BY <1>1, <1>2, <1>3, ToolEnds DEF AgentInv
<1>6. run.vendor = "mock" => shown = {} /\ (\A x \in Slots : ~Unanswered(x)') /\ PlacesAreRefs
  BY <1>2, <1>5 DEF AgentInv, MockInv
<1>7. EvidenceInv' /\ (run.vendor = "mock" => PlacesAreRefs')
  <2>1. CASE c.from # "error" /\ tool[s].name # "reppo_list_datanets"
    <3>. DEFINE got == c.rows
    <3>1. evidence' = Record(evidence, got).rows /\ Note(got, Record(evidence, got).refs)
      BY <2>1 DEF DataEnds
    <3>2. tool[s].name \in {"reppo_search_data", "reppo_get_datanet_data"}
      BY <1>2, <2>1 DEF Aimed, DataTools
    <3>3. c.kind \in {"data", "search", "scoped"} /\ (run.scope # <<>> => c.kind # "search")
      BY <1>2, <3>2 DEF Aimed
    <3>4. ListedOnce(got)
      BY <1>2, <3>3 DEF Settled
    <3>5. got \in Seq(Items)
      <4>1. got \in Seq(DataRows) /\ DataRows \subseteq Items
        BY <1>2 DEF Calls, Items
      <4>. QED BY <4>1, PartOf
    <3>6. ASSUME run.scope # <<>>, NEW i \in DOMAIN got PROVE got[i].net = Anywhere \/ InScope(got[i].net)
      <4>1. CASE c.kind = "scoped"
        <5>1. got[i].net \in {Anywhere} \cup ToSet(c.scope)
          BY <1>2, <4>1 DEF Settled, RowsWithin
        <5>2. c.scope = run.scope
          BY <1>2, <3>2, <3>6, <4>1 DEF Aimed
        <5>. QED BY <5>1, <5>2 DEF ToSet, InScope
      <4>2. CASE c.kind = "data"
        <5>1. got[i].net \in {Anywhere, c.arg}
          BY <1>2, <4>2 DEF Settled, RowsWithin
        <5>2. InScope(c.arg)
          BY <1>2, <3>2, <3>6, <4>2 DEF Aimed
        <5>. QED BY <5>1, <5>2
      <4>. QED BY <3>3, <3>6, <4>1, <4>2
    <3>. HIDE DEF got
    <3>. QED BY <1>1, <1>6, <3>1, <3>4, <3>5, <3>6, RecordStep DEF AgentInv
  <2>2. CASE ~(c.from # "error" /\ tool[s].name # "reppo_list_datanets")
    <3>1. UNCHANGED <<evidence, shown>>
      BY <2>2 DEF DataEnds
    <3>. QED BY <1>1, <1>6, <3>1, EvidenceUnmoved DEF AgentInv, PlacesAreRefs
  <2>. QED BY <2>1, <2>2
<1>8. MockInv'
  BY <1>1, <1>6, <1>7 DEF MockInv
<1>. QED BY <1>1, <1>4, <1>5, <1>7, <1>8 DEF AgentInv, RunInv, ClaimsCiteWhatWasRead

LEMMA FetchEndsKeeps == ASSUME AgentInv, NEW s \in Slots, FetchEnds(s) PROVE AgentInv'
<1>1. /\ Unanswered(s) /\ call' = call /\ credential' = credential /\ run' = run
      /\ tool' = [tool EXCEPT ![s].pc = "ended"]
  BY DEF FetchEnds, Asks, Unanswered, reppoVars
<1>2. ToolInv' /\ \A x \in Slots : Unanswered(x)' => Unanswered(x) /\ x # s
  BY <1>1, ToolEnds DEF AgentInv
<1>3. CallInv'
  BY <1>1, CallsUnmoved DEF AgentInv
<1>4. run.vendor = "mock" => shown = {} /\ \A x \in Slots : ~Unanswered(x)'
  BY <1>1, <1>2 DEF AgentInv, MockInv
<1>. DEFINE got == <<WebPage>>
<1>5. evidence' = Record(evidence, got).rows /\ Note(got, Record(evidence, got).refs)
  BY DEF FetchEnds
<1>6. got \in Seq(Items) /\ ListedOnce(got) /\ \A i \in DOMAIN got : got[i].net = Anywhere
  BY AgentAssumption DEF Items, ListedOnce
<1>. HIDE DEF got
<1>7. EvidenceInv' /\ (run.vendor = "mock" => PlacesAreRefs')
  BY <1>1, <1>4, <1>5, <1>6, RecordStep DEF AgentInv
<1>8. MockInv'
  BY <1>1, <1>4, <1>7 DEF MockInv
<1>. QED BY <1>1, <1>2, <1>3, <1>7, <1>8 DEF AgentInv, RunInv, ClaimsCiteWhatWasRead

(***************************************************************************)
(* The structured answer.                                                   *)
(***************************************************************************)
CitedBy(refs) == UNION {Cites(r) : r \in refs}

LEMMA CitedRows ==
  ASSUME EvidenceInv, MockInv, NEW refs
  PROVE  /\ CitedBy(refs) \subseteq Items /\ Resolve(refs) \subseteq Items
         /\ IdsOf(Resolve(refs)) = IdsOf(CitedBy(refs))
<1>1. \A r : Cites(r) = {n.item : n \in {x \in shown : x.ref = r}}
  BY DEF Cites, MockInv, PlacesAreRefs
<1>2. \A x \in CitedBy(refs) : \E r \in refs : x \in Cites(r)
  BY Zenon DEF CitedBy
<1>3. \A r \in refs : Cites(r) \subseteq CitedBy(refs)
  BY Zenon DEF CitedBy
<1>4. /\ shown \subseteq Notes /\ evidence \in Seq(Items) /\ DOMAIN evidence = 1 .. Len(evidence)
      /\ \A n \in shown : n.ref \in Nat /\ n.item \in Items
      /\ \A n \in shown : n.ref + 1 \in DOMAIN evidence /\ evidence[n.ref + 1].id = n.item.id
      /\ \A i \in DOMAIN evidence : \E n \in shown : n.ref + 1 = i
  BY DEF EvidenceInv, Told, Notes
<1>5. \A x \in CitedBy(refs) : \E n \in shown : x = n.item /\ n.ref \in refs
  BY <1>1, <1>2
<1>6. \A n \in shown : n.ref \in refs => n.item \in CitedBy(refs)
  BY <1>1, <1>3
<1>7. /\ \A x \in Resolve(refs) : \E i \in DOMAIN evidence : x = evidence[i] /\ i - 1 \in refs
      /\ \A i \in DOMAIN evidence : i - 1 \in refs => evidence[i] \in Resolve(refs)
  BY DEF Resolve
<1>8. ASSUME NEW x \in Resolve(refs) PROVE \E y \in CitedBy(refs) : y.id = x.id
  <2>1. PICK i \in DOMAIN evidence : x = evidence[i] /\ i - 1 \in refs
    BY <1>7
  <2>2. PICK n \in shown : n.ref + 1 = i
    BY <1>4
  <2>3. n.ref = i - 1 /\ evidence[i].id = n.item.id
    BY <1>4, <2>2
  <2>. QED BY <1>6, <2>1, <2>3
<1>9. ASSUME NEW y \in CitedBy(refs) PROVE \E x \in Resolve(refs) : x.id = y.id
  <2>1. PICK n \in shown : y = n.item /\ n.ref \in refs
    BY <1>5
  <2>2. n.ref + 1 \in DOMAIN evidence /\ (n.ref + 1) - 1 \in refs /\ evidence[n.ref + 1].id = y.id
    BY <1>4, <2>1
  <2>. QED BY <1>7, <2>2
<1>10. IdsOf(Resolve(refs)) = IdsOf(CitedBy(refs))
  <2>. DEFINE A == Resolve(refs)
              B == CitedBy(refs)
  <2>1. (\A x \in A : \E y \in B : y.id = x.id) /\ (\A y \in B : \E x \in A : x.id = y.id)
    BY <1>8, <1>9
  <2>. HIDE DEF A, B
  <2>2. IdsOf(A) = IdsOf(B)
    BY <2>1 DEF IdsOf
  <2>. QED BY <2>2 DEF A, B
<1>11. CitedBy(refs) \subseteq Items /\ Resolve(refs) \subseteq Items
  BY <1>4, <1>5, <1>7
<1>. QED BY <1>10, <1>11

LEMMA AnswerKeeps == ASSUME AgentInv, Answer PROVE AgentInv'
<1>1. run \in Runs /\ run.pc = "final" /\ UNCHANGED <<reppoVars, evidence, shown, tool>>
  BY DEF AgentInv, RunInv, Answer, At
<1>2. Go("failed") \/ \E refs : Conclude(refs)
  BY DEF Answer
<1>3. CASE Go("failed")
  <2>1. RunInv' /\ SameWork
    BY <1>1, <1>3, GoesOn DEF AgentInv, Busy
  <2>. QED BY <1>1, <2>1, RunMoved DEF AgentInv
<1>4. CASE \E refs : Conclude(refs)
  <2>1. PICK refs : Conclude(refs)
    BY <1>4
  <2>. DEFINE claim == [cited |-> CitedBy(refs), evidence |-> Resolve(refs)]
  <2>2. claim \in Claims /\ IdsOf(claim.evidence) = IdsOf(claim.cited)
    BY CitedRows DEF AgentInv, Claims
  <2>3. run' = [run EXCEPT !.pc = "completed", !.claim = claim]
    BY <2>1 DEF Conclude, CitedBy
  <2>. HIDE DEF claim
  <2>4. /\ run' \in Runs /\ run'.pc = "completed" /\ run'.claim = claim /\ run'.scope = run.scope
        /\ run'.vendor = run.vendor
    BY <1>1, <2>2, <2>3 DEF Runs
  <2>5. RunInv' /\ ClaimsCiteWhatWasRead'
    BY <2>2, <2>4 DEF RunInv, ClaimsCiteWhatWasRead
  <2>6. CallInv' /\ EvidenceInv'
    BY <1>1, <2>4, CallsUnmoved, EvidenceUnmoved DEF AgentInv, reppoVars
  <2>7. ToolInv'
    <3>1. \A s \in Slots : Aimed(s) => Aimed(s)'
      BY <1>1, <2>4 DEF Aimed, InScope, reppoVars
    <3>. QED BY <1>1, <3>1 DEF AgentInv, ToolInv
  <2>8. MockInv'
    BY <1>1, <2>4 DEF AgentInv, MockInv, Unanswered, PlacesAreRefs
  <2>. QED BY <2>5, <2>6, <2>7, <2>8 DEF AgentInv
<1>. QED BY <1>2, <1>3, <1>4

LEMMA AgentStands == ASSUME AgentInv, UNCHANGED agentVars PROVE AgentInv'
<1>1. UNCHANGED <<reppoVars, evidence, shown, tool>> /\ run' = run
  BY DEF agentVars, reppoVars
<1>2. CallInv' /\ EvidenceInv' /\ ClaimsCiteWhatWasRead' /\ ToolInv' /\ MockInv'
  BY <1>1, RunMoved DEF SameWork
<1>. QED BY <1>1, <1>2 DEF AgentInv, RunInv

LEMMA AgentSteps == AgentInv /\ [AgentNext]_agentVars => AgentInv'
<1>. SUFFICES ASSUME AgentInv, [AgentNext]_agentVars PROVE AgentInv'
  OBVIOUS
<1>1. CASE RunStep
  <2>1. ASSUME NEW s \in Slots, CallData(s) \/ Immediate(s) \/ DataEnds(s) \/ FetchEnds(s) PROVE AgentInv'
    BY <2>1, CallDataKeeps, ImmediateKeeps, DataEndsKeeps, FetchEndsKeeps
  <2>2. CASE Begin \/ LoopHead \/ ModelTurn \/ TurnEnds \/ Answer
    BY <2>2, BeginKeeps, LoopHeadKeeps, ModelTurnKeeps, TurnEndsKeeps, AnswerKeeps
  <2>. QED BY <1>1, <2>1, <2>2 DEF RunStep
<1>2. CASE Abort
  BY <1>2, AbortKeeps
<1>3. CASE (Network \/ \E path \in cache : Expire(path)) /\ UNCHANGED <<run, evidence, shown, tool>>
  BY <1>3, NetworkKeeps
<1>4. CASE UNCHANGED agentVars
  BY <1>4, AgentStands
<1>. QED BY <1>1, <1>2, <1>3, <1>4 DEF AgentNext

(***************************************************************************)
(* The theorems of an agent's run and its lookups, for every key, account,  *)
(* fixture, limit, fault of the network and answer of the model.            *)
(***************************************************************************)
(* The invariant: the calls under way, the run, its tools, the evidence,    *)
(* what the mock counts on, and what the claims cite.                       *)
THEOREM AgentInvariant == AgentSpec => []AgentInv
BY AgentStarts, AgentSteps, PTL DEF AgentSpec

(* A call that upstream denied the credential of is never answered from the *)
(* recordings, whichever of its reads was refused (withFixtureFallback).     *)
THEOREM DenialIsNeverMasked == AgentSpec => []FixturesNeverMaskDenial
<1>1. AgentInv => FixturesNeverMaskDenial
  BY DEF AgentInv, CallInv, CallFits, Settled, FixturesNeverMaskDenial
<1>. QED BY <1>1, AgentInvariant, PTL

(* A listing has every row asked for among the first Limit rows that the     *)
(* credential owns, whatever upstream holds beside them, whether or not it   *)
(* ends a page at its limit, and whatever else reads or fails meanwhile: a   *)
(* row's place among what is left of the merge and the filter is never later *)
(* than its place on the page (listDatanets, listData, listOwnedData).       *)
THEOREM OwnedRowsLead == AgentSpec => []OwnedLead
<1>1. AgentInv => OwnedLead
  BY DEF AgentInv, CallInv, CallFits, Settled, OwnedLead, OwnedLeads, FirstOwned, IdsIn
<1>. QED BY <1>1, AgentInvariant, PTL

(* Every row of evidence is of a datanet that the job is scoped to, through  *)
(* whichever tool, recording or merge it came (tools/reppo.ts).              *)
THEOREM EvidenceStaysInScope == AgentSpec => []EvidenceInScope
<1>1. AgentInv => EvidenceInScope
  BY DEF AgentInv, EvidenceInv
<1>. QED BY <1>1, AgentInvariant, PTL

(* Every claim of the answer cites exactly rows of evidence that the model   *)
(* was shown under the refs it gave: appending and removing duplicates never *)
(* moves a row to another ref (EvidenceCollector, resolve).                  *)
THEOREM ClaimsAreLinkedToWhatWasRead == AgentSpec => []ClaimsCiteWhatWasRead
<1>1. AgentInv => ClaimsCiteWhatWasRead
  BY DEF AgentInv
<1>. QED BY <1>1, AgentInvariant, PTL
============================
