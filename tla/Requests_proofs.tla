---------------------------- MODULE Requests_proofs ----------------------------
(***************************************************************************)
(* Proofs about requests that overlap: clusters, sign-up codes, the ledger of  *)
(* agents' calls, experiments, discovery journeys, insight cards and imports.  *)
(* Each part gives the inductive invariant its theorem needs, shows that every *)
(* action preserves it, and ends with the theorem.                             *)
(***************************************************************************)
EXTENDS Clusters, SignUp, AgentHub, Experiments, Discovery, Insights, Imports,
        FiniteSetTheorems, SequenceTheorems, WellFoundedInduction, TLAPS

(* Clusters *)

Queued(q) == {q[i] : i \in 1 .. Len(q)}

\* What the component under way has seen: visited or waiting.
Reached(w) == w.component \cup Queued(w.queue)

Closed(S, ties) == \A p \in ties : p \cap S # {} => p \subseteq S

\* No closed set of entities separates the members.
Tight(S, w) == \A C \in SUBSET w.nodes : Closed(C, w.ties) /\ S \cap C # {} => S \subseteq C

WalkType(w) ==
  /\ w \in [step : {"idle", "relations", "walk", "done"}, nodes : SUBSET Topics,
            ties : SUBSET SUBSET Topics, visited : SUBSET Topics, queue : Seq(Topics),
            component : SUBSET Topics, clusters : SUBSET SUBSET Topics]
  /\ w.ties \subseteq Ties(w.nodes) /\ w.visited \subseteq w.nodes /\ Queued(w.queue) \subseteq w.nodes

\* The clusters and the component are made of the visited, each once.
Partition(w) ==
  /\ w.visited = w.component \cup UNION w.clusters
  /\ Reached(w) \cap UNION w.clusters = {}
  /\ \A c, d \in w.clusters : c \cap d # {} => c = d

\* A relation that touches the component stays within what it has reached.
Frontier(w) ==
  /\ \A c \in w.clusters : Closed(c, w.ties)
  /\ \A p \in w.ties : p \cap w.component # {} => p \subseteq Reached(w)

Together(w) == Tight(Reached(w), w) /\ \A c \in w.clusters : Tight(c, w)

Phases(w) ==
  /\ w.step # "walk" => w.queue = <<>> /\ w.component = {}
  /\ w.step \in {"idle", "relations"} => w.clusters = {} /\ w.visited = {}
  /\ w.step = "done" => w.nodes \subseteq w.visited

WalkSound(w) == WalkType(w) /\ Partition(w) /\ Frontier(w) /\ Together(w) /\ Phases(w)

ClustersInv ==
  /\ topics \subseteq Topics /\ relations \subseteq Ties(Topics)
  /\ WalkSound(walk)

\* A pair has another end.
LEMMA OtherEnd ==
  ASSUME NEW S, IsFiniteSet(S), NEW p \in Ties(S), NEW x \in p
  PROVE  \E y \in S : y # x /\ p = {x, y}
<1>1. IsFiniteSet(p) /\ Cardinality(p) = 2
  BY FS_Subset DEF Ties
<1>2. IsFiniteSet(p \ {x}) /\ Cardinality(p \ {x}) = 1
  BY <1>1, FS_RemoveElement
<1>3. PICK y : p \ {x} = {y}
  BY <1>2, FS_Singleton
<1> QED BY <1>3 DEF Ties

LEMMA QueuedEmpty == Queued(<<>>) = {}
BY DEF Queued

LEMMA QueuedSingle == ASSUME NEW x PROVE Queued(<<x>>) = {x}
BY DEF Queued

LEMMA QueuedTail ==
  ASSUME NEW S, NEW q \in Seq(S), q # <<>>
  PROVE  Queued(q) = {Head(q)} \cup Queued(Tail(q))
<1>1. /\ Head(q) = q[1] /\ Tail(q) \in Seq(S) /\ Len(Tail(q)) = Len(q) - 1
      /\ \A i \in 1 .. Len(Tail(q)) : Tail(q)[i] = q[i + 1]
  BY HeadTailProperties
<1>2. Len(q) \in Nat \ {0}
  BY EmptySeq
<1>3. \A i \in 2 .. Len(q) : i - 1 \in 1 .. Len(Tail(q)) /\ q[i] = Tail(q)[i - 1]
  BY <1>1, <1>2
<1> QED BY <1>1, <1>2, <1>3 DEF Queued

LEMMA QueuedConcat ==
  ASSUME NEW S, NEW q \in Seq(S), NEW r \in Seq(S)
  PROVE  Queued(q \o r) = Queued(q) \cup Queued(r)
<1>1. /\ Len(q) \in Nat /\ Len(r) \in Nat /\ Len(q \o r) = Len(q) + Len(r)
      /\ \A i \in 1 .. Len(q) + Len(r) :
           (q \o r)[i] = IF i <= Len(q) THEN q[i] ELSE r[i - Len(q)]
  BY ConcatProperties, LenProperties
<1>2. \A i \in 1 .. Len(r) : i + Len(q) \in 1 .. Len(q \o r) /\ (q \o r)[i + Len(q)] = r[i]
  BY <1>1
<1>3. \A i \in 1 .. Len(q) : i \in 1 .. Len(q \o r) /\ (q \o r)[i] = q[i]
  BY <1>1
<1>4. \A i \in 1 .. Len(q \o r) : (q \o r)[i] \in Queued(q) \cup Queued(r)
  <2> SUFFICES ASSUME NEW i \in 1 .. Len(q \o r)
               PROVE  (q \o r)[i] \in Queued(q) \cup Queued(r)
    OBVIOUS
  <2>1. CASE i <= Len(q)
    BY <1>1, <2>1 DEF Queued
  <2>2. CASE i > Len(q)
    <3>1. i - Len(q) \in 1 .. Len(r) /\ (q \o r)[i] = r[i - Len(q)]
      BY <1>1, <2>2
    <3> QED BY <3>1 DEF Queued
  <2> QED BY <1>1, <2>1, <2>2
<1> QED BY <1>2, <1>3, <1>4 DEF Queued

LEMMA OrderQueued ==
  ASSUME NEW S, IsFiniteSet(S), NEW T, S \subseteq T, NEW order \in Orders(S)
  PROVE  order \in Seq(T) /\ Queued(order) = S
<1>1. Cardinality(S) \in Nat
  BY FS_CardinalityType
<1>2. order \in [1 .. Cardinality(S) -> S] /\ order \in [1 .. Cardinality(S) -> T]
  BY DEF Orders
<1>3. order \in Seq(T)
  BY <1>1, <1>2
<1>4. Len(order) = Cardinality(S)
  BY <1>1, <1>2, <1>3
<1> QED BY <1>2, <1>3, <1>4 DEF Orders, Queued

LEMMA SoundAtRest ==
  ASSUME NEW w, w.step \in {"idle", "relations", "done"}, w.nodes \in SUBSET Topics,
         w = [step |-> w.step, nodes |-> w.nodes, ties |-> {}, visited |-> {}, queue |-> <<>>,
              component |-> {}, clusters |-> {}],
         w.step = "done" => w.nodes = {}
  PROVE  WalkSound(w)
<1>1. /\ w.ties = {} /\ w.visited = {} /\ w.queue = <<>> /\ w.component = {} /\ w.clusters = {}
      /\ w.step \in {"idle", "relations", "walk", "done"}
  OBVIOUS
<1>2. Queued(w.queue) = {}
  BY <1>1, QueuedEmpty
<1>3. WalkType(w)
  <2>1. <<>> \in Seq(Topics)
    OBVIOUS
  <2> QED BY <1>1, <1>2, <2>1 DEF WalkType
<1>4. Partition(w) /\ Frontier(w) /\ Together(w)
  BY <1>1, <1>2 DEF Partition, Frontier, Together, Tight, Reached
<1>5. Phases(w)
  BY <1>1 DEF Phases
<1> QED BY <1>3, <1>4, <1>5 DEF WalkSound

LEMMA TopicsFinite == ASSUME NEW S, S \subseteq Topics PROVE IsFiniteSet(S)
BY ClustersAssumption, FS_Subset

LEMMA ReadEntitiesSound ==
  ASSUME ClustersInv, ReadEntities
  PROVE  ClustersInv'
<1>1. WalkSound(walk')
  <2>1. walk' = [step |-> walk'.step, nodes |-> walk'.nodes, ties |-> {}, visited |-> {}, queue |-> <<>>,
                 component |-> {}, clusters |-> {}]
    BY DEF ReadEntities, NoRequest
  <2>2. walk'.step = IF topics = {} THEN "done" ELSE "relations"
    BY DEF ReadEntities, NoRequest
  <2>3. walk'.nodes = topics /\ topics \in SUBSET Topics
    BY DEF ReadEntities, NoRequest, ClustersInv
  <2> HIDE DEF NoRequest
  <2> QED BY <2>1, <2>2, <2>3, SoundAtRest
<1> QED BY <1>1 DEF ClustersInv, ReadEntities

LEMMA ReadRelationsSound ==
  ASSUME ClustersInv, ReadRelations
  PROVE  ClustersInv'
<1> DEFINE ties == {p \in relations : Known(p, walk.nodes)}
<1>1. walk \in [step : {"idle", "relations", "walk", "done"}, nodes : SUBSET Topics,
                ties : SUBSET SUBSET Topics, visited : SUBSET Topics, queue : Seq(Topics),
                component : SUBSET Topics, clusters : SUBSET SUBSET Topics]
      /\ Queued(walk.queue) \subseteq walk.nodes /\ walk.visited \subseteq walk.nodes
  BY DEF ClustersInv, WalkSound, WalkType
<1>2. /\ walk.queue = <<>> /\ walk.component = {} /\ walk.clusters = {} /\ walk.visited = {}
  BY DEF ReadRelations, ClustersInv, WalkSound, Phases
<1>3. ties \subseteq Ties(walk.nodes) /\ ties \subseteq SUBSET Topics
  BY DEF ClustersInv, Known, Ties
<1>4. /\ walk'.step = "walk" /\ walk'.nodes = walk.nodes /\ walk'.ties = ties
      /\ walk'.visited = {} /\ walk'.queue = <<>> /\ walk'.component = {} /\ walk'.clusters = {}
  BY <1>1, <1>2 DEF ReadRelations
<1>5. walk' \in [step : {"idle", "relations", "walk", "done"}, nodes : SUBSET Topics,
                ties : SUBSET SUBSET Topics, visited : SUBSET Topics, queue : Seq(Topics),
                component : SUBSET Topics, clusters : SUBSET SUBSET Topics]
  BY <1>1, <1>3 DEF ReadRelations
<1>6. Queued(walk'.queue) = {}
  BY <1>4, QueuedEmpty
<1> HIDE DEF ties
<1>7. WalkType(walk')
  BY <1>1, <1>3, <1>4, <1>5, <1>6 DEF WalkType
<1>8. Partition(walk') /\ Frontier(walk') /\ Together(walk') /\ Phases(walk')
  BY <1>4, <1>6 DEF Partition, Frontier, Together, Tight, Reached, Phases
<1> QED BY <1>7, <1>8 DEF ClustersInv, WalkSound, ReadRelations

LEMMA StartComponentSound ==
  ASSUME ClustersInv, NEW x \in Topics, StartComponent(x)
  PROVE  ClustersInv'
<1>1. WalkType(walk) /\ Partition(walk) /\ Frontier(walk) /\ Together(walk) /\ Phases(walk)
  BY DEF ClustersInv, WalkSound
<1>2. /\ walk.step = "walk" /\ walk.queue = <<>> /\ walk.component = {}
      /\ x \in walk.nodes /\ x \notin walk.visited
  BY DEF StartComponent
<1>3. /\ walk'.step = walk.step /\ walk'.nodes = walk.nodes /\ walk'.ties = walk.ties
      /\ walk'.visited = walk.visited /\ walk'.queue = <<x>> /\ walk'.component = {}
      /\ walk'.clusters = walk.clusters
  BY <1>1, <1>2 DEF StartComponent, WalkType
<1>4. Queued(walk'.queue) = {x}
  BY <1>3, QueuedSingle
<1>5. WalkType(walk')
  <2>1. <<x>> \in Seq(Topics)
    OBVIOUS
  <2>2. walk' \in [step : {"idle", "relations", "walk", "done"}, nodes : SUBSET Topics,
                ties : SUBSET SUBSET Topics, visited : SUBSET Topics, queue : Seq(Topics),
                component : SUBSET Topics, clusters : SUBSET SUBSET Topics]
    BY <1>1, <2>1 DEF StartComponent, WalkType
  <2> QED BY <1>1, <1>2, <1>3, <1>4, <2>2 DEF WalkType
<1>6. Partition(walk')
  BY <1>1, <1>2, <1>3, <1>4 DEF Partition, Reached
<1>7. Frontier(walk')
  BY <1>1, <1>2, <1>3 DEF Frontier
<1>8. Together(walk')
  BY <1>1, <1>3, <1>4 DEF Together, Tight, Reached
<1>9. Phases(walk')
  BY <1>2, <1>3 DEF Phases
<1> QED BY <1>5, <1>6, <1>7, <1>8, <1>9 DEF ClustersInv, WalkSound, StartComponent

LEMMA EndComponentSound ==
  ASSUME ClustersInv, EndComponent
  PROVE  ClustersInv'
<1>1. WalkType(walk) /\ Partition(walk) /\ Frontier(walk) /\ Together(walk) /\ Phases(walk)
  BY DEF ClustersInv, WalkSound
<1>2. /\ walk.step = "walk" /\ walk.queue = <<>>
  BY DEF EndComponent
<1>3. /\ walk'.step = walk.step /\ walk'.nodes = walk.nodes /\ walk'.ties = walk.ties
      /\ walk'.visited = walk.visited /\ walk'.queue = walk.queue /\ walk'.component = {}
      /\ walk'.clusters = walk.clusters \cup {walk.component}
  BY <1>1, <1>2 DEF EndComponent, WalkType
<1>4. Queued(walk.queue) = {}
  BY <1>2, QueuedEmpty
<1>5. WalkType(walk')
  <2>1. walk' \in [step : {"idle", "relations", "walk", "done"}, nodes : SUBSET Topics,
                ties : SUBSET SUBSET Topics, visited : SUBSET Topics, queue : Seq(Topics),
                component : SUBSET Topics, clusters : SUBSET SUBSET Topics]
    BY <1>1 DEF EndComponent, WalkType
  <2> QED BY <1>1, <1>3, <2>1 DEF WalkType
<1>6. Partition(walk')
  BY <1>1, <1>3, <1>4 DEF Partition, Reached
<1>7. Frontier(walk')
  BY <1>1, <1>3, <1>4 DEF Frontier, Closed, Reached
<1>8. Together(walk')
  BY <1>1, <1>3, <1>4 DEF Together, Tight, Reached
<1>9. Phases(walk')
  BY <1>2, <1>3 DEF Phases
<1> QED BY <1>5, <1>6, <1>7, <1>8, <1>9 DEF ClustersInv, WalkSound, EndComponent

LEMMA EndClustersSound ==
  ASSUME ClustersInv, EndClusters
  PROVE  ClustersInv'
<1>1. WalkType(walk) /\ Partition(walk) /\ Frontier(walk) /\ Together(walk) /\ Phases(walk)
  BY DEF ClustersInv, WalkSound
<1>2. walk.queue = <<>> /\ walk.component = {} /\ walk.nodes \subseteq walk.visited
  BY DEF EndClusters
<1>3. /\ walk'.step = "done" /\ walk'.nodes = walk.nodes /\ walk'.ties = walk.ties
      /\ walk'.visited = walk.visited /\ walk'.queue = walk.queue /\ walk'.component = walk.component
      /\ walk'.clusters = walk.clusters
  BY <1>1 DEF EndClusters, WalkType
<1>4. WalkType(walk')
  <2>1. walk' \in [step : {"idle", "relations", "walk", "done"}, nodes : SUBSET Topics,
                ties : SUBSET SUBSET Topics, visited : SUBSET Topics, queue : Seq(Topics),
                component : SUBSET Topics, clusters : SUBSET SUBSET Topics]
    BY <1>1 DEF EndClusters, WalkType
  <2> QED BY <1>1, <1>3, <2>1 DEF WalkType
<1>5. Partition(walk') /\ Frontier(walk') /\ Together(walk')
  BY <1>1, <1>3 DEF Partition, Frontier, Together, Tight, Reached
<1>6. Phases(walk')
  BY <1>2, <1>3 DEF Phases
<1> QED BY <1>4, <1>5, <1>6 DEF ClustersInv, WalkSound, EndClusters

LEMMA NeighborsFound ==
  ASSUME WalkType(walk), NEW x
  PROVE  /\ Neighbors(x) \subseteq walk.nodes /\ walk.nodes \subseteq Topics
         /\ IsFiniteSet(Neighbors(x))
         /\ \A p \in walk.ties : x \in p => p \subseteq {x} \cup Neighbors(x)
<1>1. walk.nodes \subseteq Topics /\ walk.ties \subseteq Ties(walk.nodes)
  BY DEF WalkType
<1>2. Neighbors(x) \subseteq walk.nodes
  BY <1>1 DEF Neighbors, Ties
<1>3. \A p \in walk.ties : x \in p => p \subseteq {x} \cup Neighbors(x)
  <2> SUFFICES ASSUME NEW p \in walk.ties, x \in p
               PROVE  p \subseteq {x} \cup Neighbors(x)
    OBVIOUS
  <2>1. PICK y \in walk.nodes : y # x /\ p = {x, y}
    BY <1>1, TopicsFinite, OtherEnd
  <2> QED BY <2>1 DEF Neighbors
<1> QED BY <1>1, <1>2, <1>3, TopicsFinite

\* A neighbour is with the other end in every closed set.
LEMMA NeighborsStayTogether ==
  ASSUME NEW x, NEW y \in Neighbors(x), NEW C, Closed(C, walk.ties)
  PROVE  x \in C <=> y \in C
BY DEF Neighbors, Closed

\* The same entity again: it is dropped from the queue.
LEMMA VisitAgainSound ==
  ASSUME ClustersInv, walk.queue # <<>>, Head(walk.queue) \in walk.visited,
         walk' = [walk EXCEPT !.queue = Tail(@)]
  PROVE  WalkSound(walk')
<1>1. WalkType(walk) /\ Partition(walk) /\ Frontier(walk) /\ Together(walk) /\ Phases(walk)
  BY DEF ClustersInv, WalkSound
<1>2. walk.queue \in Seq(Topics) /\ walk.step = "walk"
  BY <1>1 DEF WalkType, Phases
<1>3. /\ walk'.step = walk.step /\ walk'.nodes = walk.nodes /\ walk'.ties = walk.ties
      /\ walk'.visited = walk.visited /\ walk'.queue = Tail(walk.queue)
      /\ walk'.component = walk.component /\ walk'.clusters = walk.clusters
  BY <1>1 DEF WalkType
<1>4. Tail(walk.queue) \in Seq(Topics)
  BY <1>2, HeadTailProperties
<1>5. Queued(walk.queue) = {Head(walk.queue)} \cup Queued(walk'.queue)
  BY <1>2, <1>3, QueuedTail
<1>6. Head(walk.queue) \in walk.component
  BY <1>1, <1>5 DEF Partition, Reached
<1>7. Reached(walk') = Reached(walk)
  BY <1>3, <1>5, <1>6 DEF Reached
<1>8. WalkType(walk')
  <2>1. walk' \in [step : {"idle", "relations", "walk", "done"}, nodes : SUBSET Topics,
                ties : SUBSET SUBSET Topics, visited : SUBSET Topics, queue : Seq(Topics),
                component : SUBSET Topics, clusters : SUBSET SUBSET Topics]
    BY <1>1, <1>4 DEF WalkType
  <2> QED BY <1>1, <1>3, <1>5, <2>1 DEF WalkType
<1>9. Partition(walk') /\ Frontier(walk') /\ Together(walk') /\ Phases(walk')
  BY <1>1, <1>2, <1>3, <1>7 DEF Partition, Frontier, Together, Tight, Phases
<1> QED BY <1>8, <1>9 DEF WalkSound

\* A new one: its neighbours join the queue.
LEMMA VisitNewSound ==
  ASSUME ClustersInv, walk.queue # <<>>, Head(walk.queue) \notin walk.visited,
         NEW order \in Orders(Neighbors(Head(walk.queue)) \ (walk.visited \cup {Head(walk.queue)})),
         walk' = [walk EXCEPT !.visited = walk.visited \cup {Head(walk.queue)},
                              !.component = @ \cup {Head(walk.queue)},
                              !.queue = Tail(@) \o order]
  PROVE  WalkSound(walk')
<1> DEFINE current == Head(walk.queue)
           added == Neighbors(current) \ (walk.visited \cup {current})
<1>1. WalkType(walk) /\ Partition(walk) /\ Frontier(walk) /\ Together(walk) /\ Phases(walk)
  BY DEF ClustersInv, WalkSound
<1>2. walk.queue \in Seq(Topics) /\ walk.step = "walk"
  BY <1>1 DEF WalkType, Phases
<1>3. current \in Topics /\ Tail(walk.queue) \in Seq(Topics)
  BY <1>2, HeadTailProperties
<1>4. /\ Neighbors(current) \subseteq walk.nodes /\ walk.nodes \subseteq Topics
      /\ IsFiniteSet(Neighbors(current))
      /\ \A p \in walk.ties : current \in p => p \subseteq {current} \cup Neighbors(current)
  BY <1>1, NeighborsFound
<1>5. order \in Seq(Topics) /\ Queued(order) = added
  <2>1. IsFiniteSet(added) /\ added \subseteq Topics
    BY <1>4, FS_Subset
  <2> QED BY <2>1, OrderQueued
<1>6. Tail(walk.queue) \o order \in Seq(Topics)
  BY <1>3, <1>5, ConcatProperties
<1>7. /\ walk'.step = walk.step /\ walk'.nodes = walk.nodes /\ walk'.ties = walk.ties
      /\ walk'.visited = walk.visited \cup {current} /\ walk'.queue = Tail(walk.queue) \o order
      /\ walk'.component = walk.component \cup {current} /\ walk'.clusters = walk.clusters
  BY <1>1 DEF WalkType
<1>8. /\ Queued(walk.queue) = {current} \cup Queued(Tail(walk.queue))
      /\ Queued(walk'.queue) = Queued(Tail(walk.queue)) \cup added
  <2>1. Queued(walk.queue) = {current} \cup Queued(Tail(walk.queue))
    BY <1>2, QueuedTail
  <2>2. Queued(Tail(walk.queue) \o order) = Queued(Tail(walk.queue)) \cup Queued(order)
    <3>1. \A q, r \in Seq(Topics) : Queued(q \o r) = Queued(q) \cup Queued(r)
      BY QueuedConcat
    <3> QED BY <1>3, <1>5, <3>1, Zenon
  <2> QED BY <1>5, <1>7, <2>1, <2>2
<1>9. Reached(walk') = Reached(walk) \cup added /\ current \in Reached(walk)
  BY <1>7, <1>8 DEF Reached
<1>10. walk' \in [step : {"idle", "relations", "walk", "done"}, nodes : SUBSET Topics,
                ties : SUBSET SUBSET Topics, visited : SUBSET Topics, queue : Seq(Topics),
                component : SUBSET Topics, clusters : SUBSET SUBSET Topics]
  BY <1>1, <1>3, <1>6 DEF WalkType
<1>11. current \notin walk.visited
  OBVIOUS
<1> HIDE DEF current, added
<1>12. WalkType(walk')
  <2>1. current \in walk.nodes /\ added \subseteq walk.nodes
    BY <1>1, <1>4, <1>8 DEF WalkType, added
  <2> QED BY <1>1, <1>7, <1>8, <1>10, <2>1 DEF WalkType
\* No cluster touches a relation of the current entity.
<1>13. \A c \in walk.clusters : current \notin c /\ added \cap c = {}
  <2>1. current \notin UNION walk.clusters
    BY <1>1, <1>11 DEF Partition
  <2>2. added \cap UNION walk.clusters = {}
    BY <1>1 DEF Partition, added
  <2> QED BY <2>1, <2>2
<1>14. Partition(walk')
  <2>1. Reached(walk') \cap UNION walk.clusters = {}
    BY <1>1, <1>9, <1>13 DEF Partition
  <2> QED BY <1>1, <1>7, <2>1 DEF Partition
<1>15. Frontier(walk')
  <2>1. ASSUME NEW p \in walk.ties, p \cap (walk.component \cup {current}) # {}
        PROVE  p \subseteq Reached(walk) \cup added
    <3>1. CASE p \cap walk.component # {}
      BY <1>1, <3>1 DEF Frontier
    <3>2. CASE current \in p
      <4>1. p \subseteq {current} \cup Neighbors(current)
        BY <1>4, <3>2
      <4>2. \A c \in walk.clusters : p \cap c = {}
        BY <1>1, <1>13, <3>2 DEF Frontier, Closed
      <4>3. p \cap walk.visited \subseteq walk.component
        BY <1>1, <4>2 DEF Partition
      <4> QED BY <1>9, <4>1, <4>3 DEF added, Reached
    <3> QED BY <2>1, <3>1, <3>2
  <2> QED BY <1>1, <1>7, <1>9, <2>1 DEF Frontier
<1>16. Together(walk')
  <2>1. ASSUME NEW C \in SUBSET walk.nodes, Closed(C, walk.ties), (Reached(walk) \cup added) \cap C # {}
        PROVE  Reached(walk) \cup added \subseteq C
    <3>1. \A y \in added : current \in C <=> y \in C
      BY <2>1, NeighborsStayTogether DEF added
    <3>2. Reached(walk) \cap C # {}
      BY <1>9, <2>1, <3>1
    <3>3. Reached(walk) \subseteq C
      BY <1>1, <2>1, <3>2 DEF Together, Tight
    <3> QED BY <1>9, <3>1, <3>3
  <2>2. Tight(Reached(walk'), walk')
    BY <1>7, <1>9, <2>1 DEF Tight
  <2> QED BY <1>1, <1>7, <2>2 DEF Together, Tight
<1>17. Phases(walk')
  BY <1>2, <1>7 DEF Phases
<1> QED BY <1>12, <1>14, <1>15, <1>16, <1>17 DEF WalkSound

LEMMA VisitSound ==
  ASSUME ClustersInv, Visit
  PROVE  ClustersInv'
<1>1. walk.queue # <<>> /\ UNCHANGED <<topics, relations>>
  BY DEF Visit
<1>2. CASE Head(walk.queue) \in walk.visited
  <2>1. walk' = [walk EXCEPT !.queue = Tail(@)]
    BY <1>2 DEF Visit
  <2> QED BY <1>1, <1>2, <2>1, VisitAgainSound DEF ClustersInv
<1>3. CASE Head(walk.queue) \notin walk.visited
  <2>1. PICK order \in Orders(Neighbors(Head(walk.queue)) \ (walk.visited \cup {Head(walk.queue)})) :
          walk' = [walk EXCEPT !.visited = walk.visited \cup {Head(walk.queue)},
                              !.component = @ \cup {Head(walk.queue)},
                              !.queue = Tail(@) \o order]
    BY <1>3 DEF Visit
  <2> QED BY <1>1, <1>3, <2>1, VisitNewSound DEF ClustersInv
<1> QED BY <1>2, <1>3

THEOREM ClustersInvariant == ClustersSpec => []ClustersInv
<1>1. ClustersInit => ClustersInv
  <2> SUFFICES ASSUME ClustersInit PROVE ClustersInv
    OBVIOUS
  <2>1. WalkSound(walk)
    BY SoundAtRest DEF ClustersInit, NoRequest
  <2> QED BY <2>1 DEF ClustersInit, ClustersInv
<1>2. ClustersInv /\ [ClustersNext]_clusterVars => ClustersInv'
  <2> SUFFICES ASSUME ClustersInv, [ClustersNext]_clusterVars PROVE ClustersInv'
    OBVIOUS
  <2>1. CASE \E x \in Topics : CreateTopic(x)
    BY <2>1 DEF CreateTopic, ClustersInv
  <2>2. CASE \E p \in Ties(topics) : Relate(p) \/ Weaken(p)
    BY <2>2 DEF Relate, Weaken, ClustersInv, Ties
  <2>3. CASE \E x \in Topics : StartComponent(x)
    BY <2>3, StartComponentSound
  <2>4. CASE UNCHANGED clusterVars
    BY <2>4 DEF clusterVars, ClustersInv
  <2> QED
    BY <2>1, <2>2, <2>3, <2>4, ReadEntitiesSound, ReadRelationsSound, VisitSound, EndComponentSound,
       EndClustersSound DEF ClustersNext
<1> QED BY <1>1, <1>2, PTL DEF ClustersSpec

\* The clusters a request returns are the connected components of the graph it has read.
THEOREM ClustersAreComponentsHolds == ClustersSpec => []ClustersAreComponents
<1>1. ClustersInv => ClustersAreComponents
  <2> SUFFICES ASSUME ClustersInv, walk.step = "done"
               PROVE  /\ walk.nodes = UNION walk.clusters
                      /\ \A c, d \in walk.clusters : c \cap d # {} => c = d
                      /\ \A x, y \in walk.nodes :
                           (\E c \in walk.clusters : {x, y} \subseteq c) <=> Connected(x, y)
    BY DEF ClustersAreComponents
  <2>1. WalkType(walk) /\ Partition(walk) /\ Frontier(walk) /\ Together(walk) /\ Phases(walk)
    BY DEF ClustersInv, WalkSound
  <2>2. walk.component = {} /\ walk.nodes \subseteq walk.visited /\ walk.visited \subseteq walk.nodes
    BY <2>1 DEF Phases, WalkType
  <2>3. walk.nodes = UNION walk.clusters /\ \A c, d \in walk.clusters : c \cap d # {} => c = d
    BY <2>1, <2>2 DEF Partition
  <2>4. ASSUME NEW x \in walk.nodes, NEW y \in walk.nodes
        PROVE  (\E c \in walk.clusters : {x, y} \subseteq c) <=> Connected(x, y)
    <3>1. ASSUME NEW c \in walk.clusters, {x, y} \subseteq c
          PROVE  Connected(x, y)
      BY <2>1, <3>1 DEF Connected, Together, Tight, Closed
    <3>2. ASSUME Connected(x, y)
          PROVE  \E c \in walk.clusters : {x, y} \subseteq c
      <4>1. PICK c \in walk.clusters : x \in c
        BY <2>3
      <4>2. c \in SUBSET walk.nodes /\ Closed(c, walk.ties)
        BY <2>1, <2>3 DEF Frontier
      <4> QED BY <3>2, <4>1, <4>2 DEF Connected, Closed
    <3> QED BY <3>1, <3>2
  <2> QED BY <2>3, <2>4
<1> QED BY <1>1, ClustersInvariant, PTL

--------------------------------------------------------------------------------
(* Sign up.  Codes that can be used, and requests that are mailing codes, which may all be   *)
(* usable together in the end: none of the requests marked one of the codes.                 *)

CodeRows == [state : {"live", "proved", "used"}, attempts : Nat]

\* The requests that hold a code they have loaded.
Holding == {"guess", "link", "new_password"}

FormFields == {"op", "kind", "code", "attempts", "marked"}

SignUpTypes ==
  /\ DOMAIN codes = Kinds /\ \A k \in Kinds : codes[k] \in Seq(CodeRows)
  /\ DOMAIN peak = Kinds /\ \A k \in Kinds : peak[k] \in Nat /\ peak[k] >= 1
  /\ DOMAIN form = Forms
  /\ \A f \in Forms : DOMAIN form[f] = FormFields /\ form[f].kind \in Kinds /\ form[f].attempts \in Nat

FormSound(f) == form[f].op \in Holding => form[f].code \in 1 .. Len(codes[form[f].kind])

Coexist(k) ==
  \A A \in SUBSET Unused(k), F \in SUBSET Mailing(k) :
    (\A f \in F : A \cap form[f].marked = {}) => Cardinality(A) + Cardinality(F) <= peak[k]

NobodyMailed ==
  person.provider = "none" => codes["verify"] = <<>> /\ \A k \in Kinds : Mailing(k) = {}

SignUpInv ==
  /\ SignUpTypes
  /\ \A f \in Forms : FormSound(f)
  /\ \A k \in Kinds : Coexist(k)
  /\ NobodyMailed

LEMMA SeqDomains ==
  ASSUME SignUpTypes, NEW k \in Kinds
  PROVE  /\ Len(codes[k]) \in Nat /\ DOMAIN codes[k] = 1 .. Len(codes[k])
         /\ \A n \in 1 .. Len(codes[k]) : codes[k][n] \in CodeRows
BY LenProperties, ElementOfSeq DEF SignUpTypes

LEMMA SignUpFinite ==
  ASSUME SignUpTypes, NEW k \in Kinds
  PROVE  IsFiniteSet(Unused(k)) /\ IsFiniteSet(Mailing(k))
<1>1. Unused(k) \subseteq 1 .. Len(codes[k]) /\ Mailing(k) \subseteq Forms
  BY SeqDomains DEF Unused, Mailing
<1>2. PICK l \in Nat : l = Len(codes[k])
  BY SeqDomains
<1>3. IsFiniteSet(1 .. l) /\ IsFiniteSet(Forms)
  BY FS_Interval, SignUpAssumption
<1> QED BY <1>1, <1>2, <1>3, FS_Subset

\* The codes of no kind become more, nor the requests that mail one.
Shrinks(k) ==
  /\ Unused(k)' \subseteq Unused(k)
  /\ \A f \in Mailing(k)' : f \in Mailing(k) /\ form'[f].marked = form[f].marked

LEMMA CoexistShrinks ==
  ASSUME NEW k \in Kinds, Coexist(k), Shrinks(k), UNCHANGED peak
  PROVE  Coexist(k)'
<1> SUFFICES ASSUME NEW A \in SUBSET Unused(k)', NEW F \in SUBSET Mailing(k)',
                    \A f \in F : A \cap form'[f].marked = {}
             PROVE  Cardinality(A) + Cardinality(F) <= peak'[k]
  BY DEF Coexist
<1>1. A \in SUBSET Unused(k) /\ F \in SUBSET Mailing(k) /\ \A f \in F : A \cap form[f].marked = {}
  BY DEF Shrinks
<1> QED BY <1>1 DEF Coexist

\* The rows are as many as before, and none becomes usable again.
SameRows ==
  /\ DOMAIN codes' = Kinds
  /\ \A k \in Kinds : codes'[k] \in Seq(CodeRows) /\ Len(codes'[k]) = Len(codes[k]) /\ Unused(k)' \subseteq Unused(k)

LEMMA UnchangedRows ==
  ASSUME SignUpTypes, UNCHANGED codes
  PROVE  SameRows
BY DEF SignUpTypes, SameRows, Unused

\* Row n of kind k becomes r.
WritesRow(k, n, r) == codes' = [codes EXCEPT ![k] = [codes[k] EXCEPT ![n] = r]]

LEMMA RowWritten ==
  ASSUME SignUpTypes, NEW k \in Kinds, NEW n \in 1 .. Len(codes[k]), NEW r \in CodeRows, WritesRow(k, n, r),
         r.state = "used" \/ codes[k][n].state # "used"
  PROVE  SameRows
<1> DEFINE s == [codes[k] EXCEPT ![n] = r]
<1>1. /\ Len(codes[k]) \in Nat /\ DOMAIN codes[k] = 1 .. Len(codes[k])
      /\ \A m \in 1 .. Len(codes[k]) : codes[k][m] \in CodeRows
      /\ codes[k] \in Seq(CodeRows)
  BY SeqDomains DEF SignUpTypes
<1>2. /\ s \in Seq(CodeRows) /\ Len(s) = Len(codes[k]) /\ s[n] = r
      /\ \A m \in 1 .. Len(codes[k]) : m # n => s[m] = codes[k][m]
  BY <1>1, ExceptSeq
<1>3. DOMAIN codes' = Kinds /\ codes'[k] = s /\ \A j \in Kinds \ {k} : codes'[j] = codes[j]
  BY DEF SignUpTypes, WritesRow
<1>4. DOMAIN s = 1 .. Len(codes[k])
  BY <1>1
<1> HIDE DEF s
<1>5. Unused(k)' \subseteq Unused(k)
  <2> SUFFICES ASSUME NEW m \in 1 .. Len(codes[k]), s[m].state \in {"live", "proved"}
               PROVE  codes[k][m].state \in {"live", "proved"}
    BY <1>1, <1>3, <1>4 DEF Unused
  <2> QED BY <1>1, <1>2 DEF CodeRows
<1>6. ASSUME NEW j \in Kinds, j # k PROVE Unused(j)' \subseteq Unused(j)
  BY <1>3, <1>6 DEF Unused
<1>7. \A j \in Kinds : codes'[j] \in Seq(CodeRows) /\ Len(codes'[j]) = Len(codes[j])
  BY <1>2, <1>3 DEF SignUpTypes
<1> QED BY <1>3, <1>5, <1>6, <1>7 DEF SameRows

\* One request goes on or ends without mailing, and writes at most rows that exist.
LEMMA OneForm ==
  ASSUME SignUpInv, NEW f \in Forms, NEW new, form' = [form EXCEPT ![f] = new],
         DOMAIN new = FormFields, new.kind \in Kinds, new.attempts \in Nat, new.op # "mail",
         new.op \in Holding => new.code \in 1 .. Len(codes[new.kind]),
         SameRows, UNCHANGED peak, person'.provider = "none" => person.provider = "none"
  PROVE  SignUpInv'
<1>1. SignUpTypes /\ \A k \in Kinds : Coexist(k)
  BY DEF SignUpInv
<1>2. DOMAIN form' = Forms /\ form'[f] = new /\ \A g \in Forms \ {f} : form'[g] = form[g]
  BY <1>1 DEF SignUpTypes
<1>3. SignUpTypes'
  BY <1>1, <1>2 DEF SignUpTypes, SameRows
<1>4. ASSUME NEW g \in Forms PROVE FormSound(g)'
  <2>1. CASE g = f
    BY <1>2, <2>1 DEF FormSound, SameRows
  <2>2. CASE g # f
    <3>1. form'[g] = form[g] /\ FormSound(g) /\ form[g].kind \in Kinds
      BY <1>1, <1>2, <2>2 DEF SignUpInv, SignUpTypes
    <3> QED BY <3>1 DEF FormSound, SameRows
  <2> QED BY <2>1, <2>2
<1>5. \A k \in Kinds : Shrinks(k)
  BY <1>2 DEF SameRows, Shrinks, Mailing
<1>6. \A k \in Kinds : Coexist(k)'
  BY <1>1, <1>5, CoexistShrinks
<1>7. NobodyMailed'
  <2> SUFFICES ASSUME person'.provider = "none" PROVE codes'["verify"] = <<>> /\ \A k \in Kinds : Mailing(k)' = {}
    BY DEF NobodyMailed
  <2>1. codes["verify"] = <<>> /\ (\A k \in Kinds : Mailing(k) = {}) /\ "verify" \in Kinds
    BY DEF SignUpInv, NobodyMailed, Kinds
  <2>2. codes'["verify"] \in Seq(CodeRows) /\ Len(codes'["verify"]) = 0
    BY <2>1, EmptySeq DEF SameRows
  <2> QED BY <1>5, <2>1, <2>2, EmptySeq DEF Shrinks
<1> QED BY <1>3, <1>4, <1>6, <1>7 DEF SignUpInv

\* No request moves.
LEMMA NoForms ==
  ASSUME SignUpInv, SameRows, UNCHANGED <<form, peak>>, person'.provider = "none" => person.provider = "none"
  PROVE  SignUpInv'
<1>1. SignUpTypes /\ \A k \in Kinds : Coexist(k)
  BY DEF SignUpInv
<1>2. SignUpTypes'
  BY <1>1 DEF SignUpTypes, SameRows
<1>3. \A g \in Forms : FormSound(g)'
  BY <1>1 DEF SignUpInv, SignUpTypes, FormSound, SameRows
<1>4. \A k \in Kinds : Shrinks(k)
  BY DEF SameRows, Shrinks, Mailing
<1>5. \A k \in Kinds : Coexist(k)'
  BY <1>1, <1>4, CoexistShrinks
<1>6. NobodyMailed'
  <2> SUFFICES ASSUME person'.provider = "none" PROVE codes'["verify"] = <<>> /\ \A k \in Kinds : Mailing(k)' = {}
    BY DEF NobodyMailed
  <2>1. codes["verify"] = <<>> /\ (\A k \in Kinds : Mailing(k) = {}) /\ "verify" \in Kinds
    BY DEF SignUpInv, NobodyMailed, Kinds
  <2>2. codes'["verify"] \in Seq(CodeRows) /\ Len(codes'["verify"]) = 0
    BY <2>1, EmptySeq DEF SameRows
  <2> QED BY <1>4, <2>1, <2>2, EmptySeq DEF Shrinks
<1> QED BY <1>2, <1>3, <1>5, <1>6 DEF SignUpInv

LEMMA EnterInv ==
  ASSUME SignUpInv, NEW f \in Forms, NEW op \in {"window", "register"}, NEW kind \in Kinds, Enter(f, op, kind)
  PROVE  SignUpInv'
<1>1. PICK new : new = [NoForm EXCEPT !.op = op, !.kind = kind]
  OBVIOUS
<1>2. DOMAIN new = FormFields /\ new.kind = kind /\ new.attempts = 0 /\ new.op = op
  BY <1>1 DEF NoForm, FormFields
<1>3. form' = [form EXCEPT ![f] = new] /\ UNCHANGED <<person, codes, peak>>
  BY <1>1 DEF Enter
<1>4. SameRows
  BY <1>3, UnchangedRows DEF SignUpInv
<1>5. new.op \notin Holding /\ new.op # "mail" /\ new.kind \in Kinds /\ new.attempts \in Nat
  BY <1>2 DEF Holding
<1> QED BY <1>2, <1>3, <1>4, <1>5, OneForm

LEMMA LoadInv ==
  ASSUME SignUpInv, NEW f \in Forms, NEW op \in Holding, NEW kind \in Kinds, NEW n \in Unused(kind),
         Load(f, op, kind, n)
  PROVE  SignUpInv'
<1>1. PICK new : new = [NoForm EXCEPT !.op = op, !.kind = kind, !.code = n, !.attempts = codes[kind][n].attempts]
  OBVIOUS
<1>2. /\ DOMAIN new = FormFields /\ new.kind = kind /\ new.op = op /\ new.code = n
      /\ new.attempts = codes[kind][n].attempts
  BY <1>1 DEF NoForm, FormFields
<1>3. form' = [form EXCEPT ![f] = new] /\ UNCHANGED <<person, codes, peak>>
  BY <1>1 DEF Load
<1>4. SameRows
  BY <1>3, UnchangedRows DEF SignUpInv
<1>5. n \in 1 .. Len(codes[kind]) /\ codes[kind][n] \in CodeRows
  BY SeqDomains DEF SignUpInv, Unused
<1>6. new.op # "mail" /\ new.kind \in Kinds /\ new.attempts \in Nat
  BY <1>2, <1>5 DEF Holding, CodeRows
<1> QED BY <1>2, <1>3, <1>4, <1>5, <1>6, OneForm

\* A request is over; what it wrote is in rows that exist.
LEMMA FinishInv ==
  ASSUME SignUpInv, NEW f \in Forms, Finish(f), SameRows, person'.provider = "none" => person.provider = "none"
  PROVE  SignUpInv'
<1>1. PICK new : new = NoForm
  OBVIOUS
<1>2. DOMAIN new = FormFields /\ new.kind \in Kinds /\ new.attempts \in Nat /\ new.op # "mail" /\ new.op \notin Holding
  BY <1>1 DEF NoForm, FormFields, Kinds, Holding
<1>3. form' = [form EXCEPT ![f] = new] /\ UNCHANGED peak
  BY <1>1 DEF Finish
<1> QED BY <1>2, <1>3, OneForm

LEMMA FinishQuietly ==
  ASSUME SignUpInv, NEW f \in Forms, Finish(f), UNCHANGED <<person, codes>>
  PROVE  SignUpInv'
<1>1. SameRows
  BY UnchangedRows DEF SignUpInv
<1> QED BY <1>1, FinishInv

\* The row a request holds.
LEMMA HeldRow ==
  ASSUME SignUpInv, NEW f \in Forms, form[f].op \in Holding
  PROVE  /\ SignUpTypes /\ form[f].kind \in Kinds /\ form[f].attempts \in Nat
         /\ form[f].code \in 1 .. Len(codes[form[f].kind])
         /\ codes[form[f].kind][form[f].code] \in CodeRows
<1>1. SignUpTypes /\ form[f].kind \in Kinds /\ form[f].attempts \in Nat /\ FormSound(f)
  BY DEF SignUpInv, SignUpTypes
<1> QED BY <1>1, SeqDomains DEF FormSound

LEMMA WrongInv ==
  ASSUME SignUpInv, NEW f \in Forms, WrongOtp(f)
  PROVE  SignUpInv'
<1>1. /\ form[f].op \in Holding /\ Finish(f) /\ UNCHANGED person
      /\ codes' = [codes EXCEPT ![form[f].kind][form[f].code].attempts = form[f].attempts + 1]
  BY DEF WrongOtp, Holding
<1>2. PICK k \in Kinds : k = form[f].kind
  BY <1>1, HeldRow
<1>3. PICK n \in 1 .. Len(codes[k]) : n = form[f].code
  BY <1>1, <1>2, HeldRow
<1>4. PICK r : r = [codes[k][n] EXCEPT !.attempts = form[f].attempts + 1]
  OBVIOUS
<1>5. SignUpTypes /\ codes[k][n] \in CodeRows /\ form[f].attempts \in Nat
  BY <1>1, <1>2, <1>3, HeldRow
<1>6. r \in CodeRows /\ r.state = codes[k][n].state
  BY <1>4, <1>5 DEF CodeRows
<1>7. WritesRow(k, n, r)
  BY <1>1, <1>2, <1>3, <1>4, <1>5 DEF SignUpTypes, WritesRow
<1>8. r.state = "used" \/ codes[k][n].state # "used"
  BY <1>6
<1>9. SameRows
  BY <1>5, <1>6, <1>7, <1>8, RowWritten
<1> QED BY <1>1, <1>9, FinishInv

\* A use of a code: it is marked used.
Spends(f) == codes' = [codes EXCEPT ![form[f].kind][form[f].code].state = "used"]

LEMMA SpendInv ==
  ASSUME SignUpInv, NEW f \in Forms, form[f].op \in Holding, Finish(f),
         Spends(f),
         person'.provider = "none" => person.provider = "none"
  PROVE  SignUpInv'
<1>2. PICK k \in Kinds : k = form[f].kind
  BY HeldRow
<1>3. PICK n \in 1 .. Len(codes[k]) : n = form[f].code
  BY <1>2, HeldRow
<1>4. PICK r : r = [codes[k][n] EXCEPT !.state = "used"]
  OBVIOUS
<1>5. SignUpTypes /\ codes[k][n] \in CodeRows
  BY <1>2, <1>3, HeldRow
<1>6. r \in CodeRows /\ r.state = "used"
  BY <1>4, <1>5 DEF CodeRows
<1>7. WritesRow(k, n, r)
  BY <1>2, <1>3, <1>4, <1>5 DEF SignUpTypes, WritesRow, Spends
<1>8. r.state = "used" \/ codes[k][n].state # "used"
  BY <1>6
<1>9. SameRows
  BY <1>5, <1>6, <1>7, <1>8, RowWritten
<1> QED BY <1>9, FinishInv

LEMMA VerifyResetInv ==
  ASSUME SignUpInv, NEW f \in Forms, VerifyReset(f)
  PROVE  SignUpInv'
<1>1. /\ form[f].op \in Holding /\ Finish(f) /\ UNCHANGED person /\ form[f].kind = "reset"
      /\ codes' = [codes EXCEPT !["reset"][form[f].code].state = IF @ = "live" THEN "proved" ELSE @]
  BY DEF VerifyReset, Holding
<1>2. PICK k \in Kinds : k = form[f].kind
  BY <1>1, HeldRow
<1>3. PICK n \in 1 .. Len(codes[k]) : n = form[f].code
  BY <1>1, <1>2, HeldRow
<1>4. PICK r : r = [codes[k][n] EXCEPT !.state = IF @ = "live" THEN "proved" ELSE @]
  OBVIOUS
<1>5. SignUpTypes /\ codes[k][n] \in CodeRows
  BY <1>1, <1>2, <1>3, HeldRow
<1>6. r \in CodeRows /\ (r.state = "used" \/ codes[k][n].state # "used")
  BY <1>4, <1>5 DEF CodeRows
<1>7. WritesRow(k, n, r)
  BY <1>1, <1>2, <1>3, <1>4, <1>5 DEF SignUpTypes, WritesRow
<1>8. SameRows
  BY <1>5, <1>6, <1>7, RowWritten
<1> QED BY <1>1, <1>8, FinishInv

LEMMA ExpireInv ==
  ASSUME SignUpInv, NEW k \in Kinds, CodeExpires(k)
  PROVE  SignUpInv'
<1>1. PICK n \in Unused(k) : codes' = [codes EXCEPT ![k][n].state = "used"]
  BY DEF CodeExpires
<1>2. SignUpTypes /\ UNCHANGED <<person, form, peak>>
  BY DEF SignUpInv, CodeExpires
<1>3. PICK r : r = [codes[k][n] EXCEPT !.state = "used"]
  OBVIOUS
<1>4. n \in 1 .. Len(codes[k]) /\ codes[k][n] \in CodeRows
  BY <1>2, SeqDomains DEF Unused
<1>5. r \in CodeRows /\ r.state = "used"
  BY <1>3, <1>4 DEF CodeRows
<1>6. WritesRow(k, n, r)
  BY <1>1, <1>2, <1>3, <1>4 DEF SignUpTypes, WritesRow
<1>7. SameRows
  BY <1>2, <1>4, <1>5, <1>6, RowWritten
<1> QED BY <1>2, <1>7, NoForms

\* A request marks all unused codes: beside it only other requests can end up with a code.
LEMMA MarkInv ==
  ASSUME SignUpInv, NEW f \in Forms, MarkCodes(f)
  PROVE  SignUpInv'
<1>1. PICK k \in Kinds : k = form[f].kind
  BY DEF SignUpInv, SignUpTypes
<1>2. PICK others : others = Mailing(k) \ {f}
  OBVIOUS
<1>3. PICK most : most = IF peak[k] > Cardinality(others) THEN peak[k] ELSE Cardinality(others) + 1
  OBVIOUS
<1>4. /\ form[f].op = "window" /\ Addressed(k) /\ UNCHANGED <<person, codes>>
      /\ form' = [form EXCEPT ![f].op = "mail", ![f].marked = Unused(k)]
      /\ peak' = [peak EXCEPT ![k] = most]
  BY <1>1, <1>2, <1>3 DEF MarkCodes, Replaced
<1>5. SignUpTypes /\ \A j \in Kinds : Coexist(j)
  BY DEF SignUpInv
<1>6. PICK new : new = [form[f] EXCEPT !.op = "mail", !.marked = Unused(k)]
  OBVIOUS
<1>7. /\ DOMAIN new = FormFields /\ new.op = "mail" /\ new.marked = Unused(k) /\ new.kind = k
      /\ new.attempts \in Nat
  BY <1>1, <1>5, <1>6 DEF SignUpTypes, FormFields
<1>8. DOMAIN form' = Forms /\ form'[f] = new /\ \A g \in Forms \ {f} : form'[g] = form[g]
  BY <1>4, <1>5, <1>6 DEF SignUpTypes
<1>9. others = Mailing(k) /\ Mailing(k)' = others \cup {f} /\ f \notin others
  BY <1>1, <1>2, <1>4, <1>7, <1>8 DEF Mailing
<1>10. IsFiniteSet(others) /\ Cardinality(others) \in Nat
  BY <1>5, <1>9, SignUpFinite, FS_CardinalityType
<1>11. /\ most \in Nat /\ most >= 1 /\ most >= peak[k] /\ most >= Cardinality(others) + 1
       /\ DOMAIN peak' = Kinds /\ peak'[k] = most /\ \A j \in Kinds \ {k} : peak'[j] = peak[j]
  BY <1>3, <1>4, <1>5, <1>10 DEF SignUpTypes
<1>12. SignUpTypes'
  BY <1>4, <1>5, <1>7, <1>8, <1>11 DEF SignUpTypes
<1>13. \A g \in Forms : FormSound(g)'
  BY <1>4, <1>7, <1>8 DEF SignUpInv, FormSound, Holding
<1>14. Coexist(k)'
  <2> SUFFICES ASSUME NEW A \in SUBSET Unused(k)', NEW F \in SUBSET Mailing(k)',
                      \A g \in F : A \cap form'[g].marked = {}
               PROVE  Cardinality(A) + Cardinality(F) <= peak'[k]
    BY DEF Coexist
  <2>1. Unused(k)' = Unused(k)
    BY <1>4 DEF Unused
  <2>2. CASE f \in F
    <3>1. A = {}
      BY <1>7, <1>8, <2>1, <2>2
    <3>2. Cardinality(A) = 0
      BY <3>1, FS_EmptySet
    <3>3. F \ {f} \subseteq others /\ IsFiniteSet(F)
      <4>1. IsFiniteSet(others \cup {f})
        BY <1>9, <1>10, FS_AddElement
      <4> QED BY <1>9, <4>1, FS_Subset
    <3>4. Cardinality(F \ {f}) <= Cardinality(others) /\ Cardinality(F \ {f}) = Cardinality(F) - 1
      BY <1>10, <2>2, <3>3, FS_Subset, FS_RemoveElement
    <3>5. Cardinality(F) \in Nat
      BY <3>3, FS_CardinalityType
    <3> QED BY <1>10, <1>11, <3>2, <3>4, <3>5
  <2>3. CASE f \notin F
    <3>1. F \in SUBSET Mailing(k) /\ \A g \in F : A \cap form[g].marked = {}
      BY <1>8, <1>9, <2>3 DEF Mailing
    <3>2. Cardinality(A) + Cardinality(F) <= peak[k]
      BY <1>5, <2>1, <3>1 DEF Coexist
    <3>3. Cardinality(A) \in Nat /\ Cardinality(F) \in Nat
      BY <1>5, <2>1, <3>1, SignUpFinite, FS_Subset, FS_CardinalityType
    <3>4. peak[k] \in Nat
      BY <1>5 DEF SignUpTypes
    <3> QED BY <1>11, <3>2, <3>3, <3>4
  <2> QED BY <2>2, <2>3
<1>15. ASSUME NEW j \in Kinds, j # k PROVE Coexist(j)'
  <2>1. Coexist(j) /\ Unused(j)' = Unused(j) /\ peak'[j] = peak[j]
    BY <1>4, <1>5, <1>11, <1>15 DEF Unused
  <2>2. Mailing(j)' = Mailing(j) /\ \A g \in Mailing(j) : form'[g] = form[g]
    BY <1>4, <1>7, <1>8, <1>15 DEF Mailing
  <2> QED BY <2>1, <2>2 DEF Coexist
<1>16. NobodyMailed'
  BY <1>4 DEF Addressed, NobodyMailed
<1> QED BY <1>12, <1>13, <1>14, <1>15, <1>16 DEF SignUpInv

\* A new row: the request that mailed it is over, and of the codes before some are used up.
LEMMA AppendInv ==
  ASSUME SignUpInv, NEW f \in Forms, Finish(f), NEW k \in Kinds, NEW s \in Seq(CodeRows), Len(s) = Len(codes[k]),
         codes' = [codes EXCEPT ![k] = Append(s, NewCode)],
         person'.provider # "none",
         f \in Mailing(k) \/ (Mailing(k) = {} /\ Unused(k) = {}),
         \A n \in 1 .. Len(codes[k]) : s[n].state # "used" =>
           n \in Unused(k) /\ (f \in Mailing(k) => n \notin form[f].marked)
  PROVE  SignUpInv'
<1>1. SignUpTypes /\ \A j \in Kinds : Coexist(j)
  BY DEF SignUpInv
<1>2. PICK l \in Nat : l = Len(codes[k])
  BY <1>1, SeqDomains
<1>3. PICK t : t = Append(s, NewCode)
  OBVIOUS
<1>4. NewCode \in CodeRows
  BY DEF NewCode, CodeRows
<1>5. /\ t \in Seq(CodeRows) /\ Len(t) = l + 1 /\ t[l + 1] = NewCode
      /\ \A n \in 1 .. l : t[n] = s[n] /\ s[n] \in CodeRows
  <2>1. \A n \in 1 .. l : s[n] \in CodeRows
    BY <1>2, ElementOfSeq
  <2> QED BY <1>2, <1>3, <1>4, <2>1, AppendProperties
<1>6. DOMAIN t = 1 .. (l + 1)
  BY <1>5, LenProperties
<1>7. DOMAIN codes' = Kinds /\ codes'[k] = t /\ \A j \in Kinds \ {k} : codes'[j] = codes[j]
  BY <1>1, <1>3 DEF SignUpTypes
<1>8. PICK new : new = NoForm
  OBVIOUS
<1>9. DOMAIN new = FormFields /\ new.kind \in Kinds /\ new.attempts \in Nat /\ new.op = "idle"
  BY <1>8 DEF NoForm, FormFields, Kinds
<1>10. DOMAIN form' = Forms /\ form'[f] = new /\ peak' = peak /\ \A g \in Forms \ {f} : form'[g] = form[g]
  BY <1>1, <1>8 DEF SignUpTypes, Finish
<1>11. SignUpTypes'
  BY <1>1, <1>5, <1>7, <1>9, <1>10 DEF SignUpTypes
<1>12. ASSUME NEW g \in Forms PROVE FormSound(g)'
  <2>1. CASE g = f
    BY <1>9, <1>10, <2>1 DEF FormSound, Holding
  <2>2. CASE g # f
    <3>1. form'[g] = form[g] /\ FormSound(g)
      BY <1>10, <2>2 DEF SignUpInv
    <3>2. PICK j \in Kinds : j = form[g].kind
      BY <1>1 DEF SignUpTypes
    <3>3. \A n \in 1 .. Len(codes[j]) : n \in 1 .. Len(codes'[j])
      BY <1>2, <1>5, <1>7
    <3> QED BY <3>1, <3>2, <3>3 DEF FormSound
  <2> QED BY <2>1, <2>2
<1>13. \A j \in Kinds : Mailing(j)' = Mailing(j) \ {f}
  BY <1>9, <1>10 DEF Mailing
<1>14. Unused(k)' \subseteq Unused(k) \cup {l + 1}
       /\ \A n \in Unused(k)' : n # l + 1 /\ f \in Mailing(k) => n \notin form[f].marked
  <2>1. Unused(k)' = {n \in 1 .. (l + 1) : t[n].state \in {"live", "proved"}}
    BY <1>6, <1>7 DEF Unused
  <2>2. ASSUME NEW n \in 1 .. l, t[n].state \in {"live", "proved"}
        PROVE  n \in Unused(k) /\ (f \in Mailing(k) => n \notin form[f].marked)
    BY <1>2, <1>5, <2>2
  <2> QED BY <2>1, <2>2
<1>15. Coexist(k)'
  <2> SUFFICES ASSUME NEW A \in SUBSET Unused(k)', NEW F \in SUBSET Mailing(k)',
                      \A g \in F : A \cap form'[g].marked = {}
               PROVE  Cardinality(A) + Cardinality(F) <= peak'[k]
    BY DEF Coexist
  <2>1. PICK B : B = A \ {l + 1}
    OBVIOUS
  <2>2. B \subseteq Unused(k) /\ F \subseteq Mailing(k) \ {f} /\ \A g \in F : form'[g] = form[g] /\ B \cap form[g].marked = {}
    BY <1>10, <1>13, <1>14, <2>1 DEF Mailing
  <2>3. IsFiniteSet(Unused(k)') /\ IsFiniteSet(B) /\ IsFiniteSet(F) /\ Cardinality(B) \in Nat /\ Cardinality(F) \in Nat
    <3>1. IsFiniteSet(Unused(k)) /\ IsFiniteSet(Mailing(k))
      BY <1>1, SignUpFinite
    <3>2. IsFiniteSet(Unused(k) \cup {l + 1})
      BY <3>1, FS_AddElement
    <3> QED BY <1>14, <2>2, <3>1, <3>2, FS_Subset, FS_CardinalityType
  <2>4. Cardinality(A) <= Cardinality(B) + 1 /\ Cardinality(A) \in Nat
    <3>1. IsFiniteSet(A)
      BY <2>3, FS_Subset
    <3>2. CASE l + 1 \in A
      <4>1. Cardinality(A \ {l + 1}) = Cardinality(A) - 1 /\ Cardinality(A) \in Nat
        BY <3>1, <3>2, FS_RemoveElement, FS_CardinalityType
      <4> QED BY <2>1, <2>3, <4>1
    <3>3. CASE l + 1 \notin A
      <4>1. A = B
        BY <2>1, <3>3
      <4> QED BY <2>3, <4>1
    <3> QED BY <3>2, <3>3
  <2>5. peak[k] \in Nat /\ peak[k] >= 1 /\ peak' = peak
    BY <1>1, <1>10 DEF SignUpTypes
  <2>6. CASE f \in Mailing(k)
    <3>1. PICK G : G = F \cup {f}
      OBVIOUS
    <3>2. G \in SUBSET Mailing(k) /\ f \notin F /\ B \in SUBSET Unused(k)
      BY <2>2, <2>6, <3>1
    <3>3. B \cap form[f].marked = {}
      BY <1>14, <2>1, <2>6
    <3>4. \A g \in G : B \cap form[g].marked = {}
      BY <2>2, <3>1, <3>3
    <3>5. Cardinality(B) + Cardinality(G) <= peak[k]
      BY <1>1, <3>2, <3>4 DEF Coexist
    <3>6. Cardinality(G) = Cardinality(F) + 1
      BY <2>3, <3>1, <3>2, FS_AddElement
    <3> QED BY <2>3, <2>4, <2>5, <3>5, <3>6
  <2>7. CASE Mailing(k) = {} /\ Unused(k) = {}
    <3>1. F = {} /\ B = {}
      BY <2>2, <2>7
    <3>2. Cardinality(F) = 0 /\ Cardinality(B) = 0
      BY <3>1, FS_EmptySet
    <3> QED BY <2>4, <2>5, <3>2
  <2> QED BY <2>6, <2>7
<1>16. ASSUME NEW j \in Kinds, j # k PROVE Coexist(j)'
  <2>1. Coexist(j) /\ Unused(j)' = Unused(j)
    BY <1>1, <1>7, <1>16 DEF Unused
  <2>2. Shrinks(j)
    BY <1>10, <1>13, <2>1 DEF Shrinks, Mailing
  <2> QED BY <1>10, <2>1, <2>2, CoexistShrinks
<1>17. NobodyMailed'
  BY DEF NobodyMailed
<1> QED BY <1>11, <1>12, <1>15, <1>16, <1>17 DEF SignUpInv

LEMMA MailCodeInv ==
  ASSUME SignUpInv, NEW f \in Forms, MailCode(f)
  PROVE  SignUpInv'
<1>1. SignUpTypes /\ NobodyMailed
  BY DEF SignUpInv
<1>2. PICK k \in Kinds : k = form[f].kind
  BY <1>1 DEF SignUpTypes
<1>3. /\ Len(codes[k]) \in Nat /\ DOMAIN codes[k] = 1 .. Len(codes[k])
      /\ \A n \in 1 .. Len(codes[k]) : codes[k][n] \in CodeRows
  BY <1>1, SeqDomains
<1> DEFINE NewRow(n) == IF n \in form[f].marked \cap Unused(k)
                       THEN [codes[k][n] EXCEPT !.state = "used"] ELSE codes[k][n]
           rows == [n \in 1 .. Len(codes[k]) |-> NewRow(n)]
<1>4. \A n \in 1 .. Len(codes[k]) : NewRow(n) \in CodeRows /\ (NewRow(n).state # "used" => n \in Unused(k) /\ n \notin form[f].marked)
  BY <1>3 DEF CodeRows, Unused
<1>5. rows \in Seq(CodeRows) /\ Len(rows) = Len(codes[k]) /\ \A n \in 1 .. Len(codes[k]) : rows[n] = NewRow(n)
  <2>1. rows \in [1 .. Len(codes[k]) -> CodeRows] /\ \A n \in 1 .. Len(codes[k]) : rows[n] = NewRow(n)
    BY <1>3, <1>4
  <2> HIDE DEF rows, NewRow
  <2> QED BY <1>3, <2>1, SeqDef, LenProperties
<1>6. form[f].op = "mail" /\ Finish(f) /\ UNCHANGED person /\ codes' = [codes EXCEPT ![k] = Append(rows, NewCode)]
  BY <1>1, <1>2, <1>3 DEF MailCode, SignUpTypes
<1> HIDE DEF rows, NewRow
<1>7. PICK s \in Seq(CodeRows) : s = rows
  BY <1>5
<1>8. \A n \in 1 .. Len(codes[k]) : s[n].state # "used" => n \in Unused(k) /\ n \notin form[f].marked
  BY <1>4, <1>5, <1>7
<1>9. f \in Mailing(k)
  BY <1>2, <1>6 DEF Mailing
<1>10. person'.provider # "none"
  BY <1>1, <1>6, <1>9 DEF NobodyMailed
<1> QED BY <1>5, <1>6, <1>7, <1>8, <1>9, <1>10, AppendInv

LEMMA RegisterInv ==
  ASSUME SignUpInv, NEW f \in Forms, Register(f)
  PROVE  SignUpInv'
<1>1. SignUpTypes /\ NobodyMailed /\ Finish(f)
  BY DEF SignUpInv, Register
<1>2. CASE person.provider # "none"
  BY <1>1, <1>2, FinishQuietly DEF Register
<1>3. CASE person.provider = "none"
  <2>1. PICK k \in Kinds : k = "verify"
    BY DEF Kinds
  <2>2. codes[k] = <<>> /\ Mailing(k) = {}
    BY <1>1, <1>3, <2>1 DEF NobodyMailed
  <2>3. PICK s \in Seq(CodeRows) : s = <<>>
    BY EmptySeq
  <2>4. Len(s) = 0 /\ Len(codes[k]) = 0 /\ Unused(k) = {}
    BY <1>1, <2>2, <2>3, EmptySeq, SeqDomains DEF Unused
  <2>5. /\ person' = [NoPerson EXCEPT !.provider = "email"]
        /\ codes' = [codes EXCEPT ![k] = Append(s, NewCode)]
    BY <1>3, <2>1, <2>2, <2>3 DEF Register
  <2>6. person'.provider # "none"
    BY <2>5 DEF NoPerson
  <2>7. Len(s) = Len(codes[k])
    BY <2>4
  <2>8. \A n \in 1 .. Len(codes[k]) : s[n].state # "used" =>
          n \in Unused(k) /\ (f \in Mailing(k) => n \notin form[f].marked)
    BY <2>4
  <2> QED BY <1>1, <2>2, <2>4, <2>5, <2>6, <2>7, <2>8, AppendInv
<1> QED BY <1>2, <1>3

LEMMA SignUpInitInv == SignUpInit => SignUpInv
<1> SUFFICES ASSUME SignUpInit PROVE SignUpInv
  OBVIOUS
<1>1. /\ \A k \in Kinds : codes[k] = <<>> /\ peak[k] = 1
      /\ \A f \in Forms : form[f] = NoForm
  BY DEF SignUpInit
<1>2. <<>> \in Seq(CodeRows) /\ Len(<<>>) = 0
  BY EmptySeq
<1>3. SignUpTypes
  BY <1>1, <1>2 DEF SignUpInit, SignUpTypes, NoForm, FormFields, Kinds
<1>4. \A k \in Kinds : Mailing(k) = {} /\ Unused(k) = {}
  BY <1>1, <1>2 DEF Mailing, Unused, NoForm
<1>5. \A k \in Kinds : Coexist(k)
  <2> SUFFICES ASSUME NEW k \in Kinds, NEW A \in SUBSET Unused(k), NEW F \in SUBSET Mailing(k)
               PROVE  Cardinality(A) + Cardinality(F) <= peak[k]
    BY DEF Coexist
  <2>1. A = {} /\ F = {}
    BY <1>4
  <2>2. Cardinality(A) = 0 /\ Cardinality(F) = 0
    BY <2>1, FS_EmptySet
  <2> QED BY <1>1, <2>2
<1>6. \A f \in Forms : FormSound(f)
  BY <1>1 DEF FormSound, NoForm, Holding
<1>7. NobodyMailed
  BY <1>1, <1>4 DEF NobodyMailed, Kinds
<1> QED BY <1>3, <1>5, <1>6, <1>7 DEF SignUpInv

LEMMA SignUpNextInv == SignUpInv /\ [SignUpNext]_signUpVars => SignUpInv'
<1> SUFFICES ASSUME SignUpInv, [SignUpNext]_signUpVars PROVE SignUpInv'
  OBVIOUS
<1>1. "verify" \in Kinds /\ "reset" \in Kinds /\ {"window", "register"} \cap Holding = {}
      /\ \A k \in Kinds : Live(k) \subseteq Unused(k)
  BY DEF Kinds, Holding, Live, Unused
<1>2. ASSUME NEW f \in Forms, NEW k \in Kinds, OpenWindow(f, k) PROVE SignUpInv'
  BY <1>2, EnterInv DEF OpenWindow
<1>3. ASSUME NEW f \in Forms, MailRefused(f) PROVE SignUpInv'
  BY <1>3, FinishQuietly DEF MailRefused
<1>4. ASSUME NEW f \in Forms, RegisterBegins(f) PROVE SignUpInv'
  BY <1>1, <1>4, EnterInv DEF RegisterBegins
<1>5. ASSUME NEW f \in Forms, EnterOtp(f) PROVE SignUpInv'
  <2>1. PICK n \in Live("verify") : Load(f, "guess", "verify", n)
    BY <1>5 DEF EnterOtp
  <2> QED BY <1>1, <2>1, LoadInv DEF Holding
<1>6. ASSUME NEW f \in Forms, EnterLink(f) PROVE SignUpInv'
  BY <1>1, <1>6, LoadInv DEF EnterLink, Holding
<1>7. ASSUME NEW f \in Forms, VerifyEmail(f) PROVE SignUpInv'
  <2>1. /\ form[f].op \in Holding /\ Finish(f) /\ Spends(f)
        /\ person' = [person EXCEPT !.verified = TRUE]
    BY <1>7 DEF VerifyEmail, Holding, Spends
  <2>2. person'.provider = person.provider
    BY <2>1
  <2> QED BY <2>1, <2>2, SpendInv
<1>8. ASSUME NEW f \in Forms, EnterResetOtp(f) PROVE SignUpInv'
  <2>1. PICK n \in Live("reset") : Load(f, "guess", "reset", n)
    BY <1>8 DEF EnterResetOtp
  <2> QED BY <1>1, <2>1, LoadInv DEF Holding
<1>9. ASSUME NEW f \in Forms, EnterResetLink(f) PROVE SignUpInv'
  BY <1>1, <1>9, LoadInv DEF EnterResetLink, Holding
<1>10. ASSUME NEW f \in Forms, ResetBegins(f) PROVE SignUpInv'
  <2>1. PICK n \in Unused("reset") : Load(f, "new_password", "reset", n)
    BY <1>10 DEF ResetBegins
  <2> QED BY <1>1, <2>1, LoadInv DEF Holding
<1>11. ASSUME NEW f \in Forms, ResetPassword(f) PROVE SignUpInv'
  <2>1. form[f].op \in Holding /\ Finish(f) /\ person' = person
    BY <1>11 DEF ResetPassword, Holding
  <2>2. Spends(f)
    BY <1>11 DEF ResetPassword, Spends
  <2>3. person'.provider = person.provider
    BY <2>1
  <2> QED BY <2>1, <2>2, <2>3, SpendInv
<1>12. ASSUME NEW f \in Forms, FormDies(f) PROVE SignUpInv'
  BY <1>12, FinishQuietly DEF FormDies
<1>13. CASE GoogleUser \/ CompleteOnboarding
  <2>1. UNCHANGED <<codes, form, peak>>
    BY <1>13 DEF GoogleUser, CompleteOnboarding
  <2>2. GoogleUser => person'.provider = "google"
    BY DEF GoogleUser, NoPerson
  <2>3. CompleteOnboarding => person'.provider = person.provider
    BY DEF CompleteOnboarding
  <2>4. person'.provider = "none" => person.provider = "none"
    BY <1>13, <2>2, <2>3
  <2>5. SameRows
    BY <2>1, UnchangedRows DEF SignUpInv
  <2> QED BY <2>1, <2>4, <2>5, NoForms
<1>14. ASSUME NEW k \in Kinds, CloseWindow(k) PROVE SignUpInv'
  <2>1. SameRows
    BY <1>14, UnchangedRows DEF SignUpInv, CloseWindow
  <2> QED BY <1>14, <2>1, NoForms DEF CloseWindow
<1>15. CASE UNCHANGED signUpVars
  <2>1. SameRows
    BY <1>15, UnchangedRows DEF SignUpInv, signUpVars
  <2> QED BY <1>15, <2>1, NoForms DEF signUpVars
<1> QED BY <1>2, <1>3, <1>4, <1>5, <1>6, <1>7, <1>8, <1>9, <1>10, <1>11, <1>12, <1>13, <1>14, <1>15,
           MarkInv, MailCodeInv, RegisterInv, WrongInv, VerifyResetInv, ExpireInv DEF SignUpNext

\* A resend replaces the codes before it, however it overlaps with other resends, guesses,
\* resets and crashes: no more codes of a kind can be used than requests were mailing one of
\* that kind at once.
THEOREM FewCodesAlwaysWork == SignUpSpec => []FewCodesWork
<1>1. SignUpInv => FewCodesWork
  <2> SUFFICES ASSUME SignUpInv, NEW k \in Kinds PROVE Cardinality(Unused(k)) <= peak[k]
    BY DEF FewCodesWork
  <2>1. SignUpTypes /\ Coexist(k)
    BY DEF SignUpInv
  <2>2. PICK A \in SUBSET Unused(k) : A = Unused(k)
    OBVIOUS
  <2>3. PICK F \in SUBSET Mailing(k) : F = {}
    OBVIOUS
  <2>4. Cardinality(A) + Cardinality(F) <= peak[k]
    BY <2>1, <2>3 DEF Coexist
  <2>5. Cardinality(F) = 0 /\ Cardinality(A) \in Nat
    BY <2>1, <2>2, <2>3, FS_EmptySet, SignUpFinite, FS_CardinalityType
  <2> QED BY <2>2, <2>4, <2>5
<1> QED BY <1>1, SignUpInitInv, SignUpNextInv, PTL DEF SignUpSpec

--------------------------------------------------------------------------------
(* The access ledger.  Only a call that is over has a row, and what the row says stays true:
   no id of a call ever made is created again. *)

Over == {"answered", "not_found"}

HasRow(c) == \E r \in ledger : r.call = c

\* A step belongs to a tool, and what the call has seen and done so far to its step.
CallSound(c) ==
  /\ DOMAIN call[c] = {"agent", "tool", "id", "step", "ids", "did"}
  /\ call[c].ids \subseteq Own /\ call[c].did \subseteq Own
  /\ call[c].tool \in {"get", "delete", "forget", "timeline"} => call[c].id # NoId
  /\ call[c].step \in {"none", "begun", "refused", "not_found"} => call[c].ids = {} /\ call[c].did = {}
  /\ call[c].step \in {"recalled", "read", "found"} => call[c].did = {}
  /\ call[c].step = "found" => call[c].id \in Own
  /\ call[c].step = "added" => \E m \in Own : call[c].did = {m}
  /\ call[c].step = "read" => call[c].ids \subseteq {call[c].id}
  /\ call[c].step = "erased" /\ call[c].did # {} => call[c].id \notin kept
  /\ call[c].step \in {"none", "begun", "recalled", "read", "added", "found", "erased", "answered",
                       "not_found", "failed", "refused"}
  /\ call[c].step = "answered" => HasRow(c) \/ c \in pruned

RowSound(r) ==
  /\ DOMAIN r = {"call", "agent", "tool", "about", "named", "done"}
  /\ r.call \in Calls /\ call[r.call].step \in Over
  /\ r.agent = call[r.call].agent /\ r.tool = call[r.call].tool
  /\ r.tool \in {"search", "list"} => call[r.call].ids = r.named
  /\ r.tool = "get" => r.about \in {call[r.call].id, NoId} /\ call[r.call].ids \subseteq {call[r.call].id}
  /\ r.tool = "get" /\ r.about = NoId /\ r.done => call[r.call].ids \cap kept = {}
  /\ r.tool \in {"delete", "forget"} /\ r.done => call[r.call].id \notin kept

HubInv ==
  /\ DOMAIN call = Calls
  /\ \A c \in Calls : CallSound(c)
  /\ \A r \in ledger : RowSound(r)

\* A row stays true while its call is over: memories that come have ids of their own.
LEMMA RowStays ==
  ASSUME HubInv, NEW r \in ledger, call'[r.call] = call[r.call], call[r.call].id \notin kept' \ kept
  PROVE  RowSound(r)'
<1>1. RowSound(r) /\ CallSound(r.call)
  BY DEF HubInv, RowSound
<1>2. r.tool = "get" /\ call[r.call].ids \cap kept = {} => call[r.call].ids \cap kept' = {}
  BY <1>1 DEF RowSound
<1> QED BY <1>1, <1>2 DEF RowSound

\* A row that forgets its memory stays true, as the memory is gone.
LEMMA RowForgets ==
  ASSUME HubInv, NEW r \in ledger, NEW gone \in SUBSET Own, kept' = kept \ gone, r.about \in gone,
         call'[r.call] = call[r.call]
  PROVE  RowSound([r EXCEPT !.about = NoId])'
<1> DEFINE s == [r EXCEPT !.about = NoId]
<1>1. RowSound(r) /\ r.about # NoId
  BY HubAssumption DEF HubInv
<1>2. /\ DOMAIN s = DOMAIN r /\ s.call = r.call /\ s.agent = r.agent /\ s.tool = r.tool
      /\ s.named = r.named /\ s.done = r.done /\ s.about = NoId
  BY <1>1 DEF RowSound
<1> HIDE DEF s
<1>3. s.tool = "get" => call[s.call].ids \cap kept' = {}
  BY <1>1, <1>2 DEF RowSound
<1> QED BY <1>1, <1>2, <1>3 DEF RowSound, s

\* One call proceeds: what it adds to the ledger is sound, and memories that go are forgotten.
LEMMA CallProceeds ==
  ASSUME HubInv, NEW c \in Calls, call[c].step \notin Over,
         DOMAIN call' = Calls, \A d \in Calls \ {c} : call'[d] = call[d],
         NEW new, \A r \in new : r.call = c /\ RowSound(r)',
         ledger' = ledger \cup new, pruned' = pruned,
         \A d \in Calls : call[d].id \notin kept' \ kept,
         CallSound(c)'
  PROVE  HubInv'
<1>1. ASSUME NEW d \in Calls, d # c PROVE CallSound(d)'
  <2>1. call'[d] = call[d] /\ CallSound(d) /\ call[d].id \notin kept' \ kept
    BY <1>1 DEF HubInv
  <2>2. HasRow(d) => HasRow(d)'
    BY DEF HasRow
  <2> QED BY <2>1, <2>2 DEF CallSound
<1>2. ASSUME NEW r \in ledger PROVE RowSound(r)'
  <2>1. r.call \in Calls \ {c}
    BY DEF HubInv, RowSound
  <2> QED BY <2>1, RowStays
<1> QED BY <1>1, <1>2 DEF HubInv

\* Memories go: rows about them forget them, if the database does so.
LEMMA MemoriesGo ==
  ASSUME HubInv, NEW gone \in SUBSET Own, kept' = kept \ gone,
         NEW new, \A r \in new : RowSound(r)', ledger' = Forgetting(ledger, gone) \cup new,
         DOMAIN call' = Calls, pruned' = pruned, NEW C \in SUBSET Calls,
         \A c \in C : call[c].step \notin Over /\ CallSound(c)',
         \A d \in Calls \ C : call'[d] = call[d]
  PROVE  HubInv'
<1>1. ASSUME NEW d \in Calls \ C PROVE CallSound(d)'
  <2>1. call'[d] = call[d] /\ CallSound(d) /\ (d \notin kept => d \notin kept')
    BY DEF HubInv
  <2>2. HasRow(d) => HasRow(d)'
    <3> SUFFICES ASSUME NEW r \in ledger, r.call = d PROVE HasRow(d)'
      BY DEF HasRow
    <3>1. CASE enforced /\ r.about \in gone
      <4>1. [r EXCEPT !.about = NoId] \in ledger'
        BY <3>1 DEF Forgetting
      <4>2. [r EXCEPT !.about = NoId].call = d
        BY DEF HubInv, RowSound
      <4> QED BY <4>1, <4>2 DEF HasRow
    <3>2. CASE ~(enforced /\ r.about \in gone)
      BY <3>2 DEF Forgetting, HasRow
    <3> QED BY <3>1, <3>2
  <2> QED BY <2>1, <2>2 DEF CallSound
<1>2. ASSUME NEW s \in ledger' PROVE RowSound(s)'
  <2> SUFFICES ASSUME s \notin new PROVE RowSound(s)'
    OBVIOUS
  <2>1. PICK r \in ledger : s = IF enforced /\ r.about \in gone THEN [r EXCEPT !.about = NoId] ELSE r
    BY DEF Forgetting
  <2>2. call'[r.call] = call[r.call] /\ call[r.call].id \notin kept' \ kept
    BY DEF HubInv, RowSound
  <2> QED BY <2>1, <2>2, RowStays, RowForgets
<1> QED BY <1>1, <1>2 DEF HubInv

\* What one call becomes, and that the others stay.
Becomes(c, step, ids, did) ==
  /\ DOMAIN call' = Calls /\ \A d \in Calls \ {c} : call'[d] = call[d]
  /\ DOMAIN call'[c] = {"agent", "tool", "id", "step", "ids", "did"}
  /\ call'[c].agent = call[c].agent /\ call'[c].tool = call[c].tool /\ call'[c].id = call[c].id
  /\ call'[c].step = step /\ call'[c].ids = ids /\ call'[c].did = did

LEMMA ProceedBecomes ==
  ASSUME HubInv, NEW c \in Calls, NEW step
  PROVE  Proceed(c, step) => Becomes(c, step, call[c].ids, call[c].did)
BY DEF HubInv, CallSound, Proceed, Becomes

LEMMA AnswerBecomes ==
  ASSUME HubInv, NEW c \in Calls, NEW ids
  PROVE  Answer(c, ids) => Becomes(c, "answered", ids, call[c].did)
BY DEF HubInv, CallSound, Answer, Becomes

\* The row of a call that is over, as it is inserted.
LEMMA NewRow ==
  ASSUME NEW c \in Calls, NEW about, NEW named, NEW done, NEW step \in Over, NEW ids, NEW did,
         Becomes(c, step, ids, did),
         call[c].tool \in {"search", "list"} => ids = named,
         call[c].tool = "get" => about \in {call[c].id, NoId} /\ ids \subseteq {call[c].id},
         call[c].tool = "get" /\ about = NoId /\ done => ids \cap kept' = {},
         call[c].tool \in {"delete", "forget"} /\ done => call[c].id \notin kept',
         NEW r, r = Row(c, about, named, done)
  PROVE  RowSound(r)' /\ r.call = c
<1>1. /\ DOMAIN r = {"call", "agent", "tool", "about", "named", "done"}
      /\ r.call = c /\ r.agent = call[c].agent /\ r.tool = call[c].tool
      /\ r.about = about /\ r.named = named /\ r.done = done
  BY DEF Row
<1> QED BY <1>1 DEF RowSound, Becomes

\* One call proceeds without a row.
LEMMA NoRowInv ==
  ASSUME HubInv, NEW c \in Calls, call[c].step \notin Over, NEW step, NEW ids, NEW did,
         Becomes(c, step, ids, did), UNCHANGED <<clients, ledger>>,
         \A d \in Calls : call[d].id \notin kept' \ kept,
         CallSound(c)'
  PROVE  HubInv'
<1>1. DOMAIN call' = Calls /\ \A d \in Calls \ {c} : call'[d] = call[d]
  BY DEF Becomes
<1>2. PICK new : new = {}
  OBVIOUS
<1>3. ledger' = ledger \cup new /\ pruned' = pruned /\ \A r \in new : r.call = c /\ RowSound(r)'
  BY <1>2 DEF clients
<1> QED BY <1>1, <1>3, CallProceeds

\* One call is over and leaves a row.
LEMMA LogInv ==
  ASSUME HubInv, NEW c \in Calls, call[c].step \notin Over,
         NEW about, NEW named, NEW done, NEW step \in Over, NEW ids, NEW did,
         Becomes(c, step, ids, did), UNCHANGED <<clients, kept>>, Log(Row(c, about, named, done)),
         call[c].tool \in {"search", "list"} => ids = named,
         call[c].tool = "get" => about \in {call[c].id, NoId} /\ ids \subseteq {call[c].id},
         call[c].tool = "get" /\ about = NoId /\ done => ids \cap kept = {},
         call[c].tool \in {"delete", "forget"} /\ done => call[c].id \notin kept,
         ids \subseteq Own, did \subseteq Own, step = "not_found" => ids = {} /\ did = {}
  PROVE  HubInv'
<1>1. PICK r : r = Row(c, about, named, done)
  OBVIOUS
<1>2. ledger' = ledger \cup {r} /\ pruned' = pruned /\ kept' = kept
  BY <1>1 DEF Log, clients
<1>3. RowSound(r)' /\ r.call = c
  BY <1>1, <1>2, NewRow
<1>4. HasRow(c)'
  BY <1>2, <1>3 DEF HasRow
<1>5. CallSound(c) /\ DOMAIN call' = Calls /\ \A d \in Calls \ {c} : call'[d] = call[d]
  BY DEF HubInv, Becomes
<1>6. CallSound(c)'
  BY <1>4, <1>5 DEF CallSound, Becomes, Over
<1>7. PICK new : new = {r}
  OBVIOUS
<1>8. /\ \A s \in new : s.call = c /\ RowSound(s)'
      /\ ledger' = ledger \cup new /\ \A d \in Calls : call[d].id \notin kept' \ kept
  BY <1>2, <1>3, <1>7
<1> QED BY <1>2, <1>5, <1>6, <1>8, CallProceeds

\* One call proceeds without a row, and no memory comes or goes.
LEMMA QuietInv ==
  ASSUME HubInv, NEW c \in Calls, call[c].step \notin Over, NEW step, NEW ids, NEW did,
         Becomes(c, step, ids, did), UNCHANGED <<clients, kept, ledger>>, CallSound(c)'
  PROVE  HubInv'
<1>1. UNCHANGED <<clients, ledger>> /\ \A d \in Calls : call[d].id \notin kept' \ kept
  OBVIOUS
<1> QED BY <1>1, NoRowInv

LEMMA FailInv ==
  ASSUME HubInv, NEW c \in Calls, call[c].step \notin Over, Proceed(c, "failed"),
         UNCHANGED <<clients, kept, ledger>>
  PROVE  HubInv'
<1>1. Becomes(c, "failed", call[c].ids, call[c].did) /\ CallSound(c)
  BY ProceedBecomes DEF HubInv
<1>2. CallSound(c)'
  BY <1>1 DEF Becomes, CallSound
<1> QED BY <1>1, <1>2, QuietInv

LEMMA ResolveInv ==
  ASSUME HubInv, NEW c \in Calls, NEW a \in Agents, NEW tool, NEW m \in Own \cup Foreign \cup {NoId},
         Resolve(c, a, tool, m)
  PROVE  HubInv'
<1>1. PICK step \in {"begun", "refused"} :
        call' = [call EXCEPT ![c] = [NotMade EXCEPT !.agent = a, !.tool = tool, !.id = m, !.step = step]]
  BY DEF Resolve
<1>2. CallSound(c) /\ call[c].step = "none" /\ UNCHANGED <<clients, kept, ledger>> /\ DOMAIN call = Calls
  BY DEF Resolve, HubInv
<1>3. tool \in {"get", "delete", "forget", "timeline"} => m # NoId
  BY DEF Resolve
<1>4. /\ DOMAIN call'[c] = {"agent", "tool", "id", "step", "ids", "did"}
      /\ call'[c].tool = tool /\ call'[c].id = m /\ call'[c].step = step
      /\ call'[c].ids = {} /\ call'[c].did = {}
  BY <1>1, <1>2 DEF NotMade
<1>5. CallSound(c)'
  BY <1>3, <1>4 DEF CallSound
<1>6. DOMAIN call' = Calls /\ \A d \in Calls \ {c} : call'[d] = call[d]
  BY <1>1, <1>2
<1>7. PICK new : new = {}
  OBVIOUS
<1>8. /\ ledger' = ledger \cup new /\ pruned' = pruned /\ \A r \in new : r.call = c /\ RowSound(r)'
      /\ call[c].step \notin Over /\ \A d \in Calls : call[d].id \notin kept' \ kept
  BY <1>2, <1>7 DEF clients, Over
<1> QED BY <1>5, <1>6, <1>8, CallProceeds

LEMMA ReadsInv ==
  ASSUME HubInv, NEW c \in Calls,
         Recall(c) \/ Search(c) \/ ListRecent(c) \/ Timeline(c) \/ GetRead(c) \/ GetCommit(c)
  PROVE  HubInv'
<1>1. CallSound(c) /\ DOMAIN call = Calls
  BY DEF HubInv
<1>2. CASE Recall(c)
  <2>1. PICK ids \in SUBSET (Own \cap kept) :
          call' = [call EXCEPT ![c].step = "recalled", ![c].ids = ids]
    BY <1>2 DEF Recall
  <2>2. Becomes(c, "recalled", ids, call[c].did) /\ call[c].step = "begun" /\ call[c].tool = "search"
    BY <1>1, <1>2, <2>1 DEF Becomes, CallSound, Recall
  <2>3. CallSound(c)' /\ call[c].step \notin Over /\ UNCHANGED <<clients, kept, ledger>>
    BY <1>1, <1>2, <2>2 DEF Becomes, CallSound, Recall, Over
  <2> QED BY <2>2, <2>3, QuietInv
<1>3. CASE Search(c)
  <2>1. PICK ids : ids = call[c].ids \cap Own \cap kept
    OBVIOUS
  <2>2. /\ Becomes(c, "answered", ids, call[c].did) /\ Log(Row(c, NoId, ids, TRUE))
        /\ UNCHANGED <<clients, kept>>
    BY <1>3, <2>1, AnswerBecomes DEF Search
  <2>3. /\ call[c].step = "recalled" /\ call[c].tool = "search" /\ call[c].step \notin Over
        /\ "answered" \in Over /\ ids \subseteq Own /\ call[c].did \subseteq Own
    BY <1>1, <1>3, <2>1 DEF Search, Over, CallSound
  <2> QED BY <2>2, <2>3, LogInv
<1>4. CASE ListRecent(c)
  <2>1. PICK ids \in SUBSET (Own \cap kept) : Log(Row(c, NoId, ids, TRUE)) /\ Answer(c, ids)
    BY <1>4 DEF ListRecent
  <2>2. Becomes(c, "answered", ids, call[c].did) /\ UNCHANGED <<clients, kept>>
    BY <1>4, <2>1, AnswerBecomes DEF ListRecent
  <2>3. /\ call[c].step = "begun" /\ call[c].tool = "list" /\ call[c].step \notin Over
        /\ "answered" \in Over /\ ids \subseteq Own /\ call[c].did \subseteq Own
    BY <1>1, <1>4, <2>1 DEF ListRecent, Over, CallSound
  <2> QED BY <2>1, <2>2, <2>3, LogInv
<1>5. CASE Timeline(c)
  <2>1. /\ call[c].step = "begun" /\ call[c].tool = "timeline" /\ call[c].step \notin Over
        /\ "answered" \in Over /\ call[c].did \subseteq Own /\ UNCHANGED <<clients, kept>>
    BY <1>1, <1>5 DEF Timeline, Over, CallSound
  <2>2. CASE call[c].id \notin Own \cap kept
    <3>1. Becomes(c, "not_found", call[c].ids, call[c].did) /\ UNCHANGED ledger
      BY <1>5, <2>2, ProceedBecomes DEF Timeline
    <3>2. CallSound(c)'
      BY <1>1, <2>1, <3>1 DEF Becomes, CallSound
    <3> QED BY <2>1, <3>1, <3>2, QuietInv
  <2>3. CASE call[c].id \in Own \cap kept
    <3>1. PICK ids \in SUBSET (Own \cap kept) :
            Log(Row(c, NoId, {call[c].id}, TRUE)) /\ Answer(c, ids \cup {call[c].id})
      BY <1>5, <2>3 DEF Timeline
    <3>2. PICK seen, named : seen = ids \cup {call[c].id} /\ named = {call[c].id}
      OBVIOUS
    <3>3. Becomes(c, "answered", seen, call[c].did) /\ seen \subseteq Own /\ Log(Row(c, NoId, named, TRUE))
      BY <2>3, <3>1, <3>2, AnswerBecomes
    <3> QED BY <2>1, <3>3, LogInv
  <2> QED BY <2>2, <2>3
<1>6. CASE GetRead(c)
  <2>1. PICK ids : ids = {call[c].id} \cap Own \cap kept
    OBVIOUS
  <2>2. call' = [call EXCEPT ![c].step = "read", ![c].ids = ids]
    BY <1>6, <2>1 DEF GetRead
  <2>3. Becomes(c, "read", ids, call[c].did) /\ call[c].step = "begun" /\ call[c].tool = "get"
    BY <1>1, <1>6, <2>2 DEF Becomes, CallSound, GetRead
  <2>4. CallSound(c)' /\ call[c].step \notin Over /\ UNCHANGED <<clients, kept, ledger>>
    BY <1>1, <1>6, <2>1, <2>3 DEF Becomes, CallSound, GetRead, Over
  <2> QED BY <2>3, <2>4, QuietInv
<1>7. CASE GetCommit(c)
  <2>1. /\ call[c].step = "read" /\ call[c].tool = "get" /\ call[c].step \notin Over
        /\ call[c].did = {} /\ call[c].ids \subseteq {call[c].id} /\ call[c].ids \subseteq Own
        /\ call[c].id # NoId /\ UNCHANGED <<clients, kept>>
    BY <1>1, <1>7 DEF GetCommit, Over, CallSound
  <2>2. CASE Insertable(call[c].id)
    <3>1. PICK about, done : about = call[c].id /\ done = (call[c].ids # {})
      OBVIOUS
    <3>2. Log(Row(c, about, {}, done))
      BY <1>7, <2>2, <3>1 DEF GetCommit
    <3>3. PICK step \in Over :
            /\ Becomes(c, step, call[c].ids, call[c].did)
            /\ step = "not_found" => call[c].ids = {}
      BY <1>7, <2>2, ProceedBecomes, AnswerBecomes DEF GetCommit, Over
    <3>4. PICK ids, did, named : ids = call[c].ids /\ did = call[c].did /\ named = {}
      OBVIOUS
    <3>5. Becomes(c, step, ids, did) /\ Log(Row(c, about, named, done))
      BY <3>2, <3>3, <3>4
    <3>6. /\ ids \subseteq Own /\ did \subseteq Own /\ about \in {call[c].id, NoId}
          /\ ids \subseteq {call[c].id} /\ about # NoId
      BY <2>1, <3>1, <3>4
    <3>7. step = "not_found" => ids = {} /\ did = {}
      BY <2>1, <3>3, <3>4
    <3> QED BY <2>1, <3>5, <3>6, <3>7, LogInv
  <2>3. CASE ~Insertable(call[c].id)
    BY <1>7, <2>1, <2>3, FailInv DEF GetCommit
  <2> QED BY <2>2, <2>3
<1> QED BY <1>2, <1>3, <1>4, <1>5, <1>6, <1>7

LEMMA AddInv ==
  ASSUME HubInv, NEW c \in Calls, AddMemory(c) \/ AddCommit(c)
  PROVE  HubInv'
<1>1. CallSound(c) /\ DOMAIN call = Calls
  BY DEF HubInv
<1>2. CASE AddMemory(c)
  <2>1. PICK m \in Own \ kept :
          /\ \A d \in Calls : m # call[d].id /\ m \notin call[d].did
          /\ kept' = kept \cup {m}
          /\ call' = [call EXCEPT ![c].step = "added", ![c].did = {m}]
    BY <1>2 DEF AddMemory
  <2>2. call[c].step = "begun" /\ call[c].step \notin Over /\ UNCHANGED <<clients, ledger>>
    BY <1>2 DEF AddMemory, Over
  <2>3. PICK did : did = {m}
    OBVIOUS
  <2>4. Becomes(c, "added", call[c].ids, did)
    BY <1>1, <2>1, <2>3 DEF Becomes, CallSound
  <2>5. CallSound(c)'
    BY <1>1, <2>2, <2>3, <2>4 DEF Becomes, CallSound
  <2>6. \A d \in Calls : call[d].id \notin kept' \ kept
    BY <2>1
  <2> QED BY <2>2, <2>4, <2>5, <2>6, NoRowInv
<1>3. CASE AddCommit(c)
  <2>1. PICK m : m = CHOOSE x \in call[c].did : TRUE
    OBVIOUS
  <2>2. /\ call[c].step = "added" /\ call[c].step \notin Over /\ call[c].tool = "add"
        /\ UNCHANGED <<clients, kept>> /\ "answered" \in Over
    BY <1>3 DEF AddCommit, Over
  <2>3. m \in Own /\ call[c].did = {m}
    BY <1>1, <2>1, <2>2 DEF CallSound
  <2>4. CASE Insertable(m)
    <3>1. PICK ids : ids = {m}
      OBVIOUS
    <3>2. Log(Row(c, m, ids, TRUE)) /\ Becomes(c, "answered", ids, call[c].did)
      BY <1>3, <2>1, <2>4, <3>1, AnswerBecomes DEF AddCommit
    <3>3. ids \subseteq Own /\ call[c].did \subseteq Own
      BY <2>3, <3>1
    <3> QED BY <2>2, <3>2, <3>3, LogInv
  <2>5. CASE ~Insertable(m)
    BY <1>3, <2>1, <2>2, <2>5, FailInv DEF AddCommit
  <2> QED BY <2>4, <2>5
<1> QED BY <1>2, <1>3

LEMMA DeleteInv ==
  ASSUME HubInv, NEW c \in Calls, DeleteFind(c) \/ DeleteNotFound(c) \/ DeleteCommit(c)
  PROVE  HubInv'
<1>1. CallSound(c) /\ DOMAIN call = Calls
  BY DEF HubInv
<1>2. CASE DeleteFind(c)
  <2>1. Becomes(c, "found", call[c].ids, call[c].did) /\ call[c].step = "begun"
    BY <1>2, ProceedBecomes DEF DeleteFind
  <2>2. CallSound(c)' /\ call[c].step \notin Over /\ UNCHANGED <<clients, kept, ledger>>
    BY <1>1, <1>2, <2>1 DEF Becomes, CallSound, DeleteFind, Over
  <2> QED BY <2>1, <2>2, QuietInv
<1>3. CASE DeleteNotFound(c)
  <2>1. /\ call[c].step = "begun" /\ call[c].step \notin Over /\ call[c].tool = "delete"
        /\ UNCHANGED <<clients, kept>> /\ "not_found" \in Over
        /\ call[c].ids = {} /\ call[c].did = {}
    BY <1>1, <1>3 DEF DeleteNotFound, Over, CallSound
  <2>2. CASE Insertable(call[c].id)
    <3>1. PICK about, ids, did : about = call[c].id /\ ids = {} /\ did = {}
      OBVIOUS
    <3>2. Log(Row(c, about, ids, FALSE)) /\ Becomes(c, "not_found", ids, did)
      BY <1>3, <2>1, <2>2, <3>1, ProceedBecomes DEF DeleteNotFound
    <3>3. ids \subseteq Own /\ did \subseteq Own /\ ids = {} /\ did = {}
      BY <3>1
    <3> QED BY <2>1, <3>2, <3>3, LogInv
  <2>3. CASE ~Insertable(call[c].id)
    BY <1>3, <2>1, <2>3, FailInv DEF DeleteNotFound
  <2> QED BY <2>2, <2>3
<1>4. CASE DeleteCommit(c)
  <2>1. /\ call[c].step = "found" /\ call[c].step \notin Over /\ call[c].tool = "delete"
        /\ UNCHANGED clients /\ call[c].did = {} /\ call[c].id # NoId /\ "answered" \in Over
    BY <1>1, <1>4 DEF DeleteCommit, Over, CallSound
  <2>2. CASE ~Insertable(call[c].id)
    BY <1>4, <2>1, <2>2, FailInv DEF DeleteCommit
  <2>3. CASE Insertable(call[c].id)
    <3>1. PICK m, r : m = call[c].id /\ r = Row(c, m, {}, TRUE)
      OBVIOUS
    <3>2. PICK did, gone : did = {m} \cap kept /\ gone = {m}
      OBVIOUS
    <3>3. /\ ledger' = Forgetting(ledger \cup {r}, gone) /\ kept' = kept \ gone
          /\ call' = [call EXCEPT ![c].step = "answered", ![c].did = did]
      BY <1>4, <2>3, <3>1, <3>2 DEF DeleteCommit
    <3>4. Becomes(c, "answered", call[c].ids, did)
      BY <1>1, <3>3 DEF Becomes, CallSound
    <3>5. PICK s : s = IF enforced /\ r.about \in gone THEN [r EXCEPT !.about = NoId] ELSE r
      OBVIOUS
    <3>6. PICK new : new = {s}
      OBVIOUS
    <3>7. ledger' = Forgetting(ledger, gone) \cup new
      BY <3>3, <3>5, <3>6 DEF Forgetting
    <3>8. /\ DOMAIN s = {"call", "agent", "tool", "about", "named", "done"}
          /\ s.call = c /\ s.agent = call[c].agent /\ s.tool = "delete"
      BY <2>1, <3>1, <3>5 DEF Row
    <3>9. call[c].id \notin kept'
      BY <3>1, <3>2, <3>3
    <3>10. RowSound(s)'
      BY <2>1, <3>4, <3>8, <3>9 DEF RowSound, Becomes
    <3>11. HasRow(c)'
      BY <3>6, <3>7, <3>8 DEF HasRow
    <3>12. CallSound(c)' /\ m \in Own
      BY <1>1, <2>1, <3>1, <3>2, <3>4, <3>11 DEF Becomes, CallSound
    <3>13. PICK C : C = {c}
      OBVIOUS
    <3>14. /\ C \in SUBSET Calls /\ \A d \in C : call[d].step \notin Over /\ CallSound(d)'
           /\ \A d \in Calls \ C : call'[d] = call[d]
           /\ DOMAIN call' = Calls /\ pruned' = pruned /\ gone \in SUBSET Own
           /\ \A x \in new : RowSound(x)'
      BY <2>1, <3>2, <3>4, <3>6, <3>10, <3>12, <3>13 DEF Becomes, clients
    <3> QED BY <3>3, <3>7, <3>14, MemoriesGo
  <2> QED BY <2>2, <2>3
<1> QED BY <1>2, <1>3, <1>4

LEMMA ForgetInv ==
  ASSUME HubInv, NEW c \in Calls, Forget(c) \/ ForgetCommit(c)
  PROVE  HubInv'
<1>1. CallSound(c) /\ DOMAIN call = Calls
  BY DEF HubInv
<1>2. CASE Forget(c)
  <2>1. PICK gone : gone = {call[c].id} \cap Own \cap kept
    OBVIOUS
  <2>2. /\ call[c].step = "begun" /\ call[c].step \notin Over /\ UNCHANGED clients
        /\ kept' = kept \ gone /\ ledger' = Forgetting(ledger, gone)
        /\ call' = [call EXCEPT ![c].step = "erased", ![c].did = gone]
    BY <1>2, <2>1 DEF Forget, Over
  <2>3. Becomes(c, "erased", call[c].ids, gone)
    BY <1>1, <2>2 DEF Becomes, CallSound
  <2>4. gone # {} => call[c].id \notin kept'
    BY <2>1, <2>2
  <2>5. CallSound(c)' /\ gone \in SUBSET Own
    BY <1>1, <2>1, <2>2, <2>3, <2>4 DEF Becomes, CallSound
  <2>6. PICK C, new : C = {c} /\ new = {}
    OBVIOUS
  <2>7. /\ C \in SUBSET Calls /\ \A d \in C : call[d].step \notin Over /\ CallSound(d)'
        /\ \A d \in Calls \ C : call'[d] = call[d]
        /\ DOMAIN call' = Calls /\ pruned' = pruned /\ \A x \in new : RowSound(x)'
        /\ ledger' = Forgetting(ledger, gone) \cup new
    BY <2>2, <2>3, <2>5, <2>6 DEF Becomes, clients
  <2> QED BY <2>2, <2>5, <2>7, MemoriesGo
<1>3. CASE ForgetCommit(c)
  <2>1. /\ call[c].step = "erased" /\ call[c].tool = "forget" /\ call[c].step \notin Over
        /\ UNCHANGED <<clients, kept>> /\ "answered" \in Over
    BY <1>3 DEF ForgetCommit, Over
  <2>2. PICK named, ids, done : named = {call[c].id} /\ ids = {} /\ done = (call[c].did # {})
    OBVIOUS
  <2>3. Log(Row(c, NoId, named, done)) /\ Becomes(c, "answered", ids, call[c].did)
    BY <1>3, <2>2, AnswerBecomes DEF ForgetCommit
  <2>4. ids \subseteq Own /\ call[c].did \subseteq Own /\ (done => call[c].id \notin kept)
    BY <1>1, <2>1, <2>2 DEF CallSound
  <2> QED BY <2>1, <2>3, <2>4, LogInv
<1> QED BY <1>2, <1>3

\* A step that leaves calls, memories and rows alone.
LEMMA ClientsInv ==
  ASSUME HubInv, UNCHANGED <<kept, ledger, pruned, call>>
  PROVE  HubInv'
<1>1. \A c \in Calls : CallSound(c)'
  BY DEF HubInv, CallSound, HasRow
<1>2. \A r \in ledger : RowSound(r)'
  BY DEF HubInv, RowSound
<1> QED BY <1>1, <1>2 DEF HubInv

LEMMA RemoveInv ==
  ASSUME HubInv, NEW m \in Own, RemoveMemory(m)
  PROVE  HubInv'
<1>1. PICK gone, C, new : gone = {m} /\ C = {} /\ new = {}
  OBVIOUS
<1>2. /\ C \in SUBSET Calls /\ \A d \in C : call[d].step \notin Over /\ CallSound(d)'
      /\ \A d \in Calls \ C : call'[d] = call[d]
      /\ DOMAIN call' = Calls /\ pruned' = pruned /\ \A x \in new : RowSound(x)'
      /\ ledger' = Forgetting(ledger, gone) \cup new
      /\ gone \in SUBSET Own /\ kept' = kept \ gone
  BY <1>1 DEF RemoveMemory, clients, HubInv
<1> QED BY <1>2, MemoriesGo

LEMMA PruneInv ==
  ASSUME HubInv, Prune
  PROVE  HubInv'
<1>1. /\ ledger' = {r \in ledger : r.call \notin old} /\ pruned' = pruned \cup old
      /\ UNCHANGED <<kept, call>>
  BY DEF Prune
<1>2. ASSUME NEW c \in Calls PROVE CallSound(c)'
  <2>1. CallSound(c) /\ call'[c] = call[c] /\ kept' = kept
    BY <1>1 DEF HubInv
  <2>2. HasRow(c) \/ c \in pruned => HasRow(c)' \/ c \in pruned'
    BY <1>1 DEF HasRow
  <2> QED BY <2>1, <2>2 DEF CallSound
<1>3. \A r \in ledger' : RowSound(r)'
  BY <1>1 DEF HubInv, RowSound
<1> QED BY <1>1, <1>2, <1>3 DEF HubInv

\* Whatever the agents call, the user deletes and the database refuses or forgets: each
\* answer has its row, which names what was shown, each change of the memories a row unless
\* its call failed, and no row claims a deletion that did not happen.
THEOREM LedgerAlwaysExplains == HubSpec => []LedgerExplains
<1>1. HubInit => HubInv
  BY DEF HubInit, HubInv, CallSound, NotMade
<1>2. HubInv /\ [HubNext]_hubVars => HubInv'
  <2> SUFFICES ASSUME HubInv, [HubNext]_hubVars PROVE HubInv'
    OBVIOUS
  <2>1. ASSUME NEW c \in Calls, CallFails(c) PROVE HubInv'
    BY <2>1, FailInv DEF CallFails, Underway, Over
  <2>2. ASSUME NEW a \in Agents, (\E scopes \in (SUBSET {"read", "write"}) \ {{}} : RegisterClient(a, scopes)) \/ Revoke(a)
        PROVE  HubInv'
    BY <2>2, ClientsInv DEF RegisterClient, Revoke
  <2>3. CASE DaysPass
    BY <2>3, ClientsInv DEF DaysPass
  <2>4. CASE UNCHANGED hubVars
    BY <2>4, ClientsInv DEF hubVars
  <2> QED BY <2>1, <2>2, <2>3, <2>4, ResolveInv, ReadsInv, AddInv, DeleteInv, ForgetInv, RemoveInv, PruneInv
          DEF HubNext
<1>3. HubInv => LedgerExplains
  <2> SUFFICES ASSUME HubInv PROVE LedgerExplains
    OBVIOUS
  <2>1. ASSUME NEW c \in Calls
        PROVE  /\ call[c].step = "answered" => {r \in ledger : r.call = c} # {} \/ c \in pruned
               /\ call[c].did # {} /\ ~Underway(c) /\ call[c].step # "failed" =>
                    {r \in ledger : r.call = c} # {} \/ c \in pruned
               /\ call[c].ids \subseteq Own
    BY DEF HubInv, CallSound, HasRow, Underway
  <2>2. ASSUME NEW r \in ledger
        PROVE  /\ call[r.call].step \in {"answered", "not_found"} /\ r.agent = call[r.call].agent
               /\ r.tool \in {"search", "list"} => call[r.call].ids = r.named
               /\ r.tool = "get" /\ r.about = NoId /\ r.done => call[r.call].ids \cap kept = {}
               /\ r.tool \in {"delete", "forget"} /\ r.done => call[r.call].id \notin kept
    BY DEF HubInv, RowSound, Over
  <2> QED BY <2>1, <2>2 DEF LedgerExplains
<1> QED BY <1>1, <1>2, <1>3, PTL DEF HubSpec

--------------------------------------------------------------------------------
(* Experiments.  What a user was told of an experiment that is kept is stored; an experiment
   that is not kept comes back as another one. *)

\* What user u was told, or counted for, of experiment e.
TrialSound(u, e) ==
  /\ \A v, w \in assignments[u][e] : v = w
  /\ \A v, w \in told[u][e] \cup counted[u][e] : v = w
  /\ e \in Kept(experiments) => told[u][e] \cup counted[u][e] \subseteq assignments[u][e]
  /\ e > created => told[u][e] = {} /\ counted[u][e] = {}

ExperimentsInv ==
  /\ DOMAIN experiments = Trials /\ created \in 0 .. MaxTrials
  /\ Kept(experiments) \subseteq 1 .. created
  /\ \A table \in {assignments, told, counted} :
       DOMAIN table = Subjects /\ \A u \in Subjects : DOMAIN table[u] = Trials
  /\ \A u \in Subjects, e \in Trials : TrialSound(u, e)

\* A step that creates at most the next experiment, and tells nobody a variant.
LEMMA AdministrationInv ==
  ASSUME ExperimentsInv, UNCHANGED <<assignments, told, counted>>, DOMAIN experiments' = Trials,
         created' \in created .. MaxTrials, created' <= created + 1,
         Kept(experiments)' \subseteq Kept(experiments) \cup (created + 1 .. created')
  PROVE  ExperimentsInv'
<1>1. created \in Nat /\ MaxTrials \in Nat /\ created' \in 0 .. MaxTrials
  BY ExperimentsAssumption DEF ExperimentsInv
<1>2. Kept(experiments)' \subseteq 1 .. created'
  BY <1>1 DEF ExperimentsInv
<1>3. ASSUME NEW u \in Subjects, NEW e \in Trials PROVE TrialSound(u, e)'
  <2>1. TrialSound(u, e) /\ e \in Nat
    BY DEF ExperimentsInv, Trials
  <2>2. e \in Kept(experiments)' => e \in Kept(experiments) \/ e > created
    BY <1>1, <2>1
  <2> QED BY <1>1, <2>1, <2>2 DEF TrialSound
<1> QED BY <1>1, <1>2, <1>3 DEF ExperimentsInv

LEMMA DefaultsKept ==
  ASSUME ExperimentsInv, InitDefaults
  PROVE  /\ DOMAIN experiments' = Trials /\ created' \in created .. MaxTrials /\ created' <= created + 1
         /\ Kept(experiments)' \subseteq Kept(experiments) \cup (created + 1 .. created')
<1>1. created \in Nat /\ MaxTrials \in Nat /\ created <= MaxTrials /\ DOMAIN experiments = Trials
  BY ExperimentsAssumption DEF ExperimentsInv
<1>2. CASE initialized
  BY <1>1, <1>2 DEF InitDefaults, WithDefaults, Kept
<1>3. CASE ~initialized
  <2>1. created' = created + 1 /\ created < MaxTrials
    BY <1>3 DEF InitDefaults
  <2>2. experiments' = [experiments EXCEPT ![created + 1] = NewTrial("running", DefaultName, <<1, 1>>)]
    BY <1>3 DEF InitDefaults, WithDefaults
  <2>3. \A e \in Trials \ {created + 1} : experiments'[e] = experiments[e]
    BY <1>1, <2>2
  <2> QED BY <1>1, <2>1, <2>2, <2>3 DEF Kept
<1> QED BY <1>2, <1>3

\* A user is told a variant of an experiment that runs.
LEMMA AnswerInv ==
  ASSUME ExperimentsInv, NEW u \in Subjects, NEW e, NEW es, es[e].status = "running",
         experiments' = es, AnswerVariant(u, e, AssignVariant(es, u, e)),
         DOMAIN es = Trials, created' \in created .. MaxTrials, created' <= created + 1,
         Kept(es) \subseteq Kept(experiments) \cup (created + 1 .. created'), counted' = counted
  PROVE  ExperimentsInv'
<1>1. created \in Nat /\ MaxTrials \in Nat /\ created' \in 0 .. MaxTrials
  BY ExperimentsAssumption DEF ExperimentsInv
<1>2. Kept(experiments)' = Kept(es) /\ Kept(es) \subseteq 1 .. created'
  BY <1>1 DEF ExperimentsInv, Kept
<1>3. PICK v : v = AssignVariant(es, u, e)
  OBVIOUS
<1>4. /\ assignments' = [assignments EXCEPT ![u][e] = {v}]
      /\ told' = [told EXCEPT ![u][e] = @ \cup {v}]
  BY <1>3 DEF AnswerVariant
<1>5. \A table \in {assignments, told, counted} :
        DOMAIN table = Subjects /\ \A x \in Subjects : DOMAIN table[x] = Trials
  BY DEF ExperimentsInv
<1>6. \A table \in {assignments', told', counted'} :
        DOMAIN table = Subjects /\ \A x \in Subjects : DOMAIN table[x] = Trials
  BY <1>4, <1>5
<1>7. ASSUME NEW x \in Subjects, NEW f \in Trials, x # u \/ f # e PROVE TrialSound(x, f)'
  <2>1. TrialSound(x, f) /\ f \in Nat
    BY DEF ExperimentsInv, Trials
  <2>2. assignments'[x][f] = assignments[x][f] /\ told'[x][f] = told[x][f] /\ counted'[x][f] = counted[x][f]
    BY <1>4, <1>5, <1>7
  <2>3. f \in Kept(experiments)' => f \in Kept(experiments) \/ f > created
    BY <1>1, <1>2, <2>1
  <2> QED BY <1>1, <2>1, <2>2, <2>3 DEF TrialSound
<1>8. ASSUME e \in Trials PROVE TrialSound(u, e)'
  <2>1. TrialSound(u, e) /\ e \in Kept(es) /\ e \in Nat
    BY <1>8 DEF ExperimentsInv, Kept, Trials
  <2>2. assignments'[u][e] = {v} /\ told'[u][e] = told[u][e] \cup {v} /\ counted'[u][e] = counted[u][e]
    BY <1>4, <1>5, <1>8
  <2>3. told[u][e] \cup counted[u][e] \subseteq assignments[u][e]
    BY <1>1, <2>1 DEF TrialSound
  <2>4. assignments[u][e] # {} => v \in assignments[u][e]
    BY <1>3 DEF AssignVariant
  <2>5. told[u][e] \cup counted[u][e] \subseteq {v}
    BY <2>1, <2>3, <2>4 DEF TrialSound
  <2>6. e <= created'
    BY <1>1, <1>2, <2>1
  <2> QED BY <1>1, <2>1, <2>2, <2>5, <2>6 DEF TrialSound
<1> QED BY <1>1, <1>2, <1>6, <1>7, <1>8 DEF ExperimentsInv

\* An event is counted for the variant the user was told, if it was told one.
LEMMA CountInv ==
  ASSUME ExperimentsInv, NEW u \in Subjects, NEW e, NEW es, es[e].status = "running", experiments' = es,
         NEW v, v = AssignVariant(es, u, e),
         counted' = [counted EXCEPT ![u][e] = IF told[u][e] = {} THEN @ ELSE @ \cup {v}],
         DOMAIN es = Trials, created' \in created .. MaxTrials, created' <= created + 1,
         Kept(es) \subseteq Kept(experiments) \cup (created + 1 .. created'),
         UNCHANGED <<assignments, told>>
  PROVE  ExperimentsInv'
<1>1. created \in Nat /\ MaxTrials \in Nat /\ created' \in 0 .. MaxTrials
  BY ExperimentsAssumption DEF ExperimentsInv
<1>2. Kept(experiments)' = Kept(es) /\ Kept(es) \subseteq 1 .. created'
  BY <1>1 DEF ExperimentsInv, Kept
<1>3. \A table \in {assignments, told, counted} :
        DOMAIN table = Subjects /\ \A x \in Subjects : DOMAIN table[x] = Trials
  BY DEF ExperimentsInv
<1>4. \A table \in {assignments', told', counted'} :
        DOMAIN table = Subjects /\ \A x \in Subjects : DOMAIN table[x] = Trials
  BY <1>3
<1>5. ASSUME NEW x \in Subjects, NEW f \in Trials, x # u \/ f # e PROVE TrialSound(x, f)'
  <2>1. TrialSound(x, f) /\ f \in Nat
    BY DEF ExperimentsInv, Trials
  <2>2. counted'[x][f] = counted[x][f]
    BY <1>3, <1>5
  <2>3. f \in Kept(experiments)' => f \in Kept(experiments) \/ f > created
    BY <1>1, <1>2, <2>1
  <2> QED BY <1>1, <2>1, <2>2, <2>3 DEF TrialSound
<1>6. ASSUME e \in Trials PROVE TrialSound(u, e)'
  <2>1. TrialSound(u, e) /\ e \in Kept(es) /\ e \in Nat
    BY <1>6 DEF ExperimentsInv, Kept, Trials
  <2>2. counted'[u][e] = IF told[u][e] = {} THEN counted[u][e] ELSE counted[u][e] \cup {v}
    BY <1>3, <1>6
  <2>3. told[u][e] \cup counted[u][e] \subseteq assignments[u][e]
    BY <1>1, <2>1 DEF TrialSound
  <2>4. told[u][e] # {} => v \in assignments[u][e]
    BY <2>3 DEF AssignVariant
  <2>5. told[u][e] \cup counted'[u][e] \subseteq assignments[u][e]
    BY <2>2, <2>3, <2>4
  <2>6. e <= created'
    BY <1>1, <1>2, <2>1
  <2> QED BY <1>1, <2>1, <2>5, <2>6 DEF TrialSound
<1> QED BY <1>1, <1>2, <1>4, <1>5, <1>6 DEF ExperimentsInv

\* The memory of the process is lost, and with it every experiment.
LEMMA RestartInv ==
  ASSUME ExperimentsInv, Restart
  PROVE  ExperimentsInv'
<1>1. /\ experiments' = [e \in Trials |-> NoTrial] /\ created' = created
      /\ assignments' = [u \in Subjects |-> [e \in Trials |-> {}]] /\ told' = told /\ counted' = counted
  BY DEF Restart
<1>2. Kept(experiments)' = {}
  BY <1>1 DEF Kept, NoTrial
<1>3. ASSUME NEW u \in Subjects, NEW e \in Trials PROVE TrialSound(u, e)'
  <2>1. TrialSound(u, e) /\ assignments'[u][e] = {}
    BY <1>1 DEF ExperimentsInv
  <2> QED BY <1>1, <1>2, <2>1 DEF TrialSound
<1> QED BY <1>1, <1>2, <1>3 DEF ExperimentsInv

\* Whatever is created, renamed, changed, deleted or lost meanwhile, a user is told one variant
\* of an experiment, and its later events are counted for that one.
THEOREM VariantIsAlwaysKept == ExperimentsSpec => []VariantIsKept
<1>1. ExperimentsInit => ExperimentsInv
  BY ExperimentsAssumption DEF ExperimentsInit, ExperimentsInv, TrialSound, Kept, NoTrial
<1>2. ExperimentsInv /\ [ExperimentsNext]_experimentVars => ExperimentsInv'
  <2> SUFFICES ASSUME ExperimentsInv, [ExperimentsNext]_experimentVars PROVE ExperimentsInv'
    OBVIOUS
  <2>1. created \in Nat /\ MaxTrials \in Nat /\ created <= MaxTrials /\ DOMAIN experiments = Trials
    BY ExperimentsAssumption DEF ExperimentsInv
  <2>2. CASE ListExperiments
    BY <2>2, AdministrationInv, DefaultsKept DEF ListExperiments
  <2>3. ASSUME NEW n, NEW weights, CreateExperiment(n, weights) PROVE ExperimentsInv'
    <3>1. /\ created' = created + 1 /\ created < MaxTrials /\ DOMAIN experiments' = Trials
          /\ \A e \in Trials \ {created + 1} : experiments'[e] = experiments[e]
          /\ UNCHANGED <<assignments, told, counted>>
      BY <2>1, <2>3 DEF CreateExperiment
    <3>2. Kept(experiments)' \subseteq Kept(experiments) \cup (created + 1 .. created')
      BY <2>1, <3>1 DEF Kept
    <3>3. created' \in created .. MaxTrials /\ created' <= created + 1
      BY <2>1, <3>1
    <3> QED BY <3>1, <3>2, <3>3, AdministrationInv
  <2>4. ASSUME DOMAIN experiments' = Trials, Kept(experiments)' \subseteq Kept(experiments),
               UNCHANGED <<created, assignments, told, counted>>
        PROVE  ExperimentsInv'
    <3>1. created' \in created .. MaxTrials /\ created' <= created + 1
      BY <2>1, <2>4
    <3> QED BY <2>4, <3>1, AdministrationInv
  <2>5. ASSUME NEW e \in Trials, NEW n, NEW status, UpdateExperiment(e, n, status) PROVE ExperimentsInv'
    <3>1. Kept(experiments)' \subseteq Kept(experiments) /\ DOMAIN experiments' = Trials
      BY <2>1, <2>5 DEF UpdateExperiment, Kept
    <3> QED BY <2>4, <2>5, <3>1 DEF UpdateExperiment
  <2>6. ASSUME NEW e \in Trials, NEW status, SetStatus(e, status) PROVE ExperimentsInv'
    BY <2>5, <2>6 DEF SetStatus
  <2>7. ASSUME NEW e \in Trials, NEW w, AddVariant(e, w) PROVE ExperimentsInv'
    <3>1. Kept(experiments)' \subseteq Kept(experiments) /\ DOMAIN experiments' = Trials
      BY <2>1, <2>7 DEF AddVariant, Kept
    <3> QED BY <2>4, <2>7, <3>1 DEF AddVariant
  <2>8. ASSUME NEW e \in Trials, DeleteExperiment(e) PROVE ExperimentsInv'
    <3>1. Kept(experiments)' \subseteq Kept(experiments) /\ DOMAIN experiments' = Trials
      BY <2>1, <2>8 DEF DeleteExperiment, Kept, NoTrial
    <3> QED BY <2>4, <2>8, <3>1 DEF DeleteExperiment
  <2>9. CASE Restart
    BY <2>9, RestartInv
  <2>10. ASSUME NEW u \in Subjects, NEW n, GetUserVariant(u, n) PROVE ExperimentsInv'
    <3>1. PICK es, e : es = experiments' /\ e = ByName(experiments', n)
      OBVIOUS
    <3>2. /\ DOMAIN es = Trials /\ created' \in created .. MaxTrials /\ created' <= created + 1
          /\ Kept(experiments)' \subseteq Kept(experiments) \cup (created + 1 .. created')
          /\ counted' = counted
      BY <2>10, <3>1, DefaultsKept DEF GetUserVariant
    <3>3. Kept(experiments)' = Kept(es)
      BY <3>1 DEF Kept
    <3>4. CASE Assigns(es, e)
      <4>1. AnswerVariant(u, e, AssignVariant(es, u, e)) /\ es[e].status = "running"
        BY <2>10, <3>1, <3>4 DEF GetUserVariant, Assigns
      <4> QED BY <3>1, <3>2, <3>3, <4>1, AnswerInv
    <3>5. CASE ~Assigns(es, e)
      BY <2>10, <3>1, <3>2, <3>5, AdministrationInv DEF GetUserVariant
    <3> QED BY <3>4, <3>5
  <2>11. ASSUME NEW u \in Subjects, NEW n, RecordMetric(u, n) PROVE ExperimentsInv'
    <3>1. PICK es, e : es = experiments' /\ e = ByName(experiments, n)
      OBVIOUS
    <3>2. /\ DOMAIN es = Trials /\ created' \in created .. MaxTrials /\ created' <= created + 1
          /\ Kept(experiments)' \subseteq Kept(experiments) \cup (created + 1 .. created')
          /\ UNCHANGED <<assignments, told>>
      BY <2>11, <3>1, DefaultsKept DEF RecordMetric
    <3>3. Kept(experiments)' = Kept(es)
      BY <3>1 DEF Kept
    <3>4. CASE Assigns(es, e)
      <4>1. PICK v : v = AssignVariant(es, u, e)
        OBVIOUS
      <4>2. counted' = [counted EXCEPT ![u][e] = IF told[u][e] = {} THEN @ ELSE @ \cup {v}]
        BY <2>11, <3>1, <3>4, <4>1 DEF RecordMetric
      <4> QED BY <3>1, <3>2, <3>3, <3>4, <4>1, <4>2, CountInv DEF Assigns
    <3>5. CASE ~Assigns(es, e)
      BY <2>11, <3>1, <3>2, <3>5, AdministrationInv DEF RecordMetric
    <3> QED BY <3>4, <3>5
  <2>12. CASE UNCHANGED experimentVars
    BY <2>1, <2>4, <2>12 DEF experimentVars, Kept
  <2> QED BY <2>2, <2>3, <2>5, <2>6, <2>7, <2>8, <2>9, <2>10, <2>11, <2>12 DEF ExperimentsNext
<1>3. ExperimentsInv => VariantIsKept
  <2> SUFFICES ASSUME ExperimentsInv, NEW u \in Subjects, NEW e \in Trials
               PROVE  Cardinality(told[u][e] \cup counted[u][e]) <= 1
    BY DEF VariantIsKept
  <2>1. PICK S : S = told[u][e] \cup counted[u][e]
    OBVIOUS
  <2>2. \A v, w \in S : v = w
    BY <2>1 DEF ExperimentsInv, TrialSound
  <2>3. CASE S = {}
    BY <2>1, <2>3, FS_EmptySet
  <2>4. CASE S # {}
    <3>1. PICK v : S = {v}
      BY <2>2, <2>4
    <3>2. Cardinality({v}) = 1
      BY FS_Singleton
    <3> QED BY <2>1, <3>1, <3>2
  <2> QED BY <2>3, <2>4
<1> QED BY <1>1, <1>2, <1>3, PTL DEF ExperimentsSpec

--------------------------------------------------------------------------------
(* Discovery.  Requests that overlap append to the path and the connections in one step. *)

ConnectionRows == [type : {"step", "synthesis"}, from : Papers \cup {Nowhere}, to : Papers \cup {Nowhere}]

JourneyTypes ==
  /\ DOMAIN journey = {"status", "path", "currentStep", "stepsTaken", "explored", "connections"}
  /\ journey.path \in Seq(Papers) /\ journey.connections \in Seq(ConnectionRows)
  /\ journey.currentStep \in Nat /\ journey.stepsTaken \in Nat /\ journey.explored \in Nat

\* Requests end with the process that serves them.
WalkersServed ==
  /\ DOMAIN walker = Walkers
  /\ \A w \in Walkers :
       /\ DOMAIN walker[w] = {"op", "at", "next"} /\ walker[w].next \in Papers \cup {Nowhere}
       /\ walker[w].op # "idle" => journey.status # "absent"

DiscoveryInv == JourneyTypes /\ WalkersServed /\ JourneyIsAChain

\* The steps among the first i connections.
StepsUpTo(s, i) == {j \in 1 .. i : s[j].type = "step"}

LEMMA StepsFinite ==
  ASSUME NEW s, NEW i \in Nat
  PROVE  IsFiniteSet(StepsUpTo(s, i)) /\ Cardinality(StepsUpTo(s, i)) \in Nat
<1>1. IsFiniteSet(1 .. i) /\ StepsUpTo(s, i) \subseteq 1 .. i
  BY FS_Interval DEF StepsUpTo
<1> QED BY <1>1, FS_Subset, FS_CardinalityType

\* A connection appended numbers the earlier steps as before.
LEMMA StepsAppend ==
  ASSUME NEW s \in Seq(ConnectionRows), NEW c \in ConnectionRows
  PROVE  LET t == Append(s, c)
         IN  /\ t \in Seq(ConnectionRows) /\ Len(t) = Len(s) + 1 /\ Len(s) \in Nat
             /\ t[Len(s) + 1] = c /\ \A j \in 1 .. Len(s) : t[j] = s[j]
             /\ \A i \in 1 .. Len(s) : StepsUpTo(t, i) = StepsUpTo(s, i)
             /\ Cardinality(StepsUpTo(t, Len(s) + 1)) =
                  Cardinality(StepsUpTo(s, Len(s))) + IF c.type = "step" THEN 1 ELSE 0
<1> DEFINE t == Append(s, c)
<1>1. PICK n \in Nat : n = Len(s)
  BY LenProperties
<1>2. t \in Seq(ConnectionRows) /\ Len(t) = n + 1 /\ t[n + 1] = c /\ \A j \in 1 .. n : t[j] = s[j]
  BY <1>1, AppendProperties
<1> HIDE DEF t
<1>3. \A i \in 1 .. n : StepsUpTo(t, i) = StepsUpTo(s, i)
  <2> SUFFICES ASSUME NEW i \in 1 .. n PROVE StepsUpTo(t, i) = StepsUpTo(s, i)
    OBVIOUS
  <2>1. \A j \in 1 .. i : t[j] = s[j]
    BY <1>1, <1>2
  <2> QED BY <2>1 DEF StepsUpTo
<1>4. n + 1 \notin StepsUpTo(s, n) /\ IsFiniteSet(StepsUpTo(s, n)) /\ Cardinality(StepsUpTo(s, n)) \in Nat
  BY <1>1, StepsFinite DEF StepsUpTo
<1>5. StepsUpTo(t, n + 1) = StepsUpTo(s, n) \cup IF c.type = "step" THEN {n + 1} ELSE {}
  BY <1>1, <1>2 DEF StepsUpTo
<1>6. Cardinality(StepsUpTo(t, n + 1)) = Cardinality(StepsUpTo(s, n)) + IF c.type = "step" THEN 1 ELSE 0
  <2>1. CASE c.type = "step"
    <3>1. Cardinality(StepsUpTo(s, n) \cup {n + 1}) = Cardinality(StepsUpTo(s, n)) + 1
      BY <1>4, FS_AddElement
    <3> QED BY <1>5, <2>1, <3>1
  <2>2. CASE c.type # "step"
    BY <1>4, <1>5, <2>2
  <2> QED BY <2>1, <2>2
<1> QED BY <1>1, <1>2, <1>3, <1>6 DEF t

\* The numbers the property gives steps, by the set they count.
LEMMA NumberIs ==
  ASSUME NEW i
  PROVE  StepNumber(i) = Cardinality(StepsUpTo(journey.connections, i))
BY DEF StepNumber, StepsUpTo

LEMMA NumberBelow ==
  ASSUME NEW s, NEW n \in Nat, NEW i \in 1 .. n, s[i].type = "step"
  PROVE  Cardinality(StepsUpTo(s, i)) \in 1 .. Cardinality(StepsUpTo(s, n))
<1>1. /\ IsFiniteSet(StepsUpTo(s, n)) /\ Cardinality(StepsUpTo(s, n)) \in Nat
      /\ IsFiniteSet(StepsUpTo(s, i)) /\ Cardinality(StepsUpTo(s, i)) \in Nat
  BY StepsFinite
<1>2. StepsUpTo(s, i) \subseteq StepsUpTo(s, n) /\ i \in StepsUpTo(s, i)
  BY DEF StepsUpTo
<1>3. Cardinality(StepsUpTo(s, i)) <= Cardinality(StepsUpTo(s, n))
  BY <1>1, <1>2, FS_Subset
<1>4. Cardinality(StepsUpTo(s, i)) # 0
  BY <1>1, <1>2, FS_EmptySet
<1> QED BY <1>1, <1>3, <1>4

\* The chain of a journey given by its parts.
Chain(path, n, links) ==
  /\ Len(path) = n + 1 /\ Cardinality(StepsUpTo(links, Len(links))) = n
  /\ \A i \in 1 .. Len(links) :
       links[i].type = "step" =>
         /\ links[i].from = path[Cardinality(StepsUpTo(links, i))]
         /\ links[i].to = path[Cardinality(StepsUpTo(links, i)) + 1]

LEMMA ChainIs ==
  ASSUME JourneyTypes
  PROVE  JourneyIsAChain <=>
           (journey.status # "absent" =>
              /\ journey.currentStep = journey.stepsTaken /\ journey.explored = journey.stepsTaken
              /\ Chain(journey.path, journey.stepsTaken, journey.connections))
<1>1. DOMAIN journey.connections = 1 .. Len(journey.connections)
  BY LenProperties DEF JourneyTypes
<1> QED BY <1>1, NumberIs DEF JourneyIsAChain, Chain

LEMMA ChainGrows ==
  ASSUME NEW path \in Seq(Papers), NEW n \in Nat, NEW links \in Seq(ConnectionRows), Chain(path, n, links),
         NEW d \in Papers, NEW c \in ConnectionRows, c.type = "step", c.from = path[Len(path)], c.to = d
  PROVE  Chain(Append(path, d), n + 1, Append(links, c))
<1> DEFINE q == Append(path, d)
           t == Append(links, c)
<1>1. PICK l \in Nat : l = Len(links)
  BY LenProperties
<1>2. /\ Len(q) = n + 2 /\ q[n + 2] = d /\ \A j \in 1 .. n + 1 : q[j] = path[j]
  <2>1. Len(path) = n + 1
    BY DEF Chain
  <2>2. Len(q) = Len(path) + 1 /\ q[Len(path) + 1] = d /\ \A j \in 1 .. Len(path) : q[j] = path[j]
    BY AppendProperties
  <2> HIDE DEF q
  <2> QED BY <2>1, <2>2
<1>3. /\ Len(t) = l + 1 /\ t[l + 1] = c /\ \A j \in 1 .. l : t[j] = links[j]
      /\ \A i \in 1 .. l : StepsUpTo(t, i) = StepsUpTo(links, i)
      /\ Cardinality(StepsUpTo(t, l + 1)) = n + 1
  BY <1>1, StepsAppend DEF Chain
<1> HIDE DEF q, t
<1>4. ASSUME NEW i \in 1 .. l + 1, t[i].type = "step"
      PROVE  /\ t[i].from = q[Cardinality(StepsUpTo(t, i))]
             /\ t[i].to = q[Cardinality(StepsUpTo(t, i)) + 1]
  <2>1. CASE i = l + 1
    <3>1. c.from = path[n + 1]
      BY DEF Chain
    <3> QED BY <1>2, <1>3, <2>1, <3>1
  <2>2. CASE i # l + 1
    <3>1. i \in 1 .. l
      BY <2>2
    <3>2. links[i].type = "step" /\ Cardinality(StepsUpTo(links, i)) \in 1 .. n
      <4>1. links[i].type = "step" /\ Cardinality(StepsUpTo(links, l)) = n
        BY <1>1, <1>3, <1>4, <3>1 DEF Chain
      <4> QED BY <3>1, <4>1, NumberBelow
    <3>3. /\ links[i].from = path[Cardinality(StepsUpTo(links, i))]
          /\ links[i].to = path[Cardinality(StepsUpTo(links, i)) + 1]
      BY <1>1, <3>1, <3>2 DEF Chain
    <3>4. t[i] = links[i] /\ StepsUpTo(t, i) = StepsUpTo(links, i)
      BY <1>3, <3>1
    <3>5. PICK k \in 1 .. n : k = Cardinality(StepsUpTo(links, i))
      BY <3>2
    <3>6. q[k] = path[k] /\ q[k + 1] = path[k + 1]
      BY <1>2
    <3> QED BY <3>3, <3>4, <3>5, <3>6
  <2> QED BY <2>1, <2>2
<1>5. Len(q) = (n + 1) + 1 /\ Cardinality(StepsUpTo(t, Len(t))) = n + 1
  BY <1>2, <1>3
<1> QED BY <1>3, <1>4, <1>5 DEF Chain, q, t

LEMMA ChainKeeps ==
  ASSUME NEW path \in Seq(Papers), NEW n \in Nat, NEW links \in Seq(ConnectionRows), Chain(path, n, links),
         NEW c \in ConnectionRows, c.type # "step"
  PROVE  Chain(path, n, Append(links, c))
<1> DEFINE t == Append(links, c)
<1>1. PICK l \in Nat : l = Len(links)
  BY LenProperties
<1>2. /\ Len(t) = l + 1 /\ t[l + 1] = c /\ \A j \in 1 .. l : t[j] = links[j]
      /\ \A i \in 1 .. l : StepsUpTo(t, i) = StepsUpTo(links, i)
      /\ Cardinality(StepsUpTo(t, l + 1)) = n
  BY <1>1, StepsAppend DEF Chain
<1> HIDE DEF t
<1>3. ASSUME NEW i \in 1 .. l + 1, t[i].type = "step"
      PROVE  /\ t[i].from = path[Cardinality(StepsUpTo(t, i))]
             /\ t[i].to = path[Cardinality(StepsUpTo(t, i)) + 1]
  <2>1. i \in 1 .. l
    BY <1>2, <1>3
  <2> QED BY <1>1, <1>2, <1>3, <2>1 DEF Chain
<1> QED BY <1>2, <1>3 DEF Chain, t

LEMMA AdvanceInv ==
  ASSUME DiscoveryInv, NEW w \in Walkers, Advance(w)
  PROVE  DiscoveryInv'
<1>1. JourneyTypes /\ WalkersServed /\ journey.status # "absent" /\ JourneyIsAChain
  BY DEF DiscoveryInv, WalkersServed, Advance
<1>2. walker' = [walker EXCEPT ![w] = NoWalk]
  BY DEF Advance
<1>3. CASE walker[w].next = Nowhere
  <2>1. journey' = [journey EXCEPT !.status = "completed"]
    BY <1>3 DEF Advance, CompleteSession
  <2>2. /\ JourneyTypes' /\ journey'.status # "absent" /\ journey'.path = journey.path
        /\ journey'.connections = journey.connections /\ journey'.stepsTaken = journey.stepsTaken
        /\ journey'.currentStep = journey.currentStep /\ journey'.explored = journey.explored
    BY <1>1, <2>1 DEF JourneyTypes
  <2>3. WalkersServed'
    BY <1>1, <1>2, <2>2 DEF WalkersServed, NoWalk
  <2> QED BY <1>1, <2>2, <2>3, ChainIs DEF DiscoveryInv, JourneyIsAChain, StepNumber
<1>4. CASE walker[w].next # Nowhere
  <2>1. PICK d \in Papers : d = walker[w].next
    BY <1>1, <1>4 DEF WalkersServed
  <2>2. PICK c : c = Connection(d)
    OBVIOUS
  <2>3. /\ journey' = [journey EXCEPT !.path = Append(@, d), !.currentStep = @ + 1, !.stepsTaken = @ + 1,
                               !.explored = @ + 1, !.connections = Append(@, c)]
    BY <1>4, <2>1, <2>2 DEF Advance, AdvanceSession
  <2>4. PICK path \in Seq(Papers), n \in Nat, links \in Seq(ConnectionRows) :
          path = journey.path /\ n = journey.stepsTaken /\ links = journey.connections
    BY <1>1 DEF JourneyTypes
  <2>5. Chain(path, n, links) /\ journey.currentStep = n /\ journey.explored = n
    BY <1>1, <2>4, ChainIs
  <2>6. Len(path) = n + 1 /\ path[Len(path)] \in Papers
    <3>1. Len(path) = n + 1
      BY <2>5 DEF Chain
    <3> QED BY <3>1, ElementOfSeq
  <2>7. c \in ConnectionRows /\ c.type = "step" /\ c.from = path[Len(path)] /\ c.to = d
    BY <2>2, <2>4, <2>6 DEF Connection, Last, ConnectionRows
  <2>8. PICK q, t : q = Append(path, d) /\ t = Append(links, c)
    OBVIOUS
  <2>9. Chain(q, n + 1, t) /\ q \in Seq(Papers) /\ t \in Seq(ConnectionRows)
    BY <2>5, <2>7, <2>8, ChainGrows, AppendProperties
  <2>10. /\ DOMAIN journey' = DOMAIN journey /\ journey'.status = journey.status
         /\ journey'.path = q /\ journey'.connections = t /\ journey'.stepsTaken = n + 1
         /\ journey'.currentStep = n + 1 /\ journey'.explored = n + 1
    BY <1>1, <2>3, <2>4, <2>5, <2>8 DEF JourneyTypes
  <2>11. JourneyTypes'
    BY <1>1, <2>9, <2>10 DEF JourneyTypes
  <2>12. WalkersServed'
    BY <1>1, <1>2, <2>10 DEF WalkersServed, NoWalk
  <2>13. (JourneyIsAChain <=>
           (journey.status # "absent" =>
              /\ journey.currentStep = journey.stepsTaken /\ journey.explored = journey.stepsTaken
              /\ Chain(journey.path, journey.stepsTaken, journey.connections)))'
    BY <2>11, ChainIs, PTL
  <2>14. JourneyIsAChain'
    BY <2>9, <2>10, <2>13
  <2> QED BY <2>11, <2>12, <2>14 DEF DiscoveryInv
<1> QED BY <1>3, <1>4

LEMMA CompleteInv ==
  ASSUME DiscoveryInv, NEW w \in Walkers, Complete(w)
  PROVE  DiscoveryInv'
<1>1. JourneyTypes /\ WalkersServed /\ journey.status # "absent" /\ JourneyIsAChain
  BY DEF DiscoveryInv, WalkersServed, Complete
<1>2. walker' = [walker EXCEPT ![w] = NoWalk]
  BY DEF Complete
<1>3. PICK c \in ConnectionRows : c = [type |-> "synthesis", from |-> Nowhere, to |-> Nowhere]
  BY DEF ConnectionRows
<1>4. journey' = [journey EXCEPT !.status = "completed", !.connections = Append(@, c)]
  BY <1>3 DEF Complete
<1>5. PICK path \in Seq(Papers), n \in Nat, links \in Seq(ConnectionRows) :
        path = journey.path /\ n = journey.stepsTaken /\ links = journey.connections
  BY <1>1 DEF JourneyTypes
<1>6. Chain(path, n, links) /\ journey.currentStep = n /\ journey.explored = n /\ c.type # "step"
  BY <1>1, <1>3, <1>5, ChainIs
<1>7. PICK t : t = Append(links, c)
  OBVIOUS
<1>8. Chain(path, n, t) /\ t \in Seq(ConnectionRows)
  BY <1>6, <1>7, ChainKeeps, AppendProperties
<1>9. /\ DOMAIN journey' = DOMAIN journey /\ journey'.status = "completed"
      /\ journey'.path = path /\ journey'.connections = t /\ journey'.stepsTaken = n
      /\ journey'.currentStep = n /\ journey'.explored = n
  BY <1>1, <1>4, <1>5, <1>6, <1>7 DEF JourneyTypes
<1>10. JourneyTypes'
  BY <1>1, <1>8, <1>9 DEF JourneyTypes
<1>11. WalkersServed'
  BY <1>1, <1>2, <1>9 DEF WalkersServed, NoWalk
<1>12. (JourneyIsAChain <=>
          (journey.status # "absent" =>
             /\ journey.currentStep = journey.stepsTaken /\ journey.explored = journey.stepsTaken
             /\ Chain(journey.path, journey.stepsTaken, journey.connections)))'
  BY <1>10, ChainIs, PTL
<1>13. JourneyIsAChain'
  BY <1>8, <1>9, <1>12
<1> QED BY <1>10, <1>11, <1>13 DEF DiscoveryInv

\* A session begins with one document and no connection.
LEMMA CreateInv ==
  ASSUME DiscoveryInv, NEW d \in Papers, CreateSession(d)
  PROVE  DiscoveryInv'
<1>1. WalkersServed /\ walker' = walker
  BY DEF DiscoveryInv, CreateSession
<1>2. /\ DOMAIN journey' = {"status", "path", "currentStep", "stepsTaken", "explored", "connections"}
      /\ journey'.status = "active" /\ journey'.path = <<d>> /\ journey'.connections = <<>>
      /\ journey'.stepsTaken = 0 /\ journey'.currentStep = 0 /\ journey'.explored = 0
  BY DEF CreateSession, NoJourney
<1>3. <<d>> \in Seq(Papers) /\ Len(<<d>>) = 1 /\ <<>> \in Seq(ConnectionRows) /\ Len(<<>>) = 0
  BY EmptySeq
<1>4. JourneyTypes'
  BY <1>2, <1>3 DEF JourneyTypes
<1>5. WalkersServed'
  BY <1>1, <1>2 DEF WalkersServed
<1>6. Chain(<<d>>, 0, <<>>)
  <2>1. StepsUpTo(<<>>, 0) = {}
    BY DEF StepsUpTo
  <2>2. Cardinality(StepsUpTo(<<>>, 0)) = 0
    BY <2>1, FS_EmptySet
  <2>3. Len(<<d>>) = 0 + 1 /\ 1 .. Len(<<>>) = {} /\ Len(<<>>) = 0
    BY <1>3
  <2> QED BY <2>2, <2>3 DEF Chain
<1>7. (JourneyIsAChain <=>
         (journey.status # "absent" =>
            /\ journey.currentStep = journey.stepsTaken /\ journey.explored = journey.stepsTaken
            /\ Chain(journey.path, journey.stepsTaken, journey.connections)))'
  BY <1>4, ChainIs, PTL
<1>8. JourneyIsAChain'
  BY <1>2, <1>6, <1>7
<1> QED BY <1>4, <1>5, <1>8 DEF DiscoveryInv

\* Steps that show something, or wait for the model, leave the session alone.
LEMMA WalkInv ==
  ASSUME DiscoveryInv, UNCHANGED journey, WalkersServed'
  PROVE  DiscoveryInv'
BY DEF DiscoveryInv, JourneyTypes, JourneyIsAChain, StepNumber

\* However the requests of a discovery session overlap, fail and end with their process: its
\* counters agree with its path, and its connections lead along the path, in its order.
THEOREM JourneyIsAlwaysAChain == DiscoverySpec => []JourneyIsAChain
<1>1. DiscoveryInit => DiscoveryInv
  <2> SUFFICES ASSUME DiscoveryInit PROVE DiscoveryInv
    OBVIOUS
  <2>1. JourneyTypes
    BY EmptySeq DEF DiscoveryInit, JourneyTypes, NoJourney
  <2>2. WalkersServed /\ JourneyIsAChain
    BY DEF DiscoveryInit, WalkersServed, NoWalk, JourneyIsAChain, NoJourney
  <2> QED BY <2>1, <2>2 DEF DiscoveryInv
<1>2. DiscoveryInv /\ [DiscoveryNext]_discoveryVars => DiscoveryInv'
  <2> SUFFICES ASSUME DiscoveryInv, [DiscoveryNext]_discoveryVars PROVE DiscoveryInv'
    OBVIOUS
  <2>1. WalkersServed /\ JourneyTypes
    BY DEF DiscoveryInv
  <2>2. ASSUME NEW w \in Walkers, NEW op, BeginWalk(w, op) PROVE DiscoveryInv'
    BY <2>1, <2>2, WalkInv DEF BeginWalk, WalkersServed, NoWalk
  <2>3. ASSUME NEW w \in Walkers, AnalyzeGraph(w) PROVE DiscoveryInv'
    BY <2>1, <2>3, WalkInv DEF AnalyzeGraph, WalkersServed
  <2>4. ASSUME NEW w \in Walkers, AskNextStep(w) PROVE DiscoveryInv'
    BY <2>1, <2>4, WalkInv DEF AskNextStep, WalkersServed
  <2>5. ASSUME NEW w \in Walkers, ShowStep(w) \/ ShowSynthesis(w) PROVE DiscoveryInv'
    BY <2>1, <2>5, WalkInv DEF ShowStep, ShowSynthesis, WalkersServed, NoWalk
  <2>6. ASSUME NEW w \in Walkers, Synthesize(w) PROVE DiscoveryInv'
    BY <2>1, <2>6, WalkInv DEF Synthesize, WalkersServed
  <2>7. CASE ProcessRestarts
    <3>1. journey' = NoJourney /\ walker' = [w \in Walkers |-> NoWalk]
      BY <2>7 DEF ProcessRestarts
    <3>2. JourneyTypes'
      BY <3>1, EmptySeq DEF JourneyTypes, NoJourney
    <3>3. WalkersServed' /\ JourneyIsAChain'
      BY <3>1 DEF WalkersServed, NoWalk, JourneyIsAChain, NoJourney
    <3> QED BY <3>2, <3>3 DEF DiscoveryInv
  <2>8. CASE UNCHANGED discoveryVars
    BY <2>1, <2>8, WalkInv DEF discoveryVars, WalkersServed
  <2> QED BY <2>2, <2>3, <2>4, <2>5, <2>6, <2>7, <2>8, AdvanceInv, CompleteInv, CreateInv
          DEF DiscoveryNext, WalkerStep
<1>3. DiscoveryInv => JourneyIsAChain
  BY DEF DiscoveryInv
<1> QED BY <1>1, <1>2, <1>3, PTL DEF DiscoverySpec

--------------------------------------------------------------------------------
(* Insight cards.  No handler writes a status "new", and what it loaded stays a bound on what
   it will meet: a card that was not new when it was loaded is not new when it is written. *)

CardStatuses == {"new", "shown", "dismissed", "saved", "expired"}

CardRows == [status : CardStatuses, helpful : {"none", "yes", "no"}, shown : Nat, createdAt : Nat]

CardTypes ==
  /\ cards \in Seq(CardRows) /\ clock \in Nat
  /\ DOMAIN reader = Readers
  /\ \A r \in Readers : DOMAIN reader[r] = {"op", "card", "change", "rows", "fresh"}

\* A change of a card, by one who acts on it or rates it.
ChangeSound(r) ==
  reader[r].op \in {"act", "rate"} =>
    /\ reader[r].card \in 1 .. Len(cards)
    /\ DOMAIN reader[r].change \subseteq {"status", "helpful", "shown"}
    /\ "status" \in DOMAIN reader[r].change => reader[r].change["status"] \in CardStatuses \ {"new"}
    /\ "helpful" \in DOMAIN reader[r].change => reader[r].change["helpful"] \in {"yes", "no"}
    /\ "shown" \in DOMAIN reader[r].change => reader[r].change["shown"] \in Nat
    /\ reader[r].op = "act" =>
         "status" \in DOMAIN reader[r].change \/ cards[reader[r].card].status # "new"

RowsSound(r) ==
  reader[r].op = "refresh" =>
    /\ DOMAIN reader[r].rows \subseteq 1 .. Len(cards)
    /\ \A c \in DOMAIN reader[r].rows : reader[r].rows[c] # "new" => cards[c].status # "new"

InsightsInv ==
  /\ CardTypes
  /\ \A r \in Readers : ChangeSound(r) /\ RowsSound(r)
  /\ acted \subseteq 1 .. Len(cards) /\ \A c \in acted : cards[c].status # "new"

LEMMA CardDomains ==
  ASSUME CardTypes
  PROVE  /\ Len(cards) \in Nat /\ DOMAIN cards = 1 .. Len(cards)
         /\ \A c \in 1 .. Len(cards) : cards[c] \in CardRows
BY LenProperties, ElementOfSeq DEF CardTypes

\* Cards come, and cards change, but none becomes new.
CardsAge ==
  /\ cards' \in Seq(CardRows) /\ Len(cards) <= Len(cards')
  /\ \A c \in 1 .. Len(cards) : cards[c].status # "new" => cards'[c].status # "new"

\* The one request that took the step, and the others.
LEMMA ReaderInv ==
  ASSUME InsightsInv, CardsAge, NEW r \in Readers, NEW new, reader' = [reader EXCEPT ![r] = new],
         DOMAIN new = {"op", "card", "change", "rows", "fresh"}, clock' \in Nat,
         ChangeSound(r)', RowsSound(r)',
         acted' \subseteq 1 .. Len(cards'), \A c \in acted' : cards'[c].status # "new"
  PROVE  InsightsInv'
<1>1. CardTypes /\ Len(cards) \in Nat /\ Len(cards') \in Nat /\ Len(cards) <= Len(cards')
  BY CardDomains, LenProperties DEF InsightsInv, CardsAge
<1>2. CardTypes'
  BY <1>1 DEF CardTypes, CardsAge
<1>3. ASSUME NEW q \in Readers, q # r PROVE ChangeSound(q)' /\ RowsSound(q)'
  <2>1. reader'[q] = reader[q] /\ ChangeSound(q) /\ RowsSound(q)
    BY <1>1, <1>3 DEF InsightsInv, CardTypes
  <2>2. \A c \in 1 .. Len(cards) : c \in 1 .. Len(cards')
    BY <1>1
  <2> QED BY <2>1, <2>2 DEF ChangeSound, RowsSound, CardsAge
<1> QED BY <1>2, <1>3 DEF InsightsInv

\* A request that has nothing in hand.
LEMMA IdleSound ==
  ASSUME NEW r, NEW op, op \notin {"act", "rate", "refresh"}, reader'[r].op = op
  PROVE  ChangeSound(r)' /\ RowsSound(r)'
BY DEF ChangeSound, RowsSound

LEMMA SameCards ==
  ASSUME InsightsInv, cards' = cards
  PROVE  CardsAge
BY CardDomains DEF InsightsInv, CardTypes, CardsAge

LEMMA OpenInv ==
  ASSUME InsightsInv, NEW r \in Readers, NEW c \in 1 .. Len(cards), NEW op \in {"act", "rate"}, NEW values,
         Open(r, c, op, values), DOMAIN values \subseteq {"status", "helpful", "shown"},
         "status" \in DOMAIN values => values["status"] \in CardStatuses
                                       /\ (values["status"] = "new" => cards[c].status = "new"),
         "helpful" \in DOMAIN values => values["helpful"] \in {"yes", "no"},
         "shown" \in DOMAIN values => values["shown"] \in Nat,
         op = "act" => "status" \in DOMAIN values /\ values["status"] # "new"
  PROVE  InsightsInv'
<1> DEFINE changed == {f \in DOMAIN values : values[f] # cards[c][f]}
           change == [f \in changed |-> values[f]]
           new == [NoReader EXCEPT !.op = op, !.card = c, !.change = change]
<1>1. reader' = [reader EXCEPT ![r] = new] /\ UNCHANGED <<cards, captured, clock, acted>>
  BY DEF Open
<1>2. CardTypes /\ CardsAge /\ cards[c] \in CardRows
  BY <1>1, SameCards, CardDomains DEF InsightsInv
<1>3. /\ DOMAIN new = {"op", "card", "change", "rows", "fresh"}
      /\ new.op = op /\ new.card = c /\ new.change = change
  BY DEF NoReader
<1>4. /\ DOMAIN change \subseteq DOMAIN values /\ \A f \in DOMAIN change : change[f] = values[f]
      /\ \A f \in DOMAIN values : f \notin DOMAIN change => values[f] = cards[c][f]
  OBVIOUS
<1>5. cards[c]["status"] = cards[c].status
  OBVIOUS
<1> HIDE DEF new, change, changed
<1>6. reader'[r] = new
  BY <1>1, <1>2 DEF CardTypes
<1>7. "status" \in DOMAIN change => change["status"] \in CardStatuses \ {"new"}
  <2> SUFFICES ASSUME "status" \in DOMAIN change PROVE change["status"] \in CardStatuses \ {"new"}
    OBVIOUS
  <2>1. values["status"] # cards[c].status
    BY DEF change, changed
  <2> QED BY <1>4, <2>1
<1>8. ChangeSound(r)' /\ RowsSound(r)'
  BY <1>1, <1>3, <1>4, <1>5, <1>6, <1>7 DEF ChangeSound, RowsSound
<1>9. clock' \in Nat /\ acted' \subseteq 1 .. Len(cards') /\ \A d \in acted' : cards'[d].status # "new"
  BY <1>1 DEF InsightsInv, CardTypes
<1> QED BY <1>1, <1>2, <1>3, <1>8, <1>9, ReaderInv

LEMMA OneCardInv ==
  ASSUME InsightsInv, NEW r \in Readers, NEW c \in 1 .. Len(cards),
         GetInsight(r, c) \/ DismissInsight(r, c) \/ SaveInsight(r, c)
           \/ \E verdict \in {"yes", "no"} : FeedbackInsight(r, c, verdict)
  PROVE  InsightsInv'
<1>1. cards[c] \in CardRows
  BY CardDomains DEF InsightsInv
<1>2. CASE GetInsight(r, c)
  <2>1. PICK values : values = [shown |-> cards[c].shown + 1,
                                status |-> IF cards[c].status = "new" THEN "shown" ELSE cards[c].status]
    OBVIOUS
  <2>2. /\ DOMAIN values = {"shown", "status"} /\ values["shown"] \in Nat
        /\ values["status"] \in CardStatuses /\ values["status"] # "new"
    BY <1>1, <2>1 DEF CardRows, CardStatuses
  <2>3. Open(r, c, "act", values)
    BY <1>2, <2>1 DEF GetInsight
  <2> QED BY <2>2, <2>3, OpenInv
<1>3. CASE DismissInsight(r, c)
  <2>1. PICK values : values = [status |-> "dismissed"]
    OBVIOUS
  <2>2. DOMAIN values = {"status"} /\ values["status"] = "dismissed" /\ "dismissed" \in CardStatuses
    BY <2>1 DEF CardStatuses
  <2>3. Open(r, c, "act", values)
    BY <1>3, <2>1 DEF DismissInsight
  <2> QED BY <2>2, <2>3, OpenInv
<1>4. CASE SaveInsight(r, c)
  <2>1. PICK values : values = [status |-> "saved", helpful |-> "yes"]
    OBVIOUS
  <2>2. /\ DOMAIN values = {"status", "helpful"} /\ values["status"] = "saved"
        /\ values["helpful"] = "yes" /\ "saved" \in CardStatuses
    BY <2>1 DEF CardStatuses
  <2>3. Open(r, c, "act", values)
    BY <1>4, <2>1 DEF SaveInsight
  <2> QED BY <2>2, <2>3, OpenInv
<1>5. ASSUME NEW verdict \in {"yes", "no"}, FeedbackInsight(r, c, verdict) PROVE InsightsInv'
  <2>1. PICK values : values = [helpful |-> verdict]
    OBVIOUS
  <2>2. DOMAIN values = {"helpful"} /\ values["helpful"] \in {"yes", "no"}
    BY <2>1
  <2>3. Open(r, c, "rate", values)
    BY <1>5, <2>1 DEF FeedbackInsight
  <2> QED BY <2>2, <2>3, OpenInv
<1> QED BY <1>2, <1>3, <1>4, <1>5

LEMMA CommitInv ==
  ASSUME InsightsInv, NEW r \in Readers, CommitCard(r)
  PROVE  InsightsInv'
<1> DEFINE c == reader[r].card
           change == reader[r].change
           row == [f \in DOMAIN cards[c] |-> IF f \in DOMAIN change THEN change[f] ELSE cards[c][f]]
<1>1. /\ reader[r].op \in {"act", "rate"} /\ cards' = [cards EXCEPT ![c] = row]
      /\ acted' = (IF reader[r].op = "act" THEN acted \cup {c} ELSE acted)
      /\ reader' = [reader EXCEPT ![r] = NoReader] /\ clock' = clock
  BY CardDomains DEF CommitCard, InsightsInv, ChangeSound
<1>2. CardTypes /\ ChangeSound(r) /\ Len(cards) \in Nat
      /\ \A d \in 1 .. Len(cards) : cards[d] \in CardRows
  BY CardDomains DEF InsightsInv
<1>3. c \in 1 .. Len(cards) /\ cards[c] \in CardRows
  BY <1>1, <1>2 DEF ChangeSound
<1>4. \A f \in {"status", "helpful", "shown", "createdAt"} :
        row[f] = IF f \in DOMAIN change THEN change[f] ELSE cards[c][f]
  BY <1>3 DEF CardRows
<1>5. DOMAIN row = {"status", "helpful", "shown", "createdAt"} /\ row = [f \in DOMAIN row |-> row[f]]
  BY <1>3 DEF CardRows
<1> HIDE DEF row
<1>6. /\ row["status"] \in CardStatuses /\ row["helpful"] \in {"none", "yes", "no"}
      /\ row["shown"] \in Nat /\ row["createdAt"] \in Nat
      /\ row["status"] = "new" => cards[c].status = "new"
      /\ reader[r].op = "act" => row["status"] # "new"
  BY <1>1, <1>2, <1>3, <1>4 DEF ChangeSound, CardRows
<1>7. row \in CardRows
  BY <1>5, <1>6 DEF CardRows
<1>8. /\ cards' \in Seq(CardRows) /\ Len(cards') = Len(cards) /\ cards'[c] = row
      /\ \A d \in 1 .. Len(cards) : d # c => cards'[d] = cards[d]
  BY <1>1, <1>2, <1>3, <1>7, ExceptSeq DEF CardTypes
<1>9. CardsAge
  BY <1>2, <1>6, <1>8 DEF CardsAge
<1>10. /\ DOMAIN NoReader = {"op", "card", "change", "rows", "fresh"} /\ NoReader.op = "idle"
       /\ reader'[r] = NoReader
  BY <1>1, <1>2 DEF NoReader, CardTypes
<1>11. ChangeSound(r)' /\ RowsSound(r)'
  BY <1>10, IdleSound
<1>12. acted' \subseteq 1 .. Len(cards') /\ \A d \in acted' : cards'[d].status # "new"
  BY <1>1, <1>3, <1>6, <1>8 DEF InsightsInv
<1>13. clock' \in Nat
  BY <1>1, <1>2 DEF CardTypes
<1> QED BY <1>1, <1>9, <1>10, <1>11, <1>12, <1>13, ReaderInv

\* New cards come after the others.
LEMMA SaveInsightsInv ==
  ASSUME InsightsInv, NEW r \in Readers, NEW limit \in Nat, SaveInsights(r, limit)
  PROVE  InsightsInv'
<1>1. CardTypes /\ Len(cards) \in Nat /\ DOMAIN cards = 1 .. Len(cards)
  BY CardDomains DEF InsightsInv
<1>2. PICK batch \in InsightBatch(limit) :
        cards' = cards \o batch /\ clock' = IF batch = <<>> THEN clock ELSE clock + 1
  BY DEF SaveInsights
<1>3. acted' = acted /\ reader' = [reader EXCEPT ![r] = NoReader]
  BY DEF SaveInsights
<1>4. NewCard(clock + 1) \in CardRows
  BY <1>1 DEF NewCard, CardRows, CardStatuses, CardTypes
<1>5. batch \in Seq(CardRows)
  <2>1. PICK n \in 0 .. limit : batch = [i \in 1 .. n |-> NewCard(clock + 1)]
    BY <1>2 DEF InsightBatch
  <2>2. batch \in [1 .. n -> CardRows]
    BY <1>4, <2>1
  <2> QED BY <2>1, <2>2, SeqDef
<1>6. /\ cards' \in Seq(CardRows) /\ Len(cards) <= Len(cards')
      /\ \A c \in 1 .. Len(cards) : cards'[c] = cards[c]
  <2>1. Len(batch) \in Nat
    BY <1>5, LenProperties
  <2>2. /\ cards \o batch \in Seq(CardRows) /\ Len(cards \o batch) = Len(cards) + Len(batch)
        /\ \A c \in 1 .. Len(cards) + Len(batch) :
             (cards \o batch)[c] = IF c <= Len(cards) THEN cards[c] ELSE batch[c - Len(cards)]
    BY <1>1, <1>5, ConcatProperties DEF CardTypes
  <2> QED BY <1>1, <1>2, <2>1, <2>2
<1>7. CardsAge
  BY <1>6 DEF CardsAge
<1>8. /\ DOMAIN NoReader = {"op", "card", "change", "rows", "fresh"} /\ NoReader.op = "idle"
      /\ reader'[r] = NoReader
  BY <1>1, <1>3 DEF NoReader, CardTypes
<1>9. ChangeSound(r)' /\ RowsSound(r)'
  BY <1>8, IdleSound
<1>10. acted' \subseteq 1 .. Len(cards') /\ \A d \in acted' : cards'[d].status # "new"
  <2>1. Len(cards') \in Nat
    BY <1>6, LenProperties
  <2> QED BY <1>1, <1>3, <1>6, <2>1 DEF InsightsInv
<1>11. clock' \in Nat
  BY <1>1, <1>2 DEF CardTypes
<1> QED BY <1>3, <1>7, <1>8, <1>9, <1>10, <1>11, ReaderInv

\* A request that goes on with nothing in hand.
LEMMA NothingInHand ==
  ASSUME InsightsInv, NEW r \in Readers, NEW new, reader' = [reader EXCEPT ![r] = new],
         DOMAIN new = {"op", "card", "change", "rows", "fresh"}, new.op \notin {"act", "rate", "refresh"},
         CardsAge, clock' \in Nat,
         acted' \subseteq 1 .. Len(cards'), \A c \in acted' : cards'[c].status # "new"
  PROVE  InsightsInv'
<1>1. reader'[r] = new
  BY DEF InsightsInv, CardTypes
<1>2. ChangeSound(r)' /\ RowsSound(r)'
  BY <1>1, IdleSound
<1> QED BY <1>2, ReaderInv

LEMMA BeginRefreshInv ==
  ASSUME InsightsInv, NEW r \in Readers, BeginRefresh(r)
  PROVE  InsightsInv'
<1> DEFINE alive == {c \in DOMAIN cards : cards[c].status # "expired"}
           rows == [c \in alive |-> cards[c].status]
<1>1. CardTypes /\ DOMAIN cards = 1 .. Len(cards) /\ UNCHANGED <<cards, clock, acted>>
  BY CardDomains DEF InsightsInv, BeginRefresh
<1>2. PICK fresh : reader' = [reader EXCEPT ![r] =
                     [NoReader EXCEPT !.op = "refresh", !.rows = rows, !.fresh = fresh]]
  BY DEF BeginRefresh
<1>3. PICK new : new = [NoReader EXCEPT !.op = "refresh", !.rows = rows, !.fresh = fresh]
  OBVIOUS
<1>4. /\ DOMAIN new = {"op", "card", "change", "rows", "fresh"} /\ new.op = "refresh"
      /\ new.rows = rows
  BY <1>3 DEF NoReader
<1>5. reader' = [reader EXCEPT ![r] = new] /\ reader'[r] = new
  BY <1>1, <1>2, <1>3 DEF CardTypes
<1>6. DOMAIN rows \subseteq 1 .. Len(cards) /\ \A c \in DOMAIN rows : rows[c] = cards[c].status
  BY <1>1
<1> HIDE DEF rows, alive
<1>7. ChangeSound(r)' /\ RowsSound(r)'
  BY <1>1, <1>4, <1>5, <1>6 DEF ChangeSound, RowsSound
<1>8. /\ CardsAge /\ clock' \in Nat
      /\ acted' \subseteq 1 .. Len(cards') /\ \A c \in acted' : cards'[c].status # "new"
  BY <1>1, SameCards DEF InsightsInv, CardTypes
<1> QED BY <1>4, <1>5, <1>7, <1>8, ReaderInv

LEMMA RefreshInv ==
  ASSUME InsightsInv, NEW r \in Readers, RefreshCards(r)
  PROVE  InsightsInv'
<1>1. CardTypes /\ DOMAIN cards = 1 .. Len(cards) /\ Len(cards) \in Nat /\ RowsSound(r)
      /\ \A c \in 1 .. Len(cards) : cards[c] \in CardRows
  BY CardDomains DEF InsightsInv
<1>2. reader[r].op = "refresh" /\ clock' = clock
  BY DEF RefreshCards
<1>3. PICK answer \in Answers :
        /\ cards' = [c \in DOMAIN cards |->
                       IF c \in Retired(answer) /\ Loaded(r, c) # answer[c]
                       THEN [cards[c] EXCEPT !.status = answer[c]] ELSE cards[c]]
        /\ acted' = acted \cup Retired(answer)
  BY DEF RefreshCards
<1>4. /\ Retired(answer) \subseteq 1 .. Len(cards)
      /\ \A c \in Retired(answer) : answer[c] \in {"dismissed", "expired"}
  BY <1>1 DEF Answers, Retired
<1>5. ASSUME NEW c \in 1 .. Len(cards)
      PROVE  /\ cards'[c] \in CardRows
             /\ cards[c].status # "new" => cards'[c].status # "new"
             /\ c \in Retired(answer) => cards'[c].status # "new"
  <2>1. CASE c \in Retired(answer) /\ Loaded(r, c) # answer[c]
    <3>1. cards'[c] = [cards[c] EXCEPT !.status = answer[c]]
      BY <1>1, <1>3, <2>1
    <3> QED BY <1>1, <1>4, <2>1, <3>1 DEF CardRows, CardStatuses
  <2>2. CASE ~(c \in Retired(answer) /\ Loaded(r, c) # answer[c])
    <3>1. cards'[c] = cards[c]
      BY <1>1, <1>3, <2>2
    <3>2. c \in Retired(answer) => cards[c].status # "new"
      BY <1>1, <1>2, <1>4, <2>2 DEF RowsSound, Loaded
    <3> QED BY <1>1, <3>1, <3>2
  <2> QED BY <2>1, <2>2
<1>6. cards' \in Seq(CardRows) /\ Len(cards') = Len(cards)
  <2>1. cards' \in [1 .. Len(cards) -> CardRows]
    BY <1>1, <1>3, <1>5
  <2> QED BY <1>1, <2>1, SeqDef, LenProperties
<1>7. CardsAge
  BY <1>1, <1>5, <1>6 DEF CardsAge
<1>8. acted' \subseteq 1 .. Len(cards') /\ \A c \in acted' : cards'[c].status # "new"
  BY <1>3, <1>4, <1>5, <1>6 DEF InsightsInv
<1>9. clock' \in Nat
  BY <1>1, <1>2 DEF CardTypes
<1>10. PICK new : /\ reader' = [reader EXCEPT ![r] = new]
                  /\ new = IF reader[r].fresh THEN [NoReader EXCEPT !.op = "news"] ELSE NoReader
  BY DEF RefreshCards
<1>11. DOMAIN new = {"op", "card", "change", "rows", "fresh"} /\ new.op \notin {"act", "rate", "refresh"}
  BY <1>10 DEF NoReader
<1> QED BY <1>7, <1>8, <1>9, <1>10, <1>11, NothingInHand

\* However views, verdicts, generations and refreshes of a user's cards overlap and fail, a card
\* somebody acted on is never new again.
THEOREM ActedOnIsNeverNew == InsightsSpec => []ActedOnIsNotNew
<1>1. InsightsInit => InsightsInv
  <2> SUFFICES ASSUME InsightsInit PROVE InsightsInv
    OBVIOUS
  <2>1. CardTypes
    BY EmptySeq DEF InsightsInit, CardTypes, NoReader
  <2>2. \A r \in Readers : ChangeSound(r) /\ RowsSound(r)
    BY DEF InsightsInit, ChangeSound, RowsSound, NoReader
  <2> QED BY <2>1, <2>2 DEF InsightsInit, InsightsInv
<1>2. InsightsInv /\ [InsightsNext]_insightVars => InsightsInv'
  <2> SUFFICES ASSUME InsightsInv, [InsightsNext]_insightVars PROVE InsightsInv'
    OBVIOUS
  <2>1. CardTypes /\ DOMAIN cards = 1 .. Len(cards)
    BY CardDomains DEF InsightsInv
  <2>2. ASSUME cards' = cards, acted' = acted, clock' \in Nat
        PROVE  /\ CardsAge /\ clock' \in Nat
               /\ acted' \subseteq 1 .. Len(cards') /\ \A c \in acted' : cards'[c].status # "new"
    BY <2>2, SameCards DEF InsightsInv
  <2>3. ASSUME UNCHANGED <<cards, reader, acted>>, clock' \in Nat PROVE InsightsInv'
    BY <2>3 DEF InsightsInv, CardTypes, ChangeSound, RowsSound
  <2>4. CASE Capture
    <3>1. clock' \in Nat /\ UNCHANGED <<cards, reader, acted>>
      BY <2>1, <2>4 DEF Capture, CardTypes
    <3> QED BY <2>3, <3>1
  <2>5. CASE UNCHANGED insightVars
    <3>1. clock' \in Nat /\ UNCHANGED <<cards, reader, acted>>
      BY <2>1, <2>5 DEF insightVars, CardTypes
    <3> QED BY <2>3, <3>1
  <2>6. ASSUME NEW r \in Readers, BeginGenerate(r) PROVE InsightsInv'
    <3>1. /\ reader' = [reader EXCEPT ![r] = [NoReader EXCEPT !.op = "generate"]]
          /\ cards' = cards /\ acted' = acted /\ clock' \in Nat
      BY <2>1, <2>6 DEF BeginGenerate, CardTypes
    <3>2. /\ CardsAge /\ clock' \in Nat
          /\ acted' \subseteq 1 .. Len(cards') /\ \A c \in acted' : cards'[c].status # "new"
      BY <2>2, <3>1
    <3>3. PICK new : new = [NoReader EXCEPT !.op = "generate"]
      OBVIOUS
    <3>4. DOMAIN new = {"op", "card", "change", "rows", "fresh"} /\ new.op = "generate"
      BY <3>3 DEF NoReader
    <3> QED BY <3>1, <3>2, <3>3, <3>4, NothingInHand
  <2>7. ASSUME NEW r \in Readers, RefreshFails(r) PROVE InsightsInv'
    <3>1. /\ reader' = [reader EXCEPT ![r] = NoReader]
          /\ cards' = cards /\ acted' = acted /\ clock' \in Nat
      BY <2>1, <2>7 DEF RefreshFails, CardTypes
    <3>2. /\ CardsAge /\ clock' \in Nat
          /\ acted' \subseteq 1 .. Len(cards') /\ \A c \in acted' : cards'[c].status # "new"
      BY <2>2, <3>1
    <3>3. PICK new : new = NoReader
      OBVIOUS
    <3>4. DOMAIN new = {"op", "card", "change", "rows", "fresh"} /\ new.op = "idle"
      BY <3>3 DEF NoReader
    <3> QED BY <3>1, <3>2, <3>3, <3>4, NothingInHand
  <2>8. ASSUME NEW r \in Readers, GenerateInsights(r) \/ RefreshGenerates(r) PROVE InsightsInv'
    <3>1. MaxCards \in Nat /\ 3 \in Nat
      BY InsightsAssumption
    <3> QED BY <2>8, <3>1, SaveInsightsInv DEF GenerateInsights, RefreshGenerates
  <2> QED BY <2>1, <2>4, <2>5, <2>6, <2>7, <2>8, OneCardInv, CommitInv, BeginRefreshInv, RefreshInv
          DEF InsightsNext
<1>3. InsightsInv => ActedOnIsNotNew
  BY DEF InsightsInv, ActedOnIsNotNew
<1> QED BY <1>1, <1>2, <1>3, PTL DEF InsightsSpec

--------------------------------------------------------------------------------
(* Imports.  What an import loaded or stored stays stored; until two overlap, what it did not
   find is not there when it commits. *)

ImportTypes ==
  /\ DOMAIN imported = TypedRefs /\ \A p \in TypedRefs : imported[p] \in Nat
  /\ DOMAIN importer = Importers
  /\ \A c \in Importers : DOMAIN importer[c] = {"at", "format", "items", "known"}

FileSound(format, items) ==
  /\ format \in DOMAIN Parsers
  /\ DOMAIN items \subseteq Nat /\ IsFiniteSet(DOMAIN items)
  /\ \A i \in DOMAIN items : items[i] \in Refs \cup {NoRef}

ImporterSound(c) ==
  /\ importer[c].at \in {"select", "commit", "index", "ledger"} =>
       FileSound(importer[c].format, importer[c].items)
  /\ importer[c].at = "commit" =>
       /\ importer[c].known \subseteq Given(importer[c].items)
       /\ \A r \in importer[c].known : imported[<<importer[c].format, r>>] > 0
       /\ ~mingled => \A r \in Given(importer[c].items) :
                        imported[<<importer[c].format, r>>] > 0 => r \in importer[c].known
  /\ importer[c].at \in {"index", "ledger"} =>
       \A r \in Given(importer[c].items) : imported[<<importer[c].format, r>>] > 0

ImportsAlone ==
  ~mingled => \A c, d \in Importers : importer[c].at # "idle" /\ importer[d].at # "idle" => c = d

StoredOnce ==
  /\ uniqueRef \/ ~mingled => \A p \in TypedRefs : p[2] # NoRef => imported[p] <= 1
  /\ \A p \in answered : p \in TypedRefs /\ imported[p] > 0

ImportsInv ==
  /\ ImportTypes
  /\ \A c \in Importers : ImporterSound(c)
  /\ ImportsAlone
  /\ StoredOnce

\* A reference has a first place in its file.
LEMMA FirstPlace ==
  ASSUME NEW items, DOMAIN items \subseteq Nat, NEW r \in Given(items)
  PROVE  \E i \in DOMAIN items : items[i] = r /\ \A j \in DOMAIN items : j < i => items[j] # r
<1> DEFINE R == {ss \in Nat \X Nat : ss[1] < ss[2]}
           places == {i \in DOMAIN items : items[i] = r}
<1>1. IsWellFoundedOn(R, Nat)
  BY NatLessThanWellFounded DEF OpToRel
<1>2. places \subseteq Nat /\ places # {}
  BY DEF Given
<1>3. PICK i \in places : \A j \in places : <<j, i>> \notin R
  <2> HIDE DEF R, places
  <2> QED BY <1>1, <1>2, WFMin
<1> QED BY <1>2, <1>3

LEMMA GivenRefs ==
  ASSUME NEW format, NEW items, FileSound(format, items), NEW r \in Given(items)
  PROVE  r \in Refs /\ r # NoRef /\ <<format, r>> \in TypedRefs
BY DEF FileSound, Given, TypedRefs

\* How many items a commit adds: none for what is known, one for what is new and has a
\* reference.
LEMMA CreatedCounts ==
  ASSUME NEW c, FileSound(importer[c].format, importer[c].items), NEW p \in TypedRefs
  PROVE  /\ Created(c)[p] \in Nat
         /\ p[2] # NoRef => Created(c)[p] <= 1
         /\ Created(c)[p] > 0 => p[1] = importer[c].format
         /\ Created(c)[p] > 0 /\ p[2] # NoRef => p[2] \in Given(importer[c].items) /\ p[2] \notin importer[c].known
         /\ p[1] = importer[c].format /\ p[2] \in Given(importer[c].items) /\ p[2] \notin importer[c].known =>
              Created(c)[p] > 0
<1> DEFINE items == importer[c].items
           new == {i \in Fresh(c) : items[i] = p[2]}
<1>1. Created(c)[p] = IF p[1] # importer[c].format THEN 0 ELSE Cardinality(new)
  BY DEF Created
<1>2. Fresh(c) \subseteq DOMAIN items /\ new \subseteq DOMAIN items
  BY DEF Fresh
<1>3. IsFiniteSet(new) /\ Cardinality(new) \in Nat
  <2>1. IsFiniteSet(DOMAIN items)
    BY DEF FileSound
  <2> HIDE DEF new, items
  <2> QED BY <1>2, <2>1, FS_Subset, FS_CardinalityType
<1>4. DOMAIN items \subseteq Nat
  BY DEF FileSound
<1>5. \A i \in Fresh(c) : items[i] # NoRef =>
        items[i] \notin importer[c].known /\ \A j \in DOMAIN items : j < i => items[j] # items[i]
  BY DEF Fresh
<1>6. p[2] # NoRef => \A i, j \in new : i = j
  BY <1>2, <1>4, <1>5
<1>7. ASSUME p[2] # NoRef PROVE Cardinality(new) <= 1
  <2>1. CASE new = {}
    <3>1. Cardinality({}) = 0
      BY FS_EmptySet
    <3> HIDE DEF new
    <3> QED BY <2>1, <3>1
  <2>2. CASE new # {}
    <3> HIDE DEF new
    <3>1. PICK i : new = {i}
      BY <1>6, <1>7, <2>2
    <3>2. Cardinality({i}) = 1
      BY FS_Singleton
    <3> QED BY <3>1, <3>2
  <2> QED BY <2>1, <2>2
<1>8. Cardinality(new) > 0 <=> new # {}
  <2> HIDE DEF new
  <2> QED BY <1>3, FS_EmptySet
<1>9. ASSUME p[2] # NoRef, new # {} PROVE p[2] \in Given(items) /\ p[2] \notin importer[c].known
  BY <1>2, <1>5, <1>9 DEF Given
<1>10. ASSUME p[2] \in Given(items), p[2] \notin importer[c].known PROVE new # {}
  <2>1. PICK i \in DOMAIN items : items[i] = p[2] /\ \A j \in DOMAIN items : j < i => items[j] # p[2]
    BY <1>4, <1>10, FirstPlace
  <2>2. i \in Fresh(c)
    BY <1>10, <2>1 DEF Fresh
  <2> QED BY <2>1, <2>2
<1> HIDE DEF new
<1> QED BY <1>1, <1>3, <1>7, <1>8, <1>9, <1>10

\* One import proceeds: what is stored stays, and the other imports know what they knew.
LEMMA OneImport ==
  ASSUME ImportsInv, NEW c \in Importers, importer[c].at # "idle",
         NEW new, importer' = [importer EXCEPT ![c] = new], DOMAIN new = {"at", "format", "items", "known"},
         DOMAIN imported' = TypedRefs, \A p \in TypedRefs : imported'[p] \in Nat,
         \A p \in TypedRefs : imported[p] > 0 => imported'[p] > 0,
         UNCHANGED mingled, ImporterSound(c)', StoredOnce'
  PROVE  ImportsInv'
<1>1. ImportTypes /\ ImportsAlone
  BY DEF ImportsInv
<1>2. importer'[c] = new /\ \A d \in Importers \ {c} : importer'[d] = importer[d]
  BY <1>1 DEF ImportTypes
<1>3. ImportTypes'
  BY <1>1, <1>2 DEF ImportTypes
<1>4. ASSUME NEW d \in Importers, d # c PROVE ImporterSound(d)'
  <2>1. importer'[d] = importer[d] /\ ImporterSound(d) /\ mingled' = mingled
    BY <1>2, <1>4 DEF ImportsInv
  <2>2. ~mingled => importer[d].at = "idle"
    BY <1>1, <1>4 DEF ImportsAlone
  <2>3. importer[d].at \in {"select", "commit", "index", "ledger"} =>
          \A r \in Given(importer[d].items) : <<importer[d].format, r>> \in TypedRefs
    BY <2>1, GivenRefs DEF ImporterSound
  <2>4. ASSUME importer[d].at = "commit", NEW r \in importer[d].known
        PROVE  imported'[<<importer[d].format, r>>] > 0
    <3>1. imported[<<importer[d].format, r>>] > 0
      BY <2>1, <2>4 DEF ImporterSound
    <3>2. <<importer[d].format, r>> \in TypedRefs
      BY <2>1, <2>3, <2>4 DEF ImporterSound
    <3> QED BY <3>1, <3>2
  <2> QED BY <2>1, <2>2, <2>3, <2>4 DEF ImporterSound
<1>5. ImportsAlone'
  BY <1>1, <1>2 DEF ImportsAlone
<1> QED BY <1>3, <1>4, <1>5 DEF ImportsInv

\* One import proceeds, and nothing is stored.
LEMMA OneReads ==
  ASSUME ImportsInv, NEW c \in Importers, importer[c].at # "idle",
         NEW new, importer' = [importer EXCEPT ![c] = new], DOMAIN new = {"at", "format", "items", "known"},
         UNCHANGED <<imported, uniqueRef, answered, mingled>>, ImporterSound(c)'
  PROVE  ImportsInv'
<1>1. ImportTypes /\ StoredOnce
  BY DEF ImportsInv
<1>2. StoredOnce' /\ DOMAIN imported' = TypedRefs /\ \A p \in TypedRefs : imported'[p] \in Nat
  BY <1>1 DEF StoredOnce, ImportTypes
<1>3. \A p \in TypedRefs : imported[p] > 0 => imported'[p] > 0
  OBVIOUS
<1> QED BY <1>2, <1>3, OneImport

\* An import that ends has nothing in hand.
LEMMA LeaveInv ==
  ASSUME ImportsInv, NEW c \in Importers, importer[c].at # "idle", Leave(c),
         UNCHANGED <<imported, uniqueRef, mingled>>, StoredOnce'
  PROVE  ImportsInv'
<1>1. ImportTypes
  BY DEF ImportsInv
<1>2. PICK new : new = NoImport
  OBVIOUS
<1>3. importer' = [importer EXCEPT ![c] = new] /\ importer'[c] = new /\ new.at = "idle"
      /\ DOMAIN new = {"at", "format", "items", "known"}
  BY <1>1, <1>2 DEF Leave, NoImport, ImportTypes
<1>4. ImporterSound(c)'
  BY <1>3 DEF ImporterSound
<1>5. DOMAIN imported' = TypedRefs /\ \A p \in TypedRefs : imported'[p] \in Nat
  BY <1>1 DEF ImportTypes
<1>6. \A p \in TypedRefs : imported[p] > 0 => imported'[p] > 0
  OBVIOUS
<1> QED BY <1>3, <1>4, <1>5, <1>6, OneImport

LEMMA LeaveQuietly ==
  ASSUME ImportsInv, NEW c \in Importers, importer[c].at # "idle", Leave(c),
         UNCHANGED <<imported, uniqueRef, answered, mingled>>
  PROVE  ImportsInv'
<1>1. StoredOnce'
  BY DEF ImportsInv, StoredOnce
<1> QED BY <1>1, LeaveInv

LEMMA CreateImportInv ==
  ASSUME ImportsInv, NEW c \in Importers, CreateImport(c)
  PROVE  ImportsInv'
<1>1. /\ ImportTypes /\ ImportsAlone /\ StoredOnce
      /\ importer' = [importer EXCEPT ![c] = [NoImport EXCEPT !.at = "read"]]
      /\ mingled' = (mingled \/ \E d \in Importers : importer[d].at # "idle")
      /\ UNCHANGED <<imported, uniqueRef, answered>>
  BY DEF ImportsInv, CreateImport
<1>2. /\ importer'[c].at = "read" /\ DOMAIN importer'[c] = {"at", "format", "items", "known"}
      /\ \A d \in Importers \ {c} : importer'[d] = importer[d]
  BY <1>1 DEF NoImport, ImportTypes
<1>3. ImportTypes'
  BY <1>1, <1>2 DEF ImportTypes
<1>4. ASSUME NEW d \in Importers PROVE ImporterSound(d)'
  <2>1. CASE d = c
    BY <1>2, <2>1 DEF ImporterSound
  <2>2. CASE d # c
    <3>1. importer'[d] = importer[d] /\ ImporterSound(d) /\ imported' = imported /\ (~mingled' => ~mingled)
      BY <1>1, <1>2, <2>2 DEF ImportsInv
    <3> QED BY <3>1 DEF ImporterSound
  <2> QED BY <2>1, <2>2
<1>5. ImportsAlone'
  <2> SUFFICES ASSUME ~mingled', NEW d \in Importers, NEW e \in Importers, importer'[d].at # "idle",
                      importer'[e].at # "idle"
               PROVE  d = e
    BY DEF ImportsAlone
  <2>1. \A f \in Importers : importer[f].at = "idle"
    BY <1>1
  <2>2. d = c /\ e = c
    BY <1>2, <2>1
  <2> QED BY <2>2
<1>6. StoredOnce'
  BY <1>1 DEF StoredOnce
<1> QED BY <1>3, <1>4, <1>5, <1>6 DEF ImportsInv

\* What a parser makes of a file.
LEMMA FilesSound ==
  ASSUME NEW file \in ParsedFiles
  PROVE  FileSound(file.format, file.refs)
<1>1. PICK p \in Readable, entries \in UNION {[1..n -> Entry] : n \in 0..MaxEntries} : file = FileItems(p, entries)
  BY DEF ParsedFiles
<1>2. PICK n \in 0 .. MaxEntries : entries \in [1 .. n -> Entry]
  BY <1>1
<1>3. PICK format : format = Resolved(p[1], p[2])
  OBVIOUS
<1>4. format \in DOMAIN Parsers
  BY <1>1, <1>3 DEF Readable, Parses
<1>5. format \in {"chatgpt", "claude", "gemini", "copilot", "openclaw", "generic"}
  BY <1>4 DEF Parsers
<1>6. PICK roles : ParseImport(p[1], format, entries) = ItemsOf(entries, roles)
  BY <1>5 DEF ParseImport, ChatgptItems, ClaudeItems, GeminiItems, CopilotItems, OpenclawItems, GenericItems
<1>7. PICK items : items = ItemsOf(entries, roles)
  OBVIOUS
<1>8. DOMAIN items \subseteq 1 .. n /\ \A i \in DOMAIN items : items[i] \in Entry
  BY <1>2, <1>7 DEF ItemsOf
<1>9a. MaxEntries \in Nat
  BY ImportsAssumption
<1>9b. n \in Nat
  BY <1>9a
<1>9. n \in Nat /\ IsFiniteSet(1 .. n)
  BY <1>9b, FS_Interval
<1>10. IsFiniteSet(DOMAIN items) /\ DOMAIN items \subseteq Nat
  BY <1>8, <1>9, FS_Subset
<1>11. file.format = format /\ file.refs = [i \in DOMAIN items |-> RefOf(format, items[i])]
  BY <1>1, <1>3, <1>6, <1>7 DEF FileItems
<1>12. DOMAIN file.refs = DOMAIN items /\ \A i \in DOMAIN items : file.refs[i] \in Refs \cup {NoRef}
  BY <1>8, <1>11 DEF Entry, RefOf
<1> QED BY <1>4, <1>10, <1>11, <1>12 DEF FileSound

LEMMA ParseInv ==
  ASSUME ImportsInv, NEW c \in Importers, Parse(c)
  PROVE  ImportsInv'
<1>1. PICK file \in ParsedFiles :
        importer' = [importer EXCEPT ![c].at = "select", ![c].format = file.format, ![c].items = file.refs]
  BY DEF Parse
<1>2. ImportTypes /\ importer[c].at # "idle" /\ UNCHANGED <<imported, uniqueRef, answered, mingled>>
  BY DEF ImportsInv, Parse
<1>3. PICK new : new = [importer[c] EXCEPT !.at = "select", !.format = file.format, !.items = file.refs]
  OBVIOUS
<1>4. /\ DOMAIN new = {"at", "format", "items", "known"} /\ new.at = "select"
      /\ new.format = file.format /\ new.items = file.refs
  BY <1>2, <1>3 DEF ImportTypes
<1>5. importer' = [importer EXCEPT ![c] = new] /\ importer'[c] = new
  BY <1>1, <1>2, <1>3 DEF ImportTypes
<1>6. ImporterSound(c)'
  BY <1>4, <1>5, FilesSound DEF ImporterSound
<1> QED BY <1>2, <1>4, <1>5, <1>6, OneReads

LEMMA SelectInv ==
  ASSUME ImportsInv, NEW c \in Importers, SelectExisting(c)
  PROVE  ImportsInv'
<1>1. PICK known : known = {r \in Given(importer[c].items) : imported[<<importer[c].format, r>>] > 0}
  OBVIOUS
<1>2. importer' = [importer EXCEPT ![c].at = "commit", ![c].known = known]
  BY <1>1 DEF SelectExisting
<1>3. /\ ImportTypes /\ importer[c].at = "select" /\ ImporterSound(c)
      /\ UNCHANGED <<imported, uniqueRef, answered, mingled>>
  BY DEF ImportsInv, SelectExisting
<1>4. PICK new : new = [importer[c] EXCEPT !.at = "commit", !.known = known]
  OBVIOUS
<1>5. /\ DOMAIN new = {"at", "format", "items", "known"} /\ new.at = "commit" /\ new.known = known
      /\ new.format = importer[c].format /\ new.items = importer[c].items
  BY <1>3, <1>4 DEF ImportTypes
<1>6. importer' = [importer EXCEPT ![c] = new] /\ importer'[c] = new
  BY <1>2, <1>3, <1>4 DEF ImportTypes
<1>7. ImporterSound(c)'
  BY <1>1, <1>3, <1>5, <1>6 DEF ImporterSound
<1>8. importer[c].at # "idle"
  BY <1>3
<1> QED BY <1>3, <1>5, <1>6, <1>7, <1>8, OneReads

LEMMA CommitImportInv ==
  ASSUME ImportsInv, NEW c \in Importers, CommitImport(c)
  PROVE  ImportsInv'
<1> DEFINE f == importer[c].format
           items == importer[c].items
<1>1. /\ ImportTypes /\ ImporterSound(c) /\ StoredOnce /\ importer[c].at = "commit" /\ FileSound(f, items)
      /\ UNCHANGED <<uniqueRef, answered, mingled>>
  BY DEF ImportsInv, CommitImport, ImporterSound
<1>2. imported' = [p \in TypedRefs |-> imported[p] + Created(c)[p]] /\ ~Collides(c)
  BY DEF CommitImport
<1>3. PICK at \in {"ledger", "index"} : importer' = [importer EXCEPT ![c].at = at]
  BY DEF CommitImport, Goto
<1>4. PICK new : new = [importer[c] EXCEPT !.at = at]
  OBVIOUS
<1>5. /\ DOMAIN new = {"at", "format", "items", "known"} /\ new.at = at
      /\ new.format = f /\ new.items = items
  BY <1>1, <1>4 DEF ImportTypes
<1>6. importer' = [importer EXCEPT ![c] = new] /\ importer'[c] = new
  BY <1>1, <1>3, <1>4 DEF ImportTypes
<1>7. /\ DOMAIN imported' = TypedRefs
      /\ \A p \in TypedRefs : /\ imported'[p] = imported[p] + Created(c)[p] /\ imported'[p] \in Nat
                              /\ imported[p] \in Nat /\ Created(c)[p] \in Nat
  BY <1>1, <1>2, CreatedCounts DEF ImportTypes
<1>8. \A p \in TypedRefs : imported[p] > 0 => imported'[p] > 0
  BY <1>7
<1>9. ASSUME NEW r \in Given(items) PROVE imported'[<<f, r>>] > 0
  <2>1. PICK p \in TypedRefs : p = <<f, r>>
    BY <1>1, GivenRefs
  <2>2. r \in importer[c].known => imported[p] > 0
    BY <1>1, <2>1 DEF ImporterSound
  <2>3. r \notin importer[c].known => Created(c)[p] > 0
    <3>1. p[1] = importer[c].format /\ p[2] = r
      BY <2>1
    <3> QED BY <1>1, <3>1, CreatedCounts
  <2> QED BY <1>7, <2>1, <2>2, <2>3
<1>10. ImporterSound(c)'
  BY <1>1, <1>3, <1>5, <1>6, <1>9 DEF ImporterSound
<1>11. StoredOnce'
  <2>1. ASSUME NEW p \in TypedRefs, p[2] # NoRef, uniqueRef PROVE imported'[p] <= 1
    <3>1. ~(imported[p] + Created(c)[p] > 1)
      BY <1>2, <2>1 DEF Collides
    <3> QED BY <1>7, <3>1
  <2>2. ASSUME NEW p \in TypedRefs, p[2] # NoRef, ~mingled PROVE imported'[p] <= 1
    <3>1. imported[p] <= 1 /\ Created(c)[p] <= 1 /\ Created(c)[p] \in Nat /\ imported[p] \in Nat
      BY <1>1, <1>7, <2>2, CreatedCounts DEF StoredOnce
    <3>2. CASE Created(c)[p] > 0
      <4>1. p[1] = f /\ p[2] \in Given(items) /\ p[2] \notin importer[c].known
        BY <1>1, <2>2, <3>2, CreatedCounts
      <4>2. p = <<f, p[2]>>
        BY <4>1 DEF TypedRefs
      <4>3. ~(imported[<<f, p[2]>>] > 0)
        BY <1>1, <2>2, <4>1 DEF ImporterSound
      <4>4. ~(imported[p] > 0)
        BY <4>2, <4>3
      <4> QED BY <1>7, <3>1, <4>4
    <3>3. CASE ~(Created(c)[p] > 0)
      BY <1>7, <3>1, <3>3
    <3> QED BY <3>2, <3>3
  <2>3. \A p \in answered : p \in TypedRefs /\ imported'[p] > 0
    BY <1>1, <1>8 DEF StoredOnce
  <2> QED BY <1>1, <2>1, <2>2, <2>3 DEF StoredOnce
<1>12. importer[c].at # "idle" /\ \A p \in TypedRefs : imported'[p] \in Nat
  BY <1>1, <1>7
<1> QED BY <1>1, <1>5, <1>6, <1>7, <1>8, <1>10, <1>11, <1>12, OneImport

LEMMA IndexInv ==
  ASSUME ImportsInv, NEW c \in Importers, IndexImported(c)
  PROVE  ImportsInv'
<1>1. /\ ImportTypes /\ ImporterSound(c) /\ importer[c].at = "index" /\ importer[c].at # "idle"
      /\ importer' = [importer EXCEPT ![c].at = "ledger"]
      /\ UNCHANGED <<imported, uniqueRef, answered, mingled>>
  BY DEF ImportsInv, IndexImported, Goto
<1>2. PICK new : new = [importer[c] EXCEPT !.at = "ledger"]
  OBVIOUS
<1>3. /\ DOMAIN new = {"at", "format", "items", "known"} /\ new.at = "ledger"
      /\ new.format = importer[c].format /\ new.items = importer[c].items
  BY <1>1, <1>2 DEF ImportTypes
<1>4. importer' = [importer EXCEPT ![c] = new] /\ importer'[c] = new
  BY <1>1, <1>2 DEF ImportTypes
<1>5. ImporterSound(c)'
  BY <1>1, <1>3, <1>4 DEF ImporterSound
<1> QED BY <1>1, <1>3, <1>4, <1>5, OneReads

LEMMA AnswerImportInv ==
  ASSUME ImportsInv, NEW c \in Importers, AnswerImport(c)
  PROVE  ImportsInv'
<1>1. /\ ImporterSound(c) /\ StoredOnce /\ importer[c].at = "ledger" /\ Leave(c)
      /\ UNCHANGED <<imported, uniqueRef, mingled>>
      /\ answered' = answered \cup {<<importer[c].format, r>> : r \in Given(importer[c].items)}
  BY DEF ImportsInv, AnswerImport
<1>2. \A r \in Given(importer[c].items) :
        <<importer[c].format, r>> \in TypedRefs /\ imported[<<importer[c].format, r>>] > 0
  BY <1>1, GivenRefs DEF ImporterSound
<1>3. StoredOnce'
  BY <1>1, <1>2 DEF StoredOnce
<1>4. importer[c].at # "idle"
  BY <1>1
<1> QED BY <1>1, <1>3, <1>4, LeaveInv

LEMMA UniqueIndexInv ==
  ASSUME ImportsInv, AddUniqueIndex
  PROVE  ImportsInv'
<1>1. /\ ImportTypes /\ ImportsAlone /\ StoredOnce /\ UNCHANGED <<importer, answered, mingled>>
      /\ imported' = [p \in TypedRefs |-> IF p[2] # NoRef /\ imported[p] > 1 THEN 1 ELSE imported[p]]
  BY DEF ImportsInv, AddUniqueIndex
<1>2. /\ DOMAIN imported' = TypedRefs
      /\ \A p \in TypedRefs : /\ imported'[p] \in Nat /\ (imported[p] > 0 <=> imported'[p] > 0)
                              /\ p[2] # NoRef => imported'[p] <= 1
  BY <1>1 DEF ImportTypes
<1>3. ImportTypes'
  BY <1>1, <1>2 DEF ImportTypes
<1>4. ASSUME NEW c \in Importers PROVE ImporterSound(c)'
  <2>1. ImporterSound(c) /\ importer' = importer /\ mingled' = mingled
    BY <1>1 DEF ImportsInv
  <2>2. importer[c].at \in {"select", "commit", "index", "ledger"} =>
          \A r \in Given(importer[c].items) : <<importer[c].format, r>> \in TypedRefs
    BY <2>1, GivenRefs DEF ImporterSound
  <2>3. importer[c].at \in {"select", "commit", "index", "ledger"} =>
          \A r \in Given(importer[c].items) :
            imported[<<importer[c].format, r>>] > 0 <=> imported'[<<importer[c].format, r>>] > 0
    BY <1>2, <2>2
  <2> QED BY <2>1, <2>3 DEF ImporterSound
<1>5. ImportsAlone'
  BY <1>1 DEF ImportsAlone
<1>6. StoredOnce'
  BY <1>1, <1>2 DEF StoredOnce
<1> QED BY <1>3, <1>4, <1>5, <1>6 DEF ImportsInv

\* However often a file is uploaded, wherever an import dies, and whenever the unique index
\* arrives: what was answered is stored, and once the index exists, or as long as imports do
\* not overlap, each reference of a format has one row.
THEOREM ImportedAlwaysOnce == ImportsSpec => []ImportedExactlyOnce
<1>1. ImportsInit => ImportsInv
  BY DEF ImportsInit, ImportsInv, ImportTypes, ImporterSound, ImportsAlone, StoredOnce, NoImport
<1>2. ImportsInv /\ [ImportsNext]_importVars => ImportsInv'
  <2> SUFFICES ASSUME ImportsInv, [ImportsNext]_importVars PROVE ImportsInv'
    OBVIOUS
  <2>1. ASSUME NEW c \in Importers, Reject(c) \/ CommitFails(c) \/ DieImporting(c) PROVE ImportsInv'
    BY <2>1, LeaveQuietly DEF Reject, CommitFails, DieImporting
  <2>2. CASE UNCHANGED importVars
    <3>1. \A c \in Importers : ImporterSound(c)'
      BY <2>2 DEF importVars, ImportsInv, ImporterSound
    <3>2. ImportTypes' /\ ImportsAlone' /\ StoredOnce'
      BY <2>2 DEF importVars, ImportsInv, ImportTypes, ImportsAlone, StoredOnce
    <3> QED BY <3>1, <3>2 DEF ImportsInv
  <2> QED BY <2>1, <2>2, CreateImportInv, ParseInv, SelectInv, CommitImportInv, IndexInv, AnswerImportInv,
             UniqueIndexInv DEF ImportsNext, ImportStep
<1>3. ImportsInv => ImportedExactlyOnce
  <2> SUFFICES ASSUME ImportsInv PROVE ImportedExactlyOnce
    OBVIOUS
  <2>1. ASSUME NEW f \in DOMAIN Parsers, NEW r \in Refs PROVE <<f, r>> \in TypedRefs /\ <<f, r>>[2] # NoRef
    BY ImportsAssumption DEF TypedRefs
  <2> QED BY <2>1 DEF ImportsInv, StoredOnce, ImportedExactlyOnce
<1> QED BY <1>1, <1>2, <1>3, PTL DEF ImportsSpec
================================================================================
