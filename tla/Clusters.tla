------------------------------- MODULE Clusters -------------------------------
(***************************************************************************)
(* The clusters of a user's knowledge graph: one request selects entities,    *)
(* then relations, which others may add or weaken in between, and walks the   *)
(* graph it has read, component by component, each breadth first.             *)
(***************************************************************************)
EXTENDS Naturals, Sequences, FiniteSets

CONSTANT Topics \* entities that may be created

ASSUME ClustersAssumption == IsFiniteSet(Topics)

VARIABLES
  topics,    \* rows of entities
  relations, \* pairs of entities with a relation of at least min_weight, either way round
  walk       \* detect_clusters: step and locals; the clusters before the best 20 are kept

clusterVars == <<topics, relations, walk>>

Ties(S) == {p \in SUBSET S : Cardinality(p) = 2}

CreateTopic(x) ==
  /\ x \notin topics
  /\ topics' = topics \cup {x}
  /\ UNCHANGED <<relations, walk>>

\* A relation is created, or its weight raised.
Relate(p) ==
  /\ relations' = relations \cup {p}
  /\ UNCHANGED <<topics, walk>>

\* A PATCH, or a POST of a relation that exists, lowers the weight.
Weaken(p) ==
  /\ p \in relations
  /\ relations' = relations \ {p}
  /\ UNCHANGED <<topics, walk>>

NoRequest == [step |-> "idle", nodes |-> {}, ties |-> {}, visited |-> {}, queue |-> <<>>,
              component |-> {}, clusters |-> {}]

ReadEntities ==
  /\ walk.step \in {"idle", "done"}
  /\ walk' = [NoRequest EXCEPT !.step = IF topics = {} THEN "done" ELSE "relations",
                               !.nodes = topics]
  /\ UNCHANGED <<topics, relations>>

\* Mutant of Known: relations of entities created since are walked as well.
KnownAll(p, nodes) == TRUE

\* Both ends were read.
Known(p, nodes) == p \subseteq nodes

ReadRelations ==
  /\ walk.step = "relations"
  /\ walk' = [walk EXCEPT !.step = "walk", !.ties = {p \in relations : Known(p, walk.nodes)}]
  /\ UNCHANGED <<topics, relations>>

Neighbors(x) == {y \in UNION walk.ties : y # x /\ {x, y} \in walk.ties}

\* The orders in which a set may be enumerated.
Orders(S) == {f \in [1 .. Cardinality(S) -> S] : \A x \in S : \E i \in 1 .. Cardinality(S) : f[i] = x}

\* for entity_id in entity_by_id: those visited are passed over.
StartComponent(x) ==
  /\ walk.step = "walk" /\ walk.queue = <<>> /\ walk.component = {}
  /\ x \in walk.nodes \ walk.visited
  /\ walk' = [walk EXCEPT !.queue = <<x>>]
  /\ UNCHANGED <<topics, relations>>

\* One round of _walk_component.
Visit ==
  LET current == Head(walk.queue)
      visited == walk.visited \cup {current}
  IN  /\ walk.queue # <<>>
      /\ IF current \in walk.visited
         THEN walk' = [walk EXCEPT !.queue = Tail(@)]
         ELSE \E order \in Orders(Neighbors(current) \ visited) :
                walk' = [walk EXCEPT !.visited = visited, !.component = @ \cup {current},
                                     !.queue = Tail(@) \o order]
      /\ UNCHANGED <<topics, relations>>

EndComponent ==
  /\ walk.step = "walk" /\ walk.queue = <<>> /\ walk.component # {}
  /\ walk' = [walk EXCEPT !.clusters = @ \cup {walk.component}, !.component = {}]
  /\ UNCHANGED <<topics, relations>>

EndClusters ==
  /\ walk.step = "walk" /\ walk.queue = <<>> /\ walk.component = {}
  /\ walk.nodes \subseteq walk.visited
  /\ walk' = [walk EXCEPT !.step = "done"]
  /\ UNCHANGED <<topics, relations>>

--------------------------------------------------------------------------------
ClustersInit == topics = {} /\ relations = {} /\ walk = NoRequest

ClustersNext ==
  \/ \E x \in Topics : CreateTopic(x) \/ StartComponent(x)
  \/ \E p \in Ties(topics) : Relate(p) \/ Weaken(p)
  \/ ReadEntities \/ ReadRelations \/ Visit \/ EndComponent \/ EndClusters

ClustersSpec == ClustersInit /\ [][ClustersNext]_clusterVars

--------------------------------------------------------------------------------
(* Properties *)

\* The reference: no set that is closed under the relations separates the two.
Connected(x, y) ==
  \A S \in SUBSET walk.nodes :
    x \in S /\ (\A p \in walk.ties : p \cap S # {} => p \subseteq S) => y \in S

\* "Return connected components for a user's knowledge graph" (detect_clusters): every
\* entity that was read is in exactly one cluster, together with the entities that the
\* relations connect it to and no others, although relations of entities that came later
\* are read with them.
ClustersAreComponents ==
  walk.step = "done" =>
    /\ walk.nodes = UNION walk.clusters
    /\ \A c, d \in walk.clusters : c \cap d # {} => c = d
    /\ \A x, y \in walk.nodes : (\E c \in walk.clusters : {x, y} \subseteq c) <=> Connected(x, y)
================================================================================
