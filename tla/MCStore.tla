-------------------------------- MODULE MCStore --------------------------------
(* Model checking, for safety, of the memories, in three parts: every entry point   *)
(* on few memories, erasures of trees deeper than their search, and their graph.    *)
EXTENDS MemoryStore, KnowledgeGraph, TLC

VARIABLE part

\* The two elements of a set, exchanged or left as they are.
Exchange(yes, S) == [x \in S |-> IF yes THEN CHOOSE y \in S : y # x ELSE x]

\* As only one part moves, sets of different parts may be exchanged together.
StoreSymmetric == {Exchange(f, Users) @@ Exchange(g, Reqs) @@ Exchange(f, Notes) @@ Exchange(g, Builders) :
                     f, g \in BOOLEAN}

StoreInit == part \in {"requests", "trees", "graph"} /\ Init /\ GraphInit

\* Bound: where every entry point is called, two memories are ever created.
TwoMemories ==
  Cardinality({m \in Mems : owner'[m] # None \/ m \in gone'})
    + Cardinality({r \in Reqs : pc'[r] = "insert"}) <= 2

\* Bound: trees deeper than the search cap are only created and erased, by one user.
CreateAndErase ==
  /\ \A r \in Reqs : pc'[r] \notin {"update", "delete", "delete_vector", "agent_vector", "agent_commit"}
  /\ \A r, q \in Reqs : pc'[r] # "idle" /\ pc'[q] # "idle" => user'[r] = user'[q]
  /\ \A m \in Mems, r \in Reqs : owner'[m] # None /\ pc'[r] # "idle" => owner'[m] = user'[r]

\* Bound: metadata is replaced only where it is marked, and where no two builds of one
\* memory overlapped.
MarkedAlone == \A n \in Notes : note'[n].patches > 0 => ~doubled' /\ (note[n].patches = 0 => note[n].done)

StoreNext ==
  \/ part = "requests" /\ Next /\ TwoMemories /\ UNCHANGED <<part, graphVars>>
  \/ part = "trees" /\ Next /\ CreateAndErase /\ UNCHANGED <<part, graphVars>>
  \/ part = "graph" /\ GraphNext /\ MarkedAlone /\ UNCHANGED <<part, vars>>

StoreSpec == StoreInit /\ [][StoreNext]_<<part, vars, graphVars>>
================================================================================
