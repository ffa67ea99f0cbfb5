---------------------------- MODULE MemoryLifecycle ----------------------------
(***************************************************************************)
(* What the memory store promises about the life of a memory, whatever the  *)
(* entry point (REST, MCP tool, erasure request) and however the requests   *)
(* interleave: an id is stored once, for one owner; only requests of that   *)
(* owner make it disappear; and an id that has disappeared never comes back.*)
(***************************************************************************)
CONSTANTS Mems,    \* memory ids (UUIDs)
          Users,
          None     \* "no owner": the row does not exist

VARIABLES holder,    \* holder[m]: the user who owns row m, or None
          forgotten  \* ids whose row was deleted

vars == <<holder, forgotten>>

Init == /\ holder = [m \in Mems |-> None]
        /\ forgotten = {}

\* A fresh id is stored for u.
Store(u, m) == /\ holder[m] = None
               /\ m \notin forgotten
               /\ holder' = [holder EXCEPT ![m] = u]
               /\ UNCHANGED forgotten

\* One commit deletes a set of rows, all of them owned by the same user u.
Forget(u, S) == /\ S # {}
                /\ \A m \in S : holder[m] = u
                /\ holder' = [m \in Mems |-> IF m \in S THEN None ELSE holder[m]]
                /\ forgotten' = forgotten \cup S

Next == \E u \in Users : \/ \E m \in Mems : Store(u, m)
                         \/ \E S \in SUBSET Mems : Forget(u, S)

Spec == Init /\ [][Next]_vars
================================================================================
