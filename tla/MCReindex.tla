------------------------------- MODULE MCReindex -------------------------------
(* Model checking of Reindex beside the requests of MemoryStore. *)
EXTENDS Reindex, TLC

CONSTANTS Solo,  \* the user who calls
          Beside \* the one request in flight

\* Bound: where the store is not empty, the oldest rows are the caller's.
OwnInit == ReindexInit /\ owner[1] \in {Solo, None}

\* Bound: one request at a time is run beside the reindex of the same user.
BesideNext ==
  /\ ReindexNext
  /\ task'.user \in {Solo, None} /\ user'[Beside] \in {Solo, None}
  /\ \A r \in Reqs \ {Beside} : pc'[r] = "idle"
  /\ pc'[Beside] \notin {"agent_vector", "erase", "update"}

FairBesideSpec == OwnInit /\ [][BesideNext]_rvars /\ WF_rvars(TaskStep)
================================================================================
