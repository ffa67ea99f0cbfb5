---------------------------- MODULE MCDeletedChunks ----------------------------
(* Model checking of one document that is deleted while it is ingested, when       *)
(* nothing fails and the conversation stays: what is left is the order of the steps. *)
EXTENDS Documents

\* Chroma obeys the DELETE, no stage of the ingestion raises, and no conversation is deleted.
NothingFails ==
  /\ \A r \in Clients :
       api[r].step = "unindex" /\ api'[r].step = "delete" => vectors'[api[r].doc] = {}
  /\ \A t \in Tasks : task'[t].step # "gaveup"
  /\ UNCHANGED conv
================================================================================
