------------------------------ MODULE MCProgress ------------------------------
(* Model checking of what must come to an end, the messages of an ingestion and a   *)
(* chat turn, and for safety of the syncs of a source and the rate of requests.     *)
(* They share nothing, a behaviour is one of them.                                  *)
EXTENDS Documents, ChatTurn, SourceSync, RateLimit, TLC

VARIABLE part

progressVars == <<part, documentVars, turnVars, syncVars, rateVars>>

ProgressInit ==
  /\ part \in {"documents", "turn", "sync", "rate"}
  /\ DocumentsInit /\ (part # "documents" => uploaded = 0)
  /\ TurnInit
  /\ SyncInit /\ (part # "sync" => kind = "feed" /\ unique)
  /\ RateInit /\ (part # "rate" => lite)

\* The step of one part leaves the others alone.
Only(p) ==
  /\ part = p /\ UNCHANGED part
  /\ p # "documents" => UNCHANGED documentVars
  /\ p # "turn" => UNCHANGED turnVars
  /\ p # "sync" => UNCHANGED syncVars
  /\ p # "rate" => UNCHANGED rateVars

ProgressNext ==
  \/ Only("documents") /\ DocumentsNext
  \/ Only("turn") /\ TurnNext
  \/ Only("sync") /\ SyncNext
  \/ Only("rate") /\ RateNext

\* The fairness of the parts.
FairProgressSpec ==
  /\ ProgressInit /\ [][ProgressNext]_progressVars
  /\ \A t \in Tasks : WF_progressVars(Only("documents") /\ WorkerStep(t))
  /\ WF_progressVars(Only("turn") /\ (GraphStep \/ Raise \/ Close))
================================================================================
