------------------------------ MODULE MCAccounts ------------------------------
(* Model checking, for safety, of parts that share nothing: a behaviour is one of *)
(* them, and the states add up.                                                   *)
EXTENDS Quota, Workspaces, Documents, ChunkRetrieval, WebSession, TLC

VARIABLE part

\* The two elements of a set, exchanged or left as they are.
Exchange(yes, S) == [x \in S |-> IF yes THEN CHOOSE y \in S : y # x ELSE x]

\* As only one part moves, sets of different parts may be exchanged together.
Symmetric == {Exchange(f, Calls) @@ Exchange(f, Actions) @@ Exchange(f, Clients) @@ Exchange(g, Tasks)
                @@ Exchange(g, People \ {Owner})
                @@ Exchange(f, Tabs) @@ Exchange(f, Papers) @@ Exchange(g, Asks) : f, g \in BOOLEAN}

\* Bound: the tabs do not submit forms at once.
OneForm == \A s, t \in Tabs : tab'[s].form # "none" /\ tab'[t].form # "none" => s = t

AccountsInit ==
  /\ part \in {"quota", "workspace", "documents", "retrieval", "browser"}
  /\ QuotaInit
  /\ WorkspaceInit
  /\ DocumentsInit /\ (part # "documents" => uploaded = 0)
  /\ RetrievalInit /\ (part # "retrieval" => \A d \in Papers : paper[d].step = "new")
  /\ WebInit

\* The step of one part leaves the others alone.
Only(p) ==
  /\ part = p /\ UNCHANGED part
  /\ p # "quota" => UNCHANGED quotaVars
  /\ p # "workspace" => UNCHANGED workspaceVars
  /\ p # "documents" => UNCHANGED documentVars
  /\ p # "retrieval" => UNCHANGED retrievalVars
  /\ p # "browser" => UNCHANGED webVars

AccountsNext ==
  \/ Only("quota") /\ QuotaNext
  \/ Only("workspace") /\ WorkspaceNext
  \/ Only("documents") /\ DocumentsNext
  \/ Only("retrieval") /\ RetrievalNext
  \/ Only("browser") /\ WebNext /\ OneForm

AccountsSpec ==
  AccountsInit /\ [][AccountsNext]_<<part, quotaVars, workspaceVars, documentVars,
                                      retrievalVars, webVars>>
================================================================================
