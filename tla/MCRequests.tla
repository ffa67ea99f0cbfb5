------------------------------ MODULE MCRequests ------------------------------
(* Model checking, for safety, of features whose requests overlap and which share  *)
(* nothing: a behaviour is one of them, and the states add up.                     *)
EXTENDS Discovery, Insights, Imports, Sessions, SignUp, AgentHub, MemoryRecall,
        ChatWindow, Conversations, Administration, Experiments, Clusters, TLC

VARIABLE part

\* The two elements of a set, exchanged or left as they are.
Exchange(yes, S) == [x \in S |-> IF yes THEN CHOOSE y \in S : y # x ELSE x]

\* As only one part moves, sets of different parts may be exchanged together.
Symmetric == {Exchange(f, Walkers) @@ Exchange(f, Readers) @@ Exchange(f, Importers)
                @@ Exchange(f, Visits) @@ Exchange(f, Forms) @@ Exchange(f, Calls)
                @@ Exchange(f, Own) @@ Exchange(f, Turns) @@ Exchange(f, Chats)
                @@ Exchange(f, Updates) @@ Exchange(f, Accounts) : f \in BOOLEAN}

\* Bound: requests about one kind of code are under way, and one counter of mails exists,
\* with a time to live; after the onboarding nothing is explored.
OneKind ==
  /\ \E k \in Kinds : /\ \A f \in Forms : form[f].op # "idle" => form[f].kind = k
                       /\ \A j \in Kinds : j # k => window[j] = NoWindow
  /\ WindowAlwaysCloses
  /\ ~person.onboarded

\* Bound: three codes are sent, of both kinds together.
FewCodes == Len(codes["verify"]) + Len(codes["reset"]) <= 3

RequestsInit ==
  /\ part \in {"discovery", "insights", "imports", "sessions", "sign up", "hub", "recall", "window", "chat",
             "admin", "experiments", "clusters"}
  /\ DiscoveryInit /\ InsightsInit /\ ImportsInit /\ SessionsInit /\ SignUpInit /\ RecallInit
  /\ WindowInit /\ ConversationsInit
  /\ AdministrationInit /\ (part # "admin" => \A u \in Accounts : RequireAdmin(u))
  /\ ExperimentsInit /\ ClustersInit
  /\ HubInit /\ (part # "hub" => enforced /\ kept = Foreign)

\* The step of one part leaves the others alone.
Only(p) ==
  /\ part = p /\ UNCHANGED part
  /\ p # "discovery" => UNCHANGED discoveryVars
  /\ p # "insights" => UNCHANGED insightVars
  /\ p # "imports" => UNCHANGED importVars
  /\ p # "sessions" => UNCHANGED sessionVars
  /\ p # "sign up" => UNCHANGED signUpVars
  /\ p # "hub" => UNCHANGED hubVars
  /\ p # "recall" => UNCHANGED recallVars
  /\ p # "window" => UNCHANGED windowVars
  /\ p # "chat" => UNCHANGED chatVars
  /\ p # "admin" => UNCHANGED adminVars
  /\ p # "experiments" => UNCHANGED experimentVars
  /\ p # "clusters" => UNCHANGED clusterVars

RequestsNext ==
  \/ Only("discovery") /\ DiscoveryNext
  \/ Only("insights") /\ InsightsNext
  \/ Only("imports") /\ ImportsNext
  \/ Only("sessions") /\ SessionsNext
  \/ Only("sign up") /\ SignUpNext
  \/ Only("hub") /\ HubNext
  \/ Only("recall") /\ RecallNext
  \/ Only("window") /\ WindowNext
  \/ Only("chat") /\ ConversationsNext
  \/ Only("admin") /\ AdministrationNext
  \/ Only("experiments") /\ ExperimentsNext
  \/ Only("clusters") /\ ClustersNext

RequestsSpec ==
  RequestsInit /\ [][RequestsNext]_<<part, discoveryVars, insightVars, importVars, sessionVars,
                                      signUpVars, hubVars, recallVars, windowVars, chatVars, adminVars,
                                      experimentVars, clusterVars>>
================================================================================
