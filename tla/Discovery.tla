------------------------------- MODULE Discovery -------------------------------
(***************************************************************************)
(* Guided discovery: a session is an object in the memory of the worker      *)
(* process that created it, and the requests about it change it in place     *)
(* between calls to a language model.                                        *)
(***************************************************************************)
EXTENDS Naturals, Sequences, SequencesExt, FiniteSets

CONSTANTS Papers,      \* documents of the user
          Walkers,     \* concurrent requests
          Nowhere,     \* no document: the empty identifier
          MaxSteps     \* bound on the steps taken, and on half of the connections

ASSUME DiscoveryAssumption == Nowhere \notin Papers /\ MaxSteps \in Nat

VARIABLES
  journey, \* the session in _session_store of the process that created it
  walker   \* per request: operation, step and locals

discoveryVars == <<journey, walker>>

\* Before it is created, and after its process restarted.
NoJourney == [status |-> "absent", path |-> <<>>, currentStep |-> 0, stepsTaken |-> 0,
              explored |-> 0, connections |-> <<>>]

NoWalk == [op |-> "idle", at |-> "start", next |-> Nowhere]

CreateSession(d) ==
  /\ journey.status = "absent"
  /\ journey' = [NoJourney EXCEPT !.status = "active", !.path = <<d>>]
  /\ UNCHANGED walker

\* A request that reaches another process is answered 404.  get_next_step and advance
\* look at the status before they ask; complete does not.
BeginWalk(w, op) ==
  /\ walker[w].op = "idle"
  /\ journey.status # "absent"
  /\ op \in {"peek", "advance"} => journey.status = "active"
  /\ walker' = [walker EXCEPT ![w] = [NoWalk EXCEPT !.op = op]]
  /\ UNCHANGED journey

\* The graph of at most fifteen documents, or none when the call fails; nothing in a
\* step depends on it.
AnalyzeGraph(w) ==
  /\ walker[w].op \in {"peek", "advance"} /\ walker[w].at = "start"
  /\ walker' = [walker EXCEPT ![w].at = "ask"]
  /\ UNCHANGED journey

\* The model names a document, visited or not, or none; a failed call names none.
AskNextStep(w) ==
  /\ walker[w].op \in {"peek", "advance"} /\ walker[w].at = "ask"
  /\ \E d \in Papers \cup {Nowhere} :
       walker' = [walker EXCEPT ![w].at = "answer", ![w].next = d]
  /\ UNCHANGED journey

\* The step is shown and forgotten.
ShowStep(w) ==
  /\ walker[w].op = "peek" /\ walker[w].at = "answer"
  /\ walker' = [walker EXCEPT ![w] = NoWalk]
  /\ UNCHANGED journey

\* Mutant of Connection: from the first document of the path.
ConnectionFromStart(d) == [type |-> "step", from |-> journey.path[1], to |-> d]

\* From the last document of the path, as it is now.
Connection(d) == [type |-> "step", from |-> Last(journey.path), to |-> d]

AdvanceSession(d) ==
  journey' = [journey EXCEPT !.path = Append(@, d), !.currentStep = @ + 1, !.stepsTaken = @ + 1,
                             !.explored = @ + 1, !.connections = Append(@, Connection(d))]

CompleteSession == journey' = [journey EXCEPT !.status = "completed"]

Advance(w) ==
  /\ walker[w].op = "advance" /\ walker[w].at = "answer"
  /\ IF walker[w].next = Nowhere THEN CompleteSession
     ELSE journey.stepsTaken < MaxSteps /\ AdvanceSession(walker[w].next)
  /\ walker' = [walker EXCEPT ![w] = NoWalk]

Synthesize(w) ==
  /\ walker[w].op \in {"complete", "synthesis"} /\ walker[w].at = "start"
  /\ walker' = [walker EXCEPT ![w].at = "answer"]
  /\ UNCHANGED journey

\* Completed again and again, a synthesis is appended each time.
Complete(w) ==
  /\ walker[w].op = "complete" /\ walker[w].at = "answer"
  /\ Len(journey.connections) < 2 * MaxSteps
  /\ journey' = [journey EXCEPT !.status = "completed",
                   !.connections = Append(@, [type |-> "synthesis", from |-> Nowhere, to |-> Nowhere])]
  /\ walker' = [walker EXCEPT ![w] = NoWalk]

ShowSynthesis(w) ==
  /\ walker[w].op = "synthesis" /\ walker[w].at = "answer"
  /\ walker' = [walker EXCEPT ![w] = NoWalk]
  /\ UNCHANGED journey

\* The process stops: its sessions are lost, and the requests it was serving.
ProcessRestarts ==
  /\ journey.status # "absent"
  /\ journey' = NoJourney
  /\ walker' = [w \in Walkers |-> NoWalk]

DiscoveryInit == journey = NoJourney /\ walker = [w \in Walkers |-> NoWalk]

WalkerStep(w) ==
  AnalyzeGraph(w) \/ AskNextStep(w) \/ ShowStep(w) \/ Advance(w)
    \/ Synthesize(w) \/ Complete(w) \/ ShowSynthesis(w)

DiscoveryNext ==
  \/ \E d \in Papers : CreateSession(d)
  \/ \E w \in Walkers :
       \/ \E op \in {"peek", "advance", "complete", "synthesis"} : BeginWalk(w, op)
       \/ WalkerStep(w)
  \/ ProcessRestarts

DiscoverySpec == DiscoveryInit /\ [][DiscoveryNext]_discoveryVars

--------------------------------------------------------------------------------
(* Properties *)

StepNumber(i) == Cardinality({j \in 1..i : journey.connections[j].type = "step"})

\* The counters and the connections agree with the path although requests overlap: each
\* step leads from one document of the path to the next (advance_discovery).
JourneyIsAChain ==
  journey.status # "absent" =>
    /\ Len(journey.path) = journey.currentStep + 1
    /\ journey.currentStep = journey.stepsTaken /\ journey.explored = journey.stepsTaken
    /\ StepNumber(Len(journey.connections)) = journey.stepsTaken
    /\ \A i \in DOMAIN journey.connections :
         LET c == journey.connections[i]
         IN  c.type = "step" => c.from = journey.path[StepNumber(i)] /\ c.to = journey.path[StepNumber(i) + 1]
================================================================================
