------------------------------ MODULE Experiments ------------------------------
(***************************************************************************)
(* Experiments on users, kept in the memory of a process: their variants,    *)
(* the variant each user was told, and the events counted for a variant.     *)
(* Every call runs to its end without an await.  An experiment is known by   *)
(* the number of its creation, a variant by its place.                       *)
(***************************************************************************)
EXTENDS Integers, Sequences, FiniteSets, SequencesExt

CONSTANTS Subjects,    \* users
          Names, DefaultName,
          Hashes,      \* values of sha256(user:experiment), to be taken modulo
          Weights,     \* weights a variant may be created with
          MaxTrials,   \* bound on the experiments ever created
          MaxVariants  \* bound on the variants of one

ASSUME ExperimentsAssumption ==
  /\ DefaultName \in Names /\ Hashes \subseteq Nat /\ Weights \subseteq Nat \ {0}
  /\ MaxTrials \in Nat /\ MaxVariants \in Nat \ {0}

VARIABLES
  experiments, \* the dictionary _experiments; "none" for no entry
  created,     \* how many were ever created
  initialized, \* the examples were added since the process started
  assignments, \* _assignments: the variant stored for a user, {} for none
  metrics,     \* _metrics: which users have an event for which variant
  hash,        \* _hash_user, a fixed function
  told,        \* history: the variants a user was answered
  counted      \* history: the variants of a user's events since its first answer

experimentVars == <<experiments, created, initialized, assignments, metrics, hash, told, counted>>

Trials == 1..MaxTrials
\* Draft, paused, completed and archived are told apart nowhere: "idle".
Statuses == {"running", "idle"}

NoTrial == [status |-> "none", name |-> DefaultName, weights |-> <<>>]
Kept(es) == {e \in Trials : es[e].status # "none"}

Total(weights) == FoldSeq(+, 0, weights)

--------------------------------------------------------------------------------
(* Assignment *)

\* The first variant whose cumulated weight the residue does not exceed.  As the bound
\* is included, the first variant has one residue more than its weight, the last one less.
Hashed(weights, h) ==
  CHOOSE v \in 1..Len(weights) :
    /\ h % Total(weights) <= Total(SubSeq(weights, 1, v))
    /\ \A u \in 1..(v - 1) : h % Total(weights) > Total(SubSeq(weights, 1, u))

\* Mutant of AssignVariant: a deterministic hash needs no stored assignment.
AssignByHash(es, u, e) == Hashed(es[e].weights, hash[u][e])

\* The stored assignment, or else the hash under the weights of now.
AssignVariant(es, u, e) ==
  IF assignments[u][e] # {} THEN CHOOSE v \in assignments[u][e] : TRUE
  ELSE Hashed(es[e].weights, hash[u][e])

\* The oldest entry of the name, 0 for none.
ByName(es, n) ==
  LET named == {e \in Kept(es) : es[e].name = n}
  IN  IF named = {} THEN 0 ELSE CHOOSE e \in named : \A f \in named : e <= f

--------------------------------------------------------------------------------
(* Administration *)

NewTrial(status, n, weights) == [status |-> status, name |-> n, weights |-> weights]

\* The examples, of which one is modelled, are added by the first call that asks for them.
WithDefaults ==
  IF initialized THEN experiments
  ELSE [experiments EXCEPT ![created + 1] = NewTrial("running", DefaultName, <<1, 1>>)]

InitDefaults ==
  /\ initialized \/ created < MaxTrials
  /\ experiments' = WithDefaults /\ initialized' = TRUE
  /\ created' = IF initialized THEN created ELSE created + 1

ListExperiments == InitDefaults /\ UNCHANGED <<assignments, metrics, hash, told, counted>>

CreateExperiment(n, weights) ==
  /\ created < MaxTrials /\ created' = created + 1
  /\ experiments' = [experiments EXCEPT ![created'] =
                       NewTrial("idle", n, IF weights = <<>> THEN <<100>> ELSE weights)]
  /\ UNCHANGED <<initialized, assignments, metrics, hash, told, counted>>

\* Any status may follow any other.
UpdateExperiment(e, n, status) ==
  /\ e \in Kept(experiments)
  /\ experiments' = [experiments EXCEPT ![e].name = n, ![e].status = status]
  /\ UNCHANGED <<created, initialized, assignments, metrics, hash, told, counted>>

\* The requests to start, to pause and to complete.
SetStatus(e, status) == UpdateExperiment(e, experiments[e].name, status)

\* Of a running experiment as well: the residues of every user change.
AddVariant(e, w) ==
  /\ e \in Kept(experiments) /\ Len(experiments[e].weights) < MaxVariants
  /\ experiments' = [experiments EXCEPT ![e].weights = Append(@, w)]
  /\ UNCHANGED <<created, initialized, assignments, metrics, hash, told, counted>>

\* Assignments and events stay behind.
DeleteExperiment(e) ==
  /\ e \in Kept(experiments)
  /\ experiments' = [experiments EXCEPT ![e] = NoTrial]
  /\ UNCHANGED <<created, initialized, assignments, metrics, hash, told, counted>>

\* Nothing is persisted, and the examples get new ids.
Restart ==
  /\ initialized' = FALSE
  /\ experiments' = [e \in Trials |-> NoTrial]
  /\ assignments' = [u \in Subjects |-> [e \in Trials |-> {}]]
  /\ metrics' = {}
  /\ UNCHANGED <<created, hash, told, counted>>

--------------------------------------------------------------------------------
(* Users *)

AnswerVariant(u, e, v) ==
  /\ assignments' = [assignments EXCEPT ![u][e] = {v}]
  /\ told' = [told EXCEPT ![u][e] = @ \cup {v}]

Assigns(es, e) == e # 0 /\ es[e].status = "running"

\* 404 without a running experiment of the name.
GetUserVariant(u, n) ==
  /\ InitDefaults
  /\ LET e == ByName(experiments', n)
     IN  IF Assigns(experiments', e)
         THEN AnswerVariant(u, e, AssignVariant(experiments', u, e))
         ELSE UNCHANGED <<assignments, told>>
  /\ UNCHANGED <<metrics, hash, counted>>

\* The name is looked up before the examples are added.  An event of an experiment
\* that is not running is answered with success and dropped; one of a user who was
\* never told a variant is counted, and stores no assignment.
RecordMetric(u, n) ==
  LET e == ByName(experiments, n)
  IN  /\ e # 0 /\ InitDefaults
      /\ IF Assigns(experiments', e)
         THEN LET v == AssignVariant(experiments', u, e)
              IN  /\ metrics' = metrics \cup {<<u, e, v>>}
                  /\ counted' = [counted EXCEPT ![u][e] = IF told[u][e] = {} THEN @ ELSE @ \cup {v}]
         ELSE UNCHANGED <<metrics, counted>>
      /\ UNCHANGED <<assignments, hash, told>>

ExperimentsInit ==
  /\ experiments = [e \in Trials |-> NoTrial] /\ created = 0 /\ initialized = FALSE
  /\ assignments = [u \in Subjects |-> [e \in Trials |-> {}]]
  /\ metrics = {}
  /\ hash \in [Subjects -> [Trials -> Hashes]]
  /\ told = [u \in Subjects |-> [e \in Trials |-> {}]] /\ counted = told

ExperimentsNext ==
  \/ ListExperiments \/ Restart
  \/ \E n \in Names :
       \/ \E weights \in {<<>>} \cup [1..2 -> Weights] : CreateExperiment(n, weights)
       \/ \E e \in Trials, status \in Statuses : UpdateExperiment(e, n, status)
       \/ \E u \in Subjects : GetUserVariant(u, n) \/ RecordMetric(u, n)
  \/ \E e \in Trials : \/ DeleteExperiment(e)
                      \/ \E status \in Statuses : SetStatus(e, status)
                      \/ \E w \in Weights : AddVariant(e, w)

ExperimentsSpec == ExperimentsInit /\ [][ExperimentsNext]_experimentVars

--------------------------------------------------------------------------------
(* Properties *)

(* "Uses deterministic hashing to ensure consistent assignment" (experiments.py:44):
   the variant a user is told first is the only one it is ever told, and the only one
   its later events are counted for, though variants are added to the experiment and
   it is paused, resumed, renamed and shadowed by another of its name meanwhile. *)
VariantIsKept ==
  \A u \in Subjects, e \in Trials : Cardinality(told[u][e] \cup counted[u][e]) <= 1
================================================================================
