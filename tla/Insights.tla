------------------------------- MODULE Insights --------------------------------
(***************************************************************************)
(* Insight cards of one user.  A handler loads the row of a card and commits *)
(* the columns it changed; a refresh loads all cards, asks a language model  *)
(* what to do with them, changes every card the answer names (nothing ties   *)
(* it to the cards asked about, or to the user), and may generate new ones   *)
(* in a second transaction.                                                  *)
(***************************************************************************)
EXTENDS Naturals, Sequences, FiniteSetsExt

CONSTANTS Readers,     \* concurrent requests
          MaxCards,    \* bound on the cards
          MaxShown,    \* bound on the views of a card
          MaxCaptured  \* bound on the memories captured

ASSUME InsightsAssumption == {MaxCards, MaxShown, MaxCaptured} \subseteq Nat

VARIABLES
  cards,    \* rows of insight_cards; a card is its index
  captured, \* times at which memories were captured
  clock,
  reader,   \* per request: the operation, what it loaded or will write
  acted     \* history: cards somebody viewed, dismissed, saved or a refresh retired

insightVars == <<cards, captured, clock, reader, acted>>

NewCard(t) == [status |-> "new", helpful |-> "none", shown |-> 0, createdAt |-> t]

NoReader == [op |-> "idle", card |-> 0, change |-> <<>>, rows |-> <<>>, fresh |-> FALSE]

\* A memory arrives (create, sync, import).
Capture ==
  /\ Cardinality(captured) < MaxCaptured
  /\ clock' = clock + 1 /\ captured' = captured \cup {clock + 1}
  /\ UNCHANGED <<cards, reader, acted>>

--------------------------------------------------------------------------------
(* Requests about one card: the columns that differ from the loaded row are written *)

Open(r, c, op, values) ==
  /\ reader[r].op = "idle"
  /\ LET changed == {f \in DOMAIN values : values[f] # cards[c][f]}
     IN  reader' = [reader EXCEPT ![r] = [NoReader EXCEPT !.op = op, !.card = c,
                                            !.change = [f \in changed |-> values[f]]]]
  /\ UNCHANGED <<cards, captured, clock, acted>>

\* The view counter is written from the value loaded.
GetInsight(r, c) ==
  /\ cards[c].shown < MaxShown
  /\ Open(r, c, "act", [shown |-> cards[c].shown + 1,
                        status |-> IF cards[c].status = "new" THEN "shown" ELSE cards[c].status])

DismissInsight(r, c) == Open(r, c, "act", [status |-> "dismissed"])

SaveInsight(r, c) == Open(r, c, "act", [status |-> "saved", helpful |-> "yes"])

\* Mutant of FeedbackInsight: the row as it was loaded is written back.
FeedbackWritesRow(r, c, verdict) ==
  /\ reader[r].op = "idle"
  /\ reader' = [reader EXCEPT ![r] = [NoReader EXCEPT !.op = "rate", !.card = c,
                  !.change = [status |-> cards[c].status, helpful |-> verdict]]]
  /\ UNCHANGED <<cards, captured, clock, acted>>

\* The preferences computed from the verdict are not kept.
FeedbackInsight(r, c, verdict) == Open(r, c, "rate", [helpful |-> verdict])

CommitCard(r) ==
  /\ reader[r].op \in {"act", "rate"}
  /\ cards' = [cards EXCEPT ![reader[r].card] =
                 [f \in DOMAIN @ |-> IF f \in DOMAIN reader[r].change THEN reader[r].change[f] ELSE @[f]]]
  /\ acted' = IF reader[r].op = "act" THEN acted \cup {reader[r].card} ELSE acted
  /\ reader' = [reader EXCEPT ![r] = NoReader]
  /\ UNCHANGED <<captured, clock>>

--------------------------------------------------------------------------------
(* Generation and refresh *)

\* Without memories nothing is asked.
BeginGenerate(r) ==
  /\ reader[r].op = "idle" /\ captured # {}
  /\ reader' = [reader EXCEPT ![r] = [NoReader EXCEPT !.op = "generate"]]
  /\ UNCHANGED <<cards, captured, clock, acted>>

\* What the model's answer becomes: cards, none when the call failed.
InsightBatch(limit) == {[i \in 1..n |-> NewCard(clock + 1)] : n \in 0..limit}

\* All cards in one commit, or an error and none.
SaveInsights(r, limit) ==
  /\ \E batch \in InsightBatch(limit) :
       /\ Len(cards) + Len(batch) <= MaxCards
       /\ cards' = cards \o batch
       /\ clock' = IF batch = <<>> THEN clock ELSE clock + 1
  /\ reader' = [reader EXCEPT ![r] = NoReader]
  /\ UNCHANGED <<captured, acted>>

GenerateInsights(r) == reader[r].op = "generate" /\ SaveInsights(r, MaxCards)

\* The cards that are not expired are loaded.  A memory is new when it was captured
\* after the newest of them.
BeginRefresh(r) ==
  /\ reader[r].op = "idle"
  /\ LET alive == {c \in DOMAIN cards : cards[c].status # "expired"}
         newest == Max({0} \cup {cards[c].createdAt : c \in alive})
     IN  reader' = [reader EXCEPT ![r] =
           [NoReader EXCEPT !.op = "refresh", !.rows = [c \in alive |-> cards[c].status],
                            !.fresh = \E m \in captured : m > newest]]
  /\ UNCHANGED <<cards, captured, clock, acted>>

\* The model's answer: what to do per card, whichever cards it names, also one that was
\* not shown to it; nothing when the call failed.
Answers == [DOMAIN cards -> {"keep", "boost", "dismissed", "expired"}]

\* An identifier that cannot be parsed: the request fails before its commit.
RefreshFails(r) ==
  /\ reader[r].op = "refresh"
  /\ reader' = [reader EXCEPT ![r] = NoReader]
  /\ UNCHANGED <<cards, captured, clock, acted>>

Retired(answer) == {c \in DOMAIN answer : answer[c] \in {"dismissed", "expired"}}

\* A card shown to the model keeps the row loaded before; any other is loaded now.
Loaded(r, c) == IF c \in DOMAIN reader[r].rows THEN reader[r].rows[c] ELSE cards[c].status

\* A status is written if it differs from the loaded one, whatever was committed since.
RefreshCards(r) ==
  /\ reader[r].op = "refresh"
  /\ \E answer \in Answers :
       /\ cards' = [c \in DOMAIN cards |->
                      IF c \in Retired(answer) /\ Loaded(r, c) # answer[c]
                      THEN [cards[c] EXCEPT !.status = answer[c]] ELSE cards[c]]
       /\ acted' = acted \cup Retired(answer)
  /\ reader' = [reader EXCEPT ![r] = IF reader[r].fresh
                                     THEN [NoReader EXCEPT !.op = "news"] ELSE NoReader]
  /\ UNCHANGED <<captured, clock>>

RefreshGenerates(r) == reader[r].op = "news" /\ SaveInsights(r, 3)

--------------------------------------------------------------------------------
InsightsInit ==
  /\ cards = <<>> /\ captured = {} /\ clock = 0 /\ acted = {}
  /\ reader = [r \in Readers |-> NoReader]

InsightsNext ==
  \/ Capture
  \/ \E r \in Readers :
       \/ \E c \in DOMAIN cards :
            \/ GetInsight(r, c) \/ DismissInsight(r, c) \/ SaveInsight(r, c)
            \/ \E verdict \in {"yes", "no"} : FeedbackInsight(r, c, verdict)
       \/ CommitCard(r)
       \/ BeginGenerate(r) \/ GenerateInsights(r)
       \/ BeginRefresh(r) \/ RefreshFails(r) \/ RefreshCards(r) \/ RefreshGenerates(r)

InsightsSpec == InsightsInit /\ [][InsightsNext]_insightVars

--------------------------------------------------------------------------------
(* Properties *)

\* A card that was viewed, dismissed, saved or retired is never listed as new again,
\* however the requests overlap: no handler writes back a status it loaded.
ActedOnIsNotNew == \A c \in acted : cards[c].status # "new"
================================================================================
