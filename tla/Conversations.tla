----------------------------- MODULE Conversations -----------------------------
(***************************************************************************)
(* Conversations and the history a turn answers from: finding or creating    *)
(* the conversation, the recent messages with their cache in Redis, saving   *)
(* the turn's messages, and deleting a session.  A step ends at each await.  *)
(***************************************************************************)
EXTENDS Integers, FiniteSets

CONSTANTS Chats,  \* conversations of one user
          Rounds, \* turns, each used once; fewer than the five a history holds
          NoHistory, NoChat

VARIABLES
  chats,   \* per conversation: "free", "open" or "deleted"
  saved,   \* per conversation: the rounds whose two messages are stored
  history, \* conv_history:<id>, per conversation: rounds, or NoHistory
  round,   \* per round: its step and locals
  settled  \* history: rounds saved and invalidated with no older fill to come

chatVars == <<chats, saved, history, round, settled>>

\* owed: history, the settled rounds of the conversation when loading began.
NewRound == [at |-> "new", chat |-> NoChat, seen |-> {}, loaded |-> FALSE, owed |-> {}]

Step(r, from, to) == round[r].at = from /\ round' = [round EXCEPT ![r].at = to]

\* The turn is over, and its locals are gone.
Over(r) == round' = [round EXCEPT ![r] = [NewRound EXCEPT !.at = "over"]]

--------------------------------------------------------------------------------
(* Conversations *)

\* A conversation of the user is created and committed.
CreateConversation(c) ==
  /\ chats[c] = "free" /\ chats' = [chats EXCEPT ![c] = "open"]
  /\ UNCHANGED <<saved, history, settled>>

CreateChatSession(c) == CreateConversation(c) /\ UNCHANGED round

\* The row goes with its messages; the cached history stays.
DeleteSession(c) ==
  /\ chats[c] = "open"
  /\ chats' = [chats EXCEPT ![c] = "deleted"] /\ saved' = [saved EXCEPT ![c] = {}]
  /\ UNCHANGED <<history, round, settled>>

--------------------------------------------------------------------------------
(* A turn *)

Enters(r, c) ==
  /\ round[r].at = "new" /\ round' = [round EXCEPT ![r].at = "resolved", ![r].chat = c]

\* The session named in the request is one of the user's.
ContinueChat(r, c) ==
  /\ chats[c] = "open" /\ Enters(r, c)
  /\ UNCHANGED <<chats, saved, history, settled>>

\* It names none, or one that is unknown or deleted: a new one is committed.
StartChat(r, c) == CreateConversation(c) /\ Enters(r, c)

\* Rate limit or quota: the conversation created for the turn stays, empty.
RefuseMessage(r) ==
  /\ round[r].at = "resolved" /\ Over(r) /\ UNCHANGED <<chats, saved, history, settled>>

\* The cached history of the conversation is read.
LoadHistory(r) ==
  LET c == round[r].chat
      hit == history[c] # NoHistory
  IN /\ round[r].at = "resolved"
     /\ round' = [round EXCEPT ![r].owed = settled[c], ![r].loaded = hit,
                    ![r].seen = IF hit THEN history[c] ELSE {},
                    ![r].at = IF hit THEN "answering" ELSE "selecting"]
     /\ UNCHANGED <<chats, saved, history, settled>>

\* The last messages are selected.
SelectHistory(r) ==
  /\ round[r].at = "selecting"
  /\ round' = [round EXCEPT ![r].at = "filling", ![r].seen = saved[round[r].chat]]
  /\ UNCHANGED <<chats, saved, history, settled>>

FillHistory(r) ==
  /\ round[r].at = "filling"
  /\ history' = [history EXCEPT ![round[r].chat] = round[r].seen]
  /\ round' = [round EXCEPT ![r].at = "answering", ![r].loaded = TRUE]
  /\ UNCHANGED <<chats, saved, settled>>

\* The database or Redis fails: the turn goes on without a history.
LoadFails(r) ==
  /\ round[r].at \in {"selecting", "filling"}
  /\ round' = [round EXCEPT ![r].at = "answering", ![r].seen = {}]
  /\ UNCHANGED <<chats, saved, history, settled>>

\* Question and answer are inserted and committed.
SaveMessages(r) ==
  LET c == round[r].chat IN
  /\ Step(r, "answering", "invalidating") /\ chats[c] = "open"
  /\ saved' = [saved EXCEPT ![c] = @ \cup {r}]
  /\ UNCHANGED <<chats, history, settled>>

\* The conversation is gone, or the database fails: only logged.
SaveFails(r) == round[r].at = "answering" /\ Over(r) /\ UNCHANGED <<chats, saved, history, settled>>

\* No other turn of the conversation is about to cache what it read before.
Undisturbed(r) ==
  \A x \in Rounds : round[x].at = "filling" /\ round[x].chat = round[r].chat => r \in round[x].seen

\* Mutant of InvalidateHistory: the key deleted is not the one that was filled.
InvalidateNothing(r) ==
  LET c == round[r].chat IN
  /\ round[r].at = "invalidating" /\ Over(r)
  /\ settled' = [settled EXCEPT ![c] = IF Undisturbed(r) THEN @ \cup {r} ELSE @]
  /\ UNCHANGED <<chats, saved, history>>

InvalidateHistory(r) ==
  LET c == round[r].chat IN
  /\ round[r].at = "invalidating" /\ Over(r)
  /\ history' = [history EXCEPT ![c] = NoHistory]
  /\ settled' = [settled EXCEPT ![c] = IF Undisturbed(r) THEN @ \cup {r} ELSE @]
  /\ UNCHANGED <<chats, saved>>

\* The reader goes away and the graph's task is cancelled at an await, or
\* Redis fails after the commit: the cached history is not invalidated.
TurnCancelled(r) ==
  /\ round[r].at \in {"selecting", "filling", "answering", "invalidating"}
  /\ Over(r) /\ UNCHANGED <<chats, saved, history, settled>>

HistoryExpires(c) ==
  /\ history[c] # NoHistory /\ history' = [history EXCEPT ![c] = NoHistory]
  /\ UNCHANGED <<chats, saved, round, settled>>

ConversationsInit ==
  /\ chats = [c \in Chats |-> "free"] /\ saved = [c \in Chats |-> {}]
  /\ history = [c \in Chats |-> NoHistory] /\ settled = [c \in Chats |-> {}]
  /\ round = [r \in Rounds |-> NewRound]

ConversationsNext ==
  \/ \E c \in Chats : CreateChatSession(c) \/ DeleteSession(c) \/ HistoryExpires(c)
  \/ \E r \in Rounds, c \in Chats : ContinueChat(r, c) \/ StartChat(r, c)
  \/ \E r \in Rounds :
       \/ RefuseMessage(r) \/ LoadHistory(r) \/ SelectHistory(r) \/ FillHistory(r) \/ LoadFails(r)
       \/ SaveMessages(r) \/ SaveFails(r) \/ InvalidateHistory(r) \/ TurnCancelled(r)

ConversationsSpec == ConversationsInit /\ [][ConversationsNext]_chatVars

--------------------------------------------------------------------------------
(* A turn answers from a history that holds every earlier turn of its conversation
   that was saved and invalidated, unless another turn had read the messages
   before that save and cached them after the invalidation (memory_agent.py:50-66
   against 133-141): turns sent one after the other always see each other. *)
TurnsSeeTheirPast ==
  \A r \in Rounds :
    /\ round[r].at \in {"answering", "invalidating"} /\ round[r].loaded
    /\ chats[round[r].chat] = "open"
    => round[r].owed \subseteq round[r].seen
================================================================================
