------------------------------ MODULE ChatWindow ------------------------------
(***************************************************************************)
(* The chat of the web application: questions typed or picked from the       *)
(* suggestions, the event stream each answer comes in, clearing the chat and *)
(* leaving the page.  A callback of the stream and the updates of state it   *)
(* makes are one step; between two steps anything else may happen.           *)
(***************************************************************************)
EXTENDS Integers

CONSTANTS Questions, \* sends of one window, each used once
          NoQuestion

VARIABLES
  messages,  \* what is on screen: pairs of an author and a question
  streaming, \* the question whose partial answer is shown
  loading,   \* isLoading
  handle,    \* streamAbortRef: the question whose stream it aborts
  stream,    \* per question: where its stream is, and its flags
  mounted,
  overlapped    \* history: a suggestion was picked while an answer was loading

windowVars == <<messages, streaming, loading, handle, stream, mounted, overlapped>>

\* replies: history, the answers and errors put on screen for the question.
NewStream == [at |-> "new", settled |-> FALSE, aborted |-> FALSE, replies |-> 0]

Running(q) == stream[q].at \in {"sent", "open", "told", "failed"}

Goes(q, at) == stream' = [stream EXCEPT ![q].at = at]

\* The stream's promise resolves: handleSend's finally clause runs at once.
StreamEnds == loading' = FALSE /\ handle' = NoQuestion /\ UNCHANGED <<mounted, overlapped>>

\* A message for the question is added, and the partial answer is taken away.
Reply(q, author) == messages' = messages \cup {<<author, q>>} /\ streaming' = NoQuestion

--------------------------------------------------------------------------------
(* Asking *)

\* handleSend up to the await: the abort handle of another stream is replaced.
Send(q) ==
  /\ mounted /\ stream[q].at = "new"
  /\ messages' = messages \cup {<<"user", q>>}
  /\ loading' = TRUE /\ streaming' = NoQuestion /\ handle' = q
  /\ Goes(q, "sent") /\ UNCHANGED mounted

\* Mutant of TypeQuestion: the input stays enabled.
TypeAnytime(q) == Send(q) /\ UNCHANGED overlapped

\* The input is disabled while an answer is loading.
TypeQuestion(q) == ~loading /\ Send(q) /\ UNCHANGED overlapped

\* Suggestions are shown while there is no message, also when the chat was
\* cleared under a running stream; they are never disabled.
PickSuggestion(q) ==
  /\ messages = {} /\ streaming = NoQuestion
  /\ Send(q) /\ overlapped' = (overlapped \/ loading)

--------------------------------------------------------------------------------
(* The stream *)

OpenStream(q) ==
  /\ stream[q].at = "sent" /\ Goes(q, "open")
  /\ UNCHANGED <<messages, streaming, loading, handle, mounted, overlapped>>

\* One token event carries the whole answer.
ReadToken(q) ==
  /\ stream[q].at = "open" /\ Goes(q, "told") /\ streaming' = q
  /\ UNCHANGED <<messages, loading, handle, mounted, overlapped>>

\* The server reports an error, and will then close the stream.
ReadError(q) ==
  /\ stream[q].at \in {"open", "told"}
  /\ stream' = [stream EXCEPT ![q].at = "failed", ![q].settled = TRUE, ![q].replies = @ + 1]
  /\ Reply(q, "error")
  /\ UNCHANGED <<loading, handle, mounted, overlapped>>

\* What a callback that respects settled does at the end of the stream.
Settle(q, author) ==
  IF stream[q].settled
  THEN Goes(q, "over") /\ UNCHANGED <<messages, streaming>>
  ELSE /\ stream' = [stream EXCEPT ![q].at = "over", ![q].settled = TRUE, ![q].replies = @ + 1]
       /\ Reply(q, author)

\* Mutant of ReadEnd: the end of the stream always completes the answer.
ReadEndUnsettled(q) ==
  /\ stream[q].at \in {"open", "told", "failed"}
  /\ stream' = [stream EXCEPT ![q].at = "over", ![q].settled = TRUE, ![q].replies = @ + 1]
  /\ Reply(q, "assistant")
  /\ StreamEnds

\* onComplete: without a token event the answer is empty.
ReadEnd(q) == stream[q].at \in {"open", "told", "failed"} /\ Settle(q, "assistant") /\ StreamEnds

\* The request is refused, or the connection fails, unless it was aborted.
StreamFails(q) ==
  /\ Running(q) /\ ~stream[q].aborted /\ Settle(q, "error") /\ StreamEnds

--------------------------------------------------------------------------------
(* Clearing and leaving *)

\* The running stream is not aborted: its answer is added to the empty chat.
Clear ==
  /\ mounted /\ messages' = {} /\ streaming' = NoQuestion
  /\ UNCHANGED <<loading, handle, stream, mounted, overlapped>>

\* The page is left: the stream whose abort handle is kept is aborted.
LeavePage ==
  /\ mounted /\ mounted' = FALSE
  /\ stream' = [q \in Questions |-> [stream[q] EXCEPT !.aborted = @ \/ q = handle]]
  /\ UNCHANGED <<messages, streaming, loading, handle, overlapped>>

\* The aborted request rejects, and no callback is called.
AbortArrives(q) ==
  /\ Running(q) /\ stream[q].aborted /\ Goes(q, "over") /\ StreamEnds
  /\ UNCHANGED <<messages, streaming>>

WindowInit ==
  /\ messages = {} /\ streaming = NoQuestion /\ loading = FALSE /\ handle = NoQuestion
  /\ stream = [q \in Questions |-> NewStream]
  /\ mounted = TRUE /\ overlapped = FALSE

WindowNext ==
  \/ \E q \in Questions :
       \/ TypeQuestion(q) \/ PickSuggestion(q) \/ OpenStream(q) \/ ReadToken(q) \/ ReadError(q)
       \/ ReadEnd(q) \/ StreamFails(q) \/ AbortArrives(q)
  \/ Clear \/ LeavePage

WindowSpec == WindowInit /\ [][WindowNext]_windowVars

--------------------------------------------------------------------------------
(* A question gets one reply, an answer or an error and never both, however its
   stream ends; only a stream aborted by leaving the page may end without one
   (sendChatMessage's settled flag and createSSEStream's aborted flag). *)
AnsweredOnce ==
  \A q \in Questions :
    /\ stream[q].replies <= 1
    /\ stream[q].at = "over" /\ ~stream[q].aborted => stream[q].replies = 1

(* "Abort any in-flight chat stream when the component unmounts"
   (ChatInterface.tsx:338): while the page is open a running stream keeps the input
   closed and its abort handle in reach, and after it was left every stream that
   still runs is aborted.  Picking a suggestion from a chat cleared under a running
   stream breaks this, so such windows are excluded. *)
LeavingStopsStreams ==
  ~overlapped => \A q \in Questions :
    Running(q) => IF mounted THEN loading /\ handle = q ELSE stream[q].aborted
================================================================================
