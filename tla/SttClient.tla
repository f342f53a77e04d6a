----------------------------- MODULE SttClient ------------------------------
(***************************************************************************)
(* The speech-to-text client of a call (onset/stt.py): a bounded feed that *)
(* drops its oldest frame, a task that sends it, a task that receives and  *)
(* reopens the socket under a reconnect budget, and aclose().              *)
(*                                                                         *)
(* Three asyncio tasks and the provider.  An inbound frame is its number.  *)
(* What counts of a socket is whether the current one is open, dead or     *)
(* absent (None), and how many others were left open.                      *)
(***************************************************************************)
EXTENDS Integers, SequencesExt

CONSTANTS
  MaxReconnects,   \* settings.stt_max_reconnects
  FeedMax,         \* settings.stt_feed_max_frames
  CallbackRaises,  \* the milestone sink under on_transcript may raise
  MaxFrames,       \* bound: inbound frames
  MaxMessages      \* bound: messages of the provider

ASSUME SttConstants ==
  /\ MaxReconnects \in Nat /\ FeedMax \in Nat \ {0}
  /\ MaxFrames \in Nat /\ MaxMessages \in Nat
  /\ CallbackRaises \in BOOLEAN

VARIABLES
  ws,         \* the current socket: "none", "open" or "dead"
  abandoned,  \* sockets replaced while still open
  recv,       \* where the receive loop awaits
  attempt,    \* reconnects since the last message (a local of the loop)
  feed,       \* the bounded queue of frames
  fed,        \* frames given to feed() so far
  send,       \* where the send loop awaits
  sending,    \* the frame the send loop holds, 0 for none
  sent,       \* frames the provider took
  closed,     \* _closed
  closer,     \* where aclose() awaits
  raised,     \* times the callback raised
  messages,   \* messages received
  errors,     \* calls of on_error
  silent      \* sockets opened, and failed openings, since the last message

vars == <<ws, abandoned, recv, attempt, feed, fed, send, sending, sent, closed,
          closer, raised, messages, errors, silent>>
recvVars == <<ws, abandoned, recv, attempt, errors, silent, messages, raised>>
sendVars == <<send, sending, sent>>
closeVars == <<closed, closer>>

TypeOK ==
  /\ ws \in {"none", "open", "dead"} /\ abandoned \in Nat
  /\ recv \in {"none", "reading", "backoff", "opening", "ended"}
  /\ attempt \in 0..MaxReconnects
  /\ feed \in Seq(1..MaxFrames) /\ Len(feed) <= FeedMax
  /\ fed \in 0..MaxFrames
  /\ send \in {"none", "getting", "sending", "ended"}
  /\ sending \in 0..MaxFrames /\ sent \in Seq(1..MaxFrames)
  /\ closed \in BOOLEAN
  /\ closer \in {"none", "reaping", "closing", "done", "cancelled"}
  /\ messages \in 0..MaxMessages /\ errors \in Nat /\ silent \in Nat
  /\ raised \in 0..messages

Init ==
  /\ ws = "none" /\ abandoned = 0 /\ recv = "none" /\ attempt = 0
  /\ feed = <<>> /\ fed = 0 /\ send = "none" /\ sending = 0 /\ sent = <<>>
  /\ closed = FALSE /\ closer = "none"
  /\ messages = 0 /\ errors = 0 /\ silent = 0 /\ raised = 0

-----------------------------------------------------------------------------
(* connect(): a failure raises, and leaves neither socket nor tasks. *)

Connect ==
  /\ recv = "none" /\ ~closed
  /\ ws' = "open" /\ recv' = "reading" /\ send' = "getting"
  /\ silent' = 1
  /\ UNCHANGED <<abandoned, attempt, feed, fed, sending, sent, closeVars,
                 messages, errors, raised>>

\* Mutant of DropOldest: a full feed refuses the new frame.
DropNewest(q, f) == IF Len(q) < FeedMax THEN Append(q, f) ELSE q

\* feed(): called by the media socket's read loop, whatever the tasks do.
DropOldest(q, f) == IF Len(q) < FeedMax THEN Append(q, f) ELSE Append(Tail(q), f)

Feed ==
  /\ ~closed /\ fed < MaxFrames
  /\ fed' = fed + 1
  /\ feed' = DropOldest(feed, fed')
  /\ UNCHANGED <<recvVars, sendVars, closeVars>>

-----------------------------------------------------------------------------
(* The send loop.  Once aclose() has cancelled it, it takes no more steps. *)

SendTakes ==
  /\ send = "getting" /\ feed # <<>> /\ ~closed
  /\ feed' = Tail(feed)
  /\ IF ws = "none"   \* the last reopen failed: the frame is dropped
     THEN UNCHANGED <<send, sending>>
     ELSE send' = "sending" /\ sending' = Head(feed)
  /\ UNCHANGED <<recvVars, fed, sent, closeVars>>

SendReturns ==
  /\ send = "sending" /\ ~closed
  /\ send' = "getting" /\ sending' = 0
  /\ \/ sent' = Append(sent, sending)
     \/ sent' = sent   \* raised: the frame is lost
  /\ UNCHANGED <<recvVars, feed, fed, closeVars>>

SendCancelled ==
  /\ closed /\ send \in {"getting", "sending"}
  /\ send' = "ended" /\ sending' = 0
  /\ UNCHANGED <<recvVars, feed, fed, sent, closeVars>>

-----------------------------------------------------------------------------
(* The receive loop *)

\* Mutant of Exhausted: one reconnect too many.
ExhaustedLate(n) == n > MaxReconnects

\* What follows the end of a socket: give up, or back off and try again.
Exhausted(n) == n >= MaxReconnects

Decide(n) ==
  IF Exhausted(n)
  THEN recv' = "ended" /\ errors' = errors + 1 /\ attempt' = n
  ELSE recv' = "backoff" /\ errors' = errors /\ attempt' = n + 1

\* Any message resets the budget, a provider error among them.
Message ==
  /\ recv = "reading" /\ ws = "open" /\ ~closed /\ messages < MaxMessages
  /\ messages' = messages + 1
  /\ attempt' = 0 /\ silent' = 0
  /\ UNCHANGED <<ws, abandoned, recv, errors, raised, feed, fed, sendVars, closeVars>>

\* The callback raised: the loop leaves an open socket.
MessageRaises ==
  /\ CallbackRaises
  /\ recv = "reading" /\ ws = "open" /\ ~closed /\ messages < MaxMessages
  /\ messages' = messages + 1
  /\ raised' = raised + 1 /\ silent' = 0
  /\ Decide(0)
  /\ UNCHANGED <<ws, abandoned, feed, fed, sendVars, closeVars>>

SocketDies ==
  /\ recv = "reading" /\ ws = "open" /\ ~closed
  /\ ws' = "dead"
  /\ Decide(attempt)
  /\ UNCHANGED <<abandoned, silent, messages, raised, feed, fed, sendVars, closeVars>>

BackedOff ==
  /\ recv = "backoff" /\ ~closed
  /\ recv' = "opening"
  /\ UNCHANGED <<ws, abandoned, attempt, errors, silent, messages, raised, feed, fed,
                 sendVars, closeVars>>

\* The socket that is replaced is not closed.
Abandon == abandoned' = IF ws = "open" THEN abandoned + 1 ELSE abandoned

Reopened ==
  /\ recv = "opening" /\ ~closed
  /\ ws' = "open" /\ Abandon
  /\ recv' = "reading" /\ silent' = silent + 1
  /\ UNCHANGED <<attempt, errors, messages, raised, feed, fed, sendVars, closeVars>>

\* With no socket the loop goes straight to its decision.
ReopenFails ==
  /\ recv = "opening" /\ ~closed
  /\ ws' = "none" /\ Abandon
  /\ silent' = silent + 1
  /\ Decide(attempt)
  /\ UNCHANGED <<messages, raised, feed, fed, sendVars, closeVars>>

\* Mutant of RecvCancelled: only a loop that reads sees the cancellation.
RecvCancelledReading ==
  /\ closed /\ recv = "reading"
  /\ recv' = "ended"
  /\ UNCHANGED <<ws, abandoned, attempt, errors, silent, messages, raised, feed, fed,
                 sendVars, closeVars>>

RecvCancelled ==
  /\ closed /\ recv \notin {"none", "ended"}
  /\ recv' = "ended"
  /\ UNCHANGED <<ws, abandoned, attempt, errors, silent, messages, raised, feed, fed,
                 sendVars, closeVars>>

-----------------------------------------------------------------------------
(* aclose() *)

Aclose ==
  /\ ~closed
  /\ closed' = TRUE /\ closer' = "reaping"
  /\ UNCHANGED <<recvVars, feed, fed, sendVars>>

Over(pc) == pc \in {"none", "ended"}

\* Mutant of Reaped: the cancelled tasks are not awaited.
ReapedUnawaited ==
  /\ closer = "reaping"
  /\ closer' = IF ws = "none" THEN "done" ELSE "closing"
  /\ UNCHANGED <<recvVars, feed, fed, sendVars, closed>>

\* Both tasks were awaited; a cancellation of aclose() meanwhile is swallowed.
Reaped ==
  /\ closer = "reaping" /\ Over(recv) /\ Over(send)
  /\ closer' = IF ws = "none" THEN "done" ELSE "closing"
  /\ UNCHANGED <<recvVars, feed, fed, sendVars, closed>>

SocketClosed ==
  /\ closer = "closing"
  /\ closer' = "done" /\ ws' = "none"
  /\ UNCHANGED <<abandoned, recv, attempt, errors, silent, messages, raised, feed, fed,
                 sendVars, closed>>

\* The task that runs aclose() is cancelled while the socket closes.
CloseCancelled ==
  /\ closer = "closing"
  /\ closer' = "cancelled"
  /\ UNCHANGED <<recvVars, feed, fed, sendVars, closed>>

Recv == SocketDies \/ BackedOff \/ Reopened \/ ReopenFails \/ RecvCancelled
Close == Reaped \/ SocketClosed

Next ==
  \/ Connect \/ Feed
  \/ SendTakes \/ SendReturns \/ SendCancelled
  \/ Message \/ MessageRaises \/ Recv
  \/ Aclose \/ Close \/ CloseCancelled

\* Sleeps and openings end (the opening has a timeout), cancelled tasks see
\* it.  Nothing is assumed of the provider: a socket may stay open and silent.
Fairness ==
  /\ WF_vars(BackedOff) /\ WF_vars(Reopened \/ ReopenFails)
  /\ WF_vars(RecvCancelled) /\ WF_vars(SendCancelled) /\ WF_vars(Close)

Spec == Init /\ [][Next]_vars /\ Fairness

-----------------------------------------------------------------------------
(* Properties *)

\* The feed is always the newest frames without a gap, and the provider hears
\* frames in order, none twice, whatever was dropped between.
FeedIsNewest ==
  /\ \A i \in 1..Len(feed) : feed[i] = fed - Len(feed) + i
  /\ LET heard == sent \o (IF sending = 0 THEN <<>> ELSE <<sending>>) \o feed
     IN \A i, j \in 1..Len(heard) : i < j => heard[i] < heard[j]

\* A provider that says nothing costs at most MaxReconnects reconnects, failed
\* ones and sockets that open and die alike; the agent is told once, when
\* they are used up, and no socket is opened after that.
BudgetExact ==
  /\ silent <= MaxReconnects + 1
  /\ errors <= 1
  /\ errors = 1 => Over(recv) /\ attempt = MaxReconnects
                   /\ (silent = 0 \/ silent >= MaxReconnects)

\* aclose() leaves no task and no socket, unless it was cancelled itself, save
\* those the loop had left because of a raising callback.
NothingLeftOpen ==
  /\ closer = "done" => ws = "none" /\ Over(recv) /\ Over(send)
  /\ abandoned <= raised

\* A recovery ends: in a socket, in the report, or in aclose().
RecoveryEnds == recv \in {"backoff", "opening"} ~> recv \in {"reading", "ended"}

=============================================================================
