-------------------------- MODULE SttClientProofs --------------------------
(***************************************************************************)
(* Proofs about the speech-to-text client, for every budget, every size of *)
(* the feed and every number of frames and messages: what is open after    *)
(* aclose(), how often a silent provider is dialled, what it hears.  Then  *)
(* about the gate in front of it, for every guard and every pace of the    *)
(* frames: the client behind it is this client, and hears no echo.         *)
(***************************************************************************)
EXTENDS InboundAudio, SequenceTheorems, TLAPS

\* The send loop holds a frame exactly while it sends one.
SendOK ==
  /\ send = "sending" <=> sending # 0
  /\ recv = "none" => send = "none"

Typed == TypeOK /\ SendOK

LEMMA TypeStart == Init => Typed
<1>1. Init => feed \in Seq(1..MaxFrames) /\ Len(feed) = 0 /\ sent \in Seq(1..MaxFrames)
  BY DEF Init
<1>2. Init => closed \in BOOLEAN
  BY Zenon DEF Init
<1> QED
  BY <1>1, <1>2, SttConstants DEF Init, TypeOK, SendOK, Typed

LEMMA TypeStep == Typed /\ [Next]_vars => Typed'
<1> SUFFICES ASSUME Typed, [Next]_vars PROVE Typed'
  OBVIOUS
<1> USE SttConstants DEF TypeOK, SendOK, Typed, recvVars, sendVars, closeVars
<1>1. CASE Connect BY <1>1 DEF Connect
<1>2. CASE Feed
  <2>1. fed' \in 1..MaxFrames
    BY <1>2 DEF Feed
  <2>2. feed' \in Seq(1..MaxFrames) /\ Len(feed') <= FeedMax
    <3>1. CASE Len(feed) < FeedMax
      BY <1>2, <2>1, <3>1 DEF Feed, DropOldest
    <3>2. CASE Len(feed) = FeedMax
      <4>1. Tail(feed) \in Seq(1..MaxFrames) /\ Len(Tail(feed)) = FeedMax - 1
        BY <3>2
      <4>2. feed' = Append(Tail(feed), fed')
        BY <1>2, <3>2 DEF Feed, DropOldest
      <4> QED BY <2>1, <4>1, <4>2
    <3> QED BY <3>1, <3>2
  <2> QED BY <1>2, <2>1, <2>2 DEF Feed
<1>3. CASE SendTakes
  <2>1. feed' \in Seq(1..MaxFrames) /\ Len(feed') <= FeedMax /\ Head(feed) \in 1..MaxFrames
    BY <1>3 DEF SendTakes
  <2> QED BY <1>3, <2>1 DEF SendTakes
<1>4. CASE SendReturns
  <2>1. sending \in 1..MaxFrames
    BY <1>4 DEF SendReturns
  <2>2. sent' \in Seq(1..MaxFrames)
    <3>1. sent' = sent \/ sent' = Append(sent, sending)
      BY <1>4 DEF SendReturns
    <3>2. sent \in Seq(1..MaxFrames) OBVIOUS
    <3>3. CASE sent' = sent BY <3>2, <3>3
    <3>4. CASE sent' = Append(sent, sending) BY <2>1, <3>2, <3>4
    <3> QED BY <3>1, <3>3, <3>4
  <2> QED BY <1>4, <2>2 DEF SendReturns
<1>5. CASE SendCancelled BY <1>5 DEF SendCancelled
<1>6. CASE Message BY <1>6 DEF Message
<1>7. CASE MessageRaises BY <1>7 DEF MessageRaises, Decide, Exhausted
<1>8. CASE SocketDies BY <1>8 DEF SocketDies, Decide, Exhausted
<1>9. CASE BackedOff BY <1>9 DEF BackedOff
<1>10. CASE Reopened BY <1>10 DEF Reopened, Abandon
<1>11. CASE ReopenFails BY <1>11 DEF ReopenFails, Abandon, Decide, Exhausted
<1>12. CASE RecvCancelled BY <1>12 DEF RecvCancelled
<1>13. CASE Aclose
  <2>1. closed' \in BOOLEAN
    BY <1>13, Zenon DEF Aclose
  <2> QED BY <1>13, <2>1 DEF Aclose
<1>14. CASE Reaped BY <1>14 DEF Reaped
<1>15. CASE SocketClosed BY <1>15 DEF SocketClosed
<1>16. CASE CloseCancelled BY <1>16 DEF CloseCancelled
<1>17. CASE UNCHANGED vars BY <1>17 DEF vars
<1> QED
  BY <1>1, <1>2, <1>3, <1>4, <1>5, <1>6, <1>7, <1>8, <1>9, <1>10, <1>11, <1>12,
     <1>13, <1>14, <1>15, <1>16, <1>17 DEF Next, Recv, Close

LEMMA TypedAlways == Spec => []Typed
  BY TypeStart, TypeStep, PTL DEF Spec

\* Every variable of the client keeps its type.
THEOREM TypeCorrect == Spec => []TypeOK
  BY TypedAlways, PTL DEF Typed

-----------------------------------------------------------------------------
(* aclose() *)

\* A socket the loop left open is accounted for by a callback that raised.
Teardown ==
  /\ closer = "none" <=> ~closed
  /\ closer \in {"closing", "done", "cancelled"} => Over(recv) /\ Over(send)
  /\ closer = "done" => ws = "none"
  /\ recv = "none" => ws = "none"
  /\ abandoned <= raised
  /\ recv \in {"backoff", "opening"} /\ ws = "open" => abandoned < raised

LEMMA TeardownStep == TypeOK /\ Teardown /\ [Next]_vars => Teardown'
<1> SUFFICES ASSUME TypeOK, Teardown, [Next]_vars PROVE Teardown'
  OBVIOUS
<1> USE DEF TypeOK, Teardown, Over, recvVars, sendVars, closeVars
<1>1. CASE Connect BY <1>1 DEF Connect
<1>2. CASE Feed BY <1>2 DEF Feed
<1>3. CASE SendTakes BY <1>3 DEF SendTakes
<1>4. CASE SendReturns BY <1>4 DEF SendReturns
<1>5. CASE SendCancelled BY <1>5 DEF SendCancelled
<1>6. CASE Message BY <1>6 DEF Message
<1>7. CASE MessageRaises BY <1>7 DEF MessageRaises, Decide
<1>8. CASE SocketDies BY <1>8 DEF SocketDies, Decide
<1>9. CASE BackedOff BY <1>9 DEF BackedOff
<1>10. CASE Reopened BY <1>10 DEF Reopened, Abandon
<1>11. CASE ReopenFails BY <1>11 DEF ReopenFails, Abandon, Decide
<1>12. CASE RecvCancelled BY <1>12 DEF RecvCancelled
<1>13. CASE Aclose
  <2>1. closed'
    BY <1>13, Zenon DEF Aclose
  <2> QED BY <1>13, <2>1 DEF Aclose
<1>14. CASE Reaped BY <1>14 DEF Reaped
<1>15. CASE SocketClosed BY <1>15 DEF SocketClosed
<1>16. CASE CloseCancelled BY <1>16 DEF CloseCancelled
<1>17. CASE UNCHANGED vars BY <1>17 DEF vars
<1> QED
  BY <1>1, <1>2, <1>3, <1>4, <1>5, <1>6, <1>7, <1>8, <1>9, <1>10, <1>11, <1>12,
     <1>13, <1>14, <1>15, <1>16, <1>17 DEF Next, Recv, Close

\* Whenever aclose() comes, between a socket's end and its replacement too, it
\* leaves no task and no socket, unless it was cancelled itself; the loop has
\* left open no more sockets than the callback raised.
THEOREM NothingIsLeftOpen == Spec => []NothingLeftOpen
<1>1. Init => Teardown
  <2>1. Init => ~closed
    BY Zenon DEF Init
  <2> QED BY <2>1 DEF Init, Teardown, Over
<1>2. Teardown => NothingLeftOpen
  BY DEF Teardown, NothingLeftOpen
<1> QED
  BY <1>1, <1>2, TeardownStep, TypeCorrect, PTL DEF Spec

-----------------------------------------------------------------------------
(* The reconnect budget *)

\* attempt counts the reconnects since the last message, up to the one that is
\* being decided or made; silent counts what came of them.
Budget ==
  /\ recv # "ended" => errors = 0
  /\ recv = "none" => silent = 0 /\ attempt = 0
  /\ recv = "reading" => silent \in {attempt, attempt + 1}
  /\ recv \in {"backoff", "opening"} => silent \in {attempt - 1, attempt}
  /\ silent <= MaxReconnects + 1
  /\ errors <= 1
  /\ errors = 1 => attempt = MaxReconnects /\ (silent = 0 \/ silent >= MaxReconnects)

LEMMA BudgetStep == TypeOK /\ Budget /\ [Next]_vars => Budget'
<1> SUFFICES ASSUME TypeOK, Budget, [Next]_vars PROVE Budget'
  OBVIOUS
<1> USE SttConstants DEF TypeOK, Budget, recvVars
<1>1. CASE Connect BY <1>1 DEF Connect
<1>2. CASE Feed \/ SendTakes \/ SendReturns \/ SendCancelled \/ Aclose \/ Reaped \/ CloseCancelled
  BY <1>2 DEF Feed, SendTakes, SendReturns, SendCancelled, Aclose, Reaped, CloseCancelled
<1>3. CASE SocketClosed BY <1>3 DEF SocketClosed
<1>6. CASE Message BY <1>6 DEF Message
<1>7. CASE MessageRaises BY <1>7 DEF MessageRaises, Decide, Exhausted
<1>8. CASE SocketDies BY <1>8 DEF SocketDies, Decide, Exhausted
<1>9. CASE BackedOff BY <1>9 DEF BackedOff
<1>10. CASE Reopened BY <1>10 DEF Reopened
<1>11. CASE ReopenFails BY <1>11 DEF ReopenFails, Decide, Exhausted
<1>12. CASE RecvCancelled BY <1>12 DEF RecvCancelled
<1>17. CASE UNCHANGED vars BY <1>17 DEF vars
<1> QED
  BY <1>1, <1>2, <1>3, <1>6, <1>7, <1>8, <1>9, <1>10, <1>11, <1>12, <1>17
  DEF Next, Recv, Close

\* A provider that says nothing costs no more than the budget, the agent is told
\* once, when it is used up, and nothing is opened after that.
THEOREM BudgetIsExact == Spec => []BudgetExact
<1>1. Init => Budget
  BY SttConstants DEF Init, Budget
<1>2. TypeOK /\ Budget => BudgetExact
  BY DEF TypeOK, Budget, BudgetExact, Over
<1> QED
  BY <1>1, <1>2, BudgetStep, TypeCorrect, PTL DEF Spec

-----------------------------------------------------------------------------
(* The feed *)

Increasing(s) == \A i, j \in 1..Len(s) : i < j => s[i] < s[j]
Below(s, n) == \A i \in 1..Len(s) : s[i] < n

\* What was taken from the feed or dropped of it.
Gone == fed - Len(feed)

\* The frame at hand follows those sent, and what is in the feed follows both.
FeedInOrder == Gone >= 0 /\ \A i \in 1..Len(feed) : feed[i] = Gone + i
SentInOrder == Increasing(sent) /\ Below(sent, Gone + 1)
HeldInOrder == sending # 0 => Below(sent, sending) /\ sending <= Gone
InOrder == FeedInOrder /\ SentInOrder /\ HeldInOrder

LEMMA BelowMore ==
  ASSUME NEW s \in Seq(Int), NEW m \in Int, NEW n \in Int, m <= n, Below(s, m)
  PROVE  Below(s, n)
  BY DEF Below

LEMMA InOrderStep == Typed /\ InOrder /\ [Next]_vars => InOrder'
<1> SUFFICES ASSUME Typed, InOrder, [Next]_vars PROVE InOrder'
  OBVIOUS
<1>a. /\ feed \in Seq(Int) /\ Len(feed) \in 0..FeedMax /\ FeedMax \in Nat \ {0}
      /\ fed \in Nat /\ sent \in Seq(Int) /\ sending \in Nat
      /\ send = "sending" <=> sending # 0
      /\ Gone \in Nat /\ fed = Gone + Len(feed)
      /\ \A i \in 1..Len(feed) : feed[i] = Gone + i
  BY SttConstants DEF Typed, TypeOK, SendOK, InOrder, FeedInOrder, Gone
<1>b. CASE feed' = feed /\ fed' = fed /\ sending' = sending /\ sent' = sent
  BY <1>b DEF InOrder, FeedInOrder, SentInOrder, HeldInOrder, Gone
<1>1. CASE Connect
  BY <1>1, <1>b DEF Connect
<1>2. CASE Feed
  <2>1. /\ fed' = fed + 1 /\ sent' = sent /\ sending' = sending
        /\ feed' = IF Len(feed) < FeedMax THEN Append(feed, fed + 1)
                   ELSE Append(Tail(feed), fed + 1)
    BY <1>2 DEF Feed, DropOldest, sendVars
  <2>2. /\ Len(feed') \in Nat /\ fed + 1 - Len(feed') \in {Gone, Gone + 1}
        /\ \A i \in 1..Len(feed') : feed'[i] = fed + 1 - Len(feed') + i
    <3>1. CASE Len(feed) < FeedMax
      <4>1. Len(feed') = Len(feed) + 1 /\ feed'[Len(feed) + 1] = fed + 1
            /\ \A i \in 1..Len(feed) : feed'[i] = feed[i]
        BY <1>a, <2>1, <3>1
      <4>2. \A i \in 1..Len(feed') : feed'[i] = Gone + i
        <5> SUFFICES ASSUME NEW i \in 1..Len(feed') PROVE feed'[i] = Gone + i
          OBVIOUS
        <5>1. i \in 1..Len(feed) \/ i = Len(feed) + 1
          BY <1>a, <4>1
        <5>2. CASE i \in 1..Len(feed) BY <1>a, <4>1, <5>2
        <5>3. CASE i = Len(feed) + 1 BY <1>a, <4>1, <5>3
        <5> QED BY <5>1, <5>2, <5>3
      <4> QED BY <1>a, <4>1, <4>2
    <3>2. CASE Len(feed) = FeedMax
      <4> DEFINE rest == Tail(feed)
      <4>1. /\ rest \in Seq(Int) /\ Len(rest) = Len(feed) - 1
            /\ \A i \in 1..Len(rest) : rest[i] = feed[i + 1]
        BY <1>a, <3>2, HeadTailProperties, EmptySeq
      <4>2. /\ Len(feed') = Len(rest) + 1 /\ feed'[Len(rest) + 1] = fed + 1
            /\ \A i \in 1..Len(rest) : feed'[i] = rest[i]
        <5> HIDE DEF rest
        <5>1. feed' = Append(rest, fed + 1)
          BY <1>a, <2>1, <3>2 DEF rest
        <5> QED BY <1>a, <4>1, <5>1, AppendProperties
      <4> HIDE DEF rest
      <4>3. \A i \in 1..Len(feed) : feed'[i] = Gone + 1 + i
        <5> SUFFICES ASSUME NEW i \in 1..Len(feed) PROVE feed'[i] = Gone + 1 + i
          OBVIOUS
        <5>1. CASE i = Len(feed)
          BY <1>a, <4>1, <4>2, <5>1
        <5>2. CASE i \in 1..Len(rest)
          <6>1. feed'[i] = feed[i + 1] /\ i + 1 \in 1..Len(feed)
            BY <1>a, <4>1, <4>2, <5>2
          <6> QED BY <1>a, <6>1
        <5> QED BY <1>a, <4>1, <5>1, <5>2
      <4> QED BY <1>a, <4>1, <4>2, <4>3
    <3> QED BY <1>a, <3>1, <3>2
  <2>3. Gone' \in {Gone, Gone + 1} /\ \A i \in 1..Len(feed') : feed'[i] = Gone' + i
    <3>1. Gone' = fed + 1 - Len(feed')
      <4>1. fed' = fed + 1 BY <2>1
      <4>2. Gone' = fed' - Len(feed') BY DEF Gone
      <4> QED BY <1>a, <2>2, <4>1, <4>2
    <3> QED BY <2>2, <3>1
  <2>4. Below(sent, Gone' + 1)
    BY <1>a, <2>3, BelowMore DEF InOrder, SentInOrder
  <2>5. FeedInOrder'
    BY <1>a, <2>3 DEF FeedInOrder
  <2> QED
    BY <1>a, <2>1, <2>3, <2>4, <2>5 DEF InOrder, SentInOrder, HeldInOrder
<1>3. CASE SendTakes
  <2>1. feed # <<>> /\ feed' = Tail(feed) /\ fed' = fed /\ sent' = sent /\ sending = 0
    BY <1>a, <1>3 DEF SendTakes
  <2>2. /\ Len(feed') = Len(feed) - 1 /\ Len(feed) >= 1 /\ Head(feed) = feed[1]
        /\ \A i \in 1..Len(feed') : feed'[i] = feed[i + 1]
    BY <1>a, <2>1, HeadTailProperties, EmptySeq
  <2>3. Gone' = Gone + 1 /\ FeedInOrder' /\ Head(feed) = Gone + 1
    BY <1>a, <2>1, <2>2 DEF Gone, FeedInOrder
  <2>4. Below(sent, Gone + 1) /\ Below(sent, Gone + 2)
    BY <1>a, BelowMore DEF InOrder, SentInOrder
  <2>5. sending' = sending \/ sending' = Head(feed)
    BY <1>3 DEF SendTakes
  <2> QED
    BY <1>a, <2>1, <2>3, <2>4, <2>5 DEF InOrder, SentInOrder, HeldInOrder
<1>4. CASE SendReturns
  <2>1. /\ feed' = feed /\ fed' = fed /\ sending' = 0 /\ sending # 0
        /\ sent' = sent \/ sent' = Append(sent, sending)
    BY <1>a, <1>4 DEF SendReturns
  <2>2. FeedInOrder' /\ Gone' = Gone
    BY <2>1 DEF InOrder, FeedInOrder, Gone
  <2>3. CASE sent' = sent
    BY <2>1, <2>2, <2>3 DEF InOrder, SentInOrder, HeldInOrder
  <2>4. CASE sent' = Append(sent, sending)
    <3>1. /\ Len(sent') = Len(sent) + 1 /\ sent'[Len(sent) + 1] = sending /\ Len(sent) \in Nat
          /\ \A i \in 1..Len(sent) : sent'[i] = sent[i] /\ sent[i] \in Int
      BY <1>a, <2>4
    <3>2. Below(sent, sending) /\ sending <= Gone /\ Increasing(sent) /\ Below(sent, Gone + 1)
      BY <2>1 DEF InOrder, SentInOrder, HeldInOrder
    <3>3. Increasing(sent')
      <4> SUFFICES ASSUME NEW i \in 1..Len(sent'), NEW j \in 1..Len(sent'), i < j
                   PROVE  sent'[i] < sent'[j]
        BY DEF Increasing
      <4>1. i \in 1..Len(sent) /\ (j \in 1..Len(sent) \/ j = Len(sent) + 1)
        BY <3>1
      <4>2. CASE j \in 1..Len(sent)
        BY <3>1, <3>2, <4>1, <4>2 DEF Increasing
      <4>3. CASE j = Len(sent) + 1
        BY <3>1, <3>2, <4>1, <4>3 DEF Below
      <4> QED BY <4>1, <4>2, <4>3
    <3>4. Below(sent', Gone + 1)
      <4> SUFFICES ASSUME NEW i \in 1..Len(sent') PROVE sent'[i] < Gone + 1
        BY DEF Below
      <4>1. i \in 1..Len(sent) \/ i = Len(sent) + 1
        BY <3>1
      <4> QED BY <1>a, <3>1, <3>2, <4>1 DEF Below
    <3> QED BY <2>1, <2>2, <3>3, <3>4 DEF InOrder, SentInOrder, HeldInOrder
  <2> QED BY <2>1, <2>3, <2>4
<1>5. CASE SendCancelled
  <2>1. feed' = feed /\ fed' = fed /\ sending' = 0 /\ sent' = sent
    BY <1>5 DEF SendCancelled
  <2> QED BY <2>1 DEF InOrder, FeedInOrder, SentInOrder, HeldInOrder, Gone
<1>6. CASE Message \/ MessageRaises \/ Recv \/ Aclose \/ Close \/ CloseCancelled
  BY <1>b, <1>6 DEF Message, MessageRaises, Recv, SocketDies, BackedOff, Reopened,
     ReopenFails, RecvCancelled, Aclose, Close, Reaped, SocketClosed, CloseCancelled, sendVars
<1>7. CASE UNCHANGED vars
  BY <1>b, <1>7 DEF vars
<1> QED
  BY <1>1, <1>2, <1>3, <1>4, <1>5, <1>6, <1>7 DEF Next

LEMMA Joined ==
  ASSUME NEW s \in Seq(Int), NEW t \in Seq(Int), Increasing(s), Increasing(t),
         \A i \in 1..Len(s), j \in 1..Len(t) : s[i] < t[j]
  PROVE  s \o t \in Seq(Int) /\ Increasing(s \o t)
<1>1. /\ s \o t \in Seq(Int) /\ Len(s \o t) = Len(s) + Len(t)
      /\ Len(s) \in Nat /\ Len(t) \in Nat
      /\ \A k \in 1..Len(s) + Len(t) : (s \o t)[k] = IF k <= Len(s) THEN s[k] ELSE t[k - Len(s)]
  BY ConcatProperties, LenProperties
<1>2. ASSUME NEW i \in 1..Len(s) + Len(t), NEW j \in 1..Len(s) + Len(t), i < j
      PROVE  (s \o t)[i] < (s \o t)[j]
  <2>1. CASE j <= Len(s)
    BY <1>1, <1>2, <2>1 DEF Increasing
  <2>2. CASE i <= Len(s) /\ j > Len(s)
    BY <1>1, <1>2, <2>2
  <2>3. CASE i > Len(s)
    <3>1. /\ (s \o t)[i] = t[i - Len(s)] /\ (s \o t)[j] = t[j - Len(s)]
          /\ i - Len(s) \in 1..Len(t) /\ j - Len(s) \in 1..Len(t) /\ i - Len(s) < j - Len(s)
      BY <1>1, <1>2, <2>3
    <3> QED BY <3>1 DEF Increasing
  <2> QED BY <1>1, <2>1, <2>2, <2>3
<1> QED
  BY <1>1, <1>2 DEF Increasing

\* The feed is always the newest frames without a gap, and the provider hears
\* frames in order and none twice.
THEOREM FeedIsTheNewest == Spec => []FeedIsNewest
<1>1. Init => InOrder
  BY DEF Init, InOrder, FeedInOrder, SentInOrder, HeldInOrder, Gone, Increasing, Below
<1>2. Typed /\ InOrder => FeedIsNewest
  <2> SUFFICES ASSUME Typed, InOrder PROVE FeedIsNewest
    OBVIOUS
  <2> DEFINE held == IF sending = 0 THEN <<>> ELSE <<sending>>
  <2>1. /\ sent \in Seq(Int) /\ held \in Seq(Int) /\ feed \in Seq(Int)
        /\ Increasing(sent) /\ Increasing(held) /\ Increasing(feed)
    <3>1. sent \in Seq(Int) /\ feed \in Seq(Int) /\ sending \in Int
      BY SttConstants DEF Typed, TypeOK
    <3>2. held \in Seq(Int) /\ Increasing(held)
      BY <3>1 DEF Increasing
    <3>3. Increasing(feed)
      BY <3>1 DEF Typed, TypeOK, InOrder, FeedInOrder, Increasing, Gone
    <3> QED BY <3>1, <3>2, <3>3 DEF InOrder, SentInOrder
  <2>2. \A i \in 1..Len(sent), j \in 1..Len(held) : sent[i] < held[j]
    BY DEF Typed, TypeOK, InOrder, SentInOrder, HeldInOrder, FeedInOrder, Below
  <2>3. sent \o held \in Seq(Int) /\ Increasing(sent \o held)
    BY <2>1, <2>2, Joined
  <2>4. \A i \in 1..Len(sent \o held), j \in 1..Len(feed) : (sent \o held)[i] < feed[j]
    <3>1. /\ sending \in Nat /\ Gone \in Nat /\ \A j \in 1..Len(feed) : feed[j] = Gone + j
          /\ Below(sent, Gone + 1) /\ (sending # 0 => sending <= Gone)
      BY DEF Typed, TypeOK, InOrder, SentInOrder, HeldInOrder, FeedInOrder, Gone
    <3>2. /\ Len(sent) \in Nat /\ Len(held) \in {0, 1} /\ Len(feed) \in Nat
          /\ Len(held) = 1 => held[1] = sending /\ sending # 0
      BY <2>1
    <3> HIDE DEF held
    <3>3. /\ Len(sent \o held) = Len(sent) + Len(held)
          /\ \A i \in 1..Len(sent) + Len(held) :
               (sent \o held)[i] = IF i <= Len(sent) THEN sent[i] ELSE held[i - Len(sent)]
      BY <2>1, ConcatProperties
    <3>4. \A i \in 1..Len(sent) + Len(held) : (sent \o held)[i] <= Gone
      <4> SUFFICES ASSUME NEW i \in 1..Len(sent) + Len(held) PROVE (sent \o held)[i] <= Gone
        OBVIOUS
      <4>1. CASE i \in 1..Len(sent)
        <5>1. sent[i] \in Int /\ sent[i] < Gone + 1
          BY <2>1, <3>1, <4>1 DEF Below
        <5> QED BY <3>1, <3>2, <3>3, <4>1, <5>1
      <4>2. CASE i = Len(sent) + 1 /\ Len(held) = 1
        BY <3>1, <3>2, <3>3, <4>2
      <4>3. i \in 1..Len(sent) \/ (i = Len(sent) + 1 /\ Len(held) = 1)
        <5>1. Len(sent) \in Nat /\ i \in 1..Len(sent) + Len(held) BY <3>2
        <5>2. CASE Len(held) = 0 BY <5>1, <5>2
        <5>3. CASE Len(held) = 1 BY <5>1, <5>3
        <5> QED BY <3>2, <5>2, <5>3
      <4> QED BY <4>1, <4>2, <4>3
    <3>5. \A i \in 1..Len(sent) + Len(held) : (sent \o held)[i] \in Int
      BY <2>3, <3>3, LenProperties
    <3> QED BY <3>1, <3>2, <3>3, <3>4, <3>5
  <2>5. Increasing((sent \o held) \o feed)
    BY <2>1, <2>3, <2>4, Joined
  <2> QED BY <2>5 DEF FeedIsNewest, Increasing, InOrder, FeedInOrder, Gone
<1> QED
  BY <1>1, <1>2, InOrderStep, TypedAlways, PTL DEF Spec

-----------------------------------------------------------------------------
(* The gate of InboundAudio *)

\* Behind the gate the STT client takes its own steps and no others, so that
\* what is proved of it above holds of every inbound call.
THEOREM GatedClientIsClient == InboundSpec => Spec
<1>1. InboundInit => Init
  BY DEF InboundInit
<1>2. [InboundNext]_inboundVars => [Next]_vars
  <2> SUFFICES ASSUME [InboundNext]_inboundVars PROVE [Next]_vars
    OBVIOUS
  <2>1. ASSUME NEW speech \in BOOLEAN, HandleAudio(speech) PROVE Next
    BY <2>1 DEF HandleAudio, Next
  <2>2. CASE Tick \/ SpeakStarts \/ SpeakStops
    BY <2>2 DEF Tick, SpeakStarts, SpeakStops
  <2>3. CASE Client
    BY <2>3 DEF Client, Next
  <2>4. CASE UNCHANGED inboundVars
    BY <2>4 DEF inboundVars
  <2> QED BY <2>1, <2>2, <2>3, <2>4 DEF InboundNext
<1> QED
  BY <1>1, <1>2, PTL DEF InboundSpec, Spec

\* The mute outlasts what is still to be heard of the agent: while it speaks the
\* last frame is Guard ahead, and afterwards only MaxGap of that may be lost.
Guarded ==
  /\ mute \in Nat /\ quiet \in Nat /\ gap \in 0..MaxGap
  /\ speaking \in BOOLEAN /\ witnessed \in BOOLEAN
  /\ HalfDuplex /\ witnessed /\ speaking => mute + gap >= Guard
  /\ HalfDuplex /\ witnessed /\ ~speaking => mute + quiet >= Guard - MaxGap
  /\ speaking => quiet = 0

\* Frames that carry the voice are not kept, and only kept frames are scored.
Silenced ==
  /\ fed \in Nat
  /\ echo \subseteq 1..fed /\ kept \subseteq 1..fed
  /\ echo \cap kept = {} /\ onsets \subseteq kept

LEMMA GuardedStart == InboundInit => Guarded /\ Silenced
<1> SUFFICES ASSUME InboundInit PROVE Guarded /\ Silenced
  OBVIOUS
<1>1. speaking \in BOOLEAN /\ witnessed \in BOOLEAN /\ ~speaking /\ ~witnessed
  BY Zenon DEF InboundInit
<1> QED BY <1>1, InboundConstants DEF InboundInit, Init, Guarded, Silenced

LEMMA GuardedStep == Guarded /\ [InboundNext]_inboundVars => Guarded'
<1> SUFFICES ASSUME Guarded, [InboundNext]_inboundVars PROVE Guarded'
  OBVIOUS
<1> USE InboundConstants DEF Guarded
<1>1. ASSUME NEW speech \in BOOLEAN, HandleAudio(speech) PROVE Guarded'
  <2>1. /\ gap' = 0 /\ speaking' = speaking /\ quiet' = quiet
        /\ mute' = IF HalfDuplex /\ speaking THEN Guard ELSE mute
    BY <1>1 DEF HandleAudio
  <2>2. witnessed' = (witnessed \/ speaking)
    BY <1>1 DEF HandleAudio
  <2>3. CASE speaking
    <3>1. witnessed' \in BOOLEAN /\ speaking'
      BY <2>1, <2>2, <2>3
    <3> QED BY <2>1, <2>3, <3>1
  <2>4. CASE ~speaking
    <3>1. witnessed' = witnessed
      BY <2>2, <2>4
    <3> QED BY <2>1, <2>4, <3>1
  <2> QED BY <2>3, <2>4
<1>2. CASE Tick
  BY <1>2 DEF Tick, Minus
<1>3. CASE SpeakStarts
  <2>1. speaking' \in BOOLEAN /\ witnessed' \in BOOLEAN /\ ~witnessed'
    BY <1>3, Zenon DEF SpeakStarts
  <2>2. quiet' = 0 /\ mute' = mute /\ gap' = gap
    BY <1>3 DEF SpeakStarts
  <2> QED BY <2>1, <2>2
<1>4. CASE SpeakStops
  <2>1. speaking' \in BOOLEAN /\ ~speaking' /\ speaking
    BY <1>4, Zenon DEF SpeakStops
  <2>2. mute' = mute /\ gap' = gap /\ quiet' = quiet /\ witnessed' = witnessed
    BY <1>4 DEF SpeakStops
  <2> QED BY <2>1, <2>2
<1>5. CASE UNCHANGED gateVars
  BY <1>5 DEF gateVars
<1> QED
  BY <1>1, <1>2, <1>3, <1>4, <1>5 DEF InboundNext, inboundVars

LEMMA SilencedStep ==
  Guarded /\ Silenced /\ [InboundNext]_inboundVars => Silenced'
<1> SUFFICES ASSUME Guarded, Silenced, [InboundNext]_inboundVars PROVE Silenced'
  OBVIOUS
<1> USE InboundConstants DEF Silenced
<1>1. ASSUME NEW speech \in BOOLEAN, HandleAudio(speech) PROVE Silenced'
  <2>1. HalfDuplex /\ Echoing => Muted
    <3>1. CASE speaking
      BY <3>1 DEF Muted
    <3>2. ASSUME ~speaking, HalfDuplex, Echoing PROVE mute > 0
      BY <3>2 DEF Echoing, Guarded
    <3> QED BY <3>1, <3>2 DEF Muted
  <2>2. fed' = fed + 1
    BY <1>1 DEF HandleAudio, Feed
  <2>3. fed + 1 \notin echo /\ fed + 1 \notin kept
    OBVIOUS
  <2>4. CASE HalfDuplex /\ Echoing
    <3>1. echo' = echo \cup {fed + 1} /\ kept' = kept /\ onsets' = onsets
      BY <1>1, <2>1, <2>4 DEF HandleAudio
    <3> QED BY <2>2, <2>3, <3>1
  <2>5. CASE ~(HalfDuplex /\ Echoing)
    <3>1. echo' = echo
      BY <1>1, <2>5 DEF HandleAudio
    <3>2. CASE Muted
      <4>1. kept' = kept /\ onsets' = onsets
        BY <1>1, <3>2 DEF HandleAudio
      <4> QED BY <2>2, <3>1, <4>1
    <3>3. CASE ~Muted
      <4>1. kept' = kept \cup {fed + 1} /\ onsets' \subseteq onsets \cup {fed + 1}
        BY <1>1, <3>3 DEF HandleAudio
      <4>2. echo' \subseteq 1..fed' /\ kept' \subseteq 1..fed' /\ fed' \in Nat
        BY <2>2, <3>1, <4>1
      <4>3. echo' \cap kept' = {}
        BY <2>3, <3>1, <4>1
      <4>4. onsets' \subseteq kept'
        BY <4>1
      <4> QED BY <4>2, <4>3, <4>4
    <3> QED BY <3>2, <3>3
  <2> QED BY <2>4, <2>5
<1>2. CASE Tick \/ SpeakStarts \/ SpeakStops
  <2>1. UNCHANGED <<fed, echo, kept, onsets>>
    BY <1>2 DEF Tick, SpeakStarts, SpeakStops, vars, sendVars
  <2> QED BY <2>1
<1>3. CASE Client /\ UNCHANGED gateVars
  <2>1. fed' = fed
    BY <1>3 DEF Client, Connect, SendTakes, SendReturns, SendCancelled, Message, MessageRaises,
       Recv, SocketDies, BackedOff, Reopened, ReopenFails, RecvCancelled, Aclose, Close,
       Reaped, SocketClosed, CloseCancelled, recvVars, sendVars, closeVars
  <2> QED BY <1>3, <2>1 DEF gateVars
<1>4. CASE UNCHANGED inboundVars
  BY <1>4 DEF inboundVars, vars, sendVars, gateVars
<1> QED
  BY <1>1, <1>2, <1>3, <1>4 DEF InboundNext

\* In half duplex the agent never hears itself, for every guard and every pace of
\* the frames: the margin it needs is the longest time between two of them.
THEOREM EchoIsSilenced == InboundSpec => []EchoSilenced
<1>1. Silenced => EchoSilenced
  BY DEF Silenced, EchoSilenced
<1> QED
  BY <1>1, GuardedStart, GuardedStep, SilencedStep, PTL DEF InboundSpec

=============================================================================
