-------------------------- MODULE TtsClientProofs --------------------------
(***************************************************************************)
(* Proofs about one synthesis, for replies of any length and frames of any *)
(* size: whatever the provider sends and whenever the speaker goes away, a *)
(* generator that is over has closed its socket and reaped its pump, and a *)
(* reply that came whole was yielded whole.                                *)
(***************************************************************************)
EXTENDS TtsClient, TLAPS

\* What the finally block leaves behind.
Teardown ==
  /\ gen = "connecting" => ws = "none"
  /\ gen \in {"texting", "getting", "collecting", "closing"} => ws = "open"
  /\ gen = "yielding" => ws = IF streaming THEN "open" ELSE "closed"
  /\ gen \in {"getting", "reaping"} => streaming
  /\ gen \in {"collecting", "decoding"} => ~streaming
  /\ gen \in {"decoding", "reaping"} => ws = "closed"
  /\ ~streaming => pump = "none"
  /\ gen \in {"connecting", "texting", "collecting", "decoding"} => pump = "none"
  /\ TornDown

LEMMA TypeStart == Init => TypeOK
  BY TtsConstants DEF Init, TypeOK

LEMMA Leaving ==
  ASSUME TypeOK, NEW out \in {"ended", "failed", "cancelled"}, Leave(out)
  PROVE  /\ gen' = "closing" /\ outcome' \in {"none", "ended", "failed", "cancelled"}
         /\ feedq' \in Seq({Chunk, Eof})
  BY DEF TypeOK, Leave, Eof, Chunk

LEMMA TypeStep == TypeOK /\ [Next]_vars => TypeOK'
<1> SUFFICES ASSUME TypeOK, [Next]_vars PROVE TypeOK'
  OBVIOUS
<1> USE TtsConstants DEF TypeOK
<1>1. CASE ConnectReturns BY <1>1 DEF ConnectReturns
<1>2. CASE TextSent BY <1>2 DEF TextSent
<1>3. CASE TextFails BY <1>3, Leaving DEF TextFails
<1>4. CASE PumpChunk BY <1>4 DEF PumpChunk, Chunk, Eof
<1>5. CASE PumpEnds BY <1>5 DEF PumpEnds, Chunk, Eof
<1>6. CASE PumpCancelled BY <1>6 DEF PumpCancelled, Chunk, Eof
<1>7. CASE DecodesChunk BY <1>7 DEF DecodesChunk, Frame, Done
<1>8. CASE DecodesEnd
  <2>1. outq' \in Seq({Frame, Done(TRUE), Done(FALSE)})
    <3> DEFINE R == {Frame, Done(TRUE), Done(FALSE)}
               tail == IF have > 0 THEN <<Frame>> ELSE <<>>
               end == <<Done(FALSE)>>
    <3>1. Frame \in R /\ Done(FALSE) \in R /\ outq \in Seq(R)
      OBVIOUS
    <3>2. end \in Seq(R)
      BY <3>1
    <3>3. tail \in Seq(R)
      <4>1. <<Frame>> \in Seq(R) /\ <<>> \in Seq(R)
        BY <3>1
      <4> QED BY <4>1
    <3>4. outq' = outq \o tail \o end
      <4> HIDE DEF TypeOK
      <4> QED BY Zenon, <1>8 DEF DecodesEnd
    <3> HIDE DEF R, tail, end
    <3>5. outq' \in Seq(R)
      BY <3>1, <3>2, <3>3, <3>4
    <3> QED BY <3>5 DEF R
  <2>2. /\ feedq \in Seq({Chunk, Eof}) /\ feedq # <<>>
        /\ feedq' = Tail(feedq) /\ have' = 0 /\ decoder' = "ended"
        /\ UNCHANGED <<streaming, gen, outcome, ws, pump, received, yielded, reason>>
    BY <1>8 DEF DecodesEnd
  <2>3. feedq' \in Seq({Chunk, Eof}) /\ have' \in 0..FrameChunks - 1
    BY <2>2
  <2>4. /\ outq' \in Seq({Frame, Done(TRUE), Done(FALSE)})'
        /\ feedq' \in Seq({Chunk, Eof})' /\ have' \in (0..FrameChunks - 1)'
    BY Zenon, <2>1, <2>3 DEF Frame, Done, Chunk, Eof
  <2>5. decoder' \in {"none", "running", "ended", "failed"}
    BY Zenon, <2>2
  <2>6. /\ streaming' \in Streaming
        /\ gen' \in {"connecting", "texting", "getting", "collecting", "decoding",
                       "yielding", "closing", "reaping", "over"}
        /\ outcome' \in {"none", "ended", "failed", "cancelled"}
        /\ ws' \in {"none", "open", "closed", "left"} /\ pump' \in {"none", "receiving", "ended"}
        /\ received' \in 0..MaxChunks /\ yielded' \in Nat
        /\ reason' \in {"none", "final", "error", "timeout", "broken", "cancelled"}
    BY Zenon, <2>2
  <2> QED BY Zenon, <2>4, <2>5, <2>6
<1>9. CASE DecodeFails BY <1>9 DEF DecodeFails, Frame, Done
<1>10. CASE TakesFrame BY <1>10 DEF TakesFrame
<1>11. CASE TakesDone
  <2> DEFINE out == IF Head(outq) = Done(TRUE) /\ yielded = 0 THEN "failed" ELSE "ended"
  <2>1. /\ Leave(out) /\ outq # <<>> /\ outq' = Tail(outq)
        /\ UNCHANGED <<streaming, ws, pump, decoder, have, received, yielded, reason>>
    BY <1>11 DEF TakesDone
  <2>2. out \in {"ended", "failed", "cancelled"}
    OBVIOUS
  <2>3. outq' \in Seq({Frame, Done(TRUE), Done(FALSE)})
    BY <2>1
  <2> HIDE DEF out
  <2> QED BY <2>1, <2>2, <2>3, Leaving
<1>12. CASE CollectsChunk BY <1>12 DEF CollectsChunk
<1>13. CASE CollectEnds BY <1>13, Leaving DEF CollectEnds
<1>14. CASE Decodes
  BY <1>14 DEF Decodes, FramesOf, Frame, Done
<1>15. CASE Resumes
  <2>1. outq' \in Seq({Frame, Done(TRUE), Done(FALSE)})
    BY <1>15 DEF Resumes
  <2>2. gen' \in {"getting", "yielding", "over"} /\ outcome' \in {outcome, "ended"}
        /\ yielded' \in {yielded, yielded + 1}
        /\ UNCHANGED <<streaming, ws, pump, feedq, decoder, have, received, reason>>
    BY <1>15 DEF Resumes
  <2> QED BY <2>1, <2>2
<1>16. CASE Abandoned BY <1>16, Leaving DEF Abandoned
<1>17. CASE SocketClosed BY <1>17 DEF SocketClosed, AfterClose
<1>18. CASE CloseCancelled BY <1>18 DEF CloseCancelled
<1>19. CASE PumpReaped BY <1>19 DEF PumpReaped
<1>20. CASE UNCHANGED vars BY <1>20 DEF vars
<1> QED
  BY <1>1, <1>2, <1>3, <1>4, <1>5, <1>6, <1>7, <1>8, <1>9, <1>10, <1>11, <1>12, <1>13,
     <1>14, <1>15, <1>16, <1>17, <1>18, <1>19, <1>20
  DEF Next, Pump, Decoder, Generator

\* Every state of a synthesis is well typed, for every number of chunks and every
\* size of a frame.
THEOREM TypeCorrect == Spec => []TypeOK
  BY TypeStart, TypeStep, PTL DEF Spec

-----------------------------------------------------------------------------

LEMMA TeardownStart == Init => Teardown
  BY DEF Init, Teardown, TornDown

LEMMA TeardownStep == TypeOK /\ Teardown /\ [Next]_vars => Teardown'
<1> SUFFICES ASSUME TypeOK, Teardown, [Next]_vars PROVE Teardown'
  OBVIOUS
<1> USE DEF Teardown, TornDown
<1>1. CASE ConnectReturns BY <1>1 DEF ConnectReturns
<1>2. CASE TextSent BY <1>2 DEF TextSent
<1>3. CASE TextFails BY <1>3 DEF TextFails, Leave
<1>4. CASE Pump
  BY <1>4 DEF Pump, PumpChunk, PumpEnds, PumpCancelled, PumpLives
<1>5. CASE Decoder
  <2>1. UNCHANGED <<streaming, gen, ws, pump>>
    BY <1>5 DEF Decoder, DecodesChunk, DecodesEnd, DecodeFails
  <2> QED BY <2>1
<1>6. CASE TakesFrame BY <1>6 DEF TakesFrame
<1>7. CASE TakesDone BY <1>7 DEF TakesDone, Leave
<1>8. CASE CollectsChunk BY <1>8 DEF CollectsChunk
<1>9. CASE CollectEnds BY <1>9 DEF CollectEnds, Leave
<1>10. CASE Decodes BY <1>10 DEF Decodes
<1>11. CASE Resumes BY <1>11 DEF Resumes
<1>12. CASE Abandoned BY <1>12 DEF Abandoned, Leave
<1>13. CASE SocketClosed BY <1>13 DEF SocketClosed, AfterClose
<1>14. CASE CloseCancelled BY <1>14 DEF CloseCancelled
<1>15. CASE PumpReaped BY <1>15 DEF PumpReaped
<1>16. CASE UNCHANGED vars BY <1>16 DEF vars
<1> QED
  BY <1>1, <1>2, <1>3, <1>4, <1>5, <1>6, <1>7, <1>8, <1>9, <1>10, <1>11, <1>12, <1>13,
     <1>14, <1>15, <1>16
  DEF Next, Generator

\* Wherever a barge-in cancels the generator, it is over only after its socket was
\* closed and its pump has ended, unless it was cancelled again while closing.
THEOREM SynthesisTornDown == Spec => []TornDown
<1>1. Teardown => TornDown
  BY DEF Teardown
<1> QED
  BY <1>1, TypeStart, TypeStep, TeardownStart, TeardownStep, PTL DEF Spec

-----------------------------------------------------------------------------
(* Chunks and frames                                                       *)

\* A number of chunks is its whole frames and a rest, in one way only.
LEMMA Divided ==
  ASSUME NEW c \in Nat
  PROVE  /\ c \div FrameChunks \in Nat /\ c % FrameChunks \in 0..FrameChunks - 1
         /\ c = FrameChunks * (c \div FrameChunks) + (c % FrameChunks)
<1> DEFINE q == c \div FrameChunks
           r == c % FrameChunks
           m == FrameChunks * q
<1>1. FrameChunks \in Int /\ FrameChunks > 0
  BY TtsConstants
<1>2. q \in Nat /\ r \in 0..FrameChunks - 1
  BY TtsConstants
<1>3. ASSUME NEW n \in Int, NEW d \in Int, d > 0
      PROVE  n % d = n - d * (n \div d)
  BY <1>3
<1>4. r = c - m
  BY <1>1, <1>3
<1> HIDE DEF q, r
<1>5. m \in Int
  BY <1>1, <1>2
<1> HIDE DEF m
<1>6. c = m + r
  BY <1>2, <1>4, <1>5
<1> QED BY <1>2, <1>6 DEF q, r, m

LEMMA DividedOneWay ==
  ASSUME NEW c \in Nat, NEW q \in Nat, NEW r \in 0..FrameChunks - 1,
         c = FrameChunks * q + r
  PROVE  c \div FrameChunks = q /\ c % FrameChunks = r
<1> DEFINE F == FrameChunks
           p == c \div F
           s == c % F
<1>1. F \in Nat /\ F > 0
  BY TtsConstants
<1>2. p \in Nat /\ s \in 0..F - 1 /\ F * q + r = F * p + s
  BY Divided
<1>3. ASSUME NEW a \in Nat, NEW b \in Nat, a < b PROVE F * a + F <= F * b
  <2>1. PICK k \in Nat : b = a + 1 + k
    <3>1. b = a + 1 + (b - a - 1) /\ b - a - 1 \in Nat
      BY <1>3
    <3> QED BY <3>1
  <2>2. F * b = F * a + F + F * k
    BY <2>1, <1>1
  <2>3. F * k \in Nat /\ F * a \in Nat
    BY <1>1
  <2> QED BY <2>2, <2>3, <1>1
<1> HIDE DEF p, s, F
<1>4. F * q \in Nat /\ F * p \in Nat /\ r \in Nat /\ s \in Nat /\ r < F /\ s < F
  BY <1>1, <1>2 DEF F
<1>5. ~(q < p) /\ ~(p < q)
  BY <1>1, <1>2, <1>3, <1>4
<1>6. q = p /\ r = s
  BY <1>2, <1>4, <1>5
<1> QED BY <1>6 DEF p, s, F

\* With one more chunk the decoder has one more frame, or one more chunk towards it.
LEMMA OneMore ==
  ASSUME NEW c \in Nat
  PROVE  /\ ((c % FrameChunks) + 1) % FrameChunks = (c + 1) % FrameChunks
         /\ (c + 1) \div FrameChunks
              = c \div FrameChunks + IF (c + 1) % FrameChunks = 0 THEN 1 ELSE 0
<1> DEFINE F == FrameChunks
           q == c \div F
           r == c % F
<1>1. F \in Nat /\ F > 0 /\ q \in Nat /\ r \in 0..F - 1 /\ c = F * q + r
  BY TtsConstants, Divided
<1> HIDE DEF q, r, F
<1>2. F * q \in Nat /\ F * (q + 1) = F * q + F /\ F * 0 = 0 /\ F * 1 = F
  BY <1>1
<1>3. CASE r + 1 < F
  <2>1. r + 1 \in 0..F - 1 /\ c + 1 = F * q + (r + 1) /\ r + 1 = F * 0 + (r + 1)
    BY <1>1, <1>2, <1>3
  <2>2. (c + 1) \div F = q /\ (c + 1) % F = r + 1 /\ (r + 1) % F = r + 1
    BY <1>1, <2>1, DividedOneWay DEF F
  <2>3. (c + 1) % F # 0
    BY <1>1, <2>2
  <2> QED BY <2>2, <2>3, <1>1 DEF F, q, r
<1>4. CASE r + 1 = F
  <2>1. 0 \in 0..F - 1 /\ c + 1 = F * (q + 1) + 0 /\ r + 1 = F * 1 + 0 /\ q + 1 \in Nat
    BY <1>1, <1>2, <1>4
  <2>2. (c + 1) \div F = q + 1 /\ (c + 1) % F = 0 /\ (r + 1) % F = 0
    BY <1>1, <2>1, DividedOneWay DEF F
  <2> QED BY <2>2, <1>1 DEF F, q, r
<1> QED BY <1>1, <1>3, <1>4

\* A reply has its whole frames, and one for a tail.
LEMMA FramesCount ==
  ASSUME NEW c \in Nat
  PROVE  FramesOf(c) = c \div FrameChunks + IF c % FrameChunks > 0 THEN 1 ELSE 0
<1> DEFINE F == FrameChunks
           q == c \div F
           r == c % F
<1>1. F \in Nat /\ F > 0 /\ q \in Nat /\ r \in 0..F - 1 /\ c = F * q + r
  BY TtsConstants, Divided
<1> HIDE DEF q, r, F
<1>2. c + F - 1 \in Nat /\ F * q \in Nat /\ F * (q + 1) = F * q + F
  BY <1>1
<1>3. FramesOf(c) = (c + F - 1) \div F
  BY DEF FramesOf, F
<1>4. CASE r = 0
  <2>1. c + F - 1 = F * q + (F - 1) /\ F - 1 \in 0..F - 1
    BY <1>1, <1>2, <1>4
  <2>2. FramesOf(c) = q
    BY <1>1, <1>2, <1>3, <2>1, DividedOneWay DEF F
  <2> QED BY <2>2, <1>1, <1>4 DEF F, q, r
<1>5. CASE r > 0
  <2>1. c + F - 1 = F * (q + 1) + (r - 1) /\ r - 1 \in 0..F - 1 /\ q + 1 \in Nat
    BY <1>1, <1>2, <1>5
  <2>2. FramesOf(c) = q + 1
    BY <1>1, <1>2, <1>3, <2>1, DividedOneWay DEF F
  <2> QED BY <2>2, <1>1, <1>5 DEF F, q, r
<1> QED BY <1>1, <1>4, <1>5

\* More chunks never make fewer frames.
LEMMA WholeFramesGrow ==
  ASSUME NEW c \in Nat, NEW d \in Nat, c <= d
  PROVE  c \div FrameChunks <= d \div FrameChunks
<1> DEFINE F == FrameChunks
           q == c \div F
           p == d \div F
           r == c % F
           s == d % F
<1>1. /\ F \in Nat /\ F > 0 /\ q \in Nat /\ p \in Nat
      /\ r \in 0..F - 1 /\ s \in 0..F - 1
      /\ c = F * q + r /\ d = F * p + s
  BY TtsConstants, Divided
<1> HIDE DEF q, p, r, s, F
<1>2. ASSUME p < q PROVE FALSE
  <2>1. PICK k \in Nat : q = p + 1 + k
    <3>1. q = p + 1 + (q - p - 1) /\ q - p - 1 \in Nat
      BY <1>1, <1>2
    <3> QED BY <3>1
  <2>2. F * q = F * p + F + F * k
    BY <1>1, <2>1
  <2>3. F * k \in Nat /\ F * p \in Nat
    BY <1>1, <2>1
  <2>4. F * q + r > F * p + s
    BY <1>1, <2>2, <2>3
  <2> QED BY <1>1, <2>4
<1>3. q <= p
  BY <1>1, <1>2
<1> QED BY <1>3 DEF q, p, F

LEMMA FramesGrow ==
  ASSUME NEW c \in Nat, NEW d \in Nat, c <= d
  PROVE  /\ FramesOf(c) \in Nat /\ c \div FrameChunks <= FramesOf(d)
         /\ FramesOf(c) <= FramesOf(d)
<1>1. /\ c \div FrameChunks <= d \div FrameChunks
      /\ c \div FrameChunks \in Nat /\ d \div FrameChunks \in Nat
  BY WholeFramesGrow, Divided
<1>2. c \div FrameChunks <= FramesOf(d) /\ FramesOf(c) \in Nat
  BY <1>1, FramesCount
<1>3. /\ c + FrameChunks - 1 \in Nat /\ d + FrameChunks - 1 \in Nat
      /\ c + FrameChunks - 1 <= d + FrameChunks - 1
  BY TtsConstants
<1>4. FramesOf(c) <= FramesOf(d)
  BY <1>3, WholeFramesGrow DEF FramesOf
<1> QED BY <1>2, <1>4

\* Some chunks, and one of a frame at least if there is any.
LEMMA SomeFrame ==
  ASSUME NEW c \in Nat, c > 0
  PROVE  FramesOf(c) >= 1
<1> DEFINE q == c \div FrameChunks
           r == c % FrameChunks
<1>1. /\ q \in Nat /\ r \in 0..FrameChunks - 1 /\ c = FrameChunks * q + r
      /\ FrameChunks \in Nat
  BY TtsConstants, Divided
<1>2. FramesOf(c) = q + IF r > 0 THEN 1 ELSE 0
  BY FramesCount
<1> HIDE DEF q, r
<1>3. q > 0 \/ r > 0
  <2>1. CASE q = 0
    <3>1. FrameChunks * 0 = 0
      BY <1>1
    <3> QED BY <1>1, <2>1, <3>1
  <2> QED BY <1>1, <2>1
<1> QED BY <1>1, <1>2, <1>3

-----------------------------------------------------------------------------
(* What was received, and what was yielded of it                           *)

\* The decoder has said its last, and the generator has not heard it.
Reported == decoder \in {"ended", "failed"} /\ outq # <<>>

\* Frames that wait for the generator: all of out_q but the decoder's end.
Queued == IF Reported THEN Len(outq) - 1 ELSE Len(outq)

Framed ==
  /\ \A i \in 1..Queued : outq[i] = Frame
  /\ Reported => outq[Len(outq)] # Frame

\* In the feed the chunks come first, n of them, and end marks follow.
FedInOrder(q, n) ==
  /\ \A i \in 1..n : q[i] = Chunk
  /\ \A i \in n + 1..Len(q) : q[i] = Eof

\* With n chunks still to decode: a decoder that runs has made the whole frames of
\* the others, and one that has ended has made every frame.
Decoding(n) ==
  /\ FedInOrder(feedq, n)
  /\ decoder = "running" =>
       /\ n <= received /\ have = (received - n) % FrameChunks
       /\ yielded + Queued = (received - n) \div FrameChunks
  /\ decoder = "ended" => n = 0 /\ yielded + Queued = FramesOf(received)

\* Inductive, with Stages: no end mark precedes a chunk, so the decoder ends only
\* after all of the reply.
Accounts ==
  /\ PumpLives => (\A i \in 1..Len(feedq) : feedq[i] = Chunk) /\ decoder # "ended"
  /\ \E n \in 0..Len(feedq) : Decoding(n)
  /\ Framed
  /\ yielded + Queued <= FramesOf(received)

\* What there can be at each place where the generator awaits.
Stages ==
  /\ streaming => (decoder = "none" <=> pump = "none")
  /\ ~streaming => decoder = "none" /\ feedq = <<>>
  /\ /\ decoder = "none"
     /\ streaming \/ gen \in {"connecting", "texting", "collecting", "closing", "decoding"}
     => yielded = 0 /\ outq = <<>>
  /\ decoder = "none" /\ streaming =>
       /\ received = 0 /\ have = 0 /\ outcome # "ended"
       /\ gen \in {"connecting", "texting", "closing", "over"}
  /\ decoder = "none" /\ gen \notin {"closing", "over"} => feedq = <<>>
  /\ outcome # "none" => gen \in {"closing", "reaping", "over"}
  /\ gen = "decoding" => received > 0
  /\ streaming /\ outcome = "ended" => decoder \in {"ended", "failed"} /\ outq = <<>>
  /\ ~streaming /\ gen = "yielding" => yielded + Len(outq) = FramesOf(received)
  /\ ~streaming /\ gen = "over" /\ outcome = "ended" => yielded = FramesOf(received)

LEMMA NoFrames == FramesOf(0) = 0
<1>1. 0 \in Nat /\ 0 \in 0..FrameChunks - 1 /\ 0 = FrameChunks * 0 + 0
  BY TtsConstants
<1>2. 0 \div FrameChunks = 0 /\ 0 % FrameChunks = 0
  BY <1>1, DividedOneWay
<1> QED BY <1>1, <1>2, FramesCount

LEMMA QueuedIsNat == TypeOK => Queued \in Nat
  BY DEF TypeOK, Queued, Reported

LEMMA ReplyStart == Init => Accounts /\ Stages
<1> SUFFICES ASSUME Init PROVE Accounts /\ Stages
  OBVIOUS
<1>1. Stages
  BY DEF Init, Stages
<1>2. Queued = 0 /\ ~Reported /\ ~PumpLives
  BY DEF Init, Queued, Reported, PumpLives
<1>3. 0 \in 0..Len(feedq) /\ Decoding(0)
  BY DEF Init, Decoding, FedInOrder
<1>4. Framed /\ yielded + Queued <= FramesOf(received)
  BY <1>2, NoFrames DEF Init, Framed
<1> QED BY <1>1, <1>2, <1>3, <1>4 DEF Accounts

LEMMA StagesStep ==
  TypeOK /\ Teardown /\ Accounts /\ Stages /\ [Next]_vars => Stages'
<1> SUFFICES ASSUME TypeOK, Teardown, Accounts, Stages, [Next]_vars PROVE Stages'
  OBVIOUS
<1> USE DEF Stages
<1>1. CASE ConnectReturns BY <1>1 DEF ConnectReturns, Teardown
<1>2. CASE TextSent BY <1>2 DEF TextSent, Teardown
<1>3. CASE TextFails BY <1>3 DEF TextFails, Leave
<1>4. CASE Pump
  <2>1. streaming /\ pump # "none" /\ pump' # "none"
    BY <1>4 DEF Pump, PumpChunk, PumpEnds, PumpCancelled, PumpLives, Teardown
  <2>2. received' = received \/ gen \notin {"over", "closing", "reaping", "decoding"}
    BY <1>4, <2>1 DEF Pump, PumpChunk, PumpEnds, PumpCancelled, PumpLives, Teardown
  <2>3. UNCHANGED <<streaming, gen, outcome, ws, decoder, outq, yielded>>
    BY <1>4 DEF Pump, PumpChunk, PumpEnds, PumpCancelled
  <2> QED BY <2>1, <2>2, <2>3 DEF Teardown
<1>5. CASE Decoder
  <2>1. decoder = "running" /\ decoder' \in {"running", "ended", "failed"}
    BY <1>5 DEF Decoder, DecodesChunk, DecodesEnd, DecodeFails
  <2>2. UNCHANGED <<streaming, gen, outcome, ws, pump, received, yielded>>
    BY <1>5 DEF Decoder, DecodesChunk, DecodesEnd, DecodeFails
  <2> QED BY <2>1, <2>2
<1>6. CASE TakesFrame BY <1>6 DEF TakesFrame, Teardown
<1>7. CASE TakesDone
  <2>1. streaming /\ gen = "getting" /\ outq # <<>> /\ outq[1] # Frame /\ outq' = Tail(outq)
    BY <1>7 DEF TakesDone, Teardown
  <2>2. Len(outq) \in Nat /\ Len(outq) >= 1
    BY <2>1 DEF TypeOK
  <2>3. ~(1 \in 1..Queued)
    BY <2>1 DEF Accounts, Framed
  <2>4. Reported
    <3>1. ~Reported => 1 \in 1..Queued
      BY <2>2 DEF Queued
    <3> QED BY <2>3, <3>1
  <2>5. Len(outq) = 1
    <3>1. Queued = Len(outq) - 1
      BY <2>4 DEF Queued
    <3> QED BY <2>2, <2>3, <3>1
  <2>6. outq' = <<>> /\ decoder \in {"ended", "failed"}
    BY <2>1, <2>4, <2>5 DEF Reported, TypeOK
  <2> QED BY <1>7, <2>1, <2>6 DEF TakesDone, Leave
<1>8. CASE CollectsChunk BY <1>8 DEF CollectsChunk, Teardown
<1>9. CASE CollectEnds BY <1>9 DEF CollectEnds, Leave, Teardown
<1>10. CASE Decodes
  <2>1. ~streaming /\ received \in Nat /\ received > 0
        /\ FramesOf(received) \in Nat /\ FramesOf(received) - 1 \in Nat
    BY <1>10, SomeFrame, FramesGrow DEF Decodes, TypeOK, Teardown
  <2>2. CASE gen' = "yielding"
    <3>1. outq' = [i \in 1..FramesOf(received) - 1 |-> Frame] /\ yielded' = 1
          /\ outcome' = outcome
      BY <1>10, <2>2 DEF Decodes
    <3>2. Len(outq') = FramesOf(received) - 1
      BY <2>1, <3>1
    <3>3. yielded' + Len(outq') = FramesOf(received)
      <4>1. yielded' = 1
        BY <3>1
      <4> QED BY <2>1, <3>2, <4>1
    <3>4. UNCHANGED <<streaming, pump, decoder, feedq, received>> /\ gen = "decoding"
      BY <1>10 DEF Decodes
    <3>5. outcome' = "none"
      BY <3>1, <3>4
    <3>6. FramesOf(received)' = FramesOf(received)
      BY <3>4 DEF FramesOf
    <3> QED BY <2>1, <2>2, <3>3, <3>4, <3>5, <3>6
  <2>3. CASE gen' = "over"
    BY <1>10, <2>1, <2>3 DEF Decodes
  <2> QED BY <1>10, <2>2, <2>3 DEF Decodes
<1>11. CASE Resumes
  <2>1. gen = "yielding" /\ outcome = "none"
        /\ UNCHANGED <<streaming, ws, pump, feedq, decoder, have, received, reason>>
    BY <1>11 DEF Resumes
  <2>2. CASE streaming
    BY <1>11, <2>1, <2>2 DEF Resumes
  <2>3. CASE ~streaming /\ outq # <<>>
    <3>1. Len(outq') = Len(outq) - 1 /\ yielded' = yielded + 1 /\ gen' = "yielding"
          /\ outcome' = "none"
      BY <1>11, <2>1, <2>3 DEF Resumes, TypeOK
    <3>2. yielded' + Len(outq') = FramesOf(received)
      BY <2>1, <2>3, <3>1 DEF TypeOK
    <3>3. FramesOf(received)' = FramesOf(received)
      BY <2>1 DEF FramesOf
    <3> QED BY <2>1, <2>3, <3>1, <3>2, <3>3
  <2>4. CASE ~streaming /\ outq = <<>>
    <3>1. yielded' = yielded /\ outq' = outq /\ gen' = "over" /\ outcome' = "ended"
      BY <1>11, <2>1, <2>4 DEF Resumes
    <3>2. yielded = FramesOf(received)
      BY <2>1, <2>4 DEF TypeOK
    <3>3. FramesOf(received)' = FramesOf(received)
      BY <2>1 DEF FramesOf
    <3> QED BY <2>1, <2>4, <3>1, <3>2, <3>3
  <2> QED BY <2>2, <2>3, <2>4
<1>12. CASE Abandoned
  <2>1. outcome' = "cancelled" /\ gen' \in {"closing", "over"}
        /\ UNCHANGED <<streaming, ws, pump, decoder, have, outq, received, yielded>>
    BY <1>12 DEF Abandoned, Leave
  <2>2. gen' = "closing" => ws = "open"
    BY <1>12 DEF Abandoned, Leave
  <2>3. gen \in {"connecting", "texting", "getting", "collecting", "decoding", "yielding"}
    BY <1>12 DEF Abandoned
  <2>4. ~streaming /\ gen' = "closing" => gen \in {"texting", "collecting"}
    BY <2>2, <2>3 DEF Teardown
  <2>5. ~streaming => feedq' = feedq
    BY <1>12 DEF Abandoned, Leave
  <2> QED BY <2>1, <2>3, <2>4, <2>5
<1>13. CASE SocketClosed
  <2>1. gen = "closing"
        /\ UNCHANGED <<streaming, pump, feedq, decoder, have, outq, received, yielded>>
    BY <1>13 DEF SocketClosed
  <2>2. FramesOf(received)' = FramesOf(received)
    BY <2>1 DEF FramesOf
  <2>3. CASE streaming
    BY <1>13, <2>1, <2>2, <2>3 DEF SocketClosed, AfterClose
  <2>4. CASE ~streaming /\ outcome = "ended" /\ received > 0
    BY <1>13, <2>1, <2>2, <2>4 DEF SocketClosed, AfterClose
  <2>5. CASE ~streaming /\ ~(outcome = "ended" /\ received > 0)
    <3>1. gen' = "over" /\ outcome' = outcome
      BY <1>13, <2>5 DEF SocketClosed, AfterClose
    <3>2. outcome = "ended" => received = 0 /\ yielded = FramesOf(received)
      BY <2>1, <2>5, NoFrames DEF TypeOK
    <3> QED BY <2>1, <2>2, <2>5, <3>1, <3>2
  <2> QED BY <2>3, <2>4, <2>5
<1>14. CASE CloseCancelled BY <1>14 DEF CloseCancelled
<1>15. CASE PumpReaped BY <1>15 DEF PumpReaped, Teardown
<1>16. CASE UNCHANGED vars BY <1>16 DEF vars, FramesOf
<1> QED
  BY <1>1, <1>2, <1>3, <1>4, <1>5, <1>6, <1>7, <1>8, <1>9, <1>10, <1>11, <1>12, <1>13,
     <1>14, <1>15, <1>16
  DEF Next, Generator

\* The feed in order stays so under what is done to it.
LEMMA MarkKeepsOrder ==
  ASSUME NEW q \in Seq({Chunk, Eof}), NEW n \in 0..Len(q), FedInOrder(q, n)
  PROVE  FedInOrder(Append(q, Eof), n)
<1>1. Len(Append(q, Eof)) = Len(q) + 1 /\ Append(q, Eof)[Len(q) + 1] = Eof
      /\ Len(q) \in Nat
  BY DEF Eof
<1>2. \A i \in 1..Len(q) : Append(q, Eof)[i] = q[i]
  BY DEF Eof
<1> QED BY <1>1, <1>2 DEF FedInOrder

LEMMA TakeKeepsOrder ==
  ASSUME NEW q \in Seq({Chunk, Eof}), q # <<>>, NEW n \in 0..Len(q), FedInOrder(q, n)
  PROVE  /\ Head(q) = Chunk => n > 0
         /\ Head(q) = Eof => n = 0
         /\ n > 0 => n - 1 \in 0..Len(Tail(q)) /\ FedInOrder(Tail(q), n - 1)
         /\ n = 0 => 0 \in 0..Len(Tail(q)) /\ FedInOrder(Tail(q), 0)
<1>1. Len(q) \in Nat /\ Len(q) > 0 /\ Len(Tail(q)) = Len(q) - 1 /\ Head(q) = q[1]
  OBVIOUS
<1>2. \A i \in 1..Len(q) - 1 : Tail(q)[i] = q[i + 1]
  OBVIOUS
<1>3. Head(q) = Chunk => n > 0
  BY <1>1 DEF FedInOrder, Chunk, Eof
<1>4. Head(q) = Eof => n = 0
  BY <1>1 DEF FedInOrder, Chunk, Eof
<1>5. ASSUME n > 0 PROVE n - 1 \in 0..Len(Tail(q)) /\ FedInOrder(Tail(q), n - 1)
  BY <1>1, <1>2, <1>5 DEF FedInOrder
<1>6. ASSUME n = 0 PROVE 0 \in 0..Len(Tail(q)) /\ FedInOrder(Tail(q), 0)
  BY <1>1, <1>2, <1>6 DEF FedInOrder
<1> QED BY <1>3, <1>4, <1>5, <1>6

\* A feed without end marks is chunks to its end.
LEMMA AllChunks ==
  ASSUME NEW q \in Seq({Chunk, Eof}), \A i \in 1..Len(q) : q[i] = Chunk,
         NEW n \in 0..Len(q), FedInOrder(q, n)
  PROVE  n = Len(q)
<1>1. Len(q) \in Nat
  OBVIOUS
<1>2. ~(n < Len(q))
  BY <1>1 DEF FedInOrder, Chunk, Eof
<1> QED BY <1>1, <1>2

\* What leaves the pump, the queues and the counts alone keeps the accounts.
LEMMA AccountsKept ==
  ASSUME Accounts, PumpLives' => PumpLives,
         UNCHANGED <<feedq, decoder, have, outq, received, yielded>>
  PROVE  Accounts'
<1>1. Reported' = Reported /\ Queued' = Queued
  BY DEF Reported, Queued
<1>2. FramesOf(received)' = FramesOf(received)
  BY DEF FramesOf
<1>3. Framed'
  BY <1>1 DEF Accounts, Framed
<1>4. PICK n \in 0..Len(feedq) : Decoding(n)
  BY DEF Accounts
<1>5. n \in 0..Len(feedq') /\ Decoding(n)'
  BY <1>1, <1>2, <1>4 DEF Decoding, FedInOrder
<1> QED BY <1>1, <1>2, <1>3, <1>5 DEF Accounts

\* And so does an end mark, once no chunk can follow it.
LEMMA MarkKept ==
  ASSUME TypeOK, Accounts, ~PumpLives', feedq' \in {feedq, Append(feedq, Eof)},
         UNCHANGED <<decoder, have, outq, received, yielded>>
  PROVE  Accounts'
<1>1. Reported' = Reported /\ Queued' = Queued
  BY DEF Reported, Queued
<1>2. FramesOf(received)' = FramesOf(received)
  BY DEF FramesOf
<1>3. Framed'
  BY <1>1 DEF Accounts, Framed
<1>4. PICK n \in 0..Len(feedq) : Decoding(n)
  BY DEF Accounts
<1>5. n \in 0..Len(feedq') /\ FedInOrder(feedq', n)
  <2>1. CASE feedq' = feedq
    BY <1>4, <2>1 DEF Decoding
  <2>2. CASE feedq' = Append(feedq, Eof)
    <3>1. feedq \in Seq({Chunk, Eof}) /\ FedInOrder(feedq, n)
      BY <1>4 DEF Decoding, TypeOK
    <3>2. FedInOrder(feedq', n)
      BY <2>2, <3>1, MarkKeepsOrder
    <3>3. Len(feedq') = Len(feedq) + 1 /\ Len(feedq) \in Nat
      BY <2>2, <3>1 DEF Eof
    <3> QED BY <3>2, <3>3
  <2> QED BY <2>1, <2>2
<1>6. Decoding(n)'
  <2>1. FedInOrder(feedq, n)'
    BY <1>5 DEF FedInOrder
  <2> QED BY <1>1, <1>2, <1>4, <2>1 DEF Decoding
<1> QED BY <1>1, <1>2, <1>3, <1>5, <1>6 DEF Accounts

LEMMA ChunkReceived ==
  ASSUME TypeOK, Accounts, PumpChunk
  PROVE  Accounts'
<1>1. /\ PumpLives /\ received' = received + 1 /\ feedq' = Append(feedq, Chunk)
      /\ UNCHANGED <<gen, pump, decoder, have, outq, yielded>>
  BY DEF PumpChunk
<1>2. Reported' = Reported /\ Queued' = Queued /\ Queued \in Nat
  BY <1>1, QueuedIsNat DEF Reported, Queued
<1>3. feedq \in Seq({Chunk, Eof}) /\ received \in Nat /\ yielded \in Nat
  BY DEF TypeOK
<1>4. PICK n \in 0..Len(feedq) : Decoding(n)
  BY DEF Accounts
<1>5. (\A i \in 1..Len(feedq) : feedq[i] = Chunk) /\ decoder # "ended"
  BY <1>1 DEF Accounts
<1>6. n = Len(feedq)
  BY <1>3, <1>4, <1>5, AllChunks DEF Decoding
<1>7. Len(feedq') = n + 1 /\ n \in Nat /\ \A i \in 1..Len(feedq') : feedq'[i] = Chunk
  BY <1>1, <1>3, <1>5, <1>6 DEF Chunk
<1>8. FedInOrder(feedq', n + 1)
  BY <1>7 DEF FedInOrder
<1>9. received' - (n + 1) = received - n
  BY <1>1, <1>3, <1>7
<1>10. decoder' = "running" =>
         /\ n + 1 <= received' /\ have' = (received' - (n + 1)) % FrameChunks
         /\ yielded' + Queued' = (received' - (n + 1)) \div FrameChunks
  <2>1. SUFFICES ASSUME decoder = "running" PROVE
         /\ n + 1 <= received' /\ have' = (received' - (n + 1)) % FrameChunks
         /\ yielded' + Queued' = (received' - (n + 1)) \div FrameChunks
    BY <1>1
  <2>2. n <= received /\ have = (received - n) % FrameChunks
        /\ yielded + Queued = (received - n) \div FrameChunks
    BY <1>4, <2>1 DEF Decoding
  <2>3. n + 1 <= received'
    BY <1>1, <1>3, <1>7, <2>2
  <2> QED BY <1>1, <1>2, <1>9, <2>2, <2>3
<1>11. Decoding(n + 1)'
  <2>1. FedInOrder(feedq, n + 1)'
    BY <1>8 DEF FedInOrder
  <2> QED BY <1>1, <1>5, <1>10, <2>1 DEF Decoding
<1>12. \E m \in 0..Len(feedq') : Decoding(m)'
  <2>1. n + 1 \in 0..Len(feedq')
    BY <1>7
  <2> QED BY <1>11, <2>1
<1>13. Framed'
  BY <1>1, <1>2 DEF Accounts, Framed
<1>14. yielded' + Queued' <= FramesOf(received')
  <2>1. FramesOf(received) <= FramesOf(received + 1) /\ FramesOf(received) \in Nat
    BY <1>3, FramesGrow
  <2>2. yielded + Queued <= FramesOf(received) /\ FramesOf(received + 1) \in Nat
    <3>1. received + 1 \in Nat
      BY <1>3
    <3>2. FramesOf(received + 1) \in Nat
      BY <3>1, FramesGrow
    <3>3. yielded + Queued <= FramesOf(received)
      BY Zenon DEF Accounts
    <3> QED BY <3>2, <3>3
  <2> DEFINE few == FramesOf(received)
             more == FramesOf(received + 1)
  <2>3. yielded' + Queued' = yielded + Queued /\ FramesOf(received') = more
    BY <1>1, <1>2
  <2>4. few <= more /\ few \in Nat /\ more \in Nat /\ yielded + Queued <= few
        /\ yielded + Queued \in Nat
    BY <1>2, <1>3, <2>1, <2>2
  <2> HIDE DEF few, more
  <2> QED BY <2>3, <2>4
<1>15. FramesOf(received)' = FramesOf(received')
  BY DEF FramesOf
<1>16. PumpLives' => (\A i \in 1..Len(feedq') : feedq'[i] = Chunk) /\ decoder' # "ended"
  BY <1>1, <1>5, <1>7
<1> QED BY <1>12, <1>13, <1>14, <1>15, <1>16 DEF Accounts

LEMMA ChunkDecoded ==
  ASSUME TypeOK, Accounts, DecodesChunk
  PROVE  Accounts'
<1>1. /\ decoder = "running" /\ decoder' = "running" /\ feedq # <<>> /\ Head(feedq) = Chunk
      /\ feedq' = Tail(feedq) /\ have' = (have + 1) % FrameChunks
      /\ outq' = IF have' = 0 THEN Append(outq, Frame) ELSE outq
      /\ UNCHANGED <<gen, pump, received, yielded>>
  BY DEF DecodesChunk
<1>2. /\ feedq \in Seq({Chunk, Eof}) /\ received \in Nat /\ yielded \in Nat
      /\ Len(outq) \in Nat /\ Len(feedq) \in Nat /\ Len(feedq) > 0
  BY <1>1 DEF TypeOK
<1>3. PICK n \in 0..Len(feedq) : Decoding(n)
  BY DEF Accounts
<1>4. n > 0 /\ n - 1 \in 0..Len(feedq') /\ FedInOrder(feedq', n - 1)
  BY <1>1, <1>2, <1>3, TakeKeepsOrder DEF Decoding
<1> DEFINE d == received - n
<1>5. /\ d \in Nat /\ d + 1 \in Nat /\ have = d % FrameChunks
      /\ yielded + Queued = d \div FrameChunks /\ n <= received
  BY <1>1, <1>2, <1>3 DEF Decoding
<1>6. received - (n - 1) = d + 1 /\ n - 1 <= received /\ d + 1 <= received
  BY <1>2, <1>4, <1>5
<1> HIDE DEF d
<1>7. have' = (d + 1) % FrameChunks
  BY <1>1, <1>5, OneMore
<1>8. Queued = Len(outq) /\ Queued' = Len(outq') /\ ~Reported'
  BY <1>1 DEF Queued, Reported
<1>9. Len(outq') = Len(outq) + (IF have' = 0 THEN 1 ELSE 0)
  BY <1>1 DEF TypeOK, Frame
<1>10. yielded + Queued' = (d + 1) \div FrameChunks
  <2>1. (d + 1) \div FrameChunks = d \div FrameChunks + (IF have' = 0 THEN 1 ELSE 0)
    BY <1>5, <1>7, OneMore
  <2>2. d \div FrameChunks \in Nat
    BY <1>5, Divided
  <2> QED BY <1>2, <1>5, <1>8, <1>9, <2>1, <2>2
<1>11. Decoding(n - 1)'
  <2>1. FedInOrder(feedq, n - 1)'
    BY <1>4 DEF FedInOrder
  <2>2. /\ n - 1 <= received' /\ have' = (received' - (n - 1)) % FrameChunks
        /\ yielded' + Queued' = (received' - (n - 1)) \div FrameChunks
    <3>1. received' = received /\ yielded' = yielded
      BY <1>1
    <3> QED BY <1>6, <1>7, <1>10, <3>1
  <2> QED BY <1>1, <2>1, <2>2 DEF Decoding
<1>12. Framed'
  <2>1. \A i \in 1..Len(outq') : outq'[i] = Frame
    BY <1>1, <1>8 DEF Accounts, Framed, TypeOK, Frame
  <2> QED BY <1>8, <2>1 DEF Framed
<1>13. yielded' + Queued' <= FramesOf(received')
  BY <1>1, <1>2, <1>5, <1>6, <1>10, FramesGrow
<1>14. PumpLives' => (\A i \in 1..Len(feedq') : feedq'[i] = Chunk) /\ decoder' # "ended"
  <2>1. PumpLives' => \A i \in 1..Len(feedq) : feedq[i] = Chunk
    BY <1>1 DEF Accounts, PumpLives
  <2>2. /\ Len(feedq') = Len(feedq) - 1
        /\ \A i \in 1..Len(feedq') : feedq'[i] = feedq[i + 1]
    BY <1>1, <1>2
  <2> QED BY <1>1, <1>2, <2>1, <2>2
<1>15. FramesOf(received)' = FramesOf(received')
  BY DEF FramesOf
<1> QED BY <1>4, <1>11, <1>12, <1>13, <1>14, <1>15 DEF Accounts

LEMMA EndDecoded ==
  ASSUME TypeOK, Accounts, DecodesEnd
  PROVE  Accounts'
<1> DEFINE tail == IF have > 0 THEN <<Frame>> ELSE <<>>
           t == IF have > 0 THEN 1 ELSE 0
<1>1. /\ decoder = "running" /\ decoder' = "ended" /\ feedq # <<>> /\ Head(feedq) = Eof
      /\ feedq' = Tail(feedq) /\ outq' = outq \o tail \o <<Done(FALSE)>>
      /\ UNCHANGED <<gen, pump, received, yielded>>
  BY DEF DecodesEnd
<1>2. /\ feedq \in Seq({Chunk, Eof}) /\ received \in Nat /\ yielded \in Nat
      /\ Len(outq) \in Nat /\ have \in Nat
  BY TtsConstants DEF TypeOK
<1>3. PICK n \in 0..Len(feedq) : Decoding(n)
  BY DEF Accounts
<1>4. n = 0 /\ 0 \in 0..Len(feedq') /\ FedInOrder(feedq', 0)
  BY <1>1, <1>2, <1>3, TakeKeepsOrder DEF Decoding
<1>5. have = received % FrameChunks /\ yielded + Queued = received \div FrameChunks
  <2>1. received - n = received
    BY <1>2, <1>4
  <2> QED BY <1>1, <1>3, <2>1 DEF Decoding
<1>6. Queued = Len(outq) /\ ~Reported
  BY <1>1 DEF Queued, Reported
<1>7. /\ Len(outq') = Len(outq) + t + 1 /\ outq'[Len(outq')] = Done(FALSE)
      /\ \A i \in 1..Len(outq) + t : outq'[i] = Frame
  <2>1. \A i \in 1..Len(outq) : outq[i] = Frame
    BY <1>6 DEF Accounts, Framed
  <2>2. outq \in Seq({Frame, "done", "failed"})
    BY DEF TypeOK, Done
  <2>3. CASE have > 0
    <3>1. outq' = (outq \o <<Frame>>) \o <<"done">> /\ t = 1
      BY <1>1, <2>3 DEF Done
    <3> QED BY <1>2, <2>1, <2>2, <3>1 DEF Done, Frame
  <2>4. CASE ~(have > 0)
    <3>1. outq' = (outq \o <<>>) \o <<"done">> /\ t = 0
      BY <1>1, <2>4 DEF Done
    <3> QED BY <1>2, <2>1, <2>2, <3>1 DEF Done, Frame
  <2> QED BY <2>3, <2>4
<1>8. t \in Nat /\ received \div FrameChunks \in Nat
      /\ FramesOf(received) = received \div FrameChunks + t
  BY <1>2, <1>5, Divided, FramesCount
<1> HIDE DEF tail, t
<1>9. Reported' /\ Queued' = Len(outq) + t
  <2>1. outq' # <<>>
    BY <1>2, <1>7, <1>8
  <2>2. Reported'
    BY <1>1, <2>1 DEF Reported
  <2> QED BY <1>2, <1>7, <1>8, <2>2 DEF Queued
<1>10. yielded' + Queued' = FramesOf(received')
  <2> DEFINE d == received \div FrameChunks
  <2>1. yielded' = yielded /\ received' = received
    BY <1>1
  <2>2. yielded + Len(outq) = d /\ FramesOf(received) = d + t /\ d \in Nat /\ t \in Nat
    BY <1>5, <1>6, <1>8
  <2> HIDE DEF d
  <2>3. yielded + (Len(outq) + t) = d + t
    BY <1>2, <2>2
  <2>4. yielded' + Queued' = yielded + (Len(outq) + t)
    BY <1>9, <2>1
  <2> QED BY <2>1, <2>2, <2>3, <2>4
<1>11. FramesOf(received)' = FramesOf(received') /\ FramesOf(received') \in Nat
  <2>1. FramesOf(received)' = FramesOf(received')
    BY DEF FramesOf
  <2>2. FramesOf(received') \in Nat
    <3>1. received' \in Nat
      BY <1>1, <1>2
    <3>2. received' <= received'
      BY <3>1
    <3> QED BY Zenon, <3>1, <3>2, FramesGrow
  <2> QED BY <2>1, <2>2
<1>12. Decoding(0)'
  <2>1. FedInOrder(feedq, 0)'
    BY <1>4 DEF FedInOrder
  <2> QED BY <1>1, <1>10, <1>11, <2>1 DEF Decoding
<1>13. Framed'
  <2>1. Done(FALSE) # Frame
    BY DEF Done, Frame
  <2> QED BY <1>7, <1>9, <2>1 DEF Framed
<1>14. ~PumpLives'
  <2>1. feedq[1] = Eof /\ 1 \in 1..Len(feedq)
    BY <1>1, <1>2
  <2>2. ~PumpLives
    BY <2>1 DEF Accounts, Chunk, Eof
  <2> QED BY <1>1, <2>2 DEF PumpLives
<1> QED BY <1>4, <1>10, <1>11, <1>12, <1>13, <1>14 DEF Accounts

LEMMA FailureReported ==
  ASSUME TypeOK, Accounts, DecodeFails
  PROVE  Accounts'
<1>1. /\ decoder = "running" /\ decoder' = "failed" /\ feedq # <<>>
      /\ feedq' = Tail(feedq) /\ outq' = Append(outq, Done(TRUE))
      /\ UNCHANGED <<gen, pump, have, received, yielded>>
  BY DEF DecodeFails
<1>2. /\ feedq \in Seq({Chunk, Eof}) /\ Len(feedq) \in Nat /\ Len(feedq) > 0
      /\ Len(outq) \in Nat
  BY <1>1 DEF TypeOK
<1>3. PICK n \in 0..Len(feedq) : Decoding(n)
  BY DEF Accounts
<1>4. \E m \in 0..Len(feedq') : FedInOrder(feedq', m)
  <2>1. CASE n > 0
    BY <1>1, <1>2, <1>3, <2>1, TakeKeepsOrder DEF Decoding
  <2>2. CASE n = 0
    BY <1>1, <1>2, <1>3, <2>2, TakeKeepsOrder DEF Decoding
  <2> QED BY <1>2, <1>3, <2>1, <2>2
<1>5. \E m \in 0..Len(feedq') : Decoding(m)'
  <2>1. PICK m \in 0..Len(feedq') : FedInOrder(feedq', m)
    BY <1>4
  <2>2. FedInOrder(feedq, m)'
    BY <2>1 DEF FedInOrder
  <2>3. Decoding(m)'
    BY <1>1, <2>2 DEF Decoding
  <2> QED BY <2>3
<1>6. Queued = Len(outq) /\ ~Reported
  BY <1>1 DEF Queued, Reported
<1>7. /\ Len(outq') = Len(outq) + 1 /\ outq'[Len(outq) + 1] = Done(TRUE)
      /\ \A i \in 1..Len(outq) : outq'[i] = outq[i]
  BY <1>1 DEF TypeOK, Done, Frame
<1>8. Reported' /\ Queued' = Queued
  <2>1. outq' # <<>>
    BY <1>2, <1>7
  <2>2. Reported'
    BY <1>1, <2>1 DEF Reported
  <2>3. Len(outq') - 1 = Len(outq)
    BY <1>2, <1>7
  <2> QED BY <1>6, <2>2, <2>3 DEF Queued
<1>9. Framed'
  <2>1. Done(TRUE) # Frame
    BY DEF Done, Frame
  <2> QED BY <1>2, <1>6, <1>7, <1>8, <2>1 DEF Accounts, Framed
<1>10. PumpLives' => \A i \in 1..Len(feedq') : feedq'[i] = Chunk
  <2>1. PumpLives' => \A i \in 1..Len(feedq) : feedq[i] = Chunk
    BY <1>1 DEF Accounts, PumpLives
  <2>2. /\ Len(feedq') = Len(feedq) - 1
        /\ \A i \in 1..Len(feedq') : feedq'[i] = feedq[i + 1]
    BY <1>1, <1>2
  <2> QED BY <1>2, <2>1, <2>2
<1>11. (yielded + Queued)' = yielded + Queued /\ FramesOf(received)' = FramesOf(received)
  BY <1>1, <1>8 DEF FramesOf
<1> QED BY <1>1, <1>5, <1>9, <1>10, <1>11 DEF Accounts

LEMMA FrameTaken ==
  ASSUME TypeOK, Accounts, Stages, Teardown, TakesFrame
  PROVE  Accounts'
<1>1. /\ streaming /\ outq # <<>> /\ outq[1] = Frame /\ outq' = Tail(outq)
      /\ yielded' = yielded + 1 /\ gen = "getting" /\ gen' = "yielding"
      /\ UNCHANGED <<pump, feedq, decoder, have, received>>
  BY DEF TakesFrame, Teardown
<1>2. /\ Len(outq) \in Nat /\ Len(outq) > 0 /\ Len(outq') = Len(outq) - 1
      /\ (\A i \in 1..Len(outq') : outq'[i] = outq[i + 1])
      /\ (outq' = <<>> => Len(outq) = 1) /\ yielded \in Nat
  <2>1. outq \in Seq({Frame, Done(TRUE), Done(FALSE)}) /\ yielded \in Nat
    BY DEF TypeOK
  <2>2. Len(outq) \in Nat /\ Len(outq) > 0 /\ Len(outq') = Len(outq) - 1
    BY <1>1, <2>1
  <2>3. \A i \in 1..Len(outq') : outq'[i] = outq[i + 1]
    BY <1>1, <2>1
  <2>4. outq' = <<>> => Len(outq') = 0
    BY <1>1, <2>1
  <2> QED BY <2>1, <2>2, <2>3, <2>4
<1>3. Reported => Len(outq) > 1
  <2>1. Reported => outq[Len(outq)] # outq[1]
    BY <1>1 DEF Accounts, Framed
  <2> QED BY <1>2, <2>1
<1>4. Reported' <=> Reported
  BY <1>1, <1>2, <1>3 DEF Reported
<1>5. Queued' = Queued - 1 /\ Queued \in Nat
  BY <1>2, <1>4, QueuedIsNat DEF Queued
<1>6. Framed'
  <2>1. \A i \in 1..Queued' : outq'[i] = Frame
    <3>1. \A i \in 1..Queued' : i \in 1..Len(outq') /\ i + 1 \in 1..Queued
      BY <1>2, <1>4, <1>5 DEF Queued
    <3> QED BY <1>2, <3>1 DEF Accounts, Framed
  <2>2. Reported' => outq'[Len(outq')] # Frame
    <3>1. Reported' => Len(outq') \in 1..Len(outq') /\ Len(outq') + 1 = Len(outq)
      BY <1>2, <1>3, <1>4
    <3> QED BY <1>2, <1>4, <3>1 DEF Accounts, Framed
  <2> QED BY <2>1, <2>2 DEF Framed
<1>7. (yielded + Queued)' = yielded + Queued
  BY <1>1, <1>2, <1>5
<1>8. FramesOf(received)' = FramesOf(received)
  BY <1>1 DEF FramesOf
<1>9. PICK n \in 0..Len(feedq) : Decoding(n)
  BY DEF Accounts
<1>10. n \in 0..Len(feedq') /\ Decoding(n)'
  BY <1>1, <1>7, <1>8, <1>9 DEF Decoding, FedInOrder
<1>11. PumpLives' => PumpLives
  BY <1>1 DEF PumpLives
<1> QED BY <1>1, <1>6, <1>7, <1>8, <1>10, <1>11 DEF Accounts

LEMMA DoneTaken ==
  ASSUME TypeOK, Accounts, Stages, Teardown, TakesDone
  PROVE  Accounts'
<1>1. /\ streaming /\ outq # <<>> /\ outq[1] # Frame /\ outq' = Tail(outq)
      /\ gen' = "closing" /\ feedq' = Append(feedq, Eof)
      /\ UNCHANGED <<pump, decoder, have, received, yielded>>
  BY DEF TakesDone, Leave, Teardown
<1>2. outq \in Seq({Frame, Done(TRUE), Done(FALSE)}) /\ Len(outq) \in Nat /\ Len(outq) > 0
  BY <1>1 DEF TypeOK
<1>3. ~(1 \in 1..Queued)
  BY <1>1 DEF Accounts, Framed
<1>4. Reported
  <2>1. ~Reported => 1 \in 1..Queued
    BY <1>2 DEF Queued
  <2> QED BY <1>3, <2>1
<1>5. Len(outq) = 1 /\ Queued = 0
  <2>1. Queued = Len(outq) - 1
    BY <1>4 DEF Queued
  <2> QED BY <1>2, <1>3, <2>1
<1>6. outq' = <<>>
  BY <1>1, <1>2, <1>5
<1>7. ~Reported' /\ Queued' = 0
  BY <1>6 DEF Reported, Queued
<1>8. FramesOf(received)' = FramesOf(received) /\ (yielded + Queued)' = yielded + Queued
  BY <1>1, <1>5, <1>7 DEF FramesOf
<1>9. Framed'
  BY <1>7 DEF Framed
<1>10. PICK n \in 0..Len(feedq) : Decoding(n)
  BY DEF Accounts
<1>11. n \in 0..Len(feedq') /\ Decoding(n)'
  <2>1. feedq \in Seq({Chunk, Eof}) /\ FedInOrder(feedq, n)
    BY <1>10 DEF Decoding, TypeOK
  <2>2. FedInOrder(feedq', n)
    BY <1>1, <2>1, MarkKeepsOrder
  <2>3. Len(feedq') = Len(feedq) + 1 /\ Len(feedq) \in Nat
    BY <1>1, <2>1 DEF Eof
  <2>4. FedInOrder(feedq, n)'
    BY <2>2 DEF FedInOrder
  <2> QED BY <1>1, <1>8, <1>10, <2>3, <2>4 DEF Decoding
<1>12. ~PumpLives'
  BY <1>1 DEF PumpLives
<1> QED BY <1>8, <1>9, <1>11, <1>12 DEF Accounts

\* A buffered reply has no decoder thread and no feed: the frames are all there is.
LEMMA BufferedKept ==
  ASSUME TypeOK, Accounts, ~streaming, decoder = "none", feedq = <<>>, pump = "none",
         UNCHANGED <<feedq, decoder, pump>>, Len(outq') \in Nat,
         \A i \in 1..Len(outq') : outq'[i] = Frame,
         yielded' + Len(outq') <= FramesOf(received')
  PROVE  Accounts'
<1>1. ~Reported' /\ Queued' = Len(outq') /\ ~PumpLives'
  BY DEF Reported, Queued, PumpLives
<1>2. Framed'
  BY <1>1 DEF Framed
<1>3. 0 \in 0..Len(feedq') /\ Decoding(0)'
  BY DEF Decoding, FedInOrder
<1>4. FramesOf(received)' = FramesOf(received')
  BY DEF FramesOf
<1> QED BY <1>1, <1>2, <1>3, <1>4 DEF Accounts

LEMMA AccountsStep ==
  TypeOK /\ TypeOK' /\ Teardown /\ Accounts /\ Stages /\ Stages' /\ [Next]_vars => Accounts'
<1> SUFFICES ASSUME TypeOK, TypeOK', Teardown, Accounts, Stages, Stages', [Next]_vars
             PROVE  Accounts'
  OBVIOUS
<1>1. CASE ConnectReturns
  <2>1. ~PumpLives'
    BY <1>1 DEF ConnectReturns, PumpLives, Teardown
  <2> QED BY <1>1, <2>1, AccountsKept DEF ConnectReturns
<1>2. CASE TextSent
  <2>1. gen = "texting" /\ pump = "none" /\ decoder = "none" /\ feedq = <<>> /\ outq = <<>>
        /\ yielded = 0
    BY <1>2 DEF TextSent, Teardown, Stages
  <2>2. CASE ~streaming
    <3>1. ~PumpLives'
      BY <1>2, <2>1, <2>2 DEF TextSent, PumpLives
    <3> QED BY <1>2, <2>2, <3>1, AccountsKept DEF TextSent
  <2>3. CASE streaming
    <3>1. received = 0 /\ UNCHANGED <<feedq, have, outq, received, yielded>>
          /\ decoder' = "running"
      BY <1>2, <2>1, <2>3 DEF TextSent, Stages
    <3>2. ~Reported' /\ Queued' = 0
      BY <2>1, <3>1 DEF Reported, Queued
    <3>3. 0 \in 0..FrameChunks - 1 /\ 0 = FrameChunks * 0 + 0
      BY TtsConstants
    <3>4. 0 \div FrameChunks = 0 /\ 0 % FrameChunks = 0
      BY <3>3, DividedOneWay
    <3>5. have = 0
      BY <2>1, <2>3 DEF Stages
    <3>6. received' - 0 = 0 /\ yielded' + Queued' = 0
      BY <2>1, <3>1, <3>2
    <3>7. Decoding(0)' /\ 0 \in 0..Len(feedq')
      BY <2>1, <3>1, <3>4, <3>5, <3>6 DEF Decoding, FedInOrder
    <3>8. Framed'
      BY <3>2 DEF Framed
    <3>9. FramesOf(received)' = 0
      BY <3>1, NoFrames DEF FramesOf
    <3> QED BY <2>1, <3>1, <3>6, <3>7, <3>8, <3>9 DEF Accounts
  <2> QED BY <2>2, <2>3
<1>3. CASE TextFails
  BY <1>3, MarkKept DEF TextFails, Leave, PumpLives
<1>4. CASE PumpChunk BY <1>4, ChunkReceived
<1>5. CASE PumpEnds BY <1>5, MarkKept DEF PumpEnds, PumpLives
<1>6. CASE PumpCancelled BY <1>6, MarkKept DEF PumpCancelled, PumpLives
<1>7. CASE DecodesChunk BY <1>7, ChunkDecoded
<1>8. CASE DecodesEnd BY <1>8, EndDecoded
<1>9. CASE DecodeFails BY <1>9, FailureReported
<1>10. CASE TakesFrame BY <1>10, FrameTaken
<1>11. CASE TakesDone BY <1>11, DoneTaken
<1>12. CASE CollectsChunk
  <2>1. /\ ~streaming /\ decoder = "none" /\ feedq = <<>> /\ pump = "none" /\ yielded = 0
        /\ outq = <<>> /\ received' = received + 1
        /\ UNCHANGED <<feedq, decoder, pump, outq, yielded>>
    BY <1>12 DEF CollectsChunk, Teardown, Stages
  <2>2. FramesOf(received') \in Nat
    BY FramesGrow DEF TypeOK
  <2>3. yielded' + Len(outq') <= FramesOf(received')
    BY <2>1, <2>2
  <2> QED BY <2>1, <2>3, BufferedKept
<1>13. CASE CollectEnds
  BY <1>13, MarkKept DEF CollectEnds, Leave, PumpLives
<1>14. CASE Decodes
  <2>1. /\ ~streaming /\ decoder = "none" /\ feedq = <<>> /\ pump = "none" /\ yielded = 0
        /\ outq = <<>> /\ received' = received
        /\ UNCHANGED <<feedq, decoder, pump, streaming>>
    BY <1>14 DEF Decodes, Teardown, Stages
  <2>2. CASE gen' = "yielding"
    <3>1. outq' = [i \in 1..FramesOf(received) - 1 |-> Frame]
      BY <1>14, <2>2 DEF Decodes
    <3>2. received > 0 /\ received \in Nat
      BY <1>14 DEF Decodes, Stages, TypeOK
    <3>3. FramesOf(received) \in Nat /\ FramesOf(received) - 1 \in Nat
      BY <3>2, SomeFrame, FramesGrow
    <3>4. Len(outq') \in Nat /\ \A i \in 1..Len(outq') : outq'[i] = Frame
      BY <3>1, <3>3
    <3>5. yielded' + Len(outq') = FramesOf(received')
      BY <2>1, <2>2 DEF Stages, FramesOf
    <3>6. yielded' + Len(outq') <= FramesOf(received')
      BY <2>1, <3>3, <3>5
    <3> QED BY <2>1, <3>4, <3>6, BufferedKept
  <2>3. CASE gen' # "yielding"
    <3>1. UNCHANGED <<feedq, decoder, have, outq, received, yielded>> /\ pump' = "none"
      BY <1>14, <2>1, <2>3 DEF Decodes
    <3> QED BY <3>1, AccountsKept DEF PumpLives
  <2> QED BY <2>2, <2>3
<1>15. CASE Resumes
  <2>1. CASE streaming
    BY <1>15, <2>1, AccountsKept DEF Resumes, PumpLives
  <2>2. CASE ~streaming /\ outq = <<>>
    BY <1>15, <2>2, AccountsKept DEF Resumes, PumpLives, Teardown
  <2>3. CASE ~streaming /\ outq # <<>>
    <3>1. /\ decoder = "none" /\ feedq = <<>> /\ pump = "none" /\ gen' = "yielding"
          /\ outq' = Tail(outq) /\ received' = received /\ ~streaming'
          /\ UNCHANGED <<feedq, decoder, pump>>
      BY <1>15, <2>3 DEF Resumes, Teardown, Stages
    <3>2. \A i \in 1..Len(outq) : outq[i] = Frame
      <4>1. Queued = Len(outq)
        BY <3>1 DEF Queued, Reported
      <4> QED BY <4>1 DEF Accounts, Framed
    <3>3. outq \in Seq({Frame, Done(TRUE), Done(FALSE)})
      BY DEF TypeOK
    <3>4. Len(outq') \in Nat /\ \A i \in 1..Len(outq') : outq'[i] = Frame
      BY <2>3, <3>1, <3>2, <3>3
    <3>5. yielded' + Len(outq') = FramesOf(received')
      BY <3>1 DEF Stages, FramesOf
    <3>6. FramesOf(received') \in Nat
      BY FramesGrow DEF TypeOK
    <3>7. yielded' + Len(outq') <= FramesOf(received')
      BY <3>5, <3>6
    <3> QED BY <2>3, <3>1, <3>4, <3>7, BufferedKept
  <2> QED BY <2>1, <2>2, <2>3
<1>16. CASE Abandoned
  BY <1>16, MarkKept DEF Abandoned, Leave, PumpLives
<1>17. CASE SocketClosed
  BY <1>17, AccountsKept DEF SocketClosed, AfterClose, PumpLives, Teardown
<1>18. CASE CloseCancelled
  BY <1>18, AccountsKept DEF CloseCancelled, PumpLives
<1>19. CASE PumpReaped
  BY <1>19, AccountsKept DEF PumpReaped, PumpLives
<1>20. CASE UNCHANGED vars
  BY <1>20, AccountsKept DEF vars, PumpLives
<1> QED
  BY <1>1, <1>2, <1>3, <1>4, <1>5, <1>6, <1>7, <1>8, <1>9, <1>10, <1>11, <1>12, <1>13,
     <1>14, <1>15, <1>16, <1>17, <1>18, <1>19, <1>20
  DEF Next, Pump, Decoder, Generator

\* Whatever is interleaved among the pump, the decoder thread and the generator, and for
\* every number of chunks and every size of a frame: a reply that the provider finished
\* and that decoded was yielded whole, its tail included, before the generator ends.
THEOREM ReplyIsWhole == Spec => []WholeReply
<1>1. TypeOK /\ Accounts /\ Stages => WholeReply
  <2> SUFFICES ASSUME TypeOK, Accounts, Stages PROVE WholeReply
    OBVIOUS
  <2>1. Queued \in Nat /\ yielded \in Nat /\ received \in Nat /\ FramesOf(received) \in Nat
    BY QueuedIsNat, FramesGrow DEF TypeOK
  <2>2. yielded <= FramesOf(received)
    BY <2>1 DEF Accounts
  <2>3. ASSUME gen = "over", outcome = "ended", decoder # "failed"
        PROVE  yielded = FramesOf(received)
    <3>1. CASE streaming
      <4>1. decoder = "ended" /\ Queued = 0
        BY <2>3, <3>1 DEF Stages, Queued, Reported
      <4>2. yielded + Queued = FramesOf(received)
        BY <4>1 DEF Accounts, Decoding
      <4> QED BY <2>1, <4>1, <4>2
    <3>2. CASE ~streaming
      BY <2>3, <3>2 DEF Stages
    <3> QED BY <3>1, <3>2
  <2> QED BY <2>2, <2>3 DEF WholeReply
<1> QED
  BY <1>1, TypeStart, TypeStep, TeardownStart, TeardownStep, ReplyStart, StagesStep,
     AccountsStep, PTL DEF Spec

=============================================================================
