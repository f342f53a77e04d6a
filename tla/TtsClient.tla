----------------------------- MODULE TtsClient ------------------------------
(***************************************************************************)
(* One synthesize() of the text-to-speech client (onset/tts.py, with the   *)
(* MP3 source and reframer of audio.py).  Streaming: a pump task receives  *)
(* chunks into feed_q, a decoder thread turns them into frames in out_q,   *)
(* the generator yields them to whoever speaks, and its finally block      *)
(* takes all of it down.  Buffered: the generator receives everything,     *)
(* decodes once and yields.                                                *)
(*                                                                         *)
(* FrameChunks chunks make a frame and a shorter tail is padded, so frames *)
(* are counted and chunks have no content.                                 *)
(***************************************************************************)
EXTENDS Integers, Sequences

CONSTANTS
  Streaming,    \* settings.tts_streaming_decode: the choices
  FrameChunks,  \* chunks that make one frame
  MaxChunks     \* bound: chunks the provider sends

ASSUME TtsConstants ==
  /\ Streaming \subseteq BOOLEAN
  /\ FrameChunks \in Nat \ {0} /\ MaxChunks \in Nat

VARIABLES
  streaming,  \* the setting
  gen,        \* where the generator awaits
  outcome,    \* how it leaves: "ended", "failed" (raised) or "cancelled"
  ws,         \* "none", "open", "closed", or "left": close() was cancelled
  pump,       \* "none", "receiving", "ended"
  feedq,      \* chunks and end marks for the decoder
  decoder,    \* "none", "running", "ended", "failed"
  have,       \* chunks in the decoder short of a frame
  outq,       \* frames and the decoder's end, for the generator
  received,   \* chunks received
  yielded,    \* frames yielded
  reason      \* why receiving stopped

vars == <<streaming, gen, outcome, ws, pump, feedq, decoder, have, outq,
          received, yielded, reason>>

Frame == "frame"
Done(failed) == IF failed THEN "failed" ELSE "done"
Chunk == "chunk"
Eof == "eof"

TypeOK ==
  /\ streaming \in Streaming
  /\ gen \in {"connecting", "texting", "getting", "collecting", "decoding",
              "yielding", "closing", "reaping", "over"}
  /\ outcome \in {"none", "ended", "failed", "cancelled"}
  /\ ws \in {"none", "open", "closed", "left"}
  /\ pump \in {"none", "receiving", "ended"}
  /\ feedq \in Seq({Chunk, Eof})
  /\ decoder \in {"none", "running", "ended", "failed"}
  /\ have \in 0..FrameChunks - 1
  /\ outq \in Seq({Frame, Done(TRUE), Done(FALSE)})
  /\ received \in 0..MaxChunks /\ yielded \in Nat
  /\ reason \in {"none", "final", "error", "timeout", "broken", "cancelled"}

Init ==
  /\ streaming \in Streaming
  /\ gen = "connecting" /\ outcome = "none" /\ ws = "none"
  /\ pump = "none" /\ feedq = <<>> /\ decoder = "none" /\ have = 0 /\ outq = <<>>
  /\ received = 0 /\ yielded = 0 /\ reason = "none"

-----------------------------------------------------------------------------
(* The generator: opening *)

ConnectReturns ==
  /\ gen = "connecting"
  /\ \/ gen' = "texting" /\ ws' = "open" /\ outcome' = outcome
     \/ gen' = "over" /\ ws' = ws /\ outcome' = "failed"
  /\ UNCHANGED <<streaming, pump, feedq, decoder, have, outq, received, yielded, reason>>

TextSent ==
  /\ gen = "texting"
  /\ IF streaming
     THEN gen' = "getting" /\ pump' = "receiving" /\ decoder' = "running"
     ELSE gen' = "collecting" /\ UNCHANGED <<pump, decoder>>
  /\ UNCHANGED <<streaming, outcome, ws, feedq, have, outq, received, yielded, reason>>

\* Mutant of Leave: the generator counts on the pump for the end mark.
LeaveUnmarked(out) ==
  /\ gen' = "closing" /\ outcome' = out
  /\ UNCHANGED feedq

\* The finally block up to its first await: end mark, cancel the pump, close.
\* The buffered finally only closes.
Leave(out) ==
  /\ gen' = "closing" /\ outcome' = out
  /\ feedq' = IF streaming THEN Append(feedq, Eof) ELSE feedq

TextFails ==
  /\ gen = "texting"
  /\ Leave("failed")
  /\ UNCHANGED <<streaming, ws, pump, decoder, have, outq, received, yielded, reason>>

-----------------------------------------------------------------------------
(* The pump task (streaming).  The generator's finally block cancels it. *)

PumpLives == pump = "receiving" /\ gen \notin {"closing", "reaping", "over"}

PumpChunk ==
  /\ PumpLives /\ received < MaxChunks
  /\ received' = received + 1 /\ feedq' = Append(feedq, Chunk)
  /\ UNCHANGED <<streaming, gen, outcome, ws, pump, decoder, have, outq, yielded, reason>>

\* Mutant of PumpEnds: a pump that stops marks no end.
PumpEndsUnmarked ==
  /\ PumpLives
  /\ pump' = "ended"
  /\ reason' \in {"final", "error", "timeout", "broken"}
  /\ UNCHANGED <<streaming, gen, outcome, ws, feedq, decoder, have, outq, received, yielded>>

\* isFinal, a provider error, twenty seconds without a message, or a socket error:
\* each ends the pump in the same way.
PumpEnds ==
  /\ PumpLives
  /\ pump' = "ended" /\ feedq' = Append(feedq, Eof)
  /\ reason' \in {"final", "error", "timeout", "broken"}
  /\ UNCHANGED <<streaming, gen, outcome, ws, decoder, have, outq, received, yielded>>

\* A pump that is cancelled before its first step leaves no mark of its own.
PumpCancelled ==
  /\ pump = "receiving" /\ ~PumpLives
  /\ pump' = "ended" /\ feedq' \in {feedq, Append(feedq, Eof)} /\ reason' = "cancelled"
  /\ UNCHANGED <<streaming, gen, outcome, ws, decoder, have, outq, received, yielded>>

-----------------------------------------------------------------------------
(* The decoder thread (streaming) *)

DecodesChunk ==
  /\ decoder = "running" /\ feedq # <<>> /\ Head(feedq) = Chunk
  /\ feedq' = Tail(feedq)
  /\ have' = (have + 1) % FrameChunks
  /\ outq' = IF have' = 0 THEN Append(outq, Frame) ELSE outq
  /\ UNCHANGED <<streaming, gen, outcome, ws, pump, decoder, received, yielded, reason>>

\* Mutant of DecodesEnd: the tail short of a frame is dropped.
DecodesEndCut ==
  /\ decoder = "running" /\ feedq # <<>> /\ Head(feedq) = Eof
  /\ feedq' = Tail(feedq) /\ have' = 0 /\ decoder' = "ended"
  /\ outq' = Append(outq, Done(FALSE))
  /\ UNCHANGED <<streaming, gen, outcome, ws, pump, received, yielded, reason>>

\* The first end mark is the end of the MP3: a padded tail, then the end.
DecodesEnd ==
  /\ decoder = "running" /\ feedq # <<>> /\ Head(feedq) = Eof
  /\ feedq' = Tail(feedq) /\ have' = 0 /\ decoder' = "ended"
  /\ outq' = outq \o (IF have > 0 THEN <<Frame>> ELSE <<>>) \o <<Done(FALSE)>>
  /\ UNCHANGED <<streaming, gen, outcome, ws, pump, received, yielded, reason>>

\* What it was given does not decode; waiting for more, it cannot fail.
DecodeFails ==
  /\ decoder = "running" /\ feedq # <<>>
  /\ feedq' = Tail(feedq)
  /\ decoder' = "failed" /\ outq' = Append(outq, Done(TRUE))
  /\ UNCHANGED <<streaming, gen, outcome, ws, pump, have, received, yielded, reason>>

-----------------------------------------------------------------------------
(* The generator: streaming *)

TakesFrame ==
  /\ gen = "getting" /\ outq # <<>> /\ Head(outq) = Frame
  /\ outq' = Tail(outq) /\ gen' = "yielding" /\ yielded' = yielded + 1
  /\ UNCHANGED <<streaming, outcome, ws, pump, feedq, decoder, have, received, reason>>

\* The decoder's end: its error is raised only if nothing was yielded.
TakesDone ==
  /\ gen = "getting" /\ outq # <<>> /\ Head(outq) # Frame
  /\ outq' = Tail(outq)
  /\ Leave(IF Head(outq) = Done(TRUE) /\ yielded = 0 THEN "failed" ELSE "ended")
  /\ UNCHANGED <<streaming, ws, pump, decoder, have, received, yielded, reason>>

-----------------------------------------------------------------------------
(* The generator: buffered *)

CollectsChunk ==
  /\ gen = "collecting" /\ received < MaxChunks
  /\ received' = received + 1
  /\ UNCHANGED <<streaming, gen, outcome, ws, pump, feedq, decoder, have, outq, yielded, reason>>

\* isFinal or a provider error leave the loop; a timeout or a socket error raises.
CollectEnds ==
  /\ gen = "collecting"
  /\ \/ reason' \in {"final", "error"} /\ Leave("ended")
     \/ reason' \in {"timeout", "broken"} /\ Leave("failed")
  /\ UNCHANGED <<streaming, ws, pump, decoder, have, outq, received, yielded>>

FramesOf(chunks) == (chunks + FrameChunks - 1) \div FrameChunks

\* The decode of the whole buffer, in a thread that is awaited.
Decodes ==
  /\ gen = "decoding"
  /\ \/ /\ gen' = "yielding" /\ outq' = [i \in 1..FramesOf(received) - 1 |-> Frame]
        /\ yielded' = 1 /\ outcome' = outcome
     \/ gen' = "over" /\ outcome' = "failed" /\ UNCHANGED <<outq, yielded>>
  /\ UNCHANGED <<streaming, ws, pump, feedq, decoder, have, received, reason>>

-----------------------------------------------------------------------------
(* The consumer, and the finally block *)

Resumes ==
  /\ gen = "yielding"
  /\ IF streaming THEN gen' = "getting" /\ UNCHANGED <<outq, yielded, outcome>>
     ELSE IF outq # <<>>
     THEN /\ outq' = Tail(outq) /\ yielded' = yielded + 1
          /\ UNCHANGED <<gen, outcome>>
     ELSE gen' = "over" /\ outcome' = "ended" /\ UNCHANGED <<outq, yielded>>
  /\ UNCHANGED <<streaming, ws, pump, feedq, decoder, have, received, reason>>

\* Barge-in: CancelledError where the generator awaits, or aclose() at a yield.
Abandoned ==
  /\ gen \in {"connecting", "texting", "getting", "collecting", "decoding", "yielding"}
  /\ IF ws = "open" THEN Leave("cancelled")
     ELSE gen' = "over" /\ outcome' = "cancelled" /\ feedq' = feedq
  /\ UNCHANGED <<streaming, ws, pump, decoder, have, outq, received, yielded, reason>>

\* Mutant of AfterClose: the pump is not awaited.
AfterCloseUnreaped ==
  IF streaming
  THEN gen' = "over" /\ outcome' = outcome
  ELSE IF outcome = "ended" /\ received > 0
       THEN gen' = "decoding" /\ outcome' = "none"
       ELSE gen' = "over" /\ outcome' = outcome

\* What follows the close of the socket.
AfterClose ==
  IF streaming
  THEN /\ gen' = IF pump = "none" THEN "over" ELSE "reaping"
       /\ outcome' = outcome
  ELSE IF outcome = "ended" /\ received > 0
       THEN gen' = "decoding" /\ outcome' = "none"
       ELSE gen' = "over" /\ outcome' = outcome

SocketClosed ==
  /\ gen = "closing"
  /\ ws' = "closed"
  /\ AfterClose
  /\ UNCHANGED <<streaming, pump, feedq, decoder, have, outq, received, yielded, reason>>

\* Cancelled again while the socket closes: the pump is not awaited any more.
CloseCancelled ==
  /\ gen = "closing"
  /\ ws' = "left" /\ gen' = "over" /\ outcome' = "cancelled"
  /\ UNCHANGED <<streaming, pump, feedq, decoder, have, outq, received, yielded, reason>>

PumpReaped ==
  /\ gen = "reaping" /\ pump = "ended"
  /\ gen' = "over"
  /\ UNCHANGED <<streaming, outcome, ws, pump, feedq, decoder, have, outq,
                 received, yielded, reason>>

Pump == PumpChunk \/ PumpEnds \/ PumpCancelled
Decoder == DecodesChunk \/ DecodesEnd \/ DecodeFails
Generator ==
  \/ ConnectReturns \/ TextSent \/ TextFails \/ TakesFrame \/ TakesDone
  \/ CollectsChunk \/ CollectEnds \/ Decodes \/ SocketClosed \/ PumpReaped

Next == Pump \/ Decoder \/ Generator \/ Resumes \/ Abandoned \/ CloseCancelled

\* Tasks and the thread run when they can; connecting, sending and receiving
\* have timeouts.  Whoever speaks need not ask for another frame.
Fairness == WF_vars(Pump) /\ WF_vars(Decoder) /\ WF_vars(Generator)

Spec == Init /\ [][Next]_vars /\ Fairness

-----------------------------------------------------------------------------
(* Properties *)

\* A reply that the provider finished, and that decoded, was yielded whole, its
\* tail included, before the generator says it ended.
WholeReply ==
  /\ gen = "over" /\ outcome = "ended" /\ reason = "final" /\ decoder # "failed"
     => yielded = FramesOf(received)
  /\ yielded <= FramesOf(received)

\* A generator that is over has closed its socket and reaped its pump, unless
\* it was cancelled a second time while closing.
TornDown ==
  gen = "over" /\ ws # "left" => ws # "open" /\ pump # "receiving"

\* Whoever speaks is never left waiting: a frame, an end or an error comes.
SynthesisAnswers == gen = "getting" ~> gen # "getting"

\* No decoder thread stays behind a generator that is over, and no pump.
ThreadEnds == gen = "over" ~> decoder # "running" /\ pump # "receiving"
=============================================================================
