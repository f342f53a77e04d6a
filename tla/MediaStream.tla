---------------------------- MODULE MediaStream ----------------------------
(***************************************************************************)
(* The outbound side of one call's media socket (onset/media.py): a        *)
(* bounded queue between the speaking response (the producer) and the      *)
(* pacer task, cut short by flush() on barge-in, by a dead socket and by   *)
(* aclose().                                                               *)
(*                                                                         *)
(* Everything runs on one asyncio event loop, so an action is the code     *)
(* between two awaits.  A message is on `wire' from the moment send_text   *)
(* is called: the socket keeps the order of the calls, whatever the time   *)
(* each of them takes to complete.                                         *)
(***************************************************************************)
EXTENDS Integers, Sequences, SequencesExt, FiniteSets

CONSTANTS LeadFrames,     \* settings.inject_lead_frames, the queue's maxsize
          MaxUtterances,  \* bound: utterances begun
          MaxFrames,      \* bound: frames per utterance
          MaxFlushes      \* bound: barge-ins

ASSUME LeadFramesAssumption == LeadFrames \in Nat \ {0}
ASSUME BoundsAssumption == /\ MaxUtterances \in Nat
                           /\ MaxFrames \in Nat
                           /\ MaxFlushes \in Nat

VARIABLES
  epoch,      \* MediaStream._epoch
  closed,     \* MediaStream._closed
  out,        \* MediaStream._out, the queued items
  pacer,      \* where the pacer task is: "sleep" (about to look at the queue),
              \* "get" (blocked on it), "audio" or "mark" (in send_text),
              \* "stopped"
  starve,     \* the pacer's locals of the starvation count
  prod,       \* the producer: "idle", "speak" (between sends), "put" (blocked)
  utt,        \* number of the utterance being produced
  uttEpoch,   \* the epoch begin_utterance() returned to it
  sent,       \* frames the producer has handed over
  pend,       \* the item a blocked producer is putting
  flushing,   \* the old epochs of a flush() awaiting its clear, at most one
  flushes,    \* flush() calls so far
  result,     \* the last MediaFlushResult
  errors,     \* on_error calls
  wire        \* every send_text so far, in order

producerVars == <<prod, utt, uttEpoch, sent, pend>>
pacerVars == <<pacer, starve>>
flushVars == <<flushing, flushes, result>>
vars == <<epoch, closed, out, pacerVars, producerVars, flushVars, errors, wire>>

Kinds == {"audio", "mark"}

\* A queue item.  n is the frame's number in its utterance; a mark carries
\* the number of frames it fences.
Item == [kind : Kinds, epoch : Nat, utt : Nat, n : Nat]

\* What goes out on the socket.
Message == [kind : Kinds \cup {"clear"}, epoch : Nat, utt : Nat, n : Nat]

\* The clear event of a flush that moved to epoch e.
Clear(e) == [kind |-> "clear", epoch |-> e, utt |-> 0, n |-> 0]

NoItem == [kind |-> "mark", epoch |-> 0, utt |-> 0, n |-> 0]

Counters == [prevAudio : BOOLEAN, awaiting : BOOLEAN, starved : Nat,
             epoch : Nat \cup {-1}]

\* The pacer's counters as they are before its first item.
NoStarve == [prevAudio |-> FALSE, awaiting |-> FALSE, starved |-> 0, epoch |-> -1]

TypeOK ==
  /\ epoch \in Nat
  /\ closed \in BOOLEAN
  /\ out \in Seq(Item)
  /\ Len(out) \in 0..LeadFrames
  /\ pacer \in {"sleep", "get", "audio", "mark", "stopped"}
  /\ starve \in Counters
  /\ prod \in {"idle", "speak", "put"}
  /\ utt \in Nat
  /\ uttEpoch \in Nat
  /\ sent \in Nat
  /\ pend \in Item
  /\ flushing \subseteq Nat
  /\ flushes \in Nat
  /\ result \in [old : Nat, new : Nat, outcome : {"none", "completed", "failed"}]
  /\ errors \in Nat
  /\ wire \in Seq(Message)

Init ==
  /\ epoch = 0
  /\ closed = FALSE
  /\ out = <<>>
  /\ pacer = "sleep"
  /\ starve = NoStarve
  /\ prod = "idle"
  /\ utt = 0
  /\ uttEpoch = 0
  /\ sent = 0
  /\ pend = NoItem
  /\ flushing = {}
  /\ flushes = 0
  /\ result = [old |-> 0, new |-> 0, outcome |-> "none"]
  /\ errors = 0
  /\ wire = <<>>

----------------------------------------------------------------------------
(* The producer: the speaking response, VoiceAgent._speak                  *)

BeginUtterance ==
  /\ prod = "idle"
  /\ utt < MaxUtterances
  /\ prod' = "speak"
  /\ utt' = utt + 1
  /\ uttEpoch' = epoch
  /\ sent' = 0
  /\ UNCHANGED <<epoch, closed, out, pacerVars, pend, flushVars, errors, wire>>

\* The early return of send_audio_frame and send_mark.
Refused == closed \/ uttEpoch # epoch

\* Mutant of Put: a full queue drops its oldest item instead of blocking.
PutDropOldest(item) ==
  /\ out' = Append(IF Len(out) < LeadFrames THEN out ELSE Tail(out), item)
  /\ prod' = IF item.kind = "audio" THEN "speak" ELSE "idle"
  /\ sent' = IF item.kind = "audio" THEN item.n ELSE sent
  /\ UNCHANGED pend

\* await self._out.put(item): at once when there is room, else blocked.
Put(item) ==
  IF Len(out) < LeadFrames
  THEN /\ out' = Append(out, item)
       /\ prod' = IF item.kind = "audio" THEN "speak" ELSE "idle"
       /\ sent' = IF item.kind = "audio" THEN item.n ELSE sent
       /\ UNCHANGED pend
  ELSE /\ prod' = "put"
       /\ pend' = item
       /\ UNCHANGED <<out, sent>>

SendAudioFrame ==
  /\ prod = "speak"
  /\ sent < MaxFrames
  /\ IF Refused
     THEN /\ sent' = sent + 1
          /\ UNCHANGED <<out, prod, pend>>
     ELSE Put([kind |-> "audio", epoch |-> uttEpoch, utt |-> utt, n |-> sent + 1])
  /\ UNCHANGED <<epoch, closed, pacerVars, utt, uttEpoch, flushVars, errors, wire>>

SendMark ==
  /\ prod = "speak"
  /\ IF Refused
     THEN /\ prod' = "idle"
          /\ UNCHANGED <<out, sent, pend>>
     ELSE Put([kind |-> "mark", epoch |-> uttEpoch, utt |-> utt, n |-> sent])
  /\ UNCHANGED <<epoch, closed, pacerVars, utt, uttEpoch, flushVars, errors, wire>>

\* Room was made: the blocked put completes, whatever happened to the epoch.
PutWakes ==
  /\ prod = "put"
  /\ Len(out) < LeadFrames
  /\ Put(pend)
  /\ UNCHANGED <<epoch, closed, pacerVars, utt, uttEpoch, flushVars, errors, wire>>

\* The response is cancelled or fails; a blocked put leaves nothing behind.
Abandon ==
  /\ prod # "idle"
  /\ prod' = "idle"
  /\ UNCHANGED <<epoch, closed, out, pacerVars, utt, uttEpoch, sent, pend,
                 flushVars, errors, wire>>

----------------------------------------------------------------------------
(* The pacer                                                               *)

\* A frame period begins and the queue is empty: block on it, remembering
\* that audio was flowing.
PacerBlocks ==
  /\ pacer = "sleep"
  /\ out = <<>>
  /\ pacer' = "get"
  /\ starve' = [starve EXCEPT !.awaiting = @ \/ starve.prevAudio]
  /\ UNCHANGED <<epoch, closed, out, producerVars, flushVars, errors, wire>>

\* Mutant of Stale: the pacer does not compare the epoch it is handed.
NeverStale(item) == FALSE

\* The item belongs to a flushed utterance.
Stale(item) == item.epoch # epoch

\* The counters when a live item is taken: fresh for the first of its epoch.
StarveAt(item) ==
  IF item.epoch = starve.epoch THEN starve
  ELSE [NoStarve EXCEPT !.epoch = item.epoch]

PacerDiscards ==
  /\ pacer \in {"sleep", "get"}
  /\ out # <<>>
  /\ Stale(Head(out))
  /\ out' = Tail(out)
  /\ pacer' = "sleep"
  /\ starve' = [starve EXCEPT !.prevAudio = FALSE, !.awaiting = FALSE]
  /\ UNCHANGED <<epoch, closed, producerVars, flushVars, errors, wire>>

PacerSends ==
  /\ pacer \in {"sleep", "get"}
  /\ out # <<>>
  /\ ~Stale(Head(out))
  /\ LET item == Head(out)
         s == StarveAt(item)
     IN /\ pacer' = item.kind
        /\ wire' = Append(wire, item)
        /\ starve' = IF item.kind = "audio"
                     THEN [s EXCEPT !.awaiting = FALSE,
                                    !.starved = IF s.awaiting THEN @ + 1 ELSE @]
                     ELSE [s EXCEPT !.prevAudio = FALSE, !.awaiting = FALSE,
                                    !.starved = 0]
  /\ out' = Tail(out)
  /\ UNCHANGED <<epoch, closed, producerVars, flushVars, errors>>

\* send_text returned; for a mark it may also have raised (suppressed).
PacerSent ==
  /\ pacer \in {"audio", "mark"}
  /\ pacer' = "sleep"
  /\ starve' = IF pacer = "audio" THEN [starve EXCEPT !.prevAudio = TRUE] ELSE starve
  /\ UNCHANGED <<epoch, closed, out, producerVars, flushVars, errors, wire>>

\* Mutant of PacerFails: the queue is not drained.
PacerFailsUndrained ==
  /\ pacer = "audio"
  /\ closed' = TRUE
  /\ epoch' = epoch + 1
  /\ errors' = errors + 1
  /\ pacer' = "stopped"
  /\ UNCHANGED <<out, starve, producerVars, flushVars, wire>>

\* send_text of a frame raised: _fail(), and the pacer is over.
PacerFails ==
  /\ pacer = "audio"
  /\ closed' = TRUE
  /\ epoch' = epoch + 1
  /\ out' = <<>>
  /\ errors' = errors + 1
  /\ pacer' = "stopped"
  /\ UNCHANGED <<starve, producerVars, flushVars, wire>>

----------------------------------------------------------------------------
(* flush() and aclose()                                                    *)

FlushStarts ==
  /\ flushing = {}
  /\ flushes < MaxFlushes
  /\ flushing' = {epoch}
  /\ flushes' = flushes + 1
  /\ epoch' = epoch + 1
  /\ out' = <<>>
  /\ wire' = Append(wire, Clear(epoch + 1))
  /\ UNCHANGED <<closed, pacerVars, producerVars, result, errors>>

\* The clear was sent or failed; either way flush() returns a result, and
\* reads the epoch anew for it.
FlushReturns ==
  /\ flushing # {}
  /\ \E old \in flushing, o \in {"completed", "failed"} :
        result' = [old |-> old, new |-> epoch, outcome |-> o]
  /\ flushing' = {}
  /\ UNCHANGED <<epoch, closed, out, pacerVars, producerVars, flushes, errors, wire>>

\* The run loop awaiting flush() is cancelled: no result.
FlushCancelled ==
  /\ flushing # {}
  /\ flushing' = {}
  /\ UNCHANGED <<epoch, closed, out, pacerVars, producerVars, flushes, result,
                 errors, wire>>

\* aclose() is idempotent; the run loop and the server call it, neither
\* while a flush() is pending.
Aclose ==
  /\ ~closed
  /\ flushing = {}
  /\ closed' = TRUE
  /\ epoch' = epoch + 1
  /\ out' = <<>>
  /\ pacer' = "stopped"
  /\ UNCHANGED <<starve, producerVars, flushVars, errors, wire>>

----------------------------------------------------------------------------
Pacer == PacerBlocks \/ PacerDiscards \/ PacerSends \/ PacerSent \/ PacerFails

Next ==
  \/ BeginUtterance \/ SendAudioFrame \/ SendMark \/ PutWakes \/ Abandon
  \/ PacerBlocks \/ PacerDiscards \/ PacerSends \/ PacerSent \/ PacerFails
  \/ FlushStarts \/ FlushReturns \/ FlushCancelled \/ Aclose

\* The event loop runs every ready task, and a send_text on the socket
\* returns or raises; when the agent speaks, flushes or closes is its affair.
Spec == Init /\ [][Next]_vars /\ WF_vars(Pacer) /\ WF_vars(PutWakes)

----------------------------------------------------------------------------
(* Properties                                                              *)

\* Once the clear of a barge-in is on the wire, nothing of an utterance it
\* interrupted follows: neither a frame that was queued, nor one a producer
\* blocked in put() adds after the drain (media.py:169-171).
SilentAfterClear ==
  \A i, j \in DOMAIN wire : i < j => wire[i].epoch <= wire[j].epoch

\* A flush costs the next reply at most one queue slot: only the one item a
\* blocked producer was putting can be queued stale.
AtMostOneStale ==
  \A i, j \in DOMAIN out :
     out[i].epoch # epoch /\ out[j].epoch # epoch => i = j

\* A closed stream stays closed and paces nothing more: whatever a producer
\* still hands over, only the clear of a flush can reach the socket.
ClosedIsFinal ==
  [][closed => closed' /\ (wire' = wire \/ Last(wire').kind = "clear")]_vars

\* The stream implements Playback.  An utterance is live there while a queued
\* item of it is current, or while its producer is still at work in the epoch
\* it began in.
Played == [i \in DOMAIN wire |-> [kind |-> wire[i].kind, utt |-> wire[i].utt,
                                  n |-> wire[i].n]]
Current == {out[i].utt : i \in {j \in DOMAIN out : out[j].epoch = epoch}}
Live ==
  IF closed THEN {}
  ELSE Current \cup (IF prod # "idle" /\ uttEpoch = epoch THEN {utt} ELSE {})

Abstract == INSTANCE Playback WITH played <- Played, begun <- utt, live <- Live,
                                   open <- ~closed

\* Whatever is queued, blocked, flushed, failing or closed, the caller hears
\* what Playback promises: every utterance frame by frame from its first, none
\* twice, the mark only behind all of its frames, and nothing begun before a
\* barge-in or a close (media.py:117-190).
ImplementsPlayback == Abstract!Spec

\* A producer blocked on the full queue is always released: by the pacer, by
\* the drain of a flush, of a dead socket (media.py:212-213) or of aclose().
ProducerReleased == prod = "put" ~> prod # "put"

=============================================================================
