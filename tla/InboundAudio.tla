---------------------------- MODULE InboundAudio ----------------------------
(***************************************************************************)
(* The inbound side of a call: VoiceAgent.handle_audio with its half-      *)
(* duplex gate and the onset detector of vad.py, in front of SttClient.    *)
(* The media socket's read loop hands it a frame about every 20 ms; the    *)
(* agent starts and stops speaking whenever it does.                       *)
(*                                                                         *)
(* Time is a count of ticks; only differences matter, so the clocks are    *)
(* kept as what is left of the mute and what has passed since the last     *)
(* frame and since the agent last spoke.                                   *)
(***************************************************************************)
EXTENDS SttClient

CONSTANTS
  HalfDuplex,    \* settings.half_duplex
  Guard,         \* settings.listen_guard_ms, in ticks
  MaxGap,        \* the longest time between two inbound frames, in ticks
  OnsetFrames,   \* speech_onset_ms, in frames
  RearmFrames    \* silence_rearm_ms, in frames

ASSUME InboundConstants ==
  /\ HalfDuplex \in BOOLEAN
  /\ Guard \in Nat /\ MaxGap \in Nat
  /\ OnsetFrames \in Nat \ {0} /\ RearmFrames \in Nat \ {0}

VARIABLES
  speaking,   \* BargeInHandler.agent_is_speaking
  mute,       \* what is left of _mute_until, 0 when it has passed
  gap,        \* ticks since the last inbound frame
  quiet,      \* ticks since the agent last spoke, at most Guard
  witnessed,  \* a frame arrived while the agent last spoke
  vad,        \* the detector: its state and the run it counts
  kept,       \* frames handed on as they came; the others became silence
  onsets,     \* frames at which the detector fired
  echo        \* history variable: frames that carry the agent's voice

gateVars == <<speaking, mute, gap, quiet, witnessed, vad, kept, onsets, echo>>
inboundVars == <<vars, gateVars>>

Idle == [state |-> "idle", run |-> 0]

InboundInit ==
  /\ Init
  /\ speaking = FALSE /\ mute = 0 /\ gap = 0 /\ quiet = Guard /\ witnessed = FALSE
  /\ vad = Idle
  /\ kept = {} /\ onsets = {} /\ echo = {}

Fires(speech) == vad.state = "idle" /\ speech /\ vad.run + 1 >= OnsetFrames

\* _process_frame: an onset after OnsetFrames frames of speech on end, the
\* next one after RearmFrames frames without.
Scored(speech) ==
  IF vad.state = "idle"
  THEN IF Fires(speech) THEN [state |-> "speaking", run |-> 0]
       ELSE [vad EXCEPT !.run = IF speech THEN @ + 1 ELSE 0]
  ELSE IF speech THEN [vad EXCEPT !.run = 0]
       ELSE IF vad.run + 1 >= RearmFrames THEN Idle
       ELSE [vad EXCEPT !.run = @ + 1]

\* Mutant of Muted: the guard after speaking is left out.
MutedWhileSpeaking == HalfDuplex /\ speaking

\* The gate: mute lasts Guard from the last frame that found the agent speaking.
Muted == HalfDuplex /\ (speaking \/ mute > 0)

\* What is still to be heard of the agent's voice on the line, as far as the
\* guard can answer for it: a frame found the agent speaking, and frames came
\* at most MaxGap apart.
Echoing == speaking \/ (witnessed /\ quiet < Guard - MaxGap)

\* handle_audio: the frame is number fed + 1; STT gets it or silence, only the
\* detector is not given silence.
HandleAudio(speech) ==
  /\ Feed
  /\ gap' = 0
  /\ witnessed' = (witnessed \/ speaking)
  /\ mute' = IF HalfDuplex /\ speaking THEN Guard ELSE mute
  /\ echo' = IF HalfDuplex /\ Echoing THEN echo \cup {fed + 1} ELSE echo
  /\ IF Muted
     THEN UNCHANGED <<vad, kept, onsets>>
     ELSE /\ vad' = Scored(speech)
          /\ kept' = kept \cup {fed + 1}
          /\ onsets' = IF Fires(speech) THEN onsets \cup {fed + 1} ELSE onsets
  /\ UNCHANGED <<speaking, quiet>>

Minus(n) == IF n > 0 THEN n - 1 ELSE 0

\* Time passes, in a call whose frames keep coming.
Tick ==
  /\ gap < MaxGap
  /\ gap' = gap + 1
  /\ mute' = Minus(mute)
  /\ quiet' = IF speaking \/ quiet = Guard THEN quiet ELSE quiet + 1
  /\ UNCHANGED <<vars, speaking, witnessed, vad, kept, onsets, echo>>

SpeakStarts ==
  /\ HalfDuplex /\ ~speaking
  /\ speaking' = TRUE /\ quiet' = 0 /\ witnessed' = FALSE
  /\ UNCHANGED <<vars, mute, gap, vad, kept, onsets, echo>>

SpeakStops ==
  /\ speaking
  /\ speaking' = FALSE
  /\ UNCHANGED <<vars, mute, gap, quiet, witnessed, vad, kept, onsets, echo>>

\* What the STT client does apart from taking frames in.
Client ==
  \/ Connect \/ SendTakes \/ SendReturns \/ SendCancelled
  \/ Message \/ MessageRaises \/ Recv \/ Aclose \/ Close \/ CloseCancelled

InboundNext ==
  \/ \E speech \in BOOLEAN : HandleAudio(speech)
  \/ Tick \/ SpeakStarts \/ SpeakStops
  \/ Client /\ UNCHANGED gateVars

InboundSpec == InboundInit /\ [][InboundNext]_inboundVars /\ Fairness

-----------------------------------------------------------------------------
\* In half duplex the agent never hears itself: what the provider has, gets or
\* will get of a frame that carries the agent's voice is silence, and the
\* detector takes no onset from it.  The guard is counted from a frame, not
\* from the end of the speech (agent.py:223-233), so it is short by the time
\* between two frames and absent after a speech no frame fell into.
EchoSilenced ==
  /\ \A f \in Range(sent) \cup Range(feed) \cup {sending} : f \in echo => f \notin kept
  /\ onsets \cap echo = {}
=============================================================================
