----------------------------- MODULE AgentAudio -----------------------------
(***************************************************************************)
(* The agent and the caller's ear: VoiceAgent with the history of what the *)
(* line carried.  MediaStream implements Playback for one utterance after  *)
(* another, begun by anybody; here the agent's tasks, barge-ins, failures  *)
(* and cancellations begin, feed and abandon them, and what the caller is  *)
(* given is still what Playback promises.                                  *)
(***************************************************************************)
EXTENDS VoiceAgent

VARIABLE played  \* history variable: what the line carried, in order

audioVars == <<vars, played>>

\* A sound of the agent as Playback names it, and the clear.
Carried(sound) == [kind |-> sound.kind, utt |-> sound.speak, n |-> sound.n]
Cleared == [kind |-> "clear", utt |-> 0, n |-> 0]

AudioInit == Init /\ played = <<>>

\* The line carries the oldest sound when Telnyx takes it, and the clear of a
\* flush while the socket lives.
Carries ==
  played' = CASE epoch' # epoch /\ ~mediaClosed'            -> Append(played, Cleared)
              [] epoch' = epoch /\ Len(air') < Len(air) -> Append(played, Carried(Head(air)))
              [] OTHER                                      -> played

AudioNext == Next /\ Carries

AudioSpec == AudioInit /\ [][AudioNext]_audioVars

----------------------------------------------------------------------------
\* The speaks that may still sound: those on their way to the caller, and the
\* one whose synthesis the port still takes.
Sounding ==
  {air[i].speak : i \in DOMAIN air} \cup (IF r.pc = "synth" /\ Accepted THEN {speakGen} ELSE {})

Line == INSTANCE Playback WITH begun <- speakGen, live <- Sounding, open <- ~mediaClosed

\* Whatever is interrupted, superseded, cancelled or failing, the caller hears
\* the agent's speaks one after another, each frame by frame from its first and
\* none twice, and nothing begun before a barge-in or a dead socket after it; a
\* superseded reply is heard out ahead of the next one, never mixed with it
\* (agent.py:428-441, media.py:166-175).
HeardAsPromised == Line!Spec
=============================================================================
