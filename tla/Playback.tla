------------------------------ MODULE Playback ------------------------------
(***************************************************************************)
(* What the outbound side of a call promises the caller, with no queue, no *)
(* pacer and no epochs: utterances are played one after another, each from *)
(* its first frame on and each frame once; a barge-in or a closed stream   *)
(* silences at once everything begun before it.                            *)
(***************************************************************************)
EXTENDS Integers, Sequences

CONSTANT MaxFrames   \* the longest utterance, in frames

VARIABLES
  played,   \* what the socket was given, in order
  begun,    \* utterances begun
  live,     \* the utterances that may still sound
  open      \* the stream is open

vars == <<played, begun, live, open>>

Frame(u, n) == [kind |-> "audio", utt |-> u, n |-> n]
Fence(u, n) == [kind |-> "mark", utt |-> u, n |-> n]
Silence == [kind |-> "clear", utt |-> 0, n |-> 0]

Heard(m) == \E i \in DOMAIN played : played[i] = m

Init ==
  /\ played = <<>>
  /\ begun = 0
  /\ live = {}
  /\ open = TRUE

\* A closed stream accepts an utterance and plays none of it.
Begin ==
  /\ begun' = begun + 1
  /\ live' \subseteq live \cup (IF open THEN {begun + 1} ELSE {})
  /\ UNCHANGED <<played, open>>

\* The next frame of the oldest utterance that still has something to say.
Play(u, n) ==
  /\ open
  /\ u \in live
  /\ n > 0
  /\ n > 1 => Heard(Frame(u, n - 1))
  /\ ~Heard(Frame(u, n))
  /\ \A i \in DOMAIN played : played[i].utt <= u
  /\ played' = Append(played, Frame(u, n))
  /\ live' \subseteq live
  /\ UNCHANGED <<begun, open>>

\* The mark that ends an utterance: all that was handed over of it, n frames,
\* was played.
End(u, n) ==
  /\ open
  /\ u \in live
  /\ n > 0 => Heard(Frame(u, n))
  /\ ~Heard(Frame(u, n + 1))
  /\ played' = Append(played, Fence(u, n))
  /\ live' \subseteq live \ {u}
  /\ UNCHANGED <<begun, open>>

Abandon ==
  /\ live' \subseteq live
  /\ UNCHANGED <<played, begun, open>>

Interrupt ==
  /\ live' = {}
  /\ played' = Append(played, Silence)
  /\ UNCHANGED <<begun, open>>

Close ==
  /\ live' = {}
  /\ open' = FALSE
  /\ UNCHANGED <<played, begun>>

Next ==
  \/ Begin \/ Abandon \/ Interrupt \/ Close
  \/ \E u \in live, n \in 0..MaxFrames : Play(u, n) \/ End(u, n)

Spec == Init /\ [][Next]_vars
=============================================================================
