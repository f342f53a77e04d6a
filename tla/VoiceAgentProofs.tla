-------------------------- MODULE VoiceAgentProofs --------------------------
(***************************************************************************)
(* Theorems about VoiceAgent, for every configuration, every set of faults *)
(* and every number of events.                                             *)
(***************************************************************************)
EXTENDS AgentAudio, FiniteSetTheorems, WellFoundedInduction, TLAPS

----------------------------------------------------------------------------
(* Who speaks, and who was interrupted                                     *)

\* Inductive: before the greeting there is no response, and the flags of the
\* barge-in handler describe the response there is.
FlagInv ==
  /\ {"pc", "cancel"} \subseteq DOMAIN r
  /\ runPc = "connect" => r.pc = "none"
  /\ SpeakingFlagExact
  /\ InterruptionOwned

\* A response that begins to speak raises its flag.
LEMMA StartSpeakFlags ==
  ASSUME FlagInv, NEW q, NEW text, {"pc", "cancel"} \subseteq DOMAIN q,
         StartSpeak(q, text), runPc' = runPc, gen' = gen, Live
  PROVE  FlagInv'
BY DEF FlagInv, StartSpeak, SpeakingFlagExact, InterruptionOwned, InSpeak, Live

\* The finally block lowers both flags.
LEMMA FinishFlags ==
  ASSUME FlagInv, NEW q, NEW h, NEW end, {"pc", "cancel"} \subseteq DOMAIN q,
         Finish(q, h, end), runPc' = runPc, Live
  PROVE  FlagInv'
BY DEF FlagInv, Finish, Release, SpeakingFlagExact, InterruptionOwned, InSpeak, Live

\* What concerns neither the position of the response nor the flags.
LEMMA SameFlags ==
  ASSUME FlagInv, {"pc", "cancel"} \subseteq DOMAIN r', r'.pc = r.pc,
         UNCHANGED <<gen, speaking, barged, bargedGens>>,
         runPc' = "connect" => runPc = "connect"
  PROVE  FlagInv'
BY DEF FlagInv, SpeakingFlagExact, InterruptionOwned, InSpeak

\* A new generation meets lowered flags.
LEMMA NewFlags ==
  ASSUME FlagInv, NEW kind, NewGeneration(kind), ~Live, runPc' # "connect",
         UNCHANGED <<speaking, barged>>
  PROVE  FlagInv'
BY DEF FlagInv, NewGeneration, NewResponse, SpeakingFlagExact, InterruptionOwned, InSpeak, Live

LEMMA ResponseFlags == FlagInv /\ ResponseStep => FlagInv'
<1> SUFFICES ASSUME FlagInv, ResponseStep PROVE FlagInv'
  OBVIOUS
<1> USE DEF Runs, respUnchanged, runVars, bargeVars
<1>0. {"pc", "cancel"} \subseteq DOMAIN r
  BY DEF FlagInv
<1>1. CASE GreetStarts
  BY <1>0, <1>1, StartSpeakFlags DEF GreetStarts, Live
<1>2. CASE ReplySkipped
  BY <1>2 DEF ReplySkipped, FlagInv, SpeakingFlagExact, InterruptionOwned, InSpeak
<1>3. CASE ReplyStarts
  <2>1. CASE exhausted'
    BY <1>0, <1>3, <2>1, StartSpeakFlags DEF ReplyStarts, AskLlm, Live
  <2>2. CASE ~exhausted'
    BY <1>3, <2>2
       DEF ReplyStarts, AskLlm, FlagInv, SpeakingFlagExact, InterruptionOwned, InSpeak
  <2> QED
    BY <2>1, <2>2
<1>4. CASE LlmReplies
  BY <1>0, <1>4, StartSpeakFlags DEF LlmReplies, Live
<1>5. CASE LlmEmpty
  BY <1>0, <1>5, FinishFlags DEF LlmEmpty, Live
<1>6. CASE LlmFails
  BY <1>0, <1>6, StartSpeakFlags DEF LlmFails, Live
<1>7. CASE LlmCallsTools
  <2>1. CASE r.rounds + 1 > MaxToolRounds
    <3>1. StartSpeak([r EXCEPT !.rounds = @ + 1, !.full = "fallback"], "fallback")
      BY <1>7, <2>1 DEF LlmCallsTools
    <3> QED
      BY <1>0, <1>7, <3>1, StartSpeakFlags DEF LlmCallsTools, Live
  <2>2. CASE ~(r.rounds + 1 > MaxToolRounds)
    BY <1>7, <2>2 DEF LlmCallsTools, FlagInv, SpeakingFlagExact, InterruptionOwned, InSpeak
  <2> QED
    BY <2>1, <2>2
<1>8. CASE ToolAnswers
  <2> DEFINE q == [r EXCEPT !.calls = Tail(@)]
  <2>0. {"pc", "cancel"} \subseteq DOMAIN q /\ Live
    BY <1>0, <1>8 DEF ToolAnswers, Live
  <2>1. CASE q.calls # <<>>
    BY <1>0, <1>8, <2>1, SameFlags DEF ToolAnswers
  <2>2. CASE q.calls = <<>> /\ exhausted'
    <3>1. StartSpeak([q EXCEPT !.full = "budget"], "budget")
      BY <1>8, <2>2 DEF ToolAnswers, AskLlm
    <3> QED
      BY <1>8, <2>0, <3>1, StartSpeakFlags DEF ToolAnswers
  <2>3. CASE q.calls = <<>> /\ ~exhausted'
    BY <1>8, <2>3
       DEF ToolAnswers, AskLlm, FlagInv, SpeakingFlagExact, InterruptionOwned, InSpeak
  <2> QED
    BY <2>1, <2>2, <2>3
<1>9. CASE ToolRaises
  BY <1>0, <1>9, StartSpeakFlags DEF ToolRaises, Live
<1>10. CASE FrameSent
  BY <1>0, <1>10, SameFlags DEF FrameSent
<1>11. CASE SynthesisEnds
  BY <1>11 DEF SynthesisEnds, FlagInv, SpeakingFlagExact, InterruptionOwned, InSpeak
<1>12. CASE SynthesisFails
  <2>1. CASE r.kind = "reply" /\ ~r.apology
    BY <1>0, <1>12, <2>1, StartSpeakFlags DEF SynthesisFails, Live
  <2>2. CASE ~(r.kind = "reply" /\ ~r.apology)
    BY <1>0, <1>12, <2>2, FinishFlags DEF SynthesisFails, Live
  <2> QED
    BY <2>1, <2>2
<1>13. CASE PlayConfirmed \/ PlayTimesOut
  <2>1. Played /\ Live
    BY <1>13 DEF PlayConfirmed, PlayTimesOut, Played, Live
  <2> QED
    BY <1>0, <2>1, FinishFlags DEF Played
<1>14. CASE ReplyHangsUp
  BY <1>14 DEF ReplyHangsUp, FlagInv, SpeakingFlagExact, InterruptionOwned, InSpeak
<1>15. CASE CancelledOutside
  BY <1>15 DEF CancelledOutside, FlagInv, SpeakingFlagExact, InterruptionOwned, InSpeak
<1>16. CASE CancelledInside
  BY <1>0, <1>16, FinishFlags DEF CancelledInside, Live
<1> QED
  BY <1>1, <1>2, <1>3, <1>4, <1>5, <1>6, <1>7, <1>8, <1>9, <1>10, <1>11, <1>12,
     <1>13, <1>14, <1>15, <1>16 DEF ResponseStep

\* Tearing down keeps the response where it is.
LEMMA TeardownFlags ==
  ASSUME FlagInv, Teardown
  PROVE  {"pc", "cancel"} \subseteq DOMAIN r' /\ r'.pc = r.pc /\ runPc' # "connect"
BY DEF FlagInv, Teardown

LEMMA LeaveFlags ==
  ASSUME FlagInv, NEW end, Leave(end), UNCHANGED <<speaking, barged, bargedGens>>
  PROVE  FlagInv'
<1>1. /\ {"pc", "cancel"} \subseteq DOMAIN r' /\ r'.pc = r.pc
      /\ runPc' # "connect" /\ gen' = gen
  <2>1. CASE degraded'
    BY <2>1 DEF Leave, FlagInv
  <2>2. CASE ~degraded'
    BY <2>2, TeardownFlags DEF Leave
  <2> QED
    BY <2>1, <2>2
<1> QED
  BY <1>1, SameFlags

LEMMA CancellationFlags ==
  ASSUME FlagInv, RequestCancellation
  PROVE  {"pc", "cancel"} \subseteq DOMAIN r' /\ r'.pc = r.pc
BY DEF FlagInv, RequestCancellation

LEMMA RunFlags == FlagInv /\ RunStep => FlagInv'
<1> SUFFICES ASSUME FlagInv, RunStep PROVE FlagInv'
  OBVIOUS
<1> USE DEF runUnchanged, runVars, bargeVars
<1>0. {"pc", "cancel"} \subseteq DOMAIN r
  BY DEF FlagInv
<1>1. CASE Connects
  <2>0. ~Live
    BY <1>1 DEF Connects, FlagInv, Live
  <2>1. CASE NewGeneration("greet") /\ runPc' = "get"
    BY <1>1, <2>0, <2>1, NewFlags DEF Connects
  <2>2. CASE runPc' \in {"bye", "get"} /\ UNCHANGED <<gen, r>>
    BY <1>0, <1>1, <2>2, SameFlags DEF Connects
  <2> QED
    BY <1>1, <2>1, <2>2 DEF Connects
<1>2. CASE HangsUpUnheard \/ HangsUp \/ ReapRaises \/ RunFails
  BY <1>2, LeaveFlags DEF HangsUpUnheard, HangsUp, ReapRaises, RunFails
<1>3. CASE SpeakEnds \/ IgnoresInput \/ Listens
  BY <1>0, <1>3, SameFlags DEF SpeakEnds, IgnoresInput, Listens
<1>4. CASE BargesIn
  BY <1>4 DEF BargesIn, Interrupts, FlagInv, SpeakingFlagExact, InterruptionOwned, InSpeak
<1>5. CASE Flushed \/ Supersedes
  BY <1>5, CancellationFlags, SameFlags DEF Flushed, Supersedes
<1>6. CASE Answers \/ Reaps
  BY <1>6, NewFlags DEF Answers, Reaps, Commit, Takes
<1>7. CASE HangsUpDegraded
  BY <1>7, TeardownFlags, SameFlags DEF HangsUpDegraded
<1>8. CASE TornDown \/ ClosesStt \/ ClosesMedia
  BY <1>0, <1>8, SameFlags DEF TornDown, ClosesStt, ClosesMedia
<1> QED
  BY <1>1, <1>2, <1>3, <1>4, <1>5, <1>6, <1>7, <1>8 DEF RunStep

LEMMA EnvironmentFlags == FlagInv /\ Environment => FlagInv'
<1> SUFFICES ASSUME FlagInv, Environment PROVE FlagInv'
  OBVIOUS
<1> USE DEF quiet, runVars, bargeVars
<1>0. {"pc", "cancel"} \subseteq DOMAIN r
  BY DEF FlagInv
<1>1. CASE SttInterim \/ SttFinal \/ SttEnd \/ VadOnset \/ TelnyxPlays \/ MarkArrives
           \/ ServerHangsUp \/ SttDies \/ MediaDies
  <2>1. UNCHANGED <<gen, r, speaking, barged, bargedGens, runPc>>
    BY <1>1 DEF SttInterim, SttFinal, SttEnd, VadOnset, TelnyxPlays, MarkArrives,
                ServerHangsUp, SttDies, MediaDies
  <2> QED
    BY <1>0, <2>1, SameFlags
<1>2. CASE ServerCancels
  <2>0. UNCHANGED <<speaking, barged, bargedGens>>
    BY <1>2 DEF ServerCancels
  <2>1. CASE Leave("cancelled")
    BY <2>0, <2>1, LeaveFlags
  <2>2. CASE r' = [r EXCEPT !.cancel = TRUE] /\ UNCHANGED <<runPc, gen>>
    BY <1>0, <2>0, <2>2, SameFlags
  <2>3. CASE runPc' \in {"done", runPc} /\ UNCHANGED <<r, gen>>
    BY <1>0, <2>0, <2>3, SameFlags
  <2> QED
    BY <1>2, <2>1, <2>2, <2>3 DEF ServerCancels
<1> QED
  BY <1>1, <1>2 DEF Environment

LEMMA InitFlags == Init => FlagInv
BY DEF Init, NewResponse, FlagInv, SpeakingFlagExact, InterruptionOwned, InSpeak

LEMMA FlagStep == FlagInv /\ [Next]_vars => FlagInv'
<1> SUFFICES ASSUME FlagInv, [Next]_vars PROVE FlagInv'
  OBVIOUS
<1>1. CASE UNCHANGED vars
  BY <1>1 DEF FlagInv, SpeakingFlagExact, InterruptionOwned, InSpeak, vars, runVars, bargeVars
<1>2. CASE Next
  BY <1>2, ResponseFlags, RunFlags, EnvironmentFlags DEF Next
<1> QED
  BY <1>1, <1>2

\* The speaking flag, which gates the caller in half duplex and the barge-in in
\* full duplex, is exact.
THEOREM FlagExact == Spec => []SpeakingFlagExact
<1>1. FlagInv => SpeakingFlagExact
  BY DEF FlagInv
<1> QED
  BY <1>1, InitFlags, FlagStep, PTL DEF Spec

\* The interrupted flag belongs to the response that was interrupted.
THEOREM FlagOwned == Spec => []InterruptionOwned
<1>1. FlagInv => InterruptionOwned
  BY DEF FlagInv
<1> QED
  BY <1>1, InitFlags, FlagStep, PTL DEF Spec

----------------------------------------------------------------------------
(* One response at a time                                                  *)

\* Only the run loop allocates generations.
LEMMA OthersKeepGen == ResponseStep \/ Environment => gen' = gen
<1>1. ResponseStep => gen' = gen
  BY DEF ResponseStep, respUnchanged, GreetStarts, ReplySkipped, ReplyStarts, LlmReplies,
         LlmEmpty, LlmFails, LlmCallsTools, ToolAnswers, ToolRaises, FrameSent,
         SynthesisEnds, SynthesisFails, PlayConfirmed, PlayTimesOut, Played,
         ReplyHangsUp, CancelledOutside, CancelledInside
<1>2. Environment => gen' = gen
  BY DEF Environment, quiet, SttInterim, SttFinal, SttEnd, VadOnset, TelnyxPlays,
         MarkArrives, ServerHangsUp, SttDies, MediaDies, ServerCancels, Leave
<1> QED
  BY <1>1, <1>2

\* The run loop does so at the start and for a turn.
LEMMA WhoAllocates == RunStep /\ gen' # gen => Connects \/ Answers \/ Reaps
BY DEF RunStep, HangsUpUnheard, HangsUp, SpeakEnds, IgnoresInput, BargesIn, Flushed,
       Listens, Supersedes, ReapRaises, RunFails, HangsUpDegraded, TornDown, ClosesStt,
       ClosesMedia, Leave

\* A new response starts only when its predecessor is over.
THEOREM OneGeneration == Spec => OneGenerationAtATime
<1>1. FlagInv /\ [Next]_vars => [gen' # gen => ~Live]_vars
  <2> SUFFICES ASSUME FlagInv, Next, gen' # gen PROVE ~Live
    OBVIOUS
  <2>1. Connects \/ Answers \/ Reaps
    BY OthersKeepGen, WhoAllocates DEF Next
  <2> QED
    BY <2>1 DEF Connects, Answers, Reaps, FlagInv, Live
<1> QED
  BY <1>1, InitFlags, FlagStep, PTL DEF Spec, OneGenerationAtATime

----------------------------------------------------------------------------
(* An undisturbed end is clean                                             *)

\* Inductive: what has been closed on the way out, in the order of _teardown.
OverInv ==
  ~stops =>
    /\ runPc \in {"closeStt", "closeMedia", "done"} => ~Live
    /\ runPc \in {"closeMedia", "done"} => ~sttUp
    /\ runPc = "done" => mediaClosed /\ agentClosed

\* A response that is over stays over, but for the run loop.
LEMMA ResponseIsLive == ResponseStep => Live
BY DEF ResponseStep, Live, Runs, GreetStarts, ReplySkipped, ReplyStarts, LlmReplies,
       LlmEmpty, LlmFails, LlmCallsTools, ToolAnswers, ToolRaises, FrameSent,
       SynthesisEnds, SynthesisFails, PlayConfirmed, PlayTimesOut, Played,
       ReplyHangsUp, CancelledOutside, CancelledInside

LEMMA ResponseOver == OverInv /\ ResponseStep => OverInv'
<1> SUFFICES ASSUME OverInv, ResponseStep PROVE OverInv'
  OBVIOUS
<1>1. UNCHANGED <<runPc, stops>>
  BY DEF ResponseStep, respUnchanged, runVars, inputVars, GreetStarts, ReplySkipped,
         ReplyStarts, LlmReplies, LlmEmpty, LlmFails, LlmCallsTools, ToolAnswers,
         ToolRaises, FrameSent, SynthesisEnds, SynthesisFails, PlayConfirmed,
         PlayTimesOut, Played, ReplyHangsUp, CancelledOutside, CancelledInside
<1> QED
  BY <1>1, ResponseIsLive DEF OverInv

\* The loop goes to its hangup or its teardown, and closes STT only when no
\* response is running.
LEMMA LeaveOver ==
  ASSUME Leave("returned") \/ Leave("cancelled") \/ Teardown
  PROVE  /\ runPc' \in {"degraded", "teardown", "closeStt"}
         /\ runPc' = "closeStt" => ~Live'
BY DEF Leave, Teardown, Live

LEMMA RunOver == OverInv /\ RunStep => OverInv'
<1> SUFFICES ASSUME OverInv, RunStep PROVE OverInv'
  OBVIOUS
<1> USE DEF runUnchanged, runVars, inputVars
<1>1. CASE Connects \/ SpeakEnds \/ IgnoresInput \/ BargesIn \/ Flushed \/ Listens
           \/ Answers \/ Supersedes \/ Reaps
  <2>1. runPc' \in {"bye", "get", "flush", "reap"}
    BY <1>1 DEF Connects, SpeakEnds, IgnoresInput, BargesIn, Flushed, Listens, Answers,
                Supersedes, Reaps, Takes
  <2> QED
    BY <2>1 DEF OverInv
<1>2. CASE HangsUpUnheard \/ HangsUp \/ ReapRaises \/ RunFails \/ HangsUpDegraded
  <2>1. Leave("returned") \/ Leave("cancelled") \/ Teardown
    BY <1>2 DEF HangsUpUnheard, HangsUp, ReapRaises, RunFails, HangsUpDegraded
  <2> QED
    BY <2>1, LeaveOver DEF OverInv
<1>3. CASE TornDown
  BY <1>3 DEF TornDown, OverInv, Live
<1>4. CASE ClosesStt
  BY <1>4 DEF ClosesStt, OverInv, Live
<1>5. CASE ClosesMedia
  BY <1>5 DEF ClosesMedia, OverInv, Live
<1> QED
  BY <1>1, <1>2, <1>3, <1>4, <1>5 DEF RunStep

LEMMA EnvironmentOver == OverInv /\ Environment => OverInv'
<1> SUFFICES ASSUME OverInv, Environment PROVE OverInv'
  OBVIOUS
<1> USE DEF quiet, runVars, inputVars, mediaVars
<1>1. CASE SttInterim \/ SttFinal \/ SttEnd \/ VadOnset \/ TelnyxPlays \/ MarkArrives
           \/ ServerHangsUp \/ SttDies \/ MediaDies
  <2>1. UNCHANGED <<r, runPc, stops, agentClosed>> /\ (sttUp' => sttUp)
    BY <1>1 DEF SttInterim, SttFinal, SttEnd, VadOnset, TelnyxPlays, MarkArrives,
                ServerHangsUp, SttDies, MediaDies
  <2>2. mediaClosed => mediaClosed'
    BY <1>1 DEF SttInterim, SttFinal, SttEnd, VadOnset, TelnyxPlays, MarkArrives,
                ServerHangsUp, SttDies, MediaDies
  <2> QED
    BY <2>1, <2>2 DEF OverInv, Live
<1>2. CASE ServerCancels
  BY <1>2 DEF ServerCancels, OverInv
<1> QED
  BY <1>1, <1>2 DEF Environment

\* Unless the server cancels it, a run loop that is over leaves no task, no
\* socket and no client behind.
THEOREM OverIsClean == Spec => []CleanEnd
<1>1. Init => OverInv
  BY DEF Init, OverInv
<1>2. OverInv /\ [Next]_vars => OverInv'
  <2> SUFFICES ASSUME OverInv, [Next]_vars PROVE OverInv'
    OBVIOUS
  <2>1. CASE UNCHANGED vars
    BY <2>1 DEF OverInv, Live, vars, runVars, inputVars, mediaVars
  <2>2. CASE Next
    BY <2>2, ResponseOver, RunOver, EnvironmentOver DEF Next
  <2> QED
    BY <2>1, <2>2
<1>3. OverInv => CleanEnd
  BY DEF OverInv, CleanEnd
<1> QED
  BY <1>1, <1>2, <1>3, PTL DEF Spec

----------------------------------------------------------------------------
(* No turn once the conversation is ending                                 *)

\* Inductive: only an ending conversation is hung up by its response; a
\* generation whose cancellation was requested has it pending or hangs up; and
\* while a turn waits for the old response, that response is cancelled, so that
\* none of its tools can end the conversation any more.
EndInv ==
  /\ {"pc", "cancel"} \subseteq DOMAIN r
  /\ gen \in Nat /\ cancelled \subseteq 0..gen
  /\ r.pc = "bye" => ending
  /\ gen \in cancelled /\ Live => r.cancel \/ r.pc = "bye"
  /\ runPc = "reap" => ~ending /\ (Live => r.cancel)

\* A step of a response that is not cancelled, neither into nor out of its
\* hangup.
LEMMA RunsOn ==
  ASSUME EndInv, Live, ~r.cancel, r.pc # "bye", {"pc", "cancel"} \subseteq DOMAIN r',
         r'.pc # "bye", UNCHANGED <<gen, cancelled, runPc>>
  PROVE  EndInv'
BY DEF EndInv, Live

\* The finally block, of a response that ran on or was cancelled.
LEMMA FinishEnds ==
  ASSUME EndInv, NEW q, NEW h, NEW end, {"pc", "cancel"} \subseteq DOMAIN q,
         Finish(q, h, end), Live, r.pc # "bye", UNCHANGED <<gen, cancelled, runPc, ending>>
  PROVE  EndInv'
BY DEF EndInv, Finish, Live

LEMMA ResponseEnds == EndInv /\ ResponseStep => EndInv'
<1> SUFFICES ASSUME EndInv, ResponseStep PROVE EndInv'
  OBVIOUS
<1> USE DEF Runs, respUnchanged, runVars, flagVars
<1>0. {"pc", "cancel"} \subseteq DOMAIN r
  BY DEF EndInv
<1>1. CASE GreetStarts
  BY <1>0, <1>1, RunsOn DEF GreetStarts, StartSpeak, Live
<1>2. CASE ReplySkipped
  BY <1>0, <1>2, RunsOn DEF ReplySkipped, Live
<1>3. CASE ReplyStarts
  <2>1. {"pc", "cancel"} \subseteq DOMAIN r' /\ r'.pc \in {"synth", "llm"}
    BY <1>0, <1>3 DEF ReplyStarts, AskLlm, StartSpeak
  <2> QED
    BY <1>3, <2>1, RunsOn DEF ReplyStarts, Live
<1>4. CASE LlmReplies
  BY <1>0, <1>4, RunsOn DEF LlmReplies, StartSpeak, Live
<1>5. CASE LlmEmpty
  BY <1>0, <1>5, FinishEnds DEF LlmEmpty, Live
<1>6. CASE LlmFails
  BY <1>0, <1>6, RunsOn DEF LlmFails, StartSpeak, Live
<1>7. CASE LlmCallsTools
  <2>1. {"pc", "cancel"} \subseteq DOMAIN r' /\ r'.pc \in {"synth", "tool"}
    BY <1>0, <1>7 DEF LlmCallsTools, StartSpeak
  <2> QED
    BY <1>7, <2>1, RunsOn DEF LlmCallsTools, Live
<1>8. CASE ToolAnswers
  <2>1. {"pc", "cancel"} \subseteq DOMAIN r' /\ r'.pc \in {"synth", "llm", "tool"}
    BY <1>0, <1>8 DEF ToolAnswers, AskLlm, StartSpeak
  <2> QED
    BY <1>8, <2>1, RunsOn DEF ToolAnswers, Live
<1>9. CASE ToolRaises
  BY <1>0, <1>9, RunsOn DEF ToolRaises, StartSpeak, Live
<1>10. CASE FrameSent
  BY <1>0, <1>10, RunsOn DEF FrameSent, Live
<1>11. CASE SynthesisEnds
  BY <1>0, <1>11, RunsOn DEF SynthesisEnds, Live
<1>12. CASE SynthesisFails
  <2>1. CASE r.kind = "reply" /\ ~r.apology
    BY <1>0, <1>12, <2>1, RunsOn DEF SynthesisFails, StartSpeak, Live
  <2>2. CASE ~(r.kind = "reply" /\ ~r.apology)
    BY <1>0, <1>12, <2>2, FinishEnds DEF SynthesisFails, Live
  <2> QED
    BY <2>1, <2>2
<1>13. CASE PlayConfirmed \/ PlayTimesOut
  <2>1. Played
    BY <1>13 DEF PlayConfirmed, PlayTimesOut
  <2> QED
    BY <1>0, <2>1, FinishEnds DEF Played, Live
<1>14. CASE ReplyHangsUp
  BY <1>14 DEF ReplyHangsUp, EndInv, Live
<1>15. CASE CancelledOutside
  BY <1>15 DEF CancelledOutside, EndInv, Live
<1>16. CASE CancelledInside
  BY <1>0, <1>16, FinishEnds DEF CancelledInside, Live
<1> QED
  BY <1>1, <1>2, <1>3, <1>4, <1>5, <1>6, <1>7, <1>8, <1>9, <1>10, <1>11, <1>12,
     <1>13, <1>14, <1>15, <1>16 DEF ResponseStep

\* The response stays as it is or is cancelled, away from a waiting turn.
LEMMA CancelEnds ==
  ASSUME EndInv, r' = r \/ r' = [r EXCEPT !.cancel = TRUE],
         UNCHANGED <<gen, cancelled>>, ending => ending',
         runPc' = "reap" => runPc = "reap" /\ ending' = ending
  PROVE  EndInv'
BY DEF EndInv, Live

\* A generation that is cancelled has the cancellation pending, unless it
\* hangs up already.
LEMMA RequestEnds ==
  ASSUME EndInv, RequestCancellation, UNCHANGED <<gen, ending>>,
         runPc' = "reap" => ~ending
  PROVE  EndInv'
<1>1. CASE gen \in cancelled \/ ~Live
  BY <1>1 DEF RequestCancellation, EndInv, Live
<1>2. CASE ~(gen \in cancelled \/ ~Live)
  BY <1>2 DEF RequestCancellation, EndInv, Live
<1> QED
  BY <1>1, <1>2

\* A new generation was never cancelled.
LEMMA NewEnds ==
  ASSUME EndInv, NEW kind, NewGeneration(kind), UNCHANGED cancelled,
         runPc' # "reap"
  PROVE  EndInv'
BY DEF EndInv, NewGeneration, NewResponse, Live

LEMMA LeaveEnds ==
  ASSUME EndInv, Leave("returned") \/ Leave("cancelled"), UNCHANGED ending
  PROVE  EndInv'
<1>1. /\ r' = r \/ r' = [r EXCEPT !.cancel = TRUE]
      /\ UNCHANGED <<gen, cancelled>> /\ runPc' # "reap"
  BY DEF Leave, Teardown
<1> QED
  BY <1>1, CancelEnds

LEMMA RunEnds == EndInv /\ RunStep => EndInv'
<1> SUFFICES ASSUME EndInv, RunStep PROVE EndInv'
  OBVIOUS
<1> USE DEF runUnchanged, runVars, flagVars
<1>1. CASE Connects
  <2>1. CASE NewGeneration("greet") /\ runPc' = "get"
    BY <1>1, <2>1, NewEnds DEF Connects
  <2>2. CASE runPc' \in {"bye", "get"} /\ UNCHANGED <<gen, r>>
    BY <1>1, <2>2, CancelEnds DEF Connects
  <2> QED
    BY <1>1, <2>1, <2>2 DEF Connects
<1>2. CASE HangsUpUnheard \/ HangsUp \/ ReapRaises \/ RunFails
  BY <1>2, LeaveEnds DEF HangsUpUnheard, HangsUp, ReapRaises, RunFails
<1>3. CASE SpeakEnds \/ IgnoresInput \/ Listens \/ BargesIn \/ TornDown
           \/ ClosesStt \/ ClosesMedia
  BY <1>3, CancelEnds DEF SpeakEnds, IgnoresInput, Listens, BargesIn, TornDown,
                          ClosesStt, ClosesMedia
<1>4. CASE Flushed \/ Supersedes
  BY <1>4, RequestEnds DEF Flushed, Supersedes, Heeds
<1>5. CASE Answers \/ Reaps
  BY <1>5, NewEnds DEF Answers, Reaps, Commit, Takes
<1>6. CASE HangsUpDegraded
  BY <1>6, CancelEnds DEF HangsUpDegraded, Teardown
<1> QED
  BY <1>1, <1>2, <1>3, <1>4, <1>5, <1>6 DEF RunStep

LEMMA EnvironmentEnds == EndInv /\ Environment => EndInv'
<1> SUFFICES ASSUME EndInv, Environment PROVE EndInv'
  OBVIOUS
<1> USE DEF quiet, runVars, flagVars
<1>1. CASE SttInterim \/ SttFinal \/ SttEnd \/ VadOnset \/ TelnyxPlays \/ MarkArrives
           \/ ServerHangsUp \/ SttDies \/ MediaDies
  <2>1. UNCHANGED <<gen, r, cancelled, runPc, ending>>
    BY <1>1 DEF SttInterim, SttFinal, SttEnd, VadOnset, TelnyxPlays, MarkArrives,
                ServerHangsUp, SttDies, MediaDies
  <2> QED
    BY <2>1, CancelEnds
<1>2. CASE ServerCancels
  <2>1. CASE Leave("cancelled")
    BY <1>2, <2>1, LeaveEnds DEF ServerCancels
  <2>2. CASE r' \in {r, [r EXCEPT !.cancel = TRUE]} /\ runPc' \in {"done", runPc}
             /\ UNCHANGED <<gen, cancelled>>
    BY <1>2, <2>2, CancelEnds DEF ServerCancels
  <2> QED
    BY <1>2, <2>1, <2>2 DEF ServerCancels
<1> QED
  BY <1>1, <1>2 DEF Environment

\* Once the conversation is ending no new response starts, in particular not
\* for the turn that waits for a response whose tool ends the conversation.
THEOREM EndingTakesNoTurn == Spec => NoTurnAfterEnding
<1>1. Init => EndInv
  BY DEF Init, NewResponse, EndInv, Live
<1>2. EndInv /\ [Next]_vars => EndInv'
  <2> SUFFICES ASSUME EndInv, [Next]_vars PROVE EndInv'
    OBVIOUS
  <2>1. CASE UNCHANGED vars
    BY <2>1 DEF EndInv, Live, vars, runVars, flagVars
  <2>2. CASE Next
    BY <2>2, ResponseEnds, RunEnds, EnvironmentEnds DEF Next
  <2> QED
    BY <2>1, <2>2
<1>3. EndInv /\ [Next]_vars => [ending /\ runPc # "connect" => gen' = gen]_vars
  <2> SUFFICES ASSUME EndInv, Next, ending, gen' # gen PROVE runPc = "connect"
    OBVIOUS
  <2>1. Connects \/ Answers \/ Reaps
    BY OthersKeepGen, WhoAllocates DEF Next
  <2> QED
    BY <2>1 DEF Connects, Answers, Reaps, Heeds, EndInv
<1> QED
  BY <1>1, <1>2, <1>3, PTL DEF Spec, NoTurnAfterEnding

----------------------------------------------------------------------------
(* How a step sounds                                                       *)

\* What these proofs know of a response's record.
Placed(q) == {"pc", "cancel", "epoch", "sent"} \subseteq DOMAIN q

\* A speak begins.
Speaks ==
  /\ speakGen' = speakGen + 1
  /\ r'.pc = "synth" /\ r'.epoch = epoch /\ r'.sent = 0
  /\ UNCHANGED <<epoch, mediaClosed, air>>

\* Nothing is given to the line or taken from it.
Quiets ==
  /\ r'.pc = "synth" => r.pc = "synth" /\ r'.epoch = r.epoch /\ r'.sent = r.sent
  /\ UNCHANGED <<speakGen, epoch, mediaClosed, air>>

\* A frame is handed over; the mark is.
Frames ==
  /\ r.pc = "synth" /\ r.sent < MaxFrames
  /\ r'.pc = "synth" /\ r'.epoch = r.epoch /\ r'.sent = r.sent + 1
  /\ air' = IF Accepted THEN Append(air, Sound("audio", r.sent + 1)) ELSE air
  /\ UNCHANGED <<speakGen, epoch, mediaClosed>>
Marks ==
  /\ r.pc = "synth" /\ r'.pc = "play"
  /\ air' = IF Accepted THEN Append(air, Sound("mark", r.sent)) ELSE air
  /\ UNCHANGED <<speakGen, epoch, mediaClosed>>

\* The line carries the oldest sound; is cleared; is dead.
Plays ==
  /\ air # <<>> /\ air' = Tail(air)
  /\ UNCHANGED <<r, speakGen, epoch, mediaClosed>>
Clears ==
  /\ air' = <<>> /\ epoch' = epoch + 1
  /\ UNCHANGED <<r, speakGen, mediaClosed>>
Dies ==
  /\ air' = <<>> /\ epoch' = epoch + 1 /\ mediaClosed' = TRUE
  /\ UNCHANGED <<r, speakGen>>

OneSound == Speaks \/ Quiets \/ Frames \/ Marks \/ Plays \/ Clears \/ Dies

LEMMA StartSpeaks ==
  ASSUME NEW q, NEW text, Placed(q), StartSpeak(q, text),
         UNCHANGED <<epoch, mediaClosed, air>>
  PROVE  Placed(r') /\ Speaks
BY DEF Placed, StartSpeak, Speaks

LEMMA FinishQuiets ==
  ASSUME NEW q, NEW h, NEW end, Placed(q), Finish(q, h, end),
         UNCHANGED <<speakGen, epoch, mediaClosed, air>>
  PROVE  Placed(r') /\ Quiets
BY DEF Placed, Finish, Quiets

\* The response keeps its place, or is not one that is being synthesised.
LEMMA StaysQuiet ==
  ASSUME Placed(r), \/ r' = r \/ r' = [r EXCEPT !.cancel = TRUE]
                       \/ \E kind : NewGeneration(kind),
         UNCHANGED <<speakGen, epoch, mediaClosed, air>>
  PROVE  Placed(r') /\ Quiets
<1>1. CASE r' = r
  BY <1>1 DEF Quiets
<1>2. CASE r' = [r EXCEPT !.cancel = TRUE]
  BY <1>2 DEF Placed, Quiets
<1>3. CASE \E kind : NewGeneration(kind)
  BY <1>3 DEF Placed, Quiets, NewGeneration, NewResponse
<1> QED
  BY <1>1, <1>2, <1>3

LEMMA ResponseSounds == Placed(r) /\ ResponseStep => Placed(r') /\ OneSound
<1> SUFFICES ASSUME Placed(r), ResponseStep PROVE Placed(r') /\ OneSound
  OBVIOUS
<1> USE DEF Runs, speakVars, mediaVars
<1>1. CASE GreetStarts
  BY <1>1, StartSpeaks DEF GreetStarts, OneSound
<1>2. CASE ReplySkipped \/ ReplyHangsUp \/ CancelledOutside
  BY <1>2 DEF ReplySkipped, ReplyHangsUp, CancelledOutside, Placed, Quiets, OneSound
<1>3. CASE ReplyStarts
  <2>1. CASE exhausted'
    <3>1. Placed([r EXCEPT !.full = "budget"])
      BY DEF Placed
    <3> QED
      BY <1>3, <2>1, <3>1, StartSpeaks DEF ReplyStarts, AskLlm, OneSound
  <2>2. CASE ~exhausted'
    BY <1>3, <2>2 DEF ReplyStarts, AskLlm, Placed, Quiets, OneSound
  <2> QED
    BY <2>1, <2>2
<1>4. CASE LlmReplies
  <2>1. Placed([r EXCEPT !.full = "reply"])
    BY DEF Placed
  <2> QED
    BY <1>4, <2>1, StartSpeaks DEF LlmReplies, OneSound
<1>5. CASE LlmEmpty
  BY <1>5, FinishQuiets DEF LlmEmpty, OneSound
<1>6. CASE LlmFails \/ ToolRaises
  <2>1. /\ Placed([r EXCEPT !.apology = TRUE])
        /\ Placed([r EXCEPT !.apology = TRUE, !.calls = <<>>])
    BY DEF Placed
  <2> QED
    BY <1>6, <2>1, StartSpeaks DEF LlmFails, ToolRaises, OneSound
<1>7. CASE LlmCallsTools
  <2>1. CASE r.rounds + 1 > MaxToolRounds
    <3>1. Placed([r EXCEPT !.rounds = @ + 1, !.full = "fallback"])
      BY DEF Placed
    <3> QED
      BY <1>7, <2>1, <3>1, StartSpeaks DEF LlmCallsTools, OneSound
  <2>2. CASE ~(r.rounds + 1 > MaxToolRounds)
    BY <1>7, <2>2 DEF LlmCallsTools, Placed, Quiets, OneSound
  <2> QED
    BY <2>1, <2>2
<1>8. CASE ToolAnswers
  <2> DEFINE q == [r EXCEPT !.calls = Tail(@)]
  <2>0. Placed(q) /\ Placed([q EXCEPT !.full = "budget"])
    BY DEF Placed
  <2>1. CASE q.calls # <<>>
    BY <1>8, <2>1 DEF ToolAnswers, Placed, Quiets, OneSound
  <2>2. CASE q.calls = <<>> /\ exhausted'
    <3>1. StartSpeak([q EXCEPT !.full = "budget"], "budget")
      BY <1>8, <2>2 DEF ToolAnswers, AskLlm
    <3>2. UNCHANGED <<epoch, mediaClosed, air>>
      BY <1>8 DEF ToolAnswers
    <3> QED
      BY <2>0, <3>1, <3>2, StartSpeaks DEF OneSound
  <2>3. CASE q.calls = <<>> /\ ~exhausted'
    BY <1>8, <2>3 DEF ToolAnswers, AskLlm, Placed, Quiets, OneSound
  <2> QED
    BY <2>1, <2>2, <2>3
<1>9. CASE FrameSent
  BY <1>9 DEF FrameSent, Placed, Frames, OneSound
<1>10. CASE SynthesisEnds
  BY <1>10 DEF SynthesisEnds, Placed, Marks, OneSound
<1>11. CASE SynthesisFails
  <2>0. Placed([r EXCEPT !.apology = TRUE]) /\ Placed([r EXCEPT !.full = r.spoken])
    BY DEF Placed
  <2>1. CASE r.kind = "reply" /\ ~r.apology
    BY <1>11, <2>0, <2>1, StartSpeaks DEF SynthesisFails, OneSound
  <2>2. CASE ~(r.kind = "reply" /\ ~r.apology)
    BY <1>11, <2>0, <2>2, FinishQuiets DEF SynthesisFails, OneSound
  <2> QED
    BY <2>1, <2>2
<1>12. CASE PlayConfirmed \/ PlayTimesOut
  <2>0. Placed(IF r.apology THEN [r EXCEPT !.full = r.spoken] ELSE r)
    BY DEF Placed
  <2>1. Played
    BY <1>12 DEF PlayConfirmed, PlayTimesOut
  <2> QED
    BY <2>0, <2>1, FinishQuiets DEF Played, OneSound
<1>13. CASE CancelledInside
  BY <1>13, FinishQuiets DEF CancelledInside, OneSound
<1> QED
  BY <1>1, <1>2, <1>3, <1>4, <1>5, <1>6, <1>7, <1>8, <1>9, <1>10, <1>11, <1>12, <1>13
     DEF ResponseStep

LEMMA OthersSound == Placed(r) /\ (RunStep \/ Environment) => Placed(r') /\ OneSound
<1> SUFFICES ASSUME Placed(r), RunStep \/ Environment PROVE Placed(r') /\ OneSound
  OBVIOUS
<1> USE DEF runUnchanged, quiet, speakVars, mediaVars
<1>1. CASE Connects \/ Answers \/ Reaps
  BY <1>1, StaysQuiet DEF Connects, Answers, Reaps, Commit, OneSound
<1>2. CASE HangsUpUnheard \/ HangsUp \/ ReapRaises \/ RunFails \/ HangsUpDegraded
  <2>1. r' = r \/ r' = [r EXCEPT !.cancel = TRUE]
    BY <1>2 DEF HangsUpUnheard, HangsUp, ReapRaises, RunFails, HangsUpDegraded, Leave,
                Teardown
  <2> QED
    BY <1>2, <2>1, StaysQuiet
       DEF HangsUpUnheard, HangsUp, ReapRaises, RunFails, HangsUpDegraded, OneSound
<1>3. CASE SpeakEnds \/ IgnoresInput \/ Listens \/ TornDown \/ ClosesStt
  BY <1>3, StaysQuiet DEF SpeakEnds, IgnoresInput, Listens, TornDown, ClosesStt, OneSound
<1>4. CASE BargesIn
  BY <1>4 DEF BargesIn, Flush, Clears, OneSound
<1>5. CASE Flushed \/ Supersedes
  <2>1. r' = r \/ r' = [r EXCEPT !.cancel = TRUE]
    BY <1>5 DEF Flushed, Supersedes, RequestCancellation
  <2> QED
    BY <1>5, <2>1, StaysQuiet DEF Flushed, Supersedes, OneSound
<1>6. CASE ClosesMedia
  <2>1. CASE mediaClosed /\ mediaClosed' = mediaClosed
    BY <1>6, <2>1, StaysQuiet DEF ClosesMedia, OneSound
  <2>2. CASE ~mediaClosed
    BY <1>6, <2>2 DEF ClosesMedia, Dies, OneSound
  <2>3. CASE mediaClosed /\ mediaClosed' # mediaClosed
    BY <1>6, <2>3 DEF ClosesMedia
  <2> QED
    BY <2>1, <2>2, <2>3
<1>7. CASE SttInterim \/ SttFinal \/ SttEnd \/ VadOnset \/ MarkArrives \/ ServerHangsUp
           \/ SttDies
  BY <1>7, StaysQuiet DEF SttInterim, SttFinal, SttEnd, VadOnset, MarkArrives,
                          ServerHangsUp, SttDies, OneSound
<1>8. CASE TelnyxPlays
  BY <1>8 DEF TelnyxPlays, Plays, OneSound
<1>9. CASE MediaDies
  BY <1>9 DEF MediaDies, Dies, OneSound
<1>10. CASE ServerCancels
  <2>1. r' = r \/ r' = [r EXCEPT !.cancel = TRUE]
    BY <1>10 DEF ServerCancels, Leave, Teardown
  <2> QED
    BY <1>10, <2>1, StaysQuiet DEF ServerCancels, OneSound
<1> QED
  BY <1>1, <1>2, <1>3, <1>4, <1>5, <1>6, <1>7, <1>8, <1>9, <1>10 DEF RunStep, Environment

\* Every step is one of the seven.
LEMMA StepSounds == Placed(r) /\ [Next]_vars => Placed(r') /\ OneSound
<1>1. CASE UNCHANGED vars
  BY <1>1 DEF vars, speakVars, mediaVars, Quiets, OneSound
<1>2. CASE Next
  BY <1>2, ResponseSounds, OthersSound DEF Next
<1> QED
  BY <1>1, <1>2

\* Inductive: what is handed over of a speak is numbered, up to MaxFrames.
SentInv == Placed(r) /\ (r.pc = "synth" => r.sent \in 0..MaxFrames)

LEMMA SentStep == SentInv /\ [Next]_vars => SentInv'
<1> SUFFICES ASSUME SentInv, [Next]_vars PROVE SentInv'
  OBVIOUS
<1>1. Placed(r') /\ OneSound /\ MaxFrames \in Nat
  BY StepSounds, ConstantsAssumption DEF SentInv
<1>2. r'.pc = "synth" => r'.sent \in 0..MaxFrames
  <2>1. CASE Speaks \/ Quiets
    BY <1>1, <2>1 DEF Speaks, Quiets, SentInv
  <2>2. CASE Frames
    BY <1>1, <2>2 DEF Frames, SentInv
  <2>3. CASE Marks
    BY <2>3 DEF Marks
  <2>4. CASE Plays \/ Clears \/ Dies
    BY <2>4 DEF Plays, Clears, Dies, SentInv
  <2> QED
    BY <1>1, <2>1, <2>2, <2>3, <2>4 DEF OneSound
<1> QED
  BY <1>1, <1>2 DEF SentInv

LEMMA InitSent == Init => SentInv
BY DEF Init, NewResponse, SentInv, Placed

----------------------------------------------------------------------------
(* What was interrupted stays silent                                       *)

Sounds == [kind : {"audio", "mark"}, gen : Nat, speak : Nat, n : Nat]

\* Inductive: a speak that is interrupted while its response runs on has an
\* utterance of an earlier epoch, so the port takes nothing more of it.
SilentInv ==
  /\ {"pc", "cancel", "epoch"} \subseteq DOMAIN r
  /\ {gen, speakGen, epoch} \subseteq Nat
  /\ air \in Seq(Sounds)
  /\ bargedSpeaks \subseteq 0..speakGen
  /\ InSpeak => r.epoch \in 0..epoch /\ (r.epoch = epoch => speakGen \notin bargedSpeaks)
  /\ InterruptedSpeakSilent

\* A new speak was never interrupted.
LEMMA StartSpeakSilent ==
  ASSUME SilentInv, NEW q, NEW text, {"pc", "cancel", "epoch"} \subseteq DOMAIN q,
         StartSpeak(q, text), UNCHANGED <<gen, epoch, air>>
  PROVE  SilentInv'
BY DEF SilentInv, StartSpeak, InSpeak, InterruptedSpeakSilent

\* A response that does not begin to speak, and neither sound nor interruption.
LEMMA SameSilent ==
  ASSUME SilentInv, {"pc", "cancel", "epoch"} \subseteq DOMAIN r',
         InSpeak' => InSpeak /\ r'.epoch = r.epoch, gen' \in Nat,
         UNCHANGED <<speakGen, bargedSpeaks, epoch, air>>
  PROVE  SilentInv'
BY DEF SilentInv, InterruptedSpeakSilent

LEMMA FinishSilent ==
  ASSUME SilentInv, NEW q, NEW h, NEW end, {"pc", "cancel", "epoch"} \subseteq DOMAIN q,
         Finish(q, h, end), UNCHANGED <<gen, speakGen, epoch, air>>
  PROVE  SilentInv'
<1>1. {"pc", "cancel", "epoch"} \subseteq DOMAIN r' /\ ~InSpeak'
  BY DEF Finish, InSpeak
<1> QED
  BY <1>1, SameSilent DEF SilentInv, Finish, Release

\* What a response hands over is not of an interrupted speak.
LEMMA SoundSilent ==
  ASSUME SilentInv, NEW kind \in {"audio", "mark"}, NEW n \in Nat, r.pc = "synth",
         air' = IF Accepted THEN Append(air, Sound(kind, n)) ELSE air,
         UNCHANGED <<speakGen, bargedSpeaks>>
  PROVE  air' \in Seq(Sounds) /\ InterruptedSpeakSilent'
<1>1. CASE Accepted
  <2>1. Sound(kind, n) \in Sounds /\ Sound(kind, n).speak \notin bargedSpeaks
    BY <1>1 DEF SilentInv, InSpeak, Accepted, Sound, Sounds
  <2>2. air' = Append(air, Sound(kind, n)) /\ air \in Seq(Sounds)
    BY <1>1 DEF SilentInv
  <2>3. \A i \in DOMAIN air' :
           air'[i] = Sound(kind, n) \/ (i \in DOMAIN air /\ air'[i] = air[i])
    BY <2>1, <2>2
  <2> QED
    BY <2>1, <2>2, <2>3 DEF InterruptedSpeakSilent, SilentInv
<1>2. CASE ~Accepted
  BY <1>2 DEF SilentInv, InterruptedSpeakSilent
<1> QED
  BY <1>1, <1>2

LEMMA ResponseSilent == SilentInv /\ SentInv /\ ResponseStep => SilentInv'
<1> SUFFICES ASSUME SilentInv, SentInv, ResponseStep PROVE SilentInv'
  OBVIOUS
<1> USE DEF Runs, respUnchanged, bargeVars, speakVars, mediaVars
<1>0. {"pc", "cancel", "epoch"} \subseteq DOMAIN r /\ gen \in Nat
  BY DEF SilentInv
<1>1. CASE GreetStarts
  BY <1>0, <1>1, StartSpeakSilent DEF GreetStarts
<1>2. CASE ReplySkipped \/ ReplyHangsUp \/ CancelledOutside
  <2>1. {"pc", "cancel", "epoch"} \subseteq DOMAIN r' /\ ~InSpeak'
    BY <1>0, <1>2 DEF ReplySkipped, ReplyHangsUp, CancelledOutside, InSpeak
  <2> QED
    BY <1>0, <1>2, <2>1, SameSilent DEF ReplySkipped, ReplyHangsUp, CancelledOutside
<1>3. CASE ReplyStarts
  <2>1. CASE exhausted'
    BY <1>0, <1>3, <2>1, StartSpeakSilent DEF ReplyStarts, AskLlm
  <2>2. CASE ~exhausted'
    BY <1>0, <1>3, <2>2, SameSilent DEF ReplyStarts, AskLlm, InSpeak
  <2> QED
    BY <2>1, <2>2
<1>4. CASE LlmReplies
  BY <1>0, <1>4, StartSpeakSilent DEF LlmReplies
<1>5. CASE LlmEmpty
  BY <1>0, <1>5, FinishSilent DEF LlmEmpty
<1>6. CASE LlmFails
  BY <1>0, <1>6, StartSpeakSilent DEF LlmFails
<1>7. CASE LlmCallsTools
  <2>1. CASE r.rounds + 1 > MaxToolRounds
    <3>1. StartSpeak([r EXCEPT !.rounds = @ + 1, !.full = "fallback"], "fallback")
      BY <1>7, <2>1 DEF LlmCallsTools
    <3> QED
      BY <1>0, <1>7, <3>1, StartSpeakSilent DEF LlmCallsTools
  <2>2. CASE ~(r.rounds + 1 > MaxToolRounds)
    BY <1>0, <1>7, <2>2, SameSilent DEF LlmCallsTools, InSpeak
  <2> QED
    BY <2>1, <2>2
<1>8. CASE ToolAnswers
  <2> DEFINE q == [r EXCEPT !.calls = Tail(@)]
  <2>0. {"pc", "cancel", "epoch"} \subseteq DOMAIN q
    BY <1>0
  <2>1. CASE q.calls # <<>>
    BY <1>0, <1>8, <2>1, SameSilent DEF ToolAnswers, InSpeak
  <2>2. CASE q.calls = <<>> /\ exhausted'
    <3>1. StartSpeak([q EXCEPT !.full = "budget"], "budget")
      BY <1>8, <2>2 DEF ToolAnswers, AskLlm
    <3> QED
      BY <1>8, <2>0, <3>1, StartSpeakSilent DEF ToolAnswers
  <2>3. CASE q.calls = <<>> /\ ~exhausted'
    BY <1>0, <1>8, <2>3, SameSilent DEF ToolAnswers, AskLlm, InSpeak
  <2> QED
    BY <2>1, <2>2, <2>3
<1>9. CASE ToolRaises
  BY <1>0, <1>9, StartSpeakSilent DEF ToolRaises
<1>10. CASE FrameSent
  <2>1. air' \in Seq(Sounds) /\ InterruptedSpeakSilent'
    <3>1. r.pc = "synth" /\ r.sent + 1 \in Nat
      BY <1>10 DEF FrameSent, SentInv
    <3> QED
      BY <1>10, <3>1, SoundSilent DEF FrameSent
  <2> QED
    BY <1>10, <2>1 DEF FrameSent, SilentInv, InSpeak
<1>11. CASE SynthesisEnds
  <2>1. air' \in Seq(Sounds) /\ InterruptedSpeakSilent'
    <3>1. r.pc = "synth" /\ r.sent \in Nat
      BY <1>11 DEF SynthesisEnds, SentInv
    <3> QED
      BY <1>11, <3>1, SoundSilent DEF SynthesisEnds
  <2> QED
    BY <1>11, <2>1 DEF SynthesisEnds, SilentInv, InSpeak
<1>12. CASE SynthesisFails
  <2>1. CASE r.kind = "reply" /\ ~r.apology
    BY <1>0, <1>12, <2>1, StartSpeakSilent DEF SynthesisFails
  <2>2. CASE ~(r.kind = "reply" /\ ~r.apology)
    BY <1>0, <1>12, <2>2, FinishSilent DEF SynthesisFails
  <2> QED
    BY <2>1, <2>2
<1>13. CASE PlayConfirmed \/ PlayTimesOut
  <2>1. Played
    BY <1>13 DEF PlayConfirmed, PlayTimesOut
  <2> QED
    BY <1>0, <2>1, FinishSilent DEF Played
<1>14. CASE CancelledInside
  BY <1>0, <1>14, FinishSilent DEF CancelledInside
<1> QED
  BY <1>1, <1>2, <1>3, <1>4, <1>5, <1>6, <1>7, <1>8, <1>9, <1>10, <1>11, <1>12,
     <1>13, <1>14 DEF ResponseStep

\* The sound is gone and the utterance of a running speak is of an old epoch.
LEMMA FlushSilent ==
  ASSUME SilentInv, air' = <<>>, epoch' = epoch + 1, UNCHANGED <<r, gen, speakGen>>,
         bargedSpeaks' \subseteq bargedSpeaks \cup {speakGen}
  PROVE  SilentInv'
BY DEF SilentInv, InSpeak, InterruptedSpeakSilent

\* The response keeps its place, cancelled or not.
LEMMA CancelSilent ==
  ASSUME SilentInv, r' = r \/ r' = [r EXCEPT !.cancel = TRUE],
         UNCHANGED <<gen, speakGen, bargedSpeaks, epoch, air>>
  PROVE  SilentInv'
<1>1. /\ {"pc", "cancel", "epoch"} \subseteq DOMAIN r'
      /\ r'.pc = r.pc /\ r'.epoch = r.epoch /\ gen' \in Nat
  BY DEF SilentInv
<1> QED
  BY <1>1, SameSilent DEF InSpeak

LEMMA NewSilent ==
  ASSUME SilentInv, NEW kind, NewGeneration(kind),
         UNCHANGED <<speakGen, bargedSpeaks, epoch, air>>
  PROVE  SilentInv'
BY SameSilent DEF SilentInv, NewGeneration, NewResponse, InSpeak

LEMMA RunSilent == SilentInv /\ RunStep => SilentInv'
<1> SUFFICES ASSUME SilentInv, RunStep PROVE SilentInv'
  OBVIOUS
<1> USE DEF runUnchanged, bargeVars, speakVars, mediaVars
<1>1. CASE Connects
  <2>1. CASE NewGeneration("greet")
    BY <1>1, <2>1, NewSilent DEF Connects
  <2>2. CASE UNCHANGED <<gen, r>>
    BY <1>1, <2>2, CancelSilent DEF Connects
  <2> QED
    BY <1>1, <2>1, <2>2 DEF Connects
<1>2. CASE HangsUpUnheard \/ HangsUp \/ ReapRaises \/ RunFails \/ HangsUpDegraded
  <2>1. gen' = gen /\ (r' = r \/ r' = [r EXCEPT !.cancel = TRUE])
    BY <1>2 DEF HangsUpUnheard, HangsUp, ReapRaises, RunFails, HangsUpDegraded, Leave,
                Teardown
  <2> QED
    BY <1>2, <2>1, CancelSilent
       DEF HangsUpUnheard, HangsUp, ReapRaises, RunFails, HangsUpDegraded
<1>3. CASE SpeakEnds \/ IgnoresInput \/ Listens \/ TornDown \/ ClosesStt
  BY <1>3, CancelSilent DEF SpeakEnds, IgnoresInput, Listens, TornDown, ClosesStt
<1>4. CASE BargesIn
  BY <1>4, FlushSilent DEF BargesIn, Flush
<1>5. CASE Flushed \/ Supersedes
  <2>1. r' = r \/ r' = [r EXCEPT !.cancel = TRUE]
    BY <1>5 DEF Flushed, Supersedes, RequestCancellation
  <2> QED
    BY <1>5, <2>1, CancelSilent DEF Flushed, Supersedes
<1>6. CASE Answers \/ Reaps
  BY <1>6, NewSilent DEF Answers, Reaps, Commit
<1>7. CASE ClosesMedia
  <2>1. CASE mediaClosed
    BY <1>7, <2>1, CancelSilent DEF ClosesMedia
  <2>2. CASE ~mediaClosed
    BY <1>7, <2>2, FlushSilent DEF ClosesMedia
  <2> QED
    BY <2>1, <2>2
<1> QED
  BY <1>1, <1>2, <1>3, <1>4, <1>5, <1>6, <1>7 DEF RunStep

LEMMA EnvironmentSilent == SilentInv /\ Environment => SilentInv'
<1> SUFFICES ASSUME SilentInv, Environment PROVE SilentInv'
  OBVIOUS
<1> USE DEF quiet, bargeVars, speakVars, mediaVars
<1>1. CASE SttInterim \/ SttFinal \/ SttEnd \/ VadOnset \/ MarkArrives \/ ServerHangsUp
           \/ SttDies
  BY <1>1, CancelSilent DEF SttInterim, SttFinal, SttEnd, VadOnset, MarkArrives,
                            ServerHangsUp, SttDies
<1>2. CASE TelnyxPlays
  <2>1. /\ air' \in Seq(Sounds)
        /\ \A i \in DOMAIN air' : i + 1 \in DOMAIN air /\ air'[i] = air[i + 1]
    BY <1>2 DEF TelnyxPlays, SilentInv
  <2>2. InterruptedSpeakSilent'
    BY <1>2, <2>1 DEF TelnyxPlays, SilentInv, InterruptedSpeakSilent
  <2> QED
    BY <1>2, <2>1, <2>2 DEF TelnyxPlays, SilentInv, InSpeak
<1>3. CASE MediaDies
  BY <1>3, FlushSilent DEF MediaDies
<1>4. CASE ServerCancels
  <2>1. gen' = gen /\ (r' = r \/ r' = [r EXCEPT !.cancel = TRUE])
    BY <1>4 DEF ServerCancels, Leave, Teardown
  <2> QED
    BY <1>4, <2>1, CancelSilent DEF ServerCancels
<1> QED
  BY <1>1, <1>2, <1>3, <1>4 DEF Environment

LEMMA InitSilent == Init => SilentInv
BY DEF Init, NewResponse, SilentInv, InSpeak, InterruptedSpeakSilent

LEMMA SilentStep == SilentInv /\ SentInv /\ [Next]_vars => SilentInv'
<1> SUFFICES ASSUME SilentInv, SentInv, [Next]_vars PROVE SilentInv'
  OBVIOUS
<1>1. CASE UNCHANGED vars
  BY <1>1, CancelSilent DEF vars, bargeVars, speakVars, mediaVars
<1>2. CASE Next
  BY <1>2, ResponseSilent, RunSilent, EnvironmentSilent DEF Next
<1> QED
  BY <1>1, <1>2

\* Nothing of an interrupted speak is ever accepted again.
THEOREM InterruptedIsSilent == Spec => []InterruptedSpeakSilent
<1>1. SilentInv => InterruptedSpeakSilent
  BY DEF SilentInv
<1> QED
  BY <1>1, InitSilent, SilentStep, InitSent, SentStep, PTL DEF Spec

----------------------------------------------------------------------------
(* The record of an interrupted reply is cut                               *)

Working == r.pc \in {"new", "llm", "tool", "synth", "play"}

\* Inductive: while a response may still be recorded nothing is recorded of its
\* generation, and its flag says whether it was interrupted.
CutInv ==
  /\ {"pc", "cancel"} \subseteq DOMAIN r
  /\ gen \in Nat /\ barged \in BOOLEAN
  /\ bargedGens \subseteq 0..gen
  /\ \A e \in recorded : e.gen \in 0..gen /\ (Working => e.gen # gen)
  /\ Working => (barged <=> gen \in bargedGens)
  /\ InterruptedRecordsAreCut

\* Without a record or an interruption a response works on or stops working.
LEMMA SameCut ==
  ASSUME CutInv, {"pc", "cancel"} \subseteq DOMAIN r',
         Working' => Working, UNCHANGED <<gen, barged, bargedGens, recorded>>
  PROVE  CutInv'
BY DEF CutInv, InterruptedRecordsAreCut

LEMMA StartSpeakCut ==
  ASSUME CutInv, NEW q, NEW text, Working, StartSpeak(q, text),
         {"pc", "cancel"} \subseteq DOMAIN q,
         UNCHANGED <<gen, recorded>>
  PROVE  CutInv'
<1>1. {"pc", "cancel"} \subseteq DOMAIN r'
  BY DEF StartSpeak
<1> QED
  BY <1>1, SameCut DEF StartSpeak

\* The finally block records what the flag says, and resets it.
LEMMA FinishCut ==
  ASSUME CutInv, NEW q, NEW h, NEW end, Working, Finish(q, h, end), UNCHANGED gen,
         {"pc", "cancel"} \subseteq DOMAIN q
  PROVE  CutInv'
<1>1. /\ {"pc", "cancel"} \subseteq DOMAIN r' /\ ~Working'
      /\ barged' = FALSE /\ bargedGens' = bargedGens
  BY DEF Finish, Release, Working
<1>2. \A e \in recorded' : e \in recorded \/ (e.gen = gen /\ e.cut = barged)
  BY DEF Finish, Record
<1>3. \A e \in recorded' : e.gen \in 0..gen /\ (e.cut <=> e.gen \in bargedGens)
  BY <1>2 DEF CutInv, InterruptedRecordsAreCut
<1> QED
  BY <1>1, <1>3 DEF CutInv, InterruptedRecordsAreCut

LEMMA ResponseCut == CutInv /\ ResponseStep => CutInv'
<1> SUFFICES ASSUME CutInv, ResponseStep PROVE CutInv'
  OBVIOUS
<1> USE DEF Runs, respUnchanged, bargeVars, recordVars
<1>0. {"pc", "cancel"} \subseteq DOMAIN r
  BY DEF CutInv
<1>1. CASE GreetStarts
  BY <1>0, <1>1, StartSpeakCut DEF GreetStarts, Working
<1>2. CASE ReplySkipped \/ ReplyHangsUp \/ CancelledOutside
  <2>1. {"pc", "cancel"} \subseteq DOMAIN r' /\ ~Working'
    BY <1>0, <1>2 DEF ReplySkipped, ReplyHangsUp, CancelledOutside, Working
  <2> QED
    BY <1>2, <2>1, SameCut DEF ReplySkipped, ReplyHangsUp, CancelledOutside
<1>3. CASE ReplyStarts
  <2>1. CASE exhausted'
    BY <1>0, <1>3, <2>1, StartSpeakCut DEF ReplyStarts, AskLlm, Working
  <2>2. CASE ~exhausted'
    BY <1>0, <1>3, <2>2, SameCut DEF ReplyStarts, AskLlm, Working
  <2> QED
    BY <2>1, <2>2
<1>4. CASE LlmReplies
  BY <1>0, <1>4, StartSpeakCut DEF LlmReplies, Working
<1>5. CASE LlmEmpty
  BY <1>0, <1>5, FinishCut DEF LlmEmpty, Working
<1>6. CASE LlmFails
  BY <1>0, <1>6, StartSpeakCut DEF LlmFails, Working
<1>7. CASE LlmCallsTools
  <2>1. CASE r.rounds + 1 > MaxToolRounds
    <3>1. StartSpeak([r EXCEPT !.rounds = @ + 1, !.full = "fallback"], "fallback")
      BY <1>7, <2>1 DEF LlmCallsTools
    <3>2. Working /\ UNCHANGED <<gen, recorded>>
      BY <1>7 DEF LlmCallsTools, Working
    <3> QED
      BY <1>0, <3>1, <3>2, StartSpeakCut
  <2>2. CASE ~(r.rounds + 1 > MaxToolRounds)
    BY <1>0, <1>7, <2>2, SameCut DEF LlmCallsTools, Working
  <2> QED
    BY <2>1, <2>2
<1>8. CASE ToolAnswers
  <2> DEFINE q == [r EXCEPT !.calls = Tail(@)]
  <2>0. {"pc", "cancel"} \subseteq DOMAIN q /\ Working
    BY <1>0, <1>8 DEF ToolAnswers, Working
  <2>1. CASE q.calls # <<>>
    BY <1>0, <1>8, <2>0, <2>1, SameCut DEF ToolAnswers
  <2>2. CASE q.calls = <<>> /\ exhausted'
    <3>1. StartSpeak([q EXCEPT !.full = "budget"], "budget")
      BY <1>8, <2>2 DEF ToolAnswers, AskLlm
    <3> QED
      BY <1>8, <2>0, <3>1, StartSpeakCut DEF ToolAnswers
  <2>3. CASE q.calls = <<>> /\ ~exhausted'
    BY <1>0, <1>8, <2>0, <2>3, SameCut DEF ToolAnswers, AskLlm
  <2> QED
    BY <2>1, <2>2, <2>3
<1>9. CASE ToolRaises
  <2>1. StartSpeak([r EXCEPT !.apology = TRUE, !.calls = <<>>], "fallback")
    BY <1>9 DEF ToolRaises
  <2>2. Working /\ UNCHANGED <<gen, recorded>>
    BY <1>9 DEF ToolRaises, Working
  <2> QED
    BY <1>0, <2>1, <2>2, StartSpeakCut
<1>10. CASE FrameSent \/ SynthesisEnds
  BY <1>0, <1>10, SameCut DEF FrameSent, SynthesisEnds, Working
<1>11. CASE SynthesisFails
  <2>1. CASE r.kind = "reply" /\ ~r.apology
    BY <1>0, <1>11, <2>1, StartSpeakCut DEF SynthesisFails, Working
  <2>2. CASE ~(r.kind = "reply" /\ ~r.apology)
    BY <1>0, <1>11, <2>2, FinishCut DEF SynthesisFails, Working
  <2> QED
    BY <2>1, <2>2
<1>12. CASE PlayConfirmed \/ PlayTimesOut
  <2>1. Played
    BY <1>12 DEF PlayConfirmed, PlayTimesOut
  <2> QED
    BY <1>0, <2>1, FinishCut DEF Played, Working
<1>13. CASE CancelledInside
  BY <1>0, <1>13, FinishCut DEF CancelledInside, Working
<1> QED
  BY <1>1, <1>2, <1>3, <1>4, <1>5, <1>6, <1>7, <1>8, <1>9, <1>10, <1>11, <1>12,
     <1>13 DEF ResponseStep

\* A new generation was never interrupted and has no record.
LEMMA NewCut ==
  ASSUME CutInv, FlagInv, NEW kind, NewGeneration(kind), ~Live,
         UNCHANGED <<barged, bargedGens, recorded>>
  PROVE  CutInv'
<1>1. ~barged
  BY DEF FlagInv, InterruptionOwned, InSpeak, Live
<1> QED
  BY <1>1 DEF CutInv, NewGeneration, NewResponse, Working, InterruptedRecordsAreCut

\* The response keeps its place, cancelled or not.
LEMMA CancelCut ==
  ASSUME CutInv, r' = r \/ r' = [r EXCEPT !.cancel = TRUE],
         UNCHANGED <<gen, barged, bargedGens, recorded>>
  PROVE  CutInv'
<1>1. {"pc", "cancel"} \subseteq DOMAIN r' /\ r'.pc = r.pc
  BY DEF CutInv
<1> QED
  BY <1>1, SameCut DEF Working

LEMMA RunCut == CutInv /\ FlagInv /\ RunStep => CutInv'
<1> SUFFICES ASSUME CutInv, FlagInv, RunStep PROVE CutInv'
  OBVIOUS
<1> USE DEF runUnchanged, bargeVars, recordVars
<1>1. CASE Connects
  <2>1. CASE NewGeneration("greet")
    <3>1. ~Live
      BY <1>1 DEF Connects, FlagInv, Live
    <3> QED
      BY <1>1, <2>1, <3>1, NewCut DEF Connects
  <2>2. CASE UNCHANGED <<gen, r>>
    BY <1>1, <2>2, CancelCut DEF Connects
  <2> QED
    BY <1>1, <2>1, <2>2 DEF Connects
<1>2. CASE HangsUpUnheard \/ HangsUp \/ ReapRaises \/ RunFails \/ HangsUpDegraded
  <2>1. gen' = gen /\ (r' = r \/ r' = [r EXCEPT !.cancel = TRUE])
    BY <1>2 DEF HangsUpUnheard, HangsUp, ReapRaises, RunFails, HangsUpDegraded, Leave,
                Teardown
  <2> QED
    BY <1>2, <2>1, CancelCut
       DEF HangsUpUnheard, HangsUp, ReapRaises, RunFails, HangsUpDegraded
<1>3. CASE SpeakEnds \/ IgnoresInput \/ Listens \/ TornDown \/ ClosesStt \/ ClosesMedia
  BY <1>3, CancelCut DEF SpeakEnds, IgnoresInput, Listens, TornDown, ClosesStt, ClosesMedia
<1>4. CASE BargesIn
  <2>1. Working
    BY <1>4 DEF BargesIn, Interrupts, FlagInv, SpeakingFlagExact, InSpeak, Working
  <2>2. \A e \in recorded : e.gen # gen
    BY <2>1 DEF CutInv
  <2> QED
    BY <1>4, <2>1, <2>2 DEF BargesIn, CutInv, Working, InterruptedRecordsAreCut
<1>5. CASE Flushed \/ Supersedes
  <2>1. r' = r \/ r' = [r EXCEPT !.cancel = TRUE]
    BY <1>5 DEF Flushed, Supersedes, RequestCancellation
  <2> QED
    BY <1>5, <2>1, CancelCut DEF Flushed, Supersedes
<1>6. CASE Answers \/ Reaps
  BY <1>6, NewCut DEF Answers, Reaps, Commit
<1> QED
  BY <1>1, <1>2, <1>3, <1>4, <1>5, <1>6 DEF RunStep

LEMMA EnvironmentCut == CutInv /\ Environment => CutInv'
<1> SUFFICES ASSUME CutInv, Environment PROVE CutInv'
  OBVIOUS
<1>1. /\ r' = r \/ r' = [r EXCEPT !.cancel = TRUE]
      /\ UNCHANGED <<gen, barged, bargedGens, recorded>>
  BY DEF Environment, quiet, bargeVars, recordVars, SttInterim, SttFinal, SttEnd, VadOnset,
         TelnyxPlays, MarkArrives, ServerHangsUp, SttDies, MediaDies, ServerCancels, Leave,
         Teardown
<1> QED
  BY <1>1, CancelCut

\* What is recorded of a reply is cut exactly when the reply was interrupted.
THEOREM RecordsAreCut == Spec => []InterruptedRecordsAreCut
<1>1. Init => CutInv
  <2> SUFFICES ASSUME Init PROVE CutInv
    OBVIOUS
  <2>1. {"pc", "cancel"} \subseteq DOMAIN r /\ ~Working
    BY DEF Init, NewResponse, Working
  <2> QED
    BY <2>1 DEF Init, CutInv, InterruptedRecordsAreCut
<1>2. CutInv /\ FlagInv /\ [Next]_vars => CutInv'
  <2> SUFFICES ASSUME CutInv, FlagInv, [Next]_vars PROVE CutInv'
    OBVIOUS
  <2>1. CASE UNCHANGED vars
    BY <2>1, CancelCut DEF vars, bargeVars, recordVars
  <2>2. CASE Next
    BY <2>2, ResponseCut, RunCut, EnvironmentCut DEF Next
  <2> QED
    BY <2>1, <2>2
<1>3. CutInv => InterruptedRecordsAreCut
  BY DEF CutInv
<1> QED
  BY <1>1, <1>2, <1>3, InitFlags, FlagStep, PTL DEF Spec

----------------------------------------------------------------------------
(* The budget is announced once                                            *)

\* The response speaks, spoke or is about to record the announcement.
Announces == "budget" \in {r.full, r.say, r.spoken}

\* Inductive: until the announcement nothing mentions it; afterwards the budget
\* stays exhausted, and only the response that made it may record it.
BudgetInv ==
  /\ {"pc", "full", "say", "spoken"} \subseteq DOMAIN r
  /\ announced => exhausted
  /\ \A e \in recorded : e.text = "budget" => announced /\ (Announces => e.gen = gen)
  /\ Announces => announced
  /\ BudgetToldOnce

\* A step that announces nothing and records at most what its response says.
LEMMA SameBudget ==
  ASSUME BudgetInv, {"pc", "full", "say", "spoken"} \subseteq DOMAIN r',
         Announces' => Announces, r'.pc \in {"llm", "tool"} => ~announced,
         UNCHANGED <<gen, announced>>, exhausted => exhausted',
         \A e \in recorded' :
            e \in recorded \/ (e.gen = gen /\ (e.text = "budget" => Announces))
  PROVE  BudgetInv'
<1>1. \A e \in recorded' : e.text = "budget" => announced /\ (Announces => e.gen = gen)
  BY DEF BudgetInv
<1>2. \A e, f \in recorded' : e.text = "budget" /\ f.text = "budget" => e.gen = f.gen
  BY DEF BudgetInv, BudgetToldOnce
<1> QED
  BY <1>1, <1>2 DEF BudgetInv, BudgetToldOnce

\* A response that speaks something else.
LEMMA StartSpeakBudget ==
  ASSUME BudgetInv, NEW q, NEW text, text # "budget", StartSpeak(q, text),
         {"pc", "full", "say", "spoken"} \subseteq DOMAIN q,
         "budget" \in {q.full, q.spoken} => Announces,
         UNCHANGED <<gen, announced, recorded>>, exhausted => exhausted'
  PROVE  BudgetInv'
<1>1. /\ {"pc", "full", "say", "spoken"} \subseteq DOMAIN r'
      /\ r'.pc = "synth" /\ r'.say = text /\ r'.full = q.full /\ r'.spoken = q.spoken
  BY DEF StartSpeak
<1> QED
  BY <1>1, SameBudget DEF Announces

\* The finally block records the text of the response or what it spoke.
LEMMA FinishBudget ==
  ASSUME BudgetInv, NEW q, NEW h, NEW end, Finish(q, h, end),
         {"pc", "full", "say", "spoken"} \subseteq DOMAIN q,
         "budget" \in {q.full, q.say, q.spoken} => Announces,
         UNCHANGED <<gen, announced>>, exhausted => exhausted'
  PROVE  BudgetInv'
<1>1. /\ {"pc", "full", "say", "spoken"} \subseteq DOMAIN r' /\ r'.pc \in {"bye", "done"}
      /\ r'.full = q.full /\ r'.say = q.say /\ r'.spoken = q.spoken
  BY DEF Finish
<1>2. \A e \in recorded' :
         e \in recorded \/ (e.gen = gen /\ e.text \in {q.full, q.spoken})
  BY DEF Finish, Record
<1> QED
  BY <1>1, <1>2, SameBudget DEF Announces

\* The top of the tool loop is not reached again after the announcement.
LEMMA AskLlmBudget ==
  ASSUME BudgetInv, NEW q, AskLlm(q), ~announced,
         {"pc", "full", "say", "spoken"} \subseteq DOMAIN q,
         q.full = r.full, q.say = r.say, q.spoken = r.spoken,
         UNCHANGED <<gen, recorded>>, exhausted => exhausted'
  PROVE  BudgetInv'
<1>1. CASE exhausted'
  <2>1. announced' /\ StartSpeak([q EXCEPT !.full = "budget"], "budget")
    BY <1>1 DEF AskLlm
  <2>2. {"pc", "full", "say", "spoken"} \subseteq DOMAIN r' /\ r'.pc = "synth"
    BY <2>1 DEF StartSpeak
  <2>3. \A e \in recorded : e.text # "budget"
    BY DEF BudgetInv
  <2> QED
    BY <1>1, <2>1, <2>2, <2>3 DEF BudgetInv, BudgetToldOnce
<1>2. CASE ~exhausted'
  <2>1. announced' = announced /\ r' = [q EXCEPT !.pc = "llm"]
    BY <1>2 DEF AskLlm
  <2>2. /\ {"pc", "full", "say", "spoken"} \subseteq DOMAIN r'
        /\ r'.full = r.full /\ r'.say = r.say /\ r'.spoken = r.spoken
    BY <2>1
  <2> QED
    BY <2>1, <2>2, SameBudget DEF Announces
<1> QED
  BY <1>1, <1>2

LEMMA ChargeKeeps == Charge => (exhausted => exhausted')
BY DEF Charge

LEMMA ResponseBudget == BudgetInv /\ ResponseStep => BudgetInv'
<1> SUFFICES ASSUME BudgetInv, ResponseStep PROVE BudgetInv'
  OBVIOUS
<1> USE DEF Runs, respUnchanged, budgetVars, recordVars
<1>0. /\ {"pc", "full", "say", "spoken"} \subseteq DOMAIN r
      /\ r.pc \in {"llm", "tool"} => ~announced
  BY DEF BudgetInv, BudgetToldOnce
<1>1. CASE GreetStarts
  BY <1>0, <1>1, StartSpeakBudget DEF GreetStarts, Announces
<1>2. CASE ReplySkipped \/ ReplyHangsUp \/ CancelledOutside
  <2>1. /\ {"pc", "full", "say", "spoken"} \subseteq DOMAIN r' /\ r'.pc = "done"
        /\ r'.full = r.full /\ r'.say = r.say /\ r'.spoken = r.spoken
    BY <1>0, <1>2 DEF ReplySkipped, ReplyHangsUp, CancelledOutside
  <2>2. UNCHANGED <<gen, announced, exhausted, recorded>>
    BY <1>2 DEF ReplySkipped, ReplyHangsUp, CancelledOutside
  <2> QED
    BY <2>1, <2>2, SameBudget DEF Announces
<1>3. CASE ReplyStarts
  <2>1. ~announced
    BY <1>3 DEF ReplyStarts, BudgetInv
  <2> QED
    BY <1>0, <1>3, <2>1, AskLlmBudget, ChargeKeeps DEF ReplyStarts
<1>4. CASE LlmReplies
  BY <1>0, <1>4, StartSpeakBudget, ChargeKeeps DEF LlmReplies, Announces
<1>5. CASE LlmEmpty
  BY <1>0, <1>5, FinishBudget, ChargeKeeps DEF LlmEmpty, Announces
<1>6. CASE LlmFails
  BY <1>0, <1>6, StartSpeakBudget, ChargeKeeps DEF LlmFails, Announces
<1>7. CASE LlmCallsTools
  <2>0. UNCHANGED <<gen, announced, recorded>> /\ (exhausted => exhausted')
    BY <1>7, ChargeKeeps DEF LlmCallsTools
  <2>1. CASE r.rounds + 1 > MaxToolRounds
    <3> DEFINE q == [r EXCEPT !.rounds = @ + 1, !.full = "fallback"]
    <3>1. StartSpeak(q, "fallback")
      BY <1>7, <2>1 DEF LlmCallsTools
    <3>2. {"pc", "full", "say", "spoken"} \subseteq DOMAIN q
          /\ q.full = "fallback" /\ q.spoken = r.spoken
      BY <1>0
    <3>3. "budget" \in {q.full, q.spoken} => Announces
      BY <3>2 DEF Announces
    <3> HIDE DEF q
    <3> QED
      BY <2>0, <3>1, <3>2, <3>3, StartSpeakBudget
  <2>2. CASE ~(r.rounds + 1 > MaxToolRounds)
    <3>1. /\ {"pc", "full", "say", "spoken"} \subseteq DOMAIN r' /\ ~announced
          /\ r'.full = r.full /\ r'.say = r.say /\ r'.spoken = r.spoken
      BY <1>0, <1>7, <2>2 DEF LlmCallsTools
    <3> QED
      BY <2>0, <3>1, SameBudget DEF Announces
  <2> QED
    BY <2>1, <2>2
<1>8. CASE ToolAnswers
  <2> DEFINE q == [r EXCEPT !.calls = Tail(@)]
  <2>0. /\ {"pc", "full", "say", "spoken"} \subseteq DOMAIN q /\ ~announced
        /\ q.full = r.full /\ q.say = r.say /\ q.spoken = r.spoken
    BY <1>0, <1>8 DEF ToolAnswers
  <2>1. UNCHANGED <<gen, recorded>> /\ (exhausted => exhausted')
    BY <1>8, ChargeKeeps DEF ToolAnswers
  <2>2. CASE q.calls # <<>>
    <3>1. r' = q /\ announced' = announced
      BY <1>8, <2>2 DEF ToolAnswers
    <3> HIDE DEF q
    <3> QED
      BY <2>0, <2>1, <3>1, SameBudget DEF Announces
  <2>3. CASE q.calls = <<>>
    <3>1. AskLlm(q)
      BY <1>8, <2>3 DEF ToolAnswers
    <3> HIDE DEF q
    <3> QED
      BY <2>0, <2>1, <3>1, AskLlmBudget
  <2> QED
    BY <2>2, <2>3
<1>9. CASE ToolRaises
  <2> DEFINE q == [r EXCEPT !.apology = TRUE, !.calls = <<>>]
  <2>1. StartSpeak(q, "fallback") /\ UNCHANGED <<gen, announced, exhausted, recorded>>
    BY <1>9 DEF ToolRaises
  <2>2. /\ {"pc", "full", "say", "spoken"} \subseteq DOMAIN q
        /\ q.full = r.full /\ q.spoken = r.spoken
    BY <1>0
  <2> HIDE DEF q
  <2> QED
    BY <2>1, <2>2, StartSpeakBudget DEF Announces
<1>10. CASE FrameSent \/ SynthesisEnds
  <2>1. /\ {"pc", "full", "say", "spoken"} \subseteq DOMAIN r'
        /\ r'.pc \in {"synth", "play"} /\ (Announces' => Announces)
    BY <1>0, <1>10 DEF FrameSent, SynthesisEnds, Announces
  <2> QED
    BY <1>10, <2>1, SameBudget DEF FrameSent, SynthesisEnds
<1>11. CASE SynthesisFails
  <2>1. CASE r.kind = "reply" /\ ~r.apology
    BY <1>0, <1>11, <2>1, StartSpeakBudget DEF SynthesisFails, Announces
  <2>2. CASE ~(r.kind = "reply" /\ ~r.apology)
    <3> DEFINE q == [r EXCEPT !.full = r.spoken]
    <3>1. PICK end : Finish(q, history, end)
      BY <1>11, <2>2 DEF SynthesisFails
    <3>2. /\ {"pc", "full", "say", "spoken"} \subseteq DOMAIN q
          /\ "budget" \in {q.full, q.say, q.spoken} => Announces
      BY <1>0 DEF Announces
    <3>3. UNCHANGED <<gen, announced, exhausted>>
      BY <1>11 DEF SynthesisFails
    <3> HIDE DEF q
    <3> QED
      BY <3>1, <3>2, <3>3, FinishBudget
  <2> QED
    BY <2>1, <2>2
<1>12. CASE PlayConfirmed \/ PlayTimesOut
  <2> DEFINE q == IF r.apology THEN [r EXCEPT !.full = r.spoken] ELSE r
  <2>1. Finish(q, history, "ok") /\ UNCHANGED <<gen, announced, exhausted>>
    BY <1>12 DEF PlayConfirmed, PlayTimesOut, Played
  <2>2. /\ {"pc", "full", "say", "spoken"} \subseteq DOMAIN q
        /\ "budget" \in {q.full, q.say, q.spoken} => Announces
    BY <1>0 DEF Announces
  <2> HIDE DEF q
  <2> QED
    BY <2>1, <2>2, FinishBudget
<1>13. CASE CancelledInside
  <2>1. exhausted => exhausted'
    BY <1>13, ChargeKeeps DEF CancelledInside
  <2> QED
    BY <1>0, <1>13, <2>1, FinishBudget DEF CancelledInside, Announces
<1> QED
  BY <1>1, <1>2, <1>3, <1>4, <1>5, <1>6, <1>7, <1>8, <1>9, <1>10, <1>11, <1>12,
     <1>13 DEF ResponseStep

\* The response keeps its place, cancelled or not.
LEMMA CancelBudget ==
  ASSUME BudgetInv, r' = r \/ r' = [r EXCEPT !.cancel = TRUE],
         UNCHANGED <<gen, announced, exhausted, recorded>>
  PROVE  BudgetInv'
<1>1. /\ {"pc", "full", "say", "spoken"} \subseteq DOMAIN r' /\ r'.pc = r.pc
      /\ r'.full = r.full /\ r'.say = r.say /\ r'.spoken = r.spoken
  BY DEF BudgetInv
<1>2. r'.pc \in {"llm", "tool"} => ~announced
  BY <1>1 DEF BudgetInv, BudgetToldOnce
<1> QED
  BY <1>1, <1>2, SameBudget DEF Announces

LEMMA NewBudget ==
  ASSUME BudgetInv, NEW kind, NewGeneration(kind),
         UNCHANGED <<announced, exhausted, recorded>>
  PROVE  BudgetInv'
<1>1. {"pc", "full", "say", "spoken"} \subseteq DOMAIN r' /\ r'.pc = "new" /\ ~Announces'
  BY DEF NewGeneration, NewResponse, Announces
<1> QED
  BY <1>1 DEF BudgetInv, BudgetToldOnce

LEMMA RunBudget == BudgetInv /\ RunStep => BudgetInv'
<1> SUFFICES ASSUME BudgetInv, RunStep PROVE BudgetInv'
  OBVIOUS
<1> USE DEF runUnchanged, budgetVars, recordVars
<1>1. CASE Connects \/ Answers \/ Reaps
  <2>1. UNCHANGED <<announced, exhausted, recorded>>
    BY <1>1 DEF Connects, Answers, Reaps
  <2>2. CASE \E kind : NewGeneration(kind)
    BY <2>1, <2>2, NewBudget
  <2>3. CASE UNCHANGED <<gen, r>>
    BY <2>1, <2>3, CancelBudget
  <2> QED
    BY <1>1, <2>2, <2>3 DEF Connects, Answers, Reaps, Commit
<1>2. CASE ~(Connects \/ Answers \/ Reaps)
  <2>1. /\ r' = r \/ r' = [r EXCEPT !.cancel = TRUE]
        /\ UNCHANGED <<gen, announced, exhausted, recorded>>
    BY <1>2 DEF RunStep, HangsUpUnheard, HangsUp, SpeakEnds, IgnoresInput, BargesIn,
                Flushed, Listens, Supersedes, ReapRaises, RunFails, HangsUpDegraded,
                TornDown, ClosesStt, ClosesMedia, Leave, Teardown, RequestCancellation
  <2> QED
    BY <2>1, CancelBudget
<1> QED
  BY <1>1, <1>2

LEMMA EnvironmentBudget == BudgetInv /\ Environment => BudgetInv'
<1> SUFFICES ASSUME BudgetInv, Environment PROVE BudgetInv'
  OBVIOUS
<1>1. /\ r' = r \/ r' = [r EXCEPT !.cancel = TRUE]
      /\ UNCHANGED <<gen, announced, exhausted, recorded>>
  BY DEF Environment, quiet, budgetVars, recordVars, SttInterim, SttFinal, SttEnd,
         VadOnset, TelnyxPlays, MarkArrives, ServerHangsUp, SttDies, MediaDies,
         ServerCancels, Leave, Teardown
<1> QED
  BY <1>1, CancelBudget

\* The caller is told once that the budget is used up, and after that the LLM is
\* not asked again.
THEOREM BudgetIsToldOnce == Spec => []BudgetToldOnce
<1>1. Init => BudgetInv
  BY DEF Init, NewResponse, BudgetInv, Announces, BudgetToldOnce
<1>2. BudgetInv /\ [Next]_vars => BudgetInv'
  <2> SUFFICES ASSUME BudgetInv, [Next]_vars PROVE BudgetInv'
    OBVIOUS
  <2>1. CASE UNCHANGED vars
    BY <2>1, CancelBudget DEF vars, budgetVars, recordVars
  <2>2. CASE Next
    BY <2>2, ResponseBudget, RunBudget, EnvironmentBudget DEF Next
  <2> QED
    BY <2>1, <2>2
<1>3. BudgetInv => BudgetToldOnce
  BY DEF BudgetInv
<1> QED
  BY <1>1, <1>2, <1>3, PTL DEF Spec

----------------------------------------------------------------------------
(* A speak is completed by its own mark                                    *)

Events == [type : Transcripts \cup {"ended", "hangup"}, id : Nat]

\* The marks of the current speak on their way to the caller, and the events in
\* which they came back.
MarksOut == {i \in DOMAIN air : air[i].kind = "mark" /\ air[i].speak = speakGen}
MarksBack == {j \in DOMAIN events : events[j].type = "ended" /\ events[j].id = speakGen}

MarkTypes ==
  /\ "pc" \in DOMAIN r
  /\ {gen, speakGen, said} \subseteq Nat /\ speakDone \in BOOLEAN
  /\ air \in Seq(Sounds) /\ events \in Seq(Events) /\ echoes \subseteq Nat

\* No mark is of a speak that has yet to begin.
MarksKnown ==
  /\ \A i \in DOMAIN air : air[i].kind = "mark" => air[i].speak <= speakGen
  /\ \A g \in echoes : g <= speakGen
  /\ \A j \in DOMAIN events : events[j].type = "ended" => events[j].id <= speakGen

\* Inductive: the current speak has one mark, which is nowhere before it is
\* sent and when it has been taken for the end, and else in one place.
MarkInv ==
  /\ MarkTypes
  /\ MarksKnown
  /\ r.pc = "synth" => ~speakDone
  /\ r.pc = "synth" \/ speakDone =>
       MarksOut = {} /\ speakGen \notin echoes /\ MarksBack = {}
  /\ MarksOut # {} => speakGen \notin echoes /\ MarksBack = {}
  /\ speakGen \in echoes => MarksBack = {}
  /\ \A i, j \in MarksOut : i = j
  /\ \A i, j \in MarksBack : i = j

\* What is out, on its way back or queued was so before, perhaps one place
\* further behind, or is no mark.
LEMMA CarriedMarks ==
  ASSUME MarkInv, MarkTypes', r'.pc = "synth" => r.pc = "synth",
         UNCHANGED <<speakGen, speakDone>>, echoes' \subseteq echoes,
         NEW m \in {0, 1},
         \A i \in DOMAIN air' :
            \/ i + m \in DOMAIN air /\ air'[i] = air[i + m]
            \/ air'[i].kind # "mark",
         NEW n \in {0, 1},
         \A j \in DOMAIN events' :
            \/ j + n \in DOMAIN events /\ events'[j] = events[j + n]
            \/ events'[j].type # "ended"
  PROVE  MarkInv'
<1>1. MarksKnown'
  BY DEF MarkInv, MarksKnown
<1>2. \A i \in MarksOut' : i + m \in MarksOut /\ i \in Int
  BY DEF MarksOut, MarkTypes
<1>3. \A j \in MarksBack' : j + n \in MarksBack /\ j \in Int
  BY DEF MarksBack, MarkTypes
<1>4. \A i, j \in MarksOut' : i = j
  BY <1>2 DEF MarkInv
<1>5. \A i, j \in MarksBack' : i = j
  <2> SUFFICES ASSUME NEW i \in MarksBack', NEW j \in MarksBack' PROVE i = j
    OBVIOUS
  <2>1. i + n = j + n /\ i \in Int /\ j \in Int
    BY <1>3 DEF MarkInv
  <2> QED
    BY <2>1
<1>6. /\ MarksOut' # {} => MarksOut # {}
      /\ MarksBack' # {} => MarksBack # {}
      /\ speakGen' \in echoes' => speakGen \in echoes
  BY <1>2, <1>3
<1> QED
  BY <1>1, <1>4, <1>5, <1>6 DEF MarkInv

\* A step of the response that neither speaks nor sends.
LEMMA SameMarks ==
  ASSUME MarkInv, "pc" \in DOMAIN r', r'.pc = "synth" => r.pc = "synth", gen' \in Nat,
         UNCHANGED <<speakGen, speakDone, air, echoes, events, said>>
  PROVE  MarkInv'
<1>1. MarkTypes'
  BY DEF MarkInv, MarkTypes
<1>2. \A i \in DOMAIN air' : i + 0 \in DOMAIN air /\ air'[i] = air[i + 0]
  BY DEF MarkInv, MarkTypes
<1>3. \A j \in DOMAIN events' : j + 0 \in DOMAIN events /\ events'[j] = events[j + 0]
  BY DEF MarkInv, MarkTypes
<1> QED
  BY <1>1, <1>2, <1>3, CarriedMarks

\* A new speak has no mark anywhere.
LEMMA StartSpeakMarks ==
  ASSUME MarkInv, NEW q, NEW text, "pc" \in DOMAIN q, StartSpeak(q, text),
         UNCHANGED <<gen, air, echoes, events, said>>
  PROVE  MarkInv'
<1>1. /\ "pc" \in DOMAIN r' /\ r'.pc = "synth"
      /\ speakGen' = speakGen + 1 /\ speakDone' = FALSE
  BY DEF StartSpeak
<1>2. MarkTypes' /\ MarksKnown'
  <2>1. MarkTypes'
    <3>1. speakGen + 1 \in Nat /\ gen \in Nat /\ said \in Nat
      BY DEF MarkInv, MarkTypes
    <3>2. {gen', speakGen', said'} \subseteq Nat /\ speakDone' \in BOOLEAN
      BY <1>1, <3>1
    <3> QED
      BY <1>1, <3>2 DEF MarkInv, MarkTypes
  <2>2. /\ \A i \in DOMAIN air : air[i].speak \in Nat
        /\ \A j \in DOMAIN events : events[j].id \in Nat
    <3>1. /\ \A i \in DOMAIN air : air[i] \in Sounds
          /\ \A j \in DOMAIN events : events[j] \in Events
      BY DEF MarkInv, MarkTypes
    <3> QED
      BY <3>1 DEF Sounds, Events
  <2>3. /\ speakGen \in Nat /\ echoes \subseteq Nat /\ MarksKnown
    BY DEF MarkInv, MarkTypes
  <2>4. MarksKnown'
    BY <1>1, <2>2, <2>3 DEF MarksKnown
  <2> QED
    BY <2>1, <2>4
<1>3. MarksOut' = {} /\ MarksBack' = {} /\ speakGen' \notin echoes'
  <2>1. speakGen \in Nat
    BY DEF MarkInv, MarkTypes
  <2>2. \A i \in DOMAIN air : air[i].kind = "mark" => air[i].speak # speakGen + 1
    BY <2>1 DEF MarkInv, MarksKnown
  <2>3. \A j \in DOMAIN events : events[j].type = "ended" => events[j].id # speakGen + 1
    BY <2>1 DEF MarkInv, MarksKnown
  <2>4. speakGen + 1 \notin echoes
    BY <2>1 DEF MarkInv, MarksKnown
  <2> QED
    BY <1>1, <2>2, <2>3, <2>4 DEF MarksOut, MarksBack
<1> QED
  BY <1>1, <1>2, <1>3 DEF MarkInv

LEMMA FinishMarks ==
  ASSUME MarkInv, NEW q, NEW h, NEW end, "pc" \in DOMAIN q, Finish(q, h, end),
         UNCHANGED <<gen, speakGen, speakDone, air, echoes, events, said>>
  PROVE  MarkInv'
<1>1. "pc" \in DOMAIN r' /\ r'.pc # "synth" /\ gen' \in Nat
  BY DEF Finish, MarkInv, MarkTypes
<1> QED
  BY <1>1, SameMarks

\* The last frame is followed by the mark of the speak, unless it is dropped.
LEMMA SynthesisEndsMarks == MarkInv /\ SentInv /\ SynthesisEnds => MarkInv'
<1> SUFFICES ASSUME MarkInv, SentInv, SynthesisEnds PROVE MarkInv'
  OBVIOUS
<1>s. r.sent \in Nat /\ r.sent + 1 \in Nat
  BY DEF SynthesisEnds, Runs, SentInv
<1>1. /\ r.pc = "synth" /\ "pc" \in DOMAIN r' /\ r'.pc = "play"
      /\ UNCHANGED <<gen, speakGen, speakDone, echoes, events, said>>
  BY DEF SynthesisEnds, Runs, respUnchanged, inputVars, speakVars, MarkInv, MarkTypes
<1>2. MarksOut = {} /\ speakGen \notin echoes /\ MarksBack = {} /\ speakDone = FALSE
  BY <1>1 DEF MarkInv, MarkTypes
<1>3. /\ air' \in Seq(Sounds)
      /\ \A i \in DOMAIN air' :
           (i \in DOMAIN air /\ air'[i] = air[i])
             \/ (i = Len(air) + 1 /\ air'[i] = Sound("mark", r.sent))
  <2>1. Sound("mark", r.sent) \in Sounds /\ air \in Seq(Sounds)
    BY <1>s DEF Sound, Sounds, MarkInv, MarkTypes
  <2>2. CASE Accepted
    <3>1. air' = Append(air, Sound("mark", r.sent))
      BY <2>2 DEF SynthesisEnds
    <3> QED
      BY <2>1, <3>1
  <2>3. CASE ~Accepted
    BY <2>1, <2>3 DEF SynthesisEnds
  <2> QED
    BY <2>2, <2>3
<1>4. MarkTypes'
  BY <1>1, <1>3 DEF MarkInv, MarkTypes
<1>5. MarksKnown'
  BY <1>1, <1>3 DEF MarkInv, MarkTypes, MarksKnown, Sound
<1>6. \A i \in MarksOut' : i = Len(air) + 1
  BY <1>1, <1>2, <1>3 DEF MarksOut
<1>7. MarksBack' = {} /\ speakGen' \notin echoes'
  BY <1>1, <1>2 DEF MarksBack
<1> QED
  BY <1>1, <1>2, <1>4, <1>5, <1>6, <1>7 DEF MarkInv

LEMMA FrameSentMarks == MarkInv /\ SentInv /\ FrameSent => MarkInv'
<1> SUFFICES ASSUME MarkInv, SentInv, FrameSent PROVE MarkInv'
  OBVIOUS
<1>s. r.sent \in Nat /\ r.sent + 1 \in Nat
  BY DEF FrameSent, Runs, SentInv
<1>1. /\ "pc" \in DOMAIN r' /\ r'.pc = r.pc
      /\ UNCHANGED <<gen, speakGen, speakDone, echoes, events, said>>
  BY DEF FrameSent, respUnchanged, inputVars, speakVars, MarkInv, MarkTypes
<1>2. /\ air' \in Seq(Sounds)
      /\ \A i \in DOMAIN air' : (i + 0 \in DOMAIN air /\ air'[i] = air[i + 0])
                                 \/ air'[i].kind # "mark"
  <2>1. Sound("audio", r.sent + 1) \in Sounds /\ air \in Seq(Sounds) /\ Sound("audio", r.sent + 1).kind # "mark"
    BY <1>s DEF Sound, Sounds, MarkInv, MarkTypes
  <2>2. CASE Accepted
    <3>1. air' = Append(air, Sound("audio", r.sent + 1))
      BY <2>2 DEF FrameSent
    <3> HIDE DEF Sound
    <3> QED
      BY <2>1, <3>1
  <2>3. CASE ~Accepted
    BY <2>1, <2>3 DEF FrameSent
  <2> QED
    BY <2>2, <2>3
<1>3. MarkTypes'
  BY <1>1, <1>2 DEF MarkInv, MarkTypes
<1>4. \A j \in DOMAIN events' : j + 0 \in DOMAIN events /\ events'[j] = events[j + 0]
  BY <1>1 DEF MarkInv, MarkTypes
<1> QED
  BY <1>1, <1>2, <1>3, <1>4, CarriedMarks

LEMMA ResponseMarks == MarkInv /\ SentInv /\ ResponseStep => MarkInv'
<1> SUFFICES ASSUME MarkInv, SentInv, ResponseStep PROVE MarkInv'
  OBVIOUS
<1> USE DEF Runs, respUnchanged, speakVars, mediaVars, inputVars
<1>0. "pc" \in DOMAIN r /\ gen \in Nat
  BY DEF MarkInv, MarkTypes
<1>1. CASE GreetStarts
  BY <1>0, <1>1, StartSpeakMarks DEF GreetStarts
<1>2. CASE ReplySkipped \/ ReplyHangsUp \/ CancelledOutside
  <2>1. "pc" \in DOMAIN r' /\ r'.pc # "synth"
    BY <1>0, <1>2 DEF ReplySkipped, ReplyHangsUp, CancelledOutside
  <2> QED
    BY <1>0, <1>2, <2>1, SameMarks DEF ReplySkipped, ReplyHangsUp, CancelledOutside
<1>3. CASE ReplyStarts
  <2>1. CASE exhausted'
    BY <1>0, <1>3, <2>1, StartSpeakMarks DEF ReplyStarts, AskLlm
  <2>2. CASE ~exhausted'
    BY <1>0, <1>3, <2>2, SameMarks DEF ReplyStarts, AskLlm
  <2> QED
    BY <2>1, <2>2
<1>4. CASE LlmReplies
  BY <1>0, <1>4, StartSpeakMarks DEF LlmReplies
<1>5. CASE LlmEmpty
  BY <1>0, <1>5, FinishMarks DEF LlmEmpty
<1>6. CASE LlmFails
  BY <1>0, <1>6, StartSpeakMarks DEF LlmFails
<1>7. CASE LlmCallsTools
  <2>1. CASE r.rounds + 1 > MaxToolRounds
    <3>1. StartSpeak([r EXCEPT !.rounds = @ + 1, !.full = "fallback"], "fallback")
      BY <1>7, <2>1 DEF LlmCallsTools
    <3>2. UNCHANGED <<gen, air, echoes, events, said>>
      BY <1>7 DEF LlmCallsTools
    <3> QED
      BY <1>0, <3>1, <3>2, StartSpeakMarks
  <2>2. CASE ~(r.rounds + 1 > MaxToolRounds)
    BY <1>0, <1>7, <2>2, SameMarks DEF LlmCallsTools
  <2> QED
    BY <2>1, <2>2
<1>8. CASE ToolAnswers
  <2> DEFINE q == [r EXCEPT !.calls = Tail(@)]
  <2>0. "pc" \in DOMAIN q /\ r.pc = "tool"
    BY <1>0, <1>8 DEF ToolAnswers
  <2>1. CASE q.calls # <<>>
    BY <1>0, <1>8, <2>0, <2>1, SameMarks DEF ToolAnswers
  <2>2. CASE q.calls = <<>> /\ exhausted'
    <3>1. StartSpeak([q EXCEPT !.full = "budget"], "budget")
      BY <1>8, <2>2 DEF ToolAnswers, AskLlm
    <3>2. UNCHANGED <<gen, air, echoes, events, said>>
      BY <1>8 DEF ToolAnswers
    <3> QED
      BY <2>0, <3>1, <3>2, StartSpeakMarks
  <2>3. CASE q.calls = <<>> /\ ~exhausted'
    BY <1>0, <1>8, <2>0, <2>3, SameMarks DEF ToolAnswers, AskLlm
  <2> QED
    BY <2>1, <2>2, <2>3
<1>9. CASE ToolRaises
  <2>1. StartSpeak([r EXCEPT !.apology = TRUE, !.calls = <<>>], "fallback")
    BY <1>9 DEF ToolRaises
  <2>2. UNCHANGED <<gen, air, echoes, events, said>>
    BY <1>9 DEF ToolRaises
  <2> QED
    BY <1>0, <2>1, <2>2, StartSpeakMarks
<1>10. CASE FrameSent
  BY <1>10, FrameSentMarks
<1>11. CASE SynthesisEnds
  BY <1>11, SynthesisEndsMarks
<1>12. CASE SynthesisFails
  <2>1. CASE r.kind = "reply" /\ ~r.apology
    BY <1>0, <1>12, <2>1, StartSpeakMarks DEF SynthesisFails
  <2>2. CASE ~(r.kind = "reply" /\ ~r.apology)
    BY <1>0, <1>12, <2>2, FinishMarks DEF SynthesisFails
  <2> QED
    BY <2>1, <2>2
<1>13. CASE PlayConfirmed \/ PlayTimesOut
  <2>1. Played
    BY <1>13 DEF PlayConfirmed, PlayTimesOut
  <2> QED
    BY <1>0, <2>1, FinishMarks DEF Played
<1>14. CASE CancelledInside
  BY <1>0, <1>14, FinishMarks DEF CancelledInside
<1> QED
  BY <1>1, <1>2, <1>3, <1>4, <1>5, <1>6, <1>7, <1>8, <1>9, <1>10, <1>11, <1>12,
     <1>13, <1>14 DEF ResponseStep

\* The response keeps its place or is a new one.
LEMMA KeptPlace ==
  ASSUME MarkInv,
         \/ gen' = gen /\ (r' = r \/ r' = [r EXCEPT !.cancel = TRUE])
         \/ \E kind : NewGeneration(kind)
  PROVE  "pc" \in DOMAIN r' /\ gen' \in Nat /\ (r'.pc = "synth" => r.pc = "synth")
BY DEF MarkInv, MarkTypes, NewGeneration, NewResponse

\* Taking an event that is no end of a speak.
LEMMA TakenMarks ==
  ASSUME MarkInv, "pc" \in DOMAIN r', r'.pc = "synth" => r.pc = "synth", gen' \in Nat,
         events # <<>>, events' = Tail(events),
         UNCHANGED <<speakGen, speakDone, air, echoes, said>>
  PROVE  MarkInv'
<1>1. /\ events' \in Seq(Events)
      /\ \A j \in DOMAIN events' : j + 1 \in DOMAIN events /\ events'[j] = events[j + 1]
  BY DEF MarkInv, MarkTypes
<1>2. MarkTypes'
  BY <1>1 DEF MarkInv, MarkTypes
<1>3. \A i \in DOMAIN air' : i + 0 \in DOMAIN air /\ air'[i] = air[i + 0]
  BY DEF MarkInv, MarkTypes
<1> QED
  BY <1>1, <1>2, <1>3, CarriedMarks

\* The end of a speak completes the current one when it is its own.
LEMMA SpeakEndsMarks == MarkInv /\ SpeakEnds => MarkInv'
<1> SUFFICES ASSUME MarkInv, SpeakEnds PROVE MarkInv'
  OBVIOUS
<1>1. /\ events # <<>> /\ Head(events).type = "ended" /\ events' = Tail(events)
      /\ speakDone' = (speakDone \/ Head(events).id = speakGen)
      /\ UNCHANGED <<r, gen, speakGen, air, echoes, said>>
  BY DEF SpeakEnds, Takes, Completes, mediaVars, inputVars
<1>2. CASE Head(events).id = speakGen
  <2>1. /\ events' \in Seq(Events) /\ 1 \in DOMAIN events /\ Head(events) = events[1]
        /\ \A j \in DOMAIN events' :
             j \in 1..Len(events) /\ j + 1 \in DOMAIN events /\ events'[j] = events[j + 1]
    BY <1>1 DEF MarkInv, MarkTypes
  <2>2. 1 \in MarksBack
    BY <1>1, <1>2, <2>1 DEF MarksBack
  <2>3. /\ r.pc # "synth" /\ MarksOut = {} /\ speakGen \notin echoes
        /\ \A j \in MarksBack : j = 1
    BY <2>2 DEF MarkInv
  <2>4. MarksBack' = {}
    <3> SUFFICES ASSUME NEW j \in MarksBack' PROVE FALSE
      OBVIOUS
    <3>1. j + 1 \in MarksBack /\ j \in 1..Len(events)
      BY <1>1, <2>1 DEF MarksBack
    <3>2. j + 1 = 1
      BY <2>3, <3>1
    <3> QED
      BY <3>1, <3>2
  <2>5. MarksOut' = {} /\ speakGen' \notin echoes' /\ r'.pc # "synth"
    BY <1>1, <2>3 DEF MarksOut
  <2>6. MarkTypes' /\ MarksKnown'
    BY <1>1, <2>1 DEF MarkInv, MarkTypes, MarksKnown
  <2> QED
    BY <2>4, <2>5, <2>6 DEF MarkInv
<1>3. CASE Head(events).id # speakGen
  <2>1. speakDone' = speakDone /\ "pc" \in DOMAIN r' /\ gen' \in Nat
    BY <1>1, <1>3 DEF MarkInv, MarkTypes
  <2> QED
    BY <1>1, <2>1, TakenMarks
<1> QED
  BY <1>2, <1>3

\* The sound is discarded, but a mark that Telnyx held may yet be echoed.
LEMMA BargesInMarks == MarkInv /\ BargesIn => MarkInv'
<1> SUFFICES ASSUME MarkInv, BargesIn PROVE MarkInv'
  OBVIOUS
<1>1. /\ events # <<>> /\ events' = Tail(events) /\ air' = <<>>
      /\ echoes' = echoes \cup {air[i].speak : i \in {i \in DOMAIN air : air[i].kind = "mark"}}
      /\ UNCHANGED <<r, gen, speakGen, speakDone, said>>
  BY DEF BargesIn, Takes, Flush, runUnchanged, speakVars, inputVars
<1>2. /\ events' \in Seq(Events)
      /\ \A j \in DOMAIN events' :
           j \in Nat /\ j + 1 \in DOMAIN events /\ events'[j] = events[j + 1]
  BY <1>1 DEF MarkInv, MarkTypes
<1>3. \A g \in echoes' :
         g \in echoes \/ \E i \in DOMAIN air : air[i].kind = "mark" /\ air[i].speak = g
  BY <1>1
<1>4. MarkTypes'
  <2>1. echoes' \subseteq Nat
    <3>1. \A i \in DOMAIN air : air[i] \in Sounds
      BY DEF MarkInv, MarkTypes
    <3>2. \A i \in DOMAIN air : air[i].speak \in Nat
      BY <3>1 DEF Sounds
    <3> QED
      BY <1>3, <3>2 DEF MarkInv, MarkTypes
  <2>2. air' \in Seq(Sounds)
    BY <1>1
  <2> QED
    BY <1>1, <1>2, <2>1, <2>2 DEF MarkInv, MarkTypes
<1>5. MarksKnown'
  <2>1. \A g \in echoes' : g <= speakGen
    BY <1>3 DEF MarkInv, MarksKnown
  <2> QED
    BY <1>1, <1>2, <2>1 DEF MarkInv, MarksKnown
<1>6. MarksOut' = {}
  BY <1>1 DEF MarksOut
<1>7. \A j \in MarksBack' : j + 1 \in MarksBack /\ j \in Nat
  BY <1>1, <1>2 DEF MarksBack
<1>8. speakGen \in echoes' => speakGen \in echoes \/ MarksOut # {}
  BY <1>3 DEF MarksOut
<1>9. \A i, j \in MarksBack' : i = j
  BY <1>7 DEF MarkInv
<1>10. MarksBack' # {} => MarksBack # {}
  BY <1>7
<1> QED
  BY <1>1, <1>4, <1>5, <1>6, <1>8, <1>9, <1>10 DEF MarkInv

\* The stream closes: what was not yet played is gone.
LEMMA ClosedMarks ==
  ASSUME MarkInv, air' \in {air, <<>>}, UNCHANGED <<r, gen, speakGen, speakDone, echoes, said>>,
         events' = events
  PROVE  MarkInv'
<1>0. /\ air' \in Seq(Sounds)
      /\ \A i \in DOMAIN air' : i + 0 \in DOMAIN air /\ air'[i] = air[i + 0]
  <2>1. CASE air' = air
    BY <2>1 DEF MarkInv, MarkTypes
  <2>2. CASE air' = <<>>
    BY <2>2
  <2> QED
    BY <2>1, <2>2
<1>1. MarkTypes'
  BY <1>0 DEF MarkInv, MarkTypes
<1>2. \A j \in DOMAIN events' : j + 0 \in DOMAIN events /\ events'[j] = events[j + 0]
  BY DEF MarkInv, MarkTypes
<1> QED
  BY <1>0, <1>1, <1>2, CarriedMarks

LEMMA RunMarks == MarkInv /\ RunStep => MarkInv'
<1> SUFFICES ASSUME MarkInv, RunStep PROVE MarkInv'
  OBVIOUS
<1> USE DEF runUnchanged, speakVars, mediaVars, inputVars
<1>1. CASE SpeakEnds
  BY <1>1, SpeakEndsMarks
<1>2. CASE BargesIn
  BY <1>2, BargesInMarks
<1>3. CASE ClosesMedia
  <2>1. air' \in {air, <<>>} /\ UNCHANGED <<r, gen, speakGen, speakDone, echoes, said, events>>
    BY <1>3 DEF ClosesMedia
  <2> QED
    BY <2>1, ClosedMarks
<1>4. CASE ~(SpeakEnds \/ BargesIn \/ ClosesMedia)
  <2>1. UNCHANGED <<speakGen, speakDone, air, echoes, said>>
    BY <1>4 DEF RunStep, Connects, HangsUpUnheard, HangsUp, IgnoresInput, Flushed, Listens,
                Answers, Supersedes, Reaps, ReapRaises, RunFails, HangsUpDegraded,
                TornDown, ClosesStt
  <2>2. \/ gen' = gen /\ (r' = r \/ r' = [r EXCEPT !.cancel = TRUE])
        \/ \E kind : NewGeneration(kind)
    BY <1>4 DEF RunStep, Connects, HangsUpUnheard, HangsUp, IgnoresInput, Flushed, Listens,
                Answers, Supersedes, Reaps, ReapRaises, RunFails, HangsUpDegraded,
                TornDown, ClosesStt, Leave, Teardown, RequestCancellation, Commit
  <2>3. events' = events \/ (events # <<>> /\ events' = Tail(events))
    BY <1>4 DEF RunStep, Connects, HangsUpUnheard, HangsUp, IgnoresInput, Flushed, Listens,
                Answers, Supersedes, Reaps, ReapRaises, RunFails, HangsUpDegraded,
                TornDown, ClosesStt, Takes
  <2> QED
    BY <2>1, <2>2, <2>3, KeptPlace, SameMarks, TakenMarks
<1> QED
  BY <1>1, <1>2, <1>3, <1>4

\* What a socket or the server submits, none of it the end of a speak.
LEMMA SubmittedMarks ==
  ASSUME MarkInv, NEW seq \in Seq(Events), \A k \in DOMAIN seq : seq[k].type # "ended",
         events' = events \o seq, air' \in {air, <<>>}, said' \in Nat,
         UNCHANGED <<r, gen, speakGen, speakDone, echoes>>
  PROVE  MarkInv'
<1>1. /\ events' \in Seq(Events)
      /\ \A j \in DOMAIN events' :
           \/ j + 0 \in DOMAIN events /\ events'[j] = events[j + 0]
           \/ j - Len(events) \in DOMAIN seq /\ events'[j] = seq[j - Len(events)]
  BY DEF MarkInv, MarkTypes
<1>2. /\ air' \in Seq(Sounds)
      /\ \A i \in DOMAIN air' : i + 0 \in DOMAIN air /\ air'[i] = air[i + 0]
  <2>1. CASE air' = air
    BY <2>1 DEF MarkInv, MarkTypes
  <2>2. CASE air' = <<>>
    BY <2>2
  <2> QED
    BY <2>1, <2>2
<1>3. MarkTypes'
  BY <1>1, <1>2 DEF MarkInv, MarkTypes
<1> QED
  BY <1>1, <1>2, <1>3, CarriedMarks

\* The echo of a mark is read and queued.
LEMMA MarkArrivesMarks == MarkInv /\ MarkArrives => MarkInv'
<1> SUFFICES ASSUME MarkInv, MarkArrives PROVE MarkInv'
  OBVIOUS
<1>0. UNCHANGED <<r, gen, speakGen, speakDone, air, said>>
  BY DEF MarkArrives, quiet, speakVars, inputVars
<1>1. PICK g \in echoes : /\ events' = events \o <<Event("ended", g)>>
                          /\ echoes' = echoes \ {g}
  BY DEF MarkArrives, Submit
<1>2. /\ g \in Nat /\ g <= speakGen /\ Event("ended", g) \in Events
      /\ Event("ended", g).id = g
  BY DEF MarkInv, MarkTypes, MarksKnown, Event, Events
<1>3. /\ events' \in Seq(Events)
      /\ \A j \in DOMAIN events' :
           \/ j \in DOMAIN events /\ events'[j] = events[j]
           \/ j = Len(events) + 1 /\ events'[j] = Event("ended", g)
  <2>1. events \in Seq(Events)
    BY DEF MarkInv, MarkTypes
  <2> QED
    BY <1>1, <1>2, <2>1
<1>4. MarkTypes' /\ MarksKnown'
  BY <1>0, <1>1, <1>2, <1>3 DEF MarkInv, MarkTypes, MarksKnown
<1>5. MarksOut' = MarksOut /\ (speakGen' \in echoes' <=> speakGen \in echoes /\ g # speakGen)
  BY <1>0, <1>1 DEF MarksOut
<1>6. \A j \in MarksBack' : j \in MarksBack \/ (j = Len(events) + 1 /\ g = speakGen)
  BY <1>0, <1>2, <1>3 DEF MarksBack
<1>7. CASE g = speakGen
  <2>1. MarksBack = {} /\ MarksOut = {} /\ ~speakDone /\ r.pc # "synth"
    BY <1>1, <1>7 DEF MarkInv
  <2> QED
    BY <1>0, <1>4, <1>5, <1>6, <1>7, <2>1 DEF MarkInv
<1>8. CASE g # speakGen
  <2>1. \A j \in MarksBack' : j \in MarksBack
    BY <1>6, <1>8
  <2> QED
    BY <1>0, <1>4, <1>5, <2>1 DEF MarkInv
<1> QED
  BY <1>7, <1>8

\* A mark that is played is echoed, if its echo is not lost.
LEMMA TelnyxPlaysMarks == MarkInv /\ TelnyxPlays => MarkInv'
<1> SUFFICES ASSUME MarkInv, TelnyxPlays PROVE MarkInv'
  OBVIOUS
<1>0. UNCHANGED <<r, gen, speakGen, speakDone, events, said>>
  BY DEF TelnyxPlays, quiet, speakVars, inputVars
<1>1. /\ air # <<>> /\ air' = Tail(air)
      /\ echoes' = IF Head(air).kind = "mark" THEN echoes \cup {Head(air).speak} ELSE echoes
  BY DEF TelnyxPlays
<1>2. /\ air' \in Seq(Sounds) /\ 1 \in DOMAIN air /\ Head(air) = air[1]
      /\ air[1] \in Sounds
      /\ \A i \in DOMAIN air' :
           i \in 1..Len(air) /\ i + 1 \in DOMAIN air /\ air'[i] = air[i + 1]
  BY <1>1 DEF MarkInv, MarkTypes
<1>3. MarkTypes' /\ MarksKnown'
  <2>1. air[1].speak \in Nat /\ (air[1].kind = "mark" => air[1].speak <= speakGen)
    BY <1>2 DEF Sounds, MarkInv, MarksKnown
  <2>2. \A g \in echoes' : g \in echoes \/ (air[1].kind = "mark" /\ g = air[1].speak)
    BY <1>1, <1>2
  <2>3. MarkTypes'
    BY <1>0, <1>2, <2>1, <2>2 DEF MarkInv, MarkTypes
  <2>4. \A g \in echoes' : g <= speakGen
    BY <2>1, <2>2 DEF MarkInv, MarksKnown
  <2> QED
    BY <1>0, <1>2, <2>3, <2>4 DEF MarkInv, MarksKnown
<1>4. \A i \in MarksOut' : i + 1 \in MarksOut /\ i \in 1..Len(air)
  BY <1>0, <1>2 DEF MarksOut
<1>5. MarksBack' = MarksBack
  BY <1>0 DEF MarksBack
<1>6. CASE 1 \in MarksOut
  <2>1. /\ MarksBack = {} /\ ~speakDone /\ r.pc # "synth"
        /\ \A i \in MarksOut : i = 1
    BY <1>6 DEF MarkInv
  <2>2. MarksOut' = {}
    <3> SUFFICES ASSUME NEW i \in MarksOut' PROVE FALSE
      OBVIOUS
    <3>1. i + 1 = 1 /\ i \in 1..Len(air)
      BY <1>4, <2>1
    <3> QED
      BY <3>1
  <2> QED
    BY <1>0, <1>3, <1>5, <2>1, <2>2 DEF MarkInv
<1>7. CASE 1 \notin MarksOut
  <2>1. speakGen \in echoes' => speakGen \in echoes
    BY <1>1, <1>2, <1>7 DEF MarksOut
  <2>2. /\ \A i, j \in MarksOut' : i = j
        /\ MarksOut' # {} => MarksOut # {}
    BY <1>4 DEF MarkInv
  <2> QED
    BY <1>0, <1>3, <1>5, <2>1, <2>2 DEF MarkInv
<1> QED
  BY <1>6, <1>7

LEMMA EnvironmentMarks == MarkInv /\ Environment => MarkInv'
<1> SUFFICES ASSUME MarkInv, Environment PROVE MarkInv'
  OBVIOUS
<1> USE DEF quiet, speakVars, mediaVars, inputVars
<1>0. said \in Nat /\ said + 1 \in Nat
  BY DEF MarkInv, MarkTypes
<1>1. CASE SttInterim \/ SttEnd \/ VadOnset \/ ServerHangsUp \/ SttDies \/ MediaDies
  <2>1. UNCHANGED <<r, gen, speakGen, speakDone, echoes, said>> /\ air' \in {air, <<>>}
    BY <1>1 DEF SttInterim, SttEnd, VadOnset, ServerHangsUp, SttDies, MediaDies
  <2>2. PICK type \in {"interim", "end", "vad", "hangup"} : events' = events \o <<Event(type, 0)>>
    BY <1>1 DEF SttInterim, SttEnd, VadOnset, ServerHangsUp, SttDies, MediaDies, Submit,
                Hangup
  <2>3. <<Event(type, 0)>> \in Seq(Events) /\ Event(type, 0).type # "ended"
    BY DEF Event, Events, Transcripts
  <2>4. \A k \in DOMAIN <<Event(type, 0)>> : <<Event(type, 0)>>[k].type # "ended"
    BY <2>3
  <2> QED
    BY <1>0, <2>1, <2>2, <2>3, <2>4, SubmittedMarks
<1>2. CASE SttFinal
  <2> DEFINE one == <<Event("final", said + 1)>>
             two == <<Event("final", said + 1), Event("end", 0)>>
  <2>1. UNCHANGED <<r, gen, speakGen, speakDone, echoes, air>> /\ said' \in Nat
    BY <1>0, <1>2 DEF SttFinal
  <2>2. events' = events \o one \/ events' = events \o two
    BY <1>2 DEF SttFinal, Submit
  <2>3. /\ Event("final", said + 1) \in Events /\ Event("end", 0) \in Events
        /\ Event("final", said + 1).type # "ended" /\ Event("end", 0).type # "ended"
    BY <1>0 DEF Event, Events, Transcripts
  <2>4. /\ one \in Seq(Events) /\ \A k \in DOMAIN one : one[k].type # "ended"
        /\ two \in Seq(Events) /\ \A k \in DOMAIN two : two[k].type # "ended"
    BY <2>3
  <2> HIDE DEF one, two
  <2> QED
    BY <2>1, <2>2, <2>4, SubmittedMarks
<1>3. CASE TelnyxPlays
  BY <1>3, TelnyxPlaysMarks
<1>4. CASE MarkArrives
  BY <1>4, MarkArrivesMarks
<1>5. CASE ServerCancels
  <2>1. /\ gen' = gen /\ (r' = r \/ r' = [r EXCEPT !.cancel = TRUE])
        /\ UNCHANGED <<speakGen, speakDone, air, echoes, events, said>>
    BY <1>5 DEF ServerCancels, Leave, Teardown
  <2> QED
    BY <2>1, KeptPlace, SameMarks
<1> QED
  BY <1>1, <1>2, <1>3, <1>4, <1>5 DEF Environment

LEMMA MarkAlways == Spec => []MarkInv
<1>1. Init => MarkInv
  <2> SUFFICES ASSUME Init PROVE MarkInv
    OBVIOUS
  <2>1. /\ air = <<>> /\ events = <<>> /\ echoes = {} /\ speakDone = FALSE
        /\ gen = 0 /\ speakGen = 0 /\ said = 0
    BY DEF Init
  <2>2. "pc" \in DOMAIN r /\ r.pc = "none"
    BY DEF Init, NewResponse
  <2>3. MarksOut = {} /\ MarksBack = {} /\ MarksKnown
    BY <2>1 DEF MarksOut, MarksBack, MarksKnown
  <2>4. MarkTypes
    <3>1. air \in Seq(Sounds) /\ events \in Seq(Events) /\ echoes \subseteq Nat
      BY <2>1
    <3>2. {gen, speakGen, said} \subseteq Nat
      BY <2>1
    <3>3. speakDone \in BOOLEAN
      BY <2>1
    <3> QED
      BY <2>2, <3>1, <3>2, <3>3 DEF MarkTypes
  <2> QED
    BY <2>1, <2>2, <2>3, <2>4 DEF MarkInv
<1>2. MarkInv /\ SentInv /\ [Next]_vars => MarkInv'
  <2> SUFFICES ASSUME MarkInv, SentInv, [Next]_vars PROVE MarkInv'
    OBVIOUS
  <2>1. CASE UNCHANGED vars
    BY <2>1, ClosedMarks DEF vars, speakVars, mediaVars, inputVars
  <2>2. CASE Next
    BY <2>2, ResponseMarks, RunMarks, EnvironmentMarks DEF Next
  <2> QED
    BY <2>1, <2>2
<1> QED
  BY <1>1, <1>2, InitSent, SentStep, PTL DEF Spec

\* A speak is taken for complete only when its own mark came back.
THEOREM OwnMarkCompletes == Spec => []OnlyOwnMarkCompletes
<1>1. MarkInv => OnlyOwnMarkCompletes
  BY DEF MarkInv, MarksOut, OnlyOwnMarkCompletes, InSpeak
<1> QED
  BY <1>1, MarkAlways, PTL

----------------------------------------------------------------------------
(* What the caller said                                                    *)

FinalsIn(q) == {i \in DOMAIN q : q[i].type = "final"}

\* Of the first n transcripts the oldest were taken, the others are in queue q,
\* all in order.
InOrder(t, q, n) ==
  /\ t = [i \in 1..Len(t) |-> i] /\ Len(t) <= n
  /\ \A i \in FinalsIn(q) : q[i].id \in (Len(t) + 1)..n
  /\ \A k \in (Len(t) + 1)..n : \E i \in FinalsIn(q) : q[i].id = k
  /\ \A i, j \in FinalsIn(q) : i < j => q[i].id < q[j].id

\* What is queued behind is no transcript.
LEMMA QueuesOther ==
  ASSUME NEW t \in Seq(Nat), NEW q \in Seq(Events), NEW n \in Nat, InOrder(t, q, n),
         NEW e \in Events, e.type # "final"
  PROVE  InOrder(t, Append(q, e), n)
<1>1. FinalsIn(Append(q, e)) = FinalsIn(q)
  <2>1. FinalsIn(Append(q, e)) = {i \in 1..(Len(q) + 1) : Append(q, e)[i].type = "final"}
    BY DEF FinalsIn
  <2>2. FinalsIn(q) = {i \in 1..Len(q) : q[i].type = "final"}
    BY DEF FinalsIn
  <2> QED
    BY <2>1, <2>2
<1>2. \A i \in FinalsIn(q) : Append(q, e)[i] = q[i]
  BY DEF FinalsIn
<1> QED
  BY <1>1, <1>2 DEF InOrder

\* The next transcript is queued behind.
LEMMA QueuesFinal ==
  ASSUME NEW t \in Seq(Nat), NEW q \in Seq(Events), NEW n \in Nat, InOrder(t, q, n)
  PROVE  InOrder(t, Append(q, Event("final", n + 1)), n + 1)
<1> DEFINE e == Event("final", n + 1)
           p == Append(q, e)
<1>0. e \in Events /\ e.type = "final" /\ e.id = n + 1
  BY DEF Event, Events, Transcripts
<1>1. /\ p \in Seq(Events) /\ Len(p) = Len(q) + 1 /\ p[Len(q) + 1] = e
      /\ \A i \in 1..Len(q) : p[i] = q[i]
  BY <1>0
<1> HIDE DEF e, p
<1>2. FinalsIn(p) = FinalsIn(q) \cup {Len(q) + 1}
  <2>1. FinalsIn(p) = {i \in 1..(Len(q) + 1) : p[i].type = "final"}
    BY <1>1 DEF FinalsIn
  <2>2. FinalsIn(q) = {i \in 1..Len(q) : q[i].type = "final"}
    BY DEF FinalsIn
  <2> QED
    BY <1>0, <1>1, <2>1, <2>2
<1>3. /\ \A i \in FinalsIn(q) : p[i] = q[i] /\ i < Len(q) + 1 /\ i \in Nat
      /\ p[Len(q) + 1].id = n + 1
  BY <1>0, <1>1 DEF FinalsIn
<1>4. \A i \in FinalsIn(q) : q[i].id \in (Len(t) + 1)..n
  BY DEF InOrder
<1>5. \A k \in (Len(t) + 1)..n : \E i \in FinalsIn(q) : q[i].id = k
  BY DEF InOrder
<1>6. \A i \in FinalsIn(p) : p[i].id \in (Len(t) + 1)..(n + 1)
  <2> SUFFICES ASSUME NEW i \in FinalsIn(p) PROVE p[i].id \in (Len(t) + 1)..(n + 1)
    OBVIOUS
  <2>1. CASE i \in FinalsIn(q)
    <3>1. p[i].id \in (Len(t) + 1)..n
      BY <1>3, <1>4, <2>1
    <3> QED
      BY <3>1
  <2>2. CASE i = Len(q) + 1
    <3>1. Len(t) <= n /\ Len(t) \in Nat
      BY DEF InOrder
    <3> QED
      BY <1>3, <2>2, <3>1
  <2> QED
    BY <1>2, <2>1, <2>2
<1>7. ASSUME NEW k \in (Len(t) + 1)..(n + 1) PROVE \E i \in FinalsIn(p) : p[i].id = k
  <2>1. CASE k = n + 1
    BY <1>2, <1>3, <2>1
  <2>2. CASE k # n + 1
    <3>1. k \in (Len(t) + 1)..n
      BY <2>2
    <3> QED
      BY <1>2, <1>3, <1>5, <3>1
  <2> QED
    BY <2>1, <2>2
<1>8. ASSUME NEW i \in FinalsIn(p), NEW j \in FinalsIn(p), i < j PROVE p[i].id < p[j].id
  <2>1. CASE j \in FinalsIn(q)
    <3>1. i \in FinalsIn(q)
      BY <1>0, <1>2, <1>3, <1>8, <2>1
    <3>2. q[i].id < q[j].id
      BY <1>8, <2>1, <3>1 DEF InOrder
    <3> QED
      BY <1>3, <2>1, <3>1, <3>2
  <2>2. CASE j = Len(q) + 1
    <3>1. i \in FinalsIn(q)
      BY <1>2, <1>8, <2>2
    <3>2. p[i].id \in (Len(t) + 1)..n /\ p[j].id = n + 1
      BY <1>3, <1>4, <2>2, <3>1
    <3> QED
      BY <3>2
  <2> QED
    BY <1>2, <2>1, <2>2
<1>9. t = [i \in 1..Len(t) |-> i] /\ Len(t) <= n + 1
  BY DEF InOrder
<1>10. InOrder(t, p, n + 1)
  BY <1>6, <1>7, <1>8, <1>9 DEF InOrder
<1> QED
  BY <1>10 DEF p, e

\* The head of the queue is taken and is no transcript.
LEMMA PassesOther ==
  ASSUME NEW t \in Seq(Nat), NEW q \in Seq(Events), NEW n \in Nat, InOrder(t, q, n),
         q # <<>>, Head(q).type # "final"
  PROVE  InOrder(t, Tail(q), n)
<1> DEFINE p == Tail(q)
<1>1. /\ p \in Seq(Events) /\ Len(q) \in Nat /\ Len(p) = Len(q) - 1 /\ q[1].type # "final"
      /\ \A i \in 1..Len(p) : p[i] = q[i + 1]
  OBVIOUS
<1> HIDE DEF p
<1>2. \A i \in FinalsIn(p) : i + 1 \in FinalsIn(q) /\ p[i] = q[i + 1] /\ i \in Nat
  BY <1>1 DEF FinalsIn
<1>3. \A j \in FinalsIn(q) : j - 1 \in FinalsIn(p) /\ p[j - 1] = q[j] /\ j \in Nat
  <2> SUFFICES ASSUME NEW j \in FinalsIn(q)
               PROVE  j - 1 \in FinalsIn(p) /\ p[j - 1] = q[j] /\ j \in Nat
    OBVIOUS
  <2>1. j \in 1..Len(q) /\ q[j].type = "final"
    BY DEF FinalsIn
  <2>2. j # 1
    BY <1>1, <2>1
  <2>3. j - 1 \in 1..Len(p) /\ (j - 1) + 1 = j
    BY <1>1, <2>1, <2>2
  <2> QED
    BY <1>1, <2>1, <2>3 DEF FinalsIn
<1>4. \A i \in FinalsIn(q) : q[i].id \in (Len(t) + 1)..n
  BY DEF InOrder
<1>5. \A k \in (Len(t) + 1)..n : \E i \in FinalsIn(q) : q[i].id = k
  BY DEF InOrder
<1>6. \A i \in FinalsIn(p) : p[i].id \in (Len(t) + 1)..n
  BY <1>2, <1>4
<1>7. \A k \in (Len(t) + 1)..n : \E i \in FinalsIn(p) : p[i].id = k
  BY <1>3, <1>5
<1>8. \A i, j \in FinalsIn(p) : i < j => p[i].id < p[j].id
  <2> SUFFICES ASSUME NEW i \in FinalsIn(p), NEW j \in FinalsIn(p), i < j PROVE p[i].id < p[j].id
    OBVIOUS
  <2>1. i \in Nat /\ j \in Nat /\ i + 1 \in FinalsIn(q) /\ j + 1 \in FinalsIn(q)
        /\ p[i] = q[i + 1] /\ p[j] = q[j + 1]
    BY <1>2
  <2>2. i + 1 < j + 1
    BY <2>1
  <2>3. q[i + 1].id < q[j + 1].id
    BY <2>1, <2>2 DEF InOrder
  <2> QED BY <2>1, <2>3
<1>9. InOrder(t, p, n)
  BY <1>6, <1>7, <1>8 DEF InOrder
<1> QED
  BY <1>9 DEF p

\* The head of the queue is a transcript, then it is the next one.
LEMMA TakesFinal ==
  ASSUME NEW t \in Seq(Nat), NEW q \in Seq(Events), NEW n \in Nat, InOrder(t, q, n),
         q # <<>>, Head(q).type = "final"
  PROVE  InOrder(Append(t, Head(q).id), Tail(q), n)
<1> DEFINE p == Tail(q)
           u == Append(t, Head(q).id)
           m == Len(t)
<1>1. /\ p \in Seq(Events) /\ Len(q) \in Nat /\ Len(p) = Len(q) - 1
      /\ q[1] = Head(q) /\ q[1].type = "final" /\ q[1] \in Events
      /\ 1 \in FinalsIn(q) /\ m \in Nat
      /\ \A i \in 1..Len(p) : p[i] = q[i + 1]
  BY DEF FinalsIn
<1>2. \A i \in FinalsIn(q) : q[i].id \in (m + 1)..n /\ i \in Nat /\ i >= 1
  BY DEF InOrder, FinalsIn
<1>3. \A k \in (m + 1)..n : \E i \in FinalsIn(q) : q[i].id = k
  BY DEF InOrder
<1>4. \A i, j \in FinalsIn(q) : i < j => q[i].id < q[j].id
  BY DEF InOrder
<1>5. q[1].id = m + 1
  <2>1. q[1].id \in (m + 1)..n
    BY <1>1, <1>2
  <2>2. m + 1 \in (m + 1)..n
    BY <1>1, <2>1
  <2>3. PICK i \in FinalsIn(q) : q[i].id = m + 1
    BY <1>3, <2>2
  <2>4. i = 1 \/ q[1].id < m + 1
    BY <1>1, <1>2, <1>4, <2>3
  <2> QED
    BY <1>1, <2>1, <2>3, <2>4
<1>6. u = [i \in 1..Len(u) |-> i] /\ Len(u) = m + 1 /\ u \in Seq(Nat)
  <2>1. t = [i \in 1..m |-> i]
    BY DEF InOrder
  <2>2. u = Append(t, m + 1)
    BY <1>1, <1>5
  <2>3. Len(u) = m + 1 /\ u \in Seq(Nat) /\ \A i \in 1..(m + 1) : u[i] = i
    BY <1>1, <2>1, <2>2
  <2> HIDE DEF u
  <2> QED
    BY <2>3
<1> HIDE DEF p, u, m
<1>7. \A i \in FinalsIn(p) : i + 1 \in FinalsIn(q) /\ p[i] = q[i + 1] /\ i \in Nat /\ i >= 1
  BY <1>1 DEF FinalsIn
<1>8. \A j \in FinalsIn(q) : j # 1 => j - 1 \in FinalsIn(p) /\ p[j - 1] = q[j]
  <2> SUFFICES ASSUME NEW j \in FinalsIn(q), j # 1
               PROVE  j - 1 \in FinalsIn(p) /\ p[j - 1] = q[j]
    OBVIOUS
  <2>1. j \in 1..Len(q) /\ q[j].type = "final"
    BY DEF FinalsIn
  <2>2. j - 1 \in 1..Len(p) /\ (j - 1) + 1 = j
    BY <1>1, <2>1
  <2> QED
    BY <1>1, <2>1, <2>2 DEF FinalsIn
<1>9. ASSUME NEW i \in FinalsIn(p) PROVE p[i].id \in (m + 1 + 1)..n
  <2>1. i + 1 \in FinalsIn(q) /\ p[i] = q[i + 1] /\ 1 < i + 1
    BY <1>7
  <2>2. q[1].id < q[i + 1].id /\ q[i + 1].id \in (m + 1)..n
    BY <1>1, <1>2, <1>4, <2>1
  <2> QED
    BY <1>1, <1>5, <2>1, <2>2
<1>10. ASSUME NEW k \in (m + 1 + 1)..n PROVE \E i \in FinalsIn(p) : p[i].id = k
  <2>1. k \in (m + 1)..n /\ k # m + 1
    BY <1>1
  <2>2. PICK j \in FinalsIn(q) : q[j].id = k
    BY <1>3, <2>1
  <2>3. j # 1
    BY <1>5, <2>1, <2>2
  <2> QED
    BY <1>8, <2>2, <2>3
<1>11. ASSUME NEW i \in FinalsIn(p), NEW j \in FinalsIn(p), i < j PROVE p[i].id < p[j].id
  <2>1. /\ i + 1 \in FinalsIn(q) /\ j + 1 \in FinalsIn(q) /\ i + 1 < j + 1
        /\ p[i] = q[i + 1] /\ p[j] = q[j + 1]
    BY <1>7, <1>11
  <2> QED
    BY <1>4, <2>1
<1>12. m + 1 <= n
  BY <1>1, <1>2, <1>5
<1>13. InOrder(u, p, n)
  BY <1>6, <1>9, <1>10, <1>11, <1>12 DEF InOrder
<1> QED
  BY <1>13 DEF p, u
\* The run loop still takes what the caller says.
Listening == (Serving \/ runPc = "connect") /\ ~ending

taken == committed \o turn \o buffer

SpeechTypes ==
  /\ events \in Seq(Events) /\ held \in Seq(Events)
  /\ turn \in Seq(Nat) /\ buffer \in Seq(Nat) /\ committed \in Seq(Nat)
  /\ said \in Nat

\* Inductive: as long as it listens, what was taken and what is queued are in
\* order, and only a flush holds an event, only a superseded response a turn.
SpeechInv ==
  Listening =>
    /\ SpeechTypes
    /\ IF runPc = "flush" THEN Len(held) = 1 ELSE held = <<>>
    /\ runPc # "reap" => turn = <<>>
    /\ InOrder(taken, held \o events, said)

\* What touches neither what was taken nor what is queued.
LEMMA SameSpeech ==
  ASSUME SpeechInv, UNCHANGED <<events, held, turn, buffer, committed, said>>,
         Listening' => Listening /\ runPc' = runPc
  PROVE  SpeechInv'
<1>1. taken' = taken /\ (held \o events)' = held \o events
  BY DEF taken
<1> QED
  BY <1>1 DEF SpeechInv, SpeechTypes

\* Waiting for an event, nothing is held and no turn waits.
LEMMA GetSpeech ==
  ASSUME SpeechInv, Listening, runPc # "flush"
  PROVE  /\ SpeechTypes /\ held = <<>> /\ held \o events = events
         /\ taken \in Seq(Nat) /\ InOrder(taken, events, said)
<1>1. SpeechTypes /\ held = <<>> /\ InOrder(taken, held \o events, said)
  BY DEF SpeechInv
<1>2. held \o events = events /\ taken \in Seq(Nat)
  BY <1>1 DEF SpeechTypes, taken
<1> QED
  BY <1>1, <1>2

\* The order holds for the new state.
LEMMA NewSpeech ==
  ASSUME SpeechTypes', held' = <<>>, runPc' # "flush", runPc' # "reap" => turn' = <<>>,
         InOrder(taken', events', said')
  PROVE  SpeechInv'
<1>1. (held \o events)' = events'
  BY DEF SpeechTypes
<1> QED
  BY <1>1 DEF SpeechInv

\* Something else than a transcript is queued.
LEMMA SubmitOther ==
  ASSUME SpeechInv, NEW e \in Events, e.type # "final", events' = events \o <<e>>,
         UNCHANGED <<held, turn, buffer, committed, said, ending, runPc>>
  PROVE  SpeechInv'
<1> SUFFICES ASSUME Listening PROVE SpeechInv'
  BY DEF SpeechInv, Listening, Serving
<1>1. /\ SpeechTypes /\ InOrder(taken, held \o events, said)
      /\ held \in Seq(Events) /\ held \o events \in Seq(Events) /\ taken \in Seq(Nat)
  <2>1. SpeechTypes /\ InOrder(taken, held \o events, said)
    BY DEF SpeechInv
  <2> QED
    BY <2>1 DEF SpeechTypes, taken
<1>2. (held \o events)' = Append(held \o events, e) /\ events' \in Seq(Events)
  BY <1>1 DEF SpeechTypes
<1>3. InOrder(taken, Append(held \o events, e), said)
  BY <1>1, QueuesOther DEF SpeechTypes
<1>4. taken' = taken
  BY DEF taken
<1> QED
  BY <1>1, <1>2, <1>3, <1>4 DEF SpeechInv, SpeechTypes, Listening

\* The next transcript is queued, alone or with the end of its utterance.
LEMMA SubmitFinal == SpeechInv /\ SttFinal => SpeechInv'
<1> SUFFICES ASSUME SpeechInv, SttFinal PROVE SpeechInv'
  OBVIOUS
<1> USE DEF quiet, runVars, turnVars, committedVars
<1>0. UNCHANGED <<held, turn, buffer, committed, ending, runPc>> /\ said' = said + 1
  BY DEF SttFinal
<1> SUFFICES ASSUME Listening PROVE SpeechInv'
  BY <1>0 DEF SpeechInv, Listening, Serving
<1> DEFINE f == Event("final", said + 1)
           g == Event("end", 0)
           q == held \o events
<1>1. /\ SpeechTypes /\ InOrder(taken, q, said)
      /\ held \in Seq(Events) /\ q \in Seq(Events) /\ taken \in Seq(Nat)
  <2>1. SpeechTypes /\ InOrder(taken, q, said)
    BY DEF SpeechInv
  <2> QED
    BY <2>1 DEF SpeechTypes, taken
<1>2. f \in Events /\ g \in Events /\ g.type # "final"
  BY <1>1 DEF SpeechTypes, Event, Events, Transcripts
<1>3. InOrder(taken, Append(q, f), said + 1)
  BY <1>1, QueuesFinal DEF SpeechTypes
<1>4. Append(q, f) \in Seq(Events) /\ said + 1 \in Nat
  BY <1>1, <1>2 DEF SpeechTypes
<1>5. InOrder(taken, Append(Append(q, f), g), said + 1)
  BY <1>1, <1>2, <1>3, <1>4, QueuesOther
<1>6. taken' = taken
  BY <1>0 DEF taken
<1>7. events' = events \o <<f>> \/ events' = events \o <<f, g>>
  BY DEF SttFinal, Submit
<1>8. events' \in Seq(Events) /\ InOrder(taken, (held \o events)', said')
  <2>1. events \in Seq(Events) /\ held' = held
    BY <1>0, <1>1 DEF SpeechTypes
  <2> HIDE DEF f, g
  <2>2. CASE events' = events \o <<f>>
    <3>1. (held \o events)' = Append(q, f) /\ events' \in Seq(Events)
      BY <1>1, <1>2, <2>1, <2>2
    <3> QED
      BY <1>0, <1>3, <3>1
  <2>3. CASE events' = events \o <<f, g>>
    <3>1. (held \o events)' = Append(Append(q, f), g) /\ events' \in Seq(Events)
      <4>1. events' = Append(Append(events, f), g)
        BY <1>2, <2>1, <2>3
      <4>2. Append(events, f) \in Seq(Events)
        BY <1>2, <2>1
      <4>3. held \o Append(Append(events, f), g) = Append(held \o Append(events, f), g)
        BY <1>1, <1>2, <4>2
      <4>4. held \o Append(events, f) = Append(q, f)
        BY <1>1, <1>2, <2>1
      <4> QED
        BY <1>2, <2>1, <4>1, <4>2, <4>3, <4>4
    <3> QED
      BY <1>0, <1>5, <3>1
  <2> QED
    BY <1>7, <2>2, <2>3
<1> QED
  BY <1>0, <1>1, <1>4, <1>6, <1>8 DEF SpeechInv, SpeechTypes, Listening

LEMMA AppendedToJoin ==
  ASSUME NEW a \in Seq(Nat), NEW b \in Seq(Nat), NEW n \in Nat
  PROVE  a \o Append(b, n) = Append(a \o b, n)
<1>0. <<n>> \in Seq(Nat) /\ \A s \in Seq(Nat) : Append(s, n) = s \o <<n>>
  OBVIOUS
<1>1. Append(b, n) = b \o <<n>>
  BY <1>0
<1>2. a \o (b \o <<n>>) = (a \o b) \o <<n>> /\ a \o b \in Seq(Nat)
  BY <1>0
<1> QED
  BY <1>0, <1>1, <1>2

\* The head of the queue goes into the turn being assembled.
LEMMA AssembleSpeech ==
  ASSUME SpeechTypes, turn = <<>>, NEW q \in Seq(Events), q # <<>>,
         InOrder(taken, q, said), Assemble(Head(q)), turn' = <<>>
  PROVE  buffer' \in Seq(Nat) /\ committed' = committed /\ InOrder(taken', Tail(q), said)
<1>1. Head(q) \in Events /\ Head(q).id \in Nat
  <2>1. Head(q) \in Events
    OBVIOUS
  <2> QED
    BY <2>1 DEF Events
<1>2. /\ taken \in Seq(Nat) /\ taken = committed \o buffer /\ said \in Nat
      /\ committed \in Seq(Nat) /\ buffer \in Seq(Nat)
  BY DEF SpeechTypes, taken
<1>3. committed' = committed
  BY DEF Assemble, committedVars
<1>4. CASE Head(q).type = "final"
  <2>1. buffer' = Append(buffer, Head(q).id)
    BY <1>4 DEF Assemble
  <2>2. taken' = Append(taken, Head(q).id)
    <3>1. taken' = committed \o Append(buffer, Head(q).id)
      BY <1>3, <2>1 DEF taken
    <3>2. committed \o Append(buffer, Head(q).id) = Append(committed \o buffer, Head(q).id)
      BY <1>1, <1>2, AppendedToJoin
    <3> QED
      BY <1>2, <3>1, <3>2
  <2>3. InOrder(Append(taken, Head(q).id), Tail(q), said)
    BY <1>2, <1>4, TakesFinal
  <2> QED
    BY <1>1, <1>2, <1>3, <2>1, <2>2, <2>3
<1>5. CASE Head(q).type # "final"
  <2>1. buffer' = buffer
    BY <1>5 DEF Assemble
  <2>2. taken' = taken
    BY <1>3, <2>1 DEF taken
  <2>3. InOrder(taken, Tail(q), said)
    BY <1>2, <1>5, PassesOther
  <2> QED
    BY <1>2, <1>3, <2>1, <2>2, <2>3
<1> QED
  BY <1>4, <1>5

LEMMA LeaveSpeech ==
  ASSUME NEW end, Leave(end)
  PROVE  SpeechInv'
BY DEF Leave, Teardown, SpeechInv, Listening, Serving

LEMMA FlushedSpeech == SpeechInv /\ Flushed => SpeechInv'
<1> SUFFICES ASSUME SpeechInv, Flushed, Listening PROVE SpeechInv'
  BY DEF Flushed, SpeechInv, Listening, Serving, flagVars
<1>0. /\ runPc = "flush" /\ Assemble(held[1]) /\ runPc' = "get" /\ held' = <<>>
      /\ turn' = turn /\ events' = events /\ said' = said
  BY DEF Flushed, runUnchanged, inputVars
<1>1. /\ SpeechTypes /\ Len(held) = 1 /\ turn = <<>> /\ InOrder(taken, held \o events, said)
  BY <1>0 DEF SpeechInv
<1> DEFINE q == held \o events
<1>2. /\ q \in Seq(Events) /\ q # <<>> /\ Head(q) = held[1] /\ Tail(q) = events
  <2>1. held \in Seq(Events) /\ events \in Seq(Events) /\ Len(held) = 1
    BY <1>1 DEF SpeechTypes
  <2>2. held = <<held[1]>> /\ held[1] \in Events
    BY <2>1
  <2>3. \A e \in Events : /\ <<e>> \o events \in Seq(Events) /\ <<e>> \o events # <<>>
                          /\ Head(<<e>> \o events) = e /\ Tail(<<e>> \o events) = events
    BY <2>1
  <2> QED
    BY <2>2, <2>3
<1> HIDE DEF q
<1>3. buffer' \in Seq(Nat) /\ committed' = committed /\ InOrder(taken', Tail(q), said)
  BY <1>0, <1>1, <1>2, AssembleSpeech DEF q
<1>4. SpeechTypes'
  BY <1>0, <1>1, <1>3 DEF SpeechTypes
<1> QED
  BY <1>0, <1>1, <1>2, <1>3, <1>4, NewSpeech

\* An event that is no transcript is taken from the queue; what was assembled
\* moves on.
LEMMA MovesSpeech ==
  ASSUME SpeechInv, Listening, Takes(Transcripts \cup {"ended", "hangup"}),
         Head(events).type # "final", taken' = taken, said' = said, held' = held,
         turn' \in Seq(Nat), buffer' \in Seq(Nat), committed' \in Seq(Nat),
         runPc' # "flush", runPc' # "reap" => turn' = <<>>
  PROVE  SpeechInv'
<1>1. runPc = "get" /\ events # <<>> /\ events' = Tail(events)
  BY DEF Takes
<1>2. /\ SpeechTypes /\ held = <<>> /\ taken \in Seq(Nat) /\ InOrder(taken, events, said)
  BY <1>1, GetSpeech
<1>3. InOrder(taken, Tail(events), said) /\ Tail(events) \in Seq(Events)
  BY <1>1, <1>2, PassesOther DEF SpeechTypes
<1>4. SpeechTypes'
  BY <1>1, <1>2, <1>3 DEF SpeechTypes
<1> QED
  BY <1>1, <1>2, <1>3, <1>4, NewSpeech

LEMMA ListensSpeech == SpeechInv /\ Listens => SpeechInv'
<1> SUFFICES ASSUME SpeechInv, Listens PROVE SpeechInv'
  OBVIOUS
<1>0. /\ runPc = "get" /\ ~ending /\ events # <<>> /\ events' = Tail(events)
      /\ Assemble(Head(events)) /\ UNCHANGED <<held, turn, runPc, said>>
  BY DEF Listens, Heeds, Takes, runVars, inputVars
<1>1. /\ SpeechTypes /\ held = <<>> /\ turn = <<>> /\ InOrder(taken, events, said)
  BY <1>0, GetSpeech DEF SpeechInv, Listening, Serving
<1>2. buffer' \in Seq(Nat) /\ committed' = committed /\ InOrder(taken', Tail(events), said)
  BY <1>0, <1>1, AssembleSpeech DEF SpeechTypes
<1>3. SpeechTypes'
  BY <1>0, <1>1, <1>2 DEF SpeechTypes
<1> QED
  BY <1>0, <1>1, <1>2, <1>3, NewSpeech

LEMMA BargesInSpeech == SpeechInv /\ BargesIn => SpeechInv'
<1> SUFFICES ASSUME SpeechInv, BargesIn PROVE SpeechInv'
  OBVIOUS
<1>0. /\ runPc = "get" /\ ~ending /\ events # <<>> /\ events' = Tail(events)
      /\ held' = <<Head(events)>> /\ runPc' = "flush"
      /\ UNCHANGED <<turn, buffer, committed, said>>
  BY DEF BargesIn, Heeds, Takes, runUnchanged, turnVars, committedVars, inputVars
<1>1. /\ SpeechTypes /\ turn = <<>> /\ InOrder(taken, events, said)
  BY <1>0, GetSpeech DEF SpeechInv, Listening, Serving
<1>2. /\ (held \o events)' = events /\ Len(held') = 1
      /\ held' \in Seq(Events) /\ events' \in Seq(Events)
  BY <1>0, <1>1 DEF SpeechTypes
<1>3. taken' = taken
  BY <1>0 DEF taken
<1> QED
  BY <1>0, <1>1, <1>2, <1>3 DEF SpeechInv, SpeechTypes

\* A complete turn is committed at once, or waits for the superseded response
\* and is committed then.
LEMMA TurnSpeech == SpeechInv /\ (Answers \/ Supersedes \/ Reaps) => SpeechInv'
<1> SUFFICES ASSUME SpeechInv, Answers \/ Supersedes \/ Reaps PROVE SpeechInv'
  OBVIOUS
<1>1. CASE Answers
  <2>1. /\ Takes({"end"}) /\ ~ending /\ runPc = "get" /\ buffer' = <<>>
        /\ committed' = committed \o buffer /\ UNCHANGED <<held, turn, runPc, said>>
    BY <1>1 DEF Answers, Heeds, Takes, Commit, runVars, runUnchanged, inputVars
  <2>2. Listening /\ SpeechTypes /\ turn = <<>>
    BY <2>1 DEF SpeechInv, Listening, Serving
  <2>3. taken' = taken /\ committed' \in Seq(Nat) /\ turn' = <<>>
    BY <2>1, <2>2 DEF taken, SpeechTypes
  <2>4. Takes(Transcripts \cup {"ended", "hangup"}) /\ Head(events).type # "final"
    BY <2>1 DEF Takes, Transcripts
  <2> QED
    BY <2>1, <2>2, <2>3, <2>4, MovesSpeech
<1>2. CASE Supersedes
  <2>1. /\ Takes({"end"}) /\ ~ending /\ runPc = "get" /\ buffer' = <<>> /\ turn' = buffer
        /\ runPc' = "reap" /\ UNCHANGED <<held, committed, said>>
    BY <1>2 DEF Supersedes, Heeds, Takes, committedVars, runUnchanged, inputVars
  <2>2. Listening /\ SpeechTypes /\ turn = <<>>
    BY <2>1 DEF SpeechInv, Listening, Serving
  <2>3. taken' = taken
    BY <2>1, <2>2 DEF taken, SpeechTypes
  <2>4. Takes(Transcripts \cup {"ended", "hangup"}) /\ Head(events).type # "final"
    BY <2>1 DEF Takes, Transcripts
  <2> QED
    BY <2>1, <2>2, <2>3, <2>4, MovesSpeech DEF SpeechTypes
<1>3. CASE Reaps
  <2>1. /\ runPc = "reap" /\ runPc' = "get" /\ turn' = <<>> /\ committed' = committed \o turn
        /\ UNCHANGED <<events, held, buffer, said, ending>>
    BY <1>3 DEF Reaps, Commit, runUnchanged, inputVars, flagVars
  <2> SUFFICES ASSUME Listening PROVE SpeechInv'
    BY <2>1 DEF SpeechInv, Listening, Serving
  <2>2. SpeechTypes /\ held = <<>> /\ InOrder(taken, events, said)
    BY <2>1, GetSpeech
  <2>3. taken' = taken /\ committed' \in Seq(Nat)
    BY <2>1, <2>2 DEF taken, SpeechTypes
  <2>4. SpeechTypes'
    BY <2>1, <2>2, <2>3 DEF SpeechTypes
  <2> QED
    BY <2>1, <2>2, <2>3, <2>4, NewSpeech
<1> QED
  BY <1>1, <1>2, <1>3

LEMMA RunSpeech == SpeechInv /\ RunStep => SpeechInv'
<1> SUFFICES ASSUME SpeechInv, RunStep PROVE SpeechInv'
  OBVIOUS
<1>1. CASE Connects
  <2>1. /\ runPc = "connect" /\ runPc' \in {"get", "bye"} /\ (ending' = ending \/ ending')
        /\ UNCHANGED <<events, held, turn, buffer, committed, said>>
    BY <1>1 DEF Connects, turnVars, committedVars
  <2> SUFFICES ASSUME Listening PROVE SpeechInv'
    BY <2>1 DEF SpeechInv, Listening, Serving
  <2>2. SpeechTypes /\ held = <<>> /\ turn = <<>> /\ InOrder(taken, events, said)
    BY <2>1, GetSpeech DEF SpeechInv
  <2>3. taken' = taken /\ SpeechTypes'
    BY <2>1, <2>2 DEF taken, SpeechTypes
  <2> QED
    BY <2>1, <2>2, <2>3, NewSpeech
<1>2. CASE HangsUpUnheard \/ HangsUp \/ ReapRaises \/ RunFails
  BY <1>2, LeaveSpeech DEF HangsUpUnheard, HangsUp, ReapRaises, RunFails
<1>3. CASE SpeakEnds
  <2>1. Takes({"ended"}) /\ UNCHANGED <<held, turn, buffer, committed, said, runPc, ending>>
    BY <1>3 DEF SpeakEnds, runVars, turnVars, committedVars, inputVars, flagVars
  <2>2. Takes(Transcripts \cup {"ended", "hangup"}) /\ Head(events).type # "final"
        /\ runPc = "get"
    BY <2>1 DEF Takes
  <2> SUFFICES ASSUME Listening PROVE SpeechInv'
    BY <2>1 DEF SpeechInv, Listening, Serving
  <2>3. taken' = taken /\ SpeechTypes /\ turn = <<>>
    BY <2>1, <2>2 DEF taken, SpeechInv
  <2> QED
    BY <2>1, <2>2, <2>3, MovesSpeech DEF SpeechTypes
<1>4. CASE IgnoresInput
  BY <1>4 DEF IgnoresInput, flagVars, SpeechInv, Listening
<1>5. CASE BargesIn
  BY <1>5, BargesInSpeech
<1>6. CASE Flushed
  BY <1>6, FlushedSpeech
<1>7. CASE Listens
  BY <1>7, ListensSpeech
<1>8. CASE Answers \/ Supersedes \/ Reaps
  BY <1>8, TurnSpeech
<1>9. CASE HangsUpDegraded \/ TornDown \/ ClosesStt \/ ClosesMedia
  BY <1>9 DEF HangsUpDegraded, TornDown, ClosesStt, ClosesMedia, Teardown, SpeechInv,
              Listening, Serving
<1> QED
  BY <1>1, <1>2, <1>3, <1>4, <1>5, <1>6, <1>7, <1>8, <1>9 DEF RunStep

\* The response adds nothing to the queue and takes nothing from it.
LEMMA ResponseSpeech == SpeechInv /\ ResponseStep => SpeechInv'
<1> SUFFICES ASSUME SpeechInv, ResponseStep PROVE SpeechInv'
  OBVIOUS
<1>1. /\ UNCHANGED <<events, held, turn, buffer, committed, said, runPc>>
      /\ ending' = ending \/ ending' = TRUE
  BY DEF ResponseStep, GreetStarts, ReplySkipped, ReplyStarts, LlmReplies, LlmEmpty,
         LlmFails, LlmCallsTools, ToolAnswers, ToolRaises, FrameSent, SynthesisEnds,
         SynthesisFails, PlayConfirmed, PlayTimesOut, Played, ReplyHangsUp,
         CancelledOutside, CancelledInside, respUnchanged, runVars, turnVars,
         committedVars, inputVars, flagVars
<1> QED
  BY <1>1, SameSpeech DEF Listening, Serving

LEMMA EnvironmentSpeech == SpeechInv /\ echoes \subseteq Nat /\ Environment => SpeechInv'
<1> SUFFICES ASSUME SpeechInv, echoes \subseteq Nat, Environment PROVE SpeechInv'
  OBVIOUS
<1> USE DEF quiet, runVars, turnVars, committedVars, inputVars
<1>1. CASE SttInterim \/ SttEnd \/ VadOnset \/ ServerHangsUp \/ SttDies \/ MediaDies
  <2>1. /\ \E e \in Events : e.type # "final" /\ events' = events \o <<e>>
        /\ UNCHANGED <<held, turn, buffer, committed, said, ending, runPc>>
    BY <1>1 DEF SttInterim, SttEnd, VadOnset, ServerHangsUp, SttDies, MediaDies, Submit,
                Event, Hangup, Events, Transcripts
  <2> QED
    BY <2>1, SubmitOther
<1>2. CASE SttFinal
  BY <1>2, SubmitFinal
<1>3. CASE TelnyxPlays
  BY <1>3, SameSpeech DEF TelnyxPlays, Listening, Serving
<1>4. CASE MarkArrives
  <2>1. PICK g \in echoes : Submit(<<Event("ended", g)>>)
    BY <1>4 DEF MarkArrives
  <2>2. Event("ended", g) \in Events /\ Event("ended", g).type # "final"
    BY DEF Event, Events
  <2>3. events' = events \o <<Event("ended", g)>>
    BY <2>1 DEF Submit
  <2>4. UNCHANGED <<held, turn, buffer, committed, said, ending, runPc>>
    BY <1>4 DEF MarkArrives
  <2> QED
    BY <2>2, <2>3, <2>4, SubmitOther
<1>5. CASE ServerCancels
  <2>1. UNCHANGED <<events, buffer, committed, said, ending>>
    BY <1>5 DEF ServerCancels, flagVars
  <2>2. CASE Leave("cancelled")
    BY <2>2, LeaveSpeech
  <2>3. CASE UNCHANGED <<runPc, held, turn>>
    BY <2>1, <2>3, SameSpeech DEF Listening, Serving
  <2>4. CASE runPc' = "done"
    BY <2>4 DEF SpeechInv, Listening, Serving
  <2> QED
    BY <1>5, <2>2, <2>3, <2>4 DEF ServerCancels
<1> QED
  BY <1>1, <1>2, <1>3, <1>4, <1>5 DEF Environment

LEMMA InitSpeech == Init => SpeechInv
<1> SUFFICES ASSUME Init PROVE SpeechInv
  OBVIOUS
<1>1. /\ events = <<>> /\ held = <<>> /\ turn = <<>> /\ buffer = <<>> /\ committed = <<>>
      /\ said = 0 /\ runPc = "connect"
  BY DEF Init
<1>2. taken = <<>> /\ held \o events = <<>> /\ SpeechTypes
  BY <1>1 DEF taken, SpeechTypes
<1>3. InOrder(taken, held \o events, said)
  <2>1. Len(taken) = 0 /\ FinalsIn(held \o events) = {}
    BY <1>2 DEF FinalsIn
  <2>2. taken = [i \in 1..Len(taken) |-> i]
    BY <1>2
  <2> QED
    BY <1>1, <2>1, <2>2 DEF InOrder
<1> QED
  BY <1>1, <1>2, <1>3 DEF SpeechInv

\* The order is what CallerSpeechExactlyOnce asks for.
LEMMA SpeechIsInOrder == SpeechInv => CallerSpeechExactlyOnce
<1> SUFFICES ASSUME SpeechInv, Serving, ~ending PROVE CallerSpeechExactlyOnce
  BY DEF CallerSpeechExactlyOnce
<1> DEFINE q == held \o events
           t == committed \o turn \o buffer
<1>1. InOrder(t, q, said)
  BY DEF SpeechInv, Listening, taken
<1>2. {q[i].id : i \in FinalsIn(q)} = (Len(t) + 1)..said
  <2> HIDE DEF q, t
  <2> QED
    BY <1>1 DEF InOrder
<1> QED
  BY <1>1, <1>2, Zenon DEF CallerSpeechExactlyOnce, InOrder, FinalsIn

\* Neither a barge-in nor a superseded response loses, repeats or reorders what
\* the caller said.
THEOREM CallerIsHeardOnce == Spec => []CallerSpeechExactlyOnce
<1>1. SpeechInv /\ MarkInv /\ [Next]_vars => SpeechInv'
  <2> SUFFICES ASSUME SpeechInv, MarkInv, [Next]_vars PROVE SpeechInv'
    OBVIOUS
  <2>1. CASE UNCHANGED vars
    BY <2>1, SameSpeech
       DEF vars, runVars, flagVars, turnVars, committedVars, inputVars, Listening, Serving
  <2>2. CASE Next
    <3>1. echoes \subseteq Nat
      BY DEF MarkInv, MarkTypes
    <3> QED
      BY <2>2, <3>1, ResponseSpeech, RunSpeech, EnvironmentSpeech DEF Next
  <2> QED
    BY <2>1, <2>2
<1> QED
  BY <1>1, InitSpeech, MarkAlways, SpeechIsInOrder, PTL DEF Spec

----------------------------------------------------------------------------
(* Histories, whatever their length                                        *)

\* Every set of numbers has a least one.
LEMMA LeastNat ==
  ASSUME NEW S \in SUBSET Nat, S # {}
  PROVE  \E n \in S : \A m \in S : n <= m
<1>1. IsWellFoundedOn(OpToRel(<, Nat), Nat)
  BY NatLessThanWellFounded
<1>2. PICK n \in S : \A m \in S : <<m, n>> \notin OpToRel(<, Nat)
  BY <1>1, WFMin
<1>3. ASSUME NEW m \in S PROVE n <= m
  <2>1. m \in Nat /\ n \in Nat /\ (m < n => <<m, n>> \in OpToRel(<, Nat))
    BY DEF OpToRel
  <2>2. ~(m < n)
    BY <1>2, <2>1
  <2>3. m \in Nat /\ n \in Nat
    OBVIOUS
  <2> QED
    BY <2>2, <2>3
<1> QED
  BY <1>3

Messages == [role : {"user", "assistant", "tool"}, calls : SUBSET Nat]
UserIn(h) == {i \in DOMAIN h : h[i].role = "user"}

LEMMA SuffixIsSeq ==
  ASSUME NEW S, NEW h \in Seq(S), NEW k \in 0..Len(h)
  PROVE  /\ DropFirst(h, k) \in Seq(S)
         /\ Len(DropFirst(h, k)) = Len(h) - k
         /\ \A i \in 1..(Len(h) - k) : DropFirst(h, k)[i] = h[i + k]
BY DEF DropFirst

LEMMA IntervalCount ==
  ASSUME NEW n \in Nat
  PROVE  IsFiniteSet(1..n) /\ Cardinality(1..n) = n
<1>1. IsFiniteSet(1..n)
  BY FS_Interval
<1>2. Cardinality(1..n) = IF 1 > n THEN 0 ELSE n - 1 + 1
  BY FS_Interval
<1> QED
  BY <1>1, <1>2

LEMMA UserCountIsNat ==
  ASSUME NEW h \in Seq(Messages)
  PROVE  /\ IsFiniteSet(UserIn(h))
         /\ UserCount(h) \in Nat
         /\ UserCount(h) <= Len(h)
<1>1. IsFiniteSet(1..Len(h)) /\ Cardinality(1..Len(h)) = Len(h)
  BY IntervalCount
<1>2. UserIn(h) \subseteq 1..Len(h)
  BY DEF UserIn
<1>3. IsFiniteSet(UserIn(h)) /\ Cardinality(UserIn(h)) <= Len(h)
  BY <1>1, <1>2, FS_Subset
<1> QED
  BY <1>3, FS_CardinalityType DEF UserIn, UserCount

\* A history with as many user turns as messages has nothing else.
LEMMA AllUsers ==
  ASSUME NEW h \in Seq(Messages), UserCount(h) = Len(h)
  PROVE  UserIn(h) = 1..Len(h)
<1>1. Len(h) \in Nat /\ UserIn(h) \in SUBSET (1..Len(h))
  BY DEF UserIn
<1>2. IsFiniteSet(1..Len(h)) /\ Cardinality(1..Len(h)) = Len(h)
  BY IntervalCount
<1>3. Cardinality(1..Len(h)) = Cardinality(UserIn(h))
  BY <1>1, <1>2 DEF UserCount, UserIn
<1> QED
  BY <1>1, <1>2, <1>3, FS_Subset

\* Sets that a shift of the index maps onto each other.
LEMMA ShiftCount ==
  ASSUME NEW S \in SUBSET Int, NEW T \in SUBSET Int, NEW d \in Int, IsFiniteSet(S),
         \A i \in S : i + d \in T, \A j \in T : j - d \in S
  PROVE  IsFiniteSet(T) /\ Cardinality(T) = Cardinality(S)
<1> DEFINE f == [i \in S |-> i + d]
<1>1. f \in Bijection(S, T)
  <2>1. f \in [S -> T]
    OBVIOUS
  <2>2. ASSUME NEW a \in S, NEW b \in S, f[a] = f[b] PROVE a = b
    <3>1. a + d = b + d /\ a \in Int /\ b \in Int
      BY <2>2
    <3> QED
      BY <3>1
  <2>3. ASSUME NEW j \in T PROVE \E i \in S : f[i] = j
    <3>1. j \in Int /\ j - d \in S
      OBVIOUS
    <3>2. f[j - d] = (j - d) + d
      BY <3>1
    <3>3. (j - d) + d = j
      BY <3>1
    <3> QED
      BY <3>1, <3>2, <3>3
  <2> QED
    BY <2>1, <2>2, <2>3, Zenon DEF Bijection, Injection, Surjection, IsInjective
<1>2. ExistsBijection(S, T)
  BY <1>1 DEF ExistsBijection
<1> QED
  BY <1>2, FS_Bijection

\* Messages k+1.. of a history, counted where they stand.
UserAfter(h, k) == {i \in (k + 1)..Len(h) : h[i].role = "user"}

LEMMA SuffixCount ==
  ASSUME NEW h \in Seq(Messages), NEW k \in 0..Len(h)
  PROVE  /\ IsFiniteSet(UserAfter(h, k))
         /\ UserCount(DropFirst(h, k)) = Cardinality(UserAfter(h, k))
<1> DEFINE g == DropFirst(h, k)
<1>0. /\ g \in Seq(Messages) /\ Len(g) = Len(h) - k
      /\ \A i \in 1..(Len(h) - k) : g[i] = h[i + k]
  BY SuffixIsSeq
<1>1. IsFiniteSet(UserIn(g)) /\ UserCount(g) = Cardinality(UserIn(g))
  BY <1>0, UserCountIsNat DEF UserIn, UserCount
<1>2. UserIn(g) \in SUBSET Int /\ UserAfter(h, k) \in SUBSET Int /\ k \in Int
  BY <1>0 DEF UserIn, UserAfter
<1>3. \A i \in UserIn(g) : i + k \in UserAfter(h, k)
  BY <1>0 DEF UserIn, UserAfter
<1>4. \A j \in UserAfter(h, k) : j - k \in UserIn(g)
  <2> SUFFICES ASSUME NEW j \in UserAfter(h, k) PROVE j - k \in UserIn(g)
    OBVIOUS
  <2>1. j - k \in 1..Len(g) /\ j \in Int /\ (j - k) + k = j /\ h[j].role = "user"
    BY <1>0 DEF UserAfter
  <2>2. g[j - k] = h[j]
    BY <1>0, <2>1
  <2> QED
    BY <1>0, <2>1, <2>2 DEF UserIn
<1> QED
  BY <1>1, <1>2, <1>3, <1>4, ShiftCount

LEMMA DropOne ==
  ASSUME NEW h \in Seq(Messages), NEW k \in 0..(Len(h) - 1)
  PROVE  UserCount(DropFirst(h, k)) =
           UserCount(DropFirst(h, k + 1)) + (IF h[k + 1].role = "user" THEN 1 ELSE 0)
<1>1. k \in 0..Len(h) /\ k + 1 \in 0..Len(h)
  OBVIOUS
<1>2. /\ IsFiniteSet(UserAfter(h, k + 1))
      /\ UserCount(DropFirst(h, k)) = Cardinality(UserAfter(h, k))
      /\ UserCount(DropFirst(h, k + 1)) = Cardinality(UserAfter(h, k + 1))
  BY <1>1, SuffixCount
<1>3. k + 1 \notin UserAfter(h, k + 1)
  BY DEF UserAfter
<1>4. CASE h[k + 1].role = "user"
  <2>1. UserAfter(h, k) = UserAfter(h, k + 1) \cup {k + 1}
    BY <1>4 DEF UserAfter
  <2>2. Cardinality(UserAfter(h, k + 1) \cup {k + 1}) =
          IF k + 1 \in UserAfter(h, k + 1) THEN Cardinality(UserAfter(h, k + 1))
          ELSE Cardinality(UserAfter(h, k + 1)) + 1
    BY <1>2, FS_AddElement, Zenon
  <2> QED
    BY <1>2, <1>3, <1>4, <2>1, <2>2
<1>5. CASE h[k + 1].role # "user"
  <2>1. UserAfter(h, k) = UserAfter(h, k + 1)
    BY <1>5 DEF UserAfter
  <2>2. Cardinality(UserAfter(h, k)) \in Nat
    BY <1>2, <2>1, FS_CardinalityType
  <2> QED
    BY <1>2, <1>5, <2>1, <2>2
<1> QED
  BY <1>4, <1>5

LEMMA CountAppend ==
  ASSUME NEW h \in Seq(Messages), NEW m \in Messages
  PROVE  UserCount(Append(h, m)) = UserCount(h) + (IF m.role = "user" THEN 1 ELSE 0)
<1>1. IsFiniteSet(UserIn(h)) /\ UserCount(h) = Cardinality(UserIn(h)) /\ UserCount(h) \in Nat
  BY UserCountIsNat DEF UserIn, UserCount
<1>2. UserCount(Append(h, m)) = Cardinality(UserIn(Append(h, m)))
  BY DEF UserIn, UserCount
<1>3. CASE m.role = "user"
  <2>1. UserIn(Append(h, m)) = UserIn(h) \cup {Len(h) + 1} /\ Len(h) + 1 \notin UserIn(h)
    BY <1>3 DEF UserIn
  <2>2. Cardinality(UserIn(h) \cup {Len(h) + 1}) =
          IF Len(h) + 1 \in UserIn(h) THEN Cardinality(UserIn(h))
          ELSE Cardinality(UserIn(h)) + 1
    BY <1>1, FS_AddElement, Zenon
  <2> QED
    BY <1>1, <1>2, <1>3, <2>1, <2>2
<1>4. CASE m.role # "user"
  <2>1. UserIn(Append(h, m)) = UserIn(h)
    BY <1>4 DEF UserIn
  <2> QED
    BY <1>1, <1>2, <1>4, <2>1
<1> QED
  BY <1>3, <1>4

\* What _trim leaves: it drops the k oldest messages and not one less.
LEMMA TrimDrops ==
  ASSUME NEW h \in Seq(Messages)
  PROVE  \E k \in 0..Len(h) :
           /\ Trim(h) = DropFirst(h, k)
           /\ TrimStops(DropFirst(h, k))
           /\ \A j \in 0..(k - 1) : ~TrimStops(DropFirst(h, j))
<1> DEFINE S == {k \in 0..Len(h) : TrimStops(DropFirst(h, k))}
           P(k) == /\ TrimStops(DropFirst(h, k))
                   /\ \A j \in 0..(k - 1) : ~TrimStops(DropFirst(h, j))
<1>1. Len(h) \in S
  <2>1. Len(DropFirst(h, Len(h))) = 0
    BY SuffixIsSeq
  <2> QED
    BY <2>1 DEF TrimStops
<1>2. S \in SUBSET Nat /\ S # {}
  BY <1>1
<1>3. PICK n \in S : \A m \in S : n <= m
  BY <1>2, LeastNat
<1>4. n \in 0..Len(h) /\ P(n)
  BY <1>3
<1>5. (CHOOSE k \in 0..Len(h) : P(k)) \in 0..Len(h) /\ P(CHOOSE k \in 0..Len(h) : P(k))
  BY <1>4, Zenon
<1> QED
  BY <1>5, Zenon DEF Trim

LEMMA TrimShape ==
  ASSUME NEW h \in Seq(Messages)
  PROVE  \E k \in 0..Len(h) :
           /\ Trim(h) = DropFirst(h, k)
           /\ TrimStops(Trim(h))
           /\ TrimStops(h) => k = 0
           /\ k > 0 => /\ k < Len(h)
                       /\ UserCount(Trim(h)) >= MaxTurns
                       /\ \/ h[k].role = "user"
                          \/ \A i \in (k + 1)..Len(h) : h[i].role = "user"
<1>1. PICK k \in 0..Len(h) : /\ Trim(h) = DropFirst(h, k)
                             /\ TrimStops(DropFirst(h, k))
                             /\ \A j \in 0..(k - 1) : ~TrimStops(DropFirst(h, j))
  BY TrimDrops
<1>2. DropFirst(h, 0) = h
  BY DEF DropFirst
<1>3. CASE k = 0
  BY <1>1, <1>2, <1>3
<1>4. CASE k > 0
  <2>1. ~TrimStops(h)
    BY <1>1, <1>2, <1>4
  <2>2. k - 1 \in 0..(Len(h) - 1) /\ (k - 1) + 1 = k
    BY <1>4
  <2>3. ~TrimStops(DropFirst(h, k - 1))
    BY <1>1, <1>4
  <2>4. /\ DropFirst(h, k) \in Seq(Messages) /\ DropFirst(h, k - 1) \in Seq(Messages)
        /\ Len(DropFirst(h, k)) = Len(h) - k
        /\ Len(DropFirst(h, k - 1)) = Len(h) - (k - 1)
        /\ \A i \in 1..(Len(h) - k) : DropFirst(h, k)[i] = h[i + k]
    <3>1. k - 1 \in 0..Len(h)
      BY <2>2
    <3>2. DropFirst(h, k - 1) \in Seq(Messages) /\ Len(DropFirst(h, k - 1)) = Len(h) - (k - 1)
      BY <3>1, SuffixIsSeq
    <3> QED
      BY <3>2, SuffixIsSeq
  <2>5. UserCount(DropFirst(h, k - 1)) =
          UserCount(DropFirst(h, k)) + (IF h[k].role = "user" THEN 1 ELSE 0)
    BY <2>2, DropOne
  <2>6. UserCount(DropFirst(h, k)) \in Nat /\ UserCount(DropFirst(h, k - 1)) \in Nat
    BY <2>4, UserCountIsNat
  <2>7. Len(h) - (k - 1) > 2 /\ UserCount(DropFirst(h, k - 1)) > MaxTurns
    BY <2>3, <2>4, <2>6, MaxTurnsAssumption DEF TrimStops
  <2>8. k < Len(h) /\ UserCount(DropFirst(h, k)) >= MaxTurns
    BY <2>5, <2>6, <2>7, MaxTurnsAssumption
  <2>9. h[k].role = "user" \/ \A i \in (k + 1)..Len(h) : h[i].role = "user"
    <3> SUFFICES ASSUME h[k].role # "user"
                 PROVE  \A i \in (k + 1)..Len(h) : h[i].role = "user"
      OBVIOUS
    <3>1. UserCount(DropFirst(h, k)) > MaxTurns /\ Len(DropFirst(h, k)) <= 2
      BY <1>1, <2>5, <2>6, <2>7, MaxTurnsAssumption DEF TrimStops
    <3>2. UserCount(DropFirst(h, k)) = Len(DropFirst(h, k))
      BY <2>4, <2>6, <3>1, UserCountIsNat, MaxTurnsAssumption
    <3>3. UserIn(DropFirst(h, k)) = 1..Len(DropFirst(h, k))
      BY <2>4, <3>2, AllUsers
    <3>4. ASSUME NEW i \in (k + 1)..Len(h) PROVE h[i].role = "user"
      <4>1. i - k \in 1..Len(DropFirst(h, k)) /\ i - k \in 1..(Len(h) - k) /\ (i - k) + k = i
        BY <2>4
      <4>2. DropFirst(h, k)[i - k] = h[i]
        BY <2>4, <4>1
      <4> QED
        BY <3>3, <4>1, <4>2 DEF UserIn
    <3> QED
      BY <3>4
  <2> QED
    BY <1>1, <2>1, <2>8, <2>9
<1> QED
  BY <1>3, <1>4

\* The results in the run after message i that answer call c.
AnswersTo(h, i, c) == {j \in (i + 1)..Len(h) : h[j] = ToolResult(c) /\ AllResults(h, i, j)}

\* g is h without its first d messages.
SuffixAt(g, h, d) ==
  /\ g \in Seq(Messages) /\ h \in Seq(Messages) /\ d \in Nat
  /\ Len(h) = Len(g) + d
  /\ \A i \in 1..Len(g) : g[i] = h[i + d]

LEMMA JoinIsSuffix ==
  ASSUME NEW g \in Seq(Messages), NEW e \in Seq(Messages)
  PROVE  SuffixAt(e, g \o e, Len(g)) /\ \A i \in 1..Len(g) : (g \o e)[i] = g[i]
BY DEF SuffixAt

LEMMA SuffixResults ==
  ASSUME NEW g, NEW h, NEW d, SuffixAt(g, h, d), NEW i \in 1..Len(g), NEW j \in 1..Len(g)
  PROVE  AllResults(g, i, j) <=> AllResults(h, i + d, j + d)
<1>1. ASSUME AllResults(g, i, j), NEW k \in (i + d + 1)..(j + d) PROVE h[k].role = "tool"
  <2>1. k - d \in (i + 1)..j /\ k - d \in 1..Len(g) /\ (k - d) + d = k
    BY DEF SuffixAt
  <2> QED
    BY <1>1, <2>1 DEF SuffixAt, AllResults
<1>2. ASSUME AllResults(h, i + d, j + d), NEW k \in (i + 1)..j PROVE g[k].role = "tool"
  <2>1. k + d \in (i + d + 1)..(j + d) /\ k \in 1..Len(g)
    BY DEF SuffixAt
  <2> QED
    BY <1>2, <2>1 DEF SuffixAt, AllResults
<1> QED
  BY <1>1, <1>2 DEF AllResults

LEMMA SuffixAnswers ==
  ASSUME NEW g, NEW h, NEW d, SuffixAt(g, h, d), NEW i \in 1..Len(g), NEW c
  PROVE  Cardinality(AnswersTo(g, i, c)) = Cardinality(AnswersTo(h, i + d, c))
<1>1. AnswersTo(g, i, c) \in SUBSET Int /\ AnswersTo(h, i + d, c) \in SUBSET Int /\ d \in Int
  BY DEF SuffixAt, AnswersTo
<1>2. IsFiniteSet(AnswersTo(g, i, c))
  <2>1. Len(g) \in Nat /\ AnswersTo(g, i, c) \in SUBSET (1..Len(g))
    BY DEF SuffixAt, AnswersTo
  <2>2. IsFiniteSet(1..Len(g))
    BY <2>1, IntervalCount
  <2> QED
    BY <2>1, <2>2, FS_Subset
<1>3. ASSUME NEW j \in AnswersTo(g, i, c) PROVE j + d \in AnswersTo(h, i + d, c)
  <2>1. j \in 1..Len(g) /\ j \in (i + 1)..Len(g) /\ AllResults(g, i, j) /\ g[j] = ToolResult(c)
    BY DEF SuffixAt, AnswersTo
  <2>2. AllResults(h, i + d, j + d)
    BY <2>1, SuffixResults
  <2>3. h[j + d] = ToolResult(c) /\ j + d \in (i + d + 1)..Len(h)
    BY <2>1 DEF SuffixAt
  <2> QED
    BY <2>2, <2>3 DEF AnswersTo
<1>4. ASSUME NEW j \in AnswersTo(h, i + d, c) PROVE j - d \in AnswersTo(g, i, c)
  <2>1. /\ j \in (i + d + 1)..Len(h) /\ AllResults(h, i + d, j) /\ h[j] = ToolResult(c)
    BY DEF AnswersTo
  <2>2. j - d \in 1..Len(g) /\ j - d \in (i + 1)..Len(g) /\ (j - d) + d = j
    BY <2>1 DEF SuffixAt
  <2>3. AllResults(g, i, j - d)
    BY <2>1, <2>2, SuffixResults
  <2>4. g[j - d] = ToolResult(c)
    BY <2>1, <2>2 DEF SuffixAt
  <2> QED
    BY <2>2, <2>3, <2>4 DEF AnswersTo
<1> QED
  BY <1>1, <1>2, <1>3, <1>4, ShiftCount

\* What WellFormed says, by the operator just defined.
LEMMA WellFormedMeans ==
  ASSUME NEW h \in Seq(Messages)
  PROVE  WellFormed(h) <=>
           /\ \A i \in 1..Len(h) : \A c \in h[i].calls :
                h[i].role = "assistant" => Cardinality(AnswersTo(h, i, c)) = 1
           /\ \A j \in 1..Len(h) : h[j].role = "tool" =>
                \E i \in 1..(j - 1) : /\ h[i].role = "assistant"
                                      /\ h[j].calls \subseteq h[i].calls
                                      /\ AllResults(h, i, j)
<1>1. DOMAIN h = 1..Len(h)
  OBVIOUS
<1> QED
  BY <1>1, Zenon DEF WellFormed, AnswersTo

\* The oldest messages may go if the last of them is a user's.
LEMMA DropKeepsForm ==
  ASSUME NEW g, NEW h, NEW d, SuffixAt(g, h, d), WellFormed(h),
         d > 0 => h[d].role = "user"
  PROVE  WellFormed(g)
<1>0. g \in Seq(Messages) /\ h \in Seq(Messages) /\ d \in Nat
  BY DEF SuffixAt
<1>1. ASSUME NEW i \in 1..Len(g), NEW c \in g[i].calls, g[i].role = "assistant"
      PROVE  Cardinality(AnswersTo(g, i, c)) = 1
  <2>1. i + d \in 1..Len(h) /\ h[i + d] = g[i]
    BY <1>0 DEF SuffixAt
  <2>2. Cardinality(AnswersTo(h, i + d, c)) = 1
    BY <1>0, <1>1, <2>1, WellFormedMeans
  <2> QED
    BY <2>2, SuffixAnswers
<1>2. ASSUME NEW j \in 1..Len(g), g[j].role = "tool"
      PROVE  \E i \in 1..(j - 1) : /\ g[i].role = "assistant"
                                   /\ g[j].calls \subseteq g[i].calls
                                   /\ AllResults(g, i, j)
  <2>1. j + d \in 1..Len(h) /\ h[j + d] = g[j]
    BY <1>0 DEF SuffixAt
  <2>2. PICK i \in 1..(j + d - 1) : /\ h[i].role = "assistant"
                                    /\ h[j + d].calls \subseteq h[i].calls
                                    /\ AllResults(h, i, j + d)
    BY <1>0, <1>2, <2>1, WellFormedMeans
  <2>3. i > d
    <3>1. CASE i = d
      BY <2>2, <3>1
    <3>2. CASE i < d
      <4>1. d \in (i + 1)..(j + d) /\ d > 0
        BY <1>0, <3>2
      <4> QED
        BY <2>2, <4>1 DEF AllResults
    <3> QED
      BY <1>0, <3>1, <3>2
  <2>4. i - d \in 1..(j - 1) /\ i - d \in 1..Len(g) /\ (i - d) + d = i
    BY <1>0, <2>3
  <2>5. g[i - d] = h[i]
    BY <2>4 DEF SuffixAt
  <2>6. AllResults(g, i - d, j)
    BY <2>2, <2>4, SuffixResults
  <2> QED
    BY <2>1, <2>2, <2>4, <2>5, <2>6
<1> QED
  BY <1>0, <1>1, <1>2, WellFormedMeans

\* Two histories that are well formed make one, unless the second begins with
\* a tool result.
LEMMA JoinKeepsForm ==
  ASSUME NEW g \in Seq(Messages), NEW e \in Seq(Messages), WellFormed(g), WellFormed(e),
         e # <<>> => e[1].role # "tool"
  PROVE  WellFormed(g \o e)
<1> DEFINE h == g \o e
           d == Len(g)
<1>0. /\ h \in Seq(Messages) /\ d \in Nat /\ Len(e) \in Nat /\ Len(h) = d + Len(e)
      /\ \A i \in 1..d : h[i] = g[i]
      /\ SuffixAt(e, h, d)
  BY DEF SuffixAt
<1> HIDE DEF h
<1>1. ASSUME NEW i \in 1..d, NEW j \in 1..d
      PROVE  AllResults(h, i, j) <=> AllResults(g, i, j)
  <2>1. \A k \in (i + 1)..j : k \in 1..d
    BY <1>0
  <2>2. \A k \in (i + 1)..j : h[k] = g[k]
    BY <1>0, <2>1
  <2> QED
    BY <2>2 DEF AllResults
<1>2. ASSUME NEW i \in 1..d, NEW j \in (d + 1)..Len(h)
      PROVE  ~AllResults(h, i, j)
  <2>1. e # <<>> /\ 1 \in 1..Len(e) /\ d + 1 \in (i + 1)..j
    BY <1>0
  <2>2. h[1 + d].role # "tool"
    BY <1>0, <2>1 DEF SuffixAt
  <2> QED
    BY <1>0, <2>1, <2>2 DEF AllResults
<1>3. ASSUME NEW i \in 1..d, NEW c PROVE AnswersTo(h, i, c) = AnswersTo(g, i, c)
  <2>1. ASSUME NEW j \in AnswersTo(h, i, c) PROVE j \in AnswersTo(g, i, c)
    <3>1. j \in (i + 1)..Len(h) /\ h[j] = ToolResult(c) /\ AllResults(h, i, j)
      BY DEF AnswersTo
    <3>2. j \in (i + 1)..d /\ j \in 1..d
      BY <1>0, <1>2, <3>1
    <3>3. AllResults(g, i, j)
      BY <1>1, <3>1, <3>2
    <3> QED
      BY <1>0, <3>1, <3>2, <3>3 DEF AnswersTo
  <2>2. ASSUME NEW j \in AnswersTo(g, i, c) PROVE j \in AnswersTo(h, i, c)
    <3>1. j \in (i + 1)..d /\ g[j] = ToolResult(c) /\ AllResults(g, i, j)
      BY DEF AnswersTo
    <3>2. j \in 1..d /\ j \in (i + 1)..Len(h)
      BY <1>0, <3>1
    <3>3. AllResults(h, i, j)
      BY <1>1, <3>1, <3>2
    <3> QED
      BY <1>0, <3>1, <3>2, <3>3 DEF AnswersTo
  <2> QED
    BY <2>1, <2>2
<1>4. ASSUME NEW i \in 1..Len(h), NEW c \in h[i].calls, h[i].role = "assistant"
      PROVE  Cardinality(AnswersTo(h, i, c)) = 1
  <2>1. CASE i \in 1..d
    <3>1. Cardinality(AnswersTo(g, i, c)) = 1
      BY <1>0, <1>4, <2>1, WellFormedMeans
    <3> QED
      BY <1>3, <2>1, <3>1
  <2>2. CASE i \notin 1..d
    <3>1. i - d \in 1..Len(e) /\ (i - d) + d = i
      BY <1>0, <2>2
    <3>2. e[i - d] = h[i]
      BY <1>0, <3>1 DEF SuffixAt
    <3>3. Cardinality(AnswersTo(e, i - d, c)) = 1
      BY <1>4, <3>1, <3>2, WellFormedMeans
    <3> QED
      BY <1>0, <3>1, <3>3, SuffixAnswers
  <2> QED
    BY <2>1, <2>2
<1>5. ASSUME NEW j \in 1..Len(h), h[j].role = "tool"
      PROVE  \E i \in 1..(j - 1) : /\ h[i].role = "assistant"
                                   /\ h[j].calls \subseteq h[i].calls
                                   /\ AllResults(h, i, j)
  <2>1. CASE j \in 1..d
    <3>1. g[j] = h[j]
      BY <1>0, <2>1
    <3>2. PICK i \in 1..(j - 1) : /\ g[i].role = "assistant"
                                  /\ g[j].calls \subseteq g[i].calls
                                  /\ AllResults(g, i, j)
      BY <1>5, <2>1, <3>1, WellFormedMeans
    <3>3. i \in 1..d
      BY <1>0, <2>1
    <3>4. h[i] = g[i] /\ AllResults(h, i, j)
      BY <1>0, <1>1, <2>1, <3>2, <3>3
    <3> QED
      BY <3>1, <3>2, <3>4
  <2>2. CASE j \notin 1..d
    <3>1. j - d \in 1..Len(e) /\ (j - d) + d = j
      BY <1>0, <2>2
    <3>2. e[j - d] = h[j]
      BY <1>0, <3>1 DEF SuffixAt
    <3>3. PICK i \in 1..(j - d - 1) : /\ e[i].role = "assistant"
                                      /\ e[j - d].calls \subseteq e[i].calls
                                      /\ AllResults(e, i, j - d)
      BY <1>5, <3>1, <3>2, WellFormedMeans
    <3>4. i \in 1..Len(e) /\ i + d \in 1..(j - 1)
      BY <1>0, <3>1
    <3>5. e[i] = h[i + d]
      BY <1>0, <3>4 DEF SuffixAt
    <3>6. AllResults(h, i + d, j)
      BY <1>0, <3>1, <3>3, <3>4, SuffixResults
    <3> QED
      BY <3>2, <3>3, <3>4, <3>5, <3>6
  <2> QED
    BY <2>1, <2>2
<1>6. WellFormed(h)
  BY <1>0, <1>4, <1>5, WellFormedMeans
<1> QED
  BY <1>6 DEF h

\* A history that makes and answers no call is well formed.
LEMMA PlainIsFormed ==
  ASSUME NEW h \in Seq(Messages), 
         \A i \in 1..Len(h) : /\ h[i].role # "tool"
                              /\ h[i].role = "assistant" => h[i].calls = {}
  PROVE  WellFormed(h)
BY WellFormedMeans

\* The results of calls, in order.
Results(calls) == [i \in DOMAIN calls |-> ToolResult(calls[i])]

\* A message with calls followed by its results.
LEMMA RoundIsFormed ==
  ASSUME NEW k \in Nat
  PROVE  LET e == <<AssistantTurn(1..k)>> \o Results([i \in 1..k |-> i])
         IN e \in Seq(Messages) /\ WellFormed(e) /\ e # <<>> /\ e[1].role = "assistant"
<1> DEFINE e == <<AssistantTurn(1..k)>> \o Results([i \in 1..k |-> i])
<1>0. /\ e \in Seq(Messages) /\ Len(e) = k + 1 /\ e[1] = AssistantTurn(1..k)
      /\ \A i \in 1..k : e[i + 1] = ToolResult(i)
  <2> DEFINE A == <<AssistantTurn(1..k)>>
             R == Results([i \in 1..k |-> i])
  <2>1. R \in Seq(Messages) /\ Len(R) = k /\ \A i \in 1..k : R[i] = ToolResult(i)
    BY DEF Results, Messages, ToolResult
  <2> HIDE DEF R
  <2>2. A \in Seq(Messages) /\ Len(A) = 1 /\ A[1] = AssistantTurn(1..k)
    BY DEF AssistantTurn, Messages
  <2>3. e = A \o R
    BY DEF R
  <2> HIDE DEF A, R, e
  <2>4. SuffixAt(R, A \o R, Len(A)) /\ \A i \in 1..Len(A) : (A \o R)[i] = A[i]
    BY <2>1, <2>2, JoinIsSuffix
  <2>5. SuffixAt(R, e, 1) /\ e[1] = A[1]
    <3>1. SuffixAt(R, e, 1)
      BY <2>2, <2>3, <2>4, Zenon
    <3>2. 1 \in 1..Len(A)
      BY <2>2
    <3> QED
      BY <2>3, <2>4, <3>1, <3>2, Zenon
  <2> QED
    BY <2>1, <2>2, <2>5 DEF SuffixAt
<1> HIDE DEF e
<1>1. \A j \in 2..(k + 1) : e[j] = ToolResult(j - 1) /\ e[j].role = "tool"
  <2> SUFFICES ASSUME NEW j \in 2..(k + 1) PROVE e[j] = ToolResult(j - 1) /\ e[j].role = "tool"
    OBVIOUS
  <2>1. j - 1 \in 1..k /\ (j - 1) + 1 = j
    OBVIOUS
  <2>2. e[j] = ToolResult(j - 1)
    BY <1>0, <2>1
  <2> QED
    BY <2>2 DEF ToolResult
<1>2. \A j \in 1..(k + 1) : AllResults(e, 1, j)
  BY <1>1 DEF AllResults
<1>3. ASSUME NEW i \in 1..Len(e), NEW c \in e[i].calls, e[i].role = "assistant"
      PROVE  Cardinality(AnswersTo(e, i, c)) = 1
  <2>1. i = 1 /\ c \in 1..k
    BY <1>0, <1>1, <1>3 DEF AssistantTurn
  <2>2. AnswersTo(e, 1, c) = {c + 1}
    <3>1. c + 1 \in AnswersTo(e, 1, c)
      BY <1>0, <1>2, <2>1 DEF AnswersTo
    <3>2. ASSUME NEW j \in AnswersTo(e, 1, c) PROVE j = c + 1
      <4>1. j \in 2..(k + 1) /\ e[j] = ToolResult(c) /\ e[j] = ToolResult(j - 1)
        BY <1>0, <1>1 DEF AnswersTo
      <4>2. ToolResult(c).calls = {c} /\ ToolResult(j - 1).calls = {j - 1}
        BY DEF ToolResult
      <4>3. {c} = {j - 1}
        BY <4>1, <4>2
      <4>4. c = j - 1
        BY <4>3
      <4> QED
        BY <2>1, <4>1, <4>4
    <3> QED
      BY <3>1, <3>2
  <2> QED
    BY <2>1, <2>2, FS_Singleton
<1>4. ASSUME NEW j \in 1..Len(e), e[j].role = "tool"
      PROVE  \E i \in 1..(j - 1) : /\ e[i].role = "assistant"
                                   /\ e[j].calls \subseteq e[i].calls
                                   /\ AllResults(e, i, j)
  <2>1. j \in 2..(k + 1)
    BY <1>0, <1>4 DEF AssistantTurn
  <2>2. e[j].calls = {j - 1} /\ e[1].calls = 1..k /\ e[1].role = "assistant"
    <3>1. ToolResult(j - 1).calls = {j - 1}
      BY DEF ToolResult
    <3>2. AssistantTurn(1..k).calls = 1..k /\ AssistantTurn(1..k).role = "assistant"
      BY DEF AssistantTurn
    <3> QED
      BY <1>0, <1>1, <2>1, <3>1, <3>2
  <2>3. 1 \in 1..(j - 1) /\ e[j].calls \subseteq e[1].calls
    BY <2>1, <2>2
  <2> QED
    BY <1>2, <2>1, <2>2, <2>3
<1>5. WellFormed(e)
  BY <1>0, <1>3, <1>4, WellFormedMeans
<1>6. e # <<>> /\ e[1].role = "assistant"
  BY <1>0 DEF AssistantTurn
<1> QED
  BY <1>0, <1>5, <1>6 DEF e

\* Trimming keeps a history well formed, also one whose last message waits for
\* the results R.
LEMMA TrimKeepsForm ==
  ASSUME NEW h \in Seq(Messages), NEW R \in Seq(Messages), WellFormed(h \o R),
         R # <<>> => h # <<>> /\ h[Len(h)].role # "user"
  PROVE  Trim(h) \in Seq(Messages) /\ WellFormed(Trim(h) \o R)
<1>1. PICK k \in 0..Len(h) :
           /\ Trim(h) = DropFirst(h, k)
           /\ k > 0 => /\ k < Len(h)
                       /\ \/ h[k].role = "user"
                          \/ \A i \in (k + 1)..Len(h) : h[i].role = "user"
  BY TrimShape
<1> DEFINE t == DropFirst(h, k)
<1>2. /\ t \in Seq(Messages) /\ Len(t) = Len(h) - k
      /\ \A i \in 1..(Len(h) - k) : t[i] = h[i + k]
  BY SuffixIsSeq
<1> HIDE DEF t
<1>3. CASE k = 0
  <2>1. t = h
    BY <1>3 DEF DropFirst, t
  <2> QED
    BY <1>1, <1>2, <2>1 DEF t
<1>4. CASE k > 0 /\ h[k].role = "user"
  <2>1. SuffixAt(R, h \o R, Len(h)) /\ \A i \in 1..Len(h) : (h \o R)[i] = h[i]
    BY JoinIsSuffix
  <2>2. SuffixAt(R, t \o R, Len(t)) /\ \A i \in 1..Len(t) : (t \o R)[i] = t[i]
    BY <1>2, JoinIsSuffix
  <2>3. ASSUME NEW i \in 1..Len(t \o R) PROVE (t \o R)[i] = (h \o R)[i + k]
    <3>1. CASE i \in 1..Len(t)
      <4>1. i + k \in 1..Len(h) /\ i \in 1..(Len(h) - k)
        BY <1>2, <3>1
      <4> QED
        BY <1>2, <2>1, <2>2, <3>1, <4>1
    <3>2. CASE i \notin 1..Len(t)
      <4>1. /\ i - Len(t) \in 1..Len(R)
            /\ (i - Len(t)) + Len(t) = i /\ (i - Len(t)) + Len(h) = i + k
        <5>1. Len(t \o R) = Len(R) + Len(t) /\ Len(t) \in Nat /\ Len(R) \in Nat
          BY <1>2, <2>2 DEF SuffixAt
        <5>2. i \in Nat /\ i > Len(t) /\ i <= Len(t \o R)
          BY <3>2, <5>1
        <5> QED
          BY <1>2, <5>1, <5>2
      <4>2. (t \o R)[i] = R[i - Len(t)] /\ (h \o R)[i + k] = R[i - Len(t)]
        BY <2>1, <2>2, <4>1 DEF SuffixAt
      <4> QED
        BY <4>2
    <3> QED
      BY <3>1, <3>2
  <2>4. SuffixAt(t \o R, h \o R, k)
    BY <1>2, <2>1, <2>2, <2>3 DEF SuffixAt
  <2>5. (h \o R)[k] = h[k]
    BY <1>4, <2>1
  <2>6. WellFormed(t \o R)
    BY <1>4, <2>4, <2>5, DropKeepsForm
  <2> QED
    BY <1>1, <1>2, <2>6 DEF t
<1>5. CASE k > 0 /\ h[k].role # "user"
  <2>1. k < Len(h) /\ \A i \in (k + 1)..Len(h) : h[i].role = "user"
    BY <1>1, <1>5
  <2>2. R = <<>>
    <3>1. Len(h) \in (k + 1)..Len(h)
      BY <2>1
    <3> QED
      BY <2>1, <3>1
  <2>3. t \o R = t
    BY <1>2, <2>2
  <2>4. \A i \in 1..Len(t) : t[i].role = "user"
    <3> SUFFICES ASSUME NEW i \in 1..Len(t) PROVE t[i].role = "user"
      OBVIOUS
    <3>1. i \in 1..(Len(h) - k) /\ i + k \in (k + 1)..Len(h)
      BY <1>2
    <3> QED
      BY <1>2, <2>1, <3>1
  <2>5. WellFormed(t)
    BY <1>2, <2>4, PlainIsFormed
  <2> QED
    BY <1>1, <1>2, <2>3, <2>5 DEF t
<1> QED
  BY <1>3, <1>4, <1>5

\* A history without open calls takes one more message that makes none.
LEMMA AddKeepsForm ==
  ASSUME NEW h \in Seq(Messages), WellFormed(h), NEW m \in Messages,
         m.role # "tool", m.role = "assistant" => m.calls = {}
  PROVE  Trim(Append(h, m)) \in Seq(Messages) /\ WellFormed(Trim(Append(h, m)))
<1>1. <<m>> \in Seq(Messages) /\ \A i \in 1..Len(<<m>>) : <<m>>[i] = m
  OBVIOUS
<1>2. WellFormed(<<m>>)
  BY <1>1, PlainIsFormed
<1>3. WellFormed(h \o <<m>>)
  BY <1>1, <1>2, JoinKeepsForm
<1>4. Append(h, m) = h \o <<m>> /\ Append(h, m) \in Seq(Messages)
  OBVIOUS
<1>5. Append(h, m) \o <<>> = Append(h, m) /\ <<>> \in Seq(Messages)
  BY <1>4
<1>6. /\ Trim(Append(h, m)) \in Seq(Messages)
      /\ WellFormed(Trim(Append(h, m)) \o <<>>)
  BY <1>3, <1>4, <1>5, TrimKeepsForm
<1> QED
  BY <1>6

\* A round of k calls, its results outstanding.
LEMMA RoundKeepsForm ==
  ASSUME NEW h \in Seq(Messages), WellFormed(h), NEW k \in Nat
  PROVE  /\ AddAssistantTurn(h, 1..k) \in Seq(Messages)
         /\ WellFormed(AddAssistantTurn(h, 1..k) \o Results([i \in 1..k |-> i]))
<1> DEFINE A == <<AssistantTurn(1..k)>>
           R == Results([i \in 1..k |-> i])
           g == Append(h, AssistantTurn(1..k))
<1>1. A \in Seq(Messages) /\ R \in Seq(Messages) /\ AssistantTurn(1..k) \in Messages
  BY DEF AssistantTurn, Messages, Results, ToolResult
<1>2. WellFormed(h \o (A \o R))
  <2>1. /\ A \o R \in Seq(Messages) /\ WellFormed(A \o R)
        /\ A \o R # <<>> /\ (A \o R)[1].role = "assistant"
    BY RoundIsFormed
  <2> HIDE DEF A, R
  <2> QED
    BY <2>1, JoinKeepsForm
<1>3. g \in Seq(Messages) /\ g # <<>> /\ g[Len(g)].role # "user"
  <2>1. ASSUME NEW m \in Messages
        PROVE  /\ Append(h, m) \in Seq(Messages)
               /\ Len(Append(h, m)) = Len(h) + 1 /\ Append(h, m)[Len(h) + 1] = m
    OBVIOUS
  <2>2. g \in Seq(Messages) /\ Len(g) = Len(h) + 1 /\ g[Len(h) + 1] = AssistantTurn(1..k)
    BY <1>1, <2>1
  <2>3. AssistantTurn(1..k).role = "assistant"
    BY DEF AssistantTurn
  <2> QED
    BY <2>2, <2>3
<1>4. h \o (A \o R) = g \o R
  <2>1. g = h \o A
    BY <1>1
  <2> HIDE DEF A, R, g
  <2> QED
    BY <1>1, <2>1
<1> HIDE DEF A, R, g
<1>5. Trim(g) \in Seq(Messages) /\ WellFormed(Trim(g) \o R)
  BY <1>1, <1>2, <1>3, <1>4, TrimKeepsForm
<1> QED
  BY <1>5 DEF AddAssistantTurn, g, R

\* What RecentTurnsKept says of a history after n user turns.
Keeps(h, n) ==
  /\ UserCount(h) = n \/ UserCount(h) >= MaxTurns
  /\ UserCount(h) <= MaxTurns \/ Len(h) <= 2

LEMMA TrimCount ==
  ASSUME NEW h \in Seq(Messages), h # <<>>
  PROVE  /\ Trim(h) \in Seq(Messages) /\ Trim(h) # <<>>
         /\ Trim(h)[Len(Trim(h))] = h[Len(h)]
         /\ TrimStops(Trim(h))
         /\ UserCount(Trim(h)) = UserCount(h) \/ UserCount(Trim(h)) >= MaxTurns
<1>1. PICK k \in 0..Len(h) : /\ Trim(h) = DropFirst(h, k)
                             /\ TrimStops(Trim(h))
                             /\ k > 0 => k < Len(h) /\ UserCount(Trim(h)) >= MaxTurns
  BY TrimShape
<1> DEFINE t == DropFirst(h, k)
<1>2. /\ t \in Seq(Messages) /\ Len(t) = Len(h) - k
      /\ \A i \in 1..(Len(h) - k) : t[i] = h[i + k]
  BY SuffixIsSeq
<1>3. k = 0 => t = h
  BY DEF DropFirst
<1> HIDE DEF t
<1>4. k < Len(h)
  <2>1. Len(h) > 0 /\ k \in Nat
    OBVIOUS
  <2>2. k > 0 => k < Len(h)
    BY <1>1
  <2> QED
    BY <2>1, <2>2
<1>5. Len(t) \in 1..(Len(h) - k) /\ Len(t) + k = Len(h) /\ t # <<>>
  BY <1>2, <1>4
<1>6. t[Len(t)] = h[Len(h)]
  BY <1>2, <1>5
<1>7. Trim(h) = t
  BY <1>1, Zenon DEF t
<1>8. UserCount(t) = UserCount(h) \/ UserCount(t) >= MaxTurns
  <2>1. k > 0 => UserCount(t) >= MaxTurns
    BY <1>1, <1>7, Zenon
  <2>2. k = 0 \/ k > 0
    OBVIOUS
  <2> QED
    BY <1>3, <2>1, <2>2
<1> QED
  BY <1>1, <1>2, <1>5, <1>6, <1>7, <1>8, Zenon

LEMMA UserTurnKeeps ==
  ASSUME NEW h \in Seq(Messages), NEW n \in Nat, Keeps(h, n)
  PROVE  AddUserTurn(h) \in Seq(Messages) /\ Keeps(AddUserTurn(h), n + 1)
<1> DEFINE g == Append(h, UserTurn)
<1>1. UserTurn \in Messages /\ UserTurn.role = "user"
  BY DEF UserTurn, Messages
<1>2. UserCount(g) = UserCount(h) + 1 /\ UserCount(h) \in Nat
  BY <1>1, CountAppend, UserCountIsNat
<1>3. g \in Seq(Messages) /\ Len(g) = Len(h) + 1 /\ Len(h) \in Nat
  BY <1>1
<1> HIDE DEF g
<1>4. /\ Trim(g) \in Seq(Messages) /\ TrimStops(Trim(g))
      /\ UserCount(Trim(g)) = UserCount(g) \/ UserCount(Trim(g)) >= MaxTurns
  <2>1. g # <<>>
    BY <1>3
  <2> QED
    BY <1>3, <2>1, TrimCount
<1>5. Keeps(Trim(g), n + 1)
  BY <1>2, <1>4, MaxTurnsAssumption DEF Keeps, TrimStops
<1> QED
  BY <1>4, <1>5 DEF AddUserTurn, g

\* An assistant message leaves no more turns than the bound, whatever it calls.
LEMMA AssistantTurnKeeps ==
  ASSUME NEW h \in Seq(Messages), NEW n \in Nat, Keeps(h, n), NEW calls \in SUBSET Nat
  PROVE  /\ AddAssistantTurn(h, calls) \in Seq(Messages)
         /\ Keeps(AddAssistantTurn(h, calls), n)
         /\ UserCount(AddAssistantTurn(h, calls)) <= MaxTurns
<1> DEFINE m == AssistantTurn(calls)
           g == Append(h, m)
           t == Trim(g)
<1>1. m \in Messages /\ m.role # "user"
  BY DEF AssistantTurn, Messages
<1>2. UserCount(g) = UserCount(h) /\ UserCount(h) \in Nat
  BY <1>1, CountAppend, UserCountIsNat
<1>3. g \in Seq(Messages) /\ g # <<>> /\ g[Len(g)] = m
  BY <1>1
<1> HIDE DEF g, m, t
<1>4. /\ t \in Seq(Messages) /\ t # <<>> /\ t[Len(t)] = m /\ TrimStops(t)
      /\ UserCount(t) = UserCount(g) \/ UserCount(t) >= MaxTurns
  BY <1>3, TrimCount DEF t
<1>5. UserCount(t) \in Nat /\ UserCount(t) <= Len(t)
  BY <1>4, UserCountIsNat
<1>6. UserCount(t) # Len(t)
  <2> SUFFICES ASSUME UserCount(t) = Len(t) PROVE FALSE
    OBVIOUS
  <2>1. UserIn(t) = 1..Len(t)
    BY <1>4, AllUsers
  <2>2. Len(t) \in 1..Len(t)
    BY <1>4
  <2> QED
    BY <1>1, <1>4, <2>1, <2>2 DEF UserIn
<1>7. UserCount(t) <= MaxTurns
  BY <1>4, <1>5, <1>6, MaxTurnsAssumption DEF TrimStops
<1>8. Keeps(t, n)
  BY <1>2, <1>4, <1>5, <1>7, MaxTurnsAssumption DEF Keeps
<1> QED
  BY <1>4, <1>7, <1>8 DEF AddAssistantTurn, t, g, m

\* Results add no user turn; after an assistant message they cannot exceed the
\* length at which trimming stops.
LEMMA ResultsKeep ==
  ASSUME NEW h \in Seq(Messages), NEW calls \in Seq(Nat), NEW n \in Nat, Keeps(h, n),
         calls = <<>> \/ UserCount(h) <= MaxTurns
  PROVE  /\ FillResults(h, calls) \in Seq(Messages)
         /\ FillResults(h, calls) = h \o Results(calls)
         /\ UserCount(FillResults(h, calls)) = UserCount(h)
         /\ Keeps(FillResults(h, calls), n)
<1> DEFINE R == Results(calls)
           g == h \o R
<1>1. R \in Seq(Messages) /\ \A i \in 1..Len(R) : R[i].role = "tool"
  <2>1. \A c \in Nat : ToolResult(c) \in Messages /\ ToolResult(c).role = "tool"
    BY DEF ToolResult, Messages
  <2>2. \A i \in 1..Len(calls) : /\ ToolResult(calls[i]) \in Messages
                                 /\ ToolResult(calls[i]).role = "tool"
    BY <2>1
  <2>3. R = [i \in 1..Len(calls) |-> ToolResult(calls[i])]
    BY DEF Results
  <2> HIDE DEF R
  <2> QED
    BY <2>2, <2>3
<1>2. calls = <<>> => R = <<>>
  BY DEF Results
<1>3. FillResults(h, calls) = g
  BY DEF FillResults, Results
<1> HIDE DEF R
<1>4. /\ g \in Seq(Messages) /\ Len(g) = Len(h) + Len(R)
      /\ \A i \in 1..Len(h) : g[i] = h[i]
      /\ \A i \in (Len(h) + 1)..Len(g) : g[i] = R[i - Len(h)]
  BY <1>1
<1> HIDE DEF g
<1>5. UserIn(g) = UserIn(h)
  <2>1. ASSUME NEW i \in 1..Len(g), g[i].role = "user" PROVE i \in 1..Len(h)
    <3> SUFFICES ASSUME i \in (Len(h) + 1)..Len(g) PROVE FALSE
      BY <1>4
    <3>1. i - Len(h) \in 1..Len(R)
      BY <1>1, <1>4
    <3> QED
      BY <1>1, <1>4, <2>1, <3>1
  <2>2. \A i \in 1..Len(h) : i \in 1..Len(g)
    BY <1>1, <1>4
  <2>3. UserIn(g) = {i \in 1..Len(g) : g[i].role = "user"}
    BY <1>4 DEF UserIn
  <2>4. UserIn(h) = {i \in 1..Len(h) : h[i].role = "user"}
    BY DEF UserIn
  <2> QED
    BY <1>4, <2>1, <2>2, <2>3, <2>4
<1>6. UserCount(g) = UserCount(h)
  BY <1>5 DEF UserCount, UserIn
<1>7. R = <<>> => g = h
  BY DEF g
<1>8. Keeps(g, n)
  BY <1>2, <1>6, <1>7, UserCountIsNat, MaxTurnsAssumption DEF Keeps
<1> QED
  BY <1>3, <1>4, <1>6, <1>8 DEF g, R

----------------------------------------------------------------------------
(* The history of the call                                                 *)

\* Inductive: the results that are still owed would make the history well
\* formed, in the middle of a tool round as between two rounds, and during a
\* round no more user turns are in it than the bound allows.
HistInv ==
  /\ {"pc", "calls"} \subseteq DOMAIN r
  /\ runPc = "connect" => r.pc = "none"
  /\ history \in Seq(Messages) /\ turns \in Nat
  /\ r.calls \in Seq(Nat)
  /\ r.calls # <<>> <=> r.pc = "tool"
  /\ WellFormed(FillResults(history, r.calls))
  /\ Keeps(history, turns)
  /\ r.pc = "tool" => UserCount(history) <= MaxTurns

\* With every call answered the history is a history again.
LEMMA FilledHist ==
  ASSUME HistInv
  PROVE  /\ FillResults(history, r.calls) \in Seq(Messages)
         /\ Keeps(FillResults(history, r.calls), turns)
         /\ r.pc # "tool" => FillResults(history, r.calls) = history
<1>1. r.calls = <<>> \/ UserCount(history) <= MaxTurns
  BY DEF HistInv
<1>2. r.calls = <<>> => FillResults(history, r.calls) = history
  BY DEF HistInv, FillResults
<1>3. /\ FillResults(history, r.calls) \in Seq(Messages)
      /\ Keeps(FillResults(history, r.calls), turns)
  BY <1>1, ResultsKeep DEF HistInv
<1> QED
  BY <1>2, <1>3 DEF HistInv

\* What neither adds a message nor touches the round in progress.
LEMMA SameHist ==
  ASSUME HistInv, UNCHANGED <<history, turns>>, {"pc", "calls"} \subseteq DOMAIN r',
         r'.calls = r.calls, r'.pc = "tool" <=> r.pc = "tool",
         runPc' = "connect" => runPc = "connect" /\ r'.pc = r.pc
  PROVE  HistInv'
<1>1. FillResults(history, r.calls)' = FillResults(history, r.calls)
  BY DEF FillResults
<1>2. UserCount(history)' = UserCount(history) /\ Keeps(history, turns)' = Keeps(history, turns)
  BY DEF UserCount, Keeps
<1> QED
  BY <1>1, <1>2 DEF HistInv

\* The response is left without open calls.
LEMMA ClosedHist ==
  ASSUME {"pc", "calls"} \subseteq DOMAIN r', r'.calls = <<>>, r'.pc # "tool",
         history' \in Seq(Messages), WellFormed(history'), turns' \in Nat,
         Keeps(history', turns'), runPc' # "connect"
  PROVE  HistInv'
<1>1. FillResults(history, r.calls)' = history'
  BY DEF FillResults
<1>2. WellFormed(FillResults(history, r.calls))' /\ Keeps(history, turns)'
  BY <1>1 DEF WellFormed, Keeps, UserCount, AllResults
<1> QED
  BY <1>2 DEF HistInv

\* It takes up what was owed, and nothing else.
LEMMA FillHist ==
  ASSUME HistInv, {"pc", "calls"} \subseteq DOMAIN r', r'.calls = <<>>, r'.pc # "tool",
         history' = FillResults(history, r.calls), turns' = turns, runPc' # "connect"
  PROVE  HistInv'
<1>1. /\ history' \in Seq(Messages) /\ WellFormed(history')
      /\ turns' \in Nat /\ Keeps(history', turns')
  BY FilledHist DEF HistInv
<1> QED
  BY <1>1, ClosedHist

\* The finally block records the reply, or nothing.
LEMMA FinishHist ==
  ASSUME HistInv, NEW q, NEW h, NEW end, {"pc", "calls"} \subseteq DOMAIN q,
         h = FillResults(history, r.calls), Finish(q, h, end),
         turns' = turns, runPc' # "connect"
  PROVE  HistInv'
<1>1. {"pc", "calls"} \subseteq DOMAIN r' /\ r'.calls = <<>> /\ r'.pc # "tool"
  BY DEF Finish
<1>2. CASE history' = h
  BY <1>1, <1>2, FillHist
<1>3. CASE history' = AddAssistantTurn(h, {})
  <2>1. h \in Seq(Messages) /\ WellFormed(h) /\ Keeps(h, turns) /\ turns \in Nat
    BY FilledHist DEF HistInv
  <2>2. /\ AssistantTurn({}) \in Messages
        /\ AssistantTurn({}).role = "assistant" /\ AssistantTurn({}).calls = {}
    BY DEF AssistantTurn, Messages
  <2>3. WellFormed(AddAssistantTurn(h, {}))
    BY <2>1, <2>2, AddKeepsForm DEF AddAssistantTurn
  <2>4. AddAssistantTurn(h, {}) \in Seq(Messages) /\ Keeps(AddAssistantTurn(h, {}), turns)
    BY <2>1, AssistantTurnKeeps
  <2> QED
    BY <1>1, <1>3, <2>1, <2>3, <2>4, ClosedHist
<1> QED
  BY <1>2, <1>3 DEF Finish, Record

\* A turn is committed when no response is running.
LEMMA CommitHist ==
  ASSUME HistInv, NEW t, Commit(t), ~Live, runPc' # "connect"
  PROVE  HistInv'
<1>1. /\ history \in Seq(Messages) /\ WellFormed(history)
      /\ turns \in Nat /\ Keeps(history, turns)
  BY FilledHist DEF HistInv, Live
<1>2. UserTurn \in Messages /\ UserTurn.role = "user"
  BY DEF UserTurn, Messages
<1>3. WellFormed(AddUserTurn(history))
  BY <1>1, <1>2, AddKeepsForm DEF AddUserTurn
<1>4. AddUserTurn(history) \in Seq(Messages) /\ Keeps(AddUserTurn(history), turns + 1)
  BY <1>1, UserTurnKeeps
<1>5. {"pc", "calls"} \subseteq DOMAIN r' /\ r'.calls = <<>> /\ r'.pc # "tool"
  BY DEF Commit, NewGeneration, NewResponse
<1> QED
  BY <1>1, <1>3, <1>4, <1>5, ClosedHist DEF Commit

\* A round of calls opens.
LEMMA RoundHist ==
  ASSUME HistInv, r.pc # "tool", NEW k \in 1..MaxCalls, MaxCalls \in Nat,
         history' = AddAssistantTurn(history, 1..k),
         {"pc", "calls"} \subseteq DOMAIN r', r'.pc = "tool",
         r'.calls = [i \in 1..k |-> i], turns' = turns, runPc' # "connect"
  PROVE  HistInv'
<1>1. /\ history \in Seq(Messages) /\ WellFormed(history)
      /\ turns \in Nat /\ Keeps(history, turns) /\ k \in Nat /\ 1..k \in SUBSET Nat
  BY FilledHist DEF HistInv
<1>2. /\ history' \in Seq(Messages) /\ Keeps(history', turns') /\ UserCount(history') <= MaxTurns
  BY <1>1, AssistantTurnKeeps
<1>3. r'.calls \in Seq(Nat) /\ r'.calls # <<>>
  <2>1. [i \in 1..k |-> i] \in Seq(Nat) /\ Len([i \in 1..k |-> i]) = k /\ k > 0
    BY <1>1
  <2> QED
    BY <2>1
<1>4. WellFormed(FillResults(history', r'.calls))
  <2>1. WellFormed(history' \o Results(r'.calls))
    BY <1>1, RoundKeepsForm
  <2>2. FillResults(history', r'.calls) = history' \o Results(r'.calls)
    BY DEF FillResults, Results
  <2> QED
    BY <2>1, <2>2
<1> QED
  BY <1>1, <1>2, <1>3, <1>4 DEF HistInv, WellFormed, FillResults, Keeps, UserCount, AllResults

\* A response with no call open goes on, or begins to speak.
LEMMA StartSpeakHist ==
  ASSUME HistInv, NEW q, NEW text, {"pc", "calls"} \subseteq DOMAIN q, q.calls = <<>>,
         StartSpeak(q, text), history' = FillResults(history, r.calls),
         UNCHANGED <<turns, runPc>>, runPc # "connect"
  PROVE  HistInv'
<1>1. {"pc", "calls"} \subseteq DOMAIN r' /\ r'.calls = <<>> /\ r'.pc # "tool"
  BY DEF StartSpeak
<1> QED
  BY <1>1, FillHist

LEMMA ToolAnswersHist == HistInv /\ ToolAnswers => HistInv'
<1> SUFFICES ASSUME HistInv, ToolAnswers PROVE HistInv'
  OBVIOUS
<1> DEFINE c == r.calls
           q == [r EXCEPT !.calls = Tail(@)]
           m == ToolResult(Head(c))
<1>0. /\ {"pc", "calls"} \subseteq DOMAIN r /\ r.pc = "tool" /\ runPc # "connect"
      /\ c \in Seq(Nat) /\ c # <<>> /\ history \in Seq(Messages) /\ turns \in Nat
      /\ Keeps(history, turns) /\ UserCount(history) <= MaxTurns
      /\ UNCHANGED <<turns, runPc>>
  BY DEF HistInv, ToolAnswers, Runs, respUnchanged, runVars, turnVars, committedVars
<1>1. {"pc", "calls"} \subseteq DOMAIN q /\ q.calls = Tail(c) /\ q.pc = "tool"
  BY <1>0
<1>2. history' = Append(history, m)
  BY DEF ToolAnswers, AddToolResult
<1>3. FillResults(history', Tail(c)) = FillResults(history, c)
  <2>1. Results(c) = <<m>> \o Results(Tail(c))
    <3>1. Len(c) \in Nat /\ Len(c) > 0 /\ Len(Tail(c)) = Len(c) - 1
      BY <1>0
    <3>2. Results(c) = [i \in 1..Len(c) |-> ToolResult(c[i])]
      BY <1>0 DEF Results
    <3>3. Results(Tail(c)) = [i \in 1..(Len(c) - 1) |-> ToolResult(c[i + 1])]
      BY <1>0, <3>1 DEF Results
    <3> QED
      <4> DEFINE R == Results(Tail(c))
                 T(i) == ToolResult(c[i])
      <4>1. Head(c) = c[1] /\ m = T(1)
        BY <1>0
      <4>2. R = [i \in 1..(Len(c) - 1) |-> T(i + 1)]
        BY <3>3
      <4>3. \A i \in 1..Len(c) : T(i) \in {T(j) : j \in 1..Len(c)}
        OBVIOUS
      <4>4. Results(c) = [i \in 1..Len(c) |-> T(i)]
        BY <3>2
      <4> HIDE DEF m, R, T
      <4>5. Len(R) = Len(c) - 1 /\ R \in Seq({T(j) : j \in 1..Len(c)})
        BY <3>1, <4>2, <4>3
      <4>6. <<m>> \o R = [i \in 1..Len(c) |-> IF i = 1 THEN m ELSE R[i - 1]]
        BY <3>1, <4>5
      <4>7. \A i \in 1..Len(c) : (IF i = 1 THEN m ELSE R[i - 1]) = T(i)
        <5> SUFFICES ASSUME NEW i \in 1..Len(c), i # 1 PROVE R[i - 1] = T(i)
          BY <4>1
        <5>1. i - 1 \in 1..(Len(c) - 1) /\ (i - 1) + 1 = i
          BY <3>1
        <5> QED BY <4>2, <5>1
      <4> QED BY <4>4, <4>6, <4>7 DEF R, m
  <2>2. m \in Messages /\ Results(Tail(c)) \in Seq(Messages)
    BY <1>0 DEF Results, ToolResult, Messages
  <2>3. Append(history, m) = history \o <<m>>
    BY <1>0, <2>2
  <2>4. (history \o <<m>>) \o Results(Tail(c)) = history \o (<<m>> \o Results(Tail(c)))
    BY <1>0, <2>2
  <2> QED
    BY <1>2, <2>1, <2>3, <2>4 DEF FillResults, Results
<1>4. CASE Tail(c) # <<>>
  <2>1. r' = q
    BY <1>1, <1>4 DEF ToolAnswers
  <2>2. m \in Messages /\ m.role # "user"
    BY <1>0 DEF ToolResult, Messages
  <2>3. history' \in Seq(Messages) /\ UserCount(history') = UserCount(history)
    BY <1>0, <1>2, <2>2, CountAppend, UserCountIsNat
  <2>4. Keeps(history', turns')
    BY <1>0, <2>3 DEF Keeps
  <2>5. Tail(c) \in Seq(Nat)
    BY <1>0
  <2>6. WellFormed(FillResults(history', r'.calls))
    BY <1>1, <1>3, <2>1 DEF HistInv
  <2> QED
    BY <1>0, <1>1, <1>4, <2>1, <2>3, <2>4, <2>5, <2>6
       DEF HistInv, WellFormed, FillResults, Keeps, UserCount, AllResults
<1>5. CASE Tail(c) = <<>>
  <2>1. history' = FillResults(history, r.calls)
    <3>1. Tail(c) \in Seq(Nat) /\ history' \in Seq(Messages)
      BY <1>0, <1>2 DEF ToolResult, Messages
    <3>2. FillResults(history', <<>>) = history'
      BY <3>1 DEF FillResults
    <3> QED
      BY <1>3, <1>5, <3>2
  <2>2. AskLlm(q)
    BY <1>1, <1>5 DEF ToolAnswers
  <2> HIDE DEF q
  <2>3. CASE exhausted'
    <3>1. StartSpeak([q EXCEPT !.full = "budget"], "budget")
      BY <2>2, <2>3 DEF AskLlm
    <3>2. /\ {"pc", "calls"} \subseteq DOMAIN [q EXCEPT !.full = "budget"]
          /\ [q EXCEPT !.full = "budget"].calls = <<>>
      BY <1>1, <1>5
    <3> QED
      BY <1>0, <2>1, <3>1, <3>2, StartSpeakHist
  <2>4. CASE ~exhausted'
    <3>1. {"pc", "calls"} \subseteq DOMAIN r' /\ r'.calls = <<>> /\ r'.pc # "tool"
      BY <1>1, <1>5, <2>2, <2>4 DEF AskLlm
    <3> QED
      BY <1>0, <2>1, <3>1, FillHist
  <2> QED
    BY <2>3, <2>4
<1> QED
  BY <1>4, <1>5

LEMMA ResponseHist == HistInv /\ ResponseStep => HistInv'
<1> SUFFICES ASSUME HistInv, ResponseStep PROVE HistInv'
  OBVIOUS
<1> USE DEF Runs, respUnchanged, runVars, turnVars, committedVars, recordVars
<1>0. /\ {"pc", "calls"} \subseteq DOMAIN r
      /\ r.pc # "none" => runPc # "connect"
      /\ r.pc # "tool" => r.calls = <<>> /\ FillResults(history, r.calls) = history
  BY FilledHist DEF HistInv
<1>1. CASE GreetStarts
  BY <1>0, <1>1, StartSpeakHist DEF GreetStarts
<1>2. CASE ReplySkipped
  BY <1>0, <1>2, SameHist DEF ReplySkipped
<1>3. CASE ReplyStarts
  <2>1. CASE exhausted'
    BY <1>0, <1>3, <2>1, StartSpeakHist DEF ReplyStarts, AskLlm
  <2>2. CASE ~exhausted'
    BY <1>0, <1>3, <2>2, SameHist DEF ReplyStarts, AskLlm
  <2> QED
    BY <2>1, <2>2
<1>4. CASE LlmReplies
  BY <1>0, <1>4, StartSpeakHist DEF LlmReplies
<1>5. CASE LlmEmpty
  BY <1>0, <1>5, FinishHist DEF LlmEmpty
<1>6. CASE LlmFails
  BY <1>0, <1>6, StartSpeakHist DEF LlmFails
<1>7. CASE LlmCallsTools
  <2>1. CASE r.rounds + 1 > MaxToolRounds
    BY <1>0, <1>7, <2>1, StartSpeakHist DEF LlmCallsTools
  <2>2. CASE ~(r.rounds + 1 > MaxToolRounds)
    <3>1. PICK k \in 1..MaxCalls :
            /\ history' = AddAssistantTurn(history, 1..k)
            /\ r' = [r EXCEPT !.pc = "tool", !.rounds = @ + 1,
                              !.calls = [i \in 1..k |-> i]]
      BY <1>7, <2>2 DEF LlmCallsTools
    <3>2. {"pc", "calls"} \subseteq DOMAIN r' /\ r'.pc = "tool" /\ r'.calls = [i \in 1..k |-> i]
      BY <1>0, <3>1
    <3>3. MaxCalls \in Nat
      BY ConstantsAssumption
    <3>4. r.pc = "llm" /\ UNCHANGED <<turns, runPc>>
      BY <1>7 DEF LlmCallsTools
    <3> QED
      BY <1>0, <3>1, <3>2, <3>3, <3>4, RoundHist
  <2> QED
    BY <2>1, <2>2
<1>8. CASE ToolAnswers
  BY <1>8, ToolAnswersHist
<1>9. CASE ToolRaises
  BY <1>0, <1>9, StartSpeakHist DEF ToolRaises
<1>10. CASE FrameSent \/ SynthesisEnds
  BY <1>0, <1>10, SameHist DEF FrameSent, SynthesisEnds
<1>11. CASE SynthesisFails
  <2>1. CASE r.kind = "reply" /\ ~r.apology
    BY <1>0, <1>11, <2>1, StartSpeakHist DEF SynthesisFails
  <2>2. CASE ~(r.kind = "reply" /\ ~r.apology)
    BY <1>0, <1>11, <2>2, FinishHist DEF SynthesisFails
  <2> QED
    BY <2>1, <2>2
<1>12. CASE PlayConfirmed \/ PlayTimesOut
  <2>1. Played
    BY <1>12 DEF PlayConfirmed, PlayTimesOut
  <2> QED
    BY <1>0, <2>1, FinishHist DEF Played
<1>13. CASE ReplyHangsUp \/ CancelledOutside
  BY <1>0, <1>13, SameHist DEF ReplyHangsUp, CancelledOutside
<1>14. CASE CancelledInside
  <2>1. /\ Finish(r, FillResults(history, r.calls), IF r.apology THEN "cancelled" ELSE "ok")
        /\ turns' = turns /\ runPc' # "connect"
    BY <1>0, <1>14 DEF CancelledInside
  <2> QED
    BY <1>0, <2>1, FinishHist
<1> QED
  BY <1>1, <1>2, <1>3, <1>4, <1>5, <1>6, <1>7, <1>8, <1>9, <1>10, <1>11, <1>12,
     <1>13, <1>14 DEF ResponseStep

\* Asking the response to end does not end its round.
LEMMA CancelHist ==
  ASSUME HistInv, RequestCancellation \/ Teardown \/ r' = [r EXCEPT !.cancel = TRUE]
  PROVE  {"pc", "calls"} \subseteq DOMAIN r' /\ r'.pc = r.pc /\ r'.calls = r.calls
BY DEF HistInv, RequestCancellation, Teardown

LEMMA LeaveHist ==
  ASSUME HistInv, NEW end, Leave(end), UNCHANGED <<history, turns>>
  PROVE  HistInv'
<1>1. /\ {"pc", "calls"} \subseteq DOMAIN r'
      /\ r'.pc = r.pc /\ r'.calls = r.calls /\ runPc' # "connect"
  <2>1. CASE degraded'
    BY <2>1 DEF Leave, HistInv
  <2>2. CASE ~degraded'
    <3>1. Teardown
      BY <2>2 DEF Leave
    <3> QED
      BY <3>1, CancelHist DEF Teardown
  <2> QED
    BY <2>1, <2>2
<1> QED
  BY <1>1, SameHist

LEMMA RunHist == HistInv /\ RunStep => HistInv'
<1> SUFFICES ASSUME HistInv, RunStep PROVE HistInv'
  OBVIOUS
<1> USE DEF runUnchanged, runVars, turnVars, committedVars, recordVars
<1>0. /\ {"pc", "calls"} \subseteq DOMAIN r
      /\ r.pc # "tool" => r.calls = <<>> /\ FillResults(history, r.calls) = history
  BY FilledHist DEF HistInv
<1>1. CASE Connects
  <2>0. r.pc = "none"
    BY <1>1 DEF Connects, HistInv
  <2>1. CASE NewGeneration("greet") /\ runPc' = "get"
    BY <1>0, <1>1, <2>0, <2>1, FillHist DEF Connects, NewGeneration, NewResponse
  <2>2. CASE runPc' \in {"bye", "get"} /\ UNCHANGED <<gen, r>>
    BY <1>0, <1>1, <2>2, SameHist DEF Connects
  <2> QED
    BY <1>1, <2>1, <2>2 DEF Connects
<1>2. CASE HangsUpUnheard \/ HangsUp \/ ReapRaises \/ RunFails
  BY <1>2, LeaveHist DEF HangsUpUnheard, HangsUp, ReapRaises, RunFails
<1>3. CASE SpeakEnds \/ IgnoresInput \/ Listens \/ BargesIn
  BY <1>0, <1>3, SameHist DEF SpeakEnds, IgnoresInput, Listens, BargesIn, Assemble
<1>4. CASE Flushed \/ Supersedes
  <2>1. RequestCancellation /\ UNCHANGED <<history, turns>> /\ runPc' # "connect"
    BY <1>4 DEF Flushed, Supersedes, Assemble
  <2> QED
    BY <2>1, CancelHist, SameHist
<1>5. CASE Answers \/ Reaps
  <2>1. CASE Answers
    <3>1. Commit(buffer) /\ ~Live /\ runPc' # "connect"
      BY <2>1 DEF Answers, Takes
    <3> QED
      BY <3>1, CommitHist
  <2>2. CASE Reaps
    <3>1. Commit(turn) /\ ~Live /\ runPc' # "connect"
      BY <2>2 DEF Reaps
    <3> QED
      BY <3>1, CommitHist
  <2> QED
    BY <1>5, <2>1, <2>2
<1>6. CASE HangsUpDegraded
  <2>1. Teardown /\ UNCHANGED <<history, turns>> /\ runPc' # "connect"
    BY <1>6 DEF HangsUpDegraded, Teardown
  <2> QED
    BY <2>1, CancelHist, SameHist
<1>7. CASE TornDown \/ ClosesStt \/ ClosesMedia
  BY <1>0, <1>7, SameHist DEF TornDown, ClosesStt, ClosesMedia
<1> QED
  BY <1>1, <1>2, <1>3, <1>4, <1>5, <1>6, <1>7 DEF RunStep

LEMMA EnvironmentHist == HistInv /\ Environment => HistInv'
<1> SUFFICES ASSUME HistInv, Environment PROVE HistInv'
  OBVIOUS
<1> USE DEF quiet, runVars, turnVars, committedVars, recordVars
<1>0. {"pc", "calls"} \subseteq DOMAIN r
  BY DEF HistInv
<1>1. CASE SttInterim \/ SttFinal \/ SttEnd \/ VadOnset \/ TelnyxPlays \/ MarkArrives
           \/ ServerHangsUp \/ SttDies \/ MediaDies
  <2>1. UNCHANGED <<r, history, turns, runPc>>
    BY <1>1 DEF SttInterim, SttFinal, SttEnd, VadOnset, TelnyxPlays, MarkArrives,
                ServerHangsUp, SttDies, MediaDies
  <2> QED
    BY <1>0, <2>1, SameHist
<1>2. CASE ServerCancels
  <2>0. UNCHANGED <<history, turns>>
    BY <1>2 DEF ServerCancels
  <2>1. CASE Leave("cancelled")
    BY <2>0, <2>1, LeaveHist
  <2>2. CASE r' = [r EXCEPT !.cancel = TRUE] /\ runPc' = runPc
    BY <2>0, <2>2, CancelHist, SameHist
  <2>3. CASE runPc' \in {"done", runPc} /\ UNCHANGED <<r, gen>>
    BY <1>0, <2>0, <2>3, SameHist
  <2> QED
    BY <1>2, <2>1, <2>2, <2>3 DEF ServerCancels
<1> QED
  BY <1>1, <1>2 DEF Environment

LEMMA InitHist == Init => HistInv
<1> SUFFICES ASSUME Init PROVE HistInv
  OBVIOUS
<1>1. /\ history = <<>> /\ turns = 0 /\ r.calls = <<>> /\ r.pc = "none"
      /\ {"pc", "calls"} \subseteq DOMAIN r
  BY DEF Init, NewResponse
<1>2. history \in Seq(Messages) /\ r.calls \in Seq(Nat) /\ Len(history) = 0
  BY <1>1
<1>3. UserCount(history) = 0
  <2>1. UserCount(history) \in Nat /\ UserCount(history) <= Len(history)
    BY <1>2, UserCountIsNat
  <2> QED
    BY <1>2, <2>1
<1>4. WellFormed(history)
  <2>1. \A i \in 1..Len(history) : FALSE
    BY <1>2
  <2>2. history \in Seq(Messages)
    BY <1>2
  <2>3. \A i \in 1..Len(history) : /\ history[i].role # "tool"
                                   /\ history[i].role = "assistant" => history[i].calls = {}
    BY <2>1
  <2> QED
    BY <2>2, <2>3, PlainIsFormed
<1>5. FillResults(history, r.calls) = history
  BY <1>1 DEF FillResults
<1> QED
  BY <1>1, <1>2, <1>3, <1>4, <1>5 DEF HistInv, Keeps

LEMMA HistStep == HistInv /\ [Next]_vars => HistInv'
<1> SUFFICES ASSUME HistInv, [Next]_vars PROVE HistInv'
  OBVIOUS
<1>1. CASE UNCHANGED vars
  <2>1. UNCHANGED <<r, history, turns, runPc>>
    BY <1>1 DEF vars, runVars, turnVars, committedVars, recordVars
  <2>2. {"pc", "calls"} \subseteq DOMAIN r'
    BY <2>1 DEF HistInv
  <2> QED
    BY <2>1, <2>2, SameHist
<1>2. CASE Next
  BY <1>2, ResponseHist, RunHist, EnvironmentHist DEF Next
<1> QED
  BY <1>1, <1>2

LEMMA HistAlways == Spec => []HistInv
<1> QED
  BY InitHist, HistStep, PTL DEF Spec

\* Between tool rounds every call in the history has its one result, however the
\* rounds ended and whatever was trimmed: what the API demands of the messages it
\* is sent.
THEOREM HistoryIsWellFormed == Spec => []HistoryWellFormed
<1>1. HistInv => HistoryWellFormed
  BY FilledHist DEF HistInv, HistoryWellFormed
<1> QED
  BY <1>1, HistAlways, PTL

\* No trimming drops a turn that the bound would have kept, nor leaves more turns
\* than it allows, but for the two messages that are always kept.
THEOREM RecentTurnsAreKept == Spec => []RecentTurnsKept
<1>1. HistInv => RecentTurnsKept
  BY DEF HistInv, RecentTurnsKept, Keeps
<1> QED
  BY <1>1, HistAlways, PTL
----------------------------------------------------------------------------
(* What the caller hears                                                   *)

Carriable == [kind : {"audio", "mark", "clear"}, utt : Nat, n : Nat]

\* All that was carried and, behind it, what is on its way.
Given ==
  [i \in 1..(Len(played) + Len(air)) |->
     IF i <= Len(played) THEN played[i] ELSE Carried(air[i - Len(played)])]

\* In a sequence s of sounds: no utterance precedes an older one; a frame is
\* numbered, new and follows its predecessor; a mark follows its last frame and
\* nothing of its utterance follows it; a clear is of no utterance.
InTurn(s) == \A i, j \in DOMAIN s : i < j /\ s[j].kind # "clear" => s[i].utt <= s[j].utt
Framed(s) ==
  \A j \in DOMAIN s : s[j].kind = "audio" =>
    /\ s[j].n \in 1..MaxFrames /\ s[j].utt > 0
    /\ s[j].n > 1 => \E i \in DOMAIN s : i < j /\ s[i] = Line!Frame(s[j].utt, s[j].n - 1)
    /\ \A i \in DOMAIN s : i < j => s[i] # s[j]
Fenced(s) ==
  \A j \in DOMAIN s : s[j].kind = "mark" =>
    /\ s[j].n \in 0..MaxFrames /\ s[j].utt > 0
    /\ s[j].n > 0 => \E i \in DOMAIN s : i < j /\ s[i] = Line!Frame(s[j].utt, s[j].n)
    /\ \A i \in DOMAIN s : i < j => s[i] # Line!Frame(s[j].utt, s[j].n + 1)
    /\ \A i \in DOMAIN s : i > j => s[i].utt # s[j].utt
Silences(s) == \A j \in DOMAIN s : s[j].kind = "clear" => s[j] = Cleared
Orderly(s) == s \in Seq(Carriable) /\ InTurn(s) /\ Framed(s) /\ Fenced(s) /\ Silences(s)

\* The frames of the current speak given so far are those handed over, and its
\* mark is not among them.
Underway(s) ==
  /\ \A i \in DOMAIN s : s[i].utt = speakGen => s[i].kind = "audio" /\ s[i].n <= r.sent
  /\ \A n \in 1..r.sent : \E i \in DOMAIN s : s[i] = Line!Frame(speakGen, n)

AudioTypes ==
  /\ speakGen \in Nat /\ epoch \in Nat /\ mediaClosed \in BOOLEAN
  /\ air \in Seq(Sounds) /\ played \in Seq(Carriable)

\* Inductive: what was given is orderly and of speaks that began, and of a speak
\* whose synthesis the port still takes it is all that was handed over.
AudioInv ==
  /\ SentInv /\ SilentInv /\ AudioTypes
  /\ Orderly(Given)
  /\ \A i \in DOMAIN Given : Given[i].utt <= speakGen
  /\ mediaClosed => air = <<>>
  /\ r.pc = "synth" => speakGen > 0
  /\ r.pc = "synth" /\ Accepted => Underway(Given)

LEMMA GivenIsSeq ==
  ASSUME AudioTypes
  PROVE  /\ Given \in Seq(Carriable) /\ Len(Given) = Len(played) + Len(air)
         /\ DOMAIN Given = 1..(Len(played) + Len(air))
         /\ \A i \in DOMAIN played : Given[i] = played[i] /\ i \in DOMAIN Given
         /\ \A i \in DOMAIN air : /\ Given[Len(played) + i] = Carried(air[i])
                                  /\ Len(played) + i \in DOMAIN Given
<1>1. Len(played) \in Nat /\ Len(air) \in Nat
  BY DEF AudioTypes
<1>2. \A i \in 1..Len(air) : Carried(air[i]) \in Carriable
  <2> TAKE i \in 1..Len(air)
  <2>1. air[i] \in Sounds
    BY DEF AudioTypes
  <2> QED
    BY <2>1 DEF Sounds, Carried, Carriable
<1>3. \A i \in 1..Len(played) : played[i] \in Carriable
  BY DEF AudioTypes
<1>4. \A i \in 1..(Len(played) + Len(air)) : Given[i] \in Carriable
  <2> TAKE i \in 1..(Len(played) + Len(air))
  <2>1. CASE i <= Len(played)
    BY <1>1, <1>3, <2>1 DEF Given
  <2>2. CASE ~(i <= Len(played))
    <3>1. i - Len(played) \in 1..Len(air)
      BY <1>1, <2>2
    <3> QED
      BY <1>2, <2>2, <3>1 DEF Given
  <2> QED
    BY <2>1, <2>2
<1>5. Given = [i \in 1..(Len(played) + Len(air)) |-> Given[i]]
  BY DEF Given
<1>6. Given \in Seq(Carriable) /\ Len(Given) = Len(played) + Len(air)
  BY <1>1, <1>4, <1>5
<1>7. \A i \in DOMAIN played : Given[i] = played[i] /\ i \in DOMAIN Given
  BY <1>1 DEF Given, AudioTypes
<1>8. \A i \in DOMAIN air : /\ Given[Len(played) + i] = Carried(air[i])
                            /\ Len(played) + i \in DOMAIN Given
  <2> TAKE i \in DOMAIN air
  <2>1. i \in 1..Len(air) /\ Len(played) + i \in 1..(Len(played) + Len(air))
        /\ ~(Len(played) + i <= Len(played)) /\ (Len(played) + i) - Len(played) = i
    BY <1>1 DEF AudioTypes
  <2> QED
    BY <2>1 DEF Given
<1> QED
  BY <1>6, <1>7, <1>8 DEF Given

\* A beginning of an orderly sequence is orderly.
Begins(t, s) == Len(t) <= Len(s) /\ \A i \in DOMAIN t : i \in DOMAIN s /\ t[i] = s[i]

LEMMA BeginningOrderly ==
  ASSUME NEW s, NEW t \in Seq(Carriable), Orderly(s), Begins(t, s)
  PROVE  Orderly(t)
<1>0. /\ s \in Seq(Carriable) /\ DOMAIN t = 1..Len(t) /\ DOMAIN s = 1..Len(s)
      /\ Len(t) \in Nat /\ Len(s) \in Nat
  BY DEF Orderly
<1>d. /\ \A i \in DOMAIN t : i \in DOMAIN s /\ t[i] = s[i]
      /\ \A i \in DOMAIN s, j \in DOMAIN t : i < j => i \in DOMAIN t
  BY <1>0 DEF Begins
<1>1. InTurn(t)
  BY <1>d DEF Orderly, InTurn
<1>2. Framed(t)
  <2> SUFFICES ASSUME NEW j \in DOMAIN t, t[j].kind = "audio"
               PROVE  /\ t[j].n \in 1..MaxFrames /\ t[j].utt > 0
                      /\ t[j].n > 1 => \E i \in DOMAIN t :
                                         i < j /\ t[i] = Line!Frame(t[j].utt, t[j].n - 1)
                      /\ \A i \in DOMAIN t : i < j => t[i] # t[j]
    BY DEF Framed
  <2> QED
    BY <1>d DEF Orderly, Framed
<1>3. Fenced(t)
  <2> SUFFICES ASSUME NEW j \in DOMAIN t, t[j].kind = "mark"
               PROVE  /\ t[j].n \in 0..MaxFrames /\ t[j].utt > 0
                      /\ t[j].n > 0 => \E i \in DOMAIN t :
                                         i < j /\ t[i] = Line!Frame(t[j].utt, t[j].n)
                      /\ \A i \in DOMAIN t : i < j => t[i] # Line!Frame(t[j].utt, t[j].n + 1)
                      /\ \A i \in DOMAIN t : i > j => t[i].utt # t[j].utt
    BY DEF Fenced
  <2> QED
    BY <1>d DEF Orderly, Fenced
<1>4. Silences(t)
  BY <1>d DEF Orderly, Silences
<1> QED
  BY <1>1, <1>2, <1>3, <1>4 DEF Orderly

\* t is s with x behind it.
Extends(t, s, x) ==
  /\ Len(t) = Len(s) + 1 /\ t[Len(s) + 1] = x
  /\ \A i \in DOMAIN s : t[i] = s[i]

LEMMA Extended ==
  ASSUME NEW s \in Seq(Carriable), NEW t \in Seq(Carriable), NEW x, Extends(t, s, x)
  PROVE  /\ DOMAIN t = 1..(Len(s) + 1) /\ Len(s) \in Nat
         /\ \A i \in DOMAIN s : i \in DOMAIN t /\ t[i] = s[i] /\ i < Len(s) + 1 /\ i \in Nat
         /\ \A i \in DOMAIN t : i \in DOMAIN s \/ (i = Len(s) + 1 /\ t[i] = x)
BY DEF Extends

\* Where the new sound keeps to the rules, the longer sequence does.
LEMMA LongerOrderly ==
  ASSUME NEW s, NEW t \in Seq(Carriable), NEW x \in Carriable, Orderly(s), Extends(t, s, x),
         x.kind # "clear" => \A i \in DOMAIN s : s[i].utt <= x.utt,
         x.kind = "audio" =>
           /\ x.n \in 1..MaxFrames /\ x.utt > 0
           /\ x.n > 1 => \E i \in DOMAIN s : s[i] = Line!Frame(x.utt, x.n - 1)
           /\ \A i \in DOMAIN s : s[i] # x,
         x.kind = "mark" =>
           /\ x.n \in 0..MaxFrames /\ x.utt > 0
           /\ x.n > 0 => \E i \in DOMAIN s : s[i] = Line!Frame(x.utt, x.n)
           /\ \A i \in DOMAIN s : s[i] # Line!Frame(x.utt, x.n + 1),
         x.kind = "clear" => x = Cleared,
         \A i \in DOMAIN s : s[i].kind = "mark" => s[i].utt # x.utt
  PROVE  Orderly(t)
<1> DEFINE e == Len(s) + 1
<1>s. s \in Seq(Carriable)
  BY DEF Orderly
<1>d. /\ e \in DOMAIN t /\ t[e] = x
      /\ \A i \in DOMAIN s : i \in DOMAIN t /\ t[i] = s[i] /\ i < e /\ ~(e < i) /\ i # e
      /\ \A i \in DOMAIN t : i \in DOMAIN s \/ i = e
      /\ ~(e < e)
  BY <1>s, Extended DEF Extends
<1> HIDE DEF e
<1>1. InTurn(t)
  <2> SUFFICES ASSUME NEW i \in DOMAIN t, NEW j \in DOMAIN t, i < j, t[j].kind # "clear"
               PROVE  t[i].utt <= t[j].utt
    BY DEF InTurn
  <2>1. i \in DOMAIN s
    BY <1>d
  <2> QED
    BY <1>d, <2>1 DEF Orderly, InTurn
<1>2. Framed(t)
  <2> SUFFICES ASSUME NEW j \in DOMAIN t, t[j].kind = "audio"
               PROVE  /\ t[j].n \in 1..MaxFrames /\ t[j].utt > 0
                      /\ t[j].n > 1 => \E i \in DOMAIN t :
                                         i < j /\ t[i] = Line!Frame(t[j].utt, t[j].n - 1)
                      /\ \A i \in DOMAIN t : i < j => t[i] # t[j]
    BY DEF Framed
  <2>1. CASE j = e
    BY <1>d, <2>1
  <2>2. CASE j \in DOMAIN s
    BY <1>d, <2>2 DEF Orderly, Framed
  <2> QED
    BY <1>d, <2>1, <2>2
<1>3. Fenced(t)
  <2> SUFFICES ASSUME NEW j \in DOMAIN t, t[j].kind = "mark"
               PROVE  /\ t[j].n \in 0..MaxFrames /\ t[j].utt > 0
                      /\ t[j].n > 0 => \E i \in DOMAIN t :
                                         i < j /\ t[i] = Line!Frame(t[j].utt, t[j].n)
                      /\ \A i \in DOMAIN t : i < j => t[i] # Line!Frame(t[j].utt, t[j].n + 1)
                      /\ \A i \in DOMAIN t : i > j => t[i].utt # t[j].utt
    BY DEF Fenced
  <2>1. CASE j = e
    BY <1>d, <2>1
  <2>2. CASE j \in DOMAIN s
    <3>1. \A i \in DOMAIN t : i > j => t[i].utt # t[j].utt
      <4> SUFFICES ASSUME NEW i \in DOMAIN t, i > j PROVE t[i].utt # t[j].utt
        OBVIOUS
      <4>1. CASE i = e
        BY <1>d, <2>2, <4>1
      <4>2. CASE i \in DOMAIN s
        BY <1>d, <2>2, <4>2 DEF Orderly, Fenced
      <4> QED
        BY <1>d, <4>1, <4>2
    <3> QED
      BY <1>d, <2>2, <3>1 DEF Orderly, Fenced
  <2> QED
    BY <1>d, <2>1, <2>2
<1>4. Silences(t)
  BY <1>d DEF Orderly, Silences
<1> QED
  BY <1>1, <1>2, <1>3, <1>4 DEF Orderly

LEMMA SameGiven ==
  ASSUME UNCHANGED <<played, air>>
  PROVE  Given' = Given
BY DEF Given

\* What is carried leaves the way and joins what was carried.
LEMMA CarriedGiven ==
  ASSUME AudioTypes, air # <<>>, air' = Tail(air), played' = Append(played, Carried(Head(air)))
  PROVE  Given' = Given /\ played' \in Seq(Carriable) /\ air' \in Seq(Sounds)
<1>1. /\ Len(played) \in Nat /\ Len(air) \in Nat /\ Len(air) > 0 /\ Head(air) = air[1]
      /\ Len(air') = Len(air) - 1 /\ \A i \in 1..Len(air') : air'[i] = air[i + 1]
  BY DEF AudioTypes
<1>2. Carried(Head(air)) \in Carriable /\ air' \in Seq(Sounds)
  <2>1. air[1] \in Sounds /\ Tail(air) \in Seq(Sounds)
    BY <1>1 DEF AudioTypes
  <2> QED
    BY <1>1, <2>1 DEF Sounds, Carried, Carriable
<1>3. /\ played' \in Seq(Carriable) /\ Len(played') = Len(played) + 1
      /\ \A i \in 1..Len(played) : played'[i] = played[i]
      /\ played'[Len(played) + 1] = Carried(air[1])
  BY <1>1, <1>2 DEF AudioTypes
<1>4. Len(played') + Len(air') = Len(played) + Len(air)
  BY <1>1, <1>3
<1>5. ASSUME NEW i \in 1..(Len(played) + Len(air))
      PROVE  (IF i <= Len(played') THEN played'[i] ELSE Carried(air'[i - Len(played')]))
               = (IF i <= Len(played) THEN played[i] ELSE Carried(air[i - Len(played)]))
  <2>1. CASE i <= Len(played)
    BY <1>1, <1>3, <2>1
  <2>2. CASE i = Len(played) + 1
    <3>1. i <= Len(played') /\ ~(i <= Len(played)) /\ i - Len(played) = 1
      BY <1>1, <1>3, <2>2
    <3> QED
      BY <1>3, <2>2, <3>1
  <2>3. CASE i > Len(played) + 1
    <3>1. ~(i <= Len(played')) /\ ~(i <= Len(played))
          /\ i - Len(played') \in 1..Len(air') /\ (i - Len(played')) + 1 = i - Len(played)
      BY <1>1, <1>3, <2>3
    <3> QED
      BY <1>1, <3>1
  <2> QED
    BY <1>1, <2>1, <2>2, <2>3
<1> QED
  BY <1>2, <1>3, <1>4, <1>5 DEF Given, Carried

\* What is accepted is given last.
LEMMA AcceptedGiven ==
  ASSUME AudioTypes, NEW x \in Sounds, air' = Append(air, x), played' = played
  PROVE  Given' \in Seq(Carriable) /\ Extends(Given', Given, Carried(x))
<1>1. /\ Len(played) \in Nat /\ Len(air) \in Nat /\ air' \in Seq(Sounds)
      /\ Len(air') = Len(air) + 1 /\ air'[Len(air) + 1] = x
      /\ \A i \in 1..Len(air) : air'[i] = air[i]
  BY DEF AudioTypes
<1>2. Given \in Seq(Carriable) /\ Len(Given) = Len(played) + Len(air)
      /\ DOMAIN Given = 1..(Len(played) + Len(air))
  BY GivenIsSeq
<1>3. Carried(x) \in Carriable
  BY DEF Sounds, Carried, Carriable
<1>4. Given' = [i \in 1..(Len(played) + (Len(air) + 1)) |->
                  IF i <= Len(played) THEN played[i] ELSE Carried(air'[i - Len(played)])]
  BY <1>1 DEF Given, Carried
<1>5. \A i \in 1..(Len(played) + Len(air)) : Given'[i] = Given[i]
  <2> TAKE i \in 1..(Len(played) + Len(air))
  <2>0. i \in 1..(Len(played) + (Len(air) + 1))
    BY <1>1
  <2>1. CASE i <= Len(played)
    BY <1>4, <2>0, <2>1 DEF Given
  <2>2. CASE ~(i <= Len(played))
    <3>1. i - Len(played) \in 1..Len(air)
      BY <1>1, <2>2
    <3> QED
      BY <1>1, <1>4, <2>0, <2>2, <3>1 DEF Given
  <2> QED
    BY <2>1, <2>2
<1>6. Given'[Len(played) + Len(air) + 1] = Carried(x)
  <2> DEFINE e == Len(played) + Len(air) + 1
  <2>1. e \in 1..(Len(played) + (Len(air) + 1)) /\ ~(e <= Len(played))
        /\ e - Len(played) = Len(air) + 1
    BY <1>1
  <2> QED
    BY <1>1, <1>4, <2>1
<1>7. Given' \in Seq(Carriable) /\ Len(Given') = Len(played) + Len(air) + 1
  <2>1. \A i \in 1..(Len(played) + (Len(air) + 1)) : Given'[i] \in Carriable
    <3> TAKE i \in 1..(Len(played) + (Len(air) + 1))
    <3>1. i \in 1..(Len(played) + Len(air)) \/ i = Len(played) + Len(air) + 1
      BY <1>1
    <3> QED
      BY <1>2, <1>3, <1>5, <1>6, <3>1
  <2>2. Given' = [i \in 1..(Len(played) + (Len(air) + 1)) |-> Given'[i]]
    BY <1>4
  <2> QED
    BY <1>1, <2>1, <2>2
<1> QED
  BY <1>1, <1>2, <1>5, <1>6, <1>7 DEF Extends

\* The line is emptied: what was carried is all that was given, and the clear.
LEMMA EmptiedGiven ==
  ASSUME AudioTypes, air' = <<>>, played' \in Seq(Carriable)
  PROVE  Given' = played'
<1>1. Len(air') = 0 /\ Len(played') \in Nat /\ played' = [i \in 1..Len(played') |-> played'[i]]
  OBVIOUS
<1>2. Given' = [i \in 1..(Len(played') + Len(air')) |->
                  IF i <= Len(played') THEN played'[i] ELSE Carried(air'[i - Len(played')])]
  BY DEF Given, Carried
<1>3. Len(played') + Len(air') = Len(played') /\ \A i \in 1..Len(played') : i <= Len(played')
  BY <1>1
<1> QED
  BY <1>1, <1>2, <1>3

LEMMA PlayedBegins ==
  ASSUME AudioTypes
  PROVE  Begins(played, Given)
<1>1. Len(played) \in Nat /\ Len(air) \in Nat
  BY DEF AudioTypes
<1> QED
  BY <1>1, GivenIsSeq DEF Begins

----------------------------------------------------------------------------
(* The history is kept by every step                                       *)

\* What the step lemmas below have in common.
LEMMA KeptAudio ==
  ASSUME AudioInv, SentInv', SilentInv', mediaClosed' \in BOOLEAN, played' \in Seq(Carriable),
         Orderly(Given'), \A i \in DOMAIN Given' : Given'[i].utt <= speakGen',
         mediaClosed' => air' = <<>>, r'.pc = "synth" => speakGen' > 0,
         r'.pc = "synth" /\ Accepted' =>
           /\ \A i \in DOMAIN Given' :
                Given'[i].utt = speakGen' => Given'[i].kind = "audio" /\ Given'[i].n <= r'.sent
           /\ \A n \in 1..r'.sent : \E i \in DOMAIN Given' : Given'[i] = Line!Frame(speakGen', n)
  PROVE  AudioInv'
<1>1. AudioTypes'
  BY DEF AudioTypes, SilentInv
<1>2. Orderly(Given)'
  BY DEF Orderly, InTurn, Framed, Fenced, Silences, Line!Frame, Cleared
<1>3. (r.pc = "synth" /\ Accepted => Underway(Given))'
  BY DEF Underway, Line!Frame
<1> QED
  BY <1>1, <1>2, <1>3 DEF AudioInv

LEMMA QuietsAudio ==
  ASSUME AudioInv, SentInv', SilentInv', Quiets, UNCHANGED played
  PROVE  AudioInv'
<1>1. Given' = Given /\ Orderly(Given) /\ \A i \in DOMAIN Given : Given[i].utt <= speakGen
  BY SameGiven DEF Quiets, AudioInv
<1>2. r'.pc = "synth" /\ Accepted' => /\ r.pc = "synth" /\ Accepted
                                      /\ r'.sent = r.sent /\ speakGen' = speakGen
  BY DEF Quiets, Accepted
<1>3. /\ mediaClosed' = mediaClosed /\ mediaClosed \in BOOLEAN /\ played \in Seq(Carriable)
      /\ mediaClosed => air = <<>>
      /\ air' = air /\ speakGen' = speakGen
      /\ r'.pc = "synth" => speakGen > 0
  BY DEF AudioInv, AudioTypes, Quiets
<1>4. r'.pc = "synth" /\ Accepted' => Underway(Given)
  BY <1>2 DEF AudioInv
<1> QED
  BY <1>1, <1>2, <1>3, <1>4, KeptAudio DEF Underway

LEMMA SpeaksAudio ==
  ASSUME AudioInv, SentInv', SilentInv', Speaks, UNCHANGED played
  PROVE  AudioInv'
<1>1. Given' = Given /\ Orderly(Given) /\ \A i \in DOMAIN Given : Given[i].utt <= speakGen
  BY SameGiven DEF Speaks, AudioInv
<1>2. /\ mediaClosed' = mediaClosed /\ mediaClosed \in BOOLEAN /\ played \in Seq(Carriable)
      /\ mediaClosed => air = <<>>
      /\ air' = air /\ speakGen' = speakGen + 1 /\ speakGen \in Nat /\ r'.sent = 0
  BY DEF AudioInv, AudioTypes, Speaks
<1>3. \A i \in DOMAIN Given : Given[i].utt \in Nat
  <2>1. Given \in Seq(Carriable)
    BY <1>1 DEF Orderly
  <2>2. \A i \in DOMAIN Given : Given[i] \in Carriable
    BY <2>1
  <2> QED
    BY <2>2 DEF Carriable
<1>4. \A i \in DOMAIN Given' : Given'[i].utt < speakGen' /\ Given'[i].utt <= speakGen'
                               /\ Given'[i].utt # speakGen'
  BY <1>1, <1>2, <1>3
<1>5. 1..r'.sent = {} /\ speakGen' > 0
  BY <1>2
<1> QED
  BY <1>1, <1>2, <1>4, <1>5, KeptAudio

\* What a running synthesis hands over, when the port takes it.
LEMMA HandsOver ==
  ASSUME AudioInv, r.pc = "synth", Accepted
  PROVE  /\ r.sent \in Nat /\ MaxFrames \in Nat /\ r.sent <= MaxFrames
         /\ speakGen \in Nat /\ speakGen > 0 /\ gen \in Nat
         /\ AudioTypes /\ Orderly(Given) /\ Given \in Seq(Carriable)
         /\ ~mediaClosed /\ played \in Seq(Carriable)
         /\ \A i \in DOMAIN Given : /\ Given[i] \in Carriable /\ Given[i].utt <= speakGen
                                    /\ Given[i].kind = "mark" => Given[i].utt # speakGen
                                    /\ Given[i].utt = speakGen => Given[i].n <= r.sent
         /\ Underway(Given)
<1>1. /\ SentInv /\ SilentInv /\ AudioTypes /\ Orderly(Given) /\ Underway(Given)
      /\ speakGen > 0 /\ MaxFrames \in Nat
      /\ \A i \in DOMAIN Given : Given[i].utt <= speakGen
  BY ConstantsAssumption DEF AudioInv
<1>2. Given \in Seq(Carriable)
  BY <1>1 DEF Orderly
<1>3. \A i \in DOMAIN Given : Given[i] \in Carriable
  BY <1>2
<1>4. r.sent \in 0..MaxFrames
  BY <1>1 DEF SentInv
<1>5. gen \in Nat /\ speakGen \in Nat /\ played \in Seq(Carriable)
  BY <1>1 DEF SilentInv, AudioTypes
<1>6. \A i \in DOMAIN Given : Given[i].utt = speakGen => Given[i].kind = "audio"
                                                         /\ Given[i].n <= r.sent
  BY <1>1 DEF Underway
<1> QED
  BY <1>1, <1>2, <1>3, <1>4, <1>5, <1>6 DEF Accepted

LEMMA FramesAudio ==
  ASSUME AudioInv, SentInv', SilentInv', Frames, UNCHANGED played
  PROVE  AudioInv'
<1>0. /\ r.pc = "synth" /\ r.sent < MaxFrames /\ r'.pc = "synth" /\ r'.sent = r.sent + 1
      /\ speakGen' = speakGen /\ mediaClosed' = mediaClosed /\ (Accepted' <=> Accepted)
  BY DEF Frames, Accepted
<1>i. /\ Orderly(Given) /\ \A i \in DOMAIN Given : Given[i].utt <= speakGen
      /\ mediaClosed \in BOOLEAN /\ played' \in Seq(Carriable)
      /\ mediaClosed => air = <<>>
      /\ speakGen > 0
  BY <1>0 DEF AudioInv, AudioTypes
<1>1. CASE ~Accepted
  <2>1. air' = air /\ Given' = Given
    BY <1>1, SameGiven DEF Frames
  <2> QED
    BY <1>0, <1>1, <1>i, <2>1, KeptAudio
<1>2. CASE Accepted
  <2> DEFINE x == Sound("audio", r.sent + 1)
             f == Line!Frame(speakGen, r.sent + 1)
  <2>0. /\ r.sent \in Nat /\ MaxFrames \in Nat /\ speakGen \in Nat /\ gen \in Nat
        /\ AudioTypes /\ Given \in Seq(Carriable) /\ ~mediaClosed /\ Underway(Given)
        /\ \A i \in DOMAIN Given : /\ Given[i] \in Carriable
                                   /\ Given[i].kind = "mark" => Given[i].utt # speakGen
                                   /\ Given[i].utt = speakGen => Given[i].n <= r.sent
    BY <1>0, <1>2, HandsOver
  <2>1. x \in Sounds /\ air' = Append(air, x) /\ Carried(x) = f
    BY <1>2, <2>0 DEF Frames, Sound, Sounds, Carried, Line!Frame
  <2>2. /\ f \in Carriable /\ f.kind = "audio" /\ f.utt = speakGen /\ f.n = r.sent + 1
        /\ f.n \in 1..MaxFrames /\ f.n - 1 = r.sent
    <3>1. r.sent + 1 \in Nat /\ r.sent + 1 \in 1..MaxFrames /\ (r.sent + 1) - 1 = r.sent
      BY <1>0, <2>0
    <3> QED
      BY <2>0, <3>1 DEF Carriable, Line!Frame
  <2> HIDE DEF x, f
  <2>3. Given' \in Seq(Carriable) /\ Extends(Given', Given, f)
    BY <2>0, <2>1, AcceptedGiven
  <2>4. \A i \in DOMAIN Given : Given[i] # f
    BY <2>0, <2>2
  <2>5. f.n > 1 => \E i \in DOMAIN Given : Given[i] = Line!Frame(f.utt, f.n - 1)
    BY <2>0, <2>2 DEF Underway
  <2>6. Orderly(Given')
    BY <1>i, <2>0, <2>2, <2>3, <2>4, <2>5, LongerOrderly
  <2>7. /\ DOMAIN Given' = 1..(Len(Given) + 1) /\ Len(Given) + 1 \in DOMAIN Given'
        /\ Given'[Len(Given) + 1] = f
        /\ \A i \in DOMAIN Given : i \in DOMAIN Given' /\ Given'[i] = Given[i]
        /\ \A i \in DOMAIN Given' : Given'[i] = f \/ (i \in DOMAIN Given /\ Given'[i] = Given[i])
    BY <2>0, <2>3, Extended DEF Extends
  <2>8. \A i \in DOMAIN Given' : /\ Given'[i].utt <= speakGen'
                                 /\ Given'[i].utt = speakGen' =>
                                      Given'[i].kind = "audio" /\ Given'[i].n <= r'.sent
    <3> TAKE i \in DOMAIN Given'
    <3>1. CASE Given'[i] = f
      BY <1>0, <2>0, <2>2, <3>1
    <3>2. CASE i \in DOMAIN Given /\ Given'[i] = Given[i]
      <4>0. Given[i] \in Carriable
        BY <2>0, <3>2
      <4>1. Given[i].n \in Nat
        BY <4>0 DEF Carriable
      <4>2. Given[i].utt = speakGen => Given[i].kind = "audio" /\ Given[i].n <= r.sent
        BY <2>0, <3>2 DEF Underway
      <4> QED
        BY <1>0, <1>i, <2>0, <3>2, <4>1, <4>2
    <3> QED
      BY <2>7, <3>1, <3>2
  <2>9. \A n \in 1..r'.sent : \E i \in DOMAIN Given' : Given'[i] = Line!Frame(speakGen', n)
    <3> TAKE n \in 1..r'.sent
    <3>1. CASE n = r.sent + 1
      BY <1>0, <2>7, <3>1 DEF f
    <3>2. CASE n \in 1..r.sent
      <4>1. PICK i \in DOMAIN Given : Given[i] = Line!Frame(speakGen, n)
        BY <2>0, <3>2 DEF Underway
      <4> QED
        BY <1>0, <2>7, <4>1
    <3> QED
      BY <1>0, <2>0, <3>1, <3>2
  <2> QED
    BY <1>0, <1>i, <2>0, <2>6, <2>8, <2>9, KeptAudio
<1> QED
  BY <1>1, <1>2

LEMMA MarksAudio ==
  ASSUME AudioInv, SentInv', SilentInv', Marks, UNCHANGED played
  PROVE  AudioInv'
<1>0. /\ r.pc = "synth" /\ r'.pc = "play"
      /\ speakGen' = speakGen /\ mediaClosed' = mediaClosed
  BY DEF Marks
<1>i. /\ Orderly(Given) /\ \A i \in DOMAIN Given : Given[i].utt <= speakGen
      /\ mediaClosed \in BOOLEAN /\ played' \in Seq(Carriable)
      /\ mediaClosed => air = <<>>
      /\ speakGen > 0
  BY <1>0 DEF AudioInv, AudioTypes
<1>1. CASE ~Accepted
  <2>1. air' = air /\ Given' = Given
    BY <1>1, SameGiven DEF Marks
  <2> QED
    BY <1>0, <1>i, <2>1, KeptAudio
<1>2. CASE Accepted
  <2> DEFINE x == Sound("mark", r.sent)
             f == Line!Fence(speakGen, r.sent)
  <2>0. /\ r.sent \in Nat /\ MaxFrames \in Nat /\ r.sent <= MaxFrames
        /\ speakGen \in Nat /\ gen \in Nat
        /\ AudioTypes /\ Given \in Seq(Carriable) /\ ~mediaClosed /\ Underway(Given)
        /\ \A i \in DOMAIN Given : /\ Given[i].kind = "mark" => Given[i].utt # speakGen
                                   /\ Given[i].utt = speakGen => Given[i].n <= r.sent
    BY <1>0, <1>2, HandsOver
  <2>1. x \in Sounds /\ air' = Append(air, x) /\ Carried(x) = f
    BY <1>2, <2>0 DEF Marks, Sound, Sounds, Carried, Line!Fence
  <2>2. /\ f \in Carriable /\ f.kind = "mark" /\ f.utt = speakGen /\ f.n = r.sent
        /\ f.n \in 0..MaxFrames
    BY <2>0 DEF Carriable, Line!Fence
  <2> HIDE DEF x, f
  <2>3. Given' \in Seq(Carriable) /\ Extends(Given', Given, f)
    BY <2>0, <2>1, AcceptedGiven
  <2>4. \A i \in DOMAIN Given : Given[i] # Line!Frame(f.utt, f.n + 1)
    BY <2>0, <2>2 DEF Line!Frame
  <2>5. f.n > 0 => \E i \in DOMAIN Given : Given[i] = Line!Frame(f.utt, f.n)
    BY <2>0, <2>2 DEF Underway
  <2>6. Orderly(Given')
    BY <1>i, <2>0, <2>2, <2>3, <2>4, <2>5, LongerOrderly
  <2>7. \A i \in DOMAIN Given' : Given'[i].utt <= speakGen'
    BY <1>0, <1>i, <2>0, <2>2, <2>3, Extended
  <2> QED
    BY <1>0, <1>i, <2>0, <2>6, <2>7, KeptAudio
<1> QED
  BY <1>1, <1>2

LEMMA PlaysAudio ==
  ASSUME AudioInv, SentInv', SilentInv', Plays, played' = Append(played, Carried(Head(air)))
  PROVE  AudioInv'
<1>1. /\ AudioTypes /\ Orderly(Given) /\ \A i \in DOMAIN Given : Given[i].utt <= speakGen
      /\ mediaClosed \in BOOLEAN /\ air # <<>> /\ ~mediaClosed
      /\ mediaClosed' = mediaClosed /\ speakGen' = speakGen /\ r' = r /\ air' = Tail(air)
      /\ r.pc = "synth" => speakGen > 0
  BY DEF AudioInv, AudioTypes, Plays
<1>2. Given' = Given /\ played' \in Seq(Carriable)
  BY <1>1, CarriedGiven
<1>3. r'.pc = "synth" /\ Accepted' => Underway(Given)
  BY <1>1 DEF AudioInv, Plays, Accepted
<1> QED
  BY <1>1, <1>2, <1>3, KeptAudio DEF Underway

\* After a flush the port takes nothing more of what is synthesised.
LEMMA Stale ==
  ASSUME AudioInv, epoch' = epoch + 1, r' = r, r.pc = "synth"
  PROVE  ~Accepted'
<1>1. r.epoch \in 0..epoch /\ epoch \in Nat
  BY DEF AudioInv, SilentInv, InSpeak
<1> QED
  BY <1>1 DEF Accepted

LEMMA ClearsAudio ==
  ASSUME AudioInv, SentInv', SilentInv', Clears,
         played' = IF mediaClosed THEN played ELSE Append(played, Cleared)
  PROVE  AudioInv'
<1>1. /\ AudioTypes /\ Orderly(Given) /\ \A i \in DOMAIN Given : Given[i].utt <= speakGen
      /\ played \in Seq(Carriable) /\ speakGen \in Nat
      /\ mediaClosed \in BOOLEAN /\ (mediaClosed => air = <<>>) /\ air' = <<>>
      /\ mediaClosed' = mediaClosed /\ speakGen' = speakGen /\ r' = r
      /\ r.pc = "synth" => speakGen > 0
  BY DEF AudioInv, AudioTypes, Clears
<1>2. ~(r'.pc = "synth" /\ Accepted')
  BY <1>1, Stale DEF Clears
<1>3. CASE mediaClosed
  <2>1. Given' = Given /\ played' = played
    BY <1>1, <1>3, SameGiven
  <2> QED
    BY <1>1, <1>2, <2>1, KeptAudio
<1>4. CASE ~mediaClosed
  <2>0. /\ Begins(played, Given) /\ Orderly(played)
        /\ \A i \in DOMAIN played : played[i].utt <= speakGen
    <3>1. Begins(played, Given)
      BY <1>1, PlayedBegins
    <3>2. Orderly(played)
      BY <1>1, <3>1, BeginningOrderly
    <3> QED
      BY <1>1, <3>1, <3>2 DEF Begins
  <2>1. /\ Cleared \in Carriable /\ Cleared.kind = "clear" /\ Cleared.utt = 0
        /\ played' = Append(played, Cleared)
    BY <1>4 DEF Cleared, Carriable
  <2>2. played' \in Seq(Carriable) /\ Extends(played', played, Cleared)
    <3> HIDE DEF Cleared
    <3> QED
      BY <1>1, <2>1 DEF Extends
  <2>3. Given' = played'
    BY <1>1, <2>2, EmptiedGiven
  <2>4. \A i \in DOMAIN played : played[i].kind = "mark" => played[i].utt # Cleared.utt
    BY <2>0, <2>1 DEF Orderly, Fenced
  <2>5. Orderly(played')
    BY <2>0, <2>1, <2>2, <2>4, LongerOrderly
  <2>6. \A i \in DOMAIN Given' : Given'[i].utt <= speakGen'
    BY <1>1, <2>0, <2>1, <2>2, <2>3, Extended
  <2> QED
    BY <1>1, <1>2, <1>4, <2>2, <2>3, <2>5, <2>6, KeptAudio
<1> QED
  BY <1>3, <1>4

LEMMA DiesAudio ==
  ASSUME AudioInv, SentInv', SilentInv', Dies, UNCHANGED played
  PROVE  AudioInv'
<1>1. /\ AudioTypes /\ Orderly(Given) /\ \A i \in DOMAIN Given : Given[i].utt <= speakGen
      /\ played \in Seq(Carriable) /\ played' = played
      /\ mediaClosed' \in BOOLEAN /\ air' = <<>> /\ speakGen' = speakGen /\ r' = r
      /\ r.pc = "synth" => speakGen > 0
  BY DEF AudioInv, AudioTypes, Dies
<1>2. ~(r'.pc = "synth" /\ Accepted')
  BY <1>1, Stale DEF Dies
<1>3. Given' = played /\ Begins(played, Given)
  BY <1>1, EmptiedGiven, PlayedBegins
<1>4. Orderly(played) /\ \A i \in DOMAIN played : played[i].utt <= speakGen
  BY <1>1, <1>3, BeginningOrderly DEF Begins
<1> QED
  BY <1>1, <1>2, <1>3, <1>4, KeptAudio

\* What the line carries in a step of each kind.
LEMMA StepCarries ==
  ASSUME AudioInv, [AudioNext]_audioVars
  PROVE  /\ SentInv' /\ SilentInv'
         /\ \/ (Speaks \/ Quiets \/ Frames \/ Marks \/ Dies) /\ UNCHANGED played
            \/ Plays /\ played' = Append(played, Carried(Head(air)))
            \/ Clears /\ played' = IF mediaClosed THEN played ELSE Append(played, Cleared)
<1>1. [Next]_vars /\ (Carries \/ UNCHANGED <<vars, played>>)
  BY DEF AudioNext, audioVars
<1>2. /\ SentInv /\ SilentInv /\ Placed(r) /\ epoch \in Nat /\ air \in Seq(Sounds)
      /\ mediaClosed \in BOOLEAN /\ gen \in Nat /\ speakGen \in Nat
      /\ Len(air) \in Nat /\ (mediaClosed => air = <<>>)
  BY DEF AudioInv, SentInv, SilentInv, AudioTypes
<1>3. SentInv' /\ SilentInv' /\ OneSound
  BY <1>1, <1>2, SentStep, SilentStep, StepSounds
<1>4. CASE UNCHANGED <<vars, played>>
  <2>1. Quiets
    BY <1>4 DEF vars, speakVars, mediaVars, Quiets
  <2> QED
    BY <1>3, <1>4, <2>1
<1>5. CASE Carries
  <2>1. CASE Speaks \/ Quiets
    <3>1. epoch' = epoch /\ air' = air /\ ~(Len(air') < Len(air))
      BY <1>2, <2>1 DEF Speaks, Quiets
    <3> QED
      BY <1>3, <1>5, <2>1, <3>1 DEF Carries
  <2>2. CASE Frames \/ Marks
    <3>1. epoch' = epoch /\ ~(Len(air') < Len(air))
      <4>1. /\ epoch' = epoch
            /\ \/ air' = air \/ air' = Append(air, Sound("audio", r.sent + 1))
               \/ air' = Append(air, Sound("mark", r.sent))
        BY <2>2 DEF Frames, Marks
      <4>2. \A x : Len(Append(air, x)) = Len(air) + 1
        BY <1>2
      <4> QED
        BY <1>2, <4>1, <4>2
    <3> QED
      BY <1>3, <1>5, <2>2, <3>1 DEF Carries
  <2>3. CASE Plays
    <3>1. epoch' = epoch /\ Len(air') < Len(air)
      BY <1>2, <2>3 DEF Plays
    <3> QED
      BY <1>3, <1>5, <2>3, <3>1 DEF Carries
  <2>4. CASE Clears
    <3>1. epoch' # epoch /\ mediaClosed' = mediaClosed
      BY <1>2, <2>4 DEF Clears
    <3> QED
      BY <1>3, <1>5, <2>4, <3>1 DEF Carries
  <2>5. CASE Dies
    <3>1. epoch' # epoch /\ mediaClosed' = TRUE
      BY <1>2, <2>5 DEF Dies
    <3> QED
      BY <1>3, <1>5, <2>5, <3>1 DEF Carries
  <2> QED
    BY <1>3, <2>1, <2>2, <2>3, <2>4, <2>5 DEF OneSound
<1> QED
  BY <1>1, <1>4, <1>5

LEMMA AudioStep == AudioInv /\ [AudioNext]_audioVars => AudioInv'
BY StepCarries, SpeaksAudio, QuietsAudio, FramesAudio, MarksAudio, DiesAudio, PlaysAudio,
   ClearsAudio

LEMMA InitAudio == AudioInit => AudioInv
<1> SUFFICES ASSUME AudioInit PROVE AudioInv
  OBVIOUS
<1>1. Init /\ played = <<>> /\ air = <<>> /\ speakGen = 0 /\ epoch = 0 /\ mediaClosed = FALSE
  BY DEF AudioInit, Init
<1>2. SentInv /\ SilentInv /\ r.pc = "none"
  BY <1>1, InitSent, InitSilent DEF Init, NewResponse
<1>3. AudioTypes
  <2>1. air \in Seq(Sounds) /\ played \in Seq(Carriable)
    BY <1>1
  <2>2. speakGen \in Nat /\ epoch \in Nat /\ mediaClosed \in BOOLEAN
    BY <1>1
  <2> QED
    BY <2>1, <2>2 DEF AudioTypes
<1>4. Given = <<>>
  BY <1>1 DEF Given
<1>5. Orderly(Given)
  BY <1>4 DEF Orderly, InTurn, Framed, Fenced, Silences
<1> QED
  BY <1>1, <1>2, <1>3, <1>4, <1>5 DEF AudioInv

----------------------------------------------------------------------------
(* Every step is a step of Playback                                        *)

LEMMA SpeaksBegin ==
  ASSUME AudioInv, Speaks, UNCHANGED played
  PROVE  Line!Begin
<1>1. /\ speakGen' = speakGen + 1 /\ mediaClosed' = mediaClosed /\ air' = air
      /\ (Accepted' => ~mediaClosed)
  BY DEF Speaks, Accepted
<1>2. Sounding' \subseteq Sounding \cup (IF ~mediaClosed THEN {speakGen + 1} ELSE {})
  BY <1>1 DEF Sounding
<1> QED
  BY <1>1, <1>2 DEF Line!Begin

LEMMA QuietsAbandon ==
  ASSUME AudioInv, Quiets \/ Frames \/ Marks, UNCHANGED played
  PROVE  Line!Abandon
<1>1. /\ speakGen' = speakGen /\ mediaClosed' = mediaClosed /\ epoch' = epoch
      /\ (r'.pc = "synth" => r.pc = "synth" /\ r'.epoch = r.epoch)
  BY DEF Quiets, Frames, Marks
<1>2. r'.pc = "synth" /\ Accepted' => r.pc = "synth" /\ Accepted
  BY <1>1 DEF Accepted
<1>3. \A i \in DOMAIN air' : air'[i].speak \in Sounding
  <2>1. air \in Seq(Sounds) /\ \A i \in DOMAIN air : air[i].speak \in Sounding
    BY DEF AudioInv, AudioTypes, Sounding
  <2>2. CASE air' = air
    BY <2>1, <2>2
  <2>3. CASE Accepted /\ r.pc = "synth" /\ \E kind, n : air' = Append(air, Sound(kind, n))
    <3>1. PICK kind, n : air' = Append(air, Sound(kind, n))
      BY <2>3
    <3>2. Sound(kind, n).speak \in Sounding
      BY <2>3 DEF Sound, Sounding
    <3> HIDE DEF Sound, Sounding
    <3>3. \A i \in DOMAIN air' : (i \in DOMAIN air /\ air'[i] = air[i]) \/ air'[i] = Sound(kind, n)
      BY <2>1, <3>1
    <3> QED
      BY <2>1, <3>2, <3>3
  <2> QED
    BY <2>2, <2>3 DEF Quiets, Frames, Marks
<1>4. Sounding' \subseteq Sounding
  BY <1>1, <1>2, <1>3 DEF Sounding
<1> QED
  BY <1>1, <1>4 DEF Line!Abandon

LEMMA DiesCloses ==
  ASSUME AudioInv, Dies, UNCHANGED played
  PROVE  Line!Close
<1>1. air' = <<>> /\ ~(r'.pc = "synth" /\ Accepted')
  BY Stale DEF Dies
<1>2. Sounding' = {}
  BY <1>1 DEF Sounding
<1> QED
  BY <1>2 DEF Line!Close, Dies

LEMMA ClearsInterrupt ==
  ASSUME AudioInv, Clears,
         played' = IF mediaClosed THEN played ELSE Append(played, Cleared)
  PROVE  Line!Interrupt \/ Line!Abandon
<1>1. air' = <<>> /\ ~(r'.pc = "synth" /\ Accepted') /\ UNCHANGED <<speakGen, mediaClosed>>
  BY Stale DEF Clears
<1>2. Sounding' = {}
  BY <1>1 DEF Sounding
<1>3. CASE mediaClosed
  BY <1>1, <1>2, <1>3 DEF Line!Abandon
<1>4. CASE ~mediaClosed
  BY <1>1, <1>2, <1>4 DEF Line!Interrupt, Line!Silence, Cleared
<1> QED
  BY <1>3, <1>4

LEMMA PlaysPlay ==
  ASSUME AudioInv, Plays, played' = Append(played, Carried(Head(air)))
  PROVE  \E u \in Sounding, n \in 0..MaxFrames : Line!Play(u, n) \/ Line!End(u, n)
<1> DEFINE k == Len(played) + 1
           h == Head(air)
<1>1. /\ AudioTypes /\ Orderly(Given) /\ air # <<>> /\ ~mediaClosed /\ air' = Tail(air)
      /\ UNCHANGED <<r, speakGen, mediaClosed, epoch>>
      /\ speakGen \in Nat /\ played \in Seq(Carriable) /\ air \in Seq(Sounds)
  BY DEF AudioInv, AudioTypes, Plays
<1>2. /\ Len(played) \in Nat /\ Len(air) \in Nat /\ 1 \in DOMAIN air /\ h = air[1] /\ h \in Sounds
      /\ Len(air') = Len(air) - 1
      /\ \A i \in DOMAIN air' : air'[i] = air[i + 1] /\ i + 1 \in DOMAIN air /\ i \in Nat /\ i > 0
  BY <1>1
<1>3. /\ k \in DOMAIN Given /\ Given[k] = Carried(h)
      /\ \A i \in DOMAIN played : i \in DOMAIN Given /\ Given[i] = played[i] /\ i < k
      /\ \A i \in DOMAIN Given : i < k => i \in DOMAIN played
      /\ \A i \in DOMAIN air' : /\ k + i \in DOMAIN Given /\ k + i > k
                                /\ Given[k + i] = Carried(air'[i])
  <2>1. k + 0 = k /\ \A i \in Nat : Len(played) + (i + 1) = k + i /\ (i > 0 => k + i > k)
    BY <1>2
  <2>2. \A i \in DOMAIN air' : /\ k + i \in DOMAIN Given
                               /\ Given[k + i] = Carried(air'[i])
    <3> TAKE i \in DOMAIN air'
    <3>1. i + 1 \in DOMAIN air /\ air'[i] = air[i + 1] /\ Len(played) + (i + 1) = k + i
      BY <1>2, <2>1
    <3>2. Given[Len(played) + (i + 1)] = Carried(air[i + 1])
          /\ Len(played) + (i + 1) \in DOMAIN Given
      BY <1>1, <3>1, GivenIsSeq
    <3> QED
      BY <3>1, <3>2
  <2>3. k \in DOMAIN Given /\ Given[k] = Carried(h)
    BY <1>1, <1>2, GivenIsSeq
  <2>4. /\ DOMAIN played = 1..Len(played)
        /\ \A i \in DOMAIN played : i \in DOMAIN Given /\ Given[i] = played[i]
        /\ DOMAIN Given = 1..(Len(played) + Len(air))
    BY <1>1, GivenIsSeq
  <2>5. \A i \in DOMAIN Given : i < k => i \in DOMAIN played
    BY <1>2, <2>4
  <2>6. \A i \in DOMAIN played : i < k
    BY <1>2, <2>4
  <2> QED
    BY <1>2, <2>1, <2>2, <2>3, <2>4, <2>5, <2>6
<1>4. /\ Carried(h) = [kind |-> h.kind, utt |-> h.speak, n |-> h.n]
      /\ h.kind \in {"audio", "mark"} /\ h.speak \in Nat /\ h.n \in Nat
  BY <1>2 DEF Carried, Sounds
<1>5. h.speak \in Sounding
  BY <1>2 DEF Sounding
<1>6. r'.pc = "synth" /\ Accepted' <=> r.pc = "synth" /\ Accepted
  BY <1>1 DEF Accepted
<1>7. Sounding' \subseteq Sounding
  BY <1>1, <1>2, <1>6 DEF Sounding
<1> HIDE DEF k, h
<1>8. CASE h.kind = "audio"
  <2>0. Given[k].kind = "audio" /\ Given[k].utt = h.speak /\ Given[k].n = h.n
    BY <1>3, <1>4, <1>8
  <2>1. /\ h.n \in 1..MaxFrames
        /\ h.n > 1 => \E i \in DOMAIN Given : i < k /\ Given[i] = Line!Frame(h.speak, h.n - 1)
        /\ \A i \in DOMAIN Given : i < k => Given[i] # Given[k]
    BY <1>1, <1>3, <2>0 DEF Orderly, Framed
  <2>2. Carried(h) = Line!Frame(h.speak, h.n)
    BY <1>4, <1>8 DEF Line!Frame
  <2>3. h.n > 1 => Line!Heard(Line!Frame(h.speak, h.n - 1))
    BY <1>3, <2>1 DEF Line!Heard
  <2>4. ~Line!Heard(Line!Frame(h.speak, h.n))
    BY <1>3, <2>1, <2>2 DEF Line!Heard
  <2>5. \A i \in DOMAIN played : played[i].utt <= h.speak
    <3> TAKE i \in DOMAIN played
    <3>1. i \in DOMAIN Given /\ i < k /\ Given[i] = played[i] /\ Given[k].kind # "clear"
          /\ Given[k].utt = h.speak
      BY <1>3, <1>4, <1>8
    <3> QED
      BY <1>1, <1>3, <3>1 DEF Orderly, InTurn
  <2>6. h.n > 0 /\ h.n \in 0..MaxFrames
    BY <2>1, ConstantsAssumption
  <2>7. played' = Append(played, Line!Frame(h.speak, h.n))
    BY <2>2 DEF h
  <2>8. Line!Play(h.speak, h.n)
    BY <1>1, <1>5, <1>7, <2>3, <2>4, <2>5, <2>6, <2>7 DEF Line!Play
  <2> QED
    BY <1>5, <2>6, <2>8
<1>9. CASE h.kind = "mark"
  <2>0. Given[k].kind = "mark" /\ Given[k].utt = h.speak /\ Given[k].n = h.n
    BY <1>3, <1>4, <1>9
  <2>1. /\ h.n \in 0..MaxFrames
        /\ h.n > 0 => \E i \in DOMAIN Given : i < k /\ Given[i] = Line!Frame(h.speak, h.n)
        /\ \A i \in DOMAIN Given : i < k => Given[i] # Line!Frame(h.speak, h.n + 1)
        /\ \A i \in DOMAIN Given : i > k => Given[i].utt # h.speak
    BY <1>1, <1>3, <2>0 DEF Orderly, Fenced
  <2>2. Carried(h) = Line!Fence(h.speak, h.n)
    BY <1>4, <1>9 DEF Line!Fence
  <2>3. h.n > 0 => Line!Heard(Line!Frame(h.speak, h.n))
    BY <1>3, <2>1 DEF Line!Heard
  <2>4. ~Line!Heard(Line!Frame(h.speak, h.n + 1))
    BY <1>3, <2>1 DEF Line!Heard
  <2>5. h.speak \notin Sounding'
    <3>1. \A i \in DOMAIN air' : air'[i].speak # h.speak
      <4> TAKE i \in DOMAIN air'
      <4>1. k + i \in DOMAIN Given /\ k + i > k /\ Given[k + i].utt = air'[i].speak
        <5>1. /\ k + i \in DOMAIN Given /\ k + i > k
              /\ Given[k + i] = Carried(air'[i])
          BY <1>3
        <5>2. Carried(air'[i]).utt = air'[i].speak
          BY DEF Carried
        <5> QED
          BY <5>1, <5>2
      <4> QED
        BY <2>1, <4>1
    <3>2. r'.pc = "synth" /\ Accepted' => h.speak # speakGen'
      <4>1. r.pc = "synth" /\ Accepted => Underway(Given)
        BY DEF AudioInv
      <4> QED
        BY <1>1, <1>3, <1>6, <2>0, <4>1 DEF Underway
    <3> QED
      BY <3>1, <3>2 DEF Sounding
  <2>6. played' = Append(played, Line!Fence(h.speak, h.n))
    BY <2>2 DEF h
  <2>7. Line!End(h.speak, h.n)
    BY <1>1, <1>5, <1>7, <2>3, <2>4, <2>5, <2>6 DEF Line!End
  <2> QED
    BY <1>5, <2>1, <2>7
<1> QED
  BY <1>4, <1>8, <1>9

\* What the caller hears of the agent, whatever interrupts, supersedes, cancels
\* or fails a response, is what Playback promises of the media stream alone: the
\* agent's tasks never make the line repeat, mix or resume a speak.
THEOREM AgentIsHeardAsPromised == AudioSpec => HeardAsPromised
<1>1. AudioInit => Line!Init
  <2> SUFFICES ASSUME AudioInit PROVE Line!Init
    OBVIOUS
  <2>1. /\ played = <<>> /\ air = <<>> /\ speakGen = 0 /\ mediaClosed = FALSE /\ r.pc = "none"
    BY DEF AudioInit, Init, NewResponse
  <2>2. Sounding = {}
    BY <2>1 DEF Sounding
  <2> QED
    BY <2>1, <2>2 DEF Line!Init
<1>2. AudioInv /\ [AudioNext]_audioVars => [Line!Next]_Line!vars
  <2> SUFFICES ASSUME AudioInv, [AudioNext]_audioVars PROVE Line!Next
    OBVIOUS
  <2>1. CASE Speaks /\ UNCHANGED played
    BY <2>1, SpeaksBegin DEF Line!Next
  <2>2. CASE (Quiets \/ Frames \/ Marks) /\ UNCHANGED played
    BY <2>2, QuietsAbandon DEF Line!Next
  <2>3. CASE Dies /\ UNCHANGED played
    BY <2>3, DiesCloses DEF Line!Next
  <2>4. CASE Plays /\ played' = Append(played, Carried(Head(air)))
    BY <2>4, PlaysPlay DEF Line!Next
  <2>5. CASE Clears /\ played' = IF mediaClosed THEN played ELSE Append(played, Cleared)
    BY <2>5, ClearsInterrupt DEF Line!Next
  <2> QED
    BY <2>1, <2>2, <2>3, <2>4, <2>5, StepCarries
<1> QED
  BY <1>1, <1>2, InitAudio, AudioStep, PTL DEF AudioSpec, HeardAsPromised, Line!Spec
=============================================================================
