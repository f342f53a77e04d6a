----------------------------- MODULE VoiceAgent -----------------------------
(***************************************************************************)
(* One call of the voice agent (onset/agent.py, with turn_manager.py,      *)
(* barge_in.py and the token budget of limits.py): the run loop that       *)
(* consumes the event queue, and the response task that thinks, calls      *)
(* tools and speaks, which the run loop starts, supersedes, interrupts and *)
(* tears down.                                                             *)
(*                                                                         *)
(* Both are asyncio tasks on one event loop: an action is the code one of  *)
(* them runs between two awaits.  A task that is cancelled runs nothing    *)
(* else before it sees CancelledError (r.cancel).  Sound travels through   *)
(* the media port, reduced here to what MediaStream promises: `air' is     *)
(* everything accepted and not yet played, emptied by flush().             *)
(***************************************************************************)
EXTENDS Conversation, SequencesExt

CONSTANTS
  HalfDuplex,      \* settings.half_duplex
  Mode,            \* settings.benchmark_mode
  Greets,          \* whether the configuration has a greeting: the choices
  MaxToolRounds,   \* AgentConfig.max_tool_rounds
  Faults,          \* which external failures happen
  Limited,         \* the token budget can run out
  MaxSaid,         \* bound: final transcripts
  MaxEnds,         \* bound: ends of utterance
  MaxTriggers,     \* bound: VAD onsets and interim transcripts
  MaxFrames,       \* bound: frames of a spoken text
  MaxCalls         \* bound: tool calls of one assistant message

Modes == {"production", "fd-vad", "fd-transcript", "half-duplex"}
AllFaults == {"connect", "llm", "tool", "tts", "socket", "sink", "cancel"}

ASSUME ConstantsAssumption ==
  /\ HalfDuplex \in BOOLEAN /\ Limited \in BOOLEAN
  /\ Greets \subseteq BOOLEAN
  /\ MaxToolRounds \in Nat
  /\ Faults \subseteq AllFaults
  /\ {MaxSaid, MaxEnds, MaxTriggers, MaxFrames, MaxCalls} \subseteq Nat

\* Settings.validate_benchmark_duplex_policy
ASSUME ModeAssumption ==
  /\ Mode \in Modes
  /\ Mode \in {"fd-vad", "fd-transcript"} => ~HalfDuplex
  /\ Mode = "half-duplex" => HalfDuplex

VARIABLES
  events,      \* _events, the queue of the run loop
  runPc,       \* where the run loop is: see RunPcs
  runEnd,      \* how run() leaves its loop: "no", "returned" or "cancelled"
  held,        \* the event being handled across the flush, at most one
  turn,        \* the user turn waiting for the old response to end
  ending,      \* _ending
  degraded,    \* _degraded
  hungUp,      \* the hangup command was carried out
  sttUp,       \* the STT socket may deliver transcripts
  agentClosed, \* _closed
  buffer,      \* TurnManager._transcript_buffer
  history,     \* _conversation
  exhausted,   \* TokenBudget.exhausted
  announced,   \* _budget_announced
  gen,         \* _response_gen, also _current_response_gen
  r,           \* the response task: see Response
  cancelled,   \* _cancellation_requested
  speaking,    \* BargeInHandler.agent_is_speaking
  barged,      \* BargeInHandler._barged_in
  speakGen,    \* _speak_gen, also _current_speak_gen
  speakDone,   \* _speak_done.is_set()
  epoch,       \* MediaStream._epoch
  mediaClosed, \* MediaStream._closed
  air,         \* audio and marks accepted and not yet played
  echoes,      \* marks played whose echo is on its way, or lost
  gone,        \* the server's read loop ended and submitted the hangup
  stops,       \* the server cancelled the run task
  said,        \* final transcripts submitted: they are 1, 2, ..., said
  ends,        \* ends of utterance submitted
  triggers,    \* VAD onsets and interim transcripts submitted
  turns,       \* history variable: how many user turns were committed
  committed,   \* history variable: the final transcripts in them
  bargedGens,  \* history variable: the generations interrupted
  bargedSpeaks,\* history variable: the speaks interrupted
  recorded     \* history variable: what was recorded as spoken

runVars == <<runPc, runEnd, held, turn, hungUp, agentClosed>>
flagVars == <<ending, degraded>>
committedVars == <<turns, committed>>
turnVars == <<buffer, committedVars>>
budgetVars == <<exhausted, announced>>
speakVars == <<speakGen, speakDone>>
bargeVars == <<speaking, barged, bargedGens, bargedSpeaks>>
mediaVars == <<epoch, mediaClosed, air, echoes>>
inputVars == <<sttUp, gone, stops, said, ends, triggers>>
recordVars == <<history, recorded>>
vars == <<events, runVars, flagVars, turnVars, budgetVars, gen, r, cancelled,
          speakVars, bargeVars, mediaVars, inputVars, recordVars>>

\* The run loop: opening STT; waiting for an event; awaiting media.flush();
\* awaiting the superseded response; the hangup of a call without greeting;
\* the hangup of a degraded call; awaiting the response in _teardown; closing
\* STT; closing the media stream and the LLM client; over.
RunPcs == {"connect", "get", "flush", "reap", "bye", "degraded", "teardown",
           "closeStt", "closeMedia", "done"}

Texts == {"none", "greeting", "reply", "budget", "fallback"}

\* The response task: not yet created; created; streaming from the LLM;
\* awaiting a tool; awaiting synthesis or a send; awaiting the echo of its
\* mark; awaiting the hangup; over.
RespPcs == {"none", "new", "llm", "tool", "synth", "play", "bye", "done"}

Response ==
  [pc : RespPcs,
   kind : {"greet", "reply"},
   cancel : BOOLEAN,       \* cancel() was called and has not been seen
   full : Texts,           \* full_text
   say : Texts,            \* the text being spoken
   spoken : Texts,         \* spoken_tokens
   apology : BOOLEAN,      \* in the except handler, in _speak_fallback
   rounds : Nat,           \* tool_rounds
   calls : Seq(Nat),       \* the tool calls not yet answered
   epoch : Nat,            \* the epoch of its utterance
   sent : Nat,             \* frames handed over
   end : {"none", "ok", "cancelled", "failed"}]

NewResponse(kind) ==
  [pc |-> "new", kind |-> kind, cancel |-> FALSE, full |-> "none", say |-> "none",
   spoken |-> "none", apology |-> FALSE, rounds |-> 0, calls |-> <<>>,
   epoch |-> 0, sent |-> 0, end |-> "none"]

Event(type, id) == [type |-> type, id |-> id]
Hangup == Event("hangup", 0)
Triggers == {"vad", "interim", "final"}
Transcripts == {"vad", "interim", "final", "end"}

Live == r.pc \notin {"none", "done"}
InSpeak == r.pc \in {"synth", "play"}

TypeOK ==
  /\ events \in Seq([type : Transcripts \cup {"ended", "hangup"}, id : Nat])
  /\ runPc \in RunPcs
  /\ runEnd \in {"no", "returned", "cancelled"}
  /\ held \in Seq([type : Triggers, id : Nat])
  /\ Len(held) = IF runPc = "flush" THEN 1 ELSE 0
  /\ turn \in Seq(Nat)
  /\ turn # <<>> <=> runPc = "reap"
  /\ {ending, degraded, hungUp, sttUp, agentClosed, exhausted, announced, speaking,
      barged, speakDone, mediaClosed, gone, stops} \subseteq BOOLEAN
  /\ buffer \in Seq(Nat)
  /\ history \in Seq([role : {"user", "assistant", "tool"}, calls : SUBSET Nat])
  /\ {gen, speakGen, epoch, said, ends, triggers} \subseteq Nat
  /\ r \in Response
  /\ cancelled \subseteq Nat
  /\ air \in Seq([kind : {"audio", "mark"}, gen : Nat, speak : Nat, n : Nat])
  /\ echoes \subseteq Nat
  /\ turns \in Nat /\ committed \in Seq(Nat)
  /\ bargedGens \subseteq Nat /\ bargedSpeaks \subseteq Nat
  /\ recorded \subseteq [gen : Nat, text : Texts, cut : BOOLEAN, heard : BOOLEAN]

Init ==
  /\ events = <<>>
  /\ runPc = "connect" /\ runEnd = "no" /\ held = <<>> /\ turn = <<>>
  /\ ending = FALSE /\ degraded = FALSE /\ hungUp = FALSE
  /\ sttUp = FALSE /\ agentClosed = FALSE
  /\ buffer = <<>> /\ history = <<>>
  /\ exhausted = FALSE /\ announced = FALSE
  /\ gen = 0 /\ r = [NewResponse("greet") EXCEPT !.pc = "none"]
  /\ cancelled = {}
  /\ speaking = FALSE /\ barged = FALSE
  /\ speakGen = 0 /\ speakDone = FALSE
  /\ epoch = 0 /\ mediaClosed = FALSE /\ air = <<>> /\ echoes = {}
  /\ gone = FALSE /\ stops = FALSE
  /\ said = 0 /\ ends = 0 /\ triggers = 0
  /\ turns = 0 /\ committed = <<>> /\ bargedGens = {} /\ bargedSpeaks = {} /\ recorded = {}

----------------------------------------------------------------------------
(* The response task                                                       *)

\* _speak up to its first await.
StartSpeak(q, text) ==
  /\ r' = [q EXCEPT !.pc = "synth", !.say = text, !.epoch = epoch, !.sent = 0]
  /\ speaking' = TRUE
  /\ speakGen' = speakGen + 1
  /\ speakDone' = FALSE
  /\ UNCHANGED <<barged, bargedGens, bargedSpeaks>>

\* Mutant of Record: the interrupted flag is read after it was reset.
RecordUncut(q, h) ==
  IF q.full = "none" \/ q.kind = "greet"
  THEN history' = h /\ UNCHANGED recorded
  ELSE /\ history' = AddAssistantTurn(h, {})
       /\ recorded' = recorded \cup {[gen |-> gen, text |-> q.full, cut |-> FALSE,
                                      heard |-> q.spoken = q.full]}

\* What the finally block adds to history h: of an interrupted reply the
\* spoken text, else the full text; of a greeting nothing.
Record(q, h) ==
  LET text == IF q.kind = "greet" THEN "none"
              ELSE IF barged THEN q.spoken ELSE q.full
  IN IF text = "none"
     THEN history' = h /\ UNCHANGED recorded
     ELSE /\ history' = AddAssistantTurn(h, {})
          /\ recorded' = recorded \cup {[gen |-> gen, text |-> text, cut |-> barged,
                                         heard |-> q.spoken = text]}

\* Mutants of Release: the interrupted flag is left for the next response; the
\* speaking flag stays up.
ReleaseUnread == speaking' = FALSE /\ UNCHANGED <<barged, bargedGens, bargedSpeaks>>
ReleaseSpeaking == barged' = FALSE /\ UNCHANGED <<speaking, bargedGens, bargedSpeaks>>

\* Reading was_interrupted resets it, and the agent no longer speaks.
Release ==
  /\ barged' = FALSE
  /\ speaking' = FALSE
  /\ UNCHANGED <<bargedGens, bargedSpeaks>>

\* The finally block of _generate_response and of _greet; when the conversation
\* is ending it hangs up.
Finish(q, h, end) ==
  /\ Record(q, h)
  /\ Release
  /\ r' = [q EXCEPT !.pc = IF ending THEN "bye" ELSE "done",
                    !.end = end, !.cancel = FALSE, !.calls = <<>>]

\* A response step is taken by a live task with no cancellation pending.
Runs(pc) == r.pc = pc /\ ~r.cancel

respUnchanged == <<events, runVars, turnVars, gen, cancelled, inputVars>>

\* What is recorded against the budget may exhaust it.
Charge == exhausted' \in (IF Limited THEN {exhausted, TRUE} ELSE {exhausted})

\* Mutant of AskLlm: the announcement is not remembered.
AskLlmForgets(q) ==
  /\ IF exhausted'
     THEN StartSpeak([q EXCEPT !.full = "budget"], "budget")
     ELSE r' = [q EXCEPT !.pc = "llm"] /\ UNCHANGED <<bargeVars, speakVars>>
  /\ UNCHANGED announced

\* The top of the tool loop: announce an exhausted budget or call the LLM.
AskLlm(q) ==
  IF exhausted'
  THEN /\ announced' = TRUE
       /\ StartSpeak([q EXCEPT !.full = "budget"], "budget")
  ELSE /\ r' = [q EXCEPT !.pc = "llm"]
       /\ UNCHANGED <<announced, bargeVars, speakVars>>

GreetStarts ==
  /\ Runs("new") /\ r.kind = "greet"
  /\ StartSpeak(r, "greeting")
  /\ UNCHANGED <<respUnchanged, flagVars, budgetVars, mediaVars, recordVars>>

\* A turn after the announcement is skipped, before the try block.
ReplySkipped ==
  /\ Runs("new") /\ r.kind = "reply"
  /\ exhausted /\ announced
  /\ r' = [r EXCEPT !.pc = "done", !.end = "ok"]
  /\ UNCHANGED <<respUnchanged, flagVars, budgetVars, bargeVars, speakVars,
                 mediaVars, recordVars>>

ReplyStarts ==
  /\ Runs("new") /\ r.kind = "reply"
  /\ ~(exhausted /\ announced)
  /\ Charge
  /\ AskLlm(r)
  /\ UNCHANGED <<respUnchanged, flagVars, mediaVars, recordVars>>

\* The stream ended with text, spoken as the reply.
LlmReplies ==
  /\ Runs("llm")
  /\ Charge
  /\ StartSpeak([r EXCEPT !.full = "reply"], "reply")
  /\ UNCHANGED <<respUnchanged, flagVars, announced, mediaVars, recordVars>>

\* The stream ended with nothing to say.
LlmEmpty ==
  /\ Runs("llm")
  /\ Charge
  /\ Finish(r, history, "ok")
  /\ UNCHANGED <<respUnchanged, flagVars, announced, speakVars, mediaVars>>

\* The stream failed for good: except Exception, the spoken apology.
LlmFails ==
  /\ Runs("llm") /\ "llm" \in Faults
  /\ Charge
  /\ StartSpeak([r EXCEPT !.apology = TRUE], "fallback")
  /\ UNCHANGED <<respUnchanged, flagVars, announced, mediaVars, recordVars>>

\* The stream ended with tool calls.
LlmCallsTools ==
  /\ Runs("llm")
  /\ Charge
  /\ IF r.rounds + 1 > MaxToolRounds
     THEN /\ StartSpeak([r EXCEPT !.rounds = @ + 1, !.full = "fallback"], "fallback")
          /\ UNCHANGED history
     ELSE \E k \in 1..MaxCalls :
            /\ history' = AddAssistantTurn(history, 1..k)
            /\ r' = [r EXCEPT !.pc = "tool", !.rounds = @ + 1,
                              !.calls = [i \in 1..k |-> i]]
            /\ UNCHANGED <<bargeVars, speakVars>>
  /\ UNCHANGED <<respUnchanged, flagVars, announced, mediaVars, recorded>>

\* Mutant of FillResults: a cancelled round leaves its calls open.
FillNothing(h, calls) == h

\* The finally block of the tool loop answers the calls left over.
FillResults(h, calls) == h \o [i \in DOMAIN calls |-> ToolResult(calls[i])]

\* A tool answered; when it succeeded it may lead to a terminal node.
ToolAnswers ==
  /\ Runs("tool")
  /\ history' = AddToolResult(history, Head(r.calls))
  /\ ending' \in {ending, TRUE}
  /\ Charge
  /\ LET q == [r EXCEPT !.calls = Tail(@)]
     IN IF q.calls # <<>>
        THEN r' = q /\ UNCHANGED <<announced, bargeVars, speakVars>>
        ELSE AskLlm(q)
  /\ UNCHANGED <<respUnchanged, degraded, mediaVars, recorded>>

\* execute() itself raised (tools.py:164, arguments that are not an object).
ToolRaises ==
  /\ Runs("tool") /\ "tool" \in Faults
  /\ history' = FillResults(history, r.calls)
  /\ StartSpeak([r EXCEPT !.apology = TRUE, !.calls = <<>>], "fallback")
  /\ UNCHANGED <<respUnchanged, flagVars, budgetVars, mediaVars, recorded>>

\* Mutant of Accepted: the utterance's epoch is not compared.
AcceptedWhileOpen == ~mediaClosed

\* The port drops what a flush has invalidated or a closed stream is given.
Accepted == ~mediaClosed /\ r.epoch = epoch

\* Frame n of the current speak, or the mark after its n frames.
Sound(kind, n) == [kind |-> kind, gen |-> gen, speak |-> speakGen, n |-> n]

FrameSent ==
  /\ Runs("synth") /\ r.sent < MaxFrames
  /\ r' = [r EXCEPT !.sent = @ + 1]
  /\ air' = IF Accepted THEN Append(air, Sound("audio", r.sent + 1)) ELSE air
  /\ UNCHANGED <<respUnchanged, flagVars, budgetVars, bargeVars, speakVars, epoch,
                 mediaClosed, echoes, recordVars>>

\* The last frame is handed over: the text counts as spoken, the mark follows.
SynthesisEnds ==
  /\ Runs("synth")
  /\ r' = [r EXCEPT !.pc = "play", !.spoken = r.say]
  /\ air' = IF Accepted THEN Append(air, Sound("mark", r.sent)) ELSE air
  /\ UNCHANGED <<respUnchanged, flagVars, budgetVars, bargeVars, speakVars, epoch,
                 mediaClosed, echoes, recordVars>>

\* Synthesis raised.  A greeting has no handler for it, a reply apologises,
\* an apology gives up.
SynthesisFails ==
  /\ Runs("synth") /\ "tts" \in Faults
  /\ IF r.kind = "reply" /\ ~r.apology
     THEN /\ StartSpeak([r EXCEPT !.apology = TRUE], "fallback")
          /\ UNCHANGED recordVars
     ELSE /\ Finish([r EXCEPT !.full = r.spoken], history,
                    IF r.kind = "greet" THEN "failed" ELSE "ok")
          /\ UNCHANGED speakVars
  /\ UNCHANGED <<respUnchanged, flagVars, budgetVars, mediaVars>>

\* _speak returns, and with it the task reaches its finally block.
Played ==
  /\ Runs("play")
  /\ Finish(IF r.apology THEN [r EXCEPT !.full = r.spoken] ELSE r, history, "ok")
  /\ UNCHANGED <<respUnchanged, flagVars, budgetVars, speakVars, mediaVars>>

PlayConfirmed == speakDone /\ Played

\* Mutant of PlayTimesOut: no timeout backs up the mark.
PlayNeverTimesOut == FALSE /\ Played

\* The wait for the mark gave up, after 15 seconds or more.
PlayTimesOut == ~speakDone /\ Played

ReplyHangsUp ==
  /\ Runs("bye")
  /\ hungUp' = TRUE
  /\ r' = [r EXCEPT !.pc = "done"]
  /\ UNCHANGED <<events, runPc, runEnd, held, turn, agentClosed, turnVars, gen,
                 cancelled, inputVars, flagVars, budgetVars, bargeVars, speakVars,
                 mediaVars, recordVars>>

\* CancelledError before the first step or in the hangup: no handler runs.
CancelledOutside ==
  /\ r.cancel /\ r.pc \in {"new", "bye"}
  /\ r' = [r EXCEPT !.pc = "done", !.end = "cancelled", !.cancel = FALSE]
  /\ UNCHANGED <<respUnchanged, flagVars, budgetVars, bargeVars, speakVars,
                 mediaVars, recordVars>>

\* CancelledError inside the try block is handled; inside the except handler,
\* while it speaks the apology, it leaves the task through finally.  What the
\* LLM streamed before is charged.
CancelledInside ==
  /\ r.cancel /\ r.pc \in {"llm", "tool", "synth", "play"}
  /\ Finish(r, FillResults(history, r.calls), IF r.apology THEN "cancelled" ELSE "ok")
  /\ IF r.pc = "llm" THEN Charge ELSE UNCHANGED exhausted
  /\ UNCHANGED <<respUnchanged, flagVars, announced, speakVars, mediaVars>>

ResponseStep ==
  \/ GreetStarts \/ ReplySkipped \/ ReplyStarts
  \/ LlmReplies \/ LlmEmpty \/ LlmFails \/ LlmCallsTools \/ ToolAnswers \/ ToolRaises
  \/ FrameSent \/ SynthesisEnds \/ SynthesisFails
  \/ PlayConfirmed \/ PlayTimesOut \/ ReplyHangsUp \/ CancelledOutside \/ CancelledInside

----------------------------------------------------------------------------
(* The run loop                                                            *)

runUnchanged == <<budgetVars, speakVars, inputVars>>

\* _allocate_response_generation and create_task.
NewGeneration(kind) ==
  /\ gen' = gen + 1
  /\ r' = NewResponse(kind)

\* _request_response_cancellation, at most once per generation.
RequestCancellation ==
  IF gen \in cancelled \/ ~Live
  THEN UNCHANGED <<cancelled, r>>
  ELSE /\ cancelled' = cancelled \cup {gen}
       /\ r' = [r EXCEPT !.cancel = TRUE]

\* Mutant of Teardown: the response in flight is not awaited.
TeardownSockets == runPc' = "closeStt" /\ UNCHANGED r

\* _teardown up to its first await: cancel the response in flight.
Teardown ==
  IF Live
  THEN runPc' = "teardown" /\ r' = [r EXCEPT !.cancel = TRUE]
  ELSE runPc' = "closeStt" /\ UNCHANGED r

\* Mutant of Leave: no hangup for a degraded call.
LeaveQuietly(end) ==
  /\ runEnd' = end
  /\ held' = <<>> /\ turn' = <<>>
  /\ Teardown
  /\ UNCHANGED <<gen, cancelled>>

\* run() leaves its try block: a degraded call is hung up first.
Leave(end) ==
  /\ runEnd' = end
  /\ held' = <<>> /\ turn' = <<>>
  /\ IF degraded'
     THEN runPc' = "degraded" /\ UNCHANGED r
     ELSE Teardown
  /\ UNCHANGED <<gen, cancelled>>

\* The STT socket is open, or it is not and the call ends after the greeting.
Connects ==
  /\ runPc = "connect"
  /\ \/ sttUp' = TRUE /\ UNCHANGED ending
     \/ "connect" \in Faults /\ ending' = TRUE /\ UNCHANGED sttUp
  /\ \/ /\ TRUE \in Greets
        /\ NewGeneration("greet")
        /\ runPc' = "get"
     \/ /\ FALSE \in Greets
        /\ runPc' = IF ending' THEN "bye" ELSE "get"
        /\ UNCHANGED <<gen, r>>
  /\ UNCHANGED <<events, runEnd, held, turn, hungUp, agentClosed, degraded, turnVars,
                 budgetVars, cancelled, speakVars, bargeVars, mediaVars, gone, stops,
                 said, ends, triggers, recordVars>>

\* Without a greeting there is nobody to hang up but the run loop.
HangsUpUnheard ==
  /\ runPc = "bye"
  /\ hungUp' = TRUE
  /\ UNCHANGED degraded
  /\ Leave("returned")
  /\ UNCHANGED <<runUnchanged, events, agentClosed, ending, turnVars, bargeVars,
                 mediaVars, recordVars>>

\* The signals interruption_source accepts as an interruption.
Eligible(event) ==
  CASE Mode = "production"    -> event.type \in Triggers
    [] Mode = "fd-vad"        -> event.type = "vad"
    [] Mode = "fd-transcript" -> event.type \in {"interim", "final"}
    [] Mode = "half-duplex"   -> FALSE

Interrupts(event) ==
  event.type \in Triggers /\ speaking /\ ~HalfDuplex /\ Eligible(event)

\* MediaStream.flush: the sound is gone, but the marks Telnyx held may yet be
\* echoed.
Flush ==
  /\ epoch' = epoch + 1
  /\ air' = <<>>
  /\ echoes' = echoes \cup {air[i].speak : i \in {i \in DOMAIN air : air[i].kind = "mark"}}
  /\ UNCHANGED mediaClosed

\* add_user_turn and the response to it.
Commit(t) ==
  /\ turns' = turns + 1
  /\ committed' = committed \o t
  /\ history' = AddUserTurn(history)
  /\ NewGeneration("reply")
  /\ UNCHANGED cancelled

\* Mutant of Heeds: an ending call still takes turns.
HeedsAlways == TRUE

\* Input counts until the conversation is ending.
Heeds == ~ending

\* The run loop takes the next event of its queue, one of these types.
Takes(types) ==
  /\ runPc = "get"
  /\ events # <<>>
  /\ Head(events).type \in types
  /\ events' = Tail(events)

HangsUp ==
  /\ Takes({"hangup"})
  /\ UNCHANGED degraded
  /\ Leave("returned")
  /\ UNCHANGED <<runUnchanged, hungUp, agentClosed, ending, turnVars, bargeVars,
                 mediaVars, recordVars>>

\* Mutant of Completes: any mark completes the current speak.
CompletesAny(g) == TRUE

Completes(g) == g = speakGen

\* _on_speak_ended: a mark completes the speak it belongs to.
SpeakEnds ==
  /\ Takes({"ended"})
  /\ speakDone' = (speakDone \/ Completes(Head(events).id))
  /\ UNCHANGED <<runVars, flagVars, turnVars, budgetVars, gen, r, cancelled, speakGen,
                 bargeVars, mediaVars, inputVars, recordVars>>

\* While the call is ending further input is ignored.
IgnoresInput ==
  /\ ending
  /\ Takes(Transcripts)
  /\ UNCHANGED <<runVars, flagVars, turnVars, budgetVars, gen, r, cancelled, speakVars,
                 bargeVars, mediaVars, inputVars, recordVars>>

\* handle_barge_in up to the await of media.flush().
BargesIn ==
  /\ Heeds
  /\ Takes(Triggers)
  /\ Interrupts(Head(events))
  /\ held' = <<Head(events)>>
  /\ runPc' = "flush"
  /\ barged' = TRUE
  /\ speaking' = FALSE
  /\ bargedGens' = bargedGens \cup {gen}
  /\ bargedSpeaks' = bargedSpeaks \cup {speakGen}
  /\ Flush
  /\ UNCHANGED <<runUnchanged, runEnd, turn, hungUp, agentClosed, flagVars, turnVars,
                 gen, r, cancelled, recordVars>>

\* TurnManager.handle_event for an event that completes no turn.
Assemble(event) ==
  /\ buffer' = IF event.type = "final" THEN Append(buffer, event.id) ELSE buffer
  /\ UNCHANGED committedVars

\* Mutant of Flushed: the interrupting event is dropped.
FlushedDrops ==
  /\ runPc = "flush"
  /\ RequestCancellation
  /\ runPc' = "get"
  /\ held' = <<>>
  /\ UNCHANGED <<runUnchanged, events, runEnd, turn, hungUp, agentClosed, flagVars, gen,
                 turnVars, bargeVars, mediaVars, recordVars>>

\* The clear was sent or failed: cancel the response, then assemble the very
\* event that interrupted it.
Flushed ==
  /\ runPc = "flush"
  /\ RequestCancellation
  /\ Assemble(held[1])
  /\ runPc' = "get"
  /\ held' = <<>>
  /\ UNCHANGED <<runUnchanged, events, runEnd, turn, hungUp, agentClosed, flagVars, gen,
                 bargeVars, mediaVars, recordVars>>

CompletesTurn(event) == event.type = "end" /\ buffer # <<>>

Listens ==
  /\ Heeds
  /\ Takes(Transcripts)
  /\ ~Interrupts(Head(events))
  /\ ~CompletesTurn(Head(events))
  /\ Assemble(Head(events))
  /\ UNCHANGED <<runVars, flagVars, budgetVars, gen, r, cancelled, speakVars,
                 bargeVars, mediaVars, inputVars, recordVars>>

\* A turn is complete and no response is running.
Answers ==
  /\ Heeds /\ ~Live
  /\ Takes({"end"})
  /\ buffer # <<>>
  /\ buffer' = <<>>
  /\ Commit(buffer)
  /\ UNCHANGED <<runUnchanged, runVars, flagVars, bargeVars, mediaVars, recorded>>

\* Mutant of Supersedes: the response in flight is neither cancelled nor awaited.
SupersedesAtOnce ==
  /\ Heeds /\ Live
  /\ Takes({"end"})
  /\ buffer # <<>>
  /\ buffer' = <<>>
  /\ Commit(buffer)
  /\ UNCHANGED <<runUnchanged, runVars, flagVars, bargeVars, mediaVars, recorded>>

\* A turn is complete and supersedes the running response: cancel and await it.
Supersedes ==
  /\ Heeds /\ Live
  /\ Takes({"end"})
  /\ buffer # <<>>
  /\ buffer' = <<>>
  /\ turn' = buffer
  /\ runPc' = "reap"
  /\ RequestCancellation
  /\ UNCHANGED <<runUnchanged, runEnd, held, hungUp, agentClosed, flagVars, committedVars,
                 gen, bargeVars, mediaVars, recordVars>>

\* The superseded task returned, or raised an Exception, which is suppressed.
Reaps ==
  /\ runPc = "reap" /\ ~Live
  /\ r.end # "cancelled"
  /\ Commit(turn)
  /\ turn' = <<>>
  /\ runPc' = "get"
  /\ UNCHANGED <<runUnchanged, events, runEnd, held, hungUp, agentClosed, flagVars,
                 buffer, bargeVars, mediaVars, recorded>>

\* The superseded task ended cancelled: suppress(Exception) lets its
\* CancelledError through, and it ends the run loop.
ReapRaises ==
  /\ runPc = "reap" /\ ~Live
  /\ r.end = "cancelled"
  /\ UNCHANGED degraded
  /\ Leave("cancelled")
  /\ UNCHANGED <<runUnchanged, events, hungUp, agentClosed, ending, turnVars, bargeVars,
                 mediaVars, recordVars>>

\* An exception in the loop, such as a milestone sink that cannot write: at an
\* event, after the flush or before the next response.
RunFails ==
  /\ "sink" \in Faults
  /\ \/ Heeds /\ Takes(Transcripts)
     \/ runPc = "flush" /\ UNCHANGED events
     \/ runPc = "reap" /\ ~Live /\ UNCHANGED events
  /\ degraded' = TRUE
  /\ Leave("returned")
  /\ UNCHANGED <<runUnchanged, hungUp, agentClosed, ending, turnVars, bargeVars,
                 mediaVars, recordVars>>

HangsUpDegraded ==
  /\ runPc = "degraded"
  /\ hungUp' = TRUE
  /\ Teardown
  /\ UNCHANGED <<runUnchanged, events, runEnd, held, turn, agentClosed, flagVars,
                 turnVars, gen, cancelled, bargeVars, mediaVars, recordVars>>

\* The cancelled response ended, whichever way.
TornDown ==
  /\ runPc = "teardown" /\ ~Live
  /\ runPc' = "closeStt"
  /\ UNCHANGED <<runUnchanged, events, runEnd, held, turn, hungUp, agentClosed,
                 flagVars, turnVars, gen, r, cancelled, bargeVars, mediaVars,
                 recordVars>>

ClosesStt ==
  /\ runPc = "closeStt"
  /\ runPc' = "closeMedia"
  /\ sttUp' = FALSE
  /\ UNCHANGED <<events, runEnd, held, turn, hungUp, agentClosed, flagVars, turnVars,
                 budgetVars, gen, r, cancelled, speakVars, bargeVars, mediaVars, gone,
                 stops, said, ends, triggers, recordVars>>

\* MediaStream.aclose, then VoiceAgent.aclose.
ClosesMedia ==
  /\ runPc = "closeMedia"
  /\ runPc' = "done"
  /\ agentClosed' = TRUE
  /\ mediaClosed' = TRUE
  /\ epoch' = IF mediaClosed THEN epoch ELSE epoch + 1
  /\ air' = IF mediaClosed THEN air ELSE <<>>
  /\ UNCHANGED <<runUnchanged, events, runEnd, held, turn, hungUp, flagVars, turnVars,
                 gen, r, cancelled, bargeVars, echoes, recordVars>>

RunStep ==
  \/ Connects \/ HangsUpUnheard \/ HangsUp \/ SpeakEnds \/ IgnoresInput \/ BargesIn
  \/ Flushed \/ Listens \/ Answers \/ Supersedes \/ Reaps \/ ReapRaises \/ RunFails
  \/ HangsUpDegraded \/ TornDown \/ ClosesStt \/ ClosesMedia

----------------------------------------------------------------------------
(* What the sockets and the server do to the agent                         *)

quiet == <<runVars, ending, turnVars, budgetVars, gen, r, cancelled, speakVars,
           bargeVars, recordVars>>

\* What is put in the queue when the run loop is over is never read.
Submit(seq) == runPc # "done" /\ events' = events \o seq

\* submit_transcript of a partial transcript.
SttInterim ==
  /\ sttUp /\ triggers < MaxTriggers
  /\ Submit(<<Event("interim", 0)>>)
  /\ triggers' = triggers + 1
  /\ UNCHANGED <<quiet, degraded, mediaVars, sttUp, gone, stops, said, ends>>

\* submit_transcript of a final transcript; speech_final ends the utterance.
SttFinal ==
  /\ sttUp /\ said < MaxSaid
  /\ said' = said + 1
  /\ \/ Submit(<<Event("final", said + 1)>>) /\ UNCHANGED ends
     \/ /\ ends < MaxEnds
        /\ Submit(<<Event("final", said + 1), Event("end", 0)>>)
        /\ ends' = ends + 1
  /\ UNCHANGED <<quiet, degraded, mediaVars, sttUp, gone, stops, triggers>>

\* An empty speech_final frame still ends the utterance.
SttEnd ==
  /\ sttUp /\ ends < MaxEnds
  /\ Submit(<<Event("end", 0)>>)
  /\ ends' = ends + 1
  /\ UNCHANGED <<quiet, degraded, mediaVars, sttUp, gone, stops, said, triggers>>

\* handle_audio: the VAD detects an onset, unless half duplex silences the
\* caller while the agent speaks.
VadOnset ==
  /\ ~agentClosed /\ ~gone /\ triggers < MaxTriggers
  /\ HalfDuplex => ~speaking
  /\ Submit(<<Event("vad", 0)>>)
  /\ triggers' = triggers + 1
  /\ UNCHANGED <<quiet, degraded, mediaVars, sttUp, gone, stops, said, ends>>

\* Telnyx plays the next sound; a mark is then echoed, if its echo is not lost.
TelnyxPlays ==
  /\ air # <<>>
  /\ air' = Tail(air)
  /\ echoes' = IF Head(air).kind = "mark" THEN echoes \cup {Head(air).speak} ELSE echoes
  /\ UNCHANGED <<quiet, events, degraded, epoch, mediaClosed, inputVars>>

\* The server reads a mark and submits the end of that speak.
MarkArrives ==
  /\ ~gone
  /\ \E g \in echoes : /\ Submit(<<Event("ended", g)>>)
                       /\ echoes' = echoes \ {g}
  /\ UNCHANGED <<quiet, degraded, epoch, mediaClosed, air, inputVars>>

\* The server's read loop ends: the caller hung up or the socket closed.
ServerHangsUp ==
  /\ ~gone
  /\ gone' = TRUE
  /\ Submit(<<Hangup>>)
  /\ UNCHANGED <<quiet, degraded, mediaVars, sttUp, stops, said, ends, triggers>>

\* _on_socket_error from the STT client, out of reconnects.
SttDies ==
  /\ "socket" \in Faults /\ sttUp
  /\ sttUp' = FALSE
  /\ degraded' = TRUE
  /\ Submit(<<Hangup>>)
  /\ UNCHANGED <<quiet, mediaVars, gone, stops, said, ends, triggers>>

\* _on_socket_error from the media stream, when a frame cannot be sent; a
\* flush may meanwhile have emptied the queue behind it.
MediaDies ==
  /\ "socket" \in Faults /\ ~mediaClosed /\ speakGen > 0
  /\ mediaClosed' = TRUE
  /\ epoch' = epoch + 1
  /\ air' = <<>>
  /\ degraded' = TRUE
  /\ Submit(<<Hangup>>)
  /\ UNCHANGED <<quiet, echoes, inputVars>>

\* The server cancels the run task: ten seconds after its hangup, or because
\* the process shuts down.  Where the run loop awaits the response the
\* cancellation goes to the response.
ServerCancels ==
  /\ "cancel" \in Faults /\ ~stops
  /\ runPc # "done"
  /\ stops' = TRUE
  /\ UNCHANGED flagVars
  /\ \/ /\ runPc \in {"connect", "get", "flush", "bye"} \/ (runPc = "reap" /\ ~Live)
        /\ Leave("cancelled")
     \/ /\ runPc \in {"reap", "teardown"} /\ Live
        /\ r' = [r EXCEPT !.cancel = TRUE]
        /\ UNCHANGED <<runPc, runEnd, held, turn, gen, cancelled>>
     \/ /\ runPc \in {"degraded", "closeStt"}
        /\ runPc' = "done"
        /\ runEnd' = "cancelled"
        /\ UNCHANGED <<held, turn, gen, r, cancelled>>
     \/ \* suppressed: by _teardown, by SttClient.aclose, by MediaStream.aclose
        /\ (runPc = "teardown" /\ ~Live) \/ runPc \in {"closeStt", "closeMedia"}
        /\ UNCHANGED <<runPc, runEnd, held, turn, gen, r, cancelled>>
  /\ UNCHANGED <<events, hungUp, agentClosed, turnVars, budgetVars, speakVars, bargeVars,
                 mediaVars, sttUp, gone, said, ends, triggers, recordVars>>

Environment ==
  \/ SttInterim \/ SttFinal \/ SttEnd \/ VadOnset \/ TelnyxPlays \/ MarkArrives
  \/ ServerHangsUp \/ SttDies \/ MediaDies \/ ServerCancels

Next == RunStep \/ ResponseStep \/ Environment

\* The event loop runs every ready task, and what the tasks await ends: the LLM
\* stream, the synthesis, the hangup and the opening of STT have timeouts, the
\* wait for a mark has its own, a put is released (MediaStream!ProducerReleased)
\* and tools return.  The caller, Telnyx and the server owe nothing.
Spec == Init /\ [][Next]_vars /\ WF_vars(RunStep) /\ WF_vars(ResponseStep)

----------------------------------------------------------------------------
(* Properties                                                              *)

Serving == runPc \in {"get", "flush", "reap"}

\* Every final transcript is, in order and exactly once, in a committed turn,
\* in the turn waiting for the old response, in the turn being assembled, held
\* across a barge-in or still queued: neither a barge-in nor a superseded
\* response loses or repeats caller speech (agent.py:405-407).
CallerSpeechExactlyOnce ==
  Serving /\ ~ending =>
    LET taken  == committed \o turn \o buffer
        queue  == held \o events
        finals == {i \in DOMAIN queue : queue[i].type = "final"}
    IN /\ taken = [i \in 1..Len(taken) |-> i]
       /\ {queue[i].id : i \in finals} = (Len(taken) + 1)..said
       /\ \A i, j \in finals : i < j => queue[i].id < queue[j].id

\* A response is created only when its predecessor is over, so two generations
\* never own the media, the history or the speaking flag together
\* (agent.py:428-441).
OneGenerationAtATime == [][gen' # gen => ~Live]_vars

\* The speaking flag the half-duplex gate and the barge-in rely on is raised
\* only while a response speaks, and a response that speaks unflagged has been
\* interrupted.
SpeakingFlagExact ==
  /\ speaking => InSpeak
  /\ InSpeak => speaking \/ barged

\* The interrupted flag belongs to the response that was interrupted: it is
\* consumed by that response's finally block, never by a later one.
InterruptionOwned == barged => InSpeak /\ gen \in bargedGens

\* A speak is taken for complete only when its own mark came back, whatever
\* echoes of interrupted speaks are still on their way (agent.py:137-139).
OnlyOwnMarkCompletes ==
  speakDone /\ InSpeak =>
    /\ r.pc = "play"
    /\ speakGen \notin echoes
    /\ \A i \in DOMAIN air : air[i].kind = "mark" => air[i].speak # speakGen

\* The history never claims more than was heard of an interrupted reply: a
\* record is marked as cut exactly when its generation was interrupted.
InterruptedRecordsAreCut == \A e \in recorded : e.cut <=> e.gen \in bargedGens

\* Spend protection: the caller is told once that the budget is used up, and
\* after that the LLM is not asked again.
BudgetToldOnce ==
  /\ \A e, f \in recorded : e.text = "budget" /\ f.text = "budget" => e.gen = f.gen
  /\ announced => r.pc \notin {"llm", "tool"}

\* Between tool rounds every tool call in the history has its one result, also
\* after a cancelled or failed round and after trimming (agent.py:643-647).
HistoryWellFormed == r.pc # "tool" => WellFormed(history)

\* What was interrupted stays silent: nothing of an interrupted speak is ever
\* accepted again, however long its response runs on before it is cancelled.
InterruptedSpeakSilent ==
  \A i \in DOMAIN air : air[i].speak \notin bargedSpeaks

\* Once the conversation is ending no new response starts.
NoTurnAfterEnding == [][ending /\ runPc # "connect" => gen' = gen]_vars

\* What the language model is asked about is in its context: trimming drops
\* neither the turn to be answered nor more context than the bound demands
\* (conversation.py:95-101).
RecentTurnsKept ==
  LET kept == UserCount(history)
  IN /\ kept = turns \/ kept >= MaxTurns
     /\ kept <= MaxTurns \/ Len(history) <= 2

\* When the run loop ends undisturbed everything it owned is closed: no task, no
\* socket and no client is left behind.
CleanEnd ==
  runPc = "done" /\ ~stops => ~Live /\ ~sttUp /\ mediaClosed /\ agentClosed

\* Every call that is over is brought to its end: a hangup, of the caller or of
\* a dead socket, ends the run loop (agent.py:351-353); a conversation that
\* reached its end is hung up, a lost mark, a failed synthesis or a full set of
\* tool rounds only delaying it (agent.py:711-713); and a call whose socket died
\* while the loop was serving is hung up, unless the server cancels the loop
\* (agent.py:447-451).
CallsAreEnded ==
  /\ Hangup \in Range(events) ~> runPc = "done"
  /\ ending ~> hungUp \/ runPc = "done"
  /\ degraded /\ Serving ~> hungUp \/ stops

\* The agent stops speaking, whatever becomes of the mark, the synthesis or the
\* response; in half duplex the caller would otherwise be silenced for good
\* (agent.py:223-233).
CallerHeardAgain == speaking ~> ~speaking

----------------------------------------------------------------------------
(* What a comment, a docstring or a test claims and the code does not do    *)

\* A real turn after a superseded or interrupted response is handled normally:
\* superseding never ends the run loop (tests/test_agent.py:418-430, 440-441).
SupersedingKeepsTheLoop == runEnd = "cancelled" => stops
=============================================================================
