# A TLA+ verification of telnyx-onset

telnyx-onset is a voice agent for telephone calls. A server accepts a Telnyx
media socket per call, streams the caller's audio to a speech-to-text service,
assembles turns, asks a language model, synthesizes its reply and paces it back
to the caller, and stops at once when the caller barges in. A second part of the
repository (`src/bench`) measures such calls from the outside.

This directory holds TLA+ modules that model the program, TLC configurations
that check them on small instances, and theorems proved with TLAPS. Everything
is translated from the source; `PROJECT.json` names for every definition the
lines it stands for.

Contents: [inventory](#inventory), [modules](#modules), [properties and
runs](#properties-and-runs), [bounds](#bounds), [fairness](#fairness),
[proofs](#proofs), [where code and documents
disagree](#where-code-and-documents-disagree),
[abstractions](#abstractions), [not modelled](#not-modelled), [plan](#plan).

## Inventory

### The agent (`src/onset`)

| part | state | operations | what makes it correct |
|---|---|---|---|
| outbound media stream, `media.py` | bounded queue, epoch, closed flag, pacer task with its starvation counters | `begin_utterance`, `send_audio_frame`, `send_mark`, `flush`, `aclose`, pacer, `_fail` | silence after a barge-in; order; marks fence their audio; no producer blocked for ever |
| conversation history, `conversation.py` | list of messages | add user, assistant, tool turn; `_trim` | tool calls and results stay together; the turn to answer is never dropped |
| voice agent, `agent.py` | event queue, response task and generation, speak generation and its event, `_ending`, `_degraded`, `_closed` | `run`, `_generate_response`, `_greet`, `_speak`, `_speak_fallback`, `_teardown`, `submit_*`, `handle_audio` | caller speech is answered once; one response at a time; interruption state belongs to its response; a call that is over is hung up and cleaned up |
| turn manager, `turn_manager.py` | transcript buffer | `handle_event` | nothing said is lost or repeated |
| barge-in handler, `barge_in.py` | speaking and interrupted flags | `handle_barge_in`, `was_interrupted` (reading resets) | flags describe the response they were set for |
| limits, `limits.py` | token budget; number of calls | `record`, `exhausted`; `try_acquire`, `release` | announced once; a slot is released exactly once |
| benchmark policy and milestones, `benchmark.py`, `settings.py` | sink file | `interruption_source`, `emit` | only configured signals interrupt |
| STT client, `stt.py` | socket, bounded feed, reconnect budget | send loop, receive loop, `aclose` | bounded reconnects, one report of failure, no socket left behind |
| TTS client, `tts.py`, `audio.py` | socket, pump, decoder thread and two queues | `synthesize` | no deadlock of thread and task, no leak when cancelled |
| call server, `server.py`, `transport.py`, `__main__.py` | pending tokens, agent registry, limiter | webhook, `media_ws`, shutdown | a token is used once; every call's slot and entry are released |
| tools and flow, `tools.py`, `prompts.py`, `types.py` | current node | `execute` | failures become results |
| stream retry, `retry.py` | none | `retry_stream` | never repeats what was yielded |
| VAD, `vad.py` | run counters | `process` | onset and offset alternate |
| Telnyx client, `telnyx.py`, `ports.py`, `logging.py` | HTTP client | hangup, dial, LLM stream | (pure formatting and I/O) |

How they interact. `VoiceAgent.run` is the only consumer of one event queue. The
STT client, the VAD in `handle_audio`, the server's read loop (marks, hangup) and
the socket error callbacks only put events in it. `run` creates at most one
response task, which calls the LLM, the tools and the TTS and is the only producer
of the media stream; the media stream's pacer is a task of its own. The server
creates and may cancel `run`. All of this is one asyncio event loop, so code between
two awaits is atomic, and the hard behaviour is at the awaits:

- between an interruption and the cancellation of the response, `run` awaits the
  clear; the response runs on, ends, fails or apologises meanwhile;
- a superseded response is cancelled and awaited, and ends in one of several ways;
- a producer blocked in `put()` is woken by the drain of a flush, after the clear;
- echoes of marks come late, for a dead utterance, or never;
- `finally` blocks await four more times, and each await can be cancelled;
- flags are reset by reading them, and set on behalf of whoever speaks.

### The bench (`src/bench`)

| part | state | operations | what makes it correct |
|---|---|---|---|
| probe controller, `acoustic_probe.py` | state of the probe, two legs, seen webhooks, tokens, sockets, watchdog, teardown task | `dial`, webhooks, media sockets, bridge, fixture hand-off, `watchdog`, `hangup_both`, shutdown | bridged once, for two answered legs; measured in the order greeting, stimulus, response; the run ends and the legs it knows are hung up |
| SIP session, `sip_harness.py` | phases, deadlines, received frames, voids | `handle_*`, `tick`, `report_rx_loss`, `observe_delivery_counters`, `apply_echo_verdict`, `_analyze`; the loop of `run_live_call` in `sip_media_pjsua.py` | a silence it judges is real silence, not audio that was made up for packets lost and reported late, as far as its polls can tell; a complete result has its windows in order and its stimulus transmitted |
| media capture, `media_capture.py` | stream tokens, six counts of ordering, two bounded captures | `issue`, `consume`, `remove_expired`, `observe_frame`, `append`, `unresolved` | a token opens one socket; loss leaves a trace in the counts |
| live runner and webhook lease, `live_phase3.py`, `live_calibration.py` | the webhook that was configured, server process, evidence files, records | `__aenter__`, `__aexit__`, `run` with `_wait_health`, `_new_artifact`, `_classify` and the records | a trial counts only on its own server's evidence; each run restores the webhook it found |
| trial classification, `phase3.py` | none | `classify_trial` | eligible means no defect in any fact it reads |
| stop detector, `acoustic_stop.py` | detector over windows | `analyze_acoustic_stop` | floating-point thresholds |
| analysis, rendering, `scripts/` | files | batch functions | none over time |

The probe's socket handlers, webhooks, deadline tasks and teardown task share one
`ProbeController` on one event loop; `MediaCapture` holds the parts its sockets call
with every frame. The SIP session is driven by `run_live_call`, while the media stack
(pjsua, outside the repository) delivers frames and counts lost packets. The live runner
starts a server process and the harness as children, holds the webhook lease around
them, and may be killed and started again over the files of an earlier run.

`PROJECT.json` lists every part with its status, and under `hazards` the lines
where something can go wrong that a test would hardly reach, with the properties
that watch them.

## Modules

| module | models | state and actions |
|---|---|---|
| `Playback` | what the outbound stream promises | `played` is what the socket was given, `live` the utterances that may still sound; `Begin`, `Play`, `End`, `Abandon`, `Interrupt`, `Close`, and neither queue, pacer nor epoch |
| `MediaStream` | `media.py`, its producer `_speak` reduced to its calls | `out` is the queue, `wire` every message given to the socket; `SendAudioFrame`, `SendMark` and `PutWakes` are the producer, `Pacer*` the pacer, `FlushStarts`/`FlushReturns`/`FlushCancelled` the two halves of `flush()`, `Aclose`. `Abstract` is the INSTANCE of `Playback` with its refinement mapping |
| `Conversation` | `conversation.py` | operators: `AddUserTurn`, `AddAssistantTurn`, `AddToolResult`, `Trim`, `WellFormed` |
| `VoiceAgent` | `agent.py` with `turn_manager.py`, `barge_in.py`, the exhausted flag of `limits.py`, the policy of `benchmark.py` | `runPc` is where `run()` awaits, `r` the response task with its locals; one action per stretch of code between awaits. `turns` and `committed` remember what was taken from the caller, whatever `history` keeps of it |
| `AgentAudio` | `VoiceAgent` with what the caller is given | `played` is the history of the line: the oldest of `air` when it is played, and the clear of a flush. `Line` is the INSTANCE of `Playback` with the agent's speaks as its utterances |
| `CallServer` | the call path of `server.py`, `transport.py`, the limiter, shutdown | `sock[s]` is the `media_ws` handler of socket `s`: where it awaits and what it holds; `agents` is the registry, `tokens` the pending stream tokens, `active` the limiter's count, `doomed` what the shutdown's loop has still to end |
| `SttClient` | `stt.py` | `recv`, `send` and `closer` are where the receive loop, the send loop and `aclose()` await, `feed` is the bounded queue, `attempt` the reconnects since the last message |
| `InboundAudio` | `handle_audio` with `vad.py` in front of `SttClient`, which it EXTENDS | `mute` is what is left of the guard, `vad` the detector; `HandleAudio` gates a frame, scores it and feeds it or silence |
| `TtsClient` | `tts.py`, streaming and buffered | `gen`, `pump` and `decoder` are the generator, the receive pump and the decoder thread, `feedq` and `outq` the queues between them; `Abandoned` is an interruption at any await |
| `AcousticProbe` | `ProbeController` with its routes | `dial`, `legs`, `answered` and `states` are the calls' progress, `tokens`, `authed` and `sock` the media sockets by role, `watch` the watchdog, `hang` the teardown task |
| `MediaCapture` | `StreamTokenStore`, `OrderingTracker`, `BoundedCapture`, `CrossLegCapture` | `pending` are the tokens in the store, `stream` is what was sent, `received` how many frames arrived; `integrity` and `capture` are the two captures with their counts; `heard` and `spoken` remember which numbers arrived |
| `SipSession` | `SipSession` and the poll loop of `run_live_call` | `s` is the session with its frames, voids, deadlines and outcome, `pc` where the loop is; `concealed` and `missing` are what the media stack made up and has yet to count; `overlooked` is the concealed audio that no poll could tell of |
| `LiveRun` | the runner of `live_phase3.py`, `WebhookLease`, `classify_trial`, the milestone file of `benchmark.py` | `pc` is where the runner is, `own` and `orphan` the servers of this trial and of a killed run, `events` and `logs` the files, `records` and `session` what is concluded; `Killed` may come anywhere |

A module `XProofs` holds the theorems about module `X`: `MediaStreamProofs`,
`VoiceAgentProofs` (with `AgentAudio`), `CallServerProofs`, `SttClientProofs` (with `InboundAudio`),
`TtsClientProofs`, `AcousticProbeProofs` (with `MediaCapture`, the probe's sockets),
`SipSessionProofs`, `LiveRunProofs`. The definitions of `MediaCapture` have names of their
own (`CaptureSpec`, `SocketRoles`), so that one module can extend both.

How they compose. `VoiceAgent` EXTENDS `Conversation` and keeps its history as a
variable. Of the media stream it has what its own code sees: `air` is everything accepted
and not yet played, emptied by a flush, with the epoch compared when something is accepted.
`Playback` is the promise on both sides of that: `MediaStream!ImplementsPlayback` shows that
`media.py` keeps it for utterances that anybody begins, and `AgentAudio!HeardAsPromised`
that the agent's responses, barge-ins, failures and cancellations never make the caller
hear anything else, with `air` for queue, pacer and Telnyx's buffer. Also, `MediaStream!ProducerReleased` is what justifies that in
`VoiceAgent` an accepted frame never blocks the response. `InboundAudio` puts the gate
and the detector in front of `SttClient`; every step of it is a step of the client or
leaves the client alone (`GatedClientIsClient`). `CallServer` contains the agent as
what its own code calls on it: start, run, stop, cancel.

Correspondence of `VoiceAgent` to the code, in the order of a call:
`Connects` (STT opened or not, greeting task), `Takes` (the `events.get()`),
`BargesIn` and `Flushed` (the two sides of `await handle_barge_in()`), `Listens` and
`Answers` (the turn manager without and with a turn), `Supersedes`, `Reaps` and
`ReapRaises` (cancel and await the old response), `SpeakEnds`, `HangsUp`,
`IgnoresInput`, `RunFails`, and the `finally` block: `HangsUpDegraded`, `TornDown`,
`ClosesStt`, `ClosesMedia`. The response task is `GreetStarts`, `ReplyStarts` or
`ReplySkipped`; `Llm*`, `Tool*`; `FrameSent`, `SynthesisEnds`, `SynthesisFails`;
`PlayConfirmed`, `PlayTimesOut`; `ReplyHangsUp`; and cancellation,
`CancelledInside` the `try` block or `CancelledOutside` of it. The `finally` block of
the response is `Finish`, part of every action that reaches it.

## Properties and runs

| run | question | properties |
|---|---|---|
| `media_stream` | Queue, pacer, flush, dead socket and close in every interleaving | nothing interrupted is sent after its clear (`SilentAfterClear`); what goes out is an abstract playback: utterances in order, each a prefix without gaps, its mark behind all of it (`ImplementsPlayback`); a blocked producer is released (`ProducerReleased`) |
| `agent_turns` | Greeting and two utterances in full duplex, synthesis that fails | what the caller said is committed once and in order (`CallerSpeechExactlyOnce`); flags describe the response there is (`SpeakingFlagExact`, `InterruptionOwned`); a response completes by its own mark (`OnlyOwnMarkCompletes`); what an interruption cut is recorded as cut (`InterruptedRecordsAreCut`); the caller hears the agent's speaks one after another, each frame by frame and once, and after a clear nothing begun before it, while a superseded reply is heard out ahead of the next (`HeardAsPromised`); `OneGenerationAtATime` |
| `agent_tools` | With and without a greeting, tool rounds cancelled, failing or raising anywhere, with trimming, and a budget that may run out | the history is one the language model accepts (`HistoryWellFormed`); trimming keeps the recent turns (`RecentTurnsKept`); `BudgetToldOnce`; `NoTurnAfterEnding` |
| `agent_endings` | Every way a call ends, with the server's cancellation at every await | nothing is left behind (`CleanEnd`); an ending or degraded call is hung up (`CallsAreEnded`); the agent stops speaking and hears again (`CallerHeardAgain`) |
| `call_server` | Repeated webhooks, replayed and evicted tokens, three sockets of two calls under a limit of two, half-failed starts, a shutdown | `SlotsExact`, `TokensExact`, `AgentsAccounted`; a slot is given back (`SlotReturned`) |
| `inbound_audio` | The caller's frames through gate, detector and feed to an STT socket that dies, reopens, dies at once and is closed meanwhile | the feed is the newest frames without a gap (`FeedIsNewest`); the budget bounds a silent provider and its end is told once (`BudgetExact`); `NothingLeftOpen`; no echo of the agent is heard or scored (`EchoSilenced`); a recovery ends (`RecoveryEnds`) |
| `tts_client` | One synthesis, streaming and buffered, every end of the provider, interrupted at every await | a synthesis that reports success yielded what was received (`WholeReply`); `TornDown`; it answers (`SynthesisAnswers`) and its thread ends (`ThreadEnds`) |
| `probe` | Both kinds of probe call: webhooks, sockets, deadlines and shutdown in every order, repeated webhooks | `BridgeOnce`, `MeasuredInOrder`; the teardown ends and has hung up every leg known when it began (`CallsEnd`) |
| `capture` | Tokens that expire and fill the store; frames lost, repeated and reordered in two directions | what is lost shows in the counts (`LossLeavesATrace`); a token admits one socket, and is refused only while the store is full of usable ones (`TokenAdmitsOnce`) |
| `sip_session` | The five modes over a jittered call: runs of losses that outlast the jitter buffer, packets that arrive after they were counted as lost, failing polls, a late loop, competing deadlines | no concealed audio that a poll could tell of is certified as silence (`SilenceIsReal`) or judged (`JudgedIsReal`); `CompleteIsSound` |
| `live_run` | Two trials over three runs killed anywhere, servers left on the port, defective evidence | an eligible trial was called and served by its own server (`EligibleServedByOwnServer`); a run that is over left the webhook it found (`WebhookRestored`) |
| `supersede_ends_loop` | (expected violation) a second utterance while the first response has not begun | `SupersedingKeepsTheLoop`; see below |

Each property of a passing run has a mutant in `PROJECT.json`: an operator beside the
definition it replaces, that a plausible slip would produce, and under which the
property fails.

`CHECK_DEADLOCK FALSE` stands wherever the modelled thing ends: a call, a synthesis,
a run of the runner, a media stream whose bounds are used up. `SipSession` is the one
that may stop only when the call has ended (`Ended`), and its configuration checks for
deadlock: a session stuck between two phases, past every deadline, would show as one.

## Bounds

All bounds are constants named in the modules.

- `MediaStream.cfg`: a lead of 2, so the queue fills with one frame in flight; 2
  utterances of 3 frames, so that a producer blocks, an utterance is longer than
  the queue and a later one follows a flush; 2 flushes, so that a second one meets
  the leftovers of the first. A dead socket and a close may come anywhere.
- Agent runs: 2 final transcripts and 2 ends of utterance (1 and 1 in `agent_endings`,
  whose subject is the end) give a turn, a turn that supersedes it, an utterance of two
  finals, and a barge-in by one of them that is also the next turn. One frame per
  text is enough to tell speaks apart; the order of frames within one is proved for any number
  (`AgentIsHeardAsPromised`) and checked on `MediaStream`. `agent_turns` remembers all that
  was played and has no tool rounds, which are `agent_tools`' subject. `MaxToolRounds`
  is otherwise 1, so that a round and the refusal of a second happen; in `agent_tools` a round
  has up to 2 calls, so that one is answered and one is open when a cancellation comes.
  `MaxTurns` is 1 there, so that a second turn trims the first with its tool round.
  `MaxTriggers` is the number of VAD onsets and interim transcripts; finals interrupt as well, so runs with 0 still barge in.
- `Faults` chooses the external failures of a run: STT not opening (`connect`), the
  LLM stream (`llm`), a raising tool (`tool`), synthesis (`tts`), a dead socket
  (`socket`), an exception in the run loop (`sink`), a cancellation by the server
  (`cancel`).
- `CallServer.cfg`: 2 calls and 3 sockets, so that one call has two sockets while
  another waits; a limit of 2 calls, so that two agents run at once, also both of one call, and
  a third socket is turned away; 1
  pending token and 3 webhooks, so that a token is evicted and minted again. With and
  without the benchmark's single call.
- `InboundAudio.cfg`: one reconnect, so that the budget is both used and exhausted; a
  feed of 2 and 4 frames, so that it drops the oldest twice; one message, which renews
  the budget; a guard of 3 with frames at most one tick apart, so that a speech of
  the agent ends between two frames; an onset of 2 frames and a rearm of 1.
- `TtsClient.cfg`: 3 chunks to a frame and 7 chunks, so that two frames and a padded
  remainder come, with chunks in either queue when the end or an interruption arrives.
- `AcousticProbe.cfg` has one constant, the kinds of probe: a run has two legs, and every
  webhook may be repeated, also after its id was forgotten.
- `MediaCapture.cfg`: a store of 1 with 2 tokens and a lifetime of 2 on a clock of 3, so
  that a token expires, is refused and is used; 3 frames sent and 3 received, so that
  loss, a repetition and a reordering, two of them together, can happen; 3 rows and 2
  bytes, so that each capacity is reached before the other.
- `SipSession.cfg`: deadlines of a few ticks with a horizon past
  them, far enough for a complete measurement with a run of losses in it; one void tolerated; a
  jitter buffer of 1 and runs of up to 4 lost packets (`MaxLost`), so that a run outlasts the
  buffer and a poll falls into it; one packet that arrives after it was counted (`MaxLate`);
  one fault besides, be it a run of losses, a failed poll, a burst, a late turn of the loop or an
  ending; two changes of the agent's level, so that it speaks and stops.
  Longer holds and delays than these only stretch the run: `SipConstants` keeps what matters
  of their proportions, the padding that covers buffer and lag. The theorems hold for every
  `MaxLost`, `MaxLate` and `MaxFaults`.
- `LiveRun.cfg`: 2 trials and 3 runs: killed, resumed, and once more after its evidence
  was found defective; 1 defect.

## Fairness

`MediaStream`: weak fairness of the pacer (the event loop runs a ready task, and a
`send_text` returns or raises) and of a producer whose put has room. Nothing is
assumed of who speaks, flushes or closes.

`VoiceAgent`: weak fairness of the run loop and of the response task. The event loop
runs ready tasks, and everything they await comes to an end by itself: LLM stream,
synthesis, hangup and STT opening have timeouts; the wait for a mark has its own
(`PlayTimesOut`); a put is released (`ProducerReleased`); tools are assumed to
return. The caller, Telnyx and the server owe nothing: no property relies on a
mark, a transcript, or a hangup from outside.

`CallServer`: weak fairness of each handler's own steps and of the shutdown's loop; the
wind-down of an agent is bounded by the `wait_for` around it. No socket need ever close
and no webhook arrive.

`SttClient`: a sleep ends, an attempt to open ends (its timeout), and a cancelled task
sees its cancellation. The provider need never say anything: `RecoveryEnds` holds
because a socket that only dies uses the budget up.

`TtsClient`: pump, decoder thread and generator take their steps; a receive ends by its
timeout. The consumer may stop asking.

`AcousticProbe`: deadlines pass, and the tasks they start run. Nothing is assumed of
Telnyx, of the sockets or of the operator: `CallsEnd` rests on the watchdog.

`MediaCapture`, `SipSession` and `LiveRun` state only safety and assume no fairness.

## Proofs

`MediaStreamProofs` proves, for every lead of at least one and every number of
utterances, frames and flushes (`LeadFramesAssumption`, `BoundsAssumption`):

- `TypeCorrect`: `TypeOK`, which is inductive as it stands. With it the queue never
  exceeds the lead. `PutTypes`, `TakeTypes` and `StarveTypes` are the lemmas about
  putting, taking and counting.
- `Silence`: `SilentAfterClear`. It is not inductive: a frame of the current epoch
  is appended, and one must know that nothing on the wire is newer.
  `SilenceInv` adds that every message's epoch is at most the current one. That the
  queue may hold a stale item does not matter, because the pacer compares at the
  moment of sending.
- `OneStaleItem`: at most one item left from before a flush is queued. `StaleInv` adds
  why: a producer that is blocked holds an item of the epoch its utterance began with,
  and while that item is stale the queue holds no other stale item. Every other put has
  compared the epoch in the same step.
- `ClosedForGood`: the action property that closed is final, from `ClosedInv`: a closed
  stream has no pacer.
- `Implements` (`ImplementsPlayback`): every step of the stream is a step of `Playback` or
  one that only silences. The mapping reads an utterance as live while a current item of
  it is queued or its producer is at work in the epoch it began in. The invariant is
  `LineInv`: wire, queue and producer together hold every utterance of the current epoch
  frame by frame and in order, each frame behind its predecessor, each mark behind its
  last frame. Stale items do not count, so the puts (`LinePuts`), the takes (`LineTakes`)
  and the drains (`LineCleared`) are one lemma each. `TakeFades` is the step that a tester
  would doubt: when a mark goes out nothing of its utterance is queued behind it and its
  producer is done, so the utterance is over.

`VoiceAgentProofs` proves, for every configuration, every set of faults and every
number of events, calls and frames:

- `FlagExact` and `FlagOwned` (`SpeakingFlagExact`, `InterruptionOwned`), from
  `FlagInv`: the two flags of the barge-in handler describe the response there is, and
  before `Connects` there is none. `StartSpeakFlags`, `FinishFlags`, `NewFlags` and
  `SameFlags` say what beginning to speak, the finally block, a new generation and
  everything else do to them.
- `OneGeneration` (`OneGenerationAtATime`): only `Connects`, `Answers` and `Reaps`
  allocate a generation (`WhoAllocates`), and with `FlagInv` none of them does so while
  a response lives.
- `EndingTakesNoTurn` (`NoTurnAfterEnding`). The difficult case is a turn that waits
  for the old response: a tool of that response must not end the conversation
  meanwhile. `EndInv` says why it cannot: while the turn waits the old response is
  cancelled, because a generation whose cancellation was requested has it pending or is
  already hanging up, and it hangs up only when the conversation is ending.
- `OverIsClean` (`CleanEnd`), from `OverInv`: what `_teardown` has closed, step by step,
  unless the server cancelled the loop.
- `InterruptedIsSilent` (`InterruptedSpeakSilent`, which no run states because `HeardAsPromised`
  would fail with it), from `SilentInv`: the utterance of the
  current speak is of the present epoch or an earlier one, and if it is of the present one
  the speak was not interrupted; so what the port accepts (`SoundSilent`) is never of an
  interrupted speak. Every flush moves the epoch on (`FlushSilent`).
- `RecordsAreCut` (`InterruptedRecordsAreCut`), from `CutInv` together with `FlagInv`: while
  a response may still be recorded there is no record of its generation, and the flag says
  whether that generation was interrupted. A barge-in comes only to such a response.
- `BudgetIsToldOnce` (`BudgetToldOnce`), from `BudgetInv`: before the announcement no text
  mentions it; afterwards the budget stays exhausted and only the response that made the
  announcement may record it.
- `OwnMarkCompletes` (`OnlyOwnMarkCompletes`), from `MarkInv`: the one mark of the current
  speak is in the air, on its way back, queued as an event or taken for the end, in exactly
  one of these at a time, and nowhere while the speak is being synthesized. Steps that only
  move the line up or add other things to it are one lemma (`CarriedMarks`).
- `CallerIsHeardOnce` (`CallerSpeechExactlyOnce`), from `SpeechInv`: the final transcripts lie
  in one line that ends where the caller spoke last, committed turns first, then the turn that
  waits, the buffer, the event `run` holds across the clear, the queue. A step moves the borders
  of this line and nothing in it; `held` is what the barge-in has taken and not yet handled.
- `HistoryIsWellFormed` and `RecentTurnsAreKept` (`HistoryWellFormed`, `RecentTurnsKept`), from
  `HistInv`: the history becomes well formed once the calls still open are answered, which is
  what the exits of a tool round do (`FillResults`, `AnswersTo`). `TrimShape` says what `Trim`
  returns: a suffix the loop stops at, which keeps no fewer turns than the bound allows, and in
  front of which the last message dropped is a user turn (or only user turns remain). It is the
  first suffix the loop stops at, so the lemma needs a least number: `LeastNat` has it from the
  library's theorem that < is well founded on Nat. A cut behind a user turn never parts a call from
  its result (`DropKeepsForm`), so trimming keeps the form, also in the middle of a tool round
  (`TrimKeepsForm`).

- `AgentIsHeardAsPromised` (`HeardAsPromised`): every step of the agent is a step of `Playback`
  or a stutter. `StepSounds` sorts the agent's actions by what they do to the sound:
  a speak begins, a frame or a mark is handed over, something is played, a flush, a dead or closed
  socket, or nothing. The invariant is `AudioInv`, about `Given`, what was played followed by what
  is on its way: it is in the order of the speaks (`InTurn`), each frame behind its predecessor
  and new (`Framed`), each mark behind its last frame and before nothing of its speak (`Fenced`),
  and of a speak that the port still takes it is exactly what was handed over (`Underway`). Playing
  leaves `Given` as it is (`CarriedGiven`), accepting makes it one longer (`AcceptedGiven`), and
  a flush or a dead socket cuts it to what was played. `SilentInv` says that a speak begun before
  a flush is never taken after it.

`CallServerProofs`, for every set of calls, number of sockets, limit, capacity and number
of webhooks:

- `SlotsAreExact` (`SlotsExact`), from `SocksOK`, which says of every point of a handler
  what it holds: `active` is the number of handlers that hold a slot.
  The count is a cardinality, so each acquiring and releasing step is one set gaining or
  losing one element; a handler holds a slot from its acquisition to its `finally`,
  whatever happens between.
- `AgentsAreAccounted` (`AgentsAccounted`), from `Registry` and `Found`: an agent that
  runs is the registered one of its call or was displaced by another socket of the same
  call, which a handler that ends makes as well: it pops the entry of its call whatever agent
  it names (`server.py:360`). The agent so hidden is excepted (`Shadowed`); when its own handler
  returns it is gone, agent and slot.
- `TokensAreExact` (`TokensExact`): `EvictedBound` is the pigeonhole behind it. At most
  `MaxPending` tokens have fewer than `MaxPending` younger ones, so what an eviction
  leaves is within the bound, and a token it drops was `MaxPending` younger ones behind.

`SttClientProofs`, for every budget, feed and number of frames:

- `NothingIsLeftOpen` (`NothingLeftOpen`), from `Teardown`, which says for each point of
  `aclose` what is already cancelled, finished and closed, also when the receive loop
  was opening a socket at that moment.
- `BudgetIsExact` (`BudgetExact`), from `Budget`: reconnects used since the last message
  plus the report given never exceed what the configuration allows.
- `FeedIsTheNewest` (`FeedIsNewest`), from `InOrder`: heard, in flight and fed frames are
  increasing, and the feed is an interval up to the last frame.
- `GatedClientIsClient`: `InboundSpec => Spec`, so the above hold behind the gate.
  `EchoIsSilenced` (`EchoSilenced`), from `Guarded` and `Silenced`: once a frame fell into
  a speech, what is left of the guard and what has passed since the speech add up to the
  guard less the gap between two frames.

`TtsClientProofs`, for every number of chunks and every size of a frame:

- `TypeCorrect`, and `SynthesisTornDown` (`TornDown`), from `Teardown`: for each point of the
  generator's exit whether the pump was cancelled, has ended, and the socket was closed.
- `ReplyIsWhole` (`WholeReply`), from `Accounts` and `Stages`. `Accounts` keeps the books of both
  queues: no end mark precedes a chunk, and with n chunks left to decode a running decoder has
  made the whole frames of the others, an ended one every frame, the padded one included.
  `Stages` says what there can be at each await of the generator, so that the end it reports
  success on is the end of those books. `FramesGrow`, `WholeFramesGrow`, `SomeFrame` and
  `NoFrames` are facts about the quotient, from `Divided` and `DividedOneWay`.

`AcousticProbeProofs`: `TypeCorrect`, in named parts because one proof of the conjunction is too
large for the prover. `BridgedOnce` (`BridgeOnce`), from `Bridging`: the bridge is
requested by whichever webhook finds both legs answered, and the state it moves to keeps
every later one out, repeated webhooks included. `MeasuresInOrder` (`MeasuredInOrder`),
from `Ordered`: what each state of the probe has already seen.

The same module about `MediaCapture`, for every capacity, lifetime and number of frames:

- `TokensAdmitOnce` (`TokenAdmitsOnce`), from `Tokens`: a token in the store was issued and
  not yet admitted, and every usable token is in the store. What a refusal leaves in the store was purged
  of the expired, so the store that refuses is full of usable tokens.
- `NoLossIsSilent` (`LossLeavesATrace`), from `Audio`: while no limit was hit, the counts of
  the socket's tracker are empty exactly as long as the numbers heard are consecutive
  (`Socket`), and then the channel's tracker has counted nothing either: the chunks of the
  measured track are consecutive too, and the last of them is the one both trackers remember
  (`ChannelTracker`). The step rests on the provider's numbering: among frames of increasing numbers
  (`NumbersGoUp`) the next of a track has the next chunk (`NextChunk`), so that a gap in the
  chunks cannot come without one in the numbers. `InStep` ties the chunk a tracker remembers to
  the latest frame of its track.

`SipSessionProofs`, for every length of buffer, pad, polls, windows and deadlines that
`SipConstants` admits, loss runs of any length and every number of late packets and faults:

- `SilenceIsHeard`, `JudgedIsHeard` and `CompleteMeasurementIsSound` (`SilenceIsReal`,
  `JudgedIsReal`, `CompleteIsSound`), from `Invariance` of `IInv`, which has two halves.
- `Sound(S, H, w)` is the half about the session S alone, when concealed audio that
  a poll can tell of (`Tellable`) is heard at the times H and packets are transmitted if w. A frame is recorded in every tick from the answer on
  (`Recorded`); the anchor comes before what is measured, no less than `Arm` windows after
  the answer (`Anchored`); the spans certified hold no concealed audio (`Stopped`,
  `Separated`), nor does what is judged (`Judged`, with `Responds` for where it may begin); the
  stimulus comes after the stop, in phase 3 by its schedule (`Stimulated`); no active window lies
  over it (`Undisturbed`); and it is confirmed only when packets are transmitted, but no later
  than the poll that moves the watermark past its end (`Delivered`). Every operator of the session
  keeps `Sound` as long as the voids can be trusted up to the watermark (`Trusted`):
  `ScanWindowSound` for one window by its stage, `ScanSound` for the whole scan, then
  `SeparatingSound`, the three snapshots, `AnalyzeSound`, `TickSound`, `ApplyVerdictSound`,
  `PollSound`, `ReceiveRxSound`, `PullTxSound`. What is sound for H is sound for less of it
  (`FewerSound`).
- The other half is why the voids can be trusted. `Losing`: a lost packet is counted as soon as
  the next one arrives, and the count is behind what the loop knows only after it was revised
  downward. `Covered`: concealed audio lies in a void, or in the first `Arm` frames, which no
  certificate reaches, or it is heard no earlier than the last poll, and once its loss is
  counted the next poll finds it, or it is overlooked. That this exception is no larger than it must be is
  `OverlooksOnlyLongRuns`: a poll overlooks something only while a run of losses longer than the
  buffer and one frame is not counted yet, or after the counter was revised downward; without either
  the spans certified and judged hold no concealed audio at all.
  `Turning`: the loop is on time up to `Lag`, so that the void which that poll reports, with its
  pad, reaches what is still in the buffer. While a verdict waits for its delivery none of this
  is needed, since nothing more is certified; in a measurement whose
  packets are transmitted no verdict waits, because the fixture is confirmed by the poll that lets
  its audio be judged.
- The scan is a recursive function, of which the provers know only its equations. That the
  equations have a solution (`ScanExists`) and that all windows up to n keep `Sound` are
  shown by least counterexample (`LeastNat`), which needs no induction over data.

`LiveRunProofs`: `LeaseGivenBack` (`WebhookRestored`), from `Lease`; `EligibleIsOwn`
(`EligibleServedByOwnServer`), from `Shape`, `LeftOver`, `OwnEvents` and `Recorded`: events
are in the milestone file only of a server that could create it, and a record is written
only after its own server was started on a free port.

The temporal step of every theorem is by LS4; each proof of an inductive step has one
step per action.

Checked by TLC only: liveness and what needs ENABLED, which are out of the prover's
reach (`ProducerReleased`, `CallsAreEnded`, `CallerHeardAgain`, `SlotReturned`, `RecoveryEnds`,
`SynthesisAnswers`, `ThreadEnds`, `CallsEnd`), and that the loop of `SipSession` never stops
short of its end, which is the deadlock check of its run.
Every other property of a passing run is a theorem. Two of them were restated so that they
could be reasoned about: `CallerSpeechExactlyOnce` and `LossLeavesATrace` quantify over positions
of `committed`, `heard` and `spoken` where a fold or a selection would have said the same. One
was corrected: for `MaxTurns` = 1 a history may keep two user turns, since the loop of `_trim`
stops at two messages whatever they are (`conversation.py:95`), which is the second disjunct
of `RecentTurnsKept`. In `SipSession` the scan and the separating silence, which were
folds, are a recursive function and the first window that satisfies `Separates`; the states TLC
finds are the same in number. No module declares a recursive operator, with which the prover would lose
its arithmetic backend: `Trim` chooses the first suffix at which the loop of the code stops.

## Where code and documents disagree

`supersede_ends_loop`, which TLC refutes (`findings` in `PROJECT.json`): an utterance
that supersedes a response which has not taken its first step, or which speaks its
apology, ends `run()`: the response ends with `CancelledError`, and
`suppress(Exception)` at `agent.py:433` does not hold it back. `tests/test_agent.py:418-430`
(`test_new_turn_supersedes_in_flight_response`) requires that the superseding turn is answered and
the loop ends without an exception, for a response that awaits the language model;
`tests/test_agent.py:440-441` says that a real turn after an interruption is handled normally.

Observations made while translating, which have no run of their own:

- In half duplex a late end of utterance cancels the reply that is being spoken
  (`agent.py:428`), where the comment at `agent.py:374-376` lets the turn finish.
- A reply superseded before any of it was synthesized is recorded in full
  (`agent.py:701`); the comment at `agent.py:740-742` says such a turn records nothing.
- Cancelling `run()` while it hangs up a degraded call skips `_teardown` (`agent.py:448`);
  `server.py:246-247` says that no exit leaves an orphaned task. `CleanEnd` therefore
  excepts a loop that the server cancelled.
- Synthesis failing while the clear is being sent makes the interrupted response
  apologise aloud, in the new epoch (`agent.py:694`); `README.md:92-95` says late work
  cannot resume a dead turn. `InterruptedSpeakSilent` is about the interrupted text.
- A superseded reply, as opposed to an interrupted one, is not flushed, so its queued
  sound precedes the next reply (`agent.py:430`). No document says whether it should;
  `HeardAsPromised` shows that the two do not mix.
- `flush()` reads `new_epoch` after its await, so that a socket dying meanwhile makes it
  `old_epoch + 2`.
- A receive timeout or a provider error after the first audio ends a synthesis as if it
  were complete (`tts.py:255-256` against `tts.py:305`). `WholeReply` is about what was
  received.
- Any message of the provider renews the STT reconnect budget, and a callback that raises
  leaves the socket open and replaced (`stt.py:124-142`); `NothingLeftOpen` counts these.
- Two tokens for one call admit two sockets, and the registry keeps one agent of the two
  (`server.py:360`): the shutdown cannot find the other. `AgentsAccounted` excepts it.
- A second benchmark call hangs up the empty call id (`server.py:283-290`).
- The half-duplex guard is counted from the last frame that came in while the agent spoke,
  not from the end of the speech (`agent.py:223-233`): it is short by up to the time between
  two frames, and absent after a speech no frame fell into. `EchoSilenced` is stated so.
- The watchdog of the probe does not look again after its sleep
  (`acoustic_probe.py:816-822`), so it may fail a call that has just completed; the seen
  webhook ids drop an arbitrary one at 1 024 (`acoustic_probe.py:895-896`), so any webhook
  may be handled twice, which `BridgeOnce` allows for.
- "Failure is named and followed by bounded teardown of both identified legs"
  (`PHASE2_REPORT.md:112`). The teardown makes its list of legs once
  (`acoustic_probe.py:1036`): leg A whose `dial()` returns later (881), or leg B whose
  `call.initiated` comes later (903-918), say after `leg_a_missing` (835-838), is never hung up.
  Nor is a leg tried again whose hangup request fails. `CallsEnd` is about the legs known
  when the teardown begins. A failure after the measurement
  leaves its verdict standing, against `PHASE2_REPORT.md:136-138`.
- "A lossy interval is voided" (`SIP_HARNESS_SPEC.md:95-112`), but the loss counter rises only with
  the next packet that arrives. While a run of losses outlasts the jitter buffer, each poll finds no loss,
  moves the watermark over concealed audio, and lets the void begin no earlier than itself
  (`sip_media_pjsua.py:363-386`): a long outage can be certified as the agent's silence, or be judged.
- A packet that arrives after it was counted takes the counter back. Between two polls this
  hides a loss whose concealed audio was heard, and after a poll the clamp (`max`,
  `sip_media_pjsua.py:365-368`) hides the next loss until the counter passes what was known.
  `SilenceIsReal` and `JudgedIsReal` except the audio of these two cases (`overlooked`) and nothing
  else; over all of `concealed` TLC finds each of them violated by either case alone.
- A stop found in a window later voided is retried, so a stop can be denied that
  `SIP_HARNESS_SPEC.md:187-188` would let stand.
- The webhook is not restored when the check in `__aenter__` fails after the change was
  made, since `__aexit__` is then not called (`live_calibration.py:39`, `76-96`);
  `WebhookRestored` excepts a run the API failed.
- A run after one that was killed with the lease finds the temporary URL, takes it for the
  original and restores it (`live_calibration.py:57-86`): the true original is lost.
  `WebhookRestored` speaks of what the run found.
- A raise leaves no record of the session, and a run after evidence was moved away makes
  the trial again (`live_phase3.py:5-7`, `BENCHMARK_PLAN.md` section 10);
  `classify_trial` may call a trial unsuccessful without naming a failure code.

## Abstractions

- Texts are members of `Texts`: what is said matters only as greeting, reply, budget
  notice or fallback. Configured messages and transcripts are not empty, and a spoken
  text is one utterance. A reply of white space only, which is recorded without being
  spoken, is left out. A final transcript is its number.
- `events.get()` may return without yielding when an event is queued; the model lets
  other tasks run between any two events, which allows more interleavings.
- The clear of a flush succeeds or fails without a difference to the agent. The end of
  the frames and the sending of the mark are one step, `SynthesisEnds`.
- A lost echo is one that is never delivered; an echo is delivered at most once.
- Clocks. Where only the order with other events matters a timeout may happen at any
  time of the wait (`PlayTimesOut`, STT, TTS, probe). Where durations matter there is a
  clock: the guard of `InboundAudio`, the expiry in `MediaCapture`, all of `SipSession`.
- A milestone sink that fails does so in the run loop, once STT is open; a failure
  inside the `finally` of a response is not modelled. What the failing iteration had
  already done to buffer and history is not kept, since nothing reads it afterwards.
- What is put in the queue after `run()` is over is never read and is not modelled.
- `TtsClient`: sound is chunks, `FrameChunks` of them a frame. `MediaCapture`: timestamps
  follow the chunk numbers. The retry around a first synthesis is the caller's.
- `AcousticProbe`: the signal analysis is its outcomes; `SipSession`: a received
  frame is the level its detector sees, concealed or not. Packets are transmitted during a whole
  call or not at all (`wire`), so a stimulus transmitted in part is not covered; a packet so late that the
  buffer conceals it without its being counted as lost, which the loss counter never shows, is left out. The bound on the total length of voids
  (`MAX_RX_VOID_TOTAL_NS`) and `finalize()` with its check of the RTP identity are left out.
- History variables, which no action reads: `turns` and `committed` (what was committed),
  `heard` and `spoken` (what arrived), `refused` (tokens not issued), `overlooked` and `revised`
  (what polls cannot tell of, and why), `played` (what the line carried), `recorded`, `bargedGens`, `bargedSpeaks`.
- `LiveRun`: the harness's call of a killed run has been taken or is lost before the next
  run starts, and every trial has a stimulus.
- Undefined order exists only between tasks, threads and processes; there are no data
  races, since shared state belongs to one event loop and the decoder thread speaks
  through queues.

## Not modelled

- `telnyx.py`, `ports.py`, `logging.py`: request formatting, signature verification, SSE
  parsing. No state is shared; the outcomes appear where they are used.
- `acoustic_stop.py`: thresholds over floating-point energies, for which TLC has no numbers.
- `phase3_analysis.py`, `calibration_review.py`, `render_phase3_pair.py`, `scripts/`: batch
  work over finished files and manual tools, with no behaviour over time.
- The sum of tokens in `TokenBudget` (the agent sees only whether it is exhausted), `retry_stream`
  (an LLM stream that ends or fails for good), the calibration runner (the lease of `LiveRun`
  around a single call), the loading of manifests, the texts of prompts and nodes.
- Audio conversion, configuration, logging.

## Plan

Done: every component with behaviour over time has a module, its runs and its theorems, and
every safety property of a passing run is proved. What is left, in the order of its worth:

1. `VoiceAgent` over `MediaStream` and `SttClient` themselves instead of what they promise; the product is too large for TLC with the present bounds.
2. `SipSession` with the bound on the total length of voids and with `finalize()`.
