---------------------------- MODULE AcousticProbe ----------------------------
(***************************************************************************)
(* The acoustic probe (bench/acoustic_probe.py): one run that dials a call *)
(* (leg A) to its own agent (leg B), bridges both, opens up to four media  *)
(* sockets, measures a greeting, plays a stimulus, measures the response,  *)
(* and writes a verdict.                                                   *)
(*                                                                         *)
(* Tasks on one event loop: the dial, one handler per webhook, one per     *)
(* socket, the fixture's HTTP response, the watchdog, the hangup, and the  *)
(* application's lifespan.  Audio is reduced to what its analysis finds;   *)
(* every deadline may expire whenever the code is waiting for it.          *)
(* Stream tokens (StreamTokenStore of media_capture.py) are named by role. *)
(***************************************************************************)
EXTENDS Integers, FiniteSets, Sequences

CONSTANT ReceiveOnly   \* config.probe_receive_only: the choices

ASSUME ProbeConstants == ReceiveOnly \subseteq BOOLEAN

VARIABLES
  receiveOnly,  \* the setting
  life,         \* "up", "ending", "down"
  dial,         \* "dialing", "done", "failed", "cancelled"
  legs,         \* identified legs, a subset of {"a", "b"}
  hook,         \* per webhook: "new", the stream it starts, or "done"
  answered,     \* legs whose call.answered was handled
  streams,      \* streams_started
  bridges,      \* bridge actions sent
  states,       \* the ProbeStates reached that something depends on
  tokens,       \* roles with a pending stream token
  authed,       \* roles that have authenticated
  sock,         \* per role: where its socket's handler is
  ready,        \* measured channels whose start was validated
  greeting,     \* greeting_started_ns is set
  stimulus,     \* the stimulus transport
  failed,       \* failure is set
  manifest,     \* the gate outcome last written
  watch,        \* the watchdog
  hang,         \* the hangup task: "none", "running", "done"
  target        \* the legs the hangup task was created for

callVars == <<dial, legs, hook, answered, streams, bridges>>
sockVars == <<tokens, authed, sock, ready, greeting, stimulus>>
verdictVars == <<failed, manifest>>
endVars == <<watch, hang, target, life>>
vars == <<receiveOnly, callVars, states, sockVars, verdictVars, endVars>>

Legs == {"a", "b"}
Roles == {"probe", "agent"} \cup (IF receiveOnly THEN {"monitor", "keeper"} ELSE {})
AllRoles == {"probe", "agent", "monitor", "keeper"}
Webhooks == {"initiated_b", "answered_a", "answered_b", "bridged_a", "bridged_b"}
AnsweredWebhook == [a |-> "answered_a", b |-> "answered_b"]
BridgedWebhook == [a |-> "bridged_a", b |-> "bridged_b"]

TypeOK ==
  /\ receiveOnly \in ReceiveOnly
  /\ life \in {"up", "ending", "down"}
  /\ dial \in {"dialing", "done", "failed", "cancelled"}
  /\ legs \subseteq Legs /\ answered \subseteq legs /\ target \subseteq legs
  /\ hook \in [Webhooks -> {"new", "done"} \cup AllRoles]
  /\ streams \subseteq Roles /\ bridges \in Nat
  /\ states \subseteq {"ANSWERED", "BRIDGED", "CONNECTED", "AGENT_AUDIO",
        "STIMULUS_STARTED", "STIMULUS_COMPLETED", "POST_STIMULUS", "COMPLETED"}
  /\ tokens \subseteq streams /\ authed \subseteq streams
  /\ sock \in [AllRoles -> {"off", "open", "waiting", "running", "requesting",
                            "stimulus", "matched", "closing", "hanging", "gone"}]
  /\ ready \subseteq {"probe", "agent"} /\ greeting \in BOOLEAN
  /\ stimulus \in {"none", "armed", "claimed", "sending", "completed", "failed"}
  /\ failed \in BOOLEAN
  /\ manifest \in {"CONDITIONAL_GO", "NO_GO", "COMPLETE"}
  /\ watch \in {"watching", "hanging", "ended"}
  /\ hang \in {"none", "running", "done"}

Init ==
  /\ receiveOnly \in ReceiveOnly /\ life = "up"
  /\ dial = "dialing" /\ legs = {} /\ hook = [w \in Webhooks |-> "new"]
  /\ answered = {} /\ streams = {} /\ bridges = 0 /\ states = {}
  /\ tokens = {} /\ authed = {} /\ sock = [r \in AllRoles |-> "off"]
  /\ ready = {} /\ greeting = FALSE /\ stimulus = "none"
  /\ failed = FALSE /\ manifest = "CONDITIONAL_GO"
  /\ watch = "watching" /\ hang = "none" /\ target = {}

\* fail(): the first failure is kept, and written at once.
Fail ==
  /\ failed' = TRUE
  /\ manifest' = IF failed THEN manifest ELSE "NO_GO"

MeasurementReady == ready = {"probe", "agent"}
Completed == "COMPLETED" \in states

-----------------------------------------------------------------------------
(* The dial *)

DialReturns ==
  /\ dial = "dialing"
  /\ dial' = "done" /\ legs' = legs \cup {"a"}
  /\ UNCHANGED <<receiveOnly, hook, answered, streams, bridges, states,
                 sockVars, verdictVars, endVars>>

DialFails ==
  /\ dial = "dialing"
  /\ dial' = "failed" /\ Fail
  /\ UNCHANGED <<receiveOnly, legs, hook, answered, streams, bridges,
                 states, sockVars, endVars>>

-----------------------------------------------------------------------------
(* Webhooks.  Telnyx sends them when the call got that far; the dial may be *)
(* the last to know.                                                        *)

Caused(w) ==
  CASE w = "initiated_b" -> dial \in {"dialing", "done"}
    [] w \in {"answered_a", "answered_b"} -> hook["initiated_b"] # "new"
    [] w \in {"bridged_a", "bridged_b"} -> bridges > 0

\* Telnyx may repeat a webhook.  webhook_is_new ignores an id it remembers,
\* which changes nothing; a full set forgets an arbitrary one first, so a
\* repeated webhook may also be handled again.
Delivered(w) == life = "up" /\ hook[w] \in {"new", "done"} /\ Caused(w)

At(w, where) == hook' = [hook EXCEPT ![w] = where]

\* An action whose result nothing waits for: done, or named, or a socket error.
Acts == UNCHANGED verdictVars \/ Fail

\* call.initiated of leg B: identified, and answered.
Initiated ==
  LET w == "initiated_b" IN
  /\ Delivered(w)
  /\ legs' = legs \cup {"b"} /\ At(w, "done") /\ Acts
  /\ UNCHANGED <<receiveOnly, dial, answered, streams, bridges, states, sockVars,
                 endVars>>

\* Mutant of MaybeBridge: it is not remembered that the bridge was requested.
MaybeBridgeAgain(w, ans) ==
  /\ At(w, "done")
  /\ IF ans # Legs THEN UNCHANGED <<states, bridges, verdictVars>>
     ELSE states' = states \cup {"ANSWERED"} /\ bridges' = bridges + 1 /\ Acts

\* Both legs answered: the bridge is requested once.
MaybeBridge(w, ans) ==
  /\ At(w, "done")
  /\ IF ans # Legs THEN UNCHANGED <<states, bridges, verdictVars>>
     ELSE /\ states' = states \cup {"ANSWERED"}
          /\ IF bridges = 0 THEN bridges' = 1 /\ Acts
             ELSE UNCHANGED <<bridges, verdictVars>>

\* _start_stream: a token, then the action that makes Telnyx dial the socket.
StartStream(w, role) ==
  streams' = streams \cup {role} /\ tokens' = tokens \cup {role} /\ At(w, role)

\* The stream is not started: the failure is named and the handler is over.
StreamRefused(w) ==
  /\ hook[w] \in AllRoles
  /\ Fail /\ At(w, "done")
  /\ UNCHANGED <<receiveOnly, dial, legs, answered, streams, bridges, states,
                 sockVars, endVars>>

\* call.answered of a leg that is not identified (yet) is dropped.
Answered(leg) ==
  LET w == AnsweredWebhook[leg]
      ans == answered \cup {leg}
  IN
  /\ Delivered(w)
  /\ IF leg \notin legs
     THEN /\ At(w, "done")
          /\ UNCHANGED <<answered, streams, tokens, states, bridges, verdictVars>>
     ELSE /\ answered' = ans
          /\ IF leg = "b" /\ "agent" \notin streams
             THEN StartStream(w, "agent") /\ UNCHANGED <<states, bridges, verdictVars>>
             ELSE MaybeBridge(w, ans) /\ UNCHANGED <<streams, tokens>>
  /\ UNCHANGED <<receiveOnly, dial, legs, authed, sock, ready, greeting, stimulus,
                 endVars>>

AgentStreamStarts ==
  /\ hook["answered_b"] = "agent"
  /\ MaybeBridge("answered_b", answered)
  /\ UNCHANGED <<receiveOnly, dial, legs, answered, streams, sockVars, endVars>>

\* After call.bridged, each remaining stream in turn, unless it was started.
NextStream(w) ==
  LET open == Roles \ streams IN
  IF "probe" \in open THEN StartStream(w, "probe")
  ELSE IF "monitor" \in open THEN StartStream(w, "monitor")
  ELSE IF "keeper" \in open THEN StartStream(w, "keeper")
  ELSE At(w, "done") /\ UNCHANGED <<streams, tokens>>

Bridged(leg) ==
  LET w == BridgedWebhook[leg] IN
  /\ Delivered(w)
  /\ states' = states \cup {"BRIDGED"}
  /\ NextStream(w)
  /\ UNCHANGED <<receiveOnly, dial, legs, answered, bridges, authed, sock, ready,
                 greeting, stimulus, verdictVars, endVars>>

StreamStarts(w) ==
  /\ w \in {"bridged_a", "bridged_b"} /\ hook[w] \in AllRoles
  /\ NextStream(w)
  /\ UNCHANGED <<receiveOnly, dial, legs, answered, bridges, states, authed,
                 sock, ready, greeting, stimulus, verdictVars, endVars>>

\* call.hangup of an identified leg, before the capture is complete.  Handling
\* it again changes nothing, so its id is not followed.
HungUpByFarEnd(leg) ==
  /\ life = "up" /\ leg \in legs /\ ~Completed
  /\ Fail
  /\ UNCHANGED <<receiveOnly, callVars, states, sockVars, endVars>>

-----------------------------------------------------------------------------
(* The media sockets *)

Move(r, where) == sock' = [sock EXCEPT ![r] = where]

\* Where a handler goes when it leaves its loop.
Left(r) == IF r = "probe" THEN "closing" ELSE "gone"

\* Authenticated: the token is consumed.
Connects(r) ==
  /\ life = "up" /\ r \in streams /\ sock[r] = "off" /\ r \in tokens
  /\ tokens' = tokens \ {r} /\ authed' = authed \cup {r} /\ Move(r, "open")
  /\ states' = states \cup (IF r = "probe" THEN {"CONNECTED"} ELSE {})
  /\ UNCHANGED <<receiveOnly, callVars, ready, greeting, stimulus, verdictVars, endVars>>

\* No connected frame in time, or a token that has expired.
RejectsSocket(r) ==
  /\ life = "up" /\ r \in streams /\ sock[r] = "off"
  /\ tokens' = tokens \ {r}
  /\ Fail /\ Move(r, Left(r))
  /\ UNCHANGED <<receiveOnly, callVars, states, authed, ready, greeting, stimulus, endVars>>

Measures(r) == IF receiveOnly THEN r \in {"probe", "monitor"} ELSE r \in {"probe", "agent"}
Channel(r) == IF r = "probe" THEN "probe" ELSE "agent"

\* A valid start.  The probe and the agent then wait for the bridge.
StartFrame(r) ==
  /\ sock[r] = "open"
  /\ ready' = IF Measures(r) THEN ready \cup {Channel(r)} ELSE ready
  /\ Move(r, IF r \in {"probe", "agent"} THEN "waiting" ELSE "running")
  /\ UNCHANGED <<receiveOnly, callVars, states, tokens, authed, greeting, stimulus,
                 verdictVars, endVars>>

ProbeBridged ==
  /\ sock["probe"] = "waiting" /\ "BRIDGED" \in states
  /\ Move("probe", "running")
  /\ UNCHANGED <<receiveOnly, callVars, states, tokens, authed, ready, greeting,
                 stimulus, verdictVars, endVars>>

KeeperReady == sock["keeper"] \in {"running", "gone"} /\ "keeper" \in authed

\* Mutant of AgentStarts: the caller line is not waited for.
AgentStartsEarly ==
  /\ sock["agent"] = "waiting" /\ "BRIDGED" \in states /\ MeasurementReady
  /\ Move("agent", "running")
  /\ UNCHANGED <<receiveOnly, callVars, states, tokens, authed, ready, greeting,
                 stimulus, verdictVars, endVars>>

\* The agent is built once the bridge, both measured channels and the caller
\* line are there.
AgentStarts ==
  /\ sock["agent"] = "waiting" /\ "BRIDGED" \in states /\ MeasurementReady
  /\ receiveOnly => KeeperReady
  /\ Move("agent", "running")
  /\ UNCHANGED <<receiveOnly, callVars, states, tokens, authed, ready, greeting,
                 stimulus, verdictVars, endVars>>

GreetingStarts ==
  /\ sock["agent"] = "running" /\ ~greeting
  /\ greeting' = TRUE
  /\ UNCHANGED <<receiveOnly, callVars, states, tokens, authed, sock, ready,
                 stimulus, verdictVars, endVars>>

\* The greeting and its natural stop were found: ask for the stimulus.
HearsGreeting ==
  /\ sock["probe"] = "running" /\ MeasurementReady /\ greeting
  /\ "AGENT_AUDIO" \notin states
  /\ IF receiveOnly
     THEN /\ stimulus' = "armed" /\ Move("probe", "requesting")
          /\ states' = states \cup {"AGENT_AUDIO"}
     ELSE /\ stimulus' = "sending" /\ Move("probe", "stimulus")
          /\ states' = states \cup {"AGENT_AUDIO", "STIMULUS_STARTED"}
  /\ UNCHANGED <<receiveOnly, callVars, tokens, authed, ready, greeting,
                 verdictVars, endVars>>

PlaybackRequested ==
  /\ sock["probe"] = "requesting"
  /\ Move("probe", "stimulus")
  /\ UNCHANGED <<receiveOnly, callVars, states, tokens, authed, ready, greeting,
                 stimulus, verdictVars, endVars>>

\* The paced frames of the stimulus, or the fixture's response, are through.
StimulusSent ==
  /\ stimulus = "sending"
  /\ stimulus' \in {"completed", "failed"}
  /\ UNCHANGED <<receiveOnly, callVars, states, tokens, authed, sock, ready,
                 greeting, verdictVars, endVars>>

\* GET /fixture: the token is claimed once; an expired one is not.
FixtureClaimed ==
  /\ stimulus = "armed"
  /\ stimulus' = "claimed"
  /\ UNCHANGED <<receiveOnly, callVars, states, tokens, authed, sock, ready,
                 greeting, verdictVars, endVars>>

\* The second chunk is handed over, or the response fails before.
HandoffStarts ==
  /\ stimulus = "claimed"
  /\ \/ stimulus' = "sending" /\ states' = states \cup {"STIMULUS_STARTED"}
     \/ stimulus' = "failed" /\ states' = states
  /\ UNCHANGED <<receiveOnly, callVars, tokens, authed, sock, ready, greeting,
                 verdictVars, endVars>>

\* The stimulus was found in the capture, clear of the agent.
MatchesStimulus ==
  /\ sock["probe"] = "stimulus" /\ stimulus = "completed"
  /\ Move("probe", "matched")
  /\ states' = states \cup {"STIMULUS_COMPLETED"}
  /\ UNCHANGED <<receiveOnly, callVars, tokens, authed, ready, greeting, stimulus,
                 verdictVars, endVars>>

CheckedSockets == {"agent"} \cup (IF receiveOnly THEN {"monitor"} ELSE {})

\* The response was heard: complete, then the checks on the whole capture, and
\* the manifest.
CapturesResponse ==
  /\ sock["probe"] = "matched"
  /\ states' = states \cup {"POST_STIMULUS", "COMPLETED"}
  /\ Move("probe", "closing")
  /\ \/ CheckedSockets \subseteq authed /\ manifest' = "COMPLETE" /\ failed' = failed
     \/ Fail
  /\ UNCHANGED <<receiveOnly, callVars, tokens, authed, ready, greeting, stimulus, endVars>>

\* Anything that ends the probe socket early: an error named in the loop, the
\* capture's timeout, a stop, a disconnect, a failed request or wait.
ProbeFails ==
  /\ sock["probe"] \in {"open", "waiting", "running", "requesting", "stimulus", "matched"}
  /\ Fail /\ Move("probe", "closing")
  /\ UNCHANGED <<receiveOnly, callVars, states, tokens, authed, ready, greeting,
                 stimulus, endVars>>

\* The other sockets: a bad start, an error or a wait that timed out fails the
\* run; so does losing the monitor or the keeper before the capture is complete.
\* One that ends without failing the run changes nothing anybody reads.
SocketFails(r) ==
  /\ r # "probe" /\ sock[r] \in {"open", "waiting", "running"}
  /\ Fail /\ Move(r, "gone")
  /\ UNCHANGED <<receiveOnly, callVars, states, tokens, authed, ready, greeting,
                 stimulus, endVars>>

-----------------------------------------------------------------------------
(* Teardown *)

\* hangup_both(): the first caller creates the task, for the legs known then.
StartHang ==
  IF hang = "none" THEN hang' = "running" /\ target' = legs
  ELSE UNCHANGED <<hang, target>>

\* The probe's finally block: stop the stimulus, close, hang up.
ProbeCloses ==
  /\ sock["probe"] = "closing"
  /\ Move("probe", "hanging") /\ StartHang
  /\ stimulus' = IF ~receiveOnly /\ stimulus = "sending" THEN "failed" ELSE stimulus
  /\ UNCHANGED <<receiveOnly, callVars, states, tokens, authed, ready, greeting,
                 verdictVars, watch, life>>

ProbeGone ==
  /\ sock["probe"] = "hanging" /\ hang = "done"
  /\ Move("probe", "gone")
  /\ UNCHANGED <<receiveOnly, callVars, states, tokens, authed, ready, greeting,
                 stimulus, verdictVars, endVars>>

\* The hangups returned or raised, or their timeout is itself a failure; then
\* the manifest is written again with the teardown's result.
HangReturns ==
  /\ hang = "running"
  /\ hang' = "done"
  /\ failed' \in {failed} \cup (IF target = {} THEN {} ELSE {TRUE})
  /\ manifest' = IF failed' THEN "NO_GO" ELSE manifest
  /\ UNCHANGED <<receiveOnly, callVars, states, sockVars, watch, target, life>>

\* The watchdog wakes and finds a deadline passed: the call's, the greeting's, or
\* that of a state not reached.  What happened while it slept is not looked at.
WatchTimesOut ==
  /\ watch = "watching"
  /\ Fail /\ StartHang /\ watch' = "hanging"
  /\ UNCHANGED <<receiveOnly, callVars, states, sockVars, life>>

\* Mutant of WatchSees: the watchdog leaves the teardown to whoever failed.
WatchSeesOnly ==
  /\ watch = "watching" /\ (failed \/ Completed)
  /\ watch' = "ended" /\ UNCHANGED <<hang, target>>
  /\ UNCHANGED <<receiveOnly, callVars, states, sockVars, verdictVars, life>>

\* The watchdog sees a failure, or the end of the capture.
WatchSees ==
  /\ watch = "watching" /\ (failed \/ Completed)
  /\ IF failed THEN StartHang /\ watch' = "hanging"
     ELSE watch' = "ended" /\ UNCHANGED <<hang, target>>
  /\ UNCHANGED <<receiveOnly, callVars, states, sockVars, verdictVars, life>>

WatchEnds ==
  /\ watch = "hanging" /\ hang = "done"
  /\ watch' = "ended"
  /\ UNCHANGED <<receiveOnly, callVars, states, sockVars, verdictVars, hang, target, life>>

\* The server stops: it waits for its handlers (a lost socket ends them), then the
\* application cancels dial and watchdog and hangs up.
LifespanEnds ==
  /\ life = "up"
  /\ sock["probe"] \in {"off", "gone"}
  /\ \A w \in Webhooks : hook[w] \in {"new", "done"}
  /\ life' = "ending" /\ watch' = "ended" /\ StartHang
  /\ dial' = IF dial = "dialing" THEN "cancelled" ELSE dial
  /\ UNCHANGED <<receiveOnly, legs, hook, answered, streams, bridges, states,
                 sockVars, verdictVars>>

Down ==
  /\ life = "ending" /\ hang = "done"
  /\ life' = "down"
  /\ UNCHANGED <<receiveOnly, callVars, states, sockVars, verdictVars, watch, hang, target>>

Calling ==
  \/ DialReturns \/ DialFails
  \/ Initiated \/ AgentStreamStarts
  \/ \E leg \in Legs : Answered(leg) \/ Bridged(leg) \/ HungUpByFarEnd(leg)
  \/ \E w \in Webhooks : StreamRefused(w) \/ StreamStarts(w)

Measuring ==
  \/ \E r \in Roles : Connects(r) \/ RejectsSocket(r) \/ StartFrame(r)
                      \/ SocketFails(r)
  \/ ProbeBridged \/ AgentStarts \/ GreetingStarts \/ HearsGreeting
  \/ PlaybackRequested \/ FixtureClaimed \/ HandoffStarts \/ StimulusSent
  \/ MatchesStimulus \/ CapturesResponse \/ ProbeFails

Ending ==
  \/ ProbeCloses \/ ProbeGone \/ HangReturns \/ WatchTimesOut \/ WatchSees
  \/ WatchEnds \/ LifespanEnds \/ Down

Next == Calling \/ Measuring \/ Ending

\* Deadlines expire, and the tasks that tear down run: the hangup has its own
\* timeout.  Nothing is assumed of Telnyx, of the sockets or of the operator.
Fairness ==
  /\ WF_vars(WatchTimesOut \/ WatchSees) /\ WF_vars(WatchEnds)
  /\ WF_vars(HangReturns) /\ WF_vars(ProbeCloses) /\ WF_vars(ProbeGone)
  /\ WF_vars(Down)

Spec == Init /\ [][Next]_vars /\ Fairness

-----------------------------------------------------------------------------
(* Properties *)

\* However call.answered and call.bridged interleave, or come again after their
\* ids were forgotten, the bridge is requested once and only for two answered
\* legs, and a role has a pending token or a socket but never both.
BridgeOnce ==
  /\ bridges <= 1
  /\ bridges = 1 => answered = Legs
  /\ tokens \cap authed = {}

\* PHASE2_REPORT.md, Readiness: the agent starts only when both measured
\* channels and the caller line are there, and what is measured is in order:
\* greeting, stimulus, response.
MeasuredInOrder ==
  /\ greeting => MeasurementReady /\ "BRIDGED" \in states
                 /\ (receiveOnly => "keeper" \in authed)
  /\ "AGENT_AUDIO" \in states => greeting
  /\ "STIMULUS_STARTED" \in states => "AGENT_AUDIO" \in states
  /\ "STIMULUS_COMPLETED" \in states
       => stimulus = "completed" /\ "STIMULUS_STARTED" \in states
  /\ Completed => "STIMULUS_COMPLETED" \in states

\* PHASE2_REPORT.md:112: a failure is followed by bounded teardown of both
\* identified legs.  Whatever Telnyx, the sockets and the operator do, a leg that the controller
\* knows when the hangup task is created, by whoever sees the end first, is hung
\* up, and the task finishes.  A leg that becomes known later, by a dial that
\* returns late or by the webhook of leg B, is not the task's: the code never
\* hangs it up (acoustic_probe.py:1028-1040, 881, 903-918).
CallsEnd ==
  /\ <>(hang = "done")
  /\ \A leg \in Legs :
       (leg \in legs /\ hang = "none") ~> (hang = "done" /\ leg \in target)
=============================================================================
