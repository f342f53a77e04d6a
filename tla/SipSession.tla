----------------------------- MODULE SipSession -----------------------------
(***************************************************************************)
(* One measured call of the SIP harness: the session's state machine       *)
(* (bench/sip_harness.py, SipSession) driven by the media stack's clock    *)
(* and by the loop of run_live_call (bench/sip_media_pjsua.py).            *)
(*                                                                         *)
(* Time is counted in frames of 20 ms.  A received frame is the level its  *)
(* detector sees; a lost packet is heard as concealed audio Depth frames   *)
(* after it should have arrived, and the stack counts it when the next     *)
(* packet arrives, however many were lost in a row; one that arrives after *)
(* it was counted takes the count back.  The session must not certify      *)
(* concealed audio as the agent's.                                         *)
(***************************************************************************)
EXTENDS Integers, Sequences, FiniteSetsExt

CONSTANTS
  Modes,          \* capture modes: the choices
  Horizon,        \* call_cap_ns
  StateTimeout,   \* state_timeout_ns
  GreetingHorizon,\* greeting_horizon_ns
  DeliveryTimeout,\* DELIVERY_CONFIRMATION_TIMEOUT_NS
  StallBound,     \* WATERMARK_STALL_BOUND_NS
  Observation,    \* control_observation_ns
  Offset,         \* barge_offset_ns
  Arm,            \* frames of minimum_active_ms
  Hold,           \* frames of sustained_silence_ms
  Sep,            \* frames of separating_silence_ns
  Fixture,        \* frames of the stimulus; its first is its onset
  Search,         \* frames of echo_search_ms
  Poll,           \* STATS_POLL_NS
  Depth,          \* JITTER_BUFFER_MS
  Pad,            \* VOID_END_PAD_NS
  MaxVoids,       \* MAX_RX_VOID_EVENTS
  Lag,            \* frames the media clock may run ahead of the loop
  MaxRing,        \* bound: when the call is answered at the latest, if ever
  MaxChanges,     \* bound: changes of the agent's level
  MaxLost,        \* bound: packets lost in a row, to be set well above Depth
  MaxLate,        \* bound: packets that arrive after they were counted as lost
  MaxFaults       \* bound: runs of lost packets, failed polls, bursts, late turns, endings

ASSUME SipConstants ==
  /\ Modes \subseteq {"measurement", "no-stimulus", "echo-control", "agent-only", "phase3"}
  /\ {Horizon, Arm, Hold, Sep, Fixture, Poll, Pad} \subseteq Nat \ {0}
  /\ {Depth, Lag, Search} \subseteq Nat
  /\ Depth + Lag <= Pad /\ Depth + Lag < Arm

VARIABLES
  s,          \* the session
  now,        \* time.monotonic_ns()
  concealed,  \* when concealed audio is (or will be) heard
  missing,    \* packets lost and not counted yet
  lossCount,  \* rxStat.loss
  media,      \* the stack attaches its port to the call
  wire,       \* packets are really transmitted
  sent,       \* txStat.pkt
  pc,         \* where the loop is: "top", "judge", "poll", "done"
  at,         \* its now_ns
  lastStats,  \* last_stats_ns
  known,      \* known_loss
  seen,       \* answered_seen
  gone,       \* remote_disconnected
  result,     \* outcome, as the loop knows it
  changes, faults,
  revised,    \* history: how often the counter was revised downward, until it catches up
  overlooked  \* history: concealed audio that no poll could tell of in time

loopVars == <<at, lastStats, known, seen, result>>
envVars == <<concealed, missing, lossCount, media, wire, sent, gone, changes, faults,
             revised, overlooked>>
vars == <<s, now, pc, loopVars, envVars>>

None == -1
Levels == {"active", "faint", "silent"}   \* between the thresholds: faint
Session(mode) ==
  [mode |-> mode, outcome |-> "none", answered |-> None, rx |-> <<>>,
   anchor |-> None, stop |-> None, scan |-> 0, runStart |-> 0, run |-> 0,
   holdStart |-> 0, dStart |-> 0, dRun |-> 0, cand |-> 0, sched |-> None,
   armed |-> FALSE, next |-> 0, boundary |-> None, fixEnd |-> None, sep |-> None,
   gate |-> TRUE, lastPull |-> None, voids |-> {}, mark |-> 0, counters |-> None,
   base |-> None, confirmed |-> FALSE, snapshot |-> FALSE, pending |-> "none",
   teardown |-> "none"]

Init ==
  /\ \E mode \in Modes : s = Session(mode)
  /\ now = 0 /\ concealed = {} /\ missing = 0 /\ lossCount = 0 /\ sent = 0
  /\ media \in BOOLEAN /\ wire \in BOOLEAN /\ (media \/ wire)
  /\ pc = "top" /\ at = None /\ lastStats = 0 /\ known = 0 /\ seen = FALSE
  /\ gone = FALSE /\ result = "none" /\ changes = 0
  /\ revised = 0 /\ overlooked = {}
  /\ faults = IF media /\ wire THEN 0 ELSE 1

\* The first outcome stands.
Fail(S, category) == IF S.outcome = "none" THEN [S EXCEPT !.outcome = category] ELSE S

-----------------------------------------------------------------------------
(* Voids *)

InVoid(S, t) == \E v \in S.voids : v[1] <= t /\ t <= v[2]
Clear(S, from, to) == \A v \in S.voids : to < v[1] \/ from > v[2]

\* Mutant of ReportLoss: the void begins when the loss is reported, though the
\* packets were lost, and concealed, since the poll before.
ReportLossAhead(S, from, to) ==
  IF S.outcome # "none" THEN S
  ELSE LET T == [S EXCEPT !.voids = @ \cup {<<to - Pad, to>>}]
       IN IF Cardinality(T.voids) > MaxVoids THEN Fail(T, "rx_timeline_discontinuity") ELSE T

\* report_rx_loss.
ReportLoss(S, from, to) ==
  IF S.outcome # "none" THEN S
  ELSE LET T == [S EXCEPT !.voids = @ \cup {<<from, to>>}]
       IN IF Cardinality(T.voids) > MaxVoids THEN Fail(T, "rx_timeline_discontinuity") ELSE T

-----------------------------------------------------------------------------
(* _analyze: one verdicted window at a time *)

\* Nothing is certified across an unknown window.
Unknown(S) == [S EXCEPT !.runStart = 0, !.run = 0, !.holdStart = 0, !.dStart = 0, !.dRun = 0]

Overlaps(S, t) ==
  /\ S.mode = "measurement" /\ S.boundary # None /\ t >= S.boundary
  /\ S.fixEnd = None \/ t < S.fixEnd

\* Waiting for sustained activity: the anchor, and phase 3's schedule.
Anchoring(S, i, active) ==
  LET start == IF S.runStart = 0 THEN i ELSE S.runStart IN
  IF ~active THEN [S EXCEPT !.runStart = 0, !.run = 0]
  ELSE IF S.run + 1 < Arm THEN [S EXCEPT !.runStart = start, !.run = @ + 1]
  ELSE [S EXCEPT !.runStart = start, !.run = @ + 1, !.anchor = S.rx[start].host,
                 !.sched = IF S.mode = "phase3" THEN S.rx[start].host + Offset ELSE None]

\* Waiting for the stop: a hold of silence clear of every void.
Holding(S, i, silent) ==
  LET t == S.rx[i].host
      start == IF S.holdStart = 0 THEN i ELSE S.holdStart
      A == [S EXCEPT !.armed = @ \/ (S.sched # None /\ t >= S.sched /\ S.boundary = None)]
  IN
  IF ~silent THEN [A EXCEPT !.holdStart = 0]
  ELSE IF i - start + 1 < Hold THEN [A EXCEPT !.holdStart = start]
  ELSE IF ~Clear(S, S.rx[start].host, t) THEN [A EXCEPT !.holdStart = 0]
  ELSE [A EXCEPT !.holdStart = start, !.stop = S.rx[start].host,
                 !.outcome = IF S.mode = "agent-only" THEN "control agent-only" ELSE "none",
                 !.armed = @ \/ S.mode \in {"measurement", "echo-control"}]

\* Window D: the first sustained activity after the boundary, kept.
Responding(S, i, active) ==
  LET start == IF S.dStart = 0 THEN i ELSE S.dStart IN
  IF ~active THEN [S EXCEPT !.dStart = 0, !.dRun = 0]
  ELSE [S EXCEPT !.dStart = start, !.dRun = @ + 1,
                 !.cand = IF S.dRun + 1 >= Arm /\ @ = 0 THEN start ELSE @]

\* Mutant of Awaits: a response is looked for before the separating silence.
AwaitsNothing(S, t) == S.mode \in {"no-stimulus", "echo-control"} \/ S.snapshot

\* No response is looked for yet, or any more.
Awaits(S, t) ==
  \/ S.mode \in {"no-stimulus", "echo-control"}
  \/ S.sep = None \/ t < S.sep \/ S.snapshot

\* A level consumed before the stimulus is not read again: it is forgotten.
ScanWindow(S0, i) ==
  LET t == S0.rx[i].host
      active == S0.rx[i].level = "active"
      S == [S0 EXCEPT !.scan = i,
                      !.rx[i].level = IF S0.boundary = None THEN "heard" ELSE @]
  IN
  IF S0.outcome # "none" THEN S0
  ELSE IF InVoid(S, t) THEN Unknown(S)
  ELSE IF active /\ Overlaps(S, t) THEN Fail(S, "stimulus_overlap")
  ELSE IF S.anchor = None THEN Anchoring(S, i, active)
  ELSE IF S.stop = None THEN Holding(S, i, S0.rx[i].level = "silent")
  ELSE IF Awaits(S, t) THEN S ELSE Responding(S, i, active)

\* The windows not yet consumed, in order, up to the watermark.
Scan(S) ==
  LET scanned[i \in S.scan..Len(S.rx)] ==
        IF i = S.scan THEN S
        ELSE IF S.rx[i].host >= S.mark THEN scanned[i - 1]
        ELSE ScanWindow(scanned[i - 1], i)
  IN scanned[Len(S.rx)]

-----------------------------------------------------------------------------
(* What _analyze prepares after the scan *)

\* The separating silence may begin at window k: silent and verdicted from there
\* for as long as it must last, after the fixture and clear of every void.
Separates(S, k) ==
  LET from == S.rx[k].host IN
  /\ from >= S.fixEnd /\ from + Sep < S.mark /\ Clear(S, from, from + Sep)
  /\ \A j \in k..(k + Sep - 1) :
       /\ j <= Len(S.rx) /\ S.rx[j].host < S.mark
       /\ S.rx[j].level = "silent" /\ ~InVoid(S, S.rx[j].host)

\* The first contiguous, void-free, verdicted silence after the fixture.
Separating(S) ==
  LET starts == {k \in 1..Len(S.rx) : Separates(S, k)} IN
  IF starts = {} THEN S
  ELSE [S EXCEPT !.sep = S.rx[Min(starts)].host + Sep, !.gate = FALSE]

Until(S, first) == IF first + Fixture + Search <= Len(S.rx) THEN first + Fixture + Search
                   ELSE Len(S.rx)

\* Mutant of Judgeable: the audio is judged before its losses are known.
JudgeableEarly(S, first) == Len(S.rx) >= first - 1 + Fixture + Search

\* What is judged spans the fixture and the search, and has its verdict.
Judgeable(S, first) ==
  /\ Len(S.rx) >= first - 1 + Fixture + Search
  /\ S.rx[Until(S, first)].host < S.mark

\* Window D's audio is judged once it spans the fixture and the search; a void
\* after its first activity looks for another.
EchoSnapshot(S) ==
  IF ~Clear(S, S.rx[S.cand].host, S.rx[S.scan].host)
  THEN [S EXCEPT !.cand = 0, !.dStart = 0, !.dRun = 0]
  ELSE [S EXCEPT !.snapshot = @ \/ Judgeable(S, S.cand)]

EchoControlSnapshot(S) ==
  LET after == {i \in DOMAIN S.rx : S.rx[i].host >= S.boundary} IN
  IF S.snapshot \/ S.pending # "none" \/ after = {} THEN S
  ELSE LET first == Min(after)
       IN IF ~Judgeable(S, first) THEN S
          ELSE IF ~Clear(S, S.rx[first].host, S.rx[Until(S, first)].host)
          THEN Fail(S, "rx_timeline_discontinuity")
          ELSE [S EXCEPT !.snapshot = TRUE]

NoStimulusSnapshot(S) ==
  LET heard == Cardinality({i \in DOMAIN S.rx : S.rx[i].host >= S.stop}) IN
  IF S.snapshot \/ S.pending # "none" \/ heard < Fixture THEN S
  ELSE IF ~Clear(S, S.stop, S.rx[S.scan].host) THEN Fail(S, "rx_timeline_discontinuity")
  ELSE [S EXCEPT !.snapshot = TRUE]

Analyze(S) ==
  LET A == Scan(S)
      B == IF A.outcome # "none" \/ A.fixEnd = None THEN A
           ELSE IF A.mode = "echo-control" THEN EchoControlSnapshot(A)
           ELSE IF A.sep = None THEN Separating(A) ELSE A
  IN IF B.outcome = "none" /\ B.cand # 0 THEN EchoSnapshot(B) ELSE B

-----------------------------------------------------------------------------
(* tick: analysis, then the deadlines in their order *)

CapCategory(S) ==
  IF S.mode \notin {"measurement", "phase3"} /\ S.stop # None THEN "capture_limit_reached"
  ELSE IF S.boundary # None THEN "post_stimulus_response_not_observed"
  ELSE IF S.anchor # None THEN "natural_stop_not_observed"
  ELSE "agent_audio_not_observed"

Deadlines(S, t) ==
  IF S.outcome # "none" THEN S
  ELSE IF t >= Horizon THEN Fail(S, CapCategory(S))
  ELSE IF /\ S.mode \in {"measurement", "echo-control", "phase3"}
          /\ S.fixEnd # None /\ ~S.confirmed /\ t - S.fixEnd >= DeliveryTimeout
       THEN Fail(S, "stimulus_send_failed")
  ELSE IF S.mode = "no-stimulus" /\ S.stop # None /\ t - S.stop >= Observation
       THEN NoStimulusSnapshot(S)
  ELSE IF S.answered = None
       THEN IF t >= StateTimeout THEN Fail(S, "answer_timeout") ELSE S
  ELSE IF S.rx = <<>>
       THEN IF t - S.answered >= StateTimeout THEN Fail(S, "stream_start_failed") ELSE S
  ELSE IF /\ S.stop = None
          /\ t - (IF S.anchor # None THEN S.anchor ELSE S.answered) >= GreetingHorizon
       THEN Fail(S, IF S.anchor # None THEN "natural_stop_not_observed"
                    ELSE "agent_audio_not_observed")
  ELSE IF /\ S.mode \in {"measurement", "phase3"} /\ S.fixEnd # None /\ S.sep = None
          /\ t - S.fixEnd > Sep + StateTimeout
       THEN Fail(S, "stimulus_boundary_ambiguous")
  ELSE S

Tick(S, t) ==
  IF S.outcome # "none" THEN S
  ELSE IF S.rx # <<>> /\ t - S.mark > StallBound THEN Fail(S, "rx_timeline_discontinuity")
  ELSE Deadlines(IF S.answered # None /\ S.rx # <<>> THEN Analyze(S) ELSE S, t)

-----------------------------------------------------------------------------
(* The verdict, and the delivery of the stimulus *)

Complete(S, verdict) ==
  CASE S.mode = "no-stimulus" -> [S EXCEPT !.outcome = "control no-stimulus"]
    [] S.mode = "echo-control" -> [S EXCEPT !.outcome = "control echo"]
    [] OTHER -> IF verdict = "echo" THEN Fail(S, "post_stimulus_echo_detected")
                ELSE [S EXCEPT !.outcome = IF S.mode = "phase3" THEN "phase3 captured"
                                           ELSE "captured"]

\* A verdict without confirmed delivery waits for it.
ApplyVerdict(S, verdict) ==
  IF S.outcome # "none" \/ ~S.snapshot THEN S
  ELSE LET T == [S EXCEPT !.snapshot = FALSE] IN
       IF S.mode # "no-stimulus" /\ ~S.confirmed THEN [T EXCEPT !.pending = verdict]
       ELSE Complete(T, verdict)

\* observe_counters: the fixture's frames must show in the packets sent.
ObserveCounters(S, packets, t) ==
  IF S.outcome # "none" THEN S
  ELSE LET T == [S EXCEPT !.counters = packets]
           D == [T EXCEPT !.confirmed = TRUE, !.pending = "none"]
       IN IF S.counters # None /\ packets < S.counters THEN Fail(S, "stimulus_send_failed")
          ELSE IF \/ S.fixEnd = None \/ t < S.fixEnd \/ S.confirmed
                  \/ S.base = None \/ packets - S.base < Fixture THEN T
          ELSE IF S.pending = "none" THEN D ELSE Complete(D, S.pending)

-----------------------------------------------------------------------------
(* The media clock *)

\* pull_tx_frame: a burst fails the run while boundaries are measured.
PullTx(S0, t) ==
  LET burst == S0.lastPull = t /\ S0.gate
      S == [(IF burst THEN Fail(S0, "media_ordering_anomaly") ELSE S0) EXCEPT !.lastPull = t]
  IN
  IF ~S.armed \/ S.next = Fixture THEN S
  ELSE [S EXCEPT !.next = @ + 1,
                 !.boundary = IF S.next = 0 THEN t ELSE @,
                 !.base = IF S.next = 0 THEN S.counters ELSE @,
                 !.fixEnd = IF S.next + 1 = Fixture THEN t + 1 ELSE @]

\* handle_rx_frame.
ReceiveRx(S, level, t) ==
  IF S.outcome # "none" \/ S.answered = None THEN S
  ELSE [S EXCEPT !.rx = Append(@, [host |-> t, level |-> level])]

\* An agent that starts speaking later than the media has changed its level.
Keeps(S, level) == level = IF S.rx = <<>> THEN "active" ELSE S.rx[Len(S.rx)].level

\* A frame of the media clock: one in, one out.  A packet may be lost, and any
\* number in a row; the loop may be late, and while it judges the clock does not
\* wait for it.  What the clock does once there is an outcome is not followed.
Frame ==
  /\ s.outcome = "none" /\ now < Horizon + Lag /\ s.answered # None /\ media
  /\ now > at => faults < MaxFaults /\ (pc = "judge" \/ now <= at + Lag)
  /\ now' = now + 1
  /\ \E level \in Levels :
       /\ changes' = changes + (IF Keeps(s, level) THEN 0 ELSE 1)
       /\ changes' <= MaxChanges
       /\ s' = PullTx(ReceiveRx(s, level, now'), now')
  /\ sent' = sent + (IF wire THEN 1 ELSE 0)
  /\ LET late == IF now > at THEN 1 ELSE 0
         begins == IF missing = 0 THEN 1 ELSE 0
     IN
     \/ /\ faults' = faults + late /\ concealed' = concealed
        /\ lossCount' = lossCount + missing /\ missing' = 0
     \/ /\ faults' = faults + late + begins /\ faults' <= MaxFaults
        /\ missing' = missing + 1 /\ missing' <= MaxLost
        /\ concealed' = concealed \cup {now' + Depth} /\ lossCount' = lossCount
  /\ UNCHANGED <<pc, loopVars, media, wire, gone, revised, overlooked>>

\* The loss of the packet that is heard, or concealed, at t has been counted.
Counted(t) == t - Depth < now - missing

\* A packet counted as lost arrives after all: it is played if its time has not
\* come, and the counter is revised downward.
LateArrival ==
  /\ s.outcome = "none" /\ lossCount > 0 /\ revised < MaxLate
  /\ \E t \in concealed :
       Counted(t) /\ concealed' = IF t > now THEN concealed \ {t} ELSE concealed
  /\ lossCount' = lossCount - 1 /\ revised' = revised + 1
  /\ UNCHANGED <<s, now, pc, loopVars, missing, media, wire, sent, gone, changes, faults,
                 overlooked>>

\* The stack catches up: it asks for a second frame at once.
Burst ==
  /\ s.outcome = "none" /\ s.lastPull = now /\ faults < MaxFaults
  /\ s' = PullTx(s, now) /\ faults' = faults + 1
  /\ sent' = sent + (IF wire THEN 1 ELSE 0)
  /\ UNCHANGED <<now, pc, loopVars, concealed, missing, lossCount, media, wire, gone, changes,
                 revised, overlooked>>

\* Time passes without media: before the answer, or because it is not attached.
NoMedia ==
  /\ s.outcome = "none" /\ (s.answered = None \/ ~media)
  /\ now <= at /\ now < Horizon
  /\ now' = now + 1
  /\ UNCHANGED <<s, pc, loopVars, envVars>>

-----------------------------------------------------------------------------
(* The stack's callbacks *)

OnAnswered ==
  /\ pc # "done" /\ s.answered = None /\ ~gone /\ now <= MaxRing
  /\ \/ s' = IF s.outcome = "none" THEN [s EXCEPT !.answered = now] ELSE s
     \/ s' = Fail(s, "media_format_mismatch")
  /\ s' # s
  /\ UNCHANGED <<now, pc, loopVars, envVars>>

\* The media signature changed.
Renegotiated ==
  /\ s.outcome = "none" /\ s.answered # None /\ faults < MaxFaults
  /\ s' = Fail(s, "media_format_mismatch") /\ faults' = faults + 1
  /\ UNCHANGED <<now, pc, loopVars, concealed, missing, lossCount, media, wire, sent, gone, changes,
                 revised, overlooked>>

\* The far end hangs up before the loop does.
OnDisconnected ==
  /\ s.outcome = "none" /\ ~gone /\ faults < MaxFaults
  /\ gone' = TRUE /\ faults' = faults + 1
  /\ s' = [Fail(s, "call_hangup") EXCEPT !.teardown = IF @ = "none" THEN "remote_bye" ELSE @]
  /\ UNCHANGED <<now, pc, loopVars, concealed, missing, lossCount, media, wire, sent, changes,
                 revised, overlooked>>

-----------------------------------------------------------------------------
(* run_live_call *)

\* One turn of the loop: the first turn after the answer takes the baseline of
\* the loss counter and moves the watermark up; then the tick.
Turn ==
  /\ pc = "top" /\ (now > at \/ s.outcome # "none")
  /\ LET first == s.answered # None /\ ~seen
         S == Tick(IF first THEN [s EXCEPT !.mark = now] ELSE s, now)
     IN /\ s' = S /\ seen' = (seen \/ first)
        /\ lastStats' = IF first THEN now ELSE lastStats
        /\ known' = IF first THEN lossCount ELSE known
        /\ result' = IF gone /\ S.outcome = "none" THEN "call_hangup" ELSE S.outcome
        /\ pc' = IF S.snapshot /\ S.outcome = "none" THEN "judge" ELSE "poll"
  /\ at' = now
  /\ UNCHANGED <<now, envVars>>

\* The correlation runs outside the lock, for as long as it takes.
Judge ==
  /\ pc = "judge"
  /\ \E verdict \in {"echo", "no echo"} : s' = ApplyVerdict(s, verdict)
  /\ pc' = "poll"
  /\ UNCHANGED <<now, loopVars, envVars>>

NextTurn == IF result # "none" THEN "done" ELSE "top"
PollDue == seen /\ at - lastStats >= Poll /\ ~gone

\* What this poll cannot tell of, and no later one will: audio heard before it
\* whose loss the stack has not counted yet, and a loss that a count taken back
\* hides behind the greatest value known.
Overlooks(t) ==
  IF Counted(t) THEN revised > 0 /\ lossCount <= known /\ lastStats <= t ELSE t < at

\* The statistics: a loss voids the interval, its verdict moves the watermark.
Polls ==
  /\ pc = "poll" /\ PollDue
  /\ LET L == IF lossCount > known THEN ReportLoss(s, lastStats, at + Pad) ELSE s
         M == [L EXCEPT !.mark = at - Pad]
     IN s' = ObserveCounters(M, sent, at)
  /\ known' = IF lossCount > known THEN lossCount ELSE known
  /\ lastStats' = at /\ pc' = NextTurn
  /\ overlooked' = overlooked \cup {t \in concealed : Overlooks(t) /\ ~InVoid(s', t)}
  /\ revised' = IF lossCount < known THEN revised ELSE 0
  /\ UNCHANGED <<now, at, seen, result, concealed, missing, lossCount, media, wire, sent,
                 gone, changes, faults>>

\* A poll that is not due, or that raises: its span is left to the next one.
NoPoll ==
  /\ pc = "poll"
  /\ IF PollDue THEN faults < MaxFaults /\ faults' = faults + 1 ELSE faults' = faults
  /\ pc' = NextTurn
  /\ UNCHANGED <<s, now, loopVars, concealed, missing, lossCount, media, wire, sent, gone, changes,
                 revised, overlooked>>

Ended == pc = "done" /\ UNCHANGED vars

\* Time is bounded and every turn ends, so a call that did not end would show as
\* a deadlock: only one that has ended may stop.
Next ==
  \/ Frame \/ LateArrival \/ Burst \/ NoMedia \/ OnAnswered \/ Renegotiated \/ OnDisconnected
  \/ Turn \/ Judge \/ Polls \/ NoPoll \/ Ended

Spec == Init /\ [][Next]_vars

-----------------------------------------------------------------------------
(* Properties *)

\* Concealed audio that some poll can tell of.  The rest of it the code cannot
\* void: a run of lost packets that outlasts the jitter buffer is counted only
\* when it ends, and the polls until then certify what is heard meanwhile; a
\* packet that arrives late takes back the count of a loss that was heard.
Tellable == concealed \ overlooked
Spans(from, to) == \E t \in Tellable : from <= t /\ t <= to

\* SIP_HARNESS_SPEC.md:95-112: of what is certified as the agent's silence, the
\* natural-stop hold and the separating silence, nothing was made up by the stack
\* that a poll could tell of, however many packets are lost in a row or arrive
\* late and however the polls and the loop are timed.  A void must therefore
\* begin early enough, end late enough and be known before the watermark passes.
SilenceIsReal ==
  /\ s.stop # None =>
       \A i \in DOMAIN s.rx : s.rx[i].host = s.stop => ~Spans(s.stop, s.rx[i + Hold - 1].host)
  /\ s.sep # None => ~Spans(s.sep - Sep, s.sep)

\* The same of the audio that is judged (SIP_HARNESS_SPEC.md:102-104): the
\* response, and in the echo control what follows the stimulus.
JudgedIsReal ==
  LET Real(first) == ~Spans(s.rx[first].host, s.rx[Until(s, first)].host) IN
  /\ s.outcome \in {"captured", "phase3 captured"} => Real(s.cand)
  /\ s.outcome = "control echo" =>
       Real(Min({i \in DOMAIN s.rx : s.rx[i].host >= s.boundary}))

\* A complete measurement has its windows in order, its stimulus transmitted,
\* and no agent speech heard for certain over the stimulus.
CompleteIsSound ==
  s.outcome \in {"captured", "phase3 captured"} =>
    /\ s.anchor < s.stop /\ s.fixEnd <= s.sep - Sep /\ s.rx[s.cand].host >= s.sep
    /\ wire
    /\ s.mode = "measurement" =>
         /\ s.stop < s.boundary
         /\ \A i \in DOMAIN s.rx :
              s.boundary <= s.rx[i].host /\ s.rx[i].host < s.fixEnd =>
                s.rx[i].level # "active" \/ InVoid(s, s.rx[i].host)
=============================================================================
