---------------------------- MODULE MediaCapture ----------------------------
(***************************************************************************)
(* What admits a media socket to a probe run and what vouches for its      *)
(* audio (bench/media_capture.py): one-use stream tokens that expire, a    *)
(* bounded capture, and the ordering counts that the verdict of the run    *)
(* requires to be zero (bench/acoustic_probe.py, the probe's socket).      *)
(*                                                                         *)
(* The provider sends a stream of frames and the network may lose, repeat  *)
(* or reorder any of them.  A frame is its place in the stream; every      *)
(* payload is one unit of PCM, and a timestamp goes up with its chunk.     *)
(***************************************************************************)
EXTENDS Integers, FiniteSets, Sequences

CONSTANTS
  Maximum,      \* pending tokens of the store
  Ttl,          \* TOKEN_TTL_NS, in steps of the clock
  MaxRows,      \* max_event_rows of a capture
  MaxBytes,     \* max_bytes_per_track, in frames
  MaxTokens,    \* bound: tokens asked for, those refused among them
  MaxNow,       \* bound: the clock
  Sent,         \* bound: frames of the stream
  MaxReceived   \* bound: frames that arrive

ASSUME CaptureConstants ==
  /\ {Maximum, Ttl, MaxRows, MaxBytes} \subseteq Nat \ {0}
  /\ {MaxTokens, MaxNow, Sent, MaxReceived} \subseteq Nat

VARIABLES
  now,        \* clock.monotonic_ns()
  issued,     \* the tokens issued: role and expires_ns of each
  refused,    \* history: how many times issue() refused
  pending,    \* tokens of _pending
  admitted,   \* <<token, role>>: the authorizations granted
  stream,     \* the kinds of frame the provider sends
  received,   \* how many frames arrived
  heard,      \* history: the numbers of those that have one, as they arrived
  spoken,     \* history: the chunks of the measured track, as they arrived
  integrity,  \* the socket's BoundedCapture
  capture,    \* the measured channel of the CrossLegCapture
  others,     \* rows the agent's channel took of the CrossLegCapture
  verdict     \* "none", "limit", "anomaly" or "clean"

tokenVars == <<now, issued, refused, pending, admitted>>
arrivals == <<received, heard, spoken>>
frameVars == <<arrivals, integrity, capture, others, verdict>>
captureVars == <<tokenVars, stream, frameVars>>

SocketRoles == {"probe", "agent"}
Tracks == {"inbound", "outbound"}
\* A lifecycle frame need not carry a sequence number (a mark may not).
Kinds == Tracks \cup {"numbered", "unnumbered"}

-----------------------------------------------------------------------------
(* The token store *)

Unexpired == {t \in pending : issued[t].expires > now}

\* Mutant of Issue: expired tokens keep their places.
IssueUnpurged(role) ==
  /\ Len(issued) + refused < MaxTokens
  /\ IF Cardinality(pending) >= Maximum
     THEN refused' = refused + 1 /\ UNCHANGED <<issued, pending>>
     ELSE /\ issued' = Append(issued, [role |-> role, expires |-> now + Ttl])
          /\ pending' = pending \cup {Len(issued')} /\ UNCHANGED refused
  /\ UNCHANGED <<now, admitted, stream, frameVars>>

\* issue(): expired tokens make room first.
Issue(role) ==
  /\ Len(issued) + refused < MaxTokens
  /\ IF Cardinality(Unexpired) >= Maximum     \* stream_auth_capacity
     THEN refused' = refused + 1 /\ pending' = Unexpired /\ UNCHANGED issued
     ELSE /\ issued' = Append(issued, [role |-> role, expires |-> now + Ttl])
          /\ pending' = Unexpired \cup {Len(issued')} /\ UNCHANGED refused
  /\ UNCHANGED <<now, admitted, stream, frameVars>>

\* consume(): token and role must match a pending one; it is gone after that.
Consume(t, role) ==
  /\ t \in DOMAIN issued
  /\ LET match == {p \in Unexpired : p = t /\ issued[p].role = role} IN
       /\ pending' = Unexpired \ match
       /\ admitted' = admitted \cup {<<p, role>> : p \in match}
  /\ UNCHANGED <<now, issued, refused, stream, frameVars>>

Tick ==
  /\ now < MaxNow
  /\ now' = now + 1
  /\ UNCHANGED <<issued, refused, pending, admitted, stream, frameVars>>

-----------------------------------------------------------------------------
(* Frames *)

Numbered(i) == stream[i] # "unnumbered"
SequenceNumber(i) == Cardinality({j \in 1..i : Numbered(j)})
Chunk(i) == Cardinality({j \in 1..i : stream[j] = stream[i]})

\* An OrderingTracker; 0 stands for None.  Of a count, only that it is not 0.
Tracker == [seen |-> {}, sequence |-> 0, chunk |-> [k \in Tracks |-> 0], counts |-> {}]

\* Mutant of SequenceAnomaly: a gap of one frame passes for none.
SequenceAnomalyOffByOne(o, n) ==
  IF o.sequence = 0 THEN {}
  ELSE IF n = o.sequence THEN {"duplicates"}
  ELSE IF n < o.sequence THEN {"sequence_regressions"}
  ELSE IF n > o.sequence + 2 THEN {"sequence_gaps"} ELSE {}

\* observe_frame(): numbering across the socket, then chunks of the track.
SequenceAnomaly(o, n) ==
  IF o.sequence = 0 THEN {}
  ELSE IF n = o.sequence THEN {"duplicates"}
  ELSE IF n < o.sequence THEN {"sequence_regressions"}
  ELSE IF n > o.sequence + 1 THEN {"sequence_gaps"} ELSE {}

ChunkAnomaly(o, track, c) ==
  IF o.chunk[track] = 0 THEN {}
  ELSE IF c < o.chunk[track] THEN {"chunk_regressions", "timestamp_regressions"}
  ELSE IF c > o.chunk[track] + 1 THEN {"chunk_gaps"} ELSE {}

ObserveMedia(o, track, n, c) ==
  IF <<track, n, c>> \in o.seen
  THEN [o EXCEPT !.counts = @ \cup {"duplicates"}]
  ELSE [seen |-> o.seen \cup {<<track, n, c>>}, sequence |-> n,
        chunk |-> [o.chunk EXCEPT ![track] = c],
        counts |-> o.counts \cup SequenceAnomaly(o, n) \cup ChunkAnomaly(o, track, c)]

ObserveOther(o, n) ==
  [o EXCEPT !.sequence = n, !.counts = @ \cup SequenceAnomaly(o, n)]

Unresolved(o) == o.counts # {}

\* A capture: what its tracks hold, and the ordering of its frames.
Empty == [pcm |-> [k \in Tracks |-> <<>>], ordering |-> Tracker]
Rows(c) == Len(c.pcm["inbound"]) + Len(c.pcm["outbound"])
Full(c, track, rows) == rows >= MaxRows \/ Len(c.pcm[track]) + 1 > MaxBytes

Held(c, track, n, chunk) ==
  [pcm |-> [c.pcm EXCEPT ![track] = Append(@, chunk)],
   ordering |-> ObserveMedia(c.ordering, track, n, chunk)]

Listening ==
  /\ verdict = "none" /\ \E a \in admitted : a[2] = "probe"
  /\ received < MaxReceived

\* A frame arrives, with a number and a chunk or without.
Arrives(numbers, chunks) ==
  /\ received' = received + 1
  /\ heard' = heard \o numbers /\ spoken' = spoken \o chunks

\* A media frame: the socket's own record, and for the measured track the
\* channel's, in which a frame is numbered by its chunk.  A record that is
\* full fails the run.
Media(i) ==
  LET k == stream[i] IN
  /\ Listening /\ k \in Tracks
  /\ Arrives(<<SequenceNumber(i)>>, IF k = "outbound" THEN <<Chunk(i)>> ELSE <<>>)
  /\ IF Full(integrity, k, Rows(integrity))
     THEN verdict' = "limit" /\ UNCHANGED <<integrity, capture>>
     ELSE /\ integrity' = Held(integrity, k, SequenceNumber(i), Chunk(i))
          /\ IF k = "inbound" THEN UNCHANGED <<capture, verdict>>
             ELSE IF Full(capture, k, Rows(capture) + others)
             THEN verdict' = "limit" /\ UNCHANGED capture
             ELSE capture' = Held(capture, k, Chunk(i), Chunk(i)) /\ UNCHANGED verdict
  /\ UNCHANGED <<tokenVars, stream, others>>

\* A lifecycle frame: no PCM, only its number.
NonMedia(i) ==
  /\ Listening /\ stream[i] \notin Tracks
  /\ Arrives(IF Numbered(i) THEN <<SequenceNumber(i)>> ELSE <<>>, <<>>)
  /\ integrity' = IF Numbered(i)
                  THEN [integrity EXCEPT !.ordering = ObserveOther(@, SequenceNumber(i))]
                  ELSE integrity
  /\ UNCHANGED <<tokenVars, stream, capture, others, verdict>>

\* The agent's channel takes rows of the same capture.
OtherRow ==
  /\ verdict = "none" /\ Rows(capture) + others < MaxRows
  /\ others' = others + 1
  /\ UNCHANGED <<tokenVars, stream, arrivals, integrity, capture, verdict>>

\* The measurement is over: no count may be other than zero.
Judge ==
  /\ verdict = "none" /\ received > 0
  /\ verdict' = IF Unresolved(capture.ordering) \/ Unresolved(integrity.ordering)
                THEN "anomaly" ELSE "clean"
  /\ UNCHANGED <<tokenVars, stream, arrivals, integrity, capture, others>>

CaptureInit ==
  /\ now = 0 /\ issued = <<>> /\ refused = 0 /\ pending = {} /\ admitted = {}
  /\ stream \in [1..Sent -> Kinds] /\ received = 0 /\ heard = <<>> /\ spoken = <<>>
  /\ integrity = Empty /\ capture = Empty /\ others = 0 /\ verdict = "none"

CaptureNext ==
  \/ \E role \in SocketRoles : Issue(role)
  \/ \E t \in 1..MaxTokens, role \in SocketRoles : Consume(t, role)
  \/ Tick \/ OtherRow \/ Judge
  \/ \E i \in 1..Sent : Media(i) \/ NonMedia(i)

CaptureSpec == CaptureInit /\ [][CaptureNext]_captureVars

-----------------------------------------------------------------------------
(* Properties *)

\* A stream token opens one socket: the first time it is presented at the
\* route it was issued for and before it expires, and never again or anywhere
\* else.  A token that can be used is pending, so it will be admitted.  issue()
\* refuses only when Maximum tokens can still be used, whatever expired
\* unpresented before, and grants one only when fewer can
\* (media_capture.py:58-98).
Usable(t) == issued[t].expires > now /\ ~\E a \in admitted : a[1] = t
TokenStep ==
  /\ \A a \in admitted' \ admitted : Usable(a[1]) /\ a[2] = issued[a[1]].role
  /\ \A t \in pending \ pending' : ~Usable(t) \/ <<t, issued[t].role>> \in admitted'
  /\ \A t \in DOMAIN issued : Usable(t) => t \in pending
  /\ refused' # refused => Cardinality({t \in DOMAIN issued : Usable(t)}) >= Maximum
  /\ Len(issued') > Len(issued) =>
       Cardinality({t \in DOMAIN issued : Usable(t)}) < Maximum
TokenAdmitsOnce == [][TokenStep]_captureVars

\* The audio of a run that was judged clean is an unbroken run of the stream,
\* complete and in order, and a run is judged an anomaly only when frames were
\* lost, repeated or reordered: the six counts, one tracker per socket and one
\* per measured channel, miss nothing and invent nothing
\* (media_capture.py:347-389, acoustic_probe.py:2572-2585).
Consecutive(s) == \A k \in 1..Len(s)-1 : s[k+1] = s[k] + 1
LossLeavesATrace ==
  /\ verdict = "clean" =>
       /\ Consecutive(heard) /\ Consecutive(spoken)
       /\ capture.pcm["outbound"] = spoken
  /\ verdict = "anomaly" => ~Consecutive(heard)
=============================================================================
